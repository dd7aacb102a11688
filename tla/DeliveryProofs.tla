----------------------------- MODULE DeliveryProofs -----------------------------
(***************************************************************************)
(* What comes out of a channel is what went into it.  The first part looks *)
(* at the channel as two pipes, one for each sender, and at the fragments  *)
(* in a pipe: the fragments that reach a client are always in their        *)
(* places, so it never thinks that one has been lost, whatever the network *)
(* does, and whatever is sent, as long as no block has more fragments than *)
(* the receiver keeps.  The second part looks at what the fragments hold:  *)
(* the commands in their order, each once and without gaps, and the files  *)
(* intact.                                                                 *)
(***************************************************************************)
EXTENDS NetchanProofs

\* The part of the state that the pipe from e is about: e's queue, the payload
\* in its reliable buffer, the lists of the receiver and what it took from them.
List(e, s)  == fragbufs[e][s]
Count(e, s) == fragbufcount[e][s]
Out(e, s)   == reliable[e].frag[s]
Got(e, s)   == incomingbufs[Other(e)][s]
Done(e, s)  == incomingready[Other(e)][s]

\* The receiver has not accepted e's latest payload yet.
Awaited(e) == incoming_reliable_sequence[Other(e)] # reliable_sequence[e]

queueOf(e)   == <<waitlist[e], fragbufs[e], fragbufcount[e]>>
writtenBy(e) == <<message[e], written[e], fileQueue[e]>>
transitOf(e) == <<reliable[e], Awaited(e)>>
arrivedOf(e) == <<incomingbufs[Other(e)], incomingready[Other(e)],
                  delivered[Other(e)], files[Other(e)]>>

\* Only blocks, broadcasts or files are cut; a client has no broadcasts.
SizesOf(e) == IF e = "server" THEN BlockSizes \union BroadcastSizes ELSE BlockSizes

\* What one step may do to a pipe.
Writes(e) ==
    /\ \E k \in Nat :
          /\ written'[e] = written[e] + k
          /\ \/ /\ message'[e] = message[e] \o Commands(e, k)
                /\ Len(message'[e]) <= MaxMessage
             \/ overflowed'[e] /\ message'[e] = message[e]
    /\ UNCHANGED <<fileQueue[e], queueOf(e), transitOf(e), arrivedOf(e)>>

Enqueued(e, w, push) ==
    /\ waitlist'[e] = IF push THEN SentWaitlist(w, fragbufs[e]) ELSE w
    /\ fragbufs'[e] = IF push THEN SentFragbufs(w, fragbufs[e]) ELSE fragbufs[e]
    /\ fragbufcount'[e] = IF push THEN SentCount(w, fragbufs[e], fragbufcount[e])
                                  ELSE fragbufcount[e]

Cuts(e) ==
    /\ \E k \in SizesOf(e), push \in BOOLEAN :
          /\ Enqueued(e, [waitlist[e] EXCEPT !["normal"] =
                             QueueAhead(@, message[e], Commands(e, k))], push)
          /\ written'[e] = written[e] + k
    /\ message'[e] = <<>>
    /\ UNCHANGED <<fileQueue[e], transitOf(e), arrivedOf(e)>>

CutsFile(e) ==
    /\ \E name \in FilesOf[e], inMemory \in BOOLEAN :
          /\ Enqueued(e, [waitlist[e] EXCEPT !["file"] =
                             Append(@, FileFragments(name, FileLen[name], inMemory))], TRUE)
          /\ fileQueue'[e] = fileQueue[e] \union {name}
    /\ UNCHANGED <<message[e], written[e], transitOf(e), arrivedOf(e)>>

\* w, f and n are the lists after they have been pushed on.
LoadsFrom(e, w, f, n, requeue) ==
    LET stalled == Stalled(e, f)
        regular == IF stalled THEN <<>> ELSE message[e]
        payload == LoadedPayload(regular, f, n)
    IN  /\ requeue => stalled
        /\ waitlist'[e] = IF requeue
                          THEN [w EXCEPT !["normal"] = QueueBlock(@, message[e])] ELSE w
        /\ fragbufs'[e] = Unlinked(f, payload)
        /\ fragbufcount'[e] = n
        /\ message'[e] = IF requeue \/ regular # <<>> THEN <<>> ELSE message[e]
        /\ reliable'[e] = payload
        /\ Awaited(e)' = (regular # <<>> \/ \E s \in Stream : f[s] # <<>>)

Loads(e) ==
    /\ ~Awaited(e) /\ \A s \in Stream : ~Done(e, s)
    /\ \E requeue \in BOOLEAN :
           LoadsFrom(e, SentWaitlist(waitlist[e], fragbufs[e]),
                     SentFragbufs(waitlist[e], fragbufs[e]),
                     SentCount(waitlist[e], fragbufs[e], fragbufcount[e]), requeue)
    /\ UNCHANGED <<written[e], fileQueue[e], arrivedOf(e)>>

Clears(e) ==
    /\ ~Awaited(e) /\ ~Awaited(e)' /\ reliable'[e] = EmptyPayload
    /\ UNCHANGED <<queueOf(e), writtenBy(e), arrivedOf(e)>>

\* The receiver r takes over the streams in `copied' from its lists.
TakesOver(r, bufs, ready, regular, copied) ==
    /\ incomingbufs'[r] = [s \in Stream |-> IF s \in copied THEN <<>> ELSE bufs[s]]
    /\ incomingready'[r] = [s \in Stream |-> s \notin copied /\ ready[s]]
    /\ delivered'[r] = delivered[r] \o (regular \o CopiedCommands(bufs, copied))
    /\ files'[r] = files[r] \union CopiedFiles(r, bufs, copied)

BufsWith(e)  == StoredBufs(incomingbufs[Other(e)], reliable[e].frag)
ReadyWith(e) == StoredReady(incomingready[Other(e)], BufsWith(e), reliable[e].frag)

Accepts(e) ==
    /\ Awaited(e) /\ ~Awaited(e)' /\ \A s \in Stream : ~Done(e, s)
    /\ TakesOver(Other(e), BufsWith(e), ReadyWith(e), reliable[e].regular,
                 IF e = "client" THEN Ready(ReadyWith(e)) ELSE {})
    /\ UNCHANGED <<queueOf(e), writtenBy(e), reliable[e]>>

Copies(e) ==
    /\ ~Awaited(e)
    /\ TakesOver(Other(e), incomingbufs[Other(e)], incomingready[Other(e)], <<>>,
                 Ready(incomingready[Other(e)]))
    /\ UNCHANGED <<queueOf(e), writtenBy(e), transitOf(e)>>

Rests(e) == UNCHANGED <<queueOf(e), writtenBy(e), transitOf(e), arrivedOf(e)>>

PipeStep(e) == \/ Writes(e) \/ Cuts(e) \/ CutsFile(e) \/ Loads(e) \/ Clears(e)
               \/ Accepts(e) \/ Copies(e) \/ Rests(e)

\* The client looks for a lost fragment in what it has accepted.
ReconnectStep ==
    \/ UNCHANGED reconnect
    \/ /\ Accepts("server")
       /\ reconnect' = (reconnect \/ OutOfPlace(BufsWith("server"), reliable["server"].frag))

-----------------------------------------------------------------------------
\* A packet has fragments only if it is reliable.
PlainInv == \A p \in net : ~p.reliable => p.payload = EmptyPayload

\* With a completed block in its lists the receiver has not acknowledged the
\* payload that has completed it, so no other can come.  A server has none: it
\* takes over what it has completed with the same packet.
HeldInv(e) ==
    (\E s \in Stream : Done(e, s)) =>
        /\ e = "server" /\ ~Awaited(e) /\ reliable[e] # EmptyPayload
        /\ \A q \in net : q.from = Other(e) => ~Acknowledges(e, q)

\* The assumption for that: a client that is not active yet, whose packets have
\* nothing but fragments, has nothing to send as fragments.
FragmentsInGame == InGame \/ (BlockSizes = {} /\ FilesOf["client"] = {})

\* So each of its packets leaves a payload to the server.
LeavesInv ==
    /\ \A p \in net : p.from = "client" => LeavesPayload(p)
    /\ InGame => active
    /\ ~InGame => \A s \in Stream : /\ waitlist["client"][s] = <<>>
                                    /\ fragbufs["client"][s] = <<>>
                                    /\ reliable["client"].frag[s] = NoFragment

-----------------------------------------------------------------------------
(***************************************************************************)
(* What the operations of the two hosts do to the pipes.                   *)
(***************************************************************************)
LEMMA Types ==
    ASSUME ChannelTypeOK
    PROVE  /\ \A e \in Peer : /\ waitlist[e] \in Waitlists /\ fragbufs[e] \in Fraglists
                              /\ fragbufcount[e] \in Counts /\ message[e] \in Seq(Unit)
                              /\ Other(e) \in Peer /\ Other(e) # e /\ Other(Other(e)) = e
           /\ \A e \in Peer, s \in Stream :
                 /\ List(e, s) \in Seq(Fragbuf) /\ Count(e, s) \in Nat
                 /\ Got(e, s) \in Seq(Fragment) /\ Done(e, s) \in BOOLEAN
                 /\ waitlist[e][s] \in Seq(Seq(Fragbuf))
           /\ "server" \in Peer /\ "client" \in Peer
<1>1. \A e \in Peer : Other(e) \in Peer /\ Other(e) # e /\ Other(Other(e)) = e
  BY TwoPeers
<1>. QED BY <1>1 DEF ChannelTypeOK, Waitlists, Fraglists, Counts, List, Count, Got, Done, Peer

\* What the pipes share: a step that leaves this alone rests both.
pipeVars == <<queueVars, reliable, reliable_sequence, incoming_reliable_sequence, recvVars, dataVars>>

LEMMA QuietRests ==
    ASSUME UNCHANGED pipeVars
    PROVE  \A e \in Peer : Rests(e)
BY DEF pipeVars, queueVars, recvVars, dataVars, Rests, queueOf, writtenBy, transitOf, arrivedOf, Awaited

LEMMA WriteMessagePipe ==
    ASSUME HostsInv, NEW x \in Peer, NEW k \in Nat, WriteMessage(x, Commands(x, k)),
           written' = [written EXCEPT ![x] = @ + k],
           UNCHANGED <<fileQueue, delivered, files>>
    PROVE  Writes(x) /\ Rests(Other(x))
<1>1. /\ ChannelTypeOK /\ written \in [Peer -> Nat] /\ Other(x) \in Peer /\ Other(x) # x
      /\ message[x] \in Seq(Unit)
  BY Types DEF HostsInv, TypeInv
<1>2. UNCHANGED <<waitlist, fragbufs, fragbufcount, reliable, reliable_sequence,
                  incoming_reliable_sequence, incomingbufs, incomingready>>
  BY DEF WriteMessage, ackVars, seqVars, recvVars
<1>3. /\ written'[x] = written[x] + k /\ written'[Other(x)] = written[Other(x)]
      /\ message'[Other(x)] = message[Other(x)]
  BY <1>1 DEF WriteMessage, ChannelTypeOK
<1>4. \/ message'[x] = message[x] \o Commands(x, k) /\ Len(message'[x]) <= MaxMessage
      \/ overflowed'[x] /\ message'[x] = message[x]
  <2>1. Commands(x, k) \in Seq(Unit)
    BY <1>1 DEF Commands, Unit
  <2>2. CASE Len(message[x]) + Len(Commands(x, k)) <= MaxMessage /\ ~overflowed[x]
    <3>1. message'[x] = message[x] \o Commands(x, k)
      BY <1>1, <2>2 DEF WriteMessage, ChannelTypeOK
    <3>2. Len(message[x] \o Commands(x, k)) = Len(message[x]) + Len(Commands(x, k))
      BY <1>1, <2>1
    <3>. QED BY <2>2, <3>1, <3>2
  <2>3. CASE ~(Len(message[x]) + Len(Commands(x, k)) <= MaxMessage /\ ~overflowed[x])
    BY <1>1, <2>3 DEF WriteMessage, ChannelTypeOK
  <2>. QED BY <2>2, <2>3
<1>5. Writes(x)
  BY <1>2, <1>3, <1>4 DEF Writes, queueOf, transitOf, arrivedOf, Awaited
<1>6. Rests(Other(x))
  BY <1>2, <1>3 DEF Rests, queueOf, writtenBy, transitOf, arrivedOf, Awaited
<1>. QED BY <1>5, <1>6

LEMMA EnqueuedBy ==
    ASSUME ChannelTypeOK, NEW x \in Peer, NEW w, NEW push \in BOOLEAN, Enqueue(x, w, push)
    PROVE  /\ Enqueued(x, w, push)
           /\ UNCHANGED queueOf(Other(x))
<1>1. Other(x) \in Peer /\ Other(x) # x
  BY Types
<1>. QED BY <1>1 DEF Enqueue, Enqueued, queueOf, ChannelTypeOK

LEMMA CreateFragmentsPipe ==
    ASSUME HostsInv, NEW x \in Peer, NEW k \in SizesOf(x), NEW push \in BOOLEAN,
           CreateFragments(x, Commands(x, k), push),
           written' = [written EXCEPT ![x] = @ + k],
           UNCHANGED <<fileQueue, delivered, files>>
    PROVE  Cuts(x) /\ Rests(Other(x))
<1>1. ChannelTypeOK /\ written \in [Peer -> Nat] /\ Other(x) \in Peer /\ Other(x) # x
  BY Types DEF HostsInv, TypeInv
<1>2. UNCHANGED <<reliable, reliable_sequence, incoming_reliable_sequence, incomingbufs, incomingready>>
  BY DEF CreateFragments, ackVars, seqVars, recvVars
<1>3. /\ written'[x] = written[x] + k /\ written'[Other(x)] = written[Other(x)]
      /\ message'[x] = <<>> /\ message'[Other(x)] = message[Other(x)]
  BY <1>1 DEF CreateFragments, ChannelTypeOK
<1>4. /\ Enqueued(x, [waitlist[x] EXCEPT !["normal"] = QueueAhead(@, message[x], Commands(x, k))], push)
      /\ UNCHANGED queueOf(Other(x))
  BY <1>1, EnqueuedBy DEF CreateFragments
<1>5. Cuts(x)
  BY <1>2, <1>3, <1>4 DEF Cuts, transitOf, arrivedOf, Awaited
<1>6. Rests(Other(x))
  BY <1>2, <1>3, <1>4 DEF Rests, writtenBy, transitOf, arrivedOf, Awaited
<1>. QED BY <1>5, <1>6

LEMMA CreateFileFragmentsPipe ==
    ASSUME HostsInv, NEW x \in Peer, NEW name \in FilesOf[x] \ fileQueue[x], NEW inMemory \in BOOLEAN,
           CreateFileFragments(x, name, FileLen[name], inMemory),
           fileQueue' = [fileQueue EXCEPT ![x] = @ \union {name}],
           UNCHANGED <<written, delivered, files>>
    PROVE  CutsFile(x) /\ Rests(Other(x))
<1>1. /\ ChannelTypeOK /\ fileQueue \in [Peer -> SUBSET FileName]
      /\ Other(x) \in Peer /\ Other(x) # x
  BY Types DEF HostsInv, TypeInv
<1>2. UNCHANGED <<message, reliable, reliable_sequence, incoming_reliable_sequence,
                  incomingbufs, incomingready>>
  BY DEF CreateFileFragments, ackVars, seqVars, recvVars
<1>3. fileQueue'[x] = fileQueue[x] \union {name} /\ fileQueue'[Other(x)] = fileQueue[Other(x)]
  BY <1>1
<1>4. /\ Enqueued(x, [waitlist[x] EXCEPT !["file"] =
                         Append(@, FileFragments(name, FileLen[name], inMemory))], TRUE)
      /\ UNCHANGED queueOf(Other(x))
  BY <1>1, EnqueuedBy DEF CreateFileFragments
<1>5. CutsFile(x)
  BY <1>2, <1>3, <1>4 DEF CutsFile, transitOf, arrivedOf, Awaited
<1>6. Rests(Other(x))
  BY <1>2, <1>3, <1>4 DEF Rests, writtenBy, transitOf, arrivedOf, Awaited
<1>. QED BY <1>5, <1>6

\* What a peer sends is nothing to the other pipe.
LEMMA TransmitElsewhere ==
    ASSUME HostsInv, NEW x \in Peer, NEW length \in Nat, TransmitBits(x, length), UNCHANGED dataVars
    PROVE  Rests(Other(x))
<1>1. ChannelTypeOK /\ Other(x) \in Peer /\ Other(x) # x
  BY Types DEF HostsInv, TypeInv
<1>2. UNCHANGED <<incoming_reliable_sequence, incomingbufs, incomingready,
                  written, fileQueue, delivered, files>>
  BY DEF TransmitBits, ackVars, recvVars, dataVars
<1>3. /\ reliable'[Other(x)] = reliable[Other(x)]
      /\ reliable_sequence'[Other(x)] = reliable_sequence[Other(x)]
  <2>1. (\E load \in Payload : Loaded(x, load)) \/ UNCHANGED <<reliable, reliable_sequence, loads>>
    BY <1>1, TransmitFacts
  <2>. QED BY <1>1, <2>1 DEF Loaded, ChannelTypeOK
<1>4. /\ waitlist'[Other(x)] = waitlist[Other(x)] /\ fragbufs'[Other(x)] = fragbufs[Other(x)]
      /\ fragbufcount'[Other(x)] = fragbufcount[Other(x)] /\ message'[Other(x)] = message[Other(x)]
  <2>1. CASE reliable[x] = EmptyPayload
    <3>1. LoadReliable(x, length)
      BY <2>1 DEF TransmitBits
    <3>. QED BY <1>1, <3>1 DEF LoadReliable, ChannelTypeOK
  <2>2. CASE reliable[x] # EmptyPayload
    <3>1. KeepReliable(x)
      BY <2>2 DEF TransmitBits
    <3>. QED BY <3>1 DEF KeepReliable, queueVars
  <2>. QED BY <2>1, <2>2
<1>. QED BY <1>2, <1>3, <1>4 DEF Rests, queueOf, writtenBy, transitOf, arrivedOf, Awaited

\* A peer loads only when the receiver has nothing of the last payload left.
LEMMA TransmitPipe ==
    ASSUME HostsInv, ReliableInv, NEW x \in Peer, HeldInv(x), NEW length \in Nat,
           TransmitBits(x, length), UNCHANGED dataVars
    PROVE  Loads(x) \/ Rests(x)
<1>1. ChannelTypeOK /\ Other(x) \in Peer /\ Other(x) # x
  BY Types DEF HostsInv, TypeInv
<1>2. UNCHANGED <<incoming_reliable_sequence, incomingbufs, incomingready,
                  written, fileQueue, delivered, files>>
  BY DEF TransmitBits, ackVars, recvVars, dataVars
<1>3. CASE reliable[x] # EmptyPayload
  <2>1. UNCHANGED <<queueVars, reliable, reliable_sequence>>
    BY <1>3 DEF TransmitBits, KeepReliable
  <2>2. UNCHANGED pipeVars
    BY <1>2, <2>1 DEF pipeVars, recvVars, dataVars
  <2>. QED BY <1>1, <2>2, QuietRests
<1>4. CASE reliable[x] = EmptyPayload
  <2>. DEFINE w == SentWaitlist(waitlist[x], fragbufs[x])
              f == SentFragbufs(waitlist[x], fragbufs[x])
              n == SentCount(waitlist[x], fragbufs[x], fragbufcount[x])
              requeue == /\ Stalled(x, f)
                         /\ Len(message[x]) + length > MaxReliablePayload
              regular == IF Stalled(x, f) THEN <<>> ELSE message[x]
              loading == regular # <<>> \/ \E s \in Stream : f[s] # <<>>
              queued == IF requeue THEN [w EXCEPT !["normal"] = QueueBlock(@, message[x])] ELSE w
              left == IF requeue \/ regular # <<>> THEN <<>> ELSE message[x]
              load == LoadedPayload(regular, f, n)
  <2>1. /\ waitlist' = [waitlist EXCEPT ![x] = queued]
        /\ fragbufs' = [fragbufs EXCEPT ![x] = Unlinked(f, load)]
        /\ fragbufcount' = [fragbufcount EXCEPT ![x] = n]
        /\ message' = [message EXCEPT ![x] = left]
        /\ reliable' = [reliable EXCEPT ![x] = load]
        /\ reliable_sequence' = [reliable_sequence EXCEPT ![x] = IF loading THEN 1 - @ ELSE @]
    BY <1>4 DEF TransmitBits, LoadReliable
  <2>2. requeue \in BOOLEAN /\ (requeue => Stalled(x, f)) /\ loading \in BOOLEAN
    BY DEF Stalled
  <2>3. ~Awaited(x) /\ \A s \in Stream : ~Done(x, s)
    BY <1>1, <1>4 DEF ReliableInv, AtMostOneOutstanding, Awaited, HeldInv
  <2>4. LoadsFrom(x, w, f, n, requeue)
    <3>. HIDE DEF w, f, n, requeue, loading
    <3>1. Awaited(x)' = loading
      <4>1. /\ reliable_sequence[x] = 0 \/ reliable_sequence[x] = 1
            /\ incoming_reliable_sequence'[Other(x)] = incoming_reliable_sequence[Other(x)]
            /\ incoming_reliable_sequence[Other(x)] = reliable_sequence[x]
        BY <1>1, <1>2, <2>3 DEF ChannelTypeOK, Bit, Awaited
      <4>2. reliable_sequence'[x] = IF loading THEN 1 - reliable_sequence[x] ELSE reliable_sequence[x]
        BY <1>1, <2>1 DEF ChannelTypeOK
      <4>. QED BY <2>2, <4>1, <4>2 DEF Awaited
    <3>2. /\ waitlist'[x] = queued /\ fragbufs'[x] = Unlinked(f, load) /\ fragbufcount'[x] = n
          /\ message'[x] = left /\ reliable'[x] = load
      BY <1>1, <2>1 DEF ChannelTypeOK
    <3>. QED BY <2>2, <3>1, <3>2 DEF LoadsFrom, loading
  <2>5. Loads(x)
    <3>1. UNCHANGED <<written[x], fileQueue[x], arrivedOf(x)>>
      BY <1>2 DEF arrivedOf
    <3>. HIDE DEF requeue
    <3>. QED BY <2>2, <2>3, <2>4, <3>1 DEF Loads
  <2>. QED BY <2>5
<1>. QED BY <1>3, <1>4

\* A packet that x reads acknowledges x's payload, or leaves its pipe alone.
LEMMA AcknowledgePipe ==
    ASSUME HostsInv, ReliableInv, NEW x \in Peer, NEW p \in net, NEW copied, Process(x, p, copied),
           delivered'[Other(x)] = delivered[Other(x)], files'[Other(x)] = files[Other(x)],
           UNCHANGED <<written, fileQueue>>
    PROVE  Clears(x) \/ Rests(x)
<1>1. ChannelTypeOK /\ Other(x) \in Peer /\ Other(x) # x
  BY Types DEF HostsInv, TypeInv
<1>2. /\ UNCHANGED <<waitlist, fragbufs, fragbufcount, message, reliable_sequence>>
      /\ p.from = Other(x)
  BY DEF Process, seqVars, queueVars
<1>3. /\ incomingbufs'[Other(x)] = incomingbufs[Other(x)]
      /\ incomingready'[Other(x)] = incomingready[Other(x)]
      /\ incoming_reliable_sequence'[Other(x)] = incoming_reliable_sequence[Other(x)]
      /\ reliable'[x] = IF Acknowledges(x, p) THEN EmptyPayload ELSE reliable[x]
  BY <1>1 DEF Process, ChannelTypeOK
<1>4. /\ Awaited(x)' = Awaited(x)
      /\ UNCHANGED <<queueOf(x), writtenBy(x), arrivedOf(x)>>
  BY <1>2, <1>3 DEF Awaited, queueOf, writtenBy, arrivedOf
<1>5. CASE Acknowledges(x, p)
  <2>1. ~Awaited(x)
    BY <1>1, <1>2, <1>5 DEF Acknowledges, ReliableInv, AcksCurrent, Awaited
  <2>. QED BY <1>3, <1>4, <1>5, <2>1 DEF Clears
<1>6. CASE ~Acknowledges(x, p)
  BY <1>3, <1>4, <1>6 DEF Rests, transitOf
<1>. QED BY <1>5, <1>6

\* What a reliable packet brings is what its sender has in the reliable buffer,
\* and nothing of the payload before it is left in the receiver's hands.
LEMMA ReliablePipe ==
    ASSUME HostsInv, ReliableInv, NEW e \in Peer, HeldInv(e), NEW p \in net, NEW copied,
           Process(Other(e), p, copied), p.reliable,
           UNCHANGED <<written[e], fileQueue[e]>>
    PROVE  /\ p.payload = reliable[e] /\ reliable[e] # EmptyPayload
           /\ Awaited(e) /\ ~Awaited(e)' /\ \A s \in Stream : ~Done(e, s)
           /\ UNCHANGED <<queueOf(e), writtenBy(e), reliable[e]>>
<1>1. ChannelTypeOK /\ Other(e) \in Peer /\ Other(e) # e /\ Other(Other(e)) = e
  BY Types DEF HostsInv, TypeInv
<1>2. /\ UNCHANGED <<waitlist, fragbufs, fragbufcount, message, reliable_sequence>>
      /\ p.from = e /\ p.seq > incoming_sequence[Other(e)]
  BY <1>1 DEF Process, seqVars, queueVars, Acceptable
<1>3. /\ p.payload = reliable[e]
      /\ incoming_reliable_sequence[Other(e)] # reliable_sequence[e]
  BY <1>1, <1>2 DEF ReliableInv, FreshIsOutstanding
<1>4. Awaited(e) /\ reliable[e] # EmptyPayload
  BY <1>3 DEF Awaited, ReliableInv, AtMostOneOutstanding
<1>5. \A s \in Stream : ~Done(e, s)
  BY <1>4 DEF HeldInv
<1>6. ~Awaited(e)'
  <2>1. /\ incoming_reliable_sequence[Other(e)] = 0 \/ incoming_reliable_sequence[Other(e)] = 1
        /\ reliable_sequence[e] = 0 \/ reliable_sequence[e] = 1
    BY <1>1 DEF ChannelTypeOK, Bit
  <2>2. incoming_reliable_sequence'[Other(e)] = 1 - incoming_reliable_sequence[Other(e)]
    BY <1>1 DEF Process, ParityAfter, ChannelTypeOK
  <2>. QED BY <1>2, <1>3, <2>1, <2>2 DEF Awaited
<1>7. reliable'[e] = reliable[e]
  BY <1>1 DEF Process, ChannelTypeOK
<1>. QED BY <1>2, <1>3, <1>4, <1>5, <1>6, <1>7 DEF queueOf, writtenBy

\* Any other packet brings nothing.
LEMMA PlainPipe ==
    ASSUME HostsInv, PlainInv, NEW e \in Peer, NEW p \in net, NEW copied,
           Process(Other(e), p, copied), ~p.reliable,
           UNCHANGED <<written, fileQueue>>
    PROVE  /\ p.payload.regular = <<>> /\ \A s \in Stream : p.payload.frag[s] = NoFragment
           /\ BufsAfter(Other(e), p) = incomingbufs[Other(e)]
           /\ ReadyAfter(Other(e), p) = incomingready[Other(e)]
           /\ UNCHANGED <<queueOf(e), writtenBy(e), transitOf(e)>>
<1>1. ChannelTypeOK /\ Other(e) \in Peer /\ Other(e) # e /\ Other(Other(e)) = e
  BY Types DEF HostsInv, TypeInv
<1>2. p.payload.regular = <<>> /\ \A s \in Stream : p.payload.frag[s] = NoFragment
  BY DEF PlainInv, EmptyPayload
<1>3. BufsAfter(Other(e), p) = incomingbufs[Other(e)]
  <2>1. incomingbufs[Other(e)] \in [Stream -> Seq(Fragment)]
    BY <1>1 DEF ChannelTypeOK
  <2>. QED BY <1>2, <2>1 DEF BufsAfter, StoredBufs
<1>4. ReadyAfter(Other(e), p) = incomingready[Other(e)]
  <2>1. incomingready[Other(e)] \in [Stream -> BOOLEAN]
    BY <1>1 DEF ChannelTypeOK
  <2>2. ReadyAfter(Other(e), p) = [s \in Stream |-> incomingready[Other(e)][s] \/ FALSE]
    BY <1>2 DEF ReadyAfter, StoredReady
  <2>3. \A s \in Stream : incomingready[Other(e)][s] \in BOOLEAN
    BY <2>1
  <2>4. ReadyAfter(Other(e), p) = [s \in Stream |-> incomingready[Other(e)][s]]
    BY <2>2, <2>3
  <2>. QED BY <2>1, <2>4
<1>5. UNCHANGED <<waitlist, fragbufs, fragbufcount, message, reliable_sequence>>
  BY DEF Process, seqVars, queueVars
<1>6. /\ reliable'[e] = reliable[e]
      /\ incoming_reliable_sequence'[Other(e)] = incoming_reliable_sequence[Other(e)]
  BY <1>1 DEF Process, ParityAfter, ChannelTypeOK
<1>. QED BY <1>2, <1>3, <1>4, <1>5, <1>6 DEF queueOf, writtenBy, transitOf, Awaited

\* What a receiver keeps.
LEMMA KeptBy ==
    ASSUME HostsInv, NEW r \in Peer, NEW p, NEW copied, Process(r, p, copied)
    PROVE  /\ incomingbufs'[r] = [s \in Stream |-> IF s \in copied THEN <<>> ELSE BufsAfter(r, p)[s]]
           /\ incomingready'[r] = [s \in Stream |-> s \notin copied /\ ReadyAfter(r, p)[s]]
BY DEF Process, ChannelTypeOK, HostsInv, TypeInv

LEMMA NothingCopied ==
    ASSUME NEW r, NEW bufs, NEW ready, ready \in [Stream -> BOOLEAN], bufs = [s \in Stream |-> bufs[s]]
    PROVE  /\ CopiedCommands(bufs, {}) = <<>> /\ CopiedFiles(r, bufs, {}) = {}
           /\ [s \in Stream |-> IF s \in {} THEN <<>> ELSE bufs[s]] = bufs
           /\ [s \in Stream |-> s \notin {} /\ ready[s]] = ready
<1>1. CopiedCommands(bufs, {}) = <<>> /\ CopiedFiles(r, bufs, {}) = {}
  BY DEF CopiedCommands, CopiedFiles
<1>2. [s \in Stream |-> s \notin {} /\ ready[s]] = ready
  <2>1. \A s \in Stream : (s \notin {} /\ ready[s]) = ready[s]
    OBVIOUS
  <2>2. [s \in Stream |-> s \notin {} /\ ready[s]] = [s \in Stream |-> ready[s]]
    BY <2>1, Zenon
  <2>. QED BY <2>2
<1>3. [s \in Stream |-> IF s \in {} THEN <<>> ELSE bufs[s]] = [s \in Stream |-> bufs[s]]
  OBVIOUS
<1>. QED BY <1>1, <1>2, <1>3, Zenon

LEMMA ClientReadPipe ==
    ASSUME HostsInv, ReliableInv, PlainInv, HeldInv("server"), NEW p \in net, ClientReadPacket(p)
    PROVE  /\ Accepts("server") \/ Rests("server")
           /\ Clears("client") \/ Rests("client")
           /\ ReconnectStep
<1>1. /\ ChannelTypeOK /\ "client" \in Peer /\ "server" \in Peer
      /\ Other("server") = "client" /\ Other("client") = "server"
      /\ delivered \in [Peer -> Seq(Unit)] /\ files \in [Peer -> SUBSET File]
  BY Types DEF HostsInv, TypeInv, Other
<1>2. /\ Process("client", p, {}) /\ UNCHANGED <<written, fileQueue, files>>
      /\ delivered' = [delivered EXCEPT !["client"] = @ \o p.payload.regular]
      /\ reconnect' = (reconnect \/ OutOfPlace(BufsAfter("client", p), p.payload.frag))
  BY DEF ClientReadPacket
<1>3. Clears("client") \/ Rests("client")
  <2>1. delivered'["server"] = delivered["server"] /\ files'["server"] = files["server"]
    BY <1>1, <1>2
  <2>. QED BY <1>1, <1>2, <2>1, AcknowledgePipe
<1>4. p.payload.regular \in Seq(Unit) /\ delivered'["client"] = delivered["client"] \o p.payload.regular
  <2>1. p \in Packet
    BY <1>1 DEF ChannelTypeOK
  <2>. QED BY <1>1, <1>2, <2>1 DEF Packet, Payload
<1>. DEFINE bufs == BufsAfter("client", p)
            ready == ReadyAfter("client", p)
<1>5. ready \in [Stream -> BOOLEAN] /\ bufs = [s \in Stream |-> bufs[s]]
  BY DEF ReadyAfter, StoredReady, BufsAfter, StoredBufs
<1>6. incomingbufs'["client"] = bufs /\ incomingready'["client"] = ready
  <2>1. /\ incomingbufs'["client"] = [s \in Stream |-> IF s \in {} THEN <<>> ELSE bufs[s]]
        /\ incomingready'["client"] = [s \in Stream |-> s \notin {} /\ ready[s]]
    BY <1>1, <1>2 DEF Process, ChannelTypeOK
  <2>. HIDE DEF bufs, ready
  <2>. QED BY <1>5, <2>1, NothingCopied
<1>7. CASE p.reliable
  <2>1. /\ p.payload = reliable["server"]
        /\ Awaited("server") /\ ~Awaited("server")' /\ \A s \in Stream : ~Done("server", s)
        /\ UNCHANGED <<queueOf("server"), writtenBy("server"), reliable["server"]>>
    BY <1>1, <1>2, <1>7, ReliablePipe
  <2>2. BufsWith("server") = bufs /\ ReadyWith("server") = ready
    BY <1>1, <2>1 DEF BufsWith, ReadyWith, BufsAfter, ReadyAfter
  <2>3. TakesOver("client", bufs, ready, p.payload.regular, {})
    <3>. HIDE DEF bufs, ready
    <3>1. p.payload.regular \o <<>> = p.payload.regular
      BY <1>4
    <3>2. /\ CopiedCommands(bufs, {}) = <<>> /\ CopiedFiles("client", bufs, {}) = {}
          /\ [s \in Stream |-> IF s \in {} THEN <<>> ELSE bufs[s]] = bufs
          /\ [s \in Stream |-> s \notin {} /\ ready[s]] = ready
      BY <1>5, NothingCopied
    <3>3. files'["client"] = files["client"] \union {}
      BY <1>2
    <3>. QED BY <1>4, <1>6, <3>1, <3>2, <3>3, Zenon DEF TakesOver
  <2>4. Accepts("server")
    <3>1. TakesOver("client", BufsWith("server"), ReadyWith("server"), reliable["server"].regular, {})
      BY <2>1, <2>2, <2>3
    <3>. QED BY <1>1, <2>1, <3>1 DEF Accepts
  <2>5. ReconnectStep
    BY <1>2, <2>1, <2>2, <2>4 DEF ReconnectStep
  <2>. QED BY <1>3, <2>4, <2>5
<1>8. CASE ~p.reliable
  <2>1. /\ p.payload.regular = <<>> /\ \A s \in Stream : p.payload.frag[s] = NoFragment
        /\ bufs = incomingbufs["client"] /\ ready = incomingready["client"]
        /\ UNCHANGED <<queueOf("server"), writtenBy("server"), transitOf("server")>>
    BY <1>1, <1>2, <1>8, PlainPipe
  <2>2. delivered'["client"] = delivered["client"] /\ files'["client"] = files["client"]
    <3>1. delivered["client"] \in Seq(Unit)
      BY <1>1
    <3>2. delivered["client"] \o <<>> = delivered["client"]
      BY <3>1
    <3>. QED BY <1>1, <1>2, <1>4, <2>1, <3>2
  <2>. HIDE DEF bufs, ready
  <2>3. Rests("server")
    BY <1>1, <1>6, <2>1, <2>2 DEF Rests, arrivedOf
  <2>4. ReconnectStep
    <3>1. ~OutOfPlace(BufsAfter("client", p), p.payload.frag)
      BY <2>1 DEF OutOfPlace
    <3>2. reconnect' = reconnect
      BY <1>2, <3>1 DEF HostsInv
    <3>. QED BY <3>2 DEF ReconnectStep
  <2>. QED BY <1>3, <2>3, <2>4
<1>. QED BY <1>7, <1>8

LEMMA ServerAcknowledgePipe ==
    ASSUME HostsInv, ReliableInv, NEW p \in net, ServerReadPacket(p)
    PROVE  Clears("server") \/ Rests("server")
<1>1. /\ "client" \in Peer /\ "server" \in Peer /\ Other("server") = "client"
      /\ delivered \in [Peer -> Seq(Unit)] /\ files \in [Peer -> SUBSET File]
  BY Types DEF HostsInv, TypeInv, Other
<1>2. PICK copied, commands, new :
          /\ Process("server", p, copied) /\ UNCHANGED <<written, fileQueue>>
          /\ delivered' = [delivered EXCEPT !["server"] = @ \o commands]
          /\ files' = [files EXCEPT !["server"] = @ \union new]
  BY DEF ServerReadPacket
<1>3. delivered'["client"] = delivered["client"] /\ files'["client"] = files["client"]
  BY <1>1, <1>2
<1>. QED BY <1>1, <1>2, <1>3, AcknowledgePipe

LEMMA ServerReadPipe ==
    ASSUME HostsInv, ReliableInv, PlainInv, LeavesInv, HeldInv("client"),
           NEW p \in net, ServerReadPacket(p)
    PROVE  (Accepts("client") \/ Rests("client")) /\ HeldInv("client")'
<1>. DEFINE bufs == BufsAfter("server", p)
            ready == ReadyAfter("server", p)
            commands == p.payload.regular \o CopiedCommands(bufs, Ready(ready))
            new == CopiedFiles("server", bufs, Ready(ready))
<1>1. /\ ChannelTypeOK /\ "client" \in Peer /\ "server" \in Peer
      /\ Other("server") = "client" /\ Other("client") = "server"
      /\ delivered \in [Peer -> Seq(Unit)] /\ files \in [Peer -> SUBSET File]
  BY Types DEF HostsInv, TypeInv, Other
<1>2. LeavesPayload(p)
  BY <1>1 DEF LeavesInv, ServerReadPacket, Process
<1>3. /\ Process("server", p, Ready(ready)) /\ UNCHANGED <<written, fileQueue>>
      /\ delivered' = [delivered EXCEPT !["server"] = @ \o commands]
      /\ files' = [files EXCEPT !["server"] = @ \union new]
  BY <1>2 DEF ServerReadPacket
<1>4. ready \in [Stream -> BOOLEAN] /\ bufs = [s \in Stream |-> bufs[s]]
  BY DEF ReadyAfter, StoredReady, BufsAfter, StoredBufs
<1>5. /\ incomingbufs'["server"] = [s \in Stream |-> IF s \in Ready(ready) THEN <<>> ELSE bufs[s]]
      /\ incomingready'["server"] = [s \in Stream |-> s \notin Ready(ready) /\ ready[s]]
  BY <1>1, <1>3 DEF Process, ChannelTypeOK
<1>6. HeldInv("client")'
  <2>1. \A s \in Stream : ~incomingready'["server"][s]
    <3>. HIDE DEF ready
    <3>. QED BY <1>5 DEF Ready
  <2>. QED BY <1>1, <2>1 DEF HeldInv, Done
<1>7. delivered'["server"] = delivered["server"] \o commands /\ files'["server"] = files["server"] \union new
  <2>. HIDE DEF commands, new
  <2>. QED BY <1>1, <1>3
<1>8. CASE p.reliable
  <2>1. /\ p.payload = reliable["client"]
        /\ Awaited("client") /\ ~Awaited("client")' /\ \A s \in Stream : ~Done("client", s)
        /\ UNCHANGED <<queueOf("client"), writtenBy("client"), reliable["client"]>>
    BY <1>1, <1>3, <1>8, ReliablePipe
  <2>2. BufsWith("client") = bufs /\ ReadyWith("client") = ready
    BY <1>1, <2>1 DEF BufsWith, ReadyWith, BufsAfter, ReadyAfter
  <2>3. TakesOver("server", bufs, ready, p.payload.regular, Ready(ready))
    BY <1>5, <1>7, Zenon DEF TakesOver
  <2>4. Accepts("client")
    <3>1. TakesOver("server", BufsWith("client"), ReadyWith("client"), reliable["client"].regular,
                    Ready(ReadyWith("client")))
      BY <2>1, <2>2, <2>3
    <3>. QED BY <1>1, <2>1, <3>1 DEF Accepts
  <2>. QED BY <1>6, <2>4
<1>9. CASE ~p.reliable
  <2>1. /\ p.payload.regular = <<>>
        /\ bufs = incomingbufs["server"] /\ ready = incomingready["server"]
        /\ UNCHANGED <<queueOf("client"), writtenBy("client"), transitOf("client")>>
    BY <1>1, <1>3, <1>9, PlainPipe
  <2>2. Ready(ready) = {}
    BY <1>1, <2>1 DEF Ready, HeldInv, Done
  <2>3. /\ CopiedCommands(bufs, {}) = <<>> /\ CopiedFiles("server", bufs, {}) = {}
        /\ [s \in Stream |-> IF s \in {} THEN <<>> ELSE bufs[s]] = bufs
        /\ [s \in Stream |-> s \notin {} /\ ready[s]] = ready
    BY <1>4, NothingCopied
  <2>. HIDE DEF bufs, ready
  <2>4. incomingbufs'["server"] = bufs /\ incomingready'["server"] = ready
    BY <1>5, <2>2, <2>3, Zenon
  <2>5. delivered'["server"] = delivered["server"] /\ files'["server"] = files["server"]
    <3>1. commands = <<>> \o <<>> /\ new = {}
      BY <2>1, <2>2, <2>3
    <3>2. commands = <<>>
      BY <3>1
    <3>3. delivered["server"] \o <<>> = delivered["server"]
      <4>1. delivered["server"] \in Seq(Unit)
        BY <1>1
      <4>. QED BY <4>1
    <3>. QED BY <1>7, <3>1, <3>2, <3>3
  <2>6. Rests("client")
    BY <1>1, <2>1, <2>4, <2>5 DEF Rests, arrivedOf
  <2>. QED BY <1>6, <2>6
<1>. QED BY <1>8, <1>9

LEMMA ClientCopyRests ==
    ASSUME HostsInv, ClientCopyFragments
    PROVE  Rests("client")
<1>1. /\ ChannelTypeOK /\ "client" \in Peer /\ "server" \in Peer /\ Other("client") = "server"
      /\ delivered \in [Peer -> Seq(Unit)] /\ files \in [Peer -> SUBSET File]
  BY Types DEF HostsInv, TypeInv, Other
<1>2. PICK copied, commands, new :
          /\ CopyFragments("client", copied) /\ UNCHANGED <<written, fileQueue>>
          /\ delivered' = [delivered EXCEPT !["client"] = @ \o commands]
          /\ files' = [files EXCEPT !["client"] = @ \union new]
  BY DEF ClientCopyFragments
<1>3. UNCHANGED <<waitlist, fragbufs, fragbufcount, message, reliable, reliable_sequence,
                  incoming_reliable_sequence>>
  BY <1>2 DEF CopyFragments, ackVars, seqVars, queueVars
<1>4. /\ incomingbufs'["server"] = incomingbufs["server"] /\ incomingready'["server"] = incomingready["server"]
      /\ delivered'["server"] = delivered["server"] /\ files'["server"] = files["server"]
  BY <1>1, <1>2 DEF CopyFragments, ChannelTypeOK
<1>. QED BY <1>1, <1>2, <1>3, <1>4 DEF Rests, queueOf, writtenBy, transitOf, arrivedOf, Awaited

LEMMA ClientCopyPipe ==
    ASSUME HostsInv, HeldInv("server"), ClientCopyFragments
    PROVE  Copies("server") /\ HeldInv("server")'
<1>. DEFINE copied == Ready(incomingready["client"])
            bufs == incomingbufs["client"]
            commands == CopiedCommands(bufs, copied)
            new == CopiedFiles("client", bufs, copied)
<1>1. /\ ChannelTypeOK /\ "client" \in Peer /\ "server" \in Peer
      /\ Other("server") = "client" /\ Other("client") = "server"
      /\ delivered \in [Peer -> Seq(Unit)] /\ files \in [Peer -> SUBSET File]
  BY Types DEF HostsInv, TypeInv, Other
<1>2. /\ copied # {} /\ CopyFragments("client", copied) /\ UNCHANGED <<written, fileQueue>>
      /\ delivered' = [delivered EXCEPT !["client"] = @ \o commands]
      /\ files' = [files EXCEPT !["client"] = @ \union new]
  BY DEF ClientCopyFragments
<1>3. UNCHANGED <<waitlist, fragbufs, fragbufcount, message, reliable, reliable_sequence,
                  incoming_reliable_sequence>>
  BY <1>2 DEF CopyFragments, ackVars, seqVars, queueVars
<1>4. /\ incomingbufs'["client"] = [s \in Stream |-> IF s \in copied THEN <<>> ELSE bufs[s]]
      /\ incomingready'["client"] = [s \in Stream |-> s \notin copied /\ incomingready["client"][s]]
  BY <1>1, <1>2 DEF CopyFragments, ChannelTypeOK
<1>5. ~Awaited("server")
  BY <1>1, <1>2 DEF Ready, HeldInv, Done
<1>6. Copies("server")
  <2>1. commands \in Seq(Unit)
    <3>1. /\ \A s \in Stream : bufs[s] \in Seq(Fragment) /\ (incomingready["client"][s] => bufs[s] # <<>>)
          /\ bufs["file"] \in Seq(FileFragment)
      BY <1>1 DEF HostsInv, FileDataInv, ChannelTypeOK
    <3>. DEFINE ready == incomingready["client"]
    <3>2. copied \in SUBSET Stream /\ copied \subseteq Ready(ready)
      BY DEF Ready
    <3>. HIDE DEF bufs, ready, copied
    <3>3. \A s \in Stream : bufs[s] \in Seq(Fragment) /\ (ready[s] => bufs[s] # <<>>)
      BY <3>1 DEF ready
    <3>. QED BY <1>1, <3>1, <3>2, <3>3, CopiedTypes
  <2>. HIDE DEF commands, new, copied, bufs
  <2>2. delivered'["client"] = delivered["client"] \o (<<>> \o commands)
    <3>1. <<>> \o commands = commands
      BY <2>1
    <3>. QED BY <1>1, <1>2, <3>1
  <2>3. files'["client"] = files["client"] \union new
    BY <1>1, <1>2
  <2>4. TakesOver("client", bufs, incomingready["client"], <<>>, copied)
    BY <1>4, <2>2, <2>3, Zenon DEF TakesOver, commands, new
  <2>. QED BY <1>1, <1>2, <1>3, <1>5, <2>4 DEF Copies, queueOf, writtenBy, transitOf, Awaited, bufs, copied
<1>7. HeldInv("server")'
  <2>1. \A s \in Stream : ~incomingready'["client"][s]
    <3>1. \A s \in Stream : incomingready["client"][s] => s \in copied
      BY DEF Ready
    <3>. QED BY <1>4, <3>1
  <2>. QED BY <1>1, <2>1 DEF HeldInv, Done
<1>. QED BY <1>6, <1>7

\* A packet that is not reliable has nothing in it.
LEMMA TransmitPlain ==
    ASSUME ChannelTypeOK, PlainInv, NEW e \in Peer, NEW length \in Nat, TransmitBits(e, length)
    PROVE  PlainInv'
<1>. DEFINE send == \/ ReliableDropped(e)
                    \/ reliable_sequence'[e] # reliable_sequence[e]
            q == SentPacket(e, length, send)
<1>1. net' = net \union {q}
  BY DEF TransmitBits
<1>2. ~q.reliable => q.payload = EmptyPayload
  BY DEF SentPacket
<1>. HIDE DEF q
<1>. QED BY <1>1, <1>2 DEF PlainInv

\* What the completed blocks of a client rest on.
heldVars == <<incomingready, reliable, reliable_sequence, incoming_reliable_sequence,
              last_reliable_sequence, net>>

LEMMA QuietHolds ==
    ASSUME PlainInv, NEW e, HeldInv(e), UNCHANGED heldVars
    PROVE  PlainInv' /\ HeldInv(e)'
BY DEF heldVars, PlainInv, HeldInv, Done, Awaited, Acknowledges

LEMMA ServerTransmitHolds ==
    ASSUME ChannelTypeOK, ReliableInv, HeldInv("server"), NEW length \in Nat,
           TransmitBits("server", length)
    PROVE  HeldInv("server")'
<1>1. "server" \in Peer /\ "client" \in Peer /\ Other("server") = "client"
  BY DEF Peer, Other
<1>2. UNCHANGED <<incoming_reliable_sequence, incomingready>>
  BY DEF TransmitBits, ackVars, recvVars
<1>3. CASE reliable["server"] = EmptyPayload
  <2>1. \A s \in Stream : ~Done("server", s)
    BY <1>3 DEF HeldInv
  <2>. QED BY <1>2, <2>1 DEF HeldInv, Done
<1>4. CASE reliable["server"] # EmptyPayload
  <2>1. UNCHANGED <<reliable, reliable_sequence>>
    BY <1>4 DEF TransmitBits, KeepReliable
  <2>2. PICK q \in Packet :
            /\ net' = net \union {q} /\ q.from = "server"
            /\ last_reliable_sequence' = [last_reliable_sequence EXCEPT !["server"] =
                   IF q.reliable THEN outgoing_sequence["server"] ELSE @]
    BY <1>1, TransmitSequences
  <2>3. ASSUME NEW c \in net', c.from = "client", ~Acknowledges("server", c)
        PROVE  ~Acknowledges("server", c)'
    <3>1. c \in net
      BY <2>2, <2>3
    <3>2. /\ c.ack <= incoming_sequence["client"]
          /\ incoming_sequence["client"] < outgoing_sequence["server"]
      BY <1>1, <2>3, <3>1 DEF ReliableInv, SequencesSent
    <3>3. /\ c.ack \in Nat /\ incoming_sequence["client"] \in Nat
          /\ outgoing_sequence["server"] \in Nat /\ last_reliable_sequence["server"] \in Nat
      BY <1>1, <3>1 DEF ChannelTypeOK, Packet
    <3>4. last_reliable_sequence'["server"] \in {outgoing_sequence["server"], last_reliable_sequence["server"]}
      BY <1>1, <2>2 DEF ChannelTypeOK
    <3>. QED BY <2>1, <2>3, <3>2, <3>3, <3>4 DEF Acknowledges
  <2>4. \A c \in net' : c.from = "client" => c \in net
    BY <2>2
  <2>. QED BY <1>1, <1>2, <2>1, <2>3, <2>4 DEF HeldInv, Awaited, Done
<1>. QED BY <1>3, <1>4

LEMMA ServerReadHolds ==
    ASSUME ChannelTypeOK, ReliableInv, HeldInv("server"), NEW p \in net, NEW copied,
           Process("server", p, copied)
    PROVE  HeldInv("server")'
<1>1. "server" \in Peer /\ "client" \in Peer /\ Other("server") = "client"
  BY DEF Peer, Other
<1>2. UNCHANGED <<reliable_sequence, last_reliable_sequence, net>> /\ p.from = "client"
  BY <1>1 DEF Process, seqVars
<1>3. /\ incomingready'["client"] = incomingready["client"]
      /\ incoming_reliable_sequence'["client"] = incoming_reliable_sequence["client"]
      /\ reliable'["server"] = IF Acknowledges("server", p) THEN EmptyPayload
                                                            ELSE reliable["server"]
  BY <1>1 DEF Process, ChannelTypeOK
<1>4. (\E s \in Stream : Done("server", s)) => reliable'["server"] = reliable["server"]
  BY <1>1, <1>2, <1>3 DEF HeldInv
<1>. QED BY <1>1, <1>2, <1>3, <1>4 DEF HeldInv, Awaited, Done, Acknowledges

LEMMA ClientReadHolds ==
    ASSUME HostsInv, ReliableInv, PlainInv, HeldInv("server"), NEW p \in net, ClientReadPacket(p)
    PROVE  HeldInv("server")'
<1>1. /\ ChannelTypeOK /\ "client" \in Peer /\ "server" \in Peer
      /\ Other("server") = "client" /\ Other("client") = "server"
  BY Types DEF HostsInv, TypeInv, Other
<1>2. Process("client", p, {}) /\ UNCHANGED <<written, fileQueue>>
  BY DEF ClientReadPacket
<1>3. UNCHANGED <<reliable_sequence, last_reliable_sequence, net>> /\ p.from = "server"
      /\ p.seq > incoming_sequence["client"]
  BY <1>1, <1>2 DEF Process, seqVars, Acceptable
<1>4. CASE p.reliable
  <2>1. /\ reliable["server"] # EmptyPayload /\ ~Awaited("server")' /\ reliable'["server"] = reliable["server"]
    BY <1>1, <1>2, <1>4, ReliablePipe
  <2>2. incoming_reliable_sequence["client"] # reliable_sequence["server"]
    BY <1>1, <1>3, <1>4 DEF ReliableInv, FreshIsOutstanding
  <2>3. \A q \in net : q.from = "client" => ~Acknowledges("server", q)
    BY <1>1, <2>2 DEF ReliableInv, AcksCurrent, Acknowledges
  <2>. QED BY <1>1, <1>3, <2>1, <2>3 DEF HeldInv, Acknowledges
<1>5. CASE ~p.reliable
  <2>1. /\ ReadyAfter("client", p) = incomingready["client"] /\ UNCHANGED transitOf("server")
    BY <1>1, <1>2, <1>5, PlainPipe
  <2>2. \A s \in Stream : incomingready'["client"][s] => incomingready["client"][s]
    <3>1. incomingready'["client"] = [s \in Stream |-> s \notin {} /\ ReadyAfter("client", p)[s]]
      BY <1>1, <1>2 DEF Process, ChannelTypeOK
    <3>. QED BY <2>1, <3>1
  <2>. QED BY <1>1, <1>3, <2>1, <2>2 DEF HeldInv, Done, transitOf, Acknowledges
<1>. QED BY <1>4, <1>5

\* In every step each of the pipes does one of its own.
LEMMA ServerPipeStep ==
    HostsInv /\ ReliableInv /\ PlainInv /\ HeldInv("server") /\ [Next]_vars
        => PlainInv' /\ HeldInv("server")' /\ PipeStep("server") /\ ReconnectStep
<1>. SUFFICES ASSUME HostsInv, ReliableInv, PlainInv, HeldInv("server"), [Next]_vars
              PROVE  PlainInv' /\ HeldInv("server")' /\ PipeStep("server") /\ ReconnectStep
  OBVIOUS
<1>1. /\ ChannelTypeOK /\ "server" \in Peer /\ "client" \in Peer
      /\ Other("server") = "client" /\ Other("client") = "server"
  BY DEF HostsInv, TypeInv, Peer, Other
<1>. DEFINE Goal == PlainInv' /\ HeldInv("server")' /\ PipeStep("server") /\ ReconnectStep
<1>2. ASSUME NEW e \in Peer, WriteCommand(e) PROVE Goal
  <2>1. Writes(e) /\ Rests(Other(e))
    BY <1>2, WriteMessagePipe DEF WriteCommand
  <2>2. UNCHANGED heldVars
    BY <1>2 DEF WriteCommand, WriteMessage, heldVars, ackVars, seqVars, recvVars
  <2>. QED BY <1>1, <1>2, <2>1, <2>2, QuietHolds DEF Peer, PipeStep, ReconnectStep, WriteCommand, hostVars
<1>3. ASSUME NEW e \in Peer, NEW k \in BlockSizes, SendBlock(e, k) PROVE Goal
  <2>1. Cuts(e) /\ Rests(Other(e))
    <3>1. k \in SizesOf(e)
      BY DEF SizesOf
    <3>. QED BY <1>3, <3>1, CreateFragmentsPipe DEF SendBlock
  <2>2. UNCHANGED heldVars
    BY <1>3 DEF SendBlock, CreateFragments, heldVars, ackVars, seqVars, recvVars
  <2>. QED BY <1>1, <1>3, <2>1, <2>2, QuietHolds DEF Peer, PipeStep, ReconnectStep, SendBlock, hostVars
<1>4. ASSUME NEW e \in Peer, NEW name \in FilesOf[e], NEW inMemory \in BOOLEAN,
             SendFile(e, name, inMemory)
      PROVE  Goal
  <2>1. CutsFile(e) /\ Rests(Other(e))
    BY <1>4, CreateFileFragmentsPipe DEF SendFile
  <2>2. UNCHANGED heldVars
    BY <1>4 DEF SendFile, CreateFileFragments, heldVars, ackVars, seqVars, recvVars
  <2>. QED BY <1>1, <1>4, <2>1, <2>2, QuietHolds DEF Peer, PipeStep, ReconnectStep, SendFile, hostVars
<1>5. ASSUME ClientWritePacket PROVE Goal
  <2>1. \A s \in Stream : ~incomingready["client"][s]
    BY <1>5 DEF ClientWritePacket, Ready
  <2>2. UNCHANGED dataVars /\ ReconnectStep
    BY <1>5 DEF ClientWritePacket, ReconnectStep, hostVars
  <2>3. ASSUME NEW length \in Nat, TransmitBits("client", length) PROVE Goal
    <3>1. incomingready' = incomingready
      BY <2>3 DEF TransmitBits, recvVars
    <3>2. HeldInv("server")'
      BY <1>1, <2>1, <3>1 DEF HeldInv, Done
    <3>3. PlainInv'
      BY <1>1, <2>3, TransmitPlain
    <3>4. Rests("server")
      BY <1>1, <2>2, <2>3, TransmitElsewhere
    <3>. QED BY <2>2, <3>2, <3>3, <3>4 DEF PipeStep
  <2>4. ASSUME HoldBack("client") PROVE Goal
    <3>1. UNCHANGED heldVars
      BY <2>4 DEF HoldBack, heldVars, ackVars, recvVars
    <3>2. UNCHANGED pipeVars
      BY <2>2, <2>4 DEF HoldBack, pipeVars, ackVars
    <3>. QED BY <1>1, <2>2, <3>1, <3>2, QuietRests, QuietHolds DEF PipeStep
  <2>5. (\E length \in Nat : TransmitBits("client", length)) \/ HoldBack("client")
    BY <1>5 DEF ClientWritePacket
  <2>. QED BY <2>3, <2>4, <2>5
<1>6. ASSUME NEW p \in net, ClientReadPacket(p) PROVE Goal
  <2>1. PlainInv'
    BY <1>6 DEF ClientReadPacket, Process, PlainInv
  <2>. QED BY <1>6, <2>1, ClientReadPipe, ClientReadHolds DEF PipeStep
<1>7. ASSUME ClientCopyFragments PROVE Goal
  <2>1. PlainInv' /\ ReconnectStep
    BY <1>7 DEF ClientCopyFragments, CopyFragments, PlainInv, ReconnectStep, hostVars
  <2>. QED BY <1>7, <2>1, ClientCopyPipe DEF PipeStep
<1>8. ASSUME NEW p \in net, ServerReadPacket(p) PROVE Goal
  <2>1. PlainInv' /\ ReconnectStep
    BY <1>8 DEF ServerReadPacket, Process, PlainInv, ReconnectStep
  <2>2. HeldInv("server")'
    BY <1>1, <1>8, ServerReadHolds DEF ServerReadPacket
  <2>. QED BY <1>8, <2>1, <2>2, ServerAcknowledgePipe DEF PipeStep
<1>9. ASSUME NEW k \in BroadcastSizes, ServerUpdateToReliable(k) PROVE Goal
  <2>1. k \in Nat /\ k \in SizesOf("server") /\ UNCHANGED <<fileQueue, delivered, files>>
        /\ written' = [written EXCEPT !["server"] = @ + k] /\ ReconnectStep
    BY <1>9, HostAssumption DEF SizesOf, ServerUpdateToReliable, ReconnectStep, hostVars
  <2>2. \/ WriteMessage("server", Commands("server", k))
        \/ CreateFragments("server", Commands("server", k), FALSE)
    BY <1>9 DEF ServerUpdateToReliable
  <2>3. Writes("server") \/ Cuts("server")
    BY <1>1, <2>1, <2>2, WriteMessagePipe, CreateFragmentsPipe
  <2>4. UNCHANGED heldVars
    BY <2>2 DEF WriteMessage, CreateFragments, heldVars, ackVars, seqVars, recvVars
  <2>. QED BY <2>1, <2>3, <2>4, QuietHolds DEF PipeStep
<1>10. ASSUME NEW datagram \in DatagramSizes, ServerSendClientMessages(datagram) PROVE Goal
  <2>1. /\ datagram \in Nat /\ TransmitBits("server", datagram) /\ UNCHANGED dataVars /\ ReconnectStep
    BY <1>10, HostAssumption DEF ServerSendClientMessages, ReconnectStep
  <2>. QED BY <1>1, <2>1, TransmitPipe, ServerTransmitHolds, TransmitPlain DEF PipeStep
<1>11. ASSUME ServerForgetsReply \/ UNCHANGED vars PROVE Goal
  <2>1. UNCHANGED <<chanVars, dataVars, reconnect>>
    BY <1>11 DEF ServerForgetsReply, vars, hostVars
  <2>2. UNCHANGED heldVars /\ UNCHANGED pipeVars
    BY <2>1 DEF heldVars, pipeVars, chanVars, ackVars, seqVars, recvVars
  <2>. QED BY <1>1, <2>1, <2>2, QuietHolds, QuietRests DEF PipeStep, ReconnectStep
<1>. HIDE DEF Goal
<1>12. Goal
  BY <1>2, <1>3, <1>4, <1>5, <1>6, <1>7, <1>8, <1>9, <1>10, <1>11
     DEF Next, Produce, Client, Server
<1>. QED BY <1>12 DEF Goal

-----------------------------------------------------------------------------
(***************************************************************************)
(* The client's packets leave a payload.                                   *)
(***************************************************************************)
\* What that rests on: a step that leaves this alone keeps it.
leaveVars == <<net, active, waitlist, fragbufs, reliable>>

LEMMA QuietLeaves ==
    ASSUME LeavesInv, UNCHANGED leaveVars
    PROVE  LeavesInv'
BY DEF leaveVars, LeavesInv, LeavesPayload

LEMMA ServerLeaves ==
    ASSUME LeavesInv, UNCHANGED active, \A p \in net' : p \in net \/ p.from # "client",
           waitlist'["client"] = waitlist["client"], fragbufs'["client"] = fragbufs["client"],
           reliable'["client"] = reliable["client"]
    PROVE  LeavesInv'
<1>1. \A p \in net' : p.from = "client" => LeavesPayload(p)
  BY DEF LeavesInv
<1>2. \A p \in net' : LeavesPayload(p)' = LeavesPayload(p)
  BY DEF LeavesPayload
<1>. QED BY <1>1, <1>2 DEF LeavesInv

\* In the game each packet of the client has a user command, before that none
\* has a fragment.
LEMMA ClientTransmitLeaves ==
    ASSUME HostsInv, LeavesInv, ReliableInv, TransmitBits("client", IF active THEN 1 ELSE 0),
           UNCHANGED active
    PROVE  LeavesInv'
<1>. DEFINE length == IF active THEN 1 ELSE 0
            send == \/ ReliableDropped("client")
                    \/ reliable_sequence'["client"] # reliable_sequence["client"]
            q == SentPacket("client", length, send)
<1>1. /\ ChannelTypeOK /\ "client" \in Peer /\ waitlist["client"] \in Waitlists
      /\ fragbufs["client"] \in Fraglists
  BY Types DEF HostsInv, TypeInv
<1>2. net' = net \union {q} /\ (length > 0 => q.unreliable)
      /\ (q.payload = reliable'["client"] \/ q.payload = EmptyPayload)
  BY DEF TransmitBits, SentPacket
<1>. HIDE DEF q
<1>3. CASE InGame
  <2>1. active /\ active'
    BY <1>3 DEF LeavesInv
  <2>2. q.unreliable
    <3>1. length = 1
      BY <2>1
    <3>. HIDE DEF length
    <3>. QED BY <1>2, <3>1
  <2>3. \A p \in net' : p.from = "client" => LeavesPayload(p)
    BY <1>2, <2>2 DEF LeavesInv, LeavesPayload
  <2>. QED BY <1>3, <2>1, <2>3 DEF LeavesInv, LeavesPayload
<1>4. CASE ~InGame
  <2>1. \A s \in Stream : /\ waitlist["client"][s] = <<>> /\ fragbufs["client"][s] = <<>>
                          /\ reliable["client"].frag[s] = NoFragment
    BY <1>4 DEF LeavesInv
  <2>2. \A s \in Stream : /\ waitlist'["client"][s] = <<>> /\ fragbufs'["client"][s] = <<>>
                          /\ reliable'["client"].frag[s] = NoFragment
    <3>1. CASE reliable["client"] # EmptyPayload
      BY <2>1, <3>1 DEF TransmitBits, KeepReliable, queueVars
    <3>2. CASE reliable["client"] = EmptyPayload
      <4>. DEFINE w == SentWaitlist(waitlist["client"], fragbufs["client"])
                  f == SentFragbufs(waitlist["client"], fragbufs["client"])
                  n == SentCount(waitlist["client"], fragbufs["client"], fragbufcount["client"])
                  requeue == /\ Stalled("client", f)
                             /\ Len(message["client"]) + length > MaxReliablePayload
                  load == LoadedPayload(IF Stalled("client", f) THEN <<>> ELSE message["client"], f, n)
                  queued == IF requeue THEN [w EXCEPT !["normal"] = QueueBlock(@, message["client"])]
                                       ELSE w
      <4>1. /\ waitlist'["client"] = queued /\ fragbufs'["client"] = Unlinked(f, load)
            /\ reliable'["client"] = load
        BY <1>1, <3>2 DEF TransmitBits, LoadReliable, ChannelTypeOK
      <4>2. \A s \in Stream : f[s] = <<>> /\ w[s] = <<>>
        BY <2>1 DEF SentFragbufs, SentWaitlist, MovesUp
      <4>3. ~requeue
        BY <4>2 DEF Stalled, Stream
      <4>4. \A s \in Stream : load.frag[s] = NoFragment
        BY <4>2 DEF LoadedPayload, Takes, Stream
      <4>. HIDE DEF w, f, n, requeue, load
      <4>5. \A s \in Stream : Unlinked(f, load)[s] = f[s]
        BY <4>4 DEF Unlinked
      <4>. QED BY <4>1, <4>2, <4>3, <4>4, <4>5
    <3>. QED BY <3>1, <3>2
  <2>3. \A s \in Stream : q.payload.frag[s] = NoFragment
    BY <1>2, <2>2 DEF EmptyPayload
  <2>4. \A p \in net' : p.from = "client" => LeavesPayload(p)
    BY <1>2, <2>3 DEF LeavesInv, LeavesPayload
  <2>. QED BY <1>4, <2>2, <2>4 DEF LeavesInv, LeavesPayload
<1>. QED BY <1>3, <1>4

LEMMA ClientPipeStep ==
    FragmentsInGame /\ HostsInv /\ ReliableInv /\ PlainInv /\ LeavesInv /\ HeldInv("client") /\ [Next]_vars
        => LeavesInv' /\ HeldInv("client")' /\ PipeStep("client")
<1>. SUFFICES ASSUME FragmentsInGame, HostsInv, ReliableInv, PlainInv, LeavesInv, HeldInv("client"),
                     [Next]_vars
              PROVE  LeavesInv' /\ HeldInv("client")' /\ PipeStep("client")
  OBVIOUS
<1>1. /\ ChannelTypeOK /\ "server" \in Peer /\ "client" \in Peer
      /\ Other("server") = "client" /\ Other("client") = "server"
  BY DEF HostsInv, TypeInv, Peer, Other
<1>. DEFINE Goal == LeavesInv' /\ HeldInv("client")' /\ PipeStep("client")
<1>2. incomingready'["server"] = incomingready["server"] => HeldInv("client")'
  BY <1>1 DEF HeldInv, Done
<1>3. ASSUME NEW e \in Peer, WriteCommand(e) PROVE Goal
  <2>1. Writes(e) /\ Rests(Other(e))
    BY <1>3, WriteMessagePipe DEF WriteCommand
  <2>2. UNCHANGED leaveVars /\ UNCHANGED incomingready
    BY <1>3 DEF WriteCommand, WriteMessage, leaveVars, ackVars, seqVars, recvVars, hostVars, stateVars
  <2>. QED BY <1>1, <1>2, <2>1, <2>2, QuietLeaves DEF Peer, PipeStep
<1>4. ASSUME NEW k, CreateFragments("server", Commands("server", k), TRUE)
             \/ CreateFragments("server", Commands("server", k), FALSE), UNCHANGED active
      PROVE  LeavesInv' /\ HeldInv("client")'
  <2>1. /\ UNCHANGED <<net, reliable, incomingready>>
        /\ waitlist'["client"] = waitlist["client"] /\ fragbufs'["client"] = fragbufs["client"]
    BY <1>1, <1>4 DEF CreateFragments, Enqueue, recvVars, ChannelTypeOK
  <2>. QED BY <1>2, <1>4, <2>1, ServerLeaves
<1>5. ASSUME NEW e \in Peer, NEW k \in BlockSizes, SendBlock(e, k) PROVE Goal
  <2>1. Cuts(e) /\ Rests(Other(e))
    <3>1. k \in SizesOf(e)
      BY DEF SizesOf
    <3>. QED BY <1>5, <3>1, CreateFragmentsPipe DEF SendBlock
  <2>2. UNCHANGED <<net, active, incomingready, reliable>>
    BY <1>5 DEF SendBlock, CreateFragments, recvVars, hostVars, stateVars
  <2>3. InGame
    BY DEF FragmentsInGame
  <2>4. LeavesInv'
    BY <2>2, <2>3 DEF LeavesInv, LeavesPayload
  <2>. QED BY <1>1, <1>2, <2>1, <2>2, <2>4 DEF Peer, PipeStep
<1>6. ASSUME NEW e \in Peer, NEW name \in FilesOf[e], NEW inMemory \in BOOLEAN,
             SendFile(e, name, inMemory)
      PROVE  Goal
  <2>1. CutsFile(e) /\ Rests(Other(e))
    BY <1>6, CreateFileFragmentsPipe DEF SendFile
  <2>2. UNCHANGED <<net, active, incomingready, reliable>>
    BY <1>6 DEF SendFile, CreateFileFragments, recvVars, hostVars, stateVars
  <2>3. LeavesInv'
    <3>1. CASE InGame
      BY <2>2, <3>1 DEF LeavesInv, LeavesPayload
    <3>2. CASE ~InGame
      <4>1. e = "server"
        BY <3>2 DEF FragmentsInGame, Peer
      <4>2. waitlist'["client"] = waitlist["client"] /\ fragbufs'["client"] = fragbufs["client"]
        BY <1>1, <1>6, <4>1 DEF SendFile, CreateFileFragments, Enqueue, ChannelTypeOK
      <4>. QED BY <2>2, <4>2, ServerLeaves
    <3>. QED BY <3>1, <3>2
  <2>. QED BY <1>1, <1>2, <2>1, <2>2, <2>3 DEF Peer, PipeStep
<1>7. ASSUME ClientWritePacket PROVE Goal
  <2>1. UNCHANGED dataVars /\ UNCHANGED active
    BY <1>7 DEF ClientWritePacket, hostVars, stateVars
  <2>2. ASSUME TransmitBits("client", IF active THEN 1 ELSE 0) PROVE Goal
    <3>1. incomingready' = incomingready
      BY <2>2 DEF TransmitBits, recvVars
    <3>2. (IF active THEN 1 ELSE 0) \in Nat
      OBVIOUS
    <3>3. Loads("client") \/ Rests("client")
      BY <1>1, <2>1, <2>2, <3>2, TransmitPipe
    <3>. QED BY <1>2, <2>1, <2>2, <3>1, <3>3, ClientTransmitLeaves DEF PipeStep
  <2>3. ASSUME HoldBack("client") PROVE Goal
    <3>1. UNCHANGED leaveVars /\ UNCHANGED incomingready
      BY <2>1, <2>3 DEF HoldBack, leaveVars, queueVars, recvVars
    <3>2. UNCHANGED pipeVars
      BY <2>1, <2>3 DEF HoldBack, pipeVars, ackVars
    <3>. QED BY <1>1, <1>2, <3>1, <3>2, QuietRests, QuietLeaves DEF PipeStep
  <2>. QED BY <1>7, <2>2, <2>3 DEF ClientWritePacket
<1>8. ASSUME NEW p \in net, ClientReadPacket(p) PROVE Goal
  <2>1. /\ UNCHANGED <<net, waitlist, fragbufs>> /\ active' = (active \/ p.unreliable)
        /\ reliable'["client"] \in {EmptyPayload, reliable["client"]}
        /\ incomingready'["server"] = incomingready["server"]
    BY <1>1, <1>8 DEF ClientReadPacket, Process, queueVars, ChannelTypeOK
  <2>2. \A s \in Stream : EmptyPayload.frag[s] = NoFragment
    BY DEF EmptyPayload
  <2>3. LeavesInv'
    BY <2>1, <2>2 DEF LeavesInv, LeavesPayload
  <2>4. Clears("client") \/ Rests("client")
    <3>1. Process("client", p, {}) /\ UNCHANGED <<written, fileQueue, files>>
          /\ delivered'["server"] = delivered["server"]
      BY <1>1, <1>8 DEF ClientReadPacket, HostsInv
    <3>. QED BY <1>1, <3>1, AcknowledgePipe
  <2>. QED BY <1>2, <2>1, <2>3, <2>4 DEF PipeStep
<1>9. ASSUME ClientCopyFragments PROVE Goal
  <2>1. UNCHANGED leaveVars /\ incomingready'["server"] = incomingready["server"]
    BY <1>1, <1>9 DEF ClientCopyFragments, CopyFragments, leaveVars, queueVars, hostVars, stateVars, ChannelTypeOK
  <2>2. Rests("client")
    BY <1>9, ClientCopyRests
  <2>. QED BY <1>2, <2>1, <2>2, QuietLeaves DEF PipeStep
<1>10. ASSUME NEW p \in net, ServerReadPacket(p) PROVE Goal
  <2>1. LeavesInv'
    <3>1. /\ UNCHANGED <<net, waitlist, fragbufs, active>> /\ reliable'["client"] = reliable["client"]
      BY <1>1, <1>10 DEF ServerReadPacket, Process, queueVars, ChannelTypeOK
    <3>. QED BY <3>1, ServerLeaves
  <2>. QED BY <1>10, <2>1, ServerReadPipe DEF PipeStep
<1>11. ASSUME NEW k \in BroadcastSizes, ServerUpdateToReliable(k) PROVE Goal
  <2>1. k \in Nat /\ k \in SizesOf("server") /\ UNCHANGED <<fileQueue, delivered, files, active>>
        /\ written' = [written EXCEPT !["server"] = @ + k]
    BY <1>11, HostAssumption DEF SizesOf, ServerUpdateToReliable, hostVars, stateVars
  <2>2. CASE WriteMessage("server", Commands("server", k))
    <3>1. Rests("client")
      BY <1>1, <2>1, <2>2, WriteMessagePipe
    <3>2. UNCHANGED leaveVars /\ UNCHANGED incomingready
      BY <2>1, <2>2 DEF WriteMessage, leaveVars, ackVars, seqVars, recvVars
    <3>. QED BY <1>2, <3>1, <3>2, QuietLeaves DEF PipeStep
  <2>3. CASE CreateFragments("server", Commands("server", k), FALSE)
    <3>1. Rests("client")
      BY <1>1, <2>1, <2>3, CreateFragmentsPipe
    <3>. QED BY <1>4, <2>1, <2>3, <3>1 DEF PipeStep
  <2>. QED BY <1>11, <2>2, <2>3 DEF ServerUpdateToReliable
<1>12. ASSUME NEW datagram \in DatagramSizes, ServerSendClientMessages(datagram) PROVE Goal
  <2>1. /\ datagram \in Nat /\ TransmitBits("server", datagram) /\ UNCHANGED dataVars /\ UNCHANGED active
    BY <1>12, HostAssumption DEF ServerSendClientMessages, stateVars
  <2>2. Rests("client")
    BY <1>1, <2>1, TransmitElsewhere
  <2>3. \A p \in net' : p \in net \/ p.from # "client"
    <3>1. \E q : net' = net \union {q} /\ q.from = "server"
      BY <1>1, <2>1, TransmitSequences
    <3>. QED BY <3>1
  <2>4. LeavesInv'
    BY <2>1, <2>2, <2>3, ServerLeaves DEF Rests, queueOf, transitOf
  <2>5. incomingready' = incomingready
    BY <2>1 DEF TransmitBits, recvVars
  <2>. QED BY <1>2, <2>2, <2>4, <2>5 DEF PipeStep
<1>13. ASSUME ServerForgetsReply \/ UNCHANGED vars PROVE Goal
  <2>1. UNCHANGED <<chanVars, dataVars, active>>
    BY <1>13 DEF ServerForgetsReply, vars, hostVars, stateVars
  <2>2. UNCHANGED leaveVars /\ UNCHANGED pipeVars /\ UNCHANGED incomingready
    BY <2>1 DEF leaveVars, pipeVars, chanVars, ackVars, seqVars, queueVars, recvVars
  <2>. QED BY <1>1, <1>2, <2>2, QuietLeaves, QuietRests DEF PipeStep
<1>. HIDE DEF Goal
<1>14. Goal
  BY <1>3, <1>5, <1>6, <1>7, <1>8, <1>9, <1>10, <1>11, <1>12, <1>13
     DEF Next, Produce, Client, Server
<1>. QED BY <1>14 DEF Goal

-----------------------------------------------------------------------------
(***************************************************************************)
(* The places of the fragments in a pipe.                                  *)
(***************************************************************************)
Numbered(list, before) == \A i \in DOMAIN list : list[i].bufferid = before + i
InPlace(bufs)          == \A i \in DOMAIN bufs : bufs[i].id = i

\* What the sender has yet to send are whole blocks and the rest of one.
WholeBlocks(w) == \A i \in DOMAIN w : w[i] # <<>> /\ Numbered(w[i], 0)
EndOfBlock(list, n) == Len(list) <= n /\ Numbered(list, n - Len(list))
BlocksInv(e) == \A s \in Stream : WholeBlocks(waitlist[e][s]) /\ EndOfBlock(List(e, s), Count(e, s))

\* What comes next is the fragment after those that the receiver has: the sender has
\* the others of the block, or it has none left or another block.
AtStart(list, n) == list # <<>> => n = Len(list)
Rest(list, n, i, count) ==
    IF i = count THEN AtStart(list, n) ELSE list # <<>> /\ n = count /\ n - Len(list) = i
Follows(got, done, list, n, awaited, out) ==
    /\ InPlace(got)
    /\ IF awaited /\ out # NoFragment
       THEN /\ out.id = Len(got) + 1 /\ out.id <= out.count /\ out.count <= MaxFragbufs
            /\ Rest(list, n, out.id, out.count)
       ELSE IF done \/ got = <<>> THEN AtStart(list, n)
       ELSE list # <<>> /\ n - Len(list) = Len(got)
NextInv(e) ==
    \A s \in Stream : Follows(Got(e, s), Done(e, s), List(e, s), Count(e, s), Awaited(e), Out(e, s))

\* Sizes that fit in the receiver's list: of the pending data, of the messages
\* and the broadcasts that are cut, of the files.
SizeFits(len) == len # 0 => FragmentCount(len, Least(len, ChunkSize)) <= MaxFragbufs
SizesFit(e) ==
    /\ \A len \in (0 .. MaxMessage) \union SizesOf(e) : SizeFits(len)
    /\ \A name \in FilesOf[e], inMemory \in BOOLEAN :
           Len(FileFragments(name, FileLen[name], inMemory)) <= MaxFragbufs

Short(w) == \A i \in DOMAIN w : Len(w[i]) <= MaxFragbufs

\* Every block fits, also those that wait.
FitsInv(e) ==
    /\ Len(message[e]) <= MaxMessage
    /\ \A s \in Stream : Count(e, s) <= MaxFragbufs /\ Short(waitlist[e][s])

PlaceInv(e) == BlocksInv(e) /\ NextInv(e) /\ FitsInv(e)

-----------------------------------------------------------------------------
(***************************************************************************)
(* Lists of fragments and what may happen to them.                         *)
(***************************************************************************)
LEMMA WholeFragments ==
    ASSUME NEW data \in Seq(Unit), NEW first \in 1 .. ChunkSize, first <= Len(data)
    PROVE  Fragments(data, first) # <<>> /\ Numbered(Fragments(data, first), 0)
<1>1. Fragments(data, first) # <<>>
  BY FragmentsType
<1>2. \A i \in 1 .. FragmentCount(Len(data), first) : Fragments(data, first)[i].bufferid = i
  BY DEF Fragments
<1>3. DOMAIN Fragments(data, first) = 1 .. FragmentCount(Len(data), first)
  BY DEF Fragments
<1>. QED BY <1>1, <1>2, <1>3 DEF Numbered

LEMMA QueuedWhole ==
    ASSUME NEW w \in Seq(Seq(Fragbuf)), WholeBlocks(w), NEW msg \in Seq(Unit)
    PROVE  WholeBlocks(QueueBlock(w, msg))
<1>1. CASE msg = <<>>
  BY <1>1 DEF QueueBlock
<1>2. CASE msg # <<>>
  <2>1. Least(Len(msg), ChunkSize) \in 1 .. ChunkSize /\ Least(Len(msg), ChunkSize) <= Len(msg)
    BY <1>2, ChunkAssumption DEF Least
  <2>2. MessageFragments(msg) # <<>> /\ Numbered(MessageFragments(msg), 0)
    BY <2>1, WholeFragments DEF MessageFragments
  <2>3. QueueBlock(w, msg) = Append(w, MessageFragments(msg))
    BY <1>2 DEF QueueBlock
  <2>. QED BY <2>2, <2>3 DEF WholeBlocks
<1>. QED BY <1>1, <1>2

LEMMA WholeFile ==
    ASSUME NEW name \in FileName, NEW len \in Nat \ {0}, NEW inMemory \in BOOLEAN
    PROVE  /\ FileFragments(name, len, inMemory) # <<>>
           /\ Numbered(FileFragments(name, len, inMemory), 0)
<1>. DEFINE units == FileUnits(name, len)
            first == Least(IF inMemory THEN len ELSE len + 1, ChunkSize)
<1>1. units \in Seq(Unit) /\ Len(units) = len + 1
  BY DEF FileUnits, Unit
<1>2. first \in 1 .. ChunkSize /\ first <= len + 1
  BY ChunkAssumption DEF Least
<1>. HIDE DEF units, first
<1>3. Fragments(units, first) # <<>> /\ Numbered(Fragments(units, first), 0)
  BY <1>1, <1>2, WholeFragments
<1>. QED BY <1>3 DEF FileFragments, units, first

\* Taking a block from the wait list.
LEMMA PushedWhole ==
    ASSUME NEW w \in Waitlists, NEW f \in Fraglists, NEW n \in Counts, NEW s \in Stream,
           WholeBlocks(w[s]), EndOfBlock(f[s], n[s])
    PROVE  LET list == SentFragbufs(w, f)[s]
               m    == SentCount(w, f, n)[s]
           IN  /\ WholeBlocks(SentWaitlist(w, f)[s])
               /\ EndOfBlock(list, m)
               /\ \/ list = f[s] /\ m = n[s]
                  \/ f[s] = <<>> /\ m = Len(list)
<1>1. CASE ~MovesUp(w, f, s)
  BY <1>1 DEF SentFragbufs, SentCount, SentWaitlist
<1>2. CASE MovesUp(w, f, s)
  <2>1. w[s] \in Seq(Seq(Fragbuf)) /\ w[s] # <<>> /\ f[s] = <<>>
    BY <1>2 DEF MovesUp, Waitlists
  <2>2. /\ SentFragbufs(w, f)[s] = Head(w[s]) /\ SentCount(w, f, n)[s] = Len(Head(w[s]))
        /\ SentWaitlist(w, f)[s] = Tail(w[s])
    BY <1>2 DEF SentFragbufs, SentCount, SentWaitlist
  <2>3. WholeBlocks(Tail(w[s]))
    <3>1. \A i \in DOMAIN Tail(w[s]) : i + 1 \in DOMAIN w[s] /\ Tail(w[s])[i] = w[s][i + 1]
      BY <2>1
    <3>. QED BY <3>1 DEF WholeBlocks
  <2>4. Numbered(Head(w[s]), 0) /\ Head(w[s]) \in Seq(Fragbuf)
    BY <2>1 DEF WholeBlocks
  <2>5. Len(Head(w[s])) \in Nat
    BY <2>4
  <2>6. EndOfBlock(Head(w[s]), Len(Head(w[s])))
    BY <2>4, <2>5 DEF EndOfBlock
  <2>. QED BY <2>1, <2>2, <2>3, <2>6
<1>. QED BY <1>1, <1>2

LEMMA FollowsPushed ==
    ASSUME NEW got, NEW done, NEW awaited, NEW out, NEW list, NEW n, NEW list2, NEW n2,
           Follows(got, done, list, n, awaited, out),
           (list2 = list /\ n2 = n) \/ (list = <<>> /\ n2 = Len(list2))
    PROVE  Follows(got, done, list2, n2, awaited, out)
BY DEF Follows, Rest, AtStart

LEMMA NoLength ==
    ASSUME NEW t \in Seq(Fragbuf)
    PROVE  Len(t) \in Nat /\ (t = <<>> <=> Len(t) = 0)
OBVIOUS

\* The first fragment of the list is loaded.
LEMMA FollowsTaken ==
    ASSUME NEW got \in Seq(Fragment), NEW list \in Seq(Fragbuf), NEW n \in Nat, NEW old, NEW out,
           Follows(got, FALSE, list, n, FALSE, old), list # <<>>, EndOfBlock(list, n),
           n <= MaxFragbufs, out.id = Head(list).bufferid, out.count = n
    PROVE  Follows(got, FALSE, Tail(list), n, TRUE, out) /\ EndOfBlock(Tail(list), n)
<1>1. Len(list) \in Nat /\ Len(list) >= 1 /\ Len(list) <= n
  BY DEF EndOfBlock
<1>2. out.id = n - Len(list) + 1
  BY <1>1 DEF EndOfBlock, Numbered
<1>3. n - Len(list) = Len(got)
  BY <1>1 DEF Follows, AtStart
<1>4. Len(Tail(list)) = Len(list) - 1 /\ \A i \in DOMAIN Tail(list) : Tail(list)[i] = list[i + 1]
  OBVIOUS
<1>5. EndOfBlock(Tail(list), n)
  <2>1. \A i \in DOMAIN Tail(list) : i \in Nat /\ i + 1 \in DOMAIN list
    BY <1>4
  <2>. QED BY <1>1, <1>4, <2>1 DEF EndOfBlock, Numbered
<1>6. Rest(Tail(list), n, out.id, out.count)
  <2>1. CASE Len(list) = 1
    <3>1. out.id = out.count
      BY <1>1, <1>2, <2>1
    <3>2. Tail(list) = <<>>
      <4>1. Tail(list) \in Seq(Fragbuf) /\ Len(Tail(list)) = 0
        BY <1>4, <2>1
      <4>. QED BY <4>1, NoLength, Zenon
    <3>. QED BY <3>1, <3>2, Zenon DEF Rest, AtStart
  <2>2. CASE Len(list) # 1
    <3>1. Len(Tail(list)) >= 1
      BY <1>1, <1>4, <2>2
    <3>2. Tail(list) # <<>>
      <4>1. \A s \in Seq(Fragbuf) : s # <<>> => Tail(s) \in Seq(Fragbuf)
        OBVIOUS
      <4>2. \A k \in Int : k >= 1 => k # 0
        OBVIOUS
      <4>3. Len(Tail(list)) \in Int
        BY <1>1, <1>4
      <4>4. Tail(list) \in Seq(Fragbuf) /\ Len(Tail(list)) # 0
        BY <3>1, <4>1, <4>2, <4>3
      <4>. QED BY <4>4, NoLength, Zenon
    <3>3. out.id # out.count /\ n - Len(Tail(list)) = out.id
      BY <1>1, <1>2, <1>4, <2>2
    <3>. QED BY <3>2, <3>3 DEF Rest
  <2>. QED BY <2>1, <2>2
<1>7. out.id = Len(got) + 1 /\ out.id <= out.count
  BY <1>1, <1>2, <1>3
<1>8. Len(got) \in Nat /\ out # NoFragment
  BY <1>7 DEF NoFragment
<1>. QED BY <1>5, <1>6, <1>7, <1>8 DEF Follows

LEMMA FollowsLeft ==
    ASSUME NEW got, NEW list, NEW n, NEW old, NEW awaited, NEW done,
           Follows(got, done, list, n, FALSE, old)
    PROVE  /\ Follows(got, done, list, n, awaited, NoFragment)
           /\ \A out : Follows(got, done, list, n, FALSE, out)
BY DEF Follows

LEMMA FollowsCopied ==
    ASSUME NEW got, NEW list, NEW n, NEW out, Follows(got, TRUE, list, n, FALSE, out)
    PROVE  Follows(<<>>, FALSE, list, n, FALSE, out)
BY DEF Follows, InPlace

\* The fragment that follows is stored at the end.
LEMMA StoredLast ==
    ASSUME NEW got \in Seq(Fragment), InPlace(got), NEW frag \in Fragment,
           frag.id = Len(got) + 1, Len(got) < MaxFragbufs
    PROVE  LET after == StoreFragment(got, frag)
           IN  /\ Len(after) = frag.id /\ InPlace(after) /\ after # <<>>
               /\ after \in Seq(Fragment) /\ after = Append(got, frag)
<1>. DEFINE ahead == {i \in DOMAIN got : \A j \in 2 .. i : got[j].id <= frag.id}
<1>1. Len(got) \in Nat /\ DOMAIN got = 1 .. Len(got)
  OBVIOUS
<1>2. ~\E i \in DOMAIN got : SameId(got[i], frag)
  BY <1>1 DEF InPlace, SameId
<1>3. ahead = 1 .. Len(got)
  BY <1>1 DEF InPlace
<1>4. Cardinality(ahead) = Len(got)
  <2>1. Cardinality(1 .. Len(got)) = IF 1 > Len(got) THEN 0 ELSE Len(got) - 1 + 1
    BY <1>1, FS_Interval
  <2>2. Cardinality(1 .. Len(got)) = Len(got)
    BY <1>1, <2>1
  <2>. QED BY <1>3, <2>2
<1>. DEFINE after == [i \in 1 .. Len(got) + 1 |->
                        IF i < Cardinality(ahead) + 1 THEN got[i]
                        ELSE IF i = Cardinality(ahead) + 1 THEN frag ELSE got[i - 1]]
<1>5. StoreFragment(got, frag) = after
  <2>1. ~(Len(got) >= MaxFragbufs)
    BY <1>1, BufferAssumption
  <2>. QED BY <1>2, <2>1 DEF StoreFragment, AddBufferToList
<1>. HIDE DEF ahead
<1>6. after = [i \in 1 .. Len(got) + 1 |-> IF i < Len(got) + 1 THEN got[i] ELSE frag]
  BY <1>1, <1>4
<1>. HIDE DEF after
<1>7. after \in Seq(Fragment) /\ Len(after) = Len(got) + 1
  BY <1>1, <1>6
<1>8. InPlace(after)
  BY <1>1, <1>6, <1>7 DEF InPlace
<1>9. after = Append(got, frag)
  <2>. DEFINE more == Append(got, frag)
  <2>1. /\ more \in Seq(Fragment) /\ Len(more) = Len(got) + 1 /\ more[Len(got) + 1] = frag
        /\ \A i \in 1 .. Len(got) : more[i] = got[i]
    OBVIOUS
  <2>2. \A i \in 1 .. Len(got) + 1 : after[i] = IF i < Len(got) + 1 THEN got[i] ELSE frag
    BY <1>6
  <2>. HIDE DEF more
  <2>3. \A i \in 1 .. Len(got) + 1 : after[i] = more[i]
    BY <1>1, <2>1, <2>2
  <2>4. after = more
    BY <1>7, <2>1, <2>3
  <2>. QED BY <2>4 DEF more
<1>. QED BY <1>1, <1>5, <1>7, <1>8, <1>9

LEMMA FollowsGot ==
    ASSUME NEW got \in Seq(Fragment), NEW list, NEW n, NEW frag \in Fragment,
           Follows(got, FALSE, list, n, TRUE, frag)
    PROVE  LET after == StoreFragment(got, frag)
           IN  /\ InPlace(after) /\ after # <<>>
               /\ \A out : Follows(after, Len(after) = frag.count, list, n, FALSE, out)
<1>. DEFINE after == StoreFragment(got, frag)
<1>1. frag # NoFragment
  BY DEF Fragment, NoFragment
<1>2. /\ InPlace(got) /\ frag.id = Len(got) + 1 /\ frag.id <= frag.count
      /\ frag.count <= MaxFragbufs /\ Rest(list, n, frag.id, frag.count)
  BY <1>1 DEF Follows
<1>3. Len(got) < MaxFragbufs
  BY <1>2, BufferAssumption DEF Fragment
<1>4. Len(after) = frag.id /\ InPlace(after) /\ after # <<>>
  BY <1>2, <1>3, StoredLast
<1>. HIDE DEF after
<1>5. \A out : Follows(after, Len(after) = frag.count, list, n, FALSE, out)
  BY <1>2, <1>4 DEF Follows, Rest
<1>. QED BY <1>4, <1>5 DEF after

LEMMA QueuedShort ==
    ASSUME NEW w \in Seq(Seq(Fragbuf)), Short(w), NEW msg \in Seq(Unit), SizeFits(Len(msg))
    PROVE  Short(QueueBlock(w, msg))
<1>1. CASE msg = <<>>
  BY <1>1 DEF QueueBlock
<1>2. CASE msg # <<>>
  <2>. DEFINE first == Least(Len(msg), ChunkSize)
  <2>1. first \in 1 .. ChunkSize /\ first <= Len(msg) /\ Len(msg) # 0
    BY <1>2, ChunkAssumption DEF Least
  <2>2. FragmentCount(Len(msg), first) \in Nat
    <3>1. ASSUME NEW n \in Nat, NEW k \in 1 .. ChunkSize, k <= n PROVE FragmentCount(n, k) \in Nat
      <4>1. n - k + ChunkSize - 1 \in Nat /\ ChunkSize \in Nat \ {0}
        BY <3>1, ChunkAssumption
      <4>2. ASSUME NEW a \in Nat, NEW b \in Nat \ {0} PROVE a \div b \in Nat
        <5>. DEFINE q == a \div b
                    r == a % b
        <5>1. q \in Int /\ r \in 0 .. b - 1 /\ a = b * q + r
          OBVIOUS
        <5>2. q < 0 => b * q <= -b
          BY <5>1
        <5>. HIDE DEF q, r
        <5>3. ~ q < 0
          <6>1. PICK x : x = b * q
            OBVIOUS
          <6>2. x \in Int /\ a = x + r /\ (q < 0 => x <= -b)
            BY <5>1, <5>2, <6>1
          <6>. QED BY <5>1, <6>2
        <5>. QED BY <5>1, <5>3 DEF q
      <4>3. (n - k + ChunkSize - 1) \div ChunkSize \in Nat
        BY <4>1, <4>2
      <4>. QED BY <4>3 DEF FragmentCount
    <3>2. Len(msg) \in Nat
      OBVIOUS
    <3>. HIDE DEF first
    <3>. QED BY <2>1, <3>1, <3>2
  <2>3. MessageFragments(msg) \in Seq(Fragbuf)
    BY <2>1, FragmentsType DEF MessageFragments
  <2>4. DOMAIN MessageFragments(msg) = 1 .. FragmentCount(Len(msg), first)
    BY DEF MessageFragments, Fragments
  <2>5. FragmentCount(Len(msg), first) <= MaxFragbufs
    BY <2>1 DEF SizeFits
  <2>. HIDE DEF first
  <2>6. Len(MessageFragments(msg)) <= MaxFragbufs
    BY <2>2, <2>3, <2>4, <2>5
  <2>7. QueueBlock(w, msg) = Append(w, MessageFragments(msg))
    BY <1>2 DEF QueueBlock
  <2>. QED BY <2>3, <2>6, <2>7 DEF Short
<1>. QED BY <1>1, <1>2

LEMMA PushedShort ==
    ASSUME NEW w \in Waitlists, NEW f \in Fraglists, NEW n \in Counts, NEW s \in Stream,
           Short(w[s]), n[s] <= MaxFragbufs
    PROVE  Short(SentWaitlist(w, f)[s]) /\ SentCount(w, f, n)[s] <= MaxFragbufs
<1>1. CASE ~MovesUp(w, f, s)
  BY <1>1 DEF SentCount, SentWaitlist
<1>2. CASE MovesUp(w, f, s)
  <2>1. w[s] \in Seq(Seq(Fragbuf)) /\ w[s] # <<>>
    BY <1>2 DEF MovesUp, Waitlists
  <2>2. SentCount(w, f, n)[s] = Len(Head(w[s])) /\ SentWaitlist(w, f)[s] = Tail(w[s])
    BY <1>2 DEF SentCount, SentWaitlist
  <2>3. \A i \in DOMAIN Tail(w[s]) : i + 1 \in DOMAIN w[s] /\ Tail(w[s])[i] = w[s][i + 1]
    BY <2>1
  <2>4. Head(w[s]) = w[s][1] /\ 1 \in DOMAIN w[s]
    BY <2>1
  <2>. QED BY <2>2, <2>3, <2>4 DEF Short
<1>. QED BY <1>1, <1>2

-----------------------------------------------------------------------------
(***************************************************************************)
(* The steps of a pipe keep the places.                                    *)
(***************************************************************************)
\* Blocks that are queued change nothing for the one under way.
LEMMA EnqueuedPlace ==
    ASSUME ChannelTypeOK, NEW e \in Peer, PlaceInv(e), NEW w \in Waitlists, NEW push \in BOOLEAN,
           Enqueued(e, w, push), \A s \in Stream : WholeBlocks(w[s]) /\ Short(w[s]),
           Len(message'[e]) <= MaxMessage, UNCHANGED <<transitOf(e), arrivedOf(e)>>
    PROVE  PlaceInv(e)'
<1>1. ASSUME NEW s \in Stream
      PROVE  /\ WholeBlocks(waitlist'[e][s]) /\ EndOfBlock(List(e, s)', Count(e, s)')
             /\ \/ List(e, s)' = List(e, s) /\ Count(e, s)' = Count(e, s)
                \/ List(e, s) = <<>> /\ Count(e, s)' = Len(List(e, s)')
             /\ Short(waitlist'[e][s]) /\ Count(e, s)' <= MaxFragbufs
  <2>1. /\ EndOfBlock(fragbufs[e][s], fragbufcount[e][s]) /\ fragbufcount[e][s] <= MaxFragbufs
        /\ WholeBlocks(w[s]) /\ Short(w[s])
    BY DEF PlaceInv, BlocksInv, FitsInv, List, Count
  <2>2. CASE ~push
    BY <2>1, <2>2 DEF Enqueued, List, Count
  <2>3. CASE push
    <3>1. /\ waitlist'[e] = SentWaitlist(w, fragbufs[e])
          /\ fragbufs'[e] = SentFragbufs(w, fragbufs[e])
          /\ fragbufcount'[e] = SentCount(w, fragbufs[e], fragbufcount[e])
      BY <2>3 DEF Enqueued
    <3>2. fragbufs[e] \in Fraglists /\ fragbufcount[e] \in Counts
      BY Types
    <3>3. Short(waitlist'[e][s]) /\ Count(e, s)' <= MaxFragbufs
      BY <2>1, <3>1, <3>2, PushedShort DEF Count
    <3>. QED BY <2>1, <3>1, <3>2, <3>3, PushedWhole DEF List, Count
  <2>. QED BY <2>2, <2>3
<1>2. /\ Awaited(e)' = Awaited(e)
      /\ \A s \in Stream : Got(e, s)' = Got(e, s) /\ Done(e, s)' = Done(e, s) /\ Out(e, s)' = Out(e, s)
  BY DEF transitOf, arrivedOf, Got, Done, Out
<1>3. NextInv(e)'
  <2>1. \A s \in Stream : Follows(Got(e, s), Done(e, s), List(e, s), Count(e, s), Awaited(e), Out(e, s))
    BY DEF PlaceInv, NextInv
  <2>2. \A s \in Stream : Follows(Got(e, s), Done(e, s), List(e, s)', Count(e, s)', Awaited(e), Out(e, s))
    BY <1>1, <2>1, FollowsPushed
  <2>. QED BY <1>2, <2>2 DEF NextInv
<1>. QED BY <1>1, <1>3 DEF PlaceInv, BlocksInv, FitsInv

\* The wait list with two more blocks.
LEMMA QueuedAhead ==
    ASSUME ChannelTypeOK, NEW e \in Peer, PlaceInv(e), SizesFit(e),
           NEW msg \in Seq(Unit), SizeFits(Len(msg))
    PROVE  LET w == [waitlist[e] EXCEPT !["normal"] = QueueAhead(@, message[e], msg)]
           IN  w \in Waitlists /\ \A s \in Stream : WholeBlocks(w[s]) /\ Short(w[s])
<1>. DEFINE pending == QueueBlock(waitlist[e]["normal"], message[e])
            w == [waitlist[e] EXCEPT !["normal"] = QueueBlock(pending, msg)]
<1>1. waitlist[e] \in Waitlists /\ message[e] \in Seq(Unit) /\ waitlist[e]["normal"] \in Seq(Seq(Fragbuf))
  BY Types DEF Waitlists, Stream
<1>2. SizeFits(Len(message[e])) /\ Short(waitlist[e]["normal"]) /\ WholeBlocks(waitlist[e]["normal"])
  <2>1. Len(message[e]) \in 0 .. MaxMessage
    BY <1>1, BufferAssumption DEF PlaceInv, FitsInv
  <2>. QED BY <2>1 DEF PlaceInv, FitsInv, BlocksInv, SizesFit, Stream
<1>3. pending \in Seq(Seq(Fragbuf)) /\ WholeBlocks(pending) /\ Short(pending)
  BY <1>1, <1>2, QueueBlockType, QueuedWhole, QueuedShort
<1>. HIDE DEF pending
<1>4. /\ QueueBlock(pending, msg) \in Seq(Seq(Fragbuf))
      /\ WholeBlocks(QueueBlock(pending, msg)) /\ Short(QueueBlock(pending, msg))
  BY <1>3, QueueBlockType, QueuedWhole, QueuedShort
<1>5. w \in Waitlists /\ \A s \in Stream : WholeBlocks(w[s]) /\ Short(w[s])
  BY <1>1, <1>4 DEF Waitlists, PlaceInv, BlocksInv, FitsInv
<1>. QED BY <1>5 DEF pending, QueueAhead

LEMMA CutsPlace ==
    ASSUME ChannelTypeOK, written \in [Peer -> Nat], NEW e \in Peer, PlaceInv(e), SizesFit(e), Cuts(e)
    PROVE  PlaceInv(e)'
<1>1. PICK k \in SizesOf(e), push \in BOOLEAN :
          Enqueued(e, [waitlist[e] EXCEPT !["normal"] =
                          QueueAhead(@, message[e], Commands(e, k))], push)
  BY DEF Cuts
<1>2. k \in Nat /\ SizeFits(k)
  BY HostAssumption DEF SizesFit, SizesOf
<1>3. Commands(e, k) \in Seq(Unit) /\ Len(Commands(e, k)) = k
  BY <1>2 DEF Commands, Unit
<1>4. Len(message'[e]) <= MaxMessage /\ UNCHANGED <<transitOf(e), arrivedOf(e)>>
  BY BufferAssumption DEF Cuts
<1>. DEFINE msg == Commands(e, k)
            w == [waitlist[e] EXCEPT !["normal"] = QueueAhead(@, message[e], msg)]
<1>. HIDE DEF msg
<1>5. w \in Waitlists /\ \A s \in Stream : WholeBlocks(w[s]) /\ Short(w[s])
  BY <1>2, <1>3, QueuedAhead DEF msg
<1>6. Enqueued(e, w, push)
  BY <1>1 DEF msg
<1>. HIDE DEF w
<1>. QED BY <1>4, <1>5, <1>6, EnqueuedPlace

LEMMA CutsFilePlace ==
    ASSUME ChannelTypeOK, NEW e \in Peer, PlaceInv(e), SizesFit(e), CutsFile(e)
    PROVE  PlaceInv(e)'
<1>1. PICK name \in FilesOf[e], inMemory \in BOOLEAN :
          Enqueued(e, [waitlist[e] EXCEPT !["file"] =
                          Append(@, FileFragments(name, FileLen[name], inMemory))], TRUE)
  BY DEF CutsFile
<1>. DEFINE file == FileFragments(name, FileLen[name], inMemory)
            w == [waitlist[e] EXCEPT !["file"] = Append(@, file)]
<1>2. file \in Seq(Fragbuf) /\ file # <<>> /\ Numbered(file, 0) /\ Len(file) <= MaxFragbufs
  <2>1. name \in FileName /\ FileLen[name] \in Nat \ {0}
    BY FileAssumption
  <2>. QED BY <2>1, FileFragmentsType, WholeFile DEF SizesFit
<1>3. Enqueued(e, w, TRUE)
  BY <1>1
<1>. HIDE DEF file
<1>4. waitlist[e] \in Waitlists /\ waitlist[e]["file"] \in Seq(Seq(Fragbuf))
  BY Types DEF Waitlists, Stream
<1>5. w \in Waitlists
  <2>1. Append(waitlist[e]["file"], file) \in Seq(Seq(Fragbuf))
    BY <1>2, <1>4
  <2>. QED BY <1>4, <2>1 DEF Waitlists
<1>6. WholeBlocks(Append(waitlist[e]["file"], file)) /\ Short(Append(waitlist[e]["file"], file))
  <2>1. WholeBlocks(waitlist[e]["file"]) /\ Short(waitlist[e]["file"])
    BY DEF PlaceInv, BlocksInv, FitsInv, Stream
  <2>2. PICK old, new : old = waitlist[e]["file"] /\ new = Append(old, file)
    OBVIOUS
  <2>3. /\ old \in Seq(Seq(Fragbuf)) /\ Len(old) \in Nat /\ DOMAIN old = 1 .. Len(old)
        /\ DOMAIN new = 1 .. Len(old) + 1
        /\ \A i \in DOMAIN new : new[i] = IF i <= Len(old) THEN old[i] ELSE file
    BY <1>2, <1>4, <2>2
  <2>4. \A i \in DOMAIN new : new[i] = file \/ \E j \in DOMAIN old : new[i] = old[j]
    BY <2>3
  <2>5. WholeBlocks(old) /\ Short(old)
    BY <2>1, <2>2
  <2>6. WholeBlocks(new) /\ Short(new)
    BY <1>2, <2>4, <2>5 DEF WholeBlocks, Short
  <2>. QED BY <2>2, <2>6
<1>7. \A s \in Stream : WholeBlocks(w[s]) /\ Short(w[s])
  BY <1>4, <1>6 DEF PlaceInv, BlocksInv, FitsInv, Waitlists
<1>8. Len(message'[e]) <= MaxMessage /\ UNCHANGED <<transitOf(e), arrivedOf(e)>>
  BY DEF CutsFile, PlaceInv, FitsInv
<1>. HIDE DEF w
<1>. QED BY <1>3, <1>5, <1>7, <1>8, EnqueuedPlace

\* What is loaded is what comes next for the receiver.
LEMMA LoadsPlace ==
    ASSUME ChannelTypeOK, NEW e \in Peer, PlaceInv(e), SizesFit(e), Loads(e)
    PROVE  PlaceInv(e)'
<1>. DEFINE w == SentWaitlist(waitlist[e], fragbufs[e])
            f == SentFragbufs(waitlist[e], fragbufs[e])
            n == SentCount(waitlist[e], fragbufs[e], fragbufcount[e])
            stalled == Stalled(e, f)
            regular == IF stalled THEN <<>> ELSE message[e]
            load == LoadedPayload(regular, f, n)
<1>1. /\ waitlist[e] \in Waitlists /\ fragbufs[e] \in Fraglists /\ fragbufcount[e] \in Counts
      /\ message[e] \in Seq(Unit) /\ \A s \in Stream : Done(e, s) \in BOOLEAN /\ Got(e, s) \in Seq(Fragment)
  BY Types
<1>2. w \in Waitlists /\ f \in Fraglists /\ n \in Counts
  BY <1>1, PushType
<1>3. PICK requeue \in BOOLEAN : LoadsFrom(e, w, f, n, requeue)
  BY DEF Loads
<1>. DEFINE queued == IF requeue THEN [w EXCEPT !["normal"] = QueueBlock(@, message[e])] ELSE w
<1>4. /\ waitlist'[e] = queued /\ fragbufs'[e] = Unlinked(f, load) /\ fragbufcount'[e] = n
      /\ message'[e] = IF requeue \/ regular # <<>> THEN <<>> ELSE message[e]
      /\ reliable'[e] = load
      /\ Awaited(e)' = (regular # <<>> \/ \E s \in Stream : f[s] # <<>>)
  BY <1>3 DEF LoadsFrom
<1>5. ~Awaited(e) /\ (\A s \in Stream : ~Done(e, s)) /\ UNCHANGED arrivedOf(e)
  BY DEF Loads
<1>6. ASSUME NEW s \in Stream
      PROVE  /\ WholeBlocks(w[s]) /\ EndOfBlock(f[s], n[s])
             /\ \/ f[s] = List(e, s) /\ n[s] = Count(e, s)
                \/ List(e, s) = <<>> /\ n[s] = Len(f[s])
  <2>1. WholeBlocks(waitlist[e][s]) /\ EndOfBlock(fragbufs[e][s], fragbufcount[e][s])
    BY DEF PlaceInv, BlocksInv, List, Count
  <2>. QED BY <1>1, <2>1, PushedWhole DEF List, Count
<1>7. ASSUME NEW s \in Stream PROVE Short(w[s]) /\ n[s] <= MaxFragbufs
  <2>1. Short(waitlist[e][s]) /\ fragbufcount[e][s] <= MaxFragbufs
    BY DEF PlaceInv, FitsInv, Count
  <2>. QED BY <1>1, <2>1, PushedShort
<1>8. ASSUME NEW s \in Stream
      PROVE  \/ load.frag[s] = NoFragment
             \/ f[s] # <<>> /\ load.frag[s] = TakenFragment(f, n, s)
  BY <1>8 DEF LoadedPayload, Takes, Stream
<1>. HIDE DEF f, n, w, stalled, load
<1>9. ASSUME NEW s \in Stream
      PROVE  Follows(Got(e, s), FALSE, f[s], n[s], FALSE, Out(e, s))
  <2>1. Follows(Got(e, s), Done(e, s), List(e, s), Count(e, s), Awaited(e), Out(e, s))
    BY DEF PlaceInv, NextInv
  <2>2. Done(e, s) = FALSE /\ Awaited(e) = FALSE
    BY <1>1, <1>5 DEF Awaited
  <2>3. Follows(Got(e, s), FALSE, List(e, s), Count(e, s), FALSE, Out(e, s))
    BY <2>1, <2>2
  <2>. QED BY <1>6, <2>3, FollowsPushed
<1>10. \A s \in Stream : WholeBlocks(queued[s]) /\ Short(queued[s])
  <2>1. w["normal"] \in Seq(Seq(Fragbuf)) /\ WholeBlocks(w["normal"]) /\ Short(w["normal"])
    BY <1>2, <1>6, <1>7 DEF Waitlists, Stream
  <2>2. SizeFits(Len(message[e]))
    <3>1. Len(message[e]) \in 0 .. MaxMessage
      BY <1>1, BufferAssumption DEF PlaceInv, FitsInv
    <3>. QED BY <3>1 DEF SizesFit
  <2>3. WholeBlocks(QueueBlock(w["normal"], message[e])) /\ Short(QueueBlock(w["normal"], message[e]))
    BY <1>1, <2>1, <2>2, QueuedWhole, QueuedShort
  <2>. QED BY <1>2, <1>6, <1>7, <2>3 DEF Waitlists
<1>11. ASSUME NEW s \in Stream
       PROVE  /\ EndOfBlock(List(e, s)', Count(e, s)')
              /\ Follows(Got(e, s)', Done(e, s)', List(e, s)', Count(e, s)', Awaited(e)', Out(e, s)')
  <2>1. /\ Got(e, s)' = Got(e, s) /\ Done(e, s)' = FALSE /\ Count(e, s)' = n[s]
        /\ Out(e, s)' = load.frag[s]
        /\ List(e, s)' = IF load.frag[s] # NoFragment THEN Tail(f[s]) ELSE f[s]
    <3>1. Done(e, s) = FALSE
      BY <1>1, <1>5
    <3>. QED BY <1>4, <1>5, <3>1 DEF Got, Done, Count, Out, List, Unlinked, arrivedOf
  <2>2. CASE load.frag[s] = NoFragment
    <3>1. Follows(Got(e, s), FALSE, f[s], n[s], Awaited(e)', NoFragment)
      BY <1>9, FollowsLeft
    <3>. QED BY <1>6, <2>1, <2>2, <3>1
  <2>3. CASE load.frag[s] # NoFragment
    <3>1. f[s] # <<>> /\ load.frag[s] = TakenFragment(f, n, s)
      BY <1>8, <2>3
    <3>2. load.frag[s].id = Head(f[s]).bufferid /\ load.frag[s].count = n[s]
      BY <3>1 DEF TakenFragment
    <3>3. f[s] \in Seq(Fragbuf) /\ n[s] \in Nat
      BY <1>2 DEF Fraglists, Counts
    <3>4. Follows(Got(e, s), FALSE, Tail(f[s]), n[s], TRUE, load.frag[s]) /\ EndOfBlock(Tail(f[s]), n[s])
      BY <1>1, <1>6, <1>7, <1>9, <3>1, <3>2, <3>3, FollowsTaken
    <3>5. Awaited(e)' = TRUE
      BY <1>4, <3>1
    <3>. QED BY <2>1, <2>3, <3>4, <3>5
  <2>. QED BY <2>2, <2>3
<1>12. Len(message'[e]) <= MaxMessage
  <2>1. message'[e] = <<>> \/ message'[e] = message[e]
    BY <1>4
  <2>. QED BY <2>1, BufferAssumption DEF PlaceInv, FitsInv
<1>. QED BY <1>4, <1>7, <1>10, <1>11, <1>12 DEF PlaceInv, BlocksInv, NextInv, FitsInv, Count

LEMMA ClearsPlace ==
    ASSUME NEW e \in Peer, PlaceInv(e), Clears(e)
    PROVE  PlaceInv(e)'
<1>1. /\ Awaited(e) = FALSE /\ Awaited(e)' = FALSE
      /\ UNCHANGED <<queueOf(e), writtenBy(e), arrivedOf(e)>>
  BY DEF Clears, Awaited
<1>2. \A s \in Stream : /\ Got(e, s)' = Got(e, s) /\ Done(e, s)' = Done(e, s) /\ List(e, s)' = List(e, s)
                        /\ Count(e, s)' = Count(e, s)
  BY <1>1 DEF queueOf, arrivedOf, Got, Done, List, Count
<1>3. BlocksInv(e)' /\ FitsInv(e)'
  BY <1>1, <1>2 DEF PlaceInv, BlocksInv, FitsInv, queueOf, writtenBy
<1>4. ASSUME NEW s \in Stream
      PROVE  Follows(Got(e, s), Done(e, s), List(e, s), Count(e, s), FALSE, Out(e, s)')
  <2>1. Follows(Got(e, s), Done(e, s), List(e, s), Count(e, s), FALSE, Out(e, s))
    BY <1>1 DEF PlaceInv, NextInv
  <2>. QED BY <2>1, FollowsLeft
<1>. QED BY <1>1, <1>2, <1>3, <1>4 DEF PlaceInv, NextInv

\* What the receiver's lists are with the awaited payload in them.
LEMMA PlacedWith ==
    ASSUME ChannelTypeOK, NEW e \in Peer, PlaceInv(e), Awaited(e), \A s \in Stream : ~Done(e, s),
           NEW s \in Stream
    PROVE  /\ InPlace(BufsWith(e)[s])
           /\ \A out : Follows(BufsWith(e)[s], ReadyWith(e)[s], List(e, s), Count(e, s), FALSE, out)
<1>1. /\ Got(e, s) \in Seq(Fragment) /\ Done(e, s) = FALSE /\ Awaited(e) = TRUE
      /\ Out(e, s) \in Fragment \union {NoFragment}
  <2>1. reliable[e] \in Payload
    BY DEF ChannelTypeOK
  <2>. QED BY <2>1, Types DEF Awaited, Out, Payload
<1>2. Follows(Got(e, s), FALSE, List(e, s), Count(e, s), TRUE, Out(e, s))
  BY <1>1 DEF PlaceInv, NextInv
<1>3. CASE Out(e, s) = NoFragment
  <2>1. BufsWith(e)[s] = Got(e, s)
    BY <1>3 DEF BufsWith, StoredBufs, Out, Got
  <2>2. ReadyWith(e)[s] = FALSE
    <3>1. ReadyWith(e)[s] = (incomingready[Other(e)][s] \/ FALSE)
      BY <1>3 DEF ReadyWith, StoredReady, Out
    <3>. QED BY <3>1 DEF Done
  <2>3. InPlace(Got(e, s)) /\ \A out : Follows(Got(e, s), FALSE, List(e, s), Count(e, s), FALSE, out)
    BY <1>2, <1>3 DEF Follows
  <2>. QED BY <2>1, <2>2, <2>3
<1>4. CASE Out(e, s) # NoFragment
  <2>. DEFINE after == StoreFragment(Got(e, s), Out(e, s))
  <2>1. Out(e, s) \in Fragment
    BY <1>1, <1>4
  <2>2. BufsWith(e)[s] = after
    BY <1>4 DEF BufsWith, StoredBufs, Out, Got
  <2>3. /\ InPlace(after) /\ after # <<>>
        /\ \A out : Follows(after, Len(after) = Out(e, s).count, List(e, s), Count(e, s), FALSE, out)
    BY <1>1, <1>2, <2>1, FollowsGot
  <2>. HIDE DEF after
  <2>4. ReadyWith(e)[s] = (Len(after) = Out(e, s).count)
    <3>1. ReadyWith(e)[s] = (incomingready[Other(e)][s] \/ Len(after) = Out(e, s).count)
      BY <1>4, <2>2, <2>3 DEF ReadyWith, StoredReady, Out
    <3>. QED BY <3>1 DEF Done
  <2>. QED BY <2>2, <2>3, <2>4
<1>. QED BY <1>3, <1>4

LEMMA AcceptsPlace ==
    ASSUME ChannelTypeOK, NEW e \in Peer, PlaceInv(e), Accepts(e)
    PROVE  PlaceInv(e)' /\ \A s \in Stream : InPlace(BufsWith(e)[s])
<1>1. PICK copied \in SUBSET Ready(ReadyWith(e)) :
          TakesOver(Other(e), BufsWith(e), ReadyWith(e), reliable[e].regular, copied)
  BY DEF Accepts
<1>2. /\ Awaited(e) /\ Awaited(e)' = FALSE /\ (\A s \in Stream : ~Done(e, s))
      /\ UNCHANGED <<queueOf(e), writtenBy(e), reliable[e]>>
  BY DEF Accepts, Awaited
<1>3. \A s \in Stream : List(e, s)' = List(e, s) /\ Count(e, s)' = Count(e, s)
  BY <1>2 DEF queueOf, List, Count
<1>4. BlocksInv(e)' /\ FitsInv(e)'
  BY <1>2, <1>3 DEF PlaceInv, BlocksInv, FitsInv, queueOf, writtenBy
<1>5. ASSUME NEW s \in Stream
      PROVE  /\ InPlace(BufsWith(e)[s])
             /\ Follows(Got(e, s)', Done(e, s)', List(e, s), Count(e, s), FALSE, Out(e, s)')
  <2>1. /\ InPlace(BufsWith(e)[s])
        /\ \A out : Follows(BufsWith(e)[s], ReadyWith(e)[s], List(e, s), Count(e, s), FALSE, out)
    BY <1>2, PlacedWith
  <2>2. /\ Got(e, s)' = IF s \in copied THEN <<>> ELSE BufsWith(e)[s]
        /\ Done(e, s)' = (s \notin copied /\ ReadyWith(e)[s])
    BY <1>1 DEF TakesOver, Got, Done
  <2>3. ReadyWith(e)[s] \in BOOLEAN
    BY DEF ReadyWith, StoredReady
  <2>4. CASE s \in copied
    <3>1. ReadyWith(e)[s] = TRUE
      BY <2>3, <2>4 DEF Ready
    <3>2. Follows(<<>>, FALSE, List(e, s), Count(e, s), FALSE, Out(e, s)')
      BY <2>1, <3>1, FollowsCopied
    <3>3. Got(e, s)' = <<>> /\ Done(e, s)' = FALSE
      BY <2>2, <2>4
    <3>. QED BY <2>1, <3>2, <3>3
  <2>5. CASE s \notin copied
    <3>1. Got(e, s)' = BufsWith(e)[s] /\ Done(e, s)' = ReadyWith(e)[s]
      BY <2>2, <2>3, <2>5
    <3>. QED BY <2>1, <3>1
  <2>. QED BY <2>4, <2>5
<1>6. NextInv(e)'
  BY <1>2, <1>3, <1>5 DEF NextInv
<1>. QED BY <1>4, <1>5, <1>6 DEF PlaceInv

LEMMA CopiesPlace ==
    ASSUME ChannelTypeOK, NEW e \in Peer, PlaceInv(e), Copies(e)
    PROVE  PlaceInv(e)'
<1>1. /\ Awaited(e) = FALSE /\ Awaited(e)' = FALSE
      /\ UNCHANGED <<queueOf(e), writtenBy(e), transitOf(e)>>
  BY DEF Copies, Awaited, transitOf
<1>2. \A s \in Stream : List(e, s)' = List(e, s) /\ Count(e, s)' = Count(e, s) /\ Out(e, s)' = Out(e, s)
  BY <1>1 DEF queueOf, transitOf, List, Count, Out
<1>3. BlocksInv(e)' /\ FitsInv(e)'
  BY <1>1, <1>2 DEF PlaceInv, BlocksInv, FitsInv, queueOf, writtenBy
<1>4. ASSUME NEW s \in Stream
      PROVE  Follows(Got(e, s)', Done(e, s)', List(e, s), Count(e, s), FALSE, Out(e, s))
  <2>1. Follows(Got(e, s), Done(e, s), List(e, s), Count(e, s), FALSE, Out(e, s))
    BY <1>1 DEF PlaceInv, NextInv
  <2>2. Got(e, s)' = (IF Done(e, s) THEN <<>> ELSE Got(e, s)) /\ Done(e, s)' = FALSE
    <3>1. s \in Ready(incomingready[Other(e)]) <=> Done(e, s)
      BY DEF Ready, Done
    <3>2. /\ Got(e, s)' = IF s \in Ready(incomingready[Other(e)]) THEN <<>> ELSE Got(e, s)
          /\ Done(e, s)' = (s \notin Ready(incomingready[Other(e)]) /\ Done(e, s))
      BY DEF Copies, TakesOver, Got, Done
    <3>. QED BY <3>1, <3>2
  <2>3. CASE Done(e, s)
    <3>1. Done(e, s) = TRUE
      BY <2>3, Types
    <3>2. Follows(<<>>, FALSE, List(e, s), Count(e, s), FALSE, Out(e, s))
      BY <2>1, <3>1, FollowsCopied
    <3>. QED BY <2>2, <2>3, <3>2
  <2>4. CASE ~Done(e, s)
    <3>1. Done(e, s) = FALSE
      BY <2>4, Types
    <3>. QED BY <2>1, <2>2, <3>1
  <2>. QED BY <2>3, <2>4
<1>. QED BY <1>1, <1>2, <1>3, <1>4 DEF PlaceInv, NextInv

LEMMA WritesPlace ==
    ASSUME NEW e \in Peer, PlaceInv(e), Writes(e) \/ Rests(e)
    PROVE  PlaceInv(e)'
<1>1. UNCHANGED <<queueOf(e), transitOf(e), arrivedOf(e)>> /\ Len(message'[e]) <= MaxMessage
  BY DEF Writes, Rests, writtenBy, PlaceInv, FitsInv
<1>2. /\ Awaited(e)' = Awaited(e)
      /\ \A s \in Stream : /\ Got(e, s)' = Got(e, s) /\ Done(e, s)' = Done(e, s) /\ List(e, s)' = List(e, s)
                           /\ Count(e, s)' = Count(e, s) /\ Out(e, s)' = Out(e, s)
  BY <1>1 DEF queueOf, transitOf, arrivedOf, Got, Done, List, Count, Out
<1>. QED BY <1>1, <1>2 DEF PlaceInv, BlocksInv, NextInv, FitsInv, queueOf

LEMMA PlaceStep ==
    ASSUME TypeInv, NEW e \in Peer, PlaceInv(e), SizesFit(e), PipeStep(e)
    PROVE  PlaceInv(e)'
BY WritesPlace, CutsPlace, CutsFilePlace, LoadsPlace, ClearsPlace, AcceptsPlace, CopiesPlace
   DEF TypeInv, PipeStep

-----------------------------------------------------------------------------
(***************************************************************************)
(* No block is too long, so no fragment is ever out of its place.          *)
(***************************************************************************)
LEMMA PassInit ==
    Init => PlainInv /\ LeavesInv /\ NeverReconnects
            /\ \A e \in Peer : HeldInv(e) /\ PlaceInv(e) /\ ~Awaited(e)
<1>. SUFFICES ASSUME Init
              PROVE  PlainInv /\ LeavesInv /\ NeverReconnects
                     /\ \A e \in Peer : HeldInv(e) /\ PlaceInv(e) /\ ~Awaited(e)
  OBVIOUS
<1>1. PICK start \in ServerSequences : ChannelInit(start)
  BY DEF Init
<1>2. "server" \in Peer /\ "client" \in Peer /\ \A e \in Peer : Other(e) \in Peer
  BY TwoPeers DEF Peer
<1>3. ASSUME NEW e \in Peer
      PROVE  /\ \A s \in Stream : /\ List(e, s) = <<>> /\ Count(e, s) = 0 /\ Got(e, s) = <<>>
                                  /\ Done(e, s) = FALSE /\ waitlist[e][s] = <<>>
                                  /\ reliable[e].frag[s] = NoFragment
             /\ ~Awaited(e) /\ message[e] = <<>>
  BY <1>1, <1>2 DEF ChannelInit, List, Count, Got, Done, Awaited, EmptyPayload
<1>4. PlainInv /\ NeverReconnects /\ net = {}
  BY <1>1 DEF ChannelInit, PlainInv, NeverReconnects, Init
<1>5. LeavesInv
  <2>1. InGame => active
    BY DEF Init
  <2>2. \A s \in Stream : waitlist["client"][s] = <<>> /\ fragbufs["client"][s] = <<>>
                          /\ reliable["client"].frag[s] = NoFragment
    BY <1>2, <1>3 DEF List
  <2>. QED BY <1>4, <2>1, <2>2 DEF LeavesInv
<1>6. ASSUME NEW e \in Peer PROVE HeldInv(e) /\ PlaceInv(e)
  <2>1. HeldInv(e)
    BY <1>3 DEF HeldInv
  <2>2. ASSUME NEW s \in Stream
        PROVE  /\ WholeBlocks(waitlist[e][s]) /\ EndOfBlock(List(e, s), Count(e, s))
               /\ Follows(Got(e, s), Done(e, s), List(e, s), Count(e, s), Awaited(e), Out(e, s))
               /\ Count(e, s) <= MaxFragbufs /\ Short(waitlist[e][s])
    <3>1. /\ WholeBlocks(<<>>) /\ EndOfBlock(<<>>, 0) /\ Short(<<>>) /\ AtStart(<<>>, 0)
          /\ InPlace(<<>>)
      BY DEF WholeBlocks, EndOfBlock, Numbered, Short, AtStart, InPlace
    <3>2. 0 <= MaxFragbufs
      BY BufferAssumption
    <3>. QED BY <1>3, <3>1, <3>2 DEF Follows
  <2>3. Len(message[e]) <= MaxMessage
    <3>1. message[e] = <<>>
      BY <1>3
    <3>2. Len(<<>>) <= MaxMessage
      BY BufferAssumption
    <3>. QED BY <3>1, <3>2
  <2>. QED BY <2>1, <2>2, <2>3 DEF PlaceInv, BlocksInv, NextInv, FitsInv
<1>. QED BY <1>3, <1>4, <1>5, <1>6

FragmentInv == PlainInv /\ HeldInv("server") /\ PlaceInv("server") /\ NeverReconnects

LEMMA FragmentStep ==
    SizesFit("server") /\ HostsInv /\ ReliableInv /\ FragmentInv /\ [Next]_vars => FragmentInv'
<1>. SUFFICES ASSUME SizesFit("server"), HostsInv, ReliableInv, FragmentInv, [Next]_vars
              PROVE  FragmentInv'
  OBVIOUS
<1>1. TypeInv /\ "server" \in Peer
  BY DEF HostsInv, Peer
<1>2. PlainInv' /\ HeldInv("server")' /\ PipeStep("server") /\ ReconnectStep
  BY ServerPipeStep DEF FragmentInv
<1>3. PlaceInv("server")'
  BY <1>1, <1>2, PlaceStep DEF FragmentInv
<1>4. NeverReconnects'
  <2>1. CASE UNCHANGED reconnect
    BY <2>1 DEF FragmentInv, NeverReconnects
  <2>2. CASE Accepts("server")
    <3>1. \A s \in Stream : InPlace(BufsWith("server")[s])
      BY <1>1, <2>2, AcceptsPlace DEF FragmentInv, TypeInv
    <3>2. ~OutOfPlace(BufsWith("server"), reliable["server"].frag)
      BY <3>1 DEF OutOfPlace, InPlace
    <3>. QED BY <1>2, <3>2 DEF FragmentInv, NeverReconnects, ReconnectStep
  <2>. QED BY <1>2, <2>1, <2>2 DEF ReconnectStep
<1>. QED BY <1>2, <1>3, <1>4 DEF FragmentInv

\* Loss, duplication and reordering of datagrams never make a client think that
\* a fragment has been lost, if nothing that the server sends is cut in more
\* fragments than MAX_NETCHAN_FRAGBUFS_PER_STREAM: neither what is pending in
\* chan->message, nor a message or a broadcast, nor a file.
THEOREM ShortBlocksNeverReconnect == SizesFit("server") /\ Spec => []NeverReconnects
<1>. SUFFICES ASSUME SizesFit("server") PROVE Spec => []NeverReconnects
  OBVIOUS
<1>1. Init => HostsInv /\ ReliableInv /\ FragmentInv
  BY InvInit, HostsInit, PassInit DEF Inv, FragmentInv, Peer
<1>2. (HostsInv /\ ReliableInv /\ FragmentInv) /\ [Next]_vars => (HostsInv /\ ReliableInv /\ FragmentInv)'
  BY HostsStep, InvStep, FragmentStep DEF HostsInv, Inv
<1>3. HostsInv /\ ReliableInv /\ FragmentInv => NeverReconnects
  BY DEF FragmentInv
<1>. QED BY <1>1, <1>2, <1>3, PTL DEF Spec

-----------------------------------------------------------------------------
(***************************************************************************)
(* What is in the fragments.                                               *)
(***************************************************************************)
\* The units of o from the one after number a to number b.
Units(o, a, b) == [x \in 1 .. b - a |-> <<o, a + x>>]
UnitsOf(o)     == {o} \X Int

\* A sequence whose elements hold, one after the other, what lies between a and b:
\* its element i what lies between c[i - 1] and c[i], as told by the triples in R.
Cuts3(seq, R, c) ==
    /\ \A i, j \in 0 .. Len(seq) : i <= j => c[i] <= c[j]
    /\ \A i \in 1 .. Len(seq) : <<seq[i], c[i - 1], c[i]>> \in R
Runs(seq, R, a, b) ==
    \E c \in [0 .. Len(seq) -> Int] : c[0] = a /\ c[Len(seq)] = b /\ Cuts3(seq, R, c)

\* Fragments that hold the units of o.
AnyFragment == Fragment \union Fragbuf
Pieces(o) == {t \in AnyFragment \X Int \X Int : t[1].data = Units(o, t[2], t[3])}
Covers(o, list, a, b) == Runs(list, Pieces(o), a, b)

\* What is needed of them.
IsUnits(u, o, a, b) ==
    /\ u \in Seq(UnitsOf(o)) /\ Len(u) = b - a
    /\ \A x \in 1 .. b - a : u[x] = <<o, a + x>>

LEMMA UnitsFacts ==
    ASSUME NEW o, NEW a \in Int, NEW b \in Int, a <= b
    PROVE  /\ IsUnits(Units(o, a, b), o, a, b)
           /\ Units(o, a, b) = <<>> <=> a = b
<1>1. b - a \in Nat
  OBVIOUS
<1>2. \A x \in 1 .. b - a : <<o, a + x>> \in UnitsOf(o)
  BY DEF UnitsOf
<1>3. Units(o, a, b) \in Seq(UnitsOf(o)) /\ Len(Units(o, a, b)) = b - a
  BY <1>1, <1>2 DEF Units
<1>4. Units(o, a, b) = <<>> <=> a = b
  BY <1>3
<1>. QED BY <1>3, <1>4 DEF Units, IsUnits

LEMMA UnitsJoined ==
    ASSUME NEW o, NEW a \in Int, NEW b \in Int, NEW c \in Int, a <= b, b <= c
    PROVE  Units(o, a, b) \o Units(o, b, c) = Units(o, a, c)
<1>. DEFINE T == UnitsOf(o)
            x == Units(o, a, b)
            y == Units(o, b, c)
            z == Units(o, a, c)
<1>0. a <= b /\ b <= c /\ a <= c
  OBVIOUS
<1>1. x \in Seq(T) /\ Len(x) = b - a /\ \A i \in 1 .. b - a : x[i] = <<o, a + i>>
  <2>1. IsUnits(x, o, a, b)
    BY <1>0, UnitsFacts
  <2>. QED BY <2>1 DEF IsUnits
<1>2. y \in Seq(T) /\ Len(y) = c - b /\ \A i \in 1 .. c - b : y[i] = <<o, b + i>>
  <2>1. IsUnits(y, o, b, c)
    BY <1>0, UnitsFacts
  <2>. QED BY <2>1 DEF IsUnits
<1>3. z \in Seq(T) /\ Len(z) = c - a /\ \A i \in 1 .. c - a : z[i] = <<o, a + i>>
  <2>1. IsUnits(z, o, a, c)
    BY <1>0, UnitsFacts
  <2>. QED BY <2>1 DEF IsUnits
<1>. HIDE DEF x, y, z, T
<1>4. /\ x \o y \in Seq(T) /\ Len(x \o y) = Len(x) + Len(y)
      /\ \A i \in 1 .. Len(x) : (x \o y)[i] = x[i]
      /\ \A i \in Len(x) + 1 .. Len(x) + Len(y) : (x \o y)[i] = y[i - Len(x)]
  <2>1. x \in Seq(T) /\ y \in Seq(T)
    BY <1>1, <1>2
  <2>. QED BY <2>1
<1>5. ASSUME NEW i \in 1 .. c - a PROVE (x \o y)[i] = z[i]
  <2>1. CASE i <= b - a
    <3>1. i \in 1 .. Len(x) /\ i \in 1 .. b - a
      BY <1>1, <2>1
    <3>. QED BY <1>1, <1>3, <1>4, <3>1
  <2>2. CASE i > b - a
    <3>. DEFINE k == i - (b - a)
    <3>1. k \in 1 .. c - b /\ i \in Len(x) + 1 .. Len(x) + Len(y) /\ k = i - Len(x) /\ b + k = a + i
      BY <1>1, <1>2, <2>2
    <3>. HIDE DEF k
    <3>2. (x \o y)[i] = y[k] /\ y[k] = <<o, b + k>> /\ z[i] = <<o, a + i>>
      BY <1>2, <1>3, <1>4, <3>1
    <3>. QED BY <3>1, <3>2
  <2>3. i <= b - a \/ i > b - a
    OBVIOUS
  <2>. QED BY <2>1, <2>2, <2>3
<1>6. Len(x \o y) = Len(z)
  BY <1>1, <1>2, <1>3, <1>4
<1>7. x \o y = z
  <2>. DEFINE u == x \o y
  <2>1. u \in Seq(T) /\ z \in Seq(T) /\ Len(u) = Len(z) /\ Len(z) = c - a /\ \A i \in 1 .. c - a : u[i] = z[i]
    BY <1>3, <1>4, <1>5, <1>6
  <2>. HIDE DEF u
  <2>2. u = z
    BY <2>1
  <2>. QED BY <2>2 DEF u
<1>. QED BY <1>7 DEF x, y, z

LEMMA UnitsCut ==
    ASSUME NEW o, NEW a \in Int, NEW b \in Int, a <= b,
           NEW lo \in 1 .. b - a, NEW hi \in lo .. b - a
    PROVE  SubSeq(Units(o, a, b), lo, hi) = Units(o, a + lo - 1, a + hi)
<1>. DEFINE T == UnitsOf(o)
            x == Units(o, a, b)
            y == SubSeq(x, lo, hi)
            p == a + lo - 1
            q == a + hi
            z == Units(o, p, q)
<1>1. x \in Seq(T) /\ Len(x) = b - a /\ \A i \in 1 .. b - a : x[i] = <<o, a + i>>
  <2>1. IsUnits(x, o, a, b)
    BY UnitsFacts
  <2>. QED BY <2>1 DEF IsUnits
<1>2. p \in Int /\ q \in Int /\ p <= q /\ q - p = hi - lo + 1
  OBVIOUS
<1>3. \A i \in 1 .. hi - lo + 1 : lo + i - 1 \in 1 .. b - a /\ a + (lo + i - 1) = p + i
  OBVIOUS
<1>. HIDE DEF p, q
<1>4. z \in Seq(T) /\ Len(z) = hi - lo + 1 /\ \A i \in 1 .. hi - lo + 1 : z[i] = <<o, p + i>>
  <2>1. z \in Seq(T) /\ Len(z) = q - p /\ \A i \in 1 .. q - p : z[i] = <<o, p + i>>
    <3>1. IsUnits(z, o, p, q)
      BY <1>2, UnitsFacts
    <3>. QED BY <3>1 DEF IsUnits
  <2>. QED BY <1>2, <2>1
<1>. HIDE DEF x, z, T
<1>5. y \in Seq(T) /\ Len(y) = hi - lo + 1 /\ \A i \in 1 .. hi - lo + 1 : y[i] = x[lo + i - 1]
  <2>1. x \in Seq(T) /\ lo \in 1 .. Len(x) /\ hi \in lo .. Len(x)
    BY <1>1
  <2>. QED BY <2>1 DEF y
<1>. HIDE DEF y
<1>6. ASSUME NEW i \in 1 .. hi - lo + 1 PROVE y[i] = z[i]
  <2>. DEFINE k == lo + i - 1
  <2>1. k \in 1 .. b - a /\ a + k = p + i /\ y[i] = x[k]
    BY <1>3, <1>5
  <2>. HIDE DEF k
  <2>2. x[k] = <<o, a + k>> /\ z[i] = <<o, p + i>>
    BY <1>1, <1>4, <2>1
  <2>. QED BY <2>1, <2>2
<1>7. y = z
  BY <1>4, <1>5, <1>6
<1>. QED BY <1>7 DEF x, y, z, p, q

-----------------------------------------------------------------------------
(***************************************************************************)
(* Sequences that hold what lies between two numbers.                      *)
(***************************************************************************)
LEMMA RunsBounds ==
    ASSUME NEW seq, Len(seq) \in Nat, NEW R, NEW a, NEW b, Runs(seq, R, a, b)
    PROVE  /\ a \in Int /\ b \in Int /\ a <= b
           /\ Len(seq) = 0 => a = b
<1>1. PICK c \in [0 .. Len(seq) -> Int] : c[0] = a /\ c[Len(seq)] = b /\ Cuts3(seq, R, c)
  BY DEF Runs
<1>2. 0 \in 0 .. Len(seq) /\ Len(seq) \in 0 .. Len(seq)
  OBVIOUS
<1>. QED BY <1>1, <1>2 DEF Cuts3

LEMMA RunsNone ==
    ASSUME NEW R, NEW a \in Int
    PROVE  Runs(<<>>, R, a, a)
<1>. DEFINE c == [i \in 0 .. 0 |-> a]
<1>1. c \in [0 .. Len(<<>>) -> Int] /\ c[0] = a /\ c[Len(<<>>)] = a
  OBVIOUS
<1>2. Cuts3(<<>>, R, c)
  BY DEF Cuts3
<1>. QED BY <1>1, <1>2 DEF Runs

LEMMA RunsAppended ==
    ASSUME NEW T, NEW seq \in Seq(T), NEW R, NEW a, NEW b, Runs(seq, R, a, b),
           NEW x \in T, NEW m \in Int, b <= m, <<x, b, m>> \in R
    PROVE  Runs(Append(seq, x), R, a, m)
<1>1. PICK c \in [0 .. Len(seq) -> Int] : c[0] = a /\ c[Len(seq)] = b /\ Cuts3(seq, R, c)
  BY DEF Runs
<1>. DEFINE n == Len(seq)
            d == [i \in 0 .. n + 1 |-> IF i = n + 1 THEN m ELSE c[i]]
            more == Append(seq, x)
<1>2. n \in Nat /\ Len(more) = n + 1 /\ more[n + 1] = x /\ \A i \in 1 .. n : more[i] = seq[i]
  OBVIOUS
<1>3. \A i \in 0 .. n : c[i] \in Int /\ c[i] <= b
  <2>1. n \in 0 .. n
    BY <1>2
  <2>. QED BY <1>1, <2>1 DEF Cuts3
<1>0. b \in Int
  BY <1>2, RunsBounds
<1>. HIDE DEF n
<1>4. d \in [0 .. n + 1 -> Int] /\ d[n + 1] = m /\ (\A i \in 0 .. n : d[i] = c[i]) /\ d[0] = a
  <2>1. \A i \in 0 .. n + 1 : i # n + 1 => i \in 0 .. n
    BY <1>2
  <2>2. \A i \in 0 .. n : i \in 0 .. n + 1 /\ i # n + 1
    BY <1>2
  <2>3. n + 1 \in 0 .. n + 1 /\ 0 \in 0 .. n /\ 0 # n + 1
    BY <1>2
  <2>. QED BY <1>1, <1>3, <2>1, <2>2, <2>3
<1>. HIDE DEF d, more
<1>5. ASSUME NEW i \in 0 .. n + 1, NEW j \in 0 .. n + 1, i <= j PROVE d[i] <= d[j]
  <2>1. CASE j = n + 1
    <3>1. CASE i = n + 1
      BY <1>4, <2>1, <3>1
    <3>2. CASE i # n + 1
      <4>1. i \in 0 .. n
        BY <1>2, <3>2
      <4>2. d[i] \in Int /\ d[i] <= b
        BY <1>3, <1>4, <4>1
      <4>. QED BY <1>0, <1>4, <2>1, <4>2
    <3>. QED BY <3>1, <3>2
  <2>2. CASE j # n + 1
    <3>1. i \in 0 .. n /\ j \in 0 .. n
      BY <1>2, <1>5, <2>2
    <3>2. c[i] <= c[j]
      BY <1>1, <1>5, <3>1 DEF Cuts3, n
    <3>. QED BY <1>4, <3>1, <3>2
  <2>. QED BY <2>1, <2>2
<1>6. ASSUME NEW i \in 1 .. n + 1 PROVE <<more[i], d[i - 1], d[i]>> \in R
  <2>1. CASE i = n + 1
    <3>1. i - 1 = n /\ n \in 0 .. n
      BY <1>2, <2>1
    <3>2. d[i - 1] = b /\ d[i] = m
      BY <1>1, <1>4, <2>1, <3>1 DEF n
    <3>. QED BY <1>2, <2>1, <3>2
  <2>2. CASE i # n + 1
    <3>1. i \in 1 .. n /\ i - 1 \in 0 .. n /\ i \in 0 .. n
      BY <1>2, <2>2
    <3>2. <<seq[i], c[i - 1], c[i]>> \in R
      BY <1>1, <3>1 DEF Cuts3, n
    <3>. QED BY <1>2, <1>4, <3>1, <3>2
  <2>. QED BY <2>1, <2>2
<1>7. Cuts3(more, R, d)
  BY <1>2, <1>5, <1>6 DEF Cuts3
<1>8. Runs(more, R, a, m)
  BY <1>2, <1>4, <1>7 DEF Runs
<1>. QED BY <1>8 DEF more

LEMMA RunsTail ==
    ASSUME NEW T, NEW seq \in Seq(T), seq # <<>>, NEW R, NEW a, NEW b, Runs(seq, R, a, b)
    PROVE  \E m \in Int : /\ a <= m /\ m <= b
                          /\ <<Head(seq), a, m>> \in R
                          /\ Runs(Tail(seq), R, m, b)
<1>1. PICK c \in [0 .. Len(seq) -> Int] : c[0] = a /\ c[Len(seq)] = b /\ Cuts3(seq, R, c)
  BY DEF Runs
<1>. DEFINE n == Len(seq)
            rest == Tail(seq)
            d == [i \in 0 .. n - 1 |-> c[i + 1]]
<1>2. n \in Nat /\ n # 0 /\ Len(rest) = n - 1 /\ Head(seq) = seq[1] /\ \A i \in 1 .. n - 1 : rest[i] = seq[i + 1]
  OBVIOUS
<1>. HIDE DEF n, rest
<1>3. \A i \in 0 .. n - 1 : i + 1 \in 0 .. n /\ c[i + 1] \in Int
  BY <1>1, <1>2 DEF n
<1>4. /\ d \in [0 .. n - 1 -> Int] /\ (\A i \in 0 .. n - 1 : d[i] = c[i + 1])
      /\ d[0] = c[1] /\ d[n - 1] = b
  <2>1. \A i \in 0 .. n - 1 : d[i] = c[i + 1]
    OBVIOUS
  <2>2. 0 \in 0 .. n - 1 /\ n - 1 \in 0 .. n - 1 /\ n - 1 + 1 = n /\ 0 + 1 = 1
    BY <1>2
  <2>. QED BY <1>1, <1>3, <2>1, <2>2 DEF n
<1>. HIDE DEF d
<1>5. c[1] \in Int /\ a <= c[1] /\ c[1] <= b /\ <<seq[1], a, c[1]>> \in R
  <2>1. 0 \in 0 .. n /\ 1 \in 0 .. n /\ n \in 0 .. n /\ 1 \in 1 .. n
    BY <1>2
  <2>2. <<seq[1], c[1 - 1], c[1]>> \in R
    BY <1>1, <2>1 DEF Cuts3, n
  <2>3. c[0] <= c[1] /\ c[1] <= c[n]
    BY <1>1, <1>2, <2>1 DEF Cuts3, n
  <2>. QED BY <1>1, <2>1, <2>2, <2>3 DEF n
<1>6. \A i, j \in 0 .. n - 1 : i <= j => d[i] <= d[j]
  <2>. SUFFICES ASSUME NEW i \in 0 .. n - 1, NEW j \in 0 .. n - 1, i <= j PROVE d[i] <= d[j]
    OBVIOUS
  <2>1. i + 1 \in 0 .. n /\ j + 1 \in 0 .. n /\ i + 1 <= j + 1
    BY <1>2
  <2>2. c[i + 1] <= c[j + 1]
    BY <1>1, <2>1 DEF Cuts3, n
  <2>. QED BY <1>4, <2>2
<1>7. ASSUME NEW i \in 1 .. n - 1 PROVE <<rest[i], d[i - 1], d[i]>> \in R
  <2>1. i + 1 \in 1 .. n /\ i - 1 \in 0 .. n - 1 /\ i \in 0 .. n - 1 /\ i - 1 + 1 = i /\ i + 1 - 1 = i
    BY <1>2
  <2>2. <<seq[i + 1], c[i + 1 - 1], c[i + 1]>> \in R
    BY <1>1, <2>1 DEF Cuts3, n
  <2>. QED BY <1>2, <1>4, <2>1, <2>2
<1>8. Cuts3(rest, R, d)
  BY <1>2, <1>6, <1>7 DEF Cuts3
<1>9. Runs(rest, R, c[1], b)
  BY <1>2, <1>4, <1>8 DEF Runs
<1>. QED BY <1>2, <1>5, <1>9 DEF rest

LEMMA PieceData ==
    ASSUME NEW o, NEW frag, NEW a, NEW b, <<frag, a, b>> \in Pieces(o)
    PROVE  frag \in AnyFragment /\ a \in Int /\ b \in Int /\ frag.data = Units(o, a, b)
BY DEF Pieces

LEMMA NothingCovered ==
    ASSUME NEW o, NEW a, NEW b, Covers(o, <<>>, a, b)
    PROVE  a = b
<1>1. Len(<<>>) = 0
  OBVIOUS
<1>. QED BY <1>1, RunsBounds DEF Covers

\* Put together, the fragments that cover a stretch are its units.
LEMMA CoversFlat ==
    ASSUME NEW o, NEW T, NEW list \in Seq(T), NEW a, NEW b, Covers(o, list, a, b)
    PROVE  Reassembled(list) = Units(o, a, b)
<1>1. PICK c \in [0 .. Len(list) -> Int] : c[0] = a /\ c[Len(list)] = b /\ Cuts3(list, Pieces(o), c)
  BY DEF Covers, Runs
<1>2. Len(list) \in Nat /\ DOMAIN list = 1 .. Len(list)
  OBVIOUS
<1>3. ASSUME NEW i \in 1 .. Len(list)
      PROVE  /\ c[i - 1] \in Int /\ c[i] \in Int /\ c[i - 1] <= c[i]
             /\ c[0] \in Int /\ c[0] <= c[i - 1] /\ c[0] <= c[i]
             /\ list[i].data = Units(o, c[i - 1], c[i])
  <2>1. i - 1 \in 0 .. Len(list) /\ i \in 0 .. Len(list) /\ 0 \in 0 .. Len(list) /\ 0 <= i - 1 /\ 0 <= i /\ i - 1 <= i
    BY <1>2
  <2>2. <<list[i], c[i - 1], c[i]>> \in Pieces(o)
    BY <1>1 DEF Cuts3
  <2>3. list[i].data = Units(o, c[i - 1], c[i])
    BY <2>2, PieceData
  <2>. QED BY <1>1, <2>1, <2>3 DEF Cuts3
<1>. DEFINE seqs == [i \in 1 .. Len(list) |-> list[i].data]
            n == Len(list)
<1>4. Reassembled(list) = FlattenSeq(seqs)
  BY <1>2 DEF Reassembled
<1>5. Len(seqs) = n /\ \A i \in 1 .. n : seqs[i] = Units(o, c[i - 1], c[i])
  <2>1. \A i \in 1 .. n : seqs[i] \in Seq(UnitsOf(o))
    BY <1>3, UnitsFacts DEF IsUnits
  <2>2. seqs \in Seq(Seq(UnitsOf(o))) /\ DOMAIN seqs = 1 .. n
    BY <1>2, <2>1
  <2>3. Len(seqs) = n
    BY <1>2, <2>2
  <2>. QED BY <1>3, <2>3
<1>6. CASE n = 0
  <2>1. FlattenSeq(seqs) = seqs
    BY <1>5, <1>6 DEF FlattenSeq
  <2>2. seqs = <<>>
    BY <1>6
  <2>3. Units(o, a, b) = <<>>
    <3>1. a = b /\ a \in Int
      BY <1>1, <1>6
    <3>. QED BY <3>1, UnitsFacts
  <2>. HIDE DEF seqs
  <2>. QED BY <1>4, <2>1, <2>2, <2>3
<1>7. CASE n # 0
  <2>. HIDE DEF seqs
  <2>1. PICK g : /\ FlattenSeq(seqs) = g[n]
                 /\ g[1] = seqs[1]
                 /\ \A i \in 2 .. n : g[i] = g[i - 1] \o seqs[i]
    <3>1. Len(seqs) \in Nat /\ Len(seqs) # 0
      BY <1>2, <1>5, <1>7
    <3>2. \E g : /\ FlattenSeq(seqs) = g[Len(seqs)]
                 /\ g[1] = seqs[1]
                 /\ \A i \in 2 .. Len(seqs) : g[i] = g[i - 1] \o seqs[i]
      BY <3>1, FlattenDef
    <3>3. Len(seqs) = n
      BY <1>5
    <3>. QED BY <3>2, <3>3, Zenon
  <2>. DEFINE L == {k \in Nat : k \in 1 .. n => g[k] = Units(o, c[0], c[k])}
  <2>2. 0 \in L
    OBVIOUS
  <2>3. ASSUME NEW k \in L PROVE k + 1 \in L
    <3>1. k \in Nat
      OBVIOUS
    <3>2. SUFFICES ASSUME k + 1 \in 1 .. n PROVE g[k + 1] = Units(o, c[0], c[k + 1])
      BY <3>1
    <3>. DEFINE i == k + 1
    <3>3. i \in 1 .. n /\ i - 1 = k
      BY <3>1, <3>2
    <3>. HIDE DEF i
    <3>4. /\ c[k] \in Int /\ c[i] \in Int /\ c[0] \in Int /\ c[0] <= c[k] /\ c[k] <= c[i]
          /\ seqs[i] = Units(o, c[k], c[i])
      BY <1>3, <1>5, <3>3
    <3>5. CASE k = 0
      <4>1. i = 1
        BY <3>5 DEF i
      <4>. QED BY <2>1, <3>4, <3>5, <4>1 DEF i
    <3>6. CASE k # 0
      <4>1. i \in 2 .. n /\ k \in 1 .. n
        BY <1>2, <3>1, <3>3, <3>6 DEF i
      <4>2. g[i] = g[k] \o seqs[i]
        BY <2>1, <3>3, <4>1
      <4>3. g[k] = Units(o, c[0], c[k])
        BY <4>1
      <4>4. Units(o, c[0], c[k]) \o Units(o, c[k], c[i]) = Units(o, c[0], c[i])
        BY <3>4, UnitsJoined
      <4>. QED BY <3>4, <4>2, <4>3, <4>4 DEF i
    <3>. QED BY <3>5, <3>6
  <2>. HIDE DEF L
  <2>4. L \in SUBSET Nat
    BY DEF L
  <2>5. \A k \in Nat : k \in L
    BY <2>2, <2>3, <2>4, InductiveSet
  <2>6. g[n] = Units(o, c[0], c[n])
    <3>1. n \in 1 .. n /\ n \in Nat
      BY <1>2, <1>7
    <3>. QED BY <2>5, <3>1 DEF L
  <2>. QED BY <1>1, <1>4, <2>1, <2>6
<1>. QED BY <1>6, <1>7

\* The first unit of a list whose fragments are not empty is the first of the stretch.
LEMMA CoversFirst ==
    ASSUME NEW o, NEW T, NEW list \in Seq(T), list # <<>>, NEW a, NEW b, Covers(o, list, a, b),
           list[1].data # <<>>
    PROVE  a < b /\ list[1].data[1] = <<o, a + 1>> /\ Units(o, a, b)[1] = <<o, a + 1>>
<1>1. Len(list) \in Nat /\ Head(list) = list[1]
  OBVIOUS
<1>2. a \in Int /\ b \in Int /\ a <= b
  BY <1>1, RunsBounds DEF Covers
<1>3. PICK m \in Int : a <= m /\ m <= b /\ <<Head(list), a, m>> \in Pieces(o)
  BY RunsTail DEF Covers
<1>4. list[1].data = Units(o, a, m)
  BY <1>1, <1>3, PieceData
<1>5. a # m
  BY <1>2, <1>3, <1>4, UnitsFacts
<1>6. 1 \in 1 .. m - a /\ 1 \in 1 .. b - a /\ a < b
  BY <1>2, <1>3, <1>5
<1>7. IsUnits(Units(o, a, m), o, a, m) /\ IsUnits(Units(o, a, b), o, a, b)
  BY <1>2, <1>3, UnitsFacts
<1>. QED BY <1>4, <1>6, <1>7 DEF IsUnits

\* Cutting units yields fragments that cover them.
LEMMA FragmentsCover ==
    ASSUME NEW o, NEW a \in Int, NEW b \in Int, a < b, Units(o, a, b) \in Seq(Unit),
           NEW first \in 1 .. ChunkSize, first <= b - a
    PROVE  Covers(o, Fragments(Units(o, a, b), first), a, b)
<1>. DEFINE data == Units(o, a, b)
            len == b - a
            n == FragmentCount(len, first)
            end(i) == FragmentEnd(i, len, first)
            c == [i \in 0 .. n |-> IF i = 0 THEN a ELSE a + end(i)]
            list == Fragments(data, first)
<1>1. len \in Nat /\ first <= len /\ Len(data) = len /\ IsUnits(data, o, a, b)
  <2>1. IsUnits(data, o, a, b)
    BY UnitsFacts
  <2>2. len \in Nat /\ first <= len
    OBVIOUS
  <2>. QED BY <2>1, <2>2 DEF IsUnits
<1>2. ChunkSize \in Nat \ {0} /\ first \in Nat
  BY ChunkAssumption
<1>3. n \in Nat /\ n >= 1 /\ first + (n - 1) * ChunkSize >= len
  <2>. DEFINE q == (len - first + ChunkSize - 1) \div ChunkSize
  <2>1. \A x \in Nat, y \in Nat \ {0} : x \div y \in Nat /\ x < y * (x \div y) + y
    OBVIOUS
  <2>2. len - first + ChunkSize - 1 \in Nat
    BY <1>1, <1>2
  <2>3. q \in Nat /\ len - first + ChunkSize - 1 < ChunkSize * q + ChunkSize
    BY <1>2, <2>1, <2>2
  <2>4. n = 1 + q
    BY <1>1 DEF FragmentCount
  <2>. HIDE DEF q, n, len
  <2>5. n - 1 = q /\ q * ChunkSize = ChunkSize * q
    BY <1>2, <2>3, <2>4
  <2>6. ChunkSize * q \in Nat
    BY <1>2, <2>3
  <2>. QED BY <1>1, <1>2, <2>3, <2>4, <2>5, <2>6
<1>. HIDE DEF n, len
<1>4. ASSUME NEW i \in 1 .. n PROVE end(i) \in 1 .. len
  BY <1>1, <1>4, FragmentBounds DEF n
<1>5. ASSUME NEW i \in 1 .. n, NEW j \in 1 .. n, i <= j PROVE end(i) <= end(j)
  <2>1. (i - 1) * ChunkSize <= (j - 1) * ChunkSize
    <3>1. \A x, y, z \in Nat : x <= y => x * z <= y * z
      OBVIOUS
    <3>2. i - 1 \in Nat /\ j - 1 \in Nat /\ i - 1 <= j - 1
      BY <1>3, <1>5
    <3>. QED BY <1>2, <3>1, <3>2
  <2>2. (i - 1) * ChunkSize \in Int /\ (j - 1) * ChunkSize \in Int
    BY <1>2, <1>3
  <2>. QED BY <1>1, <1>2, <2>1, <2>2 DEF FragmentEnd, Least
<1>6. ASSUME NEW i \in 1 .. n
      PROVE  FragmentStart(i, first) = IF i = 1 THEN 1 ELSE end(i - 1) + 1
  <2>1. CASE i = 1
    BY <2>1 DEF FragmentStart
  <2>2. CASE i # 1
    <3>1. FragmentStart(i, first) = first + (i - 2) * ChunkSize + 1
      BY <2>2 DEF FragmentStart
    <3>2. FragmentStart(i, first) <= len
      BY <1>1, <1>6, FragmentBounds DEF n
    <3>3. i - 1 - 1 = i - 2 /\ (i - 2) * ChunkSize \in Int
      BY <1>2, <1>3
    <3>4. end(i - 1) = Least(len, first + (i - 2) * ChunkSize)
      BY <3>3 DEF FragmentEnd
    <3>. QED BY <1>1, <1>2, <2>2, <3>1, <3>2, <3>3, <3>4 DEF Least
  <2>. QED BY <2>1, <2>2
<1>7. end(n) = len
  <2>1. (n - 1) * ChunkSize \in Int
    BY <1>2, <1>3
  <2>. QED BY <1>1, <1>2, <1>3, <2>1 DEF FragmentEnd, Least
<1>8. /\ list \in Seq(Fragbuf) /\ Len(list) = n
      /\ \A i \in 1 .. n : list[i].data = SubSeq(data, FragmentStart(i, first), end(i))
  <2>1. data \in Seq(Unit) /\ first <= Len(data)
    BY <1>1
  <2>2. list \in Seq(Fragbuf)
    BY <2>1, FragmentsType
  <2>3. DOMAIN list = 1 .. n
    BY <1>1 DEF Fragments, n
  <2>4. \A i \in 1 .. n : list[i].data = SubSeq(data, FragmentStart(i, first), end(i))
    BY <1>1 DEF Fragments, n
  <2>. HIDE DEF list, data, end
  <2>. QED BY <1>3, <2>2, <2>3, <2>4
<1>. HIDE DEF end
<1>9. c \in [0 .. n -> Int] /\ c[0] = a /\ c[n] = b /\ \A i \in 1 .. n : c[i] = a + end(i)
  <2>1. \A i \in 0 .. n : i # 0 => i \in 1 .. n
    BY <1>3
  <2>2. \A i \in 1 .. n : end(i) \in Int /\ i \in 0 .. n /\ i # 0
    BY <1>1, <1>3, <1>4
  <2>3. n \in 1 .. n /\ 0 \in 0 .. n /\ a + len = b
    BY <1>3 DEF len
  <2>. QED BY <1>7, <2>1, <2>2, <2>3
<1>. HIDE DEF c
<1>10. ASSUME NEW i \in 0 .. n, NEW j \in 0 .. n, i <= j PROVE c[i] <= c[j]
  <2>1. CASE j = 0
    <3>1. i = 0
      BY <1>3, <1>10, <2>1
    <3>. QED BY <1>9, <2>1, <3>1
  <2>2. CASE j # 0
    <3>1. j \in 1 .. n /\ end(j) \in Int /\ 0 <= end(j)
      BY <1>1, <1>3, <1>4, <2>2
    <3>2. CASE i = 0
      BY <1>9, <3>1, <3>2
    <3>3. CASE i # 0
      <4>1. i \in 1 .. n /\ end(i) \in Int /\ end(i) <= end(j)
        BY <1>1, <1>3, <1>4, <1>5, <1>10, <3>1, <3>3
      <4>. QED BY <1>9, <3>1, <4>1
    <3>. QED BY <3>2, <3>3
  <2>. QED BY <2>1, <2>2
<1>11. ASSUME NEW i \in 1 .. n PROVE <<list[i], c[i - 1], c[i]>> \in Pieces(o)
  <2>. DEFINE lo == FragmentStart(i, first)
              hi == end(i)
  <2>1. lo \in 1 .. b - a /\ hi \in lo .. b - a
    BY <1>1, <1>11, FragmentBounds DEF n, end, len
  <2>2. list[i].data = Units(o, a + lo - 1, a + hi)
    <3>1. list[i].data = SubSeq(data, lo, hi)
      BY <1>8
    <3>. HIDE DEF lo, hi, list
    <3>2. SubSeq(Units(o, a, b), lo, hi) = Units(o, a + lo - 1, a + hi)
      <4>1. a <= b
        OBVIOUS
      <4>. QED BY <2>1, <4>1, UnitsCut, Zenon
    <3>. QED BY <3>1, <3>2
  <2>3. a + lo - 1 = c[i - 1] /\ a + hi = c[i]
    <3>1. CASE i = 1
      BY <1>6, <1>9, <3>1
    <3>2. CASE i # 1
      <4>1. i - 1 \in 1 .. n
        BY <1>3, <3>2
      <4>2. lo = end(i - 1) + 1 /\ c[i - 1] = a + end(i - 1) /\ c[i] = a + hi /\ end(i - 1) \in Int
        BY <1>1, <1>4, <1>6, <1>9, <3>2, <4>1
      <4>. QED BY <4>2
    <3>. QED BY <3>1, <3>2
  <2>4. i - 1 \in 0 .. n /\ i \in 0 .. n
    BY <1>3
  <2>5. c[i - 1] \in Int /\ c[i] \in Int
    BY <1>9, <2>4
  <2>6. list[i] \in AnyFragment
    BY <1>8 DEF AnyFragment
  <2>. QED BY <2>2, <2>3, <2>5, <2>6 DEF Pieces
<1>12. Cuts3(list, Pieces(o), c)
  BY <1>8, <1>10, <1>11 DEF Cuts3
<1>. QED BY <1>8, <1>9, <1>12 DEF Covers, Runs

-----------------------------------------------------------------------------
(***************************************************************************)
(* The blocks of a wait list.                                              *)
(***************************************************************************)
\* Blocks of commands that the receiver takes over, and whole files.
BlockPieces(o) ==
    {t \in Seq(Fragbuf) \X Int \X Int : Covers(o, t[1], t[2], t[3]) /\ t[3] - t[2] <= MaxMessage}
BlocksCover(o, w, a, b) == Runs(w, BlockPieces(o), a, b)
IsFile(e, list)         == \E o \in FilesOf[e] : Covers(o, list, -1, FileLen[o])

LEMMA BlockData ==
    ASSUME NEW o, NEW block, NEW a, NEW b, <<block, a, b>> \in BlockPieces(o)
    PROVE  block \in Seq(Fragbuf) /\ a \in Int /\ b \in Int /\ Covers(o, block, a, b) /\ b - a <= MaxMessage
BY DEF BlockPieces

LEMMA QueuedCover ==
    ASSUME NEW o, NEW w \in Seq(Seq(Fragbuf)), NEW a, NEW b, BlocksCover(o, w, a, b),
           NEW m \in Int, b <= m, m - b <= MaxMessage, Units(o, b, m) \in Seq(Unit)
    PROVE  BlocksCover(o, QueueBlock(w, Units(o, b, m)), a, m)
<1>1. b \in Int
  BY RunsBounds DEF BlocksCover
<1>2. CASE Units(o, b, m) = <<>>
  BY <1>1, <1>2, UnitsFacts DEF QueueBlock
<1>3. CASE Units(o, b, m) # <<>>
  <2>. DEFINE data == Units(o, b, m)
              first == Least(Len(data), ChunkSize)
  <2>1. Len(data) = m - b /\ b # m
    BY <1>1, <1>3, UnitsFacts DEF IsUnits
  <2>2. first \in 1 .. ChunkSize /\ first <= m - b /\ first <= Len(data) /\ b < m
    BY <1>1, <2>1, ChunkAssumption DEF Least
  <2>. HIDE DEF first
  <2>3. Covers(o, Fragments(data, first), b, m) /\ Fragments(data, first) \in Seq(Fragbuf)
    BY <1>1, <2>2, FragmentsCover, FragmentsType
  <2>4. MessageFragments(data) = Fragments(data, first)
    BY DEF MessageFragments, first
  <2>. DEFINE block == MessageFragments(data)
  <2>. HIDE DEF data
  <2>5. block \in Seq(Fragbuf) /\ Covers(o, block, b, m)
    BY <2>3, <2>4
  <2>. HIDE DEF block
  <2>6. <<block, b, m>> \in BlockPieces(o)
    BY <1>1, <2>5 DEF BlockPieces
  <2>7. BlocksCover(o, Append(w, block), a, m)
    BY <2>5, <2>6, RunsAppended DEF BlocksCover
  <2>8. QueueBlock(w, Units(o, b, m)) = Append(w, block)
    BY <1>3 DEF QueueBlock, block, data
  <2>. QED BY <2>7, <2>8
<1>. QED BY <1>2, <1>3

\* A file is its name, as unit 0, and the units of its content.
LEMMA FileUnitsAre ==
    ASSUME NEW name, NEW len \in Nat \ {0}
    PROVE  FileUnits(name, len) = Units(name, -1, len)
<1>1. len - (-1) = len + 1 /\ \A i \in 1 .. len + 1 : i - 1 = -1 + i
  OBVIOUS
<1>. QED BY <1>1 DEF FileUnits, Units

LEMMA FileIsFile ==
    ASSUME NEW e \in Peer, NEW name \in FilesOf[e], NEW inMemory \in BOOLEAN
    PROVE  LET block == FileFragments(name, FileLen[name], inMemory)
           IN  IsFile(e, block) /\ block # <<>> /\ block \in Seq(Fragbuf) /\ block[1].data[1] = <<name, 0>>
<1>. DEFINE len == FileLen[name]
            data == Units(name, -1, len)
            first == Least(IF inMemory THEN len ELSE len + 1, ChunkSize)
            block == Fragments(data, first)
<1>1. len \in Nat \ {0} /\ name \in FileName
  BY FileAssumption
<1>2. FileUnits(name, len) = data /\ data \in Seq(Unit) /\ Len(data) = len + 1
  <2>1. FileUnits(name, len) \in Seq(Unit) /\ Len(FileUnits(name, len)) = len + 1
    <3>1. \A n \in Nat : \A s \in [1 .. n -> Unit] : s \in Seq(Unit) /\ Len(s) = n
      OBVIOUS
    <3>2. len + 1 \in Nat /\ FileUnits(name, len) \in [1 .. len + 1 -> Unit]
      BY <1>1 DEF FileUnits, Unit
    <3>. HIDE DEF len
    <3>. QED BY <3>1, <3>2
  <2>2. FileUnits(name, len) = data
    BY <1>1, FileUnitsAre
  <2>. QED BY <2>1, <2>2
<1>3. first \in 1 .. ChunkSize /\ first <= len + 1 /\ first <= len - (-1) /\ -1 < len /\ first <= Len(data)
  BY <1>1, <1>2, ChunkAssumption DEF Least
<1>4. FileFragments(name, len, inMemory) = block
  BY <1>2 DEF FileFragments
<1>. HIDE DEF len, first
<1>5. Covers(name, block, -1, len)
  BY <1>1, <1>2, <1>3, FragmentsCover
<1>6. block \in Seq(Fragbuf) /\ block # <<>>
  BY <1>2, <1>3, FragmentsType
<1>. HIDE DEF data, block
<1>7. block[1].data # <<>>
  <2>1. block[1] \in Fragbuf
    BY <1>6
  <2>. QED BY <2>1 DEF Fragbuf, Chunk
<1>8. block[1].data[1] = <<name, 0>>
  <2>1. block[1].data[1] = <<name, -1 + 1>>
    BY <1>5, <1>6, <1>7, CoversFirst
  <2>. QED BY <2>1
<1>. QED BY <1>4, <1>5, <1>6, <1>8 DEF IsFile, len

-----------------------------------------------------------------------------
(***************************************************************************)
(* One stream of a pipe: what is at the receiver or on its way to it, and  *)
(* whether that is a whole block; the rest of the block under way, or, if  *)
(* it is whole, the next one; the blocks that wait.                        *)
(***************************************************************************)
Sent(e, s) ==
    IF Awaited(e) /\ Out(e, s) # NoFragment THEN Append(Got(e, s), Out(e, s)) ELSE Got(e, s)
Full(e, s) ==
    IF Awaited(e) /\ Out(e, s) # NoFragment THEN Out(e, s).id = Out(e, s).count
                                            ELSE Done(e, s) \/ Got(e, s) = <<>>

\* The regular data on its way.
Regular(e) == IF Awaited(e) THEN reliable[e].regular ELSE <<>>

\* The commands of e, numbered from 1 on: those that were delivered, those on their
\* way, those in the list, in the wait list and in the message, in this order.  No
\* block is longer than the receiver takes.
CommandsLine(e, done, regular, sent, full, list, wait, msg, last) ==
    \E d, a, b, c, z \in Nat :
        /\ d <= a /\ z <= last
        /\ done = Units(e, 0, d)
        /\ regular = Units(e, d, a) /\ (regular # <<>> => sent = <<>>)
        /\ Covers(e, sent, a, b) /\ b - a <= MaxMessage
        /\ Covers(e, list, b, c) /\ c - b <= MaxMessage /\ (~full => c - a <= MaxMessage)
        /\ BlocksCover(e, wait, c, z)
        /\ msg = Units(e, z, last)

\* The blocks are files.
FilesLine(e, sent, full, list, wait) ==
    /\ sent # <<>> => \E o \in FilesOf[e], b \in Int :
                         /\ Covers(o, sent, -1, b)
                         /\ full => b = FileLen[o]
                         /\ ~full => Covers(o, list, b, FileLen[o])
    /\ full /\ list # <<>> => IsFile(e, list)
    /\ \A i \in DOMAIN wait : IsFile(e, wait[i])

\* Every file that was queued is on its way or on the receiver's disk, no other is.
Carries(list, name) == list # <<>> /\ list[1].data[1] = <<name, 0>>
NamesLine(sent, full, list, wait, queue, disk) ==
    \A name \in FileName :
        name \in queue <=> \/ Carries(sent, name)
                           \/ full /\ Carries(list, name)
                           \/ \E i \in DOMAIN wait : Carries(wait[i], name)
                           \/ name \in disk

\* The stream takes the next block.
LEMMA CommandsPushed ==
    ASSUME NEW e, NEW done, NEW regular, NEW sent, NEW msg, NEW last \in Nat,
           NEW wait \in Seq(Seq(Fragbuf)), wait # <<>>,
           CommandsLine(e, done, regular, sent, TRUE, <<>>, wait, msg, last)
    PROVE  CommandsLine(e, done, regular, sent, TRUE, Head(wait), Tail(wait), msg, last)
<1>1. PICK d, a, b, c, z \in Nat :
        /\ d <= a /\ z <= last
        /\ done = Units(e, 0, d)
        /\ regular = Units(e, d, a) /\ (regular # <<>> => sent = <<>>)
        /\ Covers(e, sent, a, b) /\ b - a <= MaxMessage
        /\ Covers(e, <<>>, b, c) /\ c - b <= MaxMessage
        /\ BlocksCover(e, wait, c, z)
        /\ msg = Units(e, z, last)
  BY DEF CommandsLine
<1>2. b = c
  BY <1>1, NothingCovered
<1>3. PICK m \in Int : c <= m /\ <<Head(wait), c, m>> \in BlockPieces(e) /\ BlocksCover(e, Tail(wait), m, z)
  BY <1>1, RunsTail DEF BlocksCover
<1>4. Covers(e, Head(wait), c, m) /\ m - c <= MaxMessage /\ m \in Nat
  BY <1>3, BlockData
<1>. QED BY <1>1, <1>2, <1>3, <1>4 DEF CommandsLine

LEMMA FilesPushed ==
    ASSUME NEW e, NEW sent, NEW wait \in Seq(Seq(Fragbuf)), wait # <<>>,
           FilesLine(e, sent, TRUE, <<>>, wait)
    PROVE  /\ FilesLine(e, sent, TRUE, Head(wait), Tail(wait))
           /\ \A queue, disk : NamesLine(sent, TRUE, <<>>, wait, queue, disk)
                                  => NamesLine(sent, TRUE, Head(wait), Tail(wait), queue, disk)
<1>1. /\ Head(wait) = wait[1] /\ 1 \in DOMAIN wait
      /\ \A i \in DOMAIN Tail(wait) : i + 1 \in DOMAIN wait /\ Tail(wait)[i] = wait[i + 1]
      /\ \A i \in DOMAIN wait : i # 1 => i - 1 \in DOMAIN Tail(wait) /\ Tail(wait)[i - 1] = wait[i]
  OBVIOUS
<1>2. FilesLine(e, sent, TRUE, Head(wait), Tail(wait))
  BY <1>1 DEF FilesLine
<1>3. \A name : (\E i \in DOMAIN wait : Carries(wait[i], name))
                   <=> Carries(Head(wait), name) \/ \E i \in DOMAIN Tail(wait) : Carries(Tail(wait)[i], name)
  BY <1>1
<1>4. \A name : ~Carries(<<>>, name)
  BY DEF Carries
<1>. QED BY <1>2, <1>3, <1>4 DEF NamesLine

\* A fragment is loaded.
LEMMA CommandsTaken ==
    ASSUME NEW e, NEW done, NEW sent \in Seq(Fragment), NEW full \in BOOLEAN, NEW msg, NEW last \in Nat,
           NEW list \in Seq(Fragbuf), list # <<>>, NEW wait,
           CommandsLine(e, done, <<>>, sent, full, list, wait, msg, last), full => sent = <<>>,
           NEW frag \in Fragment, frag.data = Head(list).data, NEW whole
    PROVE  CommandsLine(e, done, <<>>, Append(sent, frag), whole, Tail(list), wait, msg, last)
<1>1. PICK d, a, b, c, z \in Nat :
        /\ d <= a /\ z <= last
        /\ done = Units(e, 0, d)
        /\ <<>> = Units(e, d, a)
        /\ Covers(e, sent, a, b) /\ b - a <= MaxMessage
        /\ Covers(e, list, b, c) /\ c - b <= MaxMessage /\ (~full => c - a <= MaxMessage)
        /\ BlocksCover(e, wait, c, z)
        /\ msg = Units(e, z, last)
  BY DEF CommandsLine
<1>2. PICK m \in Int : b <= m /\ m <= c /\ <<Head(list), b, m>> \in Pieces(e) /\ Covers(e, Tail(list), m, c)
  BY <1>1, RunsTail DEF Covers
<1>3. <<frag, b, m>> \in Pieces(e)
  BY <1>1, <1>2 DEF Pieces, AnyFragment
<1>4. Covers(e, Append(sent, frag), a, m)
  BY <1>1, <1>2, <1>3, RunsAppended DEF Covers
<1>5. c - a <= MaxMessage
  <2>1. CASE full
    <3>1. a = b
      BY <1>1, <2>1, NothingCovered
    <3>. QED BY <1>1, <3>1
  <2>. QED BY <1>1, <2>1
<1>6. m \in Nat /\ m - a <= MaxMessage /\ c - m <= MaxMessage
  BY <1>1, <1>2, <1>5, BufferAssumption
<1>. QED BY <1>1, <1>2, <1>4, <1>5, <1>6 DEF CommandsLine

LEMMA FilesTaken ==
    ASSUME NEW e, NEW sent \in Seq(Fragment), NEW full \in BOOLEAN,
           NEW list \in Seq(Fragbuf), list # <<>>, NEW wait,
           FilesLine(e, sent, full, list, wait), full <=> sent = <<>>,
           NEW frag \in Fragment, frag.data = Head(list).data,
           NEW whole \in BOOLEAN, whole <=> Tail(list) = <<>>
    PROVE  /\ FilesLine(e, Append(sent, frag), whole, Tail(list), wait)
           /\ \A queue, disk : NamesLine(sent, full, list, wait, queue, disk)
                  => NamesLine(Append(sent, frag), whole, Tail(list), wait, queue, disk)
<1>. DEFINE more == Append(sent, frag)
<1>1. PICK o \in FilesOf[e], b \in Int :
          Covers(o, sent, -1, b) /\ Covers(o, list, b, FileLen[o])
  <2>1. CASE full
    <3>1. PICK o \in FilesOf[e] : Covers(o, list, -1, FileLen[o])
      BY <2>1 DEF FilesLine, IsFile
    <3>2. Covers(o, sent, -1, -1)
      BY <2>1, RunsNone DEF Covers
    <3>. QED BY <3>1, <3>2
  <2>2. CASE ~full
    BY <2>2 DEF FilesLine
  <2>. QED BY <2>1, <2>2
<1>2. PICK m \in Int : b <= m /\ m <= FileLen[o] /\ <<Head(list), b, m>> \in Pieces(o)
                       /\ Covers(o, Tail(list), m, FileLen[o])
  BY <1>1, RunsTail DEF Covers
<1>3. <<frag, b, m>> \in Pieces(o)
  BY <1>2 DEF Pieces, AnyFragment
<1>4. Covers(o, more, -1, m)
  BY <1>1, <1>2, <1>3, RunsAppended DEF Covers
<1>5. Tail(list) = <<>> => m = FileLen[o]
  BY <1>2, NothingCovered
<1>6. more # <<>> /\ more[1] = (IF sent = <<>> THEN frag ELSE sent[1]) /\ Head(list) = list[1]
  <2>1. Len(sent) \in Nat /\ (sent = <<>> <=> Len(sent) = 0)
    OBVIOUS
  <2>2. Len(more) = Len(sent) + 1 /\ DOMAIN more = 1 .. Len(sent) + 1
        /\ \A i \in 1 .. Len(sent) + 1 : more[i] = IF i <= Len(sent) THEN sent[i] ELSE frag
    OBVIOUS
  <2>. HIDE DEF more
  <2>3. more[1] = IF 1 <= Len(sent) THEN sent[1] ELSE frag
    BY <2>1, <2>2
  <2>4. more # <<>>
    BY <2>1, <2>2
  <2>5. Head(list) = list[1]
    OBVIOUS
  <2>. QED BY <2>1, <2>3, <2>4, <2>5
<1>. HIDE DEF more
<1>7. FilesLine(e, more, whole, Tail(list), wait)
  BY <1>2, <1>4, <1>5 DEF FilesLine
<1>8. ASSUME NEW name PROVE Carries(more, name) <=> Carries(sent, name) \/ (full /\ Carries(list, name))
  <2>1. CASE full
    BY <1>6, <2>1 DEF Carries
  <2>2. CASE ~full
    BY <1>6, <2>2 DEF Carries
  <2>. QED BY <2>1, <2>2
<1>9. \A name : ~(whole /\ Carries(Tail(list), name))
  BY DEF Carries
<1>10. ASSUME NEW queue, NEW disk, NamesLine(sent, full, list, wait, queue, disk)
       PROVE  NamesLine(more, whole, Tail(list), wait, queue, disk)
  BY <1>8, <1>9, <1>10, Zenon DEF NamesLine
<1>. QED BY <1>7, <1>10 DEF more

\* What the receiver does with the list or the wait list of the sender when a block
\* is pushed on.
Moves(list, wait, list2, wait2) ==
    \/ list2 = list /\ wait2 = wait
    \/ list = <<>> /\ wait # <<>> /\ list2 = Head(wait) /\ wait2 = Tail(wait)

LEMMA PushedMoves ==
    ASSUME NEW w, NEW f, NEW s \in Stream
    PROVE  Moves(f[s], w[s], SentFragbufs(w, f)[s], SentWaitlist(w, f)[s])
BY DEF Moves, SentFragbufs, SentWaitlist, MovesUp

LEMMA CommandsMoved ==
    ASSUME NEW e, NEW done, NEW regular, NEW sent, NEW full \in BOOLEAN, NEW msg, NEW last \in Nat,
           NEW list, NEW wait \in Seq(Seq(Fragbuf)), NEW list2, NEW wait2,
           Moves(list, wait, list2, wait2), list = <<>> => full,
           CommandsLine(e, done, regular, sent, full, list, wait, msg, last)
    PROVE  CommandsLine(e, done, regular, sent, full, list2, wait2, msg, last)
<1>1. CASE list2 = list /\ wait2 = wait
  BY <1>1
<1>2. CASE list = <<>> /\ wait # <<>> /\ list2 = Head(wait) /\ wait2 = Tail(wait)
  <2>1. full = TRUE
    BY <1>2
  <2>2. CommandsLine(e, done, regular, sent, TRUE, <<>>, wait, msg, last)
    BY <1>2, <2>1
  <2>3. CommandsLine(e, done, regular, sent, TRUE, Head(wait), Tail(wait), msg, last)
    BY <1>2, <2>2, CommandsPushed
  <2>. QED BY <1>2, <2>1, <2>3
<1>. QED BY <1>1, <1>2 DEF Moves

LEMMA FilesMoved ==
    ASSUME NEW e, NEW sent, NEW full \in BOOLEAN,
           NEW list, NEW wait \in Seq(Seq(Fragbuf)), NEW list2, NEW wait2,
           Moves(list, wait, list2, wait2), list = <<>> => full,
           FilesLine(e, sent, full, list, wait)
    PROVE  /\ FilesLine(e, sent, full, list2, wait2)
           /\ \A queue, disk : NamesLine(sent, full, list, wait, queue, disk)
                                  => NamesLine(sent, full, list2, wait2, queue, disk)
<1>1. CASE list2 = list /\ wait2 = wait
  BY <1>1
<1>2. CASE list = <<>> /\ wait # <<>> /\ list2 = Head(wait) /\ wait2 = Tail(wait)
  <2>1. full = TRUE
    BY <1>2
  <2>2. FilesLine(e, sent, TRUE, <<>>, wait)
    BY <1>2, <2>1
  <2>3. /\ FilesLine(e, sent, TRUE, Head(wait), Tail(wait))
        /\ \A queue, disk : NamesLine(sent, TRUE, <<>>, wait, queue, disk)
                               => NamesLine(sent, TRUE, Head(wait), Tail(wait), queue, disk)
    BY <1>2, <2>2, FilesPushed
  <2>. QED BY <1>2, <2>1, <2>3
<1>. QED BY <1>1, <1>2 DEF Moves

\* A whole block is taken over by the receiver.
LEMMA CommandsArrive ==
    ASSUME NEW e, NEW done, NEW regular, NEW sent \in Seq(Fragment), NEW full, NEW list, NEW wait,
           NEW msg, NEW last \in Nat,
           CommandsLine(e, done, regular, sent, full, list, wait, msg, last)
    PROVE  /\ Len(Reassembled(sent)) <= MaxMessage
           /\ CommandsLine(e, done \o regular, <<>>, sent, full, list, wait, msg, last)
           /\ full => CommandsLine(e, done \o (regular \o Reassembled(sent)), <<>>, <<>>, TRUE, list, wait, msg, last)
<1>1. PICK d, a, b, c, z \in Nat :
        /\ d <= a /\ z <= last
        /\ done = Units(e, 0, d)
        /\ regular = Units(e, d, a) /\ (regular # <<>> => sent = <<>>)
        /\ Covers(e, sent, a, b) /\ b - a <= MaxMessage
        /\ Covers(e, list, b, c) /\ c - b <= MaxMessage /\ (~full => c - a <= MaxMessage)
        /\ BlocksCover(e, wait, c, z)
        /\ msg = Units(e, z, last)
  BY DEF CommandsLine
<1>2. a <= b /\ Len(sent) \in Nat
  <2>1. Len(sent) \in Nat
    OBVIOUS
  <2>. QED BY <1>1, <2>1, RunsBounds DEF Covers
<1>0. 0 \in Int /\ d \in Int /\ a \in Int /\ b \in Int /\ 0 <= d /\ d <= a /\ a <= b /\ d <= b
  BY <1>1, <1>2
<1>3. Reassembled(sent) = Units(e, a, b)
  BY <1>1, CoversFlat
<1>4. Len(Reassembled(sent)) = b - a
  <2>1. IsUnits(Units(e, a, b), e, a, b)
    BY <1>2, UnitsFacts
  <2>. QED BY <1>3, <2>1 DEF IsUnits
<1>5. done \o regular = Units(e, 0, a)
  <2>1. Units(e, 0, d) \o Units(e, d, a) = Units(e, 0, a)
    BY <1>0, UnitsJoined, Zenon
  <2>. QED BY <1>1, <2>1
<1>6. regular \o Reassembled(sent) = Units(e, d, b) /\ done \o Units(e, d, b) = Units(e, 0, b)
  <2>1. Units(e, d, a) \o Units(e, a, b) = Units(e, d, b)
    BY <1>0, UnitsJoined, Zenon
  <2>2. Units(e, 0, d) \o Units(e, d, b) = Units(e, 0, b)
    BY <1>0, UnitsJoined, Zenon
  <2>. QED BY <1>1, <1>3, <2>1, <2>2
<1>7. Units(e, a, a) = <<>> /\ Units(e, b, b) = <<>>
  BY UnitsFacts
<1>8. CommandsLine(e, done \o regular, <<>>, sent, full, list, wait, msg, last)
  <2>1. a <= a /\ <<>> = Units(e, a, a) /\ (<<>> # <<>> => sent = <<>>)
    BY <1>7
  <2>. QED BY <1>1, <1>5, <2>1, Zenon DEF CommandsLine
<1>9. CommandsLine(e, Units(e, 0, b), <<>>, <<>>, TRUE, list, wait, msg, last)
  <2>1. Covers(e, <<>>, b, b)
    BY RunsNone DEF Covers
  <2>2. b - b <= MaxMessage
    BY BufferAssumption
  <2>3. b <= b /\ <<>> = Units(e, b, b) /\ (<<>> # <<>> => <<>> = <<>>) /\ (~TRUE => c - b <= MaxMessage)
    BY <1>7
  <2>4. Units(e, 0, b) = Units(e, 0, b)
    OBVIOUS
  <2>. QED BY <1>1, <2>1, <2>2, <2>3, <2>4, Zenon DEF CommandsLine
<1>. QED BY <1>1, <1>4, <1>6, <1>8, <1>9

LEMMA FileArrives ==
    ASSUME NEW e \in Peer, NEW sent \in Seq(Fragment), sent # <<>>, NEW list, NEW wait,
           FilesLine(e, sent, TRUE, list, wait)
    PROVE  \E o \in FilesOf[e] : /\ Reassembled(sent) = FileUnits(o, FileLen[o])
                                 /\ Reassembled(sent)[1] = <<o, 0>>
                                 /\ sent[1].data[1] = <<o, 0>>
<1>1. PICK o \in FilesOf[e] : Covers(o, sent, -1, FileLen[o])
  BY DEF FilesLine
<1>2. FileLen[o] \in Nat \ {0}
  BY FileAssumption
<1>3. sent[1].data # <<>>
  <2>1. sent[1] \in Fragment
    OBVIOUS
  <2>. QED BY <2>1 DEF Fragment, Chunk
<1>4. Reassembled(sent) = Units(o, -1, FileLen[o])
  BY <1>1, CoversFlat
<1>5. sent[1].data[1] = <<o, -1 + 1>> /\ Units(o, -1, FileLen[o])[1] = <<o, -1 + 1>>
  BY <1>1, <1>3, CoversFirst
<1>. QED BY <1>2, <1>4, <1>5, FileUnitsAre

-----------------------------------------------------------------------------
(***************************************************************************)
(* The steps of a pipe, seen from one of its streams.                      *)
(***************************************************************************)
NormalWait(e) == waitlist[e]["normal"]
FileWait(e)   == waitlist[e]["file"]
DiskOf(e)     == {f.name : f \in files[Other(e)]}

CommandsInv(e) ==
    CommandsLine(e, delivered[Other(e)], Regular(e), Sent(e, "normal"), Full(e, "normal"),
                 List(e, "normal"), NormalWait(e), message[e], written[e])

FilesInv(e) ==
    /\ FilesLine(e, Sent(e, "file"), Full(e, "file"), List(e, "file"), FileWait(e))
    /\ NamesLine(Sent(e, "file"), Full(e, "file"), List(e, "file"), FileWait(e),
                 fileQueue[e], DiskOf(e))
    /\ \A f \in files[Other(e)] : f.content = Tail(FileUnits(f.name, FileLen[f.name]))

LEMMA LineTypes ==
    ASSUME ChannelTypeOK, NEW e \in Peer, NEW s \in Stream
    PROVE  /\ Sent(e, s) \in Seq(Fragment) /\ Full(e, s) \in BOOLEAN
           /\ Out(e, s) \in Fragment \union {NoFragment}
           /\ List(e, s) \in Seq(Fragbuf) /\ waitlist[e][s] \in Seq(Seq(Fragbuf))
           /\ message[e] \in Seq(Unit)
<1>1. Out(e, s) \in Fragment \union {NoFragment}
  <2>1. reliable[e] \in Payload
    BY DEF ChannelTypeOK
  <2>. QED BY <2>1 DEF Out, Payload
<1>2. Got(e, s) \in Seq(Fragment) /\ Done(e, s) \in BOOLEAN /\ List(e, s) \in Seq(Fragbuf)
      /\ waitlist[e][s] \in Seq(Seq(Fragbuf)) /\ message[e] \in Seq(Unit)
  BY Types
<1>3. \A frag \in Fragment : Append(Got(e, s), frag) \in Seq(Fragment)
  BY <1>2
<1>. QED BY <1>1, <1>2, <1>3 DEF Sent, Full

\* With nothing left in the list the block is whole.
LEMMA WholeAtEnd ==
    ASSUME NEW e, PlaceInv(e), NEW s \in Stream, List(e, s) = <<>>
    PROVE  Full(e, s)
<1>1. Follows(Got(e, s), Done(e, s), List(e, s), Count(e, s), Awaited(e), Out(e, s))
  BY DEF PlaceInv, NextInv
<1>. QED BY <1>1 DEF Follows, Rest, Full

LEMMA SameTransit ==
    ASSUME NEW e, UNCHANGED arrivedOf(e),
           UNCHANGED transitOf(e) \/ (~Awaited(e) /\ ~Awaited(e)')
    PROVE  /\ \A s \in Stream : Sent(e, s)' = Sent(e, s) /\ Full(e, s)' = Full(e, s)
           /\ Regular(e)' = Regular(e) /\ delivered'[Other(e)] = delivered[Other(e)]
           /\ files'[Other(e)] = files[Other(e)]
<1>1. ASSUME NEW s \in Stream PROVE Got(e, s)' = Got(e, s) /\ Done(e, s)' = Done(e, s)
  BY DEF arrivedOf, Got, Done
<1>2. CASE UNCHANGED transitOf(e)
  <2>1. Awaited(e)' = Awaited(e) /\ reliable'[e] = reliable[e]
    BY <1>2 DEF transitOf
  <2>. QED BY <1>1, <2>1 DEF Sent, Full, Regular, Out, arrivedOf
<1>3. CASE ~Awaited(e) /\ ~Awaited(e)'
  BY <1>1, <1>3 DEF Sent, Full, Regular, arrivedOf
<1>. QED BY <1>2, <1>3

\* What is awaited is at the receiver, all but the storing.
LEMMA SentWith ==
    ASSUME ChannelTypeOK, NEW e \in Peer, PlaceInv(e), Awaited(e), \A s \in Stream : ~Done(e, s),
           NEW s \in Stream
    PROVE  /\ BufsWith(e)[s] = Sent(e, s)
           /\ ReadyWith(e)[s] <=> (Full(e, s) /\ Sent(e, s) # <<>>)
<1>1. /\ Got(e, s) \in Seq(Fragment) /\ Done(e, s) = FALSE /\ Awaited(e) = TRUE
      /\ Out(e, s) \in Fragment \union {NoFragment}
  BY Types, LineTypes DEF Awaited
<1>2. Follows(Got(e, s), FALSE, List(e, s), Count(e, s), TRUE, Out(e, s))
  BY <1>1 DEF PlaceInv, NextInv
<1>3. CASE Out(e, s) = NoFragment
  <2>1. BufsWith(e)[s] = Got(e, s)
    BY <1>3 DEF BufsWith, StoredBufs, Out, Got
  <2>2. ReadyWith(e)[s] = (incomingready[Other(e)][s] \/ FALSE)
    BY <1>3 DEF ReadyWith, StoredReady, Out
  <2>. QED BY <1>1, <1>3, <2>1, <2>2 DEF Sent, Full, Done
<1>4. CASE Out(e, s) # NoFragment
  <2>1. Out(e, s) \in Fragment
    BY <1>1, <1>4
  <2>2. /\ InPlace(Got(e, s)) /\ Out(e, s).id = Len(Got(e, s)) + 1
        /\ Out(e, s).id <= Out(e, s).count /\ Out(e, s).count <= MaxFragbufs
    BY <1>2, <1>4 DEF Follows
  <2>3. Len(Got(e, s)) < MaxFragbufs
    <3>1. Len(Got(e, s)) \in Nat /\ Out(e, s).count \in Nat
      BY <1>1, <2>1 DEF Fragment
    <3>. QED BY <2>2, <3>1, BufferAssumption
  <2>. DEFINE after == StoreFragment(Got(e, s), Out(e, s))
  <2>4. Len(after) = Out(e, s).id /\ after = Append(Got(e, s), Out(e, s)) /\ after # <<>>
    BY <1>1, <2>1, <2>2, <2>3, StoredLast
  <2>5. BufsWith(e)[s] = after
    BY <1>4 DEF BufsWith, StoredBufs, Out, Got
  <2>. HIDE DEF after
  <2>6. ReadyWith(e)[s] = (incomingready[Other(e)][s] \/ Len(after) = Out(e, s).count)
    BY <1>4, <2>4, <2>5 DEF ReadyWith, StoredReady, Out
  <2>7. Sent(e, s) = Append(Got(e, s), Out(e, s)) /\ (Full(e, s) <=> Out(e, s).id = Out(e, s).count)
    BY <1>1, <1>4 DEF Sent, Full
  <2>. QED BY <1>1, <2>4, <2>5, <2>6, <2>7 DEF Done
<1>. QED BY <1>3, <1>4

\* The receiver takes over the whole blocks of the streams in `copied', after the
\* regular data.
SentBufs(e) == [s \in Stream |-> Sent(e, s)]
Arrives(e) ==
    /\ \E copied \in SUBSET Stream :
          /\ \A s \in copied : Full(e, s) /\ Sent(e, s) # <<>> /\ Sent(e, s)' = <<>> /\ Full(e, s)'
          /\ \A s \in Stream \ copied : Sent(e, s)' = Sent(e, s) /\ (Full(e, s)' <=> Full(e, s))
          /\ delivered'[Other(e)] = delivered[Other(e)]
                                        \o (Regular(e) \o CopiedCommands(SentBufs(e), copied))
          /\ files'[Other(e)] = files[Other(e)] \union CopiedFiles(Other(e), SentBufs(e), copied)
    /\ Regular(e)' = <<>>
    /\ UNCHANGED <<queueOf(e), writtenBy(e)>>

LEMMA AcceptsArrives ==
    ASSUME ChannelTypeOK, NEW e \in Peer, PlaceInv(e), Accepts(e)
    PROVE  Arrives(e)
<1>1. PICK copied \in SUBSET Ready(ReadyWith(e)) :
          TakesOver(Other(e), BufsWith(e), ReadyWith(e), reliable[e].regular, copied)
  BY DEF Accepts
<1>2. /\ Awaited(e) /\ ~Awaited(e)' /\ (\A s \in Stream : ~Done(e, s))
      /\ UNCHANGED <<queueOf(e), writtenBy(e), reliable[e]>>
  BY DEF Accepts
<1>3. copied \in SUBSET Stream
  BY DEF Ready
<1>4. \A s \in Stream : BufsWith(e)[s] = Sent(e, s)
  BY <1>2, SentWith
<1>5. BufsWith(e) = SentBufs(e)
  BY <1>4 DEF BufsWith, StoredBufs, SentBufs
<1>6. ASSUME NEW s \in Stream
      PROVE  /\ Sent(e, s)' = IF s \in copied THEN <<>> ELSE Sent(e, s)
             /\ Full(e, s)' <=> (Sent(e, s)' = <<>> \/ (s \notin copied /\ ReadyWith(e)[s]))
  <2>1. /\ Got(e, s)' = IF s \in copied THEN <<>> ELSE BufsWith(e)[s]
        /\ Done(e, s)' = (s \notin copied /\ ReadyWith(e)[s])
    BY <1>1 DEF TakesOver, Got, Done
  <2>2. Sent(e, s)' = Got(e, s)' /\ (Full(e, s)' <=> (Done(e, s)' \/ Got(e, s)' = <<>>))
    BY <1>2 DEF Sent, Full
  <2>. QED BY <1>4, <2>1, <2>2
<1>7. \A s \in copied : Full(e, s) /\ Sent(e, s) # <<>>
  BY <1>2, <1>3, SentWith DEF Ready
<1>8. ASSUME NEW s \in Stream \ copied PROVE Full(e, s)' <=> Full(e, s)
  <2>1. ReadyWith(e)[s] <=> (Full(e, s) /\ Sent(e, s) # <<>>)
    BY <1>2, SentWith
  <2>2. Sent(e, s) = <<>> => Full(e, s)
    <3>1. Out(e, s) \in Fragment /\ Got(e, s) \in Seq(Fragment) => Append(Got(e, s), Out(e, s)) # <<>>
      OBVIOUS
    <3>2. Out(e, s) \in Fragment \union {NoFragment} /\ Got(e, s) \in Seq(Fragment)
      BY LineTypes, Types
    <3>. QED BY <3>1, <3>2 DEF Sent, Full
  <2>. QED BY <1>6, <2>1, <2>2
<1>9. Regular(e)' = <<>> /\ Regular(e) = reliable[e].regular
  BY <1>2 DEF Regular
<1>10. /\ delivered'[Other(e)] = delivered[Other(e)]
                                     \o (Regular(e) \o CopiedCommands(SentBufs(e), copied))
       /\ files'[Other(e)] = files[Other(e)] \union CopiedFiles(Other(e), SentBufs(e), copied)
  BY <1>1, <1>5, <1>9 DEF TakesOver
<1>11. \A s \in copied : Sent(e, s)' = <<>> /\ Full(e, s)'
  BY <1>3, <1>6
<1>12. \A s \in Stream \ copied : Sent(e, s)' = Sent(e, s)
  BY <1>6
<1>. QED BY <1>2, <1>3, <1>7, <1>8, <1>9, <1>10, <1>11, <1>12 DEF Arrives

LEMMA CopiesArrives ==
    ASSUME HostsInv, NEW e \in Peer, Copies(e)
    PROVE  Arrives(e)
<1>0. ChannelTypeOK /\ incomingbufs \in [Peer -> [Stream -> Seq(Fragment)]] /\ Other(e) \in Peer
  BY TwoPeers DEF HostsInv, TypeInv, ChannelTypeOK
<1>. DEFINE copied == Ready(incomingready[Other(e)])
<1>1. TakesOver(Other(e), incomingbufs[Other(e)], incomingready[Other(e)], <<>>, copied)
  BY DEF Copies
<1>2. ~Awaited(e) /\ ~Awaited(e)' /\ UNCHANGED <<queueOf(e), writtenBy(e), transitOf(e)>>
  BY DEF Copies, transitOf
<1>3. copied \in SUBSET Stream /\ \A s \in Stream : s \in copied <=> Done(e, s)
  BY DEF Ready, Done
<1>4. \A s \in Stream : Got(e, s) = Sent(e, s) /\ (Full(e, s) <=> (Done(e, s) \/ Got(e, s) = <<>>))
  BY <1>2 DEF Sent, Full
<1>5. incomingbufs[Other(e)] = SentBufs(e)
  BY <1>0, <1>4 DEF SentBufs, Got
<1>6. ASSUME NEW s \in Stream
      PROVE  /\ Sent(e, s)' = IF s \in copied THEN <<>> ELSE Sent(e, s)
             /\ Full(e, s)' <=> Sent(e, s)' = <<>>
  <2>1. /\ Got(e, s)' = IF s \in copied THEN <<>> ELSE Got(e, s)
        /\ Done(e, s)' = (s \notin copied /\ Done(e, s))
    BY <1>1 DEF TakesOver, Got, Done
  <2>2. Sent(e, s)' = Got(e, s)' /\ (Full(e, s)' <=> (Done(e, s)' \/ Got(e, s)' = <<>>))
    BY <1>2 DEF Sent, Full
  <2>. QED BY <1>3, <1>4, <2>1, <2>2
<1>7. \A s \in copied : Full(e, s) /\ Sent(e, s) # <<>>
  <2>1. \A s \in Stream : Done(e, s) => Got(e, s) # <<>>
    BY <1>0 DEF HostsInv, FileDataInv, Done, Got
  <2>. QED BY <1>3, <1>4, <2>1
<1>8. Regular(e)' = <<>> /\ Regular(e) = <<>>
  BY <1>2 DEF Regular
<1>9. /\ delivered'[Other(e)] = delivered[Other(e)]
                                    \o (Regular(e) \o CopiedCommands(SentBufs(e), copied))
      /\ files'[Other(e)] = files[Other(e)] \union CopiedFiles(Other(e), SentBufs(e), copied)
  BY <1>1, <1>5, <1>8 DEF TakesOver
<1>. HIDE DEF copied
<1>10. \A s \in copied : Sent(e, s)' = <<>> /\ Full(e, s)'
  BY <1>3, <1>6
<1>11. \A s \in Stream \ copied : Sent(e, s)' = Sent(e, s) /\ (Full(e, s)' <=> Full(e, s))
  BY <1>3, <1>4, <1>6
<1>. QED BY <1>2, <1>3, <1>7, <1>8, <1>9, <1>10, <1>11 DEF Arrives

\* A stream after its sender has loaded the first fragment of the list, or has not.
LeftAlone(e, s, list) ==
    Sent(e, s)' = Sent(e, s) /\ (Full(e, s)' <=> Full(e, s)) /\ List(e, s)' = list
FirstTaken(e, s, list) ==
    \E frag \in Fragment :
        /\ list # <<>> /\ frag.data = Head(list).data
        /\ Sent(e, s)' = Append(Sent(e, s), frag) /\ List(e, s)' = Tail(list)
        /\ Full(e, s)' <=> Tail(list) = <<>>

LEMMA LoadsLine ==
    ASSUME ChannelTypeOK, ChannelTypeOK', NEW e \in Peer, PlaceInv(e), SizesFit(e), Loads(e), NEW s \in Stream
    PROVE  LET list == SentFragbufs(waitlist[e], fragbufs[e])[s]
           IN  /\ Full(e, s) <=> Sent(e, s) = <<>>
               /\ LeftAlone(e, s, list) \/ FirstTaken(e, s, list)
<1>. DEFINE w == SentWaitlist(waitlist[e], fragbufs[e])
            f == SentFragbufs(waitlist[e], fragbufs[e])
            n == SentCount(waitlist[e], fragbufs[e], fragbufcount[e])
            regular == IF Stalled(e, f) THEN <<>> ELSE message[e]
            load == LoadedPayload(regular, f, n)
<1>1. /\ waitlist[e] \in Waitlists /\ fragbufs[e] \in Fraglists /\ fragbufcount[e] \in Counts
      /\ Done(e, s) \in BOOLEAN /\ Got(e, s) \in Seq(Fragment)
  BY Types
<1>2. f \in Fraglists /\ n \in Counts
  BY <1>1, PushType
<1>3. PICK requeue \in BOOLEAN : LoadsFrom(e, w, f, n, requeue)
  BY DEF Loads
<1>4. /\ fragbufs'[e] = Unlinked(f, load) /\ reliable'[e] = load
      /\ Awaited(e)' = (regular # <<>> \/ \E t \in Stream : f[t] # <<>>)
  BY <1>3 DEF LoadsFrom
<1>5. ~Awaited(e) /\ ~Done(e, s) /\ UNCHANGED arrivedOf(e)
  BY DEF Loads
<1>6. Got(e, s)' = Got(e, s) /\ ~Done(e, s)' /\ Out(e, s)' = load.frag[s]
      /\ List(e, s)' = IF load.frag[s] # NoFragment THEN Tail(f[s]) ELSE f[s]
  BY <1>4, <1>5 DEF arrivedOf, Got, Done, Out, List, Unlinked
<1>7. Sent(e, s) = Got(e, s) /\ (Full(e, s) <=> Got(e, s) = <<>>)
  BY <1>5 DEF Sent, Full
<1>8. \/ load.frag[s] = NoFragment
      \/ f[s] # <<>> /\ load.frag[s] = TakenFragment(f, n, s)
  BY DEF LoadedPayload, Takes, Stream
<1>9. EndOfBlock(f[s], n[s])
  <2>1. WholeBlocks(waitlist[e][s]) /\ EndOfBlock(fragbufs[e][s], fragbufcount[e][s])
    BY DEF PlaceInv, BlocksInv, List, Count
  <2>. QED BY <1>1, <2>1, PushedWhole
<1>10. load.frag[s] \in Fragment \union {NoFragment}
  <2>1. Out(e, s)' \in Fragment \union {NoFragment}
    <3>1. reliable'[e] \in Payload
      BY DEF ChannelTypeOK
    <3>. QED BY <3>1 DEF Out, Payload
  <2>. QED BY <1>6, <2>1
<1>. HIDE DEF f, n, w, regular, load
<1>11. CASE load.frag[s] = NoFragment
  <2>1. Sent(e, s)' = Got(e, s)' /\ (Full(e, s)' <=> (Done(e, s)' \/ Got(e, s)' = <<>>))
    BY <1>6, <1>11 DEF Sent, Full
  <2>2. LeftAlone(e, s, f[s])
    BY <1>6, <1>7, <1>11, <2>1 DEF LeftAlone
  <2>. QED BY <1>7, <2>2 DEF f
<1>12. CASE load.frag[s] # NoFragment
  <2>. DEFINE frag == load.frag[s]
  <2>1. f[s] # <<>> /\ frag = TakenFragment(f, n, s) /\ frag \in Fragment
    BY <1>8, <1>10, <1>12
  <2>2. frag.id = Head(f[s]).bufferid /\ frag.count = n[s] /\ frag.data = Head(f[s]).data
    BY <2>1 DEF TakenFragment
  <2>. HIDE DEF frag
  <2>3. Awaited(e)'
    BY <1>4, <2>1
  <2>4. Sent(e, s)' = Append(Sent(e, s), frag) /\ (Full(e, s)' <=> frag.id = frag.count)
    BY <1>6, <1>7, <1>12, <2>3 DEF Sent, Full, frag
  <2>5. frag.id = frag.count <=> Tail(f[s]) = <<>>
    <3>1. f[s] \in Seq(Fragbuf) /\ n[s] \in Nat
      BY <1>2 DEF Fraglists, Counts
    <3>. DEFINE list == f[s]
    <3>2. list \in Seq(Fragbuf) /\ list # <<>>
      BY <2>1, <3>1
    <3>3. Head(list).bufferid = n[s] - Len(list) + 1
      <4>1. 1 \in DOMAIN list /\ Head(list) = list[1] /\ Len(list) \in Nat
        BY <3>2
      <4>. QED BY <1>9, <4>1 DEF EndOfBlock, Numbered
    <3>. HIDE DEF list
    <3>4. Tail(list) \in Seq(Fragbuf) /\ Len(Tail(list)) = Len(list) - 1 /\ Len(list) \in Nat
      BY <3>2
    <3>5. Tail(list) = <<>> <=> Len(Tail(list)) = 0
      BY <3>4, NoLength, Zenon
    <3>6. Head(list).bufferid = n[s] <=> Len(Tail(list)) = 0
      BY <3>1, <3>3, <3>4
    <3>7. Head(list).bufferid = n[s] <=> Tail(list) = <<>>
      BY <3>5, <3>6, Zenon
    <3>. QED BY <2>2, <3>7 DEF list
  <2>6. List(e, s)' = Tail(f[s])
    BY <1>6, <1>12
  <2>7. FirstTaken(e, s, f[s])
    BY <2>1, <2>2, <2>4, <2>5, <2>6 DEF FirstTaken
  <2>. QED BY <1>7, <2>7 DEF f
<1>. QED BY <1>11, <1>12

-----------------------------------------------------------------------------
(***************************************************************************)
(* The steps of a pipe keep the commands in order.                         *)
(***************************************************************************)
\* An invariant of boolean values: equivalent for an equal one.
LEMMA CommandsFull ==
    ASSUME NEW e, NEW done, NEW regular, NEW sent, NEW full, NEW list, NEW wait, NEW msg, NEW last,
           CommandsLine(e, done, regular, sent, full, list, wait, msg, last), NEW full2, full2 <=> full
    PROVE  CommandsLine(e, done, regular, sent, full2, list, wait, msg, last)
BY Zenon DEF CommandsLine

LEMMA CommandsUnits ==
    ASSUME NEW e, NEW k \in Nat, written[e] \in Nat
    PROVE  Commands(e, k) = Units(e, written[e], written[e] + k)
<1>1. written[e] + k - written[e] = k
  OBVIOUS
<1>. QED BY <1>1 DEF Commands, Units

\* Commands are added to the message.
LEMMA CommandsWritten ==
    ASSUME NEW e, NEW done, NEW regular, NEW sent, NEW full, NEW list, NEW wait, NEW msg, NEW last \in Nat,
           CommandsLine(e, done, regular, sent, full, list, wait, msg, last), NEW k \in Nat
    PROVE  CommandsLine(e, done, regular, sent, full, list, wait, msg \o Units(e, last, last + k), last + k)
<1>1. PICK d, a, b, c, z \in Nat :
        /\ d <= a /\ z <= last
        /\ done = Units(e, 0, d)
        /\ regular = Units(e, d, a) /\ (regular # <<>> => sent = <<>>)
        /\ Covers(e, sent, a, b) /\ b - a <= MaxMessage
        /\ Covers(e, list, b, c) /\ c - b <= MaxMessage /\ (~full => c - a <= MaxMessage)
        /\ BlocksCover(e, wait, c, z)
        /\ msg = Units(e, z, last)
  BY DEF CommandsLine
<1>2. z \in Int /\ last \in Int /\ last + k \in Int /\ z <= last /\ last <= last + k /\ z <= last + k
  BY <1>1
<1>3. Units(e, z, last) \o Units(e, last, last + k) = Units(e, z, last + k)
  BY <1>2, UnitsJoined, Zenon
<1>. QED BY <1>1, <1>2, <1>3, Zenon DEF CommandsLine

\* The message is queued as a block.
LEMMA CommandsQueued ==
    ASSUME NEW e, NEW done, NEW regular, NEW sent, NEW full, NEW list, NEW last \in Nat,
           NEW wait \in Seq(Seq(Fragbuf)), NEW msg \in Seq(Unit), Len(msg) <= MaxMessage,
           CommandsLine(e, done, regular, sent, full, list, wait, msg, last)
    PROVE  CommandsLine(e, done, regular, sent, full, list, QueueBlock(wait, msg), <<>>, last)
<1>1. PICK d, a, b, c, z \in Nat :
        /\ d <= a /\ z <= last
        /\ done = Units(e, 0, d)
        /\ regular = Units(e, d, a) /\ (regular # <<>> => sent = <<>>)
        /\ Covers(e, sent, a, b) /\ b - a <= MaxMessage
        /\ Covers(e, list, b, c) /\ c - b <= MaxMessage /\ (~full => c - a <= MaxMessage)
        /\ BlocksCover(e, wait, c, z)
        /\ msg = Units(e, z, last)
  BY DEF CommandsLine
<1>2. last - z <= MaxMessage
  <2>1. IsUnits(Units(e, z, last), e, z, last)
    BY <1>1, UnitsFacts
  <2>. QED BY <1>1, <2>1 DEF IsUnits
<1>3. BlocksCover(e, QueueBlock(wait, msg), c, last)
  <2>1. z \in Int /\ last \in Int /\ z <= last /\ BlocksCover(e, wait, c, z)
    BY <1>1
  <2>2. Units(e, z, last) \in Seq(Unit)
    BY <1>1
  <2>3. BlocksCover(e, QueueBlock(wait, Units(e, z, last)), c, last)
    BY <1>2, <2>1, <2>2, QueuedCover
  <2>. QED BY <1>1, <2>3
<1>4. Units(e, last, last) = <<>> /\ last <= last
  BY UnitsFacts
<1>. QED BY <1>1, <1>3, <1>4, Zenon DEF CommandsLine

\* The message is loaded as regular data, when nothing else is left.
LEMMA CommandsLoaded ==
    ASSUME NEW e, NEW done, NEW msg, NEW last \in Nat,
           CommandsLine(e, done, <<>>, <<>>, TRUE, <<>>, <<>>, msg, last)
    PROVE  CommandsLine(e, done, msg, <<>>, TRUE, <<>>, <<>>, <<>>, last)
<1>1. PICK d, a, b, c, z \in Nat :
        /\ d <= a /\ z <= last
        /\ done = Units(e, 0, d)
        /\ <<>> = Units(e, d, a)
        /\ Covers(e, <<>>, a, b)
        /\ Covers(e, <<>>, b, c)
        /\ BlocksCover(e, <<>>, c, z)
        /\ msg = Units(e, z, last)
  BY DEF CommandsLine
<1>2. d = a
  BY <1>1, UnitsFacts
<1>3. a = b /\ b = c
  BY <1>1, NothingCovered
<1>4. c = z
  <2>1. Len(<<>>) = 0
    OBVIOUS
  <2>. QED BY <1>1, <2>1, RunsBounds DEF BlocksCover
<1>5. Covers(e, <<>>, last, last) /\ BlocksCover(e, <<>>, last, last) /\ Units(e, last, last) = <<>>
  BY RunsNone, UnitsFacts DEF Covers, BlocksCover
<1>6. d <= last /\ last <= last /\ last - last <= MaxMessage /\ msg = Units(e, d, last)
  BY <1>1, <1>2, <1>3, <1>4, BufferAssumption
<1>7. (msg # <<>> => <<>> = <<>>) /\ (~TRUE => last - last <= MaxMessage)
  OBVIOUS
<1>. QED BY <1>1, <1>5, <1>6, <1>7, Zenon DEF CommandsLine

LEMMA CommandsSame ==
    ASSUME NEW e, CommandsInv(e),
           UNCHANGED <<queueOf(e), arrivedOf(e), message[e], written[e]>>,
           UNCHANGED transitOf(e) \/ (~Awaited(e) /\ ~Awaited(e)')
    PROVE  CommandsInv(e)'
<1>1. /\ Sent(e, "normal")' = Sent(e, "normal") /\ Full(e, "normal")' = Full(e, "normal")
      /\ Regular(e)' = Regular(e) /\ delivered'[Other(e)] = delivered[Other(e)]
  BY SameTransit DEF Stream
<1>2. List(e, "normal")' = List(e, "normal") /\ NormalWait(e)' = NormalWait(e)
  BY DEF queueOf, List, NormalWait
<1>. QED BY <1>1, <1>2 DEF CommandsInv

LEMMA WritesCommands ==
    ASSUME HostsInv, NEW e \in Peer, CommandsInv(e), Writes(e), ~overflowed'[e]
    PROVE  CommandsInv(e)'
<1>0. written[e] \in Nat
  BY DEF HostsInv, TypeInv
<1>1. PICK k \in Nat : /\ written'[e] = written[e] + k
                       /\ message'[e] = message[e] \o Commands(e, k)
  BY DEF Writes
<1>2. UNCHANGED <<queueOf(e), transitOf(e), arrivedOf(e)>>
  BY DEF Writes
<1>3. /\ Sent(e, "normal")' = Sent(e, "normal") /\ Full(e, "normal")' = Full(e, "normal")
      /\ Regular(e)' = Regular(e) /\ delivered'[Other(e)] = delivered[Other(e)]
  BY <1>2, SameTransit DEF Stream
<1>4. List(e, "normal")' = List(e, "normal") /\ NormalWait(e)' = NormalWait(e)
  BY <1>2 DEF queueOf, List, NormalWait
<1>5. Commands(e, k) = Units(e, written[e], written[e] + k)
  BY <1>0, CommandsUnits
<1>6. CommandsLine(e, delivered[Other(e)], Regular(e), Sent(e, "normal"), Full(e, "normal"),
                   List(e, "normal"), NormalWait(e), message[e] \o Commands(e, k), written[e] + k)
  BY <1>0, <1>5, CommandsWritten DEF CommandsInv
<1>. QED BY <1>1, <1>3, <1>4, <1>6 DEF CommandsInv

\* The wait list is replaced and perhaps pushed on.
LEMMA EnqueuedCommands ==
    ASSUME HostsInv, NEW e \in Peer, PlaceInv(e), NEW w \in Waitlists, NEW push \in BOOLEAN, Enqueued(e, w, push),
           UNCHANGED <<transitOf(e), arrivedOf(e)>>, written'[e] \in Nat,
           CommandsLine(e, delivered[Other(e)], Regular(e), Sent(e, "normal"), Full(e, "normal"),
                        List(e, "normal"), w["normal"], message'[e], written'[e])
    PROVE  CommandsInv(e)'
<1>1. /\ Sent(e, "normal")' = Sent(e, "normal") /\ Full(e, "normal")' = Full(e, "normal")
      /\ Regular(e)' = Regular(e) /\ delivered'[Other(e)] = delivered[Other(e)]
  BY SameTransit DEF Stream
<1>2. Moves(List(e, "normal"), w["normal"], List(e, "normal")', NormalWait(e)')
  <2>1. "normal" \in Stream
    BY DEF Stream
  <2>2. CASE push
    <3>1. /\ List(e, "normal")' = SentFragbufs(w, fragbufs[e])["normal"]
          /\ NormalWait(e)' = SentWaitlist(w, fragbufs[e])["normal"]
      BY <2>2 DEF Enqueued, List, NormalWait
    <3>. QED BY <2>1, <3>1, PushedMoves DEF List
  <2>3. CASE ~push
    BY <2>3 DEF Enqueued, List, NormalWait, Moves
  <2>. QED BY <2>2, <2>3
<1>3. Full(e, "normal") \in BOOLEAN /\ w["normal"] \in Seq(Seq(Fragbuf))
  BY LineTypes DEF HostsInv, TypeInv, Waitlists, Stream
<1>4. List(e, "normal") = <<>> => Full(e, "normal")
  BY WholeAtEnd DEF Stream
<1>5. CommandsLine(e, delivered[Other(e)], Regular(e), Sent(e, "normal"), Full(e, "normal"),
                   List(e, "normal")', NormalWait(e)', message'[e], written'[e])
  BY <1>2, <1>3, <1>4, CommandsMoved
<1>. QED BY <1>1, <1>5 DEF CommandsInv

LEMMA CutsCommands ==
    ASSUME HostsInv, NEW e \in Peer, PlaceInv(e), CommandsInv(e), Cuts(e),
           \A k \in SizesOf(e) : k <= MaxMessage
    PROVE  CommandsInv(e)'
<1>0. written[e] \in Nat /\ message[e] \in Seq(Unit) /\ waitlist[e] \in Waitlists
      /\ waitlist[e]["normal"] \in Seq(Seq(Fragbuf))
  BY Types DEF HostsInv, TypeInv, Stream
<1>1. PICK k \in SizesOf(e), push \in BOOLEAN :
          /\ Enqueued(e, [waitlist[e] EXCEPT !["normal"] =
                             QueueAhead(@, message[e], Commands(e, k))], push)
          /\ written'[e] = written[e] + k
  BY DEF Cuts
<1>2. message'[e] = <<>> /\ UNCHANGED <<transitOf(e), arrivedOf(e)>>
  BY DEF Cuts
<1>3. k \in Nat /\ k <= MaxMessage
  BY HostAssumption DEF SizesOf
<1>. DEFINE msg == Commands(e, k)
            first == QueueBlock(waitlist[e]["normal"], message[e])
            both == QueueBlock(first, msg)
            w == [waitlist[e] EXCEPT !["normal"] = both]
            Line(wait, pending, last) ==
                CommandsLine(e, delivered[Other(e)], Regular(e), Sent(e, "normal"), Full(e, "normal"),
                             List(e, "normal"), wait, pending, last)
<1>4. msg \in Seq(Unit) /\ Len(msg) = k
  <2>1. \A i \in 1 .. k : <<e, written[e] + i>> \in Unit
    BY <1>0, <1>3 DEF Unit
  <2>. QED BY <1>3, <2>1 DEF Commands
<1>5. msg = Units(e, written[e], written[e] + k)
  BY <1>0, <1>3, CommandsUnits
<1>6. first \in Seq(Seq(Fragbuf)) /\ Line(first, <<>>, written[e])
  <2>1. Len(message[e]) <= MaxMessage
    BY DEF PlaceInv, FitsInv
  <2>2. first \in Seq(Seq(Fragbuf))
    BY <1>0, QueueBlockType
  <2>3. Line(waitlist[e]["normal"], message[e], written[e])
    BY DEF CommandsInv, NormalWait
  <2>. QED BY <1>0, <2>1, <2>2, <2>3, CommandsQueued
<1>. HIDE DEF first
<1>7. Line(first, msg, written[e] + k)
  <2>1. Line(first, <<>> \o Units(e, written[e], written[e] + k), written[e] + k)
    BY <1>0, <1>3, <1>6, CommandsWritten
  <2>2. <<>> \o msg = msg
    BY <1>4
  <2>. QED BY <1>5, <2>1, <2>2
<1>. HIDE DEF msg
<1>8. both \in Seq(Seq(Fragbuf)) /\ Line(both, <<>>, written[e] + k)
  <2>1. both \in Seq(Seq(Fragbuf))
    BY <1>4, <1>6, QueueBlockType
  <2>2. written[e] + k \in Nat /\ Len(msg) <= MaxMessage
    BY <1>0, <1>3, <1>4
  <2>. QED BY <1>4, <1>6, <1>7, <2>1, <2>2, CommandsQueued
<1>9. w = [waitlist[e] EXCEPT !["normal"] = QueueAhead(@, message[e], Commands(e, k))]
  BY DEF QueueAhead, first, msg
<1>. HIDE DEF both
<1>10. w \in Waitlists /\ w["normal"] = both
  BY <1>0, <1>8 DEF Waitlists, Stream
<1>. HIDE DEF w
<1>11. Enqueued(e, w, push)
  BY <1>1, <1>9
<1>12. written'[e] \in Nat
  BY <1>0, <1>1, <1>3
<1>. QED BY <1>1, <1>2, <1>8, <1>10, <1>11, <1>12, EnqueuedCommands

LEMMA CutsFileCommands ==
    ASSUME HostsInv, NEW e \in Peer, PlaceInv(e), CommandsInv(e), CutsFile(e)
    PROVE  CommandsInv(e)'
<1>1. PICK name \in FilesOf[e], inMemory \in BOOLEAN :
          Enqueued(e, [waitlist[e] EXCEPT !["file"] =
                          Append(@, FileFragments(name, FileLen[name], inMemory))], TRUE)
  BY DEF CutsFile
<1>. DEFINE block == FileFragments(name, FileLen[name], inMemory)
            w == [waitlist[e] EXCEPT !["file"] = Append(@, block)]
<1>2. block \in Seq(Fragbuf)
  BY FileIsFile
<1>. HIDE DEF block
<1>3. waitlist[e] \in Waitlists /\ waitlist[e]["file"] \in Seq(Seq(Fragbuf)) /\ written[e] \in Nat
  BY Types DEF HostsInv, TypeInv, Stream
<1>4. w \in Waitlists /\ w["normal"] = waitlist[e]["normal"]
  <2>1. Append(waitlist[e]["file"], block) \in Seq(Seq(Fragbuf))
    BY <1>2, <1>3
  <2>. QED BY <1>3, <2>1 DEF Waitlists, Stream
<1>. HIDE DEF w
<1>5. Enqueued(e, w, TRUE)
  BY <1>1 DEF w, block
<1>6. UNCHANGED <<transitOf(e), arrivedOf(e)>> /\ message'[e] = message[e] /\ written'[e] = written[e]
  BY DEF CutsFile
<1>. QED BY <1>3, <1>4, <1>5, <1>6, EnqueuedCommands DEF CommandsInv, NormalWait

\* The receiver takes over what has arrived.
LEMMA ArrivesCommands ==
    ASSUME HostsInv, NEW e \in Peer, CommandsInv(e), Arrives(e)
    PROVE  CommandsInv(e)'
<1>0. written[e] \in Nat /\ Sent(e, "normal") \in Seq(Fragment) /\ Regular(e) \in Seq(Unit)
  <2>1. reliable[e] \in Payload
    BY DEF HostsInv, TypeInv, ChannelTypeOK
  <2>2. Regular(e) \in Seq(Unit)
    BY <2>1 DEF Regular, Payload
  <2>. QED BY <2>2, LineTypes DEF HostsInv, TypeInv, Stream
<1>1. PICK copied \in SUBSET Stream :
          /\ \A s \in copied : Full(e, s) /\ Sent(e, s)' = <<>> /\ Full(e, s)'
          /\ \A s \in Stream \ copied : Sent(e, s)' = Sent(e, s) /\ (Full(e, s)' <=> Full(e, s))
          /\ delivered'[Other(e)] = delivered[Other(e)]
                                        \o (Regular(e) \o CopiedCommands(SentBufs(e), copied))
  BY DEF Arrives
<1>2. Regular(e)' = <<>> /\ message'[e] = message[e] /\ written'[e] = written[e]
  BY DEF Arrives, writtenBy
<1>3. List(e, "normal")' = List(e, "normal") /\ NormalWait(e)' = NormalWait(e)
  BY DEF Arrives, queueOf, List, NormalWait
<1>. DEFINE done == delivered[Other(e)]
            regular == Regular(e)
            sent == Sent(e, "normal")
            full == Full(e, "normal")
            Line(d, r, t, u) ==
                CommandsLine(e, d, r, t, u, List(e, "normal"), NormalWait(e), message[e], written[e])
<1>4. /\ Len(Reassembled(sent)) <= MaxMessage
      /\ Line(done \o regular, <<>>, sent, full)
      /\ full => Line(done \o (regular \o Reassembled(sent)), <<>>, <<>>, TRUE)
  <2>1. Line(done, regular, sent, full)
    BY DEF CommandsInv
  <2>. QED BY <1>0, <2>1, CommandsArrive
<1>5. SentBufs(e)["normal"] = sent
  BY DEF SentBufs, Stream
<1>. HIDE DEF sent, full, regular
<1>6. CASE "normal" \in copied
  <2>1. CopiedCommands(SentBufs(e), copied) = Reassembled(sent)
    BY <1>4, <1>5, <1>6 DEF CopiedCommands
  <2>2. full /\ Sent(e, "normal")' = <<>> /\ (Full(e, "normal")' <=> TRUE)
    BY <1>1, <1>6 DEF full
  <2>3. delivered'[Other(e)] = done \o (regular \o Reassembled(sent))
    BY <1>1, <2>1 DEF regular
  <2>4. Line(done \o (regular \o Reassembled(sent)), <<>>, <<>>, Full(e, "normal")')
    BY <1>4, <2>2, CommandsFull
  <2>. QED BY <1>2, <1>3, <2>2, <2>3, <2>4 DEF CommandsInv
<1>7. CASE "normal" \notin copied
  <2>1. CopiedCommands(SentBufs(e), copied) = <<>>
    BY <1>7 DEF CopiedCommands
  <2>2. Sent(e, "normal")' = sent /\ (Full(e, "normal")' <=> full)
    BY <1>1, <1>7 DEF full, sent, Stream
  <2>3. regular \o <<>> = regular
    BY <1>0 DEF regular
  <2>4. delivered'[Other(e)] = done \o regular
    BY <1>1, <2>1, <2>3 DEF regular
  <2>5. Line(done \o regular, <<>>, sent, Full(e, "normal")')
    BY <1>4, <2>2, CommandsFull
  <2>. QED BY <1>2, <1>3, <2>2, <2>4, <2>5 DEF CommandsInv
<1>. QED BY <1>6, <1>7

\* The sender loads the next payload.
LEMMA LoadsCommands ==
    ASSUME HostsInv, ChannelTypeOK', NEW e \in Peer, PlaceInv(e), SizesFit(e), CommandsInv(e), Loads(e)
    PROVE  CommandsInv(e)'
<1>. DEFINE w == SentWaitlist(waitlist[e], fragbufs[e])
            f == SentFragbufs(waitlist[e], fragbufs[e])
            n == SentCount(waitlist[e], fragbufs[e], fragbufcount[e])
            regular == IF Stalled(e, f) THEN <<>> ELSE message[e]
            sent == Sent(e, "normal")
            full == Full(e, "normal")
            done == delivered[Other(e)]
            Line(r, t, u, list, wait, msg) ==
                CommandsLine(e, done, r, t, u, list, wait, msg, written[e])
<1>0. /\ written[e] \in Nat /\ sent \in Seq(Fragment) /\ full \in BOOLEAN /\ message[e] \in Seq(Unit)
      /\ waitlist[e] \in Waitlists /\ fragbufs[e] \in Fraglists /\ fragbufcount[e] \in Counts
      /\ ChannelTypeOK /\ "normal" \in Stream
  BY LineTypes, Types DEF HostsInv, TypeInv, Stream
<1>1. w \in Waitlists /\ f \in Fraglists /\ w["normal"] \in Seq(Seq(Fragbuf)) /\ f["normal"] \in Seq(Fragbuf)
  <2>1. w \in Waitlists /\ f \in Fraglists
    BY <1>0, PushType
  <2>. QED BY <1>0, <2>1 DEF Waitlists, Fraglists
<1>2. PICK requeue \in BOOLEAN : LoadsFrom(e, w, f, n, requeue)
  BY DEF Loads
<1>3. /\ requeue => Stalled(e, f)
      /\ waitlist'[e] = IF requeue THEN [w EXCEPT !["normal"] = QueueBlock(@, message[e])] ELSE w
      /\ message'[e] = IF requeue \/ regular # <<>> THEN <<>> ELSE message[e]
      /\ reliable'[e] = LoadedPayload(regular, f, n)
      /\ Awaited(e)' = (regular # <<>> \/ \E t \in Stream : f[t] # <<>>)
  BY <1>2 DEF LoadsFrom
<1>4. ~Awaited(e) /\ delivered'[Other(e)] = done /\ written'[e] = written[e]
  BY DEF Loads, arrivedOf
<1>5. Regular(e) = <<>> /\ Regular(e)' = regular
  <2>1. Regular(e) = <<>>
    BY <1>4 DEF Regular
  <2>2. reliable'[e].regular = regular
    BY <1>3 DEF LoadedPayload
  <2>3. regular # <<>> => Awaited(e)'
    BY <1>3
  <2>. QED BY <2>1, <2>2, <2>3 DEF Regular
<1>6. /\ full <=> sent = <<>>
      /\ LeftAlone(e, "normal", f["normal"]) \/ FirstTaken(e, "normal", f["normal"])
  BY <1>0, LoadsLine
<1>7. NormalWait(e)' = IF requeue THEN QueueBlock(w["normal"], message[e]) ELSE w["normal"]
  BY <1>1, <1>3 DEF NormalWait, Waitlists, Stream
<1>. HIDE DEF w, f, n
<1>8. Line(<<>>, sent, full, f["normal"], w["normal"], message[e])
  <2>1. Line(<<>>, sent, full, List(e, "normal"), waitlist[e]["normal"], message[e])
    BY <1>5 DEF CommandsInv, NormalWait
  <2>2. Moves(List(e, "normal"), waitlist[e]["normal"], f["normal"], w["normal"])
    BY <1>0, PushedMoves DEF f, w, List
  <2>3. List(e, "normal") = <<>> => full
    BY <1>0, WholeAtEnd
  <2>4. waitlist[e]["normal"] \in Seq(Seq(Fragbuf))
    BY <1>0 DEF Waitlists
  <2>. QED BY <1>0, <2>1, <2>2, <2>3, <2>4, CommandsMoved
<1>. HIDE DEF sent, full
<1>9. Line(<<>>, Sent(e, "normal")', Full(e, "normal")', List(e, "normal")', w["normal"], message[e])
  <2>1. CASE LeftAlone(e, "normal", f["normal"])
    <3>1. Sent(e, "normal")' = sent /\ (Full(e, "normal")' <=> full) /\ List(e, "normal")' = f["normal"]
      BY <2>1 DEF LeftAlone, sent, full
    <3>2. Line(<<>>, sent, Full(e, "normal")', f["normal"], w["normal"], message[e])
      BY <1>8, <3>1, CommandsFull
    <3>. QED BY <3>1, <3>2
  <2>2. CASE FirstTaken(e, "normal", f["normal"])
    <3>1. PICK frag \in Fragment :
              /\ f["normal"] # <<>> /\ frag.data = Head(f["normal"]).data
              /\ Sent(e, "normal")' = Append(sent, frag) /\ List(e, "normal")' = Tail(f["normal"])
      BY <2>2 DEF FirstTaken, sent
    <3>. DEFINE whole == Full(e, "normal")'
    <3>2. full => sent = <<>>
      BY <1>6
    <3>. HIDE DEF whole
    <3>3. Line(<<>>, Append(sent, frag), whole, Tail(f["normal"]), w["normal"], message[e])
      BY <1>0, <1>1, <1>8, <3>1, <3>2, CommandsTaken DEF sent, full
    <3>. QED BY <3>1, <3>3 DEF whole
  <2>. QED BY <1>6, <2>1, <2>2
<1>10. CASE regular = <<>> /\ ~requeue
  <2>1. message'[e] = message[e] /\ NormalWait(e)' = w["normal"] /\ Regular(e)' = <<>>
    BY <1>3, <1>5, <1>7, <1>10
  <2>. QED BY <1>4, <1>9, <2>1 DEF CommandsInv
<1>11. CASE requeue
  <2>1. message'[e] = <<>> /\ NormalWait(e)' = QueueBlock(w["normal"], message[e]) /\ Regular(e)' = <<>>
    BY <1>3, <1>5, <1>7, <1>11
  <2>2. Len(message[e]) <= MaxMessage
    BY DEF PlaceInv, FitsInv
  <2>. DEFINE sent2 == Sent(e, "normal")'
              full2 == Full(e, "normal")'
              list2 == List(e, "normal")'
  <2>3. Line(<<>>, sent2, full2, list2, w["normal"], message[e])
    BY <1>9
  <2>. HIDE DEF sent2, full2, list2
  <2>4. Line(<<>>, sent2, full2, list2, QueueBlock(w["normal"], message[e]), <<>>)
    BY <1>0, <1>1, <2>2, <2>3, CommandsQueued
  <2>. QED BY <1>4, <2>1, <2>4 DEF CommandsInv, sent2, full2, list2
<1>12. CASE regular # <<>> /\ ~requeue
  <2>1. ~Stalled(e, f) /\ regular = message[e] /\ message[e] # <<>>
    BY <1>12
  <2>2. f["normal"] = <<>>
    BY <2>1 DEF Stalled
  <2>3. w["normal"] = <<>>
    <3>1. WholeBlocks(waitlist[e]["normal"])
      BY <1>0 DEF PlaceInv, BlocksInv
    <3>2. waitlist[e]["normal"] \in Seq(Seq(Fragbuf))
      BY <1>0 DEF Waitlists
    <3>3. waitlist[e]["normal"] # <<>> => Head(waitlist[e]["normal"]) # <<>>
      BY <3>1, <3>2 DEF WholeBlocks
    <3>. QED BY <1>0, <2>2, <3>3 DEF f, w, SentFragbufs, SentWaitlist, MovesUp
  <2>4. full /\ sent = <<>>
    <3>1. List(e, "normal") = <<>>
      BY <1>0, <2>2 DEF f, SentFragbufs, MovesUp, List
    <3>. QED BY <1>0, <1>6, <3>1, WholeAtEnd DEF full
  <2>5. Sent(e, "normal")' = <<>> /\ (Full(e, "normal")' <=> TRUE) /\ List(e, "normal")' = <<>>
    BY <1>6, <2>2, <2>4 DEF LeftAlone, FirstTaken, sent, full
  <2>6. Line(<<>>, <<>>, TRUE, <<>>, <<>>, message[e])
    BY <1>8, <2>2, <2>3, <2>4
  <2>7. Line(message[e], <<>>, TRUE, <<>>, <<>>, <<>>)
    BY <1>0, <2>6, CommandsLoaded
  <2>8. Line(message[e], <<>>, Full(e, "normal")', <<>>, <<>>, <<>>)
    BY <2>5, <2>7, CommandsFull
  <2>9. message'[e] = <<>> /\ NormalWait(e)' = <<>> /\ Regular(e)' = message[e]
    BY <1>3, <1>5, <1>7, <1>12, <2>1, <2>3
  <2>. QED BY <1>4, <2>5, <2>8, <2>9 DEF CommandsInv
<1>. QED BY <1>10, <1>11, <1>12

LEMMA CommandsStep ==
    ASSUME HostsInv, ChannelTypeOK', NEW e \in Peer, PlaceInv(e), SizesFit(e),
           \A k \in SizesOf(e) : k <= MaxMessage, ~overflowed'[e], CommandsInv(e), PipeStep(e)
    PROVE  CommandsInv(e)'
<1>0. ChannelTypeOK
  BY DEF HostsInv, TypeInv
<1>1. CASE Writes(e)
  BY <1>1, WritesCommands
<1>2. CASE Cuts(e)
  BY <1>2, CutsCommands
<1>3. CASE CutsFile(e)
  BY <1>3, CutsFileCommands
<1>4. CASE Loads(e)
  BY <1>4, LoadsCommands
<1>5. CASE Clears(e)
  BY <1>5, CommandsSame DEF Clears, writtenBy
<1>6. CASE Accepts(e)
  BY <1>0, <1>6, AcceptsArrives, ArrivesCommands
<1>7. CASE Copies(e)
  BY <1>7, CopiesArrives, ArrivesCommands
<1>8. CASE Rests(e)
  BY <1>8, CommandsSame DEF Rests, writtenBy
<1>. QED BY <1>1, <1>2, <1>3, <1>4, <1>5, <1>6, <1>7, <1>8 DEF PipeStep

-----------------------------------------------------------------------------
(***************************************************************************)
(* The steps of a pipe keep the files whole.                               *)
(***************************************************************************)
FilesHold(e, sent, full, list, wait, queue, disk) ==
    FilesLine(e, sent, full, list, wait) /\ NamesLine(sent, full, list, wait, queue, disk)

Sound(f) == f.content = Tail(FileUnits(f.name, FileLen[f.name]))

LEMMA FilesInvIs ==
    ASSUME NEW e
    PROVE  FilesInv(e) <=> /\ FilesHold(e, Sent(e, "file"), Full(e, "file"), List(e, "file"), FileWait(e),
                                        fileQueue[e], DiskOf(e))
                           /\ \A f \in files[Other(e)] : Sound(f)
BY DEF FilesInv, FilesHold, Sound

LEMMA FilesFull ==
    ASSUME NEW e, NEW sent, NEW full, NEW list, NEW wait, NEW queue, NEW disk,
           FilesHold(e, sent, full, list, wait, queue, disk), NEW full2, full2 <=> full
    PROVE  FilesHold(e, sent, full2, list, wait, queue, disk)
<1>1. FilesLine(e, sent, full2, list, wait)
  BY Zenon DEF FilesHold, FilesLine
<1>2. NamesLine(sent, full2, list, wait, queue, disk)
  BY Zenon DEF FilesHold, NamesLine
<1>. QED BY <1>1, <1>2 DEF FilesHold

LEMMA FilesSame ==
    ASSUME NEW e, FilesInv(e), UNCHANGED <<queueOf(e), arrivedOf(e), fileQueue[e]>>,
           UNCHANGED transitOf(e) \/ (~Awaited(e) /\ ~Awaited(e)')
    PROVE  FilesInv(e)'
<1>1. /\ Sent(e, "file")' = Sent(e, "file") /\ Full(e, "file")' = Full(e, "file")
      /\ files'[Other(e)] = files[Other(e)]
  BY SameTransit DEF Stream
<1>2. List(e, "file")' = List(e, "file") /\ FileWait(e)' = FileWait(e) /\ DiskOf(e)' = DiskOf(e)
  BY <1>1 DEF queueOf, List, FileWait, DiskOf
<1>. QED BY <1>1, <1>2 DEF FilesInv

\* The wait list is replaced and perhaps pushed on.
LEMMA EnqueuedFiles ==
    ASSUME HostsInv, NEW e \in Peer, PlaceInv(e), NEW w \in Waitlists, NEW push \in BOOLEAN, Enqueued(e, w, push),
           UNCHANGED <<transitOf(e), arrivedOf(e)>>, \A f \in files[Other(e)] : Sound(f),
           FilesHold(e, Sent(e, "file"), Full(e, "file"), List(e, "file"), w["file"], fileQueue'[e], DiskOf(e))
    PROVE  FilesInv(e)'
<1>1. /\ Sent(e, "file")' = Sent(e, "file") /\ Full(e, "file")' = Full(e, "file")
      /\ files'[Other(e)] = files[Other(e)]
  BY SameTransit DEF Stream
<1>2. Moves(List(e, "file"), w["file"], List(e, "file")', FileWait(e)')
  <2>1. "file" \in Stream
    BY DEF Stream
  <2>2. CASE push
    <3>1. /\ List(e, "file")' = SentFragbufs(w, fragbufs[e])["file"]
          /\ FileWait(e)' = SentWaitlist(w, fragbufs[e])["file"]
      BY <2>2 DEF Enqueued, List, FileWait
    <3>. QED BY <2>1, <3>1, PushedMoves DEF List
  <2>3. CASE ~push
    BY <2>3 DEF Enqueued, List, FileWait, Moves
  <2>. QED BY <2>2, <2>3
<1>3. Full(e, "file") \in BOOLEAN /\ w["file"] \in Seq(Seq(Fragbuf))
  BY LineTypes DEF HostsInv, TypeInv, Waitlists, Stream
<1>4. List(e, "file") = <<>> => Full(e, "file")
  BY WholeAtEnd DEF Stream
<1>5. FilesHold(e, Sent(e, "file"), Full(e, "file"), List(e, "file")', FileWait(e)', fileQueue'[e], DiskOf(e))
  BY <1>2, <1>3, <1>4, FilesMoved DEF FilesHold
<1>6. DiskOf(e)' = DiskOf(e)
  BY <1>1 DEF DiskOf
<1>. QED BY <1>1, <1>5, <1>6 DEF FilesInv, FilesHold, Sound

LEMMA CutsFiles ==
    ASSUME HostsInv, NEW e \in Peer, PlaceInv(e), FilesInv(e), Cuts(e)
    PROVE  FilesInv(e)'
<1>1. PICK k \in SizesOf(e), push \in BOOLEAN :
          Enqueued(e, [waitlist[e] EXCEPT !["normal"] =
                          QueueAhead(@, message[e], Commands(e, k))], push)
  BY DEF Cuts
<1>2. UNCHANGED <<transitOf(e), arrivedOf(e)>> /\ fileQueue'[e] = fileQueue[e]
  BY DEF Cuts
<1>3. /\ k \in Nat /\ written[e] \in Nat /\ message[e] \in Seq(Unit)
      /\ waitlist[e] \in Waitlists /\ waitlist[e]["normal"] \in Seq(Seq(Fragbuf))
  BY HostAssumption, Types DEF SizesOf, HostsInv, TypeInv, Stream
<1>. DEFINE queued == QueueAhead(waitlist[e]["normal"], message[e], Commands(e, k))
            w == [waitlist[e] EXCEPT !["normal"] = queued]
<1>4. queued \in Seq(Seq(Fragbuf))
  <2>1. Commands(e, k) \in Seq(Unit)
    <3>1. \A i \in 1 .. k : <<e, written[e] + i>> \in Unit
      BY <1>3 DEF Unit
    <3>. QED BY <1>3, <3>1 DEF Commands
  <2>. QED BY <1>3, <2>1, QueueBlockType DEF QueueAhead
<1>. HIDE DEF queued
<1>5. w \in Waitlists /\ w["file"] = FileWait(e)
  BY <1>3, <1>4 DEF Waitlists, Stream, FileWait
<1>. HIDE DEF w
<1>6. Enqueued(e, w, push)
  BY <1>1 DEF w, queued
<1>. QED BY <1>2, <1>5, <1>6, EnqueuedFiles, FilesInvIs

\* One more file that waits.
LEMMA FilesQueued ==
    ASSUME NEW e, NEW sent, NEW full, NEW list, NEW wait \in Seq(Seq(Fragbuf)), NEW queue, NEW disk,
           FilesHold(e, sent, full, list, wait, queue, disk), NEW name,
           NEW block \in Seq(Fragbuf), block # <<>>, IsFile(e, block), block[1].data[1] = <<name, 0>>
    PROVE  FilesHold(e, sent, full, list, Append(wait, block), queue \union {name}, disk)
<1>. DEFINE more == Append(wait, block)
<1>1. /\ Len(wait) + 1 \in DOMAIN more /\ more[Len(wait) + 1] = block
      /\ \A i \in DOMAIN wait : i \in DOMAIN more /\ more[i] = wait[i]
      /\ \A i \in DOMAIN more : i \in DOMAIN wait \/ i = Len(wait) + 1
  OBVIOUS
<1>. HIDE DEF more
<1>2. FilesLine(e, sent, full, list, more)
  BY <1>1 DEF FilesHold, FilesLine
<1>3. ASSUME NEW other PROVE Carries(block, other) <=> other = name
  BY DEF Carries
<1>4. \A other : (\E i \in DOMAIN more : Carries(more[i], other))
                    <=> (\E i \in DOMAIN wait : Carries(wait[i], other)) \/ other = name
  BY <1>1, <1>3
<1>5. NamesLine(sent, full, list, wait, queue, disk)
  BY DEF FilesHold
<1>6. \A other : other \in queue \union {name} <=> other \in queue \/ other = name
  OBVIOUS
<1>7. NamesLine(sent, full, list, more, queue \union {name}, disk)
  BY <1>4, <1>5, <1>6, Zenon DEF NamesLine
<1>. QED BY <1>2, <1>7 DEF FilesHold, more

LEMMA CutsFileFiles ==
    ASSUME HostsInv, NEW e \in Peer, PlaceInv(e), FilesInv(e), CutsFile(e)
    PROVE  FilesInv(e)'
<1>1. PICK name \in FilesOf[e], inMemory \in BOOLEAN :
          /\ Enqueued(e, [waitlist[e] EXCEPT !["file"] =
                             Append(@, FileFragments(name, FileLen[name], inMemory))], TRUE)
          /\ fileQueue'[e] = fileQueue[e] \union {name}
  BY DEF CutsFile
<1>. DEFINE block == FileFragments(name, FileLen[name], inMemory)
            more == Append(FileWait(e), block)
            w == [waitlist[e] EXCEPT !["file"] = more]
<1>2. IsFile(e, block) /\ block # <<>> /\ block \in Seq(Fragbuf) /\ block[1].data[1] = <<name, 0>>
  BY FileIsFile
<1>. HIDE DEF block
<1>3. waitlist[e] \in Waitlists /\ FileWait(e) \in Seq(Seq(Fragbuf))
  BY Types DEF HostsInv, TypeInv, Stream, FileWait
<1>4. w \in Waitlists /\ w["file"] = more
  <2>1. more \in Seq(Seq(Fragbuf))
    BY <1>2, <1>3
  <2>. QED BY <1>3, <2>1 DEF Waitlists, Stream
<1>5. Enqueued(e, w, TRUE)
  BY <1>1 DEF block, FileWait
<1>. HIDE DEF w
<1>6. UNCHANGED <<transitOf(e), arrivedOf(e)>>
  BY DEF CutsFile
<1>7. FilesHold(e, Sent(e, "file"), Full(e, "file"), List(e, "file"), FileWait(e), fileQueue[e], DiskOf(e))
      /\ \A f \in files[Other(e)] : Sound(f)
  BY FilesInvIs
<1>8. FilesHold(e, Sent(e, "file"), Full(e, "file"), List(e, "file"), more, fileQueue'[e], DiskOf(e))
  <2>. DEFINE sent == Sent(e, "file")
              full == Full(e, "file")
              list == List(e, "file")
              wait == FileWait(e)
              disk == DiskOf(e)
              queue == fileQueue[e]
  <2>1. FilesHold(e, sent, full, list, wait, queue, disk) /\ wait \in Seq(Seq(Fragbuf))
    BY <1>3, <1>7
  <2>. HIDE DEF sent, full, list, wait, disk, queue
  <2>2. FilesHold(e, sent, full, list, Append(wait, block), queue \union {name}, disk)
    BY <1>2, <2>1, FilesQueued
  <2>. QED BY <1>1, <2>2 DEF sent, full, list, wait, disk, queue
<1>. QED BY <1>4, <1>5, <1>6, <1>7, <1>8, EnqueuedFiles

LEMMA LoadsFiles ==
    ASSUME HostsInv, ChannelTypeOK', NEW e \in Peer, PlaceInv(e), SizesFit(e), FilesInv(e), Loads(e)
    PROVE  FilesInv(e)'
<1>. DEFINE w == SentWaitlist(waitlist[e], fragbufs[e])
            f == SentFragbufs(waitlist[e], fragbufs[e])
            sent == Sent(e, "file")
            full == Full(e, "file")
            disk == DiskOf(e)
            queue == fileQueue[e]
<1>0. /\ sent \in Seq(Fragment) /\ full \in BOOLEAN /\ ChannelTypeOK /\ "file" \in Stream
      /\ waitlist[e] \in Waitlists /\ fragbufs[e] \in Fraglists /\ FileWait(e) \in Seq(Seq(Fragbuf))
  BY LineTypes, Types DEF HostsInv, TypeInv, Stream, FileWait
<1>1. w \in Waitlists /\ f \in Fraglists /\ f["file"] \in Seq(Fragbuf)
  <2>1. fragbufcount[e] \in Counts
    BY <1>0, Types
  <2>2. w \in Waitlists /\ f \in Fraglists
    BY <1>0, <2>1, PushType
  <2>. QED BY <1>0, <2>2 DEF Fraglists
<1>2. FileWait(e)' = w["file"]
  <2>1. PICK requeue \in BOOLEAN :
            waitlist'[e] = IF requeue THEN [w EXCEPT !["normal"] = QueueBlock(@, message[e])] ELSE w
    BY DEF Loads, LoadsFrom
  <2>. HIDE DEF w
  <2>. QED BY <1>1, <2>1 DEF FileWait, Waitlists, Stream
<1>3. fileQueue'[e] = queue /\ files'[Other(e)] = files[Other(e)] /\ DiskOf(e)' = disk
  BY DEF Loads, arrivedOf, DiskOf
<1>4. /\ full <=> sent = <<>>
      /\ LeftAlone(e, "file", f["file"]) \/ FirstTaken(e, "file", f["file"])
  BY <1>0, LoadsLine
<1>. HIDE DEF w, f
<1>5. FilesHold(e, sent, full, f["file"], w["file"], queue, disk)
  <2>1. Moves(List(e, "file"), FileWait(e), f["file"], w["file"])
    BY <1>0, PushedMoves DEF f, w, List, FileWait
  <2>2. List(e, "file") = <<>> => full
    BY <1>0, WholeAtEnd
  <2>3. FilesHold(e, sent, full, List(e, "file"), FileWait(e), queue, disk)
    BY FilesInvIs
  <2>. QED BY <1>0, <2>1, <2>2, <2>3, FilesMoved DEF FilesHold
<1>. HIDE DEF sent, full, disk, queue
<1>6. FilesHold(e, Sent(e, "file")', Full(e, "file")', List(e, "file")', w["file"], queue, disk)
  <2>1. CASE LeftAlone(e, "file", f["file"])
    <3>1. Sent(e, "file")' = sent /\ (Full(e, "file")' <=> full) /\ List(e, "file")' = f["file"]
      BY <2>1 DEF LeftAlone, sent, full
    <3>2. FilesHold(e, sent, Full(e, "file")', f["file"], w["file"], queue, disk)
      BY <1>5, <3>1, FilesFull
    <3>. QED BY <3>1, <3>2
  <2>2. CASE FirstTaken(e, "file", f["file"])
    <3>1. PICK frag \in Fragment :
              /\ f["file"] # <<>> /\ frag.data = Head(f["file"]).data
              /\ Sent(e, "file")' = Append(sent, frag) /\ List(e, "file")' = Tail(f["file"])
              /\ Full(e, "file")' <=> Tail(f["file"]) = <<>>
      BY <2>2 DEF FirstTaken, sent
    <3>. DEFINE list == f["file"]
                whole == (Tail(list) = <<>>)
    <3>2. /\ FilesLine(e, sent, full, list, w["file"])
          /\ NamesLine(sent, full, list, w["file"], queue, disk)
      BY <1>5 DEF FilesHold
    <3>3. whole \in BOOLEAN /\ (whole <=> Tail(list) = <<>>)
      OBVIOUS
    <3>4. list \in Seq(Fragbuf) /\ list # <<>> /\ frag.data = Head(list).data
      BY <1>1, <3>1
    <3>. HIDE DEF list, whole
    <3>5. FilesHold(e, Append(sent, frag), whole, Tail(list), w["file"], queue, disk)
      BY <1>0, <1>4, <3>2, <3>3, <3>4, FilesTaken DEF FilesHold, sent, full
    <3>6. Full(e, "file")' <=> whole
      BY <3>1 DEF whole, list
    <3>7. FilesHold(e, Append(sent, frag), Full(e, "file")', Tail(list), w["file"], queue, disk)
      BY <3>5, <3>6, FilesFull
    <3>. QED BY <3>1, <3>7 DEF list
  <2>. QED BY <1>4, <2>1, <2>2
<1>7. \A g \in files[Other(e)] : Sound(g)
  BY FilesInvIs
<1>. QED BY <1>2, <1>3, <1>6, <1>7 DEF FilesInv, FilesHold, Sound, queue, disk

\* A file is written to the disk.
LEMMA FilesLanded ==
    ASSUME NEW e \in Peer, NEW sent \in Seq(Fragment), sent # <<>>, NEW list, NEW wait, NEW queue, NEW disk,
           FilesHold(e, sent, TRUE, list, wait, queue, disk)
    PROVE  \E o \in FilesOf[e] : /\ Reassembled(sent) = FileUnits(o, FileLen[o])
                                 /\ Reassembled(sent)[1] = <<o, 0>>
                                 /\ FilesHold(e, <<>>, TRUE, list, wait, queue, disk \union {o})
<1>1. FilesLine(e, sent, TRUE, list, wait) /\ NamesLine(sent, TRUE, list, wait, queue, disk)
  BY DEF FilesHold
<1>2. PICK o \in FilesOf[e] : /\ Reassembled(sent) = FileUnits(o, FileLen[o])
                              /\ Reassembled(sent)[1] = <<o, 0>>
                              /\ sent[1].data[1] = <<o, 0>>
  BY <1>1, FileArrives
<1>3. FilesLine(e, <<>>, TRUE, list, wait)
  BY <1>1 DEF FilesLine
<1>4. ASSUME NEW name PROVE Carries(sent, name) <=> name = o
  BY <1>2 DEF Carries
<1>5. ASSUME NEW name PROVE ~Carries(<<>>, name)
  BY DEF Carries
<1>6. \A name : name \in disk \union {o} <=> name \in disk \/ name = o
  OBVIOUS
<1>7. NamesLine(<<>>, TRUE, list, wait, queue, disk \union {o})
  BY <1>1, <1>4, <1>5, <1>6, Zenon DEF NamesLine
<1>. QED BY <1>2, <1>3, <1>7 DEF FilesHold

LEMMA ArrivesFiles ==
    ASSUME HostsInv, NEW e \in Peer, FilesInv(e), Arrives(e)
    PROVE  FilesInv(e)'
<1>0. Sent(e, "file") \in Seq(Fragment)
  BY LineTypes DEF HostsInv, TypeInv, Stream
<1>1. PICK copied \in SUBSET Stream :
          /\ \A s \in copied : Full(e, s) /\ Sent(e, s) # <<>> /\ Sent(e, s)' = <<>> /\ Full(e, s)'
          /\ \A s \in Stream \ copied : Sent(e, s)' = Sent(e, s) /\ (Full(e, s)' <=> Full(e, s))
          /\ files'[Other(e)] = files[Other(e)] \union CopiedFiles(Other(e), SentBufs(e), copied)
  BY DEF Arrives
<1>2. fileQueue'[e] = fileQueue[e] /\ List(e, "file")' = List(e, "file") /\ FileWait(e)' = FileWait(e)
  BY DEF Arrives, writtenBy, queueOf, List, FileWait
<1>. DEFINE sent == Sent(e, "file")
            full == Full(e, "file")
            Hold(t, u, disk) == FilesHold(e, t, u, List(e, "file"), FileWait(e), fileQueue[e], disk)
<1>3. Hold(sent, full, DiskOf(e)) /\ \A f \in files[Other(e)] : Sound(f)
  BY FilesInvIs
<1>4. SentBufs(e)["file"] = sent
  BY DEF SentBufs, Stream
<1>. HIDE DEF sent, full
<1>5. CASE "file" \in copied
  <2>1. full /\ sent # <<>> /\ Sent(e, "file")' = <<>> /\ (Full(e, "file")' <=> TRUE)
    BY <1>1, <1>5 DEF full, sent
  <2>2. Hold(sent, TRUE, DiskOf(e))
    BY <1>3, <2>1, FilesFull
  <2>3. PICK o \in FilesOf[e] : /\ Reassembled(sent) = FileUnits(o, FileLen[o])
                                /\ Reassembled(sent)[1] = <<o, 0>>
                                /\ Hold(<<>>, TRUE, DiskOf(e) \union {o})
    BY <1>0, <2>1, <2>2, FilesLanded DEF sent
  <2>. DEFINE new == [name |-> o, content |-> Tail(FileUnits(o, FileLen[o]))]
  <2>4. CopiedFiles(Other(e), SentBufs(e), copied) = IF o \notin DiskOf(e) THEN {new} ELSE {}
    <3>1. Reassembled(sent)[1][1] = o
      BY <2>3
    <3>. QED BY <1>4, <1>5, <2>3, <3>1 DEF CopiedFiles, DiskOf
  <2>5. Sound(new) /\ new.name = o
    BY DEF Sound
  <2>. HIDE DEF new
  <2>6. DiskOf(e)' = DiskOf(e) \union {o}
    <3>1. files'[Other(e)] = files[Other(e)] \union (IF o \notin DiskOf(e) THEN {new} ELSE {})
      BY <1>1, <2>4
    <3>2. DiskOf(e)' = {f.name : f \in files'[Other(e)]}
      BY DEF DiskOf
    <3>3. CASE o \notin DiskOf(e)
      BY <2>5, <3>1, <3>2, <3>3 DEF DiskOf
    <3>4. CASE o \in DiskOf(e)
      BY <3>1, <3>2, <3>4 DEF DiskOf
    <3>. QED BY <3>3, <3>4
  <2>7. \A f \in files'[Other(e)] : Sound(f)
    BY <1>1, <1>3, <2>4, <2>5
  <2>8. Hold(<<>>, Full(e, "file")', DiskOf(e) \union {o})
    BY <2>1, <2>3, FilesFull
  <2>. QED BY <1>2, <2>1, <2>6, <2>7, <2>8 DEF FilesInv, FilesHold, Sound
<1>6. CASE "file" \notin copied
  <2>1. CopiedFiles(Other(e), SentBufs(e), copied) = {}
    BY <1>6 DEF CopiedFiles
  <2>2. files'[Other(e)] = files[Other(e)] /\ DiskOf(e)' = DiskOf(e)
    BY <1>1, <2>1 DEF DiskOf
  <2>3. Sent(e, "file")' = sent /\ (Full(e, "file")' <=> full)
    BY <1>1, <1>6 DEF sent, full, Stream
  <2>4. Hold(sent, Full(e, "file")', DiskOf(e))
    BY <1>3, <2>3, FilesFull
  <2>. QED BY <1>2, <1>3, <2>2, <2>3, <2>4 DEF FilesInv, FilesHold, Sound
<1>. QED BY <1>5, <1>6

LEMMA FilesStep ==
    ASSUME HostsInv, ChannelTypeOK', NEW e \in Peer, PlaceInv(e), SizesFit(e), FilesInv(e), PipeStep(e)
    PROVE  FilesInv(e)'
<1>0. ChannelTypeOK
  BY DEF HostsInv, TypeInv
<1>1. CASE Writes(e)
  BY <1>1, FilesSame DEF Writes
<1>2. CASE Cuts(e)
  BY <1>2, CutsFiles
<1>3. CASE CutsFile(e)
  BY <1>3, CutsFileFiles
<1>4. CASE Loads(e)
  BY <1>4, LoadsFiles
<1>5. CASE Clears(e)
  BY <1>5, FilesSame DEF Clears, writtenBy
<1>6. CASE Accepts(e)
  BY <1>0, <1>6, AcceptsArrives, ArrivesFiles
<1>7. CASE Copies(e)
  BY <1>7, CopiesArrives, ArrivesFiles
<1>8. CASE Rests(e)
  BY <1>8, FilesSame DEF Rests, writtenBy
<1>. QED BY <1>1, <1>2, <1>3, <1>4, <1>5, <1>6, <1>7, <1>8 DEF PipeStep

-----------------------------------------------------------------------------
(***************************************************************************)
(* What the receiving game has taken over.                                 *)
(***************************************************************************)
\* The assumptions: no message or broadcast that is cut in fragments is longer than
\* the receiver's buffer, and nothing was lost in a full chan->message.
MessagesFit == \A k \in BlockSizes \union BroadcastSizes : k <= MaxMessage
NoOverflow  == \A e \in Peer : ~overflowed[e]

LEMMA EmptyLine ==
    ASSUME NEW e
    PROVE  CommandsLine(e, <<>>, <<>>, <<>>, TRUE, <<>>, <<>>, <<>>, 0)
<1>1. Covers(e, <<>>, 0, 0) /\ BlocksCover(e, <<>>, 0, 0) /\ Units(e, 0, 0) = <<>>
  BY RunsNone, UnitsFacts DEF Covers, BlocksCover
<1>2. 0 \in Nat /\ 0 <= 0 /\ 0 - 0 <= MaxMessage /\ (~TRUE => 0 - 0 <= MaxMessage)
  BY BufferAssumption
<1>3. <<>> # <<>> => <<>> = <<>>
  OBVIOUS
<1>. QED BY <1>1, <1>2, <1>3, Zenon DEF CommandsLine

\* With nothing on its way everything has been delivered.
LEMMA DrainedLine ==
    ASSUME NEW e, NEW done, NEW full, NEW last \in Nat,
           CommandsLine(e, done, <<>>, <<>>, full, <<>>, <<>>, <<>>, last)
    PROVE  Len(done) = last
<1>1. PICK d, a, b, c, z \in Nat :
        /\ d <= a /\ z <= last
        /\ done = Units(e, 0, d) /\ <<>> = Units(e, d, a)
        /\ Covers(e, <<>>, a, b) /\ Covers(e, <<>>, b, c)
        /\ BlocksCover(e, <<>>, c, z)
        /\ <<>> = Units(e, z, last)
  BY DEF CommandsLine
<1>2. d = a /\ z = last
  BY <1>1, UnitsFacts
<1>3. a = b /\ b = c
  BY <1>1, NothingCovered
<1>4. c = z
  <2>1. Len(<<>>) = 0
    OBVIOUS
  <2>. QED BY <1>1, <2>1, RunsBounds DEF BlocksCover
<1>5. IsUnits(Units(e, 0, d), e, 0, d)
  BY <1>1, UnitsFacts
<1>. QED BY <1>1, <1>2, <1>3, <1>4, <1>5 DEF IsUnits

LEMMA LineInOrder ==
    ASSUME NEW e, NEW done, NEW regular, NEW sent, NEW full, NEW list, NEW wait, NEW msg, NEW last,
           CommandsLine(e, done, regular, sent, full, list, wait, msg, last)
    PROVE  done = [i \in 1 .. Len(done) |-> <<e, i>>]
<1>1. PICK d \in Nat : done = Units(e, 0, d)
  BY DEF CommandsLine
<1>2. done = [i \in 1 .. d |-> <<e, i>>]
  <2>1. d - 0 = d /\ \A i \in 1 .. d : 0 + i = i
    OBVIOUS
  <2>. QED BY <1>1, <2>1 DEF Units
<1>3. Len(done) = d
  BY <1>2
<1>. QED BY <1>2, <1>3

LEMMA ContentInit ==
    ASSUME Init, NEW e \in Peer
    PROVE  CommandsInv(e) /\ FilesInv(e)
<1>1. PICK start \in ServerSequences : ChannelInit(start)
  BY DEF Init
<1>2. Other(e) \in Peer /\ ~Awaited(e)
  BY TwoPeers, PassInit
<1>3. ASSUME NEW s \in Stream
      PROVE  Sent(e, s) = <<>> /\ (Full(e, s) <=> TRUE) /\ List(e, s) = <<>> /\ waitlist[e][s] = <<>>
  BY <1>1, <1>2 DEF ChannelInit, List, Got, Done, Sent, Full
<1>4. Regular(e) = <<>> /\ message[e] = <<>> /\ written[e] = 0 /\ delivered[Other(e)] = <<>>
      /\ fileQueue[e] = {} /\ files[Other(e)] = {}
  BY <1>1, <1>2 DEF ChannelInit, Init, Regular
<1>5. CommandsInv(e)
  <2>1. /\ Sent(e, "normal") = <<>> /\ (Full(e, "normal") <=> TRUE)
        /\ List(e, "normal") = <<>> /\ NormalWait(e) = <<>>
    BY <1>3 DEF Stream, NormalWait
  <2>2. CommandsLine(e, <<>>, <<>>, <<>>, TRUE, <<>>, <<>>, <<>>, 0)
    BY EmptyLine
  <2>3. CommandsLine(e, <<>>, <<>>, <<>>, Full(e, "normal"), <<>>, <<>>, <<>>, 0)
    BY <2>1, <2>2, CommandsFull
  <2>. QED BY <1>4, <2>1, <2>3 DEF CommandsInv
<1>6. FilesInv(e)
  <2>1. /\ Sent(e, "file") = <<>> /\ (Full(e, "file") <=> TRUE)
        /\ List(e, "file") = <<>> /\ FileWait(e) = <<>>
    BY <1>3 DEF Stream, FileWait
  <2>2. FilesHold(e, <<>>, TRUE, <<>>, <<>>, {}, {})
    BY DEF FilesHold, FilesLine, NamesLine, Carries
  <2>3. FilesHold(e, <<>>, Full(e, "file"), <<>>, <<>>, {}, {})
    BY <2>1, <2>2, FilesFull
  <2>4. DiskOf(e) = {}
    BY <1>4 DEF DiskOf
  <2>. QED BY <1>4, <2>1, <2>3, <2>4, FilesInvIs
<1>. QED BY <1>5, <1>6

PassInv == /\ PlainInv /\ LeavesInv
           /\ \A e \in Peer : HeldInv(e) /\ PlaceInv(e)

LEMMA PassStep ==
    ASSUME \A e \in Peer : SizesFit(e), FragmentsInGame, HostsInv, ReliableInv, PassInv, [Next]_vars
    PROVE  PassInv' /\ \A e \in Peer : PipeStep(e)
<1>1. "server" \in Peer /\ "client" \in Peer /\ (\A e \in Peer : e = "server" \/ e = "client") /\ TypeInv
  BY DEF Peer, HostsInv
<1>2. PlainInv' /\ HeldInv("server")' /\ PipeStep("server")
  BY <1>1, ServerPipeStep DEF PassInv
<1>3. LeavesInv' /\ HeldInv("client")' /\ PipeStep("client")
  BY <1>1, ClientPipeStep DEF PassInv
<1>4. \A e \in Peer : PipeStep(e)
  BY <1>1, <1>2, <1>3
<1>5. \A e \in Peer : PlaceInv(e)'
  BY <1>1, <1>4, PlaceStep DEF PassInv
<1>6. \A e \in Peer : HeldInv(e)'
  BY <1>1, <1>2, <1>3
<1>. QED BY <1>2, <1>3, <1>4, <1>5, <1>6 DEF PassInv

\* What all of this rests on, for both pipes.
FoundationInv == HostsInv /\ ReliableInv /\ PassInv

LEMMA FoundationInit == Init => FoundationInv
BY InvInit, HostsInit, PassInit DEF Inv, FoundationInv, PassInv

LEMMA FoundationStep ==
    ASSUME \A e \in Peer : SizesFit(e), FragmentsInGame, FoundationInv, [Next]_vars
    PROVE  /\ FoundationInv' /\ ChannelTypeOK'
           /\ \A e \in Peer : PipeStep(e)
<1>1. HostsInv /\ ReliableInv /\ PassInv /\ TypeInv
  BY DEF FoundationInv, HostsInv
<1>2. HostsInv' /\ ReliableInv'
  BY <1>1, HostsStep, InvStep DEF Inv
<1>3. ChannelTypeOK'
  BY <1>2 DEF HostsInv, TypeInv
<1>. QED BY <1>1, <1>2, <1>3, PassStep DEF FoundationInv

CommandsHold == \A e \in Peer : CommandsInv(e)
FilesKept    == \A e \in Peer : FilesInv(e)

LEMMA CommandsHoldStep ==
    ASSUME \A e \in Peer : SizesFit(e), MessagesFit, FragmentsInGame,
           FoundationInv, CommandsHold, [Next]_vars, NoOverflow'
    PROVE  CommandsHold'
<1>1. ASSUME NEW e \in Peer PROVE CommandsInv(e)'
  <2>1. HostsInv /\ ChannelTypeOK' /\ PlaceInv(e) /\ SizesFit(e) /\ PipeStep(e)
    BY FoundationStep DEF FoundationInv, PassInv
  <2>2. \A k \in SizesOf(e) : k <= MaxMessage
    BY DEF MessagesFit, SizesOf
  <2>3. ~overflowed'[e] /\ CommandsInv(e)
    BY DEF NoOverflow, CommandsHold
  <2>. QED BY <2>1, <2>2, <2>3, CommandsStep
<1>. QED BY <1>1 DEF CommandsHold

LEMMA FilesKeptStep ==
    ASSUME \A e \in Peer : SizesFit(e), FragmentsInGame, FoundationInv, FilesKept, [Next]_vars
    PROVE  FilesKept'
<1>1. ASSUME NEW e \in Peer PROVE FilesInv(e)'
  <2>1. HostsInv /\ ChannelTypeOK' /\ PlaceInv(e) /\ SizesFit(e) /\ PipeStep(e) /\ FilesInv(e)
    BY FoundationStep DEF FoundationInv, PassInv, FilesKept
  <2>. QED BY <2>1, FilesStep
<1>. QED BY <1>1 DEF FilesKept

\* Nothing is left in the pipe of a drained sender.
LEMMA NothingLeft ==
    ASSUME FoundationInv, NEW e \in Peer, Drained(e)
    PROVE  /\ ~Awaited(e) /\ Regular(e) = <<>>
           /\ \A s \in Stream : Sent(e, s) = <<>> /\ List(e, s) = <<>> /\ waitlist[e][s] = <<>>
<1>1. PlaceInv(e) /\ HeldInv(e) /\ AtMostOneOutstanding(e)
  BY DEF FoundationInv, PassInv, ReliableInv
<1>2. /\ reliable[e] = EmptyPayload
      /\ \A s \in Stream : List(e, s) = <<>> /\ waitlist[e][s] = <<>>
  BY DEF Drained, List
<1>3. ~Awaited(e)
  BY <1>1, <1>2 DEF AtMostOneOutstanding, Awaited
<1>4. \A s \in Stream : ~Done(e, s)
  BY <1>1, <1>2 DEF HeldInv
<1>5. \A s \in Stream : Sent(e, s) = <<>>
  BY <1>1, <1>2, <1>3, <1>4, WholeAtEnd DEF Sent, Full
<1>. QED BY <1>2, <1>3, <1>5 DEF Regular

\* The receiving game takes over the commands of a peer in the order in which they
\* were written, each once and without gaps, whether they travelled as regular data
\* or in fragments: whatever the network loses, repeats or reorders, for any size of
\* fragments, payloads and buffers.  It takes that blocks fit in the receiver's
\* buffers, that a client sends no blocks before it is active, and that nothing was
\* written to a full chan->message, which loses it.
THEOREM CommandsArriveInOrder ==
    (\A e \in Peer : SizesFit(e)) /\ MessagesFit /\ FragmentsInGame /\ Spec /\ []NoOverflow => []CommandsInOrder
<1>. SUFFICES ASSUME \A e \in Peer : SizesFit(e), MessagesFit, FragmentsInGame
              PROVE  Spec /\ []NoOverflow => []CommandsInOrder
  OBVIOUS
<1>1. Init => FoundationInv /\ CommandsHold
  BY FoundationInit, ContentInit DEF CommandsHold
<1>2. (FoundationInv /\ CommandsHold) /\ [Next]_vars /\ NoOverflow' => (FoundationInv /\ CommandsHold)'
  BY FoundationStep, CommandsHoldStep
<1>3. FoundationInv /\ CommandsHold => CommandsInOrder
  <2>. SUFFICES ASSUME CommandsHold, NEW e \in Peer
                PROVE  delivered[Other(e)] = [i \in 1 .. Len(delivered[Other(e)]) |-> <<e, i>>]
    BY DEF CommandsInOrder
  <2>1. CommandsInv(e)
    BY DEF CommandsHold
  <2>. QED BY <2>1, LineInOrder DEF CommandsInv
<1>. QED BY <1>1, <1>2, <1>3, PTL DEF Spec

\* When a sender's queues and its reliable buffer are empty the receiving game has
\* taken over every command it wrote and every file it queued: the acknowledgement
\* that frees the last payload never comes before the block is copied.
THEOREM DrainedIsDelivered ==
    (\A e \in Peer : SizesFit(e)) /\ MessagesFit /\ FragmentsInGame /\ Spec /\ []NoOverflow
        => []DrainedMeansDelivered
<1>. SUFFICES ASSUME \A e \in Peer : SizesFit(e), MessagesFit, FragmentsInGame
              PROVE  Spec /\ []NoOverflow => []DrainedMeansDelivered
  OBVIOUS
<1>. DEFINE AllInv == FoundationInv /\ CommandsHold /\ FilesKept
<1>1. Init => AllInv
  BY FoundationInit, ContentInit DEF CommandsHold, FilesKept
<1>2. AllInv /\ [Next]_vars /\ NoOverflow' => AllInv'
  BY FoundationStep, CommandsHoldStep, FilesKeptStep
<1>3. AllInv => DrainedMeansDelivered
  <2>. SUFFICES ASSUME AllInv, NEW e \in Peer, Drained(e)
                PROVE  /\ Len(delivered[Other(e)]) = written[e]
                       /\ DiskOf(e) = fileQueue[e]
    BY DEF DrainedMeansDelivered, DiskOf
  <2>1. /\ Regular(e) = <<>> /\ message[e] = <<>>
        /\ \A s \in Stream : Sent(e, s) = <<>> /\ List(e, s) = <<>> /\ waitlist[e][s] = <<>>
    BY NothingLeft DEF Drained
  <2>2. CommandsInv(e) /\ FilesInv(e) /\ written[e] \in Nat /\ fileQueue[e] \in SUBSET FileName
        /\ files[Other(e)] \in SUBSET File
    BY TwoPeers DEF CommandsHold, FilesKept, FoundationInv, HostsInv, TypeInv
  <2>3. Len(delivered[Other(e)]) = written[e]
    <3>1. CommandsLine(e, delivered[Other(e)], <<>>, <<>>, Full(e, "normal"), <<>>, <<>>, <<>>, written[e])
      BY <2>1, <2>2 DEF CommandsInv, NormalWait, Stream
    <3>. QED BY <2>2, <3>1, DrainedLine
  <2>4. NamesLine(<<>>, Full(e, "file"), <<>>, <<>>, fileQueue[e], DiskOf(e))
    BY <2>1, <2>2 DEF FilesInv, FileWait, Stream
  <2>5. \A name \in FileName : name \in fileQueue[e] <=> name \in DiskOf(e)
    <3>1. \A name : ~Carries(<<>>, name)
      BY DEF Carries
    <3>2. DOMAIN <<>> = {}
      OBVIOUS
    <3>. QED BY <2>4, <3>1, <3>2 DEF NamesLine
  <2>6. DiskOf(e) \subseteq FileName
    BY <2>2 DEF DiskOf, File
  <2>. QED BY <2>2, <2>3, <2>5, <2>6
<1>. HIDE DEF AllInv
<1>. QED BY <1>1, <1>2, <1>3, PTL DEF Spec

\* A file on the receiver's disk is the file that was sent, all of it and in order,
\* however it was cut and in whatever company its fragments travelled.
THEOREM FilesArriveIntact ==
    (\A e \in Peer : SizesFit(e)) /\ FragmentsInGame /\ Spec => []FilesIntact
<1>. SUFFICES ASSUME \A e \in Peer : SizesFit(e), FragmentsInGame
              PROVE  Spec => []FilesIntact
  OBVIOUS
<1>1. Init => FoundationInv /\ FilesKept
  BY FoundationInit, ContentInit DEF FilesKept
<1>2. (FoundationInv /\ FilesKept) /\ [Next]_vars => (FoundationInv /\ FilesKept)'
  BY FoundationStep, FilesKeptStep
<1>3. FoundationInv /\ FilesKept => FilesIntact
  <2>. SUFFICES ASSUME FilesKept, NEW r \in Peer, NEW f \in files[r]
                PROVE  f.content = Tail(FileUnits(f.name, FileLen[f.name]))
    BY DEF FilesIntact
  <2>1. Other(r) \in Peer /\ Other(Other(r)) = r
    BY TwoPeers
  <2>. QED BY <2>1 DEF FilesKept, FilesInv
<1>. QED BY <1>1, <1>2, <1>3, PTL DEF Spec
=============================================================================
