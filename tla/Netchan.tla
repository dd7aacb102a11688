------------------------------- MODULE Netchan -------------------------------
(***************************************************************************)
(* The sequenced channel between a client and a server, as implemented by  *)
(* engine/engine/common/net_chan.c: one netchan_t at each end.             *)
(*                                                                         *)
(* Every datagram carries its sequence number, the highest sequence number *)
(* seen from the peer, and two parity bits.  At most one reliable payload  *)
(* is outstanding: it is loaded when the previous one is acknowledged, and *)
(* it is sent again when the peer's acknowledgement shows that it was lost.*)
(* A payload is the pending regular data plus at most one fragment of each *)
(* stream (long messages and files are cut in numbered fragments, collected*)
(* by the receiver until all of them are there).                           *)
(*                                                                         *)
(* This module holds the state of both netchan_t and the operations on it; *)
(* NetchanHosts holds the two frame loops that call them.  Lengths are     *)
(* counted in abstract units: a unit is one command of the game protocol,  *)
(* or one piece of a file.  Compression, munging, flow statistics and the  *)
(* rate limiter are left out.                                              *)
(***************************************************************************)
EXTENDS Integers, Sequences, FiniteSets, SequencesExt

CONSTANTS
    FileName,           \* files that can be transferred, named by strings
    ChunkSize,          \* pfnBlockSize(FRAGSIZE_FRAG): units in a fragment
    MaxFragment,        \* NET_MAX_FRAGMENT: a payload stays below it
    MaxReliablePayload, \* MAX_RELIABLE_PAYLOAD or the split size
    MaxMessage,         \* NET_MAX_MESSAGE: capacity of chan->message
    MaxFragbufs,        \* MAX_NETCHAN_FRAGBUFS_PER_STREAM
    UseCookie,          \* chan->use_cookie, the same at both ends
    SequenceWindow      \* the cvar net_sequence_window, 0 when it is off

ASSUME ChunkAssumption   == ChunkSize \in Nat \ {0}
ASSUME PayloadAssumption == /\ MaxFragment \in Nat
                            /\ ChunkSize < MaxFragment
                            /\ MaxReliablePayload \in Nat
ASSUME BufferAssumption  == MaxMessage \in Nat \ {0} /\ MaxFragbufs \in Nat
ASSUME WindowAssumption  == UseCookie \in BOOLEAN /\ SequenceWindow \in Nat

Peer   == {"client", "server"}
Stream == {"normal", "file"}        \* FRAG_NORMAL_STREAM, FRAG_FILE_STREAM

Other(e) == IF e = "client" THEN "server" ELSE "client"

\* A unit of data: the k-th command written by a peer, or the k-th piece of
\* a file; piece 0 of a file is the header with its name.
Unit == (Peer \union FileName) \X Nat

Chunk    == {d \in Seq(Unit) : d # <<>> /\ Len(d) <= ChunkSize}
Fragbuf  == [bufferid : Nat \ {0}, data : Chunk]
Fragment == [id : Nat \ {0}, count : Nat, data : Chunk]

NoFragment   == [id |-> 0, count |-> 0, data |-> <<>>]
EmptyPayload == [regular |-> <<>>, frag |-> [s \in Stream |-> NoFragment]]
Payload      == [regular : Seq(Unit),
                 frag : [Stream -> Fragment \union {NoFragment}]]

Packet == [from : Peer, seq : Nat, reliable : BOOLEAN, ack : Nat,
           reliable_ack : {0, 1}, payload : Payload, unreliable : BOOLEAN]

VARIABLES
    \* sequencing
    incoming_sequence, incoming_acknowledged, incoming_reliable_acknowledged,
    incoming_reliable_sequence, outgoing_sequence, reliable_sequence,
    last_reliable_sequence,
    \* data on its way out
    message, overflowed, reliable, waitlist, fragbufs, fragbufcount,
    \* data on its way in
    incomingbufs, incomingready,
    \* datagrams sent and not destroyed by the network
    net,
    \* history: the reliable payloads loaded by a peer, those it accepted
    loads, accepted

ackVars   == <<incoming_sequence, incoming_acknowledged,
               incoming_reliable_acknowledged, incoming_reliable_sequence>>
seqVars   == <<outgoing_sequence, reliable_sequence, last_reliable_sequence>>
queueVars == <<message, overflowed, waitlist, fragbufs, fragbufcount>>
recvVars  == <<incomingbufs, incomingready>>
chanVars  == <<ackVars, seqVars, queueVars, reliable, recvVars, net, loads,
               accepted>>

-----------------------------------------------------------------------------
(***************************************************************************)
(* Cutting data into fragments.                                            *)
(***************************************************************************)
Least(a, b) == IF a <= b THEN a ELSE b

\* Definitions marked "mutant" are no part of the model: each is a slip the
\* code could have made, put in the place of the definition that follows it to
\* see that a property notices.
\* Mutant: one fragment too many when the rest fills the chunks exactly.
FragmentCountRoundedUp(len, first) == 1 + (len - first + ChunkSize) \div ChunkSize

\* The first fragment takes `first' units, every other one ChunkSize.
FragmentCount(len, first) == 1 + (len - first + ChunkSize - 1) \div ChunkSize

FragmentStart(i, first) == IF i = 1 THEN 1 ELSE first + (i - 2) * ChunkSize + 1

FragmentEnd(i, len, first) == Least(len, first + (i - 1) * ChunkSize)

Fragments(data, first) ==
    [i \in 1 .. FragmentCount(Len(data), first) |->
        [bufferid |-> i,
         data |-> SubSeq(data, FragmentStart(i, first),
                               FragmentEnd(i, Len(data), first))]]

\* A message is cut from its start (Netchan_CreateFragments_).
MessageFragments(msg) == Fragments(msg, Least(Len(msg), ChunkSize))

\* A wait list with one more block at its end; an empty message adds none.
QueueBlock(w, msg) == IF msg = <<>> THEN w ELSE Append(w, MessageFragments(msg))

\* Netchan_CreateFragments queues pending regular data ahead of the new block.
QueueAhead(w, pending, msg) == QueueBlock(QueueBlock(w, pending), msg)

\* A file is cut with its header unit in front.  From memory the first
\* fragment is sized without the header, from disk with it.
FileUnits(name, len) == [i \in 1 .. len + 1 |-> <<name, i - 1>>]

FileFragments(name, len, inMemory) ==
    Fragments(FileUnits(name, len),
              Least(IF inMemory THEN len ELSE len + 1, ChunkSize))

(***************************************************************************)
(* Netchan_FragSend: a stream whose current list is used up takes the next *)
(* block of its wait list.  w, f and n stand for waitlist[e], fragbufs[e]  *)
(* and fragbufcount[e].                                                    *)
(***************************************************************************)
\* Mutant: the wait list is never looked at.
MovesUpNever(w, f, s) == FALSE

MovesUp(w, f, s) == f[s] = <<>> /\ w[s] # <<>>

SentWaitlist(w, f) ==
    [s \in Stream |-> IF MovesUp(w, f, s) THEN Tail(w[s]) ELSE w[s]]
SentFragbufs(w, f) ==
    [s \in Stream |-> IF MovesUp(w, f, s) THEN Head(w[s]) ELSE f[s]]
SentCount(w, f, n) ==
    [s \in Stream |-> IF MovesUp(w, f, s) THEN Len(Head(w[s])) ELSE n[s]]

\* Replace peer e's wait lists by w, then push them if the caller does.
Enqueue(e, w, push) ==
    /\ waitlist' = [waitlist EXCEPT ![e] =
                       IF push THEN SentWaitlist(w, fragbufs[e]) ELSE w]
    /\ fragbufs' = [fragbufs EXCEPT ![e] =
                       IF push THEN SentFragbufs(w, @) ELSE @]
    /\ fragbufcount' = [fragbufcount EXCEPT ![e] =
                       IF push THEN SentCount(w, fragbufs[e], @) ELSE @]

-----------------------------------------------------------------------------
(***************************************************************************)
(* Operations of the sender.                                               *)
(***************************************************************************)
\* MSG_Write* on chan->message: what does not fit is lost, leaves the buffer
\* full and sets its overflow flag.
WriteMessage(e, msg) ==
    /\ IF Len(message[e]) + Len(msg) <= MaxMessage /\ ~overflowed[e]
       THEN /\ message' = [message EXCEPT ![e] = @ \o msg]
            /\ UNCHANGED overflowed
       ELSE /\ overflowed' = [overflowed EXCEPT ![e] = TRUE]
            /\ UNCHANGED message
    /\ UNCHANGED <<ackVars, seqVars, reliable, waitlist, fragbufs,
                   fragbufcount, recvVars, net, loads, accepted>>

\* Mutant: the blocks are queued for the stream of the files.
CreateFragmentsAsFile(e, msg, push) ==
    /\ Enqueue(e, [waitlist[e] EXCEPT !["file"] = QueueAhead(@, message[e], msg)], push)
    /\ message' = [message EXCEPT ![e] = <<>>]
    /\ overflowed' = [overflowed EXCEPT ![e] = FALSE]
    /\ UNCHANGED <<ackVars, seqVars, reliable, recvVars, net, loads, accepted>>

\* Netchan_CreateFragments: the pending regular data is queued first, as a
\* block of its own, and cleared with its overflow flag.  push: the caller
\* goes on with Netchan_FragSend.
CreateFragments(e, msg, push) ==
    /\ Enqueue(e, [waitlist[e] EXCEPT !["normal"] = QueueAhead(@, message[e], msg)],
               push)
    /\ message' = [message EXCEPT ![e] = <<>>]
    /\ overflowed' = [overflowed EXCEPT ![e] = FALSE]
    /\ UNCHANGED <<ackVars, seqVars, reliable, recvVars, net, loads, accepted>>

\* Netchan_CreateFileFragments and ...FromBuffer, with their callers' push.
CreateFileFragments(e, name, len, inMemory) ==
    /\ Enqueue(e, [waitlist[e] EXCEPT !["file"] =
                      Append(@, FileFragments(name, len, inMemory))], TRUE)
    /\ UNCHANGED <<ackVars, seqVars, message, overflowed, reliable, recvVars,
                   net, loads, accepted>>

(***************************************************************************)
(* Netchan_TransmitBits.  The payload is made of the regular data and of   *)
(* the first fragment of each current list, as long as they fit together.  *)
(***************************************************************************)
Takes(f, s, used) == f[s] # <<>> /\ used + Len(Head(f[s]).data) < MaxFragment

TakenFragment(f, n, s) ==
    [id |-> Head(f[s]).bufferid, count |-> n[s], data |-> Head(f[s]).data]

LoadedPayload(regular, f, n) ==
    LET normal == Takes(f, "normal", Len(regular))
        used   == Len(regular) + IF normal THEN Len(Head(f["normal"]).data) ELSE 0
        taken(s) == IF s = "normal" THEN normal ELSE Takes(f, "file", used)
    IN  [regular |-> regular,
         frag |-> [s \in Stream |-> IF taken(s) THEN TakenFragment(f, n, s)
                                               ELSE NoFragment]]

\* Mutant: the fragment is unlinked although it did not fit.
UnlinkedAlways(f, payload) ==
    [s \in Stream |-> IF f[s] # <<>> THEN Tail(f[s]) ELSE f[s]]

\* The fragments that are in the payload leave their lists.
Unlinked(f, payload) ==
    [s \in Stream |-> IF payload.frag[s] # NoFragment THEN Tail(f[s]) ELSE f[s]]

\* Mutant: regular data does not wait.
StalledNever(e, f) == FALSE

\* Regular data waits while a fragment of the normal stream is to be sent.
Stalled(e, f) == message[e] # <<>> /\ f["normal"] # <<>>

\* Mutants: a later acknowledgement is enough; the wrong parity is enough.
ReliableDroppedAnyParity(e) == incoming_acknowledged[e] > last_reliable_sequence[e]
ReliableDroppedAnyTime(e) ==
    incoming_reliable_acknowledged[e] # reliable_sequence[e]

\* The peer acknowledged a later packet with the wrong parity.
ReliableDropped(e) ==
    /\ incoming_acknowledged[e] > last_reliable_sequence[e]
    /\ incoming_reliable_acknowledged[e] # reliable_sequence[e]

\* The reliable buffer is free: load the next payload, if there is any.
LoadReliable(e, length) ==
    LET w == SentWaitlist(waitlist[e], fragbufs[e])
        f == SentFragbufs(waitlist[e], fragbufs[e])
        n == SentCount(waitlist[e], fragbufs[e], fragbufcount[e])
        requeue == /\ Stalled(e, f)
                   /\ Len(message[e]) + length > MaxReliablePayload
        regular == IF Stalled(e, f) THEN <<>> ELSE message[e]
        payload == LoadedPayload(regular, f, n)
        loading == regular # <<>> \/ \E s \in Stream : f[s] # <<>>
    IN  /\ waitlist' = [waitlist EXCEPT ![e] =
                          IF requeue
                          THEN [w EXCEPT !["normal"] = QueueBlock(@, message[e])]
                          ELSE w]
        /\ fragbufs' = [fragbufs EXCEPT ![e] = Unlinked(f, payload)]
        /\ fragbufcount' = [fragbufcount EXCEPT ![e] = n]
        /\ message' = [message EXCEPT ![e] =
                          IF requeue \/ regular # <<>> THEN <<>> ELSE @]
        /\ reliable' = [reliable EXCEPT ![e] = payload]
        /\ reliable_sequence' = [reliable_sequence EXCEPT ![e] =
                                    IF loading THEN 1 - @ ELSE @]
        /\ loads' = [loads EXCEPT ![e] =
                        IF loading THEN Append(@, payload) ELSE @]
        /\ UNCHANGED overflowed

KeepReliable(e) == UNCHANGED <<queueVars, reliable, reliable_sequence, loads>>

\* The packet header and body, after the reliable buffer is settled.
SentPacket(e, length, send_reliable) ==
    [from |-> e, seq |-> outgoing_sequence[e], reliable |-> send_reliable,
     ack |-> incoming_sequence[e],
     reliable_ack |-> incoming_reliable_sequence[e],
     payload |-> IF send_reliable THEN reliable'[e] ELSE EmptyPayload,
     unreliable |-> length > 0]

TransmitBits(e, length) ==
    /\ ~overflowed[e]
    /\ IF reliable[e] = EmptyPayload THEN LoadReliable(e, length)
                                     ELSE KeepReliable(e)
    /\ LET send_reliable == \/ ReliableDropped(e)
                            \/ reliable_sequence'[e] # reliable_sequence[e]
       IN  /\ net' = net \union {SentPacket(e, length, send_reliable)}
           /\ last_reliable_sequence' = [last_reliable_sequence EXCEPT ![e] =
                  IF send_reliable THEN outgoing_sequence[e] ELSE @]
    /\ outgoing_sequence' = [outgoing_sequence EXCEPT ![e] = @ + 1]
    /\ UNCHANGED <<ackVars, recvVars, accepted>>

\* A held back user command uses up a sequence number (CL_WritePacket).
HoldBack(e) ==
    /\ outgoing_sequence' = [outgoing_sequence EXCEPT ![e] = @ + 1]
    /\ UNCHANGED <<ackVars, reliable_sequence, last_reliable_sequence,
                   queueVars, reliable, recvVars, net, loads, accepted>>

-----------------------------------------------------------------------------
(***************************************************************************)
(* Operations of the receiver.                                             *)
(***************************************************************************)
\* Netchan_Process drops stale and duplicate packets, and, on a channel
\* without a cookie, packets too far ahead of the last one.
InWindow(e, p) ==
    \/ UseCookie
    \/ incoming_sequence[e] = 0
    \/ SequenceWindow = 0
    \/ p.seq <= incoming_sequence[e] + SequenceWindow

\* Mutant: duplicates are let through.
AcceptableTwice(e, p) == p.seq >= incoming_sequence[e] /\ InWindow(e, p)

Acceptable(e, p) == p.seq > incoming_sequence[e] /\ InWindow(e, p)

\* Mutant: the parity is not compared.
AcknowledgesAnyParity(e, p) == p.ack >= last_reliable_sequence[e]

\* The current reliable payload is acknowledged by p.
Acknowledges(e, p) ==
    /\ p.reliable_ack = reliable_sequence[e]
    /\ p.ack >= last_reliable_sequence[e]

\* Mutant: the parity is set, not flipped.
ParityAfterSet(e, p) == IF p.reliable THEN 1 ELSE incoming_reliable_sequence[e]

\* A reliable packet flips the parity that is acknowledged.
ParityAfter(e, p) == IF p.reliable THEN 1 - incoming_reliable_sequence[e]
                                   ELSE incoming_reliable_sequence[e]

\* Mutant: in front of all others.
AddBufferInFront(list, buf) == <<buf>> \o list

\* Netchan_AddBufferToList: in front of the first later buffer, but never in
\* front of the head.
AddBufferToList(list, buf) ==
    LET ahead == {i \in DOMAIN list : \A j \in 2 .. i : list[j].id <= buf.id}
        place == Cardinality(ahead) + 1
    IN  [i \in 1 .. Len(list) + 1 |-> IF i < place THEN list[i]
                                      ELSE IF i = place THEN buf ELSE list[i - 1]]

\* Netchan_FindBufferById: the buffer with the same id, if there is one, is
\* written over; so the ids of a list stay distinct.
SameId(a, b) == a.id = b.id /\ a.count = b.count

StoreFragment(list, frag) ==
    IF \E i \in DOMAIN list : SameId(list[i], frag)
    THEN [i \in DOMAIN list |-> IF SameId(list[i], frag) THEN frag ELSE list[i]]
    ELSE IF Len(list) >= MaxFragbufs THEN list
    ELSE AddBufferToList(list, frag)

StoredBufs(bufs, frag) ==
    [s \in Stream |-> IF frag[s] = NoFragment THEN bufs[s]
                      ELSE StoreFragment(bufs[s], frag[s])]

\* Netchan_CheckForCompletion: all there, or one out of its place.
StoredReady(ready, bufs, frag) ==
    [s \in Stream |-> \/ ready[s]
                      \/ /\ frag[s] # NoFragment
                         /\ bufs[s] # <<>>
                         /\ Len(bufs[s]) = frag[s].count]

OutOfPlace(bufs, frag) ==
    \E s \in Stream : /\ frag[s] # NoFragment
                      /\ \E i \in DOMAIN bufs[s] : bufs[s][i].id # i

\* What Netchan_Process returns: FALSE if only fragments were in the packet.
LeavesPayload(p) ==
    \/ \A s \in Stream : p.payload.frag[s] = NoFragment
    \/ p.payload.regular # <<>>
    \/ p.unreliable

\* The lists of e after Netchan_Process has stored p's fragments.
BufsAfter(e, p)  == StoredBufs(incomingbufs[e], p.payload.frag)
ReadyAfter(e, p) == StoredReady(incomingready[e], BufsAfter(e, p), p.payload.frag)

\* Netchan_Process, followed, for the streams in `copied', by the emptying of
\* the list in Netchan_CopyNormalFragments or Netchan_CopyFileFragments.
Process(e, p, copied) ==
    /\ p.from = Other(e)
    /\ Acceptable(e, p)
    /\ reliable' = [reliable EXCEPT ![e] =
                       IF Acknowledges(e, p) THEN EmptyPayload ELSE @]
    /\ incoming_sequence' = [incoming_sequence EXCEPT ![e] = p.seq]
    /\ incoming_acknowledged' = [incoming_acknowledged EXCEPT ![e] = p.ack]
    /\ incoming_reliable_acknowledged' =
           [incoming_reliable_acknowledged EXCEPT ![e] = p.reliable_ack]
    /\ incoming_reliable_sequence' = [incoming_reliable_sequence EXCEPT ![e] =
                                         ParityAfter(e, p)]
    /\ accepted' = [accepted EXCEPT ![e] =
                       IF p.reliable THEN Append(@, p.payload) ELSE @]
    /\ incomingbufs' = [incomingbufs EXCEPT ![e] =
           [s \in Stream |-> IF s \in copied THEN <<>> ELSE BufsAfter(e, p)[s]]]
    /\ incomingready' = [incomingready EXCEPT ![e] =
           [s \in Stream |-> s \notin copied /\ ReadyAfter(e, p)[s]]]
    /\ UNCHANGED <<seqVars, queueVars, net, loads>>

\* Copying outside of Netchan_Process, at the end of CL_ReadNetMessage.
CopyFragments(e, copied) ==
    /\ incomingbufs' = [incomingbufs EXCEPT ![e] =
           [s \in Stream |-> IF s \in copied THEN <<>> ELSE @[s]]]
    /\ incomingready' = [incomingready EXCEPT ![e] =
           [s \in Stream |-> s \notin copied /\ @[s]]]
    /\ UNCHANGED <<ackVars, seqVars, queueVars, reliable, net, loads, accepted>>

\* The data of a list of fragments, in the order of the list.
Reassembled(list) == FlattenSeq([i \in DOMAIN list |-> list[i].data])

-----------------------------------------------------------------------------
(***************************************************************************)
(* Netchan_Setup at both ends.  The client starts at 1, the server at a    *)
(* random sequence number.                                                 *)
(***************************************************************************)
ChannelInit(serverSequence) ==
    /\ incoming_sequence = [e \in Peer |-> 0]
    /\ incoming_acknowledged = [e \in Peer |-> 0]
    /\ incoming_reliable_acknowledged = [e \in Peer |-> 0]
    /\ incoming_reliable_sequence = [e \in Peer |-> 0]
    /\ outgoing_sequence = [e \in Peer |-> IF e = "client" THEN 1 ELSE serverSequence]
    /\ reliable_sequence = [e \in Peer |-> 0]
    /\ last_reliable_sequence = [e \in Peer |-> 0]
    /\ message = [e \in Peer |-> <<>>]
    /\ overflowed = [e \in Peer |-> FALSE]
    /\ reliable = [e \in Peer |-> EmptyPayload]
    /\ waitlist = [e \in Peer |-> [s \in Stream |-> <<>>]]
    /\ fragbufs = [e \in Peer |-> [s \in Stream |-> <<>>]]
    /\ fragbufcount = [e \in Peer |-> [s \in Stream |-> 0]]
    /\ incomingbufs = [e \in Peer |-> [s \in Stream |-> <<>>]]
    /\ incomingready = [e \in Peer |-> [s \in Stream |-> FALSE]]
    /\ net = {}
    /\ loads = [e \in Peer |-> <<>>]
    /\ accepted = [e \in Peer |-> <<>>]
-----------------------------------------------------------------------------
(***************************************************************************)
(* Properties of the channel.                                              *)
(***************************************************************************)
Bit == {0, 1}

\* The variables hold values of their types.
ChannelTypeOK ==
    /\ incoming_sequence \in [Peer -> Nat]
    /\ incoming_acknowledged \in [Peer -> Nat]
    /\ incoming_reliable_acknowledged \in [Peer -> Bit]
    /\ incoming_reliable_sequence \in [Peer -> Bit]
    /\ outgoing_sequence \in [Peer -> Nat \ {0}]
    /\ reliable_sequence \in [Peer -> Bit]
    /\ last_reliable_sequence \in [Peer -> Nat]
    /\ message \in [Peer -> Seq(Unit)]
    /\ overflowed \in [Peer -> BOOLEAN]
    /\ reliable \in [Peer -> Payload]
    /\ waitlist \in [Peer -> [Stream -> Seq(Seq(Fragbuf))]]
    /\ fragbufs \in [Peer -> [Stream -> Seq(Fragbuf)]]
    /\ fragbufcount \in [Peer -> [Stream -> Nat]]
    /\ incomingbufs \in [Peer -> [Stream -> Seq(Fragment)]]
    /\ incomingready \in [Peer -> [Stream -> BOOLEAN]]
    /\ net \in SUBSET Packet
    /\ loads \in [Peer -> Seq(Payload)]
    /\ accepted \in [Peer -> Seq(Payload)]

\* Sequence numbers only ever name packets that were sent.
SequencesSent(e) ==
    LET f == Other(e)
    IN  /\ incoming_sequence[f] < outgoing_sequence[e]
        /\ last_reliable_sequence[e] < outgoing_sequence[e]
        /\ incoming_acknowledged[e] <= incoming_sequence[f]
        /\ \A p \in net : p.from = e => p.seq < outgoing_sequence[e]
        /\ \A q \in net : q.from = f => q.ack <= incoming_sequence[f]

\* The receiver has accepted all payloads that were loaded, or all but the
\* one in the sender's buffer; the parities of both ends tell which.
AtMostOneOutstanding(e) ==
    LET f == Other(e)
    IN  \/ /\ accepted[f] = loads[e]
           /\ incoming_reliable_sequence[f] = reliable_sequence[e]
        \/ /\ loads[e] = Append(accepted[f], reliable[e])
           /\ reliable[e] # EmptyPayload
           /\ incoming_reliable_sequence[f] # reliable_sequence[e]

\* A reliable packet the receiver may still accept is the latest transmission
\* of the outstanding payload.
FreshIsOutstanding(e) ==
    LET f == Other(e)
    IN  \A p \in net :
            p.from = e /\ p.reliable /\ p.seq > incoming_sequence[f] =>
                /\ p.seq = last_reliable_sequence[e]
                /\ p.payload = reliable[e]
                /\ incoming_reliable_sequence[f] # reliable_sequence[e]

\* An acknowledgement that covers the latest transmission reports the
\* receiver's present parity, however old the packet is that carries it.
AcksCurrent(e) ==
    LET f == Other(e)
    IN  /\ \A q \in net :
               q.from = f /\ q.ack >= last_reliable_sequence[e] =>
                   q.reliable_ack = incoming_reliable_sequence[f]
        /\ incoming_acknowledged[e] >= last_reliable_sequence[e] =>
               incoming_reliable_acknowledged[e] = incoming_reliable_sequence[f]

\* The inductive invariant: the alternating bit of the header comment of
\* net_chan.c, with the sequence numbers that make it safe when datagrams are
\* lost, duplicated and reordered.
ReliableInv ==
    \A e \in Peer : /\ SequencesSent(e)
                    /\ AtMostOneOutstanding(e)
                    /\ FreshIsOutstanding(e)
                    /\ AcksCurrent(e)

\* Every reliable payload is accepted at most once, in the order of loading:
\* no datagram the network delivers late or twice makes the receiver skip one
\* or take one again.
ExactlyOnce == \A e \in Peer : IsPrefix(accepted[Other(e)], loads[e])

\* "If the sender notices that a reliable message has been dropped, it will be
\* retransmitted": it does so only for a payload that the peer has not got,
\* and only after the peer got a later packet than the last transmission.
OnlyLostIsSentAgain ==
    [][\A e \in Peer :
          (/\ last_reliable_sequence'[e] # last_reliable_sequence[e]
           /\ loads'[e] = loads[e])
          => /\ Len(accepted[Other(e)]) < Len(loads[e])
             /\ incoming_sequence[Other(e)] > last_reliable_sequence[e]]_chanVars

\* The reliable buffer is given up only when the peer has accepted it.
OnlyAcceptedIsCleared ==
    [][\A e \in Peer :
          (reliable[e] # EmptyPayload /\ reliable'[e] # reliable[e])
          => Len(accepted[Other(e)]) = Len(loads[e])]_chanVars

(***************************************************************************)
(* The channel is a reliable stream of payloads in each direction.         *)
(***************************************************************************)
Reliable == INSTANCE ReliableStream WITH sent <- loads, received <- accepted

ImplementsStream == Reliable!Spec
=============================================================================
