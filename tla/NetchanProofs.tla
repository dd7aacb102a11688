----------------------------- MODULE NetchanProofs -----------------------------
(***************************************************************************)
(* Proofs about the channel run by its two hosts.                          *)
(***************************************************************************)
EXTENDS NetchanHosts, FiniteSetTheorems, TLAPS

-----------------------------------------------------------------------------
(***************************************************************************)
(* Cutting data into fragments.                                            *)
(***************************************************************************)
\* The i-th fragment is a nonempty stretch of the data, at most a chunk long.
LEMMA FragmentBounds ==
    ASSUME NEW len \in Nat, NEW first \in 1 .. ChunkSize, first <= len,
           NEW i \in 1 .. FragmentCount(len, first)
    PROVE  LET lo == FragmentStart(i, first)
               hi == FragmentEnd(i, len, first)
           IN  lo \in 1 .. len /\ hi \in lo .. len /\ hi - lo + 1 <= ChunkSize
<1>. DEFINE c == (len - first + ChunkSize - 1) \div ChunkSize
<1>1. ChunkSize \in Nat \ {0} /\ i \in Nat \ {0}
  BY ChunkAssumption DEF FragmentCount
<1>2. c \in Nat /\ i <= 1 + c
  BY <1>1, ChunkAssumption DEF FragmentCount
<1>3. ChunkSize * c <= len - first + ChunkSize - 1
  BY <1>1
<1>4. (i - 1) * ChunkSize <= ChunkSize * c
  BY <1>1, <1>2
<1>5. (i - 1) * ChunkSize \in Nat /\ (i - 1) * ChunkSize = (i - 2) * ChunkSize + ChunkSize
  BY <1>1
<1>6. i # 1 => (i - 2) * ChunkSize \in Nat
  BY <1>1
<1>. HIDE DEF c
<1>7. CASE i = 1
  BY <1>1, <1>7 DEF FragmentStart, FragmentEnd, Least
<1>8. CASE i # 1
  BY <1>1, <1>2, <1>3, <1>4, <1>5, <1>6, <1>8 DEF FragmentStart, FragmentEnd, Least
<1>. QED BY <1>7, <1>8

\* Cutting yields a nonempty list of fragment buffers.
LEMMA FragmentsType ==
    ASSUME NEW data \in Seq(Unit), NEW first \in 1 .. ChunkSize, first <= Len(data)
    PROVE  Fragments(data, first) \in Seq(Fragbuf) /\ Fragments(data, first) # <<>>
<1>. DEFINE n == FragmentCount(Len(data), first)
            piece(i) == SubSeq(data, FragmentStart(i, first),
                               FragmentEnd(i, Len(data), first))
<1>1. n \in Nat /\ n >= 1
  BY ChunkAssumption DEF FragmentCount
<1>2. ASSUME NEW i \in 1 .. n PROVE [bufferid |-> i, data |-> piece(i)] \in Fragbuf
  <2>1. LET lo == FragmentStart(i, first)
            hi == FragmentEnd(i, Len(data), first)
        IN  lo \in 1 .. Len(data) /\ hi \in lo .. Len(data) /\ hi - lo + 1 <= ChunkSize
    BY FragmentBounds
  <2>2. piece(i) \in Seq(Unit) /\ Len(piece(i)) \in 1 .. ChunkSize
    BY <2>1, ChunkAssumption
  <2>3. piece(i) \in Chunk
    BY <2>2 DEF Chunk
  <2>. QED BY <2>3, <1>1 DEF Fragbuf
<1>3. Fragments(data, first) = [i \in 1 .. n |-> [bufferid |-> i, data |-> piece(i)]]
  BY DEF Fragments
<1>. HIDE DEF n, piece
<1>. QED BY <1>1, <1>2, <1>3

-----------------------------------------------------------------------------
(***************************************************************************)
(* Type correctness of the operators and of each operation.                *)
(***************************************************************************)
LEMMA QueueBlockType ==
    ASSUME NEW w \in Seq(Seq(Fragbuf)), NEW msg \in Seq(Unit)
    PROVE  QueueBlock(w, msg) \in Seq(Seq(Fragbuf))
<1>1. CASE msg = <<>>
  BY <1>1 DEF QueueBlock
<1>2. CASE msg # <<>>
  <2>1. Least(Len(msg), ChunkSize) \in 1 .. ChunkSize /\ Least(Len(msg), ChunkSize) <= Len(msg)
    BY <1>2, ChunkAssumption DEF Least
  <2>2. MessageFragments(msg) \in Seq(Fragbuf)
    BY <2>1, FragmentsType DEF MessageFragments
  <2>. QED BY <1>2, <2>2 DEF QueueBlock
<1>. QED BY <1>1, <1>2

LEMMA FileFragmentsType ==
    ASSUME NEW name \in FileName, NEW len \in Nat \ {0}, NEW inMemory \in BOOLEAN
    PROVE  FileFragments(name, len, inMemory) \in Seq(Fragbuf)
<1>. DEFINE units == FileUnits(name, len)
            first == Least(IF inMemory THEN len ELSE len + 1, ChunkSize)
<1>1. units \in Seq(Unit) /\ Len(units) = len + 1
  BY DEF FileUnits, Unit
<1>2. first \in 1 .. ChunkSize /\ first <= len + 1
  BY ChunkAssumption DEF Least
<1>. HIDE DEF units, first
<1>3. Fragments(units, first) \in Seq(Fragbuf)
  BY <1>1, <1>2, FragmentsType
<1>. QED BY <1>3 DEF FileFragments, units, first

\* The outgoing lists of one peer are well formed.
Waitlists  == [Stream -> Seq(Seq(Fragbuf))]
Fraglists  == [Stream -> Seq(Fragbuf)]
Counts     == [Stream -> Nat]

LEMMA PushType ==
    ASSUME NEW w \in Waitlists, NEW f \in Fraglists, NEW n \in Counts
    PROVE  /\ SentWaitlist(w, f) \in Waitlists
           /\ SentFragbufs(w, f) \in Fraglists
           /\ SentCount(w, f, n) \in Counts
<1>1. ASSUME NEW s \in Stream, MovesUp(w, f, s)
      PROVE  /\ Tail(w[s]) \in Seq(Seq(Fragbuf))
             /\ Head(w[s]) \in Seq(Fragbuf)
             /\ Len(Head(w[s])) \in Nat
  BY <1>1 DEF MovesUp, Waitlists
<1>. QED BY <1>1 DEF SentWaitlist, SentFragbufs, SentCount, Waitlists, Fraglists, Counts

LEMMA EnqueueType ==
    ASSUME ChannelTypeOK, NEW e \in Peer, NEW w \in Waitlists,
           NEW push \in BOOLEAN, Enqueue(e, w, push)
    PROVE  /\ waitlist' \in [Peer -> Waitlists]
           /\ fragbufs' \in [Peer -> Fraglists]
           /\ fragbufcount' \in [Peer -> Counts]
<1>1. /\ waitlist \in [Peer -> Waitlists]
      /\ fragbufs \in [Peer -> Fraglists]
      /\ fragbufcount \in [Peer -> Counts]
  BY DEF ChannelTypeOK, Waitlists, Fraglists, Counts
<1>2. /\ SentWaitlist(w, fragbufs[e]) \in Waitlists
      /\ SentFragbufs(w, fragbufs[e]) \in Fraglists
      /\ SentCount(w, fragbufs[e], fragbufcount[e]) \in Counts
  BY <1>1, PushType
<1>. QED BY <1>1, <1>2 DEF Enqueue

\* A loaded payload is a payload, and it is not empty if there was anything
\* to load: this is what the bound ChunkSize < MaxFragment is for.
LEMMA LoadedPayloadType ==
    ASSUME NEW regular \in Seq(Unit), NEW f \in Fraglists, NEW n \in Counts
    PROVE  /\ LoadedPayload(regular, f, n) \in Payload
           /\ (regular # <<>> \/ \E s \in Stream : f[s] # <<>>)
                  => LoadedPayload(regular, f, n) # EmptyPayload
           /\ \A s \in Stream : LoadedPayload(regular, f, n).frag[s] # NoFragment
                                   => f[s] # <<>>
<1>. DEFINE p == LoadedPayload(regular, f, n)
<1>1. ASSUME NEW s \in Stream, f[s] # <<>>
      PROVE  /\ TakenFragment(f, n, s) \in Fragment
             /\ TakenFragment(f, n, s) # NoFragment
             /\ Len(Head(f[s]).data) \in 1 .. ChunkSize
  <2>1. Head(f[s]) \in Fragbuf
    BY <1>1 DEF Fraglists
  <2>2. Head(f[s]).bufferid \in Nat \ {0} /\ Head(f[s]).data \in Chunk
    BY <2>1 DEF Fragbuf
  <2>3. Len(Head(f[s]).data) \in 1 .. ChunkSize
    BY <2>2, ChunkAssumption DEF Chunk
  <2>. QED BY <2>2, <2>3 DEF TakenFragment, Fragment, NoFragment, Counts
<1>2. p.regular = regular
  BY DEF LoadedPayload
<1>3. \A s \in Stream : \/ p.frag[s] = NoFragment
                        \/ f[s] # <<>> /\ p.frag[s] = TakenFragment(f, n, s)
  BY DEF LoadedPayload, Takes, Stream
<1>4. p \in Payload
  BY <1>1, <1>3 DEF LoadedPayload, Payload
<1>5. \A s \in Stream : p.frag[s] # NoFragment => f[s] # <<>>
  BY <1>3
<1>6. ASSUME regular # <<>> \/ \E s \in Stream : f[s] # <<>>
      PROVE  p # EmptyPayload
  <2>1. CASE regular # <<>>
    BY <2>1, <1>2 DEF EmptyPayload
  <2>2. CASE regular = <<>> /\ f["normal"] # <<>>
    <3>1. Takes(f, "normal", Len(regular))
      BY <2>2, <1>1, PayloadAssumption, ChunkAssumption DEF Takes, Stream
    <3>2. p.frag["normal"] = TakenFragment(f, n, "normal")
      BY <3>1 DEF LoadedPayload, Stream
    <3>3. p.frag["normal"] # NoFragment
      BY <3>2, <2>2, <1>1 DEF Stream
    <3>. QED BY <3>3 DEF EmptyPayload, Stream
  <2>3. CASE regular = <<>> /\ f["normal"] = <<>> /\ f["file"] # <<>>
    <3>1. Takes(f, "file", 0) /\ ~Takes(f, "normal", Len(regular))
      BY <2>3, <1>1, PayloadAssumption, ChunkAssumption DEF Takes, Stream
    <3>2. p.frag["file"] = TakenFragment(f, n, "file")
      BY <3>1, <2>3 DEF LoadedPayload, Stream
    <3>3. p.frag["file"] # NoFragment
      BY <3>2, <2>3, <1>1 DEF Stream
    <3>. QED BY <3>3 DEF EmptyPayload, Stream
  <2>. QED BY <1>6, <2>1, <2>2, <2>3 DEF Stream
<1>. QED BY <1>4, <1>5, <1>6

-----------------------------------------------------------------------------
(***************************************************************************)
(* Each operation of the channel keeps the types.                          *)
(***************************************************************************)
LEMMA WriteMessageType ==
    ASSUME ChannelTypeOK, NEW e \in Peer, NEW msg \in Seq(Unit),
           WriteMessage(e, msg)
    PROVE  ChannelTypeOK'
<1>1. message' \in [Peer -> Seq(Unit)]
  <2>1. message[e] \o msg \in Seq(Unit)
    BY DEF ChannelTypeOK
  <2>. QED BY <2>1 DEF ChannelTypeOK, WriteMessage
<1>2. overflowed' \in [Peer -> BOOLEAN]
  BY DEF ChannelTypeOK, WriteMessage
<1>. QED BY <1>1, <1>2 DEF ChannelTypeOK, WriteMessage, ackVars, seqVars, recvVars

LEMMA CreateFragmentsType ==
    ASSUME ChannelTypeOK, NEW e \in Peer, NEW msg \in Seq(Unit),
           NEW push \in BOOLEAN, CreateFragments(e, msg, push)
    PROVE  ChannelTypeOK'
<1>. DEFINE pending == QueueBlock(waitlist[e]["normal"], message[e])
            w == [waitlist[e] EXCEPT !["normal"] = QueueAhead(@, message[e], msg)]
<1>1. waitlist[e] \in Waitlists /\ message[e] \in Seq(Unit)
  BY DEF ChannelTypeOK, Waitlists
<1>2. pending \in Seq(Seq(Fragbuf))
  BY <1>1, QueueBlockType DEF Waitlists, Stream
<1>. HIDE DEF pending
<1>3. w \in Waitlists
  <2>1. QueueBlock(pending, msg) \in Seq(Seq(Fragbuf))
    BY <1>2, QueueBlockType
  <2>2. w = [waitlist[e] EXCEPT !["normal"] = QueueBlock(pending, msg)]
    BY DEF QueueAhead, pending
  <2>. QED BY <1>1, <2>1, <2>2 DEF Waitlists
<1>4. Enqueue(e, w, push)
  BY DEF CreateFragments
<1>. HIDE DEF w
<1>5. /\ waitlist' \in [Peer -> Waitlists]
      /\ fragbufs' \in [Peer -> Fraglists]
      /\ fragbufcount' \in [Peer -> Counts]
  BY <1>3, <1>4, EnqueueType
<1>6. message' \in [Peer -> Seq(Unit)] /\ overflowed' \in [Peer -> BOOLEAN]
  BY DEF CreateFragments, ChannelTypeOK
<1>. QED BY <1>5, <1>6 DEF CreateFragments, ChannelTypeOK, Waitlists, Fraglists,
                            Counts, ackVars, seqVars, recvVars

LEMMA CreateFileFragmentsType ==
    ASSUME ChannelTypeOK, NEW e \in Peer, NEW name \in FileName,
           NEW len \in Nat \ {0}, NEW inMemory \in BOOLEAN,
           CreateFileFragments(e, name, len, inMemory)
    PROVE  ChannelTypeOK'
<1>. DEFINE w == [waitlist[e] EXCEPT !["file"] =
                     Append(@, FileFragments(name, len, inMemory))]
<1>1. FileFragments(name, len, inMemory) \in Seq(Fragbuf)
  BY FileFragmentsType
<1>2. w \in Waitlists
  BY <1>1 DEF ChannelTypeOK, Waitlists, Stream
<1>3. Enqueue(e, w, TRUE)
  BY DEF CreateFileFragments
<1>. HIDE DEF w
<1>4. /\ waitlist' \in [Peer -> Waitlists]
      /\ fragbufs' \in [Peer -> Fraglists]
      /\ fragbufcount' \in [Peer -> Counts]
  BY <1>2, <1>3, EnqueueType
<1>. QED BY <1>4 DEF CreateFileFragments, ChannelTypeOK, Waitlists, Fraglists,
                     Counts, ackVars, seqVars, recvVars

\* Payload p has been loaded by peer e.
Loaded(e, p) ==
    /\ p # EmptyPayload
    /\ reliable' = [reliable EXCEPT ![e] = p]
    /\ reliable_sequence' = [reliable_sequence EXCEPT ![e] = 1 - @]
    /\ loads' = [loads EXCEPT ![e] = Append(@, p)]

\* What loading does to the buffers of a peer: it fills the reliable buffer
\* and flips the parity together, or does neither.
LEMMA LoadReliableFacts ==
    ASSUME ChannelTypeOK, NEW e \in Peer, NEW length \in Nat,
           reliable[e] = EmptyPayload, LoadReliable(e, length)
    PROVE  /\ message' \in [Peer -> Seq(Unit)]
           /\ waitlist' \in [Peer -> Waitlists]
           /\ fragbufs' \in [Peer -> Fraglists]
           /\ fragbufcount' \in [Peer -> Counts]
           /\ overflowed' = overflowed
           /\ \/ \E p \in Payload : Loaded(e, p)
              \/ UNCHANGED <<reliable, reliable_sequence, loads>>
<1>. DEFINE w == SentWaitlist(waitlist[e], fragbufs[e])
            f == SentFragbufs(waitlist[e], fragbufs[e])
            n == SentCount(waitlist[e], fragbufs[e], fragbufcount[e])
            requeue == /\ Stalled(e, f)
                       /\ Len(message[e]) + length > MaxReliablePayload
            regular == IF Stalled(e, f) THEN <<>> ELSE message[e]
            payload == LoadedPayload(regular, f, n)
            loading == regular # <<>> \/ \E s \in Stream : f[s] # <<>>
<1>1. /\ waitlist[e] \in Waitlists
      /\ fragbufs[e] \in Fraglists
      /\ fragbufcount[e] \in Counts
      /\ message[e] \in Seq(Unit)
  BY DEF ChannelTypeOK, Waitlists, Fraglists, Counts
<1>2. w \in Waitlists /\ f \in Fraglists /\ n \in Counts
  BY <1>1, PushType
<1>3. /\ waitlist' = [waitlist EXCEPT ![e] =
                IF requeue THEN [w EXCEPT !["normal"] = QueueBlock(@, message[e])]
                ELSE w]
      /\ fragbufs' = [fragbufs EXCEPT ![e] =
                [s \in Stream |-> IF payload.frag[s] # NoFragment
                                  THEN Tail(f[s]) ELSE f[s]]]
      /\ fragbufcount' = [fragbufcount EXCEPT ![e] = n]
      /\ message' = [message EXCEPT ![e] =
                        IF requeue \/ regular # <<>> THEN <<>> ELSE @]
      /\ reliable' = [reliable EXCEPT ![e] = payload]
      /\ reliable_sequence' = [reliable_sequence EXCEPT ![e] =
                                  IF loading THEN 1 - @ ELSE @]
      /\ loads' = [loads EXCEPT ![e] = IF loading THEN Append(@, payload) ELSE @]
      /\ overflowed' = overflowed
  BY DEF LoadReliable, Unlinked
<1>4. regular \in Seq(Unit)
  BY <1>1
<1>. HIDE DEF w, f, n, requeue, regular
<1>5. /\ payload \in Payload
      /\ loading => payload # EmptyPayload
      /\ \A s \in Stream : payload.frag[s] # NoFragment => f[s] # <<>>
  BY <1>2, <1>4, LoadedPayloadType
<1>6. ~loading => payload = EmptyPayload
  BY DEF LoadedPayload, Takes, EmptyPayload, Stream
<1>. HIDE DEF payload
<1>7. message' \in [Peer -> Seq(Unit)] /\ overflowed' = overflowed
  BY <1>3 DEF ChannelTypeOK
<1>8. waitlist' \in [Peer -> Waitlists]
  <2>1. [w EXCEPT !["normal"] = QueueBlock(@, message[e])] \in Waitlists
    BY <1>1, <1>2, QueueBlockType DEF Waitlists, Stream
  <2>. QED BY <1>2, <1>3, <2>1 DEF ChannelTypeOK, Waitlists
<1>9. fragbufs' \in [Peer -> Fraglists]
  <2>1. [s \in Stream |-> IF payload.frag[s] # NoFragment
                          THEN Tail(f[s]) ELSE f[s]] \in Fraglists
    BY <1>2, <1>5 DEF Fraglists
  <2>. QED BY <1>3, <2>1 DEF ChannelTypeOK, Fraglists
<1>10. fragbufcount' \in [Peer -> Counts]
  BY <1>2, <1>3 DEF ChannelTypeOK, Counts
<1>11. ASSUME loading PROVE Loaded(e, payload)
  BY <1>3, <1>5, <1>11 DEF Loaded
<1>12. ASSUME ~loading PROVE UNCHANGED <<reliable, reliable_sequence, loads>>
  <2>1. reliable' = reliable
    BY <1>3, <1>6, <1>12 DEF ChannelTypeOK
  <2>2. reliable_sequence' = reliable_sequence
    BY <1>3, <1>12 DEF ChannelTypeOK
  <2>3. loads' = loads
    BY <1>3, <1>12 DEF ChannelTypeOK
  <2>. QED BY <2>1, <2>2, <2>3
<1>. QED BY <1>5, <1>7, <1>8, <1>9, <1>10, <1>11, <1>12

LEMMA TransmitFacts ==
    ASSUME ChannelTypeOK, NEW e \in Peer, NEW length \in Nat,
           TransmitBits(e, length)
    PROVE  /\ ChannelTypeOK'
           /\ \/ reliable[e] = EmptyPayload /\ \E p \in Payload : Loaded(e, p)
              \/ UNCHANGED <<reliable, reliable_sequence, loads>>
<1>1. /\ message' \in [Peer -> Seq(Unit)]
      /\ waitlist' \in [Peer -> Waitlists]
      /\ fragbufs' \in [Peer -> Fraglists]
      /\ fragbufcount' \in [Peer -> Counts]
      /\ overflowed' = overflowed
      /\ \/ reliable[e] = EmptyPayload /\ \E p \in Payload : Loaded(e, p)
         \/ UNCHANGED <<reliable, reliable_sequence, loads>>
  <2>1. CASE reliable[e] = EmptyPayload
    <3>1. LoadReliable(e, length)
      BY <2>1 DEF TransmitBits
    <3>. QED BY <2>1, <3>1, LoadReliableFacts
  <2>2. CASE reliable[e] # EmptyPayload
    <3>1. KeepReliable(e)
      BY <2>2 DEF TransmitBits
    <3>. QED BY <3>1 DEF KeepReliable, queueVars, ChannelTypeOK, Waitlists,
                         Fraglists, Counts
  <2>. QED BY <2>1, <2>2
<1>2. /\ reliable' \in [Peer -> Payload]
      /\ reliable_sequence' \in [Peer -> Bit]
      /\ loads' \in [Peer -> Seq(Payload)]
  <2>1. ASSUME NEW p \in Payload, Loaded(e, p)
        PROVE  /\ reliable' \in [Peer -> Payload]
               /\ reliable_sequence' \in [Peer -> Bit]
               /\ loads' \in [Peer -> Seq(Payload)]
    <3>1. loads' = [loads EXCEPT ![e] = Append(loads[e], p)] /\ loads \in [Peer -> Seq(Payload)]
      BY <2>1 DEF Loaded, ChannelTypeOK
    <3>2. Append(loads[e], p) \in Seq(Payload)
      BY <3>1
    <3>3. reliable_sequence' \in [Peer -> Bit]
      <4>1. 1 - reliable_sequence[e] \in Bit
        <5>1. reliable_sequence[e] = 0 \/ reliable_sequence[e] = 1
          BY DEF ChannelTypeOK, Bit
        <5>. QED BY <5>1 DEF Bit
      <4>. QED BY <2>1, <4>1 DEF Loaded, ChannelTypeOK
    <3>. QED BY <2>1, <3>1, <3>2, <3>3 DEF Loaded, ChannelTypeOK
  <2>. QED BY <1>1, <2>1 DEF ChannelTypeOK
<1>3. \A b \in BOOLEAN : SentPacket(e, length, b) \in Packet
  <2>1. EmptyPayload \in Payload
    BY DEF EmptyPayload, Payload, NoFragment
  <2>. QED BY <1>2, <2>1 DEF SentPacket, Packet, ChannelTypeOK, Bit
<1>4. net' \in SUBSET Packet
  BY <1>3 DEF TransmitBits, ChannelTypeOK
<1>5. outgoing_sequence' \in [Peer -> Nat \ {0}] /\ last_reliable_sequence' \in [Peer -> Nat]
  BY DEF TransmitBits, ChannelTypeOK
<1>6. UNCHANGED <<ackVars, recvVars, accepted>>
  BY DEF TransmitBits
<1>7. ChannelTypeOK'
  BY <1>1, <1>2, <1>4, <1>5, <1>6 DEF ChannelTypeOK, Waitlists, Fraglists, Counts,
     ackVars, recvVars
<1>. QED BY <1>1, <1>7

LEMMA HoldBackType ==
    ASSUME ChannelTypeOK, NEW e \in Peer, HoldBack(e)
    PROVE  ChannelTypeOK'
BY DEF ChannelTypeOK, HoldBack, ackVars, queueVars, recvVars

LEMMA StoreFragmentType ==
    ASSUME NEW T, NEW list \in Seq(T), NEW frag \in T
    PROVE  StoreFragment(list, frag) \in Seq(T) /\ (list # <<>> => StoreFragment(list, frag) # <<>>)
<1>1. AddBufferToList(list, frag) \in Seq(T) /\ AddBufferToList(list, frag) # <<>>
  <2>. DEFINE ahead == {i \in DOMAIN list : \A j \in 2 .. i : list[j].id <= frag.id}
              place == Cardinality(ahead) + 1
              item(i) == IF i < place THEN list[i]
                         ELSE IF i = place THEN frag ELSE list[i - 1]
  <2>1. ASSUME NEW i \in 1 .. Len(list) + 1 PROVE item(i) \in T
    <3>1. place \in 1 .. Len(list) + 1
      <4>1. ahead \in SUBSET (1 .. Len(list))
        OBVIOUS
      <4>2. IsFiniteSet(1 .. Len(list)) /\ Cardinality(1 .. Len(list)) = Len(list)
        <5>1. 1 \in Int /\ Len(list) \in Int /\ Len(list) >= 0
          OBVIOUS
        <5>2. /\ IsFiniteSet(1 .. Len(list))
              /\ Cardinality(1 .. Len(list)) =
                     IF 1 > Len(list) THEN 0 ELSE Len(list) - 1 + 1
          BY <5>1, FS_Interval
        <5>. QED BY <5>1, <5>2
      <4>. HIDE DEF ahead
      <4>3. Cardinality(ahead) \in Nat /\ Cardinality(ahead) <= Len(list)
        BY <4>1, <4>2, FS_Subset, FS_CardinalityType
      <4>. QED BY <4>3
    <3>. HIDE DEF place
    <3>2. CASE i < place
      BY <3>1, <3>2
    <3>3. CASE i = place
      BY <3>3
    <3>4. CASE i > place
      BY <3>1, <3>4
    <3>. QED BY <3>1, <3>2, <3>3, <3>4
  <2>. HIDE DEF item
  <2>2. [i \in 1 .. Len(list) + 1 |-> item(i)] \in Seq(T)
    BY <2>1
  <2>3. [i \in 1 .. Len(list) + 1 |-> item(i)] # <<>>
    <3>1. DOMAIN [i \in 1 .. Len(list) + 1 |-> item(i)] = 1 .. Len(list) + 1 /\ 1 \in 1 .. Len(list) + 1
      OBVIOUS
    <3>. QED BY <3>1
  <2>. QED BY <2>2, <2>3 DEF AddBufferToList, item
<1>2. [i \in DOMAIN list |-> IF SameId(list[i], frag) THEN frag ELSE list[i]]
          \in Seq(T)
  <2>1. DOMAIN list = 1 .. Len(list) /\ Len(list) \in Nat
    OBVIOUS
  <2>. QED BY <2>1
<1>3. list # <<>> => [i \in DOMAIN list |-> IF SameId(list[i], frag) THEN frag ELSE list[i]] # <<>>
  <2>1. DOMAIN list = DOMAIN [i \in DOMAIN list |-> IF SameId(list[i], frag) THEN frag ELSE list[i]]
    OBVIOUS
  <2>. QED BY <2>1
<1>. QED BY <1>1, <1>2, <1>3 DEF StoreFragment

LEMMA ProcessType ==
    ASSUME ChannelTypeOK, NEW e \in Peer, NEW p \in net, NEW copied,
           Process(e, p, copied)
    PROVE  ChannelTypeOK'
<1>1. p \in Packet /\ EmptyPayload \in Payload
  BY DEF ChannelTypeOK, EmptyPayload, Payload, NoFragment
<1>2. /\ incoming_sequence' \in [Peer -> Nat]
      /\ incoming_acknowledged' \in [Peer -> Nat]
      /\ incoming_reliable_acknowledged' \in [Peer -> Bit]
  BY <1>1 DEF Process, ChannelTypeOK, Packet, Bit
<1>3. incoming_reliable_sequence' \in [Peer -> Bit]
  <2>1. incoming_reliable_sequence[e] = 0 \/ incoming_reliable_sequence[e] = 1
    BY DEF ChannelTypeOK, Bit
  <2>2. 1 - incoming_reliable_sequence[e] \in Bit
    BY <2>1 DEF Bit
  <2>. QED BY <2>2 DEF Process, ParityAfter, ChannelTypeOK
<1>4. reliable' \in [Peer -> Payload]
  BY <1>1 DEF Process, ChannelTypeOK
<1>5. accepted' \in [Peer -> Seq(Payload)]
  <2>1. Append(accepted[e], p.payload) \in Seq(Payload)
    BY <1>1 DEF ChannelTypeOK, Packet
  <2>. QED BY <2>1 DEF Process, ChannelTypeOK
<1>6. incomingbufs' \in [Peer -> [Stream -> Seq(Fragment)]]
  <2>1. ASSUME NEW s \in Stream PROVE BufsAfter(e, p)[s] \in Seq(Fragment)
    <3>1. incomingbufs[e][s] \in Seq(Fragment)
      BY DEF ChannelTypeOK
    <3>2. p.payload.frag[s] \in Fragment \union {NoFragment}
      BY <1>1 DEF Packet, Payload
    <3>3. BufsAfter(e, p)[s] = IF p.payload.frag[s] = NoFragment
                               THEN incomingbufs[e][s]
                               ELSE StoreFragment(incomingbufs[e][s], p.payload.frag[s])
      BY DEF BufsAfter, StoredBufs
    <3>. QED BY <3>1, <3>2, <3>3, StoreFragmentType
  <2>. QED BY <2>1 DEF Process, ChannelTypeOK
<1>7. incomingready' \in [Peer -> [Stream -> BOOLEAN]]
  <2>1. [s \in Stream |-> s \notin copied /\ ReadyAfter(e, p)[s]] \in [Stream -> BOOLEAN]
    OBVIOUS
  <2>. QED BY <2>1 DEF Process, ChannelTypeOK
<1>8. UNCHANGED <<seqVars, queueVars, net, loads>>
  BY DEF Process
<1>. QED BY <1>2, <1>3, <1>4, <1>5, <1>6, <1>7, <1>8 DEF ChannelTypeOK, seqVars, queueVars

LEMMA CopyFragmentsType ==
    ASSUME ChannelTypeOK, NEW e \in Peer, NEW copied, CopyFragments(e, copied)
    PROVE  ChannelTypeOK'
<1>1. incomingbufs' \in [Peer -> [Stream -> Seq(Fragment)]]
  BY DEF CopyFragments, ChannelTypeOK
<1>2. incomingready' \in [Peer -> [Stream -> BOOLEAN]]
  <2>1. [s \in Stream |-> s \notin copied /\ incomingready[e][s]] \in [Stream -> BOOLEAN]
    OBVIOUS
  <2>. QED BY <2>1 DEF CopyFragments, ChannelTypeOK
<1>3. UNCHANGED <<ackVars, seqVars, queueVars, reliable, net, loads, accepted>>
  BY DEF CopyFragments
<1>. QED BY <1>1, <1>2, <1>3 DEF ChannelTypeOK, ackVars, seqVars, queueVars

-----------------------------------------------------------------------------
(***************************************************************************)
(* Every step of the hosts is one operation of the channel.                *)
(***************************************************************************)
ChannelStep ==
    \/ \E e \in Peer, msg \in Seq(Unit) : WriteMessage(e, msg)
    \/ \E e \in Peer, msg \in Seq(Unit), push \in BOOLEAN :
           CreateFragments(e, msg, push)
    \/ \E e \in Peer, name \in FileName, len \in Nat \ {0}, inMemory \in BOOLEAN :
           CreateFileFragments(e, name, len, inMemory)
    \/ \E e \in Peer, length \in Nat : TransmitBits(e, length)
    \/ \E e \in Peer : HoldBack(e)
    \/ \E e \in Peer, p \in net, copied \in SUBSET Stream : Process(e, p, copied)
    \/ \E e \in Peer, copied \in SUBSET Stream : CopyFragments(e, copied)
    \/ UNCHANGED chanVars

LEMMA StepIsChannelStep ==
    ASSUME written \in [Peer -> Nat], [Next]_vars
    PROVE  ChannelStep /\ written' \in [Peer -> Nat]
<1>1. ASSUME NEW e \in Peer, NEW k \in Nat
      PROVE  /\ Commands(e, k) \in Seq(Unit)
             /\ [written EXCEPT ![e] = @ + k] \in [Peer -> Nat]
  BY DEF Commands, Unit
<1>2. \A s : Ready(s) \in SUBSET Stream
  BY DEF Ready
<1>3. ASSUME NEW e \in Peer, WriteCommand(e) PROVE ChannelStep /\ written' \in [Peer -> Nat]
  BY <1>1, <1>3 DEF WriteCommand, ChannelStep
<1>4. ASSUME NEW e \in Peer, NEW k \in BlockSizes, SendBlock(e, k)
      PROVE  ChannelStep /\ written' \in [Peer -> Nat]
  BY <1>1, <1>4, HostAssumption DEF SendBlock, ChannelStep
<1>5. ASSUME NEW e \in Peer, NEW name \in FilesOf[e], NEW inMemory \in BOOLEAN,
             SendFile(e, name, inMemory)
      PROVE  ChannelStep /\ written' \in [Peer -> Nat]
  <2>1. name \in FileName /\ FileLen[name] \in Nat \ {0}
    BY FileAssumption
  <2>. QED BY <2>1, <1>5 DEF SendFile, ChannelStep
<1>6. ASSUME ClientWritePacket PROVE ChannelStep /\ written' \in [Peer -> Nat]
  BY <1>6 DEF ClientWritePacket, ChannelStep, Peer, dataVars
<1>7. ASSUME NEW p \in net, ClientReadPacket(p)
      PROVE  ChannelStep /\ written' \in [Peer -> Nat]
  BY <1>7 DEF ClientReadPacket, ChannelStep, Peer
<1>8. ASSUME ClientCopyFragments PROVE ChannelStep /\ written' \in [Peer -> Nat]
  BY <1>2, <1>8 DEF ClientCopyFragments, ChannelStep, Peer
<1>9. ASSUME NEW p \in net, ServerReadPacket(p)
      PROVE  ChannelStep /\ written' \in [Peer -> Nat]
  <2>1. \E copied \in SUBSET Stream : Process("server", p, copied)
    BY <1>2, <1>9 DEF ServerReadPacket
  <2>. QED BY <2>1, <1>9 DEF ServerReadPacket, ChannelStep, Peer
<1>10. ASSUME NEW k \in BroadcastSizes, ServerUpdateToReliable(k)
       PROVE  ChannelStep /\ written' \in [Peer -> Nat]
  BY <1>1, <1>10, HostAssumption DEF ServerUpdateToReliable, ChannelStep, Peer
<1>11. ASSUME NEW datagram \in DatagramSizes, ServerSendClientMessages(datagram)
       PROVE  ChannelStep /\ written' \in [Peer -> Nat]
  BY <1>11, HostAssumption DEF ServerSendClientMessages, ChannelStep, Peer, dataVars
<1>12. ASSUME ServerForgetsReply PROVE ChannelStep /\ written' \in [Peer -> Nat]
  BY <1>12 DEF ServerForgetsReply, ChannelStep, dataVars
<1>13. ASSUME UNCHANGED vars PROVE ChannelStep /\ written' \in [Peer -> Nat]
  BY <1>13 DEF vars, ChannelStep, dataVars
<1>. QED BY <1>3, <1>4, <1>5, <1>6, <1>7, <1>8, <1>9, <1>10, <1>11, <1>12, <1>13
         DEF Next, Produce, Client, Server

\* What holds of the types in every state.
TypeInv == ChannelTypeOK /\ written \in [Peer -> Nat]

LEMMA TypeInit == Init => TypeInv
<1>. SUFFICES ASSUME Init PROVE TypeInv
  OBVIOUS
<1>1. PICK start \in ServerSequences : ChannelInit(start)
  BY DEF Init
<1>2. start \in Nat \ {0}
  BY SequenceAssumption
<1>3. EmptyPayload \in Payload
  BY DEF EmptyPayload, Payload, NoFragment
<1>. QED BY <1>1, <1>2, <1>3 DEF ChannelInit, ChannelTypeOK, TypeInv, Init, Bit

LEMMA TypeStep == TypeInv /\ [Next]_vars => TypeInv' /\ ChannelStep
<1>. SUFFICES ASSUME TypeInv, [Next]_vars PROVE TypeInv' /\ ChannelStep
  OBVIOUS
<1>1. ChannelTypeOK /\ ChannelStep /\ written' \in [Peer -> Nat]
  BY StepIsChannelStep DEF TypeInv
<1>2. CASE \E e \in Peer, msg \in Seq(Unit) : WriteMessage(e, msg)
  BY <1>1, <1>2, WriteMessageType DEF TypeInv
<1>3. CASE \E e \in Peer, msg \in Seq(Unit), push \in BOOLEAN :
               CreateFragments(e, msg, push)
  BY <1>1, <1>3, CreateFragmentsType DEF TypeInv
<1>4. CASE \E e \in Peer, name \in FileName, len \in Nat \ {0}, inMemory \in BOOLEAN :
               CreateFileFragments(e, name, len, inMemory)
  BY <1>1, <1>4, CreateFileFragmentsType DEF TypeInv
<1>5. CASE \E e \in Peer, length \in Nat : TransmitBits(e, length)
  BY <1>1, <1>5, TransmitFacts DEF TypeInv
<1>6. CASE \E e \in Peer : HoldBack(e)
  BY <1>1, <1>6, HoldBackType DEF TypeInv
<1>7. CASE \E e \in Peer, p \in net, copied \in SUBSET Stream : Process(e, p, copied)
  BY <1>1, <1>7, ProcessType DEF TypeInv
<1>8. CASE \E e \in Peer, copied \in SUBSET Stream : CopyFragments(e, copied)
  BY <1>1, <1>8, CopyFragmentsType DEF TypeInv
<1>9. CASE UNCHANGED chanVars
  BY <1>1, <1>9 DEF TypeInv, ChannelTypeOK, chanVars, ackVars, seqVars, queueVars,
     recvVars
<1>. QED BY <1>1, <1>2, <1>3, <1>4, <1>5, <1>6, <1>7, <1>8, <1>9 DEF ChannelStep

\* The variables of the channel always hold values of their types: queues of
\* nonempty fragments no longer than a chunk, parities that are bits, packets
\* that carry well-formed payloads.
THEOREM TypeCorrect == Spec => []ChannelTypeOK
<1>1. TypeInv => ChannelTypeOK
  BY DEF TypeInv
<1>. QED BY <1>1, TypeInit, TypeStep, PTL DEF Spec

-----------------------------------------------------------------------------
(***************************************************************************)
(* The alternating bit: ReliableInv is inductive.                          *)
(***************************************************************************)
LEMMA TwoPeers ==
    ASSUME NEW e \in Peer
    PROVE  /\ Other(e) \in Peer /\ Other(e) # e /\ Other(Other(e)) = e
           /\ \A d \in Peer : d = e \/ d = Other(e)
BY DEF Peer, Other

\* What sending a packet does to the sequencing of both peers.
LEMMA TransmitSequences ==
    ASSUME ChannelTypeOK, NEW e \in Peer, NEW length \in Nat,
           TransmitBits(e, length)
    PROVE  \E q \in Packet :
               /\ net' = net \union {q}
               /\ q.from = e /\ q.seq = outgoing_sequence[e]
               /\ q.ack = incoming_sequence[e]
               /\ q.reliable_ack = incoming_reliable_sequence[e]
               /\ q.reliable => q.payload = reliable'[e]
               /\ q.reliable = (\/ ReliableDropped(e)
                                \/ reliable_sequence'[e] # reliable_sequence[e])
               /\ last_reliable_sequence' = [last_reliable_sequence EXCEPT ![e] =
                      IF q.reliable THEN outgoing_sequence[e] ELSE @]
<1>. DEFINE send == \/ ReliableDropped(e)
                    \/ reliable_sequence'[e] # reliable_sequence[e]
            q == SentPacket(e, length, send)
<1>1. net' = net \union {q} /\ last_reliable_sequence' =
          [last_reliable_sequence EXCEPT ![e] = IF send THEN outgoing_sequence[e] ELSE @]
  BY DEF TransmitBits
<1>2. ChannelTypeOK'
  BY TransmitFacts
<1>3. q \in net'
  BY <1>1
<1>4. q \in Packet
  BY <1>2, <1>3 DEF ChannelTypeOK
<1>5. /\ q.from = e /\ q.seq = outgoing_sequence[e] /\ q.ack = incoming_sequence[e]
      /\ q.reliable_ack = incoming_reliable_sequence[e] /\ q.reliable = send
      /\ q.reliable => q.payload = reliable'[e]
  BY DEF SentPacket
<1>. HIDE DEF q, send
<1>6. net' = net \union {q}
      /\ last_reliable_sequence' = [last_reliable_sequence EXCEPT ![e] =
             IF q.reliable THEN outgoing_sequence[e] ELSE @]
  BY <1>1, <1>5
<1>7. q.reliable = (\/ ReliableDropped(e)
                    \/ reliable_sequence'[e] # reliable_sequence[e])
  BY <1>5 DEF send
<1>. QED BY <1>4, <1>5, <1>6, <1>7

LEMMA TransmitKeepsInv ==
    ASSUME ChannelTypeOK, ReliableInv, NEW e \in Peer, NEW length \in Nat,
           TransmitBits(e, length)
    PROVE  ReliableInv'
<1>. DEFINE f == Other(e)
<1>1. f \in Peer /\ f # e /\ Other(f) = e /\ (\A d \in Peer : d = e \/ d = f)
  BY TwoPeers
<1>2. PICK q \in Packet :
          /\ net' = net \union {q}
          /\ q.from = e /\ q.seq = outgoing_sequence[e]
          /\ q.ack = incoming_sequence[e]
          /\ q.reliable_ack = incoming_reliable_sequence[e]
          /\ q.reliable => q.payload = reliable'[e]
          /\ q.reliable = (\/ ReliableDropped(e)
                           \/ reliable_sequence'[e] # reliable_sequence[e])
          /\ last_reliable_sequence' = [last_reliable_sequence EXCEPT ![e] =
                 IF q.reliable THEN outgoing_sequence[e] ELSE @]
  BY TransmitSequences
<1>3. \/ reliable[e] = EmptyPayload /\ \E p \in Payload : Loaded(e, p)
      \/ UNCHANGED <<reliable, reliable_sequence, loads>>
  BY TransmitFacts
<1>4. /\ incoming_sequence' = incoming_sequence
      /\ incoming_acknowledged' = incoming_acknowledged
      /\ incoming_reliable_acknowledged' = incoming_reliable_acknowledged
      /\ incoming_reliable_sequence' = incoming_reliable_sequence
      /\ accepted' = accepted
      /\ outgoing_sequence' = [outgoing_sequence EXCEPT ![e] = @ + 1]
  BY DEF TransmitBits, ackVars
<1>5. /\ reliable'[f] = reliable[f] /\ loads'[f] = loads[f]
      /\ reliable_sequence'[f] = reliable_sequence[f]
      /\ last_reliable_sequence'[f] = last_reliable_sequence[f]
      /\ outgoing_sequence'[f] = outgoing_sequence[f]
  BY <1>1, <1>2, <1>3, <1>4 DEF Loaded, ChannelTypeOK
<1>6. /\ outgoing_sequence'[e] = outgoing_sequence[e] + 1
      /\ last_reliable_sequence'[e] = IF q.reliable THEN outgoing_sequence[e]
                                      ELSE last_reliable_sequence[e]
  BY <1>2, <1>4 DEF ChannelTypeOK
<1>7. /\ outgoing_sequence[e] \in Nat /\ last_reliable_sequence[e] \in Nat
      /\ incoming_sequence[e] \in Nat /\ incoming_sequence[f] \in Nat
      /\ incoming_acknowledged[e] \in Nat
      /\ \A p \in net : p.seq \in Nat /\ p.ack \in Nat
  BY <1>1 DEF ChannelTypeOK, Packet
<1>8. /\ SequencesSent(e) /\ AtMostOneOutstanding(e) /\ FreshIsOutstanding(e) /\ AcksCurrent(e)
      /\ SequencesSent(f) /\ AtMostOneOutstanding(f) /\ FreshIsOutstanding(f) /\ AcksCurrent(f)
  BY <1>1 DEF ReliableInv
\* The direction from e to f.
<1>9. \/ /\ reliable[e] = EmptyPayload /\ reliable'[e] # EmptyPayload
         /\ loads'[e] = Append(loads[e], reliable'[e])
         /\ reliable_sequence'[e] # reliable_sequence[e]
      \/ /\ reliable'[e] = reliable[e] /\ loads'[e] = loads[e]
         /\ reliable_sequence'[e] = reliable_sequence[e]
  <2>1. ASSUME NEW p \in Payload, Loaded(e, p)
        PROVE  /\ reliable'[e] = p /\ p # EmptyPayload
               /\ loads'[e] = Append(loads[e], p)
               /\ reliable_sequence'[e] # reliable_sequence[e]
    <3>1. reliable'[e] = p /\ p # EmptyPayload /\ loads'[e] = Append(loads[e], p)
      BY <2>1 DEF Loaded, ChannelTypeOK
    <3>2. reliable_sequence[e] \in Bit /\ reliable_sequence'[e] = 1 - reliable_sequence[e]
      BY <2>1 DEF Loaded, ChannelTypeOK
    <3>3. reliable_sequence'[e] # reliable_sequence[e]
      BY <3>2 DEF Bit
    <3>. QED BY <3>1, <3>3
  <2>. QED BY <1>3, <2>1
<1>10. reliable_sequence'[e] # reliable_sequence[e] =>
           /\ accepted[f] = loads[e]
           /\ incoming_reliable_sequence[f] = reliable_sequence[e]
  BY <1>8, <1>9 DEF AtMostOneOutstanding
<1>11. reliable_sequence'[e] # reliable_sequence[e] =>
           incoming_reliable_sequence[f] # reliable_sequence'[e]
  BY <1>10
<1>12. SequencesSent(e)'
  BY <1>1, <1>2, <1>4, <1>6, <1>7, <1>8 DEF SequencesSent
<1>13. AtMostOneOutstanding(e)'
  BY <1>1, <1>4, <1>8, <1>9, <1>10, <1>11 DEF AtMostOneOutstanding
<1>14. ReliableDropped(e) =>
           /\ incoming_sequence[f] > last_reliable_sequence[e]
           /\ incoming_reliable_sequence[f] # reliable_sequence[e]
  BY <1>7, <1>8 DEF ReliableDropped, AcksCurrent, SequencesSent
<1>15. q.reliable => /\ incoming_reliable_sequence[f] # reliable_sequence'[e]
                     /\ \A p \in net : ~(/\ p.from = e /\ p.reliable
                                         /\ p.seq > incoming_sequence[f])
  <2>1. CASE reliable_sequence'[e] # reliable_sequence[e]
    BY <2>1, <1>8, <1>10, <1>11 DEF FreshIsOutstanding
  <2>2. CASE reliable_sequence'[e] = reliable_sequence[e] /\ ReliableDropped(e)
    BY <2>2, <1>7, <1>8, <1>14 DEF FreshIsOutstanding
  <2>. QED BY <1>2, <2>1, <2>2
<1>16. FreshIsOutstanding(e)'
  <2>1. CASE q.reliable
    BY <2>1, <1>1, <1>2, <1>4, <1>6, <1>15 DEF FreshIsOutstanding
  <2>2. CASE ~q.reliable
    <3>1. reliable_sequence'[e] = reliable_sequence[e] /\ reliable'[e] = reliable[e]
      BY <2>2, <1>2, <1>9
    <3>. QED BY <2>2, <3>1, <1>1, <1>2, <1>4, <1>6, <1>8 DEF FreshIsOutstanding
  <2>. QED BY <2>1, <2>2
<1>17. AcksCurrent(e)'
  <2>1. CASE q.reliable
    BY <2>1, <1>1, <1>2, <1>4, <1>6, <1>7, <1>8 DEF AcksCurrent, SequencesSent
  <2>2. CASE ~q.reliable
    BY <2>2, <1>1, <1>2, <1>4, <1>6, <1>8 DEF AcksCurrent
  <2>. QED BY <2>1, <2>2
\* The direction from f to e: the packet carries an acknowledgement.
<1>18. SequencesSent(f)'
  BY <1>1, <1>2, <1>4, <1>5, <1>7, <1>8 DEF SequencesSent
<1>19. AtMostOneOutstanding(f)'
  BY <1>1, <1>4, <1>5, <1>8 DEF AtMostOneOutstanding
<1>20. FreshIsOutstanding(f)'
  BY <1>1, <1>2, <1>4, <1>5, <1>8 DEF FreshIsOutstanding
<1>21. AcksCurrent(f)'
  BY <1>1, <1>2, <1>4, <1>5, <1>8 DEF AcksCurrent
<1>. HIDE DEF f
<1>. QED BY <1>1, <1>12, <1>13, <1>16, <1>17, <1>18, <1>19, <1>20, <1>21 DEF ReliableInv

LEMMA ProcessKeepsInv ==
    ASSUME ChannelTypeOK, ReliableInv, NEW e \in Peer, NEW p \in net,
           NEW copied, Process(e, p, copied)
    PROVE  ReliableInv'
<1>. DEFINE f == Other(e)
<1>1. f \in Peer /\ f # e /\ Other(f) = e /\ (\A d \in Peer : d = e \/ d = f)
  BY TwoPeers
<1>2. /\ p.from = f /\ p.seq > incoming_sequence[e]
      /\ net' = net /\ loads' = loads
      /\ outgoing_sequence' = outgoing_sequence
      /\ reliable_sequence' = reliable_sequence
      /\ last_reliable_sequence' = last_reliable_sequence
  BY DEF Process, Acceptable, seqVars
<1>3. /\ incoming_sequence'[e] = p.seq
      /\ incoming_acknowledged'[e] = p.ack
      /\ incoming_reliable_acknowledged'[e] = p.reliable_ack
      /\ accepted'[e] = IF p.reliable THEN Append(accepted[e], p.payload) ELSE accepted[e]
      /\ reliable'[e] = IF Acknowledges(e, p) THEN EmptyPayload ELSE reliable[e]
      /\ incoming_reliable_sequence'[e] = IF p.reliable THEN 1 - incoming_reliable_sequence[e]
                                                        ELSE incoming_reliable_sequence[e]
  BY DEF Process, ParityAfter, ChannelTypeOK
<1>4. /\ incoming_sequence'[f] = incoming_sequence[f]
      /\ incoming_acknowledged'[f] = incoming_acknowledged[f]
      /\ incoming_reliable_acknowledged'[f] = incoming_reliable_acknowledged[f]
      /\ incoming_reliable_sequence'[f] = incoming_reliable_sequence[f]
      /\ accepted'[f] = accepted[f] /\ reliable'[f] = reliable[f]
  BY <1>1 DEF Process, ChannelTypeOK
<1>5. /\ incoming_sequence[e] \in Nat /\ incoming_sequence[f] \in Nat
      /\ incoming_acknowledged[f] \in Nat /\ last_reliable_sequence[f] \in Nat
      /\ last_reliable_sequence[e] \in Nat
      /\ outgoing_sequence[f] \in Nat
      /\ \A q \in net : q.seq \in Nat /\ q.ack \in Nat
  BY <1>1 DEF ChannelTypeOK, Packet
<1>6. /\ SequencesSent(e) /\ AtMostOneOutstanding(e) /\ FreshIsOutstanding(e) /\ AcksCurrent(e)
      /\ SequencesSent(f) /\ AtMostOneOutstanding(f) /\ FreshIsOutstanding(f) /\ AcksCurrent(f)
  BY <1>1 DEF ReliableInv
\* The direction from f to e: the packet may carry the outstanding payload.
<1>7. p.reliable => /\ p.seq = last_reliable_sequence[f]
                    /\ p.payload = reliable[f]
                    /\ incoming_reliable_sequence[e] # reliable_sequence[f]
  BY <1>1, <1>2, <1>6 DEF FreshIsOutstanding
<1>8. p.reliable => incoming_reliable_sequence'[e] = reliable_sequence[f]
  <2>1. /\ incoming_reliable_sequence[e] = 0 \/ incoming_reliable_sequence[e] = 1
        /\ reliable_sequence[f] = 0 \/ reliable_sequence[f] = 1
    BY <1>1 DEF ChannelTypeOK, Bit
  <2>. QED BY <1>3, <1>7, <2>1
<1>9. SequencesSent(f)'
  BY <1>1, <1>2, <1>3, <1>4, <1>5, <1>6 DEF SequencesSent
<1>10. AtMostOneOutstanding(f)'
  <2>1. CASE p.reliable
    BY <2>1, <1>1, <1>2, <1>3, <1>4, <1>6, <1>7, <1>8 DEF AtMostOneOutstanding
  <2>2. CASE ~p.reliable
    BY <2>2, <1>1, <1>2, <1>3, <1>4, <1>6 DEF AtMostOneOutstanding
  <2>. QED BY <2>1, <2>2
<1>11. FreshIsOutstanding(f)'
  <2>1. CASE p.reliable
    BY <2>1, <1>1, <1>2, <1>3, <1>4, <1>5, <1>6, <1>7 DEF FreshIsOutstanding
  <2>2. CASE ~p.reliable
    BY <2>2, <1>1, <1>2, <1>3, <1>4, <1>5, <1>6 DEF FreshIsOutstanding
  <2>. QED BY <2>1, <2>2
<1>12. AcksCurrent(f)'
  <2>1. CASE p.reliable
    BY <2>1, <1>1, <1>2, <1>3, <1>4, <1>5, <1>6, <1>7 DEF AcksCurrent, SequencesSent
  <2>2. CASE ~p.reliable
    BY <2>2, <1>1, <1>2, <1>3, <1>4, <1>6 DEF AcksCurrent
  <2>. QED BY <2>1, <2>2
\* The direction from e to f: the packet carries an acknowledgement.
<1>13. Acknowledges(e, p) => incoming_reliable_sequence[f] = reliable_sequence[e]
  BY <1>2, <1>6 DEF Acknowledges, AcksCurrent
<1>14. SequencesSent(e)'
  BY <1>1, <1>2, <1>3, <1>4, <1>5, <1>6 DEF SequencesSent
<1>15. AtMostOneOutstanding(e)'
  BY <1>1, <1>2, <1>3, <1>4, <1>6, <1>13 DEF AtMostOneOutstanding
<1>16. FreshIsOutstanding(e)'
  BY <1>1, <1>2, <1>3, <1>4, <1>6, <1>13 DEF FreshIsOutstanding
<1>17. AcksCurrent(e)'
  BY <1>1, <1>2, <1>3, <1>4, <1>6 DEF AcksCurrent
<1>. HIDE DEF f
<1>. QED BY <1>1, <1>9, <1>10, <1>11, <1>12, <1>14, <1>15, <1>16, <1>17 DEF ReliableInv

\* Every other operation leaves alone what ReliableInv is about, except that
\* a held back packet uses up a sequence number.
relVars == <<ackVars, reliable_sequence, last_reliable_sequence, reliable, net,
             loads, accepted>>

LEMMA OthersKeepInv ==
    ASSUME ChannelTypeOK, ReliableInv, UNCHANGED relVars,
           \/ outgoing_sequence' = outgoing_sequence
           \/ \E e \in Peer : outgoing_sequence' = [outgoing_sequence EXCEPT ![e] = @ + 1]
    PROVE  ReliableInv'
<1>1. ASSUME NEW d \in Peer
      PROVE  /\ outgoing_sequence[d] \in Nat
             /\ outgoing_sequence'[d] \in {outgoing_sequence[d], outgoing_sequence[d] + 1}
  BY DEF ChannelTypeOK
<1>2. \A d \in Peer : incoming_sequence[d] \in Nat /\ last_reliable_sequence[d] \in Nat
  BY DEF ChannelTypeOK
<1>3. \A p \in net : p.seq \in Nat
  BY DEF ChannelTypeOK, Packet
<1>. SUFFICES ASSUME NEW e \in Peer
              PROVE  /\ SequencesSent(e)' /\ AtMostOneOutstanding(e)'
                     /\ FreshIsOutstanding(e)' /\ AcksCurrent(e)'
  BY DEF ReliableInv
<1>4. /\ SequencesSent(e) /\ AtMostOneOutstanding(e)
      /\ FreshIsOutstanding(e) /\ AcksCurrent(e)
  BY DEF ReliableInv
<1>5. Other(e) \in Peer
  BY TwoPeers
<1>6. SequencesSent(e)'
  BY <1>1, <1>2, <1>3, <1>4, <1>5 DEF SequencesSent, relVars, ackVars
<1>7. AtMostOneOutstanding(e)'
  BY <1>4 DEF AtMostOneOutstanding, relVars, ackVars
<1>8. FreshIsOutstanding(e)'
  BY <1>4 DEF FreshIsOutstanding, relVars, ackVars
<1>9. AcksCurrent(e)'
  BY <1>4 DEF AcksCurrent, relVars, ackVars
<1>. QED BY <1>6, <1>7, <1>8, <1>9

\* The steps that matter to the alternating bit, and all the others.
LEMMA StepCases ==
    ASSUME ChannelStep
    PROVE  \/ \E e \in Peer, length \in Nat : TransmitBits(e, length)
           \/ \E e \in Peer, p \in net, copied \in SUBSET Stream : Process(e, p, copied)
           \/ /\ UNCHANGED relVars
              /\ \/ outgoing_sequence' = outgoing_sequence
                 \/ \E e \in Peer :
                        outgoing_sequence' = [outgoing_sequence EXCEPT ![e] = @ + 1]
<1>1. ASSUME NEW e \in Peer, NEW msg, WriteMessage(e, msg)
      PROVE  UNCHANGED <<relVars, outgoing_sequence>>
  BY <1>1 DEF WriteMessage, relVars, seqVars
<1>2. ASSUME NEW e \in Peer, NEW msg, NEW push, CreateFragments(e, msg, push)
      PROVE  UNCHANGED <<relVars, outgoing_sequence>>
  BY <1>2 DEF CreateFragments, relVars, seqVars
<1>3. ASSUME NEW e \in Peer, NEW name, NEW len, NEW inMemory,
             CreateFileFragments(e, name, len, inMemory)
      PROVE  UNCHANGED <<relVars, outgoing_sequence>>
  BY <1>3 DEF CreateFileFragments, relVars, seqVars
<1>4. ASSUME NEW e \in Peer, HoldBack(e)
      PROVE  UNCHANGED relVars /\ outgoing_sequence' = [outgoing_sequence EXCEPT ![e] = @ + 1]
  BY <1>4 DEF HoldBack, relVars
<1>5. ASSUME NEW e \in Peer, NEW copied, CopyFragments(e, copied)
      PROVE  UNCHANGED <<relVars, outgoing_sequence>>
  BY <1>5 DEF CopyFragments, relVars, seqVars
<1>6. ASSUME UNCHANGED chanVars PROVE UNCHANGED <<relVars, outgoing_sequence>>
  BY <1>6 DEF chanVars, relVars, seqVars
<1>. QED BY <1>1, <1>2, <1>3, <1>4, <1>5, <1>6 DEF ChannelStep

Inv == TypeInv /\ ReliableInv

LEMMA InvInit == Init => Inv
<1>. SUFFICES ASSUME Init PROVE Inv
  OBVIOUS
<1>1. PICK start \in ServerSequences : ChannelInit(start)
  BY DEF Init
<1>2. TypeInv
  BY TypeInit
<1>3. ASSUME NEW e \in Peer
      PROVE  /\ SequencesSent(e) /\ AtMostOneOutstanding(e)
             /\ FreshIsOutstanding(e) /\ AcksCurrent(e)
  <2>1. Other(e) \in Peer
    BY TwoPeers
  <2>2. start \in Nat \ {0}
    BY SequenceAssumption
  <2>. QED BY <1>1, <2>1, <2>2 DEF ChannelInit, SequencesSent, AtMostOneOutstanding,
              FreshIsOutstanding, AcksCurrent
<1>. QED BY <1>2, <1>3 DEF Inv, ReliableInv

LEMMA InvStep == Inv /\ [Next]_vars => Inv'
<1>. SUFFICES ASSUME Inv, [Next]_vars PROVE Inv'
  OBVIOUS
<1>1. TypeInv' /\ ChannelStep /\ ChannelTypeOK /\ ReliableInv
  BY TypeStep DEF Inv, TypeInv
<1>2. CASE \E e \in Peer, length \in Nat : TransmitBits(e, length)
  BY <1>1, <1>2, TransmitKeepsInv DEF Inv
<1>3. CASE \E e \in Peer, p \in net, copied \in SUBSET Stream : Process(e, p, copied)
  BY <1>1, <1>3, ProcessKeepsInv DEF Inv
<1>4. CASE /\ UNCHANGED relVars
           /\ \/ outgoing_sequence' = outgoing_sequence
              \/ \E e \in Peer :
                     outgoing_sequence' = [outgoing_sequence EXCEPT ![e] = @ + 1]
  BY <1>1, <1>4, OthersKeepInv DEF Inv
<1>. QED BY <1>1, <1>2, <1>3, <1>4, StepCases

\* The alternating bit is sound whatever the network does with datagrams: in
\* each direction all payloads but at most the latest have been accepted, a
\* reliable packet that may still be accepted is the latest transmission of
\* that payload, and an acknowledgement that covers it is up to date.
THEOREM ReliableInvariant == Spec => []ReliableInv
<1>1. Inv => ReliableInv
  BY DEF Inv
<1>. QED BY <1>1, InvInit, InvStep, PTL DEF Spec

\* No payload is accepted twice, skipped or taken out of order.
THEOREM AcceptedExactlyOnce == Spec => []ExactlyOnce
<1>1. ASSUME ChannelTypeOK, ReliableInv PROVE ExactlyOnce
  <2>. SUFFICES ASSUME NEW e \in Peer
                PROVE  IsPrefix(accepted[Other(e)], loads[e])
    BY DEF ExactlyOnce
  <2>1. Other(e) \in Peer
    BY TwoPeers
  <2>2. accepted[Other(e)] \in Seq(Payload) /\ loads[e] \in Seq(Payload)
        /\ reliable[e] \in Payload
    BY <1>1, <2>1 DEF ChannelTypeOK
  <2>3. \/ loads[e] = accepted[Other(e)]
        \/ loads[e] = Append(accepted[Other(e)], reliable[e])
    BY <1>1 DEF ReliableInv, AtMostOneOutstanding
  <2>4. /\ Len(accepted[Other(e)]) <= Len(loads[e])
        /\ SubSeq(accepted[Other(e)], 1, Len(accepted[Other(e)])) =
               SubSeq(loads[e], 1, Len(accepted[Other(e)]))
    BY <2>2, <2>3
  <2>. QED BY <2>2, <2>4 DEF IsPrefix
<1>2. Inv => ExactlyOnce
  BY <1>1 DEF Inv, TypeInv
<1>. QED BY <1>2, InvInit, InvStep, PTL DEF Spec

-----------------------------------------------------------------------------
(***************************************************************************)
(* What a step may never do.                                               *)
(***************************************************************************)
\* A payload is sent again only if the peer has really not got it.
THEOREM ResendsOnlyLost == Spec => OnlyLostIsSentAgain
<1>1. ASSUME Inv, [Next]_vars, NEW e \in Peer,
             last_reliable_sequence'[e] # last_reliable_sequence[e],
             loads'[e] = loads[e]
      PROVE  /\ Len(accepted[Other(e)]) < Len(loads[e])
             /\ incoming_sequence[Other(e)] > last_reliable_sequence[e]
  <2>1. ChannelStep /\ ChannelTypeOK /\ ReliableInv
    BY <1>1, TypeStep DEF Inv, TypeInv
  <2>2. \E length \in Nat : TransmitBits(e, length)
    <3>1. CASE \E d \in Peer, length \in Nat : TransmitBits(d, length)
      <4>1. PICK d \in Peer, length \in Nat : TransmitBits(d, length)
        BY <3>1
      <4>2. d # e => last_reliable_sequence'[e] = last_reliable_sequence[e]
        BY <2>1, <4>1 DEF TransmitBits, ChannelTypeOK
      <4>. QED BY <1>1, <4>1, <4>2
    <3>2. CASE \E d \in Peer, p \in net, copied \in SUBSET Stream : Process(d, p, copied)
      BY <1>1, <3>2 DEF Process, seqVars
    <3>3. CASE UNCHANGED relVars
      BY <1>1, <3>3 DEF relVars
    <3>. QED BY <2>1, <3>1, <3>2, <3>3, StepCases
  <2>3. PICK length \in Nat : TransmitBits(e, length)
    BY <2>2
  <2>4. UNCHANGED <<reliable_sequence, loads>>
    <3>1. ASSUME NEW p \in Payload, Loaded(e, p) PROVE FALSE
      <4>1. loads'[e] = Append(loads[e], p) /\ loads[e] \in Seq(Payload)
        BY <2>1, <3>1 DEF Loaded, ChannelTypeOK
      <4>. QED BY <1>1, <4>1
    <3>. QED BY <2>1, <2>3, <3>1, TransmitFacts
  <2>5. ReliableDropped(e)
    BY <1>1, <2>1, <2>3, <2>4 DEF TransmitBits, ChannelTypeOK
  <2>6. /\ SequencesSent(e) /\ AtMostOneOutstanding(e) /\ AcksCurrent(e)
        /\ Other(e) \in Peer
    BY <2>1, TwoPeers DEF ReliableInv
  <2>7. /\ incoming_acknowledged[e] \in Nat /\ last_reliable_sequence[e] \in Nat
        /\ incoming_sequence[Other(e)] \in Nat
        /\ accepted[Other(e)] \in Seq(Payload) /\ reliable[e] \in Payload
    BY <2>1, <2>6 DEF ChannelTypeOK
  <2>8. /\ incoming_sequence[Other(e)] > last_reliable_sequence[e]
        /\ incoming_reliable_sequence[Other(e)] # reliable_sequence[e]
    BY <2>5, <2>6, <2>7 DEF ReliableDropped, SequencesSent, AcksCurrent
  <2>9. loads[e] = Append(accepted[Other(e)], reliable[e])
    BY <2>6, <2>8 DEF AtMostOneOutstanding
  <2>. QED BY <2>7, <2>8, <2>9
<1>2. Inv /\ [Next]_vars =>
          [\A e \in Peer :
              (/\ last_reliable_sequence'[e] # last_reliable_sequence[e]
               /\ loads'[e] = loads[e])
              => /\ Len(accepted[Other(e)]) < Len(loads[e])
                 /\ incoming_sequence[Other(e)] > last_reliable_sequence[e]]_chanVars
  BY <1>1
<1>. QED BY <1>2, InvInit, InvStep, PTL DEF Spec, OnlyLostIsSentAgain

\* The sender forgets a payload only when the peer has accepted it.
THEOREM ClearsOnlyAccepted == Spec => OnlyAcceptedIsCleared
<1>1. ASSUME Inv, [Next]_vars, NEW e \in Peer,
             reliable[e] # EmptyPayload, reliable'[e] # reliable[e]
      PROVE  Len(accepted[Other(e)]) = Len(loads[e])
  <2>1. ChannelStep /\ ChannelTypeOK /\ ReliableInv
    BY <1>1, TypeStep DEF Inv, TypeInv
  <2>2. \E p \in net, copied \in SUBSET Stream : Process(e, p, copied)
    <3>1. CASE \E d \in Peer, length \in Nat : TransmitBits(d, length)
      <4>1. PICK d \in Peer, length \in Nat : TransmitBits(d, length)
        BY <3>1
      <4>2. \/ reliable[d] = EmptyPayload /\ \E p \in Payload : Loaded(d, p)
            \/ UNCHANGED reliable
        BY <2>1, <4>1, TransmitFacts
      <4>3. d # e => reliable'[e] = reliable[e]
        BY <2>1, <4>2 DEF Loaded, ChannelTypeOK
      <4>. QED BY <1>1, <4>2, <4>3
    <3>2. CASE \E d \in Peer, p \in net, copied \in SUBSET Stream : Process(d, p, copied)
      <4>1. PICK d \in Peer, p \in net, copied \in SUBSET Stream : Process(d, p, copied)
        BY <3>2
      <4>2. d # e => reliable'[e] = reliable[e]
        BY <2>1, <4>1 DEF Process, ChannelTypeOK
      <4>. QED BY <1>1, <4>1, <4>2
    <3>3. CASE UNCHANGED relVars
      BY <1>1, <3>3 DEF relVars
    <3>. QED BY <2>1, <3>1, <3>2, <3>3, StepCases
  <2>3. PICK p \in net, copied \in SUBSET Stream : Process(e, p, copied)
    BY <2>2
  <2>4. Acknowledges(e, p) /\ p.from = Other(e)
    BY <1>1, <2>1, <2>3 DEF Process, ChannelTypeOK
  <2>5. incoming_reliable_sequence[Other(e)] = reliable_sequence[e]
    BY <2>1, <2>4 DEF ReliableInv, AcksCurrent, Acknowledges
  <2>6. accepted[Other(e)] = loads[e]
    BY <2>1, <2>5 DEF ReliableInv, AtMostOneOutstanding
  <2>. QED BY <2>6
<1>2. Inv /\ [Next]_vars =>
          [\A e \in Peer :
              (reliable[e] # EmptyPayload /\ reliable'[e] # reliable[e])
              => Len(accepted[Other(e)]) = Len(loads[e])]_chanVars
  BY <1>1
<1>. QED BY <1>2, InvInit, InvStep, PTL DEF Spec, OnlyAcceptedIsCleared

-----------------------------------------------------------------------------
(***************************************************************************)
(* The channel implements a reliable stream in each direction.             *)
(***************************************************************************)
LEMMA StreamStep == Inv /\ [Next]_vars => [Reliable!Next]_<<loads, accepted>>
<1>. SUFFICES ASSUME Inv, [Next]_vars,
                     ~(loads' = loads /\ accepted' = accepted)
              PROVE  \E e \in Peer : Reliable!Send(e) \/ Reliable!Receive(e)
  BY DEF Reliable!Next
<1>1. ChannelStep /\ ChannelTypeOK /\ ReliableInv
  BY TypeStep DEF Inv, TypeInv
<1>2. ASSUME NEW e \in Peer, NEW length \in Nat, TransmitBits(e, length)
      PROVE  Reliable!Send(e)
  <2>1. accepted' = accepted
    BY <1>2 DEF TransmitBits
  <2>2. PICK p \in Payload : reliable[e] = EmptyPayload /\ Loaded(e, p)
    BY <1>1, <1>2, <2>1, TransmitFacts
  <2>3. accepted[Other(e)] = loads[e]
    BY <1>1, <2>2 DEF ReliableInv, AtMostOneOutstanding
  <2>4. /\ loads[e] \in Seq(Payload)
        /\ loads' = [loads EXCEPT ![e] = Append(loads[e], p)]
        /\ loads'[e] = Append(loads[e], p)
    BY <1>1, <2>2 DEF Loaded, ChannelTypeOK
  <2>5. /\ Len(loads'[e]) > Len(loads[e])
        /\ loads'[e][Len(loads[e]) + 1] = p
    BY <2>4
  <2>. QED BY <2>1, <2>3, <2>4, <2>5 DEF Reliable!Send
<1>3. ASSUME NEW e \in Peer, NEW p \in net, NEW copied, Process(e, p, copied)
      PROVE  Reliable!Receive(e)
  <2>. DEFINE f == Other(e)
  <2>1. f \in Peer /\ Other(f) = e
    BY TwoPeers
  <2>2. loads' = loads
    BY <1>3 DEF Process
  <2>3. /\ p.reliable /\ p.from = f /\ p.seq > incoming_sequence[e]
        /\ accepted' = [accepted EXCEPT ![e] = Append(accepted[e], p.payload)]
    BY <1>1, <1>3, <2>2 DEF Process, Acceptable, ChannelTypeOK
  <2>4. /\ p.payload = reliable[f]
        /\ incoming_reliable_sequence[e] # reliable_sequence[f]
    BY <1>1, <2>1, <2>3 DEF ReliableInv, FreshIsOutstanding
  <2>5. loads[f] = Append(accepted[e], p.payload)
    BY <1>1, <2>1, <2>4 DEF ReliableInv, AtMostOneOutstanding
  <2>6. accepted[e] \in Seq(Payload) /\ p.payload \in Payload
    BY <1>1, <2>1, <2>4 DEF ChannelTypeOK
  <2>7. Len(accepted[e]) < Len(loads[f]) /\ loads[f][Len(accepted[e]) + 1] = p.payload
    BY <2>5, <2>6
  <2>. QED BY <2>2, <2>3, <2>7 DEF Reliable!Receive
<1>4. ASSUME UNCHANGED relVars PROVE FALSE
  BY <1>4 DEF relVars
<1>. QED BY <1>1, <1>2, <1>3, <1>4, StepCases

\* In each direction the channel hands over one payload at a time, in order
\* and exactly once, although the network below loses, repeats and reorders
\* datagrams.
THEOREM ChannelImplementsStream == Spec => ImplementsStream
<1>1. Init => Reliable!Init
  BY DEF Init, ChannelInit, Reliable!Init
<1>2. Inv /\ [Next]_vars => [Reliable!Next]_(Reliable!streamVars)
  BY StreamStep DEF Reliable!streamVars
<1>. QED BY <1>1, <1>2, InvInit, InvStep, PTL DEF Spec, ImplementsStream, Reliable!Spec

-----------------------------------------------------------------------------
(***************************************************************************)
(* Induction, in the form that needs no operator parameter: a set of       *)
(* numbers with 0 and every successor in it.                               *)
(***************************************************************************)
LEMMA InductiveSet ==
    ASSUME NEW L \in SUBSET Nat, 0 \in L, \A n \in L : n + 1 \in L
    PROVE  \A n \in Nat : n \in L
<1>. SUFFICES ASSUME NEW N \in Nat, N \notin L PROVE FALSE
  OBVIOUS
<1>. DEFINE A == {n \in L : n < N}
            f == [n \in A |-> n + 1]
<1>1. IsFiniteSet(A) /\ IsFiniteSet(A \ {0}) /\ Cardinality(A \ {0}) < Cardinality(A)
  <2>1. IsFiniteSet(A)
    <3>1. A \in SUBSET Nat
      OBVIOUS
    <3>2. \A s \in A : s <= N
      OBVIOUS
    <3>. HIDE DEF A
    <3>. QED BY <3>1, <3>2, FS_BoundedSetOfNaturals
  <2>2. 0 \in A
    OBVIOUS
  <2>. HIDE DEF A
  <2>3. Cardinality(A) \in Nat /\ Cardinality(A \ {0}) = Cardinality(A) - 1 /\ IsFiniteSet(A \ {0})
    BY <2>1, <2>2, FS_CardinalityType, FS_RemoveElement
  <2>. QED BY <2>1, <2>3
<1>2. f \in [A -> A \ {0}]
  <2>1. \A n \in A : n + 1 \in A /\ n + 1 # 0
    OBVIOUS
  <2>. QED BY <2>1
<1>3. \E x, y \in A : x # y /\ f[x] = f[y]
  <2>. HIDE DEF A, f
  <2>. QED BY <1>1, <1>2, FS_PigeonHole
<1>. QED BY <1>3

\* g is the function that FlattenSeq computes for the first n of a sequence of
\* sequences.
Flattens(g, seqs, n) == g = [i \in 1 .. n |-> IF i = 1 THEN seqs[i] ELSE g[i - 1] \o seqs[i]]

LEMMA FlattensExists ==
    ASSUME NEW seqs
    PROVE  \A n \in Nat : \E g : Flattens(g, seqs, n)
<1>. DEFINE L == {n \in Nat : \E g : Flattens(g, seqs, n)}
<1>1. 0 \in L
  <2>. DEFINE g == [i \in 1 .. 0 |-> <<>>]
  <2>1. Flattens(g, seqs, 0)
    BY DEF Flattens
  <2>. QED BY <2>1
<1>2. ASSUME NEW n \in L PROVE n + 1 \in L
  <2>1. n \in Nat
    OBVIOUS
  <2>2. PICK g : Flattens(g, seqs, n)
    OBVIOUS
  <2>. DEFINE h == [i \in 1 .. n + 1 |-> IF i <= n THEN g[i]
                      ELSE IF i = 1 THEN seqs[i] ELSE g[n] \o seqs[i]]
  <2>3. ASSUME NEW i \in 1 .. n + 1
        PROVE  h[i] = IF i = 1 THEN seqs[i] ELSE h[i - 1] \o seqs[i]
    <3>1. CASE i <= n
      <4>1. i \in 1 .. n
        BY <2>1, <3>1
      <4>. DEFINE k == [j \in 1 .. n |-> IF j = 1 THEN seqs[j] ELSE g[j - 1] \o seqs[j]]
      <4>2. g = k
        BY <2>2 DEF Flattens
      <4>3. k[i] = IF i = 1 THEN seqs[i] ELSE g[i - 1] \o seqs[i]
        BY <4>1
      <4>. HIDE DEF k
      <4>4. h[i] = g[i] /\ (i # 1 => h[i - 1] = g[i - 1])
        BY <2>1, <4>1
      <4>. QED BY <4>2, <4>3, <4>4
    <3>2. CASE i = n + 1
      <4>1. i # 1 => h[i - 1] = g[n]
        BY <2>1, <3>2
      <4>. QED BY <2>1, <3>2, <4>1
    <3>. QED BY <2>1, <3>1, <3>2
  <2>4. Flattens(h, seqs, n + 1)
    <3>. DEFINE k == [i \in 1 .. n + 1 |-> IF i = 1 THEN seqs[i] ELSE h[i - 1] \o seqs[i]]
    <3>1. DOMAIN h = 1 .. n + 1 /\ DOMAIN k = 1 .. n + 1
      OBVIOUS
    <3>2. h = k
      BY <2>3, <3>1
    <3>. QED BY <3>2 DEF Flattens
  <2>. HIDE DEF h
  <2>. QED BY <2>1, <2>4
<1>. HIDE DEF L
<1>3. L \in SUBSET Nat
  BY DEF L
<1>4. \A n \in Nat : n \in L
  BY <1>1, <1>2, <1>3, InductiveSet
<1>. QED BY <1>4 DEF L

\* What FlattenSeq returns: the last of its partial results.
LEMMA FlattenDef ==
    ASSUME NEW seqs, Len(seqs) \in Nat, Len(seqs) # 0
    PROVE  \E g : /\ FlattenSeq(seqs) = g[Len(seqs)]
                  /\ g[1] = seqs[1]
                  /\ \A i \in 2 .. Len(seqs) : g[i] = g[i - 1] \o seqs[i]
<1>. DEFINE g == CHOOSE g : Flattens(g, seqs, Len(seqs))
<1>1. Flattens(g, seqs, Len(seqs))
  BY FlattensExists
<1>2. FlattenSeq(seqs) = g[Len(seqs)]
  BY DEF FlattenSeq, Flattens
<1>. HIDE DEF g
<1>. DEFINE k == [i \in 1 .. Len(seqs) |-> IF i = 1 THEN seqs[i] ELSE g[i - 1] \o seqs[i]]
<1>3. g = k
  BY <1>1 DEF Flattens
<1>4. k[1] = seqs[1] /\ \A i \in 2 .. Len(seqs) : k[i] = g[i - 1] \o seqs[i]
  <2>1. 1 \in 1 .. Len(seqs) /\ \A i \in 2 .. Len(seqs) : i \in 1 .. Len(seqs) /\ i # 1
    OBVIOUS
  <2>. QED BY <2>1, Zenon
<1>. HIDE DEF k
<1>5. g[1] = seqs[1] /\ \A i \in 2 .. Len(seqs) : g[i] = g[i - 1] \o seqs[i]
  BY <1>3, <1>4
<1>. QED BY <1>2, <1>5

\* A list of fragments holds data of what its fragments hold data of.
LEMMA ReassembledType ==
    ASSUME NEW S, NEW list, Len(list) \in Nat, DOMAIN list = 1 .. Len(list),
           \A i \in DOMAIN list : list[i].data \in Seq(S) /\ list[i].data # <<>>
    PROVE  /\ Reassembled(list) \in Seq(S)
           /\ Len(list) # 0 => Reassembled(list) # <<>>
<1>. DEFINE seqs == [i \in 1 .. Len(list) |-> list[i].data]
<1>1. Len(seqs) = Len(list) /\ \A i \in 1 .. Len(list) : seqs[i] = list[i].data
  <2>1. seqs \in Seq(Seq(S))
    <3>1. \A i \in 1 .. Len(list) : list[i].data \in Seq(S)
      OBVIOUS
    <3>. QED BY <3>1
  <2>2. DOMAIN seqs = 1 .. Len(list)
    OBVIOUS
  <2>. QED BY <2>1, <2>2
<1>2. Reassembled(list) = FlattenSeq(seqs)
  BY DEF Reassembled
<1>3. CASE Len(list) = 0
  <2>1. FlattenSeq(seqs) = seqs
    BY <1>1, <1>3 DEF FlattenSeq
  <2>2. seqs = <<>>
    BY <1>3
  <2>. HIDE DEF seqs
  <2>3. Reassembled(list) = <<>>
    BY <1>2, <2>1, <2>2
  <2>. QED BY <1>3, <2>3
<1>4. CASE Len(list) # 0
  <2>. HIDE DEF seqs
  <2>1. PICK g : /\ FlattenSeq(seqs) = g[Len(list)]
                 /\ g[1] = seqs[1]
                 /\ \A i \in 2 .. Len(list) : g[i] = g[i - 1] \o seqs[i]
    <3>1. Len(seqs) \in Nat /\ Len(seqs) # 0
      BY <1>1, <1>4
    <3>2. \E g : /\ FlattenSeq(seqs) = g[Len(seqs)]
                 /\ g[1] = seqs[1]
                 /\ \A i \in 2 .. Len(seqs) : g[i] = g[i - 1] \o seqs[i]
      BY <3>1, FlattenDef
    <3>3. Len(seqs) = Len(list)
      BY <1>1
    <3>. QED BY <3>2, <3>3, Zenon
  <2>. DEFINE L == {n \in Nat : n \in 1 .. Len(list) => g[n] \in Seq(S) /\ g[n] # <<>>}
  <2>2. 0 \in L
    OBVIOUS
  <2>3. ASSUME NEW n \in L PROVE n + 1 \in L
    <3>1. n \in Nat
      OBVIOUS
    <3>2. SUFFICES ASSUME n + 1 \in 1 .. Len(list) PROVE g[n + 1] \in Seq(S) /\ g[n + 1] # <<>>
      BY <3>1
    <3>3. CASE n = 0
      BY <1>1, <1>4, <2>1, <3>3
    <3>4. CASE n # 0
      <4>1. \A i \in 2 .. Len(list) : i = n + 1 => g[i] = g[n] \o seqs[i]
        <5>1. ASSUME NEW i \in 2 .. Len(list), i = n + 1 PROVE i - 1 = n
          BY <3>1, <5>1
        <5>. QED BY <2>1, <5>1
      <4>2. n + 1 \in 2 .. Len(list) /\ n \in 1 .. Len(list)
        BY <3>1, <3>2, <3>4
      <4>3. g[n + 1] = g[n] \o seqs[n + 1]
        BY <4>1, <4>2, Zenon
      <4>4. g[n] \in Seq(S) /\ g[n] # <<>> /\ seqs[n + 1] \in Seq(S)
        BY <1>1, <3>2, <4>2
      <4>. DEFINE x == g[n]
                  y == seqs[n + 1]
      <4>. HIDE DEF x, y
      <4>5. x \in Seq(S) /\ x # <<>> /\ y \in Seq(S) => x \o y \in Seq(S) /\ x \o y # <<>>
        OBVIOUS
      <4>. QED BY <4>3, <4>4, <4>5 DEF x, y
    <3>. QED BY <3>3, <3>4
  <2>. HIDE DEF L
  <2>4. L \in SUBSET Nat
    BY DEF L
  <2>5. \A n \in Nat : n \in L
    BY <2>2, <2>3, <2>4, InductiveSet
  <2>6. g[Len(list)] \in Seq(S) /\ g[Len(list)] # <<>>
    <3>1. Len(list) \in 1 .. Len(list)
      BY <1>4
    <3>. QED BY <2>5, <3>1 DEF L
  <2>. QED BY <1>2, <2>1, <2>6
<1>. QED BY <1>3, <1>4

-----------------------------------------------------------------------------
(***************************************************************************)
(* The types of the hosts' data.  What is written to a disk has the name   *)
(* of a file because all data of the file streams belongs to files.        *)
(***************************************************************************)
FileUnit     == FileName \X Nat
FileFragbuf  == {b \in Fragbuf : b.data \in Seq(FileUnit)}
FileFragment == {b \in Fragment : b.data \in Seq(FileUnit)}

\* The data of the file streams is file data, and a completed list is not empty.
FileDataInv ==
    /\ \A e \in Peer : /\ waitlist[e]["file"] \in Seq(Seq(FileFragbuf))
                       /\ fragbufs[e]["file"] \in Seq(FileFragbuf)
                       /\ reliable[e].frag["file"].data \in Seq(FileUnit)
                       /\ incomingbufs[e]["file"] \in Seq(FileFragment)
    /\ \A p \in net : p.payload.frag["file"].data \in Seq(FileUnit)
    /\ \A e \in Peer, s \in Stream : incomingready[e][s] => incomingbufs[e][s] # <<>>

LEMMA EmptyFileData == EmptyPayload.frag["file"].data \in Seq(FileUnit)
<1>1. EmptyPayload.frag["file"] = NoFragment /\ NoFragment.data = <<>>
  BY DEF EmptyPayload, NoFragment, Stream
<1>2. <<>> \in Seq(FileUnit)
  OBVIOUS
<1>. QED BY <1>1, <1>2, Zenon

LEMMA FileFragmentsData ==
    ASSUME NEW name \in FileName, NEW len \in Nat \ {0}, NEW inMemory \in BOOLEAN
    PROVE  FileFragments(name, len, inMemory) \in Seq(FileFragbuf)
<1>. DEFINE units == FileUnits(name, len)
            first == Least(IF inMemory THEN len ELSE len + 1, ChunkSize)
            n == FragmentCount(Len(units), first)
            piece(i) == SubSeq(units, FragmentStart(i, first),
                               FragmentEnd(i, Len(units), first))
<1>1. units \in Seq(FileUnit) /\ units \in Seq(Unit) /\ Len(units) = len + 1
  BY DEF FileUnits, Unit, FileUnit
<1>2. first \in 1 .. ChunkSize /\ first <= len + 1
  BY ChunkAssumption DEF Least
<1>3. FileFragments(name, len, inMemory) \in Seq(Fragbuf)
  BY FileFragmentsType
<1>4. FileFragments(name, len, inMemory) =
          [i \in 1 .. n |-> [bufferid |-> i, data |-> piece(i)]]
  BY DEF FileFragments, Fragments
<1>. HIDE DEF units, first
<1>5. ASSUME NEW i \in 1 .. n PROVE piece(i) \in Seq(FileUnit)
  <2>1. LET lo == FragmentStart(i, first)
            hi == FragmentEnd(i, Len(units), first)
        IN  lo \in 1 .. Len(units) /\ hi \in lo .. Len(units) /\ hi - lo + 1 <= ChunkSize
    <3>1. Len(units) \in Nat /\ first <= Len(units)
      BY <1>1, <1>2
    <3>. QED BY <1>2, <3>1, FragmentBounds
  <2>. QED BY <1>1, <2>1
<1>. HIDE DEF piece, n
<1>. DEFINE list == FileFragments(name, len, inMemory)
<1>6. DOMAIN list = 1 .. n /\ \A i \in 1 .. n : list[i].data = piece(i)
  BY <1>4
<1>. HIDE DEF list
<1>7. list \in Seq(Fragbuf) /\ \A i \in DOMAIN list : list[i] \in FileFragbuf
  <2>1. list \in Seq(Fragbuf)
    BY <1>3 DEF list
  <2>2. ASSUME NEW i \in DOMAIN list PROVE list[i] \in FileFragbuf
    <3>1. list[i] \in Fragbuf
      BY <2>1
    <3>2. list[i].data \in Seq(FileUnit)
      BY <1>5, <1>6
    <3>. QED BY <3>1, <3>2 DEF FileFragbuf
  <2>. QED BY <2>1, <2>2
<1>8. list \in Seq(FileFragbuf)
  BY <1>7
<1>. QED BY <1>8 DEF list

LEMMA PushedFileData ==
    ASSUME NEW w \in Waitlists, NEW f \in Fraglists,
           w["file"] \in Seq(Seq(FileFragbuf)), f["file"] \in Seq(FileFragbuf)
    PROVE  /\ SentWaitlist(w, f)["file"] \in Seq(Seq(FileFragbuf))
           /\ SentFragbufs(w, f)["file"] \in Seq(FileFragbuf)
<1>1. "file" \in Stream
  BY DEF Stream
<1>2. w["file"] # <<>> => Tail(w["file"]) \in Seq(Seq(FileFragbuf)) /\ Head(w["file"]) \in Seq(FileFragbuf)
  OBVIOUS
<1>. QED BY <1>1, <1>2 DEF SentWaitlist, SentFragbufs, MovesUp

LEMMA EnqueueFileData ==
    ASSUME ChannelTypeOK, FileDataInv, NEW e \in Peer, NEW w \in Waitlists, NEW push \in BOOLEAN,
           w["file"] \in Seq(Seq(FileFragbuf)), Enqueue(e, w, push),
           UNCHANGED <<reliable, incomingbufs, incomingready, net>>
    PROVE  FileDataInv'
<1>1. fragbufs[e] \in Fraglists /\ fragbufs[e]["file"] \in Seq(FileFragbuf)
  BY DEF ChannelTypeOK, Fraglists, FileDataInv
<1>2. /\ SentWaitlist(w, fragbufs[e])["file"] \in Seq(Seq(FileFragbuf))
      /\ SentFragbufs(w, fragbufs[e])["file"] \in Seq(FileFragbuf)
  BY <1>1, PushedFileData
<1>3. \A d \in Peer : /\ waitlist'[d]["file"] \in Seq(Seq(FileFragbuf))
                      /\ fragbufs'[d]["file"] \in Seq(FileFragbuf)
  BY <1>2 DEF Enqueue, ChannelTypeOK, FileDataInv
<1>. QED BY <1>3 DEF FileDataInv

LEMMA TransmitFileData ==
    ASSUME ChannelTypeOK, FileDataInv, NEW e \in Peer, NEW length \in Nat, TransmitBits(e, length)
    PROVE  FileDataInv'
<1>1. incomingbufs' = incomingbufs /\ incomingready' = incomingready
  BY DEF TransmitBits, recvVars
<1>2. \A d \in Peer : /\ waitlist'[d]["file"] \in Seq(Seq(FileFragbuf))
                      /\ fragbufs'[d]["file"] \in Seq(FileFragbuf)
                      /\ reliable'[d].frag["file"].data \in Seq(FileUnit)
  <2>1. CASE reliable[e] # EmptyPayload
    BY <2>1 DEF TransmitBits, KeepReliable, queueVars, FileDataInv
  <2>2. CASE reliable[e] = EmptyPayload
    <3>. DEFINE w == SentWaitlist(waitlist[e], fragbufs[e])
                f == SentFragbufs(waitlist[e], fragbufs[e])
                n == SentCount(waitlist[e], fragbufs[e], fragbufcount[e])
                requeue == /\ Stalled(e, f)
                           /\ Len(message[e]) + length > MaxReliablePayload
                load == LoadedPayload(IF Stalled(e, f) THEN <<>> ELSE message[e], f, n)
                queued == IF requeue THEN [w EXCEPT !["normal"] = QueueBlock(@, message[e])] ELSE w
    <3>1. /\ waitlist[e] \in Waitlists /\ fragbufs[e] \in Fraglists /\ fragbufcount[e] \in Counts
          /\ waitlist[e]["file"] \in Seq(Seq(FileFragbuf)) /\ fragbufs[e]["file"] \in Seq(FileFragbuf)
      BY DEF ChannelTypeOK, Waitlists, Fraglists, Counts, FileDataInv
    <3>2. w \in Waitlists /\ w["file"] \in Seq(Seq(FileFragbuf)) /\ f["file"] \in Seq(FileFragbuf)
      BY <3>1, PushType, PushedFileData
    <3>3. load.frag["file"].data \in Seq(FileUnit) /\ (load.frag["file"] # NoFragment => f["file"] # <<>>)
      <4>1. \/ load.frag["file"] = NoFragment
            \/ f["file"] # <<>> /\ load.frag["file"] = TakenFragment(f, n, "file")
        BY DEF LoadedPayload, Takes, Stream
      <4>2. f["file"] # <<>> => Head(f["file"]) \in FileFragbuf
        BY <3>2
      <4>3. NoFragment.data \in Seq(FileUnit)
        BY DEF NoFragment
      <4>. QED BY <4>1, <4>2, <4>3 DEF TakenFragment, FileFragbuf
    <3>4. /\ waitlist' = [waitlist EXCEPT ![e] = queued]
          /\ fragbufs' = [fragbufs EXCEPT ![e] = Unlinked(f, load)]
          /\ reliable' = [reliable EXCEPT ![e] = load]
      BY <2>2 DEF TransmitBits, LoadReliable
    <3>. HIDE DEF w, f, n, requeue, load
    <3>5. queued["file"] \in Seq(Seq(FileFragbuf))
      BY <3>2 DEF Waitlists, Stream
    <3>6. Unlinked(f, load)["file"] \in Seq(FileFragbuf)
      <4>1. Unlinked(f, load)["file"] = IF load.frag["file"] # NoFragment THEN Tail(f["file"]) ELSE f["file"]
        BY DEF Unlinked, Stream
      <4>. QED BY <3>2, <3>3, <4>1
    <3>. HIDE DEF queued
    <3>. QED BY <3>3, <3>4, <3>5, <3>6 DEF FileDataInv, ChannelTypeOK
  <2>. QED BY <2>1, <2>2
<1>3. \A p \in net' : p.payload.frag["file"].data \in Seq(FileUnit)
  <2>. DEFINE send == \/ ReliableDropped(e)
                      \/ reliable_sequence'[e] # reliable_sequence[e]
              q == SentPacket(e, length, send)
  <2>1. net' = net \union {q}
    BY DEF TransmitBits
  <2>2. q.payload = reliable'[e] \/ q.payload = EmptyPayload
    BY DEF SentPacket
  <2>. HIDE DEF q
  <2>3. EmptyPayload.frag["file"].data \in Seq(FileUnit)
    BY EmptyFileData
  <2>. QED BY <1>2, <2>1, <2>2, <2>3 DEF FileDataInv
<1>. QED BY <1>1, <1>2, <1>3 DEF FileDataInv

\* What the lists hold after a packet has been processed.
LEMMA StoredFileData ==
    ASSUME ChannelTypeOK, FileDataInv, NEW e \in Peer, NEW p \in net
    PROVE  /\ BufsAfter(e, p)["file"] \in Seq(FileFragment)
           /\ \A s \in Stream : /\ BufsAfter(e, p)[s] \in Seq(Fragment)
                                /\ ReadyAfter(e, p)[s] => BufsAfter(e, p)[s] # <<>>
<1>1. \A s \in Stream : /\ incomingbufs[e][s] \in Seq(Fragment)
                        /\ p.payload.frag[s] \in Fragment \union {NoFragment}
  <2>1. p \in Packet
    BY DEF ChannelTypeOK
  <2>2. p.payload \in Payload
    BY <2>1 DEF Packet
  <2>. QED BY <2>2 DEF ChannelTypeOK, Payload
<1>2. \A s \in Stream : BufsAfter(e, p)[s] = IF p.payload.frag[s] = NoFragment THEN incomingbufs[e][s]
                               ELSE StoreFragment(incomingbufs[e][s], p.payload.frag[s])
  BY DEF BufsAfter, StoredBufs
<1>3. ASSUME NEW s \in Stream
      PROVE  /\ BufsAfter(e, p)[s] \in Seq(Fragment)
             /\ incomingbufs[e][s] # <<>> => BufsAfter(e, p)[s] # <<>>
  BY <1>1, <1>2, StoreFragmentType
<1>4. BufsAfter(e, p)["file"] \in Seq(FileFragment)
  <2>1. incomingbufs[e]["file"] \in Seq(FileFragment) /\ "file" \in Stream
    BY DEF FileDataInv, Stream
  <2>2. p.payload.frag["file"] # NoFragment => p.payload.frag["file"] \in FileFragment
    BY <1>1, <2>1 DEF FileDataInv, FileFragment
  <2>. QED BY <1>2, <2>1, <2>2, StoreFragmentType
<1>5. ASSUME NEW s \in Stream, ReadyAfter(e, p)[s] PROVE BufsAfter(e, p)[s] # <<>>
  <2>1. incomingready[e][s] \/ BufsAfter(e, p)[s] # <<>>
    BY <1>5 DEF ReadyAfter, StoredReady
  <2>. QED BY <1>3, <2>1 DEF FileDataInv
<1>. QED BY <1>3, <1>4, <1>5

LEMMA FileDataStep ==
    ASSUME ChannelTypeOK, FileDataInv, ChannelStep
    PROVE  FileDataInv'
<1>1. ASSUME NEW e \in Peer, NEW msg \in Seq(Unit), WriteMessage(e, msg) PROVE FileDataInv'
  BY <1>1 DEF WriteMessage, recvVars, FileDataInv
<1>2. ASSUME NEW e \in Peer, NEW msg \in Seq(Unit), NEW push \in BOOLEAN, CreateFragments(e, msg, push)
      PROVE  FileDataInv'
  <2>. DEFINE pending == QueueBlock(waitlist[e]["normal"], message[e])
              w == [waitlist[e] EXCEPT !["normal"] = QueueBlock(pending, msg)]
  <2>1. waitlist[e] \in Waitlists /\ message[e] \in Seq(Unit) /\ waitlist[e]["normal"] \in Seq(Seq(Fragbuf))
    BY DEF ChannelTypeOK, Waitlists, Stream
  <2>2. pending \in Seq(Seq(Fragbuf))
    BY <2>1, QueueBlockType
  <2>3. Enqueue(e, w, push) /\ UNCHANGED <<reliable, incomingbufs, incomingready, net>>
    BY <1>2 DEF CreateFragments, QueueAhead, recvVars
  <2>. HIDE DEF pending
  <2>4. QueueBlock(pending, msg) \in Seq(Seq(Fragbuf))
    BY <2>2, QueueBlockType
  <2>5. w \in Waitlists /\ w["file"] \in Seq(Seq(FileFragbuf))
    BY <2>1, <2>4 DEF Waitlists, Stream, FileDataInv
  <2>. HIDE DEF w
  <2>. QED BY <2>3, <2>5, EnqueueFileData
<1>3. ASSUME NEW e \in Peer, NEW name \in FileName, NEW len \in Nat \ {0}, NEW inMemory \in BOOLEAN,
             CreateFileFragments(e, name, len, inMemory)
      PROVE  FileDataInv'
  <2>. DEFINE file == FileFragments(name, len, inMemory)
              w == [waitlist[e] EXCEPT !["file"] = Append(@, file)]
  <2>1. Enqueue(e, w, TRUE) /\ UNCHANGED <<reliable, incomingbufs, incomingready, net>>
    BY <1>3 DEF CreateFileFragments, recvVars
  <2>2. file \in Seq(Fragbuf) /\ file \in Seq(FileFragbuf)
    BY FileFragmentsType, FileFragmentsData
  <2>. HIDE DEF file
  <2>3. waitlist[e] \in Waitlists /\ waitlist[e]["file"] \in Seq(Seq(FileFragbuf))
        /\ waitlist[e]["file"] \in Seq(Seq(Fragbuf))
    BY DEF ChannelTypeOK, Waitlists, Stream, FileDataInv
  <2>4. /\ Append(waitlist[e]["file"], file) \in Seq(Seq(FileFragbuf))
        /\ Append(waitlist[e]["file"], file) \in Seq(Seq(Fragbuf))
    BY <2>2, <2>3
  <2>5. w \in Waitlists /\ w["file"] \in Seq(Seq(FileFragbuf))
    BY <2>3, <2>4 DEF Waitlists, Stream
  <2>. HIDE DEF w
  <2>. QED BY <2>1, <2>5, EnqueueFileData
<1>4. ASSUME NEW e \in Peer, NEW length \in Nat, TransmitBits(e, length) PROVE FileDataInv'
  BY <1>4, TransmitFileData
<1>5. ASSUME NEW e \in Peer, HoldBack(e) PROVE FileDataInv'
  BY <1>5 DEF HoldBack, queueVars, recvVars, FileDataInv
<1>6. ASSUME NEW e \in Peer, NEW p \in net, NEW copied \in SUBSET Stream, Process(e, p, copied)
      PROVE  FileDataInv'
  <2>1. UNCHANGED <<waitlist, fragbufs, net>>
    BY <1>6 DEF Process, queueVars
  <2>2. \A d \in Peer : reliable'[d].frag["file"].data \in Seq(FileUnit)
    <3>1. EmptyPayload.frag["file"].data \in Seq(FileUnit)
      BY EmptyFileData
    <3>. QED BY <1>6, <3>1 DEF Process, ChannelTypeOK, FileDataInv
  <2>3. /\ \A s \in Stream : incomingbufs'[e][s] = IF s \in copied THEN <<>> ELSE BufsAfter(e, p)[s]
        /\ \A s \in Stream : incomingready'[e][s] = (s \notin copied /\ ReadyAfter(e, p)[s])
        /\ \A d \in Peer : d # e => incomingbufs'[d] = incomingbufs[d] /\ incomingready'[d] = incomingready[d]
    BY <1>6 DEF Process, ChannelTypeOK
  <2>4. /\ BufsAfter(e, p)["file"] \in Seq(FileFragment)
        /\ \A s \in Stream : /\ BufsAfter(e, p)[s] \in Seq(Fragment)
                             /\ ReadyAfter(e, p)[s] => BufsAfter(e, p)[s] # <<>>
    BY StoredFileData
  <2>5. \A d \in Peer : incomingbufs'[d]["file"] \in Seq(FileFragment)
    <3>1. "file" \in Stream
      BY DEF Stream
    <3>2. incomingbufs'[e]["file"] = <<>> \/ incomingbufs'[e]["file"] = BufsAfter(e, p)["file"]
      BY <2>3, <3>1
    <3>3. <<>> \in Seq(FileFragment) /\ BufsAfter(e, p)["file"] \in Seq(FileFragment)
      BY <2>4
    <3>. QED BY <2>3, <3>2, <3>3 DEF FileDataInv
  <2>6. ASSUME NEW d \in Peer, NEW s \in Stream, incomingready'[d][s] PROVE incomingbufs'[d][s] # <<>>
    <3>1. CASE d = e
      <4>1. incomingready'[e][s]
        BY <2>6, <3>1
      <4>2. s \notin copied /\ ReadyAfter(e, p)[s]
        BY <2>3, <4>1, Zenon
      <4>3. incomingbufs'[e][s] = BufsAfter(e, p)[s]
        BY <2>3, <4>2, Zenon
      <4>4. ReadyAfter(e, p)[s] => BufsAfter(e, p)[s] # <<>>
        BY <2>4
      <4>5. BufsAfter(e, p)[s] # <<>>
        BY <4>2, <4>4, Zenon
      <4>. QED BY <3>1, <4>3, <4>5
    <3>2. CASE d # e
      BY <2>3, <2>6, <3>2 DEF FileDataInv
    <3>. QED BY <3>1, <3>2
  <2>. QED BY <2>1, <2>2, <2>5, <2>6 DEF FileDataInv
<1>7. ASSUME NEW e \in Peer, NEW copied \in SUBSET Stream, CopyFragments(e, copied) PROVE FileDataInv'
  <2>1. UNCHANGED <<waitlist, fragbufs, net, reliable>>
    BY <1>7 DEF CopyFragments, queueVars
  <2>2. /\ \A s \in Stream : incomingbufs'[e][s] = IF s \in copied THEN <<>> ELSE incomingbufs[e][s]
        /\ \A s \in Stream : incomingready'[e][s] = (s \notin copied /\ incomingready[e][s])
        /\ \A d \in Peer : d # e => incomingbufs'[d] = incomingbufs[d] /\ incomingready'[d] = incomingready[d]
    BY <1>7 DEF CopyFragments, ChannelTypeOK
  <2>3. \A d \in Peer : incomingbufs'[d]["file"] \in Seq(FileFragment)
    <3>1. "file" \in Stream
      BY DEF Stream
    <3>2. incomingbufs'[e]["file"] = <<>> \/ incomingbufs'[e]["file"] = incomingbufs[e]["file"]
      BY <2>2, <3>1
    <3>3. <<>> \in Seq(FileFragment) /\ incomingbufs[e]["file"] \in Seq(FileFragment)
      BY DEF FileDataInv
    <3>. QED BY <2>2, <3>2, <3>3 DEF FileDataInv
  <2>4. \A d \in Peer, s \in Stream : incomingready'[d][s] => incomingbufs'[d][s] # <<>>
    BY <2>2 DEF FileDataInv
  <2>. QED BY <2>1, <2>3, <2>4 DEF FileDataInv
<1>8. ASSUME UNCHANGED chanVars PROVE FileDataInv'
  BY <1>8 DEF chanVars, queueVars, recvVars, FileDataInv
<1>. QED BY <1>1, <1>2, <1>3, <1>4, <1>5, <1>6, <1>7, <1>8 DEF ChannelStep

File == [name : FileName, content : Seq(Unit)]

\* The hosts' types, and what they rest on.
HostsInv ==
    /\ TypeInv /\ FileDataInv
    /\ active \in BOOLEAN /\ spawned \in BOOLEAN
    /\ send_net_message \in BOOLEAN /\ reconnect \in BOOLEAN
    /\ fileQueue \in [Peer -> SUBSET FileName]
    /\ delivered \in [Peer -> Seq(Unit)]
    /\ files \in [Peer -> SUBSET File]

\* What is taken over from well formed lists.
LEMMA CopiedTypes ==
    ASSUME NEW e \in Peer, NEW bufs, NEW ready, NEW copied \in SUBSET Stream,
           copied \subseteq Ready(ready),
           \A s \in Stream : bufs[s] \in Seq(Fragment) /\ (ready[s] => bufs[s] # <<>>),
           bufs["file"] \in Seq(FileFragment)
    PROVE  CopiedCommands(bufs, copied) \in Seq(Unit) /\ CopiedFiles(e, bufs, copied) \in SUBSET File
<1>1. "normal" \in Stream /\ "file" \in Stream
  BY DEF Stream
<1>2. ASSUME NEW f \in Fragment PROVE f.data \in Seq(Unit) /\ f.data # <<>>
  BY DEF Fragment, Chunk
<1>3. Reassembled(bufs["normal"]) \in Seq(Unit)
  <2>. DEFINE list == bufs["normal"]
  <2>1. list \in Seq(Fragment)
    BY <1>1
  <2>. HIDE DEF list
  <2>2. Len(list) \in Nat /\ DOMAIN list = 1 .. Len(list) /\ \A i \in DOMAIN list : list[i] \in Fragment
    BY <2>1
  <2>3. \A i \in DOMAIN list : list[i].data \in Seq(Unit) /\ list[i].data # <<>>
    BY <1>2, <2>2
  <2>4. Reassembled(list) \in Seq(Unit)
    BY <2>2, <2>3, ReassembledType
  <2>. QED BY <2>4 DEF list
<1>4. CopiedCommands(bufs, copied) \in Seq(Unit)
  <2>1. <<>> \in Seq(Unit)
    OBVIOUS
  <2>. QED BY <1>3, <2>1 DEF CopiedCommands
<1>5. ASSUME "file" \in copied
      PROVE  LET data == Reassembled(bufs["file"])
             IN  [name |-> data[1][1], content |-> Tail(data)] \in File
  <2>. DEFINE list == bufs["file"]
              data == Reassembled(list)
  <2>1. list \in Seq(FileFragment) /\ list \in Seq(Fragment) /\ list # <<>>
    BY <1>1, <1>5 DEF Ready
  <2>. HIDE DEF list
  <2>2. Len(list) \in Nat /\ Len(list) # 0 /\ DOMAIN list = 1 .. Len(list)
        /\ \A i \in DOMAIN list : list[i] \in Fragment /\ list[i] \in FileFragment
    BY <2>1
  <2>3. \A i \in DOMAIN list : /\ list[i].data \in Seq(Unit) /\ list[i].data # <<>>
                               /\ list[i].data \in Seq(FileUnit)
    BY <1>2, <2>2 DEF FileFragment
  <2>4. data \in Seq(Unit)
    BY <2>2, <2>3, ReassembledType
  <2>5. data \in Seq(FileUnit) /\ data # <<>>
    BY <2>2, <2>3, ReassembledType
  <2>. HIDE DEF data
  <2>6. data[1] \in FileUnit /\ Tail(data) \in Seq(Unit)
    BY <2>4, <2>5
  <2>7. data[1][1] \in FileName
    BY <2>6 DEF FileUnit
  <2>8. [name |-> data[1][1], content |-> Tail(data)] \in File
    BY <2>6, <2>7 DEF File
  <2>. QED BY <2>8 DEF data, list
<1>6. CopiedFiles(e, bufs, copied) \in SUBSET File
  BY <1>5 DEF CopiedFiles
<1>. QED BY <1>4, <1>6

LEMMA HostsInit == Init => HostsInv
<1>. SUFFICES ASSUME Init PROVE HostsInv
  OBVIOUS
<1>1. PICK start \in ServerSequences : ChannelInit(start)
  BY DEF Init
<1>2. FileDataInv
  <2>1. \A e \in Peer : /\ waitlist[e]["file"] = <<>> /\ fragbufs[e]["file"] = <<>>
                        /\ reliable[e] = EmptyPayload /\ incomingbufs[e]["file"] = <<>>
                        /\ \A s \in Stream : ~incomingready[e][s]
    BY <1>1 DEF ChannelInit, Stream
  <2>2. net = {}
    BY <1>1 DEF ChannelInit
  <2>3. <<>> \in Seq(Seq(FileFragbuf)) /\ <<>> \in Seq(FileFragbuf) /\ <<>> \in Seq(FileFragment)
    OBVIOUS
  <2>. QED BY <2>1, <2>2, <2>3, EmptyFileData DEF FileDataInv
<1>3. TypeInv
  BY TypeInit
<1>4. /\ active \in BOOLEAN /\ spawned \in BOOLEAN
      /\ send_net_message \in BOOLEAN /\ reconnect \in BOOLEAN
  BY HostAssumption DEF Init
<1>5. fileQueue \in [Peer -> SUBSET FileName] /\ files \in [Peer -> SUBSET File]
  BY DEF Init
<1>6. delivered \in [Peer -> Seq(Unit)]
  <2>1. <<>> \in Seq(Unit) /\ delivered = [e \in Peer |-> <<>>]
    BY DEF Init
  <2>. QED BY <2>1, Zenon
<1>. QED BY <1>2, <1>3, <1>4, <1>5, <1>6 DEF HostsInv

LEMMA HostsStep == HostsInv /\ [Next]_vars => HostsInv'
<1>. SUFFICES ASSUME HostsInv, [Next]_vars PROVE HostsInv'
  OBVIOUS
<1>1. TypeInv' /\ ChannelStep /\ ChannelTypeOK
  BY TypeStep DEF HostsInv, TypeInv
<1>2. FileDataInv'
  BY <1>1, FileDataStep DEF HostsInv
<1>. DEFINE Flags == /\ active' \in BOOLEAN /\ spawned' \in BOOLEAN
                     /\ send_net_message' \in BOOLEAN /\ reconnect' \in BOOLEAN
            Data  == /\ fileQueue' \in [Peer -> SUBSET FileName]
                     /\ delivered' \in [Peer -> Seq(Unit)]
                     /\ files' \in [Peer -> SUBSET File]
<1>3. \A p \in net : p.unreliable \in BOOLEAN /\ p \in Packet
  BY <1>1 DEF ChannelTypeOK, Packet
<1>4. ASSUME UNCHANGED hostVars PROVE Flags
  BY <1>4 DEF HostsInv, hostVars, stateVars
<1>5. ASSUME UNCHANGED <<fileQueue, delivered, files>> PROVE Data
  BY <1>5 DEF HostsInv
<1>6. ASSUME NEW e \in Peer, WriteCommand(e) PROVE Flags /\ Data
  BY <1>4, <1>5, <1>6 DEF WriteCommand
<1>7. ASSUME NEW e \in Peer, NEW k \in BlockSizes, SendBlock(e, k) PROVE Flags /\ Data
  BY <1>4, <1>5, <1>7 DEF SendBlock
<1>8. ASSUME NEW e \in Peer, NEW name \in FilesOf[e], NEW inMemory \in BOOLEAN,
             SendFile(e, name, inMemory)
      PROVE  Flags /\ Data
  <2>1. name \in FileName
    BY FileAssumption
  <2>2. fileQueue' = [fileQueue EXCEPT ![e] = @ \union {name}] /\ UNCHANGED <<hostVars, delivered, files>>
    BY <1>8 DEF SendFile
  <2>. QED BY <1>4, <2>1, <2>2 DEF HostsInv
<1>9. ASSUME ClientWritePacket PROVE Flags /\ Data
  BY <1>4, <1>5, <1>9 DEF ClientWritePacket, dataVars
<1>10. ASSUME NEW p \in net, ClientReadPacket(p) PROVE Flags /\ Data
  <2>1. Flags
    <3>1. OutOfPlace(BufsAfter("client", p), p.payload.frag) \in BOOLEAN
      BY DEF OutOfPlace
    <3>. QED BY <1>3, <1>10, <3>1 DEF ClientReadPacket, HostsInv
  <2>2. p.payload.regular \in Seq(Unit)
    BY <1>3 DEF Packet, Payload
  <2>3. delivered["client"] \o p.payload.regular \in Seq(Unit)
    BY <2>2 DEF HostsInv, Peer
  <2>. QED BY <1>10, <2>1, <2>3 DEF ClientReadPacket, HostsInv
<1>11. ASSUME ClientCopyFragments PROVE Flags /\ Data
  <2>. DEFINE copied == Ready(incomingready["client"])
              bufs == incomingbufs["client"]
              commands == CopiedCommands(bufs, copied)
              new == CopiedFiles("client", bufs, copied)
  <2>1. commands \in Seq(Unit) /\ new \in SUBSET File
    <3>1. "client" \in Peer /\ copied \in SUBSET Stream
      BY DEF Peer, Ready
    <3>2. /\ \A s \in Stream : bufs[s] \in Seq(Fragment) /\ (incomingready["client"][s] => bufs[s] # <<>>)
          /\ bufs["file"] \in Seq(FileFragment)
      BY <1>1, <3>1 DEF HostsInv, FileDataInv, ChannelTypeOK
    <3>. DEFINE ready == incomingready["client"]
    <3>3. copied \subseteq Ready(ready)
      OBVIOUS
    <3>. HIDE DEF bufs, ready, copied
    <3>4. \A s \in Stream : bufs[s] \in Seq(Fragment) /\ (ready[s] => bufs[s] # <<>>)
      BY <3>2 DEF ready
    <3>. QED BY <3>1, <3>2, <3>3, <3>4, CopiedTypes
  <2>2. /\ delivered' = [delivered EXCEPT !["client"] = @ \o commands]
        /\ files' = [files EXCEPT !["client"] = @ \union new]
        /\ UNCHANGED <<hostVars, fileQueue>>
    BY <1>11 DEF ClientCopyFragments
  <2>. HIDE DEF commands, new
  <2>3. delivered["client"] \o commands \in Seq(Unit)
    BY <2>1 DEF HostsInv, Peer
  <2>. QED BY <1>4, <2>1, <2>2, <2>3 DEF HostsInv
<1>12. ASSUME NEW p \in net, ServerReadPacket(p) PROVE Flags /\ Data
  <2>. DEFINE ready == ReadyAfter("server", p)
              copied == IF LeavesPayload(p) THEN Ready(ready) ELSE {}
              bufs == BufsAfter("server", p)
              taken == CopiedCommands(bufs, copied)
              commands == p.payload.regular \o taken
              new == CopiedFiles("server", bufs, copied)
  <2>1. taken \in Seq(Unit) /\ new \in SUBSET File
    <3>1. "server" \in Peer /\ copied \in SUBSET Stream /\ copied \subseteq Ready(ready)
      BY DEF Peer, Ready
    <3>2. /\ \A s \in Stream : /\ bufs[s] \in Seq(Fragment)
                               /\ ready[s] => bufs[s] # <<>>
          /\ bufs["file"] \in Seq(FileFragment)
      BY <1>1, <3>1, StoredFileData DEF HostsInv
    <3>. HIDE DEF bufs, ready, copied
    <3>3. \A s \in Stream : bufs[s] \in Seq(Fragment) /\ (ready[s] => bufs[s] # <<>>)
      BY <3>2
    <3>. QED BY <3>1, <3>2, <3>3, CopiedTypes
  <2>2. /\ delivered' = [delivered EXCEPT !["server"] = @ \o commands]
        /\ files' = [files EXCEPT !["server"] = @ \union new]
        /\ UNCHANGED <<active, reconnect, fileQueue>>
        /\ spawned' \in {spawned, spawned \/ commands # <<>>}
        /\ send_net_message' = (send_net_message \/ (~spawned /\ LeavesPayload(p)))
    BY <1>12 DEF ServerReadPacket
  <2>3. p.payload.regular \in Seq(Unit)
    BY <1>3 DEF Packet, Payload
  <2>. HIDE DEF taken, new
  <2>4. commands \in Seq(Unit)
    BY <2>1, <2>3
  <2>. HIDE DEF commands
  <2>5. delivered["server"] \o commands \in Seq(Unit)
    BY <2>4 DEF HostsInv, Peer
  <2>6. Flags
    BY <2>2 DEF HostsInv
  <2>. QED BY <2>1, <2>2, <2>5, <2>6 DEF HostsInv
<1>13. ASSUME NEW k \in BroadcastSizes, ServerUpdateToReliable(k) PROVE Flags /\ Data
  BY <1>4, <1>5, <1>13 DEF ServerUpdateToReliable
<1>14. ASSUME NEW datagram \in DatagramSizes, ServerSendClientMessages(datagram) PROVE Flags /\ Data
  <2>1. Data
    BY <1>5, <1>14 DEF ServerSendClientMessages, dataVars
  <2>2. Flags
    BY <1>14 DEF ServerSendClientMessages, HostsInv, stateVars
  <2>. QED BY <2>1, <2>2
<1>15. ASSUME ServerForgetsReply PROVE Flags /\ Data
  <2>1. Data
    BY <1>5, <1>15 DEF ServerForgetsReply, dataVars
  <2>2. Flags
    BY <1>15 DEF ServerForgetsReply, HostsInv, stateVars
  <2>. QED BY <2>1, <2>2
<1>16. ASSUME UNCHANGED vars PROVE Flags /\ Data
  BY <1>4, <1>5, <1>16 DEF vars, dataVars
<1>17. Flags /\ Data
  <2>. HIDE DEF Flags, Data
  <2>. QED BY <1>6, <1>7, <1>8, <1>9, <1>10, <1>11, <1>12, <1>13, <1>14, <1>15, <1>16
           DEF Next, Produce, Client, Server
<1>. QED BY <1>1, <1>2, <1>17 DEF HostsInv

\* The hosts keep their types: in particular every file that is written to a disk
\* has the name of a file, whatever the network does with its fragments.
THEOREM HostsTypeCorrect == Spec => []HostsTypeOK
<1>1. HostsInv => HostsTypeOK
  <2>. SUFFICES ASSUME HostsInv PROVE HostsTypeOK
    OBVIOUS
  <2>1. ASSUME NEW e \in Peer, NEW f \in files[e] PROVE f.name \in FileName /\ f.content \in Seq(Unit)
    <3>1. f \in File
      BY DEF HostsInv
    <3>. QED BY <3>1 DEF File
  <2>. QED BY <2>1 DEF HostsInv, HostsTypeOK, TypeInv
<1>. QED BY <1>1, HostsInit, HostsStep, PTL DEF Spec
=============================================================================
