-------------------------- MODULE CompressionProofs --------------------------
(***************************************************************************)
(* Each end parses what the other one wrote for it (ParsedAsWritten), for   *)
(* any number of clients and commands and any sizes of the buffers and     *)
(* messages, if the other end decompresses what it compresses, and until   *)
(* it gets as regular data what has been compressed for another client.    *)
(***************************************************************************)
EXTENDS SplitCompression, SequenceTheorems, FiniteSetTheorems, TLAPS

Unit     == Seq(Nat) \ {<<>>}
Buffer   == Seq(Unit)
Command  == {<<n>> : n \in Nat}
Commands == Seq(Command)

\* What w holds from the element after a to b.
Piece(w, a, b) == SubSeq(w, a + 1, b)

\* The blocks of q hold, one after the other, what w has between a and b.
Laid(e, c, q, w, a, b) ==
    \E cut \in [0 .. Len(q) -> Nat] :
        /\ cut[0] = a /\ cut[Len(q)] = b
        /\ \A i, j \in 0 .. Len(q) : i <= j => cut[i] <= cut[j]
        /\ \A i \in 1 .. Len(q) : Received(Other(e), c, q[i]) = Piece(w, cut[i - 1], cut[i])

\* What has been parsed, what is in the blocks of q and what is in the buffer
\* make up what was written.
Flows(e, c, p, q, buffer, w) ==
    /\ p \in Commands /\ q \in Seq(Buffer) /\ buffer \in Commands /\ w \in Commands
    /\ Len(p) + Len(buffer) <= Len(w)
    /\ p = Piece(w, 0, Len(p))
    /\ Laid(e, c, q, w, Len(p), Len(w) - Len(buffer))
    /\ buffer = Piece(w, Len(w) - Len(buffer), Len(w))

\* The channel has not been given another client's compressed bytes.
Whole(e, c) == e = "server" => c \notin spoiled

-----------------------------------------------------------------------------
(***************************************************************************)
(* Pieces of a sequence, and queues of them.                               *)
(***************************************************************************)
LEMMA PieceFacts ==
    ASSUME NEW w \in Commands, NEW a \in Nat, NEW b \in Nat, a <= b, b <= Len(w)
    PROVE  /\ Piece(w, a, b) \in Commands /\ Len(Piece(w, a, b)) = b - a
           /\ \A i \in 1 .. b - a : Piece(w, a, b)[i] = w[a + i]
<1>1. \A i \in a + 1 .. b : w[i] \in Command
  BY ElementOfSeq DEF Commands
<1>2. /\ Piece(w, a, b) \in Commands
      /\ Len(Piece(w, a, b)) = IF a + 1 <= b THEN b - (a + 1) + 1 ELSE 0
      /\ \A i \in 1 .. b - (a + 1) + 1 : Piece(w, a, b)[i] = w[a + 1 + i - 1]
  BY <1>1, SubSeqProperties DEF Piece, Commands
<1>3. Len(Piece(w, a, b)) = b - a
  BY <1>2
<1>4. ASSUME NEW i \in 1 .. b - a PROVE Piece(w, a, b)[i] = w[a + i]
  <2>1. b - (a + 1) + 1 = b - a /\ a + 1 + i - 1 = a + i
    OBVIOUS
  <2> QED BY <1>2, <2>1
<1> QED BY <1>2, <1>3, <1>4

LEMMA PieceJoin ==
    ASSUME NEW w \in Commands, NEW a \in Nat, NEW m \in Nat, NEW b \in Nat,
           a <= m, m <= b, b <= Len(w)
    PROVE  Piece(w, a, m) \o Piece(w, m, b) = Piece(w, a, b)
<1>1. /\ a + 1 \in 1 .. Len(w) + 1 /\ m \in (a + 1) - 1 .. Len(w) /\ b \in m .. Len(w)
  BY LenProperties DEF Commands
<1> QED BY <1>1, ConcatAdjacentSubSeq DEF Piece, Commands

LEMMA PieceFull ==
    ASSUME NEW w \in Commands
    PROVE  Piece(w, 0, Len(w)) = w
  BY SubSeqFull DEF Piece, Commands

LEMMA PieceExtend ==
    ASSUME NEW w \in Commands, NEW v \in Commands, NEW a \in Nat, NEW b \in Nat,
           a <= b, b <= Len(w)
    PROVE  /\ w \o v \in Commands /\ Len(w \o v) = Len(w) + Len(v)
           /\ Piece(w \o v, a, b) = Piece(w, a, b)
           /\ Piece(w \o v, b, Len(w \o v)) = Piece(w, b, Len(w)) \o v
<1> DEFINE t == w \o v
<1>1. /\ t \in Commands /\ Len(t) = Len(w) + Len(v)
      /\ \A i \in 1 .. Len(w) + Len(v) : t[i] = IF i <= Len(w) THEN w[i] ELSE v[i - Len(w)]
  BY ConcatProperties DEF Commands
<1>2. Len(w) \in Nat /\ Len(v) \in Nat /\ Len(w) <= Len(w)
  BY LenProperties DEF Commands
<1> HIDE DEF t
<1>3. Len(t) \in Nat /\ b <= Len(t)
  BY <1>1, <1>2
<1>4. Piece(t, a, b) = Piece(w, a, b)
  <2>1. /\ Piece(t, a, b) \in Commands /\ Len(Piece(t, a, b)) = b - a
        /\ \A i \in 1 .. b - a : Piece(t, a, b)[i] = t[a + i]
    BY <1>1, <1>3, PieceFacts
  <2>2. /\ Piece(w, a, b) \in Commands /\ Len(Piece(w, a, b)) = b - a
        /\ \A i \in 1 .. b - a : Piece(w, a, b)[i] = w[a + i]
    BY PieceFacts
  <2>3. \A i \in 1 .. b - a : t[a + i] = w[a + i]
    BY <1>1, <1>2
  <2> QED BY <2>1, <2>2, <2>3, SeqEqual DEF Commands
<1>5. Piece(t, b, Len(t)) = Piece(w, b, Len(w)) \o v
  <2>1. \A k \in Nat : b <= k /\ k <= Len(t) =>
           /\ Piece(t, b, k) \in Commands /\ Len(Piece(t, b, k)) = k - b
           /\ \A i \in 1 .. k - b : Piece(t, b, k)[i] = t[b + i]
    BY <1>1, PieceFacts
  <2>2. \A k \in Nat : b <= k /\ k <= Len(w) =>
           /\ Piece(w, b, k) \in Commands /\ Len(Piece(w, b, k)) = k - b
           /\ \A i \in 1 .. k - b : Piece(w, b, k)[i] = w[b + i]
    BY PieceFacts
  <2>3. /\ Piece(t, b, Len(t)) \in Commands /\ Len(Piece(t, b, Len(t))) = Len(t) - b
        /\ \A i \in 1 .. Len(t) - b : Piece(t, b, Len(t))[i] = t[b + i]
    BY <1>3, <2>1
  <2>4. /\ Piece(w, b, Len(w)) \in Commands /\ Len(Piece(w, b, Len(w))) = Len(w) - b
        /\ \A i \in 1 .. Len(w) - b : Piece(w, b, Len(w))[i] = w[b + i]
    BY <1>2, <2>2
  <2> DEFINE x == Piece(w, b, Len(w))
             u == x \o v
  <2>5. /\ u \in Commands /\ Len(u) = Len(x) + Len(v)
        /\ \A i \in 1 .. Len(x) + Len(v) : u[i] = IF i <= Len(x) THEN x[i] ELSE v[i - Len(x)]
    BY <2>4, ConcatProperties DEF Commands
  <2>6. ASSUME NEW i \in 1 .. Len(t) - b PROVE t[b + i] = u[i]
    <3>1. CASE i <= Len(w) - b
      <4>1. b + i \in 1 .. Len(w) + Len(v) /\ b + i <= Len(w) /\ i \in 1 .. Len(w) - b
        BY <1>1, <1>2, <3>1
      <4>2. i \in 1 .. Len(x) + Len(v) /\ i <= Len(x)
        BY <1>2, <2>4, <3>1
      <4>3. t[b + i] = w[b + i] /\ x[i] = w[b + i]
        BY <1>1, <2>4, <4>1
      <4> QED BY <2>5, <4>2, <4>3
    <3>2. CASE ~(i <= Len(w) - b)
      <4>1. b + i \in 1 .. Len(w) + Len(v) /\ ~(b + i <= Len(w))
        BY <1>1, <1>2, <3>2
      <4>2. i \in 1 .. Len(x) + Len(v) /\ ~(i <= Len(x)) /\ i - Len(x) = b + i - Len(w)
        BY <1>1, <1>2, <2>4, <3>2
      <4>3. t[b + i] = v[b + i - Len(w)]
        BY <1>1, <4>1
      <4> QED BY <2>5, <4>2, <4>3
    <3> QED BY <3>1, <3>2
  <2>7. Len(u) = Len(t) - b
    BY <1>1, <1>2, <2>4, <2>5
  <2> HIDE DEF u
  <2>8. Piece(t, b, Len(t)) = u
    BY <2>3, <2>5, <2>6, <2>7, SeqEqual DEF Commands
  <2> QED BY <2>8 DEF u
<1> QED BY <1>1, <1>4, <1>5 DEF t

\* A queue grows by a block.
LEMMA LaidMore ==
    ASSUME NEW e, NEW c, NEW q \in Seq(Buffer), NEW x \in Buffer, NEW w \in Commands,
           NEW a \in Nat, NEW m \in Nat, NEW b \in Nat, m <= b,
           Laid(e, c, q, w, a, m), Received(Other(e), c, x) = Piece(w, m, b)
    PROVE  Laid(e, c, q \o <<x>>, w, a, b)
<1>1. PICK cut \in [0 .. Len(q) -> Nat] :
         /\ cut[0] = a /\ cut[Len(q)] = m
         /\ \A i, j \in 0 .. Len(q) : i <= j => cut[i] <= cut[j]
         /\ \A i \in 1 .. Len(q) : Received(Other(e), c, q[i]) = Piece(w, cut[i - 1], cut[i])
  BY DEF Laid
<1> DEFINE n == Len(q)
           p == q \o <<x>>
           new == [i \in 0 .. n + 1 |-> IF i <= n THEN cut[i] ELSE b]
<1>2. /\ p \in Seq(Buffer) /\ Len(p) = n + 1 /\ p[n + 1] = x
      /\ \A i \in 1 .. n : p[i] = q[i]
  <2>1. <<x>> \in Seq(Buffer) /\ Len(<<x>>) = 1 /\ <<x>>[1] = x
    OBVIOUS
  <2> QED BY <2>1, LenProperties, ConcatProperties
<1>3. n \in Nat
  BY LenProperties
<1>4. /\ new \in [0 .. n + 1 -> Nat] /\ new[n + 1] = b
      /\ \A i \in 0 .. n : new[i] = cut[i]
  BY <1>1, <1>3
<1> HIDE DEF n, new, p
<1>5. \A i, j \in 0 .. n + 1 : i <= j => new[i] <= new[j]
  <2> SUFFICES ASSUME NEW i \in 0 .. n + 1, NEW j \in 0 .. n + 1, i <= j
               PROVE  new[i] <= new[j]
    OBVIOUS
  <2>1. CASE j <= n
    BY <1>1, <1>3, <1>4, <2>1 DEF n
  <2>2. CASE i <= n /\ j = n + 1
    <3>1. i \in 0 .. n /\ n \in 0 .. n
      BY <1>3, <2>2
    <3>2. cut[i] <= cut[n] /\ cut[n] = m /\ cut[i] \in Nat
      BY <1>1, <2>2, <3>1 DEF n
    <3> QED BY <1>3, <1>4, <2>2, <3>1, <3>2
  <2>3. CASE i = n + 1 /\ j = n + 1
    BY <1>4, <2>3
  <2> QED BY <1>3, <2>1, <2>2, <2>3
<1>6. ASSUME NEW i \in 1 .. n + 1
      PROVE  Received(Other(e), c, p[i]) = Piece(w, new[i - 1], new[i])
  <2>1. CASE i <= n
    <3>1. i - 1 \in 0 .. n /\ i \in 0 .. n /\ i \in 1 .. n
      BY <1>3, <2>1
    <3>2. new[i - 1] = cut[i - 1] /\ new[i] = cut[i] /\ p[i] = q[i]
      BY <1>2, <1>4, <3>1
    <3> QED BY <1>1, <3>1, <3>2 DEF n
  <2>2. CASE i = n + 1
    <3>1. new[i - 1] = m /\ new[i] = b
      BY <1>1, <1>3, <1>4, <2>2 DEF n
    <3> QED BY <1>2, <2>2, <3>1
  <2> QED BY <1>3, <2>1, <2>2
<1>7. new[0] = a
  BY <1>1, <1>3, <1>4 DEF n
<1>8. Laid(e, c, p, w, a, b)
  BY <1>2, <1>4, <1>5, <1>6, <1>7 DEF Laid
<1> QED BY <1>8 DEF p

\* A queue loses its first block.
LEMMA LaidHead ==
    ASSUME NEW e, NEW c, NEW q \in Seq(Buffer), q # <<>>, NEW w \in Commands,
           NEW a \in Nat, NEW b \in Nat, Laid(e, c, q, w, a, b)
    PROVE  \E m \in a .. b : /\ Received(Other(e), c, Head(q)) = Piece(w, a, m)
                             /\ Laid(e, c, Tail(q), w, m, b)
<1>1. PICK cut \in [0 .. Len(q) -> Nat] :
         /\ cut[0] = a /\ cut[Len(q)] = b
         /\ \A i, j \in 0 .. Len(q) : i <= j => cut[i] <= cut[j]
         /\ \A i \in 1 .. Len(q) : Received(Other(e), c, q[i]) = Piece(w, cut[i - 1], cut[i])
  BY DEF Laid
<1> DEFINE n == Len(q)
           p == Tail(q)
           new == [i \in 0 .. n - 1 |-> cut[i + 1]]
<1>2. n \in Nat \ {0}
  BY EmptySeq
<1>3. /\ p \in Seq(Buffer) /\ Len(p) = n - 1 /\ Head(q) = q[1]
      /\ \A i \in 1 .. n - 1 : p[i] = q[i + 1]
  BY HeadTailProperties
<1>4. /\ new \in [0 .. n - 1 -> Nat]
      /\ \A i \in 0 .. n - 1 : new[i] = cut[i + 1] /\ i + 1 \in 0 .. n
  BY <1>1, <1>2
<1> HIDE DEF n, new, p
<1>5. cut[1] \in a .. b
  BY <1>1, <1>2 DEF n
<1>6. Received(Other(e), c, Head(q)) = Piece(w, a, cut[1])
  BY <1>1, <1>2, <1>3 DEF n
<1>7. Laid(e, c, p, w, cut[1], b)
  <2>1. new[0] = cut[1] /\ new[n - 1] = b
    BY <1>1, <1>2, <1>4 DEF n
  <2>2. ASSUME NEW i \in 0 .. n - 1, NEW j \in 0 .. n - 1, i <= j PROVE new[i] <= new[j]
    BY <1>1, <1>2, <1>4, <2>2 DEF n
  <2>3. ASSUME NEW i \in 1 .. n - 1
        PROVE  Received(Other(e), c, p[i]) = Piece(w, new[i - 1], new[i])
    <3>1. /\ i - 1 \in 0 .. n - 1 /\ i \in 0 .. n - 1 /\ i + 1 \in 1 .. n
          /\ i - 1 + 1 = i /\ i + 1 - 1 = i
      BY <1>2
    <3>2. new[i - 1] = cut[i] /\ new[i] = cut[i + 1]
      BY <1>4, <3>1
    <3>3. p[i] = q[i + 1]
      BY <1>3
    <3>4. Received(Other(e), c, q[i + 1]) = Piece(w, cut[i + 1 - 1], cut[i + 1])
      BY <1>1, <3>1 DEF n
    <3> QED BY <3>1, <3>2, <3>3, <3>4
  <2> QED BY <1>3, <1>4, <2>1, <2>2, <2>3 DEF Laid
<1> QED BY <1>5, <1>6, <1>7 DEF p

\* More is written.
LEMMA LaidExtend ==
    ASSUME NEW e, NEW c, NEW q \in Seq(Buffer), NEW w \in Commands, NEW v \in Commands,
           NEW a \in Nat, NEW b \in Nat, b <= Len(w), Laid(e, c, q, w, a, b)
    PROVE  Laid(e, c, q, w \o v, a, b)
<1>1. PICK cut \in [0 .. Len(q) -> Nat] :
         /\ cut[0] = a /\ cut[Len(q)] = b
         /\ \A i, j \in 0 .. Len(q) : i <= j => cut[i] <= cut[j]
         /\ \A i \in 1 .. Len(q) : Received(Other(e), c, q[i]) = Piece(w, cut[i - 1], cut[i])
  BY DEF Laid
<1>2. Len(q) \in Nat /\ Len(w) \in Nat
  BY LenProperties DEF Commands
<1>3. ASSUME NEW i \in 1 .. Len(q)
      PROVE  Received(Other(e), c, q[i]) = Piece(w \o v, cut[i - 1], cut[i])
  <2>1. i - 1 \in 0 .. Len(q) /\ i \in 0 .. Len(q)
    BY <1>2
  <2>2. cut[i - 1] <= cut[i] /\ cut[i] <= cut[Len(q)] /\ cut[i - 1] \in Nat /\ cut[i] \in Nat
    BY <1>1, <1>2, <2>1
  <2>3. cut[i] <= Len(w)
    BY <1>1, <1>2, <2>2
  <2> QED BY <1>1, <2>2, <2>3, PieceExtend
<1> QED BY <1>1, <1>3 DEF Laid

LEMMA LaidNone ==
    ASSUME NEW e, NEW c, NEW w, NEW a, NEW b
    PROVE  /\ Laid(e, c, <<>>, w, a, b) => a = b
           /\ a \in Nat => Laid(e, c, <<>>, w, a, a)
<1>1. Len(<<>>) = 0 /\ 0 .. 0 = {0} /\ 1 .. 0 = {}
  OBVIOUS
<1>2. ASSUME a \in Nat PROVE Laid(e, c, <<>>, w, a, a)
  <2> DEFINE cut == [i \in 0 .. 0 |-> a]
  <2>1. cut \in [0 .. 0 -> Nat] /\ cut[0] = a
    BY <1>2
  <2>2. \A i, j \in 0 .. 0 : cut[i] <= cut[j]
    BY <1>2
  <2> HIDE DEF cut
  <2> QED BY <1>1, <2>1, <2>2 DEF Laid
<1>3. Laid(e, c, <<>>, w, a, b) => a = b
  BY <1>1 DEF Laid
<1> QED BY <1>2, <1>3

-----------------------------------------------------------------------------
(***************************************************************************)
(* What the operations of a channel do to the flow.                        *)
(***************************************************************************)
LEMMA UnitFacts ==
    /\ \A u \in Unit : Len(u) \in Nat \ {0} /\ u \in Seq(Nat) /\ u[1] \in Nat
    /\ \A u \in Command : u \in Unit /\ Len(u) = 1 /\ u = <<u[1]>>
    /\ \A n \in Nat : <<n>> \in Command
<1>1. \A u \in Unit : Len(u) \in Nat \ {0} /\ u \in Seq(Nat) /\ u[1] \in Nat
  BY EmptySeq, ElementOfSeq DEF Unit
<1>2. ASSUME NEW u \in Command PROVE u \in Unit /\ Len(u) = 1 /\ u = <<u[1]>>
  <2>1. PICK n \in Nat : u = <<n>>
    BY DEF Command
  <2>2. <<n>> \in Seq(Nat) /\ <<n>> # <<>> /\ Len(<<n>>) = 1 /\ <<n>>[1] = n
    BY <2>1
  <2> QED BY <2>1, <2>2 DEF Unit
<1>3. \A n \in Nat : <<n>> \in Command
  BY DEF Command
<1> QED BY <1>1, <1>2, <1>3

LEMMA CommandsAreUnits == Commands \subseteq Buffer
<1>1. Command \subseteq Unit
  BY UnitFacts
<1> QED BY <1>1, SeqMonotonic DEF Commands, Buffer

LEMMA UnpackedType ==
    ASSUME NEW u \in Unit
    PROVE  Unpacked(u) \in Commands /\ Len(Unpacked(u)) = Len(u)
           /\ \A i \in 1 .. Len(u) : Unpacked(u)[i] = <<u[i]>>
<1>1. DOMAIN u = 1 .. Len(u) /\ Len(u) \in Nat /\ \A i \in 1 .. Len(u) : u[i] \in Nat
  BY UnitFacts, LenProperties, ElementOfSeq
<1>2. \A i \in 1 .. Len(u) : <<u[i]>> \in Command
  BY <1>1, UnitFacts
<1> QED BY <1>1, <1>2 DEF Unpacked, Commands

LEMMA PackedType ==
    ASSUME NEW b \in Buffer
    PROVE  Packed(b) \in Seq(Nat) /\ Len(Packed(b)) = Len(b)
           /\ \A i \in 1 .. Len(b) : Packed(b)[i] = IF Len(b[i]) > 1 THEN 0 ELSE b[i][1]
<1>1. DOMAIN b = 1 .. Len(b) /\ Len(b) \in Nat /\ \A i \in 1 .. Len(b) : b[i][1] \in Nat
  BY UnitFacts, LenProperties, ElementOfSeq DEF Buffer
<1> DEFINE at(i) == IF Len(b[i]) > 1 THEN 0 ELSE b[i][1]
<1>2. \A i \in 1 .. Len(b) : at(i) \in Nat
  BY <1>1
<1>3. Packed(b) = [i \in 1 .. Len(b) |-> at(i)]
  BY <1>1 DEF Packed, Garbage
<1> HIDE DEF at
<1>4. /\ Packed(b) \in Seq(Nat) /\ Len(Packed(b)) = Len(b)
      /\ \A i \in 1 .. Len(b) : Packed(b)[i] = at(i)
  BY <1>1, <1>2, <1>3
<1> QED BY <1>4 DEF at

LEMMA CompressedType ==
    ASSUME NEW e, NEW c, NEW b \in Buffer
    PROVE  Compressed(e, c, b) \in Buffer
<1>1. CASE UsesLzss(e, c) /\ ~IsCompressed(b) /\ Len(b) > 1
  <2>1. Packed(b) \in Unit
    BY <1>1, PackedType, EmptySeq DEF Unit
  <2> QED BY <1>1, <2>1 DEF Compressed, Buffer
<1>2. CASE ~(UsesLzss(e, c) /\ ~IsCompressed(b) /\ Len(b) > 1)
  BY <1>2 DEF Compressed
<1> QED BY <1>1, <1>2

LEMMA BlockType ==
    ASSUME NEW e, NEW c, NEW b \in Buffer
    PROVE  Block(e, c, b) \in Seq(Buffer)
<1>1. <<Compressed(e, c, b)>> \in Seq(Buffer)
  BY CompressedType
<1> QED BY <1>1, EmptySeq DEF Block

LEMMA QueuedType ==
    ASSUME NEW e, NEW c, NEW b \in Buffer, NEW d \in Buffer
    PROVE  Queued(e, c, b, d) \in Seq(Buffer)
  BY BlockType, ConcatProperties DEF Queued

LEMMA ReceivedType ==
    ASSUME NEW e, NEW c, NEW b \in Buffer
    PROVE  Received(e, c, b) \in Buffer
<1>1. CASE IsCompressed(b)
  <2>1. b[1] \in Unit
    BY <1>1, EmptySeq, ElementOfSeq DEF IsCompressed, Buffer
  <2>2. Unpacked(b[1]) \in Buffer
    BY <2>1, UnpackedType, CommandsAreUnits
  <2> QED BY <2>2 DEF Received
<1>2. CASE ~IsCompressed(b)
  BY <1>2 DEF Received
<1> QED BY <1>1, <1>2

\* Commands that go out as a block arrive as they were.
LEMMA BlockArrives ==
    ASSUME NEW e \in Peer, NEW c \in Slot, Understood(e, c), NEW b \in Commands
    PROVE  Received(Other(e), c, Compressed(e, c, b)) = b
<1>1. /\ b \in Buffer /\ Len(b) \in Nat
      /\ \A i \in 1 .. Len(b) : b[i] \in Command /\ Len(b[i]) = 1 /\ b[i] = <<b[i][1]>>
  BY CommandsAreUnits, LenProperties, ElementOfSeq, UnitFacts DEF Commands
<1>2. ~IsCompressed(b)
  <2>1. b # <<>> => 1 \in 1 .. Len(b)
    BY <1>1, EmptySeq DEF Commands
  <2>2. ~(1 > 1)
    OBVIOUS
  <2>3. b # <<>> => Len(b[1]) = 1
    BY <1>1, <2>1
  <2> QED BY <2>2, <2>3, Zenon DEF IsCompressed
<1>3. CASE UsesLzss(e, c) /\ Len(b) > 1
  <2> DEFINE u == Packed(b)
  <2>1. /\ u \in Seq(Nat) /\ Len(u) = Len(b)
        /\ \A i \in 1 .. Len(b) : u[i] = b[i][1]
    <3>1. /\ u \in Seq(Nat) /\ Len(u) = Len(b)
          /\ \A i \in 1 .. Len(b) : u[i] = IF Len(b[i]) > 1 THEN 0 ELSE b[i][1]
      BY <1>1, PackedType
    <3>2. ~(1 > 1) /\ \A i \in 1 .. Len(b) : Len(b[i]) = 1
      BY <1>1
    <3> QED BY <3>1, <3>2
  <2>2. u \in Unit
    BY <1>3, <2>1, EmptySeq DEF Unit
  <2> HIDE DEF u
  <2>3. Unpacked(u) = b
    <3>1. /\ Unpacked(u) \in Commands /\ Len(Unpacked(u)) = Len(b)
          /\ \A i \in 1 .. Len(b) : Unpacked(u)[i] = b[i]
      <4>1. /\ Unpacked(u) \in Commands /\ Len(Unpacked(u)) = Len(u)
            /\ \A i \in 1 .. Len(u) : Unpacked(u)[i] = <<u[i]>>
        BY <2>2, UnpackedType
      <4>2. \A i \in 1 .. Len(b) : <<u[i]>> = b[i]
        BY <1>1, <2>1
      <4> QED BY <2>1, <4>1, <4>2
    <3> QED BY <3>1, SeqEqual DEF Commands
  <2>4. Compressed(e, c, b) = <<u>>
    BY <1>2, <1>3 DEF Compressed, u
  <2>5. IsCompressed(<<u>>) /\ <<u>>[1] = u
    BY <1>3, <2>1 DEF IsCompressed
  <2>6. UsesLzss(Other(e), c)
    BY <1>3 DEF Understood
  <2> QED BY <2>3, <2>4, <2>5, <2>6 DEF Received
<1>4. CASE ~(UsesLzss(e, c) /\ Len(b) > 1)
  BY <1>2, <1>4 DEF Compressed, Received
<1> QED BY <1>3, <1>4

\* Commands are written to the buffer.
LEMMA FlowsWrite ==
    ASSUME NEW e, NEW c, NEW p, NEW q, NEW b, NEW w, Flows(e, c, p, q, b, w),
           NEW v \in Commands
    PROVE  Flows(e, c, p, q, b \o v, w \o v)
<1>1. /\ p \in Commands /\ q \in Seq(Buffer) /\ b \in Commands /\ w \in Commands
      /\ Len(p) + Len(b) <= Len(w) /\ p = Piece(w, 0, Len(p))
      /\ Laid(e, c, q, w, Len(p), Len(w) - Len(b))
      /\ b = Piece(w, Len(w) - Len(b), Len(w))
  BY DEF Flows
<1>2. Len(p) \in Nat /\ Len(b) \in Nat /\ Len(w) \in Nat /\ Len(v) \in Nat
  BY <1>1, LenProperties DEF Commands
<1> DEFINE k == Len(w) - Len(b)
<1>3. k \in Nat /\ Len(p) <= k /\ k <= Len(w) /\ Len(p) <= Len(w) /\ 0 <= Len(p) /\ 0 \in Nat
  BY <1>1, <1>2
<1>4. /\ b \o v \in Commands /\ Len(b \o v) = Len(b) + Len(v)
      /\ w \o v \in Commands /\ Len(w \o v) = Len(w) + Len(v)
  BY <1>1, ConcatProperties DEF Commands
<1>5. Len(w \o v) - Len(b \o v) = k
  <2>1. \A x, y, z \in Nat : (x + y) - (z + y) = x - z
    OBVIOUS
  <2>2. (Len(w) + Len(v)) - (Len(b) + Len(v)) = Len(w) - Len(b)
    BY <1>2, <2>1
  <2>3. Len(w \o v) - Len(b \o v) = Len(w) - Len(b)
    BY <1>4, <2>2
  <2> QED BY <2>3
<1> HIDE DEF k
<1>6. p = Piece(w \o v, 0, Len(p))
  BY <1>1, <1>2, <1>3, PieceExtend
<1>7. Laid(e, c, q, w \o v, Len(p), k)
  BY <1>1, <1>2, <1>3, LaidExtend DEF k
<1>8. b \o v = Piece(w \o v, k, Len(w \o v))
  <2>1. w \in Commands /\ k \in Nat /\ k <= k /\ k <= Len(w)
    BY <1>1, <1>3
  <2>2. Piece(w \o v, k, Len(w \o v)) = Piece(w, k, Len(w)) \o v
    BY <2>1, PieceExtend
  <2> QED BY <1>1, <2>2 DEF k
<1>9. Len(p) + Len(b \o v) <= Len(w \o v)
  BY <1>1, <1>2, <1>4
<1> QED BY <1>1, <1>4, <1>5, <1>6, <1>7, <1>8, <1>9 DEF Flows

\* The buffer is queued.
LEMMA FlowsQueue ==
    ASSUME NEW e \in Peer, NEW c \in Slot, Understood(e, c),
           NEW p, NEW q, NEW b, NEW w, Flows(e, c, p, q, b, w)
    PROVE  Flows(e, c, p, q \o Block(e, c, b), <<>>, w)
<1>1. /\ p \in Commands /\ q \in Seq(Buffer) /\ b \in Commands /\ w \in Commands
      /\ Len(p) + Len(b) <= Len(w) /\ p = Piece(w, 0, Len(p))
      /\ Laid(e, c, q, w, Len(p), Len(w) - Len(b))
      /\ b = Piece(w, Len(w) - Len(b), Len(w))
  BY DEF Flows
<1>2. Len(p) \in Nat /\ Len(b) \in Nat /\ Len(w) \in Nat
  BY <1>1, LenProperties DEF Commands
<1>3. <<>> \in Commands /\ Len(<<>>) = 0 /\ Len(w) - 0 = Len(w)
  BY <1>2, EmptySeq DEF Commands
<1>4. Piece(w, Len(w), Len(w)) = <<>>
  BY <1>2, SubSeqEmpty DEF Piece
<1>5. Len(p) + 0 <= Len(w)
  BY <1>1, <1>2
<1>6. q \o Block(e, c, b) \in Seq(Buffer)
  BY <1>1, CommandsAreUnits, BlockType, ConcatProperties
<1>7. Laid(e, c, q \o Block(e, c, b), w, Len(p), Len(w))
  <2>1. CASE b = <<>>
    <3>1. Len(w) - Len(b) = Len(w) /\ q \o Block(e, c, b) = q
      BY <1>1, <1>3, <2>1, ConcatEmptySeq DEF Block
    <3> QED BY <1>1, <3>1
  <2>2. CASE b # <<>>
    <3> DEFINE k == Len(w) - Len(b)
               x == Compressed(e, c, b)
    <3>1. k \in Nat /\ k <= Len(w)
      BY <1>1, <1>2
    <3>2. Block(e, c, b) = <<x>>
      BY <2>2 DEF Block
    <3>3. x \in Buffer /\ Received(Other(e), c, x) = b
      BY <1>1, CommandsAreUnits, CompressedType, BlockArrives
    <3>4. Received(Other(e), c, x) = Piece(w, k, Len(w)) /\ Laid(e, c, q, w, Len(p), k)
      BY <1>1, <3>3
    <3> HIDE DEF k, x
    <3> QED BY <1>1, <1>2, <3>1, <3>2, <3>3, <3>4, LaidMore
  <2> QED BY <2>1, <2>2
<1> QED BY <1>1, <1>3, <1>4, <1>5, <1>6, <1>7 DEF Flows

\* A message goes out behind the buffer.
LEMMA FlowsQueued ==
    ASSUME NEW e \in Peer, NEW c \in Slot, Understood(e, c),
           NEW p, NEW q, NEW b, NEW w, Flows(e, c, p, q, b, w), NEW v \in Commands
    PROVE  Flows(e, c, p, q \o Queued(e, c, b, v), <<>>, w \o v)
<1>1. /\ q \in Seq(Buffer) /\ Block(e, c, b) \in Seq(Buffer) /\ Block(e, c, v) \in Seq(Buffer)
  BY CommandsAreUnits, BlockType DEF Flows
<1>2. Flows(e, c, p, q \o Block(e, c, b), <<>>, w)
  BY FlowsQueue
<1>3. <<>> \o v = v
  BY ConcatEmptySeq DEF Commands
<1>4. Flows(e, c, p, q \o Block(e, c, b), v, w \o v)
  BY <1>2, <1>3, FlowsWrite
<1>5. Flows(e, c, p, (q \o Block(e, c, b)) \o Block(e, c, v), <<>>, w \o v)
  BY <1>4, FlowsQueue
<1>6. (q \o Block(e, c, b)) \o Block(e, c, v) = q \o Queued(e, c, b, v)
  BY <1>1, ConcatAssociative DEF Queued
<1> QED BY <1>5, <1>6

\* The first block arrives.
LEMMA FlowsHead ==
    ASSUME NEW e, NEW c, NEW p, NEW q, NEW b, NEW w, Flows(e, c, p, q, b, w), q # <<>>
    PROVE  Flows(e, c, p \o Received(Other(e), c, Head(q)), Tail(q), b, w)
<1>1. /\ p \in Commands /\ q \in Seq(Buffer) /\ b \in Commands /\ w \in Commands
      /\ Len(p) + Len(b) <= Len(w) /\ p = Piece(w, 0, Len(p))
      /\ Laid(e, c, q, w, Len(p), Len(w) - Len(b))
      /\ b = Piece(w, Len(w) - Len(b), Len(w))
  BY DEF Flows
<1>2. Len(p) \in Nat /\ Len(b) \in Nat /\ Len(w) \in Nat
  BY <1>1, LenProperties DEF Commands
<1> DEFINE k == Len(w) - Len(b)
           r == Received(Other(e), c, Head(q))
<1>3. k \in Nat /\ k <= Len(w)
  BY <1>1, <1>2
<1>4. PICK m \in Len(p) .. k : r = Piece(w, Len(p), m) /\ Laid(e, c, Tail(q), w, m, k)
  BY <1>1, <1>2, <1>3, LaidHead
<1>5. m \in Nat /\ Len(p) <= m /\ m <= Len(w) /\ 0 \in Nat /\ 0 <= Len(p) /\ 0 <= m
  BY <1>2, <1>3, <1>4
<1> HIDE DEF k, r
<1>6. p \o r = Piece(w, 0, m)
  <2>1. Piece(w, 0, Len(p)) \o Piece(w, Len(p), m) = Piece(w, 0, m)
    BY <1>1, <1>2, <1>5, <1>4, PieceJoin
  <2> QED BY <1>1, <1>4, <2>1
<1>7. p \o r \in Commands /\ Len(p \o r) = m
  <2>1. Piece(w, 0, m) \in Commands /\ Len(Piece(w, 0, m)) = m - 0
    BY <1>1, <1>5, PieceFacts
  <2> QED BY <1>5, <1>6, <2>1
<1>8. m + Len(b) <= Len(w)
  BY <1>2, <1>4, <1>5 DEF k
<1>9. Tail(q) \in Seq(Buffer)
  BY <1>1, HeadTailProperties
<1> QED BY <1>1, <1>4, <1>6, <1>7, <1>8, <1>9 DEF Flows, k, r

\* The buffer arrives.
LEMMA FlowsBuffer ==
    ASSUME NEW e, NEW c, NEW p, NEW b, NEW w, Flows(e, c, p, <<>>, b, w)
    PROVE  Flows(e, c, p \o b, <<>>, <<>>, w)
<1>1. /\ p \in Commands /\ b \in Commands /\ w \in Commands
      /\ Len(p) + Len(b) <= Len(w) /\ p = Piece(w, 0, Len(p))
      /\ Laid(e, c, <<>>, w, Len(p), Len(w) - Len(b))
      /\ b = Piece(w, Len(w) - Len(b), Len(w))
  BY DEF Flows
<1>2. Len(p) \in Nat /\ Len(b) \in Nat /\ Len(w) \in Nat
  BY <1>1, LenProperties DEF Commands
<1>3. Len(p) = Len(w) - Len(b)
  BY <1>1, LaidNone
<1>4. 0 \in Nat /\ 0 <= Len(p) /\ Len(p) <= Len(w) /\ Len(w) <= Len(w)
  BY <1>1, <1>2
<1>5. p \o b = Piece(w, 0, Len(w))
  <2>1. Piece(w, 0, Len(p)) \o Piece(w, Len(p), Len(w)) = Piece(w, 0, Len(w))
    BY <1>1, <1>2, <1>4, PieceJoin
  <2> QED BY <1>1, <1>3, <2>1
<1>6. p \o b = w
  BY <1>1, <1>5, PieceFull
<1>7. <<>> \in Commands /\ <<>> \in Seq(Buffer) /\ Len(<<>>) = 0 /\ Len(w) - 0 = Len(w)
      /\ Len(w) + 0 <= Len(w)
  BY <1>2, EmptySeq DEF Commands
<1>8. Piece(w, Len(w), Len(w)) = <<>>
  BY <1>2, SubSeqEmpty DEF Piece
<1>9. Laid(e, c, <<>>, w, Len(w), Len(w))
  BY <1>2, LaidNone
<1>10. w = Piece(w, 0, Len(w))
  BY <1>1, PieceFull
<1> QED BY <1>1, <1>6, <1>7, <1>8, <1>9, <1>10 DEF Flows

-----------------------------------------------------------------------------
(***************************************************************************)
(* The inductive invariant.                                                *)
(***************************************************************************)
TypeInv ==
    /\ reliable_datagram \in Commands
    /\ message \in [Peer -> [Slot -> Buffer]]
    /\ blocks \in [Peer -> [Slot -> Seq(Buffer)]]
    /\ written \in [Peer -> [Slot -> Commands]]
    /\ parsed \in [Peer -> [Slot -> Buffer]]
    /\ spoiled \in SUBSET Slot
    /\ last \in [Peer -> Nat]

Flow(e, c) == Flows(e, c, parsed[e][c], blocks[e][c], message[e][c], written[e][c])
FlowInv    == \A e \in Peer, c \in Slot : Understood(e, c) /\ Whole(e, c) => Flow(e, c)
IInv       == TypeInv /\ FlowInv

\* The channel of c at end e stays as it is.
Same(e, c) == /\ parsed'[e][c] = parsed[e][c] /\ blocks'[e][c] = blocks[e][c]
              /\ message'[e][c] = message[e][c] /\ written'[e][c] = written[e][c]

Put(f, e, c, v) == [f EXCEPT ![e][c] = v]

LEMMA NewType ==
    ASSUME TypeInv, NEW e \in Peer, NEW k \in Nat
    PROVE  New(e, k) \in Commands
<1>1. last[e] \in Nat
  BY DEF TypeInv
<1>2. \A i \in 1 .. k : <<last[e] + i>> \in Command
  BY <1>1, UnitFacts
<1> QED BY <1>2 DEF New, Commands

\* One channel changes.
LEMMA OneFlow ==
    ASSUME IInv, NEW e \in Peer, NEW c \in Slot,
           spoiled' = spoiled, Understood(e, c) /\ Whole(e, c) => Flow(e, c)',
           \A d \in Peer, x \in Slot : d # e \/ x # c => Same(d, x)
    PROVE  FlowInv'
<1> SUFFICES ASSUME NEW d \in Peer, NEW x \in Slot, Understood(d, x), Whole(d, x)
             PROVE  Flow(d, x)'
  BY DEF FlowInv, Understood, Whole, UsesLzss, Other
<1>1. CASE d = e /\ x = c
  BY <1>1
<1>2. CASE d # e \/ x # c
  BY <1>2 DEF IInv, FlowInv, Flow, Same
<1> QED BY <1>1, <1>2

-----------------------------------------------------------------------------
(***************************************************************************)
(* The broadcast data.                                                     *)
(***************************************************************************)
\* Induction, in the form that needs no operator parameter.
LEMMA InductiveSet ==
    ASSUME NEW L \in SUBSET Nat, 0 \in L, \A n \in L : n + 1 \in L
    PROVE  \A n \in Nat : n \in L
<1> SUFFICES ASSUME NEW N \in Nat, N \notin L PROVE FALSE
  OBVIOUS
<1> DEFINE A == {n \in L : n < N}
            f == [n \in A |-> n + 1]
<1>1. IsFiniteSet(A) /\ IsFiniteSet(A \ {0}) /\ Cardinality(A \ {0}) < Cardinality(A)
  <2>1. IsFiniteSet(A)
    <3>1. A \in SUBSET Nat
      OBVIOUS
    <3>2. \A s \in A : s <= N
      OBVIOUS
    <3> HIDE DEF A
    <3> QED BY <3>1, <3>2, FS_BoundedSetOfNaturals
  <2>2. 0 \in A
    OBVIOUS
  <2> HIDE DEF A
  <2>3. Cardinality(A) \in Nat /\ Cardinality(A \ {0}) = Cardinality(A) - 1 /\ IsFiniteSet(A \ {0})
    BY <2>1, <2>2, FS_CardinalityType, FS_RemoveElement
  <2> QED BY <2>1, <2>3
<1>2. f \in [A -> A \ {0}]
  <2>1. \A n \in A : n + 1 \in A /\ n + 1 # 0
    OBVIOUS
  <2> QED BY <2>1
<1>3. \E x, y \in A : x # y /\ f[x] = f[y]
  <2> HIDE DEF A, f
  <2> QED BY <1>1, <1>2, FS_PigeonHole
<1> QED BY <1>3

Buffers == [datagram : Buffer, message : [Slot -> Buffer], blocks : [Slot -> Seq(Buffer)],
            spoiled : SUBSET Slot]
AtFirst == [datagram |-> reliable_datagram, message |-> message["server"],
            blocks |-> blocks["server"], spoiled |-> spoiled]

\* g is the function that SentToAll computes, for the first n slots.
Sends(g, n) == g = [c \in 0 .. n |-> IF c = 0 THEN AtFirst ELSE SentTo(g[c - 1], c)]

LEMMA SendsExists == \A n \in Nat : \E g : Sends(g, n)
<1> DEFINE L == {n \in Nat : \E g : Sends(g, n)}
           next(g, i) == SentTo(g[i - 1], i)
<1>1. 0 \in L
  <2> DEFINE g == [i \in 0 .. 0 |-> AtFirst]
             k == [i \in 0 .. 0 |-> IF i = 0 THEN AtFirst ELSE next(g, i)]
  <2>1. g = k
    <3>1. DOMAIN g = 0 .. 0 /\ DOMAIN k = 0 .. 0 /\ \A i \in 0 .. 0 : i = 0
      OBVIOUS
    <3> QED BY <3>1
  <2>2. Sends(g, 0)
    BY <2>1 DEF Sends
  <2> QED BY <2>2
<1>2. ASSUME NEW n \in L PROVE n + 1 \in L
  <2>1. n \in Nat
    OBVIOUS
  <2>2. PICK g : Sends(g, n)
    OBVIOUS
  <2> DEFINE h == [i \in 0 .. n + 1 |-> IF i <= n THEN g[i] ELSE next(g, i)]
             k == [i \in 0 .. n |-> IF i = 0 THEN AtFirst ELSE next(g, i)]
             l == [i \in 0 .. n + 1 |-> IF i = 0 THEN AtFirst ELSE next(h, i)]
  <2>3. g = k
    BY <2>2 DEF Sends
  <2>4. ASSUME NEW i \in 0 .. n + 1 PROVE h[i] = l[i]
    <3>1. i # 0 => h[i - 1] = g[i - 1]
      BY <2>1
    <3>2. i # 0 => next(h, i) = next(g, i)
      BY <3>1
    <3>3. i <= n => i \in 0 .. n /\ k[i] = IF i = 0 THEN AtFirst ELSE next(g, i)
      BY <2>1
    <3>4. h[i] = IF i <= n THEN g[i] ELSE next(g, i)
      OBVIOUS
    <3>5. l[i] = IF i = 0 THEN AtFirst ELSE next(h, i)
      OBVIOUS
    <3>6. i > n => i # 0
      BY <2>1
    <3> HIDE DEF h, k, l, next
    <3> QED BY <2>1, <2>3, <3>2, <3>3, <3>4, <3>5, <3>6
  <2>5. h = l
    <3>1. DOMAIN h = 0 .. n + 1 /\ DOMAIN l = 0 .. n + 1
          /\ h = [i \in DOMAIN h |-> h[i]] /\ l = [i \in DOMAIN l |-> l[i]]
      OBVIOUS
    <3> HIDE DEF h, l
    <3> QED BY <2>4, <3>1
  <2>6. Sends(h, n + 1)
    BY <2>5 DEF Sends
  <2> HIDE DEF h
  <2> QED BY <2>1, <2>6
<1> HIDE DEF L
<1>3. L \in SUBSET Nat
  BY DEF L
<1>4. \A n \in Nat : n \in L
  BY <1>1, <1>2, <1>3, InductiveSet
<1> QED BY <1>4 DEF L

LEMMA SentToAllIs ==
    \E g : /\ SentToAll = g[Slots] /\ g[0] = AtFirst
           /\ \A c \in Slot : g[c] = SentTo(g[c - 1], c)
<1> DEFINE g == CHOOSE g : Sends(g, Slots)
<1>1. Slots \in Nat
  BY SlotAssumption
<1>2. Sends(g, Slots)
  BY <1>1, SendsExists
<1>3. SentToAll = g[Slots]
  BY DEF SentToAll, Sends, AtFirst
<1> HIDE DEF g
<1> DEFINE k == [c \in 0 .. Slots |-> IF c = 0 THEN AtFirst ELSE SentTo(g[c - 1], c)]
<1>4. g = k
  BY <1>2 DEF Sends
<1>5. k[0] = AtFirst
  BY <1>1
<1>6. \A c \in Slot : k[c] = SentTo(g[c - 1], c)
  BY <1>1 DEF Slot
<1> HIDE DEF k
<1> QED BY <1>3, <1>4, <1>5, <1>6

\* Client c gets the broadcast data in one of two ways.
Served(b, c) ==
    \/ /\ b.message[c] = message["server"][c] \o reliable_datagram
       /\ b.blocks[c] = blocks["server"][c]
    \/ /\ b.message[c] = <<>>
       /\ b.blocks[c] = blocks["server"][c] \o
                           Queued("server", c, message["server"][c], reliable_datagram)
Unserved(b, c) == /\ b.message[c] = message["server"][c]
                  /\ b.blocks[c] = blocks["server"][c]

\* What is left of the broadcast data: all of it, or what LZSS made of it.
Left(d) == d = reliable_datagram \/ d = Compressed("server", 1, reliable_datagram)

\* Data that has been compressed goes out as it is.
LEMMA CompressedOnce ==
    ASSUME TypeInv, NEW c, NEW b \in Buffer, NEW d \in Buffer, Left(d)
    PROVE  /\ Left(Compressed("server", c, d))
           /\ Queued("server", c, b, d) = Queued("server", c, b, reliable_datagram)
<1> DEFINE r == reliable_datagram
           z == Compressed("server", 1, r)
<1>1. r \in Buffer /\ \A x, y : Compressed("server", x, y) = Compressed("server", 1, y)
  BY CommandsAreUnits DEF TypeInv, Compressed, UsesLzss
<1>2. Compressed("server", 1, z) = z /\ (z = <<>> <=> r = <<>>)
  <2>1. CASE UsesLzss("server", 1) /\ ~IsCompressed(r) /\ Len(r) > 1
    <3>1. z = <<Packed(r)>> /\ Len(Packed(r)) = Len(r)
      BY <1>1, <2>1, PackedType DEF Compressed
    <3>2. IsCompressed(z) /\ z # <<>>
      BY <2>1, <3>1 DEF IsCompressed
    <3>3. r # <<>>
      BY <2>1
    <3> HIDE DEF z, r
    <3> QED BY <3>2, <3>3 DEF Compressed
  <2>2. CASE ~(UsesLzss("server", 1) /\ ~IsCompressed(r) /\ Len(r) > 1)
    <3>1. z = r
      BY <2>2 DEF Compressed
    <3> HIDE DEF z
    <3> QED BY <2>2, <3>1 DEF Compressed
  <2> QED BY <2>1, <2>2
<1>3. Block("server", c, z) = Block("server", c, r)
  <2>1. Compressed("server", c, z) = Compressed("server", c, r)
    BY <1>1, <1>2
  <2> HIDE DEF z, r
  <2> QED BY <1>2, <2>1 DEF Block
<1>4. d = r \/ d = z
  BY DEF Left
<1> HIDE DEF z
<1>5. Queued("server", c, b, d) = Queued("server", c, b, r)
  BY <1>3, <1>4 DEF Queued
<1>6. Compressed("server", c, d) = z
  BY <1>1, <1>2, <1>4 DEF z
<1> QED BY <1>5, <1>6 DEF Left, z

LEMMA SentToFacts ==
    ASSUME TypeInv, NEW b \in Buffers, NEW c \in Slot, Left(b.datagram)
    PROVE  /\ SentTo(b, c) \in Buffers /\ Left(SentTo(b, c).datagram)
           /\ \A x \in Slot \ {c} : /\ SentTo(b, c).message[x] = b.message[x]
                                    /\ SentTo(b, c).blocks[x] = b.blocks[x]
           /\ b.spoiled \subseteq SentTo(b, c).spoiled
           /\ Unserved(b, c) => Served(SentTo(b, c), c) \/ c \in SentTo(b, c).spoiled
<1>1. /\ b.datagram \in Buffer /\ b.message \in [Slot -> Buffer]
      /\ b.blocks \in [Slot -> Seq(Buffer)] /\ b.spoiled \in SUBSET Slot
  BY DEF Buffers
<1>2. CASE Len(b.datagram) < MaxMessage - Len(b.message[c])
  <2> DEFINE more == [b.message EXCEPT ![c] = b.message[c] \o b.datagram]
             hurt == b.spoiled \union {x \in {c} : b.datagram # reliable_datagram}
             s == SentTo(b, c)
  <2>1. s = [datagram |-> b.datagram, message |-> more, blocks |-> b.blocks, spoiled |-> hurt]
    BY <1>2 DEF SentTo
  <2>2. b.message[c] \o b.datagram \in Buffer
    BY <1>1, ConcatProperties DEF Buffer
  <2>3. /\ more \in [Slot -> Buffer] /\ more[c] = b.message[c] \o b.datagram
        /\ \A x \in Slot \ {c} : more[x] = b.message[x]
    BY <1>1, <2>2
  <2>4. hurt \in SUBSET Slot /\ b.spoiled \subseteq hurt
        /\ (b.datagram # reliable_datagram => c \in hurt)
    BY <1>1
  <2> HIDE DEF more, hurt
  <2>5. /\ s.datagram = b.datagram /\ s.blocks = b.blocks
        /\ s.message = more /\ s.spoiled = hurt
    BY <2>1
  <2>6. s \in Buffers
    BY <1>1, <2>1, <2>3, <2>4 DEF Buffers
  <2> HIDE DEF s
  <2>7. b.datagram = reliable_datagram /\ Unserved(b, c) => Served(s, c)
    BY <2>3, <2>5 DEF Served, Unserved
  <2> QED BY <2>3, <2>4, <2>5, <2>6, <2>7 DEF s
<1>3. CASE ~(Len(b.datagram) < MaxMessage - Len(b.message[c]))
  <2> DEFINE queue == b.blocks[c] \o Queued("server", c, b.message[c], b.datagram)
             left == Compressed("server", c, b.datagram)
             s == SentTo(b, c)
  <2>1. s = [datagram |-> left, message |-> [b.message EXCEPT ![c] = <<>>],
             blocks |-> [b.blocks EXCEPT ![c] = queue], spoiled |-> b.spoiled]
    BY <1>3 DEF SentTo
  <2>2. b.message[c] \in Buffer /\ b.blocks[c] \in Seq(Buffer) /\ <<>> \in Buffer
    BY <1>1, EmptySeq DEF Buffer
  <2>3. /\ Left(left)
        /\ Queued("server", c, b.message[c], b.datagram)
             = Queued("server", c, b.message[c], reliable_datagram)
    BY <1>1, <2>2, CompressedOnce
  <2>4. queue \in Seq(Buffer) /\ left \in Buffer
    BY <1>1, <2>2, QueuedType, CompressedType, ConcatProperties
  <2>5. Unserved(b, c) =>
           queue = blocks["server"][c] \o
                     Queued("server", c, message["server"][c], reliable_datagram)
    BY <2>3 DEF Unserved
  <2> HIDE DEF queue, left
  <2>6. /\ s.datagram = left /\ s.blocks = [b.blocks EXCEPT ![c] = queue]
        /\ s.message = [b.message EXCEPT ![c] = <<>>] /\ s.spoiled = b.spoiled
    BY <2>1
  <2>7. s \in Buffers
    BY <1>1, <2>1, <2>2, <2>4 DEF Buffers
  <2> HIDE DEF s
  <2>8. s.message[c] = <<>> /\ s.blocks[c] = queue
    BY <1>1, <2>6
  <2>9. \A x \in Slot \ {c} : s.message[x] = b.message[x] /\ s.blocks[x] = b.blocks[x]
    BY <1>1, <2>6
  <2>10. Unserved(b, c) => Served(s, c)
    BY <2>5, <2>8 DEF Served
  <2> QED BY <2>3, <2>6, <2>7, <2>9, <2>10 DEF s
<1> QED BY <1>2, <1>3

\* After the loop each client has the broadcast data, or is spoiled.
LEMMA SentToAllFacts ==
    ASSUME TypeInv
    PROVE  /\ SentToAll \in Buffers /\ spoiled \subseteq SentToAll.spoiled
           /\ \A c \in Slot : Served(SentToAll, c) \/ c \in SentToAll.spoiled
<1>1. PICK g : /\ SentToAll = g[Slots] /\ g[0] = AtFirst
               /\ \A c \in Slot : g[c] = SentTo(g[c - 1], c)
  BY SentToAllIs
<1>2. Slots \in Nat \ {0} /\ Slot = 1 .. Slots
  BY SlotAssumption DEF Slot
<1> DEFINE P(n) ==
       /\ g[n] \in Buffers /\ Left(g[n].datagram) /\ spoiled \subseteq g[n].spoiled
       /\ \A c \in Slot : IF c <= n THEN Served(g[n], c) \/ c \in g[n].spoiled
                                     ELSE Unserved(g[n], c)
           L == {n \in Nat : n <= Slots => P(n)}
<1>3. 0 \in L
  <2>1. AtFirst \in Buffers
    BY CommandsAreUnits DEF TypeInv, AtFirst, Buffers, Peer
  <2>2. \A c \in Slot : ~(c <= 0) /\ Unserved(AtFirst, c)
    BY <1>2 DEF Unserved, AtFirst
  <2>3. Left(AtFirst.datagram) /\ spoiled \subseteq AtFirst.spoiled
    BY DEF AtFirst, Left
  <2>4. P(0)
    BY <1>1, <2>1, <2>2, <2>3
  <2> QED BY <2>4
<1>4. ASSUME NEW n \in L PROVE n + 1 \in L
  <2> SUFFICES ASSUME n + 1 <= Slots PROVE P(n + 1)
    OBVIOUS
  <2>1. n \in Nat /\ n <= Slots /\ n < Slots /\ n + 1 \in Slot
    BY <1>2
  <2>2. P(n)
    BY <2>1
  <2> DEFINE s == n + 1
  <2>3. g[s] = SentTo(g[n], s)
    <3>1. s - 1 = n
      BY <2>1
    <3> QED BY <1>1, <2>1, <3>1
  <2>4. s \in Slot /\ ~(s <= n) /\ \A c \in Slot : c <= s <=> c <= n \/ c = s
    BY <1>2, <2>1
  <2> HIDE DEF s
  <2>5. /\ g[s] \in Buffers /\ Left(g[s].datagram) /\ g[n].spoiled \subseteq g[s].spoiled
        /\ \A x \in Slot \ {s} : /\ g[s].message[x] = g[n].message[x]
                                 /\ g[s].blocks[x] = g[n].blocks[x]
        /\ Unserved(g[n], s) => Served(g[s], s) \/ s \in g[s].spoiled
    BY <2>2, <2>3, <2>4, SentToFacts
  <2>6. ASSUME NEW c \in Slot
        PROVE  IF c <= s THEN Served(g[s], c) \/ c \in g[s].spoiled ELSE Unserved(g[s], c)
    <3>1. CASE c = s
      BY <2>2, <2>4, <2>5, <3>1
    <3>2. CASE c # s
      BY <2>2, <2>4, <2>5, <3>2 DEF Served, Unserved
    <3> QED BY <3>1, <3>2
  <2> QED BY <2>2, <2>5, <2>6 DEF s
<1> HIDE DEF P
<1>5. L \in SUBSET Nat
  OBVIOUS
<1> HIDE DEF L
<1>6. Slots \in L
  BY <1>2, <1>3, <1>4, <1>5, InductiveSet
<1>7. P(Slots)
  BY <1>2, <1>6 DEF L
<1> QED BY <1>1, <1>2, <1>7 DEF P

LEMMA SentKeepsInv ==
    ASSUME IInv, UpdateToReliableMessages
    PROVE  IInv'
<1> DEFINE s == SentToAll
           was == written["server"]
           now == [c \in Slot |-> was[c] \o reliable_datagram]
<1>1. /\ reliable_datagram' = <<>> /\ parsed' = parsed /\ last' = last
      /\ message' = [message EXCEPT !["server"] = s.message]
      /\ blocks' = [blocks EXCEPT !["server"] = s.blocks]
      /\ written' = [written EXCEPT !["server"] = now] /\ spoiled' = s.spoiled
  BY DEF UpdateToReliableMessages
<1>2. /\ s \in Buffers /\ spoiled \subseteq s.spoiled
      /\ \A c \in Slot : Served(s, c) \/ c \in s.spoiled
  BY SentToAllFacts DEF IInv
<1>3. /\ s.message \in [Slot -> Buffer] /\ s.blocks \in [Slot -> Seq(Buffer)]
      /\ s.spoiled \in SUBSET Slot
  BY <1>2 DEF Buffers
<1>4. /\ reliable_datagram \in Commands /\ <<>> \in Commands
      /\ written \in [Peer -> [Slot -> Commands]] /\ was \in [Slot -> Commands]
  BY EmptySeq DEF IInv, TypeInv, Peer, Commands
<1>5. now \in [Slot -> Commands] /\ \A c \in Slot : now[c] = was[c] \o reliable_datagram
  BY <1>4, ConcatProperties DEF Commands
<1> HIDE DEF s, now
<1>6. TypeInv'
  BY <1>1, <1>3, <1>4, <1>5 DEF IInv, TypeInv
<1>7. FlowInv'
  <2> SUFFICES ASSUME NEW e \in Peer, NEW c \in Slot, Understood(e, c),
                      e = "server" => c \notin s.spoiled
               PROVE  Flow(e, c)'
    BY <1>1 DEF FlowInv, Understood, Whole, UsesLzss, Other
  <2>1. Flows(e, c, parsed[e][c], blocks[e][c], message[e][c], written[e][c])
    BY <1>2 DEF IInv, FlowInv, Flow, Whole
  <2>2. CASE e = "server"
    <3>1. /\ parsed'[e][c] = parsed[e][c] /\ message'[e][c] = s.message[c]
          /\ blocks'[e][c] = s.blocks[c] /\ written'[e][c] = written[e][c] \o reliable_datagram
      BY <1>1, <1>5, <2>2 DEF IInv, TypeInv, Peer
    <3>2. Served(s, c)
      BY <1>2, <2>2
    <3>3. CASE /\ s.message[c] = message[e][c] \o reliable_datagram
               /\ s.blocks[c] = blocks[e][c]
      <4>1. Flows(e, c, parsed[e][c], blocks[e][c], message[e][c] \o reliable_datagram,
                  written[e][c] \o reliable_datagram)
        BY <1>4, <2>1, FlowsWrite
      <4> QED BY <3>1, <3>3, <4>1 DEF Flow
    <3>4. CASE /\ s.message[c] = <<>>
               /\ s.blocks[c] = blocks[e][c] \o Queued(e, c, message[e][c], reliable_datagram)
      <4>1. Flows(e, c, parsed[e][c],
                  blocks[e][c] \o Queued(e, c, message[e][c], reliable_datagram), <<>>,
                  written[e][c] \o reliable_datagram)
        BY <1>4, <2>1, FlowsQueued
      <4> QED BY <3>1, <3>4, <4>1 DEF Flow
    <3> QED BY <2>2, <3>2, <3>3, <3>4 DEF Served
  <2>3. CASE e = "client"
    <3>1. /\ parsed'[e][c] = parsed[e][c] /\ message'[e][c] = message[e][c]
          /\ blocks'[e][c] = blocks[e][c] /\ written'[e][c] = written[e][c]
      BY <1>1, <2>3 DEF IInv, TypeInv
    <3> QED BY <2>1, <3>1 DEF Flow
  <2> QED BY <2>2, <2>3 DEF Peer
<1> QED BY <1>6, <1>7 DEF IInv

-----------------------------------------------------------------------------
(***************************************************************************)
(* The other steps.                                                        *)
(***************************************************************************)
LEMMA BroadcastKeepsInv ==
    ASSUME IInv, BroadcastCommand
    PROVE  IInv'
<1>1. New("server", 1) \in Commands
  BY NewType DEF IInv, Peer
<1>2. reliable_datagram' \in Commands
  BY <1>1, ConcatProperties DEF IInv, TypeInv, Commands, BroadcastCommand
<1>3. last' \in [Peer -> Nat]
  BY DEF IInv, TypeInv, Peer, BroadcastCommand
<1>4. TypeInv'
  BY <1>2, <1>3 DEF IInv, TypeInv, BroadcastCommand
<1>5. FlowInv'
  BY DEF IInv, FlowInv, Flow, Understood, Whole, UsesLzss, Other, BroadcastCommand
<1> QED BY <1>4, <1>5 DEF IInv

LEMMA WriteKeepsInv ==
    ASSUME IInv, NEW e \in Peer, NEW c \in Slot, WriteCommand(e, c)
    PROVE  IInv'
<1> DEFINE v == New(e, 1)
           m == message[e][c] \o v
           w == written[e][c] \o v
<1>1. /\ message' = Put(message, e, c, m) /\ written' = Put(written, e, c, w)
      /\ last' = [last EXCEPT ![e] = @ + 1]
      /\ reliable_datagram' = reliable_datagram /\ blocks' = blocks /\ parsed' = parsed
      /\ spoiled' = spoiled
  BY DEF WriteCommand, Put
<1>2. TypeInv
  BY DEF IInv
<1>3. v \in Commands /\ v \in Buffer
  BY <1>2, NewType, CommandsAreUnits
<1>4. message[e][c] \in Buffer /\ written[e][c] \in Commands
  BY <1>2 DEF TypeInv
<1>5. m \in Buffer /\ w \in Commands
  BY <1>3, <1>4, ConcatProperties DEF Buffer, Commands
<1> HIDE DEF v, m, w
<1>6. /\ message' \in [Peer -> [Slot -> Buffer]] /\ message'[e][c] = m
      /\ \A d \in Peer, x \in Slot : d # e \/ x # c => message'[d][x] = message[d][x]
  <2>1. message \in [Peer -> [Slot -> Buffer]]
    BY <1>2 DEF TypeInv
  <2>2. message' = Put(message, e, c, m)
    BY <1>1
  <2> QED BY <1>5, <2>1, <2>2 DEF Put
<1>7. /\ written' \in [Peer -> [Slot -> Commands]] /\ written'[e][c] = w
      /\ \A d \in Peer, x \in Slot : d # e \/ x # c => written'[d][x] = written[d][x]
  <2>1. written \in [Peer -> [Slot -> Commands]]
    BY <1>2 DEF TypeInv
  <2>2. written' = Put(written, e, c, w)
    BY <1>1
  <2> QED BY <1>5, <2>1, <2>2 DEF Put
<1>8. last' \in [Peer -> Nat]
  BY <1>1, <1>2 DEF TypeInv
<1>9. TypeInv'
  BY <1>1, <1>2, <1>6, <1>7, <1>8 DEF TypeInv
<1>10. ASSUME Understood(e, c), Whole(e, c) PROVE Flow(e, c)'
  <2>1. Flows(e, c, parsed[e][c], blocks[e][c], message[e][c], written[e][c])
    BY <1>10 DEF IInv, FlowInv, Flow
  <2>2. Flows(e, c, parsed[e][c], blocks[e][c], m, w)
    BY <1>3, <2>1, FlowsWrite DEF m, w
  <2> QED BY <1>1, <1>6, <1>7, <2>2 DEF Flow
<1>11. FlowInv'
  BY <1>1, <1>6, <1>7, <1>10, OneFlow DEF Same
<1> QED BY <1>9, <1>11 DEF IInv

LEMMA SendKeepsInv ==
    ASSUME IInv, NEW e \in Peer, NEW c \in Slot, NEW k \in BlockSizes, SendBlock(e, c, k)
    PROVE  IInv'
<1> DEFINE v == New(e, k)
           q == blocks[e][c] \o Queued(e, c, message[e][c], v)
           w == written[e][c] \o v
<1>1. /\ message' = Put(message, e, c, <<>>) /\ written' = Put(written, e, c, w)
      /\ blocks' = Put(blocks, e, c, q) /\ last' = [last EXCEPT ![e] = @ + k]
      /\ reliable_datagram' = reliable_datagram /\ parsed' = parsed /\ spoiled' = spoiled
  BY DEF SendBlock, Put
<1>2. TypeInv
  BY DEF IInv
<1>3. k \in Nat
  BY SizeAssumption
<1>4. v \in Commands /\ v \in Buffer
  BY <1>2, <1>3, NewType, CommandsAreUnits
<1>5. message[e][c] \in Buffer /\ written[e][c] \in Commands /\ blocks[e][c] \in Seq(Buffer)
  BY <1>2 DEF TypeInv
<1>6. w \in Commands
  BY <1>4, <1>5, ConcatProperties DEF Commands
<1>7. q \in Seq(Buffer)
  BY <1>4, <1>5, QueuedType, ConcatProperties
<1>8. <<>> \in Buffer
  BY EmptySeq DEF Buffer
<1> HIDE DEF v, q, w
<1>9. /\ message' \in [Peer -> [Slot -> Buffer]] /\ message'[e][c] = <<>>
      /\ \A d \in Peer, x \in Slot : d # e \/ x # c => message'[d][x] = message[d][x]
  <2>1. message \in [Peer -> [Slot -> Buffer]]
    BY <1>2 DEF TypeInv
  <2>2. message' = Put(message, e, c, <<>>)
    BY <1>1
  <2> QED BY <1>8, <2>1, <2>2 DEF Put
<1>10. /\ written' \in [Peer -> [Slot -> Commands]] /\ written'[e][c] = w
       /\ \A d \in Peer, x \in Slot : d # e \/ x # c => written'[d][x] = written[d][x]
  <2>1. written \in [Peer -> [Slot -> Commands]]
    BY <1>2 DEF TypeInv
  <2>2. written' = Put(written, e, c, w)
    BY <1>1
  <2> QED BY <1>6, <2>1, <2>2 DEF Put
<1>11. /\ blocks' \in [Peer -> [Slot -> Seq(Buffer)]] /\ blocks'[e][c] = q
       /\ \A d \in Peer, x \in Slot : d # e \/ x # c => blocks'[d][x] = blocks[d][x]
  <2>1. blocks \in [Peer -> [Slot -> Seq(Buffer)]]
    BY <1>2 DEF TypeInv
  <2>2. blocks' = Put(blocks, e, c, q)
    BY <1>1
  <2> QED BY <1>7, <2>1, <2>2 DEF Put
<1>12. last' \in [Peer -> Nat]
  BY <1>1, <1>2, <1>3 DEF TypeInv
<1>13. TypeInv'
  BY <1>1, <1>2, <1>9, <1>10, <1>11, <1>12 DEF TypeInv
<1>14. ASSUME Understood(e, c), Whole(e, c) PROVE Flow(e, c)'
  <2>1. Flows(e, c, parsed[e][c], blocks[e][c], message[e][c], written[e][c])
    BY <1>14 DEF IInv, FlowInv, Flow
  <2>2. Flows(e, c, parsed[e][c], q, <<>>, w)
    BY <1>4, <1>14, <2>1, FlowsQueued DEF q, w
  <2> QED BY <1>1, <1>9, <1>10, <1>11, <2>2 DEF Flow
<1>15. FlowInv'
  BY <1>1, <1>9, <1>10, <1>11, <1>14, OneFlow DEF Same
<1> QED BY <1>13, <1>15 DEF IInv

\* What a transmission leaves of a channel.
LEMMA TransmitFacts ==
    ASSUME TypeInv, NEW e \in Peer, NEW c \in Slot, Transmit(e, c)
    PROVE  \E p \in Buffer, q \in Seq(Buffer), m \in Buffer :
              /\ parsed' = Put(parsed, e, c, p) /\ blocks' = Put(blocks, e, c, q)
              /\ message' = Put(message, e, c, m)
              /\ UNCHANGED <<reliable_datagram, written, spoiled, last>>
              /\ \A w : Understood(e, c) /\ Flows(e, c, parsed[e][c], blocks[e][c],
                                                  message[e][c], w) => Flows(e, c, p, q, m, w)
<1> DEFINE pending == message[e][c]
           queue   == blocks[e][c]
           got     == parsed[e][c]
<1>1. pending \in Buffer /\ queue \in Seq(Buffer) /\ got \in Buffer /\ <<>> \in Buffer
  BY EmptySeq DEF TypeInv, Buffer
<1>2. message = Put(message, e, c, pending) /\ blocks = Put(blocks, e, c, queue)
  BY DEF TypeInv, Put
<1>3. CASE /\ queue # <<>> /\ Len(pending) > MaxReliablePayload
           /\ blocks' = Put(blocks, e, c, Tail(queue) \o Block(e, c, pending))
           /\ message' = Put(message, e, c, <<>>)
           /\ parsed' = Put(parsed, e, c, got \o Received(Other(e), c, Head(queue)))
           /\ UNCHANGED <<reliable_datagram, written, spoiled, last>>
  <2> DEFINE p == got \o Received(Other(e), c, Head(queue))
             q == Tail(queue) \o Block(e, c, pending)
  <2>1. /\ Head(queue) \in Buffer /\ Tail(queue) \in Seq(Buffer)
        /\ Block(e, c, pending) \in Seq(Buffer)
    BY <1>1, <1>3, HeadTailProperties, BlockType
  <2>2. p \in Buffer /\ q \in Seq(Buffer)
    BY <1>1, <2>1, ReceivedType, ConcatProperties DEF Buffer
  <2>3. ASSUME NEW w, Understood(e, c), Flows(e, c, got, queue, pending, w)
        PROVE  Flows(e, c, p, q, <<>>, w)
    <3>1. Flows(e, c, p, Tail(queue), pending, w)
      BY <1>3, <2>3, FlowsHead
    <3> HIDE DEF p, pending, queue
    <3> QED BY <2>3, <3>1, FlowsQueue DEF q
  <2> HIDE DEF p, q
  <2> QED BY <1>1, <1>3, <2>2, <2>3 DEF p, q
<1>4. CASE /\ queue # <<>> /\ ~(Len(pending) > MaxReliablePayload)
           /\ blocks' = Put(blocks, e, c, Tail(queue))
           /\ message' = message
           /\ parsed' = Put(parsed, e, c, got \o Received(Other(e), c, Head(queue)))
           /\ UNCHANGED <<reliable_datagram, written, spoiled, last>>
  <2> DEFINE p == got \o Received(Other(e), c, Head(queue))
  <2>1. Head(queue) \in Buffer /\ Tail(queue) \in Seq(Buffer)
    BY <1>1, <1>4, HeadTailProperties
  <2>2. p \in Buffer
    BY <1>1, <2>1, ReceivedType, ConcatProperties DEF Buffer
  <2>3. ASSUME NEW w, Flows(e, c, got, queue, pending, w)
        PROVE  Flows(e, c, p, Tail(queue), pending, w)
    BY <1>4, <2>3, FlowsHead
  <2>4. message' = Put(message, e, c, pending)
    BY <1>2, <1>4
  <2> HIDE DEF p
  <2> QED BY <1>1, <1>4, <2>1, <2>2, <2>3, <2>4 DEF p
<1>5. CASE /\ queue = <<>> /\ pending # <<>>
           /\ blocks' = blocks /\ message' = Put(message, e, c, <<>>)
           /\ parsed' = Put(parsed, e, c, got \o pending)
           /\ UNCHANGED <<reliable_datagram, written, spoiled, last>>
  <2>1. got \o pending \in Buffer
    BY <1>1, ConcatProperties DEF Buffer
  <2>2. ASSUME NEW w, Flows(e, c, got, queue, pending, w)
        PROVE  Flows(e, c, got \o pending, queue, <<>>, w)
    BY <1>5, <2>2, FlowsBuffer
  <2>3. blocks' = Put(blocks, e, c, queue)
    BY <1>2, <1>5
  <2> QED BY <1>1, <1>5, <2>1, <2>2, <2>3
<1>6. CASE queue # <<>> /\ Len(pending) > MaxReliablePayload
  BY <1>3, <1>6 DEF Transmit, Put
<1>7. CASE queue # <<>> /\ ~(Len(pending) > MaxReliablePayload)
  <2>1. /\ blocks' = Put(blocks, e, c, Tail(queue)) /\ message' = Put(message, e, c, pending)
        /\ parsed' = Put(parsed, e, c, got \o Received(Other(e), c, Head(queue)))
        /\ UNCHANGED <<reliable_datagram, written, spoiled, last>>
    BY <1>7 DEF Transmit, Put
  <2> QED BY <1>2, <1>4, <1>7, <2>1
<1>8. CASE queue = <<>>
  BY <1>5, <1>8 DEF Transmit, Put
<1> QED BY <1>6, <1>7, <1>8

LEMMA TransmitKeepsInv ==
    ASSUME IInv, NEW e \in Peer, NEW c \in Slot, Transmit(e, c)
    PROVE  IInv'
<1>1. TypeInv
  BY DEF IInv
<1>2. PICK p \in Buffer, q \in Seq(Buffer), m \in Buffer :
         /\ parsed' = Put(parsed, e, c, p) /\ blocks' = Put(blocks, e, c, q)
         /\ message' = Put(message, e, c, m)
         /\ UNCHANGED <<reliable_datagram, written, spoiled, last>>
         /\ \A w : Understood(e, c) /\ Flows(e, c, parsed[e][c], blocks[e][c],
                                             message[e][c], w) => Flows(e, c, p, q, m, w)
  BY <1>1, TransmitFacts
<1>3. /\ message' \in [Peer -> [Slot -> Buffer]] /\ message'[e][c] = m
      /\ \A d \in Peer, x \in Slot : d # e \/ x # c => message'[d][x] = message[d][x]
  <2>1. message \in [Peer -> [Slot -> Buffer]]
    BY <1>1 DEF TypeInv
  <2>2. message' = Put(message, e, c, m)
    BY <1>2
  <2> QED BY <1>2, <2>1, <2>2 DEF Put
<1>4. /\ parsed' \in [Peer -> [Slot -> Buffer]] /\ parsed'[e][c] = p
      /\ \A d \in Peer, x \in Slot : d # e \/ x # c => parsed'[d][x] = parsed[d][x]
  <2>1. parsed \in [Peer -> [Slot -> Buffer]]
    BY <1>1 DEF TypeInv
  <2>2. parsed' = Put(parsed, e, c, p)
    BY <1>2
  <2> QED BY <1>2, <2>1, <2>2 DEF Put
<1>5. /\ blocks' \in [Peer -> [Slot -> Seq(Buffer)]] /\ blocks'[e][c] = q
      /\ \A d \in Peer, x \in Slot : d # e \/ x # c => blocks'[d][x] = blocks[d][x]
  <2>1. blocks \in [Peer -> [Slot -> Seq(Buffer)]]
    BY <1>1 DEF TypeInv
  <2>2. blocks' = Put(blocks, e, c, q)
    BY <1>2
  <2> QED BY <1>2, <2>1, <2>2 DEF Put
<1>6. TypeInv'
  BY <1>1, <1>2, <1>3, <1>4, <1>5 DEF TypeInv
<1>7. ASSUME Understood(e, c), Whole(e, c) PROVE Flow(e, c)'
  <2>1. Flows(e, c, parsed[e][c], blocks[e][c], message[e][c], written[e][c])
    BY <1>7 DEF IInv, FlowInv, Flow
  <2>2. Flows(e, c, p, q, m, written[e][c])
    BY <1>2, <1>7, <2>1
  <2> QED BY <1>2, <1>3, <1>4, <1>5, <2>2 DEF Flow
<1>8. FlowInv'
  BY <1>2, <1>3, <1>4, <1>5, <1>7, OneFlow DEF Same
<1> QED BY <1>6, <1>8 DEF IInv

LEMMA InitInv ==
    ASSUME Init
    PROVE  IInv
<1>1. <<>> \in Commands /\ <<>> \in Buffer /\ <<>> \in Seq(Buffer) /\ Len(<<>>) = 0
  BY EmptySeq DEF Commands, Buffer
<1>2. TypeInv
  BY <1>1 DEF Init, TypeInv
<1>3. ASSUME NEW e \in Peer, NEW c \in Slot PROVE Flow(e, c)
  <2>1. /\ parsed[e][c] = <<>> /\ blocks[e][c] = <<>>
        /\ message[e][c] = <<>> /\ written[e][c] = <<>>
    BY DEF Init
  <2>2. Laid(e, c, <<>>, <<>>, 0, 0)
    BY LaidNone
  <2>3. Piece(<<>>, 0, 0) = <<>>
    BY <1>1, PieceFull
  <2>4. Flows(e, c, <<>>, <<>>, <<>>, <<>>)
    BY <1>1, <2>2, <2>3 DEF Flows
  <2> QED BY <2>1, <2>4 DEF Flow
<1> QED BY <1>2, <1>3 DEF IInv, FlowInv

LEMMA NextInv ==
    ASSUME IInv, [Next]_vars
    PROVE  IInv'
<1>1. CASE UpdateToReliableMessages
  BY <1>1, SentKeepsInv
<1>2. CASE BroadcastCommand
  BY <1>2, BroadcastKeepsInv
<1>3. ASSUME NEW e \in Peer, NEW c \in Slot, WriteCommand(e, c) PROVE IInv'
  BY <1>3, WriteKeepsInv
<1>4. ASSUME NEW e \in Peer, NEW c \in Slot, NEW k \in BlockSizes, SendBlock(e, c, k)
      PROVE  IInv'
  BY <1>4, SendKeepsInv
<1>5. ASSUME NEW e \in Peer, NEW c \in Slot, Transmit(e, c) PROVE IInv'
  BY <1>5, TransmitKeepsInv
<1>6. CASE UNCHANGED vars
  BY <1>6 DEF vars, IInv, TypeInv, FlowInv, Flow, Understood, Whole, UsesLzss, Other
<1> QED BY <1>1, <1>2, <1>3, <1>4, <1>5, <1>6 DEF Next

\* What has been parsed, what waits in the blocks and what waits in the buffer
\* make up what was written, on each channel that FlowInv speaks of.
THEOREM CompressionInvariant == Spec => []IInv
<1>1. Init => IInv
  BY InitInv
<1>2. IInv /\ [Next]_vars => IInv'
  BY NextInv
<1> QED BY <1>1, <1>2, PTL DEF Spec

LEMMA FlowIsPrefix ==
    ASSUME NEW e, NEW c, NEW p, NEW q, NEW b, NEW w, Flows(e, c, p, q, b, w)
    PROVE  IsPrefix(p, w)
<1>1. p \in Commands /\ w \in Commands /\ p = Piece(w, 0, Len(p)) /\ b \in Commands
      /\ Len(p) + Len(b) <= Len(w)
  BY DEF Flows
<1>2. Len(p) \in Nat /\ Len(w) \in Nat /\ Len(b) \in Nat
  BY <1>1, LenProperties DEF Commands
<1>3. Len(p) <= Len(w)
  BY <1>1, <1>2
<1>4. p = SubSeq(w, 1, Len(p))
  BY <1>1 DEF Piece
<1> QED BY <1>3, <1>4 DEF IsPrefix

\* On every server, with any number of clients and whether or not one of them
\* runs in its process, the end of a channel parses what was written for it, in
\* order, if it decompresses what the other one compresses and until it is given
\* data compressed for another client (ParsedAsWritten).
THEOREM EveryEndParsesAsWritten == Spec => []ParsedAsWritten
<1>1. IInv => ParsedAsWritten
  BY FlowIsPrefix DEF IInv, FlowInv, Flow, Whole, ParsedAsWritten
<1> QED BY <1>1, CompressionInvariant, PTL

\* On a dedicated server both ends of every channel compress: whatever
\* happens to the broadcast buffer, the server parses what its clients wrote.
THEOREM ServerParsesAsWritten ==
    Dedicated => (Spec => [](\A c \in Slot : IsPrefix(parsed["client"][c], written["client"][c])))
<1> SUFFICES ASSUME Dedicated
             PROVE  Spec => [](\A c \in Slot : IsPrefix(parsed["client"][c], written["client"][c]))
  OBVIOUS
<1>1. \A c \in Slot : Understood("client", c)
  BY SlotAssumption DEF Understood, UsesLzss, Other
<1>2. ParsedAsWritten => \A c \in Slot : IsPrefix(parsed["client"][c], written["client"][c])
  BY <1>1 DEF ParsedAsWritten, Peer
<1> QED BY <1>2, EveryEndParsesAsWritten, PTL
=============================================================================
