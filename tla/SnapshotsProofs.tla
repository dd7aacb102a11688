-------------------------- MODULE SnapshotsProofs --------------------------
(***************************************************************************)
(* Proofs about the snapshots: what the client merges is what the server   *)
(* has put in the frame.                                                   *)
(***************************************************************************)
EXTENDS Snapshots, FiniteSetTheorems, TLAPS

\* What the server may send fits the buffers: a frame has NUM_PACKET_ENTITIES
\* entities and both rings have room for it.  "MaxBehind <= ByteRange" is the
\* range in which a byte tells frames apart.
FramesFit ==
    /\ 1 < UpdateBackup /\ MaxBehind <= ByteRange
    /\ \A w \in Worlds : /\ Cardinality(DOMAIN w \ {MaxEntity}) <= PacketEntities
                         /\ Cardinality(DOMAIN w) <= ServerEntities

\* How many entities of a world are numbered below n.
Below(w, n) == Cardinality({m \in DOMAIN w : m < n})

\* A frame's entities are those of a world, in order of their numbers.
Stored(ring, frame, w) ==
    /\ frame.num = Cardinality(DOMAIN w) /\ frame.num <= frame.age
    /\ \A n \in DOMAIN w : At(ring, frame.age - Below(w, n)) = <<n, w[n]>>

\* The entities there are, and the worlds a frame is compared with.
Entity == {Nothing} \cup UNION {{<<n, w[n]>> : n \in DOMAIN w} : w \in Worlds}
World  == Worlds \cup {<<>>}
------------------------------------------------------------------------------
(* Induction, in the form that needs no operator parameter. *)

LEMMA InductiveSet ==
    ASSUME NEW L \in SUBSET Nat, 0 \in L, \A n \in L : n + 1 \in L
    PROVE  \A n \in Nat : n \in L
<1>. SUFFICES ASSUME NEW N \in Nat, N \notin L PROVE FALSE
  OBVIOUS
<1>. DEFINE A == {n \in L : n < N}
            f == [n \in A |-> n + 1]
<1>1. IsFiniteSet(A) /\ IsFiniteSet(A \ {0}) /\ Cardinality(A \ {0}) < Cardinality(A)
  <2>1. IsFiniteSet(A)
    <3>1. A \in SUBSET Nat
      OBVIOUS
    <3>2. \A s \in A : s <= N
      OBVIOUS
    <3>. HIDE DEF A
    <3>. QED BY <3>1, <3>2, FS_BoundedSetOfNaturals
  <2>2. 0 \in A
    OBVIOUS
  <2>. HIDE DEF A
  <2>3. Cardinality(A) \in Nat /\ Cardinality(A \ {0}) = Cardinality(A) - 1 /\ IsFiniteSet(A \ {0})
    BY <2>1, <2>2, FS_CardinalityType, FS_RemoveElement
  <2>. QED BY <2>1, <2>3
<1>2. f \in [A -> A \ {0}]
  <2>1. \A n \in A : n + 1 \in A /\ n + 1 # 0
    OBVIOUS
  <2>. QED BY <2>1
<1>3. \E x, y \in A : x # y /\ f[x] = f[y]
  <2>. HIDE DEF A, f
  <2>. QED BY <1>1, <1>2, FS_PigeonHole
<1>. QED BY <1>3
------------------------------------------------------------------------------
(* Numbers. *)

LEMMA Sizes ==
    /\ UpdateBackup \in Nat \ {0} /\ ByteRange \in Nat \ {0} /\ PacketEntities \in Nat \ {0}
    /\ ServerEntities \in Nat \ {0} /\ InFlight \in Nat \ {0}
    /\ MaxEntity \in Nat /\ MaxBehind \in Nat
    /\ ClientEntities \in Nat \ {0}
<1>1. /\ UpdateBackup \in Nat \ {0} /\ ByteRange \in Nat \ {0} /\ PacketEntities \in Nat \ {0}
      /\ ServerEntities \in Nat \ {0} /\ InFlight \in Nat \ {0}
      /\ MaxEntity \in Nat /\ MaxBehind \in Nat
  BY SizeAssumption
<1>. QED BY <1>1 DEF ClientEntities

\* Of a quotient and a remainder there is one of each.
LEMMA Remainder ==
    ASSUME NEW m \in Nat \ {0}, NEW q \in Int, NEW r \in 0 .. m - 1
    PROVE  (m * q + r) % m = r
<1>. DEFINE n == m * q + r
            a == n \div m
            s == n % m
<1>1. n \in Int /\ a \in Int /\ s \in 0 .. m - 1 /\ n = m * a + s
  OBVIOUS
<1>2. n = m * q + r
  OBVIOUS
<1>3. m * (a - q) = m * a - m * q /\ m * (q - a) = m * q - m * a
  BY <1>1
<1>. DEFINE x == m * a
            y == m * q
            z == m * (a - q)
            u == m * (q - a)
<1>4. x \in Int /\ y \in Int /\ n = x + s /\ n = y + r /\ z = x - y /\ u = y - x
  BY <1>1, <1>2, <1>3
<1>5. a > q => z >= m
  BY <1>1
<1>6. a < q => u >= m
  BY <1>1
<1>7. a = q => x = y
  OBVIOUS
<1>8. s = n % m
  OBVIOUS
<1>. HIDE DEF n, a, s, x, y, z, u
<1>9. s = r
  BY <1>1, <1>4, <1>5, <1>6, <1>7
<1>. QED BY <1>8, <1>9 DEF n

LEMMA RemainderSmall ==
    ASSUME NEW m \in Nat \ {0}, NEW r \in 0 .. m - 1
    PROVE  r % m = r
<1>1. (m * 0 + r) % m = r
  BY Remainder
<1>. QED BY <1>1

LEMMA SlotRange == \A n \in Int : Slot(n) \in 0 .. UpdateBackup - 1
BY Sizes DEF Slot

LEMMA SlotSmall == \A n \in 0 .. UpdateBackup - 1 : Slot(n) = n
BY Sizes, RemainderSmall DEF Slot

\* The slot of the next number, and the way back.
LEMMA SlotNext ==
    ASSUME NEW n \in Nat
    PROVE  /\ Slot(n + 1) = IF Slot(n) = UpdateBackup - 1 THEN 0 ELSE Slot(n) + 1
           /\ (Slot(n + 1) + UpdateBackup - 1) % UpdateBackup = Slot(n)
<1>. DEFINE m == UpdateBackup
            q == n \div m
            s == n % m
<1>1. m \in Nat \ {0} /\ q \in Int /\ s \in 0 .. m - 1 /\ n = m * q + s
  BY Sizes
<1>2. Slot(n) = s
  BY DEF Slot
<1>. HIDE DEF q, s
<1>3. CASE s = m - 1
  <2>1. m * (q + 1) = m * q + m
    BY <1>1
  <2>2. n + 1 = m * (q + 1) + 0
    BY <1>1, <1>3, <2>1
  <2>3. (m * (q + 1) + 0) % m = 0
    BY <1>1, Remainder
  <2>4. Slot(n + 1) = 0
    BY <2>2, <2>3 DEF Slot
  <2>5. (m - 1) % m = m - 1
    BY <1>1, RemainderSmall
  <2>. QED BY <1>1, <1>2, <1>3, <2>4, <2>5
<1>4. CASE s # m - 1
  <2>1. s + 1 \in 0 .. m - 1 /\ n + 1 = m * q + (s + 1)
    BY <1>1, <1>4
  <2>2. (m * q + (s + 1)) % m = s + 1
    BY <1>1, <2>1, Remainder
  <2>3. Slot(n + 1) = s + 1
    BY <2>1, <2>2 DEF Slot
  <2>4. (m * 1 + s) % m = s
    BY <1>1, Remainder
  <2>5. (s + 1) + m - 1 = m * 1 + s
    BY <1>1
  <2>. QED BY <1>2, <1>4, <2>3, <2>4, <2>5
<1>. QED BY <1>3, <1>4

\* Numbers that are less than a ring apart have slots of their own.
LEMMA SlotsDiffer ==
    ASSUME NEW n \in Nat, NEW k \in 1 .. UpdateBackup - 1
    PROVE  Slot(n + k) # Slot(n)
<1>. DEFINE m == UpdateBackup
            q == n \div m
            s == n % m
<1>1. m \in Nat \ {0} /\ q \in Int /\ s \in 0 .. m - 1 /\ n = m * q + s
  BY Sizes
<1>2. Slot(n) = s
  BY DEF Slot
<1>. HIDE DEF q, s
<1>3. CASE s + k < m
  <2>1. s + k \in 0 .. m - 1 /\ n + k = m * q + (s + k)
    BY <1>1, <1>3
  <2>2. (m * q + (s + k)) % m = s + k
    BY <1>1, <2>1, Remainder
  <2>. QED BY <1>1, <1>2, <2>1, <2>2 DEF Slot
<1>4. CASE s + k >= m
  <2>1. m * (q + 1) = m * q + m
    BY <1>1
  <2>2. s + k - m \in 0 .. m - 1 /\ n + k = m * (q + 1) + (s + k - m)
    BY <1>1, <1>4, <2>1
  <2>3. (m * (q + 1) + (s + k - m)) % m = s + k - m
    <3>1. \A p \in Int : \A r \in 0 .. m - 1 : (m * p + r) % m = r
      BY <1>1, Remainder
    <3>2. q + 1 \in Int
      BY <1>1
    <3>. QED BY <2>2, <3>1, <3>2
  <2>4. s + k - m # s
    BY <1>1
  <2>. QED BY <1>2, <2>2, <2>3, <2>4 DEF Slot
<1>. QED BY <1>1, <1>3, <1>4

------------------------------------------------------------------------------
(* How many entities are below a number. *)

LEMMA WorldDomain == \A w \in World : /\ DOMAIN w \subseteq 1 .. MaxEntity
                                      /\ \A n \in DOMAIN w : w[n] # "removed"
<1>1. DOMAIN <<>> = {}
  OBVIOUS
<1>2. \A w \in Worlds : DOMAIN w \subseteq 1 .. MaxEntity /\ \A n \in DOMAIN w : w[n] # "removed"
  BY WorldsAssumption
<1>. QED BY <1>1, <1>2 DEF World

LEMMA WorldFinite ==
    ASSUME NEW w \in World, NEW n \in Nat
    PROVE  /\ IsFiniteSet(DOMAIN w) /\ Cardinality(DOMAIN w) \in Nat
           /\ IsFiniteSet({m \in DOMAIN w : m < n}) /\ Below(w, n) \in Nat
           /\ Below(w, n) <= Cardinality(DOMAIN w)
           /\ Cardinality(DOMAIN w) <= MaxEntity
<1>1. IsFiniteSet(1 .. MaxEntity) /\ Cardinality(1 .. MaxEntity) = MaxEntity
  BY Sizes, FS_Interval
<1>2. DOMAIN w \subseteq 1 .. MaxEntity
  BY WorldDomain
<1>3. IsFiniteSet(DOMAIN w) /\ Cardinality(DOMAIN w) <= Cardinality(1 .. MaxEntity)
  BY <1>1, <1>2, FS_Subset
<1>4. IsFiniteSet({m \in DOMAIN w : m < n}) /\ Cardinality({m \in DOMAIN w : m < n}) <= Cardinality(DOMAIN w)
  <2>1. {m \in DOMAIN w : m < n} \subseteq DOMAIN w
    OBVIOUS
  <2>. QED BY <1>3, <2>1, FS_Subset
<1>. QED BY <1>1, <1>3, <1>4, FS_CardinalityType DEF Below

LEMMA BelowStep ==
    ASSUME NEW w \in World, NEW n \in Nat
    PROVE  Below(w, n + 1) = Below(w, n) + (IF n \in DOMAIN w THEN 1 ELSE 0)
<1>. DEFINE A == {m \in DOMAIN w : m < n}
<1>1. DOMAIN w \subseteq Nat
  BY WorldDomain, Sizes
<1>2. CASE n \in DOMAIN w
  <2>1. {m \in DOMAIN w : m < n + 1} = A \cup {n} /\ n \notin A
    BY <1>1, <1>2
  <2>2. IsFiniteSet(A)
    BY WorldFinite
  <2>. HIDE DEF A
  <2>3. Cardinality(A \cup {n}) = Cardinality(A) + 1
    BY <2>1, <2>2, FS_AddElement
  <2>. QED BY <1>2, <2>1, <2>3 DEF Below, A
<1>3. CASE n \notin DOMAIN w
  <2>1. {m \in DOMAIN w : m < n + 1} = A
    BY <1>1, <1>3
  <2>2. Below(w, n) \in Nat
    BY WorldFinite
  <2>. QED BY <1>3, <2>1, <2>2 DEF Below
<1>. QED BY <1>2, <1>3

LEMMA BelowEnds ==
    ASSUME NEW w \in World
    PROVE  /\ Below(w, 0) = 0 /\ Below(w, 1) = 0
           /\ Below(w, MaxEntity + 1) = Cardinality(DOMAIN w)
<1>1. DOMAIN w \subseteq 1 .. MaxEntity
  BY WorldDomain
<1>2. {m \in DOMAIN w : m < 0} = {} /\ {m \in DOMAIN w : m < 1} = {}
  BY <1>1
<1>3. {m \in DOMAIN w : m < MaxEntity + 1} = DOMAIN w
  BY <1>1, Sizes
<1>. QED BY <1>2, <1>3, FS_EmptySet DEF Below

LEMMA BelowMonotone ==
    ASSUME NEW w \in World, NEW m \in Nat, NEW n \in Nat, m <= n
    PROVE  Below(w, m) <= Below(w, n)
<1>1. {k \in DOMAIN w : k < m} \subseteq {k \in DOMAIN w : k < n}
  <2>1. DOMAIN w \subseteq Nat
    BY WorldDomain, Sizes
  <2>. QED BY <2>1
<1>2. IsFiniteSet({k \in DOMAIN w : k < n})
  BY WorldFinite
<1>. QED BY <1>1, <1>2, FS_Subset DEF Below

LEMMA BelowStrict ==
    ASSUME NEW w \in World, NEW m \in DOMAIN w, NEW n \in Nat, m < n
    PROVE  Below(w, m) < Below(w, n)
<1>1. m \in Nat
  BY WorldDomain, Sizes
<1>2. Below(w, m + 1) = Below(w, m) + 1
  BY <1>1, BelowStep
<1>3. Below(w, m + 1) <= Below(w, n)
  BY <1>1, BelowMonotone
<1>4. Below(w, m) \in Nat /\ Below(w, n) \in Nat
  BY <1>1, WorldFinite
<1>. QED BY <1>2, <1>3, <1>4

LEMMA BelowMember ==
    ASSUME NEW w \in World, NEW m \in DOMAIN w
    PROVE  /\ m \in 1 .. MaxEntity /\ Below(w, m) \in Nat
           /\ Below(w, m) < Cardinality(DOMAIN w)
<1>1. m \in 1 .. MaxEntity
  BY WorldDomain
<1>2. Below(w, m) < Below(w, MaxEntity + 1)
  BY <1>1, BelowStrict, Sizes
<1>3. m \in Nat
  BY <1>1, Sizes
<1>. QED BY <1>1, <1>2, <1>3, BelowEnds, WorldFinite

\* Every place below the count is that of an entity.
LEMMA Ranked ==
    ASSUME NEW w \in World, NEW i \in Nat, i < Cardinality(DOMAIN w)
    PROVE  \E n \in DOMAIN w : Below(w, n) = i
<1>. DEFINE L == {N \in Nat : \A j \in Nat : j < Below(w, N) => \E n \in DOMAIN w : Below(w, n) = j}
<1>1. 0 \in L
  BY BelowEnds
<1>2. ASSUME NEW N \in L PROVE N + 1 \in L
  <2>1. N \in Nat /\ Below(w, N) \in Nat
    BY WorldFinite
  <2>2. ASSUME NEW j \in Nat, j < Below(w, N + 1) PROVE \E n \in DOMAIN w : Below(w, n) = j
    <3>1. CASE j < Below(w, N)
      BY <3>1
    <3>2. CASE j >= Below(w, N)
      <4>1. N \in DOMAIN w /\ j = Below(w, N)
        BY <2>1, <2>2, <3>2, BelowStep
      <4>. QED BY <4>1
    <3>. QED BY <2>1, <3>1, <3>2
  <2>. QED BY <2>1, <2>2
<1>3. L \in SUBSET Nat
  OBVIOUS
<1>4. MaxEntity + 1 \in L
  <2>. HIDE DEF L
  <2>. QED BY <1>1, <1>2, <1>3, InductiveSet, Sizes
<1>. QED BY <1>4, BelowEnds

------------------------------------------------------------------------------
(* Rings of entities. *)

LEMMA RingAt ==
    ASSUME NEW S, NEW ring \in Seq(S), NEW age \in 1 .. Len(ring)
    PROVE  /\ At(ring, age) = ring[Len(ring) - age + 1] /\ At(ring, age) \in S
           /\ Len(ring) - age + 1 \in 1 .. Len(ring)
<1>1. Len(ring) \in Nat \ {0} /\ age - 1 \in 0 .. Len(ring) - 1
  OBVIOUS
<1>2. (age - 1) % Len(ring) = age - 1
  BY <1>1, RemainderSmall
<1>3. Len(ring) - (age - 1) = Len(ring) - age + 1 /\ Len(ring) - age + 1 \in 1 .. Len(ring)
  BY <1>1
<1>4. ring[Len(ring) - age + 1] \in S
  BY <1>3
<1>. QED BY <1>2, <1>3, <1>4 DEF At

LEMMA Pushed ==
    ASSUME NEW S, NEW ring \in Seq(S), Len(ring) # 0, NEW e \in S
    PROVE  /\ Push(ring, e) \in Seq(S) /\ Len(Push(ring, e)) = Len(ring)
           /\ At(Push(ring, e), 1) = e
           /\ \A a \in 1 .. Len(ring) - 1 : At(Push(ring, e), a + 1) = At(ring, a)
<1>. DEFINE new == Append(Tail(ring), e)
            len == Len(ring)
<1>1. len \in Nat \ {0}
  OBVIOUS
<1>2. Tail(ring) \in Seq(S) /\ Len(Tail(ring)) = len - 1
      /\ \A i \in 1 .. len - 1 : Tail(ring)[i] = ring[i + 1]
  OBVIOUS
<1>3. /\ new \in Seq(S) /\ Len(new) = len /\ new[len] = e
      /\ \A i \in 1 .. len - 1 : new[i] = ring[i + 1]
  BY <1>1, <1>2
<1>4. new = Push(ring, e)
  BY DEF Push
<1>. HIDE DEF new
<1>5. At(new, 1) = e
  <2>1. At(new, 1) = new[len - 1 + 1]
    BY <1>1, <1>3, RingAt
  <2>2. len - 1 + 1 = len
    BY <1>1
  <2>. QED BY <2>1, <2>2, <1>3
<1>6. ASSUME NEW a \in 1 .. len - 1 PROVE At(new, a + 1) = At(ring, a)
  <2>1. a + 1 \in 1 .. len /\ a \in 1 .. len /\ len - a \in 1 .. len - 1 /\ len - (a + 1) + 1 = len - a
    BY <1>1
  <2>2. At(new, a + 1) = new[len - (a + 1) + 1]
    BY <2>1, <1>3, RingAt
  <2>3. At(ring, a) = ring[len - a + 1]
    BY <2>1, RingAt
  <2>. QED BY <2>1, <2>2, <2>3, <1>3
<1>. QED BY <1>3, <1>4, <1>5, <1>6

\* The oldest place is overwritten, the others stay.
LEMMA OldestLost ==
    ASSUME NEW S, NEW ring \in Seq(S), NEW e \in S
    PROVE  LET new == [ring EXCEPT ![1] = e]
           IN  /\ new \in Seq(S) /\ Len(new) = Len(ring)
               /\ \A a \in 1 .. Len(ring) - 1 : At(new, a) = At(ring, a)
<1>. DEFINE new == [ring EXCEPT ![1] = e]
<1>1. new \in Seq(S) /\ Len(new) = Len(ring) /\ Len(ring) \in Nat
  <2>1. Len(ring) \in Nat /\ ring \in [1 .. Len(ring) -> S]
    OBVIOUS
  <2>2. new \in [1 .. Len(ring) -> S]
    BY <2>1
  <2>. HIDE DEF new
  <2>. QED BY <2>1, <2>2
<1>2. \A i \in 2 .. Len(ring) : new[i] = ring[i]
  OBVIOUS
<1>. HIDE DEF new
<1>3. ASSUME NEW a \in 1 .. Len(ring) - 1 PROVE At(new, a) = At(ring, a)
  <2>1. a \in 1 .. Len(ring) /\ Len(ring) - a + 1 \in 2 .. Len(ring)
    BY <1>1
  <2>2. At(new, a) = new[Len(ring) - a + 1] /\ At(ring, a) = ring[Len(ring) - a + 1]
    BY <1>1, <2>1, RingAt
  <2>. QED BY <1>2, <2>1, <2>2
<1>. QED BY <1>1, <1>3 DEF new

LEMMA EmptyRing ==
    ASSUME NEW size \in Nat
    PROVE  Ring(size) \in Seq(Entity) /\ Len(Ring(size)) = size
<1>1. Nothing \in Entity
  BY DEF Entity
<1>2. Ring(size) \in [1 .. size -> Entity]
  BY <1>1 DEF Ring
<1>. QED BY <1>2 DEF Ring

LEMMA EntityIs == \A w \in Worlds : \A n \in DOMAIN w : <<n, w[n]>> \in Entity
<1>. TAKE w \in Worlds
<1>. TAKE n \in DOMAIN w
<1>1. <<n, w[n]>> \in {<<k, w[k]>> : k \in DOMAIN w}
  OBVIOUS
<1>. DEFINE A == {{<<k, v[k]>> : k \in DOMAIN v} : v \in Worlds}
<1>2. {<<k, w[k]>> : k \in DOMAIN w} \in A
  OBVIOUS
<1>3. <<n, w[n]>> \in UNION A
  BY <1>1, <1>2, Zenon
<1>. QED BY <1>3 DEF Entity

\* Entities are where they were, "more" places on; "upto" bounds the oldest.
Kept(old, new, more, upto) ==
    \A a \in 1 .. Len(old) : a + more <= upto => At(new, a + more) = At(old, a)

\* The entities numbered up to n of a world are the newest.
Laid(ring, w, n) ==
    \A m \in DOMAIN w : m <= n /\ Below(w, n + 1) - Below(w, m) <= Len(ring)
                            => At(ring, Below(w, n + 1) - Below(w, m)) = <<m, w[m]>>

LEMMA LaidPush ==
    ASSUME NEW w \in World, NEW n \in Nat, NEW old \in Seq(Entity), NEW ring \in Seq(Entity),
           Len(ring) # 0, n + 1 \in DOMAIN w, <<n + 1, w[n + 1]>> \in Entity,
           NEW upto \in 0 .. Len(ring), Kept(old, ring, Below(w, n + 1), upto), Laid(ring, w, n)
    PROVE  LET new == Push(ring, <<n + 1, w[n + 1]>>)
           IN  /\ new \in Seq(Entity) /\ Len(new) = Len(ring)
               /\ Kept(old, new, Below(w, n + 2), upto) /\ Laid(new, w, n + 1)
<1>. DEFINE e == <<n + 1, w[n + 1]>>
            new == Push(ring, e)
            b == Below(w, n + 1)
            c == Below(w, n + 2)
<1>1. /\ new \in Seq(Entity) /\ Len(new) = Len(ring) /\ At(new, 1) = e
      /\ \A a \in 1 .. Len(ring) - 1 : At(new, a + 1) = At(ring, a)
  <2>. HIDE DEF b, c, e
  <2>1. e \in Entity
    BY DEF e
  <2>. QED BY <2>1, Pushed
<1>2. b \in Nat /\ c = b + 1
  <2>1. n + 1 \in Nat /\ n + 1 + 1 = n + 2
    OBVIOUS
  <2>2. b \in Nat
    BY <2>1, WorldFinite
  <2>. QED BY <2>1, <2>2, BelowStep
<1>3. Len(old) \in Nat /\ Len(ring) \in Nat
  OBVIOUS
<1>4. \A a \in 1 .. Len(old) : a + b <= upto => At(ring, a + b) = At(old, a)
  BY DEF Kept
<1>. HIDE DEF new
<1>. DEFINE len == Len(ring)
<1>5. len \in Nat /\ upto \in 0 .. len /\ \A a \in 1 .. len - 1 : At(new, a + 1) = At(ring, a)
  BY <1>1, <1>3
<1>6. Kept(old, new, c, upto)
  <2>. SUFFICES ASSUME NEW a \in 1 .. Len(old), a + c <= upto PROVE At(new, a + c) = At(old, a)
    BY DEF Kept
  <2>. HIDE DEF b, c, len
  <2>1. a + b <= upto /\ a + b \in 1 .. len - 1 /\ a + c = (a + b) + 1
    BY <1>2, <1>3, <1>5
  <2>. QED BY <1>4, <1>5, <2>1
<1>7. Laid(new, w, n + 1)
  <2>1. n + 1 + 1 = n + 2
    OBVIOUS
  <2>. SUFFICES ASSUME NEW m \in DOMAIN w, m <= n + 1, c - Below(w, m) <= len
                PROVE  At(new, c - Below(w, m)) = <<m, w[m]>>
    BY <1>1, <2>1 DEF Laid
  <2>2. m \in Nat /\ Below(w, m) \in Nat
    BY BelowMember, Sizes
  <2>3. CASE m = n + 1
    <3>1. c - Below(w, m) = 1
      BY <1>2, <2>2, <2>3
    <3>. QED BY <1>1, <2>3, <3>1
  <2>4. CASE m <= n
    <3>1. Below(w, m) < b
      BY <2>2, <2>4, BelowStrict
    <3>. DEFINE d == Below(w, m)
    <3>2. d \in Nat /\ d < b /\ c - d <= len
      BY <2>2, <3>1
    <3>3. b - d <= len => At(ring, b - d) = <<m, w[m]>>
      BY <2>4 DEF Laid
    <3>. HIDE DEF b, c, d, len
    <3>4. b - d \in 1 .. len - 1 /\ b - d <= len /\ c - d = (b - d) + 1
      BY <1>2, <1>5, <3>2
    <3>5. At(new, (b - d) + 1) = At(ring, b - d)
      BY <1>5, <3>4
    <3>6. At(new, c - d) = <<m, w[m]>>
      BY <3>3, <3>4, <3>5
    <3>. QED BY <3>6 DEF d
  <2>. QED BY <2>2, <2>3, <2>4
<1>. QED BY <1>1, <1>6, <1>7 DEF new

------------------------------------------------------------------------------
(* A world is added to a ring. *)

\* g is the function that PushWorld computes, for the numbers up to n.
Pushes(g, ring, w, n) ==
    g = [i \in 0 .. n |->
            IF i = 0 THEN ring
            ELSE IF i \in DOMAIN w THEN Push(g[i - 1], <<i, w[i]>>)
            ELSE g[i - 1]]

LEMMA PushesExists ==
    ASSUME NEW ring, NEW w
    PROVE  \A n \in Nat : \E g : Pushes(g, ring, w, n)
<1>. DEFINE L == {n \in Nat : \E g : Pushes(g, ring, w, n)}
            next(g, i) == IF i \in DOMAIN w THEN Push(g[i - 1], <<i, w[i]>>) ELSE g[i - 1]
<1>1. 0 \in L
  <2>. DEFINE g == [i \in 0 .. 0 |-> ring]
              k == [i \in 0 .. 0 |-> IF i = 0 THEN ring ELSE next(g, i)]
  <2>1. g = k
    <3>1. DOMAIN g = 0 .. 0 /\ DOMAIN k = 0 .. 0 /\ \A i \in 0 .. 0 : i = 0
      OBVIOUS
    <3>. QED BY <3>1
  <2>2. Pushes(g, ring, w, 0)
    BY <2>1 DEF Pushes
  <2>. QED BY <2>2
<1>2. ASSUME NEW n \in L PROVE n + 1 \in L
  <2>1. n \in Nat
    OBVIOUS
  <2>2. PICK g : Pushes(g, ring, w, n)
    OBVIOUS
  <2>. DEFINE h == [i \in 0 .. n + 1 |-> IF i <= n THEN g[i] ELSE next(g, i)]
              k == [i \in 0 .. n |-> IF i = 0 THEN ring ELSE next(g, i)]
              l == [i \in 0 .. n + 1 |-> IF i = 0 THEN ring ELSE next(h, i)]
  <2>3. g = k
    BY <2>2 DEF Pushes
  <2>4. ASSUME NEW i \in 0 .. n + 1 PROVE h[i] = l[i]
    <3>1. i # 0 => h[i - 1] = g[i - 1]
      BY <2>1
    <3>2. i # 0 => next(h, i) = next(g, i)
      BY <3>1
    <3>3. i <= n => i \in 0 .. n /\ k[i] = IF i = 0 THEN ring ELSE next(g, i)
      BY <2>1
    <3>4. h[i] = IF i <= n THEN g[i] ELSE next(g, i)
      OBVIOUS
    <3>5. l[i] = IF i = 0 THEN ring ELSE next(h, i)
      OBVIOUS
    <3>6. i > n => i # 0
      BY <2>1
    <3>. HIDE DEF h, k, l, next
    <3>. QED BY <2>1, <2>3, <3>2, <3>3, <3>4, <3>5, <3>6
  <2>5. h = l
    <3>1. DOMAIN h = 0 .. n + 1 /\ DOMAIN l = 0 .. n + 1
          /\ h = [i \in DOMAIN h |-> h[i]] /\ l = [i \in DOMAIN l |-> l[i]]
      OBVIOUS
    <3>. HIDE DEF h, l
    <3>. QED BY <2>4, <3>1
  <2>6. Pushes(h, ring, w, n + 1)
    BY <2>5 DEF Pushes
  <2>. HIDE DEF h
  <2>. QED BY <2>1, <2>6
<1>. HIDE DEF L
<1>3. L \in SUBSET Nat
  BY DEF L
<1>4. \A n \in Nat : n \in L
  BY <1>1, <1>2, <1>3, InductiveSet
<1>. QED BY <1>4 DEF L

LEMMA PushWorldIs ==
    ASSUME NEW ring, NEW w
    PROVE  \E g : /\ PushWorld(ring, w) = g[MaxEntity] /\ g[0] = ring
                  /\ \A i \in 1 .. MaxEntity :
                        g[i] = IF i \in DOMAIN w THEN Push(g[i - 1], <<i, w[i]>>) ELSE g[i - 1]
<1>. DEFINE g == CHOOSE g : Pushes(g, ring, w, MaxEntity)
<1>1. Pushes(g, ring, w, MaxEntity)
  BY PushesExists, Sizes
<1>2. PushWorld(ring, w) = g[MaxEntity]
  BY DEF PushWorld, Pushes
<1>. HIDE DEF g
<1>. DEFINE k == [i \in 0 .. MaxEntity |->
                    IF i = 0 THEN ring
                    ELSE IF i \in DOMAIN w THEN Push(g[i - 1], <<i, w[i]>>)
                    ELSE g[i - 1]]
<1>3. g = k
  BY <1>1 DEF Pushes
<1>4. k[0] = ring
  BY Sizes
<1>5. \A i \in 1 .. MaxEntity :
         k[i] = IF i \in DOMAIN w THEN Push(g[i - 1], <<i, w[i]>>) ELSE g[i - 1]
  BY Sizes
<1>. HIDE DEF k
<1>. QED BY <1>2, <1>3, <1>4, <1>5

\* The world's entities become the newest; the others age by their number.
LEMMA PushedWorld ==
    ASSUME NEW w \in Worlds, NEW ring \in Seq(Entity), Len(ring) # 0
    PROVE  LET new == PushWorld(ring, w)
           IN  /\ new \in Seq(Entity) /\ Len(new) = Len(ring)
               /\ Kept(ring, new, Cardinality(DOMAIN w), Len(ring))
               /\ Laid(new, w, MaxEntity)
<1>. PICK g : /\ PushWorld(ring, w) = g[MaxEntity] /\ g[0] = ring
              /\ \A i \in 1 .. MaxEntity :
                    g[i] = IF i \in DOMAIN w THEN Push(g[i - 1], <<i, w[i]>>) ELSE g[i - 1]
  <2>1. PICK v, r : v = w /\ r = ring
    OBVIOUS
  <2>2. \E g : /\ PushWorld(r, v) = g[MaxEntity] /\ g[0] = r
               /\ \A i \in 1 .. MaxEntity :
                     g[i] = IF i \in DOMAIN v THEN Push(g[i - 1], <<i, v[i]>>) ELSE g[i - 1]
    BY PushWorldIs
  <2>. QED BY <2>1, <2>2
<1>. DEFINE Good(r, n) == /\ r \in Seq(Entity) /\ Len(r) = Len(ring)
                          /\ Kept(ring, r, Below(w, n + 1), Len(ring)) /\ Laid(r, w, n)
            L == {n \in Nat : n <= MaxEntity => Good(g[n], n)}
<1>w. w \in World /\ \A n \in DOMAIN w : n \in 1 .. MaxEntity
  BY WorldDomain DEF World
<1>1. 0 \in L
  <2>1. Below(w, 0 + 1) = 0
    BY <1>w, BelowEnds
  <2>2. \A a \in 1 .. Len(ring) : a + 0 = a
    OBVIOUS
  <2>3. Kept(ring, ring, 0, Len(ring))
    BY <2>2 DEF Kept
  <2>4. Laid(ring, w, 0)
    BY <1>w DEF Laid
  <2>. QED BY <2>1, <2>3, <2>4
<1>2. ASSUME NEW n \in L PROVE n + 1 \in L
  <2>1. n \in Nat
    OBVIOUS
  <2>. SUFFICES ASSUME n + 1 <= MaxEntity PROVE Good(g[n + 1], n + 1)
    BY <2>1
  <2>2. n + 1 \in 1 .. MaxEntity /\ n + 1 - 1 = n /\ n + 1 + 1 = n + 2 /\ Good(g[n], n)
    BY <2>1, Sizes
  <2>3. g[n + 1] = IF n + 1 \in DOMAIN w THEN Push(g[n], <<n + 1, w[n + 1]>>) ELSE g[n]
    BY <2>2
  <2>4. CASE n + 1 \in DOMAIN w
    <3>. DEFINE r == g[n]
    <3>1. /\ r \in Seq(Entity) /\ Len(r) = Len(ring) /\ Len(r) # 0 /\ Len(ring) \in 0 .. Len(r)
          /\ Kept(ring, r, Below(w, n + 1), Len(ring)) /\ Laid(r, w, n)
      BY <2>2
    <3>2. <<n + 1, w[n + 1]>> \in Entity
      BY <2>4, EntityIs
    <3>. HIDE DEF r
    <3>3. LET new == Push(r, <<n + 1, w[n + 1]>>)
          IN  /\ new \in Seq(Entity) /\ Len(new) = Len(r)
              /\ Kept(ring, new, Below(w, n + 2), Len(ring)) /\ Laid(new, w, n + 1)
      BY <1>w, <2>1, <2>4, <3>1, <3>2, LaidPush
    <3>. QED BY <2>2, <2>3, <2>4, <3>1, <3>3 DEF r
  <2>5. CASE n + 1 \notin DOMAIN w
    <3>1. Below(w, n + 2) = Below(w, n + 1)
      <4>1. Below(w, n + 1 + 1) = Below(w, n + 1) + 0
        BY <1>w, <2>1, <2>5, BelowStep
      <4>2. Below(w, n + 1) \in Nat
        <5>1. n + 1 \in Nat
          BY <2>1
        <5>. QED BY <1>w, <5>1, WorldFinite
      <4>. QED BY <2>2, <4>1, <4>2
    <3>2. \A m \in DOMAIN w : m <= n + 1 => m <= n
      BY <1>w, <2>1, <2>5, Sizes
    <3>3. Laid(g[n], w, n + 1)
      BY <2>2, <3>1, <3>2 DEF Laid
    <3>. QED BY <2>2, <2>3, <2>5, <3>1, <3>3
  <2>. QED BY <2>4, <2>5
<1>3. L \in SUBSET Nat
  OBVIOUS
<1>4. MaxEntity \in L
  <2>. HIDE DEF L
  <2>. QED BY <1>1, <1>2, <1>3, InductiveSet, Sizes
<1>5. Good(g[MaxEntity], MaxEntity) /\ Below(w, MaxEntity + 1) = Cardinality(DOMAIN w)
  BY <1>4, <1>w, BelowEnds, Sizes
<1>. QED BY <1>5

------------------------------------------------------------------------------
(* The entities of a frame. *)

LEMMA HeldIs ==
    ASSUME NEW w \in World, NEW ring, NEW f, f.age \in Nat, Stored(ring, f, w)
    PROVE  Held(ring, f) = w
<1>. DEFINE states == {At(ring, f.age - i) : i \in 0 .. f.num - 1}
            own == {<<n, w[n]>> : n \in DOMAIN w}
<1>1. f.num = Cardinality(DOMAIN w) /\ f.num \in Nat
  BY WorldFinite DEF Stored
<1>2. \A n \in DOMAIN w : At(ring, f.age - Below(w, n)) = <<n, w[n]>>
  BY DEF Stored
<1>3. states = own
  <2>1. ASSUME NEW i \in 0 .. f.num - 1 PROVE At(ring, f.age - i) \in own
    <3>1. PICK n \in DOMAIN w : Below(w, n) = i
      BY <1>1, Ranked
    <3>2. At(ring, f.age - i) = <<n, w[n]>>
      BY <1>2, <3>1
    <3>. QED BY <3>2
  <2>2. ASSUME NEW n \in DOMAIN w PROVE <<n, w[n]>> \in states
    <3>1. Below(w, n) \in 0 .. f.num - 1
      BY <1>1, BelowMember
    <3>2. At(ring, f.age - Below(w, n)) \in states
      BY <3>1
    <3>. HIDE DEF states
    <3>. QED BY <1>2, <3>2
  <2>3. states \subseteq own
    BY <2>1
  <2>4. own \subseteq states
    <3>. HIDE DEF states
    <3>. QED BY <2>2
  <2>. HIDE DEF states, own
  <2>. QED BY <2>3, <2>4
<1>. DEFINE held == [n \in {e[1] : e \in states} |-> (CHOOSE e \in states : e[1] = n)[2]]
<1>4. Held(ring, f) = held
  BY DEF Held
<1>. HIDE DEF states
<1>5. {e[1] : e \in states} = DOMAIN w
  <2>1. \A e \in own : e[1] \in DOMAIN w
    OBVIOUS
  <2>2. \A n \in DOMAIN w : <<n, w[n]>> \in own /\ <<n, w[n]>>[1] = n
    OBVIOUS
  <2>. HIDE DEF own
  <2>3. {e[1] : e \in own} = DOMAIN w
    BY <2>1, <2>2
  <2>. QED BY <1>3, <2>3
<1>6. ASSUME NEW n \in DOMAIN w PROVE (CHOOSE e \in states : e[1] = n) = <<n, w[n]>>
  <2>1. <<n, w[n]>> \in states /\ <<n, w[n]>>[1] = n
    BY <1>3
  <2>2. \A e \in states : e[1] = n => e = <<n, w[n]>>
    BY <1>3
  <2>. QED BY <2>1, <2>2
<1>7. \A n \in DOMAIN w : held[n] = w[n]
  <2>. SUFFICES ASSUME NEW n \in DOMAIN w PROVE held[n] = w[n]
    OBVIOUS
  <2>1. held[n] = (CHOOSE e \in states : e[1] = n)[2]
    BY <1>5
  <2>2. <<n, w[n]>>[2] = w[n]
    OBVIOUS
  <2>. QED BY <1>6, <2>1, <2>2
<1>8. w = [n \in DOMAIN w |-> w[n]]
  <2>1. w \in Worlds => w = [n \in DOMAIN w |-> w[n]]
    BY WorldsAssumption
  <2>2. <<>> = [n \in DOMAIN <<>> |-> <<>>[n]]
    OBVIOUS
  <2>. QED BY <2>1, <2>2 DEF World
<1>9. held = [n \in DOMAIN w |-> held[n]]
  BY <1>5
<1>. HIDE DEF held
<1>10. [n \in DOMAIN w |-> held[n]] = [n \in DOMAIN w |-> w[n]]
  BY <1>7
<1>. QED BY <1>4, <1>8, <1>9, <1>10

\* A frame stays stored when its entities are kept.
LEMMA StoredKept ==
    ASSUME NEW w \in World, NEW old \in Seq(Entity), NEW new \in Seq(Entity), NEW f, NEW g,
           NEW more \in Nat, NEW upto \in Nat, f.age \in Nat, g.age = f.age + more, g.num = f.num,
           Stored(old, f, w), f.age <= Len(old), f.age + more <= upto, Kept(old, new, more, upto)
    PROVE  Stored(new, g, w)
<1>1. f.num = Cardinality(DOMAIN w) /\ f.num <= f.age /\ f.num \in Nat
  BY WorldFinite DEF Stored
<1>2. ASSUME NEW n \in DOMAIN w PROVE At(new, g.age - Below(w, n)) = <<n, w[n]>>
  <2>. DEFINE b == Below(w, n)
              a == f.age - b
  <2>1. b \in Nat /\ b < f.num
    BY <1>1, BelowMember
  <2>2. Len(old) \in Nat
    OBVIOUS
  <2>3. At(old, a) = <<n, w[n]>>
    BY DEF Stored
  <2>4. g.age - b = a + more /\ a \in 1 .. Len(old) /\ a + more <= upto
    <3>. HIDE DEF b
    <3>. QED BY <1>1, <2>1, <2>2
  <2>. HIDE DEF a
  <2>5. At(new, a + more) = At(old, a)
    BY <2>4 DEF Kept
  <2>. QED BY <2>3, <2>4, <2>5
<1>. QED BY <1>1, <1>2 DEF Stored

\* A frame of the newest entities is stored.
LEMMA StoredLaid ==
    ASSUME NEW w \in World, NEW ring \in Seq(Entity), NEW f,
           f.age = Cardinality(DOMAIN w), f.num = f.age, f.age <= Len(ring),
           Laid(ring, w, MaxEntity)
    PROVE  Stored(ring, f, w)
<1>1. Cardinality(DOMAIN w) \in Nat /\ Below(w, MaxEntity + 1) = Cardinality(DOMAIN w)
  BY WorldFinite, BelowEnds
<1>2. ASSUME NEW n \in DOMAIN w PROVE At(ring, f.age - Below(w, n)) = <<n, w[n]>>
  <2>1. n <= MaxEntity /\ Below(w, n) \in Nat /\ Len(ring) \in Nat
    BY BelowMember, Sizes
  <2>2. f.age - Below(w, n) <= Len(ring)
    BY <1>1, <2>1
  <2>. QED BY <1>1, <2>1, <2>2 DEF Laid
<1>. QED BY <1>1, <1>2 DEF Stored

------------------------------------------------------------------------------
(* The client merges what has changed with a frame of its own. *)

Start == [ring |-> centities, written |-> 0, read |-> 0]

\* g is the function that Merged computes, for the numbers up to n.
Merges(g, f, updates, n) ==
    g = [i \in 0 .. n |-> IF i = 0 THEN Start ELSE Merge(f, updates, g[i - 1], i)]

LEMMA MergesExists ==
    ASSUME NEW f, NEW updates
    PROVE  \A n \in Nat : \E g : Merges(g, f, updates, n)
<1>. DEFINE L == {n \in Nat : \E g : Merges(g, f, updates, n)}
            next(g, i) == Merge(f, updates, g[i - 1], i)
<1>1. 0 \in L
  <2>. DEFINE g == [i \in 0 .. 0 |-> Start]
              k == [i \in 0 .. 0 |-> IF i = 0 THEN Start ELSE next(g, i)]
  <2>1. g = k
    <3>1. DOMAIN g = 0 .. 0 /\ DOMAIN k = 0 .. 0 /\ \A i \in 0 .. 0 : i = 0
      OBVIOUS
    <3>. QED BY <3>1
  <2>2. Merges(g, f, updates, 0)
    BY <2>1 DEF Merges
  <2>. QED BY <2>2
<1>2. ASSUME NEW n \in L PROVE n + 1 \in L
  <2>1. n \in Nat
    OBVIOUS
  <2>2. PICK g : Merges(g, f, updates, n)
    OBVIOUS
  <2>. DEFINE h == [i \in 0 .. n + 1 |-> IF i <= n THEN g[i] ELSE next(g, i)]
              k == [i \in 0 .. n |-> IF i = 0 THEN Start ELSE next(g, i)]
              l == [i \in 0 .. n + 1 |-> IF i = 0 THEN Start ELSE next(h, i)]
  <2>3. g = k
    BY <2>2 DEF Merges
  <2>4. ASSUME NEW i \in 0 .. n + 1 PROVE h[i] = l[i]
    <3>1. i # 0 => h[i - 1] = g[i - 1]
      BY <2>1
    <3>2. i # 0 => next(h, i) = next(g, i)
      BY <3>1
    <3>3. i <= n => i \in 0 .. n /\ k[i] = IF i = 0 THEN Start ELSE next(g, i)
      BY <2>1
    <3>4. h[i] = IF i <= n THEN g[i] ELSE next(g, i)
      OBVIOUS
    <3>5. l[i] = IF i = 0 THEN Start ELSE next(h, i)
      OBVIOUS
    <3>6. i > n => i # 0
      BY <2>1
    <3>. HIDE DEF h, k, l, next
    <3>. QED BY <2>1, <2>3, <3>2, <3>3, <3>4, <3>5, <3>6
  <2>5. h = l
    <3>1. DOMAIN h = 0 .. n + 1 /\ DOMAIN l = 0 .. n + 1
          /\ h = [i \in DOMAIN h |-> h[i]] /\ l = [i \in DOMAIN l |-> l[i]]
      OBVIOUS
    <3>. HIDE DEF h, l
    <3>. QED BY <2>4, <3>1
  <2>6. Merges(h, f, updates, n + 1)
    BY <2>5 DEF Merges
  <2>. HIDE DEF h
  <2>. QED BY <2>1, <2>6
<1>. HIDE DEF L
<1>3. L \in SUBSET Nat
  BY DEF L
<1>4. \A n \in Nat : n \in L
  BY <1>1, <1>2, <1>3, InductiveSet
<1>. QED BY <1>4 DEF L

LEMMA MergedIs ==
    ASSUME NEW f, NEW updates
    PROVE  \E g : /\ Merged(f, updates) = g[MaxEntity] /\ g[0] = Start
                  /\ \A i \in 1 .. MaxEntity : g[i] = Merge(f, updates, g[i - 1], i)
<1>. DEFINE g == CHOOSE g : Merges(g, f, updates, MaxEntity)
<1>1. Merges(g, f, updates, MaxEntity)
  BY MergesExists, Sizes
<1>2. Merged(f, updates) = g[MaxEntity]
  BY DEF Merged, Merges, Start
<1>. HIDE DEF g
<1>. DEFINE k == [i \in 0 .. MaxEntity |-> IF i = 0 THEN Start ELSE Merge(f, updates, g[i - 1], i)]
<1>3. g = k
  BY <1>1 DEF Merges
<1>4. k[0] = Start
  BY Sizes
<1>5. \A i \in 1 .. MaxEntity : k[i] = Merge(f, updates, g[i - 1], i)
  BY Sizes
<1>. HIDE DEF k
<1>. QED BY <1>2, <1>3, <1>4, <1>5

\* The merge between two entities: the number of those passed of either frame,
\* the old entities where they were, the new ones in their places.  Until an
\* entity of the old frame has been passed nothing is lost of the oldest place.
Midway(old, V, W, acc, n) ==
    /\ acc.ring \in Seq(Entity) /\ Len(acc.ring) = ClientEntities
    /\ acc.written = Below(W, n + 1) /\ acc.read = Below(V, n + 1)
    /\ Kept(old, acc.ring, Below(W, n + 1),
            IF Below(V, n + 1) = 0 THEN ClientEntities ELSE ClientEntities - 1)
    /\ Laid(acc.ring, W, n)

LEMMA Room == FramesFit => PacketEntities < ClientEntities
<1>. SUFFICES ASSUME FramesFit PROVE PacketEntities < ClientEntities
  OBVIOUS
<1>1. UpdateBackup \in Nat /\ PacketEntities \in Nat \ {0} /\ UpdateBackup - 1 >= 1 /\ UpdateBackup - 1 \in Nat
  BY Sizes DEF FramesFit
<1>2. UpdateBackup * PacketEntities = (UpdateBackup - 1) * PacketEntities + PacketEntities
  BY <1>1
<1>3. (UpdateBackup - 1) * PacketEntities >= 1
  BY <1>1
<1>. QED BY <1>1, <1>2, <1>3 DEF ClientEntities

LEMMA BelowFits ==
    ASSUME FramesFit, NEW W \in Worlds, NEW k \in Nat, k <= MaxEntity
    PROVE  Below(W, k) \in Nat /\ Below(W, k) <= PacketEntities
<1>w. W \in World
  BY DEF World
<1>1. Below(W, k) <= Below(W, MaxEntity)
  BY <1>w, BelowMonotone, Sizes
<1>2. DOMAIN W \subseteq 1 .. MaxEntity
  BY <1>w, WorldDomain
<1>3. {m \in DOMAIN W : m < MaxEntity} = DOMAIN W \ {MaxEntity}
  BY <1>2, Sizes
<1>4. Below(W, MaxEntity) <= PacketEntities
  BY <1>3 DEF FramesFit, Below
<1>5. Below(W, MaxEntity) \in Nat /\ Below(W, k) \in Nat
  BY <1>w, WorldFinite, Sizes
<1>. QED BY <1>1, <1>4, <1>5, Sizes

LEMMA KeptLess ==
    ASSUME NEW old \in Seq(Entity), NEW new, NEW more \in Int, NEW upto \in Int, NEW less \in Int,
           less <= upto, Kept(old, new, more, upto)
    PROVE  Kept(old, new, more, less)
<1>. SUFFICES ASSUME NEW a \in 1 .. Len(old), a + more <= less PROVE At(new, a + more) = At(old, a)
  BY DEF Kept
<1>1. a + more <= upto
  BY Sizes
<1>. QED BY <1>1 DEF Kept

\* What is read next is the entity itself if the old frame has it, and if not
\* another one.
LEMMA MergeReads ==
    ASSUME FramesFit, NEW V \in World, NEW W \in Worlds, NEW old \in Seq(Entity),
           Len(old) = ClientEntities,
           NEW f, f.age \in Nat, Stored(old, f, V), f.age <= ClientEntities - PacketEntities,
           NEW n \in Nat, n + 1 <= MaxEntity, NEW acc, Midway(old, V, W, acc, n)
    PROVE  LET e == At(acc.ring, f.age + acc.written - acc.read)
           IN  /\ (acc.read < f.num /\ e[1] = n + 1) <=> n + 1 \in DOMAIN V
               /\ n + 1 \in DOMAIN V => e[2] = V[n + 1]
<1>. DEFINE k == n + 1
            b == Below(W, k)
            r == Below(V, k)
            a == f.age - r
            e == At(acc.ring, f.age + acc.written - acc.read)
            upto == IF r = 0 THEN ClientEntities ELSE ClientEntities - 1
<1>w. W \in World /\ k \in Nat
  BY DEF World
<1>1. b \in Nat /\ r \in Nat /\ f.num = Cardinality(DOMAIN V) /\ f.num <= f.age /\ f.num \in Nat
  BY <1>w, WorldFinite DEF Stored
<1>2. b <= PacketEntities
  BY <1>w, BelowFits
<1>3. acc.written = b /\ acc.read = r /\ Kept(old, acc.ring, b, upto)
  BY DEF Midway
<1>4. CASE r < f.num
  <2>1. PICK m \in DOMAIN V : Below(V, m) = r
    BY <1>1, <1>4, Ranked
  <2>2. At(old, f.age - r) = <<m, V[m]>>
    BY <2>1 DEF Stored
  <2>3. a \in 1 .. Len(old) /\ a + b <= upto /\ f.age + acc.written - acc.read = a + b
    <3>1. f.age \in Nat /\ f.age <= ClientEntities - PacketEntities /\ Len(old) = ClientEntities
      OBVIOUS
    <3>2. r < f.age /\ (r # 0 => b - r <= PacketEntities - 1)
      <4>. HIDE DEF b, r
      <4>. QED BY <1>1, <1>2, <1>4, Sizes
    <3>3. a \in 1 .. f.age
      <4>. HIDE DEF b, r
      <4>. QED BY <1>1, <3>1, <3>2
    <3>4. a + b <= upto
      <4>. HIDE DEF b, r
      <4>. QED BY <1>1, <1>2, <3>1, <3>2, Sizes
    <3>5. f.age + acc.written - acc.read = a + b
      <4>. HIDE DEF b, r
      <4>. QED BY <1>1, <1>3, <3>1
    <3>6. \A x \in 1 .. f.age : x \in 1 .. Len(old)
      BY <3>1, Sizes
    <3>. HIDE DEF a
    <3>. QED BY <3>3, <3>4, <3>5, <3>6
  <2>4. e = <<m, V[m]>>
    <3>. HIDE DEF upto, a, b
    <3>1. At(acc.ring, a + b) = At(old, a)
      BY <1>3, <2>3 DEF Kept
    <3>2. e = At(acc.ring, a + b)
      BY <2>3
    <3>. QED BY <2>2, <3>1, <3>2 DEF a
  <2>5. m \in Nat
    BY BelowMember, Sizes
  <2>6. ~ m < k
    BY <1>1, <1>w, <2>1, <2>5, BelowStrict
  <2>7. k \in DOMAIN V => ~ k < m
    BY <1>1, <1>w, <2>1, <2>5, BelowStrict
  <2>8. m = k <=> k \in DOMAIN V
    BY <1>w, <2>5, <2>6, <2>7
  <2>9. e[1] = m /\ e[2] = V[m]
    BY <2>4
  <2>. HIDE DEF e, r
  <2>10. acc.read < f.num
    BY <1>3, <1>4
  <2>11. (acc.read < f.num /\ e[1] = k) <=> k \in DOMAIN V
    BY <2>8, <2>9, <2>10
  <2>12. k \in DOMAIN V => e[2] = V[k]
    BY <2>8, <2>9
  <2>. QED BY <2>11, <2>12 DEF e, k
<1>5. CASE ~ r < f.num
  <2>1. k \notin DOMAIN V
    BY <1>1, <1>5, BelowMember
  <2>. QED BY <1>3, <1>5, <2>1
<1>. QED BY <1>4, <1>5

\* What the update says of an entity.
LEMMA ChangedIs ==
    ASSUME NEW V \in World, NEW W \in World, NEW k
    PROVE  LET u == Changed(V, W)
           IN  /\ k \in DOMAIN u /\ k \in DOMAIN W => u[k] = W[k]
               /\ k \in DOMAIN u /\ k \notin DOMAIN W => u[k] = "removed"
               /\ k \notin DOMAIN u /\ k \in DOMAIN W => k \in DOMAIN V /\ V[k] = W[k]
               /\ k \notin DOMAIN W => (k \in DOMAIN u <=> k \in DOMAIN V)
<1>. DEFINE D == {n \in DOMAIN V \cup DOMAIN W : n \notin DOMAIN V \cap DOMAIN W \/ V[n] # W[n]}
            u == [n \in D |-> IF n \in DOMAIN W THEN W[n] ELSE "removed"]
<1>1. Changed(V, W) = u
  BY DEF Changed
<1>2. DOMAIN u = D /\ \A n \in D : u[n] = IF n \in DOMAIN W THEN W[n] ELSE "removed"
  OBVIOUS
<1>. HIDE DEF u
<1>. QED BY <1>1, <1>2

LEMMA MergeStep ==
    ASSUME FramesFit, NEW V \in World, NEW W \in Worlds, NEW old \in Seq(Entity),
           Len(old) = ClientEntities,
           NEW f, f.age \in Nat, Stored(old, f, V), f.age <= ClientEntities - PacketEntities,
           NEW n \in Nat, n + 1 <= MaxEntity, NEW acc, Midway(old, V, W, acc, n)
    PROVE  Midway(old, V, W, Merge(f, Changed(V, W), acc, n + 1), n + 1)
<1>. DEFINE k == n + 1
            u == Changed(V, W)
            e == At(acc.ring, f.age + acc.written - acc.read)
            matches == acc.read < f.num /\ e[1] = k
            field == IF k \in DOMAIN u THEN u[k] ELSE IF matches THEN e[2] ELSE "removed"
            res == Merge(f, u, acc, k)
            lim(r) == IF r = 0 THEN ClientEntities ELSE ClientEntities - 1
<1>w. W \in World /\ k \in Nat
  BY DEF World
<1>1. matches <=> k \in DOMAIN V
  BY MergeReads
<1>2. k \in DOMAIN V => e[2] = V[k]
  BY MergeReads
<1>3. /\ res.ring = IF field # "removed" THEN Push(acc.ring, <<k, field>>)
                    ELSE IF k \in DOMAIN u THEN [acc.ring EXCEPT ![1] = Nothing]
                    ELSE acc.ring
      /\ res.written = acc.written + (IF field = "removed" THEN 0 ELSE 1)
      /\ res.read = acc.read + (IF matches THEN 1 ELSE 0)
  BY DEF Merge
<1>4. /\ k \in DOMAIN u /\ k \in DOMAIN W => u[k] = W[k]
      /\ k \in DOMAIN u /\ k \notin DOMAIN W => u[k] = "removed"
      /\ k \notin DOMAIN u /\ k \in DOMAIN W => k \in DOMAIN V /\ V[k] = W[k]
      /\ k \notin DOMAIN W => (k \in DOMAIN u <=> k \in DOMAIN V)
  BY <1>w, ChangedIs
<1>5. k \in DOMAIN W => field = W[k] /\ W[k] # "removed"
  <2>1. k \in DOMAIN W => W[k] # "removed"
    BY WorldsAssumption
  <2>. HIDE DEF u, e, matches, k
  <2>. QED BY <1>1, <1>2, <1>4, <2>1
<1>6. k \notin DOMAIN W => field = "removed"
  <2>. HIDE DEF u, e, matches, k
  <2>. QED BY <1>1, <1>4
<1>7. /\ acc.ring \in Seq(Entity) /\ Len(acc.ring) = ClientEntities
      /\ acc.written = Below(W, k) /\ acc.read = Below(V, k)
      /\ Kept(old, acc.ring, Below(W, k), lim(Below(V, k))) /\ Laid(acc.ring, W, n)
  BY DEF Midway
<1>8. /\ Below(W, k) \in Nat /\ Below(V, k) \in Nat
      /\ Below(W, n + 2) = Below(W, k) + (IF k \in DOMAIN W THEN 1 ELSE 0)
      /\ Below(V, n + 2) = Below(V, k) + (IF k \in DOMAIN V THEN 1 ELSE 0)
  <2>1. k + 1 = n + 2
    OBVIOUS
  <2>. HIDE DEF k
  <2>. QED BY <1>w, <2>1, WorldFinite, BelowStep
<1>9. res.written = Below(W, n + 2) /\ res.read = Below(V, n + 2)
  <2>. HIDE DEF field, matches, res, k
  <2>. QED BY <1>1, <1>3, <1>5, <1>6, <1>7, <1>8
<1>10. /\ lim(Below(V, k)) \in 0 .. Len(acc.ring) /\ Len(acc.ring) # 0
       /\ lim(Below(V, n + 2)) \in Int /\ lim(Below(V, n + 2)) <= lim(Below(V, k))
       /\ k \in DOMAIN V => lim(Below(V, n + 2)) = ClientEntities - 1
  <2>. HIDE DEF k
  <2>. QED BY <1>7, <1>8, Sizes
<1>11. \A m \in DOMAIN W : k \notin DOMAIN W /\ m <= k => m <= n /\ m \in Nat
  <2>1. \A m \in DOMAIN W : m \in Nat
    BY <1>w, BelowMember, Sizes
  <2>. QED BY <2>1
<1>12. n + 1 + 1 = n + 2
  OBVIOUS
<1>13. SUFFICES /\ res.ring \in Seq(Entity) /\ Len(res.ring) = ClientEntities
                /\ Kept(old, res.ring, Below(W, n + 2), lim(Below(V, n + 2)))
                /\ Laid(res.ring, W, k)
  <2>1. res = Merge(f, Changed(V, W), acc, n + 1)
    OBVIOUS
  <2>. HIDE DEF res
  <2>2. Midway(old, V, W, res, n + 1)
    BY <1>9, <1>12 DEF Midway
  <2>. QED BY <2>1, <2>2
<1>14. CASE k \in DOMAIN W
  <2>. DEFINE new == Push(acc.ring, <<k, W[k]>>)
  <2>1. <<k, W[k]>> \in Entity
    BY <1>14, EntityIs
  <2>2. /\ new \in Seq(Entity) /\ Len(new) = Len(acc.ring)
        /\ Kept(old, new, Below(W, n + 2), lim(Below(V, k))) /\ Laid(new, W, k)
    <3>. DEFINE ring == acc.ring
                upto == lim(Below(V, k))
    <3>1. /\ ring \in Seq(Entity) /\ Len(ring) # 0 /\ upto \in 0 .. Len(ring)
          /\ Kept(old, ring, Below(W, n + 1), upto) /\ Laid(ring, W, n)
          /\ n + 1 \in DOMAIN W /\ <<n + 1, W[n + 1]>> \in Entity
      BY <1>7, <1>10, <1>14, <2>1
    <3>2. new = Push(ring, <<n + 1, W[n + 1]>>)
      OBVIOUS
    <3>. HIDE DEF ring, upto, new
    <3>3. LET r == Push(ring, <<n + 1, W[n + 1]>>)
          IN  /\ r \in Seq(Entity) /\ Len(r) = Len(ring)
              /\ Kept(old, r, Below(W, n + 2), upto) /\ Laid(r, W, n + 1)
      BY <1>w, <3>1, LaidPush
    <3>. QED BY <3>2, <3>3 DEF ring, upto
  <2>3. res.ring = new
    <3>. HIDE DEF field, res, u, matches
    <3>. QED BY <1>3, <1>5, <1>14
  <2>4. Kept(old, new, Below(W, n + 2), lim(Below(V, n + 2)))
    <3>1. lim(Below(V, k)) \in Int /\ Below(W, n + 2) \in Int
      <4>. HIDE DEF k
      <4>. QED BY <1>8, <1>10, Sizes
    <3>. HIDE DEF new, k, lim
    <3>. QED BY <1>10, <2>2, <3>1, KeptLess
  <2>. HIDE DEF new, res
  <2>. QED BY <1>7, <2>2, <2>3, <2>4
<1>15. CASE k \notin DOMAIN W /\ k \in DOMAIN V
  <2>. DEFINE new == [acc.ring EXCEPT ![1] = Nothing]
  <2>1. Nothing \in Entity
    BY DEF Entity
  <2>2. /\ new \in Seq(Entity) /\ Len(new) = Len(acc.ring)
        /\ \A a \in 1 .. Len(acc.ring) - 1 : At(new, a) = At(acc.ring, a)
    <3>1. acc.ring \in Seq(Entity)
      BY <1>7
    <3>. HIDE DEF k
    <3>. QED BY <2>1, <3>1, OldestLost, Zenon
  <2>3. res.ring = new
    <3>. HIDE DEF field, res, u, matches
    <3>. QED BY <1>3, <1>4, <1>6, <1>15
  <2>. DEFINE b == Below(W, k)
  <2>4. b \in Nat /\ b <= PacketEntities /\ PacketEntities < ClientEntities /\ Below(W, n + 2) = b
    BY <1>8, <1>15, BelowFits, Room
  <2>. HIDE DEF new
  <2>5. Kept(old, new, b, ClientEntities - 1)
    <3>. SUFFICES ASSUME NEW a \in 1 .. Len(old), a + b <= ClientEntities - 1
                  PROVE  At(new, a + b) = At(old, a)
      BY DEF Kept
    <3>1. a + b <= lim(Below(V, k)) /\ a + b \in 1 .. ClientEntities - 1
      <4>. HIDE DEF b, k
      <4>. QED BY <1>8, <2>4, Sizes
    <3>2. At(acc.ring, a + b) = At(old, a)
      BY <1>7, <3>1 DEF Kept
    <3>3. At(new, a + b) = At(acc.ring, a + b)
      <4>. HIDE DEF b
      <4>. QED BY <1>7, <2>2, <3>1
    <3>. QED BY <3>2, <3>3
  <2>6. Laid(new, W, k)
    <3>. SUFFICES ASSUME NEW m \in DOMAIN W, m <= k
                  PROVE  At(new, b - Below(W, m)) = <<m, W[m]>>
      BY <1>12, <2>4 DEF Laid
    <3>. DEFINE d == Below(W, m)
    <3>1. m <= n /\ m \in Nat /\ d \in Nat /\ d < b
      BY <1>w, <1>11, <1>15, BelowStrict, BelowMember
    <3>2. b - d <= Len(acc.ring) /\ b - d \in 1 .. Len(acc.ring) - 1
      <4>. HIDE DEF b, d
      <4>. QED BY <1>7, <2>4, <3>1, Sizes
    <3>3. At(acc.ring, b - d) = <<m, W[m]>>
      BY <1>7, <3>1, <3>2 DEF Laid
    <3>4. At(new, b - d) = At(acc.ring, b - d)
      <4>. HIDE DEF b, d
      <4>. QED BY <2>2, <3>2
    <3>. QED BY <3>3, <3>4
  <2>. HIDE DEF res
  <2>. QED BY <1>7, <1>10, <1>15, <2>2, <2>3, <2>4, <2>5, <2>6
<1>16. CASE k \notin DOMAIN W /\ k \notin DOMAIN V
  <2>1. res.ring = acc.ring
    <3>. HIDE DEF field, res, u, matches
    <3>. QED BY <1>3, <1>4, <1>6, <1>16
  <2>2. Below(W, n + 2) = Below(W, k) /\ Below(V, n + 2) = Below(V, k)
    BY <1>8, <1>16
  <2>3. Laid(acc.ring, W, k)
    BY <1>7, <1>11, <1>12, <1>16, <2>2 DEF Laid
  <2>. HIDE DEF res, k, lim
  <2>. QED BY <1>7, <2>1, <2>2, <2>3
<1>. QED BY <1>14, <1>15, <1>16

\* After the merge the client has the entities of the world that was sent.
LEMMA MergedWorld ==
    ASSUME FramesFit, NEW V \in World, NEW W \in Worlds, centities \in Seq(Entity),
           Len(centities) = ClientEntities,
           NEW f, f.age \in Nat, Stored(centities, f, V), f.age <= ClientEntities - PacketEntities
    PROVE  LET merged == Merged(f, Changed(V, W))
           IN  /\ merged.ring \in Seq(Entity) /\ Len(merged.ring) = ClientEntities
               /\ merged.written = Cardinality(DOMAIN W)
               /\ Kept(centities, merged.ring, Cardinality(DOMAIN W), ClientEntities - 1)
               /\ Laid(merged.ring, W, MaxEntity)
<1>. DEFINE u == Changed(V, W)
<1>. PICK g : /\ Merged(f, u) = g[MaxEntity] /\ g[0] = Start
              /\ \A i \in 1 .. MaxEntity : g[i] = Merge(f, u, g[i - 1], i)
  BY MergedIs
<1>. DEFINE L == {n \in Nat : n <= MaxEntity => Midway(centities, V, W, g[n], n)}
<1>w. W \in World
  BY DEF World
<1>1. 0 \in L
  <2>1. Below(W, 0 + 1) = 0 /\ Below(V, 0 + 1) = 0
    BY <1>w, BelowEnds
  <2>2. \A a \in 1 .. Len(centities) : a + 0 = a
    OBVIOUS
  <2>3. Kept(centities, centities, 0, ClientEntities)
    BY <2>2 DEF Kept
  <2>4. Laid(centities, W, 0)
    <3>1. \A m \in DOMAIN W : m >= 1 /\ m \in Nat
      BY <1>w, WorldDomain
    <3>2. \A m \in DOMAIN W : ~ m <= 0
      BY <3>1
    <3>. QED BY <3>2 DEF Laid
  <2>5. g[0].ring = centities /\ g[0].written = 0 /\ g[0].read = 0
    BY DEF Start
  <2>6. Midway(centities, V, W, g[0], 0)
    BY <2>1, <2>3, <2>4, <2>5 DEF Midway
  <2>. QED BY <2>6
<1>2. ASSUME NEW n \in L PROVE n + 1 \in L
  <2>1. n \in Nat
    OBVIOUS
  <2>. SUFFICES ASSUME n + 1 <= MaxEntity PROVE Midway(centities, V, W, g[n + 1], n + 1)
    BY <2>1
  <2>2. n + 1 \in 1 .. MaxEntity /\ n + 1 - 1 = n /\ n <= MaxEntity
    BY <2>1, Sizes
  <2>3. g[n + 1] = Merge(f, u, g[n], n + 1) /\ Midway(centities, V, W, g[n], n)
    BY <2>2
  <2>4. Midway(centities, V, W, Merge(f, u, g[n], n + 1), n + 1)
    BY <2>1, <2>3, MergeStep
  <2>. QED BY <2>3, <2>4
<1>3. L \in SUBSET Nat
  OBVIOUS
<1>4. MaxEntity \in L
  <2>. HIDE DEF L
  <2>. QED BY <1>1, <1>2, <1>3, InductiveSet, Sizes
<1>. DEFINE m == Merged(f, u)
<1>5. Midway(centities, V, W, m, MaxEntity) /\ Below(W, MaxEntity + 1) = Cardinality(DOMAIN W)
  BY <1>4, <1>w, BelowEnds, Sizes
<1>. HIDE DEF m
<1>. DEFINE lim == IF Below(V, MaxEntity + 1) = 0 THEN ClientEntities ELSE ClientEntities - 1
<1>6. /\ m.ring \in Seq(Entity) /\ Len(m.ring) = ClientEntities
      /\ m.written = Cardinality(DOMAIN W)
      /\ Kept(centities, m.ring, Cardinality(DOMAIN W), lim)
      /\ Laid(m.ring, W, MaxEntity)
  BY <1>5 DEF Midway
<1>7. Kept(centities, m.ring, Cardinality(DOMAIN W), ClientEntities - 1)
  <2>1. Cardinality(DOMAIN W) \in Int /\ lim \in Int /\ ClientEntities - 1 \in Int /\ ClientEntities - 1 <= lim
    <3>1. Cardinality(DOMAIN W) \in Nat
      BY <1>w, WorldFinite
    <3>. QED BY <3>1, Sizes
  <2>. HIDE DEF lim
  <2>. QED BY <1>6, <2>1, KeptLess
<1>. QED BY <1>6, <1>7 DEF m

------------------------------------------------------------------------------
(***************************************************************************)
(* The inductive invariant.  A frame that both ends still have is of the   *)
(* same world at both; that is kept for the client's last good frame, the  *)
(* one the server goes by, and those the packets under way are compared    *)
(* with.                                                                   *)
(***************************************************************************)
PacketOf(U) == [seq : Nat, kind : {"frame", "reliable"}, back : Int, updates : U,
                world : World]
Sequence    == (Nat \ {0}) \cup {None}

TypeInv ==
    /\ spawned \in BOOLEAN
    /\ delta \in Sequence /\ valid \in Sequence
    /\ InFlight <= MaxBehind + 1 => delta \in ASequence /\ valid \in ASequence
    /\ frames \in [0 .. UpdateBackup - 1 -> AFrame(ServerEntities)]
    /\ cframes \in [0 .. UpdateBackup - 1 -> AFrame(ClientEntities)]
    /\ entities \in Seq(Entity) /\ Len(entities) = ServerEntities
    /\ centities \in Seq(Entity) /\ Len(centities) = ClientEntities
    /\ \E U : down \in Seq(PacketOf(U))
    /\ Len(down) <= InFlight
    /\ shown \in World

\* The client has nothing to overwrite in a frame that it may be asked to use.
Fresh(seq) == cframes[Slot(seq)].age <= ClientEntities - PacketEntities

\* The server's frame of this number is of the world if the server has it still.
ServerHas(seq, w) ==
    seq < UpdateBackup /\ frames[seq].age < ServerEntities => Stored(entities, frames[seq], w)

ClientHas(seq, w) == Stored(centities, cframes[Slot(seq)], w)

\* A number that has to do with packets is that of an older packet than those
\* under way.
FrameInv(p) ==
    /\ p.world \in Worlds
    /\ p.back \in 1 .. MaxBehind \cup {None}
    /\ p.back = None => p.updates = Changed(<<>>, p.world)
    /\ p.back # None => p.seq + p.back > Len(down)
    /\ p.back # None /\ p.back < UpdateBackup - 1 /\ Fresh(p.seq + p.back)
           => \E V \in World : p.updates = Changed(V, p.world) /\ ClientHas(p.seq + p.back, V)
    /\ ServerHas(p.seq, p.world)

PacketsInv ==
    \A i \in DOMAIN down : /\ down[i].seq = Len(down) - i + 1
                           /\ down[i].kind = "frame" => FrameInv(down[i])

ValidInv ==
    valid # None => /\ valid > Len(down) /\ shown \in Worlds
                    /\ ClientHas(valid, shown) /\ ServerHas(valid, shown)

DeltaInv ==
    delta # None =>
        /\ delta > Len(down)
        /\ delta < UpdateBackup - 1 /\ frames[delta].age < ServerEntities /\ Fresh(delta)
               => \E V \in World : ClientHas(delta, V) /\ Stored(entities, frames[delta], V)

SnapshotsInv == TypeInv /\ PacketsInv /\ ValidInv /\ DeltaInv

LEMMA SnapshotsInit == FramesFit /\ Init => SnapshotsInv
<1>. SUFFICES ASSUME FramesFit, Init PROVE SnapshotsInv
  OBVIOUS
<1>1. down = <<>> /\ DOMAIN down = {} /\ Len(down) = 0 /\ \A U : down \in Seq(PacketOf(U))
  BY DEF Init
<1>2. /\ entities \in Seq(Entity) /\ Len(entities) = ServerEntities
      /\ centities \in Seq(Entity) /\ Len(centities) = ClientEntities
  BY EmptyRing, Sizes DEF Init
<1>3. \A size \in Nat : NoFrame \in AFrame(size)
  BY Sizes DEF AFrame, NoFrame
<1>4. /\ frames \in [0 .. UpdateBackup - 1 -> AFrame(ServerEntities)]
      /\ cframes \in [0 .. UpdateBackup - 1 -> AFrame(ClientEntities)]
  BY <1>3, Sizes DEF Init
<1>5. TypeInv
  <2>1. spawned \in BOOLEAN
    BY DEF Init
  <2>2. delta \in Sequence /\ valid \in Sequence /\ delta \in ASequence /\ valid \in ASequence
    BY Sizes DEF Init, Sequence, ASequence
  <2>3. Len(down) <= InFlight /\ shown \in World /\ \E U : down \in Seq(PacketOf(U))
    BY <1>1, Sizes DEF Init, World
  <2>. QED BY <1>2, <1>4, <2>1, <2>2, <2>3 DEF TypeInv
<1>. QED BY <1>1, <1>5 DEF SnapshotsInv, PacketsInv, ValidInv, DeltaInv, Init

------------------------------------------------------------------------------
(* The server uses a number. *)

Aged(p) == [p EXCEPT !.seq = Older(@)]

LEMMA AgedIs ==
    ASSUME NEW U, NEW p \in PacketOf(U)
    PROVE  /\ Aged(p) \in PacketOf(U) /\ Aged(p).seq = p.seq + 1
           /\ Aged(p).kind = p.kind /\ Aged(p).back = p.back /\ Aged(p).updates = p.updates
           /\ Aged(p).world = p.world
<1>1. p.seq \in Nat /\ Older(p.seq) = p.seq + 1
  BY DEF PacketOf, Older, None
<1>2. /\ Aged(p).seq = p.seq + 1
      /\ Aged(p).kind = p.kind /\ Aged(p).back = p.back /\ Aged(p).updates = p.updates
      /\ Aged(p).world = p.world
  BY <1>1 DEF Aged, PacketOf
<1>3. Aged(p) \in PacketOf(U)
  BY <1>1 DEF Aged, PacketOf
<1>. QED BY <1>2, <1>3

\* The packets that are under way are one number older, and the oldest may be lost.
LEMMA TransmitDown ==
    ASSUME NEW U, down \in Seq(PacketOf(U)), Len(down) <= InFlight, NEW q \in PacketOf(U),
           down' = Recent([i \in DOMAIN down |-> [down[i] EXCEPT !.seq = Older(@)]] \o <<q>>)
    PROVE  \E d \in {0, 1} :
               /\ down' \in Seq(PacketOf(U))
               /\ Len(down') = Len(down) + 1 - d /\ Len(down') <= InFlight
               /\ down'[Len(down')] = q
               /\ \A i \in 1 .. Len(down) - d :
                     i + d \in DOMAIN down /\ down'[i] = Aged(down[i + d])
<1>. DEFINE aged == [i \in DOMAIN down |-> [down[i] EXCEPT !.seq = Older(@)]]
            net == aged \o <<q>>
            len == Len(down)
<1>1. len \in Nat /\ DOMAIN down = 1 .. len /\ \A i \in 1 .. len : down[i] \in PacketOf(U)
  OBVIOUS
<1>2. \A i \in 1 .. len : aged[i] = Aged(down[i]) /\ Aged(down[i]) \in PacketOf(U)
  <2>1. ASSUME NEW i \in 1 .. len PROVE aged[i] = Aged(down[i]) /\ Aged(down[i]) \in PacketOf(U)
    <3>1. down[i] \in PacketOf(U)
      BY <1>1
    <3>2. Aged(down[i]) \in PacketOf(U)
      BY <3>1, AgedIs
    <3>3. aged[i] = Aged(down[i])
      BY <1>1 DEF Aged
    <3>. QED BY <3>2, <3>3
  <2>. QED BY <2>1
<1>3. aged \in [1 .. len -> PacketOf(U)]
  <2>1. DOMAIN aged = 1 .. len /\ aged = [i \in 1 .. len |-> aged[i]]
    BY <1>1
  <2>. HIDE DEF aged
  <2>. QED BY <1>2, <2>1
<1>4. aged \in Seq(PacketOf(U)) /\ Len(aged) = len
  <2>. HIDE DEF aged
  <2>. QED BY <1>1, <1>3
<1>5. /\ net \in Seq(PacketOf(U)) /\ Len(net) = len + 1 /\ net[len + 1] = q
      /\ \A i \in 1 .. len : net[i] = Aged(down[i])
  <2>. HIDE DEF aged
  <2>. QED BY <1>1, <1>2, <1>4
<1>6. down' = Recent(net) /\ InFlight \in Nat
  BY Sizes
<1>. HIDE DEF net
<1>7. CASE Len(net) > InFlight
  <2>1. down' = Tail(net)
    BY <1>6, <1>7 DEF Recent
  <2>2. /\ down' \in Seq(PacketOf(U)) /\ Len(down') = len
        /\ \A i \in 1 .. len : down'[i] = net[i + 1]
    <3>1. net # <<>> /\ Len(net) - 1 = len
      BY <1>1, <1>5
    <3>. DEFINE t == Tail(net)
    <3>2. t \in Seq(PacketOf(U)) /\ Len(t) = Len(net) - 1 /\ \A i \in 1 .. Len(net) - 1 : t[i] = net[i + 1]
      BY <1>5, <3>1
    <3>. HIDE DEF t
    <3>. QED BY <2>1, <3>1, <3>2 DEF t
  <2>3. len # 0
    BY <1>1, <1>5, <1>6, <1>7, Sizes
  <2>. HIDE DEF len
  <2>4. down'[Len(down')] = q
    BY <1>1, <1>5, <2>2, <2>3
  <2>5. \A i \in 1 .. len - 1 : i + 1 \in DOMAIN down /\ down'[i] = Aged(down[i + 1])
    <3>. SUFFICES ASSUME NEW i \in 1 .. len - 1
                  PROVE  i + 1 \in DOMAIN down /\ down'[i] = Aged(down[i + 1])
      OBVIOUS
    <3>1. i \in 1 .. len /\ i + 1 \in 1 .. len
      BY <1>1
    <3>. QED BY <1>1, <1>5, <2>2, <3>1
  <2>6. Len(down') = len + 1 - 1
    BY <1>1, <2>2
  <2>. USE DEF len
  <2>. QED BY <2>2, <2>4, <2>5, <2>6
<1>8. CASE ~ Len(net) > InFlight
  <2>1. down' = net
    BY <1>6, <1>8 DEF Recent
  <2>2. \A i \in 1 .. len - 0 : i + 0 \in DOMAIN down /\ down'[i] = Aged(down[i + 0])
    BY <1>1, <1>5, <2>1
  <2>3. Len(down') = len + 1 - 0 /\ Len(down') <= InFlight
    BY <1>1, <1>5, <1>6, <1>8, <2>1
  <2>. QED BY <1>5, <2>1, <2>2, <2>3
<1>. QED BY <1>7, <1>8

LEMMA PacketOfMore == \A U, X : U \subseteq X => Seq(PacketOf(U)) \subseteq Seq(PacketOf(X))
<1>. SUFFICES ASSUME NEW U, NEW X, U \subseteq X PROVE Seq(PacketOf(U)) \subseteq Seq(PacketOf(X))
  OBVIOUS
<1>1. PacketOf(U) \subseteq PacketOf(X)
  BY DEF PacketOf
<1>. QED BY <1>1

LEMMA RotatedIs ==
    ASSUME NEW S, NEW ring \in [0 .. UpdateBackup - 1 -> S]
    PROVE  /\ Rotated(ring) \in [0 .. UpdateBackup - 1 -> S]
           /\ \A n \in Nat : Rotated(ring)[Slot(n + 1)] = ring[Slot(n)]
           /\ \A n \in 0 .. UpdateBackup - 2 : Rotated(ring)[n + 1] = ring[n]
<1>. DEFINE new == [s \in 0 .. UpdateBackup - 1 |-> ring[(s + UpdateBackup - 1) % UpdateBackup]]
<1>1. DOMAIN ring = 0 .. UpdateBackup - 1 /\ Rotated(ring) = new
  BY DEF Rotated
<1>2. UpdateBackup \in Nat \ {0}
  BY Sizes
<1>3. ASSUME NEW s \in 0 .. UpdateBackup - 1
      PROVE  new[s] = ring[(s + UpdateBackup - 1) % UpdateBackup] /\ new[s] \in S
  <2>1. s + UpdateBackup - 1 \in Int
    BY <1>2
  <2>2. (s + UpdateBackup - 1) % UpdateBackup \in 0 .. UpdateBackup - 1
    BY <1>2, <2>1
  <2>. QED BY <2>2
<1>4. DOMAIN new = 0 .. UpdateBackup - 1 /\ new = [s \in 0 .. UpdateBackup - 1 |-> new[s]]
  OBVIOUS
<1>. HIDE DEF new
<1>5. new \in [0 .. UpdateBackup - 1 -> S]
  BY <1>3, <1>4
<1>6. ASSUME NEW n \in Nat PROVE new[Slot(n + 1)] = ring[Slot(n)]
  <2>1. Slot(n + 1) \in 0 .. UpdateBackup - 1
    BY SlotRange
  <2>2. (Slot(n + 1) + UpdateBackup - 1) % UpdateBackup = Slot(n)
    BY SlotNext
  <2>. QED BY <1>3, <2>1, <2>2
<1>7. ASSUME NEW n \in 0 .. UpdateBackup - 2 PROVE new[n + 1] = ring[n]
  <2>1. n \in 0 .. UpdateBackup - 1 /\ n + 1 \in 0 .. UpdateBackup - 1 /\ n \in Nat
    BY <1>2
  <2>2. Slot(n) = n /\ Slot(n + 1) = n + 1
    BY <2>1, SlotSmall
  <2>. QED BY <1>6, <2>1, <2>2
<1>. QED BY <1>1, <1>5, <1>6, <1>7

\* What the server's step does to its older frames: one that it has afterwards it
\* had, with the same entities.
ServerKeeps ==
    \A n \in 1 .. UpdateBackup - 2 :
        frames'[n + 1].age < ServerEntities =>
            /\ frames[n].age < ServerEntities
            /\ \A V \in World : Stored(entities, frames[n], V) => Stored(entities', frames'[n + 1], V)

LEMMA ServerHasNext ==
    ASSUME ServerKeeps, NEW n \in Nat \ {0}, NEW V \in World, ServerHas(n, V)
    PROVE  ServerHas(n + 1, V)'
<1>. SUFFICES ASSUME n + 1 < UpdateBackup, frames'[n + 1].age < ServerEntities
              PROVE  Stored(entities', frames'[n + 1], V)
  BY DEF ServerHas, Stored
<1>1. n \in 1 .. UpdateBackup - 2 /\ n < UpdateBackup
  BY Sizes
<1>. QED BY <1>1 DEF ServerKeeps, ServerHas

LEMMA ClientHasNext ==
    ASSUME TypeInv, cframes' = Rotated(cframes), centities' = centities, NEW n \in Nat, NEW V
    PROVE  /\ ClientHas(n + 1, V)' <=> ClientHas(n, V)
           /\ Fresh(n + 1)' <=> Fresh(n)
<1>1. cframes'[Slot(n + 1)] = cframes[Slot(n)]
  BY RotatedIs DEF TypeInv
<1>2. Stored(centities', cframes'[Slot(n + 1)], V) <=> Stored(centities, cframes[Slot(n)], V)
  BY <1>1
<1>3. ClientHas(n + 1, V)' <=> Stored(centities', cframes'[Slot(n + 1)], V)
  BY DEF ClientHas, Stored, At
<1>. QED BY <1>1, <1>2, <1>3 DEF ClientHas, Fresh

LEMMA FrameInvNext ==
    ASSUME TypeInv, ServerKeeps, cframes' = Rotated(cframes), centities' = centities,
           Len(down') <= Len(down) + 1, Len(down') \in Nat,
           NEW U, NEW p \in PacketOf(U), p.seq # 0, FrameInv(p)
    PROVE  FrameInv(Aged(p))'
<1>. DEFINE r == Aged(p)
<1>1. /\ p.seq \in Nat \ {0} /\ p.back \in 1 .. MaxBehind \cup {None}
      /\ r.seq = p.seq + 1 /\ r.back = p.back /\ r.updates = p.updates
      /\ r.world = p.world
  <2>1. /\ r.seq = p.seq + 1 /\ r.back = p.back /\ r.updates = p.updates
        /\ r.world = p.world
    BY AgedIs
  <2>2. p.seq \in Nat \ {0} /\ p.back \in 1 .. MaxBehind \cup {None}
    BY DEF PacketOf, FrameInv
  <2>. QED BY <2>1, <2>2
<1>. HIDE DEF r
<1>2. r.world \in Worlds /\ r.back \in 1 .. MaxBehind \cup {None}
  BY <1>1 DEF FrameInv
<1>3. r.back = None => r.updates = Changed(<<>>, r.world)
  BY <1>1 DEF FrameInv
<1>l. Len(down) \in Nat
  BY DEF TypeInv
<1>4. r.back # None => r.seq + r.back > Len(down')
  <2>. SUFFICES ASSUME r.back # None PROVE r.seq + r.back > Len(down')
    OBVIOUS
  <2>1. p.seq + p.back > Len(down)
    BY <1>1 DEF FrameInv
  <2>. QED BY <1>1, <1>l, <2>1, Sizes
<1>5. ASSUME r.back # None, r.back < UpdateBackup - 1, Fresh(r.seq + r.back)'
      PROVE  \E V \in World : r.updates = Changed(V, r.world) /\ ClientHas(r.seq + r.back, V)'
  <2>1. p.seq + p.back \in Nat /\ r.seq + r.back = (p.seq + p.back) + 1
    BY <1>1, <1>5, Sizes
  <2>2. Fresh(p.seq + p.back)
    BY <1>5, <2>1, ClientHasNext
  <2>3. PICK V \in World : p.updates = Changed(V, p.world) /\ ClientHas(p.seq + p.back, V)
    BY <1>1, <1>5, <2>2 DEF FrameInv
  <2>4. ClientHas(r.seq + r.back, V)'
    BY <2>1, <2>3, ClientHasNext
  <2>. QED BY <1>1, <2>3, <2>4
<1>6. ServerHas(r.seq, r.world)'
  <2>1. p.world \in World /\ ServerHas(p.seq, p.world)
    BY DEF FrameInv, World
  <2>. QED BY <1>1, <2>1, ServerHasNext
<1>7. FrameInv(r)'
  BY <1>2, <1>3, <1>4, <1>5, <1>6 DEF FrameInv
<1>. QED BY <1>7 DEF r

\* A packet joins those under way.
LEMMA TransmitKeeps ==
    ASSUME SnapshotsInv, NEW inring, NEW q, Transmit(q, inring), ServerKeeps,
           inring \in [0 .. UpdateBackup - 1 -> AFrame(ServerEntities)],
           q \in PacketOf({q.updates}), q.seq = 1,
           entities' \in Seq(Entity), Len(entities') = ServerEntities,
           UNCHANGED <<spawned, centities, shown>>,
           q.kind = "frame" /\ Len(down') <= Len(down) + 1 => FrameInv(q)'
    PROVE  SnapshotsInv'
<1>t. TypeInv /\ PacketsInv /\ ValidInv /\ DeltaInv
  BY DEF SnapshotsInv
<1>1. PICK U : down \in Seq(PacketOf(U))
  BY <1>t DEF TypeInv
<1>. DEFINE X == U \cup {q.updates}
<1>2. down \in Seq(PacketOf(X)) /\ q \in PacketOf(X)
  <2>1. U \subseteq X /\ {q.updates} \subseteq X
    OBVIOUS
  <2>. HIDE DEF X
  <2>2. down \in Seq(PacketOf(X))
    BY <1>1, <2>1, PacketOfMore
  <2>3. q \in PacketOf(X)
    BY <2>1 DEF PacketOf
  <2>. QED BY <2>2, <2>3
<1>. HIDE DEF X
<1>3. PICK d \in {0, 1} :
          /\ down' \in Seq(PacketOf(X))
          /\ Len(down') = Len(down) + 1 - d /\ Len(down') <= InFlight
          /\ down'[Len(down')] = q
          /\ \A i \in 1 .. Len(down) - d :
                i + d \in DOMAIN down /\ down'[i] = Aged(down[i + d])
  <2>1. down' = Recent([i \in DOMAIN down |-> [down[i] EXCEPT !.seq = Older(@)]] \o <<q>>)
    BY DEF Transmit
  <2>2. Len(down) <= InFlight
    BY <1>t DEF TypeInv
  <2>. QED BY <1>2, <2>1, <2>2, TransmitDown
<1>4. /\ frames' = Rotated(inring) /\ cframes' = Rotated(cframes)
      /\ delta' = Older(delta) /\ valid' = Older(valid)
      /\ delta <= MaxBehind /\ valid <= MaxBehind
      /\ UNCHANGED <<spawned, centities, shown>>
  BY DEF Transmit
<1>5. /\ Len(down) \in Nat /\ Len(down') \in Nat /\ Len(down') <= Len(down) + 1
      /\ DOMAIN down = 1 .. Len(down) /\ DOMAIN down' = 1 .. Len(down')
  BY <1>1, <1>3
<1>6. /\ delta \in Sequence /\ valid \in Sequence
      /\ delta # None => delta \in Nat \ {0} /\ delta' = delta + 1
      /\ valid # None => valid \in Nat \ {0} /\ valid' = valid + 1
      /\ delta = None => delta' = None
      /\ valid = None => valid' = None
  BY <1>t, <1>4 DEF TypeInv, Sequence, Older, None
<1>7. TypeInv'
  <2>1. /\ frames' \in [0 .. UpdateBackup - 1 -> AFrame(ServerEntities)]
        /\ cframes' \in [0 .. UpdateBackup - 1 -> AFrame(ClientEntities)]
    BY <1>t, <1>4, RotatedIs DEF TypeInv
  <2>2. delta' \in Sequence /\ valid' \in Sequence /\ delta' \in ASequence /\ valid' \in ASequence
    BY <1>4, <1>6, Sizes DEF Sequence, ASequence, None
  <2>3. \E Y : down' \in Seq(PacketOf(Y))
    BY <1>3
  <2>. QED BY <1>t, <1>3, <1>4, <2>1, <2>2, <2>3 DEF TypeInv
<1>8. PacketsInv'
  <2>1. ASSUME NEW i \in DOMAIN down', NEW r, r = down'[i]
        PROVE  r.seq = Len(down') - i + 1 /\ (r.kind = "frame" => FrameInv(r)')
    <3>1. CASE i = Len(down')
      <4>1. r = q /\ Len(down') - i + 1 = 1
        BY <1>3, <1>5, <2>1, <3>1
      <4>2. q.kind = "frame" => FrameInv(q)'
        BY <1>5
      <4>. QED BY <4>1, <4>2
    <3>2. CASE i # Len(down')
      <4>1. i \in 1 .. Len(down) - d
        BY <1>3, <1>5, <3>2
      <4>2. PICK p : p = down[i + d]
        OBVIOUS
      <4>3. i + d \in DOMAIN down /\ r = Aged(p) /\ i + d \in 1 .. Len(down)
        BY <1>3, <1>5, <2>1, <4>1, <4>2
      <4>4. p.seq = Len(down) - (i + d) + 1 /\ (p.kind = "frame" => FrameInv(p))
        BY <1>t, <4>2, <4>3 DEF PacketsInv, FrameInv, Fresh, ClientHas, ServerHas
      <4>5. p \in PacketOf(X)
        BY <1>2, <4>2, <4>3
      <4>6. Aged(p).seq = p.seq + 1 /\ Aged(p).kind = p.kind
        BY <4>5, AgedIs
      <4>7. p.seq # 0 /\ Aged(p).seq = Len(down') - i + 1
        <5>1. PICK a, b : a = Len(down) /\ b = Len(down')
          OBVIOUS
        <5>2. a \in Nat /\ b \in Nat /\ b = a + 1 - d /\ i \in Nat /\ i + d \in 1 .. a
          BY <1>3, <1>5, <4>1, <4>3, <5>1
        <5>3. p.seq = a - (i + d) + 1 /\ Aged(p).seq = p.seq + 1
          BY <4>4, <4>6, <5>1
        <5>4. p.seq # 0 /\ p.seq + 1 = b - i + 1
          BY <5>2, <5>3
        <5>. QED BY <5>1, <5>3, <5>4
      <4>8. ASSUME p.kind = "frame" PROVE FrameInv(Aged(p))'
        BY <1>t, <1>4, <1>5, <4>4, <4>5, <4>7, <4>8, FrameInvNext
      <4>. QED BY <4>3, <4>6, <4>7, <4>8 DEF FrameInv, Fresh, ClientHas, ServerHas
    <3>. QED BY <3>1, <3>2
  <2>. QED BY <2>1 DEF PacketsInv, FrameInv, Fresh, ClientHas, ServerHas
<1>9. ValidInv'
  <2>. SUFFICES ASSUME valid' # None
                PROVE  /\ valid' > Len(down') /\ shown' \in Worlds
                       /\ ClientHas(valid, shown)' /\ ServerHas(valid, shown)'
    BY DEF ValidInv
  <2>1. valid \in Nat \ {0} /\ valid' = valid + 1 /\ valid # None
    BY <1>6
  <2>2. valid > Len(down) /\ shown \in Worlds /\ ClientHas(valid, shown) /\ ServerHas(valid, shown)
    BY <1>t, <2>1 DEF ValidInv
  <2>3. valid' > Len(down')
    BY <1>5, <2>1, <2>2
  <2>4. PICK n, w : n = valid /\ w = shown
    OBVIOUS
  <2>5. ClientHas(n + 1, w)'
    BY <1>t, <1>4, <2>1, <2>2, <2>4, ClientHasNext
  <2>6. ServerHas(n + 1, w)'
    BY <2>1, <2>2, <2>4, ServerHasNext DEF World
  <2>7. valid' = n + 1 /\ shown' = w
    BY <1>4, <2>1, <2>4
  <2>. QED BY <2>2, <2>3, <2>4, <2>5, <2>6, <2>7 DEF ClientHas, ServerHas
<1>10. DeltaInv'
  <2>. SUFFICES ASSUME delta' # None
                PROVE  /\ delta' > Len(down')
                       /\ delta' < UpdateBackup - 1 /\ frames'[delta'].age < ServerEntities /\ Fresh(delta)'
                              => \E V \in World : ClientHas(delta, V)' /\ Stored(entities', frames'[delta'], V)
    BY DEF DeltaInv, Stored, At
  <2>1. delta \in Nat \ {0} /\ delta' = delta + 1 /\ delta # None
    BY <1>4, <1>6
  <2>2. delta > Len(down)
    BY <1>t, <2>1 DEF DeltaInv
  <2>3. delta' > Len(down')
    BY <1>5, <2>1, <2>2
  <2>4. ASSUME delta' < UpdateBackup - 1, frames'[delta'].age < ServerEntities, Fresh(delta)'
        PROVE  \E V \in World : ClientHas(delta, V)' /\ Stored(entities', frames'[delta'], V)
    <3>1. PICK n : n = delta
      OBVIOUS
    <3>2. n \in 1 .. UpdateBackup - 2 /\ n \in Nat /\ delta' = n + 1
      BY <2>1, <2>4, <3>1, Sizes
    <3>3. frames[n].age < ServerEntities
      BY <2>4, <3>2 DEF ServerKeeps
    <3>4. Fresh(n + 1)'
      BY <2>4, <3>2 DEF Fresh
    <3>5. Fresh(n)
      BY <1>t, <1>4, <3>2, <3>4, ClientHasNext
    <3>6. PICK V \in World : ClientHas(n, V) /\ Stored(entities, frames[n], V)
      <4>1. delta < UpdateBackup - 1 /\ frames[delta].age < ServerEntities
        BY <3>1, <3>2, <3>3, Sizes
      <4>2. Fresh(delta)
        BY <3>1, <3>5 DEF Fresh
      <4>3. PICK V \in World : ClientHas(delta, V) /\ Stored(entities, frames[delta], V)
        BY <1>t, <2>1, <4>1, <4>2 DEF DeltaInv
      <4>. QED BY <3>1, <4>3 DEF ClientHas
    <3>7. ClientHas(n + 1, V)'
      BY <1>t, <1>4, <3>2, <3>6, ClientHasNext
    <3>8. Stored(entities', frames'[n + 1], V)
      BY <2>4, <3>2, <3>6 DEF ServerKeeps
    <3>9. ClientHas(delta, V)'
      BY <3>2, <3>7 DEF ClientHas
    <3>. QED BY <3>2, <3>8, <3>9
  <2>. QED BY <2>3, <2>4
<1>. QED BY <1>7, <1>8, <1>9, <1>10 DEF SnapshotsInv

------------------------------------------------------------------------------
(* The server sends a frame. *)

LEMMA FramedSlot ==
    ASSUME NEW seq, NEW count, NEW size, NEW ring, Slot(seq) \in DOMAIN ring
    PROVE  Framed(ring, seq, count, size)[Slot(seq)] = [age |-> count, num |-> count]
BY DEF Framed

\* A frame that has not rolled off has its true age.
Later(f, count, size) == [f EXCEPT !.age = Least(@ + count, size)]

LEMMA LaterFrame ==
    ASSUME NEW size \in Nat, NEW f \in AFrame(size), NEW count \in 0 .. size
    PROVE  /\ Later(f, count, size) \in AFrame(size) /\ Later(f, count, size).num = f.num
           /\ Later(f, count, size).age < size => Later(f, count, size).age = f.age + count
<1>. DEFINE g == Later(f, count, size)
<1>1. f.age \in 0 .. size /\ f.num \in 0 .. MaxEntity /\ f.num <= f.age
  BY DEF AFrame
<1>2. g.num = f.num /\ g.age = Least(f.age + count, size)
      /\ g = [age |-> g.age, num |-> g.num]
  BY DEF AFrame, Later
<1>. HIDE DEF g
<1>3. g.age \in 0 .. size /\ g.num <= g.age /\ (g.age < size => g.age = f.age + count)
  BY <1>1, <1>2 DEF Least
<1>4. g \in AFrame(size)
  BY <1>1, <1>2, <1>3 DEF AFrame
<1>. QED BY <1>2, <1>3, <1>4 DEF g

LEMMA FramedOther ==
    ASSUME NEW size, NEW ring, NEW seq, NEW count, NEW s \in DOMAIN ring, s # Slot(seq)
    PROVE  Framed(ring, seq, count, size)[s] = Later(ring[s], count, size)
BY DEF Framed, Later

LEMMA FramedType ==
    ASSUME NEW size \in Nat, NEW ring \in [0 .. UpdateBackup - 1 -> AFrame(size)],
           NEW seq \in Nat, NEW count \in 0 .. size, count <= MaxEntity,
           NEW new, new = Framed(ring, seq, count, size)
    PROVE  new \in [0 .. UpdateBackup - 1 -> AFrame(size)]
<1>1. ASSUME NEW s \in 0 .. UpdateBackup - 1 PROVE new[s] \in AFrame(size)
  <2>1. CASE s = Slot(seq)
    <3>1. s \in DOMAIN ring
      OBVIOUS
    <3>2. new[s] = [age |-> count, num |-> count]
      BY <2>1, <3>1 DEF Framed
    <3>. QED BY <3>2 DEF AFrame
  <2>2. CASE s # Slot(seq)
    <3>1. ring[s] \in AFrame(size) /\ s \in DOMAIN ring
      OBVIOUS
    <3>2. Framed(ring, seq, count, size)[s] = Later(ring[s], count, size)
      BY <2>2, <3>1, FramedOther
    <3>. QED BY <3>1, <3>2, LaterFrame
  <2>. QED BY <2>1, <2>2
<1>2. DOMAIN new = 0 .. UpdateBackup - 1 /\ new = [s \in DOMAIN new |-> new[s]]
  BY DEF Framed
<1>. QED BY <1>1, <1>2

LEMMA TransmitLen ==
    ASSUME TypeInv, NEW q, NEW inring, Transmit(q, inring), q \in PacketOf({q.updates})
    PROVE  Len(down') \in Nat
<1>1. PICK U : down \in Seq(PacketOf(U))
  BY DEF TypeInv
<1>. DEFINE X == U \cup {q.updates}
<1>2. down \in Seq(PacketOf(X)) /\ q \in PacketOf(X)
  <2>1. U \subseteq X /\ {q.updates} \subseteq X
    OBVIOUS
  <2>. HIDE DEF X
  <2>2. down \in Seq(PacketOf(X))
    BY <1>1, <2>1, PacketOfMore
  <2>3. q \in PacketOf(X)
    BY <2>1 DEF PacketOf
  <2>. QED BY <2>2, <2>3
<1>. HIDE DEF X
<1>3. down' \in Seq(PacketOf(X))
  BY <1>2, TransmitDown DEF Transmit, TypeInv
<1>. QED BY <1>3

LEMMA ServerFrameKeeps ==
    ASSUME FramesFit, SnapshotsInv, NEW world \in Worlds, ServerSendsFrame(world)
    PROVE  SnapshotsInv'
<1>t. TypeInv /\ PacketsInv /\ ValidInv /\ DeltaInv
  BY DEF SnapshotsInv
<1>w. world \in World
  BY DEF World
<1>. DEFINE c == Cardinality(DOMAIN world)
<1>c. c \in 0 .. ServerEntities /\ c <= MaxEntity
  <2>1. c \in Nat /\ c <= MaxEntity
    BY <1>w, WorldFinite, Sizes
  <2>2. c <= ServerEntities
    BY DEF FramesFit
  <2>. QED BY <2>1, <2>2, Sizes
<1>1. PICK inring : inring = Framed(frames, 0, c, ServerEntities)
  OBVIOUS
<1>2. PICK ring : ring = PushWorld(entities, world)
  OBVIOUS
<1>3. PICK n : n = delta
  OBVIOUS
<1>4. PICK q : q = EmitPacketEntities(inring, ring, world)
  OBVIOUS
<1>5. /\ spawned /\ entities' = ring /\ Transmit(q, inring)
      /\ UNCHANGED <<spawned, centities, shown>>
  BY <1>1, <1>2, <1>4 DEF ServerSendsFrame
<1>6. /\ frames' = Rotated(inring) /\ cframes' = Rotated(cframes) /\ n <= MaxBehind
  BY <1>3, <1>5 DEF Transmit
<1>7. /\ ring \in Seq(Entity) /\ Len(ring) = ServerEntities
      /\ Kept(entities, ring, c, ServerEntities) /\ Laid(ring, world, MaxEntity)
  <2>1. entities \in Seq(Entity) /\ Len(entities) = ServerEntities /\ Len(entities) # 0
    BY <1>t, Sizes DEF TypeInv
  <2>. QED BY <1>2, <2>1, PushedWorld
<1>8. /\ inring \in [0 .. UpdateBackup - 1 -> AFrame(ServerEntities)]
      /\ inring[0] = [age |-> c, num |-> c]
      /\ \A s \in 1 .. UpdateBackup - 1 :
            inring[s].num = frames[s].num
            /\ (inring[s].age < ServerEntities => inring[s].age = frames[s].age + c)
  <2>1. Slot(0) = 0 /\ ServerEntities \in Nat
    BY SlotSmall, Sizes
  <2>2. frames \in [0 .. UpdateBackup - 1 -> AFrame(ServerEntities)]
    BY <1>t DEF TypeInv
  <2>3. PICK size, seq : size = ServerEntities /\ seq = 0
    OBVIOUS
  <2>. HIDE DEF c
  <2>4. size \in Nat /\ seq \in Nat /\ c \in 0 .. size /\ c <= MaxEntity
    BY <1>c, <2>1, <2>3
  <2>5. frames \in [0 .. UpdateBackup - 1 -> AFrame(size)]
    BY <2>2, <2>3
  <2>6. inring = Framed(frames, seq, c, size)
    BY <1>1, <2>3
  <2>7. inring \in [0 .. UpdateBackup - 1 -> AFrame(size)]
    BY <2>4, <2>5, <2>6, FramedType
  <2>8. inring[Slot(seq)] = [age |-> c, num |-> c]
    <3>1. Slot(seq) \in DOMAIN frames
      BY <2>1, <2>3, <2>5, Sizes
    <3>. QED BY <2>6, <3>1, FramedSlot
  <2>9. ASSUME NEW s \in 1 .. UpdateBackup - 1
        PROVE  inring[s].num = frames[s].num
               /\ (inring[s].age < size => inring[s].age = frames[s].age + c)
    <3>1. s \in 0 .. UpdateBackup - 1 /\ s # Slot(seq)
      BY <2>1, <2>3, Sizes
    <3>2. s \in DOMAIN frames /\ frames[s] \in AFrame(size)
      BY <2>5, <3>1
    <3>3. inring[s] = Later(frames[s], c, size)
      BY <2>6, <3>1, <3>2, FramedOther
    <3>. QED BY <2>4, <3>2, <3>3, LaterFrame
  <2>. QED BY <2>1, <2>3, <2>7, <2>8, <2>9
<1>9. \A s \in 0 .. UpdateBackup - 1 : frames[s].age \in Nat /\ frames[s].age <= ServerEntities
                                       /\ inring[s].age \in Nat
  <2>1. \A s \in 0 .. UpdateBackup - 1 : frames[s] \in AFrame(ServerEntities) /\ inring[s] \in AFrame(ServerEntities)
    BY <1>t, <1>8 DEF TypeInv
  <2>2. \A f \in AFrame(ServerEntities) : f.age \in Nat /\ f.age <= ServerEntities
    BY Sizes DEF AFrame
  <2>. QED BY <2>1, <2>2
\* The older frames, before the number is used.
<1>10. ASSUME NEW s \in 1 .. UpdateBackup - 1, inring[s].age < ServerEntities
       PROVE  /\ frames[s].age < ServerEntities
              /\ \A V \in World : Stored(entities, frames[s], V) => Stored(ring, inring[s], V)
  <2>1. /\ inring[s].num = frames[s].num /\ inring[s].age = frames[s].age + c
        /\ frames[s].age \in Nat /\ frames[s].age <= ServerEntities
    <3>1. s \in 0 .. UpdateBackup - 1
      BY Sizes
    <3>. HIDE DEF c
    <3>. QED BY <1>8, <1>9, <1>10, <3>1
  <2>2. frames[s].age + c <= ServerEntities /\ c \in Nat
    <3>. HIDE DEF c
    <3>. QED BY <1>c, <1>10, <2>1, Sizes
  <2>3. frames[s].age < ServerEntities
    <3>. HIDE DEF c
    <3>. QED BY <1>c, <1>10, <2>1, Sizes
  <2>4. ASSUME NEW V \in World, Stored(entities, frames[s], V) PROVE Stored(ring, inring[s], V)
    <3>1. entities \in Seq(Entity) /\ Len(entities) = ServerEntities /\ ServerEntities \in Nat
      BY <1>t, Sizes DEF TypeInv
    <3>. HIDE DEF c
    <3>2. PICK f, g : f = frames[s] /\ g = inring[s]
      OBVIOUS
    <3>3. Stored(ring, g, V)
      BY <1>7, <2>1, <2>2, <2>4, <3>1, <3>2, StoredKept
    <3>. QED BY <3>2, <3>3
  <2>. QED BY <2>3, <2>4
<1>11. ServerKeeps
  <2>. SUFFICES ASSUME NEW s \in 1 .. UpdateBackup - 2, frames'[s + 1].age < ServerEntities
                PROVE  /\ frames[s].age < ServerEntities
                       /\ \A V \in World : Stored(entities, frames[s], V) => Stored(entities', frames'[s + 1], V)
    BY DEF ServerKeeps
  <2>1. s \in 0 .. UpdateBackup - 2 /\ s \in 1 .. UpdateBackup - 1
    BY Sizes
  <2>2. frames'[s + 1] = inring[s]
    BY <1>6, <1>8, <2>1, RotatedIs
  <2>. QED BY <1>5, <1>10, <2>1, <2>2
<1>. DEFINE from == inring[Slot(n)]
<1>12. /\ q.seq = 1 /\ q.kind = "frame" /\ q.world = world
       /\ q \in PacketOf({q.updates})
       /\ \/ q.back = None /\ q.updates = Changed(<<>>, world)
          \/ /\ n # None /\ ~Outdated(from)
             /\ q.back = n /\ q.updates = Changed(Held(ring, from), world)
  <2>1. n \in Int
    BY <1>t, <1>3 DEF TypeInv, Sequence, None
  <2>2. \/ q = Packet("frame", None, Changed(<<>>, world), world)
        \/ n # None /\ ~Outdated(from) /\ q = Packet("frame", n, Changed(Held(ring, from), world), world)
    BY <1>3, <1>4 DEF EmitPacketEntities
  <2>3. \A b \in Int : \A u :
           LET p == Packet("frame", b, u, world)
           IN  /\ p.seq = 1 /\ p.kind = "frame" /\ p.world = world
               /\ p.back = b /\ p.updates = u /\ p \in PacketOf({p.updates})
    BY <1>w, <2>1 DEF Packet, PacketOf
  <2>4. None \in Int
    BY DEF None
  <2>. HIDE DEF from
  <2>5. CASE q = Packet("frame", None, Changed(<<>>, world), world)
    <3>1. PICK u : u = Changed(<<>>, world)
      OBVIOUS
    <3>. QED BY <2>3, <2>4, <2>5, <3>1
  <2>6. CASE n # None /\ ~Outdated(from) /\ q = Packet("frame", n, Changed(Held(ring, from), world), world)
    <3>1. PICK u : u = Changed(Held(ring, from), world)
      OBVIOUS
    <3>2. q = Packet("frame", n, u, world)
      BY <2>6, <3>1
    <3>3. /\ q.seq = 1 /\ q.kind = "frame" /\ q.world = world
          /\ q.back = n /\ q.updates = u /\ q \in PacketOf({q.updates})
      BY <2>1, <2>3, <3>2
    <3>. QED BY <2>6, <3>1, <3>3
  <2>. QED BY <2>2, <2>5, <2>6
<1>13. ASSUME Len(down') <= Len(down) + 1 PROVE FrameInv(q)'
  <2>1. q.back \in 1 .. MaxBehind \cup {None}
    BY <1>t, <1>3, <1>6, <1>12, Sizes DEF TypeInv, Sequence, None
  <2>3. ServerHas(q.seq, q.world)'
    <3>1. frames'[1] = inring[0]
      <4>1. 0 \in 0 .. UpdateBackup - 2 /\ 0 + 1 = 1
        BY Sizes DEF FramesFit
      <4>2. \A m \in 0 .. UpdateBackup - 2 : Rotated(inring)[m + 1] = inring[m]
        BY <1>8, RotatedIs
      <4>3. Rotated(inring)[0 + 1] = inring[0]
        BY <4>1, <4>2
      <4>. QED BY <1>6, <4>1, <4>3
    <3>2. PICK f : f = inring[0]
      OBVIOUS
    <3>3. f.age = c /\ f.num = f.age /\ f.age <= Len(ring)
      BY <1>7, <1>8, <1>c, <3>2
    <3>4. Stored(ring, f, world)
      BY <1>7, <1>w, <3>3, StoredLaid
    <3>. QED BY <1>5, <1>12, <3>1, <3>2, <3>4 DEF ServerHas
  <2>4. CASE q.back = None
    <3>1. q.updates = Changed(<<>>, q.world)
      BY <1>3, <1>12, <2>4
    <3>. QED BY <1>12, <2>1, <2>3, <2>4, <3>1 DEF FrameInv
  <2>5. CASE q.back # None
    <3>1. /\ q.back = n /\ n # None /\ n \in Nat \ {0} /\ delta = n
          /\ ~Outdated(from) /\ q.updates = Changed(Held(ring, from), world)
      BY <1>t, <1>3, <1>12, <2>5 DEF TypeInv, Sequence
    <3>2. q.seq + q.back > Len(down')
      <4>1. Len(down) \in Nat /\ delta > Len(down)
        BY <1>t, <1>5, <3>1 DEF TypeInv, DeltaInv
      <4>2. Len(down') \in Int
        BY <1>5, <1>12, <4>1, TransmitLen
      <4>. QED BY <1>12, <1>13, <3>1, <4>1, <4>2
    <3>3. ASSUME q.back < UpdateBackup - 1, Fresh(q.seq + q.back)'
          PROVE  \E V \in World : q.updates = Changed(V, q.world) /\ ClientHas(q.seq + q.back, V)'
      <4>1. q.seq + q.back = n + 1 /\ n \in 1 .. UpdateBackup - 1 /\ n < UpdateBackup - 1
        BY <1>12, <3>1, <3>3, Sizes
      <4>2. Slot(n) = n
        BY <4>1, SlotSmall, Sizes
      <4>3. frames[n].age < ServerEntities
            /\ \A V \in World : Stored(entities, frames[n], V) => Stored(ring, inring[n], V)
        <5>1. inring[n].age < ServerEntities
          <6>1. ~ inring[n].age >= ServerEntities
            BY <3>1, <4>2 DEF Outdated
          <6>2. inring[n].age \in Nat
            BY <1>9, <4>1, Sizes
          <6>. QED BY <6>1, <6>2, Sizes
        <5>. QED BY <1>10, <4>1, <5>1
      <4>4. Fresh(n)
        BY <1>t, <1>5, <1>6, <3>1, <3>3, <4>1, ClientHasNext
      <4>5. PICK V \in World : ClientHas(n, V) /\ Stored(entities, frames[n], V)
        <5>1. Fresh(delta) /\ delta < UpdateBackup - 1 /\ frames[delta].age < ServerEntities
          BY <3>1, <4>1, <4>3, <4>4 DEF Fresh
        <5>2. PICK V \in World : ClientHas(delta, V) /\ Stored(entities, frames[delta], V)
          BY <1>t, <1>5, <3>1, <5>1 DEF DeltaInv
        <5>. QED BY <3>1, <5>2 DEF ClientHas
      <4>6. Held(ring, from) = V
        <5>1. inring[n].age \in Nat
          BY <1>9, <4>1, Sizes
        <5>2. Stored(ring, inring[n], V)
          BY <4>3, <4>5
        <5>3. PICK f : f = inring[n]
          OBVIOUS
        <5>4. Held(ring, f) = V
          BY <5>1, <5>2, <5>3, HeldIs
        <5>. QED BY <4>2, <5>3, <5>4
      <4>7. ClientHas(n + 1, V)'
        BY <1>t, <1>5, <1>6, <3>1, <4>5, ClientHasNext
      <4>. QED BY <1>12, <3>1, <4>1, <4>6, <4>7
    <3>. QED BY <1>12, <2>1, <2>3, <2>5, <3>2, <3>3 DEF FrameInv
  <2>. QED BY <2>4, <2>5
<1>. QED
  <2>1. entities' \in Seq(Entity) /\ Len(entities') = ServerEntities
    BY <1>5, <1>7
  <2>. QED BY <1>5, <1>8, <1>11, <1>12, <1>13, <2>1, TransmitKeeps

LEMMA ServerReliableKeeps ==
    ASSUME SnapshotsInv, ServerSendsReliable
    PROVE  SnapshotsInv'
<1>t. TypeInv
  BY DEF SnapshotsInv
<1>1. PICK inring : inring = frames
  OBVIOUS
<1>2. PICK q : q = Empty
  OBVIOUS
<1>3. Transmit(q, inring) /\ UNCHANGED <<spawned, centities, shown>> /\ entities' = entities
  BY <1>1, <1>2 DEF ServerSendsReliable
<1>4. inring \in [0 .. UpdateBackup - 1 -> AFrame(ServerEntities)] /\ frames' = Rotated(inring)
  BY <1>t, <1>1, <1>3 DEF TypeInv, Transmit
<1>5. ServerKeeps
  <2>1. \A n \in 1 .. UpdateBackup - 2 : n \in 0 .. UpdateBackup - 2
    BY Sizes
  <2>2. \A n \in 1 .. UpdateBackup - 2 : frames'[n + 1] = frames[n]
    BY <1>1, <1>4, <2>1, RotatedIs
  <2>. QED BY <1>3, <2>2 DEF ServerKeeps
<1>6. q.seq = 1 /\ q.kind # "frame" /\ q \in PacketOf({q.updates})
  BY <1>2 DEF Empty, Packet, PacketOf, World, None
<1>7. entities' \in Seq(Entity) /\ Len(entities') = ServerEntities
  BY <1>t, <1>3 DEF TypeInv
<1>. QED BY <1>3, <1>4, <1>5, <1>6, <1>7, TransmitKeeps
------------------------------------------------------------------------------
(* The client sends. *)

\* What the packets under way, and the client's frame, depend on.
LEMMA PacketsSame ==
    ASSUME UNCHANGED <<frames, entities, cframes, centities, down>>, PacketsInv
    PROVE  PacketsInv'
<1>1. \A seq : /\ Fresh(seq)' <=> Fresh(seq)
              /\ \A w : /\ ClientHas(seq, w)' <=> ClientHas(seq, w)
                        /\ ServerHas(seq, w)' <=> ServerHas(seq, w)
  BY DEF Fresh, ClientHas, ServerHas, Stored, At
<1>2. ASSUME NEW p, FrameInv(p) PROVE FrameInv(p)'
  <2>2. p.back # None /\ p.back < UpdateBackup - 1 /\ Fresh(p.seq + p.back)'
           => \E V \in World : p.updates = Changed(V, p.world) /\ ClientHas(p.seq + p.back, V)'
    BY <1>1, <1>2 DEF FrameInv
  <2>3. ServerHas(p.seq, p.world)'
    BY <1>1, <1>2 DEF FrameInv
  <2>. QED BY <1>2, <2>2, <2>3 DEF FrameInv
<1>. QED BY <1>1, <1>2 DEF PacketsInv

LEMMA ClientSendsKeeps ==
    ASSUME SnapshotsInv, ClientSends
    PROVE  SnapshotsInv'
<1>t. TypeInv /\ PacketsInv /\ ValidInv /\ DeltaInv
  BY DEF SnapshotsInv
<1>1. /\ UNCHANGED <<frames, entities, cframes, centities, down, shown>>
      /\ valid' = Asked /\ delta' = Asked /\ spawned' = TRUE
  BY DEF ClientSends, clientVars
<1>2. Asked = None \/ Asked = valid
  BY DEF Asked
<1>3. valid \in Sequence /\ None \in Sequence /\ None \in ASequence
      /\ (InFlight <= MaxBehind + 1 => valid \in ASequence)
  <2>1. None \in Sequence /\ None \in ASequence
    BY Sizes DEF Sequence, ASequence
  <2>. QED BY <1>t, <2>1 DEF TypeInv
<1>4. spawned' \in BOOLEAN
  BY <1>1
<1>5. TypeInv'
  <2>1. Asked \in Sequence /\ (InFlight <= MaxBehind + 1 => Asked \in ASequence)
    BY <1>2, <1>3
  <2>. QED BY <1>t, <1>1, <1>4, <2>1 DEF TypeInv
<1>6. PacketsInv'
  BY <1>t, <1>1, PacketsSame
<1>7. ASSUME Asked # None
      PROVE  /\ valid # None /\ Asked = valid /\ valid > Len(down) /\ shown \in Worlds
             /\ ClientHas(valid, shown) /\ ServerHas(valid, shown) /\ valid \in Nat
  BY <1>t, <1>2, <1>3, <1>7 DEF ValidInv, Sequence
<1>8. ValidInv'
  BY <1>1, <1>7 DEF ValidInv, ClientHas, ServerHas, Stored, At
<1>9. DeltaInv'
  <2>. SUFFICES ASSUME delta' # None
                PROVE  /\ delta' > Len(down')
                       /\ delta' < UpdateBackup - 1 /\ frames'[delta'].age < ServerEntities /\ Fresh(delta)'
                              => \E V \in World : ClientHas(delta, V)' /\ Stored(entities', frames'[delta'], V)
    BY DEF DeltaInv, Stored, At
  <2>1. /\ delta' = valid /\ valid > Len(down) /\ shown \in World
        /\ ClientHas(valid, shown) /\ ServerHas(valid, shown) /\ valid \in Nat
    BY <1>1, <1>7 DEF World
  <2>2. ASSUME delta' < UpdateBackup - 1, frames'[delta'].age < ServerEntities
        PROVE  ClientHas(delta, shown)' /\ Stored(entities', frames'[delta'], shown)
    <3>1. valid < UpdateBackup /\ frames[valid].age < ServerEntities
      BY <1>1, <2>1, <2>2, Sizes
    <3>2. Stored(entities, frames[valid], shown)
      BY <2>1, <3>1 DEF ServerHas
    <3>. QED BY <1>1, <2>1, <3>2 DEF ClientHas, Stored, At
  <2>. QED BY <1>1, <2>1, <2>2
<1>. QED BY <1>5, <1>6, <1>8, <1>9 DEF SnapshotsInv

------------------------------------------------------------------------------
(* The client reads a packet. *)

\* The packets that are left when those up to the i-th are gone.
LEMMA ReceiveDown ==
    ASSUME NEW U, down \in Seq(PacketOf(U)), NEW i \in DOMAIN down,
           down' = SubSeq(down, i + 1, Len(down))
    PROVE  /\ down' \in Seq(PacketOf(U)) /\ Len(down') = Len(down) - i
           /\ DOMAIN down' = 1 .. Len(down) - i
           /\ \A j \in 1 .. Len(down) - i : i + j \in DOMAIN down /\ down'[j] = down[i + j]
<1>. DEFINE len == Len(down)
            sub == SubSeq(down, i + 1, len)
<1>1. len \in Nat /\ DOMAIN down = 1 .. len /\ i \in 1 .. len
  OBVIOUS
<1>2. /\ sub \in Seq(PacketOf(U)) /\ Len(sub) = len - i
      /\ \A j \in 1 .. len - i : sub[j] = down[i + j]
  <2>1. i + 1 \in 1 .. len + 1
    BY <1>1
  <2>2. sub \in Seq(PacketOf(U)) /\ Len(sub) = len - (i + 1) + 1
    BY <1>1, <2>1
  <2>3. \A j \in 1 .. len - i : sub[j] = down[i + j]
    BY <1>1, <2>1
  <2>. HIDE DEF sub
  <2>. QED BY <1>1, <2>2, <2>3
<1>3. down' = sub
  OBVIOUS
<1>. HIDE DEF sub
<1>4. \A j \in 1 .. len - i : i + j \in 1 .. len
  BY <1>1
<1>5. DOMAIN sub = 1 .. len - i
  BY <1>1, <1>2
<1>. QED BY <1>1, <1>2, <1>3, <1>4, <1>5

LEMMA FewerPackets ==
    ASSUME SnapshotsInv, NEW i \in DOMAIN down, down' = SubSeq(down, i + 1, Len(down))
    PROVE  /\ Len(down') = Len(down) - i /\ Len(down') \in Nat
           /\ Len(down) \in Nat /\ i \in 1 .. Len(down)
           /\ \E U : down' \in Seq(PacketOf(U))
           /\ \A j \in DOMAIN down' : /\ j \in 1 .. Len(down') /\ i + j \in DOMAIN down
                                      /\ down'[j] = down[i + j]
<1>1. PICK U : down \in Seq(PacketOf(U))
  BY DEF SnapshotsInv, TypeInv
<1>2. /\ down' \in Seq(PacketOf(U)) /\ Len(down') = Len(down) - i
      /\ DOMAIN down' = 1 .. Len(down) - i
      /\ \A j \in 1 .. Len(down) - i : i + j \in DOMAIN down /\ down'[j] = down[i + j]
  BY <1>1, ReceiveDown
<1>3. Len(down) \in Nat /\ i \in 1 .. Len(down) /\ Len(down') \in Nat
  BY <1>1, <1>2
<1>. QED BY <1>2, <1>3

LEMMA FewerNumbers ==
    ASSUME SnapshotsInv, NEW i \in DOMAIN down, down' = SubSeq(down, i + 1, Len(down))
    PROVE  \A n \in Nat : n > Len(down) => n > Len(down')
<1>1. Len(down') = Len(down) - i /\ Len(down) \in Nat /\ i \in 1 .. Len(down)
  BY FewerPackets
<1>2. PICK a, b : a = Len(down) /\ b = Len(down')
  OBVIOUS
<1>3. a \in Nat /\ i \in 1 .. a /\ b = a - i
  BY <1>1, <1>2
<1>4. \A n \in Nat : n > a => n > b
  BY <1>3
<1>. QED BY <1>2, <1>4

\* What the client's step does to the frames that are newer than the packet, as
\* numbers have it: one that is fresh afterwards was so, with the same entities.
ClientKeeps(seq) ==
    \A n \in Nat : n > seq /\ n < seq + UpdateBackup /\ Fresh(n)' =>
        Fresh(n) /\ \A V \in World : ClientHas(n, V) => ClientHas(n, V)'

LEMMA Renumbered ==
    ASSUME NEW a \in Nat, NEW i \in 1 .. a, NEW j \in 1 .. a - i
    PROVE  /\ a - (i + j) + 1 = (a - i) - j + 1
           /\ a - (i + j) + 1 \in Nat
           /\ a - (i + j) + 1 < a - i + 1
OBVIOUS

LEMMA ReceiveKeeps ==
    ASSUME SnapshotsInv, NEW i \in DOMAIN down, down' = SubSeq(down, i + 1, Len(down)),
           UNCHANGED <<frames, entities, spawned, delta>>,
           NEW seq, seq = Len(down) - i + 1, ClientKeeps(seq), TypeInv', ValidInv'
    PROVE  SnapshotsInv'
<1>t. TypeInv /\ PacketsInv /\ ValidInv /\ DeltaInv
  BY DEF SnapshotsInv
<1>1. /\ Len(down') = Len(down) - i /\ Len(down') \in Nat
      /\ Len(down) \in Nat /\ i \in 1 .. Len(down)
      /\ \A j \in DOMAIN down' : /\ j \in 1 .. Len(down') /\ i + j \in DOMAIN down
                                 /\ down'[j] = down[i + j]
  BY FewerPackets
<1>2. seq \in 1 .. Len(down) /\ Len(down') < seq
  <2>1. \A a \in Nat : \A x \in 1 .. a : a - x + 1 \in 1 .. a /\ a - x < a - x + 1
    OBVIOUS
  <2>2. Len(down) - i + 1 \in 1 .. Len(down) /\ Len(down) - i < Len(down) - i + 1
    BY <1>1, <2>1
  <2>. QED BY <1>1, <2>2
<1>3. PacketsInv'
  <2>1. ASSUME NEW j \in DOMAIN down', NEW p, p = down'[j]
        PROVE  p.seq = Len(down') - j + 1 /\ (p.kind = "frame" => FrameInv(p)')
    <3>1. p = down[i + j] /\ i + j \in DOMAIN down /\ j \in 1 .. Len(down')
      BY <1>1, <2>1
    <3>2. p.seq = Len(down) - (i + j) + 1 /\ (p.kind = "frame" => FrameInv(p))
      BY <1>t, <3>1 DEF PacketsInv, FrameInv, Fresh, ClientHas, ServerHas
    <3>3. p.seq = Len(down') - j + 1 /\ p.seq < seq /\ p.seq \in Nat
      <4>1. j \in 1 .. Len(down) - i
        BY <1>1, <3>1
      <4>2. /\ Len(down) - (i + j) + 1 = (Len(down) - i) - j + 1
            /\ Len(down) - (i + j) + 1 \in Nat
            /\ Len(down) - (i + j) + 1 < Len(down) - i + 1
        BY <1>1, <4>1, Renumbered
      <4>. QED BY <1>1, <3>2, <4>2
    <3>4. ASSUME p.kind = "frame" PROVE FrameInv(p)'
      <4>1. /\ p.world \in Worlds
            /\ p.back \in 1 .. MaxBehind \cup {None}
            /\ p.back = None => p.updates = Changed(<<>>, p.world)
            /\ p.back # None => p.seq + p.back > Len(down)
        BY <3>2, <3>4 DEF FrameInv
      <4>2. p.back # None => p.back \in Nat /\ p.seq + p.back > Len(down')
        <5>1. p.back # None => p.back \in Nat
          BY <4>1, Sizes
        <5>2. p.seq \in Nat
          BY <3>3
        <5>3. p.back # None => p.seq + p.back \in Nat
          BY <5>1, <5>2
        <5>. QED BY <4>1, <5>1, <5>3, FewerNumbers
      <4>3. ServerHas(p.seq, p.world)'
        BY <3>2, <3>4 DEF FrameInv, ServerHas
      <4>4. ASSUME p.back # None, p.back < UpdateBackup - 1, Fresh(p.seq + p.back)'
            PROVE  \E V \in World : p.updates = Changed(V, p.world) /\ ClientHas(p.seq + p.back, V)'
        <5>1. /\ p.seq + p.back \in Nat /\ p.seq + p.back > seq
              /\ p.seq + p.back < seq + UpdateBackup
          <6>1. \A b \in Nat : p.seq + b > Len(down) /\ b < UpdateBackup - 1
                    => p.seq + b \in Nat /\ p.seq + b > seq /\ p.seq + b < seq + UpdateBackup
            <7>1. UpdateBackup \in Nat
              BY Sizes
            <7>2. Len(down) \in Nat /\ seq \in 1 .. Len(down)
              BY <1>1, <1>2
            <7>3. p.seq \in Nat /\ p.seq < seq
              BY <3>3
            <7>4. PICK a, x : a = Len(down) /\ x = p.seq
              OBVIOUS
            <7>5. a \in Nat /\ seq \in 1 .. a /\ x \in Nat /\ x < seq
              BY <7>2, <7>3, <7>4
            <7>6. \A b \in Nat : x + b > a /\ b < UpdateBackup - 1
                    => x + b \in Nat /\ x + b > seq /\ x + b < seq + UpdateBackup
              BY <7>1, <7>5
            <7>. QED BY <7>4, <7>5, <7>6
          <6>. QED BY <4>1, <4>2, <4>4, <6>1
        <5>2. /\ Fresh(p.seq + p.back)
              /\ \A V \in World : ClientHas(p.seq + p.back, V) => ClientHas(p.seq + p.back, V)'
          BY <4>4, <5>1 DEF ClientKeeps
        <5>3. PICK V \in World : p.updates = Changed(V, p.world) /\ ClientHas(p.seq + p.back, V)
          BY <3>2, <3>4, <4>4, <5>2 DEF FrameInv
        <5>. QED BY <5>2, <5>3
      <4>. QED BY <4>1, <4>2, <4>3, <4>4 DEF FrameInv
    <3>. QED BY <3>3, <3>4
  <2>. QED BY <2>1 DEF PacketsInv, FrameInv, Fresh, ClientHas, ServerHas
<1>4. DeltaInv'
  <2>. SUFFICES ASSUME delta # None
                PROVE  /\ delta > Len(down')
                       /\ delta < UpdateBackup - 1 /\ frames[delta].age < ServerEntities /\ Fresh(delta)'
                              => \E V \in World : ClientHas(delta, V)' /\ Stored(entities, frames[delta], V)
    BY DEF DeltaInv, Stored, At
  <2>1. delta > Len(down) /\ delta \in Nat
    BY <1>t DEF DeltaInv, TypeInv, Sequence
  <2>3. delta > Len(down')
    BY <2>1, FewerNumbers
  <2>2. ASSUME delta < UpdateBackup - 1, frames[delta].age < ServerEntities, Fresh(delta)'
        PROVE  \E V \in World : ClientHas(delta, V)' /\ Stored(entities, frames[delta], V)
    <3>1. PICK n : n = delta
      OBVIOUS
    <3>2. n \in Nat /\ n > seq /\ n < seq + UpdateBackup
      BY <1>1, <1>2, <2>1, <2>2, <3>1, Sizes
    <3>3. Fresh(n)'
      BY <2>2, <3>1 DEF Fresh
    <3>4. Fresh(n) /\ \A V \in World : ClientHas(n, V) => ClientHas(n, V)'
      BY <3>2, <3>3 DEF ClientKeeps
    <3>5. Fresh(delta)
      BY <3>1, <3>4 DEF Fresh
    <3>6. PICK V \in World : ClientHas(delta, V) /\ Stored(entities, frames[delta], V)
      BY <1>t, <2>2, <3>5 DEF DeltaInv
    <3>7. ClientHas(n, V)'
      BY <3>1, <3>4, <3>6 DEF ClientHas
    <3>8. ClientHas(delta, V)'
      BY <3>1, <3>7 DEF ClientHas
    <3>. QED BY <3>6, <3>8
  <2>. QED BY <2>2, <2>3
<1>. QED BY <1>3, <1>4 DEF SnapshotsInv

\* An entity ring that "more" entities have been written to, and a frame "seq".
LEMMA FramesRoll ==
    ASSUME FramesFit, TypeInv, NEW seq \in Nat, NEW more \in 0 .. ClientEntities,
           cframes' = Framed(cframes, seq, more, ClientEntities), centities' \in Seq(Entity),
           Kept(centities, centities', more, ClientEntities - 1)
    PROVE  ClientKeeps(seq)
<1>1. /\ cframes \in [0 .. UpdateBackup - 1 -> AFrame(ClientEntities)]
      /\ centities \in Seq(Entity) /\ Len(centities) = ClientEntities
  BY DEF TypeInv
<1>2. ASSUME NEW n \in Nat, n > seq, n < seq + UpdateBackup, Fresh(n)'
      PROVE  Fresh(n) /\ \A V \in World : ClientHas(n, V) => ClientHas(n, V)'
  <2>1. Slot(n) \in 0 .. UpdateBackup - 1 /\ Slot(n) # Slot(seq)
    <3>1. n - seq \in 1 .. UpdateBackup - 1 /\ seq + (n - seq) = n
      BY <1>2, Sizes
    <3>2. Slot(seq + (n - seq)) # Slot(seq)
      BY <3>1, SlotsDiffer
    <3>. QED BY <3>1, <3>2, SlotRange
  <2>s. PICK s : s = Slot(n)
    OBVIOUS
  <2>2. PICK f, g, size : f = cframes[s] /\ g = cframes'[s] /\ size = ClientEntities
    OBVIOUS
  <2>3. size \in Nat /\ more \in 0 .. size /\ cframes \in [0 .. UpdateBackup - 1 -> AFrame(size)]
    BY <1>1, <2>2, Sizes
  <2>6. f \in AFrame(size)
    BY <2>1, <2>2, <2>3, <2>s
  <2>5. g.num = f.num /\ (g.age < size => g.age = f.age + more) /\ g \in AFrame(size)
    <3>1. g = Framed(cframes, seq, more, size)[s] /\ s \in DOMAIN cframes
      BY <2>1, <2>2, <2>3, <2>s
    <3>2. g = Later(f, more, size)
      BY <2>1, <2>2, <2>s, <3>1, FramedOther
    <3>. QED BY <2>3, <2>6, <3>2, LaterFrame
  <2>7. f.age \in Nat /\ f.age <= size /\ g.age \in Nat
    BY <2>3, <2>5, <2>6 DEF AFrame
  <2>8. PacketEntities \in Nat \ {0} /\ ClientEntities \in Nat
    BY Sizes
  <2>9. g.age <= size - PacketEntities
    BY <1>2, <2>2, <2>s DEF Fresh
  <2>10. g.age = f.age + more /\ f.age + more <= size - 1 /\ f.age <= size - PacketEntities
    BY <2>3, <2>5, <2>7, <2>8, <2>9, <2>2
  <2>11. ASSUME NEW V \in World, Stored(centities, f, V) PROVE Stored(centities', g, V)
    <3>1. size - 1 \in Nat /\ more \in Nat
      BY <2>2, <2>3, Sizes
    <3>2. Kept(centities, centities', more, size - 1) /\ f.age <= Len(centities)
      BY <1>1, <2>2, <2>7
    <3>. QED BY <1>1, <2>5, <2>7, <2>10, <2>11, <3>1, <3>2, StoredKept
  <2>. QED BY <2>2, <2>10, <2>11, <2>s DEF Fresh, ClientHas
<1>. QED BY <1>2 DEF ClientKeeps

\* What the client accepts as a number to compare with is the right one.
LEMMA BackIsNear ==
    ASSUME FramesFit, NEW p, p.back \in 1 .. MaxBehind, ValidateDeltaPacket(p)
    PROVE  p.back \in 1 .. UpdateBackup - 2
<1>1. p.back % ByteRange # 0 /\ p.back % ByteRange < UpdateBackup - 1
  BY DEF ValidateDeltaPacket
<1>2. PICK b : b = p.back
  OBVIOUS
<1>3. b \in 1 .. MaxBehind /\ b <= ByteRange /\ ByteRange \in Nat \ {0} /\ UpdateBackup \in Nat
  BY <1>2, Sizes DEF FramesFit
<1>4. CASE b = ByteRange
  <2>1. (ByteRange * 1 + 0) % ByteRange = 0
    BY <1>3, Remainder
  <2>2. ByteRange * 1 + 0 = ByteRange
    BY <1>3
  <2>. QED BY <1>1, <1>2, <1>4, <2>1, <2>2
<1>5. CASE b # ByteRange
  <2>1. b \in 0 .. ByteRange - 1
    BY <1>3, <1>5
  <2>2. b % ByteRange = b
    BY <1>3, <2>1, RemainderSmall
  <2>. QED BY <1>1, <1>2, <1>3, <2>2
<1>. QED BY <1>4, <1>5

\* The frame that a usable packet is a delta from, and its world.
LEMMA OldFrame ==
    ASSUME FramesFit, TypeInv, NEW p, p.seq \in Nat, FrameInv(p), Usable(p)
    PROVE  LET f == IF p.back = None THEN NoFrame
                    ELSE Framed(cframes, p.seq, 0, ClientEntities)[Slot(p.seq + p.back)]
           IN  \E V \in World : /\ p.updates = Changed(V, p.world)
                                /\ f.age \in Nat /\ f.age <= ClientEntities - PacketEntities
                                /\ Stored(centities, f, V)
<1>1. CASE p.back = None
  <2>1. <<>> \in World /\ p.updates = Changed(<<>>, p.world)
    BY <1>1 DEF World, FrameInv
  <2>2. NoFrame.age \in Nat /\ NoFrame.age <= ClientEntities - PacketEntities
    BY Room, Sizes DEF NoFrame
  <2>3. Stored(centities, NoFrame, <<>>)
    <3>1. DOMAIN <<>> = {} /\ Cardinality({}) = 0
      BY FS_EmptySet
    <3>. QED BY <3>1 DEF Stored, NoFrame
  <2>. QED BY <1>1, <2>1, <2>2, <2>3
<1>2. CASE p.back # None
  <2>. DEFINE f == Framed(cframes, p.seq, 0, ClientEntities)[Slot(p.seq + p.back)]
  <2>1. p.back \in 1 .. MaxBehind /\ ValidateDeltaPacket(p)
    BY <1>2 DEF FrameInv, Usable
  <2>2. PICK b : b = p.back
    OBVIOUS
  <2>3. b \in 1 .. UpdateBackup - 2 /\ b < UpdateBackup - 1 /\ b \in 1 .. UpdateBackup - 1
    BY <2>1, <2>2, BackIsNear, Sizes
  <2>4. Fresh(p.seq + b)
    BY <2>1, <2>2 DEF ValidateDeltaPacket, Fresh
  <2>5. PICK V \in World : p.updates = Changed(V, p.world) /\ ClientHas(p.seq + b, V)
    BY <1>2, <2>2, <2>3, <2>4 DEF FrameInv
  <2>6. PICK s, r : s = Slot(p.seq + b) /\ r = cframes[s]
    OBVIOUS
  <2>7. s \in 0 .. UpdateBackup - 1 /\ s # Slot(p.seq)
    <3>1. p.seq + b \in Int
      BY <2>3, Sizes
    <3>. QED BY <2>3, <2>6, <3>1, SlotsDiffer, SlotRange
  <2>8. r \in AFrame(ClientEntities)
    BY <2>6, <2>7 DEF TypeInv
  <2>9. r.age \in Nat /\ r.age <= ClientEntities - PacketEntities /\ r.age <= ClientEntities
    BY <2>4, <2>6, <2>8, Sizes DEF AFrame, Fresh
  <2>10. f = [r EXCEPT !.age = Least(@ + 0, ClientEntities)]
    <3>1. s \in DOMAIN cframes
      BY <2>7 DEF TypeInv
    <3>. QED BY <2>2, <2>6, <2>7, <3>1 DEF Framed
  <2>11. f.age = r.age /\ f.num = r.num
    <3>1. f.age = Least(r.age + 0, ClientEntities) /\ f.num = r.num
      <4>. HIDE DEF f
      <4>. QED BY <2>8, <2>10 DEF AFrame
    <3>2. Least(r.age + 0, ClientEntities) = r.age
      BY <2>9, Sizes DEF Least
    <3>. QED BY <3>1, <3>2
  <2>. HIDE DEF f
  <2>12. Stored(centities, f, V)
    BY <2>5, <2>6, <2>11 DEF ClientHas, Stored
  <2>13. f.age \in Nat /\ f.age <= ClientEntities - PacketEntities
    BY <2>9, <2>11
  <2>14. p.updates = Changed(V, p.world)
    BY <2>5
  <2>15. \E X \in World : /\ p.updates = Changed(X, p.world)
                          /\ f.age \in Nat /\ f.age <= ClientEntities - PacketEntities
                          /\ Stored(centities, f, X)
    BY <2>12, <2>13, <2>14
  <2>. QED BY <1>2, <2>15 DEF f
<1>. QED BY <1>1, <1>2

\* The client's step, but for what it does to the client's own state.
LEMMA ReceiveType ==
    ASSUME SnapshotsInv, NEW i \in DOMAIN down, down' = SubSeq(down, i + 1, Len(down)),
           UNCHANGED <<frames, entities, spawned, delta>>,
           valid' \in Sequence, InFlight <= MaxBehind + 1 => valid' \in ASequence,
           cframes' \in [0 .. UpdateBackup - 1 -> AFrame(ClientEntities)],
           centities' \in Seq(Entity), Len(centities') = ClientEntities, shown' \in World
    PROVE  TypeInv'
<1>t. TypeInv
  BY DEF SnapshotsInv
<1>1. (\E U : down' \in Seq(PacketOf(U))) /\ Len(down') \in Nat
      /\ Len(down) \in Nat /\ i \in 1 .. Len(down) /\ Len(down') = Len(down) - i
  BY FewerPackets
<1>2. Len(down') <= InFlight
  <2>1. Len(down) <= InFlight
    BY <1>t DEF TypeInv
  <2>. QED BY <1>1, <2>1, Sizes
<1>3. spawned' \in BOOLEAN
  BY <1>t DEF TypeInv
<1>. QED BY <1>t, <1>1, <1>2, <1>3 DEF TypeInv

\* The number of the packet that is read.
LEMMA ReadPacket ==
    ASSUME SnapshotsInv, NEW i \in DOMAIN down, down' = SubSeq(down, i + 1, Len(down))
    PROVE  /\ down[i].seq = Len(down) - i + 1 /\ down[i].seq \in Nat \ {0}
           /\ down[i].seq > Len(down') /\ down[i].seq \in Sequence
           /\ InFlight <= MaxBehind + 1 => down[i].seq \in ASequence
           /\ down[i].kind = "frame" => FrameInv(down[i])
<1>1. down[i].seq = Len(down) - i + 1 /\ (down[i].kind = "frame" => FrameInv(down[i]))
  BY DEF SnapshotsInv, PacketsInv
<1>2. /\ Len(down) \in Nat /\ i \in 1 .. Len(down) /\ Len(down') = Len(down) - i
      /\ Len(down) <= InFlight
  BY FewerPackets DEF SnapshotsInv, TypeInv
<1>3. PICK a, n : a = Len(down) /\ n = a - i + 1
  OBVIOUS
<1>4. a \in Nat /\ i \in 1 .. a /\ a <= InFlight /\ Len(down') = a - i /\ down[i].seq = n
  BY <1>1, <1>2, <1>3
<1>5. n \in Nat \ {0} /\ n <= InFlight /\ n > a - i
  BY <1>3, <1>4, Sizes
<1>6. n \in Sequence /\ (InFlight <= MaxBehind + 1 => n \in ASequence)
  BY <1>5, Sizes DEF Sequence, ASequence
<1>. QED BY <1>1, <1>3, <1>4, <1>5, <1>6

LEMMA FlushKeeps ==
    ASSUME FramesFit, SnapshotsInv, NEW i \in DOMAIN down, down' = SubSeq(down, i + 1, Len(down)),
           down[i].kind = "frame", ~Usable(down[i]), ParsePacketEntities(down[i]),
           UNCHANGED <<frames, entities, spawned, delta>>
    PROVE  SnapshotsInv'
<1>t. TypeInv
  BY DEF SnapshotsInv
<1>1. PICK seq : seq = down[i].seq
  OBVIOUS
<1>2. seq = Len(down) - i + 1 /\ seq \in Nat
  BY <1>1, ReadPacket
<1>3. /\ cframes' = Framed(cframes, seq, 0, ClientEntities) /\ valid' = None
      /\ centities' = centities /\ shown' = shown
  BY <1>1 DEF ParsePacketEntities
<1>4. /\ cframes \in [0 .. UpdateBackup - 1 -> AFrame(ClientEntities)]
      /\ centities' \in Seq(Entity) /\ Len(centities') = ClientEntities /\ shown' \in World
  BY <1>t, <1>3 DEF TypeInv
<1>5. ClientKeeps(seq)
  <2>1. 0 \in 0 .. ClientEntities
    BY Sizes
  <2>2. Kept(centities, centities', 0, ClientEntities - 1)
    <3>1. Len(centities) \in Nat
      BY <1>t, Sizes DEF TypeInv
    <3>. QED BY <1>3, <3>1 DEF Kept
  <2>. QED BY <1>t, <1>2, <1>3, <1>4, <2>1, <2>2, FramesRoll
<1>6. TypeInv'
  <2>1. cframes' \in [0 .. UpdateBackup - 1 -> AFrame(ClientEntities)]
    <3>1. 0 \in 0 .. ClientEntities /\ 0 <= MaxEntity /\ ClientEntities \in Nat
      BY Sizes
    <3>. QED BY <1>2, <1>3, <1>4, <3>1, FramedType
  <2>2. valid' \in Sequence /\ valid' \in ASequence
    BY <1>3 DEF Sequence, ASequence
  <2>. QED BY <1>4, <2>1, <2>2, ReceiveType
<1>7. ValidInv'
  BY <1>3 DEF ValidInv
<1>. QED BY <1>2, <1>5, <1>6, <1>7, ReceiveKeeps

LEMMA ParseKeeps ==
    ASSUME FramesFit, SnapshotsInv, NEW i \in DOMAIN down, down' = SubSeq(down, i + 1, Len(down)),
           down[i].kind = "frame", Usable(down[i]), ParsePacketEntities(down[i]),
           UNCHANGED <<frames, entities, spawned, delta>>
    PROVE  SnapshotsInv'
<1>t. TypeInv
  BY DEF SnapshotsInv
<1>1. PICK p : p = down[i]
  OBVIOUS
<1>2. PICK seq, W : seq = p.seq /\ W = p.world
  OBVIOUS
<1>3. /\ seq = Len(down) - i + 1 /\ seq \in Nat \ {0} /\ seq > Len(down') /\ seq \in Sequence
      /\ InFlight <= MaxBehind + 1 => seq \in ASequence
      /\ FrameInv(p) /\ Usable(p) /\ p.seq \in Nat /\ ParsePacketEntities(p)
  BY <1>1, <1>2, ReadPacket
<1>4. PICK f : f = IF p.back = None THEN NoFrame
                   ELSE Framed(cframes, p.seq, 0, ClientEntities)[Slot(p.seq + p.back)]
  OBVIOUS
<1>5. PICK V \in World : /\ p.updates = Changed(V, W)
                         /\ f.age \in Nat /\ f.age <= ClientEntities - PacketEntities
                         /\ Stored(centities, f, V)
  BY <1>t, <1>2, <1>3, <1>4, OldFrame
<1>6. PICK m, c : m = Merged(f, p.updates) /\ c = Cardinality(DOMAIN W)
  OBVIOUS
<1>w. W \in Worlds /\ W \in World /\ seq # None
  BY <1>2, <1>3 DEF FrameInv, World, None
<1>7. /\ m.ring \in Seq(Entity) /\ Len(m.ring) = ClientEntities /\ m.written = c
      /\ Kept(centities, m.ring, c, ClientEntities - 1) /\ Laid(m.ring, W, MaxEntity)
  <2>1. centities \in Seq(Entity) /\ Len(centities) = ClientEntities
    BY <1>t DEF TypeInv
  <2>. QED BY <1>5, <1>6, <1>w, <2>1, MergedWorld
<1>8. /\ valid' = seq /\ shown' = W /\ centities' = m.ring
      /\ cframes' = Framed(cframes, seq, c, ClientEntities)
  BY <1>2, <1>3, <1>4, <1>6, <1>7 DEF ParsePacketEntities
<1>9. c \in 0 .. ClientEntities /\ c <= MaxEntity /\ c \in Nat
  <2>1. c \in Nat /\ c <= MaxEntity
    BY <1>6, <1>w, WorldFinite, Sizes
  <2>2. c <= PacketEntities + 1
    <3>1. IsFiniteSet(DOMAIN W)
      BY <1>w, WorldFinite, Sizes
    <3>2. PICK d : d = Cardinality(DOMAIN W \ {MaxEntity})
      OBVIOUS
    <3>3. d \in Nat /\ d <= PacketEntities
      <4>1. IsFiniteSet(DOMAIN W \ {MaxEntity})
        BY <3>1, FS_Difference
      <4>2. d \in Nat
        BY <3>2, <4>1, FS_CardinalityType
      <4>. QED BY <1>w, <3>2, <4>2 DEF FramesFit
    <3>4. d = IF MaxEntity \in DOMAIN W THEN c - 1 ELSE c
      BY <1>6, <3>1, <3>2, FS_RemoveElement
    <3>. QED BY <2>1, <3>3, <3>4, Sizes
  <2>. QED BY <2>1, <2>2, Room, Sizes
<1>10. cframes \in [0 .. UpdateBackup - 1 -> AFrame(ClientEntities)]
  BY <1>t DEF TypeInv
<1>11. ClientKeeps(seq)
  BY <1>t, <1>3, <1>7, <1>8, <1>9, FramesRoll
<1>12. TypeInv'
  <2>1. cframes' \in [0 .. UpdateBackup - 1 -> AFrame(ClientEntities)]
    BY <1>3, <1>8, <1>9, <1>10, FramedType, Sizes
  <2>. QED BY <1>3, <1>7, <1>8, <1>w, <2>1, ReceiveType
<1>13. ValidInv'
  <2>1. PICK g : g = cframes'[Slot(seq)]
    OBVIOUS
  <2>2. g.age = c /\ g.num = c
    <3>1. PICK new, size : new = Framed(cframes, seq, c, size) /\ size = ClientEntities
      OBVIOUS
    <3>2. cframes \in [0 .. UpdateBackup - 1 -> AFrame(ClientEntities)] /\ seq \in Nat
      BY <1>3, <1>10
    <3>3. Slot(seq) \in DOMAIN cframes
      BY <3>2, SlotRange
    <3>4. new[Slot(seq)] = [age |-> c, num |-> c]
      BY <3>1, <3>3 DEF Framed
    <3>. QED BY <1>8, <2>1, <3>1, <3>4
  <2>3. Stored(centities', g, W)
    <3>1. g.age <= Len(m.ring)
      BY <1>7, <1>9, <2>2
    <3>2. Stored(m.ring, g, W)
      BY <1>6, <1>7, <1>w, <2>2, <3>1, StoredLaid
    <3>. QED BY <1>8, <3>2
  <2>4. ClientHas(valid, shown)'
    BY <1>8, <2>1, <2>3 DEF ClientHas
  <2>5. ServerHas(seq, W)
    BY <1>2, <1>3 DEF FrameInv
  <2>6. ServerHas(valid, shown)'
    BY <1>8, <2>5 DEF ServerHas
  <2>. QED BY <1>3, <1>8, <1>w, <2>4, <2>6 DEF ValidInv
<1>. QED BY <1>3, <1>11, <1>12, <1>13, ReceiveKeeps

\* A packet without a frame.
LEMMA SkipKeeps ==
    ASSUME FramesFit, SnapshotsInv, NEW i \in DOMAIN down, down' = SubSeq(down, i + 1, Len(down)),
           UNCHANGED <<frames, entities, spawned, delta>>, UNCHANGED <<clientVars, valid>>
    PROVE  SnapshotsInv'
<1>t. TypeInv /\ ValidInv
  BY DEF SnapshotsInv
<1>1. PICK seq : seq = Len(down) - i + 1
  OBVIOUS
<1>2. UNCHANGED <<cframes, centities, shown, valid>>
  BY DEF clientVars
<1>3. ClientKeeps(seq)
  BY <1>2 DEF ClientKeeps, Fresh, ClientHas, Stored, At
<1>4. TypeInv'
  <2>1. /\ cframes' \in [0 .. UpdateBackup - 1 -> AFrame(ClientEntities)]
        /\ centities' \in Seq(Entity) /\ Len(centities') = ClientEntities /\ shown' \in World
        /\ valid' \in Sequence /\ (InFlight <= MaxBehind + 1 => valid' \in ASequence)
    BY <1>t, <1>2 DEF TypeInv
  <2>. QED BY <2>1, ReceiveType
<1>5. ValidInv'
  <2>1. valid # None => valid \in Nat
    BY <1>t DEF TypeInv, Sequence
  <2>2. valid # None => valid > Len(down)
    BY <1>t DEF ValidInv
  <2>3. valid # None => valid > Len(down')
    BY <2>1, <2>2, FewerNumbers
  <2>. QED BY <1>t, <1>2, <2>3 DEF ValidInv, ClientHas, ServerHas, Stored, At
<1>. QED BY <1>1, <1>2, <1>3, <1>4, <1>5, ReceiveKeeps

LEMMA ReceivesKeeps ==
    ASSUME FramesFit, SnapshotsInv, NEW i, ClientReceives(i)
    PROVE  SnapshotsInv'
<1>1. /\ i \in DOMAIN down /\ down' = SubSeq(down, i + 1, Len(down))
      /\ UNCHANGED <<frames, entities, spawned, delta>>
  BY DEF ClientReceives, serverVars
<1>2. \/ down[i].kind = "frame" /\ ParsePacketEntities(down[i])
      \/ UNCHANGED <<clientVars, valid>>
  BY DEF ClientReceives
<1>3. CASE down[i].kind = "frame" /\ ParsePacketEntities(down[i])
  BY <1>1, <1>3, ParseKeeps, FlushKeeps
<1>4. CASE UNCHANGED <<clientVars, valid>>
  BY <1>1, <1>4, SkipKeeps
<1>. QED BY <1>2, <1>3, <1>4

------------------------------------------------------------------------------
(* The theorems. *)

LEMMA StutterKeeps ==
    ASSUME SnapshotsInv, UNCHANGED vars PROVE SnapshotsInv'
<1>1. UNCHANGED <<frames, entities, spawned, delta, cframes, centities, down, shown, valid>>
  BY DEF vars, serverVars, clientVars
<1>2. TypeInv'
  BY <1>1 DEF SnapshotsInv, TypeInv
<1>3. PacketsInv'
  BY <1>1, PacketsSame DEF SnapshotsInv
<1>4. ValidInv' /\ DeltaInv'
  BY <1>1 DEF SnapshotsInv, ValidInv, DeltaInv, Fresh, ClientHas, ServerHas, Stored, At
<1>. QED BY <1>2, <1>3, <1>4 DEF SnapshotsInv

LEMMA NextKeeps ==
    ASSUME FramesFit, SnapshotsInv, [Next]_vars PROVE SnapshotsInv'
<1>1. ASSUME NEW world \in Worlds, ServerSendsFrame(world) PROVE SnapshotsInv'
  BY <1>1, ServerFrameKeeps
<1>2. ASSUME ServerSendsReliable PROVE SnapshotsInv'
  BY <1>2, ServerReliableKeeps
<1>3. ASSUME NEW i \in 1 .. InFlight, ClientReceives(i) PROVE SnapshotsInv'
  BY <1>3, ReceivesKeeps
<1>4. ASSUME ClientSends PROVE SnapshotsInv'
  BY <1>4, ClientSendsKeeps
<1>5. ASSUME UNCHANGED vars PROVE SnapshotsInv'
  BY <1>5, StutterKeeps
<1>. QED BY <1>1, <1>2, <1>3, <1>4, <1>5 DEF Next, ClientReads

\* The rings keep their sizes, a frame's entities are among those written to the
\* ring since it was begun, and neither end goes by a frame that is further back
\* than the bound (cl.frames and svs.packet_entities, for every size of theirs).
THEOREM SnapshotsTypeCorrect ==
    FramesFit /\ InFlight <= MaxBehind + 1 /\ Spec => []SnapshotsTypeOK
<1>. SUFFICES ASSUME FramesFit, InFlight <= MaxBehind + 1 PROVE Spec => []SnapshotsTypeOK
  OBVIOUS
<1>1. Init => SnapshotsInv
  BY SnapshotsInit
<1>2. SnapshotsInv /\ [Next]_vars => SnapshotsInv'
  BY NextKeeps
<1>3. SnapshotsInv => SnapshotsTypeOK
  <2>. SUFFICES ASSUME SnapshotsInv PROVE SnapshotsTypeOK
    OBVIOUS
  <2>1. TypeInv
    BY DEF SnapshotsInv
  <2>2. spawned \in BOOLEAN
    BY <2>1 DEF TypeInv
  <2>3. delta \in ASequence /\ valid \in ASequence
    BY <2>1 DEF TypeInv
  <2>. QED BY <2>1, <2>2, <2>3 DEF TypeInv, SnapshotsTypeOK, World
<1>. QED BY <1>1, <1>2, <1>3, PTL DEF Spec

\* What the client takes for the frame of the number cl.validsequence is what the
\* server has put in the frame of that number: no loss, no flush and
\* no frame that has rolled off either ring makes the two ends compare with
\* different frames (CL_ParsePacketEntities, SV_EmitPacketEntities).
THEOREM FramesAlwaysAgree == FramesFit /\ Spec => []FramesAgree
<1>. SUFFICES ASSUME FramesFit PROVE Spec => []FramesAgree
  OBVIOUS
<1>1. Init => SnapshotsInv
  BY SnapshotsInit
<1>2. SnapshotsInv /\ [Next]_vars => SnapshotsInv'
  BY NextKeeps
<1>3. SnapshotsInv => FramesAgree
  <2>. SUFFICES ASSUME SnapshotsInv, valid # None PROVE Held(centities, cframes[Slot(valid)]) = shown
    BY DEF FramesAgree
  <2>1. TypeInv /\ ValidInv
    BY DEF SnapshotsInv
  <2>2. PICK f : f = cframes[Slot(valid)]
    OBVIOUS
  <2>3. Stored(centities, f, shown) /\ shown \in World
    BY <2>1, <2>2 DEF ValidInv, ClientHas, World
  <2>4. f.age \in Nat
    <3>1. valid \in Int
      BY <2>1 DEF TypeInv, Sequence
    <3>2. Slot(valid) \in 0 .. UpdateBackup - 1
      BY <3>1, SlotRange
    <3>3. f \in AFrame(ClientEntities)
      BY <2>1, <2>2, <3>2 DEF TypeInv
    <3>. QED BY <3>3 DEF AFrame
  <2>5. Held(centities, f) = shown
    BY <2>3, <2>4, HeldIs
  <2>. QED BY <2>2, <2>5
<1>. QED BY <1>1, <1>2, <1>3, PTL DEF Spec
=============================================================================
