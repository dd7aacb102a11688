--------------------------- MODULE HandshakeProofs ---------------------------
(***************************************************************************)
(* For any number of clients, slots, cookies and levels: a level's game has *)
(* accepted whom it puts in (AdmittedByThisLevel), a session is of one      *)
(* level (OneLevelPerSession, SameLevel), and every signon is awaited       *)
(* (SignonInTurn).                                                         *)
(***************************************************************************)
EXTENDS Handshake, FiniteSetTheorems, TLAPS

-----------------------------------------------------------------------------
(***************************************************************************)
(* Channels.  News are the messages of the signon that start something; an  *)
(* operation of a channel is calm if it brings none.                       *)
(***************************************************************************)
News    == {"serverdata", "sendres", "resources", "spawn", "signon"}
Command == News \cup Unreliable \cup {"new", "begin", "torn"}
Message == [age : Nat, what : Command, level : Nat]
Queue   == {q \in SUBSET Message : IsFiniteSet(q)}
Chan    == [queue : Queue, skew : BOOLEAN]

Has(q, what)          == \E m \in q : m.what = what
Tells(q, what, level) == \E m \in q : m.what = what /\ m.level = level
NoNews(q, p) == \A m \in q : m.what \in News => Tells(p, m.what, m.level)

\* No two signons are under way.
Single(q) == \A m, r \in q : m.what = "signon" /\ r.what = "signon" => m = r

Calm(b, a) == b \in Chan /\ NoNews(b.queue, a.queue) /\ (Single(a.queue) => Single(b.queue))

LEMMA CalmTrans ==
    ASSUME NEW a, NEW b, NEW c, Calm(c, b), Calm(b, a)
    PROVE  Calm(c, a)
  BY DEF Calm, NoNews, Tells

LEMMA CalmRefl ==
    ASSUME NEW a \in Chan
    PROVE  Calm(a, a)
  BY DEF Calm, NoNews, Tells

LEMMA CalmSilent ==
    ASSUME NEW a
    PROVE  Silent \in Chan /\ Calm(Silent, a) /\ Silent.queue = {}
  BY FS_EmptySet DEF Silent, Chan, Queue, Calm, NoNews, Single

LEMMA FiniteImage ==
    ASSUME NEW q, IsFiniteSet(q), NEW f, f = [m \in q |-> f[m]]
    PROVE  IsFiniteSet({f[m] : m \in q})
<1> DEFINE T == {f[m] : m \in q}
<1>1. f \in [q -> T]
  OBVIOUS
<1>2. f \in Surjection(q, T)
  BY <1>1 DEF Surjection
<1> QED BY <1>2, FS_Surjection

\* The messages sent after message m.
Later(q, m) == {r \in q : r.age < m.age}

LEMMA RenumberedCalm ==
    ASSUME NEW q \in Queue
    PROVE  Renumbered(q) \in Queue /\ NoNews(Renumbered(q), q) /\ (Single(q) => Single(Renumbered(q)))
<1> DEFINE f == [m \in q |-> [m EXCEPT !.age = Cardinality(Later(q, m))]]
<1>0. q \subseteq Message /\ IsFiniteSet(q)
  BY DEF Queue
<1>1. \A m \in q : Cardinality(Later(q, m)) \in Nat
  BY <1>0, FS_Subset, FS_CardinalityType DEF Later
<1>2. Renumbered(q) = {f[m] : m \in q}
  BY DEF Renumbered, Later
<1>3. \A m \in q : f[m] \in Message /\ f[m].what = m.what /\ f[m].level = m.level
  BY <1>0, <1>1 DEF Message
<1>4. f = [m \in q |-> f[m]]
  OBVIOUS
<1> HIDE DEF f
<1>5. IsFiniteSet(Renumbered(q))
  BY <1>0, <1>2, <1>4, FiniteImage
<1>6. Renumbered(q) \in Queue
  BY <1>2, <1>3, <1>5 DEF Queue
<1>7. NoNews(Renumbered(q), q)
  BY <1>2, <1>3 DEF NoNews, Tells
<1>8. Single(q) => Single(Renumbered(q))
  BY <1>2, <1>3 DEF Single
<1> QED BY <1>6, <1>7, <1>8

LEMMA PartCalm ==
    ASSUME NEW q \in Queue, NEW p, p \subseteq q
    PROVE  /\ p \in Queue /\ Renumbered(p) \in Queue /\ NoNews(Renumbered(p), q)
           /\ NoNews(Renumbered(p), p) /\ (Single(q) => Single(Renumbered(p)))
<1>1. p \in Queue
  BY FS_Subset DEF Queue
<1>2. Single(q) => Single(p)
  BY DEF Single
<1>3. Renumbered(p) \in Queue /\ NoNews(Renumbered(p), p) /\ (Single(p) => Single(Renumbered(p)))
  BY <1>1, RenumberedCalm
<1>4. NoNews(Renumbered(p), q)
  BY <1>3 DEF NoNews, Tells
<1> QED BY <1>1, <1>2, <1>3, <1>4

LEMMA ChanType ==
    ASSUME NEW a \in Chan
    PROVE  /\ a.queue \in Queue /\ a.queue \subseteq Message /\ IsFiniteSet(a.queue)
           /\ a.skew \in BOOLEAN
           /\ \A q \in Queue : [a EXCEPT !.queue = q] \in Chan /\ [a EXCEPT !.queue = q].queue = q
           /\ \A q \in Queue, x \in BOOLEAN : [queue |-> q, skew |-> x] \in Chan
  BY DEF Chan, Queue

LEMMA SendFacts ==
    ASSUME NEW a \in Chan, NEW what \in Command, NEW level \in Nat
    PROVE  /\ Send(a, what, level) \in Chan
           /\ \A m \in Send(a, what, level).queue :
                 (m.what = what /\ m.level = level) \/ Tells(a.queue, m.what, m.level)
           /\ Single(a.queue) /\ (what = "signon" => ~Has(a.queue, "signon"))
                 => Single(Send(a, what, level).queue)
<1> DEFINE q == a.queue
           n == [age |-> 0, what |-> what, level |-> level]
           f == [m \in q |-> [m EXCEPT !.age = @ + 1]]
           b == Aged(q) \cup {n}
<1>1. q \subseteq Message /\ IsFiniteSet(q)
  BY ChanType
<1>2. Aged(q) = {f[m] : m \in q} /\ f = [m \in q |-> f[m]]
  BY DEF Aged
<1>3. \A m \in q : f[m] \in Message /\ f[m].what = m.what /\ f[m].level = m.level
  BY <1>1 DEF Message
<1>4. n \in Message /\ n.what = what /\ n.level = level
  BY DEF Message
<1> HIDE DEF f, n
<1>5. b \in Queue
  <2>1. IsFiniteSet(Aged(q))
    BY <1>1, <1>2, FiniteImage
  <2>2. IsFiniteSet(b)
    BY <2>1, FS_AddElement
  <2>3. b \subseteq Message
    BY <1>2, <1>3, <1>4
  <2> QED BY <2>2, <2>3 DEF Queue
<1>6. Send(a, what, level) \in Chan /\ Send(a, what, level).queue = b
  <2>1. Send(a, what, level) = [a EXCEPT !.queue = b]
    BY DEF Send, Chan, n
  <2> QED BY <2>1, <1>5, ChanType
<1>7. \A m \in b : (m.what = what /\ m.level = level) \/ Tells(q, m.what, m.level)
  BY <1>2, <1>3, <1>4 DEF Tells
<1>8. ASSUME Single(q), what = "signon" => ~Has(q, "signon")
      PROVE  Single(b)
  BY <1>2, <1>3, <1>4, <1>8 DEF Single, Has
<1> QED BY <1>6, <1>7, <1>8

LEMMA CalmSend ==
    ASSUME NEW a \in Chan, NEW what \in Command \ News, NEW level \in Nat
    PROVE  Calm(Send(a, what, level), a)
  BY SendFacts DEF Calm, NoNews, News

LEMMA TakenFacts ==
    ASSUME NEW a \in Chan, NEW m \in Deliverable(a)
    PROVE  /\ m \in a.queue /\ m \in Message /\ Calm(Taken(a, m), a)
           /\ Single(a.queue) /\ m.what = "signon" => ~Has(Taken(a, m).queue, "signon")
<1> DEFINE q == a.queue
           p == After(q, m)
<1>1. q \in Queue /\ q \subseteq Message
  BY ChanType
<1>2. m \in q /\ m \in Message
  BY <1>1 DEF Deliverable, First, Reliables
<1>3. p \subseteq q /\ m \notin p
  BY <1>1, <1>2 DEF After, Reliables, Message
<1>4. Taken(a, m) = [a EXCEPT !.queue = Renumbered(p)]
  BY DEF Taken, Chan
<1> HIDE DEF p
<1>5. Calm(Taken(a, m), a) /\ Taken(a, m).queue = Renumbered(p) /\ NoNews(Renumbered(p), p)
  BY <1>1, <1>3, <1>4, PartCalm, ChanType DEF Calm
<1>6. ASSUME Single(q), m.what = "signon" PROVE ~Has(Renumbered(p), "signon")
  BY <1>2, <1>3, <1>5, <1>6 DEF Single, Has, NoNews, Tells, News
<1> QED BY <1>2, <1>5, <1>6

LEMMA ArrivalFacts ==
    ASSUME NEW a \in Chan, NEW m \in Deliverable(a), NEW x \in Arrivals(a, m)
    PROVE  m \in a.queue /\ m \in Message /\ Calm(x.chan, a) /\ x.got \in BOOLEAN
<1> DEFINE q == a.queue
<1>1. q \in Queue /\ q \subseteq Message
  BY ChanType
<1>2. m \in q /\ m \in Message
  BY <1>1 DEF Deliverable, First, Reliables
<1>3. \A p : p \subseteq q => LET r == Renumbered(p) IN Calm([queue |-> r, skew |-> FALSE], a)
  <2> SUFFICES ASSUME NEW p, p \subseteq q
               PROVE  Calm([queue |-> Renumbered(p), skew |-> FALSE], a)
    OBVIOUS
  <2>1. Renumbered(p) \in Queue /\ NoNews(Renumbered(p), q) /\ (Single(q) => Single(Renumbered(p)))
    BY <1>1, PartCalm
  <2> QED BY <2>1, ChanType DEF Calm
<1> DEFINE l == [queue |-> Renumbered(After(q, m)), skew |-> FALSE]
           o == [queue |-> Renumbered({m} \cup After(q, m)), skew |-> FALSE]
<1>4. Calm(l, a) /\ Calm(o, a) /\ Calm(Taken(a, m), a)
  <2>1. After(q, m) \subseteq q /\ {m} \cup After(q, m) \subseteq q
    BY <1>2 DEF After, Reliables
  <2> QED BY <1>3, <2>1, TakenFacts
<1> DEFINE lost   == [chan |-> l, got |-> FALSE]
           kept   == [chan |-> o, got |-> TRUE]
           normal == [chan |-> Taken(a, m), got |-> TRUE]
<1>5. Arrivals(a, m) \subseteq {lost, kept, normal}
  BY DEF Arrivals
<1>6. /\ lost.chan = l /\ kept.chan = o /\ normal.chan = Taken(a, m)
      /\ {lost.got, kept.got, normal.got} \subseteq BOOLEAN
  OBVIOUS
<1> HIDE DEF l, o, lost, kept, normal
<1> QED BY <1>2, <1>4, <1>5, <1>6

LEMMA CalmCleared ==
    ASSUME NEW a \in Chan, NEW fate
    PROVE  Calm(Cleared(a, fate), a)
<1> DEFINE q == a.queue
           f == [m \in First(q) |-> [m EXCEPT !.age = Cardinality(q)]]
           arriving == IF fate = "arriving" THEN {[m EXCEPT !.age = Cardinality(q)] : m \in First(q)}
                       ELSE {}
           p == (q \ Reliables(q)) \cup arriving
<1>1. q \subseteq Message /\ IsFiniteSet(q) /\ Cardinality(q) \in Nat /\ First(q) \subseteq q
  BY ChanType, FS_CardinalityType DEF First, Reliables
<1>2. \A m \in First(q) : f[m] \in Message /\ f[m].what = m.what /\ f[m].level = m.level
  BY <1>1 DEF Message
<1>3. f = [m \in First(q) |-> f[m]] /\ arriving \subseteq {f[m] : m \in First(q)}
  OBVIOUS
<1> HIDE DEF f, arriving
<1>4. IsFiniteSet(p)
  <2>1. IsFiniteSet(First(q)) /\ IsFiniteSet(q \ Reliables(q))
    BY <1>1, FS_Subset
  <2>2. IsFiniteSet({f[m] : m \in First(q)})
    BY <1>3, <2>1, FiniteImage
  <2>3. IsFiniteSet(arriving)
    BY <1>3, <2>2, FS_Subset
  <2> QED BY <2>1, <2>3, FS_Union
<1>5. p \in Queue
  BY <1>1, <1>2, <1>3, <1>4 DEF Queue
<1>6. NoNews(p, q)
  BY <1>1, <1>2, <1>3 DEF NoNews, Tells
<1>7. Single(q) => Single(p)
  <2>1. \A m \in p : m.what = "signon" => m \in arriving
    BY DEF Reliables, Unreliable
  <2> QED BY <1>1, <1>2, <1>3, <2>1 DEF Single
<1>8. Renumbered(p) \in Queue /\ NoNews(Renumbered(p), q) /\ (Single(q) => Single(Renumbered(p)))
  BY <1>5, <1>6, <1>7, PartCalm DEF NoNews, Tells
<1>9. Cleared(a, fate) \in Chan /\ Cleared(a, fate).queue = Renumbered(p)
  BY <1>8, ChanType DEF Cleared, arriving
<1> QED BY <1>8, <1>9 DEF Calm

LEMMA CalmTorn ==
    ASSUME NEW a \in Chan
    PROVE  Calm(Torn(a), a)
<1> DEFINE q == a.queue
           f == [m \in q |-> IF m \in First(q) THEN [m EXCEPT !.what = "torn"] ELSE m]
           p == {f[m] : m \in q}
<1>1. q \subseteq Message /\ IsFiniteSet(q)
  BY ChanType
<1>2. \A m \in q : f[m] \in Message /\ (f[m].what = "torn" \/ f[m] = m)
  BY <1>1 DEF Message, Command
<1>3. f = [m \in q |-> f[m]] /\ Torn(a) = [a EXCEPT !.queue = p]
  BY DEF Torn, Chan
<1> HIDE DEF f
<1>4. p \in Queue
  BY <1>1, <1>2, <1>3, FiniteImage DEF Queue
<1>5. NoNews(p, q) /\ (Single(q) => Single(p))
  BY <1>2 DEF NoNews, Tells, News, Single
<1> HIDE DEF p
<1> QED BY <1>3, <1>4, <1>5, ChanType DEF Calm

LEMMA CalmWithout ==
    ASSUME NEW a \in Chan, NEW what
    PROVE  Calm(Without(a, what), a)
<1>1. a.queue \in Queue
  BY ChanType
<1> DEFINE p == {m \in a.queue : m.what # what}
<1>2. Without(a, what) = [a EXCEPT !.queue = Renumbered(p)]
  BY DEF Without, Chan
<1>3. p \subseteq a.queue
  OBVIOUS
<1> HIDE DEF p
<1> QED BY <1>1, <1>2, <1>3, PartCalm, ChanType DEF Calm

LEMMA CalmWithdrawn ==
    ASSUME NEW a \in Chan, NEW b \in Withdrawn(a)
    PROVE  Calm(b, a)
<1>1. a.queue \in Queue
  BY ChanType
<1> DEFINE p == {m \in a.queue : m.what \in Unreliable \cup {"spawn"}}
<1>2. b = a \/ b = [a EXCEPT !.queue = Renumbered(p)]
  BY DEF Withdrawn, Chan
<1>3. p \subseteq a.queue
  OBVIOUS
<1> HIDE DEF p
<1>4. Calm([a EXCEPT !.queue = Renumbered(p)], a)
  BY <1>1, <1>3, PartCalm, ChanType DEF Calm
<1> QED BY <1>2, <1>4, CalmRefl

-----------------------------------------------------------------------------
(***************************************************************************)
(* The inductive invariant.                                                *)
(***************************************************************************)
Playing  == {"spawning", "spawned"}
Connects == {"connect", "client_connect"}

ClientRecord ==
    [state : {"disconnected", "connecting"} \cup InSession,
     connect_retry : 0 .. ConnectionRetries, test : {"none", "started", "passed", "failed"},
     test_retry : 0 .. TestRetries, challenge : Nat, pending : Nat, cookie : 0 .. MaxCookie,
     signon : 0 .. 2, servercount : Nat, prepped : BOOLEAN, reconnect : BOOLEAN]
SlotRecord ==
    [state : {"free", "zombie"} \cup InGame, client : Client \cup {NoOne},
     cookie : 0 .. MaxCookie, frames : BOOLEAN, resources : BOOLEAN]

PacketOK(d) == /\ d.client \in Client \cup {NoOne}
               /\ d.type = "challenge" => d.challenge \in Nat
               /\ d.type \in Connects => d.cookie \in Cookie

TypeInv ==
    /\ cls \in [Client -> ClientRecord]
    /\ lastCookie \in 0 .. MaxCookie
    /\ slot \in [Slot -> SlotRecord]
    /\ admitted \in [Slot -> BOOLEAN]
    /\ spawncount \in Nat \ {0}
    /\ \A d \in oob : PacketOK(d)
    /\ up \in [Cookie -> Chan] /\ down \in [Cookie -> Chan]

\* No cookie is used before it is drawn, and no level before it is played.
ClientBounds(c) ==
    /\ cls[c].pending <= lastCookie /\ cls[c].cookie <= lastCookie
    /\ cls[c].servercount <= spawncount
    /\ IF cls[c].state \in InSession
       THEN cls[c].cookie = cls[c].pending /\ cls[c].cookie # 0
       ELSE cls[c].servercount = 0
SlotBounds(s) ==
    /\ slot[s].cookie <= lastCookie
    /\ slot[s].state \in InGame => slot[s].cookie # 0
    /\ slot[s].state \in Playing => slot[s].frames
BoundInv ==
    /\ \A c \in Client : ClientBounds(c)
    /\ \A s \in Slot : SlotBounds(s)
    /\ \A d \in oob : d.type \in Connects => d.cookie <= lastCookie
    /\ \A k \in Cookie : \A m \in down[k].queue : m.what = "serverdata" => m.level <= spawncount

\* A cookie belongs to one client, to one slot and to one packet.
OwnerInv ==
    /\ \A c, e \in Client : c # e =>
          \A k \in {cls[c].pending, cls[c].cookie} \cap {cls[e].pending, cls[e].cookie} : k = 0
    /\ \A s, t \in Slot : s # t /\ slot[s].cookie = slot[t].cookie => slot[s].cookie = 0
    /\ \A d, e \in oob : {d.type, e.type} \subseteq Connects /\ d.cookie = e.cookie => d = e

\* The client has not taken the session up.
Unspawned(k) ==
    /\ \A c \in Client : cls[c].cookie # k
    /\ \A m \in up[k].queue : m.what \notin News
    /\ ~Has(down[k].queue, "resources")
    /\ \A s \in Slot : slot[s].cookie = k => slot[s].state \notin Playing

\* Nor has the server.
Unused(k) ==
    /\ Unspawned(k)
    /\ \A m \in down[k].queue : m.what \notin News
    /\ \A s \in Slot : slot[s].cookie # k

FreshInv ==
    /\ \A k \in Cookie : k > lastCookie => Unused(k)
    /\ \A d \in oob : /\ d.type = "connect" => Unused(d.cookie)
                      /\ d.type = "client_connect" => Unspawned(d.cookie)

\* A slot whose commands are executed, and a client in session k.
Live(s)    == slot[s].state \in InGame /\ slot[s].frames
InIt(c, k) == cls[c].state \in InSession /\ cls[c].cookie = k

\* The client has the level's data, or has had them.
Begun(s) ==
    LET k == slot[s].cookie
    IN  \/ slot[s].state \in Playing
        \/ Has(up[k].queue, "sendres") \/ Has(up[k].queue, "spawn")
        \/ Has(down[k].queue, "resources")
        \/ \E c \in Client : InIt(c, k) /\ cls[c].state = "validate"

\* Whoever could come into the game, or has, has been admitted.
AdmittedInv ==
    \A s \in Slot :
        Live(s) /\ (Begun(s) \/ Has(down[slot[s].cookie].queue, "serverdata")) => admitted[s]

\* A session that the server listens to is of its level.
LevelInv ==
    \A s \in Slot : Live(s) =>
        LET k == slot[s].cookie
        IN  /\ \A m \in up[k].queue : m.what = "spawn" => m.level = spawncount
            /\ \A m \in down[k].queue : m.what = "serverdata" => m.level = spawncount
            /\ \A c \in Client : InIt(c, k) =>
                  /\ cls[c].servercount \in {0, spawncount}
                  /\ Begun(s) => cls[c].servercount = spawncount

\* A client that has had the signon is not sent another, and a server that waits
\* for "spawn" has not sent it.
Replied(c, k) == InIt(c, k) /\ cls[c].signon >= 1
SignonInv ==
    /\ \A k \in Cookie : Single(down[k].queue)
    /\ \A k \in Cookie, c \in Client : Replied(c, k) => ~Has(down[k].queue, "signon")
    /\ \A s \in Slot : Live(s) /\ slot[s].state = "connected" =>
          /\ ~Has(down[slot[s].cookie].queue, "signon")
          /\ \A c \in Client : ~Replied(c, slot[s].cookie)

IInv == TypeInv /\ BoundInv /\ OwnerInv /\ FreshInv /\ AdmittedInv /\ LevelInv /\ SignonInv

-----------------------------------------------------------------------------
(***************************************************************************)
(* Steps within the sessions there are: what is new in the state after one  *)
(* has a cause in the state before it.  An end that leaves, a message that  *)
(* is lost and a level that ends need none.                                *)
(***************************************************************************)
ClientGoes(c) ==
    LET k == cls[c].cookie
    IN  /\ cls'[c].cookie = k
        /\ cls'[c].state \notin InSession => cls'[c].servercount = 0
        /\ cls'[c].state \in InSession =>
              /\ cls[c].state \in InSession
              /\ \/ cls'[c].servercount = cls[c].servercount
                 \/ Tells(down[k].queue, "serverdata", cls'[c].servercount)
              /\ cls'[c].state = "validate" =>
                    cls[c].state = "validate" \/ Has(down[k].queue, "resources")
              /\ cls'[c].signon >= 1 =>
                    \/ cls[c].signon >= 1
                    \/ Has(down[k].queue, "signon") /\ ~Has(down'[k].queue, "signon")

SlotGoes(s) ==
    LET k == slot[s].cookie
    IN  /\ slot'[s].cookie \in {0, k}
        /\ slot'[s].state \in InGame => slot'[s].cookie = k /\ slot[s].state \in InGame
        /\ slot'[s].state \in Playing =>
              slot'[s].frames /\ (slot[s].state \in Playing \/ Has(up[k].queue, "spawn"))
        /\ slot'[s].state \in InGame /\ slot'[s].frames =>
              /\ Live(s) /\ (admitted[s] => admitted'[s])
              /\ slot'[s].state = "connected" => slot[s].state = "connected"

UpGoes(k) ==
    \A m \in up'[k].queue : m.what \in News =>
        \/ Tells(up[k].queue, m.what, m.level)
        \/ \E c \in Client : InIt(c, k) /\
              \/ m.what = "sendres" /\ Tells(down[k].queue, "serverdata", cls'[c].servercount)
              \/ m.what = "spawn" /\ cls[c].state = "validate" /\ m.level = cls[c].servercount

DownGoes(k) ==
    /\ Single(down[k].queue) => Single(down'[k].queue)
    /\ \A m \in down'[k].queue : m.what \in News =>
          \/ Tells(down[k].queue, m.what, m.level)
          \/ \E s \in Slot : Live(s) /\ slot[s].cookie = k /\
                \/ m.what = "serverdata" /\ m.level = spawncount /\ admitted'[s]
                \/ m.what = "resources" /\ Has(up[k].queue, "sendres")
                \/ m.what = "signon" /\ slot[s].state = "connected" /\ slot'[s].state # "connected"

ClientsGo == cls' \in [Client -> ClientRecord] /\ \A c \in Client : ClientGoes(c)
SlotsGo   == /\ slot' \in [Slot -> SlotRecord] /\ admitted' \in [Slot -> BOOLEAN]
             /\ \A s \in Slot : SlotGoes(s)
UpsGo     == up' \in [Cookie -> Chan] /\ \A k \in Cookie : UpGoes(k)
DownsGo   == down' \in [Cookie -> Chan] /\ \A k \in Cookie : DownGoes(k)
LevelGoes == \/ UNCHANGED spawncount
             \/ spawncount' = spawncount + 1 /\ \A s \in Slot : ~slot'[s].frames

Going == ClientsGo /\ SlotsGo /\ UpsGo /\ DownsGo /\ LevelGoes

PacketsCalm == \A d \in oob' : PacketOK(d) /\ (d.type \in Connects => d \in oob)

Quiet == /\ Going /\ PacketsCalm
         /\ \A c \in Client : cls'[c].pending = cls[c].pending
         /\ UNCHANGED lastCookie

LEMMA InCookie ==
    ASSUME IInv
    PROVE  /\ \A c \in Client : cls[c].state \in InSession => cls[c].cookie \in Cookie
           /\ \A c \in Client : \A k : InIt(c, k) => k \in Cookie
           /\ \A s \in Slot : slot[s].state \in InGame => slot[s].cookie \in Cookie
           /\ \A s \in Slot : Live(s) => slot[s].cookie \in Cookie
           /\ \A s \in Slot : slot[s].state \in Playing => Live(s)
<1>1. \A c \in Client : cls[c].state \in InSession => cls[c].cookie \in Cookie
  BY DEF IInv, TypeInv, BoundInv, ClientBounds, ClientRecord, Cookie
<1>2. \A s \in Slot : slot[s].state \in InGame => slot[s].cookie \in Cookie
  BY DEF IInv, TypeInv, BoundInv, SlotBounds, SlotRecord, Cookie
<1> QED BY <1>1, <1>2 DEF InIt, Live, IInv, BoundInv, SlotBounds, Playing, InGame

LEMMA OneOwner ==
    ASSUME IInv, NEW c \in Client, NEW e \in Client, c # e, cls[c].cookie \in Cookie
    PROVE  cls[e].cookie # cls[c].cookie
<1>1. \A k \in {cls[c].pending, cls[c].cookie} \cap {cls[e].pending, cls[e].cookie} : k = 0
  BY DEF IInv, OwnerInv
<1>2. cls[e].cookie = cls[c].cookie =>
         cls[c].cookie \in {cls[c].pending, cls[c].cookie} \cap {cls[e].pending, cls[e].cookie}
  OBVIOUS
<1>3. cls[c].cookie # 0
  BY DEF Cookie
<1> QED BY <1>1, <1>2, <1>3

LEMMA OneSlot ==
    ASSUME IInv, NEW s \in Slot, NEW t \in Slot, s # t, slot[s].cookie \in Cookie
    PROVE  slot[t].cookie # slot[s].cookie
  BY DEF IInv, OwnerInv, Cookie

LEMMA GoingUnused ==
    ASSUME IInv, ClientsGo, SlotsGo, UpsGo, DownsGo, NEW k \in Cookie
    PROVE  (Unspawned(k) => Unspawned(k)') /\ (Unused(k) => Unused(k)')
<1>1. ASSUME Unspawned(k) PROVE Unspawned(k)'
  <2>1. \A c \in Client : cls'[c].cookie # k
    BY <1>1 DEF Unspawned, ClientsGo, ClientGoes
  <2>2. \A m \in up'[k].queue : m.what \notin News
    BY <1>1 DEF Unspawned, UpsGo, UpGoes, Tells, InIt
  <2>3. ~Has(down'[k].queue, "resources")
    BY <1>1 DEF Unspawned, DownsGo, DownGoes, Tells, Has, News
  <2>4. \A s \in Slot : slot'[s].cookie = k => slot'[s].state \notin Playing
    BY <1>1 DEF Unspawned, SlotsGo, SlotGoes, Cookie, Has, News
  <2> QED BY <2>1, <2>2, <2>3, <2>4 DEF Unspawned
<1>2. ASSUME Unused(k) PROVE Unused(k)'
  <2>1. \A m \in down'[k].queue : m.what \notin News
    BY <1>2 DEF Unused, DownsGo, DownGoes, Tells
  <2>2. \A s \in Slot : slot'[s].cookie # k
    BY <1>2 DEF Unused, SlotsGo, SlotGoes, Cookie
  <2> QED BY <1>1, <1>2, <2>1, <2>2 DEF Unused
<1> QED BY <1>1, <1>2

\* A live slot after the step was one before it.
LEMMA LiveFacts ==
    ASSUME IInv, Going, NEW s \in Slot, Live(s)'
    PROVE  /\ Live(s) /\ slot'[s].cookie = slot[s].cookie /\ slot[s].cookie \in Cookie
           /\ UNCHANGED spawncount /\ (admitted[s] => admitted'[s])
           /\ slot'[s].state = "connected" => slot[s].state = "connected"
<1>1. slot'[s].state \in InGame /\ slot'[s].frames
  BY DEF Live
<1> QED BY <1>1, InCookie DEF Going, SlotsGo, SlotGoes, LevelGoes

\* Nothing begins in a live session without the level's data.
LEMMA BegunFacts ==
    ASSUME IInv, Going, NEW s \in Slot, Live(s)', Begun(s)'
    PROVE  \/ Begun(s)
           \/ \E c \in Client : /\ InIt(c, slot[s].cookie)
                                /\ Tells(down[slot[s].cookie].queue, "serverdata",
                                         cls'[c].servercount)
<1> DEFINE k == slot[s].cookie
<1>1. slot'[s].cookie = k /\ k \in Cookie
  BY LiveFacts
<1>2. CASE slot'[s].state \in Playing
  BY <1>2 DEF Going, SlotsGo, SlotGoes, Begun
<1>3. CASE Has(up'[k].queue, "sendres")
  BY <1>1, <1>3 DEF Going, UpsGo, UpGoes, Begun, Has, Tells, News
<1>4. CASE Has(up'[k].queue, "spawn")
  BY <1>1, <1>4 DEF Going, UpsGo, UpGoes, Begun, Has, Tells, News
<1>5. CASE Has(down'[k].queue, "resources")
  BY <1>1, <1>5 DEF Going, DownsGo, DownGoes, Begun, Has, Tells, News
<1>6. CASE \E c \in Client : cls'[c].state = "validate" /\ cls'[c].cookie = k
  BY <1>6 DEF Going, ClientsGo, ClientGoes, Begun, InIt, InSession, InSignon
<1> QED BY <1>1, <1>2, <1>3, <1>4, <1>5, <1>6 DEF Begun, InIt

LEMMA GoingAdmitted == IInv /\ Going => AdmittedInv'
<1> SUFFICES ASSUME IInv, Going PROVE AdmittedInv'
  OBVIOUS
<1> SUFFICES ASSUME NEW s \in Slot, Live(s)',
                    Begun(s)' \/ Has(down'[slot'[s].cookie].queue, "serverdata")
             PROVE  admitted'[s]
  BY DEF AdmittedInv, Live, Begun, InIt
<1> DEFINE k == slot[s].cookie
<1>1. Live(s) /\ slot'[s].cookie = k /\ k \in Cookie /\ (admitted[s] => admitted'[s])
  BY LiveFacts
<1>2. Begun(s) \/ Has(down[k].queue, "serverdata") => admitted[s]
  BY <1>1 DEF IInv, AdmittedInv
<1>3. CASE Begun(s)'
  BY <1>1, <1>2, <1>3, BegunFacts DEF Has, Tells
<1>4. CASE Has(down'[k].queue, "serverdata")
  <2>1. PICK m \in down'[k].queue : m.what = "serverdata"
    BY <1>4 DEF Has
  <2>2. CASE Tells(down[k].queue, "serverdata", m.level)
    BY <1>1, <1>2, <2>2 DEF Has, Tells
  <2>3. CASE \E t \in Slot : slot[t].cookie = k /\ admitted'[t]
    BY <1>1, <2>3, OneSlot
  <2> QED BY <1>1, <2>1, <2>2, <2>3 DEF Going, DownsGo, DownGoes, News
<1> QED BY <1>1, <1>3, <1>4

LEMMA GoingLevel == IInv /\ Going => LevelInv'
<1> SUFFICES ASSUME IInv, Going PROVE LevelInv'
  OBVIOUS
<1> SUFFICES ASSUME NEW s \in Slot, Live(s)'
             PROVE  LET k == slot'[s].cookie
                    IN  /\ \A m \in up'[k].queue : m.what = "spawn" => m.level = spawncount'
                        /\ \A m \in down'[k].queue : m.what = "serverdata" => m.level = spawncount'
                        /\ \A c \in Client : cls'[c].state \in InSession /\ cls'[c].cookie = k =>
                              /\ cls'[c].servercount \in {0, spawncount'}
                              /\ Begun(s)' => cls'[c].servercount = spawncount'
  BY DEF LevelInv, Live, InIt, Begun
<1> DEFINE k == slot[s].cookie
<1>1. Live(s) /\ slot'[s].cookie = k /\ k \in Cookie /\ UNCHANGED spawncount
  BY LiveFacts
<1>2. /\ \A m \in up[k].queue : m.what = "spawn" => m.level = spawncount
      /\ \A m \in down[k].queue : m.what = "serverdata" => m.level = spawncount
      /\ \A c \in Client : InIt(c, k) => /\ cls[c].servercount \in {0, spawncount}
                                         /\ Begun(s) => cls[c].servercount = spawncount
  BY <1>1 DEF IInv, LevelInv
<1>3. \A c \in Client : InIt(c, k) /\ cls[c].state = "validate" => Begun(s)
  BY DEF Begun
<1>4. \A m \in up'[k].queue : m.what = "spawn" => m.level = spawncount
  BY <1>1, <1>2, <1>3 DEF Going, UpsGo, UpGoes, Tells, News
<1>5. \A m \in down'[k].queue : m.what = "serverdata" => m.level = spawncount
  BY <1>1, <1>2 DEF Going, DownsGo, DownGoes, Tells, News
<1>6. ASSUME NEW c \in Client, cls'[c].state \in InSession, cls'[c].cookie = k
      PROVE  /\ cls'[c].servercount \in {0, spawncount}
             /\ Begun(s)' => cls'[c].servercount = spawncount
  <2>1. /\ InIt(c, k) /\ cls[c].cookie = k
        /\ \/ cls'[c].servercount = cls[c].servercount
           \/ Tells(down[k].queue, "serverdata", cls'[c].servercount)
    BY <1>6 DEF Going, ClientsGo, ClientGoes, InIt
  <2>2. CASE Tells(down[k].queue, "serverdata", cls'[c].servercount)
    BY <1>2, <2>2 DEF Tells
  <2>3. CASE cls'[c].servercount = cls[c].servercount
    <3>1. \A e \in Client : InIt(e, k) => e = c
      BY <1>1, <2>1, OneOwner DEF InIt
    <3> QED BY <1>2, <2>1, <2>2, <2>3, <3>1, BegunFacts
  <2> QED BY <2>1, <2>2, <2>3
<1> QED BY <1>1, <1>4, <1>5, <1>6

LEMMA GoingSignon == IInv /\ Going => SignonInv'
<1> SUFFICES ASSUME IInv, Going PROVE SignonInv'
  OBVIOUS
<1>1. \A k \in Cookie : Single(down'[k].queue)
  BY DEF IInv, SignonInv, Going, DownsGo, DownGoes
\* A signon is sent by a slot in "connected", which leaves that state.
<1>2. ASSUME NEW k \in Cookie, Has(down'[k].queue, "signon")
      PROVE  \/ Has(down[k].queue, "signon")
             \/ \E s \in Slot : /\ Live(s) /\ slot[s].cookie = k
                                /\ slot[s].state = "connected" /\ slot'[s].state # "connected"
  BY <1>2 DEF Going, DownsGo, DownGoes, Has, Tells, News
<1>3. ASSUME NEW k \in Cookie, NEW c \in Client, Replied(c, k)'
      PROVE  \/ Replied(c, k)
             \/ Has(down[k].queue, "signon") /\ ~Has(down'[k].queue, "signon")
  BY <1>3 DEF Going, ClientsGo, ClientGoes, Replied, InIt
<1>4. \A k \in Cookie, c \in Client : Replied(c, k)' => ~Has(down'[k].queue, "signon")
  BY <1>2, <1>3 DEF IInv, SignonInv
<1>5. ASSUME NEW s \in Slot, Live(s)', slot'[s].state = "connected"
      PROVE  /\ ~Has(down'[slot'[s].cookie].queue, "signon")
             /\ \A c \in Client : ~Replied(c, slot[s].cookie)'
  <2> DEFINE k == slot[s].cookie
  <2>1. Live(s) /\ slot'[s].cookie = k /\ k \in Cookie /\ slot[s].state = "connected"
    BY <1>5, LiveFacts
  <2>2. ~Has(down[k].queue, "signon") /\ \A c \in Client : ~Replied(c, k)
    BY <2>1 DEF IInv, SignonInv
  <2>3. \A t \in Slot : slot[t].cookie = k => t = s
    BY <2>1, OneSlot
  <2>4. ~Has(down'[k].queue, "signon")
    BY <1>2, <1>5, <2>1, <2>2, <2>3
  <2>5. \A c \in Client : ~Replied(c, k)'
    BY <1>3, <2>1, <2>2
  <2> QED BY <2>1, <2>4, <2>5
<1> QED BY <1>1, <1>4, <1>5 DEF SignonInv, Live, Replied, InIt

\* The bounds of the records, for a step that draws no cookie or one.
LEMMA GoingBounds ==
    ASSUME IInv, Going, lastCookie' \in Nat, lastCookie <= lastCookie',
           \A c \in Client : /\ cls'[c].pending <= lastCookie'
                             /\ cls'[c].state \in InSession => cls'[c].pending = cls[c].pending,
           \A d \in oob' : d.type \in Connects => d.cookie <= lastCookie'
    PROVE  BoundInv'
<1> USE DEF IInv, TypeInv
<1>0. spawncount' \in Nat /\ spawncount <= spawncount'
  BY DEF Going, LevelGoes
<1>1. ASSUME NEW c \in Client PROVE ClientBounds(c)'
  <2>1. ClientBounds(c) /\ cls[c] \in ClientRecord /\ cls'[c] \in ClientRecord /\ ClientGoes(c)
    BY DEF BoundInv, Going, ClientsGo
  <2>2. cls'[c].servercount <= spawncount'
    <3>1. CASE cls'[c].servercount \in {0, cls[c].servercount}
      BY <1>0, <2>1, <3>1 DEF ClientBounds, ClientRecord
    <3>2. CASE cls[c].state \in InSession /\ Tells(down[cls[c].cookie].queue, "serverdata",
                                                  cls'[c].servercount)
      BY <1>0, <2>1, <3>2, InCookie DEF BoundInv, Tells, ClientRecord
    <3> QED BY <2>1, <3>1, <3>2 DEF ClientGoes
  <2> QED BY <2>1, <2>2 DEF ClientBounds, ClientGoes, ClientRecord
<1>2. ASSUME NEW s \in Slot PROVE SlotBounds(s)'
  BY DEF BoundInv, SlotBounds, SlotRecord, Going, SlotsGo, SlotGoes
<1>3. ASSUME NEW k \in Cookie, NEW m \in down'[k].queue, m.what = "serverdata"
      PROVE  m.level <= spawncount'
  <2>1. \A r \in down[k].queue : r.what = "serverdata" => r.level <= spawncount
    BY DEF BoundInv
  <2>2. Tells(down[k].queue, "serverdata", m.level) \/ m.level = spawncount
    BY <1>3 DEF Going, DownsGo, DownGoes, News
  <2>3. m.level \in Nat
    BY <1>3, ChanType DEF Going, DownsGo, Message
  <2> QED BY <1>0, <2>1, <2>2, <2>3 DEF Tells
<1> QED BY <1>1, <1>2, <1>3 DEF BoundInv

LEMMA QuietStep == IInv /\ Quiet => IInv'
<1> SUFFICES ASSUME IInv, Quiet PROVE IInv'
  OBVIOUS
<1>1. TypeInv'
  BY DEF TypeInv, IInv, Quiet, Going, ClientsGo, SlotsGo, UpsGo, DownsGo, LevelGoes, PacketsCalm
<1>2. BoundInv'
  <2>1. lastCookie' \in Nat /\ lastCookie <= lastCookie'
    BY HandshakeAssumption DEF IInv, TypeInv, Quiet
  <2>2. \A c \in Client : cls'[c].pending <= lastCookie' /\ cls'[c].pending = cls[c].pending
    BY DEF IInv, BoundInv, ClientBounds, Quiet
  <2>3. \A d \in oob' : d.type \in Connects => d.cookie <= lastCookie'
    BY DEF IInv, BoundInv, Quiet, PacketsCalm
  <2> QED BY <2>1, <2>2, <2>3, GoingBounds DEF Quiet
<1>3. OwnerInv'
  BY DEF TypeInv, IInv, OwnerInv, Quiet, Going, ClientsGo, ClientGoes, SlotsGo, SlotGoes, PacketsCalm
<1>4. FreshInv'
  BY GoingUnused DEF IInv, FreshInv, Quiet, Going, PacketsCalm, PacketOK, Connects
<1> QED BY <1>1, <1>2, <1>3, <1>4, GoingAdmitted, GoingLevel, GoingSignon DEF IInv, Quiet

-----------------------------------------------------------------------------
(***************************************************************************)
(* What the actions are made of.                                           *)
(***************************************************************************)
LEMMA Unchanging ==
    ASSUME IInv
    PROVE  /\ UNCHANGED cls => ClientsGo /\ \A c \in Client : cls'[c].pending = cls[c].pending
           /\ UNCHANGED <<slot, admitted>> => SlotsGo
           /\ UNCHANGED spawncount => LevelGoes
           /\ UNCHANGED oob => PacketsCalm
           /\ UNCHANGED up => UpsGo
           /\ UNCHANGED down => DownsGo
<1>1. UNCHANGED cls => ClientsGo /\ \A c \in Client : cls'[c].pending = cls[c].pending
  BY DEF IInv, TypeInv, BoundInv, ClientBounds, ClientsGo, ClientGoes
<1>2. UNCHANGED <<slot, admitted>> => SlotsGo
  BY InCookie DEF IInv, TypeInv, SlotsGo, SlotGoes, Live
<1>3. UNCHANGED oob => PacketsCalm
  BY DEF IInv, TypeInv, PacketsCalm
<1>4. UNCHANGED up => UpsGo
  BY DEF IInv, TypeInv, UpsGo, UpGoes, Tells
<1>5. UNCHANGED down => DownsGo
  BY DEF IInv, TypeInv, DownsGo, DownGoes, Tells
<1> QED BY <1>1, <1>2, <1>3, <1>4, <1>5 DEF LevelGoes

\* All directions that change do so calmly.
LEMMA CalmGoes ==
    ASSUME IInv
    PROVE  /\ up' \in [Cookie -> Chan] /\ (\A k \in Cookie : Calm(up'[k], up[k])) => UpsGo
           /\ down' \in [Cookie -> Chan] /\ (\A k \in Cookie : Calm(down'[k], down[k])) => DownsGo
  BY DEF UpsGo, UpGoes, DownsGo, DownGoes, Calm, NoNews

\* A direction of one session that changes.
LEMMA OneUp ==
    ASSUME IInv, NEW k, NEW ch \in Chan, up' = [up EXCEPT ![k] = ch],
           k \in Cookie => Calm(ch, up[k]) \/ UpGoes(k)
    PROVE  UpsGo
<1>1. up \in [Cookie -> Chan]
  BY DEF IInv, TypeInv
<1>2. ASSUME NEW j \in Cookie PROVE UpGoes(j)
  <2>1. CASE j = k
    BY <1>1, <2>1 DEF UpGoes, Calm, NoNews
  <2>2. CASE j # k
    BY <1>1, <2>2 DEF UpGoes, Tells
  <2> QED BY <2>1, <2>2
<1> QED BY <1>1, <1>2 DEF UpsGo

LEMMA OneDown ==
    ASSUME IInv, NEW k, NEW ch \in Chan, down' = [down EXCEPT ![k] = ch],
           k \in Cookie => Calm(ch, down[k]) \/ DownGoes(k)
    PROVE  DownsGo
<1>1. down \in [Cookie -> Chan]
  BY DEF IInv, TypeInv
<1>2. ASSUME NEW j \in Cookie PROVE DownGoes(j)
  <2>1. CASE j = k
    BY <1>1, <2>1 DEF DownGoes, Calm, NoNews
  <2>2. CASE j # k
    BY <1>1, <2>2 DEF DownGoes, Tells
  <2> QED BY <2>1, <2>2
<1> QED BY <1>1, <1>2 DEF DownsGo

LEMMA WithFacts ==
    ASSUME NEW net, NEW a, NEW n \in With(net, a)
    PROVE  n \subseteq net \cup {a}
  BY DEF With

LEMMA SentCalm ==
    ASSUME IInv, NEW net, net \subseteq oob, NEW a, PacketOK(a), a.type \notin Connects,
           oob' \in With(net, a)
    PROVE  PacketsCalm
  BY WithFacts DEF IInv, TypeInv, PacketsCalm

LEMMA ReceivedCalm ==
    ASSUME IInv, NEW d, Received(d)
    PROVE  PacketsCalm
  BY DEF IInv, TypeInv, PacketsCalm, Received

LEMMA RecordFacts ==
    ASSUME NEW y \in ClientRecord
    PROVE  /\ \A x \in {"disconnected", "connecting"} \cup InSession :
                 [y EXCEPT !.state = x] \in ClientRecord
           /\ \A x \in 0 .. ConnectionRetries : [y EXCEPT !.connect_retry = x] \in ClientRecord
           /\ \A x \in {"none", "started", "passed", "failed"} : [y EXCEPT !.test = x] \in ClientRecord
           /\ \A x \in 0 .. TestRetries : [y EXCEPT !.test_retry = x] \in ClientRecord
           /\ \A x \in Nat : [y EXCEPT !.challenge = x] \in ClientRecord
           /\ \A x \in 0 .. 2 : [y EXCEPT !.signon = x] \in ClientRecord
           /\ \A x \in BOOLEAN : [y EXCEPT !.reconnect = x] \in ClientRecord
           /\ \A x \in BOOLEAN : [y EXCEPT !.prepped = x] \in ClientRecord
           /\ \A x \in Nat : [y EXCEPT !.servercount = x] \in ClientRecord
<1>1. \A x \in {"disconnected", "connecting"} \cup InSession : [y EXCEPT !.state = x] \in ClientRecord
  BY DEF ClientRecord, InSession
<1>2. \A x \in 0 .. ConnectionRetries : [y EXCEPT !.connect_retry = x] \in ClientRecord
  BY DEF ClientRecord
<1>3. \A x \in {"none", "started", "passed", "failed"} : [y EXCEPT !.test = x] \in ClientRecord
  BY DEF ClientRecord
<1>4. \A x \in 0 .. TestRetries : [y EXCEPT !.test_retry = x] \in ClientRecord
  BY DEF ClientRecord
<1>5. \A x \in Nat : [y EXCEPT !.challenge = x] \in ClientRecord
  BY DEF ClientRecord
<1>6. \A x \in 0 .. 2 : [y EXCEPT !.signon = x] \in ClientRecord
  BY DEF ClientRecord
<1>7. \A x \in BOOLEAN : [y EXCEPT !.reconnect = x] \in ClientRecord
  BY DEF ClientRecord
<1>8. \A x \in BOOLEAN : [y EXCEPT !.prepped = x] \in ClientRecord
  BY DEF ClientRecord
<1>9. \A x \in Nat : [y EXCEPT !.servercount = x] \in ClientRecord
  BY DEF ClientRecord
<1> QED BY <1>1, <1>2, <1>3, <1>4, <1>5, <1>6, <1>7, <1>8, <1>9

LEMMA SlotRecordFacts ==
    ASSUME IInv, NEW s \in Slot
    PROVE  /\ \A x \in {"zombie"} \cup InGame :
                 /\ [slot[s] EXCEPT !.state = x] \in SlotRecord
                 /\ [slot[s] EXCEPT !.state = x].state = x
                 /\ [slot[s] EXCEPT !.state = x].cookie = slot[s].cookie
                 /\ [slot[s] EXCEPT !.state = x].frames = slot[s].frames
           /\ \A x \in BOOLEAN :
                 /\ [slot[s] EXCEPT !.resources = x] \in SlotRecord
                 /\ [slot[s] EXCEPT !.resources = x].state = slot[s].state
                 /\ [slot[s] EXCEPT !.resources = x].cookie = slot[s].cookie
                 /\ [slot[s] EXCEPT !.resources = x].frames = slot[s].frames
<1>1. slot[s] \in SlotRecord
  BY DEF IInv, TypeInv
<1>2. \A y \in SlotRecord, x \in {"zombie"} \cup InGame : [y EXCEPT !.state = x] \in SlotRecord
  BY DEF SlotRecord, InGame
<1>3. \A y \in SlotRecord, x \in BOOLEAN : [y EXCEPT !.resources = x] \in SlotRecord
  BY DEF SlotRecord
<1>4. \A y \in SlotRecord : \A x :
         /\ [y EXCEPT !.state = x].state = x
         /\ [y EXCEPT !.state = x].cookie = y.cookie
         /\ [y EXCEPT !.state = x].frames = y.frames
         /\ [y EXCEPT !.resources = x].state = y.state
         /\ [y EXCEPT !.resources = x].cookie = y.cookie
         /\ [y EXCEPT !.resources = x].frames = y.frames
  BY DEF SlotRecord
<1> QED BY <1>1, <1>2, <1>3, <1>4

LEMMA LeftFacts ==
    ASSUME NEW y \in ClientRecord
    PROVE  /\ Left(y) \in ClientRecord
           /\ Left(y).state = "disconnected" /\ Left(y).servercount = 0
           /\ Left(y).cookie = y.cookie /\ Left(y).pending = y.pending
<1> DEFINE a == [y EXCEPT !.state = "disconnected", !.connect_retry = 0]
           b == [a EXCEPT !.test = "none", !.test_retry = 0]
           d == [b EXCEPT !.challenge = 0, !.signon = 0]
<1>1. Left(y) = [d EXCEPT !.servercount = 0, !.prepped = FALSE]
  BY DEF Left, ClientRecord
<1>2. 0 \in 0 .. ConnectionRetries /\ 0 \in 0 .. TestRetries
  BY HandshakeAssumption
<1>3. a \in ClientRecord
  BY <1>2 DEF ClientRecord
<1>4. a.state = "disconnected" /\ a.cookie = y.cookie /\ a.pending = y.pending
  BY DEF ClientRecord
<1> HIDE DEF a
<1>5. b \in ClientRecord
  BY <1>2, <1>3 DEF ClientRecord
<1>6. b.state = "disconnected" /\ b.cookie = y.cookie /\ b.pending = y.pending
  BY <1>3, <1>4 DEF ClientRecord
<1> HIDE DEF b
<1>7. d \in ClientRecord
  <2>1. [b EXCEPT !.challenge = 0] \in ClientRecord
    BY <1>5, RecordFacts
  <2>2. \A x \in ClientRecord : [x EXCEPT !.signon = 0] \in ClientRecord
    BY DEF ClientRecord
  <2>3. d = [[b EXCEPT !.challenge = 0] EXCEPT !.signon = 0]
    BY <1>5 DEF ClientRecord
  <2> QED BY <2>1, <2>2, <2>3
<1>8. d.state = "disconnected" /\ d.cookie = y.cookie /\ d.pending = y.pending
  BY <1>5, <1>6 DEF ClientRecord
<1> HIDE DEF d
<1>9. Left(y) \in ClientRecord
  <2>1. [d EXCEPT !.servercount = 0] \in ClientRecord
    BY <1>7, RecordFacts
  <2>2. \A x \in ClientRecord : [x EXCEPT !.prepped = FALSE] \in ClientRecord
    BY DEF ClientRecord
  <2>3. Left(y) = [[d EXCEPT !.servercount = 0] EXCEPT !.prepped = FALSE]
    BY <1>1, <1>7 DEF ClientRecord
  <2> QED BY <2>1, <2>2, <2>3
<1> QED BY <1>1, <1>7, <1>8, <1>9 DEF ClientRecord

\* One client's record changes.
LEMMA BecomeGoes ==
    ASSUME IInv, NEW c \in Client, NEW r \in ClientRecord, Become(c, r),
           r.cookie = cls[c].cookie, r.pending = cls[c].pending, cls'[c] = r => ClientGoes(c)
    PROVE  ClientsGo /\ \A e \in Client : cls'[e].pending = cls[e].pending
<1>1. cls' \in [Client -> ClientRecord] /\ cls'[c] = r /\ \A e \in Client \ {c} : cls'[e] = cls[e]
  BY DEF Become, IInv, TypeInv
<1>2. \A e \in Client \ {c} : ClientGoes(e)
  BY <1>1 DEF ClientGoes, IInv, BoundInv, ClientBounds
<1> QED BY <1>1, <1>2 DEF ClientsGo

\* A client that stays in its session, or out of it.
LEMMA StayQuiet ==
    ASSUME IInv, NEW c \in Client, NEW r \in ClientRecord, Become(c, r),
           r.cookie = cls[c].cookie, r.pending = cls[c].pending,
           r.state \in InSession <=> cls[c].state \in InSession,
           r.state = "validate" => cls[c].state = "validate",
           r.servercount = cls[c].servercount,
           r.signon >= 1 => cls[c].signon >= 1,
           PacketsCalm, UpsGo, DownsGo, UNCHANGED <<lastCookie, serverVars>>
    PROVE  Quiet
<1>1. cls'[c] = r => ClientGoes(c)
  BY DEF ClientGoes, IInv, BoundInv, ClientBounds
<1>2. ClientsGo /\ \A e \in Client : cls'[e].pending = cls[e].pending
  BY <1>1, BecomeGoes
<1> QED BY <1>2, Unchanging DEF Quiet, Going, serverVars

LEMMA LeaveCalm ==
    ASSUME IInv, NEW c \in Client, NEW r \in ClientRecord, r.cookie = cls[c].cookie, Leave(c, r)
    PROVE  UpsGo /\ DownsGo
<1> DEFINE k == r.cookie
<1>1. CASE UNCHANGED sessionVars
  BY <1>1, Unchanging DEF sessionVars
<1>2. CASE ~UNCHANGED sessionVars
  <2>1. k \in Cookie /\ up \in [Cookie -> Chan] /\ down \in [Cookie -> Chan]
    BY <1>2 DEF Leave, IInv, TypeInv, ClientRecord, Cookie
  <2>2. PICK fate \in Fate :
           ToServer(k, Send(Without(Cleared(up[k], fate), "disconnect"), "disconnect", 0))
    BY <1>2 DEF Leave
  <2> DEFINE a == Cleared(up[k], fate)
             b == Without(a, "disconnect")
             e == Send(b, "disconnect", 0)
  <2>3. Calm(a, up[k]) /\ a \in Chan
    BY <2>1, CalmCleared DEF Calm
  <2> HIDE DEF a
  <2>4. Calm(b, a) /\ b \in Chan
    BY <2>3, CalmWithout DEF Calm
  <2> HIDE DEF b
  <2>5. "disconnect" \in Command \ News /\ 0 \in Nat
    BY DEF Command, News, Unreliable
  <2>6. Calm(e, b)
    BY <2>4, <2>5, CalmSend
  <2> HIDE DEF e
  <2>7. Calm(e, up[k])
    BY <2>3, <2>4, <2>6, CalmTrans
  <2>8. PICK y \in {e, Silent} : up' = [up EXCEPT ![k] = y]
    BY <2>2 DEF ToServer, a, b, e
  <2>9. Calm(y, up[k]) /\ y \in Chan
    BY <2>7, <2>8, CalmSilent DEF Calm
  <2>10. down' = [down EXCEPT ![k] = Silent]
    BY <1>2 DEF Leave
  <2> QED BY <2>1, <2>8, <2>9, <2>10, OneUp, OneDown, CalmSilent
<1> QED BY <1>1, <1>2

\* Both ways to leave.
LEMMA LeaveQuiet ==
    ASSUME IInv, NEW c \in Client, NEW y \in ClientRecord,
           y.cookie = cls[c].cookie, y.pending = cls[c].pending,
           Leave(c, Left(y)) \/ Leave(c, [Left(y) EXCEPT !.state = "connecting"]),
           PacketsCalm, UNCHANGED <<lastCookie, serverVars>>
    PROVE  Quiet
<1>1. PICK r \in ClientRecord :
         /\ Leave(c, r) /\ r.state \notin InSession /\ r.servercount = 0
         /\ r.cookie = cls[c].cookie /\ r.pending = cls[c].pending
  <2>1. Left(y) \in ClientRecord /\ Left(y).state \notin InSession
    BY LeftFacts DEF InSession, InSignon
  <2>2. /\ [Left(y) EXCEPT !.state = "connecting"] \in ClientRecord
        /\ [Left(y) EXCEPT !.state = "connecting"].state \notin InSession
        /\ [Left(y) EXCEPT !.state = "connecting"].servercount = Left(y).servercount
        /\ [Left(y) EXCEPT !.state = "connecting"].cookie = Left(y).cookie
        /\ [Left(y) EXCEPT !.state = "connecting"].pending = Left(y).pending
    <3> DEFINE l == Left(y)
    <3> HIDE DEF l
    <3>1. l \in ClientRecord
      BY <2>1 DEF l
    <3>2. [l EXCEPT !.state = "connecting"] \in ClientRecord
      BY <3>1, RecordFacts
    <3> QED BY <3>1, <3>2 DEF ClientRecord, InSession, InSignon, l
  <2>3. CASE Leave(c, Left(y))
    BY <2>1, <2>3, LeftFacts
  <2>4. CASE Leave(c, [Left(y) EXCEPT !.state = "connecting"])
    <3> DEFINE r == [Left(y) EXCEPT !.state = "connecting"]
    <3>1. /\ r \in ClientRecord /\ r.state \notin InSession /\ r.servercount = 0
          /\ r.cookie = cls[c].cookie /\ r.pending = cls[c].pending
      BY <2>2, LeftFacts
    <3> HIDE DEF r
    <3> QED BY <2>4, <3>1 DEF r
  <2> QED BY <2>3, <2>4
<1>2. cls'[c] = r => ClientGoes(c)
  BY <1>1 DEF ClientGoes
<1>3. ClientsGo /\ \A e \in Client : cls'[e].pending = cls[e].pending
  BY <1>1, <1>2, BecomeGoes DEF Leave
<1>4. UpsGo /\ DownsGo
  BY <1>1, LeaveCalm
<1> QED BY <1>3, <1>4, Unchanging DEF Quiet, Going, serverVars

LEMMA DisconnectQuiet ==
    ASSUME IInv, NEW c \in Client, Disconnect(c) \/ ConnectAnew(c),
           PacketsCalm, UNCHANGED <<lastCookie, serverVars>>
    PROVE  Quiet
  BY LeaveQuiet DEF Disconnect, ConnectAnew, IInv, TypeInv

-----------------------------------------------------------------------------
(***************************************************************************)
(* A cookie is drawn, and a session set up at either end.                  *)
(***************************************************************************)
LEMMA DrawStep ==
    ASSUME IInv, NEW c \in Client, NEW r \in ClientRecord,
           r.cookie = cls[c].cookie, r.pending = cls[c].pending,
           r.servercount = cls[c].servercount, r.state \notin InSession,
           cls[c].state \notin InSession,
           DrawCookie(c, r), UNCHANGED serverVars,
           \A d \in oob' : d \in oob \/ d = ConnectPacket(c, r)
    PROVE  IInv'
<1> DEFINE new == lastCookie + 1
<1>1. /\ lastCookie' = new /\ new \in Cookie /\ lastCookie \in Nat /\ lastCookie <= MaxCookie
      /\ cls' = [cls EXCEPT ![c] = [r EXCEPT !.pending = new]]
  BY HandshakeAssumption DEF DrawCookie, Become, IInv, TypeInv, Cookie
<1>2. Going /\ \A e \in Client : cls'[e].pending = IF e = c THEN new ELSE cls[e].pending
  <2>1. r.servercount = 0
    BY DEF IInv, BoundInv, ClientBounds
  <2>2. [r EXCEPT !.pending = new] \in ClientRecord
    BY <1>1 DEF ClientRecord, Cookie
  <2>3. /\ cls' \in [Client -> ClientRecord]
        /\ cls'[c].cookie = cls[c].cookie /\ cls'[c].state = r.state
        /\ cls'[c].servercount = 0 /\ cls'[c].pending = new
        /\ \A e \in Client \ {c} : cls'[e] = cls[e]
    BY <1>1, <2>1, <2>2 DEF IInv, TypeInv, ClientRecord
  <2>4. ClientsGo
    <3>1. ClientGoes(c)
      BY <2>3 DEF ClientGoes
    <3>2. \A e \in Client \ {c} : ClientGoes(e)
      BY <2>3 DEF ClientGoes, IInv, BoundInv, ClientBounds
    <3> QED BY <2>3, <3>1, <3>2 DEF ClientsGo
  <2>5. DownsGo
    <3>1. down \in [Cookie -> Chan]
      BY DEF IInv, TypeInv
    <3>2. \A k \in Cookie : Calm(down[k], down[k]) /\ Calm(Silent, down[k])
      BY <3>1, CalmSilent, CalmRefl
    <3>3. down' \in [Cookie -> Chan] /\ \A k \in Cookie : down'[k] \in {Silent, down[k]}
      BY <3>1, CalmSilent DEF DrawCookie
    <3> QED BY <3>2, <3>3, CalmGoes
  <2> QED BY <2>3, <2>4, <2>5, Unchanging DEF Going, DrawCookie, serverVars
<1>3. TypeInv'
  <2>1. \A d \in oob' : PacketOK(d)
    BY <1>1 DEF IInv, TypeInv, PacketOK, ConnectPacket, Connects, Cookie
  <2> QED BY <1>1, <1>2, <2>1
     DEF IInv, TypeInv, Going, ClientsGo, SlotsGo, UpsGo, DownsGo, LevelGoes, serverVars, Cookie
<1>4. \A d \in oob' : d.type \in Connects => d \in oob \/ d.cookie = new
  BY DEF ConnectPacket
<1>5. BoundInv'
  <2>1. /\ lastCookie' \in Nat /\ lastCookie <= lastCookie'
    BY <1>1
  <2>2. \A e \in Client : /\ cls'[e].pending <= lastCookie'
                          /\ cls'[e].state \in InSession => cls'[e].pending = cls[e].pending
    <3>1. cls'[c].state \notin InSession
      BY <1>1 DEF IInv, TypeInv, ClientRecord
    <3>2. \A e \in Client : cls[e].pending \in Nat /\ cls[e].pending <= lastCookie
      BY DEF IInv, TypeInv, BoundInv, ClientBounds, ClientRecord
    <3> QED BY <1>1, <1>2, <3>1, <3>2
  <2>3. \A d \in oob' : d.type \in Connects => d.cookie <= lastCookie'
    BY <1>1, <1>4 DEF IInv, TypeInv, BoundInv, PacketOK, Cookie
  <2> QED BY <1>2, <2>1, <2>2, <2>3, GoingBounds
<1>6. OwnerInv'
  <2>1. \A e \in Client : /\ cls[e].pending < new /\ cls[e].cookie < new
                          /\ cls[e].pending \in Nat /\ cls[e].cookie \in Nat
                          /\ cls'[e].cookie = cls[e].cookie
                          /\ cls'[e].pending = IF e = c THEN new ELSE cls[e].pending
    BY <1>1, <1>2 DEF IInv, TypeInv, BoundInv, ClientBounds, ClientRecord, Going, ClientsGo, ClientGoes
  <2>2. \A e, f \in Client : e # f =>
           \A k \in {cls'[e].pending, cls'[e].cookie} \cap {cls'[f].pending, cls'[f].cookie} : k = 0
    BY <1>1, <2>1 DEF IInv, OwnerInv
  <2>3. \A d \in oob : d.type \in Connects => d.cookie # new
    BY <1>1 DEF IInv, TypeInv, BoundInv, PacketOK, Cookie
  <2>4. \A d \in oob' : d.type \in Connects /\ d.cookie = new => d = ConnectPacket(c, r)
    BY <2>3
  <2>5. \A d, e \in oob' : {d.type, e.type} \subseteq Connects /\ d.cookie = e.cookie => d = e
    BY <1>4, <2>4 DEF IInv, OwnerInv
  <2> QED BY <2>2, <2>5 DEF IInv, OwnerInv, serverVars
<1>7. FreshInv'
  <2>1. \A k \in Cookie : Unused(k) => Unused(k)'
    BY <1>2, GoingUnused DEF Going
  <2>2. \A k \in Cookie : Unspawned(k) => Unspawned(k)'
    BY <1>2, GoingUnused DEF Going
  <2>3. \A k \in Cookie : k > lastCookie => Unused(k)
    BY DEF IInv, FreshInv
  <2>4. \A k \in Cookie : k = new => Unused(k)'
    BY <1>1, <2>1, <2>3 DEF Cookie
  <2>5. \A d \in oob' : /\ d.type = "connect" => Unused(d.cookie)'
                        /\ d.type = "client_connect" => Unspawned(d.cookie)'
    <3>1. ASSUME NEW d \in oob' PROVE /\ d.type = "connect" => Unused(d.cookie)'
                                      /\ d.type = "client_connect" => Unspawned(d.cookie)'
      <4>1. CASE d \in oob
        <5>1. /\ d.type = "connect" => Unused(d.cookie)
              /\ d.type = "client_connect" => Unspawned(d.cookie)
              /\ d.type \in {"connect", "client_connect"} => d.cookie \in Cookie
          BY <4>1 DEF IInv, TypeInv, FreshInv, PacketOK, Connects
        <5> QED BY <2>1, <2>2, <5>1
      <4>2. CASE d = ConnectPacket(c, r)
        BY <1>1, <2>4, <4>2 DEF ConnectPacket
      <4> QED BY <4>1, <4>2
    <3> QED BY <3>1
  <2>6. \A k \in Cookie : k > lastCookie' => Unused(k)'
    BY <1>1, <2>1, <2>3 DEF Cookie
  <2> QED BY <2>5, <2>6 DEF FreshInv, Unused, Unspawned
<1> QED BY <1>2, <1>3, <1>5, <1>6, <1>7, GoingAdmitted, GoingLevel, GoingSignon DEF IInv

\* The step of an end that takes a session up.  No cookie is drawn.
LEMMA ClientConnectStep ==
    ASSUME IInv, NEW c \in Client, NEW d \in oob, ClientConnect(c, d)
    PROVE  IInv'
<1> DEFINE k == cls[c].pending
           r == [cls[c] EXCEPT !.cookie = k, !.state = "connected", !.signon = 0]
<1> USE DEF IInv
<1>1. /\ d.type = "client_connect" /\ d.cookie = k /\ k \in Cookie /\ k <= lastCookie
      /\ Unspawned(k)
  BY DEF ClientConnect, TypeInv, BoundInv, ClientBounds, FreshInv, PacketOK, Connects
<1>2. cls[c] \in ClientRecord /\ cls[c].servercount = 0
  BY <1>1 DEF TypeInv, BoundInv, ClientBounds, Unspawned
<1>3. /\ cls' = [cls EXCEPT ![c] = r] /\ oob' = oob \ {d}
      /\ UNCHANGED <<lastCookie, slot, admitted, spawncount, down>>
      /\ \E x \in {Send(Silent, "new", 0), Silent} : up' = [up EXCEPT ![k] = x]
  <2>1. [[cls[c] EXCEPT !.cookie = k] EXCEPT !.state = "connected", !.signon = 0] = r
    BY <1>2 DEF ClientRecord
  <2>2. [cls[c] EXCEPT !.cookie = k].cookie = k
    BY <1>2 DEF ClientRecord
  <2> HIDE DEF r
  <2> QED BY <2>1, <2>2 DEF ClientConnect, StartSession, Become, ToServer, Received, serverVars
<1>4. /\ r \in ClientRecord /\ r.cookie = k /\ r.pending = k /\ r.servercount = 0
      /\ r.state = "connected" /\ r.signon = 0
  <2>1. k \in 0 .. MaxCookie
    BY <1>1, HandshakeAssumption DEF Cookie
  <2>2. [cls[c] EXCEPT !.cookie = k, !.state = "connected"] \in ClientRecord
    BY <1>2, <2>1 DEF ClientRecord, InSession, InSignon
  <2>3. \A x \in ClientRecord : [x EXCEPT !.signon = 0] \in ClientRecord
    BY DEF ClientRecord
  <2>4. r = [[cls[c] EXCEPT !.cookie = k, !.state = "connected"] EXCEPT !.signon = 0]
    BY <1>2 DEF ClientRecord
  <2>5. r \in ClientRecord
    BY <2>2, <2>3, <2>4
  <2> QED BY <1>2, <2>5 DEF ClientRecord
<1> HIDE DEF r
<1>5. /\ cls' \in [Client -> ClientRecord] /\ cls'[c] = r
      /\ \A e \in Client \ {c} : cls'[e] = cls[e]
  BY <1>3, <1>4 DEF TypeInv
<1>6. /\ up' \in [Cookie -> Chan]
      /\ \A j \in Cookie : \A m \in up'[j].queue : m.what \in News => Tells(up[j].queue, m.what, m.level)
  <2>1. up \in [Cookie -> Chan]
    BY DEF TypeInv
  <2>2. /\ Send(Silent, "new", 0) \in Chan /\ Silent \in Chan
        /\ \A m \in Send(Silent, "new", 0).queue \cup Silent.queue : m.what \notin News
    <3>1. "new" \in Command /\ "new" \notin News /\ 0 \in Nat
      BY DEF Command, News
    <3> QED BY <3>1, CalmSilent, SendFacts DEF Tells
  <2>3. PICK x \in {Send(Silent, "new", 0), Silent} : up' = [up EXCEPT ![k] = x]
    BY <1>3
  <2>4. x \in Chan /\ \A m \in x.queue : m.what \notin News
    BY <2>2, <2>3
  <2>5. ASSUME NEW j \in Cookie, NEW m \in up'[j].queue, m.what \in News
        PROVE  Tells(up[j].queue, m.what, m.level)
    <3>1. CASE j = k
      BY <2>1, <2>3, <2>4, <2>5, <3>1
    <3>2. CASE j # k
      BY <2>1, <2>3, <2>5, <3>2 DEF Tells
    <3> QED BY <3>1, <3>2
  <2> QED BY <2>1, <2>3, <2>4, <2>5
<1>7. TypeInv'
  BY <1>3, <1>5, <1>6 DEF TypeInv
<1>8. BoundInv'
  <2>1. \A e \in Client : ClientBounds(e)'
    BY <1>1, <1>3, <1>4, <1>5 DEF BoundInv, ClientBounds, TypeInv, Cookie
  <2> QED BY <1>3, <2>1 DEF BoundInv, SlotBounds
<1>9. OwnerInv'
  <2>1. ASSUME NEW e \in Client, NEW f \in Client, e # f,
               NEW j \in {cls'[e].pending, cls'[e].cookie} \cap {cls'[f].pending, cls'[f].cookie}
        PROVE  j = 0
    <3>1. \A g \in Client : {cls'[g].pending, cls'[g].cookie} \subseteq {cls[g].pending, cls[g].cookie}
      BY <1>4, <1>5
    <3> QED BY <2>1, <3>1 DEF OwnerInv
  <2> QED BY <1>3, <2>1 DEF OwnerInv
<1>10. FreshInv'
  <2>1. \A e \in oob : e.type = "client_connect" /\ e.cookie = k => e = d
    BY <1>1 DEF OwnerInv, Connects
  <2>2. \A e \in oob : e.type = "connect" => e.cookie # k
    BY <1>1 DEF OwnerInv, Connects
  <2>3. \A e \in oob' : e.type \in Connects => e.cookie # k /\ e.cookie \in Cookie
    BY <1>3, <2>1, <2>2 DEF Connects, TypeInv, PacketOK
  <2>4. \A j \in Cookie \ {k} : /\ Unspawned(j) => Unspawned(j)'
                                /\ Unused(j) => Unused(j)'
    <3>1. ASSUME NEW j \in Cookie \ {k} PROVE Unspawned(j) => Unspawned(j)'
      <4>1. \A e \in Client : cls[e].cookie # j => cls'[e].cookie # j
        BY <1>4, <1>5
      <4> QED BY <1>3, <1>6, <4>1 DEF Unspawned, Tells
    <3> QED BY <1>3, <3>1 DEF Unused
  <2>5. \A j \in Cookie : j > lastCookie => j # k
    BY <1>1 DEF TypeInv, Cookie
  <2> QED BY <1>3, <2>3, <2>4, <2>5 DEF FreshInv, Connects
\* Nothing has begun in the session that the client takes up.
<1>11. ASSUME NEW s \in Slot
       PROVE  /\ (Live(s) <=> Live(s)')
              /\ Begun(s)' => Begun(s)
              /\ slot[s].cookie = k => ~Begun(s)'
  <2>1. UNCHANGED slot
    BY <1>3
  <2>2. CASE slot[s].cookie = k
    <3>1. ~Begun(s)'
      <4>1. \A e \in Client : cls'[e].cookie = k => cls'[e].state # "validate"
        BY <1>1, <1>4, <1>5 DEF Unspawned
      <4>2. ~Has(up'[k].queue, "sendres") /\ ~Has(up'[k].queue, "spawn")
        BY <1>1, <1>6 DEF Unspawned, Has, Tells, News
      <4>3. ~Has(down'[k].queue, "resources") /\ slot'[s].state \notin Playing
        BY <1>1, <1>3, <2>2 DEF Unspawned
      <4> QED BY <2>1, <2>2, <4>1, <4>2, <4>3 DEF Begun, InIt
    <3> QED BY <2>1, <3>1 DEF Live
  <2>3. CASE slot[s].cookie # k
    <3> DEFINE j == slot[s].cookie
    <3>1. \A e \in Client : cls'[e].state = "validate" /\ cls'[e].cookie = j =>
                               cls[e].state = "validate" /\ cls[e].cookie = j
      BY <1>4, <1>5, <2>3
    <3>2. up'[j] = up[j]
      BY <1>3, <2>3 DEF TypeInv
    <3> QED BY <1>3, <2>3, <3>1, <3>2 DEF Live, Begun, InIt, InSession, InSignon
  <2> QED BY <2>2, <2>3
<1>12. AdmittedInv'
  BY <1>3, <1>11 DEF AdmittedInv
<1>13. LevelInv'
  <2> SUFFICES ASSUME NEW s \in Slot, Live(s)
               PROVE  LET j == slot[s].cookie
                      IN  /\ \A m \in up'[j].queue : m.what = "spawn" => m.level = spawncount
                          /\ \A m \in down[j].queue : m.what = "serverdata" => m.level = spawncount
                          /\ \A e \in Client : cls'[e].state \in InSession /\ cls'[e].cookie = j =>
                                /\ cls'[e].servercount \in {0, spawncount}
                                /\ Begun(s)' => cls'[e].servercount = spawncount
    BY <1>3, <1>11 DEF LevelInv, InIt
  <2> DEFINE j == slot[s].cookie
  <2>1. j \in Cookie
    BY InCookie
  <2>2. \A m \in up'[j].queue : m.what = "spawn" => m.level = spawncount
    BY <1>6, <2>1 DEF LevelInv, Tells, News
  <2>3. \A m \in down[j].queue : m.what = "serverdata" => m.level = spawncount
    BY DEF LevelInv
  <2>4. ASSUME NEW e \in Client, cls'[e].state \in InSession, cls'[e].cookie = j
        PROVE  /\ cls'[e].servercount \in {0, spawncount}
               /\ Begun(s)' => cls'[e].servercount = spawncount
    <3>1. CASE e = c
      BY <1>4, <1>5, <1>11, <2>4, <3>1
    <3>2. CASE e # c
      BY <1>5, <1>11, <2>4, <3>2 DEF LevelInv, InIt
    <3> QED BY <3>1, <3>2
  <2> QED BY <2>2, <2>3, <2>4
<1>14. SignonInv'
  <2>1. \A e \in Client : \A j \in Cookie : Replied(e, j)' => Replied(e, j)
    BY <1>4, <1>5 DEF Replied, InIt
  <2>2. \A s \in Slot : Live(s)' => slot[s].cookie \in Cookie
    BY <1>11, InCookie
  <2>3. \A s \in Slot : Live(s)' /\ slot'[s].state = "connected" =>
          /\ ~Has(down'[slot'[s].cookie].queue, "signon")
          /\ \A e \in Client : ~Replied(e, slot[s].cookie)'
    BY <1>3, <1>11, <2>1, <2>2 DEF SignonInv
  <2>4. SignonInv' <=>
          /\ \A j \in Cookie : Single(down'[j].queue)
          /\ \A j \in Cookie, e \in Client : Replied(e, j)' => ~Has(down'[j].queue, "signon")
          /\ \A s \in Slot : Live(s)' /\ slot'[s].state = "connected" =>
                /\ ~Has(down'[slot'[s].cookie].queue, "signon")
                /\ \A e \in Client : ~Replied(e, slot[s].cookie)'
    BY <1>3 DEF SignonInv, Replied, InIt, Live
  <2> QED BY <1>3, <2>1, <2>3, <2>4 DEF SignonInv
<1> QED BY <1>7, <1>8, <1>9, <1>10, <1>12, <1>13, <1>14

LEMMA WipedFacts ==
    ASSUME NEW r \in SlotRecord, NEW d, d.client \in Client \cup {NoOne}, d.cookie \in Cookie
    PROVE  /\ Wiped(r, d) \in SlotRecord /\ Wiped(r, d).state = "connected"
           /\ Wiped(r, d).cookie = d.cookie
<1> DEFINE a == [r EXCEPT !.state = "connected", !.client = d.client]
           b == [a EXCEPT !.cookie = d.cookie]
           e == [b EXCEPT !.frames = TRUE]
<1>1. d.cookie \in 0 .. MaxCookie
  BY HandshakeAssumption DEF Cookie
<1>2. Wiped(r, d) = [e EXCEPT !.resources = FALSE]
  BY DEF Wiped, SlotRecord
<1>3. a \in SlotRecord /\ a.state = "connected"
  BY DEF SlotRecord, InGame
<1> HIDE DEF a
<1>4. b \in SlotRecord /\ b.state = "connected" /\ b.cookie = d.cookie
  BY <1>1, <1>3 DEF SlotRecord
<1> HIDE DEF b
<1>5. e \in SlotRecord /\ e.state = "connected" /\ e.cookie = d.cookie
  BY <1>4 DEF SlotRecord
<1> HIDE DEF e
<1> QED BY <1>2, <1>5 DEF SlotRecord

LEMMA ConnectClientStep ==
    ASSUME IInv, NEW d \in oob, ConnectClient(d)
    PROVE  IInv'
<1> USE DEF IInv
<1> DEFINE n == d.cookie
           a == [type |-> "client_connect", client |-> d.client,
                 challenge |-> d.challenge, cookie |-> n]
<1>1. /\ d.type = "connect" /\ n \in Cookie /\ n <= lastCookie /\ Unused(n) /\ d.client \in Client \cup {NoOne}
  BY DEF ConnectClient, TypeInv, BoundInv, FreshInv, PacketOK, Connects
<1>2. PICK s \in Slot, fate \in Fate :
         LET k == slot[s].cookie
         IN  /\ slot' = [slot EXCEPT ![s] = Wiped(@, d)]
             /\ admitted' = [admitted EXCEPT ![s] = FALSE]
             /\ IF k = 0 THEN UNCHANGED sessionVars
                ELSE up' = [up EXCEPT ![k] = Silent] /\ ToClient(k, Cleared(down[k], fate))
  BY DEF ConnectClient, SlotFor, SlotOf, EmptySlot
<1>3. \A e \in oob' : (e \in oob /\ e # d) \/ e = a
  BY WithFacts DEF ConnectClient, Answered
<1>4. /\ UNCHANGED <<cls, lastCookie, spawncount>>
      /\ slot' \in [Slot -> SlotRecord]
      /\ slot'[s].cookie = n /\ slot'[s].state = "connected"
      /\ \A t \in Slot \ {s} : slot'[t] = slot[t] /\ admitted'[t] = admitted[t]
      /\ admitted' \in [Slot -> BOOLEAN]
  <2> DEFINE w == Wiped(slot[s], d)
  <2>1. w \in SlotRecord /\ w.state = "connected" /\ w.cookie = n
    BY <1>1, WipedFacts DEF TypeInv
  <2>2. slot' = [slot EXCEPT ![s] = w]
    BY <1>2 DEF TypeInv
  <2> HIDE DEF w
  <2> QED BY <1>2, <2>1, <2>2 DEF TypeInv, ConnectClient, clientVars
<1>5. /\ up' \in [Cookie -> Chan] /\ down' \in [Cookie -> Chan]
      /\ \A k \in Cookie : Calm(up'[k], up[k]) /\ Calm(down'[k], down[k])
  <2> DEFINE k == slot[s].cookie
  <2>0. up \in [Cookie -> Chan] /\ down \in [Cookie -> Chan]
    BY DEF TypeInv
  <2>1. \A j \in Cookie : /\ Calm(up[j], up[j]) /\ Calm(down[j], down[j])
                          /\ Calm(Silent, up[j]) /\ Calm(Silent, down[j])
    BY <2>0, CalmSilent, CalmRefl
  <2>2. CASE k = 0
    BY <1>2, <2>0, <2>1, <2>2 DEF sessionVars
  <2>3. CASE k # 0
    <3>1. up' = [up EXCEPT ![k] = Silent]
          /\ \E y \in {Cleared(down[k], fate), Silent} : down' = [down EXCEPT ![k] = y]
      BY <1>2, <2>3 DEF ToClient
    <3>2. PICK y \in {Cleared(down[k], fate), Silent} : down' = [down EXCEPT ![k] = y]
      BY <3>1
    <3>3. k \in Cookie => Calm(y, down[k]) /\ y \in Chan
      BY <2>0, <3>2, CalmCleared, CalmSilent DEF Calm
    <3>4. up' \in [Cookie -> Chan] /\ \A j \in Cookie : up'[j] \in {Silent, up[j]}
      BY <2>0, <3>1, CalmSilent
    <3>5. down' \in [Cookie -> Chan] /\ \A j \in Cookie : IF j = k THEN down'[j] = y ELSE down'[j] = down[j]
      BY <2>0, <3>2, <3>3
    <3> QED BY <2>1, <3>3, <3>4, <3>5
  <2> QED BY <2>2, <2>3
<1>6. \A k \in Cookie : NoNews(up'[k].queue, up[k].queue) /\ NoNews(down'[k].queue, down[k].queue)
  BY <1>5 DEF Calm
<1>7. TypeInv'
  <2>1. \A e \in oob' : PacketOK(e)
    BY <1>1, <1>3 DEF TypeInv, PacketOK, Connects
  <2> QED BY <1>4, <1>5, <2>1 DEF TypeInv
<1>8. BoundInv'
  <2>1. \A t \in Slot : SlotBounds(t)'
    <3>1. SlotBounds(s)'
      BY <1>1, <1>4 DEF SlotBounds, Cookie, Playing
    <3>2. ASSUME NEW t \in Slot \ {s} PROVE SlotBounds(t)'
      BY <1>4 DEF BoundInv, SlotBounds
    <3> QED BY <3>1, <3>2
  <2>2. \A e \in oob' : e.type \in Connects => e.cookie <= lastCookie
    BY <1>1, <1>3 DEF BoundInv
  <2>3. \A k \in Cookie : \A m \in down'[k].queue : m.what = "serverdata" => m.level <= spawncount
    BY <1>6 DEF BoundInv, NoNews, Tells, News
  <2>4. \A c \in Client : ClientBounds(c)'
    BY <1>4 DEF BoundInv, ClientBounds
  <2> QED BY <1>4, <2>1, <2>2, <2>3, <2>4 DEF BoundInv
<1>9. OwnerInv'
  <2>1. \A t, u \in Slot : t # u /\ slot'[t].cookie = slot'[u].cookie => slot'[t].cookie = 0
    BY <1>1, <1>4 DEF OwnerInv, Unused
  <2>2. \A e, f \in oob' : {e.type, f.type} \subseteq Connects /\ e.cookie = f.cookie => e = f
    <3>1. \A e \in oob : e # d /\ e.type \in Connects => e.cookie # n
      BY <1>1 DEF OwnerInv, Connects
    <3>2. a.cookie = n
      OBVIOUS
    <3> HIDE DEF a
    <3> QED BY <1>3, <3>1, <3>2 DEF OwnerInv
  <2> QED BY <1>4, <2>1, <2>2 DEF OwnerInv
<1>10. FreshInv'
  <2>1. ASSUME NEW j \in Cookie PROVE Unspawned(j) => Unspawned(j)'
    <3>1. \A t \in Slot : slot'[t].state \in Playing => slot'[t] = slot[t]
      BY <1>4 DEF Playing
    <3> QED BY <1>4, <1>6, <3>1 DEF Unspawned, NoNews, Tells, Has, News
  <2>2. \A j \in Cookie \ {n} : Unused(j) => Unused(j)'
    BY <1>4, <1>6, <2>1 DEF Unused, NoNews, Tells
  <2>3. \A e \in oob' : /\ e.type = "connect" => e.cookie \in Cookie \ {n} /\ e \in oob
                        /\ e.type = "client_connect" =>
                              e.cookie \in Cookie /\ (e \in oob \/ e.cookie = n)
    BY <1>1, <1>3 DEF OwnerInv, TypeInv, PacketOK, Connects
  <2>4. Unspawned(n)
    BY <1>1 DEF Unused
  <2>5. \A j \in Cookie : j > lastCookie => j # n
    BY <1>1 DEF TypeInv, Cookie
  <2>6. \A e \in oob' : /\ e.type = "connect" => Unused(e.cookie)'
                        /\ e.type = "client_connect" => Unspawned(e.cookie)'
    <3>1. \A e \in oob : e.type = "connect" => Unused(e.cookie)
      BY DEF FreshInv
    <3>2. \A e \in oob : e.type = "client_connect" => Unspawned(e.cookie)
      BY DEF FreshInv
    <3>3. ASSUME NEW e \in oob', e.type = "connect" PROVE Unused(e.cookie)'
      BY <2>2, <2>3, <3>1, <3>3
    <3>4. ASSUME NEW e \in oob', e.type = "client_connect" PROVE Unspawned(e.cookie)'
      BY <2>1, <2>3, <2>4, <3>2, <3>4
    <3> QED BY <3>3, <3>4
  <2>7. \A j \in Cookie : j > lastCookie => Unused(j)'
    BY <2>2, <2>5 DEF FreshInv
  <2> QED BY <1>4, <2>6, <2>7 DEF FreshInv, Unused, Unspawned
\* Nothing has begun in the new session; the others go on.
<1>11. ~Begun(s)' /\ ~Has(down'[n].queue, "serverdata") /\ ~Has(down'[n].queue, "signon")
       /\ ~Has(up'[n].queue, "spawn") /\ \A c \in Client : cls'[c].cookie # n
  <2>1. \A m \in up'[n].queue \cup down'[n].queue : m.what \notin News
    BY <1>1, <1>6 DEF Unused, Unspawned, NoNews, Tells
  <2>2. \A c \in Client : cls'[c].cookie # n
    BY <1>1, <1>4 DEF Unused, Unspawned
  <2> QED BY <1>4, <2>1, <2>2 DEF Begun, Has, News, Playing, InIt
<1>12. ASSUME NEW t \in Slot \ {s}, Live(t)'
       PROVE  /\ Live(t) /\ slot'[t] = slot[t] /\ admitted'[t] = admitted[t] /\ slot[t].cookie \in Cookie
              /\ Begun(t)' => Begun(t)
  <2>1. slot'[t] = slot[t] /\ admitted'[t] = admitted[t]
    BY <1>4
  <2>2. Live(t) /\ slot[t].cookie \in Cookie
    BY <1>12, <2>1, InCookie DEF Live
  <2> QED BY <1>4, <1>6, <2>1, <2>2 DEF Begun, InIt, NoNews, Tells, Has, News
<1>13. AdmittedInv'
  <2> SUFFICES ASSUME NEW t \in Slot, Live(t)',
                      Begun(t)' \/ Has(down'[slot'[t].cookie].queue, "serverdata")
               PROVE  admitted'[t]
    BY DEF AdmittedInv, Live, Begun, InIt
  <2>1. t # s
    BY <1>4, <1>11
  <2> QED BY <1>6, <1>12, <2>1 DEF AdmittedInv, NoNews, Tells, Has, News
<1>14. LevelInv'
  <2> SUFFICES ASSUME NEW t \in Slot, Live(t)'
               PROVE  LET j == slot'[t].cookie
                      IN  /\ \A m \in up'[j].queue : m.what = "spawn" => m.level = spawncount
                          /\ \A m \in down'[j].queue : m.what = "serverdata" => m.level = spawncount
                          /\ \A c \in Client : InIt(c, j) =>
                                /\ cls[c].servercount \in {0, spawncount}
                                /\ Begun(t)' => cls[c].servercount = spawncount
    BY <1>4 DEF LevelInv, InIt
  <2>1. CASE t = s
    BY <1>4, <1>11, <2>1 DEF Has, InIt
  <2>2. CASE t # s
    <3> DEFINE j == slot[t].cookie
    <3>1. slot'[t].cookie = j /\ Live(t) /\ j \in Cookie /\ (Begun(t)' => Begun(t))
      BY <1>12, <2>2
    <3>2. /\ \A m \in up'[j].queue : m.what = "spawn" => m.level = spawncount
          /\ \A m \in down'[j].queue : m.what = "serverdata" => m.level = spawncount
      BY <1>6, <3>1 DEF LevelInv, NoNews, Tells, News
    <3> QED BY <3>1, <3>2 DEF LevelInv
  <2> QED BY <2>1, <2>2
<1>15. SignonInv'
  <2>1. \A j \in Cookie : /\ Single(down'[j].queue)
                          /\ Has(down'[j].queue, "signon") => Has(down[j].queue, "signon")
    BY <1>5, <1>6 DEF SignonInv, Calm, NoNews, Tells, Has, News
  <2>2. ASSUME NEW t \in Slot, Live(t)', slot'[t].state = "connected"
        PROVE  /\ ~Has(down'[slot'[t].cookie].queue, "signon")
               /\ \A c \in Client : ~Replied(c, slot'[t].cookie)
    <3>1. CASE t = s
      BY <1>4, <1>11, <3>1 DEF Replied, InIt
    <3>2. CASE t # s
      BY <1>12, <2>1, <2>2, <3>2 DEF SignonInv
    <3> QED BY <3>1, <3>2
  <2>3. SignonInv' <=>
          /\ \A j \in Cookie : Single(down'[j].queue)
          /\ \A j \in Cookie, c \in Client : Replied(c, j) => ~Has(down'[j].queue, "signon")
          /\ \A t \in Slot : Live(t)' /\ slot'[t].state = "connected" =>
                /\ ~Has(down'[slot'[t].cookie].queue, "signon")
                /\ \A c \in Client : ~Replied(c, slot'[t].cookie)
    BY <1>4 DEF SignonInv, Replied, InIt, Live
  <2> QED BY <2>1, <2>2, <2>3 DEF SignonInv
<1> QED BY <1>7, <1>8, <1>9, <1>10, <1>13, <1>14, <1>15

-----------------------------------------------------------------------------
(***************************************************************************)
(* The client's actions.                                                   *)
(***************************************************************************)
LEMMA ResendChallengeStep ==
    ASSUME IInv, NEW c \in Client, ResendChallenge(c)
    PROVE  IInv'
<1>1. CASE Disconnect(c) /\ UNCHANGED oob
  BY <1>1, Unchanging, DisconnectQuiet, QuietStep DEF ResendChallenge
<1>2. CASE /\ ~GivesUp(cls[c].connect_retry, ConnectionRetries)
           /\ Become(c, [cls[c] EXCEPT !.connect_retry = @ + 1])
           /\ Sent([type |-> "getchallenge", client |-> c])
           /\ UNCHANGED sessionVars
  <2> DEFINE r == [cls[c] EXCEPT !.connect_retry = @ + 1]
             a == [type |-> "getchallenge", client |-> c]
  <2>1. cls[c] \in ClientRecord
    BY DEF IInv, TypeInv
  <2>2. cls[c].connect_retry + 1 \in 0 .. ConnectionRetries
    BY <1>2, <2>1, HandshakeAssumption DEF GivesUp, ClientRecord
  <2>3. /\ r \in ClientRecord /\ r.cookie = cls[c].cookie /\ r.pending = cls[c].pending
        /\ r.state = cls[c].state /\ r.servercount = cls[c].servercount
        /\ r.signon = cls[c].signon
    <3>1. \A x \in 0 .. ConnectionRetries : [cls[c] EXCEPT !.connect_retry = x] \in ClientRecord
      BY <2>1, RecordFacts
    <3>2. r \in ClientRecord
      BY <2>2, <3>1
    <3> QED BY <2>1, <3>2 DEF ClientRecord
  <2>4. PacketOK(a) /\ a.type \notin Connects /\ oob \subseteq oob
    BY DEF PacketOK, Connects
  <2> HIDE DEF r, a
  <2>5. oob' \in With(oob, a)
    BY <1>2 DEF Sent, a
  <2>6. PacketsCalm
    BY <2>4, <2>5, SentCalm
  <2>7. UpsGo /\ DownsGo
    BY <1>2, Unchanging DEF sessionVars
  <2>8. Quiet
    BY <1>2, <2>3, <2>6, <2>7, StayQuiet DEF ResendChallenge, r
  <2> QED BY <2>8, QuietStep
<1> QED BY <1>1, <1>2 DEF ResendChallenge

LEMMA ResendTestStep ==
    ASSUME IInv, NEW c \in Client, ResendTest(c)
    PROVE  IInv'
<1> DEFINE r == [cls[c] EXCEPT !.test_retry = @ + 1]
<1>0. cls[c] \in ClientRecord
  BY DEF IInv, TypeInv
<1>1. CASE Disconnect(c) /\ UNCHANGED <<lastCookie, oob>>
  BY <1>1, Unchanging, DisconnectQuiet, QuietStep DEF ResendTest
<1>2. CASE /\ ~GivesUp(cls[c].test_retry, TestRetries)
           /\ Become(c, r)
           /\ Sent(TestRequest(c, r))
           /\ UNCHANGED <<lastCookie, sessionVars>>
  <2> DEFINE a == TestRequest(c, r)
  <2>2. cls[c].test_retry + 1 \in 0 .. TestRetries
    BY <1>0, <1>2, HandshakeAssumption DEF GivesUp, ClientRecord
  <2>3. /\ r \in ClientRecord /\ r.cookie = cls[c].cookie /\ r.pending = cls[c].pending
        /\ r.state = cls[c].state /\ r.servercount = cls[c].servercount
        /\ r.signon = cls[c].signon
    <3>1. r \in ClientRecord
      BY <1>0, <2>2, RecordFacts
    <3> QED BY <1>0, <3>1 DEF ClientRecord
  <2> HIDE DEF r
  <2>4. PacketOK(a) /\ a.type \notin Connects /\ oob \subseteq oob
    BY DEF PacketOK, Connects, TestRequest
  <2>5. oob' \in With(oob, a)
    BY <1>2 DEF Sent
  <2> HIDE DEF a
  <2>6. PacketsCalm
    BY <2>4, <2>5, SentCalm
  <2>7. UpsGo /\ DownsGo
    BY <1>2, Unchanging DEF sessionVars
  <2>8. Quiet
    BY <1>2, <2>3, <2>6, <2>7, StayQuiet DEF ResendTest
  <2> QED BY <2>8, QuietStep
<1>3. CASE DrawCookie(c, cls[c]) /\ Sent(ConnectPacket(c, cls[c]))
  <2>1. \A d \in oob' : d \in oob \/ d = ConnectPacket(c, cls[c])
    BY <1>3, WithFacts DEF Sent
  <2>2. cls[c].state \notin InSession
    BY DEF ResendTest, InSession, InSignon
  <2> QED BY <1>0, <1>3, <2>1, <2>2, DrawStep DEF ResendTest
<1> QED BY <1>1, <1>2, <1>3 DEF ResendTest

LEMMA ChallengeStep ==
    ASSUME IInv, NEW c \in Client, NEW d \in oob, Challenge(c, d)
    PROVE  IInv'
<1> DEFINE r == [cls[c] EXCEPT !.challenge = d.challenge]
           t == [r EXCEPT !.test_retry = 0, !.test = IF @ = "failed" THEN @ ELSE "started"]
<1>1. cls[c] \in ClientRecord
  BY DEF IInv, TypeInv
<1>2. d.challenge \in Nat /\ 0 \in 0 .. TestRetries
  BY HandshakeAssumption DEF IInv, TypeInv, PacketOK, Challenge
<1>3. /\ r \in ClientRecord /\ r.cookie = cls[c].cookie /\ r.pending = cls[c].pending
      /\ r.state = cls[c].state /\ r.servercount = cls[c].servercount
      /\ r.signon = cls[c].signon
      /\ r.state \notin InSession
  <2>1. r \in ClientRecord
    BY <1>1, <1>2, RecordFacts
  <2>2. r.state \notin InSession
    BY DEF Challenge, InSession, InSignon
  <2> QED BY <1>1, <2>1, <2>2 DEF ClientRecord
<1>4. CASE DrawCookie(c, r) /\ Answered(d, ConnectPacket(c, r))
  <2>1. \A e \in oob' : e \in oob \/ e = ConnectPacket(c, r)
    BY <1>4, WithFacts DEF Answered
  <2> QED BY <1>3, <1>4, <2>1, DrawStep DEF Challenge
<1>5. CASE Become(c, t) /\ Answered(d, TestRequest(c, t)) /\ UNCHANGED <<lastCookie, sessionVars>>
  <2> DEFINE a == TestRequest(c, t)
  <2> HIDE DEF r
  <2>1. t \in ClientRecord
    <3> DEFINE x == IF r.test = "failed" THEN r.test ELSE "started"
               y == [r EXCEPT !.test_retry = 0]
    <3>1. x \in {"none", "started", "passed", "failed"}
      OBVIOUS
    <3>2. y \in ClientRecord
      BY <1>2, <1>3, RecordFacts
    <3>3. t = [y EXCEPT !.test = x]
      BY <1>3 DEF ClientRecord
    <3> HIDE DEF x, y
    <3> QED BY <3>1, <3>2, <3>3, RecordFacts
  <2>2. /\ t.cookie = cls[c].cookie /\ t.pending = cls[c].pending
        /\ t.state = cls[c].state /\ t.servercount = cls[c].servercount
        /\ t.signon = cls[c].signon
    BY <1>3 DEF ClientRecord
  <2> HIDE DEF t
  <2>3. PacketOK(a) /\ a.type \notin Connects /\ oob \ {d} \subseteq oob
    BY DEF PacketOK, Connects, TestRequest
  <2>4. oob' \in With(oob \ {d}, a)
    BY <1>5 DEF Answered
  <2> HIDE DEF a
  <2>5. PacketsCalm
    BY <2>3, <2>4, SentCalm
  <2>6. UpsGo /\ DownsGo
    BY <1>5, Unchanging DEF sessionVars
  <2>7. Quiet
    BY <1>5, <2>1, <2>2, <2>5, <2>6, StayQuiet DEF Challenge
  <2> QED BY <2>7, QuietStep
<1> QED BY <1>4, <1>5 DEF Challenge

LEMMA HandleTestPacketStep ==
    ASSUME IInv, NEW c \in Client, NEW d \in oob, HandleTestPacket(c, d)
    PROVE  IInv'
<1>1. PICK x \in {"passed", "failed"} : Become(c, [cls[c] EXCEPT !.test = x])
  BY DEF HandleTestPacket
<1> DEFINE r == [cls[c] EXCEPT !.test = x]
<1>2. cls[c] \in ClientRecord
  BY DEF IInv, TypeInv
<1>3. /\ r \in ClientRecord /\ r.cookie = cls[c].cookie /\ r.pending = cls[c].pending
      /\ r.state = cls[c].state /\ r.servercount = cls[c].servercount
      /\ r.signon = cls[c].signon
  <2>1. r \in ClientRecord
    BY <1>2, RecordFacts
  <2> QED BY <1>2, <2>1 DEF ClientRecord
<1>4. PacketsCalm /\ UpsGo /\ DownsGo
  BY ReceivedCalm, Unchanging DEF HandleTestPacket, sessionVars
<1> HIDE DEF r
<1>5. Quiet
  BY <1>1, <1>3, <1>4, StayQuiet DEF HandleTestPacket, r
<1> QED BY <1>5, QuietStep

LEMMA LeavingSteps ==
    ASSUME IInv, NEW c \in Client,
           \/ UserConnects(c) \/ UserDisconnects(c) \/ ClientTimesOut(c)
           \/ \E d \in oob : Reject(c, d)
    PROVE  IInv'
<1>1. CASE UserConnects(c) \/ UserDisconnects(c) \/ ClientTimesOut(c)
  <2>1. Disconnect(c) \/ ConnectAnew(c)
    BY <1>1 DEF UserConnects, UserDisconnects, ClientTimesOut
  <2>2. UNCHANGED <<lastCookie, serverVars, oob>>
    BY <1>1 DEF UserConnects, UserDisconnects, ClientTimesOut
  <2> QED BY <2>1, <2>2, Unchanging, DisconnectQuiet, QuietStep
<1>2. CASE \E d \in oob : Reject(c, d)
  BY <1>2, ReceivedCalm, DisconnectQuiet, QuietStep DEF Reject
<1> QED BY <1>1, <1>2

\* A message of the client, on a channel that has changed calmly.
LEMMA NewsUp ==
    ASSUME IInv, NEW k \in Cookie, NEW b, Calm(b, up[k]), NEW what \in Command, NEW level \in Nat,
           ToServer(k, Send(b, what, level)),
           what \in News => \E c \in Client : InIt(c, k) /\
              \/ what = "sendres" /\ Tells(down[k].queue, "serverdata", cls'[c].servercount)
              \/ what = "spawn" /\ cls[c].state = "validate" /\ level = cls[c].servercount
    PROVE  UpsGo
<1> DEFINE e == Send(b, what, level)
<1>1. b \in Chan /\ NoNews(b.queue, up[k].queue)
  BY DEF Calm
<1>2. e \in Chan /\ \A m \in e.queue : (m.what = what /\ m.level = level) \/ Tells(b.queue, m.what, m.level)
  BY <1>1, SendFacts
<1>3. up' = [up EXCEPT ![k] = e] \/ up' = [up EXCEPT ![k] = Silent]
  BY DEF ToServer
<1> HIDE DEF e
<1>4. up \in [Cookie -> Chan]
  BY DEF IInv, TypeInv
<1>5. CASE up' = [up EXCEPT ![k] = e]
  <2>1. \A m \in e.queue : m.what \in News =>
           (m.what = what /\ m.level = level) \/ Tells(up[k].queue, m.what, m.level)
    BY <1>1, <1>2 DEF NoNews, Tells
  <2>2. UpGoes(k)
    BY <1>4, <1>5, <2>1 DEF UpGoes
  <2> QED BY <1>2, <1>5, <2>2, OneUp
<1>6. CASE up' = [up EXCEPT ![k] = Silent]
  BY <1>6, CalmSilent, OneUp
<1> QED BY <1>3, <1>5, <1>6

\* A message of the server.
LEMMA NewsDown ==
    ASSUME IInv, NEW k \in Cookie, NEW what \in Command, NEW level \in Nat,
           ToClient(k, Send(down[k], what, level)),
           what = "signon" => ~Has(down[k].queue, "signon"),
           what \in News => \E s \in Slot : Live(s) /\ slot[s].cookie = k /\
              \/ what = "serverdata" /\ level = spawncount /\ admitted'[s]
              \/ what = "resources" /\ Has(up[k].queue, "sendres")
              \/ what = "signon" /\ slot[s].state = "connected" /\ slot'[s].state # "connected"
    PROVE  DownsGo
<1> DEFINE e == Send(down[k], what, level)
<1>1. down \in [Cookie -> Chan]
  BY DEF IInv, TypeInv
<1>2. /\ e \in Chan /\ (Single(down[k].queue) => Single(e.queue))
      /\ \A m \in e.queue : (m.what = what /\ m.level = level) \/ Tells(down[k].queue, m.what, m.level)
  BY <1>1, SendFacts
<1>3. down' = [down EXCEPT ![k] = e] \/ down' = [down EXCEPT ![k] = Silent]
  BY DEF ToClient
<1> HIDE DEF e
<1>4. CASE down' = [down EXCEPT ![k] = e]
  <2>1. DownGoes(k)
    BY <1>1, <1>2, <1>4 DEF DownGoes
  <2> QED BY <1>2, <1>4, <2>1, OneDown
<1>5. CASE down' = [down EXCEPT ![k] = Silent]
  BY <1>5, CalmSilent, OneDown
<1> QED BY <1>3, <1>4, <1>5

LEMMA ParseStep ==
    ASSUME IInv, NEW c \in Client, cls[c].state \in InSession,
           NEW m \in Deliverable(down[cls[c].cookie]),
           Parse(c, m, Taken(down[cls[c].cookie], m)), UNCHANGED <<lastCookie, serverVars, oob>>
    PROVE  IInv'
<1> DEFINE k  == cls[c].cookie
           ch == Taken(down[k], m)
<1>1. /\ k \in Cookie /\ down[k] \in Chan /\ up[k] \in Chan /\ cls[c] \in ClientRecord
      /\ up \in [Cookie -> Chan] /\ down \in [Cookie -> Chan]
  BY InCookie DEF IInv, TypeInv
<1>2. /\ m \in down[k].queue /\ m \in Message /\ Calm(ch, down[k]) /\ ch \in Chan
      /\ m.what = "signon" => ~Has(ch.queue, "signon")
  <2>1. Single(down[k].queue)
    BY <1>1 DEF IInv, SignonInv
  <2>2. Calm(ch, down[k]) /\ m \in down[k].queue /\ m \in Message
        /\ (m.what = "signon" => ~Has(ch.queue, "signon"))
    BY <1>1, <2>1, TakenFacts
  <2> QED BY <2>2 DEF Calm
<1>3. InIt(c, k) /\ 0 \in Nat
  BY DEF InIt
<1> HIDE DEF ch
<1>4. down' = [down EXCEPT ![k] = ch] => DownsGo /\ down'[k] = ch
  BY <1>1, <1>2, OneDown
<1>5. CASE m.what = "serverdata"
  <2> DEFINE r == [cls[c] EXCEPT !.state = "connected", !.signon = 0,
                                 !.servercount = m.level, !.prepped = FALSE]
             a == [cls[c] EXCEPT !.state = "connected"]
             b == [a EXCEPT !.signon = 0]
             e == [b EXCEPT !.servercount = m.level]
  <2>1. /\ Become(c, r) /\ down' = [down EXCEPT ![k] = ch]
        /\ \E ours \in Withdrawn(up[k]) : ToServer(k, Send(ours, "sendres", 0))
    BY <1>5 DEF Parse, ch
  <2>2. r \in ClientRecord
    <3>1. m.level \in Nat
      BY <1>2 DEF Message
    <3>2. a \in ClientRecord
      BY <1>1, RecordFacts DEF InSession, InSignon
    <3>3. b \in ClientRecord
      <4> HIDE DEF a
      <4> QED BY <3>2 DEF ClientRecord
    <3>4. e \in ClientRecord
      BY <3>1, <3>3, RecordFacts
    <3>5. r = [e EXCEPT !.prepped = FALSE]
      BY <1>1 DEF ClientRecord
    <3> HIDE DEF a, b, e, r
    <3> QED BY <3>4, <3>5, RecordFacts
  <2>3. /\ r.cookie = cls[c].cookie /\ r.pending = cls[c].pending
        /\ r.state = "connected" /\ r.servercount = m.level /\ r.signon = 0
    BY <1>1 DEF ClientRecord
  <2> HIDE DEF r
  <2>4. cls'[c] = r
    BY <2>1 DEF Become, IInv, TypeInv
  <2>5. Tells(down[k].queue, "serverdata", cls'[c].servercount)
    BY <1>2, <1>5, <2>3, <2>4 DEF Tells
  <2>6. ClientGoes(c)
    BY <2>3, <2>4, <2>5 DEF ClientGoes, InSession, InSignon
  <2>7. PICK ours \in Withdrawn(up[k]) : ToServer(k, Send(ours, "sendres", 0))
    BY <2>1
  <2>8. Calm(ours, up[k]) /\ "sendres" \in Command
    BY <1>1, CalmWithdrawn DEF Command, News
  <2>9. UpsGo
    BY <1>1, <1>3, <2>5, <2>7, <2>8, NewsUp
  <2>10. ClientsGo /\ \A x \in Client : cls'[x].pending = cls[x].pending
    BY <2>1, <2>2, <2>3, <2>6, BecomeGoes
  <2>11. Quiet
    BY <1>4, <2>1, <2>9, <2>10, Unchanging DEF Quiet, Going, serverVars
  <2> QED BY <2>11, QuietStep
<1>6. CASE Disconnect(c)
  BY <1>6, Unchanging, DisconnectQuiet, QuietStep
<1>7. CASE m.what = "signon" /\ ~Disconnect(c)
  <2> DEFINE r == [cls[c] EXCEPT !.signon = 1]
  <2>1. /\ Become(c, r) /\ down' = [down EXCEPT ![k] = ch]
        /\ IF cls[c].reconnect THEN UNCHANGED up ELSE ToServer(k, Send(up[k], "begin", 0))
    BY <1>7 DEF Parse, ch
  <2>2. r \in ClientRecord
    BY <1>1 DEF ClientRecord
  <2>3. /\ r.cookie = cls[c].cookie /\ r.pending = cls[c].pending
        /\ r.state = cls[c].state /\ r.servercount = cls[c].servercount
    BY <1>1 DEF ClientRecord
  <2> HIDE DEF r
  <2>4. Has(down[k].queue, "signon") /\ ~Has(down'[k].queue, "signon")
    BY <1>2, <1>4, <1>7, <2>1 DEF Has
  <2>5. cls'[c] = r => ClientGoes(c)
    BY <2>3, <2>4 DEF ClientGoes
  <2>6. UpsGo
    <3>1. CASE UNCHANGED up
      BY <3>1, Unchanging
    <3>2. CASE ToServer(k, Send(up[k], "begin", 0))
      <4>1. "begin" \in Command /\ "begin" \notin News
        BY DEF Command, News
      <4> QED BY <1>1, <1>3, <3>2, <4>1, CalmRefl, NewsUp
    <3> QED BY <2>1, <3>1, <3>2
  <2>7. ClientsGo /\ \A e \in Client : cls'[e].pending = cls[e].pending
    BY <2>1, <2>2, <2>3, <2>5, BecomeGoes
  <2>8. Quiet
    BY <1>4, <2>1, <2>6, <2>7, Unchanging DEF Quiet, Going, serverVars
  <2> QED BY <2>8, QuietStep
<1>8. CASE m.what = "entities"
  <2> DEFINE n == AfterEntities(cls[c].signon)
             r == [cls[c] EXCEPT !.signon = n]
  <2>1. Become(c, r) /\ down' = [down EXCEPT ![k] = ch] /\ UNCHANGED up
    BY <1>8 DEF Parse, ch
  <2>2. n \in 0 .. 2 /\ (n >= 1 => cls[c].signon >= 1)
    BY <1>1 DEF AfterEntities, ClientRecord
  <2> HIDE DEF n
  <2>3. r \in ClientRecord
    BY <1>1, <2>2, RecordFacts
  <2>4. /\ r.cookie = cls[c].cookie /\ r.pending = cls[c].pending
        /\ r.state = cls[c].state /\ r.servercount = cls[c].servercount
        /\ r.signon = n
    BY <1>1 DEF ClientRecord
  <2> HIDE DEF r
  <2>5. Quiet
    BY <1>4, <2>1, <2>2, <2>3, <2>4, Unchanging, StayQuiet
  <2> QED BY <2>5, QuietStep
<1>9. CASE m.what \in {"reconnect", "torn"}
  <2> DEFINE r == [cls[c] EXCEPT !.reconnect = TRUE]
  <2>1. Become(c, r) /\ down' = [down EXCEPT ![k] = ch] /\ UNCHANGED up
    BY <1>9 DEF Parse, ch
  <2>2. r \in ClientRecord
    BY <1>1, RecordFacts
  <2>3. /\ r.cookie = cls[c].cookie /\ r.pending = cls[c].pending
        /\ r.state = cls[c].state /\ r.servercount = cls[c].servercount
        /\ r.signon = cls[c].signon
    BY <1>1 DEF ClientRecord
  <2> HIDE DEF r
  <2>4. Quiet
    BY <1>4, <2>1, <2>2, <2>3, Unchanging, StayQuiet
  <2> QED BY <2>4, QuietStep
<1>10. CASE m.what = "resources"
  <2> DEFINE r == [cls[c] EXCEPT !.state = "validate"]
  <2>1. Become(c, r) /\ down' = [down EXCEPT ![k] = ch] /\ UNCHANGED up
    BY <1>10 DEF Parse, ch
  <2>2. r \in ClientRecord
    BY <1>1, RecordFacts DEF InSession, InSignon
  <2>3. /\ r.cookie = cls[c].cookie /\ r.pending = cls[c].pending
        /\ r.servercount = cls[c].servercount /\ r.signon = cls[c].signon
        /\ r.state = "validate"
    BY <1>1 DEF ClientRecord
  <2> HIDE DEF r
  <2>4. Has(down[k].queue, "resources")
    BY <1>2, <1>10 DEF Has
  <2>5. cls'[c] = r => ClientGoes(c)
    BY <2>3, <2>4 DEF ClientGoes, InSession, InSignon
  <2>6. ClientsGo /\ \A e \in Client : cls'[e].pending = cls[e].pending
    BY <2>1, <2>2, <2>3, <2>5, BecomeGoes
  <2>7. Quiet
    BY <1>4, <2>1, <2>6, Unchanging DEF Quiet, Going, serverVars
  <2> QED BY <2>7, QuietStep
<1> QED BY <1>5, <1>6, <1>7, <1>8, <1>9, <1>10 DEF Parse

LEMMA ClientReadPacketStep ==
    ASSUME IInv, NEW c \in Client, ClientReadPacket(c)
    PROVE  IInv'
<1> DEFINE k == cls[c].cookie
<1>1. cls[c].state \in InSession /\ UNCHANGED <<lastCookie, serverVars, oob>>
  BY DEF ClientReadPacket
<1>2. PICK m \in Deliverable(down[k]) : Parse(c, m, Taken(down[k], m))
  BY DEF ClientReadPacket
<1> QED BY <1>1, <1>2, ParseStep

LEMMA UserReconnectsStep ==
    ASSUME IInv, NEW c \in Client, UserReconnects(c)
    PROVE  IInv'
<1> DEFINE r == [cls[c] EXCEPT !.reconnect = TRUE]
<1>1. cls[c] \in ClientRecord
  BY DEF IInv, TypeInv
<1>2. r \in ClientRecord
  BY <1>1, RecordFacts
<1>3. /\ r.cookie = cls[c].cookie /\ r.pending = cls[c].pending
      /\ r.state = cls[c].state /\ r.servercount = cls[c].servercount
      /\ r.signon = cls[c].signon
  BY <1>1 DEF ClientRecord
<1>4. Become(c, r) /\ UNCHANGED <<lastCookie, serverVars, oob, sessionVars>>
  BY DEF UserReconnects
<1> HIDE DEF r
<1>5. Quiet
  BY <1>2, <1>3, <1>4, Unchanging, StayQuiet DEF sessionVars
<1> QED BY <1>5, QuietStep

LEMMA ExecReconnectStep ==
    ASSUME IInv, NEW c \in Client, ExecReconnect(c)
    PROVE  IInv'
<1> DEFINE r == [cls[c] EXCEPT !.reconnect = FALSE]
<1>1. /\ cls[c] \in ClientRecord /\ UNCHANGED <<lastCookie, serverVars, oob>>
      /\ up \in [Cookie -> Chan] /\ down \in [Cookie -> Chan]
  BY DEF IInv, TypeInv, ExecReconnect
<1>2. r \in ClientRecord
  BY <1>1, RecordFacts
<1>3. /\ r.cookie = cls[c].cookie /\ r.pending = cls[c].pending
      /\ r.state = cls[c].state /\ r.servercount = cls[c].servercount
      /\ r.signon = cls[c].signon
  BY <1>1 DEF ClientRecord
<1> HIDE DEF r
<1>5. CASE Become(c, r) /\ UNCHANGED sessionVars
  <2>1. Quiet
    BY <1>1, <1>2, <1>3, <1>5, Unchanging, StayQuiet DEF sessionVars
  <2> QED BY <2>1, QuietStep
<1>6. CASE /\ r.state = "connected"
           /\ \E fate \in Fate : StartSession(c, r, Cleared(up[r.cookie], fate))
           /\ \E theirs \in {down[r.cookie], Torn(down[r.cookie])} :
                 down' = [down EXCEPT ![r.cookie] = theirs]
  <2>1. PICK fate \in Fate : StartSession(c, r, Cleared(up[r.cookie], fate))
    BY <1>6
  <2> DEFINE k == r.cookie
             t == [r EXCEPT !.state = "connected", !.signon = 0]
             a == Cleared(up[k], fate)
  <2>2. k \in Cookie /\ up[k] \in Chan /\ down[k] \in Chan
    BY <1>1, <1>3, <1>6, InCookie DEF InSession, InSignon
  <2>3. t \in ClientRecord
    <3>1. [r EXCEPT !.state = "connected"] \in ClientRecord
      BY <1>2, RecordFacts DEF InSession, InSignon
    <3>2. \A y \in ClientRecord : [y EXCEPT !.signon = 0] \in ClientRecord
      BY DEF ClientRecord
    <3>3. t = [[r EXCEPT !.state = "connected"] EXCEPT !.signon = 0]
      BY <1>2 DEF ClientRecord
    <3> QED BY <3>1, <3>2, <3>3
  <2>4. /\ t.cookie = cls[c].cookie /\ t.pending = cls[c].pending
        /\ t.state = "connected" /\ cls[c].state = "connected"
        /\ t.servercount = cls[c].servercount
        /\ t.signon = 0
    BY <1>2, <1>3, <1>6 DEF ClientRecord
  <2>5. Become(c, t) /\ ToServer(k, Send(a, "new", 0))
    BY <2>1 DEF StartSession
  <2> HIDE DEF t
  <2>6. Calm(a, up[k])
    BY <2>2, CalmCleared
  <2>7. "new" \in Command /\ "new" \notin News /\ 0 \in Nat
    BY DEF Command, News
  <2> HIDE DEF a
  <2>8. UpsGo
    BY <2>2, <2>5, <2>6, <2>7, NewsUp
  <2>9. DownsGo
    <3>1. PICK theirs \in {down[k], Torn(down[k])} : down' = [down EXCEPT ![k] = theirs]
      BY <1>6
    <3>2. Calm(theirs, down[k]) /\ theirs \in Chan
      BY <2>2, <3>1, CalmTorn, CalmRefl DEF Calm
    <3> QED BY <3>1, <3>2, OneDown
  <2>10. Quiet
    <3>1. PacketsCalm /\ (t.signon >= 1 => cls[c].signon >= 1) /\ t.state # "validate"
          /\ t.state \in InSession /\ cls[c].state \in InSession
      BY <1>1, <2>4, Unchanging DEF InSession, InSignon
    <3> QED BY <1>1, <2>3, <2>4, <2>5, <2>8, <2>9, <3>1, StayQuiet
  <2> QED BY <2>10, QuietStep
<1>7. CASE Leave(c, [Left(r) EXCEPT !.state = "connecting"])
  BY <1>1, <1>2, <1>3, <1>7, Unchanging, LeaveQuiet, QuietStep
<1> QED BY <1>5, <1>6, <1>7 DEF ExecReconnect, r

LEMMA RegisterStep ==
    ASSUME IInv, NEW c \in Client, RegisterResources(c)
    PROVE  IInv'
<1> DEFINE k == cls[c].cookie
           r == [cls[c] EXCEPT !.prepped = TRUE]
<1>1. cls[c] \in ClientRecord /\ cls[c].state = "validate" /\ cls[c].state \in InSession
  BY DEF IInv, TypeInv, RegisterResources, InSession, InSignon
<1>2. k \in Cookie /\ up[k] \in Chan /\ InIt(c, k)
  BY <1>1, InCookie DEF IInv, TypeInv, InIt
<1>3. r \in ClientRecord
  BY <1>1, RecordFacts
<1>4. /\ r.cookie = cls[c].cookie /\ r.pending = cls[c].pending
      /\ r.state = cls[c].state /\ r.servercount = cls[c].servercount
      /\ r.signon = cls[c].signon
  BY <1>1 DEF ClientRecord
<1>5. /\ Become(c, r) /\ ToServer(k, Send(up[k], "spawn", cls[c].servercount))
      /\ UNCHANGED <<lastCookie, serverVars, oob, down>>
  BY DEF RegisterResources
<1> HIDE DEF r
<1>6. "spawn" \in Command /\ cls[c].servercount \in Nat
  BY <1>1 DEF Command, News, ClientRecord
<1>7. UpsGo
  BY <1>1, <1>2, <1>5, <1>6, CalmRefl, NewsUp
<1>8. Quiet
  BY <1>3, <1>4, <1>5, <1>7, Unchanging, StayQuiet
<1> QED BY <1>8, QuietStep

LEMMA CheckClientStateStep ==
    ASSUME IInv, NEW c \in Client, CheckClientState(c)
    PROVE  IInv'
<1> DEFINE r == [cls[c] EXCEPT !.state = "active"]
<1>1. cls[c] \in ClientRecord
  BY DEF IInv, TypeInv
<1>2. r \in ClientRecord
  BY <1>1, RecordFacts DEF InSession, InSignon
<1>3. /\ r.cookie = cls[c].cookie /\ r.pending = cls[c].pending
      /\ r.state \in InSession /\ cls[c].state \in InSession /\ r.state # "validate"
      /\ r.servercount = cls[c].servercount /\ r.signon = cls[c].signon
  BY <1>1 DEF ClientRecord, InSession, InSignon, CheckClientState
<1>4. Become(c, r) /\ UNCHANGED <<lastCookie, serverVars, oob, sessionVars>>
  BY DEF CheckClientState
<1> HIDE DEF r
<1>5. Quiet
  BY <1>2, <1>3, <1>4, Unchanging, StayQuiet DEF sessionVars
<1> QED BY <1>5, QuietStep

LEMMA ClientSteps ==
    ASSUME IInv, NEW c \in Client,
           ClientStep(c) \/ UserConnects(c) \/ UserDisconnects(c) \/ UserReconnects(c)
    PROVE  IInv'
  BY ResendChallengeStep, ResendTestStep, ClientReadPacketStep, ExecReconnectStep, RegisterStep,
     CheckClientStateStep, LeavingSteps, ChallengeStep, HandleTestPacketStep, ClientConnectStep,
     UserReconnectsStep
     DEF ClientStep

-----------------------------------------------------------------------------
(***************************************************************************)
(* The server's actions.                                                   *)
(***************************************************************************)
LEMMA ClearedSend ==
    ASSUME NEW a \in Chan, NEW fate, NEW what \in {"disconnect", "reconnect"}
    PROVE  Calm(Send(Cleared(a, fate), what, 0), a)
<1> DEFINE b == Cleared(a, fate)
<1>1. Calm(b, a) /\ b \in Chan
  BY CalmCleared DEF Calm
<1>2. what \in Command \ News /\ 0 \in Nat
  BY DEF Command, News, Unreliable
<1> HIDE DEF b
<1>3. Calm(Send(b, what, 0), b)
  BY <1>1, <1>2, CalmSend
<1> QED BY <1>1, <1>3, CalmTrans DEF b

\* One slot's record changes.
LEMMA SlotsGoOne ==
    ASSUME IInv, NEW s \in Slot, NEW r \in SlotRecord, slot' = [slot EXCEPT ![s] = r],
           admitted' \in [Slot -> BOOLEAN], \A t \in Slot \ {s} : admitted'[t] = admitted[t],
           slot'[s] = r => SlotGoes(s)
    PROVE  SlotsGo /\ slot'[s] = r
<1>1. slot' \in [Slot -> SlotRecord] /\ slot'[s] = r /\ \A t \in Slot \ {s} : slot'[t] = slot[t]
  BY DEF IInv, TypeInv
<1>2. \A t \in Slot \ {s} : SlotGoes(t)
  BY <1>1, InCookie DEF SlotGoes, Live, IInv, TypeInv
<1> QED BY <1>1, <1>2 DEF SlotsGo

\* A slot that the client leaves.
LEMMA DropCalm ==
    ASSUME IInv, NEW s \in Slot, NEW r \in SlotRecord, slot[s].state \in InGame,
           r.state \notin InGame, r.cookie \in {0, slot[s].cookie}, Drop(s, r)
    PROVE  SlotsGo /\ UpsGo /\ DownsGo
<1> DEFINE k == slot[s].cookie
<1>1. k \in Cookie /\ up \in [Cookie -> Chan] /\ down \in [Cookie -> Chan] /\ down[k] \in Chan
  BY InCookie DEF IInv, TypeInv
<1>2. SlotsGo
  <2>1. admitted' \in [Slot -> BOOLEAN] /\ \A t \in Slot \ {s} : admitted'[t] = admitted[t]
    BY DEF Drop, IInv, TypeInv
  <2>2. slot'[s] = r => SlotGoes(s)
    BY DEF SlotGoes, Playing, InGame
  <2> QED BY <2>1, <2>2, SlotsGoOne DEF Drop
<1>3. UpsGo
  BY CalmSilent, OneUp DEF Drop
<1>4. PICK fate \in Fate, told \in BOOLEAN :
         ToClient(k, IF told THEN Send(Cleared(down[k], fate), "disconnect", 0)
                             ELSE Cleared(down[k], fate))
  BY DEF Drop
<1>5. PICK y \in {Send(Cleared(down[k], fate), "disconnect", 0), Cleared(down[k], fate), Silent} :
         down' = [down EXCEPT ![k] = y]
  BY <1>4 DEF ToClient
<1>6. Calm(y, down[k]) /\ y \in Chan
  BY <1>1, <1>5, ClearedSend, CalmCleared, CalmSilent DEF Calm
<1>7. DownsGo
  BY <1>5, <1>6, OneDown
<1> QED BY <1>2, <1>3, <1>7

LEMMA GoneFacts ==
    ASSUME IInv, NEW s \in Slot
    PROVE  /\ FreeSlot \in SlotRecord /\ FreeSlot.state \notin InGame /\ FreeSlot.cookie = 0
           /\ [slot[s] EXCEPT !.state = "zombie", !.frames = FALSE] \in SlotRecord
           /\ [slot[s] EXCEPT !.state = "zombie", !.frames = FALSE].state \notin InGame
           /\ [slot[s] EXCEPT !.state = "zombie", !.frames = FALSE].cookie = slot[s].cookie
<1>1. FreeSlot \in SlotRecord /\ FreeSlot.state \notin InGame /\ FreeSlot.cookie = 0
  BY HandshakeAssumption DEF FreeSlot, SlotRecord, InGame
<1> DEFINE a == [slot[s] EXCEPT !.state = "zombie"]
           b == [slot[s] EXCEPT !.state = "zombie", !.frames = FALSE]
<1>2. slot[s] \in SlotRecord
  BY DEF IInv, TypeInv
<1>3. a \in SlotRecord /\ a.state = "zombie" /\ a.cookie = slot[s].cookie
  BY <1>2 DEF SlotRecord
<1>4. b = [a EXCEPT !.frames = FALSE]
  BY <1>2 DEF SlotRecord
<1> HIDE DEF a
<1>5. b \in SlotRecord /\ b.state = "zombie" /\ b.cookie = slot[s].cookie
  BY <1>3, <1>4 DEF SlotRecord
<1> HIDE DEF b
<1> QED BY <1>1, <1>5 DEF b, InGame

LEMMA DropQuiet ==
    ASSUME IInv, NEW s \in Slot, slot[s].state \in InGame,
           DropClient(s) \/ Drop(s, FreeSlot),
           PacketsCalm, UNCHANGED <<clientVars, spawncount>>
    PROVE  Quiet
<1>1. PICK r \in SlotRecord : r.state \notin InGame /\ r.cookie \in {0, slot[s].cookie} /\ Drop(s, r)
  <2>1. CASE Drop(s, FreeSlot)
    BY <2>1, GoneFacts
  <2>2. CASE DropClient(s)
    <3> DEFINE r == [slot[s] EXCEPT !.state = "zombie", !.frames = FALSE]
    <3>1. r \in SlotRecord /\ r.state \notin InGame /\ r.cookie = slot[s].cookie
      BY GoneFacts
    <3>2. Drop(s, r)
      BY <2>2 DEF DropClient
    <3> HIDE DEF r
    <3> QED BY <3>1, <3>2
  <2> QED BY <2>1, <2>2
<1>2. SlotsGo /\ UpsGo /\ DownsGo
  BY <1>1, DropCalm
<1> QED BY <1>2, Unchanging DEF Quiet, Going, clientVars

LEMMA ServerNewStep ==
    ASSUME IInv, NEW s \in Slot, Live(s), NEW ch,
           Calm(ch, up[slot[s].cookie]), New(s, ch), UNCHANGED <<clientVars, spawncount>>
    PROVE  IInv'
<1> DEFINE k == slot[s].cookie
<1>0. k \in Cookie /\ slot[s].state \in InGame /\ up \in [Cookie -> Chan]
  BY InCookie DEF Live, IInv, TypeInv
<1>1. CASE /\ admitted' = [admitted EXCEPT ![s] = TRUE]
           /\ Reply(k, ch, "serverdata", spawncount)
           /\ UNCHANGED <<slot, oob>>
  <2>1. /\ up' = [up EXCEPT ![k] = ch] /\ ToClient(k, Send(down[k], "serverdata", spawncount))
    BY <1>1 DEF Reply
  <2>2. UpsGo
    BY <2>1, OneUp DEF Calm
  <2>3. "serverdata" \in Command /\ "serverdata" # "signon" /\ spawncount \in Nat
    BY DEF Command, News, IInv, TypeInv
  <2>4. admitted'[s]
    BY <1>1 DEF IInv, TypeInv
  <2>5. DownsGo
    BY <1>0, <2>1, <2>3, <2>4, NewsDown
  <2>6. SlotsGo
    <3>1. admitted' \in [Slot -> BOOLEAN] /\ \A t \in Slot : admitted[t] => admitted'[t]
      BY <1>1 DEF IInv, TypeInv
    <3>2. \A t \in Slot : SlotGoes(t)
      BY <1>1, <3>1, InCookie DEF SlotGoes, Live
    <3> QED BY <1>1, <3>1, <3>2 DEF SlotsGo, IInv, TypeInv
  <2>7. Quiet
    BY <1>1, <2>2, <2>5, <2>6, Unchanging DEF Quiet, Going, clientVars
  <2> QED BY <2>7, QuietStep
<1>2. CASE Sent(Rejection(slot[s].client)) /\ DropClient(s)
  <2>1. slot[s].client \in Client \cup {NoOne}
    BY DEF IInv, TypeInv, SlotRecord
  <2> DEFINE a == Rejection(slot[s].client)
  <2>2. PacketOK(a) /\ a.type \notin Connects /\ oob \subseteq oob
    BY <2>1 DEF PacketOK, Connects, Rejection
  <2>3. PacketsCalm
    BY <1>2, <2>2, SentCalm DEF Sent
  <2> QED BY <1>0, <1>2, <2>3, DropQuiet, QuietStep
<1> QED BY <1>1, <1>2 DEF New

LEMMA SendResourcesStep ==
    ASSUME IInv, NEW s \in Slot, Live(s), NEW ch, Calm(ch, up[slot[s].cookie]),
           Has(up[slot[s].cookie].queue, "sendres"),
           SendResources(s, ch), UNCHANGED <<clientVars, spawncount>>
    PROVE  IInv'
<1> DEFINE k == slot[s].cookie
           r == [slot[s] EXCEPT !.resources = TRUE]
<1>1. k \in Cookie /\ slot[s].state \in InGame /\ slot[s].frames
  BY InCookie DEF Live
<1>2. /\ r \in SlotRecord /\ r.state = slot[s].state /\ r.cookie = k /\ r.frames = slot[s].frames
  BY SlotRecordFacts
<1>3. slot' = [slot EXCEPT ![s] = r] /\ UNCHANGED <<admitted, oob>>
  BY DEF SendResources
<1> HIDE DEF r
<1>4. SlotsGo
  <2>1. slot'[s] = r => SlotGoes(s)
    BY <1>1, <1>2, <1>3, InCookie DEF SlotGoes, Live
  <2>2. admitted \in [Slot -> BOOLEAN]
    BY DEF IInv, TypeInv
  <2> QED BY <1>2, <1>3, <2>1, <2>2, SlotsGoOne
<1>5. UpsGo
  <2>1. up' = [up EXCEPT ![k] = ch]
    BY DEF SendResources, Reply
  <2> QED BY <2>1, OneUp DEF Calm
<1>6. DownsGo
  <2>1. CASE UNCHANGED down
    BY <2>1, Unchanging
  <2>2. CASE ToClient(k, Send(down[k], "resources", 0))
    <3>1. "resources" \in Command /\ "resources" # "signon" /\ 0 \in Nat
      BY DEF Command, News
    <3> QED BY <1>1, <2>2, <3>1, NewsDown
  <2> QED BY <2>1, <2>2 DEF SendResources, Reply
<1>7. Quiet
  BY <1>3, <1>4, <1>5, <1>6, Unchanging DEF Quiet, Going, clientVars
<1> QED BY <1>7, QuietStep

\* "spawn" and "begin": the slot goes on to the next state.
LEMMA NextStateGoes ==
    ASSUME IInv, NEW s \in Slot, Live(s), NEW x \in Playing, slot' = [slot EXCEPT ![s].state = x],
           slot[s].state \in Playing \/ Has(up[slot[s].cookie].queue, "spawn"),
           UNCHANGED admitted
    PROVE  SlotsGo /\ slot'[s].state = x
<1> DEFINE r == [slot[s] EXCEPT !.state = x]
<1>1. x \in {"zombie"} \cup InGame /\ x # "connected" /\ x \in InGame
  BY DEF Playing, InGame
<1>2. r \in SlotRecord /\ r.state = x /\ r.cookie = slot[s].cookie /\ r.frames = slot[s].frames
  BY <1>1, SlotRecordFacts
<1>3. slot' = [slot EXCEPT ![s] = r]
  OBVIOUS
<1> HIDE DEF r
<1>4. slot'[s] = r => SlotGoes(s)
  BY <1>1, <1>2 DEF SlotGoes, Live
<1>5. admitted \in [Slot -> BOOLEAN]
  BY DEF IInv, TypeInv
<1> QED BY <1>2, <1>3, <1>4, <1>5, SlotsGoOne

LEMMA SpawnStep ==
    ASSUME IInv, NEW s \in Slot, Live(s), slot[s].state = "connected", NEW ch,
           Calm(ch, up[slot[s].cookie]), Has(up[slot[s].cookie].queue, "spawn"),
           slot' = [slot EXCEPT ![s].state = "spawning"],
           Reply(slot[s].cookie, ch, "signon", 0),
           UNCHANGED <<clientVars, admitted, spawncount, oob>>
    PROVE  IInv'
<1> DEFINE k == slot[s].cookie
<1>1. k \in Cookie
  BY InCookie
<1>2. SlotsGo /\ slot'[s].state # "connected"
  BY NextStateGoes DEF Playing
<1>3. UpsGo
  BY OneUp DEF Calm, Reply
<1>4. DownsGo
  <2>1. "signon" \in Command /\ 0 \in Nat /\ ~Has(down[k].queue, "signon")
    BY <1>1 DEF Command, News, IInv, SignonInv
  <2>2. ToClient(k, Send(down[k], "signon", 0))
    BY DEF Reply
  <2> QED BY <1>1, <1>2, <2>1, <2>2, NewsDown
<1>5. Quiet
  BY <1>2, <1>3, <1>4, Unchanging DEF Quiet, Going, clientVars
<1> QED BY <1>5, QuietStep

LEMMA ExecuteStep ==
    ASSUME IInv, NEW s \in Slot, Live(s), NEW m \in up[slot[s].cookie].queue,
           Expects(m, slot[s].state), NEW ch, Calm(ch, up[slot[s].cookie]),
           Execute(s, m, ch), UNCHANGED <<clientVars, spawncount>>
    PROVE  IInv'
<1> DEFINE k == slot[s].cookie
<1>1. k \in Cookie /\ slot[s].state \in InGame
  BY InCookie DEF Live
<1>2. CASE New(s, ch)
  BY <1>2, ServerNewStep
<1>3. CASE m.what = "sendres" /\ SendResources(s, ch)
  BY <1>3, SendResourcesStep DEF Has
<1>4. CASE m.what = "spawn" /\ SpawnClient(s, m.level, ch)
  <2>1. slot[s].state = "connected"
    BY <1>4 DEF Expects
  <2>2. CASE /\ slot' = [slot EXCEPT ![s].state = "spawning"]
             /\ Reply(k, ch, "signon", 0)
             /\ UNCHANGED <<admitted, oob>>
    BY <1>4, <2>1, <2>2, SpawnStep DEF Has
  <2> QED BY <1>2, <1>4, <2>2 DEF SpawnClient
<1>5. CASE /\ m.what = "begin"
           /\ slot' = [slot EXCEPT ![s].state = "spawned"]
           /\ up' = [up EXCEPT ![k] = ch]
           /\ UNCHANGED <<admitted, oob, down>>
  <2>1. slot[s].state \in Playing
    BY <1>5 DEF Expects, Playing
  <2>2. SlotsGo
    BY <1>5, <2>1, NextStateGoes DEF Playing
  <2>3. UpsGo
    BY <1>5, OneUp DEF Calm
  <2>4. Quiet
    BY <1>5, <2>2, <2>3, Unchanging DEF Quiet, Going, clientVars
  <2> QED BY <2>4, QuietStep
<1>6. CASE DropClient(s) /\ UNCHANGED oob
  <2>1. Quiet
    BY <1>1, <1>6, Unchanging, DropQuiet
  <2> QED BY <2>1, QuietStep
<1> QED BY <1>2, <1>3, <1>4, <1>5, <1>6 DEF Execute

LEMMA ServerReadPacketStep ==
    ASSUME IInv, NEW s \in Slot, ServerReadPacket(s)
    PROVE  IInv'
<1> DEFINE k == slot[s].cookie
<1>1. /\ slot[s].state \in InGame /\ UNCHANGED <<clientVars, spawncount>>
      /\ k \in Cookie /\ up \in [Cookie -> Chan] /\ up[k] \in Chan
  BY InCookie DEF ServerReadPacket, IInv, TypeInv
<1>2. PICK m \in Deliverable(up[k]) : \E x \in Arrivals(up[k], m) :
         \/ slot[s].frames /\ Expects(m, slot[s].state) /\ Execute(s, m, x.chan)
         \/ up' = [up EXCEPT ![k] = x.chan] /\ UNCHANGED <<slot, admitted, oob, down>>
  BY Zenon DEF ServerReadPacket
<1>2a. PICK x \in Arrivals(up[k], m) :
         \/ slot[s].frames /\ Expects(m, slot[s].state) /\ Execute(s, m, x.chan)
         \/ up' = [up EXCEPT ![k] = x.chan] /\ UNCHANGED <<slot, admitted, oob, down>>
  BY <1>2
<1> DEFINE ch == x.chan
<1>3. m \in up[k].queue /\ Calm(ch, up[k])
  BY <1>1, ArrivalFacts
<1> HIDE DEF ch
<1>4. CASE slot[s].frames /\ Expects(m, slot[s].state) /\ Execute(s, m, ch)
  BY <1>1, <1>3, <1>4, ExecuteStep DEF Live
<1>5. CASE up' = [up EXCEPT ![k] = ch] /\ UNCHANGED <<slot, admitted, oob, down>>
  <2>1. UpsGo
    BY <1>3, <1>5, OneUp DEF Calm
  <2>2. Quiet
    BY <1>1, <1>5, <2>1, Unchanging DEF Quiet, Going, clientVars
  <2> QED BY <2>2, QuietStep
<1> QED BY <1>2a, <1>4, <1>5 DEF ch

LEMMA SendEntitiesStep ==
    ASSUME IInv, NEW s \in Slot, SendEntities(s)
    PROVE  IInv'
<1> DEFINE k == slot[s].cookie
<1>1. k \in Cookie /\ UNCHANGED <<clientVars, serverVars, oob, up>>
  BY InCookie DEF SendEntities, InGame
<1>2. "entities" \in Command /\ "entities" \notin News /\ "entities" # "signon" /\ 0 \in Nat
  BY DEF Command, News, Unreliable
<1>3. DownsGo
  BY <1>1, <1>2, NewsDown DEF SendEntities
<1>4. Quiet
  BY <1>1, <1>3, Unchanging DEF Quiet, Going, clientVars, serverVars
<1> QED BY <1>4, QuietStep

LEMMA SlotGoesStep ==
    ASSUME IInv, NEW s \in Slot, FreeZombie(s) \/ DropTimedOutClient(s) \/ Kick(s)
    PROVE  IInv'
<1>1. CASE FreeZombie(s)
  <2>1. /\ slot' = [slot EXCEPT ![s] = FreeSlot]
        /\ UNCHANGED <<clientVars, admitted, spawncount, oob, sessionVars>>
    BY <1>1 DEF FreeZombie
  <2>2. SlotsGo
    <3>1. slot'[s] = FreeSlot => SlotGoes(s)
      BY GoneFacts DEF SlotGoes, Playing, InGame
    <3>2. admitted \in [Slot -> BOOLEAN]
      BY DEF IInv, TypeInv
    <3> QED BY <2>1, <3>1, <3>2, GoneFacts, SlotsGoOne
  <2>3. Quiet
    BY <2>1, <2>2, Unchanging DEF Quiet, Going, clientVars, sessionVars
  <2> QED BY <2>3, QuietStep
<1>2. CASE DropTimedOutClient(s) \/ Kick(s)
  <2>1. /\ slot[s].state \in InGame /\ (DropClient(s) \/ Drop(s, FreeSlot))
        /\ UNCHANGED <<clientVars, spawncount, oob>>
    BY <1>2 DEF DropTimedOutClient, Kick
  <2> QED BY <2>1, Unchanging, DropQuiet, QuietStep
<1> QED BY <1>1, <1>2

LEMMA AnswerStep ==
    ASSUME IInv, NEW d \in oob, GetChallenge(d) \/ TestBandWidth(d) \/ RejectClient(d)
    PROVE  IInv'
<1>1. d.client \in Client \cup {NoOne} /\ spawncount \in Nat
  BY DEF IInv, TypeInv, PacketOK
<1>2. PICK a \in {ChallengePacket(d.client, FALSE), ChallengePacket(d.client, TRUE),
                  Rejection(d.client),
                  [type |-> "testpacket", client |-> d.client, test |-> d.test]} :
         oob' \in With(oob \ {d}, a)
  BY DEF GetChallenge, TestBandWidth, RejectClient, Answered
<1>3. PacketOK(a) /\ a.type \notin Connects /\ oob \ {d} \subseteq oob
  BY <1>1, <1>2 DEF PacketOK, Connects, ChallengePacket, Rejection
<1>4. PacketsCalm
  BY <1>2, <1>3, SentCalm
<1>5. UNCHANGED <<clientVars, serverVars, sessionVars>>
  BY DEF GetChallenge, TestBandWidth, RejectClient
<1>6. Quiet
  BY <1>4, <1>5, Unchanging DEF Quiet, Going, clientVars, serverVars, sessionVars
<1> QED BY <1>6, QuietStep

\* After a level change the server executes no session's commands.
LEMMA ChangeStep ==
    ASSUME IInv, ChangeLevel
    PROVE  IInv'
<1>1. /\ slot' = [s \in Slot |-> Deactivated(slot[s])] /\ admitted' = [s \in Slot |-> FALSE]
      /\ spawncount' = spawncount + 1 /\ UNCHANGED <<clientVars, oob, up>>
  BY DEF ChangeLevel
<1>2. \A r \in SlotRecord :
         /\ Deactivated(r) \in SlotRecord /\ ~Deactivated(r).frames
         /\ Deactivated(r).cookie = r.cookie /\ Deactivated(r).state = PutBack(r.state)
  <2> SUFFICES ASSUME NEW r \in SlotRecord
               PROVE  /\ Deactivated(r) \in SlotRecord /\ ~Deactivated(r).frames
                      /\ Deactivated(r).cookie = r.cookie /\ Deactivated(r).state = PutBack(r.state)
    OBVIOUS
  <2> DEFINE p == PutBack(r.state)
             a == [r EXCEPT !.state = p]
             b == [a EXCEPT !.frames = FALSE]
  <2>1. p \in {"free", "zombie"} \cup InGame
    BY DEF PutBack, SlotRecord, InGame
  <2>2. Deactivated(r) = [b EXCEPT !.resources = FALSE]
    BY DEF Deactivated, SlotRecord
  <2> HIDE DEF p
  <2>3. a \in SlotRecord /\ a.state = p /\ a.cookie = r.cookie
    BY <2>1 DEF SlotRecord
  <2> HIDE DEF a
  <2>4. b \in SlotRecord /\ b.state = p /\ b.cookie = r.cookie /\ ~b.frames
    BY <2>3 DEF SlotRecord
  <2> HIDE DEF b
  <2>5. /\ Deactivated(r) \in SlotRecord /\ Deactivated(r).state = p
        /\ Deactivated(r).cookie = r.cookie /\ ~Deactivated(r).frames
    BY <2>2, <2>4 DEF SlotRecord
  <2> QED BY <2>5 DEF p
<1>3. SlotsGo /\ LevelGoes
  <2>1. \A s \in Slot : slot[s] \in SlotRecord /\ slot'[s] = Deactivated(slot[s])
    BY <1>1 DEF IInv, TypeInv
  <2>2. \A s \in Slot : /\ slot'[s] \in SlotRecord /\ ~slot'[s].frames
                        /\ slot'[s].cookie = slot[s].cookie /\ slot'[s].state = PutBack(slot[s].state)
    BY <1>2, <2>1
  <2>3. \A s \in Slot : SlotGoes(s)
    BY <2>2 DEF SlotGoes, PutBack, Playing, InGame
  <2> QED BY <1>1, <2>2, <2>3 DEF SlotsGo, LevelGoes
<1>4. DownsGo
  <2>1. down \in [Cookie -> Chan]
    BY DEF IInv, TypeInv
  <2>2. PICK fate \in [Cookie -> Fate] :
          down' = [k \in Cookie |->
                     IF Heard(k) /\ Heeded(k)
                     THEN Send(Send(Cleared(down[k], fate[k]), "reconnect", 0), "reconnect", 0)
                     ELSE down[k]]
    BY DEF ChangeLevel
  <2>3. ASSUME NEW k \in Cookie
        PROVE  Calm(Send(Send(Cleared(down[k], fate[k]), "reconnect", 0), "reconnect", 0), down[k])
    <3> DEFINE a == Send(Cleared(down[k], fate[k]), "reconnect", 0)
    <3>1. Calm(a, down[k]) /\ a \in Chan
      BY <2>1, ClearedSend DEF Calm
    <3>2. "reconnect" \in Command \ News /\ 0 \in Nat
      BY DEF Command, News, Unreliable
    <3> HIDE DEF a
    <3>3. Calm(Send(a, "reconnect", 0), a)
      BY <3>1, <3>2, CalmSend
    <3>4. Calm(Send(a, "reconnect", 0), down[k])
      BY <3>1, <3>3, CalmTrans
    <3> QED BY <3>4 DEF a
  <2>4. \A k \in Cookie : Calm(down'[k], down[k])
    BY <2>1, <2>2, <2>3, CalmRefl
  <2>5. down' \in [Cookie -> Chan]
    BY <2>2, <2>4 DEF Calm
  <2> QED BY <2>4, <2>5, CalmGoes
<1>5. Quiet
  BY <1>1, <1>3, <1>4, Unchanging DEF Quiet, Going, clientVars
<1> QED BY <1>5, QuietStep

-----------------------------------------------------------------------------
(***************************************************************************)
(* The theorems.                                                           *)
(***************************************************************************)
LEMMA InitInv == Init => IInv
<1> SUFFICES ASSUME Init PROVE IInv
  OBVIOUS
<1> USE DEF Init
<1>1. Silent \in Chan /\ Silent.queue = {}
  BY CalmSilent
<1>2. /\ 0 \in 0 .. ConnectionRetries /\ 0 \in 0 .. TestRetries /\ 0 \in 0 .. MaxCookie
      /\ 0 \in 0 .. 2 /\ 0 \in Nat
  BY HandshakeAssumption
<1>3. cls \in [Client -> ClientRecord]
  BY <1>2 DEF ClientRecord
<1>4. slot \in [Slot -> SlotRecord]
  BY <1>2 DEF SlotRecord, FreeSlot
<1>5. TypeInv
  BY <1>1, <1>2, <1>3, <1>4 DEF TypeInv
<1>6. \A k \in Cookie : up[k].queue = {} /\ down[k].queue = {}
  BY <1>1
<1>7. \A c \in Client : /\ cls[c].state = "disconnected" /\ cls[c].pending = 0
                        /\ cls[c].cookie = 0 /\ cls[c].servercount = 0
  OBVIOUS
<1>8. \A s \in Slot : slot[s].state = "free" /\ slot[s].cookie = 0
  BY DEF FreeSlot
<1>9. BoundInv
  BY <1>6, <1>7, <1>8
     DEF BoundInv, ClientBounds, SlotBounds, InSession, InSignon, InGame, Playing
<1>10. OwnerInv
  BY <1>7, <1>8 DEF OwnerInv
<1>11. FreshInv
  BY <1>6, <1>7, <1>8 DEF FreshInv, Unused, Unspawned, Has, Cookie
<1>12. \A s \in Slot : ~Live(s)
  BY <1>8 DEF Live, InGame
<1>13. SignonInv
  BY <1>6, <1>12 DEF SignonInv, Single, Has
<1> QED BY <1>5, <1>9, <1>10, <1>11, <1>12, <1>13 DEF IInv, AdmittedInv, LevelInv

LEMMA NextInv == IInv /\ [Next]_vars => IInv'
<1> SUFFICES ASSUME IInv, [Next]_vars PROVE IInv'
  OBVIOUS
<1>1. ASSUME NEW c \in Client,
             ClientStep(c) \/ UserConnects(c) \/ UserDisconnects(c) \/ UserReconnects(c)
      PROVE  IInv'
  BY <1>1, ClientSteps
<1>2. ASSUME NEW s \in Slot, ServerStep(s) \/ Kick(s)
      PROVE  IInv'
  BY <1>2, ServerReadPacketStep, SendEntitiesStep, SlotGoesStep DEF ServerStep
<1>3. CASE ConnectionlessPacket
  BY <1>3, AnswerStep, ConnectClientStep DEF ConnectionlessPacket
<1>4. CASE ChangeLevel
  BY <1>4, ChangeStep
<1>5. CASE UNCHANGED vars
  <2>1. Quiet
    BY <1>5, Unchanging DEF Quiet, Going, vars, clientVars, serverVars, sessionVars
  <2> QED BY <2>1, QuietStep
<1> QED BY <1>1, <1>2, <1>3, <1>4, <1>5 DEF Next

\* The invariant from which the properties follow, in every reachable state.
THEOREM HandshakeInvariant == Spec => []IInv
  BY InitInv, NextInv, PTL DEF Spec

\* Every record keeps its type, retries stay within their limits, and no client
\* has a cookie that was not drawn or a level that was not played.
THEOREM HandshakeTypes == Spec => []HandshakeTypeOK
<1>1. IInv => HandshakeTypeOK
  BY DEF IInv, TypeInv, BoundInv, ClientBounds, HandshakeTypeOK, ClientRecord, SlotRecord
<1> QED BY <1>1, HandshakeInvariant, PTL

\* Whoever is in the game of a level has been accepted by it (SV_New_f,
\* SV_Spawn_f), for any number of clients, sessions and level changes.
THEOREM AdmittedTheorem == Spec => []AdmittedByThisLevel
<1>1. IInv => AdmittedByThisLevel
  BY InCookie DEF IInv, AdmittedInv, AdmittedByThisLevel, Begun, Playing
<1> QED BY <1>1, HandshakeInvariant, PTL

\* A session that the server listens to knows of no level but the server's: SV_Spawn_f
\* never meets a "spawn" of another one.
THEOREM OneLevelTheorem == Spec => []OneLevelPerSession
<1>1. IInv => OneLevelPerSession
  BY DEF IInv, LevelInv, OneLevelPerSession, Live, InIt
<1> QED BY <1>1, HandshakeInvariant, PTL

\* A client that plays has the level that the server has spawned it in
\* (CL_CheckClientState, SV_InactivateClients).
THEOREM SameLevelTheorem == Spec => []SameLevel
<1>1. IInv => SameLevel
  BY InCookie DEF IInv, LevelInv, SameLevel, Begun, Playing, InIt, InSession
<1> QED BY <1>1, HandshakeInvariant, PTL

\* No signon reaches a client that has had one (CL_ParseSignon), however often an
\* end starts over and whatever a cleared channel loses.
THEOREM SignonTheorem == Spec => []SignonInTurn
<1>1. IInv => SignonInTurn
  <2> SUFFICES ASSUME IInv, NEW c \in Client, cls[c].state \in InSession,
                      NEW m \in Deliverable(down[cls[c].cookie]), m.what = "signon"
               PROVE  cls[c].signon = 0
    BY DEF SignonInTurn
  <2> DEFINE k == cls[c].cookie
  <2>1. k \in Cookie /\ down[k] \in Chan /\ cls[c].signon \in 0 .. 2
    BY InCookie DEF IInv, TypeInv, ClientRecord
  <2>2. Has(down[k].queue, "signon")
    BY <2>1, TakenFacts DEF Has
  <2>3. ~(cls[c].signon >= 1)
    BY <2>1, <2>2 DEF IInv, SignonInv, Replied, InIt
  <2> QED BY <2>1, <2>3
<1> QED BY <1>1, HandshakeInvariant, PTL
=============================================================================
