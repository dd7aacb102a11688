-------------------------- MODULE UserCommandsProofs --------------------------
(***************************************************************************)
(* For every size of the ring, of a packet and of the gap: each user       *)
(* command is run at most once, each frame of the client leads to one run, *)
(* and what a packet brings is used.                                       *)
(***************************************************************************)
EXTENDS UserCommands, SequenceTheorems, TLAPS

\* The ring holds the last UpdateBackup commands, or nothing where the client
\* did not create commands yet.
RingInv ==
    /\ state = "connected" => \A s \in 0 .. UpdateBackup - 1 : commands[s].number = 0
    /\ \A k \in 1 .. UpdateBackup :
          commands[Slot(outgoing_sequence - k)].number \in {0, outgoing_sequence - k}

\* What a packet brings: the command at place i was created i - 1 frames before it.
Carries(p) ==
    p.move # NoMove =>
        /\ p.move.numcmds <= p.seq
        /\ \A i \in DOMAIN p.move.cmds : p.move.cmds[i].number \in {0, p.seq - i + 1}

\* The sequence numbers of packets: one that carries new commands is that far away
\* from the one sent before it.
NetInv ==
    /\ state # "active" => lastoutgoingcommand = -1
    /\ lastoutgoingcommand < outgoing_sequence /\ lastoutgoingcommand # 0
    /\ \A p \in net :
          /\ p.seq < outgoing_sequence
          /\ IF lastoutgoingcommand = -1 THEN p.move = NoMove ELSE p.seq <= lastoutgoingcommand
          /\ Carries(p)
    /\ \A p, q \in net :
          /\ p.seq = q.seq => p = q
          /\ q.seq < p.seq /\ p.move # NoMove => q.seq + p.move.numcmds <= p.seq
          /\ q.seq < p.seq /\ q.move # NoMove => p.move # NoMove

\* The server goes by a packet the client has sent, and has run nothing newer.
ServerInv ==
    /\ incoming_sequence = 0 \/ \E q \in net : q.seq = incoming_sequence
    /\ run # <<>> => \E q \in net : q.move # NoMove /\ q.seq <= incoming_sequence
    /\ \A i \in DOMAIN run : run[i].seed <= incoming_sequence
    /\ ~dropped

CommandsInv == TypeOK /\ RingInv /\ NetInv /\ ServerInv /\ RunOnce
------------------------------------------------------------------------------
LEMMA Sizes ==
    /\ UpdateBackup \in Nat \ {0} /\ MaxBackup \in Nat /\ MaxTotal \in Nat \ {0}
    /\ MaxTotal + MaxBackup <= UpdateBackup
    /\ CommandMask \in Nat \ {0} /\ MaxTotal + MaxBackup < CommandMask /\ MaxGap \in Nat
BY RingAssumption

LEMMA SlotRange == \A n \in Int : Slot(n) \in 0 .. UpdateBackup - 1
BY Sizes DEF Slot

\* Numbers that are less than a ring apart have slots of their own.
LEMMA SlotsDiffer ==
    ASSUME NEW n \in Int, NEW k \in 1 .. UpdateBackup - 1
    PROVE  Slot(n - k) # Slot(n)
<1>. DEFINE a == (n - k) \div UpdateBackup
            b == n \div UpdateBackup
            r == Slot(n)
            s == Slot(n - k)
<1>. UpdateBackup \in Nat \ {0}
  BY Sizes
<1>1. /\ a \in Int /\ b \in Int /\ r \in Int /\ s \in Int
      /\ n - k = UpdateBackup * a + s /\ n = UpdateBackup * b + r
  BY DEF Slot
<1>. HIDE DEF a, b, r, s
<1>2. UpdateBackup * (b - a) = UpdateBackup * b - UpdateBackup * a
  BY <1>1
<1>3. \A x, y \in Int : n - k = x + s /\ n = y + r /\ s = r => y - x = k
  BY <1>1
<1>4. UpdateBackup * a \in Int /\ UpdateBackup * b \in Int
  BY <1>1
<1>5. ASSUME s = r PROVE FALSE
  <2>1. UpdateBackup * (b - a) = k
    <3>. DEFINE x == UpdateBackup * a
                y == UpdateBackup * b
                z == UpdateBackup * (b - a)
    <3>1. x \in Int /\ y \in Int /\ n - k = x + s /\ n = y + r /\ z = y - x
      BY <1>1, <1>2, <1>4
    <3>. HIDE DEF x, y, z
    <3>2. z = k
      BY <1>3, <1>5, <3>1
    <3>. QED BY <3>2 DEF z
  <2>2. b - a >= 1
    BY <1>1, <2>1
  <2>3. UpdateBackup * (b - a) >= UpdateBackup
    BY <1>1, <2>2
  <2>. QED BY <2>1, <2>3
<1>. QED BY <1>5 DEF r, s
------------------------------------------------------------------------------
(* The client. *)

LEMMA LeastIs == \A a, b \in Int : Least(a, b) \in {a, b} /\ Least(a, b) <= a /\ Least(a, b) <= b
BY DEF Least

\* The ring after CL_CreateCmd.
LEMMA CreatedRing ==
    ASSUME TypeOK, RingInv
    PROVE  /\ Created \in [0 .. UpdateBackup - 1 -> Command]
           /\ state = "connected" => Created = commands
           /\ \A k \in 1 .. UpdateBackup :
                 Created[Slot(outgoing_sequence - k + 1)].number \in {0, outgoing_sequence - k + 1}
<1>1. Slot(outgoing_sequence) \in 0 .. UpdateBackup - 1 /\ outgoing_sequence \in Nat \ {0}
  BY SlotRange DEF TypeOK
<1>2. [number |-> outgoing_sequence, stopped |-> FALSE] \in Command
  BY <1>1 DEF Command
<1>3. Created \in [0 .. UpdateBackup - 1 -> Command]
  BY <1>1, <1>2 DEF Created, TypeOK
<1>4. ASSUME NEW k \in 1 .. UpdateBackup
      PROVE  Created[Slot(outgoing_sequence - k + 1)].number \in {0, outgoing_sequence - k + 1}
  <2>1. CASE k = 1
    <3>1. outgoing_sequence - k + 1 = outgoing_sequence
      BY <1>1, <2>1
    <3>2. Created[Slot(outgoing_sequence)].number \in {0, outgoing_sequence}
      BY <1>1 DEF Created, RingInv, TypeOK
    <3>. QED BY <3>1, <3>2
  <2>2. CASE k # 1
    <3>. DEFINE m == k - 1
    <3>0. m \in 1 .. UpdateBackup - 1 /\ m \in 1 .. UpdateBackup
      BY <2>2, Sizes
    <3>1. outgoing_sequence - k + 1 = outgoing_sequence - m
      BY <1>1, <3>0
    <3>2. Slot(outgoing_sequence - m) # Slot(outgoing_sequence)
      BY <1>1, <3>0, SlotsDiffer
    <3>3. Slot(outgoing_sequence - m) \in 0 .. UpdateBackup - 1
      BY <1>1, <3>0, SlotRange
    <3>4. Created[Slot(outgoing_sequence - m)] = commands[Slot(outgoing_sequence - m)]
      BY <3>2, <3>3 DEF Created, TypeOK
    <3>. QED BY <3>0, <3>1, <3>4 DEF RingInv
  <2>. QED BY <2>1, <2>2
<1>. QED BY <1>3, <1>4 DEF Created

\* What CL_WritePacket puts in a packet.
LEMMA CreatedMoves ==
    ASSUME TypeOK, RingInv, NetInv, NEW k \in Nat
    PROVE  LET m == CreatedMove(Least(k, MaxBackup))
               p == [seq |-> outgoing_sequence, move |-> m]
           IN  /\ m \in Move /\ m # NoMove /\ p \in Packet /\ Carries(p)
               /\ Len(m.cmds) = m.numcmds + m.numbackup
               /\ m.numcmds = NewCommands
               /\ IF lastoutgoingcommand = -1 THEN NewCommands = 0
                  ELSE lastoutgoingcommand + NewCommands <= outgoing_sequence
<1>. DEFINE b == Least(k, MaxBackup)
            m == CreatedMove(b)
            p == [seq |-> outgoing_sequence, move |-> m]
<1>1. b \in 0 .. MaxBackup /\ outgoing_sequence \in Nat \ {0}
  BY LeastIs, Sizes DEF TypeOK
<1>2. /\ NewCommands \in 0 .. MaxTotal /\ NewCommands <= outgoing_sequence
      /\ IF lastoutgoingcommand = -1 THEN NewCommands = 0
         ELSE lastoutgoingcommand + NewCommands <= outgoing_sequence
  <2>1. CASE lastoutgoingcommand < 0
    BY <1>1, <2>1, Sizes DEF NewCommands, TypeOK
  <2>2. CASE ~(lastoutgoingcommand < 0)
    <3>1. lastoutgoingcommand \in Nat \ {0} /\ lastoutgoingcommand < outgoing_sequence
      BY <2>2, <1>1 DEF TypeOK, NetInv
    <3>2. NewCommands = Least(outgoing_sequence - lastoutgoingcommand, MaxTotal)
      BY <2>2 DEF NewCommands
    <3>. QED BY <1>1, <3>1, <3>2, LeastIs, Sizes
  <2>. QED BY <2>1, <2>2
<1>3. /\ m.numbackup = b /\ m.numcmds = NewCommands
      /\ m.cmds = [i \in 1 .. NewCommands + b |-> Created[Slot(outgoing_sequence - i + 1)]]
  BY DEF CreatedMove
<1>4. ASSUME NEW i \in 1 .. NewCommands + b
      PROVE  /\ Created[Slot(outgoing_sequence - i + 1)] \in Command
             /\ Created[Slot(outgoing_sequence - i + 1)].number \in {0, outgoing_sequence - i + 1}
  <2>1. i \in 1 .. UpdateBackup
    BY <1>1, <1>2, Sizes
  <2>2. Slot(outgoing_sequence - i + 1) \in 0 .. UpdateBackup - 1
    BY <1>1, <2>1, SlotRange
  <2>. QED BY <2>1, <2>2, CreatedRing
<1>5. m.cmds \in Seq(Command) /\ Len(m.cmds) = NewCommands + b
      /\ DOMAIN m.cmds = 1 .. NewCommands + b
  <2>1. \A n \in Nat : \A s \in [1 .. n -> Command] :
            s \in Seq(Command) /\ Len(s) = n /\ DOMAIN s = 1 .. n
    OBVIOUS
  <2>2. NewCommands + b \in Nat /\ m.cmds \in [1 .. NewCommands + b -> Command]
    BY <1>1, <1>2, <1>3, <1>4
  <2>. QED BY <2>1, <2>2
<1>6. m \in Move /\ m # NoMove
  <2>1. m = [numbackup |-> m.numbackup, numcmds |-> m.numcmds, cmds |-> m.cmds]
    BY <1>3 DEF CreatedMove
  <2>2. m \in Move
    BY <1>1, <1>2, <1>3, <1>5, <2>1 DEF Move
  <2>3. m.numbackup # NoMove.numbackup
    BY <1>1, <1>3 DEF NoMove
  <2>. QED BY <2>2, <2>3
<1>7. p \in Packet
  BY <1>1, <1>6 DEF Packet
<1>8. Carries(p)
  BY <1>2, <1>3, <1>4, <1>5 DEF Carries
<1>9. Len(m.cmds) = m.numcmds + m.numbackup
  BY <1>1, <1>2, <1>3, <1>5
<1>. QED BY <1>2, <1>3, <1>6, <1>7, <1>8, <1>9
------------------------------------------------------------------------------

\* A frame of the client keeps the ring, and the packets in their order.
LEMMA ClientFrameKeeps ==
    ASSUME TypeOK, RingInv, NetInv, ServerInv, ClientFrame
    PROVE  TypeOK' /\ RingInv' /\ NetInv' /\ ServerInv'
<1>1. /\ commands' = Created /\ outgoing_sequence' = outgoing_sequence + 1
      /\ state' = state /\ UNCHANGED serverVars
  BY DEF ClientFrame
<1>2. outgoing_sequence \in Nat \ {0} /\ outgoing_sequence' \in Nat \ {0}
  BY <1>1 DEF TypeOK
<1>3. RingInv'
  <2>1. ASSUME state' = "connected", NEW s \in 0 .. UpdateBackup - 1 PROVE commands'[s].number = 0
    BY <1>1, <2>1, CreatedRing DEF RingInv
  <2>2. ASSUME NEW k \in 1 .. UpdateBackup
        PROVE  commands'[Slot(outgoing_sequence' - k)].number \in {0, outgoing_sequence' - k}
    <3>1. outgoing_sequence' - k = outgoing_sequence - k + 1
      BY <1>1, <1>2
    <3>. QED BY <1>1, <3>1, CreatedRing
  <2>. QED BY <2>1, <2>2 DEF RingInv
<1>4. PICK move, last :
        /\ net' = net \union {[seq |-> outgoing_sequence, move |-> move]} \/ net' = net
        /\ lastoutgoingcommand' = last
        /\ \/ /\ move = NoMove /\ last = lastoutgoingcommand /\ state # "active"
           \/ /\ state = "active" /\ last = outgoing_sequence
              /\ \E k \in Backups : move = CreatedMove(Least(k, MaxBackup))
           \/ net' = net /\ last = lastoutgoingcommand
  BY DEF ClientFrame, Send
<1>. DEFINE new == [seq |-> outgoing_sequence, move |-> move]
<1>5. CASE net' = net /\ last = lastoutgoingcommand
  <2>1. TypeOK'
    BY <1>1, <1>2, <1>4, <1>5, CreatedRing DEF TypeOK, serverVars
  <2>2. NetInv'
    <3>1. lastoutgoingcommand \in Int /\ \A p \in net : p.seq \in Nat
      BY DEF TypeOK, Packet
    <3>. QED BY <1>1, <1>2, <1>4, <1>5, <3>1 DEF NetInv, Carries
  <2>3. ServerInv'
    BY <1>1, <1>5 DEF ServerInv, serverVars
  <2>. QED BY <1>3, <2>1, <2>2, <2>3
<1>6. CASE ~(net' = net /\ last = lastoutgoingcommand)
  <2>. DEFINE Fits ==
           /\ new \in Packet /\ Carries(new) /\ new.seq = outgoing_sequence /\ new.move = move
           /\ Len(move.cmds) = move.numcmds + move.numbackup \/ move = NoMove
           /\ \/ move = NoMove /\ last = lastoutgoingcommand /\ last = -1
              \/ /\ move \in Move /\ move # NoMove /\ last = outgoing_sequence
                 /\ move.numcmds \in Nat
                 /\ IF lastoutgoingcommand = -1 THEN move.numcmds = 0
                    ELSE lastoutgoingcommand + move.numcmds <= outgoing_sequence
  <2>1. Fits
    <3>1. CASE move = NoMove /\ last = lastoutgoingcommand /\ state # "active"
      BY <1>2, <3>1 DEF Packet, Carries, NetInv
    <3>2. ASSUME last = outgoing_sequence, NEW k \in Backups, move = CreatedMove(Least(k, MaxBackup))
          PROVE  Fits
      <4>1. k \in Nat
        BY BackupAssumption
      <4>. QED BY <3>2, <4>1, CreatedMoves DEF Move
    <3>. QED BY <1>4, <1>6, <3>1, <3>2
  <2>2. net \subseteq net' /\ net' \subseteq net \union {new}
    BY <1>4
  <2>3. \A p \in net : /\ p.seq \in Nat \ {0} /\ p.seq < outgoing_sequence
                       /\ p.move # NoMove => p.move.numcmds \in Nat
    BY DEF TypeOK, Packet, Move, NetInv
  <2>4. TypeOK'
    BY <1>1, <1>2, <1>4, <2>1, <2>2, CreatedRing DEF TypeOK, serverVars
  <2>5. ASSUME NEW p \in net'
        PROVE  /\ p.seq < outgoing_sequence'
               /\ IF lastoutgoingcommand' = -1 THEN p.move = NoMove ELSE p.seq <= lastoutgoingcommand'
               /\ Carries(p)
    <3>1. CASE p = new
      BY <1>1, <1>2, <1>4, <2>1, <3>1
    <3>2. CASE p \in net
      BY <1>1, <1>2, <1>4, <2>1, <2>3, <3>2 DEF NetInv
    <3>. QED BY <2>2, <3>1, <3>2
  <2>6. ASSUME NEW p \in net', NEW q \in net'
        PROVE  /\ p.seq = q.seq => p = q
               /\ q.seq < p.seq /\ p.move # NoMove => q.seq + p.move.numcmds <= p.seq
               /\ q.seq < p.seq /\ q.move # NoMove => p.move # NoMove
    <3>1. CASE p \in net /\ q \in net
      BY <3>1 DEF NetInv
    <3>2. CASE p = new /\ q = new
      BY <2>1, <1>2, <3>2
    <3>3. CASE p = new /\ q \in net
      <4>1. q.seq \in Nat /\ q.seq < p.seq
        BY <2>1, <2>3, <3>3
      <4>2. lastoutgoingcommand = -1 => q.move = NoMove
        BY <3>3 DEF NetInv
      <4>3. lastoutgoingcommand # -1 => q.seq <= lastoutgoingcommand /\ lastoutgoingcommand \in Nat
        BY <3>3 DEF NetInv, TypeOK
      <4>4. q.move # NoMove => p.move # NoMove
        BY <2>1, <3>3, <4>2
      <4>5. p.move # NoMove => q.seq + p.move.numcmds <= p.seq
        BY <1>2, <2>1, <3>3, <4>1, <4>3
      <4>. QED BY <4>1, <4>4, <4>5
    <3>4. CASE p \in net /\ q = new
      BY <1>2, <2>1, <2>3, <3>4
    <3>. QED BY <2>2, <3>1, <3>2, <3>3, <3>4
  <2>7. /\ state' # "active" => lastoutgoingcommand' = -1
        /\ lastoutgoingcommand' < outgoing_sequence' /\ lastoutgoingcommand' # 0
    BY <1>1, <1>2, <1>4, <1>6, <2>1 DEF NetInv
  <2>8. NetInv'
    BY <2>5, <2>6, <2>7 DEF NetInv, Carries
  <2>9. ServerInv'
    BY <1>1, <2>2 DEF ServerInv, serverVars
  <2>. QED BY <1>3, <2>4, <2>8, <2>9
<1>. QED BY <1>5, <1>6

------------------------------------------------------------------------------
(* The server. *)

\* The packet as it is run: stopped, and with nothing missed, during a pause.
Arrived(p) == [p EXCEPT !.move = IF paused THEN Stopped(p.move) ELSE p.move]

Gap(p) == IF paused THEN 0 ELSE Missed(p)

\* What the packet appends to run.
MadeUp(p) ==
    IF Gap(p) < MaxGap THEN Repeated(Arrived(p).move, Gap(p)) \o Recovered(Arrived(p), Gap(p)) ELSE <<>>

Extension(p) == MadeUp(p) \o New(Arrived(p))

Entry == [cmd : Command, seed : Nat]

\* A packet the server accepts, with a move.
Accepted(p) == p \in net /\ p.seq > incoming_sequence /\ p.move # NoMove

\* The new commands of a packet were created after the packet before it.
LEMMA FreshMove ==
    ASSUME TypeOK, NetInv, ServerInv, NEW p, Accepted(p)
    PROVE  /\ p.move \in Move /\ p.seq \in Nat \ {0} /\ incoming_sequence \in Nat
           /\ p.move.numcmds \in 0 .. MaxTotal /\ p.move.numbackup \in 0 .. MaxBackup
           /\ p.move.cmds \in Seq(Command)
           /\ Len(p.move.cmds) = p.move.numcmds + p.move.numbackup
           /\ p.move.numcmds <= p.seq - incoming_sequence
           /\ \A i \in DOMAIN p.move.cmds : p.move.cmds[i].number \in {0, p.seq - i + 1}
<1>1. /\ p.move \in Move /\ p.seq \in Nat \ {0} /\ incoming_sequence \in Nat
      /\ Len(p.move.cmds) = p.move.numcmds + p.move.numbackup
  BY DEF Accepted, TypeOK, Packet
<1>2. /\ p.move.numcmds \in 0 .. MaxTotal /\ p.move.numbackup \in 0 .. MaxBackup
      /\ p.move.cmds \in Seq(Command)
  BY <1>1 DEF Move
<1>3. Carries(p)
  BY DEF Accepted, NetInv
<1>4. p.move.numcmds <= p.seq - incoming_sequence
  <2>1. CASE incoming_sequence = 0
    BY <1>1, <1>2, <1>3, <2>1 DEF Carries, Accepted
  <2>2. ASSUME NEW q \in net, q.seq = incoming_sequence
        PROVE  p.move.numcmds <= p.seq - incoming_sequence
    <3>1. q.seq + p.move.numcmds <= p.seq
      BY <2>2 DEF Accepted, NetInv
    <3>. QED BY <1>1, <1>2, <2>2, <3>1
  <2>. QED BY <2>1, <2>2 DEF ServerInv
<1>. QED BY <1>1, <1>2, <1>3, <1>4 DEF Carries, Accepted

LEMMA SeqOf ==
    ASSUME NEW S, NEW n \in Nat, NEW F, F = [k \in 1 .. n |-> F[k]], \A k \in 1 .. n : F[k] \in S
    PROVE  F \in Seq(S) /\ Len(F) = n
<1>1. F \in [1 .. n -> S]
  OBVIOUS
<1>. QED BY <1>1, LenProperties

\* A pause changes neither the number nor the order of the commands.
LEMMA ArrivedMove ==
    ASSUME TypeOK, NetInv, ServerInv, NEW p, Accepted(p)
    PROVE  LET m == Arrived(p).move
           IN  /\ Arrived(p).seq = p.seq
               /\ m.numcmds = p.move.numcmds /\ m.numbackup = p.move.numbackup
               /\ m.cmds \in Seq(Command)
               /\ DOMAIN m.cmds = 1 .. p.move.numcmds + p.move.numbackup
               /\ \A i \in DOMAIN m.cmds :
                     m.cmds[i] \in Command /\ m.cmds[i].number = p.move.cmds[i].number
<1>1. p \in [seq : Nat \ {0}, move : Move \union {NoMove}]
  BY DEF Accepted, TypeOK, Packet
<1>2. /\ Arrived(p).seq = p.seq
      /\ Arrived(p).move = IF paused THEN Stopped(p.move) ELSE p.move
  BY <1>1 DEF Arrived
<1>3. DOMAIN p.move.cmds = 1 .. p.move.numcmds + p.move.numbackup
      /\ \A i \in DOMAIN p.move.cmds : p.move.cmds[i] \in Command
  BY FreshMove
<1>4. CASE ~paused
  BY <1>2, <1>3, <1>4, FreshMove
<1>5. CASE paused
  <2>. DEFINE c == p.move.cmds
              d == [i \in DOMAIN c |-> IF i <= p.move.numcmds
                                       THEN [c[i] EXCEPT !.stopped = TRUE] ELSE c[i]]
  <2>1. Arrived(p).move = [p.move EXCEPT !.cmds = d]
    BY <1>2, <1>5 DEF Stopped
  <2>2. p.move \in Move
    BY FreshMove
  <2>3. /\ Arrived(p).move.cmds = d
        /\ Arrived(p).move.numcmds = p.move.numcmds /\ Arrived(p).move.numbackup = p.move.numbackup
    BY <2>1, <2>2 DEF Move
  <2>4. ASSUME NEW i \in DOMAIN c PROVE d[i] \in Command /\ d[i].number = c[i].number
    BY <1>3 DEF Command
  <2>5. d \in Seq(Command)
    <3>1. /\ DOMAIN c = 1 .. Len(c) /\ Len(c) \in Nat
          /\ d = [i \in 1 .. Len(c) |-> d[i]] /\ \A i \in 1 .. Len(c) : d[i] \in Command
      <4>1. c \in Seq(Command)
        BY FreshMove
      <4>2. d = [i \in DOMAIN c |-> d[i]]
        OBVIOUS
      <4>. HIDE DEF c, d
      <4>3. DOMAIN c = 1 .. Len(c) /\ Len(c) \in Nat
        BY <4>1
      <4>. QED BY <1>3, <2>4, <4>2, <4>3 DEF c
    <3>. HIDE DEF d
    <3>. QED BY <3>1, SeqOf
  <2>. QED BY <1>2, <1>3, <2>3, <2>4, <2>5
<1>. QED BY <1>4, <1>5


\* The parts a packet's run is put together from.
LEMMA Parts ==
    ASSUME TypeOK, NetInv, ServerInv, NEW p, Accepted(p)
    PROVE  LET n == p.move.numcmds
               b == p.move.numbackup
               g == Gap(p)
               f == Least(g, b)
               r == IF g > b THEN g - b ELSE 0
               A == Repeated(Arrived(p).move, g)
               B == Recovered(Arrived(p), g)
               C == New(Arrived(p))
           IN  /\ g \in Nat /\ g + n <= p.seq - incoming_sequence
               /\ ~paused => g + n = p.seq - incoming_sequence
               /\ f \in Nat /\ r \in Nat /\ r + f = g
               /\ A \in Seq(Entry) /\ Len(A) = r /\ \A j \in 1 .. r : A[j].seed = 0
               /\ B \in Seq(Entry) /\ Len(B) = f
               /\ \A j \in 1 .. f : /\ B[j].seed = p.seq - n - f + j
                                    /\ B[j].cmd.number \in {0, p.seq - n - f + j}
               /\ C \in Seq(Entry) /\ Len(C) = n
               /\ \A j \in 1 .. n : /\ C[j].seed = p.seq - n + j
                                    /\ C[j].cmd.number \in {0, p.seq - n + j}
<1>. DEFINE n == p.move.numcmds
            b == p.move.numbackup
            g == Gap(p)
            f == Least(g, b)
            r == IF g > b THEN g - b ELSE 0
            m == Arrived(p).move
            A == Repeated(m, g)
            B == Recovered(Arrived(p), g)
            C == New(Arrived(p))
            At(i) == Run(m.cmds[i + 1], p.seq - i)
<1>1. /\ p.seq \in Nat \ {0} /\ incoming_sequence \in Nat /\ n \in Nat /\ b \in Nat
      /\ n <= p.seq - incoming_sequence
  BY FreshMove
<1>2. /\ g \in Nat /\ g + n <= p.seq - incoming_sequence
      /\ ~paused => g + n = p.seq - incoming_sequence
  <2>1. CASE paused
    BY <1>1, <2>1 DEF Gap
  <2>2. CASE ~paused
    BY <1>1, <2>2 DEF Gap, Missed
  <2>. QED BY <2>1, <2>2
<1>3. f \in Nat /\ f <= g /\ f <= b /\ f \in {g, b}
  BY <1>1, <1>2, LeastIs
<1>4. r \in Nat /\ r + f = g
  <2>1. CASE g > b
    BY <1>1, <1>2, <1>3, <2>1
  <2>2. CASE ~(g > b)
    BY <1>1, <1>2, <1>3, <2>2
  <2>. QED BY <2>1, <2>2
<1>5. m.numcmds = n /\ m.numbackup = b /\ Arrived(p).seq = p.seq
  BY ArrivedMove
<1>. HIDE DEF g
<1>6. ASSUME NEW i \in Int, 0 <= i, i < n + f
      PROVE  At(i) \in Entry /\ At(i).seed = p.seq - i /\ At(i).cmd.number \in {0, p.seq - i}
  <2>1. i + 1 \in 1 .. n + b /\ p.seq - (i + 1) + 1 = p.seq - i /\ p.seq - i \in Nat
    BY <1>1, <1>2, <1>3, <1>6
  <2>2. DOMAIN p.move.cmds = 1 .. n + b /\ DOMAIN m.cmds = 1 .. n + b
    BY FreshMove, ArrivedMove
  <2>3. m.cmds[i + 1] \in Command /\ m.cmds[i + 1].number \in {0, p.seq - (i + 1) + 1}
    BY <2>1, <2>2, FreshMove, ArrivedMove
  <2>. QED BY <2>1, <2>3 DEF Run, Entry
<1>7. A \in Seq(Entry) /\ Len(A) = r /\ \A j \in 1 .. r : A[j].seed = 0
  <2>1. A = [k \in 1 .. g - b |-> Run(lastcmd, 0)]
    BY <1>5 DEF Repeated
  <2>2. 1 .. g - b = 1 .. r
    BY <1>1, <1>2, <1>4
  <2>3. Run(lastcmd, 0) \in Entry /\ Run(lastcmd, 0).seed = 0
    BY DEF Run, Entry, TypeOK
  <2>. HIDE DEF A, r
  <2>4. A = [k \in 1 .. r |-> A[k]] /\ \A k \in 1 .. r : A[k] = Run(lastcmd, 0)
    BY <2>1, <2>2
  <2>5. A \in Seq(Entry) /\ Len(A) = r
    BY <1>4, <2>3, <2>4, SeqOf
  <2>. QED BY <2>3, <2>4, <2>5
<1>8. /\ B \in Seq(Entry) /\ Len(B) = f
      /\ \A j \in 1 .. f : B[j].seed = p.seq - n - f + j /\ B[j].cmd.number \in {0, p.seq - n - f + j}
  <2>1. B = [k \in 1 .. f |-> At(n + f - k)]
    BY <1>5 DEF Recovered
  <2>2. ASSUME NEW k \in 1 .. f
        PROVE  /\ n + f - k \in Int /\ 0 <= n + f - k /\ n + f - k < n + f
               /\ p.seq - (n + f - k) = p.seq - n - f + k
    BY <1>1, <1>3
  <2>. HIDE DEF At, B
  <2>3. ASSUME NEW k \in 1 .. f
        PROVE  /\ At(n + f - k) \in Entry /\ At(n + f - k).seed = p.seq - n - f + k
               /\ At(n + f - k).cmd.number \in {0, p.seq - n - f + k}
    BY <1>6, <2>2
  <2>4. B = [k \in 1 .. f |-> B[k]] /\ \A k \in 1 .. f : B[k] = At(n + f - k)
    BY <2>1
  <2>5. B \in Seq(Entry) /\ Len(B) = f
    BY <1>3, <2>3, <2>4, SeqOf
  <2>. QED BY <2>3, <2>4, <2>5
<1>9. /\ C \in Seq(Entry) /\ Len(C) = n
      /\ \A j \in 1 .. n : C[j].seed = p.seq - n + j /\ C[j].cmd.number \in {0, p.seq - n + j}
  <2>1. C = [k \in 1 .. n |-> At(n - k)]
    BY <1>5 DEF New
  <2>2. ASSUME NEW k \in 1 .. n
        PROVE  n - k \in Int /\ 0 <= n - k /\ n - k < n + f /\ p.seq - (n - k) = p.seq - n + k
    BY <1>1, <1>3
  <2>. HIDE DEF At, C
  <2>3. ASSUME NEW k \in 1 .. n
        PROVE  /\ At(n - k) \in Entry /\ At(n - k).seed = p.seq - n + k
               /\ At(n - k).cmd.number \in {0, p.seq - n + k}
    BY <1>6, <2>2
  <2>4. C = [k \in 1 .. n |-> C[k]] /\ \A k \in 1 .. n : C[k] = At(n - k)
    BY <2>1
  <2>5. C \in Seq(Entry) /\ Len(C) = n
    <3>1. n \in Nat /\ \A k \in 1 .. n : C[k] \in Entry
      BY <1>1, <2>3, <2>4
    <3>. HIDE DEF n
    <3>. QED BY <3>1, <2>4, SeqOf
  <2>. QED BY <2>3, <2>4, <2>5
<1>. QED BY <1>2, <1>3, <1>4, <1>7, <1>8, <1>9 DEF g

\* What a packet appends ends with its own command, counts up to it one by one,
\* and does not go back to what an earlier packet has run.
LEMMA Appended ==
    ASSUME TypeOK, NetInv, ServerInv, NEW p, Accepted(p)
    PROVE  LET ext  == Extension(p)
               base == p.seq - Len(ext)
           IN  /\ ext \in Seq(Entry) /\ base \in Nat /\ base >= incoming_sequence
               /\ \A j \in 1 .. Len(ext) :
                     \/ ext[j].seed = 0
                     \/ ext[j].seed = base + j /\ ext[j].cmd.number \in {0, base + j}
               /\ ~paused /\ p.seq - incoming_sequence < MaxGap =>
                     /\ base = incoming_sequence
                     /\ \A j \in 1 .. Len(ext) :
                           j > p.seq - incoming_sequence - p.move.numcmds - p.move.numbackup =>
                               ext[j].seed = base + j
<1>. DEFINE n == p.move.numcmds
            b == p.move.numbackup
            g == Gap(p)
            f == Least(g, b)
            r == IF g > b THEN g - b ELSE 0
            A == Repeated(Arrived(p).move, g)
            B == Recovered(Arrived(p), g)
            C == New(Arrived(p))
            M == MadeUp(p)
            ext == Extension(p)
            base == p.seq - Len(ext)
<1>1. /\ p.seq \in Nat \ {0} /\ incoming_sequence \in Nat /\ n \in Nat /\ b \in Nat
      /\ n <= p.seq - incoming_sequence /\ MaxGap \in Nat
  BY FreshMove, Sizes
<1>2. /\ g \in Nat /\ g + n <= p.seq - incoming_sequence
      /\ ~paused => g + n = p.seq - incoming_sequence
      /\ f \in Nat /\ r \in Nat /\ r + f = g
      /\ A \in Seq(Entry) /\ Len(A) = r /\ \A j \in 1 .. r : A[j].seed = 0
      /\ B \in Seq(Entry) /\ Len(B) = f
      /\ \A j \in 1 .. f : B[j].seed = p.seq - n - f + j /\ B[j].cmd.number \in {0, p.seq - n - f + j}
      /\ C \in Seq(Entry) /\ Len(C) = n
      /\ \A j \in 1 .. n : C[j].seed = p.seq - n + j /\ C[j].cmd.number \in {0, p.seq - n + j}
  BY Parts
<1>3. r = IF g > b THEN g - b ELSE 0
  OBVIOUS
<1>4. M = (IF g < MaxGap THEN A \o B ELSE <<>>) /\ ext = M \o C
  BY DEF MadeUp, Extension
<1>. HIDE DEF g, f, r, A, B, C, M, ext, n, b
<1>5. CASE g < MaxGap
  <2>1. /\ M \in Seq(Entry) /\ Len(M) = g
        /\ \A j \in 1 .. g : M[j] = IF j <= r THEN A[j] ELSE B[j - r]
    <3>1. M = A \o B
      BY <1>4, <1>5
    <3>2. /\ A \o B \in Seq(Entry) /\ Len(A \o B) = Len(A) + Len(B)
          /\ \A j \in 1 .. Len(A) + Len(B) : (A \o B)[j] = IF j <= Len(A) THEN A[j] ELSE B[j - Len(A)]
      <4>1. A \in Seq(Entry) /\ B \in Seq(Entry)
        BY <1>2
      <4>. QED BY <4>1, ConcatProperties
    <3>. QED BY <1>2, <3>1, <3>2
  <2>2. /\ ext \in Seq(Entry) /\ Len(ext) = g + n
        /\ \A j \in 1 .. g + n : ext[j] = IF j <= g THEN M[j] ELSE C[j - g]
    <3>1. /\ M \o C \in Seq(Entry) /\ Len(M \o C) = Len(M) + Len(C)
          /\ \A j \in 1 .. Len(M) + Len(C) : (M \o C)[j] = IF j <= Len(M) THEN M[j] ELSE C[j - Len(M)]
      <4>1. M \in Seq(Entry) /\ C \in Seq(Entry)
        BY <1>2, <2>1
      <4>. QED BY <4>1, ConcatProperties
    <3>2. Len(M) = g /\ Len(C) = n /\ ext = M \o C
      BY <1>2, <1>4, <2>1
    <3>. QED BY <3>1, <3>2
  <2>3. base = p.seq - n - g
    BY <1>1, <1>2, <2>2
  <2>4. ASSUME NEW j \in 1 .. r PROVE ext[j].seed = 0
    BY <1>1, <1>2, <2>1, <2>2
  <2>5. ASSUME NEW j \in 1 .. g + n, j > r
        PROVE  ext[j].seed = base + j /\ ext[j].cmd.number \in {0, base + j}
    <3>1. CASE j <= g
      <4>1. ext[j] = B[j - r]
        BY <1>2, <2>1, <2>2, <2>5, <3>1
      <4>2. j - r \in 1 .. f /\ p.seq - n - f + (j - r) = base + j
        <5>1. /\ p.seq \in Int /\ n \in Int /\ f \in Int /\ r \in Nat /\ g \in Int /\ r + f = g
              /\ base = p.seq - n - g /\ j \in Int /\ j > r /\ j <= g
          BY <1>1, <1>2, <2>3, <2>5, <3>1
        <5>. HIDE DEF base
        <5>. QED BY <5>1
      <4>. QED BY <1>2, <4>1, <4>2
    <3>2. CASE j > g
      <4>1. ext[j] = C[j - g]
        BY <1>2, <2>2, <3>2
      <4>2. j - g \in 1 .. n /\ p.seq - n + (j - g) = base + j
        <5>1. /\ p.seq \in Int /\ n \in Int /\ g \in Int
              /\ base = p.seq - n - g /\ j \in Int /\ j > g /\ j <= g + n
          BY <1>1, <1>2, <2>3, <2>5, <3>2
        <5>. HIDE DEF base
        <5>. QED BY <5>1
      <4>. QED BY <1>2, <4>1, <4>2
    <3>. QED BY <1>1, <1>2, <3>1, <3>2
  <2>6. ASSUME NEW j \in 1 .. Len(ext)
        PROVE  \/ ext[j].seed = 0
               \/ ext[j].seed = base + j /\ ext[j].cmd.number \in {0, base + j}
    <3>1. j \in 1 .. g + n /\ (j \in 1 .. r \/ j > r)
      BY <1>1, <1>2, <2>2
    <3>. QED BY <2>4, <2>5, <3>1
  <2>7. base \in Nat /\ base >= incoming_sequence /\ (~paused => base = incoming_sequence)
    BY <1>1, <1>2, <2>3
  <2>8. ASSUME ~paused, NEW j \in 1 .. Len(ext), j > p.seq - incoming_sequence - n - b
        PROVE  ext[j].seed = base + j
    <3>1. j \in 1 .. g + n /\ j > r
      BY <1>1, <1>2, <1>3, <2>2, <2>8
    <3>. QED BY <2>5, <3>1
  <2>. QED BY <2>2, <2>6, <2>7, <2>8 DEF n, b, ext
<1>6. CASE ~(g < MaxGap)
  <2>1. /\ ext \in Seq(Entry) /\ Len(ext) = n /\ \A j \in 1 .. n : ext[j] = C[j]
    BY <1>1, <1>2, <1>4, <1>6
  <2>2. base = p.seq - n
    BY <2>1
  <2>3. base \in Nat /\ base >= incoming_sequence
    BY <1>1, <2>2
  <2>4. \A j \in 1 .. Len(ext) : ext[j].seed = base + j /\ ext[j].cmd.number \in {0, base + j}
    BY <1>2, <2>1, <2>2
  <2>5. ~(~paused /\ p.seq - incoming_sequence < MaxGap)
    BY <1>1, <1>2, <1>6
  <2>. QED BY <2>1, <2>3, <2>4, <2>5 DEF n, b, ext
<1>. QED BY <1>5, <1>6


\* RunMove in terms of what is appended.
LEMMA RunMoveIs ==
    ASSUME TypeOK, NetInv, ServerInv, NEW p, Accepted(p), RunMove(p)
    PROVE  run' = run \o Extension(p) /\ lastcmd' \in Command
<1>. DEFINE m == Arrived(p).move
<1>1. p \in [seq : Nat \ {0}, move : Move \union {NoMove}]
  BY DEF Accepted, TypeOK, Packet
<1>2. /\ m = IF paused THEN Stopped(p.move) ELSE p.move
      /\ Arrived(p) = [p EXCEPT !.move = m]
  BY <1>1 DEF Arrived
<1>3. run' = run \o (MadeUp(p) \o New(Arrived(p)))
  <2>1. run' = run \o MadeUp(p) \o New(Arrived(p))
    BY <1>2 DEF RunMove, MadeUp, Gap
  <2>2. run \in Seq(Entry) /\ MadeUp(p) \in Seq(Entry) /\ New(Arrived(p)) \in Seq(Entry)
    <3>1. run \in Seq(Entry)
      BY DEF TypeOK, Entry
    <3>2. Repeated(m, Gap(p)) \in Seq(Entry) /\ Recovered(Arrived(p), Gap(p)) \in Seq(Entry)
      BY Parts
    <3>3. New(Arrived(p)) \in Seq(Entry)
      BY Parts
    <3>4. Repeated(m, Gap(p)) \o Recovered(Arrived(p), Gap(p)) \in Seq(Entry)
      BY <3>2, ConcatProperties
    <3>. QED BY <3>1, <3>3, <3>4 DEF MadeUp
  <2>3. run \o MadeUp(p) \o New(Arrived(p)) = run \o (MadeUp(p) \o New(Arrived(p)))
    BY <2>2, ConcatAssociative
  <2>. QED BY <2>1, <2>3
<1>4. lastcmd' = IF m.cmds = <<>> THEN NoCommand ELSE m.cmds[1]
  BY <1>2 DEF RunMove
<1>5. m.cmds \in Seq(Command)
  BY ArrivedMove
<1>6. NoCommand \in Command
  BY DEF NoCommand, Command
<1>7. lastcmd' \in Command
  <2>. HIDE DEF m
  <2>1. m.cmds # <<>> => m.cmds[1] \in Command
    BY <1>5
  <2>. QED BY <1>4, <1>6, <2>1
<1>. QED BY <1>3, <1>7 DEF Extension

\* What a step of SV_ReadPackets that runs a move does to run.
LEMMA RunGrows ==
    ASSUME CommandsInv, NEW p, Accepted(p), run' = run \o Extension(p)
    PROVE  /\ run' \in Seq(Entry) /\ RunOnce'
           /\ \A i \in DOMAIN run' : run'[i].seed <= p.seq
<1>. DEFINE ext == Extension(p)
            base == p.seq - Len(ext)
            l == Len(run)
<1>0. TypeOK /\ NetInv /\ ServerInv /\ RunOnce
  BY DEF CommandsInv
<1>1. /\ p.seq \in Nat /\ incoming_sequence \in Nat /\ p.seq > incoming_sequence
      /\ run \in Seq(Entry) /\ l \in Nat
      /\ \A i \in 1 .. l : run[i].seed \in Nat /\ run[i].seed <= incoming_sequence
  <2>1. run \in Seq(Entry) /\ DOMAIN run = 1 .. l /\ l \in Nat
    BY <1>0 DEF TypeOK, Entry
  <2>2. ASSUME NEW i \in 1 .. l PROVE run[i].seed \in Nat /\ run[i].seed <= incoming_sequence
    <3>1. run[i] \in Entry /\ i \in DOMAIN run
      BY <2>1
    <3>. QED BY <1>0, <3>1 DEF ServerInv, Entry
  <2>3. p.seq \in Nat /\ incoming_sequence \in Nat /\ p.seq > incoming_sequence
    BY <1>0, FreshMove DEF Accepted
  <2>. QED BY <2>1, <2>2, <2>3
<1>2. /\ ext \in Seq(Entry) /\ base \in Nat /\ base >= incoming_sequence
      /\ \A j \in 1 .. Len(ext) : \/ ext[j].seed = 0
                                  \/ ext[j].seed = base + j /\ ext[j].cmd.number \in {0, base + j}
  BY <1>0, Appended
<1>3. /\ run' \in Seq(Entry) /\ DOMAIN run' = 1 .. l + Len(ext) /\ Len(ext) \in Nat
      /\ base + Len(ext) = p.seq
      /\ \A i \in 1 .. l + Len(ext) : run'[i] = IF i <= l THEN run[i] ELSE ext[i - l]
  <2>. HIDE DEF ext
  <2>1. /\ run \o ext \in Seq(Entry) /\ Len(run \o ext) = Len(run) + Len(ext)
        /\ \A j \in 1 .. Len(run) + Len(ext) :
              (run \o ext)[j] = IF j <= Len(run) THEN run[j] ELSE ext[j - Len(run)]
    BY <1>1, <1>2, ConcatProperties
  <2>2. run' = run \o ext /\ Len(ext) \in Nat
    BY <1>2 DEF ext
  <2>. QED BY <1>1, <2>1, <2>2
<1>. HIDE DEF ext, base, l
<1>4. ASSUME NEW i \in 1 .. l + Len(ext), i > l
      PROVE  \/ run'[i].seed = 0
             \/ run'[i].seed = base + (i - l) /\ run'[i].cmd.number \in {0, base + (i - l)}
  <2>1. i - l \in 1 .. Len(ext) /\ run'[i] = ext[i - l]
    BY <1>1, <1>3, <1>4
  <2>. QED BY <1>2, <2>1
<1>5. ASSUME NEW i \in 1 .. l + Len(ext)
      PROVE  /\ run'[i].seed <= p.seq
             /\ run'[i].seed # 0 => run'[i].cmd.number \in {0, run'[i].seed}
  <2>1. CASE i <= l
    <3>1. i \in 1 .. l /\ run'[i] = run[i] /\ i \in DOMAIN run
      BY <1>1, <1>3, <2>1 DEF l
    <3>. QED BY <1>0, <1>1, <3>1 DEF RunOnce
  <2>2. CASE i > l
    BY <1>1, <1>2, <1>3, <1>4, <2>2
  <2>. QED BY <1>1, <1>3, <2>1, <2>2
<1>6. ASSUME NEW i \in 1 .. l + Len(ext), NEW j \in 1 .. l + Len(ext),
             i < j, run'[i].seed # 0, run'[j].seed # 0
      PROVE  run'[i].seed < run'[j].seed
  <2>1. CASE j <= l
    <3>1. /\ i \in DOMAIN run /\ j \in DOMAIN run
          /\ run'[i] = run[i] /\ run'[j] = run[j]
      BY <1>1, <1>3, <1>6, <2>1 DEF l
    <3>. QED BY <1>0, <1>6, <3>1 DEF RunOnce
  <2>2. CASE i <= l /\ j > l
    <3>1. i \in 1 .. l /\ run'[i] = run[i]
      BY <1>1, <1>3, <2>2
    <3>2. run'[i].seed \in Nat /\ run'[i].seed <= incoming_sequence
      BY <1>1, <3>1
    <3>3. run'[j].seed = base + (j - l)
      BY <1>4, <1>6, <2>2
    <3>4. /\ incoming_sequence \in Int /\ base \in Int /\ base >= incoming_sequence
          /\ j \in Int /\ l \in Int /\ run'[i].seed \in Int
      BY <1>1, <1>2, <1>3, <3>2
    <3>5. \A x, y, z, v, w \in Int : x <= y /\ y <= z /\ v > w => x < z + (v - w)
      OBVIOUS
    <3>6. run'[i].seed < base + (j - l)
      BY <2>2, <3>2, <3>4, <3>5
    <3>. QED BY <3>3, <3>6
  <2>3. CASE i > l
    <3>1. run'[i].seed = base + (i - l) /\ run'[j].seed = base + (j - l)
      <4>1. j > l
        BY <1>1, <1>3, <1>6, <2>3
      <4>2. run'[i].seed = base + (i - l)
        BY <1>4, <1>6, <2>3
      <4>3. run'[j].seed = base + (j - l)
        BY <1>4, <1>6, <4>1
      <4>. QED BY <4>2, <4>3
    <3>2. i \in Int /\ j \in Int /\ l \in Int /\ base \in Int /\ i < j
      BY <1>1, <1>2, <1>3, <1>6
    <3>. QED BY <3>1, <3>2
  <2>4. i \in Int /\ j \in Int /\ l \in Int
    BY <1>1, <1>3
  <2>5. j <= l \/ (i <= l /\ j > l) \/ i > l
    BY <2>4
  <2>. QED BY <2>1, <2>2, <2>3, <2>5, Zenon
<1>7. RunOnce'
  BY <1>3, <1>5, <1>6 DEF RunOnce
<1>. QED BY <1>3, <1>5, <1>7

LEMMA ServerKeeps ==
    ASSUME CommandsInv, NEW p \in net, NEW begin \in BOOLEAN, ServerReadPacket(p, begin)
    PROVE  /\ CommandsInv'
           /\ spawned' /\ p.move # NoMove => Accepted(p) /\ RunMove(p)
           /\ run # <<>> => p.move # NoMove
<1>0. TypeOK /\ RingInv /\ NetInv /\ ServerInv /\ RunOnce
  BY DEF CommandsInv
<1>1. /\ UNCHANGED <<clientVars, net, paused>>
      /\ p.seq > incoming_sequence /\ incoming_sequence' = p.seq
      /\ spawned' = (spawned \/ begin)
      /\ ~dropped
  BY DEF ServerReadPacket
<1>2. p.seq \in Nat \ {0} /\ incoming_sequence \in Nat
  BY <1>0 DEF TypeOK, Packet
<1>3. run # <<>> => p.move # NoMove
  <2>1. ASSUME run # <<>> PROVE p.move # NoMove
    <3>1. PICK q \in net : q.move # NoMove /\ q.seq <= incoming_sequence
      BY <1>0, <2>1 DEF ServerInv
    <3>2. q.seq \in Nat /\ q.seq < p.seq
      BY <1>0, <1>1, <1>2, <3>1 DEF TypeOK, Packet
    <3>. QED BY <1>0, <3>1, <3>2 DEF NetInv
  <2>. QED BY <2>1
<1>4. ~dropped'
  <2>1. dropped' = (Len(p.move.cmds) >= CommandMask)
    BY DEF ServerReadPacket
  <2>2. Len(p.move.cmds) \in Nat /\ Len(p.move.cmds) <= MaxTotal + MaxBackup
    <3>1. CASE p.move = NoMove
      BY <3>1, Sizes DEF NoMove
    <3>2. CASE p.move # NoMove
      <4>1. Accepted(p)
        BY <1>1, <3>2 DEF Accepted
      <4>2. /\ p.move.numcmds \in 0 .. MaxTotal /\ p.move.numbackup \in 0 .. MaxBackup
            /\ Len(p.move.cmds) = p.move.numcmds + p.move.numbackup
        BY <1>0, <4>1, FreshMove
      <4>. QED BY <4>2, Sizes
    <3>. QED BY <3>1, <3>2
  <2>3. ~(Len(p.move.cmds) >= CommandMask)
    BY <2>2, Sizes
  <2>. QED BY <2>1, <2>3
<1>5. IF p.move # NoMove /\ spawned' THEN Accepted(p) /\ RunMove(p) ELSE UNCHANGED <<run, lastcmd>>
  BY <1>1, <1>4 DEF ServerReadPacket, Accepted
<1>6. /\ run' \in Seq(Entry) /\ lastcmd' \in Command /\ RunOnce'
      /\ \A i \in DOMAIN run' : run'[i].seed <= p.seq
  <2>1. CASE p.move # NoMove /\ spawned'
    <3>1. Accepted(p) /\ run' = run \o Extension(p) /\ lastcmd' \in Command
      BY <1>0, <1>5, <2>1, RunMoveIs
    <3>. QED BY <3>1, RunGrows
  <2>2. CASE ~(p.move # NoMove /\ spawned')
    <3>1. run' = run /\ lastcmd' = lastcmd
      BY <1>5, <2>2
    <3>2. \A i \in DOMAIN run : run[i].seed \in Nat
      <4>1. run \in Seq(Entry)
        BY <1>0 DEF TypeOK, Entry
      <4>2. \A i \in DOMAIN run : run[i] \in Entry
        BY <4>1
      <4>. QED BY <4>2 DEF Entry
    <3>3. \A i \in DOMAIN run : run[i].seed <= p.seq
      BY <1>0, <1>1, <1>2, <3>2 DEF ServerInv
    <3>4. RunOnce'
      BY <1>0, <3>1 DEF RunOnce
    <3>. QED BY <1>0, <3>1, <3>3, <3>4 DEF TypeOK, Entry
  <2>. QED BY <2>1, <2>2
<1>7. TypeOK'
  <2>1. spawned' \in BOOLEAN /\ paused' \in BOOLEAN /\ dropped' \in BOOLEAN
    <3>1. spawned \in BOOLEAN /\ paused \in BOOLEAN /\ paused' = paused
      BY <1>0, <1>1 DEF TypeOK
    <3>2. spawned' \in BOOLEAN
      BY <1>1
    <3>3. dropped' = FALSE
      <4>1. dropped' = (Len(p.move.cmds) >= CommandMask)
        BY DEF ServerReadPacket
      <4>. QED BY <1>4, <4>1
    <3>. QED BY <3>1, <3>2, <3>3
  <2>2. incoming_sequence' \in Nat /\ run' \in Seq([cmd : Command, seed : Nat])
    BY <1>1, <1>2, <1>6 DEF Entry
  <2>. QED BY <1>0, <1>1, <1>6, <2>1, <2>2 DEF TypeOK, clientVars
<1>8. RingInv'
  BY <1>0, <1>1 DEF RingInv, clientVars
<1>9. NetInv'
  BY <1>0, <1>1 DEF NetInv, Carries, clientVars
<1>10. ServerInv'
  <2>1. run' # <<>> => \E q \in net' : q.move # NoMove /\ q.seq <= incoming_sequence'
    <3>1. run' # <<>> => p.move # NoMove
      BY <1>3, <1>5
    <3>. QED BY <1>1, <1>2, <3>1
  <2>. QED BY <1>1, <1>4, <1>6, <2>1 DEF ServerInv
<1>. QED BY <1>3, <1>5, <1>6, <1>7, <1>8, <1>9, <1>10 DEF CommandsInv

------------------------------------------------------------------------------
LEMMA InitCommands == Init => CommandsInv
<1>. SUFFICES ASSUME Init PROVE CommandsInv
  OBVIOUS
<1>. USE DEF Init
<1>1. TypeOK
  <2>1. NoCommand \in Command
    BY DEF NoCommand, Command
  <2>2. commands \in [0 .. UpdateBackup - 1 -> Command]
    BY <2>1
  <2>3. run \in Seq([cmd : Command, seed : Nat])
    OBVIOUS
  <2>4. /\ outgoing_sequence \in Nat \ {0} /\ lastoutgoingcommand \in Nat \union {-1}
        /\ incoming_sequence \in Nat /\ state \in {"connected", "validate", "active"}
    OBVIOUS
  <2>. HIDE DEF Init
  <2>5. /\ net = {} /\ lastcmd = NoCommand
        /\ spawned = FALSE /\ paused = FALSE /\ dropped = FALSE
    BY DEF Init
  <2>. QED BY <2>1, <2>2, <2>3, <2>4, <2>5 DEF TypeOK
<1>2. RingInv
  <2>1. \A n \in 0 .. UpdateBackup - 1 : commands[n].number = 0
    BY DEF NoCommand
  <2>2. \A k \in 1 .. UpdateBackup : Slot(outgoing_sequence - k) \in 0 .. UpdateBackup - 1
    BY SlotRange, Sizes
  <2>. QED BY <2>1, <2>2 DEF RingInv
<1>3. NetInv /\ ServerInv /\ RunOnce
  BY DEF NetInv, ServerInv, RunOnce
<1>. QED BY <1>1, <1>2, <1>3 DEF CommandsInv

LEMMA NextCommands == CommandsInv /\ [Next]_vars => CommandsInv'
<1>. SUFFICES ASSUME CommandsInv, [Next]_vars PROVE CommandsInv'
  OBVIOUS
<1>0. TypeOK /\ RingInv /\ NetInv /\ ServerInv /\ RunOnce
  BY DEF CommandsInv
<1>1. CASE ClientFrame
  <2>1. TypeOK' /\ RingInv' /\ NetInv' /\ ServerInv'
    BY <1>0, <1>1, ClientFrameKeeps
  <2>2. run' = run
    BY <1>1 DEF ClientFrame, serverVars
  <2>. QED BY <1>0, <2>1, <2>2 DEF CommandsInv, RunOnce
<1>2. CASE ClientValidates
  BY <1>0, <1>2 DEF ClientValidates, CommandsInv, TypeOK, RingInv, NetInv, Carries, ServerInv,
                    RunOnce, serverVars
<1>3. CASE ClientActivates
  BY <1>0, <1>3 DEF ClientActivates, CommandsInv, TypeOK, RingInv, NetInv, Carries, ServerInv,
                    RunOnce, serverVars
<1>4. ASSUME NEW p \in net, NEW begin \in BOOLEAN, ServerReadPacket(p, begin)
      PROVE  CommandsInv'
  BY <1>4, ServerKeeps
<1>5. CASE ServerPause
  <2>1. paused' \in BOOLEAN
    BY <1>5 DEF ServerPause
  <2>. QED BY <1>0, <1>5, <2>1 DEF ServerPause, CommandsInv, TypeOK, RingInv, NetInv, Carries,
                                   ServerInv, RunOnce, clientVars
<1>6. CASE UNCHANGED vars
  BY <1>0, <1>6 DEF CommandsInv, TypeOK, RingInv, NetInv, Carries, ServerInv, RunOnce, vars,
                    clientVars, serverVars
<1>. QED BY <1>1, <1>2, <1>3, <1>4, <1>5, <1>6 DEF Next

\* The inductive invariant: the ring, the packets and what the server has run
\* agree on the numbers of the commands.
LEMMA CommandsAlways == Spec => []CommandsInv
BY InitCommands, NextCommands, PTL DEF Spec

\* The variables keep their types: every index into the ring and into a packet
\* is in range, and no sequence number computed by SV_ParseClientMove is negative.
THEOREM CommandsTypeCorrect == Spec => []TypeOK
<1>1. CommandsInv => TypeOK
  BY DEF CommandsInv
<1>. QED BY <1>1, CommandsAlways, PTL

\* CL_WritePacket never writes as many commands as SV_ParseClientMove refuses.
THEOREM NobodyIsDropped == Spec => []HonestIsKept
<1>1. CommandsInv => HonestIsKept
  BY DEF CommandsInv, ServerInv, HonestIsKept
<1>. QED BY <1>1, CommandsAlways, PTL

\* However datagrams are lost, doubled and reordered, SV_RunCmd is never called
\* for the same command twice, nor for an older one after a newer one.
THEOREM RunAtMostOnce == Spec => []RunOnce
<1>1. CommandsInv => RunOnce
  BY DEF CommandsInv
<1>. QED BY <1>1, CommandsAlways, PTL

\* Only SV_ReadPackets takes a sequence number.
LEMMA OnlyRead ==
    ASSUME CommandsInv, [Next]_vars, NEW p \in net, incoming_sequence' = p.seq,
           p.seq > incoming_sequence, spawned', p.move # NoMove \/ run # <<>>
    PROVE  Accepted(p) /\ run' = run \o Extension(p)
<1>0. p.seq \in Nat /\ incoming_sequence \in Nat /\ NetInv
  BY DEF CommandsInv, TypeOK, Packet
<1>1. PICK q \in net, begin \in BOOLEAN : ServerReadPacket(q, begin)
  <2>1. incoming_sequence' # incoming_sequence
    BY <1>0
  <2>. QED BY <2>1 DEF Next, ClientFrame, ClientValidates, ClientActivates, ServerPause, vars,
                       serverVars
<1>2. q = p
  BY <1>0, <1>1 DEF ServerReadPacket, NetInv
<1>3. Accepted(p) /\ RunMove(p)
  BY <1>1, <1>2, ServerKeeps
<1>. QED BY <1>3, RunMoveIs DEF CommandsInv

\* What run is after a step that takes a sequence number: as many entries more
\* as Appended says, and the old ones as they were.
LEMMA RunAfter ==
    ASSUME CommandsInv, NEW p, Accepted(p), run' = run \o Extension(p)
    PROVE  LET ext == Extension(p)
           IN  /\ Len(run) \in Nat /\ Len(ext) \in Nat /\ Len(run') = Len(run) + Len(ext)
               /\ DOMAIN run' = 1 .. Len(run) + Len(ext)
               /\ \A j \in 1 .. Len(ext) : run'[Len(run) + j] = ext[j]
<1>. DEFINE ext == Extension(p)
<1>1. run \in Seq(Entry) /\ ext \in Seq(Entry)
  BY Appended DEF CommandsInv, TypeOK, Entry
<1>2. run' = run \o ext
  OBVIOUS
<1>. HIDE DEF ext
<1>3. /\ run \o ext \in Seq(Entry) /\ Len(run \o ext) = Len(run) + Len(ext)
      /\ \A i \in 1 .. Len(run) + Len(ext) :
            (run \o ext)[i] = IF i <= Len(run) THEN run[i] ELSE ext[i - Len(run)]
  BY <1>1, ConcatProperties
<1>4. Len(run) \in Nat /\ Len(ext) \in Nat
  BY <1>1
<1>5. ASSUME NEW j \in 1 .. Len(ext) PROVE run'[Len(run) + j] = ext[j]
  <2>1. /\ Len(run) + j \in 1 .. Len(run) + Len(ext) /\ ~(Len(run) + j <= Len(run))
        /\ Len(run) + j - Len(run) = j
    BY <1>4
  <2>. QED BY <1>2, <1>3, <2>1
<1>. QED BY <1>2, <1>3, <1>4, <1>5 DEF ext

\* SV_ParseClientMove lets a player move for as many frames as have passed.
THEOREM RunsMatchFrames == Spec => OneRunPerFrame
<1>1. ASSUME CommandsInv, [Next]_vars, NEW p \in net, incoming_sequence' = p.seq,
             p.seq > incoming_sequence, spawned', ~paused, p.seq - incoming_sequence < MaxGap,
             p.move # NoMove \/ run # <<>>
      PROVE  Len(run') - Len(run) = p.seq - incoming_sequence
  <2>1. Accepted(p) /\ run' = run \o Extension(p)
    BY <1>1, OnlyRead
  <2>2. p.seq - Len(Extension(p)) = incoming_sequence
    BY <1>1, <2>1, Appended DEF CommandsInv
  <2>3. p.seq \in Nat /\ incoming_sequence \in Nat
    BY <1>1, <2>1, FreshMove DEF CommandsInv
  <2>4. Len(run) \in Nat /\ Len(Extension(p)) \in Nat /\ Len(run') = Len(run) + Len(Extension(p))
    BY <1>1, <2>1, RunAfter
  <2>5. PICK a, b, c : a = Len(run) /\ b = Len(Extension(p)) /\ c = Len(run')
    OBVIOUS
  <2>6. a \in Nat /\ b \in Nat /\ c = a + b /\ p.seq - b = incoming_sequence
    BY <2>2, <2>4, <2>5
  <2>7. c - a = p.seq - incoming_sequence
    BY <2>3, <2>6
  <2>. QED BY <2>5, <2>7
<1>2. CommandsInv /\ [Next]_vars =>
        \A p \in net :
          (/\ incoming_sequence' = p.seq /\ p.seq > incoming_sequence
           /\ spawned' /\ ~paused /\ p.seq - incoming_sequence < MaxGap
           /\ p.move # NoMove \/ run # <<>>)
          => Len(run') - Len(run) = p.seq - incoming_sequence
  BY <1>1
<1>. QED BY <1>2, CommandsAlways, PTL DEF Spec, OneRunPerFrame

\* SV_ParseClientMove leaves out no command that it was sent: a filler only
\* stands for one that is in none of the packets it got.
THEOREM CarriedRuns == Spec => CarriedIsRun
<1>1. ASSUME CommandsInv, [Next]_vars, NEW p \in net, incoming_sequence' = p.seq,
             p.seq > incoming_sequence, spawned', ~paused, p.seq - incoming_sequence < MaxGap,
             NEW i \in DOMAIN p.move.cmds, p.move.cmds[i].number > incoming_sequence
      PROVE  \E j \in DOMAIN run' : run'[j].seed = p.move.cmds[i].number
  <2>. DEFINE n == p.move.cmds[i].number
              ext == Extension(p)
              j == n - incoming_sequence
  <2>0. p.seq \in Nat /\ incoming_sequence \in Nat /\ TypeOK /\ NetInv /\ ServerInv
    BY <1>1 DEF CommandsInv, TypeOK, Packet
  <2>1. Accepted(p) /\ run' = run \o ext
    <3>1. p.move # NoMove
      BY <1>1 DEF NoMove
    <3>. QED BY <1>1, <3>1, OnlyRead
  <2>2. /\ p.move.numcmds \in Nat /\ p.move.numbackup \in Nat
        /\ i \in 1 .. p.move.numcmds + p.move.numbackup /\ n \in {0, p.seq - i + 1}
    BY <2>0, <2>1, FreshMove
  <2>3. /\ p.seq - Len(ext) = incoming_sequence
        /\ \A k \in 1 .. Len(ext) :
              k > p.seq - incoming_sequence - p.move.numcmds - p.move.numbackup =>
                  ext[k].seed = (p.seq - Len(ext)) + k
    BY <1>1, <2>0, <2>1, Appended
  <2>4. /\ Len(run) \in Nat /\ Len(ext) \in Nat
        /\ DOMAIN run' = 1 .. Len(run) + Len(ext)
        /\ \A k \in 1 .. Len(ext) : run'[Len(run) + k] = ext[k]
    BY <1>1, <2>1, RunAfter
  <2>5. n = p.seq - i + 1 /\ n > incoming_sequence
    BY <1>1, <2>0, <2>2
  <2>. HIDE DEF n, ext
  <2>6. /\ j \in 1 .. Len(ext)
        /\ j > p.seq - incoming_sequence - p.move.numcmds - p.move.numbackup
        /\ incoming_sequence + j = n /\ Len(run) + j \in 1 .. Len(run) + Len(ext)
    <3>1. /\ p.seq \in Int /\ incoming_sequence \in Int /\ i \in Int
          /\ p.move.numcmds \in Int /\ p.move.numbackup \in Int
          /\ i <= p.move.numcmds + p.move.numbackup /\ i >= 1
      BY <2>0, <2>2
    <3>2. n \in Int /\ n = p.seq - i + 1 /\ n > incoming_sequence
      BY <2>5, <3>1
    <3>3. Len(ext) = p.seq - incoming_sequence
      <4>1. \A a, b, c \in Int : a - b = c => b = a - c
        OBVIOUS
      <4>2. p.seq - Len(ext) = incoming_sequence /\ Len(ext) \in Int
        BY <2>3, <2>4
      <4>3. PICK a, b, c \in Int : a = p.seq /\ b = Len(ext) /\ c = incoming_sequence
        BY <3>1, <4>2
      <4>4. b = a - c
        BY <4>1, <4>2, <4>3
      <4>. QED BY <4>3, <4>4
    <3>4. j \in Int /\ j > 0 /\ j <= p.seq - incoming_sequence /\ incoming_sequence + j = n
      BY <3>1, <3>2
    <3>5. \A a, b, c, d, x \in Int : x <= c + d => a - x + 1 - b > a - b - c - d
      OBVIOUS
    <3>6. j > p.seq - incoming_sequence - p.move.numcmds - p.move.numbackup
      BY <3>1, <3>2, <3>5
    <3>. HIDE DEF j
    <3>7. j \in 1 .. Len(ext)
      BY <3>3, <3>4
    <3>. QED BY <2>4, <3>4, <3>6, <3>7
  <2>7. run'[Len(run) + j].seed = n
    BY <2>3, <2>4, <2>6
  <2>. QED BY <2>4, <2>6, <2>7 DEF n
<1>2. CommandsInv /\ [Next]_vars =>
        \A p \in net :
          (/\ incoming_sequence' = p.seq /\ p.seq > incoming_sequence
           /\ spawned' /\ ~paused /\ p.seq - incoming_sequence < MaxGap)
          => \A i \in DOMAIN p.move.cmds :
                LET n == p.move.cmds[i].number
                IN  n > incoming_sequence =>
                        \E j \in DOMAIN run' : run'[j].seed = n
  BY <1>1
<1>. QED BY <1>2, CommandsAlways, PTL DEF Spec, CarriedIsRun

==============================================================================
