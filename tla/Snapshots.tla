----------------------------- MODULE Snapshots -----------------------------
(***************************************************************************)
(* Snapshots of the entities a client sees.  The server encodes each one   *)
(* against the last that the client says it has (SV_EmitPacketEntities);   *)
(* the client merges it with its own copy of that one                      *)
(* (CL_ParsePacketEntities).  Both keep frames in a ring, by sequence      *)
(* number, and the entities of all frames in another ring; of a sequence   *)
(* number only one byte is sent.                                           *)
(*                                                                         *)
(* The channel is that of Netchan: datagrams are lost, and late ones are   *)
(* dropped.  Of a round trip only the sum matters here, so what the client *)
(* sends is there at once or is lost.  An entity's state is its number and *)
(* one field.  Left out: events, players' client data, the choice of a     *)
(* baseline, demos, and the frames of other clients in svs.packet_entities *)
(* (a client's own frames roll off it instead).  This is one session, from *)
(* SV_ConnectClient, which zeroes cl->frames, to the end of the level or   *)
(* of the client, which frees them (SV_DeactivateServer, SV_DropClient).   *)
(*                                                                         *)
(* Numbers are kept as differences, which is what the code compares.  A    *)
(* sequence number is how far it is behind outgoing_sequence of the        *)
(* server's channel, so the slot of a frame moves on when a number is      *)
(* used; a frame's "age" is how far first_entity is behind                 *)
(* next_client_entities.                                                   *)
(***************************************************************************)
EXTENDS Integers, Sequences, FiniteSets

CONSTANTS
    UpdateBackup,      \* SV_UPDATE_BACKUP, CL_UPDATE_BACKUP
    ByteRange,         \* 256: what a byte can tell apart
    PacketEntities,    \* NUM_PACKET_ENTITIES
    ServerEntities,    \* svs.num_client_entities
    MaxEntity,         \* entities are numbered from 1
    Worlds,            \* what a client may see: number -> field
    InFlight,          \* bound: datagrams under way to the client
    MaxBehind          \* bound: how old a frame can get that one end still goes by

ASSUME SizeAssumption ==
    /\ {UpdateBackup, ByteRange, PacketEntities, ServerEntities, InFlight} \subseteq Nat \ {0}
    /\ {MaxEntity, MaxBehind} \subseteq Nat
    /\ ByteRange % UpdateBackup = 0
ASSUME WorldsAssumption ==
    \A w \in Worlds : /\ w = [n \in DOMAIN w |-> w[n]] /\ DOMAIN w \subseteq 1 .. MaxEntity
                      /\ \A n \in DOMAIN w : w[n] # "removed"

ClientEntities == UpdateBackup * PacketEntities    \* cls.num_client_entities

VARIABLES
    frames, entities,  \* cl->frames, svs.packet_entities
    delta,             \* cl->delta_sequence
    spawned,           \* cs_spawned, and the first frame is not held back
    cframes, centities,  \* cl.frames, cls.packet_entities
    valid,             \* cl.validsequence
    down,              \* datagrams under way to the client, oldest first
    shown              \* history: what the server put in the frame "valid"

serverVars == <<frames, entities, spawned>>
clientVars == <<cframes, centities, shown>>
vars == <<serverVars, clientVars, delta, valid, down>>

None    == -1
Nothing == <<0, "">>
Least(a, b) == IF a <= b THEN a ELSE b
Slot(seq)   == seq % UpdateBackup
\* One more number has been used.
Older(seq)    == IF seq = None THEN None ELSE seq + 1
Rotated(ring) == [s \in DOMAIN ring |-> ring[(s + UpdateBackup - 1) % UpdateBackup]]
------------------------------------------------------------------------------
\* Rings of entities, the newest last.
Ring(size)      == [i \in 1 .. size |-> Nothing]
Push(ring, e)   == Append(Tail(ring), e)
At(ring, age)   == ring[Len(ring) - ((age - 1) % Len(ring))]
PushWorld(ring, world) ==
    LET pushed[n \in 0 .. MaxEntity] ==
            IF n = 0 THEN ring
            ELSE IF n \in DOMAIN world THEN Push(pushed[n - 1], <<n, world[n]>>)
            ELSE pushed[n - 1]
    IN  pushed[MaxEntity]

\* The entities of a frame.
Held(ring, frame) ==
    LET states == {At(ring, frame.age - i) : i \in 0 .. frame.num - 1}
    IN  [n \in {e[1] : e \in states} |-> (CHOOSE e \in states : e[1] = n)[2]]

NoFrame == [age |-> 0, num |-> 0]

\* Mutant of Framed: first_entity is set after the entities have been added.
FramedAfter(ring, seq, count, size) ==
    [s \in DOMAIN ring |->
        IF s = Slot(seq) THEN [age |-> 0, num |-> count]
        ELSE [ring[s] EXCEPT !.age = Least(@ + count, size)]]

\* The frames of a ring after "count" more entities, which are the frame "seq".
Framed(ring, seq, count, size) ==
    [s \in DOMAIN ring |->
        IF s = Slot(seq) THEN [age |-> count, num |-> count]
        ELSE [ring[s] EXCEPT !.age = Least(@ + count, size)]]

\* What is written for an entity: its field if that has changed or it was not
\* there, or that it is there no more.
Changed(old, new) ==
    [n \in {n \in DOMAIN old \cup DOMAIN new :
               n \notin DOMAIN old \cap DOMAIN new \/ old[n] # new[n]} |->
        IF n \in DOMAIN new THEN new[n] ELSE "removed"]
------------------------------------------------------------------------------
\* A datagram joins those under way; the oldest is lost if there are too many.
Recent(net) == IF Len(net) > InFlight THEN Tail(net) ELSE net

\* Netchan_TransmitBits: the packet has the number outgoing_sequence.
Transmit(packet, inring) ==
    /\ delta <= MaxBehind /\ valid <= MaxBehind
    /\ frames' = Rotated(inring) /\ cframes' = Rotated(cframes)
    /\ down' = Recent([i \in DOMAIN down |-> [down[i] EXCEPT !.seq = Older(@)]] \o <<packet>>)
    /\ delta' = Older(delta) /\ valid' = Older(valid)

\* "back" is how far before the packet the one is that it is a delta from.
Packet(kind, back, updates, world) ==
    [seq |-> 1, kind |-> kind, back |-> back, updates |-> updates, world |-> world]
Empty == Packet("reliable", None, <<>>, <<>>)

\* Mutant of Outdated: a frame is used although it has rolled off.
OutdatedNever(frame) == FALSE

\* The snapshot's entities may have rolled off the buffer.
Outdated(frame) == frame.age >= ServerEntities

\* SV_EmitPacketEntities: a frame is encoded against the one the client has
\* asked for, or as a full one.
EmitPacketEntities(inring, ring, world) ==
    LET from == inring[Slot(delta)]
    IN  IF delta = None \/ Outdated(from) THEN Packet("frame", None, Changed(<<>>, world), world)
        ELSE Packet("frame", delta, Changed(Held(ring, from), world), world)

\* SV_SendClientDatagram, SV_WriteEntitiesToClient: the frame is kept under the
\* packet's number.  (A message that is too long is not sent: the frame is then as
\* good as lost.)
ServerSendsFrame(world) ==
    LET inring == Framed(frames, 0, Cardinality(DOMAIN world), ServerEntities)
        ring   == PushWorld(entities, world)
    IN  /\ spawned
        /\ entities' = ring
        /\ Transmit(EmitPacketEntities(inring, ring, world), inring)
        /\ UNCHANGED <<spawned, centities, shown>>

\* SV_SendClientMessages to a client that is not in the game, or whose first
\* frame waits for the reliable data.
ServerSendsReliable ==
    /\ ~spawned
    /\ Transmit(Empty, frames)
    /\ UNCHANGED <<entities, spawned, centities, shown>>
------------------------------------------------------------------------------
\* "subtracted" is of two bytes.
ValidateDeltaPacket(p) ==
    LET subtracted == p.back % ByteRange
    IN  /\ subtracted # 0 /\ subtracted < UpdateBackup - 1
        /\ cframes[Slot(p.seq + p.back)].age <= ClientEntities - PacketEntities

\* CL_ParsePacketEntities, for the entity numbered n: the ring that is read is
\* written to at the same time.  "read" and "written" count entities.
Merge(frame, updates, acc, n) ==
    LET old     == At(acc.ring, frame.age + acc.written - acc.read)
        matches == acc.read < frame.num /\ old[1] = n
        field   == IF n \in DOMAIN updates THEN updates[n]
                   ELSE IF matches THEN old[2] ELSE "removed"
    IN  [ring    |-> IF field # "removed" THEN Push(acc.ring, <<n, field>>)
                    ELSE IF n \in DOMAIN updates THEN [acc.ring EXCEPT ![1] = Nothing]
                    ELSE acc.ring,
         written |-> acc.written + (IF field = "removed" THEN 0 ELSE 1),
         read    |-> acc.read + (IF matches THEN 1 ELSE 0)]

Merged(frame, updates) ==
    LET merged[n \in 0 .. MaxEntity] ==
            IF n = 0 THEN [ring |-> centities, written |-> 0, read |-> 0]
            ELSE Merge(frame, updates, merged[n - 1], n)
    IN  merged[MaxEntity]

\* Mutant of Usable: a full update does not count.
UsableDelta(p) == p.back # None /\ ValidateDeltaPacket(p)

Usable(p) == p.back = None \/ ValidateDeltaPacket(p)

ParsePacketEntities(p) ==
    LET newframe == Framed(cframes, p.seq, 0, ClientEntities)
        oldframe == IF p.back = None THEN NoFrame ELSE newframe[Slot(p.seq + p.back)]
        merged   == Merged(oldframe, p.updates)
    IN  IF Usable(p)
        THEN /\ valid' = p.seq /\ shown' = p.world
             /\ centities' = merged.ring
             /\ cframes' = Framed(cframes, p.seq, merged.written, ClientEntities)
        ELSE \* CL_FlushEntityPacket
             /\ valid' = None
             /\ cframes' = newframe
             /\ UNCHANGED <<centities, shown>>

ClientReceives(i) ==
    /\ i \in DOMAIN down
    /\ down' = SubSeq(down, i + 1, Len(down))
    /\ \/ down[i].kind = "frame" /\ ParsePacketEntities(down[i])
       \/ down[i].kind # "frame" /\ UNCHANGED <<clientVars, valid>>
    /\ UNCHANGED <<serverVars, delta>>

\* What clc_delta asks for.  After a long silence the client gives its last
\* frame up.
Asked == IF valid > MaxBehind THEN None ELSE valid

\* CL_WritePacket, and then, if the packet arrives, SV_ExecuteClientMessage: no
\* delta unless requested.  The packets before the one that spawns the client
\* (SV_Begin_f) ask for none.
ClientSends ==
    /\ valid' = Asked
    /\ delta' = Asked
    /\ spawned' = TRUE
    /\ UNCHANGED <<frames, entities, clientVars, down>>
------------------------------------------------------------------------------
Init ==
    /\ spawned = FALSE
    /\ frames = [s \in 0 .. UpdateBackup - 1 |-> NoFrame] /\ cframes = frames
    /\ entities = Ring(ServerEntities) /\ centities = Ring(ClientEntities)
    /\ delta = None /\ valid = None
    /\ down = <<>>
    /\ shown = <<>>

ClientReads == \E i \in 1 .. InFlight : ClientReceives(i)

Next ==
    \/ \E world \in Worlds : ServerSendsFrame(world)
    \/ ServerSendsReliable
    \/ ClientReads
    \/ ClientSends

Spec == Init /\ [][Next]_vars

\* Both ends run their frames, and what the server sends arrives now and then.
Fairness == WF_vars(ClientSends) /\ []<>(down # <<>>) /\ []<>(down = <<>>)

FairSpec == Spec /\ Fairness
------------------------------------------------------------------------------
AFrame(size) == {f \in [age : 0 .. size, num : 0 .. MaxEntity] : f.num <= f.age}
ASequence == 1 .. MaxBehind + 1 \cup {None}

\* Every frame's entities are among those written to the ring since it was begun.
SnapshotsTypeOK ==
    /\ spawned \in BOOLEAN
    /\ delta \in ASequence /\ valid \in ASequence
    /\ frames \in [0 .. UpdateBackup - 1 -> AFrame(ServerEntities)]
    /\ cframes \in [0 .. UpdateBackup - 1 -> AFrame(ClientEntities)]
    /\ Len(entities) = ServerEntities /\ Len(centities) = ClientEntities
    /\ Len(down) <= InFlight
    /\ shown \in Worlds \cup {<<>>}

\* The frame the client plays by, and asks for deltas from, is what the server
\* has put in the frame of that number, whatever was lost, flushed or has rolled
\* off: validsequence is "the sequence number of the last good world
\* snapshot/update we got" (client.h).
\* It holds as long as MaxBehind <= ByteRange: a frame further back looks like
\* one that is near, because its number is compared as a byte.
FramesAgree ==
    valid # None => Held(centities, cframes[Slot(valid)]) = shown

\* A client without a valid frame gets one, if the network is there again.
FramesResume == valid = None ~> valid # None
==============================================================================
