----------------------------- MODULE UserCommands -----------------------------
(***************************************************************************)
(* The user commands of a client: one is created in every frame of the     *)
(* client (CL_CreateCmd) under the sequence number of the next packet.  A  *)
(* packet carries the commands since the last packet that was sent and, in *)
(* case that one is lost, some older ones (CL_WritePacket).  The server    *)
(* works out from the sequence numbers how many commands it missed, takes  *)
(* what it can from the packet, fills the rest with copies of the last     *)
(* command it knows, and runs the new ones (SV_ParseClientMove).           *)
(*                                                                         *)
(* Datagrams may be lost, duplicated and reordered; the channel drops      *)
(* those that are not newer than the last (Netchan, with a cookie).  Left  *)
(* out: the contents of commands, their checksum, the time base.           *)
(***************************************************************************)
EXTENDS Integers, Sequences

CONSTANTS
    UpdateBackup,  \* CL_UPDATE_BACKUP: size of the ring cl.commands
    MaxBackup,     \* MAX_BACKUP_COMMANDS
    MaxTotal,      \* MAX_TOTAL_CMDS
    CommandMask,   \* CMD_MASK: a packet with so many commands is refused
    MaxGap,        \* 24: so many missed commands are not made up for
    Backups,       \* values cl_cmdbackup may take
    ServerPauses,  \* the server may pause, or freeze the player
    MaxSequence    \* bound: last sequence number of the client

ASSUME RingAssumption ==
    /\ UpdateBackup \in Nat /\ MaxBackup \in Nat /\ MaxTotal \in Nat \ {0}
    /\ MaxTotal + MaxBackup <= UpdateBackup
    /\ CommandMask \in Nat /\ MaxTotal + MaxBackup < CommandMask
    /\ MaxGap \in Nat
ASSUME BackupAssumption == (\A k \in Backups : k \in Nat) /\ ServerPauses \in BOOLEAN

\* A command is known by the sequence number it was created under; 0 is one
\* of which every field is zero.  A stopped one has lost its time and moves.
Command == [number : Nat, stopped : BOOLEAN]
NoCommand == [number |-> 0, stopped |-> FALSE]

\* The move in a packet: cmds is in the order of the array, newest first.
Move == [numbackup : 0 .. MaxBackup, numcmds : 0 .. MaxTotal, cmds : Seq(Command)]
NoMove == [numbackup |-> -1, numcmds |-> 0, cmds |-> <<>>]
Packet == [seq : Nat \ {0}, move : Move \union {NoMove}]

VARIABLES
    state,               \* cls.state: "connected", "validate" or "active"
    outgoing_sequence, lastoutgoingcommand, commands,  \* of the client
    net,                 \* datagrams sent and not destroyed by the network
    spawned, paused, dropped,  \* cs_spawned, sv.paused, SV_DropClient called
    incoming_sequence, lastcmd,                        \* of the server
    run                  \* history: commands given to SV_RunCmd, with seeds

clientVars == <<state, outgoing_sequence, lastoutgoingcommand, commands>>
serverVars == <<spawned, paused, dropped, incoming_sequence, lastcmd, run>>
vars == <<clientVars, net, serverVars>>

Least(a, b) == IF a <= b THEN a ELSE b

Slot(n) == n % UpdateBackup

-----------------------------------------------------------------------------
(***************************************************************************)
(* The client.                                                             *)
(***************************************************************************)
\* CL_CreateCmd: no commands before ca_validate.
Created ==
    IF state = "connected" THEN commands
    ELSE [commands EXCEPT ![Slot(outgoing_sequence)] =
             [number |-> outgoing_sequence, stopped |-> FALSE]]

\* Definitions marked "mutant" are no part of the model: each is a slip put in
\* the place of the definition after it, to see that a property notices.
\* Mutant: the number of new commands is not bounded.
NewCommandsUnbounded ==
    IF lastoutgoingcommand < 0 THEN 0 ELSE outgoing_sequence - lastoutgoingcommand

\* The first move counts no command as new.
NewCommands ==
    IF lastoutgoingcommand < 0 THEN 0
    ELSE Least(outgoing_sequence - lastoutgoingcommand, MaxTotal)

CreatedMove(numbackup) ==
    [numbackup |-> numbackup, numcmds |-> NewCommands,
     cmds |-> [i \in 1 .. NewCommands + numbackup |->
                  Created[Slot(outgoing_sequence - i + 1)]]]

Send(move) == net' = net \union {[seq |-> outgoing_sequence, move |-> move]}

\* CL_CreateCmd and CL_WritePacket; the rate limits may hold a command back.
ClientFrame ==
    /\ outgoing_sequence <= MaxSequence
    /\ commands' = Created
    /\ \/ /\ state # "active"
          /\ Send(NoMove)
          /\ UNCHANGED lastoutgoingcommand
       \/ /\ state = "active"
          /\ \E k \in Backups : Send(CreatedMove(Least(k, MaxBackup)))
          /\ lastoutgoingcommand' = outgoing_sequence
       \/ /\ state = "active"
          /\ UNCHANGED <<net, lastoutgoingcommand>>
    /\ outgoing_sequence' = outgoing_sequence + 1
    /\ UNCHANGED <<state, serverVars>>

\* The resources are being checked: CL_StartResourceDownloading.
ClientValidates ==
    /\ state = "connected"
    /\ state' = "validate"
    /\ UNCHANGED <<outgoing_sequence, lastoutgoingcommand, commands, net, serverVars>>

\* CL_CheckClientState, after the first entities: they are sent to a client
\* that is cs_spawned only (SV_SendClientMessages).
ClientActivates ==
    /\ state # "active" /\ spawned
    /\ state' = "active"
    /\ UNCHANGED <<outgoing_sequence, lastoutgoingcommand, commands, net, serverVars>>

-----------------------------------------------------------------------------
(***************************************************************************)
(* The server.                                                             *)
(***************************************************************************)
\* Mutant: the commands that are in the packet count as missed.
MissedAll(p) == p.seq - (incoming_sequence + 1)

\* net_drop of Netchan_Process, less the new commands of the packet but one.
Missed(p) == p.seq - (incoming_sequence + 1) - (p.move.numcmds - 1)

Run(cmd, seed) == [cmd |-> cmd, seed |-> seed]

\* Mutant: nothing is filled in.
RepeatedNever(move, missed) == <<>>

\* Missed commands that are not in the packet are replaced by the last one.
Repeated(move, missed) ==
    [k \in 1 .. missed - move.numbackup |-> Run(lastcmd, 0)]

\* Mutant: the index is one too large.
RecoveredShifted(p, missed) ==
    LET move == p.move
        first == Least(missed, move.numbackup)
    IN  [k \in 1 .. first |-> LET i == Least(move.numcmds + first - k + 1, Len(move.cmds) - 1)
                              IN  Run(move.cmds[i + 1], p.seq - i)]

\* The others are taken from it, oldest first.
Recovered(p, missed) ==
    LET move == p.move
        first == Least(missed, move.numbackup)
    IN  [k \in 1 .. first |-> LET i == move.numcmds + first - k
                              IN  Run(move.cmds[i + 1], p.seq - i)]

New(p) ==
    [k \in 1 .. p.move.numcmds |-> LET i == p.move.numcmds - k
                                   IN  Run(p.move.cmds[i + 1], p.seq - i)]

\* While the game is paused the new commands of a packet stand still.
Stopped(move) ==
    [move EXCEPT !.cmds = [i \in DOMAIN @ |-> IF i <= move.numcmds
                                              THEN [@[i] EXCEPT !.stopped = TRUE]
                                              ELSE @[i]]]

\* SV_ParseClientMove from the check of the state on.
RunMove(p) ==
    LET move   == IF paused THEN Stopped(p.move) ELSE p.move
        q      == [p EXCEPT !.move = move]
        missed == IF paused THEN 0 ELSE Missed(p)
    IN  /\ run' = run \o (IF missed < MaxGap
                          THEN Repeated(move, missed) \o Recovered(q, missed)
                          ELSE <<>>) \o New(q)
        /\ lastcmd' = IF move.cmds = <<>> THEN NoCommand ELSE move.cmds[1]

\* SV_ReadPackets.  begin: the packet also carries the "begin" command, the
\* client's reply to svc_signonnum.  The client sends it, and goes on without
\* moves, before it turns active: what the server accepts in between advances
\* the sequence and runs nothing.
ServerReadPacket(p, begin) ==
    /\ ~dropped
    /\ p.seq > incoming_sequence
    /\ begin => ~spawned
    /\ incoming_sequence' = p.seq
    /\ spawned' = (spawned \/ begin)
    /\ dropped' = (Len(p.move.cmds) >= CommandMask)
    /\ IF p.move # NoMove /\ ~dropped' /\ spawned'
       THEN RunMove(p)
       ELSE UNCHANGED <<run, lastcmd>>
    /\ UNCHANGED <<clientVars, net, paused>>

ServerPause ==
    /\ ServerPauses
    /\ paused' = ~paused
    /\ UNCHANGED <<clientVars, net, spawned, dropped, incoming_sequence, lastcmd, run>>

-----------------------------------------------------------------------------
Init ==
    /\ state = "connected"
    /\ outgoing_sequence = 1
    /\ lastoutgoingcommand = -1
    /\ commands = [i \in 0 .. UpdateBackup - 1 |-> NoCommand]
    /\ net = {}
    /\ spawned = FALSE /\ paused = FALSE /\ dropped = FALSE
    /\ incoming_sequence = 0
    /\ lastcmd = NoCommand
    /\ run = <<>>

Next ==
    \/ ClientFrame \/ ClientValidates \/ ClientActivates
    \/ \E p \in net, begin \in BOOLEAN : ServerReadPacket(p, begin)
    \/ ServerPause

Spec == Init /\ [][Next]_vars
-----------------------------------------------------------------------------
\* The variables hold values of their types; a packet has as many commands as
\* its counts say.
TypeOK ==
    /\ state \in {"connected", "validate", "active"}
    /\ outgoing_sequence \in Nat \ {0}
    /\ lastoutgoingcommand \in Nat \union {-1}
    /\ commands \in [0 .. UpdateBackup - 1 -> Command]
    /\ net \subseteq Packet
    /\ \A p \in net : Len(p.move.cmds) = p.move.numcmds + p.move.numbackup
                      \/ p.move = NoMove
    /\ spawned \in BOOLEAN /\ paused \in BOOLEAN /\ dropped \in BOOLEAN
    /\ incoming_sequence \in Nat
    /\ lastcmd \in Command
    /\ run \in Seq([cmd : Command, seed : Nat])

\* A client that keeps to its limits is never dropped for too many commands.
HonestIsKept == ~dropped

\* Each command is run at most once, later ones later, and with its sequence
\* number as the seed of its random numbers, which the client's prediction
\* uses too: neither a duplicate, nor a backup of a command that has been run,
\* nor a command that was held back is run a second time.  The exceptions are
\* fillers, which have no seed, and numbers used before there were commands.
RunOnce ==
    /\ \A i, j \in DOMAIN run :
          i < j /\ run[i].seed # 0 /\ run[j].seed # 0 => run[i].seed < run[j].seed
    /\ \A i \in DOMAIN run :
          run[i].seed # 0 => run[i].cmd.number \in {0, run[i].seed}

\* The movement of a player neither gains nor loses time: a packet with a move
\* makes the server run as many commands as the client had frames since the
\* packet before it, however many were lost, held back or sent as backups, as
\* long as the gap is not too large and the game is not paused.  Packets come
\* without a move between "begin" and the first entities only: once a command
\* has been run every packet has one.
OneRunPerFrame ==
    [][\A p \in net :
          (/\ incoming_sequence' = p.seq /\ p.seq > incoming_sequence
           /\ spawned' /\ ~paused /\ p.seq - incoming_sequence < MaxGap
           /\ p.move # NoMove \/ run # <<>>)
          => Len(run') - Len(run) = p.seq - incoming_sequence]_vars

\* A command in a packet the server has accepted is run, by that packet or by
\* an earlier one: what the backups bring is used, and a filler is never run
\* in the place of a command that is there.
CarriedIsRun ==
    [][\A p \in net :
          (/\ incoming_sequence' = p.seq /\ p.seq > incoming_sequence
           /\ spawned' /\ ~paused /\ p.seq - incoming_sequence < MaxGap)
          => \A i \in DOMAIN p.move.cmds :
                LET n == p.move.cmds[i].number
                IN  n > incoming_sequence =>
                        \E j \in DOMAIN run' : run'[j].seed = n]_vars
=============================================================================
