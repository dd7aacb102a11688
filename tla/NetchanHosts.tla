----------------------------- MODULE NetchanHosts -----------------------------
(***************************************************************************)
(* The client and the server that run a channel (Netchan) between them.    *)
(*                                                                         *)
(* The client's frame sends one packet (CL_WritePacket), then reads every  *)
(* datagram that is there and only then takes over completed blocks of     *)
(* fragments (CL_ReadNetMessage): it never sends with a completed block in *)
(* its lists.  The server's frame reads datagrams, each one parsed and     *)
(* followed by completed blocks (SV_ReadPackets), then moves the broadcast *)
(* data to the channel and sends (SV_SendClientMessages).                  *)
(*                                                                         *)
(* The network may lose, duplicate and reorder datagrams: net only grows,  *)
(* and any datagram in it may be delivered next.                           *)
(***************************************************************************)
EXTENDS Netchan

CONSTANTS
    InGame,          \* the client is in the game from the start
    CmdRateLimited,  \* the client runs more frames than cl_cmdrate
    DatagramSizes,   \* sizes of the server's datagram, 0 if it is held
    ServerSequences, \* possible first sequence numbers of the server
    FilesOf,         \* [Peer -> SUBSET FileName]: files a peer may send
    FileLen,         \* [FileName -> Nat]: their lengths, without the header
    BlockSizes,      \* sizes of the messages that are sent as fragments
    BroadcastSizes,  \* sizes of sv.reliable_datagram at the end of a frame
    MaxSequence,     \* bound: last sequence number a peer may use
    MaxWritten,      \* bound: commands a peer may write
    OneWriter        \* bound: in a behaviour only one of the peers writes

ASSUME SequenceAssumption == \A start \in ServerSequences : start \in Nat \ {0}
ASSUME HostAssumption     == /\ InGame \in BOOLEAN /\ CmdRateLimited \in BOOLEAN
                             /\ \A k \in DatagramSizes : k \in Nat
                             /\ \A k \in BlockSizes \union BroadcastSizes : k \in Nat
ASSUME FileAssumption     == /\ \A e \in Peer : FilesOf[e] \subseteq FileName
                             /\ \A name \in FileName : FileLen[name] \in Nat \ {0}
ASSUME BoundAssumption    == /\ \A e \in Peer : MaxWritten[e] \in Nat
                             /\ OneWriter \in BOOLEAN

VARIABLES
    active,           \* the client's state is ca_active
    spawned,          \* the state of its slot is cs_spawned
    send_net_message, \* FCL_SEND_NET_MESSAGE of the client's slot
    reconnect,        \* the client has queued the "reconnect" command
    written,          \* history: number of commands written by a peer
    fileQueue,        \* history: files queued by a peer
    delivered,        \* history: commands a peer has parsed
    files             \* files a peer has written to its disk

stateVars == <<active, spawned>>
hostVars == <<stateVars, send_net_message, reconnect>>
dataVars == <<written, fileQueue, delivered, files>>
vars     == <<chanVars, hostVars, dataVars>>

\* The commands numbered from written[e] + 1 on.
Commands(e, k) == [i \in 1 .. k |-> <<e, written[e] + i>>]

MayWrite(e, k) == /\ written[e] + k <= MaxWritten[e]
                  /\ OneWriter => written[Other(e)] = 0
MaySend(e)     == outgoing_sequence[e] <= MaxSequence[e]

-----------------------------------------------------------------------------
(***************************************************************************)
(* The game code of either host produces data.                             *)
(***************************************************************************)
\* One reliable command goes to chan->message.
WriteCommand(e) ==
    /\ MayWrite(e, 1)
    /\ WriteMessage(e, Commands(e, 1))
    /\ written' = [written EXCEPT ![e] = @ + 1]
    /\ UNCHANGED <<hostVars, fileQueue, delivered, files>>

\* A message that goes out as fragments, such as the resource list.
SendBlock(e, k) ==
    /\ MayWrite(e, k)
    /\ CreateFragments(e, Commands(e, k), TRUE)
    /\ written' = [written EXCEPT ![e] = @ + k]
    /\ UNCHANGED <<hostVars, fileQueue, delivered, files>>

\* A file: a download by the client, or a custom logo uploaded to the server.
SendFile(e, name, inMemory) ==
    /\ name \in FilesOf[e] \ fileQueue[e]
    /\ CreateFileFragments(e, name, FileLen[name], inMemory)
    /\ fileQueue' = [fileQueue EXCEPT ![e] = @ \union {name}]
    /\ UNCHANGED <<hostVars, written, delivered, files>>

(***************************************************************************)
(* What the receiver takes over from its lists of fragments.  A message    *)
(* larger than the buffer is dropped; a file that exists is not written.   *)
(***************************************************************************)
CopiedCommands(bufs, copied) ==
    LET data == Reassembled(bufs["normal"])
    IN  IF "normal" \in copied /\ Len(data) <= MaxMessage THEN data ELSE <<>>

CopiedFiles(e, bufs, copied) ==
    LET data == Reassembled(bufs["file"])
        name == data[1][1]
    IN  IF "file" \in copied /\ name \notin {f.name : f \in files[e]}
        THEN {[name |-> name, content |-> Tail(data)]} ELSE {}

Ready(ready) == {s \in Stream : ready[s]}

-----------------------------------------------------------------------------
(***************************************************************************)
(* The client's frame.                                                     *)
(***************************************************************************)
\* CL_WritePacket: until the client is active its packets carry no data of
\* their own; later each has a clc_move, or is held back by cl_cmdrate.
ClientWritePacket ==
    /\ Ready(incomingready["client"]) = {}
    /\ MaySend("client")
    /\ \/ TransmitBits("client", IF active THEN 1 ELSE 0)
       \/ active /\ CmdRateLimited /\ HoldBack("client")
    /\ UNCHANGED <<hostVars, dataVars>>

\* The loop of CL_ReadNetMessage: one datagram.  The first entities complete
\* the signon, and the next frame starts with the client active.
ClientReadPacket(p) ==
    /\ Process("client", p, {})
    /\ delivered' = [delivered EXCEPT !["client"] = @ \o p.payload.regular]
    /\ active' = (active \/ p.unreliable)
    /\ reconnect' = (reconnect \/ OutOfPlace(BufsAfter("client", p),
                                             p.payload.frag))
    /\ UNCHANGED <<spawned, send_net_message, written, fileQueue, files>>

\* The end of CL_ReadNetMessage: completed blocks are parsed.
ClientCopyFragments ==
    /\ Ready(incomingready["client"]) # {}
    /\ LET copied == Ready(incomingready["client"])
           bufs   == incomingbufs["client"]
       IN  /\ CopyFragments("client", copied)
           /\ delivered' = [delivered EXCEPT !["client"] =
                               @ \o CopiedCommands(bufs, copied)]
           /\ files' = [files EXCEPT !["client"] =
                           @ \union CopiedFiles("client", bufs, copied)]
    /\ UNCHANGED <<hostVars, written, fileQueue>>

-----------------------------------------------------------------------------
(***************************************************************************)
(* The server's frame.                                                     *)
(***************************************************************************)
\* The loop of SV_ReadPackets: if Netchan_Process leaves a payload it is
\* parsed, then completed blocks are; if not, nothing else happens.  Any
\* command may be the "begin" that spawns the client (SV_Begin_f).
ServerReadPacket(p) ==
    /\ LET copied   == IF LeavesPayload(p) THEN Ready(ReadyAfter("server", p))
                                           ELSE {}
           bufs     == BufsAfter("server", p)
           commands == p.payload.regular \o CopiedCommands(bufs, copied)
       IN  /\ Process("server", p, copied)
           /\ delivered' = [delivered EXCEPT !["server"] = @ \o commands]
           /\ spawned' \in {spawned, spawned \/ commands # <<>>}
           /\ files' = [files EXCEPT !["server"] =
                           @ \union CopiedFiles("server", bufs, copied)]
    /\ send_net_message' = (send_net_message \/ (~spawned /\ LeavesPayload(p)))
    /\ UNCHANGED <<active, reconnect, written, fileQueue>>

\* SV_UpdateToReliableMessages: the broadcast data of the frame goes to
\* chan->message if it leaves room there, else out as fragments.
LeavesRoom(k) == Len(message["server"]) + k < MaxMessage /\ ~overflowed["server"]

ServerUpdateToReliable(k) ==
    /\ MayWrite("server", k)
    /\ IF LeavesRoom(k)
       THEN k > 0 /\ WriteMessage("server", Commands("server", k))
       ELSE CreateFragments("server", Commands("server", k), FALSE)
    /\ written' = [written EXCEPT !["server"] = @ + k]
    /\ UNCHANGED <<hostVars, fileQueue, delivered, files>>

\* SV_SendClientMessages: in the game packets are sent at a steady rate,
\* before that only as a reply and without a datagram.  The update above is
\* its first step: a frame that sends nothing is an update alone, a frame that
\* has nothing to broadcast is this action alone, and only if the update would
\* change nothing.  For the same reason the overflow check that comes next
\* never fires: the update has just made fragments of a full chan->message.
ServerSendClientMessages(datagram) ==
    /\ LeavesRoom(0)
    /\ MaySend("server")
    /\ spawned \/ (send_net_message /\ datagram = 0)
    /\ TransmitBits("server", datagram)
    /\ send_net_message' = FALSE
    /\ UNCHANGED <<stateVars, reconnect, dataVars>>

\* The client has been silent for sv_failuretime: no reply after all.
ServerForgetsReply ==
    /\ send_net_message
    /\ send_net_message' = FALSE
    /\ UNCHANGED <<chanVars, stateVars, reconnect, dataVars>>

-----------------------------------------------------------------------------
Init ==
    /\ \E start \in ServerSequences : ChannelInit(start)
    /\ active = InGame /\ spawned = InGame
    /\ send_net_message = FALSE
    /\ reconnect = FALSE
    /\ written = [e \in Peer |-> 0]
    /\ fileQueue = [e \in Peer |-> {}]
    /\ delivered = [e \in Peer |-> <<>>]
    /\ files = [e \in Peer |-> {}]

Produce(e) ==
    \/ WriteCommand(e)
    \/ \E k \in BlockSizes : SendBlock(e, k)
    \/ \E name \in FilesOf[e], inMemory \in BOOLEAN : SendFile(e, name, inMemory)

Client ==
    \/ ClientWritePacket
    \/ \E p \in net : ClientReadPacket(p)
    \/ ClientCopyFragments

Server ==
    \/ \E p \in net : ServerReadPacket(p)
    \/ \E k \in BroadcastSizes : ServerUpdateToReliable(k)
    \/ \E datagram \in DatagramSizes : ServerSendClientMessages(datagram)
    \/ ServerForgetsReply

Next == (\E e \in Peer : Produce(e)) \/ Client \/ Server

Spec == Init /\ [][Next]_vars
-----------------------------------------------------------------------------
(***************************************************************************)
(* Properties.                                                             *)
(***************************************************************************)
\* The variables hold values of their types.
HostsTypeOK ==
    /\ active \in BOOLEAN /\ spawned \in BOOLEAN
    /\ send_net_message \in BOOLEAN
    /\ reconnect \in BOOLEAN
    /\ written \in [Peer -> Nat]
    /\ fileQueue \in [Peer -> SUBSET FileName]
    /\ delivered \in [Peer -> Seq(Unit)]
    /\ \A e \in Peer : \A f \in files[e] :
           f.name \in FileName /\ f.content \in Seq(Unit)

\* Commands are parsed by the receiver in the order in which the sender wrote
\* them, each once and without gaps, whether they travelled as regular data,
\* in a fragmented block, or were moved from the one to the other by
\* Netchan_CreateFragments or by the stall in Netchan_TransmitBits.
CommandsInOrder ==
    \A e \in Peer :
        delivered[Other(e)] = [i \in 1 .. Len(delivered[Other(e)]) |-> <<e, i>>]

\* The sender has nothing left to send and nothing unacknowledged.
Drained(e) ==
    /\ message[e] = <<>> /\ ~overflowed[e]
    /\ reliable[e] = EmptyPayload
    /\ \A s \in Stream : fragbufs[e][s] = <<>> /\ waitlist[e][s] = <<>>

\* When the last acknowledgement clears the sender's buffers, the receiving
\* game has really taken over everything: nothing is left behind in its lists
\* of fragments, nothing was dropped on the way.
DrainedMeansDelivered ==
    \A e \in Peer : Drained(e) =>
        /\ Len(delivered[Other(e)]) = written[e]
        /\ {f.name : f \in files[Other(e)]} = fileQueue[e]

\* A file on the receiver's disk is the file that was sent.
FilesIntact ==
    \A e \in Peer : \A f \in files[e] :
        f.content = Tail(FileUnits(f.name, FileLen[f.name]))

\* "Lost/dropped fragment would cause stall, retrying connection": loss,
\* duplication and reordering of datagrams alone never cause it.
NeverReconnects == ~reconnect
=============================================================================
