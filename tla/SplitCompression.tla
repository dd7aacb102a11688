--------------------------- MODULE SplitCompression ---------------------------
(***************************************************************************)
(* The compression of fragmented messages (engine/common/net_chan.c), and  *)
(* the buffer of broadcast data that all channels of a server share        *)
(* (engine/server/sv_frame.c).                                             *)
(*                                                                         *)
(* A message that goes out as fragments is compressed in place, in the     *)
(* caller's buffer, if the channel's use_lzss is set and the result is     *)
(* smaller; the receiver decompresses a reassembled message that starts    *)
(* with the LZSS header if its own use_lzss is set.  Regular data is never *)
(* decompressed.  Each host sets use_lzss when it sets up its end of the   *)
(* channel, from what runs in its own process.                             *)
(*                                                                         *)
(* Netchan's theorems let the transport be a queue here: payloads arrive   *)
(* exactly once and in order.  Writes that overflow a buffer are left to   *)
(* NetchanHosts.                                                           *)
(***************************************************************************)
EXTENDS Integers, Sequences, SequencesExt

CONSTANTS
    Slots,              \* svs.maxclients, all of them connected
    Dedicated,          \* no client runs in the server's process
    LocalClients,       \* slots of the clients that do
    MaxMessage,         \* NET_MAX_MESSAGE: capacity of chan->message
    MaxDatagram,        \* MAX_DATAGRAM: capacity of sv.reliable_datagram
    MaxReliablePayload, \* MAX_RELIABLE_PAYLOAD or the split size
    BlockSizes,         \* sizes of messages that are sent as fragments
    MaxWritten          \* bound: commands written by a peer, [Peer -> Nat]

Peer == {"client", "server"}
Slot == 1 .. Slots

ASSUME SlotAssumption ==
    /\ Slots \in Nat \ {0}
    /\ LocalClients \subseteq Slot
    /\ Dedicated \in BOOLEAN /\ (Dedicated => LocalClients = {})
ASSUME SizeAssumption ==
    /\ MaxMessage \in Nat /\ MaxDatagram \in Nat /\ MaxDatagram < MaxMessage
    /\ MaxReliablePayload \in Nat
    /\ \A k \in BlockSizes : k \in Nat
    /\ \A e \in Peer : MaxWritten[e] \in Nat

\* A buffer is a sequence of units of length: a command, which is the sequence of
\* its number alone, or what LZSS made of several units, the sequence of their
\* numbers.  Commands are numbered from 1.

Garbage == 0  \* stands for compressed bytes that have been compressed again

VARIABLES
    reliable_datagram, \* sv.reliable_datagram: broadcast data of the frame
    message,           \* chan->message of peer e's end of client c's channel
    blocks,            \* fragmented messages of that end, still to be sent
    written,           \* history: commands for that channel, in order
    parsed,            \* history: what the other end has parsed
    spoiled,           \* history: slots that got compressed bytes as regular data
    last               \* number of the last command of either peer

vars == <<reliable_datagram, message, blocks, written, parsed, spoiled, last>>

-----------------------------------------------------------------------------
\* Host_IsLocalClient decides, in SV_ConnectClient for the server's end and in
\* CL_SetupNetchanForProtocol for the client's.
UsesLzss(e, c) == IF e = "server" THEN Dedicated ELSE c \notin LocalClients

IsCompressed(buffer) == buffer # <<>> /\ Len(buffer[1]) > 1

Packed(buffer) ==
    [i \in DOMAIN buffer |-> IF Len(buffer[i]) > 1 THEN Garbage ELSE buffer[i][1]]
Unpacked(unit) == [i \in DOMAIN unit |-> <<unit[i]>>]

\* Definitions marked "mutant" are no part of the model: each is a slip put in
\* the place of the definition after it, to see that a property notices.
\* Mutant: a buffer that another channel has compressed is compressed again.
CompressedAgain(e, c, buffer) ==
    IF UsesLzss(e, c) /\ buffer # <<>> THEN <<Packed(buffer)>> ELSE buffer

\* What Netchan_CreateFragments_ leaves in the caller's buffer.
Compressed(e, c, buffer) ==
    IF UsesLzss(e, c) /\ ~IsCompressed(buffer) /\ Len(buffer) > 1
    THEN <<Packed(buffer)>>
    ELSE buffer

Block(e, c, buffer) == IF buffer = <<>> THEN <<>> ELSE <<Compressed(e, c, buffer)>>

\* Netchan_CreateFragments queues the pending regular data first.
Queued(e, c, pending, buffer) == Block(e, c, pending) \o Block(e, c, buffer)

\* Netchan_CopyNormalFragments: what the receiver gives to its parser.
Received(e, c, block) ==
    IF UsesLzss(e, c) /\ IsCompressed(block) THEN Unpacked(block[1]) ELSE block

Other(e) == IF e = "client" THEN "server" ELSE "client"

-----------------------------------------------------------------------------
(***************************************************************************)
(* SV_UpdateToReliableMessages: for each client in the order of the slots  *)
(* the broadcast data is added to chan->message if it fits, else it goes   *)
(* out as fragments.  b holds the buffers as the loop changes them: once a *)
(* client has got its data as fragments, the later ones get what is left   *)
(* of it, as regular data if they have room for it.                        *)
(***************************************************************************)
SentTo(b, c) ==
    IF Len(b.datagram) < MaxMessage - Len(b.message[c])
    THEN [datagram |-> b.datagram,
          message  |-> [b.message EXCEPT ![c] = @ \o b.datagram],
          blocks   |-> b.blocks,
          spoiled  |-> b.spoiled \union {x \in {c} : b.datagram # reliable_datagram}]
    ELSE [datagram |-> Compressed("server", c, b.datagram),
          message  |-> [b.message EXCEPT ![c] = <<>>],
          blocks   |-> [b.blocks EXCEPT ![c] =
                           @ \o Queued("server", c, b.message[c], b.datagram)],
          spoiled  |-> b.spoiled]

SentToAll ==
    LET sent[c \in 0 .. Slots] ==
            IF c = 0
            THEN [datagram |-> reliable_datagram, message |-> message["server"],
                  blocks |-> blocks["server"], spoiled |-> spoiled]
            ELSE SentTo(sent[c - 1], c)
    IN  sent[Slots]

UpdateToReliableMessages ==
    /\ reliable_datagram # <<>> \/ \E c \in Slot : Len(message["server"][c]) >= MaxMessage
    /\ LET sent == SentToAll
       IN  /\ reliable_datagram' = <<>>
           /\ message' = [message EXCEPT !["server"] = sent.message]
           /\ blocks' = [blocks EXCEPT !["server"] = sent.blocks]
           /\ spoiled' = sent.spoiled
    /\ written' = [written EXCEPT !["server"] =
                      [c \in Slot |-> @[c] \o reliable_datagram]]
    /\ UNCHANGED <<parsed, last>>

\* The next k commands of a peer.
New(e, k) == [i \in 1 .. k |-> <<last[e] + i>>]

MayWrite(e, k) == last[e] + k <= MaxWritten[e]

\* The game writes a command for all clients.
BroadcastCommand ==
    /\ MayWrite("server", 1)
    /\ Len(reliable_datagram) < MaxDatagram
    /\ reliable_datagram' = reliable_datagram \o New("server", 1)
    /\ last' = [last EXCEPT !["server"] = @ + 1]
    /\ UNCHANGED <<message, blocks, written, parsed, spoiled>>

\* A command for the other end of one channel.
WriteCommand(e, c) ==
    /\ MayWrite(e, 1)
    /\ Len(message[e][c]) < MaxMessage
    /\ message' = [message EXCEPT ![e][c] = @ \o New(e, 1)]
    /\ written' = [written EXCEPT ![e][c] = @ \o New(e, 1)]
    /\ last' = [last EXCEPT ![e] = @ + 1]
    /\ UNCHANGED <<reliable_datagram, blocks, parsed, spoiled>>

\* A message of its own that goes out as fragments: signon data, a resource
\* list, the client's download requests.
SendBlock(e, c, k) ==
    /\ MayWrite(e, k)
    /\ message' = [message EXCEPT ![e][c] = <<>>]
    /\ blocks' = [blocks EXCEPT ![e][c] =
                     @ \o Queued(e, c, message[e][c], New(e, k))]
    /\ written' = [written EXCEPT ![e][c] = @ \o New(e, k)]
    /\ last' = [last EXCEPT ![e] = @ + k]
    /\ UNCHANGED <<reliable_datagram, parsed, spoiled>>

\* Netchan_TransmitBits loads a fragmented message, and the regular data waits
\* for it or is queued behind the others; or it loads the regular data.  What
\* is loaded arrives and is parsed.
Transmit(e, c) ==
    LET pending == message[e][c]
        queue   == blocks[e][c]
        requeue == Len(pending) > MaxReliablePayload
    IN  \/ /\ queue # <<>>
           /\ blocks' = [blocks EXCEPT ![e][c] =
                 IF requeue THEN Tail(queue) \o Block(e, c, pending) ELSE Tail(queue)]
           /\ message' = [message EXCEPT ![e][c] = IF requeue THEN <<>> ELSE @]
           /\ parsed' = [parsed EXCEPT ![e][c] =
                 @ \o Received(Other(e), c, Head(queue))]
           /\ UNCHANGED <<reliable_datagram, written, spoiled, last>>
        \/ /\ queue = <<>> /\ pending # <<>>
           /\ message' = [message EXCEPT ![e][c] = <<>>]
           /\ parsed' = [parsed EXCEPT ![e][c] = @ \o pending]
           /\ UNCHANGED <<reliable_datagram, blocks, written, spoiled, last>>

Init ==
    /\ reliable_datagram = <<>>
    /\ message = [e \in Peer |-> [c \in Slot |-> <<>>]]
    /\ blocks = [e \in Peer |-> [c \in Slot |-> <<>>]]
    /\ written = [e \in Peer |-> [c \in Slot |-> <<>>]]
    /\ parsed = [e \in Peer |-> [c \in Slot |-> <<>>]]
    /\ spoiled = {}
    /\ last = [e \in Peer |-> 0]

Next ==
    \/ UpdateToReliableMessages
    \/ BroadcastCommand
    \/ \E e \in Peer, c \in Slot :
           \/ WriteCommand(e, c)
           \/ \E k \in BlockSizes : SendBlock(e, c, k)
           \/ Transmit(e, c)

Spec == Init /\ [][Next]_vars
-----------------------------------------------------------------------------
\* The other end decompresses what end e of c's channel compresses.  It does
\* not on a server that runs in a client's process: there the other clients
\* compress and the server does not decompress.
Understood(e, c) == UsesLzss(e, c) => UsesLzss(Other(e), c)

\* Each end of each channel parses the commands that the other end wrote for
\* it or for everybody, in the order in which they were put in its buffers: no
\* compressed bytes, no command twice, none skipped.  That the clients share
\* the broadcast buffer, which is compressed in place for the first of them
\* that has no room, does no harm to one that has no room either, nor to what
\* the clients send; it spoils the data of those that have room.
ParsedAsWritten ==
    \A e \in Peer, c \in Slot :
        Understood(e, c) /\ (e = "server" => c \notin spoiled)
        => IsPrefix(parsed[e][c], written[e][c])

\* "Now send the reliable and server datagrams to all clients", says a comment
\* in SV_UpdateToReliableMessages: each client parses what was broadcast.
ReliablesGoToAll ==
    \A c \in Slot : IsPrefix(parsed["server"][c], written["server"][c])
=============================================================================
