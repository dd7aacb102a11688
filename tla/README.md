# A verification project for CSRetro

CSRetro is a Counter-Strike 1.6 compatible game: an engine in C (`engine/engine`,
a fork of Xash3D), client and game libraries in C++, and a launcher with its
updater. This directory models the parts of it in which state is shared by
several actors and outlives a function call, model-checks them with TLC, and
proves the most important results with TLAPS. Paths below are relative to `src/`;
`PROJECT.json` names, for each definition, the lines it stands for.

## 1. Inventory

### Components, their state and their operations

| component | state | operations | talks to |
|---|---|---|---|
| network channel (`engine/engine/common/net_chan.c`) | `netchan_t` at each end: sequence numbers, two parity bits, `message`, `reliable_buf`, wait lists, current and incoming fragment lists | `Netchan_TransmitBits`, `Netchan_Process`, `Netchan_CreateFragments`, `Netchan_CreateFileFragments`, `Netchan_FragSend`, `Netchan_Copy*Fragments`, `Netchan_Clear` | called by both host loops; datagrams |
| client network loop (`client/cl_main.c`) | `cls.state`, `cls.signon`, `cls.datagram`, `cl.commands` | `CL_WritePacket`, `CL_ReadNetMessage`, `CL_ServerCommand`, `CL_Reconnect` | channel, parser, input |
| server network loop (`server/sv_main.c`, `sv_frame.c`) | `svs.clients[]`, `sv.reliable_datagram`, `sv.datagram`, `FCL_*` flags | `SV_ReadPackets`, `SV_UpdateToReliableMessages`, `SV_SendClientMessages`, `SV_SpawnServer` | channels of all clients, game library |
| user commands (`cl_main.c`, `sv_client.c`, `sv_pmove.c`) | ring `cl.commands`, `lastoutgoingcommand`; `lastcmd`, `timebase` | `CL_CreateCmd`, `CL_WritePacket`, `SV_ParseClientMove`, `SV_RunCmd` | ride on the channel's sequence numbers |
| connection handshake (`sv_client.c`, `cl_main.c`) | challenges, slots, `cs_*`/`ca_*` states, cookies | challenge, connect, `SV_New_f` ... `SV_Begin_f`, `SV_DropClient`, reconnect | sets up the channels |
| delta snapshots (`sv_frame.c`, `cl_parse.c`, `cl_frame.c`) | rings of frames and entities on both sides, `delta_sequence`, `validsequence` | `SV_WriteEntitiesToClient`, `CL_ParsePacketEntities` | acknowledged by `clc_delta` |
| HTTP downloader (`common/http/net_http_xash.c`) | list of downloads, each with a `pfn_process` state | connect, send, receive, retry next server | callbacks into the resource loader |
| task tracker (`client/nextclient/packages/task_coro`) | `active_`, `awaiters_`, a promise and flags under a lock | `MakeToken`, `OnTaskFinished`, `WaitAsync` | threads of the launcher |
| updater GUI and HTTP service (`.../updater_gui_app/Updater.cpp`, `NextUpdaterHttpService.cpp`) | cancellation tokens, the coroutine, the pending requests | `PostAsync`, `CancelUpdate`, `OnExit`, `ShutdownAsync` | task tracker, updater, UI thread |
| updater (`.../NextUpdater/NextUpdater.cpp`, `HttpFileDownloader.cpp`) | installed files, backup folder, queue of downloads | `Start`, `Cancel`; download, back up, install, restore | HTTP, file system |
| launcher (`.../next_launcher`) | `cs.exe`, `cs_new.exe` | `FinishLauncherUpdate`, start of the next process | updater, engine |
| GameDLL rules (`server/game/regamedll/dlls`) | round timers, bomb, hostages, money, fire | `CHalfLifeMultiplay::Think` and friends | engine callbacks |
| NextClientServerApi (`server/src`) | pending cvar queries, protected cvars | query, response, disconnect | AMX Mod X plugins |

Not candidates: renderers, sound, UI, file system, memory, console (sequential
data transformation or pure input and output), bots (heuristics), platform
layers, build scripts, and the vendored sources. `PROJECT.json` lists them all.

### Interaction

Both programs run one main loop, `Host_Frame`. The server's frame reads all
datagrams (`SV_ReadPackets`: channel, parser, then completed fragment blocks),
runs the game, then moves the broadcast data of the frame to every client's
channel and sends. The client's frame creates a user command, sends one packet,
reads all datagrams and takes completed blocks over. Everything reliable goes
through `chan->message` or a fragment list; user commands and snapshots are
unreliable and repair themselves from the sequence numbers of the channel.

### What is hard, and what must hold

* **Channel.** Datagrams get lost, repeated and reordered; one parity bit has to
  tell a lost payload from a late acknowledgement. Data takes four different
  paths to the reliable buffer. Must hold: each payload is accepted exactly
  once, in order; what is lost and only that is sent again; the receiving *game*
  gets the commands in the order in which they were written; a drained sender
  means a complete receiver; the two ends never wait for each other.
* **Split message compression.** Compression in place meets a buffer that all
  clients share, and the two ends decide for themselves whether to compress.
  Must hold: what is parsed is what was written. It does not always (finding 3).
* **User commands.** The server reconstructs from three numbers which commands
  it has missed, and before the first entities packets come without any. Must
  hold: none runs twice, each frame of the client leads to one run, nothing that
  has arrived is passed over.
* **Handshake.** Requests arrive late, slots change hands, levels change while
  clients load them, and there are two ways to reset a channel, after which the
  two ends may disagree about the parity. Must hold: a level's game only gets
  clients that it has accepted, a session is of one level at both ends, the
  signon never gets out of turn and ends.
* **Snapshots.** Ring slots are overwritten while acknowledgements travel. Must
  hold: both sides decode against the same frame.
* **HTTP downloader.** Callbacks change the list that is being walked. Must hold:
  each download ends once.
* **Task tracker and shutdown.** The coroutine, two IO tasks and the UI thread
  share a counter and a promise. Must hold: the promise is set once, nobody who
  waits is forgotten, and the service is destroyed after its tasks have ended.
* **Updater.** May crash between any two steps and inside a write, any file may
  be locked, the player may cancel. Must hold: nothing is lost, the game starts
  with one version, a reported update is complete, and whatever has gone wrong
  is mended by later starts.
* **GameDLL.** Rounds end for several reasons at once. Must hold: each round is
  won once, the bomb is in one place.

`PROJECT.json`, "hazards", lists the places in the code, with the properties
that watch them or the reason why none does yet.

## 2. Plan

| | module | abstract specification | state |
|---|---|---|---|
| 1 | `Netchan`, `NetchanHosts`, `NetchanRecovery`, `SplitCompression` | `ReliableStream` | done; safety of the channel proved |
| 2 | `UserCommands` on the sequence numbers of module 1 | one run per client frame | done; all of its properties proved |
| 3 | `TaskTracker`, `HttpShutdown`: threads as processes, one action per atomic step | `TaskTracker` of what uses it | done; safety proved |
| 4 | `HttpFileDownloader`, `Updater`: files, backup folder, crash at any step | old version or new version | done; safety proved |
| 5 | `Snapshots`: rings of frames at both ends | client's frame equals the server's | done; safety proved |
| 6 | `SessionChannel`, `Handshake`: challenge, connect, slots, signon, level changes, `Netchan_Clear` on both sides | the channel of module 1 at the grain of messages | done; safety proved |
| 7 | `HttpQueue`: the list of downloads and its callbacks | each request answered once | next |
| 8 | `RoundRules`: bomb, round end, restart | | |
| 9 | `CvarQuery` of NextClientServerApi | each query answered or dropped once | |

Theorems, in order of value: the channel's inductive invariant and refinement, the
tracker's and the updater's invariants, the properties of the user commands for
every size of the ring and of the limits, `AdmittedByThisLevel`, `OneLevelPerSession`,
`SameLevel` and `SignonInTurn` of the handshake, `StartsOneVersion` of the updater,
`NeverReconnects` of the fragments, `CommandsInOrder`, `DrainedMeansDelivered` and
`FilesIntact` of the games at both ends, `FramesAgree` of the snapshots, `ParsedAsWritten`
of the split compression (all done).

## 3. Modules

**`Netchan`** holds the state of both `netchan_t` and one operation per function.
Variables carry the names of the fields, indexed by the peer. `TransmitBits` is
the whole of `Netchan_TransmitBits` with `Netchan_FragSend`: decide whether to
repeat, move up a wait list, stall or requeue regular data, load, cut
fragments off, send. `Process` is the whole of `Netchan_Process` with
`Netchan_FindBufferById`, `Netchan_AddBufferToList` and
`Netchan_CheckForCompletion`. Lengths are counted in abstract units, one unit per
game command or piece of a file, so that the models can follow each command from
writing to parsing. `net` only grows: any datagram may be delivered at any later
time, again, or never. `loads` and `accepted` are history variables: the
reliable payloads a peer has loaded, and those it has accepted.

**`NetchanHosts`** adds the two loops that drive a channel, and the functions of
the game that produce data. The difference that matters is kept: the client
takes completed blocks over at the end of reading, before it sends
(`CL_ReadNetMessage`); the server inside its loop, and only after a packet that
left a payload (`SV_ReadPackets`). `spawned` and `active` are the states of the
connection at the two ends: the server spawns the client when it parses the
command "begin", which may be any of the client's commands, and the client is
active once it has received a datagram with entities; from then on its packets
carry a move. `delivered` and `files` are what the game at
each end has parsed or written.

**`NetchanRecovery`** lets the hosts run over a bad network first and then over a
good one, where the frames of the two hosts alternate.

**`ReliableStream`** is the abstract specification: in each direction a sequence
`sent` and a prefix of it `received`, at most one apart; a step sends one payload
when everything has been received, or receives one.

**`SplitCompression`** models what the first modules leave out: `use_lzss` at both
ends, compression in place by `Netchan_CreateFragments`, and several channels
that share `sv.reliable_datagram`. A buffer is a sequence of units, each a command
or what LZSS made of several units. The loop over the slots is one action, and the
broadcast buffer is handed from slot to slot in it as the code leaves it. The
history variable `spoiled` holds the slots that have got compressed broadcast data
as regular data. Transport is a queue here, which is what `Netchan` shows and
`NetchanProofs` proves.

**`UserCommands`** models the commands that ride unreliably on the same sequence
numbers: the ring of commands, the counts in a packet, `SV_ParseClientMove`'s
arithmetic. The client is `connected`, `validate` (it creates commands and sends
none) or `active`; it sends "begin" in a packet without a move and turns active
only after entities of a server that has spawned it, so a spawned server accepts
packets without moves first. It takes from `Netchan` that a datagram is accepted
only if it is newer than the last.

**`Snapshots`** models the frames of entities that the server sends to one
client, `SV_EmitPacketEntities` and `SV_WriteEntitiesToClient` against
`CL_ParsePacketEntities` and `CL_WritePacket`'s `clc_delta`, in one session: its
frames are zeroed by `SV_ConnectClient` and freed when the client is dropped or the
level changes. The frames and the
ring of entities are there at both ends; the merge at the client is done entity
by entity, because it reads the ring that it writes. A frame's base is known only
by one byte of its number. From `Netchan` it takes that datagrams are lost or
arrive in order. Sequence numbers are kept as distances from the server's
`outgoing_sequence`, which is all the code looks at, so the model needs no bound
on how long a connection lasts. An update from the client arrives at once or is
lost: of a round trip only the sum matters, and `down` has the length of it.

**`SessionChannel`** is one direction of a session as `Handshake` sees it: reliable
messages arrive once and in order, late or never, and a datagram not after a
later one, which is what `Netchan` and `NetchanHosts` show. What they leave out
is `Netchan_Clear` in mid-session: it forgets the outstanding payload, which may
not have been sent, may still arrive, or may be lost. In the last case the two
parities differ by one from then on (`skew`): the next payload is taken for
acknowledged when it is lost, and for lost when it has arrived, so it comes
never or twice. A fragmented message that is cut off in the middle makes its
receiver reconnect (`torn`). A queue is a set of messages, each with the number of those sent
after it, which is what the proofs need of the order.

**`Handshake`** composes two such channels per session with the client's
`cls.state`, retries, bandwidth test and `cls.signon`, the server's slots and
`svs.spawncount`, and the connectionless packets between them. Each console
command, connectionless packet, client command (`new`, `sendres`,
`spawn`, `begin`, `disconnect`), server message (`svc_serverdata`, the resource list, the
signon, the first entities, `reconnect`, `svc_disconnect`), timeout, kick and level
change is an action. A slot has `frames` as long as the server executes what comes
in on its session: `SV_ConnectClient` allocates them, `SV_DropClient` and
`SV_DeactivateServer` free them, and `SV_ReadPackets` asks for them
(`sv_main.c:417`). So after a level change an old session answers nothing any more,
although its slot is in `cs_connected`, until a connect packet takes the slot. The
client is in `ca_connected` until the resource list comes and in `ca_validate` from
then on; a `reconnect` starts over in the session only in the first
(`cl_main.c:1913`). A player may give the command too (`UserReconnects`). A
session is named by the cookie that the client draws for each connect packet; an
end reads only the session whose cookie it holds. Challenges are valid for one
level, since `SV_SpawnServer` draws a new salt, so `spawncount` stands for the
salt; they also expire, and there are other reasons to refuse a client, so a
request may be rejected at any time. The network loses and reorders
connectionless packets. A queued `reconnect` is executed before the client sends
anything (`Host_ClientBegin` runs the command buffer before `Host_ClientFrame`)
and before `svc_serverdata` is parsed. `CL_Disconnect`'s three copies of its
message are one datagram that may be lost.

**`TaskTracker`** has one action for each place inside `MakeToken`,
`OnTaskFinished` and `WaitAsync` where another thread may run: between the atomic
counter and the lock, inside which nothing interleaves, and between the lock and
`set_result`. **`HttpShutdown`** is its use by the updater: the coroutine with its
two posts, the IO task of each, the UI thread with cancellation, exit, the wait,
and the destruction of the service. It EXTENDS `TaskTracker`, every step that
touches the tracker is one of its actions, and `HttpShutdownProofs` proves that
every behaviour is one of `TaskTracker` (`UpdaterUsesTracker`).

**`HttpFileDownloader`** is the loop of `StartDownloads`: queue, requests, results
and retries. **`Updater`** composes it with `NextUpdater::Start`, one action per
file of each loop and per decision of `Start`, and with the launcher around it.
Files have contents (absent, empty, partial, old, new) and the backup folder
too. `Crash` ends the process at any step and may tear the write that is being
made; every file operation may fail; `Cancel` sets the token at any time. What
the updater cannot undo is noted in the history variable `faults` with a name for
each kind, so that properties can say exactly what they except.

**`MCNetchan`, `MCRecovery`, `MCSplitCompression`, `MCUserCommands`,
`MCSnapshots`, `MCHandshake`, `MCHttpShutdown`, `MCUpdater`** give functions, sets and views to
TLC. **`NetchanProofs`, `DeliveryProofs`, `CompressionProofs`, `UserCommandsProofs`,
`HttpShutdownProofs`, `UpdaterProofs`, `SnapshotsProofs`, `HandshakeProofs`** hold the
theorems.

## 4. Runs

| run | expects | question |
|---|---|---|
| `commands` | pass | one of the two peers sends blocks and single commands in the game, without a cookie, with sequence window 1, with frames held back by `cl_cmdrate`: does the channel implement `ReliableStream`, and does the game get commands in order and completely? |
| `file` | pass | a file beside commands and broadcast data, from connecting into the game, in packets too small for both streams: is it written as it was sent, and do files and commands stay on their own streams? |
| `recovery_connecting` | pass | commands and a block to a client, one command back, an outage at any stage from connecting to the game: is everything delivered afterwards? (liveness) |
| `handshake` | pass | a client that connects, starts over, leaves and returns, a server that kicks, times out and changes the level: who gets into which level, of which level is a session, is each signon awaited, and does every one end? (liveness) |
| `compression` | pass | two clients of a dedicated server, which share the broadcast buffer: is what is parsed what was written, unless a client was given compressed broadcast data as regular data? |
| `user_commands` | pass | is every client frame run exactly once, and nothing twice? |
| `snapshots` | pass | what the client takes for a frame is what the server put in it, over loss, flushes and roll-off; a lost base is found again (liveness) |
| `http_shutdown` | pass | every interleaving of the updater's threads: is the promise set once, is nobody forgotten, is the updater always left? (liveness) |
| `updater` | pass | the launcher and another file, any crash, locked file, error or cancellation, any number of starts: what can be lost, what is started, and is everything brought up to date once faults stop? (liveness) |
| `shutdown_early` | violation | finding 1 |
| `updater_cancel` | violation | finding 2 |
| `broadcast` | violation | finding 3 |

### Bounds, and why they are enough

Sequence numbers are bounded by 3 or 4 per peer (8 in the recovery runs, of
which 3 before the outage; everything is delivered before the eighth): loss, a
repetition, its acknowledgement, the loss of that and the next payload take four
packets. `MaxWritten` is 1 to 3 commands: one in a fragment, one behind it, one
that could overtake. A chunk holds one or two units, so blocks have one full, one
full and one partly full, or several fragments. `MaxFragment = 2` with chunks of
1, in `file`, makes one fragment or command fit and a second not; `MaxMessage = 1`
there fills the message buffer with one command, so that broadcast data goes out
as fragments. The bounds of `file` just suffice for a whole file to be sent and
its last fragment to be acknowledged, beside a command.
In `commands` only one peer writes in a behaviour (`OneWriter`); the other
acknowledges. The two directions share nothing but the packets, and `file` and
`recovery_connecting` have both at work.
The window is 1, the smallest that the code accepts. In `user_commands` the ring
has 5 slots for packets of up to 2 + 2 commands and the gap limit is 4, so that
each of the three branches of the arithmetic (repeat, recover, run) is taken
alone and together, and the ring is overwritten while packets travel.

`compression` and `broadcast` have two clients, so that the loop over the slots has
a first and a later one. A message buffer holds three commands, the broadcast
buffer two, so that broadcast data fits for one client and not for the other; two
commands are the least that LZSS makes smaller. The server writes up to five: three
to fill a buffer and two to broadcast.

The views `FreshView` identify states that differ only in datagrams which their
receiver would drop as stale. Delivering those changes nothing, so no behaviour
is lost. The statements of the invariants about stale datagrams are covered by
the proof, which does not use the view.

`snapshots` has rings of 4 slots and a byte that tells 4 numbers apart, so that
slots are overwritten, and the byte comes round, within a few packets; the
server's ring of entities holds four, two frames, so that a base rolls off there
while the client still asks for it, and the client's check for the same
(`PacketEntities`) strikes too. Frames have one or two entities, so an entity
comes, goes, changes or stays. `MaxBehind = 3` is how old a frame can get that an
end still goes by. With 4, the length of the byte, `FramesAgree` holds as well
(866,006 states); with 5 TLC finds it violated, because the number of a frame
that is a whole turn back looks like that of a near one
(`cl_frame.c:685`, `sv_frame.c:241`). In the program a turn is 256 packets: the
server must go by the same acknowledgement, and lose all it sends, for 257 to 318
frames and still be heard by the client, that is for more than two and a half
seconds at 100 frames a second. The server itself stops sending when it has not
heard of a client for `sv_failuretime` (half a second), so only an outage of that
one direction leads there. The bound excludes it, and the README says so instead
of a run because nothing in the repository promises otherwise.

`handshake` has one client, which meets itself: its own earlier sessions, late
packets and abandoned slots are what can confuse the server. Two slots let a new
session begin while the old one is still there; two levels make a change, and two
cookies a second session. `NetworkCapacity = 1` lets a connectionless packet arrive
late or be lost to the next one; two that cross were checked without liveness
(`NetworkCapacity = 2`, `TestRetries = 1`: 893,604 states). `MaxBacklog = 2` lets a
player give `reconnect` while two messages are under way; `reconnect` of the server
and of a torn fragment has no such bound. `ConnectionRetries` and `TestRetries`, 1
and 2, are reached. With a third session or level TLC did not finish; the second of
each is what an old message can be confused with. For more clients, slots, sessions,
levels and packets there are the proofs.

`http_shutdown` needs no bounds: the program makes at most two posts.
`updater` has the launcher, which is treated differently in every phase, and another
file, which may be absent or up to date from the start; one may be done and the
other not. Two requests run at once, and with one retry a file waits while the other
is requested. Cycles are kept: any number of starts follow each other. With a third
file liveness takes too long; without it, three files and no retry were checked too
(1,421,383 states), `updater_cancel` has them, and for any number of files there are
the proofs.

Deadlock is checked in `snapshots`. It is off where a behaviour ends: in the runs
with bounded sequence numbers or commands, in those of `Handshake` when no cookie
and no level is left, in `http_shutdown` when the updater is destroyed, in the
updater's runs when no launcher is left to start.

### Fairness

`NetchanRecovery`: weak fairness of `Frame`, the step of whichever host is next.
Both hosts call `Host_Frame` in an endless loop (`common/host.c`), and each step of
`Frame` is a piece of that loop. Nothing is assumed about the network before the
outage ends.

`Snapshots`: the client sends again and again (its frame does, at `cl_cmdrate`),
and the down link is used and emptied infinitely often, that is, packets do not
all get lost for ever. Nothing is assumed of any one packet or of the order of
the two ends' steps.

`Handshake`: the client reads packets, executes its command buffer, loads its
resources and looks at its state in every frame, the server reads packets and
sends entities in every frame. A timeout is only certain where nothing can be
heard any more: the client's (`cl_timeout`) when no slot has its session, the
server's (`sv_connect_timeout`, counted from the start of the session) as long as
its slot is not spawned. Both may also strike at any other time.
Nothing is assumed of the user, of kicks, of level changes, or of connectionless
packets.

`HttpShutdown`: each thread runs on (weak fairness of the coroutine, of each IO
task, of the UI thread). An IO task ends because `PostInternal` sets timeouts, and
the coroutine's `WithCancellation` polls. That the player ever closes the window is
not assumed; a finished coroutine makes `OnUpdate` ask for the exit.

`Updater`: the process runs on, the player starts the game again, and a request
that was made ends (`cpr::ConnectTimeout`, `cpr::LowSpeed`). `Repairs` is about the
time after the last fault (`calm`); nothing else stops faults from happening for
ever.

### What the properties say

* `ReliableInv` is the inductive invariant of the channel, see section 5.
* `ExactlyOnce`, `OnlyLostIsSentAgain`, `OnlyAcceptedIsCleared` and
  `ImplementsStream` are what it is good for.
* `CommandsInOrder` and `DrainedMeansDelivered` are about the games at both ends
  and go through all queues: written, stalled, requeued, cut, sent, stored,
  completed, copied, parsed.
* `NeverReconnects`: the receiver's check for a fragment that is out of place,
  which makes a client reconnect, is never set off by the network alone.
* `FilesIntact`, `Recovers`: see the runs.
* `ParsedAsWritten`: on every channel whose receiver decompresses what the sender
  compresses (`Understood`), the commands are parsed as they were written, up to the
  moment at which compressed broadcast data is put in a client's regular data
  (`spoiled`). `ReliablesGoToAll` is what the comment in the code says, without these
  exceptions; it does not hold.
* `HonestIsKept`, `RunOnce`, `CarriedIsRun`: see the inventory. The types of this
  module are proved and need no run: the one slip that breaks them breaks
  `HonestIsKept` too. `OneRunPerFrame` is
  about packets with a move, and about all packets once a command has been run.
* `FramesAgree` compares what the client holds for its valid frame with what the
  server put in the frame of that number, and `FramesResume` says that a client
  without a valid frame gets one.
* `AdmittedByThisLevel`: `pfnClientPutInServer` is only called for a client that this
  level's `pfnClientConnect` has accepted: no "spawn" is executed without the "new"
  of its session, although the slot may have changed hands, and either end may have
  started over, since "spawn" was sent. `OneLevelPerSession`: the level's number that
  a client has, and those under way, are the server's as long as the server listens
  to the session. So the branch of `SV_Spawn_f` for "a level changing while a client
  was connecting" (`sv_client.c:2095`) is never taken. `SameLevel`: a client
  that is active in a slot that is spawned has loaded the server's level; a client
  that misses both copies of "reconnect" may think itself active, but not in a
  spawned slot. `SignonInTurn`: the error of `CL_ParseSignon` is never met.
  `SignonEnds`: no client is `ca_connected` or `ca_validate` for ever, except one that
  has started over after the server has spawned it (`Stranded`, section 6).
* `PromiseSetOnce` (a second `set_result` throws, in a destructor), `NoLostWakeUp`,
  `ReturnMeansIdled`: the tracker's promises, as far as it keeps them.
  `ShutdownReturns`: the exit never blocks for good. `ShutdownAwaitsTasks`: what the
  tokens are for; it does not hold.
* `Recoverable`: at every moment, so at every crash, a file is whole or the backup
  folder has it. It excepts three faults after which this is not so: a torn write
  to the backup folder (the next start copies it over the file, which was whole),
  an error in restoring at the start (the folder is cleared nevertheless), and a
  download that was cut short (finding 2).
* `StartsOneVersion`: without faults outside the updater's reach the game starts
  with all the old files or all the new ones. `UpdatedIsComplete`,
  `UpToDateIsUntouched` and `DownloadsAccounted` say what a reported update is,
  what it leaves alone, and that no file gets lost in the downloader. `Repairs`:
  what faults have left behind does not last.

For every property of a passing run there is a mutant, a small slip in one
mapped definition, under which TLC reports that property. The mutated
definitions stand beside the real ones and are marked.

## 5. Proofs

`NetchanProofs` proves, for all chunk sizes, buffer sizes, files, bounds and
windows:

| theorem | statement |
|---|---|
| `TypeCorrect` | `Spec => []ChannelTypeOK` |
| `ReliableInvariant` | `Spec => []ReliableInv` |
| `AcceptedExactlyOnce` | `Spec => []ExactlyOnce` |
| `ResendsOnlyLost` | `Spec => OnlyLostIsSentAgain` |
| `ClearsOnlyAccepted` | `Spec => OnlyAcceptedIsCleared` |
| `ChannelImplementsStream` | `Spec => ImplementsStream` |
| `HostsTypeCorrect` | `Spec => []HostsTypeOK` |

The assumptions are the `ASSUME`s of `Netchan` and `NetchanHosts`: sizes are
naturals, a chunk fits in a packet.

**The argument.** "Exactly once" is not inductive: whether a datagram in the
network may still be accepted depends on the sender's parity and sequence
numbers. The strengthening `ReliableInv` has four parts per direction.
`SequencesSent`: no number in either end or in the network is newer than what
was sent. `AtMostOneOutstanding`: the receiver has accepted all payloads, and the
parities agree, or all but the one in the reliable buffer, and they differ.
`FreshIsOutstanding`: a reliable datagram that could still be accepted is the
latest transmission of that payload. `AcksCurrent`: an acknowledgement that
covers the latest transmission reports the receiver's present parity, whichever
datagram brings it. The last part makes the test of `Netchan_Process`
(`sequence_ack >= last_reliable_sequence` and equal parity) exact, and the test
of `Netchan_TransmitBits` (a later packet acknowledged with the other parity)
proof of a loss. Types are needed for arithmetic, so the invariant that is
proved inductive is `TypeInv /\ ReliableInv`.

Each action of the hosts is first reduced to one of four channel steps
(`StepCases`): transmit, process, a step that touches neither sequence numbers nor
payloads, or a held back packet. `TransmitKeepsInv`, `ProcessKeepsInv` and
`OthersKeepInv` treat these; `StreamStep` maps them to steps of `ReliableStream`.

`HostsTypeOK` says of a file on a disk that it has the name of a file and units in
it, which holds only if what comes out of the list of fragments is file data
and not empty: `FileDataInv`. That flattening keeps this is an induction over the
list. The library's induction theorems take an operator, so it is done with a
set: `InductiveSet` proves that a set of naturals with 0 and all successors is all
of them, and each use of it makes a set of the lengths for which the claim holds.

`DeliveryProofs`, on the same assumptions. Its first part is about the places of the
fragments:

| theorem | statement |
|---|---|
| `ShortBlocksNeverReconnect` | `SizesFit("server") /\ Spec => []NeverReconnects` |

The channel is taken apart into two pipes, one for each sender: its queues, the
payload in its reliable buffer, and the lists of its receiver. `ServerPipeStep` and
`ClientPipeStep` show that every step of the system is, for each pipe, one of
seven steps (`PipeStep`: write, cut, cut a file, load, clear, accept, copy) or none.
Sequence numbers and parities do not occur in these steps any more; that a payload
is accepted at most once, and which one, comes from `ReliableInv`.

`SizesFit(e)` says that what is pending in `chan->message`, every message, every
broadcast and every file of peer e is cut in at most
`MAX_NETCHAN_FRAGBUFS_PER_STREAM` fragments (8192, of 1200 bytes by default). It is
needed: of a longer file the receiver throws away what its list cannot hold
(section 6, `net_chan.c:765`). The invariant follows a block through its four places. `BlocksInv`: on the
server whole blocks wait, and the current list is the end of one, numbered up to
`fragbufcount`. `NextInv`: what comes next for the client, from the reliable buffer
if its payload has not been accepted yet, else from the list, is the fragment
after those the client holds, or the first one of a block. This would break if a
fragment came while a completed block is still in the client's lists:
`CL_ReadNetMessage` takes it over only after it has read all datagrams. `HeldInv`
excludes it: until then nothing the client has sent acknowledges the payload that
has completed the block, so the server can load no other (this is where
`AcksCurrent` of the channel's invariant is used). `FitsInv` carries `SizesFit` from
the constants to the queues.

Its second part says what is in the fragments:

| theorem | statement |
|---|---|
| `CommandsArriveInOrder` | `(\A e : SizesFit(e)) /\ MessagesFit /\ FragmentsInGame /\ Spec /\ []NoOverflow => []CommandsInOrder` |
| `DrainedIsDelivered` | the same of `DrainedMeansDelivered` |
| `FilesArriveIntact` | `(\A e : SizesFit(e)) /\ FragmentsInGame /\ Spec => []FilesIntact` |

The hypotheses name what the code leaves open. `MessagesFit`: no message that is
cut is longer than the receiver's buffer (`Netchan_CopyNormalFragments` drops a
longer one). `NoOverflow`: nothing is written to a full `chan->message`, which loses
it. `FragmentsInGame`: a client that is not in the game from the start has no blocks
or files to send. It excludes the first observation of section 6
(`sv_main.c:406`): while the client's packets carry no move, the server does not
take over a completed block, and regular data overtakes it. For files the loss is
worse: the fragments of a second file have the same numbers as those of the
first, which is still in the list, and are written over it, so that the first
name is stored with the second content. With two files of the client in place of
the server's one in `file`, nothing else written, and nine and six packets, TLC
finds `FilesIntact` violated; `CL_BeginUpload_f` (`cl_main.c:1056`), which starts an
upload, does not ask for the client's state. The configurations of `commands` and
`file` satisfy the hypotheses of the theorems whose properties they check.

The invariant is a line of numbers. `CommandsLine`: there are numbers
d <= a <= b <= c <= z such that the commands up to d are delivered, those up to a
are the regular data on its way, those up to b are in the fragments the receiver
has or is about to get, those up to c in the sender's list, those up to z in
the wait list, block by block, and the rest in `chan->message`. `Runs` expresses that
the elements of a sequence hold, one after the other, what lies between two
numbers, and the lemmas about it (`RunsAppended`, `RunsTail`, `CoversFlat`,
`FragmentsCover`) say that it survives appending and taking from the front, what
flattening yields, and that cutting a message produces it for any chunk size.
With that each step moves one of the five numbers. `FilesLine` does the same for
files and `NamesLine` says where each queued file is; it makes `DrainedMeansDelivered`
about files an equality of sets. Regular data never travels with a fragment of the
normal stream (`regular # <<>> => sent = <<>>`): this is what the stall in
`Netchan_TransmitBits` is for, and without it a command in the regular data would
overtake the block.

`CompressionProofs`, for any number of slots and commands and any sizes of the buffers
and messages:

| theorem | statement |
|---|---|
| `CompressionInvariant` | the inductive invariant |
| `EveryEndParsesAsWritten` | `Spec => []ParsedAsWritten` |
| `ServerParsesAsWritten` | `Dedicated => (Spec => [](\A c : IsPrefix(parsed["client"][c], written["client"][c])))` |

The first has no hypotheses: any number of clients share the broadcast buffer,
on a dedicated or a listen server. What the code gets wrong is in the property:
`Understood(e, c)` asks that, if e compresses on the channel of client c, the other
end decompresses there (`sv_client.c:476`), and a slot that has been given
compressed bytes as regular data is `spoiled` (`sv_frame.c:786`). The second says what
remains of it on a dedicated server for what the clients send: everything.

`FlowInv` says of such a channel that what has been parsed, what the receiver will
make of the queued blocks, and the pending buffer are adjacent pieces of what
was written. `Laid` is the middle part, with a cut between any two blocks. The
lemmas `FlowsWrite`, `FlowsQueue`, `FlowsQueued`, `FlowsHead` and `FlowsBuffer` say what
writing, cutting, and the arrival of a block or of the regular data do to it,
and each action is one or two of them. `BlockArrives` is where the compression
comes in: what is compressed from plain commands is decompressed to the same
commands. For the other channels the invariant only says that buffers are buffers.
The loop over the slots is a recursive function; `SentToAllFacts` is an induction
over the slots: a slot that has been served has the broadcast data by one of two
ways or is spoiled, one that has not is untouched, and what is left of the buffer
is what was broadcast or what LZSS makes of it, once (`Left`). For a client without
room the two are the same, because compressed data is not compressed again
(`CompressedOnce`).

`UserCommandsProofs`, for every size of the ring, of a packet, of the gap, and for
any sequence of values of `cl_cmdbackup`:

| theorem | statement |
|---|---|
| `CommandsTypeCorrect` | `Spec => []TypeOK` |
| `NobodyIsDropped` | `Spec => []HonestIsKept` |
| `RunAtMostOnce` | `Spec => []RunOnce` |
| `RunsMatchFrames` | `Spec => OneRunPerFrame` |
| `CarriedRuns` | `Spec => CarriedIsRun` |

The assumptions say that a packet's commands fit in the ring and that
`CMD_MASK` is larger than a packet can get. `RunOnce` is not inductive: that an
index into a packet leads to the command of a certain frame depends on what the
ring held when the packet was written, and that new commands are newer than
what has been run, on the packet before. `CommandsInv` adds `RingInv` (the last
`CL_UPDATE_BACKUP` commands are in their slots; `SlotsDiffer` shows that writing
one leaves the others alone), `NetInv` (the command at place i of a packet is i - 1
frames older than the packet, and its new commands are newer than any earlier
packet) and `ServerInv` (the server has taken a packet that was sent and has run
nothing newer). `Appended` is the lemma the theorems rest on: what a packet
appends to the run ends with its own command, goes up by one from entry to
entry, and begins after what was run before. `RunsMatchFrames` also needs that a
packet without a move is older than every command that has been run: the client
sends moves only once it is active, and then always.

`HttpShutdownProofs`, for any finite set of tokens and any waiters, and for the
updater's threads:

| theorem | statement |
|---|---|
| `TrackerInvariant` | `TrackerSpec => []TrackerInv` |
| `UpdaterUsesTracker` | `Spec => TrackerSpec` |
| `TrackerTypeCorrect`, `PromiseIsSetOnce`, `NoWakeUpIsLost`, `ReturnsMeanIdled` | `Spec => []` of `TrackerTypeOK`, `PromiseSetOnce`, `NoLostWakeUp`, `ReturnMeansIdled` |
| `ShutdownTypeCorrect` | `Spec => []ShutdownTypeOK` |

`TrackerInv` adds two parts to the properties. `WakeInv`: once the promise exists a
waiter has left its note, and from then on the promise is decided or there is a
token whose end will decide it; this is what makes the two separate steps of
`OnTaskFinished` (count, then lock) safe. `IdleInv`: the flags are set only by who
has found zero. The type invariant holds the counter equal to the number of
tokens that are out, which needs facts about cardinality when a token is made or
given back. The invariant is proved once, for `TaskTracker` with any tokens;
`UpdaterUsesTracker` carries it over to the program's threads, and only
`ShutdownTypeOK` is proved on the composed module.

`UpdaterProofs`, for any set of files and any limits of the downloader:

| theorem | statement |
|---|---|
| `UpdaterInvariant` | the inductive invariant |
| `UpdaterTypeCorrect` | `Spec => []UpdaterTypeOK` |
| `NothingIsLost` | `Spec => []Recoverable` |
| `UpdatesAreComplete` | `Spec => []UpdatedIsComplete` |
| `DownloadsAreAccounted` | `Spec => []DownloadsAccounted` |
| `OneVersionIsStarted` | `Spec => []StartsOneVersion` |
| `DownloaderTypeCorrect` | `Spec => []DownloaderTypeOK` |
| `UpToDateIsNeverWritten` | `Spec => UpToDateIsUntouched` |

The invariant says, phase by phase, what is on disk and in the backup folder:
before the files are opened, every file that will be replaced and was there has
its copy, or the phase's error flag is set; while files are open, those that
have been emptied are backed up; when the folder is cleared, everything is new,
or everything has been restored. `VersionInv` adds, for `StartsOneVersion`, where
the version the player had is while nothing has gone wrong beyond the updater's
reach: on disk as it was, or in the backup folder; on disk again for each file that
`RestoreBackup` has passed, and before anything is written. The steps are proved one action at a time, each
with one step per part of the invariant that the action can disturb.

`SnapshotsProofs`, for any lengths of the rings, any number of entities and any set
of worlds that a client may see:

| theorem | statement |
|---|---|
| `FramesAlwaysAgree` | `FramesFit /\ Spec => []FramesAgree` |
| `SnapshotsTypeCorrect` | `FramesFit /\ InFlight <= MaxBehind + 1 /\ Spec => []SnapshotsTypeOK` |

`FramesFit` says that a ring of frames has more than one slot, that no end goes by a
frame more than a turn of the byte behind (`MaxBehind <= ByteRange`), and that a
world has at most `PacketEntities` entities besides the one with the highest number,
and at most `ServerEntities`. The second is what `FramesAgree` really
needs: with a bound one higher TLC finds it violated. The third is the room that
`CL_ValidateDeltaPacket` leaves (`cl_frame.c:700`); the server may send more (see
section 7). The second theorem's bound on `InFlight` only concerns how far behind
a frame can be; `FramesAlwaysAgree` does without it.

The invariant is about what is still stored. `Stored(ring, frame, w)`: the ring
holds the entities of `w`, in order, at the places that the frame says. For the
client's last good frame, for the frame the server goes by, and for what each packet
under way is compared with, the client's slot and, while it has not rolled off, the
server's slot hold the same world; and every number of a frame that an end goes by
is that of an older packet than those under way. The two facts that make it
inductive are that writing to a ring moves what it held by as many places as the
frames' ages grow (`Kept`), and that the merge, which reads the ring it writes,
never catches up with itself (`Midway`, `MergeStep`): after `n` entity numbers it has
passed as many entities of either world as have numbers up to `n`. `PushWorld` and
`Merged` are recursive functions, so that both are shown to be defined
(`MergesExists`) before anything is proved by induction over the numbers.

`HandshakeProofs`, for any number of clients, slots, cookies and levels and any
limits of the retries:

| theorem | statement |
|---|---|
| `HandshakeInvariant` | the inductive invariant |
| `HandshakeTypes` | `Spec => []HandshakeTypeOK` |
| `AdmittedTheorem` | `Spec => []AdmittedByThisLevel` |
| `OneLevelTheorem` | `Spec => []OneLevelPerSession` |
| `SameLevelTheorem` | `Spec => []SameLevel` |
| `SignonTheorem` | `Spec => []SignonInTurn` |

None of the properties is inductive: each depends on where a message that
arrives can come from. `OwnerInv` and `FreshInv` say that a cookie belongs to one
client, one slot and one packet, and that no message of a session exists before its
ends have taken it up; so a late message is one of the same session. What remains
is the session itself, from the moment its slot gets frames until it loses them
(`Live`). In this time the level does not change, because a change takes the frames
of all slots. `AdmittedInv`: where the signon has begun, or could, because the
level's data, the resource list or "spawn" is under way in either direction, the
slot has been admitted. `LevelInv`: the numbers of a level under way are the
server's, the client's is that or none, and once the signon has begun it is that.
`SignonInv`: there is one signon under way at most, none to a client that has replied
to one, and neither while the server still waits for "spawn".

The proof does not follow the channel's queues in detail. Of the messages only
those that start something count (`News`), and an operation of `SessionChannel` is
`Calm` if it brings none of them into a queue: clearing, losing, tearing and
skewing a channel all are, whatever they take away (`CalmCleared`, `CalmTorn`,
`CalmWithout`, `CalmWithdrawn`). A step within the sessions there are is `Going`: each
thing that is new after it, a state, a number or a message, has a cause before
it (`ClientGoes`, `SlotGoes`, `UpGoes`, `DownGoes`, `LevelGoes`). `GoingAdmitted`,
`GoingLevel` and `GoingSignon` show that such a step keeps the invariant, and most
actions are shown to be one, and to draw no cookie (`Quiet`). Three steps begin
something and have a lemma each: a cookie is drawn (`DrawStep`), a client takes the
session up (`ClientConnectStep`), a slot is wiped for a new session
(`ConnectClientStep`).

The assumptions of the proofs are the `ASSUME`s of the modules.

**Only model-checked.** Liveness (`Recovers`, `FramesResume`, `SignonEnds`,
`ShutdownReturns`, `Repairs`), which is beyond this prover. Every other property of
a passing run has a theorem.

## 6. Findings

1. **The wait for running tasks may be over before it begins**
   (`TaskTracker.cpp:59`). A task that ends when nobody waits leaves
   `pending_set_` behind; the next wait returns at once although another task
   runs. The HTTP service gives each IO task a token so that its destruction
   waits for it; after one answered post it does not. Run `shutdown_early`.
2. **A cancelled download is installed** (`NextUpdater.cpp:146`). Dropped requests
   leave no error, and `Start` looks at the cancellation only if there is one: the
   files that have come are installed, the others stay empty, their backups are
   deleted, and the result is `Updated`. Run `updater_cancel`.
3. **Compressed broadcast data goes to other clients as it is** (`sv_frame.c:786`).
   "Now send the reliable and server datagrams to all clients", says the comment at
   line 778. If `sv.reliable_datagram` does not fit in the message of one client,
   `Netchan_CreateFragments` compresses it in place for that one; a later client
   that has room gets the compressed bytes as regular data, which it does not
   decompress, and parses the LZSS header as a command. It takes a dedicated server
   with two clients, one of which has a full message buffer. Run `broadcast`.

While the channel was modelled, five places were seen where the code falls short
of its comments. The runs' bounds leave them out, and each is seen when a bound is
changed as stated:

* `sv_main.c:406`: a packet that consists of the last fragment of a block leaves no
  payload, and before the client is in the game nothing else in it makes the
  server take the block over; later data is parsed first (`InGame = FALSE`, a
  client that sends a block).
* `net_chan.c:1938`: after more lost packets than `net_sequence_window` every later
  one is rejected too.
* `sv_frame.c:877`: the check for an overflowed buffer looks at a flag that has been
  cleared by the function called before it (a `MaxMessage` that overflows).
* `net_chan.c:765`: fragments over the limit are acknowledged and thrown away
  (a file longer than `MaxFragbufs`).
* `sv_client.c:476`: a listen server does not decompress what remote clients
  compress (`Dedicated = FALSE`, and `ParsedAsWritten` without `Understood`).

The handshake was modelled with these observations.

* `cl_main.c:2562` ignores a repeated `client_connect` only in `ca_connected`. The
  network repeats no connectionless packets in the model; a copy that comes when
  the client is in `ca_validate` or `ca_active` sets its channel up again in
  mid-session.
* `sv_main.c:417`: "any partially connected client will be restarted" by a level
  change, says `sv_init.c:961`, and `SV_New_f` is for "the initial connection and upon
  each server load" (`sv_client.c:1539`). A client that "reconnect" finds in
  `ca_connected` does its part and sends "new" in the session it has; the server has
  released its frames and does not read it. The session ends by a timeout.
* `CL_Reconnect_f` in `ca_connected` after "begin" has been sent: the server has
  spawned the client, or is about to, and ignores its "new". The client then waits
  for a resource list that does not come, until it leaves. It takes a player who
  gives `reconnect` twice: first between `svc_serverdata` and the resource list, so
  that the second `svc_serverdata` puts the client back to `ca_connected` when its
  "spawn" is already under way, and again then. `SignonEnds` excepts it (`Stranded`),
  and TLC finds it violated without the exception.
* `SV_Spawn_f` sets `cs_spawning` after `SV_PutClientInServer`, whose game code may
  have dropped the client (outside the model, where the game drops nobody there).
* `cl_main.c:1433`: after a passed bandwidth test connect packets are sent again
  without being counted. `cl_main.c:1448`: the comment on a failed test ("just send
  connect packet and hope for the best") describes a branch that is not reached,
  because a test fails only when its retries are used up, which disconnects first.
* A client that is dropped in `cs_spawning` was given to the game by
  `pfnClientPutInServer`, but `pfnClientDisconnect` is called only in `cs_spawned`;
  the branch for it in `SV_New_f` (`sv_client.c:1559`) follows a test that excludes it.
* A level change between challenge and connect makes the challenge invalid
  (`sv_init.c:963`), and the client, which does not ask for a new one, is rejected.
* Reordered connect packets leave the server with a cookie that the client has
  replaced; both then wait for their timeouts.

## 7. Not modelled

Of the channel: the rate limiter, flow statistics, progress display, the value of
the cookie, munging, the GoldSrc variants, voice, demos, wrap-around of
sequence numbers (the code's comment at `net_chan.c:247` puts it months away).
Of the handshake: bots, proxies, other protocols, loopback, ports rewritten on the
way, passwords and bans (a rejection without a reason), an overflow of the signon,
a server that ends, and connectionless packets that arrive twice. Of the server
loop: other clients. Of the snapshots: the fields and
their encoding, the choice of a baseline, events, client data, demos, and the
other clients' share of `svs.packet_entities` (a client's own frames roll off it
instead), frames of more entities than `NUM_PACKET_ENTITIES` (256), which
`MAX_VISIBLE_PACKET` (2048) allows. Of the task library: contexts, timers, the
inside of cancellation tokens. Of the updater: paths, attributes, hashes, the
choice among host names, answers that are not the file. Of the launcher: the
instance mutex, analytics, the engine's session. Of user commands: their contents, checksum and time base, speed hack
detection, the division of long commands, HLTV spectators. Everything else in
the inventory that has no module yet is planned or, with the reason in
`PROJECT.json`, left out for good.
