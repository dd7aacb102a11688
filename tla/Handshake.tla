------------------------------ MODULE Handshake ------------------------------
(***************************************************************************)
(* How clients of the engine get into a game and out of it: the exchange of *)
(* connectionless packets that sets up a session, the signon that brings    *)
(* the client into the level, level changes, and what ends a session.       *)
(***************************************************************************)
EXTENDS SessionChannel

CONSTANTS
    Client,            \* the players' hosts
    NoOne,             \* the client of a slot that no one has
    MaxClients,        \* svs.maxclients, of a multiplayer server
    ConnectionRetries, \* CL_CONNECTION_RETRIES
    TestRetries,       \* CL_TEST_RETRIES
    NetworkCapacity,   \* bound: connectionless packets under way at a time
    MaxCookie,         \* bound: connect packets the clients send
    MaxBacklog,        \* bound: messages under way when a player restarts the signon
    MaxLevel           \* bound: levels the server plays

ASSUME HandshakeAssumption ==
    /\ NoOne \notin Client
    /\ MaxClients \in Nat \ {0, 1} /\ ConnectionRetries \in Nat /\ TestRetries \in Nat \ {0}
    /\ NetworkCapacity \in Nat \ {0} /\ MaxCookie \in Nat /\ MaxBacklog \in Nat /\ MaxLevel \in Nat \ {0}

VARIABLES
    cls,         \* [Client -> what a client knows of its connection]
    lastCookie,  \* history: the number of cookies drawn so far
    slot,        \* svs.clients; frames tells that they are allocated, resources
                 \* is the flag FCL_SEND_RESOURCES
    admitted,    \* history: this level's game has accepted the slot's client
    spawncount,  \* svs.spawncount; it stands for the challenge salt too
    oob,         \* connectionless packets under way
    up, down     \* the sessions' directions, by cookie

clientVars  == <<cls, lastCookie>>
serverVars  == <<slot, admitted, spawncount>>
sessionVars == <<up, down>>
vars        == <<clientVars, serverVars, oob, sessionVars>>

Slot      == 1 .. MaxClients
Cookie    == 1 .. MaxCookie
InSignon  == {"connected", "validate"}
InSession == InSignon \cup {"active"}
InGame    == {"connected", "spawning", "spawned"}
FreeSlot  == [state |-> "free", client |-> NoOne, cookie |-> 0,
              frames |-> FALSE, resources |-> FALSE]

\* The network when packet a is sent: a full one loses a packet.  Packets are
\* lost and reordered, and arrive once.
With(net, a) == IF a \in net \/ Cardinality(net) < NetworkCapacity THEN {net \cup {a}}
                ELSE {(net \ {x}) \cup {a} : x \in net}

Sent(a)        == oob' \in With(oob, a)
Received(d)    == oob' = oob \ {d}
Answered(d, a) == oob' \in With(oob \ {d}, a)

\* Which sessions an end reads, or will when the other's packet arrives.  What is
\* sent to an end that has left its session, and has not taken it up again, is lost.
Heard(k)  == \E s \in Slot : slot[s].state \in InGame /\ slot[s].cookie = k
Heeded(k) == \E c \in Client : k = cls[c].pending \/ (k = cls[c].cookie /\ cls[c].state \in InSession)

ToServer(k, ch) == up' = [up EXCEPT ![k] = IF Heard(k) THEN ch ELSE Silent]
ToClient(k, ch) == down' = [down EXCEPT ![k] = IF Heeded(k) THEN ch ELSE Silent]

-----------------------------------------------------------------------------
(***************************************************************************)
(* The client.                                                             *)
(***************************************************************************)
Become(c, r) == cls' = [cls EXCEPT ![c] = r]

\* CL_Disconnect: the record of a client that has left.  What remains are the
\* cookies and the command buffer.
Left(r) == [r EXCEPT !.state = "disconnected", !.connect_retry = 0, !.test = "none",
                     !.test_retry = 0, !.challenge = 0, !.signon = 0,
                     !.servercount = 0, !.prepped = FALSE]

\* CL_SendDisconnectMessage, Netchan_Clear: three copies of the message, as one
\* that may be lost.  What comes in from the server is not read any more.
Leave(c, r) ==
    LET k == r.cookie
    IN  /\ Become(c, r)
        /\ IF cls[c].state = "disconnected" \/ k = 0 THEN UNCHANGED sessionVars
           ELSE /\ \E fate \in Fate :
                      ToServer(k, Send(Without(Cleared(up[k], fate), "disconnect"),
                                       "disconnect", 0))
                /\ down' = [down EXCEPT ![k] = Silent]

Disconnect(c)  == Leave(c, Left(cls[c]))
ConnectAnew(c) == Leave(c, [Left(cls[c]) EXCEPT !.state = "connecting"])

\* CL_Connect_f, CL_Retry_f; CL_Disconnect_f.
UserConnects(c) ==
    /\ ConnectAnew(c)
    /\ UNCHANGED <<lastCookie, serverVars, oob>>

UserDisconnects(c) ==
    /\ cls[c].state # "disconnected"
    /\ Disconnect(c)
    /\ UNCHANGED <<lastCookie, serverVars, oob>>

\* The command "reconnect", given by the player.
UserReconnects(c) ==
    /\ cls[c].state \in InSession /\ ~cls[c].reconnect
    /\ Cardinality(up[cls[c].cookie].queue) + Cardinality(down[cls[c].cookie].queue) <= MaxBacklog
    /\ Become(c, [cls[c] EXCEPT !.reconnect = TRUE])
    /\ UNCHANGED <<lastCookie, serverVars, oob, sessionVars>>

\* CL_SendConnectPacket draws a new cookie each time.
ConnectPacket(c, r) ==
    [type |-> "connect", client |-> c, challenge |-> r.challenge, cookie |-> lastCookie + 1]

DrawCookie(c, r) ==
    /\ lastCookie < MaxCookie
    /\ lastCookie' = lastCookie + 1
    /\ Become(c, [r EXCEPT !.pending = lastCookie'])
    /\ down' = [k \in Cookie |-> IF k = r.pending THEN Silent ELSE down[k]]
    /\ UNCHANGED up

\* CL_SendBandwidthTest asks for a packet of the size of this retry.
TestRequest(c, r) ==
    [type |-> "bandwidth", client |-> c, challenge |-> r.challenge, test |-> r.test_retry]

\* Mutant of GivesUp: one retry too many.
GivesUpLater(retry, limit) == retry > limit

\* CL_CheckForResend: retries of the test and of the challenge are counted,
\* those of the connect packet after the test are not.
GivesUp(retry, limit) == retry >= limit

ResendChallenge(c) ==
    /\ cls[c].state = "connecting" /\ cls[c].test = "none"
    /\ \/ /\ GivesUp(cls[c].connect_retry, ConnectionRetries)
          /\ Disconnect(c)
          /\ UNCHANGED oob
       \/ /\ ~GivesUp(cls[c].connect_retry, ConnectionRetries)
          /\ Become(c, [cls[c] EXCEPT !.connect_retry = @ + 1])
          /\ Sent([type |-> "getchallenge", client |-> c])
          /\ UNCHANGED sessionVars
    /\ UNCHANGED <<lastCookie, serverVars>>

ResendTest(c) ==
    LET r == [cls[c] EXCEPT !.test_retry = @ + 1]
    IN  /\ cls[c].state = "connecting" /\ cls[c].test # "none"
        /\ \/ /\ GivesUp(cls[c].test_retry, TestRetries)
              /\ Disconnect(c)
              /\ UNCHANGED <<lastCookie, oob>>
           \/ /\ cls[c].test = "started" /\ ~GivesUp(cls[c].test_retry, TestRetries)
              /\ Become(c, r)
              /\ Sent(TestRequest(c, r))
              /\ UNCHANGED <<lastCookie, sessionVars>>
           \/ /\ cls[c].test \in {"passed", "failed"} /\ ~GivesUp(cls[c].test_retry, TestRetries)
              /\ DrawCookie(c, cls[c])
              /\ Sent(ConnectPacket(c, cls[c]))
        /\ UNCHANGED serverVars

\* CL_IsFromConnectingServer: serveradr is set with the first retry.
ListensTo(c, d) == d.client = c /\ cls[c].connect_retry > 0

\* CL_Challenge.
Challenge(c, d) ==
    LET r == [cls[c] EXCEPT !.challenge = d.challenge]
        t == [r EXCEPT !.test_retry = 0, !.test = IF @ = "failed" THEN @ ELSE "started"]
    IN  /\ d.type = "challenge" /\ ListensTo(c, d) /\ r.state = "connecting"
        /\ IF r.test = "passed" \/ d.skip
           THEN DrawCookie(c, r) /\ Answered(d, ConnectPacket(c, r))
           ELSE /\ Become(c, t) /\ Answered(d, TestRequest(c, t))
                /\ UNCHANGED <<lastCookie, sessionVars>>
        /\ UNCHANGED serverVars

\* CL_HandleTestPacket: a packet of the size asked for last, or of another one.
HandleTestPacket(c, d) ==
    LET r == cls[c]
    IN  /\ d.type = "testpacket" /\ ListensTo(c, d) /\ r.state = "connecting"
        /\ \/ d.test = r.test_retry /\ Become(c, [r EXCEPT !.test = "passed"])
           \/ /\ d.test # r.test_retry /\ GivesUp(r.test_retry, TestRetries)
              /\ Become(c, [r EXCEPT !.test = "failed"])
        /\ Received(d)
        /\ UNCHANGED <<lastCookie, serverVars, sessionVars>>

\* CL_Reconnect: the session starts with "new" on channel ch.
StartSession(c, r, ch) ==
    /\ Become(c, [r EXCEPT !.state = "connected", !.signon = 0])
    /\ ToServer(r.cookie, Send(ch, "new", 0))

\* CL_ClientConnect: the answer to the last connect packet.
ClientConnect(c, d) ==
    LET r == cls[c]
    IN  /\ d.type = "client_connect" /\ ListensTo(c, d) /\ r.state # "connected"
        /\ d.challenge = r.challenge /\ d.cookie = r.pending
        /\ StartSession(c, [r EXCEPT !.cookie = r.pending], Silent)
        /\ Received(d)
        /\ UNCHANGED <<lastCookie, serverVars, down>>

\* CL_Reject.
Reject(c, d) ==
    /\ d.type = "disconnect" /\ ListensTo(c, d) /\ cls[c].state = "connecting"
    /\ Disconnect(c)
    /\ Received(d)
    /\ UNCHANGED <<lastCookie, serverVars>>

\* Mutant of AfterEntities: the stage is taken for the one before it.
AfterEntitiesTooSoon(signon) == IF signon = 0 THEN 2 ELSE signon

\* CL_ParsePacketEntities: the first update is the final signon stage.
AfterEntities(signon) == IF signon = 1 THEN 2 ELSE signon

\* CL_ParseServerMessage for one message of the session, which arrives on
\* channel ch.  Commands from the server wait for the end of the frame, but not
\* longer than for svc_serverdata; they come before what the client has to send.
Parse(c, m, ch) ==
    LET r == cls[c]
        k == r.cookie
    IN  \/ /\ m.what = "serverdata" /\ ~r.reconnect   \* CL_ParseServerData, CL_ClearState
           /\ Become(c, [r EXCEPT !.state = "connected", !.signon = 0,
                                  !.servercount = m.level, !.prepped = FALSE])
           /\ \E ours \in Withdrawn(up[k]) : ToServer(k, Send(ours, "sendres", 0))
           /\ down' = [down EXCEPT ![k] = ch]
        \/ /\ m.what = "resources"     \* CL_ParseResourceList, CL_StartResourceDownloading
           /\ Become(c, [r EXCEPT !.state = "validate"])
           /\ down' = [down EXCEPT ![k] = ch]
           /\ UNCHANGED up
        \/ /\ m.what = "signon"         \* CL_ParseSignon, CL_SignonReply
           /\ IF r.signon >= 1 THEN Disconnect(c)
              ELSE /\ Become(c, [r EXCEPT !.signon = 1])
                   /\ down' = [down EXCEPT ![k] = ch]
                   /\ IF r.reconnect THEN UNCHANGED up
                      ELSE ToServer(k, Send(up[k], "begin", 0))
        \/ /\ m.what = "entities"      \* CL_ParsePacketEntities
           /\ Become(c, [r EXCEPT !.signon = AfterEntities(@)])
           /\ down' = [down EXCEPT ![k] = ch]
           /\ UNCHANGED up
        \/ /\ m.what \in {"reconnect", "torn"}   \* svc_stufftext, Netchan_CheckForCompletion
           /\ Become(c, [r EXCEPT !.reconnect = TRUE])
           /\ down' = [down EXCEPT ![k] = ch]
           /\ UNCHANGED up
        \/ /\ m.what = "disconnect"    \* CL_Drop
           /\ Disconnect(c)

\* CL_ReadNetMessage.  A server that has cleared the channel sends nothing
\* reliable on it any more, so that no skew is of consequence here.
ClientReadPacket(c) ==
    LET ch == down[cls[c].cookie]
    IN  /\ cls[c].state \in InSession
        /\ \E m \in Deliverable(ch) : Parse(c, m, Taken(ch, m))
        /\ UNCHANGED <<lastCookie, serverVars, oob>>

\* CL_Reconnect_f, when the command buffer is executed: only a client that waits
\* for the resource list stays in its session.
ExecReconnect(c) ==
    LET r == [cls[c] EXCEPT !.reconnect = FALSE]
    IN  /\ cls[c].reconnect
        /\ \/ /\ r.state \in {"disconnected", "connecting"}
              /\ Become(c, r)
              /\ UNCHANGED sessionVars
           \/ /\ r.state = "connected"
              /\ \E fate \in Fate : StartSession(c, r, Cleared(up[r.cookie], fate))
              /\ \E theirs \in {down[r.cookie], Torn(down[r.cookie])} :
                    down' = [down EXCEPT ![r.cookie] = theirs]
           \/ /\ r.state \in {"validate", "active"}
              /\ Leave(c, [Left(r) EXCEPT !.state = "connecting"])
        /\ UNCHANGED <<lastCookie, serverVars, oob>>

\* CL_RegisterResources: the client has all the resources of the list.
RegisterResources(c) ==
    LET r == cls[c]
    IN  /\ r.state = "validate" /\ ~r.prepped /\ ~r.reconnect
        /\ Become(c, [r EXCEPT !.prepped = TRUE])
        /\ ToServer(r.cookie, Send(up[r.cookie], "spawn", r.servercount))
        /\ UNCHANGED <<lastCookie, serverVars, oob, down>>

\* CL_CheckClientState.
CheckClientState(c) ==
    /\ cls[c].state \in InSignon /\ cls[c].signon = 2 /\ ~cls[c].reconnect
    /\ Become(c, [cls[c] EXCEPT !.state = "active"])
    /\ UNCHANGED <<lastCookie, serverVars, oob, sessionVars>>

\* CL_ReadPackets: nothing from the server for cl_timeout.
ClientTimesOut(c) ==
    /\ cls[c].state \in InSession
    /\ Disconnect(c)
    /\ UNCHANGED <<lastCookie, serverVars, oob>>

-----------------------------------------------------------------------------
(***************************************************************************)
(* The server.                                                             *)
(***************************************************************************)
\* SV_CheckChallenge fails for challenges of an earlier level, and may fail for
\* the others, which expire.
Stale(d) == d.challenge # spawncount

ChallengePacket(c, skip) ==
    [type |-> "challenge", client |-> c, challenge |-> spawncount, skip |-> skip]
Rejection(c) == [type |-> "disconnect", client |-> c]

\* SV_ConnectionlessPacket, SV_SendChallenge: this server offers the bandwidth
\* test (sv_allow_testpacket).
GetChallenge(d) ==
    /\ d.type = "getchallenge"
    /\ Answered(d, ChallengePacket(d.client, FALSE))
    /\ UNCHANGED <<clientVars, serverVars, sessionVars>>

\* SV_TestBandWidth: no test for the smallest size.
TestBandWidth(d) ==
    /\ d.type = "bandwidth"
    /\ \/ Answered(d, Rejection(d.client))
       \/ /\ ~Stale(d)
          /\ Answered(d, IF d.test >= TestRetries - 1 THEN ChallengePacket(d.client, TRUE)
                         ELSE [type |-> "testpacket", client |-> d.client, test |-> d.test])
    /\ UNCHANGED <<clientVars, serverVars, sessionVars>>

\* The slots a connect packet of a client may get: the one it has, else the
\* first that is free.
SlotOf(c)  == {s \in Slot : slot[s].state \in InGame /\ slot[s].client = c}
EmptySlot  == {s \in Slot : /\ slot[s].state = "free"
                            /\ \A t \in 1 .. s - 1 : slot[t].state # "free"}
SlotFor(c) == IF SlotOf(c) # {} THEN SlotOf(c) ELSE EmptySlot

\* SV_RejectConnection, for one of the reasons a server may have at any time.
RejectClient(d) ==
    /\ d.type = "connect"
    /\ Answered(d, Rejection(d.client))
    /\ UNCHANGED <<clientVars, serverVars, sessionVars>>

\* Mutant of Wiped: a client that reconnects keeps its state.
KeepsState(r, d) == [r EXCEPT !.state = IF @ \in InGame THEN @ ELSE "connected",
                              !.client = d.client, !.cookie = d.cookie,
                              !.frames = TRUE, !.resources = FALSE]

\* Slot r for the client of a connect packet, with new frames.
Wiped(r, d) == [r EXCEPT !.state = "connected", !.client = d.client, !.cookie = d.cookie,
                         !.frames = TRUE, !.resources = FALSE]

\* SV_ConnectClient: the slot is wiped clean, and with it the session it was for.
ConnectClient(d) ==
    /\ d.type = "connect" /\ ~Stale(d)
    /\ \E s \in SlotFor(d.client), fate \in Fate :
          LET k == slot[s].cookie
          IN  /\ slot' = [slot EXCEPT ![s] = Wiped(@, d)]
              /\ admitted' = [admitted EXCEPT ![s] = FALSE]
              /\ IF k = 0 THEN UNCHANGED sessionVars
                 ELSE up' = [up EXCEPT ![k] = Silent] /\ ToClient(k, Cleared(down[k], fate))
    /\ Answered(d, [type |-> "client_connect", client |-> d.client,
                    challenge |-> d.challenge, cookie |-> d.cookie])
    /\ UNCHANGED <<clientVars, spawncount>>

\* SV_DropClient, after which the slot is r: svc_disconnect goes out if no
\* payload is outstanding.  What comes in from the client is not read any more.
Drop(s, r) ==
    LET k == slot[s].cookie
    IN  /\ slot' = [slot EXCEPT ![s] = r]
        /\ admitted' = [admitted EXCEPT ![s] = FALSE]
        /\ \E fate \in Fate, told \in BOOLEAN :
              ToClient(k, IF told THEN Send(Cleared(down[k], fate), "disconnect", 0)
                                  ELSE Cleared(down[k], fate))
        /\ up' = [up EXCEPT ![k] = Silent]

DropClient(s) == Drop(s, [slot[s] EXCEPT !.state = "zombie", !.frames = FALSE])

\* SV_KickPlayer; an overflow of the channel ends in the same way.
Kick(s) ==
    /\ slot[s].state \in InGame
    /\ DropClient(s)
    /\ UNCHANGED <<clientVars, spawncount, oob>>

\* SV_CheckTimeouts.
FreeZombie(s) ==
    /\ slot[s].state = "zombie"
    /\ slot' = [slot EXCEPT ![s] = FreeSlot]
    /\ UNCHANGED <<clientVars, admitted, spawncount, oob, sessionVars>>

DropTimedOutClient(s) ==
    /\ slot[s].state \in InGame
    /\ Drop(s, FreeSlot)
    /\ UNCHANGED <<clientVars, spawncount, oob>>

\* Channel k without the message that has just arrived, ch being what is left,
\* and a message for the client in return.
Reply(k, ch, what, level) ==
    /\ up' = [up EXCEPT ![k] = ch]
    /\ ToClient(k, Send(down[k], what, level))

\* SV_New_f: the game is asked, and the client is sent the level's data.
New(s, ch) ==
    \/ /\ admitted' = [admitted EXCEPT ![s] = TRUE]
       /\ Reply(slot[s].cookie, ch, "serverdata", spawncount)
       /\ UNCHANGED <<slot, oob>>
    \/ /\ Sent(Rejection(slot[s].client))
       /\ DropClient(s)

\* SV_SendRes_f: a client gets the resource list once.
SendResources(s, ch) ==
    /\ slot' = [slot EXCEPT ![s].resources = TRUE]
    /\ IF slot[s].resources
       THEN up' = [up EXCEPT ![slot[s].cookie] = ch] /\ UNCHANGED down
       ELSE Reply(slot[s].cookie, ch, "resources", 0)
    /\ UNCHANGED <<admitted, oob>>

\* SV_Spawn_f, with the case of a level changing while a client was connecting.
SpawnClient(s, level, ch) ==
    IF level # spawncount THEN New(s, ch)
    ELSE /\ slot' = [slot EXCEPT ![s].state = "spawning"]
         /\ Reply(slot[s].cookie, ch, "signon", 0)
         /\ UNCHANGED <<admitted, oob>>

\* Mutant of Expects: "spawn" is executed once more while the client is spawning.
ExpectsSpawns(m, state) == \/ m.what \in {"new", "sendres"} /\ state = "connected"
                           \/ m.what = "spawn" /\ state \in {"connected", "spawning"}
                           \/ m.what = "begin" /\ state = "spawning"
                           \/ m.what = "disconnect"

\* SV_ExecuteClientCommand: a command has one state in which it is executed.
Expects(m, state) == \/ m.what \in {"new", "sendres", "spawn"} /\ state = "connected"
                     \/ m.what = "begin" /\ state = "spawning"
                     \/ m.what = "disconnect"

Execute(s, m, ch) ==
    \/ m.what = "new" /\ New(s, ch)
    \/ m.what = "sendres" /\ SendResources(s, ch)
    \/ m.what = "spawn" /\ SpawnClient(s, m.level, ch)
    \/ /\ m.what = "begin"
       /\ slot' = [slot EXCEPT ![s].state = "spawned"]
       /\ up' = [up EXCEPT ![slot[s].cookie] = ch]
       /\ UNCHANGED <<admitted, oob, down>>
    \/ m.what = "disconnect" /\ DropClient(s) /\ UNCHANGED oob

\* SV_ReadPackets: the slot is found by the cookie.  What comes in is executed only
\* if the client has frames.
ServerReadPacket(s) ==
    LET k  == slot[s].cookie
        ch == up[k]
    IN  /\ slot[s].state \in InGame
        /\ \E m \in Deliverable(ch) : \E a \in Arrivals(ch, m) :
              \/ /\ a.got /\ slot[s].frames /\ Expects(m, slot[s].state)
                 /\ Execute(s, m, a.chan)
              \/ /\ ~(a.got /\ slot[s].frames /\ Expects(m, slot[s].state))
                 /\ up' = [up EXCEPT ![k] = a.chan]
                 /\ UNCHANGED <<slot, admitted, oob, down>>
        /\ UNCHANGED <<clientVars, spawncount>>

\* SV_SendClientDatagram; the first one waits for the reliable messages.
SendEntities(s) ==
    LET ch == down[slot[s].cookie]
    IN  /\ slot[s].state = "spawned"
        /\ Reliables(ch.queue) = {}
        /\ \A m \in ch.queue : m.what # "entities"
        /\ ToClient(slot[s].cookie, Send(ch, "entities", 0))
        /\ UNCHANGED <<clientVars, serverVars, oob, up>>

\* Mutant of PutBack: clients in the game stay there.
PutBackSpawned(state) == IF state = "spawning" THEN "connected" ELSE state

\* SV_InactivateClients, SV_SpawnServer: clients need to reconnect.
PutBack(state) == IF state \in InGame THEN "connected" ELSE state

\* Mutant of Deactivated: the frames are kept.
KeepsFrames(r) == [r EXCEPT !.state = PutBack(@), !.resources = FALSE]

\* SV_DeactivateServer: the clients' frames are released, and nothing but a new
\* SV_ConnectClient gives a client others.
Deactivated(r) == [r EXCEPT !.state = PutBack(@), !.frames = FALSE, !.resources = FALSE]

\* SV_ChangeLevel: SV_FinalMessage tells the clients to reconnect, twice, and
\* SV_ActivateServer clears their channels.
ChangeLevel ==
    /\ spawncount < MaxLevel
    /\ spawncount' = spawncount + 1
    /\ slot' = [s \in Slot |-> Deactivated(slot[s])]
    /\ admitted' = [s \in Slot |-> FALSE]
    /\ \E fate \in [Cookie -> Fate] :
          down' = [k \in Cookie |->
                     IF Heard(k) /\ Heeded(k)
                     THEN Send(Send(Cleared(down[k], fate[k]), "reconnect", 0), "reconnect", 0)
                     ELSE down[k]]
    /\ UNCHANGED <<clientVars, oob, up>>

-----------------------------------------------------------------------------
Init ==
    /\ cls = [c \in Client |->
                [state |-> "disconnected", connect_retry |-> 0, test |-> "none",
                 test_retry |-> 0, challenge |-> 0, pending |-> 0, cookie |-> 0,
                 signon |-> 0, servercount |-> 0, prepped |-> FALSE, reconnect |-> FALSE]]
    /\ lastCookie = 0
    /\ slot = [s \in Slot |-> FreeSlot]
    /\ admitted = [s \in Slot |-> FALSE]
    /\ spawncount = 1
    /\ oob = {}
    /\ up = [k \in Cookie |-> Silent] /\ down = [k \in Cookie |-> Silent]

ClientStep(c) ==
    \/ ResendChallenge(c) \/ ResendTest(c) \/ ClientReadPacket(c) \/ ExecReconnect(c)
    \/ RegisterResources(c) \/ CheckClientState(c) \/ ClientTimesOut(c)
    \/ \E d \in oob : \/ Challenge(c, d) \/ HandleTestPacket(c, d)
                      \/ ClientConnect(c, d) \/ Reject(c, d)

ConnectionlessPacket ==
    \E d \in oob : GetChallenge(d) \/ TestBandWidth(d) \/ RejectClient(d) \/ ConnectClient(d)

ServerStep(s) ==
    ServerReadPacket(s) \/ SendEntities(s) \/ FreeZombie(s) \/ DropTimedOutClient(s)

Next ==
    \/ \E c \in Client : ClientStep(c) \/ UserConnects(c) \/ UserDisconnects(c) \/ UserReconnects(c)
    \/ \E s \in Slot : ServerStep(s) \/ Kick(s)
    \/ ConnectionlessPacket \/ ChangeLevel

Spec == Init /\ [][Next]_vars

\* Both hosts run on; a peer that has gone is noticed, and a client that does
\* not get into the game is given up by the server.
Abandoned(c) == \A s \in Slot : slot[s].state \in InGame => slot[s].cookie # cls[c].cookie

Fairness ==
    /\ \A c \in Client :
          /\ WF_vars(ClientReadPacket(c)) /\ WF_vars(ExecReconnect(c))
          /\ WF_vars(RegisterResources(c)) /\ WF_vars(CheckClientState(c))
          /\ WF_vars(Abandoned(c) /\ ClientTimesOut(c))
    /\ \A s \in Slot :
          /\ WF_vars(ServerReadPacket(s)) /\ WF_vars(SendEntities(s))
          /\ WF_vars(slot[s].state # "spawned" /\ DropTimedOutClient(s))

FairSpec == Spec /\ Fairness
-----------------------------------------------------------------------------
\* Both ends' records have their types, and retries stay within their limits.
HandshakeTypeOK ==
    /\ \A c \in Client :
          /\ cls[c].state \in {"disconnected", "connecting"} \cup InSession
          /\ cls[c].connect_retry \in 0 .. ConnectionRetries
          /\ cls[c].test \in {"none", "started", "passed", "failed"}
          /\ cls[c].test_retry \in 0 .. TestRetries
          /\ cls[c].pending \in 0 .. lastCookie /\ cls[c].cookie \in 0 .. lastCookie
          /\ cls[c].signon \in 0 .. 2 /\ cls[c].servercount \in 0 .. spawncount
          /\ cls[c].prepped \in BOOLEAN /\ cls[c].reconnect \in BOOLEAN
    /\ slot \in [Slot -> [state : {"free", "zombie"} \cup InGame,
                          client : Client \cup {NoOne}, cookie : 0 .. MaxCookie,
                          frames : BOOLEAN, resources : BOOLEAN]]
    /\ admitted \in [Slot -> BOOLEAN]

\* The game of a level puts a client in only after it has accepted it, however
\* often the client starts over and whoever had the slot before: no "spawn" is
\* executed without the "new" of its session (SV_ConnectClient, SV_Spawn_f, SV_New_f).
AdmittedByThisLevel ==
    \A s \in Slot : slot[s].state \in {"spawning", "spawned"} => admitted[s]

\* A client that plays in a slot the server has spawned has loaded the level the
\* server plays, whatever it missed of the changes (CL_CheckClientState,
\* SV_InactivateClients).
SameLevel ==
    \A c \in Client, s \in Slot :
        cls[c].state = "active" /\ slot[s].state = "spawned" /\ slot[s].cookie = cls[c].cookie
            => cls[c].servercount = spawncount

\* The server executes a session's commands for one level only: what the client
\* knows, and what is under way, is of no other level.  The case of SV_Spawn_f that
\* a level changes while a client is connecting does not come up.
OneLevelPerSession ==
    \A c \in Client, s \in Slot :
        slot[s].state \in InGame /\ slot[s].frames /\ slot[s].cookie = cls[c].cookie
        /\ cls[c].state \in InSession =>
            /\ cls[c].servercount \in {0, spawncount}
            /\ \A m \in up[cls[c].cookie].queue : m.what = "spawn" => m.level = spawncount
            /\ \A m \in down[cls[c].cookie].queue : m.what = "serverdata" => m.level = spawncount

\* Two honest ends never come to the error of CL_ParseSignon, which would end the
\* session: however often "reconnect" makes the signon start over, a signon
\* message meets a client that waits for it.
SignonInTurn ==
    \A c \in Client : cls[c].state \in InSession =>
        LET ch == down[cls[c].cookie]
        IN  \A m \in Deliverable(ch) : m.what = "signon" => cls[c].signon = 0

\* A client that has started its signon over after the server spawned it: the
\* server ignores its "new".
Stranded(c) ==
    /\ cls[c].state = "connected" /\ cls[c].signon = 0
    /\ \E s \in Slot : slot[s].state = "spawned" /\ slot[s].cookie = cls[c].cookie

\* A client that is not stranded does not stay in the signon for ever: it plays, or
\* the session ends, also when the level changes, payloads are lost for good and the
\* server drops it meanwhile.
SignonEnds ==
    \A c \in Client : cls[c].state \in InSignon ~> cls[c].state \notin InSignon \/ Stranded(c)
=============================================================================
