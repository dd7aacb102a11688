---------------------------- MODULE NetchanRecovery ----------------------------
(***************************************************************************)
(* What becomes of a channel after an outage.  First the hosts of          *)
(* NetchanHosts run over a network that loses, repeats and reorders        *)
(* datagrams at will; then everything that is in flight is lost, and from  *)
(* there on the network delivers every datagram at once.  The frames of    *)
(* the two hosts then alternate: each reads what has arrived, takes over   *)
(* completed blocks, and sends.                                            *)
(*                                                                         *)
(* Fairness is that of the two main loops: Host_Frame runs again and again *)
(* in both programs.                                                       *)
(***************************************************************************)
EXTENDS NetchanHosts

CONSTANT MaxOutageSequence  \* bound: last sequence number before the outage

VARIABLE turn  \* "outage" at first, then the peer whose frame it is

recoveryVars == <<vars, turn>>

RecoveryInit == Init /\ turn = "outage"

Unreliable ==
    /\ turn = "outage"
    /\ Next
    /\ \A e \in Peer : outgoing_sequence'[e] <= MaxOutageSequence + 1
    /\ UNCHANGED turn

\* The last of the datagrams that were in flight is lost.
OutageEnds ==
    /\ turn = "outage"
    /\ turn' = "client"
    /\ net' = {}
    /\ UNCHANGED <<ackVars, seqVars, queueVars, reliable, recvVars, loads,
                   accepted, hostVars, dataVars>>

HasArrived(e) == \E p \in net : p.from = Other(e) /\ Acceptable(e, p)

ClientFrame ==
    /\ turn = "client"
    /\ \/ /\ \E p \in net : ClientReadPacket(p)
          /\ UNCHANGED turn
       \/ /\ ~HasArrived("client")
          /\ ClientCopyFragments
          /\ UNCHANGED turn
       \/ /\ ~HasArrived("client")
          /\ ClientWritePacket
          /\ turn' = "server"

\* SV_SendClientMessages may have no reply to send.
ServerFrame ==
    /\ turn = "server"
    /\ \/ /\ \E p \in net : ServerReadPacket(p)
          /\ UNCHANGED turn
       \/ /\ ~HasArrived("server")
          /\ ~LeavesRoom(0)
          /\ ServerUpdateToReliable(0)
          /\ UNCHANGED turn
       \/ /\ ~HasArrived("server")
          /\ \E datagram \in DatagramSizes : ServerSendClientMessages(datagram)
          /\ turn' = "client"
       \/ /\ ~HasArrived("server")
          /\ LeavesRoom(0) /\ ~spawned /\ ~send_net_message
          /\ turn' = "client"
          /\ UNCHANGED vars

\* The sender has nothing left to do and the receiver has everything.
AllDelivered ==
    \A e \in Peer : /\ Drained(e)
                    /\ Len(delivered[Other(e)]) = written[e]
                    /\ {f.name : f \in files[Other(e)]} = fileQueue[e]

\* Frames with nothing to deliver any more are left out.
Frame == ~AllDelivered /\ (ClientFrame \/ ServerFrame)

RecoveryNext == Unreliable \/ OutageEnds \/ Frame

RecoverySpec == RecoveryInit /\ [][RecoveryNext]_recoveryVars
                             /\ WF_recoveryVars(Frame)
-----------------------------------------------------------------------------
\* Whatever was lost before, once datagrams arrive again everything that was
\* written is delivered: the two ends never wait for each other.
Recovers == (turn # "outage") ~> AllDelivered
=============================================================================
