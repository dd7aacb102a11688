---------------------------- MODULE ReliableStream ----------------------------
(***************************************************************************)
(* What the reliable part of a netchan promises to the two hosts: in each  *)
(* direction payloads arrive in the order in which they were handed over,  *)
(* each exactly once, and a payload is handed over only when the previous  *)
(* one has arrived.                                                        *)
(***************************************************************************)
EXTENDS Sequences, Naturals

CONSTANTS Peer, Payload, Other(_)

VARIABLES sent,     \* the payloads a peer has handed over
          received  \* the payloads a peer has got from the other one

streamVars == <<sent, received>>

Init == /\ sent = [e \in Peer |-> <<>>]
        /\ received = [e \in Peer |-> <<>>]

\* The payload handed over is any value of Payload: the last of sent'[e].
Send(e) == /\ received[Other(e)] = sent[e]
           /\ Len(sent'[e]) > Len(sent[e])
           /\ LET m == sent'[e][Len(sent[e]) + 1]
              IN  /\ sent' = [sent EXCEPT ![e] = Append(@, m)]
                  /\ m \in Payload
           /\ UNCHANGED received

Receive(e) == /\ Len(received[e]) < Len(sent[Other(e)])
              /\ received' = [received EXCEPT ![e] =
                     Append(@, sent[Other(e)][Len(received[e]) + 1])]
              /\ UNCHANGED sent

Next == \E e \in Peer : Send(e) \/ Receive(e)

Spec == Init /\ [][Next]_streamVars
=============================================================================
