------------------------------ MODULE MCRecovery ------------------------------
(* Instances of NetchanRecovery for TLC. *)
EXTENDS NetchanRecovery, MCNetchan

Sequence8 == [e \in Peer |-> 8]
=============================================================================
