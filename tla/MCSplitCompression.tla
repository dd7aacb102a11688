-------------------------- MODULE MCSplitCompression --------------------------
(* Instances of SplitCompression for TLC: the bounds of either peer. *)
EXTENDS SplitCompression

ServerFive == [e \in Peer |-> IF e = "server" THEN 5 ELSE 2]
=============================================================================
