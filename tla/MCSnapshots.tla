---------------------------- MODULE MCSnapshots ----------------------------
(* Two entities; the first comes and goes, both change. *)
EXTENDS Snapshots

TheWorlds == {[n \in {1, 2} |-> "a"], [n \in {2} |-> "b"]}
==============================================================================
