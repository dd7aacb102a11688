---------------------------- MODULE MCUserCommands ----------------------------
(* Instances of UserCommands for TLC. *)
EXTENDS UserCommands

\* Datagrams that would be dropped as stale do not tell two states apart.
Fresh == {p \in net : p.seq > incoming_sequence}
FreshView == <<clientVars, Fresh, serverVars>>
=============================================================================
