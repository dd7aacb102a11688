------------------------------- MODULE MCNetchan -------------------------------
(* Instances of NetchanHosts for TLC: values of the function constants. *)
EXTENDS NetchanHosts

\* Who sends how many commands.
ThreeEach        == [e \in Peer |-> 3]
ServerThreeClientOne == [e \in Peer |-> IF e = "server" THEN 3 ELSE 1]
OneEach          == [e \in Peer |-> 1]
NoFiles          == [e \in Peer |-> {}]
ServerFile       == [e \in Peer |-> IF e = "server" THEN {"decal"} ELSE {}]

FileLen2 == [name \in {"decal"} |-> 2]
FileLen1 == [name \in {"decal"} |-> 1]

Sequence4 == [e \in Peer |-> 4]
ServerFour == [e \in Peer |-> IF e = "server" THEN 4 ELSE 3]
\* Datagrams that would be dropped as stale do not tell two states apart:
\* delivering them changes nothing.
Fresh == {p \in net : p.seq > incoming_sequence[Other(p.from)]}
FreshView == <<ackVars, seqVars, queueVars, reliable, recvVars, Fresh, loads,
               accepted, hostVars, dataVars>>
=============================================================================
