---------------------------- MODULE MCHandshake ----------------------------
(* One client, two slots, two levels. *)
EXTENDS Handshake
=============================================================================
