--------------------------- MODULE MCHttpShutdown ---------------------------
(* Values for TLC.                                                         *)
EXTENDS HttpShutdown

TheTokens == PostTokens
TheWaiters == {UI}
==============================================================================
