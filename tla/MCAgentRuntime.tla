--------------------------- MODULE MCAgentRuntime ---------------------------
(***************************************************************************)
(* Instances of AgentRuntime for TLC.                                      *)
(***************************************************************************)
EXTENDS AgentRuntime, TLC

CONSTANTS c1, c2, p1, p2, s1, s2, f1

NoHistory == <<>>
Resumed == <<"user", "stop">>
Interrupted == <<"user">>

InterchangeableSteers == Permutations(Steers)
=============================================================================
