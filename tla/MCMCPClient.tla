----------------------------- MODULE MCMCPClient -----------------------------
(* Two calls of one thread, one of another; up to two unasked lines among   *)
(* the answers.                                                             *)
EXTENDS MCPClient, TLC

CONSTANTS t1, t2

MCCallers == {t1, t2}
MCMaxCalls == t1 :> 2 @@ t2 :> 1
=============================================================================
