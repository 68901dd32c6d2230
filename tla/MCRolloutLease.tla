--------------------------- MODULE MCRolloutLease ---------------------------
(* Two agents move VIPs between the same two addresses and need the keys   *)
(* of both.  The calls of one of them fail, and the other one crashes.     *)
EXTENDS RolloutLease, TLC

CONSTANTS a, b, g, h

MCAgents == {a, b}
MCGoroutines == {g, h}
MCAgentOf == (g :> a) @@ (h :> b)
=============================================================================
