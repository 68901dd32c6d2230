-------------------------- MODULE MCVirtualIPStatus --------------------------
(***************************************************************************)
(* Two agents with a goroutine each.  The specs differ in their backends;  *)
(* the health check of one is invalid, and agents ignore a third.  A       *)
(* report is fresh until the next tick, and is kept for another one.       *)
(***************************************************************************)
EXTENDS VirtualIPStatus, TLC

CONSTANTS a, b, c, d, s1, s2

MCAgentOf == (c :> a) @@ (d :> b)
MCTTL == [x \in Agents |-> 0]
MCSpecs ==
    {[backends |-> {s1}, core |-> TRUE, check |-> TRUE],
     [backends |-> {s2}, core |-> TRUE, check |-> FALSE],
     [backends |-> {}, core |-> FALSE, check |-> TRUE]}
MCOutcomes ==
    {[healthy |-> {s1}, serving |-> "True", dataPlane |-> "True", route |-> "True"],
     [healthy |-> {s2}, serving |-> "Unknown", dataPlane |-> "False", route |-> "Unknown"]}
=============================================================================
