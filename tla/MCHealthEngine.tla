--------------------------- MODULE MCHealthEngine ---------------------------
(* One VIP with one backend and one worker.  HealthEngine.cfg: the health  *)
(* check is configured, reconfigured and switched off.                     *)
(* HealthEngine_stop.cfg: the agent is shut down and started again.        *)
EXTENDS HealthEngine, TLC

CONSTANTS b1, w1

MCBackends == {b1}
MCWorkers == {w1}
StopSpecs ==
    {[check |-> check, backends |-> {b1}, rise |-> 1, fall |-> 1] :
        check \in {"valid", "invalid"}}
MCSpecs ==
    {[check |-> "none", backends |-> {b1}, rise |-> 1, fall |-> 1],
     [check |-> "valid", backends |-> {b1}, rise |-> 1, fall |-> 1]}

\* HealthEngine.cfg looks at an agent that is not shutting down, and at most one
\* cancelled scheduler that has not yet noticed.
Running ==
    /\ phase = "running"
    /\ \A e \in Epochs : schedulers[e].live => e + 1 >= nextEpoch
=============================================================================
