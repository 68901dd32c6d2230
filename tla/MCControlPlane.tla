--------------------------- MODULE MCControlPlane ---------------------------
(* One VIP whose encapsulation changes, and backends of the two families   *)
(* that the encapsulations take.                                           *)
EXTENDS ControlPlane

CONSTANTS v1, b1, t1, e1, e2, i1, i2

MCTuples == {t1}
MCSpecs == {[tuple |-> t1, encap |-> e] : e \in {e1, e2}}
MCPatches == {[encap |-> e] : e \in {e1, e2}}
MCVIPs == {v1}
MCBackends == {b1}
MCIPs == {i1, i2}
MCCompatible == {<<e1, i1>>, <<e2, i2>>}
MCStores ==
    {[vips |-> [v \in MCVIPs |-> [tuple |-> t1, encap |-> e1]],
      backends |-> [b \in MCBackends |-> None]]}

\* Requests of several steps are looked at as long as the agent is not started;
\* after that a request is its write.  Two writes, or a write and a fault.
Bounded ==
    /\ (phase = "stopped" /\ faults = 0) \/ \A h \in Handlers : handlers[h] = NoRequest
    /\ revision + faults <= 3
=============================================================================
