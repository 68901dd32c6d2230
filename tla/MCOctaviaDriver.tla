-------------------------- MODULE MCOctaviaDriver --------------------------
(* Two listeners and two pools that can move between them, and members     *)
(* that differ in their probe port and in whether the driver accepts them. *)
(* The initial states have no listener, one enabled listener, a disabled   *)
(* load balancer with two listeners, a disabled listener, and the CR of a  *)
(* listener that Octavia has given up.                                     *)
EXTENDS OctaviaDriver

CONSTANTS p1, p2, h1, h2, m1, m2, m3

MCPoolOf == m1 :> p1 @@ m2 :> p1 @@ m3 :> p2
MCMonitorOf == p1 :> h1 @@ p2 :> h2
MCProbePort == m1 :> 80 @@ m2 :> 81 @@ m3 :> 80

\* m3 is of the wrong address family, which matters once it is served.
MCUnfit == {<<m3, FALSE>>}

Start(lb, up, pool, draining, objects, left) ==
    [db |-> [lb |-> lb, up |-> [l \in Listeners |-> up],
             pool |-> [l \in Listeners |-> IF l = 1 THEN pool ELSE None], draining |-> draining],
     objects |-> objects, left |-> left]

MCInitial ==
    {Start(TRUE, TRUE, None, {}, {}, <<>>),
     Start(TRUE, TRUE, p1, {}, {LB, 1, p1, m1, p2, m3}, <<>>),
     Start(FALSE, TRUE, p1, {m2}, {LB, 1, 2, p1, h1, m1, m2}, <<>>),
     Start(TRUE, FALSE, p1, {}, {LB, 1, p1, h1, m1, p2, h2}, <<>>),
     Start(TRUE, TRUE, None, {}, {LB, p1, m1}, 1 :> p1)}
=============================================================================
