------------------------- MODULE MCRouteCoordinator -------------------------
(* Small instances of RouteCoordinator for TLC.                            *)
EXTENDS RouteCoordinator, TLC

\* VIPs and addresses are interchangeable: no definition tells two apart.
Symmetry == Permutations(VIPs) \cup Permutations(Addresses)

\* No guard and no safety property of the bookkeeping reads route.
Bookkeeping == <<book, control, drained, failed>>
=============================================================================
