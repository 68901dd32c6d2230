----------------------------- MODULE MCDatastore -----------------------------
(* Two calls at a time: three operations, or one operation and a           *)
(* transaction of two; two VIPs and two tuples, so that they collide; two  *)
(* backends and two addresses, and of the two encapsulations one that      *)
(* takes one address only.                                                 *)
EXTENDS DatastoreDrivers, TLC

CONSTANTS t1, t2, e1, e2, i1, i2

MCTuples == {t1, t2}
MCIPs == {i1, i2}
MCSpecs == {[tuple |-> t1, encap |-> e1], [tuple |-> t2, encap |-> e2]}
MCCompatible == {<<e1, i1>>, <<e1, i2>>, <<e2, i2>>}

Symmetry == Permutations(Callers) \cup Permutations(Backends)
=============================================================================
