---------------------------- MODULE MCReconcilePass ----------------------------
(* An object, one with another encap (recreated in place) and one with     *)
(* another address.                                                        *)
EXTENDS ReconcilePass, TLC

CONSTANTS a1, a2, b1

MCSpecs ==
    {[address |-> a1, port |-> 80, encap |-> "GRE4"],
     [address |-> a1, port |-> 80, encap |-> "L3DSR"],
     [address |-> a2, port |-> 80, encap |-> "GRE4"]}
MCBackends == {b1}
MCLengths == {1, 2}
================================================================================
