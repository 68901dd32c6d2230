------------------------ MODULE MCReconcilerManager ------------------------
(* Small instances of ReconcilerManager for TLC.                           *)
EXTENDS ReconcilerManager, TLC
=============================================================================
