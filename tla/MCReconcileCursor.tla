------------------------- MODULE MCReconcileCursor --------------------------
(***************************************************************************)
(* ReconcileCursor with small sets for TLC.                                *)
(***************************************************************************)
EXTENDS ReconcileCursor, TLC

\* Employee 1 has two rows, employee 2 has one.
TwoAndOne == <<1, 1, 2>>
=============================================================================
