----------------------------- MODULE MCPullSync -----------------------------
(***************************************************************************)
(* PullSync with small sets for TLC.                                       *)
(***************************************************************************)
EXTENDS PullSync, TLC

\* Runs are interchangeable, and so are batch_id's.
Symmetry == Permutations(Run) \union Permutations(PushId)
=============================================================================
