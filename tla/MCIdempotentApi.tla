-------------------------- MODULE MCIdempotentApi ---------------------------
(***************************************************************************)
(* IdempotentApi with small sets for TLC.                                  *)
(***************************************************************************)
EXTENDS IdempotentApi, TLC

\* No definition chooses among requests, clients or keys.
Symmetry ==
  Permutations(Request) \union Permutations(Client) \union Permutations(Key)
=============================================================================
