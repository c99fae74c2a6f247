------------------------- MODULE MCRequestLifecycle -------------------------
(***************************************************************************)
(* RequestLifecycle with small sets for TLC.                               *)
(***************************************************************************)
EXTENDS RequestLifecycle, TLC

\* Requests and accounts are interchangeable: no definition chooses one.
Symmetry == Permutations(Request) \union Permutations(Account)
=============================================================================
