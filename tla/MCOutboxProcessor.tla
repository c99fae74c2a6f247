-------------------------- MODULE MCOutboxProcessor -------------------------
(***************************************************************************)
(* OutboxProcessor with small sets for TLC.                                *)
(***************************************************************************)
EXTENDS OutboxProcessor, TLC

\* Requests are interchangeable; not used in the runs that check liveness.
Symmetry == Permutations(Request)
=============================================================================
