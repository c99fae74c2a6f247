-------------------------- MODULE MCCircuitBreaker --------------------------
(***************************************************************************)
(* CircuitBreaker with small sets for TLC.                                 *)
(***************************************************************************)
EXTENDS CircuitBreaker
=============================================================================
