--------------------------- MODULE MCBalanceSync ----------------------------
(***************************************************************************)
(* BalanceSync with small sets for TLC.                                    *)
(***************************************************************************)
EXTENDS BalanceSync, TLC

\* Requests and runs are interchangeable; not used in the run that checks liveness.
Symmetry == Permutations(Request) \union Permutations(Run)

\* What the HCM may change a balance to.
Cut == [total |-> 1, elsewhere |-> 0]
Spent == [total |-> 2, elsewhere |-> 1]

Cleared == [total |-> 0, elsewhere |-> 0]

CutOrSpent == {Cut, Spent}
ClearedOnly == {Cleared}
=============================================================================
