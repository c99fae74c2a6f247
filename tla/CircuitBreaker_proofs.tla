------------------------ MODULE CircuitBreaker_proofs -----------------------
(***************************************************************************)
(* ClosedBelowThreshold for any number of callers, threshold and cooldown. *)
(***************************************************************************)
EXTENDS CircuitBreaker, TLAPS

BreakerInv == BreakerTypeOK /\ ClosedBelowThreshold

LEMMA InitBreaker == Init => BreakerInv
BY ThresholdAssumption, CooldownAssumption, MaxFailuresAssumption
   DEF Init, BreakerInv, BreakerTypeOK, CircuitState, ClosedBelowThreshold

\* The count rises only in RecordFailure, which opens the breaker at the threshold,
\* and falls only in RecordSuccess, which closes it; a probe is let through, and
\* fails, with the count at the threshold or above.
LEMMA NextBreaker == BreakerInv /\ [Next]_vars => BreakerInv'
<1> USE ThresholdAssumption, CooldownAssumption, MaxFailuresAssumption
        DEF BreakerInv, BreakerTypeOK, CircuitState, ClosedBelowThreshold
<1> SUFFICES ASSUME BreakerInv, [Next]_vars
             PROVE  BreakerInv'
  OBVIOUS
<1>1. ASSUME NEW c \in Caller, LetThrough(c)
      PROVE  BreakerInv'
  BY <1>1 DEF LetThrough, CooledDown
<1>2. ASSUME NEW c \in Caller, RecordSuccess(c)
      PROVE  BreakerInv'
  BY <1>2 DEF RecordSuccess
<1>3. ASSUME NEW c \in Caller, RecordFailure(c)
      PROVE  BreakerInv'
  BY <1>3 DEF RecordFailure, AtThreshold
<1>4. ASSUME NEW c \in Caller, EndUnreported(c)
      PROVE  BreakerInv'
  BY <1>4 DEF EndUnreported
<1>5. CASE Tick
  BY <1>5 DEF Tick, CooledDown
<1>6. CASE UNCHANGED vars
  BY <1>6 DEF vars
<1> QED
  BY <1>1, <1>2, <1>3, <1>4, <1>5, <1>6 DEF Next, Refuse

\* State, count, time and the calls under way are well formed, with any number of
\* callers.
THEOREM BreakerTypeCorrect == Spec => []BreakerTypeOK
<1>1. BreakerInv => BreakerTypeOK
  BY DEF BreakerInv
<1> QED
  BY InitBreaker, NextBreaker, <1>1, PTL DEF Spec

\* Whatever calls overlap, the breaker is CLOSED below the threshold and only there.
THEOREM BreakerCorrect == Spec => []ClosedBelowThreshold
<1>1. BreakerInv => ClosedBelowThreshold
  BY DEF BreakerInv
<1> QED
  BY InitBreaker, NextBreaker, <1>1, PTL DEF Spec
=============================================================================
