--------------------------- MODULE CircuitBreaker ---------------------------
(***************************************************************************)
(* The in-memory circuit breaker of integration/hcm/circuit-breaker.ts and *)
(* callers that overlap: each asks ensureClosed, awaits its HCM call, and  *)
(* reports how it ended.  The module offers the breaker and exports it;    *)
(* the adapter of this version does not use it yet, so the callers follow  *)
(* the adapter skeleton of the design document.                            *)
(***************************************************************************)
EXTENDS Integers

CONSTANTS
  Caller,           \* calls of the HCM that may be under way
  FailureThreshold, \* CIRCUIT_FAILURE_THRESHOLD
  Cooldown,         \* CIRCUIT_COOLDOWN_MS, in ticks of the clock
  MaxFailures       \* bound of the count: stands for every higher one

ASSUME ThresholdAssumption == FailureThreshold \in Nat \ {0}
ASSUME CooldownAssumption == Cooldown \in Nat \ {0}
ASSUME MaxFailuresAssumption == MaxFailures \in Nat /\ MaxFailures > FailureThreshold

VARIABLES
  state,            \* CLOSED, OPEN or HALF_OPEN
  failures,         \* consecutiveFailures; bound: MaxFailures
  elapsed,          \* time since lastFailureTime; bound: up to the cooldown
  calling           \* callers that were let through and await their call

vars == <<state, failures, elapsed, calling>>

CircuitState == {"CLOSED", "OPEN", "HALF_OPEN"}

BreakerTypeOK ==
  /\ state \in CircuitState
  /\ failures \in Nat
  /\ elapsed \in Nat
  /\ calling \subseteq Caller

Init ==
  /\ state = "CLOSED"
  /\ failures = 0
  /\ elapsed = Cooldown
  /\ calling = {}

CooledDown == elapsed >= Cooldown

\* ensureClosed returns: the call goes on.
LetThrough(c) ==
  /\ c \notin calling
  /\ \/ state # "OPEN" /\ UNCHANGED state
     \/ state = "OPEN" /\ CooledDown /\ state' = "HALF_OPEN"
  /\ calling' = calling \union {c}
  /\ UNCHANGED <<failures, elapsed>>

Refuse_Refreshing(c) ==
  /\ c \notin calling
  /\ state = "OPEN"
  /\ elapsed' = 0
  /\ UNCHANGED <<state, failures, calling>>

\* ensureClosed throws CIRCUIT_OPEN.
Refuse(c) ==
  /\ c \notin calling
  /\ state = "OPEN"
  /\ ~ CooledDown
  /\ UNCHANGED vars

RecordSuccess_Decrement(c) ==
  /\ c \in calling
  /\ calling' = calling \ {c}
  /\ state' = "CLOSED"
  /\ failures' = failures - 1
  /\ UNCHANGED elapsed

\* recordSuccess.
RecordSuccess(c) ==
  /\ c \in calling
  /\ calling' = calling \ {c}
  /\ state' = "CLOSED"
  /\ failures' = 0
  /\ UNCHANGED elapsed

AtThreshold_Late(n) == n > FailureThreshold

AtThreshold(n) == n >= FailureThreshold

\* recordFailure: it counts and takes the time in every state; the call of an
\* open breaker's past may still come back and do so.  The code counts on without
\* end, and asks only whether the count has reached the threshold.
RecordFailure(c) ==
  /\ c \in calling
  /\ calling' = calling \ {c}
  /\ elapsed' = 0
  /\ failures' = IF failures < MaxFailures THEN failures + 1 ELSE failures
  /\ state' = IF state = "HALF_OPEN" \/ AtThreshold(failures + 1)
              THEN "OPEN" ELSE state

\* The HCM refuses the call for good (4xx): the adapter skeleton of the design
\* document reports nothing, since the HCM is there.
EndUnreported(c) ==
  /\ c \in calling
  /\ calling' = calling \ {c}
  /\ UNCHANGED <<state, failures, elapsed>>

Tick ==
  /\ ~ CooledDown
  /\ elapsed' = elapsed + 1
  /\ UNCHANGED <<state, failures, calling>>

Next ==
  \/ \E c \in Caller :
       \/ LetThrough(c) \/ Refuse(c)
       \/ RecordSuccess(c) \/ RecordFailure(c) \/ EndUnreported(c)
  \/ Tick

Spec == Init /\ [][Next]_vars

\* Time passes, the cron jobs keep calling, and every call ends.
FairSpec ==
  /\ Spec
  /\ WF_vars(Tick)
  /\ WF_vars(\E c \in Caller : LetThrough(c))
  /\ \A c \in Caller : WF_vars(RecordSuccess(c) \/ RecordFailure(c) \/ EndUnreported(c))

-----------------------------------------------------------------------------
(***************************************************************************)
(* Properties.                                                             *)
(***************************************************************************)

\* The breaker is CLOSED as long as fewer calls have failed in a row than the
\* threshold says, and no longer, whatever state the calls found it in when they
\* started: it neither lets an outage pass nor blocks calls without one.
ClosedBelowThreshold == state = "CLOSED" <=> failures < FailureThreshold

\* An open breaker does not stay open for ever: neither the calls it refuses nor
\* those that were under way push the end of the cooldown away for good.
OutageEnds == state = "OPEN" ~> state # "OPEN"
=============================================================================
