--------------------------- MODULE OutboxProcessor --------------------------
(***************************************************************************)
(* The transactional outbox: the sweep of outbox.processor.ts that carries *)
(* the entries of integration_outbox to the HCM, together with the request *)
(* API that runs between its awaits, the HCM server at the other end, and  *)
(* crashes of the process.                                                 *)
(*                                                                         *)
(* The process has one thread.  The sweep gives it up only while it awaits *)
(* an HCM call (call # "none") or when it has nothing claimed; handlers of *)
(* the API run only then (EventLoopFree).  The HCM runs on its own.        *)
(***************************************************************************)
EXTENDS RequestLifecycle

CONSTANTS
  MaxRetries,       \* max_retries of an entry (the code's default is 5)
  ClaimLimit,       \* entries one sweep claims (the code claims 10)
  Faults,           \* what may go wrong: see FaultKind
  MaxCrashes,       \* bound on the number of crashes of a behaviour
  AnswerHasReference\* whether a post's answer has the field hcm_reference_id

\* "transient" and "permanent": the HCM answers 5xx or 429, or another error.
\* "disconnect": the connection breaks; the call may still reach the HCM.
FaultKind == {"transient", "permanent", "disconnect"}

ASSUME MaxRetriesAssumption == MaxRetries \in Nat \ {0}
ASSUME ClaimLimitAssumption == ClaimLimit \in Nat \ {0}
ASSUME FaultsAssumption == Faults \subseteq FaultKind
ASSUME MaxCrashesAssumption == MaxCrashes \in Nat
ASSUME ReferenceAssumption == AnswerHasReference \in BOOLEAN

VARIABLES
  claimed,          \* entries the running sweep holds in memory
  call,             \* the HCM call it awaits: "none", "sent", or its outcome
  late,             \* calls nobody awaits any more that may reach the HCM
  hcm,              \* HCM: account -> total and used balance
  deductions,       \* HCM: deductions in force, by the key they came with
  answered,         \* HCM: idempotency keys with a stored answer
  crashes           \* crashes so far

processor == <<claimed, call>>
server == <<hcm, deductions, answered>>
vars == <<tables, processor, late, server, crashes>>

Outcome == {"ok", "transient", "permanent"}

\* version is the hcm_version, a time stamp every change of the balance renews.
HcmAccount == [total : Nat, used : Int, version : Nat]

ProcessorTypeOK ==
  /\ TypeOK
  /\ claimed    \subseteq DOMAIN outbox
  /\ call       \in {"none", "sent"} \union Outcome
  /\ late       \subseteq DOMAIN outbox
  /\ hcm        \in [Account -> HcmAccount]
  /\ deductions \subseteq DOMAIN outbox
  /\ answered   \subseteq DOMAIN outbox
  /\ crashes    \in 0 .. MaxCrashes

-----------------------------------------------------------------------------
(***************************************************************************)
(* The HCM server.  A key with a stored answer gets that answer again,     *)
(* before anything else; a failed call stores nothing.                     *)
(***************************************************************************)

AccountOf(i) == request[outbox[i].request].account
HoursOf(i)   == request[outbox[i].request].hours

HcmAvailable(a) == hcm[a].total - hcm[a].used

\* handlePostTimeOff, new key: check the balance, deduct, keep the deduction.
HcmPosts(i) ==
  /\ outbox[i].action = "POST_TIME_OFF"
  /\ i \notin answered
  /\ HcmAvailable(AccountOf(i)) >= HoursOf(i)
  /\ hcm' = [hcm EXCEPT ![AccountOf(i)].used = @ + HoursOf(i),
                         ![AccountOf(i)].version = @ + 1]
  /\ deductions' = deductions \union {i}
  /\ answered' = answered \union {i}

\* handleCancelTimeOff, new key: find the deduction and take it back.
HcmReverses(i) ==
  /\ outbox[i].action = "CANCEL_TIME_OFF"
  /\ i \notin answered
  /\ outbox[i].reference \in deductions
  /\ hcm' = [hcm EXCEPT ![AccountOf(i)].used = @ - HoursOf(i),
                         ![AccountOf(i)].version = @ + 1]
  /\ deductions' = deductions \ {outbox[i].reference}
  /\ answered' = answered \union {i}

\* 422 Insufficient balance, 404 no such deduction.
HcmRefuses(i) ==
  /\ i \notin answered
  /\ \/ /\ outbox[i].action = "POST_TIME_OFF"
        /\ HcmAvailable(AccountOf(i)) < HoursOf(i)
     \/ /\ outbox[i].action = "CANCEL_TIME_OFF"
        /\ outbox[i].reference \notin deductions
  /\ UNCHANGED server

\* The HCM handles the call for entry i and answers with the outcome.
HcmHandles(i, outcome) ==
  \/ outcome = "ok" /\ i \in answered /\ UNCHANGED server
  \/ outcome = "ok" /\ HcmPosts(i)
  \/ outcome = "ok" /\ HcmReverses(i)
  \/ outcome = "permanent" /\ HcmRefuses(i)
  \/ outcome \in Faults /\ i \notin answered /\ UNCHANGED server

-----------------------------------------------------------------------------
(***************************************************************************)
(* The network.                                                            *)
(***************************************************************************)

\* The entry being carried: the oldest of those claimed.
Current == CHOOSE i \in claimed : \A j \in claimed : i <= j

\* The awaited call reaches the HCM and its answer comes back.
CallAnswered ==
  /\ call = "sent"
  /\ \E outcome \in Outcome : HcmHandles(Current, outcome) /\ call' = outcome
  /\ UNCHANGED <<tables, claimed, late, crashes>>

CallDisconnected_AsSuccess ==
  /\ "disconnect" \in Faults
  /\ call = "sent"
  /\ call' = "ok"
  /\ late' = late \union {Current}
  /\ UNCHANGED <<tables, claimed, server, crashes>>

\* fetch fails: a network error, which the adapter reports as transient.
CallDisconnected ==
  /\ "disconnect" \in Faults
  /\ call = "sent"
  /\ call' = "transient"
  /\ late' = late \union {Current}
  /\ UNCHANGED <<tables, claimed, server, crashes>>

\* A call that nobody awaits any more reaches the HCM after all.
LateCall(i) ==
  /\ i \in late
  /\ \E outcome \in Outcome : HcmHandles(i, outcome)
  /\ late' = late \ {i}
  /\ UNCHANGED <<tables, processor, crashes>>

-----------------------------------------------------------------------------
(***************************************************************************)
(* The sweep.                                                              *)
(***************************************************************************)

Pending == { i \in DOMAIN outbox : outbox[i].status = "PENDING" }

\* processOutbox starts a sweep unless one is running; the sweep claims the
\* oldest PENDING entries that are due.  One that was retried becomes due some
\* time after its failure, so it may or may not be among them.
ClaimPendingEntries ==
  /\ claimed = {}
  /\ \E entries \in SUBSET Pending \ {{}} :
       /\ Cardinality(entries) <= ClaimLimit
       /\ \A i \in Pending \ entries :
            \/ outbox[i].retryCount > 0
            \/ /\ Cardinality(entries) = ClaimLimit
               /\ \A e \in entries : e < i
       /\ claimed' = entries
       /\ outbox' = Marked(entries, "PROCESSING")
  /\ UNCHANGED <<request, hold, balance, call, late, server, crashes>>

ExpectedStatus_Approved(i) ==
  IF outbox[i].action = "POST_TIME_OFF" THEN "APPROVED" ELSE "CANCELLED"

\* The status a request must have for its entry to be sent.
ExpectedStatus(i) ==
  IF outbox[i].action = "POST_TIME_OFF" THEN "APPROVED_PENDING_HCM"
                                        ELSE "CANCELLED"

StillWanted_Unchecked(i) == TRUE

StillWanted(i) == request[outbox[i].request].status = ExpectedStatus(i)

Running == claimed # {} /\ call = "none"

SkipEntry_Unmarked ==
  /\ Running
  /\ ~ StillWanted(Current)
  /\ claimed' = claimed \ {Current}
  /\ UNCHANGED <<tables, call, late, server, crashes>>

\* The pre-check fails: the entry is marked FAILED and the loop goes on.
SkipEntry ==
  /\ Running
  /\ ~ StillWanted(Current)
  /\ outbox' = Marked({Current}, "FAILED")
  /\ claimed' = claimed \ {Current}
  /\ UNCHANGED <<request, hold, balance, call, late, server, crashes>>

\* The pre-check passes: the call is made and awaited.
SendEntry ==
  /\ Running
  /\ StillWanted(Current)
  /\ call' = "sent"
  /\ UNCHANGED <<tables, claimed, late, server, crashes>>

\* The end of an iteration of the loop: on to the next entry.
NextEntry ==
  /\ claimed' = claimed \ {Current}
  /\ call' = "none"
  /\ UNCHANGED <<late, server, crashes>>

Deducted_UsedOnly(a, hours) ==
  [balance[a] EXCEPT !.used = @ + hours]

\* applyDeduction, and the CHECK constraints it may run into.
Deducted(a, hours) ==
  [balance[a] EXCEPT !.used = @ + hours, !.projected = @ - hours]

ConstraintsHold(row) == row.used >= 0 /\ row.projected >= 0

ConfirmedHours_NoRefund(i) == HoursOf(i)

\* What the confirmed call takes from the projection: the hours of a post, or
\* their refund.
ConfirmedHours(i) ==
  IF outbox[i].action = "POST_TIME_OFF" THEN HoursOf(i) ELSE - HoursOf(i)

BooksAccept(i) == ConstraintsHold(Deducted(AccountOf(i), ConfirmedHours(i)))

ApplyDeduction(i) ==
  /\ BooksAccept(i)
  /\ balance' = [balance EXCEPT ![AccountOf(i)] =
                   Deducted(AccountOf(i), ConfirmedHours(i))]

\* The post succeeded and the request still waits for it: one transaction
\* approves it, converts the hold, moves the balance, completes the entry.
ConfirmPost ==
  LET i == Current
      r == outbox[i].request
  IN  /\ call = "ok"
      /\ outbox[i].action = "POST_TIME_OFF"
      /\ StillWanted(i)
      /\ UpdateStatus(r, "APPROVED", request[r].version,
                      IF AnswerHasReference THEN i ELSE request[r].reference)
      /\ MoveHold(r, "CONVERTED")
      /\ ApplyDeduction(i)
      /\ outbox' = Marked({i}, "COMPLETED")
      /\ NextEntry

\* The post succeeded but the request changed during the call.
DropPost ==
  /\ call = "ok"
  /\ outbox[Current].action = "POST_TIME_OFF"
  /\ ~ StillWanted(Current)
  /\ outbox' = Marked({Current}, "FAILED")
  /\ NextEntry
  /\ UNCHANGED <<request, hold, balance>>

\* The cancellation succeeded: refund the projection.
ConfirmCancel ==
  /\ call = "ok"
  /\ outbox[Current].action = "CANCEL_TIME_OFF"
  /\ ApplyDeduction(Current)
  /\ outbox' = Marked({Current}, "COMPLETED")
  /\ NextEntry
  /\ UNCHANGED <<request, hold>>

\* What the catch branch treats as transient: the adapter says so, or the
\* transaction after a good answer broke a CHECK constraint and rolled back.
FailedTransiently(i) ==
  \/ call = "transient"
  \/ /\ call = "ok"
     /\ StillWanted(i)
     /\ ~ BooksAccept(i)

RetriesLeft(i) == outbox[i].retryCount + 1 < MaxRetries

RetryEntry_Uncounted ==
  LET i == Current
  IN  /\ FailedTransiently(i)
      /\ RetriesLeft(i)
      /\ outbox' = [outbox EXCEPT ![i].status = "PENDING"]
      /\ NextEntry
      /\ UNCHANGED <<request, hold, balance>>

\* markForRetry writes the entry whatever its status is by now.
RetryEntry ==
  LET i == Current
  IN  /\ FailedTransiently(i)
      /\ RetriesLeft(i)
      /\ outbox' = [outbox EXCEPT ![i].status = "PENDING",
                                  ![i].retryCount = @ + 1]
      /\ NextEntry
      /\ UNCHANGED <<request, hold, balance>>

\* handlePermanentFailure: a request that still waits fails and its hold goes;
\* the entry is marked FAILED in any case.
GiveUpEntry ==
  LET i == Current
      r == outbox[i].request
  IN  /\ \/ call = "permanent"
         \/ FailedTransiently(i) /\ ~ RetriesLeft(i)
      /\ \/ /\ request[r].status = "APPROVED_PENDING_HCM"
            /\ UpdateStatus(r, "FAILED_HCM", request[r].version,
                            request[r].reference)
            /\ ReleaseHold(r)
         \/ /\ request[r].status # "APPROVED_PENDING_HCM"
            /\ UNCHANGED <<request, hold>>
      /\ outbox' = Marked({i}, "FAILED")
      /\ NextEntry
      /\ UNCHANGED balance

Sweep ==
  \/ ClaimPendingEntries
  \/ SkipEntry
  \/ SendEntry
  \/ ConfirmPost
  \/ DropPost
  \/ ConfirmCancel
  \/ RetryEntry
  \/ GiveUpEntry

\* The process dies and restarts: the tables stay, what the sweep had in memory
\* is gone, and a call under way may still reach the HCM.
Crash ==
  /\ crashes < MaxCrashes
  /\ claimed # {}
  /\ crashes' = crashes + 1
  /\ claimed' = {}
  /\ call' = "none"
  /\ late' = IF call = "sent" THEN late \union {Current} ELSE late
  /\ UNCHANGED <<tables, server>>

-----------------------------------------------------------------------------
(***************************************************************************)
(* Specification.                                                          *)
(***************************************************************************)

ProcessorInit ==
  /\ Init
  /\ hcm \in [Account -> { [total |-> t, used |-> 0, version |-> 0] : t \in Allowance }]
  /\ \A a \in Account :
       balance[a] # NoProjection => balance[a].total = hcm[a].total
  /\ claimed = {}
  /\ call = "none"
  /\ late = {}
  /\ deductions = {}
  /\ answered = {}
  /\ crashes = 0

EventLoopFree == claimed = {} \/ call # "none"

ApiCall ==
  /\ EventLoopFree
  /\ Handler
  /\ UNCHANGED <<processor, late, server, crashes>>

Network ==
  \/ CallAnswered
  \/ CallDisconnected
  \/ \E i \in late : LateCall(i)

ProcessorNext == ApiCall \/ Sweep \/ Network \/ Crash

ProcessorSpec == ProcessorInit /\ [][ProcessorNext]_vars

\* The cron job fires every ten seconds and the process runs what it can; an
\* awaited call ends, with an answer or with an error of the socket.  Nobody
\* has to call the API, and late calls may be lost.
FairProcessorSpec ==
  /\ ProcessorSpec
  /\ WF_vars(Sweep)
  /\ WF_vars(CallAnswered \/ CallDisconnected)

-----------------------------------------------------------------------------
(***************************************************************************)
(* Safety.  NoOverbooking, NoOverlap, HoldFollowsRequest and               *)
(* WaitingRequestHasItsPost of RequestLifecycle are checked here as well:  *)
(* the sweep writes the same tables.                                       *)
(***************************************************************************)

\* An APPROVED request is one the HCM really deducted: its post is COMPLETED,
\* the deduction is in force and the hold has become part of the balance.
ApprovedIsDeducted ==
  \A r \in Request : request[r].status = "APPROVED" =>
    /\ hold[r] = "CONVERTED"
    /\ \E i \in PostsOf(r) : outbox[i].status = "COMPLETED" /\ i \in deductions

\* The projection is what the completed entries say it is: posts taken once,
\* refunds given once, across retries, repeated answers and crashes.
BooksMatchOutbox ==
  \A a \in Account : balance[a] # NoProjection =>
    LET completed == { i \in DOMAIN outbox :
                         outbox[i].status = "COMPLETED" /\ AccountOf(i) = a }
    IN  /\ balance[a].used = MapThenSumSet(ConfirmedHours, completed)
        /\ balance[a].projected = balance[a].total - balance[a].used

\* Deductions the HCM made for a request that no longer waited for them.
Orphans ==
  { i \in deductions :
      outbox[i].status # "COMPLETED" /\ ~ StillWanted(i) }

\* ReadyOn never offers an employee hours the HCM has already taken, orphans
\* apart: every other deduction is covered by a hold or by the projection at
\* every moment of the exchange.
OffersNoTakenHours ==
  \A a \in Account : balance[a] # NoProjection =>
    EffectiveAvailable(a, {}) <=
      HcmAvailable(a)
        + MapThenSumSet(HoursOf, { i \in Orphans : AccountOf(i) = a })

\* Until the HCM has answered it, a queued cancellation names a deduction that is
\* in force: no failure, retry or other cancellation leaves it nothing to reverse.
CancellationsFindTheirDeduction ==
  \A i \in DOMAIN outbox :
    outbox[i].action = "CANCEL_TIME_OFF" /\ Unsettled(i) =>
      outbox[i].reference \in deductions \/ i \in answered

\* While the process does not crash, an entry marked PROCESSING is one the
\* running sweep will still carry: none is stranded.
ProcessingIsClaimed ==
  \A i \in DOMAIN outbox : outbox[i].status = "PROCESSING" => i \in claimed

\* Every change of a request's status, those of the sweep included (it does not
\* call assertValidTransition), is in the transition table.
LegalTransitions ==
  [][\A r \in Request :
       \/ request'[r].status = request[r].status
       \/ ~ Exists(r) /\ request'[r].status = "PENDING_APPROVAL"
       \/ Exists(r) /\ IsValidTransition(request[r].status, request'[r].status)
    ]_vars

-----------------------------------------------------------------------------
(***************************************************************************)
(* Liveness, under FairProcessorSpec.                                      *)
(***************************************************************************)

\* An approved request does not wait for the HCM for ever: it is confirmed,
\* given up after the last retry, or cancelled.
EveryPostSettles ==
  \A r \in Request :
    request[r].status = "APPROVED_PENDING_HCM" ~>
    request[r].status # "APPROVED_PENDING_HCM"

CancelQueued(r) ==
  \E i \in DOMAIN outbox :
    outbox[i].request = r /\ outbox[i].action = "CANCEL_TIME_OFF" /\ Unsettled(i)

CancelCompleted(r) ==
  \E i \in DOMAIN outbox :
    /\ outbox[i].request = r
    /\ outbox[i].action = "CANCEL_TIME_OFF"
    /\ outbox[i].status = "COMPLETED"

\* The cancellation of a request that was approved does not stay queued for ever:
\* its refund is booked, or it is given up after the last retry.
EveryRefundSettles ==
  \A r \in Request : CancelQueued(r) ~> ~ CancelQueued(r)

-----------------------------------------------------------------------------
(***************************************************************************)
(* What all of this is for: the ledger of LeaveLedger.  An ACTIVE hold is  *)
(* a reservation, a CONVERTED one is taken until its cancellation is       *)
(* COMPLETED, and hours are free again once the hold is RELEASED or the    *)
(* refund is booked.                                                       *)
(***************************************************************************)

Phase(r) ==
  CASE hold[r] = "ACTIVE"    -> "reserved"
    [] hold[r] = "RELEASED"  -> "freed"
    [] hold[r] = "CONVERTED" -> IF CancelCompleted(r) THEN "freed" ELSE "taken"

Ledger == INSTANCE LeaveLedger WITH
  capacity <- [a \in Account |->
                 IF balance[a] = NoProjection THEN 0 ELSE balance[a].total],
  booking  <- [r \in Request |->
                 IF Exists(r)
                 THEN [ account |-> request[r].account,
                        hours |-> request[r].hours, phase |-> Phase(r) ]
                 ELSE [phase |-> "unbooked"]]

\* Through every failure, retry, late answer and crash the tables implement the
\* ledger: hours are reserved only when free, taken or freed once, never twice.
ImplementsLedger == Ledger!LedgerSpec

-----------------------------------------------------------------------------
(***************************************************************************)
(* What the documents of the repository say and the code does not do.      *)
(***************************************************************************)

\* README, transactional outbox: no orphaned state.  A cancelled request does
\* not keep its deduction at the HCM.
CancelledIsReversed ==
  \A r \in Request :
    request[r].status = "CANCELLED" ~> PostsOf(r) \intersect deductions = {}
=============================================================================
