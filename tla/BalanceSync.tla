----------------------------- MODULE BalanceSync ----------------------------
(***************************************************************************)
(* The other writers of balance_projections: the batches and single        *)
(* updates the HCM sends (batch-sync.service.ts, integration.controller.ts)*)
(* and the reconciliation job that asks it (reconciliation.service.ts),    *)
(* beside the request API and the outbox sweep.                            *)
(*                                                                         *)
(* What arrives is a report: the balance the HCM had at some moment.       *)
(* Between that moment and its processing the HCM, the API and the sweep   *)
(* go on, and reports overtake each other.  A batch is processed item by   *)
(* item, each in its own transaction, and its items are about different    *)
(* rows: one action per item.  A report the code refuses or skips is       *)
(* dropped.                                                                *)
(***************************************************************************)
EXTENDS OutboxProcessor

CONSTANTS
  Channels,         \* the ways reports come: see Channel
  Run,              \* senders of one channel that may overlap
  AutoRepairThreshold, \* drift up to which reconciliation repairs by itself
  HcmChanges,       \* what the HCM may change: a new total, hours used elsewhere
  MaxHcmChanges     \* bound on the number of such changes

Channel == {"batch", "single", "reconcile"}

ASSUME ChannelsAssumption == Channels \subseteq Channel
ASSUME ThresholdAssumption == AutoRepairThreshold \in Nat
ASSUME HcmChangesAssumption == HcmChanges \subseteq [total : Nat, elsewhere : Nat]
ASSUME MaxHcmChangesAssumption == MaxHcmChanges \in Nat

VARIABLES
  reports,          \* reports under way
  hcmChanges        \* changes the HCM has made on its own so far

syncVars == <<vars, reports, hcmChanges>>

Report ==
  [ channel : Channels, run : Run, account : Account, balance : HcmAccount ]

SyncTypeOK ==
  /\ ProcessorTypeOK
  /\ reports \subseteq Report
  /\ hcmChanges \in 0 .. MaxHcmChanges

-----------------------------------------------------------------------------
(***************************************************************************)
(* The HCM.                                                                *)
(***************************************************************************)

\* An anniversary bonus, a correction, hours booked by other means.
HcmSetsBalance(a, new) ==
  /\ hcmChanges < MaxHcmChanges
  /\ hcmChanges' = hcmChanges + 1
  /\ hcm' = [hcm EXCEPT ![a].total = new.total,
                        ![a].used = @ + new.elsewhere,
                        ![a].version = @ + 1]
  /\ UNCHANGED <<tables, processor, late, deductions, answered, crashes, reports>>

\* The HCM sends its balance, or answers getBalance.
HcmReports(channel, run, a) ==
  /\ \A p \in reports : <<p.channel, p.run, p.account>> # <<channel, run, a>>
  /\ reports' = reports \union
       { [channel |-> channel, run |-> run, account |-> a, balance |-> hcm[a]] }
  /\ UNCHANGED <<vars, hcmChanges>>

-----------------------------------------------------------------------------
(***************************************************************************)
(* Statements.                                                             *)
(***************************************************************************)

Consumed(p) ==
  /\ reports' = reports \ {p}
  /\ UNCHANGED <<hold, outbox, processor, late, server, crashes, hcmChanges>>

\* The row that create and updateFromHcm write.
FromHcm(b) == SyncedProjection(b.total, b.used, b.version)

WriteProjection(a, b) ==
  /\ ConstraintsHold(FromHcm(b))
  /\ balance' = [balance EXCEPT ![a] = FromHcm(b)]

\* What the CHECK constraints of the table refuse is rolled back.
ProjectionRefused(b) ==
  /\ ~ ConstraintsHold(FromHcm(b))
  /\ UNCHANGED <<request, balance>>

IsNewer_Unchecked(a, b) == TRUE

\* The version gate: a report is newer than what the projection came from.
IsNewer(a, b) ==
  balance[a] # NoProjection => b.version > balance[a].hcmVersion

FlagActiveHolds_First(a) ==
  \E r \in ActiveHolds(a) :
    request' = [request EXCEPT ![r].status = "RECONCILIATION_REQUIRED",
                               ![r].version = @ + 1]

\* flagActiveHoldsForReconciliation: the requests whose holds are ACTIVE are set
\* aside, whatever their status allows; their holds stay.
FlagActiveHolds(a) ==
  request' = [ r \in Request |->
    IF r \in ActiveHolds(a) /\ request[r].status # "RECONCILIATION_REQUIRED"
    THEN [request[r] EXCEPT !.status = "RECONCILIATION_REQUIRED",
                            !.version = @ + 1]
    ELSE request[r] ]

\* The holds are compared with what the new balance leaves.
RevalidateHolds(a, b) ==
  IF balance[a] # NoProjection /\ b.total - b.used < ActiveHoldsTotal(a, {})
  THEN FlagActiveHolds(a)
  ELSE UNCHANGED request

-----------------------------------------------------------------------------
(***************************************************************************)
(* Handlers.                                                               *)
(***************************************************************************)

\* processItem: an item of a batch, pushed or pulled.
ProcessItem(p) ==
  LET a == p.account
      b == p.balance
  IN  /\ p.channel = "batch"
      /\ \/ IsNewer(a, b) /\ WriteProjection(a, b) /\ RevalidateHolds(a, b)
         \/ IsNewer(a, b) /\ ProjectionRefused(b)
         \/ ~ IsNewer(a, b) /\ UNCHANGED <<request, balance>>
      /\ Consumed(p)

\* singleBalanceUpdate: the same gate, and the holds are not looked at.
SingleBalanceUpdate(p) ==
  LET a == p.account
      b == p.balance
  IN  /\ p.channel = "single"
      /\ \/ IsNewer(a, b) /\ WriteProjection(a, b) /\ UNCHANGED request
         \/ IsNewer(a, b) /\ ProjectionRefused(b)
         \/ ~ IsNewer(a, b) /\ UNCHANGED <<request, balance>>
      /\ Consumed(p)

Abs(n) == IF n < 0 THEN - n ELSE n

\* getPendingDeductionHours.
PendingDeductionHours(a) ==
  MapThenSumSet(LAMBDA r : request[r].hours,
    { r \in Request :
        /\ request[r].status = "APPROVED_PENDING_HCM"
        /\ request[r].account = a })

EffectiveDrift_TotalOnly(a, b) == Abs(b.total - balance[a].total)

\* The larger of the two differences, hours on their way to the HCM counted in.
EffectiveDrift(a, b) ==
  LET total == Abs(b.total - balance[a].total)
      used  == Abs(b.used - (balance[a].used + PendingDeductionHours(a)))
  IN  IF total > used THEN total ELSE used

\* reconcileOne after its getBalance has answered.
ReconcileOne(p) ==
  LET a == p.account
      b == p.balance
      d == EffectiveDrift(a, b)
  IN  /\ p.channel = "reconcile"
      /\ \/ /\ balance[a] = NoProjection
            /\ UNCHANGED <<request, balance>>
         \/ /\ balance[a] # NoProjection
            /\ \/ /\ d = 0
                  /\ \/ IsNewer(a, b) /\ WriteProjection(a, b) /\ UNCHANGED request
                     \/ IsNewer(a, b) /\ ProjectionRefused(b)
                     \/ ~ IsNewer(a, b) /\ UNCHANGED <<request, balance>>
               \/ /\ d > 0 /\ d <= AutoRepairThreshold
                  /\ \/ WriteProjection(a, b) /\ RevalidateHolds(a, b)
                     \/ ProjectionRefused(b)
               \/ /\ d > AutoRepairThreshold
                  /\ FlagActiveHolds(a)
                  /\ UNCHANGED balance
      /\ Consumed(p)

-----------------------------------------------------------------------------
(***************************************************************************)
(* Specification.                                                          *)
(***************************************************************************)

SyncInit ==
  /\ ProcessorInit
  /\ reports = {}
  /\ hcmChanges = 0

SyncHandler(p) ==
  /\ EventLoopFree
  /\ ProcessItem(p) \/ SingleBalanceUpdate(p) \/ ReconcileOne(p)

SyncNext ==
  \/ ProcessorNext /\ UNCHANGED <<reports, hcmChanges>>
  \/ \E a \in Account, new \in HcmChanges : HcmSetsBalance(a, new)
  \/ \E c \in Channels, n \in Run, a \in Account : HcmReports(c, n, a)
  \/ \E p \in reports : SyncHandler(p)

SyncSpec == SyncInit /\ [][SyncNext]_syncVars

\* The cron job asks about the rows of Account again and again, and its answers are
\* processed; the sweep and its calls go on as before.  So it does about the first
\* row of every employee (FirstRowsConverge of ReconcileCursor), and not about the
\* rows that a page ended before: for them this fairness is not justified.
FairSyncSpec ==
  /\ SyncSpec
  /\ WF_syncVars(Sweep /\ UNCHANGED <<reports, hcmChanges>>)
  /\ WF_syncVars((CallAnswered \/ CallDisconnected)
                   /\ UNCHANGED <<reports, hcmChanges>>)
  /\ \A n \in Run, a \in Account :
       /\ WF_syncVars(HcmReports("reconcile", n, a))
       /\ SF_syncVars(\E p \in reports :
            p.channel = "reconcile" /\ p.run = n /\ p.account = a /\ SyncHandler(p))

-----------------------------------------------------------------------------
(***************************************************************************)
(* Properties.                                                             *)
(***************************************************************************)

\* A hold is ACTIVE exactly while its request waits for the manager, for the HCM
\* or, flagged, for a person: syncing and reconciling never release a hold, and
\* no answer that arrives after the flagging does.
HoldAwaitsDecision ==
  \A r \in Request :
    hold[r] = "ACTIVE" <=>
      \/ IsHoldActiveStatus(request[r].status)
      \/ request[r].status = "RECONCILIATION_REQUIRED"

\* A flagged request is left to people: no late answer of the HCM approves it
\* or fails it, no manager's call decides it; only the employee's own cancellation
\* ends the wait.
FlaggedAwaitsPerson ==
  [][\A r \in Request :
       request[r].status = "RECONCILIATION_REQUIRED" =>
         request'[r].status \in {"RECONCILIATION_REQUIRED", "CANCELLED"}
    ]_syncVars

\* When the balance no longer covers the holds, no request that relies on one
\* goes on unflagged.
OverbookedIsFlagged ==
  \A a \in Account : balance[a] # NoProjection =>
    \/ EffectiveAvailable(a, {}) >= 0
    \/ \A r \in ActiveHolds(a) : request[r].status = "RECONCILIATION_REQUIRED"

\* Reports that overtook each other never take a projection back to an older
\* HCM version.
NewVersionsOnly ==
  [][\A a \in Account : balance[a] # NoProjection =>
       balance'[a].hcmVersion >= balance[a].hcmVersion]_syncVars

\* In the end the projection is the HCM's balance, or the drift is one that people
\* have to settle and every request that relies on the projection is flagged.  An
\* overdrawn balance is left out: the CHECK constraints refuse it.
Settled(a) ==
  \/ balance[a] = NoProjection
  \/ HcmAvailable(a) < 0
  \/ balance[a].total = hcm[a].total /\ balance[a].used = hcm[a].used
  \/ /\ EffectiveDrift(a, hcm[a]) > AutoRepairThreshold
     /\ \A r \in ActiveHolds(a) : request[r].status = "RECONCILIATION_REQUIRED"

\* Under FairSyncSpec: once the HCM stops changing, reconciliation settles every
\* account for good, whatever was on its way meanwhile.
ProjectionsConverge == <>[](\A a \in Account : Settled(a))
=============================================================================
