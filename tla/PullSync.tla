------------------------------ MODULE PullSync -------------------------------
(***************************************************************************)
(* How balances travel from the HCM in batches: the batches it pushes      *)
(* (POST batch-sync) and those the cron job pulls with a checkpoint        *)
(* (batch-sync.service.ts, batch.repository.ts), with the records of both. *)
(*                                                                         *)
(* Only the age of a balance matters here: a balance is its hcm_version,   *)
(* the HCM's time of the change; BalanceSync is about the amounts.  A      *)
(* checkpoint is a time of the same clock, which ticks at every change: no *)
(* two changes, and no change and answer, share a millisecond.             *)
(*                                                                         *)
(* processBatch has no await, so nothing of the process interleaves with   *)
(* it; but every item is a transaction of its own, and a crash may come    *)
(* between any two of them.  The HCM goes on meanwhile.                    *)
(***************************************************************************)
EXTENDS Naturals

CONSTANTS
  Account,          \* employee and leave type
  Elsewhere,        \* the accounts of employees who do not work at HQ
  Run,              \* pulls that may overlap: the cron job does not wait
  PushId,           \* the batch_id's the HCM sends
  WritesFail,       \* may the database refuse a write?
  MaxTime,          \* bound on the changes at the HCM
  NULL

ASSUME ElsewhereAssumption == Elsewhere \subseteq Account
ASSUME WritesFailAssumption == WritesFail \in BOOLEAN
ASSUME MaxTimeAssumption == MaxTime \in Nat
ASSUME BatchIdAssumption ==
  Run \intersect PushId = {} /\ NULL \notin Run \union PushId

VARIABLES
  clock,            \* the HCM's time
  hcm,              \* account -> version of the balance it has, 0 for none
  sent,             \* batch_id -> the items the HCM sends under it
  projection,       \* balance_projections: account -> row, or NoProjection
  record,           \* integration_batches: batch -> its record, or NoRecord
  checkpoint,       \* sync_checkpoints: hcm_batch_checkpoint, 0 for 1970
  pull,             \* pulls under way: run -> where it is
  batch,            \* processBatch under way, or NoBatch
  newest,           \* history: account -> newest version it ever had here
  failed            \* history: the items that ended up FAILED

hcmSide == <<clock, hcm, sent>>
stored  == <<projection, record, checkpoint>>
memory  == <<pull, batch>>
history == <<newest, failed>>
pullVars == <<hcmSide, stored, memory, history>>

Place == {"HQ", "elsewhere"}

Workplace(a) == IF a \in Elsewhere THEN "elsewhere" ELSE "HQ"

Item == [account : Account, location : Place, version : Nat \ {0}]

NoProjection == [version |-> 0]

ProjectionRow == [location : Place, version : Nat \ {0}]

\* A record is kept under its batch_id.  The batch_id of a pull is the time it
\* was processed at: of each run the record of its last pull is kept.
BatchId == PushId \union Run

BatchStatus == {"PROCESSING", "COMPLETED", "PARTIAL", "FAILED"}

\* items stands for total_items.
BatchRecord == [status : BatchStatus, items : SUBSET Item]

NoRecord == [status |-> "NONE", items |-> {}]

\* Local variables of pullFromHcm on both sides of its await.
Idle == [stage |-> "idle"]

Asked == [stage : {"asked"}, since : Nat]

Answer == [stage : {"answered"}, items : SUBSET Item, checkpoint : Nat]

\* Local variables of processBatch; the counts are kept as sets of items.
NoBatch == [id |-> NULL, todo |-> {}]

Batch ==
  [ id : BatchId, todo : SUBSET Item, processed : SUBSET Item,
    failed : SUBSET Item, checkpoint : Nat ]

PullTypeOK ==
  /\ clock \in Nat
  /\ hcm \in [Account -> 0 .. clock]
  /\ sent \in [PushId -> SUBSET Item]
  /\ projection \in [Account -> ProjectionRow \union {NoProjection}]
  /\ record \in [BatchId -> BatchRecord \union {NoRecord}]
  /\ checkpoint \in 0 .. clock
  /\ pull \in [Run -> {Idle} \union Asked \union Answer]
  /\ batch \in Batch \union {NoBatch}
  /\ newest \in [Account -> Nat]
  /\ failed \subseteq Item

-----------------------------------------------------------------------------
(***************************************************************************)
(* The HCM.                                                                *)
(***************************************************************************)

\* A balance is set, or changed by a post or a cancellation.
HcmChanges(a) ==
  /\ clock < MaxTime
  /\ clock' = clock + 1
  /\ hcm' = [hcm EXCEPT ![a] = clock + 1]
  /\ UNCHANGED <<sent, stored, memory, history>>

\* The HCM sends balances of its choice under a new batch_id; it may send the
\* same batch again as long as it got no answer.
HcmSends(id, accounts) ==
  /\ sent[id] = {}
  /\ sent' = [sent EXCEPT ![id] =
       { [account |-> a, location |-> Workplace(a), version |-> hcm[a]] :
           a \in { b \in accounts : hcm[b] > 0 } }]
  /\ UNCHANGED <<clock, hcm, stored, memory, history>>

ItemsSince_Pages(since) ==
  { [account |-> a, location |-> "HQ", version |-> hcm[a]] :
      a \in { b \in Account : hcm[b] > since + 1 } }

\* handleBatchBalances: what has changed since, without locations, which
\* processItem takes for HQ.
ItemsSince(since) ==
  { [account |-> a, location |-> "HQ", version |-> hcm[a]] :
      a \in { b \in Account : hcm[b] > since } }

-----------------------------------------------------------------------------
(***************************************************************************)
(* processBatch.                                                           *)
(***************************************************************************)

EventLoopFree == batch = NoBatch

\* create.
NewRecord(items) == [status |-> "PROCESSING", items |-> items]

\* findByBatchId finds no batch of this id.
StartBatch(id, items, time) ==
  /\ EventLoopFree
  /\ record' = [record EXCEPT ![id] = NewRecord(items)]
  /\ batch' = [ id |-> id, todo |-> items, processed |-> {}, failed |-> {},
                checkpoint |-> time ]
  /\ UNCHANGED <<hcmSide, projection, checkpoint, history>>

\* batchSync.  A batch_id that is known is refused, finished or not.
StartPush(id) ==
  /\ sent[id] # {}
  /\ record[id] = NoRecord
  /\ StartBatch(id, sent[id], 0)
  /\ UNCHANGED pull

Latest(m, n) == IF m > n THEN m ELSE n

\* create and updateFromHcm.
StoreItem(i) ==
  /\ projection' = [projection EXCEPT ![i.account] =
       [location |-> i.location, version |-> i.version]]
  /\ newest' = [newest EXCEPT ![i.account] = Latest(@, i.version)]
  /\ batch' = [batch EXCEPT !.todo = @ \ {i}, !.processed = @ \union {i}]
  /\ UNCHANGED failed

\* The catch clause around processItem.
FailItem(i) ==
  /\ failed' = failed \union {i}
  /\ batch' = [batch EXCEPT !.todo = @ \ {i}, !.failed = @ \union {i}]
  /\ UNCHANGED <<projection, newest>>

SkipItem(i) ==
  /\ batch' = [batch EXCEPT !.todo = @ \ {i}]
  /\ UNCHANGED <<projection, newest, failed>>

HasRow(a) == projection[a] # NoProjection

Found(i) == HasRow(i.account) /\ projection[i.account].location = i.location

\* A row at another location is not found, and a second row for the account is
\* what UNIQUE (employee_id, leave_type) refuses.
Refused(i) == HasRow(i.account) /\ ~ Found(i)

Stale_Unchecked(i) == FALSE

Stale(i) == Found(i) /\ i.version <= projection[i.account].version

\* processItem, one transaction.
ProcessItem(i) ==
  /\ i \in batch.todo
  /\ \/ ~ Refused(i) /\ ~ Stale(i) /\ StoreItem(i)
     \/ Stale(i) /\ SkipItem(i)
     \/ Refused(i) /\ FailItem(i)
     \/ WritesFail /\ ~ Stale(i) /\ FailItem(i)
  /\ UNCHANGED <<hcmSide, record, checkpoint, pull>>

BatchOutcome_Lenient(b) ==
  IF b.failed # {} /\ b.processed = {} THEN "FAILED" ELSE "COMPLETED"

BatchOutcome(b) ==
  CASE b.failed # {} /\ b.processed = {} -> "FAILED"
    [] b.failed # {} /\ b.processed # {} -> "PARTIAL"
    [] OTHER                             -> "COMPLETED"

AllItemsDone ==
  /\ batch # NoBatch
  /\ batch.todo = {}

\* updateCounts.  A pull that stored something goes on to setCheckpoint.
FinishBatch ==
  /\ AllItemsDone
  /\ record[batch.id].status = "PROCESSING"
  /\ record' = [record EXCEPT ![batch.id].status = BatchOutcome(batch)]
  /\ batch' = IF batch.id \in Run /\ batch.processed # {} THEN batch ELSE NoBatch
  /\ UNCHANGED <<hcmSide, projection, checkpoint, pull, history>>

NewCheckpoint_TimeOfProcessing == clock

NewCheckpoint_AfterTheAnswer == batch.checkpoint + 1

\* The HCM's time when it answered.
NewCheckpoint == batch.checkpoint

SetCheckpoint ==
  /\ AllItemsDone
  /\ record[batch.id].status # "PROCESSING"
  /\ checkpoint' = NewCheckpoint
  /\ batch' = NoBatch
  /\ UNCHANGED <<hcmSide, projection, record, pull, history>>

\* updateCounts or setCheckpoint throws.
AbandonBatch ==
  /\ WritesFail
  /\ AllItemsDone
  /\ batch' = NoBatch
  /\ UNCHANGED <<hcmSide, stored, pull, history>>

-----------------------------------------------------------------------------
(***************************************************************************)
(* pullFromHcm.                                                            *)
(***************************************************************************)

AskHcm(n) ==
  /\ EventLoopFree
  /\ pull[n] = Idle
  /\ pull' = [pull EXCEPT ![n] = [stage |-> "asked", since |-> checkpoint]]
  /\ UNCHANGED <<hcmSide, stored, batch, history>>

\* An answer without items ends the pull.
HcmAnswers(n) ==
  /\ pull[n].stage = "asked"
  /\ LET items == ItemsSince(pull[n].since)
     IN  pull' = [pull EXCEPT ![n] =
           IF items = {} THEN Idle
           ELSE [stage |-> "answered", items |-> items, checkpoint |-> clock]]
  /\ UNCHANGED <<hcmSide, stored, batch, history>>

StartPulled(n) ==
  /\ pull[n].stage = "answered"
  /\ StartBatch(n, pull[n].items, pull[n].checkpoint)
  /\ pull' = [pull EXCEPT ![n] = Idle]

\* The call fails; or another pull of the same millisecond has the batch_id.
PullFails(n) ==
  /\ EventLoopFree
  /\ pull[n] # Idle
  /\ pull' = [pull EXCEPT ![n] = Idle]
  /\ UNCHANGED <<hcmSide, stored, batch, history>>

\* The process dies: between two transactions, or while it waits.
PullCrash ==
  /\ pull' = [n \in Run |-> Idle]
  /\ batch' = NoBatch
  /\ UNCHANGED <<hcmSide, stored, history>>

-----------------------------------------------------------------------------
(***************************************************************************)
(* Specification.                                                          *)
(***************************************************************************)

PullInit ==
  /\ clock = 0
  /\ hcm = [a \in Account |-> 0]
  /\ sent = [id \in PushId |-> {}]
  /\ projection = [a \in Account |-> NoProjection]
  /\ record = [id \in BatchId |-> NoRecord]
  /\ checkpoint = 0
  /\ pull = [n \in Run |-> Idle]
  /\ batch = NoBatch
  /\ newest = [a \in Account |-> 0]
  /\ failed = {}

HcmStep ==
  \/ \E a \in Account : HcmChanges(a)
  \/ \E id \in PushId, accounts \in SUBSET Account : HcmSends(id, accounts)

BatchStep ==
  \/ \E i \in batch.todo : ProcessItem(i)
  \/ FinishBatch
  \/ SetCheckpoint
  \/ AbandonBatch

PullStep(n) == AskHcm(n) \/ HcmAnswers(n) \/ StartPulled(n) \/ PullFails(n)

\* The HCM and the process, as long as it lives.
SyncStep ==
  \/ HcmStep
  \/ \E id \in PushId : StartPush(id)
  \/ BatchStep
  \/ \E n \in Run : PullStep(n)

PullNext == SyncStep \/ PullCrash

PullSpec == PullInit /\ [][PullNext]_pullVars

-----------------------------------------------------------------------------
(***************************************************************************)
(* Properties.                                                             *)
(***************************************************************************)

\* A batch that is recorded as COMPLETED is stored to its last item: every row is
\* as the item says or newer, for ever after and whatever batches were processed
\* in between.  (A repair of ReconcileCursor may take a row back.)
CompletedIsStored ==
  \A id \in BatchId : record[id].status = "COMPLETED" =>
    \A i \in record[id].items : projection[i.account].version >= i.version

FailedOnce(a, v) == \E i \in failed : i.account = a /\ i.version = v

Kept(a, v) == newest[a] >= v \/ FailedOnce(a, v)

KeptUpTo(time) ==
  \A a \in Account : hcm[a] > 0 /\ hcm[a] <= time => Kept(a, hcm[a])

\* The checkpoint leaves nothing behind but what failed: a balance that no pull
\* will ask for again was stored here, or was an item that FAILED.  It holds with
\* pulls that overlap and move the checkpoint back and forth, with crashes
\* between two items, and for balances that change while a pull is under way.
NothingForgotten == KeptUpTo(checkpoint)
=============================================================================
