--------------------------- MODULE ReconcileCursor --------------------------
(***************************************************************************)
(* The reconciliation job (reconciliation.service.ts) beside the batches:  *)
(* it walks the projections in pages with a cursor in memory, asks the HCM *)
(* about one row after the other and repairs what differs.                 *)
(*                                                                         *)
(* The cursor is an employee, while a page is cut after BatchSize rows.    *)
(* Runs start every ten seconds whether the last one has ended or not, and *)
(* all of them move the one cursor.                                        *)
(*                                                                         *)
(* As in PullSync a balance is its version.  Differences above the         *)
(* threshold, which are left to people, are in BalanceSync.                *)
(***************************************************************************)
EXTENDS PullSync, FiniteSets, FiniteSetsExt

CONSTANTS
  EmployeeOf,       \* account -> employee_id, a number from 1
  BatchSize,        \* RECONCILIATION_BATCH_SIZE
  Job               \* reconciliation runs that may overlap

\* Accounts are numbered in the order in which findAllProjections returns rows:
\* by employee_id; the order of an employee's own rows is the database's.
ASSUME AccountOrderAssumption ==
  /\ Account \subseteq Nat \ {0}
  /\ EmployeeOf \in [Account -> Nat \ {0}]
  /\ \A a, b \in Account : a <= b => EmployeeOf[a] <= EmployeeOf[b]

ASSUME BatchSizeAssumption == BatchSize \in Nat \ {0}

VARIABLES
  cursor,           \* lastReconciledEmployeeId, 0 for ''
  page,             \* job -> the rows it still has to check
  seen              \* job -> the HCM's answer about the first of them, or NULL

cursorVars == <<cursor, page, seen>>
jobVars == <<pullVars, cursorVars>>

CursorTypeOK ==
  /\ cursor \in {0} \union { EmployeeOf[a] : a \in Account }
  /\ page \in [Job -> SUBSET Account]
  /\ seen \in [Job -> Nat \union {NULL}]
  /\ \A j \in Job : Cardinality(page[j]) <= BatchSize

-----------------------------------------------------------------------------

NextPage_OffByOne(after) ==
  LET rows == { a \in Account : HasRow(a) /\ EmployeeOf[a] > after }
  IN  { a \in rows : Cardinality({ b \in rows : b < a }) \in 1 .. BatchSize }

\* findAllProjections: ORDER BY employee_id LIMIT BatchSize.
NextPage(after) ==
  LET rows == { a \in Account : HasRow(a) /\ EmployeeOf[a] > after }
  IN  { a \in rows : Cardinality({ b \in rows : b < a }) < BatchSize }

\* An empty page ends the cycle, and the run with it.
StartJob(j) ==
  /\ EventLoopFree
  /\ page[j] = {}
  /\ page' = [page EXCEPT ![j] = NextPage(cursor)]
  /\ cursor' = IF NextPage(cursor) = {} THEN 0 ELSE cursor
  /\ UNCHANGED <<pullVars, seen>>

Current(j) == Min(page[j])

\* getBalance, as the HCM answers it; it answers 404 for what it does not have.
HcmTells(j) ==
  /\ page[j] # {}
  /\ seen[j] = NULL
  /\ hcm[Current(j)] > 0
  /\ seen' = [seen EXCEPT ![j] = hcm[Current(j)]]
  /\ UNCHANGED <<pullVars, cursor, page>>

MoveOn_SkippingNext(j) ==
  /\ cursor' = EmployeeOf[Current(j)] + 1
  /\ page' = [page EXCEPT ![j] = @ \ {Current(j)}]
  /\ seen' = [seen EXCEPT ![j] = NULL]

\* The end of the loop body, after success and failure alike.
MoveOn(j) ==
  /\ cursor' = EmployeeOf[Current(j)]
  /\ page' = [page EXCEPT ![j] = @ \ {Current(j)}]
  /\ seen' = [seen EXCEPT ![j] = NULL]

\* updateFromHcm of the row that the run selected; rows are never deleted.
Repair(a, version) ==
  /\ projection' = [projection EXCEPT ![a].version = version]
  /\ newest' = [newest EXCEPT ![a] = Latest(@, version)]

\* reconcileOne after its answer.  A newer answer is written, with drift or
\* without; an older one is written if its amounts differ.
ReconcileOne(j) ==
  /\ EventLoopFree
  /\ seen[j] # NULL
  /\ LET a == Current(j)
     IN  \/ seen[j] # projection[a].version /\ Repair(a, seen[j])
         \/ seen[j] <= projection[a].version /\ UNCHANGED <<projection, newest>>
  /\ MoveOn(j)
  /\ UNCHANGED <<hcmSide, record, checkpoint, memory, failed>>

\* The call fails, or what follows its answer: the row is left for the next cycle.
ReconcileFails(j) ==
  /\ EventLoopFree
  /\ page[j] # {}
  /\ seen[j] = NULL
  /\ MoveOn(j)
  /\ UNCHANGED pullVars

\* The cursor is lost with the rest of the memory.
Crash ==
  /\ PullCrash
  /\ cursor' = 0
  /\ page' = [j \in Job |-> {}]
  /\ seen' = [j \in Job |-> NULL]

-----------------------------------------------------------------------------

CursorInit ==
  /\ PullInit
  /\ cursor = 0
  /\ page = [j \in Job |-> {}]
  /\ seen = [j \in Job |-> NULL]

JobStep(j) ==
  StartJob(j) \/ HcmTells(j) \/ ReconcileOne(j) \/ ReconcileFails(j)

\* The batches and the HCM go on meanwhile.
CursorNext ==
  \/ SyncStep /\ UNCHANGED cursorVars
  \/ \E j \in Job : JobStep(j)
  \/ Crash

CursorSpec == CursorInit /\ [][CursorNext]_jobVars

Alone(A) == A /\ UNCHANGED cursorVars

\* The cron jobs fire again and again, and what waits in the event loop gets its
\* turn.  A call that is made again and again succeeds in the end.  The process does
\* not die for ever.  Nothing is fair about pushes and changes.
FairCursorSpec ==
  /\ CursorSpec
  /\ <>[][~ Crash]_jobVars
  /\ WF_jobVars(Alone(BatchStep))
  /\ \A n \in Run :
       /\ SF_jobVars(Alone(AskHcm(n)))
       /\ SF_jobVars(Alone(HcmAnswers(n)))
       /\ SF_jobVars(Alone(StartPulled(n)))
  /\ SF_jobVars(\E j \in Job : StartJob(j))
  /\ \A j \in Job : SF_jobVars(ReconcileOne(j))
  /\ \A a \in Account : SF_jobVars(\E j \in Job : HcmTells(j) /\ Current(j) = a)

-----------------------------------------------------------------------------
(***************************************************************************)
(* Properties.                                                             *)
(***************************************************************************)

\* The row of each employee that no page can end before.
First(a) == \A b \in Account : b < a => EmployeeOf[b] # EmployeeOf[a]

\* Under FairCursorSpec, wherever pages end and however runs push the cursor
\* about, the first row of every employee is reached again and again: once the
\* HCM stops changing, it has the HCM's balance for good, whatever failed in
\* batches, was lost in crashes or was overwritten by a late answer.
FirstRowsConverge ==
  <>[](\A a \in Account :
         HasRow(a) /\ First(a) => projection[a].version = hcm[a])

\* Under FairCursorSpec every balance the HCM is left with arrives, or is itself an
\* item that FAILED; what failed earlier for the same account excuses nothing.
PullsDeliver == <>[](\A a \in Account : Kept(a, hcm[a]))

\* A row goes back to an older balance in one way only: the repair by a run whose
\* answer about that row is older.  No batch takes a row back, whatever runs, pulls
\* and crashes it overlaps.
OnlyRepairsGoBack ==
  [][\A a \in Account : HasRow(a) =>
       \/ projection'[a].version >= projection[a].version
       \/ \E j \in Job : /\ seen[j] # NULL /\ Current(j) = a
                          /\ projection'[a].version = seen[j]]_jobVars
=============================================================================
