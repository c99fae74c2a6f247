# ReadyOn in TLA+

ReadyOn is a NestJS service that keeps employees' time-off requests in SQLite. It reserves hours with *holds*, and
carries approved requests to an external HR system (the HCM, which owns the balances) through a transactional outbox;
batches, single updates and a reconciliation job bring the HCM's balances back. This directory models that program in
TLA+, checks the models with TLC, and proves all of their safety invariants, for every size of the system, with TLAPS. Paths below are relative to `src/src/` unless they name `README.md` or `TRD.md`, the documents of the repository.

## 1. Inventory

| component | state it keeps | operations | what is hard about it | what makes it correct |
|---|---|---|---|---|
| Request API (`request/request.service.ts`, repositories) | `time_off_requests`, `balance_holds`, `integration_outbox`, reads `balance_projections` | create, approve, reject, cancel; get and list | three tables change together; the balance is recomputed on approval; version conflicts | hours are promised once, dates do not clash, hold and outbox entry follow the status |
| State machine (`common/utils/state-machine.ts`) | none | `assertValidTransition`, `isTerminalStatus` | not every writer asks it | only tabled transitions happen |
| Outbox processor (`integration/outbox`) | `integration_outbox`; the claimed entries in memory, the `processing` flag | cron sweep: claim, pre-check, call, confirm, retry, give up | API calls run during every awaited HCM call; crashes; answers lost or late; retries | an approved request is deducted once and exactly; no entry is forgotten |
| HCM server (`mock-hcm-server/server.ts`) and HTTP adapter (`integration/hcm/http-hcm-adapter.ts`) | balances, deductions, answers by idempotency key | balance, post, cancel, batch | the same key twice; failure after the fact | a key deducts once |
| Circuit breaker (`integration/hcm/circuit-breaker.ts`) | state, failure count, time of the last failure | `ensureClosed`, `recordSuccess`, `recordFailure` | calls overlap its states (once something calls it) | opens at the threshold, never for ever |
| Batch sync (`integration/batch`) | `integration_batches`, `sync_checkpoints`, projections | push batch, pull batch | overtaking pulls, items that fail singly, restart between two items | newest version wins; holds above the balance are flagged; the checkpoint leaves nothing behind |
| Reconciliation (`integration/reconciliation`) | projections, a cursor in memory | `runReconciliation`, `reconcileOne` | the balance is old when it is compared; runs overlap and share the cursor | drift disappears or a person is asked; every employee is reached again and again |
| Integration controller (`integration/integration.controller.ts`) | projections | batch endpoint, single update, injected failures | as batch sync | as batch sync |
| Controllers and idempotency (`idempotency`, `request/*.controller.ts`) | `idempotency_keys` | look up, run the handler, store the answer | two transactions per call; expiry; shared keys | repeating a call is harmless |
| Audit, health, filters, DTOs, migrations | log rows, schema | insert, read | none | no behaviour depends on them |

How they interact: controllers call the request service in the same turn of the event loop. The service leaves work for
the processor in the outbox table and nowhere else. The processor, batch sync and reconciliation call the HCM through
one adapter, and write the tables of the request API after the answer. All of them share one SQLite connection and one
thread, so that **a transaction never interleaves with anything, and everything else interleaves at every `await`**. A
crash loses memory (claimed entries, flags, cursors, breaker) and keeps the tables.

`PROJECT.json` lists the hazards of this code, each at its line with the properties that would notice.

## 2. Modules

| module | models | builds on |
|---|---|---|
| `StateMachine` | statuses, `VALID_TRANSITIONS`, terminal and hold-active statuses | |
| `RequestLifecycle` | the request API over its four tables, one action per handler | `StateMachine` |
| `OutboxProcessor` | the sweep step by step, the HCM, the network, crashes, with the request API running at every await | `RequestLifecycle` |
| `LeaveLedger` | abstract: hours are free, reserved, taken, freed | |
| `BalanceSync` | batch items, single updates and reconciliation beside all of the above | `OutboxProcessor` |
| `PullSync` | pushed and pulled batches, their records, the checkpoint, items that fail, crashes between items | |
| `ReconcileCursor` | reconciliation runs that walk the projections in pages, beside the batches | `PullSync` |
| `IdempotentApi` | controllers, keys and clients that repeat their calls | `RequestLifecycle` |
| `CircuitBreaker` | the breaker and overlapping callers | |
| `RequestLifecycle_proofs`, `OutboxProcessor_proofs`, `BalanceSync_proofs`, `IdempotentApi_proofs`, `CircuitBreaker_proofs` | theorems | the modules they name |
| `OutboxLedger_proofs` | theorems about the hours of `OutboxProcessor`, the refinement of `LeaveLedger` among them | `OutboxProcessor_proofs` |
| `PullSync_proofs` | theorems about `PullSync` and `ReconcileCursor` | `ReconcileCursor` |
| `HourSums` | lemmas about sums over finite sets | |
| `MC*` | small sets, symmetry and configurations for TLC | |

Operators with a suffix after an underscore (`HasOverlap_Strict`) are broken variants of the definition that follows
them: substituted for it, they show that a property can fail. No specification uses them.

### Correspondence with the code

`RequestLifecycle`. `request`, `hold`, `balance`, `outbox` are the tables; a hold is kept under its request because
`request_id` is UNIQUE. An *account* is one row of `balance_projections`: an employee and leave type (the table is UNIQUE
on them) at the row's location. Each handler is one action whose guards are the handler's checks in order; a call the
code refuses throws inside the transaction, changes nothing and is no action. `VersionSeen` lets clients send any version
the row has had. The position of an outbox entry stands for its id and for its idempotency key, which the code generates
together. `manager_id`, reasons, time stamps and the audit log are left out. The projection's own `version` is left out
because every writer reads it in the transaction that compares it.

`OutboxProcessor`. `claimed` is the array the sweep holds, `call` the promise it awaits. `EventLoopFree` is run-to-
completion: handlers run when no sweep is going on or while it awaits. One iteration of the loop is `SkipEntry`, or
`SendEntry`, then the outcome of the call, then one of `ConfirmPost`, `DropPost`, `ConfirmCancel`, `RetryEntry`,
`GiveUpEntry`: the transaction after the await and the catch branch. A confirmation that breaks a CHECK constraint rolls
back and lands in the catch branch (`FailedTransiently`). `late` holds calls whose connection broke or whose caller died;
they may reach the HCM at any later time, or never. The exponential backoff is an entry being due or not: an entry with a
retry behind it may be left out of a claim. `AnswerHasReference` says whether the HCM's answer has the field
`hcm_reference_id`, as the port declares and the server of the repository does not.

`BalanceSync`. A *report* is a balance as the HCM had it when it was sent or asked; the reports of one sender are
processed in order, those of different senders (`Run`) overtake each other. A batch is one action per item: every item is
a transaction of its own, and no two items are about one row. `hcmVersion` is a time stamp in the code and a counter
here: two changes within one millisecond, which the code could not tell apart, are left out.

The batches appear twice. `BalanceSync` is about the amounts an item brings and what they do to requests and holds.
`PullSync` and `ReconcileCursor` are about how balances travel, and know of a balance only its version.

`PullSync`. The HCM's clock ticks at every change, so that a version, a checkpoint and the time of an answer are times of
one clock. `pull` holds the local variables of `pullFromHcm` at its `await`, and `batch` those of `processBatch`, which
awaits nothing: `EventLoopFree` keeps everything of the process out while it runs. Its items are a set (the order within a
batch does not matter: no two items are about one row), each is one transaction, and `PullCrash` may come between any two.
An item is stored, skipped as stale, or failed: because the database refuses the write (`WritesFail`), or because the
row is found under another location, so that the insert breaks UNIQUE. The HCM's answer to a pull has no locations, and
`processItem` fills in HQ. Of each slot of `Run` the record of its last pull is kept, since a pull's batch_id is the time
it was processed at. `newest` and `failed` are history variables. The pushed batch ids of the HCM may be sent again for ever.

`ReconcileCursor`. `page` holds the rows a run has selected and not yet checked, `seen` the answer it awaited, `cursor`
is `lastReconciledEmployeeId`. Accounts are numbered in the order of `findAllProjections`; a page is cut after
`BatchSize` rows wherever that is. `ReconcileFails` stands for a call that fails and for a write that fails after it: both
move on alike. `ReconcileOne` writes an answer that is newer, and one that is older only if its amounts differ, which the
model leaves open. Drift above the threshold, which is not repaired, is in `BalanceSync`. `SyncStep` lets the HCM and the
batches go on between any two steps of a run, and `Crash` takes the cursor with the rest of the memory.

`IdempotentApi`. A client is a user with one call to make, made again until an answer arrives. `PerformCall` is the
handler's transaction followed by the insert of the answer; a crash in between is the disjunct that leaves `keys` alone
and is recorded in `cutOff`, a history variable like `effects`. The hash is the body, as in the code: endpoint, path and
headers are not part of it.

`CircuitBreaker`. Nothing in this version of the program calls the breaker. The callers are those of the adapter skeleton
in TRD.md:2464: ask, call, report (a call the HCM refuses for good reports nothing). It has properties and no hazard in
`PROJECT.json`. The code counts failures without end and asks only whether the count has reached the threshold; `failures`
stops at the bound `MaxFailures`, which stands for every higher count, and `elapsed` at the cooldown. No property is about either bound.

## 3. What the runs check

| run | instance | what it shows |
|---|---|---|
| `request_api` | 3 requests, 2 accounts, days 1–2, hours 1–2, allowances 2–3 | the request API by itself. Three requests are the fewest with a rejected one between two live ones; hours fit singly and not together |
| `outbox_faults` | 2 requests, 1 account, hours 1–2, allowance 2, 2 tries, claim of 2, all faults, 1 crash | safety of the whole path to the HCM, and the refinement of `LeaveLedger` |
| `outbox_liveness` | 2 requests, all faults, no crash, claim of 1 | posts and refunds settle, nothing is stranded. A claim of 1 with 2 entries makes entries wait for each other |
| `outbox_stranded` | 1 request, 1 crash | finding: entries stay PROCESSING |
| `outbox_orphan` | 1 request, no fault | finding: a cancelled request keeps its deduction |
| `outbox_field_names` | 1 request, no fault, the server's field names | finding: cancellations name no deduction |
| `sync_batches` | 2 requests, 2 overlapping batches, 1 HCM change, transient failures | version gate and flagging |
| `sync_converges` | 2 requests, single updates and reconciliation, drift below and above the threshold | consistency of all tables, and convergence |
| `sync_pulls` | 2 accounts, one of them elsewhere, 2 overlapping pulls, 1 pushed batch, 2 changes, failing writes, any number of crashes | records and checkpoint |
| `reconcile_cursor` | 3 rows of 2 employees, pages of 1 row, 2 overlapping runs, 1 pull at a time, 2 changes, failing writes, any number of crashes | the cursor reaches everybody, pulls deliver, only repairs go back |
| `api_retries` | 4 clients, 2 keys, crashes, expiry | repeated calls |
| `breaker` | 4 callers, threshold 3, cooldown 2, counts up to 5 | the breaker |

The properties, and why they are there:

* `NoOverbooking`, `NoOverlap` – several handlers in a row, each of which checks only what it sees.
* `HoldFollowsRequest`, `WaitingRequestHasItsPost`, `NoPostLeftBehind` – status, hold and outbox stay in step. With the
  sweep running, an entry may be left over for a while, so that `NoPostLeftBehind` belongs to the API alone; with flagging,
  `HoldAwaitsDecision` takes the place of `HoldFollowsRequest`. `WaitingRequestHasItsPost` is checked where it is at
  stake, beside the sweep and beside flagging; for the API alone it is proved.
* `ApprovedIsDeducted`, `BooksMatchOutbox` – APPROVED means deducted at the HCM, and the projection is the sum of the
  completed entries, across retries, repeated answers and crashes.
* `OffersNoTakenHours` – at every moment of an exchange, what the employee is offered is covered by what the HCM has left.
  Orphans (deductions for a request that no longer waits, the subject of `outbox_orphan`) are the exception, and the
  invariant counts them exactly.
* `CancellationsFindTheirDeduction` – a compensation has something to compensate.
* `LegalTransitions` – the sweep does not ask `assertValidTransition`; its changes are tabled all the same.
* `ImplementsLedger` – the tables implement `LeaveLedger`: an ACTIVE hold is a reservation, a CONVERTED one is taken until
  its cancellation is COMPLETED. Steps of the ledger need free hours, and hours freed never come back to the request.
* `OverbookedIsFlagged`, `FlaggedAwaitsPerson`, `NewVersionsOnly` – for batches, the only way in that has all three.
* `ProjectionsConverge` – counting hours twice and repairing with old answers do happen on the way (section 5);
  reconciliation undoes them in the end.
* `CompletedIsStored` – a record that says COMPLETED speaks of all its items, those included that another batch overtook: every row
  is as its item says or newer. That is so as long as batches are all that writes rows.
* `OnlyRepairsGoBack` – with reconciliation beside the batches, a row may go back to an older balance, but only by a run
  that writes the older answer it was given; what makes that good again is `FirstRowsConverge`.
* `NothingForgotten` – the checkpoint moves forward and back while pulls overlap, and may be set after further changes or
  never; no balance it has passed is lost, except the items that are recorded as failed, which no later pull asks for.
* `FirstRowsConverge` – every employee's first row is reached however runs push the cursor about, and an older answer that
  overwrote a newer one does not stay. Rows behind the end of a page within one employee's rows are skipped by the
  code; the property claims nothing of them. The instance has such a row.
* `PullsDeliver` – the balance the HCM is left with arrives by a pull or a repair, or is itself an item that failed.
* `TransitionsHappenOnce`, `RepeatsAreSafe`, `AcceptedHappened` – what the keys give, and what versions and statuses give
  where the keys do not.
* `ClosedBelowThreshold`, `OutageEnds` – with calls that end in another state than they began in: closed exactly below the threshold.

Fairness. `FairProcessorSpec`: the cron job fires every ten seconds and the process runs what it can, so a sweep that can
go on does (WF); an awaited call ends, since `fetch` gives up after its own time limits (WF on answer or broken connection,
not on a good answer). No fairness for API calls, late calls, crashes. `FairSyncSpec` adds that the cron job asks about
the rows of the instance again and again (rows that a page ended before are never asked about, so that for them
the fairness is not justified: `ReconcileCursor`), and that an answer that came is processed: the event loop is a queue, so that an answer cannot be
passed over for ever while API calls and sweeps keep taking turns (SF, because the loop is busy in between). `FairCursorSpec`: both cron
jobs fire again and again, whatever waits in the event loop gets its turn (SF, since the loop is busy with other things in
between), `processBatch` runs on to its end (WF), and a call that is made again and again is answered well in the end (SF on
`HcmTells` for each row and on `HcmAnswers`); the process does not die for ever (`<>[][~ Crash]`), because a cursor that is
reset between any two steps reaches nobody but the first. Nothing is fair about changes, pushes or failing writes: that an
item may fail every time is why `PullsDeliver` has its second half. `FairSpec` of
the breaker: time passes, somebody keeps calling, and calls end.

Bounds. `Request`, `Account`, `LastDay`, `Hours`, `Allowance`, `Client`, `Key`, `Caller` are finite sets;
`MaxRetries`, `MaxCrashes`, `MaxHcmChanges`, `MaxTime` bound repetition; a client of `IdempotentApi` makes one call, and creation
calls stop when identifiers run out (`HasIdentifier`). Two requests on one account are the fewest that compete; one crash
suffices in `OutboxProcessor` to lose everything a process has in memory, and the code keeps no memory of having crashed
(`PullSync`, whose crash costs no state, has any number); two changes at the HCM are the fewest with an older and a newer
balance, and two overlapping pulls or runs the fewest that apply them in the wrong order; two tries
are the fewest with a retry and a last one. `CHECK_DEADLOCK FALSE` stands where requests can all be settled and the
program then only waits for calls.

## 4. What is proved

Proved for every value of the constants, from the assumptions named in the modules:

| theorem | says |
|---|---|
| `TypeCorrect` | `Spec => []TypeOK` |
| `HoldsFollowRequests` | `Spec => []HoldFollowsRequest` |
| `DatesNeverOverlap` | `Spec => []NoOverlap` |
| `PostsFollowRequests` | `Spec => []WaitingRequestHasItsPost` |
| `PostsLeaveWithRequests` | `Spec => []NoPostLeftBehind` |
| `HoldsAreCovered` | `Spec => []NoOverbooking` |
| `ProcessorTypeCorrect` | `ProcessorSpec => []ProcessorTypeOK` |
| `ProcessorHolds`, `ProcessorDates`, `ProcessorPosts` | `HoldFollowsRequest`, `NoOverlap` and `WaitingRequestHasItsPost` for the API and the sweep together, with every fault and crash |
| `ProcessorDeductions` | `ProcessorSpec => []ApprovedIsDeducted` |
| `ProcessorCancellations` | `[]CancellationsFindTheirDeduction`, if the HCM's answers carry the reference (`AnswerHasReference`; the run `outbox_field_names` is about the case that they do not) |
| `ProcessorTransitions` | `ProcessorSpec => LegalTransitions`, an action property |
| `ProcessorStrandsNothing` | `ProcessorSpec => [](crashes = 0 => ProcessingIsClaimed)`: until the first crash |
| `ProcessorBooking`, `ProcessorBooks`, `ProcessorOffers` | `NoOverbooking`, `BooksMatchOutbox` and `OffersNoTakenHours`: what is reserved, booked and offered, through every fault and crash |
| `ProcessorLedger` | `ProcessorSpec => ImplementsLedger`: the tables refine `LeaveLedger` |
| `SyncTypeCorrect`, `SyncHolds`, `SyncPosts`, `SyncDeductions` | `SyncTypeOK`, `HoldAwaitsDecision`, `WaitingRequestHasItsPost` and `ApprovedIsDeducted` for all of it together: API, sweep, reports in any order and number |
| `SyncDates`, `SyncCancellations` | `NoOverlap`, and, if the answers carry the reference, `CancellationsFindTheirDeduction`, for all of it together |
| `FlagsStay` | `SyncSpec => FlaggedAwaitsPerson`, an action property: only the employee's cancellation moves a flagged request |
| `OverbookingIsFlagged` | `SyncSpec => []OverbookedIsFlagged` if `Channels \subseteq {"batch"}`: single updates do not look at the holds, and neither does a reconciliation that finds no drift (section 5) |
| `OnlyUnseenWritesOverbook`, `LookingMakesSound` | for all channels, as action properties: which handlers may leave an account short with requests unflagged (those two), and that every other one that changes anything leaves it covered or all flagged |
| `VersionsOnlyGrow` | `SyncSpec => NewVersionsOnly` if `"reconcile" \notin Channels`; a repair may bring an older version back (section 5) |
| `PullTypeCorrect`, `CompletedBatchesAreStored`, `PullsForgetNothing` | `PullTypeOK`, `CompletedIsStored`, `NothingForgotten` for any number of pulls, batches and crashes |
| `JobsForgetNothing` | `NothingForgotten` with reconciliation runs writing the same rows |
| `BatchesNeverGoBack` | `CursorSpec => OnlyRepairsGoBack`, an action property |
| `CursorTypeCorrect` | `CursorSpec => []CursorTypeOK`: no page is longer than `BatchSize` |
| `ApiTypeCorrect`, `RepeatedTransitionsAreRefused`, `SuccessIsTrue`, `RetriesAreSafe` | `ApiTypeOK`, `TransitionsHappenOnce`, `AcceptedHappened`, `RepeatsAreSafe` for any number of clients, keys and crashes |
| `ApiImplementsHandlers`, `ApiKeepsTables` | `ApiSpec => Spec`: at the tables, controllers with keys and repeated calls do what the handlers do, one step each; so that all that is proved of `Spec` holds there |
| `BreakerTypeCorrect`, `BreakerCorrect` | the breaker's `BreakerTypeOK` and `ClosedBelowThreshold` |

The argument. `TypeOK` is inductive, one step per handler, with lemmas on the helpers: `Marked` keeps the outbox a sequence
of rows, `UpdateStatus` a request a row. `HoldFollowsRequest` and `NoOverlap` are inductive with `TypeOK`; `NoOverlap`
because only `CreateRequest` makes a request occupy days and it compares with all that do, and the other handlers never
leave the statuses that occupy. `WaitingRequestHasItsPost` is not inductive: an approval could add a second post to a
request that has one. `NoEarlyPost` (a PENDING_APPROVAL request has none) is the strengthening, and the transition table
says that nothing returns to PENDING_APPROVAL; facts about the table are lemmas of their own (`TransitionFacts`).

`NoPostLeftBehind` is inductive with those
two: the handler that ends a wait fails every unsettled entry of its request.

`OutboxProcessor_proofs` has one inductive invariant, `ExchangeInv`, since its properties rest on each other through the
tables; `ProcessorInv` adds `HoldFollowsRequest` to it. `TableInv` joins the properties of the tables with what links a request to its entries: its account has a
projection, its reference is one of its posts, a cancellation belongs to a CANCELLED request, names that request's post,
and is the only one. `SweepInv` is about the memory of the sweep: a call is awaited only for an entry it holds, no entry
it holds is COMPLETED, and a good answer is one the HCM has stored. `ServerInv` links tables and HCM: a post the HCM
answered is deducted unless its request is CANCELLED (`AnsweredIsDeducted`). That is why `ApprovedIsDeducted` is kept:
only the confirmation of an answered post makes a request APPROVED, and only a cancellation takes a deduction away, that
of its own, CANCELLED, request. The proof goes by kind of step. What the sweep does to the tables is first reduced to two
facts, entries stay for the same call (`SameEntries`) and at most one waiting request is settled (`Settles`), from which
`SettledTables` follows once for all eight actions; the lemmas of `RequestLifecycle_proofs` are cited for the API; `ServerStep`
says what a call leaves at the HCM. `ProcessorInv` was checked by TLC on the instance of `outbox_faults`, with and without the
reference, before it was proved. `NullAssumption` (`NULL` is no number) is what keeps a missing reference from naming an entry.
That the sweep has a current entry whenever it holds any (`CurrentClaimed`) comes from the well-foundedness of strict
inclusion on the sets `1 .. i`.

`ProcessorStrandsNothing` follows entry by entry: only the claim makes an entry PROCESSING, and the sweep lets go of an entry only
by marking it.

`BalanceSync_proofs` takes `ExchangeInv` over. Flagging bypasses the transition table and leaves the hold ACTIVE, so that
`HoldFollowsRequest` is lost; all that the lemmas of the exchange need of it is that a waiting request has its hold
(`WaitingHasHold`), and `HoldAwaitsDecision` gives that. A report's handler is reduced to three facts (`HandledReport`: the
HCM, the outbox and the holds are left alone; a projection is written, or not; requests of one account with an ACTIVE
hold are flagged, or none is), and each part of `ExchangeInv` is kept by them: no APPROVED, CANCELLED or REJECTED request
has an ACTIVE hold, so none is ever flagged.

`PullInv` in `PullSync_proofs` strengthens `NothingForgotten` to every time somebody may still make the checkpoint: `Completes(items,
time)` says that `items` are all that is missing up to `time`. A pull that has asked completes with nothing, up to the
checkpoint it read; its answer completes up to the time it was given; the batch under way completes with what it still has
to do. All of it survives a change at the HCM because a new balance is younger than every time that is past (`Ages`), and
survives the steps of other pulls because what is kept stays kept (`Grows`). For `ReconcileCursor` the module adds that a run writes
rows that exist, and that a repair, with an old answer too, only makes `newest` grow. `CompletedIsStored` is about the rows
themselves: `PullInv` has it of `newest` (`CompletedWasStored`), and without repairs the two are the same (`RowsAreNewest`), since
a batch writes only what is newer than the row (`RowsWritten`). From that lemma `BatchesNeverGoBack` follows too. That a page has at most `BatchSize` rows
(`PageSize`) holds because its rows differ in how many selected rows are before them, a number below `BatchSize`.

`ApiInv` in `IdempotentApi_proofs` rests on two arguments: a call on a request names a version, which its effect raises
for good (`EffectRaisesVersion`); and a call that took effect has left a row under its key, which is never deleted, or was
cut off (`EffectsHaveRows`). The answer of a row belongs to a call that happened (`RowsHaveEffects`).

`ApiImplementsHandlers` needs of `ApiInv` that a call names what exists (`CallsAreWellFormed`): the effect of a call is then
a disjunct of `Handler`, with a version the request has had, and every other step of the controllers leaves the tables alone.

The breaker's invariant is `ClosedBelowThreshold` and its type: an OPEN or HALF_OPEN breaker closes only by resetting the count,
and a probe that fails finds the count at the threshold still.

### Hours

`HourSums` proves what the models' sums are, without an induction theorem: if a statement about the sums over the subsets of a
finite set were false of some, it would be false of a smallest one (`SmallestSet`, from the well-foundedness of strict
inclusion on a finite set), and one step of the recursion refutes that. Sums do not depend on the order of choice (`SumRemove`, `SumAdd`), split
over disjoint sets, grow with the set, and are carried along an injection (`SumInjective`). `HoursSum` says that the queries of the models, written
with `MapThenSumSet`, are such sums. `Request` need not be finite for this; that only finitely many requests exist at any
time is part of the invariants (`HoursDefined`).

`NoOverbooking` is inductive once the holds can be summed: to the hours a handler is one of two things (`BooksOrReleases`), it books
a new request with hours that were available, or it moves at most one hold from ACTIVE to RELEASED.

With the sweep running, a step is one of three kinds (`StepKinds`): a `BookingStep` confirms nothing and books or releases, a `PostStep`
turns an ACTIVE hold into used hours, a `CancelStep` refunds hours that were taken. All proofs about hours go by these kinds. `LedgerInv` is the
inductive invariant: holds and requests come together (`HoldsHaveRequests`), only hours that were taken are COMPLETED or
cancelled (`DoneIsTaken`), the used hours of a projection are those of the CONVERTED holds that were not refunded
(`ProjectionIsTaken`), and `NoOverbooking`. `BooksMatchOutbox` follows since those requests are the COMPLETED posts less the COMPLETED
cancellations, one of each for a request. `HcmInv` says the same of the other side: what the HCM has used is the sum of the deductions in force (`HcmIsDeducted`).
For `OffersNoTakenHours` every such deduction is found in ReadyOn: as a hold, in the projection, or among the orphans.
TLC checked `LedgerInv` on the instance of `outbox_faults` before it was proved.

`ProcessorLedger` maps each kind of step to the ledger: booking is `Reserve`, releasing `Release`, a post `Take`, a refund `Refund`, and everything
else a stutter. Free hours in the ledger are the projected balance less the holds, by `LedgerInv`, so that the check of
`createRequest` is the guard of `Reserve`.

`OverbookedIsFlagged` says that every account is sound: its projection covers its holds or all requests that rely on it are
flagged. `SoundNext` follows one account through a step, on top of `SyncInv` and `HoursDefined`. Of the steps that `StepKinds`
names, none takes hours from an account that is not covered: a creation needs hours that are available, and a confirmed post
moves hours from a hold to the projection, of a request that waits and is therefore not flagged. Flags stay as long as the
hold (`FlagsRemain`, `StaysFlagged`). Reports about other accounts do not touch this one (`OtherAccount`). A report about it
that is looked at makes it sound (`LookedAt`): it compares the holds with what it has written, or flags them all, or writes the
first projection, which has no holds (`NothingHeld`). What remains are the two handlers of `WritesUnseen`; batches never
run them, hence `OverbookingIsFlagged`.

Model-checked only: liveness, which is out of the prover's reach (`EveryPostSettles`, `EveryRefundSettles`, `ProjectionsConverge`,
`FirstRowsConverge`, `PullsDeliver`, `OutageEnds`). Every invariant and every action property that a run checks is stated by a
theorem. Four theorems have a hypothesis on the constants (`AnswerHasReference`, `Channels`) and `ProcessorStrandsNothing` has
`crashes = 0`: they leave out the cases in which the code does not have the property, and section 5 says what happens there.

## 5. Where code and documents differ

Shown by a run:

1. `outbox_stranded` – after a crash, PROCESSING entries are never claimed again (`outbox.repository.ts:47`; TRD.md:2340).
2. `outbox_orphan` – cancelling during the call leaves a deduction behind (`outbox.processor.ts:85`; README.md:96, TRD.md:1944).
3. `outbox_field_names` – the server answers `reference_id`, the sweep reads `hcm_reference_id` (`mock-hcm-server/server.ts:216`; TRD.md:2491 maps one to the other).

Seen while modelling, without a run of their own:

* APPROVED goes to CANCELLED (`state-machine.ts:15`), which TRD.md:1561 excludes and `isTerminalStatus` suggests against.
* Flagging moves PENDING_APPROVAL and APPROVED_PENDING_HCM to RECONCILIATION_REQUIRED without the gate README.md:111 calls
  the only one, and keeps the hold ACTIVE, against the invariant of TRD.md:1526.
* `singleBalanceUpdate` does not look at the holds; README.md:352 says they are flagged when the balance drops.
* A last try that ends in a broken connection sets FAILED_HCM and releases the hold (`outbox.processor.ts:175`), and the HCM has
  deducted or does so later; TRD.md:1408 defines FAILED_HCM as rejected by the HCM.
* With a post under way, reconciliation sees no drift (it counts the pending hours in) and yet copies the HCM's used hours;
  the confirmation adds them again, until the next repair (TRD.md:2924).
* `markForRetry` puts back to PENDING an entry that a cancellation failed meanwhile; the next pre-check drops it.
* In HALF_OPEN the breaker lets every caller through (README.md:127, TRD.md:2444: one), and a late success closes it during
  the cooldown.
* Auto-repair does not compare versions (`reconciliation.service.ts:124`; TRD.md:2925 says an older answer is skipped): with
  overlapping runs an older balance may come back, until the next run.
* The answer of a call is stored in a second transaction (`employee-request.controller.ts:39`): after a crash between the two,
  a repeated creation makes a second request if the dates allow it (TRD.md:1325).
* The checkpoint passes the failed items of a pull of which others were stored (`batch-sync.service.ts:221`); TRD.md:2748 keeps
  the old one only if nothing was processed, "don't advance past failures". No later pull asks for them; reconciliation does.
* Pulled items have no location, and `processItem` takes HQ (`batch-sync.service.ts:104`): for an employee elsewhere they
  fail at every pull.
* A page of reconciliation may end within an employee's rows and the cursor is an employee (`balance.repository.ts:141`): the rest
  of the rows is skipped in every cycle, where TRD.md:2777 goes round all.
* A pushed batch that was cut short by a crash stays PROCESSING, and sent again it gets 409 (`batch-sync.service.ts:55`).
* A balance that changes in the very millisecond of an answer's checkpoint is not asked for by later pulls
  (`mock-hcm-server/server.ts:293`). In the model no change shares its time with an answer.
* `manager_id` is never written, so that the list of a manager's pending requests is empty.

## 6. Not modelled

The in-memory test adapter; audit log, health endpoint, filters and validation, whose results nothing reads; start-up and
migrations as processes (their constraints are in the models); list endpoints and their pagination; admin endpoints of
the HCM server; the idempotency keys of the integration controller; `reset()` of the breaker and `cleanup()` of the keys,
which nothing but tests calls. Two processes on one database are not modelled: the program runs as one.

## 7. Plan

Done: the modules of section 2, with proofs of every safety property the runs check. What could follow:

1. Amounts and the cursor in one module, so that drift above the threshold is met on the walk.
2. The idempotency keys of `singleBalanceUpdate`, beside those of the request API.
