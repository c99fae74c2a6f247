------------------------- MODULE OutboxLedger_proofs -------------------------
(***************************************************************************)
(* Proofs about the hours of OutboxProcessor: what the holds reserve, what *)
(* the projections say is used, what the HCM has deducted, and that all of *)
(* them keep one ledger, for every set of requests and every bound.        *)
(*                                                                         *)
(* A step of the exchange is one of three kinds to the hours: it books or  *)
(* releases a hold, it confirms a post, or it confirms a cancellation.     *)
(***************************************************************************)
EXTENDS OutboxProcessor_proofs

-----------------------------------------------------------------------------
(***************************************************************************)
(* The inductive invariant.                                                *)
(***************************************************************************)

\* A hold and its request come together, and finitely many of them have come.
HoldsHaveRequests ==
  /\ IsFiniteSet(Existing)
  /\ \A r \in Request : hold[r] = "NONE" <=> ~ Exists(r)

\* Only hours that were taken are confirmed, and only those are cancelled at the
\* HCM.
DoneIsTaken ==
  \A i \in DOMAIN outbox :
    outbox[i].status = "COMPLETED" \/ outbox[i].action = "CANCEL_TIME_OFF" =>
      hold[outbox[i].request] = "CONVERTED"

\* The requests whose hours are part of used_balance.
TakenBy(a) ==
  { r \in Request :
      hold[r] = "CONVERTED" /\ request[r].account = a /\ ~ CancelCompleted(r) }

\* The projection has taken the hours of just these.
ProjectionIsTaken ==
  \A a \in Account : balance[a] # NoProjection =>
    /\ balance[a].used = SumFunctionOnSet(RequestHours, TakenBy(a))
    /\ balance[a].projected = balance[a].total - balance[a].used

LedgerInv ==
  HoldsHaveRequests /\ DoneIsTaken /\ ProjectionIsTaken /\ NoOverbooking

-----------------------------------------------------------------------------
(***************************************************************************)
(* The kinds of steps.                                                     *)
(***************************************************************************)

\* Entries stay what they are for; those of the set E become COMPLETED.
Completes(E) ==
  /\ DOMAIN outbox' = DOMAIN outbox
  /\ \A j \in E : j \in DOMAIN outbox /\ outbox[j].status # "COMPLETED"
  /\ \A j \in DOMAIN outbox :
       /\ outbox'[j].request = outbox[j].request
       /\ outbox'[j].action = outbox[j].action
       /\ outbox'[j].reference = outbox[j].reference
       /\ outbox'[j].status = "COMPLETED" <=>
            outbox[j].status = "COMPLETED" \/ j \in E

\* Nothing is confirmed; a cancellation that is new is of hours that were taken.
ConfirmsNothing ==
  /\ DOMAIN outbox \subseteq DOMAIN outbox'
  /\ \A j \in DOMAIN outbox :
       /\ outbox'[j].request = outbox[j].request
       /\ outbox'[j].action = outbox[j].action
       /\ outbox'[j].reference = outbox[j].reference
       /\ outbox'[j].status = "COMPLETED" <=> outbox[j].status = "COMPLETED"
  /\ \A j \in DOMAIN outbox' \ DOMAIN outbox :
       /\ outbox'[j].status # "COMPLETED"
       /\ outbox'[j].action = "CANCEL_TIME_OFF" =>
            hold'[outbox'[j].request] = "CONVERTED"

BookingStep == ConfirmsNothing /\ BooksOrReleases /\ UNCHANGED balance

PostStep(i) ==
  /\ i \in DOMAIN outbox
  /\ i \in answered
  /\ outbox[i].action = "POST_TIME_OFF"
  /\ hold[outbox[i].request] = "ACTIVE"
  /\ Settles(i, "APPROVED")
  /\ Completes({i})
  /\ ApplyDeduction(i)

CancelStep(i) ==
  /\ i \in DOMAIN outbox
  /\ i \in answered
  /\ outbox[i].action = "CANCEL_TIME_OFF"
  /\ Completes({i})
  /\ ApplyDeduction(i)
  /\ UNCHANGED <<request, hold>>

\* A handler queues no entry that is done, and cancels at the HCM only what has
\* become part of the balance.
LEMMA HandlerConfirmsNothing ==
  ASSUME ProcessorTypeOK, ServerInv, Handler
  PROVE  ConfirmsNothing
<1>1. TypeOK /\ outbox \in Seq(OutboxRow)
  BY DEF ProcessorTypeOK, TypeOK
<1>2. ASSUME NEW j \in DOMAIN outbox' \ DOMAIN outbox
      PROVE  /\ outbox'[j].status # "COMPLETED"
             /\ outbox'[j].action = "CANCEL_TIME_OFF" =>
                  hold'[outbox'[j].request] = "CONVERTED"
  <2>1. ASSUME NEW e, outbox' = Append(outbox, e)
        PROVE  outbox'[j] = e
    BY <1>1, <2>1
  <2>2. \A r \in Request : outbox' # CancelByRequestId(r) /\ outbox' # outbox
    BY DEF CancelByRequestId, Marked
  <2>3. ASSUME NEW r \in Request, NEW v, ApproveRequest(r, v)
        PROVE  outbox'[j].status = "PENDING" /\ outbox'[j].action = "POST_TIME_OFF"
    BY <2>1, <2>3 DEF ApproveRequest, OutboxEntry
  <2>4. ASSUME NEW r \in Request, NEW v, CancelRequest(r, v)
        PROVE  outbox'[j].status = "PENDING" /\ hold'[outbox'[j].request] = "CONVERTED"
    <3>1. /\ request[r].status = "APPROVED"
          /\ outbox' = Append(outbox,
               OutboxEntry(r, "CANCEL_TIME_OFF", request[r].reference))
      BY <2>2, <2>4 DEF CancelRequest
    <3>2. outbox'[j].status = "PENDING" /\ outbox'[j].request = r
      BY <2>1, <3>1 DEF OutboxEntry
    <3>3. hold[r] = "CONVERTED"
      BY <3>1 DEF ServerInv, ApprovedIsDeducted
    <3>4. "RELEASED" \in HoldStatus
      BY DEF HoldStatus
    <3>5. hold'[r] = hold[r]
      BY <1>1, <2>4, <3>3, <3>4, MovedHold DEF CancelRequest, ReleaseHold
    <3> QED
      BY <3>2, <3>3, <3>5
  <2> QED
    BY <2>2, <2>3, <2>4 DEF Handler, CreateRequest, RejectRequest
<1> QED
  BY <1>1, <1>2, HandlerEntries DEF ConfirmsNothing

\* Marking entries that are not done confirms nothing.
LEMMA MarkedConfirmsNothing ==
  ASSUME outbox \in Seq(OutboxRow), NEW E, NEW s \in {"PROCESSING", "FAILED"},
         outbox' = Marked(E, s), \A i \in E : outbox[i].status # "COMPLETED"
  PROVE  ConfirmsNothing
BY MarkedOutbox DEF ConfirmsNothing, OutboxStatus

\* Neither does leaving them alone.
LEMMA SameOutboxConfirmsNothing ==
  ASSUME UNCHANGED outbox
  PROVE  ConfirmsNothing
BY DEF ConfirmsNothing

LEMMA MarkedCompletes ==
  ASSUME outbox \in Seq(OutboxRow), NEW i \in DOMAIN outbox,
         outbox' = Marked({i}, "COMPLETED"), outbox[i].status # "COMPLETED"
  PROVE  Completes({i})
<1>1. "COMPLETED" \in OutboxStatus
  BY DEF OutboxStatus
<1> QED
  BY <1>1, MarkedOutbox DEF Completes

\* The sweep.
LEMMA SweepKinds ==
  ASSUME ExchangeInv, WaitingHasHold, Sweep
  PROVE  \/ BookingStep
         \/ PostStep(Current)
         \/ CancelStep(Current)
<1> USE DEF ExchangeInv
<1>1. outbox \in Seq(OutboxRow)
  BY DEF ProcessorTypeOK, TypeOK
<1>2. ASSUME call # "none" \/ Running
      PROVE  Current \in DOMAIN outbox /\ outbox[Current].status # "COMPLETED"
  BY <1>2, CallHasEntry DEF SweepInv
<1>3. ASSUME UNCHANGED <<request, hold, balance>>, ConfirmsNothing
      PROVE  BookingStep
  BY <1>3, UnchangedHolds DEF BookingStep
<1>4. ASSUME UNCHANGED <<request, hold, balance>>,
             outbox' = Marked({Current}, "FAILED"), call # "none" \/ Running
      PROVE  BookingStep
  BY <1>1, <1>2, <1>3, <1>4, MarkedConfirmsNothing
<1>5. CASE ClaimPendingEntries
  BY <1>1, <1>3, <1>5, MarkedConfirmsNothing DEF ClaimPendingEntries, Pending
<1>6. CASE SkipEntry
  BY <1>4, <1>6 DEF SkipEntry
<1>7. CASE SendEntry
  BY <1>3, <1>7, SameOutboxConfirmsNothing DEF SendEntry, tables
<1>8. CASE ConfirmPost
  <2>1. /\ Current \in DOMAIN outbox
        /\ Settles(Current, "APPROVED")
    BY <1>8, ConfirmPostSettles
  <2>2. /\ Current \in answered
        /\ outbox[Current].action = "POST_TIME_OFF"
        /\ ApplyDeduction(Current)
        /\ outbox' = Marked({Current}, "COMPLETED")
        /\ call # "none"
    BY <1>8 DEF ConfirmPost, SweepInv
  <2>3. hold[outbox[Current].request] = "ACTIVE"
    <3>1. outbox[Current].request \in Request
      BY <2>1, EntryFacts
    <3> QED
      BY <2>1, <3>1 DEF Settles, WaitingHasHold
  <2>4. Completes({Current})
    BY <1>1, <1>2, <2>2, MarkedCompletes
  <2> QED
    BY <2>1, <2>2, <2>3, <2>4 DEF PostStep
<1>9. CASE DropPost
  BY <1>4, <1>9 DEF DropPost
<1>10. CASE ConfirmCancel
  <2>1. /\ Current \in answered
        /\ outbox[Current].action = "CANCEL_TIME_OFF"
        /\ ApplyDeduction(Current)
        /\ outbox' = Marked({Current}, "COMPLETED")
        /\ call # "none"
        /\ UNCHANGED <<request, hold>>
    BY <1>10 DEF ConfirmCancel, SweepInv
  <2>2. Current \in DOMAIN outbox /\ Completes({Current})
    BY <1>1, <1>2, <2>1, MarkedCompletes
  <2> QED
    BY <2>1, <2>2 DEF CancelStep
<1>11. CASE RetryEntry
  <2> DEFINE i == Current
  <2>1. i \in DOMAIN outbox /\ outbox[i].status # "COMPLETED"
    BY <1>2, <1>11 DEF RetryEntry, FailedTransiently
  <2>2. /\ outbox' = [outbox EXCEPT ![i].status = "PENDING",
                                    ![i].retryCount = @ + 1]
        /\ UNCHANGED <<request, hold, balance>>
    BY <1>11 DEF RetryEntry
  <2> HIDE DEF i
  <2>3. outbox[i] \in OutboxRow
    BY <1>1, <2>1
  <2>4. ConfirmsNothing
    BY <1>1, <2>1, <2>2, <2>3 DEF ConfirmsNothing, OutboxRow
  <2> QED
    BY <1>3, <2>2, <2>4
<1>12. CASE GiveUpEntry
  <2>1. /\ outbox' = Marked({Current}, "FAILED")
        /\ call # "none"
        /\ UNCHANGED balance
    BY <1>12 DEF GiveUpEntry, FailedTransiently
  <2>2. CASE UNCHANGED <<request, hold>>
    BY <1>4, <2>1, <2>2
  <2>3. CASE Settles(Current, "FAILED_HCM")
    <3>1. ConfirmsNothing
      BY <1>1, <1>2, <2>1, MarkedConfirmsNothing
    <3>2. Exists(outbox[Current].request) /\ outbox[Current].request \in Request
      BY <1>2, <2>1, EntryFacts
    <3>3. ReleasesHolds
      BY <2>3, <3>2 DEF Settles, ReleasesHolds, KeepsHours, Exists
    <3> QED
      BY <2>1, <3>1, <3>3 DEF BookingStep, BooksOrReleases
  <2> QED
    BY <1>12, <2>2, <2>3, GiveUpSettles
<1> QED
  BY <1>5, <1>6, <1>7, <1>8, <1>9, <1>10, <1>11, <1>12 DEF Sweep

\* Every step.
LEMMA StepKinds ==
  ASSUME ExchangeInv, WaitingHasHold, [ProcessorNext]_vars
  PROVE  BookingStep \/ \E i \in DOMAIN outbox : PostStep(i) \/ CancelStep(i)
<1>1. CASE ApiCall
  BY <1>1, HandlerConfirmsNothing, HandlerHours
     DEF ApiCall, ExchangeInv, ProcessorTypeOK, BookingStep
<1>2. CASE Sweep
  BY <1>2, SweepKinds DEF PostStep, CancelStep
<1>3. CASE UNCHANGED tables
  BY <1>3, UnchangedHolds, SameOutboxConfirmsNothing DEF tables, BookingStep
<1> QED
  BY <1>1, <1>2, <1>3 DEF ProcessorNext, Network, CallAnswered, CallDisconnected,
                          LateCall, Crash, vars

-----------------------------------------------------------------------------
(***************************************************************************)
(* What a step does to the holds and to the hours that are taken.          *)
(***************************************************************************)

\* RequestHours and HoursDefined are what the lemmas about sums want.
LEMMA LedgerHours ==
  ASSUME HoldsHaveRequests
  PROVE  HoursDefined
BY DEF HoldsHaveRequests, HoursDefined

\* Whoever has an entry has a request, and it stays.
LEMMA CompletedCancels ==
  ASSUME ProcessorTypeOK, TableInv, DoneIsTaken,
         ConfirmsNothing \/ \E i \in DOMAIN outbox : PostStep(i),
         NEW r \in Request
  PROVE  CancelCompleted(r)' = CancelCompleted(r)
<1>1. CASE ConfirmsNothing
  BY <1>1 DEF ConfirmsNothing, CancelCompleted
<1>2. ASSUME NEW i \in DOMAIN outbox, PostStep(i)
      PROVE  CancelCompleted(r)' = CancelCompleted(r)
  BY <1>2 DEF PostStep, Completes, CancelCompleted
<1> QED
  BY <1>1, <1>2

LEMMA BookingStepHolds ==
  ASSUME ProcessorTypeOK, TableInv, LedgerInv, BookingStep
  PROVE  /\ HoldsHaveRequests'
         /\ DoneIsTaken'
         /\ KeepsHours
         /\ \A a \in Account : TakenBy(a)' = TakenBy(a)
<1> USE DEF LedgerInv
<1>1. TypeOK /\ HoursDefined
  BY LedgerHours DEF ProcessorTypeOK
<1>2. /\ KeepsHours
      /\ IsFiniteSet(Existing')
      /\ \A r \in Request : hold'[r] = "NONE" <=> ~ Exists(r)'
      /\ \A r \in Request : hold'[r] = "CONVERTED" <=> hold[r] = "CONVERTED"
  <2>1. CASE ReleasesHolds
    <3>1. KeepsHours /\ HoursDefined'
      BY <1>1, <2>1, ReleasedHolds
    <3> QED
      BY <2>1, <3>1
         DEF HoldsHaveRequests, HoursDefined, ReleasesHolds, KeepsHours
  <2>2. ASSUME NEW r \in Request, NEW a \in Account, NEW h \in Hours,
               BooksHours(r, a, h)
        PROVE  /\ KeepsHours
               /\ IsFiniteSet(Existing')
               /\ \A q \in Request : hold'[q] = "NONE" <=> ~ Exists(q)'
               /\ \A q \in Request : hold'[q] = "CONVERTED" <=> hold[q] = "CONVERTED"
    <3>1. KeepsHours /\ HoursDefined'
      BY <1>1, <2>2, BookedHolds
    <3> QED
      BY <2>2, <3>1 DEF HoldsHaveRequests, HoursDefined, BooksHours, Exists
  <2> QED
    BY <2>1, <2>2 DEF BookingStep, BooksOrReleases
<1>3. HoldsHaveRequests'
  BY <1>2 DEF HoldsHaveRequests
<1>4. DoneIsTaken'
  <2>1. \A i \in DOMAIN outbox : outbox[i].request \in Request
    BY EntryFacts
  <2> QED
    BY <1>2, <2>1 DEF DoneIsTaken, BookingStep, ConfirmsNothing
<1>5. ASSUME NEW a \in Account
      PROVE  TakenBy(a)' = TakenBy(a)
  <2>1. \A r \in Request : hold[r] = "CONVERTED" => Exists(r)
    BY DEF HoldsHaveRequests
  <2>2. \A r \in Request : CancelCompleted(r)' = CancelCompleted(r)
    BY CompletedCancels DEF BookingStep
  <2> QED
    BY <1>2, <2>1, <2>2 DEF TakenBy, KeepsHours
<1> QED
  BY <1>2, <1>3, <1>4, <1>5

LEMMA PostStepHolds ==
  ASSUME ProcessorTypeOK, TableInv, LedgerInv, NEW i \in DOMAIN outbox, PostStep(i),
         NEW r, r = outbox[i].request, NEW a, a = AccountOf(i)
  PROVE  /\ HoldsHaveRequests'
         /\ DoneIsTaken'
         /\ KeepsHours
         /\ r \in ActiveHolds(a) /\ r \in Existing
         /\ ActiveHolds(a)' = ActiveHolds(a) \ {r}
         /\ r \notin TakenBy(a)
         /\ TakenBy(a)' = TakenBy(a) \union {r}
         /\ \A b \in Account : b # a =>
              ActiveHolds(b)' = ActiveHolds(b) /\ TakenBy(b)' = TakenBy(b)
<1>1. r \in Request /\ Exists(r) /\ a = request[r].account
  BY EntryFacts DEF AccountOf
<1>2. /\ hold[r] = "ACTIVE" /\ hold'[r] = "CONVERTED"
      /\ Exists(r)'
      /\ request'[r].account = request[r].account
      /\ request'[r].hours = request[r].hours
      /\ \A q \in Request : q # r => request'[q] = request[q] /\ hold'[q] = hold[q]
  BY DEF PostStep, Settles, Exists
<1>3. /\ outbox[i].action = "POST_TIME_OFF"
      /\ Completes({i})
      /\ \A j \in DOMAIN outbox : outbox[j].request \in Request
  BY EntryFacts DEF PostStep
<1>4. Existing' = Existing /\ KeepsHours /\ r \in Existing
  BY <1>1, <1>2 DEF Existing, Exists, KeepsHours
<1>5. HoldsHaveRequests'
  BY <1>1, <1>2, <1>4 DEF LedgerInv, HoldsHaveRequests, Exists
<1>6. DoneIsTaken'
  BY <1>2, <1>3 DEF LedgerInv, DoneIsTaken, Completes
<1>7. \A q \in Request : CancelCompleted(q)' = CancelCompleted(q)
  BY CompletedCancels DEF LedgerInv
<1>8. ~ CancelCompleted(r)
  BY <1>2 DEF LedgerInv, DoneIsTaken, CancelCompleted
<1>9. /\ r \in ActiveHolds(a)
      /\ ActiveHolds(a)' = ActiveHolds(a) \ {r}
      /\ \A b \in Account : b # a => ActiveHolds(b)' = ActiveHolds(b)
  BY <1>1, <1>2 DEF ActiveHolds
<1>10. /\ r \notin TakenBy(a)
       /\ TakenBy(a)' = TakenBy(a) \union {r}
       /\ \A b \in Account : b # a => TakenBy(b)' = TakenBy(b)
  BY <1>1, <1>2, <1>7, <1>8 DEF TakenBy
<1> QED
  BY <1>4, <1>5, <1>6, <1>9, <1>10

LEMMA CancelStepHolds ==
  ASSUME ProcessorTypeOK, TableInv, LedgerInv, NEW i \in DOMAIN outbox, CancelStep(i),
         NEW r, r = outbox[i].request, NEW a, a = AccountOf(i)
  PROVE  /\ HoldsHaveRequests'
         /\ DoneIsTaken'
         /\ KeepsHours
         /\ r \in TakenBy(a) /\ r \in Existing
         /\ TakenBy(a)' = TakenBy(a) \ {r}
         /\ CancelCompleted(r)'
         /\ \A b \in Account : ActiveHolds(b)' = ActiveHolds(b)
         /\ \A b \in Account : b # a => TakenBy(b)' = TakenBy(b)
<1>1. r \in Request /\ Exists(r) /\ a = request[r].account
  BY EntryFacts DEF AccountOf
<1>2. /\ outbox[i].action = "CANCEL_TIME_OFF"
      /\ outbox[i].status # "COMPLETED"
      /\ Completes({i})
      /\ UNCHANGED <<request, hold>>
      /\ \A j \in DOMAIN outbox : outbox[j].request \in Request
  BY EntryFacts DEF CancelStep, Completes
<1>3. hold[r] = "CONVERTED"
  BY <1>2 DEF LedgerInv, DoneIsTaken
<1>4. ~ CancelCompleted(r) /\ CancelCompleted(r)'
  BY <1>2 DEF CancelCompleted, TableInv, OneCancel, Completes
<1>5. \A q \in Request : q # r => CancelCompleted(q)' = CancelCompleted(q)
  BY <1>2 DEF CancelCompleted, Completes
<1>6. DoneIsTaken'
  BY <1>2 DEF LedgerInv, DoneIsTaken, Completes
<1>7. /\ HoldsHaveRequests'
      /\ KeepsHours
      /\ r \in Existing
      /\ \A b \in Account : ActiveHolds(b)' = ActiveHolds(b)
  BY <1>1, <1>2
     DEF LedgerInv, HoldsHaveRequests, KeepsHours, Existing, Exists, ActiveHolds
<1>8. /\ r \in TakenBy(a)
      /\ TakenBy(a)' = TakenBy(a) \ {r}
      /\ \A b \in Account : b # a => TakenBy(b)' = TakenBy(b)
  BY <1>1, <1>2, <1>3, <1>4, <1>5 DEF TakenBy
<1> QED
  BY <1>4, <1>6, <1>7, <1>8

\* What the transaction of a confirmation writes to the projection.
LEMMA AppliedDeduction ==
  ASSUME ProcessorTypeOK, TableInv, NEW i \in DOMAIN outbox, ApplyDeduction(i),
         NEW a, a = AccountOf(i)
  PROVE  /\ a \in Account
         /\ balance[a] \in ProjectionRow
         /\ balance[a] # NoProjection
         /\ HoursOf(i) \in Nat
         /\ ConfirmedHours(i) \in Int
         /\ balance'[a].total = balance[a].total
         /\ balance'[a].used = balance[a].used + ConfirmedHours(i)
         /\ balance'[a].projected = balance[a].projected - ConfirmedHours(i)
         /\ \A b \in Account : b # a => balance'[b] = balance[b]
         /\ \A b \in Account : balance'[b] # NoProjection <=> balance[b] # NoProjection
<1>1. a \in Account /\ HoursOf(i) \in Nat /\ balance[a] \in ProjectionRow
  BY EntryFacts
<1>2. ConfirmedHours(i) \in Int
  BY <1>1 DEF ConfirmedHours
<1>3. balance' = [balance EXCEPT ![a] = Deducted(a, ConfirmedHours(i))]
  BY DEF ApplyDeduction
<1>4. DOMAIN balance = Account
  BY DEF ProcessorTypeOK, TypeOK
<1>5. balance'[a] = Deducted(a, ConfirmedHours(i))
  BY <1>1, <1>3, <1>4
<1>6. /\ balance'[a].total = balance[a].total
      /\ balance'[a].used = balance[a].used + ConfirmedHours(i)
      /\ balance'[a].projected = balance[a].projected - ConfirmedHours(i)
  BY <1>1, <1>5 DEF Deducted, ProjectionRow
<1>7. \A b \in Account : b # a => balance'[b] = balance[b]
  BY <1>3, <1>4
<1>8. balance[a] # NoProjection
  BY <1>1, NullAssumption DEF NoProjection, ProjectionRow
<1>9. balance'[a] # NoProjection
  BY <1>1, <1>8, DeductedBalance
<1> QED
  BY <1>1, <1>2, <1>6, <1>7, <1>8, <1>9

-----------------------------------------------------------------------------
(***************************************************************************)
(* Holds and projections.                                                  *)
(***************************************************************************)

LEMMA TakenHours ==
  ASSUME TypeOK, HoldsHaveRequests, NEW a
  PROVE  /\ TakenBy(a) \in SUBSET Existing
         /\ IsFiniteSet(TakenBy(a))
         /\ SumFunctionOnSet(RequestHours, TakenBy(a)) \in Nat
<1>1. TakenBy(a) \in SUBSET Existing
  BY DEF TakenBy, Existing, HoldsHaveRequests
<1> QED
  BY <1>1, LedgerHours, ExistingHours

LEMMA LedgerBookingStep ==
  ASSUME ProcessorTypeOK, TypeOK', TableInv, LedgerInv, BookingStep
  PROVE  LedgerInv'
<1>1. TypeOK /\ HoursDefined /\ HoldsHaveRequests
  BY LedgerHours DEF LedgerInv, ProcessorTypeOK
<1>2. /\ HoldsHaveRequests'
      /\ DoneIsTaken'
      /\ KeepsHours
      /\ \A a \in Account : TakenBy(a)' = TakenBy(a)
  BY BookingStepHolds
<1>3. NoOverbooking'
  BY <1>1, BookingCovered DEF LedgerInv, BookingStep
<1>4. \A a \in Account : SumFunctionOnSet(RequestHours', TakenBy(a)')
                           = SumFunctionOnSet(RequestHours, TakenBy(a))
  BY <1>1, <1>2, TakenHours, KeptSum
<1>5. ProjectionIsTaken'
  BY <1>4 DEF LedgerInv, ProjectionIsTaken, BookingStep
<1> QED
  BY <1>2, <1>3, <1>5 DEF LedgerInv

LEMMA LedgerPostStep ==
  ASSUME ProcessorTypeOK, TypeOK', TableInv, LedgerInv,
         NEW i \in DOMAIN outbox, PostStep(i)
  PROVE  LedgerInv'
<1> DEFINE r == outbox[i].request
           a == AccountOf(i)
           h == HoursOf(i)
<1>1. TypeOK /\ HoursDefined /\ HoldsHaveRequests
  BY LedgerHours DEF LedgerInv, ProcessorTypeOK
<1>2. /\ HoldsHaveRequests'
      /\ DoneIsTaken'
      /\ KeepsHours
      /\ r \in ActiveHolds(a) /\ r \in Existing
  BY PostStepHolds
<1>3. PICK q, b : q = r /\ b = a
  OBVIOUS
<1>4. /\ ActiveHolds(b)' = ActiveHolds(b) \ {q}
      /\ q \notin TakenBy(b)
      /\ TakenBy(b)' = TakenBy(b) \union {q}
      /\ \A c \in Account : c # b =>
           ActiveHolds(c)' = ActiveHolds(c) /\ TakenBy(c)' = TakenBy(c)
  BY <1>3, PostStepHolds
<1>5. /\ b \in Account
      /\ balance[b] \in ProjectionRow
      /\ balance[b] # NoProjection
      /\ h \in Nat
      /\ balance'[b].total = balance[b].total
      /\ balance'[b].used = balance[b].used + h
      /\ balance'[b].projected = balance[b].projected - h
      /\ \A c \in Account : c # b => balance'[c] = balance[c]
      /\ \A c \in Account : balance'[c] # NoProjection <=> balance[c] # NoProjection
  BY <1>3, AppliedDeduction DEF PostStep, ConfirmedHours
<1>6. h = request[q].hours /\ q \in ActiveHolds(b) /\ q \in Existing
  BY <1>2, <1>3 DEF HoursOf
<1> HIDE DEF r, a, h
<1>7. HoursDefined'
  BY <1>2 DEF HoldsHaveRequests, HoursDefined
<1>8. ActiveHoldsTotal(b, {})' = ActiveHoldsTotal(b, {}) - h
  BY <1>1, <1>2, <1>4, <1>5, <1>6, <1>7, OneHoldLess
<1>9. \A c \in Account : c # b =>
        ActiveHoldsTotal(c, {})' <= ActiveHoldsTotal(c, {})
  BY <1>1, <1>2, <1>4, <1>7, FewerHolds
<1>10. NoOverbooking'
  <2>1. \A c \in Account :
          ActiveHoldsTotal(c, {}) \in Nat /\ ActiveHoldsTotal(c, {})' \in Nat
    BY <1>1, <1>7, ActiveTotal, ActiveTotalNext DEF ActiveTotals
  <2>2. \A c \in Account : balance[c] # NoProjection => balance[c].projected \in Nat
    BY <1>1 DEF TypeOK, ProjectionRow
  <2> QED
    BY <1>5, <1>8, <1>9, <2>1, <2>2 DEF LedgerInv, NoOverbooking
<1>11. SumFunctionOnSet(RequestHours', TakenBy(b)')
         = SumFunctionOnSet(RequestHours, TakenBy(b)) + h
  <2>1. TakenBy(b) \union {q} \in SUBSET Existing
    BY <1>1, <1>6, TakenHours
  <2>2. SumFunctionOnSet(RequestHours', TakenBy(b) \union {q})
          = SumFunctionOnSet(RequestHours, TakenBy(b) \union {q})
    BY <1>1, <1>2, <2>1, KeptSum
  <2>3. \A x \in TakenBy(b) \union {q} :
          RequestHours[x] \in Int /\ RequestHours[x] = request[x].hours
    BY <1>1, <2>1, ExistingHours
  <2>4. IsFiniteSet(TakenBy(b))
    BY <1>1, TakenHours
  <2>5. SumFunctionOnSet(RequestHours, TakenBy(b) \union {q})
          = SumFunctionOnSet(RequestHours, TakenBy(b)) + RequestHours[q]
    BY <1>4, <2>3, <2>4, SumAdd
  <2> QED
    BY <1>4, <1>6, <2>2, <2>3, <2>5
<1>12. \A c \in Account : c # b => SumFunctionOnSet(RequestHours', TakenBy(c)')
                                     = SumFunctionOnSet(RequestHours, TakenBy(c))
  BY <1>1, <1>2, <1>4, TakenHours, KeptSum
<1>13. ProjectionIsTaken'
  <2>1. balance[b].used \in Nat /\ balance[b].total \in Nat
    BY <1>5 DEF ProjectionRow
  <2>2. /\ balance'[b].used = SumFunctionOnSet(RequestHours', TakenBy(b)')
        /\ balance'[b].projected = balance'[b].total - balance'[b].used
    BY <1>5, <1>11, <2>1 DEF LedgerInv, ProjectionIsTaken
  <2> QED
    BY <1>5, <1>12, <2>2 DEF LedgerInv, ProjectionIsTaken
<1> QED
  BY <1>2, <1>10, <1>13 DEF LedgerInv

LEMMA LedgerCancelStep ==
  ASSUME ProcessorTypeOK, TypeOK', TableInv, LedgerInv,
         NEW i \in DOMAIN outbox, CancelStep(i)
  PROVE  LedgerInv'
<1> DEFINE r == outbox[i].request
           a == AccountOf(i)
           h == HoursOf(i)
<1>1. TypeOK /\ HoursDefined /\ HoldsHaveRequests
  BY LedgerHours DEF LedgerInv, ProcessorTypeOK
<1>2. PICK q, b : q = r /\ b = a
  OBVIOUS
<1>3. /\ HoldsHaveRequests'
      /\ DoneIsTaken'
      /\ KeepsHours
      /\ q \in TakenBy(b) /\ q \in Existing
      /\ TakenBy(b)' = TakenBy(b) \ {q}
      /\ \A c \in Account : ActiveHolds(c)' = ActiveHolds(c)
      /\ \A c \in Account : c # b => TakenBy(c)' = TakenBy(c)
  BY <1>2, CancelStepHolds
<1>4. /\ b \in Account
      /\ balance[b] \in ProjectionRow
      /\ balance[b] # NoProjection
      /\ h \in Nat
      /\ balance'[b].total = balance[b].total
      /\ balance'[b].used = balance[b].used - h
      /\ balance'[b].projected = balance[b].projected + h
      /\ \A c \in Account : c # b => balance'[c] = balance[c]
      /\ \A c \in Account : balance'[c] # NoProjection <=> balance[c] # NoProjection
  <2>1. ConfirmedHours(i) = - h
    BY DEF CancelStep, ConfirmedHours
  <2>2. /\ b \in Account
        /\ balance[b] \in ProjectionRow
        /\ balance[b] # NoProjection
        /\ h \in Nat
        /\ balance'[b].total = balance[b].total
        /\ balance'[b].used = balance[b].used + (- h)
        /\ balance'[b].projected = balance[b].projected - (- h)
        /\ \A c \in Account : c # b => balance'[c] = balance[c]
        /\ \A c \in Account : balance'[c] # NoProjection <=> balance[c] # NoProjection
    BY <1>2, <2>1, AppliedDeduction DEF CancelStep
  <2> HIDE DEF h
  <2> QED
    BY <2>2 DEF ProjectionRow
<1>5. h = request[q].hours
  BY <1>2 DEF HoursOf
<1> HIDE DEF r, a, h
<1>6. HoursDefined'
  BY <1>3 DEF HoldsHaveRequests, HoursDefined
<1>7. \A c \in Account : ActiveHoldsTotal(c, {})' <= ActiveHoldsTotal(c, {})
  BY <1>1, <1>3, <1>6, FewerHolds
<1>8. NoOverbooking'
  <2>1. \A c \in Account :
          ActiveHoldsTotal(c, {}) \in Nat /\ ActiveHoldsTotal(c, {})' \in Nat
    BY <1>1, <1>6, ActiveTotal, ActiveTotalNext DEF ActiveTotals
  <2>2. \A c \in Account : balance[c] # NoProjection => balance[c].projected \in Nat
    BY <1>1 DEF TypeOK, ProjectionRow
  <2> QED
    BY <1>4, <1>7, <2>1, <2>2 DEF LedgerInv, NoOverbooking
<1>9. SumFunctionOnSet(RequestHours, TakenBy(b))
        = h + SumFunctionOnSet(RequestHours', TakenBy(b)')
  <2>1. /\ TakenBy(b) \in SUBSET Existing /\ TakenBy(b) \ {q} \in SUBSET Existing
        /\ IsFiniteSet(TakenBy(b))
    BY <1>1, TakenHours
  <2>2. \A x \in TakenBy(b) :
          RequestHours[x] \in Int /\ RequestHours[x] = request[x].hours
    BY <1>1, <2>1, ExistingHours
  <2>3. SumFunctionOnSet(RequestHours, TakenBy(b))
          = RequestHours[q] + SumFunctionOnSet(RequestHours, TakenBy(b) \ {q})
    BY <1>3, <2>1, <2>2, SumRemove
  <2>4. SumFunctionOnSet(RequestHours', TakenBy(b) \ {q})
          = SumFunctionOnSet(RequestHours, TakenBy(b) \ {q})
    BY <1>1, <1>3, <2>1, KeptSum
  <2> QED
    BY <1>3, <1>5, <2>2, <2>3, <2>4
<1>10. \A c \in Account : c # b => SumFunctionOnSet(RequestHours', TakenBy(c)')
                                     = SumFunctionOnSet(RequestHours, TakenBy(c))
  BY <1>1, <1>3, TakenHours, KeptSum
<1>11. ProjectionIsTaken'
  <2>1. /\ balance[b].used \in Nat /\ balance[b].total \in Nat
        /\ SumFunctionOnSet(RequestHours', TakenBy(b)') \in Int
    <3>1. SumFunctionOnSet(RequestHours', TakenBy(b)')
            = SumFunctionOnSet(RequestHours, TakenBy(b) \ {q})
      BY <1>1, <1>3, TakenHours, KeptSum
    <3>2. TakenBy(b) \ {q} \in SUBSET Existing
      BY <1>1, TakenHours
    <3>3. SumFunctionOnSet(RequestHours, TakenBy(b) \ {q}) \in Nat
      BY <1>1, <3>2, ExistingHours
    <3> QED
      BY <1>4, <3>1, <3>3 DEF ProjectionRow
  <2>2. /\ balance'[b].used = SumFunctionOnSet(RequestHours', TakenBy(b)')
        /\ balance'[b].projected = balance'[b].total - balance'[b].used
    BY <1>4, <1>9, <2>1 DEF LedgerInv, ProjectionIsTaken
  <2> QED
    BY <1>4, <1>10, <2>2 DEF LedgerInv, ProjectionIsTaken
<1> QED
  BY <1>3, <1>8, <1>11 DEF LedgerInv

LEMMA LedgerStarts ==
  ASSUME Init, TypeOK
  PROVE  LedgerInv
<1>1. /\ Existing = {} /\ HoursDefined
      /\ hold = [r \in Request |-> "NONE"] /\ outbox = << >>
      /\ request = [r \in Request |-> NoRequest]
  BY InitHours DEF Init
<1>2. HoldsHaveRequests
  BY <1>1 DEF HoldsHaveRequests, HoursDefined, Exists
<1>3. DoneIsTaken
  BY <1>1 DEF DoneIsTaken
<1>4. ASSUME NEW a \in Account, balance[a] # NoProjection
      PROVE  /\ balance[a].used = SumFunctionOnSet(RequestHours, TakenBy(a))
             /\ balance[a].projected = balance[a].total - balance[a].used
  <2>1. PICK t \in Allowance : balance[a] = SyncedProjection(t, 0, 0)
    BY <1>4 DEF Init
  <2>2. /\ balance[a].used = 0 /\ balance[a].projected = balance[a].total - 0
    BY <2>1 DEF SyncedProjection
  <2>3. TakenBy(a) = {}
    BY <1>1 DEF TakenBy
  <2>4. SumFunctionOnSet(RequestHours, TakenBy(a)) = 0
    BY <2>3, SumEmpty
  <2> QED
    BY <2>2, <2>4
<1>5. ProjectionIsTaken
  BY <1>4 DEF ProjectionIsTaken
<1> QED
  BY <1>2, <1>3, <1>5, InitBooking DEF LedgerInv

LEMMA LedgerNextInv ==
  ASSUME ProcessorInv, ProcessorInv', LedgerInv, [ProcessorNext]_vars
  PROVE  LedgerInv'
<1>1. ExchangeInv /\ WaitingHasHold
  BY DEF ProcessorInv, HoldFollowsRequest, WaitingHasHold, IsHoldActiveStatus
<1>2. ProcessorTypeOK /\ TableInv /\ TypeOK'
  BY DEF ProcessorInv, ExchangeInv, ProcessorTypeOK
<1> QED
  BY <1>1, <1>2, StepKinds, LedgerBookingStep, LedgerPostStep, LedgerCancelStep

LEMMA LedgerInvariant == ProcessorSpec => []LedgerInv
<1>1. ProcessorInit /\ ProcessorInv => LedgerInv
  BY LedgerStarts DEF ProcessorInit, ProcessorInv, ExchangeInv, ProcessorTypeOK
<1>2. ProcessorInv /\ ProcessorInv' /\ LedgerInv /\ [ProcessorNext]_vars => LedgerInv'
  BY LedgerNextInv
<1> QED
  BY <1>1, <1>2, ProcessorInvariant, PTL DEF ProcessorSpec

\* Confirmations, failures, retries and crashes never leave an account with less in
\* its projection than its holds reserve: no CHECK constraint is ever at risk.
THEOREM ProcessorBooking == ProcessorSpec => []NoOverbooking
<1>1. LedgerInv => NoOverbooking
  BY DEF LedgerInv
<1> QED
  BY <1>1, LedgerInvariant, PTL

-----------------------------------------------------------------------------
(***************************************************************************)
(* Projections and the outbox.                                             *)
(***************************************************************************)

\* What every step leaves of the entries.
KeepsEntries ==
  /\ DOMAIN outbox \subseteq DOMAIN outbox'
  /\ \A j \in DOMAIN outbox :
       /\ outbox'[j].request = outbox[j].request
       /\ outbox'[j].action = outbox[j].action
       /\ outbox'[j].reference = outbox[j].reference
       /\ AccountOf(j)' = AccountOf(j)
       /\ HoursOf(j)' = HoursOf(j)

LEMMA StepKeepsEntries ==
  ASSUME ProcessorTypeOK, TableInv, LedgerInv,
         BookingStep \/ \E i \in DOMAIN outbox : PostStep(i) \/ CancelStep(i)
  PROVE  KeepsEntries /\ KeepsHours
<1>1. /\ DOMAIN outbox \subseteq DOMAIN outbox'
      /\ \A j \in DOMAIN outbox :
           /\ outbox'[j].request = outbox[j].request
           /\ outbox'[j].action = outbox[j].action
           /\ outbox'[j].reference = outbox[j].reference
  BY DEF BookingStep, ConfirmsNothing, PostStep, CancelStep, Completes
<1>2. KeepsHours
  BY BookingStepHolds, PostStepHolds, CancelStepHolds
<1>3. \A j \in DOMAIN outbox :
        outbox[j].request \in Request /\ Exists(outbox[j].request)
  BY EntryFacts
<1>4. \A j \in DOMAIN outbox : AccountOf(j)' = AccountOf(j) /\ HoursOf(j)' = HoursOf(j)
  BY <1>1, <1>2, <1>3 DEF AccountOf, HoursOf, KeepsHours
<1> QED
  BY <1>1, <1>2, <1>4 DEF KeepsEntries

CompletedOf(a) ==
  { i \in DOMAIN outbox : outbox[i].status = "COMPLETED" /\ AccountOf(i) = a }

\* What an entry takes from the projection once it is confirmed.
EntryHours == [i \in DOMAIN outbox |-> ConfirmedHours(i)]

ProjectionIsConfirmed ==
  \A a \in Account : balance[a] # NoProjection =>
    balance[a].used = SumFunctionOnSet(EntryHours, CompletedOf(a))

LEMMA EntriesFinite ==
  ASSUME ProcessorTypeOK, TableInv, NEW S \in SUBSET DOMAIN outbox
  PROVE  /\ IsFiniteSet(S)
         /\ \A i \in S : EntryHours[i] = ConfirmedHours(i) /\ EntryHours[i] \in Int
<1>1. outbox \in Seq(OutboxRow)
  BY DEF ProcessorTypeOK, TypeOK
<1>2. DOMAIN outbox = 1 .. Len(outbox) /\ Len(outbox) \in Nat
  BY <1>1
<1>3. IsFiniteSet(DOMAIN outbox)
  BY <1>2, FS_Interval
<1>4. IsFiniteSet(S)
  BY <1>3, FS_Subset
<1>5. \A i \in S : EntryHours[i] = ConfirmedHours(i)
  BY DEF EntryHours
<1>6. ASSUME NEW i \in S
      PROVE  ConfirmedHours(i) \in Int
  BY EntryFacts DEF ConfirmedHours
<1> QED
  BY <1>4, <1>5, <1>6

\* Adding an entry to those that are confirmed adds its hours.
LEMMA ConfirmedSums ==
  ASSUME ProcessorTypeOK, TableInv, KeepsEntries, NEW S \in SUBSET DOMAIN outbox
  PROVE  /\ SumFunctionOnSet(EntryHours', S) = SumFunctionOnSet(EntryHours, S)
         /\ \A i \in DOMAIN outbox \ S :
              SumFunctionOnSet(EntryHours', S \union {i})
                = SumFunctionOnSet(EntryHours, S) + ConfirmedHours(i)
<1>1. \A j \in DOMAIN outbox : EntryHours'[j] = EntryHours[j]
  <2>1. \A j \in DOMAIN outbox : EntryHours'[j] = ConfirmedHours(j)'
    BY DEF EntryHours, KeepsEntries
  <2>2. \A j \in DOMAIN outbox : EntryHours[j] = ConfirmedHours(j)
    BY DEF EntryHours
  <2>3. \A j \in DOMAIN outbox : ConfirmedHours(j)' = ConfirmedHours(j)
    BY DEF ConfirmedHours, KeepsEntries
  <2> QED
    BY <2>1, <2>2, <2>3
<1>2. ASSUME NEW T \in SUBSET DOMAIN outbox
      PROVE  SumFunctionOnSet(EntryHours', T) = SumFunctionOnSet(EntryHours, T)
  <2>1. IsFiniteSet(T)
    BY EntriesFinite
  <2> QED
    BY <1>1, <2>1, SumSame
<1>3. ASSUME NEW i \in DOMAIN outbox \ S
      PROVE  SumFunctionOnSet(EntryHours', S \union {i})
               = SumFunctionOnSet(EntryHours, S) + ConfirmedHours(i)
  <2>1. S \union {i} \in SUBSET DOMAIN outbox
    OBVIOUS
  <2>2. IsFiniteSet(S) /\ \A j \in S \union {i} :
          EntryHours[j] = ConfirmedHours(j) /\ EntryHours[j] \in Int
    BY <2>1, EntriesFinite
  <2>3. SumFunctionOnSet(EntryHours, S \union {i})
          = SumFunctionOnSet(EntryHours, S) + EntryHours[i]
    BY <2>2, SumAdd
  <2> QED
    BY <1>2, <2>1, <2>2, <2>3
<1> QED
  BY <1>2, <1>3

LEMMA ConfirmedStep ==
  ASSUME ProcessorTypeOK, TableInv, LedgerInv, ProjectionIsConfirmed,
         BookingStep \/ \E i \in DOMAIN outbox : PostStep(i) \/ CancelStep(i)
  PROVE  ProjectionIsConfirmed'
<1>1. KeepsEntries
  BY StepKeepsEntries
<1>2. \A a \in Account : CompletedOf(a) \in SUBSET DOMAIN outbox
  BY DEF CompletedOf
<1>3. CASE BookingStep
  <2>1. \A a \in Account : CompletedOf(a)' = CompletedOf(a)
    BY <1>1, <1>3 DEF CompletedOf, BookingStep, ConfirmsNothing, KeepsEntries
  <2>2. \A a \in Account : SumFunctionOnSet(EntryHours', CompletedOf(a)')
                             = SumFunctionOnSet(EntryHours, CompletedOf(a))
    BY <1>1, <1>2, <2>1, ConfirmedSums
  <2> QED
    BY <1>3, <2>2 DEF ProjectionIsConfirmed, BookingStep
<1>4. ASSUME NEW i \in DOMAIN outbox, PostStep(i) \/ CancelStep(i)
      PROVE  ProjectionIsConfirmed'
  <2>1. PICK b : b = AccountOf(i)
    OBVIOUS
  <2>2. /\ balance'[b].used = balance[b].used + ConfirmedHours(i)
        /\ balance[b] # NoProjection
        /\ b \in Account
        /\ \A c \in Account : c # b => balance'[c] = balance[c]
    BY <1>4, <2>1, AppliedDeduction DEF PostStep, CancelStep
  <2>3. Completes({i})
    BY <1>4 DEF PostStep, CancelStep
  <2>4. /\ CompletedOf(b)' = CompletedOf(b) \union {i}
        /\ i \notin CompletedOf(b)
        /\ \A c \in Account : c # b => CompletedOf(c)' = CompletedOf(c)
    BY <1>1, <2>1, <2>3 DEF CompletedOf, Completes, KeepsEntries
  <2>5. SumFunctionOnSet(EntryHours', CompletedOf(b)')
          = SumFunctionOnSet(EntryHours, CompletedOf(b)) + ConfirmedHours(i)
    BY <1>1, <1>2, <2>2, <2>4, ConfirmedSums
  <2>6. \A c \in Account : c # b =>
          SumFunctionOnSet(EntryHours', CompletedOf(c)')
            = SumFunctionOnSet(EntryHours, CompletedOf(c))
    BY <1>1, <1>2, <2>4, ConfirmedSums
  <2> QED
    BY <2>2, <2>5, <2>6 DEF ProjectionIsConfirmed
<1> QED
  BY <1>3, <1>4

\* The sum as BooksMatchOutbox writes it.
LEMMA ConfirmedSum ==
  ASSUME ProcessorTypeOK, TableInv, NEW S \in SUBSET DOMAIN outbox
  PROVE  MapThenSumSet(ConfirmedHours, S) = SumFunctionOnSet(EntryHours, S)
<1> DEFINE IsIter(g) == g = [T \in SUBSET S |->
             IF T = {} THEN 0 ELSE ConfirmedHours(Chosen(T)) + g[T \ {Chosen(T)}]]
<1>1. MapThenSumSet(ConfirmedHours, S) = (CHOOSE g : IsIter(g))[S]
  BY Zenon DEF MapThenSumSet, MapThenFoldSet, Chosen
<1>2. IsFiniteSet(S) /\ \A i \in S : EntryHours[i] = ConfirmedHours(i)
  BY EntriesFinite
<1>3. \A T \in SUBSET S : T # {} => EntryHours[Chosen(T)] = ConfirmedHours(Chosen(T))
  BY <1>2, ChosenElement
<1>4. ASSUME NEW g
      PROVE  IsIter(g) <=> IsSumFunction(g, EntryHours, S)
  <2>1. \A T \in SUBSET S :
          (IF T = {} THEN 0 ELSE EntryHours[Chosen(T)] + g[T \ {Chosen(T)}])
            = (IF T = {} THEN 0 ELSE ConfirmedHours(Chosen(T)) + g[T \ {Chosen(T)}])
    BY <1>3
  <2> QED
    BY <2>1 DEF IsSumFunction
<1> DEFINE k == CHOOSE g : IsIter(g)
<1>5. \E g : IsIter(g)
  <2> HIDE DEF IsIter
  <2> QED
    BY <1>2, <1>4, SumFunctionExists
<1>6. IsIter(k)
  <2> HIDE DEF IsIter
  <2> QED
    BY <1>5
<1> HIDE DEF IsIter, k
<1>7. IsSumFunction(k, EntryHours, S) /\ S \in SUBSET S
  BY <1>4, <1>6
<1>8. SumFunctionOnSet(EntryHours, S) = k[S]
  BY <1>2, <1>7, SumOfSolution
<1> QED
  BY <1>1, <1>8 DEF k

\* Every post is booked once and every refund once, across retries, repeated
\* answers, late calls and crashes: the projection is what the entries say.
THEOREM ProcessorBooks == ProcessorSpec => []BooksMatchOutbox
<1>1. ProcessorInit => ProjectionIsConfirmed
  <2> SUFFICES ASSUME ProcessorInit, NEW a \in Account, balance[a] # NoProjection
               PROVE  balance[a].used = SumFunctionOnSet(EntryHours, CompletedOf(a))
    BY DEF ProjectionIsConfirmed
  <2>1. outbox = << >> /\ \E t \in Allowance : balance[a] = SyncedProjection(t, 0, 0)
    BY DEF ProcessorInit, Init
  <2>2. CompletedOf(a) = {} /\ balance[a].used = 0
    BY <2>1 DEF CompletedOf, SyncedProjection
  <2> QED
    BY <2>2, SumEmpty
<1>2. ProcessorInv /\ LedgerInv /\ ProjectionIsConfirmed /\ [ProcessorNext]_vars
        => ProjectionIsConfirmed'
  <2> SUFFICES ASSUME ProcessorInv, LedgerInv, ProjectionIsConfirmed,
                      [ProcessorNext]_vars
               PROVE  ProjectionIsConfirmed'
    OBVIOUS
  <2>1. ExchangeInv /\ WaitingHasHold
    BY DEF ProcessorInv, HoldFollowsRequest, WaitingHasHold, IsHoldActiveStatus
  <2> QED
    BY <2>1, StepKinds, ConfirmedStep DEF ExchangeInv
<1>3. ProcessorInv /\ LedgerInv /\ ProjectionIsConfirmed => BooksMatchOutbox
  <2> SUFFICES ASSUME ProcessorInv, LedgerInv, ProjectionIsConfirmed,
                      NEW a \in Account, balance[a] # NoProjection
               PROVE  /\ balance[a].used = MapThenSumSet(ConfirmedHours, CompletedOf(a))
                      /\ balance[a].projected = balance[a].total - balance[a].used
    BY Zenon DEF BooksMatchOutbox, CompletedOf
  <2>1. CompletedOf(a) \in SUBSET DOMAIN outbox
    BY DEF CompletedOf
  <2>2. MapThenSumSet(ConfirmedHours, CompletedOf(a))
          = SumFunctionOnSet(EntryHours, CompletedOf(a))
    BY <2>1, ConfirmedSum DEF ProcessorInv, ExchangeInv
  <2> QED
    BY <2>2 DEF ProjectionIsConfirmed, LedgerInv, ProjectionIsTaken
<1> QED
  BY <1>1, <1>2, <1>3, ProcessorInvariant, LedgerInvariant, PTL DEF ProcessorSpec

-----------------------------------------------------------------------------
(***************************************************************************)
(* The balance at the HCM.                                                 *)
(***************************************************************************)

\* A deduction is an answered post; what is COMPLETED was answered; and the post
\* that an answered cancellation names was deducted and is not any more.
AnswersInv ==
  /\ deductions \subseteq answered
  /\ \A i \in deductions : outbox[i].action = "POST_TIME_OFF"
  /\ \A i \in DOMAIN outbox : outbox[i].status = "COMPLETED" => i \in answered
  /\ \A i \in answered : outbox[i].action = "CANCEL_TIME_OFF" =>
       /\ outbox[i].reference \in PostsOf(outbox[i].request)
       /\ outbox[i].reference \in answered
       /\ outbox[i].reference \notin deductions

DeductionsOf(a) == { i \in deductions : AccountOf(i) = a }

PostHours == [i \in DOMAIN outbox |-> HoursOf(i)]

\* Nothing else is used there, and both sides know the same total.
HcmIsDeducted ==
  \A a \in Account :
    /\ hcm[a].used = SumFunctionOnSet(PostHours, DeductionsOf(a))
    /\ balance[a] # NoProjection => hcm[a].total = balance[a].total

HcmInv == AnswersInv /\ HcmIsDeducted

LEMMA PostsFinite ==
  ASSUME ProcessorTypeOK, TableInv, NEW S \in SUBSET DOMAIN outbox
  PROVE  /\ IsFiniteSet(S)
         /\ \A i \in S : PostHours[i] = HoursOf(i) /\ PostHours[i] \in Nat
         /\ SumFunctionOnSet(PostHours, S) \in Nat
<1>1. IsFiniteSet(S)
  BY EntriesFinite
<1>2. ASSUME NEW i \in S
      PROVE  HoursOf(i) \in Nat
  BY EntryFacts
<1>3. \A i \in S : PostHours[i] = HoursOf(i) /\ PostHours[i] \in Nat
  BY <1>2 DEF PostHours
<1> QED
  BY <1>1, <1>3, SumNat

LEMMA KeptPosts ==
  ASSUME ProcessorTypeOK, TableInv, KeepsEntries, NEW S \in SUBSET DOMAIN outbox
  PROVE  SumFunctionOnSet(PostHours', S) = SumFunctionOnSet(PostHours, S)
<1>1. IsFiniteSet(S)
  BY PostsFinite
<1>2. \A i \in S : PostHours'[i] = PostHours[i]
  <2>1. \A j \in DOMAIN outbox : PostHours'[j] = HoursOf(j)'
    BY DEF PostHours, KeepsEntries
  <2>2. \A j \in DOMAIN outbox : PostHours[j] = HoursOf(j)
    BY DEF PostHours
  <2> QED
    BY <2>1, <2>2 DEF KeepsEntries
<1> QED
  BY <1>1, <1>2, SumSame

\* Steps of the API and of the sweep leave the HCM alone.
LEMMA TableStepHcm ==
  ASSUME ProcessorTypeOK, TableInv, LedgerInv, HcmInv, UNCHANGED server,
         BookingStep \/ \E i \in DOMAIN outbox : PostStep(i) \/ CancelStep(i)
  PROVE  HcmInv'
<1>1. KeepsEntries
  BY StepKeepsEntries
<1>2. /\ deductions \in SUBSET DOMAIN outbox /\ answered \in SUBSET DOMAIN outbox
      /\ UNCHANGED <<hcm, deductions, answered>>
  BY DEF ProcessorTypeOK, server
<1>3. AnswersInv'
  <2>1. \A i \in DOMAIN outbox' : outbox'[i].status = "COMPLETED" =>
          i \in answered
    BY DEF BookingStep, ConfirmsNothing, PostStep, CancelStep, Completes, HcmInv,
           AnswersInv
  <2>2. \A r : PostsOf(r) \subseteq PostsOf(r)'
    BY <1>1 DEF PostsOf, KeepsEntries
  <2> QED
    BY <1>1, <1>2, <2>1, <2>2 DEF HcmInv, AnswersInv, KeepsEntries
<1>4. HcmIsDeducted'
  <2>1. \A a \in Account : DeductionsOf(a)' = DeductionsOf(a)
    BY <1>1, <1>2 DEF DeductionsOf, KeepsEntries
  <2>2. \A a \in Account : DeductionsOf(a) \in SUBSET DOMAIN outbox
    BY <1>2 DEF DeductionsOf
  <2>3. \A a \in Account : SumFunctionOnSet(PostHours', DeductionsOf(a)')
                             = SumFunctionOnSet(PostHours, DeductionsOf(a))
    BY <1>1, <2>1, <2>2, KeptPosts
  <2>4. ASSUME NEW a \in Account, balance'[a] # NoProjection
        PROVE  balance[a] # NoProjection /\ balance'[a].total = balance[a].total
    <3>1. CASE BookingStep
      BY <2>4, <3>1 DEF BookingStep
    <3>2. ASSUME NEW i \in DOMAIN outbox, PostStep(i) \/ CancelStep(i)
          PROVE  balance[a] # NoProjection /\ balance'[a].total = balance[a].total
      <4>1. PICK b : b = AccountOf(i)
        OBVIOUS
      <4> QED
        BY <2>4, <3>2, <4>1, AppliedDeduction DEF PostStep, CancelStep
    <3> QED
      BY <3>1, <3>2
  <2> QED
    BY <1>2, <2>3, <2>4 DEF HcmInv, HcmIsDeducted
<1> QED
  BY <1>3, <1>4 DEF HcmInv

\* A call that the HCM handles: a new post is a new deduction, and a cancellation
\* takes one back.
LEMMA HandledHcm ==
  ASSUME ProcessorTypeOK, TableInv, HcmInv, UNCHANGED tables,
         NEW i \in DOMAIN outbox, NEW outcome, HcmHandles(i, outcome)
  PROVE  HcmInv'
<1>1. /\ UNCHANGED <<request, hold, balance, outbox>>
      /\ \A r : PostsOf(r)' = PostsOf(r)
      /\ \A j : AccountOf(j)' = AccountOf(j) /\ HoursOf(j)' = HoursOf(j)
      /\ PostHours' = PostHours
  BY DEF tables, PostsOf, AccountOf, HoursOf, PostHours
<1>2. /\ deductions \in SUBSET DOMAIN outbox /\ answered \in SUBSET DOMAIN outbox
      /\ hcm \in [Account -> HcmAccount]
      /\ outbox \in Seq(OutboxRow)
  BY DEF ProcessorTypeOK, TypeOK
<1>3. PICK b : b = AccountOf(i)
  OBVIOUS
<1>4. b \in Account /\ HoursOf(i) \in Nat
  BY <1>3, EntryFacts
<1>5. \A a \in Account : DeductionsOf(a) \in SUBSET DOMAIN outbox
  BY <1>2 DEF DeductionsOf
<1>6. CASE UNCHANGED server
  <2>1. \A a \in Account : DeductionsOf(a)' = DeductionsOf(a)
    BY <1>1, <1>6 DEF DeductionsOf, server
  <2> QED
    BY <1>1, <1>6, <2>1 DEF HcmInv, AnswersInv, HcmIsDeducted, server
<1>7. CASE HcmPosts(i)
  <2>1. /\ outbox[i].action = "POST_TIME_OFF"
        /\ i \notin answered
        /\ hcm' = [hcm EXCEPT ![b].used = @ + HoursOf(i), ![b].version = @ + 1]
        /\ deductions' = deductions \union {i}
        /\ answered' = answered \union {i}
    BY <1>3, <1>7 DEF HcmPosts
  <2>2. AnswersInv'
    BY <1>1, <2>1 DEF HcmInv, AnswersInv
  <2>3. /\ hcm'[b].used = hcm[b].used + HoursOf(i)
        /\ hcm'[b].total = hcm[b].total
        /\ \A a \in Account : a # b => hcm'[a] = hcm[a]
    BY <1>2, <1>4, <2>1 DEF HcmAccount
  <2>4. /\ i \notin DeductionsOf(b)
        /\ DeductionsOf(b)' = DeductionsOf(b) \union {i}
        /\ \A a \in Account : a # b => DeductionsOf(a)' = DeductionsOf(a)
    BY <1>1, <1>3, <2>1 DEF DeductionsOf, HcmInv, AnswersInv
  <2>5. SumFunctionOnSet(PostHours, DeductionsOf(b) \union {i})
          = SumFunctionOnSet(PostHours, DeductionsOf(b)) + HoursOf(i)
    <3>1. DeductionsOf(b) \union {i} \in SUBSET DOMAIN outbox
      BY <1>4, <1>5
    <3>2. \A j \in DeductionsOf(b) \union {i} :
            PostHours[j] = HoursOf(j) /\ PostHours[j] \in Nat
      BY <3>1, PostsFinite
    <3>3. IsFiniteSet(DeductionsOf(b))
      BY <1>4, <1>5, PostsFinite
    <3>4. \A j \in DeductionsOf(b) \union {i} : PostHours[j] \in Int
      BY <3>2
    <3> QED
      BY <2>4, <3>2, <3>3, <3>4, SumAdd
  <2>6. HcmIsDeducted'
    BY <1>1, <2>3, <2>4, <2>5 DEF HcmInv, HcmIsDeducted
  <2> QED
    BY <2>2, <2>6 DEF HcmInv
<1>8. CASE HcmReverses(i)
  <2>1. PICK d : d = outbox[i].reference
    OBVIOUS
  <2>2. /\ outbox[i].action = "CANCEL_TIME_OFF"
        /\ i \notin answered
        /\ d \in deductions
        /\ hcm' = [hcm EXCEPT ![b].used = @ - HoursOf(i), ![b].version = @ + 1]
        /\ deductions' = deductions \ {d}
        /\ answered' = answered \union {i}
    BY <1>3, <1>8, <2>1 DEF HcmReverses
  <2>3. d \in PostsOf(outbox[i].request) /\ d \in DOMAIN outbox
    <3>1. d # NULL
      <4>1. DOMAIN outbox \subseteq Nat
        BY <1>2
      <4> QED
        BY <1>2, <2>2, <4>1, NullAssumption
    <3> QED
      BY <1>2, <2>1, <2>2, <3>1 DEF TableInv, CancelsNamePosts
  <2>4. AccountOf(d) = b /\ HoursOf(d) = HoursOf(i)
    BY <1>3, <2>3 DEF PostsOf, AccountOf, HoursOf
  <2>5. AnswersInv'
    BY <1>1, <2>1, <2>2, <2>3 DEF HcmInv, AnswersInv
  <2>6. /\ hcm'[b].used = hcm[b].used - HoursOf(i)
        /\ hcm'[b].total = hcm[b].total
        /\ \A a \in Account : a # b => hcm'[a] = hcm[a]
    BY <1>2, <1>4, <2>2 DEF HcmAccount
  <2>7. /\ d \in DeductionsOf(b)
        /\ DeductionsOf(b)' = DeductionsOf(b) \ {d}
        /\ \A a \in Account : a # b => DeductionsOf(a)' = DeductionsOf(a)
    BY <1>1, <2>2, <2>4 DEF DeductionsOf
  <2>8. /\ SumFunctionOnSet(PostHours, DeductionsOf(b))
             = HoursOf(i) + SumFunctionOnSet(PostHours, DeductionsOf(b) \ {d})
        /\ SumFunctionOnSet(PostHours, DeductionsOf(b) \ {d}) \in Nat
    <3>1. /\ IsFiniteSet(DeductionsOf(b))
          /\ \A j \in DeductionsOf(b) :
               PostHours[j] = HoursOf(j) /\ PostHours[j] \in Nat
      BY <1>4, <1>5, PostsFinite
    <3>2. DeductionsOf(b) \ {d} \in SUBSET DOMAIN outbox
      BY <1>4, <1>5
    <3>3. \A j \in DeductionsOf(b) : PostHours[j] \in Int
      BY <3>1
    <3>4. SumFunctionOnSet(PostHours, DeductionsOf(b) \ {d}) \in Nat
      BY <3>2, PostsFinite
    <3> QED
      BY <2>4, <2>7, <3>1, <3>3, <3>4, SumRemove
  <2>9. HcmIsDeducted'
    <3>1. hcm[b].used
            = HoursOf(i) + SumFunctionOnSet(PostHours, DeductionsOf(b) \ {d})
      BY <1>4, <2>8 DEF HcmInv, HcmIsDeducted
    <3>2. hcm'[b].used = SumFunctionOnSet(PostHours, DeductionsOf(b) \ {d})
      BY <1>4, <2>6, <2>8, <3>1
    <3> QED
      BY <1>1, <2>6, <2>7, <3>2 DEF HcmInv, HcmIsDeducted
  <2> QED
    BY <2>5, <2>9 DEF HcmInv
<1> QED
  BY <1>6, <1>7, <1>8 DEF HcmHandles, HcmRefuses

LEMMA HcmInvariant == ProcessorSpec => []HcmInv
<1>1. ProcessorInit => HcmInv
  <2> SUFFICES ASSUME ProcessorInit PROVE HcmInv
    OBVIOUS
  <2>1. /\ outbox = << >> /\ deductions = {} /\ answered = {}
        /\ \A a \in Account : hcm[a].used = 0
        /\ \A a \in Account : balance[a] # NoProjection =>
             hcm[a].total = balance[a].total
    BY DEF ProcessorInit, Init
  <2>2. \A a \in Account : DeductionsOf(a) = {}
    BY <2>1 DEF DeductionsOf
  <2>3. SumFunctionOnSet(PostHours, {}) = 0
    BY SumEmpty
  <2> QED
    <3>1. AnswersInv
      BY <2>1 DEF AnswersInv
    <3>2. HcmIsDeducted
      BY <2>1, <2>2, <2>3 DEF HcmIsDeducted
    <3> QED
      BY <3>1, <3>2 DEF HcmInv
<1>2. ProcessorInv /\ LedgerInv /\ HcmInv /\ [ProcessorNext]_vars => HcmInv'
  <2> SUFFICES ASSUME ProcessorInv, LedgerInv, HcmInv, [ProcessorNext]_vars
               PROVE  HcmInv'
    OBVIOUS
  <2>1. /\ ExchangeInv /\ WaitingHasHold
        /\ ProcessorTypeOK /\ TableInv /\ SweepInv
    BY DEF ProcessorInv, ExchangeInv, HoldFollowsRequest, WaitingHasHold,
           IsHoldActiveStatus
  <2>2. CASE UNCHANGED server
    BY <2>1, <2>2, StepKinds, TableStepHcm
  <2>3. CASE CallAnswered
    <3>1. Current \in DOMAIN outbox
      BY <2>1, <2>3, CallHasEntry DEF CallAnswered
    <3> QED
      BY <2>1, <2>3, <3>1, HandledHcm DEF CallAnswered
  <2>4. ASSUME NEW i \in late, LateCall(i)
        PROVE  HcmInv'
    <3>1. i \in DOMAIN outbox
      BY <2>1 DEF ProcessorTypeOK
    <3> QED
      BY <2>1, <2>4, <3>1, HandledHcm DEF LateCall
  <2> QED
    BY <2>2, <2>3, <2>4
       DEF ProcessorNext, ApiCall, Sweep, ClaimPendingEntries, SkipEntry, SendEntry,
           ConfirmPost, DropPost, ConfirmCancel, RetryEntry, GiveUpEntry, NextEntry,
           Network, CallDisconnected, Crash, vars
<1> QED
  BY <1>1, <1>2, ProcessorInvariant, LedgerInvariant, PTL DEF ProcessorSpec

\* A deduction that is not an orphan belongs to a request whose hours are reserved
\* or taken here, and no two belong to the same.
LEMMA DeductionIsKnown ==
  ASSUME ProcessorInv, LedgerInv, HcmInv, NEW a \in Account,
         NEW i \in DeductionsOf(a), i \notin Orphans
  PROVE  /\ outbox[i].request \in ActiveHolds(a) \union TakenBy(a)
         /\ \A j \in DeductionsOf(a) :
              outbox[j].request = outbox[i].request => j = i
<1> DEFINE r == outbox[i].request
<1>1. ProcessorTypeOK /\ TableInv
  BY DEF ProcessorInv, ExchangeInv
<1>2. /\ i \in deductions /\ i \in DOMAIN outbox /\ AccountOf(i) = a
      /\ outbox[i].action = "POST_TIME_OFF"
      /\ outbox[i].status = "COMPLETED" \/ StillWanted(i)
  BY <1>1 DEF DeductionsOf, HcmInv, AnswersInv, Orphans, ProcessorTypeOK
<1>3. r \in Request /\ request[r].account = a /\ i \in PostsOf(r)
  BY <1>1, <1>2, EntryFacts DEF AccountOf, PostsOf
<1>4. \A j \in PostsOf(r) : j = i
  BY <1>1, <1>3 DEF TableInv, PostInv, WaitingRequestHasItsPost
<1>5. ASSUME outbox[i].status = "COMPLETED"
      PROVE  r \in TakenBy(a)
  <2>1. hold[r] = "CONVERTED"
    BY <1>2, <1>5 DEF LedgerInv, DoneIsTaken
  <2>2. ~ CancelCompleted(r)
    <3>1. SUFFICES ASSUME NEW j \in DOMAIN outbox, outbox[j].request = r,
                          outbox[j].action = "CANCEL_TIME_OFF",
                          outbox[j].status = "COMPLETED"
                   PROVE  FALSE
      BY DEF CancelCompleted
    <3>2. outbox[j].reference \in PostsOf(r) /\ outbox[j].reference \notin deductions
      BY <3>1 DEF HcmInv, AnswersInv
    <3> QED
      BY <1>2, <1>4, <3>2
  <2> QED
    BY <1>3, <2>1, <2>2 DEF TakenBy
<1>6. ASSUME StillWanted(i)
      PROVE  r \in ActiveHolds(a)
  <2>1. request[r].status = "APPROVED_PENDING_HCM"
    BY <1>2, <1>6 DEF StillWanted, ExpectedStatus
  <2>2. hold[r] = "ACTIVE"
    BY <1>3, <2>1 DEF ProcessorInv, HoldFollowsRequest, IsHoldActiveStatus
  <2> QED
    BY <1>3, <2>2 DEF ActiveHolds
<1>7. ASSUME NEW j \in DeductionsOf(a), outbox[j].request = r
      PROVE  j = i
  <2>1. j \in PostsOf(r)
    BY <1>1, <1>7 DEF DeductionsOf, HcmInv, AnswersInv, PostsOf, ProcessorTypeOK
  <2> QED
    BY <1>4, <2>1
<1> QED
  BY <1>2, <1>5, <1>6, <1>7

\* So they sum up to no more than holds and projection have.
LEMMA KnownDeductions ==
  ASSUME ProcessorInv, LedgerInv, HcmInv, NEW a \in Account,
         NEW N \in SUBSET DeductionsOf(a), N \intersect Orphans = {}
  PROVE  SumFunctionOnSet(PostHours, N)
           <= SumFunctionOnSet(RequestHours, ActiveHolds(a))
                + SumFunctionOnSet(RequestHours, TakenBy(a))
<1> DEFINE e == [i \in DOMAIN outbox |-> outbox[i].request]
           Both == ActiveHolds(a) \union TakenBy(a)
           M == { r \in Both : \E i \in N : outbox[i].request = r }
<1>1. /\ ProcessorTypeOK /\ TableInv /\ TypeOK
      /\ HoldsHaveRequests /\ HoursDefined
  BY LedgerHours DEF ProcessorInv, ExchangeInv, ProcessorTypeOK, LedgerInv
<1>2. /\ ActiveHolds(a) \in SUBSET Existing
      /\ TakenBy(a) \in SUBSET Existing
      /\ ActiveHolds(a) \intersect TakenBy(a) = {}
  BY <1>1, TakenHours, ActiveTotal DEF ActiveTotals, ActiveHolds, TakenBy
<1>3. Both \in SUBSET Existing /\ M \in SUBSET Both /\ M \in SUBSET Existing
  BY <1>2
<1>4. N \in SUBSET DOMAIN outbox
  BY <1>1 DEF DeductionsOf, ProcessorTypeOK
<1>5. ASSUME NEW i \in N
      PROVE  /\ outbox[i].request \in M
             /\ \A j \in N : outbox[j].request = outbox[i].request => j = i
  <2>1. i \in DeductionsOf(a) /\ i \notin Orphans
    OBVIOUS
  <2> QED
    BY <2>1, DeductionIsKnown
<1>6. \A r \in M : \E i \in N : outbox[i].request = r
  OBVIOUS
<1> HIDE DEF Both, M
<1>7. /\ IsFiniteSet(Both) /\ IsFiniteSet(M)
      /\ \A r \in Both : RequestHours[r] \in Nat /\ RequestHours[r] = request[r].hours
  BY <1>1, <1>3, ExistingHours
<1>8. IsFiniteSet(N) /\ \A i \in N : PostHours[i] = HoursOf(i)
  BY <1>1, <1>4, PostsFinite
<1>9. SumFunctionOnSet(PostHours, N) = SumFunctionOnSet(RequestHours, M)
  <2>1. \A i \in N : e[i] \in M /\ PostHours[i] = RequestHours[e[i]]
    <3>1. \A i \in N : e[i] = outbox[i].request
      BY <1>4
    <3> HIDE DEF e
    <3> QED
      BY <1>3, <1>5, <1>7, <1>8, <3>1 DEF HoursOf
  <2>2. \A i, j \in N : e[i] = e[j] => i = j
    BY <1>4, <1>5
  <2>3. \A r \in M : RequestHours[r] \in Int /\ \E i \in N : e[i] = r
    <3>1. \A r \in M : \E i \in N : e[i] = r
      BY <1>4, <1>6
    <3> QED
      BY <1>3, <1>7, <3>1
  <2> HIDE DEF e
  <2> QED
    BY <1>7, <1>8, <2>1, <2>2, <2>3, SumInjective
<1>10. SumFunctionOnSet(RequestHours, M) <= SumFunctionOnSet(RequestHours, Both)
  <2>1. \A r \in Both : RequestHours[r] \in Nat
    BY <1>7
  <2> QED
    BY <1>3, <1>7, <2>1, SumMonotone
<1>11. SumFunctionOnSet(RequestHours, Both)
         = SumFunctionOnSet(RequestHours, ActiveHolds(a))
             + SumFunctionOnSet(RequestHours, TakenBy(a))
  <2>1. IsFiniteSet(ActiveHolds(a)) /\ IsFiniteSet(TakenBy(a))
    BY <1>1, <1>2, ExistingHours
  <2>2. \A r \in ActiveHolds(a) \union TakenBy(a) : RequestHours[r] \in Int
    BY <1>7 DEF Both
  <2> QED
    BY <1>2, <2>1, <2>2, SumDisjoint DEF Both
<1> QED
  BY <1>9, <1>10, <1>11

\* The sum as OffersNoTakenHours writes it.
LEMMA PostSum ==
  ASSUME ProcessorTypeOK, TableInv, NEW S \in SUBSET DOMAIN outbox
  PROVE  MapThenSumSet(HoursOf, S) = SumFunctionOnSet(PostHours, S)
<1> DEFINE IsIter(g) == g = [T \in SUBSET S |->
             IF T = {} THEN 0 ELSE HoursOf(Chosen(T)) + g[T \ {Chosen(T)}]]
<1>1. MapThenSumSet(HoursOf, S) = (CHOOSE g : IsIter(g))[S]
  BY Zenon DEF MapThenSumSet, MapThenFoldSet, Chosen
<1>2. IsFiniteSet(S) /\ \A i \in S : PostHours[i] = HoursOf(i)
  BY PostsFinite
<1>3. \A T \in SUBSET S : T # {} => PostHours[Chosen(T)] = HoursOf(Chosen(T))
  BY <1>2, ChosenElement
<1>4. ASSUME NEW g
      PROVE  IsIter(g) <=> IsSumFunction(g, PostHours, S)
  <2>1. \A T \in SUBSET S :
          (IF T = {} THEN 0 ELSE PostHours[Chosen(T)] + g[T \ {Chosen(T)}])
            = (IF T = {} THEN 0 ELSE HoursOf(Chosen(T)) + g[T \ {Chosen(T)}])
    BY <1>3
  <2> QED
    BY <2>1 DEF IsSumFunction
<1> DEFINE k == CHOOSE g : IsIter(g)
<1>5. \E g : IsIter(g)
  <2> HIDE DEF IsIter
  <2> QED
    BY <1>2, <1>4, SumFunctionExists
<1>6. IsIter(k)
  <2> HIDE DEF IsIter
  <2> QED
    BY <1>5
<1> HIDE DEF IsIter, k
<1>7. IsSumFunction(k, PostHours, S) /\ S \in SUBSET S
  BY <1>4, <1>6
<1>8. SumFunctionOnSet(PostHours, S) = k[S]
  BY <1>2, <1>7, SumOfSolution
<1> QED
  BY <1>1, <1>8 DEF k

\* Orphans apart, ReadyOn never offers hours that the HCM has deducted, wherever an
\* answer is lost, a call arrives late or the process dies.
THEOREM ProcessorOffers == ProcessorSpec => []OffersNoTakenHours
<1>1. ProcessorInv /\ LedgerInv /\ HcmInv => OffersNoTakenHours
  <2> SUFFICES ASSUME ProcessorInv, LedgerInv, HcmInv, NEW a \in Account,
                      balance[a] # NoProjection
               PROVE  EffectiveAvailable(a, {}) <= HcmAvailable(a)
                        + MapThenSumSet(HoursOf, { i \in Orphans : AccountOf(i) = a })
    BY Zenon DEF OffersNoTakenHours
  <2> DEFINE O == { i \in Orphans : AccountOf(i) = a }
             N == DeductionsOf(a) \ O
             active == SumFunctionOnSet(RequestHours, ActiveHolds(a))
             taken == SumFunctionOnSet(RequestHours, TakenBy(a))
             orphaned == SumFunctionOnSet(PostHours, O)
             known == SumFunctionOnSet(PostHours, N)
  <2>1. /\ ProcessorTypeOK /\ TableInv /\ TypeOK
        /\ HoldsHaveRequests /\ HoursDefined
    BY LedgerHours DEF ProcessorInv, ExchangeInv, ProcessorTypeOK, LedgerInv
  <2>2. /\ O \in SUBSET DOMAIN outbox /\ N \in SUBSET DOMAIN outbox
        /\ N \in SUBSET DeductionsOf(a) /\ N \intersect Orphans = {}
        /\ O \union N = DeductionsOf(a) /\ O \intersect N = {}
    BY <2>1 DEF Orphans, DeductionsOf, ProcessorTypeOK
  <2> HIDE DEF O, N
  <2>3. MapThenSumSet(HoursOf, O) = orphaned
    BY <2>1, <2>2, PostSum
  <2>4. hcm[a].used = orphaned + known
    <3>1. /\ IsFiniteSet(O) /\ IsFiniteSet(N)
          /\ \A i \in O : PostHours[i] \in Nat
          /\ \A i \in N : PostHours[i] \in Nat
      BY <2>1, <2>2, PostsFinite
    <3>2. \A i \in O \union N : PostHours[i] \in Int
      BY <3>1
    <3>3. SumFunctionOnSet(PostHours, O \union N) = orphaned + known
      BY <2>2, <3>1, <3>2, SumDisjoint
    <3> QED
      BY <2>2, <3>3 DEF HcmInv, HcmIsDeducted
  <2>5. known <= active + taken
    BY <2>2, KnownDeductions
  <2>6. /\ balance[a].used = taken
        /\ balance[a].projected = balance[a].total - balance[a].used
        /\ hcm[a].total = balance[a].total
    BY DEF LedgerInv, ProjectionIsTaken, HcmInv, HcmIsDeducted
  <2>7. EffectiveAvailable(a, {}) = balance[a].projected - active
    BY <2>1, ActiveTotal DEF ActiveTotals, EffectiveAvailable
  <2>8. /\ active \in Nat /\ taken \in Nat /\ orphaned \in Nat /\ known \in Nat
        /\ balance[a].total \in Nat
    <3>1. active \in Nat /\ taken \in Nat
      BY <2>1, TakenHours, ActiveTotal DEF ActiveTotals
    <3>2. orphaned \in Nat /\ known \in Nat
      BY <2>1, <2>2, PostsFinite
    <3>3. balance[a] \in ProjectionRow
      BY <2>1 DEF TypeOK
    <3> QED
      BY <3>1, <3>2, <3>3 DEF ProjectionRow
  <2>9. HcmAvailable(a) = hcm[a].total - hcm[a].used
    BY DEF HcmAvailable
  <2> HIDE DEF active, taken, orphaned, known
  <2>10. EffectiveAvailable(a, {}) <= HcmAvailable(a) + orphaned
    BY <2>4, <2>5, <2>6, <2>7, <2>8, <2>9
  <2> QED
    BY <2>3, <2>10 DEF O
<1> QED
  BY <1>1, ProcessorInvariant, LedgerInvariant, HcmInvariant, PTL

-----------------------------------------------------------------------------
(***************************************************************************)
(* The ledger.                                                             *)
(***************************************************************************)

\* The variables of LeaveLedger, as OutboxProcessor maps them.
CapacityOf(a) == IF balance[a] = NoProjection THEN 0 ELSE balance[a].total

BookingOf(r) ==
  IF Exists(r)
  THEN [ account |-> request[r].account, hours |-> request[r].hours,
         phase |-> Phase(r) ]
  ELSE [phase |-> "unbooked"]

Capacities == [a \in Account |-> CapacityOf(a)]
Bookings == [r \in Request |-> BookingOf(r)]

LEMMA PhaseFacts ==
  ASSUME TypeOK, HoldsHaveRequests, NEW r \in Request, Exists(r)
  PROVE  /\ Phase(r) = "reserved" <=> hold[r] = "ACTIVE"
         /\ Phase(r) = "taken" <=> hold[r] = "CONVERTED" /\ ~ CancelCompleted(r)
         /\ Phase(r) = "freed" <=>
              hold[r] = "RELEASED" \/ (hold[r] = "CONVERTED" /\ CancelCompleted(r))
<1>1. hold[r] \in {"ACTIVE", "RELEASED", "CONVERTED"}
  BY DEF TypeOK, HoldStatus, HoldsHaveRequests
<1>2. CASE hold[r] = "ACTIVE"
  <2>1. Phase(r) = "reserved"
    BY <1>2 DEF Phase
  <2> QED
    BY <1>2, <2>1
<1>3. CASE hold[r] = "RELEASED"
  <2>1. Phase(r) = "freed"
    BY <1>3 DEF Phase
  <2> QED
    BY <1>3, <2>1
<1>4. CASE hold[r] = "CONVERTED"
  <2>1. Phase(r) = IF CancelCompleted(r) THEN "freed" ELSE "taken"
    BY <1>4 DEF Phase
  <2> QED
    BY <1>4, <2>1
<1> QED
  BY <1>1, <1>2, <1>3, <1>4

\* A request with the same hold and the same entries has the same booking.
LEMMA SameBooking ==
  ASSUME NEW r \in Request, KeepsHours, Exists(r) <=> Exists(r)',
         hold'[r] = hold[r], CancelCompleted(r)' = CancelCompleted(r)
  PROVE  BookingOf(r)' = BookingOf(r)
<1>1. Phase(r)' = Phase(r)
  BY DEF Phase
<1> QED
  BY <1>1 DEF BookingOf, KeepsHours

\* Only the phase of request r changes.
LEMMA MovedBooking ==
  ASSUME KeepsHours, NEW r \in Request, Exists(r), NEW to, Phase(r)' = to,
         \A q \in Request : q # r => BookingOf(q)' = BookingOf(q)
  PROVE  /\ Bookings[r].phase = Phase(r)
         /\ Bookings' = [Bookings EXCEPT ![r].phase = to]
<1>1. Bookings[r] = [ account |-> request[r].account, hours |-> request[r].hours,
                      phase |-> Phase(r) ]
  BY DEF Bookings, BookingOf
<1>2. [Bookings[r] EXCEPT !.phase = to]
        = [ account |-> request[r].account, hours |-> request[r].hours, phase |-> to ]
  BY <1>1
<1>3. BookingOf(r)' = [Bookings[r] EXCEPT !.phase = to]
  BY <1>2 DEF BookingOf, KeepsHours
<1>4. Bookings' = [q \in Request |-> BookingOf(q)']
  BY DEF Bookings
<1>5. \A q \in Request : BookingOf(q) = Bookings[q]
  BY DEF Bookings
<1>6. Bookings' = [q \in Request |-> IF q = r THEN [Bookings[r] EXCEPT !.phase = to]
                                              ELSE Bookings[q]]
  BY <1>3, <1>4, <1>5
<1>7. Bookings = [q \in Request |-> Bookings[q]]
  BY DEF Bookings
<1>8. [Bookings EXCEPT ![r].phase = to]
        = [q \in Request |-> IF q = r THEN [Bookings[r] EXCEPT !.phase = to]
                                      ELSE Bookings[q]]
  <2> HIDE DEF Bookings
  <2> QED
    BY <1>7
<1> HIDE DEF Bookings
<1> QED
  BY <1>1, <1>6, <1>8

LEMMA SameCapacities ==
  ASSUME \A a \in Account :
           /\ balance'[a] # NoProjection <=> balance[a] # NoProjection
           /\ balance[a] # NoProjection => balance'[a].total = balance[a].total
  PROVE  Capacities' = Capacities
BY DEF Capacities, CapacityOf

\* The hours the ledger has booked are those of the holds and of the projection.
LEMMA HoursBooked ==
  ASSUME TypeOK, HoldsHaveRequests, NEW a \in Account
  PROVE  Ledger!HoursBooked(a)
           = SumFunctionOnSet(RequestHours, ActiveHolds(a))
               + SumFunctionOnSet(RequestHours, TakenBy(a))
<1> DEFINE Both == ActiveHolds(a) \union TakenBy(a)
           h == [r \in Request |-> Bookings[r].hours]
<1>1. HoursDefined
  BY LedgerHours
<1>2. /\ ActiveHolds(a) \in SUBSET Existing
      /\ TakenBy(a) \in SUBSET Existing
      /\ ActiveHolds(a) \intersect TakenBy(a) = {}
  BY <1>1, TakenHours, ActiveTotal DEF ActiveTotals, ActiveHolds, TakenBy
<1>3. /\ IsFiniteSet(ActiveHolds(a)) /\ IsFiniteSet(TakenBy(a)) /\ IsFiniteSet(Both)
      /\ Both \subseteq Request
      /\ \A r \in Both : RequestHours[r] \in Nat /\ RequestHours[r] = request[r].hours
  <2>1. Both \in SUBSET Existing
    BY <1>2
  <2> HIDE DEF Both
  <2> QED
    BY <1>1, <1>2, <2>1, ExistingHours
<1>4. Ledger!Booked(a) = Both
  <2>1. Ledger!Booked(a) = { r \in Request :
          Bookings[r].phase \in {"reserved", "taken"} /\ Bookings[r].account = a }
    BY Zenon DEF Ledger!Booked, Bookings, BookingOf, CapacityOf
  <2>2. ASSUME NEW r \in Request, ~ Exists(r)
        PROVE  Bookings[r].phase = "unbooked" /\ r \notin Both
    BY <1>2, <2>2 DEF Bookings, BookingOf, Existing
  <2>3. ASSUME NEW r \in Request, Exists(r)
        PROVE  Bookings[r].phase = Phase(r) /\ Bookings[r].account = request[r].account
    BY <2>3 DEF Bookings, BookingOf
  <2>4. ASSUME NEW r \in Request, Exists(r)
        PROVE  r \in Both <=>
                 Phase(r) \in {"reserved", "taken"} /\ request[r].account = a
    BY <2>4, PhaseFacts DEF ActiveHolds, TakenBy
  <2> HIDE DEF Both
  <2> QED
    BY <1>3, <2>1, <2>2, <2>3, <2>4
<1>5. Ledger!HoursBooked(a) = MapThenSumSet(LAMBDA r : Bookings[r].hours, Both)
  <2>1. Ledger!HoursBooked(a)
          = MapThenSumSet(LAMBDA r : Bookings[r].hours, Ledger!Booked(a))
    BY Zenon DEF Ledger!HoursBooked, Ledger!MapThenSumSet, Ledger!MapThenFoldSet,
                 MapThenSumSet, MapThenFoldSet, Bookings, BookingOf
  <2> QED
    BY <1>4, <2>1
<1>6. MapThenSumSet(LAMBDA r : Bookings[r].hours, Both) = SumFunctionOnSet(h, Both)
  <2> HIDE DEF Both
  <2> QED
    BY <1>3, HoursSum
<1>7. \A r \in Both : h[r] = RequestHours[r]
  <2>1. \A r \in Both : Exists(r)
    BY <1>2 DEF Existing
  <2> HIDE DEF Both
  <2>2. \A r \in Both : h[r] = request[r].hours
    BY <1>3, <2>1 DEF Bookings, BookingOf
  <2> QED
    BY <1>3, <2>2
<1>8. SumFunctionOnSet(h, Both) = SumFunctionOnSet(RequestHours, Both)
  <2> HIDE DEF Both, h
  <2> QED
    BY <1>3, <1>7, SumSame
<1>9. SumFunctionOnSet(RequestHours, Both)
        = SumFunctionOnSet(RequestHours, ActiveHolds(a))
            + SumFunctionOnSet(RequestHours, TakenBy(a))
  <2>1. \A r \in ActiveHolds(a) \union TakenBy(a) : RequestHours[r] \in Int
    BY <1>3
  <2> QED
    BY <1>2, <1>3, <2>1, SumDisjoint
<1> QED
  BY <1>5, <1>6, <1>8, <1>9

\* The actions of the ledger, said of Capacities and Bookings.
LEMMA LedgerActions ==
  /\ \A r \in Request, a \in Account, h \in Hours :
       /\ Bookings[r] = [phase |-> "unbooked"]
       /\ Ledger!HoursBooked(a) + h <= Capacities[a]
       /\ Bookings' = [Bookings EXCEPT ![r] =
            [account |-> a, hours |-> h, phase |-> "reserved"]]
       /\ Capacities' = Capacities
       => Ledger!Reserve(r, a, h)
  /\ \A r \in Request : \A from, to :
       /\ Bookings[r].phase = from
       /\ Bookings' = [Bookings EXCEPT ![r].phase = to]
       /\ Capacities' = Capacities
       => Ledger!Move(r, from, to)
  /\ Bookings' = Bookings /\ Capacities' = Capacities => UNCHANGED Ledger!ledger
<1>1. ASSUME NEW r \in Request, NEW a \in Account, NEW h \in Hours,
             Bookings[r] = [phase |-> "unbooked"],
             Ledger!HoursBooked(a) + h <= Capacities[a],
             Bookings' = [Bookings EXCEPT ![r] =
               [account |-> a, hours |-> h, phase |-> "reserved"]],
             Capacities' = Capacities
      PROVE  Ledger!Reserve(r, a, h)
  BY <1>1, Zenon DEF Ledger!Reserve, Ledger!Unbooked, Ledger!Booking, Bookings,
                     BookingOf, Capacities, CapacityOf
<1>2. ASSUME NEW r \in Request, NEW from, NEW to, Bookings[r].phase = from,
             Bookings' = [Bookings EXCEPT ![r].phase = to], Capacities' = Capacities
      PROVE  Ledger!Move(r, from, to)
  BY <1>2, Zenon DEF Ledger!Move, Bookings, BookingOf, Capacities, CapacityOf
<1>3. ASSUME Bookings' = Bookings, Capacities' = Capacities
      PROVE  UNCHANGED Ledger!ledger
  BY <1>3, Zenon DEF Ledger!ledger, Bookings, BookingOf, Capacities, CapacityOf
<1> QED
  BY <1>1, <1>2, <1>3

\* A new request reserves hours that are free.
LEMMA LedgerReserves ==
  ASSUME ProcessorTypeOK, TableInv, LedgerInv, BookingStep,
         NEW r \in Request, NEW a \in Account, NEW h \in Hours, BooksHours(r, a, h)
  PROVE  Ledger!Reserve(r, a, h)
<1>1. TypeOK /\ HoursDefined /\ HoldsHaveRequests
  BY LedgerHours DEF LedgerInv, ProcessorTypeOK
<1>2. KeepsHours /\ HoldsHaveRequests'
  BY BookingStepHolds
<1>3. \A q \in Request : CancelCompleted(q)' = CancelCompleted(q)
  BY CompletedCancels DEF LedgerInv, BookingStep
<1>4. Bookings[r] = [phase |-> "unbooked"]
  BY DEF Bookings, BookingOf, BooksHours
<1>5. Ledger!HoursBooked(a) + h <= Capacities[a]
  <2>1. Capacities[a] = balance[a].total /\ balance[a] \in ProjectionRow
    BY <1>1 DEF Capacities, CapacityOf, BooksHours, TypeOK
  <2>2. /\ balance[a].used = SumFunctionOnSet(RequestHours, TakenBy(a))
        /\ balance[a].projected = balance[a].total - balance[a].used
    BY DEF LedgerInv, ProjectionIsTaken, BooksHours
  <2>3. /\ EffectiveAvailable(a, {}) >= h
        /\ EffectiveAvailable(a, {}) = balance[a].projected
             - SumFunctionOnSet(RequestHours, ActiveHolds(a))
        /\ SumFunctionOnSet(RequestHours, ActiveHolds(a)) \in Nat
    BY <1>1, ActiveTotal DEF ActiveTotals, EffectiveAvailable, BooksHours
  <2>4. Ledger!HoursBooked(a) = SumFunctionOnSet(RequestHours, ActiveHolds(a))
                                  + SumFunctionOnSet(RequestHours, TakenBy(a))
    BY <1>1, HoursBooked
  <2>5. h \in Nat /\ balance[a].total \in Nat /\ balance[a].used \in Nat
    BY <2>1, HoursAssumption DEF ProjectionRow
  <2> QED
    BY <2>1, <2>2, <2>3, <2>4, <2>5
<1>6. Bookings' = [Bookings EXCEPT ![r] =
                     [account |-> a, hours |-> h, phase |-> "reserved"]]
  <2>1. \A q \in Request : q # r => BookingOf(q)' = BookingOf(q)
    <3>1. \A q \in Request : q # r =>
            hold'[q] = hold[q] /\ (Exists(q) <=> Exists(q)')
      BY DEF BooksHours, Exists
    <3> QED
      BY <1>2, <1>3, <3>1, SameBooking
  <2>2. BookingOf(r)' = [account |-> a, hours |-> h, phase |-> "reserved"]
    <3>1. Phase(r)' = "reserved"
      BY DEF Phase, BooksHours
    <3> QED
      BY <3>1 DEF BookingOf, BooksHours, Exists
  <2>3. Bookings' = [q \in Request |-> BookingOf(q)']
    BY DEF Bookings
  <2> QED
    BY <2>1, <2>2, <2>3 DEF Bookings
<1>7. Capacities' = Capacities
  BY SameCapacities DEF BookingStep
<1> QED
  BY <1>4, <1>5, <1>6, <1>7, LedgerActions

\* A hold that is released frees its hours.
LEMMA LedgerReleases ==
  ASSUME ProcessorTypeOK, TableInv, LedgerInv, BookingStep, ReleasesHolds
  PROVE  (\E r \in Request : Ledger!Release(r)) \/ UNCHANGED Ledger!ledger
<1>1. TypeOK /\ HoldsHaveRequests /\ KeepsHours /\ HoldsHaveRequests'
  BY BookingStepHolds DEF LedgerInv, ProcessorTypeOK
<1>2. \A q \in Request : CancelCompleted(q)' = CancelCompleted(q)
  BY CompletedCancels DEF LedgerInv, BookingStep
<1>3. ASSUME NEW q \in Request, hold'[q] = hold[q]
      PROVE  BookingOf(q)' = BookingOf(q)
  <2>1. Exists(q) <=> Exists(q)'
    BY DEF ReleasesHolds, KeepsHours
  <2> QED
    BY <1>1, <1>2, <1>3, <2>1, SameBooking
<1>4. Capacities' = Capacities
  BY SameCapacities DEF BookingStep
<1>5. CASE \A q \in Request : hold'[q] = hold[q]
  <2>1. Bookings' = [q \in Request |-> BookingOf(q)']
    BY DEF Bookings
  <2>2. Bookings' = Bookings
    BY <1>3, <1>5, <2>1 DEF Bookings
  <2> QED
    BY <1>4, <2>2, LedgerActions
<1>6. ASSUME NEW r \in Request, hold'[r] # hold[r]
      PROVE  Ledger!Release(r)
  <2>1. /\ hold[r] = "ACTIVE" /\ hold'[r] = "RELEASED"
        /\ \A q \in Request : q # r => hold'[q] = hold[q]
    BY <1>6 DEF ReleasesHolds
  <2>2. Exists(r) /\ Phase(r) = "reserved"
    BY <1>1, <2>1, PhaseFacts DEF HoldsHaveRequests
  <2>3. Phase(r)' = "freed"
    BY <2>1 DEF Phase
  <2>4. \A q \in Request : q # r => BookingOf(q)' = BookingOf(q)
    BY <1>3, <2>1
  <2>5. /\ Bookings[r].phase = "reserved"
        /\ Bookings' = [Bookings EXCEPT ![r].phase = "freed"]
    BY <1>1, <2>2, <2>3, <2>4, MovedBooking
  <2>6. Ledger!Move(r, "reserved", "freed")
    BY <1>4, <2>5, LedgerActions
  <2> QED
    BY <2>6 DEF Ledger!Release
<1> QED
  BY <1>5, <1>6

LEMMA ConfirmedCapacities ==
  ASSUME ProcessorTypeOK, TableInv, NEW i \in DOMAIN outbox, ApplyDeduction(i)
  PROVE  Capacities' = Capacities
<1>1. PICK b : b = AccountOf(i)
  OBVIOUS
<1> QED
  BY <1>1, AppliedDeduction, SameCapacities

\* A confirmed post takes the hours that were reserved for it.
LEMMA LedgerTakes ==
  ASSUME ProcessorTypeOK, TableInv, LedgerInv, NEW i \in DOMAIN outbox, PostStep(i)
  PROVE  \E r \in Request : Ledger!Take(r)
<1>1. PICK r, a : r = outbox[i].request /\ a = AccountOf(i)
  OBVIOUS
<1>2. TypeOK /\ HoldsHaveRequests /\ KeepsHours /\ r \in Request /\ Exists(r)
  BY <1>1, PostStepHolds, EntryFacts DEF LedgerInv, ProcessorTypeOK
<1>3. /\ hold[r] = "ACTIVE" /\ hold'[r] = "CONVERTED"
      /\ \A q \in Request : q # r => request'[q] = request[q] /\ hold'[q] = hold[q]
  BY <1>1 DEF PostStep, Settles
<1>4. \A q \in Request : CancelCompleted(q)' = CancelCompleted(q)
  BY CompletedCancels DEF LedgerInv
<1>5. ~ CancelCompleted(r)
  BY <1>1, <1>3 DEF LedgerInv, DoneIsTaken, CancelCompleted
<1>6. Phase(r) = "reserved" /\ Phase(r)' = "taken"
  <2>1. Phase(r) = "reserved"
    BY <1>2, <1>3, PhaseFacts
  <2>2. Phase(r)' = IF CancelCompleted(r)' THEN "freed" ELSE "taken"
    BY <1>3 DEF Phase
  <2> QED
    BY <1>2, <1>4, <1>5, <2>1, <2>2
<1>7. \A q \in Request : q # r => BookingOf(q)' = BookingOf(q)
  <2>1. \A q \in Request : q # r => (Exists(q) <=> Exists(q)')
    BY <1>3 DEF Exists
  <2> QED
    BY <1>2, <1>3, <1>4, <2>1, SameBooking
<1>8. /\ Bookings[r].phase = "reserved"
      /\ Bookings' = [Bookings EXCEPT ![r].phase = "taken"]
  BY <1>2, <1>6, <1>7, MovedBooking
<1>9. Capacities' = Capacities
  BY ConfirmedCapacities DEF PostStep
<1>10. Ledger!Move(r, "reserved", "taken")
  BY <1>2, <1>8, <1>9, LedgerActions
<1> QED
  BY <1>2, <1>10 DEF Ledger!Take

\* A confirmed cancellation gives back hours that were taken.
LEMMA LedgerRefunds ==
  ASSUME ProcessorTypeOK, TableInv, LedgerInv, NEW i \in DOMAIN outbox, CancelStep(i)
  PROVE  \E r \in Request : Ledger!Refund(r)
<1>1. PICK r, a : r = outbox[i].request /\ a = AccountOf(i)
  OBVIOUS
<1>2. /\ TypeOK /\ HoldsHaveRequests /\ KeepsHours /\ r \in Request /\ Exists(r)
      /\ r \in TakenBy(a) /\ CancelCompleted(r)'
  BY <1>1, CancelStepHolds, EntryFacts DEF LedgerInv, ProcessorTypeOK
<1>3. UNCHANGED <<request, hold>> /\ Completes({i})
  BY DEF CancelStep
<1>4. \A q \in Request : q # r => CancelCompleted(q)' = CancelCompleted(q)
  BY <1>1, <1>3 DEF CancelCompleted, Completes
<1>5. Phase(r) = "taken" /\ Phase(r)' = "freed"
  <2>1. hold[r] = "CONVERTED" /\ ~ CancelCompleted(r)
    BY <1>2 DEF TakenBy
  <2>2. Phase(r) = "taken"
    BY <1>2, <2>1, PhaseFacts
  <2>3. Phase(r)' = IF CancelCompleted(r)' THEN "freed" ELSE "taken"
    BY <1>3, <2>1 DEF Phase
  <2> QED
    BY <1>2, <2>2, <2>3
<1>6. \A q \in Request : q # r => BookingOf(q)' = BookingOf(q)
  <2>1. \A q \in Request : Exists(q) <=> Exists(q)'
    BY <1>3 DEF Exists
  <2> QED
    BY <1>2, <1>3, <1>4, <2>1, SameBooking
<1>7. /\ Bookings[r].phase = "taken"
      /\ Bookings' = [Bookings EXCEPT ![r].phase = "freed"]
  BY <1>2, <1>5, <1>6, MovedBooking
<1>8. Capacities' = Capacities
  BY ConfirmedCapacities DEF CancelStep
<1>9. Ledger!Move(r, "taken", "freed")
  BY <1>2, <1>7, <1>8, LedgerActions
<1> QED
  BY <1>2, <1>9 DEF Ledger!Refund

\* The exchange implements the ledger: whatever fails, is retried, arrives late or
\* crashes, hours are reserved only when free, and taken and freed at most once.
THEOREM ProcessorLedger == ProcessorSpec => ImplementsLedger
<1>1. ProcessorInit /\ ProcessorInv => Ledger!LedgerInit
  <2> SUFFICES ASSUME ProcessorInit, ProcessorInv PROVE Ledger!LedgerInit
    OBVIOUS
  <2>1. Capacities \in [Account -> Nat]
    <3>1. TypeOK
      BY DEF ProcessorInv, ExchangeInv, ProcessorTypeOK
    <3>2. \A a \in Account : CapacityOf(a) \in Nat
      BY <3>1 DEF CapacityOf, TypeOK, ProjectionRow
    <3> QED
      BY <3>2 DEF Capacities
  <2>2. Bookings = [r \in Request |-> [phase |-> "unbooked"]]
    <3>1. \A r \in Request : BookingOf(r) = [phase |-> "unbooked"]
      BY DEF BookingOf, Exists, ProcessorInit, Init
    <3> QED
      BY <3>1 DEF Bookings
  <2> QED
    BY <2>1, <2>2, Zenon DEF Ledger!LedgerInit, Ledger!Unbooked, Bookings, BookingOf,
                             Capacities, CapacityOf
<1>2. ProcessorInv /\ LedgerInv /\ [ProcessorNext]_vars
        => [Ledger!LedgerNext]_(Ledger!ledger)
  <2> SUFFICES ASSUME ProcessorInv, LedgerInv, [ProcessorNext]_vars
               PROVE  Ledger!LedgerNext \/ UNCHANGED Ledger!ledger
    OBVIOUS
  <2>1. ExchangeInv /\ WaitingHasHold /\ ProcessorTypeOK /\ TableInv
    BY DEF ProcessorInv, ExchangeInv, HoldFollowsRequest, WaitingHasHold,
           IsHoldActiveStatus
  <2>2. CASE BookingStep
    <3>1. CASE ReleasesHolds
      BY <2>1, <2>2, <3>1, LedgerReleases DEF Ledger!LedgerNext
    <3>2. ASSUME NEW r \in Request, NEW a \in Account, NEW h \in Hours,
                 BooksHours(r, a, h)
          PROVE  Ledger!LedgerNext
      BY <2>1, <2>2, <3>2, LedgerReserves DEF Ledger!LedgerNext
    <3> QED
      BY <2>2, <3>1, <3>2 DEF BookingStep, BooksOrReleases
  <2>3. ASSUME NEW i \in DOMAIN outbox, PostStep(i)
        PROVE  Ledger!LedgerNext
    BY <2>1, <2>3, LedgerTakes DEF Ledger!LedgerNext
  <2>4. ASSUME NEW i \in DOMAIN outbox, CancelStep(i)
        PROVE  Ledger!LedgerNext
    BY <2>1, <2>4, LedgerRefunds DEF Ledger!LedgerNext
  <2> QED
    BY <2>1, <2>2, <2>3, <2>4, StepKinds
<1> QED
  BY <1>1, <1>2, ProcessorInvariant, LedgerInvariant, PTL
     DEF ProcessorSpec, ImplementsLedger, Ledger!LedgerSpec
=============================================================================
