-------------------------- MODULE BalanceSync_proofs -------------------------
(***************************************************************************)
(* Proofs about the whole of ReadyOn: the request API, the sweep, and the  *)
(* reports that batches, single updates and reconciliation write over what *)
(* the first two are doing, for any number of reports that overtake each   *)
(* other.                                                                  *)
(*                                                                         *)
(* Flagging bypasses the transition table and leaves the hold where it is, *)
(* so that HoldFollowsRequest is lost.  What stays of it is                *)
(* HoldAwaitsDecision, and that is enough for ExchangeInv: a request that  *)
(* is CANCELLED or APPROVED has no ACTIVE hold and is never flagged.       *)
(* NoOverbooking is lost too, whenever the HCM takes hours back; the last  *)
(* section proves what batches leave of it, OverbookedIsFlagged.           *)
(***************************************************************************)
EXTENDS BalanceSync, OutboxLedger_proofs

SyncInv == SyncTypeOK /\ ExchangeInv /\ HoldAwaitsDecision

LEMMA WaitingHolds ==
  ASSUME HoldAwaitsDecision
  PROVE  WaitingHasHold
BY DEF HoldAwaitsDecision, WaitingHasHold, IsHoldActiveStatus

-----------------------------------------------------------------------------
(***************************************************************************)
(* The holds under the request API and the sweep.                          *)
(***************************************************************************)

\* The handlers of the API move a hold with its request, flagged or not.
LEMMA HandlerAwaits ==
  ASSUME TypeOK, HoldAwaitsDecision, Handler
  PROVE  HoldAwaitsDecision'
<1> USE DEF HoldAwaitsDecision, IsHoldActiveStatus
<1>1. ASSUME NEW r \in Request, NEW a \in Account, NEW start \in Day,
             NEW end \in Day, NEW h \in Hours,
             CreateRequest(r, a, start, end, h)
      PROVE  HoldAwaitsDecision'
  <2>1. hold' = [hold EXCEPT ![r] = "ACTIVE"]
    BY <1>1 DEF CreateRequest
  <2> QED
    BY <1>1, <2>1, CreatedRequest DEF TypeOK
<1>2. ASSUME NEW r \in Request, NEW v, ApproveRequest(r, v)
      PROVE  HoldAwaitsDecision'
  <2>1. hold' = hold
    BY <1>2 DEF ApproveRequest
  <2> QED
    BY <1>2, <2>1, ApprovedRequest
<1>3. ASSUME NEW r \in Request, NEW v, RejectRequest(r, v)
      PROVE  HoldAwaitsDecision'
  <2>1. MoveHold(r, "RELEASED") /\ "RELEASED" \in HoldStatus
    BY <1>3 DEF RejectRequest, ReleaseHold, HoldStatus
  <2> QED
    BY <1>3, <2>1, MovedHold, RejectedRequest
<1>4. ASSUME NEW r \in Request, NEW v, CancelRequest(r, v)
      PROVE  HoldAwaitsDecision'
  <2>1. MoveHold(r, "RELEASED") /\ "RELEASED" \in HoldStatus
    BY <1>4 DEF CancelRequest, ReleaseHold, HoldStatus
  <2> QED
    BY <1>4, <2>1, MovedHold, CancelledRequest
<1> QED
  BY <1>1, <1>2, <1>3, <1>4 DEF Handler

\* The exchange with the HCM keeps SyncInv's parts about the tables.
LEMMA ExchangeStep ==
  ASSUME ExchangeInv, HoldAwaitsDecision, ProcessorNext
  PROVE  ExchangeInv' /\ HoldAwaitsDecision'
<1>1. ExchangeInv'
  BY WaitingHolds, ExchangeNextInv
<1>2. HoldAwaitsDecision'
  <2>1. CASE ApiCall
    BY <2>1, HandlerAwaits DEF ApiCall, ExchangeInv, ProcessorTypeOK
  <2>2. CASE Sweep
    BY <2>2, SweepHolds DEF ExchangeInv, HoldAwaitsDecision, IsHoldActiveStatus
  <2>3. CASE UNCHANGED <<request, hold>>
    BY <2>3 DEF HoldAwaitsDecision
  <2> QED
    BY <2>1, <2>2, <2>3 DEF ProcessorNext, Network, CallAnswered, CallDisconnected,
       LateCall, Crash, tables
<1> QED
  BY <1>1, <1>2

-----------------------------------------------------------------------------
(***************************************************************************)
(* What a report does to the tables.                                       *)
(***************************************************************************)

\* A request is left alone, or it has an ACTIVE hold and is flagged.
SameOrFlagged(r) ==
  \/ request'[r] = request[r]
  \/ /\ hold[r] = "ACTIVE"
     /\ request'[r] # NoRequest
     /\ request'[r].status = "RECONCILIATION_REQUIRED"
     /\ request'[r].account = request[r].account
     /\ request'[r].start = request[r].start
     /\ request'[r].end = request[r].end
     /\ request'[r].hours = request[r].hours
     /\ request'[r].reference = request[r].reference

LEMMA FlaggedRow ==
  ASSUME NEW old \in RequestRow, NEW new,
         new = [old EXCEPT !.status = "RECONCILIATION_REQUIRED", !.version = @ + 1]
  PROVE  new =
           [ status |-> "RECONCILIATION_REQUIRED", account |-> old.account,
             start |-> old.start, end |-> old.end, hours |-> old.hours,
             version |-> old.version + 1, reference |-> old.reference ]
BY DEF RequestRow

LEMMA FlaggedRequests ==
  ASSUME TypeOK, HoldAwaitsDecision, NEW a \in Account, FlagActiveHolds(a)
  PROVE  /\ request' \in [Request -> RequestRow \union {NoRequest}]
         /\ \A r \in Request : SameOrFlagged(r)
<1> DEFINE toFlag == { r \in ActiveHolds(a) :
                         request[r].status # "RECONCILIATION_REQUIRED" }
           row(r) == [request[r] EXCEPT !.status = "RECONCILIATION_REQUIRED",
                                        !.version = @ + 1]
<1>1. request' = [r \in Request |-> IF r \in toFlag THEN row(r) ELSE request[r]]
  BY DEF FlagActiveHolds
<1>2. ASSUME NEW r \in toFlag
      PROVE  /\ r \in Request
             /\ row(r) \in RequestRow
             /\ row(r) # NoRequest
             /\ hold[r] = "ACTIVE"
             /\ row(r).status = "RECONCILIATION_REQUIRED"
             /\ row(r).account = request[r].account
             /\ row(r).start = request[r].start
             /\ row(r).end = request[r].end
             /\ row(r).hours = request[r].hours
             /\ row(r).reference = request[r].reference
  <2>1. r \in Request /\ hold[r] = "ACTIVE"
    BY DEF ActiveHolds
  <2>2. request[r] # NoRequest
    BY <2>1 DEF HoldAwaitsDecision, IsHoldActiveStatus, NoRequest
  <2>3. request[r] \in RequestRow
    BY <2>1, <2>2 DEF TypeOK
  <2>4. row(r) = [ status |-> "RECONCILIATION_REQUIRED",
                   account |-> request[r].account, start |-> request[r].start,
                   end |-> request[r].end, hours |-> request[r].hours,
                   version |-> request[r].version + 1,
                   reference |-> request[r].reference ]
    BY <2>3, FlaggedRow
  <2>5. row(r) \in RequestRow
    BY <2>3, <2>4 DEF RequestRow, RequestStatus
  <2>6. row(r) # NoRequest
    BY <2>4 DEF NoRequest
  <2> QED
    BY <2>1, <2>4, <2>5, <2>6
<1> HIDE DEF toFlag, row
<1>3. \A r \in Request : request[r] \in RequestRow \union {NoRequest}
  BY DEF TypeOK
<1> QED
  BY <1>1, <1>2, <1>3 DEF SameOrFlagged

\* What the CHECK constraints let through is a row of the table.
LEMMA WrittenProjection ==
  ASSUME TypeOK, NEW a \in Account, NEW b \in HcmAccount, WriteProjection(a, b)
  PROVE  /\ balance' \in [Account -> ProjectionRow \union {NoProjection}]
         /\ \A c \in Account : balance[c] # NoProjection => balance'[c] # NoProjection
         /\ balance'[a].hcmVersion = b.version
         /\ \A c \in Account : c # a => balance'[c] = balance[c]
<1> DEFINE row == FromHcm(b)
<1>1. row \in ProjectionRow /\ row.hcmVersion = b.version
  BY DEF WriteProjection, ConstraintsHold, FromHcm, SyncedProjection, ProjectionRow,
         HcmAccount
<1>2. balance' = [balance EXCEPT ![a] = row]
  BY DEF WriteProjection
<1> HIDE DEF row
<1>3. NoProjection \notin ProjectionRow
  BY NullAssumption DEF NoProjection, ProjectionRow
<1> QED
  BY <1>1, <1>2, <1>3 DEF TypeOK

\* Every handler of a report writes the projection or not, and flags or not.
LEMMA HandledReport ==
  ASSUME SyncInv, NEW p \in reports, SyncHandler(p)
  PROVE  /\ UNCHANGED <<hold, outbox, processor, late, server, crashes, hcmChanges>>
         /\ reports' \subseteq reports
         /\ p.account \in Account /\ p.balance \in HcmAccount
         /\ UNCHANGED request \/ FlagActiveHolds(p.account)
         /\ UNCHANGED balance \/ WriteProjection(p.account, p.balance)
<1>1. /\ p.account \in Account /\ p.balance \in HcmAccount
      /\ Consumed(p)
  BY DEF SyncInv, SyncTypeOK, Report, SyncHandler, ProcessItem, SingleBalanceUpdate,
         ReconcileOne
<1>2. /\ UNCHANGED request \/ FlagActiveHolds(p.account)
      /\ UNCHANGED balance \/ WriteProjection(p.account, p.balance)
  <2>1. RevalidateHolds(p.account, p.balance) =>
          UNCHANGED request \/ FlagActiveHolds(p.account)
    BY DEF RevalidateHolds
  <2>2. WriteProjection(p.account, p.balance) \/ UNCHANGED balance
    BY DEF SyncHandler, ProcessItem, SingleBalanceUpdate, ReconcileOne,
           ProjectionRefused
  <2>3. UNCHANGED request \/ FlagActiveHolds(p.account)
    BY <2>1 DEF SyncHandler, ProcessItem, SingleBalanceUpdate, ReconcileOne,
           ProjectionRefused
  <2> QED
    BY <2>2, <2>3
<1> QED
  BY <1>1, <1>2 DEF Consumed

-----------------------------------------------------------------------------
(***************************************************************************)
(* A report that is handled in the middle of the exchange keeps it intact. *)
(***************************************************************************)

LEMMA FlagsKeepTables ==
  ASSUME ProcessorTypeOK, TableInv, HoldAwaitsDecision,
         UNCHANGED <<hold, outbox>>,
         \A r \in Request : SameOrFlagged(r),
         \A a \in Account : balance[a] # NoProjection => balance'[a] # NoProjection
  PROVE  TableInv'
<1>1. /\ \A r \in Request : PostsOf(r)' = PostsOf(r)
      /\ \A i : Unsettled(i)' = Unsettled(i)
  BY DEF PostsOf, Unsettled
<1>2. \A r \in Request : request[r] # NoRequest => request[r] \in RequestRow
  BY DEF ProcessorTypeOK, TypeOK
<1>3. ASSUME NEW r \in Request, request'[r] # request[r]
      PROVE  /\ Exists(r)
             /\ request[r].status \in {"PENDING_APPROVAL", "APPROVED_PENDING_HCM",
                                       "RECONCILIATION_REQUIRED"}
  <2>1. hold[r] = "ACTIVE"
    BY <1>3 DEF SameOrFlagged
  <2> QED
    BY <2>1 DEF HoldAwaitsDecision, IsHoldActiveStatus, Exists, NoRequest
<1>4. NoOverlap'
  <2>1. \A r \in Request : OccupiesDates(r)' => request'[r] = request[r]
    BY DEF OccupiesDates, SameOrFlagged
  <2> QED
    BY <2>1 DEF TableInv, NoOverlap, OccupiesDates
<1>5. WaitingRequestHasItsPost'
  BY <1>1 DEF TableInv, PostInv, WaitingRequestHasItsPost, SameOrFlagged
<1>6. NoEarlyPost'
  BY <1>1 DEF TableInv, PostInv, NoEarlyPost, SameOrFlagged, Exists
<1>7. AccountsAreSynced'
  BY <1>2, <1>3 DEF TableInv, AccountsAreSynced, SameOrFlagged, Exists, RequestRow
<1>8. ReferencesArePosts'
  BY <1>1, <1>3 DEF TableInv, ReferencesArePosts, SameOrFlagged, Exists
<1>9. CancelsNamePosts' /\ OneCancel'
  <2>1. \A i \in DOMAIN outbox : outbox[i].request \in Request
    BY EntryFacts
  <2>2. \A i \in DOMAIN outbox : outbox[i].action = "CANCEL_TIME_OFF" =>
          request'[outbox[i].request] = request[outbox[i].request]
    BY <1>3, <2>1 DEF TableInv, CancelsNamePosts
  <2> QED
    BY <1>1, <2>1, <2>2 DEF TableInv, CancelsNamePosts, OneCancel
<1> QED
  BY <1>4, <1>5, <1>6, <1>7, <1>8, <1>9 DEF TableInv, PostInv

LEMMA FlagsKeepServer ==
  ASSUME ProcessorTypeOK, TableInv, ServerInv, HoldAwaitsDecision,
         UNCHANGED <<hold, outbox, server>>,
         \A r \in Request : SameOrFlagged(r)
  PROVE  ServerInv'
<1>1. \A r \in Request : PostsOf(r)' = PostsOf(r)
  BY DEF PostsOf
<1>2. UNCHANGED <<deductions, answered>>
  BY DEF server
<1>3. \A r \in Request :
        /\ request[r].status = "CANCELLED" => request'[r] = request[r]
        /\ request'[r].status = "APPROVED" => request'[r] = request[r]
  BY DEF SameOrFlagged, HoldAwaitsDecision, IsHoldActiveStatus
<1>4. \A i \in answered : outbox[i].request \in Request
  BY EntryFacts DEF ProcessorTypeOK
<1>5. AnsweredIsDeducted'
  BY <1>2, <1>3, <1>4 DEF ServerInv, AnsweredIsDeducted
<1>6. ApprovedIsDeducted'
  BY <1>1, <1>2, <1>3 DEF ServerInv, ApprovedIsDeducted
<1>7. ReferencesAreDeducted'
  BY <1>2, <1>3 DEF ServerInv, ReferencesAreDeducted
<1> QED
  BY <1>5, <1>6, <1>7 DEF ServerInv

LEMMA SyncHandlerInv ==
  ASSUME SyncInv, NEW p \in reports, SyncHandler(p)
  PROVE  SyncInv'
<1>1. /\ UNCHANGED <<hold, outbox, processor, late, server, crashes, hcmChanges>>
      /\ reports' \subseteq reports
      /\ p.account \in Account /\ p.balance \in HcmAccount
      /\ UNCHANGED request \/ FlagActiveHolds(p.account)
      /\ UNCHANGED balance \/ WriteProjection(p.account, p.balance)
  BY HandledReport
<1>2. /\ ProcessorTypeOK /\ TypeOK /\ TableInv /\ SweepInv /\ ServerInv
      /\ HoldAwaitsDecision
  BY DEF SyncInv, ExchangeInv, ProcessorTypeOK
<1>3. /\ request' \in [Request -> RequestRow \union {NoRequest}]
      /\ \A r \in Request : SameOrFlagged(r)
  <2>1. CASE UNCHANGED request
    BY <1>2, <2>1 DEF TypeOK, SameOrFlagged
  <2> QED
    BY <1>1, <1>2, <2>1, FlaggedRequests
<1>4. /\ balance' \in [Account -> ProjectionRow \union {NoProjection}]
      /\ \A a \in Account : balance[a] # NoProjection => balance'[a] # NoProjection
  <2>1. CASE UNCHANGED balance
    BY <1>2, <2>1 DEF TypeOK
  <2> QED
    BY <1>1, <1>2, <2>1, WrittenProjection
<1>5. ProcessorTypeOK'
  BY <1>1, <1>2, <1>3, <1>4 DEF ProcessorTypeOK, TypeOK, processor, server
<1>6. TableInv'
  BY <1>1, <1>2, <1>3, <1>4, FlagsKeepTables
<1>7. SweepInv'
  BY <1>1, <1>2 DEF SweepInv, Current, processor, server
<1>8. ServerInv'
  BY <1>1, <1>2, <1>3, FlagsKeepServer
<1>9. HoldAwaitsDecision'
  BY <1>1, <1>2, <1>3 DEF HoldAwaitsDecision, SameOrFlagged
<1>10. SyncTypeOK'
  BY <1>1, <1>5 DEF SyncInv, SyncTypeOK
<1> QED
  BY <1>5, <1>6, <1>7, <1>8, <1>9, <1>10 DEF SyncInv, ExchangeInv

-----------------------------------------------------------------------------
(***************************************************************************)
(* The HCM's own steps.                                                    *)
(***************************************************************************)

LEMMA UnchangedExchange ==
  ASSUME SyncInv,
         UNCHANGED <<tables, processor, late, deductions, answered, crashes>>,
         hcm' \in [Account -> HcmAccount]
  PROVE  ExchangeInv' /\ HoldAwaitsDecision'
<1>1. ProcessorTypeOK' /\ SweepInv'
  BY DEF SyncInv, ExchangeInv, ProcessorTypeOK, TypeOK, SweepInv, Current, tables,
         processor
<1>2. TableInv'
  BY UnchangedTables DEF SyncInv, ExchangeInv
<1>3. ServerInv'
  BY DEF SyncInv, ExchangeInv, ServerInv, AnsweredIsDeducted, ApprovedIsDeducted,
         ReferencesAreDeducted, PostsOf, tables
<1>4. HoldAwaitsDecision'
  BY DEF SyncInv, HoldAwaitsDecision, tables
<1> QED
  BY <1>1, <1>2, <1>3, <1>4 DEF ExchangeInv

LEMMA HcmSetsBalanceInv ==
  ASSUME SyncInv, NEW a \in Account, NEW new \in HcmChanges, HcmSetsBalance(a, new)
  PROVE  SyncInv'
<1> DEFINE row == [ total |-> new.total, used |-> hcm[a].used + new.elsewhere,
                    version |-> hcm[a].version + 1 ]
<1>1. hcm \in [Account -> HcmAccount]
  BY DEF SyncInv, SyncTypeOK, ProcessorTypeOK
<1>2. row \in HcmAccount
  BY <1>1, HcmChangesAssumption DEF HcmAccount
<1>3. hcm' = [hcm EXCEPT ![a] = row]
  BY <1>1 DEF HcmSetsBalance, HcmAccount
<1> HIDE DEF row
<1>4. hcm' \in [Account -> HcmAccount]
  BY <1>1, <1>2, <1>3
<1>5. ExchangeInv' /\ HoldAwaitsDecision'
  BY <1>4, UnchangedExchange DEF HcmSetsBalance
<1>6. SyncTypeOK'
  BY <1>5, MaxHcmChangesAssumption
     DEF SyncInv, SyncTypeOK, ExchangeInv, HcmSetsBalance
<1> QED
  BY <1>5, <1>6 DEF SyncInv

LEMMA HcmReportsInv ==
  ASSUME SyncInv, NEW c \in Channels, NEW n \in Run, NEW a \in Account,
         HcmReports(c, n, a)
  PROVE  SyncInv'
<1>1. hcm[a] \in HcmAccount
  BY DEF SyncInv, SyncTypeOK, ProcessorTypeOK
<1>2. UNCHANGED <<tables, processor, late, server, crashes, hcmChanges>>
  BY DEF HcmReports, vars
<1>3. hcm' \in [Account -> HcmAccount] /\ UNCHANGED <<deductions, answered>>
  BY <1>2 DEF SyncInv, SyncTypeOK, ProcessorTypeOK, server
<1>4. ExchangeInv' /\ HoldAwaitsDecision'
  BY <1>2, <1>3, UnchangedExchange
<1>5. reports' \subseteq Report
  BY <1>1 DEF SyncInv, SyncTypeOK, HcmReports, Report
<1> QED
  BY <1>2, <1>4, <1>5 DEF SyncInv, SyncTypeOK, ExchangeInv

-----------------------------------------------------------------------------
(***************************************************************************)
(* The theorems.                                                           *)
(***************************************************************************)

LEMMA SyncInitInv == SyncInit => SyncInv
<1> SUFFICES ASSUME SyncInit PROVE SyncInv
  OBVIOUS
<1>1. ProcessorInv /\ request = [r \in Request |-> NoRequest]
      /\ hold = [r \in Request |-> "NONE"]
  BY ProcessorInitInv DEF SyncInit, ProcessorInit, Init
<1>2. HoldAwaitsDecision
  BY <1>1 DEF HoldAwaitsDecision, IsHoldActiveStatus, NoRequest
<1>3. SyncTypeOK
  BY <1>1, MaxHcmChangesAssumption
     DEF SyncInit, SyncTypeOK, ProcessorInv, ExchangeInv
<1> QED
  BY <1>1, <1>2, <1>3 DEF SyncInv, ProcessorInv

LEMMA SyncNextInv == SyncInv /\ [SyncNext]_syncVars => SyncInv'
<1> SUFFICES ASSUME SyncInv, [SyncNext]_syncVars PROVE SyncInv'
  OBVIOUS
<1>1. CASE ProcessorNext /\ UNCHANGED <<reports, hcmChanges>>
  <2>1. ExchangeInv' /\ HoldAwaitsDecision'
    BY <1>1, ExchangeStep DEF SyncInv
  <2> QED
    BY <1>1, <2>1 DEF SyncInv, SyncTypeOK, ExchangeInv
<1>2. ASSUME NEW a \in Account, NEW new \in HcmChanges, HcmSetsBalance(a, new)
      PROVE  SyncInv'
  BY <1>2, HcmSetsBalanceInv
<1>3. ASSUME NEW c \in Channels, NEW n \in Run, NEW a \in Account, HcmReports(c, n, a)
      PROVE  SyncInv'
  BY <1>3, HcmReportsInv
<1>4. ASSUME NEW p \in reports, SyncHandler(p)
      PROVE  SyncInv'
  BY <1>4, SyncHandlerInv
<1>5. CASE UNCHANGED syncVars
  <2>1. /\ UNCHANGED <<tables, processor, late, deductions, answered, crashes>>
        /\ UNCHANGED <<hcm, reports, hcmChanges>>
    BY <1>5 DEF syncVars, vars, server
  <2>2. hcm' \in [Account -> HcmAccount]
    BY <2>1 DEF SyncInv, SyncTypeOK, ProcessorTypeOK
  <2>3. ExchangeInv' /\ HoldAwaitsDecision'
    BY <2>1, <2>2, UnchangedExchange
  <2> QED
    BY <2>1, <2>3 DEF SyncInv, SyncTypeOK, ExchangeInv
<1> QED
  BY <1>1, <1>2, <1>3, <1>4, <1>5 DEF SyncNext

LEMMA SyncInvariant == SyncSpec => []SyncInv
BY SyncInitInv, SyncNextInv, PTL DEF SyncSpec

\* Tables, reports and the HCM are well formed, in whatever order reports arrive.
THEOREM SyncTypeCorrect == SyncSpec => []SyncTypeOK
BY SyncInvariant, PTL DEF SyncInv

\* No batch, update or repair releases a hold or leaves one with a decided request.
THEOREM SyncHolds == SyncSpec => []HoldAwaitsDecision
BY SyncInvariant, PTL DEF SyncInv

\* Flagging in the middle of the exchange strands no waiting request without its post.
THEOREM SyncPosts == SyncSpec => []WaitingRequestHasItsPost
<1>1. SyncInv => WaitingRequestHasItsPost
  BY DEF SyncInv, ExchangeInv, TableInv, PostInv
<1> QED
  BY <1>1, SyncInvariant, PTL

\* Nor does any report make an APPROVED request one that the HCM has not deducted.
THEOREM SyncDeductions == SyncSpec => []ApprovedIsDeducted
<1>1. SyncInv => ApprovedIsDeducted
  BY DEF SyncInv, ExchangeInv, ServerInv
<1> QED
  BY <1>1, SyncInvariant, PTL

\* Dates stay apart: a flagged request gives its days up and never takes them again.
THEOREM SyncDates == SyncSpec => []NoOverlap
<1>1. SyncInv => NoOverlap
  BY DEF SyncInv, ExchangeInv, TableInv
<1> QED
  BY <1>1, SyncInvariant, PTL

\* Nor does flagging, which changes requests that have queued entries, leave a
\* cancellation without its deduction, as long as answers carry the reference.
THEOREM SyncCancellations ==
  ASSUME AnswerHasReference
  PROVE  SyncSpec => []CancellationsFindTheirDeduction
<1>1. SyncInv => CancellationsFindTheirDeduction
  BY DEF SyncInv, ExchangeInv, ServerInv, ReferencesAreDeducted,
         CancellationsFindTheirDeduction
<1> QED
  BY <1>1, SyncInvariant, PTL

\* No step but a cancellation ends a flag.
LEMMA FlagsRemain ==
  ASSUME SyncInv, [SyncNext]_syncVars, NEW r \in Request,
         request[r].status = "RECONCILIATION_REQUIRED"
  PROVE  request'[r].status \in {"RECONCILIATION_REQUIRED", "CANCELLED"}
<1>1. CASE ApiCall
  <2>1. LegalStep(r)
    BY <1>1, HandlerLegal DEF ApiCall, SyncInv, SyncTypeOK, ProcessorTypeOK
  <2>2. request'[r].status # "APPROVED"
    <3>1. request'[r].status = "APPROVED" => request'[r] = request[r]
      BY <1>1, HandlerStatus DEF ApiCall, SyncInv, SyncTypeOK, ProcessorTypeOK
    <3> QED
      BY <3>1
  <2> QED
    BY <2>1, <2>2 DEF LegalStep, IsValidTransition, ValidTransitions, Exists, NoRequest
<1>2. CASE Sweep
  BY <1>2, SweepHolds DEF SyncInv, ExchangeInv
<1>3. CASE \E p \in reports : SyncHandler(p)
  <2>1. PICK p \in reports : SyncHandler(p)
    BY <1>3
  <2>2. \/ UNCHANGED request
        \/ p.account \in Account /\ FlagActiveHolds(p.account)
    BY <2>1, HandledReport
  <2>3. UNCHANGED request \/ SameOrFlagged(r)
    BY <2>2, FlaggedRequests DEF SyncInv, SyncTypeOK, ProcessorTypeOK
  <2> QED
    BY <2>3 DEF SameOrFlagged
<1>4. CASE UNCHANGED request
  BY <1>4
<1> QED
  BY <1>1, <1>2, <1>3, <1>4
     DEF SyncNext, ProcessorNext, Network, CallAnswered, CallDisconnected, LateCall,
         Crash, HcmSetsBalance, HcmReports, vars, syncVars, tables

\* A flagged request waits for a person: neither sweep nor API approves, fails or
\* rejects it, and only the employee's cancellation (cancelRequest) ends the wait.
THEOREM FlagsStay == SyncSpec => FlaggedAwaitsPerson
<1>1. SyncInv /\ [SyncNext]_syncVars =>
        [\A r \in Request : request[r].status = "RECONCILIATION_REQUIRED" =>
           request'[r].status \in {"RECONCILIATION_REQUIRED", "CANCELLED"}]_syncVars
  BY FlagsRemain
<1> QED
  BY <1>1, SyncInvariant, PTL DEF SyncSpec, FlaggedAwaitsPerson

\* A deduction or a refund leaves the versions of the projections alone.
LEMMA DeductedVersion ==
  ASSUME ProcessorTypeOK, TableInv, NEW i \in DOMAIN outbox, ApplyDeduction(i),
         NEW a \in Account
  PROVE  balance[a] # NoProjection => balance'[a].hcmVersion = balance[a].hcmVersion
<1>1. /\ AccountOf(i) \in Account /\ balance[AccountOf(i)] \in ProjectionRow
  BY EntryFacts
<1>2. Deducted(AccountOf(i), ConfirmedHours(i)).hcmVersion
        = balance[AccountOf(i)].hcmVersion
  BY <1>1 DEF Deducted, ProjectionRow
<1> QED
  BY <1>1, <1>2 DEF ApplyDeduction, ProcessorTypeOK, TypeOK

\* Without reconciliation, which writes what it finds, batches and single updates
\* that overtake each other never take a projection back to an older version.
THEOREM VersionsOnlyGrow ==
  ASSUME "reconcile" \notin Channels
  PROVE  SyncSpec => NewVersionsOnly
<1> DEFINE Grows(a) == balance[a] # NoProjection =>
             balance'[a].hcmVersion >= balance[a].hcmVersion
<1>1. SyncInv /\ [SyncNext]_syncVars => [\A a \in Account : Grows(a)]_syncVars
  <2> SUFFICES ASSUME SyncInv, SyncNext, NEW a \in Account, balance[a] # NoProjection
               PROVE  balance'[a].hcmVersion >= balance[a].hcmVersion
    OBVIOUS
  <2>1. balance[a].hcmVersion \in Nat
    BY DEF SyncInv, SyncTypeOK, ProcessorTypeOK, TypeOK, ProjectionRow
  <2>2. CASE ConfirmPost \/ ConfirmCancel
    <3>1. Current \in DOMAIN outbox /\ ApplyDeduction(Current)
      BY <2>2, CallHasEntry DEF ConfirmPost, ConfirmCancel, SyncInv, ExchangeInv
    <3> QED
      BY <2>1, <3>1, DeductedVersion DEF SyncInv, ExchangeInv
  <2>3. CASE \E p \in reports : SyncHandler(p)
    <3>1. PICK p \in reports : SyncHandler(p)
      BY <2>3
    <3>2. p.channel # "reconcile"
      BY DEF SyncInv, SyncTypeOK, Report
    <3>3. /\ p.account \in Account /\ p.balance \in HcmAccount
          /\ \/ UNCHANGED balance
             \/ /\ WriteProjection(p.account, p.balance)
                /\ IsNewer(p.account, p.balance)
      BY <3>1, <3>2, HandledReport
         DEF SyncHandler, ProcessItem, SingleBalanceUpdate, ReconcileOne,
             ProjectionRefused
    <3>4. CASE UNCHANGED balance
      BY <2>1, <3>4
    <3>5. CASE WriteProjection(p.account, p.balance) /\ IsNewer(p.account, p.balance)
      <4>1. /\ balance'[p.account].hcmVersion = p.balance.version
            /\ \A c \in Account : c # p.account => balance'[c] = balance[c]
        BY <3>3, <3>5, WrittenProjection DEF SyncInv, SyncTypeOK, ProcessorTypeOK
      <4>2. p.account = a => p.balance.version > balance[a].hcmVersion
        BY <3>5 DEF IsNewer
      <4>3. p.balance.version \in Nat
        BY <3>3 DEF HcmAccount
      <4> QED
        BY <2>1, <4>1, <4>2, <4>3
    <3> QED
      BY <3>3, <3>4, <3>5
  <2>4. CASE UNCHANGED balance
    BY <2>1, <2>4
  <2>5. ApiCall => UNCHANGED balance
    BY DEF ApiCall, Handler, CreateRequest, ApproveRequest, RejectRequest, CancelRequest
  <2> QED
    BY <2>2, <2>3, <2>4, <2>5
       DEF SyncNext, ProcessorNext, Sweep, ClaimPendingEntries, SkipEntry, SendEntry,
           DropPost, RetryEntry, GiveUpEntry, Network, CallAnswered, CallDisconnected,
           LateCall, Crash, HcmSetsBalance, HcmReports, vars, tables
<1> QED
  BY <1>1, SyncInvariant, PTL DEF SyncSpec, NewVersionsOnly

-----------------------------------------------------------------------------
(***************************************************************************)
(* Balances that no longer cover their holds.  An account is sound when    *)
(* the projection covers its holds or all that rely on it are flagged; the *)
(* steps of all kinds but two keep it sound, and those that look at its    *)
(* holds make it so.                                                       *)
(***************************************************************************)

Covered(a) == EffectiveAvailable(a, {}) >= 0

AllFlagged(a) ==
  \A r \in ActiveHolds(a) : request[r].status = "RECONCILIATION_REQUIRED"

\* OverbookedIsFlagged says that every account is sound.
Sound(a) == balance[a] # NoProjection => Covered(a) \/ AllFlagged(a)

\* The handlers that write a balance and do not look at the holds.
WritesUnseen(p) ==
  \/ SingleBalanceUpdate(p)
  \/ ReconcileOne(p) /\ EffectiveDrift(p.account, p.balance) = 0

\* Requests come one at a time, so that the holds can be summed at any time.
LEMMA HoursNext ==
  ASSUME SyncInv, SyncInv', [SyncNext]_syncVars, HoursDefined
  PROVE  HoursDefined'
<1>1. TypeOK /\ TypeOK' /\ HoldAwaitsDecision /\ HoldAwaitsDecision'
  BY DEF SyncInv, SyncTypeOK, ProcessorTypeOK
<1>2. IsFiniteSet(Existing')
  <2>1. CASE UNCHANGED request
    <3>1. Existing' = Existing
      BY <2>1 DEF Existing, Exists
    <3> QED
      BY <3>1 DEF HoursDefined
  <2>2. CASE ProcessorNext
    <3>1. CASE BookingStep
      BY <1>1, <3>1, Booking DEF BookingStep, HoursDefined
    <3>2. ASSUME NEW i \in DOMAIN outbox, PostStep(i)
          PROVE  IsFiniteSet(Existing')
      <4>1. Exists(outbox[i].request)
        BY EntryFacts DEF SyncInv, ExchangeInv
      <4>2. Existing' = Existing
        BY <3>2, <4>1 DEF Existing, Exists, PostStep, Settles
      <4> QED
        BY <4>2 DEF HoursDefined
    <3> QED
      BY <2>1, <2>2, <3>1, <3>2, WaitingHolds, StepKinds DEF SyncInv, CancelStep
  <2>3. CASE \E p \in reports : SyncHandler(p)
    <3>1. PICK p \in reports : SyncHandler(p)
      BY <2>3
    <3>2. UNCHANGED request \/ (p.account \in Account /\ FlagActiveHolds(p.account))
      BY <3>1, HandledReport
    <3>3. \A r \in Request : SameOrFlagged(r)
      BY <1>1, <3>2, FlaggedRequests DEF SameOrFlagged
    <3>4. Existing' = Existing
      BY <3>3 DEF Existing, Exists, SameOrFlagged, HoursDefined
    <3> QED
      BY <3>4 DEF HoursDefined
  <2> QED
    BY <2>1, <2>2, <2>3
       DEF SyncNext, HcmSetsBalance, HcmReports, vars, syncVars, tables
<1>3. \A r \in Request : hold'[r] = "ACTIVE" => Exists(r)'
  BY <1>1 DEF HoldAwaitsDecision, IsHoldActiveStatus, Exists, NoRequest
<1> QED
  BY <1>2, <1>3 DEF HoursDefined

\* What is available, in terms of the holds, before and after a step.
Availabilities ==
  TypeOK /\ HoursDefined =>
    \A a \in Account : balance[a] # NoProjection =>
      /\ balance[a].projected \in Nat
      /\ ActiveHoldsTotal(a, {}) \in Nat
      /\ Covered(a) <=> ActiveHoldsTotal(a, {}) <= balance[a].projected

LEMMA Availability == Availabilities
<1> SUFFICES ASSUME TypeOK, HoursDefined, NEW a \in Account, balance[a] # NoProjection
             PROVE  /\ balance[a].projected \in Nat
                    /\ ActiveHoldsTotal(a, {}) \in Nat
                    /\ Covered(a) <=> ActiveHoldsTotal(a, {}) <= balance[a].projected
  BY DEF Availabilities
<1>1. balance[a].projected \in Nat /\ ActiveHoldsTotal(a, {}) \in Nat
  BY ActiveTotal DEF ActiveTotals, TypeOK, ProjectionRow
<1> QED
  BY <1>1 DEF Covered, EffectiveAvailable

LEMMA AvailabilityNext == Availabilities'
BY Availability, PTL

\* As long as no hold is new, an account whose holds are all flagged stays one.
LEMMA StaysFlagged ==
  ASSUME SyncInv, SyncInv', [SyncNext]_syncVars, NEW a \in Account, AllFlagged(a),
         ActiveHolds(a)' \subseteq ActiveHolds(a)
  PROVE  AllFlagged(a)'
<1>1. ASSUME NEW r \in ActiveHolds(a)'
      PROVE  request'[r].status = "RECONCILIATION_REQUIRED"
  <2>1. r \in Request /\ hold'[r] = "ACTIVE"
    BY <1>1 DEF ActiveHolds
  <2>2. request'[r].status \in {"RECONCILIATION_REQUIRED", "CANCELLED"}
    BY <1>1, <2>1, FlagsRemain DEF AllFlagged
  <2>3. request'[r].status # "CANCELLED"
    BY <2>1 DEF SyncInv, HoldAwaitsDecision, IsHoldActiveStatus
  <2> QED
    BY <2>2, <2>3
<1> QED
  BY <1>1 DEF AllFlagged

\* A step that neither ends nor starts a hold changes no total.
LEMMA SameHolds ==
  ASSUME TypeOK, TypeOK', HoursDefined, HoursDefined', KeepsHours,
         NEW a \in Account, ActiveHolds(a)' = ActiveHolds(a)
  PROVE  ActiveHoldsTotal(a, {})' = ActiveHoldsTotal(a, {})
<1>1. /\ ActiveHolds(a) \in SUBSET Existing
      /\ ActiveHoldsTotal(a, {}) = SumFunctionOnSet(RequestHours, ActiveHolds(a))
      /\ ActiveHoldsTotal(a, {})' = SumFunctionOnSet(RequestHours', ActiveHolds(a)')
  BY ActiveTotal, ActiveTotalNext DEF ActiveTotals
<1> QED
  BY <1>1, KeptSum

\* Booking takes only what is available, and releasing gives back.
LEMMA BookingStepCovers ==
  ASSUME SyncInv, SyncInv', [SyncNext]_syncVars, HoursDefined, HoursDefined',
         BookingStep, NEW b \in Account, Sound(b)
  PROVE  Sound(b)'
<1>1. /\ TypeOK /\ TypeOK'
      /\ BooksOrReleases /\ UNCHANGED balance
  BY DEF SyncInv, SyncTypeOK, ProcessorTypeOK, BookingStep
<1>2. \A a \in Account : balance[a] # NoProjection =>
        \/ ActiveHoldsTotal(a, {})' <= ActiveHoldsTotal(a, {})
        \/ ActiveHoldsTotal(a, {})' <= balance[a].projected
  BY <1>1, Booking
<1>3. ASSUME NEW a \in Account, balance[a] # NoProjection
      PROVE  /\ balance[a].projected \in Nat
             /\ ActiveHoldsTotal(a, {}) \in Nat
             /\ ActiveHoldsTotal(a, {})' \in Nat
             /\ Covered(a) <=> ActiveHoldsTotal(a, {}) <= balance[a].projected
             /\ Covered(a)' <=> ActiveHoldsTotal(a, {})' <= balance[a].projected
  BY <1>1, <1>3, Availability, AvailabilityNext DEF Availabilities
<1>4. ASSUME NEW a \in Account, balance[a] # NoProjection, ~ Covered(a)
      PROVE  ActiveHolds(a)' \subseteq ActiveHolds(a)
  <2>1. CASE ReleasesHolds
    BY <1>1, <2>1, ReleasedHolds
  <2>2. ASSUME NEW r \in Request, NEW c \in Account, NEW h \in Hours,
               BooksHours(r, c, h)
        PROVE  ActiveHolds(a)' \subseteq ActiveHolds(a)
    <3>1. /\ balance[c] # NoProjection
          /\ balance[c].projected - ActiveHoldsTotal(c, {}) >= h
      BY <2>2 DEF BooksHours, EffectiveAvailable
    <3>2. h \in Nat
      BY HoursAssumption
    <3>3. Covered(c)
      BY <1>3, <3>1, <3>2
    <3> QED
      BY <1>1, <1>4, <2>2, <3>3, BookedHolds
  <2> QED
    BY <1>1, <2>1, <2>2 DEF BooksOrReleases
<1>5. ASSUME balance[b] # NoProjection
      PROVE  Covered(b)' \/ AllFlagged(b)'
  <2>1. CASE Covered(b)
    BY <1>2, <1>3, <1>5, <2>1
  <2>2. CASE ~ Covered(b)
    <3>1. AllFlagged(b)
      BY <1>5, <2>2 DEF Sound
    <3> QED
      BY <1>4, <1>5, <2>2, <3>1, StaysFlagged
  <2> QED
    BY <2>1, <2>2
<1> QED
  BY <1>1, <1>5 DEF Sound

\* A confirmed post moves its hours from the hold to the projection.
LEMMA PostStepCovers ==
  ASSUME SyncInv, SyncInv', [SyncNext]_syncVars, HoursDefined, HoursDefined',
         NEW i \in DOMAIN outbox, PostStep(i), NEW b \in Account, Sound(b)
  PROVE  Sound(b)'
<1>1. /\ ProcessorTypeOK /\ TableInv
      /\ TypeOK /\ TypeOK'
  BY DEF SyncInv, SyncTypeOK, ExchangeInv, ProcessorTypeOK
<1>2. PICK r, a : r = outbox[i].request /\ a = AccountOf(i)
  OBVIOUS
<1>3. /\ r \in Request /\ a \in Account /\ Exists(r)
      /\ request[r].account = a /\ request[r].hours = HoursOf(i)
      /\ HoursOf(i) \in Nat
  BY <1>1, <1>2, EntryFacts DEF AccountOf, HoursOf
<1>4. /\ request[r].status = "APPROVED_PENDING_HCM"
      /\ hold[r] = "ACTIVE" /\ hold'[r] = "CONVERTED"
      /\ Exists(r)'
      /\ request'[r].account = request[r].account
      /\ request'[r].hours = request[r].hours
      /\ \A q \in Request : q # r => request'[q] = request[q] /\ hold'[q] = hold[q]
  BY <1>2 DEF PostStep, Settles, Exists
<1>5. /\ r \in ActiveHolds(a)
      /\ ActiveHolds(a)' = ActiveHolds(a) \ {r}
      /\ b # a => ActiveHolds(b)' = ActiveHolds(b)
  BY <1>3, <1>4 DEF ActiveHolds
<1>6. KeepsHours
  BY <1>3, <1>4 DEF Exists, KeepsHours
<1>7. /\ ActiveHoldsTotal(a, {})' = ActiveHoldsTotal(a, {}) - HoursOf(i)
      /\ b # a => ActiveHoldsTotal(b, {})' = ActiveHoldsTotal(b, {})
  BY <1>1, <1>3, <1>5, <1>6, OneHoldLess, SameHolds
<1>8. /\ ApplyDeduction(i)
      /\ ConfirmedHours(i) = HoursOf(i)
  BY DEF PostStep, ConfirmedHours
<1>9. /\ balance'[a].projected = balance[a].projected - HoursOf(i)
      /\ b # a => balance'[b] = balance[b]
      /\ balance'[b] # NoProjection <=> balance[b] # NoProjection
  BY <1>1, <1>2, <1>8, AppliedDeduction
<1>10. ASSUME balance[b] # NoProjection
       PROVE  Covered(b)' <=> Covered(b)
  <2>1. /\ balance[b].projected \in Nat /\ ActiveHoldsTotal(b, {}) \in Nat
        /\ balance'[b].projected \in Nat /\ ActiveHoldsTotal(b, {})' \in Nat
        /\ Covered(b) <=> ActiveHoldsTotal(b, {}) <= balance[b].projected
        /\ Covered(b)' <=> ActiveHoldsTotal(b, {})' <= balance'[b].projected
    BY <1>1, <1>9, <1>10, Availability, AvailabilityNext DEF Availabilities
  <2> QED
    BY <1>3, <1>7, <1>9, <2>1
<1>11. ASSUME AllFlagged(b)
       PROVE  AllFlagged(b)'
  <2>1. b # a
    BY <1>4, <1>5, <1>11 DEF AllFlagged
  <2> QED
    BY <1>5, <1>11, <2>1, StaysFlagged
<1> QED
  BY <1>9, <1>10, <1>11 DEF Sound

\* A refund leaves the holds alone and gives back.
LEMMA CancelStepCovers ==
  ASSUME SyncInv, SyncInv', HoursDefined, HoursDefined',
         NEW i \in DOMAIN outbox, CancelStep(i), NEW b \in Account, Sound(b)
  PROVE  Sound(b)'
<1>1. /\ ProcessorTypeOK /\ TableInv
      /\ TypeOK /\ TypeOK'
  BY DEF SyncInv, SyncTypeOK, ExchangeInv, ProcessorTypeOK
<1>2. PICK a : a = AccountOf(i)
  OBVIOUS
<1>3. /\ UNCHANGED <<request, hold>>
      /\ ApplyDeduction(i)
      /\ ConfirmedHours(i) = - HoursOf(i)
  BY DEF CancelStep, ConfirmedHours
<1>4. /\ HoursOf(i) \in Nat
      /\ balance'[a].projected = balance[a].projected - ConfirmedHours(i)
      /\ b # a => balance'[b] = balance[b]
      /\ balance'[b] # NoProjection <=> balance[b] # NoProjection
  BY <1>1, <1>2, <1>3, AppliedDeduction
<1>5. KeepsHours /\ ActiveHolds(b)' = ActiveHolds(b)
  BY <1>3 DEF KeepsHours, Exists, ActiveHolds
<1>6. ActiveHoldsTotal(b, {})' = ActiveHoldsTotal(b, {})
  BY <1>1, <1>5, SameHolds
<1>7. ASSUME balance[b] # NoProjection, Covered(b)
      PROVE  Covered(b)'
  <2>1. /\ balance[b].projected \in Nat /\ ActiveHoldsTotal(b, {}) \in Nat
        /\ balance'[b].projected \in Nat
        /\ ActiveHoldsTotal(b, {}) <= balance[b].projected
        /\ Covered(b)' <=> ActiveHoldsTotal(b, {})' <= balance'[b].projected
    BY <1>1, <1>4, <1>7, Availability, AvailabilityNext DEF Availabilities
  <2>2. balance[b].projected <= balance'[b].projected
    BY <1>3, <1>4, <2>1
  <2> QED
    BY <1>6, <2>1, <2>2
<1>8. AllFlagged(b) => AllFlagged(b)'
  BY <1>3, <1>5 DEF AllFlagged
<1> QED
  BY <1>4, <1>7, <1>8 DEF Sound

\* No account has holds before it has a projection.
LEMMA NothingHeld ==
  ASSUME SyncInv, HoursDefined, NEW a \in Account, balance[a] = NoProjection
  PROVE  ActiveHoldsTotal(a, {}) = 0
<1>1. ActiveHolds(a) = {}
  <2>1. \A r \in ActiveHolds(a) : Exists(r) /\ request[r].account = a
    BY DEF ActiveHolds, HoursDefined
  <2>2. \A r \in ActiveHolds(a) : r \in Request
    BY DEF ActiveHolds
  <2> QED
    BY <2>1, <2>2 DEF SyncInv, ExchangeInv, TableInv, AccountsAreSynced
<1>2. TypeOK
  BY DEF SyncInv, SyncTypeOK, ProcessorTypeOK
<1> QED
  BY <1>1, <1>2, ActiveTotal, SumEmpty DEF ActiveTotals

\* Flagging moves no hold, and no hours.
LEMMA FlagsKeepHolds ==
  ASSUME SyncInv, HoursDefined, NEW a \in Account,
         UNCHANGED request \/ FlagActiveHolds(a), UNCHANGED hold
  PROVE  /\ KeepsHours
         /\ \A r \in Request : SameOrFlagged(r)
         /\ \A c \in Account : ActiveHolds(c)' = ActiveHolds(c)
<1>1. TypeOK /\ HoldAwaitsDecision
  BY DEF SyncInv, SyncTypeOK, ProcessorTypeOK
<1>2. \A r \in Request : SameOrFlagged(r)
  <2>1. CASE UNCHANGED request
    BY <2>1 DEF SameOrFlagged
  <2> QED
    BY <1>1, <2>1, FlaggedRequests
<1>3. KeepsHours
  BY <1>2 DEF SameOrFlagged, Exists, KeepsHours
<1> QED
  BY <1>2, <1>3 DEF ActiveHolds, KeepsHours, HoursDefined

\* Whoever flags the requests of an account leaves none of its holds unflagged.
LEMMA AllAreFlagged ==
  ASSUME SyncInv, HoursDefined, NEW a \in Account, FlagActiveHolds(a), UNCHANGED hold
  PROVE  AllFlagged(a)'
<1>1. ASSUME NEW r \in ActiveHolds(a)
      PROVE  request'[r].status = "RECONCILIATION_REQUIRED"
  <2>1. r \in Request /\ Exists(r)
    BY DEF ActiveHolds, HoursDefined
  <2>2. request[r] \in RequestRow
    BY <2>1 DEF SyncInv, SyncTypeOK, ProcessorTypeOK, TypeOK, Exists
  <2>3. CASE request[r].status = "RECONCILIATION_REQUIRED"
    BY <2>1, <2>3 DEF FlagActiveHolds
  <2>4. CASE request[r].status # "RECONCILIATION_REQUIRED"
    <3>1. request'[r] = [request[r] EXCEPT !.status = "RECONCILIATION_REQUIRED",
                                           !.version = @ + 1]
      BY <2>1, <2>4 DEF FlagActiveHolds
    <3> QED
      BY <2>2, <3>1 DEF RequestRow
  <2> QED
    BY <2>3, <2>4
<1> QED
  BY <1>1, FlagsKeepHolds DEF AllFlagged

\* What the statement that writes a balance leaves of it.
LEMMA WrittenBalance ==
  ASSUME SyncInv, NEW a \in Account, NEW b \in HcmAccount, WriteProjection(a, b)
  PROVE  /\ balance'[a].projected = b.total - b.used
         /\ balance'[a] # NoProjection
         /\ b.total - b.used >= 0 /\ b.total - b.used \in Int
         /\ \A c \in Account : c # a => balance'[c] = balance[c]
<1>0. TypeOK
  BY DEF SyncInv, SyncTypeOK, ProcessorTypeOK
<1>1. balance' = [balance EXCEPT ![a] = FromHcm(b)] /\ ConstraintsHold(FromHcm(b))
  BY DEF WriteProjection
<1>2. balance'[a] = FromHcm(b) /\ \A c \in Account : c # a => balance'[c] = balance[c]
  BY <1>0, <1>1 DEF TypeOK
<1>3. FromHcm(b).projected = b.total - b.used /\ FromHcm(b).total = b.total
  BY DEF FromHcm, SyncedProjection
<1>4. b.total \in Nat /\ b.used \in Int
  BY DEF HcmAccount
<1>5. balance'[a] # NoProjection
  BY <1>2, <1>3, <1>4, NullAssumption DEF NoProjection
<1> QED
  BY <1>1, <1>2, <1>3, <1>4, <1>5 DEF ConstraintsHold

\* Whoever looks at the holds after the write leaves the account covered or flagged,
\* however short it was before.
LEMMA RevalidatedAccount ==
  ASSUME SyncInv, SyncInv', HoursDefined, HoursDefined',
         NEW a \in Account, NEW b \in HcmAccount,
         WriteProjection(a, b), RevalidateHolds(a, b), UNCHANGED hold
  PROVE  Covered(a)' \/ AllFlagged(a)'
<1>1. /\ TypeOK /\ TypeOK'
      /\ UNCHANGED request \/ FlagActiveHolds(a)
  BY DEF SyncInv, SyncTypeOK, ProcessorTypeOK, RevalidateHolds
<1>2. ActiveHoldsTotal(a, {})' = ActiveHoldsTotal(a, {})
  BY <1>1, FlagsKeepHolds, SameHolds
<1>3. /\ balance'[a].projected = b.total - b.used
      /\ balance'[a] # NoProjection
      /\ b.total - b.used >= 0 /\ b.total - b.used \in Int
  BY WrittenBalance
<1>4. /\ ActiveHoldsTotal(a, {}) \in Nat
      /\ Covered(a)' <=> ActiveHoldsTotal(a, {})' <= balance'[a].projected
  BY <1>1, <1>3, ActiveTotal, AvailabilityNext DEF ActiveTotals, Availabilities
<1>5. CASE balance[a] = NoProjection
  BY <1>2, <1>3, <1>4, <1>5, NothingHeld
<1>6. CASE FlagActiveHolds(a)
  BY <1>6, AllAreFlagged
<1>7. CASE b.total - b.used >= ActiveHoldsTotal(a, {})
  BY <1>2, <1>3, <1>4, <1>7
<1> QED
  BY <1>3, <1>4, <1>5, <1>6, <1>7 DEF RevalidateHolds

\* What happens to one account leaves the others as they were.
LEMMA OtherAccount ==
  ASSUME SyncInv, SyncInv', HoursDefined, HoursDefined',
         NEW a \in Account, NEW b \in HcmAccount,
         UNCHANGED request \/ FlagActiveHolds(a),
         UNCHANGED balance \/ WriteProjection(a, b), UNCHANGED hold,
         NEW c \in Account, c # a, Sound(c)
  PROVE  Sound(c)'
<1>1. /\ TypeOK /\ TypeOK'
      /\ balance'[c] = balance[c]
  BY WrittenBalance DEF SyncInv, SyncTypeOK, ProcessorTypeOK
<1>2. /\ KeepsHours
      /\ \A r \in Request : SameOrFlagged(r)
      /\ ActiveHolds(c)' = ActiveHolds(c)
  BY FlagsKeepHolds
<1>3. ASSUME balance[c] # NoProjection
      PROVE  Covered(c)' <=> Covered(c)
  <2>1. ActiveHoldsTotal(c, {})' = ActiveHoldsTotal(c, {})
    BY <1>1, <1>2, SameHolds
  <2> QED
    BY <1>1, <1>3, <2>1, Availability, AvailabilityNext DEF Availabilities
<1>4. AllFlagged(c) => AllFlagged(c)'
  BY <1>2 DEF AllFlagged, SameOrFlagged, ActiveHolds
<1> QED
  BY <1>1, <1>3, <1>4 DEF Sound

\* A report that changes neither requests nor balances, and what happens at the HCM.
LEMMA SameTablesSound ==
  ASSUME SyncInv, SyncInv', [SyncNext]_syncVars, HoursDefined, HoursDefined',
         UNCHANGED tables, NEW a \in Account, Sound(a)
  PROVE  Sound(a)'
<1>1. BookingStep
  BY UnchangedHolds, SameOutboxConfirmsNothing DEF tables, BookingStep
<1> QED
  BY <1>1, BookingStepCovers

\* A batch item that is stored, a repair, and drift that is beyond repair.
LEMMA LookedAt ==
  ASSUME SyncInv, SyncInv', HoursDefined, HoursDefined',
         NEW p \in reports, SyncHandler(p), ~ WritesUnseen(p)
  PROVE  Sound(p.account)' \/ UNCHANGED tables
<1>1. PICK a, b : a = p.account /\ b = p.balance
  OBVIOUS
<1>2. /\ a \in Account /\ b \in HcmAccount
      /\ UNCHANGED <<hold, outbox>>
  BY <1>1, HandledReport
<1>3. \/ UNCHANGED <<request, balance>>
      \/ WriteProjection(a, b) /\ RevalidateHolds(a, b)
      \/ FlagActiveHolds(a)
  <2>1. CASE ProcessItem(p)
    BY <1>1, <2>1 DEF ProcessItem, ProjectionRefused
  <2>2. CASE ReconcileOne(p) /\ EffectiveDrift(a, b) # 0
    BY <1>1, <2>2 DEF ReconcileOne, ProjectionRefused
  <2> QED
    BY <1>1, <2>1, <2>2 DEF SyncHandler, WritesUnseen
<1>4. CASE UNCHANGED <<request, balance>>
  BY <1>2, <1>4 DEF tables
<1>5. CASE WriteProjection(a, b) /\ RevalidateHolds(a, b)
  BY <1>1, <1>2, <1>5, RevalidatedAccount DEF Sound
<1>6. CASE FlagActiveHolds(a)
  BY <1>1, <1>2, <1>6, AllAreFlagged DEF Sound
<1> QED
  BY <1>3, <1>4, <1>5, <1>6

LEMMA SoundNext ==
  ASSUME SyncInv, SyncInv', [SyncNext]_syncVars, HoursDefined, HoursDefined',
         NEW a \in Account, Sound(a)
  PROVE  Sound(a)' \/ \E p \in reports : p.account = a /\ WritesUnseen(p)
<1>1. CASE ProcessorNext
  <2>1. BookingStep \/ \E i \in DOMAIN outbox : PostStep(i) \/ CancelStep(i)
    BY <1>1, WaitingHolds, StepKinds DEF SyncInv
  <2> QED
    BY <2>1, BookingStepCovers, PostStepCovers, CancelStepCovers
<1>2. ASSUME NEW p \in reports, SyncHandler(p)
      PROVE  Sound(a)' \/ (p.account = a /\ WritesUnseen(p))
  <2>1. CASE p.account # a
    <3>1. PICK c, b : c = p.account /\ b = p.balance
      OBVIOUS
    <3>2. /\ c \in Account /\ b \in HcmAccount
          /\ UNCHANGED request \/ FlagActiveHolds(c)
          /\ UNCHANGED balance \/ WriteProjection(c, b)
          /\ UNCHANGED hold
      BY <1>2, <3>1, HandledReport
    <3> QED
      BY <2>1, <3>1, <3>2, OtherAccount
  <2>2. CASE p.account = a /\ ~ WritesUnseen(p)
    <3>1. Sound(a)' \/ UNCHANGED tables
      BY <1>2, <2>2, LookedAt
    <3> QED
      BY <3>1, SameTablesSound
  <2> QED
    BY <2>1, <2>2
<1>3. CASE UNCHANGED tables
  BY <1>3, SameTablesSound
<1> QED
  BY <1>1, <1>2, <1>3
     DEF SyncNext, HcmSetsBalance, HcmReports, vars, syncVars

LEMMA HoursInvariant == SyncSpec => []HoursDefined
<1>1. SyncInit => HoursDefined
  BY InitHours DEF SyncInit, ProcessorInit
<1>2. SyncInv /\ SyncInv' /\ HoursDefined /\ [SyncNext]_syncVars => HoursDefined'
  BY HoursNext
<1> QED
  BY <1>1, <1>2, SyncInvariant, PTL DEF SyncSpec

\* Whatever the channels, an account gets short without its requests being flagged
\* in two ways only: singleBalanceUpdate, and a reconciliation that sees no drift.
THEOREM OnlyUnseenWritesOverbook ==
  SyncSpec => [][\A a \in Account : Sound(a) =>
                   \/ Sound(a)'
                   \/ \E p \in reports : p.account = a /\ WritesUnseen(p)]_syncVars
<1>1. SyncInv /\ SyncInv' /\ HoursDefined /\ HoursDefined' /\ [SyncNext]_syncVars =>
        [\A a \in Account : Sound(a) =>
           \/ Sound(a)'
           \/ \E p \in reports : p.account = a /\ WritesUnseen(p)]_syncVars
  BY SoundNext
<1> QED
  BY <1>1, SyncInvariant, HoursInvariant, PTL DEF SyncSpec

\* And the other handlers make up for it: if one changes anything, the account is
\* covered or all its requests are flagged, however short it was before.
THEOREM LookingMakesSound ==
  SyncSpec => [][\A p \in reports : SyncHandler(p) /\ ~ WritesUnseen(p) =>
                   Sound(p.account)' \/ UNCHANGED tables]_syncVars
<1>1. SyncInv /\ SyncInv' /\ HoursDefined /\ HoursDefined' /\ [SyncNext]_syncVars =>
        [\A p \in reports : SyncHandler(p) /\ ~ WritesUnseen(p) =>
           Sound(p.account)' \/ UNCHANGED tables]_syncVars
  BY LookedAt
<1> QED
  BY <1>1, SyncInvariant, HoursInvariant, PTL DEF SyncSpec

\* Where batches are all that comes from the HCM, whatever they say and in
\* whatever order: an account whose balance no longer covers its holds has no
\* request that goes on unflagged.
THEOREM OverbookingIsFlagged ==
  ASSUME Channels \subseteq {"batch"}
  PROVE  SyncSpec => []OverbookedIsFlagged
<1> DEFINE AllSound == \A a \in Account : Sound(a)
<1>1. SyncInit => AllSound
  BY InitHours DEF SyncInit, ProcessorInit, Sound, AllFlagged
<1>2. SyncInv /\ SyncInv' /\ HoursDefined /\ HoursDefined' /\ AllSound
        /\ [SyncNext]_syncVars => AllSound'
  <2>1. SyncInv => \A p \in reports : ~ WritesUnseen(p)
    BY DEF SyncInv, SyncTypeOK, Report, WritesUnseen, SingleBalanceUpdate, ReconcileOne
  <2> QED
    BY <2>1, SoundNext
<1>3. AllSound => OverbookedIsFlagged
  BY DEF Sound, Covered, AllFlagged, OverbookedIsFlagged
<1> QED
  BY <1>1, <1>2, <1>3, SyncInvariant, HoursInvariant, PTL DEF SyncSpec
=============================================================================
