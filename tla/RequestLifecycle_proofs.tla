----------------------- MODULE RequestLifecycle_proofs ----------------------
(***************************************************************************)
(* Proofs about RequestLifecycle, for every set of requests and accounts,  *)
(* every calendar and every hours.                                         *)
(*                                                                         *)
(* The lemmas about single handlers do not mention the specification: the  *)
(* modules that compose RequestLifecycle with the sweep cite them again.   *)
(***************************************************************************)
EXTENDS RequestLifecycle, HourSums, TLAPS

-----------------------------------------------------------------------------
(***************************************************************************)
(* The table of outbox entries.                                            *)
(***************************************************************************)

\* Marking entries keeps the table well formed and changes nothing else.
LEMMA MarkedOutbox ==
  ASSUME outbox \in Seq(OutboxRow), NEW E, NEW s \in OutboxStatus
  PROVE  /\ Marked(E, s) \in Seq(OutboxRow)
         /\ DOMAIN Marked(E, s) = DOMAIN outbox
         /\ \A i \in DOMAIN outbox :
              /\ Marked(E, s)[i].request = outbox[i].request
              /\ Marked(E, s)[i].action = outbox[i].action
              /\ Marked(E, s)[i].retryCount = outbox[i].retryCount
              /\ Marked(E, s)[i].reference = outbox[i].reference
              /\ Marked(E, s)[i].status =
                   IF i \in E THEN s ELSE outbox[i].status
<1>1. \A i \in DOMAIN outbox : outbox[i] \in OutboxRow
  OBVIOUS
<1>2. /\ DOMAIN Marked(E, s) = DOMAIN outbox
      /\ \A i \in DOMAIN outbox : Marked(E, s)[i] \in OutboxRow
  BY <1>1 DEF Marked, OutboxRow
<1>3. Marked(E, s) \in Seq(OutboxRow)
  <2>1. Marked(E, s) = [i \in 1 .. Len(outbox) |-> Marked(E, s)[i]]
    BY DEF Marked
  <2>2. \A i \in 1 .. Len(outbox) : Marked(E, s)[i] \in OutboxRow
    BY <1>2
  <2> QED
    BY <2>1, <2>2, Len(outbox) \in Nat
<1> QED
  BY <1>1, <1>2, <1>3 DEF Marked, OutboxRow

\* Inserting an entry keeps the table well formed and the others as they are.
LEMMA AppendedOutbox ==
  ASSUME outbox \in Seq(OutboxRow), NEW e \in OutboxRow
  PROVE  /\ Append(outbox, e) \in Seq(OutboxRow)
         /\ Len(outbox) + 1 \notin DOMAIN outbox
         /\ DOMAIN Append(outbox, e) = DOMAIN outbox \union {Len(outbox) + 1}
         /\ \A i \in DOMAIN outbox : Append(outbox, e)[i] = outbox[i]
         /\ Append(outbox, e)[Len(outbox) + 1] = e
OBVIOUS

-----------------------------------------------------------------------------
(***************************************************************************)
(* Type correctness.                                                       *)
(***************************************************************************)

\* What updateStatus leaves behind.
LEMMA UpdatedRequest ==
  ASSUME TypeOK, NEW r \in Request, Exists(r),
         NEW s \in RequestStatus, NEW v, NEW ref \in Nat \union {NULL},
         UpdateStatus(r, s, v, ref)
  PROVE  /\ request' \in [Request -> RequestRow \union {NoRequest}]
         /\ request'[r].status = s
         /\ request'[r] # NoRequest
         /\ request'[r].account = request[r].account
         /\ request'[r].start = request[r].start
         /\ request'[r].end = request[r].end
         /\ request'[r].hours = request[r].hours
         /\ request'[r].reference = ref
         /\ \A q \in Request : q # r => request'[q] = request[q]
<1>1. request[r] \in RequestRow
  BY DEF TypeOK, Exists
<1>2. request'[r] =
        [ status |-> s, account |-> request[r].account,
          start |-> request[r].start, end |-> request[r].end,
          hours |-> request[r].hours, version |-> request[r].version + 1,
          reference |-> ref ]
  BY <1>1 DEF UpdateStatus, TypeOK, RequestRow
<1>3. request'[r] \in RequestRow
  BY <1>1, <1>2 DEF RequestRow
<1>4. request'[r].status # "NONE"
  BY <1>3 DEF RequestRow, RequestStatus
<1>5. request'[r] # NoRequest
  BY <1>4 DEF NoRequest
<1> QED
  BY <1>1, <1>2, <1>3, <1>5 DEF UpdateStatus, TypeOK, RequestRow

\* What release and convert leave behind.
LEMMA MovedHold ==
  ASSUME TypeOK, NEW r \in Request, NEW s \in HoldStatus, MoveHold(r, s)
  PROVE  /\ hold' \in [Request -> HoldStatus \union {"NONE"}]
         /\ hold'[r] = IF hold[r] = "ACTIVE" THEN s ELSE hold[r]
         /\ \A q \in Request : q # r => hold'[q] = hold[q]
BY DEF MoveHold, TypeOK

LEMMA CreateRequestType ==
  ASSUME TypeOK, NEW r \in Request, NEW a \in Account,
         NEW start \in Day, NEW end \in Day, NEW h \in Hours,
         CreateRequest(r, a, start, end, h)
  PROVE  TypeOK'
<1>1. h \in Nat \ {0}
  BY HoursAssumption
<1>2. [ status |-> "PENDING_APPROVAL", account |-> a, start |-> start,
        end |-> end, hours |-> h, version |-> 1, reference |-> NULL ]
        \in RequestRow
  BY <1>1 DEF RequestRow, RequestStatus
<1> QED
  BY <1>2 DEF TypeOK, CreateRequest, HoldStatus

LEMMA NewEntryType ==
  ASSUME NEW r \in Request, NEW a \in OutboxAction, NEW ref \in Nat \union {NULL}
  PROVE  OutboxEntry(r, a, ref) \in OutboxRow
BY DEF OutboxEntry, OutboxRow, OutboxStatus

LEMMA ApproveRequestType ==
  ASSUME TypeOK, NEW r \in Request, NEW v, ApproveRequest(r, v)
  PROVE  TypeOK'
<1>1. Exists(r) /\ request[r] \in RequestRow
  BY DEF ApproveRequest, TypeOK, Exists
<1>2. request' \in [Request -> RequestRow \union {NoRequest}]
  <2>1. request[r].reference \in Nat \union {NULL}
    BY <1>1 DEF RequestRow
  <2> QED
    BY <1>1, <2>1, UpdatedRequest DEF ApproveRequest, RequestStatus
<1>3. outbox' \in Seq(OutboxRow)
  <2>1. OutboxEntry(r, "POST_TIME_OFF", NULL) \in OutboxRow
    BY NewEntryType DEF OutboxAction
  <2> QED
    BY <2>1, AppendedOutbox DEF ApproveRequest, TypeOK
<1> QED
  BY <1>2, <1>3 DEF TypeOK, ApproveRequest

LEMMA RejectRequestType ==
  ASSUME TypeOK, NEW r \in Request, NEW v, RejectRequest(r, v)
  PROVE  TypeOK'
<1>1. Exists(r) /\ request[r] \in RequestRow
  BY DEF RejectRequest, TypeOK, Exists
<1>2. request' \in [Request -> RequestRow \union {NoRequest}]
  <2>1. request[r].reference \in Nat \union {NULL}
    BY <1>1 DEF RequestRow
  <2> QED
    BY <1>1, <2>1, UpdatedRequest DEF RejectRequest, RequestStatus
<1>3. hold' \in [Request -> HoldStatus \union {"NONE"}]
  BY MovedHold DEF RejectRequest, ReleaseHold, HoldStatus
<1> QED
  BY <1>2, <1>3 DEF TypeOK, RejectRequest

LEMMA CancelRequestType ==
  ASSUME TypeOK, NEW r \in Request, NEW v, CancelRequest(r, v)
  PROVE  TypeOK'
<1>1. Exists(r) /\ request[r] \in RequestRow
  BY DEF CancelRequest, TypeOK, Exists
<1>2. request[r].reference \in Nat \union {NULL}
  BY <1>1 DEF RequestRow
<1>3. request' \in [Request -> RequestRow \union {NoRequest}]
  BY <1>1, <1>2, UpdatedRequest DEF CancelRequest, RequestStatus
<1>4. hold' \in [Request -> HoldStatus \union {"NONE"}]
  BY MovedHold DEF CancelRequest, ReleaseHold, HoldStatus
<1>5. outbox' \in Seq(OutboxRow)
  <2>1. CASE outbox' = CancelByRequestId(r)
    BY <2>1, MarkedOutbox DEF CancelByRequestId, TypeOK, OutboxStatus
  <2>2. CASE outbox' = Append(outbox,
               OutboxEntry(r, "CANCEL_TIME_OFF", request[r].reference))
    <3>1. OutboxEntry(r, "CANCEL_TIME_OFF", request[r].reference) \in OutboxRow
      BY <1>2, NewEntryType DEF OutboxAction
    <3> QED
      BY <2>2, <3>1, AppendedOutbox DEF TypeOK
  <2>3. CASE UNCHANGED outbox
    BY <2>3 DEF TypeOK
  <2> QED
    BY <2>1, <2>2, <2>3 DEF CancelRequest
<1> QED
  BY <1>3, <1>4, <1>5 DEF TypeOK, CancelRequest

LEMMA HandlerType ==
  ASSUME TypeOK, Handler
  PROVE  TypeOK'
BY CreateRequestType, ApproveRequestType, RejectRequestType, CancelRequestType
   DEF Handler

LEMMA InitType == Init => TypeOK
<1> SUFFICES ASSUME Init PROVE TypeOK
  OBVIOUS
<1>1. \A t \in Allowance : SyncedProjection(t, 0, 0) \in ProjectionRow
  BY AllowanceAssumption DEF SyncedProjection, ProjectionRow
<1> QED
  BY <1>1 DEF Init, TypeOK

\* The tables always hold well-formed rows.
THEOREM TypeCorrect == Spec => []TypeOK
<1>1. TypeOK /\ [Handler]_tables => TypeOK'
  BY HandlerType DEF tables, TypeOK
<1> QED
  BY InitType, <1>1, PTL DEF Spec

-----------------------------------------------------------------------------
(***************************************************************************)
(* Holds and requests.                                                     *)
(***************************************************************************)

\* A status some transition leads out of or into is not "NONE".
LEMMA TransitionFacts ==
  ASSUME TypeOK, NEW r \in Request, Exists(r), NEW s,
         IsValidTransition(request[r].status, s)
  PROVE  /\ s = "APPROVED_PENDING_HCM" => request[r].status = "PENDING_APPROVAL"
         /\ s = "REJECTED" => request[r].status = "PENDING_APPROVAL"
         /\ s = "CANCELLED" => request[r].status \in
              {"PENDING_APPROVAL", "APPROVED_PENDING_HCM", "APPROVED",
               "RECONCILIATION_REQUIRED"}
<1>1. request[r].status \in RequestStatus
  BY DEF TypeOK, Exists, RequestRow
<1> QED
  BY <1>1 DEF IsValidTransition, ValidTransitions, RequestStatus

\* What approveRequest, rejectRequest and cancelRequest do to the request.
LEMMA ApprovedRequest ==
  ASSUME TypeOK, NEW r \in Request, NEW v, ApproveRequest(r, v)
  PROVE  /\ request[r].status = "PENDING_APPROVAL"
         /\ request'[r].status = "APPROVED_PENDING_HCM"
         /\ request'[r] # NoRequest
         /\ request'[r].account = request[r].account
         /\ request'[r].start = request[r].start
         /\ request'[r].end = request[r].end
         /\ \A q \in Request : q # r => request'[q] = request[q]
<1>1. Exists(r) /\ request[r] \in RequestRow
  BY DEF ApproveRequest, TypeOK, Exists
<1>2. request[r].reference \in Nat \union {NULL}
  BY <1>1 DEF RequestRow
<1>3. UpdateStatus(r, "APPROVED_PENDING_HCM", v, request[r].reference)
  BY DEF ApproveRequest
<1>4. "APPROVED_PENDING_HCM" \in RequestStatus
  BY DEF RequestStatus
<1>5. request[r].status = "PENDING_APPROVAL"
  BY <1>1, TransitionFacts DEF ApproveRequest
<1> QED
  BY <1>1, <1>2, <1>3, <1>4, <1>5, UpdatedRequest

LEMMA RejectedRequest ==
  ASSUME TypeOK, NEW r \in Request, NEW v, RejectRequest(r, v)
  PROVE  /\ request[r].status = "PENDING_APPROVAL"
         /\ request'[r].status = "REJECTED"
         /\ request'[r] # NoRequest
         /\ \A q \in Request : q # r => request'[q] = request[q]
<1>1. Exists(r) /\ request[r] \in RequestRow
  BY DEF RejectRequest, TypeOK, Exists
<1>2. request[r].reference \in Nat \union {NULL}
  BY <1>1 DEF RequestRow
<1>3. UpdateStatus(r, "REJECTED", v, request[r].reference)
  BY DEF RejectRequest
<1>4. "REJECTED" \in RequestStatus
  BY DEF RequestStatus
<1>5. request[r].status = "PENDING_APPROVAL"
  BY <1>1, TransitionFacts DEF RejectRequest
<1> QED
  BY <1>1, <1>2, <1>3, <1>4, <1>5, UpdatedRequest

LEMMA CancelledRequest ==
  ASSUME TypeOK, NEW r \in Request, NEW v, CancelRequest(r, v)
  PROVE  /\ Exists(r)
         /\ request[r].status \in {"PENDING_APPROVAL", "APPROVED_PENDING_HCM",
                                   "APPROVED", "RECONCILIATION_REQUIRED"}
         /\ request'[r].status = "CANCELLED"
         /\ request'[r] # NoRequest
         /\ \A q \in Request : q # r => request'[q] = request[q]
<1>1. Exists(r) /\ request[r] \in RequestRow
  BY DEF CancelRequest, TypeOK, Exists
<1>2. request[r].reference \in Nat \union {NULL}
  BY <1>1 DEF RequestRow
<1>3. UpdateStatus(r, "CANCELLED", v, request[r].reference)
  BY DEF CancelRequest
<1>4. "CANCELLED" \in RequestStatus
  BY DEF RequestStatus
<1>5. request[r].status \in {"PENDING_APPROVAL", "APPROVED_PENDING_HCM",
                             "APPROVED", "RECONCILIATION_REQUIRED"}
  BY <1>1, TransitionFacts DEF CancelRequest
<1> QED
  BY <1>1, <1>2, <1>3, <1>4, <1>5, UpdatedRequest

LEMMA CreatedRequest ==
  ASSUME TypeOK, NEW r \in Request, NEW a \in Account,
         NEW start \in Day, NEW end \in Day, NEW h \in Hours,
         CreateRequest(r, a, start, end, h)
  PROVE  /\ request[r] = NoRequest
         /\ request'[r].status = "PENDING_APPROVAL"
         /\ request'[r] # NoRequest
         /\ request'[r].account = a
         /\ request'[r].start = start
         /\ request'[r].end = end
         /\ \A q \in Request : q # r => request'[q] = request[q]
<1>1. request'[r].status = "PENDING_APPROVAL" /\ NoRequest.status = "NONE"
  BY DEF CreateRequest, TypeOK, NoRequest
<1> QED
  BY <1>1 DEF CreateRequest, Exists, TypeOK

\* Every handler moves the hold along with the request.
LEMMA HandlerHold ==
  ASSUME TypeOK, HoldFollowsRequest, Handler
  PROVE  HoldFollowsRequest'
<1>1. ASSUME NEW r \in Request, NEW a \in Account, NEW start \in Day,
             NEW end \in Day, NEW h \in Hours,
             CreateRequest(r, a, start, end, h)
      PROVE  HoldFollowsRequest'
  <2>1. hold' = [hold EXCEPT ![r] = "ACTIVE"]
    BY <1>1 DEF CreateRequest
  <2> QED
    BY <1>1, <2>1, CreatedRequest
       DEF HoldFollowsRequest, IsHoldActiveStatus, TypeOK
<1>2. ASSUME NEW r \in Request, NEW v, ApproveRequest(r, v)
      PROVE  HoldFollowsRequest'
  <2>1. hold' = hold
    BY <1>2 DEF ApproveRequest
  <2> QED
    BY <1>2, <2>1, ApprovedRequest DEF HoldFollowsRequest, IsHoldActiveStatus
<1>3. ASSUME NEW r \in Request, NEW v, RejectRequest(r, v)
      PROVE  HoldFollowsRequest'
  <2>1. MoveHold(r, "RELEASED") /\ "RELEASED" \in HoldStatus
    BY <1>3 DEF RejectRequest, ReleaseHold, HoldStatus
  <2> QED
    BY <1>3, <2>1, MovedHold, RejectedRequest
       DEF HoldFollowsRequest, IsHoldActiveStatus
<1>4. ASSUME NEW r \in Request, NEW v, CancelRequest(r, v)
      PROVE  HoldFollowsRequest'
  <2>1. MoveHold(r, "RELEASED") /\ "RELEASED" \in HoldStatus
    BY <1>4 DEF CancelRequest, ReleaseHold, HoldStatus
  <2> QED
    BY <1>4, <2>1, MovedHold, CancelledRequest
       DEF HoldFollowsRequest, IsHoldActiveStatus
<1> QED
  BY <1>1, <1>2, <1>3, <1>4 DEF Handler

\* A hold is ACTIVE exactly while its request waits for the manager or the HCM.
THEOREM HoldsFollowRequests == Spec => []HoldFollowsRequest
<1>1. Init => HoldFollowsRequest
  BY DEF Init, HoldFollowsRequest, IsHoldActiveStatus, NoRequest
<1>2. TypeOK /\ HoldFollowsRequest /\ [Handler]_tables => HoldFollowsRequest'
  <2>1. CASE Handler
    BY <2>1, HandlerHold
  <2>2. CASE UNCHANGED tables
    BY <2>2 DEF tables, HoldFollowsRequest
  <2> QED
    BY <2>1, <2>2
<1> QED
  BY <1>1, <1>2, TypeCorrect, PTL DEF Spec

-----------------------------------------------------------------------------
(***************************************************************************)
(* Dates.                                                                  *)
(***************************************************************************)

\* No handler makes two requests of an account share a day.
LEMMA HandlerOverlap ==
  ASSUME TypeOK, NoOverlap, Handler
  PROVE  NoOverlap'
<1> USE DEF NoOverlap, OccupiesDates
<1>1. ASSUME NEW r \in Request, NEW a \in Account, NEW start \in Day,
             NEW end \in Day, NEW h \in Hours,
             CreateRequest(r, a, start, end, h)
      PROVE  NoOverlap'
  <2>1. \A q \in Request :
          OccupiesDates(q) /\ request[q].account = a =>
            request[q].start > end \/ request[q].end < start
    <3>1. ASSUME NEW q \in Request, OccupiesDates(q)
          PROVE  request[q].start \in Int /\ request[q].end \in Int
      <4>1. request[q] \in RequestRow
        BY <3>1 DEF TypeOK, NoRequest
      <4> QED
        BY <4>1, LastDayAssumption DEF RequestRow, Day
    <3> QED
      BY <1>1, <3>1, LastDayAssumption DEF CreateRequest, HasOverlap, Day
  <2> QED
    BY <1>1, <2>1, CreatedRequest
<1>2. ASSUME NEW r \in Request, NEW v, ApproveRequest(r, v)
      PROVE  NoOverlap'
  BY <1>2, ApprovedRequest
<1>3. ASSUME NEW r \in Request, NEW v, RejectRequest(r, v)
      PROVE  NoOverlap'
  BY <1>3, RejectedRequest
<1>4. ASSUME NEW r \in Request, NEW v, CancelRequest(r, v)
      PROVE  NoOverlap'
  BY <1>4, CancelledRequest
<1> QED
  BY <1>1, <1>2, <1>3, <1>4 DEF Handler

\* Requests of an account that take their dates never overlap.
THEOREM DatesNeverOverlap == Spec => []NoOverlap
<1>1. Init => NoOverlap
  BY DEF Init, NoOverlap, OccupiesDates, NoRequest
<1>2. TypeOK /\ NoOverlap /\ [Handler]_tables => NoOverlap'
  <2>1. CASE Handler
    BY <2>1, HandlerOverlap
  <2>2. CASE UNCHANGED tables
    BY <2>2 DEF tables, NoOverlap, OccupiesDates
  <2> QED
    BY <2>1, <2>2
<1> QED
  BY <1>1, <1>2, TypeCorrect, PTL DEF Spec

-----------------------------------------------------------------------------
(***************************************************************************)
(* Posts.  The invariant about the queue needs NoEarlyPost: approval adds  *)
(* the only post of its request because there was none before it.          *)
(***************************************************************************)

PostInv == WaitingRequestHasItsPost /\ NoEarlyPost

\* Marking entries changes no request's posts.
LEMMA MarkedPosts ==
  ASSUME outbox \in Seq(OutboxRow), NEW E, NEW s \in OutboxStatus,
         outbox' = Marked(E, s), NEW r \in Request
  PROVE  PostsOf(r)' = PostsOf(r)
BY MarkedOutbox DEF PostsOf

\* Queueing a post adds it to the posts of its request only, queueing a
\* cancellation to none.
LEMMA AppendedPosts ==
  ASSUME outbox \in Seq(OutboxRow), NEW e \in OutboxRow,
         outbox' = Append(outbox, e), NEW r \in Request
  PROVE  /\ \A i \in PostsOf(r) : i \in DOMAIN outbox /\ outbox'[i] = outbox[i]
         /\ PostsOf(r)' = PostsOf(r) \union
              (IF e.request = r /\ e.action = "POST_TIME_OFF"
               THEN {Len(outbox) + 1} ELSE {})
<1>1. /\ DOMAIN outbox' = DOMAIN outbox \union {Len(outbox) + 1}
      /\ Len(outbox) + 1 \notin DOMAIN outbox
      /\ \A i \in DOMAIN outbox : outbox'[i] = outbox[i]
      /\ outbox'[Len(outbox) + 1] = e
  BY AppendedOutbox
<1> QED
  BY <1>1 DEF PostsOf

LEMMA CreateRequestPosts ==
  ASSUME TypeOK, PostInv, NEW r \in Request, NEW a \in Account,
         NEW start \in Day, NEW end \in Day, NEW h \in Hours,
         CreateRequest(r, a, start, end, h)
  PROVE  PostInv'
<1>1. UNCHANGED outbox /\ \A q \in Request : PostsOf(q)' = PostsOf(q)
  BY DEF CreateRequest, PostsOf
<1>2. PostsOf(r) = {}
  BY CreatedRequest DEF PostInv, NoEarlyPost, Exists
<1>3. WaitingRequestHasItsPost'
  BY <1>1, <1>2, CreatedRequest
     DEF PostInv, WaitingRequestHasItsPost, Unsettled
<1>4. NoEarlyPost'
  BY <1>1, <1>2, CreatedRequest DEF PostInv, NoEarlyPost, Exists
<1> QED
  BY <1>3, <1>4 DEF PostInv

LEMMA ApproveRequestPosts ==
  ASSUME TypeOK, PostInv, NEW r \in Request, NEW v, ApproveRequest(r, v)
  PROVE  PostInv'
<1> DEFINE e == OutboxEntry(r, "POST_TIME_OFF", NULL)
           n == Len(outbox) + 1
<1>1. /\ outbox \in Seq(OutboxRow) /\ e \in OutboxRow
      /\ outbox' = Append(outbox, e)
  BY NewEntryType DEF TypeOK, ApproveRequest, OutboxAction
<1>2. e.request = r /\ e.action = "POST_TIME_OFF" /\ e.status = "PENDING"
  BY DEF OutboxEntry
<1> HIDE DEF e
<1>3. PostsOf(r) = {}
  BY ApprovedRequest DEF PostInv, NoEarlyPost
<1>4. PostsOf(r)' = {n}
  BY <1>1, <1>2, <1>3, AppendedPosts
<1>5. outbox'[n] = e
  BY <1>1, AppendedOutbox
<1>6. ASSUME NEW q \in Request, q # r
      PROVE  /\ PostsOf(q)' = PostsOf(q)
             /\ request'[q] = request[q]
             /\ \A i \in PostsOf(q) : outbox'[i] = outbox[i]
  BY <1>1, <1>2, <1>6, AppendedPosts, ApprovedRequest
<1>7. WaitingRequestHasItsPost'
  BY <1>2, <1>4, <1>5, <1>6
     DEF PostInv, WaitingRequestHasItsPost, Unsettled
<1>8. NoEarlyPost'
  BY <1>6, ApprovedRequest DEF PostInv, NoEarlyPost, Exists
<1> QED
  BY <1>7, <1>8 DEF PostInv

LEMMA RejectRequestPosts ==
  ASSUME TypeOK, PostInv, NEW r \in Request, NEW v, RejectRequest(r, v)
  PROVE  PostInv'
<1>1. UNCHANGED outbox /\ \A q \in Request : PostsOf(q)' = PostsOf(q)
  BY DEF RejectRequest, PostsOf
<1>2. WaitingRequestHasItsPost'
  BY <1>1, RejectedRequest DEF PostInv, WaitingRequestHasItsPost, Unsettled
<1>3. NoEarlyPost'
  BY <1>1, RejectedRequest DEF PostInv, NoEarlyPost, Exists
<1> QED
  BY <1>2, <1>3 DEF PostInv

LEMMA CancelRequestPosts ==
  ASSUME TypeOK, PostInv, NEW r \in Request, NEW v, CancelRequest(r, v)
  PROVE  PostInv'
<1>1. outbox \in Seq(OutboxRow)
  BY DEF TypeOK
<1>2. ASSUME NEW q \in Request
      PROVE  /\ PostsOf(q)' = PostsOf(q)
             /\ q # r => \A i \in PostsOf(q) : outbox'[i] = outbox[i]
  <2>1. CASE outbox' = CancelByRequestId(r)
    <3> DEFINE E == UnsettledEntriesOf(r)
    <3>1. outbox' = Marked(E, "FAILED") /\ "FAILED" \in OutboxStatus
      BY <2>1 DEF CancelByRequestId, OutboxStatus
    <3>2. PostsOf(q)' = PostsOf(q)
      BY <1>1, <3>1, MarkedPosts
    <3>3. q # r => \A i \in PostsOf(q) : outbox'[i] = outbox[i]
      BY <3>1 DEF Marked, PostsOf, UnsettledEntriesOf
    <3> QED
      BY <3>2, <3>3
  <2>2. CASE outbox' = Append(outbox,
               OutboxEntry(r, "CANCEL_TIME_OFF", request[r].reference))
    <3> DEFINE e == OutboxEntry(r, "CANCEL_TIME_OFF", request[r].reference)
    <3>1. e \in OutboxRow /\ e.action = "CANCEL_TIME_OFF"
      <4>1. request[r].reference \in Nat \union {NULL}
        BY CancelledRequest DEF TypeOK, Exists, RequestRow
      <4> QED
        BY <4>1, NewEntryType DEF OutboxAction, OutboxEntry
    <3> HIDE DEF e
    <3> QED
      BY <1>1, <2>2, <3>1, AppendedPosts DEF e
  <2>3. CASE UNCHANGED outbox
    BY <2>3 DEF PostsOf
  <2> QED
    BY <2>1, <2>2, <2>3 DEF CancelRequest
<1>3. WaitingRequestHasItsPost'
  BY <1>2, CancelledRequest DEF PostInv, WaitingRequestHasItsPost, Unsettled
<1>4. NoEarlyPost'
  BY <1>2, CancelledRequest DEF PostInv, NoEarlyPost, Exists
<1> QED
  BY <1>3, <1>4 DEF PostInv

LEMMA HandlerPosts ==
  ASSUME TypeOK, PostInv, Handler
  PROVE  PostInv'
BY CreateRequestPosts, ApproveRequestPosts, RejectRequestPosts,
   CancelRequestPosts DEF Handler

\* A request is queued for the HCM at most once, and while it waits for the
\* HCM its post is in the queue.
THEOREM PostsFollowRequests == Spec => []WaitingRequestHasItsPost
<1>1. Init => PostInv
  BY DEF Init, PostInv, WaitingRequestHasItsPost, NoEarlyPost, PostsOf,
         Unsettled, NoRequest
<1>2. TypeOK /\ PostInv /\ [Handler]_tables => PostInv'
  <2>1. CASE Handler
    BY <2>1, HandlerPosts
  <2>2. CASE UNCHANGED tables
    BY <2>2 DEF tables, PostInv, WaitingRequestHasItsPost, NoEarlyPost,
                PostsOf, Unsettled, Exists
  <2> QED
    BY <2>1, <2>2
<1>3. PostInv => WaitingRequestHasItsPost
  BY DEF PostInv
<1> QED
  BY <1>1, <1>2, <1>3, TypeCorrect, PTL DEF Spec

\* The other direction: cancelByRequestId gives the post up before the request stops
\* waiting, and what is not waiting has none to give up.
LEMMA HandlerLeavesNone ==
  ASSUME TypeOK, PostInv, NoPostLeftBehind, Handler
  PROVE  NoPostLeftBehind'
<1>1. outbox \in Seq(OutboxRow)
  BY DEF TypeOK
<1>2. ASSUME UNCHANGED outbox, NEW r \in Request,
             request[r].status # "APPROVED_PENDING_HCM",
             \A q \in Request : q # r => request'[q] = request[q]
      PROVE  NoPostLeftBehind'
  <2>1. \A q \in Request : PostsOf(q)' = PostsOf(q)
    BY <1>2 DEF PostsOf
  <2> QED
    BY <1>2, <2>1 DEF NoPostLeftBehind, Unsettled
<1>3. ASSUME NEW r \in Request, NEW a \in Account, NEW start \in Day,
             NEW end \in Day, NEW h \in Hours,
             CreateRequest(r, a, start, end, h)
      PROVE  NoPostLeftBehind'
  <2>1. request[r].status = "NONE" /\ \A q \in Request : q # r => request'[q] = request[q]
    BY <1>3, CreatedRequest DEF NoRequest
  <2>2. UNCHANGED outbox
    BY <1>3 DEF CreateRequest
  <2> QED
    BY <1>2, <2>1, <2>2
<1>4. ASSUME NEW r \in Request, NEW v, ApproveRequest(r, v)
      PROVE  NoPostLeftBehind'
  <2> DEFINE e == OutboxEntry(r, "POST_TIME_OFF", NULL)
  <2>1. e \in OutboxRow /\ e.request = r /\ outbox' = Append(outbox, e)
    BY <1>4, NewEntryType DEF ApproveRequest, OutboxAction, OutboxEntry
  <2> HIDE DEF e
  <2>2. request'[r].status = "APPROVED_PENDING_HCM"
    BY <1>4, ApprovedRequest
  <2>3. ASSUME NEW q \in Request, q # r
        PROVE  /\ PostsOf(q)' = PostsOf(q) /\ request'[q] = request[q]
               /\ \A i \in PostsOf(q) : outbox'[i] = outbox[i]
    BY <1>1, <1>4, <2>1, <2>3, AppendedPosts, ApprovedRequest
  <2> QED
    BY <2>2, <2>3 DEF NoPostLeftBehind, Unsettled
<1>5. ASSUME NEW r \in Request, NEW v, RejectRequest(r, v)
      PROVE  NoPostLeftBehind'
  BY <1>2, <1>5, RejectedRequest DEF RejectRequest
<1>6. ASSUME NEW r \in Request, NEW v, CancelRequest(r, v)
      PROVE  NoPostLeftBehind'
  <2>1. \A q \in Request : q # r => request'[q] = request[q]
    BY <1>6, CancelledRequest
  <2>2. CASE /\ request[r].status = "APPROVED_PENDING_HCM"
             /\ outbox' = CancelByRequestId(r)
    <3>1. /\ outbox' = Marked(UnsettledEntriesOf(r), "FAILED")
          /\ "FAILED" \in OutboxStatus
      BY <2>2 DEF CancelByRequestId, OutboxStatus
    <3>2. \A q \in Request : PostsOf(q)' = PostsOf(q)
      BY <1>1, <3>1, MarkedPosts
    <3>3. \A i \in DOMAIN outbox : Unsettled(i)' =>
            Unsettled(i) /\ outbox[i].request # r
      BY <1>1, <3>1, MarkedOutbox DEF Unsettled, UnsettledEntriesOf
    <3> QED
      BY <2>1, <3>2, <3>3 DEF NoPostLeftBehind, PostsOf
  <2>3. CASE /\ request[r].status = "APPROVED"
             /\ outbox' = Append(outbox,
                  OutboxEntry(r, "CANCEL_TIME_OFF", request[r].reference))
    <3> DEFINE e == OutboxEntry(r, "CANCEL_TIME_OFF", request[r].reference)
    <3>1. e \in OutboxRow /\ e.action = "CANCEL_TIME_OFF"
      <4>1. request[r].reference \in Nat \union {NULL}
        BY <1>6, CancelledRequest DEF TypeOK, Exists, RequestRow
      <4> QED
        BY <4>1, NewEntryType DEF OutboxAction, OutboxEntry
    <3> HIDE DEF e
    <3>2. \A q \in Request :
            PostsOf(q)' = PostsOf(q) /\ \A i \in PostsOf(q) : outbox'[i] = outbox[i]
      BY <1>1, <2>3, <3>1, AppendedPosts DEF e
    <3> QED
      BY <2>1, <2>3, <3>2 DEF NoPostLeftBehind, Unsettled
  <2>4. CASE request[r].status # "APPROVED_PENDING_HCM" /\ UNCHANGED outbox
    BY <1>2, <2>1, <2>4
  <2> QED
    BY <1>6, <2>2, <2>3, <2>4 DEF CancelRequest
<1> QED
  BY <1>3, <1>4, <1>5, <1>6 DEF Handler

\* Nothing stays queued for a request that left the wait by the request API.
THEOREM PostsLeaveWithRequests == Spec => []NoPostLeftBehind
<1> DEFINE Inv == PostInv /\ NoPostLeftBehind
<1>1. Init => Inv
  BY DEF Init, PostInv, WaitingRequestHasItsPost, NoEarlyPost, NoPostLeftBehind,
         PostsOf, Unsettled, NoRequest
<1>2. TypeOK /\ Inv /\ [Handler]_tables => Inv'
  <2>1. CASE Handler
    BY <2>1, HandlerPosts, HandlerLeavesNone
  <2>2. CASE UNCHANGED tables
    BY <2>2 DEF tables, PostInv, WaitingRequestHasItsPost, NoEarlyPost,
                NoPostLeftBehind, PostsOf, Unsettled, Exists
  <2> QED
    BY <2>1, <2>2
<1> QED
  BY <1>1, <1>2, TypeCorrect, PTL DEF Spec

-----------------------------------------------------------------------------
(***************************************************************************)
(* Hours.                                                                  *)
(***************************************************************************)

Existing == { r \in Request : Exists(r) }
RequestHours == [r \in Request |-> request[r].hours]

\* Any number of identifiers may be free, but only finitely many are in use, and
\* every ACTIVE hold has its request: its hours can be summed.
HoursDefined ==
  /\ IsFiniteSet(Existing)
  /\ \A r \in Request : hold[r] = "ACTIVE" => Exists(r)

\* The sum that the queries of the model write with an operator.
LEMMA HoursSum ==
  ASSUME NEW req, NEW S, S \subseteq Request, IsFiniteSet(S)
  PROVE  MapThenSumSet(LAMBDA r : req[r].hours, S)
           = SumFunctionOnSet([r \in Request |-> req[r].hours], S)
<1> DEFINE f == [r \in Request |-> req[r].hours]
           IsIter(g) == g = [T \in SUBSET S |->
             IF T = {} THEN 0 ELSE req[Chosen(T)].hours + g[T \ {Chosen(T)}]]
<1>1. MapThenSumSet(LAMBDA r : req[r].hours, S) = (CHOOSE g : IsIter(g))[S]
  BY Zenon DEF MapThenSumSet, MapThenFoldSet, Chosen
<1>2. \A T \in SUBSET S : T # {} => f[Chosen(T)] = req[Chosen(T)].hours
  BY ChosenElement
<1>3. ASSUME NEW g
      PROVE  IsIter(g) <=> IsSumFunction(g, f, S)
  <2>1. \A T \in SUBSET S :
          (IF T = {} THEN 0 ELSE f[Chosen(T)] + g[T \ {Chosen(T)}])
            = (IF T = {} THEN 0 ELSE req[Chosen(T)].hours + g[T \ {Chosen(T)}])
    <3> HIDE DEF f
    <3> QED
      BY <1>2
  <2> HIDE DEF f
  <2> QED
    BY <2>1 DEF IsSumFunction
<1>4. \E g : IsIter(g)
  BY <1>3, SumFunctionExists
<1> DEFINE k == CHOOSE g : IsIter(g)
<1>5. IsSumFunction(k, f, S)
  BY <1>3, <1>4
<1>6. S \in SUBSET S
  OBVIOUS
<1> HIDE DEF IsIter, f, k
<1>7. SumFunctionOnSet(f, S) = k[S]
  BY <1>5, <1>6, SumOfSolution
<1> QED
  BY <1>1, <1>7 DEF k, f

\* Hours of requests that exist can be summed.
LEMMA ExistingHours ==
  ASSUME TypeOK, HoursDefined, NEW S \in SUBSET Existing
  PROVE  /\ IsFiniteSet(S)
         /\ S \subseteq Request
         /\ \A r \in S : RequestHours[r] \in Nat /\ RequestHours[r] = request[r].hours
         /\ SumFunctionOnSet(RequestHours, S) \in Nat
<1>1. IsFiniteSet(S)
  BY FS_Subset DEF HoursDefined
<1>2. \A r \in S : r \in Request /\ request[r] \in RequestRow
  BY DEF Existing, Exists, TypeOK
<1>3. \A r \in S : RequestHours[r] \in Nat /\ RequestHours[r] = request[r].hours
  BY <1>2 DEF RequestHours, RequestRow
<1> QED
  BY <1>1, <1>2, <1>3, SumNat

\* getActiveHoldsTotal, before and after a step.
ActiveTotals ==
  TypeOK /\ HoursDefined =>
    \A a \in Account :
      /\ ActiveHolds(a) \in SUBSET Existing
      /\ ActiveHoldsTotal(a, {}) = SumFunctionOnSet(RequestHours, ActiveHolds(a))
      /\ ActiveHoldsTotal(a, {}) \in Nat

LEMMA ActiveTotal == ActiveTotals
<1> SUFFICES ASSUME TypeOK, HoursDefined, NEW a \in Account
             PROVE  /\ ActiveHolds(a) \in SUBSET Existing
                    /\ ActiveHoldsTotal(a, {}) =
                         SumFunctionOnSet(RequestHours, ActiveHolds(a))
                    /\ ActiveHoldsTotal(a, {}) \in Nat
  BY DEF ActiveTotals
<1>1. ActiveHolds(a) \in SUBSET Existing /\ ActiveHolds(a) \ {} = ActiveHolds(a)
  BY DEF ActiveHolds, Existing, HoursDefined
<1>2. /\ IsFiniteSet(ActiveHolds(a)) /\ ActiveHolds(a) \subseteq Request
      /\ SumFunctionOnSet(RequestHours, ActiveHolds(a)) \in Nat
  BY <1>1, ExistingHours
<1>3. ActiveHoldsTotal(a, {}) = SumFunctionOnSet(RequestHours, ActiveHolds(a))
  BY <1>1, <1>2, HoursSum DEF ActiveHoldsTotal, RequestHours
<1> QED
  BY <1>1, <1>2, <1>3

LEMMA ActiveTotalNext == ActiveTotals'
BY ActiveTotal, PTL

\* No step changes whose a request is or how many hours it asks for.
KeepsHours ==
  \A r \in Request : Exists(r) =>
    /\ Exists(r)'
    /\ request'[r].account = request[r].account
    /\ request'[r].hours = request[r].hours

LEMMA KeptSum ==
  ASSUME TypeOK, HoursDefined, KeepsHours, NEW S \in SUBSET Existing
  PROVE  SumFunctionOnSet(RequestHours', S) = SumFunctionOnSet(RequestHours, S)
<1>1. IsFiniteSet(S) /\ S \subseteq Request
  BY ExistingHours
<1>2. \A r \in S : RequestHours'[r] = RequestHours[r]
  BY DEF RequestHours, KeepsHours, Existing
<1> QED
  BY <1>1, <1>2, SumSame

\* A step that ends some ACTIVE holds and starts none does not raise the total.
LEMMA FewerHolds ==
  ASSUME TypeOK, TypeOK', HoursDefined, HoursDefined', KeepsHours,
         NEW a \in Account, ActiveHolds(a)' \subseteq ActiveHolds(a)
  PROVE  ActiveHoldsTotal(a, {})' <= ActiveHoldsTotal(a, {})
<1>1. /\ ActiveHolds(a) \in SUBSET Existing
      /\ ActiveHoldsTotal(a, {}) = SumFunctionOnSet(RequestHours, ActiveHolds(a))
  BY ActiveTotal DEF ActiveTotals
<1>2. ActiveHoldsTotal(a, {})' = SumFunctionOnSet(RequestHours', ActiveHolds(a)')
  BY ActiveTotalNext DEF ActiveTotals
<1>3. ActiveHolds(a)' \in SUBSET Existing
  BY <1>1
<1>4. SumFunctionOnSet(RequestHours', ActiveHolds(a)')
        = SumFunctionOnSet(RequestHours, ActiveHolds(a)')
  BY <1>3, KeptSum
<1>5. IsFiniteSet(ActiveHolds(a)) /\ \A r \in ActiveHolds(a) : RequestHours[r] \in Nat
  BY <1>1, ExistingHours
<1>6. SumFunctionOnSet(RequestHours, ActiveHolds(a)')
        <= SumFunctionOnSet(RequestHours, ActiveHolds(a))
  BY <1>5, SumMonotone
<1> QED
  BY <1>1, <1>2, <1>4, <1>6

\* A new hold adds its hours.
LEMMA OneMoreHold ==
  ASSUME TypeOK, TypeOK', HoursDefined, HoursDefined', KeepsHours,
         NEW a \in Account, NEW r \in Request, r \notin ActiveHolds(a),
         ActiveHolds(a)' = ActiveHolds(a) \union {r}
  PROVE  ActiveHoldsTotal(a, {})' = ActiveHoldsTotal(a, {}) + request'[r].hours
<1>1. /\ ActiveHolds(a) \in SUBSET Existing
      /\ ActiveHoldsTotal(a, {}) = SumFunctionOnSet(RequestHours, ActiveHolds(a))
  BY ActiveTotal DEF ActiveTotals
<1>2. /\ ActiveHoldsTotal(a, {})' = SumFunctionOnSet(RequestHours', ActiveHolds(a)')
      /\ \A q \in ActiveHolds(a)' : q \in Request /\ request'[q] \in RequestRow
  BY ActiveTotalNext DEF ActiveTotals, Existing, TypeOK, Exists
<1>3. IsFiniteSet(ActiveHolds(a))
  BY <1>1, ExistingHours
<1>4. \A q \in ActiveHolds(a) \union {r} :
        RequestHours'[q] \in Int /\ RequestHours'[q] = request'[q].hours
  BY <1>2 DEF RequestHours, RequestRow
<1>5. SumFunctionOnSet(RequestHours', ActiveHolds(a) \union {r})
        = SumFunctionOnSet(RequestHours', ActiveHolds(a)) + RequestHours'[r]
  BY <1>3, <1>4, SumAdd
<1> QED
  BY <1>1, <1>2, <1>4, <1>5, KeptSum

\* A hold that ends takes its hours along.
LEMMA OneHoldLess ==
  ASSUME TypeOK, TypeOK', HoursDefined, HoursDefined', KeepsHours,
         NEW a \in Account, NEW r \in ActiveHolds(a),
         ActiveHolds(a)' = ActiveHolds(a) \ {r}
  PROVE  ActiveHoldsTotal(a, {})' = ActiveHoldsTotal(a, {}) - request[r].hours
<1>1. /\ ActiveHolds(a) \in SUBSET Existing
      /\ ActiveHoldsTotal(a, {}) = SumFunctionOnSet(RequestHours, ActiveHolds(a))
  BY ActiveTotal DEF ActiveTotals
<1>2. /\ ActiveHoldsTotal(a, {})' = SumFunctionOnSet(RequestHours', ActiveHolds(a)')
      /\ ActiveHoldsTotal(a, {})' \in Nat
  BY ActiveTotalNext DEF ActiveTotals
<1>3. ActiveHolds(a)' \in SUBSET Existing
  BY <1>1
<1>4. SumFunctionOnSet(RequestHours', ActiveHolds(a)')
        = SumFunctionOnSet(RequestHours, ActiveHolds(a)')
  BY <1>3, KeptSum
<1>5. /\ IsFiniteSet(ActiveHolds(a))
      /\ \A q \in ActiveHolds(a) :
           RequestHours[q] \in Nat /\ RequestHours[q] = request[q].hours
  BY <1>1, ExistingHours
<1>6. SumFunctionOnSet(RequestHours, ActiveHolds(a))
        = RequestHours[r] + SumFunctionOnSet(RequestHours, ActiveHolds(a) \ {r})
  BY <1>5, SumRemove
<1>7. RequestHours[r] \in Nat /\ RequestHours[r] = request[r].hours
  BY <1>5
<1> QED
  BY <1>1, <1>2, <1>4, <1>6, <1>7

\* A new request reserves hours that were available.
BooksHours(r, a, h) ==
  /\ ~ Exists(r)
  /\ balance[a] # NoProjection
  /\ EffectiveAvailable(a, {}) >= h
  /\ request'[r] # NoRequest
  /\ request'[r].account = a
  /\ request'[r].hours = h
  /\ hold'[r] = "ACTIVE"
  /\ \A q \in Request : q # r => request'[q] = request[q] /\ hold'[q] = hold[q]

\* No request is new, and at most one hold moves, as release moves it.
ReleasesHolds ==
  /\ KeepsHours
  /\ \A r \in Request :
       /\ Exists(r)' => Exists(r)
       /\ hold'[r] = hold[r] \/ (hold[r] = "ACTIVE" /\ hold'[r] = "RELEASED")
  /\ \A q, r \in Request : hold'[q] # hold[q] /\ hold'[r] # hold[r] => q = r

BooksOrReleases ==
  \/ \E r \in Request, a \in Account, h \in Hours : BooksHours(r, a, h)
  \/ ReleasesHolds

\* A step that leaves requests and holds alone is one that releases none.
LEMMA UnchangedHolds ==
  ASSUME UNCHANGED <<request, hold>>
  PROVE  BooksOrReleases
BY DEF BooksOrReleases, ReleasesHolds, KeepsHours, Exists

LEMMA HandlerHours ==
  ASSUME TypeOK, Handler
  PROVE  UNCHANGED balance /\ BooksOrReleases
<1>1. UNCHANGED balance
  BY DEF Handler, CreateRequest, ApproveRequest, RejectRequest, CancelRequest
<1>2. ASSUME NEW r \in Request, NEW a \in Account, NEW start \in Day, NEW end \in Day,
             NEW h \in Hours, CreateRequest(r, a, start, end, h)
      PROVE  BooksHours(r, a, h)
  <2>1. request'[r].hours = h /\ hold' = [hold EXCEPT ![r] = "ACTIVE"]
    BY <1>2 DEF CreateRequest, TypeOK
  <2>2. ~ Exists(r) /\ balance[a] # NoProjection /\ EffectiveAvailable(a, {}) >= h
    BY <1>2 DEF CreateRequest
  <2>3. hold'[r] = "ACTIVE" /\ \A q \in Request : q # r => hold'[q] = hold[q]
    BY <2>1 DEF TypeOK
  <2>4. /\ request'[r] # NoRequest /\ request'[r].account = a
        /\ \A q \in Request : q # r => request'[q] = request[q]
    BY <1>2, CreatedRequest
  <2> QED
    BY <2>1, <2>2, <2>3, <2>4 DEF BooksHours
<1>3. ASSUME NEW r \in Request, Exists(r), NEW s \in RequestStatus, NEW v,
             NEW ref \in Nat \union {NULL}, UpdateStatus(r, s, v, ref),
             ReleaseHold(r) \/ UNCHANGED hold
      PROVE  ReleasesHolds
  <2>1. /\ request'[r] # NoRequest
        /\ request'[r].account = request[r].account
        /\ request'[r].hours = request[r].hours
        /\ \A q \in Request : q # r => request'[q] = request[q]
    BY <1>3, UpdatedRequest
  <2>2. \A q \in Request :
          \/ hold'[q] = hold[q]
          \/ q = r /\ hold[q] = "ACTIVE" /\ hold'[q] = "RELEASED"
    <3>1. "RELEASED" \in HoldStatus
      BY DEF HoldStatus
    <3> QED
      BY <1>3, <3>1, MovedHold DEF ReleaseHold
  <2> QED
    BY <1>3, <2>1, <2>2 DEF ReleasesHolds, KeepsHours, Exists
<1>4. ASSUME NEW r \in Request, Exists(r)
      PROVE  request[r].reference \in Nat \union {NULL}
  BY <1>4 DEF TypeOK, Exists, RequestRow
<1>5. {"APPROVED_PENDING_HCM", "REJECTED", "CANCELLED"} \subseteq RequestStatus
  BY DEF RequestStatus
<1>6. ASSUME NEW r \in Request, NEW v,
             ApproveRequest(r, v) \/ RejectRequest(r, v) \/ CancelRequest(r, v)
      PROVE  ReleasesHolds
  BY <1>3, <1>4, <1>5, <1>6 DEF ApproveRequest, RejectRequest, CancelRequest
<1> QED
  BY <1>1, <1>2, <1>6 DEF Handler, BooksOrReleases

\* The holds of each account after either.
LEMMA BookedHolds ==
  ASSUME TypeOK, HoursDefined, NEW r \in Request, NEW a \in Account, NEW h \in Hours,
         BooksHours(r, a, h)
  PROVE  /\ KeepsHours
         /\ HoursDefined'
         /\ Existing' = Existing \union {r} /\ r \notin Existing
         /\ ActiveHolds(a)' = ActiveHolds(a) \union {r}
         /\ r \notin ActiveHolds(a)
         /\ \A b \in Account : b # a => ActiveHolds(b)' = ActiveHolds(b)
<1>1. KeepsHours
  BY DEF KeepsHours, BooksHours, Exists
<1>2. Existing' = Existing \union {r} /\ r \notin Existing
  BY DEF Existing, Exists, BooksHours
<1>3. HoursDefined'
  <2>1. IsFiniteSet(Existing')
    BY <1>2, FS_AddElement DEF HoursDefined
  <2> QED
    BY <2>1 DEF HoursDefined, BooksHours, Exists
<1>4. ~ Exists(r) /\ hold[r] # "ACTIVE"
  BY DEF BooksHours, HoursDefined
<1> QED
  BY <1>1, <1>2, <1>3, <1>4 DEF ActiveHolds, BooksHours

LEMMA ReleasedHolds ==
  ASSUME HoursDefined, ReleasesHolds
  PROVE  /\ KeepsHours
         /\ HoursDefined'
         /\ Existing' = Existing
         /\ \A a \in Account : ActiveHolds(a)' \subseteq ActiveHolds(a)
<1>1. KeepsHours
  BY DEF ReleasesHolds
<1>2. Existing' = Existing
  BY DEF Existing, ReleasesHolds, KeepsHours
<1>3. HoursDefined'
  BY <1>2 DEF HoursDefined, ReleasesHolds, KeepsHours
<1> QED
  BY <1>1, <1>2, <1>3 DEF ActiveHolds, ReleasesHolds, KeepsHours, HoursDefined

\* What is reserved rises only as far as the projection reaches.
LEMMA Booking ==
  ASSUME TypeOK, TypeOK', HoursDefined, BooksOrReleases
  PROVE  /\ HoursDefined'
         /\ KeepsHours
         /\ \A a \in Account : balance[a] # NoProjection =>
              \/ ActiveHoldsTotal(a, {})' <= ActiveHoldsTotal(a, {})
              \/ ActiveHoldsTotal(a, {})' <= balance[a].projected
<1>1. CASE ReleasesHolds
  <2>1. /\ KeepsHours /\ HoursDefined'
        /\ \A a \in Account : ActiveHolds(a)' \subseteq ActiveHolds(a)
    BY <1>1, ReleasedHolds
  <2> QED
    BY <2>1, FewerHolds
<1>2. ASSUME NEW r \in Request, NEW a \in Account, NEW h \in Hours,
             BooksHours(r, a, h)
      PROVE  /\ HoursDefined' /\ KeepsHours
             /\ \A b \in Account : balance[b] # NoProjection =>
                  \/ ActiveHoldsTotal(b, {})' <= ActiveHoldsTotal(b, {})
                  \/ ActiveHoldsTotal(b, {})' <= balance[b].projected
  <2>1. /\ KeepsHours /\ HoursDefined'
        /\ ActiveHolds(a)' = ActiveHolds(a) \union {r}
        /\ r \notin ActiveHolds(a)
        /\ \A b \in Account : b # a => ActiveHolds(b)' = ActiveHolds(b)
    BY <1>2, BookedHolds
  <2>2. ActiveHoldsTotal(a, {})' = ActiveHoldsTotal(a, {}) + h
    BY <1>2, <2>1, OneMoreHold DEF BooksHours
  <2>3. \A b \in Account : b # a =>
          ActiveHoldsTotal(b, {})' <= ActiveHoldsTotal(b, {})
    BY <2>1, FewerHolds
  <2>4. ActiveHoldsTotal(a, {})' <= balance[a].projected
    <3>1. balance[a].projected - ActiveHoldsTotal(a, {}) >= h
      BY <1>2 DEF BooksHours, EffectiveAvailable
    <3>2. balance[a].projected \in Nat /\ ActiveHoldsTotal(a, {}) \in Nat /\ h \in Nat
      <4>1. balance[a] \in ProjectionRow
        BY <1>2 DEF BooksHours, TypeOK
      <4> QED
        BY <4>1, ActiveTotal, HoursAssumption DEF ActiveTotals, ProjectionRow
    <3> QED
      BY <2>2, <3>1, <3>2
  <2> QED
    BY <2>1, <2>3, <2>4
<1> QED
  BY <1>1, <1>2 DEF BooksOrReleases

\* So that no such step overbooks an account.
LEMMA BookingCovered ==
  ASSUME TypeOK, TypeOK', HoursDefined, NoOverbooking, BooksOrReleases,
         UNCHANGED balance
  PROVE  HoursDefined' /\ NoOverbooking'
<1>1. /\ HoursDefined'
      /\ \A a \in Account : balance[a] # NoProjection =>
           \/ ActiveHoldsTotal(a, {})' <= ActiveHoldsTotal(a, {})
           \/ ActiveHoldsTotal(a, {})' <= balance[a].projected
  BY Booking
<1>2. ASSUME NEW a \in Account, balance[a] # NoProjection
      PROVE  /\ balance[a].projected \in Nat
             /\ ActiveHoldsTotal(a, {}) \in Nat
             /\ ActiveHoldsTotal(a, {})' \in Nat
  BY <1>1, <1>2, ActiveTotal, ActiveTotalNext DEF ActiveTotals, TypeOK, ProjectionRow
<1> QED
  BY <1>1, <1>2 DEF NoOverbooking

LEMMA InitHours ==
  ASSUME Init
  PROVE  Existing = {} /\ HoursDefined /\ \A a \in Account : ActiveHolds(a) = {}
<1>1. Existing = {} /\ \A a \in Account : ActiveHolds(a) = {}
  BY DEF Init, Existing, Exists, ActiveHolds
<1> QED
  BY <1>1, FS_EmptySet DEF Init, HoursDefined

\* At the start nothing is reserved.
LEMMA InitBooking ==
  ASSUME Init, TypeOK
  PROVE  NoOverbooking
<1>1. ASSUME NEW a \in Account
      PROVE  ActiveHoldsTotal(a, {}) = 0
  BY InitHours, ActiveTotal, SumEmpty DEF ActiveTotals
<1>2. ASSUME NEW a \in Account, balance[a] # NoProjection
      PROVE  balance[a].projected \in Nat
  BY <1>2 DEF TypeOK, ProjectionRow
<1> QED
  BY <1>1, <1>2 DEF NoOverbooking

\* However the calls of employees and managers follow each other, the holds of an
\* account never reserve more than its projection has.
THEOREM HoldsAreCovered == Spec => []NoOverbooking
<1> DEFINE Inv == HoursDefined /\ NoOverbooking
<1>1. TypeOK /\ Init => Inv
  BY InitHours, InitBooking
<1>2. TypeOK /\ TypeOK' /\ Inv /\ [Handler]_tables => Inv'
  BY HandlerHours, UnchangedHolds, BookingCovered DEF tables
<1> QED
  BY TypeCorrect, <1>1, <1>2, PTL DEF Spec
=============================================================================
