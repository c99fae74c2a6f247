-------------------------- MODULE RequestLifecycle --------------------------
(***************************************************************************)
(* The time-off request API of ReadyOn over its tables: createRequest,     *)
(* cancelRequest, approveRequest and rejectRequest of                      *)
(* src/request/request.service.ts with the repository statements they run. *)
(*                                                                         *)
(* The database driver is synchronous and the process has one thread, so   *)
(* every handler is one SQLite transaction that nothing interleaves with:  *)
(* one action per handler.  A call that the code refuses (an exception,    *)
(* rolled back) changes nothing and is not an action.                      *)
(*                                                                         *)
(* An account is one row of balance_projections: an employee and a leave   *)
(* type, at the one location the row has (the table is UNIQUE on employee  *)
(* and leave type).  A request names its account; for any other location   *)
(* the create call finds no row and is refused.                            *)
(*                                                                         *)
(* Operators whose name has a suffix after an underscore are broken        *)
(* variants of the definition that follows them; only mutation runs use    *)
(* them, to see that the properties notice.                                *)
(***************************************************************************)
EXTENDS Integers, Sequences, FiniteSets, FiniteSetsExt, StateMachine

CONSTANTS
  Request,          \* the identifiers requests may get
  Account,          \* the accounts: employee, leave type and location
  LastDay,          \* calendar days are 0 .. LastDay, day 0 being today
  Hours,            \* the values hours_requested may have
  Allowance,        \* the values total_balance may have
  NULL              \* the SQL NULL

ASSUME LastDayAssumption == LastDay \in Nat
ASSUME HoursAssumption == Hours \subseteq Nat \ {0}
ASSUME AllowanceAssumption == Allowance \subseteq Nat
ASSUME NullAssumption == NULL \notin Nat

VARIABLES
  request,          \* time_off_requests: request id -> row, or NoRequest
  hold,             \* balance_holds: request id -> status of its only hold
  balance,          \* balance_projections: account -> row, or NoProjection
  outbox            \* integration_outbox, in order of created_at

tables == <<request, hold, balance, outbox>>

Day == 0 .. LastDay
Today == 0

\* A row of time_off_requests.  employee_id, leave_type and location are the
\* account; reason, manager_id (never written) and timestamps are left out.
RequestRow ==
  [ status : RequestStatus, account : Account, start : Day, end : Day,
    hours : Nat \ {0}, version : Nat \ {0}, reference : Nat \union {NULL} ]

NoRequest == [status |-> "NONE"]

\* A row of balance_projections.  hcmVersion is the version of the HCM balance
\* it was last synchronised with.  The row's own version is left out: whoever
\* writes the row read its version in the same transaction, so that the
\* optimistic lock on it never refuses.
ProjectionRow == [ total : Nat, used : Nat, projected : Nat, hcmVersion : Nat ]

NoProjection == [total |-> NULL]

\* A row of integration_outbox.  The position of the entry in the table stands
\* for its id and for its idempotency key, both generated once, at its creation.
\* reference is the hcm_reference_id in the payload of a CANCEL_TIME_OFF entry.
OutboxRow ==
  [ request : Request, action : OutboxAction, status : OutboxStatus,
    retryCount : Nat, reference : Nat \union {NULL} ]

TypeOK ==
  /\ request \in [Request -> RequestRow \union {NoRequest}]
  /\ hold    \in [Request -> HoldStatus \union {"NONE"}]
  /\ balance \in [Account -> ProjectionRow \union {NoProjection}]
  /\ outbox  \in Seq(OutboxRow)

-----------------------------------------------------------------------------
(***************************************************************************)
(* Queries.                                                                *)
(***************************************************************************)

Exists(r) == request[r] # NoRequest

\* getActiveHoldsTotal: what the ACTIVE holds of an account reserve, leaving
\* out the requests in excluded.  hold_amount is the hours of the request.
ActiveHolds(a) ==
  { r \in Request : hold[r] = "ACTIVE" /\ request[r].account = a }

ActiveHoldsTotal(a, excluded) ==
  MapThenSumSet(LAMBDA r : request[r].hours, ActiveHolds(a) \ excluded)

EffectiveAvailable_IgnoresHolds(a, excluded) == balance[a].projected

\* getEffectiveAvailable.
EffectiveAvailable(a, excluded) ==
  balance[a].projected - ActiveHoldsTotal(a, excluded)

\* hasOverlap: the statuses whose dates are taken, and the date comparison.
OccupiesDates(r) ==
  request[r].status \in {"PENDING_APPROVAL", "APPROVED_PENDING_HCM", "APPROVED"}

HasOverlap_Strict(a, start, end) ==
  \E r \in Request :
    /\ OccupiesDates(r)
    /\ request[r].account = a
    /\ request[r].start < end
    /\ request[r].end > start

HasOverlap(a, start, end) ==
  \E r \in Request :
    /\ OccupiesDates(r)
    /\ request[r].account = a
    /\ request[r].start <= end
    /\ request[r].end >= start

-----------------------------------------------------------------------------
(***************************************************************************)
(* Statements.                                                             *)
(***************************************************************************)

\* updateStatus: UPDATE ... WHERE version = expected; no row changed means
\* VersionConflictException, which rolls the transaction back.
UpdateStatus(r, new, expected, reference) ==
  /\ request[r].version = expected
  /\ request' = [request EXCEPT ![r].status = new,
                                ![r].version = @ + 1,
                                ![r].reference = reference]

\* release and convert: only an ACTIVE hold moves; otherwise a logged warning.
MoveHold(r, new) ==
  hold' = [hold EXCEPT ![r] = IF @ = "ACTIVE" THEN new ELSE @]

ReleaseHold_Forgotten(r) == UNCHANGED hold

ReleaseHold(r) == MoveHold(r, "RELEASED")

OutboxEntry_WithoutReference(r, action, reference) ==
  [ request |-> r, action |-> action, status |-> "PENDING",
    retryCount |-> 0, reference |-> NULL ]

\* create of outbox.repository.ts.
OutboxEntry(r, action, reference) ==
  [ request |-> r, action |-> action, status |-> "PENDING",
    retryCount |-> 0, reference |-> reference ]

\* UPDATE integration_outbox SET status = ... for the given entries.
Marked(entries, status) ==
  [ i \in DOMAIN outbox |->
      IF i \in entries THEN [outbox[i] EXCEPT !.status = status] ELSE outbox[i] ]

\* An entry that is still to be done.
Unsettled(i) == outbox[i].status \in {"PENDING", "PROCESSING"}

UnsettledEntriesOf(r) ==
  { i \in DOMAIN outbox : outbox[i].request = r /\ Unsettled(i) }

CancelByRequestId_Forgotten(r) == outbox
CancelByRequestId_OwnStatus(r) == Marked(UnsettledEntriesOf(r), "CANCELLED")

\* cancelByRequestId: what is still to be done for the request is given up.
CancelByRequestId(r) == Marked(UnsettledEntriesOf(r), "FAILED")

-----------------------------------------------------------------------------
(***************************************************************************)
(* Handlers.                                                               *)
(***************************************************************************)

\* createRequest: an employee asks for hours on some days.
CreateRequest(r, a, start, end, hours) ==
  /\ ~ Exists(r)
  /\ end >= start
  /\ start > Today
  /\ balance[a] # NoProjection
  /\ ~ HasOverlap(a, start, end)
  /\ EffectiveAvailable(a, {}) >= hours
  /\ request' = [request EXCEPT ![r] =
       [ status |-> "PENDING_APPROVAL", account |-> a, start |-> start,
         end |-> end, hours |-> hours, version |-> 1, reference |-> NULL ]]
  /\ hold' = [hold EXCEPT ![r] = "ACTIVE"]
  /\ UNCHANGED <<balance, outbox>>

\* approveRequest: a manager agrees, having read version v of the request.  The
\* balance is checked again without the request's own hold, and the HCM post
\* is queued in the same transaction.
ApproveRequest(r, v) ==
  /\ Exists(r)
  /\ IsValidTransition(request[r].status, "APPROVED_PENDING_HCM")
  /\ EffectiveAvailable(request[r].account, {r}) >= request[r].hours
  /\ UpdateStatus(r, "APPROVED_PENDING_HCM", v, request[r].reference)
  /\ outbox' = Append(outbox, OutboxEntry(r, "POST_TIME_OFF", NULL))
  /\ UNCHANGED <<hold, balance>>

\* rejectRequest.
RejectRequest(r, v) ==
  /\ Exists(r)
  /\ IsValidTransition(request[r].status, "REJECTED")
  /\ UpdateStatus(r, "REJECTED", v, request[r].reference)
  /\ ReleaseHold(r)
  /\ UNCHANGED <<balance, outbox>>

\* cancelRequest: what it does to the outbox depends on how far the request is.
CancelRequest(r, v) ==
  /\ Exists(r)
  /\ IsValidTransition(request[r].status, "CANCELLED")
  /\ UpdateStatus(r, "CANCELLED", v, request[r].reference)
  /\ ReleaseHold(r)
  /\ \/ /\ request[r].status = "APPROVED_PENDING_HCM"
        /\ outbox' = CancelByRequestId(r)
     \/ /\ request[r].status = "APPROVED"
        /\ outbox' = Append(outbox,
             OutboxEntry(r, "CANCEL_TIME_OFF", request[r].reference))
     \/ /\ request[r].status \notin {"APPROVED_PENDING_HCM", "APPROVED"}
        /\ UNCHANGED outbox
  /\ UNCHANGED balance

-----------------------------------------------------------------------------
(***************************************************************************)
(* Specification.  The tables start with the projections earlier syncs     *)
(* brought, and no request.                                                *)
(***************************************************************************)

SyncedProjection(total, used, hcmVersion) ==
  [ total |-> total, used |-> used, projected |-> total - used,
    hcmVersion |-> hcmVersion ]

Init ==
  /\ request = [r \in Request |-> NoRequest]
  /\ hold    = [r \in Request |-> "NONE"]
  /\ balance \in [Account ->
       {SyncedProjection(t, 0, 0) : t \in Allowance} \union {NoProjection}]
  /\ outbox  = << >>

\* A client may send any version the row has had so far.
VersionSeen(r) == IF Exists(r) THEN 1 .. request[r].version ELSE {}

Handler ==
  \/ \E r \in Request, a \in Account, start, end \in Day, h \in Hours :
       CreateRequest(r, a, start, end, h)
  \/ \E r \in Request : \E v \in VersionSeen(r) : ApproveRequest(r, v)
  \/ \E r \in Request : \E v \in VersionSeen(r) : RejectRequest(r, v)
  \/ \E r \in Request : \E v \in VersionSeen(r) : CancelRequest(r, v)

Spec == Init /\ [][Handler]_tables

-----------------------------------------------------------------------------
(***************************************************************************)
(* Properties.                                                             *)
(***************************************************************************)

\* Holds never reserve more than the projection has: however employees and
\* managers interleave, effective_available stays at or above zero.
NoOverbooking ==
  \A a \in Account : balance[a] # NoProjection =>
    ActiveHoldsTotal(a, {}) <= balance[a].projected

\* No two requests of an account that are waiting, approved or being posted
\* share a day.
NoOverlap ==
  \A r, s \in Request :
    /\ r # s
    /\ OccupiesDates(r) /\ OccupiesDates(s)
    /\ request[r].account = request[s].account
    => request[r].end < request[s].start \/ request[s].end < request[r].start

\* A hold is ACTIVE exactly while its request waits for the manager or for
\* the HCM: no transition forgets to release it, none releases it early.
HoldFollowsRequest ==
  \A r \in Request :
    hold[r] = "ACTIVE" <=> IsHoldActiveStatus(request[r].status)

\* The entries that post a request to the HCM.
PostsOf(r) ==
  { i \in DOMAIN outbox :
      outbox[i].request = r /\ outbox[i].action = "POST_TIME_OFF" }

\* No request is ever queued for the HCM twice, and one that waits for the
\* HCM has its post in the queue: approval is never lost between the tables.
WaitingRequestHasItsPost ==
  \A r \in Request :
    /\ \A i, j \in PostsOf(r) : i = j
    /\ request[r].status = "APPROVED_PENDING_HCM" =>
         \E i \in PostsOf(r) : Unsettled(i)

\* What makes the previous invariant inductive: only an approval creates a post.
NoEarlyPost ==
  \A r \in Request : PostsOf(r) # {} =>
    Exists(r) /\ request[r].status # "PENDING_APPROVAL"

\* Conversely nothing stays queued for a request that left the wait.
NoPostLeftBehind ==
  \A r \in Request : \A i \in PostsOf(r) :
    Unsettled(i) => request[r].status = "APPROVED_PENDING_HCM"
=============================================================================
