----------------------- MODULE OutboxProcessor_proofs -----------------------
(***************************************************************************)
(* Proofs about the whole path of a request to the HCM: the request API,   *)
(* the sweep, the HCM server, a network that loses answers, and crashes,   *)
(* for every set of requests and accounts and every bound.                 *)
(*                                                                         *)
(* The properties rest on each other through the tables, so that there is  *)
(* one inductive invariant, ProcessorInv; its parts are named below.       *)
(***************************************************************************)
EXTENDS OutboxProcessor, RequestLifecycle_proofs, FiniteSetTheorems

-----------------------------------------------------------------------------
(***************************************************************************)
(* The inductive invariant.                                                *)
(***************************************************************************)

\* A request is made on an account that has a projection.
AccountsAreSynced ==
  \A r \in Request : Exists(r) => balance[request[r].account] # NoProjection

\* The reference a request keeps is the entry that posted it.
ReferencesArePosts ==
  \A r \in Request : Exists(r) =>
    request[r].reference = NULL \/ request[r].reference \in PostsOf(r)

\* A cancellation is queued for a CANCELLED request and names its post.
CancelsNamePosts ==
  \A i \in DOMAIN outbox : outbox[i].action = "CANCEL_TIME_OFF" =>
    /\ request[outbox[i].request].status = "CANCELLED"
    /\ \/ outbox[i].reference = NULL
       \/ outbox[i].reference \in PostsOf(outbox[i].request)

\* No request has two cancellations.
OneCancel ==
  \A i, j \in DOMAIN outbox :
    /\ outbox[i].action = "CANCEL_TIME_OFF"
    /\ outbox[j].action = "CANCEL_TIME_OFF"
    /\ outbox[i].request = outbox[j].request
    => i = j

\* The sweep awaits a call only for an entry it holds, holds none that is done,
\* and a good answer is one the HCM has stored.
SweepInv ==
  /\ call # "none" => claimed # {}
  /\ \A i \in claimed : outbox[i].status # "COMPLETED"
  /\ call = "ok" => Current \in answered

\* A post the HCM answered is still deducted, unless its request is CANCELLED.
AnsweredIsDeducted ==
  \A i \in answered : outbox[i].action = "POST_TIME_OFF" =>
    i \in deductions \/ request[outbox[i].request].status = "CANCELLED"

\* With the reference in the answer, an APPROVED request keeps its deduction's
\* key, and a queued cancellation finds it until the HCM has answered.
ReferencesAreDeducted ==
  AnswerHasReference =>
    /\ \A r \in Request : request[r].status = "APPROVED" =>
         request[r].reference \in deductions
    /\ \A i \in DOMAIN outbox : outbox[i].action = "CANCEL_TIME_OFF" =>
         outbox[i].reference \in deductions \/ i \in answered

TableInv ==
  /\ NoOverlap
  /\ PostInv
  /\ AccountsAreSynced
  /\ ReferencesArePosts
  /\ CancelsNamePosts
  /\ OneCancel

ServerInv ==
  /\ AnsweredIsDeducted
  /\ ApprovedIsDeducted
  /\ ReferencesAreDeducted

\* Requests, queue, sweep and HCM, in step with each other.
ExchangeInv == ProcessorTypeOK /\ TableInv /\ SweepInv /\ ServerInv

\* What ExchangeInv needs of the holds: a request that waits for the HCM has one.
\* Which other requests have one depends on who else writes the tables.
WaitingHasHold ==
  \A r \in Request :
    request[r].status = "APPROVED_PENDING_HCM" => hold[r] = "ACTIVE"

ProcessorInv == ExchangeInv /\ HoldFollowsRequest

-----------------------------------------------------------------------------
(***************************************************************************)
(* Entries.                                                                *)
(***************************************************************************)

\* Every non-empty set of positions in the queue has a first one.  Positions are
\* compared as the sets 1 .. i, which strict inclusion orders well.
LEMMA FirstPosition ==
  ASSUME NEW S \in SUBSET Nat, S # {}
  PROVE  \E i \in S : \A j \in S : i <= j
<1> DEFINE T == { 1 .. i : i \in S }
           R == StrictSubsetOrdering(Nat)
<1>1. T \subseteq FiniteSubsetsOf(Nat)
  <2>1. \A i \in S : IsFiniteSet(1 .. i) /\ 1 .. i \in SUBSET Nat
    BY FS_Interval
  <2> QED
    BY <2>1 DEF FiniteSubsetsOf
<1>2. T # {}
  OBVIOUS
<1>3. IsWellFoundedOn(R, FiniteSubsetsOf(Nat))
  BY FS_StrictSubsetOrderingWellFounded
<1>4. \E x \in T : \A y \in T : ~ (<<y, x>> \in R)
  <2> HIDE DEF T, R
  <2> QED
    BY <1>1, <1>2, <1>3, WFMin
<1>5. PICK i \in S : \A j \in S : ~ (<<1 .. j, 1 .. i>> \in R)
  BY <1>4
<1>6. ASSUME NEW j \in S, j < i
      PROVE  FALSE
  <2>1. 1 .. j \subseteq 1 .. i /\ i \in 1 .. i /\ i \notin 1 .. j
    BY <1>6
  <2>2. 1 .. j \in SUBSET Nat /\ 1 .. i \in SUBSET Nat
    OBVIOUS
  <2>3. 1 .. j # 1 .. i
    BY <2>1
  <2> QED
    BY <1>5, <2>1, <2>2, <2>3 DEF StrictSubsetOrdering
<1> QED
  BY <1>6

\* A sweep that has claimed anything has a current entry.
LEMMA CurrentClaimed ==
  ASSUME ProcessorTypeOK, claimed # {}
  PROVE  Current \in claimed
<1>1. DOMAIN outbox \subseteq Nat
  <2>1. outbox \in Seq(OutboxRow)
    BY DEF ProcessorTypeOK, TypeOK
  <2> QED
    BY <2>1
<1>2. claimed \in SUBSET Nat
  BY <1>1 DEF ProcessorTypeOK
<1>3. \E i \in claimed : \A j \in claimed : i <= j
  BY <1>2, FirstPosition
<1> QED
  BY <1>3 DEF Current

\* The request of an entry exists, and its account has a projection.
LEMMA EntryFacts ==
  ASSUME ProcessorTypeOK, TableInv, NEW i \in DOMAIN outbox
  PROVE  /\ outbox[i] \in OutboxRow
         /\ outbox[i].request \in Request
         /\ Exists(outbox[i].request)
         /\ request[outbox[i].request] \in RequestRow
         /\ AccountOf(i) \in Account
         /\ HoursOf(i) \in Nat \ {0}
         /\ balance[AccountOf(i)] \in ProjectionRow
<1> DEFINE r == outbox[i].request
<1>1. outbox[i] \in OutboxRow /\ r \in Request
  <2>1. outbox \in Seq(OutboxRow)
    BY DEF ProcessorTypeOK, TypeOK
  <2>2. outbox[i] \in OutboxRow
    BY <2>1
  <2> QED
    BY <2>2 DEF OutboxRow
<1>2. Exists(r)
  <2>1. CASE outbox[i].action = "POST_TIME_OFF"
    BY <1>1, <2>1 DEF TableInv, PostInv, NoEarlyPost, PostsOf
  <2>2. CASE outbox[i].action = "CANCEL_TIME_OFF"
    BY <1>1, <2>2 DEF TableInv, CancelsNamePosts, Exists, NoRequest
  <2> QED
    BY <1>1, <2>1, <2>2 DEF OutboxRow, OutboxAction
<1>3. request[r] \in RequestRow
  BY <1>1, <1>2 DEF ProcessorTypeOK, TypeOK, Exists
<1>4. AccountOf(i) \in Account /\ HoursOf(i) \in Nat \ {0}
  BY <1>3 DEF RequestRow, AccountOf, HoursOf
<1>5. balance[AccountOf(i)] \in ProjectionRow
  BY <1>1, <1>2, <1>4
     DEF TableInv, AccountsAreSynced, ProcessorTypeOK, TypeOK, AccountOf
<1> QED
  BY <1>1, <1>2, <1>3, <1>4, <1>5

\* While a call is awaited or answered, there is a current entry.
LEMMA CallHasEntry ==
  ASSUME ProcessorTypeOK, SweepInv, call # "none" \/ Running
  PROVE  Current \in claimed /\ Current \in DOMAIN outbox
BY CurrentClaimed DEF SweepInv, Running, ProcessorTypeOK

-----------------------------------------------------------------------------
(***************************************************************************)
(* What the sweep does to the tables: it moves entries without changing    *)
(* what they are for, and it settles at most one waiting request.          *)
(***************************************************************************)

\* Entries stay, for the same call, and one that is COMPLETED stays so.
SameEntries ==
  /\ DOMAIN outbox' = DOMAIN outbox
  /\ \A i \in DOMAIN outbox :
       /\ outbox'[i].request = outbox[i].request
       /\ outbox'[i].action = outbox[i].action
       /\ outbox'[i].reference = outbox[i].reference
       /\ outbox[i].status = "COMPLETED" => outbox'[i].status = "COMPLETED"

\* The request of entry i, which waited for the HCM, gets status s; its hold is
\* no longer ACTIVE.
Settles(i, s) ==
  LET r == outbox[i].request
  IN  /\ request[r].status = "APPROVED_PENDING_HCM"
      /\ request'[r] # NoRequest
      /\ request'[r].status = s
      /\ request'[r].account = request[r].account
      /\ request'[r].start = request[r].start
      /\ request'[r].end = request[r].end
      /\ request'[r].hours = request[r].hours
      /\ \/ request'[r].reference = request[r].reference
         \/ i \in PostsOf(r) /\ request'[r].reference = i
      /\ s = "APPROVED" /\ AnswerHasReference => request'[r].reference = i
      /\ \A q \in Request : q # r => request'[q] = request[q]
      /\ hold'[r] = IF hold[r] # "ACTIVE" THEN hold[r]
                    ELSE IF s = "APPROVED" THEN "CONVERTED" ELSE "RELEASED"
      /\ \A q \in Request : q # r => hold'[q] = hold[q]

\* Marking entries that are not done, or marking them done, moves entries.
LEMMA MarkedEntries ==
  ASSUME outbox \in Seq(OutboxRow), NEW E, NEW s \in OutboxStatus,
         outbox' = Marked(E, s),
         s = "COMPLETED" \/ \A i \in E : outbox[i].status # "COMPLETED"
  PROVE  outbox' \in Seq(OutboxRow) /\ SameEntries
BY MarkedOutbox DEF SameEntries

\* No action of the sweep reopens an entry that is done or re-addresses one.
LEMMA SweepEntries ==
  ASSUME ProcessorTypeOK, SweepInv, Sweep
  PROVE  outbox' \in Seq(OutboxRow) /\ SameEntries
<1>1. outbox \in Seq(OutboxRow)
  BY DEF ProcessorTypeOK, TypeOK
<1>2. {"PROCESSING", "FAILED", "COMPLETED"} \subseteq OutboxStatus
  BY DEF OutboxStatus
<1>3. ASSUME call # "none" \/ Running
      PROVE  Current \in DOMAIN outbox /\ outbox[Current].status # "COMPLETED"
  BY <1>3, CallHasEntry DEF SweepInv
<1>4. CASE ClaimPendingEntries
  BY <1>1, <1>2, <1>4, MarkedEntries DEF ClaimPendingEntries, Pending
<1>5. CASE SkipEntry
  BY <1>1, <1>2, <1>3, <1>5, MarkedEntries DEF SkipEntry
<1>6. CASE SendEntry
  BY <1>1, <1>6 DEF SendEntry, tables, SameEntries
<1>7. CASE ConfirmPost
  BY <1>1, <1>2, <1>7, MarkedEntries DEF ConfirmPost
<1>8. CASE DropPost
  BY <1>1, <1>2, <1>3, <1>8, MarkedEntries DEF DropPost
<1>9. CASE ConfirmCancel
  BY <1>1, <1>2, <1>9, MarkedEntries DEF ConfirmCancel
<1>10. CASE RetryEntry
  <2> DEFINE i == Current
  <2>1. i \in DOMAIN outbox /\ outbox[i].status # "COMPLETED"
    BY <1>3, <1>10 DEF RetryEntry, FailedTransiently
  <2>2. outbox' = [outbox EXCEPT ![i].status = "PENDING",
                                 ![i].retryCount = @ + 1]
    BY <1>10 DEF RetryEntry
  <2> HIDE DEF i
  <2>3. outbox[i] \in OutboxRow
    BY <1>1, <2>1
  <2> DEFINE e == [ request |-> outbox[i].request, action |-> outbox[i].action,
                    status |-> "PENDING", retryCount |-> outbox[i].retryCount + 1,
                    reference |-> outbox[i].reference ]
  <2>4. e \in OutboxRow
    BY <2>3 DEF OutboxRow, OutboxStatus
  <2>5. outbox' \in Seq(OutboxRow)
    <3>1. outbox'[i] = e
      BY <1>1, <2>1, <2>2, <2>3 DEF OutboxRow
    <3>2. \A j \in DOMAIN outbox : j # i => outbox'[j] = outbox[j]
      BY <2>2
    <3>3. outbox' = [j \in 1 .. Len(outbox) |-> outbox'[j]]
      <4>1. DOMAIN outbox = 1 .. Len(outbox)
        BY <1>1
      <4> QED
        BY <2>2, <4>1, Zenon
    <3> HIDE DEF e
    <3>4. \A j \in 1 .. Len(outbox) : outbox'[j] \in OutboxRow
      BY <1>1, <2>4, <3>1, <3>2
    <3> QED
      BY <1>1, <3>3, <3>4, Len(outbox) \in Nat
  <2>6. SameEntries
    BY <1>1, <2>1, <2>2, <2>3 DEF SameEntries, OutboxRow
  <2> QED
    BY <2>5, <2>6
<1>11. CASE GiveUpEntry
  <2>1. call # "none"
    BY <1>11 DEF GiveUpEntry, FailedTransiently
  <2> QED
    BY <1>1, <1>2, <1>3, <1>11, <2>1, MarkedEntries DEF GiveUpEntry
<1> QED
  BY <1>4, <1>5, <1>6, <1>7, <1>8, <1>9, <1>10, <1>11 DEF Sweep

\* The confirmation settles the request of the current entry, as APPROVED.
LEMMA ConfirmPostSettles ==
  ASSUME ProcessorTypeOK, TableInv, SweepInv, ConfirmPost
  PROVE  /\ Current \in DOMAIN outbox
         /\ Current \in PostsOf(outbox[Current].request)
         /\ Settles(Current, "APPROVED")
         /\ request' \in [Request -> RequestRow \union {NoRequest}]
         /\ hold' \in [Request -> HoldStatus \union {"NONE"}]
<1> DEFINE i == Current
           r == outbox[i].request
           ref == IF AnswerHasReference THEN i ELSE request[r].reference
<1>1. i \in DOMAIN outbox
  BY CallHasEntry DEF ConfirmPost
<1>2. i \in Nat
  BY <1>1 DEF ProcessorTypeOK, TypeOK
<1>3. r \in Request /\ Exists(r) /\ request[r] \in RequestRow /\ TypeOK
  BY <1>1, EntryFacts DEF ProcessorTypeOK
<1>4. ref \in Nat \union {NULL}
  BY <1>2, <1>3 DEF RequestRow
<1>5. /\ request[r].status = "APPROVED_PENDING_HCM"
      /\ outbox[i].action = "POST_TIME_OFF"
      /\ UpdateStatus(r, "APPROVED", request[r].version, ref)
      /\ MoveHold(r, "CONVERTED")
  BY DEF ConfirmPost, StillWanted, ExpectedStatus
<1>6. "APPROVED" \in RequestStatus /\ "CONVERTED" \in HoldStatus
  BY DEF RequestStatus, HoldStatus
<1>7. i \in PostsOf(r)
  BY <1>1, <1>5 DEF PostsOf
<1> HIDE DEF i, r
<1>8. /\ request' \in [Request -> RequestRow \union {NoRequest}]
      /\ request'[r].status = "APPROVED"
      /\ request'[r] # NoRequest
      /\ request'[r].account = request[r].account
      /\ request'[r].start = request[r].start
      /\ request'[r].end = request[r].end
      /\ request'[r].hours = request[r].hours
      /\ request'[r].reference = ref
      /\ \A q \in Request : q # r => request'[q] = request[q]
  <2> HIDE DEF ref
  <2> QED
    BY <1>3, <1>4, <1>5, <1>6, UpdatedRequest
<1>9. /\ hold' \in [Request -> HoldStatus \union {"NONE"}]
      /\ hold'[r] = IF hold[r] = "ACTIVE" THEN "CONVERTED" ELSE hold[r]
      /\ \A q \in Request : q # r => hold'[q] = hold[q]
  BY <1>3, <1>5, <1>6, MovedHold
<1> QED
  BY <1>1, <1>5, <1>7, <1>8, <1>9 DEF Settles, i, r

\* Giving up settles a waiting request, as FAILED_HCM, and no other.
LEMMA GiveUpSettles ==
  ASSUME ProcessorTypeOK, TableInv, SweepInv, GiveUpEntry
  PROVE  /\ Current \in DOMAIN outbox
         /\ \/ Settles(Current, "FAILED_HCM")
            \/ /\ UNCHANGED <<request, hold>>
               /\ request[outbox[Current].request].status # "APPROVED_PENDING_HCM"
         /\ request' \in [Request -> RequestRow \union {NoRequest}]
         /\ hold' \in [Request -> HoldStatus \union {"NONE"}]
<1> DEFINE i == Current
           r == outbox[i].request
           ref == request[r].reference
<1>1. i \in DOMAIN outbox
  BY CallHasEntry DEF GiveUpEntry, FailedTransiently
<1>2. r \in Request /\ Exists(r) /\ request[r] \in RequestRow /\ TypeOK
  BY <1>1, EntryFacts DEF ProcessorTypeOK
<1>3. ref \in Nat \union {NULL}
  BY <1>2 DEF RequestRow
<1>4. "FAILED_HCM" \in RequestStatus /\ "RELEASED" \in HoldStatus
  BY DEF RequestStatus, HoldStatus
<1>5. CASE /\ request[r].status = "APPROVED_PENDING_HCM"
           /\ UpdateStatus(r, "FAILED_HCM", request[r].version, ref)
           /\ MoveHold(r, "RELEASED")
  <2> HIDE DEF i, r
  <2>1. /\ request' \in [Request -> RequestRow \union {NoRequest}]
        /\ request'[r].status = "FAILED_HCM"
        /\ request'[r] # NoRequest
        /\ request'[r].account = request[r].account
        /\ request'[r].start = request[r].start
        /\ request'[r].end = request[r].end
        /\ request'[r].hours = request[r].hours
        /\ request'[r].reference = request[r].reference
        /\ \A q \in Request : q # r => request'[q] = request[q]
    BY <1>2, <1>3, <1>4, <1>5, UpdatedRequest
  <2>2. /\ hold' \in [Request -> HoldStatus \union {"NONE"}]
        /\ hold'[r] = IF hold[r] = "ACTIVE" THEN "RELEASED" ELSE hold[r]
        /\ \A q \in Request : q # r => hold'[q] = hold[q]
    BY <1>2, <1>4, <1>5, MovedHold
  <2> QED
    BY <1>1, <1>5, <2>1, <2>2 DEF Settles, i, r
<1>6. CASE /\ request[r].status # "APPROVED_PENDING_HCM"
           /\ UNCHANGED <<request, hold>>
  BY <1>1, <1>2, <1>6 DEF TypeOK
<1> QED
  BY <1>5, <1>6 DEF GiveUpEntry, ReleaseHold

-----------------------------------------------------------------------------
(***************************************************************************)
(* Type correctness.                                                       *)
(***************************************************************************)

\* The row applyDeduction writes, before the constraints are checked.
LEMMA WrittenRow ==
  ASSUME NEW row \in ProjectionRow, NEW u \in Int, NEW p \in Int
  PROVE  [row EXCEPT !.used = u, !.projected = p] \in
           [ total : Nat, used : Int, projected : Int, hcmVersion : Nat ]
BY DEF ProjectionRow

\* A deduction or refund that the CHECK constraints accept leaves a row.
LEMMA DeductedBalance ==
  ASSUME ProcessorTypeOK, TableInv, NEW i \in DOMAIN outbox, ApplyDeduction(i)
  PROVE  /\ balance' \in [Account -> ProjectionRow \union {NoProjection}]
         /\ \A a \in Account :
              balance[a] # NoProjection => balance'[a] # NoProjection
<1> DEFINE a == AccountOf(i)
           h == ConfirmedHours(i)
           new == Deducted(a, h)
<1>1. /\ a \in Account
      /\ HoursOf(i) \in Int
      /\ balance[a] \in ProjectionRow
  BY EntryFacts
<1>2. h \in Int
  BY <1>1 DEF ConfirmedHours
<1>3. /\ balance \in [Account -> ProjectionRow \union {NoProjection}]
      /\ balance' = [balance EXCEPT ![a] = new]
      /\ ConstraintsHold(new)
  BY DEF ApplyDeduction, BooksAccept, ProcessorTypeOK, TypeOK
<1> HIDE DEF a, h
<1>4. new \in [ total : Nat, used : Int, projected : Int, hcmVersion : Nat ]
  <2>1. balance[a].used + h \in Int /\ balance[a].projected - h \in Int
    BY <1>1, <1>2 DEF ProjectionRow
  <2> QED
    BY <1>1, <2>1, WrittenRow, Zenon DEF new, Deducted
<1>5. new \in ProjectionRow
  <2> HIDE DEF new
  <2> QED
    BY <1>3, <1>4 DEF ConstraintsHold, ProjectionRow
<1>6. NoProjection \notin ProjectionRow
  BY NullAssumption DEF NoProjection, ProjectionRow
<1> HIDE DEF new
<1> QED
  BY <1>1, <1>3, <1>5, <1>6

\* The balance of an account at the HCM stays one when a call changes it.
LEMMA HcmAccountType ==
  ASSUME hcm \in [Account -> HcmAccount], NEW a \in Account, NEW h \in Int,
         hcm' = [hcm EXCEPT ![a].used = @ + h, ![a].version = @ + 1]
  PROVE  hcm' \in [Account -> HcmAccount]
<1> DEFINE new == [ total |-> hcm[a].total, used |-> hcm[a].used + h,
                    version |-> hcm[a].version + 1 ]
<1>1. new \in HcmAccount
  BY DEF HcmAccount
<1>2. hcm'[a] = new
  BY DEF HcmAccount
<1>3. \A b \in Account : b # a => hcm'[b] = hcm[b]
  OBVIOUS
<1>4. DOMAIN hcm' = Account /\ hcm' = [b \in Account |-> hcm'[b]]
  OBVIOUS
<1> HIDE DEF new
<1> QED
  BY <1>1, <1>2, <1>3, <1>4

\* What a call leaves at the HCM: a good answer is stored, none is forgotten,
\* and only a cancellation takes a deduction away.
LEMMA ServerStep ==
  ASSUME ProcessorTypeOK, TableInv, NEW i \in DOMAIN outbox,
         NEW outcome \in Outcome, HcmHandles(i, outcome)
  PROVE  /\ hcm' \in [Account -> HcmAccount]
         /\ deductions' \subseteq DOMAIN outbox
         /\ answered \subseteq answered' /\ answered' \subseteq answered \union {i}
         /\ outcome = "ok" => i \in answered'
         /\ \/ deductions' = deductions /\ answered' = answered
            \/ /\ outbox[i].action = "POST_TIME_OFF"
               /\ deductions' = deductions \union {i}
            \/ /\ outbox[i].action = "CANCEL_TIME_OFF"
               /\ i \in answered'
               /\ outbox[i].reference \in deductions
               /\ deductions' = deductions \ {outbox[i].reference}
<1>1. AccountOf(i) \in Account /\ HoursOf(i) \in Int /\ - HoursOf(i) \in Int
  BY EntryFacts
<1>2. /\ hcm \in [Account -> HcmAccount]
      /\ deductions \subseteq DOMAIN outbox
  BY DEF ProcessorTypeOK
<1>3. "ok" \notin Faults
  BY FaultsAssumption DEF FaultKind
<1>4. CASE outcome = "ok" /\ i \in answered /\ UNCHANGED server
  BY <1>2, <1>4 DEF server
<1>5. CASE outcome = "ok" /\ HcmPosts(i)
  BY <1>1, <1>2, <1>5, HcmAccountType DEF HcmPosts
<1>6. CASE outcome = "ok" /\ HcmReverses(i)
  <2>1. \A x \in Int : x - HoursOf(i) = x + (- HoursOf(i))
    BY <1>1
  <2>2. hcm' = [hcm EXCEPT ![AccountOf(i)].used = @ + (- HoursOf(i)),
                           ![AccountOf(i)].version = @ + 1]
    BY <1>1, <1>2, <1>6, <2>1 DEF HcmReverses, HcmAccount
  <2>3. hcm' \in [Account -> HcmAccount]
    BY <1>1, <1>2, <2>2, HcmAccountType
  <2> QED
    BY <1>2, <1>6, <2>3 DEF HcmReverses
<1>7. CASE outcome = "permanent" /\ HcmRefuses(i)
  BY <1>2, <1>7 DEF HcmRefuses, server
<1>8. CASE outcome \in Faults /\ i \notin answered /\ UNCHANGED server
  BY <1>2, <1>3, <1>8 DEF server
<1> QED
  BY <1>4, <1>5, <1>6, <1>7, <1>8 DEF HcmHandles

\* A handler inserts entries or gives unsettled ones up, and makes none COMPLETED.
LEMMA HandlerEntries ==
  ASSUME TypeOK, Handler
  PROVE  /\ DOMAIN outbox \subseteq DOMAIN outbox'
         /\ \A i \in DOMAIN outbox :
              /\ outbox'[i].request = outbox[i].request
              /\ outbox'[i].action = outbox[i].action
              /\ outbox'[i].reference = outbox[i].reference
              /\ outbox'[i].status = "COMPLETED" <=> outbox[i].status = "COMPLETED"
<1>1. outbox \in Seq(OutboxRow)
  BY DEF TypeOK
<1>2. ASSUME NEW e, outbox' = Append(outbox, e)
      PROVE  /\ DOMAIN outbox \subseteq DOMAIN outbox'
             /\ \A i \in DOMAIN outbox : outbox'[i] = outbox[i]
  BY <1>1, <1>2
<1>3. ASSUME NEW r \in Request, outbox' = CancelByRequestId(r)
      PROVE  /\ DOMAIN outbox' = DOMAIN outbox
             /\ \A i \in DOMAIN outbox :
                  /\ outbox'[i].request = outbox[i].request
                  /\ outbox'[i].action = outbox[i].action
                  /\ outbox'[i].reference = outbox[i].reference
                  /\ outbox'[i].status = IF i \in UnsettledEntriesOf(r)
                                         THEN "FAILED" ELSE outbox[i].status
  <2>1. "FAILED" \in OutboxStatus
    BY DEF OutboxStatus
  <2> QED
    BY <1>1, <1>3, <2>1, MarkedOutbox DEF CancelByRequestId
<1>4. ASSUME NEW r \in Request, outbox' = CancelByRequestId(r)
      PROVE  \A i \in DOMAIN outbox :
               outbox'[i].status = "COMPLETED" <=> outbox[i].status = "COMPLETED"
  BY <1>3, <1>4 DEF UnsettledEntriesOf, Unsettled
<1> QED
  BY <1>2, <1>3, <1>4 DEF Handler, CreateRequest, ApproveRequest, RejectRequest,
                          CancelRequest

\* Type correctness, by kind of step.
LEMMA SweepType ==
  ASSUME ProcessorTypeOK, TableInv, SweepInv, Sweep
  PROVE  ProcessorTypeOK'
<1>1. TypeOK /\ claimed \subseteq DOMAIN outbox
  BY DEF ProcessorTypeOK
<1>2. outbox' \in Seq(OutboxRow) /\ DOMAIN outbox' = DOMAIN outbox
  BY SweepEntries DEF SameEntries
<1>3. UNCHANGED <<late, server, crashes>>
  BY DEF Sweep, ClaimPendingEntries, SkipEntry, SendEntry, ConfirmPost, DropPost,
         ConfirmCancel, RetryEntry, GiveUpEntry, NextEntry
<1>4. claimed' \subseteq DOMAIN outbox
  BY <1>1 DEF Sweep, ClaimPendingEntries, SkipEntry, SendEntry, ConfirmPost,
         DropPost, ConfirmCancel, RetryEntry, GiveUpEntry, NextEntry, Pending
<1>5. call' \in {"none", "sent"} \union Outcome
  BY DEF Sweep, ClaimPendingEntries, SkipEntry, SendEntry, ConfirmPost, DropPost,
         ConfirmCancel, RetryEntry, GiveUpEntry, NextEntry, ProcessorTypeOK
<1>6. /\ request' \in [Request -> RequestRow \union {NoRequest}]
      /\ hold' \in [Request -> HoldStatus \union {"NONE"}]
  <2>1. CASE ConfirmPost
    BY <2>1, ConfirmPostSettles
  <2>2. CASE GiveUpEntry
    BY <2>2, GiveUpSettles
  <2>3. CASE UNCHANGED <<request, hold>>
    BY <1>1, <2>3 DEF TypeOK
  <2> QED
    BY <2>1, <2>2, <2>3
       DEF Sweep, ClaimPendingEntries, SkipEntry, SendEntry, DropPost,
           ConfirmCancel, RetryEntry, tables
<1>7. balance' \in [Account -> ProjectionRow \union {NoProjection}]
  <2>1. CASE ConfirmPost \/ ConfirmCancel
    <3>1. Current \in DOMAIN outbox /\ ApplyDeduction(Current)
      BY <2>1, CallHasEntry DEF ConfirmPost, ConfirmCancel
    <3> QED
      BY <3>1, DeductedBalance
  <2>2. CASE UNCHANGED balance
    BY <1>1, <2>2 DEF TypeOK
  <2> QED
    BY <2>1, <2>2 DEF Sweep, ClaimPendingEntries, SkipEntry, SendEntry, DropPost,
                      RetryEntry, GiveUpEntry, tables
<1>8. TypeOK'
  BY <1>2, <1>6, <1>7 DEF TypeOK
<1> QED
  BY <1>2, <1>3, <1>4, <1>5, <1>8 DEF ProcessorTypeOK, server

LEMMA ApiCallType ==
  ASSUME ProcessorTypeOK, ApiCall
  PROVE  ProcessorTypeOK'
<1>1. TypeOK'
  BY HandlerType DEF ApiCall, ProcessorTypeOK
<1>2. DOMAIN outbox \subseteq DOMAIN outbox'
  BY HandlerEntries DEF ApiCall, ProcessorTypeOK
<1> QED
  BY <1>1, <1>2 DEF ApiCall, ProcessorTypeOK, processor, server

LEMMA NetworkType ==
  ASSUME ProcessorTypeOK, TableInv, SweepInv, Network
  PROVE  ProcessorTypeOK'
<1>1. UNCHANGED <<tables, claimed, crashes>>
  BY DEF Network, CallAnswered, CallDisconnected, LateCall, processor
<1>2. TypeOK'
  BY <1>1 DEF ProcessorTypeOK, TypeOK, tables
<1>3. CASE CallAnswered
  <2>1. Current \in DOMAIN outbox
    BY <1>3, CallHasEntry DEF CallAnswered
  <2>2. PICK outcome \in Outcome : HcmHandles(Current, outcome) /\ call' = outcome
    BY <1>3 DEF CallAnswered
  <2> QED
    BY <1>1, <1>2, <1>3, <2>1, <2>2, ServerStep
       DEF ProcessorTypeOK, CallAnswered, tables
<1>4. CASE CallDisconnected
  <2>1. Current \in DOMAIN outbox
    BY <1>4, CallHasEntry DEF CallDisconnected
  <2> QED
    BY <1>1, <1>2, <1>4, <2>1
       DEF ProcessorTypeOK, CallDisconnected, tables, server, Outcome
<1>5. ASSUME NEW i \in late, LateCall(i)
      PROVE  ProcessorTypeOK'
  <2>1. i \in DOMAIN outbox
    BY DEF ProcessorTypeOK
  <2>2. PICK outcome \in Outcome : HcmHandles(i, outcome)
    BY <1>5 DEF LateCall
  <2> QED
    BY <1>1, <1>2, <1>5, <2>1, <2>2, ServerStep
       DEF ProcessorTypeOK, LateCall, tables, processor
<1> QED
  BY <1>3, <1>4, <1>5 DEF Network

LEMMA CrashType ==
  ASSUME ProcessorTypeOK, SweepInv, Crash
  PROVE  ProcessorTypeOK'
<1>1. call = "sent" => Current \in DOMAIN outbox
  BY CallHasEntry
<1>2. crashes' \in 0 .. MaxCrashes
  BY MaxCrashesAssumption DEF Crash, ProcessorTypeOK
<1> QED
  BY <1>1, <1>2 DEF Crash, ProcessorTypeOK, TypeOK, tables, server

-----------------------------------------------------------------------------
(***************************************************************************)
(* The tables.                                                             *)
(***************************************************************************)

\* A step that moves entries and settles at most one request keeps TableInv, if
\* it leaves alone the posts of requests that go on waiting.
LEMMA SettledTables ==
  ASSUME ProcessorTypeOK, TableInv, SameEntries,
         \A a \in Account :
           balance[a] # NoProjection => balance'[a] # NoProjection,
         \/ UNCHANGED <<request, hold>>
         \/ \E i \in DOMAIN outbox : \E s \in {"APPROVED", "FAILED_HCM"} :
              Settles(i, s),
         \A j \in DOMAIN outbox :
           /\ outbox[j].action = "POST_TIME_OFF"
           /\ request'[outbox[j].request].status = "APPROVED_PENDING_HCM"
           /\ Unsettled(j)
           => Unsettled(j)'
  PROVE  TableInv'
<1>1. \A r \in Request : PostsOf(r)' = PostsOf(r)
  BY DEF PostsOf, SameEntries
<1>2. \A r \in Request : request[r] # NoRequest => request[r] \in RequestRow
  BY DEF ProcessorTypeOK, TypeOK
<1>3. CASE UNCHANGED <<request, hold>>
  <2>1. NoOverlap'
    BY <1>3 DEF TableInv, NoOverlap, OccupiesDates
  <2>2. PostInv'
    BY <1>1, <1>3
       DEF TableInv, PostInv, WaitingRequestHasItsPost, NoEarlyPost, Exists, PostsOf
  <2>3. AccountsAreSynced'
    BY <1>2, <1>3 DEF TableInv, AccountsAreSynced, Exists, RequestRow
  <2>4. ReferencesArePosts'
    BY <1>1, <1>3 DEF TableInv, ReferencesArePosts, Exists
  <2>5. CancelsNamePosts' /\ OneCancel'
    <3>1. \A i \in DOMAIN outbox : outbox[i].request \in Request
      BY EntryFacts
    <3> QED
      BY <1>1, <1>3, <3>1 DEF TableInv, CancelsNamePosts, OneCancel, SameEntries
  <2> QED
    BY <2>1, <2>2, <2>3, <2>4, <2>5 DEF TableInv
<1>4. ASSUME NEW i \in DOMAIN outbox, NEW s \in {"APPROVED", "FAILED_HCM"},
             Settles(i, s)
      PROVE  TableInv'
  <2> DEFINE r == outbox[i].request
  <2>1. r \in Request /\ Exists(r) /\ request[r] \in RequestRow
    BY EntryFacts
  <2>2. \A q \in Request : q # r => request'[q] = request[q] /\ hold'[q] = hold[q]
    BY <1>4 DEF Settles
  <2>3. /\ request[r].status = "APPROVED_PENDING_HCM"
        /\ request'[r].status = s
        /\ request'[r] # NoRequest
        /\ request'[r].account = request[r].account
        /\ request'[r].start = request[r].start
        /\ request'[r].end = request[r].end
        /\ \/ request'[r].reference = request[r].reference
           \/ request'[r].reference \in PostsOf(r)
    BY <1>4 DEF Settles
  <2> HIDE DEF r
  <2>4. NoOverlap'
    <3>1. \A q \in Request : OccupiesDates(q)' =>
            /\ OccupiesDates(q)
            /\ request'[q].account = request[q].account
            /\ request'[q].start = request[q].start
            /\ request'[q].end = request[q].end
      BY <2>1, <2>2, <2>3 DEF OccupiesDates
    <3> QED
      BY <3>1 DEF TableInv, NoOverlap
  <2>5. WaitingRequestHasItsPost'
    <3>1. ASSUME NEW q \in Request,
                 request'[q].status = "APPROVED_PENDING_HCM"
          PROVE  \E j \in PostsOf(q)' : Unsettled(j)'
      <4>1. request[q].status = "APPROVED_PENDING_HCM"
        BY <2>2, <2>3, <3>1
      <4>2. PICK j \in PostsOf(q) : Unsettled(j)
        BY <4>1 DEF TableInv, PostInv, WaitingRequestHasItsPost
      <4>3. Unsettled(j)'
        BY <3>1, <4>2 DEF PostsOf
      <4> QED
        BY <1>1, <4>2, <4>3
    <3> QED
      BY <1>1, <3>1 DEF TableInv, PostInv, WaitingRequestHasItsPost
  <2>6. NoEarlyPost'
    BY <1>1, <2>1, <2>2, <2>3 DEF TableInv, PostInv, NoEarlyPost, Exists
  <2>7. AccountsAreSynced'
    BY <1>2, <2>1, <2>2, <2>3 DEF TableInv, AccountsAreSynced, Exists, RequestRow
  <2>8. ReferencesArePosts'
    BY <1>1, <2>1, <2>2, <2>3 DEF TableInv, ReferencesArePosts, Exists
  <2>9. CancelsNamePosts' /\ OneCancel'
    <3>1. \A j \in DOMAIN outbox : outbox[j].request \in Request
      BY EntryFacts
    <3>2. \A j \in DOMAIN outbox : outbox[j].action = "CANCEL_TIME_OFF" =>
            outbox[j].request # r
      BY <2>3 DEF TableInv, CancelsNamePosts
    <3> QED
      BY <1>1, <2>2, <3>1, <3>2
         DEF TableInv, CancelsNamePosts, OneCancel, SameEntries
  <2> QED
    BY <2>4, <2>5, <2>6, <2>7, <2>8, <2>9 DEF TableInv, PostInv
<1> QED
  BY <1>3, <1>4

\* The sweep marks no post of a request that goes on waiting FAILED or COMPLETED.
LEMMA SweepKeepsWaiting ==
  ASSUME ProcessorTypeOK, TableInv, SweepInv, Sweep,
         NEW j \in DOMAIN outbox, outbox[j].action = "POST_TIME_OFF",
         request'[outbox[j].request].status = "APPROVED_PENDING_HCM", Unsettled(j)
  PROVE  Unsettled(j)'
<1>1. outbox \in Seq(OutboxRow)
  BY DEF ProcessorTypeOK, TypeOK
<1>2. \A E, s : outbox' = Marked(E, s) /\ s \in OutboxStatus =>
        outbox'[j].status = IF j \in E THEN s ELSE outbox[j].status
  BY <1>1, MarkedOutbox
<1>3. {"PROCESSING", "FAILED", "COMPLETED"} \subseteq OutboxStatus
  BY DEF OutboxStatus
<1>4. CASE ClaimPendingEntries
  BY <1>2, <1>3, <1>4 DEF ClaimPendingEntries, Unsettled
<1>5. CASE SkipEntry
  BY <1>2, <1>3, <1>5 DEF SkipEntry, StillWanted, ExpectedStatus, Unsettled
<1>6. CASE SendEntry
  BY <1>6 DEF SendEntry, tables, Unsettled
<1>7. CASE ConfirmPost
  BY <1>2, <1>3, <1>7, ConfirmPostSettles DEF ConfirmPost, Settles, Unsettled
<1>8. CASE DropPost
  BY <1>2, <1>3, <1>8 DEF DropPost, StillWanted, ExpectedStatus, Unsettled
<1>9. CASE ConfirmCancel
  BY <1>2, <1>3, <1>9 DEF ConfirmCancel, Unsettled
<1>10. CASE RetryEntry
  <2>1. outbox[j] \in OutboxRow
    BY <1>1
  <2> QED
    BY <1>10, <2>1 DEF RetryEntry, Unsettled, OutboxRow
<1>11. CASE GiveUpEntry
  BY <1>2, <1>3, <1>11, GiveUpSettles DEF GiveUpEntry, Settles, Unsettled
<1> QED
  BY <1>4, <1>5, <1>6, <1>7, <1>8, <1>9, <1>10, <1>11 DEF Sweep

\* The sweep keeps TableInv: what it does is an instance of SettledTables.
LEMMA SweepTables ==
  ASSUME ProcessorTypeOK, TableInv, SweepInv, Sweep
  PROVE  TableInv'
<1>1. SameEntries
  BY SweepEntries
<1>2. \A a \in Account : balance[a] # NoProjection => balance'[a] # NoProjection
  <2>1. CASE ConfirmPost \/ ConfirmCancel
    <3>1. Current \in DOMAIN outbox /\ ApplyDeduction(Current)
      BY <2>1, CallHasEntry DEF ConfirmPost, ConfirmCancel
    <3> QED
      BY <3>1, DeductedBalance
  <2>2. CASE UNCHANGED balance
    BY <2>2
  <2> QED
    BY <2>1, <2>2 DEF Sweep, ClaimPendingEntries, SkipEntry, SendEntry, DropPost,
                      RetryEntry, GiveUpEntry, tables
<1>3. \/ UNCHANGED <<request, hold>>
      \/ \E i \in DOMAIN outbox : \E s \in {"APPROVED", "FAILED_HCM"} :
           Settles(i, s)
  BY ConfirmPostSettles, GiveUpSettles
     DEF Sweep, ClaimPendingEntries, SkipEntry, SendEntry, DropPost,
         ConfirmCancel, RetryEntry, tables
<1> QED
  BY <1>1, <1>2, <1>3, SweepKeepsWaiting, SettledTables

\* The sweep takes the hold of a request it settles, and of no other.
LEMMA SweepHolds ==
  ASSUME ProcessorTypeOK, TableInv, SweepInv, Sweep, NEW r \in Request
  PROVE  \/ request'[r] = request[r] /\ hold'[r] = hold[r]
         \/ /\ request[r].status = "APPROVED_PENDING_HCM"
            /\ request'[r].status \in {"APPROVED", "FAILED_HCM"}
            /\ hold'[r] # "ACTIVE"
<1>1. CASE UNCHANGED <<request, hold>>
  BY <1>1
<1>2. ASSUME NEW i \in DOMAIN outbox, NEW s \in {"APPROVED", "FAILED_HCM"},
             Settles(i, s)
      PROVE  \/ request'[r] = request[r] /\ hold'[r] = hold[r]
             \/ /\ request[r].status = "APPROVED_PENDING_HCM"
                /\ request'[r].status = s
                /\ hold'[r] # "ACTIVE"
  BY <1>2 DEF Settles
<1> QED
  BY <1>1, <1>2, ConfirmPostSettles, GiveUpSettles
     DEF Sweep, ClaimPendingEntries, SkipEntry, SendEntry, DropPost,
         ConfirmCancel, RetryEntry, tables

\* Steps that leave the tables alone.
LEMMA UnchangedTables ==
  ASSUME ProcessorTypeOK, TableInv, UNCHANGED tables
  PROVE  TableInv'
<1>1. SameEntries
  BY DEF SameEntries, tables
<1>2. UNCHANGED <<request, hold, balance>> /\ \A j : Unsettled(j)' = Unsettled(j)
  BY DEF tables, Unsettled
<1> QED
  BY <1>1, <1>2, SettledTables

-----------------------------------------------------------------------------
(***************************************************************************)
(* The tables under the request API.  RequestLifecycle_proofs has done the *)
(* holds, the dates and the posts; the references remain.                  *)
(***************************************************************************)

ReferenceInv ==
  AccountsAreSynced /\ ReferencesArePosts /\ CancelsNamePosts /\ OneCancel

\* approveRequest, rejectRequest and cancelRequest keep a request's reference.
LEMMA KeptReference ==
  ASSUME TypeOK, NEW r \in Request, NEW v,
         ApproveRequest(r, v) \/ RejectRequest(r, v) \/ CancelRequest(r, v)
  PROVE  /\ Exists(r)
         /\ request'[r].reference = request[r].reference
         /\ request'[r].account = request[r].account
         /\ \A q \in Request : q # r => request'[q] = request[q]
         /\ balance' = balance
<1>1. Exists(r) /\ request[r] \in RequestRow
  BY DEF ApproveRequest, RejectRequest, CancelRequest, TypeOK, Exists
<1>2. request[r].reference \in Nat \union {NULL}
  BY <1>1 DEF RequestRow
<1>3. \E s \in RequestStatus : UpdateStatus(r, s, v, request[r].reference)
  BY DEF ApproveRequest, RejectRequest, CancelRequest, RequestStatus
<1> QED
  BY <1>1, <1>2, <1>3, UpdatedRequest
     DEF ApproveRequest, RejectRequest, CancelRequest

\* Handlers keep references and cancellations tied to their posts.
LEMMA HandlerReferences ==
  ASSUME ProcessorTypeOK, TableInv, Handler
  PROVE  ReferenceInv'
<1> USE DEF ReferenceInv, TableInv
<1>1. TypeOK /\ outbox \in Seq(OutboxRow)
  BY DEF ProcessorTypeOK, TypeOK
<1>2. \A q \in Request : PostsOf(q) \subseteq PostsOf(q)'
  BY <1>1, HandlerEntries DEF PostsOf
<1>3. \A i \in DOMAIN outbox :
        outbox[i].request \in Request /\ Exists(outbox[i].request)
  BY EntryFacts
<1>4. ASSUME NEW r \in Request, NEW a \in Account, NEW start \in Day,
             NEW end \in Day, NEW h \in Hours,
             CreateRequest(r, a, start, end, h)
      PROVE  ReferenceInv'
  <2>1. /\ request[r] = NoRequest
        /\ request'[r].account = a
        /\ \A q \in Request : q # r => request'[q] = request[q]
    BY <1>1, <1>4, CreatedRequest
  <2>2. request'[r].reference = NULL
    BY <1>1, <1>4 DEF CreateRequest, TypeOK
  <2>3. balance' = balance /\ outbox' = outbox /\ balance[a] # NoProjection
    BY <1>4 DEF CreateRequest
  <2>4. AccountsAreSynced'
    BY <2>1, <2>3 DEF AccountsAreSynced, Exists
  <2>5. ReferencesArePosts'
    BY <1>2, <2>1, <2>2 DEF ReferencesArePosts, Exists
  <2>6. CancelsNamePosts' /\ OneCancel'
    BY <1>2, <1>3, <2>1, <2>3 DEF CancelsNamePosts, OneCancel, Exists
  <2> QED
    BY <2>4, <2>5, <2>6
<1>5. ASSUME NEW r \in Request, NEW v,
             ApproveRequest(r, v) \/ RejectRequest(r, v) \/ CancelRequest(r, v)
      PROVE  AccountsAreSynced' /\ ReferencesArePosts'
  <2>1. /\ Exists(r)
        /\ request'[r].reference = request[r].reference
        /\ request'[r].account = request[r].account
        /\ \A q \in Request : q # r => request'[q] = request[q]
        /\ balance' = balance
    BY <1>1, <1>5, KeptReference
  <2> QED
    BY <1>2, <2>1 DEF AccountsAreSynced, ReferencesArePosts, Exists
<1>6. ASSUME NEW r \in Request, NEW v, ApproveRequest(r, v)
      PROVE  CancelsNamePosts' /\ OneCancel'
  <2> DEFINE e == OutboxEntry(r, "POST_TIME_OFF", NULL)
  <2>1. e \in OutboxRow /\ e.action # "CANCEL_TIME_OFF"
    BY NewEntryType DEF OutboxAction, OutboxEntry
  <2>2. outbox' = Append(outbox, e)
    BY <1>6 DEF ApproveRequest
  <2> HIDE DEF e
  <2>3. /\ DOMAIN outbox' = DOMAIN outbox \union {Len(outbox) + 1}
        /\ \A i \in DOMAIN outbox : outbox'[i] = outbox[i]
        /\ outbox'[Len(outbox) + 1] = e
    BY <1>1, <2>1, <2>2, AppendedOutbox
  <2>4. /\ request[r].status = "PENDING_APPROVAL"
        /\ \A q \in Request : q # r => request'[q] = request[q]
    BY <1>1, <1>6, ApprovedRequest
  <2> QED
    BY <1>2, <1>3, <2>1, <2>3, <2>4 DEF CancelsNamePosts, OneCancel
<1>7. ASSUME NEW r \in Request, NEW v, RejectRequest(r, v)
      PROVE  CancelsNamePosts' /\ OneCancel'
  <2>1. outbox' = outbox
    BY <1>7 DEF RejectRequest
  <2>2. /\ request[r].status = "PENDING_APPROVAL"
        /\ \A q \in Request : q # r => request'[q] = request[q]
    BY <1>1, <1>7, RejectedRequest
  <2> QED
    BY <1>2, <1>3, <2>1, <2>2 DEF CancelsNamePosts, OneCancel
<1>8. ASSUME NEW r \in Request, NEW v, CancelRequest(r, v)
      PROVE  CancelsNamePosts' /\ OneCancel'
  <2>1. /\ request'[r].status = "CANCELLED"
        /\ \A q \in Request : q # r => request'[q] = request[q]
    BY <1>1, <1>8, CancelledRequest
  <2>2. \A i \in DOMAIN outbox : outbox[i].action = "CANCEL_TIME_OFF" =>
          request'[outbox[i].request].status = "CANCELLED"
    BY <1>3, <2>1 DEF CancelsNamePosts
  <2>3. CASE DOMAIN outbox' = DOMAIN outbox
    BY <1>1, <1>2, <1>3, <2>2, <2>3, HandlerEntries
       DEF CancelsNamePosts, OneCancel
  <2>4. CASE /\ request[r].status = "APPROVED"
             /\ outbox' = Append(outbox,
                  OutboxEntry(r, "CANCEL_TIME_OFF", request[r].reference))
    <3> DEFINE e == OutboxEntry(r, "CANCEL_TIME_OFF", request[r].reference)
    <3>1. /\ e \in OutboxRow
          /\ e.request = r
          /\ e.reference = request[r].reference
      <4>1. request[r].reference \in Nat \union {NULL}
        BY <1>1, <1>8, CancelledRequest DEF TypeOK, Exists, RequestRow
      <4> QED
        BY <4>1, NewEntryType DEF OutboxAction, OutboxEntry
    <3> HIDE DEF e
    <3>2. /\ DOMAIN outbox' = DOMAIN outbox \union {Len(outbox) + 1}
          /\ \A i \in DOMAIN outbox : outbox'[i] = outbox[i]
          /\ outbox'[Len(outbox) + 1] = e
      BY <1>1, <2>4, <3>1, AppendedOutbox DEF e
    <3>3. e.reference = NULL \/ e.reference \in PostsOf(r)'
      BY <1>1, <1>2, <1>8, <3>1, CancelledRequest DEF ReferencesArePosts
    <3>4. \A i \in DOMAIN outbox : outbox[i].action = "CANCEL_TIME_OFF" =>
            outbox[i].request # r
      BY <2>4 DEF CancelsNamePosts
    <3>5. CancelsNamePosts'
      BY <1>2, <1>3, <2>1, <2>2, <3>1, <3>2, <3>3 DEF CancelsNamePosts
    <3>6. OneCancel'
      BY <3>1, <3>2, <3>4 DEF OneCancel
    <3> QED
      BY <3>5, <3>6
  <2> QED
    BY <1>1, <1>8, <2>3, <2>4, MarkedOutbox
       DEF CancelRequest, CancelByRequestId, Marked
<1> QED
  BY <1>4, <1>5, <1>6, <1>7, <1>8 DEF Handler

\* The API keeps TableInv: the parts proved before, and the references.
LEMMA ApiCallTables ==
  ASSUME ProcessorTypeOK, TableInv, ApiCall
  PROVE  TableInv'
BY HandlerOverlap, HandlerPosts, HandlerReferences
   DEF ApiCall, ProcessorTypeOK, TableInv, ReferenceInv

-----------------------------------------------------------------------------
(***************************************************************************)
(* What the sweep has in memory.                                           *)
(***************************************************************************)

\* SweepInv, by kind of step.
LEMMA ApiCallSweep ==
  ASSUME ProcessorTypeOK, SweepInv, ApiCall
  PROVE  SweepInv'
<1>1. UNCHANGED <<claimed, call, answered>>
  BY DEF ApiCall, processor, server
<1>2. \A i \in claimed : outbox'[i].status # "COMPLETED"
  BY HandlerEntries DEF ApiCall, SweepInv, ProcessorTypeOK
<1> QED
  BY <1>1, <1>2 DEF SweepInv, Current

LEMMA SweepSweep ==
  ASSUME ProcessorTypeOK, TableInv, SweepInv, Sweep
  PROVE  SweepInv'
<1>1. outbox \in Seq(OutboxRow) /\ claimed \subseteq DOMAIN outbox
  BY DEF ProcessorTypeOK, TypeOK
<1>2. ASSUME NEW E, NEW s \in {"PROCESSING", "FAILED"}, outbox' = Marked(E, s)
      PROVE  \A i \in DOMAIN outbox :
               outbox'[i].status = IF i \in E THEN s ELSE outbox[i].status
  BY <1>1, <1>2, MarkedOutbox DEF OutboxStatus
<1>3. CASE ClaimPendingEntries
  BY <1>1, <1>2, <1>3 DEF ClaimPendingEntries, SweepInv, Pending
<1>4. CASE SkipEntry
  BY <1>1, <1>2, <1>4 DEF SkipEntry, SweepInv, Running
<1>5. CASE SendEntry
  BY <1>5 DEF SendEntry, SweepInv, Running, tables
<1>6. CASE NextEntry /\ outbox' = Marked({Current}, "COMPLETED")
  <2>1. "COMPLETED" \in OutboxStatus
    BY DEF OutboxStatus
  <2> QED
    BY <1>1, <1>6, <2>1, MarkedOutbox DEF NextEntry, SweepInv
<1>7. CASE NextEntry /\ outbox' = Marked({Current}, "FAILED")
  BY <1>1, <1>2, <1>7 DEF NextEntry, SweepInv
<1>8. CASE RetryEntry
  BY <1>1, <1>8 DEF RetryEntry, NextEntry, SweepInv
<1> QED
  BY <1>3, <1>4, <1>5, <1>6, <1>7, <1>8
     DEF Sweep, ConfirmPost, DropPost, ConfirmCancel, GiveUpEntry

LEMMA NetworkSweep ==
  ASSUME ProcessorTypeOK, TableInv, SweepInv, Network
  PROVE  SweepInv'
<1>1. UNCHANGED <<tables, claimed>> /\ Current' = Current
  BY DEF Network, CallAnswered, CallDisconnected, LateCall, processor, Current
<1>2. CASE CallAnswered
  <2>1. Current \in DOMAIN outbox
    BY <1>2, CallHasEntry DEF CallAnswered
  <2>2. PICK outcome \in Outcome : HcmHandles(Current, outcome) /\ call' = outcome
    BY <1>2 DEF CallAnswered
  <2>3. call' = "ok" => Current \in answered'
    BY <2>1, <2>2, ServerStep
  <2> QED
    BY <1>1, <1>2, <2>3 DEF SweepInv, CallAnswered, tables
<1>3. CASE CallDisconnected
  BY <1>1, <1>3 DEF CallDisconnected, SweepInv, tables
<1>4. ASSUME NEW i \in late, LateCall(i)
      PROVE  SweepInv'
  <2>1. i \in DOMAIN outbox
    BY DEF ProcessorTypeOK
  <2>2. answered \subseteq answered'
    BY <1>4, <2>1, ServerStep DEF LateCall
  <2> QED
    BY <1>1, <1>4, <2>2 DEF SweepInv, LateCall, processor, tables
<1> QED
  BY <1>2, <1>3, <1>4 DEF Network

LEMMA CrashSweep ==
  ASSUME SweepInv, Crash
  PROVE  SweepInv'
BY DEF Crash, SweepInv

-----------------------------------------------------------------------------
(***************************************************************************)
(* The tables and the HCM.                                                 *)
(***************************************************************************)

\* A CANCELLED request stays CANCELLED under the API, and none gets APPROVED.
LEMMA HandlerStatus ==
  ASSUME TypeOK, Handler, NEW r \in Request
  PROVE  /\ request[r].status = "CANCELLED" => request'[r].status = "CANCELLED"
         /\ request'[r].status = "APPROVED" =>
              request'[r] = request[r] /\ hold'[r] = hold[r]
<1>1. NoRequest.status = "NONE"
  BY DEF NoRequest
<1>2. ASSUME NEW q \in Request, NEW a \in Account, NEW start \in Day,
             NEW end \in Day, NEW h \in Hours,
             CreateRequest(q, a, start, end, h)
      PROVE  /\ request[q] = NoRequest /\ request'[q].status = "PENDING_APPROVAL"
             /\ r # q => request'[r] = request[r] /\ hold'[r] = hold[r]
  BY <1>2, CreatedRequest DEF CreateRequest, TypeOK
<1>3. ASSUME NEW q \in Request, NEW v, ApproveRequest(q, v)
      PROVE  /\ request[q].status = "PENDING_APPROVAL"
             /\ request'[q].status = "APPROVED_PENDING_HCM"
             /\ r # q => request'[r] = request[r] /\ hold'[r] = hold[r]
  BY <1>3, ApprovedRequest DEF ApproveRequest
<1>4. ASSUME NEW q \in Request, NEW v, RejectRequest(q, v)
      PROVE  /\ request[q].status = "PENDING_APPROVAL"
             /\ request'[q].status = "REJECTED"
             /\ r # q => request'[r] = request[r] /\ hold'[r] = hold[r]
  <2>1. MoveHold(q, "RELEASED") /\ "RELEASED" \in HoldStatus
    BY <1>4 DEF RejectRequest, ReleaseHold, HoldStatus
  <2> QED
    BY <1>4, <2>1, RejectedRequest, MovedHold
<1>5. ASSUME NEW q \in Request, NEW v, CancelRequest(q, v)
      PROVE  /\ request'[q].status = "CANCELLED"
             /\ r # q => request'[r] = request[r] /\ hold'[r] = hold[r]
  <2>1. MoveHold(q, "RELEASED") /\ "RELEASED" \in HoldStatus
    BY <1>5 DEF CancelRequest, ReleaseHold, HoldStatus
  <2> QED
    BY <1>5, <2>1, CancelledRequest, MovedHold
<1> QED
  BY <1>1, <1>2, <1>3, <1>4, <1>5 DEF Handler

\* A handler takes no deduction away; a cancellation it queues names one.
LEMMA ApiCallServer ==
  ASSUME ProcessorTypeOK, TableInv, ServerInv, ApiCall
  PROVE  ServerInv'
<1>1. TypeOK /\ Handler /\ deductions' = deductions /\ answered' = answered
  BY DEF ApiCall, ProcessorTypeOK, server
<1>2. /\ DOMAIN outbox \subseteq DOMAIN outbox'
      /\ \A i \in DOMAIN outbox :
           /\ outbox'[i].request = outbox[i].request
           /\ outbox'[i].action = outbox[i].action
           /\ outbox'[i].reference = outbox[i].reference
           /\ outbox'[i].status = "COMPLETED" <=> outbox[i].status = "COMPLETED"
  BY <1>1, HandlerEntries
<1>3. \A i \in DOMAIN outbox : outbox[i].request \in Request
  BY EntryFacts
<1>4. AnsweredIsDeducted'
  BY <1>1, <1>2, <1>3, HandlerStatus
     DEF ServerInv, AnsweredIsDeducted, ProcessorTypeOK
<1>5. ApprovedIsDeducted'
  <2>1. ASSUME NEW r \in Request, request'[r].status = "APPROVED"
        PROVE  /\ hold'[r] = "CONVERTED"
               /\ \E i \in PostsOf(r)' :
                    outbox'[i].status = "COMPLETED" /\ i \in deductions'
    <3>1. request'[r] = request[r] /\ hold'[r] = hold[r]
      BY <1>1, <2>1, HandlerStatus
    <3>2. /\ hold[r] = "CONVERTED"
          /\ \E i \in PostsOf(r) : outbox[i].status = "COMPLETED" /\ i \in deductions
      BY <2>1, <3>1 DEF ServerInv, ApprovedIsDeducted
    <3> QED
      BY <1>1, <1>2, <3>1, <3>2 DEF PostsOf
  <2> QED
    BY <2>1 DEF ApprovedIsDeducted
<1>6. ASSUME AnswerHasReference
      PROVE  /\ \A r \in Request : request'[r].status = "APPROVED" =>
                  request'[r].reference \in deductions'
             /\ \A i \in DOMAIN outbox' : outbox'[i].action = "CANCEL_TIME_OFF" =>
                  outbox'[i].reference \in deductions' \/ i \in answered'
  <2>1. \A r \in Request : request'[r].status = "APPROVED" =>
          request'[r].reference \in deductions'
    BY <1>1, <1>6, HandlerStatus DEF ServerInv, ReferencesAreDeducted
  <2>2. ASSUME NEW i \in DOMAIN outbox', outbox'[i].action = "CANCEL_TIME_OFF"
        PROVE  outbox'[i].reference \in deductions' \/ i \in answered'
    <3>1. CASE i \in DOMAIN outbox
      BY <1>1, <1>2, <1>6, <2>2, <3>1 DEF ServerInv, ReferencesAreDeducted
    <3>2. CASE i \notin DOMAIN outbox
      <4>1. outbox \in Seq(OutboxRow)
        BY <1>1 DEF TypeOK
      <4>2. ASSUME NEW e, outbox' = Append(outbox, e)
            PROVE  outbox'[i] = e
        BY <2>2, <3>2, <4>1, <4>2
      <4>3. \A r \in Request : outbox' # CancelByRequestId(r) /\ outbox' # outbox
        BY <2>2, <3>2 DEF CancelByRequestId, Marked
      <4>4. ASSUME NEW r \in Request, NEW v, ApproveRequest(r, v)
            PROVE  FALSE
        BY <2>2, <4>2, <4>4 DEF ApproveRequest, OutboxEntry
      <4>5. ASSUME NEW r \in Request, NEW v, CancelRequest(r, v)
            PROVE  outbox'[i].reference \in deductions'
        <5>1. /\ request[r].status = "APPROVED"
              /\ outbox' = Append(outbox,
                   OutboxEntry(r, "CANCEL_TIME_OFF", request[r].reference))
          BY <4>3, <4>5 DEF CancelRequest
        <5>2. outbox'[i].reference = request[r].reference
          BY <4>2, <5>1 DEF OutboxEntry
        <5> QED
          BY <1>1, <1>6, <5>1, <5>2 DEF ServerInv, ReferencesAreDeducted
      <4> QED
        BY <1>1, <4>3, <4>4, <4>5 DEF Handler, CreateRequest, RejectRequest
    <3> QED
      BY <3>1, <3>2
  <2> QED
    BY <2>1, <2>2
<1> QED
  BY <1>4, <1>5, <1>6 DEF ServerInv, ReferencesAreDeducted

\* The sweep approves a request only on an answered post: it is deducted.
LEMMA SweepServer ==
  ASSUME ProcessorTypeOK, TableInv, SweepInv, ServerInv, WaitingHasHold, Sweep
  PROVE  ServerInv'
<1>1. deductions' = deductions /\ answered' = answered
  BY DEF Sweep, ClaimPendingEntries, SkipEntry, SendEntry, ConfirmPost, DropPost,
         ConfirmCancel, RetryEntry, GiveUpEntry, NextEntry, server
<1>2. SameEntries /\ \A r \in Request : PostsOf(r)' = PostsOf(r)
  BY SweepEntries DEF SameEntries, PostsOf
<1>3. \A i \in DOMAIN outbox : outbox[i].request \in Request
  BY EntryFacts
<1>4. CASE UNCHANGED <<request, hold>>
  <2>1. AnsweredIsDeducted'
    BY <1>1, <1>2, <1>4
       DEF ServerInv, AnsweredIsDeducted, SameEntries, ProcessorTypeOK
  <2>2. ApprovedIsDeducted'
    BY <1>1, <1>2, <1>4 DEF ServerInv, ApprovedIsDeducted, SameEntries, PostsOf
  <2>3. ReferencesAreDeducted'
    BY <1>1, <1>2, <1>4 DEF ServerInv, ReferencesAreDeducted, SameEntries
  <2> QED
    BY <2>1, <2>2, <2>3 DEF ServerInv
<1>5. CASE ConfirmPost
  <2> DEFINE i == Current
             r == outbox[i].request
  <2>1. i \in PostsOf(r) /\ i \in DOMAIN outbox /\ Settles(i, "APPROVED")
    BY <1>5, ConfirmPostSettles
  <2>2. r \in Request /\ outbox[i].action = "POST_TIME_OFF"
    BY <1>3, <2>1 DEF PostsOf
  <2>3. i \in deductions
    <3>1. i \in answered
      BY <1>5 DEF ConfirmPost, SweepInv
    <3>2. request[r].status # "CANCELLED"
      BY <2>1 DEF Settles
    <3> QED
      BY <2>2, <3>1, <3>2 DEF ServerInv, AnsweredIsDeducted
  <2>4. outbox'[i].status = "COMPLETED"
    <3>1. outbox \in Seq(OutboxRow) /\ "COMPLETED" \in OutboxStatus
      BY DEF ProcessorTypeOK, TypeOK, OutboxStatus
    <3> QED
      BY <1>5, <2>1, <3>1, MarkedOutbox DEF ConfirmPost
  <2>5. hold'[r] = "CONVERTED"
    <3>1. hold[r] = "ACTIVE"
      BY <2>1, <2>2 DEF Settles, WaitingHasHold
    <3> QED
      BY <2>1, <3>1 DEF Settles
  <2>6. /\ request[r].status = "APPROVED_PENDING_HCM"
        /\ AnswerHasReference => request'[r].reference = i
        /\ \A q \in Request : q # r => request'[q] = request[q] /\ hold'[q] = hold[q]
    BY <2>1 DEF Settles
  <2> HIDE DEF i, r
  <2>7. AnsweredIsDeducted'
    BY <1>1, <1>2, <1>3, <2>6
       DEF ServerInv, AnsweredIsDeducted, SameEntries, ProcessorTypeOK
  <2>8. ApprovedIsDeducted'
    BY <1>1, <1>2, <2>1, <2>2, <2>3, <2>4, <2>5, <2>6
       DEF ServerInv, ApprovedIsDeducted, SameEntries, PostsOf
  <2>9. ReferencesAreDeducted'
    BY <1>1, <1>2, <2>2, <2>3, <2>6
       DEF ServerInv, ReferencesAreDeducted, SameEntries
  <2> QED
    BY <2>7, <2>8, <2>9 DEF ServerInv
<1>6. CASE GiveUpEntry /\ Settles(Current, "FAILED_HCM")
  <2> DEFINE r == outbox[Current].request
  <2>1. /\ request[r].status = "APPROVED_PENDING_HCM"
        /\ request'[r].status = "FAILED_HCM"
        /\ \A q \in Request : q # r => request'[q] = request[q] /\ hold'[q] = hold[q]
    BY <1>6 DEF Settles
  <2> HIDE DEF r
  <2>2. AnsweredIsDeducted'
    BY <1>1, <1>2, <1>3, <2>1
       DEF ServerInv, AnsweredIsDeducted, SameEntries, ProcessorTypeOK
  <2>3. ApprovedIsDeducted'
    BY <1>1, <1>2, <2>1 DEF ServerInv, ApprovedIsDeducted, SameEntries, PostsOf
  <2>4. ReferencesAreDeducted'
    BY <1>1, <1>2, <2>1 DEF ServerInv, ReferencesAreDeducted, SameEntries
  <2> QED
    BY <2>2, <2>3, <2>4 DEF ServerInv
<1> QED
  BY <1>4, <1>5, <1>6, GiveUpSettles
     DEF Sweep, ClaimPendingEntries, SkipEntry, SendEntry, DropPost,
         ConfirmCancel, RetryEntry, tables

\* A call the HCM handles: only the cancellation of a CANCELLED request takes a
\* deduction away, and that is the post of the same request.
LEMMA HandledServer ==
  ASSUME ProcessorTypeOK, TableInv, ServerInv, UNCHANGED tables,
         NEW i \in DOMAIN outbox, NEW outcome \in Outcome, HcmHandles(i, outcome)
  PROVE  ServerInv'
<1>1. UNCHANGED <<request, hold, outbox>> /\ \A r \in Request : PostsOf(r)' = PostsOf(r)
  BY DEF tables, PostsOf
<1>2. answered \subseteq answered' /\ answered' \subseteq answered \union {i}
  BY ServerStep
<1>3. answered \subseteq DOMAIN outbox /\ deductions \subseteq DOMAIN outbox
  BY DEF ProcessorTypeOK
<1>4. CASE deductions' = deductions /\ answered' = answered
  BY <1>1, <1>4 DEF ServerInv, AnsweredIsDeducted, ApprovedIsDeducted,
                    ReferencesAreDeducted
<1>5. CASE deductions' = deductions \union {i}
  BY <1>1, <1>2, <1>5 DEF ServerInv, AnsweredIsDeducted, ApprovedIsDeducted,
                          ReferencesAreDeducted
<1>6. CASE /\ outbox[i].action = "CANCEL_TIME_OFF"
           /\ i \in answered'
           /\ outbox[i].reference \in deductions
           /\ deductions' = deductions \ {outbox[i].reference}
  <2> DEFINE d == outbox[i].reference
             r == outbox[i].request
  <2>1. d # NULL
    <3>1. DOMAIN outbox \subseteq Nat
      <4>1. outbox \in Seq(OutboxRow)
        BY DEF ProcessorTypeOK, TypeOK
      <4> QED
        BY <4>1
    <3> QED
      BY <1>3, <1>6, <3>1, NullAssumption
  <2>2. d \in PostsOf(r) /\ request[r].status = "CANCELLED"
    BY <1>6, <2>1 DEF TableInv, CancelsNamePosts
  <2>3. d \in DOMAIN outbox /\ outbox[d].request = r /\ deductions' = deductions \ {d}
    BY <1>6, <2>2 DEF PostsOf
  <2>4. AnsweredIsDeducted'
    BY <1>1, <1>2, <1>6, <2>2, <2>3 DEF ServerInv, AnsweredIsDeducted
  <2>5. ApprovedIsDeducted'
    BY <1>1, <2>2, <2>3 DEF ServerInv, ApprovedIsDeducted, PostsOf
  <2>6. ASSUME AnswerHasReference, NEW q \in Request, request[q].status = "APPROVED"
        PROVE  request[q].reference \in deductions'
    <3>1. request[q].reference \in deductions
      BY <2>6 DEF ServerInv, ReferencesAreDeducted
    <3>2. Exists(q)
      BY <2>6 DEF Exists, NoRequest
    <3>3. request[q].reference = d => d \in PostsOf(q)
      BY <2>1, <3>2 DEF TableInv, ReferencesArePosts
    <3>4. request[q].reference # d
      BY <2>2, <2>3, <2>6, <3>3 DEF PostsOf
    <3> QED
      BY <2>3, <3>1, <3>4
  <2>7. ASSUME AnswerHasReference, NEW j \in DOMAIN outbox,
               outbox[j].action = "CANCEL_TIME_OFF"
        PROVE  outbox[j].reference \in deductions' \/ j \in answered'
    <3>1. outbox[j].reference \in deductions \/ j \in answered
      BY <2>7 DEF ServerInv, ReferencesAreDeducted
    <3>2. outbox[j].reference = d => j = i
      <4>1. outbox[j].reference = d => d \in PostsOf(outbox[j].request)
        BY <2>1, <2>7 DEF TableInv, CancelsNamePosts
      <4>2. outbox[j].reference = d => outbox[j].request = r
        BY <2>3, <4>1 DEF PostsOf
      <4> QED
        BY <1>6, <2>7, <4>2 DEF TableInv, OneCancel
    <3> QED
      BY <1>2, <1>6, <2>3, <3>1, <3>2
  <2>8. ReferencesAreDeducted'
    BY <1>1, <2>6, <2>7 DEF ReferencesAreDeducted
  <2> QED
    BY <2>4, <2>5, <2>8 DEF ServerInv
<1> QED
  BY <1>4, <1>5, <1>6, ServerStep

\* ServerInv, for steps that leave tables and HCM alone, and the network.
LEMMA UnchangedServer ==
  ASSUME ServerInv, UNCHANGED <<tables, server>>
  PROVE  ServerInv'
BY DEF ServerInv, AnsweredIsDeducted, ApprovedIsDeducted, ReferencesAreDeducted,
       PostsOf, tables, server

LEMMA NetworkServer ==
  ASSUME ProcessorTypeOK, TableInv, SweepInv, ServerInv, Network
  PROVE  ServerInv'
<1>1. UNCHANGED tables
  BY DEF Network, CallAnswered, CallDisconnected, LateCall
<1>2. CASE CallAnswered
  <2>1. Current \in DOMAIN outbox
    BY <1>2, CallHasEntry DEF CallAnswered
  <2> QED
    BY <1>1, <1>2, <2>1, HandledServer DEF CallAnswered
<1>3. CASE CallDisconnected
  BY <1>1, <1>3, UnchangedServer DEF CallDisconnected
<1>4. ASSUME NEW i \in late, LateCall(i)
      PROVE  ServerInv'
  <2>1. i \in DOMAIN outbox
    BY DEF ProcessorTypeOK
  <2> QED
    BY <1>1, <1>4, <2>1, HandledServer DEF LateCall
<1> QED
  BY <1>2, <1>3, <1>4 DEF Network

-----------------------------------------------------------------------------
(***************************************************************************)
(* The theorems.                                                           *)
(***************************************************************************)

\* ProcessorInv is an inductive invariant.
LEMMA ProcessorInitInv == ProcessorInit => ProcessorInv
<1> SUFFICES ASSUME ProcessorInit
             PROVE  ProcessorInv
  OBVIOUS
<1>1. /\ Init /\ claimed = {} /\ call = "none" /\ late = {} /\ deductions = {}
      /\ answered = {} /\ crashes = 0 /\ outbox = << >>
      /\ request = [r \in Request |-> NoRequest]
      /\ hold = [r \in Request |-> "NONE"]
  BY DEF ProcessorInit, Init
<1>2. hcm \in [Account -> HcmAccount]
  <2>1. \A t \in Allowance : [total |-> t, used |-> 0, version |-> 0] \in HcmAccount
    BY AllowanceAssumption DEF HcmAccount
  <2> QED
    BY <2>1 DEF ProcessorInit
<1>3. ProcessorTypeOK
  BY <1>1, <1>2, InitType, MaxCrashesAssumption DEF ProcessorTypeOK
<1>4. NoRequest.status = "NONE" /\ DOMAIN outbox = {}
  BY <1>1 DEF NoRequest
<1>5. TableInv /\ HoldFollowsRequest
  BY <1>1, <1>4
     DEF TableInv, HoldFollowsRequest, IsHoldActiveStatus, NoOverlap, OccupiesDates,
         PostInv, WaitingRequestHasItsPost, NoEarlyPost, PostsOf, Exists,
         AccountsAreSynced, ReferencesArePosts, CancelsNamePosts, OneCancel
<1>6. SweepInv
  BY <1>1 DEF SweepInv
<1>7. ServerInv
  BY <1>1, <1>4 DEF ServerInv, AnsweredIsDeducted, ApprovedIsDeducted,
                    ReferencesAreDeducted
<1> QED
  BY <1>3, <1>5, <1>6, <1>7 DEF ProcessorInv, ExchangeInv

\* Exchange steps keep ExchangeInv, whoever else writes the tables.
LEMMA ExchangeNextInv ==
  ASSUME ExchangeInv, WaitingHasHold, [ProcessorNext]_vars
  PROVE  ExchangeInv'
<1> USE DEF ExchangeInv
<1>1. CASE ApiCall
  BY <1>1, ApiCallType, ApiCallTables, ApiCallSweep, ApiCallServer
<1>2. CASE Sweep
  BY <1>2, SweepType, SweepTables, SweepSweep, SweepServer
<1>3. CASE Network
  <2>1. UNCHANGED tables
    BY <1>3 DEF Network, CallAnswered, CallDisconnected, LateCall
  <2> QED
    BY <1>3, <2>1, NetworkType, UnchangedTables, NetworkSweep, NetworkServer
<1>4. CASE Crash
  <2>1. UNCHANGED <<tables, server>>
    BY <1>4 DEF Crash
  <2> QED
    BY <1>4, <2>1, CrashType, UnchangedTables, CrashSweep, UnchangedServer
<1>5. CASE UNCHANGED vars
  <2>1. UNCHANGED <<tables, server>>
    BY <1>5 DEF vars
  <2>2. ProcessorTypeOK' /\ SweepInv'
    BY <1>5 DEF vars, tables, processor, server, ProcessorTypeOK, TypeOK,
                SweepInv, Current
  <2> QED
    BY <2>1, <2>2, UnchangedTables, UnchangedServer
<1> QED
  BY <1>1, <1>2, <1>3, <1>4, <1>5 DEF ProcessorNext

LEMMA ProcessorNextInv == ProcessorInv /\ [ProcessorNext]_vars => ProcessorInv'
<1> SUFFICES ASSUME ExchangeInv, HoldFollowsRequest, [ProcessorNext]_vars
             PROVE  ProcessorInv'
  BY DEF ProcessorInv
<1>1. WaitingHasHold
  BY DEF HoldFollowsRequest, WaitingHasHold, IsHoldActiveStatus
<1>2. ExchangeInv'
  BY <1>1, ExchangeNextInv
<1>3. HoldFollowsRequest'
  <2>1. CASE ApiCall
    BY <2>1, HandlerHold DEF ApiCall, ExchangeInv, ProcessorTypeOK
  <2>2. CASE Sweep
    BY <2>2, SweepHolds DEF ExchangeInv, HoldFollowsRequest, IsHoldActiveStatus
  <2>3. CASE UNCHANGED <<request, hold>>
    BY <2>3 DEF HoldFollowsRequest
  <2> QED
    BY <2>1, <2>2, <2>3 DEF ProcessorNext, Network, CallAnswered, CallDisconnected,
       LateCall, Crash, tables, vars
<1> QED
  BY <1>2, <1>3 DEF ProcessorInv

LEMMA ProcessorInvariant == ProcessorSpec => []ProcessorInv
BY ProcessorInitInv, ProcessorNextInv, PTL DEF ProcessorSpec

\* The tables, the sweep's memory and the HCM hold well-formed values.
THEOREM ProcessorTypeCorrect == ProcessorSpec => []ProcessorTypeOK
<1>1. ProcessorInv => ProcessorTypeOK
  BY DEF ProcessorInv, ExchangeInv
<1> QED
  BY <1>1, ProcessorInvariant, PTL

\* Neither the sweep nor a crash releases a hold early or forgets one.
THEOREM ProcessorHolds == ProcessorSpec => []HoldFollowsRequest
<1>1. ProcessorInv => HoldFollowsRequest
  BY DEF ProcessorInv
<1> QED
  BY <1>1, ProcessorInvariant, PTL

\* No confirmation or failure makes two requests of an account share a day.
THEOREM ProcessorDates == ProcessorSpec => []NoOverlap
<1>1. ProcessorInv => NoOverlap
  BY DEF ProcessorInv, ExchangeInv, TableInv
<1> QED
  BY <1>1, ProcessorInvariant, PTL

\* A waiting request has one post, still PENDING or PROCESSING: the sweep never
\* gives up an entry without settling its request.
THEOREM ProcessorPosts == ProcessorSpec => []WaitingRequestHasItsPost
<1>1. ProcessorInv => WaitingRequestHasItsPost
  BY DEF ProcessorInv, ExchangeInv, TableInv, PostInv
<1> QED
  BY <1>1, ProcessorInvariant, PTL

\* An APPROVED request is deducted at the HCM, through every fault and crash.
THEOREM ProcessorDeductions == ProcessorSpec => []ApprovedIsDeducted
<1>1. ProcessorInv => ApprovedIsDeducted
  BY DEF ProcessorInv, ExchangeInv, ServerInv
<1> QED
  BY <1>1, ProcessorInvariant, PTL

\* If answers carry the reference, a queued cancellation has its deduction to
\* reverse until the HCM has answered it.
THEOREM ProcessorCancellations ==
  ASSUME AnswerHasReference
  PROVE  ProcessorSpec => []CancellationsFindTheirDeduction
<1>1. ProcessorInv => CancellationsFindTheirDeduction
  BY DEF ProcessorInv, ExchangeInv, ServerInv, ReferencesAreDeducted,
         CancellationsFindTheirDeduction
<1> QED
  BY <1>1, ProcessorInvariant, PTL

\* One step of one request, as LegalTransitions wants it.
LegalStep(r) ==
  \/ request'[r].status = request[r].status
  \/ ~ Exists(r) /\ request'[r].status = "PENDING_APPROVAL"
  \/ Exists(r) /\ IsValidTransition(request[r].status, request'[r].status)

\* Handlers ask for a legal transition, and settling a request is one.
LEMMA HandlerLegal ==
  ASSUME TypeOK, Handler, NEW r \in Request
  PROVE  LegalStep(r)
<1>1. ASSUME NEW q \in Request, NEW a \in Account, NEW start \in Day,
             NEW end \in Day, NEW h \in Hours,
             CreateRequest(q, a, start, end, h)
      PROVE  LegalStep(r)
  BY <1>1, CreatedRequest DEF LegalStep, Exists
<1>2. ASSUME NEW q \in Request, NEW v, ApproveRequest(q, v)
      PROVE  LegalStep(r)
  BY <1>2, ApprovedRequest DEF LegalStep, ApproveRequest
<1>3. ASSUME NEW q \in Request, NEW v, RejectRequest(q, v)
      PROVE  LegalStep(r)
  BY <1>3, RejectedRequest DEF LegalStep, RejectRequest
<1>4. ASSUME NEW q \in Request, NEW v, CancelRequest(q, v)
      PROVE  LegalStep(r)
  BY <1>4, CancelledRequest DEF LegalStep, CancelRequest
<1> QED
  BY <1>1, <1>2, <1>3, <1>4 DEF Handler

LEMMA SettlesLegal ==
  ASSUME ProcessorTypeOK, TableInv, NEW i \in DOMAIN outbox,
         NEW s \in {"APPROVED", "FAILED_HCM"}, Settles(i, s), NEW r \in Request
  PROVE  LegalStep(r)
<1>1. CASE r = outbox[i].request
  <2>1. /\ Exists(r)
        /\ request[r].status = "APPROVED_PENDING_HCM"
        /\ request'[r].status = s
    BY <1>1, EntryFacts DEF Settles
  <2>2. IsValidTransition("APPROVED_PENDING_HCM", s)
    BY DEF IsValidTransition, ValidTransitions
  <2> QED
    BY <2>1, <2>2 DEF LegalStep
<1>2. CASE r # outbox[i].request
  BY <1>2 DEF Settles, LegalStep
<1> QED
  BY <1>1, <1>2

\* The sweep, which never asks assertValidTransition, obeys the table all the same.
THEOREM ProcessorTransitions == ProcessorSpec => LegalTransitions
<1>1. ProcessorInv /\ [ProcessorNext]_vars =>
        [\A r \in Request : LegalStep(r)]_vars
  <2> SUFFICES ASSUME ProcessorTypeOK, TableInv, SweepInv, ProcessorNext,
                      NEW r \in Request
               PROVE  LegalStep(r)
    BY DEF ProcessorInv, ExchangeInv
  <2>1. CASE ApiCall
    BY <2>1, HandlerLegal DEF ApiCall, ProcessorTypeOK
  <2>2. CASE ConfirmPost
    BY <2>2, ConfirmPostSettles, SettlesLegal
  <2>3. CASE GiveUpEntry /\ Settles(Current, "FAILED_HCM")
    BY <2>3, GiveUpSettles, SettlesLegal
  <2>4. CASE UNCHANGED request
    BY <2>4 DEF LegalStep
  <2> QED
    BY <2>1, <2>2, <2>3, <2>4, GiveUpSettles
       DEF ProcessorNext, Sweep, ClaimPendingEntries, SkipEntry, SendEntry, DropPost,
           ConfirmCancel, RetryEntry, Network, CallAnswered, CallDisconnected,
           LateCall, Crash, tables
<1> QED
  BY <1>1, ProcessorInvariant, PTL DEF ProcessorSpec, LegalTransitions, LegalStep

-----------------------------------------------------------------------------
(***************************************************************************)
(* The mark PROCESSING.                                                    *)
(***************************************************************************)

\* No handler marks an entry PROCESSING.
LEMMA HandlerMarksNone ==
  ASSUME TypeOK, Handler,
         NEW i \in DOMAIN outbox', outbox'[i].status = "PROCESSING"
  PROVE  i \in DOMAIN outbox /\ outbox[i].status = "PROCESSING"
<1>1. outbox \in Seq(OutboxRow)
  BY DEF TypeOK
<1>2. ASSUME NEW r \in Request, NEW a \in OutboxAction, NEW ref \in Nat \union {NULL},
             outbox' = Append(outbox, OutboxEntry(r, a, ref))
      PROVE  i \in DOMAIN outbox /\ outbox[i].status = "PROCESSING"
  <2> DEFINE e == OutboxEntry(r, a, ref)
  <2>1. e \in OutboxRow /\ e.status = "PENDING"
    BY NewEntryType DEF OutboxEntry
  <2> HIDE DEF e
  <2> QED
    BY <1>1, <1>2, <2>1, AppendedOutbox DEF e
<1>3. ASSUME NEW r \in Request, outbox' = CancelByRequestId(r)
      PROVE  i \in DOMAIN outbox /\ outbox[i].status = "PROCESSING"
  <2>1. "FAILED" \in OutboxStatus
    BY DEF OutboxStatus
  <2> QED
    BY <1>1, <1>3, <2>1, MarkedOutbox DEF CancelByRequestId
<1>4. ASSUME NEW r \in Request, NEW v, ApproveRequest(r, v)
      PROVE  i \in DOMAIN outbox /\ outbox[i].status = "PROCESSING"
  BY <1>2, <1>4 DEF ApproveRequest, OutboxAction
<1>5. ASSUME NEW r \in Request, NEW v, CancelRequest(r, v)
      PROVE  i \in DOMAIN outbox /\ outbox[i].status = "PROCESSING"
  <2>1. request[r].reference \in Nat \union {NULL}
    BY <1>5, CancelledRequest DEF TypeOK, Exists, RequestRow
  <2> QED
    BY <1>2, <1>3, <1>5, <2>1 DEF CancelRequest, OutboxAction
<1> QED
  BY <1>4, <1>5 DEF Handler, CreateRequest, RejectRequest

\* Every way the sweep has of letting go of an entry takes the mark off it.
LEMMA SweepMarks ==
  ASSUME ProcessorTypeOK, ProcessingIsClaimed, Sweep
  PROVE  ProcessingIsClaimed'
<1> USE DEF ProcessingIsClaimed
<1>1. outbox \in Seq(OutboxRow)
  BY DEF ProcessorTypeOK, TypeOK
<1>2. ASSUME NEW E, NEW s \in OutboxStatus, outbox' = Marked(E, s)
      PROVE  /\ DOMAIN outbox' = DOMAIN outbox
             /\ \A i \in DOMAIN outbox :
                  outbox'[i].status = IF i \in E THEN s ELSE outbox[i].status
  BY <1>1, <1>2, MarkedOutbox
<1>3. {"PROCESSING", "FAILED", "COMPLETED"} \subseteq OutboxStatus
  BY DEF OutboxStatus
<1>4. CASE ClaimPendingEntries
  BY <1>2, <1>3, <1>4 DEF ClaimPendingEntries
<1>5. CASE SendEntry
  BY <1>5 DEF SendEntry, tables
<1>6. ASSUME NEW s \in {"FAILED", "COMPLETED"}, outbox' = Marked({Current}, s),
             claimed' = claimed \ {Current}
      PROVE  ProcessingIsClaimed'
  <2>1. s \in OutboxStatus /\ s # "PROCESSING"
    BY <1>3
  <2>2. /\ DOMAIN outbox' = DOMAIN outbox
        /\ \A i \in DOMAIN outbox :
             outbox'[i].status = IF i \in {Current} THEN s ELSE outbox[i].status
    BY <1>2, <1>6, <2>1
  <2> QED
    BY <1>6, <2>1, <2>2
<1>7. CASE RetryEntry
  <2> DEFINE k == Current
  <2>1. /\ outbox' = [outbox EXCEPT ![k].status = "PENDING", ![k].retryCount = @ + 1]
        /\ claimed' = claimed \ {k}
    BY <1>7 DEF RetryEntry, NextEntry
  <2> HIDE DEF k
  <2>2. DOMAIN outbox' = DOMAIN outbox
    BY <2>1
  <2>3. /\ k \in DOMAIN outbox => outbox'[k].status = "PENDING"
        /\ \A i \in DOMAIN outbox : i # k => outbox'[i] = outbox[i]
    <3>1. ASSUME k \in DOMAIN outbox
          PROVE  outbox'[k].status = "PENDING"
      <4>1. outbox[k] \in OutboxRow
        BY <1>1, <3>1
      <4> QED
        BY <2>1, <3>1, <4>1 DEF OutboxRow
    <3> QED
      BY <2>1, <3>1
  <2> QED
    BY <2>1, <2>2, <2>3
<1> QED
  BY <1>4, <1>5, <1>6, <1>7
     DEF Sweep, SkipEntry, ConfirmPost, DropPost, ConfirmCancel, GiveUpEntry, NextEntry

\* Until the process dies for the first time, no entry is stranded in PROCESSING.
THEOREM ProcessorStrandsNothing ==
  ProcessorSpec => [](crashes = 0 => ProcessingIsClaimed)
<1> DEFINE NoneStranded == crashes = 0 => ProcessingIsClaimed
<1>1. ProcessorInit => NoneStranded
  BY DEF ProcessorInit, Init, ProcessingIsClaimed
<1>2. ProcessorInv /\ NoneStranded /\ [ProcessorNext]_vars => NoneStranded'
  <2> SUFFICES ASSUME ProcessorTypeOK, NoneStranded, [ProcessorNext]_vars, crashes' = 0
               PROVE  ProcessingIsClaimed'
    BY DEF ProcessorInv, ExchangeInv
  <2>1. CASE ApiCall
    BY <2>1, HandlerMarksNone
       DEF ApiCall, ProcessorTypeOK, ProcessingIsClaimed, processor
  <2>2. CASE Sweep
    <3>1. crashes' = crashes
      BY <2>2 DEF Sweep, ClaimPendingEntries, SkipEntry, SendEntry, ConfirmPost,
                  DropPost, ConfirmCancel, RetryEntry, GiveUpEntry, NextEntry
    <3> QED
      BY <2>2, <3>1, SweepMarks
  <2>3. CASE Network \/ UNCHANGED vars
    BY <2>3 DEF Network, CallAnswered, CallDisconnected, LateCall, tables, processor,
                vars, ProcessingIsClaimed
  <2>4. CASE Crash
    BY <2>4 DEF Crash, ProcessorTypeOK
  <2> QED
    BY <2>1, <2>2, <2>3, <2>4 DEF ProcessorNext
<1> QED
  BY <1>1, <1>2, ProcessorInvariant, PTL DEF ProcessorSpec
=============================================================================
