------------------------ MODULE IdempotentApi_proofs ------------------------
(***************************************************************************)
(* Proofs about repeated calls, for any number of clients, keys, requests  *)
(* and crashes, with keys that are shared and keys that expire.            *)
(*                                                                         *)
(* Two arguments carry them.  A call on a request names a version, and its *)
(* effect raises the version for good.  And a call that took effect either *)
(* left a row under its key, which is never deleted, or was cut off.       *)
(***************************************************************************)
EXTENDS IdempotentApi, RequestLifecycle_proofs

\* A client that has had an effect has a call, and a call is what its endpoint
\* takes: a creation names an account, the others an existing request.
CallsAreWellFormed ==
  \A c \in Client :
    /\ call[c] = NoCall => effects[c] = 0 /\ answer[c] = "none"
    /\ call[c] # NoCall =>
         IF call[c].endpoint = "create"
         THEN call[c].target \in Account /\ call[c].body \in CreateBody
         ELSE /\ call[c].target \in Request /\ call[c].body \in VersionBody
              /\ Exists(call[c].target)

\* The request has moved on from the version a call named, once the call took
\* effect.
EffectRaisesVersion ==
  \A c \in Client :
    call[c] # NoCall /\ call[c].endpoint # "create" /\ effects[c] > 0 =>
      request[call[c].target].version > call[c].body.version

\* A stored answer is the answer to a call that took effect.
RowsHaveEffects ==
  \A k \in Key : keys[k] # NoRow =>
    \E d \in Client :
      /\ call[d] # NoCall /\ effects[d] > 0
      /\ call[d].key = k /\ call[d].body = keys[k].hash

RowAnswersFor(c) ==
  LET row == keys[call[c].key]
  IN  /\ effects[c] > 0 =>
           /\ row # NoRow
           /\ row.expired \/ (effects[c] = 1 /\ row.hash = call[c].body)
      /\ answer[c] = "refused" =>
           effects[c] = 0 \/ (row # NoRow /\ row.expired)

\* An effect that was not cut off left a row, of its own body or one that has
\* expired; and is answered with an error only if it happened before an expiry.
EffectsHaveRows ==
  \A c \in Client : call[c] # NoCall /\ c \notin cutOff => RowAnswersFor(c)

ApiInv ==
  /\ ApiTypeOK
  /\ CallsAreWellFormed
  /\ EffectRaisesVersion
  /\ TransitionsHappenOnce
  /\ RowsHaveEffects
  /\ EffectsHaveRows
  /\ AcceptedHappened

\* Rows are told from their absence by their hash.
LEMMA RowFacts ==
  ASSUME ApiTypeOK, NEW k \in Key, keys[k] # NoRow
  PROVE  keys[k] \in KeyRow
BY DEF ApiTypeOK

LEMMA CallFacts ==
  ASSUME ApiTypeOK, NEW c \in Client, call[c] # NoCall
  PROVE  call[c] \in CallRow /\ call[c].key \in Key
BY DEF ApiTypeOK, CallRow

-----------------------------------------------------------------------------
(***************************************************************************)
(* What a handler does to the versions of requests.                        *)
(***************************************************************************)

\* Requests stay and their versions grow.
VersionsGrow ==
  \A r \in Request : Exists(r) =>
    Exists(r)' /\ request'[r].version >= request[r].version

LEMMA UpdatedVersion ==
  ASSUME TypeOK, NEW r \in Request, Exists(r),
         NEW s \in RequestStatus, NEW v,
         UpdateStatus(r, s, v, request[r].reference)
  PROVE  VersionsGrow /\ request[r].version = v /\ request'[r].version > v
<1>1. request[r] \in RequestRow
  BY DEF TypeOK, Exists
<1>2. request[r].version \in Nat /\ request[r].reference \in Nat \union {NULL}
  BY <1>1 DEF RequestRow
<1>3. request[r].version = v /\ request'[r].version = request[r].version + 1
  BY <1>1 DEF UpdateStatus, TypeOK
<1>4. request'[r] # NoRequest /\ \A q \in Request : q # r => request'[q] = request[q]
  BY <1>2, UpdatedRequest
<1>5. \A q \in Request : Exists(q) => request[q].version \in Nat
  BY DEF TypeOK, Exists, RequestRow
<1> QED
  BY <1>2, <1>3, <1>4, <1>5 DEF VersionsGrow, Exists

LEMMA EffectVersions ==
  ASSUME ApiInv, NEW c \in Client, call[c] # NoCall, Effect(c)
  PROVE  /\ TypeOK'
         /\ VersionsGrow
         /\ call[c].endpoint # "create" =>
              /\ request[call[c].target].version = call[c].body.version
              /\ request'[call[c].target].version > call[c].body.version
<1> DEFINE to == call[c].target
           body == call[c].body
<1>1. TypeOK
  BY DEF ApiInv, ApiTypeOK
<1>2. CASE call[c].endpoint = "create"
  <2>1. to \in Account /\ body \in CreateBody
    BY <1>2 DEF ApiInv, CallsAreWellFormed
  <2>2. PICK r \in Request : CreateRequest(r, to, body.start, body.end, body.hours)
    BY <1>2 DEF Effect
  <2>3. body.start \in Day /\ body.end \in Day /\ body.hours \in Hours
    BY <2>1 DEF CreateBody
  <2> HIDE DEF to, body
  <2>4. TypeOK'
    BY <1>1, <2>1, <2>2, <2>3, CreateRequestType
  <2>5. /\ request[r] = NoRequest
        /\ \A q \in Request : q # r => request'[q] = request[q]
    BY <1>1, <2>1, <2>2, <2>3, CreatedRequest
  <2>6. \A q \in Request : Exists(q) => request[q].version \in Nat
    BY <1>1 DEF TypeOK, Exists, RequestRow
  <2>7. VersionsGrow
    BY <2>5, <2>6 DEF VersionsGrow, Exists
  <2> QED
    BY <1>2, <2>4, <2>7
<1>3. CASE call[c].endpoint # "create"
  <2>1. to \in Request /\ Exists(to)
    BY <1>3 DEF ApiInv, CallsAreWellFormed
  <2>2. \/ ApproveRequest(to, body.version)
        \/ RejectRequest(to, body.version)
        \/ CancelRequest(to, body.version)
    BY <1>3 DEF Effect
  <2> HIDE DEF to, body
  <2>3. TypeOK'
    BY <1>1, <2>1, <2>2, ApproveRequestType, RejectRequestType, CancelRequestType
  <2>4. \E s \in RequestStatus :
          UpdateStatus(to, s, body.version, request[to].reference)
    BY <2>2 DEF ApproveRequest, RejectRequest, CancelRequest, RequestStatus
  <2>5. /\ VersionsGrow /\ request[to].version = body.version
        /\ request'[to].version > body.version
    BY <1>1, <2>1, <2>4, UpdatedVersion
  <2> QED
    BY <2>3, <2>5 DEF to, body
<1> QED
  BY <1>2, <1>3

-----------------------------------------------------------------------------
(***************************************************************************)
(* The steps.                                                              *)
(***************************************************************************)

LEMMA InitApi == ApiInit => ApiInv
<1> SUFFICES ASSUME ApiInit PROVE ApiInv
  OBVIOUS
<1> USE DEF ApiInit
<1>1. ApiTypeOK
  BY InitType DEF ApiTypeOK
<1>2. \A c \in Client : call[c] = NoCall /\ answer[c] = "none" /\ effects[c] = 0
  OBVIOUS
<1>3. \A k \in Key : keys[k] = NoRow
  OBVIOUS
<1> QED
  BY <1>1, <1>2, <1>3
     DEF ApiInv, CallsAreWellFormed, EffectRaisesVersion, TransitionsHappenOnce,
         RowsHaveEffects, EffectsHaveRows, AcceptedHappened

FitsEndpoint(row) ==
  /\ row # NoCall
  /\ IF row.endpoint = "create"
     THEN row.target \in Account /\ row.body \in CreateBody
     ELSE /\ row.target \in Request /\ row.body \in VersionBody
          /\ Exists(row.target)

\* A new call fits its endpoint.
LEMMA DecidedCall ==
  ASSUME ApiInv, NEW c \in Client, DecideCall(c)
  PROVE  \E row \in CallRow : FitsEndpoint(row) /\ call' = [call EXCEPT ![c] = row]
<1>1. PICK k \in Key :
        \/ \E a \in Account, body \in CreateBody :
             call' = [call EXCEPT ![c] = Call("create", a, k, body)]
        \/ \E r \in Request, e \in Endpoint \ {"create"} :
             /\ Exists(r)
             /\ call' = [call EXCEPT ![c] =
                  Call(e, r, k, [ version   |-> request[r].version,
                                  hasReason |-> e = "reject" ])]
  BY DEF DecideCall
<1>2. CASE \E a \in Account, body \in CreateBody :
             call' = [call EXCEPT ![c] = Call("create", a, k, body)]
  <2>1. PICK a \in Account, body \in CreateBody :
          call' = [call EXCEPT ![c] = Call("create", a, k, body)]
    BY <1>2
  <2> DEFINE row == Call("create", a, k, body)
  <2>2. /\ row \in CallRow /\ row.endpoint = "create"
        /\ row.target = a /\ row.body = body
    BY DEF Call, CallRow, Endpoint
  <2>3. row # NoCall
    BY <2>2 DEF NoCall
  <2>4. call' = [call EXCEPT ![c] = row]
    BY <2>1
  <2> HIDE DEF row
  <2> QED
    BY <2>2, <2>3, <2>4 DEF FitsEndpoint
<1>3. CASE \E r \in Request, e \in Endpoint \ {"create"} :
             /\ Exists(r)
             /\ call' = [call EXCEPT ![c] =
                  Call(e, r, k, [ version   |-> request[r].version,
                                  hasReason |-> e = "reject" ])]
  <2>1. PICK r \in Request, e \in Endpoint \ {"create"} :
          /\ Exists(r)
          /\ call' = [call EXCEPT ![c] =
               Call(e, r, k, [ version   |-> request[r].version,
                               hasReason |-> e = "reject" ])]
    BY <1>3
  <2> DEFINE body == [version |-> request[r].version, hasReason |-> e = "reject"]
             row == Call(e, r, k, body)
  <2>2. request[r].version \in Nat \ {0}
    BY <2>1 DEF ApiInv, ApiTypeOK, TypeOK, Exists, RequestRow
  <2>3. body \in VersionBody
    BY <2>2 DEF VersionBody
  <2>4. call' = [call EXCEPT ![c] = row]
    BY <2>1
  <2> HIDE DEF body
  <2>5. /\ row \in CallRow /\ row.endpoint = e
        /\ row.target = r /\ row.body = body
    BY <2>3 DEF Call, CallRow
  <2>6. row # NoCall
    BY <2>5 DEF NoCall, Endpoint
  <2> HIDE DEF row
  <2> QED
    BY <2>1, <2>3, <2>4, <2>5, <2>6 DEF FitsEndpoint
<1> QED
  BY <1>1, <1>2, <1>3

LEMMA DecideCallInv ==
  ASSUME ApiInv, NEW c \in Client, DecideCall(c)
  PROVE  ApiInv'
<1>1. PICK row \in CallRow : FitsEndpoint(row) /\ call' = [call EXCEPT ![c] = row]
  BY DecidedCall
<1>2. /\ UNCHANGED <<tables, answer, keys, effects, cutOff>>
      /\ call[c] = NoCall
  BY DEF DecideCall
<1>3. /\ call \in [Client -> CallRow \union {NoCall}]
      /\ effects[c] = 0 /\ answer[c] = "none"
  BY <1>2 DEF ApiInv, ApiTypeOK, CallsAreWellFormed
<1>4. call'[c] = row /\ \A d \in Client : d # c => call'[d] = call[d]
  BY <1>1, <1>3
<1>5. ApiTypeOK'
  BY <1>1, <1>2, <1>3 DEF ApiInv, ApiTypeOK, TypeOK, tables
<1>6. CallsAreWellFormed'
  BY <1>1, <1>2, <1>3, <1>4 DEF ApiInv, CallsAreWellFormed, FitsEndpoint, Exists, tables
<1>7. EffectRaisesVersion' /\ TransitionsHappenOnce'
  BY <1>2, <1>3, <1>4 DEF ApiInv, EffectRaisesVersion, TransitionsHappenOnce, tables
<1>8. RowsHaveEffects'
  BY <1>2, <1>3, <1>4 DEF ApiInv, RowsHaveEffects
<1>9. EffectsHaveRows'
  BY <1>2, <1>3, <1>4 DEF ApiInv, EffectsHaveRows, RowAnswersFor
<1>10. AcceptedHappened'
  BY <1>2, <1>3, <1>4 DEF ApiInv, AcceptedHappened, HashPayload
<1> QED
  BY <1>5, <1>6, <1>7, <1>8, <1>9, <1>10 DEF ApiInv

\* An answer that comes, of which only its truth is left to be seen.
LEMMA AnsweredInv ==
  ASSUME ApiInv, NEW c \in Client, Waiting(c),
         NEW a \in {"accepted", "refused"}, Answered(c, a),
         UNCHANGED <<tables, call, keys, effects, cutOff>>,
         a = "accepted" => \E d \in Client :
           effects[d] > 0 /\ call[d].key = call[c].key /\ call[d].body = call[c].body,
         a = "refused" /\ c \notin cutOff =>
           \/ effects[c] = 0
           \/ keys[call[c].key] # NoRow /\ keys[call[c].key].expired
  PROVE  ApiInv'
<1>1. \A d \in Client : answer'[d] = answer[d] \/ (d = c /\ answer'[d] = a)
  BY DEF ApiInv, ApiTypeOK, Answered
<1>2. ApiTypeOK'
  BY DEF ApiInv, ApiTypeOK, TypeOK, tables, Answered
<1>3. CallsAreWellFormed'
  BY <1>1 DEF ApiInv, CallsAreWellFormed, Exists, tables, Waiting
<1>4. EffectRaisesVersion' /\ TransitionsHappenOnce' /\ RowsHaveEffects'
  BY DEF ApiInv, EffectRaisesVersion, TransitionsHappenOnce, RowsHaveEffects, tables
<1>5. EffectsHaveRows'
  <2>1. SUFFICES ASSUME NEW d \in Client, call[d] # NoCall, d \notin cutOff
                 PROVE  RowAnswersFor(d)'
    BY DEF EffectsHaveRows
  <2>2. RowAnswersFor(d)
    BY <2>1 DEF ApiInv, EffectsHaveRows
  <2>3. answer'[d] = "refused" => answer[d] = "refused" \/ (d = c /\ a = "refused")
    BY <1>1
  <2>4. answer'[d] = "refused" =>
          \/ effects[d] = 0
          \/ keys[call[d].key] # NoRow /\ keys[call[d].key].expired
    BY <2>1, <2>2, <2>3 DEF RowAnswersFor
  <2> QED
    BY <2>2, <2>4 DEF RowAnswersFor
<1>6. AcceptedHappened'
  BY <1>1 DEF ApiInv, AcceptedHappened, HashPayload
<1> QED
  BY <1>2, <1>3, <1>4, <1>5, <1>6 DEF ApiInv

LEMMA ReplayAnswerInv ==
  ASSUME ApiInv, NEW c \in Client, ReplayAnswer(c)
  PROVE  ApiInv'
<1>1. call[c].key \in Key /\ keys[call[c].key] # NoRow
  BY CallFacts DEF ApiInv, ReplayAnswer, Waiting, Check
<1>2. \E d \in Client :
        effects[d] > 0 /\ call[d].key = call[c].key /\ call[d].body = call[c].body
  BY <1>1 DEF ApiInv, RowsHaveEffects, ReplayAnswer, HashPayload
<1> QED
  BY <1>2, AnsweredInv DEF ReplayAnswer

LEMMA RefuseKeyInv ==
  ASSUME ApiInv, NEW c \in Client, RefuseKey(c)
  PROVE  ApiInv'
<1>1. c \notin cutOff => effects[c] = 0
  BY DEF ApiInv, ApiTypeOK, EffectsHaveRows, RowAnswersFor, RefuseKey, Waiting, Check, HashPayload
<1> QED
  BY <1>1, AnsweredInv DEF RefuseKey

LEMMA RefuseCallInv ==
  ASSUME ApiInv, NEW c \in Client, RefuseCall(c)
  PROVE  ApiInv'
<1>1. /\ Waiting(c) /\ ~ Check(call[c].key) /\ Answered(c, "refused")
      /\ UNCHANGED <<tables, call, keys, effects, cutOff>>
  BY DEF RefuseCall
<1>2. c \notin cutOff =>
        \/ effects[c] = 0
        \/ keys[call[c].key] # NoRow /\ keys[call[c].key].expired
  BY <1>1 DEF ApiInv, ApiTypeOK, EffectsHaveRows, RowAnswersFor, Waiting, Check
<1> QED
  BY <1>1, <1>2, AnsweredInv

LEMMA ExpireInv ==
  ASSUME ApiInv, NEW k \in Key, Expire(k)
  PROVE  ApiInv'
<1>1. /\ UNCHANGED <<tables, call, answer, effects, cutOff>>
      /\ keys' = [keys EXCEPT ![k].expired = TRUE]
      /\ keys[k] # NoRow
  BY DEF Expire, Check
<1>2. keys[k] \in KeyRow /\ keys \in [Key -> KeyRow \union {NoRow}]
  BY <1>1, RowFacts DEF ApiInv, ApiTypeOK
<1> DEFINE row == [keys[k] EXCEPT !.expired = TRUE]
<1>3. row \in KeyRow /\ row.hash = keys[k].hash /\ row.expired
  BY <1>2 DEF KeyRow
<1>4. keys' = [keys EXCEPT ![k] = row]
  BY <1>1
<1> HIDE DEF row
<1>5. keys'[k] = row /\ \A j \in Key : j # k => keys'[j] = keys[j]
  BY <1>2, <1>4
<1>6. row # NoRow
  <2>1. "expired" \in DOMAIN row
    BY <1>3 DEF KeyRow
  <2>2. "expired" \notin DOMAIN NoRow
    BY DEF NoRow
  <2> QED
    BY <2>1, <2>2
<1>7. ApiTypeOK'
  BY <1>1, <1>2, <1>3, <1>4 DEF ApiInv, ApiTypeOK, TypeOK, tables
<1>8. CallsAreWellFormed' /\ EffectRaisesVersion' /\ TransitionsHappenOnce'
  BY <1>1 DEF ApiInv, CallsAreWellFormed, EffectRaisesVersion, TransitionsHappenOnce,
              Exists, tables
<1>9. RowsHaveEffects'
  BY <1>1, <1>3, <1>5 DEF ApiInv, RowsHaveEffects
<1>10. EffectsHaveRows'
  <2>1. SUFFICES ASSUME NEW d \in Client, call[d] # NoCall, d \notin cutOff
                 PROVE  RowAnswersFor(d)'
    BY <1>1 DEF EffectsHaveRows
  <2>2. RowAnswersFor(d) /\ call[d].key \in Key
    BY <2>1, CallFacts DEF ApiInv, EffectsHaveRows
  <2>3. CASE call[d].key = k
    BY <1>1, <1>3, <1>5, <1>6, <2>2, <2>3 DEF RowAnswersFor
  <2>4. CASE call[d].key # k
    BY <1>1, <1>5, <2>2, <2>4 DEF RowAnswersFor
  <2> QED
    BY <2>3, <2>4
<1>11. AcceptedHappened'
  BY <1>1 DEF ApiInv, AcceptedHappened, HashPayload
<1> QED
  BY <1>7, <1>8, <1>9, <1>10, <1>11 DEF ApiInv

\* The key of a call that is handled holds no row, or one that has expired.
LEMMA PerformCallInv ==
  ASSUME ApiInv, NEW c \in Client, PerformCall(c)
  PROVE  ApiInv'
<1> DEFINE k == call[c].key
<1>1. /\ call[c] # NoCall /\ answer[c] = "none" /\ c \in Client
      /\ Effect(c)
      /\ keys[k] = NoRow \/ keys[k].expired
      /\ UNCHANGED call
  BY DEF PerformCall, Waiting, Check
<1>2. ApiTypeOK
  BY DEF ApiInv
<1>3. call[c] \in CallRow /\ k \in Key
  BY <1>1, <1>2, CallFacts
<1>4. /\ TypeOK' /\ VersionsGrow
      /\ call[c].endpoint # "create" =>
           /\ request[call[c].target].version = call[c].body.version
           /\ request'[call[c].target].version > call[c].body.version
  BY <1>1, EffectVersions
<1>5. /\ effects \in [Client -> Nat] /\ effects' \in [Client -> Nat]
      /\ effects'[c] = effects[c] + 1
      /\ \A d \in Client : d # c => effects'[d] = effects[d]
  BY <1>2 DEF ApiTypeOK, PerformCall
<1>6. \/ Store(c) /\ Answered(c, "accepted") /\ UNCHANGED cutOff
      \/ cutOff' = cutOff \union {c} /\ UNCHANGED <<keys, answer>>
  BY DEF PerformCall
<1>7. /\ answer' \in [Client -> {"none", "accepted", "refused"}]
      /\ \A d \in Client : answer'[d] = answer[d] \/ (d = c /\ answer'[d] = "accepted")
  BY <1>2, <1>6 DEF ApiTypeOK, Answered
<1> DEFINE row == [hash |-> call[c].body, expired |-> FALSE]
<1>8. row \in KeyRow /\ row # NoRow /\ row.hash = call[c].body
  <2>1. row \in KeyRow /\ row.hash = call[c].body
    BY <1>3 DEF KeyRow, CallRow
  <2>2. "expired" \in DOMAIN row /\ "expired" \notin DOMAIN NoRow
    BY DEF NoRow
  <2> QED
    BY <2>1, <2>2
<1>9. /\ keys' \in [Key -> KeyRow \union {NoRow}]
      /\ \A j \in Key : keys'[j] = keys[j] \/ (j = k /\ keys[j] = NoRow /\ keys'[j] = row)
      /\ c \notin cutOff' => keys'[k] # NoRow
  <2>1. CASE Store(c) /\ UNCHANGED cutOff
    <3>1. keys' = [keys EXCEPT ![k] = IF keys[k] = NoRow THEN row ELSE keys[k]]
      BY <2>1 DEF Store, HashPayload
    <3> HIDE DEF row, k
    <3> QED
      BY <1>2, <1>3, <1>8, <3>1 DEF ApiTypeOK
  <2>2. CASE cutOff' = cutOff \union {c} /\ UNCHANGED keys
    BY <1>2, <2>2 DEF ApiTypeOK
  <2> QED
    BY <1>6, <2>1, <2>2
<1>10. cutOff' \subseteq Client /\ cutOff \subseteq cutOff'
  BY <1>2, <1>6 DEF ApiTypeOK
<1> HIDE DEF row
<1>11. ApiTypeOK'
  BY <1>1, <1>2, <1>4, <1>5, <1>7, <1>9, <1>10 DEF ApiTypeOK
<1>12. CallsAreWellFormed'
  <2>1. SUFFICES ASSUME NEW d \in Client
                 PROVE  /\ call[d] = NoCall => effects'[d] = 0 /\ answer'[d] = "none"
                        /\ call[d] # NoCall /\ call[d].endpoint # "create" =>
                             Exists(call[d].target)'
    BY <1>1 DEF ApiInv, CallsAreWellFormed
  <2>2. call[d] = NoCall => effects'[d] = 0 /\ answer'[d] = "none"
    BY <1>1, <1>5, <1>7 DEF ApiInv, CallsAreWellFormed
  <2> QED
    BY <1>1, <1>4, <2>2 DEF ApiInv, CallsAreWellFormed, VersionsGrow, Exists
<1>13. EffectRaisesVersion'
  <2>1. SUFFICES ASSUME NEW d \in Client, call[d] # NoCall,
                        call[d].endpoint # "create", effects'[d] > 0
                 PROVE  request'[call[d].target].version > call[d].body.version
    BY <1>1 DEF EffectRaisesVersion
  <2>2. CASE d = c
    BY <1>4, <2>1, <2>2
  <2>3. CASE d # c
    <3> DEFINE to == call[d].target
               v  == call[d].body.version
    <3>1. request[to].version > v
      BY <1>5, <2>1, <2>3 DEF ApiInv, EffectRaisesVersion
    <3>2. to \in Request /\ Exists(to) /\ v \in Nat
      BY <2>1 DEF ApiInv, CallsAreWellFormed, VersionBody
    <3> HIDE DEF to, v
    <3>3. request'[to].version >= request[to].version /\ request'[to] # NoRequest
      BY <1>4, <3>2 DEF VersionsGrow, Exists
    <3>4. request[to] \in RequestRow /\ request'[to] \in RequestRow
      BY <1>2, <1>4, <3>2, <3>3 DEF ApiTypeOK, TypeOK, Exists
    <3>5. request[to].version \in Nat /\ request'[to].version \in Nat
      BY <3>4 DEF RequestRow
    <3>6. request'[to].version > v
      BY <3>1, <3>2, <3>3, <3>5
    <3> QED
      BY <3>6 DEF to, v
  <2> QED
    BY <2>2, <2>3
<1>14. TransitionsHappenOnce'
  <2>1. call[c].endpoint # "create" => effects[c] = 0
    <3>1. SUFFICES ASSUME call[c].endpoint # "create", effects[c] > 0 PROVE FALSE
      BY <1>5
    <3>2. request[call[c].target].version > call[c].body.version
      BY <1>1, <3>1 DEF ApiInv, EffectRaisesVersion
    <3>3. call[c].body.version \in Nat
      BY <1>1, <3>1 DEF ApiInv, CallsAreWellFormed, VersionBody
    <3> QED
      BY <1>4, <3>1, <3>2, <3>3
  <2> QED
    BY <1>1, <1>5, <2>1 DEF ApiInv, TransitionsHappenOnce
<1>15. RowsHaveEffects'
  <2>1. SUFFICES ASSUME NEW j \in Key, keys'[j] # NoRow
                 PROVE  \E d \in Client :
                          /\ call[d] # NoCall /\ effects'[d] > 0
                          /\ call[d].key = j /\ call[d].body = keys'[j].hash
    BY <1>1 DEF RowsHaveEffects
  <2>2. CASE keys'[j] = keys[j]
    <3>1. PICK d \in Client :
            /\ call[d] # NoCall /\ effects[d] > 0
            /\ call[d].key = j /\ call[d].body = keys[j].hash
      BY <2>1, <2>2 DEF ApiInv, RowsHaveEffects
    <3>2. effects'[d] > 0
      BY <1>5, <3>1
    <3> QED
      BY <2>2, <3>1, <3>2
  <2>3. CASE j = k /\ keys'[j] = row
    BY <1>1, <1>5, <1>8, <2>3
  <2> QED
    BY <1>9, <2>2, <2>3
<1>16. EffectsHaveRows'
  <2>1. SUFFICES ASSUME NEW d \in Client, call[d] # NoCall, d \notin cutOff'
                 PROVE  RowAnswersFor(d)'
    BY <1>1 DEF EffectsHaveRows
  <2>2. RowAnswersFor(d) /\ call[d].key \in Key
    BY <1>2, <1>10, <2>1, CallFacts DEF ApiInv, EffectsHaveRows
  <2>3. CASE d = c
    <3>1. keys'[k] # NoRow
      BY <1>9, <2>1, <2>3
    <3>2. answer'[c] # "refused"
      BY <1>1, <1>7
    <3>3. keys'[k].expired \/ (effects'[c] = 1 /\ keys'[k].hash = call[c].body)
      <4>1. CASE keys[k] = NoRow
        <5>1. effects[c] = 0
          BY <1>5, <2>2, <2>3, <4>1 DEF RowAnswersFor
        <5>2. keys'[k] = row
          BY <1>3, <1>9, <3>1, <4>1
        <5> QED
          BY <1>5, <1>8, <5>1, <5>2
      <4>2. CASE keys[k] # NoRow
        BY <1>1, <1>3, <1>9, <4>2
      <4> QED
        BY <4>1, <4>2
    <3> QED
      BY <1>1, <2>3, <3>1, <3>2, <3>3 DEF RowAnswersFor
  <2>4. CASE d # c
    <3>1. effects'[d] = effects[d] /\ answer'[d] = answer[d]
      BY <1>5, <1>7, <2>4
    <3>2. CASE keys'[call[d].key] = keys[call[d].key]
      BY <1>1, <2>2, <3>1, <3>2 DEF RowAnswersFor
    <3>3. CASE keys[call[d].key] = NoRow
      <4>1. effects[d] = 0
        BY <1>5, <2>2, <3>3 DEF RowAnswersFor
      <4> QED
        BY <1>1, <3>1, <4>1 DEF RowAnswersFor
    <3> QED
      BY <1>9, <2>2, <3>2, <3>3
  <2> QED
    BY <2>3, <2>4
<1>17. AcceptedHappened'
  <2>1. SUFFICES ASSUME NEW d \in Client, answer'[d] = "accepted"
                 PROVE  \E e \in Client :
                          /\ effects'[e] > 0
                          /\ call[e].key = call[d].key /\ call[e].body = call[d].body
    BY <1>1 DEF AcceptedHappened, HashPayload
  <2>2. CASE d = c
    BY <1>5, <2>2
  <2>3. CASE d # c
    <3>1. PICK e \in Client :
            /\ effects[e] > 0
            /\ call[e].key = call[d].key /\ call[e].body = call[d].body
      BY <1>7, <2>1, <2>3 DEF ApiInv, AcceptedHappened, HashPayload
    <3>2. effects'[e] > 0
      BY <1>5, <3>1
    <3> QED
      BY <3>1, <3>2
  <2> QED
    BY <2>2, <2>3
<1> QED
  BY <1>11, <1>12, <1>13, <1>14, <1>15, <1>16, <1>17 DEF ApiInv

-----------------------------------------------------------------------------

LEMMA NextApi == ApiInv /\ [ApiNext]_apiVars => ApiInv'
<1> SUFFICES ASSUME ApiInv, [ApiNext]_apiVars PROVE ApiInv'
  OBVIOUS
<1>1. CASE \E c \in Client :
             \/ DecideCall(c) \/ ReplayAnswer(c) \/ RefuseKey(c)
             \/ PerformCall(c) \/ RefuseCall(c)
  BY <1>1, DecideCallInv, ReplayAnswerInv, RefuseKeyInv, PerformCallInv, RefuseCallInv
<1>2. CASE \E k \in Key : Expire(k)
  BY <1>2, ExpireInv
<1>3. CASE UNCHANGED apiVars
  <2>1. UNCHANGED <<request, hold, balance, outbox, call, answer, keys, effects, cutOff>>
    BY <1>3 DEF apiVars, tables
  <2>2. ApiTypeOK'
    BY <2>1 DEF ApiInv, ApiTypeOK, TypeOK
  <2>3. CallsAreWellFormed' /\ EffectRaisesVersion' /\ TransitionsHappenOnce'
    BY <2>1 DEF ApiInv, CallsAreWellFormed, EffectRaisesVersion, TransitionsHappenOnce,
                Exists
  <2>4. RowsHaveEffects' /\ EffectsHaveRows' /\ AcceptedHappened'
    BY <2>1 DEF ApiInv, RowsHaveEffects, EffectsHaveRows, RowAnswersFor,
                AcceptedHappened, HashPayload
  <2> QED
    BY <2>2, <2>3, <2>4 DEF ApiInv
<1> QED
  BY <1>1, <1>2, <1>3 DEF ApiNext

LEMMA ApiInvariant == ApiSpec => []ApiInv
BY InitApi, NextApi, PTL DEF ApiSpec

-----------------------------------------------------------------------------

\* Calls, answers and the table of keys are well formed, with any number of users.
THEOREM ApiTypeCorrect == ApiSpec => []ApiTypeOK
BY ApiInvariant, PTL DEF ApiInv

\* approveRequest, rejectRequest and cancelRequest take effect once at most, whatever
\* becomes of the key: the version a repeated call names is never current again.
THEOREM RepeatedTransitionsAreRefused == ApiSpec => []TransitionsHappenOnce
BY ApiInvariant, PTL DEF ApiInv

\* The controllers answer with success, from the table of keys too, only what happened.
THEOREM SuccessIsTrue == ApiSpec => []AcceptedHappened
BY ApiInvariant, PTL DEF ApiInv

\* Until its key expires, and unless the process died between handler and key, a call
\* that is repeated happens once and is not refused after it happened.
THEOREM RetriesAreSafe == ApiSpec => []RepeatsAreSafe
<1>1. ApiInv => RepeatsAreSafe
  <2> SUFFICES ASSUME ApiInv, NEW c \in Client,
                      answer[c] # "none" \/ effects[c] > 0, c \notin cutOff,
                      keys[call[c].key] # NoRow => ~ keys[call[c].key].expired
               PROVE  /\ effects[c] <= 1
                      /\ answer[c] = "refused" => effects[c] = 0
    BY DEF RepeatsAreSafe
  <2>1. call[c] # NoCall
    BY DEF ApiInv, CallsAreWellFormed
  <2>2. RowAnswersFor(c)
    BY <2>1 DEF ApiInv, EffectsHaveRows
  <2>3. effects[c] \in Nat
    BY DEF ApiInv, ApiTypeOK
  <2> QED
    BY <2>2, <2>3 DEF RowAnswersFor
<1> QED
  BY <1>1, ApiInvariant, PTL

-----------------------------------------------------------------------------
(***************************************************************************)
(* The controllers implement the handlers they call: seen at the tables,   *)
(* every step of IdempotentApi is one of RequestLifecycle or none.         *)
(***************************************************************************)

\* What a controller passes on is a call that a handler takes.
LEMMA EffectIsHandled ==
  ASSUME ApiInv, NEW c \in Client, call[c] # NoCall, Effect(c)
  PROVE  Handler
<1>1. PICK to, body : to = call[c].target /\ body = call[c].body
  OBVIOUS
<1>2. TypeOK
  BY DEF ApiInv, ApiTypeOK
<1>3. CASE call[c].endpoint = "create"
  <2>1. /\ to \in Account
        /\ body.start \in Day /\ body.end \in Day /\ body.hours \in Hours
    BY <1>1, <1>3 DEF ApiInv, CallsAreWellFormed, CreateBody
  <2>2. PICK r \in Request : CreateRequest(r, to, body.start, body.end, body.hours)
    BY <1>1, <1>3 DEF Effect
  <2> QED
    BY <2>1, <2>2 DEF Handler
<1>4. CASE call[c].endpoint # "create"
  <2>1. to \in Request /\ Exists(to)
    BY <1>1, <1>4 DEF ApiInv, CallsAreWellFormed
  <2>2. PICK v : v = body.version
    OBVIOUS
  <2>3. ApproveRequest(to, v) \/ RejectRequest(to, v) \/ CancelRequest(to, v)
    BY <1>1, <1>4, <2>2 DEF Effect
  <2>4. request[to].version = v
    BY <2>3 DEF ApproveRequest, RejectRequest, CancelRequest, UpdateStatus
  <2>5. v \in VersionSeen(to)
    <3>1. v \in Nat \ {0}
      BY <1>2, <2>1, <2>4 DEF TypeOK, Exists, RequestRow
    <3> QED
      BY <2>1, <2>4, <3>1 DEF VersionSeen
  <2> QED
    BY <2>1, <2>3, <2>5 DEF Handler
<1> QED
  BY <1>3, <1>4

\* Repeated, replayed, refused or cut off in the middle, calls do to the tables only
\* what a handler of the request service does in one transaction.
THEOREM ApiImplementsHandlers == ApiSpec => Spec
<1>1. ApiInit => Init
  BY DEF ApiInit
<1>2. ApiInv /\ [ApiNext]_apiVars => [Handler]_tables
  <2> SUFFICES ASSUME ApiInv, [ApiNext]_apiVars, ~ UNCHANGED tables
               PROVE  Handler
    OBVIOUS
  <2>1. PICK c \in Client : PerformCall(c)
    BY DEF ApiNext, DecideCall, ReplayAnswer, RefuseKey, RefuseCall, Expire, apiVars
  <2>2. call[c] # NoCall /\ Effect(c)
    BY <2>1 DEF PerformCall, Waiting
  <2> QED
    BY <2>2, EffectIsHandled
<1> QED
  BY <1>1, <1>2, ApiInvariant, PTL DEF ApiSpec, Spec

\* So that whatever users repeat, share or lose, hours stay covered, days apart, and
\* holds and posts with their requests.
COROLLARY ApiKeepsTables ==
  ApiSpec => [](NoOverbooking /\ NoOverlap /\ HoldFollowsRequest
                  /\ WaitingRequestHasItsPost /\ NoPostLeftBehind)
BY ApiImplementsHandlers, HoldsAreCovered, DatesNeverOverlap, HoldsFollowRequests,
   PostsFollowRequests, PostsLeaveWithRequests, PTL
=============================================================================
