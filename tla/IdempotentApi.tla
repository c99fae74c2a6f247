---------------------------- MODULE IdempotentApi ---------------------------
(***************************************************************************)
(* The controllers in front of the request API                             *)
(* (employee-request.controller.ts, manager-request.controller.ts) with    *)
(* the table of idempotency keys (idempotency.service.ts), and clients     *)
(* that repeat a call until they have an answer.                           *)
(*                                                                         *)
(* A controller looks the key up, runs the handler, and stores the answer  *)
(* in a second transaction.  Nothing interleaves, but the process may die  *)
(* between the two, an answer may be lost on its way to the client, and a  *)
(* key is forgotten after 24 hours.                                        *)
(*                                                                         *)
(* All calls are about one leave type: an account stands for an employee.  *)
(***************************************************************************)
EXTENDS RequestLifecycle

CONSTANTS
  Client,           \* users, each making one call, again until it is answered
  Key,              \* idempotency keys
  KeysAreUnique,    \* whether every client takes a key of its own
  MayCrash,         \* whether the process may die before the answer is stored
  KeysExpire        \* whether a call may be repeated after 24 hours

ASSUME BehaviourAssumption == {KeysAreUnique, MayCrash, KeysExpire} \subseteq BOOLEAN

VARIABLES
  call,             \* client -> its call, or NoCall
  answer,           \* client -> "none", "accepted" or "refused"
  keys,             \* idempotency_keys: key -> its row, or NoRow
  effects,          \* client -> how often its call took effect
  cutOff            \* clients whose call committed before the process died

apiVars == <<tables, call, answer, keys, effects, cutOff>>

NoCall == [endpoint |-> "none"]
NoRow == [hash |-> NULL]

Endpoint == {"create", "approve", "reject", "cancel"}

\* The bodies of the calls.  A create call names days and hours, the others the
\* version of the request their user has read; only a reject has a reason.
CreateBody  == [start : Day, end : Day, hours : Hours]
VersionBody == [version : Nat \ {0}, hasReason : BOOLEAN]

\* target is what headers and path name: an employee's account or a request.
CallRow ==
  [ endpoint : Endpoint, target : Account \union Request, key : Key,
    body : CreateBody \union VersionBody ]

KeyRow == [hash : CreateBody \union VersionBody, expired : BOOLEAN]

ApiTypeOK ==
  /\ TypeOK
  /\ call    \in [Client -> CallRow \union {NoCall}]
  /\ answer  \in [Client -> {"none", "accepted", "refused"}]
  /\ keys    \in [Key -> KeyRow \union {NoRow}]
  /\ effects \in [Client -> Nat]
  /\ cutOff  \subseteq Client

-----------------------------------------------------------------------------
(***************************************************************************)
(* Clients.                                                                *)
(***************************************************************************)

Call(endpoint, target, key, body) ==
  [endpoint |-> endpoint, target |-> target, key |-> key, body |-> body]

\* A user decides what to do, on the version of the request shown at that time.
DecideCall(c) ==
  /\ call[c] = NoCall
  /\ \E k \in Key :
       /\ KeysAreUnique => \A d \in Client : call[d] # NoCall => call[d].key # k
       /\ \/ \E a \in Account, body \in CreateBody :
               call' = [call EXCEPT ![c] = Call("create", a, k, body)]
          \/ \E r \in Request, e \in Endpoint \ {"create"} :
               /\ Exists(r)
               /\ call' = [call EXCEPT ![c] =
                    Call(e, r, k, [ version   |-> request[r].version,
                                    hasReason |-> e = "reject" ])]
  /\ UNCHANGED <<tables, answer, keys, effects, cutOff>>

\* The answer reaches the client, or it is lost and the client calls again.
Answered(c, a) == answer' \in {answer, [answer EXCEPT ![c] = a]}

-----------------------------------------------------------------------------
(***************************************************************************)
(* The idempotency service.                                                *)
(***************************************************************************)

\* hashPayload: of the body alone; the endpoint, the request in the path and
\* the headers are no part of it.
HashPayload(c) == call[c].body

\* check finds a row that has not expired.
Check(k) == keys[k] # NoRow /\ ~ keys[k].expired

Store_Nothing(c) == UNCHANGED keys

\* store: INSERT OR IGNORE, so that an expired row stays in the way.
Store(c) ==
  keys' = [keys EXCEPT ![call[c].key] =
             IF @ = NoRow THEN [hash |-> HashPayload(c), expired |-> FALSE] ELSE @]

\* 24 hours pass; cleanup, which would delete the row, is called by nobody.
Expire(k) ==
  /\ KeysExpire
  /\ Check(k)
  /\ keys' = [keys EXCEPT ![k].expired = TRUE]
  /\ UNCHANGED <<tables, call, answer, effects, cutOff>>

-----------------------------------------------------------------------------
(***************************************************************************)
(* The controllers.                                                        *)
(***************************************************************************)

Waiting(c) == call[c] # NoCall /\ answer[c] = "none"

Effect_LenientCancel(c) ==
  LET to   == call[c].target
      body == call[c].body
  IN  \/ /\ call[c].endpoint = "create"
         /\ \E r \in Request :
              CreateRequest(r, to, body.start, body.end, body.hours)
      \/ /\ call[c].endpoint = "cancel"
         /\ request' = [request EXCEPT ![to].status = "CANCELLED",
                                       ![to].version = @ + 1]
         /\ UNCHANGED <<hold, balance, outbox>>

\* The handler behind the endpoint.
Effect(c) ==
  LET to   == call[c].target
      body == call[c].body
  IN  \/ /\ call[c].endpoint = "create"
         /\ \E r \in Request :
              CreateRequest(r, to, body.start, body.end, body.hours)
      \/ call[c].endpoint = "approve" /\ ApproveRequest(to, body.version)
      \/ call[c].endpoint = "reject"  /\ RejectRequest(to, body.version)
      \/ call[c].endpoint = "cancel"  /\ CancelRequest(to, body.version)

\* Bound: a create call is not handled once the identifiers are used up.
HasIdentifier(c) ==
  call[c].endpoint = "create" => \E r \in Request : ~ Exists(r)

\* The key is known and the body is the same: the stored answer, again.
ReplayAnswer(c) ==
  /\ Waiting(c)
  /\ Check(call[c].key)
  /\ keys[call[c].key].hash = HashPayload(c)
  /\ Answered(c, "accepted")
  /\ UNCHANGED <<tables, call, keys, effects, cutOff>>

\* The key is known with another body: DuplicateRequestException.
RefuseKey(c) ==
  /\ Waiting(c)
  /\ Check(call[c].key)
  /\ keys[call[c].key].hash # HashPayload(c)
  /\ Answered(c, "refused")
  /\ UNCHANGED <<tables, call, keys, effects, cutOff>>

PerformCall_StoringFirst(c) ==
  /\ Waiting(c)
  /\ ~ Check(call[c].key)
  /\ Store(c)
  /\ \/ Effect(c) /\ effects' = [effects EXCEPT ![c] = @ + 1] /\ Answered(c, "accepted")
     \/ MayCrash /\ UNCHANGED <<tables, effects, answer>>
  /\ UNCHANGED <<call, cutOff>>

\* The handler commits; then the answer is stored and sent, unless the process
\* dies before it stores anything.
PerformCall(c) ==
  /\ Waiting(c)
  /\ ~ Check(call[c].key)
  /\ Effect(c)
  /\ effects' = [effects EXCEPT ![c] = @ + 1]
  /\ \/ Store(c) /\ Answered(c, "accepted") /\ UNCHANGED cutOff
     \/ MayCrash /\ cutOff' = cutOff \union {c} /\ UNCHANGED <<keys, answer>>
  /\ UNCHANGED call

\* The handler throws: nothing is stored.
RefuseCall(c) ==
  /\ Waiting(c)
  /\ ~ Check(call[c].key)
  /\ HasIdentifier(c)
  /\ ~ ENABLED Effect(c)
  /\ Answered(c, "refused")
  /\ UNCHANGED <<tables, call, keys, effects, cutOff>>

-----------------------------------------------------------------------------
(***************************************************************************)
(* Specification.                                                          *)
(***************************************************************************)

ApiInit ==
  /\ Init
  /\ call    = [c \in Client |-> NoCall]
  /\ answer  = [c \in Client |-> "none"]
  /\ keys    = [k \in Key |-> NoRow]
  /\ effects = [c \in Client |-> 0]
  /\ cutOff  = {}

ApiNext ==
  \/ \E c \in Client :
       \/ DecideCall(c)
       \/ ReplayAnswer(c)
       \/ RefuseKey(c)
       \/ PerformCall(c)
       \/ RefuseCall(c)
  \/ \E k \in Key : Expire(k)

ApiSpec == ApiInit /\ [][ApiNext]_apiVars

-----------------------------------------------------------------------------
(***************************************************************************)
(* Properties.                                                             *)
(***************************************************************************)

\* Approving, rejecting and cancelling take effect at most once however often
\* the call is repeated, even when its key was never stored or has expired:
\* version and status of the request refuse the second time.
TransitionsHappenOnce ==
  \A c \in Client :
    call[c] # NoCall /\ call[c].endpoint # "create" => effects[c] <= 1

\* A call that was answered with success did happen, by itself or through the
\* call of the same key and body that it was taken for.
AcceptedHappened ==
  \A c \in Client : answer[c] = "accepted" =>
    \E d \in Client :
      /\ effects[d] > 0
      /\ call[d].key = call[c].key
      /\ HashPayload(d) = HashPayload(c)

\* What the key is for, while it is known: unless the process died in the middle
\* of a call, repeating it until the key expires neither makes a second request
\* nor ends in an error about the first.
RepeatsAreSafe ==
  \A c \in Client :
    /\ answer[c] # "none" \/ effects[c] > 0
    /\ c \notin cutOff
    /\ keys[call[c].key] # NoRow => ~ keys[call[c].key].expired
    => /\ effects[c] <= 1
       /\ answer[c] = "refused" => effects[c] = 0
=============================================================================
