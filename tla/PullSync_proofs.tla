--------------------------- MODULE PullSync_proofs ---------------------------
(***************************************************************************)
(* Proofs about PullSync, and about ReconcileCursor which extends it, for  *)
(* any number of accounts, pulls, pushed batches, reconciliation runs and  *)
(* crashes.                                                                *)
(*                                                                         *)
(* What is kept up to the checkpoint is kept up to every time at which a   *)
(* pull has asked; an answer holds the rest up to the time it was given;   *)
(* and a batch that is being processed still has to do what of this is not *)
(* kept yet.  The last sections show that this still holds with            *)
(* reconciliation runs that write the same rows, old answers included.     *)
(***************************************************************************)
EXTENDS ReconcileCursor, FiniteSetTheorems, TLAPS

\* items would complete what is kept up to a time that is past.
Completes(items, time) ==
  /\ time <= clock
  /\ \A a \in Account : hcm[a] > 0 /\ hcm[a] <= time =>
       \/ Kept(a, hcm[a])
       \/ \E i \in items : i.account = a /\ i.version = hcm[a]

NewestIsNewest == \A a \in Account : projection[a].version <= newest[a]

PullsComplete ==
  \A n \in Run :
    /\ pull[n].stage = "asked" => Completes({}, pull[n].since)
    /\ pull[n].stage = "answered" => Completes(pull[n].items, pull[n].checkpoint)

BatchCompletes == batch # NoBatch => Completes(batch.todo, batch.checkpoint)

\* The batch that is being processed has stored, failed or still to do whatever
\* its record counts.
BatchAccounts ==
  batch # NoBatch /\ record[batch.id].status = "PROCESSING" =>
    \A i \in record[batch.id].items :
      i \in batch.todo \/ i \in batch.failed \/ newest[i.account] >= i.version

\* Every item of a COMPLETED batch was stored or superseded at some time.
CompletedWasStored ==
  \A id \in BatchId : record[id].status = "COMPLETED" =>
    \A i \in record[id].items : newest[i.account] >= i.version

PullInv ==
  /\ PullTypeOK
  /\ NewestIsNewest
  /\ PullsComplete
  /\ BatchCompletes
  /\ BatchAccounts
  /\ CompletedWasStored
  /\ NothingForgotten

LEMMA InitPull == PullInit => PullInv
<1> SUFFICES ASSUME PullInit PROVE PullInv
  OBVIOUS
<1> USE DEF PullInit
<1>1. PullTypeOK
  <2>1. hcm \in [Account -> 0 .. clock] /\ newest \in [Account -> Nat]
    OBVIOUS
  <2>2. sent \in [PushId -> SUBSET Item] /\ failed \subseteq Item
    OBVIOUS
  <2>3. projection \in [Account -> ProjectionRow \union {NoProjection}]
    OBVIOUS
  <2>4. record \in [BatchId -> BatchRecord \union {NoRecord}]
    OBVIOUS
  <2>5. pull \in [Run -> {Idle} \union Asked \union Answer]
    OBVIOUS
  <2> QED
    BY <2>1, <2>2, <2>3, <2>4, <2>5 DEF PullTypeOK
<1>2. NewestIsNewest /\ NothingForgotten
  BY DEF NewestIsNewest, NothingForgotten, KeptUpTo, NoProjection
<1>3. PullsComplete /\ BatchCompletes /\ BatchAccounts
  BY DEF PullsComplete, BatchCompletes, BatchAccounts, Idle
<1>4. CompletedWasStored
  BY DEF CompletedWasStored, NoRecord
<1> QED
  BY <1>1, <1>2, <1>3, <1>4 DEF PullInv

\* A batch under way has the fields of Batch.
LEMMA BatchType ==
  ASSUME PullTypeOK, batch # NoBatch
  PROVE  /\ batch \in Batch
         /\ batch.id \in BatchId
         /\ record[batch.id] \in BatchRecord \union {NoRecord}
BY DEF PullTypeOK, Batch

\* What is past stays past, what is kept stays kept.
Grows ==
  /\ clock' >= clock
  /\ \A a \in Account : newest'[a] >= newest[a]
  /\ failed \subseteq failed'

\* Steps that leave the HCM alone lose nothing; a change at the HCM makes a balance
\* younger than every time that is past.
Ages ==
  \A a \in Account : hcm'[a] = hcm[a] \/ hcm'[a] > clock

\* Completes of the next state, for the items of this one.
CompletesNext(items, time) ==
  /\ time <= clock'
  /\ \A a \in Account : hcm'[a] > 0 /\ hcm'[a] <= time =>
       \/ newest'[a] >= hcm'[a]
       \/ \E i \in failed' : i.account = a /\ i.version = hcm'[a]
       \/ \E i \in items : i.account = a /\ i.version = hcm'[a]

LEMMA StillCompletes ==
  ASSUME PullTypeOK, PullTypeOK', Grows, Ages,
         NEW items, NEW time \in Nat, Completes(items, time)
  PROVE  CompletesNext(items, time)
<1> USE DEF CompletesNext, Completes, Kept, FailedOnce, Grows, Ages, PullTypeOK
<1>1. time <= clock'
  OBVIOUS
<1>2. ASSUME NEW a \in Account, hcm'[a] > 0, hcm'[a] <= time
      PROVE  \/ newest'[a] >= hcm'[a]
             \/ \E i \in failed' : i.account = a /\ i.version = hcm'[a]
             \/ \E i \in items : i.account = a /\ i.version = hcm'[a]
  <2>1. hcm'[a] = hcm[a]
    BY <1>2
  <2>2. hcm[a] \in Nat /\ newest[a] \in Nat /\ newest'[a] \in Nat
    OBVIOUS
  <2> QED
    BY <1>2, <2>1, <2>2
<1> QED
  BY <1>1, <1>2

\* The checkpoint is a time up to which nothing is left to complete.
LEMMA KeptIsComplete ==
  ASSUME PullTypeOK
  PROVE  KeptUpTo(checkpoint) <=> Completes({}, checkpoint)
BY DEF PullTypeOK, KeptUpTo, Completes

LEMMA StillPulls ==
  ASSUME PullInv, PullTypeOK', Grows, Ages, UNCHANGED pull
  PROVE  PullsComplete'
<1>1. ASSUME NEW n \in Run, pull[n].stage = "asked"
      PROVE  Completes({}, pull[n].since)'
  <2>1. pull[n].since \in Nat
    BY <1>1 DEF PullInv, PullTypeOK, Idle, Asked, Answer
  <2>2. Completes({}, pull[n].since)
    BY <1>1 DEF PullInv, PullsComplete
  <2>3. CompletesNext({}, pull[n].since)
    BY <2>1, <2>2, StillCompletes DEF PullInv
  <2> QED
    BY <2>3 DEF CompletesNext, Completes, Kept, FailedOnce
<1>2. ASSUME NEW n \in Run, pull[n].stage = "answered"
      PROVE  Completes(pull[n].items, pull[n].checkpoint)'
  <2>1. pull[n].checkpoint \in Nat
    BY <1>2 DEF PullInv, PullTypeOK, Idle, Asked, Answer
  <2>2. Completes(pull[n].items, pull[n].checkpoint)
    BY <1>2 DEF PullInv, PullsComplete
  <2>3. CompletesNext(pull[n].items, pull[n].checkpoint)
    BY <2>1, <2>2, StillCompletes DEF PullInv
  <2> QED
    BY <2>3 DEF CompletesNext, Completes, Kept, FailedOnce
<1> QED
  BY <1>1, <1>2 DEF PullsComplete

LEMMA StillBatch ==
  ASSUME PullInv, PullTypeOK', Grows, Ages, UNCHANGED batch
  PROVE  BatchCompletes'
<1> SUFFICES ASSUME batch # NoBatch
             PROVE  Completes(batch.todo, batch.checkpoint)'
  BY DEF BatchCompletes, NoBatch
<1>1. batch.checkpoint \in Nat
  BY BatchType DEF PullInv, Batch
<1>2. Completes(batch.todo, batch.checkpoint)
  BY DEF PullInv, BatchCompletes
<1>3. CompletesNext(batch.todo, batch.checkpoint)
  BY <1>1, <1>2, StillCompletes DEF PullInv
<1> QED
  BY <1>3 DEF CompletesNext, Completes, Kept, FailedOnce

LEMMA StillKept ==
  ASSUME PullInv, PullTypeOK', Grows, Ages, UNCHANGED checkpoint
  PROVE  NothingForgotten'
<1>1. checkpoint \in Nat
  BY DEF PullInv, PullTypeOK
<1>2. Completes({}, checkpoint)
  BY KeptIsComplete DEF PullInv, NothingForgotten
<1>3. CompletesNext({}, checkpoint)
  BY <1>1, <1>2, StillCompletes DEF PullInv
<1> QED
  BY <1>3 DEF CompletesNext, NothingForgotten, KeptUpTo, Kept, FailedOnce

LEMMA StillStored ==
  ASSUME PullInv, PullTypeOK', Grows, UNCHANGED record
  PROVE  CompletedWasStored'
<1> SUFFICES ASSUME NEW id \in BatchId, record[id].status = "COMPLETED",
                    NEW i \in record[id].items
             PROVE  newest'[i.account] >= i.version
  BY DEF CompletedWasStored
<1>1. i \in Item
  BY DEF PullInv, PullTypeOK, NoRecord, BatchRecord
<1>2. newest[i.account] >= i.version
  BY DEF PullInv, CompletedWasStored
<1> QED
  BY <1>1, <1>2 DEF Item, Grows, PullInv, PullTypeOK

\* A step that moves nothing but the HCM and the histories keeps the rest.
LEMMA StillPullInv ==
  ASSUME PullInv, PullTypeOK', Grows, Ages,
         UNCHANGED <<projection, record, checkpoint, pull, batch, newest, failed>>
  PROVE  PullInv'
<1>1. NewestIsNewest' /\ BatchAccounts'
  BY DEF PullInv, NewestIsNewest, BatchAccounts, NoBatch
<1> QED
  BY <1>1, StillPulls, StillBatch, StillKept, StillStored DEF PullInv

-----------------------------------------------------------------------------

LEMMA HcmChangesInv ==
  ASSUME PullInv, NEW a \in Account, HcmChanges(a)
  PROVE  PullInv'
<1> USE DEF HcmChanges, stored, memory, history
<1>1. clock \in Nat /\ clock' = clock + 1
  BY DEF PullInv, PullTypeOK
<1>2. hcm' \in [Account -> 0 .. clock'] /\ checkpoint \in 0 .. clock'
  BY <1>1 DEF PullInv, PullTypeOK
<1>3. PullTypeOK'
  BY <1>1, <1>2 DEF PullInv, PullTypeOK
<1>4. Grows /\ Ages
  BY <1>1 DEF Grows, Ages, PullInv, PullTypeOK
<1> QED
  BY <1>3, <1>4, StillPullInv

LEMMA HcmSendsInv ==
  ASSUME PullInv, NEW id \in PushId, NEW accounts \in SUBSET Account,
         HcmSends(id, accounts)
  PROVE  PullInv'
<1> USE DEF HcmSends, stored, memory, history
<1>1. \A a \in Account : hcm[a] \in Nat /\ Workplace(a) \in Place
  BY DEF PullInv, PullTypeOK, Workplace, Place
<1> DEFINE items == { [account |-> a, location |-> Workplace(a), version |-> hcm[a]] :
                        a \in { b \in accounts : hcm[b] > 0 } }
<1>2. items \subseteq Item
  BY <1>1 DEF Item
<1>3. sent' = [sent EXCEPT ![id] = items]
  OBVIOUS
<1>4. sent' \in [PushId -> SUBSET Item]
  <2> HIDE DEF items
  <2> QED
    BY <1>2, <1>3 DEF PullInv, PullTypeOK
<1>5. PullTypeOK'
  BY <1>4 DEF PullInv, PullTypeOK
<1>6. Grows /\ Ages
  BY DEF Grows, Ages, PullInv, PullTypeOK
<1> QED
  BY <1>5, <1>6, StillPullInv

-----------------------------------------------------------------------------

\* Steps that read or write nothing of the HCM and of what was kept.
LEMMA SameTime ==
  ASSUME PullTypeOK, UNCHANGED <<clock, hcm, newest, failed>>
  PROVE  Grows /\ Ages
BY DEF PullTypeOK, Grows, Ages

LEMMA RecordType ==
  ASSUME PullTypeOK, NEW id \in BatchId, NEW r \in BatchRecord
  PROVE  [record EXCEPT ![id] = r] \in [BatchId -> BatchRecord \union {NoRecord}]
BY DEF PullTypeOK

LEMMA StartBatchInv ==
  ASSUME PullInv, NEW id \in BatchId, NEW items \in SUBSET Item, NEW time \in Nat,
         Completes(items, time), StartBatch(id, items, time), PullsComplete',
         pull' \in [Run -> {Idle} \union Asked \union Answer]
  PROVE  PullInv'
<1> USE DEF StartBatch, hcmSide, history
<1> DEFINE new == NewRecord(items)
<1>1. /\ new \in BatchRecord
      /\ new.status = "PROCESSING" /\ new.items = items
  BY DEF NewRecord, BatchRecord, BatchStatus
<1>2. record' = [record EXCEPT ![id] = new]
  OBVIOUS
<1>3. record' \in [BatchId -> BatchRecord \union {NoRecord}]
  BY <1>1, <1>2, RecordType DEF PullInv
<1>4. /\ batch' \in Batch
      /\ batch'.id = id /\ batch'.todo = items /\ batch'.checkpoint = time
  BY DEF Batch
<1>5. PullTypeOK'
  BY <1>3, <1>4 DEF PullInv, PullTypeOK
<1>6. Grows /\ Ages
  BY SameTime DEF PullInv
<1>7. NewestIsNewest'
  BY DEF PullInv, NewestIsNewest
<1>8. CompletesNext(items, time)
  BY <1>5, <1>6, StillCompletes DEF PullInv
<1>9. BatchCompletes'
  BY <1>4, <1>8 DEF BatchCompletes, CompletesNext, Completes, Kept, FailedOnce
<1>10. record'[id] = new
  BY <1>2 DEF PullInv, PullTypeOK
<1>11. BatchAccounts'
  BY <1>1, <1>4, <1>10 DEF BatchAccounts
<1>12. CompletedWasStored'
  <2> SUFFICES ASSUME NEW other \in BatchId, record'[other].status = "COMPLETED"
               PROVE  \A i \in record'[other].items : newest'[i.account] >= i.version
    BY DEF CompletedWasStored
  <2>1. other # id
    BY <1>1, <1>10
  <2>2. record'[other] = record[other]
    BY <1>2, <2>1 DEF PullInv, PullTypeOK
  <2> QED
    BY <2>2 DEF PullInv, CompletedWasStored
<1>13. NothingForgotten'
  BY <1>5, <1>6, StillKept
<1> QED
  BY <1>5, <1>7, <1>9, <1>11, <1>12, <1>13 DEF PullInv

LEMMA StartPushInv ==
  ASSUME PullInv, NEW id \in PushId, StartPush(id)
  PROVE  PullInv'
<1> USE DEF StartPush
<1>1. id \in BatchId /\ sent[id] \in SUBSET Item
  BY DEF PullInv, PullTypeOK, BatchId
<1>2. Completes(sent[id], 0)
  BY DEF PullInv, PullTypeOK, Completes
<1>3. PullTypeOK /\ UNCHANGED <<clock, hcm, newest, failed, pull>>
  BY DEF PullInv, StartBatch, hcmSide, history
<1>4. pull' \in [Run -> {Idle} \union Asked \union Answer]
  BY <1>3 DEF PullTypeOK
<1>5. PullsComplete'
  BY <1>3 DEF PullInv, PullsComplete, Completes, Kept, FailedOnce
<1> QED
  BY <1>1, <1>2, <1>4, <1>5, StartBatchInv

LEMMA StartPulledInv ==
  ASSUME PullInv, NEW n \in Run, StartPulled(n)
  PROVE  PullInv'
<1> USE DEF StartPulled
<1>1. n \in BatchId /\ pull[n] \in Answer
  BY DEF PullInv, PullTypeOK, BatchId, Idle, Asked
<1>2. pull[n].items \in SUBSET Item /\ pull[n].checkpoint \in Nat
  BY <1>1 DEF Answer
<1>3. Completes(pull[n].items, pull[n].checkpoint)
  BY DEF PullInv, PullsComplete
<1>4. PullTypeOK /\ UNCHANGED <<clock, hcm, newest, failed>>
  BY DEF PullInv, StartBatch, hcmSide, history
<1>5. pull' \in [Run -> {Idle} \union Asked \union Answer]
  BY <1>4 DEF PullTypeOK
<1>6. \A m \in Run : pull'[m] = pull[m] \/ pull'[m].stage = "idle"
  BY <1>4 DEF PullTypeOK, Idle
<1>7. PullsComplete'
  BY <1>4, <1>6 DEF PullInv, PullsComplete, Completes, Kept, FailedOnce
<1> QED
  BY <1>1, <1>2, <1>3, <1>5, <1>7, StartBatchInv

-----------------------------------------------------------------------------

\* What an item leaves behind, whichever way it goes.
LEMMA ItemEffect ==
  ASSUME PullInv, NEW i \in batch.todo, batch # NoBatch, ProcessItem(i)
  PROVE  /\ i \in Item
         /\ batch' \in Batch
         /\ batch'.id = batch.id /\ batch'.checkpoint = batch.checkpoint
         /\ batch'.todo = batch.todo \ {i}
         /\ batch.failed \subseteq batch'.failed
         /\ i \in batch'.failed \/ newest'[i.account] >= i.version
         /\ i \in failed' \/ newest'[i.account] >= i.version
         /\ newest' \in [Account -> Nat]
         /\ failed \subseteq failed' /\ failed' \subseteq Item
         /\ \A a \in Account : newest'[a] >= newest[a]
         /\ projection' \in [Account -> ProjectionRow \union {NoProjection}]
         /\ NewestIsNewest'
<1>1. batch \in Batch /\ i \in Item /\ PullTypeOK /\ NewestIsNewest
  BY BatchType DEF PullInv, Batch
<1>2. i.account \in Account /\ i.version \in Nat \ {0} /\ i.location \in Place
  BY <1>1 DEF Item
<1>3. /\ newest \in [Account -> Nat] /\ failed \subseteq Item
      /\ projection \in [Account -> ProjectionRow \union {NoProjection}]
  BY <1>1 DEF PullTypeOK
<1>4. CASE StoreItem(i)
  <2> USE <1>1, <1>2, <1>3, <1>4 DEF StoreItem
  <2>1. /\ batch' \in Batch
        /\ batch'.id = batch.id /\ batch'.checkpoint = batch.checkpoint
        /\ batch'.todo = batch.todo \ {i}
        /\ batch'.failed = batch.failed
    BY DEF Batch
  <2>2. newest' \in [Account -> Nat] /\ newest'[i.account] >= i.version
    BY DEF Latest
  <2>3. \A a \in Account : newest'[a] >= newest[a]
    BY DEF Latest
  <2> DEFINE row == [location |-> i.location, version |-> i.version]
  <2>4. row \in ProjectionRow /\ row.version = i.version
    BY DEF ProjectionRow
  <2>5. projection' = [projection EXCEPT ![i.account] = row]
    OBVIOUS
  <2> HIDE DEF row
  <2>6. projection' \in [Account -> ProjectionRow \union {NoProjection}]
    BY <2>4, <2>5
  <2>7. NewestIsNewest'
    <3>1. ASSUME NEW a \in Account PROVE projection'[a].version <= newest'[a]
      <4>1. CASE a = i.account
        BY <2>2, <2>4, <2>5, <4>1
      <4>2. CASE a # i.account
        BY <2>5, <4>2 DEF NewestIsNewest
      <4> QED
        BY <4>1, <4>2
    <3> QED
      BY <3>1 DEF NewestIsNewest
  <2> QED
    BY <2>1, <2>2, <2>3, <2>6, <2>7
<1>5. CASE Stale(i) /\ SkipItem(i)
  <2> USE <1>1, <1>2, <1>3, <1>5 DEF SkipItem
  <2>1. /\ batch' \in Batch
        /\ batch'.id = batch.id /\ batch'.checkpoint = batch.checkpoint
        /\ batch'.todo = batch.todo \ {i}
        /\ batch'.failed = batch.failed
    BY DEF Batch
  <2>2. i.version <= projection[i.account].version
    BY DEF Stale
  <2>3. projection[i.account].version \in Nat
    BY DEF ProjectionRow, NoProjection
  <2>4. newest[i.account] >= i.version
    BY <2>2, <2>3 DEF NewestIsNewest
  <2>5. projection' = projection
    BY DEF ProcessItem, StoreItem, FailItem, SkipItem
  <2> QED
    BY <2>1, <2>4, <2>5 DEF NewestIsNewest
<1>6. CASE FailItem(i)
  <2> USE <1>1, <1>2, <1>3, <1>6 DEF FailItem
  <2>1. /\ batch' \in Batch
        /\ batch'.id = batch.id /\ batch'.checkpoint = batch.checkpoint
        /\ batch'.todo = batch.todo \ {i}
        /\ batch'.failed = batch.failed \union {i}
    BY DEF Batch
  <2> QED
    BY <2>1 DEF NewestIsNewest
<1> QED
  BY <1>4, <1>5, <1>6 DEF ProcessItem

LEMMA ProcessItemInv ==
  ASSUME PullInv, NEW i \in batch.todo, batch # NoBatch, ProcessItem(i)
  PROVE  PullInv'
<1>1. UNCHANGED <<clock, hcm, sent, record, checkpoint, pull>>
  BY DEF ProcessItem, hcmSide
<1>2. PullTypeOK'
  BY <1>1, ItemEffect DEF PullInv, PullTypeOK
<1>3. Grows /\ Ages
  BY <1>1, ItemEffect DEF Grows, Ages, PullInv, PullTypeOK
<1>4. batch.checkpoint \in Nat
  BY BatchType DEF PullInv, Batch
<1>5. CompletesNext(batch.todo, batch.checkpoint)
  BY <1>2, <1>3, <1>4, StillCompletes DEF PullInv, BatchCompletes
<1>6. BatchCompletes'
  <2> SUFFICES ASSUME NEW a \in Account, hcm'[a] > 0, hcm'[a] <= batch.checkpoint
               PROVE  \/ newest'[a] >= hcm'[a]
                      \/ \E k \in failed' : k.account = a /\ k.version = hcm'[a]
                      \/ \E k \in batch'.todo : k.account = a /\ k.version = hcm'[a]
    BY <1>5, ItemEffect
       DEF BatchCompletes, Completes, CompletesNext, Kept, FailedOnce
  <2>1. CASE \E k \in batch.todo : k.account = a /\ k.version = hcm'[a]
    <3>1. PICK k \in batch.todo : k.account = a /\ k.version = hcm'[a]
      BY <2>1
    <3>2. CASE k = i
      BY <3>1, <3>2, ItemEffect
    <3>3. CASE k # i
      BY <3>1, <3>3, ItemEffect
    <3> QED
      BY <3>2, <3>3
  <2> QED
    BY <1>5, <2>1 DEF CompletesNext
<1>7. BatchAccounts'
  <2> SUFFICES ASSUME record[batch.id].status = "PROCESSING",
                      NEW k \in record[batch.id].items
               PROVE  \/ k \in batch'.todo \/ k \in batch'.failed
                      \/ newest'[k.account] >= k.version
    BY <1>1, ItemEffect DEF BatchAccounts
  <2>1. k \in Item
    BY BatchType DEF PullInv, BatchRecord, NoRecord
  <2>2. \/ k \in batch.todo \/ k \in batch.failed
        \/ newest[k.account] >= k.version
    BY DEF PullInv, BatchAccounts
  <2>3. newest[k.account] \in Nat /\ newest'[k.account] \in Nat /\ k.version \in Nat
    BY <2>1, ItemEffect DEF Item, PullInv, PullTypeOK
  <2>4. newest'[k.account] >= newest[k.account]
    BY <2>1, ItemEffect DEF Item
  <2>5. CASE k = i
    BY <2>5, ItemEffect
  <2>6. CASE k # i
    BY <2>2, <2>3, <2>4, <2>6, ItemEffect
  <2> QED
    BY <2>5, <2>6
<1>8. PullsComplete'
  BY <1>1, <1>2, <1>3, StillPulls
<1>9. NothingForgotten' /\ CompletedWasStored'
  BY <1>1, <1>2, <1>3, StillKept, StillStored
<1> QED
  BY <1>2, <1>6, <1>7, <1>8, <1>9, ItemEffect DEF PullInv

LEMMA NothingUnderWay ==
  ASSUME batch' = NoBatch
  PROVE  BatchCompletes' /\ BatchAccounts'
BY DEF BatchCompletes, BatchAccounts, NoBatch

LEMMA FinishBatchInv ==
  ASSUME PullInv, FinishBatch
  PROVE  PullInv'
<1> USE DEF FinishBatch, AllItemsDone, hcmSide, history
<1> DEFINE id == batch.id
<1>1. batch \in Batch /\ id \in BatchId /\ batch.todo = {}
  BY BatchType DEF PullInv
<1>2. record[id] \in BatchRecord
  BY BatchType DEF PullInv, NoRecord
<1> DEFINE new == [record[id] EXCEPT !.status = BatchOutcome(batch)]
<1>3. BatchOutcome(batch) \in BatchStatus \ {"PROCESSING"}
  BY DEF BatchOutcome, BatchStatus
<1>4. /\ new \in BatchRecord
      /\ new.status = BatchOutcome(batch) /\ new.items = record[id].items
  BY <1>2, <1>3 DEF BatchRecord
<1>5. record' = [record EXCEPT ![id] = new]
  OBVIOUS
<1>6. record[id].status = "PROCESSING"
  OBVIOUS
<1> HIDE DEF new
<1>7. record' \in [BatchId -> BatchRecord \union {NoRecord}]
  BY <1>1, <1>4, <1>5, RecordType DEF PullInv
<1>8. PullTypeOK'
  BY <1>7 DEF PullInv, PullTypeOK
<1>9. Grows /\ Ages
  BY SameTime DEF PullInv
<1>10. record'[id] = new
  BY <1>1, <1>5 DEF PullInv, PullTypeOK
<1>11. CompletedWasStored'
  <2> SUFFICES ASSUME NEW other \in BatchId, record'[other].status = "COMPLETED",
                      NEW i \in record'[other].items
               PROVE  newest[i.account] >= i.version
    BY DEF CompletedWasStored
  <2>1. CASE other = id
    <3>1. batch.failed = {}
      BY <1>4, <1>10, <2>1 DEF BatchOutcome
    <3>2. i \in record[id].items
      BY <1>4, <1>10, <2>1
    <3> QED
      BY <1>1, <1>6, <3>1, <3>2 DEF PullInv, BatchAccounts
  <2>2. CASE other # id
    <3>1. record'[other] = record[other]
      BY <1>5, <2>2 DEF PullInv, PullTypeOK
    <3> QED
      BY <3>1 DEF PullInv, CompletedWasStored
  <2> QED
    BY <2>1, <2>2
<1>12. BatchCompletes' /\ BatchAccounts'
  <2>1. CASE batch' = NoBatch
    BY <2>1, NothingUnderWay
  <2>2. CASE batch' = batch
    <3>1. record'[batch'.id].status # "PROCESSING"
      BY <1>3, <1>4, <1>10, <2>2
    <3> QED
      BY <1>8, <1>9, <2>2, <3>1, StillBatch DEF BatchAccounts
  <2> QED
    BY <2>1, <2>2
<1>13. NewestIsNewest'
  BY DEF PullInv, NewestIsNewest
<1> QED
  BY <1>8, <1>9, <1>11, <1>12, <1>13, StillPulls, StillKept DEF PullInv

LEMMA SetCheckpointInv ==
  ASSUME PullInv, SetCheckpoint
  PROVE  PullInv'
<1> USE DEF SetCheckpoint, NewCheckpoint, AllItemsDone, hcmSide, history
<1>1. batch.checkpoint \in Nat /\ batch.todo = {}
  BY BatchType DEF PullInv, Batch
<1>2. Completes({}, batch.checkpoint)
  BY <1>1 DEF PullInv, BatchCompletes
<1>3. PullTypeOK'
  BY <1>1, <1>2 DEF PullInv, PullTypeOK, Completes
<1>4. Grows /\ Ages
  BY SameTime DEF PullInv
<1>5. NothingForgotten'
  BY <1>2 DEF NothingForgotten, KeptUpTo, Completes, Kept, FailedOnce
<1>6. NewestIsNewest'
  BY DEF PullInv, NewestIsNewest
<1> QED
  BY <1>3, <1>4, <1>5, <1>6, NothingUnderWay, StillPulls, StillStored DEF PullInv

LEMMA AbandonBatchInv ==
  ASSUME PullInv, AbandonBatch
  PROVE  PullInv'
<1> USE DEF AbandonBatch, hcmSide, stored, history
<1>1. PullTypeOK'
  BY DEF PullInv, PullTypeOK
<1>2. Grows /\ Ages
  BY SameTime DEF PullInv
<1>3. NewestIsNewest'
  BY DEF PullInv, NewestIsNewest
<1> QED
  BY <1>1, <1>2, <1>3, NothingUnderWay, StillPulls, StillKept, StillStored DEF PullInv

\* A step of one pull, of which its own new state is left to be seen.
LEMMA PullMoves ==
  ASSUME PullInv, NEW n \in Run, NEW p \in {Idle} \union Asked \union Answer,
         pull' = [pull EXCEPT ![n] = p],
         UNCHANGED <<hcmSide, stored, batch, history>>,
         p.stage = "asked" => Completes({}, p.since),
         p.stage = "answered" => Completes(p.items, p.checkpoint)
  PROVE  PullInv'
<1> USE DEF hcmSide, stored, history
<1>1. pull' \in [Run -> {Idle} \union Asked \union Answer]
  BY DEF PullInv, PullTypeOK
<1>2. PullTypeOK'
  BY <1>1 DEF PullInv, PullTypeOK
<1>3. Grows /\ Ages
  BY SameTime DEF PullInv
<1>4. \A m \in Run : pull'[m] = pull[m] \/ pull'[m] = p
  BY DEF PullInv, PullTypeOK
<1>5. PullsComplete'
  BY <1>4 DEF PullInv, PullsComplete, Completes, Kept, FailedOnce
<1>6. NewestIsNewest' /\ BatchAccounts'
  BY DEF PullInv, NewestIsNewest, BatchAccounts
<1> QED
  BY <1>2, <1>3, <1>5, <1>6, StillBatch, StillKept, StillStored DEF PullInv

LEMMA AskHcmInv ==
  ASSUME PullInv, NEW n \in Run, AskHcm(n)
  PROVE  PullInv'
<1> DEFINE p == [stage |-> "asked", since |-> checkpoint]
<1>1. p \in Asked
  BY DEF PullInv, PullTypeOK, Asked
<1>2. Completes({}, checkpoint)
  BY KeptIsComplete DEF PullInv, NothingForgotten
<1>3. p.stage = "asked" /\ p.since = checkpoint
  OBVIOUS
<1>4. /\ pull' = [pull EXCEPT ![n] = p]
      /\ UNCHANGED <<hcmSide, stored, batch, history>>
  BY DEF AskHcm
<1> HIDE DEF p
<1> QED
  BY <1>1, <1>2, <1>3, <1>4, PullMoves

LEMMA BecomesIdle ==
  ASSUME PullInv, NEW n \in Run, pull' = [pull EXCEPT ![n] = Idle],
         UNCHANGED <<hcmSide, stored, batch, history>>
  PROVE  PullInv'
<1>1. Idle.stage # "asked" /\ Idle.stage # "answered"
  BY DEF Idle
<1> QED
  BY <1>1, PullMoves

LEMMA HcmAnswersInv ==
  ASSUME PullInv, NEW n \in Run, HcmAnswers(n)
  PROVE  PullInv'
<1> DEFINE items == ItemsSince(pull[n].since)
           p == [stage |-> "answered", items |-> items, checkpoint |-> clock]
<1>1. /\ pull[n].stage = "asked"
      /\ UNCHANGED <<hcmSide, stored, batch, history>>
      /\ pull' = [pull EXCEPT ![n] = IF items = {} THEN Idle ELSE p]
  BY DEF HcmAnswers
<1>2. clock \in Nat /\ hcm \in [Account -> 0 .. clock] /\ pull[n].since \in Nat
  BY <1>1 DEF PullInv, PullTypeOK, Idle, Asked, Answer
<1>3. items \in SUBSET Item
  BY <1>2 DEF ItemsSince, Item, Place
<1>4. Completes({}, pull[n].since)
  BY <1>1 DEF PullInv, PullsComplete
<1>5. Completes(items, clock)
  <2> SUFFICES ASSUME NEW a \in Account, hcm[a] > 0, ~ Kept(a, hcm[a])
               PROVE  \E i \in items : i.account = a /\ i.version = hcm[a]
    BY <1>2 DEF Completes
  <2>1. hcm[a] > pull[n].since
    BY <1>2, <1>4 DEF Completes
  <2>2. [account |-> a, location |-> "HQ", version |-> hcm[a]] \in items
    BY <2>1 DEF ItemsSince
  <2> QED
    BY <2>2
<1>6. p \in Answer /\ p.stage = "answered" /\ p.items = items /\ p.checkpoint = clock
  BY <1>2, <1>3 DEF Answer
<1> HIDE DEF items, p
<1>7. CASE items = {}
  BY <1>1, <1>7, BecomesIdle
<1>8. CASE items # {}
  BY <1>1, <1>5, <1>6, <1>8, PullMoves
<1> QED
  BY <1>7, <1>8

LEMMA PullCrashInv ==
  ASSUME PullInv, PullCrash
  PROVE  PullInv'
<1> USE DEF PullCrash, hcmSide, stored, history
<1>1. PullTypeOK'
  BY DEF PullInv, PullTypeOK
<1>2. Grows /\ Ages
  BY SameTime DEF PullInv
<1>3. NewestIsNewest' /\ PullsComplete'
  BY DEF PullInv, NewestIsNewest, PullsComplete, Idle
<1> QED
  BY <1>1, <1>2, <1>3, NothingUnderWay, StillKept, StillStored DEF PullInv

-----------------------------------------------------------------------------

LEMMA NextPull == PullInv /\ [PullNext]_pullVars => PullInv'
<1> SUFFICES ASSUME PullInv, [PullNext]_pullVars PROVE PullInv'
  OBVIOUS
<1>1. CASE HcmStep
  BY <1>1, HcmChangesInv, HcmSendsInv DEF HcmStep
<1>2. CASE \E id \in PushId : StartPush(id)
  BY <1>2, StartPushInv
<1>3. CASE BatchStep
  <2>1. CASE \E i \in batch.todo : ProcessItem(i)
    BY <2>1, ProcessItemInv DEF NoBatch
  <2> QED
    BY <1>3, <2>1, FinishBatchInv, SetCheckpointInv, AbandonBatchInv DEF BatchStep
<1>4. CASE \E n \in Run : PullStep(n)
  <2> SUFFICES ASSUME NEW n \in Run, PullStep(n) PROVE PullInv'
    BY <1>4
  <2>1. CASE PullFails(n)
    BY <2>1, BecomesIdle DEF PullFails
  <2> QED
    BY <2>1, AskHcmInv, HcmAnswersInv, StartPulledInv DEF PullStep
<1>5. CASE PullCrash
  BY <1>5, PullCrashInv
<1>6. CASE UNCHANGED pullVars
  <2>1. UNCHANGED <<clock, hcm, sent, projection, record, checkpoint, pull, batch,
                    newest, failed>>
    BY <1>6 DEF pullVars, hcmSide, stored, memory, history
  <2>2. PullTypeOK'
    BY <2>1 DEF PullInv, PullTypeOK
  <2>3. Grows /\ Ages
    BY <2>1, SameTime DEF PullInv
  <2> QED
    BY <2>1, <2>2, <2>3, StillPullInv
<1> QED
  BY <1>1, <1>2, <1>3, <1>4, <1>5, <1>6 DEF PullNext, SyncStep

LEMMA PullInvariant == PullSpec => []PullInv
BY InitPull, NextPull, PTL DEF PullSpec

\* The tables of batches and pulls, and what the process keeps of them, are well
\* formed; checkpoint and versions never run ahead of the HCM's time.
THEOREM PullTypeCorrect == PullSpec => []PullTypeOK
BY PullInvariant, PTL DEF PullInv

\* As long as batches are all that writes them, the rows are the newest there were.
RowsAreNewest == \A a \in Account : newest[a] = projection[a].version

\* A batch writes an item that is newer than the row, or leaves the rows alone.
LEMMA RowsWritten ==
  ASSUME PullInv, PullNext \/ UNCHANGED pullVars
  PROVE  \/ UNCHANGED <<projection, newest>>
         \/ \E i \in Item :
              /\ i.version > projection[i.account].version
              /\ projection' = [projection EXCEPT ![i.account] =
                                  [location |-> i.location, version |-> i.version]]
              /\ newest' = [newest EXCEPT ![i.account] = Latest(@, i.version)]
<1>1. CASE \E i \in batch.todo : ProcessItem(i)
  <2>1. PICK i \in batch.todo : ProcessItem(i)
    BY <1>1
  <2>2. batch # NoBatch
    BY DEF NoBatch
  <2>3. i \in Item /\ i.account \in Account /\ i.version \in Nat \ {0}
    BY <2>1, <2>2, ItemEffect DEF Item
  <2>4. CASE ~ Refused(i) /\ ~ Stale(i) /\ StoreItem(i)
    <3>1. ~ Refused(i) /\ ~ Stale(i)
      BY <2>4
    <3>2. projection[i.account] \in ProjectionRow \union {NoProjection}
      BY <2>3 DEF PullInv, PullTypeOK
    <3>3. projection[i.account].version \in Nat
      BY <3>2 DEF ProjectionRow, NoProjection
    <3>4. i.version > projection[i.account].version
      BY <2>3, <3>1, <3>3 DEF Refused, Stale, Found, HasRow, NoProjection
    <3> QED
      BY <2>3, <2>4, <3>4 DEF StoreItem
  <2> QED
    BY <2>1, <2>4 DEF ProcessItem, SkipItem, FailItem
<1>2. CASE UNCHANGED <<projection, newest>>
  BY <1>2
<1> QED
  BY <1>1, <1>2
  DEF PullNext, SyncStep, HcmStep, HcmChanges, HcmSends, StartPush, StartBatch, BatchStep,
      FinishBatch, SetCheckpoint, AbandonBatch, PullStep, AskHcm, HcmAnswers, StartPulled,
      PullFails, PullCrash, stored, history, pullVars

LEMMA RowsStayNewest ==
  ASSUME PullInv, RowsAreNewest, [PullNext]_pullVars
  PROVE  RowsAreNewest'
<1>1. CASE UNCHANGED <<projection, newest>>
  BY <1>1 DEF RowsAreNewest
<1>2. ASSUME NEW i \in Item,
             i.version > projection[i.account].version,
             projection' = [projection EXCEPT ![i.account] =
                             [location |-> i.location, version |-> i.version]],
             newest' = [newest EXCEPT ![i.account] = Latest(@, i.version)]
      PROVE  RowsAreNewest'
  <2>1. i.account \in Account /\ i.version \in Nat
    BY DEF Item
  <2>2. newest[i.account] \in Nat /\ newest[i.account] < i.version
    BY <1>2, <2>1 DEF RowsAreNewest, PullInv, PullTypeOK
  <2>3. Latest(newest[i.account], i.version) = i.version
    BY <2>1, <2>2 DEF Latest
  <2>4. newest \in [Account -> Nat] /\ DOMAIN projection = Account
    BY DEF PullInv, PullTypeOK
  <2>5. ASSUME NEW a \in Account PROVE newest'[a] = projection'[a].version
    <3>1. CASE a = i.account
      BY <1>2, <2>3, <2>4, <3>1
    <3>2. CASE a # i.account
      BY <1>2, <2>4, <3>2 DEF RowsAreNewest
    <3> QED
      BY <3>1, <3>2
  <2> QED
    BY <2>5 DEF RowsAreNewest
<1> QED
  BY <1>1, <1>2, RowsWritten

\* A COMPLETED batch is stored to its last item, with any number of batches that
\* overtake each other.
THEOREM CompletedBatchesAreStored == PullSpec => []CompletedIsStored
<1>1. PullInit => RowsAreNewest
  <2>1. ASSUME PullInit, NEW a \in Account
        PROVE  newest[a] = 0 /\ projection[a] = NoProjection
    BY <2>1 DEF PullInit
  <2>2. NoProjection.version = 0
    BY DEF NoProjection
  <2>3. PullInit => \A a \in Account : newest[a] = projection[a].version
    BY <2>1, <2>2
  <2> QED
    BY <2>3 DEF RowsAreNewest
<1>2. PullInv /\ RowsAreNewest /\ [PullNext]_pullVars => RowsAreNewest'
  BY RowsStayNewest
<1>3. PullInv /\ RowsAreNewest => CompletedIsStored
  <2> SUFFICES ASSUME PullInv, RowsAreNewest, NEW id \in BatchId,
                      record[id].status = "COMPLETED", NEW i \in record[id].items
               PROVE  projection[i.account].version >= i.version
    BY DEF CompletedIsStored
  <2>1. i \in Item
    BY DEF PullInv, PullTypeOK, NoRecord, BatchRecord
  <2> QED
    BY <2>1 DEF PullInv, CompletedWasStored, RowsAreNewest, Item
<1> QED
  BY <1>1, <1>2, <1>3, PullInvariant, PTL DEF PullSpec

\* No balance gets lost between the pulls, however many overlap and whenever the
\* process dies.
THEOREM PullsForgetNothing == PullSpec => []NothingForgotten
BY PullInvariant, PTL DEF PullInv

-----------------------------------------------------------------------------
(***************************************************************************)
(* Reconciliation runs: the rows of their pages, and that repairing with   *)
(* an old answer never undoes what PullInv says.                           *)
(***************************************************************************)

\* A run has an answer only about a row it still has to check, and the rows of a
\* page are there.
JobInv ==
  /\ page \in [Job -> SUBSET Account]
  /\ seen \in [Job -> (Nat \ {0}) \union {NULL}]
  /\ \A j \in Job : /\ seen[j] # NULL => page[j] # {}
                    /\ \A a \in page[j] : HasRow(a)

CursorInv == PullInv /\ JobInv

\* Rows are never deleted.
RowsStay == \A a \in Account : HasRow(a) => HasRow(a)'

-----------------------------------------------------------------------------

\* By the well-foundedness of strict inclusion on the sets 1 .. a.
LEMMA LeastOfPage ==
  ASSUME NEW S \in SUBSET Nat, S # {}
  PROVE  Min(S) \in S
<1> DEFINE T == { 1 .. i : i \in S }
           R == StrictSubsetOrdering(Nat)
<1>1. T \subseteq FiniteSubsetsOf(Nat)
  <2>1. \A i \in S : IsFiniteSet(1 .. i) /\ 1 .. i \in SUBSET Nat
    BY FS_Interval
  <2> QED
    BY <2>1 DEF FiniteSubsetsOf
<1>2. T # {}
  OBVIOUS
<1>3. IsWellFoundedOn(R, FiniteSubsetsOf(Nat))
  BY FS_StrictSubsetOrderingWellFounded
<1>4. \E x \in T : \A y \in T : ~ (<<y, x>> \in R)
  <2> HIDE DEF T, R
  <2> QED
    BY <1>1, <1>2, <1>3, WFMin
<1>5. PICK i \in S : \A j \in S : ~ (<<1 .. j, 1 .. i>> \in R)
  BY <1>4
<1>6. ASSUME NEW j \in S, j < i
      PROVE  FALSE
  <2>1. 1 .. j \subseteq 1 .. i /\ i \in 1 .. i /\ i \notin 1 .. j
    BY <1>6
  <2>2. 1 .. j \in SUBSET Nat /\ 1 .. i \in SUBSET Nat
    OBVIOUS
  <2>3. 1 .. j # 1 .. i
    BY <2>1
  <2> QED
    BY <1>5, <2>1, <2>2, <2>3 DEF StrictSubsetOrdering
<1>7. \A j \in S : i <= j
  BY <1>6
<1> QED
  BY <1>7 DEF Min

LEMMA InitCursor == CursorInit => CursorInv
BY InitPull, BatchIdAssumption DEF CursorInit, CursorInv, JobInv

\* What PullSync does next to the jobs takes no row away.
LEMMA SyncRowsStay ==
  ASSUME PullInv, PullNext \/ UNCHANGED pullVars
  PROVE  RowsStay
<1>1. CASE UNCHANGED projection
  BY <1>1 DEF RowsStay, HasRow
<1>2. CASE \E i \in batch.todo : ProcessItem(i)
  <2>1. PICK i \in batch.todo : ProcessItem(i)
    BY <1>2
  <2>2. CASE UNCHANGED projection
    BY <2>2, <1>1
  <2>3. CASE StoreItem(i)
    <3>1. [location |-> i.location, version |-> i.version] # NoProjection
      <4>1. "location" \in DOMAIN [location |-> i.location, version |-> i.version]
        OBVIOUS
      <4> QED
        BY <4>1 DEF NoProjection
    <3>2. projection' = [projection EXCEPT ![i.account] =
                           [location |-> i.location, version |-> i.version]]
      BY <2>3 DEF StoreItem
    <3> QED
      BY <3>1, <3>2 DEF RowsStay, HasRow, PullInv, PullTypeOK
  <2> QED
    BY <2>1, <2>2, <2>3 DEF ProcessItem, FailItem, SkipItem
<1> QED
  BY <1>1, <1>2
  DEF PullNext, SyncStep, HcmStep, HcmChanges, HcmSends, StartPush, StartBatch, BatchStep,
      FinishBatch, SetCheckpoint, AbandonBatch, PullStep, AskHcm, HcmAnswers, StartPulled,
      PullFails, PullCrash, stored, pullVars

\* A step of PullSync beside the jobs.
LEMMA BesideJobs ==
  ASSUME CursorInv, PullNext \/ UNCHANGED pullVars, UNCHANGED cursorVars
  PROVE  CursorInv'
<1>1. PullInv'
  BY NextPull DEF CursorInv
<1>2. RowsStay
  BY SyncRowsStay DEF CursorInv
<1>3. UNCHANGED <<page, seen>>
  BY DEF cursorVars
<1> QED
  BY <1>1, <1>2, <1>3 DEF CursorInv, JobInv, RowsStay

\* A step of a job that writes nothing.
LEMMA PullUntouched ==
  ASSUME PullInv, UNCHANGED pullVars
  PROVE  PullInv' /\ RowsStay
BY NextPull, SyncRowsStay

LEMMA CurrentInPage ==
  ASSUME JobInv, NEW j \in Job, page[j] # {}
  PROVE  Current(j) \in page[j] /\ Current(j) \in Account
<1>1. page[j] \in SUBSET Account
  BY DEF JobInv
<1>2. page[j] \in SUBSET Nat
  BY <1>1, AccountOrderAssumption
<1> QED
  BY <1>1, <1>2, LeastOfPage DEF Current

LEMMA MoveOnInv ==
  ASSUME JobInv, RowsStay, NEW j \in Job, MoveOn(j)
  PROVE  JobInv'
<1> DEFINE rest == page[j] \ {Current(j)}
<1>1. page' = [page EXCEPT ![j] = rest] /\ seen' = [seen EXCEPT ![j] = NULL]
  BY DEF MoveOn
<1>2. rest \subseteq page[j]
  OBVIOUS
<1> HIDE DEF rest
<1> QED
  BY <1>1, <1>2 DEF JobInv, RowsStay

LEMMA RepairInv ==
  ASSUME PullInv, NEW a \in Account, HasRow(a), NEW v \in Nat \ {0}, Repair(a, v),
         UNCHANGED <<hcmSide, record, checkpoint, memory, failed>>
  PROVE  PullInv' /\ RowsStay
<1> USE DEF Repair, hcmSide, memory
<1>1. projection[a] \in ProjectionRow
  BY DEF PullInv, PullTypeOK, HasRow
<1> DEFINE row == [projection[a] EXCEPT !.version = v]
<1>2. row \in ProjectionRow /\ row.version = v
  BY <1>1 DEF ProjectionRow
<1>3. row # NoProjection
  <2>1. "location" \in DOMAIN row
    BY <1>2 DEF ProjectionRow
  <2> QED
    BY <2>1 DEF NoProjection
<1>4. projection' = [projection EXCEPT ![a] = row]
  OBVIOUS
<1> HIDE DEF row
<1> DEFINE latest == Latest(newest[a], v)
<1>5. newest[a] \in Nat /\ latest \in Nat /\ latest >= newest[a] /\ latest >= v
  BY DEF PullInv, PullTypeOK, Latest
<1>6. newest' = [newest EXCEPT ![a] = latest]
  OBVIOUS
<1> HIDE DEF latest
<1>7. PullTypeOK'
  <2>1. projection' \in [Account -> ProjectionRow \union {NoProjection}]
    BY <1>2, <1>4 DEF PullInv, PullTypeOK
  <2>2. newest' \in [Account -> Nat]
    BY <1>5, <1>6 DEF PullInv, PullTypeOK
  <2> QED
    BY <2>1, <2>2 DEF PullInv, PullTypeOK
<1>8. Grows /\ Ages
  BY <1>5, <1>6 DEF Grows, Ages, PullInv, PullTypeOK
<1>9. NewestIsNewest'
  BY <1>2, <1>4, <1>5, <1>6 DEF NewestIsNewest, PullInv, PullTypeOK
<1>10. BatchAccounts'
  <2> SUFFICES ASSUME batch # NoBatch, record[batch.id].status = "PROCESSING",
                      NEW i \in record[batch.id].items
               PROVE  i \in batch.todo \/ i \in batch.failed \/ newest'[i.account] >= i.version
    BY DEF BatchAccounts, NoBatch
  <2>1. i \in Item
    BY BatchType DEF PullInv, BatchRecord, NoRecord
  <2>2. i \in batch.todo \/ i \in batch.failed \/ newest[i.account] >= i.version
    BY DEF PullInv, BatchAccounts
  <2>3. i.account \in Account /\ i.version \in Nat
    BY <2>1 DEF Item
  <2>4. /\ newest[i.account] \in Nat /\ newest'[i.account] \in Nat
        /\ newest'[i.account] >= newest[i.account]
    BY <1>7, <1>8, <2>3 DEF Grows, PullInv, PullTypeOK
  <2> QED
    BY <2>2, <2>3, <2>4
<1>11. RowsStay
  BY <1>3, <1>4 DEF RowsStay, HasRow, PullInv, PullTypeOK
<1> QED
  BY <1>7, <1>8, <1>9, <1>10, <1>11, StillPulls, StillBatch, StillKept, StillStored
  DEF PullInv

LEMMA JobStepInv ==
  ASSUME CursorInv, NEW j \in Job, JobStep(j)
  PROVE  CursorInv'
<1>1. PullInv /\ JobInv
  BY DEF CursorInv
<1>2. CASE StartJob(j)
  <2>1. PullInv' /\ RowsStay
    BY <1>1, <1>2, PullUntouched DEF StartJob
  <2>2. /\ page' = [page EXCEPT ![j] = NextPage(cursor)]
        /\ UNCHANGED seen
        /\ page[j] = {}
    BY <1>2 DEF StartJob
  <2>3. NextPage(cursor) \subseteq { a \in Account : HasRow(a) }
    BY DEF NextPage
  <2>4. JobInv'
    BY <1>1, <2>1, <2>2, <2>3 DEF JobInv, RowsStay
  <2> QED
    BY <2>1, <2>4 DEF CursorInv
<1>3. CASE HcmTells(j)
  <2>1. PullInv' /\ RowsStay
    BY <1>1, <1>3, PullUntouched DEF HcmTells
  <2>2. page[j] # {} /\ hcm[Current(j)] > 0
    BY <1>3 DEF HcmTells
  <2>3. hcm[Current(j)] \in Nat \ {0}
    BY <1>1, <2>2, CurrentInPage DEF PullInv, PullTypeOK
  <2>4. seen' = [seen EXCEPT ![j] = hcm[Current(j)]] /\ UNCHANGED page
    BY <1>3 DEF HcmTells
  <2>5. JobInv'
    BY <1>1, <2>1, <2>2, <2>3, <2>4 DEF JobInv, RowsStay
  <2> QED
    BY <2>1, <2>5 DEF CursorInv
<1>4. CASE ReconcileOne(j)
  <2>1. seen[j] \in Nat \ {0} /\ page[j] # {}
    BY <1>1, <1>4 DEF ReconcileOne, JobInv
  <2>2. Current(j) \in Account /\ HasRow(Current(j))
    BY <1>1, <2>1, CurrentInPage DEF JobInv
  <2>3. UNCHANGED <<hcmSide, record, checkpoint, memory, failed>> /\ MoveOn(j)
    BY <1>4 DEF ReconcileOne
  <2>4. CASE Repair(Current(j), seen[j])
    <3>1. PullInv' /\ RowsStay
      BY <1>1, <2>1, <2>2, <2>3, <2>4, RepairInv
    <3> QED
      BY <1>1, <2>3, <3>1, MoveOnInv DEF CursorInv
  <2>5. CASE UNCHANGED <<projection, newest>>
    <3>1. UNCHANGED pullVars
      BY <2>3, <2>5 DEF pullVars, stored, history
    <3> QED
      BY <1>1, <2>3, <3>1, PullUntouched, MoveOnInv DEF CursorInv
  <2> QED
    BY <1>4, <2>4, <2>5 DEF ReconcileOne
<1>5. CASE ReconcileFails(j)
  BY <1>1, <1>5, PullUntouched, MoveOnInv DEF ReconcileFails, CursorInv
<1> QED
  BY <1>2, <1>3, <1>4, <1>5 DEF JobStep

LEMMA NextCursor == CursorInv /\ [CursorNext]_jobVars => CursorInv'
<1> SUFFICES ASSUME CursorInv, [CursorNext]_jobVars PROVE CursorInv'
  OBVIOUS
<1>1. CASE SyncStep /\ UNCHANGED cursorVars
  BY <1>1, BesideJobs DEF PullNext
<1>2. CASE \E j \in Job : JobStep(j)
  BY <1>2, JobStepInv
<1>3. CASE Crash
  <2>1. PullInv'
    BY <1>3, PullCrashInv DEF Crash, CursorInv
  <2>2. JobInv'
    BY <1>3 DEF Crash, JobInv
  <2> QED
    BY <2>1, <2>2 DEF CursorInv
<1>4. CASE UNCHANGED jobVars
  BY <1>4, BesideJobs DEF jobVars
<1> QED
  BY <1>1, <1>2, <1>3, <1>4 DEF CursorNext

LEMMA CursorInvariant == CursorSpec => []CursorInv
BY InitCursor, NextCursor, PTL DEF CursorSpec

-----------------------------------------------------------------------------

\* No repair, not even one with an old answer, makes the checkpoint pass what was
\* never stored here.
THEOREM JobsForgetNothing == CursorSpec => []NothingForgotten
BY CursorInvariant, PTL DEF CursorInv, PullInv

\* Of all the steps that write rows, only a repair takes one back, and then to the
\* answer its run was given: what batches stored, batches never undo.
THEOREM BatchesNeverGoBack == CursorSpec => OnlyRepairsGoBack
<1> DEFINE Answered(a) == \E j \in Job : /\ seen[j] # NULL /\ Current(j) = a
                                        /\ projection'[a].version = seen[j]
<1>1. ASSUME CursorInv, [CursorNext]_jobVars, NEW a \in Account, HasRow(a)
      PROVE  projection'[a].version >= projection[a].version \/ Answered(a)
  <2>1. PullInv /\ projection[a].version \in Nat
    BY <1>1 DEF CursorInv, PullInv, PullTypeOK, HasRow, ProjectionRow
  <2>2. CASE UNCHANGED projection
    BY <2>1, <2>2
  <2>3. CASE PullNext
    <3>1. ASSUME NEW i \in Item,
                 i.version > projection[i.account].version,
                 projection' = [projection EXCEPT ![i.account] =
                                 [location |-> i.location, version |-> i.version]]
          PROVE  projection'[a].version >= projection[a].version
      <4>1. i.account \in Account /\ i.version \in Nat /\ DOMAIN projection = Account
        BY <2>1 DEF Item, PullInv, PullTypeOK
      <4>2. CASE a = i.account
        BY <2>1, <3>1, <4>1, <4>2
      <4>3. CASE a # i.account
        BY <2>1, <3>1, <4>1, <4>3
      <4> QED
        BY <4>2, <4>3
    <3> QED
      BY <2>1, <2>2, <2>3, <3>1, RowsWritten
  <2>4. ASSUME NEW j \in Job, ReconcileOne(j)
        PROVE  projection'[a].version >= projection[a].version \/ Answered(a)
    <3>1. CASE Repair(Current(j), seen[j])
      <4>1. seen[j] # NULL /\ DOMAIN projection = Account
        BY <2>1, <2>4 DEF ReconcileOne, PullInv, PullTypeOK
      <4>2. projection' = [projection EXCEPT ![Current(j)].version = seen[j]]
        BY <3>1 DEF Repair
      <4>3. CASE a = Current(j)
        <5>1. projection[a] \in ProjectionRow
          BY <1>1, <2>1 DEF PullInv, PullTypeOK, HasRow
        <5>2. projection'[a].version = seen[j]
          BY <4>1, <4>2, <4>3, <5>1 DEF ProjectionRow
        <5> QED
          BY <4>1, <4>3, <5>2
      <4>4. CASE a # Current(j)
        BY <2>1, <4>1, <4>2, <4>4
      <4> QED
        BY <4>3, <4>4
    <3> QED
      BY <2>2, <2>4, <3>1 DEF ReconcileOne
  <2> HIDE DEF Answered
  <2> QED
    BY <1>1, <2>2, <2>3, <2>4
    DEF CursorNext, JobStep, StartJob, HcmTells, ReconcileFails, Crash, PullNext, jobVars,
        pullVars, stored
<1>2. CursorInv /\ [CursorNext]_jobVars =>
        [\A a \in Account : HasRow(a) =>
           \/ projection'[a].version >= projection[a].version
           \/ \E j \in Job : /\ seen[j] # NULL /\ Current(j) = a
                              /\ projection'[a].version = seen[j]]_jobVars
  BY <1>1
<1> QED
  BY <1>2, CursorInvariant, PTL DEF CursorSpec, OnlyRepairsGoBack

-----------------------------------------------------------------------------
(***************************************************************************)
(* The cursor.                                                             *)
(***************************************************************************)

\* A page is cut after BatchSize rows: its rows differ in how many selected rows
\* are before them, and that is a number below BatchSize.
LEMMA PageSize ==
  ASSUME NEW P \in SUBSET Account, NEW rows \in SUBSET Account,
         P = { a \in rows : Cardinality({ b \in rows : b < a }) < BatchSize }
  PROVE  IsFiniteSet(P) /\ Cardinality(P) <= BatchSize
<1> DEFINE Before(a) == { b \in rows : b < a }
           rank == [a \in P |-> Cardinality(Before(a))]
<1>1. rows \in SUBSET Nat
  <2>1. Account \subseteq Nat
    BY AccountOrderAssumption
  <2> QED
    BY <2>1
<1>2. ASSUME NEW a \in rows
      PROVE  IsFiniteSet(Before(a)) /\ Cardinality(Before(a)) \in Nat
  <2>1. a \in Nat /\ \A b \in rows : b \in Nat
    BY <1>1
  <2>2. Before(a) \in SUBSET Nat /\ \A b \in Before(a) : b <= a
    <3>1. \A b \in Before(a) : b \in Nat /\ b < a
      BY <2>1
    <3> HIDE DEF Before
    <3>2. \A b \in Before(a) : b <= a
      BY <2>1, <3>1
    <3> QED
      BY <3>1, <3>2
  <2>3. IsFiniteSet(Before(a))
    <3> HIDE DEF Before
    <3> QED
      BY <2>1, <2>2, FS_BoundedSetOfNaturals
  <2> QED
    BY <2>3, FS_CardinalityType
<1>3. ASSUME NEW a \in rows, NEW b \in rows, a < b
      PROVE  Cardinality(Before(a)) < Cardinality(Before(b))
  <2>1. Before(a) \subseteq Before(b) /\ a \in Before(b) /\ a \notin Before(a)
    <3>1. \A c \in rows : c \in Nat
      BY <1>1
    <3> QED
      BY <1>3, <3>1
  <2>2. /\ Cardinality(Before(a)) <= Cardinality(Before(b))
        /\ Cardinality(Before(b)) # Cardinality(Before(a))
    <3> HIDE DEF Before
    <3> QED
      BY <1>2, <2>1, FS_Subset
  <2> QED
    BY <1>2, <2>2
<1>4. rank \in Injection(P, 0 .. BatchSize - 1)
  <2>1. \A a \in P : rank[a] \in 0 .. BatchSize - 1
    <3>1. \A a \in P : a \in rows /\ Cardinality(Before(a)) < BatchSize
      OBVIOUS
    <3> HIDE DEF Before
    <3> QED
      BY <1>2, <3>1, BatchSizeAssumption
  <2>2. \A a, b \in P : rank[a] = rank[b] => a = b
    <3>1. \A a \in P : a \in rows /\ a \in Nat /\ Cardinality(Before(a)) \in Nat
      BY <1>1, <1>2
    <3> HIDE DEF Before
    <3> QED
      BY <1>3, <3>1
  <2> HIDE DEF Before
  <2> QED
    BY <2>1, <2>2 DEF Injection, IsInjective
<1>5. IsFiniteSet(0 .. BatchSize - 1) /\ Cardinality(0 .. BatchSize - 1) = BatchSize
  BY FS_Interval, BatchSizeAssumption
<1> HIDE DEF rank
<1> QED
  BY <1>4, <1>5, FS_Injection

\* What CursorTypeOK says beyond JobInv.
PagesAreCut ==
  /\ cursor \in {0} \union { EmployeeOf[a] : a \in Account }
  /\ \A j \in Job : IsFiniteSet(page[j]) /\ Cardinality(page[j]) <= BatchSize

\* A page only gets shorter, and the cursor is at a row that was checked.
LEMMA MoveOnCut ==
  ASSUME JobInv, PagesAreCut, NEW j \in Job, page[j] # {}, MoveOn(j)
  PROVE  PagesAreCut'
<1> DEFINE rest == page[j] \ {Current(j)}
<1>1. page' = [page EXCEPT ![j] = rest] /\ cursor' = EmployeeOf[Current(j)]
  BY DEF MoveOn
<1>2. IsFiniteSet(rest) /\ Cardinality(rest) <= BatchSize
  <2>1. rest \in SUBSET page[j] /\ IsFiniteSet(page[j])
    BY DEF PagesAreCut
  <2>2. /\ IsFiniteSet(rest) /\ Cardinality(rest) <= Cardinality(page[j])
        /\ Cardinality(rest) \in Nat /\ Cardinality(page[j]) \in Nat
    <3> HIDE DEF rest
    <3> QED
      BY <2>1, FS_Subset, FS_CardinalityType
  <2> QED
    BY <2>2, BatchSizeAssumption DEF PagesAreCut
<1>3. Current(j) \in Account
  BY CurrentInPage
<1> HIDE DEF rest
<1> QED
  BY <1>1, <1>2, <1>3 DEF PagesAreCut, JobInv

\* However many runs overlap and wherever they push the cursor, it is at a row's
\* employee, and no page is longer than RECONCILIATION_BATCH_SIZE.
THEOREM CursorTypeCorrect == CursorSpec => []CursorTypeOK
<1>1. CursorInit => PagesAreCut
  BY FS_EmptySet, BatchSizeAssumption DEF CursorInit, PagesAreCut
<1>2. CursorInv /\ PagesAreCut /\ [CursorNext]_jobVars => PagesAreCut'
  <2> SUFFICES ASSUME CursorInv, PagesAreCut, [CursorNext]_jobVars PROVE PagesAreCut'
    OBVIOUS
  <2>1. JobInv
    BY DEF CursorInv
  <2>2. CASE UNCHANGED <<cursor, page>>
    BY <2>2 DEF PagesAreCut
  <2>3. ASSUME NEW j \in Job, StartJob(j)
        PROVE  PagesAreCut'
    <3> DEFINE rows == { a \in Account : HasRow(a) /\ EmployeeOf[a] > cursor }
    <3>1. IsFiniteSet(NextPage(cursor)) /\ Cardinality(NextPage(cursor)) <= BatchSize
      <4>1. /\ rows \in SUBSET Account /\ NextPage(cursor) \in SUBSET Account
            /\ NextPage(cursor) =
                 { a \in rows : Cardinality({ b \in rows : b < a }) < BatchSize }
        BY DEF NextPage
      <4> HIDE DEF rows
      <4> QED
        BY <4>1, PageSize
    <3>2. /\ page' = [page EXCEPT ![j] = NextPage(cursor)]
          /\ cursor' \in {0, cursor}
      BY <2>3 DEF StartJob
    <3> QED
      BY <2>1, <3>1, <3>2 DEF PagesAreCut, JobInv
  <2>4. ASSUME NEW j \in Job, ReconcileOne(j) \/ ReconcileFails(j)
        PROVE  PagesAreCut'
    <3>1. page[j] # {} /\ MoveOn(j)
      BY <2>1, <2>4 DEF ReconcileOne, ReconcileFails, JobInv
    <3> QED
      BY <2>1, <3>1, MoveOnCut
  <2>5. CASE Crash
    BY <2>5, FS_EmptySet, BatchSizeAssumption DEF Crash, PagesAreCut
  <2> QED
    BY <2>2, <2>3, <2>4, <2>5
       DEF CursorNext, JobStep, HcmTells, cursorVars, jobVars
<1>3. CursorInv /\ PagesAreCut => CursorTypeOK
  BY DEF CursorInv, JobInv, PagesAreCut, CursorTypeOK
<1> QED
  BY <1>1, <1>2, <1>3, CursorInvariant, PTL DEF CursorSpec
=============================================================================
