---------------------- MODULE ReliableTaskStoreProofs ----------------------
(***************************************************************************)
(* Proofs about ReliableTaskStore, for any set of rows, requests and keys. *)
(***************************************************************************)
EXTENDS ReliableTaskStore, SequenceTheorems, TLAPS

LEMMA NoRowType == NoRow \in Row
<1>1. NoRequest \in Requests \cup {NoRequest}
  OBVIOUS
<1> QED
  BY <1>1 DEF NoRow, Row, Statuses, Errors

LEMMA CreatedType ==
    ASSUME NEW req \in Requests, NEW at \in Nat
    PROVE  Created(req, at) \in Row
BY NoRowType DEF Created, Row, Statuses, Active, Errors

LEMMA WrittenTypes ==
    ASSUME NEW r \in Row, NEW n \in Nat, NEW b \in BOOLEAN
    PROVE  /\ Claimed(r) \in Row
           /\ CanceledInQueue(r) \in Row
           /\ CancelAsked(r) \in Row
           /\ [r EXCEPT !.progress = n] \in Row
           /\ Succeeded(r, n) \in Row
           /\ Failed(r, b) \in Row
           /\ Canceled(r) \in Row
           /\ Retried(r, n) \in Row
           /\ Recovered(r) \in Row
<1> USE DEF Row, Statuses, Active, Terminal, Errors
<1>1. Claimed(r) \in Row
  <2>1. r.claims + 1 \in Nat
    OBVIOUS
  <2> QED
    BY <2>1 DEF Claimed
<1>2. CanceledInQueue(r) \in Row
  BY DEF CanceledInQueue
<1>3. CancelAsked(r) \in Row
  BY DEF CancelAsked
<1>4. [r EXCEPT !.progress = n] \in Row
  OBVIOUS
<1>5. Succeeded(r, n) \in Row
  BY DEF Succeeded
<1>6. Failed(r, b) \in Row
  BY DEF Failed
<1>7. Canceled(r) \in Row
  BY DEF Canceled
<1>8. Retried(r, n) \in Row
  <2>1. r.attempt + 1 \in Nat
    OBVIOUS
  <2> QED
    BY <2>1 DEF Retried
<1>9. Recovered(r) \in Row
  <2>1. CASE r.status = "running"
    <3>1. (r.attempt < MaxAttempts) \in BOOLEAN
      OBVIOUS
    <3> QED
      BY <2>1, <3>1 DEF Recovered
  <2>2. CASE r.status = "canceling"
    BY <2>2 DEF Recovered
  <2>3. CASE r.status \notin {"running", "canceling"}
    BY <2>3 DEF Recovered
  <2> QED
    BY <2>1, <2>2, <2>3
<1> QED
  BY <1>1, <1>2, <1>3, <1>4, <1>5, <1>6, <1>7, <1>8, <1>9

\* The status each of them writes; only a creation and a retry move the queue
\* position of a task.
LEMMA WrittenFields ==
    ASSUME NEW r \in Row, NEW n \in Nat, NEW b \in BOOLEAN
    PROVE  /\ Claimed(r).status = "running" /\ Claimed(r).avail = r.avail
           /\ CanceledInQueue(r).status = "canceled" /\ CanceledInQueue(r).avail = r.avail
           /\ CancelAsked(r).status = "canceling" /\ CancelAsked(r).avail = r.avail
           /\ [r EXCEPT !.progress = n].status = r.status
           /\ [r EXCEPT !.progress = n].avail = r.avail
           /\ Succeeded(r, n).status = "succeeded" /\ Succeeded(r, n).avail = r.avail
           /\ Failed(r, b).status = "failed" /\ Failed(r, b).avail = r.avail
           /\ Canceled(r).status = "canceled" /\ Canceled(r).avail = r.avail
<1> USE DEF Row
<1>1. Claimed(r).status = "running" /\ Claimed(r).avail = r.avail
  BY DEF Claimed
<1>2. CanceledInQueue(r).status = "canceled" /\ CanceledInQueue(r).avail = r.avail
  BY DEF CanceledInQueue
<1>3. CancelAsked(r).status = "canceling" /\ CancelAsked(r).avail = r.avail
  BY DEF CancelAsked
<1>4. /\ [r EXCEPT !.progress = n].status = r.status
      /\ [r EXCEPT !.progress = n].avail = r.avail
  OBVIOUS
<1>5. Succeeded(r, n).status = "succeeded" /\ Succeeded(r, n).avail = r.avail
  BY DEF Succeeded
<1>6. Failed(r, b).status = "failed" /\ Failed(r, b).avail = r.avail
  BY DEF Failed
<1>7. Canceled(r).status = "canceled" /\ Canceled(r).avail = r.avail
  BY DEF Canceled
<1> QED
  BY <1>1, <1>2, <1>3, <1>4, <1>5, <1>6, <1>7

----------------------------------------------------------------------------
(***************************************************************************)
(* The inductive invariant.  RowInv gathers what RowLoads,                 *)
(* NewestClaimWrites and CleanAttempt say of one row: none of the three is *)
(* inductive alone.  That a claim starts without progress is CleanAttempt, *)
(* that a worker which passes ClaimHeld holds the newest token is          *)
(* NewestClaimWrites, and that its token is not 0 is RowLoads.             *)
(***************************************************************************)

RowInv(r) ==
    /\ r.attempt <= MaxAttempts
    /\ (r.claim # 0) <=> (r.status \in {"running", "canceling"})
    /\ r.status = "canceling" => r.cancelReq
    /\ r.completed <=> (r.status \in Terminal)
    /\ r.status = "failed" => r.error # "none"
    /\ r.claim \in {0, r.claims}
    /\ r.progress \in {0, r.claims}
    /\ r.result \in {0, r.claims}
    /\ (r.result # 0) <=> (r.status = "succeeded")
    /\ r.status \in {"queued", "running"} =>
          r.error = "none" /\ r.result = 0 /\ r.retryable /\ ~r.cancelReq
    /\ r.status = "queued" => r.progress = 0

RowsInv == \A t \in TaskIds : RowInv(tasks[t])

LEMMA RowInvSplits == RowsInv <=> RowLoads /\ NewestClaimWrites /\ CleanAttempt
BY DEF RowsInv, RowInv, RowLoads, NewestClaimWrites, CleanAttempt

LEMMA NoRowInv == RowInv(NoRow)
BY StoreAssumption DEF RowInv, NoRow, Terminal

\* Each transaction, under the guard it has, writes a row that satisfies the
\* invariant if the old one did.
LEMMA CreatedInv ==
    ASSUME NEW req \in Requests, NEW at \in Nat
    PROVE  RowInv(Created(req, at))
BY NoRowType, StoreAssumption DEF Created, NoRow, RowInv, Terminal

LEMMA WrittenInv ==
    ASSUME NEW r \in Row, RowInv(r), NEW n \in Nat, NEW b \in BOOLEAN
    PROVE  /\ r.status = "queued" => RowInv(Claimed(r))
           /\ r.status = "queued" => RowInv(CanceledInQueue(r))
           /\ r.status = "running" => RowInv(CancelAsked(r))
           /\ r.status = "running" /\ r.claim = n =>
                 RowInv([r EXCEPT !.progress = n])
           /\ r.status \in {"running", "canceling"} /\ r.claim = n =>
                 RowInv(Succeeded(r, n))
           /\ r.status = "running" => RowInv(Failed(r, b))
           /\ r.status \in {"running", "canceling"} => RowInv(Canceled(r))
           /\ r.status \in {"failed", "canceled"} /\ r.attempt < MaxAttempts =>
                 RowInv(Retried(r, n))
           /\ RowInv(Recovered(r))
<1> USE DEF Row, RowInv, Terminal
<1>1. r.status = "queued" => RowInv(Claimed(r))
  BY DEF Claimed
<1>2. r.status = "queued" => RowInv(CanceledInQueue(r))
  BY DEF CanceledInQueue
<1>3. r.status = "running" => RowInv(CancelAsked(r))
  BY DEF CancelAsked
<1>4. r.status = "running" /\ r.claim = n => RowInv([r EXCEPT !.progress = n])
  OBVIOUS
<1>5. r.status \in {"running", "canceling"} /\ r.claim = n =>
         RowInv(Succeeded(r, n))
  BY DEF Succeeded
<1>6. r.status = "running" => RowInv(Failed(r, b))
  BY DEF Failed
<1>7. r.status \in {"running", "canceling"} => RowInv(Canceled(r))
  BY DEF Canceled
<1>8. r.status \in {"failed", "canceled"} /\ r.attempt < MaxAttempts =>
         RowInv(Retried(r, n))
  BY StoreAssumption DEF Retried
<1>9. RowInv(Recovered(r))
  <2>1. CASE r.status = "running"
    BY <2>1 DEF Recovered
  <2>2. CASE r.status = "canceling"
    BY <2>2 DEF Recovered
  <2>3. CASE r.status \notin {"running", "canceling"}
    BY <2>3 DEF Recovered
  <2> QED
    BY <2>1, <2>2, <2>3
<1> QED
  BY <1>1, <1>2, <1>3, <1>4, <1>5, <1>6, <1>7, <1>8, <1>9

----------------------------------------------------------------------------
(***************************************************************************)
(* Every transaction but the startup recovery rewrites one row.  Writes    *)
(* says what the invariant across rows needs to know of that: the request  *)
(* of a row never changes, and a row becomes active, or comes to exist,    *)
(* only when no other row owns its keys.                                   *)
(***************************************************************************)

Writes(t, r) ==
    /\ tasks' = [tasks EXCEPT ![t] = r]
    /\ r \in Row /\ RowInv(r) /\ r.status # "absent"
    /\ \/ r.req = tasks[t].req /\ tasks[t].status # "absent"
       \/ tasks[t].status = "absent" /\ IdemOwners(r.req) = {}
    /\ \/ r.req = tasks[t].req /\ (r.status \in Active => tasks[t].status \in Active)
       \/ r.req.active = NoKey
       \/ ActiveOwners(r.req.active, {t}) = {}

\* The steps under the lifecycle lock that are about an item, not about a task.
TrashStep == \/ \E r \in Resources :
                   RequireNoActiveTasks(r) \/ TrashResource(r) \/ RestoreResource(r)
             \/ AbandonDeletion

LEMMA TrashShape ==
    ASSUME TypeOK, TrashStep
    PROVE  /\ UNCHANGED <<tasks, events, clock>>
           /\ live' \subseteq Resources /\ deleting' \in Resources \cup {NoKey}
BY DEF TypeOK, TrashStep, RequireNoActiveTasks, TrashResource, RestoreResource, AbandonDeletion

\* Each action writes one row, or recovers all, or leaves the rows alone.
LEMMA StepShape ==
    ASSUME TypeOK, RowsInv, [Next]_storeVars
    PROVE  \/ \E t \in TaskIds : \E r \in Row : Writes(t, r)
           \/ tasks' = [t \in TaskIds |-> Recovered(tasks[t])]
           \/ UNCHANGED tasks
<1> USE DEF TypeOK, RowsInv
<1> DEFINE Goal == \/ \E t \in TaskIds : \E r \in Row : Writes(t, r)
                   \/ tasks' = [t \in TaskIds |-> Recovered(tasks[t])]
                   \/ UNCHANGED tasks
<1> SUFFICES Goal
  OBVIOUS
<1>1. ASSUME NEW t \in TaskIds, NEW req \in Requests, CreateTask(t, req)
      PROVE  Goal
  <2>1. clock + 1 \in Nat
    OBVIOUS
  <2>2. /\ Created(req, clock + 1) \in Row
        /\ RowInv(Created(req, clock + 1))
    BY <2>1, CreatedType, CreatedInv
  <2>3. /\ Created(req, clock + 1).status = "queued"
        /\ Created(req, clock + 1).req = req
    BY NoRowType DEF Created, Row
  <2>4. req.active # NoKey => ActiveOwners(req.active, {t}) = {}
    BY <1>1 DEF CreateTask, ActiveOwners
  <2>5. Writes(t, Created(req, clock + 1))
    BY <1>1, <2>2, <2>3, <2>4 DEF CreateTask, Exists, Writes
  <2> QED
    BY <2>2, <2>5
<1>2. ASSUME NEW t \in TaskIds, ClaimTask(t)
      PROVE  Goal
  <2>1. Claimed(tasks[t]) \in Row /\ RowInv(Claimed(tasks[t]))
    BY <1>2, WrittenTypes, WrittenInv DEF ClaimTask
  <2>2. Writes(t, Claimed(tasks[t]))
    BY <1>2, <2>1 DEF ClaimTask, Writes, Claimed, Row, Active
  <2> QED
    BY <2>1, <2>2
<1>3. ASSUME NEW t \in TaskIds, RequestTaskCancel(t)
      PROVE  Goal
  <2>1. CASE CancelQueued(t)
    <3>1. CanceledInQueue(tasks[t]) \in Row /\ RowInv(CanceledInQueue(tasks[t]))
      BY <2>1, WrittenTypes, WrittenInv DEF CancelQueued
    <3>2. Writes(t, CanceledInQueue(tasks[t]))
      BY <2>1, <3>1 DEF CancelQueued, Writes, CanceledInQueue, Row, Active
    <3> QED
      BY <3>1, <3>2
  <2>2. CASE CancelRunning(t)
    <3>1. CancelAsked(tasks[t]) \in Row /\ RowInv(CancelAsked(tasks[t]))
      BY <2>2, WrittenTypes, WrittenInv DEF CancelRunning
    <3>2. Writes(t, CancelAsked(tasks[t]))
      BY <2>2, <3>1 DEF CancelRunning, Writes, CancelAsked, Row, Active
    <3> QED
      BY <3>1, <3>2
  <2> QED
    BY <1>3, <2>1, <2>2 DEF RequestTaskCancel
<1>4. ASSUME NEW t \in TaskIds, RetryTask(t)
      PROVE  Goal
  <2>1. clock + 1 \in Nat
    OBVIOUS
  <2>2. /\ Retried(tasks[t], clock + 1) \in Row
        /\ RowInv(Retried(tasks[t], clock + 1))
    BY <1>4, <2>1, WrittenTypes, WrittenInv DEF RetryTask, MayRetry
  <2>3. /\ Retried(tasks[t], clock + 1).status = "queued"
        /\ Retried(tasks[t], clock + 1).req = tasks[t].req
    BY DEF Retried, Row
  <2>4. Writes(t, Retried(tasks[t], clock + 1))
    BY <1>4, <2>2, <2>3 DEF RetryTask, MayRetry, Writes
  <2> QED
    BY <2>2, <2>4
<1>5. ASSUME NEW t \in TaskIds, NEW token \in 1..tasks[t].claims,
             UpdateProgress(t, token)
      PROVE  Goal
  <2>1. token \in Nat
    BY DEF Row
  <2>2. /\ [tasks[t] EXCEPT !.progress = token] \in Row
        /\ RowInv([tasks[t] EXCEPT !.progress = token])
    BY <1>5, <2>1, WrittenTypes, WrittenInv DEF UpdateProgress, ClaimHeld
  <2>3. Writes(t, [tasks[t] EXCEPT !.progress = token])
    BY <1>5, <2>2 DEF UpdateProgress, ClaimHeld, Writes, Row, Active
  <2> QED
    BY <2>2, <2>3
<1>6. ASSUME NEW t \in TaskIds, NEW token \in 1..tasks[t].claims,
             SucceedTask(t, token)
      PROVE  Goal
  <2>1. token \in Nat
    BY DEF Row
  <2>2. /\ Succeeded(tasks[t], token) \in Row
        /\ RowInv(Succeeded(tasks[t], token))
    BY <1>6, <2>1, WrittenTypes, WrittenInv DEF SucceedTask, ClaimHeld
  <2>3. Writes(t, Succeeded(tasks[t], token))
    BY <1>6, <2>2 DEF SucceedTask, ClaimHeld, Writes, Succeeded, Row, Active
  <2> QED
    BY <2>2, <2>3
<1>7. ASSUME NEW t \in TaskIds, NEW token \in 1..tasks[t].claims,
             NEW retryable \in BOOLEAN, FailTask(t, token, retryable)
      PROVE  Goal
  <2>1. Failed(tasks[t], retryable) \in Row /\ RowInv(Failed(tasks[t], retryable))
    BY <1>7, WrittenTypes, WrittenInv DEF FailTask, ClaimHeld
  <2>2. Writes(t, Failed(tasks[t], retryable))
    BY <1>7, <2>1 DEF FailTask, ClaimHeld, Writes, Failed, Row, Active
  <2> QED
    BY <2>1, <2>2
<1>8. ASSUME NEW t \in TaskIds, NEW token \in 1..tasks[t].claims,
             MarkTaskCanceled(t, token)
      PROVE  Goal
  <2>1. Canceled(tasks[t]) \in Row /\ RowInv(Canceled(tasks[t]))
    BY <1>8, WrittenTypes, WrittenInv DEF MarkTaskCanceled, ClaimHeld
  <2>2. Writes(t, Canceled(tasks[t]))
    BY <1>8, <2>1 DEF MarkTaskCanceled, ClaimHeld, Writes, Canceled, Row, Active
  <2> QED
    BY <2>1, <2>2
<1>9. CASE RecoverInterruptedTasks
  BY <1>9 DEF RecoverInterruptedTasks
<1>10. CASE TrashStep
  BY <1>10, TrashShape
<1>11. CASE UNCHANGED storeVars
  BY <1>11 DEF storeVars
<1> HIDE DEF Goal, TypeOK, RowsInv
<1>12. CASE Next
  BY <1>12, <1>1, <1>2, <1>3, <1>4, <1>5, <1>6, <1>7, <1>8, <1>9, <1>10
     DEF Next, TrashStep
<1> QED
  BY <1>11, <1>12

----------------------------------------------------------------------------
\* The rows after a step: each is a row that satisfies the invariant.
LEMMA RowsStep ==
    ASSUME TypeOK, RowsInv, [Next]_storeVars
    PROVE  tasks' \in [TaskIds -> Row] /\ RowsInv'
<1>1. ASSUME NEW t \in TaskIds, NEW r \in Row, Writes(t, r)
      PROVE  tasks' \in [TaskIds -> Row] /\ RowsInv'
  BY <1>1 DEF Writes, TypeOK, RowsInv
<1>2. CASE tasks' = [t \in TaskIds |-> Recovered(tasks[t])]
  BY <1>2, WrittenTypes, WrittenInv DEF TypeOK, RowsInv
<1>3. CASE UNCHANGED tasks
  BY <1>3 DEF TypeOK, RowsInv
<1> QED
  BY <1>1, <1>2, <1>3, StepShape

\* One more entry in a stream of events makes a stream of events.
LEMMA LogType ==
    ASSUME TypeOK, NEW t \in TaskIds, NEW type \in EventTypes,
           NEW to \in Statuses, Log(t, type, to)
    PROVE  events' \in [TaskIds -> Seq(Event)]
<1>1. [type |-> type, from |-> tasks[t].status, to |-> to] \in Event
  BY DEF Event, TypeOK, Row
<1> QED
  BY <1>1 DEF TypeOK, Log

LEMMA StepTypeOK ==
    ASSUME TypeOK, RowsInv, [Next]_storeVars
    PROVE  TypeOK'
<1> USE DEF EventTypes, Statuses, Active, Terminal
<1> SUFFICES /\ events' \in [TaskIds -> Seq(Event)] /\ clock' \in Nat
             /\ live' \subseteq Resources /\ deleting' \in Resources \cup {NoKey}
  BY RowsStep DEF TypeOK
<1> DEFINE Goal == /\ events' \in [TaskIds -> Seq(Event)]
                   /\ clock' \in Nat
                   /\ live' \subseteq Resources /\ deleting' \in Resources \cup {NoKey}
<1> SUFFICES Goal
  OBVIOUS
<1>1. ASSUME NEW t \in TaskIds, NEW req \in Requests, CreateTask(t, req)
      PROVE  Goal
  BY <1>1, LogType DEF CreateTask, TypeOK
<1>2. ASSUME NEW t \in TaskIds, ClaimTask(t)
      PROVE  Goal
  BY <1>2, LogType DEF ClaimTask, TypeOK
<1>3. ASSUME NEW t \in TaskIds, RequestTaskCancel(t)
      PROVE  Goal
  BY <1>3, LogType DEF RequestTaskCancel, CancelQueued, CancelRunning, TypeOK
<1>4. ASSUME NEW t \in TaskIds, RetryTask(t)
      PROVE  Goal
  BY <1>4, LogType DEF RetryTask, TypeOK
<1>5. ASSUME NEW t \in TaskIds, NEW token \in 1..tasks[t].claims,
             \/ UpdateProgress(t, token)
             \/ SucceedTask(t, token)
             \/ \E retryable \in BOOLEAN : FailTask(t, token, retryable)
             \/ MarkTaskCanceled(t, token)
      PROVE  Goal
  BY <1>5, LogType
     DEF UpdateProgress, SucceedTask, FailTask, MarkTaskCanceled, TypeOK
<1>6. CASE RecoverInterruptedTasks
  <2>1. ASSUME NEW t \in TaskIds
        PROVE  RecoveredStream(t) \in Seq(Event)
    <3>1. /\ [type |-> "interrupted", from |-> "running", to |-> "failed"] \in Event
          /\ [type |-> "canceled", from |-> "canceling", to |-> "canceled"] \in Event
      BY DEF Event
    <3>2. events[t] \in Seq(Event)
      BY DEF TypeOK
    <3> QED
      BY <3>1, <3>2 DEF RecoveredStream
  <2> QED
    BY <1>6, <2>1 DEF RecoverInterruptedTasks, TypeOK
<1>7. CASE TrashStep
  BY <1>7, TrashShape DEF TypeOK
<1>8. CASE UNCHANGED storeVars
  BY <1>8 DEF storeVars, TypeOK
<1> HIDE DEF Goal
<1>9. CASE Next
  BY <1>9, <1>1, <1>2, <1>3, <1>4, <1>5, <1>6, <1>7 DEF Next, TrashStep
<1> QED
  BY <1>8, <1>9

----------------------------------------------------------------------------
\* A row that becomes active owns its active key alone.
LEMMA StepOneActive ==
    ASSUME TypeOK, RowsInv, OneActivePerKey, [Next]_storeVars
    PROVE  OneActivePerKey'
<1>1. ASSUME NEW t \in TaskIds, NEW r \in Row, Writes(t, r)
      PROVE  OneActivePerKey'
  BY <1>1 DEF Writes, TypeOK, OneActivePerKey, ActiveOwners
<1>2. CASE tasks' = [t \in TaskIds |-> Recovered(tasks[t])]
  <2>1. \A r \in Row : /\ Recovered(r).req = r.req
                       /\ Recovered(r).status \in Active => r.status \in Active
    BY DEF Recovered, Row, Active
  <2> QED
    BY <1>2, <2>1 DEF OneActivePerKey, TypeOK
<1>3. CASE UNCHANGED tasks
  BY <1>3 DEF OneActivePerKey
<1> QED
  BY <1>1, <1>2, <1>3, StepShape

\* A row comes to exist only under an unused idempotency key, and keeps it.
LEMMA StepOneTask ==
    ASSUME TypeOK, RowsInv, OneTaskPerIdemKey, [Next]_storeVars
    PROVE  OneTaskPerIdemKey'
<1>1. ASSUME NEW t \in TaskIds, NEW r \in Row, Writes(t, r)
      PROVE  OneTaskPerIdemKey'
  BY <1>1 DEF Writes, TypeOK, OneTaskPerIdemKey, IdemOwners, Exists
<1>2. CASE tasks' = [t \in TaskIds |-> Recovered(tasks[t])]
  <2>1. \A r \in Row : /\ Recovered(r).req = r.req
                       /\ Recovered(r).status # "absent" => r.status # "absent"
    BY DEF Recovered, Row
  <2> QED
    BY <1>2, <2>1 DEF OneTaskPerIdemKey, TypeOK, Exists
<1>3. CASE UNCHANGED tasks
  BY <1>3 DEF OneTaskPerIdemKey, Exists
<1> QED
  BY <1>1, <1>2, <1>3, StepShape

----------------------------------------------------------------------------

StoreInv == TypeOK /\ RowsInv /\ OneActivePerKey /\ OneTaskPerIdemKey

LEMMA InitInv == ASSUME Init PROVE StoreInv
<1>1. TypeOK
  BY NoRowType DEF Init, TypeOK
<1>2. RowsInv
  BY NoRowInv DEF Init, RowsInv
<1>3. NoRow.status = "absent"
  BY DEF NoRow
<1> QED
  BY <1>1, <1>2, <1>3
     DEF Init, StoreInv, OneActivePerKey, OneTaskPerIdemKey, Exists, Active

THEOREM Inductive == Spec => []StoreInv
<1>1. Init => StoreInv
  BY InitInv
<1>2. StoreInv /\ [Next]_storeVars => StoreInv'
  BY StepTypeOK, RowsStep, StepOneActive, StepOneTask DEF StoreInv
<1> QED
  BY <1>1, <1>2, PTL DEF Spec

\* Every row keeps to its columns' types.
THEOREM Typed == Spec => []TypeOK
BY Inductive, PTL DEF StoreInv

\* Every row the transactions write passes validate_state when it is read.
THEOREM RowsLoad == Spec => []RowLoads
<1>1. StoreInv => RowLoads
  BY RowInvSplits DEF StoreInv
<1> QED
  BY <1>1, Inductive, PTL

\* At most one active task per active key.
THEOREM ActiveKeysUnique == Spec => []OneActivePerKey
BY Inductive, PTL DEF StoreInv

\* At most one task per idempotency key, for ever.
THEOREM IdemKeysUnique == Spec => []OneTaskPerIdemKey
BY Inductive, PTL DEF StoreInv

\* Only the newest claim leaves progress or a result in a row.
THEOREM StaleClaimsFenced == Spec => []NewestClaimWrites
<1>1. StoreInv => NewestClaimWrites
  BY RowInvSplits DEF StoreInv
<1> QED
  BY <1>1, Inductive, PTL

\* An attempt starts clean.
THEOREM AttemptsClean == Spec => []CleanAttempt
<1>1. StoreInv => CleanAttempt
  BY RowInvSplits DEF StoreInv
<1> QED
  BY <1>1, Inductive, PTL

\* Every row stays readable, of its newest claim and clean, for any number of
\* tasks, requests, keys and attempts.
THEOREM RowsStaySound == Spec => []RowsSound
BY Typed, RowsLoad, StaleClaimsFenced, AttemptsClean, PTL DEF RowsSound

\* No active key and no idempotency key is ever doubled.
THEOREM KeysStayUnique == Spec => []KeysUnique
BY ActiveKeysUnique, IdemKeysUnique, PTL DEF KeysUnique

----------------------------------------------------------------------------
(***************************************************************************)
(* What one transaction does to a row, as far as its claims and its request *)
(* go.                                                                     *)
(***************************************************************************)

Moved(r, s) ==
    /\ s.claims >= r.claims
    /\ s.status = "running" => \/ r.status = "running" /\ s.claim = r.claim
                               \/ s.claim > r.claims
    /\ s.status = "canceling" => /\ r.status \in {"running", "canceling"}
                                 /\ s.claim = r.claim
    /\ s.status = "absent" => s = r
    /\ r.status # "absent" => s.req = r.req
    /\ r.status = "absent" /\ s.status # "absent" => s.req \in Requests

\* A row that does not exist is blank, one that does has its request.
BlankInv ==
    \A t \in TaskIds : IF Exists(t) THEN tasks[t].req \in Requests ELSE tasks[t] = NoRow

LEMMA WrittenMoves ==
    ASSUME NEW r \in Row, NEW n \in Nat, NEW b \in BOOLEAN
    PROVE  /\ Moved(r, r)
           /\ \A req \in Requests : Moved(NoRow, Created(req, n))
           /\ r.status = "queued" => Moved(r, Claimed(r))
           /\ r.status # "absent" => Moved(r, CanceledInQueue(r))
           /\ r.status = "running" => Moved(r, CancelAsked(r))
           /\ r.status = "running" => Moved(r, [r EXCEPT !.progress = n])
           /\ r.status # "absent" => /\ Moved(r, Succeeded(r, n))
                                     /\ Moved(r, Failed(r, b))
                                     /\ Moved(r, Canceled(r))
                                     /\ Moved(r, Retried(r, n))
           /\ Moved(r, Recovered(r))
<1> USE DEF Row, Moved
<1>1. Moved(r, r) /\ (r.status = "queued" => Moved(r, Claimed(r)))
  BY DEF Claimed
<1>2. \A req \in Requests : Moved(NoRow, Created(req, n))
  BY DEF Created, NoRow
<1>3. /\ r.status # "absent" => Moved(r, CanceledInQueue(r))
      /\ r.status = "running" => Moved(r, CancelAsked(r))
  BY DEF CanceledInQueue, CancelAsked
<1>4. r.status = "running" => Moved(r, [r EXCEPT !.progress = n])
  OBVIOUS
<1>5. r.status # "absent" =>
         Moved(r, Succeeded(r, n)) /\ Moved(r, Failed(r, b)) /\ Moved(r, Canceled(r))
  BY DEF Succeeded, Failed, Canceled
<1>6. r.status # "absent" => Moved(r, Retried(r, n))
  BY DEF Retried
<1>7. Moved(r, Recovered(r))
  <2>1. CASE r.status \in {"running", "canceling"}
    BY <2>1 DEF Recovered
  <2>2. CASE r.status \notin {"running", "canceling"}
    BY <2>2 DEF Recovered
  <2> QED
    BY <2>1, <2>2
<1> QED
  BY <1>1, <1>2, <1>3, <1>4, <1>5, <1>6, <1>7

\* Every row of a step moves.
LEMMA RowsMove ==
    ASSUME StoreInv, BlankInv, [Next]_storeVars
    PROVE  \A t \in TaskIds : Moved(tasks[t], tasks'[t])
<1> DEFINE Goal == \A t \in TaskIds : Moved(tasks[t], tasks'[t])
<1>0. /\ tasks \in [TaskIds -> Row] /\ clock + 1 \in Nat
      /\ \A t \in TaskIds : tasks[t] \in Row /\ Moved(tasks[t], tasks[t])
  BY DEF StoreInv, TypeOK, Moved, Row
<1>1. ASSUME NEW t \in TaskIds, NEW req \in Requests, CreateTask(t, req)
      PROVE  Goal
  BY <1>0, <1>1, WrittenMoves DEF CreateTask, BlankInv, NoRow
<1>2. ASSUME NEW t \in TaskIds, ClaimTask(t) \/ RequestTaskCancel(t) \/ RetryTask(t)
      PROVE  Goal
  <2>1. CASE ClaimTask(t)
    BY <1>0, <2>1, WrittenMoves DEF ClaimTask
  <2>2. CASE RequestTaskCancel(t)
    BY <1>0, <2>2, WrittenMoves DEF RequestTaskCancel, CancelQueued, CancelRunning
  <2>3. CASE RetryTask(t)
    BY <1>0, <2>3, WrittenMoves DEF RetryTask, MayRetry
  <2> QED
    BY <1>2, <2>1, <2>2, <2>3
<1>3. ASSUME NEW t \in TaskIds, NEW token \in 1..tasks[t].claims,
             \/ UpdateProgress(t, token)
             \/ SucceedTask(t, token)
             \/ \E retryable \in BOOLEAN : FailTask(t, token, retryable)
             \/ MarkTaskCanceled(t, token)
      PROVE  Goal
  <2>1. token \in Nat
    BY <1>0 DEF Row
  <2>2. tasks[t] \in Row
    BY <1>0
  <2>3. CASE UpdateProgress(t, token) \/ SucceedTask(t, token)
    BY <1>0, <2>1, <2>2, <2>3, WrittenMoves DEF UpdateProgress, SucceedTask, ClaimHeld
  <2>4. CASE (\E retryable \in BOOLEAN : FailTask(t, token, retryable))
             \/ MarkTaskCanceled(t, token)
    BY <1>0, <2>2, <2>4, WrittenMoves DEF FailTask, MarkTaskCanceled, ClaimHeld
  <2> QED
    BY <1>3, <2>3, <2>4
<1>4. ASSUME RecoverInterruptedTasks
      PROVE  Goal
  <2> SUFFICES ASSUME NEW t \in TaskIds PROVE Moved(tasks[t], tasks'[t])
    OBVIOUS
  <2>1. tasks[t] \in Row /\ tasks'[t] = Recovered(tasks[t])
    BY <1>0, <1>4 DEF RecoverInterruptedTasks
  <2>2. 0 \in Nat /\ TRUE \in BOOLEAN
    OBVIOUS
  <2> QED
    BY <2>1, <2>2, WrittenMoves
<1>5. ASSUME UNCHANGED tasks
      PROVE  Goal
  BY <1>0, <1>5
<1>6. ASSUME TrashStep
      PROVE  Goal
  BY <1>5, <1>6, TrashShape DEF StoreInv
<1> HIDE DEF Goal
<1> QED
  BY <1>1, <1>2, <1>3, <1>4, <1>5, <1>6 DEF Next, storeVars, TrashStep, Goal

LEMMA BlankStep ==
    ASSUME StoreInv, BlankInv, [Next]_storeVars
    PROVE  BlankInv'
BY RowsMove DEF BlankInv, Exists, Moved

LEMMA BlankInit == ASSUME Init PROVE BlankInv
BY DEF Init, BlankInv, Exists, NoRow

----------------------------------------------------------------------------
\* The event stream.

\* A stream from creation to the status it reached.
Connected(s) == /\ s[1].from = "absent"
             /\ \A i \in 1..Len(s) - 1 : s[i + 1].from = s[i].to

LEMMA AppendReplays ==
    ASSUME NEW s \in Seq(Event), NEW e \in Event,
           s = << >> => e.from = "absent",
           s # << >> => Connected(s) /\ e.from = s[Len(s)].to
    PROVE  LET u == Append(s, e)
           IN  u # << >> /\ Connected(u) /\ u[Len(u)].to = e.to
<1> DEFINE u == Append(s, e)
<1>1. /\ u # << >> /\ Len(u) = Len(s) + 1 /\ Len(s) \in Nat
      /\ u[Len(u)] = e
      /\ \A i \in 1..Len(s) : u[i] = s[i]
  BY AppendProperties
<1>2. u[1].from = "absent"
  <2>1. CASE s = << >>
    BY <2>1
  <2>2. CASE s # << >>
    BY <2>2, <1>1 DEF Connected
  <2> QED
    BY <2>1, <2>2
<1>3. ASSUME NEW i \in 1..Len(u) - 1
      PROVE  u[i + 1].from = u[i].to
  <2>1. CASE i = Len(s)
    BY <1>1, <1>3, <2>1
  <2>2. CASE i < Len(s)
    BY <1>1, <1>3, <2>2 DEF Connected
  <2> QED
    BY <1>1, <1>3, <2>1, <2>2
<1> QED
  BY <1>1, <1>2, <1>3 DEF Connected

\* A logged write keeps the stream of its row replaying to the row.
LEMMA LogReplays ==
    ASSUME TypeOK, StreamReplays, NEW t \in TaskIds, NEW r \in Row,
           NEW type \in EventTypes, Log(t, type, r.status),
           r.status # "absent", tasks' = [tasks EXCEPT ![t] = r]
    PROVE  StreamReplays'
<1> DEFINE e == [type |-> type, from |-> tasks[t].status, to |-> r.status]
<1>1. e \in Event /\ e.from = tasks[t].status /\ e.to = r.status
  BY DEF TypeOK, Row, Event
<1>2. events[t] \in Seq(Event) /\ events' = [events EXCEPT ![t] = Append(@, e)]
  BY DEF TypeOK, Log
<1>3. /\ events[t] = << >> => e.from = "absent"
      /\ events[t] # << >> => /\ Connected(events[t])
                              /\ e.from = events[t][Len(events[t])].to
  BY <1>1 DEF StreamReplays, Exists, Connected
<1>4. LET u == events'[t] IN u # << >> /\ Connected(u) /\ u[Len(u)].to = e.to
  BY <1>1, <1>2, <1>3, AppendReplays DEF TypeOK
<1>5. ASSUME NEW v \in TaskIds
      PROVE  LET u == events'[v] IN
             /\ u = << >> <=> tasks'[v].status = "absent"
             /\ u # << >> => Connected(u) /\ u[Len(u)].to = tasks'[v].status
  <2>1. CASE v = t
    BY <2>1, <1>1, <1>4 DEF TypeOK
  <2>2. CASE v # t
    BY <2>2, <1>2 DEF TypeOK, StreamReplays, Exists, Connected
  <2> QED
    BY <2>1, <2>2
<1> QED
  BY <1>5 DEF StreamReplays, Exists, Connected

LEMMA StepReplays ==
    ASSUME TypeOK, RowsInv, StreamReplays, [Next]_storeVars
    PROVE  StreamReplays'
<1> USE DEF EventTypes
<1> DEFINE Goal == StreamReplays'
<1> SUFFICES Goal
  OBVIOUS
<1>1. ASSUME NEW t \in TaskIds, NEW req \in Requests, CreateTask(t, req)
      PROVE  Goal
  <2>1. clock + 1 \in Nat
    BY DEF TypeOK
  <2>2. /\ Created(req, clock + 1) \in Row
        /\ Created(req, clock + 1).status = "queued"
    BY <2>1, CreatedType, NoRowType DEF Created, Row
  <2> QED
    BY <1>1, <2>2, LogReplays DEF CreateTask
<1>2. ASSUME NEW t \in TaskIds, ClaimTask(t)
      PROVE  Goal
  <2>1. tasks[t] \in Row
    BY DEF TypeOK
  <2>2. Claimed(tasks[t]) \in Row /\ Claimed(tasks[t]).status = "running"
    BY <2>1, WrittenTypes DEF Claimed, Row
  <2>3. tasks' = [tasks EXCEPT ![t] = Claimed(tasks[t])] /\ Log(t, "claimed", "running")
    BY <1>2 DEF ClaimTask
  <2> QED
    BY <2>2, <2>3, LogReplays
<1>3. ASSUME NEW t \in TaskIds, RequestTaskCancel(t)
      PROVE  Goal
  <2>1. tasks[t] \in Row
    BY DEF TypeOK
  <2>2. /\ CanceledInQueue(tasks[t]) \in Row /\ CancelAsked(tasks[t]) \in Row
        /\ CanceledInQueue(tasks[t]).status = "canceled"
        /\ CancelAsked(tasks[t]).status = "canceling"
    BY <2>1, WrittenTypes, ZenonT(60) DEF CanceledInQueue, CancelAsked, Row
  <2>3. CASE CancelQueued(t)
    BY <2>2, <2>3, LogReplays DEF CancelQueued
  <2>4. CASE CancelRunning(t)
    BY <2>2, <2>4, LogReplays DEF CancelRunning
  <2> QED
    BY <1>3, <2>3, <2>4 DEF RequestTaskCancel
<1>4. ASSUME NEW t \in TaskIds, RetryTask(t)
      PROVE  Goal
  <2>1. tasks[t] \in Row /\ clock + 1 \in Nat
    BY DEF TypeOK
  <2>2. \A n \in Nat : Retried(tasks[t], n) \in Row /\ Retried(tasks[t], n).status = "queued"
    BY <2>1, WrittenTypes DEF Retried, Row
  <2>3. /\ tasks' = [tasks EXCEPT ![t] = Retried(tasks[t], clock + 1)]
        /\ Log(t, "retry_queued", "queued")
    BY <1>4 DEF RetryTask
  <2> QED
    BY <2>1, <2>2, <2>3, LogReplays
<1>5. ASSUME NEW t \in TaskIds, NEW token \in 1..tasks[t].claims,
             \/ UpdateProgress(t, token)
             \/ SucceedTask(t, token)
             \/ \E retryable \in BOOLEAN : FailTask(t, token, retryable)
             \/ MarkTaskCanceled(t, token)
      PROVE  Goal
  <2>1. tasks[t] \in Row /\ token \in Nat
    BY DEF TypeOK, Row
  <2>2. CASE UpdateProgress(t, token)
    <3>1. /\ [tasks[t] EXCEPT !.progress = token] \in Row
          /\ [tasks[t] EXCEPT !.progress = token].status = "running"
      BY <2>1, <2>2, WrittenTypes DEF UpdateProgress, ClaimHeld, Row
    <3>2. /\ tasks' = [tasks EXCEPT ![t] = [tasks[t] EXCEPT !.progress = token]]
          /\ Log(t, "progress_updated", "running")
      BY <2>2 DEF UpdateProgress
    <3> QED
      BY <3>1, <3>2, LogReplays
  <2>3. CASE SucceedTask(t, token)
    <3>1. /\ Succeeded(tasks[t], token) \in Row
          /\ Succeeded(tasks[t], token).status = "succeeded"
      BY <2>1, WrittenTypes, WrittenFields
    <3>2. /\ tasks' = [tasks EXCEPT ![t] = Succeeded(tasks[t], token)]
          /\ Log(t, "succeeded", "succeeded")
      BY <2>3 DEF SucceedTask
    <3> QED
      BY <3>1, <3>2, LogReplays
  <2>4. ASSUME NEW retryable \in BOOLEAN, FailTask(t, token, retryable)
        PROVE  Goal
    <3>1. /\ Failed(tasks[t], retryable) \in Row
          /\ Failed(tasks[t], retryable).status = "failed"
      BY <2>1, WrittenTypes, WrittenFields, ZenonT(60)
    <3>2. /\ tasks' = [tasks EXCEPT ![t] = Failed(tasks[t], retryable)]
          /\ Log(t, "failed", "failed")
      BY <2>4 DEF FailTask
    <3> QED
      BY <3>1, <3>2, LogReplays
  <2>5. CASE MarkTaskCanceled(t, token)
    <3>1. Canceled(tasks[t]) \in Row /\ Canceled(tasks[t]).status = "canceled"
      BY <2>1, WrittenTypes, WrittenFields
    <3>2. /\ tasks' = [tasks EXCEPT ![t] = Canceled(tasks[t])]
          /\ Log(t, "canceled", "canceled")
      BY <2>5 DEF MarkTaskCanceled
    <3> QED
      BY <3>1, <3>2, LogReplays
  <2> QED
    BY <1>5, <2>2, <2>3, <2>4, <2>5
<1>6. CASE RecoverInterruptedTasks
  <2>1. ASSUME NEW t \in TaskIds
        PROVE  LET u == events'[t] IN
               /\ u = << >> <=> tasks'[t].status = "absent"
               /\ u # << >> => Connected(u) /\ u[Len(u)].to = tasks'[t].status
    <3> DEFINE failed   == [type |-> "interrupted", from |-> "running", to |-> "failed"]
               canceled == [type |-> "canceled", from |-> "canceling", to |-> "canceled"]
    <3>1. failed \in Event /\ canceled \in Event
      BY DEF Event, Statuses, Active, Terminal
    <3>2. /\ tasks[t] \in Row /\ events[t] \in Seq(Event)
          /\ tasks'[t] = Recovered(tasks[t]) /\ events'[t] = RecoveredStream(t)
      BY <1>6 DEF RecoverInterruptedTasks, TypeOK
    <3>3. /\ events[t] = << >> <=> tasks[t].status = "absent"
          /\ events[t] # << >> => /\ Connected(events[t])
                                  /\ events[t][Len(events[t])].to = tasks[t].status
      BY DEF StreamReplays, Exists, Connected
    <3>4. CASE tasks[t].status = "running"
      <4>1. events'[t] = Append(events[t], failed) /\ tasks'[t].status = "failed"
        BY <3>2, <3>4 DEF Recovered, RecoveredStream, Row
      <4>2. events[t] # << >> /\ failed.from = "running" /\ failed.to = "failed"
        BY <3>3, <3>4
      <4> HIDE DEF failed
      <4> QED
        BY <3>1, <3>2, <3>3, <3>4, <4>1, <4>2, AppendReplays
    <3>5. CASE tasks[t].status = "canceling"
      <4>1. events'[t] = Append(events[t], canceled) /\ tasks'[t].status = "canceled"
        BY <3>2, <3>5 DEF Recovered, RecoveredStream, Row
      <4>2. events[t] # << >> /\ canceled.from = "canceling" /\ canceled.to = "canceled"
        BY <3>3, <3>5
      <4> HIDE DEF canceled
      <4> QED
        BY <3>1, <3>2, <3>3, <3>5, <4>1, <4>2, AppendReplays
    <3>6. CASE tasks[t].status \notin {"running", "canceling"}
      BY <3>2, <3>3, <3>6 DEF Recovered, RecoveredStream
    <3> QED
      BY <3>4, <3>5, <3>6
  <2> QED
    BY <2>1 DEF StreamReplays, Exists, Connected
<1>7. CASE TrashStep
  BY <1>7, TrashShape DEF StreamReplays, Exists
<1>8. CASE UNCHANGED storeVars
  BY <1>8 DEF storeVars, StreamReplays, Exists
<1> HIDE DEF Goal
<1>9. CASE Next
  BY <1>9, <1>1, <1>2, <1>3, <1>4, <1>5, <1>6, <1>7 DEF Next, TrashStep
<1> QED
  BY <1>8, <1>9

\* The append-only stream of a task replays to its row, through every retry,
\* cancellation and recovery.
THEOREM StreamsReplay == Spec => []StreamReplays
<1>1. Init => StreamReplays
  <2>1. NoRow.status = "absent"
    BY DEF NoRow
  <2> QED
    BY <2>1 DEF Init, StreamReplays, Exists
<1>2. StoreInv /\ StreamReplays /\ [Next]_storeVars => StreamReplays'
  BY StepReplays DEF StoreInv
<1> QED
  BY <1>1, <1>2, Inductive, PTL DEF Spec

----------------------------------------------------------------------------
\* Action properties.

LEMMA AppendKeeps ==
    ASSUME NEW s \in Seq(Event), NEW e \in Event
    PROVE  /\ Len(Append(s, e)) >= Len(s)
           /\ SubSeq(Append(s, e), 1, Len(s)) = s
<1>1. /\ Append(s, e) \in Seq(Event) /\ Len(Append(s, e)) = Len(s) + 1
      /\ \A i \in 1..Len(s) : Append(s, e)[i] = s[i]
  BY AppendProperties
<1>2. Len(s) \in Nat
  OBVIOUS
<1>3. \A i \in 1..Len(s) : Append(s, e)[i] \in Event
  BY <1>1, <1>2
<1>4. /\ SubSeq(Append(s, e), 1, Len(s)) \in Seq(Event)
      /\ Len(SubSeq(Append(s, e), 1, Len(s))) = Len(s)
      /\ \A i \in 1..Len(s) : SubSeq(Append(s, e), 1, Len(s))[i] = Append(s, e)[i]
  BY <1>2, <1>3, SubSeqProperties
<1>5. SubSeq(Append(s, e), 1, Len(s)) = s
  BY <1>1, <1>4, SeqEqual
<1> QED
  BY <1>1, <1>2, <1>5

LEMMA SelfKeeps ==
    ASSUME NEW s \in Seq(Event)
    PROVE  Len(s) >= Len(s) /\ SubSeq(s, 1, Len(s)) = s
BY SubSeqFull

\* A row that is final, and a stream that was written, stay as they are.
Kept(t) == /\ \/ tasks[t].status = "succeeded"
              \/ tasks[t].status = "failed" /\ ~tasks[t].retryable
              => tasks'[t] = tasks[t]
           /\ Len(events'[t]) >= Len(events[t])
           /\ SubSeq(events'[t], 1, Len(events[t])) = events[t]

\* A logged write to a row that is not final keeps all rows.
LEMMA LogKeeps ==
    ASSUME TypeOK, NEW t \in TaskIds, NEW r \in Row, NEW type \in EventTypes,
           Log(t, type, r.status), tasks' = [tasks EXCEPT ![t] = r],
           tasks[t].status # "succeeded",
           tasks[t].status = "failed" => tasks[t].retryable
    PROVE  \A v \in TaskIds : Kept(v)
<1> DEFINE e == [type |-> type, from |-> tasks[t].status, to |-> r.status]
<1>1. e \in Event
  BY DEF TypeOK, Row, Event
<1>2. events' = [events EXCEPT ![t] = Append(@, e)]
  BY DEF Log
<1> SUFFICES ASSUME NEW v \in TaskIds PROVE Kept(v)
  OBVIOUS
<1>3. events[v] \in Seq(Event)
  BY DEF TypeOK
<1>4. CASE v = t
  BY <1>1, <1>2, <1>3, <1>4, AppendKeeps DEF TypeOK, Kept
<1>5. CASE v # t
  BY <1>2, <1>3, <1>5, SelfKeeps DEF TypeOK, Kept
<1> QED
  BY <1>4, <1>5

LEMMA StepKeeps ==
    ASSUME TypeOK, [Next]_storeVars
    PROVE  \A v \in TaskIds : Kept(v)
<1> USE DEF EventTypes
<1> DEFINE Goal == \A v \in TaskIds : Kept(v)
<1> SUFFICES Goal
  OBVIOUS
<1>0. ASSUME NEW t \in TaskIds
      PROVE  tasks[t] \in Row /\ events[t] \in Seq(Event) /\ clock + 1 \in Nat
  BY DEF TypeOK
<1>1. ASSUME NEW t \in TaskIds, NEW req \in Requests, CreateTask(t, req)
      PROVE  Goal
  <2>1. \A n \in Nat : Created(req, n) \in Row /\ Created(req, n).status = "queued"
    BY CreatedType, NoRowType DEF Created, Row
  <2> QED
    BY <1>0, <1>1, <2>1, LogKeeps DEF CreateTask, Exists
<1>2. ASSUME NEW t \in TaskIds, ClaimTask(t)
      PROVE  Goal
  <2>1. Claimed(tasks[t]) \in Row /\ Claimed(tasks[t]).status = "running"
    BY <1>0, WrittenTypes, WrittenFields
  <2>2. tasks' = [tasks EXCEPT ![t] = Claimed(tasks[t])] /\ Log(t, "claimed", "running")
    BY <1>2 DEF ClaimTask
  <2> QED
    BY <1>2, <2>1, <2>2, LogKeeps DEF ClaimTask
<1>3. ASSUME NEW t \in TaskIds, RequestTaskCancel(t)
      PROVE  Goal
  <2>1. /\ CanceledInQueue(tasks[t]) \in Row /\ CancelAsked(tasks[t]) \in Row
        /\ CanceledInQueue(tasks[t]).status = "canceled"
        /\ CancelAsked(tasks[t]).status = "canceling"
    BY <1>0, WrittenTypes, WrittenFields
  <2> QED
    BY <1>3, <2>1, LogKeeps DEF RequestTaskCancel, CancelQueued, CancelRunning
<1>4. ASSUME NEW t \in TaskIds, RetryTask(t)
      PROVE  Goal
  <2>0. tasks[t] \in Row
    BY <1>0
  <2>1. \A n \in Nat : Retried(tasks[t], n) \in Row /\ Retried(tasks[t], n).status = "queued"
    BY <2>0, WrittenTypes DEF Retried, Row
  <2>2. /\ tasks' = [tasks EXCEPT ![t] = Retried(tasks[t], clock + 1)]
        /\ Log(t, "retry_queued", "queued")
    BY <1>4 DEF RetryTask
  <2> QED
    BY <1>0, <1>4, <2>1, <2>2, LogKeeps DEF RetryTask, MayRetry
<1>5. ASSUME NEW t \in TaskIds, NEW token \in 1..tasks[t].claims
      PROVE  /\ UpdateProgress(t, token) => Goal
             /\ SucceedTask(t, token) => Goal
             /\ \A retryable \in BOOLEAN : FailTask(t, token, retryable) => Goal
             /\ MarkTaskCanceled(t, token) => Goal
  <2>0. 0 \in Nat /\ TRUE \in BOOLEAN
    OBVIOUS
  <2>1. tasks[t] \in Row /\ token \in Nat
    BY <1>0, <1>5 DEF Row
  <2>2. /\ [tasks[t] EXCEPT !.progress = token] \in Row
        /\ [tasks[t] EXCEPT !.progress = token].status = tasks[t].status
        /\ Succeeded(tasks[t], token) \in Row
        /\ Succeeded(tasks[t], token).status = "succeeded"
        /\ Canceled(tasks[t]) \in Row /\ Canceled(tasks[t]).status = "canceled"
    BY <2>0, <2>1, WrittenTypes, WrittenFields, ZenonT(60)
  <2>3. \A b \in BOOLEAN : Failed(tasks[t], b) \in Row /\ Failed(tasks[t], b).status = "failed"
    BY <2>0, <2>1, WrittenTypes, WrittenFields, ZenonT(60)
  <2>4. ASSUME UpdateProgress(t, token) PROVE Goal
    <3>1. /\ tasks' = [tasks EXCEPT ![t] = [tasks[t] EXCEPT !.progress = token]]
          /\ tasks[t].status = "running" /\ Log(t, "progress_updated", "running")
      BY <2>4 DEF UpdateProgress, ClaimHeld
    <3> QED
      BY <2>2, <3>1, LogKeeps
  <2>5. ASSUME SucceedTask(t, token) PROVE Goal
    <3>1. /\ tasks' = [tasks EXCEPT ![t] = Succeeded(tasks[t], token)]
          /\ tasks[t].status \in {"running", "canceling"}
          /\ Log(t, "succeeded", "succeeded")
      BY <2>5 DEF SucceedTask, ClaimHeld
    <3> QED
      BY <2>2, <3>1, LogKeeps
  <2>6. ASSUME NEW b \in BOOLEAN, FailTask(t, token, b) PROVE Goal
    <3>1. /\ tasks' = [tasks EXCEPT ![t] = Failed(tasks[t], b)]
          /\ tasks[t].status = "running" /\ Log(t, "failed", "failed")
      BY <2>6 DEF FailTask, ClaimHeld
    <3> QED
      BY <2>3, <3>1, LogKeeps
  <2>7. ASSUME MarkTaskCanceled(t, token) PROVE Goal
    <3>1. /\ tasks' = [tasks EXCEPT ![t] = Canceled(tasks[t])]
          /\ tasks[t].status \in {"running", "canceling"}
          /\ Log(t, "canceled", "canceled")
      BY <2>7 DEF MarkTaskCanceled, ClaimHeld
    <3> QED
      BY <2>2, <3>1, LogKeeps
  <2> QED
    BY <2>4, <2>5, <2>6, <2>7
<1>6. CASE RecoverInterruptedTasks
  <2> SUFFICES ASSUME NEW t \in TaskIds PROVE Kept(t)
    OBVIOUS
  <2>1. /\ tasks'[t] = Recovered(tasks[t]) /\ events'[t] = RecoveredStream(t)
    BY <1>6 DEF RecoverInterruptedTasks
  <2>2. /\ [type |-> "interrupted", from |-> "running", to |-> "failed"] \in Event
        /\ [type |-> "canceled", from |-> "canceling", to |-> "canceled"] \in Event
    BY DEF Event, Statuses, Active, Terminal
  <2>3. CASE tasks[t].status \in {"running", "canceling"}
    BY <1>0, <2>1, <2>2, <2>3, AppendKeeps DEF Kept, RecoveredStream
  <2>4. CASE tasks[t].status \notin {"running", "canceling"}
    BY <1>0, <2>1, <2>4, SelfKeeps DEF Kept, Recovered, RecoveredStream
  <2> QED
    BY <2>3, <2>4
<1>7. CASE TrashStep
  BY <1>0, <1>7, TrashShape, SelfKeeps DEF Kept
<1>8. CASE UNCHANGED storeVars
  BY <1>0, <1>8, SelfKeeps DEF storeVars, Kept
<1> HIDE DEF Goal
<1>9. CASE Next
  BY <1>9, <1>1, <1>2, <1>3, <1>4, <1>5, <1>6, <1>7 DEF Next, TrashStep
<1> QED
  BY <1>8, <1>9

\* What ended for good never changes, and no event is rewritten.
THEOREM EndsAreFinal == Spec => EndIsFinal
<1>1. StoreInv /\ [Next]_storeVars =>
        [\A t \in TaskIds :
          /\ \/ tasks[t].status = "succeeded"
             \/ tasks[t].status = "failed" /\ ~tasks[t].retryable
             => tasks'[t] = tasks[t]
          /\ Len(events'[t]) >= Len(events[t])
          /\ SubSeq(events'[t], 1, Len(events[t])) = events[t]]_storeVars
  BY StepKeeps DEF StoreInv, Kept
<1> QED
  BY <1>1, Inductive, PTL DEF Spec, EndIsFinal

\* While an item is on its way to Trash, none of its tasks is active; and an
\* attempt after the first has its item.
SparesInv == /\ deleting # NoKey => SparesTasks(deleting)
             /\ \A t \in TaskIds :
                   tasks[t].status \in Active /\ tasks[t].attempt > 1
                      => tasks[t].req.resource \in live

\* A row keeps its request, attempt and end.
Stays(old, new) == /\ new.req = old.req /\ new.attempt = old.attempt
                   /\ new.status \in Active => old.status \in Active

LEMMA WrittenStays ==
    ASSUME NEW r \in Row
    PROVE  /\ r.status = "queued" =>
                 Stays(r, Claimed(r)) /\ Stays(r, CanceledInQueue(r))
           /\ r.status \in {"running", "canceling"} =>
                 /\ Stays(r, CancelAsked(r)) /\ Stays(r, Canceled(r))
                 /\ \A token : /\ Stays(r, [r EXCEPT !.progress = token])
                              /\ Stays(r, Succeeded(r, token))
                 /\ \A retryable : Stays(r, Failed(r, retryable))
BY DEF Row, Stays, Active, Claimed, CanceledInQueue, CancelAsked, Canceled, Succeeded, Failed

\* Only creation and retry, behind the lock, make a task active.
LEMMA TasksStay ==
    ASSUME TypeOK, Next
    PROVE  \/ \E t \in TaskIds, req \in Requests : CreateTask(t, req)
           \/ \E t \in TaskIds : RetryTask(t)
           \/ TrashStep
           \/ /\ \A t \in TaskIds : Stays(tasks[t], tasks'[t])
              /\ live' = live /\ deleting' \in {deleting, NoKey}
<1> DEFINE Goal == /\ \A t \in TaskIds : Stays(tasks[t], tasks'[t])
                   /\ live' = live /\ deleting' \in {deleting, NoKey}
<1>0. /\ tasks \in [TaskIds -> Row]
      /\ \A t \in TaskIds : Stays(tasks[t], tasks[t])
  BY DEF TypeOK, Stays
<1>1. ASSUME NEW t \in TaskIds, ClaimTask(t) \/ RequestTaskCancel(t)
      PROVE  Goal
  <2>1. ASSUME ClaimTask(t) PROVE Goal
    BY <1>0, <2>1, WrittenStays DEF ClaimTask
  <2>2. ASSUME CancelQueued(t) PROVE Goal
    BY <1>0, <2>2, WrittenStays DEF CancelQueued
  <2>3. ASSUME CancelRunning(t) PROVE Goal
    BY <1>0, <2>3, WrittenStays DEF CancelRunning
  <2> QED
    BY <1>1, <2>1, <2>2, <2>3 DEF RequestTaskCancel
<1>2. ASSUME NEW t \in TaskIds, NEW token \in 1..tasks[t].claims,
             \/ UpdateProgress(t, token)
             \/ SucceedTask(t, token)
             \/ \E retryable \in BOOLEAN : FailTask(t, token, retryable)
             \/ MarkTaskCanceled(t, token)
      PROVE  Goal
  <2>1. ASSUME UpdateProgress(t, token) PROVE Goal
    BY <1>0, <2>1, WrittenStays DEF UpdateProgress, ClaimHeld
  <2>2. ASSUME SucceedTask(t, token) PROVE Goal
    BY <1>0, <2>2, WrittenStays DEF SucceedTask, ClaimHeld
  <2>3. ASSUME NEW retryable \in BOOLEAN, FailTask(t, token, retryable)
        PROVE  Goal
    BY <1>0, <2>3, WrittenStays DEF FailTask, ClaimHeld
  <2>4. ASSUME MarkTaskCanceled(t, token) PROVE Goal
    BY <1>0, <2>4, WrittenStays DEF MarkTaskCanceled, ClaimHeld
  <2> HIDE DEF Goal
  <2> QED
    BY <1>2, <2>1, <2>2, <2>3, <2>4
<1>3. ASSUME RecoverInterruptedTasks
      PROVE  Goal
  <2>1. \A t \in TaskIds : Stays(tasks[t], Recovered(tasks[t]))
    BY <1>0 DEF Recovered, Stays, Row, Active
  <2> QED
    BY <1>3, <2>1 DEF RecoverInterruptedTasks
<1> HIDE DEF Goal
<1>4. \/ \E t \in TaskIds, req \in Requests : CreateTask(t, req)
      \/ \E t \in TaskIds : RetryTask(t)
      \/ TrashStep
      \/ Goal
  BY <1>1, <1>2, <1>3 DEF Next, TrashStep
<1> QED
  BY <1>4 DEF Goal

LEMMA SparesStep ==
    ASSUME TypeOK, SparesInv, [Next]_storeVars
    PROVE  /\ SparesInv'
           /\ \A t \in TaskIds :
                 tasks[t].status \in Active /\ tasks[t].req.resource \in live
                    => tasks'[t].req.resource \in live'
<1> DEFINE Goal ==
      /\ SparesInv'
      /\ \A t \in TaskIds :
            tasks[t].status \in Active /\ tasks[t].req.resource \in live
               => tasks'[t].req.resource \in live'
<1>0. tasks \in [TaskIds -> Row] /\ NoKey \notin Resources /\ deleting \in Resources \cup {NoKey}
  BY StoreAssumption DEF TypeOK
<1>1. ASSUME NEW t \in TaskIds, NEW req \in Requests, CreateTask(t, req)
      PROVE  Goal
  <2>1. /\ deleting' = NoKey /\ live' = live /\ tasks[t].status \notin Active
        /\ \A u \in TaskIds : \/ tasks'[u] = tasks[u]
                              \/ u = t /\ tasks'[u].attempt = 1
    BY <1>0, <1>1 DEF CreateTask, LockFree, Exists, Created, NoRow, Active
  <2> QED
    BY <2>1 DEF SparesInv
<1>2. ASSUME NEW t \in TaskIds, RetryTask(t)
      PROVE  Goal
  <2>1. /\ deleting' = NoKey /\ live' = live /\ tasks[t].req.resource \in live
        /\ \A u \in TaskIds : /\ tasks'[u].req = tasks[u].req
                              /\ tasks'[u] = tasks[u] \/ u = t
    BY <1>0, <1>2 DEF RetryTask, MayRetry, LockFree, Retried, Row
  <2> QED
    BY <2>1 DEF SparesInv
<1>3. ASSUME TrashStep
      PROVE  Goal
  <2>1. tasks' = tasks
    BY <1>3, TrashShape
  <2>2. ASSUME NEW r \in Resources, RequireNoActiveTasks(r)
        PROVE  Goal
    BY <2>1, <2>2 DEF RequireNoActiveTasks, SparesInv, SparesTasks
  <2>3. ASSUME NEW r \in Resources, TrashResource(r)
        PROVE  Goal
    <3>1. /\ \A t \in TaskIds : tasks[t].req.resource = r => tasks[t].status \notin Active
          /\ live' = live \ {r} /\ deleting' = NoKey
      BY <1>0, <2>3 DEF TrashResource, SparesInv, SparesTasks
    <3> QED
      BY <2>1, <3>1 DEF SparesInv
  <2>4. ASSUME NEW r \in Resources, RestoreResource(r)
        PROVE  Goal
    BY <2>1, <2>4 DEF RestoreResource, LockFree, SparesInv
  <2>5. ASSUME AbandonDeletion
        PROVE  Goal
    BY <2>1, <2>5 DEF AbandonDeletion, SparesInv
  <2> HIDE DEF Goal
  <2> QED
    BY <1>3, <2>2, <2>3, <2>4, <2>5 DEF TrashStep
<1>4. ASSUME \A t \in TaskIds : Stays(tasks[t], tasks'[t]),
             live' = live, deleting' \in {deleting, NoKey}
      PROVE  Goal
  <2>1. \A t \in TaskIds : /\ tasks'[t].req = tasks[t].req
                           /\ tasks'[t].attempt = tasks[t].attempt
                           /\ tasks'[t].status \in Active => tasks[t].status \in Active
    BY <1>4 DEF Stays
  <2>2. deleting' # NoKey => SparesTasks(deleting)'
    BY <1>4, <2>1 DEF SparesInv, SparesTasks
  <2> QED
    BY <1>4, <2>1, <2>2 DEF SparesInv
<1>5. ASSUME UNCHANGED storeVars
      PROVE  Goal
  BY <1>5 DEF storeVars, SparesInv, SparesTasks
<1> HIDE DEF Goal
<1>6. ASSUME Next
      PROVE  Goal
  BY <1>1, <1>2, <1>3, <1>4, <1>6, TasksStay
<1>7. Goal
  BY <1>5, <1>6
<1> QED
  BY <1>7 DEF Goal

\* No item goes to Trash under an active task, although the check and the soft
\* delete are two transactions; and no task is retried without its item.
THEOREM TrashSpares == Spec => TrashSparesActive
<1>1. Init => SparesInv
  BY DEF Init, SparesInv, NoRow, Active
<1>2. StoreInv /\ SparesInv /\ [Next]_storeVars => SparesInv'
  BY SparesStep DEF StoreInv
<1>3. SparesInv => \A t \in TaskIds :
                      tasks[t].status \in Active /\ tasks[t].attempt > 1
                         => tasks[t].req.resource \in live
  BY DEF SparesInv
<1>4. StoreInv /\ SparesInv /\ [Next]_storeVars =>
        [\A t \in TaskIds :
          /\ tasks[t].status \in Active
          /\ tasks[t].req.resource \in live
          => tasks'[t].req.resource \in live']_storeVars
  BY SparesStep DEF StoreInv
<1> QED
  BY <1>1, <1>2, <1>3, <1>4, Inductive, PTL DEF Spec, TrashSparesActive
=============================================================================
