--------------------- MODULE ReliableTaskManagerProofs ---------------------
(***************************************************************************)
(* Proofs about ReliableTaskManager, for any number of tasks, threads,     *)
(* permits, process starts and failing database calls.                     *)
(***************************************************************************)
EXTENDS ReliableTaskManager, ReliableTaskStoreProofs, FiniteSetTheorems

----------------------------------------------------------------------------
(***************************************************************************)
(* The inductive invariant.                                                *)
(***************************************************************************)

\* A thread that took a claim and has not yet let go of it.
Working(w) == pc[w] \notin {"idle", "claim", "done", "release"}

\* A thread that has a future of this process in its hands.
Hand(w) == w \notin stale /\ pc[w] \notin {"idle", "release"}

\* Threads hold tokens that were issued for their job, each its own; and a
\* thread on its way out of a claim (settle, cancel) has not a running row.
ThreadsInv ==
    /\ \A w \in Workers :
         /\ pc[w] # "idle" => job[w] \in TaskIds
         /\ pc[w] \in {"idle", "claim", "release"} => token[w] = 0
         /\ Working(w) => token[w] \in 1..tasks[job[w]].claims
         /\ pc[w] = "release" => w \notin stale
         /\ pc[w] \in {"settle", "cancel"} => ~Held(w, {"running"})
    /\ \A v, w \in Workers :
         Working(v) /\ Working(w) /\ job[v] = job[w] /\ token[v] = token[w] => v = w

\* A scheduled task waits in the pool at one place, or is in one hand.
QueueInv ==
    /\ \A i, k \in DOMAIN pool : pool[i] = pool[k] => i = k
    /\ \A v, w \in Workers : Hand(v) /\ Hand(w) /\ job[v] = job[w] => v = w
    /\ \A i \in DOMAIN pool : \A w \in Workers : Hand(w) => pool[i] # job[w]
    /\ \A t \in TaskIds : t \in scheduled <=> \/ \E i \in DOMAIN pool : pool[i] = t
                                              \/ \E w \in Workers : Hand(w) /\ job[w] = t
    /\ dpc = "submit" => dlist # << >>

Releasing == { w \in Workers : pc[w] = "release" }

\* Nothing has to be assumed finite: processes start with nothing.
CountsInv ==
    /\ IsFiniteSet(Busy) /\ IsFiniteSet(scheduled)
    /\ IsFiniteSet({ t \in TaskIds : Exists(t) })
    /\ PermitsAccounted

\* Once the queued rows are canceled no row is queued again, and once quiesce
\* has its answer nothing is scheduled again.
QuiesceInv ==
    /\ qpc # "none" => mode \in {"quiescing", "closed"}
    /\ qpc \in {"scheduled", "quiesced", "timeout"} =>
          \A t \in TaskIds : tasks[t].status # "queued"
    /\ qpc = "quiesced" => scheduled = {}

\* The rows RunningIsOwned counts.
Orphans == { t \in TaskIds : tasks[t].status \in {"running", "canceling"} /\ ~Owned(t) }

OrphansInv == mode # "down" => IsFiniteSet(Orphans) /\ Cardinality(Orphans) <= faults

\* No two rows were queued at the same tick.
AvailInv ==
    /\ \A t \in TaskIds : tasks[t].avail <= clock
    /\ \A t, u \in TaskIds :
         Exists(t) /\ Exists(u) /\ tasks[t].avail = tasks[u].avail => t = u

MInv == /\ StoreInv /\ BlankInv /\ AvailInv /\ MTypeOK /\ ThreadsInv
        /\ QueueInv /\ CountsInv /\ QuiesceInv /\ OrphansInv

----------------------------------------------------------------------------
(***************************************************************************)
(* What the manager's proofs need of a transaction of the store.           *)
(***************************************************************************)

\* At most one row comes to exist in a step.
LEMMA OneAppears ==
    ASSUME StoreInv, [Next]_storeVars
    PROVE  \E u \in TaskIds \cup {NoTask} : \A t \in TaskIds \ {u} : Exists(t)' => Exists(t)
<1>0. tasks \in [TaskIds -> Row]
  BY DEF StoreInv, TypeOK
<1>1. ASSUME NEW u \in TaskIds, NEW r \in Row, Writes(u, r)
      PROVE  \A t \in TaskIds \ {u} : Exists(t)' => Exists(t)
  BY <1>0, <1>1 DEF Writes, Exists
<1>2. CASE tasks' = [t \in TaskIds |-> Recovered(tasks[t])]
  BY <1>0, <1>2 DEF Recovered, Exists, Row
<1>3. CASE UNCHANGED tasks
  BY <1>3 DEF Exists
<1> QED
  BY <1>1, <1>2, <1>3, StepShape DEF StoreInv

\* A row keeps its place in the queue, or goes to the end of it.
LEMMA StepAvail ==
    ASSUME StoreInv, BlankInv, AvailInv, [Next]_storeVars
    PROVE  AvailInv'
<1>0. /\ tasks \in [TaskIds -> Row] /\ clock \in Nat /\ clock + 1 \in Nat
      /\ \A t \in TaskIds : tasks[t] \in Row
  BY DEF StoreInv, TypeOK
<1>1. ASSUME NEW t \in TaskIds, NEW r \in Row, r.status # "absent",
             tasks' = [tasks EXCEPT ![t] = r], r.avail = clock + 1, clock' = clock + 1
      PROVE  AvailInv'
  BY <1>0, <1>1 DEF AvailInv, Exists, Row
<1>2. ASSUME NEW t \in TaskIds, NEW r \in Row, tasks[t].status # "absent",
             tasks' = [tasks EXCEPT ![t] = r], r.avail = tasks[t].avail, clock' = clock
      PROVE  AvailInv'
  BY <1>0, <1>2 DEF AvailInv, Exists, Row
<1>3. ASSUME NEW t \in TaskIds, NEW req \in Requests, CreateTask(t, req)
      PROVE  AvailInv'
  <2>1. /\ Created(req, clock + 1) \in Row /\ Created(req, clock + 1).status # "absent"
        /\ Created(req, clock + 1).avail = clock + 1
    BY <1>0, CreatedType, NoRowType DEF Created, Row
  <2> QED
    BY <1>1, <1>3, <2>1 DEF CreateTask
<1>4. ASSUME NEW t \in TaskIds, RetryTask(t)
      PROVE  AvailInv'
  <2>0. tasks[t] \in Row
    BY <1>0
  <2>1. \A n \in Nat : /\ Retried(tasks[t], n) \in Row
                        /\ Retried(tasks[t], n).status # "absent"
                        /\ Retried(tasks[t], n).avail = n
    BY <1>0, <2>0, WrittenTypes DEF Retried, Row
  <2> QED
    BY <1>0, <1>1, <1>4, <2>1 DEF RetryTask
<1>5. ASSUME NEW t \in TaskIds, ClaimTask(t) \/ RequestTaskCancel(t)
      PROVE  AvailInv'
  <2>0. tasks[t] \in Row
    BY <1>0
  <2>1. /\ Claimed(tasks[t]) \in Row /\ Claimed(tasks[t]).avail = tasks[t].avail
        /\ CanceledInQueue(tasks[t]) \in Row
        /\ CanceledInQueue(tasks[t]).avail = tasks[t].avail
        /\ CancelAsked(tasks[t]) \in Row /\ CancelAsked(tasks[t]).avail = tasks[t].avail
    BY <2>0, WrittenTypes, WrittenFields
  <2> QED
    BY <1>2, <1>5, <2>1 DEF ClaimTask, RequestTaskCancel, CancelQueued, CancelRunning
<1>6. ASSUME NEW t \in TaskIds, NEW old \in 1..tasks[t].claims,
             \/ UpdateProgress(t, old)
             \/ SucceedTask(t, old)
             \/ \E retryable \in BOOLEAN : FailTask(t, old, retryable)
             \/ MarkTaskCanceled(t, old)
      PROVE  AvailInv'
  <2>1. tasks[t] \in Row /\ old \in Nat
    BY <1>0 DEF Row
  <2>2. /\ [tasks[t] EXCEPT !.progress = old] \in Row
        /\ [tasks[t] EXCEPT !.progress = old].avail = tasks[t].avail
        /\ Succeeded(tasks[t], old) \in Row
        /\ Succeeded(tasks[t], old).avail = tasks[t].avail
        /\ Canceled(tasks[t]) \in Row /\ Canceled(tasks[t]).avail = tasks[t].avail
    BY <2>1, WrittenTypes, WrittenFields, ZenonT(60)
  <2>3. \A b \in BOOLEAN : /\ Failed(tasks[t], b) \in Row
                            /\ Failed(tasks[t], b).avail = tasks[t].avail
    BY <2>1, WrittenTypes, WrittenFields, ZenonT(60)
  <2> QED
    BY <1>2, <1>6, <2>2, <2>3
       DEF UpdateProgress, SucceedTask, FailTask, MarkTaskCanceled, ClaimHeld
<1>7. ASSUME RecoverInterruptedTasks
      PROVE  AvailInv'
  <2>1. ASSUME NEW t \in TaskIds
        PROVE  tasks'[t].avail = tasks[t].avail /\ (Exists(t)' => Exists(t))
    <3>1. tasks[t] \in Row /\ tasks'[t] = Recovered(tasks[t])
      BY <1>0, <1>7 DEF RecoverInterruptedTasks
    <3> QED
      BY <3>1 DEF Recovered, Exists, Row
  <2>2. clock' = clock
    BY <1>7 DEF RecoverInterruptedTasks
  <2>3. \A t \in TaskIds : tasks'[t].avail = tasks[t].avail
    BY <2>1
  <2>4. \A t \in TaskIds : Exists(t)' => Exists(t)
    BY <2>1
  <2> QED
    BY <2>2, <2>3, <2>4 DEF AvailInv
<1>8. ASSUME UNCHANGED <<tasks, clock>>
      PROVE  AvailInv'
  BY <1>8 DEF AvailInv, Exists
<1> QED
  BY <1>3, <1>4, <1>5, <1>6, <1>7, <1>8
     DEF Next, storeVars, RequireNoActiveTasks, TrashResource, RestoreResource, AbandonDeletion

----------------------------------------------------------------------------
(***************************************************************************)
(* Every step of the manager is one transaction of the store, or none: its *)
(* threads present tokens that were issued.                                *)
(***************************************************************************)

LEMMA StoreStep ==
    ASSUME MTypeOK, ThreadsInv, [MNext]_vars
    PROVE  [Next]_storeVars
<1> USE DEF Next
<1>1. ASSUME NEW t \in TaskIds, NEW req \in Requests, Enqueue(t, req) \/ Replay(t, req)
      PROVE  [Next]_storeVars
  BY <1>1 DEF Enqueue, Replay
<1>2. ASSUME NEW t \in TaskIds, Retry(t) \/ RequestCancel(t) \/ QuiesceCancel(t)
      PROVE  [Next]_storeVars
  BY <1>2 DEF Retry, RequestCancel, QuiesceCancel
<1>3. CASE Dispatcher \/ DispatcherDies \/ QuiesceStart \/ QuiesceList \/ QuiesceWait
           \/ QuiesceAgain \/ Shutdown \/ DropPending \/ Exit \/ Crash
  BY <1>3 DEF Dispatcher, DispatchList, DispatchSubmit, DispatcherDies, QuiesceStart,
              QuiesceList, QuiesceWait, QuiesceAgain, Shutdown, DropPending, Exit, Crash
<1>4. CASE Start
  BY <1>4 DEF Start
<1>5. ASSUME NEW w \in Workers, WorkerStep(w) \/ WorkerFault(w)
      PROVE  [Next]_storeVars
  <2>1. job[w] \in TaskIds \/ pc[w] = "idle"
    BY DEF ThreadsInv
  <2>2. Working(w) => token[w] \in 1..tasks[job[w]].claims
    BY DEF ThreadsInv
  <2>3. CASE Claim(w)
    BY <2>1, <2>3 DEF Claim
  <2>4. CASE Update(w) \/ Succeed(w) \/ Fail(w) \/ Cancel(w)
    BY <2>1, <2>2, <2>4 DEF Update, Succeed, Fail, Cancel, Working
  <2>5. CASE UNCHANGED storeVars
    BY <2>5
  <2>6. \/ Claim(w) \/ Update(w) \/ Succeed(w) \/ Fail(w) \/ Cancel(w)
        \/ UNCHANGED storeVars
    BY <1>5 DEF WorkerStep, PickUp, Check, Beat, HandlerCheckpoint, HandlerEnds,
                Error, Settle, Done, Release, WorkerFault
  <2> QED
    BY <2>3, <2>4, <2>5, <2>6
<1>6. CASE UNCHANGED vars
  BY <1>6 DEF vars, storeVars
<1> QED
  BY <1>1, <1>2, <1>3, <1>4, <1>5, <1>6 DEF MNext, Quiesce

----------------------------------------------------------------------------
(***************************************************************************)
(* The shapes a thread's step can have.  Most of them only move it on.     *)
(***************************************************************************)

\* The claim of w was not taken from it, and its row is still active.
HeldAfter(w) == /\ tasks'[job[w]].status \in {"running", "canceling"}
                /\ tasks'[job[w]].claim = token[w]

Moves(w, next) ==
    /\ pc' = [pc EXCEPT ![w] = next]
    /\ UNCHANGED <<mode, queueVars, job, token, stale, dpc, dlist, qpc, qlist, starts>>
    /\ pc[w] \notin {"idle", "done", "release"}
    /\ next \in WorkerPcs \ {"idle", "claim", "release"}
    /\ pc[w] = "claim" => next = "done"
    /\ next \in {"settle", "cancel"} => ~Held(w, {"running"})
    /\ \/ UNCHANGED faults
       \/ faults < MaxFaults /\ faults' = faults + 1
    /\ next = "done" /\ pc[w] # "claim" /\ UNCHANGED faults => ~HeldAfter(w)

\* What every step but a claim does: no row gets a new claim.
ClaimsKept ==
    \A t \in TaskIds :
        tasks'[t].status \in {"running", "canceling"} =>
            /\ tasks[t].status \in {"running", "canceling"}
            /\ tasks'[t].claim = tasks[t].claim

LEMMA WritesKeepClaims ==
    ASSUME TypeOK, NEW t \in TaskIds, NEW n \in Nat,
           \/ UpdateProgress(t, n) \/ SucceedTask(t, n) \/ MarkTaskCanceled(t, n)
           \/ \E retryable \in BOOLEAN : FailTask(t, n, retryable)
    PROVE  ClaimsKept
<1>0. tasks \in [TaskIds -> Row] /\ tasks[t] \in Row
  BY DEF TypeOK
<1>1. ASSUME NEW r, tasks' = [tasks EXCEPT ![t] = r],
             r.status \in {"running", "canceling"} =>
                 /\ tasks[t].status \in {"running", "canceling"}
                 /\ r.claim = tasks[t].claim
      PROVE  ClaimsKept
  BY <1>0, <1>1 DEF ClaimsKept
<1>2. CASE UpdateProgress(t, n)
  BY <1>0, <1>1, <1>2 DEF UpdateProgress, ClaimHeld, Row
<1>3. CASE SucceedTask(t, n)
  BY <1>0, <1>1, <1>3 DEF SucceedTask, Succeeded, Row
<1>4. CASE MarkTaskCanceled(t, n)
  BY <1>0, <1>1, <1>4 DEF MarkTaskCanceled, Canceled, Row
<1>5. CASE \E retryable \in BOOLEAN : FailTask(t, n, retryable)
  BY <1>0, <1>1, <1>5 DEF FailTask, Failed, Row
<1> QED
  BY <1>2, <1>3, <1>4, <1>5

LEMMA ThreadShapes ==
    ASSUME MInv, NEW w \in Workers, WorkerStep(w) \/ WorkerFault(w)
    PROVE  \/ PickUp(w) \/ Done(w) \/ Release(w)
           \/ Claim(w) /\ ClaimTask(job[w])
           \/ ClaimsKept /\ \E next \in WorkerPcs : Moves(w, next)
<1> USE DEF WorkerPcs, Goto, otherVars
<1>0. /\ tasks \in [TaskIds -> Row] /\ faults \in Nat
      /\ \A t \in TaskIds : tasks[t] \in Row
      /\ pc[w] # "idle" => job[w] \in TaskIds
      /\ pc[w] \in WorkerPcs
  BY DEF MInv, StoreInv, TypeOK, MTypeOK, ThreadsInv
<1>1. ASSUME Claim(w) /\ ~ClaimTask(job[w])
      PROVE  \E next \in WorkerPcs : Moves(w, next)
  <2>1. Moves(w, "done")
    BY <1>0, <1>1 DEF Claim, Moves
  <2> QED
    BY <2>1
<1>2. ASSUME NEW first \in BOOLEAN, Check(w, first)
      PROVE  \E next \in WorkerPcs : Moves(w, next)
  <2>1. ASSUME NEW next \in WorkerPcs, Goto(w, next), next \notin {"done", "idle", "claim", "release"},
               next \in {"settle", "cancel"} => ~Held(w, {"running"})
        PROVE  Moves(w, next)
    BY <1>0, <1>2, <2>1 DEF Check, Moves
  <2>2. CASE Held(w, {"running"})
    BY <1>2, <2>1, <2>2 DEF Check, Held, ClaimHeld
  <2>3. CASE ~Held(w, {"running"})
    BY <1>2, <2>1, <2>3 DEF Check, AfterCancel, AfterLost
  <2> QED
    BY <2>2, <2>3
<1>3. ASSUME NEW first \in BOOLEAN, Beat(w, first)
      PROVE  \E next \in WorkerPcs : Moves(w, next)
  <2>1. ASSUME NEW next \in WorkerPcs, Goto(w, next), next \notin {"done", "idle", "claim", "release"},
               next \in {"settle", "cancel"} => ~Held(w, {"running"})
        PROVE  Moves(w, next)
    BY <1>0, <1>3, <2>1 DEF Beat, Moves
  <2> QED
    BY <1>3, <2>1 DEF Beat, AfterLost
<1>4. ASSUME Update(w)
      PROVE  \E next \in WorkerPcs : Moves(w, next)
  <2>1. ASSUME NEW next \in WorkerPcs, Goto(w, next), next \notin {"done", "idle", "claim", "release"},
               next \in {"settle", "cancel"} => ~Held(w, {"running"})
        PROVE  Moves(w, next)
    BY <1>0, <1>4, <2>1 DEF Update, Moves
  <2> QED
    BY <1>4, <2>1 DEF Update, AfterLost
<1>5. ASSUME HandlerCheckpoint(w) \/ HandlerEnds(w)
      PROVE  \E next \in WorkerPcs : Moves(w, next)
  <2>1. \E next \in WorkerPcs : Goto(w, next) /\ next \in {"check", "succeed", "error"}
    BY <1>5 DEF HandlerCheckpoint, HandlerEnds
  <2> QED
    BY <1>0, <1>5, <2>1 DEF HandlerCheckpoint, HandlerEnds, Moves
<1>6. ASSUME Succeed(w)
      PROVE  \E next \in WorkerPcs : Moves(w, next)
  <2>1. CASE SucceedTask(job[w], token[w]) /\ Goto(w, "done")
    <3>1. tasks'[job[w]].status = "succeeded"
      BY <1>0, <1>6, <2>1 DEF Succeed, SucceedTask, Succeeded, Row
    <3>2. Moves(w, "done")
      BY <1>0, <1>6, <2>1, <3>1 DEF Succeed, Moves, HeldAfter
    <3> QED
      BY <3>2
  <2>2. CASE ~Held(w, {"running", "canceling"}) /\ Goto(w, "settle")
    <3>1. Moves(w, "settle")
      BY <1>0, <1>6, <2>2 DEF Succeed, Moves, Held, ClaimHeld
    <3> QED
      BY <3>1
  <2> QED
    BY <1>6, <2>1, <2>2 DEF Succeed
<1>7. ASSUME Error(w)
      PROVE  \E next \in WorkerPcs : Moves(w, next)
  <2>1. Moves(w, ErrorRoute(w))
    BY <1>0, <1>7 DEF Error, ErrorRoute, Moves, Held, ClaimHeld
  <2> QED
    BY <2>1 DEF ErrorRoute
<1>8. ASSUME Fail(w)
      PROVE  \E next \in WorkerPcs : Moves(w, next)
  <2>1. CASE (\E retryable \in BOOLEAN : FailTask(job[w], token[w], retryable)) /\ Goto(w, "done")
    <3>1. tasks'[job[w]].status = "failed"
      <4>1. PICK retryable \in BOOLEAN : FailTask(job[w], token[w], retryable)
        BY <2>1
      <4> QED
        BY <1>0, <1>8, <4>1 DEF Fail, FailTask, Failed, Row
    <3>2. Moves(w, "done")
      BY <1>0, <1>8, <2>1, <3>1 DEF Fail, Moves, HeldAfter
    <3> QED
      BY <3>2
  <2>2. CASE ~Held(w, {"running"}) /\ Goto(w, "settle")
    <3>1. Moves(w, "settle")
      BY <1>0, <1>8, <2>2 DEF Fail, Moves
    <3> QED
      BY <3>1
  <2> QED
    BY <1>8, <2>1, <2>2 DEF Fail, LostRoute
<1>9. ASSUME Settle(w)
      PROVE  \E next \in WorkerPcs : Moves(w, next)
  <2>1. ~Held(w, {"running"})
    BY <1>9 DEF Settle, MInv, ThreadsInv
  <2>2. CASE Held(w, {"canceling"})
    <3>1. Moves(w, "cancel")
      BY <1>0, <1>9, <2>1, <2>2 DEF Settle, Moves
    <3> QED
      BY <3>1
  <2>3. CASE ~Held(w, {"canceling"})
    <3>1. ~HeldAfter(w)
      BY <1>9, <2>1, <2>3 DEF Settle, HeldAfter, Held, ClaimHeld, storeVars
    <3>2. Moves(w, "done")
      BY <1>0, <1>9, <2>3, <3>1 DEF Settle, Moves
    <3> QED
      BY <3>2
  <2> QED
    BY <2>2, <2>3
<1>10. ASSUME Cancel(w)
      PROVE  \E next \in WorkerPcs : Moves(w, next)
  <2>1. ~HeldAfter(w)
    <3>1. CASE MarkTaskCanceled(job[w], token[w])
      BY <1>0, <1>10, <3>1 DEF Cancel, MarkTaskCanceled, Canceled, Row, HeldAfter
    <3>2. CASE ~Held(w, {"running", "canceling"}) /\ UNCHANGED storeVars
      BY <3>2 DEF HeldAfter, Held, ClaimHeld, storeVars
    <3> QED
      BY <1>10, <3>1, <3>2 DEF Cancel
  <2>2. Moves(w, "done")
    BY <1>0, <1>10, <2>1 DEF Cancel, Moves
  <2> QED
    BY <2>2
<1>11. ASSUME WorkerFault(w)
      PROVE  \E next \in WorkerPcs : Moves(w, next)
  <2>1. \E next \in {"error", "done"} : Moves(w, next)
    BY <1>0, <1>11 DEF WorkerFault, Moves
  <2> QED
    BY <2>1
<1>12. CASE PickUp(w) \/ Done(w) \/ Release(w) \/ (Claim(w) /\ ClaimTask(job[w]))
  BY <1>12
<1>13. CASE UNCHANGED storeVars
  <2>1. ClaimsKept
    BY <1>13 DEF ClaimsKept, storeVars
  <2> QED
    BY <2>1, <1>1, <1>2, <1>3, <1>4, <1>5, <1>6, <1>7, <1>8, <1>9, <1>10, <1>11, <1>12
       DEF WorkerStep
<1>14. CASE ~UNCHANGED storeVars
  <2>1. Update(w) \/ Succeed(w) \/ Fail(w) \/ Cancel(w) \/ (Claim(w) /\ ClaimTask(job[w]))
    BY <1>14 DEF WorkerStep, PickUp, Claim, Check, Beat, HandlerCheckpoint, HandlerEnds,
                 Error, Settle, Done, Release, WorkerFault
  <2>2. token[w] \in Nat
    BY DEF MInv, MTypeOK
  <2>3. ASSUME Update(w) \/ Succeed(w) \/ Fail(w) \/ Cancel(w)
        PROVE  ClaimsKept
    <3>1. pc[w] # "idle"
      BY <2>3 DEF Update, Succeed, Fail, Cancel
    <3>2. \/ UpdateProgress(job[w], token[w]) \/ SucceedTask(job[w], token[w])
          \/ MarkTaskCanceled(job[w], token[w])
          \/ \E retryable \in BOOLEAN : FailTask(job[w], token[w], retryable)
      BY <2>3, <1>14 DEF Update, Succeed, Fail, Cancel
    <3> QED
      BY <1>0, <2>2, <3>1, <3>2, WritesKeepClaims DEF MInv, StoreInv
  <2> QED
    BY <2>1, <2>3, <1>4, <1>6, <1>8, <1>10, <1>12
<1> QED
  BY <1>13, <1>14
----------------------------------------------------------------------------
(***************************************************************************)
(* The shapes of all steps.                                                *)
(***************************************************************************)

LEMMA RequestsKeepClaims ==
    ASSUME TypeOK,
           \/ \E t \in TaskIds, req \in Requests : CreateTask(t, req)
           \/ \E t \in TaskIds : RequestTaskCancel(t) \/ RetryTask(t)
           \/ RecoverInterruptedTasks
           \/ UNCHANGED storeVars
    PROVE  ClaimsKept
<1>0. tasks \in [TaskIds -> Row]
  BY DEF TypeOK
<1>1. ASSUME NEW t \in TaskIds, NEW r, tasks' = [tasks EXCEPT ![t] = r],
             r.status \in {"running", "canceling"} =>
                 /\ tasks[t].status \in {"running", "canceling"}
                 /\ r.claim = tasks[t].claim
      PROVE  ClaimsKept
  BY <1>0, <1>1 DEF ClaimsKept
<1>2. ASSUME NEW t \in TaskIds, NEW req \in Requests, CreateTask(t, req)
      PROVE  ClaimsKept
  <2>1. Created(req, clock + 1).status = "queued"
    BY DEF Created, NoRow
  <2> QED
    BY <1>1, <1>2, <2>1 DEF CreateTask
<1>3. ASSUME NEW t \in TaskIds, RequestTaskCancel(t)
      PROVE  ClaimsKept
  <2>1. tasks[t] \in Row
    BY <1>0
  <2>2. CASE CancelQueued(t)
    BY <1>1, <2>1, <2>2 DEF CancelQueued, CanceledInQueue, Row
  <2>3. CASE CancelRunning(t)
    BY <1>1, <2>1, <2>3 DEF CancelRunning, CancelAsked, Row
  <2> QED
    BY <1>3, <2>2, <2>3 DEF RequestTaskCancel
<1>4. ASSUME NEW t \in TaskIds, RetryTask(t)
      PROVE  ClaimsKept
  <2>1. tasks[t] \in Row
    BY <1>0
  <2>2. \A n : Retried(tasks[t], n).status = "queued"
    BY <2>1 DEF Retried, Row
  <2> QED
    BY <1>1, <1>4, <2>2 DEF RetryTask
<1>5. CASE RecoverInterruptedTasks
  <2>1. ASSUME NEW t \in TaskIds
        PROVE  tasks'[t].status \notin {"running", "canceling"}
    <3>1. tasks[t] \in Row /\ tasks'[t] = Recovered(tasks[t])
      BY <1>0, <1>5 DEF RecoverInterruptedTasks
    <3> QED
      BY <3>1 DEF Recovered, Row
  <2> QED
    BY <2>1 DEF ClaimsKept
<1>6. CASE UNCHANGED storeVars
  BY <1>6 DEF ClaimsKept, storeVars
<1> QED
  BY <1>2, <1>3, <1>4, <1>5, <1>6

\* No thread moves: a request, the dispatcher, quiesce or a process start.
Quiet ==
    /\ ClaimsKept /\ UNCHANGED threadVars
    /\ \/ UNCHANGED queueVars
       \/ \E t \in TaskIds : Submit(t)
       \/ DropPending
    /\ dpc' = "submit" => dlist' # << >>
    /\ faults' \in {faults, faults + 1}
    /\ mode = "down" /\ mode' # "down" => RecoverInterruptedTasks

LEMMA Shapes ==
    ASSUME MInv, [MNext]_vars
    PROVE  \/ Quiet
           \/ \E w \in Workers :
                 \/ PickUp(w) \/ Done(w) \/ Release(w)
                 \/ Claim(w) /\ ClaimTask(job[w])
                 \/ ClaimsKept /\ \E next \in WorkerPcs : Moves(w, next)
           \/ (Exit \/ Crash) /\ ClaimsKept
<1>0. TypeOK /\ dlist \in Seq(TaskIds) /\ (dpc = "submit" => dlist # << >>)
      /\ scheduled \subseteq TaskIds
  BY DEF MInv, StoreInv, MTypeOK, QueueInv
<1>1. ASSUME NEW t \in TaskIds, NEW req \in Requests, Enqueue(t, req) \/ Replay(t, req)
      PROVE  Quiet
  <2>1. ClaimsKept
    BY <1>0, <1>1, RequestsKeepClaims DEF Enqueue, Replay
  <2> QED
    BY <1>0, <1>1, <2>1 DEF Enqueue, Replay, Notify, Quiet, Accepting
<1>2. ASSUME NEW t \in TaskIds, Retry(t)
      PROVE  Quiet
  <2>1. ClaimsKept
    BY <1>0, <1>2, RequestsKeepClaims DEF Retry
  <2> QED
    BY <1>0, <1>2, <2>1 DEF Retry, Notify, Quiet, Accepting
<1>3. ASSUME NEW t \in TaskIds, RequestCancel(t) \/ QuiesceCancel(t)
      PROVE  Quiet
  <2>1. ClaimsKept
    BY <1>0, <1>3, RequestsKeepClaims DEF RequestCancel, QuiesceCancel
  <2> QED
    BY <1>0, <1>3, <2>1
       DEF RequestCancel, QuiesceCancel, Quiet, mgrVars, threadVars, queueVars
<1>4. CASE DispatchSubmit
  <2>1. ClaimsKept
    BY <1>0, <1>4, RequestsKeepClaims DEF DispatchSubmit
  <2>2. Head(dlist) \in TaskIds
    BY <1>0, <1>4 DEF DispatchSubmit
  <2> QED
    BY <1>4, <2>1, <2>2 DEF DispatchSubmit, Quiet
<1>5. CASE \/ DispatchList \/ DispatcherDies \/ QuiesceStart \/ QuiesceList \/ QuiesceWait
           \/ QuiesceAgain \/ Shutdown \/ DropPending \/ UNCHANGED vars
  <2>1. ClaimsKept
    BY <1>0, <1>5, RequestsKeepClaims
       DEF DispatchList, DispatcherDies, QuiesceStart, QuiesceList, QuiesceWait,
           QuiesceAgain, Shutdown, DropPending, vars, storeVars
  <2> QED
    BY <1>0, <1>5, <2>1
       DEF DispatchList, DispatcherDies, QuiesceStart, QuiesceList, QuiesceWait,
           QuiesceAgain, Shutdown, DropPending, vars, mgrVars, otherVars, Quiet,
           threadVars, queueVars
<1>6. CASE Start
  <2>1. ClaimsKept
    BY <1>0, <1>6, RequestsKeepClaims DEF Start
  <2> QED
    BY <1>6, <2>1 DEF Start, Quiet
<1>7. CASE Exit \/ Crash
  <2>1. ClaimsKept
    BY <1>0, <1>7, RequestsKeepClaims DEF Exit, Crash
  <2> QED
    BY <1>7, <2>1
<1>8. ASSUME NEW w \in Workers, WorkerStep(w) \/ WorkerFault(w)
      PROVE  \/ PickUp(w) \/ Done(w) \/ Release(w)
             \/ Claim(w) /\ ClaimTask(job[w])
             \/ ClaimsKept /\ \E next \in WorkerPcs : Moves(w, next)
  BY <1>8, ThreadShapes
<1> QED
  BY <1>1, <1>2, <1>3, <1>4, <1>5, <1>6, <1>7, <1>8 DEF MNext, Dispatcher, Quiesce

----------------------------------------------------------------------------
(***************************************************************************)
(* Tokens.                                                                 *)
(***************************************************************************)

\* A token that was issued stays issued, and a claim that was lost stays lost.
LEMMA TokenStays ==
    ASSUME MInv, NEW w \in Workers, Working(w), Moved(tasks[job[w]], tasks'[job[w]]),
           tasks'[job[w]] \in Row
    PROVE  /\ token[w] \in 1..tasks'[job[w]].claims
           /\ ~Held(w, {"running"}) => ~HeldAfter(w) \/ tasks'[job[w]].status = "canceling"
<1>1. token[w] \in 1..tasks[job[w]].claims /\ tasks[job[w]] \in Row
  BY DEF MInv, ThreadsInv, StoreInv, TypeOK, Working
<1>2. token[w] \in 1..tasks'[job[w]].claims
  BY <1>1 DEF Moved, Row
<1>3. ASSUME ~Held(w, {"running"}), HeldAfter(w), tasks'[job[w]].status # "canceling"
      PROVE  FALSE
  BY <1>1, <1>3 DEF Moved, Held, ClaimHeld, HeldAfter, Row
<1> QED
  BY <1>2, <1>3

LEMMA StepThreads ==
    ASSUME MInv, StoreInv', [MNext]_vars
    PROVE  ThreadsInv'
<1>0. [Next]_storeVars
  BY StoreStep DEF MInv
<1>1. \A t \in TaskIds : Moved(tasks[t], tasks'[t]) /\ tasks'[t] \in Row /\ tasks[t] \in Row
  BY <1>0, RowsMove DEF MInv, StoreInv, TypeOK
<1>2. ASSUME NEW w \in Workers, Working(w)
      PROVE  /\ job[w] \in TaskIds
             /\ token[w] \in 1..tasks'[job[w]].claims
             /\ ~Held(w, {"running"}) =>
                   ~(tasks'[job[w]].status = "running" /\ tasks'[job[w]].claim = token[w])
  <2>1. job[w] \in TaskIds
    BY <1>2 DEF MInv, ThreadsInv, Working
  <2> QED
    BY <1>1, <1>2, <2>1, TokenStays DEF HeldAfter
<1>3. /\ pc \in [Workers -> WorkerPcs] /\ job \in [Workers -> TaskIds \cup {NoTask}]
      /\ token \in [Workers -> Nat] /\ stale \subseteq Workers
      /\ pool \in Seq(TaskIds)
  BY DEF MInv, MTypeOK
<1>4. ThreadsInv
  BY DEF MInv
\* One thread at a time; the others keep what they have.
<1>5. ASSUME NEW w \in Workers, NEW j \in TaskIds \cup {NoTask}, NEW k \in Nat,
             pc' = [pc EXCEPT ![w] = pc'[w]],
             job' = [job EXCEPT ![w] = j], token' = [token EXCEPT ![w] = k],
             stale' \subseteq stale,
             pc'[w] # "idle" => j \in TaskIds,
             pc'[w] \in {"idle", "claim", "release"} => k = 0,
             pc'[w] = "release" => w \notin stale',
             Working(w)' => /\ k \in 1..tasks'[j].claims
                            /\ \/ Working(w) /\ j = job[w] /\ k = token[w]
                               \/ k > tasks[j].claims,
             pc'[w] \in {"settle", "cancel"} => ~Held(w, {"running"})'
      PROVE  ThreadsInv'
  <2>1. ASSUME NEW v \in Workers, v # w
        PROVE  pc'[v] = pc[v] /\ job'[v] = job[v] /\ token'[v] = token[v]
    BY <1>3, <1>5, <2>1
  <2>2. job'[w] = j /\ token'[w] = k
    BY <1>3, <1>5
  <2>3. ASSUME NEW v \in Workers
        PROVE  /\ pc'[v] # "idle" => job'[v] \in TaskIds
               /\ pc'[v] \in {"idle", "claim", "release"} => token'[v] = 0
               /\ Working(v)' => token'[v] \in 1..tasks'[job'[v]].claims
               /\ pc'[v] = "release" => v \notin stale'
               /\ pc'[v] \in {"settle", "cancel"} => ~Held(v, {"running"})'
    <3>1. CASE v = w
      BY <1>5, <2>2, <3>1 DEF Working
    <3>2. CASE v # w
      <4>1. pc[v] \in {"settle", "cancel"} => Working(v)
        BY DEF Working
      <4> QED
        BY <1>2, <1>4, <1>5, <2>1, <3>2, <4>1 DEF ThreadsInv, Working, Held, ClaimHeld
    <3> QED
      BY <3>1, <3>2
  <2>4. ASSUME NEW u \in Workers, NEW v \in Workers, Working(u)', Working(v)',
               job'[u] = job'[v], token'[u] = token'[v], u # v
        PROVE  FALSE
    <3>1. \A x \in Workers : x # w /\ Working(x)' =>
             Working(x) /\ job[x] \in TaskIds /\ token[x] \in 1..tasks[job[x]].claims
      BY <1>4, <2>1 DEF ThreadsInv, Working
    <3>2. ASSUME NEW x \in Workers, x # w, Working(x)', Working(w)',
                 job'[x] = j, token'[x] = k
          PROVE  FALSE
      <4>1. Working(x) /\ job[x] = j /\ token[x] = k /\ k \in 1..tasks[j].claims
        BY <2>1, <3>1, <3>2
      <4>2. tasks[j] \in Row
        BY <1>1, <2>1, <3>1, <3>2
      <4>3. ~(k > tasks[j].claims)
        BY <4>1, <4>2 DEF Row
      <4> QED
        BY <1>4, <1>5, <3>2, <4>1, <4>3 DEF ThreadsInv
    <3>3. CASE u = w
      BY <2>2, <2>4, <3>2, <3>3
    <3>4. CASE v = w
      BY <2>2, <2>4, <3>2, <3>4
    <3>5. CASE u # w /\ v # w
      BY <1>4, <2>1, <2>4, <3>1, <3>5 DEF ThreadsInv
    <3> QED
      BY <3>3, <3>4, <3>5
  <2> QED
    BY <2>3, <2>4 DEF ThreadsInv
<1>6. CASE Quiet
  <2>1. \A w \in Workers : pc[w] \in {"settle", "cancel"} => Working(w)
    BY DEF Working
  <2> QED
    BY <1>2, <1>4, <1>6, <2>1 DEF Quiet, ThreadsInv, threadVars, Working, Held, ClaimHeld
<1>7. ASSUME NEW w \in Workers, PickUp(w)
      PROVE  ThreadsInv'
  <2>1. Head(pool) \in TaskIds /\ token[w] = 0
    BY <1>3, <1>4, <1>7 DEF PickUp, ThreadsInv
  <2>2. pc'[w] = "claim" /\ token' = [token EXCEPT ![w] = 0]
    BY <1>3, <1>7, <2>1 DEF PickUp
  <2> QED
    BY <1>3, <1>5, <1>7, <2>1, <2>2 DEF PickUp, Working
<1>8. ASSUME NEW w \in Workers, Done(w)
      PROVE  ThreadsInv'
  <2>1. job[w] \in TaskIds
    BY <1>4, <1>8 DEF Done, ThreadsInv
  <2>2. /\ pc'[w] = IF w \in stale THEN "idle" ELSE "release"
        /\ w \notin stale'
        /\ job' = [job EXCEPT ![w] = IF w \in stale THEN NoTask ELSE job[w]]
    BY <1>3, <1>8 DEF Done
  <2>3. CASE w \in stale
    BY <1>3, <1>5, <1>8, <2>1, <2>2, <2>3 DEF Done, Working
  <2>4. CASE w \notin stale
    BY <1>3, <1>5, <1>8, <2>1, <2>2, <2>4 DEF Done, Working
  <2> QED
    BY <2>3, <2>4
<1>9. ASSUME NEW w \in Workers, Release(w)
      PROVE  ThreadsInv'
  <2>1. token[w] = 0
    BY <1>4, <1>9 DEF Release, ThreadsInv
  <2>2. pc'[w] = "idle" /\ token' = [token EXCEPT ![w] = 0] /\ stale' = stale
    BY <1>3, <1>9, <2>1 DEF Release
  <2> QED
    BY <1>3, <1>5, <1>9, <2>1, <2>2 DEF Release, Working
<1>10. ASSUME NEW w \in Workers, Claim(w), ClaimTask(job[w])
       PROVE  ThreadsInv'
  <2>1. job[w] \in TaskIds /\ tasks[job[w]] \in Row
    BY <1>1, <1>4, <1>10 DEF Claim, ThreadsInv
  <2>2. tasks[job[w]].claims + 1 \in Nat
    BY <2>1 DEF Row
  <2>3. tasks'[job[w]].claims = tasks[job[w]].claims + 1
    BY <1>10, <2>1 DEF ClaimTask, Claimed, Row, MInv, StoreInv, TypeOK
  <2>4. /\ pc'[w] = "firstCheck" /\ pc' = [pc EXCEPT ![w] = pc'[w]]
        /\ job' = [job EXCEPT ![w] = job[w]]
        /\ token' = [token EXCEPT ![w] = tasks[job[w]].claims + 1]
        /\ stale' = stale
    BY <1>3, <1>10 DEF Claim, ClaimTask
  <2>5. /\ tasks[job[w]].claims + 1 \in 1..tasks'[job[w]].claims
        /\ tasks[job[w]].claims + 1 > tasks[job[w]].claims
    BY <2>1, <2>3 DEF Row
  <2> QED
    BY <1>5, <2>1, <2>2, <2>4, <2>5 DEF Working
<1>11. ASSUME NEW w \in Workers, NEW next \in WorkerPcs, Moves(w, next)
       PROVE  ThreadsInv'
  <2>1. /\ pc'[w] = next /\ pc' = [pc EXCEPT ![w] = pc'[w]]
        /\ job' = [job EXCEPT ![w] = job[w]] /\ token' = [token EXCEPT ![w] = token[w]]
        /\ stale' = stale
        /\ job[w] \in TaskIds
    BY <1>3, <1>4, <1>11 DEF Moves, ThreadsInv
  <2>2. Working(w)' => Working(w)
    BY <1>11, <2>1 DEF Moves, Working
  <2>3. pc'[w] \in {"settle", "cancel"} => ~Held(w, {"running"})'
    <3>1. SUFFICES ASSUME pc'[w] \in {"settle", "cancel"}
                   PROVE  ~Held(w, {"running"})'
      OBVIOUS
    <3>2. Working(w) /\ ~Held(w, {"running"})
      BY <1>11, <2>1, <2>2, <3>1 DEF Moves, Working
    <3>3. job'[w] = job[w] /\ token'[w] = token[w]
      BY <1>11 DEF Moves
    <3> QED
      BY <1>2, <3>2, <3>3 DEF Held, ClaimHeld
  <2>4. next \notin {"idle", "claim", "release"}
    BY <1>11 DEF Moves
  <2>5. Working(w) => token[w] \in 1..tasks'[job[w]].claims
    BY <1>2
  <2>6. token[w] \in Nat
    BY <1>3
  <2> QED
    BY <1>5, <2>1, <2>2, <2>3, <2>4, <2>5, <2>6
<1>12. CASE Exit \/ Crash
  <2>1. CASE Crash
    BY <1>3, <2>1 DEF Crash, ThreadsInv, Working
  <2>2. CASE Exit
    <3>1. ASSUME NEW w \in Workers
          PROVE  /\ pc'[w] = IF pc[w] = "release" THEN "idle" ELSE pc[w]
                 /\ pc[w] # "release" => job'[w] = job[w]
                 /\ token'[w] = token[w]
                 /\ Working(w)' <=> Working(w)
      BY <2>2, <1>3 DEF Exit, Working
    <3>2. \A w \in Workers : pc[w] \in {"settle", "cancel"} => Working(w)
      BY DEF Working
    <3>3. \A w \in Workers : Working(w) => pc[w] # "release"
      BY DEF Working
    <3>4. ASSUME NEW w \in Workers
          PROVE  /\ pc'[w] # "idle" => job'[w] \in TaskIds
                 /\ pc'[w] \in {"idle", "claim", "release"} => token'[w] = 0
                 /\ Working(w)' => token'[w] \in 1..tasks'[job'[w]].claims
                 /\ pc'[w] # "release"
                 /\ pc'[w] \in {"settle", "cancel"} => ~Held(w, {"running"})'
      BY <1>2, <1>4, <3>1, <3>2, <3>3 DEF ThreadsInv, Held, ClaimHeld
    <3>5. \A v, w \in Workers :
             Working(v)' /\ Working(w)' /\ job'[v] = job'[w] /\ token'[v] = token'[w] => v = w
      BY <1>4, <3>1, <3>3 DEF ThreadsInv
    <3> QED
      BY <3>4, <3>5 DEF ThreadsInv
  <2> QED
    BY <1>12, <2>1, <2>2
<1> QED
  BY <1>6, <1>7, <1>8, <1>9, <1>10, <1>11, <1>12, Shapes

----------------------------------------------------------------------------
(***************************************************************************)
(* The work queue.                                                         *)
(***************************************************************************)

\* Steps that touch neither the queue nor what a hand holds.
LEMMA SameHands ==
    ASSUME QueueInv, UNCHANGED <<pool, scheduled>>, dpc' = "submit" => dlist' # << >>,
           \A w \in Workers : /\ Hand(w)' <=> Hand(w)
                              /\ Hand(w) => job'[w] = job[w]
    PROVE  QueueInv'
BY DEF QueueInv

LEMMA SubmitQueue ==
    ASSUME MInv, UNCHANGED threadVars, dpc' = "submit" => dlist' # << >>,
           NEW t \in TaskIds, Submit(t)
    PROVE  QueueInv'
<1>1. pool \in Seq(TaskIds) /\ QueueInv
  BY DEF MInv, MTypeOK
<1>2. \A w \in Workers : (Hand(w)' <=> Hand(w)) /\ job'[w] = job[w]
  BY DEF threadVars, Hand
<1>3. CASE UNCHANGED queueVars
  BY <1>1, <1>2, <1>3, SameHands DEF queueVars
<1>4. CASE ~UNCHANGED queueVars
  <2>1. /\ t \notin scheduled /\ scheduled' = scheduled \cup {t}
        /\ pool' = Append(pool, t)
    BY <1>4 DEF Submit, MaySubmit
  <2>2. /\ \A i \in DOMAIN pool : pool[i] # t
        /\ \A w \in Workers : Hand(w) => job[w] # t
    BY <1>1, <2>1 DEF QueueInv
  <2>3. /\ DOMAIN pool = 1..Len(pool) /\ Len(pool) \in Nat
        /\ DOMAIN pool' = 1..(Len(pool) + 1)
        /\ \A i \in DOMAIN pool : pool'[i] = pool[i] /\ i \in DOMAIN pool'
        /\ pool'[Len(pool) + 1] = t /\ Len(pool) + 1 \in DOMAIN pool'
        /\ \A i \in DOMAIN pool' : i \in DOMAIN pool \/ i = Len(pool) + 1
    BY <1>1, <2>1
  <2>4. \A i, k \in DOMAIN pool' : pool'[i] = pool'[k] => i = k
    BY <1>1, <2>2, <2>3 DEF QueueInv
  <2>5. \A i \in DOMAIN pool' : \A w \in Workers : Hand(w)' => pool'[i] # job'[w]
    BY <1>1, <1>2, <2>2, <2>3 DEF QueueInv
  <2>6. ASSUME NEW u \in TaskIds
        PROVE  (\E i \in DOMAIN pool' : pool'[i] = u) <=> u = t \/ \E i \in DOMAIN pool : pool[i] = u
    BY <2>3
  <2>7. \A u \in TaskIds : u \in scheduled' <=> \/ \E i \in DOMAIN pool' : pool'[i] = u
                                                \/ \E w \in Workers : Hand(w)' /\ job'[w] = u
    BY <1>1, <1>2, <2>1, <2>6 DEF QueueInv
  <2>8. \A v, w \in Workers : Hand(v)' /\ Hand(w)' /\ job'[v] = job'[w] => v = w
    BY <1>1, <1>2 DEF QueueInv
  <2> QED
    BY <2>4, <2>5, <2>7, <2>8 DEF QueueInv
<1> QED
  BY <1>3, <1>4

LEMMA StepQueue ==
    ASSUME MInv, [MNext]_vars
    PROVE  QueueInv'
<1>0. /\ pool \in Seq(TaskIds) /\ QueueInv /\ ThreadsInv /\ scheduled \subseteq TaskIds
      /\ pc \in [Workers -> WorkerPcs] /\ job \in [Workers -> TaskIds \cup {NoTask}]
      /\ stale \subseteq Workers
  BY DEF MInv, MTypeOK
<1>1. CASE Quiet
  <2>1. \A w \in Workers : (Hand(w)' <=> Hand(w)) /\ job'[w] = job[w]
    BY <1>1 DEF Quiet, threadVars, Hand
  <2>2. CASE UNCHANGED queueVars
    BY <1>0, <1>1, <2>1, <2>2, SameHands DEF Quiet, queueVars
  <2>3. ASSUME NEW t \in TaskIds, Submit(t)
        PROVE  QueueInv'
    BY <1>1, <2>3, SubmitQueue DEF Quiet
  <2>4. CASE DropPending
    <3>1. /\ pool' = << >> /\ DOMAIN pool' = {}
          /\ scheduled' = scheduled \ { pool[i] : i \in DOMAIN pool }
      BY <2>4 DEF DropPending
    <3>2. \A t \in TaskIds : t \in scheduled' <=> \E w \in Workers : Hand(w)' /\ job'[w] = t
      BY <1>0, <2>1, <3>1 DEF QueueInv
    <3>3. \A v, w \in Workers : Hand(v)' /\ Hand(w)' /\ job'[v] = job'[w] => v = w
      BY <1>0, <2>1 DEF QueueInv
    <3>4. dpc' = "submit" => dlist' # << >>
      BY <1>1 DEF Quiet
    <3> QED
      BY <3>1, <3>2, <3>3, <3>4 DEF QueueInv
  <2> QED
    BY <1>1, <2>2, <2>3, <2>4 DEF Quiet
<1>2. ASSUME NEW w \in Workers, PickUp(w)
      PROVE  QueueInv'
  <2>1. /\ pool # << >> /\ pool' = Tail(pool) /\ job' = [job EXCEPT ![w] = Head(pool)]
        /\ pc' = [pc EXCEPT ![w] = "claim"] /\ pc[w] = "idle" /\ w \notin stale
        /\ UNCHANGED <<scheduled, stale, dpc, dlist>>
    BY <1>2 DEF PickUp, otherVars
  <2>2. /\ DOMAIN pool = 1..Len(pool) /\ Len(pool) \in Nat \ {0}
        /\ 1 \in DOMAIN pool /\ Head(pool) = pool[1]
        /\ DOMAIN pool' = 1..(Len(pool) - 1)
        /\ \A i \in DOMAIN pool' : i + 1 \in DOMAIN pool /\ pool'[i] = pool[i + 1]
        /\ \A i \in DOMAIN pool : i # 1 => i - 1 \in DOMAIN pool' /\ pool[i] = pool'[i - 1]
    BY <1>0, <2>1
  <2>3. /\ ~Hand(w) /\ Hand(w)' /\ job'[w] = pool[1]
        /\ \A v \in Workers \ {w} : (Hand(v)' <=> Hand(v)) /\ job'[v] = job[v]
    BY <1>0, <2>1, <2>2 DEF Hand
  <2>4. \A i, k \in DOMAIN pool' : pool'[i] = pool'[k] => i = k
    <3> SUFFICES ASSUME NEW i \in DOMAIN pool', NEW k \in DOMAIN pool', pool'[i] = pool'[k]
                 PROVE  i = k
      OBVIOUS
    <3>1. i + 1 = k + 1
      BY <1>0, <2>2 DEF QueueInv
    <3> QED
      BY <2>2, <3>1
  <2>5. \A i \in DOMAIN pool' : pool'[i] # pool[1]
    <3> SUFFICES ASSUME NEW i \in DOMAIN pool', pool'[i] = pool[1]
                 PROVE  FALSE
      OBVIOUS
    <3>1. i + 1 = 1
      BY <1>0, <2>2 DEF QueueInv
    <3> QED
      BY <2>2, <3>1
  <2>6. \A i \in DOMAIN pool' : \A v \in Workers : Hand(v)' => pool'[i] # job'[v]
    BY <1>0, <2>2, <2>3, <2>5 DEF QueueInv
  <2>7. \A u, v \in Workers : Hand(u)' /\ Hand(v)' /\ job'[u] = job'[v] => u = v
    <3>1. ASSUME NEW v \in Workers \ {w}, Hand(v)'
          PROVE  Hand(v) /\ job'[v] = job[v] /\ job'[v] # job'[w]
      <4>1. Hand(v) /\ job'[v] = job[v] /\ job'[w] = pool[1] /\ 1 \in DOMAIN pool
        BY <2>2, <2>3, <3>1
      <4>2. \A i \in DOMAIN pool : \A u \in Workers : Hand(u) => pool[i] # job[u]
        BY <1>0 DEF QueueInv
      <4> HIDE DEF Hand
      <4> QED
        BY <4>1, <4>2
    <3>2. \A u, v \in Workers : Hand(u) /\ Hand(v) /\ job[u] = job[v] => u = v
      BY <1>0 DEF QueueInv
    <3> HIDE DEF Hand
    <3> QED
      BY <3>1, <3>2
  <2>8. ASSUME NEW t \in TaskIds
        PROVE  t \in scheduled' <=> \/ \E i \in DOMAIN pool' : pool'[i] = t
                                    \/ \E v \in Workers : Hand(v)' /\ job'[v] = t
    <3>1. (\E i \in DOMAIN pool : pool[i] = t) <=> t = pool[1] \/ \E i \in DOMAIN pool' : pool'[i] = t
      BY <2>2
    <3>2. (\E v \in Workers : Hand(v)' /\ job'[v] = t)
             <=> t = pool[1] \/ \E v \in Workers : Hand(v) /\ job[v] = t
      BY <2>3
    <3> QED
      BY <1>0, <2>1, <3>1, <3>2 DEF QueueInv
  <2> QED
    BY <1>0, <2>1, <2>4, <2>6, <2>7, <2>8 DEF QueueInv
<1>3. ASSUME NEW w \in Workers, Done(w)
      PROVE  QueueInv'
  <2>1. /\ pc[w] = "done" /\ UNCHANGED <<pool, dpc, dlist>>
        /\ \A v \in Workers \ {w} : /\ pc'[v] = pc[v] /\ job'[v] = job[v]
                                    /\ v \in stale' <=> v \in stale
        /\ pc'[w] = IF w \in stale THEN "idle" ELSE "release"
        /\ job[w] \in TaskIds
    BY <1>0, <1>3 DEF Done, otherVars, ThreadsInv
  <2>2. ~Hand(w)' /\ \A v \in Workers \ {w} : (Hand(v)' <=> Hand(v)) /\ job'[v] = job[v]
    BY <2>1 DEF Hand
  <2>3. CASE w \in stale
    <3>1. scheduled' = scheduled
      BY <1>3, <2>3 DEF Done
    <3>2. ~Hand(w)
      BY <2>3 DEF Hand
    <3> QED
      BY <1>0, <2>1, <2>2, <3>1, <3>2, SameHands DEF QueueInv
  <2>4. CASE w \notin stale
    <3>1. scheduled' = scheduled \ {job[w]} /\ Hand(w)
      BY <1>3, <2>1, <2>4 DEF Done, Hand
    <3>2. \A t \in TaskIds : t \in scheduled' <=> \/ \E i \in DOMAIN pool : pool[i] = t
                                                  \/ \E v \in Workers : Hand(v)' /\ job'[v] = t
      BY <1>0, <2>2, <3>1 DEF QueueInv
    <3> QED
      BY <1>0, <2>1, <2>2, <3>2 DEF QueueInv
  <2> QED
    BY <2>3, <2>4
<1>4. ASSUME NEW w \in Workers, \/ Release(w) \/ Claim(w)
                                \/ \E next \in WorkerPcs : Moves(w, next)
      PROVE  QueueInv'
  <2>1. UNCHANGED <<pool, scheduled, dpc, dlist, stale>>
    BY <1>4 DEF Release, Claim, Moves, otherVars, queueVars
  <2>2. /\ \A v \in Workers \ {w} : pc'[v] = pc[v] /\ job'[v] = job[v]
        /\ \/ pc[w] = "release" /\ pc'[w] = "idle"
           \/ /\ pc[w] \notin {"idle", "release"} /\ pc'[w] \notin {"idle", "release"}
              /\ job'[w] = job[w]
    BY <1>0, <1>4 DEF Release, Claim, Moves, otherVars, queueVars
  <2>3. \A v \in Workers : (Hand(v)' <=> Hand(v)) /\ (Hand(v) => job'[v] = job[v])
    BY <2>1, <2>2 DEF Hand
  <2> QED
    BY <1>0, <2>1, <2>3, SameHands DEF QueueInv
<1>5. CASE Exit \/ Crash
  <2>1. /\ pool' = << >> /\ DOMAIN pool' = {} /\ scheduled' = {} /\ dpc' = "exit"
    BY <1>5 DEF Exit, Crash, Reset
  <2>2. \A w \in Workers : ~Hand(w)'
    BY <1>0, <1>5 DEF Exit, Crash, Hand, Busy
  <2> QED
    BY <2>1, <2>2 DEF QueueInv
<1> QED
  BY <1>1, <1>2, <1>3, <1>4, <1>5, Shapes

----------------------------------------------------------------------------
(***************************************************************************)
(* Counting.                                                               *)
(***************************************************************************)

\* A sequence without repetitions is as long as it has elements.
LEMMA DistinctCount ==
    ASSUME NEW S, NEW s \in Seq(S), \A i, k \in DOMAIN s : s[i] = s[k] => i = k
    PROVE  LET R == { s[i] : i \in DOMAIN s }
           IN  IsFiniteSet(R) /\ Cardinality(R) = Len(s)
<1> DEFINE R == { s[i] : i \in DOMAIN s }
<1>1. Len(s) \in Nat /\ DOMAIN s = 1..Len(s) /\ s \in [1..Len(s) -> R]
  OBVIOUS
<1>2. s \in Bijection(1..Len(s), R)
  BY <1>1 DEF Bijection, Injection, Surjection, IsInjective
<1>3. ExistsBijection(1..Len(s), R)
  BY <1>2 DEF ExistsBijection
<1>4. IsFiniteSet(1..Len(s)) /\ Cardinality(1..Len(s)) = Len(s)
  <2>1. 1 \in Int /\ Len(s) \in Int /\ (1 > Len(s) => Len(s) = 0)
    BY <1>1
  <2>2. /\ IsFiniteSet(1..Len(s))
        /\ Cardinality(1..Len(s)) = IF 1 > Len(s) THEN 0 ELSE Len(s) - 1 + 1
    BY <2>1, FS_Interval
  <2> QED
    BY <1>1, <2>1, <2>2
<1>5. IsFiniteSet(R) /\ Cardinality(R) = Len(s)
  BY <1>3, <1>4, FS_Bijection
<1> QED
  BY <1>5

\* The finite sets stay finite: a step adds at most one element.
LEMMA StepFinite ==
    ASSUME MInv, [MNext]_vars
    PROVE  /\ IsFiniteSet(Busy') /\ IsFiniteSet(scheduled')
           /\ IsFiniteSet({ t \in TaskIds : Exists(t)' })
<1>0. /\ IsFiniteSet(Busy) /\ IsFiniteSet(scheduled) /\ IsFiniteSet({ t \in TaskIds : Exists(t) })
      /\ pc \in [Workers -> WorkerPcs]
  BY DEF MInv, MTypeOK, CountsInv
<1>1. IsFiniteSet(Busy')
  <2>1. ASSUME NEW w, Busy' \subseteq Busy \cup {w}
        PROVE  IsFiniteSet(Busy')
    BY <1>0, <2>1, FS_AddElement, FS_Subset
  <2>2. CASE Quiet
    BY <2>1, <2>2 DEF Quiet, threadVars, Busy
  <2>3. ASSUME NEW w \in Workers, \/ PickUp(w) \/ Done(w) \/ Release(w) \/ Claim(w)
                                  \/ \E next \in WorkerPcs : Moves(w, next)
        PROVE  IsFiniteSet(Busy')
    <3>1. \A v \in Workers \ {w} : pc'[v] = pc[v]
      BY <1>0, <2>3 DEF PickUp, Done, Release, Claim, Moves
    <3> QED
      BY <2>1, <3>1 DEF Busy
  <2>4. CASE Exit \/ Crash
    <3>1. \A v \in Workers : pc'[v] # "idle" => pc'[v] = pc[v]
      BY <1>0, <2>4 DEF Exit, Crash
    <3> QED
      BY <2>1, <3>1 DEF Busy
  <2> QED
    BY <2>2, <2>3, <2>4, Shapes
<1>2. IsFiniteSet(scheduled')
  <2>1. ASSUME NEW t, scheduled' \subseteq scheduled \cup {t}
        PROVE  IsFiniteSet(scheduled')
    BY <1>0, <2>1, FS_AddElement, FS_Subset
  <2>2. CASE Quiet
    BY <2>1, <2>2 DEF Quiet, Submit, DropPending, queueVars
  <2>3. ASSUME NEW w \in Workers, \/ PickUp(w) \/ Done(w) \/ Release(w) \/ Claim(w)
                                  \/ \E next \in WorkerPcs : Moves(w, next)
        PROVE  IsFiniteSet(scheduled')
    BY <2>1, <2>3 DEF PickUp, Done, Release, Claim, Moves, queueVars
  <2>4. CASE Exit \/ Crash
    BY <2>1, <2>4 DEF Exit, Crash, Reset
  <2> QED
    BY <2>2, <2>3, <2>4, Shapes
<1>3. IsFiniteSet({ t \in TaskIds : Exists(t)' })
  <2> DEFINE S == { t \in TaskIds : Exists(t) }
             T == { t \in TaskIds : Exists(t)' }
  <2>1. [Next]_storeVars
    BY StoreStep DEF MInv
  <2>2. PICK u \in TaskIds \cup {NoTask} : \A t \in TaskIds \ {u} : Exists(t)' => Exists(t)
    BY <2>1, OneAppears DEF MInv
  <2>3. T \subseteq S \cup {u}
    BY <2>2
  <2>4. IsFiniteSet(S \cup {u})
    BY <1>0, FS_AddElement
  <2> HIDE DEF S, T
  <2>5. IsFiniteSet(T)
    BY <2>3, <2>4, FS_Subset
  <2> QED
    BY <2>5 DEF T
<1> QED
  BY <1>1, <1>2, <1>3

LEMMA StepPermits ==
    ASSUME MInv, [MNext]_vars
    PROVE  PermitsAccounted'
<1>0. /\ pc \in [Workers -> WorkerPcs] /\ pool \in Seq(TaskIds) /\ permits \in Nat
      /\ QueueInv /\ ThreadsInv /\ scheduled \subseteq TaskIds
  BY DEF MInv, MTypeOK
<1>1. /\ IsFiniteSet(scheduled) /\ Cardinality(scheduled) \in Nat
      /\ IsFiniteSet(Releasing) /\ Cardinality(Releasing) \in Nat
      /\ permits + Cardinality(scheduled) + Cardinality(Releasing) = Capacity
  <2>1. IsFiniteSet(scheduled) /\ IsFiniteSet(Busy) /\ Releasing \subseteq Busy
    BY DEF MInv, CountsInv, Releasing, Busy
  <2>2. IsFiniteSet(Releasing)
    BY <2>1, FS_Subset
  <2> QED
    BY <2>1, <2>2, FS_CardinalityType DEF MInv, CountsInv, PermitsAccounted, Releasing
<1> USE DEF PermitsAccounted
<1>2. ASSUME permits' + Cardinality(scheduled') + Cardinality(Releasing') = Capacity
      PROVE  PermitsAccounted'
  BY <1>2 DEF Releasing
<1>3. ASSUME UNCHANGED <<permits, scheduled>>, Releasing' = Releasing
      PROVE  PermitsAccounted'
  BY <1>1, <1>2, <1>3
<1>4. CASE Quiet
  <2>1. Releasing' = Releasing
    BY <1>4 DEF Quiet, threadVars, Releasing
  <2>2. CASE UNCHANGED queueVars
    BY <1>3, <2>1, <2>2 DEF queueVars
  <2>3. ASSUME NEW t \in TaskIds, Submit(t), ~UNCHANGED queueVars
        PROVE  PermitsAccounted'
    <3>1. /\ t \notin scheduled /\ permits > 0 /\ permits' = permits - 1
          /\ scheduled' = scheduled \cup {t}
      BY <2>3 DEF Submit, MaySubmit
    <3>2. Cardinality(scheduled') = Cardinality(scheduled) + 1
      BY <1>1, <3>1, FS_AddElement
    <3> QED
      BY <1>0, <1>1, <1>2, <2>1, <3>1, <3>2
  <2>4. CASE DropPending
    <3> DEFINE R == { pool[i] : i \in DOMAIN pool }
    <3>1. scheduled' = scheduled \ R /\ permits' = permits + Len(pool)
      BY <2>4 DEF DropPending
    <3>2. IsFiniteSet(R) /\ Cardinality(R) = Len(pool)
      BY <1>0, DistinctCount DEF QueueInv
    <3>3. R \subseteq TaskIds
      BY <1>0
    <3>4. scheduled \cap R = R
      BY <1>0, <3>3 DEF QueueInv
    <3> HIDE DEF R
    <3>5. Cardinality(scheduled') = Cardinality(scheduled) - Len(pool)
      <4>1. Cardinality(scheduled \ R) = Cardinality(scheduled) - Cardinality(scheduled \cap R)
        BY <1>1, FS_Difference
      <4> QED
        BY <3>1, <3>2, <3>4, <4>1
    <3>6. Len(pool) \in Nat
      BY <1>0
    <3> QED
      BY <1>0, <1>1, <1>2, <2>1, <3>1, <3>5, <3>6
  <2> QED
    BY <1>4, <2>2, <2>3, <2>4 DEF Quiet
<1>5. ASSUME NEW w \in Workers, \/ PickUp(w) \/ Claim(w)
                                \/ \E next \in WorkerPcs : Moves(w, next)
      PROVE  PermitsAccounted'
  <2>1. UNCHANGED <<permits, scheduled>>
    BY <1>5 DEF PickUp, Claim, Moves, queueVars
  <2>2. \A v \in Workers : pc'[v] = "release" <=> pc[v] = "release"
    BY <1>0, <1>5 DEF PickUp, Claim, Moves
  <2> QED
    BY <1>3, <2>1, <2>2 DEF Releasing
<1>6. ASSUME NEW w \in Workers, Done(w)
      PROVE  PermitsAccounted'
  <2>1. /\ pc[w] = "done" /\ permits' = permits
        /\ pc' = [pc EXCEPT ![w] = IF w \in stale THEN "idle" ELSE "release"]
    BY <1>6 DEF Done
  <2>2. CASE w \in stale
    <3>1. scheduled' = scheduled
      BY <1>6, <2>2 DEF Done
    <3>2. Releasing' = Releasing
      BY <1>0, <2>1, <2>2 DEF Releasing
    <3> QED
      BY <1>3, <2>1, <3>1, <3>2
  <2>3. CASE w \notin stale
    <3>1. scheduled' = scheduled \ {job[w]}
      BY <1>6, <2>3 DEF Done
    <3>2. job[w] \in scheduled
      BY <1>0, <2>1, <2>3 DEF QueueInv, ThreadsInv, Hand
    <3>3. Releasing' = Releasing \cup {w} /\ w \notin Releasing
      BY <1>0, <2>1, <2>3 DEF Releasing
    <3>4. /\ Cardinality(scheduled') = Cardinality(scheduled) - 1
          /\ Cardinality(Releasing') = Cardinality(Releasing) + 1
      BY <1>1, <3>1, <3>2, <3>3, FS_RemoveElement, FS_AddElement
    <3> QED
      BY <1>0, <1>1, <1>2, <2>1, <3>4
  <2> QED
    BY <2>2, <2>3
<1>7. ASSUME NEW w \in Workers, Release(w)
      PROVE  PermitsAccounted'
  <2>1. permits' = permits + 1 /\ scheduled' = scheduled
    BY <1>7 DEF Release, FreedPermits
  <2>2. Releasing' = Releasing \ {w} /\ w \in Releasing
    BY <1>0, <1>7 DEF Releasing, Release
  <2>3. Cardinality(Releasing') = Cardinality(Releasing) - 1
    BY <1>1, <2>2, FS_RemoveElement
  <2> QED
    BY <1>0, <1>1, <1>2, <2>1, <2>3
<1>8. CASE Exit \/ Crash
  <2>1. permits' = Capacity /\ scheduled' = {}
    BY <1>8 DEF Exit, Crash, Reset
  <2>2. Releasing' = {}
    BY <1>0, <1>8 DEF Exit, Crash, Releasing
  <2>3. Cardinality({}) = 0 /\ Capacity \in Nat
    BY FS_EmptySet, ManagerAssumption
  <2> QED
    BY <1>2, <2>1, <2>2, <2>3
<1> QED
  BY <1>4, <1>5, <1>6, <1>7, <1>8, Shapes

----------------------------------------------------------------------------
(***************************************************************************)
(* Quiesce, and the rows nobody works for.                                 *)
(***************************************************************************)

\* Outside an open manager nothing queues a row.
LEMMA NoneQueued ==
    ASSUME MInv, [MNext]_vars, mode # "open"
    PROVE  \A t \in TaskIds : tasks'[t].status = "queued" => tasks[t].status = "queued"
<1> DEFINE Goal == \A t \in TaskIds : tasks'[t].status = "queued" => tasks[t].status = "queued"
<1>0. tasks \in [TaskIds -> Row] /\ \A t \in TaskIds : tasks[t] \in Row
  BY DEF MInv, StoreInv, TypeOK
<1>1. ASSUME NEW t \in TaskIds, NEW r, tasks' = [tasks EXCEPT ![t] = r], r.status # "queued"
      PROVE  Goal
  BY <1>0, <1>1
<1>2. ASSUME UNCHANGED storeVars
      PROVE  Goal
  BY <1>2 DEF storeVars
<1>3. ASSUME NEW t \in TaskIds, RequestTaskCancel(t)
      PROVE  Goal
  <2>1. /\ CanceledInQueue(tasks[t]).status = "canceled"
        /\ CancelAsked(tasks[t]).status = "canceling"
    BY <1>0 DEF CanceledInQueue, CancelAsked, Row
  <2> QED
    BY <1>1, <1>3, <2>1 DEF RequestTaskCancel, CancelQueued, CancelRunning
<1>4. ASSUME NEW t \in TaskIds, NEW n,
             \/ ClaimTask(t) \/ UpdateProgress(t, n) \/ SucceedTask(t, n)
             \/ MarkTaskCanceled(t, n)
             \/ \E retryable \in BOOLEAN : FailTask(t, n, retryable)
      PROVE  Goal
  <2>1. tasks[t] \in Row
    BY <1>0
  <2>2. CASE ClaimTask(t)
    BY <1>1, <2>1, <2>2 DEF ClaimTask, Claimed, Row
  <2>3. CASE UpdateProgress(t, n)
    BY <1>1, <2>1, <2>3 DEF UpdateProgress, ClaimHeld, Row
  <2>4. CASE SucceedTask(t, n)
    BY <1>1, <2>1, <2>4 DEF SucceedTask, Succeeded, Row
  <2>5. CASE MarkTaskCanceled(t, n)
    BY <1>1, <2>1, <2>5 DEF MarkTaskCanceled, Canceled, Row
  <2>6. CASE \E retryable \in BOOLEAN : FailTask(t, n, retryable)
    BY <1>1, <2>1, <2>6 DEF FailTask, Failed, Row
  <2> QED
    BY <1>4, <2>2, <2>3, <2>4, <2>5, <2>6
<1>5. ASSUME RecoverInterruptedTasks
      PROVE  Goal
  <2> SUFFICES ASSUME NEW t \in TaskIds, tasks'[t].status = "queued"
               PROVE  tasks[t].status = "queued"
    OBVIOUS
  <2>1. tasks[t] \in Row /\ tasks'[t] = Recovered(tasks[t])
    BY <1>0, <1>5 DEF RecoverInterruptedTasks
  <2> QED
    BY <2>1 DEF Recovered, Row
<1>6. ASSUME NEW w \in Workers, WorkerStep(w) \/ WorkerFault(w)
      PROVE  Goal
  <2>1. pc[w] # "idle" => job[w] \in TaskIds
    BY DEF MInv, ThreadsInv
  <2>2. CASE UNCHANGED storeVars
    BY <1>2, <2>2
  <2>3. CASE ~UNCHANGED storeVars
    <3>1. \/ Claim(w) /\ ClaimTask(job[w])
          \/ Update(w) /\ UpdateProgress(job[w], token[w])
          \/ Succeed(w) /\ SucceedTask(job[w], token[w])
          \/ Fail(w) /\ \E retryable \in BOOLEAN : FailTask(job[w], token[w], retryable)
          \/ Cancel(w) /\ MarkTaskCanceled(job[w], token[w])
      BY <1>6, <2>3 DEF WorkerStep, PickUp, Claim, Check, Beat, Update, HandlerCheckpoint,
                        HandlerEnds, Succeed, Error, Fail, Settle, Cancel, Done, Release,
                        WorkerFault
    <3>2. pc[w] # "idle"
      BY <3>1 DEF Claim, Update, Succeed, Fail, Cancel
    <3> QED
      BY <1>4, <2>1, <3>1, <3>2
  <2> QED
    BY <2>2, <2>3
<1> HIDE DEF Goal
<1>7. Goal
  <2>1. CASE \E t \in TaskIds : RequestCancel(t) \/ QuiesceCancel(t)
    BY <1>2, <1>3, <2>1 DEF RequestCancel, QuiesceCancel
  <2>2. CASE Start
    BY <1>5, <2>2 DEF Start
  <2>3. CASE \/ Dispatcher \/ DispatcherDies \/ QuiesceStart \/ QuiesceList \/ QuiesceWait
             \/ QuiesceAgain \/ Shutdown \/ DropPending \/ Exit \/ Crash \/ UNCHANGED vars
    <3>1. UNCHANGED storeVars
      BY <2>3 DEF Dispatcher, DispatchList, DispatchSubmit, DispatcherDies, QuiesceStart,
                  QuiesceList, QuiesceWait, QuiesceAgain, Shutdown, DropPending, Exit, Crash,
                  vars, storeVars
    <3> QED
      BY <1>2, <3>1
  <2> QED
    BY <1>6, <2>1, <2>2, <2>3 DEF MNext, Quiesce, Enqueue, Replay, Retry, Accepting
<1> QED
  BY <1>7 DEF Goal

LEMMA StepQuiesce ==
    ASSUME MInv, [MNext]_vars
    PROVE  QuiesceInv'
<1>0. /\ QuiesceInv /\ mode \in {"down", "open", "quiescing", "closed"}
      /\ mode # "open" =>
            \A t \in TaskIds : tasks'[t].status = "queued" => tasks[t].status = "queued"
  BY NoneQueued DEF MInv, MTypeOK
<1>1. CASE qpc' = "none"
  BY <1>1 DEF QuiesceInv
<1>2. CASE QuiesceStart \/ QuiesceList \/ QuiesceWait \/ QuiesceAgain
  <2>1. CASE QuiesceStart
    BY <2>1 DEF QuiesceStart, QuiesceInv
  <2>2. CASE QuiesceList
    BY <1>0, <2>2 DEF QuiesceList, QuiesceInv, storeVars
  <2>3. CASE QuiesceWait
    BY <1>0, <2>3 DEF QuiesceWait, QuiesceInv, storeVars, queueVars
  <2>4. CASE QuiesceAgain
    BY <1>0, <2>4 DEF QuiesceAgain, QuiesceInv
  <2> QED
    BY <1>2, <2>1, <2>2, <2>3, <2>4
<1>3. CASE UNCHANGED qpc /\ qpc # "none"
  <2>1. mode # "open" /\ mode # "down"
    BY <1>0, <1>3 DEF QuiesceInv
  <2>2. mode' \in {"quiescing", "closed"}
    <3>1. UNCHANGED mode \/ QuiesceStart \/ Start \/ Shutdown \/ Exit \/ Crash
      BY ZenonT(60)
         DEF MNext, Enqueue, Replay, Retry, Notify, RequestCancel, mgrVars, Dispatcher,
             DispatchList, DispatchSubmit, DispatcherDies, WorkerStep, WorkerFault,
             PickUp, Claim, Check, Beat, Update, HandlerCheckpoint, HandlerEnds, Succeed,
             Error, Fail, Settle, Cancel, Done, Release, Goto, Quiesce, QuiesceList,
             QuiesceCancel, QuiesceWait, QuiesceAgain, DropPending, vars
    <3> QED
      BY <1>0, <1>3, <2>1, <3>1
         DEF QuiesceInv, QuiesceStart, Start, Shutdown, Exit, Crash, Reset
  <2>3. scheduled' \subseteq scheduled
    <3>1. CASE Quiet
      BY <2>1, <3>1 DEF Quiet, queueVars, Submit, MaySubmit, Accepting, DropPending
    <3>2. ASSUME NEW w \in Workers, \/ PickUp(w) \/ Done(w) \/ Release(w) \/ Claim(w)
                                    \/ \E next \in WorkerPcs : Moves(w, next)
          PROVE  scheduled' \subseteq scheduled
      BY <3>2 DEF PickUp, Done, Release, Claim, Moves, queueVars
    <3>3. CASE Exit \/ Crash
      BY <3>3 DEF Exit, Crash, Reset
    <3> QED
      BY <3>1, <3>2, <3>3, Shapes
  <2> QED
    BY <1>0, <1>3, <2>1, <2>2, <2>3 DEF QuiesceInv
<1>4. \/ UNCHANGED qpc \/ qpc' = "none"
      \/ QuiesceStart \/ QuiesceList \/ QuiesceWait \/ QuiesceAgain
  <2>1. CASE Quiet
    BY ZenonT(60)
       DEF MNext, Enqueue, Replay, Retry, Notify, RequestCancel, mgrVars, Dispatcher,
           DispatchList, DispatchSubmit, DispatcherDies, WorkerStep, WorkerFault,
           PickUp, Claim, Check, Beat, Update, HandlerCheckpoint, HandlerEnds, Succeed,
           Error, Fail, Settle, Cancel, Done, Release, Goto, otherVars, Quiesce,
           QuiesceCancel, DropPending, Start, Shutdown, Exit, Crash, Reset, vars
  <2>2. CASE ~Quiet
    BY <2>2, Shapes DEF PickUp, Done, Release, Claim, Moves, otherVars, Exit, Crash, Reset
  <2> QED
    BY <2>1, <2>2
<1> QED
  BY <1>1, <1>2, <1>3, <1>4

LEMMA StepOrphans ==
    ASSUME MInv, [MNext]_vars
    PROVE  OrphansInv'
<1> SUFFICES ASSUME mode' # "down"
             PROVE  (IsFiniteSet(Orphans) /\ Cardinality(Orphans) <= faults)'
  BY DEF OrphansInv
<1>0. /\ pc \in [Workers -> WorkerPcs] /\ job \in [Workers -> TaskIds \cup {NoTask}]
      /\ token \in [Workers -> Nat] /\ faults \in Nat /\ ThreadsInv
      /\ tasks \in [TaskIds -> Row]
  BY DEF MInv, MTypeOK, StoreInv, TypeOK
<1>1. \A t \in TaskIds :
         Owned(t) <=> \E w \in Workers : Working(w) /\ job[w] = t /\ token[w] = tasks[t].claim
  BY DEF Owned, Working
<1>2. \A t \in TaskIds :
         Owned(t)' <=> \E w \in Workers : Working(w)' /\ job'[w] = t /\ token'[w] = tasks'[t].claim
  BY DEF Owned, Working
<1>3. CASE mode = "down"
  <2>1. RecoverInterruptedTasks /\ faults' \in {faults, faults + 1}
    <3>1. CASE Quiet
      BY <1>3, <3>1 DEF Quiet
    <3>2. CASE ~Quiet
      BY <1>3, <3>2, Shapes DEF PickUp, Done, Release, Claim, Moves, Exit, Crash, Reset
    <3> QED
      BY <3>1, <3>2
  <2>2. ASSUME NEW t \in TaskIds
        PROVE  tasks'[t].status \notin {"running", "canceling"}
    <3>1. tasks[t] \in Row /\ tasks'[t] = Recovered(tasks[t])
      BY <1>0, <2>1 DEF RecoverInterruptedTasks
    <3> QED
      BY <3>1 DEF Recovered, Row
  <2>3. Orphans' = {}
    BY <2>2 DEF Orphans
  <2> QED
    BY <1>0, <2>1, <2>3, FS_EmptySet
<1>4. CASE mode # "down"
  <2>0. IsFiniteSet(Orphans) /\ Cardinality(Orphans) <= faults /\ Cardinality(Orphans) \in Nat
    BY <1>4, FS_CardinalityType DEF MInv, OrphansInv
  <2>1. ASSUME Orphans' \subseteq Orphans, faults' \in {faults, faults + 1}
        PROVE  (IsFiniteSet(Orphans) /\ Cardinality(Orphans) <= faults)'
    <3>1. /\ IsFiniteSet(Orphans') /\ Cardinality(Orphans') <= Cardinality(Orphans)
          /\ Cardinality(Orphans') \in Nat
      BY <2>0, <2>1, FS_Subset, FS_CardinalityType
    <3>2. IsFiniteSet(Orphans') /\ Cardinality(Orphans') <= faults'
      BY <1>0, <2>0, <2>1, <3>1
    <3> QED
      BY <3>2
  <2>2. ASSUME NEW t, Orphans' \subseteq Orphans \cup {t}, faults' = faults + 1
        PROVE  (IsFiniteSet(Orphans) /\ Cardinality(Orphans) <= faults)'
    <3>1. /\ IsFiniteSet(Orphans \cup {t})
          /\ Cardinality(Orphans \cup {t}) <= Cardinality(Orphans) + 1
          /\ Cardinality(Orphans \cup {t}) \in Nat
      BY <2>0, FS_AddElement, FS_CardinalityType
    <3>2. /\ IsFiniteSet(Orphans') /\ Cardinality(Orphans') <= Cardinality(Orphans \cup {t})
          /\ Cardinality(Orphans') \in Nat
      BY <2>2, <3>1, FS_Subset, FS_CardinalityType
    <3>3. IsFiniteSet(Orphans') /\ Cardinality(Orphans') <= faults'
      BY <1>0, <2>0, <2>2, <3>1, <3>2
    <3> QED
      BY <3>3
  \* Threads keep what they own.
  <2>3. ASSUME ClaimsKept, \A w \in Workers : Working(w) =>
                              Working(w)' /\ job'[w] = job[w] /\ token'[w] = token[w]
        PROVE  Orphans' \subseteq Orphans
    BY <1>1, <1>2, <2>3 DEF Orphans, ClaimsKept
  <2>4. CASE Quiet
    <3>1. Orphans' \subseteq Orphans
      BY <2>3, <2>4 DEF Quiet, threadVars, Working
    <3> QED
      BY <2>1, <2>4, <3>1 DEF Quiet
  <2>5. ASSUME NEW w \in Workers, PickUp(w) \/ Done(w) \/ Release(w)
        PROVE  (IsFiniteSet(Orphans) /\ Cardinality(Orphans) <= faults)'
    <3>1. ClaimsKept
      BY <2>5 DEF PickUp, Done, Release, ClaimsKept, storeVars
    <3>2. ~Working(w) /\ \A v \in Workers \ {w} : /\ pc'[v] = pc[v]
                                                  /\ job'[v] = job[v] /\ token'[v] = token[v]
      BY <1>0, <2>5 DEF PickUp, Done, Release, Working
    <3>3. Orphans' \subseteq Orphans
      BY <2>3, <3>1, <3>2 DEF Working
    <3> QED
      BY <2>1, <2>5, <3>3 DEF PickUp, Done, Release, otherVars
  <2>6. ASSUME NEW w \in Workers, Claim(w), ClaimTask(job[w])
        PROVE  (IsFiniteSet(Orphans) /\ Cardinality(Orphans) <= faults)'
    <3>1. /\ pc[w] = "claim" /\ job[w] \in TaskIds /\ tasks[job[w]] \in Row
          /\ pc'[w] = "firstCheck" /\ token'[w] = tasks[job[w]].claims + 1 /\ job' = job
      BY <1>0, <2>6 DEF Claim, ClaimTask, ThreadsInv
    <3>2. ~Working(w) /\ \A v \in Workers \ {w} : pc'[v] = pc[v] /\ token'[v] = token[v]
      BY <1>0, <2>6, <3>1 DEF Claim, Working
    <3>3. /\ tasks'[job[w]].claim = tasks[job[w]].claims + 1
          /\ \A t \in TaskIds \ {job[w]} : tasks'[t] = tasks[t]
      BY <1>0, <2>6, <3>1 DEF ClaimTask, Claimed, Row
    <3>4. Owned(job[w])'
      BY <3>1, <3>3 DEF Owned
    <3>5. Orphans' \subseteq Orphans
      BY <1>1, <1>2, <3>1, <3>2, <3>3, <3>4 DEF Orphans, Working
    <3> QED
      BY <2>1, <2>6, <3>5 DEF Claim, otherVars
  <2>7. ASSUME NEW w \in Workers, ClaimsKept, NEW next \in WorkerPcs, Moves(w, next)
        PROVE  (IsFiniteSet(Orphans) /\ Cardinality(Orphans) <= faults)'
    <3>1. /\ UNCHANGED <<job, token>> /\ pc'[w] = next
          /\ next \notin {"idle", "claim", "release"}
          /\ faults' \in {faults, faults + 1}
          /\ \A v \in Workers \ {w} : pc'[v] = pc[v]
      BY <1>0, <2>7 DEF Moves
    <3>2. CASE next # "done"
      <4>1. Orphans' \subseteq Orphans
        BY <2>3, <2>7, <3>1, <3>2 DEF Working
      <4> QED
        BY <2>1, <3>1, <4>1
    <3>3. CASE next = "done" /\ faults' = faults + 1
      <4>1. Orphans' \subseteq Orphans \cup {job[w]}
        BY <1>1, <1>2, <2>7, <3>1 DEF Orphans, ClaimsKept, Working
      <4> QED
        BY <2>2, <3>3, <4>1
    <3>4. CASE next = "done" /\ UNCHANGED faults
      <4>1. Working(w) => ~HeldAfter(w)
        BY <2>7, <3>4 DEF Moves, Working
      <4>2. Orphans' \subseteq Orphans
        BY <1>1, <1>2, <2>7, <3>1, <4>1 DEF Orphans, ClaimsKept, Working, HeldAfter
      <4> QED
        BY <2>1, <3>4, <4>2
    <3> QED
      BY <3>1, <3>2, <3>3, <3>4
  <2>8. CASE Exit \/ Crash
    BY <2>8 DEF Exit, Crash, Reset
  <2> QED
    BY <2>4, <2>5, <2>6, <2>7, <2>8, Shapes
<1> QED
  BY <1>3, <1>4

----------------------------------------------------------------------------
(***************************************************************************)
(* The list of the dispatcher.                                             *)
(***************************************************************************)

\* A finite set of rows queued at different ticks can be listed oldest first:
\* the place of a row is the number of rows not younger than it.
LEMMA ListedInOrder ==
    ASSUME NEW S, IsFiniteSet(S), \A t \in S : tasks[t].avail \in Nat,
           \A t, u \in S : tasks[t].avail = tasks[u].avail => t = u
    PROVE  InOrder(S) \in Seq(S)
<1> DEFINE n == Cardinality(S)
           Upto(t) == { u \in S : tasks[u].avail <= tasks[t].avail }
           rank == [t \in S |-> Cardinality(Upto(t))]
<1>1. n \in Nat
  BY FS_CardinalityType
<1>2. ASSUME NEW t \in S
      PROVE  IsFiniteSet(Upto(t)) /\ rank[t] \in 1..n
  <2>1. IsFiniteSet(Upto(t)) /\ Cardinality(Upto(t)) <= n
    BY FS_Subset
  <2>2. Cardinality(Upto(t)) \in Nat
    BY <2>1, FS_CardinalityType
  <2>3. t \in Upto(t)
    OBVIOUS
  <2>4. Cardinality(Upto(t)) # 0
    BY <2>1, <2>3, FS_EmptySet
  <2> QED
    BY <1>1, <2>1, <2>2, <2>4
<1>3. ASSUME NEW t \in S, NEW u \in S, tasks[t].avail < tasks[u].avail
      PROVE  rank[t] < rank[u]
  <2>1. Upto(t) \subseteq Upto(u) /\ u \in Upto(u) /\ u \notin Upto(t)
    BY <1>3
  <2> HIDE DEF Upto
  <2>2. /\ Cardinality(Upto(t)) <= Cardinality(Upto(u))
        /\ Cardinality(Upto(t)) # Cardinality(Upto(u))
    BY <1>2, <2>1, FS_Subset
  <2>3. rank[t] = Cardinality(Upto(t)) /\ rank[u] = Cardinality(Upto(u))
    OBVIOUS
  <2> HIDE DEF rank
  <2> QED
    BY <1>1, <1>2, <2>2, <2>3
<1>4. rank \in [S -> 1..n]
  BY <1>2
<1> HIDE DEF rank
<1>5. \A t, u \in S : rank[t] = rank[u] => t = u
  <2> SUFFICES ASSUME NEW t \in S, NEW u \in S, rank[t] = rank[u], t # u
               PROVE  FALSE
    OBVIOUS
  <2>1. tasks[t].avail < tasks[u].avail \/ tasks[u].avail < tasks[t].avail
    OBVIOUS
  <2>2. rank[t] \in Nat
    BY <1>1, <1>4
  <2> QED
    BY <1>3, <2>1, <2>2
<1>6. rank \in Injection(S, 1..n)
  BY <1>4, <1>5 DEF Injection, IsInjective
<1>7. IsFiniteSet(1..n) /\ Cardinality(1..n) = n
  <2>1. 1 \in Int /\ n \in Int /\ (1 > n => n = 0)
    BY <1>1
  <2>2. IsFiniteSet(1..n) /\ Cardinality(1..n) = IF 1 > n THEN 0 ELSE n - 1 + 1
    BY <2>1, FS_Interval
  <2> QED
    BY <1>1, <2>1, <2>2
<1>8. \A i \in 1..n : \E t \in S : rank[t] = i
  <2>1. rank \in Surjection(S, 1..n)
    BY <1>6, <1>7, FS_Injection
  <2> QED
    BY <2>1 DEF Surjection
<1> DEFINE s == [i \in 1..n |-> CHOOSE t \in S : rank[t] = i]
<1>9. s \in [1..n -> S] /\ \A i \in 1..n : rank[s[i]] = i
  BY <1>8
<1> HIDE DEF s
<1>10. \A i, k \in DOMAIN s : i < k => tasks[s[i]].avail < tasks[s[k]].avail
  <2> SUFFICES ASSUME NEW i \in 1..n, NEW k \in 1..n, i < k
               PROVE  tasks[s[i]].avail < tasks[s[k]].avail
    BY <1>9
  <2>1. s[i] \in S /\ s[k] \in S /\ rank[s[i]] = i /\ rank[s[k]] = k
    BY <1>9
  <2>2. tasks[s[i]].avail # tasks[s[k]].avail
    BY <1>1, <2>1
  <2>3. ~(tasks[s[k]].avail < tasks[s[i]].avail)
    BY <1>1, <1>3, <2>1
  <2> QED
    BY <2>1, <2>2, <2>3
<1>11. InOrder(S) \in [1..n -> S]
  BY <1>9, <1>10 DEF InOrder
<1> QED
  BY <1>1, <1>11

LEMMA ListedType ==
    ASSUME MInv
    PROVE  InOrder(ListRunnable(Capacity)) \in Seq(TaskIds)
<1> DEFINE S == ListRunnable(Capacity)
<1>1. S \subseteq { t \in TaskIds : Exists(t) }
  BY DEF ListRunnable, Exists
<1>2. IsFiniteSet({ t \in TaskIds : Exists(t) })
  BY DEF MInv, CountsInv
<1>3. \A t \in TaskIds : tasks[t].avail \in Nat
  BY DEF MInv, StoreInv, TypeOK, Row
<1>4. \A t, u \in TaskIds :
         Exists(t) /\ Exists(u) /\ tasks[t].avail = tasks[u].avail => t = u
  BY DEF MInv, AvailInv
<1> HIDE DEF S
<1>5. IsFiniteSet(S)
  BY <1>1, <1>2, FS_Subset
<1>6. \A t \in S : t \in TaskIds /\ Exists(t)
  BY <1>1
<1>7. InOrder(S) \in Seq(S)
  BY <1>3, <1>4, <1>5, <1>6, ListedInOrder
<1> QED
  BY <1>6, <1>7 DEF S

LEMMA StepMType ==
    ASSUME MInv, CountsInv', [MNext]_vars
    PROVE  MTypeOK'
<1>0. MTypeOK /\ ThreadsInv /\ QueueInv
  BY DEF MInv
<1>1. permits' \in 0..Capacity /\ scheduled' \subseteq TaskIds /\ pool' \in Seq(TaskIds)
  <2>1. permits' \in Nat /\ scheduled' \subseteq TaskIds /\ pool' \in Seq(TaskIds)
    <3>0. permits \in Nat /\ scheduled \subseteq TaskIds /\ pool \in Seq(TaskIds)
      BY <1>0 DEF MTypeOK
    <3>1. CASE UNCHANGED queueVars
      BY <3>0, <3>1 DEF queueVars
    <3>2. ASSUME NEW t \in TaskIds, Submit(t)
          PROVE  permits' \in Nat /\ scheduled' \subseteq TaskIds /\ pool' \in Seq(TaskIds)
      BY <3>0, <3>1, <3>2 DEF Submit, MaySubmit
    <3>3. CASE DropPending
      BY <3>0, <3>3 DEF DropPending
    <3>4. ASSUME NEW w \in Workers, \/ PickUp(w) \/ Done(w) \/ Release(w) \/ Claim(w)
                                    \/ \E next \in WorkerPcs : Moves(w, next)
          PROVE  permits' \in Nat /\ scheduled' \subseteq TaskIds /\ pool' \in Seq(TaskIds)
      <4>1. pool # << >> => Tail(pool) \in Seq(TaskIds)
        BY <3>0
      <4> QED
        BY <3>0, <3>4, <4>1
           DEF PickUp, Done, Release, Claim, Moves, queueVars, FreedPermits
    <3>5. CASE Exit \/ Crash
      <4>1. permits' = Capacity /\ scheduled' = {} /\ pool' = << >>
        BY <3>5 DEF Exit, Crash, Reset
      <4> QED
        BY <4>1, ManagerAssumption
    <3> QED
      BY <3>1, <3>2, <3>3, <3>4, <3>5, Shapes DEF Quiet
  <2>2. /\ IsFiniteSet(scheduled') /\ IsFiniteSet(Busy')
        /\ permits' + Cardinality(scheduled') + Cardinality(Releasing') = Capacity
    BY DEF CountsInv, PermitsAccounted, Releasing
  <2>3. IsFiniteSet(Releasing')
    BY <2>2, FS_Subset DEF Releasing, Busy
  <2>4. Cardinality(scheduled') \in Nat /\ Cardinality(Releasing') \in Nat
    BY <2>2, <2>3, FS_CardinalityType
  <2> QED
    BY <2>1, <2>2, <2>4, ManagerAssumption
<1>2. /\ pc' \in [Workers -> WorkerPcs] /\ job' \in [Workers -> TaskIds \cup {NoTask}]
      /\ token' \in [Workers -> Nat] /\ stale' \subseteq Workers
  <2> USE <1>0 DEF MTypeOK, WorkerPcs
  <2>1. CASE Quiet
    BY <2>1 DEF Quiet, threadVars
  <2>2. ASSUME NEW w \in Workers, PickUp(w)
        PROVE  /\ pc' \in [Workers -> WorkerPcs] /\ job' \in [Workers -> TaskIds \cup {NoTask}]
               /\ token' \in [Workers -> Nat] /\ stale' \subseteq Workers
    BY <2>2 DEF PickUp
  <2>3. ASSUME NEW w \in Workers, Done(w) \/ Release(w)
        PROVE  /\ pc' \in [Workers -> WorkerPcs] /\ job' \in [Workers -> TaskIds \cup {NoTask}]
               /\ token' \in [Workers -> Nat] /\ stale' \subseteq Workers
    <3>1. CASE Done(w)
      BY <3>1 DEF Done
    <3>2. CASE Release(w)
      BY <3>2 DEF Release
    <3> QED
      BY <2>3, <3>1, <3>2
  <2>4. ASSUME NEW w \in Workers, Claim(w), ClaimTask(job[w])
        PROVE  /\ pc' \in [Workers -> WorkerPcs] /\ job' \in [Workers -> TaskIds \cup {NoTask}]
               /\ token' \in [Workers -> Nat] /\ stale' \subseteq Workers
    <3>1. tasks[job[w]].claims + 1 \in Nat
      BY <2>4, SMTT(30) DEF Claim, ThreadsInv, MInv, StoreInv, TypeOK, Row
    <3> QED
      BY <2>4, <3>1 DEF Claim, ClaimTask
  <2>5. ASSUME NEW w \in Workers, NEW next \in WorkerPcs, Moves(w, next)
        PROVE  /\ pc' \in [Workers -> WorkerPcs] /\ job' \in [Workers -> TaskIds \cup {NoTask}]
               /\ token' \in [Workers -> Nat] /\ stale' \subseteq Workers
    BY <2>5 DEF Moves
  <2>6. CASE Exit \/ Crash
    BY <2>6 DEF Exit, Crash, Busy
  <2> QED
    BY <2>1, <2>2, <2>3, <2>4, <2>5, <2>6, Shapes
<1>3. /\ mode' \in {"down", "open", "quiescing", "closed"}
      /\ starts' \in 0..MaxStarts /\ faults' \in 0..MaxFaults
  <2>0. MaxStarts \in Nat /\ MaxFaults \in Nat
    BY ManagerAssumption
  <2> USE <1>0, <2>0 DEF MTypeOK
  <2>1. CASE \E t \in TaskIds, req \in Requests : Enqueue(t, req) \/ Replay(t, req)
    BY <2>1 DEF Enqueue, Replay, Notify
  <2>2. CASE \E t \in TaskIds : Retry(t) \/ RequestCancel(t) \/ QuiesceCancel(t)
    BY <2>2 DEF Retry, Notify, RequestCancel, mgrVars, QuiesceCancel
  <2>3. CASE Dispatcher \/ DispatcherDies
    BY <2>3 DEF Dispatcher, DispatchList, DispatchSubmit, DispatcherDies
  <2>4. CASE QuiesceStart \/ QuiesceList \/ QuiesceWait \/ QuiesceAgain
    BY <2>4 DEF QuiesceStart, QuiesceList, QuiesceWait, QuiesceAgain
  <2>5. CASE Start \/ Shutdown \/ DropPending \/ Exit \/ Crash
    BY <2>5 DEF Start, Shutdown, DropPending, Exit, Crash, Reset, otherVars
  <2>6. ASSUME NEW w \in Workers, WorkerStep(w) \/ WorkerFault(w)
        PROVE  /\ mode' \in {"down", "open", "quiescing", "closed"}
               /\ starts' \in 0..MaxStarts /\ faults' \in 0..MaxFaults
    <3>1. CASE WorkerStep(w)
      <4>1. UNCHANGED <<mode, starts, faults>>
        BY <3>1 DEF WorkerStep, PickUp, Claim, Check, Beat, Update, HandlerCheckpoint,
                    HandlerEnds, Succeed, Error, Fail, Settle, Cancel, Done, Release,
                    Goto, otherVars
      <4> QED
        BY <4>1
    <3>2. CASE WorkerFault(w)
      BY <3>2 DEF WorkerFault
    <3> QED
      BY <2>6, <3>1, <3>2
  <2>7. CASE UNCHANGED vars
    BY <2>7 DEF vars, mgrVars
  <2> QED
    BY <2>1, <2>2, <2>3, <2>4, <2>5, <2>6, <2>7 DEF MNext, Quiesce
<1>4. /\ dpc' \in {"list", "submit", "exit"} /\ dlist' \in Seq(TaskIds)
      /\ qpc' \in {"none", "queued", "scheduled", "quiesced", "timeout"}
      /\ qlist' \subseteq TaskIds
  <2> USE <1>0 DEF MTypeOK
  <2>1. CASE \E t \in TaskIds, req \in Requests : Enqueue(t, req) \/ Replay(t, req)
    BY <2>1 DEF Enqueue, Replay, Notify
  <2>2. CASE \E t \in TaskIds : Retry(t) \/ RequestCancel(t) \/ QuiesceCancel(t)
    BY <2>2 DEF Retry, Notify, RequestCancel, mgrVars, QuiesceCancel
  <2>3. CASE DispatchList
    BY <2>3, ListedType DEF DispatchList
  <2>4. CASE DispatchSubmit
    <3>1. Tail(dlist) \in Seq(TaskIds)
      BY <2>4 DEF DispatchSubmit, QueueInv
    <3> QED
      BY <2>4, <3>1 DEF DispatchSubmit
  <2>5. CASE \/ DispatcherDies \/ QuiesceStart \/ QuiesceList \/ QuiesceWait
             \/ QuiesceAgain
    BY <2>5 DEF DispatcherDies, QuiesceStart, QuiesceList, QuiesceWait, QuiesceAgain
  <2>6. CASE Start \/ Shutdown \/ DropPending \/ Exit \/ Crash
    <3>1. /\ dlist' = dlist \/ dlist' = << >>
          /\ dpc' = dpc \/ dpc' \in {"list", "exit"}
          /\ qpc' = qpc \/ qpc' = "none"
          /\ qlist' = qlist \/ qlist' = {}
      BY <2>6 DEF Start, Shutdown, DropPending, Exit, Crash, Reset, otherVars
    <3>2. dlist' \in Seq(TaskIds)
      <4>1. << >> \in Seq(TaskIds) /\ dlist \in Seq(TaskIds)
        OBVIOUS
      <4> QED
        BY <3>1, <4>1
    <3> QED
      BY <3>1, <3>2
  <2>7. ASSUME NEW w \in Workers, WorkerStep(w) \/ WorkerFault(w)
        PROVE  UNCHANGED <<dpc, dlist, qpc, qlist>>
    BY <2>7 DEF WorkerStep, WorkerFault, PickUp, Claim, Check, Beat, Update,
                HandlerCheckpoint, HandlerEnds, Succeed, Error, Fail, Settle, Cancel,
                Done, Release, Goto, otherVars
  <2>8. CASE UNCHANGED vars
    BY <2>8 DEF vars, mgrVars
  <2> QED
    BY <2>1, <2>2, <2>3, <2>4, <2>5, <2>6, <2>7, <2>8 DEF MNext, Quiesce, Dispatcher
<1> QED
  BY <1>1, <1>2, <1>3, <1>4 DEF MTypeOK

----------------------------------------------------------------------------
(***************************************************************************)
(* The invariant is inductive.                                             *)
(***************************************************************************)

LEMMA MInitInv == ASSUME MInit PROVE MInv
<1>1. StoreInv
  BY InitInv DEF MInit
<1>2. \A t \in TaskIds : tasks[t] = NoRow /\ ~Exists(t) /\ tasks[t].status = "absent"
  BY DEF MInit, Init, Exists, NoRow
<1>3. BlankInv /\ AvailInv
  BY <1>2, BlankInit DEF AvailInv, MInit, Init, NoRow
<1>4. MTypeOK
  BY ManagerAssumption DEF MInit, MTypeOK, WorkerPcs
<1>5. ThreadsInv /\ QueueInv
  <2>1. \A w \in Workers : pc[w] = "idle" /\ token[w] = 0
    BY DEF MInit
  <2>2. pool = << >> /\ DOMAIN pool = {} /\ scheduled = {} /\ dpc = "exit" /\ stale = {}
    BY DEF MInit
  <2> QED
    BY <2>1, <2>2 DEF ThreadsInv, QueueInv, Working, Hand
<1>6. CountsInv
  <2>1. /\ Busy = {} /\ { t \in TaskIds : Exists(t) } = {} /\ scheduled = {}
        /\ { w \in Workers : pc[w] = "release" } = {} /\ permits = Capacity
    BY <1>2 DEF MInit, Busy
  <2>2. IsFiniteSet({}) /\ Cardinality({}) = 0 /\ Capacity \in Nat
    BY FS_EmptySet, ManagerAssumption
  <2>3. PermitsAccounted
    BY <2>1, <2>2 DEF PermitsAccounted
  <2>4. IsFiniteSet(Busy) /\ IsFiniteSet({ t \in TaskIds : Exists(t) })
    BY <2>1, <2>2
  <2> QED
    BY <2>1, <2>2, <2>3, <2>4 DEF CountsInv
<1>7. QuiesceInv /\ OrphansInv
  BY DEF MInit, QuiesceInv, OrphansInv
<1> QED
  BY <1>1, <1>3, <1>4, <1>5, <1>6, <1>7 DEF MInv

LEMMA MStepInv == ASSUME MInv, [MNext]_vars PROVE MInv'
<1>1. [Next]_storeVars
  BY StoreStep DEF MInv
<1>2. StoreInv'
  BY <1>1, StepTypeOK, RowsStep, StepOneActive, StepOneTask DEF MInv, StoreInv
<1>3. BlankInv'
  BY <1>1, BlankStep DEF MInv
<1>4. AvailInv'
  BY <1>1, StepAvail DEF MInv
<1>5. ThreadsInv'
  BY <1>2, StepThreads
<1>6. QueueInv'
  BY StepQueue
<1>7. CountsInv'
  BY StepFinite, StepPermits DEF CountsInv
<1>8. MTypeOK'
  BY <1>7, StepMType
<1>9. QuiesceInv' /\ OrphansInv'
  BY StepQuiesce, StepOrphans
<1> QED
  BY <1>2, <1>3, <1>4, <1>5, <1>6, <1>7, <1>8, <1>9 DEF MInv

\* Every reachable state of the manager has the inductive invariant.
THEOREM MInductive == MSpec => []MInv
<1>1. MInit => MInv
  BY MInitInv
<1>2. MInv /\ [MNext]_vars => MInv'
  BY MStepInv
<1> QED
  BY <1>1, <1>2, PTL DEF MSpec

----------------------------------------------------------------------------
(***************************************************************************)
(* What follows.                                                           *)
(***************************************************************************)

LEMMA QueueMeansOnce ==
    ASSUME MTypeOK, QueueInv
    PROVE  ScheduledOnce
<1> SUFFICES ASSUME NEW t \in TaskIds
             PROVE  Cardinality({ i \in DOMAIN pool : pool[i] = t })
                    + Cardinality({ w \in Workers \ stale :
                                      /\ job[w] = t /\ pc[w] \notin {"idle", "release"} })
                    = IF t \in scheduled THEN 1 ELSE 0
  BY DEF ScheduledOnce
<1> DEFINE waiting == { i \in DOMAIN pool : pool[i] = t }
           hands == { w \in Workers \ stale : /\ job[w] = t
                                              /\ pc[w] \notin {"idle", "release"} }
<1>1. hands = { w \in Workers : Hand(w) /\ job[w] = t }
  BY DEF Hand
<1>2. \A i, k \in waiting : i = k
  BY DEF QueueInv
<1>3. \A v, w \in hands : v = w
  BY <1>1 DEF QueueInv
<1>4. waiting = {} \/ hands = {}
  BY <1>1 DEF QueueInv
<1>5. t \in scheduled <=> waiting # {} \/ hands # {}
  BY <1>1 DEF QueueInv
<1> HIDE DEF waiting, hands
<1>6. /\ waiting # {} => \E i : waiting = {i}
      /\ hands # {} => \E w : hands = {w}
  <2>1. ASSUME waiting # {}
        PROVE  \E i : waiting = {i}
    <3>1. PICK i : i \in waiting
      BY <2>1
    <3>2. waiting = {i}
      BY <1>2, <3>1
    <3> QED
      BY <3>2
  <2>2. ASSUME hands # {}
        PROVE  \E w : hands = {w}
    <3>1. PICK w : w \in hands
      BY <2>2
    <3>2. hands = {w}
      BY <1>3, <3>1
    <3> QED
      BY <3>2
  <2> QED
    BY <2>1, <2>2
<1>7. Cardinality(waiting) = (IF waiting = {} THEN 0 ELSE 1)
  BY <1>6, FS_EmptySet, FS_Singleton
<1>8. Cardinality(hands) = (IF hands = {} THEN 0 ELSE 1)
  BY <1>6, FS_EmptySet, FS_Singleton
<1>9. Cardinality(waiting) + Cardinality(hands) = IF t \in scheduled THEN 1 ELSE 0
  BY <1>4, <1>5, <1>7, <1>8
<1> QED
  BY <1>9 DEF waiting, hands

\* The dispatcher's bookkeeping, for any number of tasks, threads and permits:
\* a permit is free or with one submission, a task is started once.
THEOREM SchedulingStaysSound == MSpec => []SchedulingSound
<1>1. MInv => SchedulingSound
  BY QueueMeansOnce DEF MInv, CountsInv, SchedulingSound
<1> QED
  BY <1>1, MInductive, PTL

\* Only failing database calls leave a running row without a thread, one row
\* each at most.
THEOREM RunningStaysOwned == MSpec => []RunningIsOwned
<1>1. MInv => RunningIsOwned
  <2>1. Orphans = { t \in TaskIds : /\ tasks[t].status \in {"running", "canceling"}
                                    /\ ~Owned(t) }
    BY DEF Orphans
  <2> QED
    BY <2>1 DEF MInv, OrphansInv, RunningIsOwned
<1> QED
  BY <1>1, MInductive, PTL

\* A quiesced process has no work left that it could still do itself.
THEOREM QuiescedStaysIdle == MSpec => []QuiescedIsIdle
<1>1. MInv => QuiescedIsIdle
  <2> SUFFICES ASSUME MInv, faults = 0, qpc = "quiesced", NEW t \in TaskIds,
                      tasks[t].status \in Active
               PROVE  \E w \in stale : job[w] = t /\ token[w] = tasks[t].claim
    BY DEF QuiescedIsIdle
  <2>1. tasks[t].status \in {"running", "canceling"}
    BY DEF MInv, QuiesceInv, Active
  <2>2. mode # "down" /\ scheduled = {}
    BY DEF MInv, QuiesceInv
  <2>3. IsFiniteSet(Orphans) /\ Cardinality(Orphans) <= 0
    BY <2>2 DEF MInv, OrphansInv
  <2>4. Cardinality(Orphans) \in Nat
    BY <2>3, FS_CardinalityType
  <2>5. Orphans = {}
    BY <2>3, <2>4, FS_EmptySet
  <2>6. Owned(t)
    BY <2>1, <2>5 DEF Orphans
  <2>7. PICK w \in Workers : Working(w) /\ job[w] = t /\ token[w] = tasks[t].claim
    BY <2>6 DEF Owned, Working
  <2>8. w \in stale
    BY <2>2, <2>7 DEF MInv, QueueInv, Hand, Working
  <2> QED
    BY <2>7, <2>8
<1> QED
  BY <1>1, MInductive, PTL

\* No two handlers of one process work for one active key: keys have one
\* active task (OneActivePerKey), and a claim has one thread.
THEOREM HandlersStayAlone == MSpec => []OneHandlerPerKey
<1>1. MInv => OneHandlerPerKey
  <2> SUFFICES ASSUME MInv, NEW v \in Workers, NEW w \in Workers, v # w,
                      Running(v), Running(w),
                      Held(v, {"running", "canceling"}), Held(w, {"running", "canceling"}),
                      tasks[job[v]].req.active # NoKey,
                      tasks[job[v]].req.active = tasks[job[w]].req.active
               PROVE  FALSE
    BY DEF OneHandlerPerKey
  <2>1. job[v] \in TaskIds /\ job[w] \in TaskIds
    BY DEF MInv, ThreadsInv, Running
  <2>2. /\ tasks[job[v]].status \in {"running", "canceling"}
        /\ tasks[job[w]].status \in {"running", "canceling"}
        /\ tasks[job[v]].claim = token[v] /\ tasks[job[w]].claim = token[w]
    BY DEF Held, ClaimHeld
  <2>3. job[v] = job[w]
    BY <2>1, <2>2 DEF MInv, StoreInv, OneActivePerKey, Active
  <2>4. token[v] # 0 /\ token[v] = token[w]
    BY <2>1, <2>2, <2>3 DEF MInv, StoreInv, RowsInv, RowInv
  <2>5. Working(v) /\ Working(w)
    BY <2>4 DEF MInv, ThreadsInv, Running, Working
  <2> QED
    BY <2>3, <2>4, <2>5 DEF MInv, ThreadsInv
<1> QED
  BY <1>1, MInductive, PTL

\* Whatever the manager does, it only ever runs transactions of the store: all
\* that is proved of the store holds of it.
THEOREM ManagerRunsStore == MSpec => Spec
<1>1. MInit => Init
  BY DEF MInit
<1>2. MInv /\ [MNext]_vars => [Next]_storeVars
  BY StoreStep DEF MInv
<1> QED
  BY <1>1, <1>2, MInductive, PTL DEF MSpec, Spec

----------------------------------------------------------------------------
(***************************************************************************)
(* The manager implements the life cycle of ADR-0006.  The store alone     *)
(* does not: mark_task_canceled also takes a running row.  A thread calls  *)
(* it only when it saw that its row is not running any more.               *)
(***************************************************************************)

\* One edge, or none, in the fields TaskLifecycle knows.
EdgeTaken(r, s) ==
    \/ r.status = "absent" /\ s.status = "queued" /\ s.attempt = 1
    \/ <<r.status, s.status>> \in Lifecycle!Edges /\ s.attempt = r.attempt
    \/ /\ r.status \in {"failed", "canceled"} /\ s.status = "queued"
       /\ s.attempt = r.attempt + 1 /\ s.attempt <= MaxAttempts
    \/ s.status = r.status /\ s.attempt = r.attempt

LEMMA EdgesAreNext ==
    ASSUME tasks \in [TaskIds -> Row], \A t \in TaskIds : EdgeTaken(tasks[t], tasks'[t])
    PROVE  Lifecycle!Next
<1>1. ASSUME NEW t \in TaskIds
      PROVE  \/ Lifecycle!Create(t) \/ Lifecycle!Advance(t)
             \/ Lifecycle!Retry(t) \/ Lifecycle!Stay(t)
  BY DEF EdgeTaken, Lifecycle!Create, Lifecycle!Advance, Lifecycle!Retry, Lifecycle!Stay
<1> QED
  BY <1>1 DEF Lifecycle!Next

LEMMA WrittenEdges ==
    ASSUME NEW r \in Row, NEW n \in Nat, NEW b \in BOOLEAN
    PROVE  /\ EdgeTaken(r, r)
           /\ \A req \in Requests : EdgeTaken(NoRow, Created(req, n))
           /\ r.status = "queued" => EdgeTaken(r, Claimed(r))
           /\ r.status = "queued" => EdgeTaken(r, CanceledInQueue(r))
           /\ r.status = "running" => EdgeTaken(r, CancelAsked(r))
           /\ EdgeTaken(r, [r EXCEPT !.progress = n])
           /\ r.status \in {"running", "canceling"} => EdgeTaken(r, Succeeded(r, n))
           /\ r.status = "running" => EdgeTaken(r, Failed(r, b))
           /\ r.status = "canceling" => EdgeTaken(r, Canceled(r))
           /\ r.status \in {"failed", "canceled"} /\ r.attempt < MaxAttempts =>
                 EdgeTaken(r, Retried(r, n))
           /\ EdgeTaken(r, Recovered(r))
<1> USE DEF Row, EdgeTaken, Lifecycle!Edges
<1>1. EdgeTaken(r, r) /\ EdgeTaken(r, [r EXCEPT !.progress = n])
  OBVIOUS
<1>2. \A req \in Requests : EdgeTaken(NoRow, Created(req, n))
  BY DEF Created, NoRow
<1>3. r.status = "queued" => EdgeTaken(r, Claimed(r)) /\ EdgeTaken(r, CanceledInQueue(r))
  BY DEF Claimed, CanceledInQueue
<1>4. r.status = "running" => EdgeTaken(r, CancelAsked(r)) /\ EdgeTaken(r, Failed(r, b))
  BY DEF CancelAsked, Failed
<1>5. r.status \in {"running", "canceling"} => EdgeTaken(r, Succeeded(r, n))
  BY DEF Succeeded
<1>6. r.status = "canceling" => EdgeTaken(r, Canceled(r))
  BY DEF Canceled
<1>7. r.status \in {"failed", "canceled"} /\ r.attempt < MaxAttempts => EdgeTaken(r, Retried(r, n))
  BY StoreAssumption DEF Retried
<1>8. EdgeTaken(r, Recovered(r))
  <2>1. CASE r.status \in {"running", "canceling"}
    BY <2>1 DEF Recovered
  <2>2. CASE r.status \notin {"running", "canceling"}
    BY <2>2 DEF Recovered
  <2> QED
    BY <2>1, <2>2
<1> QED
  BY <1>1, <1>2, <1>3, <1>4, <1>5, <1>6, <1>7, <1>8

LEMMA StepEdges ==
    ASSUME MInv, [MNext]_vars
    PROVE  \A t \in TaskIds : EdgeTaken(tasks[t], tasks'[t])
<1> DEFINE Goal == \A t \in TaskIds : EdgeTaken(tasks[t], tasks'[t])
<1>0. /\ tasks \in [TaskIds -> Row] /\ clock + 1 \in Nat /\ 0 \in Nat /\ TRUE \in BOOLEAN
      /\ \A t \in TaskIds : tasks[t] \in Row
  BY DEF MInv, StoreInv, TypeOK
<1>1. \A t \in TaskIds : EdgeTaken(tasks[t], tasks[t])
  BY <1>0, WrittenEdges
<1>2. ASSUME NEW t \in TaskIds, NEW r, tasks' = [tasks EXCEPT ![t] = r], EdgeTaken(tasks[t], r)
      PROVE  Goal
  <2>1. \A u \in TaskIds : tasks'[u] = IF u = t THEN r ELSE tasks[u]
    BY <1>0, <1>2
  <2> QED
    BY <1>1, <1>2, <2>1
<1>3. ASSUME NEW t \in TaskIds, NEW req \in Requests, CreateTask(t, req)
      PROVE  Goal
  <2>1. tasks[t] = NoRow
    BY <1>3 DEF CreateTask, MInv, BlankInv
  <2>2. EdgeTaken(NoRow, Created(req, clock + 1))
    BY <1>0, NoRowType, WrittenEdges
  <2> QED
    BY <1>2, <1>3, <2>1, <2>2 DEF CreateTask
<1>4. ASSUME NEW t \in TaskIds, ClaimTask(t) \/ RequestTaskCancel(t)
      PROVE  Goal
  <2>1. tasks[t] \in Row
    BY <1>0
  <2>2. /\ tasks[t].status = "queued" => EdgeTaken(tasks[t], Claimed(tasks[t]))
        /\ tasks[t].status = "queued" => EdgeTaken(tasks[t], CanceledInQueue(tasks[t]))
        /\ tasks[t].status = "running" => EdgeTaken(tasks[t], CancelAsked(tasks[t]))
    BY <1>0, <2>1, WrittenEdges
  <2> QED
    BY <1>2, <1>4, <2>2 DEF ClaimTask, RequestTaskCancel, CancelQueued, CancelRunning
<1>5. ASSUME NEW t \in TaskIds, RetryTask(t)
      PROVE  Goal
  <2>1. tasks[t] \in Row /\ tasks[t].status \in {"failed", "canceled"}
        /\ tasks[t].attempt < MaxAttempts
    BY <1>0, <1>5 DEF RetryTask, MayRetry
  <2>2. EdgeTaken(tasks[t], Retried(tasks[t], clock + 1))
    BY <1>0, <2>1, WrittenEdges
  <2> QED
    BY <1>2, <1>5, <2>2 DEF RetryTask
<1>6. ASSUME NEW t \in TaskIds, NEW n \in Nat, UpdateProgress(t, n) \/ SucceedTask(t, n)
      PROVE  Goal
  <2>1. tasks[t] \in Row
    BY <1>0
  <2>2. /\ EdgeTaken(tasks[t], [tasks[t] EXCEPT !.progress = n])
        /\ tasks[t].status \in {"running", "canceling"} =>
              EdgeTaken(tasks[t], Succeeded(tasks[t], n))
    BY <1>0, <2>1, WrittenEdges
  <2> QED
    BY <1>2, <1>6, <2>2 DEF UpdateProgress, SucceedTask, ClaimHeld
<1>7. ASSUME NEW t \in TaskIds, NEW n, NEW b \in BOOLEAN, FailTask(t, n, b)
      PROVE  Goal
  <2>1. tasks[t] \in Row /\ tasks[t].status = "running"
    BY <1>0, <1>7 DEF FailTask, ClaimHeld
  <2>2. EdgeTaken(tasks[t], Failed(tasks[t], b))
    BY <1>0, <2>1, WrittenEdges
  <2> QED
    BY <1>2, <1>7, <2>2 DEF FailTask
<1>8. ASSUME NEW t \in TaskIds, NEW n, MarkTaskCanceled(t, n),
             ~ClaimHeld(t, n, {"running"})
      PROVE  Goal
  <2>1. tasks[t] \in Row /\ tasks[t].status = "canceling"
    BY <1>0, <1>8 DEF MarkTaskCanceled, ClaimHeld
  <2>2. EdgeTaken(tasks[t], Canceled(tasks[t]))
    BY <1>0, <2>1, WrittenEdges
  <2> QED
    BY <1>2, <1>8, <2>2 DEF MarkTaskCanceled
<1>9. ASSUME RecoverInterruptedTasks
      PROVE  Goal
  <2> SUFFICES ASSUME NEW t \in TaskIds PROVE EdgeTaken(tasks[t], tasks'[t])
    OBVIOUS
  <2>1. tasks[t] \in Row /\ tasks'[t] = Recovered(tasks[t])
    BY <1>0, <1>9 DEF RecoverInterruptedTasks
  <2> QED
    BY <1>0, <2>1, WrittenEdges
<1>10. ASSUME UNCHANGED storeVars
       PROVE  Goal
  BY <1>1, <1>10 DEF storeVars
<1>11. ASSUME NEW w \in Workers, WorkerStep(w) \/ WorkerFault(w), ~UNCHANGED storeVars
       PROVE  Goal
  <2>1. \/ Claim(w) /\ ClaimTask(job[w])
        \/ Update(w) /\ UpdateProgress(job[w], token[w])
        \/ Succeed(w) /\ SucceedTask(job[w], token[w])
        \/ Fail(w) /\ \E b \in BOOLEAN : FailTask(job[w], token[w], b)
        \/ Cancel(w) /\ MarkTaskCanceled(job[w], token[w])
    BY <1>11 DEF WorkerStep, PickUp, Claim, Check, Beat, Update, HandlerCheckpoint,
                 HandlerEnds, Succeed, Error, Fail, Settle, Cancel, Done, Release, WorkerFault
  <2>2. pc[w] # "idle"
    BY <2>1 DEF Claim, Update, Succeed, Fail, Cancel
  <2>3. job[w] \in TaskIds /\ token[w] \in Nat
    BY <2>2 DEF MInv, ThreadsInv, MTypeOK
  <2>4. Cancel(w) => ~ClaimHeld(job[w], token[w], {"running"})
    BY DEF Cancel, MInv, ThreadsInv, Held
  <2> HIDE DEF Goal
  <2> QED
    BY <1>4, <1>6, <1>7, <1>8, <2>1, <2>3, <2>4
<1> HIDE DEF Goal
<1>12. Goal
  <2>1. CASE \E t \in TaskIds, req \in Requests : Enqueue(t, req) \/ Replay(t, req)
    BY <1>3, <1>10, <2>1 DEF Enqueue, Replay
  <2>2. CASE \E t \in TaskIds : Retry(t) \/ RequestCancel(t) \/ QuiesceCancel(t)
    BY <1>4, <1>5, <1>10, <2>2 DEF Retry, RequestCancel, QuiesceCancel
  <2>3. CASE Start
    BY <1>9, <2>3 DEF Start
  <2>4. CASE \/ Dispatcher \/ DispatcherDies \/ QuiesceStart \/ QuiesceList \/ QuiesceWait
             \/ QuiesceAgain \/ Shutdown \/ DropPending \/ Exit \/ Crash \/ UNCHANGED vars
    <3>1. UNCHANGED storeVars
      BY <2>4 DEF Dispatcher, DispatchList, DispatchSubmit, DispatcherDies, QuiesceStart,
                  QuiesceList, QuiesceWait, QuiesceAgain, Shutdown, DropPending, Exit, Crash,
                  vars, storeVars
    <3> QED
      BY <1>10, <3>1
  <2> QED
    BY <1>10, <1>11, <2>1, <2>2, <2>3, <2>4 DEF MNext, Quiesce
<1> QED
  BY <1>12 DEF Goal

\* The manager over its store keeps the public state machine: above all, a
\* task nobody asked to cancel is never canceled.
THEOREM ManagerKeepsLifecycle == MSpec => LifecycleSpec
<1>1. MInit => Lifecycle!Init
  <2> SUFFICES ASSUME MInit PROVE Lifecycle!Init
    OBVIOUS
  <2>1. \A t \in TaskIds : tasks[t].status = "absent" /\ tasks[t].attempt = 0
    BY DEF MInit, Init, NoRow
  <2> QED
    BY <2>1 DEF Lifecycle!Init
<1>2. MInv /\ [MNext]_vars => [Lifecycle!Next]_(Lifecycle!lifecycleVars)
  BY StepEdges, EdgesAreNext DEF MInv, StoreInv, TypeOK
<1> QED
  BY <1>1, <1>2, MInductive, PTL DEF MSpec, LifecycleSpec, Lifecycle!Spec
=============================================================================
