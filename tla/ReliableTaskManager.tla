------------------------ MODULE ReliableTaskManager ------------------------
(***************************************************************************)
(* backend/app/reliable_task_manager.py over the durable task table: the   *)
(* dispatcher thread, the bounded worker pool, the endpoints that enqueue, *)
(* cancel and retry, quiesce, shutdown, process exit and startup.          *)
(*                                                                         *)
(* A step is one database transaction, or one critical section of          *)
(* _state_lock or _scheduled_lock; threads interleave between steps.       *)
(* Enqueue and retry hold _state_lock from the commit to the wake-up, and  *)
(* every submit needs that lock, so each is one step.  Polling intervals   *)
(* and the wake event only decide when the dispatcher loops: left out.     *)
(***************************************************************************)
EXTENDS ReliableTaskStore

CONSTANTS Workers,      \* executor threads of all processes together
          MaxWorkers,   \* ThreadPoolExecutor(max_workers) of one manager
          Capacity,     \* _capacity: max_workers + max_queue_size
          NoTask,       \* the job of a thread that has none
          MaxStarts,    \* bound: process starts
          MaxFaults     \* bound: failing database calls ("database is locked")

ASSUME ManagerAssumption ==
    /\ NoTask \notin TaskIds
    /\ MaxWorkers \in Nat \ {0}
    /\ Capacity \in Nat \ {0}
    /\ MaxWorkers <= Capacity
    /\ MaxStarts \in Nat
    /\ MaxFaults \in Nat

\* Where a thread is in _execute_task.  check and beat are the two calls of
\* context.checkpoint (first: the one before the handler), done is the future
\* completing, release the part of _task_done after _scheduled.discard.
WorkerPcs == {"idle", "claim", "firstCheck", "firstBeat", "handler", "check",
              "beat", "update", "succeed", "error", "fail", "settle", "cancel",
              "done", "release"}

VARIABLES
    mode,       \* "down", "open", "quiescing" (_quiescing), "closed" (_closed)
    scheduled,  \* _scheduled
    permits,    \* free permits of _capacity
    pool,       \* executor work queue: futures not yet started
    pc, job, token,  \* per worker thread
    stale,      \* threads of an earlier process, still in a handler
    dpc, dlist, \* dispatcher thread and the rows it listed
    qpc, qlist, \* quiesce request and the ids it still has to cancel
    starts, faults

mgrVars == <<mode, scheduled, permits, pool, pc, job, token, stale, dpc, dlist,
             qpc, qlist, starts, faults>>
vars == <<tasks, events, clock, live, deleting, mgrVars>>

queueVars  == <<scheduled, permits, pool>>
threadVars == <<pc, job, token, stale>>
otherVars  == <<dpc, dlist, qpc, qlist, starts, faults>>

----------------------------------------------------------------------------

AcceptingMutant == mode # "closed"    \* forgets _quiescing

\* enqueue, retry and submit refuse once the manager quiesces or is closed.
Accepting == mode = "open"

MaySubmitMutant(t) == Accepting /\ permits > 0   \* forgets _scheduled

MaySubmit(t) == Accepting /\ t \notin scheduled /\ permits > 0

Submit(t) ==
    IF MaySubmit(t)
    THEN /\ scheduled' = scheduled \cup {t}
         /\ permits' = permits - 1
         /\ pool' = Append(pool, t)
    ELSE UNCHANGED queueVars

\* notify, best effort: a failing read is logged and the wake-up dropped.
Notify(t) ==
    /\ \/ Submit(t) /\ UNCHANGED faults
       \/ faults < MaxFaults /\ faults' = faults + 1 /\ UNCHANGED queueVars
    /\ UNCHANGED <<mode, threadVars, dpc, dlist, qpc, qlist, starts>>

Enqueue(t, req) == Accepting /\ CreateTask(t, req) /\ Notify(t)

\* The request is answered with the row it already has.
Replay(t, req) ==
    /\ Accepting
    /\ t \in IdemOwners(req)
    /\ tasks[t].req.fingerprint = req.fingerprint
    /\ tasks[t].status = "queued"
    /\ Notify(t)
    /\ UNCHANGED storeVars

Retry(t) == Accepting /\ RetryTask(t) /\ Notify(t)

\* Takes no lock of the manager.
RequestCancel(t) ==
    /\ mode \in {"open", "quiescing"}
    /\ RequestTaskCancel(t)
    /\ UNCHANGED mgrVars

----------------------------------------------------------------------------
\* Dispatcher thread: _dispatch_loop and dispatch_once.

\* The listed rows, oldest first.
InOrder(S) ==
    CHOOSE s \in [1..Cardinality(S) -> S] :
        \A i, k \in DOMAIN s : i < k => tasks[s[i]].avail < tasks[s[k]].avail

DispatchList ==
    /\ dpc = "list"
    /\ IF Accepting
       THEN /\ dlist' = InOrder(ListRunnable(Capacity))
            /\ dpc' = IF dlist' = << >> THEN "list" ELSE "submit"
       ELSE dpc' = "exit" /\ UNCHANGED dlist
    /\ UNCHANGED <<storeVars, mode, queueVars, threadVars, qpc, qlist, starts, faults>>

DispatchSubmit ==
    /\ dpc = "submit"
    /\ Submit(Head(dlist))
    /\ dlist' = Tail(dlist)
    /\ dpc' = IF dlist' = << >> THEN "list" ELSE "submit"
    /\ UNCHANGED <<storeVars, mode, threadVars, qpc, qlist, starts, faults>>

\* No handler around dispatch_once: a read that fails ends the thread.
DispatcherDies ==
    /\ dpc = "list" /\ Accepting
    /\ faults < MaxFaults /\ faults' = faults + 1
    /\ dpc' = "exit"
    /\ UNCHANGED <<storeVars, mode, queueVars, threadVars, dlist, qpc, qlist, starts>>

Dispatcher == DispatchList \/ DispatchSubmit

----------------------------------------------------------------------------
\* Worker threads: _execute_task.

Busy == { w \in Workers : pc[w] # "idle" }

Held(w, statuses) == ClaimHeld(job[w], token[w], statuses)

\* Thread w moves on, nothing else of the manager changes.
Goto(w, next) ==
    /\ pc' = [pc EXCEPT ![w] = next]
    /\ UNCHANGED <<mode, queueVars, job, token, stale, otherVars>>

PickUp(w) ==
    /\ pc[w] = "idle" /\ w \notin stale
    /\ pool # << >> /\ mode # "down"
    /\ Cardinality(Busy \ stale) < MaxWorkers
    /\ pool' = Tail(pool)
    /\ pc' = [pc EXCEPT ![w] = "claim"]
    /\ job' = [job EXCEPT ![w] = Head(pool)]
    /\ UNCHANGED <<storeVars, mode, scheduled, permits, token, stale, otherVars>>

Claim(w) ==
    /\ pc[w] = "claim"
    /\ IF tasks[job[w]].status = "queued"
       THEN /\ ClaimTask(job[w])
            /\ token' = [token EXCEPT ![w] = tasks[job[w]].claims + 1]
            /\ pc' = [pc EXCEPT ![w] = "firstCheck"]
       ELSE /\ pc' = [pc EXCEPT ![w] = "done"]
            /\ UNCHANGED <<storeVars, token>>
    /\ UNCHANGED <<mode, queueVars, job, stale, otherVars>>

\* What becomes of an exception raised by a checkpoint.  Inside a handler the
\* domain code sees it first: it may fail in its own way, or find its work
\* already published (auto cards) and return normally.
AfterCancel(first) == IF first THEN {"cancel"} ELSE {"cancel", "error", "succeed"}
AfterLost(first)   == IF first THEN {"settle"} ELSE {"settle", "error", "succeed"}

\* checkpoint, first half: cancellation_requested.
Check(w, first) ==
    /\ pc[w] = IF first THEN "firstCheck" ELSE "check"
    /\ \/ /\ Held(w, {"running"})
          /\ Goto(w, IF first THEN "firstBeat" ELSE "beat")
       \/ /\ Held(w, {"canceling"})
          /\ \E next \in AfterCancel(first) : Goto(w, next)
       \/ /\ ~Held(w, {"running", "canceling"})
          /\ \E next \in AfterLost(first) : Goto(w, next)
    /\ UNCHANGED storeVars

\* checkpoint, second half: heartbeat_task, which a cancellation that arrived
\* since the first half turns into a lost claim.
Beat(w, first) ==
    /\ pc[w] = IF first THEN "firstBeat" ELSE "beat"
    /\ \/ Held(w, {"running"}) /\ Goto(w, "handler")
       \/ /\ Held(w, {"running"}) /\ ~first
          /\ Len(events[job[w]]) < MaxEvents
          /\ Goto(w, "update")
       \/ /\ ~Held(w, {"running"})
          /\ \E next \in AfterLost(first) : Goto(w, next)
    /\ UNCHANGED storeVars

\* report_progress, after its checkpoint.
Update(w) ==
    /\ pc[w] = "update"
    /\ \/ UpdateProgress(job[w], token[w]) /\ Goto(w, "handler")
       \/ /\ ~Held(w, {"running"})
          /\ \E next \in AfterLost(FALSE) : Goto(w, next)
          /\ UNCHANGED storeVars

HandlerCheckpoint(w) ==
    pc[w] = "handler" /\ Goto(w, "check") /\ UNCHANGED storeVars

HandlerEnds(w) ==
    /\ pc[w] = "handler"
    /\ \E next \in {"succeed", "error"} : Goto(w, next)
    /\ UNCHANGED storeVars

Succeed(w) ==
    /\ pc[w] = "succeed"
    /\ \/ SucceedTask(job[w], token[w]) /\ Goto(w, "done")
       \/ /\ ~Held(w, {"running", "canceling"})
          /\ Goto(w, "settle") /\ UNCHANGED storeVars

ErrorRouteMutant(w) == "cancel"       \* forgets _is_canceling

\* The except branch: _is_canceling, false for a lost claim.
ErrorRoute(w) == IF Held(w, {"canceling"}) THEN "cancel" ELSE "fail"

Error(w) == pc[w] = "error" /\ Goto(w, ErrorRoute(w)) /\ UNCHANGED storeVars

LostRouteMutant == "done"             \* drops the cancellation it lost to

\* _fail_claim: a claim lost to a cancellation is settled, not dropped.
LostRoute == "settle"

Fail(w) ==
    /\ pc[w] = "fail"
    /\ \/ /\ \E retryable \in BOOLEAN : FailTask(job[w], token[w], retryable)
          /\ Goto(w, "done")
       \/ ~Held(w, {"running"}) /\ Goto(w, LostRoute) /\ UNCHANGED storeVars

\* _settle_canceling_claim
Settle(w) ==
    /\ pc[w] = "settle"
    /\ Goto(w, IF Held(w, {"canceling"}) THEN "cancel" ELSE "done")
    /\ UNCHANGED storeVars

\* _cancel_claim
Cancel(w) ==
    /\ pc[w] = "cancel"
    /\ \/ MarkTaskCanceled(job[w], token[w])
       \/ ~Held(w, {"running", "canceling"}) /\ UNCHANGED storeVars
    /\ Goto(w, "done")

\* _task_done.  A stale thread reports to a manager that is gone.
Done(w) ==
    /\ pc[w] = "done"
    /\ scheduled' = IF w \in stale THEN scheduled ELSE scheduled \ {job[w]}
    /\ pc' = [pc EXCEPT ![w] = IF w \in stale THEN "idle" ELSE "release"]
    /\ stale' = stale \ {w}
    /\ job' = [job EXCEPT ![w] = IF w \in stale THEN NoTask ELSE @]
    /\ token' = [token EXCEPT ![w] = 0]
    /\ UNCHANGED <<storeVars, mode, permits, pool, otherVars>>

FreedPermitsMutant == 0               \* never gives the permit back
FreedTwiceMutant == 2                 \* releases in the worker as well
FreedPermits == 1

Release(w) ==
    /\ pc[w] = "release"
    /\ permits' = permits + FreedPermits
    /\ pc' = [pc EXCEPT ![w] = "idle"]
    /\ job' = [job EXCEPT ![w] = NoTask]
    /\ UNCHANGED <<storeVars, mode, scheduled, pool, token, stale, otherVars>>

\* A database call that fails: inside the try the attempt is failed, outside
\* it the future ends with the exception and the row stays as it was.
WorkerFault(w) ==
    /\ faults < MaxFaults /\ faults' = faults + 1
    /\ \/ /\ pc[w] \in {"firstCheck", "firstBeat", "check", "beat", "update", "succeed"}
          /\ pc' = [pc EXCEPT ![w] = "error"]
       \/ /\ pc[w] \in {"claim", "error", "fail", "settle", "cancel"}
          /\ pc' = [pc EXCEPT ![w] = "done"]
    /\ UNCHANGED <<storeVars, mode, queueVars, job, token, stale, dpc, dlist,
                   qpc, qlist, starts>>

WorkerStep(w) ==
    \/ PickUp(w) \/ Claim(w)
    \/ \E first \in BOOLEAN : Check(w, first) \/ Beat(w, first)
    \/ Update(w) \/ HandlerCheckpoint(w) \/ HandlerEnds(w)
    \/ Succeed(w) \/ Error(w) \/ Fail(w) \/ Settle(w) \/ Cancel(w)
    \/ Done(w) \/ Release(w)

----------------------------------------------------------------------------
\* quiesce: cancel every queued row until none is listed, then every scheduled
\* id, then wait.  Each pass cancels a snapshot, one transaction per id.

QuiesceStart ==
    /\ mode = "open"
    /\ mode' = "quiescing"
    /\ qpc' = "queued" /\ qlist' = {}
    /\ UNCHANGED <<storeVars, queueVars, threadVars, dpc, dlist, starts, faults>>

QuiesceList ==
    /\ qpc = "queued" /\ qlist = {}
    /\ LET queued == { t \in TaskIds : tasks[t].status = "queued" } IN
         IF queued # {} THEN qlist' = queued /\ UNCHANGED qpc
                        ELSE qlist' = scheduled /\ qpc' = "scheduled"
    /\ UNCHANGED <<storeVars, mode, queueVars, threadVars, dpc, dlist, starts, faults>>

QuiesceCancel(t) ==
    /\ t \in qlist
    /\ qlist' = qlist \ {t}
    /\ \/ RequestTaskCancel(t)
       \/ tasks[t].status \notin {"queued", "running"} /\ UNCHANGED storeVars
    /\ UNCHANGED <<mode, queueVars, threadVars, dpc, dlist, qpc, starts, faults>>

\* The deadline may pass at any time before the last thread is done.
QuiesceWait ==
    /\ qpc = "scheduled" /\ qlist = {}
    /\ qpc' = IF scheduled = {} THEN "quiesced" ELSE "timeout"
    /\ UNCHANGED <<storeVars, mode, queueVars, threadVars, dpc, dlist, qlist, starts, faults>>

\* A host that got no confirmation may ask again.
QuiesceAgain ==
    /\ qpc = "timeout" /\ mode = "quiescing"
    /\ qpc' = "queued"
    /\ UNCHANGED <<storeVars, mode, queueVars, threadVars, dpc, dlist, qlist, starts, faults>>

Quiesce == \/ QuiesceList \/ QuiesceWait
           \/ \E t \in TaskIds : QuiesceCancel(t)

----------------------------------------------------------------------------
\* Process lifetime: lifespan in main.py.

Start ==
    /\ mode = "down" /\ starts < MaxStarts
    /\ starts' = starts + 1
    /\ RecoverInterruptedTasks
    /\ mode' = "open" /\ dpc' = "list"
    /\ UNCHANGED <<queueVars, threadVars, dlist, qpc, qlist, faults>>

\* shutdown(wait=False, cancel_futures=True), first half
Shutdown ==
    /\ mode \in {"open", "quiescing"} /\ qpc \notin {"queued", "scheduled"}
    /\ mode' = "closed"
    /\ UNCHANGED <<storeVars, queueVars, threadVars, otherVars>>

\* ... and second half: the futures that did not start are canceled.
DropPending ==
    /\ mode = "closed" /\ pool # << >>
    /\ scheduled' = scheduled \ { pool[i] : i \in DOMAIN pool }
    /\ permits' = permits + Len(pool)
    /\ pool' = << >>
    /\ UNCHANGED <<storeVars, mode, threadVars, otherVars>>

Reset == /\ mode' = "down" /\ scheduled' = {} /\ permits' = Capacity
         /\ pool' = << >> /\ dpc' = "exit" /\ dlist' = << >>
         /\ qpc' = "none" /\ qlist' = {}

\* The port is free, but the interpreter waits for busy threads at exit: they
\* outlive the manager, next to the process that starts after them.
Exit ==
    /\ mode = "closed" /\ pool = << >>
    /\ Reset
    /\ stale' = { w \in Busy : pc[w] # "release" }
    /\ pc' = [w \in Workers |-> IF pc[w] = "release" THEN "idle" ELSE pc[w]]
    /\ job' = [w \in Workers |-> IF pc[w] = "release" THEN NoTask ELSE job[w]]
    /\ UNCHANGED <<storeVars, token, starts, faults>>

\* Everything but the database is lost.
Crash ==
    /\ mode # "down"
    /\ Reset
    /\ pc' = [w \in Workers |-> "idle"]
    /\ job' = [w \in Workers |-> NoTask]
    /\ token' = [w \in Workers |-> 0]
    /\ stale' = {}
    /\ UNCHANGED <<storeVars, starts, faults>>

----------------------------------------------------------------------------

MInit == /\ Init
         /\ mode = "down" /\ scheduled = {} /\ permits = Capacity /\ pool = << >>
         /\ pc = [w \in Workers |-> "idle"]
         /\ job = [w \in Workers |-> NoTask]
         /\ token = [w \in Workers |-> 0]
         /\ stale = {}
         /\ dpc = "exit" /\ dlist = << >>
         /\ qpc = "none" /\ qlist = {}
         /\ starts = 0 /\ faults = 0

MNext == \/ \E t \in TaskIds, req \in Requests : Enqueue(t, req) \/ Replay(t, req)
         \/ \E t \in TaskIds : Retry(t) \/ RequestCancel(t)
         \/ Dispatcher \/ DispatcherDies
         \/ \E w \in Workers : WorkerStep(w) \/ WorkerFault(w)
         \/ QuiesceStart \/ Quiesce \/ QuiesceAgain
         \/ Start \/ Shutdown \/ DropPending \/ Exit \/ Crash

MSpec == MInit /\ [][MNext]_vars

\* Threads that can run do, and a handler has finitely many checkpoints.
\* Nothing makes a host quiesce, a user cancel, or a process stop or start.
Fairness == /\ WF_vars(Dispatcher)
            /\ WF_vars(Quiesce)
            /\ \A w \in Workers : WF_vars(WorkerStep(w)) /\ SF_vars(HandlerEnds(w))

FairSpec == MSpec /\ Fairness

----------------------------------------------------------------------------

MTypeOK ==
    /\ mode \in {"down", "open", "quiescing", "closed"}
    /\ scheduled \subseteq TaskIds
    /\ permits \in 0..Capacity
    /\ pool \in Seq(TaskIds) /\ dlist \in Seq(TaskIds)
    /\ pc \in [Workers -> WorkerPcs]
    /\ job \in [Workers -> TaskIds \cup {NoTask}]
    /\ token \in [Workers -> Nat]
    /\ stale \subseteq Workers
    /\ dpc \in {"list", "submit", "exit"}
    /\ qpc \in {"none", "queued", "scheduled", "quiesced", "timeout"}
    /\ qlist \subseteq TaskIds
    /\ starts \in 0..MaxStarts /\ faults \in 0..MaxFaults

Running(w) == pc[w] \notin {"idle", "done", "release"} /\ w \notin stale

\* A permit is either free or with exactly one submission: it is lost neither
\* when the future is canceled nor when it ends, so the pool never shrinks.
PermitsAccounted ==
    permits + Cardinality(scheduled)
            + Cardinality({ w \in Workers : pc[w] = "release" }) = Capacity

\* A scheduled task is in the pool once or in one thread's hands, never both:
\* duplicate enqueue, replay, retry and dispatch start it once.
ScheduledOnce ==
    \A t \in TaskIds :
        LET waiting == { i \in DOMAIN pool : pool[i] = t }
            hands == { w \in Workers \ stale : /\ job[w] = t
                                               /\ pc[w] \notin {"idle", "release"} }
        IN Cardinality(waiting) + Cardinality(hands)
           = IF t \in scheduled THEN 1 ELSE 0

\* The dispatcher's bookkeeping, whoever enqueues, retries or restarts.
SchedulingSound == MTypeOK /\ PermitsAccounted /\ ScheduledOnce

\* A running or canceling row has a thread that holds its claim and will settle
\* it.  The only way to lose that thread in a live process is a database call
\* that fails, and each such call loses one row: over a start, recovery, stale
\* threads, retry and cancellation no other row is left behind.  (A run with one
\* row says this for faults = 0; RunningStaysOwned says it for any number.)
Owned(t) ==
    \E w \in Workers : /\ pc[w] \notin {"idle", "claim", "done", "release"}
                       /\ job[w] = t /\ token[w] = tasks[t].claim

RunningIsOwned ==
    mode # "down" =>
        Cardinality({ t \in TaskIds : /\ tasks[t].status \in {"running", "canceling"}
                                      /\ ~Owned(t) }) <= faults

\* quiesce answers "quiesced" only when no work is left that a process of its
\* own could still do: a row may be active in the hands of a stale thread only.
\* It is stated where no database call has failed: such a call leaves a row
\* active that nobody works on.
QuiescedIsIdle ==
    faults = 0 /\ qpc = "quiesced" =>
        \A t \in TaskIds :
            tasks[t].status \in Active =>
                \E w \in stale : job[w] = t /\ token[w] = tasks[t].claim

\* Two handlers never work for one active key at a time in one process.
OneHandlerPerKey ==
    \A v, w \in Workers :
        /\ v # w /\ Running(v) /\ Running(w)
        /\ Held(v, {"running", "canceling"}) /\ Held(w, {"running", "canceling"})
        => tasks[job[v]].req.active = NoKey
           \/ tasks[job[v]].req.active # tasks[job[w]].req.active

\* The whole executor keeps the state machine of ADR-0006: above all, a task
\* nobody asked to cancel is never canceled.
Lifecycle == INSTANCE TaskLifecycle
                 WITH status <- [t \in TaskIds |-> tasks[t].status],
                      attempt <- [t \in TaskIds |-> tasks[t].attempt]
LifecycleSpec == Lifecycle!Spec

\* A queued task is picked up, canceled, or outlived by its process.
QueuedRuns ==
    \A t \in TaskIds :
        tasks[t].status = "queued" /\ mode = "open"
        ~> tasks[t].status # "queued" \/ mode # "open"

\* A cancellation request is answered by the worker: the row does not stay
\* "canceling" in a process that stays up.
CancelSettles ==
    \A t \in TaskIds :
        tasks[t].status = "canceling" /\ mode # "down"
        ~> tasks[t].status # "canceling" \/ mode = "down"

\* A quiescing process comes to rest, and the request is answered.
QuiesceSettles ==
    mode = "quiescing" ~>
        \/ mode # "quiescing"
        \/ /\ qpc \in {"quiesced", "timeout"}
           /\ \A t \in TaskIds : tasks[t].status \notin Active

\* Whoever asks, for one task or for all of them, gets an end to it.
RequestsSettle == CancelSettles /\ QuiesceSettles
=============================================================================
