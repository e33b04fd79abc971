------------------------- MODULE ReliableTaskStore -------------------------
(***************************************************************************)
(* backend/app/reliable_task_store.py: the durable task table and its      *)
(* append-only event stream.  One action per transaction; every            *)
(* transaction opens with BEGIN IMMEDIATE, so each is one atomic step.     *)
(*                                                                         *)
(* Claim tokens are uuid4 values; here the n-th claim of a row gets the    *)
(* token n, so `claims' is both the source of fresh tokens and the newest  *)
(* token ever issued.  Columns whose content no property tells apart       *)
(* (payload, worker, heartbeat, wording) are left out; progress_json and   *)
(* result_json are abstracted to the token of the claim that wrote them,   *)
(* 0 when empty.                                                           *)
(***************************************************************************)
EXTENDS Naturals, Sequences, FiniteSets

CONSTANTS TaskIds,      \* row identities (uuid4)
          Requests,     \* the requests the endpoints build
          Keys,         \* idempotency and active keys
          NoKey,        \* SQL NULL in a key column
          Resources,    \* the items tasks are about (conversation, job, ...)
          MaxAttempts,  \* reliable_tasks.max_attempts
          MaxEvents     \* bound: progress reports stop at this stream length

Active   == {"queued", "running", "canceling"}
Terminal == {"succeeded", "failed", "canceled"}
Statuses == Active \cup Terminal \cup {"absent"}
Errors   == {"none", "handler_failed", "interrupted"}

\* Events of the stream; "none" is the NULL from_status of a created event.
EventTypes == {"created", "claimed", "progress_updated", "cancel_requested",
               "succeeded", "failed", "canceled", "retry_queued", "interrupted"}
Event == [type : EventTypes, from : Statuses, to : Statuses]

\* fingerprint stands for every column the request fingerprint hashes.
Request == [idem : Keys \cup {NoKey}, active : Keys \cup {NoKey},
            resource : Resources, fingerprint : Nat]

NoRequest == [idem |-> NoKey, active |-> NoKey, resource |-> NoKey,
              fingerprint |-> 0]   \* of a row that does not exist yet

ASSUME StoreAssumption ==
    /\ NoKey \notin Keys \cup Resources
    /\ Requests \subseteq Request
    /\ MaxAttempts \in Nat \ {0}
    /\ MaxEvents \in Nat

Row == [status : Statuses, attempt : Nat, claim : Nat, claims : Nat,
        progress : Nat, result : Nat, error : Errors, retryable : BOOLEAN,
        cancelReq : BOOLEAN, completed : BOOLEAN, avail : Nat,
        req : Requests \cup {NoRequest}]

NoRow == [status |-> "absent", attempt |-> 0, claim |-> 0, claims |-> 0,
          progress |-> 0, result |-> 0, error |-> "none", retryable |-> FALSE,
          cancelReq |-> FALSE, completed |-> FALSE, avail |-> 0,
          req |-> NoRequest]

VARIABLES tasks,    \* reliable_tasks
          events,   \* reliable_task_events, by task in sequence order
          clock,    \* ticks at every available_at written
          live,     \* resources not in Trash, with their course not in Trash
          deleting  \* the item whose move to Trash holds the lifecycle lock

storeVars == <<tasks, events, clock, live, deleting>>

----------------------------------------------------------------------------

Exists(t) == tasks[t].status # "absent"

\* A name ending in Mutant is the definition after it with one plausible bug:
\* no action uses it, it shows that the properties can fail.

\* _find_active_task_id, with exclude_task_id where the caller has one.
ActiveOwnersMutant(key, exclude) ==   \* forgets the rows being canceled
    { u \in TaskIds \ exclude : /\ tasks[u].status \in {"queued", "running"}
                                /\ tasks[u].req.active = key }

ActiveOwners(key, exclude) ==
    { u \in TaskIds \ exclude : /\ tasks[u].status \in Active
                                /\ tasks[u].req.active = key }

IdemOwnersMutant(req) ==              \* forgets the rows that ended
    { u \in TaskIds : /\ tasks[u].status \in Active /\ req.idem # NoKey
                      /\ tasks[u].req.idem = req.idem }

IdemOwners(req) ==
    { u \in TaskIds : /\ Exists(u) /\ req.idem # NoKey
                      /\ tasks[u].req.idem = req.idem }

\* The rows list_runnable_tasks returns for a limit: the oldest queued ones.
ListRunnable(limit) ==
    { t \in TaskIds :
        /\ tasks[t].status = "queued"
        /\ Cardinality({ u \in TaskIds : /\ tasks[u].status = "queued"
                                         /\ tasks[u].avail < tasks[t].avail })
           < limit }

\* The compare-and-swap guard of every worker write.
ClaimHeldMutant(t, token, statuses) ==   \* trusts the status alone
    tasks[t].status \in statuses

ClaimHeld(t, token, statuses) ==
    tasks[t].status \in statuses /\ tasks[t].claim = token

LogMutant(t, type, to) ==             \* writes the status as the event type
    events' = [events EXCEPT ![t] =
        Append(@, [type |-> to, from |-> tasks[t].status, to |-> to])]

\* _append_event, in the transaction that moves t to status `to'.
Log(t, type, to) ==
    events' = [events EXCEPT ![t] =
        Append(@, [type |-> type, from |-> tasks[t].status, to |-> to])]

----------------------------------------------------------------------------

Init == /\ tasks = [t \in TaskIds |-> NoRow]
        /\ events = [t \in TaskIds |-> << >>]
        /\ clock = 0
        /\ live = Resources
        /\ deleting = NoKey

\* What a transaction writes into a row.
Created(req, at) ==
    [NoRow EXCEPT !.status = "queued", !.attempt = 1, !.retryable = TRUE,
                  !.avail = at, !.req = req]

Claimed(r) ==
    [r EXCEPT !.status = "running", !.claim = r.claims + 1, !.claims = r.claims + 1]

CanceledInQueue(r) ==
    [r EXCEPT !.status = "canceled", !.cancelReq = TRUE, !.completed = TRUE,
              !.retryable = TRUE]

CancelAsked(r) == [r EXCEPT !.status = "canceling", !.cancelReq = TRUE]

Succeeded(r, token) ==
    [r EXCEPT !.status = "succeeded", !.result = token, !.claim = 0,
              !.error = "none", !.completed = TRUE]

Failed(r, retryable) ==
    [r EXCEPT !.status = "failed", !.claim = 0, !.error = "handler_failed",
              !.retryable = retryable, !.completed = TRUE]

Canceled(r) ==
    [r EXCEPT !.status = "canceled", !.claim = 0, !.cancelReq = TRUE,
              !.completed = TRUE]

RetriedMutant(r, at) ==               \* keeps the old cancel intention
    [r EXCEPT !.status = "queued", !.attempt = @ + 1, !.claim = 0,
              !.progress = 0, !.result = 0, !.error = "none",
              !.retryable = TRUE, !.completed = FALSE, !.avail = at]

Retried(r, at) ==
    [r EXCEPT !.status = "queued", !.attempt = @ + 1, !.claim = 0,
              !.progress = 0, !.result = 0, !.error = "none",
              !.retryable = TRUE, !.cancelReq = FALSE,
              !.completed = FALSE, !.avail = at]

RecoveredMutant(r) ==                 \* a canceling row keeps its claim
    CASE r.status = "running" ->
           [r EXCEPT !.status = "failed", !.claim = 0, !.error = "interrupted",
                     !.retryable = r.attempt < MaxAttempts, !.completed = TRUE]
      [] r.status = "canceling" ->
           [r EXCEPT !.status = "canceled", !.retryable = TRUE, !.completed = TRUE]
      [] OTHER -> r

\* One row of recover_interrupted_tasks.
Recovered(r) ==
    CASE r.status = "running" ->
           [r EXCEPT !.status = "failed", !.claim = 0, !.error = "interrupted",
                     !.retryable = r.attempt < MaxAttempts, !.completed = TRUE]
      [] r.status = "canceling" ->
           [r EXCEPT !.status = "canceled", !.claim = 0, !.error = "none",
                     !.retryable = TRUE, !.completed = TRUE]
      [] OTHER -> r

----------------------------------------------------------------------------

\* workspace_lifecycle_lock: the manager takes it to create a task and to
\* retry one, the endpoints to move an item to Trash or to restore it.
LockFreeMutant == TRUE               \* nobody waits for the lock

LockFree == deleting = NoKey

\* create_task when no row answers the request: a used idempotency key is
\* replayed or refused, an owned active key refused, neither changing a row.
CreateTask(t, req) ==
    /\ LockFree
    /\ ~Exists(t)
    /\ IdemOwners(req) = {}
    /\ req.active # NoKey => ActiveOwners(req.active, {}) = {}
    /\ tasks' = [tasks EXCEPT ![t] = Created(req, clock + 1)]
    /\ clock' = clock + 1
    /\ Log(t, "created", "queued")
    /\ UNCHANGED <<live, deleting>>

ClaimTask(t) ==
    /\ tasks[t].status = "queued"
    /\ tasks' = [tasks EXCEPT ![t] = Claimed(@)]
    /\ Log(t, "claimed", "running")
    /\ UNCHANGED <<clock, live, deleting>>

UpdateProgress(t, token) ==
    /\ ClaimHeld(t, token, {"running"})
    /\ Len(events[t]) < MaxEvents
    /\ tasks' = [tasks EXCEPT ![t] = [@ EXCEPT !.progress = token]]
    /\ Log(t, "progress_updated", "running")
    /\ UNCHANGED <<clock, live, deleting>>

\* request_task_cancel: immediate for a queued row, an intention for a
\* running one, and nothing for any other.
CancelQueued(t) ==
    /\ tasks[t].status = "queued"
    /\ tasks' = [tasks EXCEPT ![t] = CanceledInQueue(@)]
    /\ Log(t, "cancel_requested", "canceled")
    /\ UNCHANGED <<clock, live, deleting>>

CancelRunning(t) ==
    /\ tasks[t].status = "running"
    /\ tasks' = [tasks EXCEPT ![t] = CancelAsked(@)]
    /\ Log(t, "cancel_requested", "canceling")
    /\ UNCHANGED <<clock, live, deleting>>

RequestTaskCancel(t) == CancelQueued(t) \/ CancelRunning(t)

SucceedTask(t, token) ==
    /\ ClaimHeld(t, token, {"running", "canceling"})
    /\ tasks' = [tasks EXCEPT ![t] = Succeeded(@, token)]
    /\ Log(t, "succeeded", "succeeded")
    /\ UNCHANGED <<clock, live, deleting>>

FailTask(t, token, retryable) ==
    /\ ClaimHeld(t, token, {"running"})
    /\ tasks' = [tasks EXCEPT ![t] = Failed(@, retryable)]
    /\ Log(t, "failed", "failed")
    /\ UNCHANGED <<clock, live, deleting>>

MarkTaskCanceled(t, token) ==
    /\ ClaimHeld(t, token, {"running", "canceling"})
    /\ tasks' = [tasks EXCEPT ![t] = Canceled(@)]
    /\ Log(t, "canceled", "canceled")
    /\ UNCHANGED <<clock, live, deleting>>

MayRetryMutant(t) ==                  \* ignores the retryable flag
    /\ tasks[t].status \in {"failed", "canceled"}
    /\ tasks[t].attempt < MaxAttempts
    /\ tasks[t].req.resource \in live
    /\ tasks[t].req.active # NoKey => ActiveOwners(tasks[t].req.active, {t}) = {}

\* The checks of retry_task, _require_retry_resource_active included.
MayRetry(t) ==
    /\ tasks[t].status \in {"failed", "canceled"}
    /\ tasks[t].status = "failed" => tasks[t].retryable
    /\ tasks[t].attempt < MaxAttempts
    /\ tasks[t].req.resource \in live
    /\ tasks[t].req.active # NoKey => ActiveOwners(tasks[t].req.active, {t}) = {}

RetryTask(t) ==
    /\ LockFree
    /\ MayRetry(t)
    /\ tasks' = [tasks EXCEPT ![t] = Retried(@, clock + 1)]
    /\ clock' = clock + 1
    /\ Log(t, "retry_queued", "queued")
    /\ UNCHANGED <<live, deleting>>

RecoveredStreamMutant(t) ==           \* a settled cancellation logs nothing
    IF tasks[t].status = "running"
    THEN Append(events[t], [type |-> "interrupted", from |-> "running", to |-> "failed"])
    ELSE events[t]

RecoveredStream(t) ==
    CASE tasks[t].status = "running" ->
           Append(events[t], [type |-> "interrupted", from |-> "running", to |-> "failed"])
      [] tasks[t].status = "canceling" ->
           Append(events[t], [type |-> "canceled", from |-> "canceling", to |-> "canceled"])
      [] OTHER -> events[t]

\* At the start of a process: no lock is held.
RecoverInterruptedTasks ==
    /\ tasks' = [t \in TaskIds |-> Recovered(tasks[t])]
    /\ events' = [t \in TaskIds |-> RecoveredStream(t)]
    /\ deleting' = NoKey
    /\ UNCHANGED <<clock, live>>

SparesTasksMutant(r) ==               \* sees the running tasks only
    \A t \in TaskIds : tasks[t].req.resource = r => tasks[t].status # "running"

\* require_no_active_tasks
SparesTasks(r) ==
    \A t \in TaskIds : tasks[t].req.resource = r => tasks[t].status \notin Active

\* An endpoint that moves an item to Trash looks for its tasks and then makes
\* the soft delete, two transactions under the lock.  Workers do not take the
\* lock: claims, results and recovery come in between.
RequireNoActiveTasks(r) ==
    /\ LockFree
    /\ SparesTasks(r)
    /\ deleting' = r
    /\ UNCHANGED <<tasks, events, clock, live>>

TrashResource(r) ==
    /\ deleting = r /\ r \in live
    /\ live' = live \ {r}
    /\ deleting' = NoKey
    /\ UNCHANGED <<tasks, events, clock>>

\* The soft delete raises, or finds the item gone.
AbandonDeletion ==
    /\ deleting # NoKey
    /\ deleting' = NoKey
    /\ UNCHANGED <<tasks, events, clock, live>>

RestoreResource(r) ==
    /\ LockFree
    /\ r \in Resources \ live
    /\ live' = live \cup {r}
    /\ UNCHANGED <<tasks, events, clock, deleting>>

\* Any caller may present any token issued so far.
Next ==
    \/ \E t \in TaskIds, req \in Requests : CreateTask(t, req)
    \/ \E t \in TaskIds : ClaimTask(t)
    \/ \E t \in TaskIds : RequestTaskCancel(t)
    \/ \E t \in TaskIds : RetryTask(t)
    \/ \E t \in TaskIds : \E token \in 1..tasks[t].claims :
         \/ UpdateProgress(t, token)
         \/ SucceedTask(t, token)
         \/ \E retryable \in BOOLEAN : FailTask(t, token, retryable)
         \/ MarkTaskCanceled(t, token)
    \/ RecoverInterruptedTasks
    \/ \E r \in Resources :
         RequireNoActiveTasks(r) \/ TrashResource(r) \/ RestoreResource(r)
    \/ AbandonDeletion

Spec == Init /\ [][Next]_storeVars

----------------------------------------------------------------------------

TypeOK == /\ tasks \in [TaskIds -> Row]
          /\ events \in [TaskIds -> Seq(Event)]
          /\ clock \in Nat
          /\ live \subseteq Resources
          /\ deleting \in Resources \cup {NoKey}

\* Every row the SQL writes can be loaded again: ReliableTask.validate_state
\* raises on a row that breaks this, and every read of the table would fail.
RowLoads ==
    \A t \in TaskIds :
        LET r == tasks[t] IN
        /\ r.attempt <= MaxAttempts
        /\ (r.claim # 0) <=> (r.status \in {"running", "canceling"})
        /\ r.status = "canceling" => r.cancelReq
        /\ r.completed <=> (r.status \in Terminal)
        /\ r.status = "failed" => r.error # "none"

\* At most one task owns an active key at a time, over creation, retry,
\* cancellation and recovery of several tasks (idx_reliable_tasks_active).
OneActivePerKey ==
    \A t, u \in TaskIds :
        /\ tasks[t].status \in Active /\ tasks[u].status \in Active
        /\ tasks[t].req.active # NoKey
        /\ tasks[t].req.active = tasks[u].req.active
        => t = u

\* A repeated request never gets a second row, even after the first one ended
\* (idx_reliable_tasks_idempotency): one row per idempotency key for ever.
OneTaskPerIdemKey ==
    \A t, u \in TaskIds :
        /\ Exists(t) /\ Exists(u)
        /\ tasks[t].req.idem # NoKey
        /\ tasks[t].req.idem = tasks[u].req.idem
        => t = u

\* What the row says of the work comes from its newest claim only: a worker
\* whose claim was canceled, failed, recovered or retried away never leaves
\* progress or a result behind.
NewestClaimWrites ==
    \A t \in TaskIds :
        LET r == tasks[t] IN
        /\ r.claim \in {0, r.claims}
        /\ r.progress \in {0, r.claims}
        /\ r.result \in {0, r.claims}
        /\ (r.result # 0) <=> (r.status = "succeeded")

\* An attempt starts clean: nothing of the previous one (error, result, cancel
\* intention, end time) is visible on a queued or running row.
CleanAttempt ==
    \A t \in TaskIds :
        LET r == tasks[t] IN
        /\ r.status \in {"queued", "running"} =>
              /\ r.error = "none" /\ r.result = 0 /\ r.retryable
              /\ ~r.cancelReq
        /\ r.status = "queued" => r.progress = 0

\* Every row can be read again (validate_state), speaks of its newest claim and
\* shows nothing of an earlier attempt; and neither key is ever doubled.
RowsSound == TypeOK /\ RowLoads /\ NewestClaimWrites /\ CleanAttempt
KeysUnique == OneActivePerKey /\ OneTaskPerIdemKey

\* The event stream replays to the row: it starts at creation, each event
\* leaves the status the previous one reached, and the last one reached the
\* status the row has.
StreamReplays ==
    \A t \in TaskIds :
        LET s == events[t] IN
        /\ s = << >> <=> ~Exists(t)
        /\ s # << >> =>
             /\ s[1].from = "absent"
             /\ s[Len(s)].to = tasks[t].status
             /\ \A i \in 1..Len(s) - 1 : s[i + 1].from = s[i].to

\* A task that succeeded, and one that failed for good, never changes again,
\* and the stream is append-only.
EndIsFinal ==
    [][\A t \in TaskIds :
          /\ \/ tasks[t].status = "succeeded"
             \/ tasks[t].status = "failed" /\ ~tasks[t].retryable
             => tasks'[t] = tasks[t]
          /\ Len(events'[t]) >= Len(events[t])
          /\ SubSeq(events'[t], 1, Len(events[t])) = events[t]]_storeVars

\* No item is in Trash under a retried attempt, and none goes there under any
\* task that is queued or running for it, although its tasks are looked at in
\* an earlier transaction than the soft delete, while tasks are created, retried
\* and claimed.  (The first attempt of a task does not look at the Trash: one
\* may be created for an item that is there already.)
TrashSparesActive ==
    /\ [](\A t \in TaskIds :
            tasks[t].status \in Active /\ tasks[t].attempt > 1
               => tasks[t].req.resource \in live)
    /\ [][\A t \in TaskIds :
            /\ tasks[t].status \in Active
            /\ tasks[t].req.resource \in live
            => tasks'[t].req.resource \in live']_storeVars
=============================================================================
