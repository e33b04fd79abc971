----------------------------- MODULE ChatTurns -----------------------------
(***************************************************************************)
(* Grounded chat (backend/app/chat_service.py, chat_store.py, the chat     *)
(* handler of reliable_workflows.py): one turn per client request, worked  *)
(* on by a durable task of kind chat_generation.                           *)
(*                                                                         *)
(* A request is an element of Requests: its idempotency key stands for the *)
(* conversation and client_request_id together and names the turn, its     *)
(* resource is the conversation.  A step is one transaction of chat_store  *)
(* or of the task table.  The worker pool is ReliableTaskManager's; here a *)
(* thread takes any queued task, and the three ways a worker ends a claim  *)
(* (success, failure, cancellation) are one step each.                     *)
(*                                                                         *)
(* A Source is its content version: an edit, reindex or move makes a new   *)
(* one, and evidence is the set of <<source, version>> pairs it was read   *)
(* from.                                                                   *)
(***************************************************************************)
EXTENDS ReliableTaskStore

CONSTANTS Workers,      \* executor threads
          Sources,      \* course sources
          ScopeOf,      \* by idempotency key: request.source_ids, NoKey if omitted
          MaxEdits,     \* bound: changes to sources, selections and Trash
          MaxStarts,    \* bound: process starts
          MaxFaults     \* bound: failing database calls, old processes killed

Questions == { req.idem : req \in Requests }

ASSUME ChatAssumption ==
    /\ NoKey \notin Questions
    /\ ScopeOf \in [Questions -> (SUBSET Sources) \cup {NoKey}]
    /\ MaxEdits \in Nat
    /\ MaxStarts \in Nat
    /\ MaxFaults \in Nat

VARIABLES turns,     \* chat_turns with the assistant message of each
          selected,  \* chat_conversations.selected_source_ids_json
          source,    \* sources: content version and enabled flag
          mode,      \* "down", "recovering" (tasks done, turns not), "open"
          thread,    \* per worker: its place in send_chat_message and its locals
          stale,     \* threads of an earlier process
          starts, faults, edits

chatVars == <<turns, selected, source, mode, thread, stale, starts, faults, edits>>
cvars == <<storeVars, chatVars>>

ActiveTurn == {"pending", "retrieving", "generating", "validating"}
TurnStatuses == ActiveTurn \cup {"absent", "completed", "refused", "failed"}

NoTurn == [status |-> "absent", token |-> 0, tokens |-> 0, scope |-> {},
           message |-> "none", cited |-> {}]

\* error is the code that _fail_turn is about to write: "canceled", or any
\* other.
Steps == {"idle", "begin", "reserve", "retrieve", "search", "generate", "model",
          "checkRefuse", "refuse", "checkValidate", "validate", "checkPublish",
          "publish", "failTurn", "cancelTurn", "succeed", "fail", "reject",
          "cancel"}

IdleThread == [pc |-> "idle", job |-> NoKey, claim |-> 0, retry |-> FALSE,
               gen |-> 0, evidence |-> {}]

Question(t) == tasks[t].req.idem
Conversation(k) == (CHOOSE req \in Requests : req.idem = k).resource

Current(s) == <<s, source[s].version>>
Enabled(S) == \A s \in S : source[s].enabled

----------------------------------------------------------------------------

CInit == /\ Init
         /\ turns = [k \in Questions |-> NoTurn]
         /\ selected = [c \in Resources |-> Sources]
         /\ source = [s \in Sources |-> [version |-> 1, enabled |-> TRUE]]
         /\ mode = "down"
         /\ thread = [w \in Workers |-> IdleThread]
         /\ stale = {}
         /\ starts = 0 /\ faults = 0 /\ edits = 0

\* Thread w moves on.
Goto(w, next) ==
    /\ thread' = [thread EXCEPT ![w].pc = next]
    /\ UNCHANGED <<selected, source, mode, stale, starts, faults, edits>>

Leave(w) ==
    /\ thread' = [thread EXCEPT ![w] = IdleThread]
    /\ stale' = stale \ {w}
    /\ UNCHANGED <<turns, selected, source, mode, starts, faults, edits>>

----------------------------------------------------------------------------
\* Endpoints.

\* The endpoint read the conversation before it enqueues, without a lock: it
\* may have gone to Trash since.
Ask(t, req) == mode = "open" /\ CreateTask(t, req) /\ UNCHANGED chatVars

Retry(t) == mode = "open" /\ RetryTask(t) /\ UNCHANGED chatVars

AskCancel(t) == mode = "open" /\ RequestTaskCancel(t) /\ UNCHANGED chatVars

\* A change by the user while answers are in progress.
Edit == mode = "open" /\ edits < MaxEdits /\ edits' = edits + 1

\* PATCH conversation: only enabled sources can be selected.
SelectSources(c, S) ==
    /\ Edit
    /\ c \in live /\ S # selected[c] /\ Enabled(S)
    /\ selected' = [selected EXCEPT ![c] = S]
    /\ UNCHANGED <<storeVars, turns, source, mode, thread, stale, starts, faults>>

EditSource(s) ==
    /\ Edit
    /\ source' = [source EXCEPT ![s].version = @ + 1]
    /\ UNCHANGED <<storeVars, turns, selected, mode, thread, stale, starts, faults>>

ToggleSource(s) ==
    /\ Edit
    /\ source' = [source EXCEPT ![s].enabled = ~@]
    /\ UNCHANGED <<storeVars, turns, selected, mode, thread, stale, starts, faults>>

InterruptedMutant(turn) ==            \* forgets the assistant message
    IF turn.status \in ActiveTurn
    THEN [turn EXCEPT !.status = "failed", !.token = 0]
    ELSE turn

\* One turn of _recover_active_turns.
Interrupted(turn) ==
    IF turn.status \in ActiveTurn
    THEN [turn EXCEPT !.status = "failed", !.token = 0, !.message = "failed"]
    ELSE turn

\* The endpoint looks for active tasks first, under the lifecycle lock.
CheckConversation(c) ==
    mode = "open" /\ RequireNoActiveTasks(c) /\ UNCHANGED chatVars

LeaveConversation == mode = "open" /\ AbandonDeletion /\ UNCHANGED chatVars

\* delete_conversation
TrashConversation(c) ==
    /\ Edit
    /\ TrashResource(c)
    /\ turns' = [k \in Questions |-> IF Conversation(k) = c THEN Interrupted(turns[k])
                                                           ELSE turns[k]]
    /\ UNCHANGED <<selected, source, mode, thread, stale, starts, faults>>

RestoreConversation(c) ==
    mode = "open" /\ RestoreResource(c) /\ UNCHANGED chatVars

----------------------------------------------------------------------------
\* The worker: _chat_handler and send_chat_message.

Held(w, statuses) == ClaimHeld(thread[w].job, thread[w].claim, statuses)

Turn(w) == turns[Question(thread[w].job)]

OwnsTurnMutant(w, statuses) == Turn(w).status \in statuses   \* forgets the token

\* The compare-and-swap of every write to a turn.
OwnsTurn(w, statuses) ==
    Turn(w).status \in statuses /\ Turn(w).token = thread[w].gen

SetTurn(w, new) == turns' = [turns EXCEPT ![Question(thread[w].job)] = new]

Claim(w, t) ==
    /\ mode = "open" /\ thread[w] = IdleThread
    /\ ClaimTask(t)
    /\ thread' = [thread EXCEPT ![w] =
           [IdleThread EXCEPT !.pc = "begin", !.job = t, !.claim = tasks[t].claims + 1,
                              !.retry = tasks[t].attempt > 1]]
    /\ UNCHANGED <<turns, selected, source, mode, stale, starts, faults, edits>>

ClearedMutant(w) == TRUE              \* goes on whatever became of the claim

Cleared(w) == Held(w, {"running"})

\* A checkpoint before the step `next'.  Cancellation can also be seen as a
\* lost claim (it arrives between the two reads), and a lost claim fails the
\* turn as an unexpected error.  Before the turn is reserved both end the task.
Checkpoint(w, at, next) ==
    /\ thread[w].pc = at
    /\ \/ Cleared(w) /\ Goto(w, next)
       \/ Held(w, {"canceling"}) /\ Goto(w, IF at = "begin" THEN "cancel" ELSE "cancelTurn")
       \/ ~Held(w, {"running"}) /\ Goto(w, IF at = "begin" THEN "cancel" ELSE "failTurn")
    /\ UNCHANGED <<storeVars, turns>>

MayRetryTurnMutant(w) == thread[w].retry /\ Turn(w).status # "absent"   \* an answer too

\* A second attempt starts a failed turn again; anything else is replayed.
MayRetryTurn(w) == thread[w].retry /\ Turn(w).status = "failed"

ReplayEndMutant(w) == "succeed"       \* replays a turn in progress as a result

\* _replay_turn
ReplayEnd(w) == IF Turn(w).status \in {"completed", "refused"} THEN "succeed" ELSE "fail"

\* reserve_turn: replay, retry of a failed turn, or a new turn.
ReserveReplay(w) ==
    /\ Turn(w).status # "absent" /\ ~MayRetryTurn(w)
    /\ Goto(w, ReplayEnd(w))
    /\ UNCHANGED turns

ReservedMutant(old, scope) ==         \* writes the turn's status in the message
    [old EXCEPT !.status = "pending", !.token = old.tokens + 1, !.tokens = @ + 1,
                !.scope = scope, !.message = "pending", !.cited = {}]

Reserved(old, scope) ==
    [old EXCEPT !.status = "pending", !.token = old.tokens + 1, !.tokens = @ + 1,
                !.scope = scope, !.message = "generating", !.cited = {}]

StartTurn(w, scope) ==
    /\ SetTurn(w, Reserved(Turn(w), scope))
    /\ thread' = [thread EXCEPT ![w].pc = "retrieve", ![w].gen = Turn(w).tokens + 1]

OthersActiveMutant(k) == {}           \* leaves it to the task's active key

\* idx_chat_turns_one_active_per_conversation: checked for a new turn, and left
\* to the index, whose error fails the task, for a retried one.
OthersActive(k) ==
    { q \in Questions : /\ Conversation(q) = Conversation(k)
                        /\ turns[q].status \in ActiveTurn }

ReserveRetry(w) ==
    /\ MayRetryTurn(w)
    /\ IF OthersActive(Question(thread[w].job)) = {}
       THEN /\ StartTurn(w, Turn(w).scope)
            /\ UNCHANGED <<selected, source, mode, stale, starts, faults, edits>>
       ELSE Goto(w, "fail") /\ UNCHANGED turns

ReserveNew(w) ==
    LET k == Question(thread[w].job)
        c == Conversation(k)
        scope == IF ScopeOf[k] = NoKey THEN selected[c] ELSE ScopeOf[k]
    IN /\ Turn(w).status = "absent"
       /\ IF OthersActive(k) = {} /\ Enabled(scope)
          THEN /\ StartTurn(w, scope)
               /\ selected' = [selected EXCEPT ![c] = scope]
               /\ UNCHANGED <<source, mode, stale, starts, faults, edits>>
          ELSE Goto(w, "fail") /\ UNCHANGED turns

Reserve(w) ==
    /\ thread[w].pc = "reserve"
    /\ IF Conversation(Question(thread[w].job)) \in live
       THEN ReserveReplay(w) \/ ReserveRetry(w) \/ ReserveNew(w)
       ELSE Goto(w, "reject") /\ UNCHANGED turns
    /\ UNCHANGED storeVars

\* transition_turn; a lost race is a turn conflict and fails the task.
Transition(w, at, from, to, next) ==
    /\ thread[w].pc = at
    /\ \/ /\ OwnsTurn(w, {from})
          /\ SetTurn(w, [Turn(w) EXCEPT !.status = to])
          /\ Goto(w, next)
       \/ ~OwnsTurn(w, {from}) /\ Goto(w, "fail") /\ UNCHANGED turns
    /\ UNCHANGED storeVars

Retrieve(w) ==
    Transition(w, "retrieve", "pending", "retrieving",
               IF Turn(w).scope = {} THEN "checkRefuse" ELSE "search")

\* search_course_sources: no evidence, some, or a failure of the search.
Search(w) ==
    /\ thread[w].pc = "search"
    /\ \/ \E S \in SUBSET Turn(w).scope :
             thread' = [thread EXCEPT ![w].pc = IF S = {} THEN "checkRefuse" ELSE "generate",
                                      ![w].evidence = { Current(s) : s \in S }]
       \/ thread' = [thread EXCEPT ![w].pc = "failTurn"]
    /\ UNCHANGED <<storeVars, turns, selected, source, mode, stale, starts, faults, edits>>

Generate(w) == Transition(w, "generate", "retrieving", "generating", "model")

\* _generate_grounded_answer outside any transaction: a timeout or two invalid
\* answers, insufficient evidence, or a grounded answer.
Model(w) ==
    /\ thread[w].pc = "model"
    /\ \E next \in {"failTurn", "checkRefuse", "checkValidate"} : Goto(w, next)
    /\ UNCHANGED <<storeVars, turns>>

Validate(w) == Transition(w, "validate", "generating", "validating", "checkPublish")

Finished(turn, status, message, cited) ==
    [turn EXCEPT !.status = status, !.token = 0, !.message = message, !.cited = cited]

EvidenceHoldsMutant(w) == TRUE        \* trusts the evidence it retrieved

\* _validate_canonical_evidence
EvidenceHolds(w) ==
    \A e \in thread[w].evidence :
        e[1] \in Turn(w).scope /\ source[e[1]].enabled /\ e = Current(e[1])

\* complete_turn
Publish(w) ==
    /\ thread[w].pc = "publish"
    /\ \/ /\ OwnsTurn(w, ActiveTurn) /\ EvidenceHolds(w)
          /\ SetTurn(w, Finished(Turn(w), "completed", "complete", thread[w].evidence))
          /\ Goto(w, "succeed")
       \/ /\ OwnsTurn(w, ActiveTurn) /\ ~EvidenceHolds(w)
          /\ Goto(w, "failTurn") /\ UNCHANGED turns
       \/ ~OwnsTurn(w, ActiveTurn) /\ Goto(w, "fail") /\ UNCHANGED turns
    /\ UNCHANGED storeVars

\* refuse_turn
Refuse(w) ==
    /\ thread[w].pc = "refuse"
    /\ \/ /\ OwnsTurn(w, ActiveTurn)
          /\ SetTurn(w, Finished(Turn(w), "refused", "complete", {}))
          /\ Goto(w, "succeed")
       \/ ~OwnsTurn(w, ActiveTurn) /\ Goto(w, "fail") /\ UNCHANGED turns
    /\ UNCHANGED storeVars

MarkTurnFailedMutant(w) == UNCHANGED turns   \* fails the task only

\* fail_turn; an expired token is only logged.
MarkTurnFailed(w) ==
    IF OwnsTurn(w, ActiveTurn)
    THEN SetTurn(w, Finished(Turn(w), "failed", "failed", {}))
    ELSE UNCHANGED turns

FailTurn(w) ==
    /\ \/ thread[w].pc = "failTurn" /\ Goto(w, "fail")
       \/ thread[w].pc = "cancelTurn" /\ Goto(w, "cancel")
    /\ MarkTurnFailed(w)
    /\ UNCHANGED storeVars

\* How the manager ends the claim; a claim that is gone is left alone.
Succeed(w) ==
    /\ thread[w].pc = "succeed"
    /\ \/ SucceedTask(thread[w].job, thread[w].claim)
       \/ ~Held(w, {"running", "canceling"}) /\ UNCHANGED storeVars
    /\ Leave(w)

\* The conversation is gone: not retryable.  Any other failure is.
Fail(w) ==
    /\ thread[w].pc \in {"fail", "reject"}
    /\ \/ FailTask(thread[w].job, thread[w].claim, thread[w].pc = "fail")
       \/ /\ Held(w, {"canceling"})
          /\ MarkTaskCanceled(thread[w].job, thread[w].claim)
       \/ ~Held(w, {"running", "canceling"}) /\ UNCHANGED storeVars
    /\ Leave(w)

Cancel(w) ==
    /\ thread[w].pc = "cancel"
    /\ \/ MarkTaskCanceled(thread[w].job, thread[w].claim)
       \/ ~Held(w, {"running", "canceling"}) /\ UNCHANGED storeVars
    /\ Leave(w)

WorkerStep(w) ==
    \/ Checkpoint(w, "begin", "reserve")
    \/ Reserve(w) \/ Retrieve(w) \/ Search(w) \/ Generate(w) \/ Model(w)
    \/ Checkpoint(w, "checkRefuse", "refuse") \/ Refuse(w)
    \/ Checkpoint(w, "checkValidate", "validate") \/ Validate(w)
    \/ Checkpoint(w, "checkPublish", "publish") \/ Publish(w)
    \/ FailTurn(w) \/ Succeed(w) \/ Fail(w) \/ Cancel(w)

----------------------------------------------------------------------------
\* Process lifetime.  Startup settles tasks and turns in two transactions.

StartTasks ==
    /\ mode = "down" /\ starts < MaxStarts
    /\ starts' = starts + 1
    /\ mode' = "recovering"
    /\ RecoverInterruptedTasks
    /\ UNCHANGED <<turns, selected, source, thread, stale, faults, edits>>

\* recover_active_turns
StartTurns ==
    /\ mode = "recovering"
    /\ mode' = "open"
    /\ turns' = [k \in Questions |-> Interrupted(turns[k])]
    /\ UNCHANGED <<storeVars, selected, source, thread, stale, starts, faults, edits>>

\* shutdown(wait=False): threads in a handler outlive the server.
Exit ==
    /\ mode = "open"
    /\ mode' = "down"
    /\ stale' = { w \in Workers : thread[w] # IdleThread }
    /\ UNCHANGED <<storeVars, turns, selected, source, thread, starts, faults, edits>>

Crash ==
    /\ mode # "down"
    /\ mode' = "down"
    /\ thread' = [w \in Workers |-> IdleThread]
    /\ stale' = {}
    /\ UNCHANGED <<storeVars, turns, selected, source, starts, faults, edits>>

\* The old process is killed next to the new one.
StaleDies(w) ==
    /\ w \in stale /\ faults < MaxFaults
    /\ faults' = faults + 1
    /\ stale' = stale \ {w}
    /\ thread' = [thread EXCEPT ![w] = IdleThread]
    /\ UNCHANGED <<storeVars, turns, selected, source, mode, starts, edits>>

\* A database call of w fails: before the turn is reserved that fails the task,
\* afterwards it fails the turn; in _fail_turn itself the turn is left as it is,
\* at the end of the claim the task is.
AfterFault(at) ==
    CASE at \in {"begin", "reserve", "failTurn", "cancelTurn"} -> "fail"
      [] at \in {"succeed", "fail", "reject", "cancel"} -> "idle"
      [] OTHER -> "failTurn"

Fault(w) ==
    /\ thread[w].pc \notin {"idle", "model"} /\ faults < MaxFaults
    /\ faults' = faults + 1
    /\ LET next == AfterFault(thread[w].pc) IN
         IF next = "idle"
         THEN /\ thread' = [thread EXCEPT ![w] = IdleThread]
              /\ stale' = stale \ {w}
         ELSE /\ thread' = [thread EXCEPT ![w].pc = next]
              /\ UNCHANGED stale
    /\ UNCHANGED <<storeVars, turns, selected, source, mode, starts, edits>>

CNext ==
    \/ \E t \in TaskIds, req \in Requests : Ask(t, req)
    \/ \E t \in TaskIds : Retry(t) \/ AskCancel(t)
    \/ \E c \in Resources, S \in SUBSET Sources : SelectSources(c, S)
    \/ \E s \in Sources : EditSource(s) \/ ToggleSource(s)
    \/ \E c \in Resources :
          CheckConversation(c) \/ TrashConversation(c) \/ RestoreConversation(c)
    \/ LeaveConversation
    \/ \E w \in Workers, t \in TaskIds : Claim(w, t)
    \/ \E w \in Workers : WorkerStep(w) \/ StaleDies(w) \/ Fault(w)
    \/ StartTasks \/ StartTurns \/ Exit \/ Crash

CSpec == CInit /\ [][CNext]_cvars

\* Threads run, model calls end (the client has a timeout), and the pool gets to
\* every queued task (QueuedRuns of ReliableTaskManager).
FairCSpec ==
    /\ CSpec
    /\ \A w \in Workers : WF_cvars(WorkerStep(w))
    /\ \A t \in TaskIds : WF_cvars(\E w \in Workers : Claim(w, t))

----------------------------------------------------------------------------

Evidence == Sources \X (1..MaxEdits + 1)

Turns == [status : TurnStatuses, token : Nat, tokens : Nat, scope : SUBSET Sources,
          message : {"none", "generating", "complete", "failed"},
          cited : SUBSET Evidence]

CTypeOK ==
    /\ turns \in [Questions -> Turns]
    /\ selected \in [Resources -> SUBSET Sources]
    /\ source \in [Sources -> [version : 1..MaxEdits + 1, enabled : BOOLEAN]]
    /\ mode \in {"down", "recovering", "open"}
    /\ thread \in [Workers -> [pc : Steps, job : TaskIds \cup {NoKey}, claim : Nat,
                               retry : BOOLEAN, gen : Nat,
                               evidence : SUBSET Evidence]]
    /\ stale \subseteq Workers
    /\ starts \in 0..MaxStarts /\ faults \in 0..MaxFaults /\ edits \in 0..MaxEdits

\* The turn and its assistant message, two rows, tell the same story, and only
\* a completed answer has citations: _require_active_turn and startup recovery
\* raise ChatStoreIntegrityError on anything else.
TurnRecordsAgree ==
    \A k \in Questions :
        LET turn == turns[k] IN
        /\ (turn.status \in ActiveTurn) <=> (turn.message = "generating")
        /\ (turn.status \in ActiveTurn) <=> (turn.token # 0)
        /\ turn.token \in {0, turn.tokens}
        /\ (turn.status \in {"completed", "refused"}) <=> (turn.message = "complete")
        /\ (turn.status = "completed") <=> (turn.cited # {})

\* A conversation never works on two answers at once, not even when a thread of
\* an old process reserves its turn after the restart
\* (idx_chat_turns_one_active_per_conversation).
OneActiveTurn ==
    \A k, q \in Questions :
        /\ turns[k].status \in ActiveTurn /\ turns[q].status \in ActiveTurn
        /\ Conversation(k) = Conversation(q)
        => k = q

\* No turn stays active with nobody to finish it, which would block its
\* conversation until the next start: a thread holds its generation token.
\* Only a failing database call, or killing a thread of an old process next to a
\* new one, orphans a turn, and each orphans one.  (A run with one question says
\* this for faults = 0; RecordsStaySound says it for any number.)
ActiveTurnOwned ==
    mode = "open" =>
        Cardinality({ k \in Questions :
            /\ turns[k].status \in ActiveTurn
            /\ ~\E w \in Workers : /\ thread[w].pc # "idle"
                                   /\ Question(thread[w].job) = k
                                   /\ thread[w].gen = turns[k].token }) <= faults

\* A task reports success only when its question has a final answer or refusal.
SucceededIsAnswered ==
    \A t \in TaskIds :
        tasks[t].status = "succeeded" =>
            turns[Question(t)].status \in {"completed", "refused"}

\* Turn, message and thread tell one story of a question, and the questions of
\* a conversation and its tasks do among each other.
RecordsSound == CTypeOK /\ TurnRecordsAgree /\ ActiveTurnOwned
TurnsSound == OneActiveTurn /\ ActiveTurnOwned /\ SucceededIsAnswered

\* A published answer or refusal, its citations included, never changes again:
\* not by retries, replays, late threads, Trash or recovery.
AnswerIsFinal ==
    [][\A k \in Questions :
          turns[k].status \in {"completed", "refused"} => turns'[k] = turns[k]]_cvars

\* Sources change while the model writes: what is published still cites only
\* sources of the turn's snapshot, enabled, in the version they have now.
GroundedAtPublication ==
    [][\A k \in Questions :
          turns'[k].status = "completed" /\ turns[k].status # "completed" =>
              \A e \in turns'[k].cited :
                  /\ e[1] \in turns[k].scope
                  /\ source[e[1]].enabled
                  /\ e = Current(e[1])]_cvars

\* An answer is published only for a task that still runs or is being canceled:
\* never after the task was canceled, failed or interrupted.  The one exception
\* is a thread of an old process between the two transactions of startup.
PublishedUnderClaim ==
    [][\A k \in Questions :
          /\ turns'[k].status \in {"completed", "refused"}
          /\ turns[k].status \in ActiveTurn
          /\ mode # "recovering"
          => \E t \in TaskIds : /\ Question(t) = k
                                /\ tasks[t].status \in {"running", "canceling"}]_cvars

\* What is published is final, cites what the sources say at that moment, and is
\* published by a task that may.
PublicationHolds == AnswerIsFinal /\ GroundedAtPublication /\ PublishedUnderClaim

\* Every question gets an answer, a refusal or a visible failure: its task ends
\* and no turn is left active, unless the process goes down or a call failed.
QuestionsSettle ==
    \A t \in TaskIds :
        tasks[t].status \in Active /\ mode = "open"
        ~> \/ mode # "open" \/ faults > 0
           \/ /\ tasks[t].status \in Terminal
              /\ turns[Question(t)].status \notin ActiveTurn
=============================================================================
