---------------------------- MODULE CardGeneration ----------------------------
(***************************************************************************)
(* Automatic card generation for one video job: the run, its ledger of     *)
(* chunk results, and the background task that carries an attempt          *)
(* (backend/app/auto_card_generation_service.py, card_generation_run_store *)
(* .py, card_generation_chunk_store.py, _auto_card_handler).               *)
(*                                                                         *)
(* One step per transaction.  A chunk is <<epoch, position>>: new chunks   *)
(* of the transcript have new ids.  A draft is the number of new cards it  *)
(* holds, after those whose signature the job already has.                 *)
(***************************************************************************)
EXTENDS Naturals, FiniteSets, FiniteSetsExt

CONSTANTS Runs,
          ChunkCount,  \* chunks of the transcript
          MaxEpoch,    \* bound: how often the transcript is chunked again
          MaxDraft,    \* bound: new cards of a chunk
          MaxStops     \* bound: stops of the process

ASSUME GenerationAssumption == {ChunkCount, MaxEpoch, MaxDraft, MaxStops} \subseteq Nat

VARIABLES run,     \* card_generation_runs
          ledger,  \* card_generation_chunk_results, per run
          made,    \* the cards of a run: <<run, chunk, ordinal>>
          epoch,   \* the current chunks of the transcript
          attempt, \* per run: the handler's place and the chunks it selected
          task,    \* per run: the reliable task
          stops

generationVars == <<run, ledger, made, epoch, attempt, task, stops>>

Chunks(e) == {e} \X (1..ChunkCount)
AllChunks == (0..MaxEpoch) \X (1..ChunkCount)
NoChunks == [c \in {} |-> <<"failed", 0>>]
NoAttempt == [pc |-> "none", selected |-> {}]
NoCounters == [total |-> 0, succeeded |-> 0, failed |-> 0, created |-> 0]

GenInit == /\ run = [r \in Runs |-> [status |-> "none", count |-> NoCounters]]
           /\ ledger = [r \in Runs |-> NoChunks]
           /\ made = {}
           /\ epoch = 0
           /\ attempt = [r \in Runs |-> NoAttempt]
           /\ task = [r \in Runs |-> [status |-> "none", asked |-> FALSE]]
           /\ stops = 0

Rows(r, status) == {c \in DOMAIN ledger[r] : ledger[r][c][1] = status}
RunActive(r) == task[r].status \in {"queued", "running"}

GoesTo(r, pc) == attempt' = [attempt EXCEPT ![r].pc = pc]
TaskIs(r, status) == task' = [task EXCEPT ![r] = [status |-> status, asked |-> FALSE]]
RunIs(r, status) == run' = [run EXCEPT ![r].status = status]

----------------------------------------------------------------------------
(* The endpoint: the run, then its task; one active task per job.          *)

StartRun(r) ==
    /\ run[r].status = "none"
    /\ RunIs(r, "pending") /\ GoesTo(r, "enqueue")
    /\ UNCHANGED <<ledger, made, epoch, task, stops>>

EnqueueRun(r) ==
    /\ attempt[r].pc = "enqueue"
    /\ GoesTo(r, "none")
    /\ IF \E s \in Runs : RunActive(s)
       THEN RunIs(r, "failed") /\ UNCHANGED task    \* mark_pending_run_failed
       ELSE TaskIs(r, "queued") /\ UNCHANGED run
    /\ UNCHANGED <<ledger, made, epoch, stops>>

CancelTask(r) ==
    /\ RunActive(r) /\ ~task[r].asked
    /\ task' = [task EXCEPT ![r] = IF @.status = "queued"
                                   THEN [status |-> "canceled", asked |-> FALSE]
                                   ELSE [@ EXCEPT !.asked = TRUE]]
    /\ UNCHANGED <<run, ledger, made, epoch, attempt, stops>>

RetryTask(r) ==
    /\ task[r].status \in {"failed", "canceled"}
    /\ ~\E s \in Runs : RunActive(s)
    /\ TaskIs(r, "queued")
    /\ UNCHANGED <<run, ledger, made, epoch, attempt, stops>>

\* POST /jobs/{id}/chunks takes no lock and looks at no task.
Rechunk ==
    /\ epoch < MaxEpoch
    /\ epoch' = epoch + 1
    /\ UNCHANGED <<run, ledger, made, attempt, task, stops>>

----------------------------------------------------------------------------
(* An attempt.                                                             *)

TakeTask(r) ==
    /\ task[r].status = "queued" /\ attempt[r].pc = "none"
    /\ TaskIs(r, "running")
    /\ attempt' = [attempt EXCEPT ![r] = [pc |-> "claim", selected |-> {}]]
    /\ UNCHANGED <<run, ledger, made, epoch, stops>>

\* The checkpoint before the claim: the run keeps its status.
CancelUnclaimed(r) ==
    /\ attempt[r].pc = "claim" /\ task[r].asked
    /\ TaskIs(r, "canceled") /\ GoesTo(r, "none")
    /\ UNCHANGED <<run, ledger, made, epoch, stops>>

RunClaimable == {"pending", "failed", "canceled"}

ClaimMutant(r) ==                  \* a completed run is claimed as well
    /\ attempt[r].pc = "claim"
    /\ RunIs(r, "running") /\ GoesTo(r, "prepare")
    /\ UNCHANGED <<ledger, made, epoch, task, stops>>

ClaimRun(r) ==
    /\ attempt[r].pc = "claim"
    /\ IF run[r].status \in RunClaimable
       THEN RunIs(r, "running") /\ GoesTo(r, "prepare")
       ELSE GoesTo(r, "settle") /\ UNCHANGED run
    /\ UNCHANGED <<ledger, made, epoch, task, stops>>

\* Chunks are made again only by the first attempt; an attempt that finds a
\* published chunk gone, or whose chunks cannot be made, fails.
PrepareLedger(r) ==
    /\ attempt[r].pc = "prepare"
    /\ epoch' \in {epoch} \cup {e \in {epoch + 1} : ledger[r] = NoChunks /\ e <= MaxEpoch}
    /\ attempt' = [attempt EXCEPT ![r] =
          [pc |-> IF Rows(r, "succeeded") \subseteq Chunks(epoch') THEN "clear" ELSE "fail",
           selected |-> Chunks(epoch')]]
    /\ UNCHANGED <<run, ledger, made, task, stops>>

\* An exception, or a cancellation seen by a progress report, before the
\* chunks are selected.
StopUnprepared(r) ==
    /\ attempt[r].pc = "prepare"
    /\ IF task[r].asked THEN RunIs(r, "canceled") /\ TaskIs(r, "canceled") /\ GoesTo(r, "none")
       ELSE RunIs(r, "failed") /\ GoesTo(r, "settle") /\ UNCHANGED task
    /\ UNCHANGED <<ledger, made, epoch, stops>>

ClearFailed(r) ==
    /\ attempt[r].pc = "clear"
    /\ ledger' = [ledger EXCEPT ![r] = [c \in Rows(r, "succeeded") |-> @[c]]]
    /\ GoesTo(r, "sync")
    /\ UNCHANGED <<run, made, epoch, task, stops>>

\* Everything is derived from the rows of the selected chunks.
CountersOf(r, selected) ==
    LET succeeded == Rows(r, "succeeded") \cap selected IN
    [total |-> Cardinality(selected), succeeded |-> Cardinality(succeeded),
     failed |-> Cardinality(Rows(r, "failed") \cap selected),
     created |-> Cardinality(UNION {{c} \X (1..ledger[r][c][2]) : c \in succeeded})]

StatusMutant(r, count, phase) ==   \* chunks without a result are overlooked
    IF run[r].status = "completed" THEN "completed"
    ELSE IF phase \in {"running", "canceled"} THEN phase
    ELSE IF count.failed = 0 THEN "completed" ELSE "failed"

StatusOf(r, count, phase) ==
    IF run[r].status = "completed" THEN "completed"
    ELSE IF phase = "running" THEN "running"
    ELSE IF count.succeeded = count.total THEN "completed"
    ELSE IF phase = "canceled" THEN "canceled" ELSE "failed"

ReconcileRun(r, phase) ==
    LET count == CountersOf(r, attempt[r].selected) IN
    run' = [run EXCEPT ![r] = [status |-> StatusOf(r, count, phase), count |-> count]]

Left(r) == attempt[r].selected \ Rows(r, "succeeded")

\* After the first reconciliation and after every chunk, in the chunks' order.
SyncProgress(r) ==
    /\ attempt[r].pc = "sync"
    /\ ReconcileRun(r, "running")
    /\ GoesTo(r, "next")
    /\ UNCHANGED <<ledger, made, epoch, task, stops>>

Tried(r) == DOMAIN ledger[r]
ChunkDue(r) == {c \in attempt[r].selected \ Tried(r) :
              \A d \in attempt[r].selected \ Tried(r) : c[2] <= d[2]}

\* A checkpoint or a progress report.
CancelAttempt(r) ==
    /\ attempt[r].pc = "next" /\ task[r].asked
    /\ ReconcileRun(r, "canceled")
    /\ GoesTo(r, "none")
    /\ TaskIs(r, IF run'[r].status = "completed" THEN "succeeded" ELSE "canceled")
    /\ UNCHANGED <<ledger, made, epoch, stops>>

Deposit(r, c, row, cards) ==
    /\ ledger' = [ledger EXCEPT ![r] = [d \in DOMAIN @ \cup {c} |-> IF d = c THEN row ELSE @[d]]]
    /\ made' = made \cup cards
    /\ GoesTo(r, "sync")
    /\ UNCHANGED <<run, epoch, task, stops>>

PublishMutant(r, c, n) ==          \* a chunk drafted anew publishes again
    /\ attempt[r].pc = "next" /\ c \in ChunkDue(r)
    /\ Deposit(r, c, <<"succeeded", n>>, {<<r, c, i>> : i \in 1..MaxDraft})

\* Cards, review items and the ledger row are one transaction.
PublishChunk(r, c, n) ==
    /\ attempt[r].pc = "next" /\ c \in ChunkDue(r)
    /\ Deposit(r, c, <<"succeeded", n>>, {<<r, c, i>> : i \in 1..n})

FailChunk(r, c) ==
    /\ attempt[r].pc = "next" /\ c \in ChunkDue(r)
    /\ Deposit(r, c, <<"failed", 0>>, {})

\* The client cannot be made, or a transaction of the loop raises.
BreakOff(r) ==
    /\ attempt[r].pc \in {"clear", "sync", "next"}
    /\ GoesTo(r, "fail")
    /\ UNCHANGED <<run, ledger, made, epoch, task, stops>>

\* phase "final": at the end of the loop, and for an attempt that failed.
FinishRun(r) ==
    /\ \/ attempt[r].pc = "fail"
       \/ attempt[r].pc = "next" /\ ChunkDue(r) = {}
    /\ ReconcileRun(r, "final")
    /\ GoesTo(r, "settle")
    /\ UNCHANGED <<ledger, made, epoch, task, stops>>

\* The handler ends by the status of its run.
SettleRun(r) ==
    /\ attempt[r].pc = "settle"
    /\ TaskIs(r, CASE run[r].status = "completed" -> "succeeded"
                   [] run[r].status = "canceled" -> "canceled"
                   [] OTHER -> "failed")
    /\ GoesTo(r, "none")
    /\ UNCHANGED <<run, ledger, made, epoch, stops>>

\* The process stops; lifespan fails the runs, then the interrupted tasks.
StopAndRecover ==
    /\ stops < MaxStops
    /\ stops' = stops + 1
    /\ attempt' = [r \in Runs |-> NoAttempt]
    /\ run' = [r \in Runs |-> [run[r] EXCEPT !.status =
                                  IF @ \in {"pending", "running"} THEN "failed" ELSE @]]
    /\ task' = [r \in Runs |-> IF task[r].status # "running" THEN task[r]
                    ELSE [status |-> IF task[r].asked THEN "canceled" ELSE "failed",
                          asked |-> FALSE]]
    /\ UNCHANGED <<ledger, made, epoch>>

GenNext ==
    \/ \E r \in Runs :
          \/ StartRun(r) \/ EnqueueRun(r) \/ CancelTask(r) \/ RetryTask(r)
          \/ TakeTask(r) \/ CancelUnclaimed(r) \/ ClaimRun(r)
          \/ PrepareLedger(r) \/ StopUnprepared(r) \/ ClearFailed(r)
          \/ SyncProgress(r) \/ CancelAttempt(r) \/ BreakOff(r)
          \/ \E c \in AllChunks : \/ FailChunk(r, c)
                                  \/ \E n \in 0..MaxDraft : PublishChunk(r, c, n)
          \/ FinishRun(r) \/ SettleRun(r)
    \/ Rechunk \/ StopAndRecover

----------------------------------------------------------------------------

CardsOf(r, c) == {k \in made : k[1] = r /\ k[2] = c}

\* The ledger is the truth about a run: a chunk has exactly the cards its
\* succeeded row counts and none otherwise, a completed run has published every
\* chunk it counts and counts every card it made, a running run has an attempt,
\* and a task succeeded only with its run; after retries, cancellations, stops
\* and new chunks in between.
LedgerSound ==
    \A r \in Runs :
       /\ \A c \in AllChunks :
             Cardinality(CardsOf(r, c)) =
                IF c \in Rows(r, "succeeded") THEN ledger[r][c][2] ELSE 0
       /\ run[r].status = "completed" =>
             /\ run[r].count.succeeded = run[r].count.total
             /\ run[r].count.succeeded = Cardinality(DOMAIN ledger[r])
             /\ run[r].count.created = Cardinality({k \in made : k[1] = r})
       /\ run[r].status = "running" => attempt[r].pc \notin {"none", "enqueue", "claim", "settle"}
       /\ task[r].status = "succeeded" => run[r].status = "completed"

\* A completed run stays as it is, and what a chunk has published is never
\* published again or taken back by a later attempt.
PublishedIsFinal ==
    \A r \in Runs :
       /\ run[r].status = "completed" => run'[r] = run[r]
       /\ \A c \in Rows(r, "succeeded") :
             /\ c \in DOMAIN ledger'[r] /\ ledger'[r][c] = ledger[r][c]
             /\ {k \in made' : k[1] = r /\ k[2] = c} = CardsOf(r, c)
=============================================================================
