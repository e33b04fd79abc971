# Citefold in TLA+

Citefold is a local-first study workspace: a FastAPI backend over one SQLite
file, a React frontend, and a Tauri shell that starts and stops the backend.
Beside it, the repository holds offline tools that prepare human-labelled data
and run retrieval experiments. This directory holds TLA+ models of the parts
that keep state, the TLC configurations that check them, and TLAPS proofs, for every value of the
constants, of every safety property and every refinement that a run checks; what is only
model-checked is liveness. File names below are relative to
`src/backend/app/` unless they say otherwise.

## How to run

    tlc -workers 2 -config MCReliableTaskStore.cfg MCReliableTaskStore.tla
    tlapm ReliableTaskStoreProofs.tla

and so for each run of `PROJECT.json` and each of the eight modules `*Proofs.tla`
(`LibraryProofs` and `LibraryStepProofs` take about a quarter of an hour, the others five minutes or less).

`PROJECT.json` lists every run with its properties, the definition-by-definition
map to the source, and for each property a plausible bug (an operator that no
action uses, placed before the definition it replaces) that breaks it.

## Inventory

Everything the backend does slowly (chat answers, video processing, card
generation, imports, study documents) is a row of `reliable_tasks`, run by a
pool of threads in the one backend process. Endpoints write the row, the manager
runs it, a handler of `reliable_workflows.py` calls the domain service, and the
service keeps state of its own in domain tables. Several tables therefore
describe one piece of work, in separate transactions, over crashes. The other
requests run in server threads, mostly without a lock, a few transactions each.

| Part | State | Operations | What is hard | What makes it correct |
|---|---|---|---|---|
| Durable task table (`reliable_task*.py`) | rows with status, attempt, claim token; append-only event stream | create, claim, heartbeat, progress, cancel, succeed, fail, retry, startup recovery | stale workers, replayed requests, two keys with different lifetimes | keys stay unique, only the newest claim writes, rows stay loadable, the stream replays to the row |
| Task manager (`reliable_task_manager.py`, `workspace_lifecycle.py`) | permits, scheduled ids, thread pool, quiescing/closed flags | enqueue, notify, submit, dispatch, execute, cancel, retry, quiesce, shutdown | lost wake-ups, permits lost or returned twice, threads that outlive the process's server | no permit lost, one submission per task, no orphaned row, quiesced means idle, queued rows run |
| Handlers (`reliable_workflows.py`) | none of their own | checkpoint, progress, end | cancellation seen late, errors mapped to retryable or not | task result and domain state agree |
| Chat turns (`chat_store.py`, `chat_service.py`) | turn, assistant message, citations, selected sources | reserve, replay, retry, retrieve, generate, validate, publish, refuse, fail, recover | sources change while the model writes, late threads reserve after a restart | one active turn per conversation, answers final and grounded, task and turn agree |
| Sources and their index (`course_source*.py`, `source_index_service.py`, `source_chunk_embedding*.py`) | projection generation, chunks, embeddings, index status | reproject, begin index, publish embeddings, fail, recover, reconcile | an index of an old projection published over a new one | index status ready only for the current projection |
| Videos and documents (`job*.py`, `source_asset*.py`, `video_pipeline.py`) | record, status, transcript or units, task | upload, run, retry, requeue, process, cancel, recover | requests that write back an old copy, a task and a record that end apart | what is shown as ready has its output; a task's end and the record agree |
| Auto cards (`auto_card_generation_service.py`, `card_generation_*_store.py`) | run, per-chunk ledger, cards | start, chunk done, publish, cancel, resume | resume after crash, publication racing cancellation, new chunks in between | every chunk counted once, cards published once |
| Backup and restore (`workspace_backup.py`) | marker, receipt and its phases, staged and kept files | validate, queue, stage, swap, roll back, finalize | crash at every rename, an archive that lies | old or new workspace, never a mixture |
| Desktop shell (`src/frontend/src-tauri/src/backend.rs`) | owned child, port, token | start, probe, quiesce, stop, restart | a late exit event, a kill at the wrong moment | one backend, the owned one; stopped only when quiesced |
| Trash (`trash*.py`) | soft-deletion timestamps, Trash items, purge plan and phase | delete, restore, purge, resume purge | crash inside a purge of many transactions and files | what can be restored is whole, a purge goes forward |
| Concept graph draft (`concept_graph_store.py`) | append-only revisions, reviews, receipts | create, edit, review, merge, retire | two owners, Sources that change under an accepted claim | stale where it must be, acyclic, no dangling redirect |
| Concept graph versions (`concept_graph_publication_store.py`) | immutable versions with seal, head | preview, publish, replay, serve | what was previewed is not what is published | history of what was seen, every version rebuildable |
| Graph paths (`concept_graph_path.py`) | none | trace, neighbourhood, learning path | limits that cut a search | shortest, whole, in order, or said to be cut |
| Notes, drafts, study documents (`notebook_note*.py`, `workspace_draft*.py`, `learning_document*.py`) | revisioned rows, snapshots, versions | save, autosave, capture, publish as a Source, generate | late autosave, two editors, generation racing edits | no lost update, history kept |
| Cards, topics, relations, reviews (`knowledge_card*.py`, `topic*.py`, `card_relation*.py`, `review*.py`) | cards and the rows on them; a tree | attach, rate, classify, recompute, merge, move, split | requests that looked before a purge; several transactions per rearrangement | decisions kept, no card lost from the map |
| Citations (`citation_target_service.py`, `citation_content_response.py`) | snapshots, fingerprints | resolve, hash, stream | the file changes between lookup, hash and stream | the bytes served are those cited |
| Process (`main.py` lifespan, `desktop_server.py`) | startup order | apply restore, migrate, recover tasks, turns, jobs, runs, indexes, start manager | recovery in several transactions, no guard against an old process | nothing stays active without an owner |
| Human-gold tooling (`src/backend/golden_graph/`) | files that are written once; seals | publish a set of artifacts, prepare, sign, seal | kills between two files, two commands at once | the root comes last, a seal stands for what was signed |
| Experiments (`src/backend/rag_lab/`) | episode state; a run's folder | decide, act, verify, answer; start, append, resume | budgets; kills in the middle of a write | answers on verified evidence, each question once |
| Courses, settings, prompts, model clients, migrations, React views | single rows; none | one transaction or call each | little | constraints in SQLite |

`PROJECT.json` gives each part its files and says modelled, partly or not.

## The modules

    TaskLifecycle            abstract: what one task may do
    ReliableTaskStore        the task table, one action per transaction
      ReliableTaskManager    + dispatcher, pool, quiesce, process lifetime
      ChatTurns              + chat turns, sources, the chat handler
    SourceIndex              roots of a course, their projection, index runs
    WorkspaceArchive         what an archive holds, when it is accepted
      WorkspaceRestore       + queue, swap, rollback, commit, startup
        DesktopShell         + the shell, the child process, the port
    PublicationLog           abstract: a history of graphs somebody saw
    ConceptGraph             the draft of a course's graph
      ConceptGraphPublication  + previews, versions, serving
    TrashPurge WorkspaceDrafts NotebookNotes LearningDocuments CardGeneration
    TopicTree StudyCards CitationTarget ConceptGraphPath MediaIntake
    ArtifactPublication AnnotationSeal ControllerEpisode ControllerRun
                             one component each; MCLibrary explores them
    ReliableTaskStoreProofs  theorems, each module EXTENDS the one it is about
      ReliableTaskManagerProofs  ChatTurnsProofs
    SourceIndexProofs  ConceptGraphPublicationProofs
    WorkspaceRestoreProofs   the restore, alone and under DesktopShell
    LibraryStepProofs        invariants of seven of the parts in MCLibrary
      LibraryProofs          those of the others, and the theorems of all
    MC...                    instances for TLC

**ReliableTaskStore.** `tasks` is the table, `events` its stream per task,
`clock` the order of `available_at`, `live` the items not in Trash. All
transactions open with `BEGIN IMMEDIATE`, so each is one step; each action
carries the name of its function. The uuid4 claim token is a counter per row (`claims`):
what matters is that it is fresh. `progress` and `result` hold the token of the
claim that wrote them instead of JSON, which is what fencing properties need.
`Next` lets any caller present any token ever issued, which is more than the
manager does. Payloads, worker names, heartbeat times and wording are left out;
a fingerprint stands for the hashed columns. The deletion of an item is two
transactions of an endpoint, `RequireNoActiveTasks` and `TrashResource`, with the
item in `deleting` between them; what else takes the lifecycle lock (creating,
retrying, restoring; `LockFree`) waits, workers do not. A deletion that raises
(`AbandonDeletion`) leaves the item where it was.

**ReliableTaskManager.** Adds the threads. A step is one transaction or one
critical section of `_state_lock`/`_scheduled_lock`. Per worker, `pc` follows
`_execute_task` through claim, first checkpoint (two transactions: `Check`,
`Beat`), handler, further checkpoints and progress reports, and the three ways
to end, including `_settle_canceling_claim`; `Done` and `Release` are the two
halves of `_task_done`. The dispatcher lists rows and submits them one by one
from a list that grows old. Quiesce cancels snapshots, then waits, and may be asked
again. `Shutdown`, `DropPending` and `Exit` follow `shutdown(wait=False,
cancel_futures=True)`: a thread inside a handler outlives the server (`stale`)
next to the process started after it. `Crash` loses everything but the database.
`faults` counts database calls that fail ("database is locked"); where one fails
decides who sees it: the handler's `try`, the future, the dispatcher thread or `notify`.

**ChatTurns.** Adds turns. A turn is named by its idempotency key
(conversation and client_request_id). A thread record holds its place in
`send_chat_message` and its locals: the claim, whether it is a second attempt,
the generation token and the evidence read. Sources are a content version and
an enabled flag. The steps between retrieval, model call and publication are
separate, so sources, selection, cancellation and Trash can change between them.
Startup is two transactions (`StartTasks`, `StartTurns`) with late threads of
the old process free to act in between. Any idle thread takes any queued task: the
pool's scheduling is the manager's module. The several database calls with which the manager
ends a claim are one step each (`Succeed`, `Fail`, `Cancel`); their
interleavings are also the manager's module, and so is a claim made by a thread of an old process.
`Ask` does not look at `live`, because the endpoint reads the conversation before it takes
the lock. A search may return nothing, evidence of any part of the scope
(disabled sources included: an explicit selection is not filtered), or fail. Not
modelled: rename, archive, purge, moving a conversation or source between courses.

**SourceIndex.** `root` is a video job or a source asset with its content, `proj` its row
in `sources`, `emb` its embeddings, `thread` the place of each thread and its locals, `lock`
the `_reconciliation_lock`, `mode` the startup step that is due. Every write of
chunks or units makes fresh ids for all of them, so a content is a number and
replacing it loses all embeddings of the old one; an embedding is `<<content, dimension>>`. One model
name is enough, with several dimensions, because a changed name and a changed dimension are
handled alike. The generation uuid is the number of the run. Three things about the code
shape the model. A synchronisation is three steps (row, chunks, replace), and
`_reconciliation_lock` keeps synchronisations apart but not the writers of roots.
`index_course_sources` is called by searches and chat without a task, so runs overlap, and
`begin_source_index` lets a newer one take over. `start_job` marks a video as started
outside the lifecycle lock, before its task exists. `IndexResolve` joins the
two reads that resolve and list; `IndexPublish` is the last resolution before the commit.
After a crash the next process recovers jobs, then index runs, then reconciles,
and only then serves. Not modelled: notes as roots, the enabled flag, projection
generation ids, moves between courses, a course in Trash, purge, synchronisations that
fail, and threads that outlive their process; a retry of an import next to the running one is
in `MediaIntake`.

**WorkspaceArchive, WorkspaceRestore, DesktopShell.** An archive is a record of what the
checks of `workspace_backup.py` look at (members, manifest, rows of the database, purge
journals), and `SoundWorkspace` says without the checks what they are for. `live`, `staged`
and `kept` are the three places a part of the workspace may be in; a content is the restore it
came from, 0 for the original. `marker`, `receipt`, `result` and `generation` are the files on
disk. A step is one rename, one write or one removal, and the process may die after each. A
failed step follows the code's own `except` blocks, the rollback's among them.
Startup is inside: migrating and recovering the restored database is one step that may fail
(`_initialize_workspace_before_task_dispatch`). `DesktopShell` adds the
owner of the process: commands run one at a time, each wait is a step, the exit event of a
child arrives whenever it likes, and another program may hold the port. Left out: the inside
of creating a backup (one step with one outcome).

**ConceptGraph, ConceptGraphPublication, PublicationLog.** A Concept and a relation are
sequences of revisions, the last of which is the head. One action is one `BEGIN IMMEDIATE`
transaction with its incident relations made stale and its receipt. Wording is left out; an evidence
item is the chunk it quotes and the generation of its projection. An operation id stands for one
request. `previews` is what each publisher saw, `versions`, `children` and `active` are the stored
version, its rows and the head. `DraftCoherent` compares the two implementations that judge whether the
draft can be published. `PublicationLog` is the promise: a history that only grows, each
graph in it one that its publisher looked at on top of that history; publication
implements it. A chunk stands for its Source; the purge of a course is
in `TrashPurge`; `MAX_AUTHORITY_CHUNK_CHARS` counts only in the currentness of a publication.

**TrashPurge.** Rows, Trash items, files and projections of one course, its video, document and
conversation. Operations hold the lifecycle lock, so one is in progress (`op`), a step is one of
its transactions or unlinks, any step may raise (the item is then marked failed, which may
fail too) and the process may stop anywhere; a restart is the recovery of interrupted
operations and the reconciliation. A plan names a set of files, so the unlinks come in any order, the
code's among them.

**WorkspaceDrafts.** One draft row and the editors of it in two windows, following
`useAutosavedDraft.ts`: requests on the wire are served in any order, replies may be lost, and a reply that
was superseded is not looked at.

**NotebookNotes, LearningDocuments, CardGeneration.** Notes are single transactions by editors
that hold an older revision; `snapshots` and `source` are what a published note shows. A study
document is written by threads of several transactions each: what a link rests on is looked at first (`CheckCard`, `CheckLink`;
a purged card stays purged, so document and card may be read at one moment), and the write comes later and checks nothing again. A generation
reads, asks a model and publishes. A card run has a ledger row per chunk; a chunk is
`<<epoch, position>>`, so that new chunks are new ids.

**TopicTree, StudyCards.** A request about the topic map reads and checks in one step, and every write is a
transaction of its own, with the rows it has read carried along; requests overlap, and each may stop anywhere. No lock
and no condition in SQL keeps a stale row from being written, so `crossed` records that a request wrote after another one
had changed the tree it had read, and the promises about the tree are made until then (see the gaps for what happens
afterwards). The several reads of a request are one step: a read that straddles another request's write counts as crossed when
the request writes. `StudyCards` has requests in
parallel too: each reads, and writes later, one transaction at a time; `late` marks a row written by
a request that had looked before the purge. A classification reads its relation before the model call and waits at "hide" during it. A purge chooses rows by the cards that are there, and progress
and events by the review items that are there, so what was written late may outlive it
(`GoesWith`, `Unrelated`); only the purge of the course takes every relation.

**CitationTarget, ConceptGraphPath.** A citation request reads the snapshot, the owner, opens,
hashes and streams, while files are moved, replaced and written in place; `RangesHold` checks
`_parse_range` against its meaning. The path engine finds one Concept per step, in any order among the neighbours of the one taken from the queue,
over every published graph of the bound, and `Reach`, `Within` and `Behind` are the reference definitions; published graphs are acyclic, which is `VersionSound`.

**MediaIntake.** One video or document: `media` is the record, `chore` its latest task,
`importer` the thread that runs it with its copy of the record, `uploader` the requests with
theirs, `gate` the lifecycle lock where it is held over several transactions. A step is one
transaction with the synchronisation of the projection after it, which raises when the item or
its course is in Trash. A start that raises is `boot = "broken"`. Attempts are not counted (`RetryChore` need not be taken);
the orphaned file of a stopped upload and media probing are left out.

**ArtifactPublication, AnnotationSeal, ControllerEpisode, ControllerRun.** The offline tools
(`src/backend/golden_graph`, `src/backend/rag_lab`). A published set is a row of paths, each JSON followed by its
sidecar and the root last; the three styles of publishing share one mechanism. A leaf's two files are
read at one instant; ignored `OSError`s of an unlink and the recovery of a sidecar without
its JSON are left out. In `AnnotationSeal` a text stands for labels and everything derived from them, "body"
for the published files before the seal. An episode has one required need, a policy that may pick any
admissible subset where the code ranks, a verifier with any verdict, and `late` for characters and elapsed time. An experiment is one folder whose inputs
are equal on resume; trace validation is `EpisodeFails`.

**TaskLifecycle.** The state machine of ADR-0006 (`src/docs/decisions/`), one step moving any number of
tasks along one edge each, because startup recovery settles all in one transaction.
`ReliableTaskManager!LifecycleSpec` states that the executor implements it: above
all there is no edge from running to canceled, so a task nobody asked to cancel
never ends canceled, whichever thread loses which race.

## Runs

| Run | Instance | Shows |
|---|---|---|
| `store` | 2 rows, 3 requests (two share an active key, one has no idempotency key), 2 attempts, streams up to 3 events before progress stops | every order of transactions by workers with arbitrary old tokens keeps rows sound and keys unique; streams replay, final rows stay final, no item goes to Trash under an active task and no task about an item in Trash is retried |
| `manager` | three scopes in one: 2 tasks, 2 threads, 2 permits, 1 process; 1 task, 3 attempts, 3 process starts; 1 task with progress reports, 2 starts and 1 failing database call | permits and submissions balance, "quiesced" means idle, no two handlers for one key, no row without its thread but one whose own failure write failed, the lifecycle is implemented |
| `liveness` | 2 tasks, 1 thread, 1 permit, no fault | queued rows run, cancellations and quiesce settle |
| `chat_one` | 1 question, 2 attempts, 2 starts, 2 threads, 1 edit, 1 fault, fair | turn, message and task agree, what is published is final, grounded and under a live claim, every question settles |
| `chat_two` | 2 questions of one conversation, 2 attempts, 2 starts, 2 threads | at most one active turn, each with its owner, success means an answer |
| `sources` | a video and a document, 2 threads, 2 contents, 2 index runs, 2 dimensions (one where both a Trash and a crash happened: `Small`), 1 Trash, 1 crash | an index marked ready is complete and is lost only for a reason, one marked indexing is being indexed, the projection follows its roots |
| `workspace` | 3 sidecars, 2 restores, 1 crash or failed file operation; 14 archives, 12 of which break one rule each | whatever is interrupted, one whole workspace is served and told as such; a commit is final; one backend, stopped only when quiesced; restores settle |
| `concept_graph` | 2 Concepts and the relations between them, 2 chunks, 2 owners, 8 revisions or changes of Sources (5 of them the initial draft), 2 versions | the draft is stale exactly where it must be, acyclic and without dangling redirects; every version can be rebuilt; what is published is what was seen, and is served |
| `library` | 14 scenarios, one per first state | `TrashHolds` ... `IntakeHolds`: what each of the parts below promises |
| `dispatcher_fault` | as `liveness`, with one failing call | **violation**, see Findings |
| `trash_restart` | 1 document, 1 thread, 1 crash | **violation**, see Findings |
| `purge_retry` | the Trash scenario of `library` | **violation**, see Findings |

The scenarios of `library` share no state, so `MCLibrary` explores them one after another in one
run, each on its own instance; a property of one is an implication on `scenario`.

| Scenario | Promise |
|---|---|
| trash | what can be used or restored has its files and projection, no file is left behind, a purge only goes forward |
| drafts | an editor that shows "Saved" at the row's revision holds its text, however requests were delayed or lost |
| notes | an answer is kept once, a published note shows its newest revision as it was, a revision is replaced only by an editor that saw it |
| documents | a generation publishes once, numbers are unique, sources are those of the newest generated version, a version goes only with its document, a document in Trash keeps body, sources and links |
| generation | each chunk has the cards its ledger row counts; a completed run is complete and final |
| topics | a card has at most one primary topic; until a request writes over a tree another one changed, the rows are a forest and rearranging loses no card |
| cards | what a purge leaves was written later; a decision about a relation outlives recomputation and new suggestions; a classification made meanwhile can only hide it |
| citations | the bytes served are those cited; a refusal has a cause; fingerprints stay; ranges are what was asked |
| paths | traces are shortest, neighbourhoods whole, learning paths in order, or the answer says it was cut |
| publication | the root comes last, a reported set stands, a refusal has a conflict |
| seals | a seal stands over what was frozen, signed and published, and stays |
| episodes | no budget is passed, answers rest on verified evidence, an end has its cause |
| experiment | each question once and in order, one runner, records kept |
| intake | what is shown ready has its output; the end of a task and the record agree; Trash is left alone; a startup fails at most once |

### Bounds, and why they are enough

* Two tasks suffice for the keys: each uniqueness property speaks of a pair.
  `req` values share an active key, or have no idempotency key, as the endpoints build them.
* A conflict over permits needs more tasks than permits (`liveness`: 2 to 1); a
  permit returned twice needs one. Two threads are the smallest number that
  can hold claims of one row from two attempts, or two rows with one key.
* `manager` joins three instances by a constraint (`InScope`): the product of two tasks, restarts and faults
  is out of reach, and each question needs one of the pairs. Three attempts and three starts let a thread of the first
  process meet the second and third attempt. `liveness` uses one attempt: a retry there
  repeats the same lost wake-up, only later.
* `MaxEvents` caps streams by stopping progress reports only; other writes are bounded by attempts.
* `MaxEdits` 1 is enough for evidence to go stale once in each of its
  ways; `MaxFaults` 1 puts one failing call anywhere.
* `sources` needs two threads for a run that is taken over or overtaken by a writer, and two
  roots because a run covers a set of them and fails as a whole. Two contents are one
  change under an index; two dimensions let the second run find vectors of another shape.
  Once a root went to Trash and the process crashed as well, `Small` leaves one dimension: neither looks at it.
* `workspace`: a second restore meets what the first left; a third spawn is one after a child was replaced and its
  successor died. Each bad archive breaks one check, so dropping that check lets it in.
* `concept_graph`: two owners are symmetric; eight events allow a graph to be built, reviewed, published, changed under
  a preview and published again. The instance starts from five revisions already made and has room for three more.
* `library`: two requests are the smallest race; faults, stops and starts are bounded (`MaxTrashFaults` 2, `MaxStops` 1, `MaxStarts` 3,
  `MaxEnds` 3) so that one falls into the recovery of another. Revisions and versions up to 2 give one old and one new; three requests per draft window
  let a reply be superseded twice; three topic levels are the code's own limit; three Concepts and three relations give every shape of a detour.
  Two requests about topics meet with both on a flat or a bare tree of accepted topics (`Meeting`); with suggestions, hidden topics and nesting one runs
  alone (`Alone`); a state after a crossing is checked and not explored further.
  `Apart` explores rows and relations of cards in turns: they meet only in a purge, which both have. Three candidates of two artifacts
  differ in a first file, in a second, or in all. Budgets are ample, tight, and without a search.
* States: `store` 456 k, `manager` 1.1 M, `liveness` 80 k, `chat_one` 205 k, `chat_two` 557 k, `sources` 1.8 M,
  `workspace` 255 k, `concept_graph` 164 k, `library` 1.2 M; the longest take about three minutes with two workers.
* The views leave out variables that no guard and no property of that run
  reads: most of the stream in `manager` (`NoStream`), and in `chat_two` also
  task columns that chat never looks at (`Seen`). Symmetry permutes tasks, threads, publishers or requests, which no
  action tells apart, and only in runs without liveness.
* `CHECK_DEADLOCK FALSE`, except in `store`: the number of process starts, revisions or requests is bounded, a process
  that went down for the last time stops the model, and an answered query or an ended episode is an end.

### Fairness, and why the code justifies it

`Fairness` is weak fairness of the dispatcher, of the quiesce request and of each worker
thread: the operating system runs threads that can run. `HandlerEnds` has strong fairness: a handler
passes finitely many checkpoints, and its calls to models and tools have timeouts. Nobody is obliged
to ask, cancel, retry, quiesce, stop or start; properties say "unless the process went down".
`FairCSpec` has the same for chat threads, and weak fairness of claiming each queued task, which is what
`QueuedRuns` establishes of the manager. `SFairness` of the desktop shell: a process that runs takes its
steps, commands end, exit events are delivered, and the page goes on asking for a backend
(strong fairness of `Ensure` when none is there, as the frontend polls until it has one). Crashes are not fair and are
bounded, so `RestoreSettles` says that somebody starting the application again is enough.

## Findings

**A failing read ends the dispatcher.** `_dispatch_loop` calls
`dispatch_once()` with no handler (`reliable_task_manager.py:459-463`), so one "database
is locked" after the 10 s busy timeout ends the only dispatcher thread for the life
of the process. `notify` on enqueue is best effort and refuses when the pool is
full; a persisted row whose wake-up was refused then stays queued until the next
start. The comment at `reliable_task_manager.py:284-287` and
ADR-0006 (lines 119-121) rely on the dispatcher to find such rows. Run
`dispatcher_fault` gives the behaviour: pool full, wake-up refused, read fails, the first
task ends, the second stays queued.

**A restart empties the projection of documents in Trash.** `reconcile_course_sources` runs at every
startup and includes trashed assets, but reads their units with `list_source_units_for_asset`, which
requires `source_assets.deleted_at IS NULL` (`source_asset_store.py:188`). The document is
projected without chunks; its embeddings are deleted and its index is reset. The comment at
`course_source_service.py:78-79` says that restore keeps chunk identity, embeddings and historical citations, and
ADR-0006 (lines 159-162) says that projection data goes only with a purge. Run `trash_restart`.

**A course purge can become impossible to finish.** A purge of a course fails, or is interrupted, after its
plan was saved and before its files are removed. One of its items in Trash is then purged on its own,
which deletes that item's record. Every later course purge raises "Course purge recovery plan does not match the
course records." (`trash_service.py:828-858`), a restore of the course is refused, and so is every backup
(`workspace_backup.py:2300`). The docstring of `_purge_course` calls every completed stage retryable. Run `purge_retry`.

### Gaps met on the way

Seen in the code, most of them with TLC, and kept out of the properties that must hold.

* Chunks that a request or an index run writes while its video goes to Trash: the synchronisation that follows finds the
  tombstone and deletes the projection (`course_source_service.py:199`), which `docs/productization-log.md:1880-1883` says
  survives until explicit purge. `TrashKeepsProjection` finds it in the instance of `trash_restart` with a video and two threads.
* A draft that was deleted and created again starts its revisions over, so a window with the old number overwrites a
  text it never saw (`workspace_draft_store.py:110,140`; against `docs/productization-log.md:2444-2445`). `NoSilentOverwrite` states it
  and fails with `Scenarios = {"drafts"}`. An autosave after the purge of its note creates the draft again.
* A publisher killed between link and unlink leaves a second link; readers and retries of a stage refuse it for ever
  (`golden_graph/annotation_artifacts.py:526-528`, against its docstring at 159-162). `RetryRecovers` states it and fails
  with `Scenarios = {"publication"}`; a freeze of a protocol repairs it.
* A video task canceled while queued, or before its first progress report, leaves its job under way with no task: `run` and `retry` of the job refuse
  it, only a retry of the task or a restart frees it (`reliable_workflows.py:118`). `EndSettles` says "but for a cancellation".
* A video that was being processed when its course went to Trash makes the next startup raise (`job_service.py:183`); the recovery was
  committed, so the one after succeeds (`StartFailsOnce`).
* With one row and one failing call, the bounds `<= faults` of `RunningIsOwned` and `ActiveTurnOwned` say something in the runs only
  while nothing has failed; the theorems say them for any number. A rollback of a restore that fails itself is likewise in the theorems only.
* A requeue that read a document before its import finished sets it back to pending while the task succeeds
  (`source_asset_service.py:211`); a canceled, interrupted or never enqueued import stays pending, which the comment at
  `main.py:682-683` excludes. Another requeue repairs both.
* `_retry_failed_turn` does not look for another active turn of the conversation; only the unique index keeps two
  answers apart. A failing `_fail_turn` leaves its turn active and refuses later attempts until a restart.
* Two saves of a study document read the same next number: the second fails at `db.py:731` after it has updated the row. A save
  that carries only a status writes back the body it read. A manual save that races a purge leaves a version without a document.
* Two concurrent moves of topics, or a move and a rename, hide or accept that writes back the row it read, can form a cycle
  (`topic_service.py:178-195`); `_descendants` and `_is_descendant` then never end. A card can be placed in a topic that was deleted
  meanwhile, and the course map can overwrite a placement made meanwhile. Two first visits of a course each create an "Unsorted" topic
  (`EnsureUnsorted` is one step). `crossed` is the antecedent that leaves these out.
* A merge looks at no depth, and a move checks the depths below the topic as they are stored and its own only if there are none: a row deeper than
  `MAX_TOPIC_DEPTH` can be stored, which `Topic` refuses, so that every list of the course's topics raises. The model has it (`Loads`), and no property excludes it.
* A classification of a relation reads before its model call and writes after it (`card_relation_service.py:206,276`): a decision made
  meanwhile is replaced by "hidden". A patch writes back the whole row it read.
* `learning_documents` has no foreign key to cards: a link can be written after its card was purged, and two cards added at
  once can both become the primary anchor.
* `evidence_gap` can verify again what it verified in vain, and then ends as an invalid action; an evidence search with an
  empty scope can lead to an environment error instead of an answer.
* A quiesce that times out leaves `runtime_quiescing` set (`main.py:1847`). A sidecar that is alive and never healthy can be neither restarted nor stopped by a
  command. The restore marker is written in place (`workspace_backup.py:3259`), so a torn one can be neither read nor canceled
  (`QueuedCanBeCanceled` in `WorkspaceRestore`, not a property of a run).

## Proofs

The theorems hold for every value of the constants that satisfies the module's one assumption
(named `...Assumption`), so for any number of rows, threads, files, crashes and failing calls. The assumptions say that
bounds are numbers, that the values standing for NULL or for no row are no rows, that sets of names
which the code keeps apart are apart, and little else; TLC evaluates them on every run. Each invariant was
first checked by TLC. `PROJECT.json` lists the theorems with the property of a run that each states.

**The task table** (`ReliableTaskStoreProofs`): all properties of run `store`. The only assumption is
`StoreAssumption`: NULL is no key, requests are well typed, attempts are positive.

* The inductive invariant is `StoreInv`: `TypeOK`, `RowsInv`, `OneActivePerKey` and
  `OneTaskPerIdemKey`. `RowsInv` is the conjunction, row by row, of `RowLoads`,
  `NewestClaimWrites` and `CleanAttempt`, which need each other: that a fresh claim
  starts without progress is `CleanAttempt`, that a worker passing the compare-and-swap has the newest token is
  `NewestClaimWrites`, and that this token is not 0 is `RowLoads`.
* `StepShape` reduces every action to one of a few shapes (one row written with one of the
  `Created`, `Claimed`, ... records and one event appended; recovery of all rows; nothing), and the
  typing, row and key lemmas are proved once per shape. Uniqueness needs the guards of
  create and retry only, as no other shape makes a row active.
* `StreamsReplay` is a second invariant on top: appending an event that leaves the row's present status
  keeps the stream connected (`AppendReplays`). Recovery appends per row.
* `EndsAreFinal` is proved from `StoreInv` by the same shapes. `TrashSpares` needs `SparesInv`, which ties the check to the deletion over
  whatever workers do in between: no task about the item in `deleting` is active, and one that runs for a second time has its item.

**The manager** (`ReliableTaskManagerProofs`): all properties of run `manager`, among them that the
manager implements `TaskLifecycle` (`ManagerKeepsLifecycle`). `ManagerAssumption` has the settings' own bounds: there is
a thread and a permit, and there are no fewer permits than threads.

* Every step is a transaction of the store or leaves the table alone (`ManagerRunsStore`), so `StoreInv` carries over.
* The invariant `MInv` adds what ties threads to rows. `ThreadsInv`: a thread's token was issued for its job, no two
  threads have the same one. `QueueInv`: a scheduled task waits at one place or is in one hand; this is what makes a
  permit be returned once. `CountsInv` is the equation of permits; cardinalities make sense because a process starts with
  nothing and each step adds one, so nothing has to be assumed finite. `QuiesceInv`: once queued rows are canceled, none is
  queued again. `OrphansInv`: rows nobody runs are counted by the failed calls. `AvailInv`: no two rows were queued at the
  same tick, so the dispatcher's order is total.

**The chat** (`ChatTurnsProofs`): `RecordsSound`, `TurnsSound` and `PublicationHolds`, and that every step is one of
the store (`ChatRunsStore`). `ChatAssumption`: a scope is none or a set of Sources.

* In `CInv`, `PairsInv` says that no claim and no generation of a turn has two threads, and `OwnersInv` that
  the thread which owns a turn finds it in the status that its place in the code implies (`InPlace`). Together they are why a thread that
  passes the compare-and-swap of a publication is the one that read the evidence.
* `LostInv` counts the turns nobody will finish by the failed calls, as `OrphansInv` does.

**Sources** (`SourceIndexProofs`): all properties of run `sources`. `SourceIndexAssumption`: videos and assets are apart,
dimensions are positive.

* The invariant `Inv` is for the index. `Rows` says, row by
  row, that a ready index is complete and holds no generation. `Threaded` says what a thread's place implies of its
  locals, above all that inside an index run the generation is not 0. So an old run takes nothing down: to touch a row it
  must hold the row's generation, and a ready row has none (`IndexCommitStep`, `IndexFailStep`). `ReplacedRow` is the other half:
  replacing chunks keeps a ready index only with the same content, whose embeddings are kept.
* The invariant `Projection` is for `ProjectionSound`. `Owned` says that a generation belongs to a run in progress; a run gives back
  all it holds because no two runs have the same one (`Apart`). A synchronisation that read its root may write it back because of
  `Locked`: while it holds the lock nobody who owes the root can finish, so `Readings` (a reading is out of
  date only when somebody else still owes the root) stays true until it writes. `Startup` works alone.

**The Concept graph** (`ConceptGraphPublicationProofs`): `DraftSound`, `VersionSound`, `PublishedIsServed` and the
implementation of `PublicationLog`, which are `PublicationSafe`. `GraphAssumption` and `PublicationAssumption`: Concepts and
relations are finite, ends of relations are Concepts, limits are numbers.

* The draft: accepted prerequisites stay acyclic because a relation is accepted only after `CycleFound`, the search of the code
  from its target, has not met its source; `ReachedClosed` says that this search is complete, by counting what each round adds to a
  finite set. A merge leads to an active Concept and a retired one is not redirected to, so no redirect dangles.
  The gate and the triggers of a version judge the same rows alike (`DraftCoherent`).
* The invariant says that the next version has no rows yet and that published operations are over
  earlier versions. The first is why rows written once are never mixed with another version's (`NewRows`, `OldContent`).
* That a draft with an empty list of issues can be indexed and served is a lemma about the operators of the gate.
* The refinement maps the contents of the versions to the `history` and the previews not yet answered to `seen`; a publication
  compares the fingerprint, so its content is the one its publisher saw on top of the active version.

**Backup and restore** (`WorkspaceRestoreProofs`): `RestoreSound` and `CommitIsFinal`, for the restore alone (`Spec`) and under the
desktop shell (`SSpec`), and `ShellSafe`. `WorkspaceRestoreAssumption` and `WorkspaceArchiveAssumption`: parts have
different names, rows that SQLite returns have their columns, the original workspace is one that would pass as an archive.

* `WInv` joins the places of the process (`Place`) with the files. `InSwap` is its core: a swap is a transaction from a content
  c, and every part is in one of the situations of `Part` (original in its place, or kept; never both gone);
  `Progress` says how far the loop is. `Undoing` and `Finalizing` are the two ends, after which only clearing away is left, and `Settled`
  is the workspace without a receipt.
* `ImportedIsSound`: what passes the checks of an archive is a sound workspace after its paths are rebased. This is about the
  operators of `WorkspaceArchive`, for any rows.
* Under the shell, every step is one of the restore, or leaves its state, or is the death of the process by the
  shell, which `WInv` survives at every place. `ShellInv`: tokens are fresh, so a late exit event is never
  the running child's; the port is released only with the child down; a command terminates only behind a confirmed quiesce.

**The library.** `LibraryProofs` states each property of run `library` as `LibrarySpec` implies it: `LibrarySteps` says that a
step of the library is a step of the one part that runs, so an invariant of the part is enough. Those of the Trash, the episodes,
the queries of the graph, cards, topics, generation and intake are in `LibraryStepProofs`, the others in `LibraryProofs`.

**The Trash**: `TrashSound` and `PurgeGoesForward`, for any tree of courses and any files, also ones
that several rows name. `TrashAssumption`: a child has one course, kinds are apart.

* `PlansFit` is the core of `TrashInv`: a journal has done what it says. For every phase up to the saved one,
  `PhaseDone` holds of rows and disk, and stays true because rows that are gone stay gone (`PhaseKept`). So a retry may start after the saved
  phase, and a journal that ends leaves no file.
* `InOperation` says what the operation under the lock has established for its next step, so that a crash after a step and before
  its mark loses nothing. `Usable` and `Named` are the two sides about files: what can be used has its own,
  what is on disk is named by a row or a journal. The check for references of other courses (`Foreign`) is what keeps a shared file.

**Drafts, notes, documents.**

* Drafts: a revision of a row has one text; what an editor or a reply holds of the row that is there is older, or is its
  text (`Agrees`). At most one request of an editor is awaited (`OneAwaited`), and it carries the text the editor shows (`EditorsWait`).
* Notes: the ghost `text` holds the body of every revision, and both what an editor read and what a snapshot keeps are
  read from it (`EditorsRead`, `NoteFits`). `NewestSnapshot` says that the greatest revision is the one `Newest` picks.
* Documents: `VersionsFit` is inductive once it says that the versions have a greatest number, which is what
  `next_document_version_number` relies on (`NextIsNew`). `LinksKept` goes through every write of a link by its place in the request.

**Cards, topics, generation, intake.**

* Cards (`StudyInv`): a relation keeps the pair its id names, in the row and in every request that has read it, so what is written back
  late is still about the cards it was about. A row that is not late goes with its card or its review item.
* Topics (`TopicInv`): as long as nothing was crossed the rows are a `Forest`, that is, in any set of topics one has its parent outside, and
  `PlannersFine` says of every request that what it holds fits the tree it has read (`WellRead`, `RowsFine`); `MapSound` is what it needs of the tree.
  A request that is not overtaken has read the very tree it writes to, up to columns that no check looks at, so its checks still hold. `AncestorFacts` shows that the
  walk of the code finds everything above a topic after as many steps as there are topics; so a move under what is
  not below (`ForestMoved`), a new topic (`ForestGrows`) and a topic whose children are hung elsewhere (`ForestRehomed`) leave a forest.
* Generation (`GenInv`): the ledger of a run never mixes two chunkings (`OneEpoch`), so an attempt that finds every chunk
  it selected succeeded has all of them (`Whole`); the cards are those the rows of the ledger count (`CardsMatch`, `CardsAre`); and only an
  attempt under way has a running run (`AttemptInStep`).
* Intake (`IntakeInv`): a task under way keeps its item out of the Trash, so what it has written stands unless a request writes over it;
  only a task completes a record, and its copy has the output by then (`Carried`).

**Citations and queries of the published graph.**

* Citations: the fingerprint a request compares with is the one that is stored, because a stored one stays (`ReaderInv`), and what
  it streams has that fingerprint, or was written in place. Of a citation nobody touched everything is as it was (`Untouched`),
  so no check can refuse it. The ranges are proved of `_parse_range` as it is.
* Searches (`PathInv`): the queue is in the order of distances, so when a Concept is taken everything nearer has been found, unless
  a limit was met and is reported; what is found at distance n is what n steps of `Spread` reach. Closures stop growing after as many
  steps as there are Concepts (`GrowsToRest`).
* Learning paths: the degrees count what is left before a Concept (`Outstanding`); in an acyclic graph some Concept is
  always ready (`ReadyExists`), so the order ends with all of them, each after its prerequisites.

**The offline tools.**

* Publication: a command that is to link a file has checked those before it. `RootBound` says what this is for: when the
  root's file is there, those before it are there with the bytes of one set, as the root holds their digests (`PublicationAssumption`
  of `ArtifactPublication`: equal roots, equal digests, equal artifacts). `SidecarsFollow` says it of each artifact and its sidecar. A seal freezes one text, and every later file of the stage is
  derived from the frozen one. The folder of an experiment has one runner, and its rows are a prefix of the questions.
* Episodes: what is about to be performed is permitted by the protocol and fits the budget, whatever the policy picked,
  and the evidence of an answer was found before it was verified.

The assumptions on constants are those the code has: limits of a query are positive, the questions of an experiment are a
sequence, the value for "no record" is no record. `IsFiniteSet` is assumed of the topics, the Concepts are `1..ConceptCount`.

Model-checked only is liveness: `QueuedRuns`, `RequestsSettle`, `QuestionsSettle` and `RestoreSettles`, which, with `ENABLED`, is
outside what the prover supports. Recursion was in reach where it is a function on the numbers: `AllNumbers` is induction stated for
a set, `RecursionExists` gives the function its equations. Operators with an operator parameter (the
library's induction theorems, folds) are not, so the models that are proved about avoid them.

## Not modelled, and why

SQLite itself (its transactions are taken to be atomic and durable), schema migrations (linear,
once per version; their failure at startup is a fault of `WorkspaceRestore`), model servers and media tools (their outcomes are choices),
the content of prompts, rankings, embeddings and exports (data without state), the creation of a backup file by file,
React views other than the draft editor, settings, and in the offline tools the slicing of sources, scoring and statistics. Single writes
(renaming a course, a conversation or a topic) are left out.

## Plan

Every safety property of a passing run is a theorem. What could come next:

1. Liveness of the manager by hand (well-founded arguments over the rows still queued), once a prover for `ENABLED` is at hand.
2. The implementation of one abstract specification by both writers of a media record (`MediaIntake` and `SourceIndex`), which are modelled apart.
3. The offline tools that prepare data (`source_slice_builder.py`, `metrics.py`) as functions with reference definitions.
