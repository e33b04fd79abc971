---------------------------- MODULE SourceIndex ----------------------------
(***************************************************************************)
(* The canonical Source projection of a course and its semantic index      *)
(* (backend/app/course_source_service.py, course_source_store.py,          *)
(* source_index_service.py, source_chunk_embedding_store.py), with the     *)
(* writers of the roots it is derived from: video jobs and source assets.  *)
(*                                                                         *)
(* A root owns content: the transcript chunks of a video, the units of an  *)
(* asset.  Every write gives all of them fresh ids, so a content is a      *)
(* number, 0 for none.  A root's row in sources copies its status and      *)
(* content; embeddings belong to a content.  A step is one transaction or  *)
(* one query.                                                              *)
(***************************************************************************)
EXTENDS Naturals

CONSTANTS Videos, Assets, \* the roots of one course
          Threads,        \* workers, request threads and searches
          NoThread,
          Dims,           \* vector dimensions the model of one name may have
          MaxWrites,      \* bound: contents ever produced
          MaxIndexes,     \* bound: runs of index_course_sources
          MaxTrashes,     \* bound: roots moved to Trash
          MaxCrashes      \* bound: process crashes

Roots == Videos \cup Assets

ASSUME SourceIndexAssumption ==
    /\ Videos \cap Assets = {}
    /\ NoThread \notin Threads
    /\ Dims \subseteq Nat \ {0}
    /\ MaxWrites \in Nat /\ MaxIndexes \in Nat
    /\ MaxTrashes \in Nat /\ MaxCrashes \in Nat

VARIABLES root,       \* jobs and source_assets, with their content
          proj,       \* sources and source_chunks
          emb,        \* source_chunk_embeddings: <<content, dimension>>, per root
          thread,     \* per thread: its place in the code and its locals
          lock,       \* _reconciliation_lock
          mode,       \* "up", or the startup step that is due
          writes, indexes, trashes, crashes

counters == <<writes, indexes, trashes, crashes>>
vars == <<root, proj, emb, thread, lock, mode, counters>>

Contents == 0..MaxWrites
RootStatus == {"pending", "processing", "ready", "failed"}
IndexStatus == {"not_indexed", "indexing", "ready", "stale", "failed"}

\* due: the root's import task is not settled.
Staged == [status |-> "pending", deleted |-> FALSE, content |-> 0, due |-> TRUE]

NewRow == [status |-> "pending", content |-> 0, index |-> "not_indexed",
           token |-> 0, dim |-> 0]
NoRow == [NewRow EXCEPT !.status = "none"]

Syncing   == {"sync", "syncChunks", "syncReplace", "syncRemove"}
Importing == {"enqueue", "parse", "ready", "settle"}
Indexing  == {"plan", "embed", "publish", "commit", "fail"}
Steps == Syncing \cup Importing \cup Indexing
           \cup {"idle", "restored", "chunks", "ensure", "begin"}

\* r and back: the root being synchronised and the step that follows; status
\* and content: what was read or made of it.  The rest are the locals of
\* index_course_sources.
Idle == [pc |-> "idle", r |-> NoThread, back |-> "idle", status |-> "none",
         content |-> 0, selected |-> {}, todo |-> {}, snap |-> [r \in {} |-> 0],
         token |-> 0, dim |-> 0, pending |-> {}]

Projected(r) == proj[r].status # "none"
Active(r) == Projected(r) /\ ~root[r].deleted
ImporterOf(t, r) == thread[t].r = r
                      /\ (thread[t].pc \in Importing \/ thread[t].back \in Importing)
Restoring == \E t \in Threads : thread[t].back = "restored"

----------------------------------------------------------------------------

Init == /\ root = [r \in Roots |-> Staged]
        /\ proj = [r \in Roots |-> NewRow]
        /\ emb = [r \in Roots |-> {}]
        /\ thread = [t \in Threads |-> Idle]
        /\ lock = NoThread
        /\ mode = "up"
        /\ writes = 0 /\ indexes = 0 /\ trashes = 0 /\ crashes = 0

Goto(t, pc) == thread' = [thread EXCEPT ![t] = [@ EXCEPT !.pc = pc]]
End(t) == thread' = [thread EXCEPT ![t] = Idle]

\* Thread t goes on to synchronise r, then to step back.
SyncThen(t, r, back) ==
    thread' = [thread EXCEPT ![t] = [@ EXCEPT !.pc = "sync", !.r = r, !.back = back]]

\* Fresh ids for a content.
Fresh(n) == writes < MaxWrites /\ n = writes + 1 /\ writes' = n

SetStatus(r, status) == root' = [root EXCEPT ![r].status = status]

----------------------------------------------------------------------------
\* The projection of one root: sync_video_source and sync_source_asset.

\* The embeddings that survive when r's chunks are replaced.
Kept(r, content) == {e \in emb[r] : e[1] = content}

IndexAfterMutant(r, status, content) ==      \* a change of content is missed
    IF status # "ready" \/ content = 0 THEN <<"not_indexed", 0>>
    ELSE <<proj[r].index, proj[r].token>>

\* index_status and index_generation when r's chunks are replaced.
IndexAfter(r, status, content) ==
    IF status # "ready" \/ content = 0 THEN <<"not_indexed", 0>>
    ELSE IF content = proj[r].content THEN <<proj[r].index, proj[r].token>>
    ELSE IF Kept(r, content) # {} \/ proj[r].token # 0 THEN <<"stale", 0>>
    ELSE <<"not_indexed", 0>>

\* The row of r once its root was read to have this status and content.
Replaced(r, status, content) ==
    [proj[r] EXCEPT !.status = status, !.content = content,
                    !.index = IndexAfter(r, status, content)[1],
                    !.token = IndexAfter(r, status, content)[2]]

\* list_source_units_for_asset hides the units of a trashed asset,
\* list_chunks_for_job does not look.
ContentOf(r) == IF r \in Assets /\ root[r].deleted THEN 0 ELSE root[r].content

SyncReadMutant(t) ==                          \* without the lock
    /\ thread[t].pc = "sync"
    /\ LET r == thread[t].r IN
       thread' = [thread EXCEPT ![t] =
           [@ EXCEPT !.pc = IF root[r].deleted THEN "syncRemove" ELSE "syncChunks",
                     !.status = root[r].status]]
    /\ UNCHANGED <<root, proj, emb, lock, mode, counters>>

SyncRead(t) ==
    /\ thread[t].pc = "sync"
    /\ lock = NoThread
    /\ lock' = t
    /\ LET r == thread[t].r IN
       thread' = [thread EXCEPT ![t] =
           [@ EXCEPT !.pc = IF root[r].deleted THEN "syncRemove" ELSE "syncChunks",
                     !.status = root[r].status]]
    /\ UNCHANGED <<root, proj, emb, mode, counters>>

SyncChunks(t) ==
    /\ thread[t].pc = "syncChunks"
    /\ thread' = [thread EXCEPT ![t] =
           [@ EXCEPT !.pc = "syncReplace", !.content = ContentOf(thread[t].r)]]
    /\ UNCHANGED <<root, proj, emb, lock, mode, counters>>

SyncReplace(t) ==
    LET me == thread[t] IN
    /\ me.pc = "syncReplace"
    /\ proj' = [proj EXCEPT ![me.r] = Replaced(me.r, me.status, me.content)]
    /\ emb' = [emb EXCEPT ![me.r] = Kept(me.r, me.content)]
    /\ lock' = NoThread
    /\ thread' = [thread EXCEPT
           ![t] = IF me.back \in {"idle", "restored"} THEN Idle
                  ELSE [me EXCEPT !.pc = me.back, !.back = "idle", !.status = "none",
                                  !.content = 0]]
    /\ UNCHANGED <<root, mode, counters>>

\* The root is gone: its projection goes too, and the caller fails.
SyncRemove(t) ==
    /\ thread[t].pc = "syncRemove"
    /\ proj' = [proj EXCEPT ![thread[t].r] = NoRow]
    /\ emb' = [emb EXCEPT ![thread[t].r] = {}]
    /\ lock' = NoThread
    /\ End(t)
    /\ UNCHANGED <<root, mode, counters>>

Sync(t) == SyncRead(t) \/ SyncChunks(t) \/ SyncReplace(t) \/ SyncRemove(t)

----------------------------------------------------------------------------
\* Imports: process_source_asset, run_job_pipeline and their task handlers.

MayImport(r) ==
    /\ ~root[r].deleted
    /\ \A t \in Threads : ~ImporterOf(t, r)
    /\ IF r \in Videos THEN root[r].status \in {"pending", "failed"}
                       ELSE root[r].due \/ root[r].status # "ready"

\* The endpoint marks a video started, without the lifecycle lock, before it
\* creates the task.
ImportStart(t, r) ==
    /\ thread[t].pc = "idle" /\ MayImport(r)
    /\ SetStatus(r, IF r \in Videos THEN "processing" ELSE "pending")
    /\ SyncThen(t, r, "enqueue")
    /\ UNCHANGED <<proj, emb, lock, mode, counters>>

\* The task is created, if it was not, and its handler finds the root or fails.
Enqueue(t) ==
    LET r == thread[t].r IN
    /\ thread[t].pc = "enqueue"
    /\ IF root[r].deleted THEN End(t) /\ UNCHANGED root
       ELSE root' = [root EXCEPT ![r].due = TRUE] /\ Goto(t, "parse")
    /\ UNCHANGED <<proj, emb, lock, mode, counters>>

\* replace_source_units.
ReplaceUnits(t) ==
    /\ thread[t].pc = "parse" /\ thread[t].r \in Assets
    /\ \E n \in Contents : Fresh(n) /\ root' = [root EXCEPT ![thread[t].r].content = n]
    /\ Goto(t, "ready")
    /\ UNCHANGED <<proj, emb, lock, mode, indexes, trashes, crashes>>

MarkReady(t) ==
    /\ \/ thread[t].pc = "ready"
       \/ thread[t].pc = "parse" /\ thread[t].r \in Videos
    /\ SetStatus(thread[t].r, "ready")
    /\ SyncThen(t, thread[t].r, "settle")
    /\ UNCHANGED <<proj, emb, lock, mode, counters>>

\* A failure, or the cancellation that leaves an asset pending.
ImportFail(t) ==
    /\ thread[t].pc = "parse"
    /\ \E status \in {"failed"} \cup {s \in {"pending"} : thread[t].r \in Assets} :
          SetStatus(thread[t].r, status)
    /\ SyncThen(t, thread[t].r, "settle")
    /\ UNCHANGED <<proj, emb, lock, mode, counters>>

Settle(t) ==
    /\ thread[t].pc = "settle"
    /\ root' = [root EXCEPT ![thread[t].r].due = FALSE]
    /\ End(t)
    /\ UNCHANGED <<proj, emb, lock, mode, counters>>

\* The recovered task of a video that was completed already.
SettleCompleted(r) ==
    /\ mode = "up" /\ r \in Videos
    /\ root[r].due /\ root[r].status = "ready"
    /\ \A t \in Threads : ~ImporterOf(t, r)
    /\ root' = [root EXCEPT ![r].due = FALSE]
    /\ UNCHANGED <<proj, emb, thread, lock, mode, counters>>

Import(t) == \/ \E r \in Roots : ImportStart(t, r)
             \/ Enqueue(t) \/ ReplaceUnits(t) \/ MarkReady(t) \/ ImportFail(t) \/ Settle(t)

----------------------------------------------------------------------------
\* Transcript chunks of a video: generate_job_chunks.

HasTranscript(r) == ~root[r].deleted /\ root[r].status = "ready"

\* Chunking takes the time of the embedder; the ids are made on the way.
ChunksStart(t, r, back) ==
    /\ HasTranscript(r)
    /\ \E n \in Contents :
          /\ Fresh(n)
          /\ thread' = [thread EXCEPT ![t] =
                 [@ EXCEPT !.pc = "chunks", !.r = r, !.content = n, !.back = back,
                           !.todo = thread[t].todo \ {r}]]
    /\ UNCHANGED <<root, proj, emb, lock, mode, indexes, trashes, crashes>>

\* POST /jobs/{job_id}/chunks
GenerateChunks(t, r) == thread[t].pc = "idle" /\ ChunksStart(t, r, "idle")

\* replace_chunks_for_job: by then the job may be in Trash.
WriteChunks(t) ==
    /\ thread[t].pc = "chunks"
    /\ root' = [root EXCEPT ![thread[t].r].content = thread[t].content]
    /\ Goto(t, "sync")
    /\ UNCHANGED <<proj, emb, lock, mode, counters>>

----------------------------------------------------------------------------
\* Trash.

\* delete_job and delete_source_asset, behind the guard on active tasks and, for
\* an asset, the lifecycle lock of its imports.
Trash(r) ==
    /\ mode = "up" /\ trashes < MaxTrashes /\ trashes' = trashes + 1
    /\ ~Restoring
    /\ ~root[r].deleted /\ ~root[r].due
    /\ r \in Assets => \A t \in Threads : ~ImporterOf(t, r)
    /\ root' = [root EXCEPT ![r].deleted = TRUE]
    /\ UNCHANGED <<proj, emb, thread, lock, mode, writes, indexes, crashes>>

\* restore_video_job and restore_deleted_source_asset, under the lifecycle
\* lock.
Restore(t, r) ==
    /\ thread[t].pc = "idle" /\ ~Restoring
    /\ root[r].deleted
    /\ root' = [root EXCEPT ![r].deleted = FALSE]
    /\ SyncThen(t, r, "restored")
    /\ UNCHANGED <<proj, emb, lock, mode, counters>>

----------------------------------------------------------------------------
\* index_course_sources.

\* The course is resolved; videos without chunks are to be chunked, or all.
\* The number of the run is its generation, a fresh uuid.
IndexStart(t, S, dim, regenerate) ==
    /\ thread[t].pc = "idle"
    /\ indexes < MaxIndexes /\ indexes' = indexes + 1
    /\ S # {} /\ \A r \in S : Active(r)
    /\ thread' = [thread EXCEPT
           ![t] = [Idle EXCEPT !.pc = "ensure", !.selected = S, !.dim = dim,
                   !.token = indexes + 1,
                   !.todo = {r \in S \cap Videos : /\ proj[r].status = "ready"
                                                   /\ regenerate \/ proj[r].content = 0}]]
    /\ UNCHANGED <<root, proj, emb, lock, mode, writes, trashes, crashes>>

IndexEnsure(t) ==
    /\ thread[t].pc = "ensure"
    /\ \E r \in thread[t].todo : ChunksStart(t, r, "ensure")

\* Chunks could not be prepared: nothing was begun.
IndexEnsureFail(t) ==
    /\ \/ thread[t].pc = "ensure" /\ thread[t].todo # {}
       \/ thread[t].pc = "chunks" /\ thread[t].back = "ensure"
    /\ End(t)
    /\ UNCHANGED <<root, proj, emb, lock, mode, counters>>

\* The sources still belong to the course; their chunks are listed.
IndexResolve(t) ==
    LET me == thread[t]
        available == {r \in me.selected : proj[r].status = "ready" /\ proj[r].content # 0}
    IN
    /\ me.pc = "ensure" /\ me.todo = {}
    /\ IF (\A r \in me.selected : Active(r)) /\ available # {}
       THEN thread' = [thread EXCEPT
                ![t] = [Idle EXCEPT !.pc = "begin", !.token = me.token, !.dim = me.dim,
                            !.snap = [r \in available |-> proj[r].content]]]
       ELSE End(t)
    /\ UNCHANGED <<root, proj, emb, lock, mode, counters>>

\* begin_source_index takes a source over from any other run.
IndexBegin(t) ==
    LET me == thread[t]
        S == DOMAIN me.snap
    IN
    /\ me.pc = "begin"
    /\ IF \A r \in S : Projected(r)
       THEN /\ proj' = [r \in Roots |->
                  IF r \in S THEN [proj[r] EXCEPT !.index = "indexing", !.token = me.token]
                             ELSE proj[r]]
            /\ Goto(t, "plan")
       ELSE End(t) /\ UNCHANGED proj
    /\ UNCHANGED <<root, emb, lock, mode, counters>>

\* The embeddings that are missing, or of another dimension.
IndexPlan(t) ==
    LET me == thread[t] IN
    /\ me.pc = "plan"
    /\ thread' = [thread EXCEPT ![t] =
           [@ EXCEPT !.pc = "embed",
                     !.pending = {r \in DOMAIN me.snap :
                                     <<me.snap[r], me.dim>> \notin emb[r]}]]
    /\ UNCHANGED <<root, proj, emb, lock, mode, counters>>

\* The vectors are computed; the sources are resolved once more.
IndexPublish(t) ==
    /\ thread[t].pc = "embed"
    /\ Goto(t, IF \A r \in DOMAIN thread[t].snap : Active(r) THEN "commit" ELSE "fail")
    /\ UNCHANGED <<root, proj, emb, lock, mode, counters>>

\* A cancellation, or an exception of the embedder.
IndexInterrupt(t) ==
    /\ thread[t].pc \in {"plan", "embed", "commit"}
    /\ Goto(t, "fail")
    /\ UNCHANGED <<root, proj, emb, lock, mode, counters>>

\* The run of t is still the one that indexes r.
Holds(t, r) == Projected(r) /\ proj[r].token = thread[t].token

\* The embeddings that commit_source_index finds or puts in place.
Written(t, r) ==
    LET me == thread[t] IN
    IF r \in me.pending /\ proj[r].content = me.snap[r] /\ proj[r].status = "ready"
    THEN {e \in emb[r] : e[1] # me.snap[r]} \cup {<<me.snap[r], me.dim>>}
    ELSE emb[r]

\* Every active chunk is embedded, in the dimension of this run.
Complete(t, r) ==
    /\ proj[r].content # 0 /\ proj[r].status = "ready"
    /\ <<proj[r].content, thread[t].dim>> \in Written(t, r)

Outcome(t, r) == IF Complete(t, r) THEN "ready"
                 ELSE IF proj[r].content # 0 /\ proj[r].status = "ready" THEN "stale"
                 ELSE "not_indexed"

IndexCommit(t) ==
    LET me == thread[t]
        held == {r \in DOMAIN me.snap : Holds(t, r)}
    IN
    /\ me.pc = "commit"
    /\ emb' = [r \in Roots |-> IF r \in held
                               THEN {e \in Written(t, r) : e[1] = proj[r].content}
                               ELSE emb[r]]
    /\ proj' = [r \in Roots |-> IF r \in held
                                THEN [proj[r] EXCEPT !.index = Outcome(t, r), !.token = 0,
                                                     !.dim = me.dim]
                                ELSE proj[r]]
    /\ IF \A r \in DOMAIN me.snap : r \in held /\ Complete(t, r)
       THEN End(t) ELSE Goto(t, "fail")
    /\ UNCHANGED <<root, lock, mode, counters>>

FailedMutant(t, r) ==                              \* forgets the generation
    IF r \in DOMAIN thread[t].snap /\ Projected(r)
    THEN [proj[r] EXCEPT !.index = "failed", !.token = 0] ELSE proj[r]

Failed(t, r) == IF r \in DOMAIN thread[t].snap /\ Holds(t, r)
                THEN [proj[r] EXCEPT !.index = "failed", !.token = 0] ELSE proj[r]

\* fail_source_index.
IndexFail(t) ==
    /\ thread[t].pc = "fail"
    /\ proj' = [r \in Roots |-> Failed(t, r)]
    /\ End(t)
    /\ UNCHANGED <<root, emb, lock, mode, counters>>

Index(t) ==
    \/ \E S \in SUBSET Roots, dim \in Dims, regenerate \in BOOLEAN :
          IndexStart(t, S, dim, regenerate)
    \/ IndexEnsure(t) \/ IndexEnsureFail(t) \/ IndexResolve(t)
    \/ IndexBegin(t) \/ IndexPlan(t) \/ IndexPublish(t) \/ IndexInterrupt(t)
    \/ IndexCommit(t) \/ IndexFail(t)

----------------------------------------------------------------------------
\* Crash, and the startup of the next process.

Crash ==
    /\ crashes < MaxCrashes /\ crashes' = crashes + 1
    /\ thread' = [t \in Threads |-> Idle]
    /\ lock' = NoThread
    /\ mode' = "jobs"
    /\ UNCHANGED <<root, proj, emb, writes, indexes, trashes>>

Interrupted(r) == r \in Videos /\ root[r].status = "processing" /\ ~root[r].deleted

\* recover_interrupted_video_jobs, with the synchronisations.
RecoverJobs ==
    /\ mode = "jobs" /\ mode' = "indexes"
    /\ root' = [r \in Roots |-> IF Interrupted(r) THEN [root[r] EXCEPT !.status = "failed"]
                                                  ELSE root[r]]
    /\ proj' = [r \in Roots |-> IF Interrupted(r) THEN Replaced(r, "failed", root[r].content)
                                                  ELSE proj[r]]
    /\ emb' = [r \in Roots |-> IF Interrupted(r) THEN Kept(r, root[r].content) ELSE emb[r]]
    /\ UNCHANGED <<thread, lock, counters>>

RecoveredMutant(row) ==                            \* keeps the generation
    IF row.index = "indexing" THEN [row EXCEPT !.index = "failed"] ELSE row

RecoveredTypeMutant(row) ==                        \* a status of tasks
    IF row.index = "indexing" THEN [row EXCEPT !.index = "canceled", !.token = 0] ELSE row

Recovered(row) == IF row.index = "indexing" \/ row.token # 0
                  THEN [row EXCEPT !.index = "failed", !.token = 0] ELSE row

RecoverIndexes ==
    /\ mode = "indexes" /\ mode' = "sources"
    /\ proj' = [r \in Roots |-> Recovered(proj[r])]
    /\ UNCHANGED <<root, emb, thread, lock, counters>>

\* reconcile_course_sources: trashed roots are part of the projection.
Reconcile ==
    /\ mode = "sources" /\ mode' = "up"
    /\ proj' = [r \in Roots |-> Replaced(r, root[r].status, ContentOf(r))]
    /\ emb' = [r \in Roots |-> Kept(r, ContentOf(r))]
    /\ UNCHANGED <<root, thread, lock, counters>>

Step(t) ==
    /\ mode = "up"
    /\ \/ Sync(t) \/ Import(t) \/ Index(t) \/ WriteChunks(t)
       \/ \E r \in Videos : GenerateChunks(t, r)
       \/ \E r \in Roots : Restore(t, r)

Next == \/ \E t \in Threads : Step(t)
        \/ \E r \in Roots : Trash(r) \/ SettleCompleted(r)
        \/ Crash \/ RecoverJobs \/ RecoverIndexes \/ Reconcile

Spec == Init /\ [][Next]_vars

----------------------------------------------------------------------------
\* Properties.

RootType == [status : RootStatus, deleted : BOOLEAN, content : Contents, due : BOOLEAN]

RowType == [status : RootStatus \cup {"none"}, content : Contents,
            index : IndexStatus, token : 0..MaxIndexes, dim : Dims \cup {0}]

\* The contents a run listed, per source that has any.
Snaps == UNION {[S -> Contents] : S \in SUBSET Roots}

ThreadType ==
    [pc : Steps, r : Roots \cup {NoThread}, back : Steps,
     status : RootStatus \cup {"none"}, content : Contents,
     selected : SUBSET Roots, todo : SUBSET Roots,
     snap : Snaps,
     token : 0..MaxIndexes, dim : Dims \cup {0}, pending : SUBSET Roots]

\* Every variable stays in its type, in particular no step leaves the tables
\* with a status outside the literals of CourseSource, whose rows could no longer be read.
STypeOK ==
    /\ root \in [Roots -> RootType]
    /\ proj \in [Roots -> RowType]
    /\ emb \in [Roots -> SUBSET (Contents \X Dims)]
    /\ thread \in [Threads -> ThreadType]
    /\ lock \in Threads \cup {NoThread}
    /\ mode \in {"up", "jobs", "indexes", "sources"}
    /\ writes \in Contents /\ indexes \in 0..MaxIndexes
    /\ trashes \in Nat /\ crashes \in Nat

\* A source shown as indexed is searchable: its content is ready, and every
\* chunk it has now is embedded in the dimension of its index.  Searches rank
\* the chunks of ready sources by those vectors, while imports, chunk requests
\* and other index runs replace both.
IndexReadyTrue ==
    \A r \in Roots : proj[r].index = "ready" =>
        /\ proj[r].status = "ready" /\ proj[r].content # 0
        /\ <<proj[r].content, proj[r].dim>> \in emb[r]

\* A source shown as indexing is being indexed: the run whose generation it
\* holds is between begin_source_index and its end, whatever other runs,
\* imports, cancellations and crashes did.  Otherwise it would stay so.
IndexingOwned ==
    mode = "up" => \A r \in Roots :
        /\ proj[r].index = "indexing" <=> proj[r].token # 0
        /\ proj[r].token # 0 => \E t \in Threads :
               /\ thread[t].pc \in Indexing
               /\ thread[t].token = proj[r].token
               /\ r \in DOMAIN thread[t].snap

\* The thread wrote r, or is about to finish, and still has to synchronise it.
Owes(t, r) == thread[t].r = r /\ thread[t].pc \in Syncing \cup {"ready"}

\* Unless a writer of the root is about to synchronise it, the projection of a
\* root that is not in Trash is the root: writers run without a common lock,
\* and a synchronisation that read the root too early must not be the last.
ProjectionFollowsRoot ==
    mode = "up" => \A r \in Roots :
        \/ root[r].deleted
        \/ \E t \in Threads : Owes(t, r)
        \/ proj[r].status = root[r].status /\ proj[r].content = root[r].content

\* What the tables say is true: of the index, and of who works on it and on the
\* projection.
SourcesSound == STypeOK /\ IndexReadyTrue
ProjectionSound == IndexingOwned /\ ProjectionFollowsRoot

\* A finished index is lost only to a change of the content, to the removal of
\* the source, or to a newer run: an older run that commits, fails or is
\* canceled late, or a restart, takes nothing down.
ReadyIsKept ==
    [][\A r \in Roots :
          (/\ proj[r].index = "ready"
           /\ proj'[r].status = proj[r].status /\ proj'[r].content = proj[r].content)
          => proj'[r].index \in {"ready", "indexing"}]_vars

\* A root in Trash that had chunks in the projection keeps some: its rows go
\* only with a purge, so that a restore finds its citations and its index.
TrashKeepsProjection ==
    [][\A r \in Roots :
          (root[r].deleted /\ root'[r].deleted /\ proj[r].content # 0)
          => proj'[r].content # 0]_vars
=============================================================================
