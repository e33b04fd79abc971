------------------------------ MODULE TrashPurge ------------------------------
(***************************************************************************)
(* The Trash: soft deletion, restore and the journaled purge of a course   *)
(* tree (backend/app/trash_service.py, trash_store.py, and the delete,     *)
(* restore and purge operations of the courses, jobs and source assets).   *)
(*                                                                         *)
(* Every operation runs under the workspace lifecycle lock, so one of them *)
(* is in progress; a step is one transaction or one unlink of it.  A step  *)
(* may fail (the operation then marks its item failed, which may fail      *)
(* too), and the process may stop anywhere.                                *)
(***************************************************************************)
EXTENDS Naturals, Sequences, SequencesExt

CONSTANTS Courses,
          Jobs, Assets,   \* the children that own files and a projection
          Talks, Pages,   \* conversations; notes and learning documents
          CourseOf,       \* the course of a child
          FilesOf,        \* the managed files of a job or an asset
          NoItem, NoPlan,
          MaxTrashFaults  \* bound: steps that raise and stops of the process

Owners   == Jobs \cup Assets
Children == Owners \cup Talks \cup Pages
Entities == Courses \cup Children

VARIABLES row,       \* "live", "trashed" or "gone"
          item,      \* trash_items, per entity
          files,     \* managed files on disk
          projected, \* the owners with rows in sources
          op,        \* the operation that holds the lifecycle lock
          faults

trashVars == <<row, item, files, projected, op, faults>>

Free == [kind |-> "none", of |-> NoItem, at |-> "none", left |-> {}]

CoursePurgePhases == <<"planned", "conversations", "documents", "artifacts",
                       "assets", "jobs", "topics", "course">>
EntityPurgePhases == <<"planned", "projection", "database", "artifacts">>
PurgePhases(x) == IF x \in Courses THEN CoursePurgePhases ELSE EntityPurgePhases
Rank(x, phase) == CHOOSE i \in DOMAIN PurgePhases(x) : PurgePhases(x)[i] = phase

TrashItemStatus == {"trashed", "restoring", "restore_failed", "purging", "purge_failed"}

FilesIn(xs) == UNION {FilesOf[x] : x \in xs}
PlanRow == [phase : ToSet(CoursePurgePhases) \cup ToSet(EntityPurgePhases),
            artifacts : SUBSET FilesIn(Owners)]

ASSUME TrashAssumption ==
    /\ CourseOf \in [Children -> Courses]
    /\ DOMAIN FilesOf = Owners
    /\ Courses \cap Children = {} /\ (Talks \cup Pages) \cap Owners = {}
    /\ NoPlan \notin PlanRow
    /\ NoItem \notin [status : TrashItemStatus, plan : {NoPlan} \cup PlanRow]
    /\ MaxTrashFaults \in Nat

Of(c, kind) == {x \in kind : CourseOf[x] = c /\ row[x] # "gone"}

----------------------------------------------------------------------------

TrashInit == /\ row = [x \in Entities |-> "live"]
             /\ item = [x \in Entities |-> NoItem]
             /\ files = FilesIn(Owners)
             /\ projected = Owners
             /\ op = Free
             /\ faults = 0

Live(x) == row[x] = "live" /\ (x \in Children => row[CourseOf[x]] = "live")

\* The endpoints of delete hold the lock for their single transaction.
MoveToTrash(x) ==
    /\ op = Free
    /\ Live(x)
    /\ row' = [row EXCEPT ![x] = "trashed"]
    /\ item' = [item EXCEPT ![x] = [status |-> "trashed", plan |-> NoPlan]]
    /\ UNCHANGED <<files, projected, op, faults>>

RestoreClaimable == {"trashed", "restore_failed"}
PurgeClaimable   == {"trashed", "restore_failed", "purge_failed"}

ClaimableMutant(kind) == PurgeClaimable      \* a started purge is restored
Claimable(kind) == IF kind = "restore" THEN RestoreClaimable ELSE PurgeClaimable
Claimed(kind) == IF kind = "restore" THEN "restoring" ELSE "purging"
FailedAs(kind) == IF kind = "restore" THEN "restore_failed" ELSE "purge_failed"

Claim(x, kind) ==
    /\ op = Free
    /\ item[x] # NoItem /\ item[x].status \in Claimable(kind)
    /\ item' = [item EXCEPT ![x].status = Claimed(kind)]
    /\ op' = [Free EXCEPT !.kind = kind, !.of = x,
                          !.at = IF kind = "restore" THEN "row" ELSE "prepare"]
    /\ UNCHANGED <<row, files, projected, faults>>

Goto(at) == op' = [op EXCEPT !.at = at]
InStep(kind, at) == op.kind = kind /\ op.at = at

----------------------------------------------------------------------------
(* Restore: the row and its tombstone in one transaction, then the         *)
(* projection: of the whole course, or of one job or asset.                *)

\* A child comes back only into a live course.
Restorable(x) == row[x] = "trashed" /\ (x \in Children => row[CourseOf[x]] = "live")

RestoreRow ==
    /\ InStep("restore", "row")
    /\ LET x == op.of IN
       /\ Restorable(x)
       /\ row' = [row EXCEPT ![x] = "live"]
       /\ item' = [item EXCEPT ![x] = NoItem]
       /\ Goto(IF x \in Courses \cup Owners THEN "sync" ELSE "finalize")
    /\ UNCHANGED <<files, projected, faults>>

\* replace_course_source_projection also drops what the course no longer has.
Reconciled(c) == {r \in projected : CourseOf[r] # c} \cup Of(c, Owners)

RestoreSync ==
    /\ InStep("restore", "sync")
    /\ projected' = IF op.of \in Courses THEN Reconciled(op.of)
                    ELSE projected \cup {op.of}
    /\ Goto("finalize")
    /\ UNCHANGED <<row, item, files, faults>>

----------------------------------------------------------------------------
(* Purge.  Conversations, notes and documents have no journal; courses,    *)
(* jobs and assets save a plan first and every phase they complete.        *)

CourseArtifacts(c) == FilesIn(Of(c, Owners))
Artifacts(x) == IF x \in Courses THEN CourseArtifacts(x) ELSE FilesIn({x})

PrepareMutant ==                   \* a retry starts over, with a new plan
    /\ InStep("purge", "prepare")
    /\ LET x == op.of IN
       /\ item' = IF x \in Courses \cup Owners
                  THEN [item EXCEPT ![x].plan = [phase |-> "planned",
                                                 artifacts |-> Artifacts(x)]]
                  ELSE item
       /\ Goto(IF x \in Courses THEN "children"
               ELSE IF x \in Owners THEN "phase" ELSE "page")
    /\ UNCHANGED <<row, files, projected, faults>>

\* _prepare_course_purge, _prepare_entity_purge: an existing plan is kept.
Prepare ==
    /\ InStep("purge", "prepare")
    /\ LET x == op.of IN
       /\ item' = IF x \in Courses \cup Owners /\ item[x].plan = NoPlan
                  THEN [item EXCEPT ![x].plan = [phase |-> "planned",
                                                 artifacts |-> Artifacts(x)]]
                  ELSE item
       /\ Goto(IF x \in Courses THEN "children"
               ELSE IF x \in Owners THEN "phase" ELSE "page")
    /\ UNCHANGED <<row, files, projected, faults>>

\* The stores delete the rows and the tombstone of x together.
Deleted(xs, keep) ==
    /\ row' = [x \in Entities |-> IF x \in xs THEN "gone" ELSE row[x]]
    /\ item' = [x \in Entities |-> IF x \in xs \ keep THEN NoItem ELSE item[x]]

PurgePage ==
    /\ InStep("purge", "page")
    /\ Deleted({op.of}, {})
    /\ Goto("finalize")
    /\ UNCHANGED <<files, projected, faults>>

UnfinishedChild(c, x) ==
    /\ x \in Owners /\ CourseOf[x] = c /\ item[x] # NoItem
    /\ item[x].plan # NoPlan /\ item[x].plan.phase # "artifacts"
    /\ row[x] = "gone"

BlockedMutant(c) == FALSE         \* the parent forgets the children's journals
\* _assert_no_unfinished_child_entity_purges
Blocked(c) == \E x \in Children : UnfinishedChild(c, x)

CheckChildren ==
    /\ InStep("purge", "children")
    /\ ~Blocked(op.of)
    /\ Goto("phase")
    /\ UNCHANGED <<row, item, files, projected, faults>>

Plan == item[op.of].plan
NextPhase == PurgePhases(op.of)[Rank(op.of, Plan.phase) + 1]
Due(phase) == InStep("purge", "phase") /\ Plan.phase # Last(PurgePhases(op.of))
                /\ NextPhase = phase
\* _mark_course_purge_phase, _mark_entity_purge_phase
MarkPhase ==
    /\ InStep("purge", "mark")
    /\ item' = [item EXCEPT ![op.of].plan.phase = NextPhase]
    /\ Goto("phase")
    /\ UNCHANGED <<row, files, projected, faults>>

\* A journaled child: its projection, then its rows; the tombstone stays.
PurgeProjection ==
    /\ Due("projection")
    /\ projected' = projected \ {op.of}
    /\ Goto("mark")
    /\ UNCHANGED <<row, item, files, faults>>

PurgeRecords ==
    /\ Due("database")
    /\ Deleted({op.of}, {op.of})
    /\ Goto("mark")
    /\ UNCHANGED <<files, projected, faults>>

\* The course's children of one kind, one transaction each.
ChildrenOf(phase) == CASE phase = "conversations" -> Talks
                       [] phase = "documents"     -> Pages
                       [] phase = "assets"        -> Assets
                       [] phase = "jobs"          -> Jobs
                       [] OTHER                   -> {}

\* The projection of a child goes one transaction before its rows.
DropChildProjection(x) ==
    /\ op.of \in Courses /\ InStep("purge", "phase") /\ Plan.phase # "course"
    /\ x \in Of(op.of, ChildrenOf(NextPhase)) \cap Owners
    /\ op' = [op EXCEPT !.at = "child", !.left = {x}]
    /\ projected' = projected \ {x}
    /\ UNCHANGED <<row, item, files, faults>>

DropOwner ==
    /\ InStep("purge", "child")
    /\ Deleted(op.left, {})
    /\ op' = [op EXCEPT !.at = "phase", !.left = {}]
    /\ UNCHANGED <<files, projected, faults>>

DropPage(x) ==
    /\ op.of \in Courses /\ InStep("purge", "phase") /\ Plan.phase # "course"
    /\ x \in Of(op.of, ChildrenOf(NextPhase)) \ Owners
    /\ Deleted({x}, {})
    /\ UNCHANGED <<files, projected, op, faults>>

ChildrenGone(phase) ==
    /\ Due(phase) /\ op.of \in Courses
    /\ Of(op.of, ChildrenOf(phase)) = {}
    /\ Goto("mark")
    /\ UNCHANGED <<row, item, files, projected, faults>>

\* purge_course deletes the tombstones of the children with the row; a row
\* that is already gone is not an error.
PurgeCourseRecord ==
    /\ Due("course")
    /\ LET tree == {x \in Children : CourseOf[x] = op.of} IN
       item' = IF row[op.of] = "gone" THEN item
               ELSE [x \in Entities |-> IF x \in tree THEN NoItem ELSE item[x]]
    /\ row' = [row EXCEPT ![op.of] = "gone"]
    /\ Goto("mark")
    /\ UNCHANGED <<files, projected, faults>>

----------------------------------------------------------------------------
(* The files.                                                              *)

\* _assert_course_artifact_plan_matches_records
MatchesRecords == op.of \in Courses => Plan.artifacts = CourseArtifacts(op.of)

\* _assert_no_foreign_record_references
Foreign == \E x \in Owners : /\ row[x] # "gone"
                             /\ CourseOf[x] # op.of
                             /\ FilesIn({x}) \cap Plan.artifacts # {}

BeginUnlink ==
    /\ Due("artifacts")
    /\ MatchesRecords /\ ~Foreign
    /\ op' = [op EXCEPT !.at = "unlink", !.left = Plan.artifacts]
    /\ UNCHANGED <<row, item, files, projected, faults>>

\* unlink(missing_ok=True)
Unlink ==
    /\ InStep("purge", "unlink")
    /\ \/ op.left = {} /\ Goto("mark") /\ UNCHANGED files
       \/ \E f \in op.left : /\ files' = files \ {f}
                              /\ op' = [op EXCEPT !.left = @ \ {f}]
    /\ UNCHANGED <<row, item, projected, faults>>

PhasesDone ==
    /\ InStep("purge", "phase") /\ Plan.phase = Last(PurgePhases(op.of))
    /\ Goto("finalize")
    /\ UNCHANGED <<row, item, files, projected, faults>>

\* _finalize_operation
Finalize ==
    /\ op.at = "finalize"
    /\ item' = [item EXCEPT ![op.of] = NoItem]
    /\ op' = Free
    /\ UNCHANGED <<row, files, projected, faults>>

----------------------------------------------------------------------------
(* Failures, and the process that stops and starts.                        *)

Refused == \/ InStep("restore", "row") /\ ~Restorable(op.of)
           \/ InStep("purge", "children") /\ Blocked(op.of)
           \/ Due("artifacts") /\ (~MatchesRecords \/ Foreign)

\* A check refuses, or any step raises: an OSError, a database error.
Raises ==
    /\ op # Free /\ op.at # "failed"
    /\ \/ Refused /\ UNCHANGED faults
       \/ ~Refused /\ faults < MaxTrashFaults /\ faults' = faults + 1
    /\ op' = [op EXCEPT !.at = "failed", !.left = {}]
    /\ UNCHANGED <<row, item, files, projected>>

\* _mark_operation_failed is a compare-and-set; it may raise as well.
MarkFailed(saved) ==
    /\ op.at = "failed"
    /\ IF saved THEN UNCHANGED faults
       ELSE faults < MaxTrashFaults /\ faults' = faults + 1
    /\ item' = IF saved /\ item[op.of] # NoItem
                    /\ item[op.of].status = Claimed(op.kind)
               THEN [item EXCEPT ![op.of].status = FailedAs(op.kind)] ELSE item
    /\ op' = Free
    /\ UNCHANGED <<row, files, projected>>

Recovered(i) == IF i = NoItem THEN i
                ELSE IF i.status = "restoring" THEN [i EXCEPT !.status = "restore_failed"]
                ELSE IF i.status = "purging" THEN [i EXCEPT !.status = "purge_failed"]
                ELSE i

\* A stop of the process, and the startup that reconciles the live courses.
RestartTrash ==
    /\ IF op = Free THEN UNCHANGED faults
       ELSE faults < MaxTrashFaults /\ faults' = faults + 1
    /\ op' = Free
    /\ item' = [x \in Entities |-> Recovered(item[x])]
    /\ projected' = {r \in Owners : IF row[CourseOf[r]] = "live" THEN row[r] # "gone"
                                    ELSE r \in projected}
    /\ UNCHANGED <<row, files>>

RestoreStep == RestoreRow \/ RestoreSync
PhaseStep == \/ PurgeProjection \/ PurgeRecords \/ DropOwner
             \/ \E x \in Children : DropChildProjection(x) \/ DropPage(x)
             \/ \E phase \in {"conversations", "documents", "assets", "jobs", "topics"} :
                   ChildrenGone(phase)
             \/ PurgeCourseRecord \/ MarkPhase \/ PhasesDone
PurgeStep == \/ Prepare \/ PurgePage \/ CheckChildren \/ BeginUnlink \/ Unlink \/ PhaseStep

TrashNext == \/ \E x \in Entities : MoveToTrash(x)
             \/ \E x \in Entities, kind \in {"restore", "purge"} : Claim(x, kind)
             \/ RestoreStep \/ PurgeStep \/ Finalize
             \/ Raises \/ \E saved \in BOOLEAN : MarkFailed(saved)
             \/ RestartTrash

----------------------------------------------------------------------------

InPurge(x) == item[x] # NoItem /\ item[x].status \in {"purging", "purge_failed"}
Purged(x) == InPurge(x) \/ (x \in Children /\ InPurge(CourseOf[x]))

Journals(x) == {y \in {x, CourseOf[x]} : InPurge(y) /\ item[y].plan # NoPlan}

\* Whatever fails, and wherever a purge stops: what can still be used or
\* restored has its files and its projection; a row is in the Trash exactly
\* when it has a tombstone, unless a purge removed it; every file on disk is
\* named by a row or by a purge journal, so that no file is left behind; a
\* course outlives its children.
TrashSound ==
    /\ \A x \in Owners : row[x] # "gone" /\ ~Purged(x) =>
          FilesOf[x] \subseteq files /\ x \in projected
    /\ \A x \in Entities : /\ row[x] = "trashed" => item[x] # NoItem
                           /\ row[x] = "live" => item[x] = NoItem
                           /\ row[x] = "gone" /\ item[x] # NoItem => InPurge(x)
    /\ \A x \in Owners : row[x] = "gone" =>
          \A f \in FilesOf[x] \cap files :
             \E y \in Journals(x) : f \in item[y].plan.artifacts
    /\ \A x \in Children : row[CourseOf[x]] = "gone" => row[x] = "gone"

\* A purge only goes forward: whatever fails, its item keeps its plan and its
\* phases, is not restored, and leaves the Trash with its row.
PurgeGoesForward ==
    \A x \in Entities : InPurge(x) =>
       IF item'[x] = NoItem THEN row'[x] = "gone"
       ELSE /\ InPurge(x)'
            /\ item[x].plan # NoPlan =>
                 /\ item'[x].plan # NoPlan
                 /\ item'[x].plan.artifacts = item[x].plan.artifacts
                 /\ Rank(x, item'[x].plan.phase) >= Rank(x, item[x].plan.phase)

\* "A file error becomes retryable purge_failed": the purge of a course that
\* failed before its files were deleted can pass its own checks again.
RetryStaysPossible ==
    \A c \in Courses :
       /\ item[c] # NoItem /\ item[c].status = "purge_failed" /\ item[c].plan # NoPlan
       /\ Rank(c, item[c].plan.phase) < Rank(c, "artifacts")
       => item[c].plan.artifacts = CourseArtifacts(c)
=============================================================================
