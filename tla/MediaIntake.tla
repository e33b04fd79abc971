------------------------------ MODULE MediaIntake ------------------------------
(***************************************************************************)
(* How a video or a document becomes a source of its course: the upload,   *)
(* the requests that start it again, the background task that processes it *)
(* and the recovery at startup (backend/app/job_service.py, job_store.py,  *)
(* video_pipeline.py, source_asset_service.py, source_asset_store.py, the  *)
(* endpoints of main.py and _video_handler, _source_import_handler).       *)
(*                                                                         *)
(* A step is one transaction, with the synchronisation of the projection   *)
(* that follows it; that raises when the item or its course is in Trash.   *)
(* Requests read a record, decide, and write the whole of it later.  The   *)
(* table of tasks is one task of the item, as its active key makes it.     *)
(***************************************************************************)
EXTENDS Naturals

CONSTANTS Uploaders,   \* requests under way at a time
          NoMedia,     \* no record yet
          NoHolder     \* the workspace lifecycle lock is free

\* The record: how far it got, whether its transcript or units are there,
\* whether it is in Trash, and who wrote it last.
MediaStatuses == {"uploaded", "pending", "active", "failed", "canceled", "completed", "ready"}
MediaRows == [status : MediaStatuses, output : BOOLEAN, gone : BOOLEAN,
              by : {"request", "task", "start"}]

ASSUME IntakeAssumption == NoHolder \notin Uploaders /\ NoMedia \notin MediaRows

VARIABLES medium,      \* "video" or "document"
          media,       \* the record
          courseThere, \* the course is not in Trash
          chore,       \* the item's latest task
          importer,    \* the thread that runs it: at, and its copy of the record
          uploader,    \* request -> at, and its copy of the record
          gate,        \* who holds the lifecycle lock over several transactions
          boot         \* the process: "up", "down", "broken" (its start failed)

intakeVars == <<medium, media, courseThere, chore, importer, uploader, gate, boot>>

Video == medium = "video"
Finished == IF Video THEN "completed" ELSE "ready"
Unprocessed == IF Video THEN "uploaded" ELSE "pending"

Rest == [at |-> "idle", copy |-> NoMedia]

IntakeInit ==
    /\ medium \in {"video", "document"}
    /\ media = NoMedia
    /\ courseThere = TRUE
    /\ chore = "none"
    /\ importer = Rest
    /\ uploader = [u \in Uploaders |-> Rest]
    /\ gate = NoHolder
    /\ boot = "up"

InTrash == media # NoMedia /\ media.gone
\* get_job, get_source_asset: neither the item nor its course is in Trash.
Visible == media # NoMedia /\ ~media.gone /\ courseThere
ChoreActive == chore \in {"queued", "running", "canceling"}

\* A mutant: the update does not look at deleted_at.
WrittenAnyway(copy, who) ==
    [media EXCEPT !.status = copy.status, !.by = who, !.output = IF Video THEN copy.output ELSE @]

\* update_job writes the whole row, update_source_asset all but the units;
\* neither writes an item in Trash.
Written(copy, who) ==
    IF media.gone THEN media
    ELSE [media EXCEPT !.status = copy.status, !.by = who,
                       !.output = IF Video THEN copy.output ELSE @]
With(copy, status) == [copy EXCEPT !.status = status]

----------------------------------------------------------------------------
(* Requests.                                                               *)

Unasked(u) == boot = "up" /\ uploader[u] = Rest
Asks(u, at) == boot = "up" /\ uploader[u].at = at
Goes(u, at, copy) == uploader' = [uploader EXCEPT ![u] = [at |-> at, copy |-> copy]]
Leaves(u) == uploader' = [uploader EXCEPT ![u] = Rest]
                /\ gate' = IF gate = u THEN NoHolder ELSE gate

\* create_video_job, stage_course_source_asset: the course is looked up, the
\* file written, the record created; only a document is queued at once.
BeginUpload(u) ==
    /\ Unasked(u) /\ courseThere /\ media = NoMedia
    /\ Goes(u, "create", NoMedia)
    /\ UNCHANGED <<medium, media, courseThere, chore, importer, gate, boot>>
CreateRecord(u) ==
    /\ Asks(u, "create") /\ media = NoMedia
    /\ media' = [status |-> Unprocessed, output |-> FALSE, gone |-> FALSE, by |-> "request"]
    /\ IF Video \/ ~courseThere THEN Leaves(u)
       ELSE Goes(u, "enqueue", media') /\ UNCHANGED gate
    /\ UNCHANGED <<medium, courseThere, chore, importer, boot>>

\* start_job and retry_job: what the record must be, and what it becomes.
MayStart(status) == status = "uploaded"
MayRestart(status) == status \in {"failed", "canceled"}
Started(record) ==
    [record EXCEPT !.status = "active",
                   !.output = IF MayRestart(record.status) THEN FALSE ELSE @]

BeginRun(u) ==
    /\ Unasked(u) /\ Video /\ Visible
    /\ MayStart(media.status) \/ MayRestart(media.status)
    /\ Goes(u, "mark", Started(media))
    /\ UNCHANGED <<medium, media, courseThere, chore, importer, gate, boot>>

\* requeue_source_asset_processing holds the lifecycle lock to its end.
BeginRequeue(u) ==
    /\ Unasked(u) /\ ~Video /\ Visible /\ gate = NoHolder
    /\ media.status # Finished
    /\ gate' = u
    /\ Goes(u, "mark", With(media, "pending"))
    /\ UNCHANGED <<medium, media, courseThere, chore, importer, boot>>

MarkRecord(u) ==
    /\ Asks(u, "mark")
    /\ media' = Written(uploader[u].copy, "request")
    /\ IF Visible THEN Goes(u, "enqueue", uploader[u].copy) /\ UNCHANGED gate
       ELSE Leaves(u)
    /\ UNCHANGED <<medium, courseThere, chore, importer, boot>>

\* The active key joins a task that is under way; a requeue retries the task
\* that ended, or reserves a new one.
EnqueueChore(u) ==
    /\ Asks(u, "enqueue") /\ gate \in {u, NoHolder}
    /\ chore' = IF ChoreActive THEN chore ELSE "queued"
    /\ Leaves(u)
    /\ UNCHANGED <<medium, media, courseThere, importer, boot>>
EnqueueFails(u) ==
    /\ Asks(u, "enqueue") /\ gate \in {u, NoHolder}
    /\ gate = u => ~ChoreActive
    /\ Goes(u, "compensate", With(uploader[u].copy, "failed"))
    /\ UNCHANGED <<medium, media, courseThere, chore, importer, gate, boot>>
\* A document that is hidden by now is not looked at again.
Compensate(u) ==
    /\ Asks(u, "compensate")
    /\ media' = IF Video \/ Visible THEN Written(uploader[u].copy, "request") ELSE media
    /\ Leaves(u)
    /\ UNCHANGED <<medium, courseThere, chore, importer, boot>>

\* POST /tasks/{id}/cancel and retry; a retry looks at the item first.
CancelChore ==
    /\ boot = "up" /\ chore \in {"queued", "running"}
    /\ chore' = IF chore = "queued" THEN "canceled" ELSE "canceling"
    /\ UNCHANGED <<medium, media, courseThere, importer, uploader, gate, boot>>
RetryChore ==
    /\ boot = "up" /\ gate = NoHolder /\ Visible
    /\ chore \in {"failed", "canceled"}
    /\ chore' = "queued"
    /\ UNCHANGED <<medium, media, courseThere, importer, uploader, gate, boot>>

----------------------------------------------------------------------------
(* Trash, under the lifecycle lock; restoring and the course likewise.     *)

TrashMedia ==
    /\ boot = "up" /\ gate = NoHolder /\ Visible /\ ~ChoreActive
    /\ media' = [media EXCEPT !.gone = TRUE]
    /\ UNCHANGED <<medium, courseThere, chore, importer, uploader, gate, boot>>
RestoreMedia ==
    /\ boot = "up" /\ gate = NoHolder /\ InTrash /\ courseThere
    /\ media' = [media EXCEPT !.gone = FALSE]
    /\ UNCHANGED <<medium, courseThere, chore, importer, uploader, gate, boot>>
SwitchCourse ==
    /\ boot = "up" /\ gate = NoHolder /\ (courseThere => ~ChoreActive)
    /\ courseThere' = ~courseThere
    /\ UNCHANGED <<medium, media, chore, importer, uploader, gate, boot>>

----------------------------------------------------------------------------
(* The task.                                                               *)

AtStage(at) == boot = "up" /\ importer.at = at
Proceeds(at, copy) == importer' = [at |-> at, copy |-> copy] /\ UNCHANGED chore
\* A failure under cancellation ends as canceled, a success stays one.
Settles(outcome) ==
    /\ importer' = Rest
    /\ chore' = IF outcome = "failed" /\ chore = "canceling" THEN "canceled" ELSE outcome
Requested == UNCHANGED <<medium, courseThere, uploader, gate, boot>>

ClaimChore ==
    /\ boot = "up" /\ chore = "queued" /\ importer = Rest
    /\ importer' = [at |-> "look", copy |-> NoMedia]
    /\ chore' = "running"
    /\ UNCHANGED media /\ Requested

\* A job that is completed is not processed again, one under way goes on.
NextStage(status) ==
    CASE status = "completed" -> "report"
      [] MayStart(status) \/ MayRestart(status) -> "reread"
      [] OTHER -> "begin"
StageFor(status) == IF Video THEN NextStage(status) ELSE "mark"

LookAtRecord ==
    /\ AtStage("look")
    /\ IF chore = "canceling" THEN Settles("canceled")
       ELSE IF ~Visible THEN Settles("failed")
       ELSE Proceeds(StageFor(media.status), With(media, IF Video THEN media.status ELSE "pending"))
    /\ UNCHANGED media /\ Requested

\* start_job or retry_job reads the job once more and may refuse it.
RereadRecord ==
    LET first == importer.copy.status IN
    /\ AtStage("reread")
    /\ IF /\ Visible
          /\ \/ MayStart(first) /\ MayStart(media.status)
             \/ ~MayStart(first) /\ MayRestart(media.status)
       THEN Proceeds("mark", Started(media)) ELSE Settles("failed")
    /\ UNCHANGED media /\ Requested

MarkProcessing ==
    /\ AtStage("mark")
    /\ media' = Written(importer.copy, "task")
    /\ IF ~Visible THEN Settles("failed")
       ELSE Proceeds(IF Video THEN "begin" ELSE "work", importer.copy)
    /\ Requested

BeginPipeline ==
    /\ AtStage("begin")
    /\ IF chore = "canceling" THEN Settles("canceled") ELSE Proceeds("open", importer.copy)
    /\ UNCHANGED media /\ Requested
OpenPipeline ==
    /\ AtStage("open")
    /\ IF Visible THEN Proceeds("work", With(media, "active")) ELSE Settles("failed")
    /\ UNCHANGED media /\ Requested

\* Each stage of the pipeline saves the job, then looks for a cancellation.
SaveStage ==
    /\ AtStage("work") /\ Video
    /\ media' = Written(importer.copy, "task")
    /\ Proceeds("check", importer.copy)
    /\ Requested
CheckCanceled ==
    /\ AtStage("check") \/ (AtStage("work") /\ ~Video)
    /\ IF chore = "canceling"
       THEN /\ media' = Written(With(importer.copy, IF Video THEN "canceled" ELSE "pending"), "task")
            /\ Settles("canceled")
       ELSE Proceeds(IF Video THEN "work" ELSE "publish", importer.copy) /\ UNCHANGED media
    /\ Requested
StageFails ==
    /\ AtStage("work") \/ AtStage("publish")
    /\ media' = Written(With(importer.copy, "failed"), "task")
    /\ Settles("failed")
    /\ Requested

\* replace_source_units: the units, then the document's status.
PublishUnits ==
    /\ AtStage("publish")
    /\ media' = [media EXCEPT !.output = TRUE]
    /\ Proceeds("finish", importer.copy)
    /\ Requested

\* The transcript is saved before the job is completed; the job is saved twice.
FinishRecord ==
    LET done == [With(importer.copy, Finished) EXCEPT !.output = TRUE] IN
    /\ AtStage(IF Video THEN "work" ELSE "finish") \/ AtStage("resave")
    /\ media' = Written(done, "task")
    /\ IF ~Visible THEN Settles("failed")
       ELSE Proceeds(IF Video /\ ~AtStage("resave") THEN "resave" ELSE "report", done)
    /\ Requested

ReportOutcome ==
    /\ AtStage("report")
    /\ Settles(CASE ~Visible -> "failed"
              [] Visible /\ Video /\ media.status = "canceled" -> "canceled"
              [] Visible /\ Video /\ media.status \notin {"completed", "canceled"} -> "failed"
              [] OTHER -> "succeeded")
    /\ UNCHANGED media /\ Requested

----------------------------------------------------------------------------
(* The process.                                                            *)

StopProcess ==
    /\ boot = "up" /\ boot' = "down"
    /\ importer' = Rest /\ gate' = NoHolder
    /\ uploader' = [u \in Uploaders |-> Rest]
    /\ UNCHANGED <<medium, media, courseThere, chore>>

\* recover_interrupted_tasks, then recover_interrupted_video_jobs: the jobs
\* are failed in one transaction, and the first that cannot be synchronised
\* ends the start.
Interrupted == Video /\ media # NoMedia /\ ~media.gone /\ media.status = "active"
StartProcess ==
    /\ boot \in {"down", "broken"}
    /\ chore' = CASE chore = "running" -> "failed"
                  [] chore = "canceling" -> "canceled"
                  [] OTHER -> chore
    /\ media' = IF Interrupted THEN [media EXCEPT !.status = "failed", !.by = "start"] ELSE media
    /\ boot' = IF Interrupted /\ ~courseThere THEN "broken" ELSE "up"
    /\ UNCHANGED <<medium, courseThere, importer, uploader, gate>>

ChoreStep ==
    \/ ClaimChore \/ LookAtRecord \/ RereadRecord \/ MarkProcessing
    \/ BeginPipeline \/ OpenPipeline \/ SaveStage \/ CheckCanceled \/ StageFails
    \/ PublishUnits \/ FinishRecord \/ ReportOutcome

IntakeNext ==
    \/ \E u \in Uploaders :
          \/ BeginUpload(u) \/ CreateRecord(u) \/ BeginRun(u) \/ BeginRequeue(u)
          \/ MarkRecord(u) \/ EnqueueChore(u) \/ EnqueueFails(u) \/ Compensate(u)
    \/ CancelChore \/ RetryChore \/ TrashMedia \/ RestoreMedia \/ SwitchCourse
    \/ ChoreStep \/ StopProcess \/ StartProcess

----------------------------------------------------------------------------

\* What a reader is shown as completed or ready has its transcript or units,
\* whichever of the writers wrote last.
FinishedHasOutput == media # NoMedia /\ media.status = Finished => media.output

\* A job of a course in Trash ends one start of the process, not every one:
\* the recovery it stopped was committed.
StartFailsOnce == boot = "broken" => ~Interrupted

IntakeSound == FinishedHasOutput /\ StartFailsOnce

\* "Video processing was canceled" or failed, or done: a task that ran ends
\* with a record that says so, but for one a request wrote since, and for a
\* cancellation before the pipeline began.
Overwritten == media.by = "request" \/ ~Visible
EndSettles ==
    /\ chore # "succeeded" /\ chore' = "succeeded" =>
          media.status = Finished \/ Overwritten
    /\ boot = "up" /\ chore \in {"running", "canceling"} /\ chore' = "failed" =>
          media'.status # "active" \/ Overwritten

\* A late write of a request or a task never reaches an item in Trash.
TrashIsLeft ==
    InTrash /\ InTrash' => media'.status = media.status /\ (Video => media' = media)

\* A completed job is never processed again by a retry of its task; only a
\* request that read the job before takes it back.
CompletedStays ==
    Video /\ media # NoMedia /\ media.status = "completed" /\ media'.status # "completed" =>
        \E u \in Uploaders : uploader[u].at \in {"mark", "compensate"} /\ uploader' # uploader

IntakeSteps == EndSettles /\ TrashIsLeft /\ CompletedStays
=============================================================================
