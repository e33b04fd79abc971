----------------------------- MODULE MCWorkspace -----------------------------
(***************************************************************************)
(* Instances of DesktopShell for TLC   : a workspace with two courses,    *)
(* two videos, a document and a purge that was interrupted; archives of    *)
(* it, and archives each of which breaks one rule of the validation.       *)
(***************************************************************************)
EXTENDS DesktopShell

CONSTANTS here, there, c1, c2, j1, j2, s1, t1, none, noplan

MCRoots == <<"uploads", "audio", "transcripts", "sources">>
MCSidecars == <<"database-wal">>
MCLimits == [entries |-> 8, entry |-> 2, total |-> 12, ratio |-> 2]

Val(base, p) == [base |-> base, path |-> p]
Upload(j) == File("uploads", none, j, "video")
Text(j) == File("transcripts", none, j, "json")
Doc(c, s) == File("sources", c, s, "document")

Job(base, j, c, text) ==
    [id |-> j, course |-> c, video |-> Val(base, Upload(j)),
     transcript |-> IF text THEN Val(base, Text(j)) ELSE none]
Asset(base, s, c) == [id |-> s, course |-> c, stored |-> Val(base, Doc(c, s))]
EntityRow(j, c, files) ==
    [type |-> "video_job", entity |-> j, course |-> c, coursePlan |-> noplan,
     entityPlan |-> [type |-> "video_job", phase |-> "planned", artifacts |-> files]]
CourseRow(c, phase, files) ==
    [type |-> "course", entity |-> c, course |-> c, entityPlan |-> noplan,
     coursePlan |-> [course |-> c, phase |-> phase, artifacts |-> files]]

Db(base) == [schema |-> 2, jobs |-> {Job(base, j1, c1, TRUE), Job(base, j2, c2, FALSE)},
             assets |-> {Asset(base, s1, c2)},
             trash |-> {EntityRow(j1, c1, <<Upload(j1), Audio([id |-> j1]), Text(j1)>>),
                        CourseRow(c2, "planned", <<Val(base, Upload(j2)),
                           Val(base, Audio([id |-> j2])), Val(base, Doc(c2, s1))>>)}]
Paths == <<Upload(j1), Text(j1), Upload(j2), Doc(c2, s1)>>

Good == Bundle(Paths, Db(here), here)
Moved == Bundle(<<Upload(j1), Upload(j2)>>,
                [schema |-> 1, assets |-> {}, trash |-> {},
                 jobs |-> {Job(there, j1, c1, FALSE), Job(there, j2, c2, FALSE)}], there)
Remake(paths, db) == Bundle(paths, db, there)
Loud(p) == [p EXCEPT !.upper = TRUE]

MCArchives == [
  good |-> Good, moved |-> Moved,
  newer |-> Remake(Paths, [Db(there) EXCEPT !.schema = 3]),
  lost |-> Remake(<<Upload(j1), Text(j1), Upload(j2)>>, Db(there)),
  twice |-> Remake(Paths \o <<Loud(Upload(j1))>>,
              [Db(there) EXCEPT !.jobs = @ \cup {[Job(there, t1, c1, FALSE) EXCEPT
                 !.video = Val(there, Loud(Upload(j1)))]}]),
  shared |-> Remake(Paths, [Db(there) EXCEPT !.assets =
                {Asset(there, s1, c2), [Asset(there, s1, c2) EXCEPT !.id = t1]}]),
  stray |-> Remake(Paths, [Db(there) EXCEPT !.jobs =
                {Job(there, j1, c1, TRUE), Job(here, j2, c2, FALSE)}]),
  foreign |-> Remake(Paths, [Db(there) EXCEPT !.trash =
                {[EntityRow(t1, c2, <<Upload(j2)>>) EXCEPT !.type = "source_asset",
                    !.entityPlan = [type |-> "source_asset", phase |-> "planned",
                                    artifacts |-> <<Doc(c2, s1)>>]]}]),
  course |-> Remake(Paths, [Db(there) EXCEPT !.trash =
                {CourseRow(c1, "planned", <<Val(there, Upload(j1)), Val(there, Text(j1)),
                   Val(there, Audio([id |-> j1])), Val(there, Upload(j2))>>)}]),
  link |-> [Moved EXCEPT !.members[2].form = "link"],
  bomb |-> [Moved EXCEPT !.members[2].size = 9, !.manifest.entries[2].size = 9],
  tampered |-> [Moved EXCEPT !.members[2].hash = Database],
  undeclared |-> [Moved EXCEPT !.members = @ \o <<MemberOf(Doc(c1, t1))>>],
  recounted |-> [Moved EXCEPT !.manifest.counts.entries = 1],
  damaged |-> [Moved EXCEPT !.intact = FALSE]]
=============================================================================
