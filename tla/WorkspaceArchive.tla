-------------------------- MODULE WorkspaceArchive --------------------------
(***************************************************************************)
(* What a workspace backup holds and when it is accepted                   *)
(* (backend/app/workspace_backup.py, trash.py).                            *)
(*                                                                         *)
(* A path is a record: its managed root, directory, stem and kind of file, *)
(* "upper" when its letters differ in case from the name in lower case,    *)
(* and "safe" when _validate_member_name accepts it.  The database names a *)
(* file by a data directory ("base") and a path.  Rows, journals, manifest *)
(* entries and archive members keep the fields the checks look at.         *)
(***************************************************************************)
EXTENDS Naturals, Sequences, FiniteSets, FiniteSetsExt

CONSTANTS DataDir, \* the data directory of this installation
          NoValue, \* a column that is NULL
          NoPlan,  \* a trash row without a purge journal of that kind
          Latest,  \* the newest schema version this application knows
          Limits   \* BackupLimits: entries, entry, total, ratio

ASSUME WorkspaceArchiveAssumption ==
    /\ Latest \in Nat /\ NoValue # NoPlan
    /\ \A l \in {Limits.entries, Limits.entry, Limits.total, Limits.ratio} :
          l \in Nat \ {0}

\* A database is read into records with these fields, whatever they hold.
StoredPath(v) == v = [base |-> v.base, path |-> v.path]
WellFormed(db) ==
    /\ db = [schema |-> db.schema, jobs |-> db.jobs, assets |-> db.assets, trash |-> db.trash]
    /\ \A j \in db.jobs :
          /\ j = [id |-> j.id, course |-> j.course, video |-> j.video,
                  transcript |-> j.transcript]
          /\ StoredPath(j.video)
          /\ j.transcript # NoValue => StoredPath(j.transcript)
    /\ \A a \in db.assets :
          /\ a = [id |-> a.id, course |-> a.course, stored |-> a.stored]
          /\ StoredPath(a.stored)
    /\ \A t \in db.trash :
          /\ t = [type |-> t.type, entity |-> t.entity, course |-> t.course,
                  coursePlan |-> t.coursePlan, entityPlan |-> t.entityPlan]
          /\ t.coursePlan # NoPlan =>
                /\ t.coursePlan = [course |-> t.coursePlan.course,
                     phase |-> t.coursePlan.phase, artifacts |-> t.coursePlan.artifacts]
                /\ \A i \in DOMAIN t.coursePlan.artifacts :
                     StoredPath(t.coursePlan.artifacts[i])

ManagedRoots == {"uploads", "audio", "transcripts", "sources"}
EntityPhases == {"planned", "projection", "database", "artifacts"}
FilesPending == {"planned", "conversations", "documents", "artifacts"}
CoursePhases == FilesPending \cup {"assets", "jobs", "topics", "course"}

Elems(s) == {s[i] : i \in DOMAIN s}
Distinct(s) == \A i, j \in DOMAIN s : s[i] = s[j] => i = j
SumOf(s, size(_)) == FoldSet(LAMBDA i, acc : acc + size(s[i]), 0, DOMAIN s)

File(root, dir, stem, type) ==
    [root |-> root, dir |-> dir, stem |-> stem, type |-> type,
     upper |-> FALSE, safe |-> TRUE]
Database == File("database", NoValue, "database", "sqlite3")
Key(p) == [p EXCEPT !.upper = FALSE]
Audio(j) == File("audio", NoValue, j.id, "wav")

----------------------------------------------------------------------------
(* The rows that own managed files.                                        *)

JobOwner(j)   == [type |-> "video_job", id |-> j.id, course |-> j.course]
AssetOwner(a) == [type |-> "source_asset", id |-> a.id, course |-> a.course]

JobValues(j) == {j.video} \cup (IF j.transcript = NoValue THEN {} ELSE {j.transcript})
Values(db) == (UNION {JobValues(j) : j \in db.jobs}) \cup {a.stored : a \in db.assets}

\* <<path, owner>> of every record, the audio of a job included.
Owned(db) ==
    (UNION {{<<v.path, JobOwner(j)>> : v \in JobValues(j)}
              \cup {<<Audio(j), JobOwner(j)>>} : j \in db.jobs})
      \cup {<<a.stored.path, AssetOwner(a)>> : a \in db.assets}

InRoot(v, base, root) == v.base = base /\ v.path.root = root

ValidJob(j, base, paths) ==
    /\ InRoot(j.video, base, "uploads")
    /\ j.video.path.dir = NoValue /\ j.video.path.stem = j.id
    /\ ~j.video.path.upper /\ j.video.path.type = "video"
    /\ j.video.path \in paths
    /\ j.transcript # NoValue =>
         /\ InRoot(j.transcript, base, "transcripts")
         /\ j.transcript.path = File("transcripts", NoValue, j.id, "json")
         /\ j.transcript.path \in paths

ValidAsset(a, base, paths) ==
    /\ InRoot(a.stored, base, "sources")
    /\ a.stored.path.dir = a.course /\ a.stored.path.stem = a.id
    /\ ~a.stored.path.upper /\ a.stored.path.type = "document"
    /\ a.stored.path \in paths

\* Every record registers its paths; a second owner of a key is refused.
OneOwnerPerKey(db) ==
    \A x, y \in Owned(db) : Key(x[1]) = Key(y[1]) => x = y

NoArchiveCollision(paths) ==
    \A p, q \in paths : p.root \in ManagedRoots /\ Key(p) = Key(q) => p = q

----------------------------------------------------------------------------
(* Purge journals in the Trash rows.                                       *)

Artifacts(row, root) == {p \in Elems(row.entityPlan.artifacts) : p.root = root}

ValidEntityPlan(row) ==
    LET plan == row.entityPlan IN
    /\ row.type \in {"video_job", "source_asset"} /\ plan.type = row.type
    /\ plan.phase \in EntityPhases
    /\ Distinct(plan.artifacts)
    /\ \A p \in Elems(plan.artifacts) : p.root \in ManagedRoots /\ p.safe
    /\ IF row.type = "video_job"
         THEN /\ Cardinality(Artifacts(row, "uploads")) = 1
              /\ Artifacts(row, "audio") = {File("audio", NoValue, row.entity, "wav")}
              /\ Artifacts(row, "transcripts")
                   \subseteq {File("transcripts", NoValue, row.entity, "json")}
              /\ Artifacts(row, "sources") = {}
              /\ \A p \in Artifacts(row, "uploads") :
                    p.dir = NoValue /\ p.stem = row.entity /\ p.type = "video"
         ELSE /\ Elems(plan.artifacts) = Artifacts(row, "sources")
              /\ Cardinality(Artifacts(row, "sources")) = 1
              /\ \A p \in Artifacts(row, "sources") :
                    p.dir = row.course /\ p.stem = row.entity /\ p.type = "document"

ValidCoursePlan(row, base) ==
    LET plan == row.coursePlan IN
    /\ row.type = "course" /\ plan.course = row.entity
    /\ plan.phase \in CoursePhases
    /\ Distinct(plan.artifacts)
    /\ \A v \in Elems(plan.artifacts) :
          /\ v.base = base /\ v.path.root \in ManagedRoots /\ v.path.safe
          /\ v.path.dir = IF v.path.root = "sources" THEN plan.course ELSE NoValue

PlanPaths(row) ==
    (IF row.entityPlan = NoPlan THEN {} ELSE Elems(row.entityPlan.artifacts))
      \cup (IF row.coursePlan = NoPlan THEN {}
            ELSE {v.path : v \in Elems(row.coursePlan.artifacts)})

PlanOwner(row) == [type |-> row.type, id |-> row.entity, course |-> row.course]

\* A journal of an entity names exactly what its record owns while the record
\* is there, nothing another record owns, and nothing another journal of an
\* entity names.
EntityClaimSound(row, db) ==
    row.entityPlan # NoPlan =>
      LET plan == {Key(p) : p \in Elems(row.entityPlan.artifacts)}
          mine == {Key(x[1]) : x \in {y \in Owned(db) : y[2] = PlanOwner(row)}}
      IN /\ mine # {} => plan = mine
         /\ \A x \in Owned(db) : Key(x[1]) \in plan => x[2] = PlanOwner(row)

\* A journal of a course names nothing of another course, and until its files
\* are deleted exactly what the course's records own.
CourseClaimSound(row, db) ==
    row.coursePlan # NoPlan =>
      LET plan == {Key(v.path) : v \in Elems(row.coursePlan.artifacts)}
          ours == {Key(x[1]) : x \in {y \in Owned(db) : y[2].course = row.entity}}
      IN /\ \A x \in Owned(db) : Key(x[1]) \in plan => x[2].course = row.entity
         /\ row.coursePlan.phase \in FilesPending => plan = ours

ClaimsDisjoint(db) ==
    \A r, s \in db.trash :
      /\ r # s /\ r.entityPlan # NoPlan /\ s.entityPlan # NoPlan =>
           {Key(p) : p \in Elems(r.entityPlan.artifacts)}
             \cap {Key(p) : p \in Elems(s.entityPlan.artifacts)} = {}
      /\ r # s /\ r.coursePlan # NoPlan /\ s.coursePlan # NoPlan =>
           {Key(v.path) : v \in Elems(r.coursePlan.artifacts)}
             \cap {Key(v.path) : v \in Elems(s.coursePlan.artifacts)} = {}
      /\ r.entityPlan # NoPlan /\ s.coursePlan # NoPlan /\ r.course # s.entity =>
           {Key(p) : p \in Elems(r.entityPlan.artifacts)}
             \cap {Key(v.path) : v \in Elems(s.coursePlan.artifacts)} = {}

ValidTrash(db, base) ==
    /\ \A row \in db.trash :
          /\ row.entityPlan # NoPlan => ValidEntityPlan(row)
          /\ row.coursePlan # NoPlan => ValidCoursePlan(row, base)
          /\ EntityClaimSound(row, db) /\ CourseClaimSound(row, db)
    /\ ClaimsDisjoint(db)

ValidReferences(db, base, paths) ==
    /\ NoArchiveCollision(paths)
    /\ \A j \in db.jobs : ValidJob(j, base, paths)
    /\ \A a \in db.assets : ValidAsset(a, base, paths)
    /\ OneOwnerPerKey(db)
    /\ ValidTrash(db, base)

----------------------------------------------------------------------------
(* The archive: members of the ZIP, the manifest and the database in it.   *)

EntryKind(p) == IF p = Database THEN "database"
                ELSE IF p.root \in ManagedRoots THEN p.root ELSE "outside"

EntryOf(p) == [path |-> p, kind |-> EntryKind(p), hash |-> p, size |-> 1]
MemberOf(p) == [path |-> p, hash |-> p, size |-> 1, packed |-> 1, form |-> "regular",
                encrypted |-> FALSE, method |-> "stored"]

BuildManifest(paths, db, base) ==
    LET all == <<EntryOf(Database)>> \o [i \in DOMAIN paths |-> EntryOf(paths[i])]
    IN [format |-> "workspace-backup-1", schema |-> db.schema, base |-> base,
        roots |-> ManagedRoots, entries |-> all,
        counts |-> [entries |-> Len(all), total |-> Len(all)]]

\* create_workspace_backup: the database first, then the files of the roots.
Bundle(paths, db, base) ==
    [manifest |-> BuildManifest(paths, db, base), db |-> db, intact |-> TRUE,
     members |-> <<MemberOf(Database)>> \o [i \in DOMAIN paths |-> MemberOf(paths[i])]]

ValidZipInfos(members) ==
    /\ Len(members) \in 1..Limits.entries
    /\ Distinct([i \in DOMAIN members |-> members[i].path])
    /\ \A m \in Elems(members) :
          /\ m.path.safe /\ m.form = "regular" /\ ~m.encrypted
          /\ m.method \in {"stored", "deflated"}
          /\ m.size <= Limits.entry
          /\ m.size > 0 => m.size <= Limits.ratio * (IF m.packed > 1 THEN m.packed ELSE 1)
    /\ SumOf(members, LAMBDA m : m.size) <= Limits.total

ValidManifest(man, members) ==
    /\ man.format = "workspace-backup-1" /\ man.roots = ManagedRoots
    /\ man.schema \in 0..Latest
    /\ man.entries # <<>>
    /\ Distinct([i \in DOMAIN man.entries |-> man.entries[i].path])
    /\ \A e \in Elems(man.entries) :
          /\ e.path.safe /\ e.kind = EntryKind(e.path) /\ e.kind # "outside"
          /\ \E m \in Elems(members) : m.path = e.path /\ m.size = e.size
    /\ Cardinality({e \in Elems(man.entries) : e.kind = "database"}) = 1
    /\ {m.path : m \in Elems(members)} = {e.path : e \in Elems(man.entries)}
    /\ man.counts = [entries |-> Len(man.entries),
                     total |-> SumOf(man.entries, LAMBDA e : e.size)]

ArchivePaths(a) == {e.path : e \in Elems(a.manifest.entries)}

ValidArchive(a) ==
    /\ ValidZipInfos(a.members)
    /\ ValidManifest(a.manifest, a.members)
    /\ \A e \in Elems(a.manifest.entries), m \in Elems(a.members) :
          m.path = e.path => m.hash = e.hash
    /\ a.intact /\ a.db.schema = a.manifest.schema
    /\ ValidReferences(a.db, a.manifest.base, ArchivePaths(a))

----------------------------------------------------------------------------
(* Extraction: the files of the roots, the database under the new base.    *)

Extracted(a) == ArchivePaths(a) \ {Database}

Rebased(v, base) == [v EXCEPT !.base = base]

RebasedCoursePlan(row, base) ==
    IF row.coursePlan = NoPlan THEN NoPlan
    ELSE [row.coursePlan EXCEPT !.artifacts =
            [i \in DOMAIN @ |-> Rebased(@[i], base)]]

RebasedDatabase(db, base) ==
    [db EXCEPT
       !.jobs = {[j EXCEPT !.video = Rebased(@, base),
                           !.transcript = IF @ = NoValue THEN @ ELSE Rebased(@, base)]
                   : j \in @},
       !.assets = {[a EXCEPT !.stored = Rebased(@, base)] : a \in @},
       !.trash = {[t EXCEPT !.coursePlan = RebasedCoursePlan(t, base)] : t \in @}]

\* What _rebase_and_validate_trash_purge_plans compares a course's journal
\* with: the records as they read after the rebase.
CoursePlanMatchesRecords(row, db) ==
    row.coursePlan # NoPlan /\ row.coursePlan.phase \in FilesPending =>
      Elems(row.coursePlan.artifacts) =
        (UNION {JobValues(j) \cup {[base |-> j.video.base, path |->
                 File("audio", NoValue, j.video.path.stem, "wav")]}
                 : j \in {x \in db.jobs : x.course = row.entity}})
          \cup {a.stored : a \in {x \in db.assets : x.course = row.entity}}

MayRebase(db, base) ==
    \A row \in db.trash :
      /\ row.coursePlan # NoPlan => ValidCoursePlan(row, base)
      /\ row.entityPlan # NoPlan => ValidEntityPlan(row)
      /\ CoursePlanMatchesRecords(row, RebasedDatabase(db, base))

----------------------------------------------------------------------------
(* What all of this is for, said without the checks: a workspace whose     *)
(* rows find their files, where no file has two owners and no purge        *)
(* journal names a file of another record.                                 *)

SoundWorkspace(db, files) ==
    /\ \A v \in Values(db) : v.base = DataDir /\ v.path \in files
    /\ \A x, y \in Owned(db) : x[2] # y[2] => Key(x[1]) # Key(y[1])
    /\ \A row \in db.trash, x \in Owned(db) :
          x[1] \in PlanPaths(row) =>
            \/ row.type = "course" /\ x[2].course = row.entity
            \/ row.type = x[2].type /\ row.entity = x[2].id
=============================================================================
