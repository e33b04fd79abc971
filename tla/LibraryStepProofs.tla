-------------------------- MODULE LibraryStepProofs --------------------------
(***************************************************************************)
(* Proofs about the steps of the parts of the library of a course: the     *)
(* invariant of each part, that it holds at the start and that every step  *)
(* keeps it.  LibraryProofs draws the theorems from them.                  *)
(***************************************************************************)
EXTENDS TrashPurge, CardGeneration, StudyCards, ConceptGraphPath, TopicTree,
        MediaIntake, ControllerEpisode, FiniteSetTheorems, WellFoundedInduction, TLAPS

----------------------------------------------------------------------------
(***************************************************************************)
(* The Trash, for any tree of courses and any files, shared ones included, *)
(* and any number of failures and stops.                                   *)
(***************************************************************************)
PlanType == {NoPlan} \cup PlanRow
ItemType == {NoItem} \cup [status : TrashItemStatus, plan : PlanType]
Places == {"row", "sync", "prepare", "page", "children", "phase", "mark", "child", "unlink",
           "finalize", "failed"}
OpType == {Free} \cup [kind : {"restore", "purge"}, of : Entities, at : Places,
                       left : SUBSET (Owners \cup FilesIn(Owners))]

TrashTypes ==
    /\ row \in [Entities -> {"live", "trashed", "gone"}]
    /\ item \in [Entities -> ItemType]
    /\ projected \subseteq Owners
    /\ op \in OpType

Journaled == Courses \cup Owners

\* What the phase of a purge of x leaves behind it, of the rows and the disk.
Emptied(c, kind, rows) == \A y \in kind : CourseOf[y] = c => rows[y] = "gone"
Covered(c, artifacts, rows) ==
    \A y \in Owners : CourseOf[y] = c /\ rows[y] # "gone" => FilesOf[y] \subseteq artifacts
PhaseDone(x, step, artifacts, rows, disk) ==
    /\ step = "conversations" => Emptied(x, Talks, rows)
    /\ step = "documents" => Emptied(x, Pages, rows)
    /\ step = "assets" => Emptied(x, Assets, rows)
    /\ step = "jobs" => Emptied(x, Jobs, rows)
    /\ step \in {"database", "course"} => rows[x] = "gone"
    /\ step = "artifacts" => artifacts \cap disk = {} /\ Covered(x, artifacts, rows)

\* The journal of x: it names the files of x and has done what it says.
PlanFits(x, plan, rows, disk) ==
    /\ x \in Owners => plan.artifacts = FilesOf[x]
    /\ x \in Journaled
    /\ \E i \in DOMAIN PurgePhases(x) :
          /\ plan.phase = PurgePhases(x)[i]
          /\ \A j \in 1 .. i :
                PhaseDone(x, PurgePhases(x)[j], plan.artifacts, rows, disk)
Planned(x) == item[x] # NoItem /\ item[x].plan # NoPlan
PlansFit == \A x \in Entities : Planned(x) => PlanFits(x, item[x].plan, row, files)

\* Where the operation under the lock stands.
InOperation ==
    /\ op.kind = "restore" =>
          /\ op.at = "row" => item[op.of] # NoItem /\ item[op.of].status = "restoring"
          /\ op.at \in {"sync", "finalize"} => row[op.of] = "live"
          /\ op.at \in {"row", "sync", "finalize", "failed"}
          /\ op.at = "sync" => op.of \in Journaled
    /\ op.kind = "purge" =>
          /\ op.at \notin {"row", "sync"}
          /\ op.at \notin {"failed", "finalize"} =>
                item[op.of] # NoItem /\ item[op.of].status = "purging"
          /\ op.at = "page" => op.of \notin Journaled
          /\ op.at \in {"children", "phase", "mark", "child", "unlink"} => Planned(op.of)
          /\ op.at = "children" => op.of \in Courses
          /\ op.at \in {"phase", "mark", "child", "unlink"} /\ op.of \in Courses =>
                ~Blocked(op.of)
          /\ op.at = "mark" =>
                /\ Plan.phase # Last(PurgePhases(op.of))
                /\ PhaseDone(op.of, NextPhase, Plan.artifacts, row, files)
          /\ op.at = "child" =>
                /\ op.of \in Courses
                /\ \A y \in op.left : /\ y \in Owners /\ CourseOf[y] = op.of /\ row[y] # "gone"
                                      /\ FilesOf[y] \cap files = {}
          /\ op.at = "unlink" =>
                /\ Plan.phase # Last(PurgePhases(op.of)) /\ NextPhase = "artifacts"
                /\ op.left \subseteq Plan.artifacts /\ Plan.artifacts \cap files \subseteq op.left
                /\ MatchesRecords /\ ~Foreign
          /\ op.at = "finalize" =>
                /\ row[op.of] = "gone"
                /\ op.of \in Journaled => item[op.of] # NoItem
                /\ Planned(op.of) => Plan.artifacts \cap files = {}

\* A row and its tombstone.
Tombstones ==
    \A x \in Entities :
       /\ row[x] = "trashed" => item[x] # NoItem
       /\ row[x] = "live" => item[x] = NoItem
       /\ row[x] = "gone" /\ item[x] # NoItem =>
             InPurge(x) /\ (x \in Journaled => item[x].plan # NoPlan)
Usable ==
    \A x \in Owners : row[x] # "gone" /\ ~Purged(x) => FilesOf[x] \subseteq files /\ x \in projected
Named ==
    \A x \in Owners : row[x] = "gone" =>
       \A f \in FilesOf[x] \cap files : \E y \in Journals(x) : f \in item[y].plan.artifacts
Tree == \A x \in Children : row[CourseOf[x]] = "gone" => row[x] = "gone"

TrashInv == TrashTypes /\ PlansFit /\ InOperation /\ Tombstones /\ Usable /\ Named /\ Tree

----------------------------------------------------------------------------
(* The phases of a purge.                                                  *)

LEMMA CourseOrder ==
    /\ DOMAIN CoursePurgePhases = 1 .. 8 /\ Last(CoursePurgePhases) = CoursePurgePhases[8]
    /\ CoursePurgePhases[1] = "planned" /\ CoursePurgePhases[2] = "conversations"
    /\ CoursePurgePhases[3] = "documents" /\ CoursePurgePhases[4] = "artifacts"
    /\ CoursePurgePhases[5] = "assets" /\ CoursePurgePhases[6] = "jobs"
    /\ CoursePurgePhases[7] = "topics" /\ CoursePurgePhases[8] = "course"
BY DEF CoursePurgePhases, Last

LEMMA EntityOrder ==
    /\ DOMAIN EntityPurgePhases = 1 .. 4 /\ Last(EntityPurgePhases) = EntityPurgePhases[4]
    /\ EntityPurgePhases[1] = "planned" /\ EntityPurgePhases[2] = "projection"
    /\ EntityPurgePhases[3] = "database" /\ EntityPurgePhases[4] = "artifacts"
BY DEF EntityPurgePhases, Last

LEMMA PhaseOrder ==
    ASSUME NEW x
    PROVE  /\ \E n \in Nat : /\ DOMAIN PurgePhases(x) = 1 .. n
                             /\ Last(PurgePhases(x)) = PurgePhases(x)[n] /\ n > 1
           /\ \A i, j \in DOMAIN PurgePhases(x) : PurgePhases(x)[i] = PurgePhases(x)[j] => i = j
           /\ \A i \in DOMAIN PurgePhases(x) : Rank(x, PurgePhases(x)[i]) = i
<1>1. \E n \in Nat : /\ DOMAIN PurgePhases(x) = 1 .. n
                     /\ Last(PurgePhases(x)) = PurgePhases(x)[n] /\ n > 1
  <2>1. CASE x \in Courses
    <3>1. PurgePhases(x) = CoursePurgePhases /\ 8 \in Nat /\ 8 > 1
      BY <2>1 DEF PurgePhases
    <3> QED BY <3>1, CourseOrder
  <2>2. CASE x \notin Courses
    <3>1. PurgePhases(x) = EntityPurgePhases /\ 4 \in Nat /\ 4 > 1
      BY <2>2 DEF PurgePhases
    <3> QED BY <3>1, EntityOrder
  <2> QED BY <2>1, <2>2
<1>2. \A i, j \in 1 .. 8 : CoursePurgePhases[i] = CoursePurgePhases[j] => i = j
  BY CourseOrder
<1>3. \A i, j \in 1 .. 4 : EntityPurgePhases[i] = EntityPurgePhases[j] => i = j
  BY EntityOrder
<1>4. \A i, j \in DOMAIN PurgePhases(x) : PurgePhases(x)[i] = PurgePhases(x)[j] => i = j
  BY <1>2, <1>3, CourseOrder, EntityOrder DEF PurgePhases
<1>5. \A i \in DOMAIN PurgePhases(x) : Rank(x, PurgePhases(x)[i]) = i
  BY <1>4 DEF Rank
<1> QED BY <1>1, <1>4, <1>5

LEMMA RankInNat ==
    ASSUME NEW x, NEW plan, PlanFits(x, plan, row, files)
    PROVE  Rank(x, plan.phase) \in Nat
<1>1. PICK n \in Nat : DOMAIN PurgePhases(x) = 1 .. n
  BY PhaseOrder
<1> QED BY <1>1, PhaseOrder DEF PlanFits

\* Where the journal under the lock stands, and the phase that is next.
LEMMA PhaseOfPlan ==
    ASSUME PlansFit, op.of \in Entities, Planned(op.of)
    PROVE  \E i \in DOMAIN PurgePhases(op.of) :
              /\ Plan.phase = PurgePhases(op.of)[i] /\ i = Rank(op.of, Plan.phase)
              /\ \A j \in 1 .. i : PhaseDone(op.of, PurgePhases(op.of)[j], Plan.artifacts, row, files)
              /\ Plan.phase # Last(PurgePhases(op.of)) =>
                    i + 1 \in DOMAIN PurgePhases(op.of) /\ NextPhase = PurgePhases(op.of)[i + 1]
<1>1. PlanFits(op.of, Plan, row, files)
  BY DEF PlansFit, Plan
<1>2. PICK i \in DOMAIN PurgePhases(op.of) :
        /\ Plan.phase = PurgePhases(op.of)[i]
        /\ \A j \in 1 .. i : PhaseDone(op.of, PurgePhases(op.of)[j], Plan.artifacts, row, files)
  BY <1>1 DEF PlanFits
<1>3. i = Rank(op.of, Plan.phase)
  BY <1>2, PhaseOrder
<1>4. ASSUME Plan.phase # Last(PurgePhases(op.of))
      PROVE  i + 1 \in DOMAIN PurgePhases(op.of) /\ NextPhase = PurgePhases(op.of)[i + 1]
  <2>1. PICK n \in Nat : /\ DOMAIN PurgePhases(op.of) = 1 .. n
                         /\ Last(PurgePhases(op.of)) = PurgePhases(op.of)[n]
    BY PhaseOrder
  <2>2. i # n /\ i \in 1 .. n
    BY <1>2, <1>4, <2>1
  <2>3. i + 1 \in 1 .. n
    BY <2>2
  <2> QED BY <1>3, <2>1, <2>3 DEF NextPhase
<1> QED BY <1>2, <1>3, <1>4

\* A course that is past its files, or past its children.
LEMMA CourseProgress ==
    ASSUME PlansFit, op.of \in Courses, Planned(op.of), Plan.phase # Last(PurgePhases(op.of))
    PROVE  /\ NextPhase \in {"assets", "jobs", "topics", "course"} =>
                 PhaseDone(op.of, "artifacts", Plan.artifacts, row, files)
           /\ NextPhase = "course" =>
                 Emptied(op.of, Talks, row) /\ Emptied(op.of, Pages, row)
                 /\ Emptied(op.of, Assets, row) /\ Emptied(op.of, Jobs, row)
<1>1. PurgePhases(op.of) = CoursePurgePhases /\ op.of \in Entities
  BY DEF PurgePhases, Entities
<1>2. PICK i \in 1 .. 8 :
        /\ \A j \in 1 .. i : PhaseDone(op.of, CoursePurgePhases[j], Plan.artifacts, row, files)
        /\ i + 1 \in 1 .. 8 /\ NextPhase = CoursePurgePhases[i + 1]
  BY <1>1, PhaseOfPlan, CourseOrder
<1>3. NextPhase \in {"assets", "jobs", "topics", "course"} => 4 \in 1 .. i
  BY <1>2, CourseOrder
<1>4. NextPhase = "course" => i = 7
  <2>1. \A k \in 1 .. 8 : CoursePurgePhases[k] = "course" => k = 8
    BY CourseOrder
  <2>2. ASSUME NextPhase = "course" PROVE i + 1 = 8
    BY <1>2, <2>1, <2>2
  <2> QED BY <1>2, <2>2
<1>5. NextPhase = "course" =>
        /\ PhaseDone(op.of, "conversations", Plan.artifacts, row, files)
        /\ PhaseDone(op.of, "documents", Plan.artifacts, row, files)
        /\ PhaseDone(op.of, "assets", Plan.artifacts, row, files)
        /\ PhaseDone(op.of, "jobs", Plan.artifacts, row, files)
  <2> SUFFICES ASSUME NextPhase = "course"
               PROVE  \A j \in {2, 3, 5, 6} :
                         PhaseDone(op.of, CoursePurgePhases[j], Plan.artifacts, row, files)
    BY CourseOrder
  <2> QED BY <1>2, <1>4
<1> QED BY <1>2, <1>3, <1>5, CourseOrder DEF PhaseDone

\* A journal in its last phase has removed the row and the files.
LEMMA LastPhase ==
    ASSUME PlansFit, op.of \in Entities, Planned(op.of), Plan.phase = Last(PurgePhases(op.of))
    PROVE  row[op.of] = "gone" /\ Plan.artifacts \cap files = {}
<1>1. PICK i \in DOMAIN PurgePhases(op.of) :
        /\ Plan.phase = PurgePhases(op.of)[i]
        /\ \A j \in 1 .. i : PhaseDone(op.of, PurgePhases(op.of)[j], Plan.artifacts, row, files)
  BY PhaseOfPlan
<1>2. CASE op.of \in Courses
  <2>1. PurgePhases(op.of) = CoursePurgePhases
    BY <1>2 DEF PurgePhases
  <2>2. i = 8
    <3>1. PurgePhases(op.of)[i] = PurgePhases(op.of)[8]
      BY <1>1, <2>1, CourseOrder
    <3>2. 8 \in DOMAIN PurgePhases(op.of)
      BY <2>1, CourseOrder
    <3> QED BY <1>1, <3>1, <3>2, PhaseOrder
  <2>3. /\ PhaseDone(op.of, "artifacts", Plan.artifacts, row, files)
        /\ PhaseDone(op.of, "course", Plan.artifacts, row, files)
    BY <1>1, <2>1, <2>2, CourseOrder
  <2> QED BY <2>3 DEF PhaseDone
<1>3. CASE op.of \notin Courses
  <2>1. PurgePhases(op.of) = EntityPurgePhases
    BY <1>3 DEF PurgePhases
  <2>2. i = 4
    <3>1. PurgePhases(op.of)[i] = PurgePhases(op.of)[4]
      BY <1>1, <2>1, EntityOrder
    <3>2. 4 \in DOMAIN PurgePhases(op.of)
      BY <2>1, EntityOrder
    <3> QED BY <1>1, <3>1, <3>2, PhaseOrder
  <2>3. /\ PhaseDone(op.of, "artifacts", Plan.artifacts, row, files)
        /\ PhaseDone(op.of, "database", Plan.artifacts, row, files)
    BY <1>1, <2>1, <2>2, EntityOrder
  <2> QED BY <2>3 DEF PhaseDone
<1> QED BY <1>2, <1>3

----------------------------------------------------------------------------
(* What a step must keep.                                                  *)

\* What a phase has done stays done: rows that are gone stay gone, files too.
LEMMA PhaseKept ==
    ASSUME NEW x \in Journaled, NEW step, NEW artifacts, NEW rows, NEW later, NEW disk, NEW rest,
           PhaseDone(x, step, artifacts, rows, disk), rest \subseteq disk,
           \A y \in Entities : rows[y] = "gone" => later[y] = "gone"
    PROVE  PhaseDone(x, step, artifacts, later, rest)
<1>1. /\ Owners \subseteq Entities /\ Talks \subseteq Entities /\ Pages \subseteq Entities
      /\ Assets \subseteq Entities /\ Jobs \subseteq Entities /\ x \in Entities
  BY DEF Entities, Children, Owners, Journaled
<1>2. \A c : Covered(c, artifacts, rows) => Covered(c, artifacts, later)
  BY <1>1 DEF Covered
<1>3. \A c : \A kind \in SUBSET Entities : Emptied(c, kind, rows) => Emptied(c, kind, later)
  BY DEF Emptied
<1>4. artifacts \cap disk = {} => artifacts \cap rest = {}
  OBVIOUS
<1> QED BY <1>1, <1>2, <1>3, <1>4 DEF PhaseDone

LEMMA PlanKept ==
    ASSUME NEW x, NEW plan, NEW rows, NEW later, NEW disk, NEW rest,
           PlanFits(x, plan, rows, disk), rest \subseteq disk,
           \A y \in Entities : rows[y] = "gone" => later[y] = "gone"
    PROVE  PlanFits(x, plan, later, rest)
<1>1. PICK i \in DOMAIN PurgePhases(x) :
        /\ plan.phase = PurgePhases(x)[i]
        /\ \A j \in 1 .. i : PhaseDone(x, PurgePhases(x)[j], plan.artifacts, rows, disk)
  BY DEF PlanFits
<1>2. \A j \in 1 .. i : PhaseDone(x, PurgePhases(x)[j], plan.artifacts, later, rest)
  BY <1>1, PhaseKept DEF PlanFits
<1> QED BY <1>1, <1>2 DEF PlanFits

\* Where an operation goes next, and what it is afterwards.
LEMMA OpGoes ==
    ASSUME op \in OpType, op.kind # "none", NEW at \in Places
    PROVE  LET next == [op EXCEPT !.at = at] IN
           /\ op.of \in Entities /\ op.kind \in {"restore", "purge"}
           /\ next \in OpType /\ next.kind = op.kind /\ next.of = op.of
           /\ next.at = at /\ next.left = op.left
<1> DEFINE lefts == SUBSET (Owners \cup FilesIn(Owners))
           Held == [kind : {"restore", "purge"}, of : Entities, at : Places, left : lefts]
<1>1. op \in Held
  BY DEF OpType, Free
<1>2. \A q \in Held : /\ [q EXCEPT !.at = at] \in Held
                      /\ [q EXCEPT !.at = at].kind = q.kind /\ [q EXCEPT !.at = at].of = q.of
                      /\ [q EXCEPT !.at = at].at = at /\ [q EXCEPT !.at = at].left = q.left
  OBVIOUS
<1>3. op.of \in Entities /\ op.kind \in {"restore", "purge"}
  BY <1>1
<1> QED BY <1>1, <1>2, <1>3 DEF OpType

LEMMA GotoAt ==
    ASSUME op \in OpType, op.kind # "none", NEW at, Goto(at)
    PROVE  op'.at = at /\ op'.kind = op.kind /\ op'.of = op.of
BY DEF Goto, OpType, Free

LEMMA OpGoesWith ==
    ASSUME op \in OpType, op.kind # "none", NEW at \in Places,
           NEW l \in SUBSET (Owners \cup FilesIn(Owners))
    PROVE  LET next == [op EXCEPT !.at = at, !.left = l] IN
           /\ next \in OpType /\ next.kind = op.kind /\ next.of = op.of
           /\ next.at = at /\ next.left = l
<1> DEFINE lefts == SUBSET (Owners \cup FilesIn(Owners))
           Held == [kind : {"restore", "purge"}, of : Entities, at : Places, left : lefts]
<1>1. op \in Held
  BY DEF OpType, Free
<1>2. \A q \in Held : /\ [q EXCEPT !.at = at] \in Held
                      /\ [q EXCEPT !.at = at].kind = q.kind /\ [q EXCEPT !.at = at].of = q.of
                      /\ [q EXCEPT !.at = at].at = at
  OBVIOUS
<1>3. \A q \in Held : /\ [q EXCEPT !.left = l] \in Held
                      /\ [q EXCEPT !.left = l].kind = q.kind /\ [q EXCEPT !.left = l].of = q.of
                      /\ [q EXCEPT !.left = l].at = q.at /\ [q EXCEPT !.left = l].left = l
  OBVIOUS
<1>4. PICK q \in Held : q = [op EXCEPT !.at = at]
  BY <1>1, <1>2
<1>5. [op EXCEPT !.at = at, !.left = l] = [q EXCEPT !.left = l]
  BY <1>4
<1> HIDE DEF Held, lefts
<1>6. q.kind = op.kind /\ q.of = op.of /\ q.at = at
  BY <1>1, <1>2, <1>4
<1>7. Held \subseteq OpType
  BY DEF Held, OpType, lefts
<1> QED BY <1>3, <1>5, <1>6, <1>7

\* Steps that leave the rows and the files: what is in a purge stays in it, and
\* a journal stays or moves on.
LEMMA ItemStep ==
    ASSUME TrashInv, UNCHANGED <<row, files>>, item' \in [Entities -> ItemType],
           op' \in OpType, InOperation', projected' \subseteq Owners,
           \A x \in Owners : x \in projected /\ row[x] # "gone" /\ ~Purged(x) => x \in projected',
           \A x \in Entities :
              /\ item'[x] = NoItem <=> item[x] = NoItem
              /\ InPurge(x) => InPurge(x)'
              /\ item[x] # NoItem =>
                    \/ item'[x].plan = item[x].plan
                    \/ /\ item'[x].plan # NoPlan /\ PlanFits(x, item'[x].plan, row, files)
                       /\ item[x].plan # NoPlan =>
                             /\ item'[x].plan.artifacts = item[x].plan.artifacts
                             /\ Rank(x, item'[x].plan.phase) >= Rank(x, item[x].plan.phase)
    PROVE  TrashInv' /\ PurgeGoesForward
<1>1. TrashTypes /\ PlansFit /\ Tombstones /\ Usable /\ Named /\ Tree
  BY DEF TrashInv
<1>2. \A x \in Children : CourseOf[x] \in Entities /\ x \in Entities
  BY TrashAssumption DEF Entities
<1>3. Owners \subseteq Children
  BY DEF Children
<1>4. \A x \in Children : Purged(x) => Purged(x)'
  BY <1>2 DEF Purged
<1>5. PlansFit'
  BY <1>1 DEF PlansFit, Planned
<1>6. Tombstones'
  BY <1>1 DEF Tombstones
<1>7. Usable'
  BY <1>1, <1>3, <1>4 DEF Usable
<1>8. Named'
  <2> SUFFICES ASSUME NEW x \in Owners, row[x] = "gone", NEW f \in FilesOf[x] \cap files
               PROVE  \E y \in Journals(x)' : f \in item'[y].plan.artifacts
    BY DEF Named
  <2>1. PICK y \in Journals(x) : f \in item[y].plan.artifacts
    BY <1>1 DEF Named
  <2>2. y \in {x, CourseOf[x]} /\ y \in Entities /\ InPurge(y) /\ item[y].plan # NoPlan
    BY <1>2, <1>3, <2>1 DEF Journals
  <2>3. InPurge(y)' /\ item'[y].plan # NoPlan /\ item'[y].plan.artifacts = item[y].plan.artifacts
    BY <2>2 DEF InPurge
  <2> QED BY <2>1, <2>2, <2>3 DEF Journals
<1>9. PurgeGoesForward
  <2> SUFFICES ASSUME NEW x \in Entities, InPurge(x)
               PROVE  /\ item'[x] # NoItem /\ InPurge(x)'
                      /\ item[x].plan # NoPlan =>
                            /\ item'[x].plan # NoPlan
                            /\ item'[x].plan.artifacts = item[x].plan.artifacts
                            /\ Rank(x, item'[x].plan.phase) >= Rank(x, item[x].plan.phase)
    BY DEF PurgeGoesForward
  <2>1. item[x] # NoItem
    BY DEF InPurge
  <2>2. item[x].plan # NoPlan => Rank(x, item[x].plan.phase) \in Nat
    BY <1>1, <2>1, RankInNat DEF PlansFit, Planned
  <2>3. item'[x].plan = item[x].plan /\ item[x].plan # NoPlan =>
           Rank(x, item'[x].plan.phase) >= Rank(x, item[x].plan.phase)
    BY <2>2
  <2> QED BY <2>1, <2>3
<1>10. Tree' /\ TrashTypes'
  BY <1>1 DEF Tree, TrashTypes
<1> QED BY <1>5, <1>6, <1>7, <1>8, <1>9, <1>10 DEF TrashInv

\* Rows that go: what loses its tombstone is gone, and so is what was below.
LEMMA GoneStep ==
    ASSUME TrashInv, UNCHANGED <<files, projected>>, NEW xs,
           row' = [x \in Entities |-> IF x \in xs THEN "gone" ELSE row[x]],
           item' \in [Entities -> ItemType], op' \in OpType, InOperation',
           \A x \in Entities : item'[x] = item[x] \/ (item'[x] = NoItem /\ row'[x] = "gone"),
           \A x \in Entities \cap xs : item'[x] # NoItem =>
              InPurge(x) /\ (x \in Journaled => item[x].plan # NoPlan),
           Named', Tree'
    PROVE  TrashInv' /\ PurgeGoesForward
<1>1. TrashTypes /\ PlansFit /\ Tombstones /\ Usable
  BY DEF TrashInv
<1>2. \A x \in Children : CourseOf[x] \in Entities /\ x \in Entities
  BY TrashAssumption DEF Entities
<1>3. TrashTypes'
  BY <1>1 DEF TrashTypes
<1>4. \A x \in Entities : row[x] = "gone" => row'[x] = "gone"
  OBVIOUS
<1>5. PlansFit'
  <2> SUFFICES ASSUME NEW x \in Entities, item'[x] # NoItem, item'[x].plan # NoPlan
               PROVE  PlanFits(x, item'[x].plan, row', files')
    BY DEF PlansFit, Planned
  <2>1. item'[x] = item[x]
    OBVIOUS
  <2>2. PlanFits(x, item[x].plan, row, files)
    BY <1>1, <2>1 DEF PlansFit, Planned
  <2> QED BY <1>4, <2>1, <2>2, PlanKept
<1>6. \A x \in Entities : item'[x] # NoItem => item'[x] = item[x] /\ (InPurge(x) <=> InPurge(x)')
  BY DEF InPurge
<1>7. Tombstones'
  <2> SUFFICES ASSUME NEW x \in Entities
               PROVE  /\ row'[x] = "trashed" => item'[x] # NoItem
                      /\ row'[x] = "live" => item'[x] = NoItem
                      /\ row'[x] = "gone" /\ item'[x] # NoItem =>
                            InPurge(x)' /\ (x \in Journaled => item'[x].plan # NoPlan)
    BY DEF Tombstones
  <2>1. CASE x \in xs
    BY <1>6, <2>1
  <2>2. CASE x \notin xs
    <3>1. row'[x] = row[x]
      BY <2>2
    <3> QED BY <1>1, <1>6, <3>1 DEF Tombstones
  <2> QED BY <2>1, <2>2
<1>8. Usable'
  <2> SUFFICES ASSUME NEW x \in Owners, row'[x] # "gone", ~Purged(x)'
               PROVE  FilesOf[x] \subseteq files /\ x \in projected
    BY DEF Usable
  <2>1. x \in Children /\ x \in Entities /\ CourseOf[x] \in Entities
    BY <1>2 DEF Children
  <2>2. row'[CourseOf[x]] # "gone"
    BY <2>1 DEF Tree
  <2>3. item'[x] = item[x] /\ item'[CourseOf[x]] = item[CourseOf[x]]
    BY <2>1, <2>2
  <2>4. ~Purged(x)
    BY <2>1, <2>3 DEF Purged, InPurge
  <2> QED BY <1>1, <1>4, <2>1, <2>4 DEF Usable
<1>9. PurgeGoesForward
  <2> SUFFICES ASSUME NEW x \in Entities, InPurge(x), item'[x] # NoItem
               PROVE  /\ InPurge(x)'
                      /\ item[x].plan # NoPlan =>
                            /\ item'[x].plan # NoPlan
                            /\ item'[x].plan.artifacts = item[x].plan.artifacts
                            /\ Rank(x, item'[x].plan.phase) >= Rank(x, item[x].plan.phase)
    BY DEF PurgeGoesForward, InPurge
  <2>1. item'[x] = item[x] /\ InPurge(x)'
    BY <1>6
  <2>2. item[x].plan # NoPlan => Rank(x, item[x].plan.phase) \in Nat
    BY <1>1, RankInNat DEF PlansFit, Planned, InPurge
  <2> QED BY <2>1, <2>2
<1> QED BY <1>3, <1>5, <1>7, <1>8, <1>9 DEF TrashInv

----------------------------------------------------------------------------
(* The steps.                                                              *)

LEMMA TrashStart == TrashInit => TrashInv
<1> SUFFICES ASSUME TrashInit PROVE TrashInv
  OBVIOUS
<1>1. /\ \A x \in Entities : row[x] = "live" /\ item[x] = NoItem
      /\ projected = Owners /\ files = FilesIn(Owners) /\ op = Free
  BY DEF TrashInit
<1>2. Owners \subseteq Entities /\ Children \subseteq Entities
      /\ \A x \in Children : CourseOf[x] \in Entities
  BY TrashAssumption DEF Entities, Children
<1>3. TrashTypes
  BY DEF TrashInit, TrashTypes, ItemType, OpType
<1>4. PlansFit /\ InOperation /\ Tombstones
  BY <1>1 DEF PlansFit, Planned, InOperation, Free, Tombstones
<1>5. Usable
  BY <1>1 DEF Usable, FilesIn
<1>6. Named /\ Tree
  BY <1>1, <1>2 DEF Named, Tree
<1> QED BY <1>3, <1>4, <1>5, <1>6 DEF TrashInv

\* What a tombstone may become.
LEMMA ItemTypes ==
    ASSUME NEW i \in ItemType, i # NoItem
    PROVE  /\ i.status \in TrashItemStatus /\ i.plan \in PlanType
           /\ \A st \in TrashItemStatus :
                 /\ [i EXCEPT !.status = st] \in ItemType /\ [i EXCEPT !.status = st] # NoItem
                 /\ [i EXCEPT !.status = st].status = st /\ [i EXCEPT !.status = st].plan = i.plan
           /\ \A p \in PlanType :
                 /\ [i EXCEPT !.plan = p] \in ItemType /\ [i EXCEPT !.plan = p] # NoItem
                 /\ [i EXCEPT !.plan = p].status = i.status /\ [i EXCEPT !.plan = p].plan = p
<1> DEFINE Held == [status : TrashItemStatus, plan : PlanType]
<1>1. i \in Held
  BY DEF ItemType
<1>2. NoItem \notin Held
  BY TrashAssumption DEF PlanType
<1>3. \A q \in Held : \A st \in TrashItemStatus :
        /\ [q EXCEPT !.status = st] \in Held
        /\ [q EXCEPT !.status = st].status = st /\ [q EXCEPT !.status = st].plan = q.plan
  OBVIOUS
<1>4. \A q \in Held : \A p \in PlanType :
        /\ [q EXCEPT !.plan = p] \in Held
        /\ [q EXCEPT !.plan = p].status = q.status /\ [q EXCEPT !.plan = p].plan = p
  OBVIOUS
<1>5. i.status \in TrashItemStatus /\ i.plan \in PlanType
  BY <1>1
<1> HIDE DEF Held
<1>6. \A st \in TrashItemStatus :
        /\ [i EXCEPT !.status = st] \in Held /\ [i EXCEPT !.status = st] # NoItem
        /\ [i EXCEPT !.status = st].status = st /\ [i EXCEPT !.status = st].plan = i.plan
  BY <1>1, <1>2, <1>3
<1>7. \A p \in PlanType :
        /\ [i EXCEPT !.plan = p] \in Held /\ [i EXCEPT !.plan = p] # NoItem
        /\ [i EXCEPT !.plan = p].status = i.status /\ [i EXCEPT !.plan = p].plan = p
  BY <1>1, <1>2, <1>4
<1> QED BY <1>5, <1>6, <1>7 DEF ItemType, Held

\* A tombstone changes its status, in or out of no purge.
LEMMA StatusStep ==
    ASSUME TrashInv, UNCHANGED <<row, files>>, op' \in OpType, InOperation', projected' \subseteq Owners,
           \A x \in Owners : x \in projected /\ row[x] # "gone" /\ ~Purged(x) => x \in projected',
           DOMAIN item' = Entities, item' = [x \in Entities |-> item'[x]],
           \A x \in Entities :
              \/ item'[x] = item[x]
              \/ /\ item[x] # NoItem
                 /\ \E st \in TrashItemStatus :
                       /\ item'[x] = [item[x] EXCEPT !.status = st]
                       /\ InPurge(x) => st \in {"purging", "purge_failed"}
    PROVE  TrashInv' /\ PurgeGoesForward
<1>1. item \in [Entities -> ItemType]
  BY DEF TrashInv, TrashTypes
<1>2. ASSUME NEW x \in Entities
      PROVE  /\ item'[x] \in ItemType /\ (item'[x] = NoItem <=> item[x] = NoItem)
             /\ InPurge(x) => InPurge(x)'
             /\ item[x] # NoItem => item'[x].plan = item[x].plan
  <2>1. CASE item'[x] = item[x]
    BY <1>1, <2>1 DEF InPurge
  <2>2. CASE item'[x] # item[x]
    <3>1. PICK st \in TrashItemStatus :
            /\ item'[x] = [item[x] EXCEPT !.status = st]
            /\ InPurge(x) => st \in {"purging", "purge_failed"}
      BY <2>2
    <3>2. item[x] # NoItem
      BY <2>2
    <3>3. item'[x] \in ItemType /\ item'[x] # NoItem /\ item'[x].status = st
          /\ item'[x].plan = item[x].plan
      <4>1. item[x] \in ItemType
        BY <1>1
      <4> QED BY <3>1, <3>2, <4>1, ItemTypes
    <3> QED BY <3>1, <3>2, <3>3 DEF InPurge
  <2> QED BY <2>1, <2>2
<1>3. item' \in [Entities -> ItemType]
  BY <1>2
<1> QED BY <1>2, <1>3, ItemStep

LEMMA ClaimStep ==
    ASSUME TrashInv, NEW x \in Entities, NEW kind \in {"restore", "purge"}, Claim(x, kind)
    PROVE  TrashInv' /\ PurgeGoesForward
<1>1. /\ TrashTypes /\ item[x] # NoItem /\ item[x].status \in Claimable(kind)
      /\ item' = [item EXCEPT ![x] = [item[x] EXCEPT !.status = Claimed(kind)]]
      /\ UNCHANGED <<row, files, projected>>
  BY DEF TrashInv, Claim
<1>2. Claimed(kind) \in TrashItemStatus /\ (InPurge(x) => Claimed(kind) = "purging")
  BY <1>1 DEF Claimed, TrashItemStatus, InPurge, Claimable, RestoreClaimable
<1>3. item'[x] = [item[x] EXCEPT !.status = Claimed(kind)]
      /\ \A y \in Entities \ {x} : item'[y] = item[y]
  BY <1>1 DEF TrashTypes
<1>4. item'[x] # NoItem /\ item'[x].status = Claimed(kind)
  BY <1>1, <1>2, <1>3, ItemTypes DEF TrashTypes
<1>5. PICK at \in {"row", "prepare"} :
        /\ op' = [kind |-> kind, of |-> x, at |-> at, left |-> {}]
        /\ kind = "restore" <=> at = "row"
  BY DEF Claim, Free
<1>6. op' \in OpType
  BY <1>5 DEF OpType, Places
<1>7. InOperation'
  <2>1. op'.kind = kind /\ op'.of = x /\ op'.at \in {"row", "prepare"}
        /\ (op'.at = "row" <=> kind = "restore")
    BY <1>5
  <2> QED BY <1>4, <2>1 DEF InOperation, Claimed
<1>8. DOMAIN item' = Entities /\ item' = [y \in Entities |-> item'[y]]
  BY <1>1 DEF TrashTypes
<1> QED BY <1>1, <1>2, <1>3, <1>6, <1>7, <1>8, StatusStep DEF TrashTypes

\* What an operation reads of its journal stays while no table changes.
LEMMA SameView ==
    ASSUME UNCHANGED <<row, item>>, op'.of = op.of
    PROVE  /\ Plan' = Plan /\ NextPhase' = NextPhase
           /\ Planned(op.of)' <=> Planned(op.of)
           /\ \A c : Blocked(c)' <=> Blocked(c)
           /\ MatchesRecords' <=> MatchesRecords
           /\ Foreign' <=> Foreign
<1>1. Plan' = Plan
  BY DEF Plan
<1>2. NextPhase' = NextPhase
  BY <1>1 DEF NextPhase
<1>3. Planned(op.of)' <=> Planned(op.of)
  BY DEF Planned
<1>4. \A c : Blocked(c)' <=> Blocked(c)
  BY DEF Blocked, UnfinishedChild
<1>5. MatchesRecords' <=> MatchesRecords
  BY <1>1 DEF MatchesRecords, CourseArtifacts, Of
<1>6. Foreign' <=> Foreign
  BY <1>1 DEF Foreign
<1> QED BY <1>1, <1>2, <1>3, <1>4, <1>5, <1>6

\* Steps that only move the operation on, or change projections.
LEMMA OpStep ==
    ASSUME TrashInv, UNCHANGED <<row, item, files>>, op' \in OpType, InOperation',
           projected' \subseteq Owners,
           \A x \in Owners : x \in projected /\ row[x] # "gone" /\ ~Purged(x) => x \in projected'
    PROVE  TrashInv' /\ PurgeGoesForward
<1>1. item' \in [Entities -> ItemType]
  BY DEF TrashInv, TrashTypes
<1>2. \A x \in Entities : InPurge(x) => InPurge(x)'
  BY DEF InPurge
<1> QED BY <1>1, <1>2, ItemStep

LEMMA RaisesStep == ASSUME TrashInv, Raises PROVE TrashInv' /\ PurgeGoesForward
<1>1. TrashTypes /\ InOperation /\ UNCHANGED <<row, item, files, projected>> /\ op # Free
      /\ op' = [op EXCEPT !.at = "failed", !.left = {}]
  BY DEF TrashInv, Raises
<1>2. op.kind # "none"
  BY <1>1 DEF TrashTypes, OpType
<1>3. op' \in OpType /\ op'.kind = op.kind /\ op'.at = "failed"
  BY <1>1, <1>2, OpGoesWith DEF TrashTypes, Places
<1>4. InOperation'
  BY <1>3 DEF InOperation
<1> QED BY <1>1, <1>3, <1>4, OpStep DEF TrashTypes

LEMMA CheckStep ==
    ASSUME TrashInv, \/ CheckChildren \/ PhasesDone
                     \/ \E step \in {"conversations", "documents", "assets", "jobs", "topics"} :
                           ChildrenGone(step)
    PROVE  TrashInv' /\ PurgeGoesForward
<1>1. /\ TrashTypes /\ PlansFit /\ InOperation /\ UNCHANGED <<row, item, files, projected>>
      /\ op.kind = "purge" /\ op.at \in {"children", "phase"}
  BY DEF TrashInv, CheckChildren, PhasesDone, ChildrenGone, Due, InStep
<1>2. PICK at \in {"phase", "mark", "finalize"} : op' = [op EXCEPT !.at = at]
  BY DEF CheckChildren, PhasesDone, ChildrenGone, Goto
<1>3. /\ op' \in OpType /\ op'.kind = "purge" /\ op'.at = at /\ op'.of = op.of
      /\ op.of \in Entities
  <2>1. at \in Places /\ op.kind # "none" /\ op \in OpType
    BY <1>1 DEF Places, TrashTypes
  <2> QED BY <1>1, <1>2, <2>1, OpGoes
<1>4. /\ Planned(op.of) /\ item[op.of] # NoItem /\ item[op.of].status = "purging"
  BY <1>1 DEF InOperation
<1>5. CASE CheckChildren
  <2>1. at = "phase" /\ ~Blocked(op.of)
    BY <1>1, <1>3, <1>5, GotoAt DEF CheckChildren, TrashTypes
  <2>2. InOperation'
    BY <1>1, <1>3, <1>4, <2>1, SameView DEF InOperation
  <2> QED BY <1>1, <1>3, <2>2, OpStep DEF TrashTypes
<1>6. ASSUME NEW step \in {"conversations", "documents", "assets", "jobs", "topics"},
             ChildrenGone(step)
      PROVE  TrashInv' /\ PurgeGoesForward
  <2>1. /\ at = "mark" /\ op.of \in Courses /\ Plan.phase # Last(PurgePhases(op.of))
        /\ NextPhase = step /\ Of(op.of, ChildrenOf(step)) = {} /\ op.at = "phase"
    BY <1>1, <1>3, <1>6, GotoAt DEF ChildrenGone, Due, InStep, TrashTypes
  <2>3. PhaseDone(op.of, step, Plan.artifacts, row, files)
    BY <2>1 DEF PhaseDone, Emptied, Of, ChildrenOf
  <2>4. InOperation'
    BY <1>1, <1>3, <1>4, <2>1, <2>3, SameView DEF InOperation
  <2> QED BY <1>1, <1>3, <2>4, OpStep DEF TrashTypes
<1>7. CASE PhasesDone
  <2>1. at = "finalize" /\ Plan.phase = Last(PurgePhases(op.of)) /\ op.at = "phase"
    BY <1>1, <1>3, <1>7, GotoAt DEF PhasesDone, InStep, TrashTypes
  <2>2. row[op.of] = "gone" /\ Plan.artifacts \cap files = {}
    BY <1>1, <1>3, <1>4, <2>1, LastPhase
  <2>3. InOperation'
    BY <1>1, <1>3, <1>4, <2>1, <2>2, SameView DEF InOperation
  <2> QED BY <1>1, <1>3, <2>3, OpStep DEF TrashTypes
<1> QED BY <1>5, <1>6, <1>7

\* Files are about to go: of the course whose plan still matches, and of nobody else.
LEMMA BeginUnlinkStep == ASSUME TrashInv, BeginUnlink PROVE TrashInv' /\ PurgeGoesForward
<1>1. /\ TrashTypes /\ InOperation /\ UNCHANGED <<row, item, files, projected>>
      /\ op.kind = "purge" /\ op.at = "phase" /\ op \in OpType
      /\ Plan.phase # Last(PurgePhases(op.of)) /\ NextPhase = "artifacts"
      /\ MatchesRecords /\ ~Foreign
      /\ op' = [op EXCEPT !.at = "unlink", !.left = Plan.artifacts]
  BY DEF TrashInv, TrashTypes, BeginUnlink, Due, InStep
<1>2. /\ Planned(op.of) /\ item[op.of] # NoItem /\ item[op.of].status = "purging"
      /\ op.of \in Courses => ~Blocked(op.of)
  BY <1>1 DEF InOperation
<1>3. Plan.artifacts \in SUBSET (Owners \cup FilesIn(Owners))
  <2>1. op.of \in Entities /\ item[op.of] \in ItemType
    BY <1>1, OpGoes DEF TrashTypes, Places
  <2>2. Plan \in PlanRow
    BY <1>2, <2>1, ItemTypes DEF Planned, Plan, PlanType
  <2> QED BY <2>2 DEF PlanRow
<1>4. /\ op' \in OpType /\ op'.kind = "purge" /\ op'.of = op.of /\ op'.at = "unlink"
      /\ op'.left = Plan.artifacts
  BY <1>1, <1>3, OpGoesWith, ZenonT(60) DEF Places
<1>5. InOperation'
  BY <1>1, <1>2, <1>4, SameView DEF InOperation
<1> QED BY <1>1, <1>4, <1>5, OpStep DEF TrashTypes

\* A restored item is projected again; the projection of a child goes only in a purge.
LEMMA ProjectionStep ==
    ASSUME TrashInv, RestoreSync \/ PurgeProjection \/ \E x \in Children : DropChildProjection(x)
    PROVE  TrashInv' /\ PurgeGoesForward
<1>1. TrashTypes /\ PlansFit /\ InOperation /\ UNCHANGED <<row, item, files>> /\ op \in OpType
  BY DEF TrashInv, TrashTypes, RestoreSync, PurgeProjection, DropChildProjection
<1>2. CASE RestoreSync
  <2>1. op.kind = "restore" /\ op.at = "sync" /\ Goto("finalize") /\ row[op.of] = "live"
    BY <1>1, <1>2 DEF RestoreSync, InStep, InOperation
  <2>2. op' \in OpType /\ op'.kind = "restore" /\ op'.of = op.of /\ op'.at = "finalize"
    BY <1>1, <2>1, OpGoes DEF Goto, Places
  <2>3. InOperation'
    BY <1>1, <2>1, <2>2 DEF InOperation
  <2>4. projected' \subseteq Owners
    <3>1. CASE op.of \in Courses
      BY <1>1, <1>2, <3>1 DEF RestoreSync, Reconciled, Of, TrashTypes
    <3>2. CASE op.of \notin Courses
      <4>1. op.of \in Owners
        BY <1>1, <1>2, <2>1, <3>2 DEF InOperation, Journaled
      <4> QED BY <1>1, <1>2, <3>2, <4>1 DEF RestoreSync, TrashTypes
    <3> QED BY <3>1, <3>2
  <2>5. \A x \in Owners : x \in projected /\ row[x] # "gone" => x \in projected'
    BY <1>2 DEF RestoreSync, Reconciled, Of
  <2> QED BY <1>1, <2>2, <2>3, <2>4, <2>5, OpStep
<1>3. CASE PurgeProjection
  <2>1. /\ op.kind = "purge" /\ op.at = "phase" /\ Goto("mark") /\ NextPhase = "projection"
        /\ Plan.phase # Last(PurgePhases(op.of)) /\ projected' = projected \ {op.of}
    BY <1>3 DEF PurgeProjection, Due, InStep
  <2>2. /\ op' \in OpType /\ op'.kind = "purge" /\ op'.of = op.of /\ op'.at = "mark"
        /\ op.of \in Entities
    BY <1>1, <2>1, OpGoes DEF Goto, Places
  <2>3. /\ Planned(op.of) /\ item[op.of] # NoItem /\ item[op.of].status = "purging"
        /\ op.of \in Courses => ~Blocked(op.of)
    BY <1>1, <2>1 DEF InOperation
  <2>4. PhaseDone(op.of, "projection", Plan.artifacts, row, files)
    BY DEF PhaseDone
  <2>5. InOperation'
    BY <1>1, <2>1, <2>2, <2>3, <2>4, SameView DEF InOperation
  <2>6. \A x \in Owners : x \in projected /\ ~Purged(x) => x \in projected'
    BY <2>1, <2>3 DEF Purged, InPurge
  <2> QED BY <1>1, <2>1, <2>2, <2>5, <2>6, OpStep DEF TrashTypes
<1>4. ASSUME NEW c \in Children, DropChildProjection(c) PROVE TrashInv' /\ PurgeGoesForward
  <2>1. /\ op.kind = "purge" /\ op.at = "phase" /\ op.of \in Courses
        /\ Plan.phase # "course" /\ c \in Of(op.of, ChildrenOf(NextPhase)) \cap Owners
        /\ op' = [op EXCEPT !.at = "child", !.left = {c}] /\ projected' = projected \ {c}
    BY <1>4 DEF DropChildProjection, InStep
  <2>2. /\ op' \in OpType /\ op'.kind = "purge" /\ op'.of = op.of /\ op'.at = "child"
        /\ op'.left = {c}
    <3>1. {c} \in SUBSET (Owners \cup FilesIn(Owners)) /\ "child" \in Places
      BY <2>1 DEF Places
    <3> QED BY <1>1, <2>1, <3>1, OpGoesWith
  <2>3. /\ Planned(op.of) /\ item[op.of] # NoItem /\ item[op.of].status = "purging"
        /\ ~Blocked(op.of)
    BY <1>1, <2>1 DEF InOperation
  <2>4. c \in Owners /\ CourseOf[c] = op.of /\ row[c] # "gone"
    BY <2>1 DEF Of
  <2>5. FilesOf[c] \cap files = {}
    <3>1. NextPhase \in {"assets", "jobs"}
      BY <2>1, <2>4, TrashAssumption DEF Of, ChildrenOf
    <3>2. Plan.phase # Last(PurgePhases(op.of))
      BY <2>1, CourseOrder DEF PurgePhases
    <3>3. PhaseDone(op.of, "artifacts", Plan.artifacts, row, files)
      BY <1>1, <2>1, <2>3, <3>1, <3>2, CourseProgress
    <3> QED BY <2>4, <3>3 DEF PhaseDone, Covered
  <2>6. InOperation'
    BY <1>1, <2>1, <2>2, <2>3, <2>4, <2>5, SameView DEF InOperation
  <2>7. \A x \in Owners : x \in projected /\ ~Purged(x) => x \in projected'
    BY <2>1, <2>3, <2>4 DEF Purged, InPurge, Children
  <2> QED BY <1>1, <2>1, <2>2, <2>6, <2>7, OpStep DEF TrashTypes
<1> QED BY <1>2, <1>3, <1>4

\* A tombstone with a journal.
LEMMA PlanSet ==
    ASSUME TrashTypes, NEW x \in Entities, item[x] # NoItem, NEW p \in PlanRow,
           item' = [item EXCEPT ![x] = [item[x] EXCEPT !.plan = p]]
    PROVE  /\ item' \in [Entities -> ItemType] /\ item'[x] # NoItem
           /\ item'[x].plan = p /\ p # NoPlan /\ item'[x].status = item[x].status
           /\ \A y \in Entities \ {x} : item'[y] = item[y]
<1>1. PICK i \in ItemType : i = item[x]
  BY DEF TrashTypes
<1>2. p \in PlanType /\ p # NoPlan
  BY TrashAssumption DEF PlanType
<1>3. /\ [i EXCEPT !.plan = p] \in ItemType /\ [i EXCEPT !.plan = p] # NoItem
      /\ [i EXCEPT !.plan = p].status = i.status /\ [i EXCEPT !.plan = p].plan = p
  BY <1>1, <1>2, ItemTypes
<1>4. item' = [item EXCEPT ![x] = [i EXCEPT !.plan = p]]
  BY <1>1
<1> QED BY <1>1, <1>2, <1>3, <1>4 DEF TrashTypes

LEMMA PrepareStep == ASSUME TrashInv, Prepare PROVE TrashInv' /\ PurgeGoesForward
<1> DEFINE x == op.of
           plan == [phase |-> "planned", artifacts |-> Artifacts(x)]
<1>1. /\ TrashTypes /\ InOperation /\ UNCHANGED <<row, files, projected>>
      /\ op.kind = "purge" /\ op.at = "prepare" /\ op \in OpType
      /\ item[x] # NoItem /\ item[x].status = "purging"
      /\ item' = IF x \in Journaled /\ item[x].plan = NoPlan
                 THEN [item EXCEPT ![x] = [item[x] EXCEPT !.plan = plan]] ELSE item
  BY DEF TrashInv, TrashTypes, Prepare, InStep, InOperation, Journaled
<1>2. PICK at \in {"children", "phase", "page"} :
        /\ Goto(at) /\ (at = "children" <=> x \in Courses) /\ (at = "page" <=> x \notin Journaled)
  <2>1. Goto(IF x \in Courses THEN "children" ELSE IF x \in Owners THEN "phase" ELSE "page")
    BY DEF Prepare
  <2>2. CASE x \in Courses
    BY <2>1, <2>2 DEF Journaled
  <2>3. CASE x \in Owners \ Courses
    BY <2>1, <2>3 DEF Journaled
  <2>4. CASE x \notin Courses /\ x \notin Owners
    BY <2>1, <2>4 DEF Journaled
  <2> QED BY <2>2, <2>3, <2>4
<1>3. /\ op' \in OpType /\ op'.kind = "purge" /\ op'.of = x /\ op'.at = at /\ x \in Entities
  <2>1. at \in Places /\ op.kind # "none"
    BY <1>1 DEF Places
  <2> QED BY <1>1, <1>2, <2>1, OpGoes DEF Goto
<1>4. CASE ~(x \in Journaled /\ item[x].plan = NoPlan)
  <2>1. (x \in Journaled => Planned(x)) /\ item' = item
    BY <1>1, <1>4 DEF Planned
  <2>2. InOperation'
    BY <1>1, <1>2, <1>3, <2>1, SameView DEF InOperation, Journaled
  <2> QED BY <1>1, <1>3, <2>1, <2>2, OpStep DEF TrashTypes
<1>5. CASE x \in Journaled /\ item[x].plan = NoPlan
  <2>1. /\ x \in Journaled /\ item[x].plan = NoPlan
        /\ item' = [item EXCEPT ![x] = [item[x] EXCEPT !.plan = plan]]
    BY <1>1, <1>5
  <2>2. plan.phase = "planned" /\ plan.artifacts = Artifacts(x) /\ plan \in PlanRow
    <3>1. "planned" \in ToSet(CoursePurgePhases)
      BY CourseOrder DEF ToSet
    <3>2. Artifacts(x) \subseteq FilesIn(Owners)
      BY <2>1 DEF Artifacts, CourseArtifacts, FilesIn, Of, Journaled
    <3> QED BY <3>1, <3>2 DEF PlanRow
  <2>3. PlanFits(x, plan, row, files)
    <3>1. x \in Owners => plan.artifacts = FilesOf[x]
      BY <2>2, TrashAssumption, ZenonT(60) DEF Artifacts, FilesIn, Children
    <3>2. 1 \in DOMAIN PurgePhases(x) /\ PurgePhases(x)[1] = "planned"
      BY CourseOrder, EntityOrder DEF PurgePhases
    <3>3. PhaseDone(x, "planned", plan.artifacts, row, files)
      BY DEF PhaseDone
    <3> HIDE DEF plan
    <3>4. \A j \in 1 .. 1 : PhaseDone(x, PurgePhases(x)[j], plan.artifacts, row, files)
      BY <3>2, <3>3
    <3> QED BY <2>1, <2>2, <3>1, <3>2, <3>4 DEF PlanFits
  <2> HIDE DEF plan
  <2>4. /\ item' \in [Entities -> ItemType] /\ item'[x] # NoItem
        /\ item'[x].plan = plan /\ plan # NoPlan /\ item'[x].status = item[x].status
        /\ \A y \in Entities \ {x} : item'[y] = item[y]
    BY <1>1, <1>3, <2>1, <2>2, PlanSet
  <2>5. InOperation'
    <3>1. Planned(op.of)'
      BY <1>3, <2>4 DEF Planned
    <3> QED BY <1>1, <1>2, <1>3, <2>1, <2>4, <3>1 DEF InOperation, Journaled
  <2>6. \A y \in Entities : InPurge(y) => InPurge(y)'
    BY <1>1, <2>4 DEF InPurge
  <2> QED BY <1>1, <1>3, <2>1, <2>3, <2>4, <2>5, <2>6, ItemStep DEF TrashTypes
<1> QED BY <1>4, <1>5

\* The phase that was done is noted.
LEMMA MarkStep == ASSUME TrashInv, MarkPhase PROVE TrashInv' /\ PurgeGoesForward
<1> DEFINE x == op.of
           plan == [item[x].plan EXCEPT !.phase = NextPhase]
<1>1. /\ TrashTypes /\ PlansFit /\ InOperation /\ UNCHANGED <<row, files, projected>>
      /\ op.kind = "purge" /\ op.at = "mark" /\ op \in OpType /\ Goto("phase")
      /\ item[x] # NoItem /\ item[x].status = "purging" /\ Planned(op.of)
      /\ Plan.phase # Last(PurgePhases(op.of))
      /\ PhaseDone(op.of, NextPhase, Plan.artifacts, row, files)
      /\ op.of \in Courses => ~Blocked(op.of)
  BY DEF TrashInv, TrashTypes, MarkPhase, InStep, InOperation
<1>2. /\ op' \in OpType /\ op'.kind = "purge" /\ op'.of = x /\ op'.at = "phase" /\ x \in Entities
  BY <1>1, OpGoes DEF Goto, Places
<1>3. item' = [item EXCEPT ![x] = [item[x] EXCEPT !.plan = plan]]
  BY DEF MarkPhase
<1>4. PICK i \in DOMAIN PurgePhases(x) :
        /\ Plan.phase = PurgePhases(x)[i] /\ i = Rank(x, Plan.phase)
        /\ \A j \in 1 .. i : PhaseDone(x, PurgePhases(x)[j], Plan.artifacts, row, files)
        /\ i + 1 \in DOMAIN PurgePhases(x) /\ NextPhase = PurgePhases(x)[i + 1]
  BY <1>1, <1>2, PhaseOfPlan
<1>5. /\ plan \in PlanRow /\ plan.phase = NextPhase /\ plan.artifacts = Plan.artifacts
  <2>1. NextPhase \in ToSet(CoursePurgePhases) \cup ToSet(EntityPurgePhases)
    BY <1>4 DEF PurgePhases, ToSet
  <2>2. item[x].plan \in PlanRow
    BY <1>1, <1>2, ItemTypes DEF TrashTypes, Planned, PlanType
  <2> QED BY <2>1, <2>2 DEF PlanRow, Plan
<1> HIDE DEF plan
<1>6. PlanFits(x, plan, row, files)
  <2>1. PlanFits(x, Plan, row, files)
    BY <1>1, <1>2 DEF PlansFit, Plan
  <2>2. PICK n \in Nat : DOMAIN PurgePhases(x) = 1 .. n
    BY PhaseOrder
  <2>3. \A j \in 1 .. i + 1 : PhaseDone(x, PurgePhases(x)[j], Plan.artifacts, row, files)
    <3>1. \A j \in 1 .. i + 1 : j \in 1 .. i \/ j = i + 1
      BY <1>4, <2>2
    <3> QED BY <1>1, <1>4, <3>1
  <2> QED BY <1>4, <1>5, <2>1, <2>3 DEF PlanFits
<1>7. Rank(x, plan.phase) >= Rank(x, Plan.phase)
  <2>1. PICK n \in Nat : DOMAIN PurgePhases(x) = 1 .. n
    BY PhaseOrder
  <2>2. Rank(x, plan.phase) = i + 1
    BY <1>4, <1>5, PhaseOrder
  <2> QED BY <1>4, <2>1, <2>2
<1>8. /\ item' \in [Entities -> ItemType] /\ item'[x] # NoItem
      /\ item'[x].plan = plan /\ plan # NoPlan /\ item'[x].status = item[x].status
      /\ \A y \in Entities \ {x} : item'[y] = item[y]
  BY <1>1, <1>2, <1>3, <1>5, PlanSet
<1>9. InOperation'
  <2>1. Planned(op.of)'
    BY <1>2, <1>8 DEF Planned
  <2>2. op.of \in Courses => ~Blocked(op.of)'
    <3>1. op.of \in Courses => \A y \in Owners : item'[y] = item[y]
      BY <1>8, TrashAssumption DEF Entities, Children
    <3> QED BY <1>1, <1>2, <3>1 DEF Blocked, UnfinishedChild
  <2> QED BY <1>1, <1>2, <1>8, <2>1, <2>2 DEF InOperation
<1>10. \A y \in Entities : InPurge(y) => InPurge(y)'
  BY <1>1, <1>8 DEF InPurge
<1> QED BY <1>1, <1>2, <1>5, <1>6, <1>7, <1>8, <1>9, <1>10, ItemStep DEF TrashTypes, Plan

\* The operation failed, and says so or not.
LEMMA MarkFailedStep ==
    ASSUME TrashInv, NEW saved \in BOOLEAN, MarkFailed(saved)
    PROVE  TrashInv' /\ PurgeGoesForward
<1>1. TrashTypes /\ UNCHANGED <<row, files, projected>> /\ op' = Free
  BY DEF TrashInv, MarkFailed
<1>2. InOperation' /\ op' \in OpType
  BY <1>1 DEF InOperation, Free, OpType
<1>3. op.of \in Entities /\ op.kind \in {"restore", "purge"}
  BY <1>1, OpGoes DEF MarkFailed, TrashTypes, OpType, Free, Places
<1>4. CASE item' = item
  BY <1>1, <1>2, <1>4, OpStep DEF TrashTypes
<1>5. CASE item' # item
  <2>1. /\ item[op.of] # NoItem /\ item[op.of].status = Claimed(op.kind)
        /\ item' = [item EXCEPT ![op.of] = [item[op.of] EXCEPT !.status = FailedAs(op.kind)]]
    BY <1>5 DEF MarkFailed
  <2>2. FailedAs(op.kind) \in TrashItemStatus /\ (InPurge(op.of) => FailedAs(op.kind) = "purge_failed")
    BY <1>3, <2>1 DEF FailedAs, Claimed, InPurge, TrashItemStatus
  <2>3. /\ DOMAIN item' = Entities /\ item' = [x \in Entities |-> item'[x]]
        /\ item'[op.of] = [item[op.of] EXCEPT !.status = FailedAs(op.kind)]
        /\ \A x \in Entities \ {op.of} : item'[x] = item[x]
    BY <1>1, <1>3, <2>1 DEF TrashTypes
  <2> QED BY <1>1, <1>2, <2>1, <2>2, <2>3, StatusStep DEF TrashTypes
<1> QED BY <1>4, <1>5

\* A stop, and the startup that follows.
LEMMA RestartStep == ASSUME TrashInv, RestartTrash PROVE TrashInv' /\ PurgeGoesForward
<1>1. /\ TrashTypes /\ UNCHANGED <<row, files>> /\ op' = Free
      /\ item' = [x \in Entities |-> Recovered(item[x])]
      /\ projected' = {r \in Owners : IF row[CourseOf[r]] = "live" THEN row[r] # "gone"
                                      ELSE r \in projected}
  BY DEF TrashInv, RestartTrash
<1>2. InOperation' /\ op' \in OpType
  BY <1>1 DEF InOperation, Free, OpType
<1>3. ASSUME NEW x \in Entities
      PROVE  \/ item'[x] = item[x]
             \/ /\ item[x] # NoItem
                /\ \E st \in TrashItemStatus :
                      /\ item'[x] = [item[x] EXCEPT !.status = st]
                      /\ InPurge(x) => st \in {"purging", "purge_failed"}
  <2>1. item'[x] = Recovered(item[x])
    BY <1>1
  <2>2. CASE item[x] # NoItem /\ item[x].status = "restoring"
    BY <2>1, <2>2 DEF Recovered, InPurge, TrashItemStatus
  <2>3. CASE item[x] # NoItem /\ item[x].status = "purging"
    BY <2>1, <2>3 DEF Recovered, InPurge, TrashItemStatus
  <2>4. CASE item[x] = NoItem \/ item[x].status \notin {"restoring", "purging"}
    BY <2>1, <2>4 DEF Recovered
  <2> QED BY <2>2, <2>3, <2>4
<1>4. projected' \subseteq Owners
      /\ \A x \in Owners : x \in projected /\ row[x] # "gone" => x \in projected'
  BY <1>1
<1>5. DOMAIN item' = Entities /\ item' = [x \in Entities |-> item'[x]]
  BY <1>1
<1> QED BY <1>1, <1>2, <1>3, <1>4, <1>5, StatusStep

\* A file that is there stays named: whose rows go has its files journaled or
\* gone, and a journal goes when its files are.
LEMMA NamedKept ==
    ASSUME TrashInv, files' \subseteq files,
           \A x \in Owners : row'[x] = "gone" /\ row[x] # "gone" =>
              \A f \in FilesOf[x] \cap files : \E y \in Journals(x) : f \in item[y].plan.artifacts,
           \A y \in Entities :
              item'[y] = item[y] \/ (Planned(y) => item[y].plan.artifacts \cap files' = {})
    PROVE  Named'
<1> SUFFICES ASSUME NEW x \in Owners, row'[x] = "gone", NEW f \in FilesOf[x] \cap files'
             PROVE  \E y \in Journals(x)' : f \in item'[y].plan.artifacts
  BY DEF Named
<1>1. PICK y \in Journals(x) : f \in item[y].plan.artifacts
  BY DEF TrashInv, Named
<1>2. y \in {x, CourseOf[x]} /\ y \in Entities /\ InPurge(y) /\ item[y].plan # NoPlan
  BY <1>1, TrashAssumption DEF Journals, Entities, Children
<1>3. Planned(y)
  BY <1>2 DEF Planned, InPurge
<1>4. item'[y] = item[y]
  BY <1>1, <1>2, <1>3
<1> QED BY <1>1, <1>2, <1>4 DEF Journals, InPurge

\* The journal under the lock, when its tombstone stays.
LEMMA SamePlan ==
    ASSUME item'[op.of] = item[op.of], op'.of = op.of
    PROVE  Plan' = Plan /\ NextPhase' = NextPhase /\ (Planned(op.of)' <=> Planned(op.of))
<1>1. Plan' = Plan
  BY DEF Plan
<1> QED BY <1>1 DEF NextPhase, Planned

LEMMA DeletedRows ==
    ASSUME TrashTypes, NEW xs, NEW keep, Deleted(xs, keep)
    PROVE  /\ row' = [x \in Entities |-> IF x \in xs THEN "gone" ELSE row[x]]
           /\ item' \in [Entities -> ItemType]
           /\ \A x \in Entities : item'[x] = IF x \in xs \ keep THEN NoItem ELSE item[x]
BY DEF Deleted, TrashTypes, ItemType

LEMMA PageStep ==
    ASSUME TrashInv, PurgePage \/ \E x \in Children : DropPage(x)
    PROVE  TrashInv' /\ PurgeGoesForward
<1>1. TrashTypes /\ PlansFit /\ InOperation /\ Tree /\ UNCHANGED <<files, projected>> /\ op \in OpType
  BY DEF TrashInv, TrashTypes, PurgePage, DropPage
<1>2. PICK x \in Entities \ Journaled : Deleted({x}, {})
  <2>1. CASE PurgePage
    BY <1>1, <2>1, OpGoes DEF PurgePage, InStep, InOperation, Places
  <2>2. CASE \E x \in Children : DropPage(x)
    BY <2>2, TrashAssumption DEF DropPage, Entities, Journaled
  <2> QED BY <2>1, <2>2
<1>3. /\ row' = [y \in Entities |-> IF y \in {x} THEN "gone" ELSE row[y]]
      /\ item' \in [Entities -> ItemType] /\ item'[x] = NoItem
      /\ \A y \in Entities \ {x} : item'[y] = item[y] /\ row'[y] = row[y]
  BY <1>1, <1>2, DeletedRows
<1>4. ~Planned(x)
  BY <1>1 DEF PlansFit, PlanFits
<1>5. Named'
  <2>1. \A y \in Owners : row'[y] = row[y]
    BY <1>3 DEF Entities, Children, Journaled
  <2> QED BY <1>1, <1>3, <1>4, <2>1, NamedKept
<1>6. Tree'
  BY <1>1, <1>3, TrashAssumption DEF Tree, Entities, Journaled
<1>7. op' \in OpType /\ InOperation'
  <2>1. CASE PurgePage
    <3>1. op.kind = "purge" /\ op.at = "page" /\ op.of \notin Journaled /\ op.of \in Entities
      BY <1>1, <2>1, OpGoes DEF PurgePage, InStep, InOperation, Places
    <3>2. op' \in OpType /\ op'.kind = "purge" /\ op'.of = op.of /\ op'.at = "finalize"
      BY <1>1, <2>1, <3>1, OpGoes DEF PurgePage, Goto, Places
    <3>3. row'[op.of] = "gone" /\ item'[op.of] = NoItem
      BY <1>1, <2>1, <3>1, DeletedRows DEF PurgePage
    <3> QED BY <3>1, <3>2, <3>3 DEF InOperation, Planned
  <2>2. CASE \E y \in Children : DropPage(y)
    <3>1. op' = op /\ op.kind = "purge" /\ op.at = "phase" /\ op.of \in Courses
      BY <2>2 DEF DropPage, InStep
    <3>2. item'[op.of] = item[op.of]
      BY <1>3, <3>1 DEF Entities, Journaled
    <3>3. ~Blocked(op.of)'
      <4>1. ~Blocked(op.of)
        BY <1>1, <3>1 DEF InOperation
      <4>2. \A y \in Owners : item'[y] = item[y] /\ row'[y] = row[y]
        BY <1>3 DEF Entities, Children, Journaled
      <4> QED BY <3>1, <4>1, <4>2 DEF Blocked, UnfinishedChild
    <3>4. Planned(op.of)' /\ item'[op.of] # NoItem /\ item'[op.of].status = "purging"
      BY <1>1, <3>1, <3>2, SamePlan DEF InOperation
    <3> QED BY <1>1, <3>1, <3>3, <3>4 DEF InOperation
  <2> QED BY <2>1, <2>2
<1> QED BY <1>1, <1>3, <1>5, <1>6, <1>7, GoneStep

LEMMA RecordsStep == ASSUME TrashInv, PurgeRecords PROVE TrashInv' /\ PurgeGoesForward
<1>1. /\ TrashTypes /\ PlansFit /\ InOperation /\ Tree /\ UNCHANGED <<files, projected>>
      /\ op \in OpType /\ op.kind = "purge" /\ op.at = "phase"
      /\ Plan.phase # Last(PurgePhases(op.of)) /\ NextPhase = "database"
      /\ Deleted({op.of}, {op.of}) /\ Goto("mark")
  BY DEF TrashInv, TrashTypes, PurgeRecords, Due, InStep
<1>2. /\ op' \in OpType /\ op'.kind = "purge" /\ op'.of = op.of /\ op'.at = "mark"
      /\ op.of \in Entities
  BY <1>1, OpGoes DEF Goto, Places
<1>3. Planned(op.of) /\ item[op.of] # NoItem /\ item[op.of].status = "purging"
  BY <1>1 DEF InOperation
<1>4. op.of \in Owners /\ op.of \notin Courses /\ Plan.artifacts = FilesOf[op.of]
  <2>1. PICK i \in DOMAIN PurgePhases(op.of) : i + 1 \in DOMAIN PurgePhases(op.of)
                                               /\ NextPhase = PurgePhases(op.of)[i + 1]
    BY <1>1, <1>2, <1>3, PhaseOfPlan
  <2>2. op.of \notin Courses
    BY <1>1, <2>1, CourseOrder DEF PurgePhases
  <2>3. PlanFits(op.of, Plan, row, files)
    BY <1>1, <1>2, <1>3 DEF PlansFit, Plan
  <2> QED BY <2>2, <2>3 DEF PlanFits, Journaled
<1>5. /\ row' = [y \in Entities |-> IF y \in {op.of} THEN "gone" ELSE row[y]]
      /\ item' \in [Entities -> ItemType] /\ \A y \in Entities : item'[y] = item[y]
  BY <1>1, DeletedRows
<1>6. Named'
  <2>1. op.of \in Journals(op.of) /\ item[op.of].plan.artifacts = FilesOf[op.of]
    BY <1>3, <1>4 DEF Journals, InPurge, Planned, Plan
  <2>2. \A y \in Owners : row'[y] = "gone" /\ row[y] # "gone" => y = op.of
    BY <1>5 DEF Entities, Children
  <2> QED BY <1>1, <1>5, <2>1, <2>2, NamedKept
<1>7. Tree'
  BY <1>1, <1>4, <1>5, TrashAssumption DEF Tree, Entities, Children
<1>8. InOperation'
  <2>1. PhaseDone(op.of, "database", Plan.artifacts, row', files')
    BY <1>2, <1>5 DEF PhaseDone
  <2>2. Plan' = Plan /\ NextPhase' = NextPhase /\ Planned(op.of)'
    BY <1>2, <1>3, <1>5, SamePlan
  <2> QED BY <1>1, <1>2, <1>3, <1>4, <1>5, <2>1, <2>2 DEF InOperation
<1>9. InPurge(op.of) /\ item[op.of].plan # NoPlan
  BY <1>3 DEF InPurge, Planned
<1> QED BY <1>1, <1>2, <1>5, <1>6, <1>7, <1>8, <1>9, GoneStep

\* The rows of a child go when its files are gone.
LEMMA DropOwnerStep == ASSUME TrashInv, DropOwner PROVE TrashInv' /\ PurgeGoesForward
<1>1. /\ TrashTypes /\ PlansFit /\ InOperation /\ Tree /\ UNCHANGED <<files, projected>>
      /\ op \in OpType /\ op.kind = "purge" /\ op.at = "child" /\ Deleted(op.left, {})
      /\ op' = [op EXCEPT !.at = "phase", !.left = {}]
  BY DEF TrashInv, TrashTypes, DropOwner, InStep
<1>2. /\ op' \in OpType /\ op'.kind = "purge" /\ op'.of = op.of /\ op'.at = "phase"
  <2>1. {} \in SUBSET (Owners \cup FilesIn(Owners)) /\ "phase" \in Places /\ op.kind # "none"
    BY <1>1 DEF Places
  <2> QED BY <1>1, <2>1, OpGoesWith
<1>3. /\ Planned(op.of) /\ item[op.of] # NoItem /\ item[op.of].status = "purging"
      /\ op.of \in Courses /\ ~Blocked(op.of)
      /\ \A y \in op.left : y \in Owners /\ FilesOf[y] \cap files = {}
  BY <1>1 DEF InOperation
<1>4. /\ row' = [y \in Entities |-> IF y \in op.left THEN "gone" ELSE row[y]]
      /\ item' \in [Entities -> ItemType]
      /\ \A y \in Entities : item'[y] = IF y \in op.left THEN NoItem ELSE item[y]
  BY <1>1, DeletedRows
<1>5. Courses \cap Owners = {} /\ Owners \subseteq Entities /\ Courses \subseteq Entities
      /\ \A x \in Children : CourseOf[x] \in Courses /\ x \in Entities
  BY TrashAssumption DEF Entities, Children
<1>6. Named'
  <2>1. \A y \in op.left : Planned(y) => item[y].plan.artifacts = FilesOf[y]
    BY <1>1, <1>3, <1>5 DEF PlansFit, PlanFits
  <2>2. \A y \in Entities :
           item'[y] = item[y] \/ (Planned(y) => item[y].plan.artifacts \cap files' = {})
    BY <1>1, <1>3, <1>4, <2>1
  <2>3. \A x \in Owners : row'[x] = "gone" /\ row[x] # "gone" => FilesOf[x] \cap files = {}
    BY <1>3, <1>4, <1>5
  <2> QED BY <1>1, <2>2, <2>3, NamedKept
<1>7. Tree'
  BY <1>1, <1>3, <1>4, <1>5 DEF Tree
<1>8. InOperation'
  <2>1. op.of \notin op.left /\ item'[op.of] = item[op.of]
    BY <1>3, <1>4, <1>5
  <2>2. ~Blocked(op.of)'
    <3>1. \A y \in Owners : item'[y] # NoItem => item'[y] = item[y] /\ row'[y] = row[y]
      BY <1>4, <1>5
    <3> QED BY <1>2, <1>3, <3>1 DEF Blocked, UnfinishedChild
  <2>3. Planned(op.of)'
    BY <1>2, <1>3, <2>1, SamePlan
  <2> QED BY <1>2, <1>3, <2>1, <2>2, <2>3 DEF InOperation
<1> QED BY <1>1, <1>2, <1>4, <1>6, <1>7, <1>8, GoneStep

\* The course goes last: no child is left, and none has a journal with files.
LEMMA CourseStep == ASSUME TrashInv, PurgeCourseRecord PROVE TrashInv' /\ PurgeGoesForward
<1> DEFINE tree == {x \in Children : CourseOf[x] = op.of}
<1>1. /\ TrashTypes /\ PlansFit /\ InOperation /\ Tombstones /\ Tree
      /\ UNCHANGED <<files, projected>>
      /\ op \in OpType /\ op.kind = "purge" /\ op.at = "phase" /\ Goto("mark")
      /\ Plan.phase # Last(PurgePhases(op.of)) /\ NextPhase = "course"
  BY DEF TrashInv, TrashTypes, PurgeCourseRecord, Due, InStep
<1>2. /\ op' \in OpType /\ op'.kind = "purge" /\ op'.of = op.of /\ op'.at = "mark"
      /\ op.of \in Entities
  BY <1>1, OpGoes DEF Goto, Places
<1>3. Planned(op.of) /\ item[op.of] # NoItem /\ item[op.of].status = "purging"
  BY <1>1 DEF InOperation
<1>4. op.of \in Courses
  <2>1. PICK i \in DOMAIN PurgePhases(op.of) : i + 1 \in DOMAIN PurgePhases(op.of)
                                               /\ NextPhase = PurgePhases(op.of)[i + 1]
    BY <1>1, <1>2, <1>3, PhaseOfPlan
  <2> QED BY <1>1, <2>1, EntityOrder DEF PurgePhases
<1>5. ~Blocked(op.of)
  BY <1>1, <1>4 DEF InOperation
<1>6. \A x \in tree : row[x] = "gone"
  <2>1. /\ Emptied(op.of, Talks, row) /\ Emptied(op.of, Pages, row)
        /\ Emptied(op.of, Assets, row) /\ Emptied(op.of, Jobs, row)
    BY <1>1, <1>3, <1>4, CourseProgress
  <2> QED BY <2>1 DEF Emptied, Children, Owners
<1>7. Courses \cap Children = {} /\ Owners \subseteq Children /\ Courses \subseteq Entities
      /\ \A x \in Children : CourseOf[x] \in Courses /\ x \in Entities
  BY TrashAssumption DEF Entities, Children
<1>8. row' = [y \in Entities |-> IF y \in {op.of} THEN "gone" ELSE row[y]]
  <2>1. row' = [row EXCEPT ![op.of] = "gone"]
    BY DEF PurgeCourseRecord
  <2> QED BY <1>1, <1>2, <2>1 DEF TrashTypes
<1>9. /\ item' \in [Entities -> ItemType]
      /\ \A y \in Entities : item'[y] = item[y] \/ (item'[y] = NoItem /\ y \in tree)
      /\ row[op.of] # "gone" => \A y \in tree : item'[y] = NoItem
  <2>1. item' = IF row[op.of] = "gone" THEN item
                ELSE [x \in Entities |-> IF x \in tree THEN NoItem ELSE item[x]]
    BY DEF PurgeCourseRecord
  <2>2. CASE row[op.of] = "gone"
    BY <1>1, <2>1, <2>2 DEF TrashTypes
  <2>3. CASE row[op.of] # "gone"
    <3>1. item' = [x \in Entities |-> IF x \in tree THEN NoItem ELSE item[x]]
      BY <2>1, <2>3
    <3> QED BY <1>1, <1>7, <3>1 DEF TrashTypes, ItemType
  <2> QED BY <2>2, <2>3
<1>10. ASSUME NEW y \in tree, Planned(y) PROVE item[y].plan.artifacts \cap files = {}
  <2>1. PlanFits(y, item[y].plan, row, files) /\ y \in Owners
    BY <1>1, <1>7, <1>10 DEF PlansFit, PlanFits, Journaled
  <2>2. item[y].plan.phase = "artifacts"
    BY <1>5, <1>6, <1>10, <2>1 DEF Blocked, UnfinishedChild, Planned
  <2>3. PICK i \in DOMAIN PurgePhases(y) :
          /\ PurgePhases(y)[i] = "artifacts"
          /\ \A j \in 1 .. i : PhaseDone(y, PurgePhases(y)[j], item[y].plan.artifacts, row, files)
    BY <2>1, <2>2 DEF PlanFits
  <2>4. i \in 1 .. i
    <3>1. PICK n \in Nat : DOMAIN PurgePhases(y) = 1 .. n
      BY PhaseOrder
    <3> QED BY <3>1
  <2>5. PhaseDone(y, "artifacts", item[y].plan.artifacts, row, files)
    BY <2>3, <2>4
  <2> QED BY <2>5 DEF PhaseDone
<1>11. Named'
  <2>1. \A x \in Owners : row'[x] = "gone" => row[x] = "gone"
    BY <1>4, <1>7, <1>8
  <2>2. \A y \in Entities :
           item'[y] = item[y] \/ (Planned(y) => item[y].plan.artifacts \cap files' = {})
    BY <1>1, <1>9, <1>10
  <2> QED BY <1>1, <2>1, <2>2, NamedKept
<1>12. \A x \in Entities : row[x] = "gone" => row'[x] = "gone"
  BY <1>8
<1>13. Tree'
  BY <1>1, <1>6, <1>7, <1>8, <1>12 DEF Tree
<1>14. InOperation'
  <2>1. item'[op.of] = item[op.of]
    BY <1>2, <1>4, <1>7, <1>9
  <2>2. Plan' = Plan /\ NextPhase' = NextPhase /\ Planned(op.of)'
    BY <1>2, <1>3, <2>1, SamePlan
  <2>3. PhaseDone(op.of, "course", Plan.artifacts, row', files')
    BY <1>2, <1>8 DEF PhaseDone
  <2>4. \A y \in Owners : item'[y] # NoItem => item'[y] = item[y] /\ row'[y] = row[y]
    BY <1>4, <1>7, <1>8, <1>9
  <2>5. ~Blocked(op.of)'
    BY <1>2, <1>5, <2>4 DEF Blocked, UnfinishedChild
  <2> QED BY <1>1, <1>2, <1>3, <2>1, <2>2, <2>3, <2>5 DEF InOperation
<1>15. InPurge(op.of) /\ item[op.of].plan # NoPlan
  BY <1>3 DEF InPurge, Planned
<1>16. \A x \in Entities : item'[x] = item[x] \/ (item'[x] = NoItem /\ row'[x] = "gone")
  BY <1>6, <1>9, <1>12
<1> QED BY <1>1, <1>2, <1>8, <1>9, <1>11, <1>13, <1>14, <1>15, <1>16, GoneStep

\* A file goes that the checked plan names: no row that can still be used has it.
LEMMA UnlinkStep == ASSUME TrashInv, Unlink PROVE TrashInv' /\ PurgeGoesForward
<1>1. /\ TrashTypes /\ PlansFit /\ InOperation /\ Tombstones /\ Usable /\ Tree
      /\ UNCHANGED <<row, item, projected>>
      /\ op \in OpType /\ op.kind = "purge" /\ op.at = "unlink"
  BY DEF TrashInv, TrashTypes, Unlink, InStep
<1>2. /\ Planned(op.of) /\ item[op.of] # NoItem /\ item[op.of].status = "purging"
      /\ op.of \in Courses => ~Blocked(op.of)
      /\ Plan.phase # Last(PurgePhases(op.of)) /\ NextPhase = "artifacts"
      /\ op.left \subseteq Plan.artifacts /\ Plan.artifacts \cap files \subseteq op.left
      /\ MatchesRecords /\ ~Foreign
  BY <1>1 DEF InOperation
<1>3. CASE op.left = {} /\ Goto("mark") /\ UNCHANGED files
  <2>1. op' \in OpType /\ op'.kind = "purge" /\ op'.of = op.of /\ op'.at = "mark"
    BY <1>1, <1>3, OpGoes DEF Goto, Places
  <2>2. PhaseDone(op.of, "artifacts", Plan.artifacts, row, files)
    <3>1. Plan.artifacts \cap files = {}
      BY <1>2, <1>3
    <3>2. Covered(op.of, Plan.artifacts, row)
      <4> SUFFICES ASSUME NEW y \in Owners, CourseOf[y] = op.of, row[y] # "gone"
                   PROVE  FilesOf[y] \subseteq Plan.artifacts
        BY DEF Covered
      <4>1. op.of \in Courses
        BY TrashAssumption DEF Children
      <4>2. Plan.artifacts = CourseArtifacts(op.of)
        BY <1>2, <4>1 DEF MatchesRecords
      <4> QED BY <4>2 DEF CourseArtifacts, FilesIn, Of
    <3> QED BY <3>1, <3>2 DEF PhaseDone
  <2>3. InOperation'
    BY <1>1, <1>2, <1>3, <2>1, <2>2, SameView DEF InOperation
  <2> QED BY <1>1, <1>3, <2>1, <2>3, OpStep DEF TrashTypes
<1>4. ASSUME NEW f \in op.left, files' = files \ {f}, op' = [op EXCEPT !.left = op.left \ {f}]
      PROVE  TrashInv' /\ PurgeGoesForward
  <2>1. /\ op' \in OpType /\ op'.kind = "purge" /\ op'.of = op.of /\ op'.at = "unlink"
        /\ op'.left = op.left \ {f}
    BY <1>1, <1>4 DEF OpType, Free
  <2>2. TrashTypes'
    BY <1>1, <2>1 DEF TrashTypes
  <2>3. PlansFit'
    <3>1. \A x \in Entities : Planned(x)' => PlanFits(x, item[x].plan, row, files)
      BY <1>1 DEF PlansFit, Planned
    <3>2. \A x : PlanFits(x, item[x].plan, row, files) => PlanFits(x, item[x].plan, row, files')
      BY <1>4, PlanKept
    <3> QED BY <1>1, <3>1, <3>2 DEF PlansFit, Planned
  <2>4. InOperation'
    <3>1. op'.left \subseteq Plan.artifacts /\ Plan.artifacts \cap files' \subseteq op'.left
      BY <1>2, <1>4, <2>1
    <3> QED BY <1>1, <1>2, <2>1, <3>1, SameView DEF InOperation
  <2>5. Usable'
    <3> SUFFICES ASSUME NEW x \in Owners, row[x] # "gone", ~Purged(x)
                 PROVE  f \notin FilesOf[x]
      BY <1>1, <1>4 DEF Usable, Purged, InPurge
    <3>1. CourseOf[x] # op.of
      BY <1>2 DEF Purged, InPurge, Children
    <3>2. FilesIn({x}) = FilesOf[x]
      BY DEF FilesIn
    <3>3. FilesOf[x] \cap Plan.artifacts = {}
      BY <1>2, <3>1, <3>2 DEF Foreign
    <3> QED BY <1>2, <1>4, <3>3
  <2>6. Named'
    BY <1>1, <1>4, NamedKept
  <2>7. Tombstones' /\ Tree'
    BY <1>1 DEF Tombstones, Tree, InPurge
  <2>8. PurgeGoesForward
    <3>1. \A x \in Entities : InPurge(x) /\ item[x].plan # NoPlan =>
             Rank(x, item[x].plan.phase) \in Nat
      BY <1>1, RankInNat DEF PlansFit, Planned, InPurge
    <3>2. \A n \in Nat : n >= n
      OBVIOUS
    <3> QED BY <1>1, <3>1, <3>2 DEF PurgeGoesForward, InPurge
  <2> QED BY <2>2, <2>3, <2>4, <2>5, <2>6, <2>7, <2>8 DEF TrashInv
<1> QED BY <1>3, <1>4 DEF Unlink

\* A row goes to the Trash or comes back: neither is a step of a purge.
LEMMA RowStep ==
    ASSUME TrashInv, UNCHANGED <<files, projected>>, NEW x \in Entities, NEW r \in {"live", "trashed"},
           NEW i \in ItemType, row[x] # "gone", ~InPurge(x),
           row' = [row EXCEPT ![x] = r], item' = [item EXCEPT ![x] = i],
           r = "live" <=> i = NoItem,
           i # NoItem => i.status = "trashed" /\ i.plan = NoPlan,
           op' \in OpType, InOperation'
    PROVE  TrashInv' /\ PurgeGoesForward
<1>1. TrashTypes /\ PlansFit /\ Tombstones /\ Usable /\ Named /\ Tree
  BY DEF TrashInv
<1>2. /\ row'[x] = r /\ item'[x] = i
      /\ \A y \in Entities \ {x} : row'[y] = row[y] /\ item'[y] = item[y]
  BY <1>1 DEF TrashTypes
<1>3. TrashTypes'
  BY <1>1 DEF TrashTypes
<1>4. \A y \in Entities : /\ InPurge(y) <=> InPurge(y)'
                          /\ InPurge(y) => y # x
                          /\ row'[y] = "gone" <=> row[y] = "gone"
  BY <1>2 DEF InPurge
<1>5. \A y \in Children : CourseOf[y] \in Entities /\ y \in Entities
  BY TrashAssumption DEF Entities
<1>6. PlansFit'
  <2> SUFFICES ASSUME NEW y \in Entities, item'[y] # NoItem, item'[y].plan # NoPlan
               PROVE  PlanFits(y, item'[y].plan, row', files')
    BY DEF PlansFit, Planned
  <2>1. y # x /\ item'[y] = item[y]
    BY <1>2
  <2>2. PlanFits(y, item[y].plan, row, files)
    BY <1>1, <2>1 DEF PlansFit, Planned
  <2>3. \A z \in Entities : row[z] = "gone" => row'[z] = "gone"
    BY <1>4
  <2>4. PlanFits(y, item[y].plan, row', files')
    BY <2>2, <2>3, PlanKept
  <2> QED BY <2>1, <2>4
<1>7. Tombstones'
  <2> SUFFICES ASSUME NEW y \in Entities
               PROVE  /\ row'[y] = "trashed" => item'[y] # NoItem
                      /\ row'[y] = "live" => item'[y] = NoItem
                      /\ row'[y] = "gone" /\ item'[y] # NoItem =>
                            InPurge(y)' /\ (y \in Journaled => item'[y].plan # NoPlan)
    BY DEF Tombstones
  <2>1. CASE y = x
    BY <1>2, <2>1
  <2>2. CASE y # x
    BY <1>1, <1>2, <1>4, <2>2 DEF Tombstones
  <2> QED BY <2>1, <2>2
<1>8. Usable'
  <2> SUFFICES ASSUME NEW y \in Owners, row'[y] # "gone", ~Purged(y)'
               PROVE  FilesOf[y] \subseteq files /\ y \in projected
    BY DEF Usable
  <2>1. y \in Children
    BY DEF Children
  <2> QED BY <1>1, <1>4, <1>5, <2>1 DEF Usable, Purged
<1>9. Named'
  <2> SUFFICES ASSUME NEW y \in Owners, row'[y] = "gone", NEW f \in FilesOf[y] \cap files
               PROVE  \E z \in Journals(y)' : f \in item'[z].plan.artifacts
    BY DEF Named
  <2>1. y \in Children
    BY DEF Children
  <2>2. PICK z \in Journals(y) : f \in item[z].plan.artifacts
    BY <1>1, <1>4, <1>5, <2>1 DEF Named
  <2>3. z \in {y, CourseOf[y]} /\ InPurge(z) /\ item[z].plan # NoPlan /\ z \in Entities
    BY <1>5, <2>1, <2>2 DEF Journals
  <2>4. item'[z] = item[z] /\ InPurge(z)'
    BY <1>2, <1>4, <2>3
  <2> QED BY <2>2, <2>3, <2>4 DEF Journals
<1>10. Tree'
  BY <1>1, <1>4, <1>5 DEF Tree
<1>11. PurgeGoesForward
  <2> SUFFICES ASSUME NEW y \in Entities, InPurge(y)
               PROVE  /\ item'[y] # NoItem /\ InPurge(y)'
                      /\ item[y].plan # NoPlan =>
                            /\ item'[y].plan # NoPlan
                            /\ item'[y].plan.artifacts = item[y].plan.artifacts
                            /\ Rank(y, item'[y].plan.phase) >= Rank(y, item[y].plan.phase)
    BY DEF PurgeGoesForward
  <2>1. item'[y] = item[y] /\ InPurge(y)' /\ item[y] # NoItem
    BY <1>2, <1>4 DEF InPurge
  <2>2. item[y].plan # NoPlan => Rank(y, item[y].plan.phase) \in Nat
    BY <1>1, <2>1, RankInNat DEF PlansFit, Planned
  <2> QED BY <2>1, <2>2
<1> QED BY <1>3, <1>6, <1>7, <1>8, <1>9, <1>10, <1>11 DEF TrashInv

LEMMA MoveStep ==
    ASSUME TrashInv, NEW x \in Entities, MoveToTrash(x) PROVE TrashInv' /\ PurgeGoesForward
<1> DEFINE i == [status |-> "trashed", plan |-> NoPlan]
<1>1. /\ TrashTypes /\ Tombstones /\ UNCHANGED <<files, projected>> /\ op' = Free
      /\ row[x] = "live" /\ row' = [row EXCEPT ![x] = "trashed"] /\ item' = [item EXCEPT ![x] = i]
  BY DEF TrashInv, MoveToTrash, Live
<1>2. i \in ItemType /\ i # NoItem /\ i.status = "trashed" /\ i.plan = NoPlan
  <2>1. i \in [status : TrashItemStatus, plan : {NoPlan} \cup PlanRow]
    BY DEF TrashItemStatus
  <2> QED BY <2>1, TrashAssumption DEF ItemType, PlanType
<1>3. ~InPurge(x)
  BY <1>1 DEF Tombstones, InPurge
<1>4. op' \in OpType /\ InOperation'
  BY <1>1 DEF OpType, Free, InOperation
<1> HIDE DEF i
<1> QED BY <1>1, <1>2, <1>3, <1>4, RowStep

LEMMA RestoreRowStep == ASSUME TrashInv, RestoreRow PROVE TrashInv' /\ PurgeGoesForward
<1>1. /\ TrashTypes /\ InOperation /\ UNCHANGED <<files, projected>>
      /\ op \in OpType /\ op.kind = "restore" /\ op.at = "row" /\ row[op.of] = "trashed"
      /\ row' = [row EXCEPT ![op.of] = "live"] /\ item' = [item EXCEPT ![op.of] = NoItem]
  BY DEF TrashInv, TrashTypes, RestoreRow, Restorable, InStep
<1>2. PICK at \in {"sync", "finalize"} : Goto(at) /\ (at = "sync" => op.of \in Journaled)
  BY DEF RestoreRow, Journaled
<1>3. /\ op' \in OpType /\ op'.kind = "restore" /\ op'.of = op.of /\ op'.at = at
      /\ op.of \in Entities
  BY <1>1, <1>2, OpGoes DEF Goto, Places
<1>4. ~InPurge(op.of)
  BY <1>1 DEF InOperation, InPurge
<1>5. row'[op.of] = "live"
  BY <1>1, <1>3 DEF TrashTypes
<1>6. InOperation'
  BY <1>2, <1>3, <1>5 DEF InOperation
<1>7. NoItem \in ItemType
  BY DEF ItemType
<1> QED BY <1>1, <1>3, <1>4, <1>6, <1>7, RowStep

\* The lock is released: the tombstone of what a purge removed goes with it.
LEMMA FinalizeStep == ASSUME TrashInv, Finalize PROVE TrashInv' /\ PurgeGoesForward
<1>1. /\ TrashTypes /\ InOperation /\ Tombstones /\ Tree /\ UNCHANGED <<row, files, projected>>
      /\ op.at = "finalize" /\ item' = [item EXCEPT ![op.of] = NoItem] /\ op' = Free
  BY DEF TrashInv, Finalize
<1>2. op.of \in Entities /\ op.kind \in {"restore", "purge"}
  BY <1>1 DEF TrashTypes, OpType, Free
<1>3. op' \in OpType /\ InOperation'
  BY <1>1 DEF OpType, Free, InOperation
<1>4. item' \in [Entities -> ItemType]
  BY <1>1 DEF TrashTypes, ItemType
<1>5. \A y \in Entities : item'[y] = IF y = op.of THEN NoItem ELSE item[y]
  BY <1>1 DEF TrashTypes
<1>6. op.kind = "restore" => item[op.of] = NoItem
  BY <1>1, <1>2 DEF InOperation, Tombstones
<1>7. op.kind = "purge" => row[op.of] = "gone" /\ (Planned(op.of) => Plan.artifacts \cap files = {})
  BY <1>1 DEF InOperation
<1>8. Named'
  <2>1. \A y \in Entities :
           item'[y] = item[y] \/ (Planned(y) => item[y].plan.artifacts \cap files' = {})
    BY <1>1, <1>2, <1>5, <1>6, <1>7 DEF Plan
  <2> QED BY <1>1, <2>1, NamedKept
<1>9. Tree'
  BY <1>1 DEF Tree
<1>10. row' = [y \in Entities |-> IF y \in {} THEN "gone" ELSE row[y]]
  BY <1>1 DEF TrashTypes
<1>11. \A y \in Entities : item'[y] = item[y] \/ (item'[y] = NoItem /\ row'[y] = "gone")
  BY <1>1, <1>2, <1>5, <1>6, <1>7
<1>12. \A y \in Entities \cap {} : item'[y] # NoItem =>
          InPurge(y) /\ (y \in Journaled => item[y].plan # NoPlan)
  OBVIOUS
<1> QED BY <1>1, <1>3, <1>4, <1>8, <1>9, <1>10, <1>11, <1>12, GoneStep

----------------------------------------------------------------------------
(* Every step keeps what the Trash promises.                               *)

\* Any step of the Trash, whatever fails and wherever the process stops.
LEMMA TrashStep == ASSUME TrashInv, TrashNext PROVE TrashInv' /\ PurgeGoesForward
<1>1. CASE \E x \in Entities : MoveToTrash(x)
  BY <1>1, MoveStep
<1>2. CASE \E x \in Entities, kind \in {"restore", "purge"} : Claim(x, kind)
  BY <1>2, ClaimStep
<1>3. CASE RestoreRow
  BY <1>3, RestoreRowStep
<1>4. CASE RestoreSync \/ PurgeProjection \/ \E x \in Children : DropChildProjection(x)
  BY <1>4, ProjectionStep
<1>5. CASE Prepare
  BY <1>5, PrepareStep
<1>6. CASE PurgePage \/ \E x \in Children : DropPage(x)
  BY <1>6, PageStep
<1>7. CASE \/ CheckChildren \/ PhasesDone
           \/ \E step \in {"conversations", "documents", "assets", "jobs", "topics"} :
                 ChildrenGone(step)
  BY <1>7, CheckStep
<1>8. CASE BeginUnlink
  BY <1>8, BeginUnlinkStep
<1>9. CASE Unlink
  BY <1>9, UnlinkStep
<1>10. CASE PurgeRecords
  BY <1>10, RecordsStep
<1>11. CASE DropOwner
  BY <1>11, DropOwnerStep
<1>12. CASE PurgeCourseRecord
  BY <1>12, CourseStep
<1>13. CASE MarkPhase
  BY <1>13, MarkStep
<1>14. CASE Finalize
  BY <1>14, FinalizeStep
<1>15. CASE Raises
  BY <1>15, RaisesStep
<1>16. CASE \E saved \in BOOLEAN : MarkFailed(saved)
  BY <1>16, MarkFailedStep
<1>17. CASE RestartTrash
  BY <1>17, RestartStep
<1> QED BY <1>1, <1>2, <1>3, <1>4, <1>5, <1>6, <1>7, <1>8, <1>9, <1>10, <1>11, <1>12, <1>13,
           <1>14, <1>15, <1>16, <1>17 DEF TrashNext, RestoreStep, PurgeStep, PhaseStep

LEMMA TrashStutters ==
    ASSUME TrashInv, UNCHANGED trashVars PROVE TrashInv'
<1>1. UNCHANGED <<row, item, files, projected, op, faults>>
  BY DEF trashVars
<1>2. TrashTypes' /\ PlansFit' /\ Tombstones' /\ Usable' /\ Named' /\ Tree'
  BY <1>1 DEF TrashInv, TrashTypes, PlansFit, Planned, Tombstones, InPurge, Usable, Purged,
              Named, Journals, Tree
<1>3. InOperation'
  BY <1>1, SameView DEF TrashInv, InOperation
<1> QED BY <1>2, <1>3 DEF TrashInv

LEMMA TrashIsSound == ASSUME TrashInv PROVE TrashSound
BY DEF TrashInv, Usable, Tombstones, Named, Tree, TrashSound

----------------------------------------------------------------------------
(***************************************************************************)
(* Sets of numbers.                                                        *)
(***************************************************************************)

\* A set of numbers that is not empty has a least element.
LEMMA LeastOf ==
    ASSUME NEW T \in SUBSET Nat, T # {}
    PROVE  \E x \in T : \A y \in T : x <= y
<1> DEFINE Less == OpToRel(<, Nat)
<1>0. IsWellFoundedOn(Less, Nat)
  BY NatLessThanWellFounded
<1>1. \E x \in T : \A y \in T : <<y, x>> \notin Less
  <2> HIDE DEF Less
  <2> QED BY <1>0, WFMin
<1>2. \A x, y \in Nat : <<y, x>> \notin Less => x <= y
  BY DEF OpToRel
<1> QED BY <1>1, <1>2

\* Induction, over a set of numbers.
LEMMA AllNumbers ==
    ASSUME NEW T \in SUBSET Nat, 0 \in T, \A n \in T : n + 1 \in T
    PROVE  \A n \in Nat : n \in T
<1>1. SUFFICES ASSUME Nat \ T # {} PROVE FALSE
  OBVIOUS
<1>2. PICK x \in Nat \ T : \A y \in Nat \ T : x <= y
  BY <1>1, LeastOf
<1>3. x # 0 /\ x - 1 \in Nat /\ ~(x <= x - 1) /\ x = (x - 1) + 1
  BY <1>2
<1>4. x - 1 \in T
  BY <1>2, <1>3
<1> QED BY <1>2, <1>3, <1>4

----------------------------------------------------------------------------
(***************************************************************************)
(* Episodes.  What is about to be performed was permitted and leaves the   *)
(* budget its room; a verifier that was asked has settled the need or left *)
(* it partial; evidence was found under a Concept that was retrieved, or   *)
(* by a search over all of them.                                           *)
(***************************************************************************)
Calls == Retrievals \cup {"verify"}
ConceptActs == [kind : {"concept"}, exclude : SUBSET Ideas]
EvidenceActs == [kind : {"evidence"}, scope : SUBSET Ideas, exclude : SUBSET Proofs]
ExpandActs == [kind : {"expand"}, anchors : SUBSET Ideas, way : {"incoming", "both"},
               exclude : SUBSET Arcs]
VerifyActs == [kind : {"verify"}, proofs : SUBSET Proofs]
Acts == ConceptActs \cup EvidenceActs \cup ExpandActs \cup VerifyActs \cup {Reply, Abstain}
NeedStatuses == {"unresolved", "partially_supported", "supported", "contradicted", "unresolvable"}
Memos == [status : NeedStatuses, support : SUBSET Proofs, about : SUBSET Ideas,
          ideas : SUBSET Ideas, proofs : SUBSET Proofs, verified : SUBSET Proofs,
          arcs : SUBSET Arcs, tried : SUBSET Acts, idle : Nat, step : Nat, late : BOOLEAN,
          calls : [Calls -> Nat]]

SearchedAll(m) == \E a \in m.tried : a.kind = "evidence" /\ a.scope = {}

MemoInv(m) ==
    /\ m \in Memos
    /\ m.step <= budget.steps /\ Retrieved(m) <= budget.retrievals
    /\ \A k \in Calls : m.calls[k] <= budget[k]
    /\ Cardinality(m.ideas) <= budget.ideas /\ Cardinality(m.proofs) <= budget.proofs
    /\ m.idle <= budget.idle
    /\ m.about \subseteq m.ideas /\ m.support \subseteq m.verified /\ m.verified \subseteq m.proofs
    /\ (\E a \in m.tried : a.kind = "verify") => m.status # "unresolved"
    /\ \A e \in m.proofs : IdeaOf[e] \in m.ideas \/ SearchedAll(m)

GoesOn == ending = Running =>
    /\ memo.idle < budget.idle /\ ~memo.late
    /\ Reply \notin memo.tried /\ Abstain \notin memo.tried
    /\ todo # NoTodo => Permitted(todo) /\ ~Overdraws(todo)

EpisodeInv ==
    /\ agent.policy \in Policies /\ budget \in Budgets
    /\ MemoInv(memo) /\ todo \in Acts \cup {NoTodo}
    /\ GoesOn /\ AnsweredOnProof /\ EndedForCause

LEMMA ActKinds ==
    ASSUME NEW a \in Acts
    PROVE  /\ a.kind \in Calls \cup {"answer", "abstain"}
           /\ a.kind = "concept" => a \in ConceptActs
           /\ a.kind = "evidence" => a \in EvidenceActs
           /\ a.kind = "expand" => a \in ExpandActs
           /\ a.kind = "verify" => a \in VerifyActs
           /\ a.kind = "answer" => a = Reply
           /\ a.kind = "abstain" => a = Abstain
           /\ a # NoTodo
BY DEF Acts, ConceptActs, EvidenceActs, ExpandActs, VerifyActs, Reply, Abstain, NoTodo, Calls, Retrievals

LEMMA Endings ==
    ASSUME NEW why, NEW fault
    PROVE  /\ EndedAs(why).why = why /\ EndedAs(why).cites = {} /\ EndedAs(why).fault = "none"
           /\ FaultyEnd(why, fault).why = why /\ FaultyEnd(why, fault).cites = {}
           /\ FaultyEnd(why, fault).fault = fault
           /\ Running.why = "running" /\ Running.cites = {} /\ Running.fault = "none"
BY DEF EndedAs, FaultyEnd, Running

\* The first rule that holds decides.
LEMMA FirstRule ==
    ASSUME NEW rules, NEW n \in Nat, DOMAIN rules = 1 .. n, n > 0, rules[n].when
    PROVE  \E i \in 1 .. n : /\ rules[i].when /\ FirstOf(rules) = rules[i].pick
                             /\ \A j \in 1 .. n : j < i => ~rules[j].when
<1> DEFINE T == {i \in DOMAIN rules : rules[i].when}
<1>1. T \in SUBSET Nat /\ n \in T
  OBVIOUS
<1>2. \E x \in T : \A y \in T : x <= y
  <2> HIDE DEF T
  <2> QED BY <1>1, LeastOf
<1>3. Min(T) \in T /\ \A y \in T : Min(T) <= y
  <2> HIDE DEF T
  <2> QED BY <1>2 DEF Min
<1>4. FirstOf(rules) = rules[Min(T)].pick
  BY DEF FirstOf
<1> DEFINE i == Min(T)
<1> HIDE DEF i
<1>5. i \in T /\ \A y \in T : i <= y
  BY <1>3 DEF i
<1>6. i \in 1 .. n /\ rules[i].when
  BY <1>5
<1>7. \A j \in 1 .. n : j < i => ~rules[j].when
  <2>1. ASSUME NEW j \in 1 .. n, j < i, rules[j].when PROVE FALSE
    <3>1. j \in T
      BY <2>1
    <3> QED BY <1>5, <1>6, <2>1, <3>1
  <2> QED BY <2>1
<1> QED BY <1>4, <1>6, <1>7 DEF i

\* What the rules of the code pick from, in a state that goes on.
LEMMA RulePicks ==
    ASSUME EpisodeInv, ending = Running
    PROVE  /\ Abstain \in Acts /\ Permitted(Abstain)
           /\ Reply \in Acts /\ (memo.status = "supported" => Permitted(Reply))
           /\ SearchIdeas(memo) \in Acts
           /\ Untried(SearchIdeas(memo)) => Permitted(SearchIdeas(memo))
           /\ SearchProofs(memo) \in Acts
           /\ Untried(SearchProofs(memo)) => Permitted(SearchProofs(memo))
           /\ CheckProofs(memo) \in VerifyActs /\ CheckProofs(memo) \in Acts
           /\ Untried(CheckProofs(memo)) => Permitted(CheckProofs(memo))
           /\ \A anchors, way : anchors \subseteq memo.ideas /\ way \in {"incoming", "both"} =>
                LET a == ExpandFrom(anchors, way, memo) IN
                a \in Acts /\ (Untried(a) => Permitted(a))
<1>1. /\ memo.ideas \subseteq Ideas /\ memo.proofs \subseteq Proofs /\ memo.arcs \subseteq Arcs
      /\ memo.verified \subseteq memo.proofs
      /\ Reply \notin memo.tried /\ Abstain \notin memo.tried
  BY DEF EpisodeInv, MemoInv, Memos, GoesOn
<1>2. Abstain \in Acts /\ Permitted(Abstain)
  BY <1>1 DEF Acts, Permitted, Untried, Abstain
<1>3. Reply \in Acts /\ (memo.status = "supported" => Permitted(Reply))
  BY <1>1 DEF Acts, Permitted, Untried, Reply
<1>4. /\ SearchIdeas(memo) \in Acts
      /\ Untried(SearchIdeas(memo)) => Permitted(SearchIdeas(memo))
  BY <1>1 DEF Acts, ConceptActs, Permitted, SearchIdeas
<1>5. /\ SearchProofs(memo) \in Acts
      /\ Untried(SearchProofs(memo)) => Permitted(SearchProofs(memo))
  BY <1>1 DEF Acts, EvidenceActs, Permitted, SearchProofs
<1>6. /\ CheckProofs(memo) \in VerifyActs /\ CheckProofs(memo) \in Acts
      /\ Untried(CheckProofs(memo)) => Permitted(CheckProofs(memo))
  BY <1>1 DEF Acts, VerifyActs, Permitted, CheckProofs, Unverified
<1>7. ASSUME NEW anchors, NEW way, anchors \subseteq memo.ideas, way \in {"incoming", "both"}
      PROVE  LET a == ExpandFrom(anchors, way, memo) IN
             a \in Acts /\ (Untried(a) => Permitted(a))
  BY <1>1, <1>7 DEF Acts, ExpandActs, Permitted, ExpandFrom
<1> QED BY <1>2, <1>3, <1>4, <1>5, <1>6, <1>7

\* A pick the runner lets through, or the verification asked in vain.
GoodPick(a) ==
    /\ a \in Acts
    /\ agent.policy # "brought" =>
          \/ Permitted(a)
          \/ /\ agent.policy = "evidence_gap" /\ a.kind = "verify" /\ a \in memo.tried
             /\ memo.status = "partially_supported"

LEMMA IfUntriedPermitted ==
    ASSUME EpisodeInv, ending = Running, NEW a \in Acts, Untried(a) => Permitted(a)
    PROVE  IfUntried(a) \in Acts /\ Permitted(IfUntried(a))
BY RulePicks DEF IfUntried

LEMMA RuleWhen ==
    ASSUME NEW rule, NEW when, NEW pick, rule = Rule(when, pick)
    PROVE  rule.when <=> when
<1>1. rule.when = when
  BY Zenon DEF Rule
<1> QED BY <1>1, Zenon

LEMMA FixedPick ==
    ASSUME EpisodeInv, ending = Running, NEW withGraph
    PROVE  LET a == FirstOf(FixedRules(withGraph)) IN a \in Acts /\ Permitted(a)
<1> DEFINE rules == FixedRules(withGraph)
<1>1. DOMAIN rules = 1 .. 10 /\ rules[10].when
  BY DEF FixedRules, Settled, Rule
<1>2. rules[2].when => memo.status = "supported"
  <2>1. rules[2] = Rule(memo.status = "supported", Reply)
    BY DEF FixedRules, Settled
  <2> HIDE DEF rules
  <2> QED BY <2>1, RuleWhen
<1>3. /\ rules[1].pick = Abstain /\ rules[2].pick = Reply /\ rules[3].pick = Abstain
      /\ rules[4].pick = Abstain /\ rules[5].pick = IfUntried(SearchIdeas(memo))
      /\ rules[6].pick = IfUntried(ExpandFrom(memo.ideas, "both", memo))
      /\ rules[7].pick = Abstain /\ rules[8].pick = IfUntried(SearchProofs(memo))
      /\ rules[9].pick = IfUntried(CheckProofs(memo)) /\ rules[10].pick = Abstain
  BY DEF FixedRules, Settled, Rule
<1> HIDE DEF rules
<1>4. PICK i \in 1 .. 10 : rules[i].when /\ FirstOf(rules) = rules[i].pick
  <2>1. 10 \in Nat /\ 10 > 0
    OBVIOUS
  <2> QED BY <1>1, <2>1, FirstRule
<1>5. /\ IfUntried(SearchIdeas(memo)) \in Acts /\ Permitted(IfUntried(SearchIdeas(memo)))
      /\ IfUntried(SearchProofs(memo)) \in Acts /\ Permitted(IfUntried(SearchProofs(memo)))
      /\ IfUntried(CheckProofs(memo)) \in Acts /\ Permitted(IfUntried(CheckProofs(memo)))
  BY RulePicks, IfUntriedPermitted
<1>6. LET a == IfUntried(ExpandFrom(memo.ideas, "both", memo)) IN a \in Acts /\ Permitted(a)
  <2> DEFINE a == ExpandFrom(memo.ideas, "both", memo)
  <2>1. a \in Acts /\ (Untried(a) => Permitted(a))
    BY RulePicks
  <2> HIDE DEF a
  <2>2. IfUntried(a) \in Acts /\ Permitted(IfUntried(a))
    BY <2>1, IfUntriedPermitted
  <2> QED BY <2>2 DEF a
<1>7. i \in {1, 2, 3, 4, 5, 6, 7, 8, 9, 10}
  OBVIOUS
<1>8. rules[i].pick \in Acts /\ Permitted(rules[i].pick)
  BY <1>2, <1>3, <1>4, <1>5, <1>6, <1>7, RulePicks
<1> QED BY <1>4, <1>8 DEF rules

LEMMA GapPick ==
    ASSUME EpisodeInv, ending = Running, agent.policy = "evidence_gap"
    PROVE  GoodPick(FirstOf(GapRules))
<1> DEFINE relational == agent.need \in {"prerequisite", "relation"}
           anchors == IF memo.about # {} THEN memo.about ELSE memo.ideas
           way == IF agent.need = "prerequisite" THEN "incoming" ELSE "both"
           expand == ExpandFrom(anchors, way, memo)
           rules == GapRules
<1>1. DOMAIN rules = 1 .. 11 /\ rules[11].when
  BY DEF GapRules, Settled, Rule
<1>2. /\ memo.status \in {"contradicted", "unresolvable"} => rules[1].when
      /\ memo.status = "supported" => rules[2].when
      /\ rules[2].when => memo.status = "supported"
      /\ rules[5].when => Untried(expand)
      /\ rules[7].when => Untried(SearchIdeas(memo))
  <2> DEFINE expandDue == relational /\ anchors # {} /\ memo.calls["expand"] = 0
             conceptDue == memo.status = "unresolved"
                           /\ IF relational THEN anchors = {} ELSE memo.ideas = {}
  <2>1. /\ rules[1] = Rule(memo.status \in {"contradicted", "unresolvable"}, Abstain)
        /\ rules[2] = Rule(memo.status = "supported", Reply)
    BY DEF GapRules, Settled
  <2>2. rules[5] = Rule(expandDue /\ CanCall("expand") /\ Untried(expand), expand)
    BY DEF GapRules, Settled
  <2>3. rules[7] = Rule(conceptDue /\ CanCall("concept") /\ Untried(SearchIdeas(memo)),
                        SearchIdeas(memo))
    BY DEF GapRules, Settled
  <2> HIDE DEF rules, expand, expandDue, conceptDue, relational, anchors
  <2> QED BY <2>1, <2>2, <2>3, RuleWhen
<1>3. /\ rules[1].pick = Abstain /\ rules[2].pick = Reply /\ rules[3].pick = Abstain
      /\ rules[4].pick \in {CheckProofs(memo), Abstain}
      /\ rules[5].pick = expand /\ rules[6].pick = Abstain
      /\ rules[7].pick = SearchIdeas(memo) /\ rules[8].pick = Abstain
      /\ rules[9].pick = IfUntried(SearchProofs(memo))
      /\ rules[10].pick = CheckProofs(memo) /\ rules[11].pick = Abstain
  BY DEF GapRules, Settled, Rule
<1>4. expand \in Acts /\ (Untried(expand) => Permitted(expand))
  <2>1. anchors \subseteq memo.ideas /\ way \in {"incoming", "both"}
    BY DEF EpisodeInv, MemoInv
  <2> HIDE DEF anchors, way
  <2> QED BY <2>1, RulePicks
<1> HIDE DEF rules, expand
<1>5. PICK i \in 1 .. 11 : /\ rules[i].when /\ FirstOf(rules) = rules[i].pick
                           /\ \A j \in 1 .. 11 : j < i => ~rules[j].when
  <2>1. 11 \in Nat /\ 11 > 0
    OBVIOUS
  <2> QED BY <1>1, <2>1, FirstRule
<1>6. IfUntried(SearchProofs(memo)) \in Acts /\ Permitted(IfUntried(SearchProofs(memo)))
  BY RulePicks, IfUntriedPermitted
<1>7. i \in {1, 2, 3, 4, 5, 6, 7, 8, 9, 10, 11}
  OBVIOUS
<1>8. CASE rules[i].pick = CheckProofs(memo) /\ i > 2
  <2>1. ~rules[1].when /\ ~rules[2].when
    BY <1>5, <1>8
  <2>2. memo.status \in {"unresolved", "partially_supported"}
    BY <1>2, <2>1 DEF EpisodeInv, MemoInv, Memos, NeedStatuses
  <2>3. CheckProofs(memo).kind = "verify" /\ CheckProofs(memo) \in Acts
    BY RulePicks DEF CheckProofs
  <2>4. CheckProofs(memo) \in memo.tried => memo.status = "partially_supported"
    BY <2>2, <2>3 DEF EpisodeInv, MemoInv
  <2>5. CheckProofs(memo) \notin memo.tried => Permitted(CheckProofs(memo))
    BY RulePicks DEF Untried
  <2>6. GoodPick(CheckProofs(memo))
    BY <2>3, <2>4, <2>5 DEF GoodPick
  <2> QED BY <1>5, <1>8, <2>6 DEF rules
<1>9. CASE ~(rules[i].pick = CheckProofs(memo) /\ i > 2)
  <2>1. rules[i].pick \in Acts /\ Permitted(rules[i].pick)
    BY <1>2, <1>3, <1>4, <1>5, <1>6, <1>7, <1>9, RulePicks
  <2> QED BY <1>5, <2>1 DEF GoodPick, rules
<1> QED BY <1>8, <1>9

LEMMA PickGood ==
    ASSUME EpisodeInv, ending = Running, NEW a \in Picks
    PROVE  GoodPick(a)
<1>1. CASE agent.policy = "fixed_dense"
  <2>1. a = FirstOf(FixedRules(FALSE))
    BY <1>1 DEF Picks
  <2> QED BY <2>1, FixedPick DEF GoodPick
<1>2. CASE agent.policy = "fixed_dense_typed_graph"
  <2>1. a = FirstOf(FixedRules(TRUE))
    BY <1>2 DEF Picks
  <2> QED BY <2>1, FixedPick DEF GoodPick
<1>3. CASE agent.policy = "evidence_gap"
  <2>1. a = FirstOf(GapRules)
    BY <1>3 DEF Picks
  <2> QED BY <1>3, <2>1, GapPick
<1>4. CASE agent.policy = "brought"
  <2>1. memo.ideas \subseteq Ideas /\ memo.proofs \subseteq Proofs /\ memo.arcs \subseteq Arcs
    BY DEF EpisodeInv, MemoInv, Memos
  <2>2. a \in {Reply, Abstain}
                  \cup [kind : {"concept"}, exclude : {{}, memo.ideas}]
                  \cup [kind : {"evidence"}, scope : SUBSET Ideas, exclude : {memo.proofs}]
                  \cup [kind : {"expand"}, anchors : (SUBSET Ideas) \ {{}}, way : {"both"},
                        exclude : {memo.arcs}]
                  \cup [kind : {"verify"}, proofs : (SUBSET Proofs) \ {{}}]
    BY <1>4 DEF Picks
  <2>3. a \in Acts
    BY <2>1, <2>2 DEF Acts, ConceptActs, EvidenceActs, ExpandActs, VerifyActs
  <2> QED BY <1>4, <2>3 DEF GoodPick
<1> QED BY <1>1, <1>2, <1>3, <1>4 DEF EpisodeInv, Policies

LEMMA RoomLeft ==
    ASSUME NEW S, NEW T, IsFiniteSet(S), IsFiniteSet(T), NEW n \in Nat,
           Cardinality(S) <= n, Cardinality(T \ S) <= n - Cardinality(S)
    PROVE  Cardinality(S \cup T) <= n
<1> DEFINE U == T \ S
<1>1. S \cup T = S \cup U /\ S \cap U = {}
  OBVIOUS
<1>2. IsFiniteSet(U) /\ U \in SUBSET T
  BY FS_Subset
<1>3. Cardinality(U) <= n - Cardinality(S)
  OBVIOUS
<1> HIDE DEF U
<1>4. Cardinality(S \cup U) = Cardinality(S) + Cardinality(U) - Cardinality(S \cap U)
  BY <1>2, FS_Union
<1>5. /\ Cardinality(S) \in Nat /\ Cardinality(U) \in Nat /\ Cardinality(S \cap U) = 0
  BY <1>1, <1>2, FS_CardinalityType, FS_EmptySet
<1>6. Cardinality(S \cup T) = Cardinality(S \cup U)
  BY <1>1
<1> QED BY <1>3, <1>4, <1>5, <1>6

\* What a retrieval returned is of the memory, has room and is in the scope.
SeenFits(a, seen) ==
    /\ seen.ideas \subseteq Ideas /\ seen.proofs \subseteq Proofs /\ seen.arcs \subseteq Arcs
    /\ Cardinality(memo.ideas \cup seen.ideas) <= budget.ideas
    /\ Cardinality(memo.proofs \cup seen.proofs) <= budget.proofs
    /\ \A e \in seen.proofs : \/ IdeaOf[e] \in memo.ideas
                              \/ a.kind = "evidence" /\ a.scope = {}

LEMMA ObservedFits ==
    ASSUME EpisodeInv, ending = Running, NEW a \in Acts, Permitted(a), NEW seen \in Observed(a)
    PROVE  SeenFits(a, seen)
<1> DEFINE Nil == [ideas |-> {}, proofs |-> {}, arcs |-> {}]
           roomI == budget.ideas - Cardinality(memo.ideas)
           roomP == budget.proofs - Cardinality(memo.proofs)
<1>1. /\ memo.ideas \subseteq Ideas /\ memo.proofs \subseteq Proofs
      /\ Cardinality(memo.ideas) <= budget.ideas /\ Cardinality(memo.proofs) <= budget.proofs
      /\ budget.ideas \in Nat /\ budget.proofs \in Nat
  BY DEF EpisodeInv, MemoInv, Memos, Budgets
<1>2. \A s : s \subseteq Ideas /\ Cardinality(s \ memo.ideas) <= roomI =>
              Cardinality(memo.ideas \cup s) <= budget.ideas
  <2>1. ASSUME NEW s, s \subseteq Ideas, Cardinality(s \ memo.ideas) <= roomI
        PROVE  Cardinality(memo.ideas \cup s) <= budget.ideas
    <3>1. IsFiniteSet(s) /\ IsFiniteSet(memo.ideas)
      <4>1. s \in SUBSET Ideas /\ memo.ideas \in SUBSET Ideas
        BY <1>1, <2>1
      <4> QED BY <4>1, EpisodeAssumption, FS_Subset
    <3> QED BY <1>1, <2>1, <3>1, RoomLeft
  <2> QED BY <2>1
<1>3. \A s : s \subseteq Proofs /\ Cardinality(s \ memo.proofs) <= roomP =>
              Cardinality(memo.proofs \cup s) <= budget.proofs
  <2>1. ASSUME NEW s, s \subseteq Proofs, Cardinality(s \ memo.proofs) <= roomP
        PROVE  Cardinality(memo.proofs \cup s) <= budget.proofs
    <3>1. IsFiniteSet(s) /\ IsFiniteSet(memo.proofs)
      <4>1. s \in SUBSET Proofs /\ memo.proofs \in SUBSET Proofs
        BY <1>1, <2>1
      <4> QED BY <4>1, EpisodeAssumption, FS_Subset
    <3> QED BY <1>1, <2>1, <3>1, RoomLeft
  <2> QED BY <2>1
<1>4. memo.ideas \cup {} = memo.ideas /\ memo.proofs \cup {} = memo.proofs
  OBVIOUS
<1>5. CASE a.kind = "concept"
  <2>1. PICK s \in AtMost(budget.top, Ideas \ a.exclude) :
           Cardinality(s \ memo.ideas) <= roomI /\ seen = [Nil EXCEPT !.ideas = s]
    BY <1>5 DEF Observed
  <2>2. s \subseteq Ideas
    BY DEF AtMost
  <2>3. seen.ideas = s /\ seen.proofs = {} /\ seen.arcs = {}
    BY <2>1
  <2> HIDE DEF roomI, roomP
  <2> QED BY <1>1, <1>2, <1>4, <2>1, <2>2, <2>3 DEF SeenFits
<1>6. CASE a.kind = "evidence"
  <2> DEFINE found == {e \in Proofs \ a.exclude : a.scope = {} \/ IdeaOf[e] \in a.scope}
  <2>1. PICK s \in AtMost(budget.top, found) :
           Cardinality(s \ memo.proofs) <= roomP /\ seen = [Nil EXCEPT !.proofs = s]
    BY <1>6 DEF Observed
  <2>2. s \subseteq found
    BY DEF AtMost
  <2>3. seen.ideas = {} /\ seen.proofs = s /\ seen.arcs = {}
    BY <2>1
  <2>4. a.scope \subseteq memo.ideas
    BY <1>6 DEF Permitted
  <2> HIDE DEF roomI, roomP
  <2>5. s \subseteq Proofs
    BY <2>2
  <2>6. \A e \in s : IdeaOf[e] \in memo.ideas \/ a.scope = {}
    BY <2>2, <2>4
  <2> QED BY <1>1, <1>3, <1>4, <1>6, <2>1, <2>3, <2>5, <2>6 DEF SeenFits
<1>7. CASE a.kind = "expand"
  <2>1. PICK s \in SUBSET ArcsFrom(a) :
           /\ Cardinality(FarEnds(a, s) \ memo.ideas) <= roomI
           /\ seen = [Nil EXCEPT !.arcs = s, !.ideas = FarEnds(a, s)]
    BY <1>7 DEF Observed
  <2>2. s \subseteq Arcs
    BY DEF ArcsFrom
  <2>3. FarEnds(a, s) \subseteq Ideas
    BY <2>2, EpisodeAssumption DEF FarEnds
  <2>4. seen.ideas = FarEnds(a, s) /\ seen.proofs = {} /\ seen.arcs = s
    BY <2>1
  <2> HIDE DEF roomI, roomP
  <2> QED BY <1>1, <1>2, <1>4, <2>1, <2>2, <2>3, <2>4 DEF SeenFits
<1>8. CASE a.kind \notin {"concept", "evidence", "expand"}
  <2>1. seen = Nil
    BY <1>8 DEF Observed
  <2>2. seen.ideas = {} /\ seen.proofs = {} /\ seen.arcs = {}
    BY <2>1
  <2> QED BY <1>1, <1>4, <2>2 DEF SeenFits
<1> QED BY <1>5, <1>6, <1>7, <1>8

LEMMA VerdictFits ==
    ASSUME EpisodeInv, NEW a \in Acts, Permitted(a), NEW verdict \in Verdicts(a)
    PROVE  /\ verdict.status \in NeedStatuses
           /\ verdict.support \subseteq memo.proofs
           /\ a.kind = "verify" => verdict.status # "unresolved"
<1>1. CASE a.kind # "verify"
  <2>1. verdict = [status |-> memo.status, support |-> {}]
    BY <1>1 DEF Verdicts
  <2> QED BY <1>1, <2>1 DEF EpisodeInv, MemoInv, Memos
<1>2. CASE a.kind = "verify"
  <2>1. verdict \in [status : {"supported"}, support : (SUBSET a.proofs) \ {{}}]
         \cup [status : {"partially_supported", "contradicted", "unresolvable"}, support : {{}}]
    BY <1>2 DEF Verdicts
  <2>2. a.proofs \subseteq memo.proofs
    BY <1>2 DEF Permitted
  <2> QED BY <2>1, <2>2 DEF NeedStatuses
<1> QED BY <1>1, <1>2

\* The fields of the next memory.
ReducesTo(m, a, seen, verdict, overran) ==
      /\ m.status = IF a.kind # "verify" \/ (memo.status = "supported" /\ verdict.status # "supported")
                    THEN memo.status ELSE verdict.status
      /\ m.support = IF a.kind # "verify" \/ (memo.status = "supported" /\ verdict.status # "supported")
                     THEN memo.support
                     ELSE IF memo.status = "supported"
                          THEN memo.support \cup verdict.support ELSE verdict.support
      /\ m.ideas = memo.ideas \cup seen.ideas /\ m.proofs = memo.proofs \cup seen.proofs
      /\ m.arcs = memo.arcs \cup seen.arcs /\ m.verified = memo.verified \cup verdict.support
      /\ m.tried = memo.tried \cup {a} /\ m.step = memo.step + 1 /\ m.late = overran
      /\ m.idle \in {0, memo.idle + 1}
      /\ m.calls = [k \in DOMAIN memo.calls |-> memo.calls[k] + IF a.kind = k THEN 1 ELSE 0]
      /\ \A i \in m.about : i \in memo.about \/ \E e \in verdict.support : i = IdeaOf[e]
      /\ m \in [status : {m.status}, support : {m.support}, about : {m.about},
                ideas : {m.ideas}, proofs : {m.proofs}, verified : {m.verified},
                arcs : {m.arcs}, tried : {m.tried}, idle : {m.idle}, step : {m.step},
                late : {m.late}, calls : {m.calls}]

LEMMA ReducedFields ==
    ASSUME EpisodeInv, NEW a \in Acts, NEW seen, NEW verdict, NEW overran \in BOOLEAN
    PROVE  LET m == Reduced(a, seen, verdict, overran) IN
           ReducesTo(m, a, seen, verdict, overran)
<1>1. memo = [status |-> memo.status, support |-> memo.support, about |-> memo.about,
              ideas |-> memo.ideas, proofs |-> memo.proofs, verified |-> memo.verified,
              arcs |-> memo.arcs, tried |-> memo.tried, idle |-> memo.idle, step |-> memo.step,
              late |-> memo.late, calls |-> memo.calls]
  BY DEF EpisodeInv, MemoInv, Memos
<1> DEFINE m == Reduced(a, seen, verdict, overran)
<1>2. /\ m.status = IF ~(a.kind = "verify") \/ (memo.status = "supported" /\ verdict.status # "supported")
                    THEN memo.status ELSE verdict.status
      /\ m.support = IF ~(a.kind = "verify") \/ (memo.status = "supported" /\ verdict.status # "supported")
                     THEN memo.support
                     ELSE IF memo.status = "supported"
                          THEN memo.support \cup verdict.support ELSE verdict.support
  BY <1>1 DEF Reduced
<1>3. /\ m.ideas = memo.ideas \cup seen.ideas /\ m.proofs = memo.proofs \cup seen.proofs
      /\ m.arcs = memo.arcs \cup seen.arcs /\ m.verified = memo.verified \cup verdict.support
      /\ m.tried = memo.tried \cup {a} /\ m.step = memo.step + 1 /\ m.late = overran
  BY <1>1 DEF Reduced
<1>4. m.idle \in {0, memo.idle + 1}
  BY <1>1 DEF Reduced
<1>5. m.calls = [k \in DOMAIN memo.calls |-> memo.calls[k] + IF a.kind = k THEN 1 ELSE 0]
  BY <1>1 DEF Reduced
<1>6. \A i \in m.about : i \in memo.about \/ \E e \in verdict.support : i = IdeaOf[e]
  BY <1>1 DEF Reduced
<1>7. m \in [status : {m.status}, support : {m.support}, about : {m.about},
             ideas : {m.ideas}, proofs : {m.proofs}, verified : {m.verified},
             arcs : {m.arcs}, tried : {m.tried}, idle : {m.idle}, step : {m.step},
             late : {m.late}, calls : {m.calls}]
  BY <1>1 DEF Reduced
<1> HIDE DEF m
<1> QED BY <1>2, <1>3, <1>4, <1>5, <1>6, <1>7 DEF m, ReducesTo

LEMMA Spent ==
    ASSUME EpisodeInv, NEW a \in Acts, ~Overdraws(a), NEW calls,
           calls = [k \in DOMAIN memo.calls |-> memo.calls[k] + IF a.kind = k THEN 1 ELSE 0]
    PROVE  /\ calls \in [Calls -> Nat]
           /\ \A k \in Calls : calls[k] <= budget[k]
           /\ calls["concept"] + calls["evidence"] + calls["expand"] <= budget.retrievals
<1>1. /\ memo.calls \in [Calls -> Nat] /\ budget \in Budgets
      /\ \A k \in Calls : memo.calls[k] <= budget[k]
      /\ Retrieved(memo) <= budget.retrievals
  BY DEF EpisodeInv, MemoInv, Memos
<1>2. calls \in [Calls -> Nat]
  BY <1>1
<1>3. \A k \in Calls : budget[k] \in Nat
  BY <1>1 DEF Budgets, Calls, Retrievals
<1>4. ASSUME NEW k \in Calls PROVE calls[k] <= budget[k]
  <2>1. CASE a.kind = k
    <3>1. memo.calls[k] + 1 <= budget[k]
      <4>1. /\ k \in DOMAIN memo.calls /\ memo.calls[k] \in Nat /\ budget[k] \in Nat
            /\ ~(memo.calls[k] + 1 > budget[k])
        BY <1>1, <1>3, <2>1 DEF Overdraws
      <4> QED BY <4>1
    <3> QED BY <1>1, <2>1, <3>1
  <2>2. CASE a.kind # k
    BY <1>1, <2>2
  <2> QED BY <2>1, <2>2
<1>5. calls["concept"] + calls["evidence"] + calls["expand"] <= budget.retrievals
  <2>1. /\ memo.calls["concept"] \in Nat /\ memo.calls["evidence"] \in Nat
        /\ memo.calls["expand"] \in Nat /\ budget.retrievals \in Nat
        /\ memo.calls["concept"] + memo.calls["evidence"] + memo.calls["expand"]
              <= budget.retrievals
    BY <1>1 DEF Calls, Retrievals, Retrieved, Budgets
  <2>2. /\ calls["concept"] = memo.calls["concept"] + IF a.kind = "concept" THEN 1 ELSE 0
        /\ calls["evidence"] = memo.calls["evidence"] + IF a.kind = "evidence" THEN 1 ELSE 0
        /\ calls["expand"] = memo.calls["expand"] + IF a.kind = "expand" THEN 1 ELSE 0
    BY <1>1 DEF Calls, Retrievals
  <2>3. a.kind \in Retrievals =>
          ~(memo.calls["concept"] + memo.calls["evidence"] + memo.calls["expand"] + 1
              > budget.retrievals)
    BY DEF Overdraws, Retrieved
  <2>4. CASE a.kind \in Retrievals
    BY <2>1, <2>2, <2>3, <2>4 DEF Retrievals
  <2>5. CASE a.kind \notin Retrievals
    BY <2>1, <2>2, <2>5 DEF Retrievals
  <2> QED BY <2>4, <2>5
<1> QED BY <1>2, <1>4, <1>5

LEMMA ReducedInv ==
    ASSUME EpisodeInv, ending = Running, NEW a \in Acts, Permitted(a), ~Overdraws(a),
           NEW seen \in Observed(a), NEW verdict \in Verdicts(a), NEW overran \in BOOLEAN
    PROVE  LET m == Reduced(a, seen, verdict, overran) IN
           /\ WellFormed(m) => MemoInv(m)
           /\ ~WellFormed(m) => SearchedAll(memo)
           /\ m.tried = memo.tried \cup {a} /\ m.late = overran
           /\ a.kind # "verify" => m.status = memo.status
           /\ memo.status = "supported" => m.status = "supported" /\ memo.support \subseteq m.support
<1> DEFINE m == Reduced(a, seen, verdict, overran)
<1>0. ReducesTo(m, a, seen, verdict, overran)
  BY ReducedFields
<1> HIDE DEF m
<1>1. /\ m.status = IF a.kind # "verify" \/ (memo.status = "supported" /\ verdict.status # "supported")
                    THEN memo.status ELSE verdict.status
      /\ m.support = IF a.kind # "verify" \/ (memo.status = "supported" /\ verdict.status # "supported")
                     THEN memo.support
                     ELSE IF memo.status = "supported"
                          THEN memo.support \cup verdict.support ELSE verdict.support
      /\ m.ideas = memo.ideas \cup seen.ideas /\ m.proofs = memo.proofs \cup seen.proofs
      /\ m.arcs = memo.arcs \cup seen.arcs /\ m.verified = memo.verified \cup verdict.support
      /\ m.tried = memo.tried \cup {a} /\ m.step = memo.step + 1 /\ m.late = overran
      /\ m.idle \in {0, memo.idle + 1}
      /\ m.calls = [k \in DOMAIN memo.calls |-> memo.calls[k] + IF a.kind = k THEN 1 ELSE 0]
      /\ \A i \in m.about : i \in memo.about \/ \E e \in verdict.support : i = IdeaOf[e]
      /\ m \in [status : {m.status}, support : {m.support}, about : {m.about},
                ideas : {m.ideas}, proofs : {m.proofs}, verified : {m.verified},
                arcs : {m.arcs}, tried : {m.tried}, idle : {m.idle}, step : {m.step},
                late : {m.late}, calls : {m.calls}]
  BY <1>0 DEF ReducesTo
<1> HIDE DEF m
<1>2. MemoInv(memo) /\ memo \in Memos /\ memo.idle < budget.idle /\ budget \in Budgets
  BY DEF EpisodeInv, MemoInv, GoesOn
<1>3. /\ seen.ideas \subseteq Ideas /\ seen.proofs \subseteq Proofs /\ seen.arcs \subseteq Arcs
      /\ Cardinality(memo.ideas \cup seen.ideas) <= budget.ideas
      /\ Cardinality(memo.proofs \cup seen.proofs) <= budget.proofs
      /\ \A e \in seen.proofs : IdeaOf[e] \in memo.ideas \/ (a.kind = "evidence" /\ a.scope = {})
  <2>1. SeenFits(a, seen)
    BY ObservedFits
  <2> QED BY <2>1 DEF SeenFits
<1>4. /\ verdict.status \in NeedStatuses /\ verdict.support \subseteq memo.proofs
      /\ a.kind = "verify" => verdict.status # "unresolved"
  BY VerdictFits
<1>5. /\ m.calls \in [Calls -> Nat] /\ \A k \in Calls : m.calls[k] <= budget[k]
      /\ Retrieved(m) <= budget.retrievals
  BY <1>1, Spent DEF Retrieved
<1>6. /\ m.step \in Nat /\ m.step <= budget.steps
      /\ m.idle \in Nat /\ m.idle <= budget.idle
  <2>1. /\ memo.step \in Nat /\ memo.idle \in Nat /\ budget.steps \in Nat /\ budget.idle \in Nat
        /\ ~(memo.step + 1 > budget.steps)
    BY <1>2 DEF Memos, Budgets, Overdraws
  <2> QED BY <1>1, <1>2, <2>1
<1>7. m.support \subseteq m.verified /\ m.verified \subseteq m.proofs
  BY <1>1, <1>2, <1>4 DEF MemoInv
<1>8. memo.status = "supported" => m.status = "supported" /\ memo.support \subseteq m.support
  BY <1>1
<1>9. (\E b \in m.tried : b.kind = "verify") => m.status # "unresolved"
  BY <1>1, <1>2, <1>4 DEF MemoInv
<1>10. \A e \in m.proofs : IdeaOf[e] \in m.ideas \/ SearchedAll(m)
  BY <1>1, <1>2, <1>3 DEF MemoInv, SearchedAll
<1>11. ~WellFormed(m) => SearchedAll(memo)
  <2>1. ~SearchedAll(memo) => \A e \in memo.proofs : IdeaOf[e] \in memo.ideas
    BY <1>2 DEF MemoInv
  <2>2. ~SearchedAll(memo) => m.about \subseteq m.ideas
    BY <1>1, <1>2, <1>4, <2>1 DEF MemoInv
  <2> QED BY <1>7, <2>2 DEF WellFormed
<1>12. ASSUME WellFormed(m) PROVE m \in Memos
  <2>1. /\ m.status \in NeedStatuses /\ m.support \subseteq Proofs /\ m.ideas \subseteq Ideas
        /\ m.proofs \subseteq Proofs /\ m.verified \subseteq Proofs /\ m.arcs \subseteq Arcs
        /\ m.tried \subseteq Acts /\ m.late \in BOOLEAN
    BY <1>1, <1>2, <1>3, <1>4 DEF Memos
  <2>2. m.about \subseteq Ideas
    BY <1>12, <2>1 DEF WellFormed
  <2> QED BY <1>1, <1>5, <1>6, <2>1, <2>2 DEF Memos
<1>13. WellFormed(m) => MemoInv(m)
  <2> SUFFICES ASSUME WellFormed(m) PROVE MemoInv(m)
    OBVIOUS
  <2>1. m.about \subseteq m.ideas
    BY DEF WellFormed
  <2>2. Cardinality(m.ideas) <= budget.ideas /\ Cardinality(m.proofs) <= budget.proofs
    BY <1>1, <1>3
  <2> QED BY <1>5, <1>6, <1>7, <1>9, <1>10, <1>12, <2>1, <2>2 DEF MemoInv
<1> QED BY <1>1, <1>8, <1>11, <1>13 DEF m

LEMMA PerformInv ==
    ASSUME EpisodeInv, ending = Running, todo # NoTodo, Perform
    PROVE  EpisodeInv' /\ SupportKept
<1> DEFINE a == todo
<1>1. /\ a \in Acts /\ Permitted(a) /\ ~Overdraws(a) /\ MemoInv(memo) /\ budget \in Budgets
      /\ memo.status = "supported" => memo.support \subseteq memo.support
  BY DEF EpisodeInv, GoesOn
<1>2. PICK seen \in Observed(a), verdict \in Verdicts(a), overran \in BOOLEAN,
           cites \in IF a.kind = "answer" THEN (SUBSET Proofs) \ {{}} ELSE {{}} :
         IF WellFormed(Reduced(a, seen, verdict, overran))
         THEN /\ memo' = Reduced(a, seen, verdict, overran)
              /\ ending' = AfterStep(a, Reduced(a, seen, verdict, overran), cites)
         ELSE UNCHANGED memo /\ ending' = FaultyEnd("environment_error", "unseen_concept")
  BY DEF Perform
<1>0. a.kind = "answer" => cites # {}
  OBVIOUS
<1>3. todo' = NoTodo /\ agent' = agent /\ budget' = budget
  BY DEF Perform
<1> DEFINE m == Reduced(a, seen, verdict, overran)
<1>4. /\ WellFormed(m) => MemoInv(m)
      /\ ~WellFormed(m) => SearchedAll(memo)
      /\ m.tried = memo.tried \cup {a} /\ m.late = overran
      /\ a.kind # "verify" => m.status = memo.status
      /\ memo.status = "supported" => m.status = "supported" /\ memo.support \subseteq m.support
  BY <1>1, ReducedInv
<1>5. CASE ~WellFormed(m)
  <2>1. memo' = memo /\ ending' = FaultyEnd("environment_error", "unseen_concept")
    BY <1>2, <1>5
  <2> HIDE DEF m
  <2>2. ending'.why = "environment_error" /\ ending'.fault = "unseen_concept" /\ ending' # Running
    <3>1. ending' = FaultyEnd("environment_error", "unseen_concept")
      BY <2>1
    <3>2. ending'.why = "environment_error" /\ ending'.fault = "unseen_concept"
      BY <3>1, Endings
    <3>3. Running.why = "running"
      BY Endings
    <3> QED BY <3>2, <3>3
  <2>3. MemoInv(memo)'
    BY <1>1, <1>3, <2>1 DEF MemoInv, Retrieved, SearchedAll
  <2>4. GoesOn'
    BY <2>2 DEF GoesOn
  <2>5. AnsweredOnProof' /\ EndedForCause'
    BY <1>4, <1>5, <2>1, <2>2 DEF AnsweredOnProof, EndedForCause, SearchedAll
  <2> QED BY <1>1, <1>3, <2>1, <2>3, <2>4, <2>5 DEF EpisodeInv, SupportKept
<1>6. CASE WellFormed(m)
  <2>1. memo' = m /\ ending' = AfterStep(a, m, cites)
    BY <1>2, <1>6
  <2> HIDE DEF m
  <2>2. MemoInv(memo)'
    BY <1>3, <1>4, <1>6, <2>1 DEF MemoInv, Retrieved, SearchedAll
  <2>3. a.kind \in Calls \cup {"answer", "abstain"}
    BY <1>1, ActKinds
  <2>4. /\ m.late => ending' = EndedAs("budget_exhausted")
        /\ ~m.late /\ a.kind = "answer" =>
              ending' = IF cites \subseteq m.support
                        THEN [EndedAs("answer") EXCEPT !.cites = cites]
                        ELSE FaultyEnd("environment_error", "citations")
        /\ ~m.late /\ a.kind = "abstain" => ending' = EndedAs("abstain")
        /\ ~m.late /\ a.kind \notin {"answer", "abstain"} /\ m.idle >= budget.idle =>
              ending' = EndedAs("no_progress")
        /\ ~m.late /\ a.kind \notin {"answer", "abstain"} /\ ~(m.idle >= budget.idle) =>
              ending' = Running
    BY <2>1 DEF AfterStep
  <2> DEFINE answered == [EndedAs("answer") EXCEPT !.cites = cites]
  <2>20. answered.why = "answer" /\ answered.cites = cites /\ answered.fault = "none"
    BY DEF EndedAs, Running
  <2> HIDE DEF answered
  <2>21. /\ m.late => ending'.why = "budget_exhausted" /\ ending'.fault = "none"
         /\ ~m.late /\ a.kind = "answer" /\ cites \subseteq m.support =>
               ending'.why = "answer" /\ ending'.fault = "none" /\ ending'.cites = cites
         /\ ~m.late /\ a.kind = "answer" /\ ~(cites \subseteq m.support) =>
               ending'.why = "environment_error" /\ ending'.fault = "citations"
         /\ ~m.late /\ a.kind = "abstain" =>
               ending'.why = "abstain" /\ ending'.fault = "none"
         /\ ~m.late /\ a.kind \notin {"answer", "abstain"} /\ m.idle >= budget.idle =>
               ending'.why = "no_progress" /\ ending'.fault = "none"
         /\ ~m.late /\ a.kind \notin {"answer", "abstain"} /\ ~(m.idle >= budget.idle) =>
               ending'.why = "running" /\ ending'.fault = "none"
    <3>1. ASSUME m.late PROVE ending'.why = "budget_exhausted" /\ ending'.fault = "none"
      BY <2>4, <3>1, Endings
    <3>2. ASSUME ~m.late, a.kind = "answer", cites \subseteq m.support
          PROVE  ending'.why = "answer" /\ ending'.fault = "none" /\ ending'.cites = cites
      <4>1. ending' = answered
        BY <2>4, <3>2 DEF answered
      <4> QED BY <2>20, <4>1
    <3>3. ASSUME ~m.late, a.kind = "answer", ~(cites \subseteq m.support)
          PROVE  ending'.why = "environment_error" /\ ending'.fault = "citations"
      <4>1. ending' = FaultyEnd("environment_error", "citations")
        BY <2>4, <3>3
      <4> QED BY <4>1, Endings
    <3>4. ASSUME ~m.late, a.kind = "abstain"
          PROVE  ending'.why = "abstain" /\ ending'.fault = "none"
      <4>1. ending' = EndedAs("abstain")
        BY <2>4, <3>4
      <4> QED BY <4>1, Endings
    <3>5. ASSUME ~m.late, a.kind \notin {"answer", "abstain"}, m.idle >= budget.idle
          PROVE  ending'.why = "no_progress" /\ ending'.fault = "none"
      <4>1. ending' = EndedAs("no_progress")
        BY <2>4, <3>5
      <4> QED BY <4>1, Endings
    <3>6. ASSUME ~m.late, a.kind \notin {"answer", "abstain"}, ~(m.idle >= budget.idle)
          PROVE  ending'.why = "running" /\ ending'.fault = "none"
      <4>1. ending' = Running
        BY <2>4, <3>6
      <4> QED BY <4>1, Endings
    <3> QED BY <3>1, <3>2, <3>3, <3>4, <3>5, <3>6
  <2>5. /\ ending'.fault # "unseen_concept" /\ ending'.why # "max_steps"
        /\ ending'.why # "invalid_action"
    BY <2>21
  <2>6. ending'.why = "answer" =>
           /\ ~m.late /\ a.kind = "answer" /\ cites \subseteq m.support /\ ending'.cites = cites
    BY <2>21
  <2>7. ending'.why = "no_progress" => m.idle >= budget.idle
    BY <2>21
  <2>8. ending'.why = "running" =>
           ~m.late /\ a.kind \notin {"answer", "abstain"} /\ ~(m.idle >= budget.idle)
    BY <2>21
  <2>9. /\ m.idle \in Nat /\ m.idle <= budget.idle /\ budget.idle \in Nat
        /\ m.late \in BOOLEAN /\ m.support \subseteq m.verified /\ m.verified \subseteq m.proofs
    BY <1>1, <1>4, <1>6 DEF MemoInv, Memos, Budgets
  <2>10. GoesOn'
    <3>1. ASSUME ending' = Running
          PROVE  m.idle < budget.idle /\ ~m.late /\ Reply \notin m.tried /\ Abstain \notin m.tried
      <4>0. ending'.why = "running"
        BY <3>1, Endings
      <4>1. Reply.kind = "answer" /\ Abstain.kind = "abstain"
        BY DEF Reply, Abstain
      <4>2. Reply \notin memo.tried /\ Abstain \notin memo.tried
        BY DEF EpisodeInv, GoesOn
      <4>3. Reply # a /\ Abstain # a
        BY <2>8, <4>0, <4>1
      <4>4. m.idle < budget.idle /\ ~m.late
        BY <2>8, <2>9, <4>0
      <4> QED BY <1>4, <4>2, <4>3, <4>4
    <3> QED BY <1>3, <2>1, <3>1 DEF GoesOn
  <2>11. AnsweredOnProof'
    <3> SUFFICES ASSUME ending'.why = "answer"
                 PROVE  /\ m.status = "supported" /\ ~m.late
                        /\ ending'.cites # {} /\ ending'.cites \subseteq m.support
                        /\ m.support \subseteq m.verified /\ m.verified \subseteq m.proofs
      BY <2>1 DEF AnsweredOnProof
    <3>1. m.status = "supported"
      BY <1>1, <1>4, <2>6 DEF Permitted
    <3>2. cites # {}
      BY <1>0, <2>6
    <3> QED BY <2>6, <2>9, <3>1, <3>2
  <2>12. EndedForCause'
    <3>1. m.idle >= budget.idle => m.idle = budget.idle
      BY <2>9
    <3> QED BY <1>3, <2>1, <2>5, <2>7, <3>1 DEF EndedForCause
  <2> QED BY <1>1, <1>3, <1>4, <2>1, <2>2, <2>10, <2>11, <2>12 DEF EpisodeInv, SupportKept
<1> QED BY <1>5, <1>6

LEMMA DecideInv ==
    ASSUME EpisodeInv, ending = Running, todo = NoTodo, StopUndecided \/ DecideNext
    PROVE  EpisodeInv' /\ SupportKept
<1>1. MemoInv(memo) /\ budget \in Budgets /\ agent.policy \in Policies /\ GoesOn
  BY DEF EpisodeInv
<1>2. UNCHANGED <<agent, budget, memo>>
  BY DEF StopUndecided, DecideNext
<1>3. MemoInv(memo)' /\ SupportKept
  BY <1>1, <1>2 DEF MemoInv, Retrieved, SearchedAll, SupportKept
<1>4. /\ memo.step \in Nat /\ budget.steps \in Nat /\ memo.step <= budget.steps
  BY <1>1 DEF MemoInv, Memos, Budgets
<1>5. CASE StopUndecided
  <2>1. todo' = NoTodo
    BY <1>5 DEF StopUndecided
  <2>2. \/ ending' = EndedAs("budget_exhausted")
        \/ memo.step = budget.steps /\ ending' = EndedAs("max_steps")
    BY <1>4, <1>5 DEF StopUndecided
  <2>3. /\ ending' # Running /\ ending'.why \in {"budget_exhausted", "max_steps"}
        /\ ending'.why = "max_steps" => memo.step = budget.steps
        /\ ending'.fault = "none"
    BY <2>2, Endings
  <2>4. GoesOn' /\ AnsweredOnProof' /\ EndedForCause'
    BY <1>2, <2>3 DEF GoesOn, AnsweredOnProof, EndedForCause
  <2> QED BY <1>1, <1>2, <1>3, <2>1, <2>4 DEF EpisodeInv
<1>6. CASE DecideNext
  <2>1. CASE ending' = FaultyEnd("policy_error", "decide") /\ UNCHANGED todo
    <3>1. ending'.why = "policy_error" /\ ending'.fault = "decide" /\ ending' # Running
      BY <2>1, Endings
    <3>2. GoesOn' /\ AnsweredOnProof' /\ EndedForCause'
      BY <1>2, <3>1 DEF GoesOn, AnsweredOnProof, EndedForCause
    <3> QED BY <1>1, <1>2, <1>3, <2>1, <3>2 DEF EpisodeInv
  <2>2. ASSUME NEW a \in Picks, ~Permitted(a), todo' = a, ending' = EndedAs("invalid_action")
        PROVE  EpisodeInv'
    <3>1. GoodPick(a)
      BY PickGood
    <3>2. ending'.why = "invalid_action" /\ ending'.fault = "none" /\ ending' # Running
      BY <2>2, Endings
    <3>3. GoesOn' /\ AnsweredOnProof' /\ EndedForCause'
      BY <1>2, <2>2, <3>1, <3>2 DEF GoesOn, AnsweredOnProof, EndedForCause, GoodPick
    <3> QED BY <1>1, <1>2, <1>3, <2>2, <3>1, <3>3 DEF EpisodeInv, GoodPick
  <2>3. ASSUME NEW a \in Picks, Permitted(a), todo' = a,
               \/ ending' = EndedAs("budget_exhausted")
               \/ ~Overdraws(a) /\ ending' = ending
        PROVE  EpisodeInv'
    <3>1. GoodPick(a)
      BY PickGood
    <3>2. ending'.why \in {"budget_exhausted", "running"} /\ ending'.fault = "none"
          /\ (ending' = Running => ~Overdraws(a))
      BY <2>3, Endings
    <3>3. AnsweredOnProof' /\ EndedForCause'
      BY <1>2, <3>2 DEF AnsweredOnProof, EndedForCause
    <3>4. GoesOn'
      BY <1>1, <1>2, <2>3, <3>2
         DEF GoesOn, Permitted, Overdraws, Untried, Retrieved
    <3> QED BY <1>1, <1>2, <1>3, <2>3, <3>1, <3>3, <3>4 DEF EpisodeInv, GoodPick
  <2>4. \/ ending' = FaultyEnd("policy_error", "decide") /\ UNCHANGED todo
        \/ \E a \in Picks, overran \in BOOLEAN :
             IF ~Permitted(a)
             THEN todo' = a /\ ending' = EndedAs("invalid_action")
             ELSE /\ todo' = a
                  /\ ending' = IF overran \/ Overdraws(a)
                               THEN EndedAs("budget_exhausted") ELSE ending
    BY <1>6 DEF DecideNext
  <2>5. CASE \E a \in Picks, overran \in BOOLEAN :
             IF ~Permitted(a)
             THEN todo' = a /\ ending' = EndedAs("invalid_action")
             ELSE /\ todo' = a
                  /\ ending' = IF overran \/ Overdraws(a)
                               THEN EndedAs("budget_exhausted") ELSE ending
    <3>1. PICK a \in Picks, overran \in BOOLEAN :
             IF ~Permitted(a)
             THEN todo' = a /\ ending' = EndedAs("invalid_action")
             ELSE /\ todo' = a
                  /\ ending' = IF overran \/ Overdraws(a)
                               THEN EndedAs("budget_exhausted") ELSE ending
      BY <2>5
    <3>2. CASE ~Permitted(a)
      <4>1. todo' = a /\ ending' = EndedAs("invalid_action")
        BY <3>1, <3>2
      <4> QED BY <1>3, <2>2, <3>2, <4>1
    <3>3. CASE Permitted(a)
      <4>1. /\ todo' = a
            /\ \/ ending' = EndedAs("budget_exhausted")
               \/ ~Overdraws(a) /\ ending' = ending
        BY <3>1, <3>3
      <4> QED BY <1>3, <2>3, <3>3, <4>1
    <3> QED BY <3>2, <3>3
  <2> QED BY <2>1, <2>4, <2>5
<1> QED BY <1>3, <1>5, <1>6

LEMMA EpisodeStepInv ==
    ASSUME EpisodeInv, [EpisodeNext]_episodeVars
    PROVE  EpisodeInv' /\ [SupportKept]_episodeVars
<1>1. CASE UNCHANGED episodeVars
  <2>1. /\ agent' = agent /\ budget' = budget /\ memo' = memo /\ todo' = todo
        /\ ending' = ending
    BY <1>1 DEF episodeVars
  <2>2. MemoInv(memo)'
    BY <2>1 DEF EpisodeInv, MemoInv, Retrieved, SearchedAll
  <2>3. GoesOn'
    BY <2>1 DEF EpisodeInv, GoesOn, Permitted, Overdraws, Untried, Retrieved
  <2>4. AnsweredOnProof' /\ EndedForCause'
    BY <2>1 DEF EpisodeInv, AnsweredOnProof, EndedForCause
  <2> QED BY <1>1, <2>1, <2>2, <2>3, <2>4 DEF EpisodeInv
<1>2. CASE ending = Running /\ todo = NoTodo /\ (StopUndecided \/ DecideNext)
  BY <1>2, DecideInv
<1>3. CASE ending = Running /\ todo # NoTodo /\ Perform
  BY <1>3, PerformInv
<1>4. CASE ending = Running /\ todo # NoTodo /\ PerformFails
  <2>1. /\ ending' = FaultyEnd("environment_error", "raised") /\ todo' = NoTodo
        /\ UNCHANGED <<agent, budget, memo>>
    BY <1>4 DEF PerformFails
  <2>2. ending'.why = "environment_error" /\ ending'.fault = "raised" /\ ending' # Running
    BY <2>1, Endings
  <2>3. GoesOn' /\ AnsweredOnProof' /\ EndedForCause'
    BY <2>1, <2>2 DEF GoesOn, AnsweredOnProof, EndedForCause
  <2>4. MemoInv(memo)' /\ SupportKept
    BY <1>4, <2>1 DEF EpisodeInv, MemoInv, Retrieved, SearchedAll, SupportKept
  <2> QED BY <2>1, <2>3, <2>4 DEF EpisodeInv
<1> QED BY <1>1, <1>2, <1>3, <1>4 DEF EpisodeNext

LEMMA EpisodeStart == ASSUME EpisodeInit PROVE EpisodeInv
<1>1. agent.policy \in Policies /\ budget \in Budgets
  BY EpisodeAssumption DEF EpisodeInit
<1>2. MemoInv(memo)
  <2>1. /\ memo.status = "unresolved" /\ memo.support = {} /\ memo.about = {} /\ memo.ideas = {}
        /\ memo.proofs = {} /\ memo.verified = {} /\ memo.tried = {} /\ memo.idle = 0
        /\ memo.step = 0 /\ memo.calls = [k \in Calls |-> 0]
    BY DEF EpisodeInit, Calls
  <2>2. memo \in Memos
    BY DEF EpisodeInit, Memos, NeedStatuses, Calls
  <2>3. Retrieved(memo) = 0
    BY <2>1 DEF Retrieved, Calls, Retrievals
  <2>4. Cardinality(memo.ideas) = 0 /\ Cardinality(memo.proofs) = 0
    BY <2>1, FS_EmptySet
  <2>5. /\ budget.steps \in Nat /\ budget.idle \in Nat /\ budget.retrievals \in Nat
        /\ budget.ideas \in Nat /\ budget.proofs \in Nat /\ \A k \in Calls : budget[k] \in Nat
    BY <1>1 DEF Budgets, Calls, Retrievals
  <2> QED BY <2>1, <2>2, <2>3, <2>4, <2>5 DEF MemoInv
<1>3. ending.why \in {"running", "policy_error"} /\ ending.fault \in {"none", "initialize"}
  BY Endings DEF EpisodeInit
<1>4. GoesOn
  <2>1. memo.idle = 0 /\ memo.late = FALSE /\ memo.tried = {} /\ todo = NoTodo
    BY DEF EpisodeInit
  <2>2. budget.idle \in Nat \ {0}
    BY <1>1 DEF Budgets
  <2> QED BY <2>1, <2>2 DEF GoesOn
<1>5. AnsweredOnProof /\ EndedForCause
  BY <1>3 DEF AnsweredOnProof, EndedForCause
<1> QED BY <1>1, <1>2, <1>4, <1>5 DEF EpisodeInv, EpisodeInit

LEMMA EpisodeIsSound == ASSUME EpisodeInv PROVE EpisodeSound
<1>1. DOMAIN memo.calls = Calls
  BY DEF EpisodeInv, MemoInv, Memos
<1> QED BY <1>1 DEF EpisodeInv, EpisodeSound, WithinBudget, MemoInv

----------------------------------------------------------------------------
(***************************************************************************)
(* The closure of a graph along its edges.                                 *)
(***************************************************************************)

\* A function that is given by its first value and by each next one.
LEMMA RecursionExists ==
    ASSUME NEW S, NEW a \in S, NEW F \in [S -> S]
    PROVE  \E f \in [Nat -> S] : f[0] = a /\ \A n \in Nat \ {0} : f[n] = F[f[n - 1]]
<1> DEFINE Begins(g, n) == g[0] = a /\ \A i \in 1 .. n : g[i] = F[g[i - 1]]
           Part(n) == {g \in [0 .. n -> S] : Begins(g, n)}
           Some == {n \in Nat : Part(n) # {}}
<1>1. \A n \in Nat : n \in Some
  <2>1. 0 \in Some
    <3>1. [i \in 0 .. 0 |-> a] \in Part(0)
      OBVIOUS
    <3> QED BY <3>1
  <2>2. ASSUME NEW n \in Some PROVE n + 1 \in Some
    <3>1. PICK g \in [0 .. n -> S] : Begins(g, n)
      BY <2>2
    <3> DEFINE h == [i \in 0 .. n + 1 |-> IF i = n + 1 THEN F[g[n]] ELSE g[i]]
    <3>2. h \in [0 .. n + 1 -> S]
      BY <2>2, <3>1
    <3>3. h[0] = a
      BY <2>2, <3>1
    <3>4. ASSUME NEW i \in 1 .. n + 1 PROVE h[i] = F[h[i - 1]]
      BY <2>2, <3>1, <3>4
    <3>5. h \in Part(n + 1)
      <4> HIDE DEF h
      <4> QED BY <3>2, <3>3, <3>4
    <3>6. n + 1 \in Nat /\ Part(n + 1) # {}
      <4> HIDE DEF Part
      <4> QED BY <2>2, <3>5
    <3> QED BY <3>6
  <2> HIDE DEF Some
  <2>3. Some \in SUBSET Nat
    BY DEF Some
  <2> QED BY <2>1, <2>2, <2>3, AllNumbers
<1> DEFINE best(n) == CHOOSE g : g \in Part(n)
           f == [n \in Nat |-> best(n)[n]]
<1>2. \A n \in Nat : best(n) \in Part(n)
  <2> HIDE DEF Part
  <2> QED BY <1>1
<1>3. ASSUME NEW n \in Nat, NEW m \in Nat, n <= m, NEW g \in Part(n), NEW h \in Part(m)
      PROVE  \A i \in 0 .. n : g[i] = h[i]
  <2> DEFINE Same == {i \in Nat : i <= n => g[i] = h[i]}
  <2>1. 0 \in Same
    OBVIOUS
  <2>2. ASSUME NEW i \in Same PROVE i + 1 \in Same
    <3>1. CASE i + 1 <= n
      <4>1. i + 1 \in 1 .. n /\ i + 1 \in 1 .. m /\ (i + 1) - 1 = i /\ g[i] = h[i]
        BY <1>3, <3>1
      <4>2. g[i + 1] = F[g[(i + 1) - 1]] /\ h[i + 1] = F[h[(i + 1) - 1]]
        BY <4>1
      <4> QED BY <4>1, <4>2
    <3> QED BY <3>1
  <2>3. \A i \in Nat : i \in Same
    <3>1. Same \in SUBSET Nat
      OBVIOUS
    <3> HIDE DEF Same
    <3> QED BY <2>1, <2>2, <3>1, AllNumbers
  <2> QED BY <2>3
<1>4. f \in [Nat -> S]
  <2>1. ASSUME NEW n \in Nat PROVE best(n)[n] \in S
    <3>1. best(n) \in [0 .. n -> S]
      BY <1>2
    <3> HIDE DEF best
    <3> QED BY <3>1
  <2> HIDE DEF best
  <2> QED BY <2>1
<1>5. f[0] = a
  BY <1>2
<1>6. ASSUME NEW n \in Nat, n # 0 PROVE f[n] = F[f[n - 1]]
  <2>1. n - 1 \in Nat /\ n - 1 <= n /\ n \in 1 .. n /\ n - 1 \in 0 .. n - 1
    BY <1>6
  <2>2. best(n)[n] = F[best(n)[n - 1]]
    BY <1>2, <2>1
  <2>3. best(n - 1)[n - 1] = best(n)[n - 1]
    <3>1. best(n - 1) \in Part(n - 1) /\ best(n) \in Part(n)
      BY <1>2, <2>1
    <3> HIDE DEF best, Part
    <3> QED BY <1>3, <2>1, <3>1
  <2> HIDE DEF best
  <2> QED BY <2>1, <2>2, <2>3
<1> HIDE DEF f
<1> QED BY <1>4, <1>5, <1>6

----------------------------------------------------------------------------
(***************************************************************************)
(* Directed graphs.  A relation on a finite set has a cycle exactly when   *)
(* it is not acyclic, whatever the order in which its edges are followed.  *)
(***************************************************************************)

\* The image of a finite set; one to one, it has as many elements.
LEMMA ImageFinite ==
    ASSUME NEW S, IsFiniteSet(S), NEW T, NEW f \in [S -> T], \A y \in T : \E x \in S : f[x] = y
    PROVE  /\ IsFiniteSet(T)
           /\ (\A x, y \in S : f[x] = f[y] => x = y) => Cardinality(T) = Cardinality(S)
<1>1. f \in Surjection(S, T)
  BY DEF Surjection
<1>2. (\A x, y \in S : f[x] = f[y] => x = y) => f \in Injection(S, T)
  BY DEF Injection, IsInjective
<1> QED BY <1>1, <1>2, FS_Surjection

\* Subsets of a finite set that grow, or shrink, at every step until they stay
\* as they are have done so after as many steps as it has elements.
LEMMA GrowsToRest ==
    ASSUME NEW S, IsFiniteSet(S), NEW f \in [Nat -> SUBSET S], NEW F,
           f[0] # {},
           \A n \in Nat : f[n] \subseteq f[n + 1] /\ f[n + 1] = F[f[n]]
    PROVE  F[f[Cardinality(S)]] = f[Cardinality(S)]
<1> DEFINE N == Cardinality(S)
           Done == {n \in Nat : F[f[n]] = f[n] \/ Cardinality(f[n]) >= n + 1}
<1>0. N \in Nat
  BY FS_CardinalityType
<1>1. \A n \in Nat : IsFiniteSet(f[n]) /\ Cardinality(f[n]) \in Nat /\ Cardinality(f[n]) <= N
  BY FS_Subset, FS_CardinalityType
<1>2. 0 \in Done
  <2>1. Cardinality(f[0]) # 0
    BY <1>1, FS_EmptySet
  <2> QED BY <1>1, <2>1
<1>3. ASSUME NEW n \in Done PROVE n + 1 \in Done
  <2>1. CASE f[n + 1] = f[n]
    <3>1. F[f[n + 1]] = f[n + 1]
      BY <2>1
    <3> QED BY <3>1
  <2>2. CASE f[n + 1] # f[n]
    <3>1. Cardinality(f[n]) >= n + 1
      BY <2>2
    <3>2. Cardinality(f[n]) < Cardinality(f[n + 1])
      <4>1. f[n] \in SUBSET f[n + 1] /\ f[n] # f[n + 1] /\ IsFiniteSet(f[n + 1])
        BY <1>1, <2>2
      <4>2. /\ Cardinality(f[n]) <= Cardinality(f[n + 1])
            /\ Cardinality(f[n + 1]) = Cardinality(f[n]) => f[n + 1] = f[n]
        BY <4>1, FS_Subset
      <4>3. Cardinality(f[n]) \in Nat /\ Cardinality(f[n + 1]) \in Nat
        BY <1>1
      <4>4. Cardinality(f[n]) # Cardinality(f[n + 1])
        BY <4>1, <4>2
      <4> QED BY <4>2, <4>3, <4>4
    <3> QED BY <1>1, <3>1, <3>2
  <2> QED BY <2>1, <2>2
<1>4. N \in Done
  <2>1. Done \in SUBSET Nat
    OBVIOUS
  <2> HIDE DEF Done, N
  <2> QED BY <1>0, <1>2, <1>3, <2>1, AllNumbers
<1> QED BY <1>0, <1>1, <1>4

----------------------------------------------------------------------------
(***************************************************************************)
(* The queries of a published Concept graph.  What is found at a distance  *)
(* is what that many steps reach; the queue is in the order of distances,  *)
(* so when a Concept is taken everything nearer has been found, unless a   *)
(* limit was met.  The layers and the order hold a Concept after what is   *)
(* before it, and the degrees count what is left.                          *)
(***************************************************************************)

\* The edges a query follows, and what is at most so many steps away.
Followed == IF query.kind = "path" THEN {<<e[2], e[1]>> : e \in PrerequisitesOf(graph)} ELSE Edges
Reached == Spread(Followed, {query.from})
Reachable == Reached[ConceptCount]
Leads(c) == {d \in Concepts : <<c, d>> \in Followed}

PathTypes ==
    /\ graph \subseteq AllRelations /\ Acyclic(graph) /\ query \in Queries
    /\ distance \in [Concepts -> Nat \cup {-1}]
    /\ DOMAIN parent = Concepts
    /\ queue \in Seq(Concepts)
    /\ cut \subseteq {"nodes", "hops"}
    /\ degree \in [Concepts -> Int]
    /\ layers \in Seq(SUBSET Concepts) /\ order \in Seq(Concepts)
    /\ phase \in {"search", "layers", "order", "done"}

Queued == {queue[i] : i \in DOMAIN queue}
Expanded == Found(distance) \ Queued

FoundIsReached ==
    /\ distance[query.from] = 0
    /\ Queued \subseteq Found(distance)
    /\ \A c \in Found(distance) : c \in Reached[distance[c]]
    /\ cut # {} => Reachable # {query.from}
    /\ Cardinality(Found(distance)) <= query.nodes

SearchInv ==
    /\ phase \in {"search", "done"} /\ layers = <<>> /\ order = <<>>
    /\ phase = "done" => queue = <<>> \/ Arrived
    /\ "hops" \in cut => query.kind = "trace"
    /\ \A c \in Found(distance) : distance[c] <= query.hops
    /\ \A c \in Found(distance) : distance[c] > 0 =>
          Reached[distance[c] - 1] \subseteq Found(distance) /\ c \notin Reached[distance[c] - 1]
    /\ \A i \in DOMAIN queue : \A c \in Found(distance) : distance[c] <= distance[queue[i]] + 1
    /\ \A i, j \in DOMAIN queue : i < j => distance[queue[i]] <= distance[queue[j]]
    /\ "nodes" \in cut => Full /\ Near \ Found(distance) # {}
    /\ "nodes" \notin cut => \A c \in Expanded : distance[c] < query.hops => Leads(c) \subseteq Found(distance)
    /\ query.kind = "trace" /\ cut = {} => \A c \in Expanded : Leads(c) \subseteq Found(distance)
    /\ \A c \in Found(distance) \ {query.from} :
          \E t \in UNION {Ways(r, query.mode) : r \in {s \in graph : s.type \in query.types}} :
             /\ parent[c] = <<t>> /\ t.next = c
             /\ t.at \in Found(distance) /\ distance[c] = distance[t.at] + 1

\* The edges into a Concept from what is not done yet.
Outstanding(done) == [c \in Concepts |-> Cardinality({e \in Inside : e[2] = c /\ e[1] \notin done})]
LayersFollow ==
    \A j \in DOMAIN layers : \A e \in Inside : e[2] \in layers[j] =>
       \E i \in DOMAIN layers : i < j /\ e[1] \in layers[i]
OrderFollows ==
    \A j \in DOMAIN order : \A e \in Inside : e[2] = order[j] =>
       \E i \in DOMAIN order : i < j /\ order[i] = e[1]

LearningInv ==
    /\ cut # {} => phase = "done" /\ Cardinality(Reachable) > query.nodes
    /\ \A c \in Expanded : Leads(c) \subseteq Found(distance)
    /\ phase # "search" /\ cut = {} => queue = <<>>
    /\ phase = "search" \/ cut # {} => layers = <<>> /\ order = <<>>
    /\ phase = "layers" => degree = Outstanding(Layered) /\ order = <<>>
    /\ phase = "order" => degree = Outstanding(ToSet(order))
    /\ Layered \subseteq Closure /\ ToSet(order) \subseteq Closure
    /\ phase \in {"order", "done"} /\ cut = {} => Layered = Closure
    /\ phase = "done" /\ cut = {} => ToSet(order) = Closure
    /\ LayersFollow /\ OrderFollows
    /\ \A i, j \in DOMAIN order : order[i] = order[j] => i = j

PathInv ==
    /\ PathTypes /\ FoundIsReached
    /\ query.kind # "path" => SearchInv
    /\ query.kind = "path" => LearningInv

\* What spreads along edges: it grows, every step follows the edges, and after
\* as many steps as there are Concepts nothing more is reached.
LEMMA SpreadFacts ==
    ASSUME NEW edges \in SUBSET (Concepts \X Concepts), NEW roots \in SUBSET Concepts, roots # {}
    PROVE  LET S == Spread(edges, roots) IN
           /\ S \in [Nat -> SUBSET Concepts] /\ S[0] = roots
           /\ \A n \in Nat : S[n + 1] = S[n] \cup {e[2] : e \in {d \in edges : d[1] \in S[n]}}
           /\ \A d \in edges : d[1] \in S[ConceptCount] => d[2] \in S[ConceptCount]
<1> DEFINE Grown(B) == B \cup {e[2] : e \in {d \in edges : d[1] \in B}}
           F == [B \in SUBSET Concepts |-> Grown(B)]
           grown[n \in Nat] == IF n = 0 THEN roots
                               ELSE LET prev == grown[n - 1] IN
                                    prev \cup {e[2] : e \in {d \in edges : d[1] \in prev}}
<1>1. \A B \in SUBSET Concepts : Grown(B) \in SUBSET Concepts
  OBVIOUS
<1>2. F \in [SUBSET Concepts -> SUBSET Concepts]
  BY <1>1
<1>3. \E f \in [Nat -> SUBSET Concepts] :
         f[0] = roots /\ \A n \in Nat \ {0} : f[n] = F[f[n - 1]]
  <2> DEFINE S == SUBSET Concepts
  <2>1. roots \in S /\ F \in [S -> S]
    BY <1>2
  <2> HIDE DEF F, S
  <2>2. \E f \in [Nat -> S] : f[0] = roots /\ \A n \in Nat \ {0} : f[n] = F[f[n - 1]]
    BY <2>1, RecursionExists
  <2> QED BY <2>2 DEF S
<1>4. \E f : f = [n \in Nat |-> IF n = 0 THEN roots
                               ELSE LET prev == f[n - 1] IN
                                    prev \cup {e[2] : e \in {d \in edges : d[1] \in prev}}]
  <2>1. PICK f \in [Nat -> SUBSET Concepts] :
               f[0] = roots /\ \A n \in Nat \ {0} : f[n] = F[f[n - 1]]
    BY <1>3
  <2>2. \A B \in SUBSET Concepts : F[B] = Grown(B)
    OBVIOUS
  <2>3. \A n \in Nat : f[n] = IF n = 0 THEN roots ELSE Grown(f[n - 1])
    <3>1. \A n \in Nat \ {0} : n - 1 \in Nat /\ f[n - 1] \in SUBSET Concepts
      BY <2>1
    <3> HIDE DEF F, Grown
    <3> QED BY <2>1, <2>2, <3>1
  <2>4. f = [n \in Nat |-> IF n = 0 THEN roots ELSE Grown(f[n - 1])]
    <3> HIDE DEF Grown
    <3> QED BY <2>3
  <2> QED BY <2>4
<1>5. grown = [n \in Nat |-> IF n = 0 THEN roots
                               ELSE LET prev == grown[n - 1] IN
                                    prev \cup {e[2] : e \in {d \in edges : d[1] \in prev}}]
  BY <1>4 DEF grown
<1> HIDE DEF grown
<1>6. grown[0] = roots /\ \A n \in Nat : grown[n + 1] = Grown(grown[n])
  <2>1. \A n \in Nat : n + 1 # 0 /\ n + 1 \in Nat /\ (n + 1) - 1 = n
    OBVIOUS
  <2> QED BY <1>5, <2>1
<1>7. \A n \in Nat : grown[n] \in SUBSET Concepts
  <2> DEFINE In == {n \in Nat : grown[n] \in SUBSET Concepts}
  <2>1. 0 \in In /\ \A n \in In : n + 1 \in In
    <3> HIDE DEF Grown
    <3> QED BY <1>1, <1>6
  <2>2. In \in SUBSET Nat
    OBVIOUS
  <2>3. \A n \in Nat : n \in In
    <3> HIDE DEF In
    <3> QED BY <2>1, <2>2, AllNumbers
  <2> QED BY <2>3
<1>8. grown \in [Nat -> SUBSET Concepts]
  <2>1. grown = [n \in Nat |-> grown[n]]
    BY <1>5
  <2> QED BY <1>7, <2>1
<1>9. \A n \in Nat : grown[n] \subseteq grown[n + 1] /\ grown[n + 1] = F[grown[n]]
  BY <1>6, <1>7
<1>10. IsFiniteSet(Concepts) /\ Cardinality(Concepts) = ConceptCount
  <2>1. ConceptCount \in Nat
    BY PathAssumption
  <2> QED BY <2>1, FS_Interval DEF Concepts
<1>11. F[grown[ConceptCount]] = grown[ConceptCount]
  <2>1. grown[0] # {}
    BY <1>6
  <2> HIDE DEF F
  <2> QED BY <1>8, <1>9, <1>10, <2>1, GrowsToRest
<1>12. Grown(grown[ConceptCount]) = grown[ConceptCount]
  BY <1>7, <1>11, PathAssumption
<1>13. Spread(edges, roots) = grown
  BY DEF Spread, grown
<1> QED BY <1>6, <1>8, <1>12, <1>13

\* What is reached is reached for good, and stays in every set that is closed.
LEMMA SpreadGrows ==
    ASSUME NEW edges \in SUBSET (Concepts \X Concepts), NEW roots \in SUBSET Concepts, roots # {},
           NEW m \in Nat, NEW n \in Nat
    PROVE  LET S == Spread(edges, roots) IN
           /\ m <= n => S[m] \subseteq S[n]
           /\ S[n] \subseteq S[ConceptCount]
<1> DEFINE S == Spread(edges, roots)
<1>1. /\ S \in [Nat -> SUBSET Concepts] /\ S[0] = roots
      /\ \A k \in Nat : S[k + 1] = S[k] \cup {e[2] : e \in {d \in edges : d[1] \in S[k]}}
      /\ \A d \in edges : d[1] \in S[ConceptCount] => d[2] \in S[ConceptCount]
  BY SpreadFacts
<1> HIDE DEF S
<1>2. \A k \in Nat : m <= k => S[m] \subseteq S[k]
  <2> DEFINE More == {k \in Nat : m <= k => S[m] \subseteq S[k]}
  <2>1. 0 \in More
    OBVIOUS
  <2>2. ASSUME NEW k \in More PROVE k + 1 \in More
    <3>1. S[k] \subseteq S[k + 1]
      BY <1>1
    <3>2. m <= k + 1 => m <= k \/ m = k + 1
      OBVIOUS
    <3> QED BY <3>1, <3>2
  <2>3. More \in SUBSET Nat
    OBVIOUS
  <2>4. \A k \in Nat : k \in More
    <3> HIDE DEF More
    <3> QED BY <2>1, <2>2, <2>3, AllNumbers
  <2> QED BY <2>4
<1>3. roots \subseteq S[ConceptCount]
  <2>1. ConceptCount \in Nat /\ 0 \in Nat
    BY PathAssumption
  <2> DEFINE More == {k \in Nat : roots \subseteq S[k]}
  <2>2. 0 \in More /\ \A k \in More : k + 1 \in More
    BY <1>1
  <2>3. More \in SUBSET Nat
    OBVIOUS
  <2>4. \A k \in Nat : k \in More
    <3> HIDE DEF More
    <3> QED BY <2>2, <2>3, AllNumbers
  <2> QED BY <2>1, <2>4
<1>4. \A k \in Nat : S[k] \subseteq S[ConceptCount]
  <2> DEFINE Inner == {k \in Nat : S[k] \subseteq S[ConceptCount]}
  <2>1. 0 \in Inner
    BY <1>1, <1>3
  <2>2. ASSUME NEW k \in Inner PROVE k + 1 \in Inner
    BY <1>1
  <2>3. Inner \in SUBSET Nat
    OBVIOUS
  <2>4. \A k \in Nat : k \in Inner
    <3> HIDE DEF Inner
    <3> QED BY <2>1, <2>2, <2>3, AllNumbers
  <2> QED BY <2>4
<1> QED BY <1>2, <1>4 DEF S

LEMMA SpreadStaysIn ==
    ASSUME NEW edges \in SUBSET (Concepts \X Concepts), NEW roots \in SUBSET Concepts, roots # {},
           NEW T, roots \subseteq T, \A d \in edges : d[1] \in T => d[2] \in T, NEW n \in Nat
    PROVE  Spread(edges, roots)[n] \subseteq T
<1> DEFINE S == Spread(edges, roots)
           Inner == {k \in Nat : S[k] \subseteq T}
<1>1. /\ S[0] = roots
      /\ \A k \in Nat : S[k + 1] = S[k] \cup {e[2] : e \in {d \in edges : d[1] \in S[k]}}
  BY SpreadFacts
<1> HIDE DEF S
<1>2. 0 \in Inner
  BY <1>1
<1>3. ASSUME NEW k \in Inner PROVE k + 1 \in Inner
  BY <1>1
<1>4. Inner \in SUBSET Nat
  OBVIOUS
<1>5. \A k \in Nat : k \in Inner
  <2> HIDE DEF Inner
  <2> QED BY <1>2, <1>3, <1>4, AllNumbers
<1> QED BY <1>5 DEF S

----------------------------------------------------------------------------

Followable == UNION {Ways(r, query.mode) : r \in {s \in graph : s.type \in query.types}}

\* A way goes from one end of its relation to the other, backwards only where
\* the query lets it and the relation has a direction.
LEMMA WayFacts ==
    ASSUME NEW r \in AllRelations, NEW mode \in {"outgoing", "incoming", "both"}, NEW t \in Ways(r, mode)
    PROVE  /\ t.by = r /\ t.at \in Concepts /\ t.next \in Concepts /\ {t.at, t.next} = {r.from, r.to}
           /\ t.against => mode # "outgoing" /\ r.type \notin Symmetric
           /\ mode = "incoming" => t.against \/ r.type \in Symmetric
<1>1. r.from \in Concepts /\ r.to \in Concepts
  BY DEF AllRelations
<1>2. CASE r.type \in Symmetric
  BY <1>1, <1>2 DEF Ways, Undirected
<1>3. CASE r.type \notin Symmetric
  <2>1. t \in Directed(r, mode)
    BY <1>3 DEF Ways
  <2> QED BY <1>1, <1>3, <2>1 DEF Directed
<1> QED BY <1>2, <1>3

LEMMA QueryFacts ==
    ASSUME PathTypes
    PROVE  /\ query.from \in Concepts /\ query.to \in Concepts /\ query.hops \in Nat
           /\ query.nodes \in Nat \ {0} /\ query.mode \in {"outgoing", "incoming", "both"}
           /\ query.kind \in {"local", "trace", "path"}
           /\ \A t \in Followable : \E r \in graph : r \in AllRelations /\ t \in Ways(r, query.mode)
           /\ Followed \in SUBSET (Concepts \X Concepts)
<1>1. query \in Queries /\ graph \subseteq AllRelations
  BY DEF PathTypes
<1>2. /\ query.from \in Concepts /\ query.to \in Concepts /\ query.hops \in Nat
      /\ query.nodes \in Nat \ {0} /\ query.mode \in {"outgoing", "incoming", "both"}
      /\ query.kind \in {"local", "trace", "path"}
  <2>1. CASE query \in [kind : {"local", "trace"}, from : Concepts, to : Concepts,
                        mode : {"outgoing", "incoming", "both"},
                        types : {ToSet(TypePriority)} \cup {{t} : t \in Symmetric},
                        hops : HopLimits, nodes : NodeLimits]
    BY <2>1, PathAssumption
  <2>2. CASE query \in [kind : {"path"}, from : Concepts, to : {1}, mode : {"outgoing"},
                        types : {{Prerequisite}}, hops : {0}, nodes : NodeLimits]
    <3>1. query.from \in Concepts
      BY <2>2
    <3>2. 1 \in Concepts
      BY <3>1, PathAssumption DEF Concepts
    <3>3. /\ query.to = 1 /\ query.hops = 0 /\ query.mode = "outgoing" /\ query.kind = "path"
          /\ query.nodes \in NodeLimits
      BY <2>2
    <3>4. NodeLimits \subseteq Nat \ {0}
      BY PathAssumption
    <3>6. query.nodes \in Nat \ {0}
      BY <3>3, <3>4
    <3>7. query.hops \in Nat
      BY <3>3
    <3>5. query.to \in Concepts
      BY <3>2, <3>3
    <3> QED BY <3>1, <3>3, <3>5, <3>6, <3>7
  <2> QED BY <1>1, <2>1, <2>2 DEF Queries
<1>3. \A t \in Followable : \E r \in graph : r \in AllRelations /\ t \in Ways(r, query.mode)
  BY <1>1 DEF Followable
<1>4. Edges \in SUBSET (Concepts \X Concepts)
  <2>1. \A t \in Followable : t.at \in Concepts /\ t.next \in Concepts
    BY <1>2, <1>3, WayFacts
  <2> QED BY <2>1 DEF Edges, Followable
<1>5. {<<e[2], e[1]>> : e \in PrerequisitesOf(graph)} \in SUBSET (Concepts \X Concepts)
  <2>1. \A r \in graph : r.from \in Concepts /\ r.to \in Concepts
    BY <1>1 DEF AllRelations
  <2> QED BY <2>1 DEF PrerequisitesOf
<1> QED BY <1>2, <1>3, <1>4, <1>5 DEF Followed

LEMMA ReachedFacts ==
    ASSUME PathTypes
    PROVE  /\ Reached \in [Nat -> SUBSET Concepts] /\ Reached[0] = {query.from}
           /\ \A n \in Nat : \A c \in Reached[n] : Leads(c) \subseteq Reached[n + 1]
           /\ \A n \in Nat : \A d \in Reached[n + 1] :
                 d \in Reached[n] \/ \E c \in Reached[n] : d \in Leads(c)
           /\ \A m, n \in Nat : m <= n => Reached[m] \subseteq Reached[n]
           /\ \A n \in Nat : Reached[n] \subseteq Reachable
           /\ \A c \in Reachable : Leads(c) \subseteq Reachable
<1> DEFINE roots == {query.from}
<1>1. Followed \in SUBSET (Concepts \X Concepts) /\ roots \in SUBSET Concepts /\ roots # {}
  BY QueryFacts
<1> HIDE DEF roots
<1>2. LET S == Spread(Followed, roots) IN
      /\ S \in [Nat -> SUBSET Concepts] /\ S[0] = roots
      /\ \A n \in Nat : S[n + 1] = S[n] \cup {e[2] : e \in {d \in Followed : d[1] \in S[n]}}
      /\ \A d \in Followed : d[1] \in S[ConceptCount] => d[2] \in S[ConceptCount]
  BY <1>1, SpreadFacts
<1>3. \A m, n \in Nat : m <= n => Spread(Followed, roots)[m] \subseteq Spread(Followed, roots)[n]
  BY <1>1, SpreadGrows
<1>4. \A n \in Nat : Spread(Followed, roots)[n] \subseteq Spread(Followed, roots)[ConceptCount]
  BY <1>1, SpreadGrows
<1>5. Reached = Spread(Followed, roots)
  BY DEF Reached, roots
<1>6. /\ Reached \in [Nat -> SUBSET Concepts] /\ Reached[0] = {query.from}
      /\ \A n \in Nat : Reached[n + 1] = Reached[n] \cup {e[2] : e \in {d \in Followed : d[1] \in Reached[n]}}
      /\ \A d \in Followed : d[1] \in Reachable => d[2] \in Reachable
  BY <1>2, <1>5 DEF Reachable, roots
<1>7. \A n \in Nat : \A c \in Reached[n] : Leads(c) \subseteq Reached[n + 1]
  BY <1>6 DEF Leads
<1>8. ASSUME NEW n \in Nat, NEW d \in Reached[n + 1], d \notin Reached[n]
      PROVE  \E c \in Reached[n] : d \in Leads(c)
  <2>1. PICK e \in Followed : e[1] \in Reached[n] /\ e[2] = d
    BY <1>6, <1>8
  <2>2. e = <<e[1], d>> /\ d \in Concepts
    BY <1>1, <2>1
  <2> QED BY <2>1, <2>2 DEF Leads
<1>9. \A c \in Reachable : Leads(c) \subseteq Reachable
  BY <1>6 DEF Leads
<1> QED BY <1>3, <1>4, <1>5, <1>6, <1>7, <1>8, <1>9 DEF Reachable

\* Neither the graph nor the query changes.
LEMMA PathStands ==
    ASSUME UNCHANGED <<graph, query>>
    PROVE  /\ Followed' = Followed /\ Reached' = Reached /\ Reachable' = Reachable
           /\ Followable' = Followable /\ (query.kind # "path" => Edges = Followed)
           /\ \A c : Leads(c)' = Leads(c)
<1>1. Edges' = Edges /\ Followable' = Followable /\ PrerequisitesOf(graph)' = PrerequisitesOf(graph)
  BY DEF Edges, Followable, PrerequisitesOf
<1>2. Followed' = Followed /\ (query.kind # "path" => Edges = Followed)
  BY <1>1 DEF Followed
<1>3. Reached' = Reached
  BY <1>2 DEF Reached
<1> QED BY <1>1, <1>2, <1>3 DEF Reachable, Leads

LEMMA FoundFacts ==
    ASSUME PathTypes
    PROVE  /\ IsFiniteSet(Found(distance)) /\ Cardinality(Found(distance)) \in Nat
           /\ Found(distance) \subseteq Concepts
           /\ \A c \in Found(distance) : distance[c] \in Nat
           /\ \A c \in Concepts \ Found(distance) : distance[c] = -1
<1>1. IsFiniteSet(Concepts)
  BY FS_Interval, PathAssumption DEF Concepts
<1>2. Found(distance) \in SUBSET Concepts
  BY DEF Found
<1>3. IsFiniteSet(Found(distance)) /\ Cardinality(Found(distance)) \in Nat
  BY <1>1, <1>2, FS_Subset, FS_CardinalityType
<1> QED BY <1>2, <1>3 DEF Found, PathTypes

\* A Concept is found.
LEMMA OneFound ==
    ASSUME PathTypes, NEW x \in Concepts \ Found(distance), NEW n \in Nat,
           distance' = [distance EXCEPT ![x] = n]
    PROVE  /\ distance' \in [Concepts -> Nat \cup {-1}]
           /\ distance'[x] = n /\ \A c \in Found(distance) : distance'[c] = distance[c]
           /\ Found(distance)' = Found(distance) \cup {x}
           /\ Cardinality(Found(distance)') = Cardinality(Found(distance)) + 1
<1>1. distance \in [Concepts -> Nat \cup {-1}]
  BY DEF PathTypes
<1>2. /\ distance' \in [Concepts -> Nat \cup {-1}] /\ distance'[x] = n
      /\ \A c \in Concepts \ {x} : distance'[c] = distance[c]
  BY <1>1
<1>3. Found(distance)' = Found(distance) \cup {x}
  BY <1>2 DEF Found
<1>4. Cardinality(Found(distance) \cup {x}) = Cardinality(Found(distance)) + 1
  BY FoundFacts, FS_AddElement
<1> QED BY <1>2, <1>3, <1>4 DEF Found

LEMMA TransitionsLead ==
    ASSUME PathTypes, query.kind # "path", NEW c \in Concepts
    PROVE  /\ \A t \in Transitions(c) : t \in Followable /\ t.at = c /\ t.next \in Leads(c)
           /\ New(c) = {} <=> Leads(c) \subseteq Found(distance)
           /\ \A t \in New(c) : t.next \in Concepts \ Found(distance)
<1>1. Followed = {<<t.at, t.next>> : t \in Followable}
  BY DEF Followed, Edges, Followable
<1>2. ASSUME NEW t \in Transitions(c)
      PROVE  t \in Followable /\ t.at = c /\ t.next \in Concepts /\ <<c, t.next>> \in Followed
  <2>1. t \in Followable /\ t.at = c
    BY <1>2 DEF Transitions, Followable
  <2>2. <<c, t.next>> \in Followed
    BY <1>1, <2>1
  <2>3. PICK r \in graph : r \in AllRelations /\ t \in Ways(r, query.mode)
    BY <2>1, QueryFacts
  <2>4. t.next \in Concepts
    BY <2>3, QueryFacts, WayFacts
  <2> QED BY <2>1, <2>2, <2>4
<1>3. ASSUME NEW d \in Leads(c) PROVE \E t \in Transitions(c) : t.next = d
  <2>1. PICK t \in Followable : <<t.at, t.next>> = <<c, d>>
    BY <1>1 DEF Leads
  <2>2. t.at = c /\ t.next = d
    BY <2>1
  <2> QED BY <2>2 DEF Transitions, Followable
<1>4. \A d \in Concepts : d \in Found(distance) <=> distance[d] # -1
  BY DEF Found
<1>5. \A t \in Transitions(c) : t.next \in Leads(c)
  BY <1>2 DEF Leads
<1>6. New(c) = {} => Leads(c) \subseteq Found(distance)
  <2>1. ASSUME New(c) = {}, NEW d \in Leads(c) PROVE d \in Found(distance)
    <3>1. PICK t \in Transitions(c) : t.next = d
      BY <1>3
    <3>2. t \notin New(c) /\ d \in Concepts
      BY <2>1 DEF Leads
    <3> QED BY <1>4, <3>1, <3>2 DEF New
  <2> QED BY <2>1
<1>7. Leads(c) \subseteq Found(distance) => New(c) = {}
  <2>1. ASSUME Leads(c) \subseteq Found(distance), NEW t \in New(c) PROVE FALSE
    <3>1. t \in Transitions(c) /\ distance[t.next] = -1
      BY DEF New
    <3>2. t.next \in Found(distance)
      BY <1>5, <2>1, <3>1
    <3> QED BY <3>1, <3>2 DEF Found
  <2> QED BY <2>1
<1>8. \A t \in New(c) : t.next \in Concepts \ Found(distance)
  BY <1>2, <1>4 DEF New
<1> QED BY <1>2, <1>5, <1>6, <1>7, <1>8

\* While no node has been left out, what is nearer than all that is queued has
\* been found, and so has what that leads to.
LEMMA LevelsFound ==
    ASSUME PathTypes, FoundIsReached, query.kind # "path", SearchInv, "nodes" \notin cut,
           NEW d \in Nat, d <= query.hops, \A i \in DOMAIN queue : d <= distance[queue[i]]
    PROVE  Reached[d] \subseteq Found(distance)
<1> DEFINE In == {n \in Nat : n <= d => Reached[n] \subseteq Found(distance)}
<1>1. /\ Reached[0] = {query.from}
      /\ \A n \in Nat : \A x \in Reached[n + 1] : x \in Reached[n] \/ \E y \in Reached[n] : x \in Leads(y)
      /\ \A m, n \in Nat : m <= n => Reached[m] \subseteq Reached[n]
  BY ReachedFacts
<1>2. \A y \in Found(distance) : distance[y] \in Nat
  BY FoundFacts
<1>3. 0 \in In
  BY <1>1, QueryFacts DEF FoundIsReached, Found
<1>4. ASSUME NEW n \in In PROVE n + 1 \in In
  <2>1. SUFFICES ASSUME n + 1 <= d, NEW x \in Reached[n + 1] PROVE x \in Found(distance)
    OBVIOUS
  <2>2. Reached[n] \subseteq Found(distance)
    BY <1>4, <2>1
  <2>3. CASE x \in Reached[n]
    BY <2>2, <2>3
  <2>4. ASSUME NEW y \in Reached[n], x \in Leads(y) PROVE x \in Found(distance)
    <3>1. y \in Found(distance) /\ distance[y] \in Nat
      BY <1>2, <2>2
    <3>2. distance[y] <= n
      <4>1. SUFFICES ASSUME distance[y] > n PROVE FALSE
        BY <3>1
      <4>2. distance[y] > 0 /\ distance[y] - 1 \in Nat /\ n <= distance[y] - 1
        BY <3>1, <4>1
      <4>3. y \notin Reached[distance[y] - 1]
        BY <3>1, <4>2 DEF SearchInv
      <4> QED BY <1>1, <4>2, <4>3
    <3>3. distance[y] < d /\ distance[y] < query.hops
      BY <2>1, <3>1, <3>2, QueryFacts
    <3>4. y \notin Queued
      BY <3>1, <3>3 DEF Queued
    <3> QED BY <2>4, <3>1, <3>3, <3>4 DEF SearchInv, Expanded
  <2> QED BY <1>1, <2>3, <2>4
<1>5. In \in SUBSET Nat
  OBVIOUS
<1>6. \A n \in Nat : n \in In
  <2> HIDE DEF In
  <2> QED BY <1>3, <1>4, <1>5, AllNumbers
<1> QED BY <1>6

LEMMA PathStart == ASSUME PathInit PROVE PathInv
<1>1. graph \subseteq AllRelations /\ Acyclic(graph) /\ query \in Queries
  BY DEF PathInit, kSubset
<1>2. query.from \in Concepts
  <2>1. CASE query \in [kind : {"local", "trace"}, from : Concepts, to : Concepts,
                        mode : {"outgoing", "incoming", "both"},
                        types : {ToSet(TypePriority)} \cup {{t} : t \in Symmetric},
                        hops : HopLimits, nodes : NodeLimits]
    BY <2>1
  <2>2. CASE query \in [kind : {"path"}, from : Concepts, to : {1}, mode : {"outgoing"},
                        types : {{Prerequisite}}, hops : {0}, nodes : NodeLimits]
    BY <2>2
  <2> QED BY <1>1, <2>1, <2>2 DEF Queries
<1>3. queue \in Seq(Concepts) /\ Queued = {query.from} /\ DOMAIN queue = {1} /\ queue[1] = query.from
  BY <1>2 DEF PathInit, Queued
<1>4. PathTypes
  BY <1>1, <1>3 DEF PathInit, PathTypes
<1>5. distance[query.from] = 0 /\ Found(distance) = {query.from}
  BY <1>2 DEF PathInit, Found
<1>6. Cardinality(Found(distance)) = 1
  BY <1>5, FS_Singleton
<1>7. query.nodes \in Nat \ {0} /\ query.hops \in Nat /\ cut = {} /\ layers = <<>> /\ order = <<>>
      /\ phase = "search"
  BY <1>4, QueryFacts DEF PathInit
<1>8. FoundIsReached
  <2>1. Reached[0] = {query.from}
    BY <1>4, ReachedFacts
  <2> QED BY <1>3, <1>5, <1>6, <1>7, <2>1 DEF FoundIsReached
<1>9. SearchInv
  BY <1>3, <1>5, <1>7 DEF SearchInv, Expanded
<1>10. LearningInv
  <2>1. Layered = {} /\ ToSet(order) = {}
    BY <1>7 DEF Layered, ToSet
  <2>2. LayersFollow /\ OrderFollows /\ \A i, j \in DOMAIN order : order[i] = order[j] => i = j
    BY <1>7 DEF LayersFollow, OrderFollows
  <2> QED BY <1>3, <1>5, <1>7, <2>1, <2>2 DEF LearningInv, Expanded
<1> QED BY <1>4, <1>8, <1>9, <1>10 DEF PathInv

LEMMA QueueFacts ==
    ASSUME queue \in Seq(Concepts)
    PROVE  /\ queue # <<>> => /\ Head(queue) \in Queued /\ Head(queue) = queue[1] /\ 1 \in DOMAIN queue
                              /\ Head(queue) \in Concepts /\ Tail(queue) \in Seq(Concepts)
                              /\ DOMAIN Tail(queue) = 1..(Len(queue) - 1)
                              /\ \A i \in DOMAIN Tail(queue) : Tail(queue)[i] = queue[i + 1] /\ i + 1 \in DOMAIN queue
                              /\ Queued \subseteq {Head(queue)} \cup {Tail(queue)[i] : i \in DOMAIN Tail(queue)}
           /\ DOMAIN queue = 1..Len(queue) /\ Len(queue) \in Nat
           /\ \A x \in Concepts : /\ Append(queue, x) \in Seq(Concepts)
                                  /\ DOMAIN Append(queue, x) = 1..(Len(queue) + 1)
                                  /\ \A i \in DOMAIN queue : Append(queue, x)[i] = queue[i]
                                  /\ Append(queue, x)[Len(queue) + 1] = x
<1>1. ASSUME queue # <<>>
      PROVE  Queued \subseteq {Head(queue)} \cup {Tail(queue)[i] : i \in DOMAIN Tail(queue)}
  <2>1. ASSUME NEW i \in DOMAIN queue, i # 1
        PROVE  i - 1 \in DOMAIN Tail(queue) /\ Tail(queue)[i - 1] = queue[i]
    BY <1>1, <2>1
  <2>2. Queued \subseteq {queue[1]} \cup {queue[i] : i \in DOMAIN queue \ {1}}
    BY DEF Queued
  <2>3. Head(queue) = queue[1]
    BY <1>1
  <2> QED BY <2>1, <2>2, <2>3
<1>2. queue # <<>> => /\ Head(queue) \in Queued /\ Head(queue) = queue[1] /\ 1 \in DOMAIN queue
                      /\ Head(queue) \in Concepts /\ Tail(queue) \in Seq(Concepts)
                      /\ DOMAIN Tail(queue) = 1..(Len(queue) - 1)
  BY DEF Queued
<1>3. queue # <<>> => \A i \in DOMAIN Tail(queue) : Tail(queue)[i] = queue[i + 1] /\ i + 1 \in DOMAIN queue
  OBVIOUS
<1> QED BY <1>1, <1>2, <1>3

\* A neighbour is found: everything nearer had been.
LEMMA DiscoverStep == ASSUME PathInv, Discover PROVE PathInv'
<1> DEFINE c == Head(queue)
           d == distance[c]
<1>1. /\ PathTypes /\ FoundIsReached /\ SearchInv /\ query.kind # "path" /\ queue # <<>> /\ phase = "search"
      /\ UNCHANGED <<graph, query, cut, degree, layers, order, phase>> /\ ~TooFar(c) /\ ~Full /\ ~Arrived
  BY DEF PathInv, Discover, Searching
<1>2. PICK t \in New(c) : /\ distance' = [distance EXCEPT ![t.next] = d + 1]
                          /\ parent' = [parent EXCEPT ![t.next] = <<t>>]
                          /\ queue' = Append(queue, t.next)
  BY DEF Discover
<1> DEFINE x == t.next
<1>3. queue \in Seq(Concepts)
  BY <1>1 DEF PathTypes
<1>4. c \in Concepts /\ c \in Queued /\ c = queue[1] /\ 1 \in DOMAIN queue /\ c \in Found(distance)
  BY <1>1, <1>3, QueueFacts DEF FoundIsReached
<1>5. d \in Nat /\ query.hops \in Nat /\ d < query.hops /\ query.from \in Concepts
  BY <1>1, <1>4, FoundFacts, QueryFacts DEF TooFar
<1>6. x \in Concepts \ Found(distance) /\ t \in Followable /\ t.at = c /\ x \in Leads(c)
  BY <1>1, <1>2, <1>4, TransitionsLead DEF New
<1>7. /\ distance' \in [Concepts -> Nat \cup {-1}]
      /\ distance'[x] = d + 1 /\ \A y \in Found(distance) : distance'[y] = distance[y]
      /\ Found(distance)' = Found(distance) \cup {x}
      /\ Cardinality(Found(distance)') = Cardinality(Found(distance)) + 1
  <2>1. distance' = [distance EXCEPT ![x] = d + 1] /\ d + 1 \in Nat
    BY <1>2, <1>5
  <2> HIDE DEF x, d
  <2> QED BY <1>1, <1>6, <2>1, OneFound
<1>8. /\ Cardinality(Found(distance)) \in Nat /\ query.nodes \in Nat /\ Cardinality(Found(distance)) < query.nodes
      /\ \A y \in Found(distance) : distance[y] \in Nat
  BY <1>1, FoundFacts, QueryFacts DEF Full
<1>9. /\ Reached' = Reached /\ Reachable' = Reachable /\ Followable' = Followable
      /\ \A y : Leads(y)' = Leads(y)
  BY <1>1, PathStands
<1>10. /\ queue' \in Seq(Concepts) /\ DOMAIN queue = 1..Len(queue) /\ Len(queue) \in Nat
       /\ DOMAIN queue' = 1..(Len(queue) + 1) /\ \A i \in DOMAIN queue : queue'[i] = queue[i]
       /\ queue'[Len(queue) + 1] = x
  BY <1>2, <1>3, <1>6, QueueFacts
<1>11. Queued' = Queued \cup {x}
  BY <1>10 DEF Queued
<1>12. PathTypes'
  BY <1>1, <1>2, <1>7, <1>10 DEF PathTypes
<1>13. \A i \in DOMAIN queue : queue[i] \in Found(distance) /\ d <= distance[queue[i]]
                               /\ distance[queue[i]] <= d + 1
  <2>1. \A i \in DOMAIN queue : queue[i] \in Found(distance)
    BY <1>1 DEF FoundIsReached, Queued
  <2>2. \A i \in DOMAIN queue : distance[queue[i]] <= distance[queue[1]] + 1
    BY <1>1, <1>4, <2>1 DEF SearchInv
  <2>3. ASSUME NEW i \in DOMAIN queue PROVE d <= distance[queue[i]]
    <3>1. CASE i = 1
      BY <1>4, <1>5, <3>1
    <3>2. CASE i # 1
      <4>1. 1 < i
        BY <1>10, <3>2
      <4> QED BY <1>1, <1>4, <4>1 DEF SearchInv
    <3> QED BY <3>1, <3>2
  <2> QED BY <1>4, <2>1, <2>2, <2>3
<1>14. Reached[d] \subseteq Found(distance)
  <2>1. "nodes" \notin cut
    BY <1>1 DEF SearchInv
  <2>2. \A i \in DOMAIN queue : d <= distance[queue[i]]
    BY <1>13
  <2>3. d <= query.hops
    BY <1>5
  <2> HIDE DEF d
  <2> QED BY <1>1, <1>5, <2>1, <2>2, <2>3, LevelsFound
<1>15. x \in Reached[d + 1] /\ x \notin Reached[d]
  <2>1. c \in Reached[d]
    BY <1>1, <1>4 DEF FoundIsReached
  <2>2. \A n \in Nat : \A y \in Reached[n] : Leads(y) \subseteq Reached[n + 1]
    BY <1>1, ReachedFacts
  <2> QED BY <1>5, <1>6, <1>14, <2>1, <2>2
<1> HIDE DEF x, d, c
<1>16. FoundIsReached'
  <2>1. query.from \in Found(distance) /\ distance'[query.from] = 0
    BY <1>1, <1>5, <1>7 DEF FoundIsReached, Found
  <2>2. \A y \in Found(distance)' : y \in Reached'[distance'[y]]
    BY <1>1, <1>7, <1>9, <1>15 DEF FoundIsReached
  <2>3. Queued' \subseteq Found(distance)'
    BY <1>1, <1>7, <1>11 DEF FoundIsReached
  <2>4. Cardinality(Found(distance)') <= query.nodes
    BY <1>7, <1>8
  <2> QED BY <1>1, <1>9, <2>1, <2>2, <2>3, <2>4 DEF FoundIsReached
<1>17. Expanded' \subseteq Expanded
  BY <1>7, <1>11 DEF Expanded
<1>18. SearchInv'
  <2>1. \A y \in Found(distance)' : distance'[y] <= query.hops
    BY <1>1, <1>5, <1>7 DEF SearchInv
  <2>2. \A y \in Found(distance)' : distance'[y] > 0 =>
          Reached'[distance'[y] - 1] \subseteq Found(distance)' /\ y \notin Reached'[distance'[y] - 1]
    <3>1. ASSUME NEW y \in Found(distance), distance[y] > 0
          PROVE  Reached[distance[y] - 1] \subseteq Found(distance) /\ y \notin Reached[distance[y] - 1]
      BY <1>1, <3>1 DEF SearchInv
    <3>2. (d + 1) - 1 = d
      BY <1>5
    <3> QED BY <1>7, <1>9, <1>14, <1>15, <3>1, <3>2
  <2>3. \A i \in DOMAIN queue' : queue'[i] \in Found(distance)' /\ d <= distance'[queue'[i]]
                                 /\ distance'[queue'[i]] <= d + 1
    <3>1. ASSUME NEW i \in DOMAIN queue PROVE queue'[i] = queue[i] /\ distance'[queue[i]] = distance[queue[i]]
      BY <1>7, <1>10, <1>13
    <3>2. ASSUME NEW i \in DOMAIN queue', i \notin DOMAIN queue PROVE queue'[i] = x
      BY <1>10, <3>2
    <3> QED BY <1>5, <1>7, <1>13, <3>1, <3>2
  <2>4. \A y \in Found(distance)' : distance'[y] <= d + 1
    <3>1. \A y \in Found(distance) : distance[y] <= distance[queue[1]] + 1
      BY <1>1, <1>4 DEF SearchInv
    <3> QED BY <1>4, <1>5, <1>7, <3>1 DEF d
  <2>5. \A i \in DOMAIN queue' : \A y \in Found(distance)' : distance'[y] <= distance'[queue'[i]] + 1
    <3>1. \A y \in Found(distance)' : distance'[y] \in Nat
      BY <1>5, <1>7, <1>8
    <3> QED BY <1>5, <2>3, <2>4, <3>1
  <2>6. \A i, j \in DOMAIN queue' : i < j => distance'[queue'[i]] <= distance'[queue'[j]]
    <3>1. ASSUME NEW i \in DOMAIN queue', NEW j \in DOMAIN queue', i < j
          PROVE  distance'[queue'[i]] <= distance'[queue'[j]]
      <4>1. i \in DOMAIN queue
        BY <1>10, <3>1
      <4>2. CASE j \in DOMAIN queue
        BY <1>1, <1>7, <1>10, <1>13, <3>1, <4>1, <4>2 DEF SearchInv
      <4>3. CASE j \notin DOMAIN queue
        <5>1. j = Len(queue) + 1 /\ queue'[j] = x
          BY <1>10, <4>3
        <5> QED BY <1>7, <2>3, <5>1
      <4> QED BY <4>2, <4>3
    <3> QED BY <3>1
  <2>7. "nodes" \notin cut
    BY <1>1 DEF SearchInv
  <2>8. \A y \in Expanded' : distance'[y] = distance[y] /\ y \in Expanded
    BY <1>7, <1>17 DEF Expanded
  <2>9. \A y \in Expanded' : distance'[y] < query.hops => Leads(y)' \subseteq Found(distance)'
    <3>1. \A y \in Expanded : distance[y] < query.hops => Leads(y) \subseteq Found(distance)
      BY <1>1, <2>7 DEF SearchInv
    <3> QED BY <1>7, <1>9, <2>8, <3>1
  <2>10. query.kind = "trace" /\ cut = {} => \A y \in Expanded' : Leads(y)' \subseteq Found(distance)'
    <3>1. query.kind = "trace" /\ cut = {} => \A y \in Expanded : Leads(y) \subseteq Found(distance)
      BY <1>1 DEF SearchInv
    <3> QED BY <1>7, <1>9, <2>8, <3>1
  <2>11. ASSUME NEW y \in Found(distance)' \ {query.from}
         PROVE  \E u \in Followable : /\ parent'[y] = <<u>> /\ u.next = y
                                      /\ u.at \in Found(distance)'
                                      /\ distance'[y] = distance'[u.at] + 1
    <3>1. CASE y = x
      <4>1. parent'[x] = <<t>> /\ t.next = x /\ t.at = c /\ distance'[c] = d
        BY <1>1, <1>2, <1>4, <1>6, <1>7 DEF PathTypes, x, d
      <4> QED BY <1>4, <1>6, <1>7, <3>1, <4>1
    <3>2. CASE y # x
      <4>1. y \in Found(distance) \ {query.from}
        BY <1>7, <2>11, <3>2
      <4>2. PICK u \in Followable : /\ parent[y] = <<u>> /\ u.next = y
                                    /\ u.at \in Found(distance) /\ distance[y] = distance[u.at] + 1
        BY <1>1, <4>1 DEF SearchInv, Followable
      <4>3. parent'[y] = parent[y]
        BY <1>1, <1>2, <3>2, <4>1, FoundFacts DEF PathTypes, x
      <4> QED BY <1>7, <4>1, <4>2, <4>3
    <3> QED BY <3>1, <3>2
  <2>12. \A y \in Found(distance)' \ {query.from} :
            \E u \in UNION {Ways(r, query.mode) : r \in {s \in graph : s.type \in query.types}} :
               /\ parent'[y] = <<u>> /\ u.next = y
               /\ u.at \in Found(distance)' /\ distance'[y] = distance'[u.at] + 1
    BY <2>11 DEF Followable
  <2>13. phase \in {"search", "done"} /\ layers = <<>> /\ order = <<>>
         /\ ("hops" \in cut => query.kind = "trace")
    BY <1>1 DEF SearchInv
  <2> QED BY <1>1, <2>1, <2>2, <2>5, <2>6, <2>7, <2>9, <2>10, <2>12, <2>13 DEF SearchInv
<1> QED BY <1>1, <1>12, <1>16, <1>18 DEF PathInv

\* A Concept is taken from the queue: what it leads to is found, unless a limit
\* was met, and then there is something beyond it.
LEMMA TakeNextStep == ASSUME PathInv, TakeNext PROVE PathInv'
<1> DEFINE c == Head(queue)
<1>1. /\ PathTypes /\ FoundIsReached /\ SearchInv /\ query.kind # "path" /\ queue # <<>> /\ phase = "search"
      /\ UNCHANGED <<graph, query, distance, parent, degree, layers, order, phase>>
      /\ (TooFar(c) \/ Full \/ New(c) = {}) /\ queue' = Tail(queue) /\ cut' = cut \cup CutAt(c)
  BY DEF PathInv, TakeNext, Searching
<1>2. queue \in Seq(Concepts)
  BY <1>1 DEF PathTypes
<1>3. /\ c \in Concepts /\ c \in Queued /\ c \in Found(distance)
      /\ queue' \in Seq(Concepts) /\ Queued \subseteq {c} \cup Queued'
      /\ \A i \in DOMAIN queue' : i \in Nat /\ queue'[i] = queue[i + 1] /\ i + 1 \in DOMAIN queue
  <2>1. /\ c \in Queued /\ c \in Concepts /\ queue' \in Seq(Concepts)
        /\ Queued \subseteq {c} \cup {Tail(queue)[i] : i \in DOMAIN Tail(queue)}
        /\ DOMAIN queue' = 1..(Len(queue) - 1)
        /\ \A i \in DOMAIN queue' : queue'[i] = queue[i + 1] /\ i + 1 \in DOMAIN queue
    BY <1>1, <1>2, QueueFacts
  <2>2. Queued' = {Tail(queue)[i] : i \in DOMAIN Tail(queue)}
    BY <1>1 DEF Queued
  <2> HIDE DEF c
  <2> QED BY <1>1, <2>1, <2>2 DEF FoundIsReached
<1>4. /\ Reached' = Reached /\ Reachable' = Reachable /\ Followable' = Followable
      /\ (\A y : Leads(y)' = Leads(y)) /\ Edges = Followed /\ Edges' = Edges
      /\ Found(distance)' = Found(distance) /\ Full' = Full
  <2>1. Edges' = Followed'
    BY <1>1, PathStands DEF Followed
  <2> QED BY <1>1, <2>1, PathStands DEF Found, Full
<1>5. cut' \subseteq {"nodes", "hops"}
  BY <1>1 DEF PathTypes, CutAt
<1>6. PathTypes'
  BY <1>1, <1>3, <1>5 DEF PathTypes
<1>7. Queued' \subseteq Queued /\ Expanded' \subseteq Expanded \cup {c}
  BY <1>3, <1>4 DEF Queued, Expanded
<1>8. distance[c] \in Nat /\ query.hops \in Nat /\ query.nodes \in Nat
      /\ Cardinality(Found(distance)) \in Nat
  BY <1>1, <1>3, FoundFacts, QueryFacts
<1>9. CutAt(c) # {} => \E x \in Concepts \ Found(distance) : x \in Leads(c)
  BY <1>1, <1>3, TransitionsLead DEF CutAt, New
<1>10. New(c) = {} => Leads(c) \subseteq Found(distance)
  BY <1>1, <1>3, TransitionsLead
<1>11. c \in Reached[distance[c]]
  BY <1>1, <1>3 DEF FoundIsReached
<1>12. CutAt(c) # {} => Reachable # {query.from}
  <2>1. c \in Reachable /\ Leads(c) \subseteq Reachable
    BY <1>1, <1>8, <1>11, ReachedFacts
  <2>2. query.from \in Found(distance)
    BY <1>1, QueryFacts DEF FoundIsReached, Found
  <2> QED BY <1>9, <2>1, <2>2
<1>13. "nodes" \in CutAt(c) => Full /\ Near \ Found(distance) # {}
  <2>1. SUFFICES ASSUME "nodes" \in CutAt(c) PROVE Full /\ Near \ Found(distance) # {}
    OBVIOUS
  <2>2. ~TooFar(c) /\ New(c) # {}
    BY <2>1 DEF CutAt
  <2>3. Full
    BY <1>1, <2>2
  <2>4. PICK x \in Concepts \ Found(distance) : x \in Leads(c)
    BY <1>9, <2>1
  <2>5. distance[c] + 1 \in Nat /\ distance[c] + 1 <= query.hops
    BY <1>8, <2>2 DEF TooFar
  <2>6. x \in Reached[distance[c] + 1]
    BY <1>1, <1>8, <1>11, <2>4, ReachedFacts
  <2>7. Reached[distance[c] + 1] \subseteq Reached[query.hops]
    BY <1>1, <1>8, <2>5, ReachedFacts
  <2>8. Near = Reached[query.hops]
    BY <1>4 DEF Near, Within, Reached
  <2> QED BY <2>3, <2>4, <2>6, <2>7, <2>8
<1>14. Near' = Near
  BY <1>1, <1>4 DEF Near, Within
<1>15. "nodes" \notin CutAt(c) => New(c) = {} \/ distance[c] >= query.hops
  BY DEF CutAt, TooFar
<1>16. "hops" \in CutAt(c) => query.kind = "trace"
  BY DEF CutAt
<1>17. query.kind = "trace" /\ CutAt(c) = {} => New(c) = {}
  BY DEF CutAt
<1> HIDE DEF c
<1>18. FoundIsReached'
  <2>1. cut' # {} => Reachable # {query.from}
    BY <1>1, <1>12 DEF FoundIsReached
  <2> QED BY <1>1, <1>4, <1>7, <2>1 DEF FoundIsReached
<1>19. SearchInv'
  <2>1. \A i \in DOMAIN queue' : \A y \in Found(distance) : distance[y] <= distance[queue'[i]] + 1
    BY <1>1, <1>3 DEF SearchInv
  <2>2. \A i, j \in DOMAIN queue' : i < j => distance[queue'[i]] <= distance[queue'[j]]
    <3>1. \A i, j \in DOMAIN queue' : i < j => i + 1 < j + 1
      BY <1>3
    <3> QED BY <1>1, <1>3, <3>1 DEF SearchInv
  <2>3. "nodes" \in cut' => Full /\ Near \ Found(distance) # {}
    BY <1>1, <1>13 DEF SearchInv
  <2>4. "nodes" \notin cut' => \A y \in Expanded' : distance[y] < query.hops => Leads(y) \subseteq Found(distance)
    <3>1. SUFFICES ASSUME "nodes" \notin cut', NEW y \in Expanded', distance[y] < query.hops
                   PROVE  Leads(y) \subseteq Found(distance)
      OBVIOUS
    <3>2. CASE y = c
      BY <1>1, <1>8, <1>10, <1>15, <3>1, <3>2
    <3>3. CASE y # c
      BY <1>1, <1>7, <3>1, <3>3 DEF SearchInv
    <3> QED BY <3>2, <3>3
  <2>5. query.kind = "trace" /\ cut' = {} => \A y \in Expanded' : Leads(y) \subseteq Found(distance)
    BY <1>1, <1>7, <1>10, <1>17 DEF SearchInv
  <2>6. "hops" \in cut' => query.kind = "trace"
    BY <1>1, <1>16 DEF SearchInv
  <2>7. /\ phase \in {"search", "done"} /\ layers = <<>> /\ order = <<>>
        /\ \A y \in Found(distance) : distance[y] <= query.hops
        /\ \A y \in Found(distance) : distance[y] > 0 =>
              Reached[distance[y] - 1] \subseteq Found(distance) /\ y \notin Reached[distance[y] - 1]
        /\ \A y \in Found(distance) \ {query.from} :
              \E t \in UNION {Ways(r, query.mode) : r \in {s \in graph : s.type \in query.types}} :
                 /\ parent[y] = <<t>> /\ t.next = y
                 /\ t.at \in Found(distance) /\ distance[y] = distance[t.at] + 1
    BY <1>1 DEF SearchInv
  <2> QED BY <1>1, <1>4, <1>14, <2>1, <2>2, <2>3, <2>4, <2>5, <2>6, <2>7 DEF SearchInv
<1> QED BY <1>1, <1>6, <1>18, <1>19 DEF PathInv

LEMMA AnswerStep == ASSUME PathInv, Answer PROVE PathInv'
<1>1. /\ PathTypes /\ FoundIsReached /\ SearchInv /\ query.kind # "path" /\ phase' = "done"
      /\ UNCHANGED <<graph, query, distance, parent, queue, cut, degree, layers, order>>
      /\ (queue = <<>> \/ Arrived)
  BY DEF PathInv, Answer
<1>2. /\ Reached' = Reached /\ Reachable' = Reachable /\ (\A y : Leads(y)' = Leads(y)) /\ Near' = Near
      /\ Found(distance)' = Found(distance) /\ Full' = Full /\ Queued' = Queued /\ Expanded' = Expanded
      /\ Arrived' = Arrived
  BY <1>1, PathStands DEF Found, Full, Queued, Expanded, Near, Within, Edges, Arrived
<1>3. PathTypes' /\ FoundIsReached'
  BY <1>1, <1>2 DEF PathTypes, FoundIsReached
<1>4. SearchInv'
  BY <1>1, <1>2 DEF SearchInv
<1> QED BY <1>1, <1>3, <1>4 DEF PathInv

\* What a search that has ended found.
LEMMA SearchEnds ==
    ASSUME PathInv, query.kind # "path", phase = "done"
    PROVE  /\ Within = Reached /\ Reach = Reachable /\ Near = Reached[query.hops]
           /\ Found(distance) \subseteq Near
           /\ "nodes" \in cut => Cardinality(Found(distance)) = query.nodes /\ Near \ Found(distance) # {}
           /\ queue = <<>> /\ "nodes" \notin cut => Near \subseteq Found(distance)
<1>1. PathTypes /\ FoundIsReached /\ SearchInv
  BY DEF PathInv
<1>2. Within = Reached /\ Reach = Reachable /\ Near = Reached[query.hops]
  BY PathStands DEF Within, Reached, Reach, Reachable, Near, Followed
<1>3. query.hops \in Nat /\ query.nodes \in Nat /\ Cardinality(Found(distance)) \in Nat
      /\ \A c \in Found(distance) : distance[c] \in Nat
  BY <1>1, QueryFacts, FoundFacts
<1>4. Found(distance) \subseteq Near
  <2>1. ASSUME NEW c \in Found(distance) PROVE c \in Near
    <3>1. c \in Reached[distance[c]] /\ distance[c] <= query.hops
      BY <1>1 DEF FoundIsReached, SearchInv
    <3>2. \A m, n \in Nat : m <= n => Reached[m] \subseteq Reached[n]
      BY <1>1, ReachedFacts
    <3> QED BY <1>2, <1>3, <3>1, <3>2
  <2> QED BY <2>1
<1>5. "nodes" \in cut => Cardinality(Found(distance)) = query.nodes /\ Near \ Found(distance) # {}
  BY <1>1, <1>3 DEF FoundIsReached, SearchInv, Full
<1>6. queue = <<>> /\ "nodes" \notin cut => Near \subseteq Found(distance)
  <2>1. queue = <<>> => \A i \in DOMAIN queue : query.hops <= distance[queue[i]]
    OBVIOUS
  <2>2. query.hops <= query.hops
    BY <1>3
  <2> QED BY <1>1, <1>2, <1>3, <2>1, <2>2, LevelsFound
<1> QED BY <1>2, <1>4, <1>5, <1>6

LEMMA NeighbourhoodHolds == ASSUME PathInv PROVE NeighbourhoodIsWhole
<1> SUFFICES ASSUME phase = "done", query.kind = "local"
             PROVE  /\ Found(distance) \subseteq Near
                    /\ cut = {} => Found(distance) = Near
                    /\ cut # {} => Cardinality(Found(distance)) = query.nodes /\ Found(distance) # Near
                    /\ \A c \in Found(distance) : c \in Within[distance[c]]
                    /\ \A c \in Found(distance), d \in Near \ Found(distance) :
                          distance[c] > 0 => d \notin Within[distance[c] - 1]
  BY DEF NeighbourhoodIsWhole
<1>1. PathTypes /\ FoundIsReached /\ SearchInv
  BY DEF PathInv
<1>2. queue = <<>> /\ (cut # {} => "nodes" \in cut)
  <2>1. queue = <<>>
    BY <1>1 DEF SearchInv, Arrived
  <2>2. cut \subseteq {"nodes", "hops"} /\ "hops" \notin cut
    BY <1>1 DEF SearchInv, PathTypes
  <2> QED BY <2>1, <2>2
<1>3. /\ Within = Reached /\ Found(distance) \subseteq Near
      /\ "nodes" \in cut => Cardinality(Found(distance)) = query.nodes /\ Near \ Found(distance) # {}
      /\ "nodes" \notin cut => Near \subseteq Found(distance)
  BY <1>2, SearchEnds
<1>4. \A c \in Found(distance) : c \in Within[distance[c]]
  BY <1>1, <1>3 DEF FoundIsReached
<1>5. \A c \in Found(distance), d \in Near \ Found(distance) :
         distance[c] > 0 => d \notin Within[distance[c] - 1]
  BY <1>1, <1>3 DEF SearchInv
<1> QED BY <1>2, <1>3, <1>4, <1>5

LEMMA TraceHolds == ASSUME PathInv PROVE TraceIsShortest
<1> SUFFICES ASSUME phase = "done", query.kind = "trace"
             PROVE  /\ distance[query.to] # -1 =>
                         /\ query.to \in Within[distance[query.to]]
                         /\ distance[query.to] > 0 => query.to \notin Within[distance[query.to] - 1]
                         /\ distance[query.to] <= query.hops
                    /\ distance[query.to] = -1 /\ cut = {} => query.to \notin Reach
                    /\ cut # {} => distance[query.to] # -1 \/ Reach # {query.from}
                    /\ query.to \in Near /\ "nodes" \notin cut => distance[query.to] # -1
                    /\ \A c \in Found(distance) \ {query.from} :
                         LET t == parent[c][1] IN
                         /\ t.next = c /\ distance[c] = distance[t.at] + 1
                         /\ t.against => query.mode # "outgoing" /\ t.by.type \notin Symmetric
                         /\ query.mode = "incoming" => t.against \/ t.by.type \in Symmetric
                         /\ t.by.type \in Symmetric => {t.at, t.next} = {t.by.from, t.by.to}
  BY DEF TraceIsShortest
<1>1. PathTypes /\ FoundIsReached /\ SearchInv /\ query.to \in Concepts /\ query.from \in Concepts
  BY QueryFacts DEF PathInv
<1>2. Within = Reached /\ Reach = Reachable
  BY SearchEnds
<1>3. distance[query.to] # -1 => query.to \in Found(distance)
  BY <1>1 DEF Found
<1>4. distance[query.to] # -1 =>
         /\ query.to \in Within[distance[query.to]]
         /\ distance[query.to] > 0 => query.to \notin Within[distance[query.to] - 1]
         /\ distance[query.to] <= query.hops
  BY <1>1, <1>2, <1>3 DEF FoundIsReached, SearchInv
<1>5. distance[query.to] = -1 => queue = <<>>
  BY <1>1 DEF SearchInv, Arrived
<1>6. distance[query.to] = -1 => query.to \notin Found(distance)
  BY DEF Found
<1>7. distance[query.to] = -1 /\ cut = {} => query.to \notin Reach
  <2>1. SUFFICES ASSUME distance[query.to] = -1, cut = {} PROVE query.to \notin Reachable
    BY <1>2
  <2>2. Queued = {}
    BY <1>5, <2>1 DEF Queued
  <2>3. \A c \in Found(distance) : Leads(c) \subseteq Found(distance)
    BY <1>1, <2>1, <2>2 DEF SearchInv, Expanded
  <2>4. Followed \in SUBSET (Concepts \X Concepts)
    BY <1>1, QueryFacts
  <2>5. \A e \in Followed : e[1] \in Found(distance) => e[2] \in Found(distance)
    <3>1. ASSUME NEW e \in Followed, e[1] \in Found(distance) PROVE e[2] \in Found(distance)
      <4>1. e = <<e[1], e[2]>> /\ e[2] \in Concepts
        BY <2>4
      <4>2. e[2] \in Leads(e[1])
        BY <4>1 DEF Leads
      <4> QED BY <2>3, <3>1, <4>2
    <3> QED BY <3>1
  <2>6. {query.from} \in SUBSET Concepts /\ {query.from} # {} /\ {query.from} \subseteq Found(distance)
    BY <1>1 DEF FoundIsReached, Found
  <2>7. ConceptCount \in Nat
    BY PathAssumption
  <2>8. Reachable \subseteq Found(distance)
    BY <2>4, <2>5, <2>6, <2>7, SpreadStaysIn DEF Reachable, Reached
  <2> QED BY <1>6, <2>1, <2>8
<1>8. cut # {} => Reach # {query.from}
  BY <1>1, <1>2 DEF FoundIsReached
<1>9. query.to \in Near /\ "nodes" \notin cut => distance[query.to] # -1
  BY <1>5, <1>6, SearchEnds
<1>10. ASSUME NEW c \in Found(distance) \ {query.from}
       PROVE  /\ parent[c][1].next = c /\ distance[c] = distance[parent[c][1].at] + 1
              /\ parent[c][1].against => query.mode # "outgoing" /\ parent[c][1].by.type \notin Symmetric
              /\ query.mode = "incoming" => parent[c][1].against \/ parent[c][1].by.type \in Symmetric
              /\ parent[c][1].by.type \in Symmetric =>
                   {parent[c][1].at, parent[c][1].next} = {parent[c][1].by.from, parent[c][1].by.to}
  <2>1. PICK t \in Followable : /\ parent[c] = <<t>> /\ t.next = c
                                /\ distance[c] = distance[t.at] + 1
    BY <1>1 DEF SearchInv, Followable
  <2>2. PICK r \in graph : r \in AllRelations /\ t \in Ways(r, query.mode)
    BY <1>1, QueryFacts
  <2>3. query.mode \in {"outgoing", "incoming", "both"}
    BY <1>1, QueryFacts
  <2>4. /\ t.by = r /\ {t.at, t.next} = {r.from, r.to}
        /\ t.against => query.mode # "outgoing" /\ r.type \notin Symmetric
        /\ query.mode = "incoming" => t.against \/ r.type \in Symmetric
    BY <2>2, <2>3, WayFacts
  <2>5. parent[c][1] = t
    BY <2>1
  <2> QED BY <2>1, <2>4, <2>5
<1> QED BY <1>4, <1>7, <1>8, <1>9, <1>10

----------------------------------------------------------------------------
(* The learning path.                                                      *)

LEMMA LeastIsIn == ASSUME NEW T \in SUBSET Concepts, T # {} PROVE Least(T) \in T
<1>1. T \in SUBSET Nat
  BY PathAssumption DEF Concepts
<1>2. \E c \in T : \A d \in T : c <= d
  BY <1>1, LeastOf
<1> QED BY <1>2 DEF Least

LEMMA LeftOutIs ==
    ASSUME PathTypes, query.kind = "path", NEW c \in Concepts
    PROVE  LeftOut(c) = Leads(c) \ Found(distance) /\ LeftOut(c) \in SUBSET Concepts
<1>1. Followed = {<<e[2], e[1]>> : e \in PrerequisitesOf(graph)}
  BY DEF Followed
<1>2. Followed \in SUBSET (Concepts \X Concepts)
  BY QueryFacts
<1>3. ASSUME NEW d PROVE d \in Leads(c) <=> \E e \in PrerequisitesOf(graph) : e[2] = c /\ e[1] = d
  <2>1. ASSUME d \in Leads(c) PROVE \E e \in PrerequisitesOf(graph) : e[2] = c /\ e[1] = d
    <3>1. PICK e \in PrerequisitesOf(graph) : <<e[2], e[1]>> = <<c, d>>
      BY <1>1, <2>1 DEF Leads
    <3> QED BY <3>1
  <2>2. ASSUME NEW e \in PrerequisitesOf(graph), e[2] = c, e[1] = d PROVE d \in Leads(c)
    <3>1. <<c, d>> \in Followed
      BY <1>1, <2>2
    <3> QED BY <1>2, <3>1 DEF Leads
  <2> QED BY <2>1, <2>2
<1>4. LeftOut(c) = Leads(c) \ Found(distance)
  BY <1>3 DEF LeftOut
<1> QED BY <1>4 DEF Leads

\* One prerequisite is found, or the head of the queue has no more, or there is
\* no room for one.
LEMMA CloseStep == ASSUME PathInv, Close PROVE PathInv'
<1> DEFINE c == Head(queue)
           x == Least(LeftOut(c))
<1>1. /\ PathTypes /\ FoundIsReached /\ LearningInv /\ query.kind = "path" /\ queue # <<>> /\ phase = "search"
      /\ UNCHANGED <<graph, query, parent, degree, layers, order>>
      /\ cut = {} /\ layers = <<>> /\ order = <<>>
  BY DEF PathInv, Close, LearningInv
<1>2. queue \in Seq(Concepts)
  BY <1>1 DEF PathTypes
<1>3. /\ c \in Queued /\ c \in Concepts /\ Tail(queue) \in Seq(Concepts)
      /\ Queued \subseteq {c} \cup {Tail(queue)[i] : i \in DOMAIN Tail(queue)}
      /\ \A i \in DOMAIN Tail(queue) : Tail(queue)[i] = queue[i + 1] /\ i + 1 \in DOMAIN queue
  BY <1>1, <1>2, QueueFacts
<1>4. LeftOut(c) = Leads(c) \ Found(distance) /\ LeftOut(c) \in SUBSET Concepts
  BY <1>1, <1>3, LeftOutIs
<1>5. /\ Reached' = Reached /\ Reachable' = Reachable /\ \A y : Leads(y)' = Leads(y)
  BY <1>1, PathStands
<1>6. /\ c \in Found(distance) /\ distance[c] \in Nat /\ query.nodes \in Nat /\ query.from \in Concepts
      /\ Cardinality(Found(distance)) \in Nat /\ IsFiniteSet(Found(distance))
      /\ Found(distance) \subseteq Concepts
  BY <1>1, <1>3, FoundFacts, QueryFacts DEF FoundIsReached
<1>7. /\ Layered' = {} /\ ToSet(order)' = {} /\ LayersFollow' /\ OrderFollows'
      /\ \A i, j \in DOMAIN order' : order'[i] = order'[j] => i = j
  BY <1>1 DEF Layered, ToSet, LayersFollow, OrderFollows
<1>8. LeftOut(c) # {} => x \in Concepts \ Found(distance) /\ x \in Leads(c)
  BY <1>4, LeastIsIn
<1>9. \/ LeftOut(c) = {} /\ queue' = Tail(queue) /\ UNCHANGED <<distance, cut, phase>>
      \/ /\ LeftOut(c) # {} /\ Full /\ cut' = {"nodes"} /\ phase' = "done" /\ UNCHANGED <<distance, queue>>
      \/ /\ LeftOut(c) # {} /\ ~Full /\ distance' = [distance EXCEPT ![x] = distance[c] + 1]
         /\ queue' = Append(queue, x) /\ UNCHANGED <<cut, phase>>
  BY DEF Close
<1>10. c \in Reached[distance[c]] /\ query.from \in Found(distance) /\ Queued \subseteq Found(distance)
       /\ distance[query.from] = 0
  BY <1>1, <1>6 DEF FoundIsReached, Found
<1>11. Found(distance) \subseteq Reachable
  BY <1>1, ReachedFacts, FoundFacts DEF FoundIsReached
<1> HIDE DEF c, x
<1>12. CASE LeftOut(c) = {} /\ queue' = Tail(queue) /\ UNCHANGED <<distance, cut, phase>>
  <2>1. Queued' = {Tail(queue)[i] : i \in DOMAIN Tail(queue)}
    BY <1>12 DEF Queued
  <2>2. Queued' \subseteq Queued
    BY <1>3, <2>1 DEF Queued
  <2>3. Found(distance)' = Found(distance)
    BY <1>12 DEF Found
  <2>4. Expanded' \subseteq Expanded \cup {c}
    BY <1>3, <2>1, <2>3 DEF Expanded
  <2>5. PathTypes'
    BY <1>1, <1>3, <1>12 DEF PathTypes
  <2>6. FoundIsReached'
    BY <1>1, <1>5, <1>12, <2>2, <2>3 DEF FoundIsReached
  <2>7. \A y \in Expanded' : Leads(y)' \subseteq Found(distance)'
    BY <1>1, <1>4, <1>5, <1>12, <2>3, <2>4 DEF LearningInv
  <2>8. LearningInv'
    BY <1>1, <1>7, <1>12, <2>7 DEF LearningInv
  <2> QED BY <1>1, <2>5, <2>6, <2>8 DEF PathInv
<1>13. CASE /\ LeftOut(c) # {} /\ Full /\ cut' = {"nodes"} /\ phase' = "done" /\ UNCHANGED <<distance, queue>>
  <2>1. /\ Found(distance)' = Found(distance) /\ Queued' = Queued /\ Expanded' = Expanded
    BY <1>13 DEF Found, Queued, Expanded
  <2>2. x \in Reachable
    BY <1>1, <1>6, <1>8, <1>10, <1>11, <1>13, ReachedFacts
  <2>3. Cardinality(Reachable) > query.nodes
    <3>1. Cardinality(Found(distance) \cup {x}) = Cardinality(Found(distance)) + 1
      BY <1>6, <1>8, <1>13, FS_AddElement
    <3>2. Found(distance) \cup {x} \in SUBSET Reachable
      BY <1>11, <2>2
    <3>3. IsFiniteSet(Reachable)
      <4>1. Reachable \in SUBSET Concepts
        BY <1>1, ReachedFacts, PathAssumption DEF Reachable
      <4>2. IsFiniteSet(Concepts)
        BY FS_Interval, PathAssumption DEF Concepts
      <4> QED BY <4>1, <4>2, FS_Subset
    <3>4. Cardinality(Found(distance) \cup {x}) <= Cardinality(Reachable)
      BY <3>2, <3>3, FS_Subset
    <3>5. Cardinality(Reachable) \in Nat
      BY <3>3, FS_CardinalityType
    <3> QED BY <1>6, <1>13, <3>1, <3>4, <3>5 DEF Full
  <2>4. Reachable # {query.from}
    BY <1>8, <1>10, <1>13, <2>2
  <2>5. PathTypes'
    BY <1>1, <1>13 DEF PathTypes
  <2>6. FoundIsReached'
    BY <1>1, <1>5, <1>13, <2>1, <2>4 DEF FoundIsReached
  <2>7. LearningInv'
    BY <1>1, <1>5, <1>7, <1>13, <2>1, <2>3 DEF LearningInv
  <2> QED BY <1>1, <2>5, <2>6, <2>7 DEF PathInv
<1>14. CASE /\ LeftOut(c) # {} /\ ~Full /\ distance' = [distance EXCEPT ![x] = distance[c] + 1]
            /\ queue' = Append(queue, x) /\ UNCHANGED <<cut, phase>>
  <2>1. x \in Concepts \ Found(distance) /\ x \in Leads(c) /\ distance[c] + 1 \in Nat
    BY <1>6, <1>8, <1>14
  <2>2. /\ distance' \in [Concepts -> Nat \cup {-1}]
        /\ distance'[x] = distance[c] + 1 /\ \A y \in Found(distance) : distance'[y] = distance[y]
        /\ Found(distance)' = Found(distance) \cup {x}
        /\ Cardinality(Found(distance)') = Cardinality(Found(distance)) + 1
    BY <1>1, <1>14, <2>1, OneFound
  <2>3. /\ queue' \in Seq(Concepts) /\ DOMAIN queue = 1..Len(queue) /\ Len(queue) \in Nat
        /\ DOMAIN queue' = 1..(Len(queue) + 1) /\ \A i \in DOMAIN queue : queue'[i] = queue[i]
        /\ queue'[Len(queue) + 1] = x
    BY <1>2, <1>14, <2>1, QueueFacts
  <2>4. Queued' = Queued \cup {x}
    BY <2>3 DEF Queued
  <2>5. PathTypes'
    BY <1>1, <1>14, <2>2, <2>3 DEF PathTypes
  <2>6. x \in Reached[distance[c] + 1]
    BY <1>1, <1>6, <1>10, <2>1, ReachedFacts
  <2>7. FoundIsReached'
    <3>1. \A y \in Found(distance)' : y \in Reached'[distance'[y]]
      BY <1>1, <1>5, <2>2, <2>6 DEF FoundIsReached
    <3>2. Cardinality(Found(distance)') <= query.nodes
      BY <1>6, <1>14, <2>2 DEF Full
    <3>3. cut' = {} /\ distance'[query.from] = 0 /\ Queued' \subseteq Found(distance)'
      BY <1>1, <1>10, <1>14, <2>2, <2>4
    <3> QED BY <1>1, <3>1, <3>2, <3>3 DEF FoundIsReached
  <2>8. \A y \in Expanded' : Leads(y)' \subseteq Found(distance)'
    BY <1>1, <1>5, <2>2, <2>4 DEF LearningInv, Expanded
  <2>9. LearningInv'
    BY <1>1, <1>7, <1>14, <2>8 DEF LearningInv
  <2> QED BY <1>1, <2>5, <2>7, <2>9 DEF PathInv
<1> QED BY <1>9, <1>12, <1>13, <1>14

LEMMA InsideFacts ==
    ASSUME PathTypes
    PROVE  /\ Inside \in SUBSET (Closure \X Closure) /\ Closure \in SUBSET Concepts
           /\ \A done, c : LET into == {e \in Inside : e[2] = c /\ e[1] \notin done}
                           IN  IsFiniteSet(into) /\ Cardinality(into) \in Nat
<1>1. Closure \in SUBSET Concepts /\ IsFiniteSet(Closure)
  BY FoundFacts DEF Closure
<1>2. Inside \in SUBSET (Closure \X Closure)
  BY DEF Inside, PrerequisitesOf
<1>3. IsFiniteSet(Closure \X Closure)
  BY <1>1, FS_Product
<1>4. ASSUME NEW done, NEW c
      PROVE  LET into == {e \in Inside : e[2] = c /\ e[1] \notin done}
             IN  IsFiniteSet(into) /\ Cardinality(into) \in Nat
  <2> DEFINE into == {e \in Inside : e[2] = c /\ e[1] \notin done}
  <2>1. into \in SUBSET (Closure \X Closure)
    BY <1>2
  <2> HIDE DEF into
  <2>2. IsFiniteSet(into) /\ Cardinality(into) \in Nat
    BY <1>3, <2>1, FS_Subset, FS_CardinalityType
  <2> QED BY <2>2 DEF into
<1> QED BY <1>1, <1>2, <1>4

\* A degree counts the prerequisites that are not done; none means ready.
LEMMA DegreeFacts ==
    ASSUME PathTypes, NEW done
    PROVE  /\ Outstanding(done) \in [Concepts -> Nat]
           /\ \A c \in Concepts : Outstanding(done)[c] = 0 <=> \A e \in Inside : e[2] = c => e[1] \in done
           /\ \A c \in Ready(Outstanding(done), done) : /\ c \in Closure /\ c \notin done
                                                 /\ \A e \in Inside : e[2] = c => e[1] \in done
           /\ \A cs : cs \cap done = {} => Lower(Outstanding(done), cs) = Outstanding(done \cup cs)
<1> DEFINE Into(c, d) == {e \in Inside : e[2] = c /\ e[1] \notin d}
<1>1. \A c, d : IsFiniteSet(Into(c, d)) /\ Cardinality(Into(c, d)) \in Nat
  BY InsideFacts
<1>2. Outstanding(done) = [c \in Concepts |-> Cardinality(Into(c, done))]
  BY DEF Outstanding
<1>3. \A c : Cardinality(Into(c, done)) = 0 <=> Into(c, done) = {}
  <2> HIDE DEF Into
  <2> QED BY <1>1, FS_EmptySet
<1>4. \A c \in Concepts : Outstanding(done)[c] = 0 <=> \A e \in Inside : e[2] = c => e[1] \in done
  <2>1. ASSUME NEW c \in Concepts
        PROVE  Outstanding(done)[c] = 0 <=> \A e \in Inside : e[2] = c => e[1] \in done
    <3>1. Outstanding(done)[c] = Cardinality(Into(c, done))
      BY <1>2
    <3>2. Into(c, done) = {} <=> \A e \in Inside : e[2] = c => e[1] \in done
      OBVIOUS
    <3> HIDE DEF Into
    <3> QED BY <1>3, <3>1, <3>2
  <2> QED BY <2>1
<1>5. Outstanding(done) \in [Concepts -> Nat]
  <2> HIDE DEF Into
  <2> QED BY <1>1, <1>2
<1>6. \A c \in Ready(Outstanding(done), done) : /\ c \in Closure /\ c \notin done
                                         /\ \A e \in Inside : e[2] = c => e[1] \in done
  <2>1. Closure \in SUBSET Concepts
    BY InsideFacts
  <2> QED BY <1>4, <2>1 DEF Ready
<1>7. ASSUME NEW cs, cs \cap done = {} PROVE Lower(Outstanding(done), cs) = Outstanding(done \cup cs)
  <2>1. ASSUME NEW c \in Concepts
        PROVE  Outstanding(done)[c] - Cardinality({e \in Inside : e[2] = c /\ e[1] \in cs})
                  = Outstanding(done \cup cs)[c]
    <3> DEFINE A == Into(c, done)
               B == {e \in Inside : e[2] = c /\ e[1] \in cs}
    <3>1. B \in SUBSET A /\ Into(c, done \cup cs) = A \ B /\ A \cap B = B
      BY <1>7
    <3>2. IsFiniteSet(A) /\ Cardinality(A) \in Nat
      BY <1>1
    <3>3. IsFiniteSet(B) /\ Cardinality(B) \in Nat
      <4> HIDE DEF A, B
      <4> QED BY <3>1, <3>2, FS_Subset, FS_CardinalityType
    <3>4. Cardinality(A \ B) = Cardinality(A) - Cardinality(A \cap B)
      <4> HIDE DEF A, B
      <4> QED BY <3>2, <3>3, FS_Difference
    <3>5. Outstanding(done)[c] = Cardinality(A) /\ Outstanding(done \cup cs)[c] = Cardinality(Into(c, done \cup cs))
      BY DEF Outstanding
    <3> HIDE DEF A, B, Into
    <3>6. Outstanding(done)[c] - Cardinality(B) = Outstanding(done \cup cs)[c]
      BY <3>1, <3>4, <3>5
    <3> QED BY <3>6 DEF B
  <2>2. Outstanding(done \cup cs) = [c \in Concepts |-> Outstanding(done \cup cs)[c]]
    BY DEF Outstanding
  <2>3. Lower(Outstanding(done), cs) = [c \in Concepts |-> Outstanding(done)[c] - Cardinality({e \in Inside : e[2] = c /\ e[1] \in cs})]
    BY DEF Lower
  <2> QED BY <2>1, <2>2, <2>3
<1> QED BY <1>4, <1>5, <1>6, <1>7

\* There is something ready as long as not all is done: prerequisites have no
\* cycle, so one with the fewest behind it has none that is not done.
LEMMA ReadyExists ==
    ASSUME PathTypes, NEW done, Closure \ done # {}
    PROVE  Ready(Outstanding(done), done) # {}
<1> DEFINE P == PrerequisitesOf(graph)
           E == {<<e[2], e[1]>> : e \in P}
           B(c) == Spread(E, {c})[ConceptCount]
           T == {Cardinality(B(c)) : c \in Closure \ done}
<1>1. P \in SUBSET (Concepts \X Concepts) /\ E \in SUBSET (Concepts \X Concepts)
  <2>1. \A r \in graph : r.from \in Concepts /\ r.to \in Concepts
    BY DEF PathTypes, AllRelations
  <2>2. P \in SUBSET (Concepts \X Concepts)
    BY <2>1 DEF PrerequisitesOf
  <2> QED BY <2>2
<1>2. /\ Inside = {e \in P : e[1] \in Closure /\ e[2] \in Closure}
      /\ \A e \in P : e[2] \notin B(e[1])
  BY DEF Inside, PathTypes, Acyclic, Behind
<1>3. \A e \in P : <<e[2], e[1]>> \in E
  OBVIOUS
<1>4. Closure \in SUBSET Concepts /\ IsFiniteSet(Concepts) /\ ConceptCount \in Nat
  <2>1. ConceptCount \in Nat
    BY PathAssumption
  <2>2. IsFiniteSet(Concepts)
    BY <2>1, FS_Interval DEF Concepts
  <2> QED BY <2>1, <2>2, InsideFacts
<1> HIDE DEF P, E
<1>5. ASSUME NEW c \in Concepts
      PROVE  /\ c \in B(c) /\ B(c) \in SUBSET Concepts /\ \A d \in E : d[1] \in B(c) => d[2] \in B(c)
             /\ IsFiniteSet(B(c)) /\ Cardinality(B(c)) \in Nat
  <2> DEFINE roots == {c}
  <2>1. roots \in SUBSET Concepts /\ roots # {}
    OBVIOUS
  <2> HIDE DEF roots
  <2>2. LET S == Spread(E, roots) IN
        /\ S \in [Nat -> SUBSET Concepts] /\ S[0] = roots
        /\ \A d \in E : d[1] \in S[ConceptCount] => d[2] \in S[ConceptCount]
    BY <1>1, <2>1, SpreadFacts
  <2>3. Spread(E, roots)[0] \subseteq Spread(E, roots)[ConceptCount]
    BY <1>1, <2>1, SpreadGrows
  <2>4. B(c) = Spread(E, roots)[ConceptCount]
    BY DEF roots
  <2>5. c \in roots
    BY DEF roots
  <2>6. /\ c \in B(c) /\ B(c) \in SUBSET Concepts /\ \A d \in E : d[1] \in B(c) => d[2] \in B(c)
    <3> HIDE DEF B
    <3> QED BY <1>4, <2>2, <2>3, <2>4, <2>5
  <2> HIDE DEF B
  <2> QED BY <1>4, <2>6, FS_Subset, FS_CardinalityType
<1>6. SUFFICES ASSUME Ready(Outstanding(done), done) = {} PROVE FALSE
  OBVIOUS
<1>7. ASSUME NEW c \in Closure \ done PROVE \E y \in Closure \ done : <<y, c>> \in P
  <2>1. Outstanding(done)[c] # 0
    BY <1>6 DEF Ready
  <2>2. PICK e \in Inside : e[2] = c /\ e[1] \notin done
    BY <1>4, <2>1, DegreeFacts
  <2>3. e \in P /\ e[1] \in Closure /\ e = <<e[1], e[2]>>
    BY <1>1, <1>2, <2>2
  <2> QED BY <2>2, <2>3
<1>8. T \in SUBSET Nat /\ T # {}
  <2> HIDE DEF B
  <2> QED BY <1>4, <1>5
<1>9. \E n \in T : \A k \in T : n <= k
  <2> HIDE DEF T
  <2> QED BY <1>8, LeastOf
<1> HIDE DEF B
<1>10. PICK x \in Closure \ done : \A c \in Closure \ done : Cardinality(B(x)) <= Cardinality(B(c))
  BY <1>9
<1>11. PICK y \in Closure \ done : <<y, x>> \in P
  BY <1>7
<1>12. y \in B(x)
  <2>1. <<<<y, x>>[2], <<y, x>>[1]>> \in E
    BY <1>3, <1>11
  <2>2. <<x, y>> \in E
    BY <2>1
  <2> QED BY <1>4, <1>5, <2>2
<1>13. B(y) \subseteq B(x)
  <2>1. {y} \in SUBSET Concepts /\ {y} # {} /\ {y} \subseteq B(x)
    BY <1>4, <1>12
  <2>2. \A d \in E : d[1] \in B(x) => d[2] \in B(x)
    BY <1>4, <1>5
  <2>3. Spread(E, {y})[ConceptCount] \subseteq B(x)
    BY <1>1, <1>4, <2>1, <2>2, SpreadStaysIn
  <2> QED BY <2>3 DEF B
<1>14. x \notin B(y)
  <2>1. <<y, x>>[2] \notin B(<<y, x>>[1])
    BY <1>2, <1>11
  <2> QED BY <2>1
<1>15. x \in B(x) /\ IsFiniteSet(B(x)) /\ Cardinality(B(x)) \in Nat /\ Cardinality(B(y)) \in Nat
  BY <1>4, <1>5
<1>16. Cardinality(B(y)) <= Cardinality(B(x)) /\ (Cardinality(B(y)) = Cardinality(B(x)) => B(y) = B(x))
  BY <1>13, <1>15, FS_Subset
<1>17. Cardinality(B(x)) <= Cardinality(B(y))
  BY <1>10
<1> QED BY <1>14, <1>15, <1>16, <1>17

\* The relations inside the closure do not change once it is complete.
LEMMA InsideStands ==
    ASSUME UNCHANGED <<graph, distance>>
    PROVE  /\ Inside' = Inside /\ Closure' = Closure
           /\ \A done : Outstanding(done)' = Outstanding(done)
<1>1. PrerequisitesOf(graph)' = PrerequisitesOf(graph) /\ Closure' = Closure
  BY DEF PrerequisitesOf, Closure, Found
<1>2. Inside' = Inside
  BY <1>1 DEF Inside
<1> QED BY <1>1, <1>2 DEF Outstanding

\* What a step of the layers or of the order leaves as it is.
LEMMA LearningStands ==
    ASSUME PathInv, query.kind = "path",
           UNCHANGED <<graph, query, distance, parent, queue, cut>>,
           layers' \in Seq(SUBSET Concepts), order' \in Seq(Concepts),
           degree' \in [Concepts -> Int], phase' \in {"layers", "order", "done"}
    PROVE  /\ PathTypes' /\ FoundIsReached' /\ query'.kind = "path"
           /\ \A y \in Expanded' : Leads(y)' \subseteq Found(distance)'
<1>1. PathTypes /\ FoundIsReached /\ LearningInv
  BY DEF PathInv
<1>2. /\ Found(distance)' = Found(distance) /\ Queued' = Queued /\ Expanded' = Expanded
  BY DEF Found, Queued, Expanded
<1>3. Reached' = Reached /\ Reachable' = Reachable /\ \A y : Leads(y)' = Leads(y)
  BY PathStands
<1>4. PathTypes'
  BY <1>1 DEF PathTypes
<1>5. FoundIsReached'
  BY <1>1, <1>2, <1>3 DEF FoundIsReached
<1>6. \A y \in Expanded' : Leads(y)' \subseteq Found(distance)'
  BY <1>1, <1>2, <1>3 DEF LearningInv
<1> QED BY <1>4, <1>5, <1>6

LEMMA NoneDone ==
    ASSUME PathTypes
    PROVE  Indegree = Outstanding({}) /\ Indegree \in [Concepts -> Int]
<1>1. \A c : {e \in Inside : e[2] = c /\ e[1] \notin {}} = {e \in Inside : e[2] = c}
  OBVIOUS
<1>2. Indegree = Outstanding({})
  BY <1>1 DEF Indegree, Outstanding
<1> QED BY <1>2, DegreeFacts

LEMMA BeginLayersStep == ASSUME PathInv, BeginLayers PROVE PathInv'
<1>1. /\ PathTypes /\ LearningInv /\ query.kind = "path" /\ phase = "search" /\ queue = <<>>
      /\ UNCHANGED <<graph, query, distance, parent, queue, cut, layers, order>>
      /\ degree' = Indegree /\ phase' = "layers" /\ cut = {} /\ layers = <<>> /\ order = <<>>
  BY DEF PathInv, BeginLayers, LearningInv
<1>2. degree' = Outstanding({}) /\ degree' \in [Concepts -> Int]
  BY <1>1, NoneDone
<1>3. layers' \in Seq(SUBSET Concepts) /\ order' \in Seq(Concepts)
  BY <1>1 DEF PathTypes
<1>4. /\ PathTypes' /\ FoundIsReached' /\ query'.kind = "path"
      /\ \A y \in Expanded' : Leads(y)' \subseteq Found(distance)'
  BY <1>1, <1>2, <1>3, LearningStands
<1>5. /\ Layered' = {} /\ ToSet(order)' = {} /\ LayersFollow' /\ OrderFollows'
      /\ \A i, j \in DOMAIN order' : order'[i] = order'[j] => i = j
  BY <1>1 DEF Layered, ToSet, LayersFollow, OrderFollows
<1>6. Outstanding(Layered)' = Outstanding({})
  <2>1. Outstanding({})' = Outstanding({})
    BY <1>1, InsideStands
  <2>2. Outstanding(Layered)' = Outstanding({})'
    BY <1>5 DEF Outstanding
  <2> QED BY <2>1, <2>2
<1>7. LearningInv'
  BY <1>1, <1>2, <1>4, <1>5, <1>6 DEF LearningInv
<1> QED BY <1>4, <1>7 DEF PathInv

LEMMA AddLayerStep == ASSUME PathInv, AddLayer PROVE PathInv'
<1> DEFINE R == Ready(degree, Layered)
<1>1. /\ PathTypes /\ phase = "layers" /\ UNCHANGED <<graph, query, distance, parent, queue, cut, order>>
  BY DEF PathInv, AddLayer
<1>2. query.kind = "path"
  BY <1>1 DEF PathInv, SearchInv
<1>3. LearningInv /\ degree = Outstanding(Layered) /\ order = <<>> /\ cut = {} /\ queue = <<>>
      /\ Layered \subseteq Closure /\ LayersFollow
  BY <1>1, <1>2 DEF PathInv, LearningInv
<1>4. /\ Closure \in SUBSET Concepts /\ layers \in Seq(SUBSET Concepts) /\ degree \in [Concepts -> Int]
      /\ order \in Seq(Concepts)
  BY <1>1, InsideFacts DEF PathTypes
<1>5. Inside' = Inside /\ Closure' = Closure /\ \A done : Outstanding(done)' = Outstanding(done)
  BY <1>1, InsideStands
<1>6. /\ ToSet(order)' = {} /\ OrderFollows' /\ \A i, j \in DOMAIN order' : order'[i] = order'[j] => i = j
  BY <1>1, <1>3 DEF ToSet, OrderFollows
<1>7. CASE R # {}
  <2>1. layers' = Append(layers, R) /\ degree' = Lower(Outstanding(Layered), R) /\ phase' = "layers"
    BY <1>1, <1>3, <1>7 DEF AddLayer
  <2>2. /\ \A c \in R : c \in Closure /\ c \notin Layered /\ \A e \in Inside : e[2] = c => e[1] \in Layered
        /\ degree' = Outstanding(Layered \cup R) /\ Outstanding(Layered \cup R) \in [Concepts -> Int]
    <3>1. \A c \in R : c \in Closure /\ c \notin Layered /\ \A e \in Inside : e[2] = c => e[1] \in Layered
      BY <1>1, <1>3, DegreeFacts
    <3>2. R \cap Layered = {}
      BY <3>1
    <3> HIDE DEF R
    <3> QED BY <1>1, <2>1, <3>1, <3>2, DegreeFacts
  <2>3. R \in SUBSET Concepts /\ R \subseteq Closure
    BY <1>4, <2>2
  <2> HIDE DEF R
  <2>4. /\ layers' \in Seq(SUBSET Concepts) /\ DOMAIN layers = 1..Len(layers) /\ Len(layers) \in Nat
        /\ DOMAIN layers' = 1..(Len(layers) + 1) /\ \A i \in DOMAIN layers : layers'[i] = layers[i]
        /\ layers'[Len(layers) + 1] = R
    BY <1>4, <2>1, <2>3
  <2>5. Layered' = Layered \cup R
    <3>1. \A c : c \in Layered <=> \E i \in DOMAIN layers : c \in layers[i]
      BY DEF Layered, ToSet
    <3>2. \A c : c \in Layered' <=> \E i \in DOMAIN layers' : c \in layers'[i]
      BY DEF Layered, ToSet
    <3>3. ASSUME NEW c PROVE c \in Layered' <=> c \in Layered \/ c \in R
      <4>1. c \in Layered' => c \in Layered \/ c \in R
        <5>1. ASSUME NEW i \in DOMAIN layers', c \in layers'[i] PROVE c \in Layered \/ c \in R
          <6>1. i \in DOMAIN layers \/ i = Len(layers) + 1
            BY <2>4
          <6> QED BY <2>4, <3>1, <5>1, <6>1
        <5> QED BY <3>2, <5>1
      <4>2. c \in Layered => c \in Layered'
        <5>1. ASSUME NEW i \in DOMAIN layers, c \in layers[i] PROVE c \in Layered'
          <6>1. i \in DOMAIN layers' /\ layers'[i] = layers[i]
            BY <2>4
          <6> QED BY <3>2, <5>1, <6>1
        <5> QED BY <3>1, <5>1
      <4>3. c \in R => c \in Layered'
        <5>1. Len(layers) + 1 \in DOMAIN layers'
          BY <2>4
        <5> QED BY <2>4, <3>2, <5>1
      <4> QED BY <4>1, <4>2, <4>3
    <3> QED BY <3>3
  <2>6. /\ PathTypes' /\ FoundIsReached' /\ query'.kind = "path"
        /\ \A y \in Expanded' : Leads(y)' \subseteq Found(distance)'
    BY <1>1, <1>2, <1>4, <2>1, <2>2, <2>4, LearningStands
  <2>7. LayersFollow'
    <3>1. ASSUME NEW j \in DOMAIN layers', NEW e \in Inside, e[2] \in layers'[j]
          PROVE  \E i \in DOMAIN layers' : i < j /\ e[1] \in layers'[i]
      <4>1. \E i \in DOMAIN layers : i < j /\ e[1] \in layers[i]
        <5>1. CASE j \in DOMAIN layers
          BY <1>3, <2>4, <3>1, <5>1 DEF LayersFollow
        <5>2. CASE j \notin DOMAIN layers
          <6>1. j = Len(layers) + 1 /\ e[1] \in Layered
            BY <2>2, <2>4, <3>1, <5>2
          <6>2. PICK i \in DOMAIN layers : e[1] \in layers[i]
            BY <6>1 DEF Layered, ToSet
          <6> QED BY <2>4, <6>1, <6>2
        <5> QED BY <5>1, <5>2
      <4>2. \A i \in DOMAIN layers : i \in DOMAIN layers' /\ layers'[i] = layers[i]
        BY <2>4
      <4> QED BY <4>1, <4>2
    <3> QED BY <1>5, <3>1 DEF LayersFollow
  <2>8. degree' = Outstanding(Layered)'
    <3>1. Outstanding(Layered)' = [c \in Concepts |->
                               Cardinality({e \in Inside' : e[2] = c /\ e[1] \notin Layered'})]
      BY DEF Outstanding
    <3>2. Outstanding(Layered \cup R) = [c \in Concepts |->
                               Cardinality({e \in Inside : e[2] = c /\ e[1] \notin Layered \cup R})]
      BY DEF Outstanding
    <3> QED BY <1>5, <2>2, <2>5, <3>1, <3>2
  <2>9. Layered' \subseteq Closure'
    BY <1>3, <1>5, <2>3, <2>5
  <2>10. LearningInv'
    BY <1>1, <1>3, <1>6, <2>1, <2>6, <2>7, <2>8, <2>9 DEF LearningInv
  <2> QED BY <2>6, <2>10 DEF PathInv
<1>8. CASE R = {}
  <2>1. layers' = layers /\ degree' = Indegree /\ phase' = "order"
    BY <1>1, <1>8 DEF AddLayer
  <2>2. degree' = Outstanding({}) /\ degree' \in [Concepts -> Int]
    BY <1>1, <2>1, NoneDone
  <2>3. Layered = Closure
    BY <1>1, <1>3, <1>8, ReadyExists
  <2>4. /\ PathTypes' /\ FoundIsReached' /\ query'.kind = "path"
        /\ \A y \in Expanded' : Leads(y)' \subseteq Found(distance)'
    BY <1>1, <1>2, <1>4, <2>1, <2>2, LearningStands
  <2>5. Layered' = Layered /\ LayersFollow'
    BY <1>3, <1>5, <2>1 DEF Layered, LayersFollow
  <2>6. degree' = Outstanding(ToSet(order))'
    BY <1>5, <1>6, <2>2 DEF Outstanding
  <2>7. LearningInv'
    BY <1>1, <1>3, <1>5, <1>6, <2>1, <2>3, <2>4, <2>5, <2>6 DEF LearningInv
  <2> QED BY <2>4, <2>7 DEF PathInv
<1> QED BY <1>7, <1>8

LEMMA AddNextStep == ASSUME PathInv, AddNext PROVE PathInv'
<1> DEFINE R == Ready(degree, ToSet(order))
           c == Least(R)
<1>1. /\ PathTypes /\ phase = "order" /\ UNCHANGED <<graph, query, distance, parent, queue, cut, layers>>
  BY DEF PathInv, AddNext
<1>2. query.kind = "path"
  BY <1>1 DEF PathInv, SearchInv
<1>3. /\ LearningInv /\ degree = Outstanding(ToSet(order)) /\ cut = {} /\ queue = <<>>
      /\ ToSet(order) \subseteq Closure /\ OrderFollows /\ Layered = Closure /\ LayersFollow
      /\ \A i, j \in DOMAIN order : order[i] = order[j] => i = j
  BY <1>1, <1>2 DEF PathInv, LearningInv
<1>4. /\ Closure \in SUBSET Concepts /\ layers \in Seq(SUBSET Concepts) /\ degree \in [Concepts -> Int]
      /\ order \in Seq(Concepts)
  BY <1>1, InsideFacts DEF PathTypes
<1>5. Inside' = Inside /\ Closure' = Closure /\ Layered' = Layered
  BY <1>1, InsideStands DEF Layered
<1>6. LayersFollow'
  BY <1>1, <1>3, <1>5 DEF LayersFollow
<1>7. CASE R # {}
  <2>1. order' = Append(order, c) /\ degree' = Lower(Outstanding(ToSet(order)), {c}) /\ phase' = "order"
    BY <1>1, <1>3, <1>7 DEF AddNext
  <2>2. \A x \in R : x \in Closure /\ x \notin ToSet(order) /\ \A e \in Inside : e[2] = x => e[1] \in ToSet(order)
    BY <1>1, <1>3, DegreeFacts
  <2>3. c \in R /\ c \in Concepts
    <3>1. R \in SUBSET Concepts
      BY <1>4, <2>2
    <3> HIDE DEF R
    <3> QED BY <1>7, <3>1, LeastIsIn
  <2> HIDE DEF c, R
  <2>4. degree' = Outstanding(ToSet(order) \cup {c}) /\ Outstanding(ToSet(order) \cup {c}) \in [Concepts -> Int]
    <3>1. {c} \cap ToSet(order) = {}
      BY <2>2, <2>3
    <3> QED BY <1>1, <2>1, <3>1, DegreeFacts
  <2>5. /\ order' \in Seq(Concepts) /\ DOMAIN order = 1..Len(order) /\ Len(order) \in Nat
        /\ DOMAIN order' = 1..(Len(order) + 1) /\ \A i \in DOMAIN order : order'[i] = order[i]
        /\ order'[Len(order) + 1] = c
    BY <1>4, <2>1, <2>3
  <2>6. ToSet(order)' = ToSet(order) \cup {c}
    BY <2>5 DEF ToSet
  <2>7. /\ PathTypes' /\ FoundIsReached' /\ query'.kind = "path"
        /\ \A y \in Expanded' : Leads(y)' \subseteq Found(distance)'
    BY <1>1, <1>2, <1>4, <2>1, <2>4, <2>5, LearningStands
  <2>8. OrderFollows'
    <3>1. ASSUME NEW j \in DOMAIN order', NEW e \in Inside, e[2] = order'[j]
          PROVE  \E i \in DOMAIN order' : i < j /\ order'[i] = e[1]
      <4>1. \E i \in DOMAIN order : i < j /\ order[i] = e[1]
        <5>1. CASE j \in DOMAIN order
          BY <1>3, <2>5, <3>1, <5>1 DEF OrderFollows
        <5>2. CASE j \notin DOMAIN order
          <6>1. j = Len(order) + 1 /\ e[1] \in ToSet(order)
            BY <2>2, <2>3, <2>5, <3>1, <5>2
          <6>2. PICK i \in DOMAIN order : e[1] = order[i]
            BY <6>1 DEF ToSet
          <6> QED BY <2>5, <6>1, <6>2
        <5> QED BY <5>1, <5>2
      <4>2. \A i \in DOMAIN order : i \in DOMAIN order' /\ order'[i] = order[i]
        BY <2>5
      <4> QED BY <4>1, <4>2
    <3> QED BY <1>5, <3>1 DEF OrderFollows
  <2>9. \A i, j \in DOMAIN order' : order'[i] = order'[j] => i = j
    <3>1. \A i \in DOMAIN order : order[i] \in ToSet(order) /\ order[i] # c
      BY <2>2, <2>3 DEF ToSet
    <3>2. \A i \in DOMAIN order' : i \in DOMAIN order \/ i = Len(order) + 1
      BY <2>5
    <3> QED BY <1>3, <2>5, <3>1, <3>2
  <2>10. degree' = Outstanding(ToSet(order))'
    <3>1. Outstanding(ToSet(order))' = [d \in Concepts |->
                                   Cardinality({e \in Inside' : e[2] = d /\ e[1] \notin ToSet(order)'})]
      BY DEF Outstanding
    <3>2. Outstanding(ToSet(order) \cup {c}) = [d \in Concepts |->
                                   Cardinality({e \in Inside : e[2] = d /\ e[1] \notin ToSet(order) \cup {c}})]
      BY DEF Outstanding
    <3> QED BY <1>5, <2>4, <2>6, <3>1, <3>2
  <2>11. ToSet(order)' \subseteq Closure' /\ Layered' = Closure'
    BY <1>3, <1>5, <2>2, <2>3, <2>6
  <2>12. LearningInv'
    BY <1>1, <1>3, <1>6, <2>1, <2>7, <2>8, <2>9, <2>10, <2>11 DEF LearningInv
  <2> QED BY <2>7, <2>12 DEF PathInv
<1>8. CASE R = {}
  <2>1. order' = order /\ degree' = degree /\ phase' = "done"
    BY <1>1, <1>8 DEF AddNext
  <2>2. ToSet(order) = Closure
    BY <1>1, <1>3, <1>8, ReadyExists
  <2>3. /\ PathTypes' /\ FoundIsReached' /\ query'.kind = "path"
        /\ \A y \in Expanded' : Leads(y)' \subseteq Found(distance)'
    BY <1>1, <1>2, <1>4, <2>1, LearningStands
  <2>4. ToSet(order)' = ToSet(order) /\ OrderFollows'
    BY <1>3, <1>5, <2>1 DEF ToSet, OrderFollows
  <2>5. LearningInv'
    BY <1>1, <1>3, <1>5, <1>6, <2>1, <2>2, <2>3, <2>4 DEF LearningInv
  <2> QED BY <2>3, <2>5 DEF PathInv
<1> QED BY <1>7, <1>8

LEMMA LearningOrdered == ASSUME PathInv PROVE LearningOrderHolds
<1> SUFFICES ASSUME phase = "done", query.kind = "path"
             PROVE  LET behind == Behind(PrerequisitesOf(graph), {query.from}) IN
                    IF cut # {} THEN Cardinality(behind) > query.nodes
                    ELSE /\ ToSet(order) = behind /\ Len(order) = Cardinality(behind)
                         /\ Layered = behind
                         /\ \A e \in Inside :
                               /\ \E i, j \in DOMAIN order : i < j /\ order[i] = e[1] /\ order[j] = e[2]
                               /\ \E i, j \in DOMAIN layers :
                                     i < j /\ e[1] \in layers[i] /\ e[2] \in layers[j]
  BY DEF LearningOrderHolds
<1>1. PathTypes /\ FoundIsReached /\ LearningInv
  BY DEF PathInv
<1>2. Behind(PrerequisitesOf(graph), {query.from}) = Reachable
  BY DEF Behind, Reachable, Reached, Followed
<1>3. CASE cut # {}
  BY <1>1, <1>2, <1>3 DEF LearningInv
<1>4. CASE cut = {}
  <2>1. /\ queue = <<>> /\ Layered = Closure /\ ToSet(order) = Closure /\ LayersFollow /\ OrderFollows
        /\ \A i, j \in DOMAIN order : order[i] = order[j] => i = j
        /\ \A c \in Expanded : Leads(c) \subseteq Found(distance)
    BY <1>1, <1>4 DEF LearningInv
  <2>2. Closure \subseteq Reachable
    BY <1>1, ReachedFacts, FoundFacts DEF FoundIsReached, Closure
  <2>3. Reachable \subseteq Closure
    <3>1. \A c \in Found(distance) : Leads(c) \subseteq Found(distance)
      BY <2>1 DEF Expanded, Queued
    <3>2. Followed \in SUBSET (Concepts \X Concepts) /\ query.from \in Concepts
      BY <1>1, QueryFacts
    <3>3. \A e \in Followed : e[1] \in Found(distance) => e[2] \in Found(distance)
      <4>1. ASSUME NEW e \in Followed, e[1] \in Found(distance) PROVE e[2] \in Found(distance)
        <5>1. e = <<e[1], e[2]>> /\ e[2] \in Concepts
          BY <3>2
        <5>2. e[2] \in Leads(e[1])
          BY <5>1 DEF Leads
        <5> QED BY <3>1, <4>1, <5>2
      <4> QED BY <4>1
    <3>4. {query.from} \in SUBSET Concepts /\ {query.from} # {} /\ {query.from} \subseteq Found(distance)
      BY <1>1, <3>2 DEF FoundIsReached, Found
    <3>5. ConceptCount \in Nat
      BY PathAssumption
    <3> QED BY <3>2, <3>3, <3>4, <3>5, SpreadStaysIn DEF Reachable, Reached, Closure
  <2>4. Closure = Reachable
    BY <2>2, <2>3
  <2>5. Len(order) = Cardinality(Closure)
    <3>1. order \in Seq(Concepts)
      BY <1>1 DEF PathTypes
    <3>2. Len(order) \in Nat /\ DOMAIN order = 1..Len(order) /\ order \in [1..Len(order) -> ToSet(order)]
      BY <3>1 DEF ToSet
    <3>3. IsFiniteSet(1..Len(order)) /\ Cardinality(1..Len(order)) = Len(order)
      BY <3>2, FS_Interval
    <3>4. \A y \in ToSet(order) : \E i \in 1..Len(order) : order[i] = y
      BY <3>2 DEF ToSet
    <3>5. \A i, j \in 1..Len(order) : order[i] = order[j] => i = j
      BY <2>1, <3>2
    <3>6. Cardinality(ToSet(order)) = Cardinality(1..Len(order))
      BY <3>2, <3>3, <3>4, <3>5, ImageFinite
    <3> QED BY <2>1, <3>3, <3>6
  <2>6. ASSUME NEW e \in Inside
        PROVE  /\ \E i, j \in DOMAIN order : i < j /\ order[i] = e[1] /\ order[j] = e[2]
               /\ \E i, j \in DOMAIN layers : i < j /\ e[1] \in layers[i] /\ e[2] \in layers[j]
    <3>1. e[2] \in Closure
      BY DEF Inside
    <3>2. PICK j \in DOMAIN order : e[2] = order[j]
      BY <2>1, <3>1 DEF ToSet
    <3>3. PICK k \in DOMAIN layers : e[2] \in layers[k]
      BY <2>1, <3>1 DEF Layered, ToSet
    <3>4. \E i \in DOMAIN order : i < j /\ order[i] = e[1]
      BY <2>1, <3>2 DEF OrderFollows
    <3>5. \E i \in DOMAIN layers : i < k /\ e[1] \in layers[i]
      BY <2>1, <3>3 DEF LayersFollow
    <3> QED BY <3>2, <3>3, <3>4, <3>5
  <2> QED BY <1>2, <1>4, <2>1, <2>4, <2>5, <2>6
<1> QED BY <1>3, <1>4

LEMMA PathStepInv == ASSUME PathInv, [PathNext]_pathVars PROVE PathInv'
<1>1. CASE UNCHANGED pathVars
  <2>1. UNCHANGED <<graph, query, distance, parent, queue, cut, degree, layers, order, phase>>
    BY <1>1 DEF pathVars
  <2>2. /\ Reached' = Reached /\ Reachable' = Reachable /\ (\A y : Leads(y)' = Leads(y)) /\ Near' = Near
        /\ Found(distance)' = Found(distance) /\ Full' = Full /\ Queued' = Queued /\ Expanded' = Expanded
        /\ Arrived' = Arrived
    BY <2>1, PathStands DEF Found, Full, Queued, Expanded, Near, Within, Edges, Arrived
  <2>3. /\ Inside' = Inside /\ Closure' = Closure /\ Layered' = Layered /\ ToSet(order)' = ToSet(order)
        /\ Outstanding(Layered)' = Outstanding(Layered) /\ Outstanding(ToSet(order))' = Outstanding(ToSet(order))
    BY <2>1, InsideStands DEF Layered, ToSet, Outstanding
  <2>4. PathTypes' /\ FoundIsReached'
    BY <2>1, <2>2 DEF PathInv, PathTypes, FoundIsReached
  <2>5. query.kind # "path" => SearchInv'
    BY <2>1, <2>2 DEF PathInv, SearchInv
  <2>6. query.kind = "path" => LearningInv'
    <3>1. LayersFollow' = LayersFollow /\ OrderFollows' = OrderFollows
      BY <2>1, <2>3 DEF LayersFollow, OrderFollows
    <3> QED BY <2>1, <2>2, <2>3, <3>1 DEF PathInv, LearningInv
  <2> QED BY <2>1, <2>4, <2>5, <2>6 DEF PathInv
<1>2. CASE PathNext
  BY <1>2, DiscoverStep, TakeNextStep, AnswerStep, CloseStep, BeginLayersStep, AddLayerStep, AddNextStep
     DEF PathNext
<1> QED BY <1>1, <1>2

LEMMA AnswersAreRight == ASSUME PathInv PROVE AnswersHold
BY TraceHolds, NeighbourhoodHolds, LearningOrdered DEF AnswersHold

----------------------------------------------------------------------------
(***************************************************************************)
(* Card generation.  The cards of a run are those its ledger counts; the   *)
(* ledger of a run never mixes two chunkings, so an attempt that finds     *)
(* every selected chunk succeeded has the whole of it; and only an attempt *)
(* under way has a running run.                                            *)
(***************************************************************************)
RunStatuses == {"none", "pending", "running", "failed", "canceled", "completed"}
AtWork == {"prepare", "clear", "sync", "next", "fail"}
AttemptPlaces == {"none", "enqueue", "claim", "settle"} \cup AtWork
LedgerRow == {"succeeded", "failed"} \X (0..MaxDraft)

Attempts == [pc : AttemptPlaces, selected : SUBSET AllChunks]
TaskStatuses == {"none", "queued", "running", "succeeded", "failed", "canceled"}
TaskRows == [status : TaskStatuses, asked : BOOLEAN]

GenTypes ==
    /\ run \in [Runs -> [status : RunStatuses,
                         count : [total : Nat, succeeded : Nat, failed : Nat, created : Nat]]]
    /\ DOMAIN ledger = Runs
    /\ \A r \in Runs : /\ DOMAIN ledger[r] \subseteq AllChunks
                       /\ ledger[r] \in [DOMAIN ledger[r] -> LedgerRow]
    /\ made \subseteq Runs \X AllChunks \X (1..MaxDraft)
    /\ epoch \in 0..MaxEpoch
    /\ attempt \in [Runs -> Attempts]
    /\ task \in [Runs -> TaskRows]

CardsMatch(r) ==
    \A c \in AllChunks, i \in 1..MaxDraft :
       <<r, c, i>> \in made <=> c \in Rows(r, "succeeded") /\ i <= ledger[r][c][2]
OneEpoch(r) == \E e \in 0..MaxEpoch : DOMAIN ledger[r] \subseteq Chunks(e)
Selection(r) ==
    /\ attempt[r].pc \in {"clear", "sync", "next", "fail"} =>
          \E e \in 0..MaxEpoch : attempt[r].selected = Chunks(e)
    /\ attempt[r].pc = "clear" => Rows(r, "succeeded") \subseteq attempt[r].selected
    /\ attempt[r].pc \in {"sync", "next"} => DOMAIN ledger[r] \subseteq attempt[r].selected
Whole(r) ==
    run[r].status = "completed" =>
       /\ DOMAIN ledger[r] = Rows(r, "succeeded")
       /\ run[r].count.succeeded = run[r].count.total
       /\ run[r].count.succeeded = Cardinality(DOMAIN ledger[r])
       /\ run[r].count.created = Cardinality({k \in made : k[1] = r})
AttemptInStep(r) ==
    /\ run[r].status = "running" <=> attempt[r].pc \in AtWork
    /\ attempt[r].pc = "enqueue" => run[r].status = "pending"
    /\ task[r].status = "succeeded" => run[r].status = "completed"
RunGood(r) == CardsMatch(r) /\ OneEpoch(r) /\ Selection(r) /\ Whole(r) /\ AttemptInStep(r)

GenInv == GenTypes /\ \A r \in Runs : RunGood(r)

\* What a step owes to a run: its part of the action property too.
Kept(r) ==
    /\ run[r].status = "completed" => run'[r] = run[r]
    /\ \A c \in Rows(r, "succeeded") : c \in DOMAIN ledger'[r] /\ ledger'[r][c] = ledger[r][c]

Same(r) ==
    /\ run'[r] = run[r] /\ ledger'[r] = ledger[r]
    /\ attempt'[r] = attempt[r] /\ task'[r] = task[r]
    /\ \A c, i : <<r, c, i>> \in made' <=> <<r, c, i>> \in made

LEMMA SameCards ==
    ASSUME made \subseteq Runs \X AllChunks \X (1..MaxDraft),
           made' \subseteq Runs \X AllChunks \X (1..MaxDraft),
           NEW r \in Runs, \A c, i : <<r, c, i>> \in made' <=> <<r, c, i>> \in made
    PROVE  {k \in made' : k[1] = r} = {k \in made : k[1] = r}
<1>1. ASSUME NEW k PROVE k \in made' /\ k[1] = r <=> k \in made /\ k[1] = r
  <2>1. k \in Runs \X AllChunks \X (1..MaxDraft) => k = <<k[1], k[2], k[3]>>
    OBVIOUS
  <2> QED BY <2>1
<1> QED BY <1>1

LEMMA SameGood ==
    ASSUME GenTypes, GenTypes', NEW r \in Runs, RunGood(r), Same(r)
    PROVE  RunGood(r)' /\ Kept(r)
<1>1. {k \in made' : k[1] = r} = {k \in made : k[1] = r}
  BY SameCards DEF GenTypes, Same
<1>2. Rows(r, "succeeded")' = Rows(r, "succeeded")
  BY DEF Rows, Same
<1>3. CardsMatch(r)'
  BY <1>2 DEF RunGood, CardsMatch, Same
<1>4. OneEpoch(r)' /\ Selection(r)' /\ AttemptInStep(r)'
  BY <1>2 DEF RunGood, OneEpoch, Selection, AttemptInStep, Same
<1>5. Whole(r)'
  BY <1>1, <1>2 DEF RunGood, Whole, Same
<1> QED BY <1>3, <1>4, <1>5 DEF RunGood, Kept, Same, Rows

LEMMA ChunksFinite ==
    /\ IsFiniteSet(AllChunks)
    /\ \A T \in SUBSET AllChunks : IsFiniteSet(T) /\ Cardinality(T) \in Nat
    /\ \A e \in 0..MaxEpoch : Chunks(e) \subseteq AllChunks
<1>1. MaxEpoch \in Nat /\ ChunkCount \in Nat
  BY GenerationAssumption
<1>2. IsFiniteSet(0..MaxEpoch) /\ IsFiniteSet(1..ChunkCount)
  BY <1>1, FS_Interval
<1>3. IsFiniteSet(AllChunks)
  BY <1>2, FS_Product DEF AllChunks
<1>4. \A T \in SUBSET AllChunks : IsFiniteSet(T) /\ Cardinality(T) \in Nat
  BY <1>3, FS_Subset, FS_CardinalityType
<1> QED BY <1>3, <1>4 DEF Chunks, AllChunks

LEMMA DraftsFinite == IsFiniteSet(1..MaxDraft)
<1>1. MaxDraft \in Nat
  BY GenerationAssumption
<1> QED BY <1>1, FS_Interval

\* The counters are numbers.
LEMMA CountersAre ==
    ASSUME GenTypes, NEW r \in Runs, NEW selected \in SUBSET AllChunks
    PROVE  CountersOf(r, selected) \in [total : Nat, succeeded : Nat, failed : Nat, created : Nat]
<1> DEFINE counted == Rows(r, "succeeded") \cap selected
           drawn == UNION {{c} \X (1..ledger[r][c][2]) : c \in counted}
<1>1. Rows(r, "succeeded") \in SUBSET AllChunks /\ Rows(r, "failed") \in SUBSET AllChunks
  BY DEF GenTypes, Rows
<1>2. /\ Cardinality(selected) \in Nat /\ Cardinality(counted) \in Nat
      /\ Cardinality(Rows(r, "failed") \cap selected) \in Nat
  BY <1>1, ChunksFinite
<1>3. drawn \in SUBSET (AllChunks \X (1..MaxDraft))
  <2>1. ASSUME NEW k \in drawn PROVE k \in AllChunks \X (1..MaxDraft)
    <3>1. PICK c \in counted : k \in {c} \X (1..ledger[r][c][2])
      OBVIOUS
    <3>2. c \in DOMAIN ledger[r] /\ c \in AllChunks
      BY <1>1 DEF Rows
    <3>3. ledger[r][c] \in LedgerRow
      BY <3>2 DEF GenTypes
    <3>4. ledger[r][c][2] \in 0..MaxDraft
      BY <3>3 DEF LedgerRow
    <3> QED BY <3>1, <3>2, <3>4, GenerationAssumption
  <2> QED BY <2>1
<1>4. IsFiniteSet(AllChunks \X (1..MaxDraft))
  BY ChunksFinite, DraftsFinite, FS_Product
<1>5. Cardinality(drawn) \in Nat
  BY <1>3, <1>4, FS_Subset, FS_CardinalityType
<1> QED BY <1>2, <1>5 DEF CountersOf

\* A run whose selected chunks have all succeeded has its whole ledger counted.
LEMMA CompletedIsWhole ==
    ASSUME GenInv, NEW r \in Runs, NEW selected \in SUBSET AllChunks,
           \E e \in 0..MaxEpoch : selected = Chunks(e),
           CountersOf(r, selected).succeeded = CountersOf(r, selected).total
    PROVE  /\ DOMAIN ledger[r] = Rows(r, "succeeded")
           /\ CountersOf(r, selected).succeeded = Cardinality(DOMAIN ledger[r])
           /\ CountersOf(r, selected).created = Cardinality({k \in made : k[1] = r})
<1> DEFINE counted == Rows(r, "succeeded") \cap selected
           drawn == UNION {{c} \X (1..ledger[r][c][2]) : c \in counted}
           mine == {k \in made : k[1] = r}
<1>1. GenTypes /\ CardsMatch(r) /\ OneEpoch(r)
  BY DEF GenInv, RunGood
<1>2. IsFiniteSet(selected) /\ Cardinality(counted) = Cardinality(selected)
  BY ChunksFinite DEF CountersOf
<1>3. counted = selected
  BY <1>2, FS_Subset
<1>4. Rows(r, "succeeded") \subseteq DOMAIN ledger[r] /\ DOMAIN ledger[r] \subseteq AllChunks
  BY <1>1 DEF Rows, GenTypes
<1>5. DOMAIN ledger[r] = selected
  <2>1. PICK e \in 0..MaxEpoch : selected = Chunks(e)
    OBVIOUS
  <2>2. PICK f \in 0..MaxEpoch : DOMAIN ledger[r] \subseteq Chunks(f)
    BY <1>1 DEF OneEpoch
  <2>3. Chunks(e) \subseteq Chunks(f)
    BY <1>3, <1>4, <2>1, <2>2
  <2>4. Chunks(e) = {} => Chunks(f) = {}
    <3>1. ASSUME NEW c \in Chunks(f) PROVE <<e, c[2]>> \in Chunks(e)
      BY <3>1 DEF Chunks
    <3> QED BY <3>1
  <2>5. Chunks(e) # {} => e = f
    <3>1. ASSUME NEW c \in Chunks(e) PROVE e = f
      <4>1. c[1] = e
        BY <3>1 DEF Chunks
      <4>2. c \in Chunks(f)
        BY <2>3, <3>1
      <4>3. c[1] = f
        BY <4>2 DEF Chunks
      <4> QED BY <4>1, <4>3
    <3> QED BY <3>1
  <2> QED BY <1>3, <1>4, <2>1, <2>2, <2>4, <2>5
<1>6. DOMAIN ledger[r] = Rows(r, "succeeded") /\ counted = Rows(r, "succeeded")
  BY <1>3, <1>4, <1>5
<1>7. Cardinality(drawn) = Cardinality(mine)
  <2> DEFINE f == [k \in mine |-> <<k[2], k[3]>>]
  <2>1. ASSUME NEW k \in mine
        PROVE  /\ k = <<r, k[2], k[3]>> /\ k[2] \in counted /\ k[3] \in 1..ledger[r][k[2]][2]
    <3>1. k \in Runs \X AllChunks \X (1..MaxDraft) /\ k[1] = r
      BY <1>1 DEF GenTypes
    <3>2. k = <<r, k[2], k[3]>> /\ k[2] \in AllChunks /\ k[3] \in 1..MaxDraft
      BY <3>1
    <3>3. <<r, k[2], k[3]>> \in made
      BY <3>2
    <3>4. k[2] \in Rows(r, "succeeded") /\ k[3] <= ledger[r][k[2]][2]
      BY <1>1, <3>2, <3>3 DEF CardsMatch
    <3>5. ledger[r][k[2]] \in LedgerRow
      BY <1>1, <3>4 DEF GenTypes, Rows
    <3>6. ledger[r][k[2]][2] \in Nat
      BY <3>5 DEF LedgerRow
    <3> QED BY <1>6, <3>2, <3>4, <3>6
  <2>2. f \in [mine -> drawn]
    <3>1. ASSUME NEW k \in mine PROVE <<k[2], k[3]>> \in drawn
      <4>1. <<k[2], k[3]>> \in {k[2]} \X (1..ledger[r][k[2]][2])
        BY <2>1
      <4> QED BY <2>1, <4>1
    <3> QED BY <3>1
  <2>3. ASSUME NEW k \in mine, NEW l \in mine, f[k] = f[l] PROVE k = l
    <3>1. k[2] = l[2] /\ k[3] = l[3]
      BY <2>3
    <3> QED BY <2>1, <3>1
  <2>4. ASSUME NEW d \in drawn PROVE \E k \in mine : f[k] = d
    <3>1. PICK c \in counted : d \in {c} \X (1..ledger[r][c][2])
      OBVIOUS
    <3>2. c \in AllChunks /\ c \in Rows(r, "succeeded") /\ c \in DOMAIN ledger[r]
      BY <1>4
    <3>3. ledger[r][c] \in LedgerRow
      BY <1>1, <3>2 DEF GenTypes
    <3>4. ledger[r][c][2] \in 0..MaxDraft
      BY <3>3 DEF LedgerRow
    <3>5. d = <<c, d[2]>> /\ d[2] \in 1..MaxDraft /\ d[2] <= ledger[r][c][2]
      BY <3>1, <3>4, GenerationAssumption
    <3>6. <<r, c, d[2]>> \in made
      BY <1>1, <3>2, <3>5 DEF CardsMatch
    <3>7. <<r, c, d[2]>> \in mine /\ f[<<r, c, d[2]>>] = d
      BY <3>5, <3>6
    <3> QED BY <3>7
  <2>5. f \in Bijection(mine, drawn)
    BY <2>2, <2>3, <2>4 DEF Bijection, Injection, IsInjective, Surjection
  <2>6. IsFiniteSet(mine)
    <3>1. IsFiniteSet(AllChunks \X (1..MaxDraft))
      BY ChunksFinite, DraftsFinite, FS_Product
    <3>2. drawn \in SUBSET (AllChunks \X (1..MaxDraft))
      <4>1. ASSUME NEW d \in drawn PROVE d \in AllChunks \X (1..MaxDraft)
        <5>1. PICK k \in mine : f[k] = d
          BY <2>4
        <5>2. d = <<k[2], k[3]>> /\ k \in Runs \X AllChunks \X (1..MaxDraft)
          BY <1>1, <5>1 DEF GenTypes
        <5> QED BY <5>2
      <4> QED BY <4>1
    <3>3. IsFiniteSet(drawn)
      BY <3>1, <3>2, FS_Subset
    <3> QED BY <2>5, <3>3, FS_Injection DEF Bijection
  <2>7. ExistsBijection(mine, drawn)
    BY <2>5 DEF ExistsBijection
  <2> QED BY <2>6, <2>7, FS_Bijection
<1> QED BY <1>5, <1>6, <1>7, <1>3 DEF CountersOf

\* A step that concerns one run.
LEMMA OneRun ==
    ASSUME GenInv, GenTypes', NEW r \in Runs, RunGood(r)', Kept(r),
           \A s \in Runs \ {r} : Same(s)
    PROVE  GenInv' /\ \A s \in Runs : Kept(s)
<1>1. ASSUME NEW s \in Runs PROVE RunGood(s)' /\ Kept(s)
  <2>1. CASE s = r
    BY <2>1
  <2>2. CASE s # r
    BY <2>2, SameGood DEF GenInv
  <2> QED BY <2>1, <2>2
<1> QED BY <1>1 DEF GenInv

\* A step that leaves the ledger and the cards alone.
LEMMA RecordsStand ==
    ASSUME GenInv, GenTypes', NEW r \in Runs, UNCHANGED <<ledger, made>>,
           \A s \in Runs \ {r} : run'[s] = run[s] /\ attempt'[s] = attempt[s] /\ task'[s] = task[s],
           Selection(r)', Whole(r)', AttemptInStep(r)',
           run[r].status = "completed" => run'[r] = run[r]
    PROVE  GenInv' /\ \A s \in Runs : Kept(s)
<1>1. RunGood(r)
  BY DEF GenInv
<1>2. Rows(r, "succeeded")' = Rows(r, "succeeded")
  BY DEF Rows
<1>3. RunGood(r)'
  BY <1>1, <1>2 DEF RunGood, CardsMatch, OneEpoch
<1>4. Kept(r) /\ \A s \in Runs \ {r} : Same(s)
  BY DEF Kept, Same, Rows
<1> QED BY <1>3, <1>4, OneRun

\* And that leaves the run as well.
LEMMA RunStands ==
    ASSUME GenInv, NEW r \in Runs, UNCHANGED <<run, ledger, made>>, epoch' \in 0..MaxEpoch,
           NEW a, a \in Attempts,
           attempt' = [attempt EXCEPT ![r] = a],
           NEW t, t \in TaskRows,
           task' = [task EXCEPT ![r] = t],
           Selection(r)', AttemptInStep(r)'
    PROVE  GenInv' /\ \A s \in Runs : Kept(s)
<1>1. GenTypes /\ RunGood(r)
  BY DEF GenInv
<1>2. GenTypes'
  BY <1>1 DEF GenTypes
<1>3. \A s \in Runs \ {r} : run'[s] = run[s] /\ attempt'[s] = attempt[s] /\ task'[s] = task[s]
  BY <1>1 DEF GenTypes
<1>4. Whole(r)'
  BY <1>1 DEF RunGood, Whole, Rows
<1> QED BY <1>2, <1>3, <1>4, RecordsStand

LEMMA StatusKept ==
    ASSUME GenInv, NEW r \in Runs, NEW status \in RunStatuses \ {"completed"},
           UNCHANGED <<ledger, made, epoch>>, RunIs(r, status), run[r].status # "completed",
           NEW a, a \in Attempts,
           attempt' = [attempt EXCEPT ![r] = a],
           NEW t, t \in TaskRows,
           task' = [task EXCEPT ![r] = t],
           a.pc \in {"none", "settle", "enqueue", "prepare"},
           status = "running" <=> a.pc = "prepare",
           a.pc = "enqueue" => status = "pending",
           t.status # "succeeded"
    PROVE  GenInv' /\ \A s \in Runs : Kept(s)
<1>1. GenTypes /\ RunGood(r)
  BY DEF GenInv
<1>2. /\ run'[r].status = status /\ run'[r].count = run[r].count
      /\ \A s \in Runs \ {r} : run'[s] = run[s] /\ attempt'[s] = attempt[s] /\ task'[s] = task[s]
      /\ attempt'[r] = a /\ task'[r] = t
  BY <1>1 DEF GenTypes, RunIs
<1>3. run' \in [Runs -> [status : RunStatuses,
                         count : [total : Nat, succeeded : Nat, failed : Nat, created : Nat]]]
  BY <1>1 DEF GenTypes, RunIs
<1>4. GenTypes'
  BY <1>1, <1>3 DEF GenTypes
<1>5. Selection(r)'
  BY <1>2 DEF Selection
<1>6. Whole(r)'
  BY <1>2 DEF Whole
<1>7. AttemptInStep(r)'
  BY <1>2 DEF AttemptInStep, AtWork
<1> QED BY <1>2, <1>4, <1>5, <1>6, <1>7, RecordsStand

LEMMA TaskOf ==
    ASSUME GenTypes, NEW r \in Runs,
           NEW status \in TaskStatuses, TaskIs(r, status)
    PROVE  /\ task' = [task EXCEPT ![r] = [status |-> status, asked |-> FALSE]]
           /\ [status |-> status, asked |-> FALSE] \in TaskRows
           /\ task'[r].status = status
BY DEF GenTypes, TaskIs, TaskRows, TaskStatuses

LEMMA AttemptOf ==
    ASSUME GenTypes, NEW r \in Runs, NEW pc \in AttemptPlaces, GoesTo(r, pc)
    PROVE  /\ attempt' = [attempt EXCEPT ![r] = [pc |-> pc, selected |-> attempt[r].selected]]
           /\ [pc |-> pc, selected |-> attempt[r].selected] \in Attempts
           /\ attempt'[r] = [pc |-> pc, selected |-> attempt[r].selected]
<1>1. attempt[r] \in Attempts
  BY DEF GenTypes
<1>2. [attempt[r] EXCEPT !.pc = pc] = [pc |-> pc, selected |-> attempt[r].selected]
  BY <1>1 DEF Attempts
<1>3. attempt' = [attempt EXCEPT ![r] = [attempt[r] EXCEPT !.pc = pc]]
  BY DEF GoesTo
<1> QED BY <1>1, <1>2, <1>3 DEF GenTypes, Attempts

LEMMA Unmoved ==
    ASSUME GenTypes, NEW r \in Runs
    PROVE  /\ attempt = [attempt EXCEPT ![r] = attempt[r]]
           /\ attempt[r] \in Attempts
           /\ task = [task EXCEPT ![r] = task[r]]
           /\ task[r] \in TaskRows
BY DEF GenTypes

\* The steps of the endpoint and those that only move the attempt or its task.
LEMMA EndpointStep ==
    ASSUME GenInv, NEW r \in Runs,
           StartRun(r) \/ EnqueueRun(r) \/ CancelTask(r) \/ RetryTask(r)
              \/ TakeTask(r) \/ CancelUnclaimed(r) \/ ClaimRun(r) \/ BreakOff(r)
    PROVE  GenInv' /\ \A s \in Runs : Kept(s)
<1>0. GenTypes /\ RunGood(r) /\ Selection(r) /\ AttemptInStep(r)
  BY DEF GenInv, RunGood
<1>u. epoch \in 0..MaxEpoch
  BY <1>0 DEF GenTypes
<1>1. CASE StartRun(r)
  <2> DEFINE a == [pc |-> "enqueue", selected |-> attempt[r].selected]
  <2>1. attempt' = [attempt EXCEPT ![r] = a] /\ a \in Attempts
    BY <1>0, <1>1, AttemptOf DEF StartRun, AttemptPlaces
  <2>2. task[r].status # "succeeded" /\ a.pc = "enqueue"
    BY <1>0, <1>1 DEF StartRun, AttemptInStep
  <2> HIDE DEF a
  <2> QED BY <1>0, <1>1, <2>1, <2>2, Unmoved, StatusKept, ZenonT(60) DEF StartRun, RunStatuses
<1>2. CASE EnqueueRun(r)
  <2> DEFINE a == [pc |-> "none", selected |-> attempt[r].selected]
  <2>1. /\ attempt' = [attempt EXCEPT ![r] = a] /\ a \in Attempts
        /\ attempt'[r].pc = "none" /\ a.pc = "none"
    <3>1. "none" \in AttemptPlaces /\ GoesTo(r, "none")
      BY <1>2 DEF EnqueueRun, AttemptPlaces
    <3>2. /\ attempt' = [attempt EXCEPT ![r] = [pc |-> "none", selected |-> attempt[r].selected]]
          /\ [pc |-> "none", selected |-> attempt[r].selected] \in Attempts
          /\ attempt'[r] = [pc |-> "none", selected |-> attempt[r].selected]
      BY <1>0, <3>1, AttemptOf
    <3> QED BY <3>2
  <2> HIDE DEF a
  <2>2. run[r].status = "pending" /\ task[r].status # "succeeded"
    BY <1>0, <1>2 DEF EnqueueRun, AttemptInStep
  <2>3. CASE RunIs(r, "failed") /\ UNCHANGED task
    <3>1. UNCHANGED <<ledger, made, epoch>> /\ "failed" \in RunStatuses \ {"completed"}
      BY <1>2 DEF EnqueueRun, RunStatuses
    <3>2. task' = [task EXCEPT ![r] = task[r]]
      BY <1>0, <2>3, Unmoved
    <3>3. run[r].status # "completed" /\ a.pc = "none" /\ task[r].status # "succeeded"
      BY <2>1, <2>2
    <3>4. task[r] \in TaskRows
      BY <1>0, Unmoved
    <3>5. /\ a.pc \in {"none", "settle", "enqueue", "prepare"} /\ a.pc # "enqueue"
          /\ "failed" = "running" <=> a.pc = "prepare"
      BY <3>3
    <3>6. RunIs(r, "failed") /\ attempt' = [attempt EXCEPT ![r] = a] /\ a \in Attempts
      BY <2>1, <2>3
    <3> QED BY <3>1, <3>2, <3>3, <3>4, <3>5, <3>6, StatusKept
  <2>4. CASE TaskIs(r, "queued") /\ UNCHANGED run
    <3>1. Selection(r)' /\ AttemptInStep(r)'
      BY <1>0, <1>2, <2>1, <2>2, <2>4, TaskOf DEF Selection, AttemptInStep, AtWork, EnqueueRun, TaskStatuses
    <3> QED BY <1>0, <1>u, <1>2, <2>1, <2>4, <3>1, TaskOf, RunStands DEF EnqueueRun, TaskStatuses
  <2> QED BY <1>2, <2>3, <2>4 DEF EnqueueRun
<1>3. CASE CancelTask(r)
  <2> DEFINE t == IF task[r].status = "queued" THEN [status |-> "canceled", asked |-> FALSE]
                  ELSE [status |-> task[r].status, asked |-> TRUE]
  <2>1. task' = [task EXCEPT ![r] = t] /\ task'[r] = t
        /\ t \in TaskRows
    <3>1. task[r] \in TaskRows
      BY <1>0 DEF GenTypes
    <3>2. t = IF task[r].status = "queued" THEN [status |-> "canceled", asked |-> FALSE]
              ELSE [task[r] EXCEPT !.asked = TRUE]
      BY <3>1 DEF TaskRows, TaskStatuses
    <3>3. task' = [task EXCEPT ![r] = t]
      BY <1>3, <3>2 DEF CancelTask
    <3> QED BY <1>0, <3>1, <3>3 DEF GenTypes, TaskRows, TaskStatuses
  <2>2. t.status # "succeeded"
    BY <1>3 DEF CancelTask, RunActive
  <2>3. Selection(r)' /\ AttemptInStep(r)'
    BY <1>0, <1>3, <2>1, <2>2 DEF Selection, AttemptInStep, CancelTask, Rows
  <2> HIDE DEF t
  <2> QED BY <1>0, <1>u, <1>3, <2>1, <2>3, Unmoved, RunStands DEF CancelTask
<1>4. CASE RetryTask(r)
  <2>1. Selection(r)' /\ AttemptInStep(r)'
    BY <1>0, <1>4, TaskOf DEF Selection, AttemptInStep, RetryTask, Rows, TaskStatuses
  <2> QED BY <1>0, <1>u, <1>4, <2>1, Unmoved, TaskOf, RunStands DEF RetryTask, TaskStatuses
<1>5. CASE TakeTask(r)
  <2>1. attempt'[r] = [pc |-> "claim", selected |-> {}]
        /\ [pc |-> "claim", selected |-> {}] \in Attempts
    BY <1>0, <1>5 DEF TakeTask, GenTypes, AttemptPlaces, Attempts
  <2>2. run[r].status # "running" /\ task'[r].status = "running"
    BY <1>0, <1>5, TaskOf DEF TakeTask, AttemptInStep, AtWork, TaskStatuses
  <2>3. Selection(r)' /\ AttemptInStep(r)'
    BY <1>0, <1>5, <2>1, <2>2 DEF Selection, AttemptInStep, TakeTask, AtWork
  <2> QED BY <1>0, <1>u, <1>5, <2>1, <2>3, TaskOf, RunStands DEF TakeTask, TaskStatuses
<1>6. CASE CancelUnclaimed(r)
  <2> DEFINE a == [pc |-> "none", selected |-> attempt[r].selected]
  <2>1. /\ attempt' = [attempt EXCEPT ![r] = a] /\ a \in Attempts
        /\ attempt'[r].pc = "none" /\ a.pc = "none"
    <3>1. "none" \in AttemptPlaces /\ GoesTo(r, "none")
      BY <1>6 DEF CancelUnclaimed, AttemptPlaces
    <3>2. /\ attempt' = [attempt EXCEPT ![r] = [pc |-> "none", selected |-> attempt[r].selected]]
          /\ [pc |-> "none", selected |-> attempt[r].selected] \in Attempts
          /\ attempt'[r] = [pc |-> "none", selected |-> attempt[r].selected]
      BY <1>0, <3>1, AttemptOf
    <3> QED BY <3>2
  <2> HIDE DEF a
  <2>2. run[r].status # "running" /\ task'[r].status = "canceled"
    BY <1>0, <1>6, TaskOf DEF CancelUnclaimed, AttemptInStep, AtWork, TaskStatuses
  <2>3. Selection(r)' /\ AttemptInStep(r)'
    BY <1>0, <1>6, <2>1, <2>2 DEF Selection, AttemptInStep, CancelUnclaimed, AtWork
  <2> QED BY <1>0, <1>u, <1>6, <2>1, <2>3, TaskOf, RunStands DEF CancelUnclaimed, TaskStatuses
<1>7. CASE ClaimRun(r)
  <2>1. CASE run[r].status \in RunClaimable
    <3> DEFINE a == [pc |-> "prepare", selected |-> attempt[r].selected]
    <3>1. /\ attempt' = [attempt EXCEPT ![r] = a]
          /\ a \in Attempts /\ a.pc = "prepare"
      BY <1>0, <1>7, <2>1, AttemptOf DEF ClaimRun, AttemptPlaces, AtWork
    <3> HIDE DEF a
    <3>2. run[r].status # "completed" /\ task[r].status # "succeeded"
      BY <1>0, <2>1 DEF AttemptInStep, RunClaimable
    <3> QED BY <1>0, <1>7, <2>1, <3>1, <3>2, Unmoved, StatusKept DEF ClaimRun, RunStatuses
  <2>2. CASE run[r].status \notin RunClaimable
    <3> DEFINE a == [pc |-> "settle", selected |-> attempt[r].selected]
    <3>1. /\ attempt' = [attempt EXCEPT ![r] = a] /\ a \in Attempts
          /\ attempt'[r].pc = "settle"
      <4>1. "settle" \in AttemptPlaces /\ GoesTo(r, "settle")
        BY <1>7, <2>2 DEF ClaimRun, AttemptPlaces
      <4>2. /\ attempt' = [attempt EXCEPT ![r] = [pc |-> "settle", selected |-> attempt[r].selected]]
            /\ [pc |-> "settle", selected |-> attempt[r].selected] \in Attempts
            /\ attempt'[r] = [pc |-> "settle", selected |-> attempt[r].selected]
        BY <1>0, <4>1, AttemptOf
      <4> QED BY <4>2
    <3> HIDE DEF a
    <3>2. run[r].status # "running"
      BY <1>0, <1>7 DEF AttemptInStep, AtWork, ClaimRun
    <3>3. Selection(r)' /\ AttemptInStep(r)'
      BY <1>0, <1>7, <2>2, <3>1, <3>2 DEF Selection, AttemptInStep, ClaimRun, AtWork
    <3> QED BY <1>0, <1>u, <1>7, <2>2, <3>1, <3>3, Unmoved, RunStands DEF ClaimRun
  <2> QED BY <2>1, <2>2
<1>8. CASE BreakOff(r)
  <2>1. attempt' = [attempt EXCEPT ![r] = [pc |-> "fail", selected |-> attempt[r].selected]]
        /\ [pc |-> "fail", selected |-> attempt[r].selected] \in Attempts
        /\ attempt'[r] = [pc |-> "fail", selected |-> attempt[r].selected]
    BY <1>0, <1>8, AttemptOf DEF BreakOff, AttemptPlaces, AtWork
  <2>2. \E e \in 0..MaxEpoch : attempt[r].selected = Chunks(e)
    BY <1>0, <1>8 DEF BreakOff, Selection
  <2>3. Selection(r)' /\ AttemptInStep(r)'
    BY <1>0, <1>8, <2>1, <2>2 DEF Selection, AttemptInStep, BreakOff, AtWork
  <2> QED BY <1>0, <1>u, <1>8, <2>1, <2>3, Unmoved, RunStands DEF BreakOff
<1> QED BY <1>1, <1>2, <1>3, <1>4, <1>5, <1>6, <1>7, <1>8

\* The attempt prepares its ledger, or stops before it has.
LEMMA PreparedStep ==
    ASSUME GenInv, NEW r \in Runs, PrepareLedger(r) \/ StopUnprepared(r)
    PROVE  GenInv' /\ \A s \in Runs : Kept(s)
<1>0. GenTypes /\ Selection(r) /\ AttemptInStep(r)
  BY DEF GenInv, RunGood
<1>1. attempt[r].pc = "prepare" /\ run[r].status = "running" /\ task[r].status # "succeeded"
  BY <1>0 DEF PrepareLedger, StopUnprepared, AttemptInStep, AtWork
<1>2. CASE PrepareLedger(r)
  <2> DEFINE a == [pc |-> IF Rows(r, "succeeded") \subseteq Chunks(epoch') THEN "clear" ELSE "fail",
                   selected |-> Chunks(epoch')]
  <2>1. epoch' \in 0..MaxEpoch
    BY <1>0, <1>2, GenerationAssumption DEF PrepareLedger, GenTypes
  <2>2. Chunks(epoch') \in SUBSET AllChunks
    BY <2>1, ChunksFinite
  <2>3. a \in Attempts /\ attempt' = [attempt EXCEPT ![r] = a]
    BY <1>2, <2>2 DEF PrepareLedger, Attempts, AttemptPlaces, AtWork
  <2>4. /\ attempt'[r] = a /\ a.selected = Chunks(epoch')
        /\ a.pc = "clear" => Rows(r, "succeeded") \subseteq Chunks(epoch')
        /\ a.pc \in {"clear", "fail"}
    BY <1>0, <2>3 DEF GenTypes
  <2> HIDE DEF a
  <2>5. UNCHANGED <<run, ledger, made, task>>
    BY <1>2 DEF PrepareLedger
  <2>6. Selection(r)'
    BY <2>1, <2>4, <2>5 DEF Selection, Rows
  <2>7. AttemptInStep(r)'
    BY <1>1, <2>4, <2>5 DEF AttemptInStep, AtWork
  <2>8. task' = [task EXCEPT ![r] = task[r]] /\ task[r] \in TaskRows
    BY <1>0, <2>5, Unmoved
  <2> QED BY <2>1, <2>3, <2>5, <2>6, <2>7, <2>8, RunStands
<1>3. CASE StopUnprepared(r) /\ task[r].asked
  <2> DEFINE a == [pc |-> "none", selected |-> attempt[r].selected]
             t == [status |-> "canceled", asked |-> FALSE]
  <2>1. attempt' = [attempt EXCEPT ![r] = a] /\ a \in Attempts
    BY <1>0, <1>3, AttemptOf DEF StopUnprepared, AttemptPlaces
  <2>2. task' = [task EXCEPT ![r] = t] /\ t \in TaskRows
    BY <1>0, <1>3, TaskOf DEF StopUnprepared, TaskStatuses
  <2>3. UNCHANGED <<ledger, made, epoch>> /\ RunIs(r, "canceled")
    BY <1>3 DEF StopUnprepared
  <2>4. /\ a.pc \in {"none", "settle", "enqueue", "prepare"} /\ a.pc # "enqueue"
        /\ "canceled" = "running" <=> a.pc = "prepare"
        /\ t.status # "succeeded" /\ "canceled" \in RunStatuses \ {"completed"}
        /\ run[r].status # "completed"
    BY <1>1 DEF RunStatuses
  <2> HIDE DEF a, t
  <2> QED BY <2>1, <2>2, <2>3, <2>4, StatusKept
<1>4. CASE StopUnprepared(r) /\ ~task[r].asked
  <2> DEFINE a == [pc |-> "settle", selected |-> attempt[r].selected]
  <2>1. attempt' = [attempt EXCEPT ![r] = a] /\ a \in Attempts
    BY <1>0, <1>4, AttemptOf DEF StopUnprepared, AttemptPlaces
  <2>2. task' = [task EXCEPT ![r] = task[r]] /\ task[r] \in TaskRows
    BY <1>0, <1>4, Unmoved DEF StopUnprepared
  <2>3. UNCHANGED <<ledger, made, epoch>> /\ RunIs(r, "failed")
    BY <1>4 DEF StopUnprepared
  <2>4. /\ a.pc \in {"none", "settle", "enqueue", "prepare"} /\ a.pc # "enqueue"
        /\ "failed" = "running" <=> a.pc = "prepare"
        /\ task[r].status # "succeeded" /\ "failed" \in RunStatuses \ {"completed"}
        /\ run[r].status # "completed"
    BY <1>1 DEF RunStatuses
  <2> HIDE DEF a
  <2> QED BY <2>1, <2>2, <2>3, <2>4, StatusKept
<1> QED BY <1>2, <1>3, <1>4

\* The results of failed chunks go before an attempt tries them again.
LEMMA ClearStep ==
    ASSUME GenInv, NEW r \in Runs, ClearFailed(r)
    PROVE  GenInv' /\ \A s \in Runs : Kept(s)
<1>0. GenTypes /\ RunGood(r)
  BY DEF GenInv
<1> DEFINE a == [pc |-> "sync", selected |-> attempt[r].selected]
<1>1. attempt[r].pc = "clear" /\ UNCHANGED <<run, made, epoch, task>>
  BY DEF ClearFailed
<1>2. attempt' = [attempt EXCEPT ![r] = a] /\ a \in Attempts /\ attempt'[r] = a
  BY <1>0, AttemptOf DEF ClearFailed, AttemptPlaces, AtWork
<1>3. ledger' = [ledger EXCEPT ![r] = [c \in Rows(r, "succeeded") |-> ledger[r][c]]]
  BY DEF ClearFailed
<1>4. /\ DOMAIN ledger' = Runs /\ DOMAIN ledger'[r] = Rows(r, "succeeded")
      /\ \A c \in Rows(r, "succeeded") : ledger'[r][c] = ledger[r][c]
      /\ \A s \in Runs \ {r} : ledger'[s] = ledger[s]
      /\ ledger'[r] = [c \in Rows(r, "succeeded") |-> ledger[r][c]]
  BY <1>0, <1>3 DEF GenTypes
<1>5. Rows(r, "succeeded") \subseteq DOMAIN ledger[r]
  BY DEF Rows
<1>6. Rows(r, "succeeded")' = Rows(r, "succeeded")
  BY <1>4, <1>5 DEF Rows
<1>7. GenTypes'
  <2>1. ASSUME NEW s \in Runs
        PROVE  DOMAIN ledger'[s] \subseteq AllChunks /\ ledger'[s] \in [DOMAIN ledger'[s] -> LedgerRow]
    BY <1>0, <1>4, <1>5 DEF GenTypes
  <2>2. attempt' \in [Runs -> Attempts]
    BY <1>0, <1>2 DEF GenTypes
  <2> QED BY <1>0, <1>1, <1>4, <2>1, <2>2 DEF GenTypes
<1>8. CardsMatch(r)' /\ OneEpoch(r)'
  BY <1>0, <1>1, <1>4, <1>5, <1>6 DEF RunGood, CardsMatch, OneEpoch, Rows
<1>9. Selection(r)'
  <2>1. /\ \E e \in 0..MaxEpoch : attempt[r].selected = Chunks(e)
        /\ Rows(r, "succeeded") \subseteq attempt[r].selected
    BY <1>0, <1>1 DEF RunGood, Selection
  <2>2. attempt'[r].pc = "sync" /\ attempt'[r].selected = attempt[r].selected
    BY <1>2
  <2> QED BY <1>4, <2>1, <2>2 DEF Selection
<1>10. Whole(r)' /\ AttemptInStep(r)' /\ Kept(r)
  <2>1. run[r].status = "running"
    BY <1>0, <1>1 DEF RunGood, AttemptInStep, AtWork
  <2> QED BY <1>0, <1>1, <1>2, <1>4, <2>1 DEF RunGood, Whole, AttemptInStep, AtWork, Kept, Rows
<1>11. \A s \in Runs \ {r} : Same(s)
  BY <1>0, <1>1, <1>2, <1>4 DEF Same, GenTypes
<1> HIDE DEF a
<1>12. RunGood(r)'
  BY <1>8, <1>9, <1>10 DEF RunGood
<1> QED BY <1>7, <1>10, <1>11, <1>12, OneRun

LEMMA StatusIs ==
    ASSUME NEW r, NEW count, NEW outcome \in {"running", "canceled", "final"},
           run[r].status = "running"
    PROVE  /\ StatusOf(r, count, outcome) \in {"running", "completed", "canceled", "failed"}
           /\ StatusOf(r, count, outcome) = "running" <=> outcome = "running"
           /\ StatusOf(r, count, outcome) = "completed" => count.succeeded = count.total
<1>1. CASE outcome = "running"
  <2>1. StatusOf(r, count, outcome) = "running"
    BY <1>1 DEF StatusOf
  <2> QED BY <1>1, <2>1
<1>2. CASE outcome # "running" /\ count.succeeded = count.total
  <2>1. StatusOf(r, count, outcome) = "completed"
    BY <1>2 DEF StatusOf
  <2> QED BY <1>2, <2>1
<1>3. CASE outcome # "running" /\ count.succeeded # count.total
  <2>1. StatusOf(r, count, outcome) = IF outcome = "canceled" THEN "canceled" ELSE "failed"
    BY <1>3 DEF StatusOf
  <2> QED BY <1>3, <2>1
<1> QED BY <1>1, <1>2, <1>3

\* A reconciliation of a run under way, by what becomes of its attempt.
LEMMA ReconcileStep ==
    ASSUME GenInv, NEW r \in Runs, NEW outcome \in {"running", "canceled", "final"},
           UNCHANGED <<ledger, made, epoch>>, ReconcileRun(r, outcome),
           attempt[r].pc \in {"sync", "next", "fail"},
           NEW pc \in {"next", "none", "settle"}, GoesTo(r, pc),
           outcome = "running" <=> pc = "next", attempt[r].pc = "sync" <=> pc = "next",
           NEW t \in TaskRows, task' = [task EXCEPT ![r] = t],
           t.status = "succeeded" => run'[r].status = "completed"
    PROVE  GenInv' /\ \A s \in Runs : Kept(s)
<1>0. GenTypes /\ RunGood(r)
  BY DEF GenInv
<1> DEFINE selected == attempt[r].selected
           count == CountersOf(r, selected)
           status == StatusOf(r, count, outcome)
           a == [pc |-> pc, selected |-> attempt[r].selected]
<1>1. selected \in SUBSET AllChunks /\ \E e \in 0..MaxEpoch : selected = Chunks(e)
  BY <1>0 DEF GenTypes, Attempts, RunGood, Selection
<1>2. count \in [total : Nat, succeeded : Nat, failed : Nat, created : Nat]
  BY <1>0, <1>1, CountersAre
<1>3. run[r].status = "running"
  BY <1>0 DEF RunGood, AttemptInStep, AtWork
<1>4. /\ status \in {"running", "completed", "canceled", "failed"}
      /\ status = "running" <=> outcome = "running"
      /\ status = "completed" => count.succeeded = count.total
  BY <1>3, StatusIs
<1>5. run' = [run EXCEPT ![r] = [status |-> status, count |-> count]]
  BY DEF ReconcileRun
<1>6. attempt' = [attempt EXCEPT ![r] = a] /\ a \in Attempts /\ attempt'[r] = a
  BY <1>0, AttemptOf DEF AttemptPlaces, AtWork
<1>7. a.pc = pc /\ a.selected = selected
  OBVIOUS
<1> HIDE DEF count, status, a
<1>8. /\ run'[r].status = status /\ run'[r].count = count
      /\ \A s \in Runs \ {r} : run'[s] = run[s] /\ attempt'[s] = attempt[s] /\ task'[s] = task[s]
      /\ task'[r] = t
  BY <1>0, <1>5, <1>6 DEF GenTypes
<1>9. run' \in [Runs -> [status : RunStatuses,
                         count : [total : Nat, succeeded : Nat, failed : Nat, created : Nat]]]
  BY <1>0, <1>2, <1>4, <1>5 DEF GenTypes, RunStatuses
<1>10. GenTypes'
  BY <1>0, <1>6, <1>9 DEF GenTypes
<1>11. Selection(r)'
  BY <1>0, <1>1, <1>6, <1>7 DEF RunGood, Selection, Rows
<1>12. Whole(r)'
  <2>1. ASSUME status = "completed"
        PROVE  /\ DOMAIN ledger[r] = Rows(r, "succeeded")
               /\ count.succeeded = count.total
               /\ count.succeeded = Cardinality(DOMAIN ledger[r])
               /\ count.created = Cardinality({k \in made : k[1] = r})
    BY <1>1, <1>4, <2>1, CompletedIsWhole DEF count
  <2> QED BY <1>8, <2>1 DEF Whole, Rows
<1>13. AttemptInStep(r)'
  <2>1. task'[r].status = "succeeded" => run'[r].status = "completed"
    BY <1>8
  <2>2. run'[r].status = "running" <=> attempt'[r].pc \in AtWork
    BY <1>4, <1>6, <1>7, <1>8 DEF AtWork
  <2>3. attempt'[r].pc # "enqueue"
    BY <1>6, <1>7
  <2> QED BY <2>1, <2>2, <2>3 DEF AttemptInStep
<1> QED BY <1>3, <1>8, <1>10, <1>11, <1>12, <1>13, RecordsStand

LEMMA ProgressStep ==
    ASSUME GenInv, NEW r \in Runs,
           SyncProgress(r) \/ CancelAttempt(r) \/ FinishRun(r) \/ SettleRun(r)
    PROVE  GenInv' /\ \A s \in Runs : Kept(s)
<1>0. GenTypes /\ AttemptInStep(r)
  BY DEF GenInv, RunGood
<1>1. task = [task EXCEPT ![r] = task[r]] /\ task[r] \in TaskRows
  BY <1>0, Unmoved
<1>2. CASE SyncProgress(r)
  <2>1. task[r].status # "succeeded"
    BY <1>0, <1>2 DEF SyncProgress, AttemptInStep, AtWork
  <2>2. /\ UNCHANGED <<ledger, made, epoch, task>> /\ ReconcileRun(r, "running")
        /\ GoesTo(r, "next") /\ attempt[r].pc = "sync"
    BY <1>2 DEF SyncProgress
  <2>3. task' = [task EXCEPT ![r] = task[r]]
    BY <1>1, <2>2
  <2>4. "running" \in {"running", "canceled", "final"} /\ "next" \in {"next", "none", "settle"}
        /\ attempt[r].pc \in {"sync", "next", "fail"}
    BY <2>2
  <2> QED BY <1>1, <2>1, <2>2, <2>3, <2>4, ReconcileStep
<1>3. CASE CancelAttempt(r)
  <2> DEFINE t == [status |-> IF run'[r].status = "completed" THEN "succeeded" ELSE "canceled",
                   asked |-> FALSE]
  <2>1. /\ UNCHANGED <<ledger, made, epoch>> /\ ReconcileRun(r, "canceled")
        /\ GoesTo(r, "none") /\ attempt[r].pc = "next"
        /\ task' = [task EXCEPT ![r] = t]
    BY <1>3 DEF CancelAttempt, TaskIs
  <2>2. t \in TaskRows /\ t.status = "succeeded" => run'[r].status = "completed"
    BY DEF TaskRows, TaskStatuses
  <2>3. t \in TaskRows
    BY DEF TaskRows, TaskStatuses
  <2> HIDE DEF t
  <2>4. "canceled" \in {"running", "canceled", "final"} /\ "none" \in {"next", "none", "settle"}
        /\ attempt[r].pc \in {"sync", "next", "fail"}
    BY <2>1
  <2> QED BY <2>1, <2>2, <2>3, <2>4, ReconcileStep
<1>4. CASE FinishRun(r)
  <2>1. /\ UNCHANGED <<ledger, made, epoch, task>> /\ ReconcileRun(r, "final")
        /\ GoesTo(r, "settle") /\ attempt[r].pc \in {"next", "fail"}
    BY <1>4 DEF FinishRun
  <2>2. task[r].status # "succeeded"
    BY <1>0, <2>1 DEF AttemptInStep, AtWork
  <2>3. task' = [task EXCEPT ![r] = task[r]]
    BY <1>1, <2>1
  <2>4. "final" \in {"running", "canceled", "final"} /\ "settle" \in {"next", "none", "settle"}
        /\ attempt[r].pc \in {"sync", "next", "fail"} /\ attempt[r].pc # "sync"
    BY <2>1
  <2> QED BY <1>1, <2>1, <2>2, <2>3, <2>4, ReconcileStep
<1>5. CASE SettleRun(r)
  <2> DEFINE a == [pc |-> "none", selected |-> attempt[r].selected]
             t == [status |-> CASE run[r].status = "completed" -> "succeeded"
                                [] run[r].status = "canceled" -> "canceled"
                                [] OTHER -> "failed", asked |-> FALSE]
  <2>1. task' = [task EXCEPT ![r] = t] /\ UNCHANGED <<run, ledger, made, epoch>>
        /\ attempt[r].pc = "settle"
    BY <1>5 DEF SettleRun, TaskIs
  <2>2. attempt' = [attempt EXCEPT ![r] = a] /\ a \in Attempts /\ attempt'[r] = a
    BY <1>0, <1>5, AttemptOf DEF SettleRun, AttemptPlaces
  <2>3. t.status \in TaskStatuses /\ (t.status = "succeeded" => run[r].status = "completed")
    BY DEF TaskStatuses
  <2>4. t \in TaskRows
    BY <2>3 DEF TaskRows
  <2>5. a.pc = "none"
    OBVIOUS
  <2> HIDE DEF a, t
  <2>6. task'[r] = t /\ epoch' \in 0..MaxEpoch
    BY <1>0, <2>1 DEF GenTypes
  <2>7. Selection(r)'
    BY <2>2, <2>5 DEF Selection
  <2>8. AttemptInStep(r)'
    <3>1. run[r].status # "running"
      BY <1>0, <2>1 DEF AttemptInStep, AtWork
    <3> QED BY <2>1, <2>2, <2>3, <2>5, <2>6, <3>1 DEF AttemptInStep, AtWork
  <2> QED BY <2>1, <2>2, <2>4, <2>6, <2>7, <2>8, RunStands
<1> QED BY <1>2, <1>3, <1>4, <1>5

\* A chunk that was due gets its row, and its cards if it succeeded.
LEMMA DepositStep ==
    ASSUME GenInv, NEW r \in Runs, NEW c \in AllChunks, attempt[r].pc = "next", c \in ChunkDue(r),
           NEW n \in 0..MaxDraft, NEW verdict \in {"succeeded", "failed"},
           Deposit(r, c, <<verdict, n>>,
                   IF verdict = "succeeded" THEN {<<r, c, i>> : i \in 1..n} ELSE {})
    PROVE  GenInv' /\ \A s \in Runs : Kept(s)
<1>0. GenTypes /\ RunGood(r)
  BY DEF GenInv
<1> DEFINE a == [pc |-> "sync", selected |-> attempt[r].selected]
           slot == <<verdict, n>>
           new == IF verdict = "succeeded" THEN {<<r, c, i>> : i \in 1..n} ELSE {}
<1>1. c \notin DOMAIN ledger[r] /\ c \in attempt[r].selected
  BY DEF ChunkDue, Tried
<1>2. attempt' = [attempt EXCEPT ![r] = a] /\ a \in Attempts /\ attempt'[r] = a
  BY <1>0, AttemptOf DEF Deposit, AttemptPlaces, AtWork
<1>3. /\ UNCHANGED <<run, epoch, task>> /\ made' = made \cup new
      /\ ledger' = [ledger EXCEPT ![r] =
            [d \in DOMAIN ledger[r] \cup {c} |-> IF d = c THEN slot ELSE ledger[r][d]]]
  BY DEF Deposit
<1>a. a.pc = "sync" /\ a.selected = attempt[r].selected
  OBVIOUS
<1>b. slot \in LedgerRow /\ slot[1] = verdict /\ slot[2] = n
  BY DEF LedgerRow
<1> HIDE DEF a, slot
<1>4. /\ DOMAIN ledger' = Runs /\ DOMAIN ledger'[r] = DOMAIN ledger[r] \cup {c}
      /\ ledger'[r][c] = slot
      /\ \A d \in DOMAIN ledger[r] : ledger'[r][d] = ledger[r][d]
      /\ \A s \in Runs \ {r} : ledger'[s] = ledger[s]
      /\ ledger'[r] = [d \in DOMAIN ledger[r] \cup {c} |-> IF d = c THEN slot ELSE ledger[r][d]]
  BY <1>0, <1>1, <1>3 DEF GenTypes
<1>5. Rows(r, "succeeded")' =
         IF verdict = "succeeded" THEN Rows(r, "succeeded") \cup {c} ELSE Rows(r, "succeeded")
  BY <1>1, <1>4, <1>b DEF Rows
<1>6. /\ new \subseteq Runs \X AllChunks \X (1..MaxDraft)
      /\ \A s, d, i : <<s, d, i>> \in new <=>
            s = r /\ d = c /\ verdict = "succeeded" /\ i \in 1..n
  <2>1. MaxDraft \in Nat
    BY GenerationAssumption
  <2>2. \A i \in 1..n : i \in 1..MaxDraft
    BY <2>1
  <2> QED BY <2>2
<1> HIDE DEF new
<1>7. GenTypes'
  <2>1. ASSUME NEW s \in Runs
        PROVE  DOMAIN ledger'[s] \subseteq AllChunks /\ ledger'[s] \in [DOMAIN ledger'[s] -> LedgerRow]
    <3>1. DOMAIN ledger[s] \subseteq AllChunks /\ ledger[s] \in [DOMAIN ledger[s] -> LedgerRow]
      BY <1>0 DEF GenTypes
    <3> QED BY <1>4, <1>b, <3>1
  <2>2. attempt' \in [Runs -> Attempts]
    BY <1>0, <1>2 DEF GenTypes
  <2> QED BY <1>0, <1>3, <1>4, <1>6, <2>1, <2>2 DEF GenTypes
<1>8. CardsMatch(r)'
  <2>1. ASSUME NEW d \in AllChunks, NEW i \in 1..MaxDraft
        PROVE  <<r, d, i>> \in made' <=> d \in Rows(r, "succeeded")' /\ i <= ledger'[r][d][2]
    <3>1. <<r, d, i>> \in made <=> d \in Rows(r, "succeeded") /\ i <= ledger[r][d][2]
      BY <1>0 DEF RunGood, CardsMatch
    <3>2. d \in Rows(r, "succeeded") => d \in DOMAIN ledger[r] /\ d # c
      BY <1>1 DEF Rows
    <3>3. CASE d # c
      BY <1>3, <1>4, <1>5, <1>6, <3>1, <3>2, <3>3
    <3>4. CASE d = c
      <4>1. <<r, d, i>> \notin made
        BY <3>1, <3>2, <3>4
      <4>2. i \in 1..n <=> i <= n
        OBVIOUS
      <4>3. d \in Rows(r, "succeeded")' <=> verdict = "succeeded"
        BY <1>5, <3>2, <3>4
      <4>4. ledger'[r][d][2] = n
        BY <1>4, <1>b, <3>4
      <4> QED BY <1>3, <1>6, <3>4, <4>1, <4>2, <4>3, <4>4
    <3> QED BY <3>3, <3>4
  <2> QED BY <2>1 DEF CardsMatch
<1>9. OneEpoch(r)' /\ Selection(r)'
  <2>1. PICK e \in 0..MaxEpoch : attempt[r].selected = Chunks(e)
    BY <1>0 DEF RunGood, Selection
  <2>2. DOMAIN ledger[r] \cup {c} \subseteq attempt[r].selected
    BY <1>0, <1>1 DEF RunGood, Selection
  <2> QED BY <1>2, <1>4, <1>a, <2>1, <2>2 DEF OneEpoch, Selection
<1>10. Whole(r)' /\ AttemptInStep(r)' /\ Kept(r)
  <2>1. run[r].status = "running"
    BY <1>0 DEF RunGood, AttemptInStep, AtWork
  <2> QED BY <1>0, <1>2, <1>3, <1>4, <1>a, <2>1 DEF RunGood, Whole, AttemptInStep, AtWork, Kept, Rows
<1>11. \A s \in Runs \ {r} : Same(s)
  BY <1>0, <1>2, <1>3, <1>4, <1>6 DEF Same, GenTypes
<1>12. RunGood(r)'
  BY <1>8, <1>9, <1>10 DEF RunGood
<1> QED BY <1>7, <1>10, <1>11, <1>12, OneRun

\* New chunks, and a stop of the process with the recovery that follows it.
LEMMA ProcessStep ==
    ASSUME GenInv, Rechunk \/ StopAndRecover
    PROVE  GenInv' /\ \A s \in Runs : Kept(s)
<1>0. GenTypes
  BY DEF GenInv
<1>1. CASE Rechunk
  <2>1. GenTypes'
    BY <1>0, <1>1, GenerationAssumption DEF Rechunk, GenTypes
  <2>2. \A s \in Runs : Same(s)
    BY <1>1 DEF Rechunk, Same
  <2> QED BY <1>0, <2>1, <2>2, SameGood DEF GenInv
<1>2. CASE StopAndRecover
  <2>1. UNCHANGED <<ledger, made, epoch>> /\ attempt' = [r \in Runs |-> NoAttempt]
    BY <1>2 DEF StopAndRecover
  <2>2. NoAttempt \in Attempts /\ NoAttempt.pc = "none"
    BY DEF NoAttempt, Attempts, AttemptPlaces
  <2>3. ASSUME NEW r \in Runs
        PROVE  /\ run'[r] \in [status : RunStatuses \ {"running"},
                    count : [total : Nat, succeeded : Nat, failed : Nat, created : Nat]]
               /\ run[r].status = "completed" => run'[r] = run[r]
               /\ run'[r].status = "completed" => run'[r] = run[r]
    <3>1. run[r] \in [status : RunStatuses,
                      count : [total : Nat, succeeded : Nat, failed : Nat, created : Nat]]
      BY <1>0 DEF GenTypes
    <3>2. run'[r] = [status |-> IF run[r].status \in {"pending", "running"} THEN "failed"
                                ELSE run[r].status, count |-> run[r].count]
      BY <1>2, <3>1 DEF StopAndRecover
    <3> QED BY <3>1, <3>2 DEF RunStatuses
  <2>4. ASSUME NEW r \in Runs
        PROVE  task'[r] \in TaskRows /\ (task'[r].status = "succeeded" => task'[r] = task[r])
    <3>1. task[r] \in TaskRows
      BY <1>0 DEF GenTypes
    <3>2. task'[r] = IF task[r].status # "running" THEN task[r]
                     ELSE [status |-> IF task[r].asked THEN "canceled" ELSE "failed", asked |-> FALSE]
      BY <1>2 DEF StopAndRecover
    <3> QED BY <3>1, <3>2 DEF TaskRows, TaskStatuses
  <2>5. /\ run' = [r \in Runs |-> run'[r]]
        /\ task' = [r \in Runs |-> task'[r]]
    BY <1>2 DEF StopAndRecover
  <2>6. GenTypes'
    <3>1. attempt' \in [Runs -> Attempts]
      BY <2>1, <2>2
    <3>2. task' \in [Runs -> TaskRows]
      BY <2>4, <2>5
    <3>3. run' \in [Runs -> [status : RunStatuses,
                      count : [total : Nat, succeeded : Nat, failed : Nat, created : Nat]]]
      BY <2>3, <2>5
    <3> QED BY <1>0, <2>1, <3>1, <3>2, <3>3 DEF GenTypes
  <2>7. ASSUME NEW r \in Runs PROVE RunGood(r)' /\ Kept(r)
    <3>1. RunGood(r)
      BY DEF GenInv
    <3>2. Rows(r, "succeeded")' = Rows(r, "succeeded")
      BY <2>1 DEF Rows
    <3>3. CardsMatch(r)' /\ OneEpoch(r)'
      BY <2>1, <3>1, <3>2 DEF RunGood, CardsMatch, OneEpoch
    <3>4. Selection(r)'
      BY <2>1, <2>2 DEF Selection
    <3>5. Whole(r)'
      BY <2>1, <2>3, <3>1, <3>2 DEF RunGood, Whole
    <3>6. AttemptInStep(r)'
      BY <2>1, <2>2, <2>3, <2>4, <3>1 DEF RunGood, AttemptInStep, AtWork
    <3> QED BY <2>1, <2>3, <3>3, <3>4, <3>5, <3>6 DEF RunGood, Kept, Rows
  <2> QED BY <2>6, <2>7 DEF GenInv
<1> QED BY <1>1, <1>2

LEMMA GenStart == ASSUME GenInit PROVE GenInv
<1>2. 0 \in 0..MaxEpoch
  BY GenerationAssumption
<1>3. /\ run = [r \in Runs |-> [status |-> "none", count |-> NoCounters]]
      /\ ledger = [r \in Runs |-> NoChunks] /\ made = {} /\ epoch = 0
      /\ attempt = [r \in Runs |-> NoAttempt]
      /\ task = [r \in Runs |-> [status |-> "none", asked |-> FALSE]]
  BY DEF GenInit
<1>4. NoAttempt \in Attempts /\ NoAttempt.pc = "none" /\ DOMAIN NoChunks = {}
  BY DEF NoAttempt, Attempts, AttemptPlaces, NoChunks
<1>5. GenTypes
  <2>1. [status |-> "none", count |-> NoCounters] \in
           [status : RunStatuses, count : [total : Nat, succeeded : Nat, failed : Nat, created : Nat]]
    BY DEF NoCounters, RunStatuses
  <2>2. [status |-> "none", asked |-> FALSE] \in TaskRows
    BY DEF TaskRows, TaskStatuses
  <2>3. NoChunks \in [{} -> LedgerRow]
    BY DEF NoChunks
  <2> QED BY <1>2, <1>3, <1>4, <2>1, <2>2, <2>3 DEF GenTypes
<1>6. ASSUME NEW r \in Runs PROVE RunGood(r)
  <2>1. ledger[r] = NoChunks /\ attempt[r] = NoAttempt
        /\ run[r].status = "none" /\ task[r].status = "none"
    BY <1>3
  <2>2. CardsMatch(r)
    BY <1>3, <1>4, <2>1 DEF CardsMatch, Rows
  <2> QED BY <1>2, <1>4, <2>1, <2>2 DEF RunGood, OneEpoch, Selection, Whole, AttemptInStep, AtWork
<1> QED BY <1>5, <1>6 DEF GenInv

LEMMA GenStepKept ==
    ASSUME GenInv, [GenNext]_generationVars
    PROVE  GenInv' /\ \A s \in Runs : Kept(s)
<1>1. CASE UNCHANGED generationVars
  <2>1. GenTypes /\ GenTypes' /\ \A s \in Runs : Same(s)
    BY <1>1 DEF generationVars, GenInv, GenTypes, Same
  <2> QED BY <2>1, SameGood DEF GenInv
<1>2. ASSUME NEW r \in Runs, NEW c \in AllChunks, FailChunk(r, c)
      PROVE  GenInv' /\ \A s \in Runs : Kept(s)
  <2>1. attempt[r].pc = "next" /\ c \in ChunkDue(r) /\ Deposit(r, c, <<"failed", 0>>, {})
    BY <1>2 DEF FailChunk
  <2>2. 0 \in 0..MaxDraft
    BY GenerationAssumption
  <2> QED BY <2>1, <2>2, DepositStep
<1>3. ASSUME NEW r \in Runs, NEW c \in AllChunks, NEW n \in 0..MaxDraft, PublishChunk(r, c, n)
      PROVE  GenInv' /\ \A s \in Runs : Kept(s)
  <2>1. attempt[r].pc = "next" /\ c \in ChunkDue(r)
        /\ Deposit(r, c, <<"succeeded", n>>, {<<r, c, i>> : i \in 1..n})
    BY <1>3 DEF PublishChunk
  <2> QED BY <2>1, DepositStep
<1> QED BY <1>1, <1>2, <1>3, EndpointStep, PreparedStep, ClearStep, ProgressStep, ProcessStep DEF GenNext

\* The cards of a chunk are counted by its row.
LEMMA CardsAre ==
    ASSUME NEW held, held \subseteq Runs \X AllChunks \X (1..MaxDraft),
           NEW r, NEW c, r \in Runs, c \in AllChunks, NEW n \in 0..MaxDraft,
           \A i \in 1..MaxDraft : <<r, c, i>> \in held <=> i <= n
    PROVE  {k \in held : k[1] = r /\ k[2] = c} = {<<r, c, i>> : i \in 1..n}
<1>0. MaxDraft \in Nat
  BY GenerationAssumption
<1>1. ASSUME NEW k \in held, k[1] = r, k[2] = c PROVE k \in {<<r, c, i>> : i \in 1..n}
  <2>1. k \in Runs \X AllChunks \X (1..MaxDraft)
    BY <1>1
  <2>2. k = <<r, c, k[3]>> /\ k[3] \in 1..MaxDraft
    BY <1>1, <2>1
  <2>3. k[3] <= n
    BY <2>2
  <2>4. k[3] \in 1..n
    BY <1>0, <2>2, <2>3
  <2> QED BY <2>2, <2>4
<1>2. ASSUME NEW i \in 1..n PROVE <<r, c, i>> \in held
  <2>1. i \in 1..MaxDraft /\ i <= n
    BY <1>0
  <2> QED BY <2>1
<1> QED BY <1>1, <1>2

LEMMA CardsCounted ==
    ASSUME GenInv, NEW r \in Runs, NEW c \in AllChunks
    PROVE  /\ c \in Rows(r, "succeeded") =>
                 /\ ledger[r][c][2] \in 0..MaxDraft
                 /\ CardsOf(r, c) = {<<r, c, i>> : i \in 1..ledger[r][c][2]}
           /\ c \notin Rows(r, "succeeded") => CardsOf(r, c) = {}
<1>0. GenTypes /\ CardsMatch(r) /\ MaxDraft \in Nat
  BY GenerationAssumption DEF GenInv, RunGood
<1>1. ASSUME c \in Rows(r, "succeeded")
      PROVE  /\ ledger[r][c][2] \in 0..MaxDraft
             /\ \A i \in 1..MaxDraft : <<r, c, i>> \in made <=> i <= ledger[r][c][2]
  <2>1. ledger[r][c] \in LedgerRow
    BY <1>0, <1>1 DEF GenTypes, Rows
  <2> QED BY <1>0, <1>1, <2>1 DEF LedgerRow, CardsMatch
<1>2. ASSUME c \in Rows(r, "succeeded")
      PROVE  CardsOf(r, c) = {<<r, c, i>> : i \in 1..ledger[r][c][2]}
  BY <1>0, <1>1, <1>2, CardsAre, SMTT(30) DEF CardsOf, GenTypes
<1>3. ASSUME c \notin Rows(r, "succeeded") PROVE CardsOf(r, c) = {}
  <2>1. \A i \in 1..MaxDraft : <<r, c, i>> \in made <=> i <= 0
    BY <1>0, <1>3 DEF CardsMatch
  <2>2. {k \in made : k[1] = r /\ k[2] = c} = {<<r, c, i>> : i \in 1..0}
    BY <1>0, <2>1, CardsAre, SMTT(30) DEF GenTypes
  <2> QED BY <2>2 DEF CardsOf
<1> QED BY <1>1, <1>2, <1>3

LEMMA FirstNumbers == ASSUME NEW n \in Nat PROVE IsFiniteSet(1..n) /\ Cardinality(1..n) = n
BY FS_Interval

LEMMA LedgerIsSound == ASSUME GenInv PROVE LedgerSound
<1>1. ASSUME NEW r \in Runs, NEW c \in AllChunks
      PROVE  Cardinality(CardsOf(r, c)) = IF c \in Rows(r, "succeeded") THEN ledger[r][c][2] ELSE 0
  <2>1. CASE c \in Rows(r, "succeeded")
    <3> DEFINE n == ledger[r][c][2]
               drawn == {<<r, c, i>> : i \in 1..n}
               f == [i \in 1..n |-> <<r, c, i>>]
    <3>1. n \in 0..MaxDraft /\ CardsOf(r, c) = drawn
      BY <2>1, CardsCounted
    <3>2. n \in Nat
      BY <3>1
    <3>3. IsFiniteSet(1..n) /\ Cardinality(1..n) = n
      BY <3>2, FirstNumbers
    <3>4. f \in Bijection(1..n, drawn)
      <4>1. f \in [1..n -> drawn] /\ \A i, j \in 1..n : f[i] = f[j] => i = j
        OBVIOUS
      <4>2. \A d \in drawn : \E i \in 1..n : f[i] = d
        OBVIOUS
      <4> QED BY <4>1, <4>2 DEF Bijection, Injection, IsInjective, Surjection
    <3>5. ExistsBijection(1..n, drawn)
      BY <3>4 DEF ExistsBijection
    <3>6. Cardinality(drawn) = n
      BY <3>3, <3>5, FS_Bijection
    <3> QED BY <2>1, <3>1, <3>6
  <2>2. CASE c \notin Rows(r, "succeeded")
    BY <2>2, CardsCounted, FS_EmptySet
  <2> QED BY <2>1, <2>2
<1>2. \A r \in Runs : Whole(r) /\ AttemptInStep(r)
  BY DEF GenInv, RunGood
<1> QED BY <1>1, <1>2 DEF LedgerSound, Whole, AttemptInStep, AtWork

LEMMA GenStepInv ==
    ASSUME GenInv, [GenNext]_generationVars
    PROVE  GenInv' /\ [PublishedIsFinal]_generationVars
<1>1. GenInv' /\ \A s \in Runs : Kept(s)
  BY GenStepKept
<1>2. ASSUME NEW r \in Runs, NEW c \in Rows(r, "succeeded")
      PROVE  {k \in made' : k[1] = r /\ k[2] = c} = CardsOf(r, c)
  <2>1. c \in AllChunks /\ c \in DOMAIN ledger[r]
    BY DEF GenInv, GenTypes, Rows
  <2>2. c \in DOMAIN ledger'[r] /\ ledger'[r][c] = ledger[r][c]
    BY <1>1 DEF Kept
  <2>3. c \in Rows(r, "succeeded")'
    BY <2>2 DEF Rows
  <2>4. \A i \in 1..MaxDraft : <<r, c, i>> \in made <=> <<r, c, i>> \in made'
    <3>1. \A i \in 1..MaxDraft : <<r, c, i>> \in made <=> i <= ledger[r][c][2]
      BY <2>1 DEF GenInv, RunGood, CardsMatch
    <3>2. \A i \in 1..MaxDraft : <<r, c, i>> \in made' <=> i <= ledger'[r][c][2]
      BY <1>1, <2>1, <2>3 DEF GenInv, RunGood, CardsMatch
    <3> QED BY <2>2, <3>1, <3>2
  <2>5. made \cup made' \subseteq Runs \X AllChunks \X (1..MaxDraft)
    BY <1>1 DEF GenInv, GenTypes
  <2>6. ASSUME NEW k \in made \cup made', k[1] = r, k[2] = c
        PROVE  k \in made <=> k \in made'
    <3>1. k = <<r, c, k[3]>> /\ k[3] \in 1..MaxDraft
      BY <2>5, <2>6
    <3> QED BY <2>4, <3>1
  <2> QED BY <2>6 DEF CardsOf
<1> QED BY <1>1, <1>2 DEF PublishedIsFinal, Kept

----------------------------------------------------------------------------
(***************************************************************************)
(* Cards and what hangs on them.  A relation keeps the pair its id names,  *)
(* in the row and in every request that has read it; what is written for   *)
(* a card or a review item that is there is taken away with it.            *)
(***************************************************************************)
RelationRow(r) ==
    /\ DOMAIN r = {"id", "pair", "type", "method", "status", "late"}
    /\ r.pair \in StudyIds \X StudyIds
    /\ r.id[1][1] = r.pair

CallerFine(q) ==
    /\ q.at = "attach" => q.card \in StudyIds
    /\ q.at \in {"progress", "event"} =>
          q.card \in StudyIds /\ q = [at |-> q.at, card |-> q.card]
    /\ q.at = "recompute" => q.found \subseteq Pairs
    /\ q.at = "manual" => q.identity[1] \in StudyIds \X StudyIds
    /\ q.at \in {"classify", "write", "hide"} => RelationRow(q.row)
    /\ q.at = "hide" => q.row.status = "hidden"

ShelfTyped == shelf \in [StudyIds -> {"live", "trash", "gone"}]
CallersFine == DOMAIN caller = Callers /\ \A w \in Callers : CallerFine(caller[w])
RowsTyped == \A a \in attached : a.card \in StudyIds
RelationsTyped == \A r \in relation : RelationRow(r)

RowsInPlace ==
    \A a \in attached : ~a.late =>
        /\ shelf[a.card] # "gone"
        /\ a.kind \in {"progress", "event"} => Has("item", a.card)
RelationsInPlace ==
    \A r \in relation : ~r.late => \A i \in {1, 2} : shelf[r.pair[i]] # "gone"

StudyInv == /\ ShelfTyped /\ CallersFine /\ RowsTyped /\ RelationsTyped
            /\ RowsInPlace /\ RelationsInPlace

LEMMA StudyIsSound == StudyInv => CascadeComplete
BY DEF StudyInv, RowsInPlace, RelationsInPlace, CascadeComplete

LEMMA StudyStart == StudyInit => StudyInv
<1> SUFFICES ASSUME StudyInit PROVE StudyInv
  OBVIOUS
<1>1. ShelfTyped
  BY DEF StudyInit, ShelfTyped
<1>2. CallersFine
  <2>1. CallerFine(Nobody)
    BY DEF CallerFine, Nobody
  <2>2. DOMAIN caller = Callers /\ \A w \in Callers : caller[w] = Nobody
    BY DEF StudyInit
  <2> QED BY <2>1, <2>2 DEF CallersFine
<1>3. RowsTyped /\ RelationsTyped /\ RowsInPlace /\ RelationsInPlace
  BY DEF StudyInit, RowsTyped, RelationsTyped, RowsInPlace, RelationsInPlace
<1> QED BY <1>1, <1>2, <1>3 DEF StudyInv

\* A request that goes on with something fine leaves all of them fine.
LEMMA CallerGoesOn ==
    ASSUME CallersFine, NEW w \in Callers, NEW q, CallerFine(q), Holds(w, q)
    PROVE  CallersFine'
<1>1. caller' = [caller EXCEPT ![w] = q]
  BY DEF Holds
<1>2. DOMAIN caller' = Callers
  BY <1>1 DEF CallersFine
<1>3. \A v \in Callers : caller'[v] = IF v = w THEN q ELSE caller[v]
  BY <1>1 DEF CallersFine
<1> QED BY <1>2, <1>3 DEF CallersFine

LEMMA CallerEnds ==
    ASSUME CallersFine, NEW w \in Callers, Ends(w)
    PROVE  CallersFine'
<1>1. CallerFine(Nobody)
  BY DEF CallerFine, Nobody
<1> QED BY <1>1, CallerGoesOn DEF Ends

\* A new relation keeps its pair, and is late if one of its cards is gone.
LEMMA RelationMade ==
    ASSUME NEW identity, identity[1] \in StudyIds \X StudyIds, NEW status
    PROVE  /\ RelationRow(Relation(identity, status))
           /\ ~Relation(identity, status).late =>
                 \A i \in {1, 2} : shelf[Relation(identity, status).pair[i]] # "gone"
<1> DEFINE this == Relation(identity, status)
           gone == \E i \in {1, 2} : shelf[identity[1][i]] = "gone"
<1>1. /\ this.id = <<identity, inserts>> /\ this.pair = identity[1] /\ this.late = gone
      /\ DOMAIN this = {"id", "pair", "type", "method", "status", "late"}
  BY DEF Relation
<1>2. <<identity, inserts>>[1] = identity
  OBVIOUS
<1>3. this.id[1] = identity
  BY <1>1, <1>2
<1> HIDE DEF this
<1>4. RelationRow(this)
  BY <1>1, <1>3 DEF RelationRow
<1>5. ~this.late => \A i \in {1, 2} : shelf[this.pair[i]] # "gone"
  BY <1>1
<1> QED BY <1>4, <1>5 DEF this

\* Adding such relations to some of those there.
LEMMA RelationsAdded ==
    ASSUME RelationsTyped, RelationsInPlace, UNCHANGED shelf, NEW ids, NEW status,
           \A i \in ids : i[1] \in StudyIds \X StudyIds,
           NEW kept, kept \subseteq relation,
           \A r \in relation' : r \in kept \/ \E i \in ids : r = Relation(i, status)
    PROVE  RelationsTyped' /\ RelationsInPlace'
<1> SUFFICES ASSUME NEW r \in relation'
             PROVE  /\ RelationRow(r)
                    /\ ~r.late => \A i \in {1, 2} : shelf[r.pair[i]] # "gone"
  BY DEF RelationsTyped, RelationsInPlace
<1>1. CASE r \in kept
  BY <1>1 DEF RelationsTyped, RelationsInPlace
<1>2. CASE r \notin kept
  <2>1. PICK i \in ids : r = Relation(i, status)
    BY <1>2
  <2> QED BY <2>1, RelationMade
<1> QED BY <1>1, <1>2

\* A row written for a card takes the place of the one of its kind.
LEMMA RowAttached ==
    ASSUME RowsTyped, RowsInPlace, UNCHANGED shelf, NEW kind, NEW c \in StudyIds,
           attached' = Attached(kind, c)
    PROVE  RowsTyped' /\ RowsInPlace'
<1> DEFINE this == [kind |-> kind, card |-> c, late |-> Late(kind, c)]
<1>1. this.kind = kind /\ this.card = c /\ this.late = Late(kind, c)
  OBVIOUS
<1>2. attached' = {a \in attached : ~(a.kind = kind /\ a.card = c)} \cup {this}
  BY DEF Attached
<1> HIDE DEF this
<1>3. RowsTyped'
  BY <1>1, <1>2 DEF RowsTyped
<1>4. \A d : Has("item", d) => Has("item", d)'
  BY <1>1, <1>2 DEF Has
<1>5. ~this.late => /\ shelf[this.card] # "gone"
                    /\ this.kind \in {"progress", "event"} => Has("item", this.card)
  BY <1>1 DEF Late
<1>6. ASSUME NEW a \in attached', ~a.late
      PROVE  /\ shelf[a.card] # "gone"
             /\ a.kind \in {"progress", "event"} => Has("item", a.card)'
  <2>1. CASE a \in attached
    BY <1>4, <1>6, <2>1 DEF RowsInPlace
  <2>2. CASE a \notin attached
    <3>1. a = this
      BY <1>2, <1>6, <2>2
    <3>2. a.kind = this.kind /\ a.card = this.card /\ ~this.late
      BY <1>6, <3>1
    <3>3. shelf[a.card] # "gone"
      BY <1>5, <3>2
    <3>4. a.kind \in {"progress", "event"} => Has("item", a.card)
      BY <1>5, <3>2
    <3> QED BY <1>4, <3>3, <3>4
  <2> QED BY <2>1, <2>2
<1>7. RowsInPlace'
  BY <1>1, <1>6 DEF RowsInPlace
<1> QED BY <1>3, <1>7

\* Rows may go, an item only with its progress and events.
LEMMA RowsDropped ==
    ASSUME RowsTyped, RowsInPlace, UNCHANGED shelf, attached' \subseteq attached,
           \A a \in attached \ attached' : a.kind = "item" =>
              \A b \in attached' : ~(b.card = a.card /\ b.kind \in {"progress", "event"})
    PROVE  RowsTyped' /\ RowsInPlace'
<1>1. RowsTyped'
  BY DEF RowsTyped
<1>2. ASSUME NEW b \in attached', b.kind \in {"progress", "event"}, Has("item", b.card)
      PROVE  Has("item", b.card)'
  BY <1>2 DEF Has
<1>3. RowsInPlace'
  BY <1>2 DEF RowsInPlace
<1> QED BY <1>1, <1>3

\* What a purge leaves.
LEMMA Hanging ==
    ASSUME StudyInv, NEW cs, cs \subseteq StudyIds, PurgeHanging(cs)
    PROVE  ShelfTyped' /\ CallersFine' /\ RowsTyped' /\ RowsInPlace'
<1>1. ShelfTyped' /\ \A c \in StudyIds : shelf'[c] = IF c \in cs THEN "gone" ELSE shelf[c]
  BY DEF StudyInv, ShelfTyped, PurgeHanging
<1>2. CallersFine'
  BY DEF StudyInv, CallersFine, PurgeHanging
<1>3. attached' = {a \in attached : ~GoesWith(a, cs)}
  BY DEF PurgeHanging
<1>4. RowsTyped'
  BY <1>3 DEF StudyInv, RowsTyped
<1>5. ASSUME NEW a \in attached', ~a.late
      PROVE  /\ shelf'[a.card] # "gone"
             /\ a.kind \in {"progress", "event"} => Has("item", a.card)'
  <2>1. /\ a \in attached /\ ~GoesWith(a, cs) /\ a.card \in StudyIds
        /\ shelf[a.card] # "gone"
        /\ a.kind \in {"progress", "event"} => Has("item", a.card)
    BY <1>3, <1>5 DEF StudyInv, RowsTyped, RowsInPlace
  <2>2. a.card \notin cs
    BY <2>1 DEF GoesWith
  <2>3. Has("item", a.card) => Has("item", a.card)'
    BY <1>3, <2>2 DEF Has, GoesWith
  <2> QED BY <1>1, <2>1, <2>2, <2>3
<1>6. RowsInPlace'
  BY <1>5 DEF RowsInPlace
<1> QED BY <1>1, <1>2, <1>4, <1>6

LEMMA RelationsPurged ==
    ASSUME StudyInv, NEW cs, cs \subseteq StudyIds, PurgeCards(cs)
    PROVE  /\ RelationsTyped' /\ RelationsInPlace'
           /\ \A r \in relation \ relation' : r.pair[1] \in cs \/ r.pair[2] \in cs
<1>1. \A c \in StudyIds : shelf'[c] = IF c \in cs THEN "gone" ELSE shelf[c]
  BY DEF PurgeCards, PurgeHanging
<1>2. relation' = {r \in relation : r.pair[1] \notin cs /\ r.pair[2] \notin cs}
  BY DEF PurgeCards, Unrelated
<1>3. RelationsTyped'
  BY <1>2 DEF StudyInv, RelationsTyped
<1>4. ASSUME NEW r \in relation', ~r.late, NEW i \in {1, 2}
      PROVE  shelf'[r.pair[i]] # "gone"
  <2>1. r \in relation /\ r.pair[i] \notin cs
    BY <1>2, <1>4
  <2>2. r.pair[i] \in StudyIds
    BY <2>1 DEF StudyInv, RelationsTyped, RelationRow
  <2>3. shelf[r.pair[i]] # "gone"
    BY <1>4, <2>1 DEF StudyInv, RelationsInPlace
  <2> QED BY <1>1, <2>1, <2>2, <2>3
<1>5. RelationsInPlace'
  BY <1>4 DEF RelationsInPlace
<1> QED BY <1>2, <1>3, <1>5

\* The requests that only read.
LEMMA StudyReads ==
    ASSUME StudyInv, NEW w \in Callers, UNCHANGED <<shelf, attached, relation>>, CallersFine'
    PROVE  StudyInv' /\ DecisionKept
<1>1. ShelfTyped' /\ RowsTyped' /\ RelationsTyped'
  BY DEF StudyInv, ShelfTyped, RowsTyped, RelationsTyped
<1>2. RowsInPlace' /\ RelationsInPlace'
  BY DEF StudyInv, RowsInPlace, RelationsInPlace, Has
<1>3. DecisionKept
  BY DEF DecisionKept
<1> QED BY <1>1, <1>2, <1>3 DEF StudyInv

\* The requests that write the rows of a card.
LEMMA StudyRows ==
    ASSUME StudyInv, UNCHANGED <<shelf, relation>>, CallersFine', RowsTyped', RowsInPlace'
    PROVE  StudyInv' /\ DecisionKept
<1>1. ShelfTyped' /\ RelationsTyped' /\ RelationsInPlace'
  BY DEF StudyInv, ShelfTyped, RelationsTyped, RelationsInPlace
<1>2. DecisionKept
  BY DEF DecisionKept
<1> QED BY <1>1, <1>2 DEF StudyInv

\* The requests that write relations.
LEMMA StudyRelations ==
    ASSUME StudyInv, UNCHANGED <<shelf, attached>>, CallersFine',
           RelationsTyped', RelationsInPlace'
    PROVE  StudyInv'
<1>1. ShelfTyped' /\ RowsTyped' /\ RowsInPlace'
  BY DEF StudyInv, ShelfTyped, RowsTyped, RowsInPlace, Has
<1> QED BY <1>1 DEF StudyInv

LEMMA StudyBegins ==
    ASSUME StudyInv, NEW w \in Callers,
           \/ \E c \in StudyIds, kind \in {"vector", "note", "item"} : BeginAttach(w, kind, c)
           \/ \E c \in StudyIds : BeginRating(w, c)
           \/ \E p \in Pairs, type \in RelationTypes : BeginManual(w, p, type)
           \/ \E r \in relation : BeginClassify(w, r)
           \/ \E r \in relation, type \in RelationTypes, status \in RelationStatuses :
                 BeginPatch(w, r, type, status)
           \/ BeginRecompute(w) \/ GiveUp(w)
    PROVE  StudyInv' /\ DecisionKept
<1>0. CallersFine /\ RelationsTyped
  BY DEF StudyInv
<1>1. ASSUME NEW c \in StudyIds, NEW kind, BeginAttach(w, kind, c)
      PROVE  StudyInv' /\ DecisionKept
  <2> DEFINE q == [at |-> "attach", kind |-> kind, card |-> c]
  <2>1. CallerFine(q)
    BY DEF CallerFine
  <2>2. Holds(w, q)
    BY <1>1 DEF BeginAttach
  <2>3. CallersFine'
    BY <1>0, <2>1, <2>2, CallerGoesOn
  <2> QED BY <1>1, <2>3, StudyReads DEF BeginAttach
<1>2. ASSUME NEW c \in StudyIds, BeginRating(w, c)
      PROVE  StudyInv' /\ DecisionKept
  <2> DEFINE q == [at |-> "progress", card |-> c]
  <2>1. CallerFine(q)
    BY DEF CallerFine
  <2>2. Holds(w, q)
    BY <1>2 DEF BeginRating
  <2>3. CallersFine'
    BY <1>0, <2>1, <2>2, CallerGoesOn
  <2> QED BY <1>2, <2>3, StudyReads DEF BeginRating
<1>3. ASSUME NEW p \in Pairs, NEW type, BeginManual(w, p, type)
      PROVE  StudyInv' /\ DecisionKept
  <2> DEFINE id == <<p, type, "manual">>
             q == [at |-> "manual", identity |-> id]
  <2>0. p \in StudyIds \X StudyIds
    BY StudyAssumption
  <2>1. id[1] = p
    OBVIOUS
  <2>4. Holds(w, q)
    BY <1>3 DEF BeginManual
  <2> HIDE DEF id
  <2>2. CallerFine(q)
    BY <2>0, <2>1 DEF CallerFine
  <2>3. CallersFine'
    BY <1>0, <2>2, <2>4, CallerGoesOn
  <2> QED BY <1>3, <2>3, StudyReads DEF BeginManual
<1>4. ASSUME NEW r \in relation, BeginClassify(w, r)
      PROVE  StudyInv' /\ DecisionKept
  <2> DEFINE q == [at |-> "classify", row |-> r]
  <2>1. CallerFine(q)
    BY <1>0 DEF CallerFine, RelationsTyped
  <2>2. Holds(w, q)
    BY <1>4 DEF BeginClassify
  <2>3. CallersFine'
    BY <1>0, <2>1, <2>2, CallerGoesOn
  <2> QED BY <1>4, <2>3, StudyReads DEF BeginClassify
<1>5. ASSUME NEW r \in relation, NEW type, NEW status, BeginPatch(w, r, type, status)
      PROVE  StudyInv' /\ DecisionKept
  <2> DEFINE new == [r EXCEPT !.type = type, !.status = status]
             q == [at |-> "write", row |-> new]
  <2>0. RelationRow(r)
    BY <1>0 DEF RelationsTyped
  <2>1. DOMAIN new = DOMAIN r /\ new.id = r.id /\ new.pair = r.pair
    BY <2>0 DEF RelationRow
  <2>2. Holds(w, q)
    BY <1>5 DEF BeginPatch
  <2>3. RelationRow(new)
    BY <2>0, <2>1 DEF RelationRow
  <2> HIDE DEF new
  <2>4. CallerFine(q)
    BY <2>3 DEF CallerFine
  <2>5. CallersFine'
    BY <1>0, <2>2, <2>4, CallerGoesOn
  <2> QED BY <1>5, <2>5, StudyReads DEF BeginPatch
<1>6. CASE BeginRecompute(w)
  <2>1. PICK found \in SUBSET Candidates : Holds(w, [at |-> "recompute", found |-> found])
    BY <1>6 DEF BeginRecompute
  <2> DEFINE q == [at |-> "recompute", found |-> found]
  <2>2. CallerFine(q)
    BY DEF CallerFine, Candidates
  <2>3. CallersFine'
    BY <1>0, <2>1, <2>2, CallerGoesOn
  <2> QED BY <1>6, <2>3, StudyReads DEF BeginRecompute
<1>7. CASE GiveUp(w)
  <2>1. CallersFine'
    BY <1>0, <1>7, CallerEnds DEF GiveUp
  <2> QED BY <1>7, <2>1, StudyReads DEF GiveUp
<1> QED BY <1>1, <1>2, <1>3, <1>4, <1>5, <1>6, <1>7

LEMMA StudyAttaches ==
    ASSUME StudyInv, NEW w \in Callers, Attach(w) \/ WriteProgress(w) \/ WriteEvent(w)
    PROVE  StudyInv' /\ DecisionKept
<1>0. CallersFine /\ RowsTyped /\ RowsInPlace /\ CallerFine(caller[w])
  BY DEF StudyInv, CallersFine
<1>1. CASE Attach(w)
  <2>1. caller[w].card \in StudyIds
    BY <1>0, <1>1 DEF Attach, Waits, CallerFine
  <2>2. CallersFine'
    BY <1>0, <1>1, CallerEnds DEF Attach
  <2>3. RowsTyped' /\ RowsInPlace'
    BY <1>0, <1>1, <2>1, RowAttached DEF Attach
  <2> QED BY <1>1, <2>2, <2>3, StudyRows DEF Attach
<1>2. CASE WriteProgress(w)
  <2> DEFINE q == [caller[w] EXCEPT !.at = "event"]
  <2>1. caller[w].card \in StudyIds /\ caller[w] = [at |-> "progress", card |-> caller[w].card]
    BY <1>0, <1>2 DEF WriteProgress, Waits, CallerFine
  <2>2. q = [at |-> "event", card |-> caller[w].card]
    BY <2>1
  <2>3. CallerFine(q)
    BY <2>1, <2>2 DEF CallerFine
  <2>4. Holds(w, caller[w]) \/ Holds(w, q)
    BY <1>2 DEF WriteProgress
  <2> HIDE DEF q
  <2>5. CallersFine'
    BY <1>0, <2>3, <2>4, CallerGoesOn
  <2>6. RowsTyped' /\ RowsInPlace'
    BY <1>0, <1>2, <2>1, RowAttached DEF WriteProgress
  <2> QED BY <1>2, <2>5, <2>6, StudyRows DEF WriteProgress
<1>3. CASE WriteEvent(w)
  <2>1. caller[w].card \in StudyIds
    BY <1>0, <1>3 DEF WriteEvent, Waits, CallerFine
  <2>2. CallersFine'
    BY <1>0, <1>3, CallerEnds DEF WriteEvent
  <2>3. RowsTyped' /\ RowsInPlace'
    BY <1>0, <1>3, <2>1, RowAttached DEF WriteEvent
  <2> QED BY <1>3, <2>2, <2>3, StudyRows DEF WriteEvent
<1> QED BY <1>1, <1>2, <1>3

LEMMA StudyDrops ==
    ASSUME StudyInv, NEW c \in StudyIds, DeleteNote(c) \/ DeleteItem(c)
    PROVE  StudyInv' /\ DecisionKept
<1>0. RowsTyped /\ RowsInPlace
  BY DEF StudyInv
<1>1. CASE DeleteNote(c)
  <2>1. attached' = {a \in attached : ~(a.kind = "note" /\ a.card = c)}
    BY <1>1 DEF DeleteNote
  <2>2. RowsTyped' /\ RowsInPlace'
    BY <1>0, <1>1, <2>1, RowsDropped DEF DeleteNote
  <2> QED BY <1>1, <2>2, StudyRows DEF DeleteNote, StudyInv, CallersFine
<1>2. CASE DeleteItem(c)
  <2>1. attached' = {a \in attached : ~(a.kind \in ReviewRows /\ a.card = c)}
    BY <1>2 DEF DeleteItem
  <2>2. \A a \in attached \ attached' : a.kind = "item" =>
           \A b \in attached' : ~(b.card = a.card /\ b.kind \in {"progress", "event"})
    BY <2>1 DEF ReviewRows
  <2>3. RowsTyped' /\ RowsInPlace'
    BY <1>0, <1>2, <2>1, <2>2, RowsDropped DEF DeleteItem
  <2> QED BY <1>2, <2>3, StudyRows DEF DeleteItem, StudyInv, CallersFine
<1> QED BY <1>1, <1>2

LEMMA StudyReplaces ==
    ASSUME StudyInv, NEW w \in Callers, ReplaceSuggested(w)
    PROVE  StudyInv' /\ DecisionKept
<1> DEFINE kept == {r \in relation : ~Replaced(r)}
           new == {<<p, Similar, "cosine_similarity">> : p \in caller[w].found}
           ids == new \ {Identity(r) : r \in kept}
<1>0. /\ CallersFine /\ RelationsTyped /\ RelationsInPlace /\ CallerFine(caller[w])
      /\ Waits(w, "recompute")
  BY DEF StudyInv, CallersFine, ReplaceSuggested
<1>1. /\ kept \subseteq relation'
      /\ \A r \in relation' : r \in kept \/ \E i \in ids : r = Relation(i, "suggested")
  BY DEF ReplaceSuggested
<1>2. CallersFine'
  BY <1>0, CallerEnds DEF ReplaceSuggested
<1>3. \A p \in caller[w].found : p \in StudyIds \X StudyIds
  BY <1>0, StudyAssumption DEF Waits, CallerFine
<1>4. \A i \in ids : i[1] \in StudyIds \X StudyIds
  <2> SUFFICES ASSUME NEW i \in ids PROVE i[1] \in StudyIds \X StudyIds
    OBVIOUS
  <2>1. PICK p \in caller[w].found : i = <<p, Similar, "cosine_similarity">>
    OBVIOUS
  <2>2. i[1] = p
    BY <2>1
  <2> QED BY <1>3, <2>2
<1>5. kept \subseteq relation /\ \A r \in relation : r.status # "suggested" => r \in kept
  BY DEF Replaced
<1> HIDE DEF kept, new, ids
<1>6. RelationsTyped' /\ RelationsInPlace'
  BY <1>0, <1>1, <1>4, <1>5, RelationsAdded DEF ReplaceSuggested
<1>7. DecisionKept
  BY <1>1, <1>5 DEF DecisionKept
<1> QED BY <1>2, <1>6, <1>7, StudyRelations DEF ReplaceSuggested

\* One relation more, or none.
LEMMA OneRelationAdded ==
    ASSUME RelationsTyped, RelationsInPlace, UNCHANGED shelf, NEW identity, NEW status,
           identity[1] \in StudyIds \X StudyIds,
           relation' = relation \/ relation' = relation \cup {Relation(identity, status)}
    PROVE  RelationsTyped' /\ RelationsInPlace' /\ DecisionKept
<1> DEFINE ids == {identity}
<1>1. \A r \in relation' : r \in relation \/ \E i \in ids : r = Relation(i, status)
  OBVIOUS
<1>2. \A i \in ids : i[1] \in StudyIds \X StudyIds
  OBVIOUS
<1> HIDE DEF ids
<1>3. RelationsTyped' /\ RelationsInPlace'
  BY <1>1, <1>2, RelationsAdded
<1>4. DecisionKept
  BY DEF DecisionKept
<1> QED BY <1>3, <1>4

LEMMA StudyCreates ==
    ASSUME StudyInv, NEW w \in Callers, NEW status, CreateManual(w, status)
    PROVE  StudyInv' /\ DecisionKept
<1>0. /\ CallersFine /\ RelationsTyped /\ RelationsInPlace /\ CallerFine(caller[w])
      /\ Waits(w, "manual")
  BY DEF StudyInv, CallersFine, CreateManual
<1>1. caller[w].identity[1] \in StudyIds \X StudyIds
  BY <1>0 DEF Waits, CallerFine
<1>2. CallersFine'
  BY <1>0, CallerEnds DEF CreateManual
<1>3. RelationsTyped' /\ RelationsInPlace' /\ DecisionKept
  BY <1>0, <1>1, OneRelationAdded DEF CreateManual
<1> QED BY <1>2, <1>3, StudyRelations DEF CreateManual

LEMMA StudyClassifies ==
    ASSUME StudyInv, NEW w \in Callers, NEW type, SaveClassified(w, type)
    PROVE  StudyInv' /\ DecisionKept
<1> DEFINE held == caller[w].row
           identity == <<held.pair, type, "local_llm">>
           new == [held EXCEPT !.status = "hidden"]
           q == [at |-> "hide", row |-> new]
<1>0. /\ CallersFine /\ RelationsTyped /\ RelationsInPlace /\ CallerFine(caller[w])
      /\ Waits(w, "classify")
  BY DEF StudyInv, CallersFine, SaveClassified
<1>1. RelationRow(held)
  BY <1>0 DEF Waits, CallerFine
<1>2. identity[1] = held.pair
  OBVIOUS
<1>3. RelationRow(new) /\ new.status = "hidden"
  BY <1>1 DEF RelationRow
<1>4. CallerFine(q)
  BY <1>3 DEF CallerFine
<1>5. Holds(w, q) \/ Ends(w)
  BY DEF SaveClassified
<1>6. relation' = relation \/ relation' = relation \cup {Relation(identity, "suggested")}
  BY DEF SaveClassified
<1> HIDE DEF held, identity, new, q
<1>7. CallersFine'
  BY <1>0, <1>4, <1>5, CallerGoesOn, CallerEnds
<1>8. identity[1] \in StudyIds \X StudyIds
  BY <1>1, <1>2 DEF RelationRow
<1>9. RelationsTyped' /\ RelationsInPlace' /\ DecisionKept
  BY <1>0, <1>6, <1>8, OneRelationAdded DEF SaveClassified
<1> QED BY <1>7, <1>9, StudyRelations DEF SaveClassified

\* The row that was read first is written back; the pair is that of its id.
LEMMA StudyWrites ==
    ASSUME StudyInv, NEW w \in Callers, WriteRelation(w)
    PROVE  StudyInv' /\ DecisionKept
<1> DEFINE held == caller[w].row
           WrittenBack(r) == IF r.id = held.id THEN [held EXCEPT !.late = r.late] ELSE r
<1>0. /\ CallersFine /\ RelationsTyped /\ RelationsInPlace /\ CallerFine(caller[w])
      /\ Waits(w, "write") \/ Waits(w, "hide")
      /\ UNCHANGED shelf /\ caller' = [caller EXCEPT ![w] = Nobody]
  BY DEF StudyInv, CallersFine, WriteRelation, Ends, Holds
<1>1. RelationRow(held) /\ (Waits(w, "hide") => held.status = "hidden")
  BY <1>0 DEF Waits, CallerFine
<1>2. CallersFine'
  BY <1>0, CallerEnds DEF WriteRelation
<1>3. relation' = {WrittenBack(r) : r \in relation}
  BY DEF WriteRelation
<1>4. ASSUME NEW r \in relation
      PROVE  /\ RelationRow(WrittenBack(r))
             /\ WrittenBack(r).pair = r.pair /\ WrittenBack(r).late = r.late
  <2>1. RelationRow(r)
    BY <1>0 DEF RelationsTyped
  <2>2. CASE r.id = held.id
    BY <1>1, <2>1, <2>2 DEF RelationRow
  <2>3. CASE r.id # held.id
    BY <2>1, <2>3
  <2> QED BY <2>2, <2>3
<1>5. ASSUME NEW r \in relation, r \notin relation'
      PROVE  /\ held.id = r.id
             /\ Waits(w, "hide") => \E q \in relation' : q.id = r.id /\ q.status = "hidden"
  <2>1. held.id = r.id /\ WrittenBack(r) \in relation'
    BY <1>3, <1>5
  <2>2. [held EXCEPT !.late = r.late].id = held.id
        /\ [held EXCEPT !.late = r.late].status = held.status
    BY <1>1 DEF RelationRow
  <2> QED BY <1>1, <2>1, <2>2
<1>6. caller'[w] = Nobody
  BY <1>0 DEF CallersFine
<1>7. held = caller[w].row
  OBVIOUS
<1> HIDE DEF held, WrittenBack
<1>8. RelationsTyped'
  BY <1>3, <1>4 DEF RelationsTyped
<1>9. RelationsInPlace'
  BY <1>0, <1>3, <1>4 DEF RelationsInPlace
<1>10. DecisionKept
  BY <1>0, <1>5, <1>6, <1>7 DEF DecisionKept
<1> QED BY <1>2, <1>8, <1>9, <1>10, StudyRelations DEF WriteRelation

\* What else happens to the cards and their relations.
LEMMA StudyPurges ==
    ASSUME StudyInv, NEW cs, cs \subseteq StudyIds, \A c \in cs : shelf[c] # "gone",
           PurgeCards(cs)
    PROVE  StudyInv' /\ DecisionKept
<1>1. /\ ShelfTyped' /\ CallersFine' /\ RowsTyped' /\ RowsInPlace'
      /\ \A c \in StudyIds : shelf'[c] = IF c \in cs THEN "gone" ELSE shelf[c]
  BY Hanging DEF PurgeCards, PurgeHanging
<1>2. /\ RelationsTyped' /\ RelationsInPlace'
      /\ \A r \in relation \ relation' : r.pair[1] \in cs \/ r.pair[2] \in cs
  BY RelationsPurged
<1>3. DecisionKept
  BY <1>1, <1>2 DEF DecisionKept
<1> QED BY <1>1, <1>2, <1>3 DEF StudyInv

LEMMA StudyShelf ==
    ASSUME StudyInv, UNCHANGED <<attached, relation, caller>>, ShelfTyped',
           \A c \in StudyIds : shelf[c] # "gone" => shelf'[c] # "gone"
    PROVE  StudyInv' /\ DecisionKept
<1>1. CallersFine' /\ RowsTyped' /\ RelationsTyped'
  BY DEF StudyInv, CallersFine, RowsTyped, RelationsTyped
<1>2. RowsInPlace'
  BY DEF StudyInv, RowsInPlace, RowsTyped, Has
<1>3. RelationsInPlace'
  <2> SUFFICES ASSUME NEW r \in relation, ~r.late, NEW i \in {1, 2}
               PROVE  shelf'[r.pair[i]] # "gone"
    BY DEF RelationsInPlace
  <2>1. r.pair[i] \in StudyIds /\ shelf[r.pair[i]] # "gone"
    BY DEF StudyInv, RelationsTyped, RelationRow, RelationsInPlace
  <2> QED BY <2>1
<1>4. DecisionKept
  BY DEF DecisionKept
<1> QED BY <1>1, <1>2, <1>3, <1>4 DEF StudyInv

\* Every step keeps the invariant and the decisions.
LEMMA StudyStepInv ==
    StudyInv /\ [StudyNext]_studyVars => StudyInv' /\ [DecisionKept]_studyVars
<1> SUFFICES ASSUME StudyInv, [StudyNext]_studyVars
             PROVE  StudyInv' /\ [DecisionKept]_studyVars
  OBVIOUS
<1>1. CASE UNCHANGED studyVars
  <2>1. UNCHANGED <<shelf, attached, relation>> /\ CallersFine'
    BY <1>1 DEF studyVars, StudyInv, CallersFine
  <2>2. ShelfTyped' /\ RowsTyped' /\ RelationsTyped' /\ RowsInPlace' /\ RelationsInPlace'
    BY <2>1 DEF StudyInv, ShelfTyped, RowsTyped, RelationsTyped, RowsInPlace,
                RelationsInPlace, Has
  <2> QED BY <1>1, <2>1, <2>2 DEF StudyInv
<1>2. ASSUME NEW w \in Callers, RequestStep(w)
      PROVE  StudyInv' /\ DecisionKept
  BY <1>2, StudyBegins, StudyAttaches, StudyReplaces, StudyCreates, StudyClassifies, StudyWrites
     DEF RequestStep
<1>3. ASSUME NEW cs, DeleteCards(cs)
      PROVE  StudyInv' /\ DecisionKept
  <2>1. ShelfTyped' /\ \A c \in StudyIds : shelf[c] # "gone" => shelf'[c] # "gone"
    BY <1>3 DEF DeleteCards, StudyInv, ShelfTyped
  <2> QED BY <1>3, <2>1, StudyShelf DEF DeleteCards
<1>4. ASSUME NEW c \in StudyIds, RestoreCard(c)
      PROVE  StudyInv' /\ DecisionKept
  <2>1. ShelfTyped' /\ \A d \in StudyIds : shelf[d] # "gone" => shelf'[d] # "gone"
    BY <1>4 DEF RestoreCard, StudyInv, ShelfTyped
  <2> QED BY <1>4, <2>1, StudyShelf DEF RestoreCard
<1>5. ASSUME NEW c \in StudyIds, PurgeCard(c)
      PROVE  StudyInv' /\ DecisionKept
  BY <1>5, StudyPurges DEF PurgeCard
<1>6. CASE PurgeJobCards
  BY <1>6, StudyPurges DEF PurgeJobCards, Remaining
<1>7. CASE PurgeCourseCards
  <2>1. ShelfTyped' /\ CallersFine' /\ RowsTyped' /\ RowsInPlace'
    BY <1>7, Hanging DEF PurgeCourseCards, Remaining
  <2>2. RelationsTyped' /\ RelationsInPlace'
    BY <1>7 DEF PurgeCourseCards, RelationsTyped, RelationsInPlace
  <2> QED BY <1>7, <2>1, <2>2 DEF StudyInv, DecisionKept
<1>8. ASSUME NEW r \in relation, DeleteRelation(r)
      PROVE  StudyInv' /\ DecisionKept
  <2>1. CallersFine' /\ RelationsTyped' /\ RelationsInPlace' /\ DecisionKept
    BY <1>8 DEF DeleteRelation, StudyInv, CallersFine, RelationsTyped, RelationsInPlace, DecisionKept
  <2> QED BY <1>8, <2>1, StudyRelations DEF DeleteRelation
<1> QED BY <1>1, <1>2, <1>3, <1>4, <1>5, <1>6, <1>7, <1>8, StudyDrops DEF StudyNext

----------------------------------------------------------------------------
(***************************************************************************)
(* The map of a course.  The rows are a forest: among any topics there is  *)
(* one whose parent is not among them.  What the code walks up to from a   *)
(* topic is everything above it.  So what a request has read tells that    *)
(* its row closes no cycle; where the tree at the write still is the one   *)
(* it has read, the row closes none there either.  Whatever it has read, a *)
(* card is given at most one primary topic.                                *)
(***************************************************************************)
OneUp(rows, B) ==
    [t \in Topics |-> IF rows[t].status = "none" THEN {}
                      ELSE {rows[t].parent} \cup
                           UNION {B[p] : p \in {rows[t].parent} \cap Topics}]

LEMMA OneUpIs ==
    ASSUME NEW rows, NEW B, NEW t \in Topics, NEW a
    PROVE  a \in OneUp(rows, B)[t] <=>
              /\ rows[t].status # "none"
              /\ \/ a = rows[t].parent
                 \/ rows[t].parent \in Topics /\ a \in B[rows[t].parent]
BY DEF OneUp

\* What AncestorsIn computes, step by step.
LEMMA UpFacts ==
    ASSUME NEW rows
    PROVE  \E up \in [Nat -> [Topics -> SUBSET {rows[t].parent : t \in Topics}]] :
              /\ up[0] = [t \in Topics |-> {}]
              /\ \A n \in Nat : up[n + 1] = OneUp(rows, up[n])
              /\ AncestorsIn(rows) = up[Cardinality(Topics)]
<1> DEFINE S == [Topics -> SUBSET {rows[t].parent : t \in Topics}]
           base == [t \in Topics |-> {}]
           F == [B \in S |-> OneUp(rows, B)]
           up[n \in Nat] ==
              IF n = 0 THEN [t \in Topics |-> {}]
              ELSE LET below == up[n - 1] IN
                   [t \in Topics |-> IF rows[t].status = "none" THEN {}
                                     ELSE {rows[t].parent} \cup
                                          UNION {below[p] : p \in {rows[t].parent} \cap Topics}]
<1>1. \A B \in S : OneUp(rows, B) \in S
  <2> SUFFICES ASSUME NEW B \in S, NEW t \in Topics
               PROVE  OneUp(rows, B)[t] \subseteq {rows[u].parent : u \in Topics}
    BY DEF OneUp
  <2> QED BY OneUpIs
<1>2. base \in S /\ F \in [S -> S]
  BY <1>1
<1>3. \E f \in [Nat -> S] : f[0] = base /\ \A n \in Nat \ {0} : f[n] = F[f[n - 1]]
  <2> HIDE DEF S, base, F
  <2> QED BY <1>2, RecursionExists
<1>4. \E f : f = [n \in Nat |->
              IF n = 0 THEN [t \in Topics |-> {}]
              ELSE LET below == f[n - 1] IN
                   [t \in Topics |-> IF rows[t].status = "none" THEN {}
                                     ELSE {rows[t].parent} \cup
                                          UNION {below[p] : p \in {rows[t].parent} \cap Topics}]]
  <2>1. PICK f \in [Nat -> S] : f[0] = base /\ \A n \in Nat \ {0} : f[n] = F[f[n - 1]]
    BY <1>3
  <2>2. \A B \in S : F[B] = OneUp(rows, B)
    OBVIOUS
  <2>3. \A n \in Nat : f[n] = IF n = 0 THEN base ELSE OneUp(rows, f[n - 1])
    <3>1. \A n \in Nat \ {0} : n - 1 \in Nat /\ f[n - 1] \in S
      BY <2>1
    <3> HIDE DEF F, S, base
    <3> QED BY <2>1, <2>2, <3>1
  <2>4. f = [n \in Nat |-> IF n = 0 THEN base ELSE OneUp(rows, f[n - 1])]
    <3> HIDE DEF base, S
    <3> QED BY <2>1, <2>3
  <2> QED BY <2>4 DEF OneUp
<1>5. up = [n \in Nat |->
              IF n = 0 THEN [t \in Topics |-> {}]
              ELSE LET below == up[n - 1] IN
                   [t \in Topics |-> IF rows[t].status = "none" THEN {}
                                     ELSE {rows[t].parent} \cup
                                          UNION {below[p] : p \in {rows[t].parent} \cap Topics}]]
  BY <1>4 DEF up
<1>6. AncestorsIn(rows) = up[Cardinality(Topics)]
  BY DEF AncestorsIn, up
<1> HIDE DEF up
<1>7. up = [n \in Nat |-> IF n = 0 THEN base ELSE OneUp(rows, up[n - 1])]
  BY <1>5 DEF OneUp
<1> HIDE DEF base
<1>8. up[0] = base /\ \A n \in Nat : up[n + 1] = OneUp(rows, up[n])
  <2>1. \A n \in Nat : n + 1 # 0 /\ n + 1 \in Nat /\ (n + 1) - 1 = n
    OBVIOUS
  <2> QED BY <1>7, <2>1
<1>9. \A n \in Nat : up[n] \in S
  <2> DEFINE In == {n \in Nat : up[n] \in S}
  <2>1. 0 \in In /\ \A n \in In : n + 1 \in In
    <3> HIDE DEF S
    <3> QED BY <1>1, <1>2, <1>8
  <2>2. In \in SUBSET Nat
    OBVIOUS
  <2>3. \A n \in Nat : n \in In
    <3> HIDE DEF In
    <3> QED BY <2>1, <2>2, AllNumbers
  <2> QED BY <2>3
<1>10. up \in [Nat -> S]
  <2>1. up = [n \in Nat |-> up[n]]
    BY <1>7
  <2> HIDE DEF S
  <2> QED BY <1>9, <2>1
<1> QED BY <1>6, <1>8, <1>10 DEF base

\* What is above a topic: its parent and what is above that, all of it.
LEMMA AncestorFacts ==
    ASSUME NEW rows, NEW t \in Topics, NEW a \in Topics
    PROVE  LET A == AncestorsIn(rows) IN
           /\ rows[t].status # "none" => rows[t].parent \in A[t]
           /\ a \in A[t] =>
                 /\ rows[t].status # "none"
                 /\ a = rows[t].parent \/ (rows[t].parent \in Topics /\ a \in A[rows[t].parent])
           /\ (a # t /\ rows[t].status # "none" /\ rows[t].parent \in Topics
                  /\ a \in A[rows[t].parent]) => a \in A[t]
<1> DEFINE N == Cardinality(Topics)
           Parents == {rows[u].parent : u \in Topics}
           A == AncestorsIn(rows)
<1>1. IsFiniteSet(Topics) /\ N \in Nat /\ N # 0
  <2>1. IsFiniteSet(Topics) /\ Unsorted \in Topics
    BY TopicAssumption
  <2> QED BY <2>1, FS_CardinalityType, FS_EmptySet
<1>2. PICK up \in [Nat -> [Topics -> SUBSET Parents]] :
           /\ up[0] = [u \in Topics |-> {}]
           /\ \A n \in Nat : up[n + 1] = OneUp(rows, up[n])
           /\ A = up[N]
  BY UpFacts
<1> HIDE DEF A, Parents
<1>3. ASSUME NEW n \in Nat, NEW u \in Topics, NEW b
      PROVE  b \in up[n + 1][u] <=>
                /\ rows[u].status # "none"
                /\ b = rows[u].parent \/ (rows[u].parent \in Topics /\ b \in up[n][rows[u].parent])
  <2>1. up[n + 1] = OneUp(rows, up[n])
    BY <1>2
  <2> DEFINE B == up[n]
  <2> HIDE DEF B
  <2>2. b \in OneUp(rows, B)[u] <=>
           /\ rows[u].status # "none"
           /\ b = rows[u].parent \/ (rows[u].parent \in Topics /\ b \in B[rows[u].parent])
    BY OneUpIs
  <2> QED BY <2>1, <2>2 DEF B
<1>4. \A n \in Nat : \A u \in Topics : up[n][u] \subseteq up[n + 1][u]
  <2> DEFINE Grown == {n \in Nat : \A u \in Topics : up[n][u] \subseteq up[n + 1][u]}
  <2>1. 0 \in Grown
    BY <1>2
  <2>2. ASSUME NEW n \in Grown PROVE n + 1 \in Grown
    <3>1. n \in Nat /\ n + 1 \in Nat
      OBVIOUS
    <3>2. ASSUME NEW u \in Topics, NEW b, b \in up[n + 1][u] PROVE b \in up[(n + 1) + 1][u]
      BY <1>3, <3>1, <3>2
    <3> QED BY <3>1, <3>2
  <2>3. Grown \in SUBSET Nat
    OBVIOUS
  <2>4. \A n \in Nat : n \in Grown
    <3> HIDE DEF Grown
    <3> QED BY <2>1, <2>2, <2>3, AllNumbers
  <2> QED BY <2>4
<1>5. PICK m \in Nat : N = m + 1
  <2>1. N - 1 \in Nat /\ N = (N - 1) + 1
    BY <1>1
  <2> QED BY <2>1
<1>6. rows[t].status # "none" => rows[t].parent \in up[N][t]
  BY <1>3, <1>5
<1>7. a \in up[N][t] =>
         /\ rows[t].status # "none"
         /\ a = rows[t].parent \/ (rows[t].parent \in Topics /\ a \in up[N][rows[t].parent])
  BY <1>3, <1>4, <1>5
<1> DEFINE found == [n \in Nat |-> {u \in Topics : u = a \/ a \in up[n][u]}]
           G == [X \in SUBSET Topics |->
                   {u \in Topics : u = a \/ (rows[u].status # "none" /\ rows[u].parent \in X)}]
<1>8. found \in [Nat -> SUBSET Topics] /\ found[0] # {}
  <2>1. a \in found[0]
    OBVIOUS
  <2> QED BY <2>1
<1>9. ASSUME NEW n \in Nat PROVE found[n] \subseteq found[n + 1] /\ found[n + 1] = G[found[n]]
  <2>1. found[n] \subseteq found[n + 1]
    BY <1>4
  <2>2. found[n] \in SUBSET Topics /\ n + 1 \in Nat
    OBVIOUS
  <2>3. \A u : u \in found[n] <=> u \in Topics /\ (u = a \/ a \in up[n][u])
    OBVIOUS
  <2>4. \A u : u \in found[n + 1] <=> u \in Topics /\ (u = a \/ a \in up[n + 1][u])
    BY <2>2
  <2>5. \A u : u \in G[found[n]] <=>
           u \in Topics /\ (u = a \/ (rows[u].status # "none" /\ rows[u].parent \in found[n]))
    <3> HIDE DEF found
    <3> QED BY <2>2
  <2> HIDE DEF found, G
  <2>6. \A u \in Topics : a \in up[n + 1][u] <=>
           rows[u].status # "none" /\ rows[u].parent \in found[n]
    BY <1>3, <2>3
  <2> QED BY <2>1, <2>4, <2>5, <2>6
<1>10. G[found[N]] = found[N]
  <2> HIDE DEF found, G
  <2> QED BY <1>1, <1>8, <1>9, GrowsToRest
<1>11. (a # t /\ rows[t].status # "none" /\ rows[t].parent \in Topics
          /\ a \in up[N][rows[t].parent]) => a \in up[N][t]
  <2> SUFFICES ASSUME a # t, rows[t].status # "none", rows[t].parent \in Topics,
                      a \in up[N][rows[t].parent]
               PROVE  a \in up[N][t]
    OBVIOUS
  <2>1. rows[t].parent \in found[N] /\ found[N] \in SUBSET Topics
    BY <1>1
  <2>2. t \in G[found[N]]
    <3> HIDE DEF found
    <3> QED BY <2>1
  <2>3. t \in found[N]
    BY <1>10, <2>2
  <2> QED BY <1>1, <2>3
<1> QED BY <1>2, <1>6, <1>7, <1>11 DEF A

Forest(rows) ==
    \A S \in SUBSET Topics : S # {} =>
       \E t \in S : rows[t].status = "none" \/ rows[t].parent \notin S

\* The parent p is not below t: there are topics with p among them that hold
\* what is above each of them, but not t.
Clear(rows, t, p) ==
    \/ p = NoTopic
    \/ \E S \in SUBSET Topics :
          /\ p \in S /\ t \notin S
          /\ \A u \in S : rows[u].status # "none" /\ rows[u].parent \in Topics =>
                             rows[u].parent \in S

MapRow(r) == DOMAIN r = {"status", "parent", "depth"}
RowsFine(rows) ==
    /\ DOMAIN rows = Topics /\ \A t \in Topics : MapRow(rows[t])
    /\ rows[Unsorted].parent = NoTopic /\ rows[Unsorted].status \in {"none", "accepted"}
PlacesTyped ==
    /\ placed \subseteq Topics \X MapCards \X {"accepted", "suggested"}
    /\ cards \subseteq MapCards
OnePlace == \A m, n \in placed :
               m[2] = n[2] /\ m[3] = "accepted" /\ n[3] = "accepted" => m = n
PlacesThere == \A m \in placed : topic[m[1]].status # "none"

\* What a request that will write a row, or rehome a topic, has found in the
\* rows it listed: the parent is the one of the topic, or not below it.
WellRead(r) ==
    /\ r.t \in Topics \ {Unsorted} /\ RowsFine(r.seen) /\ r.seen[r.t].status # "none"
    /\ r.row.parent = r.seen[r.t].parent \/ Clear(r.seen, r.t, r.row.parent)

PlannerFine(r) ==
    /\ DOMAIN r = {"at", "kind", "t", "to", "row", "seen", "left"}
    /\ r.at \in {"insert", "place", "clear", "file"} => r.left \subseteq MapCards
    /\ r.at = "insert" => /\ MapRow(r.row) /\ r.row.status = "accepted"
                          /\ r.kind \notin {"accept", "merge"}
    /\ r.at = "row" \/ (r.at = "place" /\ r.kind = "accept") =>
          WellRead(r) /\ MapRow(r.row) /\ r.row.status # "none"
    /\ r.at = "rehome" \/ (r.at = "place" /\ r.kind = "merge") =>
          WellRead(r) /\ r.to \in Topics \ {r.t} /\ r.seen[r.to].status # "none"
    /\ r.at = "row" => r.left = {}
    /\ r.at \in {"list", "renumber"} =>
          RowsFine(r.seen) /\ \A u \in r.left : u \in Topics /\ r.seen[u].status # "none"
    /\ r.at = "place" => r.to \in Topics
    /\ r.at \in {"clear", "file"} => r.to \in Topics \cup {NoTopic}
    /\ r.at = "drop" => r.t \in Topics \ {Unsorted}
PlannersFine == DOMAIN planner = Planners /\ \A w \in Planners : PlannerFine(planner[w])

TopicInv == /\ RowsFine(topic) /\ PlacesTyped /\ OnePlace /\ PlannersFine
            /\ ~crossed => Forest(topic) /\ PlacesThere

\* In a forest no topic is above itself: what is below one would go on for ever.
LEMMA NoneAboveItself ==
    ASSUME Forest(topic), NEW t \in Topics, There(t) PROVE t \notin Ancestors(t)
<1> SUFFICES ASSUME t \in Ancestors(t) PROVE FALSE
  OBVIOUS
<1> DEFINE A == AncestorsIn(topic)
           S == {u \in Topics : topic[u].status # "none" /\ t \in A[u]}
<1>1. t \in S
  BY DEF Ancestors, There
<1>2. ASSUME NEW u \in S PROVE topic[u].status # "none" /\ topic[u].parent \in S
  <2>1. u \in Topics /\ t \in A[u] /\ topic[u].status # "none"
    OBVIOUS
  <2>2. t = topic[u].parent \/ (topic[u].parent \in Topics /\ t \in A[topic[u].parent])
    BY <2>1, AncestorFacts
  <2>3. CASE t = topic[u].parent
    BY <1>1, <2>1, <2>3
  <2>4. CASE topic[u].parent \in Topics /\ t \in A[topic[u].parent]
    <3>1. topic[topic[u].parent].status # "none"
      BY <2>4, AncestorFacts
    <3> QED BY <2>1, <2>4, <3>1
  <2> QED BY <2>2, <2>3, <2>4
<1> HIDE DEF S
<1>3. S \in SUBSET Topics
  BY DEF S
<1> QED BY <1>1, <1>2, <1>3 DEF Forest

LEMMA TopicIsSound == ASSUME TopicInv PROVE TopicsSound
<1>1. ~crossed => \A t \in Topics : There(t) => t \notin Ancestors(t)
  BY NoneAboveItself DEF TopicInv
<1>2. ASSUME NEW k \in MapCards PROVE Cardinality(Placement(k)) <= 1
  <2>1. \A m, n \in Placement(k) : m = n
    BY DEF Placement, TopicInv, OnePlace
  <2>2. CASE Placement(k) = {}
    BY <2>2, FS_EmptySet
  <2>3. CASE Placement(k) # {}
    <3>1. PICK m : Placement(k) = {m}
      BY <2>1, <2>3
    <3>2. Cardinality({m}) = 1
      BY FS_Singleton
    <3> QED BY <3>1, <3>2
  <2> QED BY <2>2, <2>3
<1>3. ~crossed => \A m \in placed : There(m[1])
  BY DEF TopicInv, PlacesTyped, PlacesThere, There
<1> QED BY <1>1, <1>2, <1>3 DEF TopicsSound

LEMMA BlankIs ==
    /\ Missing.status = "none" /\ Missing.parent = NoTopic /\ MapRow(Missing)
    /\ RowsFine(Blank) /\ \A t \in Topics : Blank[t] = Missing
<1>1. Missing.status = "none" /\ Missing.parent = NoTopic /\ MapRow(Missing)
  BY DEF Missing, MapRow
<1>2. DOMAIN Blank = Topics /\ \A t \in Topics : Blank[t] = Missing
  BY DEF Blank
<1> QED BY <1>1, <1>2, TopicAssumption DEF RowsFine

LEMMA QuietIs == PlannerFine(Quiet) /\ Advance(Quiet) = Quiet
<1> DEFINE q == [at |-> "idle", kind |-> "none", t |-> NoTopic, to |-> NoTopic,
                 row |-> Missing, seen |-> Blank, left |-> {}]
<1>1. q.at = "idle" /\ DOMAIN q = {"at", "kind", "t", "to", "row", "seen", "left"}
  OBVIOUS
<1>2. q = Quiet
  BY DEF Quiet
<1> HIDE DEF q
<1>3. PlannerFine(q)
  BY <1>1 DEF PlannerFine
<1> QED BY <1>1, <1>2, <1>3 DEF Advance

LEMMA TopicStart == TopicInit => TopicInv
<1> SUFFICES ASSUME TopicInit PROVE TopicInv
  OBVIOUS
<1>1. /\ topic = Blank /\ placed = {} /\ cards = MapCards
      /\ planner = [w \in Planners |-> Quiet]
  BY DEF TopicInit
<1>2. Forest(topic)
  BY <1>1, BlankIs DEF Forest
<1>3. PlannersFine
  BY <1>1, QuietIs DEF PlannersFine
<1>4. PlacesTyped /\ OnePlace /\ PlacesThere
  BY <1>1 DEF PlacesTyped, OnePlace, PlacesThere
<1> QED BY <1>1, <1>2, <1>3, <1>4, BlankIs DEF TopicInv

\* What is not below t goes on upwards without meeting it.
LEMMA ClearOf ==
    ASSUME NEW rows, NEW t \in Topics, NEW p, p = NoTopic \/ p \in Topics,
           p \in Topics => p # t /\ t \notin AncestorsIn(rows)[p]
    PROVE  Clear(rows, t, p)
<1> DEFINE A == AncestorsIn(rows)
           S == {u \in Topics : u # t /\ t \notin A[u]}
<1>1. p \in S \/ p = NoTopic
  OBVIOUS
<1>2. S \in SUBSET Topics /\ t \notin S
  OBVIOUS
<1>3. ASSUME NEW u \in S, rows[u].status # "none", rows[u].parent \in Topics
      PROVE  rows[u].parent \in S
  <2>1. u \in Topics /\ u # t /\ t \notin A[u]
    OBVIOUS
  <2>2. rows[u].parent \in A[u]
    BY <1>3, <2>1, AncestorFacts
  <2>3. t \notin A[rows[u].parent]
    BY <1>3, <2>1, AncestorFacts
  <2> QED BY <1>3, <2>1, <2>2, <2>3
<1> HIDE DEF S
<1> QED BY <1>1, <1>2, <1>3 DEF Clear

LEMMA NotUnderClear ==
    ASSUME NEW t \in Topics, NEW p \in Topics, NotUnder(p, t)
    PROVE  p # t /\ Clear(topic, t, p)
<1>1. p # t /\ t \notin AncestorsIn(topic)[p]
  BY DEF NotUnder, Ancestors
<1> QED BY <1>1, ClearOf

\* Rows of the same shape.
LEMMA Alike ==
    ASSUME NEW rows, Shape(rows) = Shape(topic)
    PROVE  /\ \A u \in Topics : /\ rows[u].status = topic[u].status
                                /\ rows[u].parent = topic[u].parent
           /\ \A t, p : Clear(rows, t, p) => Clear(topic, t, p)
<1>1. ASSUME NEW u \in Topics
      PROVE  rows[u].status = topic[u].status /\ rows[u].parent = topic[u].parent
  <2>1. Shape(rows)[u] = <<rows[u].status, rows[u].parent>>
        /\ Shape(topic)[u] = <<topic[u].status, topic[u].parent>>
    BY DEF Shape
  <2>2. <<rows[u].status, rows[u].parent>> = <<topic[u].status, topic[u].parent>>
    BY <2>1
  <2> QED BY <2>2
<1> QED BY <1>1 DEF Clear

\* A topic that is there keeps its parent, or has none.
LEMMA ForestKept ==
    ASSUME Forest(topic),
           \A u \in Topics : topic'[u].status # "none" =>
              \/ topic'[u].parent = NoTopic
              \/ topic[u].status # "none" /\ topic'[u].parent = topic[u].parent
    PROVE  Forest(topic')
<1> SUFFICES ASSUME NEW S \in SUBSET Topics, S # {},
                    \A u \in S : topic'[u].status # "none" /\ topic'[u].parent \in S
             PROVE  FALSE
  BY DEF Forest
<1>1. NoTopic \notin S
  BY TopicAssumption
<1>2. \A u \in S : topic[u].status # "none" /\ topic[u].parent \in S
  BY <1>1
<1> QED BY <1>2 DEF Forest

\* A new topic, that nothing has as its parent.
LEMMA ForestGrows ==
    ASSUME Forest(topic), NEW t \in Topics, NEW p,
           \A u \in Topics : topic[u].parent # t, p # t,
           topic'[t].parent = p,
           \A u \in Topics \ {t} : topic'[u] = topic[u]
    PROVE  Forest(topic')
<1> SUFFICES ASSUME NEW S \in SUBSET Topics, S # {},
                    \A u \in S : topic'[u].status # "none" /\ topic'[u].parent \in S
             PROVE  FALSE
  BY DEF Forest
<1> DEFINE R == S \ {t}
<1>1. R # {}
  <2>1. CASE t \in S
    <3>1. p \in R
      BY <2>1
    <3> QED BY <3>1
  <2>2. CASE t \notin S
    BY <2>2
  <2> QED BY <2>1, <2>2
<1>2. \A u \in R : topic[u].status # "none" /\ topic[u].parent \in R
  OBVIOUS
<1>3. R \in SUBSET Topics
  OBVIOUS
<1> HIDE DEF R
<1> QED BY <1>1, <1>2, <1>3 DEF Forest

\* Topics that all have their parent among them, t apart, do not hold one
\* that is clear of t.
LEMMA ApartFrom ==
    ASSUME Forest(topic), NEW t \in Topics, NEW S \in SUBSET Topics, NEW p \in S,
           Clear(topic, t, p),
           \A u \in S : u # t /\ topic[u].parent # t =>
              topic[u].status # "none" /\ topic[u].parent \in S,
           \A u \in S : u # t => topic[u].status # "none"
    PROVE  FALSE
<1>1. p # NoTopic
  BY TopicAssumption
<1>2. PICK R \in SUBSET Topics :
         /\ p \in R /\ t \notin R
         /\ \A u \in R : topic[u].status # "none" /\ topic[u].parent \in Topics =>
                            topic[u].parent \in R
  BY <1>1 DEF Clear
<1> DEFINE Both == S \cap R
<1>3. ASSUME NEW u \in Both PROVE topic[u].status # "none" /\ topic[u].parent \in Both
  <2>1. u \in S /\ u \in R /\ u # t
    BY <1>2
  <2>2. topic[u].status # "none"
    BY <2>1
  <2>3. topic[u].parent # t
    BY <1>2, <2>1, <2>2
  <2>4. topic[u].parent \in S
    BY <2>1, <2>3
  <2> QED BY <1>2, <2>1, <2>2, <2>4
<1>4. Both \in SUBSET Topics /\ Both # {}
  BY <1>2
<1> HIDE DEF Both
<1> QED BY <1>3, <1>4 DEF Forest

LEMMA ForestMoved ==
    ASSUME Forest(topic), NEW t \in Topics, NEW p, Clear(topic, t, p),
           topic'[t].parent = p,
           \A u \in Topics \ {t} : /\ topic'[u].parent = topic[u].parent
                                   /\ topic'[u].status = topic[u].status
    PROVE  Forest(topic')
<1> SUFFICES ASSUME NEW S \in SUBSET Topics, S # {},
                    \A u \in S : topic'[u].status # "none" /\ topic'[u].parent \in S
             PROVE  FALSE
  BY DEF Forest
<1>1. CASE t \in S
  <2>1. p \in S
    BY <1>1
  <2>2. \A u \in S : u # t => topic[u].status # "none" /\ topic[u].parent \in S
    OBVIOUS
  <2> QED BY <2>1, <2>2, ApartFrom
<1>2. CASE t \notin S
  <2>1. \A u \in S : topic[u].status # "none" /\ topic[u].parent \in S
    BY <1>2
  <2> QED BY <2>1 DEF Forest
<1> QED BY <1>1, <1>2

\* A topic goes, and its children are hung on its parent, or on one that is
\* not below it.
LEMMA ForestRehomed ==
    ASSUME Forest(topic), NEW t \in Topics, NEW p,
           \/ topic[t].status # "none" /\ p = topic[t].parent
           \/ Clear(topic, t, p),
           topic'[t].status = "none",
           \A u \in Topics \ {t} :
              /\ topic'[u].parent = IF topic[u].parent = t THEN p ELSE topic[u].parent
              /\ topic'[u].status = topic[u].status
    PROVE  Forest(topic')
<1> SUFFICES ASSUME NEW S \in SUBSET Topics, S # {},
                    \A u \in S : topic'[u].status # "none" /\ topic'[u].parent \in S
             PROVE  FALSE
  BY DEF Forest
<1>0. t \notin S
  OBVIOUS
<1>1. CASE \A u \in S : topic[u].parent # t
  <2>1. \A u \in S : topic[u].status # "none" /\ topic[u].parent \in S
    BY <1>0, <1>1
  <2> QED BY <2>1 DEF Forest
<1>2. CASE \E u \in S : topic[u].parent = t
  <2>0. p \in S
    BY <1>0, <1>2
  <2>1. CASE topic[t].status # "none" /\ p = topic[t].parent
    <3> DEFINE R == S \cup {t}
    <3>1. \A u \in R : topic[u].status # "none" /\ topic[u].parent \in R
      BY <1>0, <2>0, <2>1
    <3>2. R \in SUBSET Topics /\ R # {}
      OBVIOUS
    <3> HIDE DEF R
    <3> QED BY <3>1, <3>2 DEF Forest
  <2>2. CASE Clear(topic, t, p)
    <3>1. \A u \in S : topic[u].status # "none"
      BY <1>0
    <3>2. \A u \in S : topic[u].parent # t => topic[u].parent \in S
      BY <1>0
    <3> QED BY <2>0, <2>2, <3>1, <3>2, ApartFrom
  <2> QED BY <2>1, <2>2
<1> QED BY <1>1, <1>2

----------------------------------------------------------------------------

\* The card k gets the topic t, and every other card keeps its own.
LEMMA PlacedFacts ==
    ASSUME PlacesTyped, OnePlace, NEW t \in Topics, NEW k \in MapCards,
           placed' = PlacedIn(t, k, placed), cards' = cards
    PROVE  /\ PlacesTyped' /\ OnePlace'
           /\ \A m \in placed' : m \in placed \/ m[1] = t
           /\ \A m \in placed : m[3] = "accepted" =>
                 \E n \in placed' : n[2] = m[2] /\ n[3] = "accepted"
<1> DEFINE kept == {m \in placed : m[2] # k \/ (m[3] # "accepted" /\ m[1] # t)}
           new == <<t, k, "accepted">>
<1>1. placed' = kept \cup {new}
  BY DEF PlacedIn
<1>2. /\ new \in Topics \X MapCards \X {"accepted", "suggested"}
      /\ new[1] = t /\ new[2] = k /\ new[3] = "accepted"
  OBVIOUS
<1>3. \A m \in kept : m \in placed /\ (m[2] # k \/ m[3] # "accepted")
  OBVIOUS
<1>4. \A m \in placed : m[2] # k => m \in kept
  OBVIOUS
<1> HIDE DEF kept, new
<1>5. PlacesTyped'
  BY <1>1, <1>2, <1>3 DEF PlacesTyped
<1>6. OnePlace'
  BY <1>1, <1>2, <1>3 DEF OnePlace
<1>7. \A m \in placed' : m \in placed \/ m[1] = t
  BY <1>1, <1>2, <1>3
<1>8. ASSUME NEW m \in placed, m[3] = "accepted"
      PROVE  \E n \in placed' : n[2] = m[2] /\ n[3] = "accepted"
  BY <1>1, <1>2, <1>4, <1>8
<1> QED BY <1>5, <1>6, <1>7, <1>8

\* Some of the rows.
LEMMA PlacesDropped ==
    ASSUME PlacesTyped, OnePlace, placed' \subseteq placed, cards' \subseteq MapCards
    PROVE  PlacesTyped' /\ OnePlace'
BY DEF PlacesTyped, OnePlace

\* The rows of t are those of fallback, where it had none.
LEMMA PlacesRehomed ==
    ASSUME PlacesTyped, OnePlace, NEW t \in Topics, NEW fallback \in Topics, cards' = cards,
           placed' = {IF m[1] = t THEN <<fallback, m[2], m[3]>> ELSE m : m \in placed}
    PROVE  /\ PlacesTyped' /\ OnePlace'
           /\ \A m \in placed' : m[1] = fallback \/ (m \in placed /\ m[1] # t)
           /\ \A m \in placed : m[3] = "accepted" =>
                 \E n \in placed' : n[2] = m[2] /\ n[3] = "accepted"
<1> DEFINE Rehung(m) == IF m[1] = t THEN <<fallback, m[2], m[3]>> ELSE m
<1>1. \A m \in placed : m \in Topics \X MapCards \X {"accepted", "suggested"}
  BY DEF PlacesTyped
<1>2. ASSUME NEW m \in placed
      PROVE  /\ Rehung(m) \in Topics \X MapCards \X {"accepted", "suggested"}
             /\ Rehung(m)[2] = m[2] /\ Rehung(m)[3] = m[3]
             /\ Rehung(m)[1] = fallback \/ (Rehung(m) = m /\ m[1] # t)
  BY <1>1
<1>3. \A n \in placed' : \E m \in placed : n = Rehung(m)
  OBVIOUS
<1>4. \A m \in placed : Rehung(m) \in placed'
  OBVIOUS
<1> HIDE DEF Rehung
<1>5. PlacesTyped'
  BY <1>2, <1>3 DEF PlacesTyped
<1>6. OnePlace'
  BY <1>2, <1>3 DEF OnePlace
<1>7. \A m \in placed' : m[1] = fallback \/ (m \in placed /\ m[1] # t)
  BY <1>2, <1>3
<1>8. \A m \in placed : m[3] = "accepted" =>
         \E n \in placed' : n[2] = m[2] /\ n[3] = "accepted"
  BY <1>2, <1>4
<1> QED BY <1>5, <1>6, <1>7, <1>8

----------------------------------------------------------------------------

\* The request of w goes on as something fine, and the others stand.
LEMMA PlannerGoesOn ==
    ASSUME PlannersFine, NEW w \in Planners, NEW r, PlannerFine(r),
           planner' = [planner EXCEPT ![w] = Advance(r)]
    PROVE  PlannersFine'
<1> DEFINE fields == {"at", "kind", "t", "to", "row", "seen", "left"}
<1>1. ASSUME NEW place \in {"row", "rehome"}
      PROVE  LET q == [r EXCEPT !.at = place] IN
             /\ DOMAIN q = fields /\ q.at = place /\ q.kind = r.kind /\ q.t = r.t /\ q.to = r.to
             /\ q.row = r.row /\ q.seen = r.seen /\ q.left = r.left
  BY DEF PlannerFine
<1>2. r.at = "place" /\ r.kind = "accept" /\ r.left = {} => PlannerFine([r EXCEPT !.at = "row"])
  <2> DEFINE q == [r EXCEPT !.at = "row"]
  <2>1. /\ DOMAIN q = fields /\ q.at = "row" /\ q.kind = r.kind /\ q.t = r.t
        /\ q.row = r.row /\ q.seen = r.seen /\ q.left = r.left
    BY <1>1
  <2> HIDE DEF q
  <2>2. r.at = "place" /\ r.kind = "accept" /\ r.left = {} => PlannerFine(q)
    BY <2>1 DEF PlannerFine, WellRead
  <2> QED BY <2>2 DEF q
<1>3. r.at = "place" /\ r.kind = "merge" => PlannerFine([r EXCEPT !.at = "rehome"])
  <2> DEFINE q == [r EXCEPT !.at = "rehome"]
  <2>1. /\ DOMAIN q = fields /\ q.at = "rehome" /\ q.kind = r.kind /\ q.t = r.t /\ q.to = r.to
        /\ q.row = r.row /\ q.seen = r.seen
    BY <1>1
  <2> HIDE DEF q
  <2>2. r.at = "place" /\ r.kind = "merge" => PlannerFine(q)
    BY <2>1 DEF PlannerFine, WellRead
  <2> QED BY <2>2 DEF q
<1>4. PlannerFine(Advance(r))
  <2>1. CASE r.left # {} \/ r.at \notin {"place", "renumber", "file"}
    BY <2>1 DEF Advance
  <2>2. CASE r.left = {} /\ r.at \in {"place", "renumber", "file"}
    <3>1. \/ Advance(r) = Quiet
          \/ r.at = "place" /\ r.kind = "accept" /\ Advance(r) = [r EXCEPT !.at = "row"]
          \/ r.at = "place" /\ r.kind = "merge" /\ Advance(r) = [r EXCEPT !.at = "rehome"]
      BY <2>2 DEF Advance
    <3> QED BY <1>2, <1>3, <2>2, <3>1, QuietIs
  <2> QED BY <2>1, <2>2
<1>5. PICK q : q = Advance(r)
  OBVIOUS
<1> QED BY <1>4, <1>5 DEF PlannersFine

\* A request that has read.
LEMMA TopicReads ==
    ASSUME TopicInv, UNCHANGED <<topic, placed, cards, crossed>>, PlannersFine'
    PROVE  TopicInv' /\ CardsStayPlaced
<1>1. PlacesTyped' /\ OnePlace' /\ RowsFine(topic)'
  BY DEF TopicInv, PlacesTyped, OnePlace
<1>2. ~crossed' => Forest(topic') /\ PlacesThere'
  BY DEF TopicInv, PlacesThere
<1>3. CardsStayPlaced
  BY DEF CardsStayPlaced, Placement
<1> QED BY <1>1, <1>2, <1>3 DEF TopicInv

LEMMA Plans ==
    ASSUME TopicInv, NEW w \in Planners, NEW r, PlannerFine(r), BeginPlan(w, r)
    PROVE  TopicInv' /\ CardsStayPlaced
<1>1. PlannersFine'
  BY PlannerGoesOn DEF BeginPlan, TopicInv
<1> QED BY <1>1, TopicReads DEF BeginPlan

LEMMA UnderIs ==
    ASSUME NEW t \in Topics, RowsFine(topic), NEW p
    PROVE  MapRow(Under(t, p)) /\ Under(t, p).parent = p /\ Under(t, p).status = topic[t].status
<1> DEFINE d == IF p = NoTopic THEN 0 ELSE topic[p].depth + 1
           q == [topic[t] EXCEPT !.parent = p]
<1>1. MapRow(topic[t])
  BY DEF RowsFine
<1>2. MapRow(q) /\ q.parent = p /\ q.status = topic[t].status
  BY <1>1 DEF MapRow
<1>3. Under(t, p) = [q EXCEPT !.depth = d]
  BY DEF Under
<1> HIDE DEF q, d
<1> QED BY <1>2, <1>3 DEF MapRow

LEMMA NewTopicIs ==
    ASSUME NEW p
    PROVE  MapRow(NewTopic(p)) /\ NewTopic(p).parent = p /\ NewTopic(p).status = "accepted"
<1> DEFINE d == IF p = NoTopic THEN 0 ELSE topic[p].depth + 1
<1>1. NewTopic(p) = [status |-> "accepted", parent |-> p, depth |-> d]
  BY DEF NewTopic
<1> HIDE DEF d
<1> QED BY <1>1 DEF MapRow

\* A row of a topic that is there, with another status.
LEMMA StatusSet ==
    ASSUME NEW t \in Topics, RowsFine(topic), NEW s
    PROVE  LET held == [topic[t] EXCEPT !.status = s] IN
           MapRow(held) /\ held.parent = topic[t].parent /\ held.status = s
BY DEF RowsFine, MapRow

LEMMA InsertPlanned ==
    ASSUME NEW kind, kind \notin {"accept", "merge"}, NEW p, NEW left \in SUBSET MapCards
    PROVE  PlannerFine([Quiet EXCEPT !.at = "insert", !.kind = kind, !.row = NewTopic(p),
                                     !.left = left])
<1> DEFINE q == [Quiet EXCEPT !.at = "insert", !.kind = kind, !.row = NewTopic(p), !.left = left]
<1>2. /\ DOMAIN q = {"at", "kind", "t", "to", "row", "seen", "left"}
      /\ q.at = "insert" /\ q.kind = kind /\ q.row = NewTopic(p) /\ q.left = left
  BY DEF Quiet
<1> HIDE DEF q
<1>3. PlannerFine(q)
  BY <1>2, NewTopicIs DEF PlannerFine
<1> QED BY <1>3 DEF q

\* A row to be written, with the parent that the topic has or one not below it.
LEMMA RowPlanned ==
    ASSUME TopicInv, NEW t \in Topics \ {Unsorted}, There(t), NEW held, MapRow(held),
           held.status # "none",
           held.parent = topic[t].parent \/ Clear(topic, t, held.parent)
    PROVE  PlannerFine([Quiet EXCEPT !.at = "row", !.kind = "update", !.t = t,
                                     !.row = held, !.seen = topic])
<1> DEFINE q == [Quiet EXCEPT !.at = "row", !.kind = "update", !.t = t, !.row = held, !.seen = topic]
<1>2. /\ DOMAIN q = {"at", "kind", "t", "to", "row", "seen", "left"}
      /\ q.at = "row" /\ q.kind = "update" /\ q.t = t /\ q.row = held /\ q.seen = topic
      /\ q.left = {}
  BY DEF Quiet
<1> HIDE DEF q
<1>3. WellRead(q)
  BY <1>2 DEF WellRead, TopicInv, There
<1>4. PlannerFine(q)
  BY <1>2, <1>3 DEF PlannerFine
<1> QED BY <1>4 DEF q

\* Cards to be placed in a topic, as a request of its own.
LEMMA PlacesPlanned ==
    ASSUME NEW t \in Topics, NEW left \in SUBSET MapCards
    PROVE  PlannerFine([Quiet EXCEPT !.at = "place", !.kind = "place", !.to = t, !.left = left])
<1> DEFINE q == [Quiet EXCEPT !.at = "place", !.kind = "place", !.to = t, !.left = left]
<1>2. /\ DOMAIN q = {"at", "kind", "t", "to", "row", "seen", "left"}
      /\ q.at = "place" /\ q.kind = "place" /\ q.to = t /\ q.left = left
  BY DEF Quiet
<1> HIDE DEF q
<1>3. PlannerFine(q)
  BY <1>2 DEF PlannerFine
<1> QED BY <1>3 DEF q

LEMMA CardsThere ==
    ASSUME TopicInv, NEW t
    PROVE  /\ {m[2] : m \in {n \in placed : n[1] = t}} \subseteq MapCards
           /\ \A s : Members(t, s) \subseteq MapCards
BY DEF TopicInv, PlacesTyped, Members

LEMMA MovePlans ==
    ASSUME TopicInv, NEW w \in Planners, NEW t \in Topics, NEW p \in Topics \cup {NoTopic},
           MoveTopic(w, t, p)
    PROVE  TopicInv' /\ CardsStayPlaced
<1>0. RowsFine(topic)
  BY DEF TopicInv
<1>1. t # Unsorted /\ There(t) /\ (p = NoTopic \/ (p \in Topics /\ NotUnder(p, t)))
  BY DEF MoveTopic, There
<1>2. Clear(topic, t, p)
  BY <1>1, NotUnderClear DEF Clear
<1>3. MapRow(Under(t, p)) /\ Under(t, p).parent = p /\ Under(t, p).status # "none"
  BY <1>0, <1>1, UnderIs DEF There
<1>4. PlannerFine([Quiet EXCEPT !.at = "row", !.kind = "update", !.t = t,
                                !.row = Under(t, p), !.seen = topic])
  BY <1>1, <1>2, <1>3, RowPlanned
<1> QED BY <1>4, Plans DEF MoveTopic

LEMMA StatusPlans ==
    ASSUME TopicInv, NEW w \in Planners, NEW t \in Topics,
           NEW s \in {"accepted", "suggested", "hidden"},
           SetStatus(w, t, s)
    PROVE  TopicInv' /\ CardsStayPlaced
<1>0. RowsFine(topic)
  BY DEF TopicInv
<1> DEFINE held == [topic[t] EXCEPT !.status = s]
<1>1. t # Unsorted /\ There(t)
  BY DEF SetStatus
<1>2. MapRow(held) /\ held.parent = topic[t].parent /\ held.status # "none"
  BY <1>0, StatusSet
<1> HIDE DEF held
<1>3. PlannerFine([Quiet EXCEPT !.at = "row", !.kind = "update", !.t = t,
                                !.row = held, !.seen = topic])
  BY <1>1, <1>2, RowPlanned
<1>4. BeginPlan(w, [Quiet EXCEPT !.at = "row", !.kind = "update", !.t = t,
                                 !.row = held, !.seen = topic])
  BY DEF SetStatus, held
<1> QED BY <1>3, <1>4, Plans

LEMMA DropPlans ==
    ASSUME TopicInv, NEW w \in Planners, NEW t \in Topics,
           DeleteSuggested(w, t) \/ DeleteTopic(w, t)
    PROVE  TopicInv' /\ CardsStayPlaced
<1>1. ASSUME DeleteSuggested(w, t) PROVE TopicInv' /\ CardsStayPlaced
  <2> DEFINE q == [Quiet EXCEPT !.at = "drop", !.kind = "drop", !.t = t]
  <2>1. BeginPlan(w, q)
    BY <1>1 DEF DeleteSuggested
  <2>2. q.at = "drop" /\ q.t = t /\ DOMAIN q = {"at", "kind", "t", "to", "row", "seen", "left"}
    BY DEF Quiet
  <2>3. t # Unsorted
    BY <1>1 DEF DeleteSuggested, TopicInv, RowsFine
  <2> HIDE DEF q
  <2>4. PlannerFine(q)
    BY <2>2, <2>3 DEF PlannerFine
  <2> QED BY <2>1, <2>4, Plans
<1>2. ASSUME DeleteTopic(w, t) PROVE TopicInv' /\ CardsStayPlaced
  <2> DEFINE q == [Quiet EXCEPT !.at = "rehome", !.kind = "delete", !.t = t,
                                !.to = Unsorted, !.row = topic[t], !.seen = topic]
  <2>1. BeginPlan(w, q)
    BY <1>2 DEF DeleteTopic
  <2>2. /\ DOMAIN q = {"at", "kind", "t", "to", "row", "seen", "left"}
        /\ q.at = "rehome" /\ q.kind = "delete" /\ q.t = t /\ q.to = Unsorted
        /\ q.row = topic[t] /\ q.seen = topic
    BY DEF Quiet
  <2>3. t # Unsorted /\ There(t) /\ There(Unsorted)
    BY <1>2 DEF DeleteTopic
  <2> HIDE DEF q
  <2>4. WellRead(q)
    BY <2>2, <2>3 DEF WellRead, TopicInv, There
  <2>5. PlannerFine(q)
    BY <2>2, <2>3, <2>4 DEF PlannerFine, There
  <2> QED BY <2>1, <2>5, Plans
<1> QED BY <1>1, <1>2

LEMMA JoinPlans ==
    ASSUME TopicInv, NEW w \in Planners, NEW t \in Topics, NEW u \in Topics,
           AcceptTopic(w, t) \/ MergeTopics(w, t, u)
    PROVE  TopicInv' /\ CardsStayPlaced
<1>0. RowsFine(topic)
  BY DEF TopicInv
<1>1. ASSUME AcceptTopic(w, t) PROVE TopicInv' /\ CardsStayPlaced
  <2> DEFINE held == [topic[t] EXCEPT !.status = "accepted"]
             left == {m[2] : m \in {n \in placed : n[1] = t}}
             q == [Quiet EXCEPT !.at = "place", !.kind = "accept", !.t = t, !.to = t, !.row = held,
                               !.seen = topic, !.left = left]
  <2>1. BeginPlan(w, q)
    BY <1>1 DEF AcceptTopic
  <2>2. /\ DOMAIN q = {"at", "kind", "t", "to", "row", "seen", "left"}
        /\ q.at = "place" /\ q.kind = "accept" /\ q.t = t /\ q.to = t
        /\ q.row = held /\ q.seen = topic /\ q.left = left
    BY DEF Quiet
  <2>3. t # Unsorted /\ There(t)
    BY <1>1 DEF AcceptTopic, TopicInv, RowsFine
  <2>4. MapRow(held) /\ held.parent = topic[t].parent /\ held.status = "accepted"
    BY <1>0, StatusSet
  <2>5. left \subseteq MapCards
    BY CardsThere
  <2> HIDE DEF q, held, left
  <2>6. WellRead(q)
    BY <2>2, <2>3, <2>4 DEF WellRead, TopicInv, There
  <2>7. PlannerFine(q)
    BY <2>2, <2>4, <2>5, <2>6 DEF PlannerFine
  <2> QED BY <2>1, <2>7, Plans
<1>2. ASSUME MergeTopics(w, t, u) PROVE TopicInv' /\ CardsStayPlaced
  <2> DEFINE left == Members(u, "accepted")
             q == [Quiet EXCEPT !.at = "place", !.kind = "merge", !.t = u, !.to = t,
                               !.row = NewTopic(t), !.seen = topic, !.left = left]
  <2>1. BeginPlan(w, q)
    BY <1>2 DEF MergeTopics
  <2>2. /\ DOMAIN q = {"at", "kind", "t", "to", "row", "seen", "left"}
        /\ q.at = "place" /\ q.kind = "merge" /\ q.t = u /\ q.to = t
        /\ q.row = NewTopic(t) /\ q.seen = topic /\ q.left = left
    BY DEF Quiet
  <2>3. /\ u # Unsorted /\ topic[u].status # "none" /\ topic[t].status # "none" /\ t # u
        /\ Clear(topic, u, t)
    BY <1>2, NotUnderClear DEF MergeTopics, Accepted, There
  <2>4. left \subseteq MapCards
    BY CardsThere
  <2>5. NewTopic(t).parent = t
    BY NewTopicIs
  <2> HIDE DEF q, left
  <2>6. WellRead(q)
    BY <2>2, <2>3, <2>5 DEF WellRead, TopicInv
  <2>7. PlannerFine(q)
    BY <2>2, <2>3, <2>4, <2>6 DEF PlannerFine
  <2> QED BY <2>1, <2>7, Plans
<1> QED BY <1>1, <1>2

LEMMA CreatePlans ==
    ASSUME TopicInv, NEW w \in Planners, NEW p \in Topics \cup {NoTopic},
           CreateTopic(w, p)
    PROVE  TopicInv' /\ CardsStayPlaced
<1> DEFINE q == [Quiet EXCEPT !.at = "insert", !.kind = "create", !.row = NewTopic(p)]
<1>1. BeginPlan(w, q)
  BY DEF CreateTopic
<1>2. /\ DOMAIN q = {"at", "kind", "t", "to", "row", "seen", "left"}
      /\ q.at = "insert" /\ q.kind = "create" /\ q.row = NewTopic(p)
  BY DEF Quiet
<1>3. q.left = {}
  BY DEF Quiet
<1> HIDE DEF q
<1>4. PlannerFine(q)
  BY <1>2, <1>3, NewTopicIs DEF PlannerFine
<1> QED BY <1>1, <1>4, Plans

LEMMA SplitPlans ==
    ASSUME TopicInv, NEW w \in Planners, NEW t \in Topics, NEW cs \in SUBSET MapCards,
           SplitTopic(w, t, cs)
    PROVE  TopicInv' /\ CardsStayPlaced
<1>1. PICK q : BeginPlan(w, [Quiet EXCEPT !.at = "insert", !.kind = "split", !.row = NewTopic(q),
                                          !.left = cs])
  BY DEF SplitTopic
<1>2. PlannerFine([Quiet EXCEPT !.at = "insert", !.kind = "split", !.row = NewTopic(q),
                                !.left = cs])
  BY InsertPlanned
<1> QED BY <1>1, <1>2, Plans

LEMMA PrimaryPlans ==
    ASSUME TopicInv, NEW w \in Planners, NEW t \in Topics, NEW k \in MapCards,
           SetPrimary(w, k, t)
    PROVE  TopicInv' /\ CardsStayPlaced
<1>1. PlannerFine([Quiet EXCEPT !.at = "place", !.kind = "place", !.to = t, !.left = {k}])
  BY PlacesPlanned
<1> QED BY <1>1, Plans DEF SetPrimary

LEMMA MapPlans ==
    ASSUME TopicInv, NEW w \in Planners, 
           GetCourseMap(w)
    PROVE  TopicInv' /\ CardsStayPlaced
<1> DEFINE left == {c \in cards : ~\E m \in Placement(c) : There(m[1])}
<1>1. left \in SUBSET MapCards
  BY DEF TopicInv, PlacesTyped
<1>2. BeginPlan(w, [Quiet EXCEPT !.at = "place", !.kind = "place", !.to = Unsorted, !.left = left])
  BY DEF GetCourseMap
<1> HIDE DEF left
<1>3. PlannerFine([Quiet EXCEPT !.at = "place", !.kind = "place", !.to = Unsorted, !.left = left])
  BY <1>1, PlacesPlanned, TopicAssumption
<1> QED BY <1>2, <1>3, Plans

LEMMA SuggestPlans ==
    ASSUME TopicInv, NEW w \in Planners, NEW cs \in SUBSET MapCards,
           SuggestTopics(w, cs)
    PROVE  TopicInv' /\ CardsStayPlaced
<1> DEFINE q == [Quiet EXCEPT !.at = "clear", !.kind = "suggest", !.left = cs]
<1>1. BeginPlan(w, q)
  BY DEF SuggestTopics
<1>2. /\ DOMAIN q = {"at", "kind", "t", "to", "row", "seen", "left"}
      /\ q.at = "clear" /\ q.to = NoTopic /\ q.left = cs
  BY DEF Quiet
<1> HIDE DEF q
<1>3. PlannerFine(q)
  BY <1>2 DEF PlannerFine
<1> QED BY <1>1, <1>3, Plans

LEMMA RequestPlanned ==
    ASSUME TopicInv, NEW w \in Planners, BeginRequest(w)
    PROVE  TopicInv' /\ CardsStayPlaced
<1>1. ASSUME GetCourseMap(w) PROVE TopicInv' /\ CardsStayPlaced
  BY <1>1, MapPlans
<1>2. ASSUME NEW p \in Topics \cup {NoTopic}, CreateTopic(w, p)
      PROVE  TopicInv' /\ CardsStayPlaced
  BY <1>2, CreatePlans
<1>3. ASSUME NEW p \in Topics \cup {NoTopic}, NEW t \in Topics, MoveTopic(w, t, p)
      PROVE  TopicInv' /\ CardsStayPlaced
  BY <1>3, MovePlans
<1>4. ASSUME NEW t \in Topics, NEW s \in {"accepted", "suggested", "hidden"}, SetStatus(w, t, s)
      PROVE  TopicInv' /\ CardsStayPlaced
  BY <1>4, StatusPlans
<1>5. ASSUME NEW cs \in SUBSET MapCards, SuggestTopics(w, cs)
      PROVE  TopicInv' /\ CardsStayPlaced
  BY <1>5, SuggestPlans
<1>6. ASSUME NEW t \in Topics, NEW cs \in SUBSET MapCards, SplitTopic(w, t, cs)
      PROVE  TopicInv' /\ CardsStayPlaced
  BY <1>6, SplitPlans
<1>7. ASSUME NEW t \in Topics, NEW k \in MapCards, SetPrimary(w, k, t)
      PROVE  TopicInv' /\ CardsStayPlaced
  BY <1>7, PrimaryPlans
<1> QED BY <1>1, <1>2, <1>3, <1>4, <1>5, <1>6, <1>7, DropPlans, JoinPlans DEF BeginRequest

----------------------------------------------------------------------------

\* What a transaction leaves behind is sound, when it is on time.
MapSound(late) ==
    /\ RowsFine(topic)' /\ PlacesTyped' /\ OnePlace'
    /\ ~crossed /\ ~late => Forest(topic') /\ PlacesThere'
    /\ ~crossed /\ ~late =>
          \A m \in placed : m[3] = "accepted" /\ topic[m[1]].status # "suggested" =>
             \E n \in placed' : n[2] = m[2] /\ n[3] = "accepted"

LEMMA PlannerStep ==
    ASSUME TopicInv, NEW w \in Planners, NEW r, PlannerFine(r), NEW late,
           Onward(w, r, late), MapSound(late)
    PROVE  TopicInv' /\ CardsStayPlaced
<1>1. crossed' = (crossed \/ late) /\ planner' = [planner EXCEPT ![w] = Advance(r)]
  BY DEF Onward
<1>2. PlannersFine'
  BY <1>1, PlannerGoesOn DEF TopicInv
<1>3. ~crossed' => ~crossed /\ ~late
  BY <1>1
<1>4. ~crossed' => Forest(topic)' /\ PlacesThere'
  BY <1>3 DEF MapSound, Forest
<1>5. CardsStayPlaced
  BY <1>3 DEF MapSound, CardsStayPlaced, Placement
<1> QED BY <1>2, <1>4, <1>5 DEF TopicInv, MapSound

\* A change of the rows of topics alone.
LEMMA TreeWritten ==
    ASSUME TopicInv, NEW late, placed' = placed, cards' = cards, RowsFine(topic'),
           ~crossed /\ ~late => /\ Forest(topic')
                                /\ \A t \in Topics : topic[t].status # "none" =>
                                      topic'[t].status # "none"
    PROVE  MapSound(late)
<1>1. PlacesTyped' /\ OnePlace' /\ RowsFine(topic)'
  BY DEF TopicInv, PlacesTyped, OnePlace, RowsFine
<1>2. ~crossed /\ ~late => PlacesThere'
  BY DEF TopicInv, PlacesThere, PlacesTyped
<1> QED BY <1>1, <1>2 DEF MapSound

\* A row that is written.
LEMMA RowWritten ==
    ASSUME TopicInv, NEW t \in Topics, NEW held, MapRow(held),
           t = Unsorted => held.parent = NoTopic /\ held.status \in {"none", "accepted"},
           topic' = [topic EXCEPT ![t] = held]
    PROVE  /\ RowsFine(topic') /\ topic'[t] = held
           /\ \A u \in Topics \ {t} : topic'[u] = topic[u]
<1>1. RowsFine(topic)
  BY DEF TopicInv
<1>2. /\ DOMAIN topic' = Topics /\ topic'[t] = held
      /\ \A u \in Topics \ {t} : topic'[u] = topic[u]
  BY <1>1 DEF RowsFine
<1>3. Unsorted \in Topics
  BY TopicAssumption
<1> QED BY <1>1, <1>2, <1>3 DEF RowsFine

LEMMA UpdatedIs ==
    ASSUME TopicInv, NEW t \in Topics, NEW held, MapRow(held),
           t = Unsorted => held.parent = NoTopic /\ held.status \in {"none", "accepted"},
           topic' = Updated(t, held)
    PROVE  /\ RowsFine(topic')
           /\ \A u \in Topics \ {t} : topic'[u] = topic[u]
           /\ topic'[t] = held \/ topic' = topic
<1>1. CASE There(t)
  BY <1>1, RowWritten DEF Updated
<1>2. CASE ~There(t)
  BY <1>2 DEF Updated, TopicInv
<1> QED BY <1>1, <1>2

LEMMA InsertMapStep ==
    ASSUME TopicInv, NEW w \in Planners, NEW t \in Topics, InsertTopic(w, t)
    PROVE  TopicInv' /\ CardsStayPlaced
<1> DEFINE q == [planner[w] EXCEPT !.at = "place", !.to = t]
           r == IF planner[w].kind = "create" THEN Quiet ELSE q
<1>1. /\ planner[w].at = "insert" /\ Fresh(t) /\ placed' = placed
      /\ topic' = [topic EXCEPT ![t] = planner[w].row] /\ Onward(w, r, FALSE)
  BY DEF InsertTopic
<1>2. PlannerFine(planner[w])
  BY DEF TopicInv, PlannersFine
<1>3. /\ DOMAIN q = {"at", "kind", "t", "to", "row", "seen", "left"}
      /\ q.at = "place" /\ q.to = t /\ q.left = planner[w].left /\ q.kind = planner[w].kind
  BY <1>2 DEF PlannerFine
<1> HIDE DEF q
<1>4. PlannerFine(q)
  BY <1>1, <1>2, <1>3 DEF PlannerFine
<1>5. PlannerFine(r)
  BY <1>4, QuietIs
<1>6. /\ t # Unsorted /\ topic[t].status = "none" /\ planner[w].row.parent # t
      /\ \A u \in Topics : topic[u].parent # t
  BY <1>1 DEF Fresh, There
<1>7. MapRow(planner[w].row) /\ planner[w].row.status = "accepted"
  BY <1>1, <1>2 DEF PlannerFine
<1>8. /\ RowsFine(topic') /\ topic'[t] = planner[w].row
      /\ \A u \in Topics \ {t} : topic'[u] = topic[u]
  BY <1>1, <1>6, <1>7, RowWritten
<1>9. ~crossed => Forest(topic')
  BY <1>6, <1>8, ForestGrows DEF TopicInv
<1>10. \A u \in Topics : topic[u].status # "none" => topic'[u].status # "none"
  BY <1>6, <1>8
<1>11. MapSound(FALSE)
  BY <1>1, <1>8, <1>9, <1>10, TreeWritten DEF Onward
<1> HIDE DEF r
<1> QED BY <1>1, <1>5, <1>11, PlannerStep

LEMMA UnsortedStep ==
    ASSUME TopicInv, EnsureUnsorted PROVE TopicInv' /\ CardsStayPlaced
<1>1. /\ topic' = [topic EXCEPT ![Unsorted] = NewTopic(NoTopic)]
      /\ placed' = placed /\ cards' = cards /\ planner' = planner /\ crossed' = crossed
  BY DEF EnsureUnsorted
<1>2. /\ RowsFine(topic') /\ topic'[Unsorted] = NewTopic(NoTopic)
      /\ \A u \in Topics \ {Unsorted} : topic'[u] = topic[u]
  BY <1>1, RowWritten, NewTopicIs, TopicAssumption
<1>3. ~crossed => Forest(topic')
  BY <1>2, ForestKept, NewTopicIs DEF TopicInv
<1>4. \A u \in Topics : topic[u].status # "none" => topic'[u].status # "none"
  BY <1>2, NewTopicIs
<1>5. MapSound(FALSE)
  BY <1>1, <1>2, <1>3, <1>4, TreeWritten
<1>6. PlannersFine'
  BY <1>1 DEF TopicInv, PlannersFine
<1>7. CardsStayPlaced
  BY <1>1 DEF CardsStayPlaced, Placement
<1>8. ~crossed' => Forest(topic)' /\ PlacesThere'
  BY <1>1, <1>5 DEF MapSound, Forest
<1> QED BY <1>5, <1>6, <1>7, <1>8 DEF TopicInv, MapSound

LEMMA WriteRowStep ==
    ASSUME TopicInv, NEW w \in Planners, WriteRow(w)
    PROVE  TopicInv' /\ CardsStayPlaced
<1> DEFINE q == [planner[w] EXCEPT !.at = "list", !.seen = Blank]
           r == IF planner[w].kind = "accept" THEN Quiet ELSE q
           t == planner[w].t
           held == planner[w].row
           late == Overtaken(w)
<1>1. /\ planner[w].at = "row" /\ placed' = placed
      /\ topic' = Updated(t, held) /\ Onward(w, r, late)
  BY DEF WriteRow
<1>2. PlannerFine(planner[w])
  BY DEF TopicInv, PlannersFine
<1>3. /\ DOMAIN q = {"at", "kind", "t", "to", "row", "seen", "left"}
      /\ q.at = "list" /\ q.seen = Blank /\ q.left = planner[w].left
  BY <1>2 DEF PlannerFine
<1>4. /\ WellRead(planner[w]) /\ MapRow(held) /\ held.status # "none"
      /\ planner[w].left = {}
  BY <1>1, <1>2 DEF PlannerFine
<1> HIDE DEF q
<1>5. PlannerFine(q)
  BY <1>3, <1>4, BlankIs DEF PlannerFine
<1>6. PlannerFine(r)
  BY <1>5, QuietIs
<1>7. t \in Topics /\ t # Unsorted /\ planner[w].seen[t].status # "none"
  BY <1>4 DEF WellRead
<1> HIDE DEF r, t, held
<1>8. /\ RowsFine(topic') /\ \A u \in Topics \ {t} : topic'[u] = topic[u]
      /\ topic'[t] = held \/ topic' = topic
  BY <1>1, <1>4, <1>7, UpdatedIs
<1>9. \A u \in Topics : topic[u].status # "none" => topic'[u].status # "none"
  BY <1>4, <1>8
<1>10. ASSUME ~crossed, ~late PROVE Forest(topic')
  <2>1. Shape(planner[w].seen) = Shape(topic) /\ Forest(topic)
    BY <1>10 DEF Overtaken, TopicInv
  <2>2. CASE topic' = topic
    BY <2>1, <2>2
  <2>3. topic[t].status # "none" /\ planner[w].seen[t].parent = topic[t].parent
    BY <1>7, <2>1, Alike
  <2>4. held.parent = topic[t].parent \/ Clear(topic, t, held.parent)
    BY <1>4, <2>1, <2>3, Alike DEF WellRead, t, held
  <2>5. CASE topic'[t] = held /\ held.parent = topic[t].parent
    BY <1>8, <2>1, <2>3, <2>5, ForestKept
  <2>6. CASE topic'[t] = held /\ Clear(topic, t, held.parent)
    BY <1>7, <1>8, <2>1, <2>6, ForestMoved
  <2> QED BY <1>8, <2>2, <2>4, <2>5, <2>6
<1> HIDE DEF late
<1>11. MapSound(late)
  BY <1>1, <1>8, <1>9, <1>10, TreeWritten DEF Onward
<1> QED BY <1>1, <1>6, <1>11, PlannerStep

LEMMA ListStep ==
    ASSUME TopicInv, NEW w \in Planners, ListTopics(w)
    PROVE  TopicInv' /\ CardsStayPlaced
<1> DEFINE r == planner[w]
           list == [u \in Topics |-> IF u \in r.left THEN r.seen[u]
                                     ELSE IF u = r.t THEN [topic[u] EXCEPT !.depth = r.row.depth]
                                     ELSE topic[u]]
           more == IF r.t = NoTopic THEN {u \in Topics : There(u) /\ topic[u].parent = NoTopic}
                   ELSE Below(r.t)
           q == [r EXCEPT !.at = "renumber", !.seen = list, !.left = @ \cup more]
<1>1. r.at = "list" /\ Onward(w, q, FALSE) /\ topic' = topic /\ placed' = placed
  BY DEF ListTopics
<1>2. PlannerFine(r)
  BY DEF TopicInv, PlannersFine
<1>3. RowsFine(r.seen) /\ \A u \in r.left : u \in Topics /\ r.seen[u].status # "none"
  BY <1>1, <1>2 DEF PlannerFine
<1>4. \A u \in more : u \in Topics /\ topic[u].status # "none"
  BY DEF Below, There
<1> HIDE DEF more
<1>5. RowsFine(topic)
  BY DEF TopicInv
<1>6. ASSUME NEW u \in Topics
      PROVE  /\ MapRow(list[u])
             /\ u \notin r.left => /\ list[u].status = topic[u].status
                                   /\ list[u].parent = topic[u].parent
             /\ u \in r.left => list[u] = r.seen[u]
  <2>1. MapRow(topic[u]) /\ MapRow(r.seen[u])
    BY <1>3, <1>5 DEF RowsFine
  <2>2. CASE u \in r.left
    BY <2>1, <2>2
  <2>3. CASE u \notin r.left /\ u = r.t
    <3> DEFINE d == r.row.depth
               new == [topic[u] EXCEPT !.depth = d]
    <3>1. list[u] = new
      BY <2>3
    <3> HIDE DEF d
    <3>2. MapRow(new) /\ new.status = topic[u].status /\ new.parent = topic[u].parent
      BY <2>1 DEF MapRow
    <3> HIDE DEF new, list
    <3> QED BY <2>3, <3>1, <3>2
  <2>4. CASE u \notin r.left /\ u # r.t
    BY <2>1, <2>4
  <2> QED BY <2>2, <2>3, <2>4
<1>7. DOMAIN list = Topics
  OBVIOUS
<1> HIDE DEF list
<1>8. RowsFine(list)
  BY <1>3, <1>5, <1>6, <1>7, TopicAssumption DEF RowsFine
<1>9. \A u \in r.left \cup more : u \in Topics /\ list[u].status # "none"
  BY <1>3, <1>4, <1>6
<1>10. /\ DOMAIN q = {"at", "kind", "t", "to", "row", "seen", "left"}
       /\ q.at = "renumber" /\ q.seen = list /\ q.left = r.left \cup more
  BY <1>2 DEF PlannerFine
<1> HIDE DEF q, r
<1>11. PlannerFine(q)
  BY <1>8, <1>9, <1>10 DEF PlannerFine
<1>12. MapSound(FALSE)
  <2>1. RowsFine(topic') /\ (~crossed => Forest(topic'))
    BY <1>1 DEF TopicInv
  <2> QED BY <1>1, <2>1, TreeWritten DEF Onward
<1> QED BY <1>1, <1>11, <1>12, PlannerStep

LEMMA RenumberStep ==
    ASSUME TopicInv, NEW w \in Planners, NEW u \in Topics, Renumber(w, u)
    PROVE  TopicInv' /\ CardsStayPlaced
<1> DEFINE r == planner[w]
           p == r.seen[u].parent
           d == IF p = NoTopic THEN 0 ELSE r.seen[p].depth + 1
           held == [r.seen[u] EXCEPT !.depth = d]
           q == [r EXCEPT !.at = "list", !.t = u, !.row = held, !.left = @ \ {u}]
           s == [r EXCEPT !.seen[u] = held, !.left = @ \ {u}]
           next == IF p = NoTopic THEN q ELSE s
           late == Overtaken(w)
<1>1. /\ r.at = "renumber" /\ u \in r.left /\ topic' = Updated(u, held)
      /\ Onward(w, next, late) /\ placed' = placed
  BY DEF Renumber
<1>2. PlannerFine(r)
  BY DEF TopicInv, PlannersFine
<1>3. RowsFine(r.seen) /\ \A v \in r.left : v \in Topics /\ r.seen[v].status # "none"
  BY <1>1, <1>2 DEF PlannerFine
<1>4. MapRow(held) /\ held.status = r.seen[u].status /\ held.parent = r.seen[u].parent
  <2>1. MapRow(r.seen[u])
    BY <1>3 DEF RowsFine
  <2> HIDE DEF d
  <2> QED BY <2>1 DEF MapRow
<1> HIDE DEF held
<1>5. PlannerFine(q)
  <2>1. /\ DOMAIN q = {"at", "kind", "t", "to", "row", "seen", "left"}
        /\ q.at = "list" /\ q.seen = r.seen /\ q.left = r.left \ {u}
    BY <1>2 DEF PlannerFine
  <2> HIDE DEF q, r
  <2> QED BY <1>3, <2>1 DEF PlannerFine
<1>6. PlannerFine(s)
  <2> DEFINE list == [r.seen EXCEPT ![u] = held]
  <2>1. /\ DOMAIN s = {"at", "kind", "t", "to", "row", "seen", "left"}
        /\ s.at = "renumber" /\ s.seen = list /\ s.left = r.left \ {u}
    BY <1>1, <1>2 DEF PlannerFine
  <2>2. /\ DOMAIN list = Topics /\ list[u] = held
        /\ \A v \in Topics \ {u} : list[v] = r.seen[v]
    BY <1>3 DEF RowsFine
  <2> HIDE DEF list, s
  <2>3. RowsFine(list)
    BY <1>3, <1>4, <2>2, TopicAssumption DEF RowsFine
  <2>4. \A v \in s.left : v \in Topics /\ list[v].status # "none"
    BY <1>3, <1>4, <2>1, <2>2
  <2> HIDE DEF r
  <2> QED BY <2>1, <2>3, <2>4 DEF PlannerFine
<1> HIDE DEF q, s
<1>7. PlannerFine(next)
  BY <1>5, <1>6
<1>8. u = Unsorted => held.parent = NoTopic /\ held.status \in {"none", "accepted"}
  BY <1>3, <1>4 DEF RowsFine
<1>9. /\ RowsFine(topic') /\ \A v \in Topics \ {u} : topic'[v] = topic[v]
      /\ topic'[u] = held \/ topic' = topic
  BY <1>1, <1>4, <1>8, UpdatedIs
<1>10. held.status # "none"
  BY <1>1, <1>3, <1>4
<1>11. \A v \in Topics : topic[v].status # "none" => topic'[v].status # "none"
  BY <1>9, <1>10
<1>12. ASSUME ~crossed, ~late PROVE Forest(topic')
  <2>1. Shape(r.seen) = Shape(topic) /\ Forest(topic)
    BY <1>12 DEF Overtaken, TopicInv
  <2>2. topic[u].status = r.seen[u].status /\ topic[u].parent = r.seen[u].parent
    BY <2>1, Alike
  <2>3. \A v \in Topics : topic'[v].status = topic[v].status /\ topic'[v].parent = topic[v].parent
    BY <1>4, <1>9, <2>2
  <2> QED BY <2>1, <2>3, ForestKept
<1> HIDE DEF late, next
<1>13. MapSound(late)
  BY <1>1, <1>9, <1>11, <1>12, TreeWritten DEF Onward
<1> QED BY <1>1, <1>7, <1>13, PlannerStep

\* A request that goes on with fewer cards, or at another topic.
LEMMA PlaceStep ==
    ASSUME TopicInv, NEW w \in Planners, NEW k \in MapCards, PlaceCard(w, k)
    PROVE  TopicInv' /\ CardsStayPlaced
<1> DEFINE r == planner[w]
           q == [r EXCEPT !.left = @ \ {k}]
           t == r.to
           late == ~There(t)
<1>1. r.at = "place" /\ Onward(w, q, late) /\ placed' = PlacedIn(t, k, placed) /\ topic' = topic
  BY DEF PlaceCard
<1>2. PlannerFine(r)
  BY DEF TopicInv, PlannersFine
<1>3. t \in Topics /\ cards' = cards
  BY <1>1, <1>2 DEF PlannerFine, Onward
<1>4. /\ DOMAIN q = {"at", "kind", "t", "to", "row", "seen", "left"}
      /\ q.at = "place" /\ q.kind = r.kind /\ q.t = r.t /\ q.to = r.to /\ q.row = r.row
      /\ q.seen = r.seen /\ q.left = r.left \ {k}
  BY <1>1, <1>2 DEF PlannerFine
<1> HIDE DEF q
<1>5. PlannerFine(q)
  <2> HIDE DEF r
  <2> QED BY <1>1, <1>2, <1>4 DEF PlannerFine, WellRead
<1> HIDE DEF t
<1>6. /\ PlacesTyped' /\ OnePlace'
      /\ \A m \in placed' : m \in placed \/ m[1] = t
      /\ \A m \in placed : m[3] = "accepted" =>
            \E n \in placed' : n[2] = m[2] /\ n[3] = "accepted"
  BY <1>1, <1>3, PlacedFacts DEF TopicInv
<1>7. ASSUME ~crossed, ~late PROVE Forest(topic') /\ PlacesThere'
  <2>1. topic[t].status # "none"
    BY <1>7 DEF There
  <2> QED BY <1>1, <1>6, <1>7, <2>1 DEF TopicInv, PlacesThere
<1>8. RowsFine(topic)'
  BY <1>1 DEF TopicInv, RowsFine
<1> HIDE DEF late
<1>9. MapSound(late)
  BY <1>6, <1>7, <1>8 DEF MapSound
<1> QED BY <1>1, <1>5, <1>9, PlannerStep

LEMMA RehomeStep ==
    ASSUME TopicInv, NEW w \in Planners, Rehome(w)
    PROVE  TopicInv' /\ CardsStayPlaced
<1> DEFINE r == planner[w]
           t == r.t
           to == r.to
           p == r.row.parent
           q == [Quiet EXCEPT !.at = "list", !.kind = "delete"]
           late == Overtaken(w)
<1>1. /\ r.at = "rehome" /\ Onward(w, q, late)
      /\ topic' = [u \in Topics |->
            IF u = t THEN Missing
            ELSE IF topic[u].parent = t THEN [topic[u] EXCEPT !.parent = p] ELSE topic[u]]
      /\ placed' = {IF m[1] = t THEN <<to, m[2], m[3]>> ELSE m : m \in placed}
  BY DEF Rehome
<1>2. PlannerFine(r)
  BY DEF TopicInv, PlannersFine
<1>3. WellRead(r) /\ to \in Topics \ {t} /\ r.seen[to].status # "none"
  BY <1>1, <1>2 DEF PlannerFine
<1>4. /\ t \in Topics \ {Unsorted} /\ r.seen[t].status # "none"
      /\ p = r.seen[t].parent \/ Clear(r.seen, t, p)
  BY <1>3 DEF WellRead
<1>5. PlannerFine(q)
  <2>1. /\ DOMAIN q = {"at", "kind", "t", "to", "row", "seen", "left"}
        /\ q.at = "list" /\ q.seen = Blank /\ q.left = {}
    BY DEF Quiet
  <2> HIDE DEF q
  <2> QED BY <2>1, BlankIs DEF PlannerFine
<1> HIDE DEF q, t, to, p
<1>6. /\ PlacesTyped' /\ OnePlace'
      /\ \A m \in placed' : m[1] = to \/ (m \in placed /\ m[1] # t)
      /\ \A m \in placed : m[3] = "accepted" =>
            \E n \in placed' : n[2] = m[2] /\ n[3] = "accepted"
  BY <1>1, <1>3, <1>4, PlacesRehomed DEF TopicInv, Onward
<1>7. RowsFine(topic)
  BY DEF TopicInv
<1>8. DOMAIN topic' = Topics /\ topic'[t] = Missing
  BY <1>1, <1>4
<1>9. ASSUME NEW u \in Topics \ {t}
      PROVE  /\ MapRow(topic'[u])
             /\ topic'[u].parent = IF topic[u].parent = t THEN p ELSE topic[u].parent
             /\ topic'[u].status = topic[u].status
  <2>1. MapRow(topic[u])
    BY <1>7 DEF RowsFine
  <2>2. topic'[u] = IF topic[u].parent = t THEN [topic[u] EXCEPT !.parent = p] ELSE topic[u]
    BY <1>1
  <2> QED BY <2>1, <2>2 DEF MapRow
<1>10. RowsFine(topic')
  <2>1. topic[Unsorted].parent # t /\ Unsorted \in Topics \ {t}
    BY <1>4, <1>7, TopicAssumption DEF RowsFine
  <2> QED BY <1>7, <1>8, <1>9, <2>1, BlankIs DEF RowsFine
<1>11. ASSUME ~crossed, ~late PROVE Forest(topic') /\ PlacesThere'
  <2>1. Shape(r.seen) = Shape(topic) /\ Forest(topic) /\ PlacesThere
    BY <1>11 DEF Overtaken, TopicInv
  <2>2. /\ topic[t].status # "none" /\ r.seen[t].parent = topic[t].parent
        /\ topic[to].status # "none"
    BY <1>3, <1>4, <2>1, Alike
  <2>3. p = topic[t].parent \/ Clear(topic, t, p)
    BY <1>4, <2>1, <2>2, Alike
  <2>4. topic'[t].status = "none"
    BY <1>8, BlankIs
  <2>5. Forest(topic')
    BY <1>4, <1>9, <2>1, <2>2, <2>3, <2>4, ForestRehomed
  <2>6. topic'[to].status # "none"
    BY <1>3, <1>9, <2>2
  <2>7. \A m \in placed : m[1] # t => topic'[m[1]].status # "none"
    BY <1>9, <2>1 DEF PlacesThere, TopicInv, PlacesTyped
  <2> QED BY <1>6, <2>5, <2>6, <2>7 DEF PlacesThere
<1> HIDE DEF late
<1>12. RowsFine(topic)'
  BY <1>10 DEF RowsFine
<1>13. MapSound(late)
  BY <1>6, <1>11, <1>12 DEF MapSound
<1> QED BY <1>1, <1>5, <1>13, PlannerStep

\* Topics go with their memberships; what they held was only suggested.
LEMMA TopicsGone ==
    ASSUME TopicInv, NEW S \in SUBSET (Topics \ {Unsorted}), NEW late, cards' = cards,
           topic' = [u \in Topics |-> IF u \in S THEN Missing ELSE topic[u]],
           placed' = {m \in placed : m[1] \notin S},
           ~late => \A u \in S : topic[u].status = "suggested"
    PROVE  MapSound(late)
<1>1. PlacesTyped' /\ OnePlace'
  BY PlacesDropped DEF TopicInv, PlacesTyped
<1>2. /\ DOMAIN topic' = Topics /\ \A u \in S : topic'[u] = Missing
      /\ \A u \in Topics \ S : topic'[u] = topic[u]
  OBVIOUS
<1>3. RowsFine(topic)'
  BY <1>2, BlankIs, TopicAssumption DEF TopicInv, RowsFine
<1>4. ASSUME ~crossed PROVE Forest(topic') /\ PlacesThere'
  <2>1. \A u \in Topics : topic'[u].status # "none" => topic'[u] = topic[u]
    BY <1>2, BlankIs
  <2>2. Forest(topic')
    BY <1>4, <2>1, ForestKept DEF TopicInv
  <2> QED BY <1>2, <1>4, <2>2 DEF TopicInv, PlacesThere, PlacesTyped
<1>5. ASSUME ~late, NEW m \in placed, topic[m[1]].status # "suggested" PROVE m \in placed'
  BY <1>5
<1> QED BY <1>1, <1>3, <1>4, <1>5 DEF MapSound

LEMMA DropStep ==
    ASSUME TopicInv, NEW w \in Planners, DropTopic(w)
    PROVE  TopicInv' /\ CardsStayPlaced
<1> DEFINE t == planner[w].t
           late == topic[t].status # "suggested"
<1>1. /\ planner[w].at = "drop" /\ Onward(w, Quiet, late)
      /\ topic' = [topic EXCEPT ![t] = Missing] /\ placed' = {m \in placed : m[1] # t}
  BY DEF DropTopic
<1>2. t \in Topics \ {Unsorted} /\ DOMAIN topic = Topics
  BY <1>1 DEF TopicInv, PlannersFine, PlannerFine, RowsFine
<1> HIDE DEF t
<1>3. topic' = [u \in Topics |-> IF u \in {t} THEN Missing ELSE topic[u]]
  BY <1>1, <1>2
<1>4. placed' = {m \in placed : m[1] \notin {t}} /\ cards' = cards
  BY <1>1 DEF Onward
<1>5. MapSound(late)
  BY <1>2, <1>3, <1>4, TopicsGone
<1> HIDE DEF late
<1> QED BY <1>1, <1>5, QuietIs, PlannerStep

LEMMA ClearMapStep ==
    ASSUME TopicInv, NEW w \in Planners, ClearSuggested(w)
    PROVE  TopicInv' /\ CardsStayPlaced
<1> DEFINE r == planner[w]
           q == [r EXCEPT !.at = "file"]
           old == {t \in Topics : topic[t].status = "suggested"}
<1>1. /\ r.at = "clear" /\ Onward(w, q, FALSE)
      /\ topic' = [t \in Topics |-> IF t \in old THEN Missing ELSE topic[t]]
      /\ placed' = {m \in placed : m[1] \notin old}
  BY DEF ClearSuggested
<1>2. PlannerFine(r)
  BY DEF TopicInv, PlannersFine
<1>3. PlannerFine(q)
  <2>1. /\ DOMAIN q = {"at", "kind", "t", "to", "row", "seen", "left"}
        /\ q.at = "file" /\ q.to = r.to /\ q.left = r.left
    BY <1>1, <1>2 DEF PlannerFine
  <2> HIDE DEF q, r
  <2> QED BY <1>1, <1>2, <2>1 DEF PlannerFine
<1>4. old \in SUBSET (Topics \ {Unsorted}) /\ \A u \in old : topic[u].status = "suggested"
  BY DEF TopicInv, RowsFine
<1> HIDE DEF q, r, old
<1>5. MapSound(FALSE)
  BY <1>1, <1>4, TopicsGone DEF Onward
<1> QED BY <1>1, <1>3, <1>5, PlannerStep

LEMMA AddStep ==
    ASSUME TopicInv, NEW w \in Planners, NEW t \in Topics, AddSuggestion(w, t)
    PROVE  TopicInv' /\ CardsStayPlaced
<1> DEFINE r == planner[w]
           q == [r EXCEPT !.to = t]
           held == [Missing EXCEPT !.status = "suggested"]
<1>1. /\ r.at = "file" /\ Fresh(t) /\ Onward(w, q, FALSE) /\ placed' = placed
      /\ topic' = [topic EXCEPT ![t] = held]
  BY DEF AddSuggestion
<1>2. PlannerFine(r)
  BY DEF TopicInv, PlannersFine
<1>3. PlannerFine(q)
  <2>1. /\ DOMAIN q = {"at", "kind", "t", "to", "row", "seen", "left"}
        /\ q.at = "file" /\ q.to = t /\ q.left = r.left
    BY <1>1, <1>2 DEF PlannerFine
  <2> HIDE DEF q, r
  <2> QED BY <1>1, <1>2, <2>1 DEF PlannerFine
<1>4. MapRow(held) /\ held.parent = NoTopic /\ held.status = "suggested"
  BY DEF Missing, MapRow
<1>5. t # Unsorted
  BY <1>1 DEF Fresh
<1> HIDE DEF q, r, held
<1>6. RowsFine(topic') /\ topic'[t] = held /\ \A u \in Topics \ {t} : topic'[u] = topic[u]
  BY <1>1, <1>4, <1>5, RowWritten
<1>7. ~crossed => Forest(topic')
  BY <1>4, <1>6, ForestKept DEF TopicInv
<1>8. \A u \in Topics : topic[u].status # "none" => topic'[u].status # "none"
  BY <1>4, <1>6
<1>9. MapSound(FALSE)
  BY <1>1, <1>6, <1>7, <1>8, TreeWritten DEF Onward
<1> QED BY <1>1, <1>3, <1>9, PlannerStep

LEMMA FileStep ==
    ASSUME TopicInv, NEW w \in Planners, NEW k \in MapCards, FileCard(w, k)
    PROVE  TopicInv' /\ CardsStayPlaced
<1> DEFINE r == planner[w]
           t == r.to
           q == [r EXCEPT !.left = @ \ {k}]
           late == topic[t].status # "suggested"
           kept == {m \in placed : m[1] # t \/ m[2] # k}
           new == <<t, k, "suggested">>
<1>1. /\ r.at = "file" /\ t # NoTopic /\ Onward(w, q, late) /\ topic' = topic
      /\ placed' = kept \cup {new}
  BY DEF FileCard
<1>2. PlannerFine(r)
  BY DEF TopicInv, PlannersFine
<1>3. t \in Topics
  BY <1>1, <1>2 DEF PlannerFine
<1>4. PlannerFine(q)
  <2>1. /\ DOMAIN q = {"at", "kind", "t", "to", "row", "seen", "left"}
        /\ q.at = "file" /\ q.to = r.to /\ q.left = r.left \ {k}
    BY <1>1, <1>2 DEF PlannerFine
  <2> HIDE DEF q, r
  <2> QED BY <1>1, <1>2, <2>1 DEF PlannerFine
<1> HIDE DEF q, t
<1>5. /\ new \in Topics \X MapCards \X {"accepted", "suggested"}
      /\ new[1] = t /\ new[3] = "suggested"
  BY <1>3
<1>6. /\ \A m \in kept : m \in placed
      /\ \A m \in placed : m[1] # t => m \in kept
  OBVIOUS
<1> HIDE DEF kept, new
<1>7. PlacesTyped' /\ OnePlace'
  BY <1>1, <1>5, <1>6 DEF TopicInv, PlacesTyped, OnePlace, Onward
<1>8. RowsFine(topic)'
  BY <1>1 DEF TopicInv, RowsFine
<1>9. ASSUME ~crossed, ~late PROVE Forest(topic') /\ PlacesThere'
  BY <1>1, <1>5, <1>6, <1>9 DEF TopicInv, PlacesThere
<1>10. ASSUME ~late, NEW m \in placed, topic[m[1]].status # "suggested" PROVE m \in placed'
  BY <1>1, <1>6, <1>10
<1>11. MapSound(late)
  BY <1>7, <1>8, <1>9, <1>10 DEF MapSound
<1> HIDE DEF late
<1> QED BY <1>1, <1>4, <1>11, PlannerStep

LEMMA TopicStepInv ==
    TopicInv /\ [TopicNext]_topicVars => TopicInv' /\ [CardsStayPlaced]_topicVars
<1> SUFFICES ASSUME TopicInv, TopicNext \/ UNCHANGED topicVars
             PROVE  TopicInv' /\ (CardsStayPlaced \/ UNCHANGED topicVars)
  OBVIOUS
<1>1. CASE UNCHANGED topicVars
  <2>1. PlannersFine'
    BY <1>1 DEF TopicInv, PlannersFine, topicVars
  <2> QED BY <1>1, <2>1, TopicReads DEF topicVars
<1>2. ASSUME NEW w \in Planners, Transaction(w) PROVE TopicInv' /\ CardsStayPlaced
  BY <1>2, WriteRowStep, ListStep, RehomeStep, DropStep, ClearMapStep, InsertMapStep, RenumberStep,
     AddStep, PlaceStep, FileStep DEF Transaction
<1>3. ASSUME NEW w \in Planners, StopRequest(w) PROVE TopicInv' /\ CardsStayPlaced
  <2>1. PlannersFine'
    BY <1>3, QuietIs, PlannerGoesOn DEF StopRequest, TopicInv
  <2> QED BY <1>3, <2>1, TopicReads DEF StopRequest
<1>4. ASSUME NEW k \in MapCards, SwitchCard(k) \/ PurgeMembership(k)
      PROVE  TopicInv' /\ CardsStayPlaced
  <2>1. /\ topic' = topic /\ planner' = planner /\ crossed' = crossed
        /\ placed' \subseteq placed /\ cards' \subseteq MapCards
    BY <1>4 DEF SwitchCard, PurgeMembership, TopicInv, PlacesTyped
  <2>2. PlacesTyped' /\ OnePlace' /\ RowsFine(topic)'
    BY <2>1, PlacesDropped DEF TopicInv, RowsFine
  <2>3. ~crossed' => Forest(topic)' /\ PlacesThere'
    BY <2>1 DEF TopicInv, PlacesThere, Forest
  <2>4. PlannersFine'
    BY <2>1 DEF TopicInv, PlannersFine
  <2>5. CardsStayPlaced
    BY <1>4 DEF SwitchCard, PurgeMembership, CardsStayPlaced, Placement
  <2> QED BY <2>2, <2>3, <2>4, <2>5 DEF TopicInv
<1> QED BY <1>1, <1>2, <1>3, <1>4, RequestPlanned, UnsortedStep DEF TopicNext

----------------------------------------------------------------------------
(***************************************************************************)
(* Media.  A task under way keeps its item out of the Trash, so what it    *)
(* has written stands unless a request writes over it; only a task         *)
(* completes a record, and it has the transcript or the units by then.     *)
(***************************************************************************)
IntakeTypes ==
    /\ medium \in {"video", "document"}
    /\ media = NoMedia \/ media \in MediaRows
    /\ courseThere \in BOOLEAN
    /\ chore \in {"none", "queued", "running", "canceling", "succeeded", "failed", "canceled"}
    /\ DOMAIN uploader = Uploaders
    /\ boot \in {"up", "down", "broken"}

AskInv(ask) ==
    ask.at \in {"mark", "enqueue", "compensate"} =>
       /\ media \in MediaRows /\ ask.copy \in MediaRows
       /\ ask.copy.status \in {"active", "pending", "failed"}

ImporterPlaces == {"idle", "look", "reread", "mark", "begin", "open", "work", "check",
           "publish", "finish", "resave", "report"}

Carried ==
    /\ media \in MediaRows /\ importer.copy \in MediaRows
    /\ importer.at # "report" =>
          IF Video
          THEN importer.copy.status = "completed" => importer.copy.output /\ importer.at = "resave"
          ELSE importer.copy.status # "ready"

ImporterInv ==
    /\ importer.at \in ImporterPlaces
    /\ importer.at # "idle" => chore \in {"running", "canceling"} /\ boot = "up"
    /\ importer.at \notin {"idle", "look"} => Carried
    /\ importer.at \in {"publish", "finish"} => ~Video
    /\ importer.at = "finish" => media.output
    /\ importer.at \in {"reread", "resave", "begin", "open", "check"} => Video
    /\ Video /\ importer.at \in {"reread", "mark", "begin", "open", "work", "check"} =>
          media.status # "completed"
    /\ importer.at = "reread" =>
          /\ importer.copy.status \in {"uploaded", "failed", "canceled"}
          /\ media.status = importer.copy.status \/ media.by = "request"
    /\ importer.at = "report" => media.status = Finished \/ media.by = "request"

IntakeInv ==
    /\ IntakeTypes
    /\ \A u \in Uploaders : AskInv(uploader[u])
    /\ ImporterInv
    /\ IntakeSound

LEMMA IntakeStart == ASSUME IntakeInit PROVE IntakeInv
<1>1. IntakeTypes
  BY DEF IntakeInit, IntakeTypes
<1>2. \A u \in Uploaders : AskInv(uploader[u])
  BY DEF IntakeInit, AskInv, Rest
<1>3. ImporterInv
  BY DEF IntakeInit, ImporterInv, Rest, ImporterPlaces
<1>4. IntakeSound
  BY DEF IntakeInit, IntakeSound, FinishedHasOutput, StartFailsOnce
<1> QED BY <1>1, <1>2, <1>3, <1>4 DEF IntakeInv

\* What a late write does to the record.
LEMMA WrittenIs ==
    ASSUME media \in MediaRows, NEW copy \in MediaRows, NEW who \in {"request", "task"}
    PROVE  /\ Written(copy, who) \in MediaRows
           /\ Written(copy, who).gone = media.gone
           /\ media.gone => Written(copy, who) = media
           /\ ~media.gone => /\ Written(copy, who).status = copy.status
                             /\ Written(copy, who).by = who
                             /\ Written(copy, who).output = IF Video THEN copy.output ELSE media.output
BY DEF Written, MediaRows

LEMMA WithIs ==
    ASSUME NEW copy \in MediaRows, NEW status \in MediaStatuses
    PROVE  /\ With(copy, status) \in MediaRows
           /\ With(copy, status).status = status
           /\ With(copy, status).output = copy.output
           /\ With(copy, status).gone = copy.gone
BY DEF With, MediaRows

LEMMA StartedIs ==
    ASSUME NEW copy \in MediaRows
    PROVE  Started(copy) \in MediaRows /\ Started(copy).status = "active"
BY DEF Started, MediaRows, MediaStatuses

\* A step that leaves the record alone.
LEMMA RecordStands ==
    ASSUME IntakeInv, UNCHANGED <<medium, media>>, boot' = "up",
           chore' = "succeeded" => chore = "succeeded",
           chore' = "failed" => chore \notin {"running", "canceling"}
    PROVE  IntakeSound' /\ IntakeSteps
BY DEF IntakeInv, IntakeSound, FinishedHasOutput, StartFailsOnce, IntakeSteps, EndSettles,
       TrashIsLeft, CompletedStays, Finished, Video, Interrupted, InTrash

\* The same for a step of a request that does not touch the task either.
LEMMA AsksOnly ==
    ASSUME IntakeInv, NEW u \in Uploaders, UNCHANGED <<medium, media, courseThere, chore, importer, boot>>,
           boot = "up", NEW ask, uploader' = [uploader EXCEPT ![u] = ask], AskInv(ask)
    PROVE  IntakeInv' /\ IntakeSteps
<1>1. IntakeTypes'
  BY DEF IntakeInv, IntakeTypes
<1>2. ASSUME NEW v \in Uploaders PROVE AskInv(uploader[v])'
  <2>1. uploader'[v] = uploader[v] \/ uploader'[v] = ask
    BY DEF IntakeInv, IntakeTypes
  <2> QED BY <2>1 DEF IntakeInv, AskInv
<1>3. ImporterInv'
  BY DEF IntakeInv, ImporterInv, Carried, Video, Finished
<1>4. IntakeSound' /\ IntakeSteps
  BY RecordStands DEF IntakeInv, IntakeTypes
<1> QED BY <1>1, <1>2, <1>3, <1>4 DEF IntakeInv

LEMMA RestAsks == AskInv(Rest)
BY DEF AskInv, Rest

\* A request writes the copy it read over the record.
LEMMA RequestWrites ==
    ASSUME IntakeInv, NEW u \in Uploaders, UNCHANGED <<medium, courseThere, chore, importer, boot>>,
           boot = "up", uploader[u].at \in {"mark", "compensate"},
           media' = Written(uploader[u].copy, "request"),
           NEW ask, uploader' = [uploader EXCEPT ![u] = ask], ask.at # uploader[u].at,
           ask.at \in {"idle", "enqueue"}, ask.at = "enqueue" => ask.copy = uploader[u].copy
    PROVE  IntakeInv' /\ IntakeSteps
<1> DEFINE copy == uploader[u].copy
<1>1. IntakeTypes /\ media \in MediaRows /\ copy \in MediaRows /\ copy.status \in {"active", "pending", "failed"}
  BY DEF IntakeInv, AskInv
<1> HIDE DEF copy
<1>2. /\ media' \in MediaRows /\ media'.gone = media.gone
      /\ media.gone => media' = media
      /\ ~media.gone => /\ media'.status = copy.status /\ media'.by = "request"
                        /\ media'.output = IF Video THEN copy.output ELSE media.output
  BY <1>1, WrittenIs DEF copy
<1>3. \/ media'.status = media.status /\ media'.by = media.by /\ media'.output = media.output
      \/ media'.status \in {"active", "pending", "failed"} /\ media'.by = "request"
  <2>1. CASE media.gone
    <3>1. media' = media
      BY <1>2, <2>1
    <3> QED BY <3>1
  <2>2. CASE ~media.gone
    BY <1>1, <1>2, <2>2
  <2> QED BY <2>1, <2>2
<1>4. IntakeTypes'
  BY <1>1, <1>2 DEF IntakeTypes
<1>5. ASSUME NEW v \in Uploaders PROVE AskInv(uploader[v])'
  <2>1. CASE v = u
    <3>1. uploader'[v] = ask
      BY <1>1, <2>1 DEF IntakeTypes
    <3> QED BY <1>1, <1>2, <3>1 DEF AskInv, copy
  <2>2. CASE v # u
    <3>1. uploader'[v] = uploader[v]
      BY <1>1, <2>2 DEF IntakeTypes
    <3> QED BY <1>2, <3>1 DEF IntakeInv, AskInv
  <2> QED BY <2>1, <2>2
<1>6. ImporterInv'
  <2>1. Carried => Carried'
    BY <1>2 DEF Carried, Video
  <2>2. ~Video => media'.output = media.output
    BY <1>2
  <2>3. ImporterInv
    BY DEF IntakeInv
  <2> QED BY <1>3, <2>1, <2>2, <2>3 DEF ImporterInv, Video, Finished
<1>7. IntakeSound'
  <2>1. media # NoMedia
    BY <1>1, IntakeAssumption
  <2>2. FinishedHasOutput'
    BY <1>3, <2>1 DEF IntakeInv, IntakeSound, FinishedHasOutput, Finished, Video
  <2> QED BY <2>2 DEF IntakeSound, StartFailsOnce
<1>8. uploader' # uploader
  <2>1. uploader'[u] = ask
    BY <1>1 DEF IntakeTypes
  <2> QED BY <2>1
<1>9. IntakeSteps
  <2>1. EndSettles
    BY DEF EndSettles
  <2>2. TrashIsLeft
    BY <1>2 DEF TrashIsLeft, InTrash
  <2>3. CompletedStays
    BY <1>8 DEF CompletedStays
  <2> QED BY <2>1, <2>2, <2>3 DEF IntakeSteps
<1> QED BY <1>4, <1>5, <1>6, <1>7, <1>9 DEF IntakeInv

LEMMA AskStep ==
    ASSUME IntakeInv, NEW u \in Uploaders,
           BeginUpload(u) \/ CreateRecord(u) \/ BeginRun(u) \/ BeginRequeue(u)
              \/ MarkRecord(u) \/ EnqueueChore(u) \/ EnqueueFails(u) \/ Compensate(u)
    PROVE  IntakeInv' /\ IntakeSteps
<1>0. IntakeTypes /\ AskInv(uploader[u]) /\ ImporterInv
  BY DEF IntakeInv
<1>1. CASE BeginUpload(u)
  <2>1. uploader' = [uploader EXCEPT ![u] = [at |-> "create", copy |-> NoMedia]]
        /\ UNCHANGED <<medium, media, courseThere, chore, importer, boot>> /\ boot = "up"
    BY <1>1 DEF BeginUpload, Goes, Unasked
  <2>2. AskInv([at |-> "create", copy |-> NoMedia])
    BY DEF AskInv
  <2> QED BY <2>1, <2>2, AsksOnly
<1>2. CASE CreateRecord(u)
  <2>1. /\ media = NoMedia /\ boot = "up" /\ UNCHANGED <<medium, courseThere, chore, importer, boot>>
        /\ media' = [status |-> Unprocessed, output |-> FALSE, gone |-> FALSE, by |-> "request"]
        /\ \/ uploader' = [uploader EXCEPT ![u] = Rest]
           \/ ~Video /\ uploader' = [uploader EXCEPT ![u] = [at |-> "enqueue", copy |-> media']]
    BY <1>2 DEF CreateRecord, Asks, Leaves, Goes
  <2>2. media' \in MediaRows /\ media'.status \in {"uploaded", "pending"} /\ media \notin MediaRows
        /\ (~Video => media'.status = "pending")
    BY <2>1, IntakeAssumption DEF MediaRows, MediaStatuses, Unprocessed
  <2>3. IntakeTypes'
    BY <1>0, <2>1, <2>2 DEF IntakeTypes
  <2>4. ASSUME NEW v \in Uploaders PROVE AskInv(uploader[v])'
    <3>1. CASE v = u
      <4>1. uploader'[v] = Rest \/ (~Video /\ uploader'[v] = [at |-> "enqueue", copy |-> media'])
        BY <1>0, <2>1, <3>1 DEF IntakeTypes
      <4>2. CASE uploader'[v] = Rest
        BY <4>2 DEF AskInv, Rest
      <4>3. CASE ~Video /\ uploader'[v] = [at |-> "enqueue", copy |-> media']
        BY <2>2, <4>3 DEF AskInv
      <4> QED BY <4>1, <4>2, <4>3
    <3>2. CASE v # u
      <4>1. uploader'[v] = uploader[v]
        BY <1>0, <2>1, <3>2 DEF IntakeTypes
      <4> QED BY <2>2, <4>1 DEF IntakeInv, AskInv
    <3> QED BY <3>1, <3>2
  <2>5. importer.at \in {"idle", "look"}
    BY <1>0, <2>2 DEF ImporterInv, Carried
  <2>6. ImporterInv'
    BY <1>0, <2>1, <2>5 DEF ImporterInv, Video
  <2>7. IntakeSound'
    BY <2>1, <2>2 DEF IntakeSound, FinishedHasOutput, StartFailsOnce, Finished, Video
  <2>8. IntakeSteps
    BY <2>1, <2>2 DEF IntakeSteps, EndSettles, TrashIsLeft, CompletedStays, InTrash
  <2> QED BY <2>3, <2>4, <2>6, <2>7, <2>8 DEF IntakeInv
<1>3. CASE BeginRun(u)
  <2>1. /\ media \in MediaRows /\ UNCHANGED <<medium, media, courseThere, chore, importer, boot>> /\ boot = "up"
        /\ uploader' = [uploader EXCEPT ![u] = [at |-> "mark", copy |-> Started(media)]]
    BY <1>0, <1>3 DEF BeginRun, Unasked, Goes, Visible, IntakeTypes
  <2>2. AskInv([at |-> "mark", copy |-> Started(media)])
    BY <2>1, StartedIs DEF AskInv
  <2> QED BY <2>1, <2>2, AsksOnly
<1>4. CASE BeginRequeue(u)
  <2>1. /\ media \in MediaRows /\ UNCHANGED <<medium, media, courseThere, chore, importer, boot>> /\ boot = "up"
        /\ uploader' = [uploader EXCEPT ![u] = [at |-> "mark", copy |-> With(media, "pending")]]
    BY <1>0, <1>4 DEF BeginRequeue, Unasked, Goes, Visible, IntakeTypes
  <2>2. With(media, "pending") \in MediaRows /\ With(media, "pending").status = "pending"
    BY <2>1, WithIs DEF MediaStatuses
  <2>3. AskInv([at |-> "mark", copy |-> With(media, "pending")])
    BY <2>1, <2>2 DEF AskInv
  <2> QED BY <2>1, <2>3, AsksOnly
<1>5. CASE MarkRecord(u)
  <2> DEFINE ask == [at |-> "enqueue", copy |-> uploader[u].copy]
  <2>1. /\ UNCHANGED <<medium, courseThere, chore, importer, boot>> /\ boot = "up"
        /\ uploader[u].at = "mark" /\ media' = Written(uploader[u].copy, "request")
        /\ \/ uploader' = [uploader EXCEPT ![u] = ask]
           \/ uploader' = [uploader EXCEPT ![u] = Rest]
    BY <1>5 DEF MarkRecord, Asks, Goes, Leaves
  <2>2. ask.at = "enqueue" /\ ask.copy = uploader[u].copy /\ Rest.at = "idle"
    BY DEF Rest
  <2> HIDE DEF ask
  <2> QED BY <2>1, <2>2, RequestWrites
<1>6. CASE EnqueueChore(u)
  <2>1. /\ UNCHANGED <<medium, media, courseThere, importer, boot>> /\ boot = "up"
        /\ uploader' = [uploader EXCEPT ![u] = Rest]
        /\ chore' = IF ChoreActive THEN chore ELSE "queued"
    BY <1>6 DEF EnqueueChore, Asks, Leaves
  <2>2. IntakeTypes'
    BY <1>0, <2>1 DEF IntakeTypes
  <2>3. ASSUME NEW v \in Uploaders PROVE AskInv(uploader[v])'
    <3>1. uploader'[v] = uploader[v] \/ uploader'[v] = Rest
      BY <1>0, <2>1 DEF IntakeTypes
    <3> QED BY <2>1, <3>1 DEF IntakeInv, AskInv, Rest
  <2>4. ImporterInv'
    BY <1>0, <2>1 DEF ImporterInv, Carried, Video, Finished, ChoreActive
  <2>5. IntakeSound' /\ IntakeSteps
    BY <2>1, RecordStands DEF ChoreActive
  <2> QED BY <2>2, <2>3, <2>4, <2>5 DEF IntakeInv
<1>7. CASE EnqueueFails(u)
  <2> DEFINE ask == [at |-> "compensate", copy |-> With(uploader[u].copy, "failed")]
  <2>1. /\ UNCHANGED <<medium, media, courseThere, chore, importer, boot>> /\ boot = "up"
        /\ uploader' = [uploader EXCEPT ![u] = ask] /\ uploader[u].at = "enqueue"
    BY <1>7 DEF EnqueueFails, Asks, Goes
  <2>2. media \in MediaRows /\ uploader[u].copy \in MediaRows
    BY <1>0, <2>1 DEF AskInv
  <2>3. ask.copy \in MediaRows /\ ask.copy.status = "failed" /\ ask.at = "compensate"
    BY <2>2, WithIs DEF MediaStatuses
  <2> HIDE DEF ask
  <2>4. AskInv(ask)
    BY <2>2, <2>3 DEF AskInv
  <2> QED BY <2>1, <2>4, AsksOnly
<1>8. CASE Compensate(u)
  <2>1. /\ UNCHANGED <<medium, courseThere, chore, importer, boot>> /\ boot = "up"
        /\ uploader[u].at = "compensate" /\ uploader' = [uploader EXCEPT ![u] = Rest]
        /\ media' = Written(uploader[u].copy, "request") \/ media' = media
    BY <1>8 DEF Compensate, Asks, Leaves
  <2>2. CASE media' = Written(uploader[u].copy, "request")
    BY <2>1, <2>2, RequestWrites DEF Rest
  <2>3. CASE media' = media
    BY <2>1, <2>3, RestAsks, AsksOnly
  <2> QED BY <2>1, <2>2, <2>3
<1> QED BY <1>1, <1>2, <1>3, <1>4, <1>5, <1>6, <1>7, <1>8

\* What the user asks of a task, and the Trash.
LEMMA OutsideStep ==
    ASSUME IntakeInv, CancelChore \/ RetryChore \/ TrashMedia \/ RestoreMedia \/ SwitchCourse
    PROVE  IntakeInv' /\ IntakeSteps
<1>0. IntakeTypes /\ ImporterInv
  BY DEF IntakeInv
<1>1. CASE CancelChore \/ RetryChore \/ SwitchCourse
  <2>1. /\ UNCHANGED <<medium, media, importer, uploader, boot>> /\ boot = "up"
        /\ \/ chore' = chore /\ courseThere' \in BOOLEAN
           \/ /\ UNCHANGED courseThere
              /\ \/ chore = "queued" /\ chore' = "canceled"
                 \/ chore = "running" /\ chore' = "canceling"
                 \/ chore \in {"failed", "canceled"} /\ chore' = "queued"
    BY <1>0, <1>1 DEF CancelChore, RetryChore, SwitchCourse, IntakeTypes
  <2>2. IntakeTypes'
    BY <1>0, <2>1 DEF IntakeTypes
  <2>3. \A u \in Uploaders : AskInv(uploader[u])'
    BY <2>1 DEF IntakeInv, AskInv
  <2>4. ImporterInv'
    BY <1>0, <2>1 DEF ImporterInv, Carried, Video, Finished
  <2>5. IntakeSound' /\ IntakeSteps
    BY <2>1, RecordStands
  <2> QED BY <2>2, <2>3, <2>4, <2>5 DEF IntakeInv
<1>2. CASE TrashMedia \/ RestoreMedia
  <2>1. /\ UNCHANGED <<medium, courseThere, chore, importer, uploader, boot>> /\ boot = "up"
        /\ media \in MediaRows
        /\ \/ media' = [media EXCEPT !.gone = TRUE] /\ ~media.gone
           \/ media' = [media EXCEPT !.gone = FALSE] /\ media.gone
    <3>1. CASE TrashMedia
      BY <1>0, <3>1 DEF TrashMedia, Visible, IntakeTypes
    <3>2. CASE RestoreMedia
      BY <1>0, <3>2 DEF RestoreMedia, InTrash, IntakeTypes
    <3> QED BY <1>2, <3>1, <3>2
  <2>2. /\ media' \in MediaRows /\ media'.status = media.status
        /\ media'.output = media.output /\ media'.by = media.by
    BY <2>1 DEF MediaRows
  <2>3. ~(InTrash /\ InTrash')
    BY <2>1, IntakeAssumption DEF InTrash, MediaRows
  <2>4. IntakeTypes'
    BY <1>0, <2>1, <2>2 DEF IntakeTypes
  <2>5. \A u \in Uploaders : AskInv(uploader[u])'
    BY <2>1, <2>2 DEF IntakeInv, AskInv
  <2>6. ImporterInv'
    BY <1>0, <2>1, <2>2 DEF ImporterInv, Carried, Video, Finished
  <2>7. IntakeSound'
    <3>1. media # NoMedia
      BY <2>1, IntakeAssumption
    <3>2. FinishedHasOutput'
      BY <2>1, <2>2, <3>1 DEF IntakeInv, IntakeSound, FinishedHasOutput, Finished, Video
    <3> QED BY <2>1, <3>2 DEF IntakeSound, StartFailsOnce
  <2>8. IntakeSteps
    BY <2>1, <2>2, <2>3 DEF IntakeSteps, EndSettles, TrashIsLeft, CompletedStays
  <2> QED BY <2>4, <2>5, <2>6, <2>7, <2>8 DEF IntakeInv
<1> QED BY <1>1, <1>2

\* A stop, and the start that recovers what it interrupted.
LEMMA ProcessTurn ==
    ASSUME IntakeInv, StopProcess \/ StartProcess
    PROVE  IntakeInv' /\ IntakeSteps
<1>0. IntakeTypes /\ ImporterInv
  BY DEF IntakeInv
<1>1. CASE StopProcess
  <2>1. /\ UNCHANGED <<medium, media, courseThere, chore>> /\ boot = "up" /\ boot' = "down"
        /\ importer' = Rest /\ uploader' = [u \in Uploaders |-> Rest]
    BY <1>1 DEF StopProcess
  <2>2. IntakeTypes'
    BY <1>0, <2>1 DEF IntakeTypes
  <2>3. \A u \in Uploaders : AskInv(uploader[u])'
    BY <2>1 DEF AskInv, Rest
  <2>4. ImporterInv'
    BY <2>1 DEF ImporterInv, Rest, ImporterPlaces
  <2>5. IntakeSound'
    BY <2>1 DEF IntakeInv, IntakeSound, FinishedHasOutput, StartFailsOnce, Finished, Video
  <2>6. IntakeSteps
    BY <2>1 DEF IntakeSteps, EndSettles, TrashIsLeft, CompletedStays, Video, InTrash
  <2> QED BY <2>2, <2>3, <2>4, <2>5, <2>6 DEF IntakeInv
<1>2. CASE StartProcess
  <2>1. /\ boot \in {"down", "broken"} /\ UNCHANGED <<medium, courseThere, importer, uploader>>
        /\ chore' \in {"failed", "canceled", chore}
        /\ media' = IF Interrupted THEN [media EXCEPT !.status = "failed", !.by = "start"] ELSE media
        /\ boot' \in {"up", "broken"}
    BY <1>2 DEF StartProcess
  <2>2. Interrupted => /\ media \in MediaRows /\ media' \in MediaRows /\ ~media.gone /\ ~media'.gone
                       /\ media.status = "active" /\ media'.status = "failed"
    BY <1>0, <2>1 DEF Interrupted, IntakeTypes, MediaRows, MediaStatuses
  <2>3. ~Interrupted => media' = media
    BY <2>1
  <2>4. importer.at = "idle"
    BY <1>0, <2>1 DEF ImporterInv
  <2>5. IntakeTypes'
    BY <1>0, <2>1, <2>2, <2>3 DEF IntakeTypes
  <2>6. \A u \in Uploaders : AskInv(uploader[u])'
    BY <2>1, <2>2, <2>3 DEF IntakeInv, AskInv
  <2>7. ImporterInv'
    BY <2>1, <2>4 DEF ImporterInv, ImporterPlaces
  <2>8. IntakeSound'
    BY <2>1, <2>2, <2>3 DEF IntakeInv, IntakeSound, FinishedHasOutput, StartFailsOnce, Finished,
                            Video, Interrupted
  <2>9. IntakeSteps
    BY <1>0, <2>1, <2>2, <2>3 DEF IntakeSteps, EndSettles, TrashIsLeft, CompletedStays, InTrash, IntakeTypes
  <2> QED BY <2>5, <2>6, <2>7, <2>8, <2>9 DEF IntakeInv
<1> QED BY <1>1, <1>2

----------------------------------------------------------------------------
\* A step of the task leaves this alone.
TaskOnly == UNCHANGED <<medium, courseThere, uploader, boot>> /\ boot = "up"

\* It goes on without a write.
LEMMA TaskGoesOn ==
    ASSUME IntakeInv, TaskOnly, UNCHANGED <<media, chore>>, ImporterInv'
    PROVE  IntakeInv' /\ IntakeSteps
<1>1. IntakeTypes'
  BY DEF TaskOnly, IntakeInv, IntakeTypes
<1>2. \A u \in Uploaders : AskInv(uploader[u])'
  BY DEF TaskOnly, IntakeInv, AskInv
<1>3. IntakeSound' /\ IntakeSteps
  <2>1. UNCHANGED <<medium, media>> /\ boot' = "up"
    BY DEF TaskOnly
  <2>2. chore' = chore
    OBVIOUS
  <2>3. chore' = "failed" => chore \notin {"running", "canceling"}
    BY <2>2
  <2> QED BY <2>1, <2>2, <2>3, RecordStands
<1> QED BY <1>1, <1>2, <1>3 DEF IntakeInv

\* It ends, with a last write or without; the record it leaves fits its end.
LEMMA TaskEnds ==
    ASSUME IntakeInv, TaskOnly, importer.at # "idle", NEW outcome \in {"failed", "canceled", "succeeded"},
           Settles(outcome),
           \/ media' = media
           \/ /\ media \in MediaRows /\ media' \in MediaRows
              /\ media.gone => media' = media
              /\ media'.status = Finished => media'.output
              /\ Video /\ media.status = "completed" => media'.status = "completed",
           outcome = "failed" => media'.status # "active" \/ Overwritten,
           outcome = "succeeded" => media.status = Finished \/ Overwritten
    PROVE  IntakeInv' /\ IntakeSteps
<1>0. IntakeTypes /\ ImporterInv /\ FinishedHasOutput
  BY DEF IntakeInv, IntakeSound
<1>1. /\ importer' = Rest
      /\ chore' = IF outcome = "failed" /\ chore = "canceling" THEN "canceled" ELSE outcome
  BY DEF Settles
<1>2. media \in MediaRows => media # NoMedia
  BY IntakeAssumption
<1>3. IntakeTypes'
  BY <1>0, <1>1 DEF IntakeTypes, TaskOnly
<1>4. \A u \in Uploaders : AskInv(uploader[u])'
  BY DEF IntakeInv, AskInv, TaskOnly
<1>5. ImporterInv'
  BY <1>1 DEF ImporterInv, Rest, ImporterPlaces
<1>6. FinishedHasOutput'
  <2>1. CASE media' = media
    BY <1>0, <2>1 DEF FinishedHasOutput, Finished, Video, TaskOnly
  <2>2. CASE media' # media
    BY <2>2 DEF FinishedHasOutput, Finished, Video, TaskOnly
  <2> QED BY <2>1, <2>2
<1>7. IntakeSound'
  BY <1>6 DEF IntakeSound, StartFailsOnce, TaskOnly
<1>8. EndSettles
  BY <1>1 DEF EndSettles
<1>9. TrashIsLeft
  <2>1. InTrash => media' = media
    BY <1>2 DEF InTrash
  <2> QED BY <2>1 DEF TrashIsLeft
<1>10. CompletedStays
  BY DEF CompletedStays
<1> QED BY <1>3, <1>4, <1>5, <1>7, <1>8, <1>9, <1>10 DEF IntakeInv, IntakeSteps

\* It writes the record and goes on.
LEMMA TaskWrites ==
    ASSUME IntakeInv, TaskOnly, UNCHANGED chore, ImporterInv',
           media \in MediaRows, media' \in MediaRows, media'.gone = media.gone,
           media.gone => media'.status = media.status /\ (Video => media' = media),
           media'.status = Finished => media'.output,
           Video /\ media.status = "completed" => media'.status = "completed"
    PROVE  IntakeInv' /\ IntakeSteps
<1>1. IntakeTypes'
  BY DEF TaskOnly, IntakeInv, IntakeTypes
<1>2. \A u \in Uploaders : AskInv(uploader[u])'
  BY DEF TaskOnly, IntakeInv, AskInv
<1>3. IntakeSound'
  BY DEF TaskOnly, IntakeSound, FinishedHasOutput, StartFailsOnce, Finished, Video
<1>4. EndSettles /\ CompletedStays
  BY DEF EndSettles, CompletedStays
<1>5. TrashIsLeft
  BY DEF TrashIsLeft, InTrash
<1> QED BY <1>1, <1>2, <1>3, <1>4, <1>5 DEF IntakeInv, IntakeSteps

LEMMA LookSteps ==
    ASSUME IntakeInv, ClaimChore \/ LookAtRecord \/ RereadRecord \/ BeginPipeline \/ OpenPipeline
    PROVE  IntakeInv' /\ IntakeSteps
<1>0. IntakeTypes /\ ImporterInv /\ FinishedHasOutput
  BY DEF IntakeInv, IntakeSound
<1>a. Visible => media \in MediaRows
  BY <1>0 DEF Visible, IntakeTypes
<1>1. CASE ClaimChore
  <2>1. /\ TaskOnly /\ media' = media /\ importer' = [at |-> "look", copy |-> NoMedia]
        /\ chore = "queued" /\ chore' = "running"
    BY <1>1 DEF ClaimChore, Requested, TaskOnly
  <2>2. IntakeTypes' /\ ImporterInv'
    BY <1>0, <2>1 DEF IntakeTypes, ImporterInv, TaskOnly, ImporterPlaces
  <2>3. \A u \in Uploaders : AskInv(uploader[u])'
    BY <2>1 DEF TaskOnly, IntakeInv, AskInv
  <2>4. IntakeSound' /\ IntakeSteps
    BY <2>1, RecordStands DEF TaskOnly
  <2> QED BY <2>2, <2>3, <2>4 DEF IntakeInv
<1>2. CASE LookAtRecord
  <2>1. TaskOnly /\ media' = media /\ importer.at = "look"
    BY <1>2 DEF LookAtRecord, Requested, TaskOnly, AtStage
  <2>2. CASE chore = "canceling" \/ ~Visible
    <3>1. Settles("canceled") \/ (Settles("failed") /\ ~Visible)
      BY <1>2, <2>2 DEF LookAtRecord
    <3> QED BY <2>1, <3>1, TaskEnds DEF Overwritten
  <2>3. CASE chore # "canceling" /\ Visible
    <3> DEFINE copy == With(media, IF Video THEN media.status ELSE "pending")
    <3>1. media \in MediaRows /\ media # NoMedia
      BY <1>a, <2>3 DEF Visible
    <3>2. media.status \in MediaStatuses
      BY <3>1 DEF MediaRows
    <3>3. /\ copy \in MediaRows /\ copy.output = media.output
          /\ copy.status = IF Video THEN media.status ELSE "pending"
      BY <3>1, <3>2, WithIs DEF MediaStatuses
    <3> HIDE DEF copy
    <3>4. importer' = [at |-> StageFor(media.status), copy |-> copy] /\ chore' = chore
      BY <1>2, <2>3 DEF LookAtRecord, Proceeds, copy
    <3>5. /\ ~Video => StageFor(media.status) = "mark"
          /\ Video /\ media.status = "completed" => StageFor(media.status) = "report"
          /\ Video /\ media.status # "completed" =>
                \/ StageFor(media.status) = "reread" /\ media.status \in {"uploaded", "failed", "canceled"}
                \/ StageFor(media.status) = "begin"
      BY DEF StageFor, NextStage, MayStart, MayRestart
    <3>6. Video => (media.status = "completed" => media.output)
      BY <1>0, <3>1 DEF FinishedHasOutput, Finished
    <3>7. ImporterInv'
      <4>1. importer'.at = StageFor(media.status) /\ importer'.copy = copy
        BY <3>4
      <4>2. chore' \in {"running", "canceling"} /\ boot' = "up"
        BY <1>0, <2>1, <3>4 DEF ImporterInv, TaskOnly
      <4>3. Video' <=> Video
        BY <2>1 DEF TaskOnly, Video
      <4>4. CASE ~Video
        <5>1. importer'.at = "mark" /\ copy.status = "pending"
          BY <3>3, <3>5, <4>1, <4>4
        <5> QED BY <2>1, <3>1, <3>3, <4>1, <4>2, <4>3, <4>4, <5>1 DEF ImporterInv, Carried, ImporterPlaces
      <4>5. CASE Video /\ media.status = "completed"
        <5>1. importer'.at = "report"
          BY <3>5, <4>1, <4>5
        <5> QED BY <2>1, <3>1, <3>3, <4>1, <4>2, <4>3, <4>5, <5>1 DEF ImporterInv, Carried, ImporterPlaces, Finished
      <4>6. CASE Video /\ media.status # "completed"
        BY <2>1, <3>1, <3>3, <3>5, <3>6, <4>1, <4>2, <4>3, <4>6 DEF ImporterInv, Carried, ImporterPlaces
      <4> QED BY <4>4, <4>5, <4>6
    <3> QED BY <2>1, <3>4, <3>7, TaskGoesOn
  <2> QED BY <2>2, <2>3
<1>3. CASE RereadRecord
  <2>1. TaskOnly /\ media' = media /\ importer.at = "reread"
    BY <1>3 DEF RereadRecord, Requested, TaskOnly, AtStage
  <2>2. /\ media \in MediaRows /\ Video /\ media.status # "completed"
        /\ importer.copy.status \in {"uploaded", "failed", "canceled"}
        /\ media.status = importer.copy.status \/ media.by = "request"
    BY <1>0, <2>1 DEF ImporterInv, Carried
  <2>3. CASE Settles("failed")
    <3>1. media.by = "request" \/ ~Visible \/ media.status # "active"
      BY <2>2
    <3> QED BY <2>1, <2>3, <3>1, TaskEnds DEF Overwritten
  <2>4. CASE importer' = [at |-> "mark", copy |-> Started(media)] /\ chore' = chore
    <3>1. Started(media) \in MediaRows /\ Started(media).status = "active"
      BY <2>2, StartedIs
    <3>2. ImporterInv'
      BY <1>0, <2>1, <2>2, <2>4, <3>1 DEF ImporterInv, Carried, ImporterPlaces, TaskOnly, Video
    <3> QED BY <2>1, <2>4, <3>2, TaskGoesOn
  <2> QED BY <1>3, <2>3, <2>4 DEF RereadRecord, Proceeds
<1>4. CASE BeginPipeline
  <2>1. TaskOnly /\ media' = media /\ importer.at = "begin"
    BY <1>4 DEF BeginPipeline, Requested, TaskOnly, AtStage
  <2>2. CASE Settles("canceled")
    BY <2>1, <2>2, TaskEnds
  <2>3. CASE importer' = [at |-> "open", copy |-> importer.copy] /\ chore' = chore
    <3>1. ImporterInv'
      BY <1>0, <2>1, <2>3 DEF ImporterInv, Carried, ImporterPlaces, TaskOnly, Video
    <3> QED BY <2>1, <2>3, <3>1, TaskGoesOn
  <2> QED BY <1>4, <2>2, <2>3 DEF BeginPipeline, Proceeds
<1>5. CASE OpenPipeline
  <2>1. TaskOnly /\ media' = media /\ importer.at = "open"
    BY <1>5 DEF OpenPipeline, Requested, TaskOnly, AtStage
  <2>2. CASE ~Visible /\ Settles("failed")
    BY <2>1, <2>2, TaskEnds DEF Overwritten
  <2>3. CASE Visible /\ importer' = [at |-> "work", copy |-> With(media, "active")] /\ chore' = chore
    <3>1. With(media, "active") \in MediaRows /\ With(media, "active").status = "active"
      BY <1>a, <2>3, WithIs DEF MediaStatuses
    <3>2. ImporterInv'
      BY <1>0, <1>a, <2>1, <2>3, <3>1 DEF ImporterInv, Carried, ImporterPlaces, TaskOnly, Video
    <3> QED BY <2>1, <2>3, <3>2, TaskGoesOn
  <2> QED BY <1>5, <2>2, <2>3 DEF OpenPipeline, Proceeds
<1> QED BY <1>1, <1>2, <1>3, <1>4, <1>5

\* What the task writes is the copy it carries, in a status that is not that
\* of a finished record before its end.
LEMMA TaskWritten ==
    ASSUME IntakeInv, TaskOnly, importer.at \notin {"idle", "look", "report"},
           NEW status \in MediaStatuses,
           status # Finished \/ status = importer.copy.status,
           media' = Written(With(importer.copy, status), "task")
    PROVE  /\ media \in MediaRows /\ media' \in MediaRows /\ media'.gone = media.gone
           /\ media.gone => media' = media
           /\ media'.status = Finished => media'.output
           /\ ~media.gone => media'.status = status
           /\ ~Video => media'.output = media.output
<1> DEFINE copy == With(importer.copy, status)
<1>1. /\ media \in MediaRows /\ importer.copy \in MediaRows
      /\ IF Video THEN importer.copy.status = "completed" => importer.copy.output
         ELSE importer.copy.status # "ready"
  BY DEF IntakeInv, ImporterInv, Carried
<1>2. copy \in MediaRows /\ copy.status = status /\ copy.output = importer.copy.output
  BY <1>1, WithIs
<1>3. media' = Written(copy, "task")
  OBVIOUS
<1> HIDE DEF copy
<1>4. /\ media' \in MediaRows /\ media'.gone = media.gone
      /\ media.gone => media' = media
      /\ ~media.gone => /\ media'.status = status
                        /\ media'.output = IF Video THEN copy.output ELSE media.output
  BY <1>1, <1>2, <1>3, WrittenIs
<1>5. media # NoMedia /\ FinishedHasOutput
  BY <1>1, IntakeAssumption DEF IntakeInv, IntakeSound
<1>6. CASE media.gone
  <2>1. media' = media
    BY <1>4, <1>6
  <2> QED BY <1>1, <1>5, <1>6, <2>1 DEF FinishedHasOutput
<1>7. CASE ~media.gone
  <2>1. media'.status = Finished => media'.output
    BY <1>1, <1>2, <1>4, <1>7 DEF Finished
  <2> QED BY <1>1, <1>4, <1>7, <2>1
<1> QED BY <1>6, <1>7

LEMMA SameStatus ==
    ASSUME NEW copy \in MediaRows
    PROVE  With(copy, copy.status) = copy /\ copy.status \in MediaStatuses
BY DEF With, MediaRows

LEMMA WorkSteps ==
    ASSUME IntakeInv, MarkProcessing \/ SaveStage \/ CheckCanceled \/ StageFails \/ PublishUnits
    PROVE  IntakeInv' /\ IntakeSteps
<1>0. IntakeTypes /\ ImporterInv /\ FinishedHasOutput
  BY DEF IntakeInv, IntakeSound
<1>1. TaskOnly /\ importer.at \in {"mark", "work", "check", "publish"}
  BY DEF MarkProcessing, SaveStage, CheckCanceled, StageFails, PublishUnits, Requested, TaskOnly, AtStage
<1>2. /\ media \in MediaRows /\ importer.copy \in MediaRows
      /\ importer.copy.status # Finished
      /\ Video => media.status # "completed"
      /\ chore \in {"running", "canceling"} /\ importer.at # "idle"
  BY <1>0, <1>1 DEF ImporterInv, Carried, Finished
<1>3. media' = Written(importer.copy, "task") =>
         media' = Written(With(importer.copy, importer.copy.status), "task")
  BY <1>2, SameStatus
<1>4. CASE MarkProcessing
  <2>1. media' = Written(importer.copy, "task") /\ importer.at = "mark"
    BY <1>4 DEF MarkProcessing, AtStage
  <2>2. /\ media' \in MediaRows /\ media'.gone = media.gone
        /\ media.gone => media' = media
        /\ media'.status = Finished => media'.output
        /\ ~media.gone => media'.status = importer.copy.status
    BY <1>1, <1>2, <1>3, <2>1, SameStatus, TaskWritten
  <2>3. CASE ~Visible /\ Settles("failed")
    BY <1>1, <1>2, <2>2, <2>3, TaskEnds DEF Overwritten
  <2>4. CASE Visible /\ importer' = [at |-> IF Video THEN "begin" ELSE "work", copy |-> importer.copy]
             /\ chore' = chore
    <3>1. ~media.gone /\ media'.status = importer.copy.status
      BY <2>2, <2>4 DEF Visible
    <3>2. ImporterInv'
      BY <1>0, <1>1, <1>2, <2>1, <2>2, <2>4 DEF ImporterInv, Carried, ImporterPlaces, TaskOnly, Video, Finished
    <3> QED BY <1>1, <1>2, <2>2, <2>4, <3>2, TaskWrites
  <2> QED BY <1>4, <2>3, <2>4 DEF MarkProcessing, Proceeds
<1>5. CASE SaveStage
  <2>1. media' = Written(importer.copy, "task") /\ importer.at = "work" /\ Video
        /\ importer' = [at |-> "check", copy |-> importer.copy] /\ chore' = chore
    BY <1>5 DEF SaveStage, AtStage, Proceeds
  <2>2. /\ media' \in MediaRows /\ media'.gone = media.gone
        /\ media.gone => media' = media
        /\ media'.status = Finished => media'.output
        /\ ~media.gone => media'.status = importer.copy.status
    BY <1>1, <1>2, <1>3, <2>1, SameStatus, TaskWritten
  <2>3. ImporterInv'
    BY <1>0, <1>1, <1>2, <2>1, <2>2 DEF ImporterInv, Carried, ImporterPlaces, TaskOnly, Video, Finished
  <2> QED BY <1>1, <1>2, <2>1, <2>2, <2>3, TaskWrites
<1>6. CASE CheckCanceled
  <2>1. importer.at = "check" \/ (importer.at = "work" /\ ~Video)
    BY <1>6 DEF CheckCanceled, AtStage
  <2>2. CASE chore = "canceling"
    <3> DEFINE status == IF Video THEN "canceled" ELSE "pending"
    <3>1. media' = Written(With(importer.copy, status), "task") /\ Settles("canceled")
      BY <1>6, <2>2 DEF CheckCanceled
    <3>2. status \in MediaStatuses /\ status # Finished
      BY DEF MediaStatuses, Finished
    <3> HIDE DEF status
    <3>3. /\ media' \in MediaRows
          /\ media.gone => media' = media
          /\ media'.status = Finished => media'.output
      BY <1>1, <1>2, <3>1, <3>2, TaskWritten
    <3> QED BY <1>1, <1>2, <3>1, <3>3, TaskEnds
  <2>3. CASE chore # "canceling"
    <3>1. media' = media /\ chore' = chore
          /\ importer' = [at |-> IF Video THEN "work" ELSE "publish", copy |-> importer.copy]
      BY <1>6, <2>3 DEF CheckCanceled, Proceeds
    <3>2. ImporterInv'
      BY <1>0, <1>1, <1>2, <2>1, <3>1 DEF ImporterInv, Carried, ImporterPlaces, TaskOnly, Video
    <3> QED BY <1>1, <3>1, <3>2, TaskGoesOn
  <2> QED BY <2>2, <2>3
<1>7. CASE StageFails
  <2>1. media' = Written(With(importer.copy, "failed"), "task") /\ Settles("failed")
    BY <1>7 DEF StageFails
  <2>2. "failed" \in MediaStatuses /\ "failed" # Finished
    BY DEF MediaStatuses, Finished
  <2>3. /\ media' \in MediaRows
        /\ media.gone => media' = media
        /\ media'.status = Finished => media'.output
        /\ ~media.gone => media'.status = "failed"
    BY <1>1, <1>2, <2>1, <2>2, TaskWritten
  <2>4. media'.status # "active" \/ Overwritten
    <3>1. media.gone => ~Visible
      BY DEF Visible
    <3> QED BY <2>3, <3>1 DEF Overwritten
  <2> QED BY <1>1, <1>2, <2>1, <2>3, <2>4, TaskEnds
<1>8. CASE PublishUnits
  <2>1. /\ importer.at = "publish" /\ media' = [media EXCEPT !.output = TRUE]
        /\ importer' = [at |-> "finish", copy |-> importer.copy] /\ chore' = chore
    BY <1>8 DEF PublishUnits, AtStage, Proceeds
  <2>2. /\ media' \in MediaRows /\ media'.gone = media.gone /\ media'.output
        /\ media'.status = media.status /\ media'.by = media.by
    BY <1>2, <2>1 DEF MediaRows
  <2>3. ~Video
    BY <1>0, <2>1 DEF ImporterInv
  <2>4. ImporterInv'
    BY <1>0, <1>1, <1>2, <2>1, <2>2, <2>3 DEF ImporterInv, Carried, ImporterPlaces, TaskOnly, Video, Finished
  <2> QED BY <1>1, <1>2, <2>1, <2>2, <2>3, <2>4, TaskWrites
<1> QED BY <1>4, <1>5, <1>6, <1>7, <1>8

LEMMA EndSteps ==
    ASSUME IntakeInv, FinishRecord \/ ReportOutcome
    PROVE  IntakeInv' /\ IntakeSteps
<1>0. IntakeTypes /\ ImporterInv
  BY DEF IntakeInv
<1>1. CASE FinishRecord
  <2> DEFINE done == [With(importer.copy, Finished) EXCEPT !.output = TRUE]
  <2>1. /\ TaskOnly /\ media' = Written(done, "task")
        /\ \/ importer.at = (IF Video THEN "work" ELSE "finish")
           \/ importer.at = "resave"
        /\ IF ~Visible THEN Settles("failed")
           ELSE /\ chore' = chore
                /\ importer' = [at |-> IF Video /\ importer.at # "resave" THEN "resave" ELSE "report",
                                copy |-> done]
    BY <1>1 DEF FinishRecord, Requested, TaskOnly, AtStage, Proceeds
  <2>2. /\ media \in MediaRows /\ importer.copy \in MediaRows /\ importer.at # "idle"
        /\ importer.at = "finish" => media.output
        /\ importer.at = "resave" => Video
        /\ chore \in {"running", "canceling"}
    BY <1>0, <2>1 DEF ImporterInv, Carried
  <2>3. Finished \in MediaStatuses
    BY DEF Finished, MediaStatuses
  <2>4. With(importer.copy, Finished) \in MediaRows /\ With(importer.copy, Finished).status = Finished
    BY <2>2, <2>3, WithIs
  <2>5. done \in MediaRows /\ done.status = Finished /\ done.output
    BY <2>4 DEF MediaRows
  <2> HIDE DEF done
  <2>6. /\ media' \in MediaRows /\ media'.gone = media.gone
        /\ media.gone => media' = media
        /\ ~media.gone => /\ media'.status = Finished
                          /\ media'.output = IF Video THEN done.output ELSE media.output
    BY <2>1, <2>2, <2>5, WrittenIs
  <2>7. media'.status = Finished => media'.output
    <3>1. CASE media.gone
      <4>1. media' = media /\ media # NoMedia /\ FinishedHasOutput
        BY <2>2, <2>6, <3>1, IntakeAssumption DEF IntakeInv, IntakeSound
      <4> QED BY <4>1 DEF FinishedHasOutput
    <3>2. CASE ~media.gone
      BY <2>1, <2>2, <2>5, <2>6, <3>2
    <3> QED BY <3>1, <3>2
  <2>8. Video /\ media.status = "completed" => media'.status = "completed"
    <3>1. CASE media.gone
      BY <2>6, <3>1
    <3>2. CASE ~media.gone
      BY <2>6, <3>2 DEF Finished
    <3> QED BY <3>1, <3>2
  <2>9. CASE ~Visible
    BY <2>1, <2>2, <2>6, <2>7, <2>8, <2>9, TaskEnds DEF Overwritten
  <2>10. CASE Visible
    <3>1. ~media.gone /\ media'.status = Finished
      BY <2>6, <2>10 DEF Visible
    <3>2. ImporterInv'
      BY <1>0, <2>1, <2>2, <2>5, <2>6, <2>10, <3>1 DEF ImporterInv, Carried, ImporterPlaces, TaskOnly, Video, Finished
    <3> QED BY <2>1, <2>2, <2>6, <2>7, <2>8, <2>10, <3>1, <3>2, TaskWrites
  <2> QED BY <2>9, <2>10
<1>2. CASE ReportOutcome
  <2>1. TaskOnly /\ media' = media /\ importer.at = "report"
    BY <1>2 DEF ReportOutcome, Requested, TaskOnly, AtStage
  <2>2. media.status = Finished \/ media.by = "request"
    BY <1>0, <2>1 DEF ImporterInv
  <2>3. CASE ~Visible
    <3>1. Settles("failed")
      BY <1>2, <2>3 DEF ReportOutcome
    <3> QED BY <2>1, <2>3, <3>1, TaskEnds DEF Overwritten
  <2>4. CASE Visible
    <3>1. Settles("canceled") \/ Settles("failed") \/ Settles("succeeded")
      BY <1>2, <2>4 DEF ReportOutcome
    <3>2. media'.status # "active" \/ Overwritten
      BY <2>1, <2>2 DEF Overwritten, Finished
    <3>3. media.status = Finished \/ Overwritten
      BY <2>2 DEF Overwritten
    <3> QED BY <2>1, <3>1, <3>2, <3>3, TaskEnds
  <2> QED BY <2>3, <2>4
<1> QED BY <1>1, <1>2

LEMMA IntakeStepInv ==
    ASSUME IntakeInv, [IntakeNext]_intakeVars
    PROVE  IntakeInv' /\ [IntakeSteps]_intakeVars
<1>1. CASE UNCHANGED intakeVars
  BY <1>1 DEF intakeVars, IntakeInv, IntakeTypes, AskInv, ImporterInv, Carried, IntakeSound,
              FinishedHasOutput, StartFailsOnce, Finished, Video, Interrupted
<1>2. CASE \E u \in Uploaders :
              \/ BeginUpload(u) \/ CreateRecord(u) \/ BeginRun(u) \/ BeginRequeue(u)
              \/ MarkRecord(u) \/ EnqueueChore(u) \/ EnqueueFails(u) \/ Compensate(u)
  BY <1>2, AskStep
<1>3. CASE CancelChore \/ RetryChore \/ TrashMedia \/ RestoreMedia \/ SwitchCourse
  BY <1>3, OutsideStep
<1>4. CASE ChoreStep
  BY <1>4, LookSteps, WorkSteps, EndSteps DEF ChoreStep
<1>5. CASE StopProcess \/ StartProcess
  BY <1>5, ProcessTurn
<1> QED BY <1>1, <1>2, <1>3, <1>4, <1>5 DEF IntakeNext
==============================================================================
