----------------------- MODULE WorkspaceRestoreProofs -----------------------
(***************************************************************************)
(* Proofs about WorkspaceRestore, alone and under DesktopShell, for any    *)
(* archives, managed roots and files beside the database, and any number   *)
(* of restores, crashes and failed file operations.                        *)
(***************************************************************************)
EXTENDS DesktopShell, FiniteSetTheorems, TLAPS

----------------------------------------------------------------------------
(***************************************************************************)
(* The inductive invariant of the restore.                                 *)
(***************************************************************************)

Items == [of : 0..MaxRestores, schema : 0..Latest] \cup {Nothing}
Generations == 1..MaxRestores + 1
Swapping == {"swapping", "swapped", "rolling_back"}
Markers == {Absent, Torn} \cup [id : Ids, phase : {"queued"}, generation : Generations]
Receipts ==
    {Absent, Torn} \cup
      [id : Ids, phase : Swapping \cup {"finalizing", "rollback_finalizing"},
       generation : Generations, had : [PartSet -> BOOLEAN]]
Places == {"down", "prepare", "out", "in", "check", "unwind", "rollback", "undone",
           "init", "recover", "commit", "finalize", "serving"}
Processes == [pc : Places, i : Nat \ {0}, staging : 0..MaxRestores,
              failed : BOOLEAN, after : {"none", "init", "serving"}]

Types ==
    /\ live \in [PartSet -> Items]
    /\ staged \in [PartSet -> Items]
    /\ kept \in [PartSet -> Items]
    /\ marker \in Markers
    /\ receipt \in Receipts
    /\ copies \subseteq Ids /\ backups \subseteq Names
    /\ result \in [id : 0..MaxRestores, generation : Generations,
                   status : {"none", "applied", "failed", "canceled"}]
    /\ generation \in Generations
    /\ chosen \in [0..MaxRestores -> Valid \cup {NoValue}]
    /\ proc \in Processes
    /\ faults \in 0..MaxFaults

\* Restores are numbered in the order they are queued, the original workspace
\* is 0, and the generation counts no more than were queued.
Numbered == \A id \in Ids : (chosen[id] # NoValue) <=> (id < NewId)
Books ==
    /\ chosen[0] = Original
    /\ Numbered
    /\ generation <= NewId
    /\ Whole(marker) => chosen[marker.id] # NoValue /\ marker.generation <= marker.id
    /\ Whole(receipt) => chosen[receipt.id] # NoValue /\ receipt.generation <= receipt.id

\* What the place of the process says of the receipt.
Fresh == receipt = Absent /\ proc.staging = 0
Opening == Fresh \/ (receipt.phase = "swapped" /\ proc.staging = receipt.id)
Place ==
    /\ At("prepare") => Fresh /\ Whole(marker)
    /\ proc.pc \in {"out", "in", "check", "unwind"} => receipt.phase = "swapping"
    /\ At("rollback") => receipt.phase \in {"swapping", "rolling_back"}
    /\ At("undone") => receipt.phase = "rollback_finalizing"
    /\ proc.pc \in {"init", "recover"} => Opening
    /\ At("commit") => receipt.phase = "swapped"
    /\ At("finalize") => receipt.phase = "finalizing" /\ proc.after \in {"init", "serving"}
    /\ At("serving") => Fresh

\* The schema is the newest once init_db has run.
Migrated ==
    /\ proc.pc \in {"recover", "commit", "serving"} => live["database"].schema = Latest
    /\ At("finalize") /\ proc.after = "serving" => live["database"].schema = Latest

\* The workspace is the content c; only audio, which no row names, may lack.
Of == live["database"].of
IsContent(c) == c \in 0..MaxRestores /\ chosen[c] # NoValue
Coherent(c) ==
    /\ IsContent(c)
    /\ Of = c
    /\ \A p \in PartSet : Present(live[p]) => live[p].of = c
    /\ \A r \in Elems(Roots) \ {"audio"} : Present(live[r])
Told(c) == /\ result.status = "applied" => result.id = c
           /\ result.status # "none" => result.generation = generation

\* Without a receipt, the workspace is one content and the answer tells it.
Settled ==
    ~Whole(receipt) =>
      /\ Coherent(Of) /\ Told(Of)
      /\ Whole(marker) => marker.generation = generation /\ marker.id # Of

\* A part during the swap from the content c: its original is kept, or in its
\* place; what was not there is not kept.
Before(p, c) == IF receipt.had[p] THEN c ELSE Nothing.of
Part(p, c) ==
    /\ live[p].of \in {c, receipt.id, Nothing.of}
    /\ Present(kept[p]) => receipt.had[p] /\ kept[p].of = c /\ live[p].of # c
    /\ receipt.had[p] /\ ~Present(kept[p]) => live[p].of = c
    /\ ~receipt.had[p] => live[p].of # c
    /\ Present(staged[p]) => Restored(p) /\ staged[p].of = receipt.id /\ live[p].of # receipt.id

\* How far the swap, or a rollback, is with a part.
New(p) == IF Restored(p) THEN receipt.id ELSE Nothing.of
Todo(p, c) == live[p].of = Before(p, c) /\ staged[p].of = New(p) /\ ~Present(kept[p])
Taken(p, c) == ~Present(live[p]) /\ staged[p].of = New(p) /\ kept[p].of = Before(p, c)
Done(p, c) == live[p].of = New(p) /\ ~Present(staged[p]) /\ kept[p].of = Before(p, c)
Undoable(p) ==
    /\ receipt.had[p] /\ ~Present(kept[p]) /\ Restored(p) => Present(staged[p])
    /\ ~receipt.had[p] /\ ~Restored(p) => ~Present(live[p])
Home(p, c) == ~Present(kept[p]) /\ live[p].of = Before(p, c)

Progress(c) ==
    /\ proc.pc \in {"out", "in"} => proc.i \in DOMAIN Parts
    /\ \A j \in DOMAIN Parts :
         /\ proc.pc \in {"out", "in"} /\ j < proc.i => Done(Parts[j], c)
         /\ proc.pc \in {"out", "in"} /\ j > proc.i => Todo(Parts[j], c)
         /\ At("out") /\ j = proc.i => Todo(Parts[j], c)
         /\ At("in") /\ j = proc.i => Taken(Parts[j], c)
         /\ At("check") => Done(Parts[j], c)
         /\ At("unwind") /\ j >= proc.i => Undoable(RollbackOrder[j])
         /\ proc.pc \in {"unwind", "rollback"} /\ ~proc.failed /\ j < proc.i =>
              Home(RollbackOrder[j], c)

Transaction(c) ==
    /\ IsContent(c) /\ c # receipt.id
    /\ \A p \in PartSet \ (Elems(Sidecars) \cup {"audio"}) : receipt.had[p]
    /\ Told(c)
    /\ \A p \in PartSet : Part(p, c)
    /\ Progress(c)

InSwap ==
    receipt.phase \in Swapping =>
      /\ receipt.generation = generation
      /\ \E c \in 0..MaxRestores : Transaction(c)
      /\ receipt.phase = "swapped" => Coherent(receipt.id)

\* Both ends of a restore: the workspace is decided, the rest is cleared away.
Undoing ==
    receipt.phase = "rollback_finalizing" =>
      /\ Coherent(Of) /\ Told(Of) /\ Of # receipt.id
      /\ receipt.generation = generation
      /\ \A p \in PartSet : receipt.had[p] => Present(live[p])
      /\ At("undone") => proc.i <= 5 /\ (proc.i > 2 => marker = Absent)
Finalizing ==
    receipt.phase = "finalizing" =>
      /\ Coherent(receipt.id)
      /\ At("finalize") =>
           /\ proc.i <= 6
           /\ proc.i > 1 => generation = receipt.generation + 1
           /\ proc.i > 2 => result = [id |-> receipt.id, status |-> "applied",
                                      generation |-> receipt.generation + 1]
           /\ proc.i > 3 => marker = Absent

WInv == /\ Types /\ Books /\ Place /\ Migrated
        /\ Settled /\ InSwap /\ Undoing /\ Finalizing

----------------------------------------------------------------------------
(***************************************************************************)
(* Parts and their contents.                                               *)
(***************************************************************************)

\* Three sequences one after the other, the last of a single element.
LEMMA Joined ==
    ASSUME NEW S, NEW a \in Seq(S), NEW b \in Seq(S), NEW s \in S
    PROVE  LET joined == a \o b \o <<s>>
               n == Len(a)  m == Len(b)
           IN /\ n \in Nat /\ m \in Nat /\ DOMAIN a = 1..n /\ DOMAIN b = 1..m
              /\ Len(joined) = n + m + 1 /\ DOMAIN joined = 1..n + m + 1
              /\ \A j \in 1..n + m + 1 :
                   joined[j] = IF j <= n THEN a[j]
                               ELSE IF j <= n + m THEN b[j - n] ELSE s
  OBVIOUS

\* A sequence over a set is one over any larger set, and so is its reverse.
LEMMA Widened ==
    ASSUME NEW S, NEW T, S \subseteq T, NEW s \in Seq(S)
    PROVE  LET reversed == [i \in DOMAIN s |-> s[Len(s) + 1 - i]]
           IN s \in Seq(T) /\ reversed \in Seq(T) /\ Len(reversed) = Len(s)
<1> DEFINE n == Len(s)
           reversed == [i \in DOMAIN s |-> s[n + 1 - i]]
<1>1. n \in Nat /\ DOMAIN s = 1..n /\ \A i \in 1..n : s[i] \in T
  OBVIOUS
<1>2. reversed \in [1..n -> T]
  BY <1>1
<1>3. s \in Seq(T)
  BY <1>1
<1>4. reversed \in Seq(T) /\ DOMAIN reversed = 1..n
  BY <1>1, <1>2
<1> QED BY <1>1, <1>3, <1>4

\* The parts by position, in the order of the swap and in that of a rollback.
LEMMA PartsListed ==
    LET n == Len(Roots)
        m == Len(Sidecars)
    IN /\ n \in Nat /\ m \in Nat /\ DOMAIN Roots = 1..n /\ DOMAIN Sidecars = 1..m
       /\ Len(Parts) = n + m + 1 /\ DOMAIN Parts = 1..n + m + 1
       /\ \A j \in 1..n + m + 1 :
            Parts[j] = IF j <= n THEN Roots[j]
                       ELSE IF j <= n + m THEN Sidecars[j - n] ELSE "database"
       /\ \A j \in 1..n + m + 1 :
            RollbackOrder[j] = IF j <= n THEN Roots[n + 1 - j]
                               ELSE IF j <= n + m THEN Sidecars[j - n] ELSE "database"
<1> DEFINE n == Len(Roots)  m == Len(Sidecars)
           reversed == [i \in DOMAIN Roots |-> Roots[n + 1 - i]]
           S == ManagedRoots \cup STRING \cup {"database"}
<1>1. Roots \in Seq(S) /\ reversed \in Seq(S) /\ Len(reversed) = n
  BY Widened, WorkspaceRestoreAssumption
<1>2. Sidecars \in Seq(S)
  BY Widened, WorkspaceRestoreAssumption
<1>3. "database" \in S
  OBVIOUS
<1>4. \A j \in DOMAIN Roots : reversed[j] = Roots[n + 1 - j]
  OBVIOUS
<1> HIDE DEF S, reversed
<1>5. Parts = Roots \o Sidecars \o <<"database">>
  BY DEF Parts
<1>6. RollbackOrder = reversed \o Sidecars \o <<"database">>
  BY DEF RollbackOrder, reversed
<1>7. /\ n \in Nat /\ m \in Nat /\ DOMAIN Roots = 1..n /\ DOMAIN Sidecars = 1..m
      /\ Len(Parts) = n + m + 1 /\ DOMAIN Parts = 1..n + m + 1
      /\ \A j \in 1..n + m + 1 :
            Parts[j] = IF j <= n THEN Roots[j]
                       ELSE IF j <= n + m THEN Sidecars[j - n] ELSE "database"
  BY <1>1, <1>2, <1>3, <1>5, Joined
<1>8. \A j \in 1..n + m + 1 :
        RollbackOrder[j] = IF j <= n THEN reversed[j]
                           ELSE IF j <= n + m THEN Sidecars[j - n] ELSE "database"
  BY <1>1, <1>2, <1>3, <1>6, Joined
<1> HIDE DEF n, m
<1>9. \A j \in 1..n + m + 1 :
        RollbackOrder[j] = IF j <= n THEN Roots[n + 1 - j]
                           ELSE IF j <= n + m THEN Sidecars[j - n] ELSE "database"
  <2>1. \A j \in 1..n + m + 1 : j <= n => reversed[j] = Roots[n + 1 - j]
    BY <1>4, <1>7
  <2> QED BY <1>8, <2>1
<1> QED BY <1>7, <1>9 DEF n, m

\* The swap and both rollbacks visit every part, each once.
LEMMA PartsFacts ==
    /\ Len(Parts) \in Nat \ {0} /\ DOMAIN Parts = 1..Len(Parts)
    /\ \A j \in DOMAIN Parts : Parts[j] \in PartSet /\ RollbackOrder[j] \in PartSet
    /\ \A p \in PartSet : \E j \in DOMAIN Parts : Parts[j] = p
    /\ \A p \in PartSet : \E j \in DOMAIN Parts : RollbackOrder[j] = p
    /\ \A i, j \in DOMAIN Parts : Parts[i] = Parts[j] => i = j
    /\ \A i, j \in DOMAIN Parts : RollbackOrder[i] = RollbackOrder[j] => i = j
<1> DEFINE n == Len(Roots)  m == Len(Sidecars)
           Mirror(j) == IF j <= n THEN n + 1 - j ELSE j
<1>1. /\ n \in Nat /\ m \in Nat /\ Len(Parts) = n + m + 1 /\ DOMAIN Parts = 1..n + m + 1
      /\ \A j \in 1..n + m + 1 :
            Parts[j] = IF j <= n THEN Roots[j]
                       ELSE IF j <= n + m THEN Sidecars[j - n] ELSE "database"
      /\ \A j \in 1..n + m + 1 :
            RollbackOrder[j] = IF j <= n THEN Roots[n + 1 - j]
                               ELSE IF j <= n + m THEN Sidecars[j - n] ELSE "database"
  BY PartsListed
<1> HIDE DEF n, m
<1>2. \A j \in 1..n + m + 1 : Mirror(j) \in 1..n + m + 1 /\ Mirror(Mirror(j)) = j
  BY <1>1
<1>3. \A j \in 1..n + m + 1 : RollbackOrder[j] = Parts[Mirror(j)]
  <2> SUFFICES ASSUME NEW j \in 1..n + m + 1
               PROVE  RollbackOrder[j] = Parts[Mirror(j)]
    OBVIOUS
  <2>1. CASE j <= n
    <3>1. n + 1 - j \in 1..n + m + 1 /\ n + 1 - j <= n
      BY <1>1, <2>1
    <3> QED BY <1>1, <2>1, <3>1
  <2>2. CASE ~(j <= n)
    BY <1>1, <2>2
  <2> QED BY <2>1, <2>2
<1>4. PartSet = {Parts[j] : j \in 1..n + m + 1}
  BY <1>1 DEF PartSet, Elems
<1>5. \A i, j \in 1..n + m + 1 : Parts[i] = Parts[j] => i = j
  BY <1>1, WorkspaceRestoreAssumption DEF Distinct
<1> HIDE DEF Mirror
<1>6. ASSUME NEW p \in PartSet
      PROVE  \E j \in DOMAIN Parts : RollbackOrder[j] = p
  <2>1. PICK j \in 1..n + m + 1 : Parts[j] = p
    BY <1>4
  <2>2. Mirror(j) \in 1..n + m + 1 /\ RollbackOrder[Mirror(j)] = Parts[Mirror(Mirror(j))]
    BY <1>2, <1>3
  <2> QED BY <1>1, <1>2, <2>1, <2>2
<1>7. \A i, j \in DOMAIN Parts : RollbackOrder[i] = RollbackOrder[j] => i = j
  BY <1>1, <1>2, <1>3, <1>5
<1>8. \A j \in DOMAIN Parts : Parts[j] \in PartSet /\ RollbackOrder[j] \in PartSet
  <2>1. \A j \in 1..n + m + 1 : Parts[j] \in PartSet
    BY <1>4
  <2>2. \A j \in 1..n + m + 1 : RollbackOrder[j] \in PartSet
    BY <2>1, <1>2, <1>3
  <2> QED BY <1>1, <2>1, <2>2
<1>9. Len(Parts) \in Nat \ {0} /\ DOMAIN Parts = 1..Len(Parts)
  BY <1>1
<1>10. \A p \in PartSet : \E j \in DOMAIN Parts : Parts[j] = p
  BY <1>1, <1>4
<1> QED BY <1>1, <1>5, <1>6, <1>7, <1>8, <1>9, <1>10

\* The roots and the database are restored; the files beside it are not.
LEMMA PartKinds ==
    /\ PartSet = Elems(Roots) \cup Elems(Sidecars) \cup {"database"}
    /\ Restored("database") /\ "database" # "audio"
    /\ \A r \in Elems(Roots) : Restored(r) /\ r # "database"
<1> DEFINE n == Len(Roots)  m == Len(Sidecars)
<1>1. /\ n \in Nat /\ m \in Nat /\ DOMAIN Roots = 1..n /\ DOMAIN Sidecars = 1..m
      /\ DOMAIN Parts = 1..n + m + 1
      /\ \A j \in 1..n + m + 1 :
            Parts[j] = IF j <= n THEN Roots[j]
                       ELSE IF j <= n + m THEN Sidecars[j - n] ELSE "database"
  BY PartsListed
<1> HIDE DEF n, m
<1>2. PartSet = {Parts[j] : j \in 1..n + m + 1}
  BY <1>1 DEF PartSet, Elems
<1>3. \A j \in 1..n : j \in 1..n + m + 1 /\ j # n + m + 1 /\ Parts[j] = Roots[j]
  BY <1>1
<1>4. \A j \in 1..m : /\ n + j \in 1..n + m + 1 /\ n + j # n + m + 1
                      /\ ~(n + j \in 1..n) /\ Parts[n + j] = Sidecars[j]
  <2> SUFFICES ASSUME NEW j \in 1..m
               PROVE  /\ n + j \in 1..n + m + 1 /\ n + j # n + m + 1
                      /\ ~(n + j \in 1..n) /\ Parts[n + j] = Sidecars[j]
    OBVIOUS
  <2>1. /\ n + j \in 1..n + m + 1 /\ ~(n + j <= n) /\ n + j <= n + m
        /\ n + j - n = j
    BY <1>1
  <2> QED BY <1>1, <2>1
<1>5. Parts[n + m + 1] = "database" /\ n + m + 1 \in 1..n + m + 1
  BY <1>1
<1>6. /\ Elems(Roots) = {Roots[j] : j \in 1..n}
      /\ Elems(Sidecars) = {Sidecars[j] : j \in 1..m}
  BY <1>1 DEF Elems
<1>7. \A i, j \in 1..n + m + 1 : Parts[i] = Parts[j] => i = j
  BY <1>1, WorkspaceRestoreAssumption DEF Distinct
<1>8. ASSUME NEW j \in 1..n + m + 1
      PROVE  Parts[j] \in Elems(Roots) \cup Elems(Sidecars) \cup {"database"}
  <2>1. CASE j <= n
    BY <1>1, <1>6, <2>1
  <2>2. CASE j > n /\ j <= n + m
    <3>1. j - n \in 1..m /\ ~(j <= n)
      BY <1>1, <2>2
    <3> QED BY <1>1, <1>6, <2>2, <3>1
  <2>3. CASE j > n + m
    <3>1. ~(j <= n) /\ ~(j <= n + m)
      BY <1>1, <2>3
    <3> QED BY <1>1, <3>1
  <2> QED BY <1>1, <2>1, <2>2, <2>3
<1>9. Elems(Roots) \cup Elems(Sidecars) \cup {"database"} \subseteq PartSet
  BY <1>2, <1>3, <1>4, <1>5, <1>6
<1>10. \A s \in Elems(Sidecars) : s # "database" /\ s \notin Elems(Roots)
  BY <1>3, <1>4, <1>5, <1>6, <1>7
<1>11. \A r \in Elems(Roots) : r # "database"
  BY <1>3, <1>5, <1>6, <1>7
<1>12. PartSet = Elems(Roots) \cup Elems(Sidecars) \cup {"database"}
  BY <1>2, <1>8, <1>9
<1> QED BY <1>10, <1>11, <1>12 DEF Restored

\* What is there has the content of a restore, or of the original workspace.
LEMMA ItemFacts ==
    /\ Nothing \in Items /\ Nothing.of = MaxRestores + 1
    /\ \A x \in Items : x.of \in 0..MaxRestores + 1
    /\ \A x \in Items : Present(x) <=> x.of # Nothing.of
    /\ \A x \in Items : Present(x) <=> x.of \in 0..MaxRestores
  BY WorkspaceRestoreAssumption DEF Items, Nothing, Present

----------------------------------------------------------------------------
(***************************************************************************)
(* A valid archive is a sound workspace under any data directory.          *)
(***************************************************************************)

\* A rebased path is under the new base, and is the same path.
LEMMA RebasedPath ==
    ASSUME NEW v, StoredPath(v), NEW base
    PROVE  Rebased(v, base).base = base /\ Rebased(v, base).path = v.path
  BY DEF StoredPath, Rebased

\* The rows of a database under another base, table by table.
JobUnder(j, base) ==
    [j EXCEPT !.video = Rebased(@, base),
              !.transcript = IF @ = NoValue THEN @ ELSE Rebased(@, base)]
AssetUnder(a, base) == [a EXCEPT !.stored = Rebased(@, base)]
TrashUnder(t, base) == [t EXCEPT !.coursePlan = RebasedCoursePlan(t, base)]

LEMMA RebasedTables ==
    ASSUME NEW db, WellFormed(db), NEW base
    PROVE  LET under == RebasedDatabase(db, base)
           IN /\ under.jobs = {JobUnder(j, base) : j \in db.jobs}
              /\ under.assets = {AssetUnder(a, base) : a \in db.assets}
              /\ under.trash = {TrashUnder(t, base) : t \in db.trash}
<1>1. RebasedDatabase(db, base) =
        [db EXCEPT !.jobs = {JobUnder(j, base) : j \in @},
                   !.assets = {AssetUnder(a, base) : a \in @},
                   !.trash = {TrashUnder(t, base) : t \in @}]
  BY DEF RebasedDatabase, JobUnder, AssetUnder, TrashUnder
<1>2. db = [schema |-> db.schema, jobs |-> db.jobs, assets |-> db.assets, trash |-> db.trash]
  BY DEF WellFormed
<1> QED BY <1>1, <1>2

\* Each row of a rebased database comes from a row of the original one.
LEMMA RebasedJob ==
    ASSUME NEW db, WellFormed(db), NEW base,
           NEW x \in RebasedDatabase(db, base).jobs
    PROVE  \E j \in db.jobs :
             /\ x.id = j.id /\ x.course = j.course
             /\ x.video = Rebased(j.video, base) /\ StoredPath(j.video)
             /\ j.transcript = NoValue => x.transcript = NoValue
             /\ j.transcript # NoValue => /\ x.transcript = Rebased(j.transcript, base)
                                          /\ StoredPath(j.transcript)
<1>1. PICK j \in db.jobs : x = JobUnder(j, base)
  BY RebasedTables
<1>5. /\ j = [id |-> j.id, course |-> j.course, video |-> j.video,
              transcript |-> j.transcript]
      /\ StoredPath(j.video) /\ (j.transcript # NoValue => StoredPath(j.transcript))
  BY DEF WellFormed
<1>6. /\ x.id = j.id /\ x.course = j.course
      /\ x.video = Rebased(j.video, base)
      /\ x.transcript = IF j.transcript = NoValue THEN j.transcript
                        ELSE Rebased(j.transcript, base)
  BY <1>1, <1>5 DEF JobUnder
<1> QED BY <1>5, <1>6

LEMMA RebasedAsset ==
    ASSUME NEW db, WellFormed(db), NEW base,
           NEW x \in RebasedDatabase(db, base).assets
    PROVE  \E a \in db.assets :
             /\ x.id = a.id /\ x.course = a.course
             /\ x.stored = Rebased(a.stored, base) /\ StoredPath(a.stored)
<1>1. PICK a \in db.assets : x = AssetUnder(a, base)
  BY RebasedTables
<1>5. a = [id |-> a.id, course |-> a.course, stored |-> a.stored] /\ StoredPath(a.stored)
  BY DEF WellFormed
<1>6. x.id = a.id /\ x.course = a.course /\ x.stored = Rebased(a.stored, base)
  BY <1>1, <1>5 DEF AssetUnder
<1> QED BY <1>5, <1>6

LEMMA RebasedTrash ==
    ASSUME NEW db, WellFormed(db), NEW base,
           NEW x \in RebasedDatabase(db, base).trash
    PROVE  \E t \in db.trash :
             /\ x.type = t.type /\ x.entity = t.entity /\ x.course = t.course
             /\ PlanPaths(x) \subseteq PlanPaths(t)
<1>1. PICK t \in db.trash : x = TrashUnder(t, base)
  BY RebasedTables
<1>5. /\ t = [type |-> t.type, entity |-> t.entity, course |-> t.course,
              coursePlan |-> t.coursePlan, entityPlan |-> t.entityPlan]
      /\ t.coursePlan # NoPlan =>
           /\ t.coursePlan = [course |-> t.coursePlan.course, phase |-> t.coursePlan.phase,
                              artifacts |-> t.coursePlan.artifacts]
           /\ \A i \in DOMAIN t.coursePlan.artifacts : StoredPath(t.coursePlan.artifacts[i])
  BY DEF WellFormed
<1> DEFINE plan == RebasedCoursePlan(t, base)
           listed == t.coursePlan.artifacts
<1>6. /\ x.type = t.type /\ x.entity = t.entity /\ x.course = t.course
      /\ x.entityPlan = t.entityPlan /\ x.coursePlan = plan
  BY <1>1, <1>5 DEF TrashUnder
<1>7. CASE t.coursePlan = NoPlan
  <2>1. x.coursePlan = NoPlan
    BY <1>6, <1>7 DEF RebasedCoursePlan
  <2> QED BY <1>6, <1>7, <2>1 DEF PlanPaths
<1>8. CASE t.coursePlan # NoPlan
  <2>1. plan = [t.coursePlan EXCEPT !.artifacts = [i \in DOMAIN @ |-> Rebased(@[i], base)]]
    BY <1>8 DEF RebasedCoursePlan
  <2> DEFINE moved == [i \in DOMAIN listed |-> Rebased(listed[i], base)]
  <2>2. plan.artifacts = moved
    BY <1>5, <1>8, <2>1
  <2>3. {v.path : v \in Elems(plan.artifacts)} \subseteq {v.path : v \in Elems(listed)}
    <3>1. ASSUME NEW i \in DOMAIN listed
          PROVE  moved[i].path = listed[i].path
      BY <1>5, <1>8, RebasedPath
    <3>2. DOMAIN moved = DOMAIN listed
      OBVIOUS
    <3> HIDE DEF moved, listed
    <3>3. \A v \in Elems(moved) : \E i \in DOMAIN listed : v = moved[i]
      BY <3>2 DEF Elems
    <3>4. \A i \in DOMAIN listed : listed[i] \in Elems(listed)
      BY DEF Elems
    <3>5. ASSUME NEW v \in Elems(moved)
          PROVE  v.path \in {w.path : w \in Elems(listed)}
      <4>1. PICK i \in DOMAIN listed : v = moved[i]
        BY <3>3
      <4> QED BY <3>1, <3>4, <4>1
    <3> QED BY <2>2, <3>5
  <2> HIDE DEF plan, moved
  <2> QED BY <1>6, <1>8, <2>3 DEF PlanPaths
<1> QED BY <1>6, <1>7, <1>8

\* Every record of a rebased database owns what its original owned.
LEMMA RebasedOwned ==
    ASSUME NEW db, WellFormed(db), NEW base
    PROVE  Owned(RebasedDatabase(db, base)) \subseteq Owned(db)
<1> DEFINE under == RebasedDatabase(db, base)
           OfJob(j) == {<<v.path, JobOwner(j)>> : v \in JobValues(j)}
                         \cup {<<Audio(j), JobOwner(j)>>}
           OfAssets(d) == {<<a.stored.path, AssetOwner(a)>> : a \in d.assets}
<1>1. \A d : Owned(d) = (UNION {OfJob(j) : j \in d.jobs}) \cup OfAssets(d)
  BY DEF Owned
<1>2. ASSUME NEW x \in under.jobs
      PROVE  \E j \in db.jobs : OfJob(x) \subseteq OfJob(j)
  <2>1. PICK j \in db.jobs :
          /\ x.id = j.id /\ x.course = j.course
          /\ x.video = Rebased(j.video, base) /\ StoredPath(j.video)
          /\ j.transcript = NoValue => x.transcript = NoValue
          /\ j.transcript # NoValue => /\ x.transcript = Rebased(j.transcript, base)
                                       /\ StoredPath(j.transcript)
    BY RebasedJob
  <2>2. JobOwner(x) = JobOwner(j) /\ Audio(x) = Audio(j)
    BY <2>1 DEF JobOwner, Audio
  <2>3. ASSUME NEW v \in JobValues(x)
        PROVE  \E w \in JobValues(j) : v.path = w.path
    <3>1. x.video.path = j.video.path
      BY <2>1, RebasedPath
    <3>2. j.transcript # NoValue => x.transcript.path = j.transcript.path
      BY <2>1, RebasedPath
    <3> QED BY <2>1, <3>1, <3>2 DEF JobValues
  <2> QED BY <2>2, <2>3
<1>3. OfAssets(under) \subseteq OfAssets(db)
  <2>1. ASSUME NEW x \in under.assets
        PROVE  \E a \in db.assets :
                 x.stored.path = a.stored.path /\ AssetOwner(x) = AssetOwner(a)
    BY RebasedAsset, RebasedPath DEF AssetOwner
  <2> QED BY <2>1
<1> HIDE DEF OfJob, OfAssets, under
<1>4. Owned(under) \subseteq Owned(db)
  BY <1>1, <1>2, <1>3
<1> QED BY <1>4 DEF under

\* The checks of an import are enough: what it extracts and rebases is sound,
\* with or without its audio (_validate_archive against SoundWorkspace).
LEMMA ImportedIsSound ==
    ASSUME NEW a, ValidArchive(a), WellFormed(a.db), NEW files,
           \A p \in Extracted(a) :
              p.root \in {"uploads", "transcripts", "sources"} => p \in files
    PROVE  SoundWorkspace(RebasedDatabase(a.db, DataDir), files)
<1> DEFINE db == a.db
           base == a.manifest.base
           paths == ArchivePaths(a)
           under == RebasedDatabase(db, DataDir)
<1>1. ValidReferences(db, base, paths)
  BY DEF ValidArchive
<1>2. ASSUME NEW p \in paths, p.root \in {"uploads", "transcripts", "sources"}
      PROVE  p \in files
  <2>1. p # Database
    BY <1>2 DEF Database, File
  <2> QED BY <1>2, <2>1 DEF Extracted
<1>3. ASSUME NEW v \in Values(under)
      PROVE  v.base = DataDir /\ v.path \in files
  <2>1. CASE \E x \in under.jobs : v \in JobValues(x)
    <3>1. PICK x \in under.jobs : v \in JobValues(x)
      BY <2>1
    <3>2. PICK j \in db.jobs :
            /\ x.video = Rebased(j.video, DataDir) /\ StoredPath(j.video)
            /\ j.transcript = NoValue => x.transcript = NoValue
            /\ j.transcript # NoValue => /\ x.transcript = Rebased(j.transcript, DataDir)
                                         /\ StoredPath(j.transcript)
      BY RebasedJob
    <3>3. ValidJob(j, base, paths)
      BY <1>1 DEF ValidReferences
    <3>4. CASE v = x.video
      <4>1. v.base = DataDir /\ v.path = j.video.path
        BY <3>2, <3>4, RebasedPath
      <4>2. v.path \in paths /\ v.path.root = "uploads"
        BY <3>3, <4>1 DEF ValidJob, InRoot
      <4> QED BY <1>2, <4>1, <4>2
    <3>5. CASE v # x.video
      <4>1. x.transcript # NoValue /\ v = x.transcript
        BY <3>1, <3>5 DEF JobValues
      <4>2. j.transcript # NoValue
        BY <3>2, <4>1
      <4>3. v.base = DataDir /\ v.path = j.transcript.path
        BY <3>2, <4>1, <4>2, RebasedPath
      <4>4. v.path \in paths /\ v.path.root = "transcripts"
        BY <3>3, <4>2, <4>3 DEF ValidJob, InRoot
      <4> QED BY <1>2, <4>3, <4>4
    <3> QED BY <3>4, <3>5
  <2>2. CASE \E x \in under.assets : v = x.stored
    <3>1. PICK x \in under.assets : v = x.stored
      BY <2>2
    <3>2. PICK t \in db.assets : x.stored = Rebased(t.stored, DataDir) /\ StoredPath(t.stored)
      BY RebasedAsset
    <3>3. v.base = DataDir /\ v.path = t.stored.path
      BY <3>1, <3>2, RebasedPath
    <3>4. v.path \in paths /\ v.path.root = "sources"
      BY <1>1, <3>3 DEF ValidReferences, ValidAsset, InRoot
    <3> QED BY <1>2, <3>3, <3>4
  <2> QED BY <2>1, <2>2 DEF Values
<1> DEFINE owns == Owned(db)
<1>4. Owned(under) \subseteq owns
  BY RebasedOwned
<1>5. \A x, y \in owns : x[2] # y[2] => Key(x[1]) # Key(y[1])
  BY <1>1 DEF ValidReferences, OneOwnerPerKey
<1>6. ASSUME NEW row \in db.trash, NEW x \in owns, x[1] \in PlanPaths(row)
      PROVE  \/ row.type = "course" /\ x[2].course = row.entity
             \/ row.type = x[2].type /\ row.entity = x[2].id
  <2>1. /\ row.coursePlan # NoPlan => ValidCoursePlan(row, base)
        /\ EntityClaimSound(row, db) /\ CourseClaimSound(row, db)
    BY <1>1 DEF ValidReferences, ValidTrash
  <2>2. CASE row.entityPlan # NoPlan /\ x[1] \in Elems(row.entityPlan.artifacts)
    <3>1. x[2] = PlanOwner(row)
      <4>1. Key(x[1]) \in {Key(p) : p \in Elems(row.entityPlan.artifacts)}
        BY <2>2
      <4> QED BY <2>1, <2>2, <4>1 DEF EntityClaimSound
    <3> QED BY <3>1 DEF PlanOwner
  <2>3. CASE row.coursePlan # NoPlan /\ x[1] \in {v.path : v \in Elems(row.coursePlan.artifacts)}
    <3>1. x[2].course = row.entity
      <4>1. Key(x[1]) \in {Key(v.path) : v \in Elems(row.coursePlan.artifacts)}
        BY <2>3
      <4> QED BY <2>1, <2>3, <4>1 DEF CourseClaimSound
    <3>2. row.type = "course"
      BY <2>1, <2>3 DEF ValidCoursePlan
    <3> QED BY <3>1, <3>2
  <2> QED BY <1>6, <2>2, <2>3 DEF PlanPaths
<1>7. ASSUME NEW row \in under.trash, NEW x \in Owned(under), x[1] \in PlanPaths(row)
      PROVE  \/ row.type = "course" /\ x[2].course = row.entity
             \/ row.type = x[2].type /\ row.entity = x[2].id
  <2>1. PICK t \in db.trash : /\ row.type = t.type /\ row.entity = t.entity
                              /\ PlanPaths(row) \subseteq PlanPaths(t)
    BY RebasedTrash
  <2>2. x \in owns /\ x[1] \in PlanPaths(t)
    BY <1>4, <1>7, <2>1
  <2> QED BY <1>6, <2>1, <2>2
<1> HIDE DEF under, owns
<1>8. SoundWorkspace(under, files)
  BY <1>3, <1>4, <1>5, <1>7 DEF SoundWorkspace
<1> QED BY <1>8 DEF under

----------------------------------------------------------------------------
(***************************************************************************)
(* The invariant holds at the start and is kept by every step.             *)
(***************************************************************************)

\* A process that is killed by the shell dies without a fault of its own.
Killed == Die /\ UNCHANGED <<disk, backups, chosen, faults>>

\* What a valid archive brings is an item.
LEMMA ContentTyped ==
    ASSUME Types, NEW id \in Ids, chosen[id] # NoValue, NEW p
    PROVE  Content(id, p) \in Items /\ Content(id, p).of = id
<1>1. id \in 0..MaxRestores
  BY WorkspaceRestoreAssumption DEF Ids
<1>2. chosen[id] \in Valid
  BY <1>1 DEF Types
<1>3. Archives[chosen[id]].db.schema \in 0..Latest
  BY <1>2 DEF Valid, ValidArchive, ValidManifest
<1>4. 0 \in 0..Latest
  BY WorkspaceArchiveAssumption
<1> QED BY <1>1, <1>3, <1>4 DEF Content, Items

\* The next restore has a number of its own.
LEMMA NewIdTyped ==
    /\ NewId \in Nat \ {0}
    /\ IsFiniteSet({id \in Ids : chosen[id] # NoValue})
<1>1. IsFiniteSet(Ids)
  BY FS_Interval, WorkspaceRestoreAssumption DEF Ids
<1>2. IsFiniteSet({id \in Ids : chosen[id] # NoValue})
  BY <1>1, FS_Subset
<1> QED BY <1>2, FS_CardinalityType DEF NewId

\* The places a process goes to.
LEMMA DownTyped ==
    /\ Down \in Processes
    /\ \A pc \in Places : [Down EXCEPT !.pc = pc] \in Processes
<1>1. Down \in Processes
  BY WorkspaceRestoreAssumption DEF Down, Places, Processes
<1> QED BY <1>1 DEF Processes

LEMMA GotoTyped ==
    ASSUME proc \in Processes, NEW pc \in Places, Goto(pc)
    PROVE  /\ proc' \in Processes
           /\ proc'.pc = pc /\ proc'.i = 1 /\ ~proc'.failed
           /\ proc'.staging = proc.staging /\ proc'.after = proc.after
<1>1. /\ proc = [pc |-> proc.pc, i |-> proc.i, staging |-> proc.staging,
                 failed |-> proc.failed, after |-> proc.after]
      /\ proc.staging \in 0..MaxRestores /\ proc.after \in {"none", "init", "serving"}
  BY DEF Processes
<1>2. proc' = [pc |-> pc, i |-> 1, staging |-> proc.staging,
               failed |-> FALSE, after |-> proc.after]
  BY <1>1 DEF Goto
<1> QED BY <1>1, <1>2 DEF Processes

LEMMA WInit == Init => WInv
<1> SUFFICES ASSUME Init PROVE WInv
  OBVIOUS
<1>1. PICK missing \in {{}, {"audio"}} :
        live = [p \in PartSet |->
                  IF p \in Elems(Sidecars) \cup missing THEN Nothing
                  ELSE [of |-> 0, schema |-> IF p = "database" THEN Latest ELSE 0]]
  BY DEF Init
<1>2. /\ [of |-> 0, schema |-> Latest] \in Items /\ [of |-> 0, schema |-> 0] \in Items
      /\ Nothing \in Items
  BY WorkspaceRestoreAssumption, WorkspaceArchiveAssumption DEF Items
<1>3. live \in [PartSet -> Items] /\ Empty \in [PartSet -> Items]
  BY <1>1, <1>2 DEF Empty
<1>4. Original \in Valid /\ Original # NoValue
  BY WorkspaceRestoreAssumption DEF Valid, Names
<1>5. 1 \in Generations /\ 0 \in 0..MaxRestores /\ 0 \in 0..MaxFaults
  BY WorkspaceRestoreAssumption DEF Generations
<1>6. Types
  BY <1>3, <1>4, <1>5 DEF Init, Types, Markers, Receipts, Processes, Places, Down
<1>7. /\ \A id \in Ids : chosen[id] = NoValue
      /\ chosen[0] = Original
  BY WorkspaceRestoreAssumption DEF Init, Ids
<1>8. NewId = 1
  <2>1. {id \in Ids : chosen[id] # NoValue} = {}
    BY <1>7
  <2> QED BY <2>1, FS_EmptySet DEF NewId
<1>9. Books
  <2>1. \A id \in Ids : ~(id < 1)
    BY WorkspaceRestoreAssumption DEF Ids
  <2> QED BY <1>7, <1>8, <2>1 DEF Books, Numbered, Init, Absent, Whole
<1>10. Place /\ Migrated
  BY DEF Init, Place, Migrated, Down, At
<1>11. Settled
  <2>1. Of = 0
    BY <1>1, PartKinds DEF Of, Restored
  <2>2. \A p \in PartSet : Present(live[p]) => live[p].of = 0
    BY <1>1 DEF Present
  <2>3. \A r \in Elems(Roots) \ {"audio"} : Present(live[r])
    <3>1. \A r \in Elems(Roots) \ {"audio"} : live[r] = [of |-> 0, schema |-> 0]
      BY <1>1, PartKinds DEF Restored
    <3> QED BY <3>1, <1>2, <1>5, ItemFacts
  <2> QED BY <1>4, <1>5, <1>7, <2>1, <2>2, <2>3
      DEF Settled, Coherent, IsContent, Told, Init, Absent, Whole
<1>12. InSwap /\ Undoing /\ Finalizing
  BY DEF Init, InSwap, Undoing, Finalizing, Absent, Swapping
<1> QED BY <1>6, <1>9, <1>10, <1>11, <1>12 DEF WInv

\* A queued restore has a fresh number, and is of an archive that is valid.
LEMMA QueueTyped ==
    ASSUME Types, NEW a \in DOMAIN Archives, MayQueue(a)
    PROVE  /\ a \in Valid /\ NewId \in Ids /\ NewId \in 0..MaxRestores
           /\ [chosen EXCEPT ![NewId] = a] \in [0..MaxRestores -> Valid \cup {NoValue}]
           /\ [id |-> NewId, phase |-> "queued", generation |-> generation] \in Markers
<1>1. NewId \in Ids /\ a \in Valid
  BY DEF MayQueue
<1>2. NewId \in 0..MaxRestores
  BY <1>1, WorkspaceRestoreAssumption DEF Ids
<1> QED BY <1>1, <1>2 DEF Types, Markers

\* What a file that can be read holds.
LEMMA WholeFiles ==
    ASSUME Types
    PROVE  /\ Whole(marker) => /\ marker.id \in Ids /\ marker.phase = "queued"
                               /\ marker.generation \in Generations
           /\ Whole(receipt) =>
                receipt \in [id : Ids, generation : Generations, had : [PartSet -> BOOLEAN],
                             phase : Swapping \cup {"finalizing", "rollback_finalizing"}]
           /\ ~Whole(marker) => marker \in {Absent, Torn}
           /\ ~Whole(receipt) => receipt \in {Absent, Torn}
           /\ marker = Absent \/ marker = Torn => ~Whole(marker)
           /\ receipt = Absent \/ receipt = Torn => ~Whole(receipt)
  BY DEF Types, Markers, Receipts, Whole, Absent, Torn, Swapping

\* While no receipt can be read, the workspace is that of an accepted archive.
LEMMA SettledContent ==
    ASSUME WInv, ~Whole(receipt)
    PROVE  /\ Of \in 0..MaxRestores /\ chosen[Of] \in Valid /\ chosen[Of] \in Names
           /\ chosen[Of] # NoValue
<1>1. Of \in 0..MaxRestores /\ chosen[Of] # NoValue
  BY DEF WInv, Settled, Coherent, IsContent
<1>2. chosen[Of] \in Valid
  BY <1>1 DEF WInv, Types
<1> QED BY <1>1, <1>2 DEF Valid

LEMMA RequestTypes ==
    ASSUME WInv, Request
    PROVE  Types'
<1>1. Types
  BY DEF WInv
<1>2. CASE CreateBackup
  <2>1. receipt = Absent
    BY <1>2 DEF CreateBackup, WInv, Place, Fresh
  <2>2. chosen[live["database"].of] \in Names
    BY <2>1, WholeFiles, <1>1, SettledContent DEF Of
  <2> QED BY <1>1, <1>2, <2>2 DEF CreateBackup, Types, disk
<1>3. CASE Cancel
  <2>1. marker.id \in 0..MaxRestores /\ marker.generation \in Generations
    BY <1>1, <1>3, WholeFiles, WorkspaceRestoreAssumption DEF Cancel, Ids
  <2>2. Absent \in Markers
    BY DEF Markers
  <2> QED BY <1>1, <1>3, <2>1, <2>2 DEF Cancel, Outcome, Types
<1>4. CASE Stop
  <2>1. live' \in [PartSet -> Items]
    BY <1>1, <1>4, ItemFacts DEF Stop, Types
  <2> QED BY <1>1, <1>4, <2>1, DownTyped DEF Stop, Die, Types
<1>5. CASE \E a \in DOMAIN Archives : Import(a)
  BY <1>1, <1>5 DEF Import, Valid, Types, disk
<1>6. CASE \E a \in DOMAIN Archives : Queue(a)
  <2>1. PICK a \in DOMAIN Archives : Queue(a)
    BY <1>6
  <2>2. /\ NewId \in Ids
        /\ [chosen EXCEPT ![NewId] = a] \in [0..MaxRestores -> Valid \cup {NoValue}]
        /\ [id |-> NewId, phase |-> "queued", generation |-> generation] \in Markers
    BY <1>1, <2>1, QueueTyped DEF Queue
  <2> HIDE DEF NewId
  <2> QED BY <1>1, <2>1, <2>2 DEF Queue, Types
<1> QED BY <1>2, <1>3, <1>4, <1>5, <1>6 DEF Request

LEMMA FailureTypes ==
    ASSUME WInv, Failure
    PROVE  Types'
<1>1. Types /\ faults' \in 0..MaxFaults /\ Absent \in Markers /\ Torn \in Markers
      /\ Absent \in Receipts /\ Torn \in Receipts
  <2>1. Types
    BY DEF WInv
  <2>2. Fault
    BY DEF Failure, CancelCutShort, PrepareTorn, PrepareFailsCutShort, SwapFails,
           InitFails, Crash, QueueTorn
  <2>3. faults' \in 0..MaxFaults
    BY <2>1, <2>2, WorkspaceRestoreAssumption DEF Fault, Types
  <2> QED BY <2>1, <2>3 DEF Markers, Receipts
<1>2. Down \in Processes
  BY DownTyped
<1>3. CASE CancelCutShort
  BY <1>1, <1>2, <1>3 DEF CancelCutShort, Die, Types
<1>4. CASE PrepareTorn
  BY <1>1, <1>2, <1>4 DEF PrepareTorn, Die, Types
<1>5. CASE PrepareFailsCutShort
  BY <1>1, <1>2, <1>5 DEF PrepareFailsCutShort, Die, Types
<1>6. CASE SwapFails
  <2>1. proc' \in Processes
    <3>1. Goto("unwind") /\ "unwind" \in Places /\ proc \in Processes
      BY <1>1, <1>6 DEF SwapFails, Places, Types
    <3> QED BY <3>1, GotoTyped
  <2> QED BY <1>1, <1>6, <2>1 DEF SwapFails, Types, disk
<1>7. CASE InitFails
  <2>1. CASE proc.staging = 0
    BY <1>1, <1>2, <1>7, <2>1 DEF InitFails, Die, Types
  <2>2. CASE proc.staging # 0
    <3>1. receipt.phase = "swapped"
      BY <1>7, <2>2 DEF InitFails, WInv, Place, Opening, Fresh
    <3>2. receipt' \in Receipts
      BY <1>1, <1>7, <2>2, <3>1 DEF InitFails, Types, Receipts, Absent, Torn, Swapping
    <3>3. proc' \in Processes
      BY <1>7, <2>2, DownTyped DEF InitFails, Places
    <3> QED BY <1>1, <1>7, <3>2, <3>3 DEF InitFails, Types
  <2> QED BY <2>1, <2>2
<1>8. CASE Crash
  BY <1>1, <1>2, <1>8 DEF Crash, Die, Types, disk
<1>9. CASE \E a \in DOMAIN Archives : QueueTorn(a)
  <2>1. PICK a \in DOMAIN Archives : QueueTorn(a)
    BY <1>9
  <2>2. /\ NewId \in Ids
        /\ [chosen EXCEPT ![NewId] = a] \in [0..MaxRestores -> Valid \cup {NoValue}]
    BY <1>1, <2>1, QueueTyped DEF QueueTorn
  <2> HIDE DEF NewId
  <2>3. proc' \in {proc, Down}
    BY <2>1 DEF QueueTorn
  <2> QED BY <1>1, <1>2, <2>1, <2>2, <2>3 DEF QueueTorn, Types
<1> QED BY <1>3, <1>4, <1>5, <1>6, <1>7, <1>8, <1>9 DEF Failure

\* The part a swap or a rollback is at.
LEMMA SwapAt ==
    ASSUME WInv
    PROVE  /\ proc.pc \in {"out", "in"} =>
                proc.i \in DOMAIN Parts /\ Parts[proc.i] \in PartSet
           /\ proc.pc \in {"unwind", "rollback"} /\ proc.i <= Len(Parts) =>
                proc.i \in DOMAIN Parts /\ RollbackOrder[proc.i] \in PartSet
           /\ proc.pc \in {"out", "in", "check", "unwind", "rollback", "undone",
                           "commit", "finalize"} => Whole(receipt)
<1>1. ASSUME proc.pc \in {"out", "in"}
      PROVE  proc.i \in DOMAIN Parts
  <2>1. receipt.phase \in Swapping
    BY <1>1 DEF WInv, Place, Swapping
  <2>2. PICK c \in 0..MaxRestores : Transaction(c)
    BY <2>1 DEF WInv, InSwap
  <2> QED BY <1>1, <2>2 DEF Transaction, Progress
<1>2. proc.i \in Nat \ {0}
  BY DEF WInv, Types, Processes
<1>3. proc.i <= Len(Parts) => proc.i \in DOMAIN Parts
  BY <1>2, PartsFacts
<1>4. proc.pc \in {"out", "in", "check", "unwind", "rollback", "undone", "commit", "finalize"}
        => Whole(receipt)
  BY DEF WInv, Place, Whole, At
<1> QED BY <1>1, <1>3, <1>4, PartsFacts

\* The next position of a process.
LEMMA Advanced ==
    ASSUME NEW q \in Processes
    PROVE  LET next == [q EXCEPT !.i = @ + 1]
               failing == [q EXCEPT !.i = @ + 1, !.failed = TRUE]
           IN /\ next \in Processes /\ failing \in Processes
              /\ next.pc = q.pc /\ next.i = q.i + 1 /\ next.failed = q.failed
              /\ next.staging = q.staging /\ next.after = q.after
              /\ failing.pc = q.pc /\ failing.i = q.i + 1 /\ failing.failed
              /\ failing.staging = q.staging /\ failing.after = q.after
<1>1. PICK n \in Nat \ {0} : q.i = n
  BY DEF Processes
<1>2. n + 1 \in Nat \ {0}
  BY <1>1
<1> DEFINE m == n + 1
<1>3. m \in Nat \ {0} /\ q.i + 1 = m
  BY <1>1, <1>2
<1> HIDE DEF m
<1>4. [q EXCEPT !.i = @ + 1] = [q EXCEPT !.i = m]
  BY <1>3
<1>5. [q EXCEPT !.i = @ + 1, !.failed = TRUE] = [q EXCEPT !.i = m, !.failed = TRUE]
  BY <1>3
<1>6. /\ [q EXCEPT !.i = m] \in Processes /\ [q EXCEPT !.i = m, !.failed = TRUE] \in Processes
      /\ [q EXCEPT !.i = m].i = m /\ [q EXCEPT !.i = m, !.failed = TRUE].i = m
  BY <1>3 DEF Processes
<1> QED BY <1>3, <1>4, <1>5, <1>6 DEF Processes

\* A part put back is a part.
LEMMA PutBackTyped ==
    ASSUME Types, NEW p \in PartSet, NEW displace, PutBack(p, displace)
    PROVE  /\ live' \in [PartSet -> Items] /\ kept' \in [PartSet -> Items]
           /\ proc' \in Processes /\ faults' \in 0..MaxFaults
<1>1. /\ [proc EXCEPT !.i = @ + 1] \in Processes
      /\ [proc EXCEPT !.i = @ + 1, !.failed = TRUE] \in Processes
  <2>1. proc \in Processes
    BY DEF Types
  <2> QED BY <2>1, Advanced
<1>2. Fault => faults' \in 0..MaxFaults
  BY WorkspaceRestoreAssumption DEF Fault, Types
<1>3. /\ live[p] \in Items /\ kept[p] \in Items /\ Nothing \in Items
  BY ItemFacts DEF Types
<1> QED BY <1>1, <1>2, <1>3 DEF PutBack, Types, NextStep

LEMMA StartupTypes ==
    ASSUME WInv, Startup
    PROVE  Types'
<1>1. Types /\ Absent \in Markers /\ Absent \in Receipts /\ Nothing \in Items
  BY ItemFacts DEF WInv, Markers, Receipts
<1>2. Empty \in [PartSet -> Items]
  BY <1>1 DEF Empty
<1>3. CASE Start
  <2>1. StartPc \in Places
    BY DEF StartPc, Places
  <2>2. receipt.phase = "swapped" => receipt.id \in 0..MaxRestores
    BY <1>1, WorkspaceRestoreAssumption DEF Types, Receipts, Absent, Torn, Ids
  <2>3. proc' = [pc |-> StartPc, i |-> 1, failed |-> FALSE, after |-> "init",
                 staging |-> IF receipt.phase = "swapped" THEN receipt.id ELSE 0]
    BY <1>3 DEF Start, Down
  <2>4. proc' \in Processes
    BY <2>1, <2>2, <2>3, WorkspaceRestoreAssumption DEF Processes
  <2> QED BY <1>1, <1>3, <2>4 DEF Start, Types, disk
<1>4. CASE Prepare
  <2>1. receipt = Absent /\ Whole(marker) /\ marker.id \in Ids /\ marker.generation \in Generations
    BY <1>1, <1>4, WholeFiles DEF Prepare, WInv, Place, Fresh
  <2>2. chosen[live["database"].of] \in Names
    BY <1>1, <2>1, WholeFiles, SettledContent DEF Of
  <2>3. chosen[marker.id] # NoValue
    BY <2>1 DEF WInv, Books
  <2>4. staged' \in [PartSet -> Items]
    BY <1>1, <1>4, <2>1, <2>3, ContentTyped DEF Prepare
  <2>5. Receipt("swapping") \in Receipts
    BY <2>1 DEF Receipt, Receipts, Swapping, Present
  <2>6. proc' \in Processes
    <3>1. Goto("out") /\ "out" \in Places /\ proc \in Processes
      BY <1>1, <1>4 DEF Prepare, Places, Types
    <3> QED BY <3>1, GotoTyped
  <2> QED BY <1>1, <1>2, <1>4, <2>2, <2>4, <2>5, <2>6 DEF Prepare, Types
<1>5. CASE SwapOut
  <2>1. PICK p \in PartSet : p = Parts[proc.i]
    BY <1>5, SwapAt DEF SwapOut, At
  <2>2. proc' \in Processes
    BY <1>1, <1>5 DEF SwapOut, Types, Processes, Places
  <2> QED BY <1>1, <1>5, <2>1, <2>2 DEF SwapOut, Types
<1>6. CASE SwapIn
  <2>1. PICK p \in PartSet : p = Parts[proc.i]
    BY <1>6, SwapAt DEF SwapIn, At
  <2>2. proc' \in Processes
    <3>1. [proc EXCEPT !.pc = "check"] \in Processes
      BY <1>1 DEF Types, Processes, Places
    <3>2. [proc EXCEPT !.pc = "out", !.i = @ + 1] \in Processes
      <4> DEFINE q == [proc EXCEPT !.pc = "out"]
      <4>1. q \in Processes /\ [q EXCEPT !.i = @ + 1] \in Processes
        BY <1>1, Advanced DEF Types, Processes, Places
      <4>2. [proc EXCEPT !.pc = "out", !.i = @ + 1] = [q EXCEPT !.i = @ + 1]
        BY <1>1 DEF Types, Processes
      <4> QED BY <4>1, <4>2
    <3> QED BY <1>6, <3>1, <3>2 DEF SwapIn
  <2> QED BY <1>1, <1>6, <2>1, <2>2 DEF SwapIn, Types
<1>7. CASE Swapped
  <2>1. receipt.id \in 0..MaxRestores
    BY <1>1, <1>7, SwapAt, WholeFiles, WorkspaceRestoreAssumption DEF Swapped, At, Ids
  <2>2. receipt' \in Receipts
    BY <1>1, <1>7, SwapAt, WholeFiles DEF Swapped, At, Receipts, Swapping
  <2>3. proc' \in Processes
    BY <1>1, <1>7, <2>1 DEF Swapped, Types, Processes, Places
  <2> QED BY <1>1, <1>7, <2>2, <2>3 DEF Swapped, Types
<1>8. CASE RolledBack
  <2>1. CASE proc.failed
    BY <1>1, <1>8, <2>1, DownTyped DEF RolledBack, Types, Die
  <2>2. CASE ~proc.failed
    <3>1. receipt' \in Receipts
      BY <1>1, <1>8, <2>2, SwapAt, WholeFiles DEF RolledBack, Receipts, Swapping
    <3>2. proc' \in Processes
      <4>1. Goto("undone") /\ "undone" \in Places /\ proc \in Processes
        BY <1>1, <1>8, <2>2 DEF RolledBack, Places, Types
      <4> QED BY <4>1, GotoTyped
    <3> QED BY <1>1, <1>8, <3>1, <3>2 DEF RolledBack, Types
  <2> QED BY <2>1, <2>2
<1>9. CASE Undone
  <2>1. receipt.id \in 0..MaxRestores /\ receipt.generation \in Generations
    BY <1>1, <1>9, SwapAt, WholeFiles, WorkspaceRestoreAssumption DEF Undone, At, Ids
  <2>2. proc' \in Processes
    <3>1. "init" \in Places
      BY DEF Places
    <3> QED BY <1>1, <1>9, <3>1, DownTyped DEF Undone, Types, NextStep, Processes
  <2>3. receipt' \in Receipts
    BY <1>1, <1>9 DEF Undone, Types
  <2>4. result' \in [id : 0..MaxRestores, generation : Generations,
                     status : {"none", "applied", "failed", "canceled"}]
    BY <1>1, <1>9, <2>1 DEF Undone, Types, Outcome
  <2> QED BY <1>1, <1>2, <1>9, <2>2, <2>3, <2>4 DEF Undone, Types
<1>10. CASE InitDb
  <2>1. /\ live["database"].of \in 0..MaxRestores
        /\ [live["database"] EXCEPT !.schema = Latest] \in Items
        /\ [of |-> live["database"].of, schema |-> 0] \in Items
    <3>1. receipt = Absent \/ receipt.phase = "swapped"
      BY <1>10 DEF InitDb, WInv, Place, Opening, Fresh, At
    <3>2. live["database"].of \in 0..MaxRestores
      BY <1>1, <3>1, WholeFiles DEF WInv, Settled, InSwap, Swapping, Coherent, IsContent, Of
    <3>3. live["database"] \in Items
      BY <1>1, PartKinds DEF Types
    <3>4. live["database"] = [of |-> live["database"].of, schema |-> live["database"].schema]
      BY <3>3 DEF Items, Nothing
    <3> QED BY <3>2, <3>4, WorkspaceArchiveAssumption DEF Items
  <2>2. live' \in [PartSet -> Items]
    BY <1>1, <1>10, <2>1 DEF InitDb, Types
  <2>3. proc' \in Processes
    <3>1. Goto("recover") /\ "recover" \in Places /\ proc \in Processes
      BY <1>1, <1>10 DEF InitDb, Places, Types
    <3> QED BY <3>1, GotoTyped
  <2> QED BY <1>1, <1>10, <2>2, <2>3 DEF InitDb, Types
<1>11. CASE Recovered
  <2>1. proc' \in Processes
    <3>1. proc \in Processes /\ "serving" \in Places /\ "commit" \in Places
      BY <1>1 DEF Places, Types
    <3>2. \E pc \in Places : Goto(pc)
      BY <1>11, <3>1 DEF Recovered
    <3> QED BY <3>1, <3>2, GotoTyped
  <2> QED BY <1>1, <1>11, <2>1 DEF Recovered, Types, disk
<1>12. CASE Commit
  <2>1. receipt' \in Receipts
    BY <1>1, <1>12, SwapAt, WholeFiles DEF Commit, At, Receipts
  <2>2. proc' \in Processes
    <3>1. proc' = [pc |-> "finalize", i |-> 1, staging |-> 0, failed |-> FALSE,
                   after |-> "serving"]
      BY <1>12 DEF Commit, Down
    <3> QED BY <3>1, WorkspaceRestoreAssumption DEF Processes, Places
  <2> QED BY <1>1, <1>12, <2>1, <2>2 DEF Commit, Types
<1>13. CASE Finalize
  <2>1. /\ receipt.id \in 0..MaxRestores
        /\ receipt.generation + 1 \in Generations
    <3>1. Whole(receipt)
      BY <1>13, SwapAt DEF Finalize, At
    <3>2. receipt.id \in Ids /\ receipt.generation \in Generations
      BY <1>1, <3>1, WholeFiles
    <3>3. receipt.generation <= receipt.id
      BY <3>1 DEF WInv, Books
    <3> QED BY <3>2, <3>3, WorkspaceRestoreAssumption DEF Ids, Generations
  <2>2. proc' \in Processes
    <3>1. proc.after \in {"init", "serving"} /\ proc.after \in Places
      BY <1>13 DEF Finalize, WInv, Place, Places
    <3> QED BY <1>1, <1>13, <3>1, DownTyped, SMTT(30) DEF Finalize, Types, NextStep, Processes
  <2>3. receipt' \in Receipts
    BY <1>1, <1>13 DEF Finalize, Types
  <2>4. result' \in [id : 0..MaxRestores, generation : Generations,
                     status : {"none", "applied", "failed", "canceled"}]
    BY <1>1, <1>13, <2>1 DEF Finalize, Types, Outcome
  <2> QED BY <1>1, <1>2, <1>13, <2>1, <2>2, <2>3, <2>4 DEF Finalize, Types
<1>14. CASE Unwind
  <2>1. PICK p \in PartSet : p = RollbackOrder[proc.i]
    BY <1>14, SwapAt DEF Unwind, At
  <2>2. PICK displace : PutBack(p, displace)
    BY <1>14, <2>1 DEF Unwind
  <2> QED BY <1>1, <1>14, <2>2, PutBackTyped DEF Unwind, Types
<1>15. CASE Rollback
  <2>1. PICK p \in PartSet : p = RollbackOrder[proc.i]
    BY <1>15, SwapAt DEF Rollback, At
  <2>2. PICK displace : PutBack(p, displace)
    BY <1>15, <2>1 DEF Rollback
  <2> QED BY <1>1, <1>15, <2>2, PutBackTyped DEF Rollback, Types
<1>16. CASE PrepareFails
  <2>1. marker.id \in 0..MaxRestores /\ marker.generation \in Generations
    BY <1>1, <1>16, WholeFiles, WorkspaceRestoreAssumption
       DEF PrepareFails, WInv, Place, Ids
  <2>2. proc' \in Processes
    <3>1. Goto("init") /\ "init" \in Places /\ proc \in Processes
      BY <1>1, <1>16 DEF PrepareFails, Places, Types
    <3> QED BY <3>1, GotoTyped
  <2>3. faults' \in 0..MaxFaults
    BY <1>1, <1>16, WorkspaceRestoreAssumption DEF PrepareFails, Fault, Types
  <2> QED BY <1>1, <1>16, <2>1, <2>2, <2>3 DEF PrepareFails, Outcome, Types
<1> QED BY <1>3, <1>4, <1>5, <1>6, <1>7, <1>8, <1>9, <1>10, <1>11, <1>12, <1>13, <1>14,
           <1>15, <1>16 DEF Startup

\* Files only go away, or keep the restore they are about.
SameFiles ==
    /\ chosen' = chosen
    /\ marker' \in {marker, Absent, Torn}
    /\ \/ receipt' \in {receipt, Absent, Torn}
       \/ Whole(receipt) /\ receipt'.id = receipt.id /\ receipt'.generation = receipt.generation

\* Books are kept by what queues nothing and prepares nothing.
LEMMA BooksFrame ==
    ASSUME WInv, SameFiles, generation' \in {generation, receipt.generation + 1},
           generation' # generation => Whole(receipt)
    PROVE  Books'
<1>1. NewId' = NewId
  BY DEF SameFiles, NewId
<1>2. Books /\ Types
  BY DEF WInv
<1> HIDE DEF NewId
<1>3. generation' <= NewId
  <2>1. CASE generation' = generation
    BY <1>2, <2>1 DEF Books
  <2>2. CASE generation' # generation
    <3>1. /\ receipt.id \in Ids /\ receipt.generation \in Generations
          /\ receipt.generation <= receipt.id /\ receipt.id < NewId
      BY <1>2, <2>2, WholeFiles DEF Books, Numbered
    <3>2. receipt.id \in Nat /\ receipt.generation \in Nat
      BY <3>1, WorkspaceRestoreAssumption DEF Ids, Generations
    <3> QED BY <2>2, <3>1, <3>2, NewIdTyped
  <2> QED BY <2>1, <2>2
<1>4. /\ Whole(marker)' => marker' = marker /\ Whole(marker)
      /\ Whole(receipt)' => /\ Whole(receipt) /\ receipt'.id = receipt.id
                            /\ receipt'.generation = receipt.generation
  BY DEF SameFiles, Whole, Absent, Torn
<1>5. Numbered'
  BY <1>1, <1>2 DEF Books, Numbered, SameFiles
<1> QED BY <1>1, <1>2, <1>3, <1>4, <1>5 DEF Books, SameFiles

\* A restore is queued under the next number.
LEMMA QueueBooks ==
    ASSUME WInv, NEW a \in DOMAIN Archives, MayQueue(a),
           chosen' = [chosen EXCEPT ![NewId] = a],
           UNCHANGED <<generation, receipt>>,
           marker' \in {Absent, Torn,
                        [id |-> NewId, phase |-> "queued", generation |-> generation]}
    PROVE  /\ Books'
           /\ \A id \in 0..MaxRestores : chosen[id] # NoValue => chosen'[id] = chosen[id]
           /\ chosen[NewId] = NoValue /\ receipt = Absent
<1> DEFINE n == NewId
           Queued == {id \in Ids : chosen[id] # NoValue}
<1>1. Books /\ Types
  BY DEF WInv
<1>2. n \in Ids /\ n \in 0..MaxRestores /\ n \in Nat \ {0} /\ a # NoValue
  BY <1>1, QueueTyped, NewIdTyped, WorkspaceRestoreAssumption
<1>3. chosen[n] = NoValue
  <2>1. ~(n < n)
    BY <1>2
  <2> QED BY <1>1, <1>2, <2>1 DEF Books, Numbered
<1>4. \A id \in 0..MaxRestores : chosen'[id] = IF id = n THEN a ELSE chosen[id]
  BY <1>1 DEF Types
<1>5. \A id \in Ids : id \in 0..MaxRestores /\ id \in Nat
  BY WorkspaceRestoreAssumption DEF Ids
<1>6. NewId' = n + 1
  <2>1. {id \in Ids : chosen'[id] # NoValue} = Queued \cup {n}
    BY <1>2, <1>4, <1>5
  <2>2. n \notin Queued
    BY <1>3
  <2>3. Cardinality(Queued \cup {n}) = Cardinality(Queued) + 1
    BY <2>2, NewIdTyped, FS_AddElement
  <2>4. NewId' = Cardinality({id \in Ids : chosen'[id] # NoValue}) + 1
    BY DEF NewId
  <2>5. n = Cardinality(Queued) + 1
    BY DEF NewId
  <2> QED BY <2>1, <2>3, <2>4, <2>5
<1>7. receipt = Absent
  BY DEF MayQueue, Pending
<1> HIDE DEF n, Queued, NewId
<1>8. Numbered'
  <2>1. ASSUME NEW id \in Ids
        PROVE  (chosen'[id] # NoValue) <=> (id < n + 1)
    <3>1. CASE id = n
      BY <1>2, <1>4, <1>5, <3>1
    <3>2. CASE id # n
      <4>1. (chosen[id] # NoValue) <=> (id < n)
        BY <1>1 DEF Books, Numbered, n
      <4> QED BY <1>2, <1>4, <1>5, <3>2, <4>1
    <3> QED BY <3>1, <3>2
  <2> QED BY <1>6, <2>1 DEF Numbered
<1>9. generation <= n /\ generation \in Nat
  BY <1>1, WorkspaceRestoreAssumption DEF Books, n, Types, Generations
<1>10. generation' <= NewId'
  BY <1>2, <1>6, <1>9
<1>11. chosen'[0] = Original
  <2>1. 0 \in 0..MaxRestores /\ 0 # n
    BY <1>2, WorkspaceRestoreAssumption
  <2> QED BY <1>1, <1>4, <2>1 DEF Books
<1>12. Whole(marker)' => chosen'[marker'.id] # NoValue /\ marker'.generation <= marker'.id
  <2>1. chosen'[n] = a
    BY <1>2, <1>4
  <2> QED BY <1>2, <1>9, <2>1 DEF Whole, Absent, Torn, n
<1>13. ~Whole(receipt)'
  BY <1>7 DEF Whole, Absent
<1>14. Books'
  BY <1>8, <1>10, <1>11, <1>12, <1>13 DEF Books
<1> QED BY <1>3, <1>4, <1>7, <1>14 DEF n

\* Every step keeps the books.
LEMMA BooksStep ==
    ASSUME WInv, Next \/ Killed
    PROVE  Books'
<1>1. CASE \E a \in DOMAIN Archives : Queue(a) \/ QueueTorn(a)
  <2>1. PICK a \in DOMAIN Archives : Queue(a) \/ QueueTorn(a)
    BY <1>1
  <2>2. /\ MayQueue(a) /\ chosen' = [chosen EXCEPT ![NewId] = a]
        /\ UNCHANGED <<generation, receipt>>
        /\ marker' \in {Absent, Torn,
                        [id |-> NewId, phase |-> "queued", generation |-> generation]}
    BY <2>1 DEF Queue, QueueTorn
  <2> QED BY <2>2, QueueBooks
<1>2. CASE Prepare
  <2>1. receipt = Absent /\ Whole(marker)
    BY <1>2 DEF Prepare, WInv, Place, Fresh
  <2>2. /\ chosen' = chosen /\ marker' = marker /\ generation' = generation
        /\ receipt'.id = marker.id /\ receipt'.generation = marker.generation
    BY <1>2 DEF Prepare, Receipt
  <2>3. NewId' = NewId
    BY <2>2 DEF NewId
  <2> HIDE DEF NewId
  <2> QED BY <2>1, <2>2, <2>3 DEF WInv, Books, Numbered
<1>3. CASE Finalize
  <2>1. Whole(receipt)
    BY <1>3, SwapAt DEF Finalize, At
  <2> QED BY <1>3, <2>1, BooksFrame DEF Finalize, SameFiles
<1>4. CASE \/ CreateBackup \/ Cancel \/ Stop \/ \E a \in DOMAIN Archives : Import(a)
           \/ Start \/ PrepareFails \/ Killed
  BY <1>4, BooksFrame DEF CreateBackup, Cancel, Stop, Import, Start, PrepareFails, Killed,
     SameFiles, disk
<1>5. CASE SwapOut \/ SwapIn \/ InitDb \/ Recovered \/ Unwind \/ Rollback
  BY <1>5, BooksFrame DEF SwapOut, SwapIn, InitDb, Recovered, Unwind, Rollback, SameFiles, disk
<1>6. CASE CancelCutShort \/ PrepareTorn \/ PrepareFailsCutShort \/ SwapFails \/ Crash
  BY <1>6, BooksFrame DEF CancelCutShort, PrepareTorn, PrepareFailsCutShort, SwapFails, Crash,
     SameFiles, disk
<1>7. CASE Swapped \/ RolledBack \/ Undone \/ Commit
  <2>1. Whole(receipt)
    BY <1>7, SwapAt DEF Swapped, RolledBack, Undone, Commit, At
  <2>2. receipt \in [id : Ids, generation : Generations, had : [PartSet -> BOOLEAN],
                     phase : Swapping \cup {"finalizing", "rollback_finalizing"}]
    BY <2>1, WholeFiles DEF WInv
  <2>3. \A phase : /\ [receipt EXCEPT !.phase = phase].id = receipt.id
                   /\ [receipt EXCEPT !.phase = phase].generation = receipt.generation
    BY <2>2
  <2> QED BY <1>7, <2>1, <2>3, BooksFrame DEF Swapped, RolledBack, Undone, Commit, SameFiles
<1>8. CASE InitFails
  <2>1. CASE proc.staging = 0
    BY <1>8, <2>1, BooksFrame DEF InitFails, SameFiles
  <2>2. CASE proc.staging # 0
    <3>1. Whole(receipt)
      BY <1>8, <2>2 DEF InitFails, WInv, Place, Opening, Fresh, Whole
    <3>2. receipt \in [id : Ids, generation : Generations, had : [PartSet -> BOOLEAN],
                       phase : Swapping \cup {"finalizing", "rollback_finalizing"}]
      BY <3>1, WholeFiles DEF WInv
    <3>3. \A phase : /\ [receipt EXCEPT !.phase = phase].id = receipt.id
                     /\ [receipt EXCEPT !.phase = phase].generation = receipt.generation
      BY <3>2
    <3> QED BY <1>8, <2>2, <3>1, <3>3, BooksFrame DEF InitFails, SameFiles
  <2> QED BY <2>1, <2>2
<1> QED BY <1>1, <1>2, <1>3, <1>4, <1>5, <1>6, <1>7, <1>8 DEF Next, Request, Startup, Failure

\* Dying leaves nothing that a place could say.
LEMMA DiedPlace ==
    ASSUME proc' = Down
    PROVE  Place' /\ Migrated'
  BY DEF Place, Migrated, Down, At

\* Every step finds the receipt that its place asks for, and the commit and
\* the requests find the newest schema.
LEMMA PlaceStep ==
    ASSUME WInv, Next \/ Killed
    PROVE  Place' /\ Migrated'
<1> USE DEF Place, Migrated, At
<1>1. Place /\ Migrated /\ Types /\ proc \in Processes
  BY DEF WInv, Types
<1>2. CASE CreateBackup \/ Cancel \/ \E a \in DOMAIN Archives : Import(a) \/ Queue(a)
  BY <1>1, <1>2 DEF CreateBackup, Cancel, Import, Queue, MayQueue, Cancelable, disk, Fresh
<1>3. CASE Stop \/ CancelCutShort \/ PrepareTorn \/ PrepareFailsCutShort \/ Crash \/ Killed
  BY <1>3, DiedPlace DEF Stop, CancelCutShort, PrepareTorn, PrepareFailsCutShort, Crash,
     Killed, Die
<1>4. CASE \E a \in DOMAIN Archives : QueueTorn(a)
  <2>1. CASE proc' = Down
    BY <2>1, DiedPlace
  <2>2. CASE proc' = proc
    BY <1>1, <1>4, <2>2 DEF QueueTorn, MayQueue, Fresh
  <2> QED BY <1>4, <2>1, <2>2 DEF QueueTorn
<1>5. CASE Start
  <2>1. /\ proc'.pc = StartPc /\ proc'.after = "init"
        /\ proc'.staging = IF receipt.phase = "swapped" THEN receipt.id ELSE 0
        /\ UNCHANGED <<live, marker, receipt>>
    BY <1>5 DEF Start, Down, disk
  <2>2. /\ StartPc = "init" => (receipt = Absent /\ marker = Absent) \/ receipt.phase = "swapped"
        /\ StartPc = "prepare" => receipt = Absent /\ Whole(marker)
        /\ StartPc = "rollback" => receipt.phase \in {"swapping", "rolling_back"}
        /\ StartPc = "undone" => receipt.phase = "rollback_finalizing"
        /\ StartPc = "finalize" => receipt.phase = "finalizing"
        /\ StartPc \in {"init", "prepare", "rollback", "undone", "finalize", "down"}
    BY DEF StartPc
  <2> HIDE DEF StartPc
  <2>3. receipt = Absent => receipt.phase # "swapped"
    BY DEF Absent
  <2>4. Migrated'
    BY <2>1, <2>2
  <2>5. Place'
    BY <2>1, <2>2, <2>3 DEF Fresh, Opening, Whole
  <2> QED BY <2>4, <2>5
<1>6. CASE Prepare
  <2>1. Goto("out") /\ "out" \in Places
    BY <1>6 DEF Prepare, Places
  <2>2. proc'.pc = "out"
    BY <1>1, <2>1, GotoTyped
  <2>3. receipt'.phase = "swapping"
    BY <1>6 DEF Prepare, Receipt
  <2> QED BY <2>2, <2>3
<1>7. CASE SwapOut \/ SwapIn
  <2>1. proc'.pc \in {"out", "in", "check"} /\ receipt' = receipt /\ receipt.phase = "swapping"
    BY <1>1, <1>7 DEF SwapOut, SwapIn, Processes
  <2> QED BY <2>1
<1>8. CASE Swapped
  <2>1. Whole(receipt)
    BY <1>8, SwapAt DEF Swapped
  <2>2. receipt'.phase = "swapped" /\ receipt'.id = receipt.id
    BY <1>1, <1>8, <2>1, WholeFiles DEF Swapped
  <2>3. proc'.pc = "init" /\ proc'.staging = receipt.id
    BY <1>1, <1>8 DEF Swapped, Processes
  <2> QED BY <2>2, <2>3 DEF Opening
<1>9. CASE RolledBack
  <2>1. CASE proc.failed
    BY <1>9, <2>1, DiedPlace DEF RolledBack, Die
  <2>2. CASE ~proc.failed
    <3>1. Whole(receipt)
      BY <1>9, SwapAt DEF RolledBack
    <3>2. receipt'.phase = "rollback_finalizing"
      BY <1>1, <1>9, <2>2, <3>1, WholeFiles DEF RolledBack
    <3>3. Goto("undone") /\ "undone" \in Places
      BY <1>9, <2>2 DEF RolledBack, Places
    <3>4. proc'.pc = "undone"
      BY <1>1, <3>3, GotoTyped
    <3> QED BY <3>2, <3>4
  <2> QED BY <2>1, <2>2
<1>10. CASE Undone
  <2>1. CASE proc.i = 5
    <3>1. receipt' = Absent /\ proc'.pc = "init" /\ proc'.staging = 0
      BY <1>10, <2>1 DEF Undone, Down
    <3> QED BY <3>1 DEF Opening, Fresh
  <2>2. CASE proc.i # 5
    <3>1. receipt' = receipt /\ proc'.pc = "undone"
      BY <1>1, <1>10, <2>2, Advanced DEF Undone, NextStep
    <3> QED BY <1>1, <1>10, <3>1 DEF Undone
  <2> QED BY <2>1, <2>2
<1>11. CASE InitDb
  <2>1. Goto("recover") /\ "recover" \in Places
    BY <1>11 DEF InitDb, Places
  <2>2. proc'.pc = "recover" /\ proc'.staging = proc.staging /\ receipt' = receipt
    BY <1>1, <1>11, <2>1, GotoTyped DEF InitDb
  <2>3. live'["database"].schema = Latest
    <3>1. live["database"] \in Items /\ live["database"].of \in 0..MaxRestores + 1
      BY <1>1, PartKinds, ItemFacts DEF Types
    <3>2. live["database"] = [of |-> live["database"].of, schema |-> live["database"].schema]
      BY <3>1 DEF Items, Nothing
    <3>3. live'["database"] = [live["database"] EXCEPT !.schema = Latest]
      BY <1>11, PartKinds DEF InitDb, Restored
    <3> QED BY <3>2, <3>3
  <2> QED BY <1>1, <1>11, <2>2, <2>3 DEF InitDb, Opening, Fresh
<1>12. CASE Recovered
  <2>1. /\ Goto(IF proc.staging = 0 THEN "serving" ELSE "commit")
        /\ (IF proc.staging = 0 THEN "serving" ELSE "commit") \in Places
    BY <1>12 DEF Recovered, Places
  <2>2. /\ proc'.pc = IF proc.staging = 0 THEN "serving" ELSE "commit"
        /\ proc'.staging = proc.staging /\ receipt' = receipt /\ live' = live
    BY <1>1, <1>12, <2>1, GotoTyped DEF Recovered, disk
  <2>3. receipt.phase = "swapped" => receipt.id # 0
    BY <1>1, WholeFiles, WorkspaceRestoreAssumption DEF Whole, Ids
  <2> QED BY <1>1, <1>12, <2>2, <2>3 DEF Recovered, Opening, Fresh
<1>13. CASE Commit
  <2>1. Whole(receipt)
    BY <1>13, SwapAt DEF Commit
  <2>2. receipt'.phase = "finalizing"
    BY <1>1, <1>13, <2>1, WholeFiles DEF Commit
  <2>3. proc'.pc = "finalize" /\ proc'.after = "serving" /\ live' = live
    BY <1>13 DEF Commit, Down
  <2> QED BY <1>1, <1>13, <2>2, <2>3 DEF Commit
<1>14. CASE Finalize
  <2>1. CASE proc.i = 6
    <3>1. /\ receipt' = Absent /\ proc'.pc = proc.after /\ proc'.staging = 0
          /\ proc.after \in {"init", "serving"} /\ live' = live
      BY <1>1, <1>14, <2>1 DEF Finalize, Down
    <3> QED BY <1>1, <1>14, <3>1 DEF Opening, Fresh, Finalize
  <2>2. CASE proc.i # 6
    <3>1. receipt' = receipt /\ proc'.pc = "finalize" /\ proc'.after = proc.after /\ live' = live
      BY <1>1, <1>14, <2>2, Advanced DEF Finalize, NextStep
    <3> QED BY <1>1, <1>14, <3>1 DEF Finalize
  <2> QED BY <2>1, <2>2
<1>15. CASE Unwind \/ Rollback
  <2>1. /\ receipt' = receipt
        /\ \E p, displace : PutBack(p, displace)
        /\ proc.pc \in {"unwind", "rollback"}
    BY <1>15 DEF Unwind, Rollback
  <2>2. proc'.pc = proc.pc
    BY <1>1, <2>1, Advanced DEF PutBack, NextStep
  <2> QED BY <1>1, <2>1, <2>2
<1>16. CASE PrepareFails
  <2>1. Goto("init") /\ "init" \in Places
    BY <1>16 DEF PrepareFails, Places
  <2>2. proc'.pc = "init" /\ proc'.staging = proc.staging /\ receipt' = receipt
    BY <1>1, <1>16, <2>1, GotoTyped DEF PrepareFails
  <2> QED BY <1>1, <1>16, <2>2 DEF PrepareFails, Opening, Fresh
<1>17. CASE SwapFails
  <2>1. Goto("unwind") /\ "unwind" \in Places
    BY <1>17 DEF SwapFails, Places
  <2>2. proc'.pc = "unwind" /\ receipt' = receipt
    BY <1>1, <1>17, <2>1, GotoTyped DEF SwapFails, disk
  <2> QED BY <1>1, <1>17, <2>2 DEF SwapFails
<1>18. CASE InitFails
  <2>1. CASE proc.staging = 0
    BY <1>18, <2>1, DiedPlace DEF InitFails, Die
  <2>2. CASE proc.staging # 0
    <3>1. receipt.phase = "swapped"
      BY <1>1, <1>18, <2>2 DEF InitFails, Opening, Fresh
    <3>2. Whole(receipt)
      BY <3>1 DEF Whole
    <3>3. receipt'.phase = "rolling_back"
      BY <1>1, <1>18, <2>2, <3>2, WholeFiles DEF InitFails
    <3>4. proc'.pc = "rollback"
      BY <1>18, <2>2 DEF InitFails, Down
    <3> QED BY <3>3, <3>4
  <2> QED BY <2>1, <2>2
<1> QED BY <1>2, <1>3, <1>4, <1>5, <1>6, <1>7, <1>8, <1>9, <1>10, <1>11, <1>12, <1>13, <1>14,
           <1>15, <1>16, <1>17, <1>18 DEF Next, Request, Startup, Failure

\* What the invariant says of the workspace and of the transaction.
Contents == Settled /\ InSwap /\ Undoing /\ Finalizing

\* A part is where it was when its contents are.
LEMMA SamePart ==
    ASSUME Types, Types', NEW p \in PartSet, NEW c,
           live'[p].of = live[p].of, staged'[p].of = staged[p].of, kept'[p].of = kept[p].of,
           receipt'.id = receipt.id, receipt'.had = receipt.had
    PROVE  /\ Part(p, c) => Part(p, c)'
           /\ Todo(p, c) => Todo(p, c)'
           /\ Taken(p, c) => Taken(p, c)'
           /\ Done(p, c) => Done(p, c)'
           /\ Undoable(p) => Undoable(p)'
           /\ Home(p, c) => Home(p, c)'
<1>1. /\ live[p] \in Items /\ staged[p] \in Items /\ kept[p] \in Items
      /\ live'[p] \in Items /\ staged'[p] \in Items /\ kept'[p] \in Items
  BY DEF Types
<1>2. /\ Present(live[p])' <=> Present(live[p])
      /\ Present(staged[p])' <=> Present(staged[p])
      /\ Present(kept[p])' <=> Present(kept[p])
  BY <1>1, ItemFacts DEF Present, Nothing
<1>3. Before(p, c)' = Before(p, c) /\ New(p)' = New(p) /\ Nothing' = Nothing
  BY DEF Before, New, Nothing, Restored
<1> QED BY <1>2, <1>3 DEF Part, Todo, Taken, Done, Undoable, Home

\* A process that starts over, or is in no swap, claims nothing.
Resting == \/ proc.pc \in {"down", "prepare", "init", "recover", "commit", "serving"}
           \/ proc.pc \in {"rollback", "undone", "finalize"} /\ proc.i = 1

\* What leaves the workspace and the transaction alone keeps what is said of them.
LEMMA QuietContents ==
    ASSUME WInv, Types', UNCHANGED <<live, staged, kept, result, generation, chosen>>,
           marker' \in {marker, Absent, Torn},
           receipt' = receipt \/ (~Whole(receipt) /\ ~Whole(receipt)'),
           Resting'
    PROVE  Contents'
<1>1. Types /\ Contents /\ proc' \in Processes
  BY DEF WInv, Contents, Types
<1>2. Whole(marker)' => marker' = marker /\ Whole(marker)
  BY DEF Whole, Absent, Torn
<1>3. \A c : /\ Coherent(c) => Coherent(c)'
             /\ Told(c) => Told(c)'
             /\ IsContent(c) => IsContent(c)'
  BY DEF Coherent, Told, IsContent, Of, Present
<1>4. Of' = Of
  BY DEF Of
<1>5. Settled'
  <2>1. ~Whole(receipt)' => ~Whole(receipt)
    BY DEF Whole
  <2> QED BY <1>1, <1>2, <1>3, <1>4, <2>1 DEF Contents, Settled
<1>6. CASE ~Whole(receipt) /\ ~Whole(receipt)'
  <2>1. receipt'.phase \in {"absent", "torn"}
    BY <1>6 DEF Whole
  <2> QED BY <1>5, <2>1 DEF Contents, InSwap, Undoing, Finalizing, Swapping
<1>7. CASE receipt' = receipt
  <2>1. Undoing'
    BY <1>1, <1>3, <1>4, <1>7 DEF Contents, Undoing, Resting, At, Processes, Present
  <2>2. Finalizing'
    BY <1>1, <1>3, <1>7 DEF Contents, Finalizing, Resting, At, Processes
  <2>3. ASSUME NEW c \in 0..MaxRestores, Transaction(c)
        PROVE  Transaction(c)'
    <3>1. \A p \in PartSet : Part(p, c)'
      BY <1>1, <1>7, <2>3, SamePart DEF Transaction
    <3>2. Progress(c)'
      <4>1. proc'.pc \notin {"out", "in", "check", "unwind"}
        BY DEF Resting
      <4>2. proc'.pc = "rollback" => proc'.i = 1
        BY DEF Resting
      <4>3. \A j \in DOMAIN Parts : ~(j < 1)
        BY PartsFacts
      <4> QED BY <4>1, <4>2, <4>3 DEF Progress, At
    <3> QED BY <1>3, <1>7, <2>3, <3>1, <3>2 DEF Transaction
  <2>4. InSwap'
    BY <1>1, <1>3, <1>7, <2>3 DEF Contents, InSwap
  <2> QED BY <1>5, <2>1, <2>2, <2>4 DEF Contents
<1> QED BY <1>6, <1>7

\* Without a receipt that can be read, only the workspace is spoken of.
LEMMA SettledContents ==
    ASSUME Settled', ~Whole(receipt)'
    PROVE  Contents'
  BY DEF Contents, InSwap, Undoing, Finalizing, Swapping, Whole

\* The requests of a backend that serves, and what its death leaves of them.
LEMMA RequestContents ==
    ASSUME WInv, Types',
           Request \/ CancelCutShort \/ \E a \in DOMAIN Archives : QueueTorn(a)
    PROVE  Contents'
<1>1. Types /\ Settled /\ Place
  BY DEF WInv
<1>2. CASE CreateBackup \/ \E a \in DOMAIN Archives : Import(a)
  BY <1>2, QuietContents DEF CreateBackup, Import, disk, Resting, At
<1>3. CASE Cancel
  <2>1. receipt = Absent /\ receipt' = Absent /\ Whole(marker) /\ ~Whole(marker)'
    BY <1>3 DEF Cancel, Cancelable, Whole, Absent
  <2>2. Coherent(Of)' /\ Of' = Of
    BY <1>1, <1>3, <2>1 DEF Cancel, Settled, Coherent, IsContent, Of, Present, Whole, Absent
  <2>3. Told(Of)'
    BY <1>1, <1>3, <2>1 DEF Cancel, Outcome, Settled, Told, Whole, Absent
  <2> QED BY <2>1, <2>2, <2>3, SettledContents DEF Settled, Whole, Absent
<1>4. CASE Stop
  <2>1. receipt = Absent /\ receipt' = receipt /\ marker' = marker
    BY <1>1, <1>4 DEF Stop, Place, Fresh
  <2>2. Coherent(Of)
    BY <1>1, <2>1 DEF Settled, Whole, Absent
  <2>3. \A p \in PartSet : live'[p] = IF Restored(p) THEN live[p] ELSE Nothing
    BY <1>4 DEF Stop, Restored
  <2>4. Of' = Of
    BY <2>3, PartKinds DEF Of
  <2>5. \A p \in PartSet : Present(live'[p]) => Present(live[p]) /\ live'[p] = live[p]
    BY <2>3 DEF Present
  <2>6. \A r \in Elems(Roots) \ {"audio"} : Present(live'[r])
    BY <2>2, <2>3, PartKinds DEF Coherent
  <2>7. Coherent(Of)'
    BY <1>4, <2>2, <2>4, <2>5, <2>6 DEF Stop, Coherent, IsContent, Present
  <2>8. Told(Of)'
    BY <1>1, <1>4, <2>1, <2>4 DEF Stop, Settled, Told, Whole, Absent
  <2> QED BY <1>1, <1>4, <2>1, <2>4, <2>7, <2>8, SettledContents DEF Stop, Settled, Whole, Absent
<1>5. CASE CancelCutShort
  BY <1>5, QuietContents DEF CancelCutShort, Die, Down, Resting
<1>6. CASE \E a \in DOMAIN Archives : Queue(a) \/ QueueTorn(a)
  <2>1. PICK a \in DOMAIN Archives : Queue(a) \/ QueueTorn(a)
    BY <1>6
  <2>2. /\ MayQueue(a) /\ chosen' = [chosen EXCEPT ![NewId] = a]
        /\ UNCHANGED <<live, result, generation, receipt>>
        /\ marker' \in {Absent, Torn,
                        [id |-> NewId, phase |-> "queued", generation |-> generation]}
    BY <2>1 DEF Queue, QueueTorn
  <2>3. /\ \A id \in 0..MaxRestores : chosen[id] # NoValue => chosen'[id] = chosen[id]
        /\ chosen[NewId] = NoValue /\ receipt = Absent
    BY <2>2, QueueBooks
  <2> HIDE DEF NewId
  <2>4. Coherent(Of) /\ Told(Of)
    BY <1>1, <2>3 DEF Settled, Whole, Absent
  <2>5. Coherent(Of)' /\ Told(Of)' /\ Of' = Of
    BY <2>2, <2>3, <2>4 DEF Coherent, IsContent, Told, Of, Present
  <2>6. Whole(marker)' => marker'.generation = generation /\ marker'.id # Of
    <3>1. NewId # Of
      BY <2>3, <2>4 DEF Coherent, IsContent
    <3> QED BY <2>2, <3>1 DEF Whole, Absent, Torn
  <2> QED BY <2>2, <2>3, <2>5, <2>6, SettledContents DEF Settled, Whole, Absent
<1> QED BY <1>2, <1>3, <1>4, <1>5, <1>6 DEF Request

\* Before the swap every part is to do.
LEMMA PrepareContents ==
    ASSUME WInv, Types', Prepare
    PROVE  Contents'
<1>1. /\ Types /\ receipt = Absent /\ Whole(marker) /\ marker.id \in Ids
      /\ marker.generation \in Generations /\ chosen[marker.id] # NoValue
  BY WholeFiles DEF Prepare, WInv, Place, Fresh, Books
<1>2. /\ Coherent(Of) /\ Told(Of) /\ marker.generation = generation /\ marker.id # Of
  BY <1>1 DEF WInv, Settled, Whole, Absent
<1>3. PICK c \in 0..MaxRestores : c = Of
  BY <1>2 DEF Coherent, IsContent
<1>4. /\ live' = live /\ chosen' = chosen /\ result' = result /\ generation' = generation
      /\ kept' = Empty /\ marker' = marker
      /\ staged' = [p \in PartSet |-> IF Restored(p) THEN Content(marker.id, p) ELSE Nothing]
      /\ receipt' = Receipt("swapping")
  BY DEF Prepare
<1>5. /\ receipt'.phase = "swapping" /\ receipt'.id = marker.id
      /\ receipt'.generation = generation
      /\ receipt'.had = [p \in PartSet |-> Present(live[p])]
  BY <1>2, <1>4 DEF Receipt
<1>6. proc'.pc = "out" /\ proc'.i = 1
  <2>1. Goto("out") /\ "out" \in Places /\ proc \in Processes
    BY <1>1 DEF Prepare, Places, Types
  <2> QED BY <2>1, GotoTyped
<1>7. marker.id \in 0..MaxRestores
  BY <1>1, WorkspaceRestoreAssumption DEF Ids
<1>8. ASSUME NEW p \in PartSet
      PROVE  Part(p, c)' /\ Todo(p, c)'
  <2>1. /\ live[p] \in Items /\ live'[p] = live[p] /\ kept'[p] = Nothing
        /\ Present(live[p]) => live[p].of = c
    BY <1>1, <1>2, <1>3, <1>4 DEF Types, Empty, Coherent
  <2>2. /\ Restored(p) => staged'[p] \in Items /\ staged'[p].of = marker.id
        /\ ~Restored(p) => staged'[p] = Nothing
    BY <1>1, <1>4, ContentTyped
  <2>3. receipt'.had[p] = Present(live[p])
    BY <1>5
  <2>4. ~Present(Nothing)
    BY DEF Present
  <2>5. live[p].of = IF Present(live[p]) THEN c ELSE Nothing.of
    BY <2>1, ItemFacts
  <2>6. c # Nothing.of /\ marker.id # Nothing.of
    BY <1>7, ItemFacts, WorkspaceRestoreAssumption
  <2>7. Part(p, c)'
    BY <1>2, <1>3, <1>5, <2>1, <2>2, <2>3, <2>4, <2>5, <2>6 DEF Part, Present, Nothing, Restored
  <2>8. Todo(p, c)'
    BY <1>5, <2>1, <2>2, <2>3, <2>4, <2>5 DEF Todo, Before, New, Present, Nothing, Restored
  <2> QED BY <2>7, <2>8
<1>9. Progress(c)'
  <2>1. /\ 1 \in DOMAIN Parts
        /\ \A j \in DOMAIN Parts : Parts[j] \in PartSet /\ ~(j < 1)
    BY PartsFacts
  <2> QED BY <1>6, <1>8, <2>1 DEF Progress, At
<1>10. Told(c)' /\ IsContent(c)'
  BY <1>2, <1>3, <1>4 DEF Told, Coherent, IsContent
<1>11. \A p \in PartSet \ (Elems(Sidecars) \cup {"audio"}) : receipt'.had[p]
  <2>1. Present(live["database"])
    BY <1>1, <1>2, PartKinds, ItemFacts DEF Coherent, IsContent, Of, Types
  <2> QED BY <1>2, <1>5, <2>1, PartKinds DEF Coherent
<1>12. Transaction(c)'
  BY <1>2, <1>3, <1>5, <1>8, <1>9, <1>10, <1>11 DEF Transaction
<1>13. InSwap'
  BY <1>4, <1>5, <1>12, WorkspaceRestoreAssumption DEF InSwap
<1>14. Settled' /\ Undoing' /\ Finalizing'
  BY <1>5 DEF Settled, Undoing, Finalizing, Whole
<1> QED BY <1>13, <1>14 DEF Contents

\* What the invariant gives while parts are moved.
LEMMA SwapFacts ==
    ASSUME WInv, receipt.phase \in Swapping
    PROVE  /\ Types /\ receipt.id \in 0..MaxRestores /\ receipt.id \in Ids
           /\ receipt.generation = generation /\ chosen[receipt.id] # NoValue
           /\ \E c \in 0..MaxRestores : Transaction(c)
           /\ receipt \in [id : Ids, generation : Generations, had : [PartSet -> BOOLEAN],
                           phase : Swapping \cup {"finalizing", "rollback_finalizing"}]
<1>1. Whole(receipt) /\ Types
  BY DEF Swapping, Whole, WInv
<1> QED BY <1>1, WholeFiles, WorkspaceRestoreAssumption DEF WInv, InSwap, Books, Ids

\* One part is moved out of the workspace.
LEMMA SwapOutContents ==
    ASSUME WInv, Types', SwapOut
    PROVE  Contents'
<1>1. At("out") /\ receipt.phase = "swapping" /\ receipt.phase \in Swapping
  BY DEF SwapOut, WInv, Place, At, Swapping
<1>2. /\ Types /\ receipt.id \in 0..MaxRestores /\ receipt.generation = generation
      /\ \E c \in 0..MaxRestores : Transaction(c)
  BY <1>1, SwapFacts
<1>3. PICK c \in 0..MaxRestores : Transaction(c)
  BY <1>2
<1>4. PICK i \in DOMAIN Parts : i = proc.i
  BY <1>1, SwapAt DEF At
<1>5. PICK p \in PartSet : p = Parts[i]
  BY PartsFacts
<1>6. /\ kept' = [kept EXCEPT ![p] = live[p]] /\ live' = [live EXCEPT ![p] = Nothing]
      /\ UNCHANGED <<staged, receipt, result, generation, chosen>>
  BY <1>4, <1>5 DEF SwapOut
<1>7. proc'.pc = "in" /\ proc'.i = i
  BY <1>2, <1>4 DEF SwapOut, Types, Processes
<1>8. /\ kept'[p] = live[p] /\ live'[p] = Nothing /\ staged'[p] = staged[p]
      /\ \A q \in PartSet : q # p => kept'[q] = kept[q] /\ live'[q] = live[q]
      /\ live[p] \in Items /\ staged[p] \in Items /\ kept[p] \in Items
  BY <1>2, <1>6 DEF Types
<1>9. Part(p, c) /\ Todo(p, c) /\ c # receipt.id
  BY <1>1, <1>3, <1>4, <1>5 DEF Transaction, Progress
<1>10. ~Present(Nothing) /\ Nothing.of # c /\ Nothing.of # receipt.id
  BY <1>2, ItemFacts, WorkspaceRestoreAssumption DEF Present
<1>11. Part(p, c)' /\ Taken(p, c)'
  <2>1. live[p].of = (IF receipt.had[p] THEN c ELSE Nothing.of) /\ staged[p].of = New(p)
    BY <1>9 DEF Todo, Before
  <2>2. Present(live[p]) <=> receipt.had[p]
    BY <1>8, <1>10, <2>1, ItemFacts
  <2>3. Part(p, c)'
    BY <1>6, <1>8, <1>9, <1>10, <2>1, <2>2 DEF Part, Present, Nothing, Restored
  <2>4. Taken(p, c)'
    BY <1>6, <1>8, <1>10, <2>1 DEF Taken, Before, New, Present, Nothing, Restored
  <2> QED BY <2>3, <2>4
<1>12. ASSUME NEW q \in PartSet, q # p
       PROVE  /\ Part(q, c) => Part(q, c)'
              /\ Todo(q, c) => Todo(q, c)'
              /\ Done(q, c) => Done(q, c)'
  BY <1>2, <1>6, <1>8, <1>12, SamePart
<1>13. \A q \in PartSet : Part(q, c)'
  BY <1>3, <1>11, <1>12 DEF Transaction
<1>14. Progress(c)'
  <2>1. ASSUME NEW j \in DOMAIN Parts
        PROVE  /\ j < i => Done(Parts[j], c)'
               /\ j > i => Todo(Parts[j], c)'
               /\ j = i => Taken(Parts[j], c)'
    <3>1. /\ Parts[j] \in PartSet /\ (j # i => Parts[j] # p) /\ i \in Nat /\ j \in Nat
      BY <1>5, PartsFacts
    <3>2. /\ j < i => Done(Parts[j], c)
          /\ j > i => Todo(Parts[j], c)
      BY <1>1, <1>3, <1>4 DEF Transaction, Progress, At
    <3> QED BY <1>5, <1>11, <1>12, <3>1, <3>2
  <2> QED BY <1>4, <1>7, <2>1 DEF Progress, At
<1>15. Transaction(c)'
  BY <1>3, <1>6, <1>13, <1>14 DEF Transaction, IsContent, Told
<1>16. receipt'.phase \in Swapping /\ receipt'.generation = generation' /\ receipt'.phase # "swapped"
  BY <1>1, <1>2, <1>6
<1> QED BY <1>15, <1>16 DEF Contents, Settled, InSwap, Undoing, Finalizing, Swapping, Whole

\* One part is moved into the workspace.
LEMMA SwapInContents ==
    ASSUME WInv, Types', SwapIn
    PROVE  Contents'
<1>1. At("in") /\ receipt.phase = "swapping" /\ receipt.phase \in Swapping
  BY DEF SwapIn, WInv, Place, At, Swapping
<1>2. /\ Types /\ receipt.id \in 0..MaxRestores /\ receipt.generation = generation
      /\ \E c \in 0..MaxRestores : Transaction(c)
  BY <1>1, SwapFacts
<1>3. PICK c \in 0..MaxRestores : Transaction(c)
  BY <1>2
<1>4. PICK i \in DOMAIN Parts : i = proc.i
  BY <1>1, SwapAt DEF At
<1>5. PICK p \in PartSet : p = Parts[i]
  BY PartsFacts
<1>6. /\ live' = [live EXCEPT ![p] = staged[p]] /\ staged' = [staged EXCEPT ![p] = Nothing]
      /\ UNCHANGED <<kept, receipt, result, generation, chosen>>
  BY <1>4, <1>5 DEF SwapIn
<1>7. \/ i < Len(Parts) /\ proc'.pc = "out" /\ proc'.i = i + 1
      \/ ~(i < Len(Parts)) /\ proc'.pc = "check"
  <2>1. CASE i < Len(Parts)
    BY <1>2, <1>4, <2>1 DEF SwapIn, Types, Processes
  <2>2. CASE ~(i < Len(Parts))
    BY <1>2, <1>4, <2>2 DEF SwapIn, Types, Processes
  <2> QED BY <2>1, <2>2
<1>8. /\ kept'[p] = kept[p] /\ live'[p] = staged[p] /\ staged'[p] = Nothing
      /\ \A q \in PartSet : q # p => staged'[q] = staged[q] /\ live'[q] = live[q]
      /\ live[p] \in Items /\ staged[p] \in Items /\ kept[p] \in Items
  BY <1>2, <1>6 DEF Types
<1>9. Part(p, c) /\ Taken(p, c) /\ c # receipt.id
  BY <1>1, <1>3, <1>4, <1>5 DEF Transaction, Progress
<1>10. ~Present(Nothing) /\ Nothing.of # c /\ Nothing.of # receipt.id
  BY <1>2, ItemFacts, WorkspaceRestoreAssumption DEF Present
<1>11. Part(p, c)' /\ Done(p, c)'
  <2>1. kept[p].of = (IF receipt.had[p] THEN c ELSE Nothing.of) /\ staged[p].of = New(p)
    BY <1>9 DEF Taken, Before
  <2>2. (Present(kept[p]) <=> receipt.had[p]) /\ New(p) \in {receipt.id, Nothing.of}
    BY <1>8, <1>10, <2>1, ItemFacts DEF New
  <2>3. Part(p, c)'
    BY <1>6, <1>8, <1>9, <1>10, <2>1, <2>2 DEF Part, Present, Nothing, Restored
  <2>4. Done(p, c)'
    BY <1>6, <1>8, <1>10, <2>1 DEF Done, Before, New, Present, Nothing, Restored
  <2> QED BY <2>3, <2>4
<1>12. ASSUME NEW q \in PartSet, q # p
       PROVE  /\ Part(q, c) => Part(q, c)'
              /\ Todo(q, c) => Todo(q, c)'
              /\ Done(q, c) => Done(q, c)'
  BY <1>2, <1>6, <1>8, <1>12, SamePart
<1>13. \A q \in PartSet : Part(q, c)'
  BY <1>3, <1>11, <1>12 DEF Transaction
<1>14. ASSUME NEW j \in DOMAIN Parts
       PROVE  /\ j <= i => Done(Parts[j], c)'
              /\ j > i => Todo(Parts[j], c)'
  <2>1. Parts[j] \in PartSet /\ (j # i => Parts[j] # p) /\ i \in Nat /\ j \in Nat
    BY <1>5, PartsFacts
  <2>2. /\ j < i => Done(Parts[j], c)
        /\ j > i => Todo(Parts[j], c)
    BY <1>1, <1>3, <1>4 DEF Transaction, Progress, At
  <2> QED BY <1>5, <1>11, <1>12, <2>1, <2>2
<1>15. Progress(c)'
  <2>1. i \in Nat \ {0} /\ Len(Parts) \in Nat /\ DOMAIN Parts = 1..Len(Parts)
    BY PartsFacts
  <2>2. CASE i < Len(Parts) /\ proc'.pc = "out" /\ proc'.i = i + 1
    <3>1. i + 1 \in DOMAIN Parts
      BY <2>1, <2>2
    <3>2. \A j \in DOMAIN Parts : /\ j < i + 1 => j <= i
                                  /\ j > i + 1 => j > i
                                  /\ j = i + 1 => j > i
      BY <2>1
    <3> QED BY <1>14, <2>2, <3>1, <3>2 DEF Progress, At
  <2>3. CASE ~(i < Len(Parts)) /\ proc'.pc = "check"
    <3>1. \A j \in DOMAIN Parts : j <= i
      BY <2>1, <2>3
    <3> QED BY <1>14, <2>3, <3>1 DEF Progress, At
  <2> QED BY <1>7, <2>2, <2>3
<1>16. Transaction(c)'
  BY <1>3, <1>6, <1>13, <1>15 DEF Transaction, IsContent, Told
<1>17. receipt'.phase \in Swapping /\ receipt'.generation = generation' /\ receipt'.phase # "swapped"
  BY <1>1, <1>2, <1>6
<1> QED BY <1>16, <1>17 DEF Contents, Settled, InSwap, Undoing, Finalizing, Swapping, Whole

\* A change of the phase, or of the place, moves nothing.
LEMMA SameTransaction ==
    ASSUME WInv, Types', NEW c, Transaction(c), Progress(c)',
           UNCHANGED <<live, staged, kept, result, generation, chosen>>,
           receipt'.id = receipt.id, receipt'.had = receipt.had
    PROVE  Transaction(c)'
<1>1. \A p \in PartSet : Part(p, c)'
  BY SamePart DEF Transaction, WInv
<1> QED BY <1>1 DEF Transaction, IsContent, Told

\* With every part done, the workspace is the restored one.
LEMMA SwappedContents ==
    ASSUME WInv, Types', Swapped
    PROVE  Contents'
<1>1. At("check") /\ receipt.phase \in Swapping
  BY DEF Swapped, WInv, Place, At, Swapping
<1>2. /\ Types /\ receipt.id \in 0..MaxRestores /\ receipt.generation = generation
      /\ chosen[receipt.id] # NoValue
      /\ \E c \in 0..MaxRestores : Transaction(c)
      /\ receipt \in [id : Ids, generation : Generations, had : [PartSet -> BOOLEAN],
                      phase : Swapping \cup {"finalizing", "rollback_finalizing"}]
  BY <1>1, SwapFacts
<1>3. PICK c \in 0..MaxRestores : Transaction(c)
  BY <1>2
<1>4. /\ UNCHANGED <<live, staged, kept, marker, result, generation, chosen>>
      /\ receipt'.id = receipt.id /\ receipt'.had = receipt.had
      /\ receipt'.generation = receipt.generation /\ receipt'.phase = "swapped"
  BY <1>2 DEF Swapped
<1>5. proc'.pc = "init"
  BY <1>2 DEF Swapped, Types, Processes
<1>6. \A p \in PartSet : Done(p, c)
  BY <1>1, <1>3, PartsFacts DEF Transaction, Progress
<1>7. Transaction(c)'
  BY <1>3, <1>4, <1>5, SameTransaction DEF Progress, At
<1>8. Coherent(receipt.id)'
  <2>1. \A p \in PartSet : live[p] \in Items /\ live[p].of = New(p)
    BY <1>2, <1>6 DEF Done, Types
  <2>2. \A p \in PartSet : Restored(p) => live[p].of = receipt.id /\ Present(live[p])
    BY <1>2, <2>1, ItemFacts DEF New
  <2>3. \A p \in PartSet : ~Restored(p) => ~Present(live[p])
    BY <2>1, ItemFacts DEF New
  <2>4. /\ Of = receipt.id
        /\ \A r \in Elems(Roots) \ {"audio"} : Present(live[r])
    BY <2>2, PartKinds DEF Of
  <2> QED BY <1>2, <1>4, <2>2, <2>3, <2>4 DEF Coherent, IsContent, Of, Present
<1> QED BY <1>2, <1>4, <1>7, <1>8
     DEF Contents, Settled, InSwap, Undoing, Finalizing, Swapping, Whole

\* Wherever the swap fails, what it has done can be undone.
LEMMA SwapFailsContents ==
    ASSUME WInv, Types', SwapFails
    PROVE  Contents'
<1>1. proc.pc \in {"out", "in", "check"} /\ receipt.phase = "swapping" /\ receipt.phase \in Swapping
  BY DEF SwapFails, WInv, Place, At, Swapping
<1>2. /\ Types /\ receipt.id \in 0..MaxRestores /\ receipt.generation = generation
      /\ \E c \in 0..MaxRestores : Transaction(c)
  BY <1>1, SwapFacts
<1>3. PICK c \in 0..MaxRestores : Transaction(c)
  BY <1>2
<1>4. UNCHANGED <<live, staged, kept, marker, receipt, result, generation, chosen>>
  BY DEF SwapFails, disk
<1>5. proc'.pc = "unwind" /\ proc'.i = 1
  <2>1. Goto("unwind") /\ "unwind" \in Places /\ proc \in Processes
    BY <1>2 DEF SwapFails, Places, Types
  <2> QED BY <2>1, GotoTyped
<1>6. ASSUME NEW p \in PartSet
      PROVE  Undoable(p)'
  <2>1. PICK j \in DOMAIN Parts : Parts[j] = p
    BY PartsFacts
  <2>2. proc.i \in Nat \ {0} /\ j \in Nat
    BY <1>2, PartsFacts DEF Types, Processes
  <2>3. Todo(p, c) \/ Taken(p, c) \/ Done(p, c)
    <3>1. CASE proc.pc = "check"
      BY <1>3, <2>1, <3>1 DEF Transaction, Progress, At
    <3>2. CASE proc.pc \in {"out", "in"}
      <4>1. j < proc.i \/ j = proc.i \/ j > proc.i
        BY <2>2
      <4> QED BY <1>3, <2>1, <3>2, <4>1 DEF Transaction, Progress, At
    <3> QED BY <1>1, <3>1, <3>2
  <2>4. /\ live[p] \in Items /\ staged[p] \in Items /\ kept[p] \in Items
        /\ c # Nothing.of /\ receipt.id # Nothing.of
    BY <1>2, ItemFacts, WorkspaceRestoreAssumption DEF Types
  <2>5. Undoable(p)
    BY <2>3, <2>4, ItemFacts DEF Todo, Taken, Done, Undoable, Before, New
  <2> QED BY <1>2, <1>4, <2>5, SamePart
<1>7. Progress(c)'
  <2>1. \A j \in DOMAIN Parts : RollbackOrder[j] \in PartSet /\ ~(j < 1)
    BY PartsFacts
  <2> QED BY <1>5, <1>6, <2>1 DEF Progress, At
<1>8. Transaction(c)'
  BY <1>3, <1>4, <1>7, SameTransaction
<1> QED BY <1>1, <1>2, <1>4, <1>8
     DEF Contents, Settled, InSwap, Undoing, Finalizing, Swapping, Whole

\* One part of a rollback: what a rollback displaces is what was published.
LEMMA PutBackContents ==
    ASSUME WInv, Types', proc.pc \in {"unwind", "rollback"}, receipt.phase \in Swapping \ {"swapped"},
           NEW i \in DOMAIN Parts, i = proc.i,
           NEW p \in PartSet, p = RollbackOrder[i], NEW displace \in BOOLEAN,
           PutBack(p, displace),
           UNCHANGED <<staged, marker, receipt, copies, result, generation, backups, chosen>>,
           \A c \in 0..MaxRestores : Transaction(c) /\ ~Present(kept[p]) =>
              /\ receipt.had[p] => ~displace
              /\ ~receipt.had[p] => displace \/ ~Present(live[p])
    PROVE  Contents'
<1>1. receipt.phase \in Swapping
  OBVIOUS
<1>2. /\ Types /\ receipt.id \in 0..MaxRestores /\ receipt.generation = generation
      /\ \E c \in 0..MaxRestores : Transaction(c)
  BY <1>1, SwapFacts
<1>3. PICK c \in 0..MaxRestores : Transaction(c)
  BY <1>2
<1>4. /\ live[p] \in Items /\ staged[p] \in Items /\ kept[p] \in Items
      /\ c # Nothing.of /\ receipt.id # Nothing.of /\ ~Present(Nothing)
      /\ Part(p, c) /\ c # receipt.id
  BY <1>2, <1>3, ItemFacts, WorkspaceRestoreAssumption DEF Types, Transaction, Present
<1>5. /\ \A q \in PartSet : q # p => live'[q] = live[q] /\ kept'[q] = kept[q]
      /\ proc'.pc = proc.pc /\ proc'.i = i + 1
  <2>1. proc \in Processes
    BY <1>2 DEF Types
  <2> QED BY <1>2, <2>1, Advanced, ZenonT(60) DEF PutBack, NextStep, Types
<1>6. /\ Part(p, c)'
      /\ ~proc'.failed => ~proc.failed /\ Home(p, c)'
  <2>1. CASE /\ live' = [live EXCEPT ![p] = IF Present(kept[p]) THEN kept[p]
                                           ELSE IF displace THEN Nothing ELSE @]
             /\ kept' = [kept EXCEPT ![p] = Nothing]
             /\ NextStep
    <3>1. proc'.failed = proc.failed
      BY <1>2, <2>1, Advanced DEF NextStep, Types
    <3>2. /\ kept'[p] = Nothing
          /\ live'[p] = IF Present(kept[p]) THEN kept[p]
                        ELSE IF displace THEN Nothing ELSE live[p]
      BY <1>2, <2>1 DEF Types
    <3>3. live'[p].of = IF receipt.had[p] THEN c ELSE Nothing.of
      <4>1. CASE Present(kept[p])
        BY <1>4, <3>2, <4>1 DEF Part
      <4>2. CASE ~Present(kept[p]) /\ receipt.had[p]
        BY <1>3, <1>4, <3>2, <4>2 DEF Part
      <4>3. CASE ~Present(kept[p]) /\ ~receipt.had[p]
        BY <1>3, <1>4, <3>2, <4>3, ItemFacts
      <4> QED BY <4>1, <4>2, <4>3
    <3>4. Home(p, c)'
      BY <1>4, <3>2, <3>3 DEF Home, Before, Present, Nothing
    <3>5. Part(p, c)'
      BY <1>4, <3>2, <3>3 DEF Part, Present, Nothing, Restored
    <3> QED BY <3>1, <3>4, <3>5
  <2>2. CASE /\ live' \in {live, [live EXCEPT ![p] = IF Present(kept[p]) THEN Nothing ELSE @]}
             /\ proc' = [proc EXCEPT !.i = @ + 1, !.failed = TRUE]
             /\ kept' = kept
    <3>1. proc'.failed
      BY <1>2, <2>2, Advanced DEF Types
    <3>2. \/ live'[p] = live[p]
          \/ Present(kept[p]) /\ live'[p] = Nothing
      BY <1>2, <2>2 DEF Types
    <3>3. Part(p, c)'
      BY <1>4, <2>2, <3>2 DEF Part, Present, Nothing, Restored
    <3> QED BY <3>1, <3>3
  <2> QED BY <2>1, <2>2 DEF PutBack
<1>7. ASSUME NEW q \in PartSet, q # p
      PROVE  /\ Part(q, c) => Part(q, c)'
             /\ Undoable(q) => Undoable(q)'
             /\ Home(q, c) => Home(q, c)'
  BY <1>2, <1>5, <1>7, SamePart
<1>8. \A q \in PartSet : Part(q, c)'
  BY <1>3, <1>6, <1>7 DEF Transaction
<1>9. Progress(c)'
  <2>1. ASSUME NEW j \in DOMAIN Parts
        PROVE  /\ proc.pc = "unwind" /\ j >= i + 1 => Undoable(RollbackOrder[j])'
               /\ ~proc'.failed /\ j < i + 1 => Home(RollbackOrder[j], c)'
    <3>1. /\ RollbackOrder[j] \in PartSet /\ (j # i => RollbackOrder[j] # p)
          /\ i \in Nat /\ j \in Nat
      <4>1. i \in 1..Len(Parts) /\ j \in 1..Len(Parts) /\ Len(Parts) \in Nat
        BY PartsFacts
      <4>2. i \in Nat /\ j \in Nat
        BY <4>1
      <4>3. RollbackOrder[j] \in PartSet
        BY PartsFacts
      <4>4. j # i => RollbackOrder[j] # RollbackOrder[i]
        BY PartsFacts
      <4> QED BY <4>2, <4>3, <4>4
    <3>2. /\ proc.pc = "unwind" /\ j >= i => Undoable(RollbackOrder[j])
          /\ ~proc.failed /\ j < i => Home(RollbackOrder[j], c)
      BY <1>3 DEF Transaction, Progress, At
    <3>3. CASE j >= i + 1
      <4>1. j >= i /\ j # i /\ ~(j < i + 1)
        BY <3>1, <3>3
      <4> QED BY <1>7, <3>1, <3>2, <4>1
    <3>4. CASE j < i + 1
      <4>1. ~(j >= i + 1) /\ (j = i \/ (j < i /\ j # i))
        BY <3>1, <3>4
      <4> QED BY <1>6, <1>7, <3>1, <3>2, <4>1
    <3>5. j >= i + 1 \/ j < i + 1
      BY <3>1
    <3> QED BY <3>3, <3>4, <3>5
  <2> QED BY <1>5, <2>1 DEF Progress, At
<1>10. Transaction(c)'
  BY <1>3, <1>8, <1>9 DEF Transaction, IsContent, Told
<1> QED BY <1>1, <1>2, <1>10
     DEF Contents, Settled, InSwap, Undoing, Finalizing, Swapping, Whole

\* The rollback in the process that failed, and the one at the next start.
LEMMA RollbackContents ==
    ASSUME WInv, Types', Unwind \/ Rollback
    PROVE  Contents'
<1>1. proc.pc \in {"unwind", "rollback"} /\ proc.i <= Len(Parts)
  BY DEF Unwind, Rollback, At
<1>2. receipt.phase \in Swapping \ {"swapped"}
  BY <1>1 DEF WInv, Place, Swapping, At
<1>3. PICK i \in DOMAIN Parts : i = proc.i
  BY <1>1, SwapAt
<1>4. PICK p \in PartSet : p = RollbackOrder[i]
  BY PartsFacts
<1>5. Types /\ receipt.id \in 0..MaxRestores
  BY <1>2, SwapFacts
<1>6. /\ live[p] \in Items /\ staged[p] \in Items /\ kept[p] \in Items
      /\ receipt.id # Nothing.of
  BY <1>5, ItemFacts, WorkspaceRestoreAssumption DEF Types
<1>7. CASE Unwind
  <2> DEFINE displace == Reached(p)
  <2>1. PutBack(p, displace) /\ proc.pc = "unwind"
    BY <1>3, <1>4, <1>7 DEF Unwind, At
  <2>2. ASSUME NEW c \in 0..MaxRestores, Transaction(c), ~Present(kept[p])
        PROVE  /\ receipt.had[p] => ~displace
               /\ ~receipt.had[p] => displace \/ ~Present(live[p])
    <3>1. Part(p, c) /\ Undoable(p)
      <4>1. i >= i
        BY PartsFacts
      <4> QED BY <1>3, <1>4, <2>1, <2>2, <4>1 DEF Transaction, Progress, At
    <3>2. c # Nothing.of
      BY ItemFacts, WorkspaceRestoreAssumption
    <3> QED BY <1>6, <2>2, <3>1, <3>2, ItemFacts DEF Part, Undoable, Reached
  <2>3. displace \in BOOLEAN
    BY DEF Reached, Present
  <2> HIDE DEF displace
  <2>4. UNCHANGED <<staged, marker, receipt, copies, result, generation, backups, chosen>>
    BY <1>7 DEF Unwind
  <2> QED BY <1>1, <1>2, <1>3, <1>4, <2>1, <2>2, <2>3, <2>4, PutBackContents
<1>8. CASE Rollback
  <2> DEFINE displace == ~receipt.had[p] /\ (Restored(p) => ~Present(staged[p]))
  <2>1. PutBack(p, displace)
    BY <1>3, <1>4, <1>8 DEF Rollback
  <2>2. ASSUME NEW c \in 0..MaxRestores, Transaction(c), ~Present(kept[p])
        PROVE  /\ receipt.had[p] => ~displace
               /\ ~receipt.had[p] => displace \/ ~Present(live[p])
    <3>1. Part(p, c)
      BY <2>2 DEF Transaction
    <3> QED BY <1>6, <3>1, ItemFacts DEF Part
  <2>3. displace \in BOOLEAN
    OBVIOUS
  <2> HIDE DEF displace
  <2>4. UNCHANGED <<staged, marker, receipt, copies, result, generation, backups, chosen>>
    BY <1>8 DEF Rollback
  <2> QED BY <1>1, <1>2, <1>3, <1>4, <2>1, <2>2, <2>3, <2>4, PutBackContents
<1> QED BY <1>7, <1>8

\* With every part home, the workspace is the one before the restore.
LEMMA RolledBackContents ==
    ASSUME WInv, Types', RolledBack
    PROVE  Contents'
<1>1. proc.pc \in {"unwind", "rollback"} /\ proc.i > Len(Parts)
  BY DEF RolledBack
<1>2. receipt.phase \in Swapping
  BY <1>1 DEF WInv, Place, Swapping, At
<1>3. /\ Types /\ receipt.id \in 0..MaxRestores /\ receipt.generation = generation
      /\ \E c \in 0..MaxRestores : Transaction(c)
      /\ receipt \in [id : Ids, generation : Generations, had : [PartSet -> BOOLEAN],
                      phase : Swapping \cup {"finalizing", "rollback_finalizing"}]
  BY <1>2, SwapFacts
<1>4. PICK c \in 0..MaxRestores : Transaction(c)
  BY <1>3
<1>5. UNCHANGED <<live, staged, kept, marker, result, generation, chosen>>
  BY DEF RolledBack
<1>6. CASE proc.failed
  BY <1>5, <1>6, QuietContents DEF RolledBack, Die, Down, Resting
<1>7. CASE ~proc.failed
  <2>1. \A p \in PartSet : live[p] \in Items /\ Home(p, c)
    <3>1. \A j \in DOMAIN Parts : j < proc.i
      BY <1>1, <1>3, PartsFacts DEF Types, Processes
    <3>2. \A j \in DOMAIN Parts : Home(RollbackOrder[j], c)
      BY <1>1, <1>4, <1>7, <3>1 DEF Transaction, Progress
    <3>3. ASSUME NEW p \in PartSet PROVE live[p] \in Items /\ Home(p, c)
      <4>1. PICK j \in DOMAIN Parts : RollbackOrder[j] = p
        BY PartsFacts
      <4>2. Home(p, c)
        BY <3>2, <4>1
      <4>3. live[p] \in Items
        BY <1>3 DEF Types
      <4> QED BY <4>2, <4>3
    <3> QED BY <3>3
  <2>2. c # Nothing.of /\ c # receipt.id /\ IsContent(c) /\ Told(c)
    BY <1>4, ItemFacts, WorkspaceRestoreAssumption DEF Transaction
  <2>3. \A p \in PartSet : /\ Present(live[p]) => live[p].of = c
                           /\ receipt.had[p] => Present(live[p]) /\ live[p].of = c
    BY <2>1, <2>2, ItemFacts DEF Home, Before
  <2>4. \A p \in PartSet \ (Elems(Sidecars) \cup {"audio"}) : receipt.had[p]
    BY <1>4 DEF Transaction
  <2>5. Of = c /\ \A r \in Elems(Roots) \ {"audio"} : Present(live[r])
    BY <2>3, <2>4, PartKinds DEF Of, Restored
  <2>6. Coherent(c)
    BY <2>2, <2>3, <2>5 DEF Coherent
  <2>7. /\ receipt'.id = receipt.id /\ receipt'.had = receipt.had
        /\ receipt'.generation = receipt.generation /\ receipt'.phase = "rollback_finalizing"
    BY <1>3, <1>7 DEF RolledBack
  <2>8. proc'.pc = "undone" /\ proc'.i = 1
    <3>1. Goto("undone") /\ "undone" \in Places /\ proc \in Processes
      BY <1>3, <1>7 DEF RolledBack, Places, Types
    <3> QED BY <3>1, GotoTyped
  <2>9. Undoing'
    BY <1>3, <1>5, <2>2, <2>3, <2>5, <2>6, <2>7, <2>8
    DEF Undoing, Coherent, IsContent, Told, Of, Present, At
  <2> QED BY <2>7, <2>9 DEF Contents, Settled, InSwap, Finalizing, Swapping, Whole
<1> QED BY <1>6, <1>7

\* The receipt of an undone restore goes last.
LEMMA UndoneContents ==
    ASSUME WInv, Types', Undone
    PROVE  Contents'
<1>1. /\ At("undone") /\ receipt.phase = "rollback_finalizing" /\ Whole(receipt)
      /\ Types /\ Undoing
  BY SwapAt DEF Undone, WInv, Place, At
<1>2. /\ Coherent(Of) /\ Told(Of) /\ Of # receipt.id /\ receipt.generation = generation
      /\ \A p \in PartSet : receipt.had[p] => Present(live[p])
      /\ proc.i <= 5 /\ (proc.i > 2 => marker = Absent)
  BY <1>1 DEF Undoing
<1>3. PICK i \in Nat \ {0} : i = proc.i
  BY <1>1 DEF Types, Processes
<1>4. /\ UNCHANGED <<live, generation, chosen>>
      /\ marker' = IF i = 2 THEN Absent ELSE marker
      /\ i = 4 => Outcome(receipt.id, "failed", receipt.generation)
      /\ i # 4 => result' = result
  BY <1>3 DEF Undone
<1>5. Of' = Of /\ Coherent(Of)'
  BY <1>2, <1>4 DEF Coherent, IsContent, Of, Present
<1>6. Told(Of)'
  <2>1. CASE i = 4
    BY <1>2, <1>4, <2>1 DEF Outcome, Told
  <2>2. CASE i # 4
    BY <1>2, <1>4, <1>5, <2>2 DEF Told
  <2> QED BY <2>1, <2>2
<1>7. CASE i = 5
  <2>1. receipt' = Absent /\ marker' = Absent
    BY <1>2, <1>3, <1>4, <1>7 DEF Undone
  <2> QED BY <1>5, <1>6, <2>1, SettledContents DEF Settled, Whole, Absent
<1>8. CASE i # 5
  <2>1. receipt' = receipt /\ NextStep
    BY <1>3, <1>8 DEF Undone
  <2>2. proc'.i = i + 1
    BY <1>1, <1>3, <2>1, Advanced, ZenonT(60) DEF NextStep, Types
  <2>3. /\ i + 1 <= 5
        /\ i + 1 > 2 => marker' = Absent
    BY <1>2, <1>3, <1>4, <1>8
  <2>4. Undoing'
    BY <1>2, <1>4, <1>5, <1>6, <2>1, <2>2, <2>3 DEF Undoing, Present
  <2> QED BY <1>1, <2>1, <2>4 DEF Contents, Settled, InSwap, Finalizing, Swapping, Whole
<1> QED BY <1>7, <1>8

\* init_db brings the schema up and opens the database it finds.
LEMMA InitDbContents ==
    ASSUME WInv, Types', InitDb
    PROVE  Contents'
<1>1. Types /\ Opening
  BY DEF InitDb, WInv, Place, At
<1>2. UNCHANGED <<staged, kept, marker, receipt, result, generation, chosen>>
  BY DEF InitDb
<1>3. proc'.pc = "recover"
  <2>1. Goto("recover") /\ "recover" \in Places /\ proc \in Processes
    BY <1>1 DEF InitDb, Places, Types
  <2> QED BY <2>1, GotoTyped
<1>4. PICK d \in 0..MaxRestores : d = Of /\ Coherent(d)
  <2>1. Coherent(Of)
    BY <1>1 DEF Opening, Fresh, WInv, Settled, InSwap, Swapping, Coherent, Whole, Absent
  <2> QED BY <2>1 DEF Coherent, IsContent
<1>5. /\ [of |-> d, schema |-> 0] \in Items /\ d # Nothing.of
      /\ \A p \in PartSet : live[p] \in Items /\ live'[p] \in Items
  BY <1>1, ItemFacts, WorkspaceArchiveAssumption, WorkspaceRestoreAssumption DEF Types, Items
<1>6. ASSUME NEW p \in PartSet
      PROVE  live'[p].of = IF ~Restored(p) /\ ~Present(live[p]) THEN d ELSE live[p].of
  <2>1. CASE p = "database"
    <3>1. live'[p] = [live[p] EXCEPT !.schema = Latest] /\ Restored(p)
      BY <2>1, PartKinds DEF InitDb, Restored
    <3>2. live[p] = [of |-> live[p].of, schema |-> live[p].schema]
      BY <1>5 DEF Items, Nothing
    <3> QED BY <3>1, <3>2
  <2>2. CASE p # "database"
    BY <1>4, <2>2 DEF InitDb, Of, Restored
  <2> QED BY <2>1, <2>2
<1>7. Of' = Of
  BY <1>6, PartKinds DEF Of
<1>8. Coherent(d)'
  <2>1. \A p \in PartSet : live'[p].of \in {d, Nothing.of}
    BY <1>4, <1>5, <1>6, ItemFacts DEF Coherent
  <2>2. \A p \in PartSet : Present(live'[p]) => live'[p].of = d
    BY <1>5, <2>1, ItemFacts
  <2>3. \A r \in Elems(Roots) \ {"audio"} : Present(live'[r])
    <3>1. \A r \in Elems(Roots) \ {"audio"} : live'[r].of = live[r].of /\ r \in PartSet
      BY <1>6, PartKinds
    <3> QED BY <1>4, <1>5, <3>1, ItemFacts DEF Coherent
  <2> QED BY <1>2, <1>4, <1>7, <2>2, <2>3 DEF Coherent, IsContent, Present
<1>9. CASE Fresh
  BY <1>2, <1>4, <1>7, <1>8, <1>9, SettledContents
     DEF Fresh, Settled, WInv, Told, Whole, Absent
<1>10. CASE receipt.phase = "swapped"
  <2>1. receipt.phase \in Swapping
    BY <1>10 DEF Swapping
  <2>2. /\ receipt.id \in 0..MaxRestores /\ receipt.generation = generation
        /\ \E c \in 0..MaxRestores : Transaction(c)
        /\ d = receipt.id
    BY <1>4, <1>10, <2>1, SwapFacts DEF WInv, InSwap, Coherent
  <2>3. PICK c \in 0..MaxRestores : Transaction(c)
    BY <2>2
  <2>4. ASSUME NEW p \in PartSet
        PROVE  Part(p, c)'
    <3>1. Part(p, c) /\ c # receipt.id /\ c # Nothing.of
      BY <2>3, ItemFacts, WorkspaceRestoreAssumption DEF Transaction
    <3>2. CASE live'[p].of = live[p].of
      BY <1>1, <1>2, <3>1, <3>2, SamePart
    <3>3. CASE ~Restored(p) /\ ~Present(live[p]) /\ live'[p].of = d
      <4>1. live[p].of = Nothing.of
        BY <1>5, <3>3, ItemFacts
      <4> QED BY <1>2, <1>5, <2>2, <3>1, <3>3, <4>1 DEF Part, Present, Nothing, Restored
    <3> QED BY <1>6, <3>2, <3>3
  <2>5. Transaction(c)'
    BY <1>2, <1>3, <2>3, <2>4 DEF Transaction, IsContent, Told, Progress, At
  <2> QED BY <1>2, <1>8, <1>10, <2>1, <2>2, <2>5
       DEF Contents, Settled, InSwap, Undoing, Finalizing, Swapping, Whole
<1> QED BY <1>1, <1>9, <1>10 DEF Opening

\* An initialisation that fails on a restored workspace rolls it back.
LEMMA InitFailsContents ==
    ASSUME WInv, Types', InitFails
    PROVE  Contents'
<1>1. UNCHANGED <<live, staged, kept, marker, result, generation, chosen>>
  BY DEF InitFails
<1>2. CASE proc.staging = 0
  BY <1>1, <1>2, QuietContents DEF InitFails, Die, Down, Resting
<1>3. CASE proc.staging # 0
  <2>1. receipt.phase = "swapped" /\ receipt.phase \in Swapping
    BY <1>3 DEF InitFails, WInv, Place, Opening, Fresh, Swapping
  <2>2. /\ Types /\ receipt.id \in 0..MaxRestores /\ receipt.generation = generation
        /\ \E c \in 0..MaxRestores : Transaction(c)
        /\ receipt \in [id : Ids, generation : Generations, had : [PartSet -> BOOLEAN],
                        phase : Swapping \cup {"finalizing", "rollback_finalizing"}]
    BY <2>1, SwapFacts
  <2>3. PICK c \in 0..MaxRestores : Transaction(c)
    BY <2>2
  <2>4. /\ receipt'.id = receipt.id /\ receipt'.had = receipt.had
        /\ receipt'.generation = receipt.generation /\ receipt'.phase = "rolling_back"
    BY <1>3, <2>2 DEF InitFails
  <2>5. proc'.pc = "rollback" /\ proc'.i = 1
    BY <1>3 DEF InitFails, Down
  <2>6. Progress(c)'
    <3>1. \A j \in DOMAIN Parts : ~(j < 1)
      BY PartsFacts
    <3> QED BY <2>5, <3>1 DEF Progress, At
  <2>7. Transaction(c)'
    BY <1>1, <2>3, <2>4, <2>6, SameTransaction
  <2> QED BY <1>1, <2>2, <2>4, <2>7
       DEF Contents, Settled, InSwap, Undoing, Finalizing, Swapping, Whole
<1> QED BY <1>2, <1>3

\* Behind the commit fence the generation, the answer and the marker follow.
LEMMA CommitContents ==
    ASSUME WInv, Types', Commit
    PROVE  Contents'
<1>1. receipt.phase = "swapped" /\ receipt.phase \in Swapping
  BY DEF Commit, WInv, Place, At, Swapping
<1>2. /\ Coherent(receipt.id)
      /\ receipt \in [id : Ids, generation : Generations, had : [PartSet -> BOOLEAN],
                      phase : Swapping \cup {"finalizing", "rollback_finalizing"}]
  BY <1>1, SwapFacts DEF WInv, InSwap
<1>3. /\ receipt'.id = receipt.id /\ receipt'.phase = "finalizing"
      /\ UNCHANGED <<live, chosen>> /\ proc'.pc = "finalize" /\ proc'.i = 1
  BY <1>2 DEF Commit, Down
<1>4. Coherent(receipt.id)'
  BY <1>2, <1>3 DEF Coherent, IsContent, Of, Present
<1>5. Finalizing'
  BY <1>3, <1>4 DEF Finalizing
<1> QED BY <1>3, <1>5 DEF Contents, Settled, InSwap, Undoing, Swapping, Whole

LEMMA FinalizeContents ==
    ASSUME WInv, Types', Finalize
    PROVE  Contents'
<1>1. At("finalize") /\ receipt.phase = "finalizing" /\ Types
  BY DEF Finalize, WInv, Place, At
<1>2. PICK i \in Nat \ {0} : i = proc.i
  BY <1>1 DEF Types, Processes
<1>3. /\ Coherent(receipt.id) /\ i <= 6
      /\ i > 1 => generation = receipt.generation + 1
      /\ i > 2 => result = [id |-> receipt.id, status |-> "applied",
                            generation |-> receipt.generation + 1]
      /\ i > 3 => marker = Absent
  BY <1>1, <1>2 DEF WInv, Finalizing
<1>4. /\ UNCHANGED <<live, chosen>>
      /\ generation' = IF i = 1 THEN receipt.generation + 1 ELSE generation
      /\ i = 2 => result' = [id |-> receipt.id, status |-> "applied",
                             generation |-> receipt.generation + 1]
      /\ i # 2 => result' = result
      /\ marker' = IF i = 3 THEN Absent ELSE marker
  BY <1>2 DEF Finalize, Outcome
<1>5. /\ Of' = Of /\ Of = receipt.id
      /\ \A c : Coherent(c) => Coherent(c)'
  BY <1>3, <1>4 DEF Coherent, IsContent, Of, Present
<1>6. CASE i = 6
  <2>1. receipt' = Absent /\ marker' = Absent /\ result' = result /\ generation' = generation
    BY <1>2, <1>3, <1>4, <1>6 DEF Finalize
  <2>2. Coherent(Of)'
    BY <1>3, <1>5
  <2>3. Told(Of)'
    BY <1>3, <1>5, <1>6, <2>1 DEF Told
  <2> QED BY <2>1, <2>2, <2>3, SettledContents DEF Settled, Whole, Absent
<1>7. CASE i # 6
  <2>1. receipt' = receipt /\ NextStep
    BY <1>2, <1>7 DEF Finalize
  <2>2. proc'.i = i + 1
    BY <1>1, <1>2, <2>1, Advanced, ZenonT(60) DEF NextStep, Types
  <2>3. /\ i + 1 <= 6
        /\ i + 1 > 1 => generation' = receipt.generation + 1
        /\ i + 1 > 3 => marker' = Absent
    BY <1>3, <1>4, <1>7
  <2>4. i + 1 > 2 => result' = [id |-> receipt.id, status |-> "applied",
                                generation |-> receipt.generation + 1]
    <3>1. i + 1 > 2 => i = 2 \/ (i > 2 /\ i # 2)
      OBVIOUS
    <3> QED BY <1>3, <1>4, <3>1
  <2>5. Coherent(receipt.id)'
    BY <1>3, <1>5, <2>1
  <2>6. Finalizing'
    BY <2>1, <2>2, <2>3, <2>4, <2>5 DEF Finalizing
  <2> QED BY <1>1, <2>1, <2>6 DEF Contents, Settled, InSwap, Undoing, Swapping, Whole
<1> QED BY <1>6, <1>7

\* A restore that cannot be prepared is failed, and the workspace stays.
LEMMA PrepareFailsContents ==
    ASSUME WInv, Types', PrepareFails
    PROVE  Contents'
<1>1. receipt = Absent /\ receipt' = Absent /\ Whole(marker) /\ ~Whole(marker)'
  BY DEF PrepareFails, WInv, Place, Fresh, Whole, Absent
<1>2. /\ Coherent(Of) /\ Told(Of) /\ marker.generation = generation
      /\ UNCHANGED <<live, chosen, generation>>
  BY <1>1 DEF PrepareFails, WInv, Settled, Whole, Absent
<1>3. Coherent(Of)' /\ Of' = Of
  BY <1>2 DEF Coherent, IsContent, Of, Present
<1>4. Told(Of)'
  BY <1>2 DEF PrepareFails, Outcome, Told
<1> QED BY <1>1, <1>3, <1>4, SettledContents DEF Settled, Whole, Absent

\* The invariant is inductive, whoever ends the process.
LEMMA WStep ==
    ASSUME WInv, Next \/ Killed
    PROVE  WInv'
<1>1. Types'
  <2>1. CASE Killed
    BY <2>1, DownTyped DEF WInv, Killed, Die, Types, disk
  <2> QED BY <2>1, RequestTypes, StartupTypes, FailureTypes DEF Next
<1>2. Books' /\ Place' /\ Migrated'
  BY BooksStep, PlaceStep
<1>3. Contents'
  <2>1. CASE Request \/ CancelCutShort \/ \E a \in DOMAIN Archives : QueueTorn(a)
    BY <1>1, <2>1, RequestContents
  <2>2. CASE Start
    <3>1. proc'.pc = StartPc /\ proc'.i = 1
      BY <2>2 DEF Start, Down
    <3>2. StartPc \in {"init", "prepare", "rollback", "undone", "finalize", "down"}
      BY DEF StartPc
    <3> HIDE DEF StartPc
    <3>3. Resting'
      BY <3>1, <3>2 DEF Resting
    <3> QED BY <1>1, <2>2, <3>3, QuietContents DEF Start, disk
  <2>3. CASE Recovered
    <3>1. /\ Goto(IF proc.staging = 0 THEN "serving" ELSE "commit")
          /\ (IF proc.staging = 0 THEN "serving" ELSE "commit") \in Places
          /\ proc \in Processes
      BY <2>3 DEF Recovered, Places, WInv, Types
    <3>2. Resting'
      BY <3>1, GotoTyped DEF Resting
    <3> QED BY <1>1, <2>3, <3>2, QuietContents DEF Recovered, disk
  <2>4. CASE Crash \/ Killed
    BY <1>1, <2>4, QuietContents DEF Crash, Killed, Die, Down, Resting, disk
  <2>5. CASE PrepareFailsCutShort
    BY <1>1, <2>5, QuietContents DEF PrepareFailsCutShort, Die, Down, Resting
  <2>6. CASE PrepareTorn
    <3>1. ~Whole(receipt) /\ ~Whole(receipt)'
      BY <2>6 DEF PrepareTorn, WInv, Place, Fresh, Whole, Absent, Torn
    <3> QED BY <1>1, <2>6, <3>1, QuietContents DEF PrepareTorn, Die, Down, Resting
  <2>7. CASE Prepare \/ PrepareFails
    BY <1>1, <2>7, PrepareContents, PrepareFailsContents
  <2>8. CASE SwapOut \/ SwapIn \/ Swapped \/ SwapFails
    BY <1>1, <2>8, SwapOutContents, SwapInContents, SwappedContents, SwapFailsContents
  <2>9. CASE Unwind \/ Rollback \/ RolledBack \/ Undone
    BY <1>1, <2>9, RollbackContents, RolledBackContents, UndoneContents
  <2>10. CASE InitDb \/ InitFails \/ Commit \/ Finalize
    BY <1>1, <2>10, InitDbContents, InitFailsContents, CommitContents, FinalizeContents
  <2> QED BY <2>1, <2>2, <2>3, <2>4, <2>5, <2>6, <2>7, <2>8, <2>9, <2>10
       DEF Next, Startup, Failure
<1> QED BY <1>1, <1>2, <1>3 DEF WInv, Contents

----------------------------------------------------------------------------
(***************************************************************************)
(* The theorems about the restore.                                         *)
(***************************************************************************)

\* The shell leaves the backend alone, lets it take a step, or ends it.
LEMMA ShellSteps ==
    ASSUME SNext
    PROVE  Next \/ Killed \/ UNCHANGED vars
<1>1. CASE Ensure \/ Waited \/ Quiesce \/ Release \/ Respawn \/ Terminated \/ Outside
  BY <1>1 DEF Ensure, Waited, Quiesce, Release, Respawn, Terminated, Outside
<1>2. CASE Restart \/ StopCommand
  BY <1>2 DEF Restart, StopCommand
<1>3. CASE Starting \/ Serving \/ Failing
  BY <1>3 DEF Starting, Serving, Failing, Next
<1>4. CASE Refused
  BY <1>4 DEF Refused, Dead, Killed
<1>5. CASE Terminate \/ Exit
  BY <1>5 DEF Terminate, Exit, Dead, Killed, vars
<1> QED BY <1>1, <1>2, <1>3, <1>4, <1>5 DEF SNext

\* A step that leaves the variables alone leaves the invariant.
LEMMA WStutter ==
    ASSUME WInv, UNCHANGED vars
    PROVE  WInv'
  BY DEF WInv, Types, Books, Numbered, NewId, Place, Fresh, Opening, Migrated, Settled,
         Coherent, IsContent, Of, Told, InSwap, Transaction, Part, Progress, Before, New,
         Todo, Taken, Done, Undoable, Home, Undoing, Finalizing, Whole, Present, At, vars, disk

\* The invariant of the restore holds under a backend that is started by hand.
THEOREM WInductive == Spec => []WInv
<1>1. Init => WInv
  BY WInit
<1>2. WInv /\ [Next]_vars => WInv'
  BY WStep, WStutter
<1> QED BY <1>1, <1>2, PTL DEF Spec

\* It holds under the shell, which may end the backend at any step.
THEOREM ShellInductive == SSpec => []WInv
<1>1. SInit => WInv
  BY WInit DEF SInit
<1>2. WInv /\ [SNext]_allVars => WInv'
  BY ShellSteps, WStep, WStutter DEF allVars
<1> QED BY <1>1, <1>2, PTL DEF SSpec

\* The original of every part that was there is on disk until the fence.
LEMMA OriginalsAreKept ==
    ASSUME WInv
    PROVE  OriginalKept
<1> SUFFICES ASSUME Whole(receipt), receipt.phase # "finalizing",
                    NEW p \in PartSet, receipt.had[p]
             PROVE  \/ Present(kept[p]) /\ kept[p].of # receipt.id
                    \/ Present(live[p]) /\ live[p].of # receipt.id
  BY PartKinds DEF OriginalKept
<1>1. /\ Types
      /\ receipt.phase \in Swapping \cup {"finalizing", "rollback_finalizing"}
  BY WholeFiles DEF WInv
<1>2. CASE receipt.phase \in Swapping
  <2>1. PICK c \in 0..MaxRestores : Transaction(c)
    BY <1>2, SwapFacts
  <2>2. Part(p, c) /\ c # receipt.id
    BY <2>1 DEF Transaction
  <2>3. live[p] \in Items
    BY <1>1 DEF Types
  <2> QED BY <2>2, <2>3, ItemFacts DEF Part
<1>3. CASE receipt.phase = "rollback_finalizing"
  BY <1>3 DEF WInv, Undoing, Coherent
<1> QED BY <1>1, <1>2, <1>3

\* What is served is one content, and an accepted content is a sound workspace.
LEMMA ServedIsSound ==
    ASSUME WInv
    PROVE  ServedWorkspaceSound /\ ResultTellsWorkspace
<1> SUFFICES ASSUME At("serving")
             PROVE  ServedWorkspaceSound /\ ResultTellsWorkspace
  BY DEF ServedWorkspaceSound, ResultTellsWorkspace
<1>1. receipt = Absent /\ ~Whole(receipt)
  BY DEF WInv, Place, Fresh, Whole, Absent
<1>2. /\ Coherent(Of) /\ Told(Of) /\ live["database"].schema = Latest
      /\ Whole(marker) => marker.generation = generation
  BY <1>1 DEF WInv, Settled, Migrated, At
<1>3. ResultTellsWorkspace
  BY <1>1, <1>2 DEF ResultTellsWorkspace, Told, Of, Whole
<1>4. PICK n \in Valid : n = chosen[Of]
  BY <1>1, SettledContent
<1>5. n \in Names /\ ValidArchive(Archives[n]) /\ WellFormed(Archives[n].db)
  BY WorkspaceRestoreAssumption DEF Valid, Names
<1>6. ASSUME NEW p \in Extracted(Archives[n]),
             p.root \in {"uploads", "transcripts", "sources"}
      PROVE  p \in LiveFiles
  <2>1. p.root \in Elems(Roots) \ {"audio"}
    BY <1>6, WorkspaceRestoreAssumption DEF ManagedRoots
  <2>2. Present(live[p.root]) /\ live[p.root].of = Of
    BY <1>2, <2>1, PartKinds DEF Coherent
  <2>3. p \in Files[n][p.root]
    BY <1>5, <2>1 DEF Files
  <2> QED BY <1>4, <2>1, <2>2, <2>3 DEF LiveFiles
<1>7. SoundWorkspace(RebasedDatabase(Archives[n].db, DataDir), LiveFiles)
  BY <1>5, <1>6, ImportedIsSound
<1>8. DatabaseOf(live["database"]) = RebasedDatabase(Archives[n].db, DataDir)
  BY <1>4, <1>5 DEF DatabaseOf, Databases, Of
<1>9. ServedWorkspaceSound
  BY <1>2, <1>7, <1>8 DEF ServedWorkspaceSound, Coherent, Of
<1> QED BY <1>3, <1>9

\* The types of the specification are those of the invariant.
LEMMA TypesHold ==
    ASSUME WInv
    PROVE  WTypeOK
<1>1. Types
  BY DEF WInv
<1>2. \A p \in PartSet : /\ live[p].of \in 0..MaxRestores + 1
                         /\ staged[p].of \in 0..MaxRestores + 1
                         /\ kept[p].of \in 0..MaxRestores + 1
  BY <1>1, ItemFacts DEF Types
<1>3. marker.phase \in {"absent", "torn", "queued"}
  BY <1>1 DEF Types, Markers, Absent, Torn
<1>4. receipt.phase \in {"absent", "torn", "swapping", "swapped", "finalizing",
                         "rolling_back", "rollback_finalizing"}
  BY <1>1 DEF Types, Receipts, Swapping, Absent, Torn
<1> QED BY <1>1, <1>2, <1>3, <1>4 DEF WTypeOK, Types, Names, Generations

LEMMA WInvSound == WInv => RestoreSound
  BY TypesHold, OriginalsAreKept, ServedIsSound DEF RestoreSound, RecoverySound

\* Whatever archives are imported, restores interrupted and renames failed, and
\* whoever ends the process: what a restore in progress replaced is on disk, a
\* backend that serves does so on one sound workspace, and the last result and
\* the generation tell which one (workspace_backup.py, lifespan).
THEOREM RestoreStaysSound == Spec => []RestoreSound
  BY WInductive, WInvSound, PTL

\* The same under the shell that owns the process.
THEOREM ShellRestoreStaysSound == SSpec => []RestoreSound
  BY ShellInductive, WInvSound, PTL

\* Behind the commit fence the process is down or finishing the restore.
LEMMA BehindFence ==
    ASSUME WInv, receipt.phase = "finalizing"
    PROVE  proc.pc \in {"down", "finalize"}
  BY DEF WInv, Types, Processes, Places, Place, Opening, Fresh, Absent, At

LEMMA FenceStep ==
    ASSUME WInv, receipt.phase = "finalizing", Next \/ Killed \/ UNCHANGED vars
    PROVE  /\ \A p \in Elems(Roots) \cup {"database"} : live'[p].of = live[p].of
           /\ receipt' = receipt
                \/ (receipt' = Absent /\ generation = receipt.generation + 1
                      /\ marker = Absent /\ result.status = "applied")
<1>1. proc.pc \in {"down", "finalize"}
  BY BehindFence
<1>2. CASE Killed \/ UNCHANGED vars
  BY <1>2 DEF Killed, disk, vars
<1>3. CASE Request
  BY <1>1, <1>3 DEF Request, CreateBackup, Cancel, Cancelable, Stop, Import, Queue,
                    MayQueue, At
<1>4. CASE Failure
  <2>1. Crash
    BY <1>1, <1>4 DEF Failure, CancelCutShort, Cancelable, PrepareTorn,
         PrepareFailsCutShort, SwapFails, InitFails, QueueTorn, MayQueue, At
  <2> QED BY <2>1 DEF Crash, disk
<1>5. CASE Startup
  <2>1. Start \/ Finalize
    BY <1>1, <1>5 DEF Startup, Prepare, SwapOut, SwapIn, Swapped, RolledBack, Undone,
         InitDb, Recovered, Commit, Unwind, Rollback, PrepareFails, At
  <2>2. CASE Start
    BY <2>2 DEF Start, disk
  <2>3. CASE Finalize
    <3>1. At("finalize") /\ live' = live
      BY <2>3 DEF Finalize
    <3>2. proc.i \in Nat /\ (proc.i = 6 => /\ generation = receipt.generation + 1
                                           /\ result.status = "applied" /\ marker = Absent)
      BY <3>1 DEF WInv, Types, Processes, Finalizing
    <3> QED BY <2>3, <3>1, <3>2 DEF Finalize
  <2> QED BY <2>1, <2>2, <2>3
<1> QED BY <1>2, <1>3, <1>4, <1>5 DEF Next

\* Once the receipt says "finalizing" no part is moved back, and the receipt is
\* removed only with the generation, the result and the marker in place
\* (comment at workspace_backup.py:1519).
THEOREM CommitStaysFinal == Spec => CommitIsFinal
<1>1. WInv /\ [Next]_vars =>
        [receipt.phase = "finalizing" =>
           /\ \A p \in Elems(Roots) \cup {"database"} : live'[p].of = live[p].of
           /\ receipt' = receipt
                \/ (receipt' = Absent /\ generation = receipt.generation + 1
                      /\ marker = Absent /\ result.status = "applied")]_vars
  BY FenceStep
<1> QED BY <1>1, WInductive, PTL DEF Spec, CommitIsFinal

\* The same under the shell.
THEOREM ShellCommitStaysFinal == SSpec => CommitIsFinal
<1>1. WInv /\ [SNext]_allVars =>
        [receipt.phase = "finalizing" =>
           /\ \A p \in Elems(Roots) \cup {"database"} : live'[p].of = live[p].of
           /\ receipt' = receipt
                \/ (receipt' = Absent /\ generation = receipt.generation + 1
                      /\ marker = Absent /\ result.status = "applied")]_vars
  BY FenceStep, ShellSteps DEF allVars
<1> QED BY <1>1, ShellInductive, PTL DEF SSpec, CommitIsFinal

----------------------------------------------------------------------------
(***************************************************************************)
(* The shell and its sidecar.                                              *)
(***************************************************************************)

\* A token is given once, so the exit event of an earlier child is not taken
\* for that of the one that runs; a command has it down before the ownership
\* is released, and ends only one that has stopped its workers.
ShellInv ==
    /\ spawns \in Nat /\ alive \in 0..spawns /\ exited \subseteq 1..spawns
    /\ alive # 0 => owned = alive /\ alive \notin exited
    /\ AtStep("release") => alive = 0
    /\ AtStep("terminate") /\ alive # 0 => quiesced /\ At("serving")

LEMMA ShellInit == SInit => ShellInv
  BY DEF SInit, ShellInv, AtStep, Idle

\* The page, restart and the shell's own start never run a second sidecar.
LEMMA EnsureStep ==
    ASSUME ShellInv, NEW force \in BOOLEAN, EnsureInner(force), UNCHANGED proc
    PROVE  ShellInv'
<1>1. ~AtStep("release")' /\ ~AtStep("terminate")'
  BY DEF EnsureInner, Answer, Idle, In, AtStep
<1>2. CASE UNCHANGED <<owned, alive, port, exited, quiesced, spawns>>
  BY <1>1, <1>2 DEF ShellInv
<1>3. CASE owned = 0 /\ Spawn
  BY <1>1, <1>3 DEF ShellInv, Spawn
<1> QED BY <1>2, <1>3 DEF EnsureInner

\* A backend that serves and is not asked anything stays there or goes down.
LEMMA ServingStays ==
    ASSUME At("serving")
    PROVE  ~Startup /\ (Failure => proc' = proc \/ proc'.pc = "down")
<1>1. ~Startup
  BY DEF Startup, Start, Prepare, SwapOut, SwapIn, Swapped, RolledBack, Undone, InitDb,
         Recovered, Commit, Finalize, Unwind, Rollback, PrepareFails, At
<1>2. ASSUME Failure PROVE proc' = proc \/ proc'.pc = "down"
  <2>1. Down.pc = "down"
    BY DEF Down
  <2> QED BY <1>2, <2>1 DEF Failure, CancelCutShort, PrepareTorn, PrepareFailsCutShort,
        SwapFails, InitFails, Crash, QueueTorn, Die, At
<1> QED BY <1>1, <1>2

\* A step of the backend ends it, or leaves it the one that runs.
LEMMA ProcessStep ==
    ASSUME ShellInv, alive # 0, Process,
           AtStep("terminate") => proc'.pc \in {"serving", "down"}
    PROVE  ShellInv'
<1>1. UNCHANGED <<owned, quiesced, command, spawns>>
  BY DEF Process
<1>2. CASE proc'.pc = "down"
  <2>1. alive' = 0 /\ exited' = exited \cup {alive}
    BY <1>2 DEF Process
  <2> QED BY <1>1, <2>1 DEF ShellInv, AtStep
<1>3. CASE proc'.pc # "down"
  <2>1. UNCHANGED <<alive, exited>>
    BY <1>3 DEF Process
  <2> QED BY <1>1, <1>3, <2>1 DEF ShellInv, AtStep, At
<1> QED BY <1>2, <1>3

LEMMA ShellStep ==
    ASSUME ShellInv, [SNext]_allVars
    PROVE  ShellInv' /\ (AtStep("terminate") /\ alive' # alive => quiesced /\ At("serving"))
<1>1. CASE Ensure
  <2>1. ShellInv'
    BY <1>1, EnsureStep DEF Ensure, vars
  <2> QED BY <1>1, <2>1 DEF Ensure, AtStep
<1>2. CASE Respawn
  <2>1. ShellInv'
    BY <1>2, EnsureStep DEF Respawn, vars
  <2> QED BY <1>2, <2>1 DEF Respawn, AtStep
<1>3. CASE Waited \/ Restart \/ StopCommand
  <2>1. UNCHANGED <<owned, alive, port, exited, quiesced, spawns, vars>>
    BY <1>3 DEF Waited, Restart, StopCommand
  <2>2. command'.step \in {"idle", "spawn", "quiesce"}
    BY <1>3 DEF Waited, Restart, StopCommand, Answer, In, Idle
  <2> QED BY <2>1, <2>2 DEF ShellInv, AtStep
<1>4. CASE Quiesce
  BY <1>4 DEF Quiesce, Answer, In, Idle, ShellInv, AtStep, At, vars
<1>5. CASE Release
  BY <1>5 DEF Release, Answer, In, Idle, ShellInv, AtStep, At, vars
<1>6. CASE Terminated \/ Outside
  BY <1>6 DEF Terminated, Outside, ShellInv, AtStep, At, vars
<1>7. CASE Terminate
  <2>1. command'.step = "release" /\ UNCHANGED <<owned, quiesced, spawns>>
    BY <1>7 DEF Terminate, In
  <2>2. alive' = 0 /\ exited' \subseteq 1..spawns
    <3>1. CASE owned # 0 /\ alive = owned
      <4>1. alive \in 1..spawns
        BY <3>1 DEF ShellInv
      <4> QED BY <1>7, <3>1, <4>1 DEF Terminate, Dead, ShellInv
    <3>2. CASE ~(owned # 0 /\ alive = owned)
      BY <1>7, <3>2 DEF Terminate, ShellInv
    <3> QED BY <3>1, <3>2
  <2> QED BY <1>7, <2>1, <2>2 DEF Terminate, ShellInv, AtStep
<1>8. CASE Exit
  <2>1. alive' = 0 /\ exited' \subseteq 1..spawns
    <3>1. CASE owned # 0 /\ alive = owned
      <4>1. alive \in 1..spawns
        BY <3>1 DEF ShellInv
      <4> QED BY <1>8, <3>1, <4>1 DEF Exit, Dead, ShellInv
    <3>2. CASE ~(owned # 0 /\ alive = owned)
      BY <1>8, <3>2 DEF Exit, ShellInv
    <3> QED BY <3>1, <3>2
  <2> QED BY <1>8, <2>1 DEF Exit, ShellInv, AtStep
<1>9. CASE Refused
  <2>1. alive' = 0 /\ exited' \subseteq 1..spawns
    BY <1>9 DEF Refused, Dead, ShellInv
  <2> QED BY <1>9, <2>1 DEF Refused, ShellInv, AtStep
<1>10. CASE Starting
  <2>1. alive # 0 /\ Process /\ ~At("serving")
    BY <1>10, ServingStays DEF Starting
  <2>2. ~AtStep("terminate")
    BY <2>1 DEF ShellInv
  <2> QED BY <2>1, <2>2, ProcessStep
<1>11. CASE Serving
  <2>1. alive # 0 /\ Process /\ ~AtStep("terminate")
    BY <1>11 DEF Serving, ShellInv
  <2> QED BY <2>1, ProcessStep
<1>12. CASE Failing
  <2>1. alive # 0 /\ Process
    BY <1>12 DEF Failing
  <2>2. AtStep("terminate") => quiesced /\ At("serving") /\ proc'.pc \in {"serving", "down"}
    BY <1>12, <2>1, ServingStays DEF Failing, ShellInv, At
  <2> QED BY <2>1, <2>2, ProcessStep
<1>13. CASE UNCHANGED allVars
  BY <1>13 DEF allVars, shellVars, vars, ShellInv, AtStep, At
<1> QED BY <1>1, <1>2, <1>3, <1>4, <1>5, <1>6, <1>7, <1>8, <1>9, <1>10, <1>11, <1>12,
           <1>13 DEF SNext

\* A sidecar that runs is the one the shell owns, whichever exit events are
\* late, and stop and restart end it only behind a confirmed quiesce
\* (start_sidecar, stop_owned_backend, the Terminated handler of backend.rs).
THEOREM ShellStaysSafe == SSpec => ShellSafe
<1>1. ShellInv => SidecarOwned
  BY DEF ShellInv, SidecarOwned
<1>2. ShellInv /\ [SNext]_allVars =>
        /\ ShellInv'
        /\ [AtStep("terminate") /\ alive' # alive => quiesced /\ At("serving")]_allVars
  BY ShellStep
<1> QED BY <1>1, <1>2, ShellInit, PTL DEF SSpec, ShellSafe, StoppedWhenSafe
=============================================================================
