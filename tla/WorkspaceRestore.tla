-------------------------- MODULE WorkspaceRestore --------------------------
(***************************************************************************)
(* Backup and restart-bound restore of the workspace, and the startup that *)
(* applies it (backend/app/workspace_backup.py; lifespan and the workspace *)
(* endpoints of main.py; init_db and apply_migrations).                    *)
(*                                                                         *)
(* The workspace is a list of parts: the managed roots, the files SQLite   *)
(* keeps beside the database, the database.  A restore moves every part to *)
(* the transaction directory ("kept") and the extracted one into place,    *)
(* one rename at a time, with a receipt on disk that says how far it is.   *)
(* A content is the restore it came from, 0 for the original workspace.    *)
(* A step is one file operation; the process may die after each of them.   *)
(***************************************************************************)
EXTENDS WorkspaceArchive

CONSTANTS Roots,       \* the managed roots, in the order they are replaced
          Sidecars,    \* the files SQLite keeps beside the database
          Archives,    \* name -> archive: what a user may import
          Original,    \* the name that describes the original workspace
          MaxRestores, \* bound: restores ever queued
          MaxFaults    \* bound: crashes and failed file operations

Parts == Roots \o Sidecars \o <<"database">>
PartSet == Elems(Parts)
RollbackOrder == [i \in DOMAIN Roots |-> Roots[Len(Roots) + 1 - i]]
                   \o Sidecars \o <<"database">>
Restored(p) == p \notin Elems(Sidecars)

ASSUME WorkspaceRestoreAssumption ==
    /\ Roots \in Seq(ManagedRoots) /\ Elems(Roots) = ManagedRoots
    /\ Sidecars \in Seq(STRING) /\ Distinct(Parts)
    /\ NoValue \notin DOMAIN Archives
    /\ \A a \in DOMAIN Archives : WellFormed(Archives[a].db)
    /\ Original \in DOMAIN Archives /\ ValidArchive(Archives[Original])
    /\ MaxRestores \in Nat /\ MaxFaults \in Nat

VARIABLES live,       \* the parts in the workspace
          staged,     \* the parts in the transaction's "extracted"
          kept,       \* the parts in the transaction's "rollback"
          marker,     \* pending-restore.json
          receipt,    \* restore-receipt.json
          copies,     \* restores whose queued copy is in the queue directory
          result,     \* last-restore-result.json
          generation, \* workspace-state.json
          backups,    \* names of the archives in the backup directory
          chosen,     \* per restore: the archive it was queued from
          proc,       \* the backend process: its place in the code and locals
          faults

disk == <<live, staged, kept, marker, receipt, copies, result, generation>>
vars == <<disk, backups, chosen, proc, faults>>

Ids == 1..MaxRestores
Nothing == [of |-> MaxRestores + 1, schema |-> 0]
Absent == [id |-> 0, phase |-> "absent"]
Torn == [id |-> 0, phase |-> "torn"]

Empty == [p \in PartSet |-> Nothing]
Content(id, p) ==
    [of |-> id, schema |-> IF p = "database" THEN Archives[chosen[id]].db.schema ELSE 0]
Present(c) == c # Nothing

Whole(file) == file.phase \notin {"absent", "torn"}
At(pc) == proc.pc = pc
Down == [pc |-> "down", i |-> 1, staging |-> 0, failed |-> FALSE, after |-> "none"]
Goto(pc) == proc' = [proc EXCEPT !.pc = pc, !.i = 1, !.failed = FALSE]
NextStep == proc' = [proc EXCEPT !.i = @ + 1]
Die == proc' = Down
Fault == faults < MaxFaults /\ faults' = faults + 1

\* What the archives hold and which are accepted, by name.
Names == DOMAIN Archives
Valid == {a \in Names : ValidArchive(Archives[a])}
Rebasable == {a \in Valid : MayRebase(Archives[a].db, Archives[a].manifest.base)}
Databases == [a \in Names |-> RebasedDatabase(Archives[a].db, DataDir)]
Files == [a \in Names |-> [r \in Elems(Roots) |->
            {p \in Extracted(Archives[a]) : p.root = r}]]

DatabaseOf(c) == Databases[chosen[c.of]]
LiveFiles == UNION {Files[chosen[live[r].of]][r] :
                      r \in {x \in Elems(Roots) : Present(live[x])}}

\* The live workspace as create_workspace_backup would find it.
MayBackUp ==
    ValidReferences(DatabaseOf(live["database"]), DataDir, LiveFiles \cup {Database})

Init == /\ \E missing \in {{}, {"audio"}} :
             live = [p \in PartSet |->
                      IF p \in Elems(Sidecars) \cup missing THEN Nothing
                      ELSE [of |-> 0, schema |-> IF p = "database" THEN Latest ELSE 0]]
        /\ staged = Empty /\ kept = Empty
        /\ marker = Absent /\ receipt = Absent
        /\ copies = {} /\ result = [id |-> 0, status |-> "none", generation |-> 1]
        /\ generation = 1
        /\ backups = {}
        /\ chosen = [id \in 0..MaxRestores |-> IF id = 0 THEN Original ELSE NoValue]
        /\ proc = Down
        /\ faults = 0

----------------------------------------------------------------------------
(* Requests, under the lifecycle lock and _RESTORE_LOCK.                   *)

\* The live workspace as an archive; what is refused is unlinked again.
CreateBackup ==
    /\ At("serving")
    /\ MayBackUp
    /\ backups' = backups \cup {chosen[live["database"].of]}
    /\ UNCHANGED <<disk, chosen, proc, faults>>

Import(a) ==
    /\ At("serving")
    /\ a \in Valid
    /\ backups' = backups \cup {a}
    /\ UNCHANGED <<disk, chosen, proc, faults>>

NewId == Cardinality({id \in Ids : chosen[id] # NoValue}) + 1
Pending == marker # Absent \/ receipt # Absent
MayQueue(a) == At("serving") /\ ~Pending /\ a \in backups
                 /\ a \in Valid /\ NewId \in Ids

Queue(a) ==
    /\ MayQueue(a)
    /\ copies' = copies \cup {NewId}
    /\ chosen' = [chosen EXCEPT ![NewId] = a]
    /\ marker' = [id |-> NewId, phase |-> "queued", generation |-> generation]
    /\ UNCHANGED <<live, staged, kept, receipt, result, generation, backups, proc, faults>>

\* The marker is written in place: a write that fails, or a process that dies
\* in it, leaves the file there and what it holds unreadable.
QueueTorn(a) ==
    /\ MayQueue(a) /\ Fault
    /\ copies' = copies \cup {NewId}
    /\ chosen' = [chosen EXCEPT ![NewId] = a]
    /\ marker' \in {Absent, Torn}
    /\ proc' \in IF marker' = Torn THEN {proc, Down} ELSE {Down}
    /\ UNCHANGED <<live, staged, kept, receipt, result, generation, backups>>

Outcome(id, status, g) == result' = [id |-> id, status |-> status, generation |-> g]

Cancelable == At("serving") /\ marker # Absent /\ receipt = Absent

Cancel ==
    /\ Cancelable /\ Whole(marker)
    /\ marker' = Absent
    /\ copies' = copies \ {marker.id}
    /\ Outcome(marker.id, "canceled", marker.generation)
    /\ UNCHANGED <<live, staged, kept, receipt, generation, backups, chosen, proc, faults>>

CancelCutShort ==
    /\ Cancelable /\ Whole(marker) /\ Fault
    /\ marker' = Absent
    /\ copies' \in {copies, copies \ {marker.id}}
    /\ Die
    /\ UNCHANGED <<live, staged, kept, receipt, result, generation, backups, chosen>>

\* A clean exit checkpoints the database: SQLite removes the files beside it.
Stop ==
    /\ At("serving")
    /\ live' = [p \in PartSet |-> IF p \in Elems(Sidecars) THEN Nothing ELSE live[p]]
    /\ Die
    /\ UNCHANGED <<staged, kept, marker, receipt, copies, result, generation,
                   backups, chosen, faults>>

----------------------------------------------------------------------------
(* apply_pending_workspace_restore.  A torn receipt or marker raises: the  *)
(* process never gets past this point.                                     *)

\* Mutants: phases taken for unknown, and a commit taken for a swap.
StartPcForgets ==
    IF receipt = Absent THEN IF marker = Absent THEN "init"
                             ELSE IF Whole(marker) THEN "prepare" ELSE "down"
    ELSE IF receipt.phase = "swapping" THEN "rollback"
    ELSE IF receipt.phase = "rollback_finalizing" THEN "undone"
    ELSE IF receipt.phase = "swapped" THEN "init"
    ELSE IF receipt.phase = "finalizing" THEN "finalize" ELSE "down"
StartPcUndoes ==
    IF receipt = Absent THEN IF marker = Absent THEN "init"
                             ELSE IF Whole(marker) THEN "prepare" ELSE "down"
    ELSE IF receipt.phase = "rollback_finalizing" THEN "undone"
    ELSE IF receipt.phase = "swapped" THEN "init"
    ELSE IF Whole(receipt) THEN "rollback" ELSE "down"

StartPc ==
    CASE receipt = Absent /\ marker = Absent                -> "init"
      [] receipt = Absent /\ Whole(marker)                  -> "prepare"
      [] receipt.phase \in {"swapping", "rolling_back"}     -> "rollback"
      [] receipt.phase = "rollback_finalizing"              -> "undone"
      [] receipt.phase = "swapped"                          -> "init"
      [] receipt.phase = "finalizing"                       -> "finalize"
      [] OTHER                                              -> "down"

StartMutant == \* the staged restore is not handed to the lifespan
    /\ At("down") /\ StartPc # "down"
    /\ proc' = [Down EXCEPT !.pc = StartPc, !.after = "init"]
    /\ UNCHANGED <<disk, backups, chosen, faults>>

Start ==
    /\ At("down") /\ StartPc # "down"
    /\ proc' = [Down EXCEPT !.pc = StartPc, !.after = "init",
                            !.staging = IF receipt.phase = "swapped" THEN receipt.id ELSE 0]
    /\ UNCHANGED <<disk, backups, chosen, faults>>

\* The queued copy is there, is accepted and rebases, and the workspace it
\* replaces can be backed up.
Usable == /\ marker.id \in copies
          /\ chosen[marker.id] \in Rebasable
          /\ MayBackUp

Receipt(phase) ==
    [id |-> marker.id, phase |-> phase, generation |-> marker.generation,
     had |-> [p \in PartSet |-> Present(live[p])]]

Prepare ==
    /\ At("prepare") /\ Usable
    /\ backups' = backups \cup {chosen[live["database"].of]}
    /\ staged' = [p \in PartSet |-> IF Restored(p) THEN Content(marker.id, p) ELSE Nothing]
    /\ kept' = Empty
    /\ receipt' = Receipt("swapping")
    /\ Goto("out")
    /\ UNCHANGED <<live, marker, copies, result, generation, chosen, faults>>

\* The receipt is written in place too.
PrepareTorn ==
    /\ At("prepare") /\ Usable /\ Fault
    /\ receipt' \in {Absent, Torn}
    /\ Die
    /\ UNCHANGED <<live, staged, kept, marker, copies, result, generation, backups, chosen>>

\* _fail_pending_restore: quarantine, then the marker, then the result.
PrepareFails ==
    /\ At("prepare")
    /\ \/ ~Usable /\ UNCHANGED faults
       \/ Fault
    /\ copies' = copies \ {marker.id}
    /\ marker' = Absent
    /\ Outcome(marker.id, "failed", marker.generation)
    /\ Goto("init")
    /\ UNCHANGED <<live, staged, kept, receipt, generation, backups, chosen>>

\* It dies between the quarantine and the result; with the copy gone and the
\* marker there the next start fails the restore again.
PrepareFailsCutShort ==
    /\ At("prepare") /\ Fault
    /\ copies' = copies \ {marker.id}
    /\ marker' \in {marker, Absent}
    /\ Die
    /\ UNCHANGED <<live, staged, kept, receipt, result, generation, backups, chosen>>

----------------------------------------------------------------------------
(* The swap.                                                               *)

SwapOutMutant == \* the WAL of the old database is left beside the new one
    LET p == Parts[proc.i] IN
    /\ At("out")
    /\ kept' = [kept EXCEPT ![p] = IF Restored(p) THEN live[p] ELSE Nothing]
    /\ live' = [live EXCEPT ![p] = IF Restored(p) THEN Nothing ELSE @]
    /\ proc' = [proc EXCEPT !.pc = IF Restored(p) THEN "in" ELSE "out",
                            !.i = IF Restored(p) THEN @ ELSE @ + 1]
    /\ UNCHANGED <<staged, marker, receipt, copies, result, generation,
                   backups, chosen, faults>>

SwapOut ==
    LET p == Parts[proc.i] IN
    /\ At("out")
    /\ kept' = [kept EXCEPT ![p] = live[p]]
    /\ live' = [live EXCEPT ![p] = Nothing]
    /\ proc' = [proc EXCEPT !.pc = "in"]
    /\ UNCHANGED <<staged, marker, receipt, copies, result, generation,
                   backups, chosen, faults>>

SwapIn ==
    LET p == Parts[proc.i] IN
    /\ At("in")
    /\ live' = [live EXCEPT ![p] = staged[p]]
    /\ staged' = [staged EXCEPT ![p] = Nothing]
    /\ proc' = IF proc.i < Len(Parts) THEN [proc EXCEPT !.pc = "out", !.i = @ + 1]
               ELSE [proc EXCEPT !.pc = "check"]
    /\ UNCHANGED <<kept, marker, receipt, copies, result, generation,
                   backups, chosen, faults>>

Swapped ==
    /\ At("check")
    /\ receipt' = [receipt EXCEPT !.phase = "swapped"]
    /\ proc' = [proc EXCEPT !.pc = "init", !.staging = receipt.id]
    /\ UNCHANGED <<live, staged, kept, marker, copies, result, generation,
                   backups, chosen, faults>>

SwapFails ==
    /\ proc.pc \in {"out", "in", "check"} /\ Fault
    /\ Goto("unwind")
    /\ UNCHANGED <<disk, backups, chosen>>

\* One part of either rollback: what is in the way goes to "failed", the
\* original comes back.  Either move may fail; the others are still tried.
PutBack(p, displace) ==
    \/ /\ live' = [live EXCEPT ![p] = IF Present(kept[p]) THEN kept[p]
                                      ELSE IF displace THEN Nothing ELSE @]
       /\ kept' = [kept EXCEPT ![p] = Nothing]
       /\ NextStep /\ UNCHANGED faults
    \/ /\ Fault
       /\ Present(kept[p]) \/ (displace /\ Present(live[p]))
       /\ live' \in {live, [live EXCEPT ![p] = IF Present(kept[p]) THEN Nothing ELSE @]}
       /\ proc' = [proc EXCEPT !.i = @ + 1, !.failed = TRUE]
       /\ UNCHANGED kept

\* _rollback_workspace_swap: the parts the swap had reached are those whose
\* extracted copy is gone or whose original is kept.
Reached(p) == Present(kept[p]) \/ (Restored(p) /\ ~Present(staged[p]))

Unwind ==
    /\ At("unwind") /\ proc.i <= Len(Parts)
    /\ PutBack(RollbackOrder[proc.i], Reached(RollbackOrder[proc.i]))
    /\ UNCHANGED <<staged, marker, receipt, copies, result, generation, backups, chosen>>

\* _rollback_workspace_from_receipt: a part that was there and is not kept was
\* never moved; one that was not there is displaced once it was published.
RollbackMutant == \* what is not kept is taken for what was published
    LET p == RollbackOrder[proc.i] IN
    /\ At("rollback") /\ proc.i <= Len(Parts)
    /\ PutBack(p, ~Present(kept[p]))
    /\ UNCHANGED <<staged, marker, receipt, copies, result, generation, backups, chosen>>

Rollback ==
    LET p == RollbackOrder[proc.i] IN
    /\ At("rollback") /\ proc.i <= Len(Parts)
    /\ PutBack(p, ~receipt.had[p] /\ (Restored(p) => ~Present(staged[p])))
    /\ UNCHANGED <<staged, marker, receipt, copies, result, generation, backups, chosen>>

\* Errors keep the transaction and end the process; otherwise the fence.
RolledBack ==
    /\ proc.pc \in {"unwind", "rollback"} /\ proc.i > Len(Parts)
    /\ IF proc.failed THEN Die /\ UNCHANGED receipt
       ELSE /\ receipt' = [receipt EXCEPT !.phase = "rollback_finalizing"]
            /\ Goto("undone")
    /\ UNCHANGED <<live, staged, kept, marker, copies, result, generation,
                   backups, chosen, faults>>

\* _finish_rollback_finalizing_restore: archive, marker, transaction, result,
\* and the receipt last.
Undone ==
    /\ At("undone")
    /\ copies' = IF proc.i = 1 THEN copies \ {receipt.id} ELSE copies
    /\ marker' = IF proc.i = 2 THEN Absent ELSE marker
    /\ staged' = IF proc.i = 3 THEN Empty ELSE staged
    /\ kept' = IF proc.i = 3 THEN Empty ELSE kept
    /\ IF proc.i = 4 THEN Outcome(receipt.id, "failed", receipt.generation)
       ELSE UNCHANGED result
    /\ IF proc.i = 5 THEN receipt' = Absent /\ proc' = [Down EXCEPT !.pc = "init"]
       ELSE UNCHANGED receipt /\ NextStep
    /\ UNCHANGED <<live, generation, backups, chosen, faults>>

----------------------------------------------------------------------------
(* lifespan: initialise the selected workspace, then commit or roll back.  *)

\* init_db: one transaction brings the schema to Latest; opening the database
\* in WAL mode creates the files beside it.
InitDb ==
    /\ At("init")
    /\ live' = [p \in PartSet |->
                 IF p \in Elems(Sidecars) /\ ~Present(live[p])
                   THEN [of |-> live["database"].of, schema |-> 0]
                 ELSE IF p = "database" THEN [live[p] EXCEPT !.schema = Latest]
                 ELSE live[p]]
    /\ Goto("recover")
    /\ UNCHANGED <<staged, kept, marker, receipt, copies, result, generation,
                   backups, chosen, faults>>

Recovered ==
    /\ At("recover")
    /\ Goto(IF proc.staging = 0 THEN "serving" ELSE "commit")
    /\ UNCHANGED <<disk, backups, chosen, faults>>

\* Either step of the initialisation raises.
InitFails ==
    /\ proc.pc \in {"init", "recover"} /\ Fault
    /\ IF proc.staging = 0 THEN Die /\ UNCHANGED receipt
       ELSE /\ receipt' = [receipt EXCEPT !.phase = "rolling_back"]
            /\ proc' = [Down EXCEPT !.pc = "rollback"]
    /\ UNCHANGED <<live, staged, kept, marker, copies, result, generation, backups, chosen>>

\* finalize_pending_workspace_restore: the receipt is the commit fence.
Commit ==
    /\ At("commit")
    /\ receipt' = [receipt EXCEPT !.phase = "finalizing"]
    /\ proc' = [Down EXCEPT !.pc = "finalize", !.after = "serving"]
    /\ UNCHANGED <<live, staged, kept, marker, copies, result, generation,
                   backups, chosen, faults>>

\* _finish_finalizing_restore: generation, result, marker, archive,
\* transaction, and the receipt last.
Finalize ==
    /\ At("finalize")
    /\ generation' = IF proc.i = 1 THEN receipt.generation + 1 ELSE generation
    /\ IF proc.i = 2 THEN Outcome(receipt.id, "applied", receipt.generation + 1)
       ELSE UNCHANGED result
    /\ marker' = IF proc.i = 3 THEN Absent ELSE marker
    /\ copies' = IF proc.i = 4 THEN copies \ {receipt.id} ELSE copies
    /\ staged' = IF proc.i = 5 THEN Empty ELSE staged
    /\ kept' = IF proc.i = 5 THEN Empty ELSE kept
    /\ IF proc.i = 6 THEN receipt' = Absent /\ proc' = [Down EXCEPT !.pc = proc.after]
       ELSE UNCHANGED receipt /\ NextStep
    /\ UNCHANGED <<live, backups, chosen, faults>>

\* The process dies, or a file operation outside the swap raises out of the
\* lifespan: the same on disk.
Crash ==
    /\ ~At("down") /\ Fault
    /\ Die
    /\ UNCHANGED <<disk, backups, chosen>>

Request == \/ CreateBackup \/ Cancel \/ Stop
           \/ \E a \in DOMAIN Archives : Import(a) \/ Queue(a)
Startup == \/ Start \/ Prepare \/ SwapOut \/ SwapIn \/ Swapped \/ RolledBack
           \/ Undone \/ InitDb \/ Recovered \/ Commit \/ Finalize \/ Unwind \/ Rollback
           \/ PrepareFails
Failure == \/ CancelCutShort \/ PrepareTorn \/ PrepareFailsCutShort \/ SwapFails \/ InitFails \/ Crash
           \/ \E a \in DOMAIN Archives : QueueTorn(a)

Next == Request \/ Startup \/ Failure
Spec == Init /\ [][Next]_vars

\* Somebody starts the backend again, and a process that runs takes its steps.
Fairness == WF_vars(Startup)
FairSpec == Spec /\ Fairness

----------------------------------------------------------------------------
(* Properties.                                                             *)

WTypeOK ==
    /\ \A p \in PartSet : {live[p].of, staged[p].of, kept[p].of} \subseteq 0..MaxRestores + 1
    /\ marker.phase \in {"absent", "torn", "queued"}
    /\ receipt.phase \in {"absent", "torn", "swapping", "swapped", "finalizing",
                         "rolling_back", "rollback_finalizing"}
    /\ copies \subseteq Ids /\ backups \subseteq DOMAIN Archives
    /\ result.status \in {"none", "applied", "failed", "canceled"}
    /\ generation \in 1..MaxRestores + 1 /\ faults \in 0..MaxFaults

\* Until the commit fence the original of every part that was there is on
\* disk: in the transaction, or still (or again) in its place.
OriginalKept ==
    Whole(receipt) /\ receipt.phase # "finalizing" =>
      \A p \in Elems(Roots) \cup {"database"} : receipt.had[p] =>
        \/ Present(kept[p]) /\ kept[p].of # receipt.id
        \/ Present(live[p]) /\ live[p].of # receipt.id

\* Whatever was interrupted, the restore on disk can be undone or completed
\* (swap, receipt phases and both rollbacks of workspace_backup.py).
RecoverySound == WTypeOK /\ OriginalKept

\* A backend that serves does so on one workspace: parts of one content, the
\* WAL of that database, the newest schema, rows that find their files under
\* this data directory, no file with two owners (lifespan; comment at
\* workspace_backup.py:1090).
ServedWorkspaceSound ==
    At("serving") =>
      /\ \A p \in PartSet : Present(live[p]) => live[p].of = live["database"].of
      /\ live["database"].schema = Latest
      /\ SoundWorkspace(DatabaseOf(live["database"]), LiveFiles)

\* What the status endpoint says is what is being served: the generation
\* counts the restores that took effect, and the last result tells which.
ResultTellsWorkspace ==
    At("serving") =>
      /\ receipt = Absent \/ receipt = Torn
      /\ result.status = "applied" => result.id = live["database"].of
      /\ result.status # "none" => result.generation = generation
      /\ marker.phase = "queued" => marker.generation = generation

\* The restore on disk, the workspace that is served and the answer agree.
RestoreSound == RecoverySound /\ ServedWorkspaceSound /\ ResultTellsWorkspace

\* Behind the commit fence nothing is moved back: the workspace stays, and the
\* receipt goes last (comment at workspace_backup.py:1519).
CommitIsFinal ==
    [][receipt.phase = "finalizing" =>
         /\ \A p \in Elems(Roots) \cup {"database"} : live'[p].of = live[p].of
         /\ receipt' = receipt
              \/ (receipt' = Absent /\ generation = receipt.generation + 1
                    /\ marker = Absent /\ result.status = "applied")]_vars

\* Once the receipt is written the restore settles, either way, however often
\* the process dies: somebody starting it again is enough.
RestoreSettles == Whole(receipt) ~> receipt = Absent

\* "A queued restore can be canceled before restart"
\* (docs/productization-log.md:1816).
QueuedCanBeCanceled == Cancelable => Whole(marker)
=============================================================================
