--------------------------- MODULE ControllerRun ---------------------------
(***************************************************************************)
(* The folder of one controller experiment (rag_lab/                       *)
(* run_controller_experiment.py): a new run creates it, a killed or failed *)
(* one is resumed in it, by whoever holds the sibling lock file.           *)
(***************************************************************************)
EXTENDS Naturals, Sequences, FiniteSets, SequencesExt

CONSTANTS Runners,     \* processes started on the folder
          Questions,   \* the frozen question set, in order
          MaxEnds      \* bound: runs that were killed or failed

ASSUME ExperimentAssumption ==
    /\ Questions \in Seq(ToSet(Questions)) /\ IsInjective(Questions) /\ Len(Questions) > 0
    /\ {"none", "torn"} \cap ToSet(Questions) = {}
    /\ MaxEnds \in Nat

VARIABLES
    folder,   \* protocol, memory, manifest, the lines of episodes.jsonl, metrics
    locked,   \* the lock file is there
    runner,   \* runner -> [at, done, hashed, cut]
    ends

experimentVars == <<folder, locked, runner, ends>>

Asked       == ToSet(Questions)
NoManifest  == [status |-> "none", done |-> {}, hashed |-> FALSE, recovered |-> FALSE]
Away        == [at |-> "away", done |-> {}, hashed |-> FALSE, cut |-> FALSE]
EmptyFolder == [there |-> FALSE, protocol |-> FALSE, memory |-> FALSE,
                manifest |-> NoManifest, lines |-> <<>>, tail |-> "none", metrics |-> FALSE]

ExperimentInit ==
    /\ folder = EmptyFolder /\ locked = FALSE /\ ends = 0
    /\ runner = [w \in Runners |-> Away]

On(w, at) == runner[w].at = at
Move(w, at) == runner' = [runner EXCEPT ![w].at = at]
Release(w) == locked' = FALSE /\ runner' = [runner EXCEPT ![w] = Away]
Manifest(w, status) ==
    [status |-> status, done |-> runner[w].done,
     hashed |-> runner[w].hashed, recovered |-> folder.manifest.recovered \/ runner[w].cut]
Save(w, status) == folder' = [folder EXCEPT !.manifest = Manifest(w, status)]

----------------------------------------------------------------------------
(* Taking the lock: a new run, or the resume of this one.                  *)

StartNewRun(w) ==
    /\ On(w, "away") /\ ~locked
    /\ \A v \in Runners : On(v, "away")
    /\ folder = EmptyFolder
    /\ locked' = TRUE /\ Move(w, "folder") /\ UNCHANGED <<folder, ends>>

\* A folder that is not there is refused after the lock was taken.
ResumeRun(w) ==
    /\ On(w, "away") /\ ~locked
    /\ IF folder.there THEN locked' = TRUE /\ Move(w, "load")
       ELSE UNCHANGED <<locked, runner>>
    /\ UNCHANGED <<folder, ends>>

\* The files of a new run, one after the other.
WriteFolder(w) ==
    /\ \/ On(w, "folder") /\ Move(w, "protocol")
          /\ folder' = [folder EXCEPT !.there = TRUE]
       \/ On(w, "protocol") /\ Move(w, "memory")
          /\ folder' = [folder EXCEPT !.protocol = TRUE]
       \/ On(w, "memory") /\ Move(w, "manifest")
          /\ folder' = [folder EXCEPT !.memory = TRUE]
       \/ On(w, "manifest") /\ Move(w, "episode") /\ Save(w, "running")
    /\ UNCHANGED <<locked, ends>>

\* Anything missing or inconsistent ends the resume before it writes.
LoadRefuses(w) ==
    /\ On(w, "load")
    /\ \/ ~folder.protocol \/ ~folder.memory \/ folder.manifest = NoManifest
       \/ folder.manifest.hashed /\ ~folder.metrics
       \/ folder.tail # "torn" /\ ~IsInjective(folder.lines)
    /\ Release(w) /\ UNCHANGED <<folder, ends>>

\* _load_completed_traces: a torn last record is cut off, a whole one gets its
\* end of line.
LoadEpisodes(w) ==
    /\ On(w, "load")
    /\ folder.protocol /\ folder.memory /\ folder.manifest # NoManifest
    /\ folder.manifest.hashed => folder.metrics
    /\ LET lines == IF folder.tail \in Asked THEN Append(folder.lines, folder.tail)
                    ELSE folder.lines
       IN  /\ IsInjective(lines)
           /\ folder' = [folder EXCEPT !.lines = lines, !.tail = "none"]
           /\ runner' = [runner EXCEPT ![w] =
                  [at |-> IF folder.manifest.status = "completed" THEN "check" ELSE "restart",
                   done |-> ToSet(lines), hashed |-> folder.manifest.hashed,
                   cut |-> folder.tail = "torn"]]
    /\ UNCHANGED <<locked, ends>>

\* A completed run is compared with its metrics and left as it is.
CheckCompleted(w) == On(w, "check") /\ Release(w) /\ UNCHANGED <<folder, ends>>

\* The manifest keeps the questions it listed until the next episode.
RestartRun(w) ==
    /\ On(w, "restart") /\ Move(w, "episode")
    /\ folder' = [folder EXCEPT !.manifest =
                     [Manifest(w, "running") EXCEPT !.done = folder.manifest.done]]
    /\ UNCHANGED <<locked, ends>>

----------------------------------------------------------------------------
(* The episodes, then the metrics.                                         *)

\* A mutant: the manifest is trusted, which lags behind the episodes.
MissedInManifest(w) == {i \in DOMAIN Questions : Questions[i] \notin folder.manifest.done}

Missed(w) == {i \in DOMAIN Questions : Questions[i] \notin runner[w].done}
NextQuestion(w) == Questions[Min(Missed(w))]

AppendEpisode(w) ==
    /\ On(w, "episode") /\ Missed(w) # {}
    /\ folder' = [folder EXCEPT !.lines = Append(@, NextQuestion(w))]
    /\ runner' = [runner EXCEPT ![w].at = "save", ![w].done = @ \cup {NextQuestion(w)}]
    /\ UNCHANGED <<locked, ends>>

SaveProgress(w) ==
    On(w, "save") /\ Save(w, "running") /\ Move(w, "episode") /\ UNCHANGED <<locked, ends>>

WriteMetrics(w) ==
    /\ On(w, "episode") /\ Missed(w) = {}
    /\ folder' = [folder EXCEPT !.metrics = TRUE]
    /\ runner' = [runner EXCEPT ![w].at = "complete", ![w].hashed = TRUE]
    /\ UNCHANGED <<locked, ends>>

CompleteRun(w) == On(w, "complete") /\ Save(w, "completed") /\ Release(w) /\ UNCHANGED ends

----------------------------------------------------------------------------
(* Failures.  A write that is broken off leaves a torn record, or one that *)
(* only misses its end of line.                                            *)

BrokenAppend(w, whole) ==
    IF On(w, "episode") /\ Missed(w) # {}
    THEN [folder EXCEPT !.tail = IF whole THEN NextQuestion(w) ELSE "torn"]
    ELSE folder

\* An exception after the manifest is there marks the run failed.
EpisodeFails(w) ==
    /\ ends < MaxEnds /\ ends' = ends + 1
    /\ runner[w].at \in {"episode", "save", "complete"}
    /\ \E broken \in BOOLEAN, whole \in BOOLEAN :
          folder' = IF broken THEN BrokenAppend(w, whole) ELSE folder
    /\ Move(w, "failed") /\ UNCHANGED locked

MarkRunFailed(w) == On(w, "failed") /\ Save(w, "failed") /\ Release(w) /\ UNCHANGED ends

\* The process is killed: the lock file stays behind.
RunKilled(w) ==
    /\ ends < MaxEnds /\ ends' = ends + 1
    /\ ~On(w, "away")
    /\ \E broken \in BOOLEAN, whole \in BOOLEAN :
          folder' = IF broken THEN BrokenAppend(w, whole) ELSE folder
    /\ runner' = [runner EXCEPT ![w] = Away] /\ UNCHANGED locked

\* "If no process is active, inspect and remove the stale file."
RemoveStaleLock ==
    /\ locked /\ \A w \in Runners : On(w, "away")
    /\ locked' = FALSE /\ UNCHANGED <<folder, runner, ends>>

ExperimentNext ==
    \/ RemoveStaleLock
    \/ \E w \in Runners :
          \/ StartNewRun(w) \/ ResumeRun(w) \/ WriteFolder(w)
          \/ LoadRefuses(w) \/ LoadEpisodes(w) \/ CheckCompleted(w) \/ RestartRun(w)
          \/ AppendEpisode(w) \/ SaveProgress(w) \/ WriteMetrics(w) \/ CompleteRun(w)
          \/ EpisodeFails(w) \/ MarkRunFailed(w) \/ RunKilled(w)

----------------------------------------------------------------------------
(* Two processes never work in the folder at once.                         *)
OneRunner == \A v, w \in Runners : v = w \/ On(v, "away") \/ On(w, "away")

\* However often the run was broken off and resumed, each question was asked
\* once and in order, and a completed run has all of them, no torn record, its
\* metrics and its hashes (README.md: "Resume without duplicating completed
\* questions").
EachAskedOnce ==
    /\ IsPrefix(folder.lines, Questions)
    /\ folder.manifest.done \subseteq ToSet(folder.lines)
    /\ folder.metrics => folder.lines = Questions /\ folder.tail = "none"
    /\ folder.manifest.status = "completed" => folder.metrics /\ folder.manifest.hashed

RunSound == OneRunner /\ EachAskedOnce

\* What was recorded stays recorded, and a completed folder never changes.
RecordsKept ==
    /\ IsPrefix(folder.lines, folder'.lines)
    /\ folder.manifest.status = "completed" => UNCHANGED folder
=============================================================================
