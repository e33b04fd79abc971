------------------------------ MODULE MCLibrary ------------------------------
(***************************************************************************)
(* The parts of the library of a course and the offline tools for TLC, one *)
(* scenario each: the first state picks the part whose requests run.  They *)
(* share no state, so one run explores each on its own instance.           *)
(***************************************************************************)
EXTENDS TrashPurge, WorkspaceDrafts, NotebookNotes, LearningDocuments,
        CardGeneration, TopicTree, StudyCards, CitationTarget, ConceptGraphPath,
        ArtifactPublication, AnnotationSeal, ControllerEpisode, ControllerRun, MediaIntake,
        TLC

CONSTANTS Scenarios,   \* the parts this instance runs
          course, video, document, talk, twin1, twin2, peer1, peer2, card1, card2,
          similar, related,
          citedVideo, citedEvidence, citedNote,
          idea1, idea2, proof1, proof2,
          off

VARIABLE scenario

MCCourseOf == [x \in {video, document, talk} |-> course]
MCFilesOf  == video :> {"upload", "audio"} @@ document :> {"stored"}
MCPairs    == {<<card1, card2>>}
MCKindOf   == citedVideo :> "video" @@ citedEvidence :> "evidence" @@ citedNote :> "note"
MCPriority == <<"prerequisite", "related">>
\* Two candidates share a first artifact, one has nothing in common with them.
MCArtifacts == [first |-> <<1, 1, 2, 2>>, second |-> <<1, 1, 3, 3>>, foreign |-> <<4, 4, 5, 5>>]
MCIdeaOf   == proof1 :> idea1 @@ proof2 :> idea2
MCArcs     == {[from |-> idea1, to |-> idea2, type |-> "prerequisite"]}
Budget(s, r, c, e, x, v, i, p, n, t) ==
    [steps |-> s, retrievals |-> r, concept |-> c, evidence |-> e, expand |-> x,
     verify |-> v, ideas |-> i, proofs |-> p, idle |-> n, top |-> t]
\* Ample, tight, and without a concept search; a policy a caller brings has few steps.
MCBudgets  == {Budget(6, 4, 1, 2, 1, 2, 2, 2, 2, 2), Budget(4, 3, 1, 2, 1, 1, 1, 2, 1, 1),
               Budget(5, 2, 0, 2, 1, 2, 2, 2, 2, 1)}
MCSetups   ==
    [policy : {"fixed_dense", "fixed_dense_typed_graph"}, need : {"concept"}, budget : MCBudgets]
    \cup [policy : {"evidence_gap"}, need : {"concept", "prerequisite", "relation"},
          budget : MCBudgets]
    \cup [policy : {"brought"}, need : {"concept"},
          budget : {Budget(4, 3, 1, 2, 1, 1, 2, 2, 1, 1), Budget(4, 3, 1, 2, 1, 2, 2, 2, 2, 2)}]
MCQuestions == <<"q1", "q2", "q3">>
Twins      == Permutations({twin1, twin2}) \cup Permutations({peer1, peer2})

\* The state of a part that does not run is off.
LibraryInit ==
    /\ scenario \in Scenarios
    /\ IF scenario = "trash" THEN TrashInit
       ELSE /\ row = off /\ item = off /\ files = off /\ projected = off /\ op = off
            /\ faults = off
    /\ IF scenario = "drafts" THEN DraftInit
       ELSE /\ draft = off /\ window = off /\ wire = off /\ reply = off /\ rows = off
    /\ IF scenario = "notes" THEN NotesInit
       ELSE /\ note = off /\ snapshots = off /\ source = off /\ grounded = off /\ notebook = off
            /\ saw = off /\ text = off
    /\ IF scenario = "documents" THEN DocInit
       ELSE /\ doc = off /\ versions = off /\ links = off /\ evidence = off /\ writer = off
            /\ generation = off /\ retired = off
    /\ IF scenario = "generation" THEN GenInit
       ELSE /\ run = off /\ ledger = off /\ made = off /\ epoch = off /\ attempt = off
            /\ task = off /\ stops = off
    /\ IF scenario = "topics" THEN TopicInit
       ELSE /\ topic = off /\ placed = off /\ cards = off /\ planner = off /\ crossed = off
    /\ IF scenario = "cards" THEN StudyInit
       ELSE /\ shelf = off /\ attached = off /\ relation = off /\ inserts = off /\ caller = off
    /\ IF scenario = "citations" THEN CitationInit
       ELSE /\ origin = off /\ owner = off /\ hash = off /\ path = off /\ inode = off
            /\ dirty = off /\ reader = off /\ touched = off /\ changes = off
    /\ IF scenario = "paths" THEN PathInit
       ELSE /\ graph = off /\ query = off /\ distance = off /\ parent = off /\ queue = off
            /\ cut = off /\ degree = off /\ layers = off /\ order = off /\ phase = off
    /\ IF scenario = "publication" THEN PublicationInit
       ELSE /\ style = off /\ leaf = off /\ command = off /\ starts = off
    /\ IF scenario = "seals" THEN SealInit
       ELSE /\ policy = off /\ sheet = off /\ file = off /\ signature = off /\ clerk = off
            /\ edits = off
    /\ IF scenario = "episodes" THEN EpisodeInit
       ELSE /\ agent = off /\ budget = off /\ memo = off /\ todo = off /\ ending = off
    /\ IF scenario = "experiment" THEN ExperimentInit
       ELSE /\ folder = off /\ locked = off /\ runner = off /\ ends = off
    /\ IF scenario = "intake" THEN IntakeInit
       ELSE /\ medium = off /\ media = off /\ courseThere = off /\ chore = off
            /\ importer = off /\ uploader = off /\ gate = off /\ boot = off

LibraryNext ==
    /\ UNCHANGED scenario
    /\ \/ /\ scenario = "trash" /\ TrashNext
          /\ UNCHANGED <<draftVars, noteVars, docVars, generationVars, topicVars,
                       studyVars, citationVars, pathVars, publicationVars, sealVars,
                       episodeVars, experimentVars, intakeVars>>
       \/ /\ scenario = "drafts" /\ DraftNext
          /\ UNCHANGED <<trashVars, noteVars, docVars, generationVars, topicVars,
                       studyVars, citationVars, pathVars, publicationVars, sealVars,
                       episodeVars, experimentVars, intakeVars>>
       \/ /\ scenario = "notes" /\ NotesNext
          /\ UNCHANGED <<trashVars, draftVars, docVars, generationVars, topicVars,
                       studyVars, citationVars, pathVars, publicationVars, sealVars,
                       episodeVars, experimentVars, intakeVars>>
       \/ /\ scenario = "documents" /\ DocNext
          /\ UNCHANGED <<trashVars, draftVars, noteVars, generationVars, topicVars,
                       studyVars, citationVars, pathVars, publicationVars, sealVars,
                       episodeVars, experimentVars, intakeVars>>
       \/ /\ scenario = "generation" /\ GenNext
          /\ UNCHANGED <<trashVars, draftVars, noteVars, docVars, topicVars, studyVars,
                       citationVars, pathVars, publicationVars, sealVars,
                       episodeVars, experimentVars, intakeVars>>
       \/ /\ scenario = "topics" /\ TopicNext
          /\ UNCHANGED <<trashVars, draftVars, noteVars, docVars, generationVars,
                       studyVars, citationVars, pathVars, publicationVars, sealVars,
                       episodeVars, experimentVars, intakeVars>>
       \/ /\ scenario = "cards" /\ StudyNext
          /\ UNCHANGED <<trashVars, draftVars, noteVars, docVars, generationVars,
                       topicVars, citationVars, pathVars, publicationVars, sealVars,
                       episodeVars, experimentVars, intakeVars>>
       \/ /\ scenario = "citations" /\ CitationNext
          /\ UNCHANGED <<trashVars, draftVars, noteVars, docVars, generationVars,
                       topicVars, studyVars, pathVars, publicationVars, sealVars,
                       episodeVars, experimentVars, intakeVars>>
       \/ /\ scenario = "paths" /\ PathNext
          /\ UNCHANGED <<trashVars, draftVars, noteVars, docVars, generationVars,
                       topicVars, studyVars, citationVars, publicationVars, sealVars,
                       episodeVars, experimentVars, intakeVars>>
       \/ /\ scenario = "publication" /\ PublicationNext
          /\ UNCHANGED <<trashVars, draftVars, noteVars, docVars, generationVars,
                       topicVars, studyVars, citationVars, pathVars, sealVars,
                       episodeVars, experimentVars, intakeVars>>
       \/ /\ scenario = "seals" /\ SealNext
          /\ UNCHANGED <<trashVars, draftVars, noteVars, docVars, generationVars,
                       topicVars, studyVars, citationVars, pathVars, publicationVars,
                       episodeVars, experimentVars, intakeVars>>
       \/ /\ scenario = "episodes" /\ EpisodeNext
          /\ UNCHANGED <<trashVars, draftVars, noteVars, docVars, generationVars,
                       topicVars, studyVars, citationVars, pathVars, publicationVars,
                       sealVars, experimentVars, intakeVars>>
       \/ /\ scenario = "experiment" /\ ExperimentNext
          /\ UNCHANGED <<trashVars, draftVars, noteVars, docVars, generationVars,
                       topicVars, studyVars, citationVars, pathVars, publicationVars,
                       sealVars, episodeVars, intakeVars>>
       \/ /\ scenario = "intake" /\ IntakeNext
          /\ UNCHANGED <<trashVars, draftVars, noteVars, docVars, generationVars,
                       topicVars, studyVars, citationVars, pathVars, publicationVars,
                       sealVars, episodeVars, experimentVars>>

LibrarySpec == LibraryInit /\ [][LibraryNext]_<<scenario, trashVars, draftVars, noteVars, docVars, generationVars, topicVars,
    studyVars, citationVars, pathVars, publicationVars, sealVars, episodeVars,
    experimentVars, intakeVars>>

----------------------------------------------------------------------------
(* Bounds: at a time, either the rows of cards or their relations run.     *)

RowsOnly == /\ relation = {} /\ inserts = 0
            /\ \A w \in Callers : caller[w].at \in {"idle", "attach", "progress", "event"}
RelationsOnly ==
    /\ \A r \in attached : r.kind = "vector"
    /\ \A w \in Callers : caller[w].at = "attach" => caller[w].kind = "vector"
    /\ \E c \in StudyIds : shelf[c] = "live"
    /\ relation # {} => \A c \in StudyIds : Has("vector", c) \/ shelf[c] = "gone"
    /\ \E w \in Callers : caller[w].at \in {"idle", "write", "hide"}
    /\ relation # {} => \A w \in Callers : caller[w].at # "attach"
\* Requests meet while they rearrange accepted topics, or place cards in them;
\* one at a time handles the other topics.  Nothing goes on once two have crossed.
Lists == {topic} \cup {planner[w].seen : w \in Planners}
Plain(r) == r.status \in {"accepted", "none"} /\ r.depth <= 1
Suggested == {m \in placed : m[3] # "accepted"}
Nested   == placed = {} /\ cards = MapCards
Flat == \A t \in Topics, list \in Lists : list[t].parent = NoTopic /\ list[t].depth = 0
Meeting == /\ Nested \/ (Flat /\ cards = MapCards /\ Suggested = {})
           /\ \A t \in Topics, list \in Lists : Plain(list[t])
           /\ \A w \in Planners :
                /\ Plain(planner[w].row)
                /\ planner[w].kind \notin {"suggest", "drop", "accept"}
Alone == /\ \E w \in Planners : planner[w] = Quiet
         /\ Cardinality(Suggested) <= 1 /\ (cards = MapCards \/ Suggested = {})
         /\ Nested \/ (Flat /\ \A t \in Topics : topic[t].status # "hidden")
Apart == /\ scenario = "cards" => RowsOnly \/ RelationsOnly
         /\ scenario = "topics" => ~crossed /\ (Meeting \/ Alone)

----------------------------------------------------------------------------
(* What each part promises; the definitions say it in full.                *)

TrashHolds ==
    /\ [](scenario = "trash" => TrashSound)
    /\ [][scenario = "trash" => PurgeGoesForward]_trashVars
DraftsHold == scenario = "drafts" => SavedAgrees
NotesHold ==
    /\ [](scenario = "notes" => NotesSound)
    /\ [][scenario = "notes" => NoEditLost]_noteVars
DocumentsHold ==
    /\ [](scenario = "documents" => DocumentsSound)
    /\ [][scenario = "documents" => HistoryKept]_docVars
GenerationHolds ==
    /\ [](scenario = "generation" => LedgerSound)
    /\ [][scenario = "generation" => PublishedIsFinal]_generationVars
TopicsHold ==
    /\ [](scenario = "topics" => TopicsSound)
    /\ [][scenario = "topics" => CardsStayPlaced]_topicVars
CardsHold ==
    /\ [](scenario = "cards" => CascadeComplete)
    /\ [][scenario = "cards" => DecisionKept]_studyVars
SmallRanges == RangesHold(3)  \* every range of a file of up to three bytes
CitationsHold ==
    /\ [](scenario = "citations" => ServedAsCited /\ RefusedForCause /\ SmallRanges)
    /\ [][scenario = "citations" => FingerprintKept]_citationVars
PathsHold == scenario = "paths" => AnswersHold
PublicationsHold ==
    /\ [](scenario = "publication" => PublicationSound)
    /\ [][scenario = "publication" => RefusedForConflict]_publicationVars
SealsHold ==
    /\ [](scenario = "seals" => SealsSound)
    /\ [][scenario = "seals" => SealsStand]_sealVars
EpisodesHold ==
    /\ [](scenario = "episodes" => EpisodeSound)
    /\ [][scenario = "episodes" => SupportKept]_episodeVars
RunsHold ==
    /\ [](scenario = "experiment" => RunSound)
    /\ [][scenario = "experiment" => RecordsKept]_experimentVars
IntakeHolds ==
    /\ [](scenario = "intake" => IntakeSound)
    /\ [][scenario = "intake" => IntakeSteps]_intakeVars
=============================================================================
