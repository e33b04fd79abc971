---------------------------- MODULE LibraryProofs ----------------------------
(***************************************************************************)
(* Proofs about the parts of the library of a course, for any documents,   *)
(* notes, cards, windows and requests.  The parts share no state: what is  *)
(* proved of the steps of one holds of LibrarySpec while that part runs.   *)
(***************************************************************************)
EXTENDS MCLibrary, LibraryStepProofs, FiniteSetTheorems, TLAPS

libraryVars == <<scenario, trashVars, draftVars, noteVars, docVars, generationVars, topicVars,
    studyVars, citationVars, pathVars, publicationVars, sealVars, episodeVars,
    experimentVars, intakeVars>>

\* A step of the library is one of the part that runs.
LEMMA LibrarySteps ==
    ASSUME [LibraryNext]_libraryVars
    PROVE  /\ scenario' = scenario
           /\ scenario = "trash" => [TrashNext]_trashVars
           /\ scenario = "drafts" => [DraftNext]_draftVars
           /\ scenario = "notes" => [NotesNext]_noteVars
           /\ scenario = "documents" => [DocNext]_docVars
           /\ scenario = "generation" => [GenNext]_generationVars
           /\ scenario = "topics" => [TopicNext]_topicVars
           /\ scenario = "cards" => [StudyNext]_studyVars
           /\ scenario = "citations" => [CitationNext]_citationVars
           /\ scenario = "paths" => [PathNext]_pathVars
           /\ scenario = "publication" => [PublicationNext]_publicationVars
           /\ scenario = "seals" => [SealNext]_sealVars
           /\ scenario = "episodes" => [EpisodeNext]_episodeVars
           /\ scenario = "experiment" => [ExperimentNext]_experimentVars
           /\ scenario = "intake" => [IntakeNext]_intakeVars
<1>1. CASE UNCHANGED libraryVars
  BY <1>1 DEF libraryVars
<1>2. CASE LibraryNext
  BY <1>2 DEF LibraryNext
<1> QED BY <1>1, <1>2

----------------------------------------------------------------------------
(***************************************************************************)
(* Citations.  Nothing has happened to a citation that is not touched, so  *)
(* no check of a request can refuse it; a request that has read a          *)
(* fingerprint holds the one stored, because a stored fingerprint stays.   *)
(***************************************************************************)
OriginType == [there : BOOLEAN, generation : Nat, same : BOOLEAN]
Untouched(c) ==
    /\ origin[c].there /\ origin[c].generation = 0 /\ origin[c].same
    /\ owner[c] = "live" /\ hash[c] # NoHash
    /\ path[c] = 1 /\ inode[c][1] = hash[c]
    /\ \A w \in Readers : At(w, "hash") /\ Cited(w) = c => reader[w].handle = 1

ReaderInv(w) ==
    /\ reader[w] # Resting => Cited(w) \in Citations
    /\ At(w, "idle") => reader[w] = Resting
    /\ At(w, "open") \/ At(w, "hash") \/ At(w, "stream") =>
          reader[w].expected = hash[Cited(w)] /\ hash[Cited(w)] # NoHash
    /\ At(w, "hash") \/ At(w, "stream") => reader[w].handle \in DOMAIN inode[Cited(w)]
    /\ At(w, "stream") =>
          \/ inode[Cited(w)][reader[w].handle] = hash[Cited(w)]
          \/ <<Cited(w), reader[w].handle>> \in dirty
    /\ At(w, "refused") => Cited(w) \in touched

CitationTypes ==
    /\ origin \in [Citations -> OriginType]
    /\ owner \in [Citations -> {"live", "trash", "gone"}]
    /\ hash \in [Citations -> FileBytes \cup {NoHash}]
    /\ inode \in [Citations -> Seq(FileBytes)]
    /\ path \in [Citations -> Nat]
    /\ \A c \in Citations : path[c] <= Len(inode[c])
    /\ DOMAIN reader = Readers

CitationInv ==
    /\ CitationTypes
    /\ \A w \in Readers : ReaderInv(w)
    /\ \A c \in Citations \ touched : Untouched(c)

LEMMA CitationStart == ASSUME CitationInit PROVE CitationInv
<1>1. PICK b \in FileBytes : inode = [c \in Citations |-> <<b>>]
  BY DEF CitationInit
<1>2. CitationTypes
  BY <1>1 DEF CitationInit, CitationTypes, OriginType
<1>3. \A w \in Readers : ReaderInv(w)
  BY DEF CitationInit, ReaderInv, Resting, At
<1>4. ASSUME NEW c \in Citations, c \notin touched PROVE Untouched(c)
  <2>1. hash[c] # NoHash /\ hash[c] = inode[c][1]
    BY <1>4 DEF CitationInit
  <2> QED BY <2>1 DEF CitationInit, Untouched, Resting, At
<1> QED BY <1>2, <1>3, <1>4 DEF CitationInv

\* A step that changes one citation and no request.
LEMMA ChangeInv ==
    ASSUME CitationInv, NEW c \in Citations, CitationTypes', reader' = reader, hash' = hash,
           touched' = touched \cup {c},
           \A d \in Citations \ {c} : /\ origin'[d] = origin[d] /\ owner'[d] = owner[d]
                                      /\ path'[d] = path[d] /\ inode'[d] = inode[d],
           dirty \subseteq dirty',
           \A i \in DOMAIN inode[c] : /\ i \in DOMAIN inode'[c]
                                      /\ inode'[c][i] = inode[c][i] \/ <<c, i>> \in dirty'
    PROVE  CitationInv' /\ FingerprintKept
<1>1. ASSUME NEW w \in Readers PROVE ReaderInv(w)'
  <2>1. ReaderInv(w)
    BY DEF CitationInv
  <2>2. \A i, d : d \in Citations /\ i \in DOMAIN inode[d] =>
             /\ i \in DOMAIN inode'[d]
             /\ inode'[d][i] = inode[d][i] \/ <<d, i>> \in dirty'
    OBVIOUS
  <2> QED BY <2>1, <2>2 DEF ReaderInv, At, Cited, Resting
<1>2. ASSUME NEW d \in Citations, d \notin touched' PROVE Untouched(d)'
  BY <1>2 DEF CitationInv, Untouched, At, Cited
<1> QED BY <1>1, <1>2 DEF CitationInv, FingerprintKept

\* A step of one request.
LEMMA RequestInv ==
    ASSUME CitationInv, NEW w \in Readers,
           UNCHANGED <<origin, owner, hash, path, inode, dirty, touched, changes>>,
           NEW next, Moves(w, next), ReaderInv(w)',
           next.at = "hash" => next.cited \in touched \/ next.handle = 1
    PROVE  CitationInv' /\ FingerprintKept
<1>1. DOMAIN reader' = Readers /\ reader'[w] = next /\ \A v \in Readers \ {w} : reader'[v] = reader[v]
  BY DEF Moves, CitationInv, CitationTypes
<1>2. CitationTypes'
  BY <1>1 DEF CitationInv, CitationTypes
<1>3. ASSUME NEW v \in Readers PROVE ReaderInv(v)'
  <2>1. CASE v = w
    BY <2>1
  <2>2. CASE v # w
    BY <1>1, <2>2 DEF CitationInv, ReaderInv, At, Cited
  <2> QED BY <2>1, <2>2
<1>4. ASSUME NEW c \in Citations, c \notin touched' PROVE Untouched(c)'
  <2>1. Untouched(c)
    BY <1>4 DEF CitationInv
  <2>2. \A v \in Readers : At(v, "hash")' /\ Cited(v)' = c => reader'[v].handle = 1
    <3>1. ASSUME NEW v \in Readers, reader'[v].at = "hash", reader'[v].cited = c
          PROVE  reader'[v].handle = 1
      <4>1. CASE v = w
        BY <1>1, <1>4, <3>1, <4>1
      <4>2. CASE v # w
        BY <1>1, <2>1, <3>1, <4>2 DEF Untouched, At, Cited
      <4> QED BY <4>1, <4>2
    <3> QED BY <3>1 DEF At, Cited
  <2> QED BY <2>1, <2>2 DEF Untouched
<1> QED BY <1>2, <1>3, <1>4 DEF CitationInv, FingerprintKept

LEMMA CitationStepInv ==
    ASSUME CitationInv, [CitationNext]_citationVars
    PROVE  CitationInv' /\ [FingerprintKept]_citationVars
<1>0. CitationTypes
  BY DEF CitationInv
<1>1. CASE UNCHANGED citationVars
  BY <1>1 DEF citationVars, CitationInv, CitationTypes, ReaderInv, Untouched, At, Cited
<1>2. ASSUME NEW c \in Citations, Reproject(c) PROVE CitationInv' /\ FingerprintKept
  <2>1. PICK same \in BOOLEAN :
           origin' = [origin EXCEPT ![c] = [there |-> TRUE, same |-> same,
                                            generation |-> @.generation + 1]]
    BY <1>2 DEF Reproject
  <2>2. /\ UNCHANGED <<owner, hash, path, inode, dirty, reader>>
        /\ touched' = touched \cup {c}
    BY <1>2 DEF Reproject, Changing
  <2>3. origin[c] \in OriginType
    BY <1>0 DEF CitationTypes
  <2>4. [there |-> TRUE, same |-> same, generation |-> origin[c].generation + 1] \in OriginType
    BY <2>3 DEF OriginType
  <2>5. origin' \in [Citations -> OriginType] /\ \A d \in Citations \ {c} : origin'[d] = origin[d]
    BY <1>0, <2>1, <2>4 DEF CitationTypes
  <2>6. CitationTypes'
    BY <1>0, <2>2, <2>5 DEF CitationTypes
  <2> QED BY <2>2, <2>5, <2>6, ChangeInv
<1>3. ASSUME NEW c \in Citations, RemoveSource(c) PROVE CitationInv' /\ FingerprintKept
  <2>1. /\ UNCHANGED <<owner, hash, path, inode, dirty, reader>>
        /\ touched' = touched \cup {c} /\ origin' = [origin EXCEPT ![c].there = FALSE]
    BY <1>3 DEF RemoveSource, Changing
  <2>2. origin' \in [Citations -> OriginType] /\ \A d \in Citations \ {c} : origin'[d] = origin[d]
    BY <1>0, <2>1 DEF CitationTypes, OriginType
  <2>3. CitationTypes'
    BY <1>0, <2>1, <2>2 DEF CitationTypes
  <2> QED BY <2>1, <2>2, <2>3, ChangeInv
<1>4. ASSUME NEW c \in Citations, NEW status \in {"live", "trash", "gone"}, MoveOwner(c, status)
      PROVE  CitationInv' /\ FingerprintKept
  <2>1. /\ UNCHANGED <<origin, hash, path, inode, dirty, reader>>
        /\ touched' = touched \cup {c} /\ owner' = [owner EXCEPT ![c] = status]
    BY <1>4 DEF MoveOwner, Changing
  <2>2. CitationTypes' /\ \A d \in Citations \ {c} : owner'[d] = owner[d]
    BY <1>0, <2>1 DEF CitationTypes
  <2> QED BY <2>1, <2>2, ChangeInv
<1>5. ASSUME NEW c \in Citations, RemoveFile(c) PROVE CitationInv' /\ FingerprintKept
  <2>1. /\ UNCHANGED <<origin, owner, hash, inode, dirty, reader>>
        /\ touched' = touched \cup {c} /\ path' = [path EXCEPT ![c] = 0]
    BY <1>5 DEF RemoveFile, Changing
  <2>2. CitationTypes' /\ \A d \in Citations \ {c} : path'[d] = path[d]
    BY <1>0, <2>1 DEF CitationTypes
  <2> QED BY <2>1, <2>2, ChangeInv
<1>6. ASSUME NEW c \in Citations, NEW b \in FileBytes, ReplaceFile(c, b)
      PROVE  CitationInv' /\ FingerprintKept
  <2>1. /\ UNCHANGED <<origin, owner, hash, dirty, reader>> /\ touched' = touched \cup {c}
        /\ inode' = [inode EXCEPT ![c] = Append(@, b)]
        /\ path' = [path EXCEPT ![c] = Len(inode'[c])]
    BY <1>6 DEF ReplaceFile, Changing
  <2>2. inode[c] \in Seq(FileBytes) /\ inode'[c] = Append(inode[c], b)
    BY <1>0, <2>1 DEF CitationTypes
  <2>3. /\ inode'[c] \in Seq(FileBytes) /\ Len(inode'[c]) = Len(inode[c]) + 1
        /\ Len(inode[c]) \in Nat
        /\ \A i \in DOMAIN inode[c] : i \in DOMAIN inode'[c] /\ inode'[c][i] = inode[c][i]
    BY <2>2
  <2>4. \A d \in Citations \ {c} : path'[d] = path[d] /\ inode'[d] = inode[d]
    BY <1>0, <2>1 DEF CitationTypes
  <2>5. inode' \in [Citations -> Seq(FileBytes)] /\ path' \in [Citations -> Nat] /\ path'[c] = Len(inode'[c])
    BY <1>0, <2>1, <2>3 DEF CitationTypes
  <2>6. CitationTypes'
    BY <1>0, <2>1, <2>3, <2>4, <2>5 DEF CitationTypes
  <2> QED BY <2>1, <2>3, <2>4, <2>6, ChangeInv
<1>7. ASSUME NEW c \in Citations, NEW b \in FileBytes, WriteInPlace(c, b)
      PROVE  CitationInv' /\ FingerprintKept
  <2>1. /\ UNCHANGED <<origin, owner, hash, path, reader>> /\ touched' = touched \cup {c}
        /\ inode' = [inode EXCEPT ![c][path[c]] = b]
        /\ dirty' = dirty \cup {<<c, path[c]>>} /\ path[c] # 0
    BY <1>7 DEF WriteInPlace, Changing
  <2>2. /\ inode[c] \in Seq(FileBytes) /\ inode'[c] = [inode[c] EXCEPT ![path[c]] = b]
        /\ path[c] \in Nat /\ path[c] <= Len(inode[c])
    BY <1>0, <2>1 DEF CitationTypes
  <2>3. /\ inode'[c] \in Seq(FileBytes) /\ Len(inode'[c]) = Len(inode[c])
        /\ \A i \in DOMAIN inode[c] : /\ i \in DOMAIN inode'[c]
                                      /\ i # path[c] => inode'[c][i] = inode[c][i]
    BY <2>1, <2>2
  <2>4. \A d \in Citations \ {c} : inode'[d] = inode[d]
    BY <1>0, <2>1 DEF CitationTypes
  <2>5. inode' \in [Citations -> Seq(FileBytes)]
    BY <1>0, <2>1, <2>3 DEF CitationTypes
  <2>6. CitationTypes'
    BY <1>0, <2>1, <2>3, <2>4, <2>5 DEF CitationTypes
  <2>7. \A i \in DOMAIN inode[c] : /\ i \in DOMAIN inode'[c]
                                   /\ inode'[c][i] = inode[c][i] \/ <<c, i>> \in dirty'
    BY <2>1, <2>3
  <2> QED BY <2>1, <2>4, <2>6, <2>7, ChangeInv
<1>8. CASE BackfillFingerprints
  <2>1. /\ UNCHANGED <<origin, owner, path, inode, dirty, reader, touched, changes>>
        /\ \A w \in Readers : reader[w] = Resting
        /\ hash' = [c \in Citations |-> IF hash[c] = NoHash /\ owner[c] = "live" /\ path[c] # 0
                                       THEN inode[c][path[c]] ELSE hash[c]]
    BY <1>8 DEF BackfillFingerprints
  <2>2. ASSUME NEW c \in Citations
        PROVE  hash'[c] \in FileBytes \cup {NoHash} /\ (hash[c] # NoHash => hash'[c] = hash[c])
    <3>1. path[c] # 0 => inode[c][path[c]] \in FileBytes
      <4>1. inode[c] \in Seq(FileBytes) /\ path[c] \in Nat /\ path[c] <= Len(inode[c])
        BY <1>0 DEF CitationTypes
      <4> QED BY <4>1
    <3>2. hash[c] \in FileBytes \cup {NoHash}
      BY <1>0 DEF CitationTypes
    <3> QED BY <2>1, <3>1, <3>2
  <2>3. CitationTypes'
    BY <1>0, <2>1, <2>2 DEF CitationTypes
  <2>4. \A w \in Readers : ReaderInv(w)'
    BY <2>1 DEF ReaderInv, Resting, At, Cited
  <2>5. \A c \in Citations \ touched' : Untouched(c)'
    BY <2>1, <2>2 DEF CitationInv, Untouched, At, Cited, Resting
  <2>6. FingerprintKept
    BY <2>1, <2>2 DEF FingerprintKept
  <2> QED BY <2>3, <2>4, <2>5, <2>6 DEF CitationInv
<1>9. ASSUME NEW w \in Readers, NEW c \in Citations, ReadCitation(w, c)
      PROVE  CitationInv' /\ FingerprintKept
  <2>1. UNCHANGED <<origin, owner, hash, path, inode, dirty, touched, changes>>
    BY <1>9 DEF ReadCitation
  <2>2. CASE ~ProjectionHolds(c) \/ ~SourceHolds(c)
    <3> DEFINE next == [at |-> "refused", cited |-> c]
    <3>1. Moves(w, next)
      BY <1>9, <2>2 DEF ReadCitation, Refuse
    <3>2. c \in touched
      BY <2>2 DEF CitationInv, Untouched, ProjectionHolds, SourceHolds
    <3>3. reader'[w] = next
      BY <1>0, <3>1 DEF Moves, CitationTypes
    <3>4. ReaderInv(w)'
      BY <2>1, <3>2, <3>3 DEF ReaderInv, At, Cited
    <3>5. next.at # "hash"
      OBVIOUS
    <3> HIDE DEF next
    <3> QED BY <2>1, <3>1, <3>4, <3>5, RequestInv
  <2>3. CASE ~(~ProjectionHolds(c) \/ ~SourceHolds(c))
    <3> DEFINE next == [at |-> IF KindOf[c] = "note" THEN "quoted" ELSE "owner", cited |-> c]
    <3>1. Moves(w, next)
      BY <1>9, <2>3 DEF ReadCitation
    <3>3. reader'[w] = next
      BY <1>0, <3>1 DEF Moves, CitationTypes
    <3>4. ReaderInv(w)'
      BY <2>1, <3>3 DEF ReaderInv, At, Cited
    <3>5. next.at # "hash"
      OBVIOUS
    <3> HIDE DEF next
    <3> QED BY <2>1, <3>1, <3>4, <3>5, RequestInv
  <2> QED BY <2>2, <2>3
<1>10. ASSUME NEW w \in Readers, ReadOwner(w) PROVE CitationInv' /\ FingerprintKept
  <2>1. /\ UNCHANGED <<origin, owner, hash, path, inode, dirty, touched, changes>>
        /\ reader[w].at = "owner" /\ ReaderInv(w)
    BY <1>10 DEF ReadOwner, CitationInv, At
  <2> DEFINE c == reader[w].cited
  <2>0. c \in Citations
    BY <2>1 DEF ReaderInv, Resting, Cited
  <2>2. CASE owner[c] # "live" \/ hash[c] = NoHash
    <3> DEFINE next == [at |-> "refused", cited |-> c]
    <3>1. Moves(w, next)
      BY <1>10, <2>2 DEF ReadOwner, Refuse, Cited
    <3>2. c \in touched
      BY <2>0, <2>2 DEF CitationInv, Untouched
    <3>3. reader'[w] = next
      BY <1>0, <3>1 DEF Moves, CitationTypes
    <3> HIDE DEF c
    <3>4. ReaderInv(w)'
      BY <2>0, <2>1, <3>2, <3>3 DEF ReaderInv, At, Cited
    <3>5. next.at # "hash"
      OBVIOUS
    <3> HIDE DEF next
    <3> QED BY <2>1, <3>1, <3>4, <3>5, RequestInv
  <2>3. CASE ~(owner[c] # "live" \/ hash[c] = NoHash)
    <3> DEFINE next == [at |-> "open", cited |-> c, expected |-> hash[c]]
    <3>1. Moves(w, next)
      BY <1>10, <2>3 DEF ReadOwner, Cited
    <3>3. reader'[w] = next
      BY <1>0, <3>1 DEF Moves, CitationTypes
    <3> HIDE DEF c
    <3>4. ReaderInv(w)'
      BY <2>0, <2>1, <2>3, <3>3 DEF ReaderInv, At, Cited
    <3>5. next.at # "hash"
      OBVIOUS
    <3> HIDE DEF next
    <3> QED BY <2>1, <3>1, <3>4, <3>5, RequestInv
  <2> QED BY <2>2, <2>3
<1>11. ASSUME NEW w \in Readers, OpenFile(w) PROVE CitationInv' /\ FingerprintKept
  <2>1. /\ UNCHANGED <<origin, owner, hash, path, inode, dirty, touched, changes>>
        /\ reader[w].at = "open" /\ ReaderInv(w)
    BY <1>11 DEF OpenFile, CitationInv, At
  <2> DEFINE c == reader[w].cited
  <2>0. /\ c \in Citations /\ reader[w].expected = hash[c] /\ hash[c] # NoHash
        /\ c \notin touched => path[c] = 1
    BY <2>1 DEF ReaderInv, Resting, Cited, At, CitationInv, Untouched
  <2>2. CASE path[c] = 0
    <3> DEFINE next == [at |-> "refused", cited |-> c]
    <3>1. Moves(w, next)
      BY <1>11, <2>2 DEF OpenFile, Refuse, Cited
    <3>2. c \in touched
      BY <2>0, <2>2
    <3>3. reader'[w] = next
      BY <1>0, <3>1 DEF Moves, CitationTypes
    <3> HIDE DEF c
    <3>4. ReaderInv(w)'
      BY <2>0, <2>1, <3>2, <3>3 DEF ReaderInv, At, Cited
    <3>5. next.at # "hash"
      OBVIOUS
    <3> HIDE DEF next
    <3> QED BY <2>1, <3>1, <3>4, <3>5, RequestInv
  <2>3. CASE path[c] # 0
    <3> DEFINE next == [at |-> "hash", cited |-> c, expected |-> reader[w].expected,
                        handle |-> path[c]]
    <3>1. Moves(w, next)
      BY <1>11, <2>3 DEF OpenFile, Cited
    <3>2. path[c] \in DOMAIN inode[c]
      <4>1. inode[c] \in Seq(FileBytes) /\ path[c] \in Nat /\ path[c] <= Len(inode[c])
        BY <1>0, <2>0 DEF CitationTypes
      <4> HIDE DEF c
      <4> QED BY <2>3, <4>1
    <3>3. reader'[w] = next
      BY <1>0, <3>1 DEF Moves, CitationTypes
    <3> HIDE DEF c
    <3>4. ReaderInv(w)'
      BY <2>0, <2>1, <3>2, <3>3 DEF ReaderInv, At, Cited
    <3>5. next.at = "hash" => next.cited \in touched \/ next.handle = 1
      BY <2>0
    <3> HIDE DEF next
    <3> QED BY <2>1, <3>1, <3>4, <3>5, RequestInv
  <2> QED BY <2>2, <2>3
<1>12. ASSUME NEW w \in Readers, HashFile(w) PROVE CitationInv' /\ FingerprintKept
  <2>1. /\ UNCHANGED <<origin, owner, hash, path, inode, dirty, touched, changes>>
        /\ reader[w].at = "hash" /\ ReaderInv(w)
    BY <1>12 DEF HashFile, CitationInv, At
  <2> DEFINE c == reader[w].cited
             h == reader[w].handle
  <2>0. /\ c \in Citations /\ reader[w].expected = hash[c] /\ hash[c] # NoHash
        /\ h \in DOMAIN inode[c]
        /\ c \notin touched => h = 1 /\ inode[c][1] = hash[c]
    BY <2>1 DEF ReaderInv, Resting, Cited, At, CitationInv, Untouched
  <2>2. CASE ~HashMatches(w)
    <3> DEFINE next == [at |-> "refused", cited |-> c]
    <3>1. Moves(w, next)
      BY <1>12, <2>2 DEF HashFile, Refuse, Cited
    <3>2. c \in touched
      BY <2>0, <2>2 DEF HashMatches, Cited
    <3>3. reader'[w] = next
      BY <1>0, <3>1 DEF Moves, CitationTypes
    <3> HIDE DEF c
    <3>4. ReaderInv(w)'
      BY <2>0, <2>1, <3>2, <3>3 DEF ReaderInv, At, Cited
    <3>5. next.at # "hash"
      OBVIOUS
    <3> HIDE DEF next
    <3> QED BY <2>1, <3>1, <3>4, <3>5, RequestInv
  <2>3. CASE HashMatches(w)
    <3> DEFINE next == [reader[w] EXCEPT !.at = "stream"]
    <3>1. Moves(w, next)
      BY <1>12, <2>3 DEF HashFile
    <3>2. inode[c][h] = hash[c]
      BY <2>0, <2>3 DEF HashMatches, Cited
    <3>3. reader'[w] = next
      BY <1>0, <3>1 DEF Moves, CitationTypes
    <3>4. /\ next.cited = c /\ next.handle = h /\ next.expected = reader[w].expected
          /\ next.at = "stream"
      OBVIOUS
    <3> HIDE DEF c, h, next
    <3>5. ReaderInv(w)'
      BY <2>0, <2>1, <3>2, <3>3, <3>4 DEF ReaderInv, At, Cited
    <3>6. next.at # "hash"
      BY <3>4
    <3> QED BY <2>1, <3>1, <3>5, <3>6, RequestInv
  <2> QED BY <2>2, <2>3
<1>13. ASSUME NEW w \in Readers, EndRequest(w) PROVE CitationInv' /\ FingerprintKept
  <2>1. UNCHANGED <<origin, owner, hash, path, inode, dirty, touched, changes>> /\ Moves(w, Resting)
    BY <1>13 DEF EndRequest
  <2>2. reader'[w] = Resting
    BY <1>0, <2>1 DEF Moves, CitationTypes
  <2>3. ReaderInv(w)' /\ Resting.at # "hash"
    BY <2>2 DEF ReaderInv, At, Resting
  <2> QED BY <2>1, <2>3, RequestInv
<1> QED BY <1>1, <1>2, <1>3, <1>4, <1>5, <1>6, <1>7, <1>8, <1>9, <1>10, <1>11, <1>12, <1>13
        DEF CitationNext

LEMMA CitationIsSound == ASSUME CitationInv PROVE ServedAsCited /\ RefusedForCause
BY DEF CitationInv, ReaderInv, ServedAsCited, RefusedForCause

\* A range that is served, for files of any size.
LEMMA RangesAreHeld == ASSUME NEW MaxSize \in Nat PROVE RangesHold(MaxSize)
<1> SUFFICES ASSUME NEW size \in 0..MaxSize, NEW first \in -1..MaxSize, NEW last \in -1..MaxSize
             PROVE  LET part == RangeOf(first, last, size) IN
                    /\ part \subseteq 0..(size - 1)
                    /\ first >= 0 /\ part # NoPart =>
                          part = {p \in 0..(size - 1) : p >= first /\ (last >= 0 => p <= last)}
                    /\ first < 0 /\ part # NoPart =>
                          part = {p \in 0..(size - 1) : size - p <= last}
  BY DEF RangesHold
<1>1. CASE first >= 0
  <2>1. CASE first >= size \/ (last >= 0 /\ last < first)
    BY <1>1, <2>1 DEF RangeOf, NoPart
  <2>2. CASE ~(first >= size \/ (last >= 0 /\ last < first))
    <3> DEFINE end == IF last < 0 \/ last > size - 1 THEN size - 1 ELSE last
    <3>1. RangeOf(first, last, size) = first..end
      BY <1>1, <2>2 DEF RangeOf
    <3>2. first..end = {p \in 0..(size - 1) : p >= first /\ (last >= 0 => p <= last)}
      BY <1>1, <2>2
    <3> HIDE DEF end
    <3> QED BY <1>1, <3>1, <3>2
  <2> QED BY <2>1, <2>2
<1>2. CASE first < 0
  <2>1. CASE last <= 0 \/ size <= 0
    BY <1>2, <2>1 DEF RangeOf, NoPart
  <2>2. CASE ~(last <= 0 \/ size <= 0)
    <3> DEFINE begin == IF size > last THEN size - last ELSE 0
    <3>1. RangeOf(first, last, size) = begin..(size - 1)
      BY <1>2, <2>2 DEF RangeOf
    <3>2. begin..(size - 1) = {p \in 0..(size - 1) : size - p <= last}
      BY <1>2, <2>2
    <3> HIDE DEF begin
    <3> QED BY <1>2, <3>1, <3>2
  <2> QED BY <2>1, <2>2
<1> QED BY <1>1, <1>2

----------------------------------------------------------------------------
(* The Trash, citations, and the parts of LibraryStepProofs.               *)

\* For any courses and files, shared ones included, and any failures and
\* stops: what can still be used or restored has its files and projection, a
\* file on disk is named by a row or a purge journal, a course outlives its
\* children, and a purge that has begun only goes forward (trash_service.py).
THEOREM TrashStaysSound == LibrarySpec => TrashHolds
<1> DEFINE Inv == scenario = "trash" => TrashInv
<1>1. LibraryInit => Inv
  BY TrashStart DEF LibraryInit
<1>2. Inv /\ [LibraryNext]_libraryVars => Inv'
  BY LibrarySteps, TrashStep, TrashStutters
<1>3. Inv => (scenario = "trash" => TrashSound)
  BY TrashIsSound
<1>4. Inv /\ [LibraryNext]_libraryVars => [scenario = "trash" => PurgeGoesForward]_trashVars
  BY LibrarySteps, TrashStep
<1> QED BY <1>1, <1>2, <1>3, <1>4, PTL DEF LibrarySpec, libraryVars, TrashHolds

\* For any memory, protocol and policy, one that picks anything included: no
\* counted limit is passed, an answer rests on evidence found and verified in
\* its episode, an episode ends for the reason it gives, and a supported need
\* stays supported (controller_runner.py, controller_schemas.py).
THEOREM EpisodesStaySound == LibrarySpec => EpisodesHold
<1> DEFINE Inv == scenario = "episodes" => EpisodeInv
<1>1. LibraryInit => Inv
  BY EpisodeStart DEF LibraryInit
<1>2. Inv /\ [LibraryNext]_libraryVars => Inv'
  BY LibrarySteps, EpisodeStepInv
<1>3. Inv => (scenario = "episodes" => EpisodeSound)
  BY EpisodeIsSound
<1>4. Inv /\ [LibraryNext]_libraryVars => [scenario = "episodes" => SupportKept]_episodeVars
  BY LibrarySteps, EpisodeStepInv
<1> QED BY <1>1, <1>2, <1>3, <1>4, PTL DEF LibrarySpec, libraryVars, EpisodesHold

\* For any citations, requests, file contents and number of changes: what is
\* streamed is the upload that was cited unless that file was written in
\* place, nothing is refused without a cause, a stored fingerprint stays, and
\* the part of a file a range asks for is the one sent.
THEOREM CitationsStayTrue == LibrarySpec => CitationsHold
<1> DEFINE Inv == scenario = "citations" => CitationInv
<1>1. LibraryInit => Inv
  BY CitationStart DEF LibraryInit
<1>2. Inv /\ [LibraryNext]_libraryVars => Inv'
  BY LibrarySteps, CitationStepInv
<1>3. SmallRanges
  BY RangesAreHeld DEF SmallRanges
<1>4. Inv => (scenario = "citations" => ServedAsCited /\ RefusedForCause /\ SmallRanges)
  BY <1>3, CitationIsSound
<1>5. Inv /\ [LibraryNext]_libraryVars => [scenario = "citations" => FingerprintKept]_citationVars
  BY LibrarySteps, CitationStepInv
<1> QED BY <1>1, <1>2, <1>4, <1>5, PTL DEF LibrarySpec, libraryVars, CitationsHold

\* For any cards, pairs, relation types and requests, however their steps
\* interleave: what a purge or a deleted review item leaves behind was written
\* afterwards.  And a decision about a relation outlives recomputation; besides
\* a deletion or a purge only a request that writes back the row it had read
\* changes it, a patch to anything, and classification to hidden alone
\* (knowledge_card_store.py, card_relation_store.py, card_relation_service.py).
THEOREM CardsStayComplete == LibrarySpec => CardsHold
<1> DEFINE Inv == scenario = "cards" => StudyInv
<1>1. LibraryInit => Inv
  BY StudyStart DEF LibraryInit
<1>2. Inv /\ [LibraryNext]_libraryVars => Inv'
  BY LibrarySteps, StudyStepInv
<1>3. Inv => (scenario = "cards" => CascadeComplete)
  BY StudyIsSound
<1>4. Inv /\ [LibraryNext]_libraryVars => [scenario = "cards" => DecisionKept]_studyVars
  BY LibrarySteps, StudyStepInv
<1> QED BY <1>1, <1>2, <1>3, <1>4, PTL DEF LibrarySpec, libraryVars, CardsHold

\* For any topics, cards and requests, however their transactions interleave
\* and wherever a request stops: a card has at most one primary topic.  And
\* until a request writes after another one has changed the tree it had read,
\* no topic is above itself, and the topic of a card is there and is not lost
\* (topic_service.py, which holds no lock from its reads to its writes).
THEOREM TopicsStaySound == LibrarySpec => TopicsHold
<1> DEFINE Inv == scenario = "topics" => TopicInv
<1>1. LibraryInit => Inv
  BY TopicStart DEF LibraryInit
<1>2. Inv /\ [LibraryNext]_libraryVars => Inv'
  BY LibrarySteps, TopicStepInv
<1>3. Inv => (scenario = "topics" => TopicsSound)
  BY TopicIsSound
<1>4. Inv /\ [LibraryNext]_libraryVars => [scenario = "topics" => CardsStayPlaced]_topicVars
  BY LibrarySteps, TopicStepInv
<1> QED BY <1>1, <1>2, <1>3, <1>4, PTL DEF LibrarySpec, libraryVars, TopicsHold

\* For any runs, chunks and cards of a chunk, whatever stops, retries,
\* cancellations and new chunkings come in between: a chunk has the cards its
\* ledger row counts, a completed run has published every chunk of it, and
\* what is published is final (auto_card_generation_service.py).
THEOREM GenerationStaysSound == LibrarySpec => GenerationHolds
<1> DEFINE Inv == scenario = "generation" => GenInv
<1>1. LibraryInit => Inv
  BY GenStart DEF LibraryInit
<1>2. Inv /\ [LibraryNext]_libraryVars => Inv'
  BY LibrarySteps, GenStepInv
<1>3. Inv => (scenario = "generation" => LedgerSound)
  BY LedgerIsSound
<1>4. Inv /\ [LibraryNext]_libraryVars => [scenario = "generation" => PublishedIsFinal]_generationVars
  BY LibrarySteps, GenStepInv
<1> QED BY <1>1, <1>2, <1>3, <1>4, PTL DEF LibrarySpec, libraryVars, GenerationHolds

\* For any uploaders, whatever stops, Trash and late writes come in between:
\* a finished record has its transcript or units, a task that ends leaves its
\* record settled, and what is in Trash is left alone (job_service.py,
\* source_asset_service.py).
THEOREM IntakeStaysSound == LibrarySpec => IntakeHolds
<1> DEFINE Inv == scenario = "intake" => IntakeInv
<1>1. LibraryInit => Inv
  BY IntakeStart DEF LibraryInit
<1>2. Inv /\ [LibraryNext]_libraryVars => Inv'
  BY LibrarySteps, IntakeStepInv
<1>3. Inv => (scenario = "intake" => IntakeSound)
  BY DEF IntakeInv
<1>4. Inv /\ [LibraryNext]_libraryVars => [scenario = "intake" => IntakeSteps]_intakeVars
  BY LibrarySteps, IntakeStepInv
<1> QED BY <1>1, <1>2, <1>3, <1>4, PTL DEF LibrarySpec, libraryVars, IntakeHolds

\* For any Concepts, published relations and limits: a trace is a shortest
\* one, "unreachable" is only said of what no limit would have reached, a
\* neighbourhood is whole and nearest first or says that it was cut, and a
\* learning path holds all that is behind its target, each Concept after its
\* prerequisites (concept_graph_path.py).
THEOREM AnswersStayRight == LibrarySpec => []PathsHold
<1> DEFINE Inv == scenario = "paths" => PathInv
<1>1. LibraryInit => Inv
  BY PathStart DEF LibraryInit
<1>2. Inv /\ [LibraryNext]_libraryVars => Inv'
  BY LibrarySteps, PathStepInv
<1>3. Inv => PathsHold
  BY AnswersAreRight DEF PathsHold
<1> QED BY <1>1, <1>2, <1>3, PTL DEF LibrarySpec, libraryVars

----------------------------------------------------------------------------
(***************************************************************************)
(* Autosaved drafts.  A revision of a row has one text: what an editor, or *)
(* a reply on its way, holds of the row that is there is older than it or  *)
(* is its text (Agrees).  The reply an editor waits for answers the text it *)
(* shows, because every edit is followed by a request of its own.          *)
(***************************************************************************)

DraftTexts == Texts \cup {Saved}
DraftRows == [rev : Nat, text : DraftTexts, row : Nat]
WindowStates == {"hydrating", "saving", "saved", "saved_local", "clean", "conflict"}
WindowType == [text : DraftTexts, rev : Nat, row : Nat, saw : DraftTexts \cup {NoText},
               state : WindowStates, recovery : DraftTexts \cup {NoText}, seq : Nat]
WireType == [w : Windows, seq : Nat, op : {"get", "put", "delete"}, rev : Nat,
             text : DraftTexts \cup {NoText}, saw : DraftTexts \cup {NoText}]
ReplyType == [op : {"none", "read", "saved", "conflict", "deleted"}, rev : Nat,
              text : DraftTexts \cup {NoText}, row : Nat]

DraftTypes ==
    /\ draft \in DraftRows \cup {NoDraft} /\ rows \in Nat
    /\ window \in [Windows -> WindowType]
    /\ reply \in [Windows -> ReplyType]
    /\ wire \subseteq WireType
    /\ \A r \in wire : r.op = "put" => r.text # NoText

Agrees(d, count, own, rev, words) ==
    /\ own <= count
    /\ d # NoDraft /\ d.row = own => rev <= d.rev /\ (rev = d.rev => words = d.text)

RowsNumbered ==
    /\ draft # NoDraft => draft.row \in 1..rows
    /\ \A w \in Windows : /\ Agrees(draft, rows, window[w].row, window[w].rev, window[w].saw)
                          /\ Agrees(draft, rows, reply[w].row, reply[w].rev, reply[w].text)

OneAwaited ==
    /\ \A r \in wire : r.seq <= window[r.w].seq
    /\ \A r, s \in wire : r.w = s.w /\ r.seq = s.seq => r = s
    /\ \A r \in wire : Awaited(r) => /\ reply[r.w].op = "none"
                                     /\ window[r.w].recovery = NoText

\* The editor has not changed its text since the save it waits for.
Waiting(win, words) == win.state = "saving" /\ win.text = words
EditorsWait ==
    /\ \A r \in wire : Awaited(r) /\ r.op = "put" => Waiting(window[r.w], r.text)
    /\ \A w \in Windows :
         /\ reply[w].op = "saved" => Waiting(window[w], reply[w].text)
         /\ reply[w].op # "none" => window[w].recovery = NoText
         /\ window[w].recovery # NoText => window[w].state = "conflict"
         /\ window[w].state = "saved" => window[w].text = window[w].saw

DraftInv == DraftTypes /\ RowsNumbered /\ OneAwaited /\ EditorsWait

LEMMA DraftStart == DraftInit => DraftInv
<1> SUFFICES ASSUME DraftInit PROVE DraftInv
  OBVIOUS
<1>1. NewWindow \in WindowType /\ NoReply \in ReplyType
  BY DEF NewWindow, NoReply, WindowType, ReplyType, DraftTexts, WindowStates
<1>2. DraftTypes
  BY <1>1 DEF DraftInit, DraftTypes
<1> QED BY <1>1, <1>2 DEF DraftInit, DraftInv, RowsNumbered, Agrees, OneAwaited, EditorsWait,
           NewWindow, NoReply

\* A request of an editor that supersedes what it waited for.
LEMMA SendStep ==
    ASSUME DraftInv, NEW w \in Windows, NEW kind \in {"get", "put", "delete"},
           NEW words \in DraftTexts \cup {NoText}, NEW rev \in Nat, NEW new \in WindowType,
           NEW sent \in BOOLEAN,
           window' = [window EXCEPT ![w] = [new EXCEPT !.seq = window[w].seq + 1]],
           reply' = [reply EXCEPT ![w] = NoReply],
           wire' = IF sent THEN wire \cup {[w |-> w, seq |-> window[w].seq + 1, op |-> kind,
                                            rev |-> rev, text |-> words, saw |-> new.saw]}
                   ELSE wire,
           UNCHANGED <<draft, rows>>,
           Agrees(draft, rows, new.row, new.rev, new.saw),
           new.recovery = NoText, new.state # "saved",
           kind = "put" => words = new.text /\ new.state = "saving" /\ words # NoText
    PROVE  DraftInv'
<1> DEFINE n == window[w].seq + 1
           win == [new EXCEPT !.seq = n]
           r0 == [w |-> w, seq |-> n, op |-> kind, rev |-> rev, text |-> words, saw |-> new.saw]
<1>1. /\ DraftTypes /\ RowsNumbered /\ OneAwaited /\ EditorsWait
  BY DEF DraftInv
<1>2. /\ n \in Nat /\ window[w].seq \in Nat
      /\ win \in WindowType /\ win.seq = n /\ win.text = new.text /\ win.rev = new.rev
      /\ win.row = new.row /\ win.saw = new.saw /\ win.state = new.state
      /\ win.recovery = new.recovery
  BY <1>1 DEF DraftTypes, WindowType
<1>3. /\ window'[w] = win /\ \A v \in Windows \ {w} : window'[v] = window[v]
      /\ reply'[w] = NoReply /\ \A v \in Windows \ {w} : reply'[v] = reply[v]
  BY <1>1 DEF DraftTypes
<1>4. r0 \in WireType /\ r0.w = w /\ r0.seq = n /\ r0.op = kind /\ r0.text = words
  BY <1>2 DEF WireType, WindowType
<1>5. wire' \subseteq wire \cup {r0}
  OBVIOUS
<1>6. NoReply \in ReplyType /\ NoReply.op = "none" /\ NoReply.row = 0 /\ NoReply.rev = 0
  BY DEF NoReply, ReplyType, DraftTexts
<1> HIDE DEF n, win, r0
<1>7. DraftTypes'
  <2>1. window' \in [Windows -> WindowType] /\ reply' \in [Windows -> ReplyType]
    BY <1>1, <1>2, <1>6 DEF DraftTypes, n, win
  <2>2. wire' \subseteq WireType /\ \A r \in wire' : r.op = "put" => r.text # NoText
    BY <1>1, <1>4, <1>5 DEF DraftTypes
  <2> QED BY <1>1, <2>1, <2>2 DEF DraftTypes
<1>8. \A r \in wire : r \in WireType /\ r.w \in Windows /\ r.seq \in Nat
  BY <1>1 DEF DraftTypes, WireType
<1>9. \A r \in wire : r.w = w => r.seq < n
  BY <1>1, <1>2, <1>8 DEF OneAwaited, n
<1>10. ASSUME NEW r \in wire, Awaited(r)' PROVE Awaited(r) /\ r.w # w
  <2>1. r.seq = window'[r.w].seq /\ r.w \in Windows /\ r.seq \in Nat
    BY <1>8, <1>10 DEF Awaited
  <2>2. r.w # w
    <3>1. ASSUME r.w = w PROVE FALSE
      <4>1. r.seq < n /\ n \in Nat /\ window'[w] = win /\ win.seq = n
        BY <1>2, <1>3, <1>9, <3>1
      <4>2. r.seq = window'[w].seq
        BY <2>1, <3>1
      <4>3. r.seq = n
        BY <4>1, <4>2, Zenon
      <4>4. r.seq < n /\ n \in Nat
        BY <4>1
      <4> QED BY <4>3, <4>4
    <3> QED BY <3>1
  <2> QED BY <1>3, <2>1, <2>2 DEF Awaited
<1>11. OneAwaited'
  <2>1. \A r \in wire' : r.seq <= window'[r.w].seq
    BY <1>1, <1>2, <1>3, <1>4, <1>5, <1>8, <1>9 DEF OneAwaited
  <2>2. \A r, s \in wire' : r.w = s.w /\ r.seq = s.seq => r = s
    BY <1>1, <1>2, <1>4, <1>5, <1>8, <1>9 DEF OneAwaited
  <2>3. \A r \in wire' : Awaited(r)' => reply'[r.w].op = "none" /\ window'[r.w].recovery = NoText
    BY <1>1, <1>2, <1>3, <1>4, <1>5, <1>6, <1>8, <1>10 DEF OneAwaited
  <2> QED BY <2>1, <2>2, <2>3 DEF OneAwaited, Awaited
<1>12. RowsNumbered'
  <2>1. 0 <= rows /\ (draft # NoDraft => draft.row # 0)
    BY <1>1 DEF DraftTypes, RowsNumbered
  <2> QED BY <1>1, <1>2, <1>3, <1>6, <2>1 DEF RowsNumbered, Agrees
<1>13. EditorsWait'
  <2>1. \A r \in wire' : Awaited(r)' /\ r.op = "put" => Waiting(window'[r.w], r.text)
    BY <1>1, <1>2, <1>3, <1>4, <1>5, <1>8, <1>10 DEF EditorsWait, Waiting
  <2>2. \A v \in Windows :
         /\ reply'[v].op = "saved" => Waiting(window'[v], reply'[v].text)
         /\ reply'[v].op # "none" => window'[v].recovery = NoText
         /\ window'[v].recovery # NoText => window'[v].state = "conflict"
         /\ window'[v].state = "saved" => window'[v].text = window'[v].saw
    BY <1>1, <1>2, <1>3, <1>6 DEF EditorsWait, Waiting
  <2> QED BY <2>1, <2>2 DEF EditorsWait, Awaited, Waiting
<1> QED BY <1>7, <1>11, <1>12, <1>13 DEF DraftInv

\* The text of an editor that stays on the device.
LEMMA OfflineStep ==
    ASSUME DraftInv, NEW w \in Windows, NEW t \in Texts, TypeOffline(w, t)
    PROVE  DraftInv'
<1>1. /\ DraftTypes /\ RowsNumbered /\ OneAwaited /\ EditorsWait
      /\ UNCHANGED <<draft, wire, reply, rows>>
  BY DEF DraftInv, TypeOffline
<1>2. /\ window' = [window EXCEPT ![w].text = t] /\ window[w] \in WindowType
  BY <1>1 DEF TypeOffline, DraftTypes
<1>3. /\ window'[w] \in WindowType /\ window'[w].rev = window[w].rev
      /\ window'[w].row = window[w].row /\ window'[w].saw = window[w].saw
      /\ window'[w].state = window[w].state /\ window'[w].recovery = window[w].recovery
      /\ window'[w].seq = window[w].seq
      /\ \A v \in Windows \ {w} : window'[v] = window[v]
      /\ window' \in [Windows -> WindowType]
  BY <1>1, <1>2 DEF DraftTypes, WindowType, DraftTexts
<1>4. window[w].state = "hydrating" \/ window[w].recovery # NoText
  BY DEF TypeOffline, Synced
<1>5. window[w].state \notin {"saving", "saved"}
  BY <1>1, <1>4 DEF EditorsWait
<1>6. \A r \in wire : r.w \in Windows /\ (Awaited(r)' <=> Awaited(r))
  <2>1. \A r \in wire : r.w \in Windows
    BY <1>1 DEF DraftTypes, WireType
  <2> QED BY <1>3, <2>1 DEF Awaited
<1>7. DraftTypes'
  BY <1>1, <1>3 DEF DraftTypes
<1>8. RowsNumbered'
  BY <1>1, <1>3 DEF RowsNumbered, Agrees
<1>9. OneAwaited'
  <2>1. /\ \A r \in wire' : r.seq <= window'[r.w].seq
        /\ \A r, s \in wire' : r.w = s.w /\ r.seq = s.seq => r = s
    BY <1>1, <1>3, <1>6 DEF OneAwaited
  <2>2. \A r \in wire' : Awaited(r)' => reply'[r.w].op = "none" /\ window'[r.w].recovery = NoText
    BY <1>1, <1>3, <1>6 DEF OneAwaited
  <2> QED BY <2>1, <2>2 DEF OneAwaited, Awaited
<1>10. EditorsWait'
  <2>1. \A r \in wire' : Awaited(r)' /\ r.op = "put" => Waiting(window'[r.w], r.text)
    BY <1>1, <1>3, <1>5, <1>6 DEF EditorsWait, Waiting
  <2>2. \A v \in Windows :
         /\ reply'[v].op = "saved" => Waiting(window'[v], reply'[v].text)
         /\ reply'[v].op # "none" => window'[v].recovery = NoText
         /\ window'[v].recovery # NoText => window'[v].state = "conflict"
         /\ window'[v].state = "saved" => window'[v].text = window'[v].saw
    BY <1>1, <1>3, <1>5 DEF EditorsWait, Waiting
  <2> QED BY <2>1, <2>2 DEF EditorsWait, Awaited, Waiting
<1> QED BY <1>7, <1>8, <1>9, <1>10 DEF DraftInv

\* The server serves a request, however late, and its reply may be lost.
LEMMA ServeStep ==
    ASSUME DraftInv, NEW r \in wire, NEW heard \in BOOLEAN, Serve(r, heard)
    PROVE  DraftInv'
<1>1. /\ DraftTypes /\ RowsNumbered /\ OneAwaited /\ EditorsWait
      /\ window' = window /\ wire' = wire \ {r}
  BY DEF DraftInv, Serve
<1>2. /\ r \in WireType /\ r.w \in Windows /\ (r.op = "put" => r.text \in DraftTexts)
      /\ rows \in Nat /\ rows + 1 \in Nat
      /\ draft # NoDraft => draft \in DraftRows
  BY <1>1 DEF DraftTypes, WireType
<1>3. /\ draft' \in DraftRows \cup {NoDraft} /\ rows' \in {rows, rows + 1}
      /\ draft' # NoDraft =>
           \/ draft # NoDraft /\ draft'.row = draft.row /\ draft'.rev = draft.rev + 1
           \/ draft'.row = rows + 1 /\ rows' = rows + 1
           \/ draft' = draft
      /\ r.op = "put" /\ (Creates(r) \/ Accepts(r)) =>
           draft' # NoDraft /\ draft'.text = r.text
  <2>1. CASE Creates(r)
    <3>1. draft' = AfterServe(r) /\ rows' = rows + 1
      BY <2>1 DEF Serve
    <3>2. AfterServe(r) = [rev |-> 1, text |-> r.text, row |-> rows + 1]
      BY <2>1 DEF AfterServe, Creates, Accepts
    <3>3. draft' \in DraftRows /\ draft'.row = rows + 1 /\ draft'.text = r.text
      BY <1>2, <2>1, <3>1, <3>2 DEF DraftRows, Creates
    <3> QED BY <3>1, <3>3, WorkspaceDraftAssumption DEF DraftRows, DraftTexts
  <2>2. CASE ~Creates(r) /\ r.op = "put" /\ Accepts(r)
    <3>1. draft # NoDraft /\ draft \in DraftRows
      BY <1>2, <2>2 DEF Accepts
    <3>4. AfterServe(r) = [draft EXCEPT !.rev = @ + 1, !.text = r.text]
      BY <2>2 DEF AfterServe
    <3>2. draft' = [draft EXCEPT !.rev = @ + 1, !.text = r.text] /\ rows' = rows
      BY <2>2, <3>4 DEF Serve
    <3>6. draft.rev + 1 \in Nat /\ r.text \in DraftTexts
      BY <1>2, <2>2, <3>1 DEF DraftRows
    <3>7. \A n \in Nat : [draft EXCEPT !.rev = n] = [rev |-> n, text |-> draft.text,
                                                        row |-> draft.row]
      BY <3>1 DEF DraftRows
    <3>8. \A d \in DraftRows : [d EXCEPT !.text = r.text] = [rev |-> d.rev, text |-> r.text,
                                                            row |-> d.row]
      BY DEF DraftRows
    <3>9. [draft EXCEPT !.rev = @ + 1] \in DraftRows
      BY <3>1, <3>6, <3>7 DEF DraftRows
    <3>5. draft' = [rev |-> draft.rev + 1, text |-> r.text, row |-> draft.row]
      BY <3>2, <3>6, <3>7, <3>8, <3>9
    <3>3. /\ draft' \in DraftRows /\ draft'.rev = draft.rev + 1 /\ draft'.text = r.text
          /\ draft'.row = draft.row
      BY <3>1, <3>5, <3>6 DEF DraftRows
    <3> QED BY <3>1, <3>2, <3>3, WorkspaceDraftAssumption DEF DraftRows, DraftTexts
  <2>3. CASE ~Creates(r) /\ ~(r.op = "put" /\ Accepts(r))
    <3>1. draft' \in {draft, NoDraft} /\ rows' = rows
      BY <2>3 DEF Serve, AfterServe
    <3> QED BY <1>2, <2>3, <3>1
  <2> QED BY <2>1, <2>2, <2>3
<1>4. \A n, rev \in Nat : \A words : Agrees(draft, rows, n, rev, words) =>
        Agrees(draft', rows', n, rev, words)
  <2> SUFFICES ASSUME NEW n \in Nat, NEW rev \in Nat, NEW words, 
                      Agrees(draft, rows, n, rev, words)
               PROVE  Agrees(draft', rows', n, rev, words)
    OBVIOUS
  <2>1. n <= rows'
    BY <1>2, <1>3 DEF Agrees
  <2>2. ASSUME draft' # NoDraft, draft'.row = n
        PROVE  rev <= draft'.rev /\ (rev = draft'.rev => words = draft'.text)
    <3>1. CASE draft # NoDraft /\ draft'.row = draft.row /\ draft'.rev = draft.rev + 1
      BY <1>2, <2>2, <3>1 DEF Agrees, DraftRows
    <3>2. CASE draft'.row = rows + 1
      BY <1>2, <2>2, <3>2 DEF Agrees
    <3>3. CASE draft' = draft
      BY <2>2, <3>3 DEF Agrees
    <3> QED BY <1>3, <2>2, <3>1, <3>2, <3>3
  <2> QED BY <2>1, <2>2 DEF Agrees
<1>5. draft' # NoDraft => draft'.row \in 1..rows' /\ draft' \in DraftRows
  BY <1>1, <1>2, <1>3 DEF RowsNumbered, DraftRows
<1>6. Outcome(r) \in {"read", "saved", "conflict", "deleted"}
  BY <1>2 DEF Outcome, WireType
<1> DEFINE answer == Respond(Outcome(r), draft')
<1>7. /\ answer \in ReplyType /\ answer.op = Outcome(r)
      /\ Agrees(draft', rows', answer.row, answer.rev, answer.text)
      /\ draft' # NoDraft => answer.text = draft'.text
  <2>1. CASE draft' = NoDraft
    <3>1. answer = [op |-> Outcome(r), rev |-> 0, text |-> NoText, row |-> 0]
      BY <2>1 DEF Respond, NoReply
    <3>2. 0 <= rows'
      BY <1>2, <1>3
    <3>3. answer \in ReplyType /\ answer.op = Outcome(r) /\ answer.row = 0
      BY <1>6, <3>1 DEF ReplyType
    <3> HIDE DEF answer
    <3>4. Agrees(draft', rows', answer.row, answer.rev, answer.text)
      BY <2>1, <3>2, <3>3 DEF Agrees
    <3> QED BY <2>1, <3>3, <3>4
  <2>2. CASE draft' # NoDraft
    <3>1. answer = [op |-> Outcome(r), rev |-> draft'.rev, text |-> draft'.text,
                    row |-> draft'.row]
      BY <2>2 DEF Respond
    <3>2. draft' \in DraftRows /\ draft'.row <= rows'
      BY <1>2, <1>3, <1>5, <2>2
    <3>3. /\ answer \in ReplyType /\ answer.op = Outcome(r) /\ answer.row = draft'.row
          /\ answer.rev = draft'.rev /\ answer.text = draft'.text
      BY <1>6, <3>1, <3>2 DEF ReplyType, DraftRows
    <3>4. draft'.rev \in Nat /\ draft'.row \in Nat
      BY <3>2 DEF DraftRows
    <3> HIDE DEF answer
    <3> QED BY <2>2, <3>2, <3>3, <3>4 DEF Agrees
  <2> QED BY <2>1, <2>2
<1>8. reply' = IF heard /\ Awaited(r) THEN [reply EXCEPT ![r.w] = answer] ELSE reply
  BY DEF Serve
<1> HIDE DEF answer
<1>9. \A v \in Windows : \/ reply'[v] = reply[v]
                         \/ v = r.w /\ Awaited(r) /\ reply'[v] = answer
  BY <1>1, <1>2, <1>8 DEF DraftTypes
<1>10. DraftTypes'
  <2>1. reply' \in [Windows -> ReplyType]
    BY <1>1, <1>7, <1>8 DEF DraftTypes
  <2> QED BY <1>1, <1>2, <1>3, <2>1 DEF DraftTypes
<1>11. RowsNumbered'
  <2>1. ASSUME NEW w \in Windows
        PROVE  /\ Agrees(draft', rows', window[w].row, window[w].rev, window[w].saw)
               /\ Agrees(draft', rows', reply'[w].row, reply'[w].rev, reply'[w].text)
    <3>1. Agrees(draft, rows, window[w].row, window[w].rev, window[w].saw)
      BY <1>1 DEF RowsNumbered
    <3>2. window[w].row \in Nat /\ window[w].rev \in Nat
      BY <1>1 DEF DraftTypes, WindowType
    <3>3. Agrees(draft, rows, reply[w].row, reply[w].rev, reply[w].text)
      BY <1>1 DEF RowsNumbered
    <3>4. reply[w].row \in Nat /\ reply[w].rev \in Nat
      BY <1>1 DEF DraftTypes, ReplyType
    <3>5. Agrees(draft', rows', window[w].row, window[w].rev, window[w].saw)
      BY <1>1, <1>4, <3>1, <3>2 DEF Agrees
    <3>6. CASE reply'[w] = reply[w]
      BY <1>1, <1>4, <3>3, <3>4, <3>5, <3>6 DEF Agrees
    <3>7. CASE reply'[w] = answer
      BY <1>1, <1>7, <3>5, <3>7 DEF Agrees
    <3> QED BY <1>9, <3>6, <3>7
  <2> QED BY <1>1, <1>5, <2>1 DEF RowsNumbered
<1>12. OneAwaited'
  <2>1. \A s \in wire' : s \in wire /\ s # r
    BY <1>1
  <2>2. \A s \in wire' : Awaited(s)' => Awaited(s) /\ reply'[s.w] = reply[s.w]
    <3> SUFFICES ASSUME NEW s \in wire', Awaited(s)'
                 PROVE  Awaited(s) /\ reply'[s.w] = reply[s.w]
      OBVIOUS
    <3>1. Awaited(s) /\ s \in wire /\ s # r /\ s.w \in Windows
      BY <1>1, <2>1 DEF Awaited, DraftTypes, WireType
    <3>2. ~(s.w = r.w /\ Awaited(r))
      BY <1>1, <3>1 DEF OneAwaited, Awaited
    <3> QED BY <1>9, <3>1, <3>2
  <2>3. \A s \in wire' : Awaited(s)' => reply'[s.w].op = "none" /\ window'[s.w].recovery = NoText
    BY <1>1, <2>1, <2>2 DEF OneAwaited
  <2> QED BY <1>1, <2>1, <2>3 DEF OneAwaited, Awaited
<1>13. EditorsWait'
  <2>1. \A s \in wire' : Awaited(s)' /\ s.op = "put" => Waiting(window'[s.w], s.text)
    BY <1>1 DEF EditorsWait, Waiting, Awaited
  <2>2. ASSUME NEW v \in Windows
        PROVE  /\ reply'[v].op = "saved" => Waiting(window'[v], reply'[v].text)
               /\ reply'[v].op # "none" => window'[v].recovery = NoText
               /\ window'[v].recovery # NoText => window'[v].state = "conflict"
               /\ window'[v].state = "saved" => window'[v].text = window'[v].saw
    <3>1. CASE reply'[v] = reply[v]
      BY <1>1, <3>1 DEF EditorsWait, Waiting
    <3>2. CASE v = r.w /\ Awaited(r) /\ reply'[v] = answer
      <4>1. window[v].recovery = NoText
        BY <1>1, <3>2 DEF OneAwaited
      <4>2. ASSUME answer.op = "saved" PROVE Waiting(window[v], answer.text)
        <5>1. r.op = "put" /\ (Creates(r) \/ Accepts(r))
          BY <1>2, <1>7, <4>2 DEF Outcome, WireType
        <5>2. answer.text = r.text
          BY <1>3, <1>7, <5>1
        <5> QED BY <1>1, <3>2, <5>1, <5>2 DEF EditorsWait, Waiting
      <4> QED BY <1>1, <3>2, <4>1, <4>2 DEF EditorsWait, Waiting
    <3> QED BY <1>9, <3>1, <3>2
  <2> QED BY <2>1, <2>2 DEF EditorsWait, Awaited, Waiting
<1> QED BY <1>10, <1>11, <1>12, <1>13 DEF DraftInv

\* An editor hears the reply it waited for.
LEMMA HearStep ==
    ASSUME DraftInv, NEW w \in Windows, Hear(w)
    PROVE  DraftInv'
<1> DEFINE win == window'[w]
           told == Told(w)
<1>1. /\ DraftTypes /\ RowsNumbered /\ OneAwaited /\ EditorsWait
      /\ UNCHANGED <<draft, wire, rows>>
      /\ reply[w].op # "none" /\ window[w].recovery = NoText
      /\ window[w] \in WindowType /\ reply[w] \in ReplyType
  BY DEF DraftInv, Hear, EditorsWait, DraftTypes
<1>2. /\ told \in WindowType /\ told.rev = reply[w].rev /\ told.row = reply[w].row
      /\ told.saw = reply[w].text /\ told.text = window[w].text
      /\ told.state = window[w].state /\ told.seq = window[w].seq /\ told.recovery = NoText
  BY <1>1 DEF Told, WindowType, ReplyType
<1>3. /\ reply' = [reply EXCEPT ![w] = NoReply]
      /\ win = CASE reply[w].op = "read"     -> HearRead(w)
                 [] reply[w].op = "saved"    -> [told EXCEPT !.state = "saved"]
                 [] reply[w].op = "conflict" -> HearConflict(w)
                 [] reply[w].op = "deleted"  -> window[w]
      /\ \A v \in Windows \ {w} : window'[v] = window[v]
      /\ DOMAIN window' = Windows
  BY <1>1 DEF Hear, DraftTypes
<1> HIDE DEF win, told
<1>4. /\ win \in WindowType /\ win.seq = window[w].seq
      /\ Agrees(draft, rows, win.row, win.rev, win.saw)
      /\ win.recovery # NoText => win.state = "conflict"
      /\ win.state = "saved" => win.text = win.saw
  <2>1. Agrees(draft, rows, told.row, told.rev, told.saw)
    BY <1>1, <1>2 DEF RowsNumbered
  <2>2. CASE reply[w].op = "read"
    <3>1. win = HearRead(w)
      BY <1>3, <2>2
    <3>2. CASE window[w].text = Saved /\ Other(w)
      <4>1. win = [told EXCEPT !.text = reply[w].text, !.state = "saved"]
        BY <3>1, <3>2 DEF HearRead, told
      <4>2. reply[w].text \in DraftTexts
        BY <1>1, <3>2 DEF Other, ReplyType
      <4> QED BY <1>2, <2>1, <4>1, <4>2 DEF WindowType, WindowStates
    <3>3. CASE ~(window[w].text = Saved /\ Other(w)) /\ Other(w) /\ reply[w].text # Saved
      <4>1. win = [told EXCEPT !.recovery = reply[w].text, !.state = "conflict"]
        BY <3>1, <3>3 DEF HearRead, told
      <4> QED BY <1>1, <1>2, <2>1, <4>1 DEF WindowType, ReplyType, WindowStates
    <3>4. CASE ~(window[w].text = Saved /\ Other(w)) /\ ~(Other(w) /\ reply[w].text # Saved)
      <4>1. win = [told EXCEPT !.state = "saved_local"]
        BY <3>1, <3>4 DEF HearRead, told
      <4> QED BY <1>2, <2>1, <4>1 DEF WindowType, WindowStates
    <3> QED BY <3>2, <3>3, <3>4
  <2>3. CASE reply[w].op = "saved"
    <3>1. win = [told EXCEPT !.state = "saved"]
      BY <1>3, <2>3
    <3>2. told.text = told.saw
      BY <1>1, <1>2, <2>3 DEF EditorsWait, Waiting
    <3> QED BY <1>2, <2>1, <3>1, <3>2 DEF WindowType, WindowStates
  <2>4. CASE reply[w].op = "conflict"
    <3>1. PICK words \in DraftTexts \cup {NoText} :
            win = [told EXCEPT !.state = "conflict", !.recovery = words]
      BY <1>1, <1>3, <2>4 DEF HearConflict, told, ReplyType
    <3> QED BY <1>2, <2>1, <3>1 DEF WindowType, WindowStates
  <2>5. CASE reply[w].op = "deleted"
    BY <1>1, <1>3, <2>5 DEF RowsNumbered, EditorsWait
  <2> QED BY <1>1, <2>2, <2>3, <2>4, <2>5 DEF ReplyType
<1>5. NoReply \in ReplyType /\ NoReply.op = "none" /\ NoReply.row = 0 /\ NoReply.rev = 0
  BY DEF NoReply, ReplyType, DraftTexts
<1>6. /\ window' \in [Windows -> WindowType] /\ reply' \in [Windows -> ReplyType]
      /\ reply'[w] = NoReply /\ \A v \in Windows \ {w} : reply'[v] = reply[v]
  <2>1. window' \in [Windows -> WindowType]
    <3>1. PICK seen : window' = [window EXCEPT ![w] = seen]
      BY Zenon DEF Hear
    <3>2. seen = win
      BY <1>1, <3>1 DEF DraftTypes, win
    <3> QED BY <1>1, <1>4, <3>1, <3>2 DEF DraftTypes
  <2> QED BY <1>1, <1>3, <1>5, <2>1 DEF DraftTypes
<1>7. \A r \in wire : Awaited(r) => r.w \in Windows /\ r.w # w
  BY <1>1 DEF OneAwaited, DraftTypes, WireType
<1>8. \A r \in wire : r.w \in Windows /\ (Awaited(r)' <=> Awaited(r))
  <2>1. \A r \in wire : r.w \in Windows
    BY <1>1 DEF DraftTypes, WireType
  <2> QED BY <1>3, <1>4, <2>1 DEF Awaited, win
<1>9. DraftTypes'
  BY <1>1, <1>6 DEF DraftTypes
<1>10. RowsNumbered'
  <2>1. 0 <= rows /\ (draft # NoDraft => draft.row # 0)
    BY <1>1 DEF DraftTypes, RowsNumbered
  <2>2. ASSUME NEW v \in Windows
        PROVE  /\ Agrees(draft, rows, window'[v].row, window'[v].rev, window'[v].saw)
               /\ Agrees(draft, rows, reply'[v].row, reply'[v].rev, reply'[v].text)
    <3>1. CASE v = w
      BY <1>4, <1>5, <1>6, <2>1, <3>1 DEF Agrees, win
    <3>2. CASE v # w
      BY <1>1, <1>3, <1>6, <3>2 DEF RowsNumbered
    <3> QED BY <3>1, <3>2
  <2> QED BY <1>1, <2>2 DEF RowsNumbered, Agrees
<1>11. OneAwaited'
  <2>1. /\ \A r \in wire' : r.seq <= window'[r.w].seq
        /\ \A r, s \in wire' : r.w = s.w /\ r.seq = s.seq => r = s
    BY <1>1, <1>3, <1>4, <1>8 DEF OneAwaited, win
  <2>2. \A r \in wire' : Awaited(r)' => reply'[r.w].op = "none" /\ window'[r.w].recovery = NoText
    BY <1>1, <1>3, <1>6, <1>7, <1>8 DEF OneAwaited
  <2> QED BY <2>1, <2>2 DEF OneAwaited, Awaited
<1>12. EditorsWait'
  <2>1. \A r \in wire' : Awaited(r)' /\ r.op = "put" => Waiting(window'[r.w], r.text)
    BY <1>1, <1>3, <1>7, <1>8 DEF EditorsWait, Waiting
  <2>2. ASSUME NEW v \in Windows
        PROVE  /\ reply'[v].op = "saved" => Waiting(window'[v], reply'[v].text)
               /\ reply'[v].op # "none" => window'[v].recovery = NoText
               /\ window'[v].recovery # NoText => window'[v].state = "conflict"
               /\ window'[v].state = "saved" => window'[v].text = window'[v].saw
    <3>1. CASE v = w
      BY <1>4, <1>5, <1>6, <3>1 DEF win
    <3>2. CASE v # w
      BY <1>1, <1>3, <1>6, <3>2 DEF EditorsWait
    <3> QED BY <3>1, <3>2
  <2> QED BY <2>1, <2>2 DEF EditorsWait, Awaited, Waiting
<1> QED BY <1>9, <1>10, <1>11, <1>12 DEF DraftInv

\* Every request of an editor is a Send, or drops what it waited for.
LEMMA DraftStep ==
    ASSUME DraftInv, [DraftNext]_draftVars
    PROVE  DraftInv'
<1>1. DraftTypes /\ RowsNumbered /\ EditorsWait
  BY DEF DraftInv
<1>2. \A w \in Windows : /\ window[w] \in WindowType
                         /\ Agrees(draft, rows, window[w].row, window[w].rev, window[w].saw)
                         /\ ~(window[w].state = "hydrating" /\ window[w].recovery # NoText)
  BY <1>1 DEF DraftTypes, RowsNumbered, EditorsWait
<1>3. ASSUME NEW w \in Windows, Hydrate(w) PROVE DraftInv'
  <2>1. Send(w, "get", NoText, 0, window[w]) /\ UNCHANGED <<draft, rows>>
        /\ window[w].state = "hydrating" /\ window[w].recovery = NoText
    BY <1>2, <1>3 DEF Hydrate
  <2> QED BY <1>2, <2>1, SendStep DEF Send
<1>4. ASSUME NEW w \in Windows, NEW t \in Texts, Type(w, t) PROVE DraftInv'
  <2> DEFINE new == [window[w] EXCEPT !.text = t, !.state = "saving"]
  <2>1. /\ Send(w, "put", t, window[w].rev, new) /\ UNCHANGED <<draft, rows>>
        /\ window[w].recovery = NoText
    BY <1>4 DEF Type, Synced
  <2>2. /\ new \in WindowType /\ new.text = t /\ new.state = "saving"
        /\ new.rev = window[w].rev /\ new.row = window[w].row /\ new.saw = window[w].saw
        /\ new.recovery = window[w].recovery
    BY <1>2 DEF WindowType, WindowStates, DraftTexts
  <2>3. t \in DraftTexts /\ t # NoText /\ window[w].rev \in Nat
    BY <1>2, WorkspaceDraftAssumption DEF DraftTexts, WindowType
  <2> HIDE DEF new
  <2> QED BY <1>2, <2>1, <2>2, <2>3, SendStep DEF Send
<1>5. ASSUME NEW w \in Windows, NEW t \in Texts, Resolve(w, t) PROVE DraftInv'
  <2> DEFINE new == [window[w] EXCEPT !.text = t, !.recovery = NoText, !.state = "saving"]
  <2>1. Send(w, "put", t, window[w].rev, new) /\ UNCHANGED <<draft, rows>>
    BY <1>5 DEF Resolve
  <2>2. /\ new \in WindowType /\ new.text = t /\ new.state = "saving"
        /\ new.rev = window[w].rev /\ new.row = window[w].row /\ new.saw = window[w].saw
        /\ new.recovery = NoText
    BY <1>2 DEF WindowType, WindowStates, DraftTexts
  <2>3. t \in DraftTexts /\ t # NoText /\ window[w].rev \in Nat
    BY <1>2, WorkspaceDraftAssumption DEF DraftTexts, WindowType
  <2> HIDE DEF new
  <2> QED BY <1>2, <2>1, <2>2, <2>3, SendStep DEF Send
<1>6. ASSUME NEW w \in Windows, Settle(w) PROVE DraftInv'
  <2> DEFINE new == [window[w] EXCEPT !.text = Saved, !.rev = 0, !.row = 0,
                                      !.saw = NoText, !.state = "clean"]
             last == [new EXCEPT !.saw = window[w].saw]
  <2>1. /\ new \in WindowType /\ new.row = 0 /\ new.rev = 0 /\ new.saw = NoText
        /\ new.state = "clean" /\ new.recovery = window[w].recovery
        /\ new.seq = window[w].seq
        /\ last \in WindowType /\ last.row = 0 /\ last.rev = 0 /\ last.saw = window[w].saw
        /\ last.state = "clean" /\ last.recovery = window[w].recovery
        /\ window[w].recovery = NoText /\ window[w].rev \in Nat
    BY <1>2, <1>6, ZenonT(60) DEF WindowType, WindowStates, DraftTexts, Settle, Synced
  <2>2. \A words : Agrees(draft, rows, 0, 0, words)
    BY <1>1 DEF Agrees, RowsNumbered, DraftTypes
  <2>3. CASE window[w].rev > 0
    <3>1. Send(w, "delete", NoText, window[w].rev, last) /\ UNCHANGED <<draft, rows>>
      BY <1>6, <2>3 DEF Settle
    <3>2. /\ "delete" \in {"get", "put", "delete"} /\ "delete" # "put"
          /\ NoText \in DraftTexts \cup {NoText} /\ TRUE \in BOOLEAN
      OBVIOUS
    <3> HIDE DEF last, new
    <3>3. Agrees(draft, rows, last.row, last.rev, last.saw)
      BY <2>1, <2>2
    <3>4. last.recovery = NoText /\ last.state # "saved"
      BY <2>1
    <3> QED BY <2>1, <3>1, <3>2, <3>3, <3>4, SendStep DEF Send
  <2>4. CASE ~(window[w].rev > 0)
    <3>1. /\ window' = [window EXCEPT ![w] = [new EXCEPT !.seq = window[w].seq + 1]]
          /\ reply' = [reply EXCEPT ![w] = NoReply] /\ UNCHANGED <<wire, draft, rows>>
      BY <1>6, <2>4 DEF Settle
    <3> HIDE DEF last, new
    <3>2. FALSE \in BOOLEAN /\ "get" \in {"get", "put", "delete"}
          /\ NoText \in DraftTexts \cup {NoText}
      OBVIOUS
    <3> QED BY <2>1, <2>2, <3>1, <3>2, SendStep
  <2> QED BY <2>3, <2>4
<1>7. CASE UNCHANGED draftVars
  BY <1>7 DEF draftVars, DraftInv, DraftTypes, RowsNumbered, Agrees, OneAwaited, Awaited,
              EditorsWait, Waiting
<1> QED BY <1>3, <1>4, <1>5, <1>6, <1>7, OfflineStep, ServeStep, HearStep DEF DraftNext

\* An editor that shows "Saved" and holds the revision of the row that is there
\* holds its text, for any number of windows, requests and texts, however
\* requests are delayed, reordered or lost (useAutosavedDraft.ts against
\* workspace_draft_store.py).
THEOREM DraftsStayAgreed == LibrarySpec => []DraftsHold
<1> DEFINE Inv == scenario = "drafts" => DraftInv
<1>1. LibraryInit => Inv
  BY DraftStart DEF LibraryInit
<1>2. Inv /\ [LibraryNext]_libraryVars => Inv'
  BY LibrarySteps, DraftStep
<1>3. Inv => DraftsHold
  BY DEF DraftInv, RowsNumbered, EditorsWait, Agrees, SavedAgrees, DraftsHold
<1> QED BY <1>1, <1>2, <1>3, PTL DEF LibrarySpec, libraryVars

----------------------------------------------------------------------------
(***************************************************************************)
(* Notebook notes.  text holds the body of every revision, so what an      *)
(* editor has read and what a snapshot keeps are both read from it         *)
(* (EditorsRead, NoteFits), and the Source is the snapshot with the        *)
(* greatest revision, which is the one Newest picks.                       *)
(***************************************************************************)

NoteRow == [body : Bodies, rev : Nat, trashed : BOOLEAN, answer : Answers \cup {NoAnswer}]
ReadType == [id : NoteIds \cup {NoNote}, rev : Nat, body : Bodies \cup {NoAnswer}]

NotesTypes ==
    /\ note \in [NoteIds -> NoteRow \cup {NoNote}]
    /\ text \in [NoteIds -> Seq(Bodies)]
    /\ snapshots \in [NoteIds -> SUBSET (Nat \X Bodies)]
    /\ saw \in [Editors -> ReadType]
    /\ DOMAIN source = NoteIds

\* A row, the bodies of its revisions, its snapshots and its Source.
NoteFits(r, bodies, snaps, shown) ==
    /\ \A s \in snaps : s[1] \in 1..Len(bodies) /\ s[2] = bodies[s[1]]
    /\ r = NoNote => snaps = {} /\ shown = NoSource
    /\ r # NoNote =>
         /\ Len(bodies) = r.rev /\ r.rev > 0 /\ r.body = bodies[r.rev]
         /\ snaps = {} => shown = NoSource
         /\ snaps # {} => shown \in snaps /\ \A s \in snaps : s[1] <= shown[1]
NotesFit == \A n \in NoteIds : NoteFits(note[n], text[n], snapshots[n], source[n])

EditorsRead ==
    \A e \in Editors, n \in NoteIds :
       saw[e].id = n => saw[e].rev \in 1..Len(text[n]) /\ saw[e].body = text[n][saw[e].rev]

CapturedOnce ==
    \A n, m \in NoteIds :
       note[n] # NoNote /\ note[m] # NoNote /\ note[n].answer = note[m].answer
         /\ note[n].answer # NoAnswer => n = m

NotesInv == NotesTypes /\ NotesFit /\ EditorsRead /\ CapturedOnce

LEMMA NotesStart == NotesInit => NotesInv
<1> SUFFICES ASSUME NotesInit PROVE NotesInv
  OBVIOUS
<1>1. Nothing \in ReadType /\ Nothing.id = NoNote /\ <<>> \in Seq(Bodies) /\ Len(<<>>) = 0
  BY DEF Nothing, ReadType
<1>2. NotesTypes
  BY <1>1 DEF NotesInit, NotesTypes
<1>3. NotesFit
  BY DEF NotesInit, NotesFit, NoteFits
<1>4. EditorsRead /\ CapturedOnce
  BY <1>1, NotebookAssumption DEF NotesInit, EditorsRead, CapturedOnce
<1> QED BY <1>2, <1>3, <1>4 DEF NotesInv

\* The snapshot with the greatest revision is the only one Newest can pick.
LEMMA NewestSnapshot ==
    ASSUME NotesInv, NEW n \in NoteIds, snapshots[n] # {}
    PROVE  Newest(n) = source[n]
<1>1. NoteFits(note[n], text[n], snapshots[n], source[n])
  BY DEF NotesInv, NotesFit
<1>2. source[n] \in snapshots[n] /\ \A s \in snapshots[n] : s[1] <= source[n][1]
  BY <1>1 DEF NoteFits
<1>3. \A s \in snapshots[n] : s \in Nat \X Bodies /\ s[1] \in Nat /\ s[2] = text[n][s[1]]
  BY <1>1 DEF NoteFits, NotesInv, NotesTypes
<1>4. Newest(n) \in snapshots[n] /\ \A s \in snapshots[n] : s[1] <= Newest(n)[1]
  BY <1>2 DEF Newest
<1>5. Newest(n)[1] = source[n][1]
  BY <1>2, <1>3, <1>4
<1> QED BY <1>2, <1>3, <1>4, <1>5

\* What keeps the invariant: rows that fit, bodies that are only added, reads
\* that return what is there, and no second note of an answer.
LEMMA NotesKept ==
    ASSUME NotesInv, NotesTypes', NotesFit',
           \A n \in NoteIds : /\ Len(text[n]) <= Len(text'[n])
                              /\ \A i \in 1..Len(text[n]) : text'[n][i] = text[n][i],
           \A e \in Editors : \/ saw'[e] = saw[e]
                              \/ \E n \in NoteIds : /\ note'[n] # NoNote
                                                    /\ saw'[e].id = n
                                                    /\ saw'[e].rev = note'[n].rev
                                                    /\ saw'[e].body = note'[n].body,
           \/ \A n \in NoteIds : note'[n] # NoNote =>
                 note[n] # NoNote /\ note'[n].answer = note[n].answer
           \/ \E k \in NoteIds :
                 /\ \A n \in NoteIds \ {k} : note'[n] = note[n]
                 /\ \A n \in NoteIds : note'[k].answer # NoAnswer /\ note[n] # NoNote =>
                                          note[n].answer # note'[k].answer
    PROVE  NotesInv'
<1>1. NotesTypes /\ NotesFit /\ EditorsRead /\ CapturedOnce
  BY DEF NotesInv
<1>2. EditorsRead'
  <2>1. ASSUME NEW e \in Editors, NEW n \in NoteIds, saw'[e].id = n
        PROVE  saw'[e].rev \in 1..Len(text'[n]) /\ saw'[e].body = text'[n][saw'[e].rev]
    <3>1. Len(text[n]) \in Nat /\ Len(text'[n]) \in Nat
      BY <1>1 DEF NotesTypes
    <3>2. CASE saw'[e] = saw[e]
      BY <1>1, <2>1, <3>1, <3>2, SMTT(30) DEF EditorsRead
    <3>3. CASE saw'[e] # saw[e]
      <4>1. note'[n] # NoNote /\ saw'[e].rev = note'[n].rev /\ saw'[e].body = note'[n].body
        BY <2>1, <3>3
      <4>2. NoteFits(note'[n], text'[n], snapshots'[n], source'[n])
        BY DEF NotesFit
      <4> QED BY <3>1, <4>1, <4>2 DEF NoteFits
    <3> QED BY <3>2, <3>3
  <2> QED BY <2>1 DEF EditorsRead
<1>3. CapturedOnce'
  BY <1>1 DEF CapturedOnce
<1> QED BY <1>2, <1>3 DEF NotesInv

\* _insert_note, for a note nobody has written or an answer nobody has captured.
LEMMA InsertStep ==
    ASSUME NotesInv, NEW e \in Editors, NEW n \in NoteIds, NEW body \in Bodies,
           NEW a \in Answers \cup {NoAnswer}, Inserted(n, body, a), Sees(e, n),
           UNCHANGED <<snapshots, source>>, a # NoAnswer => CapturedAs(a) = {}
    PROVE  NotesInv'
<1> DEFINE r == [body |-> body, rev |-> 1, trashed |-> FALSE, answer |-> a]
<1>1. /\ NotesTypes /\ NotesFit /\ note[n] = NoNote /\ text[n] = <<>>
      /\ note' = [note EXCEPT ![n] = r] /\ text' = [text EXCEPT ![n] = <<body>>]
      /\ saw' = [saw EXCEPT ![e] = Copy(n)']
  BY DEF NotesInv, Inserted, Sees
<1>2. /\ r \in NoteRow /\ r # NoNote /\ r.rev = 1 /\ r.body = body /\ r.answer = a
      /\ <<body>> \in Seq(Bodies) /\ Len(<<body>>) = 1 /\ <<body>>[1] = body
  <2>1. r \in NoteRow
    BY DEF NoteRow
  <2>2. r # NoNote
    BY <2>1, NotebookAssumption DEF NoteRow
  <2>3. <<body>> \in Seq(Bodies) /\ Len(<<body>>) = 1 /\ <<body>>[1] = body
    OBVIOUS
  <2> QED BY <2>1, <2>2, <2>3
<1> HIDE DEF r
<1>3. /\ note'[n] = r /\ text'[n] = <<body>>
      /\ \A m \in NoteIds \ {n} : note'[m] = note[m] /\ text'[m] = text[m]
      /\ saw'[e] = Copy(n)' /\ \A f \in Editors \ {e} : saw'[f] = saw[f]
  BY <1>1 DEF NotesTypes
<1>4. Copy(n)' = [id |-> n, rev |-> 1, body |-> body]
  BY <1>2, <1>3 DEF Copy
<1>5. NotesTypes'
  <2>1. Copy(n)' \in ReadType
    BY <1>4 DEF ReadType
  <2> QED BY <1>1, <1>2, <2>1 DEF NotesTypes
<1>6. NotesFit'
  <2>1. snapshots[n] = {} /\ source[n] = NoSource
    BY <1>1 DEF NotesFit, NoteFits
  <2>2. NoteFits(note'[n], text'[n], snapshots'[n], source'[n])
    BY <1>2, <1>3, <2>1 DEF NoteFits
  <2>3. \A m \in NoteIds \ {n} : NoteFits(note'[m], text'[m], snapshots'[m], source'[m])
    BY <1>1, <1>3 DEF NotesFit
  <2> QED BY <2>2, <2>3 DEF NotesFit
<1>7. \A m \in NoteIds : /\ Len(text[m]) <= Len(text'[m])
                         /\ \A i \in 1..Len(text[m]) : text'[m][i] = text[m][i]
  <2>1. \A m \in NoteIds : Len(text[m]) \in Nat
    BY <1>1 DEF NotesTypes
  <2> QED BY <1>1, <1>2, <1>3, <2>1
<1>8. \A m \in NoteIds : a # NoAnswer /\ note[m] # NoNote => note[m].answer # a
  BY DEF CapturedAs
<1> QED BY <1>2, <1>3, <1>4, <1>5, <1>6, <1>7, <1>8, NotesKept

\* An editor reads a note that is there.
LEMMA ReadStep ==
    ASSUME NotesInv, NEW e \in Editors, NEW n \in NoteIds, note[n] # NoNote,
           saw' = [saw EXCEPT ![e] = Copy(n)], UNCHANGED <<note, snapshots, source, text>>
    PROVE  NotesInv'
<1>1. NotesTypes /\ NotesFit /\ note[n] \in NoteRow
  BY DEF NotesInv, NotesTypes
<1>2. /\ Copy(n) \in ReadType /\ Copy(n).id = n /\ Copy(n).rev = note[n].rev
      /\ Copy(n).body = note[n].body
  BY <1>1 DEF Copy, ReadType, NoteRow
<1>3. saw'[e] = Copy(n) /\ \A f \in Editors \ {e} : saw'[f] = saw[f]
  BY <1>1 DEF NotesTypes
<1>4. NotesTypes'
  BY <1>1, <1>2 DEF NotesTypes
<1>5. NotesFit'
  BY <1>1 DEF NotesFit
<1>6. \A m \in NoteIds : /\ Len(text[m]) <= Len(text'[m])
                         /\ \A i \in 1..Len(text[m]) : text'[m][i] = text[m][i]
  <2>1. \A m \in NoteIds : Len(text[m]) \in Nat
    BY <1>1 DEF NotesTypes
  <2> QED BY <2>1
<1> QED BY <1>2, <1>3, <1>4, <1>5, <1>6, NotesKept

\* An editor that saw the newest revision writes the next one.
LEMMA UpdateStep ==
    ASSUME NotesInv, NEW e \in Editors, NEW n \in NoteIds, NEW body \in Bodies,
           UpdateNote(e, n, body)
    PROVE  NotesInv'
<1> DEFINE r == [note[n] EXCEPT !.body = body, !.rev = @ + 1]
           bodies == Append(text[n], body)
<1>1. /\ NotesTypes /\ NotesFit /\ note[n] # NoNote /\ note[n] \in NoteRow
      /\ text[n] \in Seq(Bodies)
      /\ note' = [note EXCEPT ![n].body = body, ![n].rev = @ + 1]
      /\ text' = [text EXCEPT ![n] = Append(@, body)]
      /\ saw' = [saw EXCEPT ![e] = Copy(n)'] /\ UNCHANGED <<snapshots, source>>
  BY DEF NotesInv, NotesTypes, UpdateNote, UpToDate, NoteLive, Sees
<1>2. /\ note'[n] = r /\ text'[n] = bodies
      /\ \A m \in NoteIds \ {n} : note'[m] = note[m] /\ text'[m] = text[m]
      /\ saw'[e] = Copy(n)' /\ \A f \in Editors \ {e} : saw'[f] = saw[f]
  BY <1>1 DEF NotesTypes
<1>3. /\ r \in NoteRow /\ r.rev = note[n].rev + 1 /\ r.body = body
      /\ r.answer = note[n].answer
  <2>1. /\ [note[n] EXCEPT !.body = body] \in NoteRow
        /\ [note[n] EXCEPT !.body = body].body = body
        /\ [note[n] EXCEPT !.body = body].answer = note[n].answer
        /\ [note[n] EXCEPT !.body = body].rev = note[n].rev
    BY <1>1 DEF NoteRow
  <2>2. \A q \in NoteRow : \A k \in Nat :
          /\ [q EXCEPT !.rev = k] \in NoteRow /\ [q EXCEPT !.rev = k].rev = k
          /\ [q EXCEPT !.rev = k].body = q.body /\ [q EXCEPT !.rev = k].answer = q.answer
    BY DEF NoteRow
  <2>3. note[n].rev + 1 \in Nat
    BY <1>1 DEF NoteRow
  <2> QED BY <2>1, <2>2, <2>3
<1>4. /\ bodies \in Seq(Bodies) /\ Len(bodies) = Len(text[n]) + 1 /\ Len(text[n]) \in Nat
      /\ bodies[Len(text[n]) + 1] = body
      /\ \A i \in 1..Len(text[n]) : bodies[i] = text[n][i]
  BY <1>1
<1>5. r # NoNote
  BY <1>3, NotebookAssumption DEF NoteRow
<1> HIDE DEF r, bodies
<1>6. /\ note' \in [NoteIds -> NoteRow \cup {NoNote}] /\ text' \in [NoteIds -> Seq(Bodies)]
  BY <1>1, <1>2, <1>3, <1>4 DEF NotesTypes
<1>7. Copy(n)' = [id |-> n, rev |-> r.rev, body |-> body]
  BY <1>2, <1>3 DEF Copy
<1>8. NotesTypes'
  <2>1. Copy(n)' \in ReadType
    BY <1>3, <1>7 DEF ReadType, NoteRow
  <2> QED BY <1>1, <1>6, <2>1 DEF NotesTypes
<1>9. NotesFit'
  <2>1. NoteFits(note[n], text[n], snapshots[n], source[n])
    BY <1>1 DEF NotesFit
  <2>2. NoteFits(r, bodies, snapshots[n], source[n])
    <3>1. /\ Len(text[n]) = note[n].rev /\ note[n].rev \in Nat
          /\ Len(bodies) = r.rev /\ r.rev > 0 /\ r.body = bodies[r.rev]
      BY <1>1, <1>3, <1>4, <2>1 DEF NoteFits, NoteRow
    <3>2. \A s \in snapshots[n] : s[1] \in 1..Len(bodies) /\ s[2] = bodies[s[1]]
      <4>1. \A s \in snapshots[n] : s[1] \in 1..Len(text[n]) /\ s[2] = text[n][s[1]]
        BY <2>1 DEF NoteFits
      <4> QED BY <1>4, <4>1
    <3> QED BY <1>1, <1>5, <2>1, <3>1, <3>2 DEF NoteFits
  <2>3. \A m \in NoteIds \ {n} : NoteFits(note'[m], text'[m], snapshots'[m], source'[m])
    BY <1>1, <1>2 DEF NotesFit
  <2> QED BY <1>1, <1>2, <2>2, <2>3 DEF NotesFit
<1>10. \A m \in NoteIds : /\ Len(text[m]) <= Len(text'[m])
                          /\ \A i \in 1..Len(text[m]) : text'[m][i] = text[m][i]
  <2>1. \A m \in NoteIds : Len(text[m]) \in Nat
    BY <1>1 DEF NotesTypes
  <2> QED BY <1>2, <1>4, <2>1
<1>11. \A m \in NoteIds : note'[m] # NoNote =>
          note[m] # NoNote /\ note'[m].answer = note[m].answer
  BY <1>1, <1>2, <1>3
<1> QED BY <1>2, <1>3, <1>5, <1>7, <1>8, <1>9, <1>10, <1>11, NotesKept

\* A revision is published once, as its snapshot.
LEMMA PromoteStep ==
    ASSUME NotesInv, NEW e \in Editors, NEW n \in NoteIds, PromoteNote(e, n)
    PROVE  NotesInv'
<1> DEFINE new == IF Published(n, saw[e].rev) # {} THEN {} ELSE {<<note[n].rev, note[n].body>>}
           snaps == snapshots[n] \cup new
<1>1. /\ NotesTypes /\ NotesFit /\ note[n] # NoNote /\ note[n] \in NoteRow
      /\ saw[e].rev = note[n].rev /\ snapshots[n] \subseteq Nat \X Bodies
      /\ snapshots' = [snapshots EXCEPT ![n] = snaps]
      /\ source' = [source EXCEPT ![n] = CHOOSE s \in snaps : s[1] = note[n].rev]
      /\ UNCHANGED <<note, saw, text>>
  BY DEF NotesInv, NotesTypes, PromoteNote, UpToDate, NoteLive
<1>2. NoteFits(note[n], text[n], snapshots[n], source[n])
  BY <1>1 DEF NotesFit
<1>3. <<note[n].rev, note[n].body>> \in Nat \X Bodies /\ snaps \subseteq Nat \X Bodies
  BY <1>1 DEF NoteRow
<1>4. \A s \in snaps : s \in Nat \X Bodies /\ s[1] \in 1..note[n].rev /\ s[2] = text[n][s[1]]
  BY <1>1, <1>2, <1>3 DEF NoteFits, NoteRow
<1>5. PICK s \in snaps : s[1] = note[n].rev
  <2>1. CASE Published(n, saw[e].rev) # {}
    BY <1>1, <2>1 DEF Published
  <2>2. CASE Published(n, saw[e].rev) = {}
    <3>1. <<note[n].rev, note[n].body>> \in snaps
      BY <2>2
    <3> HIDE DEF snaps
    <3> QED BY <3>1
  <2> QED BY <2>1, <2>2
<1> HIDE DEF snaps, new
<1>6. /\ source'[n] \in snaps /\ source'[n][1] = note[n].rev /\ snapshots'[n] = snaps
      /\ \A m \in NoteIds \ {n} : source'[m] = source[m] /\ snapshots'[m] = snapshots[m]
      /\ DOMAIN source' = NoteIds
  BY <1>1, <1>5 DEF NotesTypes
<1>7. NotesTypes'
  BY <1>1, <1>3, <1>6 DEF NotesTypes
<1>8. NotesFit'
  <2>1. NoteFits(note[n], text[n], snaps, source'[n])
    BY <1>1, <1>2, <1>4, <1>6 DEF NoteFits, NoteRow
  <2>2. \A m \in NoteIds \ {n} : NoteFits(note[m], text[m], snapshots'[m], source'[m])
    BY <1>1, <1>6 DEF NotesFit
  <2> QED BY <1>1, <1>6, <2>1, <2>2 DEF NotesFit
<1>9. \A m \in NoteIds : /\ Len(text[m]) <= Len(text'[m])
                         /\ \A i \in 1..Len(text[m]) : text'[m][i] = text[m][i]
  <2>1. \A m \in NoteIds : Len(text[m]) \in Nat
    BY <1>1 DEF NotesTypes
  <2> QED BY <1>1, <2>1
<1> QED BY <1>1, <1>7, <1>8, <1>9, NotesKept

\* Rows of notes go to the Trash, come back, or go for good.
LEMMA NotesPurged ==
    ASSUME NotesInv, NEW ns \in SUBSET NoteIds, PurgeRows(ns), UNCHANGED <<saw, text>>
    PROVE  NotesInv'
<1>1. NotesTypes /\ NotesFit
  BY DEF NotesInv
<1>2. /\ \A n \in ns : note'[n] = NoNote /\ snapshots'[n] = {} /\ source'[n] = NoSource
      /\ \A n \in NoteIds \ ns : /\ note'[n] = note[n] /\ snapshots'[n] = snapshots[n]
                                 /\ source'[n] = source[n]
  BY DEF PurgeRows
<1>3. NotesTypes'
  BY <1>1, <1>2 DEF NotesTypes, PurgeRows
<1>4. NotesFit'
  <2>1. \A n \in ns : NoteFits(NoNote, text[n], {}, NoSource)
    BY DEF NoteFits
  <2>2. \A n \in NoteIds \ ns : NoteFits(note[n], text[n], snapshots[n], source[n])
    BY <1>1 DEF NotesFit
  <2> QED BY <1>2, <2>1, <2>2 DEF NotesFit
<1>5. \A n \in NoteIds : /\ Len(text[n]) <= Len(text'[n])
                         /\ \A i \in 1..Len(text[n]) : text'[n][i] = text[n][i]
  <2>1. \A n \in NoteIds : Len(text[n]) \in Nat
    BY <1>1 DEF NotesTypes
  <2> QED BY <2>1
<1> QED BY <1>2, <1>3, <1>4, <1>5, NotesKept

LEMMA NoteMoved ==
    ASSUME NotesInv, NEW n \in NoteIds, note[n] # NoNote, NEW b \in BOOLEAN,
           note' = [note EXCEPT ![n].trashed = b], UNCHANGED <<snapshots, source, saw, text>>
    PROVE  NotesInv'
<1>1. NotesTypes /\ NotesFit /\ note[n] \in NoteRow
  BY DEF NotesInv, NotesTypes
<1>2. /\ note'[n] \in NoteRow /\ note'[n] # NoNote /\ note'[n].rev = note[n].rev
      /\ note'[n].body = note[n].body /\ note'[n].answer = note[n].answer
      /\ \A m \in NoteIds \ {n} : note'[m] = note[m]
  <2>1. [note[n] EXCEPT !.trashed = b] \in NoteRow
    BY <1>1 DEF NoteRow
  <2> QED BY <1>1, <2>1, NotebookAssumption DEF NotesTypes, NoteRow
<1>3. NotesTypes'
  BY <1>1, <1>2 DEF NotesTypes
<1>4. NotesFit'
  <2>1. NoteFits(note'[n], text[n], snapshots[n], source[n])
    BY <1>1, <1>2 DEF NotesFit, NoteFits
  <2>2. \A m \in NoteIds \ {n} : NoteFits(note'[m], text[m], snapshots[m], source[m])
    BY <1>1, <1>2 DEF NotesFit
  <2> QED BY <2>1, <2>2 DEF NotesFit
<1>5. \A m \in NoteIds : /\ Len(text[m]) <= Len(text'[m])
                         /\ \A i \in 1..Len(text[m]) : text'[m][i] = text[m][i]
  <2>1. \A m \in NoteIds : Len(text[m]) \in Nat
    BY <1>1 DEF NotesTypes
  <2> QED BY <2>1
<1> QED BY <1>2, <1>3, <1>4, <1>5, NotesKept

LEMMA NotesStep ==
    ASSUME NotesInv, [NotesNext]_noteVars
    PROVE  NotesInv'
<1>1. ASSUME NEW e \in Editors, NEW n \in NoteIds, OpenNote(e, n) PROVE NotesInv'
  BY <1>1, ReadStep DEF OpenNote, NoteLive
<1>2. ASSUME NEW e \in Editors, NEW n \in NoteIds, HearNoteConflict(e, n) PROVE NotesInv'
  <2>1. Copy(n)' = Copy(n)
    BY <1>2 DEF HearNoteConflict, Copy
  <2> QED BY <1>2, <2>1, ReadStep DEF HearNoteConflict, NoteLive, Sees
<1>3. ASSUME NEW e \in Editors, NEW n \in NoteIds, NEW b \in Bodies, CreateNote(e, n, b)
      PROVE NotesInv'
  BY <1>3, InsertStep DEF CreateNote
<1>4. ASSUME NEW e \in Editors, NEW n \in NoteIds, NEW b \in Bodies, NEW a \in Answers,
             CaptureAnswer(e, n, a, b)
      PROVE NotesInv'
  <2>1. CASE CapturedAs(a) # {}
    <3>1. PICK m \in NoteIds : NoteLive(m) /\ Sees(e, m)
      BY <1>4, <2>1 DEF CaptureAnswer, CapturedAs
    <3>2. UNCHANGED <<note, snapshots, source, text>>
      BY <1>4, <2>1 DEF CaptureAnswer
    <3>3. Copy(m)' = Copy(m)
      BY <3>2 DEF Copy
    <3> QED BY <3>1, <3>2, <3>3, ReadStep DEF NoteLive, Sees
  <2>2. CASE CapturedAs(a) = {}
    <3>1. Inserted(n, b, a) /\ Sees(e, n) /\ UNCHANGED <<snapshots, source>>
      BY <1>4, <2>2 DEF CaptureAnswer
    <3> QED BY <2>2, <3>1, InsertStep
  <2> QED BY <2>1, <2>2
<1>5. ASSUME NEW e \in Editors, NEW n \in NoteIds, TrashNote(e, n) PROVE NotesInv'
  BY <1>5, NoteMoved DEF TrashNote, UpToDate, NoteLive
<1>6. ASSUME NEW n \in NoteIds, RestoreNote(n) PROVE NotesInv'
  BY <1>6, NoteMoved DEF RestoreNote
<1>7. ASSUME NEW n \in NoteIds, PurgeNote(n) PROVE NotesInv'
  BY <1>7, NotesPurged DEF PurgeNote
<1>8. CASE PurgeNotebook
  BY <1>8, NotesPurged DEF PurgeNotebook
<1>9. CASE ReconcileNotes
  <2>1. NotesTypes /\ NotesFit /\ UNCHANGED <<note, snapshots, saw, text>>
    BY <1>9 DEF NotesInv, ReconcileNotes
  <2>2. DOMAIN source' = NoteIds /\ \A n \in NoteIds : source'[n] = source[n]
    <3>1. \A n \in NoteIds : snapshots[n] = {} => source[n] = NoSource
      BY <2>1 DEF NotesFit, NoteFits
    <3> QED BY <1>9, <3>1, NewestSnapshot DEF ReconcileNotes
  <2>3. NotesTypes'
    BY <2>1, <2>2 DEF NotesTypes
  <2>4. NotesFit'
    BY <2>1, <2>2 DEF NotesFit
  <2> QED BY <2>1, <2>3, <2>4 DEF NotesInv, EditorsRead, CapturedOnce
<1>10. CASE UNCHANGED <<note, snapshots, source, saw, text>>
  BY <1>10 DEF NotesInv, NotesTypes, NotesFit, EditorsRead, CapturedOnce
<1>11. CASE NotesNext
  BY <1>1, <1>2, <1>3, <1>4, <1>5, <1>6, <1>7, <1>8, <1>9, <1>10, <1>11, UpdateStep, PromoteStep
     DEF NotesNext, AnswerQuestion, ForgetAnswer, SwitchNotebook
<1> QED BY <1>10, <1>11 DEF noteVars

LEMMA NotesAreSound == NotesInv => NotesSound
<1> SUFFICES ASSUME NotesInv PROVE NotesSound
  OBVIOUS
<1>1. ASSUME NEW a \in Answers PROVE Cardinality(CapturedAs(a)) <= 1
  <2>1. \A n, m \in CapturedAs(a) : n = m
    BY NotebookAssumption DEF NotesInv, CapturedOnce, CapturedAs
  <2>2. CASE CapturedAs(a) = {}
    BY <2>2, FS_EmptySet
  <2>3. CASE CapturedAs(a) # {}
    <3>1. PICK n : CapturedAs(a) = {n}
      BY <2>1, <2>3
    <3> QED BY <3>1, FS_Singleton
  <2> QED BY <2>2, <2>3
<1>2. ASSUME NEW n \in NoteIds
      PROVE  /\ \A s \in snapshots[n] : s[2] = text[n][s[1]]
             /\ IF note[n] = NoNote THEN snapshots[n] = {} /\ source[n] = NoSource
                ELSE /\ source[n] = IF snapshots[n] = {} THEN NoSource ELSE Newest(n)
                     /\ \A s \in snapshots[n] : s[1] <= note[n].rev
  <2>1. NoteFits(note[n], text[n], snapshots[n], source[n])
    BY DEF NotesInv, NotesFit
  <2>2. snapshots[n] # {} => Newest(n) = source[n]
    BY NewestSnapshot
  <2> QED BY <2>1, <2>2 DEF NoteFits
<1> QED BY <1>1, <1>2 DEF NotesSound

\* The body of a note is replaced only by an editor that has read it.
LEMMA EditsSeen ==
    ASSUME NotesInv, [NotesNext]_noteVars
    PROVE  NoEditLost
<1> SUFFICES ASSUME NEW n \in NoteIds, note[n] # NoNote, note'[n] # NoNote,
                    note'[n].body # note[n].body
             PROVE  \E e \in Editors : saw[e] = Copy(n) /\ saw'[e] = Copy(n)'
  BY DEF NoEditLost
<1>1. /\ NotesTypes /\ NotesFit /\ EditorsRead /\ note[n] \in NoteRow
  BY DEF NotesInv, NotesTypes
<1>2. note' # note
  OBVIOUS
<1>3. ASSUME NEW m \in NoteIds, NEW body, NEW a, Inserted(m, body, a) PROVE FALSE
  BY <1>1, <1>3 DEF Inserted, NotesTypes
<1>4. ASSUME NEW m \in NoteIds, NEW b, note' = [note EXCEPT ![m].trashed = b] PROVE FALSE
  <2>1. [note[n] EXCEPT !.trashed = b].body = note[n].body
    BY <1>1 DEF NoteRow
  <2> QED BY <1>1, <1>4, <2>1 DEF NotesTypes
<1>5. ASSUME NEW ns \in SUBSET NoteIds, PurgeRows(ns) PROVE FALSE
  BY <1>5 DEF PurgeRows
<1>6. PICK e \in Editors, m \in NoteIds, b \in Bodies : UpdateNote(e, m, b)
  <2>1. NotesNext
    BY <1>2 DEF noteVars
  <2> QED BY <1>2, <1>3, <1>4, <1>5, <2>1, ZenonT(60)
      DEF NotesNext, OpenNote, HearNoteConflict, CreateNote, CaptureAnswer, PromoteNote,
          TrashNote, RestoreNote, PurgeNote, AnswerQuestion, ForgetAnswer, SwitchNotebook,
          PurgeNotebook, ReconcileNotes
<1>7. m = n
  BY <1>1, <1>6 DEF UpdateNote, NotesTypes
<1>8. saw[e].id = n /\ saw[e].rev = note[n].rev /\ saw'[e] = Copy(n)' /\ saw[e] \in ReadType
  BY <1>1, <1>6, <1>7 DEF UpdateNote, UpToDate, Sees, NotesTypes
<1>9. saw[e].body = note[n].body
  <2>1. NoteFits(note[n], text[n], snapshots[n], source[n])
    BY <1>1 DEF NotesFit
  <2> QED BY <1>1, <1>8, <2>1 DEF EditorsRead, NoteFits
<1>10. saw[e] = Copy(n)
  BY <1>8, <1>9 DEF Copy, ReadType
<1> QED BY <1>8, <1>10

\* Whatever is edited, published, captured, trashed, restored, purged or
\* reconciled, an answer has one note, the Source of a note is its newest
\* snapshot, as it was written, and an edit replaces only a body its editor has
\* read (notebook_note_store.py).
THEOREM NotesStayKept == LibrarySpec => NotesHold
<1> DEFINE Inv == scenario = "notes" => NotesInv
<1>1. LibraryInit => Inv
  BY NotesStart DEF LibraryInit
<1>2. Inv /\ [LibraryNext]_libraryVars => Inv'
  BY LibrarySteps, NotesStep
<1>3. Inv => (scenario = "notes" => NotesSound)
  BY NotesAreSound
<1>4. Inv /\ [LibraryNext]_libraryVars => [scenario = "notes" => NoEditLost]_noteVars
  BY LibrarySteps, EditsSeen
<1> QED BY <1>1, <1>2, <1>3, <1>4, PTL DEF LibrarySpec, libraryVars, NotesHold

----------------------------------------------------------------------------
(***************************************************************************)
(* Learning documents.  What the versions of one document and its sources  *)
(* promise (VersionsFit) is inductive by itself: that there is a greatest  *)
(* number is what next_document_version_number relies on.                  *)
(***************************************************************************)

BodyType == DocBodies \cup Generations \cup {NoDoc}
VersionType == [by : Generations \cup {"manual"}, number : Nat, body : BodyType]
DocType == [state : {"none", "live", "trashed", "gone"}, body : BodyType]
BusyWriter == [pc : {"anchor", "link", "unlink", "number", "write", "version", "trash"},
               doc : Documents, card : Cards \cup {NoDoc}, role : Roles \cup {"none"},
               body : BodyType, number : Nat]
WriterType == BusyWriter \cup {IdleWriter}
NoTask == [pc |-> "none", doc |-> NoDoc]
GenerationType == {NoTask} \cup
    [pc : {"queued", "prompt", "published", "failed", "done"}, doc : Documents]

DocTypes ==
    /\ doc \in [Documents -> DocType]
    /\ versions \in [Documents -> SUBSET VersionType]
    /\ DOMAIN evidence = Documents /\ DOMAIN links = Documents
    /\ writer \in [Writers -> WriterType]
    /\ generation \in [Generations -> GenerationType]

\* The versions vs of a document, and the generation that chose its sources.
VersionsFit(vs, chose) ==
    /\ vs # {} => \E v \in vs : \A w \in vs : w.number <= v.number
    /\ \A v, w \in vs : v.number = w.number => v = w
    /\ \A v, w \in vs : v.by = w.by /\ v.by \in Generations => v = w
    /\ (\A v \in vs : v.by \notin Generations) => chose = NoDoc
    /\ (\E v \in vs : v.by \in Generations) =>
          \E v \in vs : /\ v.by \in Generations /\ chose = v.by
                        /\ \A w \in vs : w.by \in Generations => w.number <= v.number
DocsFit == \A d \in Documents : VersionsFit(versions[d], evidence[d])

DocsInv == DocTypes /\ DocsFit

LEMMA DocsStart == DocInit => DocsInv
<1> SUFFICES ASSUME DocInit PROVE DocsInv
  OBVIOUS
<1>1. IdleWriter \in WriterType /\ [pc |-> "none", doc |-> NoDoc] \in GenerationType
  BY DEF WriterType, GenerationType, NoTask
<1>2. [state |-> "none", body |-> NoDoc] \in DocType
  BY DEF DocType, BodyType
<1>3. DocTypes
  BY <1>1, <1>2 DEF DocInit, DocTypes
<1>4. DocsFit
  BY DEF DocInit, DocsFit, VersionsFit
<1> QED BY <1>3, <1>4 DEF DocsInv

\* A version with a number of its own, by hand or of a new task that takes the
\* next number and chooses the sources.
LEMMA VersionAdded ==
    ASSUME NEW vs \in SUBSET VersionType, NEW chose, VersionsFit(vs, chose),
           NEW new \in VersionType, \A v \in vs : v.number # new.number, NEW chooses,
           \/ new.by \notin Generations /\ chooses = chose
           \/ /\ new.by \in Generations /\ chooses = new.by
              /\ \A v \in vs : v.by # new.by /\ v.number <= new.number
    PROVE  VersionsFit(vs \cup {new}, chooses)
<1> DEFINE all == vs \cup {new}
<1>1. /\ new.number \in Nat /\ \A v \in vs : v.number \in Nat
      /\ new \in all /\ \A v \in all : v \in vs \/ v = new
  BY DEF VersionType
<1>2. \E v \in all : \A w \in all : w.number <= v.number
  <2>1. CASE vs = {}
    BY <1>1, <2>1
  <2>2. CASE vs # {}
    <3>1. PICK v \in vs : \A w \in vs : w.number <= v.number
      BY <2>2 DEF VersionsFit
    <3>2. CASE v.number <= new.number
      BY <1>1, <3>1, <3>2
    <3>3. CASE ~(v.number <= new.number)
      BY <1>1, <3>1, <3>3
    <3> QED BY <3>2, <3>3
  <2> QED BY <2>1, <2>2
<1>3. /\ \A v, w \in all : v.number = w.number => v = w
      /\ \A v, w \in all : v.by = w.by /\ v.by \in Generations => v = w
  BY <1>1 DEF VersionsFit
<1>4. CASE new.by \notin Generations /\ chooses = chose
  <2>1. (\A v \in all : v.by \notin Generations) => chooses = NoDoc
    BY <1>4 DEF VersionsFit
  <2>2. ASSUME \E v \in all : v.by \in Generations
        PROVE  \E v \in all : /\ v.by \in Generations /\ chooses = v.by
                              /\ \A w \in all : w.by \in Generations => w.number <= v.number
    <3>1. PICK v \in vs : /\ v.by \in Generations /\ chose = v.by
                          /\ \A w \in vs : w.by \in Generations => w.number <= v.number
      BY <1>4, <2>2 DEF VersionsFit
    <3> QED BY <1>4, <3>1
  <2> QED BY <1>2, <1>3, <2>1, <2>2 DEF VersionsFit
<1>5. CASE /\ new.by \in Generations /\ chooses = new.by
           /\ \A v \in vs : v.by # new.by /\ v.number <= new.number
  <2>1. \A w \in all : w.number <= new.number
    BY <1>1, <1>5
  <2> QED BY <1>1, <1>2, <1>3, <1>5, <2>1 DEF VersionsFit
<1> QED BY <1>4, <1>5

\* The number a version is given is greater than those that are there.
LEMMA NextIsNew ==
    ASSUME DocsInv, NEW d \in Documents
    PROVE  NextNumber(d) \in Nat /\ \A v \in versions[d] : v.number < NextNumber(d)
<1> DEFINE numbers == {0} \cup {v.number : v \in versions[d]}
<1>1. versions[d] \subseteq VersionType /\ VersionsFit(versions[d], evidence[d])
  BY DEF DocsInv, DocTypes, DocsFit
<1>2. /\ numbers \subseteq Nat /\ \A v \in versions[d] : v.number \in numbers
  BY <1>1 DEF VersionType
<1>3. \E n \in numbers : \A m \in numbers : m <= n
  <2>1. CASE versions[d] = {}
    BY <2>1
  <2>2. CASE versions[d] # {}
    <3>1. PICK v \in versions[d] : \A w \in versions[d] : w.number <= v.number
      BY <1>1, <2>2 DEF VersionsFit
    <3>2. v.number \in Nat
      BY <1>2
    <3> QED BY <3>1, <3>2
  <2> QED BY <2>1, <2>2
<1>4. PICK top : top = CHOOSE n \in numbers : \A m \in numbers : m <= n
  OBVIOUS
<1>5. top \in numbers /\ \A m \in numbers : m <= top
  BY <1>3, <1>4
<1>6. NextNumber(d) = 1 + top
  BY <1>4 DEF NextNumber
<1> HIDE DEF numbers
<1>7. /\ top \in Nat
      /\ \A v \in versions[d] : v.number \in Nat /\ v.number <= top
  BY <1>2, <1>5
<1>8. 1 + top \in Nat /\ \A v \in versions[d] : v.number < 1 + top
  BY <1>7
<1> QED BY <1>6, <1>8

\* What keeps the invariant when versions and sources stay, or one document's
\* change, or documents go.
LEMMA DocsKept ==
    ASSUME DocsInv, DocTypes',
           \A d \in Documents : \/ versions'[d] = versions[d] /\ evidence'[d] = evidence[d]
                                \/ versions'[d] = {} /\ evidence'[d] = NoDoc
                                \/ VersionsFit(versions'[d], evidence'[d])
    PROVE  DocsInv'
<1>1. \A d \in Documents : VersionsFit(versions[d], evidence[d])
  BY DEF DocsInv, DocsFit
<1>2. VersionsFit({}, NoDoc)
  BY DEF VersionsFit
<1>3. \A d \in Documents : VersionsFit(versions'[d], evidence'[d])
  BY <1>1, <1>2
<1> QED BY <1>3 DEF DocsInv, DocsFit

\* Requests and tasks move between their steps.
LEMMA EditorMoves ==
    ASSUME DocsInv, NEW w \in Writers, NEW new \in WriterType,
           writer' = [writer EXCEPT ![w] = new], doc' \in [Documents -> DocType],
           DOMAIN links' = DOMAIN links, UNCHANGED <<versions, evidence, generation>>
    PROVE  DocsInv'
BY DocsKept DEF DocsInv, DocTypes

LEMMA TaskMoves ==
    ASSUME DocsInv, NEW g \in Generations, NEW new \in GenerationType,
           generation' = [generation EXCEPT ![g] = new],
           UNCHANGED <<doc, versions, links, evidence, writer>>
    PROVE  DocsInv'
BY DocsKept DEF DocsInv, DocTypes

\* A request that is served has a document; where it goes, with what it carries.
LEMMA Served ==
    ASSUME DocsInv, NEW w \in Writers, writer[w].pc # "idle"
    PROVE  /\ writer[w] \in BusyWriter /\ writer[w].doc \in Documents
           /\ [writer[w] EXCEPT !.pc = "number"] \in WriterType
           /\ \A n \in Nat : [writer[w] EXCEPT !.pc = "version", !.number = n] \in WriterType
<1>1. writer[w] \in BusyWriter
  BY DEF DocsInv, DocTypes, WriterType, IdleWriter
<1>2. /\ \A q \in BusyWriter : [q EXCEPT !.pc = "number"] \in BusyWriter
      /\ \A q \in BusyWriter : [q EXCEPT !.pc = "version"] \in BusyWriter
      /\ \A q \in BusyWriter : \A n \in Nat : [q EXCEPT !.number = n] \in BusyWriter
  BY DEF BusyWriter
<1>3. writer[w].doc \in Documents
  BY <1>1 DEF BusyWriter
<1>4. \A n \in Nat : [writer[w] EXCEPT !.pc = "version", !.number = n] \in BusyWriter
  <2>1. [writer[w] EXCEPT !.pc = "version"] \in BusyWriter
    BY <1>1, <1>2
  <2> QED BY <1>2, <2>1
<1> QED BY <1>1, <1>2, <1>3, <1>4 DEF WriterType

LEMMA Starts ==
    ASSUME NEW d \in Documents, NEW b \in BodyType
    PROVE  /\ [IdleWriter EXCEPT !.pc = "write", !.doc = d, !.body = b] \in WriterType
           /\ [IdleWriter EXCEPT !.pc = "trash", !.doc = d] \in WriterType
           /\ \A k \in Cards :
                 /\ [IdleWriter EXCEPT !.pc = "anchor", !.doc = d, !.card = k,
                                       !.role = "primary_anchor", !.body = b] \in WriterType
                 /\ [IdleWriter EXCEPT !.pc = "unlink", !.doc = d, !.card = k] \in WriterType
                 /\ \A role \in Roles :
                       [IdleWriter EXCEPT !.pc = "link", !.doc = d, !.card = k,
                                          !.role = role] \in WriterType
<1>1. ASSUME NEW pc \in {"anchor", "link", "unlink", "write", "trash"}
      PROVE  [IdleWriter EXCEPT !.pc = pc, !.doc = d] \in BusyWriter
  <2>1. [IdleWriter EXCEPT !.pc = pc]
           = [pc |-> pc, doc |-> NoDoc, card |-> NoDoc, role |-> "none", body |-> NoDoc,
              number |-> 0]
    BY DEF IdleWriter
  <2>2. [[pc |-> pc, doc |-> NoDoc, card |-> NoDoc, role |-> "none", body |-> NoDoc,
          number |-> 0] EXCEPT !.doc = d] \in BusyWriter
    BY DEF BusyWriter, BodyType
  <2>3. [[IdleWriter EXCEPT !.pc = pc] EXCEPT !.doc = d] \in BusyWriter
    BY <2>1, <2>2
  <2> QED BY <2>3
<1>2. \A q \in BusyWriter :
         /\ [q EXCEPT !.body = b] \in BusyWriter
         /\ \A k \in Cards : [q EXCEPT !.card = k] \in BusyWriter
         /\ \A role \in Roles : [q EXCEPT !.role = role] \in BusyWriter
  BY DEF BusyWriter
<1>3. [IdleWriter EXCEPT !.pc = "write", !.doc = d, !.body = b] \in BusyWriter
  <2>1. [[IdleWriter EXCEPT !.pc = "write", !.doc = d] EXCEPT !.body = b] \in BusyWriter
    BY <1>1, <1>2
  <2> QED BY <2>1
<1>4. ASSUME NEW k \in Cards, NEW pc \in {"anchor", "link", "unlink"}, NEW role \in Roles
      PROVE  /\ [IdleWriter EXCEPT !.pc = pc, !.doc = d, !.card = k] \in BusyWriter
             /\ [IdleWriter EXCEPT !.pc = pc, !.doc = d, !.card = k, !.role = role]
                    \in BusyWriter
             /\ [IdleWriter EXCEPT !.pc = pc, !.doc = d, !.card = k, !.role = role,
                                   !.body = b] \in BusyWriter
  <2>1. [[IdleWriter EXCEPT !.pc = pc, !.doc = d] EXCEPT !.card = k] \in BusyWriter
    BY <1>1, <1>2
  <2>2. [[IdleWriter EXCEPT !.pc = pc, !.doc = d, !.card = k] EXCEPT !.role = role]
           \in BusyWriter
    BY <1>2, <2>1
  <2>3. [[IdleWriter EXCEPT !.pc = pc, !.doc = d, !.card = k, !.role = role]
            EXCEPT !.body = b] \in BusyWriter
    BY <1>2, <2>2
  <2> QED BY <2>1, <2>2, <2>3
<1>5. "primary_anchor" \in Roles
  BY DEF Roles
<1> QED BY <1>1, <1>3, <1>4, <1>5 DEF WriterType

\* A link is written or deleted in the links of one document.
LEMMA LinksWritten ==
    ASSUME DocsInv, NEW d, NEW k, NEW role
    PROVE  DOMAIN Linked(d, k, role) = Documents
BY DEF DocsInv, DocTypes, Linked

LEMMA EditorStep ==
    ASSUME DocsInv, NEW w \in Writers,
           \/ LinkAnchor(w) \/ WriteDocument(w) \/ ReadNumber(w) \/ TrashDocument(w)
           \/ AddCard(w) \/ RemoveCard(w)
           \/ \E d \in Documents :
                 \/ CheckNoTasks(w, d)
                 \/ \E b \in DocBodies \cup Generations : ReadDocument(w, d, b)
                 \/ \E k \in Cards :
                       \/ CheckLink(w, d, k)
                       \/ \E role \in Roles : CheckCard(w, d, k, role)
                       \/ \E b \in DocBodies : CreateDocument(w, d, k, b)
    PROVE  DocsInv'
<1>1. /\ DocTypes /\ IdleWriter \in WriterType /\ IdleWriter.pc = "idle"
      /\ doc \in [Documents -> DocType]
  BY DEF DocsInv, DocTypes, IdleWriter, WriterType
<1>2. CASE WriteDocument(w)
  <2>1. doc' \in [Documents -> DocType]
    <3>1. \A q \in DocType : \A b \in BodyType : [q EXCEPT !.body = b] \in DocType
      BY DEF DocType
    <3>2. writer[w].body \in BodyType
      BY <1>2, Served DEF WriteDocument, BusyWriter
    <3> QED BY <1>1, <1>2, <3>1, <3>2 DEF WriteDocument
  <2>2. PICK new \in WriterType : writer' = [writer EXCEPT ![w] = new]
    <3>1. [writer[w] EXCEPT !.pc = "number"] \in WriterType
      BY <1>2, Served DEF WriteDocument
    <3>2. PICK next \in {"number", "idle"} :
            writer' = [writer EXCEPT ![w] = IF next = "idle" THEN IdleWriter
                                            ELSE [@ EXCEPT !.pc = next]]
      BY <1>2 DEF WriteDocument
    <3>3. CASE next = "idle"
      BY <1>1, <3>2, <3>3
    <3>4. CASE next = "number"
      BY <3>1, <3>2, <3>4
    <3> QED BY <3>2, <3>3, <3>4
  <2> QED BY <1>2, <2>1, <2>2, EditorMoves DEF WriteDocument
<1>3. CASE ReadNumber(w)
  <2>1. PICK n : n = NextNumber(writer[w].doc)
    OBVIOUS
  <2>2. /\ writer' = [writer EXCEPT ![w] = [writer[w] EXCEPT !.pc = "version", !.number = n]]
        /\ UNCHANGED <<doc, versions, evidence, generation>> /\ writer[w].pc # "idle"
    BY <1>3, <2>1 DEF ReadNumber
  <2>3. n \in Nat
    BY <2>1, <2>2, Served, NextIsNew
  <2>4. [writer[w] EXCEPT !.pc = "version", !.number = n] \in WriterType
    BY <2>2, <2>3, Served
  <2>5. links' = links
    BY <1>3 DEF ReadNumber
  <2> QED BY <1>1, <2>2, <2>4, <2>5, EditorMoves
<1>4. CASE TrashDocument(w)
  <2>1. doc' \in [Documents -> DocType]
    <3>1. \A q \in DocType : [q EXCEPT !.state = "trashed"] \in DocType
      BY DEF DocType
    <3> QED BY <1>1, <1>4, <3>1 DEF TrashDocument
  <2> QED BY <1>1, <1>4, <2>1, EditorMoves DEF TrashDocument
<1>5. CASE LinkAnchor(w) \/ AddCard(w) \/ RemoveCard(w)
  <2>1. /\ UNCHANGED <<doc, versions, evidence, generation>> /\ writer[w].pc # "idle"
        /\ \/ writer' = [writer EXCEPT ![w] = [writer[w] EXCEPT !.pc = "number"]]
           \/ writer' = [writer EXCEPT ![w] = IdleWriter]
    BY <1>5 DEF LinkAnchor, AddCard, RemoveCard
  <2>2. DOMAIN links' = Documents
    BY <1>1, <1>5, LinksWritten DEF LinkAnchor, AddCard, RemoveCard, DocTypes
  <2> QED BY <1>1, <2>1, <2>2, Served, EditorMoves DEF DocTypes
<1>6. ASSUME NEW d \in Documents, CheckNoTasks(w, d) PROVE DocsInv'
  BY <1>1, <1>6, Starts, EditorMoves DEF CheckNoTasks, BodyType
<1>7. ASSUME NEW d \in Documents, NEW b \in DocBodies \cup Generations, ReadDocument(w, d, b)
      PROVE  DocsInv'
  <2>1. b \in BodyType
    BY DEF BodyType
  <2> QED BY <1>1, <1>7, <2>1, Starts, EditorMoves DEF ReadDocument
<1>8. ASSUME NEW d \in Documents, NEW b \in DocBodies, NEW k \in Cards,
             CreateDocument(w, d, k, b)
      PROVE  DocsInv'
  <2>1. b \in BodyType /\ [state |-> "live", body |-> b] \in DocType
    BY DEF BodyType, DocType
  <2>2. doc' \in [Documents -> DocType]
    BY <1>1, <1>8, <2>1 DEF CreateDocument
  <2> QED BY <1>1, <1>8, <2>1, <2>2, Starts, EditorMoves DEF CreateDocument
<1>9. ASSUME NEW d \in Documents, NEW k \in Cards,
             CheckLink(w, d, k) \/ \E role \in Roles : CheckCard(w, d, k, role)
      PROVE  DocsInv'
  <2>1. NoDoc \in BodyType
    BY DEF BodyType
  <2>2. CASE CheckLink(w, d, k)
    BY <1>1, <2>1, <2>2, Starts, EditorMoves DEF CheckLink
  <2>3. ASSUME NEW role \in Roles, CheckCard(w, d, k, role) PROVE DocsInv'
    BY <1>1, <2>1, <2>3, Starts, EditorMoves DEF CheckCard
  <2> QED BY <1>9, <2>2, <2>3
<1> QED BY <1>2, <1>3, <1>4, <1>5, <1>6, <1>7, <1>8, <1>9

\* The version of a request is saved unless its number was taken meanwhile.
LEMMA SaveStep ==
    ASSUME DocsInv, NEW w \in Writers, SaveVersion(w)
    PROVE  DocsInv'
<1> DEFINE d == writer[w].doc
           new == [by |-> "manual", number |-> writer[w].number, body |-> writer[w].body]
<1>1. /\ DocTypes /\ DocsFit /\ writer[w].pc # "idle"
      /\ UNCHANGED <<doc, links, evidence, generation>>
      /\ writer' = [writer EXCEPT ![w] = IdleWriter]
  BY DEF DocsInv, SaveVersion
<1>2. /\ d \in Documents /\ new \in VersionType /\ new.by = "manual"
      /\ new.number = writer[w].number
  BY <1>1, Served DEF BusyWriter, VersionType
<1>3. versions[d] \subseteq VersionType /\ VersionsFit(versions[d], evidence[d])
  BY <1>1, <1>2 DEF DocTypes, DocsFit
<1>4. \/ versions' = versions
      \/ /\ versions' = [versions EXCEPT ![d] = @ \cup {new}]
         /\ \A v \in versions[d] : v.number # new.number
  BY DEF SaveVersion
<1> HIDE DEF d, new
<1>5. \A c \in Documents : versions'[c] = versions[c] \/ VersionsFit(versions'[c], evidence[c])
  <2>1. CASE versions' = versions
    BY <2>1
  <2>2. CASE versions' # versions
    <3>1. VersionsFit(versions[d] \cup {new}, evidence[d])
      BY <1>2, <1>3, <1>4, <2>2, DocumentsAssumption, VersionAdded
    <3>2. /\ versions'[d] = versions[d] \cup {new}
          /\ \A c \in Documents \ {d} : versions'[c] = versions[c]
      BY <1>1, <1>2, <1>4, <2>2 DEF DocTypes
    <3> QED BY <3>1, <3>2
  <2> QED BY <2>1, <2>2
<1>6. DocTypes'
  <2>1. IdleWriter \in WriterType
    BY DEF WriterType
  <2>2. versions' \in [Documents -> SUBSET VersionType]
    <3>1. versions[d] \cup {new} \in SUBSET VersionType
      BY <1>2, <1>3
    <3> QED BY <1>1, <1>4, <3>1 DEF DocTypes
  <2> QED BY <1>1, <2>1, <2>2 DEF DocTypes
<1> QED BY <1>1, <1>5, <1>6, DocsKept

\* The newest generated version chooses the sources.
LEMMA PublishStep ==
    ASSUME DocsInv, NEW g \in Generations, NEW ks, PublishGenerated(g, ks)
    PROVE  DocsInv'
<1> DEFINE d == generation[g].doc
           new == [by |-> g, number |-> NextNumber(d), body |-> g]
<1>1. /\ DocTypes /\ DocsFit /\ generation[g] \in GenerationType
      /\ generation[g].pc = "prompt" /\ UNCHANGED writer
      /\ generation' = [generation EXCEPT ![g] = [generation[g] EXCEPT !.pc = "published"]]
  BY DEF DocsInv, DocTypes, PublishGenerated
<1>2. /\ d \in Documents /\ [generation[g] EXCEPT !.pc = "published"] \in GenerationType
  BY <1>1 DEF GenerationType, NoTask
<1>3. generation' \in [Generations -> GenerationType]
  BY <1>1, <1>2 DEF DocTypes
<1>4. CASE OfGeneration(d, g) # {}
  <2>1. UNCHANGED <<doc, versions, links, evidence>>
    BY <1>4 DEF PublishGenerated
  <2>2. DocTypes'
    BY <1>1, <1>3, <2>1 DEF DocTypes
  <2> QED BY <2>1, <2>2, DocsKept
<1>5. CASE OfGeneration(d, g) = {}
  <2>1. /\ doc' = [doc EXCEPT ![d].body = g] /\ evidence' = [evidence EXCEPT ![d] = g]
        /\ versions' = [versions EXCEPT ![d] = @ \cup {new}]
        /\ DOMAIN links' = DOMAIN links
    BY <1>5 DEF PublishGenerated, Publishes, Supported
  <2>2. NextNumber(d) \in Nat /\ \A v \in versions[d] : v.number < NextNumber(d)
    BY <1>2, NextIsNew
  <2>3. versions[d] \subseteq VersionType /\ VersionsFit(versions[d], evidence[d])
    BY <1>1, <1>2 DEF DocTypes, DocsFit
  <2>4. /\ new \in VersionType /\ new.by = g /\ new.number = NextNumber(d)
    BY <2>2 DEF VersionType, BodyType
  <2>5. \A v \in versions[d] : v.by # g /\ v.number \in Nat
    BY <1>5, <2>3 DEF OfGeneration, VersionType
  <2> HIDE DEF d, new
  <2>6. VersionsFit(versions[d] \cup {new}, g)
    <3>1. \A v \in versions[d] : v.number # new.number /\ v.number <= new.number
      BY <2>2, <2>4, <2>5
    <3> QED BY <2>3, <2>4, <2>5, <3>1, VersionAdded
  <2>7. /\ versions'[d] = versions[d] \cup {new} /\ evidence'[d] = g
        /\ \A c \in Documents \ {d} : versions'[c] = versions[c] /\ evidence'[c] = evidence[c]
    BY <1>1, <1>2, <2>1 DEF DocTypes
  <2>8. DocTypes'
    <3>1. doc' \in [Documents -> DocType]
      <4>1. \A q \in DocType : [q EXCEPT !.body = g] \in DocType
        BY DEF DocType, BodyType
      <4> QED BY <1>1, <2>1, <4>1 DEF DocTypes
    <3>2. versions' \in [Documents -> SUBSET VersionType]
      <4>1. versions[d] \cup {new} \in SUBSET VersionType
        BY <2>3, <2>4
      <4> QED BY <1>1, <2>1, <4>1 DEF DocTypes
    <3> QED BY <1>1, <1>3, <2>1, <3>1, <3>2 DEF DocTypes
  <2> QED BY <2>6, <2>7, <2>8, DocsKept
<1> QED BY <1>4, <1>5

\* Documents go with their versions and sources.
LEMMA DocsPurged ==
    ASSUME DocsInv, NEW ds, PurgedDocuments(ds), DOMAIN links' = Documents,
           UNCHANGED <<writer, generation>>
    PROVE  DocsInv'
<1>1. DocTypes
  BY DEF DocsInv
<1>2. [state |-> "gone", body |-> NoDoc] \in DocType /\ {} \in SUBSET VersionType
  BY DEF DocType, BodyType
<1>3. doc' \in [Documents -> DocType] /\ versions' \in [Documents -> SUBSET VersionType]
  BY <1>1, <1>2 DEF DocTypes, PurgedDocuments
<1>4. DocTypes'
  BY <1>1, <1>3 DEF DocTypes, PurgedDocuments
<1>5. ASSUME NEW d \in Documents
      PROVE  \/ versions'[d] = versions[d] /\ evidence'[d] = evidence[d]
             \/ versions'[d] = {} /\ evidence'[d] = NoDoc
  <2>1. CASE d \in ds
    BY <2>1 DEF PurgedDocuments
  <2>2. CASE d \notin ds
    BY <2>2 DEF PurgedDocuments
  <2> QED BY <2>1, <2>2
<1> QED BY <1>4, <1>5, DocsKept

LEMMA TaskStep ==
    ASSUME DocsInv, NEW g \in Generations,
           \/ \E d \in Documents : EnqueueGeneration(g, d)
           \/ RetryGeneration(g) \/ StartGeneration(g) \/ FailGeneration(g) \/ SettleGeneration(g)
    PROVE  DocsInv'
<1>1. generation[g] \in GenerationType
  BY DEF DocsInv, DocTypes
<1>2. ASSUME NEW d \in Documents, EnqueueGeneration(g, d) PROVE DocsInv'
  <2>1. [pc |-> "queued", doc |-> d] \in GenerationType
    BY DEF GenerationType
  <2> QED BY <1>2, <2>1, TaskMoves DEF EnqueueGeneration
<1>3. ASSUME NEW pc \in {"queued", "prompt", "failed", "done"}, generation[g].pc # "none",
             generation' = [generation EXCEPT ![g].pc = pc],
             UNCHANGED <<doc, versions, links, evidence, writer>>
      PROVE  DocsInv'
  <2>1. [generation[g] EXCEPT !.pc = pc] \in GenerationType
    BY <1>1, <1>3 DEF GenerationType, NoTask
  <2>2. generation' = [generation EXCEPT ![g] = [generation[g] EXCEPT !.pc = pc]]
    BY <1>3
  <2> QED BY <1>3, <2>1, <2>2, TaskMoves
<1>4. CASE RetryGeneration(g)
  BY <1>3, <1>4 DEF RetryGeneration
<1>5. CASE StartGeneration(g)
  <2>1. PICK pc \in {"prompt", "failed", "done"} : generation' = [generation EXCEPT ![g].pc = pc]
    BY <1>5 DEF StartGeneration
  <2> QED BY <1>3, <1>5, <2>1 DEF StartGeneration
<1>6. CASE FailGeneration(g)
  BY <1>3, <1>6 DEF FailGeneration
<1>7. CASE SettleGeneration(g)
  BY <1>3, <1>7 DEF SettleGeneration
<1> QED BY <1>2, <1>4, <1>5, <1>6, <1>7

LEMMA DocsStep ==
    ASSUME DocsInv, [DocNext]_docVars
    PROVE  DocsInv'
<1>1. DocTypes
  BY DEF DocsInv
<1>2. ASSUME NEW d \in Documents, RestoreDocument(d) PROVE DocsInv'
  <2>1. doc' \in [Documents -> DocType]
    <3>1. \A q \in DocType : [q EXCEPT !.state = "live"] \in DocType
      BY DEF DocType
    <3> QED BY <1>1, <1>2, <3>1 DEF RestoreDocument, DocTypes
  <2> QED BY <1>1, <1>2, <2>1, DocsKept DEF RestoreDocument, DocTypes
<1>3. ASSUME NEW d \in Documents, PurgeDocument(d) PROVE DocsInv'
  BY <1>1, <1>3, DocsPurged DEF PurgeDocument, DocTypes
<1>4. ASSUME NEW k \in Cards, PurgeLinkedCard(k) PROVE DocsInv'
  BY <1>4, DocsPurged DEF PurgeLinkedCard
<1>5. CASE DocCrash
  <2>1. \A g \in Generations : generation[g].pc \in {"prompt", "published"} =>
           [generation[g] EXCEPT !.pc = "failed"] \in GenerationType
    BY <1>1 DEF DocTypes, GenerationType, NoTask
  <2>2. DocTypes'
    BY <1>1, <1>5, <2>1 DEF DocCrash, DocTypes, WriterType
  <2> QED BY <1>5, <2>2, DocsKept DEF DocCrash
<1>6. CASE UNCHANGED docVars
  BY <1>6 DEF docVars, DocsInv, DocTypes, DocsFit
<1>7. CASE DocNext
  BY <1>2, <1>3, <1>4, <1>5, <1>7, EditorStep, SaveStep, PublishStep, TaskStep DEF DocNext
<1> QED BY <1>6, <1>7

LEMMA DocsAreSound == DocsInv => DocumentsSound
<1> SUFFICES ASSUME DocsInv, NEW d \in Documents
             PROVE  LET generated == {v \in versions[d] : v.by \in Generations} IN
                    /\ \A g \in Generations : Cardinality(OfGeneration(d, g)) <= 1
                    /\ \A v, w \in versions[d] : v.number = w.number => v = w
                    /\ IF generated = {} THEN evidence[d] = NoDoc
                       ELSE \E v \in generated : /\ evidence[d] = v.by
                                                 /\ \A w \in generated : w.number <= v.number
  BY DEF DocumentsSound
<1> DEFINE generated == {v \in versions[d] : v.by \in Generations}
<1>1. VersionsFit(versions[d], evidence[d])
  BY DEF DocsInv, DocsFit
<1>2. ASSUME NEW g \in Generations PROVE Cardinality(OfGeneration(d, g)) <= 1
  <2>1. \A v, w \in OfGeneration(d, g) : v = w
    BY <1>1 DEF OfGeneration, VersionsFit
  <2>2. CASE OfGeneration(d, g) = {}
    BY <2>2, FS_EmptySet
  <2>3. CASE OfGeneration(d, g) # {}
    <3>1. PICK v : OfGeneration(d, g) = {v}
      BY <2>1, <2>3
    <3>2. Cardinality({v}) = 1
      BY FS_Singleton
    <3> QED BY <3>1, <3>2
  <2> QED BY <2>2, <2>3
<1>3. IF generated = {} THEN evidence[d] = NoDoc
      ELSE \E v \in generated : evidence[d] = v.by /\ \A w \in generated : w.number <= v.number
  <2>1. CASE generated = {}
    BY <1>1, <2>1 DEF VersionsFit
  <2>2. CASE generated # {}
    BY <1>1, <2>2 DEF VersionsFit
  <2> QED BY <2>1, <2>2
<1> QED BY <1>1, <1>2, <1>3 DEF VersionsFit

\* What the steps of requests and tasks leave alone.
LEMMA EditorReads ==
    ASSUME NEW w \in Writers
    PROVE  /\ LinkAnchor(w) \/ ReadNumber(w) \/ AddCard(w) \/ RemoveCard(w) =>
                 UNCHANGED <<doc, versions, evidence>>
           /\ \A d \in Documents :
                 \/ CheckNoTasks(w, d)
                 \/ \E b \in DocBodies \cup Generations : ReadDocument(w, d, b)
                 \/ \E k \in Cards : \/ CheckLink(w, d, k)
                                     \/ \E role \in Roles : CheckCard(w, d, k, role)
                 => UNCHANGED <<doc, versions, links, evidence>>
BY DEF LinkAnchor, ReadNumber, AddCard, RemoveCard, CheckNoTasks, ReadDocument, CheckLink,
       CheckCard

LEMMA EditorWrites ==
    ASSUME NEW w \in Writers
    PROVE  /\ WriteDocument(w) \/ ReadNumber(w) \/ TrashDocument(w) \/ SaveVersion(w) =>
                 UNCHANGED links
           /\ \A d \in Documents, b \in DocBodies, k \in Cards :
                 CreateDocument(w, d, k, b) => UNCHANGED links
           /\ \A d \in Documents : RestoreDocument(d) => UNCHANGED links
BY DEF WriteDocument, ReadNumber, TrashDocument, SaveVersion, CreateDocument, RestoreDocument

LEMMA TasksRead ==
    /\ \A g \in Generations :
          \/ \E d \in Documents : EnqueueGeneration(g, d)
          \/ RetryGeneration(g) \/ StartGeneration(g) \/ FailGeneration(g)
          \/ SettleGeneration(g)
          => UNCHANGED <<doc, versions, links, evidence>>
    /\ DocCrash => UNCHANGED <<doc, versions, links, evidence>>
BY DEF EnqueueGeneration, RetryGeneration, StartGeneration, FailGeneration, SettleGeneration,
       DocCrash

\* A version goes only with its document, and the Trash keeps a document as it is.
LEMMA VersionsKept ==
    ASSUME DocsInv, [DocNext]_docVars
    PROVE  \A d \in Documents :
              \/ doc'[d].state = "gone"
              \/ /\ versions[d] \subseteq versions'[d]
                 /\ doc[d].state = "trashed" =>
                       doc'[d].body = doc[d].body /\ evidence'[d] = evidence[d]
<1> SUFFICES ASSUME NEW d \in Documents, doc'[d].state # "gone"
             PROVE  /\ versions[d] \subseteq versions'[d]
                    /\ doc[d].state = "trashed" =>
                          doc'[d].body = doc[d].body /\ evidence'[d] = evidence[d]
  OBVIOUS
<1>1. DocTypes
  BY DEF DocsInv
<1>2. CASE UNCHANGED <<doc, versions, evidence>>
  BY <1>2
<1>3. ASSUME NEW ds, PurgedDocuments(ds)
      PROVE  UNCHANGED <<doc[d], versions[d], evidence[d]>>
  BY <1>3 DEF PurgedDocuments
<1>4. ASSUME NEW w \in Writers, NEW c \in Documents, NEW b, NEW k, CreateDocument(w, c, k, b)
      PROVE  UNCHANGED <<versions, evidence>> /\ (doc[d].state = "trashed" => doc'[d] = doc[d])
  BY <1>1, <1>4 DEF CreateDocument, DocTypes
<1>5. ASSUME NEW w \in Writers, WriteDocument(w)
      PROVE  UNCHANGED <<versions, evidence>> /\ (doc[d].state = "trashed" => doc'[d] = doc[d])
  BY <1>1, <1>5 DEF WriteDocument, DocTypes
<1>6. ASSUME NEW w \in Writers, TrashDocument(w)
      PROVE  UNCHANGED <<versions, evidence>> /\ (doc[d].state = "trashed" => doc'[d] = doc[d])
  BY <1>1, <1>6 DEF TrashDocument, DocTypes, Readable
<1>7. ASSUME NEW c \in Documents, RestoreDocument(c)
      PROVE  UNCHANGED <<versions, evidence>> /\ doc'[d].body = doc[d].body
  <2>1. [doc[d] EXCEPT !.state = "live"].body = doc[d].body
    BY <1>1 DEF DocTypes, DocType
  <2> QED BY <1>1, <1>7, <2>1 DEF RestoreDocument, DocTypes
<1>8. ASSUME NEW w \in Writers, SaveVersion(w)
      PROVE  UNCHANGED <<doc, evidence>> /\ versions[d] \subseteq versions'[d]
  <2>1. writer[w].doc \in Documents
    BY <1>8, Served DEF SaveVersion
  <2>2. PICK new : \/ versions' = versions
                   \/ versions' = [versions EXCEPT ![writer[w].doc] = @ \cup {new}]
    BY <1>8 DEF SaveVersion
  <2> QED BY <1>1, <1>8, <2>1, <2>2 DEF SaveVersion, DocTypes
<1>9. ASSUME NEW g \in Generations, NEW ks, PublishGenerated(g, ks)
      PROVE  /\ versions[d] \subseteq versions'[d]
             /\ doc[d].state = "trashed" => doc'[d] = doc[d] /\ evidence'[d] = evidence[d]
  <2>1. PICK c \in Documents : c = generation[g].doc
    BY <1>1, <1>9 DEF PublishGenerated, DocTypes, GenerationType, NoTask
  <2>2. CASE UNCHANGED <<doc, versions, evidence>>
    BY <2>2
  <2>3. CASE Readable(c) /\ Publishes(c, g, ks)
    BY <1>1, <2>1, <2>3 DEF Publishes, Readable, DocTypes
  <2> QED BY <1>9, <2>1, <2>2, <2>3 DEF PublishGenerated
<1>10. CASE DocNext
  <2>1. \/ UNCHANGED <<doc, versions, evidence>>
        \/ \E ds \in SUBSET Documents : PurgedDocuments(ds)
        \/ \E w \in Writers : \/ WriteDocument(w) \/ TrashDocument(w) \/ SaveVersion(w)
                              \/ \E c \in Documents, b \in DocBodies, k \in Cards :
                                    CreateDocument(w, c, k, b)
        \/ \E c \in Documents : RestoreDocument(c)
        \/ \E g \in Generations : \E ks \in SUBSET Cards : PublishGenerated(g, ks)
    BY <1>10, EditorReads, TasksRead DEF DocNext, PurgeDocument, PurgeLinkedCard
  <2> QED BY <1>2, <1>3, <1>4, <1>5, <1>6, <1>7, <1>8, <1>9, <2>1
<1> QED BY <1>2, <1>10 DEF docVars

\* A link of a document in the Trash changes by a request that had checked it,
\* or goes with its card.
LEMMA LinksKept ==
    ASSUME DocsInv, [DocNext]_docVars, NEW d \in Documents, NEW k \in Cards,
           doc'[d].state # "gone", doc[d].state = "trashed"
    PROVE  \/ LinkRole(d, k)' = LinkRole(d, k)
           \/ k \in retired' \ retired
           \/ \E w \in Writers : /\ writer[w].doc = d /\ writer[w].card = k
                                  /\ writer[w].pc \in {"anchor", "link", "unlink"}
                                  /\ writer'[w] # writer[w]
<1> DEFINE SameRole == LinkRole(d, k)' = LinkRole(d, k)
<1>1. DocTypes
  BY DEF DocsInv
<1>2. ASSUME links'[d] = links[d] PROVE SameRole
  BY <1>2 DEF LinkRole
<1>3. ASSUME NEW w \in Writers, LinkAnchor(w) \/ AddCard(w) \/ RemoveCard(w)
      PROVE  /\ writer[w].pc \in {"anchor", "link", "unlink"} /\ writer'[w] # writer[w]
             /\ (writer[w].doc = d /\ writer[w].card = k) \/ SameRole
  <2>1. /\ writer[w].pc \in {"anchor", "link", "unlink"}
        /\ \/ writer' = [writer EXCEPT ![w].pc = "number"]
           \/ writer' = [writer EXCEPT ![w] = IdleWriter]
        /\ \/ links' = Linked(writer[w].doc, writer[w].card, writer[w].role)
           \/ links' = [links EXCEPT ![writer[w].doc] =
                           [j \in DOMAIN @ \ {writer[w].card} |-> @[j]]]
    BY <1>3 DEF LinkAnchor, AddCard, RemoveCard
  <2>2. writer[w] \in BusyWriter
    BY <2>1, Served
  <2>3. writer'[w].pc \in {"number", "idle"}
    <3>1. [writer[w] EXCEPT !.pc = "number"].pc = "number" /\ IdleWriter.pc = "idle"
      BY <2>2 DEF BusyWriter, IdleWriter
    <3> QED BY <1>1, <2>1, <3>1 DEF DocTypes
  <2>4. ASSUME writer[w].doc # d PROVE SameRole
    <3>1. PICK new : links' = [links EXCEPT ![writer[w].doc] = new]
      BY <2>1 DEF Linked
    <3> QED BY <1>1, <1>2, <2>4, <3>1 DEF DocTypes
  <2>5. ASSUME writer[w].doc = d, writer[w].card # k PROVE SameRole
    <3>1. \/ links'[d] = [j \in DOMAIN links[d] \cup {writer[w].card} |->
                             IF j = writer[w].card THEN writer[w].role ELSE links[d][j]]
          \/ links'[d] = [j \in DOMAIN links[d] \ {writer[w].card} |-> links[d][j]]
      BY <1>1, <2>1, <2>5 DEF Linked, DocTypes
    <3> QED BY <2>5, <3>1 DEF LinkRole
  <2> HIDE DEF SameRole
  <2>6. writer'[w] # writer[w]
    BY <2>1, <2>3
  <2> QED BY <2>1, <2>4, <2>5, <2>6
<1>4. ASSUME NEW c \in Documents, PurgeDocument(c) PROVE SameRole
  <2>1. c # d
    BY <1>4 DEF PurgeDocument, PurgedDocuments
  <2> QED BY <1>1, <1>2, <1>4, <2>1 DEF PurgeDocument, DocTypes
<1>5. ASSUME NEW j \in Cards, PurgeLinkedCard(j)
      PROVE  SameRole \/ k \in retired' \ retired
  <2>1. CASE j = k
    BY <1>5, <2>1 DEF PurgeLinkedCard
  <2>2. CASE j # k
    <3>1. j \notin Anchors(d)
      BY <1>5 DEF PurgeLinkedCard, PurgedDocuments
    <3>2. links'[d] = [i \in DOMAIN links[d] \ {j} |-> links[d][i]]
      BY <1>5, <3>1 DEF PurgeLinkedCard
    <3> QED BY <2>2, <3>2 DEF LinkRole
  <2> QED BY <2>1, <2>2
<1>6. ASSUME NEW g \in Generations, NEW ks, PublishGenerated(g, ks) PROVE SameRole
  <2>1. \/ links' = links
        \/ /\ doc[generation[g].doc].state = "live"
           /\ links' = Supported(generation[g].doc, ks)
    BY <1>6 DEF PublishGenerated, Publishes, Readable
  <2> QED BY <1>1, <1>2, <2>1 DEF Supported, DocTypes
<1>7. ASSUME UNCHANGED links PROVE SameRole
  BY <1>2, <1>7
<1> HIDE DEF SameRole
<1>8. \/ UNCHANGED links
      \/ \E w \in Writers : LinkAnchor(w) \/ AddCard(w) \/ RemoveCard(w)
      \/ \E c \in Documents : PurgeDocument(c)
      \/ \E j \in Cards : PurgeLinkedCard(j)
      \/ \E g \in Generations : \E ks \in SUBSET Cards : PublishGenerated(g, ks)
  <2>1. CASE UNCHANGED docVars
    BY <2>1 DEF docVars
  <2>2. \A w \in Writers :
           /\ \/ WriteDocument(w) \/ ReadNumber(w) \/ TrashDocument(w) \/ SaveVersion(w)
              => UNCHANGED links
           /\ \A c \in Documents :
                 \/ CheckNoTasks(w, c)
                 \/ \E b \in DocBodies \cup Generations : ReadDocument(w, c, b)
                 \/ \E j \in Cards : \/ CheckLink(w, c, j)
                                     \/ \E role \in Roles : CheckCard(w, c, j, role)
                                     \/ \E b \in DocBodies : CreateDocument(w, c, j, b)
                 => UNCHANGED links
    BY EditorReads, EditorWrites
  <2>3. /\ \A c \in Documents : RestoreDocument(c) \/ (\E g \in Generations : EnqueueGeneration(g, c))
              => UNCHANGED links
        /\ \A g \in Generations :
              RetryGeneration(g) \/ StartGeneration(g) \/ FailGeneration(g) \/ SettleGeneration(g)
              => UNCHANGED links
        /\ DocCrash => UNCHANGED links
    BY TasksRead DEF RestoreDocument
  <2>4. CASE DocNext
    BY <2>2, <2>3, <2>4 DEF DocNext
  <2> QED BY <2>1, <2>4
<1> QED BY <1>3, <1>4, <1>5, <1>6, <1>7, <1>8 DEF SameRole

\* A version goes only with its document, and the Trash keeps a document as it
\* is, but for its links to purged cards and for requests on their way.
LEMMA DocsKeepHistory ==
    ASSUME DocsInv, [DocNext]_docVars
    PROVE  HistoryKept
<1>1. \A d \in Documents : \A k \in Cards :
         doc'[d].state = "gone" \/ doc[d].state # "trashed"
         \/ LinkRole(d, k)' = LinkRole(d, k)
         \/ k \in retired' \ retired
         \/ \E w \in Writers : /\ writer[w].doc = d /\ writer[w].card = k
                                /\ writer[w].pc \in {"anchor", "link", "unlink"}
                                /\ writer'[w] # writer[w]
  BY LinksKept
<1> QED BY <1>1, VersionsKept DEF HistoryKept

\* For any documents, editors and tasks, whatever edits, retries, purges and
\* stops of the process surround a publication: a task publishes at most one
\* version, numbers are unique, the sources are those of the newest generated
\* version, a version goes only with its document, and the body, sources and
\* links of a document in the Trash stay, but for the link to a purged card and
\* for a request that had checked its card before
\* (learning_document_service.py, learning_document_store.py).
THEOREM DocumentsStaySound == LibrarySpec => DocumentsHold
<1> DEFINE Inv == scenario = "documents" => DocsInv
<1>1. LibraryInit => Inv
  BY DocsStart DEF LibraryInit
<1>2. Inv /\ [LibraryNext]_libraryVars => Inv'
  BY LibrarySteps, DocsStep
<1>3. Inv => (scenario = "documents" => DocumentsSound)
  BY DocsAreSound
<1>4. Inv /\ [LibraryNext]_libraryVars => [scenario = "documents" => HistoryKept]_docVars
  BY LibrarySteps, DocsKeepHistory
<1> QED BY <1>1, <1>2, <1>3, <1>4, PTL DEF LibrarySpec, libraryVars, DocumentsHold

----------------------------------------------------------------------------
(***************************************************************************)
(* Published artifacts.  A name keeps the bytes it was linked with, and a  *)
(* staging name that is gone stays gone; so what a command has compared,   *)
(* every file before the one it is at, it still owns when it goes on.      *)
(***************************************************************************)

LeafBytes == {NoBytes} \cup UNION {{WrittenBy[c][p] : p \in 1 .. 2 * SetSize} : c \in ArtifactSets}
CommandStates == {"idle", "refused", "published", "preflight", "check", "install", "unlink",
                  "converge", "settle", "confirm", "load"}
CommandType == [at : CommandStates, wants : ArtifactSets \cup {NoBytes}, path : LeafPaths]

PublicationTypes ==
    /\ style \in Styles
    /\ leaf \in [LeafPaths -> [bytes : LeafBytes, twice : BOOLEAN]]
    /\ command \in [Publishers -> CommandType]

Odd(p) == p % 2 = 1
\* Before a path: the files are the candidate's; a stage has only seen the
\* name of the JSON whose sidecar is next.
BehindIs(c, p) ==
    \A q \in 1 .. p - 1 : \/ LeafReadable(q, c)
                          \/ style = "stage" /\ ~Odd(p) /\ q = p - 1 /\ LeafThere(q)
CommandKnows(c) ==
    /\ c.at # "idle" => c.wants \in ArtifactSets
    /\ c.at = "preflight" => style = "stage"
    /\ c.at = "check" => style # "protocol" /\ Odd(c.path)
    /\ c.at \in {"converge", "settle"} => style = "protocol"
    /\ c.at \in {"check", "install", "unlink", "converge", "settle", "confirm"} =>
          BehindIs(c.wants, c.path)
    /\ c.at \in {"unlink", "settle"} => leaf[c.path].bytes = WrittenBy[c.wants][c.path]
    /\ c.at = "confirm" => /\ style = "stage" /\ Odd(c.path)
                           /\ LeafThere(c.path) /\ LeafThere(c.path + 1)
    /\ c.at \in {"load", "published"} => \A q \in LeafPaths : LeafReadable(q, c.wants)

RootBound ==
    LeafThere(LastPath - 1) =>
        \E c \in ArtifactSets : \A p \in 1 .. LastPath - 1 : leaf[p].bytes = WrittenBy[c][p]
SidecarsFollow ==
    style # "stage" => \A p \in LeafPaths : Odd(p) /\ LeafThere(p + 1) =>
                          leaf[p].bytes = leaf[p + 1].bytes

PublicationInv ==
    /\ PublicationTypes /\ RootBound /\ SidecarsFollow
    /\ \A w \in Publishers : CommandKnows(command[w])

LEMMA PathFacts ==
    ASSUME style \in Styles
    PROVE  /\ LastPath \in Nat /\ LastPath >= 2 /\ LastPath <= 2 * SetSize /\ ~Odd(LastPath)
           /\ LeafPaths = 1 .. LastPath
           /\ \A p \in LeafPaths : /\ p \in Nat /\ p >= 1 /\ p <= LastPath /\ p \in 1 .. 2 * SetSize
                                   /\ Odd(p) => p + 1 \in LeafPaths /\ ~Odd(p + 1)
                                   /\ ~Odd(p) => p - 1 \in LeafPaths /\ Odd(p - 1)
                                   /\ p < LastPath => p + 1 \in LeafPaths
                                   /\ ~Odd(p) => Odd(p + 1)
           /\ 1 \in LeafPaths /\ Odd(1) /\ LastPath \in LeafPaths /\ LastPath - 1 \in LeafPaths
<1>1. SetSize \in Nat /\ SetSize >= 1
  BY PublicationAssumption
<1>2. LastPath \in Nat /\ LastPath >= 2 /\ LastPath <= 2 * SetSize /\ LeafPaths = 1 .. LastPath
  BY <1>1 DEF LastPath, LeafPaths
<1>3. \E k \in Nat : LastPath = 2 * k
  BY <1>1 DEF LastPath
<1>4. LastPath % 2 = 0
  BY <1>3
<1>5. \A p \in Nat : /\ p % 2 \in {0, 1}
                     /\ p % 2 = 1 => (p + 1) % 2 = 0
                     /\ p % 2 = 0 => (p + 1) % 2 = 1
                     /\ p % 2 = 0 /\ p >= 1 => (p - 1) % 2 = 1
  OBVIOUS
<1>6. ASSUME NEW p \in LeafPaths
      PROVE  /\ p \in Nat /\ p >= 1 /\ p <= LastPath /\ p \in 1 .. 2 * SetSize
             /\ p < LastPath => p + 1 \in LeafPaths
             /\ p > 1 => p - 1 \in LeafPaths
  BY <1>1, <1>2
<1>7. ASSUME NEW p \in LeafPaths
      PROVE  /\ Odd(p) => p + 1 \in LeafPaths /\ ~Odd(p + 1)
             /\ ~Odd(p) => p - 1 \in LeafPaths /\ Odd(p - 1)
             /\ ~Odd(p) => Odd(p + 1)
  <2>1. Odd(p) => p # LastPath
    BY <1>4 DEF Odd
  <2>2. ~Odd(p) => p # 1
    BY <1>5 DEF Odd
  <2>3. p - 1 \in Nat /\ p + 1 \in Nat
    BY <1>6
  <2> QED BY <1>2, <1>5, <1>6, <2>1, <2>2 DEF Odd
<1>8. Odd(1) /\ ~Odd(LastPath)
  BY <1>4 DEF Odd
<1> QED BY <1>2, <1>6, <1>7, <1>8

LEMMA PublicationStart == PublicationInit => PublicationInv
<1> SUFFICES ASSUME PublicationInit PROVE PublicationInv
  OBVIOUS
<1>1. style \in Styles /\ 1 \in LeafPaths /\ LastPath - 1 \in LeafPaths /\ LeafPaths = 1 .. LastPath
  BY PathFacts DEF PublicationInit
<1>2. PublicationTypes
  BY <1>1 DEF PublicationInit, PublicationTypes, CommandType, CommandStates, LeafBytes
<1>3. \A p \in LeafPaths : ~LeafThere(p)
  BY <1>1 DEF PublicationInit, LeafThere
<1>4. RootBound
  BY <1>1, <1>3 DEF RootBound
<1>5. SidecarsFollow
  BY <1>1, <1>3, PathFacts DEF SidecarsFollow
<1>6. \A w \in Publishers : CommandKnows(command[w])
  BY DEF PublicationInit, CommandKnows
<1> QED BY <1>2, <1>4, <1>5, <1>6 DEF PublicationInv

\* What is on disk stays.
LeavesStand ==
    /\ style' = style
    /\ \A p \in LeafPaths : LeafThere(p) =>
          leaf'[p].bytes = leaf[p].bytes /\ (~leaf[p].twice => ~leaf'[p].twice)

LEMMA ReadableStands ==
    ASSUME PublicationTypes, LeavesStand, NEW c \in ArtifactSets, NEW p \in LeafPaths,
           LeafReadable(p, c)
    PROVE  LeafReadable(p, c)' /\ LeafThere(p)
<1>1. WrittenBy[c][p] # NoBytes
  BY PathFacts, PublicationAssumption DEF PublicationTypes
<1> QED BY <1>1 DEF LeavesStand, LeafReadable, LeafThere

LEMMA CommandStands ==
    ASSUME PublicationTypes, LeavesStand, NEW c \in CommandType, CommandKnows(c)
    PROVE  CommandKnows(c)'
<1>1. c.path \in LeafPaths /\ style' = style /\ LeafPaths = 1 .. LastPath /\ LeafPaths' = LeafPaths
      /\ LastPath \in Nat
  BY PathFacts DEF CommandType, LeavesStand, PublicationTypes, LeafPaths, LastPath
<1>2. ASSUME c.wants \in ArtifactSets
      PROVE  \A q \in LeafPaths : LeafReadable(q, c.wants) => LeafReadable(q, c.wants)'
  BY <1>2, ReadableStands
<1>3. \A q \in LeafPaths : LeafThere(q) => LeafThere(q)' /\ leaf'[q].bytes = leaf[q].bytes
  BY DEF LeavesStand, LeafThere
<1>4. \A q \in 1 .. c.path - 1 : q \in LeafPaths
  BY <1>1
<1>5. ASSUME c.wants \in ArtifactSets, BehindIs(c.wants, c.path)
      PROVE  BehindIs(c.wants, c.path)'
  BY <1>1, <1>2, <1>3, <1>4, <1>5 DEF BehindIs
<1>6. c.at \in {"unlink", "settle"} /\ c.wants \in ArtifactSets => LeafThere(c.path)
  BY <1>1, PathFacts, PublicationAssumption DEF CommandKnows, LeafThere, PublicationTypes
<1>7. Odd(c.path) => c.path + 1 \in LeafPaths
  BY <1>1, PathFacts DEF PublicationTypes
<1> QED BY <1>1, <1>2, <1>3, <1>5, <1>6, <1>7 DEF CommandKnows

PublicationDone == PublicationInv' /\ RefusedForConflict
Cause(w) == Conflicts(w) \/ (style # "protocol" /\ \E p \in LeafPaths : leaf[p].twice)

LEMMA CommandSteps ==
    ASSUME PublicationInv, LeavesStand, NEW w \in Publishers, NEW d \in CommandType,
           command' = [command EXCEPT ![w] = d],
           leaf' \in [LeafPaths -> [bytes : LeafBytes, twice : BOOLEAN]],
           RootBound', SidecarsFollow', CommandKnows(d)', d.at = "refused" => Cause(w)
    PROVE  PublicationDone
<1>1. PublicationTypes /\ style' = style /\ LeafPaths' = LeafPaths
  BY DEF PublicationInv, LeavesStand, LeafPaths, LastPath
<1>2. PublicationTypes'
  BY <1>1 DEF PublicationTypes, CommandType
<1>3. \A v \in Publishers : command'[v] = IF v = w THEN d ELSE command[v]
  BY <1>1 DEF PublicationTypes
<1>4. ASSUME NEW v \in Publishers PROVE CommandKnows(command[v])'
  <2>1. CASE v = w
    BY <1>3, <2>1 DEF CommandKnows
  <2>2. CASE v # w
    <3>1. command[v] \in CommandType /\ CommandKnows(command[v])
      BY DEF PublicationInv, PublicationTypes
    <3>2. \A c \in CommandType : CommandKnows(c) => CommandKnows(c)'
      BY <1>1, CommandStands
    <3> QED BY <1>3, <2>2, <3>1, <3>2 DEF CommandKnows
  <2> QED BY <2>1, <2>2
<1>5. PublicationInv'
  BY <1>2, <1>4 DEF PublicationInv
<1>6. RefusedForConflict
  BY <1>3 DEF RefusedForConflict, Cause
<1> QED BY <1>5, <1>6 DEF PublicationDone

LEMMA CommandMoves ==
    ASSUME PublicationInv, NEW w \in Publishers, NEW d \in CommandType,
           command' = [command EXCEPT ![w] = d], UNCHANGED <<style, leaf>>,
           CommandKnows(d), d.at = "refused" => Cause(w)
    PROVE  PublicationDone
<1>1. PublicationTypes /\ LeavesStand
  BY DEF PublicationInv, LeavesStand
<1>2. CommandKnows(d)'
  BY <1>1, CommandStands
<1>3. LeafPaths' = LeafPaths /\ LastPath' = LastPath
  BY DEF LeafPaths, LastPath
<1>4. leaf' \in [LeafPaths -> [bytes : LeafBytes, twice : BOOLEAN]]
  BY <1>1 DEF PublicationTypes
<1>5. RootBound' /\ SidecarsFollow'
  BY <1>3 DEF PublicationInv, RootBound, SidecarsFollow, LeafThere
<1> QED BY <1>1, <1>2, <1>4, <1>5, CommandSteps

LEMMA CommandNames == {"refused", "preflight", "check", "install", "unlink", "converge", "settle",
                       "confirm", "load", "published"} \subseteq CommandStates
  BY DEF CommandStates

LEMMA ProceedsTo ==
    ASSUME PublicationInv, NEW w \in Publishers, NEW at \in CommandStates, NEW p \in LeafPaths,
           Proceed(w, at, p)
    PROVE  \E d \in CommandType :
              /\ command' = [command EXCEPT ![w] = d]
              /\ d.at = at /\ d.path = p /\ d.wants = command[w].wants
<1> DEFINE d == [[command[w] EXCEPT !.at = at] EXCEPT !.path = p]
<1>1. /\ d \in CommandType /\ command' = [command EXCEPT ![w] = d]
      /\ d.at = at /\ d.path = p /\ d.wants = command[w].wants
  BY DEF PublicationInv, PublicationTypes, CommandType, Proceed
<1> QED BY <1>1

LEMMA Refusal ==
    ASSUME PublicationInv, NEW w \in Publishers, RefuseCommand(w), UNCHANGED <<style, leaf>>,
           command[w].at # "idle", Cause(w)
    PROVE  PublicationDone
<1>1. command[w] \in CommandType /\ CommandKnows(command[w]) /\ command[w].path \in LeafPaths
  BY DEF PublicationInv, PublicationTypes, CommandType
<1>2. PICK d \in CommandType : /\ command' = [command EXCEPT ![w] = d]
                             /\ d.at = "refused" /\ d.wants = command[w].wants
  BY <1>1, CommandNames, ProceedsTo DEF RefuseCommand
<1>3. CommandKnows(d)
  BY <1>1, <1>2 DEF CommandKnows
<1> QED BY <1>2, <1>3, CommandMoves

LEMMA BeginStep ==
    ASSUME PublicationInv, NEW w \in Publishers, NEW c \in ArtifactSets, Begin(w, c)
    PROVE  PublicationDone
<1> DEFINE d == [at |-> BeginAt, wants |-> c, path |-> 1]
<1>1. style \in {"stage", "slice", "protocol"} /\ 1 \in LeafPaths /\ Odd(1)
  BY PathFacts, PublicationAssumption DEF PublicationInv, PublicationTypes
<1>2. /\ BeginAt \in {"preflight", "check", "converge", "install"}
      /\ BeginAt = "preflight" => style = "stage"
      /\ BeginAt = "check" => style = "slice"
      /\ BeginAt = "converge" => style = "protocol"
  BY <1>1 DEF BeginAt
<1>3. d \in CommandType /\ command' = [command EXCEPT ![w] = d] /\ UNCHANGED <<style, leaf>>
  BY <1>1, <1>2 DEF Begin, CommandType, CommandStates
<1>4. BehindIs(c, 1)
  BY DEF BehindIs
<1>5. CommandKnows(d)
  BY <1>1, <1>2, <1>4 DEF CommandKnows
<1> QED BY <1>2, <1>3, <1>5, CommandMoves

LEMMA LookStep ==
    ASSUME PublicationInv, NEW w \in Publishers,
           Preflight(w) \/ CheckLeaf(w) \/ Confirm(w) \/ LoadAuthority(w) \/ Killed(w)
    PROVE  PublicationDone
<1> DEFINE c == command[w].wants
           p == command[w].path
<1>1. /\ PublicationTypes /\ command[w] \in CommandType /\ CommandKnows(command[w])
      /\ p \in LeafPaths /\ style \in Styles /\ UNCHANGED <<style, leaf>>
  BY DEF PublicationInv, PublicationTypes, CommandType, Preflight, CheckLeaf, Confirm, LoadAuthority,
         Killed
<1>2. /\ LastPath \in Nat /\ LastPath >= 2 /\ ~Odd(LastPath) /\ LeafPaths = 1 .. LastPath
      /\ p \in Nat /\ p >= 1 /\ p <= LastPath
      /\ Odd(p) => p + 1 \in LeafPaths /\ ~Odd(p + 1)
      /\ p < LastPath => p + 1 \in LeafPaths
      /\ \A q \in LeafPaths : ~Odd(q) => Odd(q + 1)
      /\ 1 \in LeafPaths /\ Odd(1) /\ LastPath \in LeafPaths
  BY <1>1, PathFacts
<1>3. \A q \in LeafPaths : ~LeafFits(q, c) => (leaf[q].bytes # WrittenBy[c][q] /\ LeafThere(q)) \/ leaf[q].twice
  BY DEF LeafFits, LeafReadable
<1>4. CASE Preflight(w)
  <2>1. style = "stage" /\ command[w].at = "preflight" /\ c \in ArtifactSets
    BY <1>1, <1>4 DEF Preflight, AtPath, CommandKnows
  <2>2. CASE ~LeafFits(p, c)
    <3>1. Cause(w)
      BY <1>1, <1>3, <2>1, <2>2 DEF Cause, Conflicts
    <3> QED BY <1>1, <1>4, <2>1, <2>2, <3>1, Refusal DEF Preflight
  <2>3. CASE LeafFits(p, c) /\ p < LastPath
    <3>1. Proceed(w, "preflight", p + 1) /\ p + 1 \in LeafPaths
      BY <1>2, <1>4, <2>3 DEF Preflight
    <3>2. PICK d \in CommandType : /\ command' = [command EXCEPT ![w] = d]
                                 /\ d.at = "preflight" /\ d.path = p + 1 /\ d.wants = c
      BY <3>1, CommandNames, ProceedsTo
    <3>3. CommandKnows(d)
      BY <2>1, <3>2 DEF CommandKnows
    <3> QED BY <1>1, <3>2, <3>3, CommandMoves
  <2>4. CASE LeafFits(p, c) /\ ~(p < LastPath)
    <3>1. Proceed(w, "check", 1)
      BY <1>4, <2>4 DEF Preflight
    <3>2. PICK d \in CommandType : /\ command' = [command EXCEPT ![w] = d]
                                 /\ d.at = "check" /\ d.path = 1 /\ d.wants = c
      BY <1>2, <3>1, CommandNames, ProceedsTo
    <3>3. CommandKnows(d)
      BY <1>2, <2>1, <3>2 DEF CommandKnows, BehindIs
    <3> QED BY <1>1, <3>2, <3>3, CommandMoves
  <2> QED BY <2>2, <2>3, <2>4
<1>5. CASE CheckLeaf(w)
  <2>1. /\ style # "protocol" /\ command[w].at = "check" /\ c \in ArtifactSets /\ Odd(p)
        /\ BehindIs(c, p) /\ p + 1 \in LeafPaths
    BY <1>1, <1>2, <1>5 DEF CheckLeaf, AtPath, CommandKnows
  <2>2. CASE ~(LeafFits(p, c) /\ LeafFits(p + 1, c))
    <3>1. Cause(w)
      BY <1>1, <1>3, <2>1, <2>2 DEF Cause, Conflicts
    <3> QED BY <1>1, <1>5, <2>1, <2>2, <3>1, Refusal DEF CheckLeaf
  <2>3. CASE LeafFits(p, c) /\ LeafFits(p + 1, c)
    <3>1. Proceed(w, "install", p)
      BY <1>5, <2>3 DEF CheckLeaf
    <3>2. PICK d \in CommandType : /\ command' = [command EXCEPT ![w] = d]
                                 /\ d.at = "install" /\ d.path = p /\ d.wants = c
      BY <1>1, <3>1, CommandNames, ProceedsTo
    <3>3. CommandKnows(d)
      BY <2>1, <3>2 DEF CommandKnows
    <3> QED BY <1>1, <3>2, <3>3, CommandMoves
  <2> QED BY <2>2, <2>3
<1>6. CASE Confirm(w)
  <2>1. /\ style = "stage" /\ command[w].at = "confirm" /\ c \in ArtifactSets /\ Odd(p)
        /\ BehindIs(c, p) /\ p + 1 \in LeafPaths /\ LeafThere(p) /\ LeafThere(p + 1)
    BY <1>1, <1>2, <1>6 DEF Confirm, AtPath, CommandKnows
  <2>2. CASE ~(LeafReadable(p, c) /\ LeafReadable(p + 1, c))
    <3>1. Cause(w)
      BY <1>1, <2>1, <2>2 DEF Cause, Conflicts, LeafReadable
    <3> QED BY <1>1, <1>6, <2>1, <2>2, <3>1, Refusal DEF Confirm
  <2>3. CASE LeafReadable(p, c) /\ LeafReadable(p + 1, c)
    <3>1. \A q \in 1 .. p + 1 : LeafReadable(q, c)
      <4>1. \A q \in 1 .. p - 1 : LeafReadable(q, c)
        BY <2>1 DEF BehindIs
      <4>2. \A q \in 1 .. p + 1 : q \in 1 .. p - 1 \/ q = p \/ q = p + 1
        BY <1>2
      <4> QED BY <2>3, <4>1, <4>2
    <3>2. CASE p + 1 = LastPath
      <4>1. Proceed(w, "load", p + 1)
        BY <1>6, <2>3, <3>2 DEF Confirm
      <4>2. PICK d \in CommandType : /\ command' = [command EXCEPT ![w] = d]
                                   /\ d.at = "load" /\ d.path = p + 1 /\ d.wants = c
        BY <2>1, <4>1, CommandNames, ProceedsTo
      <4>3. CommandKnows(d)
        BY <1>2, <2>1, <3>1, <3>2, <4>2 DEF CommandKnows
      <4> QED BY <1>1, <4>2, <4>3, CommandMoves
    <3>3. CASE p + 1 # LastPath
      <4>1. Proceed(w, "check", p + 2)
        BY <1>6, <2>3, <3>3 DEF Confirm
      <4>2. p + 2 \in LeafPaths /\ Odd(p + 2)
        <5>1. p + 1 < LastPath /\ p + 2 = (p + 1) + 1
          BY <1>2, <2>1, <3>3
        <5>2. (p + 1) + 1 \in LeafPaths /\ Odd((p + 1) + 1)
          BY <1>1, <1>2, <2>1, <5>1, PathFacts
        <5> QED BY <5>1, <5>2
      <4>3. PICK d \in CommandType : /\ command' = [command EXCEPT ![w] = d]
                                   /\ d.at = "check" /\ d.path = p + 2 /\ d.wants = c
        BY <4>1, <4>2, CommandNames, ProceedsTo
      <4>4. BehindIs(c, p + 2)
        BY <1>2, <3>1 DEF BehindIs
      <4>5. CommandKnows(d)
        BY <2>1, <4>2, <4>3, <4>4 DEF CommandKnows
      <4> QED BY <1>1, <4>3, <4>5, CommandMoves
    <3> QED BY <3>2, <3>3
  <2> QED BY <2>2, <2>3
<1>7. CASE LoadAuthority(w)
  <2>1. /\ command[w].at = "load" /\ c \in ArtifactSets /\ \A q \in LeafPaths : LeafReadable(q, c)
    BY <1>1, <1>7 DEF LoadAuthority, AtPath, CommandKnows
  <2>2. Proceed(w, "published", LastPath)
    BY <1>7, <2>1 DEF LoadAuthority, Binds
  <2>3. PICK d \in CommandType : /\ command' = [command EXCEPT ![w] = d]
                               /\ d.at = "published" /\ d.path = LastPath /\ d.wants = c
    BY <1>2, <2>2, CommandNames, ProceedsTo
  <2>4. CommandKnows(d)
    BY <2>1, <2>3 DEF CommandKnows
  <2> QED BY <1>1, <2>3, <2>4, CommandMoves
<1>8. CASE Killed(w)
  <2> DEFINE d == [at |-> "idle", wants |-> NoBytes, path |-> 1]
  <2>1. d \in CommandType /\ command' = [command EXCEPT ![w] = d]
    BY <1>2, <1>8 DEF Killed, CommandType, CommandStates
  <2>2. CommandKnows(d)
    BY DEF CommandKnows
  <2> QED BY <1>1, <2>1, <2>2, CommandMoves
<1> QED BY <1>4, <1>5, <1>6, <1>7, <1>8

\* What is known of the files on disk, once a command has the one at its path.
LEMMA PassedFile ==
    ASSUME PublicationInv, LeavesStand, NEW w \in Publishers,
           NEW c \in ArtifactSets, NEW p \in LeafPaths,
           c = command[w].wants, p = command[w].path,
           command[w].at \in {"install", "converge", "unlink"}, AfterFile(w, p),
           LeafReadable(p, c)' \/ (style = "stage" /\ LeafThere(p)')
    PROVE  \E d \in CommandType : /\ command' = [command EXCEPT ![w] = d]
                                  /\ d.at # "refused" /\ CommandKnows(d)'
<1>1. /\ PublicationTypes /\ command[w] \in CommandType /\ CommandKnows(command[w])
      /\ style \in Styles /\ style' = style
  BY DEF PublicationInv, PublicationTypes, LeavesStand
<1>2. /\ LastPath \in Nat /\ LastPath >= 2 /\ ~Odd(LastPath) /\ LeafPaths = 1 .. LastPath
      /\ p \in Nat /\ p >= 1 /\ p <= LastPath /\ LastPath' = LastPath /\ LeafPaths' = LeafPaths
      /\ Odd(p) => p + 1 \in LeafPaths /\ ~Odd(p + 1)
      /\ ~Odd(p) => p - 1 \in LeafPaths /\ Odd(p - 1) /\ Odd(p + 1)
      /\ p < LastPath => p + 1 \in LeafPaths
  BY <1>1, PathFacts DEF LastPath, LeafPaths
<1>3. BehindIs(c, p)'
  <2>1. BehindIs(c, p)
    BY <1>1 DEF CommandKnows
  <2>2. \A q \in 1 .. p - 1 : q \in LeafPaths
    BY <1>2
  <2>3. \A q \in LeafPaths : LeafReadable(q, c) => LeafReadable(q, c)'
    BY <1>1, ReadableStands
  <2>4. \A q \in LeafPaths : LeafThere(q) => LeafThere(q)'
    BY DEF LeavesStand, LeafThere
  <2> QED BY <1>1, <2>1, <2>2, <2>3, <2>4 DEF BehindIs
<1>4. \A q \in 1 .. p - 1 : LeafReadable(q, c)' \/ (style = "stage" /\ ~Odd(p) /\ q = p - 1 /\ LeafThere(q)')
  BY <1>1, <1>3 DEF BehindIs
<1>5. CASE Odd(p)
  <2>1. PICK at \in {"install", "converge"} : /\ Proceed(w, at, p + 1)
                                              /\ at = "converge" => command[w].at = "converge"
    BY <1>5 DEF AfterFile, Odd, AtPath
  <2>2. PICK d \in CommandType : /\ command' = [command EXCEPT ![w] = d]
                                 /\ d.at = at /\ d.path = p + 1 /\ d.wants = c
    <3>1. at \in CommandStates
      BY CommandNames
    <3>2. p + 1 \in LeafPaths /\ Proceed(w, at, p + 1)
      BY <1>2, <1>5, <2>1
    <3> QED BY <3>1, <3>2, ProceedsTo
  <2>3. BehindIs(c, p + 1)'
    <3>1. ASSUME NEW q \in 1 .. (p + 1) - 1
          PROVE  LeafReadable(q, c)' \/ (style = "stage" /\ q = (p + 1) - 1 /\ LeafThere(q)')
      <4>1. q = p \/ q \in 1 .. p - 1
        BY <1>2
      <4>2. CASE q = p
        BY <1>2, <4>2
      <4>3. CASE q \in 1 .. p - 1
        BY <1>4, <1>5, <4>3
      <4> QED BY <4>1, <4>2, <4>3
    <3> QED BY <1>1, <1>2, <1>5, <3>1 DEF BehindIs
  <2>4. d.at = "converge" => style' = "protocol"
    <3>1. command[w].at = "converge" => style = "protocol"
      BY <1>1 DEF CommandKnows
    <3> QED BY <1>1, <2>1, <2>2, <3>1
  <2>5. d.at \in {"install", "converge"}
    BY <2>2
  <2>6. CommandKnows(d)'
    BY <2>2, <2>3, <2>4, <2>5 DEF CommandKnows
  <2> QED BY <2>2, <2>5, <2>6
<1>6. CASE ~Odd(p) /\ style = "stage"
  <2>1. Proceed(w, "confirm", p - 1)
    BY <1>6 DEF AfterFile, Odd
  <2>2. PICK d \in CommandType : /\ command' = [command EXCEPT ![w] = d]
                                 /\ d.at = "confirm" /\ d.path = p - 1 /\ d.wants = c
    BY <1>2, <1>6, <2>1, CommandNames, ProceedsTo
  <2>3. /\ \A q \in 1 .. (p - 1) - 1 : LeafReadable(q, c)'
        /\ p - 1 \in 1 .. p - 1 /\ (p - 1) + 1 = p /\ p \in 1 .. 2 * SetSize /\ p - 1 \in 1 .. 2 * SetSize
    <3>1. \A q \in 1 .. (p - 1) - 1 : q \in 1 .. p - 1 /\ q # p - 1
      BY <1>2
    <3>2. p \in 1 .. 2 * SetSize /\ p - 1 \in LeafPaths /\ p - 1 \in 1 .. 2 * SetSize
      BY <1>1, <1>2, <1>6, PathFacts
    <3> QED BY <1>2, <1>4, <3>1, <3>2
  <2>4. LeafThere(p)' /\ LeafThere(p - 1)'
    <3>1. \A q \in LeafPaths : LeafReadable(q, c)' => LeafThere(q)'
      <4>1. \A q \in LeafPaths : WrittenBy[c][q] # NoBytes
        BY <1>1, PathFacts, PublicationAssumption
      <4> QED BY <4>1 DEF LeafReadable, LeafThere
    <3> QED BY <1>2, <1>4, <1>6, <2>3, <3>1
  <2>5. BehindIs(c, p - 1)'
    BY <2>3 DEF BehindIs
  <2>6. CommandKnows(d)'
    BY <1>1, <1>2, <1>6, <2>2, <2>3, <2>4, <2>5 DEF CommandKnows
  <2> QED BY <2>2, <2>6
<1>7. CASE ~Odd(p) /\ style # "stage"
  <2>1. \A q \in 1 .. p : LeafReadable(q, c)'
    <3>1. \A q \in 1 .. p : q = p \/ q \in 1 .. p - 1
      BY <1>2
    <3> QED BY <1>4, <1>7, <3>1
  <2>2. CASE p = LastPath
    <3>1. Proceed(w, "load", p)
      BY <1>7, <2>2 DEF AfterFile, Odd
    <3>2. PICK d \in CommandType : /\ command' = [command EXCEPT ![w] = d]
                                   /\ d.at = "load" /\ d.path = p /\ d.wants = c
      BY <3>1, CommandNames, ProceedsTo
    <3>3. CommandKnows(d)'
      BY <1>2, <2>1, <2>2, <3>2 DEF CommandKnows
    <3> QED BY <3>2, <3>3
  <2>3. CASE p # LastPath
    <3>1. Proceed(w, "check", p + 1) /\ p < LastPath
      BY <1>2, <1>7, <2>3 DEF AfterFile, Odd
    <3>2. style # "protocol"
      <4>1. Odd(1)
        BY <1>1, PathFacts
      <4> QED BY <1>2, <1>7, <3>1, <4>1 DEF LastPath
    <3>3. PICK d \in CommandType : /\ command' = [command EXCEPT ![w] = d]
                                   /\ d.at = "check" /\ d.path = p + 1 /\ d.wants = c
      BY <1>2, <3>1, CommandNames, ProceedsTo
    <3>4. BehindIs(c, p + 1)'
      BY <1>2, <2>1 DEF BehindIs
    <3>5. CommandKnows(d)'
      BY <1>1, <1>2, <1>7, <3>2, <3>3, <3>4 DEF CommandKnows
    <3> QED BY <3>3, <3>5
  <2> QED BY <2>2, <2>3
<1> QED BY <1>5, <1>6, <1>7

\* The staging name at a path goes, or a file is linked where none was.
LEMMA LeafFrame ==
    ASSUME PublicationInv, NEW p \in LeafPaths, UNCHANGED style,
           leaf' = [leaf EXCEPT ![p].twice = FALSE]
    PROVE  /\ LeavesStand /\ leaf' \in [LeafPaths -> [bytes : LeafBytes, twice : BOOLEAN]]
           /\ RootBound' /\ SidecarsFollow'
           /\ leaf'[p].bytes = leaf[p].bytes /\ ~leaf'[p].twice
<1>1. PublicationTypes /\ LastPath' = LastPath /\ LeafPaths' = LeafPaths
  BY DEF PublicationInv, LastPath, LeafPaths
<1>2. /\ leaf' \in [LeafPaths -> [bytes : LeafBytes, twice : BOOLEAN]]
      /\ \A q \in LeafPaths : leaf'[q].bytes = leaf[q].bytes /\ (~leaf[q].twice => ~leaf'[q].twice)
      /\ leaf'[p].bytes = leaf[p].bytes /\ ~leaf'[p].twice
  BY <1>1 DEF PublicationTypes
<1>3. /\ LeafPaths = 1 .. LastPath /\ LastPath \in Nat /\ LastPath - 1 \in LeafPaths
      /\ \A q \in LeafPaths : Odd(q) => q + 1 \in LeafPaths
  BY <1>1, PathFacts DEF PublicationTypes
<1>4. RootBound'
  <2>1. \A q \in 1 .. LastPath - 1 : q \in LeafPaths
    BY <1>3
  <2> QED BY <1>1, <1>2, <1>3, <2>1 DEF PublicationInv, RootBound, LeafThere
<1>5. SidecarsFollow'
  BY <1>1, <1>2, <1>3 DEF PublicationInv, SidecarsFollow, LeafThere
<1> QED BY <1>2, <1>4, <1>5 DEF LeavesStand

LEMMA LinkStep ==
    ASSUME PublicationInv, NEW w \in Publishers, Link(w) PROVE PublicationDone
<1> PICK p : p = command[w].path
  OBVIOUS
<1> PICK c : c = command[w].wants
  OBVIOUS
<1>1. /\ PublicationTypes /\ command[w] \in CommandType /\ CommandKnows(command[w])
      /\ p \in LeafPaths /\ style \in Styles /\ UNCHANGED style
      /\ command[w].at \in {"install", "converge"} /\ ~LeafThere(p)
      /\ leaf' = [leaf EXCEPT ![p] = [bytes |-> WrittenBy[c][p], twice |-> TRUE]]
  BY DEF PublicationInv, PublicationTypes, CommandType, Link
<1>2. c \in ArtifactSets /\ BehindIs(c, p) /\ LastPath' = LastPath /\ LeafPaths' = LeafPaths
  BY <1>1 DEF CommandKnows, LastPath, LeafPaths
<1>3. PICK at \in {"unlink", "settle"} : /\ Proceed(w, at, p)
                                         /\ at = "settle" => command[w].at = "converge"
  BY <1>1 DEF Link, AtPath
<1>4. at \in CommandStates
  BY CommandNames
<1>5. PICK d \in CommandType : /\ command' = [command EXCEPT ![w] = d]
                               /\ d.at = at /\ d.path = p /\ d.wants = c
  BY <1>1, <1>3, <1>4, ProceedsTo
<1>6. d.at \in {"unlink", "settle"} /\ (d.at = "settle" => style = "protocol")
  BY <1>1, <1>3, <1>5 DEF CommandKnows
<1>7. /\ LastPath \in Nat /\ LastPath >= 2 /\ ~Odd(LastPath) /\ LeafPaths = 1 .. LastPath
      /\ p \in Nat /\ p >= 1 /\ p <= LastPath
      /\ Odd(p) => p + 1 \in LeafPaths /\ ~Odd(p + 1)
      /\ ~Odd(p) => p - 1 \in LeafPaths /\ Odd(p - 1)
      /\ LastPath - 1 \in LeafPaths /\ Odd(LastPath - 1)
      /\ \A q \in LeafPaths : Odd(q) => q + 1 \in LeafPaths /\ ~Odd(q + 1)
  BY <1>1, PathFacts
<1>8. \A q \in LeafPaths : WrittenBy[c][q] # NoBytes /\ WrittenBy[c][q] \in LeafBytes
  BY <1>1, <1>2, PathFacts, PublicationAssumption DEF LeafBytes
<1>9. /\ leaf' \in [LeafPaths -> [bytes : LeafBytes, twice : BOOLEAN]]
      /\ \A q \in LeafPaths : leaf'[q] = IF q = p THEN [bytes |-> WrittenBy[c][p], twice |-> TRUE]
                                         ELSE leaf[q]
  BY <1>1, <1>8 DEF PublicationTypes
<1>10. /\ leaf'[p].bytes = WrittenBy[c][p]
       /\ \A q \in LeafPaths \ {p} : leaf'[q].bytes = leaf[q].bytes
  BY <1>1, <1>9
<1>11. LeavesStand
  BY <1>1, <1>9 DEF LeavesStand
<1>12. CommandKnows(d)'
  <2>1. BehindIs(c, p)'
    <3>1. \A q \in 1 .. p - 1 : q \in LeafPaths /\ q # p
      BY <1>7
    <3>2. \A q \in 1 .. p - 1 : leaf'[q] = leaf[q]
      BY <1>9, <3>1
    <3>3. \A q \in 1 .. p - 1 : /\ LeafReadable(q, c)' <=> LeafReadable(q, c)
                                /\ LeafThere(q)' <=> LeafThere(q)
      BY <3>2 DEF LeafReadable, LeafThere
    <3> QED BY <1>1, <1>2, <3>3 DEF BehindIs
  <2>2. style' = style /\ d.wants = c /\ d.path = p
    BY <1>1, <1>5
  <2> QED BY <1>2, <1>6, <1>10, <2>1, <2>2 DEF CommandKnows
<1>13. RootBound'
  <2>1. CASE p = LastPath - 1
    <3>1. \A q \in 1 .. p - 1 : leaf[q].bytes = WrittenBy[c][q]
      BY <1>2, <1>7, <2>1 DEF BehindIs, LeafReadable
    <3>2. \A q \in 1 .. LastPath - 1 : q = p \/ (q \in 1 .. p - 1 /\ q \in LeafPaths \ {p})
      BY <1>7, <2>1
    <3>3. \A q \in 1 .. LastPath - 1 : leaf'[q].bytes = WrittenBy[c][q]
      BY <1>10, <3>1, <3>2
    <3> QED BY <1>2, <3>3 DEF RootBound
  <2>2. CASE p # LastPath - 1
    <3>1. ASSUME LeafThere(LastPath - 1)' PROVE LeafThere(LastPath - 1)
      BY <1>2, <1>7, <1>10, <2>2, <3>1 DEF LeafThere
    <3>2. ASSUME NEW e \in ArtifactSets, \A q \in 1 .. LastPath - 1 : leaf[q].bytes = WrittenBy[e][q]
          PROVE  \A q \in 1 .. LastPath - 1 : leaf'[q].bytes = WrittenBy[e][q]
      <4>1. \A q \in 1 .. LastPath - 1 : q \in LeafPaths /\ WrittenBy[e][q] # NoBytes
        <5>1. \A d2 \in ArtifactSets : \A q \in 1 .. 2 * SetSize : WrittenBy[d2][q] # NoBytes
          BY PublicationAssumption
        <5>2. \A q \in 1 .. LastPath - 1 : q \in LeafPaths
          BY <1>7
        <5>3. \A q \in LeafPaths : q \in 1 .. 2 * SetSize
          BY <1>1, PathFacts
        <5> QED BY <3>2, <5>1, <5>2, <5>3, ZenonT(30)
      <4>2. \A q \in 1 .. LastPath - 1 : q # p
        BY <1>1, <3>2, <4>1 DEF LeafThere
      <4> QED BY <1>10, <3>2, <4>1, <4>2
    <3> QED BY <1>2, <3>1, <3>2 DEF PublicationInv, RootBound
  <2> QED BY <2>1, <2>2
<1>14. SidecarsFollow'
  <2>1. SUFFICES ASSUME style # "stage", NEW q \in LeafPaths, Odd(q), LeafThere(q + 1)'
                 PROVE  leaf'[q].bytes = leaf'[q + 1].bytes
    BY <1>1, <1>2 DEF SidecarsFollow
  <2>2. q + 1 \in LeafPaths /\ q # q + 1 /\ q \in Nat /\ (LeafThere(q + 1) => leaf[q].bytes = leaf[q + 1].bytes)
    BY <1>7, <2>1 DEF PublicationInv, SidecarsFollow
  <2>3. CASE q + 1 = p
    <3>1. q = p - 1 /\ ~Odd(p) /\ q \in 1 .. p - 1
      BY <1>7, <2>1, <2>2, <2>3
    <3>2. leaf[q].bytes = WrittenBy[c][q]
      BY <1>2, <2>1, <3>1 DEF BehindIs, LeafReadable
    <3>3. WrittenBy[c][q] = WrittenBy[c][p]
      <4>1. p \in 1 .. 2 * SetSize /\ q = p - 1
        BY <1>1, <3>1, PathFacts
      <4>2. p % 2 = 0
        BY <1>7, <3>1 DEF Odd
      <4> QED BY <1>2, <4>1, <4>2, PublicationAssumption
    <3> QED BY <1>10, <2>2, <2>3, <3>2, <3>3
  <2>4. CASE q + 1 # p
    <3>1. LeafThere(q + 1)
      BY <1>10, <2>1, <2>2, <2>4 DEF LeafThere
    <3>2. q # p
      <4>1. leaf[q].bytes # NoBytes
        BY <2>2, <3>1 DEF LeafThere
      <4> QED BY <1>1, <4>1 DEF LeafThere
    <3> QED BY <1>10, <2>2, <2>4, <3>1, <3>2
  <2> QED BY <2>3, <2>4
<1> QED BY <1>5, <1>6, <1>9, <1>11, <1>12, <1>13, <1>14, CommandSteps

LEMMA TakenStep ==
    ASSUME PublicationInv, NEW w \in Publishers, NameTaken(w) PROVE PublicationDone
<1> PICK p : p = command[w].path
  OBVIOUS
<1> PICK c : c = command[w].wants
  OBVIOUS
<1>1. /\ PublicationTypes /\ command[w] \in CommandType /\ CommandKnows(command[w])
      /\ p \in LeafPaths /\ style \in {"stage", "slice", "protocol"} /\ UNCHANGED <<style, leaf>>
      /\ command[w].at = "install" /\ LeafThere(p)
  BY PublicationAssumption DEF PublicationInv, PublicationTypes, CommandType, NameTaken, AtPath
<1>2. c \in ArtifactSets /\ LastPath' = LastPath /\ LeafPaths' = LeafPaths
  BY <1>1 DEF CommandKnows, LastPath, LeafPaths
<1>3. /\ LeavesStand /\ RootBound' /\ SidecarsFollow'
      /\ leaf' \in [LeafPaths -> [bytes : LeafBytes, twice : BOOLEAN]]
  BY <1>1, <1>2 DEF LeavesStand, PublicationInv, PublicationTypes, RootBound, SidecarsFollow, LeafThere
<1>4. CASE AfterFile(w, p) /\ (LeafReadable(p, c) \/ style = "stage")
  <2>1. LeafReadable(p, c)' \/ (style = "stage" /\ LeafThere(p)')
    BY <1>1, <1>4 DEF LeafReadable, LeafThere
  <2>2. PICK d \in CommandType : /\ command' = [command EXCEPT ![w] = d]
                                 /\ d.at # "refused" /\ CommandKnows(d)'
    BY <1>1, <1>2, <1>3, <1>4, <2>1, PassedFile
  <2> QED BY <1>3, <2>2, CommandSteps
<1>5. CASE RefuseCommand(w) /\ ~LeafReadable(p, c) /\ style # "protocol"
  <2>1. Cause(w)
    BY <1>1, <1>5 DEF Cause, Conflicts, LeafReadable
  <2> QED BY <1>1, <1>5, <2>1, Refusal
<1>6. CASE Proceed(w, "converge", 1) /\ style = "protocol"
  <2>1. 1 \in LeafPaths
    BY <1>1, PathFacts DEF PublicationTypes
  <2>2. PICK d \in CommandType : /\ command' = [command EXCEPT ![w] = d]
                                 /\ d.at = "converge" /\ d.path = 1 /\ d.wants = c
    BY <1>6, <2>1, CommandNames, ProceedsTo
  <2>3. CommandKnows(d)
    BY <1>2, <1>6, <2>2 DEF CommandKnows, BehindIs
  <2> QED BY <1>1, <2>2, <2>3, CommandMoves
<1> QED BY <1>1, <1>4, <1>5, <1>6 DEF NameTaken

LEMMA UnlinkStagingStep ==
    ASSUME PublicationInv, NEW w \in Publishers, UnlinkStaging(w) PROVE PublicationDone
<1> PICK p : p = command[w].path
  OBVIOUS
<1> PICK c : c = command[w].wants
  OBVIOUS
<1>1. /\ PublicationTypes /\ command[w] \in CommandType /\ CommandKnows(command[w])
      /\ p \in LeafPaths /\ UNCHANGED style
      /\ command[w].at \in {"unlink", "settle"} /\ leaf' = [leaf EXCEPT ![p].twice = FALSE]
  BY DEF PublicationInv, PublicationTypes, CommandType, UnlinkStaging
<1>2. c \in ArtifactSets /\ leaf[p].bytes = WrittenBy[c][p]
  BY <1>1 DEF CommandKnows
<1>3. /\ LeavesStand /\ RootBound' /\ SidecarsFollow'
      /\ leaf' \in [LeafPaths -> [bytes : LeafBytes, twice : BOOLEAN]]
      /\ leaf'[p].bytes = leaf[p].bytes /\ ~leaf'[p].twice
  BY <1>1, LeafFrame
<1>4. CASE AfterFile(w, p) /\ command[w].at = "unlink"
  <2>1. LeafReadable(p, c)'
    BY <1>2, <1>3 DEF LeafReadable
  <2>2. PICK d \in CommandType : /\ command' = [command EXCEPT ![w] = d]
                                 /\ d.at # "refused" /\ CommandKnows(d)'
    BY <1>1, <1>2, <1>3, <1>4, <2>1, PassedFile
  <2> QED BY <1>3, <2>2, CommandSteps
<1>5. CASE Proceed(w, "converge", p) /\ command[w].at = "settle"
  <2>1. PICK d \in CommandType : /\ command' = [command EXCEPT ![w] = d]
                                 /\ d.at = "converge" /\ d.path = p /\ d.wants = c
    BY <1>1, <1>5, CommandNames, ProceedsTo
  <2>2. CommandKnows(d)
    BY <1>1, <1>2, <1>5, <2>1 DEF CommandKnows
  <2>3. CommandKnows(d)'
    BY <1>1, <1>3, <2>2, CommandStands
  <2> QED BY <1>3, <2>1, <2>3, CommandSteps
<1> QED BY <1>1, <1>4, <1>5 DEF UnlinkStaging, AtPath

LEMMA ConvergeStep ==
    ASSUME PublicationInv, NEW w \in Publishers, Converge(w) PROVE PublicationDone
<1> PICK p : p = command[w].path
  OBVIOUS
<1> PICK c : c = command[w].wants
  OBVIOUS
<1>1. /\ PublicationTypes /\ command[w] \in CommandType /\ CommandKnows(command[w])
      /\ p \in LeafPaths /\ UNCHANGED style
      /\ command[w].at = "converge" /\ leaf' = [leaf EXCEPT ![p].twice = FALSE] /\ LeafThere(p)
  BY DEF PublicationInv, PublicationTypes, CommandType, Converge, AtPath
<1>2. c \in ArtifactSets
  BY <1>1 DEF CommandKnows
<1>3. /\ LeavesStand /\ RootBound' /\ SidecarsFollow'
      /\ leaf' \in [LeafPaths -> [bytes : LeafBytes, twice : BOOLEAN]]
      /\ leaf'[p].bytes = leaf[p].bytes /\ ~leaf'[p].twice
  BY <1>1, LeafFrame
<1>4. CASE leaf[p].bytes = WrittenBy[c][p]
  <2>1. LeafReadable(p, c)' /\ AfterFile(w, p)
    BY <1>3, <1>4 DEF LeafReadable, Converge
  <2>2. PICK d \in CommandType : /\ command' = [command EXCEPT ![w] = d]
                                 /\ d.at # "refused" /\ CommandKnows(d)'
    BY <1>1, <1>2, <1>3, <2>1, PassedFile
  <2> QED BY <1>3, <2>2, CommandSteps
<1>5. CASE leaf[p].bytes # WrittenBy[c][p]
  <2>1. RefuseCommand(w) /\ Cause(w)
    BY <1>1, <1>5 DEF Converge, Cause, Conflicts
  <2>2. PICK d \in CommandType : /\ command' = [command EXCEPT ![w] = d]
                                 /\ d.at = "refused" /\ d.wants = c
    BY <1>1, <2>1, CommandNames, ProceedsTo DEF RefuseCommand
  <2>3. CommandKnows(d)'
    BY <1>2, <2>2 DEF CommandKnows
  <2> QED BY <1>3, <2>1, <2>2, <2>3, CommandSteps
<1> QED BY <1>4, <1>5

LEMMA PublicationStep == PublicationInv /\ [PublicationNext]_publicationVars => PublicationDone
<1> SUFFICES ASSUME PublicationInv, [PublicationNext]_publicationVars PROVE PublicationDone
  OBVIOUS
<1>1. CASE UNCHANGED publicationVars
  <2>1. LeafPaths' = LeafPaths /\ LastPath' = LastPath
    BY <1>1 DEF publicationVars, LeafPaths, LastPath
  <2>2. PublicationInv'
    BY <1>1, <2>1 DEF publicationVars, PublicationInv, PublicationTypes, CommandType, RootBound,
       SidecarsFollow, LeafThere, CommandKnows, BehindIs, LeafReadable
  <2>3. RefusedForConflict
    BY <1>1 DEF publicationVars, RefusedForConflict
  <2> QED BY <2>2, <2>3 DEF PublicationDone
<1>2. ASSUME NEW w \in Publishers, NEW c \in ArtifactSets, Begin(w, c) PROVE PublicationDone
  BY <1>2, BeginStep
<1>3. ASSUME NEW w \in Publishers,
             \/ Preflight(w) \/ CheckLeaf(w) \/ Link(w) \/ NameTaken(w) \/ UnlinkStaging(w)
             \/ Converge(w) \/ Confirm(w) \/ LoadAuthority(w) \/ Killed(w)
      PROVE  PublicationDone
  BY <1>3, LookStep, LinkStep, TakenStep, UnlinkStagingStep, ConvergeStep
<1> QED BY <1>1, <1>2, <1>3 DEF PublicationNext

LEMMA PublicationIsSound == PublicationInv => PublicationSound
<1> SUFFICES ASSUME PublicationInv PROVE PublicationSound
  OBVIOUS
<1>1. /\ style \in Styles /\ LastPath \in Nat /\ LastPath >= 2 /\ LastPath <= 2 * SetSize
      /\ LeafPaths = 1 .. LastPath /\ LastPath - 1 \in LeafPaths
      /\ \A p \in LeafPaths : p \in 1 .. 2 * SetSize
  BY PathFacts DEF PublicationInv, PublicationTypes
<1>2. RootComesLast
  <2>1. SUFFICES ASSUME NEW c \in ArtifactSets, leaf[LastPath - 1].bytes = WrittenBy[c][LastPath - 1]
                 PROVE  \A p \in 1 .. LastPath - 1 : leaf[p].bytes = WrittenBy[c][p]
    BY DEF RootComesLast
  <2>2. WrittenBy[c][LastPath - 1] # NoBytes
    BY <1>1, PublicationAssumption
  <2>3. PICK d \in ArtifactSets : \A p \in 1 .. LastPath - 1 : leaf[p].bytes = WrittenBy[d][p]
    BY <2>1, <2>2 DEF PublicationInv, RootBound, LeafThere
  <2>4. LastPath - 1 \in 1 .. LastPath - 1
    BY <1>1
  <2>5. WrittenBy[c][LastPath - 1] = WrittenBy[d][LastPath - 1]
    BY <2>1, <2>3, <2>4
  <2>6. \A p \in 1 .. LastPath - 1 : WrittenBy[c][p] = WrittenBy[d][p]
    <3>1. CASE style = "protocol"
      <4>1. LastPath = 2
        BY <3>1 DEF LastPath
      <4>2. \A p \in 1 .. LastPath - 1 : p = LastPath - 1
        BY <4>1
      <4> QED BY <2>5, <4>2
    <3>2. CASE style # "protocol"
      <4>1. LastPath = 2 * SetSize
        BY <3>2 DEF LastPath
      <4> QED BY <2>5, <4>1, PublicationAssumption
    <3> QED BY <3>1, <3>2
  <2> QED BY <2>3, <2>6
<1>3. PublishedStands
  BY DEF PublicationInv, PublishedStands, CommandKnows
<1>4. SidecarsMatch
  BY DEF PublicationInv, SidecarsMatch, SidecarsFollow, Odd
<1> QED BY <1>2, <1>3, <1>4 DEF PublicationSound

\* For any number of artifacts, candidates and publishers, whatever kills and
\* retries come in between: the root of a set is linked after all of its other
\* files, a linked file keeps its bytes, a sidecar belongs to its artifact, and
\* a command is refused only for a conflict or for a link left by another.
THEOREM PublicationsStaySound == LibrarySpec => PublicationsHold
<1> DEFINE Inv == scenario = "publication" => PublicationInv
<1>1. LibraryInit => Inv
  BY PublicationStart DEF LibraryInit
<1>2. Inv /\ [LibraryNext]_libraryVars => Inv'
  BY LibrarySteps, PublicationStep DEF PublicationDone
<1>3. Inv => (scenario = "publication" => PublicationSound)
  BY PublicationIsSound
<1>4. Inv /\ [LibraryNext]_libraryVars => [scenario = "publication" => RefusedForConflict]_publicationVars
  BY LibrarySteps, PublicationStep DEF PublicationDone
<1> QED BY <1>1, <1>2, <1>3, <1>4, PTL DEF LibrarySpec, libraryVars, PublicationsHold

----------------------------------------------------------------------------
(***************************************************************************)
(* The seals.  The files of a stage come one after the other, each with    *)
(* the text of the one before it, and stay as they are; what a command has *)
(* checked on its way therefore still holds when it writes.                *)
(***************************************************************************)

SheetTexts == LabelTexts \cup {NoLabels}
ClerkStates == {"idle", "read", "labels", "request", "match", "signoff", "preflight",
                "body", "seal", "load", "sealed"}
ClerkType == [does : {"none", "prepare", "seal", "verify"}, stage : Stages, at : ClerkStates,
              text : SheetTexts]

SealTypes ==
    /\ policy \in [registered : BOOLEAN, current : BOOLEAN]
    /\ file \in [Stages -> [StageFiles -> SheetTexts]]
    /\ signature \in [Stages -> SheetTexts]
    /\ clerk \in [Clerks -> ClerkType]

\* What publishing a stage rests on.
Grounded(s) == policy.registered /\ (s = "relations" => SealedConcepts)
StageOrdered(s) ==
    /\ file[s]["request"] # NoLabels => file[s]["labels"] = file[s]["request"]
    /\ signature[s] # NoLabels => signature[s] = file[s]["request"]
    /\ file[s]["body"] # NoLabels => /\ file[s]["request"] = file[s]["body"]
                                     /\ signature[s] = file[s]["body"] /\ Grounded(s)
    /\ file[s]["seal"] # NoLabels => file[s]["body"] = file[s]["seal"]

ClerkKnows(c) ==
    /\ c.at \in {"labels", "request", "match", "signoff", "preflight", "body", "seal", "load"} =>
          c.text \in LabelTexts
    /\ c.at \in {"request", "signoff", "preflight", "body", "seal", "load"} =>
          file[c.stage]["labels"] = c.text
    /\ c.at \in {"signoff", "preflight", "body", "seal", "load"} => file[c.stage]["request"] = c.text
    /\ c.at \in {"preflight", "body", "seal", "load"} => signature[c.stage] = c.text
    /\ c.at \in {"body", "seal", "load"} => Grounded(c.stage)
    /\ c.at \in {"seal", "load"} => file[c.stage]["body"] = c.text
    /\ c.at = "load" => file[c.stage]["seal"] = c.text
    /\ c.at = "sealed" => Sealed(c.stage) /\ file[c.stage]["seal"] = c.text

SealInv == /\ SealTypes
           /\ \A s \in Stages : StageOrdered(s)
           /\ \A k \in Clerks : ClerkKnows(clerk[k])

IdleClerk == [does |-> "none", stage |-> "concepts", at |-> "idle", text |-> NoLabels]

LEMMA SealStart == SealInit => SealInv
<1> SUFFICES ASSUME SealInit PROVE SealInv
  OBVIOUS
<1>1. IdleClerk \in ClerkType
  BY DEF IdleClerk, ClerkType, ClerkStates, Stages, SheetTexts
<1>2. SealTypes
  BY <1>1 DEF SealInit, SealTypes, SheetTexts, IdleClerk
<1>3. \A s \in Stages, x \in StageFiles : file[s][x] = NoLabels /\ signature[s] = NoLabels
  BY DEF SealInit
<1>4. \A s \in Stages : StageOrdered(s)
  BY <1>3 DEF StageOrdered, StageFiles
<1>5. \A k \in Clerks : ClerkKnows(clerk[k])
  BY DEF SealInit, ClerkKnows
<1> QED BY <1>2, <1>4, <1>5 DEF SealInv

\* What was written, signed or registered stays.
Stands ==
    /\ policy.registered => policy'.registered
    /\ \A s \in Stages, x \in StageFiles : file[s][x] # NoLabels => file'[s][x] = file[s][x]
    /\ \A s \in Stages : signature[s] # NoLabels => signature'[s] = signature[s]

LEMMA SealedStands ==
    ASSUME SealTypes, Stands
    PROVE  \A s \in Stages : /\ Grounded(s) => Grounded(s)'
                             /\ Sealed(s) => Sealed(s)' /\ file'[s]["seal"] = file[s]["seal"]
  BY DEF SealTypes, Stands, Grounded, Sealed, SealedConcepts, SealedRelations, HistoricalPolicy,
     Stages, StageFiles

LEMMA KnowledgeStands ==
    ASSUME SealTypes, Stands, NEW c \in ClerkType, ClerkKnows(c)
    PROVE  ClerkKnows(c)'
<1>1. \A t \in LabelTexts : t # NoLabels
  BY SealAssumption
<1>2. c.stage \in Stages
  BY DEF ClerkType
<1>3. /\ Grounded(c.stage) => Grounded(c.stage)'
      /\ Sealed(c.stage) => Sealed(c.stage)' /\ file'[c.stage]["seal"] = file[c.stage]["seal"]
  BY <1>2, SealedStands
<1>4. \A x \in StageFiles : file[c.stage][x] # NoLabels => file'[c.stage][x] = file[c.stage][x]
  BY <1>2 DEF Stands
<1>5. signature[c.stage] # NoLabels => signature'[c.stage] = signature[c.stage]
  BY <1>2 DEF Stands
<1> QED BY <1>1, <1>3, <1>4, <1>5 DEF ClerkKnows, StageFiles

\* A step of one command.
LEMMA ClerkSteps ==
    ASSUME SealInv, Stands, NEW k \in Clerks, NEW c \in ClerkType, clerk' = [clerk EXCEPT ![k] = c],
           policy' \in [registered : BOOLEAN, current : BOOLEAN],
           file' \in [Stages -> [StageFiles -> SheetTexts]], signature' \in [Stages -> SheetTexts],
           \A s \in Stages : StageOrdered(s)', ClerkKnows(c)'
    PROVE  SealInv'
<1>1. SealTypes'
  BY DEF SealTypes, SealInv
<1>2. ASSUME NEW j \in Clerks PROVE ClerkKnows(clerk[j])'
  <2>1. clerk'[j] = IF j = k THEN c ELSE clerk[j]
    BY DEF SealInv, SealTypes
  <2>2. CASE j = k
    BY <2>1, <2>2 DEF ClerkKnows
  <2>3. CASE j # k
    <3>1. clerk[j] \in ClerkType /\ ClerkKnows(clerk[j]) /\ SealTypes
      BY DEF SealInv, SealTypes
    <3>2. \A d \in ClerkType : ClerkKnows(d) => ClerkKnows(d)'
      BY <3>1, KnowledgeStands
    <3> HIDE DEF Stands
    <3> QED BY <2>1, <2>3, <3>1, <3>2 DEF ClerkKnows
  <2> QED BY <2>2, <2>3
<1> QED BY <1>1, <1>2 DEF SealInv

SealDone == SealInv' /\ Stands

LEMMA Unwritten ==
    ASSUME SealInv, UNCHANGED <<policy, file, signature>>
    PROVE  /\ Stands /\ \A s \in Stages : StageOrdered(s)'
           /\ policy' \in [registered : BOOLEAN, current : BOOLEAN]
           /\ file' \in [Stages -> [StageFiles -> SheetTexts]] /\ signature' \in [Stages -> SheetTexts]
<1>1. /\ Stands
      /\ policy' \in [registered : BOOLEAN, current : BOOLEAN]
      /\ file' \in [Stages -> [StageFiles -> SheetTexts]] /\ signature' \in [Stages -> SheetTexts]
  BY DEF SealInv, SealTypes, Stands
<1>2. \A s \in Stages : StageOrdered(s)'
  BY DEF SealInv, StageOrdered, Grounded, SealedConcepts, HistoricalPolicy
<1> QED BY <1>1, <1>2

LEMMA ClerkMoves ==
    ASSUME SealInv, NEW k \in Clerks, NEW c \in ClerkType, clerk' = [clerk EXCEPT ![k] = c],
           UNCHANGED <<policy, file, signature>>, ClerkKnows(c)
    PROVE  SealDone
<1>1. ClerkKnows(c)'
  BY Unwritten, KnowledgeStands DEF SealInv
<1> QED BY <1>1, Unwritten, ClerkSteps DEF SealDone

LEMMA ClerkStops ==
    ASSUME SealInv, NEW k \in Clerks, Stop(k), UNCHANGED <<policy, file, signature>>
    PROVE  SealDone
<1>1. IdleClerk \in ClerkType /\ ClerkKnows(IdleClerk) /\ clerk' = [clerk EXCEPT ![k] = IdleClerk]
  BY DEF IdleClerk, ClerkType, ClerkStates, Stages, SheetTexts, ClerkKnows, Stop
<1> QED BY <1>1, ClerkMoves

LEMMA NowAt ==
    ASSUME SealInv, NEW k \in Clerks, NEW at \in ClerkStates, Now(k, at)
    PROVE  LET c == [clerk[k] EXCEPT !.at = at]
           IN  /\ c \in ClerkType /\ clerk' = [clerk EXCEPT ![k] = c]
               /\ c.at = at /\ c.stage = clerk[k].stage /\ c.text = clerk[k].text
  BY DEF SealInv, SealTypes, ClerkType, Now

\* The maintainer signs what was frozen, registers or changes the policy, edits.
LEMMA MaintainerStep ==
    ASSUME SealInv, UNCHANGED clerk,
           \/ RegisterPolicy \/ ChangePolicy
           \/ \E s \in Stages : Sign(s) \/ \E t \in LabelTexts : FillSheet(s, t)
    PROVE  SealDone
<1> USE DEF SealInv
<1>1. file' = file
  BY DEF RegisterPolicy, ChangePolicy, Sign, FillSheet
<1>2. CASE RegisterPolicy \/ ChangePolicy \/ \E s \in Stages, t \in LabelTexts : FillSheet(s, t)
  <2>1. /\ signature' = signature
        /\ policy.registered => policy'.registered
        /\ policy' \in [registered : BOOLEAN, current : BOOLEAN]
    <3>1. CASE RegisterPolicy
      BY <3>1 DEF RegisterPolicy
    <3>2. CASE ChangePolicy
      BY <3>2 DEF ChangePolicy, SealTypes
    <3>3. CASE \E s \in Stages, t \in LabelTexts : FillSheet(s, t)
      BY <3>3 DEF FillSheet, SealTypes
    <3> QED BY <1>2, <3>1, <3>2, <3>3
  <2>2. Stands /\ SealTypes'
    <3>1. Stands
      BY <1>1, <2>1 DEF Stands
    <3>2. SealTypes'
      BY <1>1, <2>1 DEF SealTypes
    <3> QED BY <3>1, <3>2
  <2>3. \A s \in Stages : Grounded(s) => Grounded(s)'
    BY <2>2, SealedStands
  <2>4. ASSUME NEW s \in Stages PROVE StageOrdered(s)'
    <3>1. StageOrdered(s) /\ (Grounded(s) => Grounded(s)')
      BY <2>3
    <3> QED BY <1>1, <2>1, <3>1 DEF StageOrdered
  <2>5. \A k \in Clerks : clerk[k] \in ClerkType /\ ClerkKnows(clerk[k])
    BY DEF SealTypes
  <2>6. \A c \in ClerkType : ClerkKnows(c) => ClerkKnows(c)'
    BY <2>2, KnowledgeStands
  <2>7. \A k \in Clerks : ClerkKnows(clerk[k])'
    BY <2>5, <2>6 DEF ClerkKnows
  <2> QED BY <2>2, <2>4, <2>7 DEF SealDone
<1>3. ASSUME NEW s \in Stages, Sign(s) PROVE SealDone
  <2>1. signature[s] = NoLabels /\ file[s]["request"] # NoLabels
    BY <1>3 DEF Sign, StageOrdered
  <2>2. /\ policy' = policy /\ signature' \in [Stages -> SheetTexts]
        /\ \A r \in Stages : signature'[r] = IF r = s THEN file[s]["request"] ELSE signature[r]
    BY <1>3 DEF Sign, SealTypes, StageFiles
  <2>3. Stands /\ SealTypes'
    BY <1>1, <2>1, <2>2 DEF Stands, SealTypes
  <2>4. \A r \in Stages : Grounded(r) => Grounded(r)'
    BY <2>3, SealedStands
  <2>5. ASSUME NEW r \in Stages PROVE StageOrdered(r)'
    <3>1. StageOrdered(r)
      OBVIOUS
    <3>2. file[r]["body"] # NoLabels => file[r]["request"] = file[r]["body"]
      BY <3>1 DEF StageOrdered
    <3> QED BY <1>1, <2>1, <2>2, <2>4, <3>1, <3>2 DEF StageOrdered
  <2>6. \A k \in Clerks : clerk[k] \in ClerkType /\ ClerkKnows(clerk[k])
    BY DEF SealTypes
  <2>7. \A c \in ClerkType : ClerkKnows(c) => ClerkKnows(c)'
    BY <2>3, KnowledgeStands
  <2>8. \A k \in Clerks : ClerkKnows(clerk[k])'
    BY <2>6, <2>7 DEF ClerkKnows
  <2> QED BY <2>3, <2>5, <2>8 DEF SealDone
<1> QED BY <1>2, <1>3

\* A command that writes nothing.
LEMMA ReadingStep ==
    ASSUME SealInv, NEW k \in Clerks,
           \/ \E s \in Stages : \/ Verify(k, s)
                               \/ \E d \in {"prepare", "seal"} : StartCommand(k, d, s)
           \/ ReadSheet(k) \/ MatchFrozen(k) \/ SignOff(k) \/ PreflightStage(k)
           \/ ReportSealed(k) \/ EndCommand(k)
    PROVE  SealDone
<1>1. UNCHANGED <<policy, file, signature>>
  BY DEF Verify, StartCommand, ReadSheet, MatchFrozen, SignOff, PreflightStage, ReportSealed,
         EndCommand
<1>2. clerk[k] \in ClerkType /\ ClerkKnows(clerk[k]) /\ SealTypes
  BY DEF SealInv, SealTypes
<1>3. CASE Stop(k)
  BY <1>1, <1>3, ClerkStops
<1>4. ASSUME NEW s \in Stages, Verify(k, s) PROVE SealDone
  <2> DEFINE c == [does |-> "verify", stage |-> s, at |-> "sealed", text |-> file[s]["seal"]]
  <2>1. c \in ClerkType /\ clerk' = [clerk EXCEPT ![k] = c]
    BY <1>2, <1>4 DEF Verify, ClerkType, ClerkStates, SealTypes, StageFiles
  <2>2. ClerkKnows(c)
    BY <1>4 DEF Verify, ClerkKnows
  <2> QED BY <1>1, <2>1, <2>2, ClerkMoves
<1>5. ASSUME NEW s \in Stages, NEW d \in {"prepare", "seal"}, StartCommand(k, d, s) PROVE SealDone
  <2> DEFINE c == [does |-> d, stage |-> s, at |-> "read", text |-> NoLabels]
  <2>1. c \in ClerkType /\ clerk' = [clerk EXCEPT ![k] = c]
    BY <1>5 DEF StartCommand, ClerkType, ClerkStates, SheetTexts
  <2>2. ClerkKnows(c)
    BY DEF ClerkKnows
  <2> QED BY <1>1, <2>1, <2>2, ClerkMoves
<1>6. CASE ReadSheet(k) /\ ~Stop(k)
  <2> DEFINE at == IF clerk[k].does = "prepare" THEN "labels" ELSE "match"
             t == sheet[clerk[k].stage]
             c == [[clerk[k] EXCEPT !.text = t] EXCEPT !.at = at]
  <2>1. t \in LabelTexts /\ clerk' = [clerk EXCEPT ![k].text = t, ![k].at = at]
    BY <1>6 DEF ReadSheet, Resolves, Stage
  <2> HIDE DEF t
  <2>2. /\ c \in ClerkType /\ c.at \in {"labels", "match"} /\ c.text = t
        /\ clerk' = [clerk EXCEPT ![k] = c]
    BY <1>2, <2>1 DEF ClerkType, ClerkStates, SheetTexts, SealTypes
  <2>3. ClerkKnows(c)
    BY <2>1, <2>2 DEF ClerkKnows
  <2> QED BY <1>1, <2>2, <2>3, ClerkMoves
<1>7. CASE MatchFrozen(k) /\ ~Stop(k)
  <2> DEFINE c == [clerk[k] EXCEPT !.at = "signoff"]
  <2>1. /\ c \in ClerkType /\ clerk' = [clerk EXCEPT ![k] = c]
        /\ c.at = "signoff" /\ c.stage = clerk[k].stage /\ c.text = clerk[k].text
    BY <1>7, NowAt DEF MatchFrozen, ClerkStates
  <2>2. clerk[k].at = "match" /\ \A x \in {"labels", "request"} : file[clerk[k].stage][x] = clerk[k].text
    BY <1>7 DEF MatchFrozen, Stage
  <2>3. ClerkKnows(c)
    BY <1>2, <2>1, <2>2 DEF ClerkKnows
  <2> QED BY <1>1, <2>1, <2>3, ClerkMoves
<1>8. CASE SignOff(k) /\ ~Stop(k)
  <2> DEFINE c == [clerk[k] EXCEPT !.at = "preflight"]
  <2>1. /\ c \in ClerkType /\ clerk' = [clerk EXCEPT ![k] = c]
        /\ c.at = "preflight" /\ c.stage = clerk[k].stage /\ c.text = clerk[k].text
    BY <1>8, NowAt DEF SignOff, ClerkStates
  <2>2. clerk[k].at = "signoff" /\ signature[clerk[k].stage] = clerk[k].text
    BY <1>8 DEF SignOff, Stage, SignedRequest
  <2>3. ClerkKnows(c)
    BY <1>2, <2>1, <2>2 DEF ClerkKnows
  <2> QED BY <1>1, <2>1, <2>3, ClerkMoves
<1>9. CASE PreflightStage(k) /\ ~Stop(k)
  <2> DEFINE c == [clerk[k] EXCEPT !.at = "body"]
  <2>1. /\ c \in ClerkType /\ clerk' = [clerk EXCEPT ![k] = c]
        /\ c.at = "body" /\ c.stage = clerk[k].stage /\ c.text = clerk[k].text
    BY <1>9, NowAt DEF PreflightStage, ClerkStates
  <2>2. clerk[k].at = "preflight" /\ Grounded(clerk[k].stage)
    BY <1>9 DEF PreflightStage, Stage, StageReady, ActivePolicy, Grounded
  <2>3. ClerkKnows(c)
    BY <1>2, <2>1, <2>2 DEF ClerkKnows
  <2> QED BY <1>1, <2>1, <2>3, ClerkMoves
<1>10. CASE ReportSealed(k) /\ ~Stop(k)
  <2> DEFINE c == [clerk[k] EXCEPT !.at = "sealed"]
  <2>1. /\ c \in ClerkType /\ clerk' = [clerk EXCEPT ![k] = c]
        /\ c.at = "sealed" /\ c.stage = clerk[k].stage /\ c.text = clerk[k].text
    BY <1>10, NowAt DEF ReportSealed, ClerkStates
  <2>2. clerk[k].at = "load" /\ Sealed(clerk[k].stage)
    BY <1>10 DEF ReportSealed, Stage
  <2>3. ClerkKnows(c)
    BY <1>2, <2>1, <2>2 DEF ClerkKnows
  <2> QED BY <1>1, <2>1, <2>3, ClerkMoves
<1> QED BY <1>3, <1>4, <1>5, <1>6, <1>7, <1>8, <1>9, <1>10 DEF EndCommand

\* One file more, in order: nothing that was there changes.
LEMMA PutStep ==
    ASSUME SealInv, NEW k \in Clerks, NEW x \in StageFiles, NEW at \in ClerkStates,
           clerk[k].text \in LabelTexts, Takes(clerk[k].stage, x, clerk[k].text), Put(k, x),
           UNCHANGED <<policy, signature>>,
           x \in {"request", "body"} => file[clerk[k].stage]["labels"] = clerk[k].text,
           x = "body" => /\ file[clerk[k].stage]["request"] = clerk[k].text
                         /\ signature[clerk[k].stage] = clerk[k].text
                         /\ Grounded(clerk[k].stage),
           x = "seal" => file[clerk[k].stage]["body"] = clerk[k].text
    PROVE  /\ Stands /\ \A s \in Stages : StageOrdered(s)'
           /\ file' \in [Stages -> [StageFiles -> SheetTexts]]
           /\ file'[clerk[k].stage][x] = clerk[k].text
<1> DEFINE r == clerk[k].stage
           t == clerk[k].text
<1>1. SealTypes /\ r \in Stages /\ t \in SheetTexts /\ t # NoLabels
  BY SealAssumption DEF SealInv, SealTypes, ClerkType, SheetTexts
<1>2. file' = [file EXCEPT ![r][x] = t] /\ file[r][x] \in {NoLabels, t}
  BY DEF Put, Stage, Takes
<1> HIDE DEF r, t
<1>3. /\ file' \in [Stages -> [StageFiles -> SheetTexts]]
      /\ \A s \in Stages, y \in StageFiles :
            file'[s][y] = IF s = r /\ y = x THEN t ELSE file[s][y]
  BY <1>1, <1>2 DEF SealTypes
<1>4. Stands
  BY <1>1, <1>2, <1>3 DEF Stands, SealTypes
<1>5. \A s \in Stages : Grounded(s) => Grounded(s)'
  BY <1>1, <1>4, SealedStands
<1>6. ASSUME NEW s \in Stages PROVE StageOrdered(s)'
  <2>1. StageOrdered(s) /\ (Grounded(s) => Grounded(s)')
    BY <1>5 DEF SealInv
  <2>2. \A y \in StageFiles : file'[s][y] = IF s = r /\ y = x THEN t ELSE file[s][y]
    BY <1>3
  <2>3. CASE s # r
    BY <2>1, <2>2, <2>3 DEF StageOrdered, StageFiles
  <2>4. CASE s = r
    <3>1. /\ x \in {"request", "body"} => file[s]["labels"] = t
          /\ x = "body" => file[s]["request"] = t /\ signature[s] = t /\ Grounded(s)
          /\ x = "seal" => file[s]["body"] = t
      BY <2>4 DEF r, t
    <3>2. /\ file'[s]["labels"] = IF x = "labels" THEN t ELSE file[s]["labels"]
          /\ file'[s]["request"] = IF x = "request" THEN t ELSE file[s]["request"]
          /\ file'[s]["body"] = IF x = "body" THEN t ELSE file[s]["body"]
          /\ file'[s]["seal"] = IF x = "seal" THEN t ELSE file[s]["seal"]
          /\ file[s][x] \in {NoLabels, t} /\ signature'[s] = signature[s]
      BY <1>2, <2>2, <2>4 DEF StageFiles
    <3>3. x \in {"labels", "request", "body", "seal"}
      BY DEF StageFiles
    <3> QED BY <1>1, <2>1, <3>1, <3>2, <3>3 DEF StageOrdered
  <2> QED BY <2>3, <2>4
<1>7. file'[r][x] = t
  BY <1>1, <1>3
<1> QED BY <1>3, <1>4, <1>6, <1>7 DEF r, t

LEMMA WritingStep ==
    ASSUME SealInv, NEW k \in Clerks,
           FreezeLabels(k) \/ FreezeRequest(k) \/ PublishBody(k) \/ PublishSeal(k)
    PROVE  SealDone
<1>1. clerk[k] \in ClerkType /\ ClerkKnows(clerk[k]) /\ SealTypes
  BY DEF SealInv, SealTypes
<1>2. UNCHANGED <<policy, signature>>
  BY DEF FreezeLabels, FreezeRequest, PublishBody, PublishSeal, Step
<1>3. CASE Stop(k) /\ UNCHANGED file
  BY <1>2, <1>3, ClerkStops
<1>4. CASE FreezeLabels(k) /\ ~(Stop(k) /\ UNCHANGED file)
  <2> DEFINE c == [clerk[k] EXCEPT !.at = "request"]
  <2>1. /\ clerk[k].at = "labels" /\ Now(k, "request") /\ Put(k, "labels")
        /\ Takes(clerk[k].stage, "labels", clerk[k].text)
    BY <1>4 DEF FreezeLabels, Step, Stage
  <2>2. /\ c \in ClerkType /\ clerk' = [clerk EXCEPT ![k] = c]
        /\ c.at = "request" /\ c.stage = clerk[k].stage /\ c.text = clerk[k].text
    BY <2>1, NowAt DEF ClerkStates
  <2>3. clerk[k].text \in LabelTexts
    BY <1>1, <2>1 DEF ClerkKnows
  <2>4. /\ Stands /\ \A s \in Stages : StageOrdered(s)'
        /\ file' \in [Stages -> [StageFiles -> SheetTexts]]
        /\ file'[clerk[k].stage]["labels"] = clerk[k].text
    BY <1>2, <2>1, <2>3, PutStep DEF StageFiles, ClerkStates
  <2>5. ClerkKnows(c)'
    BY <2>2, <2>3, <2>4 DEF ClerkKnows
  <2> QED BY <1>1, <1>2, <2>2, <2>4, <2>5, ClerkSteps DEF SealDone, SealTypes
<1>5. CASE FreezeRequest(k) /\ ~(Stop(k) /\ UNCHANGED file)
  <2>1. /\ clerk[k].at = "request" /\ Stop(k) /\ Put(k, "request")
        /\ Takes(clerk[k].stage, "request", clerk[k].text)
    BY <1>5 DEF FreezeRequest, Step, Stage
  <2>2. IdleClerk \in ClerkType /\ clerk' = [clerk EXCEPT ![k] = IdleClerk]
    BY <2>1 DEF IdleClerk, ClerkType, ClerkStates, Stages, SheetTexts, Stop
  <2>3. clerk[k].text \in LabelTexts /\ file[clerk[k].stage]["labels"] = clerk[k].text
    BY <1>1, <2>1 DEF ClerkKnows
  <2>4. /\ Stands /\ \A s \in Stages : StageOrdered(s)'
        /\ file' \in [Stages -> [StageFiles -> SheetTexts]]
    BY <1>2, <2>1, <2>3, PutStep DEF StageFiles, ClerkStates
  <2>5. ClerkKnows(IdleClerk)'
    BY DEF ClerkKnows, IdleClerk
  <2> QED BY <1>1, <1>2, <2>2, <2>4, <2>5, ClerkSteps DEF SealDone, SealTypes
<1>6. CASE PublishBody(k) /\ ~(Stop(k) /\ UNCHANGED file)
  <2> DEFINE c == [clerk[k] EXCEPT !.at = "seal"]
  <2>1. /\ clerk[k].at = "body" /\ Now(k, "seal") /\ Put(k, "body")
        /\ Takes(clerk[k].stage, "body", clerk[k].text)
    BY <1>6 DEF PublishBody, Step, Stage
  <2>2. /\ c \in ClerkType /\ clerk' = [clerk EXCEPT ![k] = c]
        /\ c.at = "seal" /\ c.stage = clerk[k].stage /\ c.text = clerk[k].text
    BY <2>1, NowAt DEF ClerkStates
  <2>3. /\ clerk[k].text \in LabelTexts /\ file[clerk[k].stage]["labels"] = clerk[k].text
        /\ file[clerk[k].stage]["request"] = clerk[k].text
        /\ signature[clerk[k].stage] = clerk[k].text /\ Grounded(clerk[k].stage)
    BY <1>1, <2>1 DEF ClerkKnows
  <2>4. /\ Stands /\ \A s \in Stages : StageOrdered(s)'
        /\ file' \in [Stages -> [StageFiles -> SheetTexts]]
        /\ file'[clerk[k].stage]["body"] = clerk[k].text
    BY <1>2, <2>1, <2>3, PutStep DEF StageFiles, ClerkStates
  <2>5. /\ file'[clerk[k].stage]["labels"] = clerk[k].text
        /\ file'[clerk[k].stage]["request"] = clerk[k].text
        /\ signature'[clerk[k].stage] = clerk[k].text /\ Grounded(clerk[k].stage)'
    <3>1. /\ clerk[k].stage \in Stages /\ clerk[k].text # NoLabels
          /\ file[clerk[k].stage]["labels"] = clerk[k].text
          /\ file[clerk[k].stage]["request"] = clerk[k].text
          /\ signature[clerk[k].stage] = clerk[k].text /\ Grounded(clerk[k].stage)
      BY <1>1, <1>2, <2>1, <2>3, SealAssumption DEF ClerkKnows, ClerkType, SealTypes, SealInv
    <3>2. \A s \in Stages : Grounded(s) => Grounded(s)'
      BY <1>1, <2>4, SealedStands
    <3>3. clerk'[k].stage = clerk[k].stage
      BY <1>1, <2>2 DEF SealTypes, SealInv
    <3> QED BY <2>3, <2>4, <3>1, <3>2, <3>3 DEF Stands, StageFiles
  <2>6. ClerkKnows(c)'
    <3>1. clerk'[k].at = "seal" /\ clerk'[k].stage = clerk[k].stage /\ clerk'[k].text = clerk[k].text
      BY <1>1, <2>2 DEF SealTypes, SealInv
    <3> QED BY <2>3, <2>4, <2>5, <3>1 DEF ClerkKnows
  <2> QED BY <1>1, <1>2, <2>2, <2>4, <2>6, ClerkSteps DEF SealDone, SealTypes
<1>7. CASE PublishSeal(k) /\ ~(Stop(k) /\ UNCHANGED file)
  <2> DEFINE c == [clerk[k] EXCEPT !.at = "load"]
  <2>1. /\ clerk[k].at = "seal" /\ Now(k, "load") /\ Put(k, "seal")
        /\ Takes(clerk[k].stage, "seal", clerk[k].text)
    BY <1>7 DEF PublishSeal, Step, Stage
  <2>2. /\ c \in ClerkType /\ clerk' = [clerk EXCEPT ![k] = c]
        /\ c.at = "load" /\ c.stage = clerk[k].stage /\ c.text = clerk[k].text
    BY <2>1, NowAt DEF ClerkStates
  <2>3. /\ clerk[k].text \in LabelTexts /\ file[clerk[k].stage]["body"] = clerk[k].text
    BY <1>1, <2>1 DEF ClerkKnows
  <2>4. /\ Stands /\ \A s \in Stages : StageOrdered(s)'
        /\ file' \in [Stages -> [StageFiles -> SheetTexts]]
        /\ file'[clerk[k].stage]["seal"] = clerk[k].text
    BY <1>2, <2>1, <2>3, PutStep DEF StageFiles, ClerkStates
  <2>5. /\ file'[clerk[k].stage]["labels"] = clerk[k].text
        /\ file'[clerk[k].stage]["request"] = clerk[k].text
        /\ signature'[clerk[k].stage] = clerk[k].text /\ Grounded(clerk[k].stage)'
        /\ file'[clerk[k].stage]["body"] = clerk[k].text
    <3>1. /\ clerk[k].stage \in Stages /\ clerk[k].text # NoLabels
          /\ file[clerk[k].stage]["labels"] = clerk[k].text
          /\ file[clerk[k].stage]["request"] = clerk[k].text
          /\ signature[clerk[k].stage] = clerk[k].text /\ Grounded(clerk[k].stage)
      BY <1>1, <1>2, <2>1, <2>3, SealAssumption DEF ClerkKnows, ClerkType, SealTypes, SealInv
    <3>2. \A s \in Stages : Grounded(s) => Grounded(s)'
      BY <1>1, <2>4, SealedStands
    <3>3. clerk'[k].stage = clerk[k].stage
      BY <1>1, <2>2 DEF SealTypes, SealInv
    <3> QED BY <2>3, <2>4, <3>1, <3>2, <3>3 DEF Stands, StageFiles
  <2>6. ClerkKnows(c)'
    <3>1. clerk'[k].at = "load" /\ clerk'[k].stage = clerk[k].stage /\ clerk'[k].text = clerk[k].text
      BY <1>1, <2>2 DEF SealTypes, SealInv
    <3> QED BY <2>3, <2>4, <2>5, <3>1 DEF ClerkKnows
  <2> QED BY <1>1, <1>2, <2>2, <2>4, <2>6, ClerkSteps DEF SealDone, SealTypes
<1> QED BY <1>3, <1>4, <1>5, <1>6, <1>7

LEMMA SealStep == SealInv /\ [SealNext]_sealVars => SealDone
<1> SUFFICES ASSUME SealInv, [SealNext]_sealVars PROVE SealDone
  OBVIOUS
<1>1. CASE UNCHANGED sealVars
  <2>1. Stands /\ SealTypes' /\ \A s \in Stages : StageOrdered(s)'
    BY <1>1, Unwritten DEF sealVars, SealInv, SealTypes
  <2>2. \A k \in Clerks : ClerkKnows(clerk[k])'
    BY <1>1, <2>1, KnowledgeStands DEF sealVars, SealInv, SealTypes
  <2> QED BY <2>1, <2>2 DEF SealDone, SealInv
<1>2. CASE \/ RegisterPolicy \/ ChangePolicy
           \/ \E s \in Stages : Sign(s) \/ \E t \in LabelTexts : FillSheet(s, t)
  <2>1. UNCHANGED clerk
    BY <1>2 DEF RegisterPolicy, ChangePolicy, Sign, FillSheet
  <2> QED BY <1>2, <2>1, MaintainerStep
<1>3. ASSUME NEW k \in Clerks, NEW s \in Stages, InitSheet(k, s) PROVE SealDone
  <2>1. UNCHANGED <<policy, file, signature>> /\ clerk' = [clerk EXCEPT ![k] = clerk[k]]
        /\ clerk[k] \in ClerkType /\ ClerkKnows(clerk[k])
    BY <1>3 DEF InitSheet, SealInv, SealTypes
  <2> QED BY <2>1, ClerkMoves
<1>4. ASSUME NEW k \in Clerks,
             \/ \E s \in Stages : \/ Verify(k, s)
                                 \/ \E d \in {"prepare", "seal"} : StartCommand(k, d, s)
             \/ ReadSheet(k) \/ MatchFrozen(k) \/ SignOff(k) \/ PreflightStage(k)
             \/ ReportSealed(k) \/ EndCommand(k)
      PROVE  SealDone
  BY <1>4, ReadingStep
<1>5. ASSUME NEW k \in Clerks,
             FreezeLabels(k) \/ FreezeRequest(k) \/ PublishBody(k) \/ PublishSeal(k)
      PROVE  SealDone
  BY <1>5, WritingStep
<1> QED BY <1>1, <1>2, <1>3, <1>4, <1>5 DEF SealNext

LEMMA SealsAreSound == SealInv => SealsSound
<1> SUFFICES ASSUME SealInv PROVE SealsSound
  OBVIOUS
<1>1. \A s \in Stages : StageOrdered(s)
  BY DEF SealInv
<1>2. SealedWasSigned
  BY <1>1 DEF SealedWasSigned, StageOrdered, StageFiles, Grounded
<1>3. StageOfOneText
  BY <1>1 DEF StageOfOneText, StageOrdered, StageFiles
<1>4. ReportTrue
  BY DEF SealInv, ReportTrue, ClerkKnows, Stage
<1> QED BY <1>2, <1>3, <1>4 DEF SealsSound

LEMMA SealsKept == SealInv /\ [SealNext]_sealVars => SealsStand
  BY SealStep, SealedStands DEF SealDone, SealInv, SealsStand

\* For any clerks, texts and orders of their steps: what is sealed was signed
\* with exactly the text it holds, the files of a stage are of one text, a
\* command says "sealed" only of files that are, and a seal is never undone or
\* changed (human-gold annotation commands).
THEOREM SealsStaySound == LibrarySpec => SealsHold
<1> DEFINE Inv == scenario = "seals" => SealInv
<1>1. LibraryInit => Inv
  BY SealStart DEF LibraryInit
<1>2. Inv /\ [LibraryNext]_libraryVars => Inv'
  BY LibrarySteps, SealStep DEF SealDone
<1>3. Inv => (scenario = "seals" => SealsSound)
  BY SealsAreSound
<1>4. Inv /\ [LibraryNext]_libraryVars => [scenario = "seals" => SealsStand]_sealVars
  BY LibrarySteps, SealsKept
<1> QED BY <1>1, <1>2, <1>3, <1>4, PTL DEF LibrarySpec, libraryVars, SealsHold

----------------------------------------------------------------------------
(***************************************************************************)
(* The experiment folder.  Whoever works in it holds the lock, and from    *)
(* the first episode on knows exactly the questions of episodes.jsonl,     *)
(* which are the first ones of the set; a run that was completed is never  *)
(* worked on again.                                                        *)
(***************************************************************************)

RunnerStates == {"away", "folder", "protocol", "memory", "manifest", "load", "check",
                 "restart", "episode", "save", "complete", "failed"}
RunStates == {"none", "running", "failed", "completed"}
ManifestType == [status : RunStates, done : SUBSET Asked, hashed : BOOLEAN, recovered : BOOLEAN]
RunnerType == [at : RunnerStates, done : SUBSET Asked, hashed : BOOLEAN, cut : BOOLEAN]
FolderType == [there : BOOLEAN, protocol : BOOLEAN, memory : BOOLEAN, manifest : ManifestType,
               lines : Seq(Asked), tail : Asked \cup {"none", "torn"}, metrics : BOOLEAN]

\* The lines are the questions up to a place.
UpTo(lines) == /\ Len(lines) <= Len(Questions)
               /\ \A i \in 1..Len(lines) : lines[i] = Questions[i]

ExperimentTypes == folder \in FolderType /\ locked \in BOOLEAN /\ runner \in [Runners -> RunnerType]
LockHeld == /\ OneRunner
            /\ \A w \in Runners : IF On(w, "away") THEN runner[w] = Away ELSE locked
Ordered(f) ==
    /\ UpTo(f.lines)
    /\ f.tail \in Asked => Len(f.lines) < Len(Questions) /\ f.tail = Questions[Len(f.lines) + 1]
    /\ f.manifest.done \subseteq ToSet(f.lines)
    /\ f.metrics => Len(f.lines) = Len(Questions) /\ f.tail = "none"
    /\ f.manifest.hashed => f.metrics
    /\ f.manifest.status = "completed" => f.manifest.hashed
Knows(r, f) ==
    /\ r.at \in {"folder", "protocol", "memory", "manifest"} =>
          /\ f.lines = <<>> /\ f.tail = "none" /\ f.manifest = NoManifest
          /\ ~f.metrics /\ r.done = {} /\ ~r.hashed
    /\ r.at \in {"check", "restart", "episode", "save", "complete", "failed"} =>
          /\ r.done = ToSet(f.lines) /\ (r.hashed => f.metrics)
    /\ r.at \in {"check", "restart", "episode", "save", "complete"} => f.tail = "none"
    /\ r.at \in {"restart", "episode", "save", "complete", "failed"} =>
          f.manifest.status # "completed"
    /\ r.at = "complete" => f.metrics /\ r.hashed
RunnersKnow == \A w \in Runners : Knows(runner[w], folder)

ExperimentInv == ExperimentTypes /\ LockHeld /\ Ordered(folder) /\ RunnersKnow

LEMMA ExperimentStart == ExperimentInit => ExperimentInv
<1> SUFFICES ASSUME ExperimentInit PROVE ExperimentInv
  OBVIOUS
<1>1. EmptyFolder \in FolderType /\ Away \in RunnerType
  BY DEF EmptyFolder, FolderType, NoManifest, ManifestType, RunStates, Away, RunnerType, RunnerStates
<1>2. Len(Questions) \in Nat
  BY ExperimentAssumption
<1>3. ExperimentTypes
  BY <1>1 DEF ExperimentInit, ExperimentTypes
<1>4. "none" \notin Asked
  BY ExperimentAssumption DEF Asked
<1>5. Ordered(folder)
  BY <1>2, <1>4 DEF ExperimentInit, Ordered, EmptyFolder, UpTo, NoManifest
<1> QED BY <1>1, <1>3, <1>5 DEF ExperimentInit, ExperimentInv, LockHeld, OneRunner, On, RunnersKnow, Knows,
        Away, EmptyFolder

\* The place of the next question.
LEMMA NextInOrder ==
    ASSUME ExperimentInv, NEW w \in Runners, On(w, "episode"), Missed(w) # {}
    PROVE  /\ NextQuestion(w) \in Asked
           /\ Len(folder.lines) + 1 \in 1..Len(Questions)
           /\ NextQuestion(w) = Questions[Len(folder.lines) + 1]
           /\ NextQuestion(w) \notin ToSet(folder.lines)
<1> DEFINE n == Len(folder.lines)
<1>1. /\ Questions \in Seq(Asked) /\ IsInjective(Questions)
      /\ folder.lines \in Seq(Asked) /\ n \in Nat /\ Len(Questions) \in Nat
      /\ DOMAIN Questions = 1..Len(Questions) /\ DOMAIN folder.lines = 1..n
  BY ExperimentAssumption DEF ExperimentInv, ExperimentTypes, FolderType, Asked
<1>2. runner[w].done = ToSet(folder.lines) /\ UpTo(folder.lines)
  BY DEF ExperimentInv, RunnersKnow, Knows, On, Ordered
<1>3. ToSet(folder.lines) = {Questions[i] : i \in 1..n}
  BY <1>1, <1>2 DEF UpTo, ToSet
<1>4. Missed(w) = (n + 1)..Len(Questions)
  <2>1. ASSUME NEW i \in 1..Len(Questions)
        PROVE  Questions[i] \notin ToSet(folder.lines) <=> i > n
    BY <1>1, <1>2, <1>3 DEF IsInjective, UpTo
  <2> QED BY <2>1, <1>1, <1>2 DEF Missed
<1>5. n + 1 <= Len(Questions)
  BY <1>4, <1>1
<1>6. Min(Missed(w)) = n + 1
  BY <1>4, <1>5, <1>1 DEF Min
<1>7. Questions[n + 1] \in Asked
  BY <1>1, <1>5
<1>8. Questions[n + 1] \notin ToSet(folder.lines)
  BY <1>1, <1>2, <1>3, <1>5, SMTT(30) DEF IsInjective, UpTo
<1> QED BY <1>1, <1>5, <1>6, <1>7, <1>8 DEF NextQuestion

\* A line more keeps the order.
LEMMA LineInOrder ==
    ASSUME NEW lines \in Seq(Asked), UpTo(lines), Len(lines) < Len(Questions)
    PROVE  LET more == Append(lines, Questions[Len(lines) + 1])
           IN  /\ more \in Seq(Asked) /\ UpTo(more) /\ Len(more) = Len(lines) + 1
               /\ ToSet(more) = ToSet(lines) \cup {Questions[Len(lines) + 1]}
               /\ IsPrefix(lines, more)
<1> DEFINE q == Questions[Len(lines) + 1]
           more == Append(lines, q)
<1>1. /\ Questions \in Seq(Asked) /\ Len(lines) \in Nat /\ Len(Questions) \in Nat
      /\ Len(lines) + 1 \in 1..Len(Questions)
  BY ExperimentAssumption DEF Asked
<1>2. q \in Asked
  BY <1>1
<1>3. more \in Seq(Asked) /\ Len(more) = Len(lines) + 1
  BY <1>2
<1>4. \A i \in 1..Len(lines) + 1 : more[i] = IF i <= Len(lines) THEN lines[i] ELSE q
  BY <1>1, <1>2
<1>5. UpTo(more)
  BY <1>1, <1>3, <1>4 DEF UpTo
<1>6. ToSet(more) = ToSet(lines) \cup {q}
  <2>1. DOMAIN more = 1..Len(lines) + 1 /\ DOMAIN lines = 1..Len(lines)
    BY <1>3
  <2>2. ToSet(more) \subseteq ToSet(lines) \cup {q}
    BY <2>1, <1>4, <1>1 DEF ToSet
  <2>3. q \in ToSet(more)
    BY <2>1, <1>4, <1>1 DEF ToSet
  <2>4. ToSet(lines) \subseteq ToSet(more)
    BY <2>1, <1>4, <1>1 DEF ToSet
  <2> QED BY <2>2, <2>3, <2>4
<1>7. IsPrefix(lines, more)
  BY <1>1, <1>3, <1>4 DEF IsPrefix
<1> QED BY <1>3, <1>5, <1>6, <1>7

\* A step of the one runner at work, or of the first to come.
LEMMA RunnerSteps ==
    ASSUME ExperimentInv, NEW w \in Runners, NEW r \in RunnerType,
           \A v \in Runners \ {w} : On(v, "away"),
           runner' = [runner EXCEPT ![w] = r],
           folder' \in FolderType, Ordered(folder'), Knows(r, folder'),
           locked' \in BOOLEAN, IF r.at = "away" THEN r = Away ELSE locked'
    PROVE  ExperimentInv'
<1>1. ExperimentTypes'
  BY DEF ExperimentInv, ExperimentTypes
<1>2. \A v \in Runners : runner'[v] = IF v = w THEN r ELSE runner[v]
  BY DEF ExperimentInv, ExperimentTypes
<1>3. LockHeld'
  <2>1. \A v \in Runners \ {w} : runner'[v] = Away /\ On(v, "away")'
    BY <1>2 DEF ExperimentInv, LockHeld, On
  <2>2. runner'[w] = r
    BY <1>2
  <2> QED BY <2>1, <2>2 DEF LockHeld, OneRunner, On
<1>4. RunnersKnow'
  BY <1>2 DEF RunnersKnow, Knows, On
<1> QED BY <1>1, <1>3, <1>4 DEF ExperimentInv

LEMMA OthersAway ==
    ASSUME ExperimentInv, NEW w \in Runners, ~On(w, "away")
    PROVE  /\ \A v \in Runners \ {w} : On(v, "away")
           /\ locked
  BY DEF ExperimentInv, LockHeld, OneRunner

LEMMA Moved ==
    ASSUME ExperimentInv, NEW w \in Runners, NEW at \in RunnerStates, Move(w, at)
    PROVE  LET r == [runner[w] EXCEPT !.at = at]
           IN  /\ r \in RunnerType /\ runner' = [runner EXCEPT ![w] = r]
               /\ r.at = at /\ r.done = runner[w].done /\ r.hashed = runner[w].hashed
               /\ r.cut = runner[w].cut
  BY DEF ExperimentInv, ExperimentTypes, RunnerType, Move

LEMMA AwayKnows == \A f : Away \in RunnerType /\ Away.at = "away" /\ Knows(Away, f)
  BY DEF Away, RunnerType, RunnerStates, Knows

\* The manifest of a runner that knows the folder.
LEMMA ManifestSaved ==
    ASSUME ExperimentInv, NEW w \in Runners, NEW status \in {"running", "failed", "completed"},
           runner[w].at \in {"manifest", "save", "complete", "failed"},
           status = "completed" => runner[w].at = "complete", Save(w, status)
    PROVE  /\ folder' \in FolderType /\ Ordered(folder')
           /\ folder'.lines = folder.lines /\ folder'.tail = folder.tail
           /\ folder'.metrics = folder.metrics /\ folder'.manifest.status = status
<1> DEFINE m == Manifest(w, status)
<1>1. runner[w] \in RunnerType /\ folder \in FolderType /\ folder.manifest \in ManifestType
  BY DEF ExperimentInv, ExperimentTypes, FolderType
<1>2. m \in ManifestType /\ m.status = status /\ m.done = runner[w].done /\ m.hashed = runner[w].hashed
  BY <1>1 DEF Manifest, ManifestType, RunnerType, RunStates
<1>3. /\ folder' \in FolderType /\ folder'.manifest = m /\ folder'.lines = folder.lines
      /\ folder'.tail = folder.tail /\ folder'.metrics = folder.metrics
  BY <1>1, <1>2 DEF Save, FolderType
<1>4. Knows(runner[w], folder) /\ Ordered(folder)
  BY DEF ExperimentInv, RunnersKnow
<1>5. m.done \subseteq ToSet(folder.lines) /\ (m.hashed => folder.metrics)
  BY <1>2, <1>4 DEF Knows
<1>6. status = "completed" => m.hashed
  BY <1>2, <1>4 DEF Knows
<1>7. Ordered(folder')
  BY <1>2, <1>3, <1>4, <1>5, <1>6 DEF Ordered
<1> QED BY <1>2, <1>3, <1>7


LEMMA LockStep ==
    ASSUME ExperimentInv, NEW w \in Runners,
           StartNewRun(w) \/ ResumeRun(w)
    PROVE  ExperimentInv' /\ UNCHANGED folder
<1>1. /\ folder \in FolderType /\ Ordered(folder) /\ runner[w] \in RunnerType
  BY DEF ExperimentInv, ExperimentTypes
<1>2. CASE StartNewRun(w)
  <2> DEFINE r == [runner[w] EXCEPT !.at = "folder"]
  <2>1. /\ r \in RunnerType /\ runner' = [runner EXCEPT ![w] = r] /\ r.at = "folder"
        /\ r.done = runner[w].done /\ r.hashed = runner[w].hashed
    BY <1>2, Moved DEF StartNewRun, RunnerStates
  <2>2. runner[w] = Away
    BY <1>2 DEF StartNewRun, ExperimentInv, LockHeld
  <2>3. Knows(r, folder)
    BY <1>2, <2>1, <2>2 DEF StartNewRun, Knows, Away, EmptyFolder
  <2> QED BY <1>1, <1>2, <2>1, <2>3, RunnerSteps DEF StartNewRun
<1>3. CASE ResumeRun(w) /\ folder.there
  <2> DEFINE r == [runner[w] EXCEPT !.at = "load"]
  <2>1. r \in RunnerType /\ runner' = [runner EXCEPT ![w] = r] /\ r.at = "load"
    BY <1>3, Moved DEF ResumeRun, RunnerStates
  <2>2. \A v \in Runners : On(v, "away")
    BY <1>3 DEF ResumeRun, ExperimentInv, LockHeld
  <2>3. Knows(r, folder)
    BY <2>1 DEF Knows
  <2> QED BY <1>1, <1>3, <2>1, <2>2, <2>3, RunnerSteps DEF ResumeRun
<1>4. CASE ResumeRun(w) /\ ~folder.there
  BY <1>4 DEF ResumeRun, ExperimentInv, ExperimentTypes, LockHeld, OneRunner, On, RunnersKnow
<1> QED BY <1>2, <1>3, <1>4 DEF StartNewRun, ResumeRun

\* What an action of a runner at work does to the invariant and the records.
WorkDone == /\ ExperimentInv'
            /\ IsPrefix(folder.lines, folder'.lines)
            /\ folder.manifest.status = "completed" => UNCHANGED folder

LEMMA SamePrefix == ASSUME ExperimentInv, folder'.lines = folder.lines
                    PROVE  IsPrefix(folder.lines, folder'.lines)
<1>1. folder.lines \in Seq(Asked)
  BY DEF ExperimentInv, ExperimentTypes, FolderType
<1> QED BY <1>1 DEF IsPrefix

LEMMA WriteFolderStep ==
    ASSUME ExperimentInv, NEW w \in Runners, WriteFolder(w) PROVE WorkDone
<1>1. /\ ~On(w, "away") /\ runner[w].at \in {"folder", "protocol", "memory", "manifest"}
      /\ locked' = locked
  BY DEF WriteFolder, On
<1>2. /\ folder \in FolderType /\ Ordered(folder) /\ runner[w] \in RunnerType
      /\ Knows(runner[w], folder) /\ locked \in BOOLEAN
  BY DEF ExperimentInv, ExperimentTypes, RunnersKnow
<1>3. folder.lines = <<>> /\ folder.tail = "none" /\ folder.manifest = NoManifest /\ ~folder.metrics
      /\ runner[w].done = {} /\ ~runner[w].hashed
  BY <1>1, <1>2 DEF Knows
<1>4. folder.manifest.status # "completed"
  BY <1>3 DEF NoManifest
<1>5. CASE runner[w].at # "manifest"
  <2>1. PICK at \in {"protocol", "memory", "manifest"} : Move(w, at)
    BY <1>5 DEF WriteFolder, On
  <2> DEFINE r == [runner[w] EXCEPT !.at = at]
  <2>2. /\ r \in RunnerType /\ runner' = [runner EXCEPT ![w] = r] /\ r.at = at
        /\ r.done = runner[w].done /\ r.hashed = runner[w].hashed
    <3>1. at \in RunnerStates
      BY DEF RunnerStates
    <3> QED BY <2>1, <3>1, Moved
  <2>3. /\ folder' \in FolderType /\ folder'.lines = folder.lines /\ folder'.tail = folder.tail
        /\ folder'.manifest = folder.manifest /\ folder'.metrics = folder.metrics
    BY <1>2, <1>5 DEF WriteFolder, On, FolderType
  <2>4. Ordered(folder') /\ Knows(r, folder')
    BY <1>2, <1>3, <2>2, <2>3 DEF Ordered, Knows
  <2>5. ExperimentInv'
    BY <1>1, <1>2, <2>2, <2>3, <2>4, OthersAway, RunnerSteps
  <2> QED BY <1>4, <2>3, <2>5, SamePrefix DEF WorkDone
<1>6. CASE runner[w].at = "manifest"
  <2>1. Move(w, "episode") /\ Save(w, "running")
    BY <1>6 DEF WriteFolder, On
  <2> DEFINE r == [runner[w] EXCEPT !.at = "episode"]
  <2>2. /\ r \in RunnerType /\ runner' = [runner EXCEPT ![w] = r] /\ r.at = "episode"
        /\ r.done = runner[w].done /\ r.hashed = runner[w].hashed
    BY <2>1, Moved DEF RunnerStates
  <2>3. /\ folder' \in FolderType /\ Ordered(folder')
        /\ folder'.lines = folder.lines /\ folder'.tail = folder.tail
        /\ folder'.metrics = folder.metrics /\ folder'.manifest.status = "running"
    BY <1>6, <2>1, ManifestSaved
  <2>4. Knows(r, folder')
    <3>1. ToSet(<<>>) = {}
      BY DEF ToSet
    <3> QED BY <1>3, <2>2, <2>3, <3>1 DEF Knows
  <2>5. ExperimentInv'
    BY <1>1, <1>2, <2>2, <2>3, <2>4, OthersAway, RunnerSteps
  <2> QED BY <1>4, <2>3, <2>5, SamePrefix DEF WorkDone
<1> QED BY <1>5, <1>6

LEMMA LoadStep ==
    ASSUME ExperimentInv, NEW w \in Runners,
           LoadRefuses(w) \/ LoadEpisodes(w) \/ CheckCompleted(w) PROVE WorkDone
<1>1. ~On(w, "away")
  BY DEF LoadRefuses, LoadEpisodes, CheckCompleted, On
<1>2. /\ folder \in FolderType /\ Ordered(folder) /\ runner[w] \in RunnerType
      /\ Knows(runner[w], folder) /\ locked \in BOOLEAN
      /\ folder.lines \in Seq(Asked) /\ folder.manifest \in ManifestType
      /\ folder.tail \in Asked \cup {"none", "torn"}
  BY DEF ExperimentInv, ExperimentTypes, RunnersKnow, FolderType
<1>3. CASE LoadRefuses(w) \/ CheckCompleted(w)
  <2>1. runner' = [runner EXCEPT ![w] = Away] /\ folder' = folder /\ locked' = FALSE
    BY <1>3 DEF LoadRefuses, CheckCompleted, Release
  <2>2. ExperimentInv'
    BY <1>1, <1>2, <2>1, AwayKnows, OthersAway, RunnerSteps
  <2> QED BY <2>1, <2>2, SamePrefix DEF WorkDone
<1>4. CASE LoadEpisodes(w)
  <2> DEFINE lines == IF folder.tail \in Asked THEN Append(folder.lines, folder.tail)
                      ELSE folder.lines
             r == [at |-> IF folder.manifest.status = "completed" THEN "check" ELSE "restart",
                   done |-> ToSet(lines), hashed |-> folder.manifest.hashed,
                   cut |-> folder.tail = "torn"]
  <2>1. /\ lines \in Seq(Asked) /\ UpTo(lines) /\ IsPrefix(folder.lines, lines)
        /\ ToSet(folder.lines) \subseteq ToSet(lines)
        /\ folder.tail \notin Asked => lines = folder.lines
    <3>1. CASE folder.tail \in Asked
      BY <1>2, <3>1, LineInOrder DEF Ordered
    <3>2. CASE folder.tail \notin Asked
      BY <1>2, <3>2 DEF Ordered, IsPrefix
    <3> QED BY <3>1, <3>2
  <2>2. runner' = [runner EXCEPT ![w] = r] /\ folder' = [folder EXCEPT !.lines = lines, !.tail = "none"]
        /\ locked' = locked
    BY <1>4 DEF LoadEpisodes
  <2>3. /\ folder' \in FolderType /\ folder'.lines = lines /\ folder'.tail = "none"
        /\ folder'.manifest = folder.manifest /\ folder'.metrics = folder.metrics
        /\ folder'.there = folder.there /\ folder'.protocol = folder.protocol
        /\ folder'.memory = folder.memory
    BY <1>2, <2>1, <2>2 DEF FolderType
  <2>4. ToSet(lines) \subseteq Asked
    BY <2>1 DEF ToSet
  <2>5. r \in RunnerType
    BY <1>2, <2>4 DEF RunnerType, RunnerStates, ManifestType
  <2>6. "none" \notin Asked
    BY ExperimentAssumption DEF Asked
  <2>7. folder.metrics => lines = folder.lines
    BY <1>2, <2>1, <2>6 DEF Ordered
  <2>8. Ordered(folder')
    BY <1>2, <2>1, <2>3, <2>6, <2>7 DEF Ordered
  <2>9. Knows(r, folder')
    BY <1>2, <2>3 DEF Knows, Ordered
  <2>10. ExperimentInv'
    BY <1>1, <1>2, <2>2, <2>3, <2>5, <2>8, <2>9, OthersAway, RunnerSteps
  <2>11. ASSUME folder.manifest.status = "completed" PROVE folder' = folder
    <3>1. folder.metrics /\ folder.tail = "none" /\ lines = folder.lines
      BY <2>11, <1>2, <2>7 DEF Ordered
    <3> QED BY <3>1, <2>2, <1>2 DEF FolderType
  <2> QED BY <2>1, <2>3, <2>10, <2>11 DEF WorkDone
<1> QED BY <1>3, <1>4


LEMMA RestartRunStep ==
    ASSUME ExperimentInv, NEW w \in Runners, RestartRun(w) PROVE WorkDone
<1>1. ~On(w, "away") /\ locked' = locked /\ runner[w].at = "restart"
  BY DEF RestartRun, On
<1>2. /\ folder \in FolderType /\ Ordered(folder) /\ runner[w] \in RunnerType
      /\ Knows(runner[w], folder) /\ locked \in BOOLEAN /\ folder.manifest \in ManifestType
  BY DEF ExperimentInv, ExperimentTypes, RunnersKnow, FolderType
<1> DEFINE r == [runner[w] EXCEPT !.at = "episode"]
           m == [Manifest(w, "running") EXCEPT !.done = folder.manifest.done]
<1>3. /\ r \in RunnerType /\ runner' = [runner EXCEPT ![w] = r] /\ r.at = "episode"
      /\ r.done = runner[w].done /\ r.hashed = runner[w].hashed
  BY Moved DEF RestartRun, RunnerStates
<1>4. /\ m \in ManifestType /\ m.status = "running" /\ m.done = folder.manifest.done
      /\ m.hashed = runner[w].hashed
  BY <1>2 DEF Manifest, ManifestType, RunnerType, RunStates
<1>5. /\ folder' \in FolderType /\ folder'.lines = folder.lines /\ folder'.tail = folder.tail
      /\ folder'.manifest = m /\ folder'.metrics = folder.metrics
  BY <1>2, <1>4 DEF RestartRun, FolderType
<1>6. Ordered(folder') /\ Knows(r, folder') /\ folder.manifest.status # "completed"
  BY <1>1, <1>2, <1>3, <1>4, <1>5 DEF Ordered, Knows
<1>7. ExperimentInv'
  BY <1>1, <1>2, <1>3, <1>5, <1>6, OthersAway, RunnerSteps
<1> QED BY <1>5, <1>6, <1>7, SamePrefix DEF WorkDone

LEMMA AppendEpisodeStep ==
    ASSUME ExperimentInv, NEW w \in Runners, AppendEpisode(w) PROVE WorkDone
<1>1. ~On(w, "away") /\ locked' = locked /\ runner[w].at = "episode" /\ On(w, "episode")
      /\ Missed(w) # {}
  BY DEF AppendEpisode, On
<1>2. /\ folder \in FolderType /\ Ordered(folder) /\ runner[w] \in RunnerType
      /\ Knows(runner[w], folder) /\ locked \in BOOLEAN /\ folder.lines \in Seq(Asked)
      /\ runner \in [Runners -> RunnerType]
  BY DEF ExperimentInv, ExperimentTypes, RunnersKnow, FolderType
<1> DEFINE q == NextQuestion(w)
           r == [[runner[w] EXCEPT !.at = "save"] EXCEPT !.done = runner[w].done \cup {q}]
<1>3. /\ q \in Asked /\ Len(folder.lines) + 1 \in 1..Len(Questions)
      /\ q = Questions[Len(folder.lines) + 1]
  BY <1>1, NextInOrder
<1>4. /\ r \in RunnerType /\ runner' = [runner EXCEPT ![w] = r] /\ r.at = "save"
      /\ r.done = runner[w].done \cup {q} /\ r.hashed = runner[w].hashed
  <2>1. runner' = [runner EXCEPT ![w].at = "save", ![w].done = @ \cup {q}]
    BY DEF AppendEpisode
  <2>2. runner[w].done \cup {q} \in SUBSET Asked
    BY <1>2, <1>3 DEF RunnerType
  <2> HIDE DEF q
  <2>3. r \in RunnerType /\ r.at = "save" /\ r.done = runner[w].done \cup {q}
        /\ r.hashed = runner[w].hashed
    BY <1>2, <2>2 DEF RunnerType, RunnerStates
  <2>4. runner' = [runner EXCEPT ![w] = r]
    BY <2>1, <1>2 DEF RunnerType
  <2> QED BY <2>3, <2>4
<1>5. LET more == Append(folder.lines, q)
      IN  /\ more \in Seq(Asked) /\ UpTo(more) /\ Len(more) = Len(folder.lines) + 1
          /\ ToSet(more) = ToSet(folder.lines) \cup {q} /\ IsPrefix(folder.lines, more)
  <2>1. Len(folder.lines) < Len(Questions) /\ UpTo(folder.lines)
    BY <1>2, <1>3 DEF Ordered
  <2> QED BY <1>2, <1>3, <2>1, LineInOrder
<1>6. /\ folder' \in FolderType /\ folder'.lines = Append(folder.lines, q)
      /\ folder'.tail = folder.tail
      /\ folder'.manifest = folder.manifest /\ folder'.metrics = folder.metrics
  BY <1>2, <1>5 DEF AppendEpisode, FolderType
<1>7. folder.tail = "none" /\ "none" \notin Asked /\ folder.manifest.status # "completed"
  BY <1>1, <1>2, ExperimentAssumption DEF Knows, Asked
<1>8. ~folder.metrics
  BY <1>2, <1>3 DEF Ordered
<1> HIDE DEF q, r
<1>9. Ordered(folder')
  BY <1>2, <1>5, <1>6, <1>7, <1>8 DEF Ordered
<1>10. Knows(r, folder')
  BY <1>1, <1>2, <1>4, <1>5, <1>6, <1>7 DEF Knows
<1>11. ExperimentInv'
  BY <1>1, <1>2, <1>4, <1>6, <1>9, <1>10, OthersAway, RunnerSteps
<1> QED BY <1>5, <1>6, <1>7, <1>11 DEF WorkDone

LEMMA SaveRowStep ==
    ASSUME ExperimentInv, NEW w \in Runners,
           SaveProgress(w) \/ CompleteRun(w) \/ MarkRunFailed(w) PROVE WorkDone
<1>1. ~On(w, "away") /\ runner[w].at \in {"save", "complete", "failed"}
  BY DEF SaveProgress, CompleteRun, MarkRunFailed, On
<1>2. /\ folder \in FolderType /\ Ordered(folder) /\ runner[w] \in RunnerType
      /\ Knows(runner[w], folder) /\ locked \in BOOLEAN
  BY DEF ExperimentInv, ExperimentTypes, RunnersKnow
<1>3. folder.manifest.status # "completed"
  BY <1>1, <1>2 DEF Knows
<1>4. CASE SaveProgress(w)
  <2> DEFINE r == [runner[w] EXCEPT !.at = "episode"]
  <2>1. /\ r \in RunnerType /\ runner' = [runner EXCEPT ![w] = r] /\ r.at = "episode"
        /\ r.done = runner[w].done /\ r.hashed = runner[w].hashed
    BY <1>4, Moved DEF SaveProgress, RunnerStates
  <2>2. /\ folder' \in FolderType /\ Ordered(folder')
        /\ folder'.lines = folder.lines /\ folder'.tail = folder.tail
        /\ folder'.metrics = folder.metrics /\ folder'.manifest.status = "running"
    BY <1>4, ManifestSaved DEF SaveProgress, On
  <2>3. runner[w].at = "save" /\ locked' = locked
    BY <1>4 DEF SaveProgress, On
  <2>4. Knows(r, folder')
    BY <1>2, <2>1, <2>2, <2>3 DEF Knows
  <2>5. ExperimentInv'
    BY <1>1, <1>2, <2>1, <2>2, <2>3, <2>4, OthersAway, RunnerSteps
  <2> QED BY <1>3, <2>2, <2>5, SamePrefix DEF WorkDone
<1>5. CASE CompleteRun(w) \/ MarkRunFailed(w)
  <2>1. runner' = [runner EXCEPT ![w] = Away] /\ locked' = FALSE
    BY <1>5 DEF CompleteRun, MarkRunFailed, Release
  <2>2. /\ folder' \in FolderType /\ Ordered(folder') /\ folder'.lines = folder.lines
    BY <1>5, ManifestSaved DEF CompleteRun, MarkRunFailed, On
  <2>3. ExperimentInv'
    BY <1>1, <1>2, <2>1, <2>2, AwayKnows, OthersAway, RunnerSteps
  <2> QED BY <1>3, <2>2, <2>3, SamePrefix DEF WorkDone
<1> QED BY <1>4, <1>5

LEMMA WriteMetricsStep ==
    ASSUME ExperimentInv, NEW w \in Runners, WriteMetrics(w) PROVE WorkDone
<1>1. ~On(w, "away") /\ locked' = locked /\ runner[w].at = "episode" /\ Missed(w) = {}
  BY DEF WriteMetrics, On
<1>2. /\ folder \in FolderType /\ Ordered(folder) /\ runner[w] \in RunnerType
      /\ Knows(runner[w], folder) /\ locked \in BOOLEAN /\ folder.lines \in Seq(Asked)
      /\ runner \in [Runners -> RunnerType]
  BY DEF ExperimentInv, ExperimentTypes, RunnersKnow, FolderType
<1> DEFINE r == [[runner[w] EXCEPT !.at = "complete"] EXCEPT !.hashed = TRUE]
<1>3. /\ r \in RunnerType /\ r.at = "complete" /\ r.hashed /\ r.done = runner[w].done
      /\ runner' = [runner EXCEPT ![w] = r]
  BY <1>2 DEF WriteMetrics, RunnerType, RunnerStates
<1>4. folder.tail = "none" /\ folder.manifest.status # "completed"
      /\ runner[w].done = ToSet(folder.lines)
  BY <1>1, <1>2 DEF Knows
<1>5. Len(folder.lines) = Len(Questions)
  <2>1. /\ Questions \in Seq(Asked) /\ IsInjective(Questions) /\ Len(Questions) \in Nat
        /\ Len(folder.lines) \in Nat
        /\ DOMAIN Questions = 1..Len(Questions) /\ DOMAIN folder.lines = 1..Len(folder.lines)
    BY <1>2, ExperimentAssumption DEF Asked
  <2>2. UpTo(folder.lines)
    BY <1>2 DEF Ordered
  <2>3. SUFFICES ASSUME Len(folder.lines) < Len(Questions) PROVE FALSE
    BY <2>1, <2>2 DEF UpTo
  <2>4. Len(Questions) \in DOMAIN Questions
    BY <2>1, <2>3
  <2>5. PICK i \in DOMAIN folder.lines : folder.lines[i] = Questions[Len(Questions)]
    BY <1>1, <1>4, <2>4 DEF Missed, ToSet
  <2>6. Questions[i] = Questions[Len(Questions)] /\ i \in DOMAIN Questions /\ i < Len(Questions)
    BY <2>1, <2>2, <2>3, <2>5 DEF UpTo
  <2> QED BY <2>1, <2>4, <2>6 DEF IsInjective
<1>6. /\ folder' \in FolderType /\ folder'.lines = folder.lines
      /\ folder'.tail = folder.tail
      /\ folder'.manifest = folder.manifest /\ folder'.metrics = TRUE
  BY <1>2 DEF WriteMetrics, FolderType
<1>7. Ordered(folder') /\ Knows(r, folder')
  BY <1>2, <1>3, <1>4, <1>5, <1>6 DEF Ordered, Knows
<1>8. ExperimentInv'
  BY <1>1, <1>2, <1>3, <1>6, <1>7, OthersAway, RunnerSteps
<1> QED BY <1>4, <1>6, <1>8, SamePrefix DEF WorkDone

LEMMA RunEndsStep ==
    ASSUME ExperimentInv, NEW w \in Runners, EpisodeFails(w) \/ RunKilled(w) PROVE WorkDone
<1>1. ~On(w, "away") /\ locked' = locked
  BY DEF EpisodeFails, RunKilled, On
<1>2. /\ folder \in FolderType /\ Ordered(folder) /\ runner[w] \in RunnerType
      /\ Knows(runner[w], folder) /\ locked \in BOOLEAN
      /\ "none" \notin Asked /\ "torn" \notin Asked
  BY ExperimentAssumption DEF ExperimentInv, ExperimentTypes, RunnersKnow, Asked
<1>3. \/ folder' = folder
      \/ /\ On(w, "episode") /\ Missed(w) # {}
         /\ \/ folder' = [folder EXCEPT !.tail = NextQuestion(w)]
            \/ folder' = [folder EXCEPT !.tail = "torn"]
  BY DEF EpisodeFails, RunKilled, BrokenAppend
<1>4. /\ folder' \in FolderType /\ Ordered(folder') /\ folder'.lines = folder.lines
      /\ folder'.manifest = folder.manifest /\ folder'.metrics = folder.metrics
      /\ folder' = folder \/ folder.manifest.status # "completed"
  <2>1. CASE folder' = folder
    BY <2>1, <1>2
  <2>2. CASE On(w, "episode") /\ Missed(w) # {} /\ folder' # folder
    <3>1. /\ NextQuestion(w) \in Asked /\ Len(folder.lines) + 1 \in 1..Len(Questions)
          /\ NextQuestion(w) = Questions[Len(folder.lines) + 1]
      BY <2>2, NextInOrder
    <3>2. /\ folder' \in FolderType /\ folder'.lines = folder.lines
          /\ folder'.manifest = folder.manifest /\ folder'.metrics = folder.metrics
          /\ folder'.tail \in {NextQuestion(w), "torn"}
      BY <1>2, <1>3, <2>2, <3>1 DEF FolderType
    <3>3. folder.lines \in Seq(Asked) /\ Len(folder.lines) < Len(Questions)
      BY <1>2, <3>1 DEF FolderType
    <3>4. Ordered(folder')
      BY <1>2, <3>1, <3>2, <3>3 DEF Ordered
    <3>5. folder.manifest.status # "completed"
      BY <1>2, <2>2 DEF Knows, On
    <3> QED BY <3>2, <3>4, <3>5
  <2> QED BY <1>3, <2>1, <2>2
<1>5. CASE RunKilled(w)
  <2>1. runner' = [runner EXCEPT ![w] = Away]
    BY <1>5 DEF RunKilled
  <2>2. ExperimentInv'
    BY <1>1, <1>2, <1>4, <2>1, AwayKnows, OthersAway, RunnerSteps
  <2> QED BY <1>4, <2>2, SamePrefix DEF WorkDone
<1>6. CASE EpisodeFails(w)
  <2> DEFINE r == [runner[w] EXCEPT !.at = "failed"]
  <2>1. /\ r \in RunnerType /\ runner' = [runner EXCEPT ![w] = r] /\ r.at = "failed"
        /\ r.done = runner[w].done /\ r.hashed = runner[w].hashed
    BY <1>6, Moved DEF EpisodeFails, RunnerStates
  <2>2. runner[w].at \in {"episode", "save", "complete"}
    BY <1>6 DEF EpisodeFails
  <2>3. Knows(r, folder')
    BY <1>2, <1>4, <2>1, <2>2 DEF Knows
  <2>4. ExperimentInv'
    BY <1>1, <1>2, <1>4, <2>1, <2>3, OthersAway, RunnerSteps
  <2> QED BY <1>4, <2>4, SamePrefix DEF WorkDone
<1> QED BY <1>5, <1>6

LEMMA ExperimentStep == ExperimentInv /\ [ExperimentNext]_experimentVars => WorkDone
<1> SUFFICES ASSUME ExperimentInv, [ExperimentNext]_experimentVars PROVE WorkDone
  OBVIOUS
<1>1. CASE UNCHANGED experimentVars
  BY <1>1, SamePrefix DEF experimentVars, WorkDone, ExperimentInv, ExperimentTypes, LockHeld, OneRunner,
     On, RunnersKnow
<1>2. CASE RemoveStaleLock
  <2>1. ExperimentInv'
    BY <1>2 DEF RemoveStaleLock, ExperimentInv, ExperimentTypes, LockHeld, OneRunner, On, RunnersKnow
  <2> QED BY <1>2, <2>1, SamePrefix DEF WorkDone, RemoveStaleLock
<1>3. ASSUME NEW w \in Runners, StartNewRun(w) \/ ResumeRun(w)
      PROVE  WorkDone
  BY <1>3, LockStep, SamePrefix DEF WorkDone
<1>4. ASSUME NEW w \in Runners,
             \/ WriteFolder(w) \/ LoadRefuses(w) \/ LoadEpisodes(w) \/ CheckCompleted(w)
             \/ RestartRun(w) \/ AppendEpisode(w) \/ SaveProgress(w) \/ WriteMetrics(w)
             \/ CompleteRun(w) \/ EpisodeFails(w) \/ MarkRunFailed(w) \/ RunKilled(w)
      PROVE  WorkDone
  BY <1>4, WriteFolderStep, LoadStep, RestartRunStep, AppendEpisodeStep, SaveRowStep,
     WriteMetricsStep, RunEndsStep
<1> QED BY <1>1, <1>2, <1>3, <1>4 DEF ExperimentNext

LEMMA ExperimentIsSound == ExperimentInv => RunSound
<1> SUFFICES ASSUME ExperimentInv PROVE RunSound
  OBVIOUS
<1>1. /\ folder.lines \in Seq(Asked) /\ Questions \in Seq(Asked) /\ Ordered(folder) /\ OneRunner
      /\ folder \in FolderType
  BY ExperimentAssumption DEF ExperimentInv, ExperimentTypes, FolderType, Asked, LockHeld
<1>2. IsPrefix(folder.lines, Questions)
  BY <1>1 DEF Ordered, UpTo, IsPrefix
<1>3. Len(folder.lines) = Len(Questions) => folder.lines = Questions
  BY <1>1 DEF Ordered, UpTo
<1> QED BY <1>1, <1>2, <1>3 DEF RunSound, EachAskedOnce, Ordered

\* For any questions and runners, whatever stops, write failures and torn
\* lines come in between: one runner works in the folder of an experiment, the
\* rows of episodes.jsonl are the first questions of the set, each once and in
\* order, metrics and "completed" are said of all of them, no row is lost, and
\* a completed folder never changes (run_controller_experiment.py).
THEOREM RunStaysSound == LibrarySpec => RunsHold
<1> DEFINE Inv == scenario = "experiment" => ExperimentInv
<1>1. LibraryInit => Inv
  BY ExperimentStart DEF LibraryInit
<1>2. Inv /\ [LibraryNext]_libraryVars => Inv'
  BY LibrarySteps, ExperimentStep DEF WorkDone
<1>3. Inv => (scenario = "experiment" => RunSound)
  BY ExperimentIsSound
<1>4. Inv /\ [LibraryNext]_libraryVars => [scenario = "experiment" => RecordsKept]_experimentVars
  BY LibrarySteps, ExperimentStep DEF WorkDone, RecordsKept
<1> QED BY <1>1, <1>2, <1>3, <1>4, PTL DEF LibrarySpec, libraryVars, RunsHold
=============================================================================
