CONSTANTS
  Scenarios = {"trash", "drafts", "notes", "documents", "generation", "topics",
               "cards", "citations", "paths", "publication", "seals", "episodes",
               "experiment", "intake"}
  course = course
  video = video
  document = document
  talk = talk
  twin1 = twin1
  twin2 = twin2
  peer1 = peer1
  peer2 = peer2
  similar = similar
  related = related
  citedVideo = citedVideo
  citedEvidence = citedEvidence
  citedNote = citedNote
  none = none
  off = off
  card1 = card1
  card2 = card2
  alice = alice
  bob = bob
  Courses = {course}
  Jobs = {video}
  Assets = {document}
  Talks = {talk}
  Pages = {}
  CourseOf <- MCCourseOf
  FilesOf <- MCFilesOf
  NoItem = none
  NoPlan = none
  MaxTrashFaults = 2
  Windows = {peer1, peer2}
  Saved = saved
  Texts = {first, second}
  NoDraft = none
  NoText = none
  MaxRequests = 3
  NoteIds = {card1, card2}
  Editors = {peer1, peer2}
  Bodies = {first, second}
  Answers = {talk}
  NoAnswer = none
  NoNote = none
  NoSource = none
  MaxRevision = 2
  Documents = {document}
  Cards = {card1}
  DocBodies = {first}
  Generations = {peer1, peer2}
  Writers = {twin1, twin2}
  NoDoc = none
  MaxDocVersions = 2
  Runs = {twin1, twin2}
  ChunkCount = 2
  MaxEpoch = 0
  MaxDraft = 1
  MaxStops = 1
  Topics = {unsorted, twin1, twin2}
  Unsorted = unsorted
  MapCards = {peer1, peer2}
  NoTopic = none
  MaxDepth = 3
  Planners = {peer1, peer2}
  StudyIds = {card1, card2}
  Pairs <- MCPairs
  RelationTypes = {similar, related}
  Similar = similar
  Callers = {twin1, twin2}
  MaxInserts = 2
  MaxRows = 3
  Citations = {citedVideo, citedEvidence, citedNote}
  KindOf <- MCKindOf
  Readers = {alice}
  FileBytes = {1, 2}
  NoHash = none
  MaxChanges = 3
  ConceptCount = 3
  TypePriority <- MCPriority
  Symmetric = {"related"}
  MaxRelations = 3
  HopLimits = {1, 2}
  NodeLimits = {2, 3}
  Publishers = {twin1, twin2}
  ArtifactSets = {"first", "second", "foreign"}
  SetSize = 2
  WrittenBy <- MCArtifacts
  NoBytes = 0
  Styles = {"stage", "slice", "protocol"}
  MaxStarts = 3
  Clerks = {twin1, twin2}
  LabelTexts = {first, second}
  NoLabels = none
  MaxEdits = 4
  idea1 = idea1
  idea2 = idea2
  proof1 = proof1
  proof2 = proof2
  Ideas = {idea1, idea2}
  Proofs = {proof1, proof2}
  IdeaOf <- MCIdeaOf
  Arcs <- MCArcs
  Setups <- MCSetups
  Runners = {twin1, twin2}
  Questions <- MCQuestions
  MaxEnds = 3
  Uploaders = {twin1, twin2}
  NoMedia = none
  NoHolder = none
SPECIFICATION LibrarySpec
CHECK_DEADLOCK FALSE
CONSTRAINT Apart
SYMMETRY Twins
INVARIANTS
  DraftsHold
  PathsHold
PROPERTIES
  TrashHolds
  NotesHold
  DocumentsHold
  GenerationHolds
  TopicsHold
  CardsHold
  CitationsHold
  PublicationsHold
  SealsHold
  EpisodesHold
  RunsHold
  IntakeHolds
