SPECIFICATION GraphSpec
CONSTANTS
  a = a
  b = b
  k1 = k1
  k2 = k2
  None = None
  p1 = p1
  p2 = p2
  Concepts <- ConceptsDef
  Relations <- RelationsDef
  Symmetric = {"related", "contrast_with"}
  Before <- BeforeDef
  Chunks = {k1, k2}
  Grounds <- GroundsDef
  Supports <- SupportsDef
  Limits <- LimitsDef
  Publishers = {p1, p2}
  MaxVersions = 2
  MaxEvents = 8
SYMMETRY PublisherSymmetry
INVARIANTS
  DraftSound
  VersionSound
PROPERTIES
  PublicationSafe
CHECK_DEADLOCK FALSE
