CONSTANTS
    video = video
    asset = asset
    a = a
    b = b
    none = none
    Videos <- OneVideo
    Assets <- OneAsset
    Threads <- MCThreads
    NoThread <- none
    Dims <- MCDims
    MaxWrites = 2
    MaxIndexes = 2
    MaxTrashes = 1
    MaxCrashes = 1
SPECIFICATION Spec
CONSTRAINT Small
SYMMETRY AnyThread
CHECK_DEADLOCK FALSE
INVARIANTS SourcesSound ProjectionSound
PROPERTIES ReadyIsKept
