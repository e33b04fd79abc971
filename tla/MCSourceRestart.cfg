CONSTANTS
    video = video
    asset = asset
    a = a
    b = b
    none = none
    Videos <- NoRoots
    Assets <- OneAsset
    Threads <- OneThread
    NoThread <- none
    Dims <- OneDim
    MaxWrites = 1
    MaxIndexes = 2
    MaxTrashes = 1
    MaxCrashes = 1
SPECIFICATION Spec
CHECK_DEADLOCK FALSE
PROPERTIES TrashKeepsProjection
