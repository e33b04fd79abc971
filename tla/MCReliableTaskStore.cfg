CONSTANTS
    t1 = t1
    t2 = t2
    import1 = import1
    import2 = import2
    asset = asset
    document = document
    course = course
    none = none
    TaskIds <- MCTasks
    Requests <- MCRequests
    Keys <- MCKeys
    Resources <- MCResources
    NoKey <- none
    MaxAttempts = 2
    MaxEvents = 3
SPECIFICATION Spec
SYMMETRY TaskSymmetry
INVARIANTS RowsSound KeysUnique StreamReplays
PROPERTIES EndIsFinal TrashSparesActive
