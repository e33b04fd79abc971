CONSTANTS
    t1 = t1
    t2 = t2
    w1 = w1
    w2 = w2
    ask1 = ask1
    ask2 = ask2
    chat = chat
    study = study
    course = course
    none = none
    TaskIds <- MCTasks
    Requests <- TwoKinds
    Keys <- MCKeys
    Resources <- MCResources
    NoKey <- none
    NoTask <- none
    Workers <- TwoThreads
    MaxWorkers = 2
    Capacity = 2
    MaxAttempts = 3
    MaxEvents = 3
    MaxStarts = 3
    MaxFaults = 1
SPECIFICATION MSpec
VIEW NoStream
SYMMETRY ThreadsAndTasks
CONSTRAINT InScope
CHECK_DEADLOCK FALSE
INVARIANTS SchedulingSound QuiescedIsIdle OneHandlerPerKey RunningIsOwned
PROPERTIES LifecycleSpec
