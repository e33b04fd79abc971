CONSTANTS
    t1 = t1
    t2 = t2
    w1 = w1
    w2 = w2
    ask1 = ask1
    ask2 = ask2
    chat = chat
    study = study
    course = course
    none = none
    TaskIds <- MCTasks
    Requests <- TwoKinds
    Keys <- MCKeys
    Resources <- MCResources
    NoKey <- none
    NoTask <- none
    Workers <- OneThread
    MaxWorkers = 1
    Capacity = 1
    MaxAttempts = 1
    MaxEvents = 0
    MaxStarts = 1
    MaxFaults = 1
SPECIFICATION FairSpec
CHECK_DEADLOCK FALSE
PROPERTIES QueuedRuns
