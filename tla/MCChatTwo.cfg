CONSTANTS
    t1 = t1
    t2 = t2
    w1 = w1
    w2 = w2
    ask1 = ask1
    ask2 = ask2
    chat = chat
    conversation = conversation
    lecture = lecture
    none = none
    TaskIds <- MCTasks
    Requests <- MCRequests
    Keys <- MCKeys
    Resources <- MCConversations
    NoKey <- none
    Workers <- MCWorkers
    Sources <- MCSources
    ScopeOf <- MCScopeOf
    MaxAttempts = 2
    MaxEvents = 0
    MaxEdits = 0
    MaxStarts = 2
    MaxFaults = 0
SPECIFICATION CSpec
VIEW Seen
SYMMETRY ThreadsAndTasks
CHECK_DEADLOCK FALSE
INVARIANTS TurnsSound
