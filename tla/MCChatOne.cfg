CONSTANTS
    t1 = t1
    t2 = t2
    w1 = w1
    w2 = w2
    ask1 = ask1
    ask2 = ask2
    chat = chat
    conversation = conversation
    lecture = lecture
    none = none
    TaskIds <- OneTask
    Requests <- OneQuestion
    Keys <- MCKeys
    Resources <- MCConversations
    NoKey <- none
    Workers <- MCWorkers
    Sources <- MCSources
    ScopeOf <- OneScope
    MaxAttempts = 2
    MaxEvents = 0
    MaxEdits = 1
    MaxStarts = 2
    MaxFaults = 1
SPECIFICATION FairCSpec
CHECK_DEADLOCK FALSE
INVARIANTS RecordsSound
PROPERTIES PublicationHolds QuestionsSettle
