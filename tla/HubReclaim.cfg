SPECIFICATION FairSpec
CONSTANTS
    e1 = e1
    e2 = e2
    h1 = h1
    h2 = h2
    w1 = w1
    w2 = w2
    Events <- MCOneEvent
    Foreign <- MCNoEvent
    Messaging <- MCOneEvent
    Handlers <- MCOneHandler
    Workers <- MCWorkers
    MaxRetries = 1
    MaxPosts = 1
    MaxFaults = 1
PROPERTIES
    CrashedClaimIsReclaimed
CHECK_DEADLOCK FALSE
