SPECIFICATION Spec
CONSTANTS
    e1 = e1
    e2 = e2
    h1 = h1
    h2 = h2
    w1 = w1
    w2 = w2
    Events <- MCEvents
    Foreign <- MCForeign
    Messaging <- MCMessaging
    Handlers <- MCHandlers
    Workers <- MCWorkers
    MaxRetries = 1
    MaxPosts = 2
    MaxFaults = 2
INVARIANTS
    TypeOK
    EnqueuedOnce
    SingleDispatchWhileFresh
    DeadLetterAfterAllRetries
    NoLostEvent
    ProcessedWasDispatched
    MeteredPerAttempt
PROPERTIES
    QueueIsLifecycle
SYMMETRY MCSymmetry
CHECK_DEADLOCK FALSE
