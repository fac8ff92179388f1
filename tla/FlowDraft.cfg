SPECIFICATION FlowSpec
CONSTANTS
    u1 = u1
    s1 = s1
    q1 = q1
    q2 = q2
    Publishers = {u1}
    Restorers = {}
    Adopters = {}
    Savers = {s1}
    Procs = {q1, q2}
    Home <- MCHome
    FirstGraph = g0
    NoFlow = NoFlow
    FlowCasts <- MCFlowCasts
    MaxFlowFaults = 0
INVARIANTS
    DraftsAreNotServed
CHECK_DEADLOCK FALSE
