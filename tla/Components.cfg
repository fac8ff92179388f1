SPECIFICATION MCSpec
CONSTANTS
    k1 = k1
    k2 = k2
    b1 = b1
    b2 = b2
    c1 = c1
    d1 = d1
    h1 = h1
    Conns = {k1, k2}
    OneTimers = {k1}
    Beats = {b1, b2}
    Connects = {c1}
    Disconnects = {d1}
    Checks = {h1}
    Target <- MCTarget
    Casts <- MCCasts
    Nobody = Nobody
    MaxAge = 1
    MaxTokFaults = 1
    j1 = j1
    j2 = j2
    Jobs = {j1, j2}
    OutCasts <- MCOutCasts
    ActionOf <- MCActionOf
    NoJob = NoJob
    OutMaxRetries = 1
    MaxOutFaults = 1
    l1 = l1
    l2 = l2
    r1 = r1
    r2 = r2
    o1 = o1
    a1 = a1
    w1 = w1
    w2 = w2
    Logins = {l1, l2}
    Rotations = {r1, r2}
    Logouts = {o1}
    LogoutAlls = {a1}
    Resets = {w1, w2}
    AuthCasts <- MCAuthCasts
    NoToken = NoToken
    p1 = p1
    p2 = p2
    p3 = p3
    p4 = p4
    p5 = p5
    x1 = x1
    x2 = x2
    x3 = x3
    Posts = {p1, p2, p3, p4, p5}
    MsgOf <- MCMsgOf
    Says <- MCSays
    NonText = {"m4"}
    Operators = {x1, x2, x3}
    Asks <- MCAsks
    NoTurn = NoTurn
    InboundCasts <- MCInboundCasts
    TurnMaxRetries = 1
    MaxTurnFaults = 2
    u1 = u1
    u2 = u2
    t1 = t1
    n1 = n1
    s1 = s1
    q1 = q1
    q2 = q2
    Publishers = {u1, u2}
    Restorers = {t1}
    Adopters = {n1}
    Savers = {s1}
    Procs = {q1, q2}
    Home <- MCHome
    FirstGraph = g0
    NoFlow = NoFlow
    FlowCasts <- MCFlowCasts
    MaxFlowFaults = 1
    Nodes = {"n1", "n2", "n3", "n4", "n5", "n6", "n7"}
    Graphs <- MCGraphs
    Words = {"a", "b", "text"}
    NoHandle = "-"
    NoNode = "none"
    MaxRounds = 2
    MaxHops = 5
INVARIANTS
    ComponentsTypeOK
    SpentOnce
    GrantKept
    ExpiredInError
    OverlapOnlyFailOpen
    MeteredWithRow
    OneTimeTokens
    SweepEndsFamilies
    
    PauseHolds
    StaleOnlyIfRaced
    StepWasShown
    CallsOnce
PROPERTIES
    PublicationsAreHistory
    WipedUntilConnected
    TokSettles
    OutboundSettles
    MessagesSettle
CHECK_DEADLOCK FALSE
