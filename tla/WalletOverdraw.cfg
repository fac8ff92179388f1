SPECIFICATION Spec
CONSTANTS
    c1 = c1
    c2 = c2
    c3 = c3
    d1 = d1
    t1 = t1
    t2 = t2
    b1 = b1
    b2 = b2
    v1 = v1
    v2 = v2
    q1 = q1
    g1 = g1
    a1 = a1
    a2 = a2
    None = None
    Charges <- MCNoRequest
    Deposits <- MCNoRequest
    Transfers <- MCTransfers
    BotCharges <- MCNoRequest
    Receipts <- MCNoRequest
    Purchases <- MCNoRequest
    Grants <- MCNoRequest
    Additions <- MCNoRequest
    Removals <- MCNoRequest
    Owners <- MCTransfers
    Casts <- MCOwnerCasts
    Refs <- MCOwnerRefs
    Ref <- MCOwnerRef
    Price <- MCOwnerPrice
    Opening <- MCOpening
    Floor = 4
    MaxFaults = 0
INVARIANTS
    NotOverdrawn
CHECK_DEADLOCK FALSE
