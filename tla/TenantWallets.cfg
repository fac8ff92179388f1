SPECIFICATION FairSpec
CONSTANTS
    c1 = c1
    c2 = c2
    c3 = c3
    d1 = d1
    t1 = t1
    t2 = t2
    b1 = b1
    b2 = b2
    v1 = v1
    v2 = v2
    q1 = q1
    g1 = g1
    a1 = a1
    a2 = a2
    None = None
    Charges <- MCCharges
    Deposits <- MCDeposits
    Transfers <- MCTransfers
    BotCharges <- MCBotCharges
    Receipts <- MCReceipts
    Purchases <- MCPurchases
    Grants <- MCGrants
    Additions <- MCAdditions
    Removals <- MCRemovals
    Owners <- MCOwners
    Casts <- MCCasts
    Refs <- MCRefs
    Ref <- MCRef
    Price <- MCPrice
    Opening <- MCOpening
    Floor = 4
    MaxFaults = 2
INVARIANTS
    TypeOK
    NonNegative
    AppliedOnce
    DriftOnlyFromHeldCopies
PROPERTIES
    WalletIsLedger
    EveryRequestEnds
CHECK_DEADLOCK FALSE
