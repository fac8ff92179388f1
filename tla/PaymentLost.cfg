SPECIFICATION FairSpec
CONSTANTS
    widget = widget
    order = order
    token = token
    intent = intent
    plan = plan
    pw1 = pw1
    pw2 = pw2
    po = po
    pt = pt
    pi = pi
    pp = pp
    s1 = s1
    s2 = s2
    None = None
    OrderId = OrderId
    Sessions <- MCSessions
    Invoices <- MCToken
    Payments <- MCTokenPayments
    InvoiceOf <- MCTokenInvoiceOf
    Kind <- MCTokenKind
    Plans <- MCNoPlan
    MaxRequests = 1
    MaxDuplicates = 0
    MaxFaults = 0
PROPERTIES
    PaidIsSettled
CHECK_DEADLOCK FALSE
