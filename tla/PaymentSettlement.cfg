SPECIFICATION FairSpec
CONSTANTS
    widget = widget
    order = order
    token = token
    intent = intent
    plan = plan
    pw1 = pw1
    pw2 = pw2
    po = po
    pt = pt
    pi = pi
    pp = pp
    s1 = s1
    s2 = s2
    None = None
    OrderId = OrderId
    Sessions <- MCSessions
    Invoices <- MCInvoices
    Payments <- MCPayments
    InvoiceOf <- MCInvoiceOf
    Kind <- MCKind
    Plans <- MCPlans
    MaxRequests = 2
    MaxDuplicates = 1
    MaxFaults = 1
INVARIANTS
    TypeOK
    CreditsBackedByPayments
    SettledIffCredited
    CheckoutAppliesOnce
PROPERTIES
    SettlementIsBook
    RedirectIsSettled
CHECK_DEADLOCK FALSE
