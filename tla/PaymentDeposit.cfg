SPECIFICATION Spec
CONSTANTS
    widget = widget
    order = order
    token = token
    intent = intent
    plan = plan
    pw1 = pw1
    pw2 = pw2
    po = po
    pt = pt
    pi = pi
    pp = pp
    s1 = s1
    s2 = s2
    None = None
    OrderId = OrderId
    Sessions <- MCSessions
    Invoices <- MCWidget
    Payments <- MCWidgetPayments
    InvoiceOf <- MCWidgetInvoiceOf
    Kind <- MCWidgetKind
    Plans <- MCNoPlan
    MaxRequests = 1
    MaxDuplicates = 1
    MaxFaults = 0
INVARIANTS
    DepositedOncePerPayment
CHECK_DEADLOCK FALSE
