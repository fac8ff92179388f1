---------------------------- MODULE PaymentBook ----------------------------
(***************************************************************************)
(* What the settlement of card payments promises: every booking in the     *)
(* wallet is backed by money taken, a payment is booked at most once, and  *)
(* an invoice is settled by its bookings and by nothing else.              *)
(***************************************************************************)
CONSTANTS
    Payments,
    Invoices,
    InvoiceOf   \* the invoice each payment is for

VARIABLES
    taken,      \* payments whose money was taken
    booked,     \* references booked in the wallet: payments, or invoices
    settled     \* invoices

Init == taken = {} /\ booked = {} /\ settled = {}

Take(p) ==
    /\ p \notin taken
    /\ taken' = taken \union {p}
    /\ UNCHANGED <<booked, settled>>

\* A payment is booked under its own id ...
BookPayment(p) ==
    /\ p \in taken \ booked
    /\ InvoiceOf[p] \notin booked
    /\ booked' = booked \union {p}
    /\ settled' = settled \union {InvoiceOf[p]}
    /\ UNCHANGED taken

\* ... or the invoice under its id, once for all its payments.
BookInvoice(i) ==
    /\ \E p \in taken : InvoiceOf[p] = i
    /\ i \notin booked
    /\ \A p \in booked \intersect Payments : InvoiceOf[p] # i
    /\ booked' = booked \union {i}
    /\ settled' = settled \union {i}
    /\ UNCHANGED taken

Next ==
    \/ \E p \in Payments : Take(p) \/ BookPayment(p)
    \/ \E i \in Invoices : BookInvoice(i)

Spec == Init /\ [][Next]_<<taken, booked, settled>>
=============================================================================
