------------------------- MODULE PaymentSettlement -------------------------
(***************************************************************************)
(* Card payments into an organization's wallet.  A top-up request creates  *)
(* an invoice at the provider's side and in the database, the customer or  *)
(* the provider pays it, and the provider's webhooks settle it: status     *)
(* SUCCEEDED, a wallet credit, a deposit on the owner's KZT balance and,   *)
(* for a plan, one more subscription period.                               *)
(*                                                                         *)
(* How a payment is made decides what the two sides know of each other:    *)
(*   widget    TipTop, paid after the commit; external_id is still NULL    *)
(*   order     TipTop, paid after the commit; external_id is an order id,  *)
(*             which no notification carries                               *)
(*   token     TipTop, saved card, charged before the commit               *)
(*   intent    Stripe, saved card, charged before the first of two commits *)
(*   checkout  Stripe, paid after the second of two commits                *)
(*                                                                         *)
(* A webhook handler reads the invoice, then runs one transaction under    *)
(* the invoice's row lock from its first write to its commit.  The two     *)
(* reads differ: with the ORM's identity map the locked SELECT returns the *)
(* object the handler still holds, as it was read first.                   *)
(***************************************************************************)
EXTENDS Naturals, FiniteSets

CONSTANTS
    Invoices,
    Payments,       \* a charge at the provider: TransactionId, intent, session
    InvoiceOf,      \* the invoice each payment is for
    Kind,           \* how each invoice is paid
    Plans,          \* invoices for a subscription period
    Sessions,       \* concurrent webhook requests
    OrderId,        \* an external_id that names no payment
    None,           \* NULL
    MaxRequests,    \* bound: top-up requests the customers make
    MaxDuplicates,  \* bound: notifications beyond the provider's retries
    MaxFaults       \* bound: requests that die, of both kinds

Instant == {"token", "intent"}
TipTop  == {"widget", "order", "token"}

ASSUME KindAssumption ==
    Kind \in [Invoices -> Instant \union {"widget", "order", "checkout"}]

\* Only a widget or an order page can be paid again by the customer.
ASSUME PaymentsAssumption ==
    /\ IsFiniteSet(Payments)
    /\ InvoiceOf \in [Payments -> Invoices]
    /\ \A i \in Invoices : \E p \in Payments : InvoiceOf[p] = i
    /\ \A p, q \in Payments :
        InvoiceOf[p] = InvoiceOf[q] /\ Kind[InvoiceOf[p]] \notin {"widget", "order"} => p = q

\* Plans are sold through create_checkout_session alone.
ASSUME PlansAssumption == Plans \subseteq {i \in Invoices : Kind[i] = "checkout"}

Refs == Payments \union Invoices

ASSUME NamesAssumption ==
    /\ None \notin Refs /\ OrderId \notin Payments /\ None # OrderId
    /\ Invoices \intersect Payments = {} /\ Payments # {}

ASSUME BoundsAssumption == {MaxRequests, MaxDuplicates, MaxFaults} \subseteq Nat

External == Payments \union {OrderId, None}
Statuses == {"absent", "PENDING", "SUCCEEDED"}

VARIABLES
    stage,           \* progress of each invoice's top-up request
    status, ext,     \* the invoice row; status "absent" before the commit
    credits,         \* wallet ledger rows by reference id
    deposits,        \* KZT deposits made for the invoice
    periods,         \* subscription periods granted for the invoice
    spc, spay,       \* each session's next step and payment
    sstatus, sext,   \* the invoice object it holds; "absent" when it holds none
    paid,            \* payments whose money was taken
    answered,        \* payments some notification of which got its 200
    duplicatesLeft, faultsLeft

requestVars == stage
invoiceVars == <<status, ext>>
effectVars  == <<credits, deposits, periods>>
sessionVars == <<spc, spay, sstatus, sext>>
bounds      == <<duplicatesLeft, faultsLeft>>
vars == <<requestVars, invoiceVars, effectVars, sessionVars, paid, answered, bounds>>

TypeOK ==
    /\ stage \in [Invoices -> {"start", "charged", "link", "done", "dead"}]
    /\ status \in [Invoices -> Statuses]
    /\ ext \in [Invoices -> External]
    /\ credits \in [Refs -> Nat]
    /\ deposits \in [Invoices -> Nat]
    /\ periods \in [Invoices -> Nat]
    /\ spc \in [Sessions -> {"idle", "settle"}]
    /\ spay \in [Sessions -> Payments]
    /\ sstatus \in [Sessions -> Statuses]
    /\ sext \in [Sessions -> External]
    /\ paid \subseteq Payments
    /\ answered \subseteq paid
    /\ duplicatesLeft \in Nat
    /\ faultsLeft \in Nat

Init ==
    /\ stage = [i \in Invoices |-> "start"]
    /\ status = [i \in Invoices |-> "absent"]
    /\ ext = [i \in Invoices |-> None]
    /\ credits = [r \in Refs |-> 0]
    /\ deposits = [i \in Invoices |-> 0]
    /\ periods = [i \in Invoices |-> 0]
    /\ spc = [s \in Sessions |-> "idle"]
    /\ spay \in [Sessions -> {CHOOSE p \in Payments : TRUE}]
    /\ sstatus = [s \in Sessions |-> "absent"]
    /\ sext = [s \in Sessions |-> None]
    /\ paid = {}
    /\ answered = {}
    /\ duplicatesLeft = MaxDuplicates
    /\ faultsLeft = MaxFaults

Fault ==
    /\ faultsLeft > 0
    /\ faultsLeft' = faultsLeft - 1
    /\ UNCHANGED duplicatesLeft

-----------------------------------------------------------------------------
(* The top-up request.                                                     *)

Request(i) ==
    /\ stage[i] = "start"
    /\ Cardinality({j \in Invoices : stage[j] # "start"}) < MaxRequests

\* A saved card is charged while the invoice is only flushed.
Charge(i) ==
    /\ Request(i)
    /\ Kind[i] \in Instant
    /\ stage' = [stage EXCEPT ![i] = "charged"]
    /\ paid' = paid \union {p \in Payments : InvoiceOf[p] = i}
    /\ UNCHANGED <<invoiceVars, effectVars, sessionVars, answered, bounds>>

\* external_id as the first commit writes it.
FirstExternal(i) ==
    CASE Kind[i] = "token" -> CHOOSE p \in Payments : InvoiceOf[p] = i
      [] Kind[i] = "order" -> OrderId
      [] OTHER             -> None

CommitInvoice(i) ==
    /\ IF Kind[i] \in Instant THEN stage[i] = "charged" ELSE Request(i)
    /\ status' = [status EXCEPT ![i] = "PENDING"]
    /\ ext' = [ext EXCEPT ![i] = FirstExternal(i)]
    /\ stage' = [stage EXCEPT ![i] = IF Kind[i] \in TipTop THEN "done" ELSE "link"]
    /\ UNCHANGED <<effectVars, sessionVars, paid, answered, bounds>>

\* Mutant: the second commit writes the whole row back.
CommitExternalWholeRow(i) ==
    /\ stage[i] = "link"
    /\ \E p \in Payments : InvoiceOf[p] = i /\ ext' = [ext EXCEPT ![i] = p]
    /\ status' = [status EXCEPT ![i] = "PENDING"]
    /\ stage' = [stage EXCEPT ![i] = "done"]
    /\ UNCHANGED <<effectVars, sessionVars, paid, answered, bounds>>

\* Stripe's second commit writes the one column that changed.
CommitExternal(i) ==
    /\ stage[i] = "link"
    /\ \E p \in Payments : InvoiceOf[p] = i /\ ext' = [ext EXCEPT ![i] = p]
    /\ stage' = [stage EXCEPT ![i] = "done"]
    /\ UNCHANGED <<status, effectVars, sessionVars, paid, answered, bounds>>

\* The request dies; its open transaction is rolled back, a charge is not.
RequestDies(i) ==
    /\ stage[i] \in {"charged", "link"}
    /\ Fault
    /\ stage' = [stage EXCEPT ![i] = "dead"]
    /\ UNCHANGED <<invoiceVars, effectVars, sessionVars, paid, answered>>

\* The customer pays on the page or in the widget the response pointed to.
Pay(p) ==
    /\ Kind[InvoiceOf[p]] \notin Instant
    /\ stage[InvoiceOf[p]] = "done"
    /\ p \notin paid
    /\ paid' = paid \union {p}
    /\ UNCHANGED <<stage, invoiceVars, effectVars, sessionVars, answered, bounds>>

-----------------------------------------------------------------------------
(* The webhook handlers.                                                   *)

\* Mutant: every handler keeps the invoice it read.
HoldsAlways(i) == TRUE

\* link_stripe_session_to_invoice drops the object it read; the handlers of
\* TipTop and of payment_intent.succeeded keep theirs.
Holds(i) == Kind[i] # "checkout"

\* Mutant: a notification that reports no payment is taken for one.
BeginUnpaid(s, p) ==
    /\ spc[s] = "idle"
    /\ spc' = [spc EXCEPT ![s] = "settle"]
    /\ spay' = [spay EXCEPT ![s] = p]
    /\ UNCHANGED <<stage, invoiceVars, effectVars, sstatus, sext, paid, answered, faultsLeft>>

Begin(s, p) ==
    LET i == InvoiceOf[p] IN
    /\ spc[s] = "idle"
    /\ p \in paid
    /\ spc' = [spc EXCEPT ![s] = "settle"]
    /\ spay' = [spay EXCEPT ![s] = p]
    /\ sstatus' = [sstatus EXCEPT ![s] = IF Holds(i) THEN status[i] ELSE "absent"]
    /\ sext' = [sext EXCEPT ![s] = IF Holds(i) THEN ext[i] ELSE None]
    /\ UNCHANGED <<stage, invoiceVars, effectVars, paid, answered, faultsLeft>>

InFlight(p) == \E s \in Sessions : spc[s] = "settle" /\ spay[s] = p

\* The provider notifies again until it is answered ...
Notify(s, p) ==
    /\ p \notin answered
    /\ ~InFlight(p)
    /\ Begin(s, p)
    /\ UNCHANGED duplicatesLeft

\* ... and now and then without waiting for an answer, or in spite of it.
NotifyAgain(s, p) ==
    /\ duplicatesLeft > 0
    /\ duplicatesLeft' = duplicatesLeft - 1
    /\ Begin(s, p)

\* external_id once the handler has filled in one it saw empty.
Linked(s) ==
    LET p == spay[s]
        i == InvoiceOf[p]
    IN IF \/ sstatus[s] # "absent" /\ sext[s] = None
          \/ ~Holds(i) /\ status[i] # "absent" /\ ext[i] = None
       THEN p ELSE ext[i]

\* Mutant: TipTop's handler does not try again with the invoice id.
FoundByPaymentOnly(s) ==
    IF status[InvoiceOf[spay[s]]] # "absent" /\ Linked(s) = spay[s] THEN spay[s] ELSE None

\* The reference under which process_successful_payment finds the invoice:
\* the payment's own, or, when TipTop's handler tries again, the invoice id.
Found(s) ==
    LET p == spay[s]
        i == InvoiceOf[p]
    IN IF status[i] # "absent" /\ Linked(s) = p THEN p
       ELSE IF Kind[i] \in TipTop /\ sstatus[s] # "absent" THEN i
       ELSE None

\* The status the locked read shows.
Seen(s) == IF sstatus[s] # "absent" THEN sstatus[s] ELSE status[InvoiceOf[spay[s]]]

\* Mutant: a replay of the reference is not noticed.
CreditWalletAgain(ref) == credits' = [credits EXCEPT ![ref] = @ + 1]

CreditWallet(ref) == credits' = [credits EXCEPT ![ref] = IF @ = 0 THEN 1 ELSE @]

Finish(s) ==
    /\ spc' = [spc EXCEPT ![s] = "idle"]
    /\ sstatus' = [sstatus EXCEPT ![s] = "absent"]
    /\ sext' = [sext EXCEPT ![s] = None]
    /\ UNCHANGED spay

Answer(s) ==
    /\ Finish(s)
    /\ answered' = answered \union {spay[s]}
    /\ UNCHANGED <<stage, paid, bounds>>

\* No invoice, or one that is settled already: 200 and nothing else.
AnswerWithoutEffect(s) ==
    /\ spc[s] = "settle"
    /\ Found(s) = None \/ Seen(s) = "SUCCEEDED"
    /\ Answer(s)
    /\ UNCHANGED <<invoiceVars, effectVars>>

Settle(s) ==
    LET i == InvoiceOf[spay[s]] IN
    /\ spc[s] = "settle"
    /\ Found(s) # None
    /\ Seen(s) # "SUCCEEDED"
    /\ ext' = [ext EXCEPT ![i] = Linked(s)]
    /\ status' = [status EXCEPT ![i] = "SUCCEEDED"]
    /\ CreditWallet(Found(s))
    /\ periods' = IF i \in Plans THEN [periods EXCEPT ![i] = @ + 1] ELSE periods
    /\ deposits' = [deposits EXCEPT ![i] = @ + 1]
    /\ Answer(s)

\* Mutant: the status is committed before the credit is made.
WebhookFailsHalfway(s) ==
    /\ spc[s] = "settle"
    /\ Fault
    /\ Finish(s)
    /\ status' = IF Found(s) = None THEN status
                 ELSE [status EXCEPT ![InvoiceOf[spay[s]]] = "SUCCEEDED"]
    /\ UNCHANGED <<stage, ext, effectVars, paid, answered>>

\* The handler dies or raises before its commit: everything is rolled back
\* and the provider sees no 200.
WebhookFails(s) ==
    /\ spc[s] = "settle"
    /\ Fault
    /\ Finish(s)
    /\ UNCHANGED <<stage, invoiceVars, effectVars, paid, answered>>

-----------------------------------------------------------------------------
RequestStep(i) == Charge(i) \/ CommitInvoice(i) \/ CommitExternal(i)
WebhookStep(s) == AnswerWithoutEffect(s) \/ Settle(s)

Next ==
    \/ \E i \in Invoices : RequestStep(i) \/ RequestDies(i)
    \/ \E p \in Payments : Pay(p)
    \/ \E s \in Sessions, p \in Payments : Notify(s, p) \/ NotifyAgain(s, p)
    \/ \E s \in Sessions : WebhookStep(s) \/ WebhookFails(s)

Spec == Init /\ [][Next]_vars

\* Requests that have begun run on, and a provider goes on notifying.
\* No customer has to pay.
Fairness ==
    /\ \A i \in Invoices : WF_vars(stage[i] # "start" /\ RequestStep(i))
    /\ \A s \in Sessions : WF_vars(WebhookStep(s))
    /\ \A p \in Payments : WF_vars(\E s \in Sessions : Notify(s, p))

FairSpec == Spec /\ Fairness

-----------------------------------------------------------------------------
(* Safety.                                                                 *)

PaymentsOf(i) == {p \in Payments : InvoiceOf[p] = i}

\* Credits never exceed the money taken: an invoice is credited under its
\* own id once or under the ids of payments that were made, once each, never
\* both ways, whatever the sessions still hold of its earlier state.
CreditsBackedByPayments ==
    \A i \in Invoices :
        /\ credits[i] <= 1
        /\ credits[i] > 0 => \E p \in PaymentsOf(i) : p \in paid
        /\ \A p \in PaymentsOf(i) :
            /\ credits[p] <= 1
            /\ credits[p] > 0 => p \in paid /\ credits[i] = 0

\* SUCCEEDED and the wallet credit appear together: no handler that fails
\* half-way leaves one without the other.
SettledIffCredited ==
    \A i \in Invoices :
        status[i] = "SUCCEEDED" <=> \E r \in PaymentsOf(i) \union {i} : credits[r] > 0

\* A plan bought by checkout is extended, and its deposit made, exactly once
\* however many notifications of the session run at the same time.
CheckoutAppliesOnce ==
    \A i \in Invoices : Kind[i] = "checkout" =>
        /\ deposits[i] = IF status[i] = "SUCCEEDED" THEN 1 ELSE 0
        /\ periods[i] = IF i \in Plans THEN deposits[i] ELSE 0

\* A settled invoice stays settled: no late commit of the top-up request and
\* no stale handler takes it back.
SettledIsFinal ==
    [][\A i \in Invoices : status[i] = "SUCCEEDED" => status'[i] = "SUCCEEDED"]_vars

Book == INSTANCE PaymentBook
          WITH taken <- paid,
               booked <- {r \in Refs : credits[r] > 0},
               settled <- {i \in Invoices : status[i] = "SUCCEEDED"}

\* Every step of the requests and handlers takes one payment, or books one
\* backed reference and settles its invoice with it, or leaves all three
\* alone: a stale handler that settles again books nothing a second time.
SettlementIsBook == Book!Spec

(* Liveness. *)

\* What a customer paid after the response is settled in the end, although
\* handlers fail, notifications overlap and the order id is never matched.
RedirectIsSettled ==
    \A p \in Payments : Kind[InvoiceOf[p]] \notin Instant =>
        (p \in paid ~> status[InvoiceOf[p]] = "SUCCEEDED")

(* What the documentation says, and the code does not do. *)

\* "Idempotent settlement": repeated notifications of a payment make one
\* deposit.
DepositedOncePerPayment ==
    \A i \in Invoices : deposits[i] <= Cardinality(paid \intersect PaymentsOf(i))

\* "Settlement always completes through provider webhooks": what was paid is
\* settled.
PaidIsSettled ==
    \A p \in Payments : p \in paid ~> status[InvoiceOf[p]] = "SUCCEEDED"
=============================================================================
