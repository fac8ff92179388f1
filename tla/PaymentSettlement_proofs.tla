---------------------- MODULE PaymentSettlement_proofs ----------------------
(***************************************************************************)
(* Proofs about PaymentSettlement, for any invoices, payments and webhook  *)
(* sessions: what its safety properties need to know of the rows and of    *)
(* the copies the sessions hold makes the inductive invariant Inv.         *)
(***************************************************************************)
EXTENDS PaymentSettlement, FiniteSetTheorems, TLAPS

-----------------------------------------------------------------------------
(* The inductive invariant.                                                *)

\* A row exists when its request has committed, and is not paid on a page
\* before.
Requested ==
    \A i \in Invoices :
        /\ stage[i] \in {"start", "charged"} => status[i] = "absent"
        /\ stage[i] \in {"link", "done"} => status[i] # "absent"
        /\ Kind[i] \notin Instant /\ (\E p \in PaymentsOf(i) : p \in paid) => status[i] # "absent"

\* Only Stripe's request commits twice.
Linking == \A i \in Invoices : stage[i] = "link" => Kind[i] \notin TipTop

\* external_id of a row in each of its states.
Externals ==
    \A i \in Invoices :
        /\ Kind[i] = "widget" /\ status[i] = "PENDING" => ext[i] = None
        /\ Kind[i] = "order" /\ status[i] # "absent" => ext[i] = OrderId
        /\ Kind[i] = "token" /\ status[i] # "absent" => ext[i] \in PaymentsOf(i)

\* What a session holds was once the row.
Copies ==
    \A s \in Sessions : spc[s] = "settle" =>
        LET i == InvoiceOf[spay[s]] IN
        /\ spay[s] \in paid
        /\ sstatus[s] # "absent" => status[i] # "absent"
        /\ Kind[i] = "checkout" => sstatus[s] = "absent"
        /\ Kind[i] = "widget" => sstatus[s] # "absent"
        /\ Kind[i] = "widget" /\ sstatus[s] = "PENDING" => sext[s] = None
        /\ Kind[i] = "order" /\ sstatus[s] # "absent" => sext[s] = OrderId
        /\ Kind[i] = "token" /\ sstatus[s] # "absent" => sext[s] \in PaymentsOf(i)

\* An order is credited under the invoice's id, all else under the payment's.
OneReference ==
    /\ \A i \in Invoices : Kind[i] # "order" => credits[i] = 0
    /\ \A p \in Payments : Kind[InvoiceOf[p]] = "order" => credits[p] = 0

Inv ==
    /\ TypeOK
    /\ Requested /\ Linking /\ Externals /\ Copies /\ OneReference
    /\ CreditsBackedByPayments /\ SettledIffCredited /\ CheckoutAppliesOnce

-----------------------------------------------------------------------------
(* Facts about the constants and the helpers.                              *)

LEMMA Constants ==
    /\ \A p \in Payments : InvoiceOf[p] \in Invoices /\ p \in Refs /\ p # None /\ p # OrderId
    /\ \A i \in Invoices : i \in Refs /\ i \notin Payments /\ i # None
    /\ \A p, q \in Payments :
        InvoiceOf[p] = InvoiceOf[q] /\ Kind[InvoiceOf[p]] \notin {"widget", "order"} => p = q
    /\ None # OrderId
  BY PaymentsAssumption, NamesAssumption DEF Refs

\* The handler settles an order by the invoice id, all else by the payment.
LEMMA FoundByKind ==
    ASSUME TypeOK, Requested, Externals, Copies,
           NEW s \in Sessions, spc[s] = "settle", Found(s) # None, Seen(s) # "SUCCEEDED"
    PROVE  LET i == InvoiceOf[spay[s]] IN
           /\ status[i] # "absent"
           /\ Found(s) = IF Kind[i] = "order" THEN i ELSE spay[s]
           /\ Kind[i] \in {"order", "token"} => Linked(s) = ext[i]
           /\ Linked(s) \in External
  <1> DEFINE p == spay[s]
             i == InvoiceOf[spay[s]]
  <1>0. p \in Payments /\ i \in Invoices /\ p # None /\ p # OrderId /\ i # None
    BY Constants DEF TypeOK
  <1>1. status[i] # "absent"
    BY <1>0 DEF Copies, Found
  <1>2. Linked(s) \in {p, ext[i]} /\ ext[i] \in External
    BY <1>0 DEF Linked, TypeOK
  <1>3. Linked(s) \in External
    BY <1>0, <1>2 DEF External
  <1>4. CASE Kind[i] = "order"
    <2>1. Linked(s) = OrderId /\ ext[i] = OrderId
      BY <1>0, <1>1, <1>4, Constants DEF Copies, Externals, Linked, Holds
    <2>2. QED
      BY <1>0, <1>1, <1>3, <1>4, <2>1 DEF Found
  <1>5. CASE Kind[i] = "widget"
    <2>1. sstatus[s] = "PENDING" /\ sext[s] = None
      BY <1>0, <1>5 DEF Copies, Seen, TypeOK, Statuses
    <2>2. Linked(s) = p
      BY <2>1 DEF Linked
    <2>3. QED
      BY <1>1, <1>3, <1>5, <2>2 DEF Found
  <1>6. CASE Kind[i] = "token"
    <2>1. ext[i] = p
      BY <1>0, <1>1, <1>6, Constants DEF Externals, PaymentsOf
    <2>2. Linked(s) = p
      BY <1>2, <2>1
    <2>3. QED
      BY <1>1, <1>3, <1>6, <2>1, <2>2 DEF Found
  <1>7. CASE Kind[i] \notin TipTop
    BY <1>0, <1>1, <1>3, <1>7 DEF Found, TipTop
  <1>8. QED
    BY <1>4, <1>5, <1>6, <1>7 DEF TipTop

LEMMA InitInv == Init => Inv
  <1> SUFFICES ASSUME Init PROVE Inv
    OBVIOUS
  <1>1. (CHOOSE p \in Payments : TRUE) \in Payments
    BY NamesAssumption
  <1>2. TypeOK
    BY <1>1, BoundsAssumption DEF Init, TypeOK, Statuses, External
  <1>3. Requested /\ Linking /\ Externals /\ Copies
    BY DEF Init, Requested, Linking, Externals, Copies, PaymentsOf
  <1>4. OneReference /\ CreditsBackedByPayments /\ SettledIffCredited /\ CheckoutAppliesOnce
    BY Constants DEF Init, OneReference, CreditsBackedByPayments, SettledIffCredited,
                     CheckoutAppliesOnce, PaymentsOf
  <1>5. QED
    BY <1>2, <1>3, <1>4 DEF Inv

-----------------------------------------------------------------------------
(* The top-up request preserves the invariant.                             *)

LEMMA FirstExternalTypes ==
    ASSUME NEW i \in Invoices
    PROVE  /\ FirstExternal(i) \in External
           /\ Kind[i] = "token" => FirstExternal(i) \in PaymentsOf(i)
           /\ Kind[i] = "order" => FirstExternal(i) = OrderId
           /\ Kind[i] \notin {"token", "order"} => FirstExternal(i) = None
  <1>1. (CHOOSE p \in Payments : InvoiceOf[p] = i) \in PaymentsOf(i)
    BY PaymentsAssumption DEF PaymentsOf
  <1>2. QED
    BY <1>1 DEF FirstExternal, External, PaymentsOf

LEMMA RequestInv ==
    ASSUME Inv, NEW i \in Invoices, RequestStep(i) \/ RequestDies(i)
    PROVE  Inv'
  <1> USE DEF Inv
  <1>1. CASE Charge(i)
    <2>1. TypeOK'
      BY <1>1 DEF Charge, Request, TypeOK, invoiceVars, effectVars, sessionVars, bounds
    <2>2. Requested' /\ Linking' /\ Externals' /\ Copies'
      BY <1>1, Constants DEF Charge, Request, Requested, Linking, Externals, Copies, invoiceVars, sessionVars,
                  TypeOK, PaymentsOf
    <2>3. OneReference' /\ CreditsBackedByPayments' /\ SettledIffCredited' /\ CheckoutAppliesOnce'
      BY <1>1 DEF Charge, OneReference, CreditsBackedByPayments, SettledIffCredited,
                  CheckoutAppliesOnce, invoiceVars, effectVars, PaymentsOf
    <2>4. QED
      BY <2>1, <2>2, <2>3
  <1>2. CASE CommitInvoice(i)
    <2>0. /\ stage[i] \in {"start", "charged"} /\ status[i] = "absent"
          /\ stage' = [stage EXCEPT ![i] = IF Kind[i] \in TipTop THEN "done" ELSE "link"]
          /\ status' = [status EXCEPT ![i] = "PENDING"]
          /\ ext' = [ext EXCEPT ![i] = FirstExternal(i)]
          /\ UNCHANGED <<effectVars, sessionVars, paid, answered, bounds>>
      BY <1>2 DEF CommitInvoice, Request, Requested
    <2>1. TypeOK'
      BY <2>0, FirstExternalTypes DEF TypeOK, effectVars, sessionVars, bounds, Statuses
    <2>2. Requested' /\ Linking'
      BY <2>0 DEF Requested, Linking, TypeOK, PaymentsOf
    <2>3. Externals'
      BY <2>0, FirstExternalTypes DEF Externals, TypeOK, PaymentsOf
    <2>4. Copies'
      BY <2>0, Constants DEF Copies, sessionVars, TypeOK, PaymentsOf
    <2>5. OneReference' /\ CreditsBackedByPayments' /\ SettledIffCredited' /\ CheckoutAppliesOnce'
      BY <2>0 DEF OneReference, CreditsBackedByPayments, SettledIffCredited,
                  CheckoutAppliesOnce, effectVars, PaymentsOf, TypeOK
    <2>6. QED
      BY <2>1, <2>2, <2>3, <2>4, <2>5
  <1>3. CASE CommitExternal(i)
    <2>0. /\ stage[i] = "link" /\ status[i] # "absent"
          /\ stage' = [stage EXCEPT ![i] = "done"]
          /\ \E p \in PaymentsOf(i) : ext' = [ext EXCEPT ![i] = p]
          /\ UNCHANGED <<status, effectVars, sessionVars, paid, answered, bounds>>
      BY <1>3 DEF CommitExternal, Requested, PaymentsOf
    <2>1. Kind[i] \notin TipTop
      BY <2>0 DEF Linking
    <2>2. TypeOK'
      BY <2>0 DEF TypeOK, effectVars, sessionVars, bounds, PaymentsOf, External
    <2>3. Requested' /\ Externals' /\ Copies'
      BY <2>0, <2>1, Constants DEF Requested, Externals, Copies, sessionVars, TypeOK, PaymentsOf, TipTop
    <2>4. Linking'
      BY <2>0 DEF Linking, TypeOK
    <2>5. OneReference' /\ CreditsBackedByPayments' /\ SettledIffCredited' /\ CheckoutAppliesOnce'
      BY <2>0 DEF OneReference, CreditsBackedByPayments, SettledIffCredited,
                  CheckoutAppliesOnce, effectVars, PaymentsOf
    <2>6. QED
      BY <2>2, <2>3, <2>4, <2>5
  <1>4. CASE RequestDies(i)
    <2>1. TypeOK'
      BY <1>4 DEF RequestDies, Fault, TypeOK, invoiceVars, effectVars, sessionVars
    <2>2. Requested' /\ Linking' /\ Externals' /\ Copies'
      BY <1>4 DEF RequestDies, Requested, Linking, Externals, Copies, invoiceVars, sessionVars, TypeOK, PaymentsOf
    <2>3. OneReference' /\ CreditsBackedByPayments' /\ SettledIffCredited' /\ CheckoutAppliesOnce'
      BY <1>4 DEF RequestDies, OneReference, CreditsBackedByPayments, SettledIffCredited,
                  CheckoutAppliesOnce, invoiceVars, effectVars, PaymentsOf
    <2>4. QED
      BY <2>1, <2>2, <2>3
  <1>5. QED
    BY <1>1, <1>2, <1>3, <1>4 DEF RequestStep

LEMMA PayInv ==
    ASSUME Inv, NEW p \in Payments, Pay(p)
    PROVE  Inv'
  <1> USE DEF Inv
  <1>0. InvoiceOf[p] \in Invoices
    BY Constants
  <1>1. TypeOK'
    BY DEF Pay, TypeOK, invoiceVars, effectVars, sessionVars, bounds
  <1>2. Requested' /\ Linking' /\ Externals' /\ Copies'
    BY <1>0 DEF Pay, Requested, Linking, Externals, Copies, invoiceVars, sessionVars, PaymentsOf
  <1>3. OneReference' /\ CreditsBackedByPayments' /\ SettledIffCredited' /\ CheckoutAppliesOnce'
    BY DEF Pay, OneReference, CreditsBackedByPayments, SettledIffCredited,
           CheckoutAppliesOnce, invoiceVars, effectVars, PaymentsOf
  <1>4. QED
    BY <1>1, <1>2, <1>3

-----------------------------------------------------------------------------
(* The webhook handlers preserve the invariant.                            *)

LEMMA BeginInv ==
    ASSUME Inv, NEW s \in Sessions, NEW p \in Payments, Notify(s, p) \/ NotifyAgain(s, p)
    PROVE  Inv'
  <1> USE DEF Inv
  <1>0. /\ Begin(s, p) /\ InvoiceOf[p] \in Invoices /\ p \in paid
        /\ duplicatesLeft' \in Nat
    BY Constants DEF Notify, NotifyAgain, Begin, TypeOK
  <1>1. TypeOK'
    BY <1>0 DEF Begin, TypeOK, invoiceVars, effectVars, Statuses, External
  <1>2. Requested' /\ Linking' /\ Externals'
    BY <1>0 DEF Begin, Requested, Linking, Externals, invoiceVars, PaymentsOf
  <1>3. Copies'
    <2>1. UNCHANGED <<status, paid>>
      BY <1>0 DEF Begin, invoiceVars
    <2>2. ASSUME NEW q \in Sessions, spc'[q] = "settle", q # s
          PROVE  /\ spc[q] = "settle"
                 /\ spay'[q] = spay[q] /\ sstatus'[q] = sstatus[q] /\ sext'[q] = sext[q]
      BY <1>0, <2>2 DEF Begin, TypeOK
    <2>3. /\ spay'[s] = p
          /\ sstatus'[s] = IF Holds(InvoiceOf[p]) THEN status[InvoiceOf[p]] ELSE "absent"
          /\ sext'[s] = IF Holds(InvoiceOf[p]) THEN ext[InvoiceOf[p]] ELSE None
      BY <1>0 DEF Begin, TypeOK
    <2>4. Kind[InvoiceOf[p]] = "widget" => status[InvoiceOf[p]] # "absent"
      BY <1>0 DEF Requested, PaymentsOf, Instant
    <2>5. QED
      BY <1>0, <2>1, <2>2, <2>3, <2>4 DEF Copies, Externals, Holds, PaymentsOf
  <1>4. OneReference' /\ CreditsBackedByPayments' /\ SettledIffCredited' /\ CheckoutAppliesOnce'
    BY <1>0 DEF Begin, OneReference, CreditsBackedByPayments, SettledIffCredited,
                CheckoutAppliesOnce, invoiceVars, effectVars, PaymentsOf
  <1>5. QED
    BY <1>1, <1>2, <1>3, <1>4

\* A session that ends leaves the copies of the others alone.
LEMMA FinishCopies ==
    ASSUME Inv, NEW s \in Sessions, Finish(s), UNCHANGED paid,
           \A i \in Invoices : status[i] # "absent" => status'[i] # "absent"
    PROVE  Copies'
  <1> USE DEF Inv
  <1>1. ASSUME NEW q \in Sessions, spc'[q] = "settle"
        PROVE  /\ spc[q] = "settle" /\ spay'[q] = spay[q] /\ InvoiceOf[spay[q]] \in Invoices
               /\ sstatus'[q] = sstatus[q] /\ sext'[q] = sext[q]
    BY <1>1, Constants DEF Finish, TypeOK
  <1>2. QED
    BY <1>1 DEF Copies, PaymentsOf

LEMMA SettleInv ==
    ASSUME Inv, NEW s \in Sessions, Settle(s)
    PROVE  Inv'
  <1> USE DEF Inv
  <1> DEFINE p == spay[s]
             i == InvoiceOf[spay[s]]
             ref == Found(s)
  <1>0. /\ p \in Payments /\ i \in Invoices /\ p \in paid
        /\ p \in Refs /\ i \in Refs /\ p # i
    BY Constants DEF TypeOK, Settle, Copies
  <1>1. /\ status[i] # "absent"
        /\ ref = IF Kind[i] = "order" THEN i ELSE p
        /\ Kind[i] \in {"order", "token"} => Linked(s) = ext[i]
        /\ Linked(s) \in External
    BY FoundByKind DEF Settle
  <1>2. /\ status' = [status EXCEPT ![i] = "SUCCEEDED"]
        /\ ext' = [ext EXCEPT ![i] = Linked(s)]
        /\ credits' = [credits EXCEPT ![ref] = IF @ = 0 THEN 1 ELSE @]
        /\ periods' = IF i \in Plans THEN [periods EXCEPT ![i] = @ + 1] ELSE periods
        /\ deposits' = [deposits EXCEPT ![i] = @ + 1]
        /\ answered' = answered \union {p}
        /\ Finish(s) /\ UNCHANGED <<stage, paid, bounds>>
    BY DEF Settle, CreditWallet, Answer
  <1> HIDE DEF ref
  <1>3. ref \in Refs
    BY <1>0, <1>1
  <1>4. /\ credits'[ref] > 0
        /\ credits[ref] <= 1 => credits'[ref] <= 1
        /\ \A r \in Refs : r # ref => credits'[r] = credits[r]
        /\ credits' \in [Refs -> Nat]
    BY <1>2, <1>3 DEF TypeOK
  <1>5. TypeOK'
    BY <1>0, <1>1, <1>2, <1>4 DEF TypeOK, Finish, bounds, Statuses, External
  <1>6. Requested' /\ Linking' /\ Externals'
    BY <1>0, <1>1, <1>2 DEF Requested, Linking, Externals, TypeOK, PaymentsOf
  <1>7. Copies'
    <2>1. \A j \in Invoices : status[j] # "absent" => status'[j] # "absent"
      BY <1>2 DEF TypeOK
    <2>2. QED
      BY <1>2, <2>1, FinishCopies
  <1>8. OneReference'
    BY <1>0, <1>1, <1>4, Constants DEF OneReference
  <1>9. CreditsBackedByPayments'
    <2>1. ASSUME NEW j \in Invoices
          PROVE  /\ credits'[j] <= 1
                 /\ credits'[j] > 0 => \E q \in PaymentsOf(j) : q \in paid
      BY <1>0, <1>1, <1>4, Constants DEF CreditsBackedByPayments, PaymentsOf
    <2>2. ASSUME NEW q \in Payments
          PROVE  /\ credits'[q] <= 1
                 /\ credits'[q] > 0 => q \in paid /\ credits'[InvoiceOf[q]] = 0
      <3>1. credits'[q] <= 1 /\ (credits'[q] > 0 => q \in paid)
        BY <1>0, <1>1, <1>4, Constants DEF CreditsBackedByPayments, PaymentsOf
      <3>2. credits'[q] > 0 => credits'[InvoiceOf[q]] = 0
        BY <1>4, <1>8, Constants DEF OneReference
      <3>3. QED
        BY <3>1, <3>2
    <2>3. QED
      BY <1>2, <2>1, <2>2 DEF CreditsBackedByPayments, PaymentsOf
  <1>10. SettledIffCredited'
    <2>1. ref \in PaymentsOf(i) \union {i}
      BY <1>0, <1>1 DEF PaymentsOf
    <2>2. ASSUME NEW j \in Invoices, j # i, NEW r \in PaymentsOf(j) \union {j}
          PROVE  credits'[r] = credits[r] /\ status'[j] = status[j]
      BY <1>0, <1>1, <1>2, <1>4, <2>2, Constants DEF PaymentsOf, TypeOK
    <2>3. status'[i] = "SUCCEEDED"
      BY <1>0, <1>2 DEF TypeOK
    <2>4. QED
      BY <1>4, <2>1, <2>2, <2>3 DEF SettledIffCredited, PaymentsOf
  <1>11. CheckoutAppliesOnce'
    <2>1. Kind[i] = "checkout" => status[i] = "PENDING"
      BY <1>0, <1>1 DEF Settle, Seen, Copies, TypeOK, Statuses
    <2>2. QED
      BY <1>0, <1>2, <2>1, PlansAssumption DEF CheckoutAppliesOnce, TypeOK
  <1>12. QED
    BY <1>5, <1>6, <1>7, <1>8, <1>9, <1>10, <1>11

LEMMA AnswerInv ==
    ASSUME Inv, NEW s \in Sessions, AnswerWithoutEffect(s) \/ WebhookFails(s)
    PROVE  Inv'
  <1> USE DEF Inv
  <1>0. /\ Finish(s) /\ UNCHANGED <<stage, invoiceVars, effectVars, paid>>
        /\ answered' \subseteq answered \union {spay[s]} /\ spay[s] \in paid
        /\ duplicatesLeft' \in Nat /\ faultsLeft' \in Nat
    BY DEF AnswerWithoutEffect, WebhookFails, Answer, Fault, bounds, Copies, TypeOK
  <1>1. TypeOK'
    BY <1>0 DEF Finish, TypeOK, invoiceVars, effectVars, Statuses, External
  <1>2. Requested' /\ Linking' /\ Externals'
    BY <1>0 DEF Requested, Linking, Externals, invoiceVars, PaymentsOf
  <1>3. Copies'
    BY <1>0, FinishCopies DEF invoiceVars
  <1>4. OneReference' /\ CreditsBackedByPayments' /\ SettledIffCredited' /\ CheckoutAppliesOnce'
    BY <1>0 DEF OneReference, CreditsBackedByPayments, SettledIffCredited,
                CheckoutAppliesOnce, invoiceVars, effectVars, PaymentsOf
  <1>5. QED
    BY <1>1, <1>2, <1>3, <1>4

LEMMA StepInv == Inv /\ [Next]_vars => Inv'
  <1> SUFFICES ASSUME Inv, [Next]_vars PROVE Inv'
    OBVIOUS
  <1>1. CASE UNCHANGED vars
    BY <1>1 DEF vars, requestVars, invoiceVars, effectVars, sessionVars, bounds, Inv, TypeOK,
                Requested, Linking, Externals, Copies, OneReference, CreditsBackedByPayments,
                SettledIffCredited, CheckoutAppliesOnce, PaymentsOf
  <1>2. CASE \E i \in Invoices : RequestStep(i) \/ RequestDies(i)
    BY <1>2, RequestInv
  <1>3. CASE \E p \in Payments : Pay(p)
    BY <1>3, PayInv
  <1>4. CASE \E s \in Sessions, p \in Payments : Notify(s, p) \/ NotifyAgain(s, p)
    BY <1>4, BeginInv
  <1>5. CASE \E s \in Sessions : WebhookStep(s) \/ WebhookFails(s)
    BY <1>5, SettleInv, AnswerInv DEF WebhookStep
  <1>6. QED
    BY <1>1, <1>2, <1>3, <1>4, <1>5 DEF Next

-----------------------------------------------------------------------------
(* What follows from the invariant.                                        *)

\* The invariant holds in every reachable state of every instance.
THEOREM Invariance == Spec => []Inv
  <1>1. QED
    BY InitInv, StepInv, PTL DEF Spec

\* Rows, copies and effects keep their types.
THEOREM TypeCorrect == Spec => []TypeOK
  <1>1. Inv => TypeOK
    BY DEF Inv
  <1>2. QED
    BY <1>1, Invariance, PTL

\* process_successful_payment never credits what was not paid, and never
\* credits a payment twice, stale copies or not.
THEOREM CreditsBacked == Spec => []CreditsBackedByPayments
  <1>1. Inv => CreditsBackedByPayments
    BY DEF Inv
  <1>2. QED
    BY <1>1, Invariance, PTL

\* The status and the wallet credit of an invoice are committed together.
THEOREM SettledMeansCredited == Spec => []SettledIffCredited
  <1>1. Inv => SettledIffCredited
    BY DEF Inv
  <1>2. QED
    BY <1>1, Invariance, PTL

\* The handler of checkout.session.completed settles a session once.
THEOREM CheckoutOnce == Spec => []CheckoutAppliesOnce
  <1>1. Inv => CheckoutAppliesOnce
    BY DEF Inv
  <1>2. QED
    BY <1>1, Invariance, PTL

\* No commit takes a settlement back.
THEOREM SettlementStays == Spec => SettledIsFinal
  <1>1. Inv /\ [Next]_vars =>
          [\A i \in Invoices : status[i] = "SUCCEEDED" => status'[i] = "SUCCEEDED"]_vars
    <2> SUFFICES ASSUME Inv, Next, NEW i \in Invoices, status[i] = "SUCCEEDED"
                 PROVE  status'[i] = "SUCCEEDED"
      OBVIOUS
    <2> USE DEF Inv, TypeOK
    <2>1. ASSUME NEW j \in Invoices, RequestStep(j) \/ RequestDies(j)
          PROVE  status'[i] = "SUCCEEDED"
      BY <2>1 DEF RequestStep, Charge, CommitInvoice, CommitExternal, RequestDies, Request,
                  Requested, invoiceVars
    <2>2. ASSUME NEW s \in Sessions, WebhookStep(s) \/ WebhookFails(s)
          PROVE  status'[i] = "SUCCEEDED"
      BY <2>2 DEF WebhookStep, AnswerWithoutEffect, Settle, WebhookFails, invoiceVars
    <2>3. ASSUME \/ \E p \in Payments : Pay(p)
                 \/ \E s \in Sessions, p \in Payments : Notify(s, p) \/ NotifyAgain(s, p)
          PROVE  status'[i] = "SUCCEEDED"
      BY <2>3 DEF Pay, Notify, NotifyAgain, Begin, invoiceVars
    <2>4. QED
      BY <2>1, <2>2, <2>3 DEF Next
  <1>2. QED
    BY <1>1, Invariance, PTL DEF Spec, SettledIsFinal

-----------------------------------------------------------------------------
(* The settlement implements PaymentBook.                                  *)

\* The references booked and the invoices settled, as PaymentBook sees them.
Booked  == {r \in Refs : credits[r] > 0}
Settled == {i \in Invoices : status[i] = "SUCCEEDED"}

\* A top-up request takes at most one payment and settles nothing.
LEMMA RequestBooks ==
    ASSUME Inv, NEW i \in Invoices, RequestStep(i) \/ RequestDies(i)
    PROVE  Book!Next \/ UNCHANGED <<paid, Booked, Settled>>
  <1> USE DEF Inv
  <1>1. CASE Charge(i)
    <2>1. PICK p \in Payments : InvoiceOf[p] = i
      BY PaymentsAssumption
    <2>2. \A q \in Payments : InvoiceOf[q] = i => q = p
      BY <1>1, <2>1, PaymentsAssumption DEF Charge, Instant
    <2>3. paid' = paid \union {p} /\ UNCHANGED <<Booked, Settled>>
      BY <1>1, <2>1, <2>2 DEF Charge, Booked, Settled, invoiceVars, effectVars
    <2>4. CASE p \in paid
      BY <2>3, <2>4
    <2>5. CASE p \notin paid
      BY <2>3, <2>5 DEF Book!Next, Book!Take, Booked, Settled
    <2>6. QED
      BY <2>4, <2>5
  <1>2. CASE CommitInvoice(i)
    <2>1. status[i] = "absent" /\ status' = [status EXCEPT ![i] = "PENDING"]
          /\ UNCHANGED <<effectVars, paid>>
      BY <1>2 DEF CommitInvoice, Request, Requested
    <2>2. Settled' = Settled
      BY <2>1 DEF Settled, TypeOK
    <2>3. QED
      BY <2>1, <2>2 DEF Booked, effectVars
  <1>3. CASE CommitExternal(i) \/ RequestDies(i)
    BY <1>3 DEF CommitExternal, RequestDies, Booked, Settled, invoiceVars, effectVars
  <1>4. QED
    BY <1>1, <1>2, <1>3 DEF RequestStep

\* A settlement books the reference it found, or has been booked before.
LEMMA SettleBooks ==
    ASSUME Inv, NEW s \in Sessions, Settle(s)
    PROVE  Book!Next \/ UNCHANGED <<paid, Booked, Settled>>
  <1> USE DEF Inv
  <1> DEFINE p == spay[s]
             i == InvoiceOf[spay[s]]
             ref == Found(s)
  <1>1. /\ p \in Payments /\ i \in Invoices /\ p \in paid
        /\ ref = IF Kind[i] = "order" THEN i ELSE p
        /\ ref \in Refs
    BY FoundByKind, Constants DEF TypeOK, Settle, Copies
  <1>2. /\ status' = [status EXCEPT ![i] = "SUCCEEDED"]
        /\ credits' = [credits EXCEPT ![ref] = IF @ = 0 THEN 1 ELSE @]
        /\ UNCHANGED paid
    BY DEF Settle, CreditWallet, Answer
  <1> HIDE DEF ref
  <1>3. Booked' = Booked \union {ref} /\ Settled' = Settled \union {i}
    BY <1>1, <1>2 DEF Booked, Settled, TypeOK
  <1>4. CASE ref \in Booked
    <2>1. i \in Settled
      BY <1>1, <1>4 DEF Booked, Settled, SettledIffCredited, PaymentsOf
    <2>2. QED
      BY <1>2, <1>3, <1>4, <2>1
  <1>5. CASE ref \notin Booked /\ Kind[i] = "order"
    <2>1. \A q \in Booked \intersect Payments : InvoiceOf[q] # i
      BY <1>5, <1>1 DEF Booked, OneReference
    <2>2. Book!BookInvoice(i)
      BY <1>1, <1>2, <1>3, <1>5, <2>1 DEF Book!BookInvoice, Booked, Settled
    <2>3. QED
      BY <1>1, <2>2 DEF Book!Next, Book!BookInvoice
  <1>6. CASE ref \notin Booked /\ Kind[i] # "order"
    <2>1. i \notin Booked
      BY <1>1, <1>6 DEF Booked, OneReference
    <2>2. Book!BookPayment(p)
      BY <1>1, <1>2, <1>3, <1>6, <2>1 DEF Book!BookPayment, Booked, Settled
    <2>3. QED
      BY <1>1, <2>2 DEF Book!Next, Book!BookPayment
  <1>7. QED
    BY <1>4, <1>5, <1>6

LEMMA StepBooks == Inv /\ [Next]_vars => [Book!Next]_<<paid, Booked, Settled>>
  <1> SUFFICES ASSUME Inv, [Next]_vars
               PROVE  Book!Next \/ UNCHANGED <<paid, Booked, Settled>>
    OBVIOUS
  <1>1. CASE UNCHANGED vars
    BY <1>1 DEF vars, invoiceVars, effectVars, Booked, Settled
  <1>2. CASE \E i \in Invoices : RequestStep(i) \/ RequestDies(i)
    BY <1>2, RequestBooks
  <1>3. ASSUME NEW p \in Payments, Pay(p) PROVE Book!Next
    BY <1>3 DEF Pay, Book!Next, Book!Take, Booked, Settled, invoiceVars, effectVars
  <1>4. CASE \E s \in Sessions, p \in Payments : Notify(s, p) \/ NotifyAgain(s, p)
    BY <1>4 DEF Notify, NotifyAgain, Begin, Booked, Settled, invoiceVars, effectVars
  <1>5. ASSUME NEW s \in Sessions, AnswerWithoutEffect(s) \/ WebhookFails(s)
        PROVE  UNCHANGED <<paid, Booked, Settled>>
    BY <1>5 DEF AnswerWithoutEffect, WebhookFails, Answer, Booked, Settled, invoiceVars, effectVars
  <1>6. QED
    BY <1>1, <1>2, <1>3, <1>4, <1>5, SettleBooks DEF Next, WebhookStep

\* The settlement of invoices through process_successful_payment implements
\* the book of payments, whatever its sessions hold of the rows.
THEOREM SettlementImplementsBook == Spec => SettlementIsBook
  <1>1. Init => Book!Init
    BY DEF Init, Book!Init
  <1>2. Inv /\ [Next]_vars => [Book!Next]_<<paid, Booked, Settled>>
    BY StepBooks
  <1>3. QED
    BY <1>1, <1>2, Invariance, PTL DEF Spec, SettlementIsBook, Book!Spec, Booked, Settled

-----------------------------------------------------------------------------
(* Where DepositedOncePerPayment, which overlapping notifications violate, *)
(* holds.                                                                  *)

\* No two handlers are at work on one invoice.
NoOverlap ==
    \A s, t \in Sessions :
        /\ spc[s] = "settle" /\ spc[t] = "settle"
        /\ InvoiceOf[spay[s]] = InvoiceOf[spay[t]]
        => s = t

\* What a handler holds is the row, and a settled invoice has one deposit.
Serial ==
    /\ \A s \in Sessions : spc[s] = "settle" /\ sstatus[s] # "absent" =>
            sstatus[s] = status[InvoiceOf[spay[s]]]
    /\ \A i \in Invoices : deposits[i] = IF status[i] = "SUCCEEDED" THEN 1 ELSE 0

LEMMA SerialStep == Inv /\ NoOverlap /\ Serial /\ [Next]_vars => Serial'
  <1> SUFFICES ASSUME Inv, NoOverlap, Serial, [Next]_vars PROVE Serial'
    OBVIOUS
  <1> USE DEF Inv
  <1>1. CASE UNCHANGED vars
    BY <1>1 DEF vars, invoiceVars, effectVars, sessionVars, Serial
  <1>2. ASSUME NEW i \in Invoices, RequestStep(i) \/ RequestDies(i)
        PROVE  Serial'
    <2>1. /\ UNCHANGED <<deposits, sessionVars>>
          /\ \/ UNCHANGED status
             \/ status[i] = "absent" /\ status' = [status EXCEPT ![i] = "PENDING"]
      BY <1>2 DEF RequestStep, Charge, CommitInvoice, CommitExternal, RequestDies, Request,
                  Requested, invoiceVars, effectVars
    <2>2. \A s \in Sessions : spc[s] = "settle" /\ sstatus[s] # "absent" =>
              status[InvoiceOf[spay[s]]] # "absent"
      BY DEF Copies
    <2>3. QED
      BY <2>1, <2>2, Constants DEF Serial, sessionVars, TypeOK
  <1>3. CASE \E p \in Payments : Pay(p)
    BY <1>3 DEF Pay, Serial, invoiceVars, effectVars, sessionVars
  <1>4. ASSUME NEW s \in Sessions, NEW p \in Payments, Notify(s, p) \/ NotifyAgain(s, p)
        PROVE  Serial'
    BY <1>4 DEF Notify, NotifyAgain, Begin, Serial, invoiceVars, effectVars, TypeOK
  <1>5. ASSUME NEW s \in Sessions, AnswerWithoutEffect(s) \/ WebhookFails(s)
        PROVE  Serial'
    BY <1>5 DEF AnswerWithoutEffect, WebhookFails, Answer, Finish, Serial, invoiceVars, effectVars,
                TypeOK
  <1>6. ASSUME NEW s \in Sessions, Settle(s)
        PROVE  Serial'
    <2> DEFINE i == InvoiceOf[spay[s]]
    <2>1. /\ i \in Invoices /\ spc[s] = "settle"
          /\ status' = [status EXCEPT ![i] = "SUCCEEDED"]
          /\ deposits' = [deposits EXCEPT ![i] = @ + 1]
          /\ Finish(s)
      BY <1>6, Constants DEF Settle, Answer, TypeOK
    <2>2. status[i] # "SUCCEEDED"
      BY <1>6, <2>1 DEF Settle, Seen, Serial
    <2>3. ASSUME NEW t \in Sessions, spc'[t] = "settle"
          PROVE  /\ spc[t] = "settle" /\ InvoiceOf[spay[t]] # i
                 /\ spay'[t] = spay[t] /\ sstatus'[t] = sstatus[t]
      BY <2>1, <2>3 DEF Finish, NoOverlap, TypeOK
    <2>4. QED
      BY <2>1, <2>2, <2>3, Constants DEF Serial, TypeOK
  <1>7. QED
    BY <1>1, <1>2, <1>3, <1>4, <1>5, <1>6 DEF Next, WebhookStep

LEMMA SerialOnce == Inv /\ Serial => DepositedOncePerPayment
  <1> SUFFICES ASSUME Inv, Serial, NEW i \in Invoices
               PROVE  deposits[i] <= Cardinality(paid \intersect PaymentsOf(i))
    BY DEF DepositedOncePerPayment
  <1> DEFINE P == paid \intersect PaymentsOf(i)
  <1>1. IsFiniteSet(P)
    BY PaymentsAssumption, FS_Subset DEF PaymentsOf
  <1>2. Cardinality(P) \in Nat /\ (Cardinality(P) = 0 <=> P = {})
    BY <1>1, FS_CardinalityType, FS_EmptySet
  <1>3. status[i] = "SUCCEEDED" => P # {}
    BY DEF Inv, SettledIffCredited, CreditsBackedByPayments, PaymentsOf
  <1> HIDE DEF P
  <1>4. deposits[i] <= Cardinality(P)
    BY <1>2, <1>3 DEF Serial
  <1>5. QED
    BY <1>4 DEF P

\* "Idempotent settlement" holds for the KZT deposit as long as no two
\* notifications of an invoice are handled at the same time: their overlap is
\* the only way to a second deposit.
THEOREM SerialSettlementDepositsOnce == Spec /\ []NoOverlap => []DepositedOncePerPayment
  <1>1. Init => Serial
    BY DEF Init, Serial
  <1>2. Inv /\ NoOverlap /\ Serial /\ [Next]_vars => Serial'
    BY SerialStep
  <1>3. Inv /\ Serial => DepositedOncePerPayment
    BY SerialOnce
  <1>4. QED
    BY <1>1, <1>2, <1>3, Invariance, PTL DEF Spec
=============================================================================
