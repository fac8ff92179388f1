------------------------ MODULE MCPaymentSettlement ------------------------
(* Model-checking instances of PaymentSettlement. *)
EXTENDS PaymentSettlement, TLC

CONSTANTS widget, order, token, intent, plan,
          pw1, pw2, po, pt, pi, pp, s1, s2

\* One invoice of every kind, the widget's paid twice.
MCInvoices  == {widget, order, token, intent, plan}
MCPayments  == {pw1, pw2, po, pt, pi, pp}
MCInvoiceOf == (pw1 :> widget) @@ (pw2 :> widget) @@ (po :> order) @@ (pt :> token)
               @@ (pi :> intent) @@ (pp :> plan)
MCKind      == (widget :> "widget") @@ (order :> "order") @@ (token :> "token")
               @@ (intent :> "intent") @@ (plan :> "checkout")
MCPlans     == {plan}
MCSessions  == {s1, s2}

\* A single invoice of one kind, for the documented claims.
MCWidget          == {widget}
MCWidgetPayments  == {pw1}
MCWidgetInvoiceOf == (pw1 :> widget)
MCWidgetKind      == (widget :> "widget")
MCToken           == {token}
MCTokenPayments   == {pt}
MCTokenInvoiceOf  == (pt :> token)
MCTokenKind       == (token :> "token")
MCNoPlan          == {}
=============================================================================
