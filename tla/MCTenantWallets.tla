-------------------------- MODULE MCTenantWallets --------------------------
(* Model-checking instances of TenantWallets. *)
EXTENDS TenantWallets, TLC

CONSTANTS c1, c2, c3, d1, t1, t2, b1, b2, v1, v2, q1, g1, a1, a2

\* Three charges and two receipts, one of each submitted twice at a time, a
\* deposit, a transfer of the owner and one of another member, two answers of
\* the bot, a plan bought and one granted, and two corrections.
MCCharges    == {c1, c2, c3}
MCDeposits   == {d1}
MCTransfers  == {t1, t2}
MCOwners     == {t1}
MCBotCharges == {b1, b2}
MCReceipts   == {v1, v2}
MCPurchases  == {q1}
MCGrants     == {g1}
MCAdditions  == {a1}
MCRemovals   == {a2}

\* The requests that meet: those of the wallet, of the bot, and of the
\* subscription.
MCCasts == {{c1, c2, d1, t1, t2}, {c1, c3, t1, a2}, {t1, b1, b2, a2}, {v1, v2, t2, g1},
            {q1, d1, t2, a1}, {a2, c1, d1}}

MCRefs == {"charge1", "charge2", "deposit", "transfer1", "transfer2", "answer1", "answer2",
           "receipt", "plan", "grant", "addition", "removal"}
MCRef  == (c1 :> "charge1") @@ (c2 :> "charge1") @@ (c3 :> "charge2") @@ (d1 :> "deposit")
          @@ (t1 :> "transfer1") @@ (t2 :> "transfer2") @@ (b1 :> "answer1") @@ (b2 :> "answer2")
          @@ (v1 :> "receipt") @@ (v2 :> "receipt") @@ (q1 :> "plan") @@ (g1 :> "grant")
          @@ (a1 :> "addition") @@ (a2 :> "removal")
MCPrice == [ref \in MCRefs |->
              IF ref \in {"charge1", "transfer1", "addition", "removal"} THEN 2
              ELSE IF ref \in {"answer1", "answer2"} THEN 1 ELSE 3]
MCOpening == ("sub" :> 3) @@ ("wallet" :> 3) @@ ("bot" :> 1)

\* Two transfers of the owner and nothing else.
MCNoRequest  == {}
MCOwnerCasts == {{t1, t2}}
MCOwnerRefs  == {"transfer1", "transfer2"}
MCOwnerRef   == (t1 :> "transfer1") @@ (t2 :> "transfer2")
MCOwnerPrice == ("transfer1" :> 2) @@ ("transfer2" :> 2)
=============================================================================
