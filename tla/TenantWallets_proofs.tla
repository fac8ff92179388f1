------------------------ MODULE TenantWallets_proofs ------------------------
(***************************************************************************)
(* Proofs about TenantWallets, for any set of requests, prices and opening *)
(* balances: its safety properties follow from the inductive invariant     *)
(* Inv, and the same invariant shows that the wallet implements            *)
(* CreditLedger except where an outdated mirror is written back.           *)
(***************************************************************************)
EXTENDS TenantWallets, TLAPS

-----------------------------------------------------------------------------
(* The inductive invariant.                                                *)

\* A row is locked by the session that has written it, and what a session
\* holds or has written is a balance.
Sessions ==
    \A r \in Requests, row \in Rows :
        /\ draft[r][row] # None <=> lock[row] = r
        /\ draft[r][row] # None => copy[r][row] # None /\ draft[r][row] >= 0
        /\ copy[r][row] # None => copy[r][row] >= 0

\* A request that reads a row only under its lock has the row's balance, and so
\* has whoever has written the bot.
Fresh ==
    \A r \in Requests :
        /\ r \notin Transfers /\ copy[r]["wallet"] # None =>
              lock["wallet"] = r /\ copy[r]["wallet"] = value["wallet"]
        /\ r \notin Owners \union Readers /\ copy[r]["sub"] # None =>
              lock["sub"] = r /\ copy[r]["sub"] = value["sub"]
        /\ draft[r]["bot"] # None => copy[r]["bot"] = value["bot"]

\* The balance a request of the wallet flushes for one it has loaded.
NewBalance(r, held) ==
    IF r \in Charges \union Removals THEN held - Amount(r)
    ELSE IF r \in Deposits \union Additions THEN held + Amount(r)
    ELSE IF Amount(r) <= held THEN held - Amount(r) ELSE 0

\* What a session has written to the wallet is a ledger entry on its copy.
Entry(r, held) ==
    /\ r \in WalletWriters
    /\ Ref[r] \notin rows
    /\ r \in Charges \union Removals => Amount(r) <= held
    /\ r \in Transfers => held > 0

Entries ==
    \A r \in Requests : draft[r]["wallet"] # None =>
        /\ Entry(r, copy[r]["wallet"])
        /\ draft[r]["wallet"] = NewBalance(r, copy[r]["wallet"])

\* Wallet entries and receipts never share a reference, and an uncommitted
\* receipt has written the subscription only if its reference is unused.
Receipted ==
    /\ \A r \in Receipts :
          /\ Ref[r] \notin rows
          /\ draft[r]["sub"] # None => Ref[r] \notin billed
    /\ \A r \in WalletWriters : Ref[r] \notin billed

\* Deposits, transfers and corrections have no entry before they are committed.
Single == Deposits \union Transfers \union Corrections

Unposted == \A r \in Single : pc[r] # "done" => Ref[r] \notin rows

\* A transfer on its way to the wallet holds a mirror worth removing and has not
\* written the wallet before; a removal holds a subscription that covers it.
Held ==
    /\ \A r \in Transfers :
          /\ pc[r] = "wallet" => copy[r]["wallet"] # None /\ copy[r]["wallet"] > 0
          /\ pc[r] \in {"auth", "sub", "mirror"} => draft[r]["wallet"] = None
    /\ \A r \in Removals :
          pc[r] = "sub" => copy[r]["sub"] # None /\ Amount(r) <= copy[r]["sub"]

Books == NonNegative /\ AppliedOnce /\ BalanceIsLedger /\ OnlyHeldCopies

Inv == TypeOK /\ Books /\ Sessions /\ Fresh /\ Entries /\ Receipted /\ Unposted /\ Held

-----------------------------------------------------------------------------
(* Facts about the constants and about one step of a session.              *)

LEMMA AmountIsPositive ==
    ASSUME NEW r \in Requests
    PROVE  Amount(r) \in Nat /\ Amount(r) > 0 /\ Ref[r] \in Refs
  BY AmountsAssumption DEF Amount

\* A request is of one kind.
LEMMA OneKind ==
    ASSUME NEW r
    PROVE  /\ r \in Transfers => r \notin Readers \union BotCharges \union Charges
           /\ r \in BotCharges => r \notin Readers \union WalletWriters
           /\ r \in Charges => r \notin Readers
           /\ r \in Charges \union BotCharges \union Receipts \union Purchases \union Grants
                 => r \notin Single /\ r \notin Removals
           /\ r \in Receipts => r \notin WalletWriters \union Purchases \union Grants
           /\ r \in Corrections => r \notin Transfers \union Receipts \union Deposits
           /\ r \in Additions => r \notin Removals
           /\ r \in Single => r \notin Receipts
  BY KindsAssumption DEF Readers, Corrections, WalletWriters, Single

\* Only charges, and only receipts, share a reference.
LEMMA OneReference ==
    ASSUME NEW r \in Requests, NEW q \in Requests, Ref[r] = Ref[q], r # q
    PROVE  /\ (r \in Charges /\ q \in Charges) \/ (r \in Receipts /\ q \in Receipts)
           /\ q \notin Single
           /\ ~(r \in WalletWriters /\ q \in Receipts)
           /\ ~(r \in Receipts /\ q \in WalletWriters)
  <1>0. /\ r \in Charges => r \notin Receipts
        /\ q \in Charges => q \notin Receipts
    BY OneKind DEF Readers
  <1>1. (r \in Charges /\ q \in Charges) \/ (r \in Receipts /\ q \in Receipts)
    BY RefsAssumption
  <1>2. QED
    BY <1>0, <1>1, OneKind

LEMMA InitInv == Init => Inv
  <1> SUFFICES ASSUME Init PROVE Inv
    OBVIOUS
  <1>1. TypeOK
    BY AmountsAssumption, MaxFaultsAssumption DEF Init, TypeOK, Start, Steps, Rows
  <1>2. Books
    BY AmountsAssumption
    DEF Init, Books, NonNegative, AppliedOnce, BalanceIsLedger, OnlyHeldCopies, Rows
  <1>3. Sessions /\ Fresh /\ Entries
    BY NoneAssumption DEF Init, Sessions, Fresh, Entries, Rows
  <1>4. Receipted /\ Unposted
    BY DEF Init, Receipted, Unposted, Requests, WalletWriters, Readers, Rows
  <1>5. Held
    <2>1. \A r \in Requests, row \in Rows : draft[r][row] = None
      BY DEF Init
    <2>2. \A r \in Transfers \union Removals : pc[r] \in {"auth", "absent"}
      BY KindsAssumption
      DEF Init, Start, Requests, WalletWriters, Corrections, Readers
    <2>3. QED
      BY <2>1, <2>2 DEF Held, Requests, WalletWriters, Corrections, Rows
  <1>6. QED
    BY <1>1, <1>2, <1>3, <1>4, <1>5 DEF Inv

\* A transaction that ends without a commit leaves nothing behind.
LEMMA RollbackInv ==
    ASSUME Inv, NEW r \in Requests, NEW step \in {"done", "failed"},
           Rollback(r, step), faultsLeft' \in Nat,
           pc[r] # "done" \/ r \notin Single
    PROVE  Inv'
  <1> USE DEF Inv, Rollback, EndTransaction, Goto
  <1>1. TypeOK'
    BY DEF TypeOK, Steps, books, history
  <1>2. Books'
    BY DEF Books, NonNegative, AppliedOnce, BalanceIsLedger, OnlyHeldCopies, books, history
  <1>3. /\ copy' = [copy EXCEPT ![r] = [row \in Rows |-> None]]
        /\ \A q \in Requests, row \in Rows :
              /\ copy'[q][row] = IF q = r THEN None ELSE copy[q][row]
              /\ draft'[q][row] = IF q = r THEN None ELSE draft[q][row]
        /\ \A q \in Requests, row \in Rows : lock'[row] = q <=> lock[row] = q /\ q # r
        /\ value' = value /\ rows' = rows /\ billed' = billed
    BY NoneAssumption DEF TypeOK, books
  <1>4. Sessions'
    BY <1>3 DEF Sessions
  <1>5. Fresh'
    BY <1>3 DEF Fresh, Rows
  <1>6. Entries'
    BY <1>3 DEF Entries, Entry, Rows
  <1>7. Receipted'
    BY <1>3 DEF Receipted, Requests, Readers, Rows
  <1>8. Unposted'
    BY <1>3 DEF Unposted, Single, Requests, WalletWriters, TypeOK
  <1>9. Held'
    BY <1>3 DEF Held, TypeOK, Requests, WalletWriters, Corrections, Rows
  <1>10. QED
    BY <1>1, <1>2, <1>4, <1>5, <1>6, <1>7, <1>8, <1>9

\* Going on to another step, with nothing else changed.
LEMMA MoveInv ==
    ASSUME Inv, NEW r \in Requests, NEW step \in Steps,
           Goto(r, step), UNCHANGED <<books, lock, copy, draft, history>>, faultsLeft' \in Nat,
           pc[r] # "done" \/ r \notin Single,
           r \in Transfers => pc[r] = "auth" /\ step = "sub",
           r \in Removals => step # "sub"
    PROVE  Inv'
  <1> USE DEF Inv
  <1>1. /\ \A q \in Requests : pc'[q] = IF q = r THEN step ELSE pc[q]
        /\ pc' \in [Requests -> Steps]
        /\ rows' = rows /\ billed' = billed /\ value' = value
    BY DEF Goto, TypeOK, books
  <1>2. TypeOK' /\ Books'
    BY <1>1 DEF TypeOK, Books, NonNegative, AppliedOnce, BalanceIsLedger,
                OnlyHeldCopies, books, history
  <1>3. Sessions' /\ Fresh' /\ Entries' /\ Receipted'
    BY <1>1 DEF Sessions, Fresh, Entries, Entry, Receipted
  <1>4. Unposted'
    BY <1>1 DEF Unposted, Single, Requests, WalletWriters
  <1>5. Held'
    BY <1>1 DEF Held, Requests, WalletWriters, Corrections
  <1>6. QED
    BY <1>2, <1>3, <1>4, <1>5

\* Writing a row computed from what the session has loaded, or from the row.
LEMMA WriteInv ==
    ASSUME Inv, NEW r \in Requests, NEW row \in Rows, NEW base \in Nat, NEW new \in Nat,
           NEW step \in Steps,
           LockAndWriteFrom(r, row, base, new), Goto(r, step),
           UNCHANGED <<books, faultsLeft, history>>,
           base \in {value[row], Loaded(r, row)},
           row = "bot" => base = value[row],
           pc[r] # "done", step \notin {"auth", "sub", "done"},
           step = "wallet" => r \notin Transfers,
           step = "mirror" => row = "sub" /\ pc[r] = "sub",
           row = "wallet" => Entry(r, base) /\ new = NewBalance(r, base),
           row = "sub" /\ r \in Receipts => Ref[r] \notin billed
    PROVE  Inv'
  <1> USE DEF Inv
  <1>0. /\ lock[row] = None
        /\ \A q \in Requests, x \in Rows :
              /\ copy'[q][x] = IF q = r /\ x = row THEN base ELSE copy[q][x]
              /\ draft'[q][x] = IF q = r /\ x = row THEN new ELSE draft[q][x]
        /\ \A x \in Rows : lock'[x] = IF x = row THEN r ELSE lock[x]
        /\ \A q \in Requests : pc'[q] = IF q = r THEN step ELSE pc[q]
        /\ value' = value /\ rows' = rows /\ billed' = billed
    BY DEF TypeOK, LockAndWriteFrom, Free, Goto, books
  <1>1. copy[r][row] = None => base = value[row]
    BY DEF Loaded
  <1>2. TypeOK'
    <2>1. copy' \in [Requests -> [Rows -> Int \union {None}]]
      BY DEF TypeOK, LockAndWriteFrom
    <2>2. draft' \in [Requests -> [Rows -> Int \union {None}]]
      BY DEF TypeOK, LockAndWriteFrom
    <2>3. QED
      BY <2>1, <2>2 DEF TypeOK, LockAndWriteFrom, Goto, books, history
  <1>3. Books'
    BY DEF Books, NonNegative, AppliedOnce, BalanceIsLedger, OnlyHeldCopies, books, history
  <1>4. Sessions'
    BY <1>0, NoneAssumption DEF Sessions
  <1>5. Fresh'
    <2>1. ASSUME NEW q \in Requests, q \notin Transfers, copy'[q]["wallet"] # None
          PROVE  lock'["wallet"] = q /\ copy'[q]["wallet"] = value'["wallet"]
      BY <1>0, <1>1, <2>1, NoneAssumption DEF Fresh, Rows
    <2>2. ASSUME NEW q \in Requests, q \notin Owners \union Readers, copy'[q]["sub"] # None
          PROVE  lock'["sub"] = q /\ copy'[q]["sub"] = value'["sub"]
      BY <1>0, <1>1, <2>2, NoneAssumption DEF Fresh, Rows
    <2>3. ASSUME NEW q \in Requests, draft'[q]["bot"] # None
          PROVE  copy'[q]["bot"] = value'["bot"]
      BY <1>0, <2>3 DEF Fresh, Rows
    <2>4. QED
      BY <2>1, <2>2, <2>3 DEF Fresh
  <1>6. Entries'
    BY <1>0, NoneAssumption DEF Entries, Entry, Rows
  <1>7. Receipted'
    BY <1>0 DEF Receipted, Requests, Readers, Rows
  <1>8. Unposted'
    BY <1>0 DEF Unposted, Single, Requests, WalletWriters
  <1>9. Held'
    BY <1>0 DEF Held, Requests, WalletWriters, Corrections, Rows
  <1>10. QED
    BY <1>2, <1>3, <1>4, <1>5, <1>6, <1>7, <1>8, <1>9

\* Committing a session.
LEMMA CommitInv ==
    ASSUME Inv, NEW r \in Requests, Commit(r)
    PROVE  Inv'
  <1> USE DEF Inv, Commit, EndTransaction, Goto
  <1>0. /\ \A q \in Requests, x \in Rows :
              /\ copy'[q][x] = IF q = r THEN None ELSE copy[q][x]
              /\ draft'[q][x] = IF q = r THEN None ELSE draft[q][x]
        /\ \A q \in Requests, x \in Rows : lock'[x] = q <=> lock[x] = q /\ q # r
        /\ \A q \in Requests : pc'[q] = IF q = r THEN "done" ELSE pc[q]
        /\ \A x \in Rows : value'[x] = IF Written(r, x) THEN draft[r][x] ELSE value[x]
    BY NoneAssumption DEF TypeOK
  <1>1. \A x \in Rows : Written(r, x) => /\ draft[r][x] \in Nat
                                         /\ copy[r][x] \in Nat
                                         /\ lock[x] = r
    BY DEF Written, Sessions, TypeOK
  <1>2. \A x \in Rows : ~Written(r, x) => lock[x] # r
    BY DEF Written, Sessions
  <1>3. TypeOK'
    <2>1. value' \in [Rows -> Int] /\ ledger' \in [Rows -> Int]
      BY <1>1 DEF TypeOK
    <2>2. rows' \subseteq Refs /\ billed' \subseteq Refs /\ applied' \in [Refs -> Nat]
      BY AmountIsPositive DEF TypeOK
    <2>3. overtaken' \in [Rows -> SUBSET Requests]
      BY DEF TypeOK
    <2>4. QED
      BY <2>1, <2>2, <2>3 DEF TypeOK, Steps
  <1>4. Books'
    <2>1. NonNegative'
      BY <1>0, <1>1 DEF Books, NonNegative
    <2>2. AppliedOnce'
      <3>1. Filed(r) => Ref[r] \notin rows \union billed
        BY OneKind DEF Filed, Written, Entries, Entry, Receipted, Rows
      <3>2. rows' \union billed' = IF Filed(r) THEN rows \union billed \union {Ref[r]}
                                               ELSE rows \union billed
        BY DEF Filed
      <3>3. QED
        BY <3>1, <3>2, AmountIsPositive DEF Books, AppliedOnce, TypeOK
    <2>3. BalanceIsLedger'
      <3> SUFFICES ASSUME NEW x \in Rows, overtaken'[x] = {}
                   PROVE  value'[x] = ledger'[x]
        BY DEF BalanceIsLedger
      <3>1. overtaken[x] = {} /\ (Written(r, x) => copy[r][x] = value[x])
        OBVIOUS
      <3>2. value[x] = ledger[x] /\ value[x] \in Int
        BY <3>1 DEF Books, BalanceIsLedger, TypeOK
      <3>3. CASE Written(r, x)
        BY <3>1, <3>2, <3>3, <1>1
      <3>4. CASE ~Written(r, x)
        BY <3>2, <3>4
      <3>5. QED
        BY <3>3, <3>4
    <2>4. OnlyHeldCopies'
      <3>1. Written(r, "wallet") /\ copy[r]["wallet"] # value["wallet"] => r \in Transfers
        BY <1>1, NoneAssumption DEF Fresh, Rows
      <3>2. Written(r, "sub") /\ copy[r]["sub"] # value["sub"] => r \in Owners \union Readers
        BY <1>1, NoneAssumption DEF Fresh, Rows
      <3>3. Written(r, "bot") => copy[r]["bot"] = value["bot"]
        BY DEF Fresh, Written
      <3>4. /\ overtaken["wallet"] \subseteq Transfers
            /\ overtaken["sub"] \subseteq Owners \union Readers
            /\ overtaken["bot"] = {}
        BY DEF Books, OnlyHeldCopies
      <3>5. overtaken'["wallet"] \subseteq Transfers
        BY <3>1, <3>4 DEF Rows
      <3>6. overtaken'["sub"] \subseteq Owners \union Readers
        BY <3>2, <3>4 DEF Rows
      <3>7. overtaken'["bot"] = {}
        BY <3>3, <3>4 DEF Rows
      <3>8. QED
        BY <3>5, <3>6, <3>7 DEF OnlyHeldCopies
    <2>5. QED
      BY <2>1, <2>2, <2>3, <2>4 DEF Books
  <1>5. Sessions'
    BY <1>0 DEF Sessions
  <1>6. Fresh'
    \* The rows another session has locked are not among those written here.
    BY <1>0, <1>1, <1>5 DEF Fresh, Sessions, Rows
  <1>7. \A q \in Requests : q # r /\ Ref[q] = Ref[r] =>
           /\ q \notin Single
           /\ ~(r \in WalletWriters /\ q \in Receipts)
           /\ ~(r \in Receipts /\ q \in WalletWriters)
    BY OneReference
  <1>8. Written(r, "wallet") => r \in WalletWriters
    BY DEF Written, Entries, Entry
  <1>9. Entries'
    BY <1>0, <1>1, <1>2 DEF Entries, Entry, Sessions, Rows
  <1>10. Receipted'
    <2>1. /\ \A q \in Receipts \union WalletWriters : q \in Requests
          /\ \A q \in Receipts : q \notin WalletWriters
      BY OneKind DEF Requests, Readers
    <2>2. \A q \in Receipts : Ref[q] \notin rows'
      BY <1>7, <1>8, <2>1 DEF Receipted
    <2>3. \A q \in WalletWriters : Ref[q] \notin billed'
      BY <1>7, <2>1 DEF Receipted
    <2>4. \A q \in Receipts : draft'[q]["sub"] # None => Ref[q] \notin billed'
      BY <1>0, <1>1, <2>1 DEF Receipted, Sessions, Written, Rows
    <2>5. QED
      BY <2>2, <2>3, <2>4 DEF Receipted
  <1>11. Unposted'
    BY <1>0, <1>7 DEF Unposted, Single, Requests, WalletWriters
  <1>12. Held'
    BY <1>0 DEF Held, Requests, WalletWriters, Corrections, Rows
  <1>13. QED
    BY <1>3, <1>4, <1>5, <1>6, <1>9, <1>10, <1>11, <1>12

\* Loading a row without a lock.
LEMMA ReadInv ==
    ASSUME Inv, NEW r \in Requests, NEW row \in Rows, NEW step \in Steps,
           Load(r, row), Goto(r, step),
           UNCHANGED <<books, lock, draft, faultsLeft, history>>,
           pc[r] # "done", step # "done",
           row = "wallet" => r \in Transfers /\ draft[r][row] = None,
           row = "sub" => r \in Owners \union Readers,
           r \in Transfers /\ step \in {"auth", "sub", "mirror"} => pc[r] = "auth",
           r \in Transfers /\ step = "wallet" => row = "wallet" /\ value[row] > 0,
           r \in Removals /\ step = "sub" => row = "sub" /\ Amount(r) <= value[row]
    PROVE  Inv'
  <1> USE DEF Inv, Goto, Load
  <1>0. /\ \A q \in Requests, x \in Rows :
              copy'[q][x] = IF q = r /\ x = row THEN value[row] ELSE copy[q][x]
        /\ \A q \in Requests : pc'[q] = IF q = r THEN step ELSE pc[q]
        /\ value' = value /\ rows' = rows /\ billed' = billed
        /\ value[row] \in Nat
    BY DEF TypeOK, books, Books, NonNegative
  <1>1. TypeOK'
    BY <1>0 DEF TypeOK, books, history
  <1>2. Books'
    BY DEF Books, NonNegative, AppliedOnce, BalanceIsLedger, OnlyHeldCopies, books, history
  <1>3. Sessions'
    BY <1>0, NoneAssumption DEF Sessions
  <1>4. Fresh'
    BY <1>0 DEF Fresh, Rows
  <1>5. Entries'
    BY <1>0 DEF Entries, Entry, Rows
  <1>6. Receipted'
    BY <1>0 DEF Receipted
  <1>7. Unposted'
    BY <1>0 DEF Unposted, Single, Requests, WalletWriters
  <1>8. Held'
    BY <1>0, NoneAssumption DEF Held, Requests, WalletWriters, Corrections, Rows
  <1>9. QED
    BY <1>1, <1>2, <1>3, <1>4, <1>5, <1>6, <1>7, <1>8

-----------------------------------------------------------------------------
(* Every step preserves the invariant.                                     *)

LEMMA StepInv == Inv /\ [Next]_vars => Inv'
  <1> SUFFICES ASSUME Inv, [Next]_vars PROVE Inv'
    OBVIOUS
  <1> USE DEF Inv
  <1>1. CASE UNCHANGED vars
    BY <1>1 DEF vars, books, session, history, TypeOK, Books, NonNegative, AppliedOnce,
                BalanceIsLedger, OnlyHeldCopies, Sessions, Fresh, Entries, Entry, Receipted,
                Unposted, Held
  <1>2. ASSUME NEW r \in Requests, Step(r) \/ Crash(r) \/ Resubmit(r)
        PROVE  Inv'
    <2>0. /\ r \in Transfers => r \notin Readers \union BotCharges \union Charges
          /\ r \in BotCharges => r \notin Readers \union WalletWriters
          /\ r \in Charges => r \notin Readers
          /\ r \in Charges \union BotCharges \union Receipts \union Purchases \union Grants
                => r \notin Single /\ r \notin Removals
          /\ r \in Receipts => r \notin WalletWriters \union Purchases \union Grants
          /\ r \in Corrections => r \notin Transfers \union Receipts \union Deposits
          /\ r \in Additions => r \notin Removals
          /\ r \in Single => r \notin Receipts
      BY OneKind
    <2>1. /\ \A row \in Rows : value[row] \in Nat /\ Loaded(r, row) \in Nat
          /\ value["sub"] \in Nat /\ value["wallet"] \in Nat /\ value["bot"] \in Nat
          /\ Loaded(r, "sub") \in Nat /\ Loaded(r, "wallet") \in Nat
          /\ faultsLeft \in Nat /\ Floor \in Nat
          /\ Amount(r) \in Nat /\ Amount(r) > 0
      <3>1. \A row \in Rows : value[row] \in Nat
        BY DEF TypeOK, Books, NonNegative
      <3>2. \A row \in Rows : Loaded(r, row) \in Nat
        BY <3>1, NoneAssumption DEF Loaded, TypeOK, Sessions
      <3>3. QED
        BY <3>1, <3>2, AmountIsPositive, AmountsAssumption DEF TypeOK, Rows
    <2>2. CASE ChargeReplay(r)
      BY <2>0, <2>1, <2>2, RollbackInv DEF ChargeReplay
    <2>3. CASE ChargeRefused(r)
      BY <2>0, <2>1, <2>3, RollbackInv DEF ChargeRefused
    <2>4. CASE Charge(r)
      <3> DEFINE new == Loaded(r, "wallet") - Amount(r)
      <3>1. /\ LockAndWriteFrom(r, "wallet", Loaded(r, "wallet"), new) /\ Goto(r, "commit")
            /\ UNCHANGED <<books, faultsLeft, history>>
        BY <2>4 DEF Charge, LockAndWrite
      <3>2. new \in Nat /\ pc[r] # "done"
        BY <2>0, <2>1, <2>4 DEF Charge
      <3>3. Entry(r, Loaded(r, "wallet")) /\ new = NewBalance(r, Loaded(r, "wallet"))
        BY <2>0, <2>1, <2>4 DEF Charge, Entry, NewBalance, Unposted, Single, WalletWriters,
                                Readers, Corrections
      <3> HIDE DEF new
      <3>4. QED
        BY <2>1, <3>1, <3>2, <3>3, WriteInv DEF Rows, Steps
    <2>5. CASE CreditWallet(r)
      <3> DEFINE new == Loaded(r, "wallet") + Amount(r)
      <3>1. /\ LockAndWriteFrom(r, "wallet", Loaded(r, "wallet"), new) /\ Goto(r, "readSub")
            /\ UNCHANGED <<books, faultsLeft, history>>
        BY <2>5 DEF CreditWallet, LockAndWrite
      <3>2. new \in Nat /\ pc[r] # "done"
        BY <2>0, <2>1, <2>5 DEF CreditWallet
      <3>3. Entry(r, Loaded(r, "wallet")) /\ new = NewBalance(r, Loaded(r, "wallet"))
        BY <2>0, <2>1, <2>5 DEF CreditWallet, Entry, NewBalance, Unposted, Single, WalletWriters,
                                Readers, Corrections
      <3> HIDE DEF new
      <3>4. QED
        BY <2>1, <3>1, <3>2, <3>3, WriteInv DEF Rows, Steps
    <2>6. CASE ReadSub(r)
      BY <2>0, <2>1, <2>6, ReadInv DEF ReadSub, Rows, Steps, Readers, Corrections
    <2>7. CASE DepositSub(r)
      <3> DEFINE new == Loaded(r, "sub") + Amount(r)
      <3>1. /\ LockAndWriteFrom(r, "sub", Loaded(r, "sub"), new) /\ Goto(r, "commit")
            /\ UNCHANGED <<books, faultsLeft, history>>
        BY <2>7 DEF DepositSub, LockAndWrite
      <3>2. new \in Nat /\ pc[r] # "done"
        BY <2>0, <2>1, <2>7 DEF DepositSub
      <3>3. r \in Receipts => Ref[r] \notin billed
        BY <2>0, <2>7 DEF DepositSub, Single, Readers, Corrections
      <3> HIDE DEF new
      <3>4. QED
        BY <2>1, <3>1, <3>2, <3>3, WriteInv DEF Rows, Steps
    <2>8. CASE Authenticate(r)
      <3>1. CASE r \in Owners
        BY <2>0, <2>1, <2>8, <3>1, ReadInv DEF Authenticate, Rows, Steps, Readers, Corrections
      <3>2. CASE r \notin Owners
        BY <2>0, <2>1, <2>8, <3>2, MoveInv DEF Authenticate, Steps, Readers, Corrections
      <3>3. QED
        BY <3>1, <3>2
    <2>9. CASE TransferRefused(r)
      BY <2>0, <2>1, <2>9, RollbackInv DEF TransferRefused
    <2>10. CASE DebitSub(r)
      <3> DEFINE new == Loaded(r, "sub") - Amount(r)
      <3>1. /\ LockAndWriteFrom(r, "sub", Loaded(r, "sub"), new) /\ Goto(r, "mirror")
            /\ UNCHANGED <<books, faultsLeft, history>>
        BY <2>10 DEF DebitSub, LockAndWrite
      <3>2. new \in Nat /\ pc[r] = "sub"
        BY <2>0, <2>1, <2>10 DEF DebitSub
      <3>3. r \in Receipts => Ref[r] \notin billed
        BY <2>0, <2>10 DEF DebitSub, Single, Readers, Corrections
      <3> HIDE DEF new
      <3>4. QED
        BY <2>1, <3>1, <3>2, <3>3, WriteInv DEF Rows, Steps
    <2>11. CASE ReadMirror(r)
      <3>1. draft[r]["wallet"] = None
        BY <2>11 DEF ReadMirror, Held
      <3>2. QED
        BY <2>0, <2>1, <2>11, <3>1, ReadInv DEF ReadMirror, Rows, Steps, Readers, Corrections
    <2>12. CASE DebitMirror(r)
      <3> DEFINE new == IF Amount(r) <= Loaded(r, "wallet")
                        THEN Loaded(r, "wallet") - Amount(r) ELSE 0
      <3>1. /\ LockAndWriteFrom(r, "wallet", Loaded(r, "wallet"), new) /\ Goto(r, "bot")
            /\ UNCHANGED <<books, faultsLeft, history>>
        BY <2>12 DEF DebitMirror, LockAndWrite
      <3>2. new \in Nat /\ pc[r] # "done"
        BY <2>0, <2>1, <2>12 DEF DebitMirror
      <3>3. Entry(r, Loaded(r, "wallet")) /\ new = NewBalance(r, Loaded(r, "wallet"))
        BY <2>0, <2>1, <2>12 DEF DebitMirror, Entry, NewBalance, Unposted, Single, WalletWriters,
                                 Readers, Corrections, Held, Loaded
      <3> HIDE DEF new
      <3>4. QED
        BY <2>1, <3>1, <3>2, <3>3, WriteInv DEF Rows, Steps
    <2>13. CASE CreditBot(r)
      <3> DEFINE new == value["bot"] + Amount(r)
      <3>1. /\ LockAndWriteFrom(r, "bot", value["bot"], new) /\ Goto(r, "commit")
            /\ UNCHANGED <<books, faultsLeft, history>>
        BY <2>13 DEF CreditBot, LockAndWrite
      <3>2. new \in Nat /\ pc[r] # "done"
        BY <2>0, <2>1, <2>13 DEF CreditBot
      <3> HIDE DEF new
      <3>3. QED
        BY <2>1, <3>1, <3>2, WriteInv DEF Rows, Steps
    <2>14. CASE AllowChat(r)
      BY <2>0, <2>1, <2>14, ReadInv DEF AllowChat, Rows, Steps, Readers, Corrections
    <2>15. CASE BotChargeRefused(r)
      BY <2>0, <2>1, <2>15, RollbackInv DEF BotChargeRefused
    <2>16. CASE ChargeBot(r)
      <3> DEFINE new == value["bot"] - Amount(r)
      <3>1. /\ LockAndWriteFrom(r, "bot", value["bot"], new) /\ Goto(r, "commit")
            /\ UNCHANGED <<books, faultsLeft, history>>
        BY <2>16 DEF ChargeBot, LockAndWrite
      <3>2. new \in Nat /\ pc[r] # "done"
        BY <2>0, <2>1, <2>16 DEF ChargeBot
      <3> HIDE DEF new
      <3>3. QED
        BY <2>1, <3>1, <3>2, WriteInv DEF Rows, Steps
    <2>17. CASE ReadSubscription(r)
      BY <2>0, <2>1, <2>17, ReadInv DEF ReadSubscription, Rows, Steps, Readers, Corrections
    <2>18. CASE ReadRefused(r)
      BY <2>0, <2>1, <2>18, RollbackInv DEF ReadRefused
    <2>19. CASE ReceiptConflict(r)
      BY <2>0, <2>1, <2>19, RollbackInv DEF ReceiptConflict
    <2>20. CASE DepositReceipt(r)
      <3> DEFINE new == Loaded(r, "sub") + Amount(r)
      <3>1. /\ LockAndWriteFrom(r, "sub", Loaded(r, "sub"), new) /\ Goto(r, "commit")
            /\ UNCHANGED <<books, faultsLeft, history>>
        BY <2>20 DEF DepositReceipt, LockAndWrite
      <3>2. new \in Nat /\ pc[r] # "done"
        BY <2>0, <2>1, <2>20 DEF DepositReceipt
      <3>3. r \in Receipts => Ref[r] \notin billed
        BY <2>0, <2>20 DEF DepositReceipt, Single, Readers, Corrections
      <3> HIDE DEF new
      <3>4. QED
        BY <2>1, <3>1, <3>2, <3>3, WriteInv DEF Rows, Steps
    <2>21. CASE BuyPlan(r)
      <3>1. CASE Loaded(r, "sub") < Floor
        <4> DEFINE new == AtLeastZero(Floor - Amount(r))
        <4>1. /\ LockAndWriteFrom(r, "sub", Loaded(r, "sub"), new) /\ Goto(r, "commit")
              /\ UNCHANGED <<books, faultsLeft, history>>
          BY <2>21, <3>1 DEF BuyPlan, AtLeastZero, LockAndWrite
        <4>2. new \in Nat /\ pc[r] # "done"
          BY <2>0, <2>1, <2>21, <3>1 DEF BuyPlan, AtLeastZero
        <4>3. (r \in Receipts => Ref[r] \notin billed)
          BY <2>0, <2>21, <3>1 DEF BuyPlan, AtLeastZero, Single, Readers, Corrections
        <4> HIDE DEF new
        <4>4. QED
          BY <2>1, <4>1, <4>2, <4>3, WriteInv DEF Rows, Steps
      <3>2. CASE ~(Loaded(r, "sub") < Floor)
        <4> DEFINE new == AtLeastZero(value["sub"] - Amount(r))
        <4>1. /\ LockAndWriteFrom(r, "sub", value["sub"], new) /\ Goto(r, "commit")
              /\ UNCHANGED <<books, faultsLeft, history>>
          BY <2>21, <3>2 DEF BuyPlan, AtLeastZero, LockAndWrite
        <4>2. new \in Nat /\ pc[r] # "done"
          BY <2>0, <2>1, <2>21, <3>2 DEF BuyPlan, AtLeastZero
        <4>3. (r \in Receipts => Ref[r] \notin billed)
          BY <2>0, <2>21, <3>2 DEF BuyPlan, AtLeastZero, Single, Readers, Corrections
        <4> HIDE DEF new
        <4>4. QED
          BY <2>1, <4>1, <4>2, <4>3, WriteInv DEF Rows, Steps
      <3>3. QED
        BY <3>1, <3>2
    <2>22. CASE GrantPlan(r)
      <3> DEFINE new == Floor
      <3>1. /\ LockAndWriteFrom(r, "sub", Loaded(r, "sub"), new) /\ Goto(r, "commit")
            /\ UNCHANGED <<books, faultsLeft, history>>
        BY <2>22 DEF GrantPlan, LockAndWrite
      <3>2. new \in Nat /\ pc[r] # "done"
        BY <2>0, <2>1, <2>22 DEF GrantPlan
      <3>3. r \in Receipts => Ref[r] \notin billed
        BY <2>0, <2>22 DEF GrantPlan, Single, Readers, Corrections
      <3> HIDE DEF new
      <3>4. QED
        BY <2>1, <3>1, <3>2, <3>3, WriteInv DEF Rows, Steps
    <2>23. CASE GrantNothing(r)
      BY <2>0, <2>1, <2>23, MoveInv DEF GrantNothing, Steps, Readers
    <2>24. CASE CorrectSub(r)
      <3> DEFINE new == IF r \in Additions THEN Loaded(r, "sub") + Amount(r)
                                          ELSE Loaded(r, "sub") - Amount(r)
      <3>1. /\ LockAndWriteFrom(r, "sub", Loaded(r, "sub"), new) /\ Goto(r, "wallet")
            /\ UNCHANGED <<books, faultsLeft, history>>
        BY <2>24 DEF CorrectSub, LockAndWrite
      <3>2. new \in Nat /\ pc[r] # "done"
        BY <2>0, <2>1, <2>24 DEF CorrectSub, Held, Loaded, Corrections
      <3>3. r \notin Transfers /\ (r \in Receipts => Ref[r] \notin billed)
        BY <2>0, <2>24 DEF CorrectSub, Single, Readers, Corrections
      <3> HIDE DEF new
      <3>4. QED
        BY <2>1, <3>1, <3>2, <3>3, WriteInv DEF Rows, Steps
    <2>25. CASE CorrectWallet(r)
      <3> DEFINE new == IF r \in Additions THEN Loaded(r, "wallet") + Amount(r)
                                          ELSE Loaded(r, "wallet") - Amount(r)
      <3>1. /\ LockAndWriteFrom(r, "wallet", Loaded(r, "wallet"), new) /\ Goto(r, "commit")
            /\ UNCHANGED <<books, faultsLeft, history>>
        BY <2>25 DEF CorrectWallet, LockAndWrite
      <3>2. new \in Nat /\ pc[r] # "done"
        BY <2>0, <2>1, <2>25 DEF CorrectWallet, Corrections
      <3>3. Entry(r, Loaded(r, "wallet")) /\ new = NewBalance(r, Loaded(r, "wallet"))
        BY <2>0, <2>1, <2>25 DEF CorrectWallet, Entry, NewBalance, Unposted, Single, WalletWriters,
                                 Readers, Corrections
      <3> HIDE DEF new
      <3>4. QED
        BY <2>1, <3>1, <3>2, <3>3, WriteInv DEF Rows, Steps
    <2>26. CASE CorrectionRefused(r)
      BY <2>0, <2>1, <2>26, RollbackInv DEF CorrectionRefused
    <2>27. CASE Commit(r)
      BY <2>27, CommitInv
    <2>28. CASE DeadlockAbort(r)
      <3>1. pc[r] # "done"
        BY <2>28 DEF DeadlockAbort, WaitsFor, Wants, Rows
      <3>2. QED
        BY <2>0, <2>1, <2>28, <3>1, RollbackInv DEF DeadlockAbort
    <2>29. CASE Crash(r)
      BY <2>0, <2>1, <2>29, RollbackInv DEF Crash, Fault
    <2>30. CASE Resubmit(r)
      BY <2>0, <2>1, <2>30, MoveInv DEF Resubmit, Start, Steps, Fault, Readers
    <2>31. QED
      BY <1>2, <2>2, <2>3, <2>4, <2>5, <2>6, <2>7, <2>8, <2>9, <2>10, <2>11, <2>12, <2>13,
         <2>14, <2>15, <2>16, <2>17, <2>18, <2>19, <2>20, <2>21, <2>22, <2>23, <2>24,
         <2>25, <2>26, <2>27, <2>28, <2>29, <2>30 DEF Step
  <1>3. QED
    BY <1>1, <1>2 DEF Next

\* The invariant holds in every reachable state of every instance.
THEOREM Invariance == Spec => []Inv
  <1>1. Init => Inv
    BY InitInv
  <1>2. Inv /\ [Next]_vars => Inv'
    BY StepInv
  <1>3. QED
    BY <1>1, <1>2, PTL DEF Spec

\* Balances, copies, drafts and locks keep their types.
THEOREM TypeCorrect == Spec => []TypeOK
  <1>1. Inv => TypeOK
    BY DEF Inv
  <1>2. QED
    BY <1>1, Invariance, PTL

\* wallet_service.WalletService: no balance is ever committed below zero.
THEOREM NeverNegative == Spec => []NonNegative
  <1>1. Inv => NonNegative
    BY DEF Inv, Books
  <1>2. QED
    BY <1>1, Invariance, PTL

\* deduct_credits, credit_credits: money moves once per reference id.
THEOREM OncePerReference == Spec => []AppliedOnce
  <1>1. Inv => AppliedOnce
    BY DEF Inv, Books
  <1>2. QED
    BY <1>1, Invariance, PTL

\* A balance differs from its ledger only after a write from an outdated
\* copy, and only requests that read a row before they lock it can make one.
THEOREM DriftIsExplained == Spec => []DriftOnlyFromHeldCopies
  <1>1. Inv => DriftOnlyFromHeldCopies
    BY DEF Inv, Books, DriftOnlyFromHeldCopies
  <1>2. QED
    BY <1>1, Invariance, PTL

-----------------------------------------------------------------------------
(* The wallet implements CreditLedger.                                     *)

\* A commit that writes the wallet posts one entry, unless it is that of a
\* transfer whose mirror is outdated.
LEMMA CommitPosts ==
    ASSUME Inv, NEW r \in Requests, Commit(r), ~OvertakenTransfer
    PROVE  Ledger!Next \/ UNCHANGED <<value["wallet"], rows>>
  <1> USE DEF Inv
  <1>1. CASE ~Written(r, "wallet")
    BY <1>1 DEF Commit, Rows
  <1>2. CASE Written(r, "wallet")
    <2>1. /\ value'["wallet"] = draft[r]["wallet"]
          /\ rows' = rows \union {Ref[r]}
          /\ Ref[r] \notin rows /\ Ref[r] \in Refs
      BY <1>2, AmountIsPositive DEF Commit, Rows, Written, Entries, Entry
    <2>2. copy[r]["wallet"] = value["wallet"]
      BY <1>2 DEF OvertakenTransfer, Fresh, Sessions, Written, Rows
    <2>3. Entry(r, value["wallet"]) /\ value'["wallet"] = NewBalance(r, value["wallet"])
      BY <1>2, <2>1, <2>2 DEF Entries, Written
    <2>4. CASE r \in Charges \union Removals
      BY <2>1, <2>3, <2>4 DEF Entry, NewBalance, Amount, Ledger!Next, Ledger!Charge
    <2>5. CASE r \in Deposits \union Additions
      <3>1. r \notin Charges \union Removals
        BY <2>5, OneKind DEF Readers, Corrections
      <3>2. QED
        BY <2>1, <2>3, <2>5, <3>1 DEF NewBalance, Amount, Ledger!Next, Ledger!Credit
    <2>6. CASE r \in Transfers
      <3>1. r \notin Charges \union Removals \union Deposits \union Additions
        BY <2>6, OneKind DEF Readers, Corrections
      <3>2. QED
        BY <2>1, <2>3, <2>6, <3>1 DEF Entry, NewBalance, Amount, Ledger!Next, Ledger!Sweep
    <2>7. QED
      BY <2>3, <2>4, <2>5, <2>6 DEF Entry, WalletWriters, Corrections
  <1>3. QED
    BY <1>1, <1>2

LEMMA StepSimulation ==
    Inv /\ [Next]_vars => [Ledger!Next \/ OvertakenTransfer]_<<value["wallet"], rows>>
  <1> SUFFICES ASSUME Inv, [Next]_vars, ~OvertakenTransfer
               PROVE  Ledger!Next \/ UNCHANGED <<value["wallet"], rows>>
    OBVIOUS
  <1>1. CASE \E r \in Requests : Commit(r)
    BY <1>1, CommitPosts
  <1>2. CASE ~\E r \in Requests : Commit(r)
    BY <1>2 DEF Next, Step, vars, books, Rollback, ChargeReplay, ChargeRefused, Charge,
                CreditWallet, ReadSub, DepositSub, Authenticate, TransferRefused, DebitSub,
                ReadMirror, DebitMirror, CreditBot, AllowChat, BotChargeRefused, ChargeBot,
                ReadSubscription, ReadRefused, ReceiptConflict, DepositReceipt, BuyPlan,
                GrantPlan, GrantNothing, CorrectSub, CorrectWallet, CorrectionRefused,
                DeadlockAbort, Crash, Resubmit
  <1>3. QED
    BY <1>1, <1>2

\* Every step of every interleaving is a step of the credit ledger or leaves
\* it alone, the commit of an overtaken transfer excepted.
THEOREM WalletSimulatesLedger == Spec => WalletIsLedger
  <1>1. Init => Ledger!Init
    BY DEF Init, Ledger!Init
  <1>2. Inv /\ [Next]_vars => [Ledger!Next \/ OvertakenTransfer]_<<value["wallet"], rows>>
    BY StepSimulation
  <1>3. QED
    BY <1>1, <1>2, Invariance, PTL DEF Spec, WalletIsLedger

\* Without transfers to bots the wallet is a credit ledger, without exception.
THEOREM LedgerWithoutTransfers == (Transfers = {}) => (Spec => Ledger!Spec)
  <1>1. SUFFICES ASSUME Transfers = {} PROVE Spec => Ledger!Spec
    OBVIOUS
  <1>2. ~OvertakenTransfer
    BY <1>1 DEF OvertakenTransfer
  <1>3. [Ledger!Next \/ OvertakenTransfer]_<<value["wallet"], rows>>
           => [Ledger!Next]_<<value["wallet"], rows>>
    BY <1>2
  <1>4. QED
    BY <1>3, WalletSimulatesLedger, PTL DEF WalletIsLedger, Ledger!Spec

-----------------------------------------------------------------------------
(* Where the subscription cannot be overdrawn.  NotOverdrawn fails in one   *)
(* run: two requests hold the subscription at the same time.                *)

\* No two sessions hold the row at the same time.
HeldAlone(row) ==
    \A r, q \in Requests : copy[r][row] # None /\ copy[q][row] # None => r = q

\* Every session that holds the row holds its balance, and nobody has written
\* it from anything else.
UpToDate(row) ==
    /\ overtaken[row] = {}
    /\ \A r \in Requests : copy[r][row] # None => copy[r][row] = value[row]

\* What a step that is no commit leaves in the copies of a row.
Reread(row) ==
    /\ UNCHANGED <<value, overtaken>>
    /\ \A q \in Requests :
          copy'[q][row] \in {None, value[row], copy[q][row], Loaded(q, row)}

LEMMA RollbackRereads ==
    ASSUME TypeOK, NEW r \in Requests, NEW step, Rollback(r, step), NEW row \in Rows
    PROVE  Reread(row)
  <1>1. copy' = [copy EXCEPT ![r] = [other \in Rows |-> None]]
    BY DEF Rollback, EndTransaction
  <1>2. \A q \in Requests : copy'[q][row] \in {None, copy[q][row]}
    BY <1>1 DEF TypeOK
  <1>3. QED
    BY <1>2 DEF Rollback, books, history, Reread

LEMMA LoadRereads ==
    ASSUME TypeOK, NEW r \in Requests, NEW row \in Rows, NEW other \in Rows,
           copy' = copy \/ Load(r, other), UNCHANGED <<value, overtaken>>
    PROVE  Reread(row)
  <1>1. SUFFICES ASSUME NEW q \in Requests
                 PROVE  copy'[q][row] \in {value[row], copy[q][row]}
    BY DEF Reread
  <1>2. CASE copy' = copy
    BY <1>2
  <1>3. CASE Load(r, other)
    <2>1. copy' = [copy EXCEPT ![r][other] = value[other]]
      BY <1>3 DEF Load
    <2>2. CASE q = r /\ row = other
      BY <2>1, <2>2 DEF TypeOK
    <2>3. CASE ~(q = r /\ row = other)
      BY <2>1, <2>3 DEF TypeOK
    <2>4. QED
      BY <2>2, <2>3
  <1>4. QED
    BY <1>2, <1>3

LEMMA WriteRereads ==
    ASSUME TypeOK, NEW r \in Requests, NEW row \in Rows, NEW other \in Rows,
           NEW base \in {value[other], Loaded(r, other)}, NEW new,
           LockAndWriteFrom(r, other, base, new), UNCHANGED <<value, overtaken>>
    PROVE  Reread(row)
  <1>1. SUFFICES ASSUME NEW q \in Requests
                 PROVE  copy'[q][row] \in {value[row], copy[q][row], Loaded(q, row)}
    BY DEF Reread
  <1>2. copy' = [copy EXCEPT ![r][other] = base]
    BY DEF LockAndWriteFrom
  <1>3. CASE q = r /\ row = other
    BY <1>2, <1>3 DEF TypeOK
  <1>4. CASE ~(q = r /\ row = other)
    BY <1>2, <1>4 DEF TypeOK
  <1>5. QED
    BY <1>3, <1>4

LEMMA NextRereads ==
    ASSUME TypeOK, [Next]_vars, ~\E r \in Requests : Commit(r), NEW row \in Rows
    PROVE  Reread(row)
  <1>0. {"sub", "wallet", "bot"} \subseteq Rows
    BY DEF Rows
  <1>1. CASE UNCHANGED vars
    BY <1>1 DEF vars, books, session, history, Reread
  <1>2. CASE Next
    <2>1. PICK r \in Requests : Step(r) \/ Crash(r) \/ Resubmit(r)
      BY <1>2 DEF Next
    <2>2. CASE \E step : Rollback(r, step)
      BY <2>2, RollbackRereads
    <2>3. CASE /\ copy' = copy \/ \E other \in Rows : Load(r, other)
               /\ UNCHANGED <<value, overtaken>>
      BY <2>3, <1>0, LoadRereads
    <2>4. CASE /\ \E other \in Rows : \E base \in {value[other], Loaded(r, other)} :
                     \E new : LockAndWriteFrom(r, other, base, new)
               /\ UNCHANGED <<value, overtaken>>
      BY <2>4, WriteRereads
    <2>5. CASE ChargeReplay(r) \/ ChargeRefused(r) \/ TransferRefused(r)
                \/ BotChargeRefused(r) \/ ReadRefused(r) \/ ReceiptConflict(r)
                \/ CorrectionRefused(r) \/ DeadlockAbort(r) \/ Crash(r)
      BY <2>2, <2>5 DEF ChargeReplay, ChargeRefused, TransferRefused, BotChargeRefused,
                        ReadRefused, ReceiptConflict, CorrectionRefused, DeadlockAbort, Crash
    <2>6. CASE ReadSub(r) \/ Authenticate(r) \/ ReadMirror(r) \/ AllowChat(r)
                \/ ReadSubscription(r) \/ GrantNothing(r) \/ Resubmit(r)
      BY <1>0, <2>3, <2>6 DEF ReadSub, Authenticate, ReadMirror, AllowChat, ReadSubscription,
                              GrantNothing, Resubmit, books, history
    <2>7. CASE Charge(r) \/ CreditWallet(r) \/ DepositSub(r) \/ DebitSub(r)
                \/ DebitMirror(r) \/ DepositReceipt(r) \/ GrantPlan(r) \/ CorrectSub(r)
                \/ CorrectWallet(r)
      BY <1>0, <2>4, <2>7 DEF Charge, CreditWallet, DepositSub, DebitSub, DebitMirror,
                              DepositReceipt, GrantPlan, CorrectSub, CorrectWallet,
                              LockAndWrite, books, history
    <2>8. CASE CreditBot(r) \/ ChargeBot(r) \/ BuyPlan(r)
      BY <1>0, <2>4, <2>8 DEF CreditBot, ChargeBot, BuyPlan, LockAndWrite, books, history
    <2>9. QED
      BY <2>1, <2>5, <2>6, <2>7, <2>8 DEF Step
  <1>3. QED
    BY <1>1, <1>2

\* A copy that nobody shares stays the balance of its row.
LEMMA UpToDateStep ==
    ASSUME Inv, UpToDate("sub"), HeldAlone("sub"), [Next]_vars
    PROVE  UpToDate("sub")'
  <1> USE DEF Inv
  <1>0. "sub" \in Rows
    BY DEF Rows
  <1>1. CASE ~\E r \in Requests : Commit(r)
    BY <1>0, <1>1, NextRereads DEF Reread, UpToDate, Loaded
  <1>2. ASSUME NEW r \in Requests, Commit(r)
        PROVE  UpToDate("sub")'
    <2>1. /\ copy'[r]["sub"] = None
          /\ \A q \in Requests \ {r} : copy'[q]["sub"] = copy[q]["sub"]
      BY <1>0, <1>2 DEF Commit, EndTransaction, TypeOK
    <2>2. Written(r, "sub") => copy[r]["sub"] # None /\ copy[r]["sub"] = value["sub"]
      BY <1>0 DEF Written, Sessions, UpToDate
    <2>3. overtaken'["sub"] = {}
      BY <1>0, <1>2, <2>2 DEF Commit, UpToDate
    <2>4. CASE Written(r, "sub")
      BY <2>1, <2>2, <2>3, <2>4 DEF HeldAlone, UpToDate
    <2>5. CASE ~Written(r, "sub")
      <3>1. value'["sub"] = value["sub"]
        BY <1>0, <1>2, <2>5 DEF Commit
      <3>2. QED
        BY <2>1, <2>3, <3>1 DEF UpToDate
    <2>6. QED
      BY <2>4, <2>5
  <1>3. QED
    BY <1>1, <1>2

\* wallet_service: "concurrent ... workers cannot overdraw the same balance".  In
\* a behaviour in which no two sessions ever hold the subscription together, the
\* entries never add up to less than zero, and the balance is their sum.
THEOREM HeldAloneIsNotOverdrawn ==
    Spec /\ []HeldAlone("sub") => [](NotOverdrawn /\ value["sub"] = ledger["sub"])
  <1>1. Init => UpToDate("sub")
    BY DEF Init, UpToDate, Rows
  <1>2. Inv /\ UpToDate("sub") /\ HeldAlone("sub") /\ [Next]_vars => UpToDate("sub")'
    BY UpToDateStep
  <1>3. Inv /\ UpToDate("sub") => NotOverdrawn /\ value["sub"] = ledger["sub"]
    BY DEF Inv, Books, NonNegative, BalanceIsLedger, UpToDate, NotOverdrawn, TypeOK, Rows
  <1>4. QED
    BY <1>1, <1>2, <1>3, Invariance, PTL DEF Spec

\* A tenant whose transfers are all made by members other than the owner, and
\* which has no deposit, receipt, plan, grant or correction, cannot overdraw,
\* however its transfers and charges interleave: their lock comes first.
THEOREM MembersDoNotOverdraw ==
    (Owners \union Readers = {}) => (Spec => [](NotOverdrawn /\ value["sub"] = ledger["sub"]))
  <1>1. SUFFICES ASSUME Owners \union Readers = {}
                 PROVE  Spec => [](NotOverdrawn /\ value["sub"] = ledger["sub"])
    OBVIOUS
  <1>2. Inv => NotOverdrawn /\ value["sub"] = ledger["sub"]
    <2> SUFFICES ASSUME Inv PROVE NotOverdrawn /\ value["sub"] = ledger["sub"]
      OBVIOUS
    <2>1. overtaken["sub"] = {} /\ "sub" \in Rows
      BY <1>1 DEF Inv, Books, OnlyHeldCopies, Rows
    <2>2. QED
      BY <2>1 DEF Inv, Books, NonNegative, BalanceIsLedger, NotOverdrawn, TypeOK
  <1>3. QED
    BY <1>2, Invariance, PTL
=============================================================================
