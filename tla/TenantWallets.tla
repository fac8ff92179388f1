--------------------------- MODULE TenantWallets ---------------------------
(***************************************************************************)
(* The money of one organization.  Three rows of the database hold it: the *)
(* owner's subscription ("sub", whole tenge), the organization wallet      *)
(* ("wallet", credits, the mirror of what was paid in) and the wallet of a *)
(* bot ("bot").  Each request moves it in one transaction:                 *)
(*                                                                         *)
(*   charges      deduct_credits: an LLM or image charge under a reference *)
(*   deposits     the money part of process_successful_payment             *)
(*   transfers    top_up_from_organization: from the organization to a bot *)
(*   bot charges  debit_credits: an LLM charge of a bot                    *)
(*   receipts     create_deposit_request, approved without a person        *)
(*   purchases    subscribe: a plan is paid from the balance               *)
(*   grants       Stripe's subscription event: the plan's initial balance  *)
(*   corrections  an administrator's, of subscription and wallet           *)
(*                                                                         *)
(* SELECT ... FOR UPDATE takes the row lock, but it does not refresh an    *)
(* object the session already holds: SQLAlchemy returns the copy of the    *)
(* identity map (populate_existing and refresh do reload it).  "copy" is   *)
(* what a session has loaded of a row and still references, "draft" what   *)
(* it has flushed and not yet committed.  The update writes the drafted    *)
(* value itself, never an increment.                                       *)
(*                                                                         *)
(* A reference belongs to one organization, so the lookup under the row's  *)
(* lock decides, and a transaction with a used reference fails as a whole. *)
(***************************************************************************)
EXTENDS Integers

CONSTANTS
    Charges, Deposits, Transfers, BotCharges, Receipts, Purchases, Grants,
    Additions, Removals,  \* corrections, by their sign
    Owners,      \* transfers made by the owner: authentication loads "sub"
    Casts,       \* bound: sets of requests that take part in a behaviour together
    Refs,        \* reference ids of wallet entries and of receipts
    Ref,         \* the reference of each request
    Price,       \* the amount each reference stands for
    Opening,     \* opening balance of each row
    Floor,       \* PLAN_INITIAL_BALANCE of the plan
    None,        \* no copy, no draft, no lock holder
    MaxFaults    \* bound: crashes and redelivered requests

Corrections   == Additions \union Removals
\* Requests that write the wallet, and those that hold "sub" from an unlocked read.
WalletWriters == Charges \union Deposits \union Transfers \union Corrections
Readers  == Deposits \union Receipts \union Purchases \union Grants \union Corrections
Requests == WalletWriters \union BotCharges \union Readers
Rows     == {"sub", "wallet", "bot"}
Amount(r) == Price[Ref[r]]

ASSUME KindsAssumption ==
    /\ Charges \cap (Readers \union Transfers \union BotCharges) = {}
    /\ Transfers \cap (Readers \union BotCharges) = {}
    /\ BotCharges \cap Readers = {}
    /\ Deposits \cap (Receipts \union Purchases \union Grants \union Corrections) = {}
    /\ Receipts \cap (Purchases \union Grants \union Corrections) = {}
    /\ Purchases \cap (Grants \union Corrections) = {} /\ Grants \cap Corrections = {}
    /\ Additions \cap Removals = {}
    /\ Owners \subseteq Transfers
    /\ Casts \subseteq SUBSET Requests
ASSUME AmountsAssumption ==
    /\ Ref \in [Requests -> Refs]
    /\ Price \in [Refs -> Nat \ {0}]
    /\ Opening \in [Rows -> Nat]
    /\ Floor \in Nat
\* Only a charge or a receipt is ever submitted under the reference of another.
ASSUME RefsAssumption ==
    \A r, q \in Requests :
        Ref[r] = Ref[q] => r = q \/ {r, q} \subseteq Charges \/ {r, q} \subseteq Receipts
ASSUME NoneAssumption == None \notin Int /\ None \notin Requests
ASSUME MaxFaultsAssumption == MaxFaults \in Nat

VARIABLES
    value,      \* committed balance of each row
    rows,       \* references of the committed credit_transactions
    billed,     \* references of the committed billing_transactions of receipts
    lock,       \* holder of each row lock
    pc,         \* each request's next step
    copy,       \* balance each session has loaded of a row and still holds
    draft,      \* balance each session has flushed to a row it has locked
    faultsLeft, \* what remains of MaxFaults
    ledger,     \* history: opening balance plus the changes that sessions committed
    applied,    \* history: committed balance changes under each reference
    overtaken   \* history: requests that wrote a row from an outdated copy

session == <<lock, pc, copy, draft>>
books   == <<value, rows, billed>>
history == <<ledger, applied, overtaken>>
vars    == <<books, session, faultsLeft, history>>

Steps == {"auth", "wallet", "readSub", "sub", "mirror", "bot", "commit", "done", "failed",
          "absent"}

Start(r) == IF r \in Charges \union Deposits THEN "wallet" ELSE "auth"

TypeOK ==
    /\ value \in [Rows -> Int]
    /\ rows \subseteq Refs
    /\ billed \subseteq Refs
    /\ lock \in [Rows -> Requests \union {None}]
    /\ pc \in [Requests -> Steps]
    /\ copy \in [Requests -> [Rows -> Int \union {None}]]
    /\ draft \in [Requests -> [Rows -> Int \union {None}]]
    /\ faultsLeft \in Nat
    /\ ledger \in [Rows -> Int]
    /\ applied \in [Refs -> Nat]
    /\ overtaken \in [Rows -> SUBSET Requests]

Init ==
    /\ value = Opening
    /\ rows = {} /\ billed = {}
    /\ lock = [row \in Rows |-> None]
    /\ \E cast \in Casts : pc = [r \in Requests |-> IF r \in cast THEN Start(r) ELSE "absent"]
    /\ copy = [r \in Requests |-> [row \in Rows |-> None]]
    /\ draft = [r \in Requests |-> [row \in Rows |-> None]]
    /\ faultsLeft = MaxFaults
    /\ ledger = Opening
    /\ applied = [ref \in Refs |-> 0]
    /\ overtaken = [row \in Rows |-> {}]

-----------------------------------------------------------------------------
(* Sessions.                                                               *)

Free(row) == lock[row] = None

\* What SELECT ... FOR UPDATE returns: the held copy, or else the row.
Loaded(r, row) == IF copy[r][row] # None THEN copy[r][row] ELSE value[row]

Goto(r, step) == pc' = [pc EXCEPT ![r] = step]

\* A session reads a row without a lock and keeps the object.
Load(r, row) == copy' = [copy EXCEPT ![r][row] = value[row]]

\* Lock the row and flush a new balance computed from another.
LockAndWriteFrom(r, row, base, new) ==
    /\ Free(row)
    /\ lock' = [lock EXCEPT ![row] = r]
    /\ copy' = [copy EXCEPT ![r][row] = base]
    /\ draft' = [draft EXCEPT ![r][row] = new]

LockAndWrite(r, row, new) == LockAndWriteFrom(r, row, Loaded(r, row), new)

\* Mutant: an early return leaves the transaction open.
EndTransactionOpen(r, step) ==
    /\ Goto(r, step)
    /\ UNCHANGED <<lock, copy, draft>>

\* The transaction is over: locks and loaded objects are gone.
EndTransaction(r, step) ==
    /\ Goto(r, step)
    /\ lock' = [row \in Rows |-> IF lock[row] = r THEN None ELSE lock[row]]
    /\ copy' = [copy EXCEPT ![r] = [row \in Rows |-> None]]
    /\ draft' = [draft EXCEPT ![r] = [row \in Rows |-> None]]

Rollback(r, step) ==
    /\ EndTransaction(r, step)
    /\ UNCHANGED <<books, history>>

Written(r, row) == draft[r][row] # None

\* Mutant: the entry is filed under the request instead of its reference.
CommitUnderRequest(r) ==
    /\ pc[r] = "commit"
    /\ value' = [row \in Rows |-> IF Written(r, row) THEN draft[r][row] ELSE value[row]]
    /\ rows' = IF Written(r, "wallet") THEN rows \union {r} ELSE rows
    /\ EndTransaction(r, "done")
    /\ UNCHANGED <<billed, faultsLeft, history>>

\* Whether the session's transaction has inserted a row with its reference.
Filed(r) == Written(r, "wallet") \/ (r \in Receipts /\ Written(r, "sub"))

Commit(r) ==
    /\ pc[r] = "commit"
    /\ value' = [row \in Rows |-> IF Written(r, row) THEN draft[r][row] ELSE value[row]]
    /\ rows' = IF Written(r, "wallet") THEN rows \union {Ref[r]} ELSE rows
    /\ billed' = IF r \in Receipts /\ Written(r, "sub") THEN billed \union {Ref[r]} ELSE billed
    /\ ledger' = [row \in Rows |->
                    IF Written(r, row) THEN ledger[row] + draft[r][row] - copy[r][row]
                                       ELSE ledger[row]]
    /\ applied' = IF Filed(r) THEN [applied EXCEPT ![Ref[r]] = @ + 1] ELSE applied
    /\ overtaken' = [row \in Rows |->
                       IF Written(r, row) /\ copy[r][row] # value[row]
                       THEN overtaken[row] \union {r} ELSE overtaken[row]]
    /\ EndTransaction(r, "done")
    /\ UNCHANGED faultsLeft

-----------------------------------------------------------------------------
(* deduct_credits, for an LLM or image charge.                             *)

ChargeReplay(r) ==
    /\ r \in Charges /\ pc[r] = "wallet"
    /\ Free("wallet")
    /\ Ref[r] \in rows
    /\ Rollback(r, "done")
    /\ UNCHANGED faultsLeft

ChargeRefused(r) ==
    /\ r \in Charges /\ pc[r] = "wallet"
    /\ Free("wallet")
    /\ Ref[r] \notin rows
    /\ Loaded(r, "wallet") < Amount(r)
    /\ Rollback(r, "done")
    /\ UNCHANGED faultsLeft

\* Mutant: the balance is checked before the lock and not again.
ChargeUnchecked(r) ==
    /\ r \in Charges /\ pc[r] = "wallet"
    /\ Ref[r] \notin rows
    /\ LockAndWrite(r, "wallet", Loaded(r, "wallet") - Amount(r))
    /\ Goto(r, "commit")
    /\ UNCHANGED <<books, faultsLeft, history>>

\* Mutant: no lookup of the reference under the lock.
ChargeAgain(r) ==
    /\ r \in Charges /\ pc[r] = "wallet"
    /\ Loaded(r, "wallet") >= Amount(r)
    /\ LockAndWrite(r, "wallet", Loaded(r, "wallet") - Amount(r))
    /\ Goto(r, "commit")
    /\ UNCHANGED <<books, faultsLeft, history>>

Charge(r) ==
    /\ r \in Charges /\ pc[r] = "wallet"
    /\ Ref[r] \notin rows
    /\ Loaded(r, "wallet") >= Amount(r)
    /\ LockAndWrite(r, "wallet", Loaded(r, "wallet") - Amount(r))
    /\ Goto(r, "commit")
    /\ UNCHANGED <<books, faultsLeft, history>>

-----------------------------------------------------------------------------
(* The settlement of a payment: credit_credits, then credit_card_deposit.  *)

CreditWallet(r) ==
    /\ r \in Deposits /\ pc[r] = "wallet"
    /\ LockAndWrite(r, "wallet", Loaded(r, "wallet") + Amount(r))
    /\ Goto(r, "readSub")
    /\ UNCHANGED <<books, faultsLeft, history>>

\* credit_card_deposit reads the subscription without a lock ...
ReadSub(r) ==
    /\ r \in Deposits /\ pc[r] = "readSub"
    /\ Load(r, "sub")
    /\ Goto(r, "sub")
    /\ UNCHANGED <<books, lock, draft, faultsLeft, history>>

\* ... and its UPDATE waits for whoever holds the row.
DepositSub(r) ==
    /\ r \in Deposits /\ pc[r] = "sub"
    /\ LockAndWrite(r, "sub", Loaded(r, "sub") + Amount(r))
    /\ Goto(r, "commit")
    /\ UNCHANGED <<books, faultsLeft, history>>

-----------------------------------------------------------------------------
(* top_up_from_organization.                                               *)

\* The request is authenticated in the same session: a User comes with its
\* subscriptions, and the request holds it to the end.
Authenticate(r) ==
    /\ r \in Transfers /\ pc[r] = "auth"
    /\ IF r \in Owners THEN Load(r, "sub") ELSE UNCHANGED copy
    /\ Goto(r, "sub")
    /\ UNCHANGED <<books, lock, draft, faultsLeft, history>>

TransferRefused(r) ==
    /\ r \in Transfers /\ pc[r] = "sub"
    /\ Free("sub")
    /\ Loaded(r, "sub") < Amount(r)
    /\ Rollback(r, "done")
    /\ UNCHANGED faultsLeft

DebitSub(r) ==
    /\ r \in Transfers /\ pc[r] = "sub"
    /\ Loaded(r, "sub") >= Amount(r)
    /\ LockAndWrite(r, "sub", Loaded(r, "sub") - Amount(r))
    /\ Goto(r, "mirror")
    /\ UNCHANGED <<books, faultsLeft, history>>

\* The wallet is loaded without a lock and held: it says how much to remove.
ReadMirror(r) ==
    /\ r \in Transfers /\ pc[r] = "mirror"
    /\ Load(r, "wallet")
    /\ Goto(r, IF value["wallet"] > 0 THEN "wallet" ELSE "bot")
    /\ UNCHANGED <<books, lock, draft, faultsLeft, history>>

\* Mutant: the whole amount is removed, whatever the mirror holds.
DebitMirrorWhole(r) ==
    /\ r \in Transfers /\ pc[r] = "wallet"
    /\ LockAndWrite(r, "wallet", Loaded(r, "wallet") - Amount(r))
    /\ Goto(r, "bot")
    /\ UNCHANGED <<books, faultsLeft, history>>

\* deduct_credits of min(mirror, amount), under a fresh reference.
DebitMirror(r) ==
    /\ r \in Transfers /\ pc[r] = "wallet"
    /\ LockAndWrite(r, "wallet",
           IF Amount(r) <= Loaded(r, "wallet") THEN Loaded(r, "wallet") - Amount(r) ELSE 0)
    /\ Goto(r, "bot")
    /\ UNCHANGED <<books, faultsLeft, history>>

\* adjust_balance: the locked SELECT reloads the bot (populate_existing).
CreditBot(r) ==
    /\ r \in Transfers /\ pc[r] = "bot"
    /\ LockAndWriteFrom(r, "bot", value["bot"], value["bot"] + Amount(r))
    /\ Goto(r, "commit")
    /\ UNCHANGED <<books, faultsLeft, history>>

-----------------------------------------------------------------------------
(* debit_credits, for the answer of a bot.                                 *)

\* ensure_chat_allowed loads the bot and compares an estimate; the model is
\* asked, and the turn holds the object.
AllowChat(r) ==
    /\ r \in BotCharges /\ pc[r] = "auth"
    /\ Load(r, "bot")
    /\ Goto(r, "bot")
    /\ UNCHANGED <<books, lock, draft, faultsLeft, history>>

\* The estimate or the price exceeds the balance.
BotChargeRefused(r) ==
    /\ r \in BotCharges
    /\ \/ pc[r] = "auth"
       \/ pc[r] = "bot" /\ Free("bot") /\ value["bot"] < Amount(r)
    /\ Rollback(r, "done")
    /\ UNCHANGED faultsLeft

\* Mutant: the debit is computed from the object the turn holds.
ChargeHeldBot(r) ==
    /\ r \in BotCharges /\ pc[r] = "bot"
    /\ Loaded(r, "bot") >= Amount(r)
    /\ LockAndWrite(r, "bot", Loaded(r, "bot") - Amount(r))
    /\ Goto(r, "commit")
    /\ UNCHANGED <<books, faultsLeft, history>>

\* The locked SELECT reloads the bot, the UPDATE compares once more.
ChargeBot(r) ==
    /\ r \in BotCharges /\ pc[r] = "bot"
    /\ value["bot"] >= Amount(r)
    /\ LockAndWriteFrom(r, "bot", value["bot"], value["bot"] - Amount(r))
    /\ Goto(r, "commit")
    /\ UNCHANGED <<books, faultsLeft, history>>

-----------------------------------------------------------------------------
(* Receipts, plans and corrections: the subscription is read without a     *)
(* lock, and its UPDATE waits for whoever holds the row.                   *)

ReadSubscription(r) ==
    /\ r \in Receipts \union Purchases \union Grants \union Corrections
    /\ pc[r] = "auth"
    /\ r \in Receipts => Ref[r] \notin billed
    /\ r \in Removals => value["sub"] >= Amount(r)
    /\ Load(r, "sub")
    /\ Goto(r, "sub")
    /\ UNCHANGED <<books, lock, draft, faultsLeft, history>>

\* The receipt's reference is known (it is left to a person), or the balance
\* would become negative.
ReadRefused(r) ==
    /\ pc[r] = "auth"
    /\ \/ r \in Receipts /\ Ref[r] \in billed
       \/ r \in Removals /\ value["sub"] < Amount(r)
    /\ Rollback(r, "done")
    /\ UNCHANGED faultsLeft

\* The unique index: another upload of the receipt was committed since.
ReceiptConflict(r) ==
    /\ r \in Receipts /\ pc[r] = "sub"
    /\ Free("sub")
    /\ Ref[r] \in billed
    /\ Rollback(r, "failed")
    /\ UNCHANGED faultsLeft

DepositReceipt(r) ==
    /\ r \in Receipts /\ pc[r] = "sub"
    /\ Ref[r] \notin billed
    /\ LockAndWrite(r, "sub", Loaded(r, "sub") + Amount(r))
    /\ Goto(r, "commit")
    /\ UNCHANGED <<books, faultsLeft, history>>

AtLeastZero(n) == IF n < 0 THEN 0 ELSE n

\* A balance below the plan's initial one is raised to it; otherwise the first
\* flush leaves the column out and the refresh after it reloads the row.
BuyPlan(r) ==
    /\ r \in Purchases /\ pc[r] = "sub"
    /\ IF Loaded(r, "sub") < Floor
       THEN LockAndWrite(r, "sub", AtLeastZero(Floor - Amount(r)))
       ELSE LockAndWriteFrom(r, "sub", value["sub"], AtLeastZero(value["sub"] - Amount(r)))
    /\ Goto(r, "commit")
    /\ UNCHANGED <<books, faultsLeft, history>>

GrantPlan(r) ==
    /\ r \in Grants /\ pc[r] = "sub"
    /\ Loaded(r, "sub") < Floor
    /\ LockAndWrite(r, "sub", Floor)
    /\ Goto(r, "commit")
    /\ UNCHANGED <<books, faultsLeft, history>>

\* Only the plan's columns are written.
GrantNothing(r) ==
    /\ r \in Grants /\ pc[r] = "sub"
    /\ Free("sub")
    /\ Loaded(r, "sub") >= Floor
    /\ Goto(r, "commit")
    /\ UNCHANGED <<books, lock, copy, draft, faultsLeft, history>>

CorrectSub(r) ==
    /\ r \in Corrections /\ pc[r] = "sub"
    /\ LockAndWrite(r, "sub",
           IF r \in Additions THEN Loaded(r, "sub") + Amount(r) ELSE Loaded(r, "sub") - Amount(r))
    /\ Goto(r, "wallet")
    /\ UNCHANGED <<books, faultsLeft, history>>

\* credit_credits or deduct_credits, under a fresh reference.
CorrectWallet(r) ==
    /\ r \in Corrections /\ pc[r] = "wallet"
    /\ r \in Removals => Loaded(r, "wallet") >= Amount(r)
    /\ LockAndWrite(r, "wallet",
           IF r \in Additions THEN Loaded(r, "wallet") + Amount(r)
                              ELSE Loaded(r, "wallet") - Amount(r))
    /\ Goto(r, "commit")
    /\ UNCHANGED <<books, faultsLeft, history>>

\* The wallet has less: what was flushed to the subscription goes as well.
CorrectionRefused(r) ==
    /\ r \in Removals /\ pc[r] = "wallet"
    /\ Free("wallet")
    /\ Loaded(r, "wallet") < Amount(r)
    /\ Rollback(r, "done")
    /\ UNCHANGED faultsLeft

-----------------------------------------------------------------------------
(* Faults.                                                                 *)

\* The row a request needs next.
Wants(r) ==
    CASE pc[r] = "wallet" -> "wallet"
      [] pc[r] = "sub"    -> "sub"
      [] pc[r] = "bot"    -> "bot"
      [] OTHER            -> "none"

WaitsFor(r, q) == \E row \in Rows : Wants(r) = row /\ lock[row] = q /\ q # r

\* PostgreSQL aborts one of two transactions that wait for each other.
DeadlockAbort(r) ==
    /\ \E q \in Requests : WaitsFor(r, q) /\ WaitsFor(q, r)
    /\ Rollback(r, "failed")
    /\ UNCHANGED faultsLeft

Fault == faultsLeft > 0 /\ faultsLeft' = faultsLeft - 1

\* The process dies or the connection breaks before the commit.
Crash(r) ==
    /\ pc[r] \notin {Start(r), "done", "failed", "absent"}
    /\ Fault
    /\ Rollback(r, "failed")

\* A charge or a receipt is submitted again, or a failed payment by its provider.
Resubmit(r) ==
    /\ \/ r \in Charges \union Receipts /\ pc[r] \in {"done", "failed"}
       \/ r \in Deposits /\ pc[r] = "failed"
    /\ Fault
    /\ Goto(r, Start(r))
    /\ UNCHANGED <<books, lock, copy, draft, history>>

-----------------------------------------------------------------------------
Step(r) ==
    \/ ChargeReplay(r) \/ ChargeRefused(r) \/ Charge(r)
    \/ CreditWallet(r) \/ ReadSub(r) \/ DepositSub(r)
    \/ Authenticate(r) \/ TransferRefused(r) \/ DebitSub(r)
    \/ ReadMirror(r) \/ DebitMirror(r) \/ CreditBot(r)
    \/ AllowChat(r) \/ BotChargeRefused(r) \/ ChargeBot(r)
    \/ ReadSubscription(r) \/ ReadRefused(r)
    \/ ReceiptConflict(r) \/ DepositReceipt(r)
    \/ BuyPlan(r) \/ GrantPlan(r) \/ GrantNothing(r)
    \/ CorrectSub(r) \/ CorrectWallet(r) \/ CorrectionRefused(r)
    \/ Commit(r)
    \/ DeadlockAbort(r)

Next == \E r \in Requests : Step(r) \/ Crash(r) \/ Resubmit(r)

Spec == Init /\ [][Next]_vars

\* Every request is served, and the deadlock detector runs.
FairSpec == Spec /\ \A r \in Requests : WF_vars(Step(r))

-----------------------------------------------------------------------------
\* No row is ever committed below zero, whatever copies the sessions hold.
NonNegative == \A row \in Rows : value[row] >= 0

\* However often and by however many requests a charge or a receipt is
\* submitted, money moves once under its reference, and exactly when its row
\* is there.
AppliedOnce ==
    \A ref \in Refs : applied[ref] = IF ref \in rows \union billed THEN 1 ELSE 0

\* A row agrees with its ledger until a request has written it from an
\* outdated copy.
BalanceIsLedger ==
    \A row \in Rows : overtaken[row] = {} => value[row] = ledger[row]

\* Who can do that: a transfer to the wallet; the owner's transfer, a deposit,
\* a receipt, a plan or a correction to the subscription; nobody to the bot.  A
\* charge, a credit or a correction of the wallet, and the transfer of any other
\* member, always starts from the row.
OnlyHeldCopies ==
    /\ overtaken["wallet"] \subseteq Transfers
    /\ overtaken["sub"] \subseteq Owners \union Readers
    /\ overtaken["bot"] = {}

\* A balance that differs from its ledger is explained by a copy that one of
\* those requests held too long, and by no other: in particular no turn of a bot
\* undoes another's charge, though each holds the bot from before its answer.
DriftOnlyFromHeldCopies == BalanceIsLedger /\ OnlyHeldCopies

Ledger == INSTANCE CreditLedger
            WITH balance <- value["wallet"], posted <- rows, Opening <- Opening["wallet"]

\* The commit of a transfer whose copy of the wallet is outdated.
OvertakenTransfer ==
    \E r \in Transfers :
        Commit(r) /\ Written(r, "wallet") /\ copy[r]["wallet"] # value["wallet"]

\* Apart from that commit the wallet is a credit ledger: every other step of
\* every interleaving posts one entry, or leaves the wallet alone.
WalletIsLedger ==
    Ledger!Init /\ [][Ledger!Next \/ OvertakenTransfer]_<<value["wallet"], rows>>

\* No request waits for ever: transfers lock the subscription before the
\* wallet and deposits the other way round, and the abort sets them free.
EveryRequestEnds == <>[](\A r \in Requests : pc[r] \in {"done", "failed", "absent"})

\* "SELECT FOR UPDATE on subscriptions so concurrent ... workers cannot
\* overdraw the same balance": the entries never add up to less than zero.
NotOverdrawn == ledger["sub"] >= 0
=============================================================================
