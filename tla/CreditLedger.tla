---------------------------- MODULE CreditLedger ----------------------------
(***************************************************************************)
(* What an organization's credit wallet promises its callers: a balance    *)
(* that only posted ledger entries move, each entry at once and under a    *)
(* reference that is used a single time.                                   *)
(***************************************************************************)
EXTENDS Integers

CONSTANTS
    Refs,      \* reference ids of ledger entries
    Price,     \* credits each reference stands for, at least one
    Opening    \* opening balance, at least zero

VARIABLES balance, posted

Init == balance = Opening /\ posted = {}

\* A charge is posted in full or not at all.
Charge(ref) ==
    /\ ref \notin posted
    /\ Price[ref] <= balance
    /\ balance' = balance - Price[ref]
    /\ posted' = posted \union {ref}

Credit(ref) ==
    /\ ref \notin posted
    /\ balance' = balance + Price[ref]
    /\ posted' = posted \union {ref}

\* A transfer to a bot removes what the wallet still holds of its amount.
Sweep(ref) ==
    /\ ref \notin posted
    /\ balance > 0
    /\ balance' = IF Price[ref] <= balance THEN balance - Price[ref] ELSE 0
    /\ posted' = posted \union {ref}

Next == \E ref \in Refs : Charge(ref) \/ Credit(ref) \/ Sweep(ref)

Spec == Init /\ [][Next]_<<balance, posted>>
=============================================================================
