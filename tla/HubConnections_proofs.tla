------------------------ MODULE HubConnections_proofs ------------------------
(***************************************************************************)
(* Proofs about the Hub's connections: HubTokens, the rows and tokens of a *)
(* connection and the sessions that write them, and HubOutbound, the jobs  *)
(* that act over it.                                                       *)
(*                                                                         *)
(* HubTokens: whatever refreshes, connects, disconnects and checks overlap *)
(* the row and the vault hold one token, which is used up once, stays      *)
(* wiped until a connect, and is called expired in error only over a row   *)
(* that has changed.                                                       *)
(*                                                                         *)
(* HubOutbound: jobs overlap only after a job has run without the key, and *)
(* usage goes with the rows that say ok.                                   *)
(***************************************************************************)
EXTENDS HubTokens, HubOutbound, TLAPS

-----------------------------------------------------------------------------
(* HubTokens: the inductive invariant.                                     *)

\* Between transactions a session holds nothing.
AtRest(p) ==
    tpc[p] \in {"idle", "aborted", "done"} =>
        /\ todo[p] = {}
        /\ \A k \in Conns :
              /\ held[p][k] = Nobody /\ want[p][k] = Nobody
              /\ drawn[p][k] = Nobody /\ spent[p][k] = Nobody
              /\ rowLock[k] # p /\ vaultLock[k] # p

\* Tokens a session knows of were issued, and what it is going to write to the
\* vault it writes under the vault's lock.
Issued(p) ==
    \A k \in Conns :
        /\ held[p][k] # Nobody => held[p][k].token <= minted[k]
        /\ drawn[p][k] # Nobody => drawn[p][k] <= minted[k]
        /\ drawn[p][k] # Nobody => vaultLock[k] = p \/ (p \in Connects /\ tpc[p] = "store")

\* A row is written from a copy.  Only a check says expired, of tokens that
\* had run out or been refused.
Drafted(p) ==
    \A k \in Conns : want[p][k] # Nobody =>
        /\ held[p][k] # Nobody
        /\ want[p][k].status = "expired" =>
              /\ want[p][k].token = held[p][k].token
              /\ want[p][k].life = held[p][k].life
              /\ held[p][k].token \notin valid[k] \/ held[p][k].life = "due"

Visiting(p, k) == tpc[p] \in {"row", "vault", "http"} /\ cur[p] = k

\* A beat visits a connection once, and the token it uses up is the vault's:
\* the successor goes to both rows.
BeatOK(p) ==
    p \in Beats => \A k \in Conns :
        /\ Visiting(p, k) => held[p][k] # Nobody /\ k \notin todo[p]
        /\ Visiting(p, k) /\ tpc[p] = "http" => vaultLock[k] = p /\ secret[p] = vault[k]
        /\ k \in todo[p] \/ Visiting(p, k) => want[p][k] = Nobody
        /\ drawn[p][k] = Nobody =>
              /\ spent[p][k] = Nobody
              /\ want[p][k] # Nobody => want[p][k].token = held[p][k].token
        /\ drawn[p][k] # Nobody =>
              /\ drawn[p][k] # 0
              /\ want[p][k] # Nobody /\ want[p][k].token = drawn[p][k]
              /\ spent[p][k] = vault[k] /\ vault[k] # 0

\* A connect writes its grant to both rows of its connection.
ConnectOK(p) ==
    p \in Connects => \A k \in Conns :
        /\ spent[p][k] = Nobody
        /\ k # Target[p] => want[p][k] = Nobody /\ drawn[p][k] = Nobody
        /\ drawn[p][k] # 0
        /\ k = Target[p] =>
              /\ tpc[p] \in {"store", "load", "bind", "commit"} => drawn[p][k] # Nobody
              /\ tpc[p] = "bind" => held[p][k] # Nobody
              /\ tpc[p] = "commit" <=> want[p][k] # Nobody
              /\ want[p][k] # Nobody => want[p][k].token = drawn[p][k]

\* A disconnect wipes the row it has locked, and the vault if its copy has
\* tokens.
DisconnectOK(p) ==
    p \in Disconnects => \A k \in Conns :
        /\ spent[p][k] = Nobody
        /\ tpc[p] = "wipe" /\ k = Target[p] => held[p][k] # Nobody
        /\ rowLock[k] = p => want[p][k] # Nobody
        /\ want[p][k] # Nobody => k = Target[p] /\ want[p][k] = RevokedRow
        /\ vaultLock[k] = p => drawn[p][k] # Nobody
        /\ drawn[p][k] # Nobody =>
              k = Target[p] /\ drawn[p][k] = 0 /\ held[p][k] # Nobody /\ held[p][k].token # 0

\* A check works on copies of connected rows and never on tokens.
CheckOK(p) ==
    p \in Checks => \A k \in Conns :
        /\ spent[p][k] = Nobody /\ drawn[p][k] = Nobody
        /\ k \in todo[p] => held[p][k] # Nobody
        /\ held[p][k] # Nobody => held[p][k].status = "connected"
        /\ want[p][k] # Nobody => want[p][k].token = held[p][k].token

SessionOK(p) ==
    /\ AtRest(p) /\ Issued(p) /\ Drafted(p)
    /\ BeatOK(p) /\ ConnectOK(p) /\ DisconnectOK(p) /\ CheckOK(p)

\* The provider has issued every token.
TokensIssued ==
    \A k \in Conns : valid[k] \subseteq 1..minted[k] /\ vault[k] <= minted[k]

\* A token that is about to be written is valid, and nobody else's.
Unshared ==
    \A p \in Sessions, k \in Conns : drawn[p][k] # Nobody /\ drawn[p][k] # 0 =>
        /\ drawn[p][k] \in valid[k] /\ drawn[p][k] # vault[k]
        /\ \A q \in Sessions :
              /\ held[q][k] # Nobody => held[q][k].token # drawn[p][k]
              /\ q # p => drawn[q][k] # drawn[p][k]

TokInv ==
    /\ TokTypeOK /\ \A p \in Sessions : SessionOK(p)
    /\ TokensIssued /\ Unshared /\ SpentOnce /\ GrantKept /\ ExpiredInError
-----------------------------------------------------------------------------
(* The operators the actions are built from.                               *)

\* What the type invariant says of one session and one connection.
LEMMA Typed ==
  ASSUME TokTypeOK, NEW p \in Sessions, NEW k \in Conns
  PROVE  /\ connRow[k] \in RowType /\ connRow[k].token \in Nat
         /\ vault[k] \in Nat /\ minted[k] \in Nat /\ valid[k] \subseteq Nat
         /\ held[p][k] \in RowType \union {Nobody} /\ want[p][k] \in RowType \union {Nobody}
         /\ held[p][k] # Nobody => held[p][k].token \in Nat
         /\ drawn[p][k] \in Nat \union {Nobody} /\ spent[p][k] \in Nat \union {Nobody}
         /\ todo[p] \subseteq Conns
  BY DEF TokTypeOK, PerConn, RowType

\* TokGoto moves one session.
LEMMA Goto ==
  ASSUME TokTypeOK, NEW p \in Sessions, NEW step \in TokSteps, TokGoto(p, step)
  PROVE  /\ tpc' \in [Sessions -> TokSteps] /\ tpc'[p] = step
         /\ \A q \in Sessions : q # p => tpc'[q] = tpc[q]
  BY DEF TokTypeOK, TokGoto

\* LoadRow replaces one copy of one session by the committed row.
LEMMA Loads ==
  ASSUME TokTypeOK, NEW p \in Sessions, NEW k \in Conns, LoadRow(p, k)
  PROVE  /\ held' \in PerConn(RowType)
         /\ \A x \in Conns : held'[p][x] = IF x = k THEN connRow[k] ELSE held[p][x]
         /\ \A q \in Sessions : q # p => held'[q] = held[q]
<1>1. held \in PerConn(RowType) /\ connRow[k] \in RowType
  BY DEF TokTypeOK
<1> QED
  BY <1>1 DEF LoadRow, PerConn

\* Draft sets one row that one session is going to write.
LEMMA Drafting ==
  ASSUME TokTypeOK, NEW p \in Sessions, NEW k \in Conns, NEW new \in RowType, Draft(p, k, new)
  PROVE  /\ want' \in PerConn(RowType)
         /\ \A x \in Conns : want'[p][x] = IF x = k THEN new ELSE want[p][x]
         /\ \A q \in Sessions : q # p => want'[q] = want[q]
<1>1. want \in PerConn(RowType)
  BY DEF TokTypeOK
<1> QED
  BY <1>1 DEF Draft, PerConn

\* LockRow takes a free row lock.
LEMMA LocksRow ==
  ASSUME TokTypeOK, NEW p \in Sessions, NEW k \in Conns, LockRow(p, k)
  PROVE  /\ rowLock' \in [Conns -> Sessions \union {Nobody}]
         /\ rowLock[k] = Nobody
         /\ \A x \in Conns : rowLock'[x] = IF x = k THEN p ELSE rowLock[x]
  BY DEF TokTypeOK, LockRow

\* LockVault takes a free vault lock.
LEMMA LocksVault ==
  ASSUME TokTypeOK, NEW p \in Sessions, NEW k \in Conns, LockVault(p, k)
  PROVE  /\ vaultLock' \in [Conns -> Sessions \union {Nobody}]
         /\ vaultLock[k] = Nobody
         /\ \A x \in Conns : vaultLock'[x] = IF x = k THEN p ELSE vaultLock[x]
  BY DEF TokTypeOK, LockVault

-----------------------------------------------------------------------------
(* Steps of one session.                                                   *)

\* A step of p leaves the other sessions and their locks alone.
Alone(p) ==
    \A q \in Sessions : q # p =>
        /\ tpc'[q] = tpc[q] /\ todo'[q] = todo[q] /\ cur'[q] = cur[q]
        /\ secret'[q] = secret[q] /\ spent'[q] = spent[q]
        /\ held'[q] = held[q] /\ want'[q] = want[q] /\ drawn'[q] = drawn[q]
        /\ \A k \in Conns : /\ rowLock'[k] = q <=> rowLock[k] = q
                            /\ vaultLock'[k] = q <=> vaultLock[k] = q

\* It writes to the vault under the vault's lock, and tokens once refused stay
\* refused.
Orderly(p) ==
    \A k \in Conns :
        /\ vault'[k] # vault[k] => vaultLock[k] = p
        /\ minted[k] <= minted'[k]
        /\ \A t \in valid'[k] : t \in valid[k] \/ t > minted[k]

\* A step that leaves q alone and is orderly keeps what holds of q.
LEMMA OthersKept ==
  ASSUME TokTypeOK, TokTypeOK', NEW p \in Sessions, Alone(p), Orderly(p),
         NEW q \in Sessions, q # p, SessionOK(q)
  PROVE  SessionOK(q)'
<1> USE SessionsAssumption, NobodyAssumption, RowsAssumption
<1>0. \A k \in Conns :
        /\ held[q][k] \in RowType \union {Nobody} /\ want[q][k] \in RowType \union {Nobody}
        /\ drawn[q][k] \in Nat \union {Nobody} /\ spent[q][k] \in Nat \union {Nobody}
        /\ minted[k] \in Nat /\ minted'[k] \in Nat /\ vault[k] \in Nat
  BY DEF TokTypeOK, PerConn
<1>1. AtRest(q)'
  BY DEF SessionOK, AtRest, Alone
<1>2. Issued(q)'
  BY <1>0 DEF SessionOK, Issued, Alone, Orderly, RowType
<1>3. Drafted(q)'
  <2> SUFFICES ASSUME NEW k \in Conns, want[q][k] # Nobody
               PROVE  /\ held[q][k] # Nobody
                      /\ want[q][k].status = "expired" =>
                            /\ want[q][k].token = held[q][k].token
                            /\ want[q][k].life = held[q][k].life
                            /\ held[q][k].token \notin valid'[k] \/ held[q][k].life = "due"
    BY DEF Alone, Drafted
  <2> QED
    BY <1>0 DEF SessionOK, Drafted, Issued, Orderly, RowType
<1>4. BeatOK(q)'
  <2>1. \A k \in Conns : Visiting(q, k)' <=> Visiting(q, k)
    BY DEF Visiting, Alone
  <2>2. \A k \in Conns : vaultLock[k] = q => vault'[k] = vault[k]
    BY DEF Orderly
  <2> QED
    BY <2>1, <2>2 DEF SessionOK, BeatOK, Issued, Alone
<1>5. ConnectOK(q)'
  BY DEF SessionOK, ConnectOK, Alone
<1>6. DisconnectOK(q)'
  BY DEF SessionOK, DisconnectOK, Alone
<1>7. CheckOK(q)'
  BY DEF SessionOK, CheckOK, Alone
<1> QED
  BY <1>1, <1>2, <1>3, <1>4, <1>5, <1>6, <1>7 DEF SessionOK

\* Most steps read, lock and draft: the rows and the provider stay as they are.
Quiet ==
    /\ UNCHANGED <<tokRows, tokIssuer, lost, overtaken>>
    /\ \A q \in Sessions, k \in Conns :
          /\ spent'[q][k] = spent[q][k]
          /\ vaultLock[k] = q => vaultLock'[k] = q
          /\ drawn'[q][k] = drawn[q][k] \/ drawn'[q][k] = 0
          /\ held'[q][k] \in {held[q][k], connRow[k], Nobody}

\* A quiet step of p keeps the invariant if it keeps what holds of p.
LEMMA QuietStep ==
  ASSUME TokInv, TokTypeOK', NEW p \in Sessions, Alone(p), Quiet, SessionOK(p)', SpentOnce'
  PROVE  TokInv'
<1> USE SessionsAssumption, NobodyAssumption, RowsAssumption
<1>1. Orderly(p)
  BY DEF TokInv, Orderly, Quiet, tokRows, tokIssuer, TokTypeOK
<1>2. \A q \in Sessions : SessionOK(q)'
  BY <1>1, OthersKept DEF TokInv
<1>3. TokensIssued'
  BY DEF TokInv, TokensIssued, Quiet, tokRows, tokIssuer
<1>4. Unshared'
  <2> SUFFICES ASSUME NEW q \in Sessions, NEW k \in Conns,
                      drawn'[q][k] # Nobody, drawn'[q][k] # 0
               PROVE  /\ drawn'[q][k] \in valid'[k] /\ drawn'[q][k] # vault'[k]
                      /\ \A s \in Sessions :
                           /\ held'[s][k] # Nobody => held'[s][k].token # drawn'[q][k]
                           /\ s # q => drawn'[s][k] # drawn'[q][k]
    BY DEF Unshared
  <2>1. drawn'[q][k] = drawn[q][k]
    BY DEF Quiet
  <2>2. drawn[q][k] \in valid[k] /\ drawn[q][k] # vault[k]
        /\ \A s \in Sessions :
             /\ held[s][k] # Nobody => held[s][k].token # drawn[q][k]
             /\ s # q => drawn[s][k] # drawn[q][k]
    BY <2>1 DEF TokInv, Unshared
  <2>3. connRow[k].token = vault[k]
    BY DEF TokInv, GrantKept
  <2> QED
    BY <2>1, <2>2, <2>3 DEF Quiet, tokRows, tokIssuer
<1>5. GrantKept'
  BY DEF TokInv, GrantKept, Rotating, Quiet, tokRows, tokIssuer, Sessions
<1>6. ExpiredInError'
  BY DEF TokInv, ExpiredInError, Quiet, tokRows, tokIssuer
<1> QED
  BY <1>2, <1>3, <1>4, <1>5, <1>6 DEF TokInv
-----------------------------------------------------------------------------
(* Steps that read, lock and draft.                                        *)

\* What is said of one kind of sessions says nothing of the others.
LEMMA OneKind ==
  ASSUME NEW p \in Sessions, AtRest(p)', Issued(p)', Drafted(p)',
         \/ p \in Beats /\ BeatOK(p)'
         \/ p \in Connects /\ ConnectOK(p)'
         \/ p \in Disconnects /\ DisconnectOK(p)'
         \/ p \in Checks /\ CheckOK(p)'
  PROVE  SessionOK(p)'
  BY SessionsAssumption DEF SessionOK, BeatOK, ConnectOK, DisconnectOK, CheckOK

\* A session between transactions is in order.
LEMMA Resting ==
  ASSUME NEW p \in Sessions, tpc'[p] \in {"idle", "aborted", "done"}, todo'[p] = {},
         \A k \in Conns : /\ held'[p][k] = Nobody /\ want'[p][k] = Nobody
                          /\ drawn'[p][k] = Nobody /\ spent'[p][k] = Nobody
                          /\ rowLock'[k] # p /\ vaultLock'[k] # p
  PROVE  SessionOK(p)'
<1> USE SessionsAssumption, NobodyAssumption
<1>1. AtRest(p)' /\ Issued(p)' /\ Drafted(p)'
  BY DEF AtRest, Issued, Drafted
<1>2. BeatOK(p)'
  BY DEF BeatOK, Visiting
<1>3. ConnectOK(p)' /\ DisconnectOK(p)' /\ CheckOK(p)'
  BY DEF ConnectOK, DisconnectOK, CheckOK
<1> QED
  BY <1>1, <1>2, <1>3 DEF SessionOK

\* The row is loaded for the first time in this transaction: no draft rests on an older copy.
LEMMA PickStep ==
  ASSUME TokInv, NEW p \in Sessions, NEW k \in Conns, Pick(p, k)
  PROVE  TokInv'
<1> USE SessionsAssumption, NobodyAssumption, RowsAssumption
<1>1. TokTypeOK /\ SessionOK(p)
  BY DEF TokInv
<1>2. /\ p \in Beats /\ k \in todo[p] /\ todo'[p] = todo[p] \ {k} /\ cur'[p] = k
      /\ LoadRow(p, k) /\ TokGoto(p, "row")
      /\ UNCHANGED <<tokRows, want, drawn, secret, spent, tokLocks, tokIssuer, tokHistory>>
  BY <1>1 DEF Pick, TokTypeOK
<1>3. tpc'[p] = "row" /\ \A x \in Conns : held'[p][x] = IF x = k THEN connRow[k] ELSE held[p][x]
  BY <1>1, <1>2, Goto, Loads DEF TokSteps
<1>4. TokTypeOK'
  BY <1>1, <1>2, Goto, Loads DEF Pick, TokTypeOK, TokSteps, tokRows, tokLocks, tokIssuer, tokHistory
<1>5. Alone(p)
  BY <1>1, <1>2, Goto, Loads DEF Pick, TokTypeOK, TokSteps, Alone, tokLocks
<1>6. Quiet /\ SpentOnce'
  BY <1>1, <1>2, <1>3, Loads DEF Quiet, TokInv, SpentOnce, tokRows, tokLocks, tokIssuer, tokHistory
<1>7. AtRest(p)'
  BY <1>3 DEF AtRest
<1>8. Issued(p)'
  BY <1>1, <1>2, <1>3, Typed
  DEF SessionOK, Issued, TokInv, GrantKept, TokensIssued, tokLocks, tokIssuer
<1>9. Drafted(p)'
  BY <1>1, <1>2, <1>3 DEF SessionOK, Drafted, BeatOK, tokIssuer
<1>10. BeatOK(p)'
  BY <1>1, <1>2, <1>3, Typed DEF SessionOK, BeatOK, Visiting, tokRows, tokLocks
<1> QED
  BY <1>2, <1>4, <1>5, <1>6, <1>7, <1>8, <1>9, <1>10, OneKind, QuietStep

\* The vault's token is read under its lock and stays the vault's until the lock is released.
LEMMA ReadVaultStep ==
  ASSUME TokInv, NEW p \in Sessions, NEW k \in Conns, ReadVault(p, k)
  PROVE  TokInv'
<1> USE SessionsAssumption, NobodyAssumption, RowsAssumption
<1>1. TokTypeOK /\ SessionOK(p)
  BY DEF TokInv
<1>2. /\ p \in Beats /\ tpc[p] = "vault" /\ cur[p] = k /\ LockVault(p, k)
      /\ TokGoto(p, "pick") \/ (TokGoto(p, "http") /\ secret'[p] = vault[k])
      /\ UNCHANGED <<tokRows, todo, cur, held, want, drawn, spent, rowLock, tokIssuer, tokHistory>>
  BY <1>1 DEF ReadVault, TokTypeOK
<1>3. /\ tpc'[p] = "pick" \/ (tpc'[p] = "http" /\ secret'[p] = vault[k])
      /\ \A x \in Conns : vaultLock'[x] = IF x = k THEN p ELSE vaultLock[x]
  BY <1>1, <1>2, Goto, LocksVault DEF TokSteps
<1>4. TokTypeOK'
  <2>1. secret' \in [Sessions -> Nat] /\ agesLeft' = agesLeft /\ tokFaults' = tokFaults
    BY <1>1 DEF ReadVault, TokTypeOK
  <2> QED
    BY <1>1, <1>2, <2>1, Goto, LocksVault DEF TokTypeOK, TokSteps, tokRows, tokIssuer, tokHistory
<1>5. Alone(p)
  BY <1>1, <1>2, Goto, LocksVault DEF ReadVault, TokTypeOK, TokSteps, Alone
<1>6. Quiet /\ SpentOnce'
  BY <1>1, <1>2, LocksVault DEF Quiet, TokInv, SpentOnce, tokRows, tokIssuer, tokHistory
<1>7. AtRest(p)'
  BY <1>3 DEF AtRest
<1>8. Issued(p)'
  BY <1>1, <1>2, <1>3 DEF SessionOK, Issued, tokIssuer
<1>9. Drafted(p)'
  BY <1>1, <1>2 DEF SessionOK, Drafted, tokIssuer
<1>10. BeatOK(p)'
  BY <1>1, <1>2, <1>3 DEF SessionOK, BeatOK, Visiting, tokRows
<1> QED
  BY <1>2, <1>4, <1>5, <1>6, <1>7, <1>8, <1>9, <1>10, OneKind, QuietStep

\* A row without tokens is marked from the copy, and its tokens are left alone.
LEMMA LockConnectionStep ==
  ASSUME TokInv, NEW p \in Sessions, NEW k \in Conns, LockConnection(p, k)
  PROVE  TokInv'
<1> USE SessionsAssumption, NobodyAssumption, RowsAssumption
<1> DEFINE failed == [held[p][k] EXCEPT !.status = "error"]
           wiped  == held[p][k].token = 0
<1>1. TokTypeOK /\ SessionOK(p)
  BY DEF TokInv
<1>2. /\ p \in Beats /\ tpc[p] = "row" /\ cur[p] = k /\ LockRow(p, k)
      /\ UNCHANGED <<tokRows, todo, cur, held, drawn, secret, spent, vaultLock, tokIssuer,
                     agesLeft, tokFaults, tokHistory>>
  BY DEF LockConnection
<1>3. held[p][k] \in RowType /\ held[p][k] # Nobody /\ want[p][k] = Nobody /\ drawn[p][k] = Nobody
  BY <1>1, <1>2, Typed DEF SessionOK, BeatOK, Visiting
<1>4. /\ failed \in RowType /\ failed # Nobody
      /\ failed.status = "error" /\ failed.token = held[p][k].token
  BY <1>3 DEF RowType
<1> HIDE DEF failed
<1>5. /\ tpc' \in [Sessions -> TokSteps] /\ tpc'[p] = IF wiped THEN "pick" ELSE "vault"
      /\ want' \in PerConn(RowType)
      /\ \A x \in Conns : want'[p][x] = IF x = k /\ wiped THEN failed ELSE want[p][x]
      /\ \A q \in Sessions : q # p => tpc'[q] = tpc[q] /\ want'[q] = want[q]
  <2>1. CASE wiped
    <3>1. Draft(p, k, failed) /\ TokGoto(p, "pick")
      BY <2>1 DEF LockConnection, failed
    <3> QED
      BY <1>1, <1>4, <2>1, <3>1, Goto, Drafting DEF TokSteps
  <2>2. CASE ~wiped
    BY <1>1, <2>2, Goto DEF LockConnection, TokSteps, TokTypeOK
  <2> QED
    BY <2>1, <2>2
<1> HIDE DEF wiped
<1>6. TokTypeOK'
  BY <1>1, <1>2, <1>5, LocksRow DEF TokTypeOK, tokRows, tokIssuer, tokHistory
<1>7. Alone(p)
  BY <1>1, <1>2, <1>5, LocksRow DEF Alone
<1>8. Quiet /\ SpentOnce'
  BY <1>2 DEF Quiet, TokInv, SpentOnce, tokRows, tokIssuer, tokHistory
<1>9. AtRest(p)'
  BY <1>5 DEF AtRest
<1>10. Issued(p)'
  BY <1>1, <1>2, <1>5 DEF SessionOK, Issued, tokIssuer
<1>11. Drafted(p)'
  BY <1>1, <1>2, <1>3, <1>4, <1>5 DEF SessionOK, Drafted, tokIssuer
<1>12. BeatOK(p)'
  BY <1>1, <1>2, <1>3, <1>4, <1>5 DEF SessionOK, BeatOK, Visiting, tokRows
<1> QED
  BY <1>2, <1>6, <1>7, <1>8, <1>9, <1>10, <1>11, <1>12, OneKind, QuietStep

\* A scan begins a transaction that has visited no connection yet.
LEMMA ScanStep ==
  ASSUME TokInv, NEW p \in Sessions, Scan(p)
  PROVE  TokInv'
<1> USE SessionsAssumption, NobodyAssumption, RowsAssumption
<1>1. TokTypeOK /\ SessionOK(p)
  BY DEF TokInv
<1>2. /\ p \in Beats /\ tpc[p] = "idle" /\ TokGoto(p, "pick")
      /\ UNCHANGED <<tokRows, cur, held, want, drawn, secret, spent, tokLocks, tokIssuer,
                     agesLeft, tokFaults, tokHistory>>
  BY DEF Scan
<1>3. tpc'[p] = "pick"
  BY <1>1, <1>2, Goto DEF TokSteps
<1>4. TokTypeOK'
  <2>1. todo' \in [Sessions -> SUBSET Conns]
    BY <1>1 DEF Scan, TokTypeOK
  <2> QED
    BY <1>1, <1>2, <2>1, Goto DEF TokTypeOK, TokSteps, tokRows, tokLocks, tokIssuer, tokHistory
<1>5. Alone(p)
  BY <1>1, <1>2, Goto DEF Scan, TokTypeOK, TokSteps, Alone, tokLocks
<1>6. Quiet /\ SpentOnce'
  BY <1>2 DEF Quiet, TokInv, SpentOnce, tokRows, tokLocks, tokIssuer, tokHistory
<1>7. AtRest(p)'
  BY <1>3 DEF AtRest
<1>8. Issued(p)'
  BY <1>1, <1>2 DEF SessionOK, Issued, tokLocks, tokIssuer
<1>9. Drafted(p)'
  BY <1>1, <1>2 DEF SessionOK, Drafted, tokIssuer
<1>10. BeatOK(p)'
  BY <1>1, <1>2, <1>3 DEF SessionOK, AtRest, BeatOK, Visiting, tokRows
<1> QED
  BY <1>2, <1>4, <1>5, <1>6, <1>7, <1>8, <1>9, <1>10, OneKind, QuietStep

\* From here on the grant is guarded by the vault's lock.
LEMMA StoreGrantStep ==
  ASSUME TokInv, NEW p \in Sessions, NEW k \in Conns, StoreGrant(p, k)
  PROVE  TokInv'
<1> USE SessionsAssumption, NobodyAssumption, RowsAssumption
<1>1. TokTypeOK /\ SessionOK(p)
  BY DEF TokInv
<1>2. /\ p \in Connects /\ tpc[p] = "store" /\ Target[p] = k
      /\ LockVault(p, k) /\ TokGoto(p, "load")
      /\ UNCHANGED <<tokRows, todo, cur, held, want, drawn, secret, spent, rowLock, tokIssuer,
                     agesLeft, tokFaults, tokHistory>>
  BY DEF StoreGrant
<1>3. tpc'[p] = "load" /\ \A x \in Conns : vaultLock'[x] = IF x = k THEN p ELSE vaultLock[x]
  BY <1>1, <1>2, Goto, LocksVault DEF TokSteps
<1>4. TokTypeOK'
  BY <1>1, <1>2, Goto, LocksVault DEF TokTypeOK, TokSteps, tokRows, tokIssuer, tokHistory
<1>5. Alone(p)
  BY <1>1, <1>2, Goto, LocksVault DEF TokSteps, Alone
<1>6. Quiet /\ SpentOnce'
  BY <1>1, <1>2, LocksVault DEF Quiet, TokInv, SpentOnce, tokRows, tokIssuer, tokHistory
<1>7. AtRest(p)'
  BY <1>3 DEF AtRest
<1>8. Issued(p)'
  BY <1>1, <1>2, <1>3 DEF SessionOK, Issued, ConnectOK, tokIssuer
<1>9. Drafted(p)'
  BY <1>1, <1>2 DEF SessionOK, Drafted, tokIssuer
<1>10. ConnectOK(p)'
  BY <1>1, <1>2, <1>3 DEF SessionOK, ConnectOK
<1> QED
  BY <1>2, <1>4, <1>5, <1>6, <1>7, <1>8, <1>9, <1>10, OneKind, QuietStep

\* The row is read without a lock before anything is drafted from it.
LEMMA LoadConnectionStep ==
  ASSUME TokInv, NEW p \in Sessions, NEW k \in Conns, LoadConnection(p, k)
  PROVE  TokInv'
<1> USE SessionsAssumption, NobodyAssumption, RowsAssumption
<1>1. TokTypeOK /\ SessionOK(p)
  BY DEF TokInv
<1>2. /\ p \in Connects /\ tpc[p] = "load" /\ Target[p] = k
      /\ LoadRow(p, k) /\ TokGoto(p, "bind")
      /\ UNCHANGED <<tokRows, todo, cur, want, drawn, secret, spent, tokLocks, tokIssuer,
                     agesLeft, tokFaults, tokHistory>>
  BY DEF LoadConnection
<1>3. tpc'[p] = "bind" /\ \A x \in Conns : held'[p][x] = IF x = k THEN connRow[k] ELSE held[p][x]
  BY <1>1, <1>2, Goto, Loads DEF TokSteps
<1>4. TokTypeOK'
  BY <1>1, <1>2, Goto, Loads DEF TokTypeOK, TokSteps, tokRows, tokLocks, tokIssuer, tokHistory
<1>5. Alone(p)
  BY <1>1, <1>2, Goto, Loads DEF TokSteps, Alone, tokLocks
<1>6. Quiet /\ SpentOnce'
  BY <1>1, <1>2, <1>3, Loads DEF Quiet, TokInv, SpentOnce, tokRows, tokLocks, tokIssuer, tokHistory
<1>7. AtRest(p)'
  BY <1>3 DEF AtRest
<1>8. Issued(p)'
  BY <1>1, <1>2, <1>3, Typed
     DEF SessionOK, Issued, TokInv, GrantKept, TokensIssued, tokLocks, tokIssuer
<1>9. want[p][k] = Nobody
  BY <1>1, <1>2 DEF SessionOK, ConnectOK
<1>10. Drafted(p)'
  BY <1>1, <1>2, <1>3, <1>9 DEF SessionOK, Drafted, tokIssuer
<1>11. ConnectOK(p)'
  BY <1>1, <1>2, <1>3, Typed DEF SessionOK, ConnectOK
<1> QED
  BY <1>2, <1>4, <1>5, <1>6, <1>7, <1>8, <1>10, <1>11, OneKind, QuietStep

\* The grant goes to the row as well.
LEMMA BindRowStep ==
  ASSUME TokInv, NEW p \in Sessions, NEW k \in Conns, BindRow(p, k)
  PROVE  TokInv'
<1> USE SessionsAssumption, NobodyAssumption, RowsAssumption
<1> DEFINE bound == [status |-> "connected", token |-> drawn[p][k], life |-> "fresh"]
<1>1. TokTypeOK /\ SessionOK(p)
  BY DEF TokInv
<1>2. /\ p \in Connects /\ tpc[p] = "bind" /\ Target[p] = k
      /\ LockRow(p, k) /\ Draft(p, k, bound) /\ TokGoto(p, "commit")
      /\ UNCHANGED <<tokRows, todo, cur, held, drawn, secret, spent, vaultLock, tokIssuer,
                     agesLeft, tokFaults, tokHistory>>
  BY DEF BindRow
<1>3. drawn[p][k] # Nobody /\ held[p][k] # Nobody
  BY <1>1, <1>2 DEF SessionOK, ConnectOK
<1>4. bound \in RowType /\ bound.status = "connected" /\ bound.token = drawn[p][k]
  BY <1>1, <1>3, Typed DEF RowType
<1> HIDE DEF bound
<1>5. tpc'[p] = "commit" /\ \A x \in Conns : want'[p][x] = IF x = k THEN bound ELSE want[p][x]
  BY <1>1, <1>2, <1>4, Goto, Drafting DEF TokSteps
<1>6. TokTypeOK'
  BY <1>1, <1>2, <1>4, Goto, Drafting, LocksRow
     DEF TokTypeOK, TokSteps, tokRows, tokIssuer, tokHistory
<1>7. Alone(p)
  BY <1>1, <1>2, <1>4, Goto, Drafting, LocksRow DEF TokSteps, Alone
<1>8. Quiet /\ SpentOnce'
  BY <1>2 DEF Quiet, TokInv, SpentOnce, tokRows, tokIssuer, tokHistory
<1>9. AtRest(p)'
  BY <1>5 DEF AtRest
<1>10. Issued(p)'
  BY <1>1, <1>2, <1>5 DEF SessionOK, Issued, tokIssuer
<1>11. Drafted(p)'
  BY <1>1, <1>2, <1>3, <1>4, <1>5 DEF SessionOK, Drafted, tokIssuer
<1>12. ConnectOK(p)'
  BY <1>1, <1>2, <1>3, <1>4, <1>5 DEF SessionOK, ConnectOK
<1> QED
  BY <1>2, <1>6, <1>7, <1>8, <1>9, <1>10, <1>11, <1>12, OneKind, QuietStep

\* The copy decides later whether the vault is wiped; the committed row has the vault's token.
LEMMA LoadForDisconnectStep ==
  ASSUME TokInv, NEW p \in Sessions, NEW k \in Conns, LoadForDisconnect(p, k)
  PROVE  TokInv'
<1> USE SessionsAssumption, NobodyAssumption, RowsAssumption
<1>1. TokTypeOK /\ SessionOK(p)
  BY DEF TokInv
<1>2. /\ p \in Disconnects /\ tpc[p] = "idle" /\ Target[p] = k
      /\ LoadRow(p, k) /\ TokGoto(p, "wipe")
      /\ UNCHANGED <<tokRows, todo, cur, want, drawn, secret, spent, tokLocks, tokIssuer,
                     agesLeft, tokFaults, tokHistory>>
  BY DEF LoadForDisconnect
<1>3. tpc'[p] = "wipe" /\ \A x \in Conns : held'[p][x] = IF x = k THEN connRow[k] ELSE held[p][x]
  BY <1>1, <1>2, Goto, Loads DEF TokSteps
<1>4. TokTypeOK'
  BY <1>1, <1>2, Goto, Loads DEF TokTypeOK, TokSteps, tokRows, tokLocks, tokIssuer, tokHistory
<1>5. Alone(p)
  BY <1>1, <1>2, Goto, Loads DEF TokSteps, Alone, tokLocks
<1>6. Quiet /\ SpentOnce'
  BY <1>1, <1>2, <1>3, Loads DEF Quiet, TokInv, SpentOnce, tokRows, tokLocks, tokIssuer, tokHistory
<1>7. AtRest(p)'
  BY <1>3 DEF AtRest
<1>8. Issued(p)'
  BY <1>1, <1>2, <1>3, Typed
     DEF SessionOK, Issued, TokInv, GrantKept, TokensIssued, tokLocks, tokIssuer
<1>9. Drafted(p)'
  BY <1>1, <1>2 DEF SessionOK, AtRest, Drafted
<1>10. DisconnectOK(p)'
  BY <1>1, <1>2, <1>3, Typed DEF SessionOK, AtRest, DisconnectOK, tokLocks
<1> QED
  BY <1>2, <1>4, <1>5, <1>6, <1>7, <1>8, <1>9, <1>10, OneKind, QuietStep

\* The row's lock means that the row is going to be wiped.
LEMMA WipeRowStep ==
  ASSUME TokInv, NEW p \in Sessions, NEW k \in Conns, WipeRow(p, k)
  PROVE  TokInv'
<1> USE SessionsAssumption, NobodyAssumption, RowsAssumption
<1>1. TokTypeOK /\ SessionOK(p)
  BY DEF TokInv
<1>2. /\ p \in Disconnects /\ tpc[p] = "wipe" /\ Target[p] = k
      /\ LockRow(p, k) /\ Draft(p, k, RevokedRow)
      /\ UNCHANGED <<tokRows, tpc, todo, cur, held, drawn, secret, spent, vaultLock, tokIssuer,
                     agesLeft, tokFaults, tokHistory>>
  BY DEF WipeRow
<1>3. RevokedRow \in RowType /\ RevokedRow.status = "revoked"
  BY DEF RevokedRow, RowType
<1>4. /\ \A x \in Conns : want'[p][x] = IF x = k THEN RevokedRow ELSE want[p][x]
      /\ \A x \in Conns : rowLock'[x] = IF x = k THEN p ELSE rowLock[x]
  BY <1>1, <1>2, <1>3, Drafting, LocksRow
<1>5. TokTypeOK'
  BY <1>1, <1>2, <1>3, Drafting, LocksRow DEF TokTypeOK, tokRows, tokIssuer, tokHistory
<1>6. Alone(p)
  BY <1>1, <1>2, <1>3, Drafting, LocksRow DEF Alone
<1>7. Quiet /\ SpentOnce'
  BY <1>2 DEF Quiet, TokInv, SpentOnce, tokRows, tokIssuer, tokHistory
<1>8. AtRest(p)'
  BY <1>2 DEF AtRest
<1>9. Issued(p)'
  BY <1>1, <1>2 DEF SessionOK, Issued, tokIssuer
<1>10. Drafted(p)'
  BY <1>1, <1>2, <1>3, <1>4 DEF SessionOK, Drafted, DisconnectOK, tokIssuer
<1>11. DisconnectOK(p)'
  BY <1>1, <1>2, <1>3, <1>4 DEF SessionOK, DisconnectOK
<1> QED
  BY <1>2, <1>5, <1>6, <1>7, <1>8, <1>9, <1>10, <1>11, OneKind, QuietStep

\* The vault's lock means that the vault is going to be wiped.
LEMMA WipeVaultStep ==
  ASSUME TokInv, NEW p \in Sessions, NEW k \in Conns, WipeVault(p, k)
  PROVE  TokInv'
<1> USE SessionsAssumption, NobodyAssumption, RowsAssumption
<1>1. TokTypeOK /\ SessionOK(p)
  BY DEF TokInv
<1>2. /\ p \in Disconnects /\ tpc[p] = "wipe" /\ Target[p] = k
      /\ held[p][k].token # 0 /\ LockVault(p, k)
      /\ UNCHANGED <<tokRows, tpc, todo, cur, held, want, secret, spent, rowLock, tokIssuer,
                     agesLeft, tokFaults, tokHistory>>
  BY DEF WipeVault
<1>3. /\ drawn' \in PerConn(Nat)
      /\ \A x \in Conns : drawn'[p][x] = IF x = k THEN 0 ELSE drawn[p][x]
      /\ \A q \in Sessions : q # p => drawn'[q] = drawn[q]
  BY <1>1 DEF WipeVault, TokTypeOK, PerConn
<1>4. \A x \in Conns : vaultLock'[x] = IF x = k THEN p ELSE vaultLock[x]
  BY <1>1, <1>2, LocksVault
<1>5. TokTypeOK'
  BY <1>1, <1>2, <1>3, LocksVault DEF TokTypeOK, tokRows, tokIssuer, tokHistory
<1>6. Alone(p)
  BY <1>1, <1>2, <1>3, LocksVault DEF Alone
<1>7. Quiet /\ SpentOnce'
  BY <1>1, <1>2, <1>3, LocksVault DEF Quiet, TokInv, SpentOnce, tokRows, tokIssuer, tokHistory
<1>8. AtRest(p)'
  BY <1>2 DEF AtRest
<1>9. Issued(p)'
  BY <1>1, <1>2, <1>3, <1>4, Typed DEF SessionOK, Issued, tokIssuer
<1>10. Drafted(p)'
  BY <1>1, <1>2 DEF SessionOK, Drafted, tokIssuer
<1>11. DisconnectOK(p)'
  BY <1>1, <1>2, <1>3, <1>4 DEF SessionOK, DisconnectOK
<1> QED
  BY <1>2, <1>5, <1>6, <1>7, <1>8, <1>9, <1>10, <1>11, OneKind, QuietStep

\* A check copies the connected rows.
LEMMA StartCheckStep ==
  ASSUME TokInv, NEW p \in Sessions, StartCheck(p)
  PROVE  TokInv'
<1> USE SessionsAssumption, NobodyAssumption, RowsAssumption
<1> DEFINE rows == {x \in Conns : connRow[x].status = "connected"}
<1>1. TokTypeOK /\ SessionOK(p)
  BY DEF TokInv
<1>2. /\ p \in Checks /\ tpc[p] = "idle" /\ TokGoto(p, "test")
      /\ UNCHANGED <<tokRows, cur, want, drawn, secret, spent, tokLocks, tokIssuer, agesLeft,
                     tokFaults, tokHistory>>
  BY DEF StartCheck
<1>3. /\ held' \in PerConn(RowType) /\ todo' \in [Sessions -> SUBSET Conns]
      /\ todo'[p] = rows
      /\ \A x \in Conns : held'[p][x] = IF x \in rows THEN connRow[x] ELSE Nobody
      /\ \A q \in Sessions : q # p => held'[q] = held[q] /\ todo'[q] = todo[q]
  BY <1>1 DEF StartCheck, TokTypeOK, PerConn
<1>4. tpc'[p] = "test"
  BY <1>1, <1>2, Goto DEF TokSteps
<1>5. TokTypeOK'
  BY <1>1, <1>2, <1>3, Goto DEF TokTypeOK, TokSteps, tokRows, tokLocks, tokIssuer, tokHistory
<1>6. Alone(p)
  BY <1>1, <1>2, <1>3, Goto DEF TokSteps, Alone, tokLocks
<1>7. Quiet /\ SpentOnce'
  BY <1>2, <1>3 DEF Quiet, TokInv, SpentOnce, tokRows, tokLocks, tokIssuer, tokHistory
<1>8. AtRest(p)'
  BY <1>4 DEF AtRest
<1>9. Issued(p)'
  BY <1>1, <1>2, <1>3, Typed
     DEF SessionOK, Issued, TokInv, GrantKept, TokensIssued, tokLocks, tokIssuer
<1>10. Drafted(p)'
  BY <1>1, <1>2 DEF SessionOK, AtRest, Drafted
<1>11. CheckOK(p)'
  BY <1>1, <1>2, <1>3, Typed DEF SessionOK, AtRest, CheckOK
<1> QED
  BY <1>2, <1>5, <1>6, <1>7, <1>8, <1>9, <1>10, <1>11, OneKind, QuietStep

\* Only tokens refused or due are called expired.
LEMMA ProbeStep ==
  ASSUME TokInv, NEW p \in Sessions, NEW k \in Conns, Probe(p, k)
  PROVE  TokInv'
<1> USE SessionsAssumption, NobodyAssumption, RowsAssumption
<1> DEFINE refused == [held[p][k] EXCEPT !.status = "expired"]
           stale   == held[p][k].token \notin valid[k] \/ held[p][k].life = "due"
<1>1. TokTypeOK /\ SessionOK(p)
  BY DEF TokInv
<1>2. /\ p \in Checks /\ tpc[p] = "test" /\ k \in todo[p]
      /\ UNCHANGED <<tokRows, tpc, cur, held, drawn, secret, spent, tokLocks, tokIssuer,
                     agesLeft, tokFaults, tokHistory>>
  BY DEF Probe
<1>3. held[p][k] \in RowType /\ held[p][k] # Nobody /\ held[p][k].status = "connected"
  BY <1>1, <1>2, Typed DEF SessionOK, CheckOK
<1>4. /\ refused \in RowType /\ refused # Nobody /\ refused.status = "expired"
      /\ refused.token = held[p][k].token /\ refused.life = held[p][k].life
  BY <1>3 DEF RowType
<1>5. /\ todo' \in [Sessions -> SUBSET Conns] /\ todo'[p] = todo[p] \ {k}
      /\ \A q \in Sessions : q # p => todo'[q] = todo[q]
  BY <1>1 DEF Probe, TokTypeOK
<1>6. PICK new \in RowType : Draft(p, k, new) /\ (new = held[p][k] \/ (stale /\ new = refused))
  BY <1>3, <1>4 DEF Probe
<1> HIDE DEF refused, stale
<1>7. \A x \in Conns : want'[p][x] = IF x = k THEN new ELSE want[p][x]
  BY <1>1, <1>6, Drafting
<1>8. TokTypeOK'
  BY <1>1, <1>2, <1>5, <1>6, Drafting DEF TokTypeOK, tokRows, tokLocks, tokIssuer, tokHistory
<1>9. Alone(p)
  BY <1>1, <1>2, <1>5, <1>6, Drafting DEF Alone, tokLocks
<1>10. Quiet /\ SpentOnce'
  BY <1>2 DEF Quiet, TokInv, SpentOnce, tokRows, tokLocks, tokIssuer, tokHistory
<1>11. AtRest(p)'
  BY <1>2 DEF AtRest
<1>12. Issued(p)'
  BY <1>1, <1>2 DEF SessionOK, Issued, tokLocks, tokIssuer
<1>13. Drafted(p)'
  BY <1>1, <1>2, <1>3, <1>4, <1>6, <1>7 DEF SessionOK, Drafted, stale, tokIssuer
<1>14. CheckOK(p)'
  BY <1>1, <1>2, <1>3, <1>4, <1>5, <1>6, <1>7 DEF SessionOK, CheckOK
<1> QED
  BY <1>2, <1>8, <1>9, <1>10, <1>11, <1>12, <1>13, <1>14, OneKind, QuietStep

\* A check locks the rows it is going to write.
LEMMA FlushCheckStep ==
  ASSUME TokInv, NEW p \in Sessions, NEW k \in Conns, FlushCheck(p, k)
  PROVE  TokInv'
<1> USE SessionsAssumption, NobodyAssumption, RowsAssumption
<1>1. TokTypeOK /\ SessionOK(p)
  BY DEF TokInv
<1>2. /\ p \in Checks /\ tpc[p] = "test" /\ LockRow(p, k)
      /\ UNCHANGED <<tokRows, tpc, todo, cur, held, want, drawn, secret, spent, vaultLock,
                     tokIssuer, agesLeft, tokFaults, tokHistory>>
  BY DEF FlushCheck, tokSession
<1>3. TokTypeOK'
  BY <1>1, <1>2, LocksRow DEF TokTypeOK, tokRows, tokIssuer, tokHistory
<1>4. Alone(p)
  BY <1>1, <1>2, LocksRow DEF Alone
<1>5. Quiet /\ SpentOnce'
  BY <1>2 DEF Quiet, TokInv, SpentOnce, tokRows, tokIssuer, tokHistory
<1>6. AtRest(p)'
  BY <1>2 DEF AtRest
<1>7. Issued(p)' /\ Drafted(p)' /\ CheckOK(p)'
  BY <1>1, <1>2 DEF SessionOK, Issued, Drafted, CheckOK, tokIssuer
<1> QED
  BY <1>2, <1>3, <1>4, <1>5, <1>6, <1>7, OneKind, QuietStep

\* Only a beat waits for its next run.
LEMMA NextBeatStep ==
  ASSUME TokInv, NEW p \in Sessions, NextBeat(p)
  PROVE  TokInv'
<1> USE SessionsAssumption, NobodyAssumption, RowsAssumption
<1>1. TokTypeOK /\ SessionOK(p)
  BY DEF TokInv
<1>2. /\ tpc[p] = "aborted" /\ TokGoto(p, "idle")
      /\ UNCHANGED <<tokRows, todo, cur, held, want, drawn, secret, spent, tokLocks, tokIssuer,
                     agesLeft, tokFaults, tokHistory>>
  BY DEF NextBeat
<1>3. tpc'[p] = "idle"
  BY <1>1, <1>2, Goto DEF TokSteps
<1>4. TokTypeOK'
  BY <1>1, <1>2, Goto DEF TokTypeOK, TokSteps, tokRows, tokLocks, tokIssuer, tokHistory
<1>5. Alone(p)
  BY <1>1, <1>2, Goto DEF TokSteps, Alone, tokLocks
<1>6. Quiet /\ SpentOnce'
  BY <1>2 DEF Quiet, TokInv, SpentOnce, tokRows, tokLocks, tokIssuer, tokHistory
<1>7. SessionOK(p)'
  BY <1>1, <1>2, <1>3, Resting DEF SessionOK, AtRest, tokLocks
<1> QED
  BY <1>4, <1>5, <1>6, <1>7, QuietStep

-----------------------------------------------------------------------------
(* Calls to the provider.                                                  *)

\* A token refused is the vault's, and nobody else holds its lock: its successor was lost.
LEMMA RefreshFailsStep ==
  ASSUME TokInv, NEW p \in Sessions, NEW k \in Conns, RefreshFails(p, k)
  PROVE  TokInv'
<1> USE SessionsAssumption, NobodyAssumption, RowsAssumption
<1> DEFINE failed == [held[p][k] EXCEPT !.status = "error"]
<1>1. TokTypeOK /\ SessionOK(p)
  BY DEF TokInv
<1>2. /\ p \in Beats /\ tpc[p] = "http" /\ cur[p] = k
      /\ Draft(p, k, failed) /\ TokGoto(p, "pick")
      /\ UNCHANGED <<tokRows, todo, cur, held, drawn, secret, spent, tokLocks, tokIssuer,
                     agesLeft, tokFaults, lost, overtaken>>
  BY DEF RefreshFails, RefreshError
<1>3. /\ held[p][k] \in RowType /\ want[p][k] = Nobody /\ drawn[p][k] = Nobody
      /\ k \notin todo[p] /\ spent[p][k] = Nobody
      /\ secret[p] = vault[k] /\ vaultLock[k] = p
  BY <1>1, <1>2, Typed DEF SessionOK, BeatOK, Visiting
<1>4. failed \in RowType /\ failed.status = "error" /\ failed.token = held[p][k].token
  BY <1>3 DEF RowType
<1> HIDE DEF failed
<1>5. tpc'[p] = "pick" /\ \A x \in Conns : want'[p][x] = IF x = k THEN failed ELSE want[p][x]
  BY <1>1, <1>2, <1>4, Goto, Drafting DEF TokSteps
<1>6. TokTypeOK'
  <2>1. replayed' \in [Conns -> SUBSET Nat]
    BY <1>1 DEF RefreshFails, TokTypeOK
  <2> QED
    BY <1>1, <1>2, <1>4, <2>1, Goto, Drafting
       DEF TokTypeOK, TokSteps, tokRows, tokIssuer, tokLocks
<1>7. Alone(p)
  BY <1>1, <1>2, <1>4, Goto, Drafting DEF TokSteps, Alone, tokLocks
<1>8. SpentOnce'
  <2>1. ~ \E q \in Beats : Rotating(k, q)
    BY <1>1, <1>3, Typed DEF Rotating, Sessions
  <2>2. secret[p] \in valid[k] \union lost[k] \union {0}
    BY <1>3, <2>1 DEF TokInv, GrantKept
  <2>3. \A x \in Conns : replayed'[x] \subseteq
           replayed[x] \union (IF x = k /\ secret[p] \notin valid[k] /\ secret[p] # 0
                               THEN {secret[p]} ELSE {})
    BY <1>1 DEF RefreshFails, TokTypeOK
  <2> QED
    BY <1>2, <2>2, <2>3 DEF TokInv, SpentOnce
<1>9. Quiet
  BY <1>2 DEF Quiet, tokRows, tokLocks, tokIssuer
<1>10. AtRest(p)'
  BY <1>5 DEF AtRest
<1>11. Issued(p)'
  BY <1>1, <1>2, <1>5 DEF SessionOK, Issued, tokLocks, tokIssuer
<1>12. Drafted(p)'
  BY <1>1, <1>2, <1>3, <1>4, <1>5 DEF SessionOK, Drafted, tokIssuer
<1>13. BeatOK(p)'
  BY <1>1, <1>2, <1>3, <1>4, <1>5 DEF SessionOK, BeatOK, Visiting, tokRows, tokLocks
<1> QED
  BY <1>2, <1>6, <1>7, <1>8, <1>9, <1>10, <1>11, <1>12, <1>13, OneKind, QuietStep

\* The provider issues a token and may take the vault's in return.
Mints(k, taken) ==
    /\ minted' = [minted EXCEPT ![k] = @ + 1]
    /\ valid' = [valid EXCEPT ![k] = (@ \ taken) \union {minted[k] + 1}]

\* A token just issued is nobody's, and nobody else's draft is taken.
LEMMA MintStep ==
  ASSUME TokInv, TokTypeOK', NEW p \in Sessions, NEW k \in Conns,
         NEW taken \in SUBSET {vault[k]}, Mints(k, taken),
         UNCHANGED <<tokRows, held, overtaken>>,
         \A q \in Sessions, x \in Conns :
            drawn'[q][x] = drawn[q][x] \/ (q = p /\ x = k /\ drawn'[q][x] = minted[k] + 1)
  PROVE  Orderly(p) /\ TokensIssued' /\ Unshared' /\ ExpiredInError'
<1> USE NobodyAssumption, RowsAssumption
<1>1. TokTypeOK
  BY DEF TokInv
<1>2. \A x \in Conns :
        /\ minted[x] \in Nat /\ valid[x] \subseteq 1..minted[x]
        /\ minted'[x] = IF x = k THEN minted[k] + 1 ELSE minted[x]
        /\ valid'[x] = IF x = k THEN (valid[k] \ taken) \union {minted[k] + 1} ELSE valid[x]
        /\ vault[x] \in Nat /\ vault[x] <= minted[x] /\ vault'[x] = vault[x]
        /\ connRow'[x] = connRow[x] /\ connRow[x].token = vault[x]
  BY <1>1 DEF TokTypeOK, TokInv, TokensIssued, GrantKept, Mints, tokRows
<1>3. \A q \in Sessions, x \in Conns :
        /\ drawn[q][x] \in Nat \union {Nobody}
        /\ drawn[q][x] # Nobody => drawn[q][x] <= minted[x]
        /\ held[q][x] # Nobody => held[q][x].token \in Nat /\ held[q][x].token <= minted[x]
  BY <1>1, Typed DEF TokInv, SessionOK, Issued
<1>4. Orderly(p)
  BY <1>2 DEF Orderly
<1>5. TokensIssued'
  BY <1>2 DEF TokensIssued
<1>6. Unshared'
  <2> SUFFICES ASSUME NEW q \in Sessions, NEW x \in Conns,
                      drawn'[q][x] # Nobody, drawn'[q][x] # 0
               PROVE  /\ drawn'[q][x] \in valid'[x] /\ drawn'[q][x] # vault'[x]
                      /\ \A s \in Sessions :
                           /\ held'[s][x] # Nobody => held'[s][x].token # drawn'[q][x]
                           /\ s # q => drawn'[s][x] # drawn'[q][x]
    BY DEF Unshared
  <2>1. CASE drawn'[q][x] = drawn[q][x]
    <3>1. /\ drawn[q][x] \in valid[x] /\ drawn[q][x] # vault[x]
          /\ \A s \in Sessions :
               /\ held[s][x] # Nobody => held[s][x].token # drawn[q][x]
               /\ s # q => drawn[s][x] # drawn[q][x]
      BY <2>1 DEF TokInv, Unshared
    <3>2. drawn[q][x] \in valid'[x]
      BY <1>2, <3>1
    <3>3. ASSUME NEW s \in Sessions, s # q PROVE drawn'[s][x] # drawn[q][x]
      BY <1>2, <1>3, <2>1, <3>1, <3>3
    <3> QED
      BY <1>2, <2>1, <3>1, <3>2, <3>3
  <2>2. CASE q = p /\ x = k /\ drawn'[q][x] = minted[k] + 1
    <3>1. \A s \in Sessions : s # p => drawn'[s][x] = drawn[s][x]
      OBVIOUS
    <3> QED
      BY <1>2, <1>3, <2>2, <3>1
  <2> QED
    BY <2>1, <2>2
<1>7. ExpiredInError'
  BY <1>2 DEF TokInv, ExpiredInError
<1> QED
  BY <1>4, <1>5, <1>6, <1>7

\* The vault's token is used up under the vault's lock, its successor is in this transaction alone.
LEMMA RotateStep ==
  ASSUME TokInv, NEW p \in Sessions, NEW k \in Conns, Rotate(p, k)
  PROVE  TokInv'
<1> USE SessionsAssumption, NobodyAssumption, RowsAssumption
<1> DEFINE new   == minted[k] + 1
           fresh == [status |-> "connected", token |-> new, life |-> "fresh"]
<1>1. TokTypeOK /\ SessionOK(p)
  BY DEF TokInv
<1>2. /\ p \in Beats /\ tpc[p] = "http" /\ cur[p] = k
      /\ Draft(p, k, fresh) /\ TokGoto(p, "pick")
      /\ UNCHANGED <<tokRows, todo, cur, held, secret, tokLocks, agesLeft, tokFaults, tokHistory>>
  BY DEF Rotate
<1>3. /\ held[p][k] # Nobody /\ want[p][k] = Nobody /\ drawn[p][k] = Nobody
      /\ k \notin todo[p] /\ spent[p][k] = Nobody
      /\ secret[p] = vault[k] /\ vaultLock[k] = p
  BY <1>1, <1>2 DEF SessionOK, BeatOK, Visiting
<1>4. new \in Nat /\ fresh \in RowType /\ fresh.status = "connected" /\ fresh.token = new
  BY <1>1, Typed DEF RowType
<1>5. Mints(k, {vault[k]}) /\ vault[k] # 0 /\ vault[k] \in Nat
  <2>1. vault[k] \in valid[k]
    BY <1>3 DEF Rotate, Exchange
  <2>2. valid[k] \subseteq 1..minted[k] /\ minted[k] \in Nat
    BY <1>1, Typed DEF TokInv, TokensIssued
  <2> QED
    BY <1>1, <1>3, <2>1, <2>2 DEF Rotate, Exchange, Mints
<1> HIDE DEF fresh
<1>6. /\ tpc'[p] = "pick"
      /\ \A x \in Conns : want'[p][x] = IF x = k THEN fresh ELSE want[p][x]
  BY <1>1, <1>2, <1>4, Goto, Drafting DEF TokSteps
<1>7. /\ drawn' \in PerConn(Nat) /\ spent' \in PerConn(Nat)
      /\ \A x \in Conns : /\ drawn'[p][x] = IF x = k THEN new ELSE drawn[p][x]
                          /\ spent'[p][x] = IF x = k THEN vault[k] ELSE spent[p][x]
      /\ \A q \in Sessions : q # p => drawn'[q] = drawn[q] /\ spent'[q] = spent[q]
  <2>1. /\ drawn' = [drawn EXCEPT ![p][k] = new] /\ spent' = [spent EXCEPT ![p][k] = vault[k]]
        /\ drawn \in PerConn(Nat) /\ spent \in PerConn(Nat)
    BY <1>1, <1>3 DEF Rotate, TokTypeOK
  <2> QED
    BY <1>4, <1>5, <2>1 DEF PerConn
<1> HIDE DEF new
<1>8. TokTypeOK'
  <2>1. minted' \in [Conns -> Nat] /\ valid' \in [Conns -> SUBSET Nat]
    BY <1>1, <1>4, <1>5 DEF TokTypeOK, Mints, new
  <2> QED
    BY <1>1, <1>2, <1>4, <1>7, <2>1, Goto, Drafting
       DEF TokTypeOK, TokSteps, tokRows, tokLocks, tokHistory
<1>9. Alone(p)
  BY <1>1, <1>2, <1>4, <1>7, Goto, Drafting DEF TokSteps, Alone, tokLocks
<1>10. Orderly(p) /\ TokensIssued' /\ Unshared' /\ ExpiredInError'
  BY <1>2, <1>5, <1>7, <1>8, MintStep DEF new, tokHistory
<1>11. \A q \in Sessions : q # p => SessionOK(q)'
  BY <1>1, <1>8, <1>9, <1>10, OthersKept DEF TokInv
<1>12. SessionOK(p)'
  <2>1. \A x \in Conns : /\ minted'[x] \in Nat /\ minted[x] \in Nat /\ minted[x] <= minted'[x]
                         /\ x = k => minted'[x] = new
                         /\ x # k => valid'[x] = valid[x]
    BY <1>1, <1>5, Typed DEF TokTypeOK, Mints, new
  <2>2. AtRest(p)'
    BY <1>6 DEF AtRest
  <2>3. Issued(p)'
    BY <1>1, <1>2, <1>3, <1>4, <1>7, <2>1, Typed DEF SessionOK, Issued, tokLocks
  <2>4. Drafted(p)'
    BY <1>1, <1>2, <1>3, <1>4, <1>6, <2>1 DEF SessionOK, Drafted
  <2>5. BeatOK(p)'
    BY <1>1, <1>2, <1>3, <1>4, <1>5, <1>6, <1>7, Typed
       DEF SessionOK, BeatOK, Visiting, tokRows, tokLocks, new
  <2> QED
    BY <1>2, <2>2, <2>3, <2>4, <2>5, OneKind
<1>13. GrantKept'
  <2> SUFFICES ASSUME NEW x \in Conns
               PROVE  /\ connRow'[x].token = vault'[x]
                      /\ \/ vault'[x] \in valid'[x] \union lost'[x] \union {0}
                         \/ \E q \in Beats : Rotating(x, q)'
    BY DEF GrantKept
  <2>1. /\ connRow[x].token = vault[x]
        /\ \/ vault[x] \in valid[x] \union lost[x] \union {0}
           \/ \E q \in Beats : Rotating(x, q)
    BY DEF TokInv, GrantKept
  <2>2. CASE x = k
    BY <1>2, <1>3, <1>7, <2>1, <2>2 DEF Rotating, tokRows, tokLocks
  <2>3. CASE x # k
    <3>1. valid'[x] = valid[x]
      BY <1>1, <1>5, <2>3 DEF TokTypeOK, Mints
    <3>2. \A q \in Beats : spent'[q][x] = spent[q][x]
      BY <1>7, <2>3 DEF Sessions
    <3> QED
      BY <1>2, <2>1, <3>1, <3>2 DEF Rotating, tokRows, tokLocks, tokHistory
  <2> QED
    BY <2>2, <2>3
<1>14. SpentOnce'
  BY <1>2 DEF TokInv, SpentOnce, tokHistory
<1> QED
  BY <1>8, <1>10, <1>11, <1>12, <1>13, <1>14 DEF TokInv

\* The vault's token is used up and its successor lost.
LEMMA AnswerLostStep ==
  ASSUME TokInv, NEW p \in Sessions, NEW k \in Conns, AnswerLost(p, k)
  PROVE  TokInv'
<1> USE SessionsAssumption, NobodyAssumption, RowsAssumption
<1> DEFINE failed == [held[p][k] EXCEPT !.status = "error"]
<1>1. TokTypeOK /\ SessionOK(p)
  BY DEF TokInv
<1>2. /\ p \in Beats /\ tpc[p] = "http" /\ cur[p] = k
      /\ Draft(p, k, failed) /\ TokGoto(p, "pick") /\ TokFault
      /\ UNCHANGED <<tokRows, todo, cur, held, drawn, secret, spent, tokLocks, agesLeft,
                     replayed, overtaken>>
  BY DEF AnswerLost, RefreshError
<1>3. /\ held[p][k] \in RowType /\ want[p][k] = Nobody /\ drawn[p][k] = Nobody
      /\ k \notin todo[p] /\ secret[p] = vault[k] /\ vault[k] \in Nat
  BY <1>1, <1>2, Typed DEF SessionOK, BeatOK, Visiting
<1>4. failed \in RowType /\ failed.status = "error" /\ failed.token = held[p][k].token
  BY <1>3 DEF RowType
<1>5. /\ Mints(k, {vault[k]})
      /\ lost' = [lost EXCEPT ![k] = @ \union {vault[k]}]
  BY <1>3 DEF AnswerLost, Exchange, Mints
<1> HIDE DEF failed
<1>6. /\ tpc'[p] = "pick"
      /\ \A x \in Conns : want'[p][x] = IF x = k THEN failed ELSE want[p][x]
      /\ \A x \in Conns : lost'[x] = IF x = k THEN lost[k] \union {vault[k]} ELSE lost[x]
  BY <1>1, <1>2, <1>4, <1>5, Goto, Drafting DEF TokSteps, TokTypeOK
<1>7. \A x \in Conns : /\ minted[x] \in Nat /\ minted'[x] \in Nat /\ minted[x] <= minted'[x]
                       /\ valid'[x] = IF x = k THEN (valid[k] \ {vault[k]}) \union {minted[k] + 1}
                                      ELSE valid[x]
  BY <1>1, <1>5 DEF Mints, TokTypeOK
<1>8. TokTypeOK'
  <2>1. minted' \in [Conns -> Nat] /\ valid' \in [Conns -> SUBSET Nat]
    BY <1>1, <1>5 DEF TokTypeOK, Mints
  <2>2. tokFaults' \in Nat /\ lost' \in [Conns -> SUBSET Nat]
    BY <1>1, <1>2, <1>3, <1>5 DEF TokFault, TokTypeOK
  <2> QED
    BY <1>1, <1>2, <1>4, <2>1, <2>2, Goto, Drafting DEF TokTypeOK, TokSteps, tokRows, tokLocks
<1>9. Alone(p)
  BY <1>1, <1>2, <1>4, Goto, Drafting DEF TokSteps, Alone, tokLocks
<1>10. Orderly(p) /\ TokensIssued' /\ Unshared' /\ ExpiredInError'
  BY <1>2, <1>5, <1>8, MintStep
<1>11. \A q \in Sessions : q # p => SessionOK(q)'
  BY <1>1, <1>8, <1>9, <1>10, OthersKept DEF TokInv
<1>12. SessionOK(p)'
  <2>1. AtRest(p)'
    BY <1>6 DEF AtRest
  <2>2. Issued(p)'
    BY <1>1, <1>2, <1>7, Typed DEF SessionOK, Issued, tokLocks
  <2>3. Drafted(p)'
    <3>1. \A x \in Conns : held[p][x] # Nobody =>
             (held[p][x].token \notin valid[x] => held[p][x].token \notin valid'[x])
      BY <1>1, <1>7, Typed DEF SessionOK, Issued
    <3> QED
      BY <1>1, <1>2, <1>3, <1>4, <1>6, <3>1 DEF SessionOK, Drafted
  <2>4. BeatOK(p)'
    BY <1>1, <1>2, <1>3, <1>4, <1>6 DEF SessionOK, BeatOK, Visiting, tokRows, tokLocks
  <2> QED
    BY <1>2, <2>1, <2>2, <2>3, <2>4, OneKind
<1>13. GrantKept' /\ SpentOnce'
  BY <1>2, <1>6, <1>7 DEF TokInv, GrantKept, SpentOnce, Rotating, tokRows, tokLocks
<1> QED
  BY <1>8, <1>10, <1>11, <1>12, <1>13 DEF TokInv

\* A new grant is known to its connect alone.
LEMMA AuthorizeStep ==
  ASSUME TokInv, NEW p \in Sessions, NEW k \in Conns, Authorize(p, k)
  PROVE  TokInv'
<1> USE SessionsAssumption, NobodyAssumption, RowsAssumption
<1>1. TokTypeOK /\ SessionOK(p)
  BY DEF TokInv
<1>2. /\ p \in Connects /\ tpc[p] = "idle" /\ Target[p] = k /\ TokGoto(p, "store")
      /\ UNCHANGED <<tokRows, todo, cur, held, want, secret, spent, tokLocks, agesLeft,
                     tokFaults, tokHistory>>
  BY DEF Authorize
<1>3. /\ drawn' \in PerConn(Nat)
      /\ \A x \in Conns : drawn'[p][x] = IF x = k THEN minted[k] + 1 ELSE drawn[p][x]
      /\ \A q \in Sessions : q # p => drawn'[q] = drawn[q]
  BY <1>1 DEF Authorize, TokTypeOK, PerConn
<1>4. Mints(k, {}) /\ tpc'[p] = "store"
  <2>1. valid[k] \ {} = valid[k]
    OBVIOUS
  <2> QED
    BY <1>1, <1>2, <2>1, Goto DEF Authorize, Mints, TokSteps
<1>5. \A x \in Conns : /\ minted[x] \in Nat /\ minted'[x] \in Nat /\ minted[x] <= minted'[x]
                       /\ x = k => minted'[x] = minted[x] + 1
                       /\ valid[x] \subseteq valid'[x]
  BY <1>1, <1>4 DEF Mints, TokTypeOK
<1>6. TokTypeOK'
  <2>1. minted' \in [Conns -> Nat] /\ valid' \in [Conns -> SUBSET Nat]
    BY <1>1, <1>4 DEF TokTypeOK, Mints
  <2> QED
    BY <1>1, <1>2, <1>3, <2>1, Goto DEF TokTypeOK, TokSteps, tokRows, tokLocks, tokHistory
<1>7. Alone(p)
  BY <1>1, <1>2, <1>3, Goto DEF TokSteps, Alone, tokLocks
<1>8. Orderly(p) /\ TokensIssued' /\ Unshared' /\ ExpiredInError'
  BY <1>2, <1>3, <1>4, <1>6, MintStep DEF tokHistory
<1>9. \A q \in Sessions : q # p => SessionOK(q)'
  BY <1>1, <1>6, <1>7, <1>8, OthersKept DEF TokInv
<1>10. SessionOK(p)'
  <2>1. AtRest(p)'
    BY <1>4 DEF AtRest
  <2>2. Issued(p)'
    BY <1>1, <1>2, <1>3, <1>4, <1>5, Typed DEF SessionOK, AtRest, Issued
  <2>3. Drafted(p)'
    BY <1>1, <1>2 DEF SessionOK, AtRest, Drafted
  <2>4. ConnectOK(p)'
    BY <1>1, <1>2, <1>3, <1>4, <1>5 DEF SessionOK, AtRest, ConnectOK
  <2> QED
    BY <1>2, <2>1, <2>2, <2>3, <2>4, OneKind
<1>11. GrantKept' /\ SpentOnce'
  BY <1>2, <1>5 DEF TokInv, GrantKept, SpentOnce, Rotating, tokRows, tokLocks, tokHistory
<1> QED
  BY <1>6, <1>8, <1>9, <1>10, <1>11 DEF TokInv

-----------------------------------------------------------------------------
(* Ends of transactions, and time.                                         *)

\* The end of a transaction leaves a session at rest and the others alone.
LEMMA Ends ==
  ASSUME TokTypeOK, NEW p \in Sessions, NEW step \in {"idle", "aborted", "done"},
         EndTokTransaction(p, step)
  PROVE  /\ tpc' \in [Sessions -> TokSteps] /\ todo' \in [Sessions -> SUBSET Conns]
         /\ rowLock' \in [Conns -> Sessions \union {Nobody}]
         /\ vaultLock' \in [Conns -> Sessions \union {Nobody}]
         /\ held' \in PerConn(RowType) /\ want' \in PerConn(RowType)
         /\ drawn' \in PerConn(Nat) /\ spent' \in PerConn(Nat)
         /\ secret' \in [Sessions -> Nat] /\ cur' = cur
         /\ Alone(p)
         /\ SessionOK(p)'
         /\ \A x \in Conns : held'[p][x] = Nobody /\ drawn'[p][x] = Nobody
<1> USE NobodyAssumption
<1>1. Blank \in [Conns -> RowType \union {Nobody}] /\ Blank \in [Conns -> Nat \union {Nobody}]
      /\ \A x \in Conns : Blank[x] = Nobody
  BY DEF Blank
<1> HIDE DEF Blank
<1>2. /\ held' \in PerConn(RowType) /\ want' \in PerConn(RowType)
      /\ drawn' \in PerConn(Nat) /\ spent' \in PerConn(Nat)
      /\ held'[p] = Blank /\ want'[p] = Blank /\ drawn'[p] = Blank /\ spent'[p] = Blank
      /\ \A q \in Sessions : q # p =>
            /\ held'[q] = held[q] /\ want'[q] = want[q]
            /\ drawn'[q] = drawn[q] /\ spent'[q] = spent[q]
  BY <1>1 DEF EndTokTransaction, TokTypeOK, PerConn
<1>3. /\ tpc' \in [Sessions -> TokSteps] /\ tpc'[p] = step
      /\ todo' \in [Sessions -> SUBSET Conns] /\ todo'[p] = {}
      /\ secret' \in [Sessions -> Nat] /\ cur' = cur
      /\ \A q \in Sessions : q # p =>
            tpc'[q] = tpc[q] /\ todo'[q] = todo[q] /\ secret'[q] = secret[q]
  BY DEF EndTokTransaction, TokGoto, TokTypeOK, TokSteps
<1>4. /\ rowLock' \in [Conns -> Sessions \union {Nobody}]
      /\ vaultLock' \in [Conns -> Sessions \union {Nobody}]
      /\ \A x \in Conns : /\ rowLock'[x] = IF rowLock[x] = p THEN Nobody ELSE rowLock[x]
                          /\ vaultLock'[x] = IF vaultLock[x] = p THEN Nobody ELSE vaultLock[x]
  BY DEF EndTokTransaction, TokTypeOK
<1>5. Alone(p)
  BY <1>2, <1>3, <1>4 DEF Alone
<1>6. SessionOK(p)'
  BY <1>1, <1>2, <1>3, <1>4, Resting
<1> QED
  BY <1>1, <1>2, <1>3, <1>4, <1>5, <1>6

\* Of the tokens a rolled back transaction has used up the successors are lost.
LEMMA RollbackStep ==
  ASSUME TokInv, NEW p \in Sessions, NEW step \in {"idle", "aborted", "done"},
         RollbackTok(p, step), tokFaults' \in Nat
  PROVE  TokInv'
<1> USE SessionsAssumption, NobodyAssumption, RowsAssumption
<1>1. TokTypeOK /\ SessionOK(p)
  BY DEF TokInv
<1>2. /\ EndTokTransaction(p, step)
      /\ UNCHANGED <<tokRows, tokIssuer, agesLeft, replayed, overtaken>>
      /\ lost' = [x \in Conns |-> IF spent[p][x] = Nobody THEN lost[x]
                                  ELSE lost[x] \union {spent[p][x]}]
  BY DEF RollbackTok
<1>3. TokTypeOK'
  <2>1. lost' \in [Conns -> SUBSET Nat]
    BY <1>1, <1>2, Typed DEF TokTypeOK
  <2> QED
    BY <1>1, <1>2, <2>1, Ends DEF TokTypeOK, tokRows, tokIssuer
<1>4. Alone(p) /\ SessionOK(p)' /\ \A x \in Conns : held'[p][x] = Nobody /\ drawn'[p][x] = Nobody
  BY <1>1, <1>2, Ends
<1>5. Orderly(p)
  BY <1>1, <1>2 DEF Orderly, TokTypeOK, tokRows, tokIssuer
<1>6. \A q \in Sessions : SessionOK(q)'
  BY <1>1, <1>3, <1>4, <1>5, OthersKept DEF TokInv
<1>7. TokensIssued' /\ ExpiredInError'
  BY <1>2 DEF TokInv, TokensIssued, ExpiredInError, tokRows, tokIssuer
<1>8. Unshared'
  BY <1>2, <1>4 DEF TokInv, Unshared, Alone, tokRows, tokIssuer
<1>9. \A x \in Conns : /\ lost[x] \subseteq lost'[x]
                       /\ spent[p][x] # Nobody => spent[p][x] \in lost'[x]
  BY <1>2
<1>10. SpentOnce'
  BY <1>2, <1>9 DEF TokInv, SpentOnce
<1>11. GrantKept'
  <2> SUFFICES ASSUME NEW x \in Conns
               PROVE  /\ connRow'[x].token = vault'[x]
                      /\ \/ vault'[x] \in valid'[x] \union lost'[x] \union {0}
                         \/ \E q \in Beats : Rotating(x, q)'
    BY DEF GrantKept
  <2>1. /\ connRow[x].token = vault[x]
        /\ \/ vault[x] \in valid[x] \union lost[x] \union {0}
           \/ \E q \in Beats : Rotating(x, q)
    BY DEF TokInv, GrantKept
  <2>2. ASSUME NEW q \in Beats, Rotating(x, q) PROVE vault[x] \in lost'[x] \/ Rotating(x, q)'
    <3>1. vault[x] # Nobody
      BY <1>1, Typed
    <3> QED
      BY <1>2, <1>4, <1>9, <2>2, <3>1 DEF Rotating, Alone, Sessions, tokRows
  <2> QED
    BY <1>2, <1>9, <2>1, <2>2 DEF tokRows, tokIssuer
<1> QED
  BY <1>3, <1>6, <1>7, <1>8, <1>10, <1>11 DEF TokInv

\* What a transaction has to be in order to commit: the vault's lock is held,
\* and a new token goes to both rows or to none.
Whole(p) ==
    \A k \in Conns :
        /\ drawn[p][k] # Nobody => want[p][k] # Nobody /\ vaultLock[k] = p
        /\ want[p][k] # Nobody =>
              IF drawn[p][k] = Nobody THEN want[p][k].token = held[p][k].token
              ELSE want[p][k].token = drawn[p][k] /\ drawn[p][k] # held[p][k].token

\* A whole transaction keeps row and vault equal, and expires a row only as it read it.
LEMMA CommitStep ==
  ASSUME TokInv, NEW p \in Sessions, NEW step \in {"idle", "aborted", "done"},
         CommitTok(p, step), Whole(p)
  PROVE  /\ TokInv'
         /\ \A k \in Conns : vault'[k] = IF drawn[p][k] = Nobody THEN vault[k] ELSE drawn[p][k]
<1> USE SessionsAssumption, NobodyAssumption, RowsAssumption
<1>1. TokTypeOK /\ SessionOK(p)
  BY DEF TokInv
<1>2. /\ EndTokTransaction(p, step)
      /\ UNCHANGED <<tokIssuer, agesLeft, tokFaults, lost, replayed>>
  BY DEF CommitTok
<1>3. \A k \in Conns :
        /\ connRow[k] \in RowType /\ vault[k] \in Nat /\ connRow[k].token = vault[k]
        /\ held[p][k] \in RowType \union {Nobody} /\ want[p][k] \in RowType \union {Nobody}
        /\ drawn[p][k] \in Nat \union {Nobody} /\ vault[k] <= minted[k]
        /\ want[p][k] # Nobody => held[p][k] # Nobody
        /\ drawn[p][k] # Nobody => drawn[p][k] <= minted[k]
  BY <1>1, Typed DEF TokInv, GrantKept, TokensIssued, SessionOK, Issued, Drafted
<1>4. ASSUME NEW row \in RowType, NEW copy \in RowType, NEW new \in RowType
      PROVE  /\ Merged(row, copy, new) \in RowType
             /\ Merged(row, copy, new).token =
                   IF new.token = copy.token THEN row.token ELSE new.token
             /\ row = copy => Merged(row, copy, new) = new
  <2>1. new = [f \in {"status", "token", "life"} |-> new[f]]
    BY DEF RowType
  <2>2. row = copy => Merged(row, copy, new) = new
    BY <2>1 DEF Merged
  <2>3. Merged(row, copy, new) =
           [status |-> IF new.status = copy.status THEN row.status ELSE new.status,
            token  |-> IF new.token = copy.token THEN row.token ELSE new.token,
            life   |-> IF new.life = copy.life THEN row.life ELSE new.life]
    BY DEF Merged
  <2> QED
    BY <2>2, <2>3 DEF RowType
<1>5. \A k \in Conns :
        /\ vault'[k] = IF drawn[p][k] = Nobody THEN vault[k] ELSE drawn[p][k]
        /\ connRow'[k] \in RowType /\ connRow'[k].token = vault'[k]
        /\ overtaken[k] \subseteq overtaken'[k]
        /\ want[p][k] = Nobody => connRow'[k] = connRow[k]
        /\ want[p][k] # Nobody =>
              overtaken'[k] # {} \/ (held[p][k] = connRow[k] /\ connRow'[k] = want[p][k])
  <2> SUFFICES ASSUME NEW k \in Conns
      PROVE  /\ vault'[k] = IF drawn[p][k] = Nobody THEN vault[k] ELSE drawn[p][k]
             /\ connRow'[k] \in RowType /\ connRow'[k].token = vault'[k]
             /\ overtaken[k] \subseteq overtaken'[k]
             /\ want[p][k] = Nobody => connRow'[k] = connRow[k]
             /\ want[p][k] # Nobody =>
                  overtaken'[k] # {} \/ (held[p][k] = connRow[k] /\ connRow'[k] = want[p][k])
    OBVIOUS
  <2>1. /\ vault'[k] = IF drawn[p][k] = Nobody THEN vault[k] ELSE drawn[p][k]
        /\ connRow'[k] = IF want[p][k] = Nobody THEN connRow[k]
                         ELSE Merged(connRow[k], held[p][k], want[p][k])
        /\ overtaken'[k] = IF want[p][k] # Nobody /\ held[p][k] # connRow[k]
                           THEN overtaken[k] \union {p} ELSE overtaken[k]
    BY DEF CommitTok
  <2>2. CASE want[p][k] = Nobody
    BY <1>3, <2>1, <2>2 DEF Whole
  <2>3. CASE want[p][k] # Nobody
    <3>1. held[p][k] \in RowType /\ want[p][k] \in RowType
      BY <1>3, <2>3
    <3>2. Merged(connRow[k], held[p][k], want[p][k]).token =
             IF want[p][k].token = held[p][k].token THEN connRow[k].token ELSE want[p][k].token
      BY <1>3, <1>4, <3>1
    <3>3. connRow'[k].token = vault'[k]
      BY <1>3, <2>1, <2>3, <3>2 DEF Whole
    <3>4. connRow'[k] \in RowType
      BY <1>3, <1>4, <2>1, <2>3, <3>1
    <3>5. CASE held[p][k] = connRow[k]
      BY <1>3, <1>4, <2>1, <2>3, <3>1, <3>3, <3>4, <3>5
    <3>6. CASE held[p][k] # connRow[k]
      BY <2>1, <2>3, <3>3, <3>4, <3>6
    <3> QED
      BY <3>5, <3>6
  <2> QED
    BY <2>2, <2>3
<1>6. TokTypeOK'
  <2>1. /\ connRow' \in [Conns -> RowType] /\ vault' \in [Conns -> Nat]
        /\ overtaken' \in [Conns -> SUBSET Sessions]
    <3>1. connRow' \in [Conns -> RowType]
      BY <1>5 DEF CommitTok
    <3>2. vault' \in [Conns -> Nat]
      BY <1>3 DEF CommitTok
    <3>3. overtaken' \in [Conns -> SUBSET Sessions]
      BY <1>1 DEF CommitTok, TokTypeOK
    <3> QED
      BY <3>1, <3>2, <3>3
  <2> QED
    BY <1>1, <1>2, <2>1, Ends DEF TokTypeOK, tokIssuer
<1>7. Alone(p) /\ SessionOK(p)' /\ \A x \in Conns : held'[p][x] = Nobody /\ drawn'[p][x] = Nobody
  BY <1>1, <1>2, Ends
<1>8. Orderly(p)
  BY <1>1, <1>2, <1>5 DEF Orderly, Whole, TokTypeOK, tokIssuer
<1>9. \A q \in Sessions : SessionOK(q)'
  BY <1>1, <1>6, <1>7, <1>8, OthersKept DEF TokInv
<1>10. TokensIssued' /\ SpentOnce'
  BY <1>2, <1>3, <1>5 DEF TokInv, TokensIssued, SpentOnce, tokIssuer
<1>11. Unshared'
  <2> SUFFICES ASSUME NEW q \in Sessions, NEW k \in Conns,
                      drawn'[q][k] # Nobody, drawn'[q][k] # 0
               PROVE  /\ drawn'[q][k] \in valid'[k] /\ drawn'[q][k] # vault'[k]
                      /\ \A s \in Sessions :
                           /\ held'[s][k] # Nobody => held'[s][k].token # drawn'[q][k]
                           /\ s # q => drawn'[s][k] # drawn'[q][k]
    BY DEF Unshared
  <2>1. q # p /\ drawn'[q][k] = drawn[q][k]
    BY <1>7 DEF Alone
  <2>2. /\ drawn[q][k] \in valid[k] /\ drawn[q][k] # vault[k]
        /\ \A s \in Sessions :
             /\ held[s][k] # Nobody => held[s][k].token # drawn[q][k]
             /\ s # q => drawn[s][k] # drawn[q][k]
    BY <2>1 DEF TokInv, Unshared
  <2> QED
    BY <1>2, <1>5, <1>7, <2>1, <2>2 DEF Alone, tokIssuer
<1>12. GrantKept'
  <2> SUFFICES ASSUME NEW k \in Conns
               PROVE  \/ vault'[k] \in valid'[k] \union lost'[k] \union {0}
                      \/ \E q \in Beats : Rotating(k, q)'
    BY <1>5 DEF GrantKept
  <2>1. CASE drawn[p][k] # Nobody
    BY <1>2, <1>5, <2>1 DEF TokInv, Unshared, tokIssuer
  <2>2. CASE drawn[p][k] = Nobody
    <3>1. \/ vault[k] \in valid[k] \union lost[k] \union {0}
          \/ \E q \in Beats : Rotating(k, q)
      BY DEF TokInv, GrantKept
    <3>2. ASSUME NEW q \in Beats, Rotating(k, q) PROVE Rotating(k, q)'
      <4>1. p \in Beats => spent[p][k] = Nobody
        BY <1>1, <2>2 DEF SessionOK, BeatOK
      <4>2. q # p
        BY <1>3, <3>2, <4>1 DEF Rotating
      <4> QED
        BY <1>5, <1>7, <2>2, <3>2, <4>2 DEF Rotating, Alone, Sessions
    <3> QED
      BY <1>2, <1>5, <2>2, <3>1, <3>2 DEF tokIssuer
  <2> QED
    BY <2>1, <2>2
<1>13. ExpiredInError'
  <2> SUFFICES ASSUME NEW k \in Conns, connRow'[k].status = "expired",
                      connRow'[k].life = "fresh", connRow'[k].token \in valid'[k]
               PROVE  overtaken'[k] # {}
    BY DEF ExpiredInError
  <2>1. CASE want[p][k] = Nobody
    BY <1>2, <1>5, <2>1 DEF TokInv, ExpiredInError, tokIssuer
  <2>2. CASE want[p][k] # Nobody
    BY <1>1, <1>2, <1>5, <2>2 DEF SessionOK, Drafted, tokIssuer
  <2> QED
    BY <2>1, <2>2
<1> QED
  BY <1>5, <1>6, <1>9, <1>10, <1>11, <1>12, <1>13 DEF TokInv

\* The sessions' commits are of that kind.
LEMMA WholeTransactions ==
  ASSUME TokInv, NEW p \in Sessions
  PROVE  /\ CommitBeat(p) => Whole(p)
         /\ CommitConnect(p) => Whole(p)
         /\ CommitCheck(p) => Whole(p)
         /\ \A k \in Conns : CommitDisconnect(p, k) => Whole(p)
<1> USE SessionsAssumption, NobodyAssumption, RowsAssumption
<1>1. TokTypeOK /\ SessionOK(p)
  BY DEF TokInv
<1>2. \A k \in Conns : /\ drawn[p][k] \in Nat \union {Nobody}
                       /\ drawn[p][k] # Nobody /\ drawn[p][k] # 0 /\ held[p][k] # Nobody =>
                             drawn[p][k] # held[p][k].token
                       /\ want[p][k] # Nobody => held[p][k] # Nobody
                       /\ drawn[p][k] # Nobody =>
                             vaultLock[k] = p \/ (p \in Connects /\ tpc[p] = "store")
  BY <1>1, Typed DEF TokInv, Unshared, SessionOK, Drafted, Issued
<1>3. ASSUME CommitBeat(p) PROVE Whole(p)
  BY <1>1, <1>2, <1>3 DEF CommitBeat, SessionOK, BeatOK, Whole
<1>4. ASSUME CommitConnect(p) PROVE Whole(p)
  BY <1>1, <1>2, <1>4 DEF CommitConnect, SessionOK, ConnectOK, Whole
<1>5. ASSUME CommitCheck(p) PROVE Whole(p)
  BY <1>1, <1>2, <1>5 DEF CommitCheck, SessionOK, CheckOK, Whole
<1>6. ASSUME NEW k \in Conns, CommitDisconnect(p, k) PROVE Whole(p)
  <2>1. /\ p \in Disconnects /\ Target[p] = k /\ rowLock[k] = p
        /\ held[p][k].token # 0 => vaultLock[k] = p
    BY <1>6 DEF CommitDisconnect
  <2>2. RevokedRow.token = 0
    BY DEF RevokedRow
  <2>3. \A x \in Conns :
          /\ want[p][x] # Nobody \/ drawn[p][x] # Nobody => x = k
          /\ want[p][k] # Nobody /\ want[p][k] = RevokedRow
          /\ drawn[p][k] # Nobody => drawn[p][k] = 0 /\ held[p][k].token # 0
          /\ held[p][k].token # 0 => drawn[p][k] # Nobody
    BY <1>1, <2>1 DEF SessionOK, DisconnectOK
  <2>4. vaultLock[k] = p <=> drawn[p][k] # Nobody
    BY <1>1, <2>1, <2>3 DEF SessionOK, DisconnectOK
  <2>5. CASE drawn[p][k] = Nobody
    BY <2>2, <2>3, <2>4, <2>5 DEF Whole
  <2>6. CASE drawn[p][k] # Nobody
    BY <2>2, <2>3, <2>4, <2>6 DEF Whole
  <2> QED
    BY <2>5, <2>6
<1> QED
  BY <1>3, <1>4, <1>5, <1>6

\* Time changes no token.
LEMMA AgeStep ==
  ASSUME TokInv, NEW k \in Conns, Age(k)
  PROVE  TokInv'
<1> USE SessionsAssumption, NobodyAssumption, RowsAssumption
<1>1. TokTypeOK
  BY DEF TokInv
<1>2. /\ connRow' \in [Conns -> RowType]
      /\ \A x \in Conns : /\ connRow'[x].token = connRow[x].token
                          /\ connRow'[x].status = connRow[x].status
                          /\ connRow'[x].life = IF x = k THEN "due" ELSE connRow[x].life
  <2>1. connRow[k] \in RowType /\ connRow' = [connRow EXCEPT ![k].life = "due"]
    BY <1>1 DEF Age, TokTypeOK
  <2>2. /\ [connRow[k] EXCEPT !.life = "due"] \in RowType
        /\ [connRow[k] EXCEPT !.life = "due"].token = connRow[k].token
        /\ [connRow[k] EXCEPT !.life = "due"].status = connRow[k].status
        /\ [connRow[k] EXCEPT !.life = "due"].life = "due"
    BY <2>1 DEF RowType
  <2>3. connRow' = [connRow EXCEPT ![k] = [connRow[k] EXCEPT !.life = "due"]]
    BY <1>1, <2>1 DEF TokTypeOK
  <2> QED
    BY <1>1, <2>2, <2>3 DEF TokTypeOK
<1>3. agesLeft' \in Nat /\ UNCHANGED <<vault, tpc, todo, cur, held, want, drawn, secret, spent,
                                       tokLocks, tokIssuer, tokFaults, tokHistory>>
  BY <1>1 DEF Age, TokTypeOK, tokSession
<1>4. TokTypeOK'
  BY <1>1, <1>2, <1>3 DEF TokTypeOK, tokLocks, tokIssuer, tokHistory
<1>5. ASSUME NEW p \in Sessions PROVE SessionOK(p)'
  BY <1>3 DEF TokInv, SessionOK, AtRest, Issued, Drafted, BeatOK, Visiting, ConnectOK, DisconnectOK,
              CheckOK, tokLocks, tokIssuer
<1>6. TokensIssued' /\ Unshared' /\ SpentOnce'
  BY <1>3 DEF TokInv, TokensIssued, Unshared, SpentOnce, tokIssuer, tokHistory
<1>7. GrantKept'
  BY <1>2, <1>3 DEF TokInv, GrantKept, Rotating, tokLocks, tokIssuer, tokHistory
<1>8. ExpiredInError'
  BY <1>2, <1>3 DEF TokInv, ExpiredInError, tokIssuer, tokHistory
<1> QED
  BY <1>4, <1>5, <1>6, <1>7, <1>8 DEF TokInv

-----------------------------------------------------------------------------
(* The theorems.                                                           *)

\* The first state: due connections and wiped ones, sessions at rest.
LEMMA TokInitInv == TokInit => TokInv
<1> SUFFICES ASSUME TokInit PROVE TokInv
  OBVIOUS
<1> USE SessionsAssumption, NobodyAssumption, RowsAssumption, TokBoundsAssumption
<1>1. /\ \A k \in Conns : Blank[k] = Nobody
      /\ Blank \in [Conns -> RowType \union {Nobody}] /\ Blank \in [Conns -> Nat \union {Nobody}]
      /\ Blank \in [Conns -> Sessions \union {Nobody}]
  BY DEF Blank
<1>2. /\ \A k \in Conns : connRow[k] \in {DueRow, RevokedRow} /\ vault[k] = connRow[k].token
      /\ tpc \in [Sessions -> {"idle", "done"}]
      /\ connRow \in [Conns -> {DueRow, RevokedRow}] /\ vault = [k \in Conns |-> connRow[k].token]
  BY DEF TokInit
<1>3. \A row \in {DueRow, RevokedRow} :
         row \in RowType /\ row.token \in {0, 1} /\ row.status # "expired"
  BY DEF DueRow, RevokedRow, RowType
<1>4. TokTypeOK
  <2>1. connRow \in [Conns -> RowType] /\ vault \in [Conns -> Nat]
    BY <1>2, <1>3
  <2>2. cur \in [Sessions -> Conns \union {Nobody}]
    BY DEF TokInit, Sessions
  <2>3. /\ held \in PerConn(RowType) /\ want \in PerConn(RowType)
        /\ drawn \in PerConn(Nat) /\ spent \in PerConn(Nat)
    BY <1>1 DEF TokInit, PerConn
  <2> QED
    BY <1>1, <1>2, <2>1, <2>2, <2>3 DEF TokInit, TokTypeOK, TokSteps
<1>5. ASSUME NEW p \in Sessions PROVE SessionOK(p)
  <2>1. /\ tpc[p] \in {"idle", "done"} /\ todo[p] = {}
        /\ \A k \in Conns : /\ held[p][k] = Nobody /\ want[p][k] = Nobody
                            /\ drawn[p][k] = Nobody /\ spent[p][k] = Nobody
                            /\ rowLock[k] # p /\ vaultLock[k] # p
    BY <1>1, <1>2 DEF TokInit
  <2> QED
    BY <2>1 DEF SessionOK, AtRest, Issued, Drafted, BeatOK, Visiting, ConnectOK, DisconnectOK,
       CheckOK
<1>6. TokensIssued /\ GrantKept
  BY <1>2, <1>3 DEF TokInit, TokensIssued, GrantKept
<1>7. Unshared /\ SpentOnce /\ ExpiredInError
  BY <1>1, <1>2, <1>3 DEF TokInit, Unshared, SpentOnce, ExpiredInError
<1> QED
  BY <1>4, <1>5, <1>6, <1>7 DEF TokInv

\* Every step keeps the invariant.
LEMMA TokStepInv == TokInv /\ [TokNext]_TokVars => TokInv'
<1> SUFFICES ASSUME TokInv, [TokNext]_TokVars PROVE TokInv'
  OBVIOUS
<1>1. ASSUME NEW p \in Sessions, TokStep(p) PROVE TokInv'
  <2>1. CASE Scan(p) \/ StartCheck(p) \/ NextBeat(p)
    BY <2>1, ScanStep, StartCheckStep, NextBeatStep
  <2>2. CASE CommitBeat(p) \/ CommitConnect(p) \/ CommitCheck(p)
    BY <2>2, WholeTransactions, CommitStep DEF CommitBeat, CommitConnect, CommitCheck
  <2>3. CASE BindFails(p) \/ TokDeadlock(p)
    <3>1. tokFaults' \in Nat
      BY <2>3 DEF BindFails, TokDeadlock, TokInv, TokTypeOK
    <3> QED
      BY <2>3, <3>1, RollbackStep DEF BindFails, TokDeadlock
  <2>4. ASSUME NEW k \in Conns,
               \/ Pick(p, k) \/ LockConnection(p, k) \/ ReadVault(p, k)
               \/ Rotate(p, k) \/ RefreshFails(p, k)
        PROVE  TokInv'
    BY <2>4, PickStep, LockConnectionStep, ReadVaultStep, RotateStep, RefreshFailsStep
  <2>5. ASSUME NEW k \in Conns,
               \/ Authorize(p, k) \/ StoreGrant(p, k) \/ LoadConnection(p, k) \/ BindRow(p, k)
        PROVE  TokInv'
    BY <2>5, AuthorizeStep, StoreGrantStep, LoadConnectionStep, BindRowStep
  <2>6. ASSUME NEW k \in Conns,
               \/ LoadForDisconnect(p, k) \/ WipeRow(p, k) \/ WipeVault(p, k)
               \/ CommitDisconnect(p, k) \/ Probe(p, k) \/ FlushCheck(p, k)
        PROVE  TokInv'
    BY <2>6, LoadForDisconnectStep, WipeRowStep, WipeVaultStep, ProbeStep, FlushCheckStep,
       WholeTransactions, CommitStep DEF CommitDisconnect
  <2> QED
    BY <1>1, <2>1, <2>2, <2>3, <2>4, <2>5, <2>6 DEF TokStep
<1>2. ASSUME NEW p \in Sessions, TokCrash(p) PROVE TokInv'
  <2>1. tokFaults' \in Nat
    BY <1>2 DEF TokCrash, TokFault, TokInv, TokTypeOK
  <2> QED
    BY <1>2, <2>1, RollbackStep DEF TokCrash
<1>3. CASE UNCHANGED TokVars
  <2>1. TokTypeOK'
    BY <1>3 DEF TokInv, TokTypeOK, TokVars, tokRows, tokSession, tokLocks, tokIssuer, tokHistory
  <2>2. \A p \in Sessions : SessionOK(p)'
    BY <1>3 DEF TokInv, SessionOK, AtRest, Issued, Drafted, BeatOK, Visiting, ConnectOK,
       DisconnectOK, CheckOK, TokVars, tokRows, tokSession, tokLocks, tokIssuer
  <2>3. TokensIssued' /\ Unshared' /\ SpentOnce' /\ GrantKept' /\ ExpiredInError'
    BY <1>3 DEF TokInv, TokensIssued, Unshared, SpentOnce, GrantKept, Rotating, ExpiredInError,
       TokVars, tokRows, tokSession, tokLocks, tokIssuer, tokHistory
  <2> QED
    BY <2>1, <2>2, <2>3 DEF TokInv
<1> QED
  BY <1>1, <1>2, <1>3, AnswerLostStep, AgeStep DEF TokNext

\* The inductive invariant of the connections' rows, tokens and sessions.
THEOREM TokInvariant == TokSpec => []TokInv
  BY TokInitInv, TokStepInv, PTL DEF TokSpec

\* Every reachable state of HubTokens is well typed: in particular no session
\* writes a row it has not loaded.
THEOREM TokTypeCorrect == TokSpec => []TokTypeOK
<1>1. TokInv => TokTypeOK
  BY DEF TokInv
<1> QED
  BY <1>1, TokInvariant, PTL

\* A refresh token is presented again only when the answer that replaced it was
\* lost, for any number of connections and of sessions of the four kinds.
THEOREM TokensSpentOnce == TokSpec => []SpentOnce
<1>1. TokInv => SpentOnce
  BY DEF TokInv
<1> QED
  BY <1>1, TokInvariant, PTL

\* The connection's row and the vault hold one token, and the provider takes
\* it, or its successor was lost or is about to be committed.
THEOREM GrantsAreKept == TokSpec => []GrantKept
<1>1. TokInv => GrantKept
  BY DEF TokInv
<1> QED
  BY <1>1, TokInvariant, PTL

\* Fresh and accepted tokens are marked expired only over a row that has
\* changed since it was read.
THEOREM ExpiryIsExplained == TokSpec => []ExpiredInError
<1>1. TokInv => ExpiredInError
  BY DEF TokInv
<1> QED
  BY <1>1, TokInvariant, PTL

\* A step that gives a wiped row its tokens back commits a connect.
LEMMA OnlyConnectsRestore ==
  ASSUME TokInv, [TokNext]_TokVars, NEW k \in Conns,
         connRow[k].token = 0, connRow'[k].token # 0
  PROVE  \E p \in Connects : Target[p] = k /\ CommitConnect(p)
<1> USE SessionsAssumption, NobodyAssumption
<1>1. TokInv' /\ connRow[k].token = vault[k] /\ connRow'[k].token = vault'[k]
  BY TokStepInv DEF TokInv, GrantKept
<1>2. vault'[k] # vault[k]
  BY <1>1
<1>3. ASSUME NEW p \in Sessions, NEW step \in {"idle", "aborted", "done"}, CommitTok(p, step),
             Whole(p)
      PROVE  drawn[p][k] # Nobody /\ drawn[p][k] # 0 /\ SessionOK(p)
  BY <1>1, <1>3, CommitStep DEF TokInv
<1>4. ASSUME NEW p \in Sessions, CommitBeat(p) PROVE FALSE
  BY <1>1, <1>3, <1>4, WholeTransactions DEF CommitBeat, SessionOK, BeatOK
<1>5. ASSUME NEW p \in Sessions, CommitCheck(p) PROVE FALSE
  BY <1>3, <1>5, WholeTransactions DEF CommitCheck, SessionOK, CheckOK
<1>6. ASSUME NEW p \in Sessions, NEW x \in Conns, CommitDisconnect(p, x) PROVE FALSE
  BY <1>3, <1>6, WholeTransactions DEF CommitDisconnect, SessionOK, DisconnectOK
<1>7. ASSUME NEW p \in Sessions, CommitConnect(p) PROVE p \in Connects /\ Target[p] = k
  BY <1>3, <1>7, WholeTransactions DEF CommitConnect, SessionOK, ConnectOK
<1>8. ASSUME NEW p \in Sessions, TokStep(p) PROVE CommitConnect(p)
  <2>1. ~(Scan(p) \/ StartCheck(p) \/ NextBeat(p) \/ BindFails(p) \/ TokDeadlock(p))
    BY <1>2 DEF Scan, StartCheck, NextBeat, BindFails, TokDeadlock, RollbackTok, tokRows
  <2>2. \A x \in Conns :
          ~(\/ Pick(p, x) \/ LockConnection(p, x) \/ ReadVault(p, x) \/ Rotate(p, x)
            \/ RefreshFails(p, x) \/ Authorize(p, x) \/ StoreGrant(p, x) \/ LoadConnection(p, x)
            \/ BindRow(p, x) \/ LoadForDisconnect(p, x) \/ WipeRow(p, x) \/ WipeVault(p, x)
            \/ Probe(p, x) \/ FlushCheck(p, x))
    BY <1>2 DEF Pick, LockConnection, ReadVault, Rotate, RefreshFails, RefreshError, Authorize,
       StoreGrant, LoadConnection, BindRow, LoadForDisconnect, WipeRow, WipeVault, Probe,
       FlushCheck, tokRows
  <2> QED
    BY <1>4, <1>5, <1>6, <1>8, <2>1, <2>2 DEF TokStep
<1>9. ASSUME NEW p \in Sessions PROVE ~TokCrash(p) /\ \A x \in Conns : ~AnswerLost(p, x)
  BY <1>2 DEF TokCrash, RollbackTok, AnswerLost, RefreshError, tokRows
<1>10. \A x \in Conns : ~Age(x)
  BY <1>2 DEF Age
<1>11. ~UNCHANGED TokVars
  BY <1>2 DEF TokVars, tokRows
<1> QED
  BY <1>7, <1>8, <1>9, <1>10, <1>11 DEF TokNext

\* Once a connection is wiped, neither a refresh nor a check nor a second
\* disconnect that overlaps brings tokens back: only a connect's commit does.
THEOREM WipedStaysWiped == TokSpec => WipedUntilConnected
<1>1. TokInv /\ [TokNext]_TokVars =>
        [\A k \in Conns :
           connRow[k].token = 0 /\ connRow'[k].token # 0 =>
             \E p \in Connects : Target[p] = k /\ CommitConnect(p)]_TokVars
  BY OnlyConnectsRestore
<1> QED
  BY <1>1, TokInvariant, PTL DEF TokSpec, WipedUntilConnected

-----------------------------------------------------------------------------
(* HubOutbound: the inductive invariant.                                   *)

\* While every job has run under the key, a running job has set it.
Keyed == outOpen = {} => \A j \in Jobs : outPc[j] \in Running => outKey = j

\* A job is going to insert usage only for an action that has none, and a job
\* that is going to write ok has usage to go with it.
Drafts ==
    \A j \in Jobs :
        /\ outPc[j] = "answered" => outStatus[j] = "ok"
        /\ outUsage[j] =>
              outPc[j] = "persist" /\ outStatus[j] = "ok" /\ outMeter[ActionOf[j]] = 0
        /\ outPc[j] = "persist" /\ outStatus[j] = "ok" =>
              outUsage[j] \/ outMeter[ActionOf[j]] = 1 \/ j \in outLate

\* The unique index: one transaction at a time inserts the usage of an action.
SoleInsert ==
    \A i, j \in Jobs : outUsage[i] /\ outUsage[j] /\ ActionOf[i] = ActionOf[j] => i = j

OutInv == OutTypeOK /\ Keyed /\ Drafts /\ SoleInsert /\ MeteredWithRow

-----------------------------------------------------------------------------
\* Every action keeps the types.
LEMMA OutTypeStep == OutTypeOK /\ [OutNext]_OutVars => OutTypeOK'
<1> SUFFICES ASSUME OutTypeOK, [OutNext]_OutVars PROVE OutTypeOK'
  OBVIOUS
<1> USE OutJobsAssumption, OutBoundsAssumption
<1>1. ASSUME NEW j \in Jobs, Acquire(j) \/ FailOpen(j) PROVE OutTypeOK'
  BY <1>1 DEF Acquire, FailOpen, OutGoto, OutTypeOK, outLock, outRecord, Running
<1>2. ASSUME NEW j \in Jobs, Busy(j) PROVE OutTypeOK'
  BY <1>2 DEF Busy, Retry, OutGoto, OutTypeOK, outLock, outRecord, Ended
<1>3. ASSUME NEW j \in Jobs, CheckConnection(j) PROVE OutTypeOK'
  <2>1. outFate' \in [Jobs -> {"ok", "failed", "retry"}]
    BY <1>3 DEF CheckConnection, OutTypeOK
  <2>2. outPc' \in [Jobs -> {"queued"} \union Running \union Ended]
    BY <1>3 DEF CheckConnection, OutGoto, OutTypeOK, Running
  <2> QED
    BY <1>3, <2>1, <2>2 DEF CheckConnection, OutTypeOK, outLock, outRecord
<1>4. ASSUME NEW j \in Jobs, Answered(j) \/ CallFails(j) \/ SoftTimeout(j) PROVE OutTypeOK'
  BY <1>4 DEF Answered, CallFails, SoftTimeout, OutDraft, OutGoto, OutTypeOK, outLock, outRecord,
              Running, Statuses
<1>5. ASSUME NEW j \in Jobs, Meter(j) PROVE OutTypeOK'
  <2>1. outUsage' \in [Jobs -> BOOLEAN]
    BY <1>5, Zenon DEF Meter, OutTypeOK
  <2> QED
    BY <1>5, <2>1 DEF Meter, OutGoto, OutTypeOK, outLock, outRecord, Running
<1>6. ASSUME NEW j \in Jobs, Persist(j) PROVE OutTypeOK'
  <2>1. ActionOf[j] \in Actions
    BY DEF Actions
  <2>2. outMeter' \in [Actions -> Nat]
    BY <1>6, <2>1 DEF Persist, OutTypeOK
  <2>3. outRows' \in [Jobs -> SUBSET Statuses]
    BY <1>6 DEF Persist, OutTypeOK
  <2> QED
    BY <1>6, <2>2, <2>3 DEF Persist, OutGoto, OutTypeOK, outLock, Running
<1>7. ASSUME NEW j \in Jobs, PersistFails(j) \/ OutCrash(j) PROVE OutTypeOK'
  <2>1. outFaults' \in 0..MaxOutFaults
    BY <1>7 DEF PersistFails, OutCrash, OutFault, OutTypeOK
  <2>2. outPc' \in [Jobs -> {"queued"} \union Running \union Ended]
    BY <1>7 DEF PersistFails, OutCrash, OutGoto, OutTypeOK, Running
  <2>3. /\ outFate' \in [Jobs -> {"ok", "failed", "retry"}]
        /\ outStatus' \in [Jobs -> Statuses]
    BY <1>7 DEF PersistFails, OutCrash, Forget, OutDraft, OutTypeOK, Statuses
  <2>4. outUsage' \in [Jobs -> BOOLEAN]
    BY <1>7 DEF PersistFails, OutCrash, Forget, OutTypeOK
  <2> QED
    BY <1>7, <2>1, <2>2, <2>3, <2>4 DEF PersistFails, OutCrash, OutTypeOK, outLock, outRecord
<1>8. ASSUME NEW j \in Jobs, Release(j) PROVE OutTypeOK'
  <2>1. outPc' \in [Jobs -> {"queued"} \union Running \union Ended]
    BY <1>8 DEF Release, Retry, OutGoto, OutTypeOK, Ended
  <2>2. outTries' \in [Jobs -> 0..OutMaxRetries]
    BY <1>8 DEF Release, Retry, OutTypeOK
  <2> QED
    BY <1>8, <2>1, <2>2 DEF Release, Forget, OutDraft, OutTypeOK, outRecord, Statuses
<1>9. CASE Expire \/ RedisDown \/ RedisUp \/ Block
  <2>1. outFaults' \in 0..MaxOutFaults
    BY <1>9 DEF Expire, RedisDown, RedisUp, Block, OutFault, OutTypeOK
  <2>2. outKey' \in Jobs \union {NoJob} /\ outRedis' \in BOOLEAN /\ outBlocked' \in BOOLEAN
    BY <1>9 DEF Expire, RedisDown, RedisUp, Block, OutTypeOK, outLock
  <2>3. UNCHANGED <<outPc, outTries, outFate, outStatus, outUsage, outRows, outMeter, outOpen,
                    outLate>>
    BY <1>9 DEF Expire, RedisDown, RedisUp, Block, outRecord
  <2> QED
    BY <2>1, <2>2, <2>3 DEF OutTypeOK
<1>10. CASE UNCHANGED OutVars
  BY <1>10 DEF OutVars, outLock, outRecord, OutTypeOK
<1> QED
  BY <1>1, <1>2, <1>3, <1>4, <1>5, <1>6, <1>7, <1>8, <1>9, <1>10 DEF OutNext, OutStep

-----------------------------------------------------------------------------
(* The key.                                                                *)

LEMMA KeyedStep == OutTypeOK /\ Keyed /\ [OutNext]_OutVars => Keyed'
<1> SUFFICES ASSUME OutTypeOK, Keyed, [OutNext]_OutVars, outOpen' = {}
             PROVE \A j \in Jobs : outPc'[j] \in Running => outKey' = j
  BY DEF Keyed
<1> USE OutJobsAssumption
<1>0. ASSUME outOpen' = outOpen, outKey' = outKey,
             \A j \in Jobs : outPc'[j] \in Running => outPc[j] \in Running
      PROVE \A j \in Jobs : outPc'[j] \in Running => outKey' = j
  BY <1>0 DEF Keyed
<1>1. ASSUME NEW j \in Jobs, Acquire(j)
      PROVE \A i \in Jobs : outPc'[i] \in Running => outKey' = i
  BY <1>1 DEF Acquire, OutGoto, OutTypeOK, Keyed
<1>2. ASSUME NEW j \in Jobs, Busy(j)
      PROVE \A i \in Jobs : outPc'[i] \in Running => outKey' = i
  BY <1>0, <1>2 DEF Busy, Retry, OutGoto, OutTypeOK, outLock, Running
<1>3. ASSUME NEW j \in Jobs, FailOpen(j) PROVE FALSE
  BY <1>3 DEF FailOpen
<1>4. ASSUME NEW j \in Jobs, CheckConnection(j) \/ Answered(j) \/ CallFails(j) \/ Meter(j)
                               \/ SoftTimeout(j) \/ Persist(j) \/ PersistFails(j)
      PROVE \A i \in Jobs : outPc'[i] \in Running => outKey' = i
  BY <1>0, <1>4 DEF CheckConnection, Answered, CallFails, Meter, SoftTimeout, Persist,
                    PersistFails, OutGoto, OutTypeOK, outLock, Running
<1>5. ASSUME NEW j \in Jobs, Release(j)
      PROVE \A i \in Jobs : outPc'[i] \in Running => outKey' = i
  <2>1. outPc'[j] \notin Running /\ \A i \in Jobs \ {j} : outPc'[i] = outPc[i]
    BY <1>5 DEF Release, Retry, OutGoto, OutTypeOK, Running
  <2>2. outOpen = {} /\ outKey = j
    BY <1>5 DEF Release, Keyed, Running
  <2> QED
    BY <2>1, <2>2 DEF Keyed
<1>6. ASSUME NEW j \in Jobs, OutCrash(j)
      PROVE \A i \in Jobs : outPc'[i] \in Running => outKey' = i
  BY <1>0, <1>6 DEF OutCrash, OutGoto, OutTypeOK, outLock, Running
<1>7. CASE Expire
  BY <1>7 DEF Expire, Keyed
<1>8. CASE RedisDown \/ RedisUp \/ Block
  BY <1>0, <1>8 DEF RedisDown, RedisUp, Block, outLock
<1>9. CASE UNCHANGED OutVars
  BY <1>0, <1>9 DEF OutVars, outLock
<1> QED
  BY <1>1, <1>2, <1>3, <1>4, <1>5, <1>6, <1>7, <1>8, <1>9 DEF OutNext, OutStep

-----------------------------------------------------------------------------
(* Rows and usage.                                                         *)

Metering == Drafts /\ SoleInsert /\ MeteredWithRow

\* A step that commits nothing, and after which a job that holds a draft is one
\* that held it before, or has no draft at all.
LEMMA DraftsKept ==
    ASSUME OutTypeOK, Metering, outRows' = outRows, outMeter' = outMeter,
           outLate \subseteq outLate',
           NEW j \in Jobs,
           \A i \in Jobs \ {j} : /\ outPc'[i] = outPc[i] /\ outStatus'[i] = outStatus[i]
                                 /\ (outUsage'[i] <=> outUsage[i]),
           outUsage'[j] => FALSE,
           outPc'[j] = "answered" => outStatus'[j] = "ok",
           outPc'[j] = "persist" => outStatus'[j] # "ok" \/ j \in outLate'
    PROVE  Metering'
<1>1. Drafts'
  BY DEF Metering, Drafts
<1>2. SoleInsert'
  BY DEF Metering, SoleInsert
<1>3. MeteredWithRow'
  BY DEF Metering, MeteredWithRow
<1> QED
  BY <1>1, <1>2, <1>3 DEF Metering

LEMMA MeteringStep == OutTypeOK /\ Metering /\ [OutNext]_OutVars => Metering'
<1> SUFFICES ASSUME OutTypeOK, Metering, [OutNext]_OutVars PROVE Metering'
  OBVIOUS
<1> USE OutJobsAssumption
<1>0. \A j \in Jobs : ActionOf[j] \in Actions
  BY DEF Actions
<1>1. ASSUME NEW j \in Jobs, Acquire(j) \/ FailOpen(j) PROVE Metering'
  <2>1. ~outUsage[j]
    BY <1>1 DEF Acquire, FailOpen, Metering, Drafts
  <2> QED
    BY <1>1, <2>1, DraftsKept DEF Acquire, FailOpen, OutGoto, OutTypeOK, outRecord
<1>2. ASSUME NEW j \in Jobs, Busy(j) PROVE Metering'
  <2>1. ~outUsage[j]
    BY <1>2 DEF Busy, Metering, Drafts
  <2>2. outPc'[j] \in {"queued", "dropped"} /\ \A i \in Jobs \ {j} : outPc'[i] = outPc[i]
    BY <1>2 DEF Busy, Retry, OutGoto, OutTypeOK
  <2> QED
    BY <1>2, <2>1, <2>2, DraftsKept DEF Busy, outRecord
<1>3. ASSUME NEW j \in Jobs, CheckConnection(j) PROVE Metering'
  <2>1. ~outUsage[j]
    BY <1>3 DEF CheckConnection, Metering, Drafts
  <2> QED
    BY <1>3, <2>1, DraftsKept DEF CheckConnection, OutGoto, OutTypeOK, outRecord
<1>4. ASSUME NEW j \in Jobs, Answered(j) \/ CallFails(j) \/ SoftTimeout(j) PROVE Metering'
  <2>1. ~outUsage[j]
    BY <1>4 DEF Answered, CallFails, SoftTimeout, Metering, Drafts
  <2> QED
    BY <1>4, <2>1, DraftsKept
       DEF Answered, CallFails, SoftTimeout, OutDraft, OutGoto, OutTypeOK, outRecord
<1>5. ASSUME NEW j \in Jobs, PersistFails(j) \/ OutCrash(j) \/ Release(j) PROVE Metering'
  <2>1. outUsage' = [outUsage EXCEPT ![j] = FALSE]
    BY <1>5 DEF PersistFails, OutCrash, Release, Forget
  <2>2. outPc'[j] \notin {"answered", "persist"} /\ \A i \in Jobs \ {j} : outPc'[i] = outPc[i]
    BY <1>5 DEF PersistFails, OutCrash, Release, Retry, OutGoto, OutTypeOK
  <2>3. \A i \in Jobs \ {j} : outStatus'[i] = outStatus[i]
    BY <1>5 DEF PersistFails, OutCrash, Release, Forget, OutDraft, OutTypeOK
  <2>4. outRows' = outRows /\ outMeter' = outMeter /\ outLate' = outLate
    BY <1>5 DEF PersistFails, OutCrash, Release, outRecord
  <2>5. ~outUsage'[j] /\ \A i \in Jobs \ {j} : outUsage'[i] = outUsage[i]
    BY <2>1 DEF OutTypeOK
  <2> QED
    BY <2>2, <2>3, <2>4, <2>5, DraftsKept
<1>6. ASSUME NEW j \in Jobs, Meter(j) PROVE Metering'
  <2> DEFINE a == ActionOf[j]
  <2>1. outStatus[j] = "ok" /\ ~outUsage[j]
    BY <1>6 DEF Meter, Metering, Drafts
  <2>2. /\ UNCHANGED <<outStatus, outRows, outMeter, outLate>>
        /\ outPc'[j] = "persist" /\ outUsage'[j] = (outMeter[a] = 0)
        /\ \A i \in Jobs \ {j} : outPc'[i] = outPc[i] /\ outUsage'[i] = outUsage[i]
    BY <1>6 DEF Meter, OutGoto, OutTypeOK, outRecord
  <2>3. outMeter[a] \in Nat /\ outMeter[a] <= 1
    BY <1>0 DEF OutTypeOK, Metering, MeteredWithRow
  <2>4. Drafts'
    <3> SUFFICES ASSUME NEW i \in Jobs
                 PROVE /\ outPc'[i] = "answered" => outStatus'[i] = "ok"
                       /\ outUsage'[i] => /\ outPc'[i] = "persist" /\ outStatus'[i] = "ok"
                                          /\ outMeter'[ActionOf[i]] = 0
                       /\ outPc'[i] = "persist" /\ outStatus'[i] = "ok" =>
                             outUsage'[i] \/ outMeter'[ActionOf[i]] = 1 \/ i \in outLate'
      BY DEF Drafts
    <3>1. CASE i = j
      <4>1. outUsage'[j] <=> outMeter[a] = 0
        BY <2>2
      <4>2. outMeter[a] = 0 \/ outMeter[a] = 1
        BY <2>3
      <4> QED
        BY <3>1, <4>1, <4>2, <2>1, <2>2
    <3>2. CASE i # j
      <4>1. outUsage'[i] <=> outUsage[i]
        BY <3>2, <2>2
      <4> QED
        BY <3>2, <4>1, <2>2 DEF Metering, Drafts
    <3> QED
      BY <3>1, <3>2
  <2>5. SoleInsert'
    BY <1>6, <2>2 DEF Meter, Metering, SoleInsert
  <2>6. MeteredWithRow'
    BY <2>2 DEF Metering, MeteredWithRow
  <2> QED
    BY <2>4, <2>5, <2>6 DEF Metering
<1>7. ASSUME NEW j \in Jobs, Persist(j) PROVE Metering'
  <2> DEFINE a == ActionOf[j]
  <2>1. /\ UNCHANGED <<outStatus, outLate>> /\ outPc'[j] = "release" /\ ~outUsage'[j]
        /\ \A i \in Jobs \ {j} :
              outPc'[i] = outPc[i] /\ outUsage'[i] = outUsage[i] /\ outRows'[i] = outRows[i]
        /\ outRows'[j] = outRows[j] \union {outStatus[j]}
    BY <1>7 DEF Persist, OutGoto, OutTypeOK
  <2>2. /\ \A b \in Actions \ {a} : outMeter'[b] = outMeter[b]
        /\ outMeter'[a] = IF outUsage[j] THEN outMeter[a] + 1 ELSE outMeter[a]
        /\ a \in Actions
    BY <1>7, <1>0 DEF Persist, OutTypeOK
  <2>3. outUsage[j] => outStatus[j] = "ok" /\ outMeter[a] = 0
    BY DEF Metering, Drafts
  <2>4. \A i \in Jobs : outMeter[ActionOf[i]] = 1 => outMeter'[ActionOf[i]] = 1
    BY <2>2, <2>3, <1>0
  <2>5. Drafts'
    <3> SUFFICES ASSUME NEW i \in Jobs
                 PROVE /\ outPc'[i] = "answered" => outStatus'[i] = "ok"
                       /\ outUsage'[i] => /\ outPc'[i] = "persist" /\ outStatus'[i] = "ok"
                                          /\ outMeter'[ActionOf[i]] = 0
                       /\ outPc'[i] = "persist" /\ outStatus'[i] = "ok" =>
                             outUsage'[i] \/ outMeter'[ActionOf[i]] = 1 \/ i \in outLate'
      BY DEF Drafts
    <3>1. CASE i = j
      BY <3>1, <2>1
    <3>2. CASE i # j
      <4>1. outUsage[i] => outMeter'[ActionOf[i]] = outMeter[ActionOf[i]]
        BY <3>2, <2>2, <1>0 DEF Metering, SoleInsert
      <4> QED
        BY <3>2, <4>1, <2>1, <2>4 DEF Metering, Drafts
    <3> QED
      BY <3>1, <3>2
  <2>6. SoleInsert'
    BY <2>1 DEF Metering, SoleInsert
  <2>7. MeteredWithRow'
    <3>1. ASSUME NEW b \in Actions
          PROVE /\ outMeter'[b] <= 1
                /\ outMeter'[b] = 1 => \E i \in Jobs : ActionOf[i] = b /\ "ok" \in outRows'[i]
      <4>1. CASE b = a /\ outUsage[j]
        BY <4>1, <2>1, <2>2, <2>3
      <4>2. CASE ~(b = a /\ outUsage[j])
        BY <4>2, <2>1, <2>2 DEF Metering, MeteredWithRow
      <4> QED
        BY <4>1, <4>2
    <3>2. ASSUME NEW i \in Jobs, "ok" \in outRows'[i]
          PROVE outMeter'[ActionOf[i]] = 1 \/ i \in outLate'
      <4>1. CASE "ok" \in outRows[i]
        BY <4>1, <2>1, <2>4 DEF Metering, MeteredWithRow
      <4>2. CASE i = j /\ outStatus[j] = "ok"
        BY <4>2, <1>7, <2>1, <2>2, <2>3 DEF Persist, Metering, Drafts
      <4> QED
        BY <3>2, <4>1, <4>2, <2>1
    <3> QED
      BY <3>1, <3>2 DEF MeteredWithRow
  <2> QED
    BY <2>5, <2>6, <2>7 DEF Metering
<1>8. ASSUME UNCHANGED <<outPc, outStatus, outUsage, outRecord, outLate>> PROVE Metering'
  BY <1>8 DEF Metering, Drafts, SoleInsert, MeteredWithRow, outRecord
<1>9. CASE Expire \/ RedisDown \/ RedisUp \/ Block
  BY <1>8, <1>9 DEF Expire, RedisDown, RedisUp, Block
<1>10. CASE UNCHANGED OutVars
  BY <1>8, <1>10 DEF OutVars
<1> QED
  BY <1>1, <1>2, <1>3, <1>4, <1>5, <1>6, <1>7, <1>9, <1>10 DEF OutNext, OutStep

-----------------------------------------------------------------------------
(* The theorems.                                                           *)

LEMMA OutInitInv == OutInit => OutInv
<1> SUFFICES ASSUME OutInit PROVE OutInv
  OBVIOUS
<1>1. OutTypeOK
  <2>1. outPc \in [Jobs -> {"queued"} \union Running \union Ended]
    BY DEF OutInit, Ended
  <2>2. outTries \in [Jobs -> 0..OutMaxRetries] /\ outFaults \in 0..MaxOutFaults
    BY OutBoundsAssumption DEF OutInit
  <2>3. outUsage \in [Jobs -> BOOLEAN] /\ outRows \in [Jobs -> SUBSET Statuses]
    BY DEF OutInit
  <2>4. outFate \in [Jobs -> {"ok", "failed", "retry"}] /\ outStatus \in [Jobs -> Statuses]
    BY DEF OutInit, Statuses
  <2>5. outMeter \in [Actions -> Nat]
    BY DEF OutInit
  <2> QED
    BY <2>1, <2>2, <2>3, <2>4, <2>5 DEF OutInit, OutTypeOK
<1>2. Keyed
  BY DEF OutInit, Keyed, Running
<1>3. Drafts /\ SoleInsert
  BY DEF OutInit, Drafts, SoleInsert
<1>4. MeteredWithRow
  <2>1. \A a \in Actions : outMeter[a] = 0
    BY DEF OutInit
  <2>2. \A j \in Jobs : outRows[j] = {}
    BY DEF OutInit
  <2> QED
    BY <2>1, <2>2 DEF MeteredWithRow
<1> QED
  BY <1>1, <1>2, <1>3, <1>4 DEF OutInv

\* Whatever jobs run at a time, every variable keeps its type.
THEOREM OutTypeCorrect == OutSpec => []OutTypeOK
<1>1. OutInit => OutTypeOK
  BY OutInitInv DEF OutInv
<1> QED
  BY <1>1, OutTypeStep, PTL DEF OutSpec

\* The invariant holds.
THEOREM OutInvariant == OutSpec => []OutInv
<1>1. OutInv /\ [OutNext]_OutVars => OutInv'
  BY OutTypeStep, KeyedStep, MeteringStep DEF OutInv, Metering
<1> QED
  BY <1>1, OutInitInv, PTL DEF OutSpec

\* For any number of jobs and crashes: two of them run at a time only after
\* a job has run without the key.
THEOREM OutboundOverlap == OutSpec => []OverlapOnlyFailOpen
<1>1. OutInv => OverlapOnlyFailOpen
  BY DEF OutInv, Keyed, OverlapOnlyFailOpen
<1> QED
  BY <1>1, OutInvariant, PTL

\* For any number of jobs, retries and faults: an action is metered at most
\* once, with a row that says ok, and such a row is metered unless the timeout
\* cut its job off.
THEOREM OutboundMetering == OutSpec => []MeteredWithRow
<1>1. OutInv => MeteredWithRow
  BY DEF OutInv
<1> QED
  BY <1>1, OutInvariant, PTL
=============================================================================
