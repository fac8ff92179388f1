----------------------------- MODULE HubTokens -----------------------------
(***************************************************************************)
(* OAuth connections of the Integration Hub.  A connection is a row with a *)
(* status and sealed tokens, and a vault row with the same tokens.  The    *)
(* provider's refresh token is good for one use: the HTTP call spends it   *)
(* and answers with its successor.  Four kinds of sessions write the rows: *)
(*                                                                         *)
(*   beats        _refresh_expiring_oauth_tokens, every minute: all due    *)
(*                connections in one transaction, committed at the end     *)
(*   connects     the OAuth callback, or the same connection made again    *)
(*   disconnects  the user's request, or the provider's uninstall event    *)
(*   checks       the hourly health check: all connected rows, one commit  *)
(*                                                                         *)
(* A session keeps the rows it has loaded ("held"): a later SELECT ... FOR *)
(* UPDATE takes the lock and returns the held copy, and a flush writes     *)
(* only the columns that differ from it.  Nothing is flushed before the    *)
(* code asks for it (autoflush is off).                                    *)
(*                                                                         *)
(* Token 0 stands for "wiped": no sealed tokens and no credential linked.  *)
(* Provider side is external: any issued and unspent token is valid.       *)
(***************************************************************************)
EXTENDS Integers

CONSTANTS
    Conns,       \* the connections
    OneTimers,   \* those of amoCRM and Kommo
    Beats, Connects, Disconnects, Checks,  \* the sessions
    Target,      \* the connection of each connect and disconnect
    Casts,       \* bound: <<sessions, connections>> that take part in a behaviour
    Nobody,      \* no copy, no draft, no lock holder
    MaxAge,      \* bound: how often tokens come close to their expiry
    MaxTokFaults \* bound: crashes and lost answers

Sessions == Beats \union Connects \union Disconnects \union Checks

ASSUME SessionsAssumption ==
    /\ Beats \cap Connects = {} /\ Beats \cap Disconnects = {} /\ Beats \cap Checks = {}
    /\ Connects \cap Disconnects = {} /\ Connects \cap Checks = {}
    /\ Disconnects \cap Checks = {}
    /\ Target \in [Connects \union Disconnects -> Conns]
    /\ OneTimers \subseteq Conns
    /\ Casts \subseteq (SUBSET Sessions) \X (SUBSET Conns)
ASSUME NobodyAssumption == Nobody \notin Int /\ Nobody \notin Sessions \union Conns
ASSUME TokBoundsAssumption == MaxAge \in Nat /\ MaxTokFaults \in Nat

VARIABLES
    connRow,   \* committed connection rows
    vault,     \* committed token of each vault row
    rowLock, vaultLock, \* holders of the row locks
    tpc,       \* each session's next step
    todo,      \* connections a beat or a check has still to visit
    cur,       \* the connection a session works on
    held,      \* each session's copy of a row
    want,      \* the row a session is going to write
    drawn,     \* the token a session is going to write to the vault
    secret,    \* the refresh token a beat has read from the vault
    valid,     \* provider: tokens that will be accepted
    minted,    \* provider: tokens issued so far
    agesLeft, tokFaults, \* what remains of the bounds
    spent,     \* history: the token each session's transaction has used up
    lost,      \* history: tokens used up whose successor was never committed
    replayed,  \* history: tokens presented when no longer valid
    overtaken  \* history: sessions that committed over a row changed since

tokRows    == <<connRow, vault>>
tokSession == <<tpc, todo, cur, held, want, drawn, secret, spent>>
tokLocks   == <<rowLock, vaultLock>>
tokIssuer  == <<valid, minted>>
tokHistory == <<lost, replayed, overtaken>>
TokVars    == <<tokRows, tokSession, tokLocks, tokIssuer, agesLeft, tokFaults, tokHistory>>

TokSteps == {"idle", "pick", "row", "vault", "http", "store", "load", "bind", "commit",
             "wipe", "test", "aborted", "done"}
RowType  == [status : {"connected", "error", "expired", "revoked"},
             token  : Nat,
             life   : {"fresh", "due", "none"}]
ASSUME RowsAssumption == Nobody \notin RowType
PerConn(S) == [Sessions -> [Conns -> S \union {Nobody}]]

TokTypeOK ==
    /\ connRow \in [Conns -> RowType]
    /\ vault \in [Conns -> Nat]
    /\ rowLock \in [Conns -> Sessions \union {Nobody}]
    /\ vaultLock \in [Conns -> Sessions \union {Nobody}]
    /\ tpc \in [Sessions -> TokSteps]
    /\ todo \in [Sessions -> SUBSET Conns]
    /\ cur \in [Sessions -> Conns \union {Nobody}]
    /\ held \in PerConn(RowType)
    /\ want \in PerConn(RowType)
    /\ drawn \in PerConn(Nat)
    /\ secret \in [Sessions -> Nat]
    /\ spent \in PerConn(Nat)
    /\ valid \in [Conns -> SUBSET Nat]
    /\ minted \in [Conns -> Nat]
    /\ agesLeft \in Nat /\ tokFaults \in Nat
    /\ lost \in [Conns -> SUBSET Nat]
    /\ replayed \in [Conns -> SUBSET Nat]
    /\ overtaken \in [Conns -> SUBSET Sessions]

DueRow == [status |-> "connected", token |-> 1, life |-> "due"]
RevokedRow == [status |-> "revoked", token |-> 0, life |-> "none"]

Blank == [k \in Conns |-> Nobody]

TokInit ==
    /\ rowLock = Blank /\ vaultLock = Blank
    /\ \E cast \in Casts :
         /\ tpc = [p \in Sessions |-> IF p \in cast[1] THEN "idle" ELSE "done"]
         /\ connRow = [k \in Conns |-> IF k \in cast[2] THEN DueRow ELSE RevokedRow]
         /\ vault = [k \in Conns |-> connRow[k].token]
    /\ todo = [p \in Sessions |-> {}]
    /\ cur = [p \in Sessions |-> IF p \in Connects \union Disconnects THEN Target[p] ELSE Nobody]
    /\ held = [p \in Sessions |-> Blank]
    /\ want = [p \in Sessions |-> Blank]
    /\ drawn = [p \in Sessions |-> Blank]
    /\ secret = [p \in Sessions |-> 0]
    /\ spent = [p \in Sessions |-> Blank]
    /\ valid = [k \in Conns |-> {1}]
    /\ minted = [k \in Conns |-> 1]
    /\ agesLeft = MaxAge /\ tokFaults = MaxTokFaults
    /\ lost = [k \in Conns |-> {}]
    /\ replayed = [k \in Conns |-> {}]
    /\ overtaken = [k \in Conns |-> {}]

-----------------------------------------------------------------------------
(* Sessions and transactions.                                              *)

TokGoto(p, step) == tpc' = [tpc EXCEPT ![p] = step]

LoadRow(p, k) == held' = [held EXCEPT ![p][k] = connRow[k]]
LockRow(p, k) == rowLock[k] = Nobody /\ rowLock' = [rowLock EXCEPT ![k] = p]
LockVault(p, k) == vaultLock[k] = Nobody /\ vaultLock' = [vaultLock EXCEPT ![k] = p]
Draft(p, k, new) == want' = [want EXCEPT ![p][k] = new]

\* The columns that a flush writes: those that differ from the held copy.
Merged(row, copy, new) ==
    [f \in {"status", "token", "life"} |-> IF new[f] = copy[f] THEN row[f] ELSE new[f]]

\* The transaction is over: its locks, copies and drafts are gone.
EndTokTransaction(p, step) ==
    /\ TokGoto(p, step)
    /\ rowLock' = [k \in Conns |-> IF rowLock[k] = p THEN Nobody ELSE rowLock[k]]
    /\ vaultLock' = [k \in Conns |-> IF vaultLock[k] = p THEN Nobody ELSE vaultLock[k]]
    /\ held' = [held EXCEPT ![p] = Blank]
    /\ want' = [want EXCEPT ![p] = Blank]
    /\ drawn' = [drawn EXCEPT ![p] = Blank]
    /\ spent' = [spent EXCEPT ![p] = Blank]
    /\ todo' = [todo EXCEPT ![p] = {}]
    /\ secret' = [secret EXCEPT ![p] = 0]
    /\ UNCHANGED cur

CommitTok(p, step) ==
    /\ connRow' = [k \in Conns |->
          IF want[p][k] = Nobody THEN connRow[k]
          ELSE Merged(connRow[k], held[p][k], want[p][k])]
    /\ vault' = [k \in Conns |-> IF drawn[p][k] = Nobody THEN vault[k] ELSE drawn[p][k]]
    /\ overtaken' = [k \in Conns |->
          IF want[p][k] # Nobody /\ held[p][k] # connRow[k]
          THEN overtaken[k] \union {p} ELSE overtaken[k]]
    /\ EndTokTransaction(p, step)
    /\ UNCHANGED <<tokIssuer, agesLeft, tokFaults, lost, replayed>>

\* A rollback forgets the successors of the tokens the transaction used up.
RollbackTok(p, step) ==
    /\ lost' = [k \in Conns |->
          IF spent[p][k] = Nobody THEN lost[k] ELSE lost[k] \union {spent[p][k]}]
    /\ EndTokTransaction(p, step)
    /\ UNCHANGED <<tokRows, tokIssuer, agesLeft, replayed, overtaken>>

TokFault == tokFaults > 0 /\ tokFaults' = tokFaults - 1

-----------------------------------------------------------------------------
(* The refresh task.                                                       *)

Selected(k) ==
    connRow[k].status = "connected" /\ connRow[k].life = "due" /\ connRow[k].token # 0

\* hub_ids: the connections that are due.
Scan(p) ==
    /\ p \in Beats /\ tpc[p] = "idle"
    /\ \E k \in Conns : Selected(k)
    /\ todo' = [todo EXCEPT ![p] = {k \in Conns : Selected(k)}]
    /\ TokGoto(p, "pick")
    /\ UNCHANGED <<tokRows, cur, held, want, drawn, secret, spent, tokLocks, tokIssuer,
                   agesLeft, tokFaults, tokHistory>>

\* db.get: the row as it is now, which may differ from what the scan saw.
Pick(p, k) ==
    /\ p \in Beats /\ tpc[p] = "pick" /\ k \in todo[p]
    /\ todo' = [todo EXCEPT ![p] = @ \ {k}]
    /\ cur' = [cur EXCEPT ![p] = k]
    /\ LoadRow(p, k)
    /\ TokGoto(p, "row")
    /\ UNCHANGED <<tokRows, want, drawn, secret, spent, tokLocks, tokIssuer, agesLeft,
                   tokFaults, tokHistory>>

\* Advisory locks and FOR UPDATE; the copy says whether a credential is linked.
LockConnection(p, k) ==
    /\ p \in Beats /\ tpc[p] = "row" /\ cur[p] = k
    /\ LockRow(p, k)
    /\ IF held[p][k].token = 0
       THEN Draft(p, k, [held[p][k] EXCEPT !.status = "error"]) /\ TokGoto(p, "pick")
       ELSE TokGoto(p, "vault") /\ UNCHANGED want
    /\ UNCHANGED <<tokRows, todo, cur, held, drawn, secret, spent, vaultLock, tokIssuer,
                   agesLeft, tokFaults, tokHistory>>

\* Mutant: the token comes from the loaded row, not from the vault.
ReadHeldToken(p, k) ==
    /\ p \in Beats /\ tpc[p] = "vault" /\ cur[p] = k
    /\ LockVault(p, k)
    /\ secret' = [secret EXCEPT ![p] = held[p][k].token]
    /\ TokGoto(p, "http")
    /\ UNCHANGED <<tokRows, todo, cur, held, want, drawn, spent, rowLock, tokIssuer,
                   agesLeft, tokFaults, tokHistory>>

\* The vault row is read for the first time, so it is the committed one.
ReadVault(p, k) ==
    /\ p \in Beats /\ tpc[p] = "vault" /\ cur[p] = k
    /\ LockVault(p, k)
    /\ IF k \in OneTimers /\ held[p][k].life = "fresh"
       THEN TokGoto(p, "pick") /\ UNCHANGED secret
       ELSE TokGoto(p, "http") /\ secret' = [secret EXCEPT ![p] = vault[k]]
    /\ UNCHANGED <<tokRows, todo, cur, held, want, drawn, spent, rowLock, tokIssuer,
                   agesLeft, tokFaults, tokHistory>>

\* The provider takes the token and issues its successor.
Exchange(k, token) ==
    /\ token \in valid[k]
    /\ minted' = [minted EXCEPT ![k] = @ + 1]
    /\ valid' = [valid EXCEPT ![k] = (@ \ {token}) \union {minted[k] + 1}]

Rotate(p, k) ==
    /\ p \in Beats /\ tpc[p] = "http" /\ cur[p] = k
    /\ Exchange(k, secret[p])
    /\ spent' = [spent EXCEPT ![p][k] = secret[p]]
    /\ drawn' = [drawn EXCEPT ![p][k] = minted[k] + 1]
    /\ Draft(p, k, [status |-> "connected", token |-> minted[k] + 1, life |-> "fresh"])
    /\ TokGoto(p, "pick")
    /\ UNCHANGED <<tokRows, todo, cur, held, secret, tokLocks, agesLeft, tokFaults, tokHistory>>

\* Mutant: a failed refresh leaves the connection as it was.
RefreshErrorIgnored(p, k) ==
    /\ p \in Beats /\ tpc[p] = "http" /\ cur[p] = k
    /\ TokGoto(p, "pick")
    /\ UNCHANGED <<tokRows, todo, cur, held, want, drawn, secret, spent, tokLocks, agesLeft,
                   overtaken>>

\* Any exception is caught and written down as an error of the connection.
RefreshError(p, k) ==
    /\ p \in Beats /\ tpc[p] = "http" /\ cur[p] = k
    /\ Draft(p, k, [held[p][k] EXCEPT !.status = "error"])
    /\ TokGoto(p, "pick")
    /\ UNCHANGED <<tokRows, todo, cur, held, drawn, secret, spent, tokLocks, agesLeft, overtaken>>

\* The call does not reach the provider, or the provider rejects the token.
RefreshFails(p, k) ==
    /\ RefreshError(p, k)
    /\ \/ UNCHANGED replayed
       \/ /\ secret[p] \notin valid[k] /\ secret[p] # 0
          /\ replayed' = [replayed EXCEPT ![k] = @ \union {secret[p]}]
    /\ UNCHANGED <<tokIssuer, tokFaults, lost>>

\* The provider has answered, and the answer is lost.
AnswerLost(p, k) ==
    /\ RefreshError(p, k)
    /\ TokFault
    /\ Exchange(k, secret[p])
    /\ lost' = [lost EXCEPT ![k] = @ \union {secret[p]}]
    /\ UNCHANGED replayed

CommitBeat(p) ==
    /\ p \in Beats /\ tpc[p] = "pick" /\ todo[p] = {}
    /\ CommitTok(p, "idle")

-----------------------------------------------------------------------------
(* connect.                                                                *)

\* The authorization code is exchanged for a grant of its own.
Authorize(p, k) ==
    /\ p \in Connects /\ tpc[p] = "idle" /\ Target[p] = k
    /\ minted' = [minted EXCEPT ![k] = @ + 1]
    /\ valid' = [valid EXCEPT ![k] = @ \union {minted[k] + 1}]
    /\ drawn' = [drawn EXCEPT ![p][k] = minted[k] + 1]
    /\ TokGoto(p, "store")
    /\ UNCHANGED <<tokRows, todo, cur, held, want, secret, spent, tokLocks, agesLeft,
                   tokFaults, tokHistory>>

\* The vault row is flushed first ...
StoreGrant(p, k) ==
    /\ p \in Connects /\ tpc[p] = "store" /\ Target[p] = k
    /\ LockVault(p, k)
    /\ TokGoto(p, "load")
    /\ UNCHANGED <<tokRows, todo, cur, held, want, drawn, secret, spent, rowLock, tokIssuer,
                   agesLeft, tokFaults, tokHistory>>

\* ... then the connection is read without a lock ...
LoadConnection(p, k) ==
    /\ p \in Connects /\ tpc[p] = "load" /\ Target[p] = k
    /\ LoadRow(p, k)
    /\ TokGoto(p, "bind")
    /\ UNCHANGED <<tokRows, todo, cur, want, drawn, secret, spent, tokLocks, tokIssuer,
                   agesLeft, tokFaults, tokHistory>>

\* Mutant: a new grant leaves the old status.
BindTokensOnly(p, k) ==
    /\ p \in Connects /\ tpc[p] = "bind" /\ Target[p] = k
    /\ LockRow(p, k)
    /\ Draft(p, k, [held[p][k] EXCEPT !.token = drawn[p][k], !.life = "fresh"])
    /\ TokGoto(p, "commit")
    /\ UNCHANGED <<tokRows, todo, cur, held, drawn, secret, spent, vaultLock, tokIssuer,
                   agesLeft, tokFaults, tokHistory>>

\* ... and flushed.
BindRow(p, k) ==
    /\ p \in Connects /\ tpc[p] = "bind" /\ Target[p] = k
    /\ LockRow(p, k)
    /\ Draft(p, k, [status |-> "connected", token |-> drawn[p][k], life |-> "fresh"])
    /\ TokGoto(p, "commit")
    /\ UNCHANGED <<tokRows, todo, cur, held, drawn, secret, spent, vaultLock, tokIssuer,
                   agesLeft, tokFaults, tokHistory>>

\* The provider refuses the event webhook: the caller rolls back.
BindFails(p) ==
    /\ p \in Connects /\ tpc[p] = "commit"
    /\ RollbackTok(p, "done")
    /\ UNCHANGED tokFaults

CommitConnect(p) ==
    /\ p \in Connects /\ tpc[p] = "commit"
    /\ CommitTok(p, "done")

-----------------------------------------------------------------------------
(* disconnect_connection and mark_connection_revoked.                      *)

\* The row is read, and the provider is told, without any lock.
LoadForDisconnect(p, k) ==
    /\ p \in Disconnects /\ tpc[p] = "idle" /\ Target[p] = k
    /\ LoadRow(p, k)
    /\ TokGoto(p, "wipe")
    /\ UNCHANGED <<tokRows, todo, cur, want, drawn, secret, spent, tokLocks, tokIssuer,
                   agesLeft, tokFaults, tokHistory>>

\* One flush writes both rows, in an order the code does not choose.
WipeRow(p, k) ==
    /\ p \in Disconnects /\ tpc[p] = "wipe" /\ Target[p] = k
    /\ LockRow(p, k)
    /\ Draft(p, k, RevokedRow)
    /\ UNCHANGED <<tokRows, tpc, todo, cur, held, drawn, secret, spent, vaultLock, tokIssuer,
                   agesLeft, tokFaults, tokHistory>>

\* Mutant: the tokens in the vault are left where they are.
WipeNothing(p, k) ==
    /\ p \in Disconnects /\ tpc[p] = "wipe" /\ Target[p] = k
    /\ held[p][k].token # 0
    /\ LockVault(p, k)
    /\ UNCHANGED <<tokRows, tpc, todo, cur, held, want, drawn, secret, spent, rowLock,
                   tokIssuer, agesLeft, tokFaults, tokHistory>>

WipeVault(p, k) ==
    /\ p \in Disconnects /\ tpc[p] = "wipe" /\ Target[p] = k
    /\ held[p][k].token # 0
    /\ LockVault(p, k)
    /\ drawn' = [drawn EXCEPT ![p][k] = 0]
    /\ UNCHANGED <<tokRows, tpc, todo, cur, held, want, secret, spent, rowLock, tokIssuer,
                   agesLeft, tokFaults, tokHistory>>

CommitDisconnect(p, k) ==
    /\ p \in Disconnects /\ tpc[p] = "wipe" /\ Target[p] = k
    /\ rowLock[k] = p
    /\ held[p][k].token # 0 => vaultLock[k] = p
    /\ CommitTok(p, "done")

-----------------------------------------------------------------------------
(* _check_connected_integrations.                                          *)

StartCheck(p) ==
    /\ p \in Checks /\ tpc[p] = "idle"
    /\ LET rows == {k \in Conns : connRow[k].status = "connected"}
       IN  /\ todo' = [todo EXCEPT ![p] = rows]
           /\ held' = [held EXCEPT ![p] =
                         [k \in Conns |-> IF k \in rows THEN connRow[k] ELSE Nobody]]
    /\ TokGoto(p, "test")
    /\ UNCHANGED <<tokRows, cur, want, drawn, secret, spent, tokLocks, tokIssuer, agesLeft,
                   tokFaults, tokHistory>>

\* test_connection with the tokens of the copy: an access token runs out with
\* time, and may be refused once its refresh token has been used.
Probe(p, k) ==
    /\ p \in Checks /\ tpc[p] = "test" /\ k \in todo[p]
    /\ todo' = [todo EXCEPT ![p] = @ \ {k}]
    /\ \/ Draft(p, k, held[p][k])
       \/ /\ held[p][k].token \notin valid[k] \/ held[p][k].life = "due"
          /\ Draft(p, k, [held[p][k] EXCEPT !.status = "expired"])
    /\ UNCHANGED <<tokRows, tpc, cur, held, drawn, secret, spent, tokLocks, tokIssuer,
                   agesLeft, tokFaults, tokHistory>>

\* The flush at commit updates every visited row.
FlushCheck(p, k) ==
    /\ p \in Checks /\ tpc[p] = "test" /\ todo[p] = {} /\ want[p][k] # Nobody
    /\ LockRow(p, k)
    /\ UNCHANGED <<tokRows, tokSession, vaultLock, tokIssuer, agesLeft, tokFaults, tokHistory>>

CommitCheck(p) ==
    /\ p \in Checks /\ tpc[p] = "test" /\ todo[p] = {}
    /\ \A k \in Conns : want[p][k] # Nobody => rowLock[k] = p
    /\ CommitTok(p, "done")

-----------------------------------------------------------------------------
(* Time, deadlocks and faults.                                             *)

\* A token comes within five minutes of its expiry.
Age(k) ==
    /\ agesLeft > 0 /\ agesLeft' = agesLeft - 1
    /\ connRow[k].life = "fresh"
    /\ connRow' = [connRow EXCEPT ![k].life = "due"]
    /\ UNCHANGED <<vault, tokSession, tokLocks, tokIssuer, tokFaults, tokHistory>>

\* The locks a session is waiting for.
WantsRow(p, k) ==
    \/ tpc[p] = "row" /\ cur[p] = k
    \/ tpc[p] \in {"bind", "wipe"} /\ Target[p] = k
    \/ tpc[p] = "test" /\ todo[p] = {} /\ want[p][k] # Nobody
WantsVault(p, k) ==
    \/ tpc[p] = "vault" /\ cur[p] = k
    \/ tpc[p] = "store" /\ Target[p] = k
    \/ tpc[p] = "wipe" /\ Target[p] = k /\ held[p][k].token # 0

TokWaits(p, q) ==
    /\ p # q
    /\ \E k \in Conns : \/ WantsRow(p, k) /\ rowLock[k] = q
                        \/ WantsVault(p, k) /\ vaultLock[k] = q

\* PostgreSQL aborts one of the transactions that wait for each other.  The
\* refresh task goes on with its other connections, in a transaction that is
\* already lost.
TokDeadlock(p) ==
    /\ \E q \in Sessions :
         /\ TokWaits(p, q)
         /\ TokWaits(q, p) \/ \E s \in Sessions : TokWaits(q, s) /\ TokWaits(s, p)
    /\ RollbackTok(p, IF p \in Beats THEN "aborted" ELSE "done")
    /\ UNCHANGED tokFaults

\* The next beat comes a minute later: a released lock has gone to the session
\* that waited for it, in the order of PostgreSQL's queue.
NextBeat(p) ==
    /\ tpc[p] = "aborted"
    /\ \A q \in Sessions, k \in Conns :
          /\ WantsRow(q, k) => rowLock[k] # Nobody
          /\ WantsVault(q, k) => vaultLock[k] # Nobody
    /\ TokGoto(p, "idle")
    /\ UNCHANGED <<tokRows, todo, cur, held, want, drawn, secret, spent, tokLocks, tokIssuer,
                   agesLeft, tokFaults, tokHistory>>

\* The process dies, or its database connection breaks.
TokCrash(p) ==
    /\ tpc[p] \notin {"idle", "aborted", "done"}
    /\ TokFault
    /\ RollbackTok(p, IF p \in Beats THEN "idle" ELSE "done")

-----------------------------------------------------------------------------
TokStep(p) ==
    \/ Scan(p) \/ CommitBeat(p)
    \/ BindFails(p) \/ CommitConnect(p)
    \/ StartCheck(p) \/ CommitCheck(p)
    \/ TokDeadlock(p) \/ NextBeat(p)
    \/ \E k \in Conns :
         \/ Pick(p, k) \/ LockConnection(p, k) \/ ReadVault(p, k)
         \/ Rotate(p, k) \/ RefreshFails(p, k)
         \/ Authorize(p, k) \/ StoreGrant(p, k) \/ LoadConnection(p, k) \/ BindRow(p, k)
         \/ LoadForDisconnect(p, k) \/ WipeRow(p, k) \/ WipeVault(p, k)
         \/ CommitDisconnect(p, k)
         \/ Probe(p, k) \/ FlushCheck(p, k)

TokNext ==
    \/ \E p \in Sessions : TokStep(p) \/ TokCrash(p)
    \/ \E p \in Sessions, k \in Conns : AnswerLost(p, k)
    \/ \E k \in Conns : Age(k)

\* Requests and tasks go on.  Crashes, lost answers and time need not happen.
TokFairness == \A p \in Sessions : WF_TokVars(TokStep(p))

TokSpec == TokInit /\ [][TokNext]_TokVars

-----------------------------------------------------------------------------
\* A refresh token is presented again only when the answer that replaced it
\* was lost: to a crash, a deadlock or the network, never to another session.
SpentOnce == \A k \in Conns : replayed[k] \subseteq lost[k]

Rotating(k, p) == vaultLock[k] = p /\ spent[p][k] = vault[k]

\* Whatever sessions overlap, the committed row and the vault hold the same
\* token, and it is one the provider accepts, or its successor was lost, or
\* the transaction about to replace it holds the lock.
GrantKept ==
    \A k \in Conns :
        /\ connRow[k].token = vault[k]
        /\ \/ vault[k] \in valid[k] \union lost[k] \union {0}
           \/ \E p \in Beats : Rotating(k, p)

\* Once a connection is revoked and wiped, no refresh or check that was under
\* way brings its tokens back: only a new connect does.
WipedUntilConnected ==
    [][\A k \in Conns :
         connRow[k].token = 0 /\ connRow'[k].token # 0 =>
             \E p \in Connects : Target[p] = k /\ CommitConnect(p)]_TokVars

\* A connection is marked expired while its tokens are fresh and accepted only
\* by a session whose copy of the row was out of date.
ExpiredInError ==
    \A k \in Conns :
        /\ connRow[k].status = "expired" /\ connRow[k].life = "fresh"
        /\ connRow[k].token \in valid[k]
        => overtaken[k] # {}

\* Every request ends and every due connection is refreshed, or marked: no
\* lock order of these transactions blocks them for ever, and no two beats
\* abort each other for ever.
TokSettles ==
    <>[](/\ \A p \in Sessions \ Beats : tpc[p] = "done"
         /\ \A k \in Conns : ~Selected(k))
=============================================================================
