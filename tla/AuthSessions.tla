---------------------------- MODULE AuthSessions ----------------------------
(***************************************************************************)
(* Refresh tokens of one user.  A login or a rotation mints a token; a     *)
(* rotation, a logout, a logout everywhere and a password reset revoke     *)
(* some.  Every request reads rows without a lock, flushes later and       *)
(* commits before it answers; its UPDATEs hold the locks of the token rows *)
(* from the flush on (in the order of their keys: no deadlock).            *)
(*                                                                         *)
(* A token has the name of the request that mints it.                      *)
(***************************************************************************)
EXTENDS Naturals

CONSTANTS
    Logins, Rotations, Logouts, LogoutAlls, Resets,  \* the requests
    AuthCasts, \* bound: sets of requests that take part in a behaviour together
    NoToken

Minters  == Logins \union Rotations
Sweepers == LogoutAlls \union Resets   \* they revoke every active token they see
Requests == Minters \union Logouts \union Sweepers

ASSUME AuthAssumption ==
    /\ Logins \cap Rotations = {} /\ Minters \cap (Logouts \union Sweepers) = {}
    /\ Logouts \cap Sweepers = {} /\ LogoutAlls \cap Resets = {}
    /\ NoToken \notin Requests
    /\ AuthCasts \subseteq SUBSET Requests

VARIABLES
    issued,   \* committed tokens
    revoked,  \* those whose revoked_at is set
    linkUsed, \* used_at of the password reset link is set
    sesPc,    \* what each request is doing
    shown,    \* the token a rotation or a logout presents
    doomed,   \* the tokens a request is going to revoke
    sesLock,  \* holder of each token row's lock
    family,   \* history: the login a token descends from
    beside,   \* history: requests that were open at the same time
    later     \* history: requests that began after this one had committed

AuthVars == <<issued, revoked, linkUsed, sesPc, shown, doomed, sesLock, family, beside, later>>

Live == issued \ revoked
Open == {r \in Requests : sesPc[r] \in {"read", "flushed"}}
Done == {r \in Requests : sesPc[r] = "done"}

AuthTypeOK ==
    /\ issued \subseteq Minters /\ revoked \subseteq Minters
    /\ linkUsed \in BOOLEAN
    /\ sesPc \in [Requests -> {"idle", "read", "flushed", "done", "refused"}]
    /\ shown \in [Requests -> Minters \union {NoToken}]
    /\ doomed \in [Requests -> SUBSET Minters]
    /\ sesLock \in [Minters -> Requests \union {NoToken}]
    /\ family \in [Minters -> Logins \union {NoToken}]
    /\ beside \in [Requests -> SUBSET Requests]
    /\ later \in [Requests -> SUBSET Requests]

AuthInit ==
    /\ issued = {} /\ revoked = {} /\ linkUsed = FALSE
    /\ \E cast \in AuthCasts :
          sesPc = [r \in Requests |-> IF r \in cast THEN "idle" ELSE "refused"]
    /\ shown = [r \in Requests |-> NoToken]
    /\ doomed = [r \in Requests |-> {}]
    /\ sesLock = [t \in Minters |-> NoToken]
    /\ family = [t \in Minters |-> NoToken]
    /\ beside = [r \in Requests |-> {}]
    /\ later = [r \in Requests |-> {}]

-----------------------------------------------------------------------------
\* The request's first read, in a transaction of its own.
Begin(r, token, dooms) ==
    /\ sesPc[r] = "idle"
    /\ sesPc' = [sesPc EXCEPT ![r] = "read"]
    /\ shown' = [shown EXCEPT ![r] = token]
    /\ doomed' = [doomed EXCEPT ![r] = dooms]
    /\ beside' = [q \in Requests |-> IF q = r THEN Open
                                     ELSE IF q \in Open THEN beside[q] \union {r}
                                     ELSE beside[q]]
    /\ later' = [q \in Requests |-> IF q \in Done THEN later[q] \union {r} ELSE later[q]]
    /\ UNCHANGED <<issued, revoked, linkUsed, sesLock>>

\* issue_refresh_token after the password was found right.
Login(r) ==
    /\ r \in Logins
    /\ Begin(r, NoToken, {})
    /\ family' = [family EXCEPT ![r] = r]

\* Mutant: the rotated token stays active.
RotateKeeping(r, t) ==
    /\ r \in Rotations /\ t \in Live
    /\ Begin(r, t, {})
    /\ family' = [family EXCEPT ![r] = family[t]]

\* rotate_refresh_token: anything but a live token is answered 401.
RotateToken(r, t) ==
    /\ r \in Rotations /\ t \in Live
    /\ Begin(r, t, {t})
    /\ family' = [family EXCEPT ![r] = family[t]]

\* revoke_refresh_token.
Logout(r, t) ==
    /\ r \in Logouts /\ t \in issued
    /\ Begin(r, t, {t} \cap Live)
    /\ UNCHANGED family

\* revoke_all_refresh_tokens.
LogoutAll(r) ==
    /\ r \in LogoutAlls
    /\ Begin(r, NoToken, Live)
    /\ UNCHANGED family

\* Mutant: a reset changes the password only.
ResetKeepingTokens(r) ==
    /\ r \in Resets /\ ~linkUsed
    /\ Begin(r, NoToken, {})
    /\ UNCHANGED family

\* reset_password: the link, then the active tokens.
ResetPassword(r) ==
    /\ r \in Resets /\ ~linkUsed
    /\ Begin(r, NoToken, Live)
    /\ UNCHANGED family

\* The UPDATEs wait for other requests that have written the same rows.
Flush(r) ==
    /\ sesPc[r] = "read"
    /\ \A t \in doomed[r] : sesLock[t] = NoToken
    /\ sesLock' = [t \in Minters |-> IF t \in doomed[r] THEN r ELSE sesLock[t]]
    /\ sesPc' = [sesPc EXCEPT ![r] = "flushed"]
    /\ UNCHANGED <<issued, revoked, linkUsed, shown, doomed, family, beside, later>>

EndRequest(r, pc) ==
    /\ sesPc' = [sesPc EXCEPT ![r] = pc]
    /\ sesLock' = [t \in Minters |-> IF sesLock[t] = r THEN NoToken ELSE sesLock[t]]
    /\ UNCHANGED <<shown, doomed, family, beside, later>>

CommitRequest(r) ==
    /\ sesPc[r] = "flushed"
    /\ issued' = IF r \in Minters THEN issued \union {r} ELSE issued
    /\ revoked' = revoked \union doomed[r]
    /\ linkUsed' = (linkUsed \/ r \in Resets)
    /\ EndRequest(r, "done")

\* The client goes away or the process dies.
AbandonRequest(r) ==
    /\ r \in Open
    /\ EndRequest(r, "refused")
    /\ UNCHANGED <<issued, revoked, linkUsed>>

AuthNext ==
    \E r \in Requests :
        \/ Login(r) \/ LogoutAll(r) \/ ResetPassword(r)
        \/ \E t \in Minters : RotateToken(r, t) \/ Logout(r, t)
        \/ Flush(r) \/ CommitRequest(r) \/ AbandonRequest(r)

AuthSpec == AuthInit /\ [][AuthNext]_AuthVars

-----------------------------------------------------------------------------
\* A refresh token has two successors, and a reset link two uses, only when the
\* two requests were open at the same time: a rotated token that turns up again
\* later is refused.
UsedTwiceOverlap ==
    \A r, q \in Done :
        /\ r # q
        /\ \/ r \in Rotations /\ q \in Rotations /\ shown[r] = shown[q]
           \/ r \in Resets /\ q \in Resets
        => q \in beside[r]

\* Two rotations of one token split the sign-in f for good.
Forked(f) ==
    \E r, q \in Rotations \cap Done :
        r # q /\ shown[r] = shown[q] /\ family[r] = f /\ q \in beside[r]

\* Refresh tokens are used once, and so a sign-in has one live token at most,
\* however its rotations, logouts and sweeps interleave: it has two only after
\* overlapping requests have rotated one of its tokens twice.
OneTimeTokens ==
    /\ UsedTwiceOverlap
    /\ \A t, u \in Live : t # u /\ family[t] = family[u] => Forked(family[t])

\* After a password reset or a logout everywhere that no login or rotation
\* overlapped, every live session comes from a login made afterwards: no
\* rotation of an earlier token, however late, brings a session back.
SweepEndsFamilies ==
    \A s \in Done \cap Sweepers :
        beside[s] \cap Minters = {} => \A t \in Live : family[t] \in later[s]
=============================================================================
