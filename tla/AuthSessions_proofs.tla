------------------------ MODULE AuthSessions_proofs ------------------------
(***************************************************************************)
(* Proofs about AuthSessions, for any set of requests, whichever of them   *)
(* take part: reused tokens, a second live token of a sign-in and sessions *)
(* that survive a sweep need requests that were open at the same time.     *)
(***************************************************************************)
EXTENDS AuthSessions, TLAPS

-----------------------------------------------------------------------------
(* The inductive invariant.                                                *)

Began == Open \union Done

\* Only a request that has committed has minted its token.
Signed == issued \subseteq Done

\* A rotation revokes what it presents, and a reset uses the link up.
Consumed ==
    /\ \A r \in Rotations \cap Began : doomed[r] = {shown[r]}
    /\ \A r \in Rotations \cap Done : shown[r] \in revoked
    /\ Resets \cap Done # {} => linkUsed

Conflict(r, q) ==
    \/ r \in Rotations /\ q \in Rotations /\ shown[r] = shown[q]
    \/ r \in Resets /\ q \in Resets

\* OneTimeTokens, for requests that have not committed yet as well.
Overlapped == \A r, q \in Began : r # q /\ Conflict(r, q) => q \in beside[r]

\* A sweep beside which nothing is minted dooms every live token; afterwards
\* only later logins have descendants.
Swept ==
    \A s \in Sweepers : beside[s] \cap Minters = {} =>
        /\ s \in Open => Live \subseteq doomed[s] /\ Open \cap Minters = {}
        /\ s \in Done => \A t \in Live \union (Open \cap Minters) : family[t] \in later[s]

AuthInv == AuthTypeOK /\ Signed /\ Consumed /\ Overlapped /\ Swept

-----------------------------------------------------------------------------
(* What the steps have in common.                                          *)

\* Beginning a request changes no other request's step, token or verdict.
LEMMA BeginFacts ==
    ASSUME AuthTypeOK, NEW r \in Requests, NEW token \in Minters \union {NoToken},
           NEW dooms \in SUBSET Minters, Begin(r, token, dooms)
    PROVE  /\ r \notin Began /\ r \notin Done'
           /\ Open' = Open \union {r} /\ Done' = Done /\ Live' = Live
           /\ shown' \in [Requests -> Minters \union {NoToken}]
           /\ shown'[r] = token /\ doomed'[r] = dooms
           /\ \A q \in Requests \ {r} : shown'[q] = shown[q] /\ doomed'[q] = doomed[q]
           /\ beside'[r] = Open
           /\ \A q \in Open : beside'[q] = beside[q] \union {r}
           /\ \A q \in Done : beside'[q] = beside[q] /\ later'[q] = later[q] \union {r}
BY DEF Begin, AuthTypeOK, Open, Done, Began, Live

\* Every action keeps the types.
LEMMA AuthTypeStep == AuthTypeOK /\ [AuthNext]_AuthVars => AuthTypeOK'
<1> SUFFICES ASSUME AuthTypeOK, [AuthNext]_AuthVars PROVE AuthTypeOK'
  OBVIOUS
<1> USE AuthAssumption
<1>1. ASSUME NEW r \in Requests, NEW token \in Minters \union {NoToken},
             NEW dooms \in SUBSET Minters, Begin(r, token, dooms),
             family' \in [Minters -> Logins \union {NoToken}]
      PROVE AuthTypeOK'
  <2>1. beside' \in [Requests -> SUBSET Requests]
    BY <1>1 DEF Begin, AuthTypeOK, Open
  <2>2. later' \in [Requests -> SUBSET Requests]
    BY <1>1 DEF Begin, AuthTypeOK, Done
  <2> QED
    BY <1>1, <2>1, <2>2 DEF Begin, AuthTypeOK
<1>2. ASSUME NEW r \in Requests, Login(r) PROVE AuthTypeOK'
  <2>1. family' \in [Minters -> Logins \union {NoToken}]
    BY <1>2 DEF Login, AuthTypeOK
  <2> QED
    BY <1>1, <1>2, <2>1 DEF Login
<1>3. ASSUME NEW r \in Requests, NEW t \in Minters, RotateToken(r, t) PROVE AuthTypeOK'
  <2>1. family' \in [Minters -> Logins \union {NoToken}]
    BY <1>3 DEF RotateToken, AuthTypeOK
  <2> QED
    BY <1>1, <1>3, <2>1 DEF RotateToken
<1>4. ASSUME NEW r \in Requests, NEW t \in Minters, Logout(r, t) PROVE AuthTypeOK'
  BY <1>1, <1>4 DEF Logout, AuthTypeOK
<1>5. ASSUME NEW r \in Requests, LogoutAll(r) \/ ResetPassword(r) PROVE AuthTypeOK'
  <2>1. Live \in SUBSET Minters
    BY DEF Live, AuthTypeOK
  <2>2. Begin(r, NoToken, Live)
    BY <1>5 DEF LogoutAll, ResetPassword
  <2>3. family' \in [Minters -> Logins \union {NoToken}]
    BY <1>5 DEF LogoutAll, ResetPassword, AuthTypeOK
  <2> QED
    BY <1>1, <2>1, <2>2, <2>3
<1>6. ASSUME NEW r \in Requests, Flush(r) PROVE AuthTypeOK'
  BY <1>6 DEF Flush, AuthTypeOK
<1>7. ASSUME NEW r \in Requests, CommitRequest(r) PROVE AuthTypeOK'
  BY <1>7 DEF CommitRequest, EndRequest, AuthTypeOK
<1>8. ASSUME NEW r \in Requests, AbandonRequest(r) PROVE AuthTypeOK'
  BY <1>8 DEF AbandonRequest, EndRequest, AuthTypeOK
<1>9. CASE UNCHANGED AuthVars
  BY <1>9 DEF AuthVars, AuthTypeOK
<1> QED
  BY <1>2, <1>3, <1>4, <1>5, <1>6, <1>7, <1>8, <1>9 DEF AuthNext

-----------------------------------------------------------------------------
(* The invariant is inductive.                                             *)

LEMMA AuthInitInv == AuthInit => AuthInv
<1> SUFFICES ASSUME AuthInit PROVE AuthInv
  OBVIOUS
<1> USE AuthAssumption
<1>1. Open = {} /\ Done = {}
  BY DEF AuthInit, Open, Done
<1>2. AuthTypeOK
  BY DEF AuthInit, AuthTypeOK
<1>3. Signed /\ Consumed /\ Overlapped
  BY <1>1 DEF AuthInit, Signed, Consumed, Overlapped, Began
<1>4. Swept
  BY <1>1 DEF Swept
<1> QED
  BY <1>2, <1>3, <1>4 DEF AuthInv

\* A step that begins a request keeps the parts about tokens used once: what a
\* committed rotation has presented is no longer live.
LEMMA BeginOnce ==
    ASSUME AuthInv, NEW r \in Requests, NEW token \in Minters \union {NoToken},
           NEW dooms \in SUBSET Minters, Begin(r, token, dooms),
           r \in Rotations => dooms = {token} /\ token \in Live,
           r \in Resets => ~linkUsed
    PROVE  Signed' /\ Consumed' /\ Overlapped'
<1> USE AuthAssumption DEF AuthInv
<1>1. issued' = issued /\ revoked' = revoked /\ linkUsed' = linkUsed
  BY DEF Begin
<1>2. Began' = Began \union {r} /\ Done' = Done
  BY BeginFacts DEF Began
<1>3. Signed'
  BY <1>1, <1>2 DEF Signed
<1>4. Consumed'
  <2>1. \A q \in Rotations \cap Began' : doomed'[q] = {shown'[q]}
    BY <1>2, BeginFacts DEF Consumed, Began, Open, Done
  <2>2. \A q \in Rotations \cap Done' : shown'[q] \in revoked'
    BY <1>1, <1>2, BeginFacts DEF Consumed, Began, Open, Done
  <2> QED
    BY <1>1, <1>2, <2>1, <2>2 DEF Consumed
<1>5. \A q \in Done : ~Conflict(r, q)' /\ ~Conflict(q, r)'
  <2> SUFFICES ASSUME NEW q \in Done PROVE ~Conflict(r, q)' /\ ~Conflict(q, r)'
    OBVIOUS
  <2>1. q \in Requests \ {r}
    BY BeginFacts DEF Done, Began
  <2>2. shown'[q] = shown[q] /\ shown'[r] = token
    BY <2>1, BeginFacts
  <2> QED
    BY <2>2 DEF Conflict, Consumed, Live
<1>6. Overlapped'
  <2> SUFFICES ASSUME NEW p \in Began', NEW q \in Began', p # q, Conflict(p, q)'
               PROVE q \in beside'[p]
    BY DEF Overlapped
  <2>1. CASE p = r
    BY <2>1, <1>2, <1>5, BeginFacts DEF Began
  <2>2. CASE q = r
    BY <2>2, <1>2, <1>5, BeginFacts DEF Began
  <2>3. CASE p # r /\ q # r
    <3>1. p \in Began /\ q \in Began /\ p \in Requests \ {r} /\ q \in Requests \ {r}
      BY <2>3, <1>2 DEF Began, Open, Done
    <3>2. Conflict(p, q)
      BY <3>1, BeginFacts DEF Conflict
    <3> QED
      BY <3>1, <3>2, BeginFacts DEF Overlapped, Began
  <2> QED
    BY <2>1, <2>2, <2>3
<1> QED
  BY <1>3, <1>4, <1>6

\* A step that begins a request keeps the verdict about sweeps, when a token it
\* is going to mint descends from itself or from a live token.
LEMMA BeginSwept ==
    ASSUME AuthInv, NEW r \in Requests, NEW token \in Minters \union {NoToken},
           NEW dooms \in SUBSET Minters, Begin(r, token, dooms),
           r \in Sweepers => dooms = Live /\ family' = family,
           \A t \in Minters \ {r} : family'[t] = family[t],
           r \in Minters => family'[r] = r \/ \E t \in Live : family'[r] = family[t]
    PROVE  Swept'
<1> USE AuthAssumption DEF AuthInv
<1> SUFFICES ASSUME NEW s \in Sweepers, beside'[s] \cap Minters = {}
             PROVE /\ s \in Open' => Live' \subseteq doomed'[s] /\ Open' \cap Minters = {}
                   /\ s \in Done' => \A t \in Live' \union (Open' \cap Minters) :
                                        family'[t] \in later'[s]
  BY DEF Swept
<1>0. s \in Requests /\ s \notin Minters /\ Live \subseteq Minters /\ r \notin Live
  BY BeginFacts DEF Requests, Live, AuthTypeOK, Signed, Began
<1>1. ASSUME s \in Open' PROVE Live' \subseteq doomed'[s] /\ Open' \cap Minters = {}
  <2>1. CASE s = r
    BY <2>1, <1>0, BeginFacts
  <2>2. CASE s # r
    <3>1. s \in Open /\ beside'[s] = beside[s] \union {r}
      BY <1>1, <2>2, BeginFacts
    <3>2. r \notin Minters /\ beside[s] \cap Minters = {}
      BY <3>1
    <3>3. Live \subseteq doomed[s] /\ Open \cap Minters = {}
      BY <3>1, <3>2 DEF Swept
    <3> QED
      BY <3>2, <3>3, <2>2, <1>0, BeginFacts
  <2> QED
    BY <2>1, <2>2
<1>2. ASSUME s \in Done', NEW t \in Live' \union (Open' \cap Minters)
      PROVE family'[t] \in later'[s]
  <2>1. s \in Done /\ beside'[s] = beside[s] /\ later'[s] = later[s] \union {r}
    BY <1>2, BeginFacts
  <2>2. \A u \in Live \union (Open \cap Minters) : family[u] \in later[s]
    BY <2>1 DEF Swept
  <2>3. CASE t = r
    BY <2>1, <2>2, <2>3, <1>0, <1>2, BeginFacts
  <2>4. CASE t # r
    <3>1. t \in Live \union (Open \cap Minters) /\ t \in Minters
      BY <2>4, <1>2, <1>0, BeginFacts
    <3> QED
      BY <3>1, <2>1, <2>2, <2>4
  <2> QED
    BY <2>3, <2>4
<1> QED
  BY <1>1, <1>2

LEMMA CommitKeepsInv ==
    ASSUME AuthInv, NEW r \in Requests, CommitRequest(r)
    PROVE  Signed' /\ Consumed' /\ Overlapped' /\ Swept'
<1> USE AuthAssumption DEF AuthInv
<1>1. r \in Open /\ Open' = Open \ {r} /\ Done' = Done \union {r} /\ Began' = Began
  BY DEF CommitRequest, EndRequest, AuthTypeOK, Open, Done, Began
<1>2. /\ UNCHANGED <<shown, doomed, family, beside, later>>
      /\ revoked' = revoked \union doomed[r]
      /\ issued' = IF r \in Minters THEN issued \union {r} ELSE issued
      /\ linkUsed' = (linkUsed \/ r \in Resets)
  BY DEF CommitRequest, EndRequest
<1>3. Signed'
  BY <1>1, <1>2 DEF Signed
<1>4. Consumed'
  <2>1. \A q \in Rotations \cap Began' : doomed'[q] = {shown'[q]}
    BY <1>1, <1>2 DEF Consumed
  <2>2. \A q \in Rotations \cap Done' : shown'[q] \in revoked'
    BY <1>1, <1>2 DEF Consumed, Began
  <2>3. Resets \cap Done' # {} => linkUsed'
    <3>1. CASE r \in Resets
      BY <3>1, <1>2
    <3>2. CASE r \notin Resets
      <4> SUFFICES ASSUME Resets \cap Done' # {} PROVE linkUsed'
        OBVIOUS
      <4>1. Resets \cap Done # {}
        BY <3>2, <1>1
      <4>2. linkUsed
        BY <4>1, Zenon DEF Consumed
      <4> QED
        BY <4>2, <1>2
    <3> QED
      BY <3>1, <3>2
  <2> QED
    BY <2>1, <2>2, <2>3 DEF Consumed
<1>5. Overlapped'
  BY <1>1, <1>2 DEF Overlapped, Conflict
<1>6. Swept'
  <2> SUFFICES ASSUME NEW s \in Sweepers, beside[s] \cap Minters = {}
               PROVE /\ s \in Open' => Live' \subseteq doomed[s] /\ Open' \cap Minters = {}
                     /\ s \in Done' => \A t \in Live' \union (Open' \cap Minters) :
                                          family[t] \in later[s]
    BY <1>2 DEF Swept
  <2>1. /\ s \in Open => Live \subseteq doomed[s] /\ Open \cap Minters = {}
        /\ s \in Done => \A t \in Live \union (Open \cap Minters) : family[t] \in later[s]
    BY DEF Swept
  <2>2. Live' \subseteq (Live \ doomed[r]) \union ({r} \cap Minters)
    BY <1>2 DEF Live
  <2>3. s \notin Minters
    OBVIOUS
  <2>4. CASE s = r
    BY <2>1, <2>2, <2>3, <2>4, <1>1
  <2>5. CASE s # r
    BY <2>1, <2>2, <2>5, <1>1
  <2> QED
    BY <2>4, <2>5
<1> QED
  BY <1>3, <1>4, <1>5, <1>6

\* Flushes, abandoned requests and stutters.
LEMMA OtherKeepInv ==
    ASSUME AuthInv, UNCHANGED <<issued, revoked, linkUsed, shown, doomed, family, beside, later>>,
           Open' \subseteq Open, Done' = Done
    PROVE  Signed' /\ Consumed' /\ Overlapped' /\ Swept'
<1> USE DEF AuthInv
<1>1. Began' \subseteq Began /\ Live' = Live
  BY DEF Began, Live
<1>2. Signed' /\ Consumed'
  BY <1>1 DEF Signed, Consumed
<1>3. Overlapped'
  BY <1>1 DEF Overlapped, Conflict
<1>4. Swept'
  BY <1>1 DEF Swept
<1> QED
  BY <1>2, <1>3, <1>4

LEMMA AuthStepInv == AuthInv /\ [AuthNext]_AuthVars => AuthInv'
<1> SUFFICES ASSUME AuthInv, [AuthNext]_AuthVars PROVE AuthInv'
  OBVIOUS
<1> USE AuthAssumption
<1>0. AuthTypeOK /\ AuthTypeOK'
  BY AuthTypeStep DEF AuthInv
<1>1. Live \in SUBSET Minters /\ Live \subseteq issued
  BY <1>0 DEF Live, AuthTypeOK
<1> SUFFICES Signed' /\ Consumed' /\ Overlapped' /\ Swept'
  BY <1>0 DEF AuthInv
<1>2. ASSUME NEW r \in Requests, Login(r) PROVE Signed' /\ Consumed' /\ Overlapped' /\ Swept'
  <2>1. /\ r \in Minters /\ r \notin Rotations /\ r \notin Resets /\ r \notin Sweepers
        /\ Begin(r, NoToken, {}) /\ family' = [family EXCEPT ![r] = r]
    BY <1>2 DEF Login, Minters, Sweepers
  <2>2. family'[r] = r /\ \A t \in Minters \ {r} : family'[t] = family[t]
    BY <2>1, <1>0 DEF AuthTypeOK
  <2>3. Signed' /\ Consumed' /\ Overlapped'
    BY <2>1, BeginOnce
  <2>4. Swept'
    BY <2>1, <2>2, BeginSwept
  <2> QED
    BY <2>3, <2>4
<1>3. ASSUME NEW r \in Requests, NEW t \in Minters, RotateToken(r, t)
      PROVE Signed' /\ Consumed' /\ Overlapped' /\ Swept'
  <2>1. /\ r \in Minters /\ r \notin Resets /\ r \notin Sweepers /\ t \in Live
        /\ Begin(r, t, {t}) /\ family' = [family EXCEPT ![r] = family[t]]
    BY <1>3 DEF RotateToken, Minters, Sweepers
  <2>2. family'[r] = family[t] /\ \A u \in Minters \ {r} : family'[u] = family[u]
    BY <2>1, <1>0 DEF AuthTypeOK
  <2>3. Signed' /\ Consumed' /\ Overlapped'
    BY <2>1, BeginOnce
  <2>4. Swept'
    BY <2>1, <2>2, BeginSwept
  <2> QED
    BY <2>3, <2>4
<1>4. ASSUME NEW r \in Requests, NEW t \in Minters, Logout(r, t)
      PROVE Signed' /\ Consumed' /\ Overlapped' /\ Swept'
  <2>1. /\ r \notin Minters /\ r \notin Resets /\ r \notin Sweepers
        /\ Begin(r, t, {t} \cap Live) /\ family' = family
    BY <1>4 DEF Logout, Sweepers
  <2>2. r \notin Rotations
    BY <2>1 DEF Minters
  <2>3. Signed' /\ Consumed' /\ Overlapped'
    BY <2>1, <2>2, BeginOnce
  <2>4. Swept'
    BY <2>1, BeginSwept
  <2> QED
    BY <2>3, <2>4
<1>5. ASSUME NEW r \in Requests, LogoutAll(r) \/ ResetPassword(r)
      PROVE Signed' /\ Consumed' /\ Overlapped' /\ Swept'
  <2>1. /\ r \in Sweepers /\ r \notin Minters /\ (r \in Resets => ~linkUsed)
        /\ Begin(r, NoToken, Live) /\ family' = family
    BY <1>5 DEF LogoutAll, ResetPassword, Sweepers
  <2>2. r \notin Rotations
    BY <2>1 DEF Minters
  <2>3. Signed' /\ Consumed' /\ Overlapped'
    BY <2>1, <2>2, <1>1, BeginOnce
  <2>4. Swept'
    BY <2>1, <1>1, BeginSwept
  <2> QED
    BY <2>3, <2>4
<1>6. ASSUME NEW r \in Requests, Flush(r) PROVE Signed' /\ Consumed' /\ Overlapped' /\ Swept'
  <2>1. Open' = Open /\ Done' = Done
    BY <1>0, <1>6 DEF Flush, AuthTypeOK, Open, Done
  <2> QED
    BY <2>1, <1>6, OtherKeepInv DEF Flush
<1>7. ASSUME NEW r \in Requests, CommitRequest(r)
      PROVE Signed' /\ Consumed' /\ Overlapped' /\ Swept'
  BY <1>7, CommitKeepsInv
<1>8. ASSUME NEW r \in Requests, AbandonRequest(r)
      PROVE Signed' /\ Consumed' /\ Overlapped' /\ Swept'
  <2>1. Open' \subseteq Open /\ Done' = Done
    BY <1>0, <1>8 DEF AbandonRequest, EndRequest, AuthTypeOK, Open, Done
  <2> QED
    BY <2>1, <1>8, OtherKeepInv DEF AbandonRequest, EndRequest
<1>9. CASE UNCHANGED AuthVars
  <2>1. Open' \subseteq Open /\ Done' = Done
    BY <1>9 DEF AuthVars, Open, Done
  <2> QED
    BY <2>1, <1>9, OtherKeepInv DEF AuthVars
<1> QED
  BY <1>2, <1>3, <1>4, <1>5, <1>6, <1>7, <1>8, <1>9 DEF AuthNext

-----------------------------------------------------------------------------
(* Sign-ins: the tokens that descend from one login.                       *)

\* A token of a rotation belongs to the sign-in of the token it presented, and
\* to one whose login has committed.
Lineage ==
    /\ \A r \in Logins \cap Began : family[r] = r
    /\ \A r \in Rotations \cap Began :
          /\ shown[r] \in issued /\ family[r] = family[shown[r]]
          /\ family[r] \in Logins \cap issued

Spent(t) == \E p \in Rotations \cap Done : shown[p] = t
RotatingIn(f) == {r \in Rotations \cap Open : family[r] = f}
LiveIn(f) == {t \in Live : family[t] = f}

\* As long as no token of the sign-in was rotated twice it has one live token,
\* and of the rotations under way those commit without a second use of their
\* token that present that one.
Single(f) ==
    /\ \A t, u \in LiveIn(f) : t = u
    /\ \A q \in RotatingIn(f), u \in LiveIn(f) : u = shown[q] \/ Spent(shown[q])
    /\ \A p, q \in RotatingIn(f) : shown[p] = shown[q] \/ Spent(shown[p]) \/ Spent(shown[q])

Families == Lineage /\ \A f \in Logins : Forked(f) \/ Single(f)

\* Two rotations of one token have overlapped.
LEMMA TwiceForks ==
    ASSUME AuthInv, Lineage, NEW r \in Rotations \cap Done, NEW q \in Rotations \cap Done,
           r # q, shown[r] = shown[q]
    PROVE  Forked(family[r])
BY DEF Forked, AuthInv, Overlapped, Conflict, Began

\* What a sign-in is does not depend on requests that only flush or give up.
LEMMA FamiliesKept ==
    ASSUME AuthInv, Families, UNCHANGED <<issued, shown, family, beside>>,
           Live' \subseteq Live, Open' \subseteq Open, Began' \subseteq Began,
           Rotations \cap Done' = Rotations \cap Done
    PROVE  Families'
<1>1. Lineage'
  BY DEF Families, Lineage
<1>2. ASSUME NEW f \in Logins PROVE (Forked(f) \/ Single(f))'
  <2>1. Forked(f) => Forked(f)'
    BY DEF Forked
  <2>2. RotatingIn(f)' \subseteq RotatingIn(f) /\ LiveIn(f)' \subseteq LiveIn(f)
    BY DEF RotatingIn, LiveIn
  <2>3. \A t : Spent(t)' <=> Spent(t)
    BY DEF Spent
  <2>4. Single(f) => Single(f)'
    BY <2>2, <2>3 DEF Single
  <2> QED
    BY <2>1, <2>4 DEF Families
<1> QED
  BY <1>1, <1>2 DEF Families

\* A login opens a sign-in of its own; a rotation presents a live token of the
\* one it joins; the other requests join none.
LEMMA BeginFamilies ==
    ASSUME AuthInv, Families, NEW r \in Requests, NEW token \in Minters \union {NoToken},
           NEW dooms \in SUBSET Minters, Begin(r, token, dooms),
           \A t \in Minters \ {r} : family'[t] = family[t],
           r \in Logins => family'[r] = r,
           r \in Rotations => token \in Live /\ family'[r] = family[token]
    PROVE  Families'
<1> USE AuthAssumption
<1>0. AuthTypeOK /\ Signed /\ Live \subseteq Minters /\ Live \subseteq issued
  BY DEF AuthInv, Live, AuthTypeOK
<1>1. /\ issued' = issued /\ Live' = Live
      /\ Began' = Began \union {r} /\ Done' = Done /\ r \notin Began
      /\ r \notin issued /\ r \notin Live /\ r \notin Done
  <2>1. issued' = issued
    BY DEF Begin
  <2>2. r \notin Began /\ Live' = Live /\ Done' = Done /\ Open' = Open \union {r}
    BY <1>0, BeginFacts
  <2> QED
    BY <2>1, <2>2, <1>0 DEF Began, Signed
<1>2. /\ shown'[r] = token
      /\ \A q \in Requests \ {r} : shown'[q] = shown[q]
      /\ \A q \in Done : beside'[q] = beside[q]
  BY <1>0, BeginFacts
<1>3. \A t \in issued : t # r /\ family'[t] = family[t] /\ t \in Began /\ t \in Minters
  BY <1>0, <1>1 DEF Signed, Began, AuthTypeOK
<1>4. \A t \in issued : family[t] \in Logins \cap issued
  BY <1>3 DEF Families, Lineage, Minters
<1>5. Lineage'
  <2>1. \A q \in Logins \cap Began' : family'[q] = q
    BY <1>1 DEF Families, Lineage, Minters
  <2>2. ASSUME NEW q \in Rotations \cap Began'
        PROVE /\ shown'[q] \in issued' /\ family'[q] = family'[shown'[q]]
              /\ family'[q] \in Logins \cap issued'
    <3>1. CASE q = r
      BY <3>1, <1>0, <1>1, <1>2, <1>3, <1>4
    <3>2. CASE q # r
      <4>1. q \in Rotations \cap Began /\ q \in Minters \ {r} /\ q \in Requests \ {r}
        BY <3>2, <1>1 DEF Minters, Requests
      <4>2. /\ shown[q] \in issued /\ family[q] = family[shown[q]]
            /\ family[q] \in Logins \cap issued
        BY <4>1 DEF Families, Lineage
      <4> QED
        BY <4>1, <4>2, <1>1, <1>2, <1>3
    <3> QED
      BY <3>1, <3>2
  <2> QED
    BY <2>1, <2>2 DEF Lineage
<1>6. ASSUME NEW f \in Logins PROVE (Forked(f) \/ Single(f))'
  <2>1. \A q \in Rotations \cap Done : /\ q # r /\ shown'[q] = shown[q]
                                       /\ family'[q] = family[q] /\ beside'[q] = beside[q]
    BY <1>1, <1>2 DEF Requests, Minters
  <2>2. Forked(f) => Forked(f)'
    BY <2>1, <1>1 DEF Forked
  <2>3. \A q : Spent(shown[q])' <=> Spent(shown'[q])
    BY <2>1, <1>1 DEF Spent
  <2>4. LiveIn(f)' = LiveIn(f)
    BY <1>0, <1>1, <1>3 DEF LiveIn
  <2>5. RotatingIn(f)' \subseteq RotatingIn(f) \union {r}
    BY <1>0, <1>2, BeginFacts DEF RotatingIn, Minters
  <2>6. \A q \in RotatingIn(f) : q \in Requests \ {r}
    BY <1>1 DEF RotatingIn, Began, Requests, Minters
  <2>7. r \in RotatingIn(f)' => shown'[r] \in LiveIn(f)
    BY <1>2 DEF RotatingIn, LiveIn
  <2>8. ASSUME Single(f) PROVE Single(f)'
    <3>1. \A t, u \in LiveIn(f)' : t = u
      BY <2>8, <2>4 DEF Single
    <3>2. ASSUME NEW q \in RotatingIn(f)', NEW u \in LiveIn(f)'
          PROVE u = shown'[q] \/ Spent(shown'[q])
      <4>1. CASE q = r
        BY <4>1, <2>4, <2>7, <2>8 DEF Single
      <4>2. CASE q # r
        BY <4>2, <2>4, <2>5, <2>6, <2>8, <1>2 DEF Single
      <4> QED
        BY <4>1, <4>2
    <3>3. ASSUME NEW p \in RotatingIn(f)', NEW q \in RotatingIn(f)'
          PROVE shown'[p] = shown'[q] \/ Spent(shown'[p]) \/ Spent(shown'[q])
      <4>1. CASE p = r /\ q = r
        BY <4>1
      <4>2. CASE p = r /\ q # r
        <5>1. q \in RotatingIn(f) /\ shown'[q] = shown[q] /\ shown'[p] \in LiveIn(f)
          BY <4>2, <2>5, <2>6, <2>7, <1>2
        <5> QED
          BY <5>1, <2>8 DEF Single
      <4>3. CASE p # r /\ q = r
        <5>1. p \in RotatingIn(f) /\ shown'[p] = shown[p] /\ shown'[q] \in LiveIn(f)
          BY <4>3, <2>5, <2>6, <2>7, <1>2
        <5> QED
          BY <5>1, <2>8 DEF Single
      <4>4. CASE p # r /\ q # r
        BY <4>4, <2>5, <2>6, <2>8, <1>2 DEF Single
      <4> QED
        BY <4>1, <4>2, <4>3, <4>4
    <3> QED
      BY <3>1, <3>2, <3>3, <2>3 DEF Single
  <2> QED
    BY <2>2, <2>8 DEF Families
<1> QED
  BY <1>5, <1>6 DEF Families

\* A commit ends the sign-in's live token, or splits the sign-in.
LEMMA CommitFamilies ==
    ASSUME AuthInv, Families, NEW r \in Requests, CommitRequest(r)
    PROVE  Families'
<1> USE AuthAssumption
<1>0. AuthTypeOK /\ Signed /\ Consumed /\ Live \subseteq Minters /\ Live \subseteq issued
  BY DEF AuthInv, Live, AuthTypeOK
<1>1. /\ r \in Open /\ Open' = Open \ {r} /\ Done' = Done \union {r} /\ Began' = Began
      /\ r \notin Done /\ r \in Began
  BY <1>0 DEF CommitRequest, EndRequest, AuthTypeOK, Open, Done, Began
<1>2. /\ UNCHANGED <<shown, doomed, family, beside>>
      /\ revoked' = revoked \union doomed[r]
      /\ issued' = IF r \in Minters THEN issued \union {r} ELSE issued
  BY DEF CommitRequest, EndRequest
<1>3. issued \subseteq issued' /\ r \notin issued
  BY <1>0, <1>1, <1>2 DEF Signed
<1>4. Lineage'
  BY <1>1, <1>2, <1>3 DEF Families, Lineage
<1>5. \A f : Forked(f) => Forked(f)'
  BY <1>1, <1>2 DEF Forked
<1>6. \A t : Spent(t) => Spent(t)'
  BY <1>1, <1>2 DEF Spent
<1>7. \A f \in Logins : /\ RotatingIn(f)' = RotatingIn(f) \ {r}
                        /\ LiveIn(f)' \subseteq (LiveIn(f) \ doomed[r]) \union
                              (IF r \in Minters /\ family[r] = f THEN {r} ELSE {})
  BY <1>1, <1>2 DEF RotatingIn, LiveIn, Live
<1>8. ASSUME NEW f \in Logins, Single(f), ~(r \in Minters /\ family[r] = f)
      PROVE Single(f)'
  <2>1. LiveIn(f)' \subseteq LiveIn(f) /\ RotatingIn(f)' \subseteq RotatingIn(f)
    BY <1>7, <1>8
  <2> QED
    BY <2>1, <1>2, <1>6, <1>8 DEF Single
<1>9. ASSUME r \in Logins PROVE Single(r)'
  <2>1. r \in Minters /\ family[r] = r
    BY <1>1, <1>9 DEF Families, Lineage, Minters
  <2>2. \A q \in Rotations \cap Began : family[q] # r
    BY <1>3 DEF Families, Lineage
  <2>3. \A q \in Logins \cap Began : family[q] = q
    BY DEF Families, Lineage
  <2>4. LiveIn(r) = {}
    BY <2>2, <2>3, <1>0, <1>3 DEF LiveIn, Signed, Began, Minters
  <2>5. RotatingIn(r)' = {}
    BY <2>2, <1>7, <1>9 DEF RotatingIn, Began
  <2>6. LiveIn(r)' \subseteq {r}
    BY <2>1, <2>4, <1>7, <1>9
  <2> QED
    BY <2>5, <2>6 DEF Single
<1>10. ASSUME r \in Rotations, NEW f \in Logins, family[r] = f, Single(f)
       PROVE Forked(f)' \/ Single(f)'
  <2>1. r \in RotatingIn(f) /\ doomed[r] = {shown[r]} /\ r \in Minters
    BY <1>0, <1>1, <1>10 DEF RotatingIn, Consumed, Minters
  <2>2. CASE Spent(shown[r])
    <3>1. PICK p \in Rotations \cap Done : shown[p] = shown[r]
      BY <2>2 DEF Spent
    <3>2. p # r /\ p \in Began
      BY <1>1 DEF Began
    <3>3. p \in beside[r]
      BY <3>1, <3>2, <1>1, <1>10 DEF AuthInv, Overlapped, Conflict
    <3> QED
      BY <3>1, <3>2, <3>3, <1>1, <1>2, <1>10 DEF Forked
  <2>3. CASE ~Spent(shown[r])
    <3>1. LiveIn(f) \subseteq {shown[r]}
      BY <2>1, <2>3, <1>10 DEF Single
    <3>2. LiveIn(f)' \subseteq {r}
      BY <3>1, <2>1, <1>7, <1>10
    <3>3. Spent(shown[r])'
      BY <1>1, <1>2, <1>10 DEF Spent
    <3>4. ASSUME NEW q \in RotatingIn(f)' PROVE Spent(shown[q])'
      <4>1. q \in RotatingIn(f)
        BY <1>7
      <4>2. shown[q] = shown[r] \/ Spent(shown[q])
        BY <4>1, <2>1, <2>3, <1>10 DEF Single
      <4> QED
        BY <4>2, <3>3, <1>2, <1>6 DEF Spent
    <3>5. Single(f)'
      BY <3>2, <3>4 DEF Single
    <3> QED
      BY <3>5
  <2> QED
    BY <2>2, <2>3
<1>11. ASSUME NEW f \in Logins PROVE (Forked(f) \/ Single(f))'
  <2>1. CASE Forked(f)
    BY <2>1, <1>5
  <2>2. CASE r \in Logins /\ f = r
    BY <2>2, <1>9
  <2>3. CASE r \in Rotations /\ family[r] = f
    BY <2>3, <1>5, <1>10 DEF Families
  <2>4. CASE ~(r \in Minters /\ family[r] = f)
    BY <2>4, <1>5, <1>8 DEF Families
  <2> QED
    BY <2>2, <2>3, <2>4, <1>1 DEF Minters, Families, Lineage
<1> QED
  BY <1>4, <1>11 DEF Families

LEMMA InitFamilies == AuthInit => Families
<1> SUFFICES ASSUME AuthInit PROVE Families
  OBVIOUS
<1>1. Open = {} /\ Done = {} /\ Live = {}
  BY DEF AuthInit, Open, Done, Live
<1> QED
  BY <1>1 DEF Families, Lineage, Single, RotatingIn, LiveIn, Began

LEMMA StepFamilies == AuthInv /\ Families /\ [AuthNext]_AuthVars => Families'
<1> SUFFICES ASSUME AuthInv, Families, [AuthNext]_AuthVars PROVE Families'
  OBVIOUS
<1> USE AuthAssumption
<1>0. AuthTypeOK
  BY DEF AuthInv
<1>1. Live \in SUBSET Minters
  BY <1>0 DEF Live, AuthTypeOK
<1>2. ASSUME NEW r \in Requests, Login(r) PROVE Families'
  <2>1. r \in Minters /\ r \notin Rotations
    BY <1>2 DEF Login, Minters
  <2>2. family'[r] = r /\ \A t \in Minters \ {r} : family'[t] = family[t]
    BY <1>2, <2>1, <1>0 DEF Login, AuthTypeOK
  <2> QED
    BY <1>2, <2>1, <2>2, BeginFamilies DEF Login
<1>3. ASSUME NEW r \in Requests, NEW t \in Minters, RotateToken(r, t) PROVE Families'
  <2>1. r \in Minters /\ r \notin Logins /\ t \in Live
    BY <1>3 DEF RotateToken, Minters
  <2>2. family'[r] = family[t] /\ \A u \in Minters \ {r} : family'[u] = family[u]
    BY <1>3, <2>1, <1>0 DEF RotateToken, AuthTypeOK
  <2> QED
    BY <1>3, <2>1, <2>2, BeginFamilies DEF RotateToken
<1>4. ASSUME NEW r \in Requests, NEW t \in Minters, Logout(r, t) PROVE Families'
  <2>1. r \notin Logins /\ r \notin Rotations
    BY <1>4 DEF Logout, Minters
  <2> QED
    BY <1>4, <2>1, BeginFamilies DEF Logout
<1>5. ASSUME NEW r \in Requests, LogoutAll(r) \/ ResetPassword(r) PROVE Families'
  <2>1. r \notin Logins /\ r \notin Rotations
    BY <1>5 DEF LogoutAll, ResetPassword, Minters, Sweepers
  <2>2. Begin(r, NoToken, Live) /\ family' = family
    BY <1>5 DEF LogoutAll, ResetPassword
  <2> QED
    BY <1>1, <2>1, <2>2, BeginFamilies
<1>6. ASSUME NEW r \in Requests, Flush(r) \/ AbandonRequest(r) PROVE Families'
  <2>1. UNCHANGED <<issued, revoked, shown, family, beside>>
    BY <1>6 DEF Flush, AbandonRequest, EndRequest
  <2>2. Open' \subseteq Open /\ Done' = Done /\ Began' \subseteq Began /\ Live' = Live
    BY <1>0, <1>6, <2>1 DEF Flush, AbandonRequest, EndRequest, AuthTypeOK, Open, Done, Began, Live
  <2> QED
    BY <2>1, <2>2, FamiliesKept
<1>7. ASSUME NEW r \in Requests, CommitRequest(r) PROVE Families'
  BY <1>7, CommitFamilies
<1>8. CASE UNCHANGED AuthVars
  <2>1. UNCHANGED <<issued, shown, family, beside>> /\ Live' = Live
    BY <1>8 DEF AuthVars, Live
  <2>2. Open' = Open /\ Done' = Done
    BY <1>8 DEF AuthVars, Open, Done
  <2> QED
    BY <2>1, <2>2, FamiliesKept DEF Began
<1> QED
  BY <1>2, <1>3, <1>4, <1>5, <1>6, <1>7, <1>8 DEF AuthNext

-----------------------------------------------------------------------------
(* The theorems.                                                           *)

\* Whatever requests run at a time, every variable keeps its type.
THEOREM AuthTypeCorrect == AuthSpec => []AuthTypeOK
<1>1. AuthInit => AuthTypeOK
  BY AuthInitInv DEF AuthInv
<1> QED
  BY <1>1, AuthTypeStep, PTL DEF AuthSpec

\* The invariant holds.
THEOREM AuthInvariant == AuthSpec => []AuthInv
BY AuthInitInv, AuthStepInv, PTL DEF AuthSpec

\* The invariant about sign-ins holds beside it.
THEOREM FamilyInvariant == AuthSpec => []Families
BY AuthInvariant, InitFamilies, StepFamilies, PTL DEF AuthSpec

\* For any number of logins, rotations, logouts and resets: a refresh token has
\* two successors, and a reset link two uses, only when both requests were open
\* at once; a sign-in no token of which was rotated so has one live token.
THEOREM TokensAreOneTime == AuthSpec => []OneTimeTokens
<1>1. AuthInv => UsedTwiceOverlap
  BY DEF AuthInv, Overlapped, Conflict, UsedTwiceOverlap, Began
<1>2. ASSUME AuthInv, Families, NEW t \in Live, NEW u \in Live, t # u, family[t] = family[u]
      PROVE Forked(family[t])
  <2>1. t \in Minters \cap Began
    BY <1>2 DEF AuthInv, AuthTypeOK, Signed, Live, Began
  <2>2. family[t] \in Logins
    BY <2>1, <1>2 DEF Families, Lineage, Minters
  <2> QED
    BY <1>2, <2>2 DEF Families, Single, LiveIn
<1>3. AuthInv /\ Families => OneTimeTokens
  BY <1>1, <1>2 DEF OneTimeTokens
<1> QED
  BY <1>3, AuthInvariant, FamilyInvariant, PTL

\* For any number of logins, rotations and sweeps: after a reset or a logout
\* everywhere that no login or rotation overlapped, every live session
\* descends from a later login.
THEOREM SweepsEndFamilies == AuthSpec => []SweepEndsFamilies
<1>1. AuthInv => SweepEndsFamilies
  BY DEF AuthInv, Swept, SweepEndsFamilies
<1> QED
  BY <1>1, AuthInvariant, PTL
=============================================================================
