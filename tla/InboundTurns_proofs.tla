------------------------ MODULE InboundTurns_proofs ------------------------
(***************************************************************************)
(* Proofs about InboundTurns, for any deliveries, operators, retries and   *)
(* faults: no turn begun under a pause in force answers, and answers are   *)
(* doubled only by outages and rolled back turns.                          *)
(***************************************************************************)
EXTENDS InboundTurns, FiniteSetTheorems, TLAPS

-----------------------------------------------------------------------------
(* The inductive invariant.                                                *)

Holding == {"answering", "silent", "answered"}

\* A turn past its upsert holds the client's row.  It answers with no pause in its
\* draft, which it has written if its copy had one; MEDIA_FALLBACK is sent only
\* where the copy has none.
TurnHolds ==
    \A p \in Posts :
        /\ postPc[p] \in Holding => clientLock = p
        /\ postPc[p] = "answering" => ~draft /\ (turnCopy[p] => wrote)
        /\ postPc[p] = "replying" => ~turnCopy[p]

OpHolds ==
    \A o \in Operators : opPc[o] = "written" => clientLock = o /\ (draft <=> Asks[o])

\* The turns begun under the pause in force have it in their copy.
UnderCopies == \A p \in under : turnCopy[p]

Pauses == TurnHolds /\ OpHolds /\ UnderCopies /\ (inForce => paused)

\* The deliveries of a message whose step is one of S.
At(pc, m, S) == {p \in Posts : MsgOf[p] = m /\ pc[p] \in S}

PastClaim == {"claimed", "queued", "done", "dead"} \union InTurn
Answerers == {"answered", "replied", "done"}

Claimants(m) == Cardinality(At(postPc, m, PastClaim))
Recorders(m) == Cardinality(At(postPc, m, {"done"}))
Repliers(m)  == Cardinality(At(postPc, m, Answerers))
KeySet(m) == IF m \in claimed THEN 1 ELSE 0

\* One delivery of a message is let through for its key, one for each claim
\* without Redis; records and answers are those of the deliveries.
Counted ==
    \A m \in Messages :
        /\ Claimants(m) <= doubled[m] + KeySet(m)
        /\ recorded[m] <= Recorders(m)
        /\ answers[m] <= unsaved[m] + Repliers(m)

InboundInv == InboundTypeOK /\ Pauses /\ Counted

PostSteps == {"posted", "claimed", "queued"} \union InTurn \union PostEnds

-----------------------------------------------------------------------------
\* Every action keeps the types.
LEMMA InboundTypeStep == InboundTypeOK /\ [InboundNext]_InboundVars => InboundTypeOK'
<1> SUFFICES ASSUME InboundTypeOK, [InboundNext]_InboundVars PROVE InboundTypeOK'
  OBVIOUS
<1> USE InboundAssumption
<1> USE DEF InboundTypeOK, PostGoto, More, postVars, turnVars, rowVars, opVars, chatVars, forceVars
<1>0. \A p \in Posts : MsgOf[p] \in Messages /\ p \in Actors
  BY DEF Messages, Actors
<1>1. ASSUME NEW p \in Posts, ClaimPost(p) \/ Enqueue(p) PROVE InboundTypeOK'
  BY <1>0, <1>1 DEF ClaimPost, Enqueue, PostEnds
<1>2. ASSUME NEW p \in Posts, ClaimWithoutRedis(p) \/ LosePost(p) PROVE InboundTypeOK'
  <2>1. turnFaults' \in 0..MaxTurnFaults
    BY <1>2 DEF ClaimWithoutRedis, LosePost, TurnFault
  <2>2. postPc' \in [Posts -> PostSteps]
    BY <1>2 DEF ClaimWithoutRedis, LosePost, PostSteps, PostEnds
  <2> QED
    BY <1>0, <1>2, <2>1, <2>2 DEF ClaimWithoutRedis, LosePost, PostSteps
<1>3. ASSUME NEW p \in Posts, BeginTurn(p) \/ FallBack(p) PROVE InboundTypeOK'
  <2>1. turnCopy' \in [Posts -> BOOLEAN] /\ under' \subseteq Posts
    BY <1>3 DEF BeginTurn, FallBack
  <2>2. postPc' \in [Posts -> PostSteps]
    BY <1>3 DEF BeginTurn, FallBack, PostSteps, InTurn
  <2> QED
    BY <1>3, <2>1, <2>2 DEF BeginTurn, FallBack, PostSteps
<1>4. ASSUME NEW p \in Posts, TakeTurn(p) PROVE InboundTypeOK'
  <2>1. draft' \in BOOLEAN
    BY <1>4 DEF TakeTurn, Gated
  <2>2. wrote' \in BOOLEAN
    <3>1. PICK resumed : wrote' = (resumed \/ draft' # turnCopy[p])
      BY <1>4, Zenon DEF TakeTurn
    <3> QED
      BY <3>1, Zenon
  <2>3. postPc' \in [Posts -> PostSteps]
    BY <1>4 DEF TakeTurn, PostSteps, InTurn
  <2> QED
    BY <1>0, <1>4, <2>1, <2>2, <2>3 DEF TakeTurn, PostSteps
<1>5. ASSUME NEW p \in Posts, Answer(p) PROVE InboundTypeOK'
  <2>1. postPc' \in [Posts -> PostSteps]
    BY <1>5 DEF Answer, PostSteps, InTurn
  <2> QED
    BY <1>0, <1>5, <2>1 DEF Answer, PostSteps
<1>6. ASSUME NEW p \in Posts, CommitTurn(p) PROVE InboundTypeOK'
  <2>1. inForce' \in BOOLEAN
    BY <1>6, Zenon DEF CommitTurn
  <2>2. under' \subseteq Posts /\ paused' \in BOOLEAN
    BY <1>6 DEF CommitTurn
  <2> QED
    BY <1>0, <1>6, <2>1, <2>2 DEF CommitTurn, PostEnds
<1>7. ASSUME NEW p \in Posts, CommitReply(p) PROVE InboundTypeOK'
  BY <1>7 DEF CommitReply, PostEnds
<1>8. ASSUME NEW p \in Posts, AnswerFails(p) \/ CommitFails(p) \/ CrashTurn(p) PROVE InboundTypeOK'
  <2>1. RollbackTurn(p) /\ turnFaults' \in 0..MaxTurnFaults
    BY <1>8 DEF AnswerFails, CommitFails, CrashTurn, RetryTurn, TurnFault
  <2>2. postPc' \in [Posts -> PostSteps] /\ turnTries' \in [Posts -> 0..TurnMaxRetries]
    BY <1>8 DEF AnswerFails, CommitFails, CrashTurn, RetryTurn, GiveUp, PostSteps, PostEnds
  <2>3. missed' \subseteq Messages
    BY <1>0, <1>8 DEF AnswerFails, CommitFails, CrashTurn, RetryTurn, GiveUp
  <2> QED
    BY <1>0, <2>1, <2>2, <2>3 DEF RollbackTurn, PostSteps
<1>10. ASSUME NEW o \in Operators, OpStep(o) PROVE InboundTypeOK'
  <2>1. CASE OpRead(o)
    BY <2>1 DEF OpRead, OpGoto
  <2>2. CASE OpWrite(o)
    BY <2>2 DEF OpWrite, OpGoto, Actors
  <2>3. ASSUME OpUnchanged(o) PROVE InboundTypeOK'
    <3>1. inForce' \in BOOLEAN
      BY <2>3, Zenon DEF OpUnchanged
    <3>2. under' \subseteq Posts
      BY <2>3 DEF OpUnchanged
    <3> QED
      BY <2>3, <3>1, <3>2 DEF OpUnchanged, OpGoto
  <2>4. ASSUME OpCommit(o) PROVE InboundTypeOK'
    <3>1. under' \subseteq Posts
      BY <2>4 DEF OpCommit
    <3> QED
      BY <2>4, <3>1 DEF OpCommit, OpGoto
  <2> QED
    BY <1>10, <2>1, <2>2, <2>3, <2>4 DEF OpStep
<1>11. ASSUME NEW o \in Operators, OpFails(o) PROVE InboundTypeOK'
  BY <1>11 DEF OpFails, OpGoto, TurnFault
<1>9. CASE UNCHANGED InboundVars
  BY <1>9 DEF InboundVars
<1> QED
  BY <1>1, <1>2, <1>3, <1>4, <1>5, <1>6, <1>7, <1>8, <1>9, <1>10, <1>11 DEF InboundNext, PostStep

-----------------------------------------------------------------------------
(* Pauses.                                                                 *)

LEMMA PausesStep == InboundTypeOK /\ Pauses /\ [InboundNext]_InboundVars => Pauses'
<1> SUFFICES ASSUME InboundTypeOK, Pauses, [InboundNext]_InboundVars PROVE Pauses'
  OBVIOUS
<1> USE InboundAssumption DEF Actors
<1> USE DEF postVars, turnVars, rowVars, opVars, chatVars, forceVars
\* A step that leaves the row, the copies and the operators alone, and after
\* which no turn holds the row or is about to answer that was not before.
<1>0. ASSUME UNCHANGED <<paused, clientLock, draft, wrote, turnCopy, opPc, forceVars>>,
             \A p \in Posts : postPc'[p] \in Holding => postPc[p] \in Holding,
             \A p \in Posts, s \in {"answering", "replying"} : postPc'[p] = s => postPc[p] = s
      PROVE Pauses'
  BY <1>0 DEF Pauses, TurnHolds, OpHolds, UnderCopies
<1>1. ASSUME NEW p \in Posts,
             \/ ClaimPost(p) \/ ClaimWithoutRedis(p) \/ Enqueue(p) \/ LosePost(p)
             \/ Answer(p) \/ CommitReply(p)
      PROVE Pauses'
  BY <1>0, <1>1 DEF ClaimPost, ClaimWithoutRedis, Enqueue, LosePost, Answer, CommitReply,
                    PostGoto, InboundTypeOK, Holding
<1>2. ASSUME NEW p \in Posts, BeginTurn(p) PROVE Pauses'
  <2>1. /\ UNCHANGED <<paused, clientLock, draft, wrote, opPc, inForce>>
        /\ under' \subseteq under \union {p} /\ (p \in under' => turnCopy'[p])
        /\ \A i \in Posts \ {p} : turnCopy'[i] = turnCopy[i]
    BY <1>2 DEF BeginTurn, Pauses, InboundTypeOK
  <2>2. postPc'[p] = "loaded" /\ \A i \in Posts \ {p} : postPc'[i] = postPc[i]
    BY <1>2 DEF BeginTurn, PostGoto, InboundTypeOK
  <2>3. TurnHolds'
    BY <2>1, <2>2 DEF Pauses, TurnHolds, Holding
  <2>4. OpHolds' /\ UnderCopies'
    BY <2>1 DEF Pauses, OpHolds, UnderCopies, InboundTypeOK
  <2> QED
    BY <2>1, <2>3, <2>4 DEF Pauses
<1>3. ASSUME NEW p \in Posts, FallBack(p) PROVE Pauses'
  <2>1. /\ UNCHANGED <<paused, clientLock, draft, wrote, turnCopy, opPc, inForce, under>>
        /\ ~turnCopy[p]
    BY <1>3 DEF FallBack
  <2>2. postPc'[p] = "replying" /\ \A i \in Posts \ {p} : postPc'[i] = postPc[i]
    BY <1>3 DEF FallBack, PostGoto, InboundTypeOK
  <2> QED
    BY <2>1, <2>2 DEF Pauses, TurnHolds, OpHolds, UnderCopies, Holding
<1>4. ASSUME NEW p \in Posts, TakeTurn(p) PROVE Pauses'
  <2>1. /\ UNCHANGED <<paused, turnCopy, opPc, inForce, under>>
        /\ clientLock = NoTurn /\ clientLock' = p
    BY <1>4 DEF TakeTurn
  <2>2. /\ postPc'[p] \in {"answering", "silent"} /\ (postPc'[p] = "answering" => ~draft')
        /\ \A i \in Posts \ {p} : postPc'[i] = postPc[i]
    BY <1>4 DEF TakeTurn, PostGoto, InboundTypeOK
  <2>3. ~draft' /\ turnCopy[p] => wrote'
    <3>1. PICK resumed : wrote' = (resumed \/ draft' # turnCopy[p])
      BY <1>4, Zenon DEF TakeTurn
    <3> QED
      BY <3>1, Zenon
  <2>4. TurnHolds'
    BY <2>1, <2>2, <2>3 DEF Pauses, TurnHolds, Holding
  <2>5. OpHolds'
    BY <2>1 DEF Pauses, OpHolds
  <2> QED
    BY <2>1, <2>4, <2>5 DEF Pauses, UnderCopies
<1>5. ASSUME NEW p \in Posts, CommitTurn(p) PROVE Pauses'
  <2>1. clientLock = p
    BY <1>5 DEF CommitTurn, Pauses, TurnHolds, Holding
  <2>2. postPc'[p] = "done" /\ \A i \in Posts \ {p} : postPc'[i] = postPc[i]
    BY <1>5 DEF CommitTurn, PostGoto, InboundTypeOK
  <2>3. UNCHANGED <<draft, wrote, turnCopy, opPc>> /\ under' \subseteq under
    BY <1>5 DEF CommitTurn
  <2>4. TurnHolds'
    BY <2>1, <2>2, <2>3 DEF Pauses, TurnHolds, Holding
  <2>5. OpHolds' /\ UnderCopies'
    BY <2>1, <2>3 DEF Pauses, OpHolds, UnderCopies
  \* What the commit writes is a pause, if it writes and the pause stays in force.
  <2>6. inForce' => paused'
    <3>1. inForce' => inForce /\ ~(wrote /\ ~draft)
      BY <1>5 DEF CommitTurn
    <3>2. CASE wrote
      BY <1>5, <3>1, <3>2 DEF CommitTurn
    <3>3. CASE ~wrote
      BY <1>5, <3>1, <3>3 DEF CommitTurn, Pauses
    <3> QED
      BY <3>2, <3>3
  <2> QED
    BY <2>4, <2>5, <2>6 DEF Pauses
<1>6. ASSUME NEW p \in Posts, AnswerFails(p) \/ CommitFails(p) \/ CrashTurn(p) PROVE Pauses'
  <2>1. /\ UNCHANGED <<paused, draft, wrote, turnCopy, opPc, inForce, under>>
        /\ clientLock' = IF clientLock = p THEN NoTurn ELSE clientLock
    BY <1>6 DEF AnswerFails, CommitFails, CrashTurn, RetryTurn, RollbackTurn
  <2>2. postPc'[p] \in {"queued", "dead"} /\ \A i \in Posts \ {p} : postPc'[i] = postPc[i]
    BY <1>6 DEF AnswerFails, CommitFails, CrashTurn, RetryTurn, GiveUp, PostGoto, InboundTypeOK
  <2>3. TurnHolds'
    BY <2>1, <2>2 DEF Pauses, TurnHolds, Holding
  <2>4. OpHolds'
    BY <2>1 DEF Pauses, OpHolds
  <2> QED
    BY <2>1, <2>3, <2>4 DEF Pauses, UnderCopies
<1>7. ASSUME NEW o \in Operators, OpRead(o) \/ OpFails(o) PROVE Pauses'
  BY <1>7 DEF OpRead, OpFails, OpGoto, InboundTypeOK, Pauses, TurnHolds, OpHolds, UnderCopies
<1>8. ASSUME NEW o \in Operators, OpWrite(o) PROVE Pauses'
  <2>1. \A p \in Posts : postPc[p] \notin Holding
    BY <1>8 DEF OpWrite, Pauses, TurnHolds
  <2> QED
    BY <1>8, <2>1 DEF OpWrite, OpGoto, InboundTypeOK, Pauses, TurnHolds, OpHolds, UnderCopies,
                      Holding
<1>9. ASSUME NEW o \in Operators, OpUnchanged(o) PROVE Pauses'
  <2>1. (inForce' => paused) /\ under' \subseteq under
    BY <1>9 DEF OpUnchanged
  <2> QED
    BY <1>9, <2>1 DEF OpUnchanged, OpGoto, InboundTypeOK, Pauses, TurnHolds, OpHolds, UnderCopies
<1>10. ASSUME NEW o \in Operators, OpCommit(o) PROVE Pauses'
  <2>1. clientLock = o /\ (draft <=> Asks[o])
    BY <1>10 DEF OpCommit, Pauses, OpHolds
  <2>2. \A p \in Posts : postPc[p] \notin Holding
    BY <2>1 DEF Pauses, TurnHolds
  <2>3. UNCHANGED <<postPc, turnCopy>> /\ under' \subseteq under
    BY <1>10 DEF OpCommit
  <2>4. TurnHolds' /\ UnderCopies'
    BY <2>2, <2>3 DEF Pauses, TurnHolds, UnderCopies, Holding
  <2>5. OpHolds'
    BY <1>10, <2>1 DEF OpCommit, OpGoto, InboundTypeOK, Pauses, OpHolds
  <2>6. inForce' => paused'
    BY <1>10, <2>1 DEF OpCommit
  <2> QED
    BY <2>4, <2>5, <2>6 DEF Pauses
<1>11. CASE UNCHANGED InboundVars
  BY <1>0, <1>11 DEF InboundVars
<1> QED
  BY <1>1, <1>2, <1>3, <1>4, <1>5, <1>6, <1>7, <1>8, <1>9, <1>10, <1>11
  DEF InboundNext, PostStep, OpStep

-----------------------------------------------------------------------------
(* Counts.                                                                 *)

\* A step of delivery p changes nothing that is counted for other messages.
OtherTurnsKept(p) ==
    \A m \in Messages \ {MsgOf[p]} :
        /\ KeySet(m)' = KeySet(m) /\ doubled'[m] = doubled[m]
        /\ recorded'[m] = recorded[m] /\ answers'[m] = answers[m] /\ unsaved'[m] = unsaved[m]

\* It gets past its claim only with a key or an outage to account for it ...
ClaimPaid(p, v, m) ==
    /\ doubled'[m] + KeySet(m)' >= doubled[m] + KeySet(m)
    /\ \/ v \in PastClaim => postPc[p] \in PastClaim
       \/ doubled'[m] + KeySet(m)' = doubled[m] + KeySet(m) + 1

\* ... it is done exactly when it records ...
RecordPaid(p, v, m) ==
    /\ postPc[p] # "done"
    /\ recorded'[m] = recorded[m] \/ (v = "done" /\ recorded'[m] = recorded[m] + 1)

\* ... and it stops to be answered only if its answer is counted as unsaved.
AnswerPaid(p, v, m) ==
    \/ /\ answers'[m] = answers[m] /\ unsaved'[m] = unsaved[m]
       /\ postPc[p] \in Answerers => v \in Answerers
    \/ /\ answers'[m] = answers[m] /\ unsaved'[m] = unsaved[m] + 1
    \/ /\ answers'[m] = answers[m] + 1 /\ unsaved'[m] = unsaved[m]
       /\ postPc[p] \notin Answerers /\ v \in Answerers

LEMMA CountedMove ==
    ASSUME InboundTypeOK, InboundTypeOK', Counted, NEW p \in Posts, NEW v \in PostSteps,
           postPc' = [postPc EXCEPT ![p] = v], OtherTurnsKept(p),
           ClaimPaid(p, v, MsgOf[p]), RecordPaid(p, v, MsgOf[p]), AnswerPaid(p, v, MsgOf[p])
    PROVE  Counted'
<1> SUFFICES ASSUME NEW m \in Messages
             PROVE /\ Claimants(m)' <= doubled'[m] + KeySet(m)'
                   /\ recorded'[m] <= Recorders(m)'
                   /\ answers'[m] <= unsaved'[m] + Repliers(m)'
  BY DEF Counted
<1>1. postPc'[p] = v /\ \A i \in Posts \ {p} : postPc'[i] = postPc[i]
  BY DEF InboundTypeOK
<1>2. /\ doubled[m] \in Nat /\ KeySet(m) \in Nat /\ KeySet(m)' \in Nat /\ recorded[m] \in Nat
      /\ answers[m] \in Nat /\ unsaved[m] \in Nat /\ doubled'[m] \in Nat
  BY DEF InboundTypeOK, KeySet
<1>3. /\ Claimants(m) <= doubled[m] + KeySet(m)
      /\ recorded[m] <= Recorders(m)
      /\ answers[m] <= unsaved[m] + Repliers(m)
  BY DEF Counted
<1>4. /\ Claimants(m) = Cardinality(At(postPc, m, PastClaim))
      /\ Claimants(m)' = Cardinality(At(postPc', m, PastClaim))
      /\ Recorders(m) = Cardinality(At(postPc, m, {"done"}))
      /\ Recorders(m)' = Cardinality(At(postPc', m, {"done"}))
      /\ Repliers(m) = Cardinality(At(postPc, m, Answerers))
      /\ Repliers(m)' = Cardinality(At(postPc', m, Answerers))
  BY DEF Claimants, Recorders, Repliers, At, PastClaim, Answerers, InTurn
\* Moving one delivery changes a count by one at most.
<1> DEFINE Size(pc, S) == Cardinality(At(pc, m, S))
<1>5. ASSUME NEW S
      PROVE  /\ Size(postPc, S) \in Nat /\ Size(postPc', S) \in Nat
             /\ m # MsgOf[p] \/ (v \in S /\ postPc[p] \in S) \/ (v \notin S /\ postPc[p] \notin S)
                   => Size(postPc', S) = Size(postPc, S)
             /\ m = MsgOf[p] /\ v \in S /\ postPc[p] \notin S
                   => Size(postPc', S) = Size(postPc, S) + 1
             /\ m = MsgOf[p] /\ v \notin S /\ postPc[p] \in S
                   => Size(postPc', S) = Size(postPc, S) - 1
  <2> DEFINE old == At(postPc, m, S)
             new == At(postPc', m, S)
  <2>1. old \in SUBSET Posts /\ new \in SUBSET Posts
    BY DEF At
  <2>2. IsFiniteSet(old) /\ IsFiniteSet(new)
    BY <2>1, InboundAssumption, FS_Subset
  <2>3. Cardinality(old) \in Nat /\ Cardinality(new) \in Nat
    BY <2>2, FS_CardinalityType
  <2>4. ASSUME m # MsgOf[p] \/ (v \in S /\ postPc[p] \in S) \/ (v \notin S /\ postPc[p] \notin S)
        PROVE  new = old
    BY <1>1, <2>4 DEF At
  <2>5. ASSUME m = MsgOf[p], v \in S, postPc[p] \notin S
        PROVE  Cardinality(new) = Cardinality(old) + 1
    <3>1. new = old \union {p} /\ p \notin old
      BY <1>1, <2>5 DEF At
    <3> HIDE DEF old, new
    <3> QED
      BY <3>1, <2>2, FS_AddElement
  <2>6. ASSUME m = MsgOf[p], v \notin S, postPc[p] \in S
        PROVE  Cardinality(new) = Cardinality(old) - 1
    <3>1. new = old \ {p} /\ p \in old
      BY <1>1, <2>6 DEF At
    <3> HIDE DEF old, new
    <3> QED
      BY <3>1, <2>2, FS_RemoveElement
  <2> QED
    BY <2>3, <2>4, <2>5, <2>6
<1> HIDE DEF Size
<1>6. /\ Claimants(m) = Size(postPc, PastClaim) /\ Claimants(m)' = Size(postPc', PastClaim)
      /\ Recorders(m) = Size(postPc, {"done"}) /\ Recorders(m)' = Size(postPc', {"done"})
      /\ Repliers(m) = Size(postPc, Answerers) /\ Repliers(m)' = Size(postPc', Answerers)
  BY <1>4 DEF Size
<1>7. /\ Claimants(m) \in Nat /\ Claimants(m)' \in Nat
      /\ Recorders(m) \in Nat /\ Recorders(m)' \in Nat
      /\ Repliers(m) \in Nat /\ Repliers(m)' \in Nat
  BY <1>5, <1>6
<1>c. /\ m = MsgOf[p] /\ v \in PastClaim /\ postPc[p] \notin PastClaim => Claimants(m)' = Claimants(m) + 1
      /\ m = MsgOf[p] /\ v \notin PastClaim /\ postPc[p] \in PastClaim => Claimants(m)' = Claimants(m) - 1
      /\ m = MsgOf[p] /\ (v \in PastClaim <=> postPc[p] \in PastClaim) => Claimants(m)' = Claimants(m)
  BY <1>5, <1>6, Zenon
<1>r. /\ m = MsgOf[p] /\ v \in {"done"} /\ postPc[p] \notin {"done"} => Recorders(m)' = Recorders(m) + 1
      /\ m = MsgOf[p] /\ v \notin {"done"} /\ postPc[p] \in {"done"} => Recorders(m)' = Recorders(m) - 1
      /\ m = MsgOf[p] /\ (v \in {"done"} <=> postPc[p] \in {"done"}) => Recorders(m)' = Recorders(m)
  BY <1>5, <1>6, Zenon
<1>a. /\ m = MsgOf[p] /\ v \in Answerers /\ postPc[p] \notin Answerers => Repliers(m)' = Repliers(m) + 1
      /\ m = MsgOf[p] /\ v \notin Answerers /\ postPc[p] \in Answerers => Repliers(m)' = Repliers(m) - 1
      /\ m = MsgOf[p] /\ (v \in Answerers <=> postPc[p] \in Answerers) => Repliers(m)' = Repliers(m)
  BY <1>5, <1>6, Zenon
<1>8. CASE m # MsgOf[p]
  <2>1. /\ KeySet(m)' = KeySet(m) /\ doubled'[m] = doubled[m] /\ recorded'[m] = recorded[m]
        /\ answers'[m] = answers[m] /\ unsaved'[m] = unsaved[m]
    BY <1>8 DEF OtherTurnsKept
  <2>2. Claimants(m)' = Claimants(m) /\ Recorders(m)' = Recorders(m) /\ Repliers(m)' = Repliers(m)
    BY <1>8, <1>5, <1>6
  <2> QED
    BY <2>1, <2>2, <1>3
<1>9. CASE m = MsgOf[p]
  <2>1. Claimants(m)' <= doubled'[m] + KeySet(m)'
    <3> DEFINE new == doubled'[m] + KeySet(m)'
               old == doubled[m] + KeySet(m)
    <3>1. new >= old /\ old \in Nat /\ Claimants(m) <= old
      BY <1>2, <1>3, <1>9 DEF ClaimPaid
    <3>2. (v \in PastClaim => postPc[p] \in PastClaim) \/ new = old + 1
      BY <1>9 DEF ClaimPaid
    <3>3. Claimants(m)' <= Claimants(m) + 1 /\ Claimants(m) \in Nat /\ Claimants(m)' \in Nat
      BY <1>c, <1>7, <1>9
    <3>4. (v \in PastClaim => postPc[p] \in PastClaim) => Claimants(m)' <= Claimants(m)
      BY <1>c, <1>7, <1>9
    <3>5. new = old + 1 \/ (new >= old /\ Claimants(m)' <= Claimants(m))
      BY <3>1, <3>2, <3>4
    <3>6. new \in Nat
      BY <1>2
    <3>7. Claimants(m)' <= new
      <4> HIDE DEF new, old
      <4> QED
        BY <3>1, <3>3, <3>5, <3>6
    <3> QED
      BY <3>7
  <2>2. recorded'[m] <= Recorders(m)'
    <3>1. Recorders(m)' = Recorders(m) + (IF v = "done" THEN 1 ELSE 0)
      BY <1>r, <1>7, <1>9 DEF RecordPaid
    <3> QED
      BY <1>9, <1>2, <1>3, <1>7, <3>1 DEF RecordPaid
  <2>3. answers'[m] <= unsaved'[m] + Repliers(m)'
    <3>1. /\ Repliers(m)' >= Repliers(m) - 1
          /\ (postPc[p] \in Answerers => v \in Answerers) => Repliers(m)' >= Repliers(m)
          /\ postPc[p] \notin Answerers /\ v \in Answerers => Repliers(m)' = Repliers(m) + 1
      BY <1>a, <1>7, <1>9
    <3> QED
      BY <1>9, <1>2, <1>3, <1>7, <3>1 DEF AnswerPaid
  <2> QED
    BY <2>1, <2>2, <2>3
<1> QED
  BY <1>8, <1>9

LEMMA CountedStep == InboundTypeOK /\ Counted /\ [InboundNext]_InboundVars => Counted'
<1> SUFFICES ASSUME InboundTypeOK, Counted, [InboundNext]_InboundVars PROVE Counted'
  OBVIOUS
<1> USE InboundAssumption
<1> USE DEF postVars, turnVars, rowVars, opVars, chatVars, forceVars
<1>0. ASSUME UNCHANGED <<postPc, claimed, doubled, recorded, answers, unsaved>> PROVE Counted'
  BY <1>0 DEF Counted, Claimants, Recorders, Repliers, KeySet
<1>typed. InboundTypeOK'
  BY InboundTypeStep
<1>1. ASSUME NEW p \in Posts, ClaimPost(p) PROVE Counted'
  <2>1. MsgOf[p] \in Messages
    BY DEF Messages
  <2>2. PICK v \in {"gone", "claimed"} : v \in PostSteps /\ postPc' = [postPc EXCEPT ![p] = v]
    BY <1>1 DEF ClaimPost, PostGoto, PostSteps, PostEnds, InTurn
  <2>3. OtherTurnsKept(p)
    BY <1>1 DEF ClaimPost, More, OtherTurnsKept, KeySet, InboundTypeOK
  <2>4. ClaimPaid(p, v, MsgOf[p])
    BY <1>1, <2>1, <2>2 DEF ClaimPost, PostGoto, More, ClaimPaid, KeySet, InboundTypeOK,
                            PastClaim, InTurn
  <2>5. RecordPaid(p, v, MsgOf[p])
    BY <1>1, <2>1, <2>2 DEF ClaimPost, PostGoto, More, RecordPaid, InboundTypeOK, InTurn
  <2>6. AnswerPaid(p, v, MsgOf[p])
    BY <1>1, <2>1, <2>2 DEF ClaimPost, PostGoto, More, AnswerPaid, InboundTypeOK, Answerers, InTurn
  <2> QED
    BY <2>2, <2>3, <2>4, <2>5, <2>6, <1>typed, CountedMove
<1>2. ASSUME NEW p \in Posts, ClaimWithoutRedis(p) PROVE Counted'
  <2>1. MsgOf[p] \in Messages
    BY DEF Messages
  <2>2. PICK v \in {"claimed"} : v \in PostSteps /\ postPc' = [postPc EXCEPT ![p] = v]
    BY <1>2 DEF ClaimWithoutRedis, PostGoto, PostSteps, PostEnds, InTurn
  <2>3. OtherTurnsKept(p)
    BY <1>2 DEF ClaimWithoutRedis, More, OtherTurnsKept, KeySet, InboundTypeOK
  <2>4. ClaimPaid(p, v, MsgOf[p])
    BY <1>2, <2>1, <2>2 DEF ClaimWithoutRedis, PostGoto, More, ClaimPaid, KeySet, InboundTypeOK,
                            PastClaim, InTurn
  <2>5. RecordPaid(p, v, MsgOf[p])
    BY <1>2, <2>1, <2>2 DEF ClaimWithoutRedis, PostGoto, More, RecordPaid, InboundTypeOK, InTurn
  <2>6. AnswerPaid(p, v, MsgOf[p])
    BY <1>2, <2>1, <2>2 DEF ClaimWithoutRedis, PostGoto, More, AnswerPaid, InboundTypeOK,
                            Answerers, InTurn
  <2> QED
    BY <2>2, <2>3, <2>4, <2>5, <2>6, <1>typed, CountedMove
<1>3. ASSUME NEW p \in Posts, Enqueue(p) \/ LosePost(p) PROVE Counted'
  <2>1. MsgOf[p] \in Messages
    BY DEF Messages
  <2>2. PICK v \in {"queued", "gone"} : v \in PostSteps /\ postPc' = [postPc EXCEPT ![p] = v]
    BY <1>3 DEF Enqueue, LosePost, PostGoto, PostSteps, PostEnds, InTurn
  <2>3. OtherTurnsKept(p)
    BY <1>3 DEF Enqueue, LosePost, More, OtherTurnsKept, KeySet, InboundTypeOK
  <2>4. ClaimPaid(p, v, MsgOf[p])
    BY <1>3, <2>1, <2>2 DEF Enqueue, LosePost, PostGoto, More, ClaimPaid, KeySet, InboundTypeOK,
                            PastClaim, InTurn
  <2>5. RecordPaid(p, v, MsgOf[p])
    BY <1>3, <2>1, <2>2 DEF Enqueue, LosePost, PostGoto, More, RecordPaid, InboundTypeOK, InTurn
  <2>6. AnswerPaid(p, v, MsgOf[p])
    BY <1>3, <2>1, <2>2 DEF Enqueue, LosePost, PostGoto, More, AnswerPaid, InboundTypeOK,
                            Answerers, InTurn
  <2> QED
    BY <2>2, <2>3, <2>4, <2>5, <2>6, <1>typed, CountedMove
<1>4. ASSUME NEW p \in Posts, BeginTurn(p) \/ FallBack(p) PROVE Counted'
  <2>1. MsgOf[p] \in Messages
    BY DEF Messages
  <2>2. PICK v \in {"loaded", "replying"} : v \in PostSteps /\ postPc' = [postPc EXCEPT ![p] = v]
    BY <1>4 DEF BeginTurn, FallBack, PostGoto, PostSteps, PostEnds, InTurn
  <2>3. OtherTurnsKept(p)
    BY <1>4 DEF BeginTurn, FallBack, More, OtherTurnsKept, KeySet, InboundTypeOK
  <2>4. ClaimPaid(p, v, MsgOf[p])
    BY <1>4, <2>1, <2>2 DEF BeginTurn, FallBack, PostGoto, More, ClaimPaid, KeySet, InboundTypeOK,
                            PastClaim, InTurn
  <2>5. RecordPaid(p, v, MsgOf[p])
    BY <1>4, <2>1, <2>2 DEF BeginTurn, FallBack, PostGoto, More, RecordPaid, InboundTypeOK, InTurn
  <2>6. AnswerPaid(p, v, MsgOf[p])
    BY <1>4, <2>1, <2>2 DEF BeginTurn, FallBack, PostGoto, More, AnswerPaid, InboundTypeOK,
                            Answerers, InTurn
  <2> QED
    BY <2>2, <2>3, <2>4, <2>5, <2>6, <1>typed, CountedMove
<1>5. ASSUME NEW p \in Posts, TakeTurn(p) PROVE Counted'
  <2>1. MsgOf[p] \in Messages
    BY DEF Messages
  <2>2. PICK v \in {"silent", "answering"} : v \in PostSteps /\ postPc' = [postPc EXCEPT ![p] = v]
    BY <1>5 DEF TakeTurn, PostGoto, PostSteps, PostEnds, InTurn
  <2>3. OtherTurnsKept(p)
    BY <1>5 DEF TakeTurn, More, OtherTurnsKept, KeySet, InboundTypeOK
  <2>4. ClaimPaid(p, v, MsgOf[p])
    BY <1>5, <2>1, <2>2 DEF TakeTurn, PostGoto, More, ClaimPaid, KeySet, InboundTypeOK, PastClaim,
                            InTurn
  <2>5. RecordPaid(p, v, MsgOf[p])
    BY <1>5, <2>1, <2>2 DEF TakeTurn, PostGoto, More, RecordPaid, InboundTypeOK, InTurn
  <2>6. AnswerPaid(p, v, MsgOf[p])
    BY <1>5, <2>1, <2>2 DEF TakeTurn, PostGoto, More, AnswerPaid, InboundTypeOK, Answerers, InTurn
  <2> QED
    BY <2>2, <2>3, <2>4, <2>5, <2>6, <1>typed, CountedMove
<1>6. ASSUME NEW p \in Posts, Answer(p) PROVE Counted'
  <2>1. MsgOf[p] \in Messages
    BY DEF Messages
  <2>2. PICK v \in {"answered", "replied"} : v \in PostSteps /\ postPc' = [postPc EXCEPT ![p] = v]
    BY <1>6 DEF Answer, PostGoto, PostSteps, PostEnds, InTurn
  <2>3. OtherTurnsKept(p)
    BY <1>6 DEF Answer, More, OtherTurnsKept, KeySet, InboundTypeOK
  <2>4. ClaimPaid(p, v, MsgOf[p])
    BY <1>6, <2>1, <2>2 DEF Answer, PostGoto, More, ClaimPaid, KeySet, InboundTypeOK, PastClaim,
                            InTurn
  <2>5. RecordPaid(p, v, MsgOf[p])
    BY <1>6, <2>1, <2>2 DEF Answer, PostGoto, More, RecordPaid, InboundTypeOK, InTurn
  <2>6. AnswerPaid(p, v, MsgOf[p])
    BY <1>6, <2>1, <2>2 DEF Answer, PostGoto, More, AnswerPaid, InboundTypeOK, Answerers, InTurn
  <2> QED
    BY <2>2, <2>3, <2>4, <2>5, <2>6, <1>typed, CountedMove
<1>7. ASSUME NEW p \in Posts, CommitTurn(p) \/ CommitReply(p) PROVE Counted'
  <2>1. MsgOf[p] \in Messages
    BY DEF Messages
  <2>2. PICK v \in {"done"} : v \in PostSteps /\ postPc' = [postPc EXCEPT ![p] = v]
    BY <1>7 DEF CommitTurn, CommitReply, PostGoto, PostSteps, PostEnds, InTurn
  <2>3. OtherTurnsKept(p)
    BY <1>7 DEF CommitTurn, CommitReply, More, OtherTurnsKept, KeySet, InboundTypeOK
  <2>4. ClaimPaid(p, v, MsgOf[p])
    BY <1>7, <2>1, <2>2 DEF CommitTurn, CommitReply, PostGoto, More, ClaimPaid, KeySet,
                            InboundTypeOK, PastClaim, InTurn
  <2>5. RecordPaid(p, v, MsgOf[p])
    BY <1>7, <2>1, <2>2 DEF CommitTurn, CommitReply, PostGoto, More, RecordPaid, InboundTypeOK,
                            InTurn
  <2>6. AnswerPaid(p, v, MsgOf[p])
    BY <1>7, <2>1, <2>2 DEF CommitTurn, CommitReply, PostGoto, More, AnswerPaid, InboundTypeOK,
                            Answerers, InTurn
  <2> QED
    BY <2>2, <2>3, <2>4, <2>5, <2>6, <1>typed, CountedMove
<1>8. ASSUME NEW p \in Posts, AnswerFails(p) \/ CommitFails(p) \/ CrashTurn(p) PROVE Counted'
  <2>1. MsgOf[p] \in Messages
    BY DEF Messages
  <2>2. PICK v \in {"queued", "dead"} : v \in PostSteps /\ postPc' = [postPc EXCEPT ![p] = v]
    BY <1>8 DEF AnswerFails, CommitFails, CrashTurn, RetryTurn, RollbackTurn, GiveUp, PostGoto,
                PostSteps, PostEnds, InTurn
  <2>3. OtherTurnsKept(p)
    BY <1>8 DEF AnswerFails, CommitFails, CrashTurn, RetryTurn, RollbackTurn, GiveUp, More,
                OtherTurnsKept, KeySet, InboundTypeOK
  <2>4. ClaimPaid(p, v, MsgOf[p])
    BY <1>8, <2>1, <2>2 DEF AnswerFails, CommitFails, CrashTurn, RetryTurn, RollbackTurn, GiveUp,
                            PostGoto, More, ClaimPaid, KeySet, InboundTypeOK, PastClaim, InTurn
  <2>5. RecordPaid(p, v, MsgOf[p])
    BY <1>8, <2>1, <2>2 DEF AnswerFails, CommitFails, CrashTurn, RetryTurn, RollbackTurn, GiveUp,
                            PostGoto, More, RecordPaid, InboundTypeOK, InTurn
  <2>6. AnswerPaid(p, v, MsgOf[p])
    BY <1>8, <2>1, <2>2 DEF AnswerFails, CommitFails, CrashTurn, RetryTurn, RollbackTurn, GiveUp,
                            PostGoto, More, AnswerPaid, InboundTypeOK, Answerers, InTurn
  <2> QED
    BY <2>2, <2>3, <2>4, <2>5, <2>6, <1>typed, CountedMove
<1>9. ASSUME NEW o \in Operators, OpStep(o) \/ OpFails(o) PROVE Counted'
  BY <1>0, <1>9 DEF OpStep, OpRead, OpWrite, OpUnchanged, OpCommit, OpFails
<1>10. CASE UNCHANGED InboundVars
  BY <1>0, <1>10 DEF InboundVars
<1> QED
  BY <1>1, <1>2, <1>3, <1>4, <1>5, <1>6, <1>7, <1>8, <1>9, <1>10 DEF InboundNext, PostStep

-----------------------------------------------------------------------------
(* The theorems.                                                           *)

LEMMA InboundInitInv == InboundInit => InboundInv
<1> SUFFICES ASSUME InboundInit PROVE InboundInv
  OBVIOUS
<1>1. InboundTypeOK
  <2>1. postPc \in [Posts -> PostSteps] /\ opPc \in [Operators -> {"idle", "read", "written", "done"}]
    BY DEF InboundInit, PostSteps, PostEnds
  <2>2. turnTries \in [Posts -> 0..TurnMaxRetries] /\ turnFaults \in 0..MaxTurnFaults
    BY InboundAssumption DEF InboundInit
  <2>3. /\ recorded \in [Messages -> Nat] /\ answers \in [Messages -> Nat]
        /\ doubled \in [Messages -> Nat] /\ unsaved \in [Messages -> Nat]
    BY DEF InboundInit
  <2> QED
    BY <2>1, <2>2, <2>3 DEF InboundInit, InboundTypeOK, PostSteps
<1>2. Pauses
  BY DEF InboundInit, Pauses, TurnHolds, OpHolds, UnderCopies, Holding, PostEnds
<1>3. Counted
  <2> SUFFICES ASSUME NEW m \in Messages
               PROVE /\ Claimants(m) <= doubled[m] + KeySet(m)
                     /\ recorded[m] <= Recorders(m)
                     /\ answers[m] <= unsaved[m] + Repliers(m)
    BY DEF Counted
  <2>1. At(postPc, m, PastClaim) = {} /\ At(postPc, m, {"done"}) = {} /\ At(postPc, m, Answerers) = {}
    BY DEF InboundInit, At, PastClaim, Answerers, InTurn
  <2>2. Claimants(m) = 0 /\ Recorders(m) = 0 /\ Repliers(m) = 0
    BY <2>1, FS_EmptySet DEF Claimants, Recorders, Repliers
  <2>3. doubled[m] = 0 /\ KeySet(m) = 0 /\ recorded[m] = 0 /\ answers[m] = 0 /\ unsaved[m] = 0
    BY DEF InboundInit, KeySet
  <2> QED
    BY <2>2, <2>3
<1> QED
  BY <1>1, <1>2, <1>3 DEF InboundInv

\* Whatever is delivered, lost or retried, every variable keeps its type.
THEOREM InboundTypeCorrect == InboundSpec => []InboundTypeOK
<1>1. InboundInit => InboundTypeOK
  BY InboundInitInv DEF InboundInv
<1> QED
  BY <1>1, InboundTypeStep, PTL DEF InboundSpec

\* The invariant holds.
THEOREM InboundInvariant == InboundSpec => []InboundInv
<1>1. InboundInv /\ [InboundNext]_InboundVars => InboundInv'
  BY InboundTypeStep, PausesStep, CountedStep DEF InboundInv
<1> QED
  BY <1>1, InboundInitInv, PTL DEF InboundSpec

\* For any number of turns and operators: a pause that an operator was told of
\* stays until a turn or an operator ends it, and no turn begun under it answers,
\* through the flow or with MEDIA_FALLBACK, but the one that ends it.
THEOREM PausesHold == InboundSpec => []PauseHolds
<1>1. InboundInv => PauseHolds
  BY DEF InboundInv, InboundTypeOK, Pauses, TurnHolds, UnderCopies, PauseHolds, Lifted, Holding
<1> QED
  BY <1>1, InboundInvariant, PTL

\* For any number of deliveries, retries and faults: a second answer, or a
\* second record, has an outage or a rolled back turn behind it.
THEOREM AnswersAreAccounted == InboundSpec => []AnswersAccounted
<1>1. InboundInv => AnswersAccounted
  <2> SUFFICES ASSUME InboundInv, NEW m \in Messages
               PROVE /\ answers[m] <= 1 + doubled[m] + unsaved[m]
                     /\ recorded[m] <= 1 + doubled[m]
    BY DEF AnswersAccounted
  <2>1. /\ At(postPc, m, PastClaim) \in SUBSET Posts
        /\ At(postPc, m, {"done"}) \in SUBSET At(postPc, m, PastClaim)
        /\ At(postPc, m, Answerers) \in SUBSET At(postPc, m, PastClaim)
    BY DEF At, PastClaim, Answerers, InTurn
  <2>2. IsFiniteSet(At(postPc, m, PastClaim))
    BY <2>1, InboundAssumption, FS_Subset
  <2>3. /\ Recorders(m) <= Claimants(m) /\ Repliers(m) <= Claimants(m)
        /\ Claimants(m) \in Nat /\ Recorders(m) \in Nat /\ Repliers(m) \in Nat
    BY <2>1, <2>2, FS_Subset, FS_CardinalityType DEF Claimants, Recorders, Repliers
  <2>4. /\ KeySet(m) \in 0..1 /\ doubled[m] \in Nat /\ recorded[m] \in Nat /\ answers[m] \in Nat
        /\ unsaved[m] \in Nat
    BY DEF InboundInv, InboundTypeOK, KeySet
  <2>5. /\ Claimants(m) <= doubled[m] + KeySet(m) /\ recorded[m] <= Recorders(m)
        /\ answers[m] <= unsaved[m] + Repliers(m)
    BY DEF InboundInv, Counted
  <2> QED
    BY <2>3, <2>4, <2>5
<1> QED
  BY <1>1, InboundInvariant, PTL
=============================================================================
