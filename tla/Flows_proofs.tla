---------------------------- MODULE Flows_proofs ----------------------------
(***************************************************************************)
(* Proofs about a bot's flow: FlowPublication, the writers of its row and  *)
(* the processes that keep copies, and FlowWalk, the turns that follow it. *)
(*                                                                         *)
(* FlowPublication, for any number of sessions, processes and faults: the  *)
(* database shows a serial history of publications, and an entry that is   *)
(* served between publications is stale only if it was made during one or  *)
(* its process is cut off from Redis, and then it is a committed one.      *)
(*                                                                         *)
(* FlowWalk, for any graphs and any publications in between: the stored    *)
(* step is the one the client has seen, and a graph without a way back     *)
(* calls each of its CRM and API nodes once in a turn.                     *)
(***************************************************************************)
EXTENDS FlowPublication, FlowWalk, SequenceTheorems, TLAPS

-----------------------------------------------------------------------------
(* FlowPublication: the inductive invariant.                               *)

Active == {"written", "stamped", "bumped", "put"}
Announced == {"bumped", "put"}

\* A session that has flushed the row holds its lock; a draft that is no
\* restorer's is the session's own graph.
Writing ==
    \A w \in Writers :
        /\ flowPc[w] \in Active => flowLock = w
        /\ flowPc[w] \in {"stamped", "bumped", "put"} => w \in Movers
        /\ w \notin Restorers => flowDraft[w] = w

IsTop(v) == v \in DOMAIN revisions /\ \A u \in DOMAIN revisions : u <= v

\* A session that has taken its snapshot is going to add the next revision.
Numbered ==
    \A w \in Stampers :
        flowPc[w] \in {"stamped", "bumped", "put"} => \E v \in Nat : IsTop(v) /\ flowVersion[w] = v + 1

Topmost == \E v \in Nat : IsTop(v) /\ (live \notin Adopters => revisions[v] = live)
Published ==
    \A w \in Publishers : flowPc[w] = "done" => \E v \in DOMAIN revisions : revisions[v] = w

\* An entry of the version that Redis has.
Current(q) == flowCache[q] # NoFlow /\ flowCache[q].ver = redisVer

\* A current entry that was not made in a race: while a session is between its
\* version and its commit it is that session's own entry, made with its draft;
\* at any other time it holds what was published last.
Entries ==
    \A q \in Procs :
        /\ flowCache[q] # NoFlow => flowCache[q].ver <= redisVer
        /\ Current(q) /\ q \notin raced =>
              IF Between
              THEN \E w \in Movers :
                        flowPc[w] = "put" /\ Home[w] = q /\ flowCache[q].graph = flowDraft[w]
              ELSE flowCache[q].graph \in {live} \union Savers

RowIsLive == flowRow \in {live} \union Savers

\* Graphs that sessions have committed: the row, the revisions, what a restorer
\* brings back, and an entry of any version that was not made in a race, unless
\* the session that made it is about to commit.
Kept ==
    /\ Committed(flowRow)
    /\ \A v \in DOMAIN revisions : Committed(revisions[v])
    /\ \A w \in Restorers : flowPc[w] \in Active => Committed(flowDraft[w])
    /\ \A q \in Procs :
          flowCache[q] # NoFlow /\ q \notin raced =>
              \/ Committed(flowCache[q].graph)
              \/ \E w \in Movers :
                    flowPc[w] = "put" /\ Home[w] = q /\ flowCache[q].graph = flowDraft[w]

PublicationInv ==
    /\ FlowTypeOK /\ Writing /\ Numbered /\ Topmost /\ Published
    /\ RowIsLive /\ Entries /\ Kept

-----------------------------------------------------------------------------
\* Every action keeps the types.
LEMMA PublicationTypeStep == FlowTypeOK /\ [FlowNext]_FlowVars => FlowTypeOK'
<1> SUFFICES ASSUME FlowTypeOK, [FlowNext]_FlowVars PROVE FlowTypeOK'
  OBVIOUS
<1> USE FlowAssumption
<1> USE DEF FlowTypeOK, FlowGoto, flowData, flowSession, flowLoad, flowRedis
<1>0. \A q : Tag(q) \in Nat
  BY DEF Tag
<1>1. ASSUME NEW w \in Writers, WriteFlow(w) PROVE FlowTypeOK'
  <2>1. flowDraft' \in [Writers -> GraphIds]
    <3>1. Candidates(w) \subseteq GraphIds
      BY DEF Candidates, GraphIds
    <3> QED
      BY <1>1, <3>1 DEF WriteFlow
  <2> QED
    BY <1>1, <2>1 DEF WriteFlow, FlowSteps
<1>2. ASSUME NEW w \in Writers, Snapshot(w) PROVE FlowTypeOK'
  <2>1. flowVersion' \in [Writers -> Nat]
    BY <1>2 DEF Snapshot
  <2> QED
    BY <1>2, <2>1 DEF Snapshot, FlowSteps
<1>3. ASSUME NEW w \in Writers, Invalidate(w) \/ BumpFails(w) PROVE FlowTypeOK'
  <2>1. Home[w] \in Procs
    OBVIOUS
  <2>2. flowCache' \in [Procs -> [graph : GraphIds, ver : Nat] \union {NoFlow}]
    BY <1>3, <2>1 DEF Invalidate, BumpFails
  <2>3. flowFaults' \in 0..MaxFlowFaults /\ redisVer' \in Nat
    BY <1>3 DEF Invalidate, BumpFails
  <2>4. flowPc' \in [Writers -> FlowSteps]
    BY <1>3 DEF Invalidate, BumpFails, FlowSteps
  <2>5. raced' \subseteq Procs
    BY <1>3 DEF Invalidate, BumpFails
  <2> QED
    BY <1>3, <2>2, <2>3, <2>4, <2>5 DEF Invalidate, BumpFails
<1>4. ASSUME NEW w \in Writers, PutOwn(w) PROVE FlowTypeOK'
  <2>1. flowCache' \in [Procs -> [graph : GraphIds, ver : Nat] \union {NoFlow}]
    BY <1>0, <1>4 DEF PutOwn
  <2> QED
    BY <1>4, <2>1 DEF PutOwn, FlowSteps
<1>5. ASSUME NEW w \in Writers, CommitFlow(w) PROVE FlowTypeOK'
  <2>1. flowDraft[w] \in GraphIds /\ flowVersion[w] \in Nat
    OBVIOUS
  <2>2. /\ DOMAIN revisions' \subseteq Nat
        /\ \A v \in DOMAIN revisions' : revisions'[v] \in GraphIds
    BY <1>5, <2>1 DEF CommitFlow
  <2> QED
    BY <1>5, <2>1, <2>2 DEF CommitFlow, FlowSteps
<1>6. ASSUME NEW w \in Writers, RollbackFlow(w) PROVE FlowTypeOK'
  <2>1. raced' \subseteq Procs
    BY <1>6 DEF RollbackFlow
  <2> QED
    BY <1>6, <2>1 DEF RollbackFlow, FlowFault, FlowSteps
<1>7. ASSUME NEW q \in Procs, OpenTurn(q) \/ ServeCached(q) PROVE FlowTypeOK'
  <2>1. ServeCached(q) => flowCache[q].graph \in GraphIds
    BY DEF ServeCached, Fresh
  <2>2. loadPc' \in [Procs -> {"idle", "open", "loaded"}] /\ loaded' \in [Procs -> GraphIds]
    BY <1>7, <2>1 DEF OpenTurn, ServeCached
  <2> QED
    BY <1>7, <2>2 DEF OpenTurn, ServeCached
<1>8. ASSUME NEW q \in Procs, LoadFlow(q) \/ FillCache(q) PROVE FlowTypeOK'
  <2>1. flowCache' \in [Procs -> [graph : GraphIds, ver : Nat] \union {NoFlow}]
    BY <1>0, <1>8 DEF LoadFlow, FillCache
  <2>2. /\ loadPc' \in [Procs -> {"idle", "open", "loaded"}] /\ loaded' \in [Procs -> GraphIds]
        /\ raced' \subseteq Procs
    BY <1>8 DEF LoadFlow, FillCache
  <2> QED
    BY <1>8, <2>1, <2>2 DEF LoadFlow, FillCache
<1>9. CASE LoseRedis \/ RegainRedis
  BY <1>9 DEF LoseRedis, RegainRedis, FlowFault
<1>10. CASE UNCHANGED FlowVars
  BY <1>10 DEF FlowVars
<1> QED
  BY <1>1, <1>2, <1>3, <1>4, <1>5, <1>6, <1>7, <1>8, <1>9, <1>10 DEF FlowNext

-----------------------------------------------------------------------------
(* Locks, drafts and revisions.                                            *)

LEMMA WritingStep == FlowTypeOK /\ Writing /\ [FlowNext]_FlowVars => Writing'
<1> SUFFICES ASSUME FlowTypeOK, Writing, [FlowNext]_FlowVars PROVE Writing'
  OBVIOUS
<1> USE FlowAssumption
<1> USE DEF flowData, flowSession, flowLoad, flowRedis, FlowGoto
<1>1. ASSUME NEW w \in Writers, WriteFlow(w) PROVE Writing'
  <2>1. flowLock = NoFlow /\ flowLock' = w /\ flowPc' = [flowPc EXCEPT ![w] = "written"]
    BY <1>1 DEF WriteFlow
  <2>2. \A i \in Writers : flowPc[i] \notin Active
    BY <2>1 DEF Writing, GraphIds
  <2>3. flowPc'[w] = "written" /\ \A i \in Writers \ {w} : flowPc'[i] = flowPc[i]
    BY <2>1 DEF FlowTypeOK
  <2>4. \A i \in Writers : i \notin Restorers => flowDraft'[i] = i
    BY <1>1 DEF WriteFlow, Candidates, Writing, FlowTypeOK
  <2> QED
    BY <2>1, <2>2, <2>3, <2>4 DEF Writing, Active
<1>2. ASSUME NEW w \in Writers,
             Snapshot(w) \/ Invalidate(w) \/ BumpFails(w) \/ PutOwn(w)
      PROVE Writing'
  <2>1. flowPc[w] \in Active /\ w \in Movers /\ UNCHANGED <<flowLock, flowDraft>>
    BY <1>2 DEF Snapshot, Invalidate, BumpFails, PutOwn, AtInvalidate, Writing, Active, Movers
  <2>2. \A i \in Writers \ {w} : flowPc'[i] = flowPc[i]
    BY <1>2 DEF Snapshot, Invalidate, BumpFails, PutOwn, FlowTypeOK
  <2> QED
    BY <2>1, <2>2 DEF Writing
<1>3. ASSUME NEW w \in Writers, CommitFlow(w) \/ RollbackFlow(w) PROVE Writing'
  <2>1. flowLock = w /\ UNCHANGED flowDraft
    BY <1>3 DEF CommitFlow, RollbackFlow, ReadyToCommit, Writing, Active
  <2>2. flowPc'[w] \notin Active /\ \A i \in Writers \ {w} : flowPc'[i] = flowPc[i]
    BY <1>3 DEF CommitFlow, RollbackFlow, FlowTypeOK, Active
  <2> QED
    BY <2>1, <2>2 DEF Writing, Active
<1>4. ASSUME NEW q \in Procs, OpenTurn(q) \/ ServeCached(q) \/ LoadFlow(q) \/ FillCache(q) PROVE Writing'
  BY <1>4 DEF OpenTurn, ServeCached, LoadFlow, FillCache, Writing
<1>5. CASE LoseRedis \/ RegainRedis \/ UNCHANGED FlowVars
  BY <1>5 DEF LoseRedis, RegainRedis, FlowVars, Writing
<1> QED
  BY <1>1, <1>2, <1>3, <1>4, <1>5 DEF FlowNext

Revised == Numbered /\ Topmost /\ Published

LEMMA RevisedStep ==
    FlowTypeOK /\ Writing /\ Revised /\ [FlowNext]_FlowVars => Revised'
<1> SUFFICES ASSUME FlowTypeOK, Writing, Revised, [FlowNext]_FlowVars PROVE Revised'
  OBVIOUS
<1> USE FlowAssumption
<1> USE DEF flowData, flowSession, flowLoad, flowRedis, FlowGoto
<1>0. ASSUME UNCHANGED <<revisions, flowVersion, live>>,
             \A w \in Stampers : flowPc'[w] \in {"stamped", "bumped", "put"} =>
                                 flowPc[w] \in {"stamped", "bumped", "put"},
             \A w \in Publishers : flowPc'[w] = "done" => flowPc[w] = "done"
      PROVE Revised'
  BY <1>0 DEF Revised, Numbered, Topmost, Published, IsTop
<1>1. ASSUME NEW w \in Writers,
             WriteFlow(w) \/ Invalidate(w) \/ BumpFails(w) \/ PutOwn(w) \/ RollbackFlow(w)
      PROVE Revised'
  <2>1. UNCHANGED <<revisions, flowVersion, live>>
    BY <1>1 DEF WriteFlow, Invalidate, BumpFails, PutOwn, RollbackFlow
  <2>2. /\ flowPc'[w] \in {"bumped", "put"} /\ w \in Stampers => flowPc[w] \in {"stamped", "bumped"}
        /\ flowPc'[w] \notin {"done", "stamped"}
        /\ \A i \in Writers \ {w} : flowPc'[i] = flowPc[i]
    BY <1>1 DEF WriteFlow, Invalidate, BumpFails, PutOwn, RollbackFlow, AtInvalidate, FlowTypeOK
  <2> QED
    BY <1>0, <2>1, <2>2 DEF Stampers, Writers
<1>2. ASSUME NEW w \in Writers, Snapshot(w) PROVE Revised'
  <2>1. UNCHANGED <<revisions, live>>
    BY <1>2 DEF Snapshot
  <2>2. /\ flowPc'[w] = "stamped" /\ \A i \in Writers \ {w} : flowPc'[i] = flowPc[i]
        /\ \A i \in Writers \ {w} : flowVersion'[i] = flowVersion[i]
    BY <1>2 DEF Snapshot, FlowTypeOK
  <2>3. PICK v \in DOMAIN revisions : IsTop(v) /\ flowVersion'[w] = v + 1
    BY <1>2 DEF Snapshot, FlowTypeOK, IsTop
  <2>4. Numbered'
    BY <2>1, <2>2, <2>3 DEF Revised, Numbered, IsTop, FlowTypeOK, Stampers, Writers
  <2>5. Topmost' /\ Published'
    BY <2>1, <2>2 DEF Revised, Topmost, Published, IsTop, Writers
  <2> QED
    BY <2>4, <2>5 DEF Revised
<1>3. ASSUME NEW w \in Writers, CommitFlow(w) PROVE Revised'
  <2>1. /\ flowPc'[w] = "done" /\ \A i \in Writers \ {w} : flowPc'[i] = flowPc[i]
        /\ UNCHANGED flowVersion
    BY <1>3 DEF CommitFlow, FlowTypeOK
  <2>2. \A i \in Writers \ {w} : flowPc[i] \notin Active
    BY <1>3 DEF CommitFlow, ReadyToCommit, Writing, Active
  <2>3. Numbered'
    BY <2>1, <2>2 DEF Numbered, Active, Stampers, Writers
  <2>4. CASE w \in Stampers
    <3>1. PICK v \in Nat : IsTop(v) /\ flowVersion[w] = v + 1
      BY <1>3, <2>4 DEF CommitFlow, ReadyToCommit, Revised, Numbered, Movers
    <3>2. /\ DOMAIN revisions' = DOMAIN revisions \union {v + 1}
          /\ revisions'[v + 1] = flowDraft[w] /\ live' = flowDraft[w]
          /\ \A u \in DOMAIN revisions : u # v + 1 /\ revisions'[u] = revisions[u]
      BY <1>3, <2>4, <3>1 DEF CommitFlow, IsTop, Movers, FlowTypeOK
    <3>3. IsTop(v + 1)'
      BY <3>1, <3>2 DEF IsTop, FlowTypeOK
    <3>4. Topmost'
      BY <3>2, <3>3 DEF Topmost
    <3>5. Published'
      BY <2>1, <3>2 DEF Published, Revised, Writing, Writers
    <3> QED
      BY <2>3, <3>4, <3>5 DEF Revised
  <2>5. CASE w \notin Stampers
    <3>1. revisions' = revisions /\ (live' = live \/ (w \in Adopters /\ live' = w))
      BY <1>3, <2>5 DEF CommitFlow, Movers, Writing, Stampers
    <3>2. Topmost'
      BY <3>1 DEF Revised, Topmost, IsTop
    <3>3. Published'
      BY <2>1, <2>5, <3>1 DEF Revised, Published, Stampers, Writers
    <3> QED
      BY <2>3, <3>2, <3>3 DEF Revised
  <2> QED
    BY <2>4, <2>5
<1>4. ASSUME NEW q \in Procs, OpenTurn(q) \/ ServeCached(q) \/ LoadFlow(q) \/ FillCache(q) PROVE Revised'
  BY <1>0, <1>4 DEF OpenTurn, ServeCached, LoadFlow, FillCache
<1>5. CASE LoseRedis \/ RegainRedis \/ UNCHANGED FlowVars
  BY <1>0, <1>5 DEF LoseRedis, RegainRedis, FlowVars
<1> QED
  BY <1>1, <1>2, <1>3, <1>4, <1>5 DEF FlowNext

-----------------------------------------------------------------------------
(* Entries.                                                                *)

Cached == RowIsLive /\ Entries

LEMMA CachedStep ==
    FlowTypeOK /\ FlowTypeOK' /\ Writing /\ Cached /\ [FlowNext]_FlowVars => Cached'
<1> SUFFICES ASSUME FlowTypeOK, FlowTypeOK', Writing, Cached, [FlowNext]_FlowVars PROVE Cached'
  OBVIOUS
<1> USE FlowAssumption
<1> USE DEF flowData, flowSession, flowLoad, flowRedis, FlowGoto
\* Nothing that Cached speaks of changes.
<1>0. ASSUME UNCHANGED <<flowRow, live, flowCache, redisVer, raced, flowDraft>>,
             \A w \in Movers : flowPc'[w] \in Announced <=> flowPc[w] \in Announced,
             \A w \in Movers : flowPc[w] = "put" => flowPc'[w] = "put"
      PROVE Cached'
  <2>1. Between' <=> Between
    BY <1>0 DEF Between, Announced
  <2>2. \A q \in Procs : Current(q)' <=> Current(q)
    BY <1>0 DEF Current
  <2> QED
    BY <1>0, <2>1, <2>2 DEF Cached, RowIsLive, Entries
<1>1. ASSUME NEW w \in Writers, WriteFlow(w) PROVE Cached'
  <2>1. \A i \in Writers : flowPc[i] \notin Announced
    BY <1>1 DEF WriteFlow, Writing, Active, Announced, GraphIds
  <2>2. \A i \in Writers : flowPc'[i] \notin Announced
    BY <1>1, <2>1 DEF WriteFlow, FlowTypeOK, Announced
  <2>3. ~Between /\ ~Between'
    BY <2>1, <2>2 DEF Between, Movers, Stampers, Writers, Announced
  <2>4. \A q \in Procs : Current(q)' <=> Current(q)
    BY <1>1 DEF WriteFlow, Current
  <2> QED
    BY <1>1, <2>3, <2>4 DEF WriteFlow, Cached, RowIsLive, Entries
<1>2. ASSUME NEW w \in Writers, Snapshot(w) PROVE Cached'
  <2>1. UNCHANGED <<flowRow, live, flowCache, redisVer, raced, flowDraft>>
    BY <1>2 DEF Snapshot
  <2>2. \A i \in Writers : /\ flowPc'[i] \in Announced <=> flowPc[i] \in Announced
                           /\ flowPc[i] = "put" => flowPc'[i] = "put"
    BY <1>2 DEF Snapshot, FlowTypeOK, Announced
  <2> QED
    BY <1>0, <2>1, <2>2 DEF Movers, Stampers, Writers
<1>3. ASSUME NEW w \in Writers, Invalidate(w) \/ BumpFails(w) PROVE Cached'
  <2>1. /\ flowRow' = flowRow /\ live' = live
        /\ \A q \in Procs : flowCache'[q] = NoFlow \/ flowCache'[q] = flowCache[q]
    BY <1>3 DEF Invalidate, BumpFails, FlowTypeOK
  <2>2. redisVer' = redisVer + 1 \/ (redisVer' = redisVer /\ raced' = Procs)
    BY <1>3 DEF Invalidate, BumpFails
  <2>3. ASSUME NEW q \in Procs
        PROVE  /\ flowCache'[q] # NoFlow => flowCache'[q].ver <= redisVer'
               /\ ~(Current(q)' /\ q \notin raced')
    <3>1. flowCache[q] # NoFlow => flowCache[q].ver <= redisVer /\ flowCache[q].ver \in Nat
      BY DEF Cached, Entries, FlowTypeOK
    <3>2. redisVer \in Nat
      BY DEF FlowTypeOK
    <3> QED
      BY <2>1, <2>2, <3>1, <3>2 DEF Current
  <2> QED
    BY <2>1, <2>3 DEF Cached, RowIsLive, Entries
<1>4. ASSUME NEW w \in Writers, PutOwn(w) PROVE Cached'
  <2>1. /\ w \in Movers /\ flowPc[w] = "bumped" /\ flowPc'[w] = "put" /\ Between /\ Between'
        /\ UNCHANGED <<flowRow, live, redisVer, flowDraft>>
    BY <1>4 DEF PutOwn, Writing, Between, FlowTypeOK
  <2>2. \A i \in Movers : flowPc[i] # "put"
    BY <2>1 DEF Writing, Active, Movers, Stampers, Writers
  <2>3. ASSUME NEW q \in Procs
        PROVE  /\ flowCache'[q] # NoFlow => flowCache'[q].ver <= redisVer'
               /\ Current(q)' /\ q \notin raced' =>
                     Home[w] = q /\ flowCache'[q].graph = flowDraft'[w]
    <3>1. CASE q = Home[w]
      <4>1. /\ flowCache'[q] = [graph |-> flowDraft[w], ver |-> Tag(q)]
            /\ Tag(q) <= redisVer /\ redisVer \in Nat
        BY <1>4, <3>1 DEF PutOwn, Tag, FlowTypeOK
      <4>2. flowCache'[q].graph = flowDraft[w] /\ flowCache'[q].ver <= redisVer
        BY <4>1
      <4> QED
        BY <2>1, <3>1, <4>1, <4>2
    <3>2. CASE q # Home[w]
      <4>1. flowCache'[q] = flowCache[q] /\ (q \in raced' <=> q \in raced)
        BY <1>4, <3>2 DEF PutOwn, FlowTypeOK
      <4>2. ~(Current(q) /\ q \notin raced)
        BY <2>1, <2>2 DEF Cached, Entries
      <4> QED
        BY <2>1, <4>1, <4>2 DEF Cached, Entries, Current
    <3> QED
      BY <3>1, <3>2
  <2> QED
    BY <2>1, <2>3 DEF Cached, RowIsLive, Entries
<1>5. ASSUME NEW w \in Writers, CommitFlow(w) PROVE Cached'
  <2>1. /\ UNCHANGED <<flowCache, redisVer, raced, flowDraft>> /\ flowRow' = flowDraft[w]
        /\ \A q \in Procs : Current(q)' <=> Current(q)
    BY <1>5 DEF CommitFlow, Current
  <2>2. \A i \in Writers \ {w} : flowPc[i] \notin Active /\ flowPc'[i] = flowPc[i]
    BY <1>5 DEF CommitFlow, ReadyToCommit, Writing, Active, FlowTypeOK
  <2>3. flowPc'[w] = "done" /\ ~Between'
    BY <1>5, <2>2 DEF CommitFlow, FlowTypeOK, Between, Active, Movers, Stampers, Writers
  <2>4. CASE w \in Movers
    <3>1. flowPc[w] = "put" /\ Between /\ live' = flowDraft[w]
      BY <1>5, <2>4 DEF CommitFlow, ReadyToCommit, Between
    <3>2. \A i \in Movers : flowPc[i] = "put" => i = w
      BY <2>2 DEF Active, Movers, Stampers, Writers
    <3> QED
      BY <2>1, <2>3, <3>1, <3>2 DEF Cached, RowIsLive, Entries
  <2>5. CASE w \in Savers
    <3>1. live' = live /\ flowDraft[w] = w
      BY <1>5, <2>5 DEF CommitFlow, Movers, Stampers, Writing
    <3>2. ~Between
      BY <1>5, <2>2, <2>5 DEF Between, Active, Movers, Stampers, Writers
    <3> QED
      BY <2>1, <2>3, <2>5, <3>1, <3>2 DEF Cached, RowIsLive, Entries
  <2> QED
    BY <2>4, <2>5 DEF Writers, Movers, Stampers
<1>6. ASSUME NEW w \in Writers, RollbackFlow(w) PROVE Cached'
  <2>1. /\ UNCHANGED <<flowRow, live, flowCache, redisVer, flowDraft>> /\ raced \subseteq raced'
        /\ \A q \in Procs : Current(q)' <=> Current(q)
    BY <1>6 DEF RollbackFlow, Current
  <2>2. \A i \in Writers \ {w} : flowPc[i] \notin Active /\ flowPc'[i] = flowPc[i]
    BY <1>6 DEF RollbackFlow, Writing, Active, FlowTypeOK
  <2>3. flowPc'[w] = "failed" /\ ~Between'
    BY <1>6, <2>2 DEF RollbackFlow, FlowTypeOK, Between, Active, Movers, Stampers, Writers
  <2>4. ASSUME NEW q \in Procs, Current(q), q \notin raced'
        PROVE  flowCache[q].graph \in {live} \union Savers
    <3>1. CASE Between
      <4>1. PICK i \in Movers : flowPc[i] = "put" /\ Home[i] = q
        BY <2>1, <2>4, <3>1 DEF Cached, Entries
      <4>2. i = w
        BY <4>1, <2>2 DEF Active, Movers, Stampers, Writers
      <4> QED
        BY <1>6, <2>4, <4>1, <4>2 DEF RollbackFlow
    <3>2. CASE ~Between
      BY <2>1, <2>4, <3>2 DEF Cached, Entries
    <3> QED
      BY <3>1, <3>2
  <2> QED
    BY <2>1, <2>3, <2>4 DEF Cached, RowIsLive, Entries
<1>7. ASSUME NEW p \in Procs, OpenTurn(p) \/ ServeCached(p) PROVE Cached'
  BY <1>0, <1>7 DEF OpenTurn, ServeCached
<1>8. ASSUME NEW p \in Procs, LoadFlow(p) PROVE Cached'
  <2>1. UNCHANGED <<flowRow, live, redisVer, raced, flowDraft, flowPc>>
    BY <1>8 DEF LoadFlow
  <2>2. Between' <=> Between
    BY <2>1 DEF Between
  <2>3. flowCache'[p] = NoFlow /\ \A q \in Procs \ {p} : flowCache'[q] = flowCache[q]
    BY <1>8 DEF LoadFlow, FlowTypeOK
  <2> QED
    BY <2>1, <2>2, <2>3 DEF Cached, RowIsLive, Entries, Current
<1>9. ASSUME NEW p \in Procs, FillCache(p) PROVE Cached'
  <2>1. UNCHANGED <<flowRow, live, redisVer, flowDraft, flowPc>>
    BY <1>9 DEF FillCache
  <2>2. Between' <=> Between
    BY <2>1 DEF Between
  <2>3. /\ flowCache'[p] = [graph |-> loaded[p], ver |-> Tag(p)]
        /\ Tag(p) <= redisVer /\ redisVer \in Nat
        /\ \A q \in Procs \ {p} : flowCache'[q] = flowCache[q] /\ (q \in raced' <=> q \in raced)
        /\ p \notin raced' => ~Between /\ loaded[p] = flowRow
    BY <1>9 DEF FillCache, Tag, FlowTypeOK
  <2>4. ASSUME NEW q \in Procs \ {p}
        PROVE  /\ flowCache'[q] # NoFlow => flowCache'[q].ver <= redisVer'
               /\ Current(q)' /\ q \notin raced' =>
                     IF Between'
                     THEN \E w \in Movers :
                        flowPc'[w] = "put" /\ Home[w] = q /\ flowCache'[q].graph = flowDraft'[w]
                     ELSE flowCache'[q].graph \in {live'} \union Savers
    <3>1. Current(q)' <=> Current(q)
      BY <2>1, <2>3 DEF Current
    <3> QED
      BY <2>1, <2>2, <2>3, <3>1 DEF Cached, Entries
  <2>5. /\ flowCache'[p].ver <= redisVer'
        /\ p \notin raced' => ~Between' /\ flowCache'[p].graph \in {live'} \union Savers
    BY <2>1, <2>2, <2>3 DEF Cached, RowIsLive
  <2> QED
    BY <2>1, <2>4, <2>5 DEF Cached, RowIsLive, Entries
<1>10. CASE LoseRedis \/ RegainRedis \/ UNCHANGED FlowVars
  BY <1>0, <1>10 DEF LoseRedis, RegainRedis, FlowVars
<1> QED
  BY <1>1, <1>2, <1>3, <1>4, <1>5, <1>6, <1>7, <1>8, <1>9, <1>10 DEF FlowNext

LEMMA KeptStep == FlowTypeOK /\ Writing /\ Kept /\ [FlowNext]_FlowVars => Kept'
<1> SUFFICES ASSUME FlowTypeOK, Writing, Kept, [FlowNext]_FlowVars PROVE Kept'
  OBVIOUS
<1> USE FlowAssumption
<1> USE DEF flowData, flowSession, flowLoad, flowRedis, FlowGoto
\* No commit is undone.
<1>0. ASSUME NEW w \in Writers, \A i \in Writers \ {w} : flowPc'[i] = flowPc[i],
             flowPc[w] = "done" => flowPc'[w] = "done"
      PROVE  \A g \in GraphIds : Committed(g) => Committed(g)'
  BY <1>0 DEF Committed, GraphIds
<1>1. ASSUME NEW w \in Writers, WriteFlow(w) PROVE Kept'
  <2>1. /\ \A i \in Writers \ {w} : flowPc'[i] = flowPc[i] /\ flowDraft'[i] = flowDraft[i]
        /\ flowPc[w] = "idle" /\ UNCHANGED <<flowRow, revisions, flowCache, raced>>
    BY <1>1 DEF WriteFlow, FlowTypeOK
  <2>2. \A g \in GraphIds : Committed(g) => Committed(g)'
    BY <1>0, <2>1
  <2>3. w \in Restorers => Committed(flowDraft[w])'
    <3>1. ASSUME w \in Restorers PROVE \E v \in DOMAIN revisions : flowDraft'[w] = revisions[v]
      BY <1>1, <3>1 DEF WriteFlow, Candidates, FlowTypeOK
    <3> QED
      BY <2>2, <3>1 DEF Kept, FlowTypeOK
  <2>4. \A i \in Restorers : flowPc'[i] \in Active => Committed(flowDraft[i])'
    BY <2>1, <2>2, <2>3 DEF Kept, FlowTypeOK, Writers
  <2>5. \A i \in Movers : flowPc[i] = "put" => flowPc'[i] = "put" /\ flowDraft'[i] = flowDraft[i]
    BY <2>1 DEF Movers, Stampers, Writers
  <2> QED
    BY <2>1, <2>2, <2>4, <2>5 DEF Kept, FlowTypeOK
\* A step of a session that leaves the row, the revisions and the drafts alone.
<1>2. ASSUME NEW w \in Writers, flowPc[w] \in Active,
             \A i \in Writers \ {w} : flowPc'[i] = flowPc[i],
             UNCHANGED <<flowRow, revisions, flowDraft>>,
             \A q \in Procs : flowCache'[q] # NoFlow /\ q \notin raced' =>
                 \/ flowPc'[w] = "put" /\ w \in Movers /\ Home[w] = q
                    /\ flowCache'[q].graph = flowDraft[w]
                 \/ /\ flowCache'[q] = flowCache[q] /\ q \notin raced
                    /\ ~(flowPc[w] = "put" /\ Home[w] = q)
      PROVE  Kept'
  <2>1. \A g \in GraphIds : Committed(g) => Committed(g)'
    BY <1>0, <1>2 DEF Active
  <2>2. \A i \in Restorers : flowPc'[i] \in Active => flowPc[i] \in Active
    BY <1>2 DEF Writers
  <2>3. \A i \in Movers : flowPc[i] = "put" => i = w
    BY <1>2 DEF Writing, Active, Movers, Stampers, Writers
  <2>4. ASSUME NEW q \in Procs, flowCache'[q] # NoFlow, q \notin raced'
        PROVE  \/ Committed(flowCache[q].graph)'
               \/ \E i \in Movers :
                     flowPc'[i] = "put" /\ Home[i] = q /\ flowCache'[q].graph = flowDraft'[i]
    <3>1. CASE /\ flowCache'[q] = flowCache[q] /\ q \notin raced
               /\ ~(flowPc[w] = "put" /\ Home[w] = q)
      <4>1. Committed(flowCache[q].graph) /\ flowCache[q].graph \in GraphIds
        BY <2>3, <2>4, <3>1 DEF Kept, FlowTypeOK
      <4> QED
        BY <2>1, <3>1, <4>1
    <3> QED
      BY <1>2, <2>4, <3>1
  <2>5. Committed(flowRow)' /\ \A v \in DOMAIN revisions' : Committed(revisions[v])'
    BY <1>2, <2>1 DEF Kept, FlowTypeOK
  <2>6. \A i \in Restorers : flowPc'[i] \in Active => Committed(flowDraft[i])'
    BY <1>2, <2>1, <2>2 DEF Kept, FlowTypeOK, Writers
  <2> QED
    BY <2>4, <2>5, <2>6 DEF Kept
<1>3. ASSUME NEW w \in Writers, Snapshot(w) \/ Invalidate(w) \/ BumpFails(w) PROVE Kept'
  <2>1. /\ flowPc[w] \in Active /\ flowPc[w] # "put"
        /\ UNCHANGED <<flowRow, revisions, flowDraft>>
        /\ \A i \in Writers \ {w} : flowPc'[i] = flowPc[i]
    BY <1>3 DEF Snapshot, Invalidate, BumpFails, AtInvalidate, Active, FlowTypeOK
  <2>2. \A q \in Procs : flowCache'[q] \in {flowCache[q], NoFlow} /\ (q \in raced => q \in raced')
    BY <1>3 DEF Snapshot, Invalidate, BumpFails, FlowTypeOK
  <2> QED
    BY <1>2, <2>1, <2>2
<1>4. ASSUME NEW w \in Writers, PutOwn(w) PROVE Kept'
  <2>1. /\ flowPc[w] = "bumped" /\ flowPc'[w] = "put" /\ w \in Movers
        /\ UNCHANGED <<flowRow, revisions, flowDraft>>
        /\ \A i \in Writers \ {w} : flowPc'[i] = flowPc[i]
    BY <1>4 DEF PutOwn, Writing, FlowTypeOK
  <2>2. \A q \in Procs :
           IF q = Home[w] THEN flowCache'[q].graph = flowDraft[w]
           ELSE flowCache'[q] = flowCache[q] /\ (q \in raced => q \in raced')
    BY <1>4 DEF PutOwn, FlowTypeOK
  <2> QED
    BY <1>2, <2>1, <2>2 DEF Active
<1>5. ASSUME NEW w \in Writers, RollbackFlow(w) PROVE Kept'
  <2>1. /\ flowPc[w] \in Active
        /\ UNCHANGED <<flowRow, revisions, flowDraft, flowCache>>
        /\ \A i \in Writers \ {w} : flowPc'[i] = flowPc[i]
        /\ raced \subseteq raced' /\ (flowPc[w] = "put" => Home[w] \in raced')
    BY <1>5 DEF RollbackFlow, Active, FlowTypeOK
  <2> QED
    BY <1>2, <2>1
<1>6. ASSUME NEW w \in Writers, CommitFlow(w) PROVE Kept'
  <2>1. /\ flowRow' = flowDraft[w] /\ UNCHANGED <<flowDraft, flowCache, raced>>
        /\ flowPc'[w] = "done" /\ \A i \in Writers \ {w} : flowPc'[i] = flowPc[i]
        /\ flowPc[w] \in Active
    BY <1>6 DEF CommitFlow, ReadyToCommit, Active, FlowTypeOK
  <2>2. \A g \in GraphIds : Committed(g) => Committed(g)'
    BY <1>0, <2>1
  <2>3. Committed(flowDraft[w])'
    <3>1. CASE w \in Restorers
      BY <2>1, <2>2, <3>1 DEF Kept, FlowTypeOK
    <3>2. CASE w \notin Restorers
      <4>1. flowDraft[w] = w
        BY <3>2 DEF Writing
      <4> QED
        BY <2>1, <4>1 DEF Committed
    <3> QED
      BY <3>1, <3>2
  <2>4. \A v \in DOMAIN revisions' : Committed(revisions[v])'
    <3>1. \A v \in DOMAIN revisions' :
             revisions'[v] = flowDraft[w] \/ (v \in DOMAIN revisions /\ revisions'[v] = revisions[v])
      BY <1>6 DEF CommitFlow
    <3>2. \A v \in DOMAIN revisions : Committed(revisions[v]) /\ revisions[v] \in GraphIds
      BY DEF Kept, FlowTypeOK
    <3> SUFFICES ASSUME NEW v \in DOMAIN revisions' PROVE Committed(revisions[v])'
      OBVIOUS
    <3>3. CASE revisions'[v] = flowDraft[w]
      BY <2>1, <2>3, <3>3 DEF Committed
    <3>4. CASE v \in DOMAIN revisions /\ revisions'[v] = revisions[v]
      BY <2>2, <3>2, <3>4 DEF Committed
    <3> QED
      BY <3>1, <3>3, <3>4
  <2>5. \A i \in Restorers : flowPc'[i] \in Active => Committed(flowDraft[i])'
    BY <2>1, <2>2 DEF Kept, Active, FlowTypeOK, Writers
  <2>6. \A i \in Movers : flowPc[i] = "put" => i = w
    BY <2>1 DEF Writing, Active, Movers, Stampers, Writers
  <2>7. \A q \in Procs : flowCache'[q] # NoFlow /\ q \notin raced' => Committed(flowCache[q].graph)'
    BY <2>1, <2>2, <2>3, <2>6 DEF Kept, FlowTypeOK
  <2> QED
    BY <2>1, <2>3, <2>4, <2>5, <2>7 DEF Kept
\* The sessions do nothing.
<1>7. ASSUME UNCHANGED <<flowRow, revisions, flowPc, flowDraft>>,
             \A q \in Procs : flowCache'[q] # NoFlow /\ q \notin raced' =>
                 \/ flowCache'[q].graph = flowRow
                 \/ flowCache'[q] = flowCache[q] /\ q \notin raced
      PROVE  Kept'
  <2>1. \A g \in GraphIds : Committed(g) => Committed(g)'
    BY <1>7 DEF Committed
  <2>2. ASSUME NEW q \in Procs, flowCache'[q] # NoFlow, q \notin raced'
        PROVE  \/ Committed(flowCache[q].graph)'
               \/ \E i \in Movers :
                     flowPc'[i] = "put" /\ Home[i] = q /\ flowCache'[q].graph = flowDraft'[i]
    <3>1. CASE flowCache'[q].graph = flowRow
      BY <2>1, <3>1 DEF Kept, FlowTypeOK
    <3>2. CASE flowCache'[q] = flowCache[q] /\ q \notin raced
      <4>1. flowCache[q] # NoFlow /\ flowCache[q].graph \in GraphIds
        BY <2>2, <3>2 DEF FlowTypeOK
      <4>2. CASE Committed(flowCache[q].graph)
        BY <2>1, <3>2, <4>1, <4>2
      <4>3. CASE \E i \in Movers :
                    flowPc[i] = "put" /\ Home[i] = q /\ flowCache[q].graph = flowDraft[i]
        BY <1>7, <3>2, <4>3
      <4> QED
        BY <3>2, <4>1, <4>2, <4>3 DEF Kept
    <3> QED
      BY <1>7, <2>2, <3>1, <3>2
  <2>3. Committed(flowRow)' /\ \A v \in DOMAIN revisions' : Committed(revisions[v])'
    BY <1>7, <2>1 DEF Kept, FlowTypeOK
  <2>4. \A i \in Restorers : flowPc'[i] \in Active => Committed(flowDraft[i])'
    BY <1>7, <2>1 DEF Kept, FlowTypeOK, Writers
  <2> QED
    BY <2>2, <2>3, <2>4 DEF Kept
<1>8. ASSUME NEW p \in Procs, OpenTurn(p) \/ ServeCached(p) PROVE Kept'
  BY <1>7, <1>8 DEF OpenTurn, ServeCached
<1>9. ASSUME NEW p \in Procs, LoadFlow(p) PROVE Kept'
  <2>1. UNCHANGED <<flowRow, revisions, flowPc, flowDraft, raced>>
    BY <1>9 DEF LoadFlow
  <2>2. flowCache'[p] = NoFlow /\ \A q \in Procs \ {p} : flowCache'[q] = flowCache[q]
    BY <1>9 DEF LoadFlow, FlowTypeOK
  <2> QED
    BY <1>7, <2>1, <2>2
<1>10. ASSUME NEW p \in Procs, FillCache(p) PROVE Kept'
  <2>1. UNCHANGED <<flowRow, revisions, flowPc, flowDraft>>
    BY <1>10 DEF FillCache
  <2>2. /\ flowCache'[p].graph = loaded[p] /\ (p \notin raced' => loaded[p] = flowRow)
        /\ \A q \in Procs \ {p} : flowCache'[q] = flowCache[q] /\ (q \in raced => q \in raced')
    BY <1>10 DEF FillCache, FlowTypeOK
  <2> QED
    BY <1>7, <2>1, <2>2
<1>11. CASE LoseRedis \/ RegainRedis \/ UNCHANGED FlowVars
  BY <1>7, <1>11 DEF LoseRedis, RegainRedis, FlowVars
<1> QED
  BY <1>1, <1>3, <1>4, <1>5, <1>6, <1>8, <1>9, <1>10, <1>11 DEF FlowNext

-----------------------------------------------------------------------------
(* The theorems.                                                           *)

LEMMA PublicationInitInv == FlowInit => PublicationInv
<1> SUFFICES ASSUME FlowInit PROVE PublicationInv
  OBVIOUS
<1> USE FlowAssumption
<1>1. FlowTypeOK
  <2>1. flowPc \in [Writers -> FlowSteps] /\ flowFaults \in 0..MaxFlowFaults
    BY DEF FlowInit, FlowSteps
  <2>2. flowDraft \in [Writers -> GraphIds] /\ FirstGraph \in GraphIds
    BY DEF FlowInit, GraphIds
  <2>3. DOMAIN revisions = {1} /\ \A v \in DOMAIN revisions : revisions[v] = FirstGraph
    BY DEF FlowInit
  <2> QED
    BY <2>1, <2>2, <2>3 DEF FlowInit, FlowTypeOK
<1>2. Writing
  BY DEF FlowInit, Writing, Active
<1>3. Numbered /\ Published
  BY DEF FlowInit, Numbered, Published, Stampers, Writers
<1>4. Topmost
  <2>1. IsTop(1) /\ revisions[1] = live
    BY DEF FlowInit, IsTop
  <2> QED
    BY <2>1 DEF Topmost
<1>5. RowIsLive /\ Entries
  BY DEF FlowInit, RowIsLive, Entries, Current
<1>6. Kept
  BY DEF FlowInit, Kept, Committed, Active, Writers
<1> QED
  BY <1>1, <1>2, <1>3, <1>4, <1>5, <1>6 DEF PublicationInv

\* Whatever sessions and processes do, every variable keeps its type.
THEOREM FlowTypeCorrect == FlowSpec => []FlowTypeOK
<1>1. FlowInit => FlowTypeOK
  BY PublicationInitInv DEF PublicationInv
<1> QED
  BY <1>1, PublicationTypeStep, PTL DEF FlowSpec

\* The invariant holds.
THEOREM FlowInvariant == FlowSpec => []PublicationInv
<1>1. PublicationInv /\ [FlowNext]_FlowVars => PublicationInv'
  BY PublicationTypeStep, WritingStep, RevisedStep, CachedStep, KeptStep
     DEF PublicationInv, Revised, Cached
<1> QED
  BY <1>1, PublicationInitInv, PTL DEF FlowSpec

\* For any number of writers of a flow: every publication has its revision, and
\* the latest one is what was published last.
THEOREM RevisionsAreLive == FlowSpec => []LatestRevisionIsLive
<1>1. PublicationInv => LatestRevisionIsLive
  BY DEF PublicationInv, Topmost, Published, IsTop, LatestRevisionIsLive
<1> QED
  BY <1>1, FlowInvariant, PTL

\* For any number of processes and outages of Redis: an entry that is served
\* between publications holds what was published last, unless it was made in a
\* race or its process cannot reach Redis.  Even then no turn is given a graph
\* that its session never committed.
THEOREM EntriesAreCurrent == FlowSpec => []StaleOnlyIfRaced
<1>1. ASSUME PublicationInv PROVE StaleOnlyIfRaced
  <2> SUFFICES ASSUME NEW q \in Procs, Fresh(q), ~Between, q \notin raced
               PROVE  /\ Committed(flowCache[q].graph)
                      /\ q \notin cutOff => flowCache[q].graph \in {live} \union Savers
    BY DEF StaleOnlyIfRaced
  <2>1. Committed(flowCache[q].graph)
    BY <1>1 DEF PublicationInv, Kept, Fresh, Between
  <2>2. q \notin cutOff => Current(q)
    BY DEF Fresh, Current
  <2> QED
    BY <1>1, <2>1, <2>2 DEF PublicationInv, Entries
<1> QED
  BY <1>1, FlowInvariant, PTL

-----------------------------------------------------------------------------
(* The refinement of FlowHistory.                                          *)

\* The revisions are numbered without a gap; a published graph is among them
\* only once its session has committed; a restorer has drafted one of them.
HistoryOK ==
    /\ \E n \in Nat : revisions \in [1..n -> GraphIds]
    /\ \A v \in DOMAIN revisions, w \in Publishers : revisions[v] = w => flowPc[w] = "done"
    /\ \A w \in Restorers :
          flowPc[w] \in Active => \E v \in DOMAIN revisions : flowDraft[w] = revisions[v]

\* What a committed snapshot does to the revisions.
LEMMA CommitAppends ==
    ASSUME PublicationInv, HistoryOK, NEW w \in Stampers, CommitFlow(w)
    PROVE  /\ revisions' = Append(revisions, flowDraft[w])
           /\ \E n \in Nat : DOMAIN revisions = 1..n /\ DOMAIN revisions' = 1..(n + 1)
           /\ \A v \in DOMAIN revisions : revisions'[v] = revisions[v]
           /\ \A v \in DOMAIN revisions' \ DOMAIN revisions : revisions'[v] = flowDraft[w]
<1> USE FlowAssumption
<1>1. w \in Writers /\ flowPc[w] = "put"
  BY DEF CommitFlow, ReadyToCommit, Stampers, Movers, Writers
<1>2. PICK n \in Nat : revisions \in [1..n -> GraphIds]
  BY DEF HistoryOK
<1>3. PICK v \in Nat : IsTop(v) /\ flowVersion[w] = v + 1
  BY <1>1 DEF PublicationInv, Numbered
<1>4. v = n
  <2>1. v \in 1..n /\ \A u \in 1..n : u <= v
    BY <1>2, <1>3 DEF IsTop
  <2> QED
    BY <2>1
<1>5. revisions' = [u \in 1..(n + 1) |-> IF u = n + 1 THEN flowDraft[w] ELSE revisions[u]]
  BY <1>2, <1>3, <1>4 DEF CommitFlow
<1>6. revisions \in Seq(GraphIds) /\ Len(revisions) = n
  BY <1>2
<1>7. revisions' = Append(revisions, flowDraft[w])
  BY <1>5, <1>6
<1> QED
  BY <1>2, <1>5, <1>7

LEMMA HistoryStep == PublicationInv /\ HistoryOK /\ [FlowNext]_FlowVars => HistoryOK'
<1> SUFFICES ASSUME PublicationInv, HistoryOK, [FlowNext]_FlowVars PROVE HistoryOK'
  OBVIOUS
<1> USE FlowAssumption
<1> USE DEF flowData, flowSession, flowLoad, flowRedis, FlowGoto
<1>0. FlowTypeOK /\ Writing
  BY DEF PublicationInv
<1>1. ASSUME NEW w \in Writers, WriteFlow(w) PROVE HistoryOK'
  <2>1. revisions' = revisions /\ \A i \in Writers : flowPc[i] = "done" => flowPc'[i] = "done"
    BY <1>0, <1>1 DEF WriteFlow, FlowTypeOK
  <2>2. \A i \in Writers \ {w} : flowPc'[i] = flowPc[i] /\ flowDraft'[i] = flowDraft[i]
    BY <1>0, <1>1 DEF WriteFlow, FlowTypeOK
  <2>3. w \in Restorers => \E v \in DOMAIN revisions : flowDraft'[w] = revisions[v]
    BY <1>0, <1>1 DEF WriteFlow, Candidates, FlowTypeOK
  <2> QED
    BY <2>1, <2>2, <2>3 DEF HistoryOK, Writers
<1>2. ASSUME NEW w \in Writers,
             Snapshot(w) \/ Invalidate(w) \/ BumpFails(w) \/ PutOwn(w) \/ RollbackFlow(w)
      PROVE  HistoryOK'
  <2>1. UNCHANGED <<revisions, flowDraft>>
    BY <1>2 DEF Snapshot, Invalidate, BumpFails, PutOwn, RollbackFlow
  <2>2. /\ flowPc[w] \in Active /\ \A i \in Writers \ {w} : flowPc'[i] = flowPc[i]
    BY <1>0, <1>2 DEF Snapshot, Invalidate, BumpFails, PutOwn, RollbackFlow, AtInvalidate,
                      FlowTypeOK, Active
  <2>3. flowPc[w] # "done"
    BY <2>2 DEF Active
  <2> QED
    BY <2>1, <2>2, <2>3 DEF HistoryOK, Writers
<1>3. ASSUME NEW w \in Writers, CommitFlow(w) PROVE HistoryOK'
  <2>1. /\ flowPc'[w] = "done" /\ UNCHANGED flowDraft
        /\ \A i \in Writers \ {w} : flowPc'[i] = flowPc[i]
    BY <1>0, <1>3 DEF CommitFlow, FlowTypeOK
  <2>2. \A i \in Writers : flowPc'[i] \in Active => i # w /\ flowPc[i] \in Active
    BY <2>1 DEF Active
  <2>3. CASE w \notin Stampers
    <3>1. revisions' = revisions
      BY <1>3, <2>3 DEF CommitFlow
    <3> QED
      BY <2>1, <2>2, <3>1 DEF HistoryOK, Writers
  <2>4. CASE w \in Stampers
    <3>1. PICK n \in Nat : DOMAIN revisions = 1..n /\ DOMAIN revisions' = 1..(n + 1)
      BY <1>3, <2>4, CommitAppends
    <3>2. /\ revisions' = [v \in DOMAIN revisions' |-> revisions'[v]]
          /\ \A v \in DOMAIN revisions : v \in DOMAIN revisions' /\ revisions'[v] = revisions[v]
          /\ \A v \in DOMAIN revisions' : v \in DOMAIN revisions \/ revisions'[v] = flowDraft[w]
      BY <1>3, <2>4, <3>1, CommitAppends DEF CommitFlow
    <3>3. revisions' \in [1..(n + 1) -> GraphIds]
      BY <1>0, <3>1, <3>2 DEF FlowTypeOK
    <3>4. ASSUME NEW i \in Publishers, flowDraft[w] = i PROVE flowPc'[i] = "done"
      <4>1. CASE w \in Publishers
        BY <4>1, <3>4, <2>1, <1>0 DEF Writing
      <4>2. CASE w \in Restorers
        <5>1. flowPc[w] \in Active
          BY <1>3 DEF CommitFlow, ReadyToCommit, Active
        <5> QED
          BY <4>2, <5>1, <3>4, <2>1 DEF HistoryOK, Writers
      <4> QED
        BY <4>1, <4>2, <2>4 DEF Stampers
    <3>5. \A v \in DOMAIN revisions', i \in Publishers : revisions'[v] = i => flowPc'[i] = "done"
      BY <3>2, <3>4, <2>1 DEF HistoryOK, Writers
    <3> QED
      BY <3>2, <3>3, <3>5, <2>1, <2>2 DEF HistoryOK, Writers
  <2> QED
    BY <2>3, <2>4
<1>4. ASSUME NEW q \in Procs, OpenTurn(q) \/ ServeCached(q) \/ LoadFlow(q) \/ FillCache(q) PROVE HistoryOK'
  BY <1>4 DEF OpenTurn, ServeCached, LoadFlow, FillCache, HistoryOK
<1>5. CASE LoseRedis \/ RegainRedis \/ UNCHANGED FlowVars
  BY <1>5 DEF LoseRedis, RegainRedis, FlowVars, HistoryOK
<1> QED
  BY <1>1, <1>2, <1>3, <1>4, <1>5 DEF FlowNext

LEMMA HistoryInit == FlowInit => HistoryOK /\ History!Init
<1> SUFFICES ASSUME FlowInit PROVE HistoryOK /\ History!Init
  OBVIOUS
<1> USE FlowAssumption
<1>1. revisions = [v \in {1} |-> FirstGraph] /\ {1} = 1..1
  BY DEF FlowInit
<1>2. revisions = <<FirstGraph>>
  BY <1>1
<1>3. HistoryOK
  BY <1>1 DEF FlowInit, HistoryOK, Active, GraphIds, Writers
<1> QED
  BY <1>2, <1>3 DEF FlowInit, History!Init

\* Only a commit is a step of the history, and it is one.
LEMMA HistoryMaps ==
    PublicationInv /\ HistoryOK /\ [FlowNext]_FlowVars =>
        [History!Next]_<<flowRow, live, revisions>>
<1> SUFFICES ASSUME PublicationInv, HistoryOK, [FlowNext]_FlowVars
             PROVE  History!Next \/ UNCHANGED <<flowRow, live, revisions>>
  OBVIOUS
<1> USE FlowAssumption
<1> USE DEF flowData, flowSession, flowLoad, flowRedis
<1>0. Writing
  BY DEF PublicationInv
<1>1. ASSUME NEW w \in Writers, CommitFlow(w) PROVE History!Next
  <2>1. flowRow' = flowDraft[w] /\ flowPc[w] \in Active /\ flowPc[w] # "done"
    BY <1>1 DEF CommitFlow, ReadyToCommit, Active
  <2>2. w \in Movers => History!MakeLive(flowDraft[w])
    BY <1>1 DEF CommitFlow, History!MakeLive
  <2>3. CASE w \in Publishers
    <3>1. flowDraft[w] = w /\ w \in Movers /\ revisions' = Append(revisions, w)
      BY <2>3, <1>0, <1>1, CommitAppends DEF Writing, Movers, Stampers
    <3>2. \A v \in DOMAIN revisions : revisions[v] # w
      BY <2>1, <2>3 DEF HistoryOK
    <3>3. History!Publish(w)
      BY <2>2, <3>1, <3>2 DEF History!Publish
    <3> QED
      BY <2>3, <3>3 DEF History!Next
  <2>4. CASE w \in Restorers
    <3>1. PICK v \in DOMAIN revisions : flowDraft[w] = revisions[v]
      BY <2>1, <2>4 DEF HistoryOK
    <3>2. w \in Movers /\ revisions' = Append(revisions, flowDraft[w])
      BY <2>4, <1>1, CommitAppends DEF Movers, Stampers
    <3>3. History!Restore(v)
      BY <2>2, <3>1, <3>2 DEF History!Restore
    <3> QED
      BY <3>3 DEF History!Next
  <2>5. CASE w \in Adopters
    <3>1. flowDraft[w] = w /\ w \in Movers /\ revisions' = revisions
      BY <2>5, <1>0, <1>1 DEF Writing, Movers, Stampers, CommitFlow
    <3>2. History!Adopt(w)
      BY <2>2, <3>1 DEF History!Adopt
    <3> QED
      BY <2>5, <3>2 DEF History!Next
  <2>6. CASE w \in Savers
    <3>1. flowDraft[w] = w /\ live' = live /\ revisions' = revisions
      BY <2>6, <1>0, <1>1 DEF Writing, Movers, Stampers, CommitFlow
    <3>2. History!Save(w)
      BY <2>1, <3>1 DEF History!Save
    <3> QED
      BY <2>6, <3>2 DEF History!Next
  <2> QED
    BY <2>3, <2>4, <2>5, <2>6 DEF Writers
<1>2. ASSUME NEW w \in Writers,
             \/ WriteFlow(w) \/ Snapshot(w) \/ Invalidate(w) \/ BumpFails(w) \/ PutOwn(w)
             \/ RollbackFlow(w)
      PROVE  UNCHANGED <<flowRow, live, revisions>>
  BY <1>2 DEF WriteFlow, Snapshot, Invalidate, BumpFails, PutOwn, RollbackFlow
<1>3. ASSUME NEW q \in Procs, OpenTurn(q) \/ ServeCached(q) \/ LoadFlow(q) \/ FillCache(q)
      PROVE  UNCHANGED <<flowRow, live, revisions>>
  BY <1>3 DEF OpenTurn, ServeCached, LoadFlow, FillCache
<1>4. CASE LoseRedis \/ RegainRedis \/ UNCHANGED FlowVars
  BY <1>4 DEF LoseRedis, RegainRedis, FlowVars
<1> QED
  BY <1>1, <1>2, <1>3, <1>4 DEF FlowNext

\* For any number of publishers, restorers, adopters and savers: what the
\* database shows of their overlapping requests is a serial history.
THEOREM PublicationsAreSerial == FlowSpec => PublicationsAreHistory
<1>1. FlowSpec => []HistoryOK
  BY HistoryInit, HistoryStep, FlowInvariant, PTL DEF FlowSpec
<1> QED
  BY <1>1, HistoryInit, HistoryMaps, FlowInvariant, PTL
     DEF FlowSpec, PublicationsAreHistory, History!Spec

-----------------------------------------------------------------------------
(* How far "save is always draft" (DraftsAreNotServed) holds.              *)

SavedDrafts == {w \in Savers : flowPc[w] = "done"}
NoOpenDraft(g) == g \in Savers => g \in SavedDrafts

\* A saved graph that a turn runs with was committed by its save: loaders read
\* committed rows, and no publication carries a draft that is not its own.
OnlySavedDraftsServed == \A q \in Procs : loadPc[q] = "idle" => NoOpenDraft(loaded[q])

\* The same of every place such a graph comes from.
DraftsHeld ==
    /\ NoOpenDraft(flowRow)
    /\ \A q \in Procs : NoOpenDraft(loaded[q])
    /\ \A q \in Procs : flowCache[q] # NoFlow => NoOpenDraft(flowCache[q].graph)
    /\ \A w \in Writers : flowDraft[w] \in Savers => w \in Savers
    /\ \A v \in DOMAIN revisions : revisions[v] \notin Savers

LEMMA DraftsStep ==
    FlowTypeOK /\ Writing /\ DraftsHeld /\ [FlowNext]_FlowVars => DraftsHeld'
<1> SUFFICES ASSUME FlowTypeOK, Writing, DraftsHeld, [FlowNext]_FlowVars PROVE DraftsHeld'
  OBVIOUS
<1> USE FlowAssumption
<1> USE DEF flowData, flowSession, flowLoad, flowRedis, FlowGoto, FlowTypeOK
<1>1. ASSUME NEW w \in Writers,
             WriteFlow(w) \/ Snapshot(w) \/ Invalidate(w) \/ BumpFails(w) \/ RollbackFlow(w)
      PROVE  DraftsHeld'
  <2>1. /\ UNCHANGED <<flowRow, revisions, loaded>>
        /\ \A i \in Writers : flowPc[i] = "done" => flowPc'[i] = "done"
        /\ \A q \in Procs : flowCache'[q] \in {flowCache[q], NoFlow}
    BY <1>1 DEF WriteFlow, Snapshot, Invalidate, BumpFails, RollbackFlow, AtInvalidate
  <2>2. SavedDrafts \subseteq SavedDrafts'
    BY <2>1 DEF SavedDrafts, Writers
  <2>3. \A i \in Writers : flowDraft'[i] \in Savers => i \in Savers
    <3>1. CASE WriteFlow(w)
      BY <3>1 DEF WriteFlow, Candidates, DraftsHeld
    <3>2. CASE ~WriteFlow(w)
      BY <1>1, <3>2 DEF Snapshot, Invalidate, BumpFails, RollbackFlow, DraftsHeld
    <3> QED
      BY <3>1, <3>2
  <2> QED
    BY <2>1, <2>2, <2>3 DEF DraftsHeld, NoOpenDraft
<1>2. ASSUME NEW w \in Writers, PutOwn(w) PROVE DraftsHeld'
  <2>1. flowDraft[w] \notin Savers
    BY <1>2 DEF PutOwn, Writing, DraftsHeld
  <2>2. /\ UNCHANGED <<flowRow, revisions, loaded, flowDraft>>
        /\ \A i \in Writers : flowPc[i] = "done" => flowPc'[i] = "done"
        /\ \A q \in Procs : flowCache'[q] = flowCache[q] \/ flowCache'[q].graph = flowDraft[w]
    BY <1>2 DEF PutOwn
  <2>3. SavedDrafts \subseteq SavedDrafts'
    BY <2>2 DEF SavedDrafts, Writers
  <2>4. (\A q \in Procs : flowCache[q] # NoFlow => NoOpenDraft(flowCache[q].graph))'
    BY <2>1, <2>2, <2>3 DEF DraftsHeld, NoOpenDraft
  <2> QED
    BY <2>2, <2>3, <2>4 DEF DraftsHeld, NoOpenDraft
<1>3. ASSUME NEW w \in Writers, CommitFlow(w) PROVE DraftsHeld'
  <2>1. /\ UNCHANGED <<loaded, flowDraft, flowCache>>
        /\ flowRow' = flowDraft[w]
        /\ flowPc'[w] = "done"
        /\ \A i \in Writers : flowPc[i] = "done" => flowPc'[i] = "done"
    BY <1>3 DEF CommitFlow
  <2>2. SavedDrafts \subseteq SavedDrafts'
    BY <2>1 DEF SavedDrafts, Writers
  <2>3. NoOpenDraft(flowRow)'
    <3>1. flowDraft[w] \in Savers => flowDraft[w] = w
      BY DEF DraftsHeld, Writing, Movers, Stampers
    <3> QED
      BY <2>1, <3>1 DEF NoOpenDraft, SavedDrafts
  <2>4. \A v \in DOMAIN revisions' : revisions'[v] \notin Savers
    <3>1. w \in Stampers => flowDraft[w] \notin Savers
      BY DEF DraftsHeld, Movers
    <3> QED
      BY <1>3, <3>1 DEF CommitFlow, DraftsHeld
  <2> QED
    BY <2>1, <2>2, <2>3, <2>4 DEF DraftsHeld, NoOpenDraft
<1>4. ASSUME NEW q \in Procs, OpenTurn(q) \/ ServeCached(q) \/ LoadFlow(q) \/ FillCache(q) PROVE DraftsHeld'
  <2>1. UNCHANGED <<flowRow, revisions, flowDraft, flowPc>>
    BY <1>4 DEF OpenTurn, ServeCached, LoadFlow, FillCache
  <2>2. \A g : NoOpenDraft(g)' = NoOpenDraft(g)
    BY <2>1 DEF NoOpenDraft, SavedDrafts
  <2>3. \A p \in Procs : NoOpenDraft(loaded'[p])
    BY <1>4 DEF OpenTurn, ServeCached, LoadFlow, FillCache, Fresh, DraftsHeld
  <2>4. \A p \in Procs : flowCache'[p] # NoFlow => NoOpenDraft(flowCache'[p].graph)
    BY <1>4 DEF OpenTurn, ServeCached, LoadFlow, FillCache, DraftsHeld
  <2> QED
    BY <2>1, <2>2, <2>3, <2>4 DEF DraftsHeld
<1>5. CASE LoseRedis \/ RegainRedis \/ UNCHANGED FlowVars
  BY <1>5 DEF LoseRedis, RegainRedis, FlowVars, DraftsHeld, SavedDrafts, NoOpenDraft
<1> QED
  BY <1>1, <1>2, <1>3, <1>4, <1>5 DEF FlowNext

\* save_bot_flow shows turns a draft, but never one that is not committed: what
\* a save has only flushed, or rolled back, no process loads, caches or runs.
THEOREM OpenDraftsAreNotServed == FlowSpec => []OnlySavedDraftsServed
<1>1. ASSUME FlowInit PROVE DraftsHeld
  <2>1. FirstGraph \notin Savers
    BY FlowAssumption DEF Writers
  <2>2. /\ flowRow = FirstGraph /\ flowDraft = [w \in Writers |-> w]
        /\ \A q \in Procs : flowCache[q] = NoFlow /\ loaded[q] = FirstGraph
        /\ \A v \in DOMAIN revisions : revisions[v] = FirstGraph
    BY <1>1 DEF FlowInit
  <2> QED
    BY <2>1, <2>2 DEF DraftsHeld, NoOpenDraft
<1>2. FlowTypeOK /\ Writing /\ DraftsHeld /\ [FlowNext]_FlowVars => DraftsHeld'
  BY DraftsStep
<1>3. PublicationInv => FlowTypeOK /\ Writing
  BY DEF PublicationInv
<1>4. DraftsHeld => OnlySavedDraftsServed
  BY DEF DraftsHeld, OnlySavedDraftsServed
<1> QED
  BY <1>1, <1>2, <1>3, <1>4, FlowInvariant, PTL DEF FlowSpec
-----------------------------------------------------------------------------
(* FlowWalk: edges.                                                        *)

EdgeTo(g, n, t) == \E i \in DOMAIN g[n].next : g[n].next[i].to = t

LEMMA GraphFacts ==
    ASSUME NEW g \in Graphs, NEW n \in DOMAIN g
    PROVE  /\ n \in Nodes /\ g[n].kind \in Kinds
           /\ g[n].next # <<>> => 1 \in DOMAIN g[n].next
           /\ \A t : EdgeTo(g, n, t) => t \in DOMAIN g /\ t # NoNode
<1> DEFINE next == g[n].next
<1>1. /\ DOMAIN g \subseteq Nodes /\ g[n].kind \in Kinds /\ NoNode \notin Nodes
      /\ next \in Seq([on : Handles, to : DOMAIN g])
  BY WalkAssumption
<1>2. next # <<>> => 1 \in DOMAIN next
  <2> HIDE DEF next
  <2>1. next # <<>> => Len(next) \in Nat /\ Len(next) # 0 /\ DOMAIN next = 1..Len(next)
    BY <1>1, EmptySeq, LenProperties
  <2> QED
    BY <2>1
<1>3. \A i \in DOMAIN next : next[i].to \in DOMAIN g
  <2> DEFINE Edges == [on : Handles, to : DOMAIN g]
  <2>1. \A i \in DOMAIN next : next[i] \in Edges
    <3> HIDE DEF next, Edges
    <3>1. next \in [1..Len(next) -> Edges] /\ DOMAIN next = 1..Len(next)
      BY <1>1, LenProperties DEF Edges
    <3> QED
      BY <3>1
  <2>2. \A e \in Edges : e.to \in DOMAIN g
    OBVIOUS
  <2> HIDE DEF next, Edges
  <2> QED
    BY <2>1, <2>2
<1> QED
  BY <1>1, <1>2, <1>3 DEF EdgeTo

\* Whatever edge is followed leads along an edge, or nowhere.
LEMMA Targets ==
    ASSUME NEW g \in Graphs, NEW n \in DOMAIN g
    PROVE  /\ \A h : ByHandle(g, n, h) = NoNode \/ EdgeTo(g, n, ByHandle(g, n, h))
           /\ FirstEdge(g, n) = NoNode \/ EdgeTo(g, n, FirstEdge(g, n))
           /\ DefaultEdge(g, n) = NoNode \/ EdgeTo(g, n, DefaultEdge(g, n))
<1>1. ASSUME NEW h PROVE ByHandle(g, n, h) = NoNode \/ EdgeTo(g, n, ByHandle(g, n, h))
  <2> DEFINE first == {i \in DOMAIN g[n].next :
                         /\ g[n].next[i].on = h
                         /\ \A j \in 1..(i - 1) : g[n].next[j].on # h}
  <2>1. ByHandle(g, n, h) = IF first = {} THEN NoNode ELSE g[n].next[CHOOSE i \in first : TRUE].to
    BY DEF ByHandle
  <2>2. first \subseteq DOMAIN g[n].next
    OBVIOUS
  <2> HIDE DEF first
  <2>3. first # {} => (CHOOSE i \in first : TRUE) \in first
    OBVIOUS
  <2> QED
    BY <2>1, <2>2, <2>3 DEF EdgeTo
<1>2. FirstEdge(g, n) = NoNode \/ EdgeTo(g, n, FirstEdge(g, n))
  <2>1. CASE g[n].next = <<>>
    BY <2>1 DEF FirstEdge
  <2>2. CASE g[n].next # <<>>
    <3>1. 1 \in DOMAIN g[n].next
      BY <2>2, GraphFacts
    <3> QED
      BY <2>2, <3>1 DEF FirstEdge, EdgeTo
  <2> QED
    BY <2>1, <2>2
<1> QED
  BY <1>1, <1>2 DEF DefaultEdge

LEMMA Start == ASSUME NEW g \in Graphs PROVE StartNode(g) \in DOMAIN g
<1> DEFINE roots == {n \in DOMAIN g :
                        \A m \in DOMAIN g : \A i \in DOMAIN g[m].next : g[m].next[i].to # n}
           of(kinds) == {n \in roots : g[n].kind \in kinds}
           Chosen(n) == IF roots = {} THEN TRUE
                        ELSE IF of({"trigger"}) # {} THEN n \in of({"trigger"})
                        ELSE IF of({"text_message"}) # {} THEN n \in of({"text_message"})
                        ELSE IF of({"ai_agent"}) # {} THEN n \in of({"ai_agent"})
                        ELSE n \in roots
<1>1. DOMAIN g # {} /\ roots \subseteq DOMAIN g /\ \A kinds : of(kinds) \subseteq roots
  BY WalkAssumption
<1>2. \E n \in DOMAIN g : Chosen(n)
  <2> HIDE DEF roots, of
  <2> QED
    BY <1>1
<1>3. StartNode(g) = CHOOSE n \in DOMAIN g : Chosen(n)
  BY DEF StartNode
<1> HIDE DEF Chosen
<1> QED
  BY <1>2, <1>3

\* A node that says something is the one that was entered; the others hand
\* over along an edge, or stay where they are, which no caller does.
LEMMA Entering ==
    ASSUME NEW g \in Graphs, NEW n \in DOMAIN g, NEW yes \in BOOLEAN,
           NEW result, result = EnterNode(g, n, yes)
    PROVE  /\ result.says \in BOOLEAN
           /\ result.says => result.at = n /\ ~result.silent
           /\ ~result.says => result.at = n \/ EdgeTo(g, n, result.at)
           /\ ~result.says /\ g[n].kind \in Callers => EdgeTo(g, n, result.at)
<1>1. g[n].kind \in Kinds
  BY GraphFacts
<1>2. /\ \A h : ByHandle(g, n, h) = NoNode \/ EdgeTo(g, n, ByHandle(g, n, h))
      /\ FirstEdge(g, n) = NoNode \/ EdgeTo(g, n, FirstEdge(g, n))
  BY Targets
<1> USE DEF PassTo, Say, Stuck
<1>3. CASE g[n].kind \in {"ai_agent", "text_message", "human_handoff"}
  BY <1>3 DEF EnterNode, EvalLlm, EvalHumanHandoff, Callers
<1>4. CASE g[n].kind \in {"trigger", "knowledge_search", "other"}
  BY <1>2, <1>4 DEF EnterNode, Passthrough, EvalKnowledgeSearch, Callers
<1>5. CASE g[n].kind = "condition"
  BY <1>2, <1>5 DEF EnterNode, EvalCondition, Callers
<1>6. CASE g[n].kind = "loop"
  BY <1>2, <1>6 DEF EnterNode, EvalLoop, Callers
<1>7. CASE g[n].kind = "crm_action"
  BY <1>2, <1>7 DEF EnterNode, EvalCrm
<1>8. CASE g[n].kind = "api_request"
  BY <1>2, <1>8 DEF EnterNode, EvalApiRequest
<1> QED
  BY <1>1, <1>3, <1>4, <1>5, <1>6, <1>7, <1>8 DEF Kinds

-----------------------------------------------------------------------------
(* The inductive invariant.                                                *)

IsRank(rank) ==
    /\ rank \in [DOMAIN graph -> Nat]
    /\ \A n \in DOMAIN graph : \A t : EdgeTo(graph, n, t) => rank[n] < rank[t]

\* A turn that has not left the stored step has called nothing, and begins at
\* that step.
Leaving == phase = "leave" =>
    /\ hops = 0 /\ step # NoNode /\ node = Located(graph, step)
    /\ \A n \in Nodes : calls[n] = 0

\* Along a graph without a way back, the nodes called lie behind the walk.
Forward == \A rank : IsRank(rank) =>
    \A n \in Nodes :
        /\ calls[n] <= 1
        /\ calls[n] = 1 /\ phase = "walk" => n \in DOMAIN graph /\ rank[n] < rank[node]

WalkInv == WalkTypeOK /\ (phase = "walk" => hops < MaxHops) /\ Leaving /\ Forward /\ StepWasShown

-----------------------------------------------------------------------------
(* The steps.                                                              *)

\* Entering a node counts at most one call, at that node.
LEMMA EnteredFacts ==
    ASSUME WalkTypeOK, NEW n \in Nodes \union {NoNode}, Entered(graph, n)
    PROVE  /\ rounds' \in [Nodes -> Nat] /\ calls' \in [Nodes -> Nat]
           /\ \A m \in Nodes : m # n => calls'[m] = calls[m]
           /\ n \in Nodes => calls'[n] <= calls[n] + 1
           /\ n \in Nodes /\ ~(n \in DOMAIN graph /\ graph[n].kind \in Callers) => calls'[n] = calls[n]
<1>1. rounds \in [Nodes -> Nat] /\ calls \in [Nodes -> Nat]
  BY DEF WalkTypeOK
<1>2. rounds' = [rounds EXCEPT ![n] = @ + 1] \/ rounds' = rounds
  BY DEF Entered
<1>3. rounds' \in [Nodes -> Nat]
  BY <1>1, <1>2
<1>4. CASE n \in DOMAIN graph /\ graph[n].kind \in Callers
  <2>0. n \in Nodes
    BY <1>4, WalkAssumption DEF WalkTypeOK
  <2>1. calls' = [calls EXCEPT ![n] = @ + 1]
    BY <1>4 DEF Entered
  <2>2. calls'[n] = calls[n] + 1 /\ \A m \in Nodes : m # n => calls'[m] = calls[m]
    BY <1>1, <2>0, <2>1
  <2>3. calls' \in [Nodes -> Nat] /\ calls[n] \in Nat
    BY <1>1, <2>0, <2>1
  <2> QED
    BY <1>3, <1>4, <2>2, <2>3
<1>5. CASE ~(n \in DOMAIN graph /\ graph[n].kind \in Callers)
  <2>1. calls' = calls
    BY <1>5 DEF Entered
  <2> QED
    BY <1>1, <1>3, <2>1
<1> QED
  BY <1>4, <1>5

\* Every action keeps the invariant.
LEMMA ReceiveStep == WalkInv /\ Receive => WalkInv'
<1> SUFFICES ASSUME WalkInv, Receive PROVE WalkInv'
  OBVIOUS
<1> USE WalkAssumption
<1>1. graph' = graph /\ step' = step /\ graph \in Graphs /\ UNCHANGED <<seen, unsure>>
  BY DEF Receive, WalkInv, WalkTypeOK
<1>2. StartNode(graph) \in DOMAIN graph /\ Located(graph, step) \in DOMAIN graph
  BY <1>1, Start DEF Located
<1>3. /\ node' \in DOMAIN graph /\ phase' \in {"leave", "walk"} /\ hops' = 0
      /\ \A n \in Nodes : calls'[n] = 0
      /\ phase' = "leave" => step # NoNode /\ node' = Located(graph, step)
  BY <1>2 DEF Receive
<1>4. WalkTypeOK'
  BY <1>1, <1>3 DEF Receive, WalkInv, WalkTypeOK
<1>5. Leaving' /\ StepWasShown'
  BY <1>1, <1>3 DEF Leaving, StepWasShown, Located, StartNode
<1>6. Forward'
  BY <1>3 DEF Forward
<1> QED
  BY <1>3, <1>4, <1>5, <1>6 DEF WalkInv

LEMMA RepublishStep == WalkInv /\ Republish => WalkInv'
<1> SUFFICES ASSUME WalkInv, Republish PROVE WalkInv'
  OBVIOUS
<1> USE WalkAssumption
<1>1. WalkTypeOK' /\ phase' = "idle"
  BY DEF Republish, WalkInv, WalkTypeOK
<1>2. \A n \in Nodes : calls'[n] = 0
  BY DEF Republish
<1>3. StepWasShown'
  BY DEF Republish, StepWasShown
<1> QED
  BY <1>1, <1>2, <1>3 DEF WalkInv, Leaving, Forward

\* The calls of a walk that goes on along edges, or ends.
LEMMA ForwardMove ==
    ASSUME WalkTypeOK, NEW n \in DOMAIN graph, Entered(graph, n), graph' = graph,
           NEW from \in DOMAIN graph, from = n \/ EdgeTo(graph, from, n),
           \A rank : IsRank(rank) => \A m \in Nodes :
              calls[m] = 0 \/ (calls[m] = 1 /\ m \in DOMAIN graph /\ rank[m] < rank[from]),
           phase' = "walk" =>
              /\ node' \in DOMAIN graph /\ (node' = n \/ EdgeTo(graph, n, node'))
              /\ graph[n].kind \in Callers => EdgeTo(graph, n, node')
    PROVE  Forward'
<1> SUFFICES ASSUME NEW rank, IsRank(rank), NEW m \in Nodes
             PROVE  /\ calls'[m] <= 1
                    /\ calls'[m] = 1 /\ phase' = "walk" =>
                          m \in DOMAIN graph /\ rank[m] < rank[node']
  BY DEF Forward, IsRank, EdgeTo
<1>1. /\ rank \in [DOMAIN graph -> Nat]
      /\ \A k \in DOMAIN graph : \A t : EdgeTo(graph, k, t) => rank[k] < rank[t]
  BY DEF IsRank
<1>2. rank[from] <= rank[n] /\ rank[from] \in Nat /\ rank[n] \in Nat
  BY <1>1
<1>3. phase' = "walk" =>
        /\ rank[n] <= rank[node'] /\ rank[node'] \in Nat
        /\ graph[n].kind \in Callers => rank[n] < rank[node']
  BY <1>1
<1>4. calls[m] = 0 \/ (calls[m] = 1 /\ m \in DOMAIN graph /\ rank[m] < rank[from])
  OBVIOUS
<1>t. n \in Nodes /\ calls \in [Nodes -> Nat]
  BY WalkAssumption DEF WalkTypeOK
<1>5. CASE m # n
  <2>1. calls'[m] = calls[m]
    BY <1>5, <1>t, EnteredFacts
  <2> QED
    BY <1>1, <1>2, <1>3, <1>4, <2>1
<1>6. CASE m = n
  <2>1. calls[n] = 0
    BY <1>1, <1>2, <1>4, <1>6
  <2>2. /\ calls'[n] <= 1 /\ calls'[n] \in Nat
        /\ graph[n].kind \notin Callers => calls'[n] = 0
    <3>1. calls'[n] \in Nat /\ calls'[n] <= calls[n] + 1
      BY <1>t, EnteredFacts
    <3>2. graph[n].kind \notin Callers => calls'[n] = calls[n]
      BY <1>t, EnteredFacts
    <3> QED
      BY <2>1, <3>1, <3>2
  <2> QED
    BY <1>3, <1>6, <2>2
<1> QED
  BY <1>5, <1>6

LEMMA HopStep == WalkInv /\ Hop => WalkInv'
<1> SUFFICES ASSUME WalkInv, Hop PROVE WalkInv'
  OBVIOUS
<1> USE WalkAssumption
<1> DEFINE result(yes) == EnterNode(graph, node, yes)
           next(yes) == IF result(yes).silent /\ result(yes).at # node THEN result(yes).at
                        ELSE DefaultEdge(graph, node)
<1>1. PICK yes \in BOOLEAN :
        /\ Entered(graph, node)
        /\ IF result(yes).says \/ next(yes) = NoNode \/ hops + 1 = MaxHops
           THEN EndTurn(result(yes), result(yes).at) ELSE GoOnFrom(next(yes))
  BY DEF Hop
<1>2. /\ phase = "walk" /\ graph \in Graphs /\ graph' = graph /\ word' = word /\ hops' = hops + 1
      /\ node \in DOMAIN graph /\ WalkTypeOK /\ hops < MaxHops /\ hops \in Nat
  BY DEF Hop, WalkInv, WalkTypeOK
<1> DEFINE r == result(yes)
           t == next(yes)
<1>3. /\ r.says \in BOOLEAN /\ (r.says => r.at = node)
      /\ ~r.says => r.at = node \/ EdgeTo(graph, node, r.at)
  BY <1>2, Entering
<1>4. t = NoNode \/ EdgeTo(graph, node, t)
  <2>1. DefaultEdge(graph, node) = NoNode \/ EdgeTo(graph, node, DefaultEdge(graph, node))
    BY <1>2, Targets
  <2>2. r.silent => ~r.says
    BY <1>2, Entering
  <2> HIDE DEF result
  <2> QED
    BY <2>1, <2>2, <1>3
<1>5. r.at \in DOMAIN graph /\ (t # NoNode => t \in DOMAIN graph)
  BY <1>2, <1>3, <1>4, GraphFacts
<1> HIDE DEF result, next, r, t
<1>6. EndTurn(r, r.at) \/ (GoOnFrom(t) /\ t # NoNode /\ hops + 1 # MaxHops)
  BY <1>1 DEF r, t
<1>7. rounds' \in [Nodes -> Nat] /\ calls' \in [Nodes -> Nat]
  BY <1>1, <1>2, EnteredFacts DEF WalkTypeOK
<1>8. WalkTypeOK' /\ (phase' = "walk" => hops' < MaxHops) /\ phase' \in {"idle", "walk"}
  <2>1. CASE EndTurn(r, r.at)
    <3>1. step' \in Nodes \union {NoNode} /\ seen' \in Nodes \union {NoNode} /\ unsure' \in BOOLEAN
      BY <2>1, <1>2, <1>3, <1>5 DEF EndTurn, WalkTypeOK
    <3> QED
      BY <2>1, <1>2, <1>7, <3>1 DEF EndTurn, WalkTypeOK
  <2>2. CASE GoOnFrom(t) /\ t # NoNode /\ hops + 1 # MaxHops
    BY <2>2, <1>2, <1>5, <1>7 DEF GoOnFrom, WalkTypeOK
  <2> QED
    BY <1>6, <2>1, <2>2
<1>9. StepWasShown'
  BY <1>2, <1>3, <1>5, <1>6 DEF EndTurn, GoOnFrom, StepWasShown, Located
<1>10. Forward'
  <2>1. phase' = "walk" => node' = t /\ EdgeTo(graph, node, t) /\ t \in DOMAIN graph
    BY <1>4, <1>5, <1>6 DEF EndTurn, GoOnFrom
  <2>2. \A rank : IsRank(rank) => \A m \in Nodes :
            calls[m] = 0 \/ (calls[m] = 1 /\ m \in DOMAIN graph /\ rank[m] < rank[node])
    BY <1>2 DEF WalkInv, Forward, WalkTypeOK
  <2> QED
    BY <2>1, <2>2, <1>1, <1>2, ForwardMove
<1> QED
  BY <1>8, <1>9, <1>10 DEF WalkInv, Leaving

LEMMA LeaveStepStep == WalkInv /\ LeaveStep => WalkInv'
<1> SUFFICES ASSUME WalkInv, LeaveStep PROVE WalkInv'
  OBVIOUS
<1> USE WalkAssumption
<1> DEFINE target == EnteredByLeaving(node)
           result(yes) == IF target = NoNode THEN Say(node) ELSE EnterNode(graph, target, yes)
           mismatch == graph[node].kind = "text_message" /\ graph[node].buttons # {}
                         /\ word \notin graph[node].buttons
<1>1. PICK yes \in BOOLEAN :
        /\ Entered(graph, target)
        /\ IF result(yes).says
           THEN EndTurn(result(yes), IF mismatch THEN step ELSE result(yes).at)
           ELSE GoOnFrom(result(yes).at)
  BY DEF LeaveStep
<1>2. /\ phase = "leave" /\ graph \in Graphs /\ graph' = graph /\ word' = word /\ hops' = hops
      /\ node \in DOMAIN graph /\ WalkTypeOK /\ hops = 0 /\ node = Located(graph, step)
      /\ \A n \in Nodes : calls[n] = 0
  BY DEF LeaveStep, WalkInv, Leaving, WalkTypeOK
<1>3. target = NoNode \/ target = node \/ EdgeTo(graph, node, target)
  <2>1. \A h : ByHandle(graph, node, h) = NoNode \/ EdgeTo(graph, node, ByHandle(graph, node, h))
    BY <1>2, Targets
  <2>2. FirstEdge(graph, node) = NoNode \/ EdgeTo(graph, node, FirstEdge(graph, node))
    BY <1>2, Targets
  <2> QED
    BY <2>1, <2>2 DEF EnteredByLeaving, ButtonTarget
<1>4. mismatch => target = NoNode
  BY DEF EnteredByLeaving, ButtonTarget
<1>5. target # NoNode => target \in DOMAIN graph
  BY <1>2, <1>3, GraphFacts
<1> DEFINE r == result(yes)
<1>6. /\ target = NoNode => r = Say(node)
      /\ target # NoNode => r = EnterNode(graph, target, yes)
  OBVIOUS
<1> DEFINE stored == IF mismatch THEN step ELSE r.at
<1>7. (EndTurn(r, stored) /\ r.says) \/ (GoOnFrom(r.at) /\ ~r.says)
  BY <1>1
<1> HIDE DEF target, result, r
<1>8. CASE target = NoNode
  <2>1. r.says /\ r.at = node
    BY <1>6, <1>8 DEF Say
  <2>2. Entered(graph, NoNode) /\ NoNode \notin DOMAIN graph
    BY <1>1, <1>2, <1>8
  <2>3. EndTurn(r, stored) /\ stored \in {step, node}
    BY <1>7, <2>1
  <2>4. calls' = calls /\ rounds' = rounds
    BY <2>2 DEF Entered
  <2>5. WalkTypeOK' /\ phase' = "idle"
    BY <1>2, <2>1, <2>3, <2>4 DEF EndTurn, WalkTypeOK
  <2>6. StepWasShown'
    BY <1>2, <2>1, <2>3 DEF EndTurn, StepWasShown, Located
  <2>7. Forward'
    BY <1>2, <2>4 DEF Forward
  <2> QED
    BY <2>5, <2>6, <2>7 DEF WalkInv, Leaving
<1>9. CASE target # NoNode
  <2>1. r = EnterNode(graph, target, yes) /\ target \in DOMAIN graph /\ stored = r.at
    BY <1>4, <1>5, <1>6, <1>9
  <2>2. /\ r.says => r.at = target
        /\ ~r.says => r.at = target \/ EdgeTo(graph, target, r.at)
        /\ ~r.says /\ graph[target].kind \in Callers => EdgeTo(graph, target, r.at)
    BY <1>2, <2>1, Entering
  <2>3. r.at \in DOMAIN graph
    BY <1>2, <2>1, <2>2, GraphFacts DEF WalkInv
  <2>4. Entered(graph, target) /\ rounds' \in [Nodes -> Nat] /\ calls' \in [Nodes -> Nat]
    BY <1>1, <1>2, <2>1, EnteredFacts
  <2>5. (EndTurn(r, r.at) /\ r.says) \/ (GoOnFrom(r.at) /\ ~r.says)
    BY <1>7, <2>1
  <2>6. WalkTypeOK' /\ (phase' = "walk" => hops' < MaxHops) /\ phase' \in {"idle", "walk"}
    <3>1. CASE EndTurn(r, r.at) /\ r.says
      BY <3>1, <1>2, <2>3, <2>4 DEF EndTurn, WalkTypeOK
    <3>2. CASE GoOnFrom(r.at) /\ ~r.says
      BY <3>2, <1>2, <2>3, <2>4 DEF GoOnFrom, WalkTypeOK
    <3> QED
      BY <2>5, <3>1, <3>2
  <2>7. StepWasShown'
    BY <1>2, <2>3, <2>5 DEF EndTurn, GoOnFrom, StepWasShown, Located
  <2>8. Forward'
    <3>1. phase' = "walk" => node' = r.at /\ ~r.says
      BY <2>5 DEF EndTurn, GoOnFrom
    <3>2. \A rank : IsRank(rank) => \A m \in Nodes :
              calls[m] = 0 \/ (calls[m] = 1 /\ m \in DOMAIN graph /\ rank[m] < rank[node])
      BY <1>2
    <3> QED
      BY <3>1, <3>2, <1>2, <1>3, <1>9, <2>1, <2>2, <2>3, <2>4, ForwardMove
  <2> QED
    BY <2>6, <2>7, <2>8 DEF WalkInv, Leaving
<1> QED
  BY <1>8, <1>9

-----------------------------------------------------------------------------
(* The theorems.                                                           *)

\* Whatever graphs are published and whatever clients say, the invariant holds.
THEOREM WalkInvariant == WalkSpec => []WalkInv
<1>1. WalkInit => WalkInv
  <2> SUFFICES ASSUME WalkInit PROVE WalkInv
    OBVIOUS
  <2>1. WalkTypeOK
    <3>1. 0 \in 0..MaxHops
      BY WalkAssumption
    <3>2. rounds \in [Nodes -> Nat] /\ calls \in [Nodes -> Nat]
      BY DEF WalkInit
    <3> QED
      BY <3>1, <3>2 DEF WalkInit, WalkTypeOK
  <2>2. Leaving /\ Forward /\ StepWasShown /\ phase # "walk"
    BY DEF WalkInit, Leaving, Forward, StepWasShown
  <2> QED
    BY <2>1, <2>2 DEF WalkInv
<1>2. WalkInv /\ [WalkNext]_WalkVars => WalkInv'
  <2>1. ASSUME WalkInv, UNCHANGED WalkVars PROVE WalkInv'
    <3>1. WalkTypeOK' /\ (phase' = "walk" => hops' < MaxHops)
      BY <2>1 DEF WalkInv, WalkVars, WalkTypeOK
    <3>2. Leaving' /\ StepWasShown'
      BY <2>1 DEF WalkInv, WalkVars, Leaving, StepWasShown, Located, StartNode
    <3>3. Forward'
      BY <2>1 DEF WalkInv, WalkVars, Forward, IsRank, EdgeTo
    <3> QED
      BY <3>1, <3>2, <3>3 DEF WalkInv
  <2> QED
    BY <2>1, RepublishStep, ReceiveStep, LeaveStepStep, HopStep DEF WalkNext
<1> QED
  BY <1>1, <1>2, PTL DEF WalkSpec

\* Every variable keeps its type.
THEOREM WalkTypeCorrect == WalkSpec => []WalkTypeOK
<1>1. WalkInv => WalkTypeOK
  BY DEF WalkInv
<1> QED
  BY <1>1, WalkInvariant, PTL

\* For any graphs: the client's word answers the node it has seen last, unless
\* the graph has changed or the last turn said nothing.
THEOREM StepsAreShown == WalkSpec => []StepWasShown
<1>1. WalkInv => StepWasShown
  BY DEF WalkInv
<1> QED
  BY <1>1, WalkInvariant, PTL

\* For any graph whose edges never lead back, of any size, and any bound on the
\* hops: a turn calls each CRM or API node once at most.
THEOREM CallsAreSingle == WalkSpec => []CallsOnce
<1>1. WalkInv => CallsOnce
  <2> SUFFICES ASSUME WalkInv, graph \in AcyclicGraphs PROVE \A n \in Nodes : calls[n] <= 1
    BY DEF CallsOnce
  <2>1. PICK rank \in [DOMAIN graph -> 1..Cardinality(DOMAIN graph)] :
           \A n \in DOMAIN graph : \A i \in DOMAIN graph[n].next :
              rank[n] < rank[graph[n].next[i].to]
    BY DEF AcyclicGraphs
  <2>2. IsRank(rank)
    BY <2>1 DEF IsRank, EdgeTo
  <2> QED
    BY <2>2 DEF WalkInv, Forward
<1> QED
  BY <1>1, WalkInvariant, PTL
=============================================================================
