-------------------------- MODULE FlowPublication --------------------------
(***************************************************************************)
(* The flow of one bot: its row, its revisions, and the copies that each   *)
(* process keeps under a version number of Redis.                          *)
(*                                                                         *)
(*   publishers  publish_bot_flow: flush, snapshot, invalidate, put; the   *)
(*               request's session commits when the answer is ready        *)
(*   restorers   rollback_flow_revision: the same with an old graph        *)
(*   adopters    adopt_prompt_reply_graph, inside a turn: no snapshot      *)
(*   savers      save_bot_flow: writes the same row, and nothing else      *)
(*   loaders     each process, when it needs the graph for a turn          *)
(*                                                                         *)
(* A graph has the name of the session that first wrote it.  Processes may *)
(* lose Redis for a while: what they serve then is no longer checked.  The *)
(* version key lasts (it expires after seven days without a publication).  *)
(***************************************************************************)
EXTENDS Naturals

CONSTANTS
    Publishers, Restorers, Adopters, Savers, \* the sessions that write the row
    Procs, Home,     \* processes, and the one each session runs in
    FirstGraph,      \* published before, as revision 1
    NoFlow,          \* no entry, no lock holder
    FlowCasts,       \* bound: sets of sessions that take part together
    MaxFlowFaults    \* bound: failed commits and Redis outages

Writers == Publishers \union Restorers \union Adopters \union Savers
Stampers == Publishers \union Restorers      \* they take a snapshot
Movers == Stampers \union Adopters           \* they invalidate the caches
GraphIds == Writers \union {FirstGraph}

ASSUME FlowAssumption ==
    /\ Publishers \cap (Restorers \union Adopters \union Savers) = {}
    /\ Savers \cap Movers = {} /\ Adopters \cap Stampers = {}
    /\ FirstGraph \notin Writers /\ NoFlow \notin GraphIds
    /\ Home \in [Writers -> Procs]
    /\ FlowCasts \subseteq SUBSET Writers
    /\ MaxFlowFaults \in Nat

VARIABLES
    flowRow,     \* committed graph of the flow
    revisions,   \* committed revisions: the graph of each version
    flowLock,    \* holder of the row's lock
    redisVer,    \* the version number in Redis
    cutOff,      \* the processes that cannot reach Redis
    flowCache,   \* each process's entry
    flowPc, flowDraft, flowVersion, \* a session's step, graph and version
    loadPc, loaded, \* a loader's step; its copy of the row, then what its turn runs with
    flowFaults,
    live,        \* history: the graph last committed by a mover
    raced        \* history: processes whose entry was made while the row and
                 \* the version were not of one publication

flowData == <<flowRow, revisions, flowLock>>
flowSession == <<flowPc, flowDraft, flowVersion>>
flowLoad == <<loadPc, loaded>>
flowRedis == <<redisVer, cutOff>>
FlowVars == <<flowData, flowSession, flowLoad, flowRedis, flowCache, flowFaults, live, raced>>

FlowSteps == {"idle", "written", "stamped", "bumped", "put", "done", "failed"}

FlowTypeOK ==
    /\ flowRow \in GraphIds /\ live \in GraphIds
    /\ DOMAIN revisions \subseteq Nat
    /\ \A v \in DOMAIN revisions : revisions[v] \in GraphIds
    /\ flowLock \in Writers \union {NoFlow}
    /\ redisVer \in Nat /\ cutOff \subseteq Procs
    /\ flowCache \in [Procs -> [graph : GraphIds, ver : Nat] \union {NoFlow}]
    /\ flowPc \in [Writers -> FlowSteps]
    /\ flowDraft \in [Writers -> GraphIds]
    /\ flowVersion \in [Writers -> Nat]
    /\ loadPc \in [Procs -> {"idle", "open", "loaded"}]
    /\ loaded \in [Procs -> GraphIds]
    /\ flowFaults \in 0..MaxFlowFaults
    /\ raced \subseteq Procs

FlowInit ==
    /\ flowRow = FirstGraph /\ live = FirstGraph
    /\ revisions = [v \in {1} |-> FirstGraph]
    /\ flowLock = NoFlow
    /\ redisVer = 0 /\ cutOff = {}
    /\ flowCache = [q \in Procs |-> NoFlow]
    /\ \E cast \in FlowCasts :
          flowPc = [w \in Writers |-> IF w \in cast THEN "idle" ELSE "failed"]
    /\ flowDraft = [w \in Writers |-> w]
    /\ flowVersion = [w \in Writers |-> 0]
    /\ loadPc = [q \in Procs |-> "idle"]
    /\ loaded = [q \in Procs |-> FirstGraph]
    /\ flowFaults = MaxFlowFaults
    /\ raced = {}

-----------------------------------------------------------------------------
FlowGoto(w, pc) == flowPc' = [flowPc EXCEPT ![w] = pc]
FlowFault == flowFaults > 0 /\ flowFaults' = flowFaults - 1

(* Redis, as the processes see it, and the sessions that write.            *)

\* Some processes, or all of them, lose Redis ...
LoseRedis ==
    /\ cutOff = {} /\ FlowFault
    /\ cutOff' \in SUBSET Procs \ {{}}
    /\ UNCHANGED <<flowData, flowSession, flowLoad, redisVer, flowCache, live, raced>>

\* ... and find it as it was.
RegainRedis ==
    /\ cutOff # {} /\ cutOff' = {}
    /\ UNCHANGED <<flowData, flowSession, flowLoad, redisVer, flowCache, flowFaults, live, raced>>

\* What put_from_orm tags an entry with: "0" if the version cannot be read.
Tag(q) == IF q \in cutOff THEN 0 ELSE redisVer

\* A restorer writes the graph of some revision.
Candidates(w) ==
    IF w \in Restorers THEN {revisions[v] : v \in DOMAIN revisions} ELSE {w}

\* Mutant: nothing makes a second writer wait.
WriteUnlocked(w) ==
    /\ flowPc[w] = "idle"
    /\ \E graph \in Candidates(w) : flowDraft' = [flowDraft EXCEPT ![w] = graph]
    /\ FlowGoto(w, "written")
    /\ UNCHANGED <<flowData, flowVersion, flowLoad, flowRedis, flowCache, flowFaults, live, raced>>

\* The flush of the row: its lock is held until the end.
WriteFlow(w) ==
    /\ flowPc[w] = "idle" /\ flowLock = NoFlow
    /\ flowLock' = w
    /\ \E graph \in Candidates(w) : flowDraft' = [flowDraft EXCEPT ![w] = graph]
    /\ FlowGoto(w, "written")
    /\ UNCHANGED <<flowRow, revisions, flowVersion, flowLoad, flowRedis, flowCache, flowFaults,
                   live, raced>>

\* snapshot_on_publish: one more than the greatest version.
Snapshot(w) ==
    /\ w \in Stampers /\ flowPc[w] = "written"
    /\ \E v \in DOMAIN revisions :
          /\ \A u \in DOMAIN revisions : u <= v
          /\ flowVersion' = [flowVersion EXCEPT ![w] = v + 1]
    /\ FlowGoto(w, "stamped")
    /\ UNCHANGED <<flowData, flowDraft, flowLoad, flowRedis, flowCache, flowFaults, live, raced>>

AtInvalidate(w) ==
    \/ w \in Stampers /\ flowPc[w] = "stamped"
    \/ w \in Adopters /\ flowPc[w] = "written"

\* Mutant: the entry is dropped in the session's own process only.
InvalidateLocally(w) ==
    /\ AtInvalidate(w)
    /\ flowCache' = [flowCache EXCEPT ![Home[w]] = NoFlow]
    /\ FlowGoto(w, "bumped")
    /\ UNCHANGED <<flowData, flowDraft, flowVersion, flowLoad, flowRedis, flowFaults, live, raced>>

\* PublishedFlowCache.invalidate.
Invalidate(w) ==
    /\ AtInvalidate(w) /\ Home[w] \notin cutOff
    /\ flowCache' = [flowCache EXCEPT ![Home[w]] = NoFlow]
    /\ redisVer' = redisVer + 1
    /\ FlowGoto(w, "bumped")
    /\ UNCHANGED <<flowData, flowDraft, flowVersion, flowLoad, cutOff, flowFaults, live, raced>>

\* bump_flow_cache_version fails, and nobody is told.
BumpFails(w) ==
    /\ AtInvalidate(w) /\ Home[w] \in cutOff
    /\ flowCache' = [flowCache EXCEPT ![Home[w]] = NoFlow]
    /\ raced' = Procs
    /\ FlowGoto(w, "bumped")
    /\ UNCHANGED <<flowData, flowDraft, flowVersion, flowLoad, flowRedis, flowFaults, live>>

\* put_from_orm: the process's own entry, before the commit.
PutOwn(w) ==
    /\ flowPc[w] = "bumped"
    /\ flowCache' = [flowCache EXCEPT ![Home[w]] = [graph |-> flowDraft[w], ver |-> Tag(Home[w])]]
    /\ raced' = raced \ {Home[w]}
    /\ FlowGoto(w, "put")
    /\ UNCHANGED <<flowData, flowDraft, flowVersion, flowLoad, flowRedis, flowFaults, live>>

ReadyToCommit(w) == flowPc[w] = "put" \/ (w \in Savers /\ flowPc[w] = "written")

CommitFlow(w) ==
    /\ ReadyToCommit(w)
    /\ flowRow' = flowDraft[w]
    /\ live' = IF w \in Movers THEN flowDraft[w] ELSE live
    /\ revisions' = IF w \in Stampers
                    THEN [v \in DOMAIN revisions \union {flowVersion[w]} |->
                             IF v = flowVersion[w] THEN flowDraft[w] ELSE revisions[v]]
                    ELSE revisions
    /\ flowLock' = NoFlow
    /\ FlowGoto(w, "done")
    /\ UNCHANGED <<flowDraft, flowVersion, flowLoad, flowRedis, flowCache, flowFaults, raced>>

\* The commit fails, or the answer is an error: the caches are not told.
RollbackFlow(w) ==
    /\ flowPc[w] \in {"written", "stamped", "bumped", "put"}
    /\ FlowFault
    /\ flowLock' = NoFlow
    /\ FlowGoto(w, "failed")
    /\ raced' = IF flowPc[w] = "put" THEN raced \union {Home[w]} ELSE raced
    /\ UNCHANGED <<flowRow, revisions, flowDraft, flowVersion, flowLoad, flowRedis, flowCache,
                   live>>

-----------------------------------------------------------------------------
(* load_compiled_graph and the other loaders.                              *)

\* A turn loads its bot, and the flow's row with it.
OpenTurn(q) ==
    /\ loadPc[q] = "idle"
    /\ loadPc' = [loadPc EXCEPT ![q] = "open"]
    /\ loaded' = [loaded EXCEPT ![q] = flowRow]
    /\ UNCHANGED <<flowData, flowSession, flowRedis, flowCache, flowFaults, live,
                   raced>>

\* PublishedFlowCache.get: without Redis the entry is trusted as it is.
Fresh(q) == flowCache[q] # NoFlow /\ (q \in cutOff \/ flowCache[q].ver = redisVer)

ServeCached(q) ==
    /\ loadPc[q] = "open" /\ Fresh(q)
    /\ loaded' = [loaded EXCEPT ![q] = flowCache[q].graph]
    /\ loadPc' = [loadPc EXCEPT ![q] = "idle"]
    /\ UNCHANGED <<flowData, flowSession, flowRedis, flowCache, flowFaults, live,
                   raced>>

\* The entry is gone or of another version: the row is selected, which gives the
\* copy loaded with the bot unless it is refreshed (_get_latest_published_flow).
LoadFlow(q) ==
    /\ loadPc[q] = "open" /\ ~Fresh(q)
    /\ loadPc' = [loadPc EXCEPT ![q] = "loaded"]
    /\ \E graph \in {loaded[q], flowRow} : loaded' = [loaded EXCEPT ![q] = graph]
    /\ flowCache' = [flowCache EXCEPT ![q] = NoFlow]
    /\ UNCHANGED <<flowData, flowSession, flowRedis, flowFaults, live, raced>>

\* A session has announced its graph and not committed it.
Between == \E w \in Movers : flowPc[w] \in {"bumped", "put"}

\* The entry is tagged with the version as it is after the read.
FillCache(q) ==
    /\ loadPc[q] = "loaded"
    /\ flowCache' = [flowCache EXCEPT ![q] = [graph |-> loaded[q], ver |-> Tag(q)]]
    /\ raced' = IF Between \/ loaded[q] # flowRow THEN raced \union {q} ELSE raced \ {q}
    /\ loadPc' = [loadPc EXCEPT ![q] = "idle"]
    /\ UNCHANGED <<flowData, flowSession, loaded, flowRedis, flowFaults, live>>

-----------------------------------------------------------------------------
FlowNext ==
    \/ \E w \in Writers :
         \/ WriteFlow(w) \/ Snapshot(w) \/ Invalidate(w) \/ BumpFails(w) \/ PutOwn(w)
         \/ CommitFlow(w) \/ RollbackFlow(w)
    \/ \E q \in Procs : OpenTurn(q) \/ ServeCached(q) \/ LoadFlow(q) \/ FillCache(q)
    \/ LoseRedis \/ RegainRedis

FlowSpec == FlowInit /\ [][FlowNext]_FlowVars

-----------------------------------------------------------------------------
Committed(g) == g = FirstGraph \/ flowPc[g] = "done"

\* When nobody is publishing, an entry that a process would serve holds the
\* graph published last (or a saved draft: see DraftsAreNotServed), unless the
\* entry was made between a version and its commit, or a fault left it behind.
\* A process that is cut off from Redis serves its entry whatever was published
\* since, though never a graph that was not committed.
StaleOnlyIfRaced ==
    \A q \in Procs :
        Fresh(q) /\ ~Between /\ q \notin raced =>
            /\ Committed(flowCache[q].graph)
            /\ q \notin cutOff => flowCache[q].graph \in {live} \union Savers

\* Every publication has a revision of its own, however many run at a time, and
\* the latest revision is the graph published last (unless a turn has adopted
\* the prompt graph since, which takes no snapshot).
LatestRevisionIsLive ==
    /\ \A w \in Publishers : flowPc[w] = "done" => \E v \in DOMAIN revisions : revisions[v] = w
    /\ live \notin Adopters =>
          \E v \in DOMAIN revisions :
              revisions[v] = live /\ \A u \in DOMAIN revisions : u <= v

\* Whatever publications, rollbacks, adoptions and saves overlap, the database
\* shows them one after the other: each publication adds the next revision, a
\* rollback brings back the graph of a committed one, none is rewritten.
History ==
    INSTANCE FlowHistory
    WITH Published <- Publishers, Adopted <- Adopters, Saved <- Savers,
         row <- flowRow, history <- revisions
PublicationsAreHistory == History!Spec

\* "Save is always draft -- publishing is exclusive to /publish": no turn runs
\* with a graph that was saved and never published.
DraftsAreNotServed == \A q \in Procs : loadPc[q] = "idle" => loaded[q] \notin Savers
=============================================================================
