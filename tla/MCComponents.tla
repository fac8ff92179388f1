---------------------------- MODULE MCComponents ----------------------------
(***************************************************************************)
(* HubTokens, HubOutbound, AuthSessions, InboundTurns, FlowPublication and *)
(* FlowWalk on small instances.  They share no variable: a behaviour is a  *)
(* scene, in which one of them moves and the others have nobody who could  *)
(* (an empty cast).                                                        *)
(***************************************************************************)
EXTENDS HubTokens, HubOutbound, AuthSessions, InboundTurns, FlowPublication, FlowWalk,
        TLC

CONSTANTS k1, k2, b1, b2, c1, d1, h1,    \* connections and their sessions
          j1, j2,                        \* outbound jobs
          l1, l2, r1, r2, o1, a1, w1, w2, \* requests of a user
          p1, p2, p3, p4, p5, x1, x2, x3, \* deliveries and operators
          u1, u2, t1, n1, s1, q1, q2     \* writers of a flow, processes

VARIABLE scene

MCTarget == (c1 :> k1) @@ (d1 :> k1)
MCCasts ==
    {<<{}, {}>>, <<{b1, b2}, {k1, k2}>>, <<{b1, b2, d1}, {k1}>>, <<{b1, c1, d1}, {k1}>>,
     <<{b1, h1, c1}, {k1}>>, <<{b1, h1, d1}, {k1}>>}

MCActionOf == (j1 :> "a") @@ (j2 :> "a")
MCOutCasts == {{}, {j1, j2}}

MCAuthCasts ==
    {{}, {l1, l2, r1, w1}, {l1, r1, r2, a1}, {l1, r1, r2, w1}, {l1, r1, o1, a1},
     {l1, r1, w1, w2}}

MCMsgOf == (p1 :> "m1") @@ (p2 :> "m1") @@ (p3 :> "m2") @@ (p4 :> "m3") @@ (p5 :> "m4")
MCSays == ("m1" :> "text") @@ ("m2" :> "resume") @@ ("m3" :> "stop") @@ ("m4" :> "text")
MCAsks == (x1 :> TRUE) @@ (x2 :> FALSE) @@ (x3 :> TRUE)
MCInboundCasts ==
    {{}, {p1, p2, x1}, {p1, x1, x2, x3}, {p1, p3, x1}, {p3, x1, x3}, {p1, p4, x3}, {p4, x2, x3},
     {p5, x1, x2}}

MCHome == (u1 :> q1) @@ (u2 :> q2) @@ (t1 :> q1) @@ (n1 :> q2) @@ (s1 :> q1)
MCFlowCasts == {{}, {u1, u2}, {u1, t1}, {n1, s1}}

Node(kind, buttons, next) == [kind |-> kind, buttons |-> buttons, next |-> next]
On(handle, n) == [on |-> handle, to |-> n]
To(n) == On(NoHandle, n)

\* A welcome with two buttons, an agent at the end.
ButtonGraph ==
    [n1 |-> Node("trigger", {}, <<To("n2")>>),
     n2 |-> Node("text_message", {"a", "b"}, <<On("a", "n3"), On("b", "n5")>>),
     n3 |-> Node("crm_action", {}, <<To("n4")>>),
     n4 |-> Node("ai_agent", {}, <<>>),
     n5 |-> Node("api_request", {}, <<On("success", "n3"), On("failure", "n4")>>)]

\* A loop longer than MaxHops, and a search that leads nowhere.
LoopGraph ==
    [n1 |-> Node("text_message", {}, <<To("n2")>>),
     n2 |-> Node("loop", {}, <<On("body", "n3"), On("exit", "n4")>>),
     n3 |-> Node("crm_action", {}, <<To("n2")>>),
     n4 |-> Node("knowledge_search", {}, <<>>)]

\* A condition that leads to itself, nodes the other graphs do not have.
BranchGraph ==
    [n1 |-> Node("trigger", {}, <<To("n2")>>),
     n2 |-> Node("condition", {}, <<On("true", "n3"), On("false", "n2")>>),
     n3 |-> Node("text_message", {"a"}, <<To("n4")>>),
     n4 |-> Node("api_request", {}, <<On("success", "n6")>>),
     n6 |-> Node("other", {}, <<To("n7")>>),
     n7 |-> Node("human_handoff", {}, <<>>)]

MCGraphs == {ButtonGraph, LoopGraph, BranchGraph}

MCInit ==
    /\ scene \in {"tokens", "outbound", "sessions", "inbound", "flow", "walk"}
    /\ TokInit /\ (scene = "tokens") = (\E p \in Sessions : tpc[p] = "idle")
    /\ OutInit /\ (scene = "outbound") = (\E j \in Jobs : outPc[j] = "queued")
    /\ AuthInit /\ (scene = "sessions") = (\E r \in Requests : sesPc[r] = "idle")
    /\ InboundInit /\ (scene = "inbound") = (\E p \in Posts : postPc[p] = "posted")
    /\ FlowInit /\ (scene = "flow") = (\E w \in Writers : flowPc[w] = "idle")
    /\ WalkInit /\ (scene # "walk" => graph = ButtonGraph /\ word = "a")

MCNext ==
    \/ scene = "tokens" /\ TokNext
       /\ UNCHANGED <<scene, OutVars, AuthVars, InboundVars, FlowVars, WalkVars>>
    \/ scene = "outbound" /\ OutNext
       /\ UNCHANGED <<scene, TokVars, AuthVars, InboundVars, FlowVars, WalkVars>>
    \/ scene = "sessions" /\ AuthNext
       /\ UNCHANGED <<scene, TokVars, OutVars, InboundVars, FlowVars, WalkVars>>
    \/ scene = "inbound" /\ InboundNext
       /\ UNCHANGED <<scene, TokVars, OutVars, AuthVars, FlowVars, WalkVars>>
    \/ scene = "flow" /\ FlowNext
       /\ UNCHANGED <<scene, TokVars, OutVars, AuthVars, InboundVars, WalkVars>>
    \/ scene = "walk" /\ WalkNext
       /\ UNCHANGED <<scene, TokVars, OutVars, AuthVars, InboundVars, FlowVars>>

MCVars == <<scene, TokVars, OutVars, AuthVars, InboundVars, FlowVars, WalkVars>>

MCSpec ==
    MCInit /\ [][MCNext]_MCVars /\ TokFairness /\ OutFairness /\ InboundFairness

\* Every variable of the modules has its type.
ComponentsTypeOK ==
    TokTypeOK /\ OutTypeOK /\ AuthTypeOK /\ InboundTypeOK /\ FlowTypeOK /\ WalkTypeOK
=============================================================================
