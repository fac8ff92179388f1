------------------------------ MODULE FlowWalk ------------------------------
(***************************************************************************)
(* FlowExecutor: how a client's message moves the conversation through the *)
(* bot's graph.  A turn locates the stored step, leaves it, and then hops  *)
(* from node to node until one of them has something to say, or MAX_HOPS   *)
(* nodes have been entered.  The node it ends on becomes the stored step.  *)
(* Between turns the graph may be published again.  A client's turns       *)
(* follow each other: one that begins while another is running has loaded  *)
(* the step with its bot, before it waits for the client's row.            *)
(*                                                                         *)
(* A graph maps the identifiers of its nodes to their kind, the buttons of *)
(* a text message, and the edges in the order of the document; "on" is the *)
(* handle of an edge.  Texts are not empty, templates and prompts are left *)
(* out; what a condition or an API call finds, and whether a node of       *)
(* another kind has a text, are free choices.  No node is called "root" or *)
(* "welcome", which START_ALIASES takes for the start.                     *)
(***************************************************************************)
EXTENDS Integers, Sequences, FiniteSets

CONSTANTS
    Nodes, Graphs,   \* identifiers of nodes; the graphs that may be published
    Words,           \* what a client may say: the buttons, and anything else
    NoHandle, NoNode, \* an edge without a handle; no node, the start of a flow
    MaxRounds,       \* max_iterations of a loop node
    MaxHops          \* MAX_HOPS

Kinds == {"trigger", "ai_agent", "knowledge_search", "condition", "crm_action", "text_message",
          "api_request", "loop", "human_handoff", "other"}
Callers == {"crm_action", "api_request"}
Handles == Words \union {NoHandle, "true", "false", "body", "exit", "success", "failure"}

ASSUME WalkAssumption ==
    /\ NoNode \notin Nodes
    /\ MaxRounds \in Nat \ {0} /\ MaxHops \in Nat \ {0}
    /\ \A g \in Graphs :
         /\ DOMAIN g \subseteq Nodes /\ DOMAIN g # {}
         /\ \A n \in DOMAIN g :
              /\ g[n].kind \in Kinds /\ g[n].buttons \subseteq Words
              /\ g[n].next \in Seq([on : Handles, to : DOMAIN g])

VARIABLES
    graph,     \* the graph that the next turn loads
    step,      \* current_step_id of the client
    phase, node, hops, rounds, word, \* a turn: the executor's state and the message
    calls,     \* requests each CRM or API node has made in this turn
    seen,     \* history: the node whose text the client saw last
    unsure     \* history: the graph was published since, or the last turn said nothing

WalkVars == <<graph, step, phase, node, hops, rounds, word, calls, seen, unsure>>

WalkTypeOK ==
    /\ graph \in Graphs
    /\ step \in Nodes \union {NoNode}
    /\ phase \in {"idle", "leave", "walk"}
    /\ phase # "idle" => node \in DOMAIN graph
    /\ hops \in 0..MaxHops
    /\ rounds \in [Nodes -> Nat] /\ calls \in [Nodes -> Nat]
    /\ word \in Words
    /\ seen \in Nodes \union {NoNode} /\ unsure \in BOOLEAN

WalkInit ==
    /\ graph \in Graphs
    /\ step = NoNode /\ phase = "idle" /\ node = NoNode /\ hops = 0
    /\ rounds = [n \in Nodes |-> 0] /\ calls = [n \in Nodes |-> 0]
    /\ word \in Words
    /\ seen = NoNode /\ unsure = FALSE

-----------------------------------------------------------------------------
(* Edges.                                                                  *)

\* _find_edge_by_handle: the first edge of n with this handle.
ByHandle(g, n, handle) ==
    LET next == g[n].next
        first == {i \in DOMAIN next :
                    next[i].on = handle /\ \A j \in 1..(i - 1) : next[j].on # handle}
    IN  IF first = {} THEN NoNode ELSE next[CHOOSE i \in first : TRUE].to

FirstEdge(g, n) == IF g[n].next = <<>> THEN NoNode ELSE g[n].next[1].to

\* _follow_default_edge: an edge without a handle if there is one.
DefaultEdge(g, n) ==
    IF ByHandle(g, n, NoHandle) # NoNode THEN ByHandle(g, n, NoHandle) ELSE FirstEdge(g, n)

\* _find_start_node: nodes without incoming edges, triggers before texts before
\* agents before the rest (CHOOSE stands for the order of the document).
StartNode(g) ==
    LET roots == {n \in DOMAIN g :
                    \A m \in DOMAIN g : \A i \in DOMAIN g[m].next : g[m].next[i].to # n}
        of(kinds) == {n \in roots : g[n].kind \in kinds}
    IN  CHOOSE n \in DOMAIN g :
            IF roots = {} THEN TRUE
            ELSE IF of({"trigger"}) # {} THEN n \in of({"trigger"})
            ELSE IF of({"text_message"}) # {} THEN n \in of({"text_message"})
            ELSE IF of({"ai_agent"}) # {} THEN n \in of({"ai_agent"})
            ELSE n \in roots

\* locate_active_node: an unknown step counts as the start.
Located(g, s) == IF s \in DOMAIN g THEN s ELSE StartNode(g)

-----------------------------------------------------------------------------
(* What entering a node gives: the node the result names, whether it says  *)
(* something to the client, and whether it is a silent handoff.            *)

Say(n)   == [at |-> n, says |-> TRUE, silent |-> FALSE]
Stuck(n) == [at |-> n, says |-> FALSE, silent |-> FALSE]
PassTo(target, otherwise) ==
    IF target = NoNode THEN otherwise ELSE [at |-> target, says |-> FALSE, silent |-> TRUE]

Passthrough(g, n) == PassTo(FirstEdge(g, n), Stuck(n))

\* The chunks found go to the session's variables.
EvalKnowledgeSearch(g, n) == PassTo(FirstEdge(g, n), Stuck(n))

\* Whatever fails, there is a text: the model's, or one of the fallbacks.
EvalLlm(n) == Say(n)

EvalCondition(g, n, yes) == PassTo(ByHandle(g, n, IF yes THEN "true" ELSE "false"), Say(n))

\* The counter is one of the turn's variables; "yes" is continue_expression.
EvalLoop(g, n, yes) ==
    LET body == ByHandle(g, n, "body")
    IN  PassTo(IF yes /\ rounds[n] < MaxRounds /\ body # NoNode
               THEN body ELSE ByHandle(g, n, "exit"), Stuck(n))

EvalHumanHandoff(n) == Say(n)

\* The call may fail: the answer is a variable either way.
EvalCrm(g, n) == PassTo(FirstEdge(g, n), Say(n))

EvalApiRequest(g, n, yes) ==
    PassTo(ByHandle(g, n, IF yes THEN "success" ELSE "failure"), Say(n))

\* _enter_node.
EnterNode(g, n, yes) ==
    CASE g[n].kind = "trigger"          -> Passthrough(g, n)
      [] g[n].kind = "ai_agent"         -> EvalLlm(n)
      [] g[n].kind = "knowledge_search" -> EvalKnowledgeSearch(g, n)
      [] g[n].kind = "condition"        -> EvalCondition(g, n, yes)
      [] g[n].kind = "crm_action"       -> EvalCrm(g, n)
      [] g[n].kind = "text_message"     -> Say(n)
      [] g[n].kind = "api_request"      -> EvalApiRequest(g, n, yes)
      [] g[n].kind = "loop"             -> EvalLoop(g, n, yes)
      [] g[n].kind = "human_handoff"    -> EvalHumanHandoff(n)
      [] g[n].kind = "other"            -> IF yes THEN Say(n) ELSE Stuck(n)

\* The variables that entering n changes (NoNode: nothing is entered).
Entered(g, n) ==
    /\ rounds' = IF n \in DOMAIN g /\ g[n].kind = "loop"
                 THEN [rounds EXCEPT ![n] = @ + 1] ELSE rounds
    /\ calls' = IF n \in DOMAIN g /\ g[n].kind \in Callers
                THEN [calls EXCEPT ![n] = @ + 1] ELSE calls

-----------------------------------------------------------------------------
(* Turns.                                                                  *)

\* publish_bot_flow, or any other writer of the graph.
Republish ==
    /\ phase = "idle"
    /\ graph' \in Graphs \ {graph}
    /\ unsure' = TRUE
    /\ calls' = [n \in Nodes |-> 0]
    /\ UNCHANGED <<step, phase, node, hops, rounds, word, seen>>

\* execute: a step that is no alias of the start is left before the walk.
Receive ==
    /\ phase = "idle"
    /\ word' \in Words
    /\ node' = IF step = NoNode THEN StartNode(graph) ELSE Located(graph, step)
    /\ phase' = IF step = NoNode THEN "walk" ELSE "leave"
    /\ hops' = 0
    /\ rounds' = [n \in Nodes |-> 0] /\ calls' = [n \in Nodes |-> 0]
    /\ UNCHANGED <<graph, step, seen, unsure>>

\* Mutant: the step is stored as the turn found it.
StoreOldStep(result, stored) ==
    /\ step' = node
    /\ seen' = IF result.says THEN result.at ELSE seen
    /\ unsure' = ~result.says
    /\ phase' = "idle"
    /\ UNCHANGED node

\* The turn's result is sent and the step stored.  Nothing is sent for a silent
\* result, and a fallback for an empty one.
EndTurn(result, stored) ==
    /\ step' = stored
    /\ seen' = IF result.says THEN result.at ELSE seen
    /\ unsure' = ~result.says
    /\ phase' = "idle"
    /\ UNCHANGED node

GoOnFrom(n) == node' = n /\ phase' = "walk" /\ UNCHANGED <<step, seen, unsure>>

\* _match_button and the edge of the button.
ButtonTarget(n) ==
    LET target == ByHandle(graph, n, word)
    IN  IF word \notin graph[n].buttons THEN NoNode
        ELSE IF target = NoNode /\ Len(graph[n].next) = 1 /\ graph[n].next[1].on = NoHandle
        THEN FirstEdge(graph, n) ELSE target

\* _advance_from_current: the node that leaving n enters, or NoNode when the
\* text of n is said (again).
EnteredByLeaving(n) ==
    IF graph[n].kind \in {"ai_agent", "knowledge_search", "condition", "loop", "human_handoff",
                          "crm_action"}
    THEN n
    ELSE IF graph[n].buttons # {} THEN ButtonTarget(n) ELSE FirstEdge(graph, n)

\* Mutant: the walk enters once more what leaving the step has entered.
LeaveAndEnter ==
    /\ phase = "leave"
    /\ \E yes \in BOOLEAN :
         LET next == EnteredByLeaving(node)
             result == IF next = NoNode THEN Say(node) ELSE EnterNode(graph, next, yes)
         IN  /\ Entered(graph, next)
             /\ IF result.says THEN EndTurn(result, result.at) ELSE GoOnFrom(next)
    /\ UNCHANGED <<graph, hops, word>>

\* A word that is no button leaves the stored step as it is, even an unknown one.
LeaveStep ==
    /\ phase = "leave"
    /\ \E yes \in BOOLEAN :
         LET next == EnteredByLeaving(node)
             result == IF next = NoNode THEN Say(node) ELSE EnterNode(graph, next, yes)
             mismatch == graph[node].kind = "text_message" /\ graph[node].buttons # {}
                         /\ word \notin graph[node].buttons
         IN  /\ Entered(graph, next)
             /\ IF result.says
                THEN EndTurn(result, IF mismatch THEN step ELSE result.at)
                ELSE GoOnFrom(result.at)
    /\ UNCHANGED <<graph, hops, word>>

\* One hop.  A handoff to itself counts as no handoff: the default edge is taken.
Hop ==
    /\ phase = "walk"
    /\ hops' = hops + 1
    /\ \E yes \in BOOLEAN :
         LET result == EnterNode(graph, node, yes)
             next == IF result.silent /\ result.at # node THEN result.at
                     ELSE DefaultEdge(graph, node)
         IN  /\ Entered(graph, node)
             /\ IF result.says \/ next = NoNode \/ hops + 1 = MaxHops
                THEN EndTurn(result, result.at) ELSE GoOnFrom(next)
    /\ UNCHANGED <<graph, word>>

WalkNext == Republish \/ Receive \/ LeaveStep \/ Hop

WalkSpec == WalkInit /\ [][WalkNext]_WalkVars

-----------------------------------------------------------------------------
\* Between turns (which follow each other) the client's next word is taken for an
\* answer to the node whose text the client saw last, unless the graph was
\* published since, or the last turn had nothing to say (a cycle of silent nodes
\* up to MAX_HOPS, or a node without an edge).
StepWasShown ==
    phase = "idle" /\ step # NoNode => Located(graph, step) = seen \/ unsure

\* The graphs in which no way comes back to where it was: their nodes can be
\* numbered along the edges.
AcyclicGraphs ==
    {g \in Graphs :
        \E rank \in [DOMAIN g -> 1..Cardinality(DOMAIN g)] :
            \A n \in DOMAIN g : \A i \in DOMAIN g[n].next : rank[n] < rank[g[n].next[i].to]}

\* Whatever step a turn starts from and whatever the client says, it calls a CRM
\* or API node at most once, unless the graph leads back to it.
CallsOnce == graph \in AcyclicGraphs => \A n \in Nodes : calls[n] <= 1
=============================================================================
