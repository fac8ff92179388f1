---------------------------- MODULE FlowHistory ----------------------------
(***************************************************************************)
(* What the publication of a flow promises of the database: publications   *)
(* take place one after the other, each adds a revision of its own, and no *)
(* revision is ever lost, rewritten or numbered twice.                     *)
(***************************************************************************)
EXTENDS Sequences

CONSTANTS
    Published, Adopted, Saved,  \* graphs that are published, taken from the prompt, saved
    FirstGraph

VARIABLES
    row,      \* the graph in the flow's row
    live,     \* the graph made live last
    history   \* the revisions

Init == row = FirstGraph /\ live = FirstGraph /\ history = <<FirstGraph>>

MakeLive(g) == row' = g /\ live' = g

\* A graph is published once ...
Publish(g) ==
    /\ \A v \in DOMAIN history : history[v] # g
    /\ MakeLive(g)
    /\ history' = Append(history, g)

\* ... and comes back as a further revision.
Restore(v) ==
    /\ MakeLive(history[v])
    /\ history' = Append(history, history[v])

Adopt(g) == MakeLive(g) /\ UNCHANGED history

Save(g) == row' = g /\ UNCHANGED <<live, history>>

Next ==
    \/ \E g \in Published : Publish(g)
    \/ \E v \in DOMAIN history : Restore(v)
    \/ \E g \in Adopted : Adopt(g)
    \/ \E g \in Saved : Save(g)

Spec == Init /\ [][Next]_<<row, live, history>>
=============================================================================
