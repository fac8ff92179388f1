--------------------------- MODULE EventLifecycle ---------------------------
(***************************************************************************)
(* What the inbound queue promises of the events it still answers for: an  *)
(* event is stored once, is in the hands of at most one worker at a time,  *)
(* and the outcome that worker gives it is final.  An event that the queue *)
(* no longer answers for is dropped.                                       *)
(***************************************************************************)
CONSTANTS Events, Workers

VARIABLES
    phase,   \* status of each event that was not dropped
    busy     \* workers that have it in hand

Init ==
    /\ phase = [e \in Events |-> "absent"]
    /\ busy = [e \in Events |-> {}]

Store(e) ==
    /\ phase[e] = "absent"
    /\ \E p \in {"received", "dead_letter"} : phase' = [phase EXCEPT ![e] = p]
    /\ UNCHANGED busy

Claim(e, w) ==
    /\ phase[e] = "received" /\ busy[e] = {}
    /\ phase' = [phase EXCEPT ![e] = "processing"]
    /\ busy' = [busy EXCEPT ![e] = {w}]

\* An event whose connection is gone is not worth a dispatch.
Refuse(e) ==
    /\ phase[e] = "received"
    /\ phase' = [phase EXCEPT ![e] = "dead_letter"]
    /\ UNCHANGED busy

\* The worker that has the event in hand ends its work: with an outcome, with
\* another attempt, or by being lost, after which nobody takes it up again.
LetGo(e) ==
    /\ busy[e] # {}
    /\ \/ UNCHANGED phase
       \/ \E p \in {"processed", "dead_letter", "received"} : phase' = [phase EXCEPT ![e] = p]
    /\ busy' = [busy EXCEPT ![e] = {}]

Drop(e) ==
    /\ phase' = [d \in DOMAIN phase \ {e} |-> phase[d]]
    /\ busy' = [d \in DOMAIN busy \ {e} |-> busy[d]]

Next ==
    \E e \in DOMAIN phase :
        \/ Store(e) \/ Refuse(e) \/ LetGo(e) \/ Drop(e)
        \/ \E w \in Workers : Claim(e, w)

Spec == Init /\ [][Next]_<<phase, busy>>
=============================================================================
