-------------------------- MODULE MCFlowPublication --------------------------
(***************************************************************************)
(* FlowPublication alone: a publisher and a saver of the canvas.           *)
(***************************************************************************)
EXTENDS FlowPublication, TLC

CONSTANTS u1, s1, q1, q2

MCHome == (u1 :> q1) @@ (s1 :> q2)
MCFlowCasts == {{u1, s1}}
=============================================================================
