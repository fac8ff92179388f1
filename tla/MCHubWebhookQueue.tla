------------------------- MODULE MCHubWebhookQueue -------------------------
(* Model-checking instances of HubWebhookQueue. *)
EXTENDS HubWebhookQueue, TLC

CONSTANTS e1, e2, h1, h2, w1, w2

\* Safety: a message and an event whose payload names another workspace.
MCEvents    == {e1, e2}
MCMessaging == {e1}
MCForeign   == {e2}
MCHandlers  == {h1, h2}
MCWorkers   == {w1, w2}

\* Liveness and the documented claims: one message, one request at a time.
MCOneEvent   == {e1}
MCNoEvent    == {}
MCOneHandler == {h1}

MCSymmetry  == Permutations(MCWorkers) \union Permutations(MCHandlers)
=============================================================================
