------------------------- MODULE Components_proofs -------------------------
(***************************************************************************)
(* Proofs about the scenes of MCComponents: every component runs in them   *)
(* as it does alone, so that what was proved of each holds of the whole,   *)
(* whatever the constants are.                                             *)
(***************************************************************************)
EXTENDS MCComponents, HubConnections_proofs, AuthSessions_proofs, InboundTurns_proofs,
        Flows_proofs, TLAPS

\* A step of the whole is a step of each component or leaves it alone.
LEMMA SceneSteps ==
    [MCNext]_MCVars =>
        /\ [TokNext]_TokVars /\ [OutNext]_OutVars /\ [AuthNext]_AuthVars
        /\ [InboundNext]_InboundVars /\ [FlowNext]_FlowVars /\ [WalkNext]_WalkVars
BY DEF MCNext, MCVars

LEMMA SceneInit ==
    MCInit => TokInit /\ OutInit /\ AuthInit /\ InboundInit /\ FlowInit /\ WalkInit
BY DEF MCInit

\* A behaviour of the whole is a behaviour of each component: no scene lets a
\* component do what it could not do alone.
THEOREM ScenesImplementComponents ==
    MCSpec => TokSpec /\ OutSpec /\ AuthSpec /\ InboundSpec /\ FlowSpec /\ WalkSpec
BY SceneInit, SceneSteps, PTL
   DEF MCSpec, TokSpec, OutSpec, AuthSpec, InboundSpec, FlowSpec, WalkSpec

\* In the scenes every variable of every component keeps its type.
THEOREM ComponentsTypeCorrect == MCSpec => []ComponentsTypeOK
BY ScenesImplementComponents, TokTypeCorrect, OutTypeCorrect, AuthTypeCorrect,
   InboundTypeCorrect, FlowTypeCorrect, WalkTypeCorrect, PTL DEF ComponentsTypeOK

\* The scenes keep what was proved of the components: tokens, outbound jobs,
\* sign-ins, turns, cached flows and walks are safe in every behaviour.
THEOREM ComponentsAreSafe ==
    MCSpec => [](/\ SpentOnce /\ GrantKept /\ ExpiredInError
                 /\ OverlapOnlyFailOpen /\ MeteredWithRow
                 /\ OneTimeTokens /\ SweepEndsFamilies
                 /\ AnswersAccounted /\ PauseHolds
                 /\ StaleOnlyIfRaced
                 /\ StepWasShown /\ CallsOnce)
BY ScenesImplementComponents, TokensSpentOnce, GrantsAreKept, ExpiryIsExplained,
   OutboundOverlap, OutboundMetering, TokensAreOneTime, SweepsEndFamilies,
   AnswersAreAccounted, PausesHold, EntriesAreCurrent, StepsAreShown, CallsAreSingle, PTL

\* So do the refinement of FlowHistory and the fate of a wiped connection.
THEOREM ComponentsKeepTheirSteps == MCSpec => PublicationsAreHistory /\ WipedUntilConnected
BY ScenesImplementComponents, PublicationsAreSerial, WipedStaysWiped, PTL
=============================================================================
