---------------------------- MODULE InboundTurns ----------------------------
(***************************************************************************)
(* Messages of one client, from the messenger's post to the bot's answer,  *)
(* beside the operators who pause the bot for that client.                 *)
(*                                                                         *)
(*   posts      a delivery of a message: the webhook endpoint or a poller  *)
(*              claims the message in Redis, then publishes a Celery job;  *)
(*              the same message may be delivered more than once           *)
(*   turns      the job of a post (it has the name of its post): the bot   *)
(*              is loaded and the client with it, the upsert takes the     *)
(*              lock of the client's row, the answer is sent, and the      *)
(*              transaction commits; or a fixed reply is sent without all  *)
(*              that, to a message that is not a text                      *)
(*   operators  a pause or a release: the row is read without a lock, and  *)
(*              written later, only when the value differs from the copy   *)
(*                                                                         *)
(* A turn decides on the copy it loaded before it had the lock: Bot.clients*)
(* is loaded with the bot (lazy="selectin"), and selecting the row after   *)
(* the upsert does not refresh an object the session has.  The client has  *)
(* written before and is not escalated.  The stop and resume phrases and   *)
(* the auto-resume window of the bot's settings are on.                    *)
(***************************************************************************)
EXTENDS Naturals, FiniteSets

CONSTANTS
    Posts, MsgOf,    \* the deliveries, and the message of each
    Says,            \* what each message says: "text", "stop" or "resume"
    NonText,         \* messages that are an attachment or the press of a button
    Operators, Asks, \* the operators' requests, and whether each asks for a pause
    NoTurn,          \* nobody holds the client's row
    InboundCasts,    \* bound: posts and operators that take part together
    TurnMaxRetries,  \* CELERY_INBOUND_MAX_RETRIES
    MaxTurnFaults    \* bound: crashes, lost posts, failed commits, outages

Messages == {MsgOf[p] : p \in Posts}
Actors == Posts \union Operators

ASSUME InboundAssumption ==
    /\ NonText \subseteq Messages
    /\ NoTurn \notin Actors /\ Posts \cap Operators = {} /\ IsFiniteSet(Posts)
    /\ Asks \in [Operators -> BOOLEAN]
    /\ InboundCasts \subseteq SUBSET Actors
    /\ TurnMaxRetries \in Nat /\ MaxTurnFaults \in Nat

VARIABLES
    claimed,    \* messages whose Redis key is set
    postPc,     \* next step of each delivery and then of its turn
    turnTries,  \* retries used by the turn
    paused,     \* committed is_paused_by_operator
    clientLock, \* holder of the client's row lock
    draft,      \* is_paused_by_operator as the holder has it
    wrote,      \* the holder has written it to the row
    turnCopy,   \* is_paused_by_operator as each turn has loaded it
    opPc, opCopy, \* an operator's step and copy of the row
    recorded,   \* committed client messages of each message
    answers,    \* answers the client has received to each message
    turnFaults,
    doubled,    \* history: claims let through without Redis, per message
    unsaved,    \* history: answers whose turn was rolled back, per message
    missed,     \* history: messages lost between claim and job, or given up
    inForce,    \* history: an operator was told "paused", and nothing resumed
    under       \* history: turns begun while that pause was in force

turnVars == <<turnTries, turnCopy>>
postVars == <<claimed, postPc, turnVars>>
rowVars  == <<paused, clientLock, draft, wrote>>
opVars   == <<opPc, opCopy>>
chatVars == <<recorded, answers>>
forceVars == <<inForce, under>>
InboundVars == <<postVars, rowVars, opVars, chatVars, turnFaults, doubled, unsaved, missed,
                 forceVars>>

InTurn == {"loaded", "replying", "replied", "answering", "silent", "answered"}
PostEnds == {"gone", "done", "dead"}

InboundTypeOK ==
    /\ claimed \subseteq Messages
    /\ postPc \in [Posts -> {"posted", "claimed", "queued"} \union InTurn \union PostEnds]
    /\ turnTries \in [Posts -> 0..TurnMaxRetries]
    /\ turnCopy \in [Posts -> BOOLEAN]
    /\ paused \in BOOLEAN /\ draft \in BOOLEAN /\ wrote \in BOOLEAN
    /\ clientLock \in Actors \union {NoTurn}
    /\ opPc \in [Operators -> {"idle", "read", "written", "done"}]
    /\ opCopy \in [Operators -> BOOLEAN]
    /\ recorded \in [Messages -> Nat] /\ answers \in [Messages -> Nat]
    /\ turnFaults \in 0..MaxTurnFaults
    /\ doubled \in [Messages -> Nat] /\ unsaved \in [Messages -> Nat]
    /\ missed \subseteq Messages
    /\ inForce \in BOOLEAN /\ under \subseteq Posts

InboundInit ==
    /\ claimed = {}
    /\ \E cast \in InboundCasts :
         /\ postPc = [p \in Posts |-> IF p \in cast THEN "posted" ELSE "gone"]
         /\ opPc = [o \in Operators |-> IF o \in cast THEN "idle" ELSE "done"]
    /\ turnTries = [p \in Posts |-> 0] /\ turnCopy = [p \in Posts |-> FALSE]
    /\ paused = FALSE /\ draft = FALSE /\ wrote = FALSE /\ clientLock = NoTurn
    /\ opCopy = [o \in Operators |-> FALSE]
    /\ recorded = [m \in Messages |-> 0] /\ answers = [m \in Messages |-> 0]
    /\ turnFaults = MaxTurnFaults
    /\ doubled = [m \in Messages |-> 0] /\ unsaved = [m \in Messages |-> 0]
    /\ missed = {}
    /\ inForce = FALSE /\ under = {}

-----------------------------------------------------------------------------
TurnFault == turnFaults > 0 /\ turnFaults' = turnFaults - 1
PostGoto(p, pc) == postPc' = [postPc EXCEPT ![p] = pc]
More(f, m) == [f EXCEPT ![m] = @ + 1]

(* Webhook endpoint and pollers.                                           *)

\* Mutant: the key is set, and not looked at.
ClaimAlways(p) ==
    /\ postPc[p] = "posted"
    /\ PostGoto(p, "claimed")
    /\ claimed' = claimed \union {MsgOf[p]}
    /\ UNCHANGED <<turnVars, rowVars, opVars, chatVars, turnFaults, doubled, unsaved,
                   missed, forceVars>>

\* claim_telegram_inbound, claim_inbound_event: a duplicate is answered 200.
ClaimPost(p) ==
    /\ postPc[p] = "posted"
    /\ IF MsgOf[p] \in claimed
       THEN PostGoto(p, "gone") /\ UNCHANGED claimed
       ELSE PostGoto(p, "claimed") /\ claimed' = claimed \union {MsgOf[p]}
    /\ UNCHANGED <<turnVars, rowVars, opVars, chatVars, turnFaults, doubled, unsaved,
                   missed, forceVars>>

\* Without Redis every delivery counts as the first.
ClaimWithoutRedis(p) ==
    /\ postPc[p] = "posted"
    /\ TurnFault
    /\ PostGoto(p, "claimed")
    /\ doubled' = More(doubled, MsgOf[p])
    /\ UNCHANGED <<claimed, turnVars, rowVars, opVars, chatVars, unsaved, missed,
                   forceVars>>

Enqueue(p) ==
    /\ postPc[p] = "claimed"
    /\ PostGoto(p, "queued")
    /\ UNCHANGED <<claimed, turnVars, rowVars, opVars, chatVars, turnFaults, doubled,
                   unsaved, missed, forceVars>>

\* The process dies, or the broker refuses the job (answered 200 all the same):
\* the key stays, so a later delivery of the message is taken for a duplicate.
LosePost(p) ==
    /\ postPc[p] = "claimed"
    /\ TurnFault
    /\ PostGoto(p, "gone")
    /\ missed' = missed \union {MsgOf[p]}
    /\ UNCHANGED <<claimed, turnVars, rowVars, opVars, chatVars, doubled, unsaved,
                   forceVars>>

-----------------------------------------------------------------------------
(* process_inbound_message_worker.                                         *)

\* The bot is loaded, and its clients with it.
BeginTurn(p) ==
    /\ postPc[p] = "queued"
    /\ PostGoto(p, "loaded")
    /\ turnCopy' = [turnCopy EXCEPT ![p] = paused]
    /\ under' = IF inForce THEN under \union {p} ELSE {}
    /\ UNCHANGED <<claimed, turnTries, rowVars, opVars, chatVars, turnFaults, doubled,
                   unsaved, missed, inForce>>

\* Telegram's attachments and buttons: a client who is not on an AI node gets
\* MEDIA_FALLBACK, unless the copy says "paused".
FallBack(p) ==
    /\ postPc[p] = "loaded"
    /\ MsgOf[p] \in NonText /\ ~turnCopy[p]
    /\ PostGoto(p, "replying")
    /\ UNCHANGED <<claimed, turnVars, rowVars, opVars, chatVars, turnFaults, doubled,
                   unsaved, missed, forceVars>>

\* What maybe_auto_resume (the window has passed or not) and apply_keyword_gates
\* make of a copy.
Gated(copy, says, resumed) == says = "stop" \/ (says # "resume" /\ copy /\ ~resumed)

\* The upsert locks the client's row until the commit.  The gates go by the copy,
\* and flush what they change in it.
TakeTurn(p) ==
    /\ postPc[p] = "loaded" /\ clientLock = NoTurn
    /\ clientLock' = p
    /\ \E resumed \in {FALSE, turnCopy[p]} :
         /\ draft' = Gated(turnCopy[p], Says[MsgOf[p]], resumed)
         /\ wrote' = (resumed \/ draft' # turnCopy[p])
    /\ PostGoto(p, IF draft' THEN "silent" ELSE "answering")
    /\ UNCHANGED <<claimed, turnVars, paused, opVars, chatVars, turnFaults, doubled,
                   unsaved, missed, forceVars>>

Answer(p) ==
    /\ postPc[p] \in {"answering", "replying"}
    /\ answers' = More(answers, MsgOf[p])
    /\ PostGoto(p, IF postPc[p] = "answering" THEN "answered" ELSE "replied")
    /\ UNCHANGED <<claimed, turnVars, rowVars, opVars, recorded, turnFaults, doubled,
                   unsaved, missed, forceVars>>

\* Mutant: the commit writes the row as the turn has it, changed or not.
CommitTurnWhole(p) ==
    /\ postPc[p] \in {"silent", "answered"}
    /\ paused' = draft
    /\ inForce' = (inForce /\ ~(wrote /\ ~draft))
    /\ under' = IF inForce' THEN under ELSE {}
    /\ recorded' = More(recorded, MsgOf[p])
    /\ clientLock' = NoTurn
    /\ PostGoto(p, "done")
    /\ UNCHANGED <<claimed, turnVars, draft, wrote, opVars, answers, turnFaults, doubled,
                   unsaved, missed>>

CommitTurn(p) ==
    /\ postPc[p] \in {"silent", "answered"}
    /\ paused' = IF wrote THEN draft ELSE paused
    /\ inForce' = (inForce /\ ~(wrote /\ ~draft))
    /\ under' = IF inForce' THEN under ELSE {}
    /\ recorded' = More(recorded, MsgOf[p])
    /\ clientLock' = NoTurn
    /\ PostGoto(p, "done")
    /\ UNCHANGED <<claimed, turnVars, draft, wrote, opVars, answers, turnFaults, doubled,
                   unsaved, missed>>

\* After MEDIA_FALLBACK there is nothing to commit: the message is not kept.
CommitReply(p) ==
    /\ postPc[p] = "replied"
    /\ PostGoto(p, "done")
    /\ UNCHANGED <<claimed, turnVars, rowVars, opVars, chatVars, turnFaults, doubled,
                   unsaved, missed, forceVars>>

\* The turn's transaction is rolled back; an answer stays with the client.
RollbackTurn(p) ==
    /\ clientLock' = IF clientLock = p THEN NoTurn ELSE clientLock
    /\ unsaved' = IF postPc[p] \in {"answered", "replied"} THEN More(unsaved, MsgOf[p]) ELSE unsaved
    /\ UNCHANGED <<claimed, turnCopy, paused, draft, wrote, opVars, chatVars, doubled,
                   forceVars>>

GiveUp(p) == PostGoto(p, "dead") /\ missed' = missed \union {MsgOf[p]} /\ UNCHANGED turnTries

\* Mutant: the retry is not counted.
RetryTurnForever(p) ==
    /\ RollbackTurn(p)
    /\ PostGoto(p, "queued")
    /\ UNCHANGED <<turnTries, missed>>

\* self.retry: at the limit it raises the original exception.
RetryTurn(p) ==
    /\ RollbackTurn(p)
    /\ IF turnTries[p] < TurnMaxRetries
       THEN PostGoto(p, "queued") /\ turnTries' = [turnTries EXCEPT ![p] = @ + 1]
            /\ UNCHANGED missed
       ELSE GiveUp(p)

\* The flow fails, or the messenger answers with an error: for good, or not.
AnswerFails(p) ==
    /\ postPc[p] \in {"answering", "replying"}
    /\ \/ RetryTurn(p)
       \/ RollbackTurn(p) /\ GiveUp(p)
    /\ UNCHANGED turnFaults

\* The database fails a turn where it reads, where it waits for the row, or at
\* its commit.
CommitFails(p) ==
    /\ postPc[p] \in {"loaded", "replied", "silent", "answered"}
    /\ TurnFault
    /\ RetryTurn(p)

\* acks_late and reject_on_worker_lost: the job is delivered again.
CrashTurn(p) ==
    /\ postPc[p] \in InTurn
    /\ TurnFault
    /\ RollbackTurn(p)
    /\ PostGoto(p, "queued")
    /\ UNCHANGED <<turnTries, missed>>

-----------------------------------------------------------------------------
(* toggle_operator_pause, intercept_chat_session and the pause policy of   *)
(* send_manual_operator_message.                                           *)

OpGoto(o, pc) == opPc' = [opPc EXCEPT ![o] = pc]

OpRead(o) ==
    /\ opPc[o] = "idle"
    /\ opCopy' = [opCopy EXCEPT ![o] = paused]
    /\ OpGoto(o, "read")
    /\ UNCHANGED <<postVars, rowVars, chatVars, turnFaults, doubled, unsaved, missed,
                   forceVars>>

OpWrite(o) ==
    /\ opPc[o] = "read" /\ opCopy[o] # Asks[o]
    /\ clientLock = NoTurn
    /\ clientLock' = o
    /\ draft' = Asks[o] /\ wrote' = TRUE
    /\ OpGoto(o, "written")
    /\ UNCHANGED <<postVars, paused, opCopy, chatVars, turnFaults, doubled, unsaved,
                   missed, forceVars>>

\* Nothing differs from the copy: no UPDATE, whatever the row says by now (a
\* pause that has been ended since is not in force, though the answer says so).
OpUnchanged(o) ==
    /\ opPc[o] = "read" /\ opCopy[o] = Asks[o]
    /\ OpGoto(o, "done")
    /\ inForce' = (Asks[o] /\ paused)
    /\ under' = IF inForce' THEN under ELSE {}
    /\ UNCHANGED <<postVars, rowVars, opCopy, chatVars, turnFaults, doubled, unsaved,
                   missed>>

OpCommit(o) ==
    /\ opPc[o] = "written"
    /\ paused' = draft
    /\ inForce' = Asks[o]
    /\ under' = IF inForce' THEN under ELSE {}
    /\ clientLock' = NoTurn
    /\ OpGoto(o, "done")
    /\ UNCHANGED <<postVars, draft, wrote, opCopy, chatVars, turnFaults, doubled, unsaved,
                   missed>>

\* The operator's message cannot be delivered (502), or the request dies.
OpFails(o) ==
    /\ opPc[o] \in {"read", "written"}
    /\ TurnFault
    /\ clientLock' = IF clientLock = o THEN NoTurn ELSE clientLock
    /\ OpGoto(o, "done")
    /\ UNCHANGED <<postVars, paused, draft, wrote, opCopy, chatVars, doubled, unsaved,
                   missed, forceVars>>

-----------------------------------------------------------------------------
PostStep(p) ==
    \/ ClaimPost(p) \/ Enqueue(p)
    \/ BeginTurn(p) \/ FallBack(p) \/ TakeTurn(p)
    \/ Answer(p) \/ AnswerFails(p) \/ CommitTurn(p) \/ CommitReply(p)

OpStep(o) == OpRead(o) \/ OpWrite(o) \/ OpUnchanged(o) \/ OpCommit(o)

InboundNext ==
    \/ \E p \in Posts :
         \/ PostStep(p)
         \/ ClaimWithoutRedis(p) \/ LosePost(p) \/ CommitFails(p) \/ CrashTurn(p)
    \/ \E o \in Operators : OpStep(o) \/ OpFails(o)

\* Pollers, workers and requests go on; faults need not happen.
InboundFairness ==
    /\ \A p \in Posts : WF_InboundVars(PostStep(p))
    /\ \A o \in Operators : WF_InboundVars(OpStep(o))

InboundSpec == InboundInit /\ [][InboundNext]_InboundVars

-----------------------------------------------------------------------------
\* However often a message is delivered and its job retried, the client gets a
\* second answer only when an answered turn was rolled back or Redis was down,
\* and the history holds it twice only in the second case.
AnswersAccounted ==
    \A m \in Messages :
        /\ answers[m] <= 1 + doubled[m] + unsaved[m]
        /\ recorded[m] <= 1 + doubled[m]

\* The turn that holds the client's row has ended the pause there.
Lifted(p) == clientLock = p /\ wrote /\ ~draft

\* A pause that an operator was told of (and that was not over by then) stays
\* until a turn or an operator ends it, and a turn begun under it does not answer
\* the client, neither through the flow nor with MEDIA_FALLBACK, unless it is the
\* one that ends it.  A turn begun before, which has loaded the client unpaused,
\* does answer under it; it leaves the pause as it is.
PauseHolds ==
    inForce =>
        /\ paused
        /\ \A p \in under : postPc[p] \in {"answering", "replying"} => Lifted(p)

\* Every delivery and every request ends, and every message ends up in the
\* history, unless it was lost between its claim and its job, or given up, or is
\* an attachment or a button that was answered with MEDIA_FALLBACK.
MessagesSettle ==
    <>[](/\ \A p \in Posts : postPc[p] \in PostEnds
         /\ \A o \in Operators : opPc[o] = "done"
         /\ \A p \in Posts : MsgOf[p] \in claimed =>
               \/ recorded[MsgOf[p]] > 0
               \/ MsgOf[p] \in missed
               \/ MsgOf[p] \in NonText /\ answers[MsgOf[p]] > 0)
=============================================================================
