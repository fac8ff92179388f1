-------------------------- MODULE HubWebhookQueue --------------------------
(***************************************************************************)
(* The inbound half of the Integration Hub: a provider posts a webhook, an *)
(* HTTP handler deduplicates and stores it and hands a job to Celery, and  *)
(* workers claim the row, dispatch the event and mark it processed, retry  *)
(* it, or dead-letter it.                                                  *)
(*                                                                         *)
(* An event is one (provider, external_event_id) pair.  The unique         *)
(* constraint on that pair makes the row a function of the event, so the   *)
(* sibling search of claim_webhook_event always comes back empty and the   *)
(* status "duplicate" is never stored.  Each action below is one database  *)
(* transaction, Redis command or broker command; everything between two of *)
(* them may interleave with the other handlers and workers.                *)
(*                                                                         *)
(* The columns retry_count, next_retry_at and processed_at are written and *)
(* never read by the program; they are left out.                           *)
(***************************************************************************)
EXTENDS Naturals

CONSTANTS
    Events,       \* webhook events, by external id
    Foreign,      \* those whose payload names another workspace
    Messaging,    \* those forwarded to the AI runtime (Wazzup messages)
    Handlers,     \* concurrent HTTP requests
    Workers,      \* Celery worker processes
    MaxRetries,   \* HUB_WEBHOOK_MAX_RETRIES
    MaxPosts,     \* bound: requests the provider makes
    MaxFaults     \* bound: faults of every kind together

ASSUME EventSetsAssumption == Foreign \subseteq Events /\ Messaging \subseteq Events /\ Events # {}
ASSUME MaxRetriesAssumption == MaxRetries \in Nat

ASSUME BoundsAssumption == MaxPosts \in Nat /\ MaxFaults \in Nat

Attempts == 0 .. MaxRetries
Messages == [event : Events, attempt : Attempts]

Statuses == {"absent", "received", "processing", "processed", "dead_letter"}
Terminal == {"processed", "dead_letter"}

VARIABLES
    dedupKeys,  \* Redis keys webhook_dedup:{provider}:{external id}
    status,     \* status column of the event's row; "absent" before the insert
    error,      \* error column of the row
    fresh,      \* created_at is later than the stale-processing cutoff
    orphaned,   \* rows whose connection has been deleted (connection_id NULL)
    hpc, hev,   \* each HTTP handler's next step and event
    queue,      \* number of copies of each message ready at the broker
    wpc, wmsg,  \* each worker's next step and message
    wowns,      \* the broker still counts the worker's message as unacked
    wseen,      \* status the worker loaded before writing it back
    postsLeft,  \* what remains of MaxPosts
    faultsLeft, \* what remains of MaxFaults
    answered,   \* history: events some request was answered 200 for
    handed,     \* history: events whose first job was published
    failures,   \* history: failed consumptions of the event
    metered,    \* history: usage rows committed for the event
    forwarded,  \* history: messages forwarded to the AI runtime
    misreset,   \* history: events whose claim transaction failed
    abandoned   \* history: events whose carrier a fault has removed

rowVars     == <<status, error, fresh, orphaned>>
handlerVars == <<hpc, hev>>
workerVars  == <<wpc, wmsg, wowns, wseen>>
bounds      == <<postsLeft, faultsLeft>>
httpHistory == <<answered, handed>>
jobHistory  == <<failures, metered, forwarded, misreset, abandoned>>
vars == <<dedupKeys, rowVars, handlerVars, queue, workerVars, bounds,
          httpHistory, jobHistory>>

\* Steps at which a worker is running the event it claimed.
Dispatching == {"meter", "forward", "mark"}
\* Steps at which a worker still answers for the event it claimed.
Holding == Dispatching \union {"failed", "reset"}

TypeOK ==
    /\ dedupKeys \subseteq Events
    /\ status \in [Events -> Statuses]
    /\ error \in [Events -> {"none", "workspace_mismatch", "connection_missing",
                             "failed", "max_retries"}]
    /\ fresh \in [Events -> BOOLEAN]
    /\ orphaned \subseteq Events
    /\ hpc \in [Handlers -> {"idle", "insert", "enqueue"}]
    /\ hev \in [Handlers -> Events]
    /\ queue \in [Messages -> Nat]
    /\ wpc \in [Workers -> {"idle", "claim", "publish", "ack"} \union Holding]
    /\ wmsg \in [Workers -> Messages]
    /\ wowns \in [Workers -> BOOLEAN]
    /\ wseen \in [Workers -> Statuses]
    /\ postsLeft \in Nat
    /\ faultsLeft \in Nat
    /\ answered \subseteq Events
    /\ handed \subseteq Events
    /\ failures \in [Events -> Nat]
    /\ metered \in [Events -> Nat]
    /\ forwarded \in [Events -> Nat]
    /\ misreset \subseteq Events
    /\ abandoned \subseteq Events

Init ==
    /\ dedupKeys = {}
    /\ status = [e \in Events |-> "absent"]
    /\ error = [e \in Events |-> "none"]
    /\ fresh = [e \in Events |-> TRUE]
    /\ orphaned = {}
    /\ hpc = [h \in Handlers |-> "idle"]
    /\ hev \in [Handlers -> {CHOOSE e \in Events : TRUE}]
    /\ queue = [m \in Messages |-> 0]
    /\ wpc = [w \in Workers |-> "idle"]
    /\ wmsg \in [Workers -> {CHOOSE m \in Messages : TRUE}]
    /\ wowns = [w \in Workers |-> FALSE]
    /\ wseen = [w \in Workers |-> "absent"]
    /\ postsLeft = MaxPosts
    /\ faultsLeft = MaxFaults
    /\ answered = {}
    /\ handed = {}
    /\ failures = [e \in Events |-> 0]
    /\ metered = [e \in Events |-> 0]
    /\ forwarded = [e \in Events |-> 0]
    /\ misreset = {}
    /\ abandoned = {}

Post ==
    /\ postsLeft > 0
    /\ postsLeft' = postsLeft - 1

Fault ==
    /\ faultsLeft > 0
    /\ faultsLeft' = faultsLeft - 1

-----------------------------------------------------------------------------
(* The HTTP handler: claim the Redis key, insert and commit, enqueue.      *)

\* A request arrives.  A key that is already set answers 200 at once.
PostClaimKey(h, e) ==
    /\ hpc[h] = "idle"
    /\ Post
    /\ IF e \in dedupKeys
       THEN /\ answered' = answered \union {e}
            /\ UNCHANGED <<dedupKeys, hpc, hev>>
       ELSE /\ dedupKeys' = dedupKeys \union {e}
            /\ hpc' = [hpc EXCEPT ![h] = "insert"]
            /\ hev' = [hev EXCEPT ![h] = e]
            /\ UNCHANGED answered
    /\ UNCHANGED <<rowVars, queue, workerVars, faultsLeft, handed, jobHistory>>

\* Redis is down: the claim fails open and the insert decides alone.
PostRedisDown(h, e) ==
    /\ hpc[h] = "idle"
    /\ Post
    /\ Fault
    /\ hpc' = [hpc EXCEPT ![h] = "insert"]
    /\ hev' = [hev EXCEPT ![h] = e]
    /\ UNCHANGED <<dedupKeys, rowVars, queue, workerVars, httpHistory, jobHistory>>

\* Mutant: the job is enqueued although the row was there.
InsertConflictEnqueues(h) ==
    /\ hpc[h] = "insert"
    /\ status[hev[h]] # "absent"
    /\ hpc' = [hpc EXCEPT ![h] = "enqueue"]
    /\ UNCHANGED <<dedupKeys, rowVars, hev, queue, workerVars, bounds, httpHistory, jobHistory>>

\* The insert meets the row of an earlier request: 200, nothing to enqueue.
InsertConflict(h) ==
    LET e == hev[h] IN
    /\ hpc[h] = "insert"
    /\ status[e] # "absent"
    /\ hpc' = [hpc EXCEPT ![h] = "idle"]
    /\ answered' = answered \union {e}
    /\ UNCHANGED <<dedupKeys, rowVars, hev, queue, workerVars, bounds, handed, jobHistory>>

\* The row is inserted and committed.  A foreign payload is dead-lettered
\* at once and answered; any other goes on to enqueue_if_needed.
InsertRow(h) ==
    LET e == hev[h] IN
    /\ hpc[h] = "insert"
    /\ status[e] = "absent"
    /\ IF e \in Foreign
       THEN /\ status' = [status EXCEPT ![e] = "dead_letter"]
            /\ error' = [error EXCEPT ![e] = "workspace_mismatch"]
            /\ hpc' = [hpc EXCEPT ![h] = "idle"]
            /\ answered' = answered \union {e}
       ELSE /\ status' = [status EXCEPT ![e] = "received"]
            /\ hpc' = [hpc EXCEPT ![h] = "enqueue"]
            /\ UNCHANGED <<error, answered>>
    /\ UNCHANGED <<dedupKeys, fresh, orphaned, hev, queue, workerVars, bounds, handed, jobHistory>>

Enqueue(h) ==
    LET e == hev[h] IN
    /\ hpc[h] = "enqueue"
    /\ hpc' = [hpc EXCEPT ![h] = "idle"]
    /\ queue' = [queue EXCEPT ![[event |-> e, attempt |-> 0]] = @ + 1]
    /\ handed' = handed \union {e}
    /\ answered' = answered \union {e}
    /\ UNCHANGED <<dedupKeys, rowVars, hev, workerVars, bounds, jobHistory>>

\* The request dies (process killed, database or broker error): what was not
\* committed is rolled back, the Redis key stays, the provider sees no 200.
HandlerFail(h) ==
    LET e == hev[h] IN
    /\ hpc[h] # "idle"
    /\ Fault
    /\ hpc' = [hpc EXCEPT ![h] = "idle"]
    /\ abandoned' = IF hpc[h] = "enqueue" THEN abandoned \union {e} ELSE abandoned
    /\ UNCHANGED <<dedupKeys, rowVars, hev, queue, workerVars, postsLeft, httpHistory,
                   failures, metered, forwarded, misreset>>

-----------------------------------------------------------------------------
(* The Celery worker: process_hub_webhook_event_task.                      *)

\* The worker is done with its message and waits for the next one.
Release(w) ==
    /\ wpc' = [wpc EXCEPT ![w] = "idle"]
    /\ wowns' = [wowns EXCEPT ![w] = FALSE]
    /\ wseen' = [wseen EXCEPT ![w] = "absent"]
    /\ UNCHANGED wmsg

Receive(w, m) ==
    /\ wpc[w] = "idle"
    /\ queue[m] > 0
    /\ queue' = [queue EXCEPT ![m] = @ - 1]
    /\ wpc' = [wpc EXCEPT ![w] = "claim"]
    /\ wmsg' = [wmsg EXCEPT ![w] = m]
    /\ wowns' = [wowns EXCEPT ![w] = TRUE]
    /\ UNCHANGED <<dedupKeys, rowVars, handlerVars, wseen, bounds, httpHistory, jobHistory>>

\* Mutant: a claim in progress is no reason to refuse.
ClaimableInProgress(e) == status[e] \in {"received", "processing"}

\* Mutant: a processed event is not recognized as a duplicate.
ClaimableProcessed(e) ==
    \/ status[e] \in {"received", "processed"}
    \/ status[e] = "processing" /\ ~fresh[e]

Claimable(e) ==
    \/ status[e] = "received"
    \/ status[e] = "processing" /\ ~fresh[e]

\* Mutant: a refused job is put back instead of acknowledged.
ClaimRefusedRequeues(w) ==
    /\ wpc[w] = "claim"
    /\ ~Claimable(wmsg[w].event)
    /\ Release(w)
    /\ queue' = [queue EXCEPT ![wmsg[w]] = @ + 1]
    /\ UNCHANGED <<dedupKeys, rowVars, handlerVars, bounds, httpHistory, jobHistory>>

\* claim_webhook_event answers missing, dead_letter or duplicate: the job is
\* acknowledged and nothing else happens.
ClaimRefused(w) ==
    /\ wpc[w] = "claim"
    /\ ~Claimable(wmsg[w].event)
    /\ Release(w)
    /\ UNCHANGED <<dedupKeys, rowVars, handlerVars, queue, bounds,
                   httpHistory, jobHistory>>

\* The claim and, in the same transaction, the check of the connection.
Claim(w) ==
    LET e == wmsg[w].event IN
    /\ wpc[w] = "claim"
    /\ Claimable(e)
    /\ IF e \in orphaned \union Foreign
       THEN /\ status' = [status EXCEPT ![e] = "dead_letter"]
            /\ error' = [error EXCEPT ![e] =
                            IF e \in orphaned THEN "connection_missing" ELSE "workspace_mismatch"]
            /\ Release(w)
       ELSE /\ status' = [status EXCEPT ![e] = "processing"]
            /\ error' = [error EXCEPT ![e] = "none"]
            /\ wpc' = [wpc EXCEPT ![w] = "meter"]
            /\ UNCHANGED <<wmsg, wowns, wseen>>
    /\ UNCHANGED <<dedupKeys, fresh, orphaned, handlerVars, queue, bounds,
                   httpHistory, jobHistory>>

\* Dispatch, first transaction: the provider's handler meters the event.  A
\* connection deleted meanwhile makes the handler return without effect.
Meter(w) ==
    LET e == wmsg[w].event IN
    /\ wpc[w] = "meter"
    /\ IF e \in orphaned
       THEN UNCHANGED metered
       ELSE metered' = [metered EXCEPT ![e] = @ + 1]
    /\ wpc' = [wpc EXCEPT ![w] =
                  IF e \in Messaging \ orphaned THEN "forward" ELSE "mark"]
    /\ UNCHANGED <<dedupKeys, rowVars, handlerVars, queue, wmsg, wowns, wseen, bounds,
                   httpHistory, failures, forwarded, misreset, abandoned>>

\* Dispatch of a message, second half: hand it to the AI runtime's queue.
Forward(w) ==
    /\ wpc[w] = "forward"
    /\ forwarded' = [forwarded EXCEPT ![wmsg[w].event] = @ + 1]
    /\ wpc' = [wpc EXCEPT ![w] = "mark"]
    /\ UNCHANGED <<dedupKeys, rowVars, handlerVars, queue, wmsg, wowns, wseen, bounds,
                   httpHistory, failures, metered, misreset, abandoned>>

\* mark_webhook_event(PROCESSED) writes whatever the status is by now.
MarkProcessed(w) ==
    LET e == wmsg[w].event IN
    /\ wpc[w] = "mark"
    /\ status' = [status EXCEPT ![e] = "processed"]
    /\ error' = [error EXCEPT ![e] = "none"]
    /\ Release(w)
    /\ UNCHANGED <<dedupKeys, fresh, orphaned, handlerVars, queue, bounds,
                   httpHistory, jobHistory>>

\* Mutant: an exception of the dispatch is logged and swallowed.
DispatchFailsSilently(w) ==
    /\ wpc[w] \in Dispatching
    /\ wpc' = [wpc EXCEPT ![w] = "mark"]
    /\ UNCHANGED <<dedupKeys, rowVars, handlerVars, queue, wmsg, wowns, wseen, bounds,
                   httpHistory, jobHistory>>

\* Any exception of dispatch or of the final update reaches the task wrapper.
DispatchFails(w) ==
    /\ wpc[w] \in Dispatching
    /\ wpc' = [wpc EXCEPT ![w] = "failed"]
    /\ failures' = [failures EXCEPT ![wmsg[w].event] = @ + 1]
    /\ UNCHANGED <<dedupKeys, rowVars, handlerVars, queue, wmsg, wowns, wseen, bounds,
                   httpHistory, metered, forwarded, misreset, abandoned>>

\* So does an exception of the claim transaction, which is rolled back: the
\* wrapper cannot tell it from a failed dispatch.
ClaimFails(w) ==
    LET e == wmsg[w].event IN
    /\ wpc[w] = "claim"
    /\ Fault
    /\ wpc' = [wpc EXCEPT ![w] = "failed"]
    /\ failures' = [failures EXCEPT ![e] = @ + 1]
    /\ misreset' = misreset \union {e}
    /\ UNCHANGED <<dedupKeys, rowVars, handlerVars, queue, wmsg, wowns, wseen, postsLeft,
                   httpHistory, metered, forwarded, abandoned>>

\* Mutant: one attempt is given up.
DeadLetterEarly(w) ==
    LET e == wmsg[w].event IN
    /\ wpc[w] = "failed"
    /\ wmsg[w].attempt + 1 >= MaxRetries
    /\ status' = [status EXCEPT ![e] = "dead_letter"]
    /\ error' = [error EXCEPT ![e] = "max_retries"]
    /\ Release(w)
    /\ UNCHANGED <<dedupKeys, fresh, orphaned, handlerVars, queue, bounds,
                   httpHistory, jobHistory>>

\* attempt >= max_retries: dead letter, and the job is acknowledged.
DeadLetter(w) ==
    LET e == wmsg[w].event IN
    /\ wpc[w] = "failed"
    /\ wmsg[w].attempt >= MaxRetries
    /\ status' = [status EXCEPT ![e] = "dead_letter"]
    /\ error' = [error EXCEPT ![e] = "max_retries"]
    /\ Release(w)
    /\ UNCHANGED <<dedupKeys, fresh, orphaned, handlerVars, queue, bounds,
                   httpHistory, jobHistory>>

\* reset_webhook_event_for_retry loads the row without a lock ...
LoadForRetry(w) ==
    LET e == wmsg[w].event IN
    /\ wpc[w] = "failed"
    /\ wmsg[w].attempt < MaxRetries
    /\ wseen' = [wseen EXCEPT ![w] = status[e]]
    /\ wpc' = [wpc EXCEPT ![w] = IF status[e] \in Terminal THEN "publish" ELSE "reset"]
    /\ UNCHANGED <<dedupKeys, rowVars, handlerVars, queue, wmsg, wowns, bounds,
                   httpHistory, jobHistory>>

\* Mutant: the row is left in "error", which claims know and the state
\* machine of the row does not.
ResetForRetryToError(w) ==
    LET e == wmsg[w].event IN
    /\ wpc[w] = "reset"
    /\ status' = [status EXCEPT ![e] = "error"]
    /\ error' = [error EXCEPT ![e] = "failed"]
    /\ wpc' = [wpc EXCEPT ![w] = "publish"]
    /\ UNCHANGED <<dedupKeys, fresh, orphaned, handlerVars, queue, wmsg, wowns, wseen, bounds,
                   httpHistory, jobHistory>>

\* ... and writes "received" back, unless that is what it loaded: an
\* attribute set to the value it has is not part of the UPDATE.
ResetForRetry(w) ==
    LET e == wmsg[w].event IN
    /\ wpc[w] = "reset"
    /\ status' = IF wseen[w] = "received" THEN status ELSE [status EXCEPT ![e] = "received"]
    /\ error' = [error EXCEPT ![e] = "failed"]
    /\ wpc' = [wpc EXCEPT ![w] = "publish"]
    /\ UNCHANGED <<dedupKeys, fresh, orphaned, handlerVars, queue, wmsg, wowns, wseen, bounds,
                   httpHistory, jobHistory>>

\* Mutant: the retry is not published.
PublishRetryNever(w) ==
    /\ wpc[w] = "publish"
    /\ wpc' = [wpc EXCEPT ![w] = "ack"]
    /\ UNCHANGED <<dedupKeys, rowVars, handlerVars, queue, wmsg, wowns, wseen, bounds,
                   httpHistory, jobHistory>>

\* self.retry publishes the next attempt, whatever the row said; the message
\* in hand is acknowledged afterwards.
PublishRetry(w) ==
    LET m == wmsg[w] IN
    /\ wpc[w] = "publish"
    /\ queue' = [queue EXCEPT ![[m EXCEPT !.attempt = @ + 1]] = @ + 1]
    /\ wpc' = [wpc EXCEPT ![w] = "ack"]
    /\ UNCHANGED <<dedupKeys, rowVars, handlerVars, wmsg, wowns, wseen, bounds,
                   httpHistory, jobHistory>>

Ack(w) ==
    /\ wpc[w] = "ack"
    /\ Release(w)
    /\ UNCHANGED <<dedupKeys, rowVars, handlerVars, queue, bounds,
                   httpHistory, jobHistory>>

\* The error path itself fails (database down in the requeue or the dead
\* letter, broker down in self.retry): the task fails and is acknowledged.
ErrorPathFails(w) ==
    /\ wpc[w] \in {"failed", "reset", "publish"}
    /\ Fault
    /\ Release(w)
    /\ abandoned' = abandoned \union {wmsg[w].event}
    /\ UNCHANGED <<dedupKeys, rowVars, handlerVars, queue, postsLeft,
                   httpHistory, failures, metered, forwarded, misreset>>

-----------------------------------------------------------------------------
(* The environment: worker death, the broker, time.                        *)

\* Mutant: messages are acknowledged when they are received (no acks_late).
CrashAckedEarly(w) ==
    /\ wpc[w] # "idle"
    /\ Fault
    /\ Release(w)
    /\ abandoned' = IF wpc[w] \in Holding \/ (wpc[w] = "publish" /\ ~wowns[w])
                    THEN abandoned \union {wmsg[w].event} ELSE abandoned
    /\ UNCHANGED <<dedupKeys, rowVars, handlerVars, queue, postsLeft,
                   httpHistory, failures, metered, forwarded, misreset>>

\* A killed worker's unacked message goes back to the queue.  The event is
\* abandoned when its row is left as the worker had it claimed, or when the
\* worker was about to publish the only job there was.
Crash(w) ==
    LET m == wmsg[w] IN
    /\ wpc[w] # "idle"
    /\ Fault
    /\ Release(w)
    /\ queue' = IF wowns[w] THEN [queue EXCEPT ![m] = @ + 1] ELSE queue
    /\ abandoned' = IF wpc[w] \in Holding \/ (wpc[w] = "publish" /\ ~wowns[w])
                    THEN abandoned \union {m.event} ELSE abandoned
    /\ UNCHANGED <<dedupKeys, rowVars, handlerVars, postsLeft,
                   httpHistory, failures, metered, forwarded, misreset>>

\* The broker gives an unacked message to another consumer while the first
\* one still runs (connection loss, visibility timeout).
Redeliver(w) ==
    /\ wpc[w] # "idle"
    /\ wowns[w]
    /\ Fault
    /\ wowns' = [wowns EXCEPT ![w] = FALSE]
    /\ queue' = [queue EXCEPT ![wmsg[w]] = @ + 1]
    /\ UNCHANGED <<dedupKeys, rowVars, handlerVars, wpc, wmsg, wseen, postsLeft,
                   httpHistory, jobHistory>>

\* The row's created_at falls behind the stale-processing cutoff.
GoStale(e) ==
    /\ status[e] # "absent"
    /\ fresh[e]
    /\ fresh' = [fresh EXCEPT ![e] = FALSE]
    /\ UNCHANGED <<dedupKeys, status, error, orphaned, handlerVars, queue, workerVars, bounds,
                   httpHistory, jobHistory>>

KeyExpires(e) ==
    /\ e \in dedupKeys
    /\ Fault
    /\ dedupKeys' = dedupKeys \ {e}
    /\ UNCHANGED <<rowVars, handlerVars, queue, workerVars, postsLeft, httpHistory, jobHistory>>

\* The connection row is deleted: connection_id of the event becomes NULL.
DeleteConnection(e) ==
    /\ status[e] # "absent"
    /\ e \notin orphaned
    /\ Fault
    /\ orphaned' = orphaned \union {e}
    /\ UNCHANGED <<dedupKeys, status, error, fresh, handlerVars, queue, workerVars, postsLeft,
                   httpHistory, jobHistory>>

-----------------------------------------------------------------------------
HandlerStep(h) == InsertConflict(h) \/ InsertRow(h) \/ Enqueue(h)

WorkerStep(w) ==
    \/ \E m \in Messages : Receive(w, m)
    \/ ClaimRefused(w) \/ Claim(w) \/ Meter(w) \/ Forward(w) \/ MarkProcessed(w)
    \/ DeadLetter(w) \/ LoadForRetry(w) \/ ResetForRetry(w) \/ PublishRetry(w) \/ Ack(w)

Faults ==
    \/ \E h \in Handlers : HandlerFail(h)
    \/ \E w \in Workers :
        DispatchFails(w) \/ ClaimFails(w) \/ ErrorPathFails(w) \/ Crash(w) \/ Redeliver(w)
    \/ \E e \in Events : KeyExpires(e) \/ DeleteConnection(e)

Next ==
    \/ \E h \in Handlers, e \in Events : PostClaimKey(h, e) \/ PostRedisDown(h, e)
    \/ \E h \in Handlers : HandlerStep(h)
    \/ \E w \in Workers : WorkerStep(w)
    \/ \E e \in Events : GoStale(e)
    \/ Faults

Spec == Init /\ [][Next]_vars

\* Running requests and workers proceed; time passes.  Nothing is assumed of
\* providers, and no fault has to happen or to stop happening.
Fairness ==
    /\ \A h \in Handlers : WF_vars(HandlerStep(h))
    /\ \A w \in Workers : WF_vars(WorkerStep(w))

FairSpec == Spec /\ Fairness

-----------------------------------------------------------------------------
(* Safety.                                                                 *)

\* However often a provider posts an event, and whatever Redis does, its
\* first job is published once: a handler on its way to enqueue_if_needed is
\* alone with the event and no job of it was published before.
EnqueuedOnce ==
    \A h \in Handlers : hpc[h] = "enqueue" =>
        /\ hev[h] \notin handed
        /\ \A g \in Handlers : hpc[g] = "enqueue" /\ hev[g] = hev[h] => g = h

\* As long as the row is younger than the stale cutoff, and no claim
\* transaction of it failed, two workers never dispatch the same event,
\* however the broker duplicates its jobs.
SingleDispatchWhileFresh ==
    \A e \in Events : fresh[e] /\ e \notin misreset =>
        \A v, w \in Workers :
            /\ wpc[v] \in Dispatching /\ wmsg[v].event = e
            /\ wpc[w] \in Dispatching /\ wmsg[w].event = e
            => v = w

\* A dead letter for "max_retries" has failed once per attempt: no copy of a
\* job and no crash makes the task give up early.
DeadLetterAfterAllRetries ==
    \A e \in Events : error[e] = "max_retries" => failures[e] > MaxRetries

\* The job, worker or handler that will bring the event's row forward.
Carried(e) ==
    \/ \E m \in Messages : m.event = e /\ queue[m] > 0
    \/ \E h \in Handlers : hev[h] = e /\ hpc[h] = "enqueue"
    \/ \E w \in Workers :
        /\ wmsg[w].event = e
        /\ \/ wpc[w] \in Holding \union {"publish"}
           \/ wpc[w] = "claim" /\ wowns[w]

\* A row that waits for processing always has a carrier, through failed
\* dispatches, redeliveries, failed claims and crashes alike, unless a
\* handler or worker was lost in one of the windows that mark it abandoned.
NoLostEvent ==
    \A e \in Events : status[e] \in {"received", "processing"} /\ e \notin abandoned =>
        Carried(e)

\* A processed event was metered, and a processed message also forwarded,
\* unless its connection was deleted.
ProcessedWasDispatched ==
    \A e \in Events : status[e] = "processed" /\ e \notin orphaned =>
        /\ metered[e] > 0
        /\ e \in Messaging => forwarded[e] > 0

\* Usage metered twice is explained by a failed attempt: an event that is
\* fresh and had no failed claim and no lost worker has at most one usage
\* row more than failures.
MeteredPerAttempt ==
    \A e \in Events : fresh[e] /\ e \notin misreset \union abandoned =>
        metered[e] <= failures[e] + 1

\* While the row is fresh and no claim of it failed, a terminal status is
\* final: no late retry or duplicate job takes it back.
TerminalIsFinal ==
    [][\A e \in Events :
        status[e] \in Terminal /\ fresh[e] /\ e \notin misreset => status'[e] = status[e]]_vars

\* Events whose row is fresh and of which no claim has failed.
Clean == {e \in Events : fresh[e] /\ e \notin misreset}

Lifecycle == INSTANCE EventLifecycle
               WITH phase <- [e \in Clean |-> status[e]],
                    busy <- [e \in Clean |->
                               {w \in Workers : wpc[w] \in Holding /\ wmsg[w].event = e}]

\* Of such an event every step of every handler, worker, crash and redelivery
\* is a step of its lifecycle: one claim at a time, one outcome, no way back
\* from it, and a lost worker's event is not taken up by another job.
QueueIsLifecycle == Lifecycle!Spec

(* Liveness. *)

\* A stored event is processed or dead-lettered in the end, unless it was
\* abandoned: retries end and no job waits for another.
ReceivedResolves ==
    \A e \in Events :
        (status[e] = "received") ~> (status[e] \in Terminal \/ e \in abandoned)

\* Retries do not go on for ever: once the provider and the faults are done,
\* every job is acknowledged and no worker is busy.
QueueDrains ==
    <>[]((\A m \in Messages : queue[m] = 0) /\ (\A w \in Workers : wpc[w] = "idle"))

(* What the documentation says, and the code does not do. *)

\* "persist webhook_events (received) -> 200 -> job": an answered event has
\* a row.
AnsweredIsPersisted == \A e \in answered : status[e] # "absent"

\* "Stale PROCESSING (worker crash) ... -> reclaim": a row left in processing
\* whose job is back in the queue does not stay in processing.
CrashedClaimIsReclaimed ==
    \A e \in Events :
        /\ status[e] = "processing"
        /\ \A w \in Workers : wpc[w] = "idle"
        /\ \E m \in Messages : m.event = e /\ queue[m] > 0
        ~> status[e] # "processing"

\* "Idempotency keys ... prevent double-charge on Celery retries": an event
\* is metered once.
MeteredOnce == \A e \in Events : metered[e] <= 1
=============================================================================
