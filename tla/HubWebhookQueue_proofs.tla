----------------------- MODULE HubWebhookQueue_proofs -----------------------
(***************************************************************************)
(* Proofs about HubWebhookQueue, for any sets of events, handlers and      *)
(* workers and any number of retries.                                      *)
(***************************************************************************)
EXTENDS HubWebhookQueue, TLAPS

-----------------------------------------------------------------------------
(* The inductive invariant: one part for each of the safety properties.    *)

\* The claim on a fresh row excludes every other worker, and lasts as long
\* as the worker that made it answers for the event.
Exclusive ==
    \A e \in Events : fresh[e] /\ e \notin misreset =>
        \A w \in Workers : wpc[w] \in Holding /\ wmsg[w].event = e =>
            /\ status[e] = "processing"
            /\ \A v \in Workers : wpc[v] \in Holding /\ wmsg[v].event = e => v = w

\* The attempt number of a job never runs ahead of the failures.
Attempted ==
    /\ \A m \in Messages : queue[m] > 0 => failures[m.event] >= m.attempt
    /\ \A w \in Workers : wpc[w] # "idle" => failures[wmsg[w].event] >= wmsg[w].attempt
    /\ \A w \in Workers : wpc[w] \in {"failed", "reset", "publish"} =>
          failures[wmsg[w].event] > wmsg[w].attempt
    /\ \A w \in Workers : wpc[w] \in {"reset", "publish"} => wmsg[w].attempt < MaxRetries

\* An event that is being or has been enqueued has its row.
Stored ==
    /\ \A e \in handed : status[e] # "absent"
    /\ \A h \in Handlers : hpc[h] = "enqueue" => status[hev[h]] # "absent"

\* A claimed row has a worker that will write its status again.
Claimed ==
    \A e \in Events : status[e] = "processing" /\ e \notin abandoned =>
        \E w \in Workers :
            /\ wpc[w] \in Holding /\ wmsg[w].event = e
            /\ ~(wpc[w] = "reset" /\ wseen[w] = "received")

\* What the dispatch has done when it reaches each of its steps.
Dispatched ==
    \A w \in Workers : wmsg[w].event \notin orphaned =>
        /\ wpc[w] \in {"forward", "mark"} => metered[wmsg[w].event] > 0
        /\ wpc[w] = "mark" /\ wmsg[w].event \in Messaging => forwarded[wmsg[w].event] > 0

\* A usage row beyond the failures is that of the attempt in progress, or of
\* the one that ended well.
Metered ==
    \A e \in Events : fresh[e] /\ e \notin misreset \union abandoned =>
        /\ metered[e] <= failures[e] + 1
        /\ status[e] \in {"absent", "received"} => metered[e] <= failures[e]
        /\ \A w \in Workers : wpc[w] \in {"meter", "failed", "reset"} /\ wmsg[w].event = e =>
              metered[e] <= failures[e]

-----------------------------------------------------------------------------
(* Types.                                                                  *)

LEMMA MessageTypes ==
    /\ \A m \in Messages : m.event \in Events /\ m.attempt \in Attempts /\ m.attempt \in Nat
    /\ \A e \in Events : [event |-> e, attempt |-> 0] \in Messages
    /\ \A m \in Messages : m.attempt < MaxRetries =>
          [m EXCEPT !.attempt = @ + 1] \in Messages
  BY MaxRetriesAssumption DEF Messages, Attempts

\* What a worker does with the message it has, failures included.
WorkerAction(w) ==
    \/ ClaimRefused(w) \/ Claim(w) \/ Meter(w) \/ Forward(w) \/ MarkProcessed(w)
    \/ DispatchFails(w) \/ ClaimFails(w) \/ DeadLetter(w) \/ LoadForRetry(w)
    \/ ResetForRetry(w) \/ PublishRetry(w) \/ Ack(w) \/ ErrorPathFails(w)
    \/ Crash(w) \/ Redeliver(w)

LEMMA NextCases ==
    [Next]_vars =>
        \/ UNCHANGED vars
        \/ \E h \in Handlers, e \in Events : PostClaimKey(h, e) \/ PostRedisDown(h, e)
        \/ \E h \in Handlers : HandlerStep(h) \/ HandlerFail(h)
        \/ \E w \in Workers, m \in Messages : Receive(w, m)
        \/ \E w \in Workers : WorkerAction(w)
        \/ \E e \in Events : GoStale(e) \/ KeyExpires(e) \/ DeleteConnection(e)
  BY DEF Next, WorkerStep, WorkerAction, Faults

LEMMA OneMore ==
    ASSUME NEW q \in [Messages -> Nat], NEW x
    PROVE  [q EXCEPT ![x] = @ + 1] \in [Messages -> Nat]
  <1>1. CASE x \in Messages
    <2>1. q[x] + 1 \in Nat
      BY <1>1
    <2>2. QED
      BY <1>1, <2>1
  <1>2. CASE x \notin Messages
    BY <1>2
  <1>3. QED
    BY <1>1, <1>2

LEMMA InitTypeOK == Init => TypeOK
  <1>1. (CHOOSE e \in Events : TRUE) \in Events
    BY EventSetsAssumption
  <1>2. Messages # {}
    BY <1>1, MessageTypes
  <1>3. (CHOOSE m \in Messages : TRUE) \in Messages
    BY <1>2
  <1>4. QED
    BY <1>1, <1>3, BoundsAssumption
    DEF Init, TypeOK, Statuses, Holding, Dispatching

LEMMA NextTypeOK == TypeOK /\ [Next]_vars => TypeOK'
  <1> SUFFICES ASSUME TypeOK, [Next]_vars PROVE TypeOK'
    OBVIOUS
  <1> USE DEF TypeOK
  <1>1. CASE UNCHANGED vars
    BY <1>1 DEF vars, rowVars, handlerVars, workerVars, bounds, httpHistory, jobHistory
  <1>2. ASSUME NEW h \in Handlers, NEW e \in Events, PostClaimKey(h, e) \/ PostRedisDown(h, e)
        PROVE  TypeOK'
    BY <1>2 DEF PostClaimKey, PostRedisDown, Post, Fault, rowVars, workerVars, httpHistory, jobHistory
  <1>3. ASSUME NEW h \in Handlers, HandlerStep(h) \/ HandlerFail(h)
        PROVE  TypeOK'
    <2> DEFINE m == [event |-> hev[h], attempt |-> 0]
    <2>1. m \in Messages /\ hev[h] \in Events
      BY MessageTypes
    <2>2. CASE InsertConflict(h) \/ HandlerFail(h)
      BY <2>1, <2>2 DEF InsertConflict, HandlerFail, Fault, rowVars, workerVars, bounds,
                        httpHistory, jobHistory
    <2>3. CASE InsertRow(h)
      BY <2>1, <2>3 DEF InsertRow, workerVars, bounds, httpHistory, jobHistory, Statuses
    <2>4. CASE Enqueue(h)
      BY <2>1, <2>4 DEF Enqueue, rowVars, workerVars, bounds, jobHistory
    <2>5. QED
      BY <1>3, <2>2, <2>3, <2>4 DEF HandlerStep
  <1>4. ASSUME NEW w \in Workers, NEW m \in Messages, Receive(w, m)
        PROVE  TypeOK'
    BY <1>4 DEF Receive, rowVars, handlerVars, bounds, httpHistory, jobHistory
  <1>5. ASSUME NEW w \in Workers, WorkerAction(w)
        PROVE  TypeOK'
    <2>0. wmsg[w] \in Messages /\ wmsg[w].event \in Events
      BY MessageTypes
    <2>1. CASE ClaimRefused(w)
      BY <2>0, <2>1 DEF ClaimRefused, Release, rowVars, handlerVars, bounds, httpHistory, jobHistory, Statuses
    <2>2. CASE Claim(w)
      <3>1. CASE wmsg[w].event \in orphaned \union Foreign
        <4>1. status' \in [Events -> Statuses]
          BY <2>0, <2>2, <3>1 DEF Claim, Statuses
        <4>2. error' \in [Events -> {"none", "workspace_mismatch", "connection_missing",
                                      "failed", "max_retries"}]
          BY <2>0, <2>2, <3>1 DEF Claim
        <4>3. /\ Release(w)
              /\ UNCHANGED <<dedupKeys, fresh, orphaned, handlerVars, queue, bounds,
                             httpHistory, jobHistory>>
          BY <2>2, <3>1 DEF Claim
        <4> QED
          BY <4>1, <4>2, <4>3 DEF Release, Statuses, handlerVars, bounds, httpHistory,
                                     jobHistory
      <3>2. CASE wmsg[w].event \notin orphaned \union Foreign
        BY <2>0, <2>2, <3>2 DEF Claim, handlerVars, bounds, httpHistory, jobHistory,
                             Statuses, Holding, Dispatching
      <3>3. QED
        BY <3>1, <3>2
    <2>3. CASE MarkProcessed(w)
      BY <2>0, <2>3 DEF MarkProcessed, Release, handlerVars, bounds, httpHistory, jobHistory, Statuses
    <2>4. CASE DeadLetter(w)
      BY <2>0, <2>4 DEF DeadLetter, Release, handlerVars, bounds, httpHistory, jobHistory, Statuses
    <2>5. CASE Ack(w)
      BY <2>0, <2>5 DEF Ack, Release, rowVars, handlerVars, bounds, httpHistory, jobHistory, Statuses
    <2>6. CASE ErrorPathFails(w)
      BY <2>0, <2>6 DEF ErrorPathFails, Release, Fault, rowVars, handlerVars, httpHistory, jobHistory, Statuses
    <2>7. CASE Meter(w)
      BY <2>0, <2>7 DEF Meter, rowVars, handlerVars, bounds, httpHistory, Holding, Dispatching
    <2>8. CASE Forward(w)
      BY <2>0, <2>8 DEF Forward, rowVars, handlerVars, bounds, httpHistory, Holding, Dispatching
    <2>9. CASE DispatchFails(w)
      BY <2>0, <2>9 DEF DispatchFails, rowVars, handlerVars, bounds, httpHistory, Holding
    <2>10. CASE ClaimFails(w)
      BY <2>0, <2>10 DEF ClaimFails, Fault, rowVars, handlerVars, httpHistory, Holding
    <2>11. CASE LoadForRetry(w)
      BY <2>0, <2>11 DEF LoadForRetry, rowVars, handlerVars, bounds, httpHistory, jobHistory, Holding
    <2>12. CASE ResetForRetry(w)
      BY <2>0, <2>12 DEF ResetForRetry, handlerVars, bounds, httpHistory, jobHistory, Statuses
    <2>13. CASE PublishRetry(w)
      <3>2. queue' \in [Messages -> Nat]
        BY <2>13, OneMore DEF PublishRetry
      <3>3. QED
        BY <2>13, <3>2 DEF PublishRetry, rowVars, handlerVars, bounds, httpHistory, jobHistory
    <2>14. CASE Crash(w)
      BY <2>0, <2>14 DEF Crash, Release, Fault, rowVars, handlerVars, httpHistory, Statuses
    <2>15. CASE Redeliver(w)
      BY <2>0, <2>15 DEF Redeliver, Fault, rowVars, handlerVars, httpHistory, jobHistory
    <2>16. QED
      BY <1>5, <2>1, <2>2, <2>3, <2>4, <2>5, <2>6, <2>7, <2>8, <2>9, <2>10, <2>11, <2>12,
         <2>13, <2>14, <2>15 DEF WorkerAction
  <1>6. ASSUME NEW e \in Events, GoStale(e) \/ KeyExpires(e) \/ DeleteConnection(e)
        PROVE  TypeOK'
    <2>1. CASE GoStale(e)
      BY <2>1 DEF GoStale, handlerVars, workerVars, bounds, httpHistory, jobHistory
    <2>2. CASE KeyExpires(e)
      BY <2>2 DEF KeyExpires, Fault, rowVars, handlerVars, workerVars, httpHistory, jobHistory
    <2>3. CASE DeleteConnection(e)
      BY <2>3 DEF DeleteConnection, Fault, handlerVars, workerVars, httpHistory, jobHistory
    <2>4. QED
      BY <1>6, <2>1, <2>2, <2>3
  <1>7. QED
    BY <1>1, <1>2, <1>3, <1>4, <1>5, <1>6, NextCases

\* Every variable keeps its type.
THEOREM TypeCorrect == Spec => []TypeOK
  <1>1. QED
    BY InitTypeOK, NextTypeOK, PTL DEF Spec

-----------------------------------------------------------------------------
(* The claim is exclusive.                                                 *)

LEMMA ExclusiveStep == TypeOK /\ Exclusive /\ [Next]_vars => Exclusive'
  <1> SUFFICES ASSUME TypeOK, Exclusive, [Next]_vars PROVE Exclusive'
    OBVIOUS
  <1> USE DEF TypeOK
  <1>1. CASE UNCHANGED vars
    BY <1>1 DEF vars, rowVars, workerVars, jobHistory, Exclusive
  <1>2. ASSUME NEW h \in Handlers, NEW e \in Events, PostClaimKey(h, e) \/ PostRedisDown(h, e)
        PROVE  Exclusive'
    BY <1>2 DEF PostClaimKey, PostRedisDown, rowVars, workerVars, jobHistory, Exclusive
  <1>3. ASSUME NEW h \in Handlers, HandlerStep(h) \/ HandlerFail(h)
        PROVE  Exclusive'
    <2>1. CASE InsertRow(h)
      BY <2>1 DEF InsertRow, workerVars, jobHistory, Exclusive
    <2>2. CASE InsertConflict(h) \/ Enqueue(h) \/ HandlerFail(h)
      BY <2>2 DEF InsertConflict, Enqueue, HandlerFail, rowVars, workerVars, jobHistory, Exclusive
    <2>3. QED
      BY <1>3, <2>1, <2>2 DEF HandlerStep
  <1>4. ASSUME NEW w \in Workers, NEW m \in Messages, Receive(w, m)
        PROVE  Exclusive'
    BY <1>4 DEF Receive, rowVars, jobHistory, Exclusive, Holding, Dispatching
  <1>5. ASSUME NEW w \in Workers, WorkerAction(w)
        PROVE  Exclusive'
    <2>0. wmsg[w] \in Messages /\ wmsg[w].event \in Events
      BY MessageTypes
    <2> USE DEF Exclusive, Holding, Dispatching
    <2>1. CASE ClaimRefused(w) \/ Ack(w) \/ ErrorPathFails(w) \/ Crash(w)
      BY <2>0, <2>1 DEF ClaimRefused, Ack, ErrorPathFails, Crash, Release, rowVars, jobHistory
    <2>2. CASE Claim(w)
      BY <2>0, <2>2 DEF Claim, Claimable, Release, jobHistory
    <2>3. CASE Meter(w) \/ Forward(w) \/ DispatchFails(w)
      BY <2>0, <2>3 DEF Meter, Forward, DispatchFails, rowVars
    <2>4. CASE MarkProcessed(w) \/ DeadLetter(w)
      BY <2>0, <2>4 DEF MarkProcessed, DeadLetter, Release, jobHistory
    <2>5. CASE ClaimFails(w)
      BY <2>0, <2>5 DEF ClaimFails, rowVars
    <2>6. CASE LoadForRetry(w) \/ PublishRetry(w) \/ Redeliver(w)
      BY <2>0, <2>6 DEF LoadForRetry, PublishRetry, Redeliver, rowVars, jobHistory
    <2>7. CASE ResetForRetry(w)
      BY <2>0, <2>7 DEF ResetForRetry, jobHistory
    <2>8. QED
      BY <1>5, <2>1, <2>2, <2>3, <2>4, <2>5, <2>6, <2>7 DEF WorkerAction
  <1>6. ASSUME NEW e \in Events, GoStale(e) \/ KeyExpires(e) \/ DeleteConnection(e)
        PROVE  Exclusive'
    BY <1>6 DEF GoStale, KeyExpires, DeleteConnection, rowVars, workerVars, jobHistory, Exclusive
  <1>7. QED
    BY <1>1, <1>2, <1>3, <1>4, <1>5, <1>6, NextCases

-----------------------------------------------------------------------------
(* Jobs are handed out once, and attempts are counted.                     *)

LEMMA StoredStep ==
    TypeOK /\ Stored /\ EnqueuedOnce /\ [Next]_vars => Stored' /\ EnqueuedOnce'
  <1> SUFFICES ASSUME TypeOK, Stored, EnqueuedOnce, [Next]_vars PROVE Stored' /\ EnqueuedOnce'
    OBVIOUS
  <1> USE DEF TypeOK, Stored, EnqueuedOnce
  <1>1. CASE UNCHANGED vars
    BY <1>1 DEF vars, rowVars, handlerVars, httpHistory
  <1>2. ASSUME NEW h \in Handlers, NEW e \in Events, PostClaimKey(h, e) \/ PostRedisDown(h, e)
        PROVE  Stored' /\ EnqueuedOnce'
    BY <1>2 DEF PostClaimKey, PostRedisDown, rowVars, httpHistory
  <1>3. ASSUME NEW h \in Handlers, HandlerStep(h) \/ HandlerFail(h)
        PROVE  Stored' /\ EnqueuedOnce'
    <2>1. CASE InsertRow(h)
      BY <2>1 DEF InsertRow
    <2>2. CASE InsertConflict(h) \/ HandlerFail(h)
      BY <2>2 DEF InsertConflict, HandlerFail, rowVars, httpHistory
    <2>3. CASE Enqueue(h)
      BY <2>3 DEF Enqueue, rowVars
    <2>4. QED
      BY <1>3, <2>1, <2>2, <2>3 DEF HandlerStep
  <1>4. ASSUME NEW w \in Workers, NEW m \in Messages, Receive(w, m)
        PROVE  Stored' /\ EnqueuedOnce'
    BY <1>4 DEF Receive, rowVars, handlerVars, httpHistory
  <1>5. ASSUME NEW w \in Workers, WorkerAction(w)
        PROVE  Stored' /\ EnqueuedOnce'
    <2>1. UNCHANGED <<hpc, hev, handed>>
      BY <1>5 DEF WorkerAction, ClaimRefused, Claim, Meter, Forward, MarkProcessed,
                  DispatchFails, ClaimFails, DeadLetter, LoadForRetry, ResetForRetry,
                  PublishRetry, Ack, ErrorPathFails, Crash, Redeliver, handlerVars, httpHistory
    <2>2. \A e \in Events : status[e] # "absent" => status'[e] # "absent"
      BY <1>5 DEF WorkerAction, ClaimRefused, Claim, Meter, Forward, MarkProcessed,
                  DispatchFails, ClaimFails, DeadLetter, LoadForRetry, ResetForRetry,
                  PublishRetry, Ack, ErrorPathFails, Crash, Redeliver, rowVars
    <2>3. QED
      BY <2>1, <2>2
  <1>6. ASSUME NEW e \in Events, GoStale(e) \/ KeyExpires(e) \/ DeleteConnection(e)
        PROVE  Stored' /\ EnqueuedOnce'
    BY <1>6 DEF GoStale, KeyExpires, DeleteConnection, rowVars, handlerVars, httpHistory
  <1>7. QED
    BY <1>1, <1>2, <1>3, <1>4, <1>5, <1>6, NextCases

LEMMA AttemptedStep ==
    TypeOK /\ Attempted /\ DeadLetterAfterAllRetries /\ [Next]_vars
        => Attempted' /\ DeadLetterAfterAllRetries'
  <1> SUFFICES ASSUME TypeOK, Attempted, DeadLetterAfterAllRetries, [Next]_vars
               PROVE  Attempted' /\ DeadLetterAfterAllRetries'
    OBVIOUS
  <1> USE DEF TypeOK, Attempted, DeadLetterAfterAllRetries
  <1>0. \A m \in Messages : m.event \in Events /\ m.attempt \in Nat
    BY MessageTypes
  <1>1. CASE UNCHANGED vars
    BY <1>1 DEF vars, rowVars, workerVars, jobHistory
  <1>2. ASSUME NEW h \in Handlers, NEW e \in Events, PostClaimKey(h, e) \/ PostRedisDown(h, e)
        PROVE  Attempted' /\ DeadLetterAfterAllRetries'
    BY <1>2 DEF PostClaimKey, PostRedisDown, rowVars, workerVars, jobHistory
  <1>3. ASSUME NEW h \in Handlers, HandlerStep(h) \/ HandlerFail(h)
        PROVE  Attempted' /\ DeadLetterAfterAllRetries'
    <2>1. CASE InsertRow(h)
      BY <2>1 DEF InsertRow, workerVars, jobHistory
    <2>2. CASE InsertConflict(h) \/ HandlerFail(h)
      BY <2>2 DEF InsertConflict, HandlerFail, rowVars, workerVars, jobHistory
    <2>3. CASE Enqueue(h)
      <3>1. \A m \in Messages : queue'[m] > 0 => queue[m] > 0 \/ m.attempt = 0
        BY <2>3 DEF Enqueue
      <3>2. QED
        BY <1>0, <2>3, <3>1 DEF Enqueue, rowVars, workerVars, jobHistory
    <2>4. QED
      BY <1>3, <2>1, <2>2, <2>3 DEF HandlerStep
  <1>4. ASSUME NEW w \in Workers, NEW m \in Messages, Receive(w, m)
        PROVE  Attempted' /\ DeadLetterAfterAllRetries'
    BY <1>0, <1>4 DEF Receive, rowVars, jobHistory
  <1>5. ASSUME NEW w \in Workers, WorkerAction(w)
        PROVE  Attempted' /\ DeadLetterAfterAllRetries'
    <2>0. wmsg[w] \in Messages /\ wmsg[w].event \in Events /\ wmsg[w].attempt \in Nat
      BY <1>0
    <2>1. CASE ClaimRefused(w) \/ Ack(w) \/ ErrorPathFails(w)
      BY <1>0, <2>0, <2>1 DEF ClaimRefused, Ack, ErrorPathFails, Release, rowVars, jobHistory
    <2>2. CASE Claim(w)
      <3>1. CASE wmsg[w].event \in orphaned \union Foreign
        BY <1>0, <2>0, <2>2, <3>1 DEF Claim, Release, jobHistory
      <3>2. CASE wmsg[w].event \notin orphaned \union Foreign
        BY <1>0, <2>0, <2>2, <3>2 DEF Claim, jobHistory
      <3> QED
        BY <3>1, <3>2
    <2>3. CASE Meter(w) \/ Forward(w)
      BY <1>0, <2>0, <2>3 DEF Meter, Forward, rowVars
    <2>4. CASE MarkProcessed(w)
      BY <1>0, <2>0, <2>4 DEF MarkProcessed, Release, jobHistory
    <2>5. CASE DispatchFails(w) \/ ClaimFails(w)
      <3>1. /\ UNCHANGED <<queue, wmsg, error>>
            /\ wpc' = [wpc EXCEPT ![w] = "failed"]
            /\ failures' = [failures EXCEPT ![wmsg[w].event] = @ + 1]
            /\ wpc[w] # "idle"
        BY <2>5 DEF DispatchFails, ClaimFails, rowVars, Dispatching
      <3>2. \A e \in Events : failures'[e] >= failures[e] /\ failures'[e] \in Nat
        BY <2>0, <3>1
      <3>3. failures'[wmsg[w].event] > wmsg[w].attempt
        BY <2>0, <3>1
      <3>4. DeadLetterAfterAllRetries'
        BY <3>1, <3>2, MaxRetriesAssumption
      <3>5. QED
        BY <1>0, <2>0, <3>1, <3>2, <3>3, <3>4
    <2>6. CASE DeadLetter(w)
      BY <1>0, <2>0, <2>6, MaxRetriesAssumption DEF DeadLetter, Release, jobHistory
    <2>7. CASE LoadForRetry(w) \/ ResetForRetry(w)
      BY <1>0, <2>0, <2>7 DEF LoadForRetry, ResetForRetry, rowVars, jobHistory
    <2>8. CASE PublishRetry(w)
      <3> DEFINE next == [wmsg[w] EXCEPT !.attempt = @ + 1]
      <3>1. next.event = wmsg[w].event /\ next.attempt = wmsg[w].attempt + 1
        BY <2>0 DEF Messages
      <3>2. queue' = [queue EXCEPT ![next] = @ + 1]
        BY <2>8 DEF PublishRetry
      <3> HIDE DEF next
      <3>3. \A m \in Messages : queue'[m] > 0 => queue[m] > 0 \/ m = next
        BY <3>2
      <3>4. failures[wmsg[w].event] >= next.attempt
        BY <2>0, <2>8, <3>1 DEF PublishRetry
      <3>5. \A m \in Messages : queue'[m] > 0 => failures[m.event] >= m.attempt
        BY <3>1, <3>3, <3>4
      <3>6. QED
        BY <1>0, <2>0, <2>8, <3>5 DEF PublishRetry, rowVars, jobHistory
    <2>9. CASE Crash(w) \/ Redeliver(w)
      <3>1. \A m \in Messages : queue'[m] > 0 => queue[m] > 0 \/ (m = wmsg[w] /\ wpc[w] # "idle")
        BY <2>0, <2>9 DEF Crash, Redeliver
      <3>2. UNCHANGED <<failures, wmsg, error>> /\ (wpc' = wpc \/ wpc' = [wpc EXCEPT ![w] = "idle"])
        BY <2>9 DEF Crash, Redeliver, Release, rowVars, jobHistory
      <3>3. QED
        BY <1>0, <2>0, <3>1, <3>2
    <2>10. QED
      BY <1>5, <2>1, <2>2, <2>3, <2>4, <2>5, <2>6, <2>7, <2>8, <2>9 DEF WorkerAction
  <1>6. ASSUME NEW e \in Events, GoStale(e) \/ KeyExpires(e) \/ DeleteConnection(e)
        PROVE  Attempted' /\ DeadLetterAfterAllRetries'
    BY <1>6 DEF GoStale, KeyExpires, DeleteConnection, rowVars, workerVars, jobHistory
  <1>7. QED
    BY <1>1, <1>2, <1>3, <1>4, <1>5, <1>6, NextCases

-----------------------------------------------------------------------------
(* What a dispatch has done, and how often it has metered.                 *)

LEMMA DispatchedStep ==
    TypeOK /\ Dispatched /\ ProcessedWasDispatched /\ [Next]_vars
        => Dispatched' /\ ProcessedWasDispatched'
  <1> SUFFICES ASSUME TypeOK, Dispatched, ProcessedWasDispatched, [Next]_vars
               PROVE  Dispatched' /\ ProcessedWasDispatched'
    OBVIOUS
  <1> USE DEF TypeOK, Dispatched, ProcessedWasDispatched
  <1>0. \A m \in Messages : m.event \in Events
    BY MessageTypes
  <1>1. CASE UNCHANGED vars
    BY <1>1 DEF vars, rowVars, workerVars, jobHistory
  <1>2. ASSUME NEW h \in Handlers, NEW e \in Events, PostClaimKey(h, e) \/ PostRedisDown(h, e)
        PROVE  Dispatched' /\ ProcessedWasDispatched'
    BY <1>2 DEF PostClaimKey, PostRedisDown, rowVars, workerVars, jobHistory
  <1>3. ASSUME NEW h \in Handlers, HandlerStep(h) \/ HandlerFail(h)
        PROVE  Dispatched' /\ ProcessedWasDispatched'
    BY <1>3 DEF HandlerStep, InsertRow, InsertConflict, Enqueue, HandlerFail, rowVars,
                workerVars, jobHistory
  <1>4. ASSUME NEW w \in Workers, NEW m \in Messages, Receive(w, m)
        PROVE  Dispatched' /\ ProcessedWasDispatched'
    BY <1>0, <1>4 DEF Receive, rowVars, jobHistory
  <1>5. ASSUME NEW w \in Workers, WorkerAction(w)
        PROVE  Dispatched' /\ ProcessedWasDispatched'
    <2>0. wmsg[w] \in Messages /\ wmsg[w].event \in Events
      BY <1>0
    <2>1. CASE ClaimRefused(w) \/ Ack(w) \/ ErrorPathFails(w) \/ Crash(w)
      BY <1>0, <2>0, <2>1 DEF ClaimRefused, Ack, ErrorPathFails, Crash, Release, rowVars,
                              jobHistory
    <2>2. CASE Claim(w)
      BY <1>0, <2>0, <2>2 DEF Claim, Release, jobHistory
    <2>3. CASE Meter(w)
      BY <1>0, <2>0, <2>3 DEF Meter, rowVars
    <2>4. CASE Forward(w)
      BY <1>0, <2>0, <2>4 DEF Forward, rowVars
    <2>5. CASE MarkProcessed(w) \/ DeadLetter(w)
      BY <1>0, <2>0, <2>5 DEF MarkProcessed, DeadLetter, Release, jobHistory
    <2>6. CASE DispatchFails(w) \/ ClaimFails(w)
      BY <1>0, <2>0, <2>6 DEF DispatchFails, ClaimFails, rowVars
    <2>7. CASE LoadForRetry(w) \/ ResetForRetry(w) \/ PublishRetry(w) \/ Redeliver(w)
      BY <1>0, <2>0, <2>7 DEF LoadForRetry, ResetForRetry, PublishRetry, Redeliver, rowVars,
                              jobHistory
    <2>8. QED
      BY <1>5, <2>1, <2>2, <2>3, <2>4, <2>5, <2>6, <2>7 DEF WorkerAction
  <1>6. ASSUME NEW e \in Events, GoStale(e) \/ KeyExpires(e) \/ DeleteConnection(e)
        PROVE  Dispatched' /\ ProcessedWasDispatched'
    BY <1>0, <1>6 DEF GoStale, KeyExpires, DeleteConnection, rowVars, workerVars, jobHistory
  <1>7. QED
    BY <1>1, <1>2, <1>3, <1>4, <1>5, <1>6, NextCases

LEMMA MeteredStep == TypeOK /\ Exclusive /\ Metered /\ [Next]_vars => Metered'
  <1> SUFFICES ASSUME TypeOK, Exclusive, Metered, [Next]_vars PROVE Metered'
    OBVIOUS
  <1> USE DEF TypeOK, Metered
  <1>0. \A m \in Messages : m.event \in Events
    BY MessageTypes
  <1>1. CASE UNCHANGED vars
    BY <1>1 DEF vars, rowVars, workerVars, jobHistory
  <1>2. ASSUME NEW h \in Handlers, NEW e \in Events, PostClaimKey(h, e) \/ PostRedisDown(h, e)
        PROVE  Metered'
    BY <1>2 DEF PostClaimKey, PostRedisDown, rowVars, workerVars, jobHistory
  <1>3. ASSUME NEW h \in Handlers, HandlerStep(h) \/ HandlerFail(h)
        PROVE  Metered'
    BY <1>3 DEF HandlerStep, InsertRow, InsertConflict, Enqueue, HandlerFail, rowVars,
                workerVars, jobHistory
  <1>4. ASSUME NEW w \in Workers, NEW m \in Messages, Receive(w, m)
        PROVE  Metered'
    BY <1>0, <1>4 DEF Receive, rowVars, jobHistory
  <1>5. ASSUME NEW w \in Workers, WorkerAction(w)
        PROVE  Metered'
    <2>0. wmsg[w] \in Messages /\ wmsg[w].event \in Events
      BY <1>0
    <2>1. CASE ClaimRefused(w) \/ Ack(w) \/ ErrorPathFails(w) \/ Crash(w)
      BY <1>0, <2>0, <2>1 DEF ClaimRefused, Ack, ErrorPathFails, Crash, Release, rowVars,
                              jobHistory
    <2>2. CASE Claim(w)
      BY <1>0, <2>0, <2>2 DEF Claim, Claimable, Release, jobHistory
    <2>3. CASE Meter(w)
      BY <1>0, <2>0, <2>3 DEF Meter, rowVars, Exclusive, Holding, Dispatching
    <2>4. CASE Forward(w)
      BY <1>0, <2>0, <2>4 DEF Forward, rowVars
    <2>5. CASE MarkProcessed(w) \/ DeadLetter(w)
      BY <1>0, <2>0, <2>5 DEF MarkProcessed, DeadLetter, Release, jobHistory
    <2>6. CASE DispatchFails(w) \/ ClaimFails(w)
      BY <1>0, <2>0, <2>6 DEF DispatchFails, ClaimFails, rowVars
    <2>7. CASE LoadForRetry(w) \/ PublishRetry(w) \/ Redeliver(w)
      BY <1>0, <2>0, <2>7 DEF LoadForRetry, PublishRetry, Redeliver, rowVars, jobHistory
    <2>8. CASE ResetForRetry(w)
      BY <1>0, <2>0, <2>8 DEF ResetForRetry, jobHistory
    <2>9. QED
      BY <1>5, <2>1, <2>2, <2>3, <2>4, <2>5, <2>6, <2>7, <2>8 DEF WorkerAction
  <1>6. ASSUME NEW e \in Events, GoStale(e) \/ KeyExpires(e) \/ DeleteConnection(e)
        PROVE  Metered'
    BY <1>0, <1>6 DEF GoStale, KeyExpires, DeleteConnection, rowVars, workerVars, jobHistory
  <1>7. QED
    BY <1>1, <1>2, <1>3, <1>4, <1>5, <1>6, NextCases

-----------------------------------------------------------------------------
(* No event is lost.                                                       *)

\* A claimed row has a carrier.
LEMMA ClaimedIsCarried ==
    ASSUME Claimed, NEW e \in Events, status[e] = "processing", e \notin abandoned
    PROVE  Carried(e)
  BY DEF Claimed, Carried

LEMMA ClaimedStep == TypeOK /\ Claimed /\ [Next]_vars => Claimed'
  <1> SUFFICES ASSUME TypeOK, Claimed, [Next]_vars PROVE Claimed'
    OBVIOUS
  <1> USE DEF TypeOK, Claimed, Holding, Dispatching
  <1>0. \A m \in Messages : m.event \in Events
    BY MessageTypes
  <1>1. CASE UNCHANGED vars
    BY <1>1 DEF vars, rowVars, workerVars, jobHistory
  <1>2. ASSUME NEW h \in Handlers, NEW e \in Events, PostClaimKey(h, e) \/ PostRedisDown(h, e)
        PROVE  Claimed'
    BY <1>2 DEF PostClaimKey, PostRedisDown, rowVars, workerVars, jobHistory
  <1>3. ASSUME NEW h \in Handlers, HandlerStep(h) \/ HandlerFail(h)
        PROVE  Claimed'
    BY <1>3 DEF HandlerStep, InsertRow, InsertConflict, Enqueue, HandlerFail, rowVars,
                workerVars, jobHistory
  <1>4. ASSUME NEW w \in Workers, NEW m \in Messages, Receive(w, m)
        PROVE  Claimed'
    BY <1>0, <1>4 DEF Receive, rowVars, jobHistory
  <1>5. ASSUME NEW w \in Workers, WorkerAction(w)
        PROVE  Claimed'
    <2>0. wmsg[w] \in Messages /\ wmsg[w].event \in Events
      BY <1>0
    <2>1. CASE ClaimRefused(w) \/ Ack(w)
      BY <1>0, <2>0, <2>1 DEF ClaimRefused, Ack, Release, rowVars, jobHistory
    <2>2. CASE ErrorPathFails(w) \/ Crash(w)
      <3>1. /\ UNCHANGED <<status, wmsg>> /\ abandoned \subseteq abandoned'
            /\ wpc[w] \in Holding => wmsg[w].event \in abandoned'
            /\ \A v \in Workers \ {w} : wpc'[v] = wpc[v] /\ wseen'[v] = wseen[v]
        BY <2>0, <2>2 DEF ErrorPathFails, Crash, Release, rowVars
      <3>2. QED
        BY <1>0, <2>0, <3>1
    <2>3. CASE Claim(w)
      BY <1>0, <2>0, <2>3 DEF Claim, Release, jobHistory
    <2>4. CASE Meter(w) \/ Forward(w) \/ DispatchFails(w) \/ ClaimFails(w)
      BY <1>0, <2>0, <2>4 DEF Meter, Forward, DispatchFails, ClaimFails, rowVars
    <2>5. CASE MarkProcessed(w) \/ DeadLetter(w)
      BY <1>0, <2>0, <2>5 DEF MarkProcessed, DeadLetter, Release, jobHistory
    <2>6. CASE LoadForRetry(w)
      BY <1>0, <2>0, <2>6 DEF LoadForRetry, rowVars, jobHistory, Terminal
    <2>7. CASE ResetForRetry(w)
      BY <1>0, <2>0, <2>7 DEF ResetForRetry, jobHistory
    <2>8. CASE PublishRetry(w) \/ Redeliver(w)
      BY <1>0, <2>0, <2>8 DEF PublishRetry, Redeliver, rowVars, jobHistory
    <2>9. QED
      BY <1>5, <2>1, <2>2, <2>3, <2>4, <2>5, <2>6, <2>7, <2>8 DEF WorkerAction
  <1>6. ASSUME NEW e \in Events, GoStale(e) \/ KeyExpires(e) \/ DeleteConnection(e)
        PROVE  Claimed'
    BY <1>6 DEF GoStale, KeyExpires, DeleteConnection, rowVars, workerVars, jobHistory
  <1>7. QED
    BY <1>1, <1>2, <1>3, <1>4, <1>5, <1>6, NextCases

\* A received row has a carrier in the next state.
LEMMA ReceivedIsCarried ==
    ASSUME TypeOK, Attempted, NoLostEvent, [Next]_vars,
           NEW e \in Events, status'[e] = "received", e \notin abandoned'
    PROVE  Carried(e)'
  <1> USE DEF TypeOK, Carried, Holding, Dispatching
  <1>0. \A m \in Messages : m.event \in Events /\ m.attempt \in Nat
    BY MessageTypes
  <1>1. status[e] = "received" /\ e \notin abandoned => Carried(e)
    BY DEF NoLostEvent
  <1> HIDE DEF TypeOK
  <1>2. CASE UNCHANGED vars
    BY <1>1, <1>2 DEF vars, rowVars, handlerVars, workerVars, jobHistory
  <1>3. ASSUME NEW h \in Handlers, NEW f \in Events, PostClaimKey(h, f) \/ PostRedisDown(h, f)
        PROVE  Carried(e)'
    <2>1. /\ UNCHANGED <<status, abandoned, queue, wpc, wmsg, wowns>>
          /\ \A g \in Handlers : hpc[g] = "enqueue" => hpc'[g] = "enqueue" /\ hev'[g] = hev[g]
      BY <1>3 DEF PostClaimKey, PostRedisDown, rowVars, workerVars, jobHistory, TypeOK
    <2>2. QED
      BY <1>1, <2>1
  <1>4. ASSUME NEW h \in Handlers, HandlerStep(h) \/ HandlerFail(h)
        PROVE  Carried(e)'
    <2>1. CASE InsertConflict(h) \/ HandlerFail(h)
      BY <1>1, <2>1 DEF InsertConflict, HandlerFail, rowVars, workerVars, jobHistory, TypeOK
    <2>2. CASE InsertRow(h)
      BY <1>1, <2>2 DEF InsertRow, workerVars, jobHistory, TypeOK
    <2>3. CASE Enqueue(h)
      <3> DEFINE job == [event |-> hev[h], attempt |-> 0]
      <3>1. job \in Messages /\ job.event = hev[h]
        BY MessageTypes DEF TypeOK
      <3>2. queue' = [queue EXCEPT ![job] = @ + 1]
        BY <2>3 DEF Enqueue
      <3> HIDE DEF job
      <3>3. queue'[job] > 0 /\ \A m \in Messages : queue[m] > 0 => queue'[m] > 0
        BY <3>1, <3>2 DEF TypeOK
      <3>4. /\ UNCHANGED <<status, abandoned, wpc, wmsg, wowns, hev>>
            /\ hpc' = [hpc EXCEPT ![h] = "idle"]
        BY <2>3 DEF Enqueue, rowVars, workerVars, jobHistory
      <3>5. QED
        BY <1>1, <3>1, <3>3, <3>4 DEF TypeOK
    <2>4. QED
      BY <1>4, <2>1, <2>2, <2>3 DEF HandlerStep
  <1>5. ASSUME NEW w \in Workers, NEW m \in Messages, Receive(w, m)
        PROVE  Carried(e)'
    <2>1. /\ UNCHANGED <<status, abandoned, hpc, hev>>
          /\ wpc' = [wpc EXCEPT ![w] = "claim"] /\ wpc[w] = "idle"
          /\ wmsg' = [wmsg EXCEPT ![w] = m] /\ wowns' = [wowns EXCEPT ![w] = TRUE]
          /\ \A n \in Messages : queue[n] > 0 => n = m \/ queue'[n] > 0
      BY <1>5 DEF Receive, rowVars, handlerVars, jobHistory, TypeOK
    <2>2. QED
      BY <1>1, <2>1 DEF TypeOK
  <1>6. ASSUME NEW w \in Workers, WorkerAction(w)
        PROVE  Carried(e)'
    <2>0. wmsg[w] \in Messages /\ wmsg[w].event \in Events
      BY <1>0 DEF TypeOK
    <2>1. CASE ClaimRefused(w)
      BY <1>1, <2>0, <2>1 DEF ClaimRefused, Claimable, Release, rowVars, handlerVars, jobHistory, TypeOK
    <2>2. CASE Claim(w)
      BY <1>1, <2>0, <2>2 DEF Claim, Release, handlerVars, jobHistory, TypeOK
    <2>3. CASE Meter(w) \/ Forward(w) \/ DispatchFails(w)
      BY <1>1, <2>0, <2>3 DEF Meter, Forward, DispatchFails, rowVars, handlerVars, TypeOK
    <2>4. CASE ClaimFails(w)
      BY <1>1, <2>0, <2>4 DEF ClaimFails, rowVars, handlerVars, TypeOK
    <2>5. CASE MarkProcessed(w) \/ DeadLetter(w)
      BY <1>1, <2>0, <2>5 DEF MarkProcessed, DeadLetter, Release, handlerVars, jobHistory, TypeOK
    <2>6. CASE LoadForRetry(w)
      BY <1>1, <2>0, <2>6 DEF LoadForRetry, rowVars, handlerVars, jobHistory, TypeOK
    <2>7. CASE ResetForRetry(w)
      BY <1>1, <2>0, <2>7 DEF ResetForRetry, handlerVars, jobHistory, TypeOK
    <2>8. CASE PublishRetry(w)
      <3> DEFINE next == [wmsg[w] EXCEPT !.attempt = @ + 1]
      <3>1. next \in Messages /\ next.event = wmsg[w].event
        BY <2>0, <2>8, MessageTypes DEF PublishRetry, Attempted, Messages
      <3>2. queue' = [queue EXCEPT ![next] = @ + 1]
        BY <2>8 DEF PublishRetry
      <3> HIDE DEF next
      <3>3. queue'[next] > 0 /\ \A m \in Messages : queue[m] > 0 => queue'[m] > 0
        BY <3>1, <3>2 DEF TypeOK
      <3>4. UNCHANGED <<status, abandoned, hpc, hev, wmsg, wowns>> /\ wpc' = [wpc EXCEPT ![w] = "ack"]
        BY <2>8 DEF PublishRetry, rowVars, handlerVars, jobHistory
      <3>5. QED
        BY <1>1, <3>1, <3>3, <3>4 DEF TypeOK
    <2>9. CASE Ack(w) \/ ErrorPathFails(w)
      BY <1>1, <2>0, <2>9 DEF Ack, ErrorPathFails, Release, rowVars, handlerVars, jobHistory, TypeOK
    <2>10. CASE Crash(w) \/ Redeliver(w)
      <3>1. \A m \in Messages : queue[m] > 0 => queue'[m] > 0
        BY <2>0, <2>10 DEF Crash, Redeliver, TypeOK
      <3>2. wowns[w] => queue'[wmsg[w]] > 0
        BY <2>0, <2>10 DEF Crash, Redeliver, TypeOK
      <3>3. CASE Crash(w)
        BY <1>1, <2>0, <3>1, <3>2, <3>3 DEF Crash, Release, rowVars, handlerVars, TypeOK
      <3>4. CASE Redeliver(w)
        BY <1>1, <2>0, <3>1, <3>2, <3>4 DEF Redeliver, rowVars, handlerVars, jobHistory, TypeOK
      <3>5. QED
        BY <2>10, <3>3, <3>4
    <2>11. QED
      BY <1>6, <2>1, <2>2, <2>3, <2>4, <2>5, <2>6, <2>7, <2>8, <2>9, <2>10 DEF WorkerAction
  <1>7. ASSUME NEW f \in Events, GoStale(f) \/ KeyExpires(f) \/ DeleteConnection(f)
        PROVE  Carried(e)'
    BY <1>1, <1>7 DEF GoStale, KeyExpires, DeleteConnection, rowVars, handlerVars, workerVars,
                      jobHistory
  <1>8. QED
    BY <1>2, <1>3, <1>4, <1>5, <1>6, <1>7, NextCases

LEMMA NoLostEventStep ==
    TypeOK /\ Attempted /\ Claimed /\ NoLostEvent /\ [Next]_vars => NoLostEvent'
  <1> SUFFICES ASSUME TypeOK, Attempted, Claimed, NoLostEvent, [Next]_vars,
                      NEW e \in Events, status'[e] \in {"received", "processing"},
                      e \notin abandoned'
               PROVE  Carried(e)'
    BY DEF NoLostEvent
  <1>1. CASE status'[e] = "received"
    BY <1>1, ReceivedIsCarried
  <1>2. CASE status'[e] = "processing"
    <2>1. Claimed'
      BY ClaimedStep
    <2>2. QED
      BY <1>2, <2>1 DEF Claimed, Carried
  <1>3. QED
    BY <1>1, <1>2

-----------------------------------------------------------------------------
(* The invariant and what follows from it.                                 *)

Inv ==
    /\ TypeOK
    /\ Exclusive
    /\ Stored /\ EnqueuedOnce
    /\ Attempted /\ DeadLetterAfterAllRetries
    /\ Dispatched /\ ProcessedWasDispatched
    /\ Metered
    /\ Claimed /\ NoLostEvent

LEMMA InitInv == Init => Inv
  <1> SUFFICES ASSUME Init PROVE Inv
    OBVIOUS
  <1>1. TypeOK
    BY InitTypeOK
  <1>2. Exclusive /\ Stored /\ EnqueuedOnce /\ Claimed /\ NoLostEvent
    BY DEF Init, Exclusive, Stored, EnqueuedOnce, Claimed, NoLostEvent, Holding, Dispatching
  <1>3. Attempted /\ DeadLetterAfterAllRetries
    BY MessageTypes DEF Init, Attempted, DeadLetterAfterAllRetries
  <1>4. Dispatched /\ ProcessedWasDispatched /\ Metered
    BY DEF Init, Dispatched, ProcessedWasDispatched, Metered
  <1>5. QED
    BY <1>1, <1>2, <1>3, <1>4 DEF Inv

\* Every reachable state of every instance satisfies the invariant.
THEOREM Invariance == Spec => []Inv
  <1>1. Inv /\ [Next]_vars => Inv'
    BY NextTypeOK, ExclusiveStep, StoredStep, AttemptedStep, DispatchedStep, MeteredStep,
       ClaimedStep, NoLostEventStep DEF Inv
  <1>2. QED
    BY <1>1, InitInv, PTL DEF Spec

\* accept_inbound_webhook, enqueue_if_needed: one first job per event.
THEOREM OneFirstJob == Spec => []EnqueuedOnce
  <1>1. Inv => EnqueuedOnce
    BY DEF Inv
  <1>2. QED
    BY <1>1, Invariance, PTL

\* claim_webhook_event: while its row is fresh and no claim of it failed, an
\* event is dispatched by one worker at a time.
THEOREM ExclusiveDispatch == Spec => []SingleDispatchWhileFresh
  <1>1. Inv => SingleDispatchWhileFresh
    BY DEF Inv, Exclusive, SingleDispatchWhileFresh, Holding
  <1>2. QED
    BY <1>1, Invariance, PTL

\* process_hub_webhook_event_task: no event is given up early.
THEOREM AllRetriesUsed == Spec => []DeadLetterAfterAllRetries
  <1>1. Inv => DeadLetterAfterAllRetries
    BY DEF Inv
  <1>2. QED
    BY <1>1, Invariance, PTL

\* acks_late and self.retry: a stored event is carried on unless a fault hit
\* one of the windows that abandon it.
THEOREM NothingLost == Spec => []NoLostEvent
  <1>1. Inv => NoLostEvent
    BY DEF Inv
  <1>2. QED
    BY <1>1, Invariance, PTL

\* mark_webhook_event(PROCESSED) comes after the whole dispatch.
THEOREM ProcessedMeansDispatched == Spec => []ProcessedWasDispatched
  <1>1. Inv => ProcessedWasDispatched
    BY DEF Inv
  <1>2. QED
    BY <1>1, Invariance, PTL

\* Usage rows beyond the first are explained by failed attempts.
THEOREM OneUsageRowPerAttempt == Spec => []MeteredPerAttempt
  <1>1. Inv => MeteredPerAttempt
    BY DEF Inv, Metered, MeteredPerAttempt
  <1>2. QED
    BY <1>1, Invariance, PTL

LEMMA TerminalStep ==
    ASSUME TypeOK, Exclusive, [Next]_vars,
           NEW e \in Events, status[e] \in Terminal, fresh[e], e \notin misreset
    PROVE  status'[e] = status[e]
  <1> USE DEF TypeOK
  <1>1. ASSUME NEW h \in Handlers, HandlerStep(h) \/ HandlerFail(h)
        PROVE  status'[e] = status[e]
    BY <1>1 DEF HandlerStep, InsertRow, InsertConflict, Enqueue, HandlerFail, rowVars, Terminal
  <1>2. ASSUME NEW w \in Workers, WorkerAction(w)
        PROVE  status'[e] = status[e]
    <2>0. wmsg[w] \in Messages /\ wmsg[w].event \in Events
      BY MessageTypes
    <2>1. CASE Claim(w)
      BY <2>0, <2>1 DEF Claim, Claimable, Terminal
    <2>2. CASE MarkProcessed(w) \/ DeadLetter(w) \/ ResetForRetry(w)
      BY <2>0, <2>2 DEF MarkProcessed, DeadLetter, ResetForRetry, Exclusive, Holding,
                        Dispatching, Terminal
    <2>3. CASE \/ ClaimRefused(w) \/ Meter(w) \/ Forward(w) \/ DispatchFails(w)
               \/ ClaimFails(w) \/ LoadForRetry(w) \/ PublishRetry(w) \/ Ack(w)
               \/ ErrorPathFails(w) \/ Crash(w) \/ Redeliver(w)
      BY <2>3 DEF ClaimRefused, Meter, Forward, DispatchFails, ClaimFails, LoadForRetry,
                  PublishRetry, Ack, ErrorPathFails, Crash, Redeliver, rowVars
    <2>4. QED
      BY <1>2, <2>1, <2>2, <2>3 DEF WorkerAction
  <1>3. ASSUME \/ UNCHANGED vars
               \/ \E h \in Handlers, f \in Events : PostClaimKey(h, f) \/ PostRedisDown(h, f)
               \/ \E w \in Workers, m \in Messages : Receive(w, m)
               \/ \E f \in Events : GoStale(f) \/ KeyExpires(f) \/ DeleteConnection(f)
        PROVE  status'[e] = status[e]
    BY <1>3 DEF vars, rowVars, PostClaimKey, PostRedisDown, Receive, GoStale, KeyExpires,
                DeleteConnection
  <1>4. QED
    BY <1>1, <1>2, <1>3, NextCases

\* While the row is fresh and no claim of it failed, "processed" and
\* "dead_letter" are final.
THEOREM TerminalStays == Spec => TerminalIsFinal
  <1>1. Inv /\ [Next]_vars =>
          [\A e \in Events :
            status[e] \in Terminal /\ fresh[e] /\ e \notin misreset
                => status'[e] = status[e]]_vars
    BY TerminalStep DEF Inv
  <1>2. QED
    BY <1>1, Invariance, PTL DEF Spec, TerminalIsFinal

-----------------------------------------------------------------------------
(* The queue implements EventLifecycle.                                    *)

Held(e) == {w \in Workers : wpc[w] \in Holding /\ wmsg[w].event = e}
Phase == [e \in Clean |-> status[e]]
Busy == [e \in Clean |-> Held(e)]

\* A worker about to reset a row loaded it while it held the claim.
Loaded == \A w \in Workers : wpc[w] = "reset" /\ wmsg[w].event \in Clean => wseen[w] # "received"

LEMMA CleanShrinks == [Next]_vars => Clean' \subseteq Clean
  <1>1. ASSUME [Next]_vars
        PROVE  misreset \subseteq misreset' /\ \A e \in Events : fresh'[e] => fresh[e]
    <2>1. CASE \E e \in Events : GoStale(e)
      BY <2>1 DEF GoStale, jobHistory
    <2>2. CASE ~\E e \in Events : GoStale(e)
      BY <1>1, <2>2
      DEF Next, vars, rowVars, jobHistory, PostClaimKey, PostRedisDown, HandlerStep, InsertConflict,
          InsertRow, Enqueue, WorkerStep, Receive, ClaimRefused, Claim, Meter, Forward, MarkProcessed,
          DeadLetter, LoadForRetry, ResetForRetry, PublishRetry, Ack, Faults, HandlerFail,
          DispatchFails, ClaimFails, ErrorPathFails, Crash, Redeliver, KeyExpires, DeleteConnection
    <2>3. QED
      BY <2>1, <2>2
  <1>2. QED
    BY <1>1 DEF Clean

LEMMA LoadedStep == TypeOK /\ Exclusive /\ Loaded /\ [Next]_vars => Loaded'
  <1> SUFFICES ASSUME TypeOK, Exclusive, Loaded, [Next]_vars,
                      NEW v \in Workers, wpc'[v] = "reset", (wmsg[v].event \in Clean)'
               PROVE  wseen'[v] # "received"
    BY DEF Loaded
  <1> USE DEF TypeOK
  <1>1. wmsg'[v].event \in Clean
    BY CleanShrinks
  <1>2. CASE UNCHANGED <<wpc, wmsg, wseen>>
    BY <1>1, <1>2 DEF Loaded
  <1>3. ASSUME NEW w \in Workers, LoadForRetry(w)
        PROVE  wseen'[v] # "received"
    <2>1. CASE v = w
      BY <1>1, <1>3, <2>1, MessageTypes DEF LoadForRetry, workerVars, Exclusive, Clean, Holding
    <2>2. CASE v # w
      BY <1>1, <1>3, <2>2 DEF LoadForRetry, Loaded
    <2>3. QED
      BY <2>1, <2>2
  <1>4. ASSUME NEW w \in Workers, \/ WorkerAction(w) /\ ~LoadForRetry(w)
                                  \/ \E m \in Messages : Receive(w, m)
        PROVE  wseen'[v] # "received"
    <2>1. wpc'[w] # "reset" \/ UNCHANGED <<wpc, wmsg, wseen>>
      BY <1>4 DEF WorkerAction, ClaimRefused, Claim, Meter, Forward, MarkProcessed, DispatchFails,
                  ClaimFails, DeadLetter, ResetForRetry, PublishRetry, Ack, ErrorPathFails, Crash,
                  Redeliver, Receive, Release
    <2>2. v # w => wpc'[v] = wpc[v] /\ wmsg'[v] = wmsg[v] /\ wseen'[v] = wseen[v]
      BY <1>4 DEF WorkerAction, ClaimRefused, Claim, Meter, Forward, MarkProcessed, DispatchFails,
                  ClaimFails, DeadLetter, ResetForRetry, PublishRetry, Ack, ErrorPathFails, Crash,
                  Redeliver, Receive, Release
    <2>3. QED
      BY <1>1, <1>2, <2>1, <2>2 DEF Loaded
  <1>5. QED
    BY <1>2, <1>3, <1>4, NextCases
    DEF vars, workerVars, PostClaimKey, PostRedisDown, HandlerStep, InsertConflict, InsertRow,
        Enqueue, HandlerFail, GoStale, KeyExpires, DeleteConnection

\* How a step may move one event of the lifecycle, in the queue's terms.
Moves(e) ==
    \/ status'[e] = status[e] /\ Held(e)' = Held(e)
    \/ /\ status[e] = "absent" /\ status'[e] \in {"received", "dead_letter"}
       /\ Held(e)' = Held(e)
    \/ /\ status[e] = "received" /\ status'[e] = "processing"
       /\ Held(e) = {} /\ \E w \in Workers : Held(e)' = {w}
    \/ /\ status[e] = "received" /\ status'[e] = "dead_letter"
       /\ Held(e)' = Held(e)
    \/ /\ status'[e] \in {status[e], "processed", "dead_letter", "received"}
       /\ Held(e) # {} /\ Held(e)' = {}

LEMMA OneMoves ==
    ASSUME NEW e, Clean' = Clean, e \in Clean => Moves(e),
           \A d \in Clean \ {e} : status'[d] = status[d] /\ Held(d)' = Held(d)
    PROVE  Lifecycle!Next \/ UNCHANGED <<Phase, Busy>>
  <1>1. CASE e \notin Clean \/ (status'[e] = status[e] /\ Held(e)' = Held(e))
    BY <1>1 DEF Phase, Busy
  <1>2. ASSUME e \in Clean
        PROVE  /\ Phase' = [Phase EXCEPT ![e] = status'[e]]
               /\ Busy' = [Busy EXCEPT ![e] = Held(e)']
               /\ Phase[e] = status[e] /\ Busy[e] = Held(e)
               /\ status'[e] = status[e] => Phase' = Phase
               /\ Held(e)' = Held(e) => Busy' = Busy
    BY <1>2 DEF Phase, Busy
  <1>3. CASE e \in Clean /\ status[e] = "absent" /\ status'[e] \in {"received", "dead_letter"}
             /\ Held(e)' = Held(e)
    BY <1>2, <1>3 DEF Lifecycle!Next, Lifecycle!Store, Phase, Busy, Held
  <1>4. CASE e \in Clean /\ status[e] = "received" /\ status'[e] = "processing" /\ Held(e) = {}
             /\ \E w \in Workers : Held(e)' = {w}
    <2>1. PICK w \in Workers : Held(e)' = {w}
      BY <1>4
    <2>2. Busy[e] = {} /\ Busy' = [Busy EXCEPT ![e] = {w}]
      BY <1>2, <1>4, <2>1
    <2>3. Phase[e] = "received" /\ Phase' = [Phase EXCEPT ![e] = "processing"]
      BY <1>2, <1>4
    <2>4. Lifecycle!Claim(e, w)
      BY <2>2, <2>3 DEF Lifecycle!Claim, Phase, Busy, Held
    <2>5. e \in DOMAIN Phase
      BY <1>4 DEF Phase
    <2>6. QED
      BY <2>4, <2>5 DEF Lifecycle!Next, Phase
  <1>5. CASE e \in Clean /\ status[e] = "received" /\ status'[e] = "dead_letter"
             /\ Held(e)' = Held(e)
    BY <1>2, <1>5 DEF Lifecycle!Next, Lifecycle!Refuse, Phase, Busy, Held
  <1>6. CASE /\ e \in Clean /\ Held(e) # {} /\ Held(e)' = {}
             /\ status'[e] \in {status[e], "processed", "dead_letter", "received"}
    BY <1>2, <1>6 DEF Lifecycle!Next, Lifecycle!LetGo, Phase, Busy, Held
  <1>7. QED
    BY <1>1, <1>3, <1>4, <1>5, <1>6 DEF Moves

LEMMA OneDropped ==
    ASSUME NEW e \in Clean, Clean' = Clean \ {e},
           \A d \in Clean \ {e} : status'[d] = status[d] /\ Held(d)' = Held(d)
    PROVE  Lifecycle!Next
  <1>1. /\ Phase' = [d \in DOMAIN Phase \ {e} |-> Phase[d]]
        /\ Busy' = [d \in DOMAIN Busy \ {e} |-> Busy[d]]
    BY DEF Phase, Busy
  <1>2. QED
    BY <1>1 DEF Lifecycle!Next, Lifecycle!Drop, Phase, Busy, Held

\* A worker's step moves its own event only.
LEMMA OwnEvent ==
    ASSUME TypeOK, NEW w \in Workers, wmsg' = wmsg, \A v \in Workers \ {w} : wpc'[v] = wpc[v]
    PROVE  /\ \A d \in Events \ {wmsg[w].event} : Held(d)' = Held(d)
           /\ (wpc'[w] \in Holding <=> wpc[w] \in Holding) =>
                  Held(wmsg[w].event)' = Held(wmsg[w].event)
           /\ wpc'[w] \notin Holding => Held(wmsg[w].event)' = Held(wmsg[w].event) \ {w}
           /\ wpc'[w] \in Holding => Held(wmsg[w].event)' = Held(wmsg[w].event) \union {w}
  BY DEF Held

\* While its event is clean, a worker that holds it is alone and has claimed it.
LEMMA HeldAlone ==
    ASSUME TypeOK, Exclusive, NEW e \in Clean
    PROVE  /\ \A w \in Held(e) : Held(e) = {w}
           /\ Held(e) # {} => status[e] = "processing"
  BY DEF Exclusive, Clean, Held

LEMMA HandlerMoves ==
    ASSUME TypeOK, NEW h \in Handlers, HandlerStep(h) \/ HandlerFail(h)
    PROVE  Lifecycle!Next \/ UNCHANGED <<Phase, Busy>>
  <1> DEFINE e == hev[h]
  <1>1. e \in Events /\ UNCHANGED <<Clean, Held(e)>> /\ \A d \in Events : Held(d)' = Held(d)
    BY DEF TypeOK, HandlerStep, InsertConflict, InsertRow, Enqueue, HandlerFail, Clean, Held,
           rowVars, workerVars, jobHistory
  <1>2. \A d \in Events \ {e} : status'[d] = status[d]
    BY DEF TypeOK, HandlerStep, InsertConflict, InsertRow, Enqueue, HandlerFail, rowVars
  <1>3. \/ status'[e] = status[e]
        \/ status[e] = "absent" /\ status'[e] \in {"received", "dead_letter"}
    BY <1>1 DEF TypeOK, HandlerStep, InsertConflict, InsertRow, Enqueue, HandlerFail, rowVars
  <1>4. Moves(e)
    BY <1>1, <1>3 DEF Moves
  <1>5. QED
    BY <1>1, <1>2, <1>4, OneMoves DEF Clean

LEMMA WorkerMoves ==
    ASSUME TypeOK, Exclusive, Loaded, NEW w \in Workers, WorkerAction(w), ~ClaimFails(w)
    PROVE  Lifecycle!Next \/ UNCHANGED <<Phase, Busy>>
  <1> DEFINE e == wmsg[w].event
  <1> USE DEF TypeOK
  <1>0. e \in Events
    BY MessageTypes
  <1>1. /\ Clean' = Clean /\ wmsg' = wmsg /\ \A v \in Workers \ {w} : wpc'[v] = wpc[v]
        /\ \A d \in Events \ {e} : status'[d] = status[d]
    BY <1>0 DEF WorkerAction, ClaimRefused, Claim, Meter, Forward, MarkProcessed, DispatchFails,
                DeadLetter, LoadForRetry, ResetForRetry, PublishRetry, Ack, ErrorPathFails, Crash,
                Redeliver, Release, Clean, rowVars, jobHistory, workerVars
  <1>2. /\ \A d \in Events \ {e} : Held(d)' = Held(d)
        /\ (wpc'[w] \in Holding <=> wpc[w] \in Holding) => Held(e)' = Held(e)
        /\ wpc'[w] \notin Holding => Held(e)' = Held(e) \ {w}
        /\ wpc'[w] \in Holding => Held(e)' = Held(e) \union {w}
    BY <1>1, OwnEvent
  <1>3. ASSUME e \in Clean, wpc[w] \in Holding
        PROVE  Held(e) = {w} /\ status[e] = "processing"
    BY <1>3, HeldAlone DEF Held
  <1>4. ASSUME e \in Clean PROVE Moves(e)
    <2>1. CASE Claim(w)
      <3>1. status[e] = "received" /\ Held(e) = {} /\ wpc[w] \notin Holding
        BY <1>0, <1>4, <2>1, HeldAlone DEF Claim, Claimable, Clean, Holding, Dispatching
      <3>2. \/ status'[e] = "dead_letter" /\ wpc'[w] = "idle"
            \/ status'[e] = "processing" /\ wpc'[w] = "meter"
        BY <1>0, <2>1 DEF Claim, Release
      <3>3. QED
        BY <1>2, <3>1, <3>2 DEF Moves, Holding, Dispatching
    <2>2. CASE MarkProcessed(w) \/ DeadLetter(w)
      <3>1. wpc[w] \in Holding /\ wpc'[w] = "idle" /\ status'[e] \in {"processed", "dead_letter"}
        BY <1>0, <2>2 DEF MarkProcessed, DeadLetter, Release, Holding, Dispatching
      <3>2. QED
        BY <1>2, <1>3, <1>4, <3>1 DEF Moves, Holding, Dispatching
    <2>3. CASE ResetForRetry(w)
      <3>1. wpc[w] \in Holding /\ wpc'[w] = "publish" /\ status'[e] = "received"
        BY <1>0, <1>4, <2>3 DEF ResetForRetry, Loaded, Holding
      <3>2. QED
        BY <1>2, <1>3, <1>4, <3>1 DEF Moves, Holding, Dispatching
    <2>4. CASE LoadForRetry(w)
      <3>1. wpc[w] \in Holding /\ status' = status
        BY <2>4 DEF LoadForRetry, Holding, rowVars
      <3>2. wpc'[w] = "reset"
        BY <1>3, <1>4, <2>4, <3>1 DEF LoadForRetry, Terminal
      <3>3. QED
        BY <1>2, <3>1, <3>2 DEF Moves, Holding
    <2>5. CASE Meter(w) \/ Forward(w) \/ DispatchFails(w) \/ Redeliver(w)
      <3>1. status' = status /\ (wpc'[w] \in Holding <=> wpc[w] \in Holding)
        BY <2>5 DEF Meter, Forward, DispatchFails, Redeliver, Holding, Dispatching, rowVars
      <3>2. QED
        BY <1>2, <3>1 DEF Moves
    <2>6. CASE ClaimRefused(w) \/ PublishRetry(w) \/ Ack(w) \/ ErrorPathFails(w) \/ Crash(w)
      <3>1. status' = status /\ wpc'[w] \in {"idle", "ack"}
        BY <2>6 DEF ClaimRefused, PublishRetry, Ack, ErrorPathFails, Crash, Release, rowVars
      <3>2. CASE wpc[w] \in Holding
        BY <1>2, <1>3, <1>4, <3>1, <3>2 DEF Moves, Holding, Dispatching
      <3>3. CASE wpc[w] \notin Holding
        BY <1>2, <3>1, <3>3 DEF Moves, Holding, Dispatching
      <3>4. QED
        BY <3>2, <3>3
    <2>7. QED
      BY <2>1, <2>2, <2>3, <2>4, <2>5, <2>6 DEF WorkerAction
  <1>5. QED
    BY <1>0, <1>1, <1>2, <1>4, OneMoves DEF Clean

\* A step that makes an event one the queue no longer answers for.
LEMMA DropMoves ==
    ASSUME TypeOK,
           (\E w \in Workers : ClaimFails(w)) \/ (\E e \in Events : GoStale(e))
    PROVE  Lifecycle!Next \/ UNCHANGED <<Phase, Busy>>
  <1> USE DEF TypeOK
  <1>1. ASSUME NEW e \in Events, Clean' = Clean \ {e}, UNCHANGED status,
               \A d \in Events \ {e} : Held(d)' = Held(d)
        PROVE  Lifecycle!Next \/ UNCHANGED <<Phase, Busy>>
    <2>1. CASE e \in Clean
      BY <1>1, <2>1, OneDropped DEF Clean
    <2>2. CASE e \notin Clean
      BY <1>1, <2>2 DEF Clean, Phase, Busy
    <2>3. QED
      BY <2>1, <2>2
  <1>2. ASSUME NEW w \in Workers, ClaimFails(w)
        PROVE  Lifecycle!Next \/ UNCHANGED <<Phase, Busy>>
    <2> DEFINE e == wmsg[w].event
    <2>1. /\ e \in Events /\ Clean' = Clean \ {e} /\ UNCHANGED <<status, wmsg>>
          /\ \A v \in Workers \ {w} : wpc'[v] = wpc[v]
      BY <1>2, MessageTypes DEF ClaimFails, Clean, rowVars
    <2>2. \A d \in Events \ {e} : Held(d)' = Held(d)
      BY <2>1, OwnEvent
    <2>3. QED
      BY <1>1, <2>1, <2>2
  <1>3. ASSUME NEW e \in Events, GoStale(e)
        PROVE  Lifecycle!Next \/ UNCHANGED <<Phase, Busy>>
    BY <1>1, <1>3 DEF GoStale, Clean, Held, workerVars, jobHistory
  <1>4. QED
    BY <1>2, <1>3

LEMMA LifecycleStep ==
    ASSUME TypeOK, Exclusive, Loaded, [Next]_vars
    PROVE  Lifecycle!Next \/ UNCHANGED <<Phase, Busy>>
  <1> USE DEF TypeOK
  <1>1. CASE \/ UNCHANGED vars
             \/ \E h \in Handlers, e \in Events : PostClaimKey(h, e) \/ PostRedisDown(h, e)
             \/ \E e \in Events : KeyExpires(e) \/ DeleteConnection(e)
    BY <1>1 DEF vars, rowVars, workerVars, jobHistory, PostClaimKey, PostRedisDown, KeyExpires,
                DeleteConnection, Phase, Busy, Clean, Held
  <1>2. ASSUME NEW w \in Workers, NEW m \in Messages, Receive(w, m)
        PROVE  UNCHANGED <<Phase, Busy>>
    <2>1. UNCHANGED Clean /\ UNCHANGED status /\ \A e \in Events : Held(e)' = Held(e)
      BY <1>2 DEF Receive, Held, Holding, Dispatching, rowVars, jobHistory, Clean
    <2>2. QED
      BY <2>1 DEF Phase, Busy, Clean
  <1>3. QED
    BY <1>1, <1>2, HandlerMoves, WorkerMoves, DropMoves, NextCases DEF WorkerAction

\* The inbound queue implements the lifecycle of its events: whatever the
\* broker duplicates and whichever worker dies, a fresh event is claimed by one
\* worker at a time and keeps the outcome that worker gives it.
THEOREM QueueImplementsLifecycle == Spec => QueueIsLifecycle
  <1>1. Init => Lifecycle!Init /\ Loaded
    <2>1. Init => Clean = Events /\ \A e \in Events : Held(e) = {}
      BY DEF Init, Clean, Held, Holding, Dispatching
    <2>2. QED
      BY <2>1 DEF Init, Lifecycle!Init, Loaded, Held
  <1>2. Inv => TypeOK /\ Exclusive
    BY DEF Inv
  <1>3. TypeOK /\ Exclusive /\ Loaded /\ [Next]_vars => Loaded'
    BY LoadedStep
  <1>4. TypeOK /\ Exclusive /\ Loaded /\ [Next]_vars => [Lifecycle!Next]_<<Phase, Busy>>
    BY LifecycleStep
  <1>5. QED
    BY <1>1, <1>2, <1>3, <1>4, Invariance, PTL
    DEF Spec, QueueIsLifecycle, Lifecycle!Spec, Phase, Busy, Held

-----------------------------------------------------------------------------
(* How far "persist, then 200" (AnsweredIsPersisted) holds.                *)

\* The event has its row, or a request is about to insert it.
Persisting(e) ==
    status[e] # "absent" \/ \E h \in Handlers : hpc[h] = "insert" /\ hev[h] = e

AnsweredIsPersisting == faultsLeft = MaxFaults => \A e \in answered : Persisting(e)

\* So has every event whose Redis key is set, as long as nothing has failed.
Keyed ==
    /\ faultsLeft <= MaxFaults
    /\ faultsLeft = MaxFaults => \A e \in answered \union dedupKeys : Persisting(e)

LEMMA KeyedStep == TypeOK /\ Stored /\ Keyed /\ [Next]_vars => Keyed'
  <1> SUFFICES ASSUME TypeOK, Stored, Keyed, [Next]_vars PROVE Keyed'
    OBVIOUS
  <1> USE DEF TypeOK
  <1>1. CASE Fault
    BY <1>1, BoundsAssumption DEF Fault, Keyed
  <1>2. ASSUME faultsLeft' = faultsLeft,
               \A e \in Events : Persisting(e) => Persisting(e)',
               \A e \in (answered \union dedupKeys)' \ (answered \union dedupKeys) :
                   Persisting(e)'
        PROVE  Keyed'
    BY <1>2 DEF Keyed
  <1>3. ASSUME NEW h \in Handlers, NEW e \in Events, PostClaimKey(h, e)
        PROVE  Keyed'
    <2>1. CASE e \in dedupKeys
      BY <1>3, <2>1 DEF PostClaimKey, Post, rowVars, Keyed, Persisting
    <2>2. CASE e \notin dedupKeys
      <3>1. faultsLeft' = faultsLeft /\ UNCHANGED <<status, answered>>
            /\ dedupKeys' = dedupKeys \union {e}
            /\ hpc[h] = "idle" /\ hpc' = [hpc EXCEPT ![h] = "insert"]
            /\ hev' = [hev EXCEPT ![h] = e]
        BY <1>3, <2>2 DEF PostClaimKey, Post, rowVars
      <3>2. Persisting(e)' /\ \A d \in Events : Persisting(d) => Persisting(d)'
        BY <3>1 DEF Persisting
      <3>3. QED
        BY <1>2, <3>1, <3>2
    <2>3. QED
      BY <2>1, <2>2
  <1>4. ASSUME NEW h \in Handlers, HandlerStep(h)
        PROVE  Keyed'
    <2>1. /\ UNCHANGED <<dedupKeys, faultsLeft, hev>>
          /\ answered' \subseteq answered \union {hev[h]}
          /\ status'[hev[h]] # "absent"
          /\ \A e \in Events : status[e] # "absent" => status'[e] # "absent"
          /\ \A g \in Handlers \ {h} : hpc'[g] = hpc[g]
      BY <1>4 DEF HandlerStep, InsertConflict, InsertRow, Enqueue, rowVars, bounds, Stored
    <2>2. \A e \in Events : Persisting(e) => Persisting(e)'
      BY <2>1 DEF Persisting
    <2>3. Persisting(hev[h])'
      BY <2>1 DEF Persisting
    <2>4. QED
      BY <1>2, <2>1, <2>2, <2>3
  <1>5. ASSUME NEW w \in Workers, WorkerStep(w) \/ DispatchFails(w)
        PROVE  Keyed'
    <2>1. /\ UNCHANGED <<dedupKeys, faultsLeft, hpc, hev, answered>>
          /\ \A e \in Events : status[e] # "absent" => status'[e] # "absent"
      BY <1>5 DEF WorkerStep, Receive, ClaimRefused, Claim, Meter, Forward, MarkProcessed,
                  DeadLetter, LoadForRetry, ResetForRetry, PublishRetry, Ack, DispatchFails,
                  rowVars, handlerVars, bounds, httpHistory
    <2>2. \A e \in Events : Persisting(e) => Persisting(e)'
      BY <2>1 DEF Persisting
    <2>3. QED
      BY <1>2, <2>1, <2>2
  <1>6. CASE UNCHANGED vars \/ \E e \in Events : GoStale(e)
    BY <1>6 DEF vars, GoStale, rowVars, handlerVars, bounds, httpHistory, Keyed, Persisting
  <1>7. QED
    BY <1>1, <1>3, <1>4, <1>5, <1>6
    DEF Next, Faults, PostRedisDown, HandlerFail, ClaimFails, ErrorPathFails, Crash, Redeliver,
        KeyExpires, DeleteConnection

\* As long as no request, worker or Redis has failed, an event that a provider
\* was answered 200 for is stored or about to be: only a fault between the key
\* and the commit can leave it without a row for good.
THEOREM PersistedWithoutFaults == Spec => []AnsweredIsPersisting
  <1>1. Init => Keyed
    BY BoundsAssumption DEF Init, Keyed
  <1>2. TypeOK /\ Stored /\ Keyed /\ [Next]_vars => Keyed'
    BY KeyedStep
  <1>3. Inv => TypeOK /\ Stored
    BY DEF Inv
  <1>4. Keyed => AnsweredIsPersisting
    BY DEF Keyed, AnsweredIsPersisting
  <1>5. QED
    BY <1>1, <1>2, <1>3, <1>4, Invariance, PTL DEF Spec
=============================================================================
