---------------------------- MODULE HubOutbound ----------------------------
(***************************************************************************)
(* Outbound actions of one connection of the Integration Hub: Celery jobs  *)
(* (execute_hub_adapter_action_task) that a Redis key lets run one at a    *)
(* time.  The key is SET NX EX; without Redis a job runs all the same.     *)
(* The key carries no owner: outKey names one for the properties only.     *)
(* A job asks the provider, meters the call under the idempotency key of   *)
(* its action and writes a row about the attempt, in one transaction.      *)
(*                                                                         *)
(* Time: the key outlives a running job (TTL 90 s, soft timeout 60 s), so  *)
(* it expires only when the job that set it no longer runs.                *)
(***************************************************************************)
EXTENDS Naturals

CONSTANTS
    Jobs,          \* the queued jobs of the connection
    OutCasts,      \* bound: sets of jobs that take part in a behaviour together
    ActionOf,      \* the action (idempotency key) of each job
    NoJob,         \* nobody holds the key
    OutMaxRetries, \* max_retries of the task: 12 in the code
    MaxOutFaults   \* bound: crashes, broken transactions and Redis outages

ASSUME OutJobsAssumption == NoJob \notin Jobs /\ OutCasts \subseteq SUBSET Jobs
ASSUME OutBoundsAssumption == OutMaxRetries \in Nat /\ MaxOutFaults \in Nat

Actions == {ActionOf[j] : j \in Jobs}

VARIABLES
    outPc,      \* what each job is doing, or how it ended
    outTries,   \* retries used
    outKey,     \* the job that set the Redis key
    outRedis,   \* whether Redis answers
    outBlocked, \* the connection is revoked or expired
    outFate,    \* how a job goes on once it has released the key
    outStatus,  \* status of the row a job is going to write
    outUsage,   \* the job's transaction inserts a usage row
    outRows,    \* statuses of the committed rows of each job
    outMeter,   \* committed usage rows of each action
    outFaults,
    outOpen,    \* history: jobs that ran without the key
    outLate     \* history: jobs that hit the soft timeout

outLock == <<outKey, outRedis>>
outRecord == <<outRows, outMeter>>
OutVars == <<outPc, outTries, outLock, outBlocked, outFate, outStatus, outUsage, outRecord,
             outFaults, outOpen, outLate>>

Running == {"checking", "calling", "answered", "persist", "release"}
Ended   == {"ok", "failed", "dropped"}
Statuses == {"ok", "error", "rate_limited"}

OutTypeOK ==
    /\ outPc \in [Jobs -> {"queued"} \union Running \union Ended]
    /\ outTries \in [Jobs -> 0..OutMaxRetries]
    /\ outKey \in Jobs \union {NoJob}
    /\ outRedis \in BOOLEAN /\ outBlocked \in BOOLEAN
    /\ outFate \in [Jobs -> {"ok", "failed", "retry"}]
    /\ outStatus \in [Jobs -> Statuses]
    /\ outUsage \in [Jobs -> BOOLEAN]
    /\ outRows \in [Jobs -> SUBSET Statuses]
    /\ outMeter \in [Actions -> Nat]
    /\ outFaults \in 0..MaxOutFaults
    /\ outOpen \subseteq Jobs /\ outLate \subseteq Jobs

OutInit ==
    /\ \E cast \in OutCasts :
          outPc = [j \in Jobs |-> IF j \in cast THEN "queued" ELSE "dropped"]
    /\ outTries = [j \in Jobs |-> 0]
    /\ outKey = NoJob /\ outRedis = TRUE /\ outBlocked = FALSE
    /\ outFate = [j \in Jobs |-> "ok"]
    /\ outStatus = [j \in Jobs |-> "ok"]
    /\ outUsage = [j \in Jobs |-> FALSE]
    /\ outRows = [j \in Jobs |-> {}]
    /\ outMeter = [a \in Actions |-> 0]
    /\ outFaults = MaxOutFaults
    /\ outOpen = {} /\ outLate = {}

OutGoto(j, pc) == outPc' = [outPc EXCEPT ![j] = pc]
OutDraft(j, status, fate) ==
    /\ outStatus' = [outStatus EXCEPT ![j] = status]
    /\ outFate' = [outFate EXCEPT ![j] = fate]
\* The job's local state is gone.
Forget(j) ==
    /\ OutDraft(j, "ok", "ok")
    /\ outUsage' = [outUsage EXCEPT ![j] = FALSE]
OutFault == outFaults > 0 /\ outFaults' = outFaults - 1

\* Mutant: the attempts are not counted.
RetryForever(j) == OutGoto(j, "queued") /\ UNCHANGED outTries

\* Mutant: one retry too many.
RetryOnceMore(j) ==
    IF outTries[j] <= OutMaxRetries
    THEN outTries' = [outTries EXCEPT ![j] = @ + 1] /\ OutGoto(j, "queued")
    ELSE OutGoto(j, "dropped") /\ UNCHANGED outTries

\* self.retry: at the limit the original exception ends the job.
Retry(j) ==
    IF outTries[j] < OutMaxRetries
    THEN outTries' = [outTries EXCEPT ![j] = @ + 1] /\ OutGoto(j, "queued")
    ELSE OutGoto(j, "dropped") /\ UNCHANGED outTries

-----------------------------------------------------------------------------
(* try_acquire_outbound_lock.                                              *)

Acquire(j) ==
    /\ outPc[j] = "queued" /\ outRedis /\ outKey = NoJob
    /\ outKey' = j
    /\ OutGoto(j, "checking")
    /\ UNCHANGED <<outTries, outRedis, outBlocked, outFate, outStatus, outUsage, outRecord,
                   outFaults, outOpen, outLate>>

Busy(j) ==
    /\ outPc[j] = "queued" /\ outRedis /\ outKey # NoJob
    /\ Retry(j)
    /\ UNCHANGED <<outLock, outBlocked, outFate, outStatus, outUsage, outRecord, outFaults,
                   outOpen, outLate>>

FailOpen(j) ==
    /\ outPc[j] = "queued" /\ ~outRedis
    /\ OutGoto(j, "checking")
    /\ outOpen' = outOpen \union {j}
    /\ UNCHANGED <<outTries, outLock, outBlocked, outFate, outStatus, outUsage, outRecord,
                   outFaults, outLate>>

\* Mutant: a TTL shorter than the job.
ExpireEarly ==
    /\ outKey # NoJob
    /\ outKey' = NoJob
    /\ UNCHANGED <<outPc, outTries, outRedis, outBlocked, outFate, outStatus, outUsage,
                   outRecord, outFaults, outOpen, outLate>>

\* The TTL of a key whose job is gone runs out.
Expire ==
    /\ outKey # NoJob /\ outPc[outKey] \notin Running
    /\ outKey' = NoJob
    /\ UNCHANGED <<outPc, outTries, outRedis, outBlocked, outFate, outStatus, outUsage,
                   outRecord, outFaults, outOpen, outLate>>

-----------------------------------------------------------------------------
(* _execute_adapter_action.                                                *)

\* assert_connection_allows_outbound: a refusal leaves no row.
CheckConnection(j) ==
    /\ outPc[j] = "checking"
    /\ IF outBlocked
       THEN /\ OutGoto(j, "release")
            /\ outFate' = [outFate EXCEPT ![j] = "failed"]
       ELSE OutGoto(j, "calling") /\ UNCHANGED outFate
    /\ UNCHANGED <<outTries, outLock, outBlocked, outStatus, outUsage, outRecord, outFaults,
                   outOpen, outLate>>

Answered(j) ==
    /\ outPc[j] = "calling"
    /\ OutDraft(j, "ok", "ok")
    /\ OutGoto(j, "answered")
    /\ UNCHANGED <<outTries, outLock, outBlocked, outUsage, outRecord, outFaults, outOpen,
                   outLate>>

CallFails(j) ==
    /\ outPc[j] = "calling"
    /\ OutDraft(j, "error", "failed") \/ OutDraft(j, "rate_limited", "retry")
    /\ OutGoto(j, "persist")
    /\ UNCHANGED <<outTries, outLock, outBlocked, outUsage, outRecord, outFaults, outOpen,
                   outLate>>

\* Mutant: usage is inserted without looking for its key.
MeterAgain(j) ==
    /\ outPc[j] = "answered"
    /\ outUsage' = [outUsage EXCEPT ![j] = TRUE]
    /\ OutGoto(j, "persist")
    /\ UNCHANGED <<outTries, outLock, outBlocked, outFate, outStatus, outRecord, outFaults,
                   outOpen, outLate>>

\* record_hub_usage: nothing for a key that is there; the insert waits for a
\* transaction that has inserted the same key.
Meter(j) ==
    /\ outPc[j] = "answered"
    /\ \A i \in Jobs : ActionOf[i] = ActionOf[j] => ~outUsage[i]
    /\ outUsage' = [outUsage EXCEPT ![j] = outMeter[ActionOf[j]] = 0]
    /\ OutGoto(j, "persist")
    /\ UNCHANGED <<outTries, outLock, outBlocked, outFate, outStatus, outRecord, outFaults,
                   outOpen, outLate>>

\* The soft timeout cancels the call: no "except" sees a CancelledError, so the
\* "finally" writes a row that still says ok.
SoftTimeout(j) ==
    /\ outPc[j] = "calling"
    /\ OutDraft(j, "ok", "failed")
    /\ OutGoto(j, "persist")
    /\ outLate' = outLate \union {j}
    /\ UNCHANGED <<outTries, outLock, outBlocked, outUsage, outRecord, outFaults, outOpen>>

\* persist_agent_action and the commit of the row and the usage.
Persist(j) ==
    /\ outPc[j] = "persist"
    /\ outRows' = [outRows EXCEPT ![j] = @ \union {outStatus[j]}]
    /\ outMeter' = [outMeter EXCEPT ![ActionOf[j]] = IF outUsage[j] THEN @ + 1 ELSE @]
    /\ outUsage' = [outUsage EXCEPT ![j] = FALSE]
    /\ OutGoto(j, "release")
    /\ UNCHANGED <<outTries, outLock, outBlocked, outFate, outStatus, outFaults, outOpen,
                   outLate>>

\* The transaction fails: neither row nor usage is there.
PersistFails(j) ==
    /\ outPc[j] \in {"answered", "persist"}
    /\ OutFault
    /\ outUsage' = [outUsage EXCEPT ![j] = FALSE]
    /\ outFate' = [outFate EXCEPT ![j] = "failed"]
    /\ OutGoto(j, "release")
    /\ UNCHANGED <<outTries, outLock, outBlocked, outStatus, outRecord, outOpen, outLate>>

\* release_outbound_lock: deletes the key whoever has set it.
Release(j) ==
    /\ outPc[j] = "release"
    /\ outKey' = IF outRedis THEN NoJob ELSE outKey
    /\ IF outFate[j] = "retry" THEN Retry(j)
       ELSE OutGoto(j, outFate[j]) /\ UNCHANGED outTries
    /\ Forget(j)
    /\ UNCHANGED <<outRedis, outBlocked, outRecord, outFaults, outOpen, outLate>>

-----------------------------------------------------------------------------
(* Faults, and the user's revocation.                                      *)

\* The worker is killed: the job is delivered again, the key stays.
OutCrash(j) ==
    /\ outPc[j] \in Running
    /\ OutFault
    /\ OutGoto(j, "queued")
    /\ Forget(j)
    /\ UNCHANGED <<outTries, outLock, outBlocked, outRecord, outOpen, outLate>>

RedisDown ==
    /\ outRedis /\ OutFault
    /\ outRedis' = FALSE
    /\ UNCHANGED <<outPc, outTries, outKey, outBlocked, outFate, outStatus, outUsage,
                   outRecord, outOpen, outLate>>

RedisUp ==
    /\ ~outRedis
    /\ outRedis' = TRUE
    /\ UNCHANGED <<outPc, outTries, outKey, outBlocked, outFate, outStatus, outUsage,
                   outRecord, outFaults, outOpen, outLate>>

Block ==
    /\ ~outBlocked
    /\ outBlocked' = TRUE
    /\ UNCHANGED <<outPc, outTries, outLock, outFate, outStatus, outUsage, outRecord,
                   outFaults, outOpen, outLate>>

-----------------------------------------------------------------------------
OutStep(j) ==
    \/ Acquire(j) \/ Busy(j) \/ FailOpen(j)
    \/ CheckConnection(j) \/ Answered(j) \/ CallFails(j) \/ Meter(j) \/ SoftTimeout(j)
    \/ Persist(j) \/ Release(j)

OutNext ==
    \/ \E j \in Jobs : OutStep(j) \/ PersistFails(j) \/ OutCrash(j)
    \/ Expire \/ RedisDown \/ RedisUp \/ Block

\* A worker goes on with its job, Redis comes back, a TTL runs out.  Crashes,
\* outages and failing transactions need not happen.
OutFairness ==
    /\ \A j \in Jobs : WF_OutVars(OutStep(j))
    /\ WF_OutVars(Expire) /\ WF_OutVars(RedisUp)

OutSpec == OutInit /\ [][OutNext]_OutVars

-----------------------------------------------------------------------------
\* Two jobs of a connection run at a time only after a job has run without the
\* key because Redis was down: neither crashes nor retries nor the release
\* without an owner are enough.
OverlapOnlyFailOpen ==
    outOpen = {} =>
        \A i, j \in Jobs : outPc[i] \in Running /\ outPc[j] \in Running => i = j

\* However often jobs of one action reach the provider, it is metered once at
\* most; a metered action has a row that says ok; and a row that says ok is
\* metered, unless that job was cut off by the timeout.
MeteredWithRow ==
    /\ \A a \in Actions :
         /\ outMeter[a] <= 1
         /\ outMeter[a] = 1 => \E j \in Jobs : ActionOf[j] = a /\ "ok" \in outRows[j]
    /\ \A j \in Jobs :
         "ok" \in outRows[j] => outMeter[ActionOf[j]] = 1 \/ j \in outLate

\* Every job ends, and the key does not stay behind a worker that died.
OutboundSettles ==
    <>[](outKey = NoJob /\ \A j \in Jobs : outPc[j] \in Ended)
=============================================================================
