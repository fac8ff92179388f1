# TLA+ specifications of the MP.AI backend

MP.AI (this repository) is a multi-tenant platform for AI bots: a FastAPI backend, Celery
workers, PostgreSQL, Redis, a Chroma vector store, a Node service for WhatsApp sessions and a
Next.js frontend.  What can go wrong here goes wrong between processes: a webhook that is
delivered twice, a worker that dies between two commits, two sessions of SQLAlchemy that hold
copies of the same row.  These specifications model those parts, check them with TLC and prove
the safety properties with TLAPS.

Paths below are relative to `src/backend/app/` unless they say otherwise.

## 1. Inventory

| Part | State | Operations | Hard behaviour | What makes it correct |
|---|---|---|---|---|
| **Integration Hub, inbound** (`services/integration_hub/webhook_dedup.py`, `queue.py`, the provider webhooks, `tasks/hub_queue_tasks.py`) | rows of `integration_webhook_events`, Redis keys `webhook_dedup:*`, Celery jobs | accept, enqueue, claim, dispatch, mark, reset for retry, dead-letter | duplicated posts and jobs, crashes between commit and enqueue, stale claims, retries | each event dispatched by one worker at a time, none lost, retries end, terminal states final |
| **Organization money** (`services/billing/wallet_service.py`, `services/wallet_service.py`, `services/bot_billing_service.py`, `services/billing_service.py`) | `organization_wallets.balance`, `subscriptions.balance`, `credit_transactions`, `bots.wallet_balance` | charge, credit, deposit, transfer to a bot, charge of a bot, receipt, plan, correction | row locks taken after the row was read; locks in two orders; resubmitted charges and receipts | no negative balance, a reference moves money once, balance equals ledger |
| **Card payments** (`services/billing/payment_billing_service.py`, `stripe_service.py`, `tiptop_service.py`) | `payment_invoices`, the ledger rows they cause | top-up, checkout, saved-card charge, provider webhooks, settlement | webhook before commit, overlapping webhooks, two commits, id mismatch | credits backed by payments, each settled exactly once and in the end |
| Saved cards (`payment_method_service.py`) | default token per organization | upsert, read | two inserts at a time | one default |
| **Hub, outbound** (`queue.py`, `hub_queue_tasks.py`, `agent_actions.py`) | Redis lock per connection, agent actions, usage rows | acquire, check, call, meter, persist, release, retry | lock expiry, release by a non-owner, Redis down, soft timeout | one call per connection at a time, each metered once |
| **Hub, OAuth** (`integration_hub/oauth.py`, `service.py`, `oauth_refresh_task.py`, `integration_health_task.py`) | connection status, sealed tokens, vault rows | connect, refresh, disconnect, uninstall, health check | one-time refresh tokens, locks in two orders, disconnect or reconnect during a refresh | a live connection keeps a usable token, a wiped one stays wiped |
| Token wallet (`token_wallet_service.py`) | `balance_tokens`, `wallet_transactions` | top up, debit | debit after the answer was served | no negative balance, idempotent keys |
| Usage and quotas (`usage_service.py`, `quota_service.py`) | `usage_events` | record, check | check without lock | limits hold |
| Stripe subscriptions (`stripe_billing_service.py`) | plan, status, period | webhook events | out-of-order events | plan follows the last event |
| LLM gateway (`services/llm/`) | circuit breakers of one gateway object | complete with fallbacks | provider failures; every caller builds a new gateway for one completion, so no breaker lives to the next | some provider answers or the caller's fallback does |
| **Flow publication** (`bot_management_service.py`, `flow_version_service.py`, `core/flow_cache.py`) | flow row, revisions, per-process cache, Redis version | save, publish, restore, adopt, load | invalidation before commit, version read after load | the latest revision is live and every process comes to serve it |
| **Flow engine** (`services/flow_parser.py`, `webhook_service.py`), sandbox | stored step, turn variables | locate, leave, enter, hop | step limit, loops, a graph published between turns | the client's word answers what the client saw; no call twice in a turn |
| **Inbound messages** (`api/endpoints/webhooks.py`, `workers/webhook_workers.py`, `telegram_poll_task.py`, `chat_service.py`) | dedup keys, jobs, conversations, operators' pause | claim, enqueue, take the turn, answer, commit, pause, release | claim before enqueue, answer before commit, pause written from a stale copy | no message lost or answered twice, a pause holds |
| Channels, messengers | tokens, webhooks | send, set webhook | external failures | — |
| **Authentication** (`auth_token_service.py`, `auth_service.py`, `core/rbac.py`) | refresh tokens, reset links | issue, rotate, revoke, reset | two rotations of one token, a rotation beside a reset | a token is used once, a revoked family stays revoked |
| Teams (`team_service.py`) | invitations, seats | invite, accept | seat check without lock | seats within the plan |
| Native CRM (`services/crm/`) | deals, rules, webhook subscriptions | move, evaluate, execute, dispatch | rules that trigger rules | chains end |
| Knowledge base, media, WebSockets, analytics, administration | documents, jobs, connections | ingest, generate, broadcast, report | external services | — |
| WhatsApp service (`src/whatsapp-service/server.js`) | session map, sockets | start, reconnect, stop | events of a replaced socket | one live socket per bot |
| Frontend, deployment | — | — | — | — |

How they interact: messengers and providers post to HTTP handlers; handlers write PostgreSQL
and hand jobs to Celery through Redis; workers run the flow engine, which calls the LLM gateway,
charges the organization wallet and answers through a channel; payments settle into the wallet
through webhooks; the Hub's outbound actions are called from flows and agents and run as jobs.
Almost all shared state is rows of PostgreSQL and keys of Redis; no two parts share memory
except inside one process.

## 2. Modules

| Module | Models | Runs | Proofs |
|---|---|---|---|
| `HubWebhookQueue` | the Hub's inbound queue | `HubSafety`, `HubLiveness`, `HubReclaim`, `HubPersist`, `HubMeter` (through `MCHubWebhookQueue`) | `HubWebhookQueue_proofs` |
| `EventLifecycle` | abstract: what the inbound queue promises of an event | refined by `HubWebhookQueue` | |
| `CreditLedger` | abstract: what a credit wallet promises | refined by `TenantWallets` | |
| `TenantWallets` | wallet, subscription balance, bot wallet, the requests that write them | `TenantWallets`, `WalletOverdraw` (through `MCTenantWallets`) | `TenantWallets_proofs` |
| `PaymentSettlement` | top-ups and their settlement | `PaymentSettlement`, `PaymentDeposit`, `PaymentLost` (through `MCPaymentSettlement`) | `PaymentSettlement_proofs` |
| `PaymentBook` | abstract: what the settlement of card payments promises | refined by `PaymentSettlement` | |
| `HubTokens` | OAuth connections: refresh, connect, disconnect, health check | `Components` (through `MCComponents`) | `HubConnections_proofs` |
| `HubOutbound` | the Hub's outbound jobs and their Redis lock | `Components` | `HubConnections_proofs` |
| `AuthSessions` | refresh tokens and reset links of a user | `Components` | `AuthSessions_proofs` |
| `InboundTurns` | a client's messages and the operators' pause | `Components` | `InboundTurns_proofs` |
| `FlowPublication` | a flow's row, revisions and cached copies | `Components`, `FlowDraft` (through `MCFlowPublication`) | `Flows_proofs` |
| `FlowHistory` | abstract: publications one after the other, a revision for each | refined by `FlowPublication` | |
| `FlowWalk` | a turn's walk through the graph | `Components` | `Flows_proofs` |
| `MCComponents` | the six that `Components` runs, side by side | `Components` | `Components_proofs` |

`MCComponents` puts `HubTokens`, `HubOutbound`, `AuthSessions`, `InboundTurns`, `FlowPublication`
and `FlowWalk` side by side.  In the code they meet only through rows that no
two of them write, so the modules share no variable, and a behaviour is a *scene*: one of them
moves, the others have an empty cast.  An invariant of the run is thus checked on every reachable
state of its component, and the components do not multiply each other's states.

The other `MC` modules only give the constants values.  Operators marked "Mutant" in the modules are
wrong variants of the definition that follows or precedes them (a dropped guard, a missing
reset); they are not part of any specification and serve to see that each property notices
the mistake.

### HubWebhookQueue

An *event* is one `(provider, external_event_id)` pair; the unique constraint makes its row a
function of it.  Variables are the row's columns (`status`, `error`, whether `created_at` is
younger than the stale cutoff: `fresh`, whether `connection_id` was set to NULL: `orphaned`), the
Redis keys, the broker's queue as a bag of `(event, attempt)` messages, and the program counter of
each HTTP handler and worker.  An action is one transaction, Redis command or broker command:

| Action | Code |
|---|---|
| `PostClaimKey`, `PostRedisDown` | `claim_webhook_dedup_key` at the start of `accept_inbound_webhook`; a known key answers 200, an unreachable Redis fails open |
| `InsertRow`, `InsertConflict` | `INSERT ... ON CONFLICT DO NOTHING` and the handler's commit; a foreign `workspace_id` is stored as a dead letter |
| `Enqueue` | `enqueue_if_needed` after the commit |
| `Claim`, `ClaimRefused` | the first transaction of `_consume_webhook_event` with `claim_webhook_event` and the checks of connection and workspace |
| `Meter`, `Forward` | `_dispatch_normalized`: the provider's handler commits a usage row; Wazzup messages then go to the inbound queue |
| `MarkProcessed` | the last transaction, `mark_webhook_event(PROCESSED)`, whatever the status is by then |
| `DispatchFails`, `ClaimFails` | an exception reaches `process_hub_webhook_event_task` |
| `DeadLetter`, `LoadForRetry`, `ResetForRetry`, `PublishRetry`, `Ack` | its error path: `attempt >= max_retries`, or the unlocked load and write of `reset_webhook_event_for_retry`, then `self.retry` |
| `HandlerFail`, `ErrorPathFails`, `Crash`, `Redeliver`, `KeyExpires`, `DeleteConnection`, `GoStale` | the environment: dying requests and workers (`acks_late`, `reject_on_worker_lost`), the broker, time |

Left out: `retry_count`, `next_retry_at`, `processed_at` (written, never read); the status
"duplicate" (with one row per event the sibling search finds nothing); the rate-limit branch of
the task (no inbound handler raises those exceptions); the revocation that `ONAPPUNINSTALL`
causes; the deletion of the organization, which deletes the rows.  Each handler carries one event:
Wazzup and amoCRM requests may hold several, registered one after the other in one transaction and
enqueued in a loop after its commit.  The model treats them as separate requests, so it does not
show that one failing insert rolls back the rows of the whole batch, or that one crash inside the
loop strands all the events that follow; each of those outcomes is modelled for a single event.

The *history* variables (`answered`, `handed`, `failures`, `metered`, `forwarded`, `misreset`,
`abandoned`) are not read by any guard.  Two of them delimit what the code promises:

* `misreset` holds events whose *claim* transaction failed.  The task wrapper cannot tell that
  from a failed dispatch and resets the row to "received" even when another worker has it.
* `abandoned` holds events that a fault left without a carrier: the process died between the
  commit and `enqueue_if_needed`, a worker died after its claim, or the error path itself failed.

### TenantWallets and CreditLedger

The rows are the owner's `subscriptions.balance` ("sub"), `organization_wallets.balance`
("wallet") and a bot's `wallet_balance` ("bot").  A request is a transaction of one SQLAlchemy session.  `copy[r][row]` is the value
in the session's identity map as long as the request references the object, `draft[r][row]` the
value it has flushed, `lock[row]` the holder of the row lock.  `Loaded` says the crucial fact: a
`SELECT ... FOR UPDATE` without `populate_existing` waits for the lock and then returns the copy
the session already holds.  `LockAndWriteFrom` with the row itself as its base is the lock with
`populate_existing`, which only the bot's wallet uses.

| Request | Steps |
|---|---|
| charge (`deduct_credits`) | lock wallet, look up the reference, check the balance, write, commit |
| deposit (the money part of `process_successful_payment`) | lock and credit the wallet, read "sub" without a lock, write it, commit |
| transfer (`top_up_from_organization`) | authentication (loads "sub" with the owner), lock and debit "sub", read the mirror without a lock, lock and debit the wallet by `min(mirror, amount)`, lock and credit the bot, commit |
| bot charge (`ensure_chat_allowed`, `debit_credits`) | load the bot and compare an estimate, answer, lock and reload the bot, compare, write, commit |
| receipt (`create_deposit_request`) | look up the reference and read "sub" without a lock, write it and the row with the unique reference, commit; a known reference leaves the receipt to a person |
| purchase (`subscribe`) | read "sub" without a lock, raise it to the plan's initial balance if it is below, take the price (not below zero), commit |
| grant (Stripe's subscription event) | read "sub" without a lock, raise it to the plan's initial balance if it is below, commit |
| correction (`adjust_organization_balance`) | read "sub" without a lock, write it, lock and credit or debit the wallet, commit; a wallet that has less rolls both back |

Faults: a crash before the commit, PostgreSQL's deadlock abort, a resubmitted charge, receipt or
deposit.  `CreditLedger` is the abstract contract: a charge is posted in full under an unused
reference or not at all, a credit adds, a sweep removes what is left of an amount.

The history `overtaken` names, per row, the requests that have written it from an outdated copy.
Left out: the usage debit of the subscription (`usage_service`), which is the first write of a
transfer and nothing else; a Stripe checkout without an invoice (`credit_wallet_balance`, the lock
first, then the lookup of its reference: a receipt without the race); `top_up_balance`, which production refuses; an administrator's change
of a bot's wallet, which goes through `adjust_balance` as the transfer's does; the first grant of
starter credits to a bot.  New wallets get `WALLET_LAUNCH_GRACE_TOKENS` without a ledger row; that
amount is part of `Opening`.

### PaymentSettlement

An invoice is paid in one of five ways, which differ in what is committed when the money is
taken and in what `external_id` says (`Kind`; see the module's header).  `Charge`,
`CommitInvoice`, `CommitExternal` are the steps of `process_topup` and `create_checkout_session`;
`Begin` is the first, unlocked read of a webhook handler, `Settle` and `AnswerWithoutEffect` its
transaction from the first write to the commit.  Holding the row lock of the invoice over that
interval makes it one step.  `Found` is the search of `process_successful_payment` by
`external_id` and then by invoice id, with the second call of the TipTop handler; `Seen` is the
status the locked read shows, the stale one where the handler holds its object.

Providers notify until they are answered 200 and now and then again.  Deposits and periods are
counted per invoice, credits per reference.  Not modelled: the statuses FAILED and CANCELED
(never set), the `manual` provider, saving the card token, the Stripe `payment_intent` event of
a checkout (it names an id no invoice has and changes nothing).

### HubTokens

A connection is a committed row (`connRow`: status, token, whether the token is due) and a vault
row with the same token (`vault`).  Sessions are those of the refresh task ("beats"), of the OAuth
callback ("connects"), of a disconnect or an uninstall event, and of the hourly health check.
`held[p][k]` is the object in a session's identity map, `want[p][k]` what the session will flush;
`Merged` is SQLAlchemy's rule that only the columns that differ from the held copy are written.

| Action | Code |
|---|---|
| `Scan`, `Pick`, `LockConnection`, `ReadVault` | `_refresh_expiring_oauth_tokens`, `refresh_connection` up to the provider call: the row locks in the order of the scan |
| `Rotate`, `RefreshFails`, `AnswerLost` | the HTTP call: the provider spends the old token and mints the next; an error marks the row; the network may lose the answer |
| `CommitBeat` | the one commit of the task |
| `Authorize`, `StoreGrant`, `LoadConnection`, `BindRow`, `BindFails`, `CommitConnect` | the OAuth callback: code exchange, flush of the vault row, then of the connection |
| `LoadForDisconnect`, `WipeRow`, `WipeVault`, `CommitDisconnect` | `disconnect` and the provider's uninstall event |
| `StartCheck`, `Probe`, `FlushCheck`, `CommitCheck` | the health check: all rows loaded first, verdicts written at the end |
| `TokDeadlock`, `NextBeat`, `TokCrash`, `Age` | PostgreSQL's abort of a lock cycle, the next minute, a dying process, a token that nears its expiry |

The history variable `lost` holds the tokens whose successor was never committed (a crash, a
deadlock or the network between the call and the commit), `replayed` those presented a second
time: `SpentOnce` says that the second set is within the first.  A lost one-time token is not
recovered by the code; only a new connect helps.

### HubOutbound

One connection and its queued jobs.  `Acquire`, `Busy`, `FailOpen` are the three outcomes of
`try_acquire_outbound_lock`; `CheckConnection`, `Answered`, `CallFails`, `Meter`, `Persist` the
steps of `_execute_adapter_action` in one transaction; `SoftTimeout` cancels the call and writes
the row in `finally`; `Release` deletes the key without asking whose it is and then ends or retries
the job.  `OutCrash` leaves the key to its TTL, `Expire` is that TTL.  The module's header states
the one assumption about time: the TTL (90 s) outlasts a running job (soft timeout 60 s), so a
key expires only when its job has stopped, and the overlap after an expiry under a running job is
not reached.  Not modelled: the
per-portal rate limiter (its refusal is an outcome of the call).

### AuthSessions

A token has the name of the request that mints it.  `Begin` is a request's first read, without
a lock; `Flush` the UPDATEs that take the locks of the token rows; `CommitRequest`,
`AbandonRequest` its end.  `RotateToken`, `Logout`, `LogoutAll`, `ResetPassword` differ in the rows
they decide to revoke when they begin (`doomed`).  Reads are not repeated, so two overlapping
rotations of a token both succeed: `OneTimeTokens` says that overlapping is the only way, and the
only way to two live tokens of one sign-in.  `family` is the login a token descends from.  Access
tokens, which are checked without state, and RBAC are left out.

### InboundTurns

Messages of one client.  A *post* is one delivery of a message and later its Celery job.

| Action | Code |
|---|---|
| `ClaimPost`, `ClaimWithoutRedis`, `Enqueue`, `LosePost` | the webhook endpoint or the poller: the claim in Redis, then the job; a process that dies in between |
| `BeginTurn` | the worker's session loads the bot, and every client of it (`Bot.clients`, `lazy="selectin"`) |
| `FallBack`, `CommitReply` | `services/telegram_service.py:277-293`: an attachment or the press of a button, sent by a client who is not on an AI node, gets `MEDIA_FALLBACK` unless the copy says "paused"; no lock is taken and no message kept |
| `TakeTurn` | the worker's transaction up to the gates: lock of the client's row by the upsert, stop and resume phrases, pause, auto-resume, all decided on the copy |
| `Answer`, `AnswerFails`, `CommitTurn`, `CommitFails`, `RetryTurn` | the reply, the commit after it (the pause is written only if the gates have changed it), the task's retries and its dead letter |
| `CrashTurn` | a killed worker: the job is delivered again |
| `OpRead`, `OpWrite`, `OpUnchanged`, `OpCommit`, `OpFails` | an operator pauses or releases: an unlocked read, an UPDATE only if the value differs from the copy |

`doubled` counts deliveries let through without Redis, `unsaved` answers whose turn was rolled back,
`missed` holds messages lost between claim and job or given up.  `inForce` says that an operator
was told "paused" and nothing has resumed since, `under` holds the turns begun since then.

`turnCopy` is what makes a pause hard to keep.  The SELECT that follows the upsert
(`webhook_service.py:171`) has the row's lock, but the session holds the client already and gives
that object back unrefreshed; `_client_paused_by_operator` reads the same object.  So a turn that
has begun before a pause answers under it, in every channel and not only with `MEDIA_FALLBACK`.
`PauseHolds` promises what is left: such a turn does not undo the pause (SQLAlchemy writes a column
only if it differs from the copy), and every turn begun under the pause is silent unless it ends
it.  Left out: the acknowledgement of a button press (`answer_callback_query`), which is no answer;
a client's first message, which has no copy yet; the branch for an escalated conversation.

### FlowPublication

`WriteFlow` is the flush that takes the lock of the flow's row, `Snapshot` the revision number,
`Invalidate` and `PutOwn` what `PublishedFlowCache` does before the request's commit, `CommitFlow`
and `RollbackFlow` the end.  Each process has an entry (`flowCache`) that it serves while its
version is Redis' version; `LoadFlow` reads the row, `FillCache` tags the graph with the version as
it is *then*.  Both orders, version before commit and read before tag, leave a window in which an
old graph gets a current tag; the history variable `raced` marks exactly these entries (and those
a fault left), and `StaleOnlyIfRaced` says that there are no others.  A stale entry lasts until
the next publication.  A turn loads its bot first, and the flow's row with it (`OpenTurn`:
`Bot.flows`, `lazy="selectin"`), then asks the cache; `load_compiled_graph` may so be given a row
that is older than its query, `_get_latest_published_flow` refreshes it.
Processes lose Redis (`LoseRedis`, `RegainRedis`, the set `cutOff`): `get` then returns the entry
whatever its version (`core/flow_cache.py:48`), `put_from_orm` tags its entry "0" (`Tag`), and a
version that is not raised is noticed by nobody (`BumpFails`).  What a process that is cut off serves
may be arbitrarily old; `StaleOnlyIfRaced` promises of it only that the graph was committed.
What the database shows is `FlowHistory`: whatever the sessions do at the
same time, graphs go live one after the other, each publication or restore with a revision of its
own, and no revision is rewritten or numbered twice (`PublicationsAreHistory`).

### FlowWalk

`FlowExecutor` with `MAX_HOPS`.  `EnterNode` has one case per kind of node, `ByHandle`,
`DefaultEdge`, `StartNode` are the searches for edges, `LeaveStep` is `_advance_from_current` and
`Hop` one iteration of the loop.  What a condition or a call finds is a free choice.  `Republish`
puts another graph under the stored step between two turns.  Two limits: turns of one client
do not overlap (one that begins while another runs has loaded `current_step_id` with its bot, before
it waits for the client's row, and would store its own walk over the other's), and no node has the
id "root" or "welcome", which `START_ALIASES` (`flow_parser.py:68`) takes for the start; no graph in
the repository uses them.  `unsure` marks the two cases in which
the stored step need not be what the client saw: a graph published since, and a turn that
had nothing to say.

## 3. Runs

Deadlock checking is off in every run because the systems may stop: the bounds on posts, payments
and faults run out, requests end.

| Run | Shows | Bounds | Distinct states |
|---|---|---|---|
| `HubSafety` | `EnqueuedOnce`, `SingleDispatchWhileFresh`, `DeadLetterAfterAllRetries`, `NoLostEvent`, `ProcessedWasDispatched`, `MeteredPerAttempt`, `QueueIsLifecycle`, `TypeOK` | 2 events (a message; one with a foreign payload), 2 handlers, 2 workers, 1 retry, 2 posts, 2 faults | 631,717 (symmetry of handlers and workers) |
| `HubLiveness` | `ReceivedResolves`, `QueueDrains` | 1 message, 1 handler, 2 workers, 1 post, 2 faults | 153,775 |
| `HubReclaim`, `HubPersist`, `HubMeter` | counterexamples, see section 6 | 1 message | |
| `TenantWallets` | `NonNegative`, `AppliedOnce`, `DriftOnlyFromHeldCopies`, `WalletIsLedger`, `EveryRequestEnds`, `TypeOK` | 3 charges (2 of one reference), a deposit, an owner's and a member's transfer, 2 bot charges, 2 receipts of one reference, a plan bought, one granted, 2 corrections, in 6 casts of 3 to 5; 2 faults | 24,009 |
| `WalletOverdraw` | counterexample | 2 transfers of the owner | |
| `PaymentSettlement` | `CreditsBackedByPayments`, `SettledIffCredited`, `CheckoutAppliesOnce`, `SettlementIsBook`, `RedirectIsSettled`, `TypeOK` | one invoice of each kind, at most 2 requested in a behaviour, the widget paid twice, 2 sessions, 1 extra notification, 1 fault | 38,868 |
| `PaymentDeposit`, `PaymentLost` | counterexamples | 1 invoice, 2 sessions | |
| `Components`, tokens | `SpentOnce`, `GrantKept`, `ExpiredInError`, `WipedUntilConnected`, `TokSettles` | 2 connections (one with one-time tokens), 2 beats, a connect, a disconnect, a check in casts of at most 3 sessions, a token nears its expiry once more, 1 fault | 382,319 together |
| `Components`, outbound | `OverlapOnlyFailOpen`, `MeteredWithRow`, `OutboundSettles` | 2 jobs of one action, 1 retry, 1 fault | |
| `Components`, sessions | `OneTimeTokens`, `SweepEndsFamilies` | 2 logins, 2 rotations, a logout, a logout everywhere, 2 resets, in casts of 4 | |
| `Components`, inbound | `AnswersAccounted`, `PauseHolds`, `MessagesSettle` | 5 deliveries of 4 messages (a text twice, "resume", "stop", a button press), 3 operators, in casts of 3 or 4, 1 retry, 2 faults | |
| `Components`, flow | `StaleOnlyIfRaced`, `PublicationsAreHistory` | 2 publishers, a restorer, an adopter, a saver, 2 processes, in casts of 2, 1 fault (a failed commit or an outage of Redis) | |
| `Components`, walk | `StepWasShown`, `CallsOnce` | 3 graphs: buttons, a loop longer than `MaxHops`, a condition that leads to itself; 3 words, 5 hops, 2 rounds | |
| `FlowDraft` | counterexample | 1 publisher, 1 saver, 2 processes | |

`Components` also checks `ComponentsTypeOK`, the conjunction of the modules' type invariants.

Why these bounds are enough to be interesting.  *Hub*: two posts make one duplicate, two workers
make every race of claims, one retry makes both sides of `attempt >= max_retries` reachable, and
two faults reach the combinations the invariants distinguish (a redelivery and a failed claim, a
crash and a lost handler, ...).  A failed dispatch costs no fault, so failures at every attempt
are included.  *Wallets*: amounts are chosen so that no two requests that debit the same row can
both succeed from the opening balance, and the mirror may hold less than a transfer's amount.
Transfer against deposit gives the lock cycle.  The six casts bring together the requests that
write the same row: the wallet's (two casts), the bot's, and the subscription's (three); a cast of
all fourteen would add interleavings of requests that share no row.  *Payments*: two sessions give every overlap of
two notifications; two invoices in a behaviour are enough because nothing but the wallet row,
which is `TenantWallets`' subject, connects invoices.  *Tokens*: two beats on two connections
close the lock cycle of the scan; each cast of three has every pair of session kinds that
write the same row, one of them with a third that interferes.  *Outbound*: one retry and one fault
reach the key that a dead job leaves and the release by a job that does not own it.
*Sessions*: in each cast a rotation overlaps everything that revokes it.  *Inbound*: two
deliveries of one message with a fault at every step of the first; two faults separate the
answers that `AnswersAccounted` counts; a button press beside two operators has a pause come and go at each of
its steps.  *Flow*: two movers on two processes give both windows of
the cache, and an outage may hit either process or both at every step.  *Walk*: the graphs have every kind of node, a turn cut by the hop limit, and steps
that another graph does not know.

## 4. Fairness

* `HubWebhookQueue!Fairness`: weak fairness of each handler's next step and of each worker's next
  step.  A request that runs goes on running, and a Celery worker that is idle takes a job when
  there is one (the workers consume one inbound queue; prefetch is 1).  Providers need not post,
  no fault must happen, and the dispatch may fail every time.
* `TenantWallets!FairSpec`: weak fairness of each request's step, the deadlock abort included:
  PostgreSQL looks for cycles after `deadlock_timeout`, and sessions that hold no lock cycle
  proceed.  A request waiting for a row is enabled when the lock is free, and every request
  locks a row once, so weak fairness is enough.
* `PaymentSettlement!Fairness`: requests and handlers that have begun go on; a provider repeats a
  notification that was not answered.  TipTop and Stripe do so for hours to days; the model has
  them do it for ever, and at most `MaxFaults` handlers fail.  No customer has to ask for a
  top-up, and none has to pay.
* `HubTokens!TokFairness`: each session's steps, PostgreSQL's abort of a lock cycle and the next
  beat among them.  A beat that was aborted starts again a minute later, when whoever waited for
  the released rows has been served (`NextBeat`).  Crashes, lost answers and ageing are not forced.
* `HubOutbound!OutFairness`: each job's steps, the TTL, and the return of Redis.
* `InboundTurns!InboundFairness`: each delivery's, turn's and operator's steps.  Workers consume
  the inbound queue and jobs are acknowledged late; a killed worker's job is delivered again.

`FlowPublication`, `FlowWalk` and `AuthSessions` have safety properties only; that a walk ends is
`hops <= MaxHops`, part of its type invariant.

## 5. Proofs

The theorems hold for every value of the constants that satisfies the modules' named
assumptions (types of the constants, disjoint names, and for `PaymentSettlement` that only a
widget or an order can be paid twice and only a checkout sells a plan; for `TenantWallets` that
only charges, or receipts, share a reference and that a request is of one kind).  Each proof module defines an inductive invariant (`Inv`, or where modules are proved about
together `AuthInv`, `TokInv`, `OutInv`, `InboundInv`, `PublicationInv`, `WalkInv`), proves
`Init => Inv` and `Inv /\ [Next]_vars => Inv'` by one case per action, and derives the
properties.  TLC checked the parts of each invariant before they were proved.

**HubWebhookQueue_proofs.**  `Inv` adds to the checked invariants: `Exclusive` (a claim of a fresh
row excludes every other worker and lasts while its worker answers for the event; neither
`SingleDispatchWhileFresh` nor `TerminalIsFinal` (no terminal status is taken back) is inductive without it, since what protects
them is the status "processing", not the row lock), `Attempted` (the attempt number of a job
never runs ahead of the failures, for `DeadLetterAfterAllRetries`), `Stored` (what is enqueued
has a row), `Claimed` (a claimed row has a worker that will write it again, for `NoLostEvent`),
`Dispatched` and `Metered` (what dispatch has done at each of its steps).  Proved:
`TypeCorrect`, `OneFirstJob`, `ExclusiveDispatch`, `AllRetriesUsed`, `NothingLost`,
`ProcessedMeansDispatched`, `OneUsageRowPerAttempt`, `TerminalStays`.
The refinement `QueueImplementsLifecycle` maps an event's phase to its status and `busy` to the
workers that answer for it, and drops an event when its row grows stale or a claim of it fails:
from then on the code does not promise one worker at a time.  It needs `Exclusive`, and `Loaded` (a
worker about to reset a row loaded it under its claim), without which the read without a lock
in `reset_webhook_event_for_retry` could bring back an older status.  What `EventLifecycle` does not
promise is in it as well: `LetGo` may leave an event in "processing" for good, as `HubReclaim` shows.

**TenantWallets_proofs.**  `Sessions` (who has written a row holds its lock), `Fresh` (a request
that reads a row only under its lock holds the row's value, and so does whoever has written the
bot), `Entries` (a draft is a ledger entry on the session's copy), `Receipted` (receipts and
wallet entries share no reference), `Unposted`, `Held` (what a transfer or a removal carries to
its next lock covers it).  `Fresh` fails for transfers, owners and the requests that read the
subscription before they lock it, and that is exactly the exception in `DriftOnlyFromHeldCopies` and `WalletIsLedger`.
Proved: `TypeCorrect`, `NeverNegative`, `OncePerReference`, `DriftIsExplained`, the refinement
`WalletSimulatesLedger`, and its corollary `LedgerWithoutTransfers`: in an organization without
transfers the wallet implements `CreditLedger` without exception.  `HeldAloneIsNotOverdrawn` and
`MembersDoNotOverdraw` are in "Boundaries of the findings" below.

**PaymentSettlement_proofs.**  `Requested`, `Linking`, `Externals` (what `external_id` says for each
kind), `Copies` (what a session holds was once the row; a widget's pending copy has no
`external_id`), `OneReference` (an order is credited under the invoice's id, everything else under
the payment's).  `OneReference` carries `CreditsBackedByPayments`: it is what keeps the two
searches from crediting one payment under two references.  Proved: `TypeCorrect`,
`CreditsBacked`, `SettledMeansCredited`, `CheckoutOnce`, `SettlementStays`, and the refinement
`SettlementImplementsBook`: what was paid is `taken`, the references with a credit are `booked`, the
invoices that have SUCCEEDED are `settled`.  A handler that settles again from an old copy finds its
reference booked, and `SettledIffCredited` makes the step a stutter; a saved card's charge takes one
payment because such an invoice has only one.

**AuthSessions_proofs.**  `Signed` (only a committed request has minted its token), `Consumed` (a
rotation dooms, and once committed has revoked, what it presents; a reset uses up the link),
`Overlapped` (`OneTimeTokens` for requests that have not committed yet as well), `Swept` (a sweep
beside which nothing is minted dooms every live token; afterwards only later logins have live
descendants).  That a sign-in has one live token needs a second invariant,
`Families`, proved on top of `AuthInv`: `Lineage` (a rotation mints into the sign-in of the token it
presented) and, for each sign-in that no double rotation has split, `Single`: one token at most is
live, the rotations under way present that token or one already used, and no two of them present
different unused ones.  It is not inductive without the last two, and the step that needs them is the
commit of a rotation, which revokes one token and mints another.
Proved: `AuthTypeCorrect`, `FamilyInvariant`, `TokensAreOneTime`, `SweepsEndFamilies`.

**HubConnections_proofs** (tokens and outbound jobs).  For `HubTokens`, `TokInv` says of each
session what its step implies: `AtRest` (between transactions it holds nothing), `Issued` (it knows
only tokens that were issued, and drafts one for the vault only under the vault's lock, a connect
before it waits for that lock excepted), `Drafted` (a row is written from a copy, and says expired
only of tokens that had run out or been refused), and for each kind of session what it has read
and drafted at each step: `BeatOK`, `ConnectOK`, `DisconnectOK`, `CheckOK`.  The parts that relate
sessions are `TokensIssued` (no token is accepted or stored that the provider has not issued) and
`Unshared` (a token about to be written is valid, is not the vault's, and no other session has
drafted or read it); without `Unshared` a commit could store what another session has used up, so
neither `GrantKept` nor `SpentOnce` is inductive.  The two properties rest on the vault's lock: the
lock of the connection row appears in `TokInv` only for a disconnect, which reads before it locks.
The steps are proved by what they do to the others: `QuietStep` (a step that
reads, locks or drafts), `MintStep` (the provider issues a token), `RollbackStep`, and `CommitStep`
with `WholeTransactions` (who commits a token writes it to the row and to the vault).  TLC checked
`TokInv` with two beats, two connects, two disconnects and a check before it was proved.  The
assumption `RowsAssumption` (the name for "nobody" is not a row) was added for the proof.
Proved: `TokTypeCorrect`, `TokensSpentOnce`, `GrantsAreKept`, `ExpiryIsExplained`, and from the same
invariant the action property `WipedStaysWiped`.
For `HubOutbound`, `Keyed` (while every job has run under the key, a running job has set it),
`Drafts` (a usage row about to be inserted is the action's first, and a row about to say ok has
usage to go with it), `SoleInsert` (one transaction at a time inserts the usage of an action).
Proved: `OutTypeCorrect`, `OutboundOverlap`, `OutboundMetering`.

**InboundTurns_proofs.**  `TurnHolds` (a turn that has passed the gates holds the client's row, and
answers only if its draft says so), `UnderCopies` (a turn begun under a pause has loaded "paused", so
`MEDIA_FALLBACK` is not for it, and it answers only after writing the end of the pause), `OpHolds` (so does an operator who has written),
`Counted` (deliveries past the claim are paid for by the key or by outages, answers and records by
deliveries; the counting uses `FiniteSetTheorems`).  Proved: `InboundTypeCorrect`, `PausesHold`,
`AnswersAreAccounted`.

**Flows_proofs** (publication and walk).  For `FlowPublication`, `PublicationInv`: `Writing` (a session
that has flushed holds the row's lock), `Numbered` (whoever has taken a snapshot is going to add the
next revision), `Topmost`, `Published`, `RowIsLive`, `Entries` (an entry of
Redis' version made in no race is the announced graph of its own process, or what was published
last; it does not speak of `cutOff`, so an outage leaves it alone), `Kept` (the row, the revisions,
what a restorer brings back and every entry made in no race are committed graphs, or about to be:
what a process without Redis serves).  Proved: `FlowTypeCorrect`,
`RevisionsAreLive` (each publication has its own revision, and the latest is what went live last
unless the prompt's graph was adopted since),
`EntriesAreCurrent`, and the refinement `PublicationsAreSerial`: the commit of a publisher, restorer,
adopter or saver is `FlowHistory`'s `Publish`, `Restore`, `Adopt` or `Save`, every other step a
stutter.  It needs `Numbered` (the snapshot's number is still the next one when its session commits)
and `HistoryOK` (the revisions have no gap, a graph is among them only once its session has
committed, and what a restorer has drafted is one of them).
For `FlowWalk`, `WalkInv`: `Leaving` (a turn that has not left the stored step has called nothing and
begins there) and `Forward`: for every rank function of the graph, the nodes called in a turn
rank below the node the walk is at.  Proved: `WalkTypeCorrect`, `StepsAreShown`, `CallsAreSingle`,
for every set of graphs and every sequence of words.

**Components_proofs.**  `ScenesImplementComponents`: a behaviour of the composed scenes is a
behaviour of each component alone, since every step of a scene is a step of its component and
leaves the others alone.  With it the theorems of the components hold of the composition that
TLC runs: `ComponentsTypeCorrect`, `ComponentsAreSafe` (twelve invariants), `ComponentsKeepTheirSteps`
(the refinement of `FlowHistory` and `WipedUntilConnected`).

**Boundaries of the findings.**  Four claims that section 6 refutes are proved under the
condition they need.  `SerialSettlementDepositsOnce`: if no two notifications of an invoice are
handled at the same time, a payment makes one deposit (`Spec /\ []NoOverlap`; copies are then
current and a settled invoice has one deposit).  `PersistedWithoutFaults`: as long as nothing has
failed, an answered event has its row or a request about to insert it.  `OpenDraftsAreNotServed`: a
turn runs with a saved graph only after its save has committed; never with a draft that was rolled
back or is still open.  `HeldAloneIsNotOverdrawn`: while no two sessions hold the subscription at the same
time, its entries never add up to less than zero and the balance is their sum
(`Spec /\ []HeldAlone("sub")`; every copy is then the row's value, `UpToDate`).
`MembersDoNotOverdraw`: it needs no such condition where the only requests are charges and transfers
of members other than the owner, since those lock the subscription before they read it.

Only model-checked: the liveness properties (`ReceivedResolves`, `QueueDrains`,
`EveryRequestEnds`, `RedirectIsSettled`, `TokSettles`, `OutboundSettles`, `MessagesSettle`), since
TLAPS has no rules for `ENABLED` here; and the counterexamples.  Every other property of the runs is a theorem.

## 6. Where the code and its documentation disagree

Each of these runs is expected to end with a counterexample.

* `HubPersist` (`AnsweredIsPersisted`).  `queue.py:3` promises "persist webhook_events (received) →
  200 → job".  The Redis key is set first (`webhook_dedup.py:93`): a request that dies before
  its commit leaves the key, and the redelivery is answered 200 with no row.
* `HubReclaim` (`CrashedClaimIsReclaimed`).  `queue.py:362`: "Stale PROCESSING (worker crash) ... →
  reclaim".  The redelivered job of a killed worker arrives before `created_at` is old enough,
  is answered "duplicate" and acknowledged; no later job exists.
* `HubMeter` (`MeteredOnce`).  `hub_usage.py:4-5` says idempotency keys prevent a double charge on
  retries; the inbound handlers pass none (`tasks/bitrix24_tasks.py:103`,
  `wazzup_tasks.py:40`, `amocrm_tasks.py:54`, `kaspi_tasks.py:20`).  `MeteredPerAttempt` is what
  holds instead.
* `WalletOverdraw` (`NotOverdrawn`).  `services/wallet_service.py:179-180`: the row lock prevents
  overdrawing.  The owner's request has loaded the subscription with the user
  (`models/users.py:120`, `lazy="selectin"`) and computes from that copy.  `NonNegative` still
  holds, because the value written is never negative: it is the ledger that goes below zero.
  `bot_billing_service.py:81-86` avoids the same trap with `populate_existing`.
* `PaymentDeposit` (`DepositedOncePerPayment`).  `payment_billing_service.py:120` calls the
  settlement idempotent.  Two overlapping TipTop notifications both see PENDING (`:757` is read
  without a lock and held): the credit is recognized as a replay, the KZT deposit is made twice.
* `PaymentLost` (`PaidIsSettled`).  `payment_billing_service.py:466`: "Settlement always completes
  through provider webhooks".  A saved card is charged (`:600`) before the invoice is committed
  (`:610`); a notification in between finds no invoice, is answered 200 and not repeated.
* `FlowDraft` (`DraftsAreNotServed`).  `bot_management_service.py:237`: "Save is always draft —
  publishing is exclusive to /publish."  The save writes the graph into the row that the
  loaders read (`:249`, `workers/webhook_workers.py:47-61`) and leaves `is_published` as it was: a
  process without a cached entry runs the draft.

Exceptions without a claim in the repository to the contrary are delimited by the invariants
instead: a rotated refresh token has two successors when the requests overlap
(`OneTimeTokens`); a provider's one-time token is lost by a crash between the call and the
commit (`SpentOnce`, `GrantKept`); a message is answered twice after a rolled-back turn
or without Redis (`AnswersAccounted`); a turn that has loaded its client before a pause answers under
it, although `workers/webhook_workers.py:8` has "history only, no automation" for a paused client
(`PauseHolds`); the press of a button off an AI node is answered with `MEDIA_FALLBACK`, which says to
use the buttons, and is not kept (`MessagesSettle`); a stale graph is cached between version and
commit, or served while Redis cannot be reached (`StaleOnlyIfRaced`).

## 7. Plan

Done: the inbound queue, organization money with nearly all writers of its balances, payments, OAuth tokens, outbound jobs, sign-in
sessions, inbound turns, flow publication and the walk.  What could follow, in this order:

1. Quotas and seats: checks without a lock; the property is the bound of the excess.
2. Abstract specifications for the OAuth connections (one usable token) and for the outbound jobs
   (one action at a time), with their refinements.
3. The WhatsApp service's session map, once the order of its socket library's events is written
   down as assumptions.

### Not modelled

* *Token wallet, saved cards*: the first is `TenantWallets`' pattern once more (a row lock, a unique
  key, a ledger row); the second one upsert whose race `RedirectIsSettled` covers.
* *LLM gateway*: `circuit_breaker.py` has a half-open state with probes, but every caller builds a
  gateway, and with it the breakers, for one completion: no state is shared between calls.
* *Native CRM*: record keeping; an automation rule runs in the request that caused it and cannot
  trigger another (one level deep).
* *Stripe's plan and status, quotas, teams*: one transaction per event or request; see the plan.
* *Knowledge base, media, messengers' clients*: calls of external services with hardly any
  state here; *analytics, dashboards, administration* report; *WebSockets* deliver on a
  best-effort basis; *rate limits, encryption, URL checks* are counters with expiry and pure
  functions.
* *Frontend, deployment*: user interface and configuration.

Most of the backend's lines are these: request schemas, CRUD endpoints, clients of external
services and prompts.  The modules cover the places where several sessions, jobs or processes
write the same state.
