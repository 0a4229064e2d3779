# StreamPay backend: specifications and proofs

This directory holds TLA+ models of the StreamPay backend (`src/`), the TLC
configurations that check them on small instances, and TLAPS proofs of their
main properties for every value of the constants. Paths below such as
`services/jobLease.ts` are relative to the repository's `src/` code directory;
`docs/` is the repository's documentation.

`PROJECT.json` maps every definition to the lines it models and lists the runs,
findings, hazards and theorems in machine-readable form. This file explains them.

    tlc -workers 2 -config outbox.cfg MCSettlementOutbox.tla
    tlapm SettlementOutboxProofs.tla

## 1. Inventory

The backend is an Express application over PostgreSQL (drizzle) and Redis. It
keeps payment streams, ingests events of a Soroban indexer, sends webhooks to
subscribers, reconciles its records with the chain and runs settlement side
effects through an outbox.

| Component | Code | State | Operations |
| --- | --- | --- | --- |
| Settlement outbox | `services/settlementOutboxService.ts`, `repositories/settlementOutboxRepository.ts` | `settlement_outbox` (or a Map) | `enqueue`, `processDue` = `claimDue`, handler, `markSucceeded`, `markFailed` |
| Metering checkpoints | `repositories/meteringCheckpointRepository.ts` | `metering_event_checkpoints` (or two Maps) | `apply` |
| Indexer replay protection | `repositories/processedIndexerEventRepository.ts` | `processed_indexer_events` (or a Map) | `claim`, `complete`, `fail` |
| Event ingestion | `services/eventIngestionService.ts`, `routes/webhooks/indexer.ts` | none | `ingest` |
| Webhook delivery | `services/webhookDeliveryService.ts`, `repositories/webhookRepository.ts` | `webhook_subscriptions`, `webhook_deliveries` | `enqueue`, `processDue`, `attempt`, `startWorker`; subscription CRUD |
| Job lease | `services/jobLease.ts` | Redis keys with a time to live | `acquire`, `release` |
| Stream records | `api/v1/streams.ts`, `repositories/streamRepository.ts` | `streams` | create, list, get, patch, delete, restore, export |
| Reconciliation | `services/reconciliationService.ts`, `scripts/reconcile.ts` | a checkpoint and a report | `run` |
| Accrual | `services/accrualService.ts` | none | pure arithmetic |
| Soroban RPC client | `clients/sorobanClient.ts` | none between calls | `simulateContractCall`, `getLedgerEntry`, `sendTransaction`: calls with retries and timeouts |
| Redis client | `cache/redis.ts`, `middleware/redisAvailability.ts` | one client, two flags | `getRedisClient`, the events of clients, `closeRedisClient`, the fail-closed guard |
| Stream cache | `services/streamCache.ts` | Redis keys | cache-aside helpers (no caller) |
| API keys | `middleware/apiKeyAuth.ts`, `middleware/auth.ts` | a key store | load, add, revoke, match |
| Rate limits | `middleware/rateLimit.ts` | inside a package | not wired |
| Transaction service | `services/transactionService.ts` | none between calls | `submitTransaction`, `submitSignedXdr` |
| Audit log | `services/auditService.ts`, `repositories/auditRepository.ts` | `audit_logs` | insert (no caller) |
| Application and gateway | `index.ts`, `api/v1/router.ts`, other middleware, `routes/health.ts` | none | the order of the guards |
| Database access and configuration | `db/index.ts`, `config/` | connection | set-up |
| Observability | `metrics/`, `telemetry/` | counters | written, never read |
| OpenAPI and helpers | `api/v1/openapi.ts`, `api/v1/schemas.ts`, `utils/` | none | static text, formatting |

How they interact:

- `POST /webhooks/indexer` verifies and parses a request and calls `ingest`. A
  metering event goes to the checkpoints, every other event to the replay
  protection. The two branches share no table, so they are two models without a
  composition: no behaviour of one can affect the other.
- `index.ts` starts one webhook worker per process (`startWorker`, a
  `setInterval` of ten seconds). Its polls overlap when one takes longer than that;
  processes overlap always. The deliveries table and the job lease meet only
  there, so they are modelled together.
- Callers of the outbox enqueue in the transaction that changes a settlement and
  register a handler per event type. Nothing in the repository polls
  `SettlementOutboxService.processDue` yet; the specification has any number of
  callers.
- PATCH, DELETE and export work on stream records. Reconciliation is a job of its own, started by
  `scripts/reconcile.ts` on a file of records; nothing keeps two runs of a job apart.

- Every mutation under `/api/v1` and every indexer webhook passes the API key and then the guard, which may
  wait for a connection to Redis. `cache/redis.ts` is shared by the guard, the job lease and the stream cache; all
  of them call `getRedisClient`, so one that runs beside a guarded request does to the connection what that request does.
- `SorobanClient` and `HorizonNetworkClient` talk to the ledger. Nothing in the repository calls the transaction
  service; what its callers may conclude from an answer is what its specification states.

What is hard in it: processes that share tables, with only tokens, leases and
advisory locks between them; reads used after an await; replies lost after a
commit; processes that die between a side effect and its acknowledgement; leases
that run out under a slow holder; retries; webhooks that arrive repeated,
reordered or with reused ids; an optimistic lock on a clock of milliseconds. The
hazards in `PROJECT.json` name each at its line. Where the code lets a hazard happen, the property excepts
that case and shows that there is no other; the note of the hazard says so.

What makes each component correct:

- *Outbox*: an effect that was enqueued is run at least once and then settled for
  good; a worker that lost its row cannot settle it; the effect runs again only
  for a reason; a row that always fails is buried after `max_attempts`, not before.
- *Metering*: the recorded sequences of a stream are 1..n with a different event
  each; a retry of a recorded event is a duplicate, whatever it races with.
- *Replay protection*: an event is accepted once and under one payload; nobody is
  told that it is in progress when nobody is working on it.
- *Webhook delivery*: no two requests for a delivery at a time while leases hold;
  attempts count requests; a success is not sent again; every delivery ends.
- *Stream records*: a PATCH never overwrites an update its client has not seen, and is not refused
  when it has seen the last one; an export has every row that was there all along, ends, and repeats no more
  than its cursor forces it to.
- *Reconciliation*: no mismatch is left behind a cursor; an interruption loses at most one correction and a
  resumed run does not ask again for a saved one; a dry run changes nothing that a later run relies on.
- *Calls to the ledger*: a bounded number of attempts; an answer that was given up never stands for a newer
  one; a submission is carried out at most once, and what its caller is told of it is true; calls end.
- *Redis*: where Redis is required, no mutation passes on the strength of a lost connection; the client that is handed out is
  connected; after an outage the connection comes back into use.

## 2. Plan

In order of importance. The first nine are done; see section 8 for the rest.

1. `SettlementOutbox` with `OutboxContract`, `SettlementOutboxProofs`.
2. `MeteringCheckpoint` with `StreamLedger`, `MeteringCheckpointProofs`.
3. `IndexerEvents` with `IndexerEventsProofs`.
4. `WebhookDelivery`, which composes the deliveries table and the job lease.
5. `Reconciliation` with `ReconciliationProofs`: checkpoints, crashes, overlapping runs.
6. `StreamRecords` and `StreamExport` over `StreamTimes`, with `StreamProofs`: optimistic locking and paging on clocks of two precisions.
7. `LedgerCalls` with `LedgerCallsProofs`: abandoned requests, retries, submissions.
8. `RedisGate` with `RedisGateProofs`: overlapping connects, late events, the guard and what comes before and after it.
9. `WebhookDeliveryProofs`.
10. Pure operators against reference definitions: accrual, decimal parsing, retry delays.

## 3. The models

Conventions. An action is what runs between two awaits, or one SQL statement or
Redis command; what the code does without an await is one step. Data that no
property tells apart (payloads, error texts, counters of metrics, timestamps kept
for operators) is left out. Time is relative: a row or a key keeps the *ticks left*
until it is due or expires and `Tick` takes one off all of them, so no clock grows
and every interleaving of a slow process with a timer is included. A call that can
fail is taken from `Calls`: it commits and replies, commits and loses the reply, or
does neither. `MaxFaults` bounds crashes and failures together. Variables named as
history in a module are read by properties only.

### SettlementOutbox (with OutboxContract)

`rows` is the table, one row per event key: status, attempts, ticks until
`available_at`, ticks of lease, token and `born`, the order of `created_at`. A worker is
one caller of `processDue`: `batch[w]` are the claims its loop has still to reach,
`current[w]` and `phase[w]` the claim in hand and the await it is at.

| Action | Code |
| --- | --- |
| `Enqueue` | insert; on a unique violation of the event key the row that exists is read and returned |
| `Claim` | `claimDue`: the `BoundedLimit` oldest due rows that no other statement locks, under fresh tokens |
| `NoHandler` | no handler registered: buried without an attempt; outside the `try` |
| `HandlerDone`, `HandlerThrow` | the handler; it may throw after its effect was felt |
| `Ack` | `markSucceeded`, inside the handler's `try`: an error of it goes to `Nack` |
| `Nack` | the `catch`: `markFailed` with delay or death; its error leaves `processDue` and drops the batch |
| `Crash` | the process dies or the claim's reply is lost; only leases remain |
| `Tick` | time |

`Init` chooses one of the `Deployments`, that is, `store` and the keys `handled`, those with a registered handler. The store is
PostgreSQL or the in-memory one: one token per statement or per row, an update by token alone or also by status,
attempts left alone or counted, errors or none. `SKIP LOCKED` is a choice of any set of rows that another worker's update may have
locked. Tokens are built from the date and `Math.random` (or a counter, in memory): a claim draws tokens that are not in use.

`OutboxContract` is what callers are promised, without leases, tokens or workers: one
event per key, success only after a delivery, outcomes that stay. `ImplementsContract`
maps `pending` and `processing` to "open".

### MeteringCheckpoint (with StreamLedger)

`table` holds the row of each event id, `call[c]` what a caller delivered and `step[c]` the
statement it is at or the answer it was given. PostgreSQL's `apply` runs as `Lock`, `Find`,
`Measure`, `Insert`: the transaction reads at READ COMMITTED, so each statement sees what had
committed by then, and the advisory lock is the only thing that orders two transactions.
`Insert` fails on the primary key or on the unique index of stream and sequence. The
in-memory `apply` does not await and is one step (`Apply`). `store` is a variable chosen in
`Init`, so that one run covers both. `Deliver` brings any stream, event id and sequence at any
time: late, repeated, with a gap, with an id another stream used.

`StreamLedger` is the promise: per stream a log of distinct events that only grows at its
end, no event in two logs. The refinement mapping reads the log of a stream off the table.

### IndexerEvents

The other branch of `ingest`. PostgreSQL's `claim` is two statements, `ClaimInsert` and
`ClaimRead`, outside a transaction; the in-memory claim is one step (`Claim`). A call that got
"claimed" goes on to `Complete` and answers `accepted`. `Legacy` ids are rows that the migration to
fingerprints left `completed` under a sentinel hash. `fail` has no action: it
is called in a catch around `complete`, the in-memory `complete` never throws, and PostgreSQL never
answers "claimed" (finding 2).

### WebhookDelivery

`rows` is the table of deliveries, `lease` the Redis key of each, `job[p][d]` where a poll `p` is with
delivery `d` and the attempts it read when it listed it. Pollers are calls of `processDue`; `Worker` says which
of them share a process and hence a `workerId`.

| Action | Code |
| --- | --- |
| `Enqueue`, `DeleteSubscription` | insert of a delivery; the cascade of a deleted subscription |
| `List` | `findDueDeliveries`: at most `Limit` due rows, in no order, without locks |
| `Acquire`, `Skip` | `SET NX PX`; taken, or an error of Redis with its SET done or not |
| `Send` | `attempt` up to the request; starts when all leases of the batch are decided (`Promise.all`) |
| `LookupFails` | the query for the subscription throws |
| `Response` | any answer, a network error or the timeout |
| `MarkSuccess` | update inside the `try`: an error is taken for a failed delivery |
| `MarkFailure` | retry or give up |
| `Release` | the `finally`: the script that compares the key with the owner |
| `Crash`, `Tick` | a process dies with its polls; time |

`enqueue` loops over the subscriptions of an event and inserts a row for each. Here every delivery
is inserted on its own; the loop that stops midway is a hazard without a property.

### Reconciliation

One job. `file` is the checkpoint its store holds, `run[p]` the call of `ReconciliationService.run` that `p` (a worker or a
command line) is in, with its own copy of the checkpoint, `corrected` what the source's adapter has executed. Records are
numbered in the order of the source; a cursor is the number of records before it, and 0 the null cursor
with which a job starts and ends.

| Action | Code |
| --- | --- |
| `Start` | `load`, or nothing under `--start-over`; any mode and window (`maxBatches`), at any time, also beside another run |
| `Read` | `readBatch` and the loop up to its first correction |
| `Apply` | `applyMismatch`, idempotent for its operation key; it may throw with the correction done |
| `Save` | the save after a correction, with the cursor of the batch that is running; then the loop up to the next correction |
| `Close` | the save of the batch with its next cursor; the run is complete, out of windows, or goes on |
| `Crash` | the process dies; `run` also rejects when a call throws |

A dry run goes through the same loop without corrections and saves its cursor too. The field `dry` of a
checkpoint is history: it marks cursors that a dry run has moved. `corrected` stands for the effects of an adapter as
`docs/reconciliation-cli.md` requires it, idempotent for its operation key, and outlives a process; the reference adapter keeps its effects in
memory.

### StreamRecords (with StreamTimes)

The `streams` table under PATCH, DELETE, restore and the reads that follow a write. Of a row there is its
`updated_at` and whether it is live; the columns that PATCH sets make no difference to the lock. `view[c]` is what client `c` was
answered last, with the timestamp that came with it, and `stale`, which is history: somebody has written the stream since.

A tick is finer than a millisecond. `Create` leaves the stamp to the database and any tick is possible; `Update` and `Restore`
stamp with `new Date()`, a multiple of `PerMs`; `Ms` is what a timestamp becomes on its way through the driver into a Date.
`StreamTimes` has this arithmetic for both modules of the table.
There is no clock: a stamp is taken before its statement waits for a connection and for the row, on one of several
hosts, so a stamp may be any, and `tied` (history) remembers which streams had a write that was not stamped later than the one before.

| Action | Code |
| --- | --- |
| `Create`, `Get` | POST; GET of a stream or of a list |
| `Patch`, `PatchSeen` | `updateById` without and with the client's `updatedAt` in its WHERE |
| `Delete`, `Restore` | soft deletion, which leaves `updated_at` alone, and its reversal, which does not |
| `Reread` | `findById` after a PATCH or a restore, when others may have been at the row |

A PATCH that matches no row is answered with 404 and changes nothing, so it is not an action.

### StreamExport

The same table for the one handler that reads it in several statements. It is a module of its own because the two share
only rows that come and go: PATCH touches neither `created_at` nor the order, and the export neither reads nor writes
`updated_at`. `StartExport` is the head of the handler, `Page` one `findForExport` with the writes that follow it, `PageFails` its `catch`, which
ends the response. `CreateRow`, `DeleteRow` and `RestoreRow` come between any two pages, and a new row may have any `created_at` and any
place in the order of ids, which are random. `present` (history) are the rows that were live from the start on.

### LedgerCalls

`call[c]` is one call of a caller: its operation, where it waits, the attempt it is at. `wire[c][a]` is the
request of attempt `a`: unsent, with the server, holding a reply, or closed. It is a request's own and outlives the race
that waits for it, because `withTimeout` gives up a request and does not cancel it. `ledger` is the ledger that closes meanwhile,
and `executed` how often the network carried out a submission; `since` is history.

| Action | Code |
| --- | --- |
| `StartRpc`, `Wake` | the head of `rpcCall`'s loop, at first and after the backoff: the request goes out |
| `Deliver` | the reply is read; if its race is open, `parseResponse` and the `catch` follow |
| `Timeout` | the race ends without the reply: back off if the operation is a read with attempts left, or fail |
| `SubmitTransaction`, `Signed`, `NotSigned` | the two signer modes; the signer answers or throws |
| `SubmitSignedXdr`, `Submit` | one POST to Horizon, which has no timeout |
| `Serve`, `Close` | external: the server executes a request and replies in any way, or the reply is lost; ledgers close |

A reply is one of a few kinds that the code tells apart (`Kinds`), with the `latestLedger` of a read. `Outcomes` says
which of them go with a submission that was carried out: a result does, an error of JSON-RPC does not, and a lost, garbled or failed
reply says nothing. Timers end at any time: nothing relates their lengths to the speed of the server.

### RedisGate

`client`, `connected` and `failureReported` are the module's variables, `conn[i]` the clients that
`getRedisClient` has created, `request[r]` a request on its way. A step is what the process does between two macrotasks: the
promise of `connect()` resolves in the microtasks after its `ready` event, so that event, the rest of
`getRedisClient` and the rest of the guard are one step. `Init` chooses whether `REDIS_URL` is set and
`REDIS_REQUIRED_FOR_MUTATIONS` true.

| Action | Code |
| --- | --- |
| `Unauthorized` | `apiKeyAuthMiddleware`, which is first |
| `Pass`, `Disabled`, `Open` | the guard up to its await: not needed or connected, no URL, a client of its own |
| `Connected`, `Unavailable` | `connect()` resolves or rejects; the guard goes on, or answers 503 |
| `Respond` | the limits on the body, the handler and the answer |
| `Lose`, `Retry`, `Ready` | `error` and `ready` events of any client, the module's or not |
| `Quit`, `Closed` | `closeRedisClient` before and after its await |
| `Outage`, `Return` | external: the server goes away and comes back |

Whether node-redis keeps trying, and for how long, is its own affair: `connect()` may reject or go on. A client stays `ready` while its
`quit()` is awaited, as its socket is open until the server answers, although node-redis refuses new commands from then on:
`AnswerIsLive` and `FailsClosed` are about connections, and `closeRedisClient` is primarily for tests.

## 4. What the runs check

| Run | Instance | Shows |
| --- | --- | --- |
| `outbox` | 2 keys, 2 workers, 1 fault; PostgreSQL with one key that has no handler, and memory with one key that is poison with `max_attempts` 2 | `OneValidClaim`, `DuplicatesHaveACause`, `TerminalIsFinal`, `DeadWasTried`, `CountedPoisonIsBounded`, `ImplementsContract`, `EventuallySettled` |
| `metering` | 2 streams, 3 event ids, sequences 1..3, gap 1, 2 callers, both stores, 1 fault | `Contiguous`, `RetryIsHarmless`, `CollisionsCrossStreams`, `ImplementsLedger` |
| `events` | a new and a migrated id, 2 payloads, 3 callers, both stores, 1 fault | `AcceptedOnce`, `BoundToOnePayload` |
| `webhook` | 1 delivery, 3 polls of 2 processes, 2 attempts, leases of 2 ticks, 1 fault | `NoConcurrentSend`, `AttemptsAreCounted`, `SuccessIsKept`, `EventuallyDone` |
| `reconciliation` | 3 mismatches in batches of 2, 2 runners, windows 1 and 2, 2 faults | `NothingLeftBehind`, `LosesAtMostOne`, `KeptIsNotRepeated`, `EventuallyCorrected` |
| `streams` | 1 stream, 3 clients, 2 ticks a millisecond, 6 ticks | `StaleIsRefused`, `CurrentIsAccepted` |
| `streams_export` | 3 streams in pages of 2, 2 ticks a millisecond, 6 ticks | `ExportIsComplete`, `RepeatsShareTheMillisecond`, `ExportEnds` |
| `ledger` | 1 call of any operation, 3 retries (the default), 2 more ledgers | `AnswersAreFresh`, `OutcomeIsTrue`, `CallsEnd` |
| `redis` | 2 requests, each again and again, 2 faults, all four deployments | `AnswerIsLive`, `FailsClosed`, `Recovers` |
| `outbox_attempts` | 2 keys, 2 workers | finding 1: `PoisonIsBounded` fails |
| `events_postgres` | PostgreSQL only | finding 2: `InProgressIsTrue` fails |
| `webhook_release` | 2 polls of one process | finding 3: `LeaseIsReleased` fails |

Each property has a mutation of the code in `PROJECT.json` that breaks it.

Bounds, and why they are enough:

- *Workers, callers, polls.* The protocols compare one process with "some other": a row has one
  token, a lock one holder, a key one value. Two actors show every race between a
  holder and its successor. A third caller of `IndexerEvents` and a third poll of `WebhookDelivery` let
  two of them race behind the one that has finished. The theorems hold for any number.
- *Rows.* Outbox rows meet in the order and limit of a batch, in the choice that `SKIP LOCKED` leaves and in the loop that is
  dropped by an error: with two rows one of a batch is settled and the other dropped. A limit that passes over a row is a choice `SKIP
  LOCKED` offers anyway. Deliveries meet in the barrier of a batch only (`Promise.all`), which delays a `Send` until the leases of the others are
  decided; with one delivery a `Send` may already come arbitrarily late, so nothing new follows from two. Streams do not
  meet in `StreamRecords`. Three event ids over two streams fill one stream to 2 and reuse an id in the other. Three rows in pages of two make
  an export of two pages, or more when it repeats.
- *Stamps.* With two ticks a millisecond and three milliseconds there is a stamp that a Date can hold and one that it
  cannot, an earlier and a later write, and a tie.
- *Sequences and gaps.* With `MaxGap` 1 and sequences up to 3, an empty stream meets "next", "gap" and
  "gap too large", a filled one "late". The constant of the code only moves the second boundary.
- *Counters.* `AttemptsCap` is at least every `MaxAttempts`, and beyond it the code's comparisons and
  delays no longer change; `delivered`, `accepted` and `sent` saturate where their properties stop
  counting. In `Backoff` a first retry waits one tick and a later one two.
- *Tokens.* Four never run out: a PostgreSQL worker holds one, and one fault orphans at most one more; an
  in-memory worker holds at most two, one per row.
- *Calls.* Callers of the ledger share nothing but the ledger itself, which closes at any time: one shows all there is. Two more ledgers
  let an abandoned answer, the answer to a retry and the ledger at the last send differ.
- *Requests and clients.* Two requests are one that waits and one that overtakes it. With two faults at most six clients are open at
  once, so the set of six never keeps a request from opening one.
- *Leases and delays* of one or two ticks let a lease end before, between and after any two steps.
- *Records.* Three records in batches of two have a full batch with a correction behind a correction, a
  short last batch, and a cursor between them. All three differ: a record that does not is passed over by every run.
- *Windows.* One batch ends a run at the cursor, two end it with the job.
- *Faults.* One per behaviour, and two in `reconciliation`, where a second failure meets a checkpoint that the first
  left behind its corrections. The safety theorems allow any number.

`events` and `metering` are checked under symmetry of callers, ids and payloads. No run with a liveness property uses symmetry.

Deadlock is checked everywhere but in `ledger`, where a caller makes one call and stops: elsewhere time always passes, or a
caller can always deliver.

## 5. Fairness

Only liveness runs use it.

- *Outbox* (`FairSpec` of `SettlementOutbox`): weak fairness of every worker's `Claim` and of its steps, and of
  `Tick`. The steps are justified by handlers and database calls that end. `Claim` is an assumption on the
  deployment: the repository has no caller of `processDue`, and the outbox delivers nothing without one.
- *Webhooks* (`FairSpec` of `WebhookDelivery`): weak fairness of `List` (the `setInterval` started in `index.ts`), of a
  poll's steps (the request is aborted after ten seconds, database and Redis calls end) and of `Tick`.

- *Reconciliation* (`FairSpec` of `Reconciliation`): weak fairness of a run's steps (its calls end) and of `Resume`: each runner
  that is idle starts the job again in apply mode, which an operator or a scheduler has to do.
- *Calls to the ledger* (`FairSpec` of `LedgerCalls`): weak fairness of what a caller's own timers and the development signer end, and of reading a
  reply that has arrived. Nothing is asked of the server or of the holder of an external key. A call ends all the same, except a submission that
  Horizon leaves unanswered.
- *Redis* (`FairSpec` of `RedisGate`): weak fairness of a connect while the server can be reached, of a client's reconnecting (node-redis goes on
  by itself), of the handler and of the end of `quit()`. Nothing is asked of the server: `Recovers` is about behaviours in which it stays
  reachable. Its second half has the premise that guarded mutations keep coming (strong fairness of their arrival), as the module reconnects only when asked.
- *Export* (`FairExportSpec` of `StreamExport`): weak fairness of `Page`: the loop of the handler goes on by itself and its queries end.

Nothing is assumed about `Enqueue`, `Crash`, failures, answers of a subscriber or handlers. The liveness
properties are conditional. `EventuallyCorrected` excepts behaviours in which dry runs, or runs that start over, come
again and again: both move the cursor of the job. `ExportEnds` excepts behaviours that meet again and again a
millisecond with as many rows as a page, because such a page is then read for ever. For the other two, weak fairness lets a worker be slower than its
lease every time, and then rows change hands for ever. `EventuallySettled` and `EventuallyDone` therefore say that every row ends *or* claims outlive
their leases again and again. `EventuallySettled` excepts the poison rows of PostgreSQL (`Endless`), which are
never buried (finding 1); in memory the poison row is included and dies.

## 6. What is proved

The theorems hold for any finite set of keys and any sets of workers, tokens, streams, events, callers and
payloads, any bounds and any number of faults. They assume the `ASSUME`s of their module: constants have
their types, a "null" value is none of the values it stands for, `max_attempts` does not exceed `AttemptsCap`.

**SettlementOutboxProofs.** `TypeCorrect`, `ValidClaimIsUnique`, `DuplicatesAreCaused`, `TerminalStaysFinal`,
`OutboxImplementsContract`, `DeadWereTried`, `CountedPoisonIsBuried`, `PostgresNeverBuries`. The inductive invariant is `IInv`, type correctness with three parts:

- `Fencing`. `OneValidClaim` alone is not inductive: that at most one *holder* has the row's token says nothing
  about the token a new claim draws. So: a row has a token exactly while it is processing
  (`TokenIffProcessing`), the tokens of two workers are disjoint (`TokensApart`, kept by drawing fresh ones), a worker
  holds a key once (`OneClaimPerKey`). A settled row has no token, no claim can match it, hence
  `TerminalIsFinal` for the PostgreSQL store too, whose update does not look at the status.
- `AckingIsDelivered`: who acknowledges has delivered. It makes `Ack` a step of the contract.
- `Causes`: a row without a cause of redelivery is clean. Its lease has not ended, every claim of it carries
  its token, and its effect ran at most once, by the claim about to be acknowledged or by the one
  that was. A second delivery would need a second claim, and a second claim a lease that ended or a failed
  attempt, which are causes.

The refinement goes action by action: `Enqueue` is `Record`, the handler is `Deliver` (with or without effect), `Ack` with a
matching token is `Succeed`, an `Ack` or `Nack` without one is a stutter.

`DeadWereTried` and `CountedPoisonIsBuried` compare the counter in a row with the number of times the row was claimed, which is history.
`Counting` says that no row and no claim in flight counts more than was claimed (`NotOvercounted`), so whoever is buried for reaching
`max_attempts` was claimed as often, and that in memory a row and the valid claim of it count exactly as much
(`MemoryCounts`), so the failure that ends the last allowed claim buries the row. Saturation at `AttemptsCap` keeps both orders.
`PostgresNeverBuries` is the other side: on PostgreSQL every row and every claim counts 0 (`NothingIsCounted`), so no failure is ever the
last, for any `max_attempts` but 0.

**MeteringCheckpointProofs.** `TypeCorrect`, `SequencesContiguous`, `RetriesAreHarmless`, `CollisionsAreForeign`,
`CheckpointsImplementLedger`. `Contiguous` alone is not inductive, because what a transaction has read must still hold when it
inserts. `IInv` adds: two transactions past their lock have different streams (`OnePerStream`), the
event that was looked for is still absent or another stream's (`StillAbsent`), the sequence that
passed is still the next (`StillNext`), no two rows share stream and sequence (`Unshared`). Only a
transaction of the same stream could falsify the middle two, and the lock excludes it. A collision of
the hash of two streams only delays; the proof needs nothing of `Hash`.

**IndexerEventsProofs.** `TypeCorrect`, `EventsAcceptedOnce`, `EventsBoundToOnePayload`, `PostgresAcceptsNothing`, `InProgressIsTrueInMemory`. `IInv` relates a row to the answers
given so far (`RowSaysAnswers`) and to the calls that are going to complete it (`ClaimsStand`: at most one per event, and its row is
still the one it claimed). The last two theorems are about one store each. On PostgreSQL no call ever reaches its completion
(`NothingCompletes`), so nothing is accepted and no payload acknowledged. In memory a row that is processing has a call that is going to complete it
(`SomeoneCompletes`), so the answer 409 is true there; `InProgressIsTrue` fails on PostgreSQL only.

**WebhookDeliveryProofs.** `TypeCorrect`, `SendsExclude`, `AttemptsCountRequests`, `RequestsAreBounded`, `SuccessStays`, `AttemptsGoUpByOne`,
`KeysOnlyExpire`, for any finite set of polls, any deliveries, processes, limits and delays. That no two requests are in the air says nothing of a poll that is about
to send what it listed long ago. `IInv` says it (`Sound`): of a delivery that met no cause of redelivery, every poll with a lease has its own nonce in the key, and
found the row as it still is, due and with the attempts the poll has read; and the requests sent are the attempts recorded
and the one in the air. Two polls would both have their nonce in one key (`OneHolder`), so at most one request is uncounted (`LoneSender`), and
who writes a result has found the row due, hence not succeeded. `RowsAreOpen` and `JobsAreOpen`, that what is pending has attempts left, give
`RequestsAreBounded`, which no run states: without a cause a delivery takes at most `max_attempts` requests. Nor does a run state
`AttemptsGoUpByOne`: who writes a result has read the attempts that the row still has, so its count is one more, never an older one. `KeysOnlyExpire` is finding 3 for every
instance: the owner that `release` compares is never the value of a key (`ReleaseMisses`), so keys go with time only.

**ReconciliationProofs.** `TypeCorrect`, `NothingIsLeftBehind`, `AtMostOneIsLost`, `SavedIsNotRepeated`, `RunsOnlyProgress`, for any number of records, runners and faults and any windows. That
the mismatches before the stored cursor are corrected depends on the copies that runs are about to save. `IInv`: every
checkpoint, stored or copied, is honest (`Honest`: its processed records are corrected and, unless its cursor was moved by a dry
run, so are the mismatches before it), and an apply run has corrected what is behind its loop (`BehindLoop`). Overlapping runs
need no exclusion for this: corrections are never taken back, so a copy that was honest stays honest, and a
run that saves over another's checkpoint moves the cursor but not the truth of it.

`AtMostOneIsLost` and `SavedIsNotRepeated` are about runs that follow each other, and rest on a second invariant, `SeqInv`: one run at a time, whose copy is the stored
checkpoint or one correction ahead of it (`Sequential`); and, without dry runs that move the cursor, corrections come in the order
of the source, so whatever is missing in the checkpoint comes after recorded corrections only (`Ordered`). Two missing ones
would each come first.

`RunsOnlyProgress` says why a run ends whatever others do to the checkpoint: it goes by its own copy, and every step of it reaches a later
batch or a later point of the same batch (`Later`), both bounded.

**StreamProofs.** Both modules of the streams table, over the lemmas about `Ms` that they share (it rounds down, is monotone and
idempotent). It carries the assumptions of both, although the theorems of `StreamRecords` use none of `StreamExport`'s about ids.

Of `StreamRecords`: `RecordsTypeCorrect`, `StaleUpdatesAreRefused`, `CurrentUpdatesAreAccepted`, `FreshStreamsAreRefused`, for any streams and clients, any
precision of a Date and any order of stamps. The inductive invariant `RecordsInv` says how a view's stamp stands to the row's: of a stream without
ties a view's stamp is never later than the row's, and that of a stale view is strictly earlier; a view that is current
has the stamp of the row as a Date holds it, which is the stamp itself once the stream has been written. While it is not,
that is, on a new stream whose stamp has more digits, no view matches (`FreshStreamsAreRefused`).

Of `StreamExport`: `ExportTypeCorrect`, `ExportsAreComplete`, `RepeatsAreInTheMillisecond`, `PagesMoveOn`, for any finite set of rows, any page size and precision.
`ExportInv` says where the cursor is between what was written and what was not: a row that was there all along and
is not written yet is beyond the cursor (`NothingPassedOver`), and no row that is written was created after the cursor's millisecond
(`WrittenIsBehind`). That a page keeps the first needs that the rows of a page come before those it leaves (`PageIsFirst`, by
counting the rows ahead) and that rounding down never puts the cursor beyond a row; that it keeps the second, that rounding
is monotone. `PagesMoveOn` is the step that `ExportEnds` rests on: a page that leaves rows is full (`FullPage`: the first row it leaves has a page
of rows ahead), so if it does not take the cursor into a later millisecond, all of it lies in the one where the cursor was.

**LedgerCallsProofs.** `TypeCorrect`, `ReadsAreFresh`, `SubmissionsAreReportedTruly`, `CallsOnlyProgress`, `SubmissionsAreSentOnce`, for any
number of callers, retries and ledgers.
Callers share only the ledger, so the invariant is one of a single caller (`Sound`): requests beyond its attempt are unsent, an answer to its
last attempt is not older than the sending of it (`Fresh`), and the one request of a submission is carried out when it is served
and not before, with a reply that promises no more (`Counted`). Abandoned requests are in it, and need nothing: their race is over. That a
submission is never sent twice, not even after a timeout, is `SubmissionsAreSentOnce`. `CallsOnlyProgress` gives a call a number of
steps left (`StepsLeft`: two for each attempt, and the place within it) that everything that happens to the call lowers.

**RedisGateProofs.** `TypeCorrect`, `MutationsFailClosed`, `LoneAnswerIsLive`, for any number of requests and faults and any finite set of clients. `FailsClosed` follows
from `GaugeIsTrue`: the flag is set only while *some* client is connected. It is inductive because every `error` of any client clears the flag, so
it never outlives a loss, and every `ready` that sets it is of a client that is connected then. `Kept` says that the module's
client has not been given up, and `OwnClients` that no two requests wait for one client. For `AnswerIsLive`, a flag
that is set while the module's client is down means that a second client is open.

Only model-checked: the six liveness properties (`EventuallySettled`, `EventuallyDone`, `EventuallyCorrected`, `ExportEnds`,
`CallsEnd`, `Recovers`), as liveness under fairness is beyond the prover; and the three properties that are violated. Every other
property of a run is stated by a theorem. Where something ends because it only goes forward, the safety half is proved and only the
fairness is left to the runs: `CallsOnlyProgress` for `CallsEnd`, `PagesMoveOn` for `ExportEnds`, `RunsOnlyProgress` for the runs
that `EventuallyCorrected` needs to end.

## 7. Findings

1. `outbox_attempts`: the PostgreSQL `claimDue` does not count attempts, although `docs/settlement-outbox.md` says
   that claiming does; the in-memory store does count. A row that always fails is retried for ever, each time after the shortest delay
   (`PostgresNeverBuries`, for every instance).
2. `events_postgres`: the PostgreSQL `claim` inserts a row and then reads it back as someone else's. It never answers
   "claimed", so every new event is answered 409 `settlement_in_progress` and its row stays `processing`. So
   `accepted` is given by the in-memory store only, and on PostgreSQL `AcceptedOnce` and `BoundToOnePayload` hold because
   nothing is accepted (`PostgresAcceptsNothing`). Their runs and proofs cover both stores, and the interesting case is the in-memory one.
3. `webhook_release`: `release` compares the key with the owner, `acquire` writes owner and nonce. No lease is ever
   deleted, so a retry due in 5 seconds waits for the 30 seconds of its lease
   (`KeysOnlyExpire`). `EventuallyDone` holds because leases expire.

Not runs, but met on the way. `docs/settlement-outbox.md` says that a row with an expired or replaced lease is never
acknowledged. Replaced holds (`OneValidClaim`, proved). Expired does not, as the update compares the token only; that is
harmless: the effect has run, and nobody else has the row. The migration journal (`drizzle/meta/_journal.json`) does not list
`0003_add_settlement_outbox` and `0003_settlement_idempotency`. The models take the tables from `db/schema.ts`.

A dry run of a reconciliation saves its cursor under the job id as an apply run does. If it stopped behind a batch (`maxBatches`,
or an error), an apply run of the same job starts behind the mismatches that the dry run only reported, corrects the
rest and returns `complete: true`. `docs/reconciliation-cli.md` runs both with one job and one checkpoint and says that inspection is
separate from mutation. `NothingLeftBehind` excepts such cursors and shows that no other cursor runs ahead.

`HorizonNetworkClient` sets no timeout, unlike `SorobanClient`: `CallsEnd` excepts a submission that Horizon leaves unanswered. A 2xx answer with
a body it cannot read is reported as a submission with the hash "unknown". That is true (`OutcomeIsTrue`), but leaves the caller nothing to look it up by.

`connect()` is awaited without a limit too. While node-redis keeps trying, a guarded mutation waits, and it is answered
503 only once `connect()` rejects; `docs/REDIS-OUTAGE.md` promises the 503 during an outage.

Three of the properties carry an exception that marks a defect.

- `AnswerIsLive` excepts a second open client. "Returns the singleton Redis client, or null if unavailable" (`cache/redis.ts`): calls that
  meet no connection each create a client, as do calls during an outage beside the client that is reconnecting. The last to connect is kept, the others stay open for good,
  and their events go on setting the flag. So `getRedisClient` may hand out a client that has lost its connection. `FailsClosed` is what remains true.
- `CurrentIsAccepted` excepts streams that nobody has written since their POST. `updated_at` is then the database's `now()`, in microseconds; the
  client gets milliseconds, and the comparison of `updateById` is not true for them unless the microseconds happen to be zero. `api/v1/schemas.ts`
  calls the field "Expected current timestamp for optimistic locking.", but the first PATCH that uses it is
  answered with 404 "Stream not found or update conflict".
- `RepeatsShareTheMillisecond` and `ExportEnds`: `findForExport` calls its cursor exclusive, but it is cut to
  milliseconds, so the last row of a page is beyond its own cursor and comes again at the head of the next, unless its
  microseconds are zero. If a page of 500 rows that is not the last lies in one millisecond (a bulk insert: `now()` is that of its transaction), the
  same page is read again and the response does not end.

## 8. Not modelled, and what is left

Left out of modelled components, because no state changes or nothing calls it: signatures, JSON and payload parsing, status
codes and metrics; `reset` of the stores; `InMemoryJobLease`, a test double; `pruneDeliveries`; creating and
listing subscriptions; the counters `scanned` and `mismatches` of a reconciliation, which are reported and never read, and its rejections
of options and malformed records; the temporary file that overlapping processes of the CLI share when they save. A record
that starts to differ after a job has passed it needs `--start-over`. A restart of a process with in-memory stores loses them, which is what they are for: those
models cover one life of a process. Enqueueing outside the settlement's transaction has no caller to be seen in; starvation by full batches is
a hazard without a property, as no batch of the instances is smaller than the table. Of the gateway and the API keys there is what `RedisGate` needs, the order of the guards: the key store is synchronous, and
adding, revoking and refreshing keys have no caller in the repository.

Not modelled yet, in the order of the plan:

- the pure operators: accrual, decimal parsing, retry delays.

Not planned: rate limits and `auth.ts` (not wired), the audit log and the stream cache (no caller), wiring, configuration,
observability and static documents, which keep no state the program reads.
