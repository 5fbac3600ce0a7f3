# Verification of the AI ticket triage service

TLA+ models of the service's core, TLC runs that check them on small instances, and TLAPS
proofs of the results that matter most. Paths below are relative to the repository (`src/`).

Contents: [inventory](#1-inventory) · [modules](#2-modules-and-how-they-correspond-to-the-code) ·
[runs](#3-runs-bounds-and-what-they-show) · [fairness](#4-fairness) · [findings](#5-findings) ·
[proofs](#6-proofs) · [limits](#7-what-is-not-modelled-and-known-limits) · [plan](#8-plan)

## 1. Inventory

Two processes share Postgres (authoritative) and Redis (a cache of read models). They never call
each other: a ticket's `status` column is the queue between them.

| Component | State it keeps | Operations | Interacts through |
|---|---|---|---|
| **API intake** (`api-service/app/services/ticket_intake_service.py`, `deps.py`, `db/session.py`) | none of its own; one session and one pooled connection per request | `POST /tickets`, `GET /tickets/{id}` | rows of `tickets`, `ticket_events`; the unique index on `(source, external_id)`; the pool |
| **API test embeddings** (`embedding_persistence_service.py`) | one transaction per request | `POST /tickets/{id}/embeddings/test` | the same embedding and ticket rows as the workers, and their locks |
| **API reads** (`ticket_query_service.py`, `cache/redis_cache_store.py`) | entries in Redis, with a TTL per family | status, routing, draft and events of a ticket; similarity search | fills entries that both processes delete |
| **Worker loop** (`ai-worker/worker/main.py`) | the batch it listed | poll, one transaction per ticket, commit or rollback | lists `pending_embedding` tickets; claims nothing |
| **Workflow** (`services/ai_workflow_service.py` and the services it calls) | the writes of its open transaction | embed, classify, retrieve, suggest, finish; the failure handler | row locks and partial unique indexes of Postgres; `DEL` in Redis |
| **Providers** (`providers/*`, `classification_policy.py`) | attempt counters inside one call | embed, classify, suggest, with retries; policy; fallback | outcomes feed the workflow's rows |
| **Schema** (`api-service/alembic`) | CHECK constraints and three partial unique indexes | migrations | refuses or delays writes |
| **Shared contracts** | keys, DTOs, taxonomies | pure functions | both processes |
| **Readiness** (`readiness_service.py`) | none; one session per probe | `GET /ready` | the pool that posts use; a PING of Redis |
| **Benchmark tooling** (`scripts/phase4_benchmark`) | the seeded tickets, the manifest file, one run | seed, clear, run in four modes | the API's reads and their `X-Cache-Hit` header, the keys in Redis, the Redis container |
| Request ids and access log, routing persistence service, start-up | – | – | see [section 7](#7-what-is-not-modelled-and-known-limits) |

What is hard here, and what each component has to get right:

* **Several workers.** `list_by_status` neither locks nor claims, so two workers run the whole
  pipeline on one ticket. What keeps the tables consistent is the order of row locks and two
  unique indexes, not the code's own checks. Correct: one active embedding, no two pending
  drafts, status and audit trail agree, no session waits for ever.
* **One transaction around many awaits.** Provider calls, retries and Redis deletes run inside it.
  Correct: only whole runs become visible; a failed run leaves exactly its failure.
* **Process deaths.** A dead worker loses its transaction and the rest of its batch; the ticket is
  still pending and must be found again. Correct: every healthy ticket is settled in the end.
* **Cache beside a transaction.** Keys are deleted before the commit; reads fill from what they saw
  before. Correct: nothing uncommitted is cached, every write is followed by a delete of its keys,
  staleness ends by the TTL, an outage of Redis changes answers' speed only.
* **Retry loops with two counters.** A malformed answer and an error count differently.
  Correct: budgets hold, and the recorded reason is the true one.
* **The response leaves before the commit.** With the locked FastAPI release the code after `yield`
  in `get_db_session` runs when the response has been sent. Correct: an external id never has two
  tickets, a failed post leaves nothing, and an accepted ticket appears unless its commit is lost.
* **Rows ordered by a time they share.** `created_at` is `now()`, the start of the transaction: all
  rows of a run have the same, and transactions commit in any order of it. Correct: no trail shown
  mixes transactions, and the decision shown is one no later run has replaced.
* **A tool that stops Redis.** The benchmark stops the container and must start it again whatever
  raises in between; its validity flags are all that tells a cache measurement from another.

`PROJECT.json` lists the hazards one by one, each at its line and with the properties that cover it, or why none does.

## 2. Modules and how they correspond to the code

### TicketTriage: the pipeline on Postgres

Sessions are workers (`main.py` `run`) and test-embedding requests. `pc[s]` is the statement a
session is about to execute, `tx[s]` its uncommitted writes, `cur[s]` the ticket of its open
transaction, `want[s]` the rows an `UPDATE ... SET is_active = false` found in its snapshot; the
other variables are the committed tables. Each statement of the code that reads or locks a row is
an action: `ListPending`/`Poll` (list_by_status and the loop), `Begin` (get_by_id, the guard of
`process_ticket`, the started event), `LookupEmbedding`, `Scan` and `Deactivate` (the two halves of
the UPDATE: find rows, then wait for and change them), `StoreEmbedding` (the INSERT into the
partial unique index), `MarkEmbedded`, `Classify`, `Retrieve`, `SuggestSucceeds`/`SuggestFails`,
`FinishRouted`, `MarkFailed` (the except clause), `Commit`, `Rollback`, `Fault` (death of a worker,
or of a request's connection), `Restart`.

READ COMMITTED is modelled by what the statements see: committed tables plus the session's own
writes. An UPDATE waits for another transaction that changed the row (`TicketRowBusy`,
`EmbeddingRowsBusy`), an INSERT for a conflicting index entry (`ActiveIndexBusy`,
`DraftIndexBusy`), and fails when the conflicting row is committed (`ActiveIndexTaken`,
`DraftIndexTaken`). Rows are named by the session that wrote them. Provider outcomes and whether
retrieval finds a usable neighbour are left open. `CreateTicket` is one step here; `TicketIntake`
opens it up. `Poison` is the set of tickets whose embedding row Postgres refuses.

### TicketLifecycle: the abstract life of a ticket

No transactions, batches or locks: received, settled at most once per processor, or marked by a
test embedding. `TicketTriage` implements it under a refinement mapping (`status`, and the
workers that have a committed run in the audit trail).

### ReadModelCache: one ticket's entries in Redis

Writers (runs, test embeddings, `create_ticket`) go through the stages of the code; `Written` and
`Deleted` say what each stage writes and which keys it deletes, one Redis call at a time, before
`Commit`. Readers follow `TicketQueryService`: `Hit`, `Miss`, `Evict` (unreadable entry), `Load`,
`LoadNothing`, `Fill`. `Expire` is the TTL; `RedisStops`/`RedisStarts` an outage after which
the entries are gone (`--appendonly no`) or back from a clean stop's snapshot. A row is abstracted to the transaction that wrote it, which is
what staleness is about.

### SimilarityCache: cached result sets

`Key` is `similarity_key` over the defaulted filters, `Search` the query over the raw ones.
`past` remembers every content of the embedding table, so that "an answer was once true" can be
said. Vectors are abstracted to the order of their distances from a query.

### ProviderCalls: retries, fallback, policy

One run's calls: `_with_retries` of the embedding and suggestion services, the classification loop
with its errors and malformed answers, `Policy` (= `apply_classification_policy`), `Fallback`, and
the routing rows of `Persist`. Scores are integers (percent) around the thresholds.

### TicketIntake: posts, gets and readiness probes of the API

`step[p]` is how far a post's handler is: `Acquire` (the first statement takes a connection) or
`PoolTimeout`; `Insert`, which waits while another transaction holds the same key, or `Refuse`
(the priority check or the unique index); `AppendEvent`; `Respond` (201); and only then `Commit`.
`Lose` drops one connection, `Crash` ends the process with every open request. `Get` reads by the
id the client was told. A post in `"arrived"` has been sent to this process or to the next one
after a crash. A probe of `/ready` is a third kind of request: `Ping` (SELECT 1, which takes a
connection), `PingFails` (any exception, an exhausted pool included, counts as Postgres being
unreachable), `PingRedis` with the connection still in hand.

### TicketHistory: the trail and the latest decision, row by row

`begun` is the order of the transactions' `now()`, `stage` how far each is; `Commit` makes a
transaction's rows visible. A worker's `now()` is that of its poll, so it may be earlier than the
intake of a ticket the poll then finds (`Begin`, `Find`, `FindNothing`). `list_for_ticket` is
the *set* of all orders of the committed events that are sorted by their transactions' `now()`, as
`ORDER BY created_at` says no more, and `get_latest_for_ticket` the set of all decisions whose
`now()` is the last. `Summary` is the cut at `cache_events_max_items`, `DtoAccepts` the limit of the DTO, which
is not caught. Staleness of entries is `ReadModelCache`'s subject; here an entry may vanish at any
time (`Vanish`).

### BenchmarkRunner: seeds, runs and the Redis container

`StartSeed` ... `SeedWritesManifest` are `run_seed`, with the old tickets deleted and committed
before the new ones, and the manifest written last. A run goes through `phase`: `StopRedis`,
`ApiAnswers`, preflight (`Flush`, `PreflightReads`, `PreflightScan`), the second flush of a cold run
or the check of a redis-down run, `Warmup`, `Measure`, `Report`, and always `Restart` (the
`finally`). `Fail` is an exception anywhere in the body. `named` and `mapped` say whether the
container name and `REDIS_URL` given to the runner are those of the API's Redis: nothing checks
that they are. The API's answers are `Found` (which endpoints look the ticket up first) and `Reply`
(hit or miss, as `X-Cache-Hit` tells).

Operators introduced by "Faulty variant" in a comment are not part of a model: each is a plausible
bug of the definition that follows it, kept to show that a property can fail.

MC modules (`MCTriage`, `MCCache`, `MCHistory`, `MCSimilarity`, `MCProviders`, `MCIntake`,
`MCBenchmark`) name constants, give them values and, in `MCBenchmark`, bound the search; `*_proofs` modules hold the proofs.

## 3. Runs, bounds and what they show

| Run | Instance | Shows |
|---|---|---|
| `triage_contention` | 1 ticket, 2 workers (one forces new embeddings), 2 requests, 1 fault | one active embedding, its writer alone, drafts never collide, status agrees with the trail, runs are whole, no lock cycle, no worker repeats a ticket; every transaction ends; the fair `TicketLifecycle` is implemented |
| `triage_batch` | 3 tickets, 1 worker with batches of 2, 2 requests, 1 fault | a routed ticket has an active embedding; only a test embedding takes a ticket out of `routed`; the fair `TicketLifecycle` is implemented, so every pending ticket is settled although the worker may die with its batch |
| `triage_poison` | 2 tickets, one poisoned, 1 worker | *violation* (section 5) |
| `triage_routed_final` | 1 ticket, 2 workers | *violation* (section 5) |
| `cache_faults` | 1 run, 1 test embedding, 1 reader, 1 fault | only committed rows are cached; a transaction that is about to commit has deleted every key it wrote; a client told `routed` finds a decision; entries converge to the committed rows; every read is answered, even when Redis never returns |
| `cache_after_commit` | 1 run, 1 request, 1 reader, no fault | *violation* (section 5) |
| `similarity_named` | 2 tickets, 2 models, all clients name a model | every answer is what its own request found at some time |
| `similarity_default` | the same, some clients name none | *violation* (section 5) |
| `provider_defaults` | the default settings, scores at and next to each threshold | call budgets, failure only when spent, the reason tells the cause, only confident tickets reach a team unflagged |
| `intake` | 4 posts (3 with one external id, 1 refused by the table), 1 readiness probe, 2 connections, 2 faults | one ticket per external id, failures leave nothing, duplicates are refused only for stored tickets, a ticket once found stays found, accepted tickets appear, every post and probe ends |
| `history` | 2 runs, of 2 events and of 1, 1 test embedding of 1 event, 1 reader, a cap of 3 events, a DTO of 4, 1 lost transaction | no trail shown mixes transactions; long trails are answered; the decision shown is of a run that none with a later `now()` had overtaken |
| `benchmark` | 1 run in any mode, 2 seeds, 1 fault | Redis is left as found; a report not marked invalid is about its mode; what a report says of a ticket was measured while the ticket existed |

Why these bounds are enough for the questions asked. Conflicts are between transactions on *one*
ticket, and every lock is between two of them; two workers and two requests give each pair, and
a third party to close a cycle. Queue order needs more tickets than a batch holds, hence 3 tickets
and batches of 2. One fault at any point is enough to lose a transaction; two, in `intake`, let a
second request be lost as well. The cache needs two writers, a run and a request, because a read may straddle one commit and be
overtaken by the next; its safety properties are proved for any number (section 6). A trail of
five events, the intake's included, is longer than the cap and the DTO of `history`; one run with two
events is enough for another transaction to come between them, and three transactions give a first,
a last and one between them. One benchmark run is enough, as a run keeps nothing but what is in Redis and
the manifest, both of which are arbitrary when it starts; with two seeds the tickets can be replaced
before, during or never. The provider run uses the shipped retry limits, so its loops are not
shortened. Three posts of one id give a holder, a waiter and a latecomer, and two connections are
fewer than the waiters need. Bounds that are not settings of the program: `MaxFaults`,
`MaxStores`, `MaxEntries`, `MaxSeeds`, `MaxRuns`, and the constraint `LastRunIsNotOver` of
`MCBenchmark`, which ends the search with the last run; where section 6 proves a property, it holds
for every value of them.

`CHECK_DEADLOCK FALSE` stands in `provider_defaults` (a run ends) and `intake` (all posts end).

## 4. Fairness

Weak fairness only. A worker or a request takes its next statement if it stays possible
(`WorkerStep`, `RequestStep`, `WriterStep`, `Serve`, `Proceed`, `Probe`): asyncio runs what is ready, and
Postgres grants a lock that is free. A dead worker restarts (`restart: unless-stopped`,
`docker/docker-compose.yml`), which presumes that Redis answers at that moment:
`verify_connectivity` pings it, and a worker that dies while Redis is away keeps failing to start. A provider call ends, with an answer or an error; the OpenAI client
has the library's default timeout. Entries expire, since every `SET` has a TTL. Nothing is assumed
of faults, of Redis coming back, of clients asking, or of a client sending its test embedding to
a ticket that was never created.

## 5. Findings

Each is a run that TLC reports as violated, with the documentation it contradicts quoted in
`PROJECT.json`.

1. **Routed is not final with two workers** (`triage_routed_final`). The guard in `process_ticket`
   reads the object the poll loaded; a second worker that listed the same ticket processes it again
   and may set `failed`.
2. **A poisoned ticket starves the queue** (`triage_poison`). After an error of the database the
   failure handler's UPDATE fails in the aborted transaction, `run()` rolls back, and
   `str(ticket.id)` in its log call reads an expired attribute and raises out of the loop. The
   worker restarts and meets the same oldest ticket.
3. **Keys are deleted before the commit** (`cache_after_commit`), so a read in between caches the
   old row until its TTL, although the documents say "after durable Postgres writes".
4. **A similarity key without the model** (`similarity_default`). A request without a model searches
   all models, and stores the result under the key of a request that names the default one.

Not a finding, but worth knowing: `triage_batch`'s `RoutedHasEvidence` holds with one worker. With
two workers and two test embeddings of different texts a run may reuse an embedding that another
run has retired and not replaced, and still commit `routed`.

## 6. Proofs

All statements hold for every value of the constants that satisfies the module's ASSUMEs, which
only say that sets are disjoint or finite and that settings are numbers in range. `RoutedLeftByTestsOnly`
assumes one worker, and `RoutedTicketsHaveEvidence` one worker or test embeddings that are of the
tickets' texts, because what they state is false otherwise (section 5).

* **TicketTriage_proofs.** `TypeCorrect` needs `TransactionInv` beside the types: a session is in
  a transaction exactly in the states between its first statement and its end, and when it comes to
  its commit it has decided the ticket's status. `AtMostOneActive` and `WriterIsAlone` are proved together (`EInv`):
  `OneActiveEmbedding` is not inductive, because a commit adds a row; what keeps it is that the
  committing transaction has retired every committed active row and that no rival on the ticket has
  retired or inserted one. The frame lemmas say which steps leave this alone; `Deactivate`,
  `StoreEmbedding`, `Commit` and `Rollback` are the real cases.

  The locks come last in this module. `RowInv`: at most one transaction per ticket has written the
  status, it does so before it looks for a pending draft, and only it can have drafted; this makes
  check and insert atomic (`DraftInsertsNeverCollide`). `LocksNeverCycle` needs, with `EInv`, that
  retired rows stay active for the others until the commit and are retired by one session only
  (`RetireInv`). Then one session at most owns the embedding writes of a ticket and one at most holds
  its row; the holder waits for nobody and the owner only for the holder, so no chain of waits is
  longer than two and none closes.
* **TicketTriage_runs_proofs.** What a transaction has buffered is determined by where its session
  is (`BufferInv`): a run that comes to its commit is either a routed one with its completion,
  classification and retrieval events, or a failed one without a draft. `StepKinds` shows that only a
  commit and an intake touch the store, and `TrailStep` that these change the status and the trail
  of one ticket together, hence `StatusAndTrailAgree` and `RunsAreCommittedWhole`.
  `WorkersNeverRepeat` is kept by `OnceInv`: a ticket that a worker has settled is neither in its batch
  nor at hand, and is never pending again. With these invariants every step maps to a step of
  `TicketLifecycle` or a stutter (`PipelineImplementsLifecycle`, its liveness is left to TLC). If
  all workers are one, what leaves `routed` is a test embedding (`RoutedLeftByTestsOnly`).
  `RoutedTicketsHaveEvidence` is not inductive alone: `EvidenceInv` says that a run gets past its
  embedding steps only with a row of its own, or with nothing retired and an active row committed,
  that its decisions are complete once it has classified, and that a request reaches its commit
  only with a new row. So whatever a request retires, the row that a run reuses included, it
  replaces. A second worker may drop a row whose text is another, fail and commit that; hence the
  hypothesis, which holds when nobody else runs or no row is of another text.
* **SimilarityCache_proofs.** `TransparentWhenKeysTellModelsApart`: if no two requests differ only
  in naming the default model, the key is injective, and so whatever is cached under a key, or on
  its way there, was found by a search of that very request (`SInv`).
* **ProviderCalls_proofs.** `TypeCorrect`, `BudgetsHold`, `FailuresAreSpent`, `ReasonsAreTrue`,
  `TeamsAreEarned` from one invariant: `LoopInv` relates the attempt number to the calls made and
  to the two kinds of failure, `OutcomeInv` says what each finished stage has left behind. Retry
  limits and thresholds are arbitrary; nothing orders the thresholds, as nothing in the code does.
* **TicketIntake_proofs.** `TypeCorrect` (with the pool's bound, by counting holders), `OneTicket`,
  `NothingLeft`, `RefusalsAreTrue`, `FoundStays`. The uniqueness in the table is not inductive; the
  invariant says that two posts of one key never have open inserts at once, nor one beside the
  other's ticket (`KeysAreExclusive`), and what each status code tells of its request.
* **ReadModelCache_proofs.** `TypeCorrect`, `CachedRowsAreCommitted`, `WritesAreFollowedByDeletes`,
  `RoutedMeansDecided` from one invariant: the rows readers have in hand or in Redis are committed
  ones, every key a run has written is among those its remaining steps delete, a run that ends routed
  has written its decision, and the one client's views are never ahead of the decision.
* **TicketHistory_proofs.** `TypeCorrect`, `WholeTransactionsShown`, `LongTrailsAnswered`,
  `LatestDecisionsShown`. What a client is told has been in Redis or in a request's hands before, so
  the invariant says of all three places what the properties say of the answer (`ViewsInv`), and
  what makes Postgres answer so: each transaction has one place in `begun` (`BegunInv`), the committed
  events are exactly all events of the committed transactions (`EventsInv`), and an overtaken run is
  behind one whose decisions stay (`DecisionsInv`). `ListedTrails` is the lemma about
  `list_for_ticket`: in any order that is sorted by `now()`, the events in front of a transaction's
  successor are all it has; it counts them by a bijection. `SummaryKeepsWhole` adds that the cut at the cap
  keeps this, because it keeps a prefix. Losing a transaction removes its place in `begun`, and
  `RemoveKeepsOrder` says that the others keep their order.
* **BenchmarkRunner_proofs.** `TypeCorrect`, `RedisLeftAsFound`, `ValidReports`,
  `LiveTicketsReported`. A report is right because of checks made phases earlier, so the invariant
  follows each check to the report: where Redis is in each phase while only the runner touches it
  (`RedisInv`), that a redis-down run which measures has seen Redis gone and can have no hit
  (`DownInv`), that a cold run starts on a cache without the seed's keys, and what is cached
  again is only what it has measured (`ColdInv`), and that a ticket that was gone when its
  status was measured is never found by the endpoint measured next (`DeadInv`).

Every invariant and every action property that a passing run checks is proved. Only model-checked:
everything under fairness (`TransactionsEnd`, `CacheConverges`, `EveryRequestIsAnswered`,
`AnsweredTicketsAppear`, `EveryRequestEnds`, the liveness half of `ImplementsFairLifecycle`), which
is beyond the prover.

## 7. What is not modelled, and known limits

* **Health**: `/health` answers a constant. **Readiness**: what it reports of Postgres is what one
  connection of the pool meets; `errors.py:14` speaks of an unreachable Postgres, though an exhausted
  pool gives the same 503.
* **Payloads in the cache**: a hit of the events shows none, and only the oldest events
  (`cache_events_max_items`); no document promises more, so `TicketHistory` models it and claims
  nothing of it. `LongTrailsAreAnswered` presumes that the setting is at most the DTO's 50.
  Transactions begin in a strict order: two with the same microsecond of `now()` are left out.
* **Benchmark**: latencies, percentiles and the contents of the seeded rows. `ValidReportsAreOfTheirMode`
  presumes, for redis-down runs, that the container name or `REDIS_URL` is that of the API's Redis;
  `RedisIsLeftAsFound` excludes runs in which a docker command failed, which the runner only warns of.
* **Request schemas**: a 422 changes no state. **Prompts, text preparation, vectors**: data that no
  property tells apart, except whether two texts have the same hash.
* **Routing persistence service**: no route reaches it. **Middleware**: the hit header is modelled where it
  is read (`BenchmarkRunner`); request ids and the access log are reporting only. **Start-up**: the
  settings are the CONSTANTS.
* **Migrations**: the constraints they create are modelled, their own order and downgrades are not.
* A commit whose acknowledgement is lost counts as a commit in every module.

## 8. Plan

Done, in this order: `TicketTriage` with `TicketLifecycle` → its proofs → `ReadModelCache` →
`SimilarityCache` and its proof → `ProviderCalls` and its proofs → `TicketIntake` and its proofs →
`TicketHistory` → `BenchmarkRunner` → readiness in `TicketIntake` → the proofs of `ReadModelCache`
→ what `TicketTriage` commits of a run, its locks, and that it implements `TicketLifecycle` → the
proofs of `BenchmarkRunner` and `TicketHistory` → the evidence of routed tickets.

Next, the most valuable first:

1. Two workers in `ReadModelCache`, so that stale fills of two runs compete.
2. Redis at the worker's start: `TicketTriage` lets a dead worker restart at any time, while
   `verify_connectivity` ends one that starts without Redis.
