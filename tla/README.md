# Verification of the API migration proxy

The program (`src/src/api_migration_proxy`, Python, asyncio) sits in front of an HTTP API that
is being moved from a *legacy* backend to a *modern* one. It serves each request from one
backend, repeats a sample of them at the other one (the *shadow*), compares both responses and
stores the comparison as an *event*. Whether the migration may go on is decided from those
events, so what the proxy loses, counts twice or reports wrongly matters as much as what it
serves. This directory holds TLA+ models of the parts where that can go wrong, the TLC runs that
check them, and TLAPS proofs.

- [1. The system](#1-the-system)
- [2. The modules](#2-the-modules)
- [3. How code becomes actions](#3-how-code-becomes-actions)
- [4. The runs](#4-the-runs)
- [5. Fairness](#5-fairness)
- [6. Proofs](#6-proofs)
- [7. A disagreement between code and documentation](#7-a-disagreement-between-code-and-documentation)
- [8. What is not modelled, and the plan](#8-what-is-not-modelled-and-the-plan)

Paths below are relative to `src/src/api_migration_proxy/`.

## 1. The system

A request flows through these parts:

```
client --> ProxyRuntime ----> serving attempt --> backend A          MigrationSnapshot
              |  pair          shadow attempt --> backend B          (configuration)
              v
        ComparisonPipeline --(threads)--> compare, mask details
              |  event
              v
        BoundedCollector --(batches)--> event store (SQLite | PostgreSQL) <-- retention
              |  outcome
              v
        metrics, CohortWindow --> rollout policy
```

| Component | State | Operations | What is hard | What makes it correct |
|---|---|---|---|---|
| **Proxy runtime** `proxy/runtime.py` | `_accepting`, `_active`, `_pairs`, `_shadow_slots`, `_completeness_known`, the initial budgets | `start`, one call per request, `flush`, `close` | requests end, register pairs and start shadows while `close()` drains; one deadline for five stages; `flush()` cancelled by its caller | slots and pairs are accounted for; a stage is closed only when its producers are done; `close()` returns and leaves nothing unaccounted |
| **Request exchange** `proxy/runtime.py` (`_request`, `_attempt`) | five tasks per request, a queue of one message, the captured upload, the outcomes | admission, upload, serving, delivery, watching the client, shadow, pair | every send and receive may fail, time out, hang or be cancelled, in any order | one truthful response; the shadow neither outlives its permission nor is cancelled by success; the evidence is final when handed over |
| **Comparison pipeline** `proxy/pipeline.py` | `_queue`, `_jobs`, `_job_bytes`, workers, threads | `submit`, compare, details, `flush`, `close` | a thread cannot be cancelled and outlives its timeout | each job counted once; memory accounted as long as a thread uses it |
| **Event collector** `collection/collector.py` | `_queue`, `_pending`, `_bytes`, `_finished`, `_writes`, `completeness_known` | `submit`, the batch worker, retries, `flush`, `close` | a write outlives the wait for it and may still commit | one final and truthful outcome per event, reservations returned once |
| **Cohort coverage** `observability/coverage.py` | counts E S D T C W M X, `pending`, `complete`, per-request `_seen` | `begin`, the steps, `compared`, `stored`, `finish`, `close`, `report` | called from many threads, late, repeatedly | counts exact and nested, ratios defined, a closed cohort final |
| **SQLite store** `collection/sqlite.py` | one connection, one thread, a slot | write, query, purge, close | the slot outlives a cancelled caller; close behind a running write | each write atomic, acknowledged events visible until they expire, nothing after close |
| **PostgreSQL store** `collection/postgresql.py` | connection, line of callers | write, query, purge, close | an operation times out inside a transaction; several processes purge; a commit whose answer is lost | no connection reused in an unknown state; no row deleted twice, none invented |
| **Retention** `collection/retention.py` | worker task, stop event | start, close | stop during a purge | `close()` returns though the purge hangs; no purge is begun after it |
| **Configuration** `routing/configuration.py` | current snapshot, revisions seen | `apply`, `add_validator` | compare-and-swap by revision against snapshots prepared elsewhere; budgets pinned by `start()`; processes that restart | every snapshot follows the one it was prepared against; budgets stay those of `start()` |
| **Rollout policy** `rollout/policy.py` | desired revision, failures and reports by worker | request, report, promote; rollback, retire | late and repeated reports; several operators decide at once | decisions only from evidence of the current revision |
| **Comparison engine** `comparison/engine.py` | none | `compare` | a walk with a stack that stops at its limit; rules that hide differences; counting beyond the paths kept | exact counts; a difference disappears only by a rule about it |
| **Metrics** `observability/metrics.py` | counters, merged workers | increment, merge | workers end and restart at zero | a difference of complete merges is what really happened |
| **Transport** `proxy/transport.py`, `proxy/_duplex.py` | connection pools, an upload task per request | send, upload beside the response | a response that is over while its upload runs; cancellation during the clean-up | requests never meet on a connection, and no place in the pool is lost |
| Routing selection `routing/selection.py` | none | route, arm, cohort | fallbacks without an identity | not modelled |
| Events, queries, application, settings, CLI, demo, tests | | validation, parsing, wiring | sequential | not modelled |

Interactions: the runtime calls `pipeline.submit` when a pair is over; a pipeline worker calls
`collector.submit` and never waits for it; the collector calls the store and tells each outcome
through the `on_outcome` callback. `flush()` and `close()` of the runtime call those of the stages in that
order. Everything but the comparison threads and the store's own thread runs in one event loop.

`PROJECT.json` lists the hazards, each at its line, with the properties that would catch it.

## 2. The modules

| Module | What it is |
|---|---|
| `EventFate` | abstract: what the collector promises for each event |
| `Collector` | `BoundedCollector` |
| `CollectorProps`, `MCCollector` | its properties (with the refinement of `EventFate`), its instances |
| `CollectorProofs` | theorems: reservations and limits; outcomes and the refinement; `flush()` and `close()` |
| `Pipeline`, `PipelineProps`, `MCPipeline` | `ComparisonPipeline`, its properties, its instances |
| `Exchange`, `ExchangeProps`, `MCExchange`, `ExchangeProofs` | one HTTP request, from admission to the submission of its pair |
| `Runtime`, `RuntimeProps`, `RuntimeProofs` | many requests, the slots they share, `start`, `flush`, `close`; the other three modules appear in it as stages that promise what was checked of them |
| `StoreContract` | abstract: what a store promises for each write, whether or not a failure is definite |
| `SqliteStore` | `SQLiteEventStore` |
| `Storage`, `MCStorage`, `StorageProofs` | `RetentionWorker` and writers at work on the store, closed in the order of the runtime, with the properties (and the refinement of `StoreContract`) |
| `PostgresStore`, `PostgresProps`, `MCPostgres`, `PostgresProofs` | `PostgreSQLEventStore` in several processes and the server they share (a second refinement of `StoreContract`) |
| `Configuration` | `ConfigManager` in each worker, and the validator of the runtime |
| `Rollout` | `RevisionTracker`, `evaluate_promotion` |
| `WorkerMetrics` | `merge_workers` |
| `Fleet`, `MCFleet` | the three above together: workers and operators in a rollout, with the properties |
| `Comparison`, `ComparisonProps`, `MCComparison` | `compare()`; its reference definition and properties; its arguments |
| `ComparisonProofs` | theorems about the comparison of responses: the pipeline and `compare()` |
| `Duplex`, `DuplexProofs` | `_HTTP11Connection` and the requests on one pooled connection, with properties and theorems |
| `Coverage`, `MCCoverage` | `CohortWindow` and `PipelineObservation`, with their properties |
| `RolloutProofs` | theorems about what a rollout is steered by: `Coverage` and `Fleet` |

Every variable carries the name of the field or local it stands for, with a comment where the
names differ; every action names the function or the piece of it between two awaits. The
correspondence of each definition to its lines is the `map` of `PROJECT.json`.

**Collector.** `Submit` is `submit()`, reservation and worker start included. The worker's
program counter is `worker`: `"loop"` at `while self._queue`, `"writing"` inside the wait for the
write task, `"retrying"` in the sleep before another attempt. A write task is a record in
`tasks`: it lives from `create_task` to its done callback, possibly long after the worker gave up
on it. The store may commit any part of a running write, answer anything its contract allows (a
`BatchResult` that contradicts itself or omits an event included), raise, or stay silent.
`committed` is what it holds; it is not visible to the code, only to the properties.

**Pipeline.** Each worker has a place (`"idle"` at `queue.get`, `"compare"` and `"detail"` while a
thread computes for it, `"late"` and `"tail"` while it waits for a thread whose time is over,
`"dying"` when cancelled meanwhile). Each job's last computation has a thread state. A
computation ends by itself or never.

**Exchange.** One variable per task of `_request`: `requestAt`, `serveAt`, `deliverAt`, `watchAt`,
`shadowAt`, `pairAt`. `wire` is what the server was given to send, in order: the properties speak
of it because it is what the client sees. Payloads are counted in chunks, statuses are left out.

**Runtime.** For each request: its place, its slot, its shadow, its pair, and where its evidence
is. `closeAt` walks through the steps of `_close()`; `deadline` says that their common deadline
has passed. `flushAt` walks a `flush()` through pairs, pipeline and collector; its caller may be
cancelled while it waits for the pairs, which cancels the pairs and their shadows, since
`asyncio.gather` is not shielded there.

**SqliteStore and Storage.** `holder` and `waiters` are the semaphore; `lane` is the queue of the
executor, whose head its only thread works on. A caller is apart from its operation: `call` says
where the caller is, `work` how the operation ended, so a caller may leave while the operation
runs on with the slot. A transaction is one step of the thread, because nothing else has the
connection, and it may fail; a purge may also fail after its deletion was committed. An event is a
row and a detail, which expires first (`rows`, `expired`); a purge deletes details past their time
from rows that stay. `query()` returns details only to the `Privileged`, and its filters are the
set of events that match them. It is two steps with the clock going on between them: the database
takes the oldest matching rows, as many as `Limit` allows (`Fetch`), and the code then leaves out
what has expired since, without filling the page up again (`QueryRuns`). What a query must return
is fixed when it is called (`asOf`: what had been acknowledged, and what had expired) and compared
with what it returned (`found`): an event may be missing only if the limit is reached by older
events that are shown or expired meanwhile (`BeyondLimit`). In `Storage`, the worker of
the retention is `keeper` and its purge `purge`; the store is closed after the worker, as
`_close()` does.

**PostgresStore.** `line` is the slot with those who wait for it, `at` the place of each call between
two awaits; the statements of an operation are actions, because other processes work on the table
meanwhile. The server is apart from its clients: `txn` and `mine` are a transaction and what it
changed, `session` what the connection still has open. A client that times out or is cancelled drops
its connection and goes; the server may commit what it was sent or abort, whenever it likes.
`FOR UPDATE SKIP LOCKED` lets a purge take any rows no live transaction has locked. A query is
limited, and what has expired since is left out (`Filter`), as with SQLite. The caller
of a failed write knows nothing of it, so `StoreContract` is refined with `Definite <- FALSE`.

**Configuration, Rollout, WorkerMetrics and Fleet.** No code connects these three: operators and the
processes that run workers do, by the procedures of the documentation. `Fleet` makes these its
environment: an operator looks at the tracker, decides for the revision seen, and requests later,
when another one may have been faster; snapshots reach workers in any order or never; reports come
late, repeatedly or never; workers end and start again from any snapshot made. `start()` is atomic:
between reading the snapshot and storing its budgets there is no await, and nothing in the program
calls `apply()` from another thread. The tracker has no notion of a restart, so `StableIsTrue` promises
only what it can: each worker did apply the revision, and still runs it unless restarted since.

**Comparison.** A JSON value is a function from the paths it has to nodes: a kind, a leaf and a place
among its siblings. The walk of `_walk()` is a loop over a stack of paths, one step per path taken from
it; each field mapping is a step too, which moves the nodes below one path to another. The reference
definition does not walk: the differences are the set of paths that are reached and differ there, each
ranked by how many come before it in the document, and what must be reported of a set is stated by
ranks (`Tally`). `WellFormed` and `IsValue` are what `ComparisonPolicy` and `json.loads` guarantee of the
arguments. `Returned` is a call that is over, so that a walk that gets stuck would be a deadlock.

**Duplex.** One connection, the requests that get it one after the other, and for each the place of
its task, its upload task and its header task. The base classes come from httpcore and are
modelled from their use: the upload passes a piece to h11 first and to the socket afterwards, so
h11 may be done while the last write is not. Two assumptions about httpcore are made: the end of
its `_response_closed()` is one step no cancellation splits, and the pool hands a connection over
only when it is idle. A cancellation during the clean-up does not end its wait, which is the point
of the loops in `_stop_upload()`.

**Coverage.** One action per call that changes state. A call that raises, or repeats a step,
changes nothing and is the absence of a step.

## 3. How code becomes actions

- asyncio runs one task at a time, so the code between two awaits is one action. Where a
  function awaits something that is always ready, the model still lets others run in between.
- Time is not modelled. A timer may fire whenever the code waits for it, so every order of a
  timeout and a late answer is covered. `max_age_seconds` is the growing set `expired`.
- A cancellation is delivered together with the step that asks for it, except for the workers
  of `Collector` and `Pipeline`, where the time between `cancel()` and its delivery is modelled
  (`cancelled`) since the worker's own progress may come first.
- In `Runtime`, a pair's task has run its first step before something cancels it. `close()`
  yields to the loop between registering and cancelling; for `flush()` the contrary needs a
  cancellation of its caller in the very iteration of the loop in which the pair is registered.
- A `send()` to the server has its effect when it returns; the server may block it for ever.
- Threads (pipeline, cohort) interleave with everything; a method under a lock is one action.
- Counters and log lines appear only where a property needs them: as the outcome of each item
  and the number of times it was told.

- Under liveness TLC cannot use symmetry. Jobs and requests that arrive in any order are numbered
  in the order they arrive instead, which leaves out only permutations of the same behaviours.
- `TypeOK` of a module (`FleetTypeOK` of `Fleet`) says what its variables range over. The runs leave it
  out: it is proved for every module that has one. `compare()` has its types in its inductive invariant.

An operator with a suffix after an underscore, such as `Kept_None` before `Kept`, is a plausible
bug and is used nowhere. Replacing the operator by it must violate the property that
`PROJECT.json` pairs it with: it shows that the property would notice.

## 4. The runs

All are run with `tlc -config <name>.cfg <module>`. Deadlock is checked for `Comparison` only: every
other system here may really stop, with all events submitted and everything closed.

| Run | Instance | Distinct states | What it shows |
|---|---|---|---|
| `Collector_safety` | 3 interchangeable events, room for 2, batches of 2, 2 attempts | 482,788 | reservations, single outcome, no overlapping writes, an orderly `close()`, refinement of `EventFate` |
| `Collector_live` | events of 1 and 2 bytes, room for both, batches of 1, 2 attempts, `flush()` beside `close()` | 978,023 | `flush()` settles everything before it; every event settles and `close()` returns though the store hangs; reservations return if it does not |
| `Pipeline` | 3 jobs, 2 slots, 2 workers, 1 `flush()` | 203,382 | single outcome, exact slots, threads hold their slots, `flush()`, an orderly `close()` that returns though threads hang, slots return if they do not |
| `Exchange` | one request, up to 2 chunks | 134,466 | one truthful response, permitted shadow, final evidence, everything ends |
| `Exchange_recorded` | one request, up to 1 chunk | violated | see section 7 |
| `Runtime` | 3 requests, 2 active, 1 shadow, 1 `flush()` | 895,130 | slots, drain order, accounted evidence, `flush()` covers its pairs, `close()` returns |
| `Coverage` | 3 requests | 29,513 | exact and nested counts, a closed cohort is final and whole |
| `Storage` | 3 events, 2 writes that overlap by one, 1 purge of at most 1 row, queries limited to 1 and 2 events with and without access to details; three calls at a time | 605,522 | the slot is never lost, queries and acknowledgements are true, the contract of writes is kept, nothing follows the close, calls end |
| `Postgres` | 2 processes, 3 events, 2 writes, 2 purges of 1 row, 1 query limited to 1 event; three calls at a time; one store is closed | 320,352 | no half-used connection, exact rows, acknowledged events seen, the contract with indefinite failures, calls end though the server is silent |
| `Fleet` | 2 workers, 2 operators, 3 revisions, 2 budgets, 1 gate, 3 happenings | 1,272,523 | a stable revision is in force, changes are chained, promotions are current, merges differ by what happened |
| `Comparison` | 22 x 22 bodies under 8 policies; 12 x 12 responses in 3 contexts | 30,709 | the walk over a stack reports what is to be reported of the set of all differences; verdicts are explained; every call returns |
| `Duplex` | 3 requests on a connection, 2 cancellations each | 890,081 | requests never meet; every request, upload and place ends |

The configurations are run on these modules: `MC<name>` where there is one (`MCCollector`, `MCExchange`
for both of theirs), `RuntimeProps` and `Duplex` otherwise.

Some properties are conjunctions of named parts, since the parts are about the same bookkeeping:

| Property | Its parts |
|---|---|
| `PayloadsAccounted` (Collector) | `ReservationsAccounted`, `NoOverlappingWrites`, `WithinLimits` |
| `Progress` (Collector) | `EveryEventSettled`, `CloseReturns`, `CapacityReturns` |
| `ResourcesAccounted` (Pipeline) | `SlotsAccounted`, `ThreadsHoldSlots` |
| `SettlesAll` (Pipeline) | `CloseSettlesAll`, `FlushSettlesEarlier` |
| `Progress` (Pipeline) | `CloseReturns`, `SlotsReturn` |
| `ResponseIsTrue` (Exchange) | `OneResponse`, `NoTruncatedSuccess` |
| `CloseDrainsInOrder` (Runtime) | `DrainedBeforeComparison`, `CloseAccountsForAll` |
| `ConnectionIsExclusive` (Storage) | `SlotNeverLost`, `NothingAfterClose` |
| `AnswersAreTrue` (Storage) | `AcknowledgedStays`, `QueriesSeeAcknowledged` |

Why the bounds are enough to be interesting:

- *Collector*: three events with room for two make the limit bite and let a slot be reused; a
  batch of two may succeed in part, and with two attempts the remainder is retried while the
  first write is still running. Two write tasks exist at once. In `Collector_live` both events hold
  reservations, in batches of one, so that one of them is queued, or written, while the write of the
  other one is silent or late: that is where an event could wait for ever. The byte limit
  refuses nothing in either run; that it holds on its own is proved (`LimitsHold`).
- *Pipeline*: three jobs for two slots and two workers: one is refused, or waits until the thread of
  a job that is over gives its slot back; a late thread of one worker overlaps with the next job of
  the other. The byte limit coincides with the job limit in this instance.
- *Exchange*: two chunks distinguish a truncated body from a whole one and from an empty one.
  The exchange of other requests does not touch the state of this one but for the shadow slots,
  which `Runtime` covers.
- *Runtime*: two active requests of three make admission refuse one; one shadow slot is contended.
- *Storage*: three operations make one hold the slot and two wait behind it, so that a waiter can be
  cancelled before and after it was given the slot, and the closing can be queued behind an
  operation that runs while others wait. `Plans` bounds which three calls one behaviour makes: two
  writes with a purge, two writes with a query, a write with a purge and a query. The oldest two of
  the three events expire together (`Lots`), so the purge deletes one of two expired rows, and the
  other one, older than what a query may show, must take no room of its limit of one; or they
  expire between the two steps of a query, which then shows less than its limit. There are more
  events than either query shows.
- *Postgres*: the plans are two writes with a query, two writes with a purge, a write with two purges,
  and a write, a purge and a query, spread over both processes, so that a process can work while the
  other one's transaction is open, in doubt or abandoned; a write may be repeated after a purge took
  a part of it. That a second purge then takes it again needs four calls, which only the proof
  covers. The query is limited to one of three events, the oldest two of which expire together. Only one
  store closes (`Closable`): the other one stands for those that go on.
- *Fleet*: three revisions make a change, a competing change and a stale one; a history of two makes
  its limit bite. `MaxHappenings` bounds changes, restarts and counted requests together: one of
  each, or two of one kind and one of another. Findings are "pass" only: every other status
  blocks a gate, as does its absence.
- *Comparison*: the bodies contain empty ones, texts that are not JSON (a repeated key makes one of them),
  nested objects and lists, keys in different orders; the policies vary limits around the number of
  differences there are (one less, equal, more), mappings with and without conflicts, ignored and tolerated paths.
- *Duplex*: three requests reuse a connection twice; two cancellations are a timeout and a
  cancellation of the clean-up that it began.
- *Coverage*: three requests can be at three different steps; the proofs lift the bound.

## 5. Fairness

- The event loop runs tasks that are ready, and timers that are armed fire: weak fairness of the
  workers, of done callbacks, of `flush()` and of `close()` (`LoopFairness` of `Collector`, `Pipeline`
  and `Exchange`). A wait with a timeout is one disjunction of "it ends" and "it times out", so
  fairness never presumes that the awaited thing happens.
- Nothing is assumed of clients, backends, the store or comparison threads. Where a property
  needs the store to answer or computations to end, that is the hypothesis of the
  property: `CapacityReturns` (in `Progress` of the collector) is `StoreFairness => ...`, `SlotsReturn` (in
  `Progress` of the pipeline) is `ThreadFairness => ...`; so is the part of `CallsEnd` (`Storage`) that
  needs the database.
- `Runtime` assumes that a request that is being joined ends, that shadows and pairs end, and that
  its deadline passes: that requests and slots do end is what `RequestEnded` shows in `Exchange`.
  It does not assume that a comparison ends or that the store answers.

- `PostgresStore` assumes the event loop, the time limit of an operation (`Fail`), and that dropping a
  connection ends its task. Nothing is assumed of the server: calls end by their timer if need be.
- `Duplex` assumes the event loop, that a cancelled upload ends, and that the time limit of an attempt
  cancels its request once. A body that never comes, a socket that never drains and a backend that
  never answers are allowed.
- The number of events is finite in `Collector` and that of calls in `Storage`, `Postgres` and `Duplex`, so
  "every event settles" and "every call ends" are stated as `<>[]` of all having done so.

## 6. Proofs

TLC shows the properties of small instances; these theorems hold for any number of events, jobs,
requests, processes or workers, any limits, and any bound on what happens. Every invariant and every
safety property that steps must keep is proved, and every refinement.
The assumptions are the named `ASSUME`s of the modules: limits are positive and sets finite, as the
constructors of the code enforce, the size of a set is the sum of the sizes of its members
(`WeightAssumption`, `SizesAssumption`), the order of `created_at` and `event_id` is strict and the
events of a store are finitely many (`StoreAssumption`), revisions are numbers, calls are of one kind each, and
the arguments of `compare()` are JSON values and policies its constructors accept (`CasesAssumption`).

Each proof has one shape: an inductive invariant that says more than the properties, a lemma per part
of it and action, and theorems that follow. The properties alone are never inductive, since what makes
them true is where things are between two awaits, of which they do not speak.

**`CollectorProofs`.** `PlaceInv`: every event that holds a reservation is in exactly one place (queue,
the worker's batch, or settled with its write still running), the worker's program counter agrees with
its batch and the write it awaits, and write tasks are disjoint. It is needed because whether the
worker may forget a batch depends on the write that still carries it. It gives `PayloadsAreAccounted`
(with `ReservationsAreAccounted`, `WritesNeverOverlap`, `WorkerNeverMissed`, `LimitsHold`). `FateInv`
adds what is known of an event's storage at each place: one in the batch whose attempts all failed is
not stored; one that is `uncertain` may be and is never dropped; one with a running write can be stored
only as long as it is open or in doubt. From it follow `EveryEventHasOneFate`, `FatesAreTrue` and
`CollectorKeepsPromise`, the refinement of `EventFate`. `FlushInv`, `ClosingInv` and `DroppingInv` say what
each call still waits for, hence `FlushIsComplete` and `CloseIsComplete`.

**`ComparisonProofs`, the pipeline.** A job that has its slot is once in the queue or with one worker
(`PlaceInv`), a thread computes for the job of a worker only (`ThreadInv`), and the place of a worker says whether its
job has its outcome (`FateInv`). The counters then follow the set of those jobs (`SlotInv`), and
`CloseInv` and `FlushInv` say how far the calls are: `JobsHaveOneFate`, `ResourcesAreAccounted`,
`EverythingIsSettled`.

**`ComparisonProofs`, compare().** The invariant speaks of a walk that is half done. What was taken from the
stack is `Seen`: the paths reached that are neither on the stack nor below a path on it. `Stacked` says
that the stack is in document order, its paths apart from each other, and all of `Seen` before all of
it, so the path on top is the earliest that is left; then `found` is always the `Tally` of the
differences among `Seen`. A step adds one path later than all of them, and one addition to a report is
one more element of the set reported (`TallyAdd`), or the discovery that there is one too many
(`TallyFirst`). That the document order is a strict total order of what can be reached, which ranks
rest on, is proved first. `RawInv` keeps the report before the rules.
`MapInv` says what mappings leave alone: a value mapped so far is still a JSON value, and differs from the
one given only at or below an end of an applied mapping, since the ends of all mappings are apart.
With `Recorded`, that a rule which made the walk turn away is in `applied`, this gives `ReportsAreExact` and
`RulesExplain`, for values of any size and depth, and any limits and rules. No induction over trees is
needed: the reference definition quantifies over paths, and the walk's progress is the invariant.

**`ExchangeProofs`.** `FlowInv` follows every message between the serving attempt and the client: the one
in the queue, the one the sender holds, the chunk that waits for the queue. While the response is
streamed, every chunk received is in one of these places or sent. With the places of the five tasks
relative to each other this gives `ResponsesAreTrue`, `ShadowsAreWhole`, `ShadowsAreKept` and the action
property `EvidenceStays`, for bodies of any length.

**`RuntimeProofs`.** A selected request holds its slot until its pair is over (`SlotInv`, `PairInv`), the
tasks that `close()` waits for include every request or pair there still is (`CloseInv`), and a stage
that is closed has nothing on its way to it (`StageInv`): `SlotsAreAccounted`, `CloseIsOrderly`,
`FlushSettles`.

**`StorageProofs`.** The slot, the queue of the executor and the places of the callers determine each
other, so at most one operation is ever queued before the closing (`SlotInv`, `LaneInv`, `CallInv`); what
a write put into the table is there or has expired, and what a query has fetched holds, or leaves out
behind a full page of older events, all that it must show (`DataInv`, stated from the fetch on, since
the page is chosen before the second look at what expired): `ConnectionExclusive`, `AnswersTrue` for any
limits, and `ContractKept`, the refinement of `StoreContract`.

**`PostgresProofs`.** In each process one call has the slot (`LineInv`), so only its transaction is open
in the connection (`ConnInv`); what became of a transaction is known from the place of its call unless
the call left (`TxnInv`); transactions that are open have claimed different rows (`ClaimsInv`), which
balances the books of insertions and deletions (`RowsInv`); and what a query must show is in the table
or has expired until it is fetched, and then in its page, or behind a full one of older events
(`SeenInv`): `ConnectionClean`, `RowsExact`, `QueriesTrue`, and `ContractKept`. The proof
corrected a property: `RowsAreExact` used to say that no two committed purges delete the same row, which
holds for the three calls of a run but not in general. A write that is repeated after a purge inserts
the row again, as `ON CONFLICT` does not see what is gone, and a second purge deletes it again. The
property now says that every deletion is of one insertion.

**`DuplexProofs`.** A connection is in the hands of one request (`PoolInv`), an upload runs only until its
request stopped it, before the connection is closed or given back (`UploadInv`), and h11 is done with
what was really written and read (`ExchangeInv`): `NeverMeet` and `UploadsAreStopped`.

**`RolloutProofs`, cohorts.** `CohortInv`: each count is the cardinality of the requests that passed the
step, and each request passed its steps in order. The documented chain E >= S >= D >= T >= C with
C = M + X and W <= S follows from inclusions between those sets (`StepsNest`), hence no ratio of
`report()` is ever undefined (`ReportIsTotal`). Since `pending` counts the open requests exactly and a
cohort closes only at zero, a closed one never changes (`ClosedStaysFinal`) and, if complete, has no
loose end (`ClosedIsWhole`).

**`RolloutProofs`, fleets.** Snapshots are prepared in the order of their revisions, each against one that
was there (`MadeInOrder`), so those a process used are a chain without a cycle that ends at the current
one (`Chains`): `Chaining`. Nothing is based on the desired revision yet, so a process that ever had it
in its present run is still at it: `Stability`. A decision keeps the evidence it rests on as long as its
epoch is desired (`Decided`): `Promotions`. A merge is a sum over the workers and is compared with the
next one worker by worker (`Books`): `Deltas`. For that the sums of the community modules are shown to
add up in any order (`FoldAdds`), without an induction theorem: a counterexample would have a smallest
set (`SmallestSet`, from the well-foundedness of strict inclusion).

Only model-checked, because it is out of the provers' reach: all liveness, which needs fairness and
ENABLED, and that no call of `compare()` gets stuck.

## 7. A disagreement between code and documentation

`docs/shadow/lifecycle-and-limits.md:36` says that a request whose serving execution and delivery
completed normally is recorded as completed. `_request` (`proxy/runtime.py:669`) records `cancelled`
whenever a cancellation reaches it, without looking at `sent_complete`. If the deadline of `close()`
passes after the sender has handed over the end of the response and before the request's task
is resumed, a delivered response is recorded as cancelled, and its shadow is cancelled as well.
`Exchange_recorded` shows the interleaving. Apart from it, completeness and truth of a `completed`
record are checked by `NoTruncatedSuccess`, a part of `ResponseIsTrue`.

## 8. What is not modelled, and the plan

Out of scope: parsing and validation (settings, snapshots, events, HTTP headers), masking,
and the hashing of cohort keys, which are conversions of data with nothing to interleave;
the ASGI server, httpx and the databases, which are environment. Within the parts that are modelled:

- *Routing selection*: three pure functions without state; strings matched, hashed and joined.
- *Configuration*: the text of a snapshot, and the schema it is validated against.
- *Rollout*: rollback and retirement evidence and the ratios, pure functions of one record.
- *Comparison*: decompression, character sets, the syntax of JSON and of numbers, and the names of
  headers beyond whether one is compared.
- *Metrics*: gauges; histograms, which are summed bucket by bucket as counters are.
- *Transport*: URLs, headers and limits of the pool; `aclose()` of the pool at shutdown.
- *Stores*: SQL, schema, file modes, the fields of an event, the argument `now` that tests pass instead of
  the clock, and the order of the rows within one answer; which rows a limit selects is modelled.
- *Collector and pipeline*: `metrics()`, which only reads.

What remains:

1. An abstract counterpart of `EventFate` for the jobs of the pipeline, and the refinement of the
   per-request part of `Runtime` by `Exchange`, would tie the models together formally.
2. The lemmas on sequences and sums that several proof modules have could be shared.
