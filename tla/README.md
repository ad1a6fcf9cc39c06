# A TLA+ model of chimpbase

chimpbase runs the backend of an application inside one process, or a few, on one
database: actions, routes, subscriptions, queues, cron jobs, workflows and a service
mesh, all of them durable in PostgreSQL (or SQLite). This directory specifies the parts
in which processes, statements and timers meet, checks them with TLC on small instances
and proves the most important invariants with TLAPS.

- [Inventory](#inventory): the components, their state, how they interact
- [Modules](#modules): what models what, and how definitions correspond to code
- [Runs](#runs): what each run shows, bounds, fairness
- [Disagreements](#disagreements): where code and docs part
- [Proofs](#proofs): what holds for every value of the constants, and why
- [Limits and plan](#limits-and-plan)

Paths are relative to the repository; `engine.ts` is `packages/core/engine.ts`, `pg` is
`packages/postgres/src/index.ts`, `host` is `packages/host/src/runtime.ts`.

## Inventory

A **process** owns one primary engine and, as a worker, one engine per worker lane. An
**engine** (`ChimpbaseEngine`, engine.ts) has one **adapter**, that is, one database
connection at a time for transactions (`transactionClient` of pg). All engines of a process
share one event bus. Processes share nothing but the database and the bus.

| Component | State | Operations | What makes it correct |
|---|---|---|---|
| Engine transactions (engine.ts:2219, pg:355, :549, :718) | `transactionDepth`, `pendingEvents`, `committedEvents`, `transactionClient` | actions, nested actions, handlers of subscriptions and jobs, statements outside transactions | an operation is atomic, its events go with its writes, nothing is left over |
| Job queue (engine.ts:665-764, :2252; pg:399-481, :557, :650, :690) | `_chimpbase_queue_jobs` | enqueue, claim (single, batch), complete, fail, dead letter | at-least-once, exclusive under a lease, nothing lost, nothing reopened |
| Cron (engine.ts:571-658; pg:330, :363, :584, :705, :780) | `_chimpbase_cron_schedules`, `_chimpbase_cron_runs` | sync of the registry, claim, fire, release, delete | every slot once, none passed over but for a later one |
| Workflows (engine.ts:1217-2110) | `_chimpbase_workflow_instances`, `_chimpbase_workflow_signals`, jobs | start, signal, run until suspended, time out, fail | every action once, no lost wake-up, signals in order |
| Events and subscriptions (engine.ts:1008, :2156-2208; pg:1160; both event buses) | `_chimpbase_events`, high-water mark, notifications, markers | publish, poll, notify, dispatch, enqueue a dispatch | handled somewhere, once per process, once in all if idempotent |
| Worker host (host:544-850) | lanes, timers, the chain of operations, `cronRegistryDirty` and the sync that runs | start, stop with hooks, drain, poll, register and sync cron schedules | serial use of the primary engine, the bus on while lanes work, every schedule known to a worker in the table |
| Mesh discovery (mesh/src/plugin.ts, registry.ts, discovery.ts) | `_chimpbase_mesh_nodes`, peer cache | boot, heartbeat, leave, sweep | live nodes known, dead ones forgotten |
| Mesh calls (mesh/src/call.ts, transport-http.ts) | context slot, token, round-robin counter | call, retry, time out, fall back | the right context and token, an answer or an error |
| Blobs (pg:800-1118, engine.ts:2310, blobs/src) | buckets, objects, uploads, parts, files | put, get, copy, delete, multipart uploads, sweep | metadata and bytes agree, no orphans |
| Webhooks (webhooks/src/index.ts) | endpoints, delivery and inbound logs | deliver, receive, sign, retry | inbound once, outbound at least once |
| Auth (auth/src/index.ts) | users, API keys, rate counters | create, revoke, check, limit | revoked keys and deleted users are out |
| REST collections (rest-collections/src/index.ts) | collections, schema versions | list, get, create, update, delete | no lost update, versions recorded once |
| Key-value, collections, streams (pg:482-548, :598-635, :730; SQLite adapters) | one table each | get, set, find, update, append | durable, in the transaction of the caller |
| SQLite adapters (bun, deno, node) | the same tables, one connection each | as pg, without batches, and whole databases opened, of older versions too | claims are nobody else's, keys live to their time, readers miss nothing, whichever adapter opens the file |
| Cron expressions (core/cron.ts) | none | parse, next fire | the next slot is the first that the expression means, in leap years too |
| Registration, plugins (runtime/index.ts, host/src/library.ts) | the registry | register, resolve dependencies | dependencies first, everything once, or an error |
| Tooling (migrations, schema, contracts, secrets, CLI), telemetry, pact | files, streams | at the command line | sequential |

How they interact:

- An operation runs a handler in `runInTransaction`; everything durable that the handler
  does (jobs, workflow starts, signals, events, keys) is in that transaction.
- After the commit the engine publishes the events on the bus and dispatches them:
  directly (`sync`) or as jobs of an internal queue (`async`).
- Cron schedules fire by enqueueing a job; workflows advance by jobs; timers, signals and
  retries are jobs with a delay. Everything asynchronous ends in the job queue.
- The event bus calls back into the primary engine, and so do hooks and the sync of cron
  schedules; they do not wait for the operation that runs there (host:730).

What is hard: statements outside a transaction between which a lane may crash or be
overtaken; leases that run out under a running handler; updates by id alone; a depth
counter and buffers shared by activities that interleave at every `await`; events that
commit out of the order of their ids; caches kept by messages that are lost or late;
a slot shared by calls that overlap; plugins that read and then write under READ COMMITTED;
dates at the ends of months; deployments of two versions. `PROJECT.json` lists these hazards at their lines.

## Modules

One module per component, `MC...` modules with the small instances, a `.cfg` per run.
Constants have named assumptions (`QueueAssumption`, ...) where a proof needs them. Where a
component behaves differently under different settings or guarantees, the set of settings is
a constant (`Deployments`, `Definitions`, `Mixes`, `Meshes`, `Stores`), the behaviour picks one at
its start and keeps it, and a property says of which of them it speaks. A *history* variable is one
that no action reads: it is there for a property. Mutants, definitions
such as `ClaimableDespiteLease` beside `Claimable`, are plausible bugs: put in place of the
original, each makes TLC find a property violated.

| Module | Models | Checked in |
|---|---|---|
| `JobQueue`, `DurableQueue` | job queue and what it promises | `MCJobQueue` |
| `CronScheduler` | cron schedules | `MCCronScheduler` |
| `Workflow` | workflows | `MCWorkflow` |
| `EventDelivery` | events and subscriptions | `MCEventDelivery` |
| `EngineTx` | transactions of one engine | `MCBasis`, `MCEngineTx` |
| `SqliteBun`, `SqliteNode`, `SqliteDeno`, `SqliteAdapters` | the SQLite adapters | `MCBasis` |
| `MeshRegistry` | mesh discovery | `MCBasis` |
| `CronExpressions` | cron expressions | `MCBasis` |
| `Registration` | plugins and the registry | `MCBasis` |
| `DocumentStore` | collections and keys in PostgreSQL | with the next three |
| `Webhooks`, `Auth`, `RestCollections` | the plugins over it | `MCServices` |
| `Blobs` | blob store | `MCServices` |
| `MeshCalls` | mesh calls | `MCServices`, `MCMeshCalls` |
| `Host` | a process from start to stop | `MCServices` |

`MCBasis` and `MCServices` instantiate several components. In these models the components share nothing, so
a behaviour is of one of them: the first state picks a `part`, and every variable of the others is
`None`. Composed for real are the plugins with the document store (they EXTEND it, so that
their steps are its statements) and the three SQLite adapters, which open one file after another.

### JobQueue, DurableQueue

`JobQueue` has a variable per column of `_chimpbase_queue_jobs` and, per lane, its place in
`processNextQueueJobs` (`phase`), the jobs it has claimed and not finished (`held`) and the
attempt count it was given with them (`att`). A lane is an engine with its adapter, of any
process. Each SQL statement outside the handler's transaction is an action: `Claim`,
`StartHandler`, `HandlerCommits` / `HandlerThrows`, `Complete`, `ThrowsAfterCommit`,
`WriteDeadLetter`, `MarkFailure`; `Crash` comes between any two of them. `Complete` and
`MarkFailure` write by id alone, as the code does, whatever the row has become. Time is what
is left until `available_at_ms` and `lease_expires_at_ms`, so it needs no bound.
`OverrunAllowed` says whether a lane may still hold a job when its lease runs out: nothing in
the code prevents it, and every property is stated for the weaker assumption it needs.

`DurableQueue` is the promise: a job is open until its handler has committed at least once,
or it is given up, with a letter if its queue has a dead letter queue; the end is final. It
knows no lanes, attempts or time. `JobQueue` implements it under the mapping of
`KeepsPromise`, when no lease is overrun.

### CronScheduler

The tables of schedules and runs, and processes that boot in some version, sync the
registry (list, read the clock, upsert each, list and delete the unknown: a step each),
and poll: claim, resolve the due window, fire (the run's row, the job and the new slot in
one transaction), or release. A version is a registry: schedules with expressions; an
expression is the set of its slots. A lease has a token that names its claim.
Bounded: the calendar (`MaxTime`), boots, faults; a lease that runs out under its holder is a
fault like a failing statement. `SyncTakesTime` says whether a clock read in a sync may be
stale when it is used.

### Workflow

Instances of `Definitions`, that is, programs of phases (action, sleep, wait, and for
run-based definitions an action that returns a wait), their signals, the jobs of the workflow
queue, and lanes that run an instance until it suspends. A job's whole run is one
transaction, so a lane works on a copy (`lane[l].work`) that `Commit` writes back. The row
lock of the lease's UPDATE is what serialises two lanes (`MayClaim`); the lease columns
themselves are set and cleared within one transaction and are never seen by another. Signals
get their ids when they are inserted and are seen when they commit, in either order. The queue
is a smaller one than `JobQueue`'s: a job is delivered at least once, up to `MaxAttempts`
times; a crash and an overrun lease are faults.
A run-based wait whose timeout continues leaves the state as it is, so the run function
decides what comes next; the model goes on to the next phase, as the documented idiom does.

### EventDelivery

Events with ids in the order of insertion, the commit in any order; the buses (`noop`,
`polling`, `listen`), sync or async dispatch, idempotency markers. A process has three
agents: operations, the bus's callback, a worker. `seen` is `lastSeenId`: every commit of a
root transaction calls `publish`, which moves it to the greatest id there is (`Moved`), and
`Announce` is that call after a handler's commit. Handlers publish nothing of their own.
A `Deployment` says how the processes are configured and what may fail. `late` is the history of the
events that committed after one with a greater id: a poll moves its mark past an id whose transaction is
still open, so what commits late is found by no later poll. A process that listens goes through its notifications one
after the other, in any order; in the code handlers of several may run at one time.

### EngineTx

One engine on one pg adapter with a pool of two connections: the depth, the buffers, the connection a statement
is sent to (`client` when it is sent), and what is committed. Tasks are operations (which wait for each other),
callbacks of the event bus (serial when polling, concurrent when listening) and plain statements (hooks, cron
sync); `Mixes` says which of them there are at one time. Each `await` at which another task can run is a place
(`task[t].at`). An operation calls one inner action. What can fail once a handler has returned does (`Rejects`,
`cut` is where): the INSERT of the events, the COMMIT, refused or answered to nobody, and `publish`. The catch
that follows has not been told how far the try was; it counts the depth down a second time and rolls back
whatever has the connection by then. `beginTransaction` is taken not to fail.

### MeshRegistry

Rows, peer caches and the messages between nodes. Time is the age of things. Hooks and the
heartbeat timer run outside transactions, so what they write and publish joins the
transaction of an operation of the node if one is open (`tx`, `joined`), and otherwise is
written at once and published to nobody. `mesh.busy` nodes run operations; `mesh.punctual`
says whether timers fire on time and operations end before the next tick, `mesh.watching`
whose caches and `mesh.watched` whose rows and heartbeats are followed.

### Blobs

Rows of objects, uploads and parts, and files as paths to inodes: whoever has opened an inode keeps it when its
path is renamed over or removed, as the file system does. An operation is a lookup, the calls of the driver
(`PutOpen`, `PutRename`, `CopyOpen`, ..., each an `await`), and its last statement (`Write`), which `Commit`
makes seen; `Fail` is a rollback, an exception or a crash, which leave the same. Where the
parts cannot be removed, `complete` goes on and leaves them, an abort throws (`RmFails`). Bytes are sequences of
bodies, or torn. `clean` is a history: an operation that was alone with its object or upload and commits makes
it clean, one that fails after it has touched a file, or meets another, does not. `Stores` says which operations
there are, how many (`maxOps`), and whether two may start in one millisecond, the resolution of the temporary
names.

### Host

The phases of `start` and `stop` (`phase`), the lanes or, on SQLite, the one loop that puts its drain into
the chain of the primary engine (`chain`), the ticks that `worker.stop` awaits, the hooks, the server and the
bus. `registry` is the host's own, `laneCrons` the copy that lanes got when they were made.
`sync` is the promise that a sync runs under, whoever began it; others await it and begin one of
their own if the registry is `dirty` by then. Any sync, operation or hook may throw (`MaxFaults`).

### MeshCalls

Calls of one node that overlap. `slot` is `ctxSlot` of the dispatcher, `running` the executions, here and on
peers, with the context each has got, and requests that no peer has received yet. An attempt may end by its
answer, a timeout, an error or a connection that breaks; `givenUp` is the history of those whose execution may
go on. The choice of a node is `Pick`, with the four strategies, a pinned node and a cache whose entries get old
or go. A middleware may wait before it calls the next one (`Waits`), and other calls take the slot meanwhile.
`later`, `crossed` and `hidden` are histories of that: the calls in flight that began after a call, those that
one of which has outlived (a call ended before one that began later), and those whose middleware went on while
one that began later was in flight.

### DocumentStore, Webhooks, Auth, RestCollections

The store is two tables as they are committed and one transaction per process, READ COMMITTED, a step per
statement. A row that a transaction has written is locked; `collectionUpdate` is its SELECT and, a step later,
the write-back of whole documents. `met` is the history of the subjects (a document, a user, a
source) that two transactions were about at one time. The code takes no lock and has no unique index for most of
what it reads and then writes, so the properties say what holds unless two such transactions meet, and, where
it does, what holds even then.

`Webhooks` has the inbound route (verify, look up, record, publish), the management of hooks, the dispatch of an
event into one job for each hook that wants it, and the delivery worker, with retries, the dead letter queue and
crashes. `Auth` has the guard with its up to three actions, windows and blocks that end, keys that expire, and
the management of users and keys; the count of a failure is read twice, as the code does (`FailBlocked`,
`FailRead`), and a key may have no scopes at all. `RestCollections` has the five operations with their metadata
documents, on processes configured with different schema versions, of which some (`Rewriters`) have an
`onWrite`: the content that these write is in their format, what the others write is in the format it was in.
`by` is a history, who wrote a document last. `onWrite` may throw (`TransformThrows`). Options, routes and the
parsing of inputs are operators.

### SqliteBun, SqliteNode, SqliteDeno, SqliteAdapters

SQLite runs in the process, each call to its end: a call is a function from a connection to a connection and an
answer, `Ok` or `Throws`. `SqliteBun` has them all; `SqliteNode` and `SqliteDeno` name the same statements and
write out what differs. In `SqliteAdapters` a process runs on one of the three (`runtime`), and `Restart` opens
its file with any of them: what one has written, another reads. The file may be from before keys could expire,
in which case Bun and Deno add the column and Node does not. It makes the calls of one group of tables at a time
(`area`), and keeps what was claimed (`given`), what was promised to a key and what a reader has seen. A key or
an object's name is a sequence of numbers, whose order is the order of the text.

### CronExpressions

An expression is five sets of tokens (`*`, `a-b`, `a`, each with a step), an instant a number of minutes since
1 March 2000, when a cycle of 400 years begins. `computeNextCronFireTime` is the search
of the code, level by level with its bounds. `Meant` is the reference: whether one instant matches,
with no search; `NoneBetween` says that no instant of an interval does.

### Registration

Plugins are numbers, in the order in which their objects are made, with a name or none, dependencies by object
or name, and plugins inside. `Scan` and the operators beside it are the passes of `register()`; `Expand` is the
recursion that emits dependencies first and finds circles. The state is what is left in the host's registry, a
map of actions and a list of hooks, after up to two calls. An item or an entry may be none (`Invalid`), which
throws before anything is registered; an action may have no name, which throws when it is its turn and leaves
what was registered before it.

## Runs

Every run is in `PROJECT.json` with its question and its properties. All end within three minutes on
two workers.

| Run | States | Shows |
|---|---|---|
| `queue_overrun` | 420 000 | what holds however late three lanes are: attempts and letters are given once, no job is dead-lettered without its letter, nothing is settled without cause |
| `queue_leases` | 44 000 | with leases kept: exclusion, at-least-once accounting, the refinement of `DurableQueue`, and every open job of a handled queue settled in the end |
| `cron_slots` | 290 000 | two of three versions at a time, stale syncs, stops and overrun leases: a slot becomes a job once |
| `cron_steady` | 49 000 | one version: no slot is passed over but for a later one, none is come back to, a synced schedule keeps its row, every slot gets a job, its own or a later one's |
| `workflow_bursts` | 1 600 000 | actions commit exactly once and their results stay, no wake-up is lost, a signal passes one wait, in order, and no timer fires early, for both kinds of definition |
| `workflow_liveness` | 90 000 | an instance with something to do does it |
| `delivery` | 137 000 | idempotent subscriptions handle an event at most once and are skipped only if they have; no process that listens handles one twice; with a listening bus all do when nothing fails; with dispatch in jobs they are retried, and a standby that polls makes up for one of two publishers that dies, but for an event that committed late |
| `services` | 1 080 000 | six components, see below |
| `basis` | 1 030 000 | five components, see below |

`services`: a source's payload is published once and an event makes one job per hook (`OncePerEvent`); the log's
rows of deliveries and the jobs tell what the endpoint answered, and a hook turned off is left alone
(`DeliveriesAgree`); a revoked key and the keys of a deleted user do not pass (`DeadKeysStayOut`); failures in a
row block (`FailuresBlock`); a document's version is its last writer's, which is its format if that has an
`onWrite`, while two versions serve it (`VersionsAgree`); an answered update stays (`UpdatesKept`); rows and
files of objects and parts agree (`ObjectsAgree`); an action runs in the context of its own call, though
middlewares wait, unless calls cross (`OwnContext`), one execution at a time but for attempts given up
(`OneAtATime`); the bus is on while lanes work (`BusOutlivesLanes`); no schedule is missed by a sync
(`SchedulesSynced`).

`basis`: an operation takes effect whole or not at all, with its event, and leaves nothing over, whatever fails
at its end (`AllOrNothing`); on one SQLite file under three adapters what is claimed is nobody else's
(`ClaimsHold`), a key lives to its time and not past its day (`KvHonest`), streams are resumed and pages turned
without a gap (`ReadersMissNothing`); a node that has ended is no peer for long and the sweep spares the living
(`PeersRecent`); slots are exactly those that an expression means (`SlotsExact`); plugins are registered once
and after what they need, all or, up to an action without a name, some; a graph that cannot be ordered leaves
the registry alone (`DependenciesFirst`).

**Bounds.** Two lanes, processes, nodes or calls are enough for every overtaking in the code, since each of them
meets the others through a row (or the one slot) at a time; three lanes are used where a takeover of a takeover
matters (`queue_overrun`). Jobs: one or two of clients and the letters they can lead to, so that a batch is
abandoned in the middle. Two attempts make the last one differ from the first. Calendars of three or four ticks
have a slot before, at and after every step. One crash and one or two faults: what a crash leaves is the table,
from which a second one starts as the first did. Leases of one or two ticks run out under a handler. Three
requests of the plugins are a setup and two that meet; auth gets four, since a user, a key, a revocation and a
use follow one another. Three or four calls of an area of SQLite write, overwrite, remove and write again. Cron
expressions are tried from five instants (New Year's Eve, the ends of February 2024 and 2100, the first of March
2096, after which no 29th of February comes for eight years, and Friday 13 June 2025), each for four slots, with
a 31st, a 29th and a 30th of February among them. Three plugins are the least of which one reaches another by
two ways.

Swapping is declared as symmetry where the modules treat the two alike, and nowhere under liveness.
Deadlock is checked where time always passes; it is off in `EventDelivery`, `EngineTx`, `MCMeshCalls`,
`MCServices` and `MCBasis`, because a bounded number of operations, requests or calls comes to an end there.

**Fairness.** Weak fairness of each lane, process or agent (its timers keep
polling and promises settle), of time, of a signal's commit, and of booting where a supervisor restarts processes
(`cron_steady`). Crashes, faults, clients and signals are not owed to anyone.
Strong fairness is used nowhere. The components of `services` and `basis` are checked for safety only.

## Disagreements

A run that expects a violation checks what a doc or a comment says; its trace is a real
behaviour of the code as modelled. The wording and the lines are under `findings`.

| Run | Said | The code |
|---|---|---|
| `workflow_timeout` | `onTimeout: "fail"` ends the wait (docs/workflows.md:102) | the failure is rolled back with the job's transaction, the instance waits for ever |
| `engine_announced` | committed events are announced (core/event-bus.ts:9) | a callback and an operation that both begin at depth 0 both wait for a connection (pg:356-360); the one that gets its own last takes the other's place, and the operation commits on the callback's connection and announces what stays in an open transaction |
| `mesh_context` | "mesh dispatcher invoked without an active context" (mesh/src/call.ts:123) cannot be; middleware wraps every call (docs/mesh.md:81) | a call whose middleware waits finds no context when one that began earlier has ended |

The same models show more, of which the properties above are careful not to speak:

- A lane that outlives its lease commits a job's handler again (pg:557), so the lease is not
  "exactly-once across the cluster" (docs/mesh.md:143); `CommitsAccounted` is for leases kept.
- The attempts in a dead letter (docs/workers.md:80) count claims of batches that another
  job's error abandoned (engine.ts:676).
- A process of an older version deletes the schedules that only a newer one registers
  (engine.ts:655); the newer one does not write them again until it restarts. So
  `NothingLost` is for one version.
- After downtime the slot that was missed is fired at once (engine.ts:628), where
  docs/cron.md:71 says at the next one.
- A steps-based action's results stay (`ActionsOnce`); what a run-based run puts into the
  state of a wait is lost if the signal is there already (engine.ts:1803).
- A polling process that dispatches or runs anything skips the events that commit meanwhile
  (event-bus.ts:24), where docs/subscriptions.md:71 has them delivered to peer processes;
  `ReachesPeers` is for the listening bus.
- A poll between a commit and its `publish` hands a process its own events
  (event-bus.ts:79, against event-bus.ts:22); `NotTwiceInProcess` is for the listening bus.
- Sync subscriptions run after the publisher's commit (engine.ts:2204), not "within the same
  transaction as the publisher" (docs/subscriptions.md:63).
- Two jobs of one event at one time find no marker (engine.ts:2163), so `AtMostOnce` asks for
  one worker where a polling bus makes several jobs of one event.
- A poll moves its mark to the last id it read (event-bus.ts:87), past the ids of transactions that have not committed yet:
  what commits late reaches no process that polls, and nobody if its own crashes. `ReachesPeers` leaves it out (`late`).
- An event too large for a notification fails the operation after its commit
  (engine.ts:2236) and is dispatched with the engine's next operation, if there is one,
  while docs/subscriptions.md:106 says that only the fanout is skipped. The operation throws with its writes
  committed, and so it does when the answer to its COMMIT is lost; `AllOrNothing` says so.
- A commit or publish that fails counts the depth down twice, in the try and in the catch (engine.ts:2229,
  :2241). Beside a transaction of the bus's callback the second count is that one's, which then takes the depth
  to -1, where no transaction is ever begun again. Two callbacks at one time can take it there without a
  failure. So what `AllOrNothing` says of the depth is for callbacks that follow each other and for commits and
  publishes that were answered.
- A statement without a transaction, such as the sync of cron schedules (host:805), joins the
  transaction of an operation and its rollback.
- Announcements and heartbeats published outside a transaction reach no other node
  (plugin.ts:248; docs/mesh.md:126): nodes that start together stay unknown to each other.
- The sweep of expired uploads deletes rows and leaves the files of the parts
  (blobs/src/plugin.ts:93), where docs/blobs.md:103 has abandoned uploads garbage-collected;
  `blobGcExpiredUploads` (pg:1108) is called by nobody. `ObjectsAgree` leaves them out.
- An upload whose `complete` is rolled back has lost its parts (fs_driver.ts:166): the next
  attempt finds none and has emptied the object by then. A copy onto itself empties it too.
- A node that stops leaves its row to the sweep (plugin.ts:274), although the test at
  tests/mesh.registry.test.ts:32 is called "removes it on stop".
- A call to a peer that does not answer in time ends in a `MeshCallError`,
  where docs/mesh.md:165 has `MeshTimeoutError`, and a receiver does not look at the "per-call deadline"
  (docs/mesh.md:79): what was given up runs on, beside its retry. `OneAtATime` leaves it out.
- A schedule that is registered after the worker has started is unknown to the lanes: one of them deletes its row as stale
  and the primary engine does not write it again (host:797). An expression that is not valid, or names a day that does not
  come, makes every sync throw, and no lane works on its queue before its sync has ended.
- An `onStart` hook that throws leaves the worker, the server and the bus running (host:582).
- Two posts of one payload at one time are both published, and two dispatches of an event both make jobs: there is no
  unique key (webhooks/src/index.ts:459). `OncePerEvent` leaves meetings out.
- A failed attempt's row in the delivery log is rolled back with its job (webhooks/src/index.ts:637-651), where
  docs/webhooks.md:551 has the "delivery attempt history": `DeliveriesAgree` says nothing of failed attempts;
  and retries keep the id that docs/webhooks.md:401 calls unique to an attempt.
- `createApiKey` that meets `deleteUser` leaves a key that works (auth/src/index.ts:446), and failures at one time
  count as one.
- A collection with a `schemaVersion` and no `onWrite`, as in docs/rest-collections.md:113-127, stamps a
  document that it updates with its own version while the content stays as it was
  (rest-collections/src/index.ts:489, :535), and a later `onRead` is not told that it is old. `VersionsAgree`
  ties the version to the format where the last writer has an `onWrite`.
- An update of a document that meets its deletion leaves metadata behind; two updates of one document keep the
  later one's whole document (pg:534).
- docs/kv.md:17 has "Expired keys are invisible immediately on read"; SQLite shows them until the UTC date
  changes, as `expires_at` has a `T` where `datetime('now')` has a space (bun/src/sqlite_adapter.ts:603). Lists
  by prefix there use LIKE, which folds case and takes `_` and `%` for wildcards.
- With a delimiter, a list of blobs that goes on by `nextCursor` (docs/blobs.md:74) skips or repeats entries.
- Parts of an upload that is gone stay where SQLite does not enforce foreign keys (bun); Node's
  `advanceCronSchedule` does not report a lost lease (node/src/sqlite_node_adapter.ts:402). On a file from
  before keys could expire Node's key calls throw, as it does not add the column
  (bun/src/sqlite_adapter.ts:217-227 does); `KvHonest` excepts that (`Served`).
- `*/n` in a day field is not the wildcard, so that it is combined with the other day field by OR.
- `dependsOn: [{ name: "auth" }]`, as in docs/plugins.md:82-90, is an object without entries, not a name; a
  plugin inside another that depends on it is "circular"; and what two calls of `register()` share is registered twice,
  its hooks too, so `DependenciesFirst` speaks of one call. An action without a name throws in the middle of the list
  (runtime/index.ts:1424) and leaves the registry with what came before.
- Migrations are not recorded: all of them run again at each start (docs/database.md:110).

## Proofs

TLAPS proves these for every value of the constants that satisfies the named assumptions.

- **JobQueueProofs.** `TypeCorrect`, and, however late lanes are, `ClaimsAreOnce` (`OncePerClaim`),
  `LettersAreNotLost` (`DlqHasLetter`) and `LateLanesAreHarmless` (`SettledForCause`). The properties alone are not
  inductive: a lane that is about to mark a job "dlq" must already have a letter for its
  attempt, a lane that is about to write one must not, and attempt numbers in hand are at most
  those in the row. `IInv` says so; `StepHolds` takes it through each action.
  Under `~OverrunAllowed`, `LeaseIsExclusive`: `Exclusive` is
  inductive beside the type invariant, since the tick may not let the lease of a held job run
  out. `SettledStaysSettled` and `QueueKeepsPromise` (the initial state and every step of
  `JobQueue` map to `DurableQueue` or stutter) follow from it, and so does `CommitsAreAccounted`: under exclusion
  at most one lane is about to settle a job, so the ledger of commits, crashes and settlements is one of each job
  (`Ledger`).
- **CronSchedulerProofs**: `TypeCorrect`, and `OncePerSlot` for any versions, clocks and
  overruns: the run's row is inserted in the transaction that enqueues the job, so the jobs
  of a slot never outnumber its row. The others are for deployments that register the same schedules (`SameRegistry`).
  `SlotsInOrder` relates the rows, the claims in hand and the runs: while a process
  has the token of a row, no later slot than its own has been fired (`HolderIsLast`). `SchedulesSurvive` follows
  from `RowsLast`: what a process has listed or written is still there, since with one registry nobody finds a row to
  delete. `NothingIsLost` needs a sync without a stale clock (`~SyncTakesTime`) and the invariant `NoneSkipped`: a process
  writes a row at the very time it found it missing, the next slot of a window that it has resolved is the first
  one after the slot it fires, and the slot before the row's is the last one fired.
- **WorkflowProofs**: `TypeCorrect`, and `ActionsCommitOnce` (`ActionsOnce`). A lane works on a copy and commits
  it under the row's lock, so the invariant has to say what a copy may differ in: no two lanes are in a run of one
  instance (`Shape`), and the actions committed and those a lane has performed are disjoint and together those its copy
  is past (`ActInv`). `SignalsPassOnce`, `NothingIsEarly` and `WakeupsAreNotLost` (`NoLostWakeup`) follow: a signal is
  taken by the lane that holds the row, hence by one wait (`SignalInv`). That a wake-up is not lost is a fact about
  every row and every run in progress at once: what a row has to do has a job whose run has not ended (`RowWakes`), and
  what a run has not seen, or leaves to do, has a job with which no run has begun, or the timer it has written
  itself (`RunWakes`).
- **EngineProofs**, of `EngineTx`: `HostRunsOneAtATime` (an operation waits for the one before),
  `OperationsTakeEffectWhole` and `TransactionsAreAllOrNothing` (`AllOrNothing`). An operation beside which no
  callback has run has the buffers, the connection and the open transaction to itself at each of its places
  (`Solo`), also where its INSERT, COMMIT or publish fails: the depth is 0 by then, and counted down again it
  stays there. The depth counts the tasks inside a transaction as long as nothing was cut short (`DepthInv`,
  `DepthTold`). The second theorem assumes that callbacks follow each other, `Callbacks = "serial"`, as those of
  a polling bus do: two at one time leave the depth at -1, which TLC finds when `Callbacks` is "concurrent". Of
  `Blobs`: `RowsTellOfFiles` (`ObjectsAgree`), with any number of clients, keys and parts. The invariant
  `BlobsInv` keeps apart what shares the disk: no two paths lead to one inode (`OnePath`), one that is written
  belongs to the path of its writers, and nothing leads yet to one that a put streams into (`OwnedInodes`,
  `Shared`, `Apart`). Who has had no other beside it on its key or upload has come as far as its step says
  (`AloneCome`), no two transactions have written one row (`Locks`), and so what is clean and untouched agrees
  with its row (`KeysSettled`, `PartsSettled`). Where objects are only put and deleted, and no two in one
  millisecond, no file is ever torn (`Whole`). That a put finds an inode that is free is counted: there is one
  for every path and two for every client.
- **EventDeliveryProofs**: `HandledAtMostOnce` (`AtMostOnce`) and `OwnEventsHandledOnce` (`NotTwiceInProcess`).
  Every event is where its process, a notification or a job has it (`Stages`); a marker is there exactly if a
  handler has committed (`Marks`); without a bus an event has one job at most (`OneJob`), and with one worker
  jobs are taken one at a time, so a handler that is about to commit is the only one of its event and
  subscription (`Fresh`); and a listening process has an event in one place on its way: sending, buffered,
  mailed, received or called (`Single`).
- **HostProofs**: `BusStopsLast` (`BusOutlivesLanes`) and `NoScheduleIsMissed` (`SchedulesSynced`). A lane that
  has put a drain into the primary engine's chain waits for it and has one there (`DrainsAwaited`), whoever
  began the sync is in it (`SyncIsOf`), and so no step wakes a lane after the worker's flag (`Moves`). A sync
  which sees every registration deletes nothing that it has visited, and turns to deletes when it has visited
  all that the workers know (`SyncHonest`).
- **MeshProofs**, of `MeshCalls`: `CallsRunOnce` (`OneAtATime`, and that no attempt has two executions) and
  `ContextsAreOwn` (`OwnContext`), whatever middleware waits. For this the slots are a stack: of the calls in
  flight, the last one's context is in the shared slot and that of each other one is what the next has put aside
  (`Stacked`), which a call that ends out of turn breaks for those it `crossed`. So a middleware that calls the
  next function when its call is the last one finds its own context (`Taken`), and keeps it over every retry. Of
  `MeshRegistry`: `PeersAreAlive`, the first half of `PeersRecent`, with no condition: what a row, a list or an
  event says of a node was true before the node ended, and what a cache says is wrong by the delay of an event
  at most (`RegistryInv`). `PeersStayRecent` is all of it, where heartbeats are at least as frequent as the
  sweep's limit is long: with punctual timers the row of a node that is registered is younger than the time
  since its last heartbeat, or the transaction is open that makes it so (`TimelyInv`). The two need that a set
  of ages has a least one, which is proved without induction: the injections of an interval into itself are onto
  (`Least`).
- **PluginProofs**, of the plugins over the document store, with any number of processes. Each of the three invariants says
  how far a request has come, what its transaction has written by then and about what (two of one
  subject have *met*), and what the committed rows are to that.
  - `Auth`: `KeysStayOut` (`DeadKeysStayOut`) and `FailuresEndInBlock` (`FailuresBlock`). A transaction writes only to the
    user and the keys, or the prefix, that it is about, and to a key that exists only that it is revoked (`Writes`); no two
    write one document (`Apart`); unless requests met, a failure about to be counted is one more than the
    streak at least, which the count in the table covers (`Counted`, `CountsCover`), the keys of a user that is gone are
    revoked (`UsersTake`), and so is a key whose revocation was answered (`EndedStay`).
  - `RestCollections`: `VersionsGoWithContents` (`VersionsAgree`) and `AnsweredUpdatesStay` (`UpdatesKept`). A
    document has one row of metadata with the version of its last writer, or is from before and has none
    (`Pairs`); what writes the one has written the other by its commit (`Updates`, `Creates`, `Deletes`), and
    its content has its writer's format if this has an `onWrite` (`WrittenIs`). Metadata whose document is gone
    is left by meetings only (`Owners`), and who is alone has read what it replaces (`Reads`).
  - `Webhooks`: `HooksOncePerEvent` (`OncePerEvent`) and `DeliveriesMatchAnswers` (`DeliveriesAgree`). A key
    that is remembered has been published, and what is about to be published is not remembered (`AcceptOK`). An
    event without its marker has no jobs, and whoever is about to set the marker has a job for every hook that
    wanted the event and was left alone, of ids that are nobody else's (`DispatchOK`). A hook that was left
    alone wants its events still; one that is turned off cannot be delivered to, and nobody holds a copy of it,
    or a write, that would change that (`ManageOK`). A job in progress has one process, which logs no more than
    the endpoint has answered (`DeliverOK`).

What they assume: the named assumptions of the constants (`QueueAssumption`, `CronAssumption`,
`WorkflowAssumption`, `EngineAssumption`, `DeliveryAssumption`, `HostAssumption`, `MeshAssumption`,
`BlobsAssumption`, `AuthConstants`, `RestConstants`, `WebhookConstants`), which TLC evaluates in the runs; that
`None` is no transaction (the rest of `AuthAssumption`, `RestAssumption` and `WebhookAssumption`: TLC cannot ask
a model value for its fields); and the condition that a theorem states: leases kept, one registry, serial
callbacks, that `None` is no call, `HeartbeatMs <= GcAfter` (10 s and 10 min by default, plugin.ts:90-92). Where
heartbeats are rarer, the sweep takes rows of the living.

`EngineProofs`, `MeshProofs` and `PluginProofs` take further components as named instances, since their theorems
share lemmas. `EngineTx`, `Blobs`, `Host`, `MeshCalls`, `MeshRegistry`, `Auth`, `RestCollections` and `Webhooks`
are checked as parts of `MCBasis` and `MCServices`, whose properties are theirs for one value of the constants.

Model-checked only, and why:

- Liveness under fairness (`EventuallySettled`, `EventuallyFired`, `Progress`, `ReachesPeers`), which needs `ENABLED`.
- `ClaimsHold`, `KvHonest`, `ReadersMissNothing` and `DependenciesFirst`: what the recursive operators of
  `SqliteAdapters` and `Registration` compute, where the prover has neither recursion nor induction over data.
- `SlotsExact`: cron expressions are compared with what they mean, a computation over dates in which no step is taken.

## Limits and plan

Abstracted everywhere: payloads, names, wording, telemetry. Not seen in the models:

- *Cron.* Two processes that sync slowly at one time may set a row back over a slot;
  `NothingLost` is checked with `SyncTakesTime = FALSE`. Expressions and schedules are two modules: in one an
  expression is the set of its slots, in the other it is shown what these are.
- *JobQueue.* A statement that takes effect has its answer: a `completeQueueJob` that is applied while its
  answer is lost, after which the catch (engine.ts:757) marks the job again, is no case.
- *Workflow.* Contracts, versions and schemas; the guard of 1024 iterations.
- *EventDelivery.* Cascading events of handlers (those of sync dispatch are collected and dropped), the first
  poll before the mark is read, the limit of attempts of dispatch jobs (`MaxFaults` is below it), handlers of
  two notifications of one process at one time. The interleaving of one engine's transactions is `EngineTx`'s.
- *EngineTx.* A BEGIN or `pool.connect()` that fails (a BEGIN that does leaves `transactionClient` set,
  pg:360-361, so that the next transaction joins a connection without one); statements of a handler that fail
  and that it catches; deeper nesting, more than one engine.
- *Blobs.* Reading, which changes nothing; several operations in one transaction; a copy whose
  source is overwritten in place reads either all of the new bytes or torn ones; the memory
  driver, for tests; signed tokens.
- *MeshRegistry, MeshCalls.* Clock skew between nodes, service metadata, the encoding of requests.
- *Host.* What a job or a request does; batches of several jobs.
- *Plugins.* Signatures are right or wrong; filters of lists; the order of a list.
- *SQLite.* Migrations, the Kysely handle; calls of different areas together; collections and workflows; older
  files of workflow tables (`current_step_id`).
- *Registration.* Builders, decorators, invokers of action references, telemetry overrides and the description of
  workflow contracts.

Not modelled: migrations, schema and contract tooling, configuration, secrets and the CLI (sequential, at the
command line or at start), telemetry (written outside transactions, read by nothing), pact (a test tool), the
platforms' shims (pure I/O).

What could follow: the plugins with lanes that outlive their leases, as `JobQueue` has them; a composition of blobs with
the engine's transactions, in which several operations share one; clocks of nodes that differ.
