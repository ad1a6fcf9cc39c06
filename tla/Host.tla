-------------------------------- MODULE Host --------------------------------
(***************************************************************************)
(* A host from start to stop: its lanes or its single worker loop, the     *)
(* chain of operations of the primary engine, the server, the event bus,   *)
(* the hooks, and the cron schedules that are registered and synced.       *)
(*                                                                         *)
(* With PostgreSQL every lane has an engine of its own, with a copy of the *)
(* registry made at the start; with SQLite the worker is one lane, whose   *)
(* drain is one more operation in the chain of the primary engine.         *)
(***************************************************************************)
EXTENDS Integers, Sequences, FiniteSets

CONSTANTS
  Lanes,
  Crons,      \* names of schedules
  Hooks,      \* number of hooks, at the start and at the stop
  MaxJobs,    \* bound: jobs, due schedules and syncs that are asked for
  MaxFaults,  \* bound: syncs, operations and hooks that fail
  None

Syncs == [by : Lanes \cup {"primary", "program"}, stage : {"upserts", "deletes"},
          persisted : SUBSET Crons, seen : SUBSET Crons]

(* The names that stand for no lane are not those of lanes. *)
HostAssumption == None \notin Lanes /\ None \notin Syncs /\ "primary" \notin Lanes /\ "program" \notin Lanes

VARIABLES
  lanesOn,     \* does the storage support concurrent workers
  phase,       \* of the host: [name, hook]
  server, bus, \* are they on
  stopped,     \* the flag of the worker
  lane,        \* where a lane is
  chain,       \* operations of the primary engine, the first one runs
  registry,    \* schedules that are registered
  laneCrons,   \* those in the copy of the lanes
  table,       \* rows of _chimpbase_cron_schedules
  dirty,       \* cronRegistryDirty
  sync,        \* the sync that runs: who began it, its stage, persistedByName, names it has visited
  work,        \* what is due: schedules and jobs
  faults

vars == <<lanesOn, phase, server, bus, stopped, lane, chain, registry, laneCrons, table, dirty, sync, work, faults>>
cronVars == <<registry, table, dirty, sync>>
hostVars == <<phase, server, bus, stopped, laneCrons>>

At(name, hook) == [name |-> name, hook |-> hook]
Fault == faults < MaxFaults /\ faults' = faults + 1

(* Rows of an earlier version may be in the table. *)
Init ==
  /\ lanesOn \in BOOLEAN /\ phase = At("new", 0) /\ server = FALSE /\ bus = FALSE /\ stopped = FALSE
  /\ lane = [l \in Lanes |-> "off"] /\ chain = <<>>
  /\ registry \in SUBSET Crons /\ laneCrons = {} /\ table \in SUBSET Crons /\ dirty = TRUE /\ sync = None
  /\ work = [cron |-> 0, queue |-> 0, left |-> MaxJobs] /\ faults = 0
-----------------------------------------------------------------------------
(* start: up to its first hook it does not pause.  The worker's first tick *)
(* is under way by then.  There may be a worker, a server, both or none.   *)
Start(workers, serves) ==
  /\ phase.name = "new"
  /\ workers \in {{}, Lanes} \cup {{l} : l \in Lanes}
  /\ workers # {} => (lanesOn <=> workers = Lanes)
  /\ phase' = At("starting", 0)
  /\ lane' = [l \in Lanes |-> IF l \in workers THEN "ticks" ELSE "off"]
  /\ laneCrons' = IF workers = {} THEN {} ELSE registry
  /\ server' = serves /\ bus' = TRUE
  /\ UNCHANGED <<lanesOn, stopped, chain, cronVars, work, faults>>

(* A hook that throws ends start; what it has started goes on. *)
StartHook ==
  /\ phase.name = "starting"
  /\ \/ phase' = (IF phase.hook = Hooks THEN At("started", 0) ELSE At("starting", phase.hook + 1)) /\ UNCHANGED faults
     \/ phase.hook < Hooks /\ Fault /\ phase' = At("failed", 0)
  /\ UNCHANGED <<lanesOn, server, bus, stopped, lane, chain, laneCrons, cronVars, work>>

(* stop: the hooks, of which none stops the others; the server; the        *)
(* worker, for whose ticks it waits; the event bus.                        *)
Stop ==
  /\ phase.name = "started"
  /\ phase' = At("stopping", 0)
  /\ UNCHANGED <<lanesOn, server, bus, stopped, lane, chain, laneCrons, cronVars, work, faults>>

StopHook ==
  /\ phase.name = "stopping" /\ phase.hook < Hooks
  /\ phase' = At("stopping", phase.hook + 1)
  /\ UNCHANGED <<lanesOn, server, bus, stopped, lane, chain, laneCrons, cronVars, work, faults>>

StopServer ==
  /\ phase = At("stopping", Hooks)
  /\ phase' = At("closed", 0)
  /\ server' = FALSE /\ stopped' = TRUE
  /\ UNCHANGED <<lanesOn, bus, lane, chain, laneCrons, cronVars, work, faults>>

Resting == \A l \in Lanes : lane[l] \in {"idle", "off"}

(* A bug: the bus is stopped without a wait for the ticks. *)
WorkerStoppedAtOnce == phase.name = "closed"

WorkerStopped == phase.name = "closed" /\ Resting

StopBus ==
  /\ WorkerStopped
  /\ phase' = At("stopped", 0) /\ bus' = FALSE
  /\ UNCHANGED <<lanesOn, server, stopped, lane, chain, laneCrons, cronVars, work, faults>>
-----------------------------------------------------------------------------
(* A lane: a tick that finds the lane at work does nothing. *)
Tick(l) ==
  /\ lane[l] = "idle" /\ ~stopped
  /\ lane' = [lane EXCEPT ![l] = "ticks"]
  /\ UNCHANGED <<lanesOn, hostVars, chain, cronVars, work, faults>>

(* Between two operations a tick looks at the flag. *)
EndTick(l) ==
  /\ lane[l] \in {"ticks", "fails", "idles"}
  /\ lane[l] = "ticks" => stopped
  /\ lane' = [lane EXCEPT ![l] = "idle"]
  /\ UNCHANGED <<lanesOn, hostVars, chain, cronVars, work, faults>>

(* The single worker puts its drain at the end of the chain. *)
WorkerDrain(l) ==
  /\ lane[l] = "ticks" /\ ~stopped /\ ~lanesOn
  /\ chain' = Append(chain, [kind |-> "drain", by |-> l, left |-> 1, first |-> "cron", at |-> "begin"])
  /\ lane' = [lane EXCEPT ![l] = "waits"]
  /\ UNCHANGED <<lanesOn, hostVars, cronVars, work, faults>>

(* Requests, and drains that the program asks for; one of them at a time.  *)
Submit(op) ==
  /\ phase.name # "new" /\ (op.kind = "request" => server)
  /\ \A i \in DOMAIN chain : chain[i].by # None
  /\ chain' = Append(chain, op)
  /\ UNCHANGED <<lanesOn, hostVars, lane, cronVars, work, faults>>

Request == [kind |-> "request", by |-> None, left |-> 0, first |-> "cron", at |-> "runs"]
Drain(maxRuns) == [kind |-> "drain", by |-> None, left |-> maxRuns, first |-> "cron", at |-> "begin"]

(* The next operation begins when the one before has ended, well or not. *)
Leave(op, result) ==
  /\ chain' = Tail(chain)
  /\ lane' = IF op.by = None THEN lane ELSE [lane EXCEPT ![op.by] = result]

EndRequest ==
  /\ chain # <<>> /\ Head(chain).kind = "request"
  /\ Leave(Head(chain), None)
  /\ UNCHANGED <<lanesOn, hostVars, cronVars, work, faults>>
-----------------------------------------------------------------------------
(* The sync of cron schedules, which whoever needs it first begins, and    *)
(* the others wait for if the registry has changed again.                  *)
Needy(who) ==
  \/ who \in Lanes /\ lanesOn /\ lane[who] = "ticks" /\ ~stopped
  \/ who = "primary" /\ chain # <<>> /\ Head(chain).kind = "drain" /\ Head(chain).at = "begin"

Goes(who, to) ==
  IF who = "primary" THEN chain' = [chain EXCEPT ![1].at = to] /\ UNCHANGED lane
  ELSE lane' = [lane EXCEPT ![who] = to] /\ UNCHANGED chain

Clean(who) ==
  /\ Needy(who) /\ ~dirty
  /\ Goes(who, "cron")
  /\ UNCHANGED <<lanesOn, hostVars, cronVars, work, faults>>

BeginSync(who) ==
  /\ Needy(who) /\ dirty /\ sync = None
  /\ sync' = [by |-> who, stage |-> "upserts", persisted |-> table, seen |-> {}]
  /\ dirty' = FALSE
  /\ Goes(who, "syncs")
  /\ UNCHANGED <<lanesOn, hostVars, registry, table, work, faults>>

AwaitSync(who) ==
  /\ Needy(who) /\ dirty /\ sync # None
  /\ Goes(who, "awaits")
  /\ UNCHANGED <<lanesOn, hostVars, cronVars, work, faults>>

(* syncRegisteredCrons, a statement a step.  What is registered meanwhile  *)
(* is visited too, as long as others are.                                  *)
SyncSchedule(name) ==
  /\ sync # None /\ sync.stage = "upserts" /\ name \in registry \ sync.seen
  /\ sync' = [sync EXCEPT !.seen = @ \cup {name}, !.persisted = @ \ {name}]
  /\ table' = IF name \in sync.persisted THEN table ELSE table \cup {name}
  /\ UNCHANGED <<lanesOn, hostVars, lane, chain, registry, dirty, work, faults>>

SyncTurns ==
  /\ sync # None /\ sync.stage = "upserts" /\ registry \subseteq sync.seen
  /\ sync' = [sync EXCEPT !.stage = "deletes"]
  /\ UNCHANGED <<lanesOn, hostVars, lane, chain, registry, table, dirty, work, faults>>

SyncStale(name) ==
  /\ sync # None /\ sync.stage = "deletes" /\ name \in sync.persisted
  /\ sync' = [sync EXCEPT !.persisted = @ \ {name}]
  /\ table' = table \ {name}
  /\ UNCHANGED <<lanesOn, hostVars, lane, chain, registry, dirty, work, faults>>

Waiting(who) == IF who = "primary" THEN chain # <<>> /\ Head(chain).at = "awaits" ELSE lane[who] = "awaits"

(* All that waited go on; the primary engine's operation may be among them. *)
Release(lanesTo, primaryTo) ==
  LET freed(who) == who = sync.by \/ Waiting(who)
  IN /\ lane' = [l \in Lanes |-> IF freed(l) THEN lanesTo
                   ELSE IF freed("primary") /\ primaryTo = "fails" /\ Head(chain).by = l THEN "fails" ELSE lane[l]]
     /\ chain' = IF ~freed("primary") THEN chain
                 ELSE IF primaryTo = "fails" THEN Tail(chain) ELSE [chain EXCEPT ![1].at = primaryTo]

Synced == sync # None /\ sync.stage = "deletes" /\ sync.persisted = {}

(* A bug: the flag is put down when the sync has ended. *)
EndSyncPutsDown ==
  /\ Synced
  /\ dirty' = FALSE /\ sync' = None /\ Release("cron", "cron")
  /\ UNCHANGED <<lanesOn, hostVars, registry, table, work, faults>>

EndSync ==
  /\ Synced
  /\ IF dirty THEN sync' = [sync EXCEPT !.stage = "upserts", !.persisted = table, !.seen = {}] /\ dirty' = FALSE /\ UNCHANGED <<lane, chain>>
     ELSE sync' = None /\ Release("cron", "cron") /\ UNCHANGED dirty
  /\ UNCHANGED <<lanesOn, hostVars, registry, table, work, faults>>

SyncFails ==
  /\ sync # None /\ Fault
  /\ dirty' = TRUE /\ sync' = None /\ Release("fails", "fails")
  /\ UNCHANGED <<lanesOn, hostVars, registry, table, work>>

(* The program asks for a sync. *)
SyncCronSchedules ==
  /\ work.left > 0 /\ work' = [work EXCEPT !.left = @ - 1]
  /\ IF sync # None THEN dirty' = TRUE /\ UNCHANGED sync
     ELSE sync' = [by |-> "program", stage |-> "upserts", persisted |-> table, seen |-> {}] /\ dirty' = FALSE
  /\ UNCHANGED <<lanesOn, hostVars, lane, chain, registry, table, faults>>

(* registerCron may be called at any time; before the start see Init. *)
RegisterCron(name) ==
  /\ phase.name # "new" /\ name \notin registry
  /\ registry' = registry \cup {name} /\ dirty' = TRUE
  /\ UNCHANGED <<lanesOn, hostVars, lane, chain, table, sync, work, faults>>
-----------------------------------------------------------------------------
(* Work: a schedule that an engine claims is one of the table; when its    *)
(* registry does not have it the row is deleted.                           *)
Due ==
  /\ work.left > 0
  /\ \E kind \in {"cron", "queue"} : work' = [work EXCEPT ![kind] = @ + 1, !.left = @ - 1]
  /\ UNCHANGED <<lanesOn, hostVars, lane, chain, cronVars, faults>>

ProcessNextCronSchedule(known, name) ==
  /\ work.cron > 0 /\ name \in table
  /\ IF name \in known THEN work' = [work EXCEPT !.cron = @ - 1] /\ UNCHANGED table
     ELSE table' = table \ {name} /\ UNCHANGED work

(* Two parts of an operation: the schedules, then the jobs. *)
LaneCron(l) ==
  /\ lane[l] = "cron" /\ lanesOn
  /\ \/ \E name \in Crons : /\ ProcessNextCronSchedule(laneCrons, name) /\ UNCHANGED faults
                            /\ lane' = [lane EXCEPT ![l] = IF name \in laneCrons THEN "more" ELSE "queue"]
     \/ lane' = [lane EXCEPT ![l] = "queue"] /\ UNCHANGED <<work, table, faults>>
     \/ Fault /\ lane' = [lane EXCEPT ![l] = "fails"] /\ UNCHANGED <<work, table>>
  /\ UNCHANGED <<lanesOn, hostVars, chain, registry, dirty, sync>>

(* A batch is of one job when there are several lanes.  A job that fails   *)
(* fails the tick, and comes due again.                                    *)
LaneQueue(l) ==
  /\ lane[l] \in {"queue", "more"}
  /\ \/ work.queue > 0 /\ work' = [work EXCEPT !.queue = @ - 1] /\ lane' = [lane EXCEPT ![l] = "ticks"] /\ UNCHANGED faults
     \/ work.queue = 0 /\ lane' = [lane EXCEPT ![l] = IF @ = "more" THEN "ticks" ELSE "idles"] /\ UNCHANGED <<work, faults>>
     \/ Fault /\ lane' = [lane EXCEPT ![l] = "fails"] /\ UNCHANGED work
  /\ UNCHANGED <<lanesOn, hostVars, chain, cronVars>>

(* drain of the engine: one kind of work, or else the other, and first the *)
(* other next time.  A schedule that was deleted counts as none found.     *)
Other(kind) == IF kind = "cron" THEN "queue" ELSE "cron"
Draining == chain # <<>> /\ Head(chain).kind = "drain" /\ Head(chain).at \in {"cron", "other"}
Tries(kind) == Draining /\ kind = (IF Head(chain).at = "cron" THEN Head(chain).first ELSE Other(Head(chain).first))

Found(kind) ==
  LET op == Head(chain) IN
  IF op.left = 1 THEN Leave(op, "ticks")
  ELSE chain' = <<[op EXCEPT !.left = @ - 1, !.first = Other(kind), !.at = "cron"]>> \o Tail(chain) /\ UNCHANGED lane

Missed ==
  LET op == Head(chain) IN
  IF op.at = "other" THEN Leave(op, "idles")
  ELSE chain' = <<[op EXCEPT !.at = "other"]>> \o Tail(chain) /\ UNCHANGED lane

DrainCron ==
  /\ Tries("cron")
  /\ \/ \E name \in Crons : /\ ProcessNextCronSchedule(registry, name)
                            /\ IF name \in registry THEN Found("cron") ELSE Missed
     \/ (work.cron = 0 \/ table = {}) /\ Missed /\ UNCHANGED <<work, table>>
  /\ UNCHANGED <<lanesOn, hostVars, registry, dirty, sync, faults>>

DrainQueue ==
  /\ Tries("queue")
  /\ IF work.queue > 0 THEN work' = [work EXCEPT !.queue = @ - 1] /\ Found("queue")
     ELSE UNCHANGED work /\ Missed
  /\ UNCHANGED <<lanesOn, hostVars, cronVars, faults>>

(* An error; or the time is over, which the worker does not limit. *)
DrainEnds ==
  /\ Draining
  /\ \/ Head(chain).by = None /\ Leave(Head(chain), "ticks") /\ UNCHANGED faults
     \/ Fault /\ Leave(Head(chain), "fails")
  /\ UNCHANGED <<lanesOn, hostVars, cronVars, work>>

Next ==
  \/ \E workers \in SUBSET Lanes, serves \in BOOLEAN : Start(workers, serves)
  \/ StartHook \/ Stop \/ StopHook \/ StopServer \/ StopBus
  \/ \E l \in Lanes : Tick(l) \/ EndTick(l) \/ WorkerDrain(l) \/ LaneCron(l) \/ LaneQueue(l)
  \/ Submit(Request) \/ Submit(Drain(2)) \/ EndRequest
  \/ \E who \in Lanes \cup {"primary"} : Clean(who) \/ BeginSync(who) \/ AwaitSync(who)
  \/ \E name \in Crons : SyncSchedule(name) \/ SyncStale(name) \/ RegisterCron(name)
  \/ SyncTurns \/ EndSync \/ SyncFails \/ Due \/ SyncCronSchedules \/ DrainCron \/ DrainQueue \/ DrainEnds

Spec == Init /\ [][Next]_vars
-----------------------------------------------------------------------------
(* While a lane works the event bus is on, and when stop has ended no lane *)
(* works or will (order of stop, and the ticks that worker.stop awaits).   *)
BusOutlivesLanes == Resting \/ bus

(* When no sync is due or under way every schedule that the workers know   *)
(* has its row, even one registered while a sync was deleting what is      *)
(* stale: none is missed, none is deleted by a worker.  (Lanes know what   *)
(* was registered when they were made.)                                    *)
KnownToWorkers == IF \E l \in Lanes : lanesOn /\ lane[l] # "off" THEN laneCrons ELSE registry

SchedulesSynced == phase.name # "new" /\ ~dirty /\ sync = None => KnownToWorkers \subseteq table
=============================================================================
