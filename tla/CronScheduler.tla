--------------------------- MODULE CronScheduler ---------------------------
(***************************************************************************)
(* Durable cron schedules: the tables _chimpbase_cron_schedules and        *)
(* _chimpbase_cron_runs, and the processes that write their registered     *)
(* schedules into them (syncRegisteredCrons), claim the due ones and turn  *)
(* a due slot into a job of the cron queue (processNextCronSchedule).      *)
(*                                                                         *)
(* Time is a calendar of ticks 0..MaxTime; an expression is the set of its *)
(* slots in it, so computeNextCronFireTime is the next member.  A process  *)
(* may run another version of the application than its neighbour, with     *)
(* other schedules, as in a rolling deployment.  A statement outside the   *)
(* firing transaction is a step of its own, and so is every reading of the *)
(* clock that follows an await.  The lease is kept as the time that is     *)
(* left of it.                                                             *)
(***************************************************************************)
EXTENDS Integers, FiniteSets

CONSTANTS
  Procs,          \* the processes, each with one lane that polls schedules
  Schedules,      \* schedule names
  Exprs,          \* cron expressions
  NoExpr,         \* in a registry: not registered; in the table: no row
  SlotsOf,        \* the slots of each expression
  MaxTime,        \* bound: the end of the calendar
  Versions,       \* versions of the application
  RegistryOf,     \* each version's registered expression of each schedule
  LeaseMs,        \* worker.leaseMs
  Tokens,         \* lease tokens: randomUUID never repeats one in use
  NoToken,        \* lease_token NULL
  MaxBoots,       \* bound: starts of a process
  MaxFaults,      \* bound: statements that fail, and leases outlived
  SyncTakesTime   \* may time pass while a process syncs its schedules?

Times == 0..MaxTime
Never == MaxTime + 1

ASSUME CronAssumption ==
  /\ MaxTime \in Nat /\ MaxBoots \in Nat /\ MaxFaults \in Nat /\ LeaseMs \in Nat \ {0}
  /\ Schedules # {} /\ NoExpr \notin Exprs /\ NoToken \notin Tokens
  /\ SlotsOf \in [Exprs -> SUBSET Times]
  /\ RegistryOf \in [Versions -> [Schedules -> Exprs \cup {NoExpr}]]
  /\ SyncTakesTime \in BOOLEAN

VARIABLES
  now,      \* platform.now()
  expr,     \* column cron_expression; NoExpr when there is no row
  next,     \* column next_fire_at_ms
  token,    \* column lease_token
  lease,    \* lease_expires_at_ms - now, 0 when it has run out
  runs,     \* rows of _chimpbase_cron_runs: <<schedule, slot>>
  fired,    \* jobs enqueued on the cron queue, per schedule and slot
  phase,    \* what each process is doing
  version,  \* the version each process runs
  listed,   \* the rows a syncing process listed and has not dealt with
  syncNow,  \* the clock it read after that
  claim,    \* the schedule record a process claimed
  boots,    \* starts so far
  faults,   \* what has failed so far
  since     \* history: the clock each row was first written with

rows == <<expr, next, token, lease>>
lanes == <<phase, version, listed, syncNow, claim>>
vars == <<now, rows, runs, fired, lanes, boots, faults, since>>

Syncing == {"booting", "listed", "syncing", "pruning"}
Phase == Syncing \cup {"down", "polling", "claimed", "resolved", "releasing", "deleting"}

Present(s) == expr[s] # NoExpr
Registered(p, s) == RegistryOf[version[p]][s]
-----------------------------------------------------------------------------
(* computeNextCronFireTime: u is the first slot after t. *)
IsNextFire(e, t, u) ==
  u \in SlotsOf[e] \cup {Never} /\ t < u /\ \A v \in SlotsOf[e] : t < v => u <= v

(* Mutant of IsWindow: the persisted slot is fired, however old it is. *)
IsWindowOldest(e, due, t, fire, nextFire) == fire = due /\ IsNextFire(e, t, nextFire)

(***************************************************************************)
(* resolveNextCronExecutionWindow: of the slots that are due at t, the     *)
(* last one is fired and the earlier ones are skipped.                     *)
(***************************************************************************)
IsWindow(e, due, t, fire, nextFire) ==
  /\ fire = due \/ (fire \in SlotsOf[e] /\ due < fire /\ fire <= t)
  /\ \A v \in SlotsOf[e] : due < v /\ v <= t => v <= fire
  /\ IsNextFire(e, fire, nextFire)
-----------------------------------------------------------------------------
NoClaim == [name |-> CHOOSE s \in Schedules : TRUE, due |-> 0, token |-> NoToken, fire |-> 0, next |-> 0]
NothingListed == [s \in Schedules |-> NoExpr]

Init ==
  /\ now = 0
  /\ expr = [s \in Schedules |-> NoExpr]
  /\ next = [s \in Schedules |-> 0]
  /\ token = [s \in Schedules |-> NoToken]
  /\ lease = [s \in Schedules |-> 0]
  /\ runs = {}
  /\ fired = [s \in Schedules |-> [t \in Times |-> 0]]
  /\ phase = [p \in Procs |-> "down"]
  /\ version \in [Procs -> Versions]
  /\ listed = [p \in Procs |-> NothingListed]
  /\ syncNow = [p \in Procs |-> 0]
  /\ claim = [p \in Procs |-> NoClaim]
  /\ boots = 0
  /\ faults = 0
  /\ since = [s \in Schedules |-> Never]

Boot(p, v) ==
  /\ phase[p] = "down" /\ boots < MaxBoots
  /\ boots' = boots + 1
  /\ version' = [version EXCEPT ![p] = v]
  /\ phase' = [phase EXCEPT ![p] = "booting"]
  /\ UNCHANGED <<now, rows, runs, fired, listed, syncNow, claim, faults, since>>

(* A statement fails for a reason outside of this module. *)
Fault == faults < MaxFaults /\ faults' = faults + 1

(* The process stops wherever it is, or syncRegisteredCrons throws and the *)
(* next poll starts it again.                                              *)
Forget(p, ph) ==
  /\ phase' = [phase EXCEPT ![p] = ph]
  /\ listed' = [listed EXCEPT ![p] = NothingListed]
  /\ syncNow' = [syncNow EXCEPT ![p] = 0]
  /\ claim' = [claim EXCEPT ![p] = NoClaim]
  /\ UNCHANGED <<now, rows, runs, fired, version, boots, since>>

(* A stop is followed by a start. *)
Stop(p) == phase[p] # "down" /\ boots < MaxBoots /\ Forget(p, "down") /\ UNCHANGED faults
SyncFails(p) == phase[p] \in {"listed", "syncing", "pruning"} /\ Fault /\ Forget(p, "booting")
-----------------------------------------------------------------------------
(* syncRegisteredCrons lists the rows, then reads the clock. *)
SyncList(p) ==
  /\ phase[p] = "booting"
  /\ listed' = [listed EXCEPT ![p] = expr]
  /\ phase' = [phase EXCEPT ![p] = "listed"]
  /\ UNCHANGED <<now, rows, runs, fired, version, syncNow, claim, boots, faults, since>>

SyncClock(p) ==
  /\ phase[p] = "listed"
  /\ syncNow' = [syncNow EXCEPT ![p] = now]
  /\ phase' = [phase EXCEPT ![p] = "syncing"]
  /\ UNCHANGED <<now, rows, runs, fired, version, listed, claim, boots, faults, since>>

(* The schedules that a syncing process has yet to write, by what it listed. *)
ToUpsert(p) ==
  {s \in Schedules : Registered(p, s) # NoExpr /\ listed[p][s] # Registered(p, s)}

(***************************************************************************)
(* upsertCronSchedule: INSERT ... ON CONFLICT DO UPDATE, which also resets *)
(* the next slot and the lease of a row that has come to be there since.   *)
(***************************************************************************)
SyncUpsert(p) ==
  /\ phase[p] = "syncing"
  /\ \E s \in ToUpsert(p), nextFire \in Times \cup {Never} :
       LET e == Registered(p, s) IN
       /\ IsNextFire(e, syncNow[p], nextFire)
       /\ expr' = [expr EXCEPT ![s] = e]
       /\ next' = [next EXCEPT ![s] = nextFire]
       /\ token' = [token EXCEPT ![s] = NoToken]
       /\ lease' = [lease EXCEPT ![s] = 0]
       /\ listed' = [listed EXCEPT ![p][s] = e]
       /\ since' = [since EXCEPT ![s] = IF @ = Never THEN syncNow[p] ELSE @]
  /\ UNCHANGED <<now, runs, fired, phase, version, syncNow, claim, boots, faults>>

DeleteRow(s) ==
  /\ expr' = [expr EXCEPT ![s] = NoExpr]
  /\ next' = [next EXCEPT ![s] = 0]
  /\ token' = [token EXCEPT ![s] = NoToken]
  /\ lease' = [lease EXCEPT ![s] = 0]
  /\ since' = [since EXCEPT ![s] = Never]

(* What is left in persistedByName. *)
Stale(p) == {s \in Schedules : listed[p][s] # NoExpr /\ Registered(p, s) = NoExpr}

SyncPrune(p) ==
  /\ phase[p] = "syncing" /\ ToUpsert(p) = {}
  /\ phase' = [phase EXCEPT ![p] = "pruning"]
  /\ listed' = [listed EXCEPT ![p] = [s \in Schedules |-> IF s \in Stale(p) THEN @[s] ELSE NoExpr]]
  /\ syncNow' = [syncNow EXCEPT ![p] = 0]
  /\ UNCHANGED <<now, rows, runs, fired, version, claim, boots, faults, since>>

SyncDelete(p) ==
  /\ phase[p] = "pruning"
  /\ \E s \in Schedules :
       /\ listed[p][s] # NoExpr
       /\ DeleteRow(s)
       /\ listed' = [listed EXCEPT ![p][s] = NoExpr]
  /\ UNCHANGED <<now, runs, fired, phase, version, syncNow, claim, boots, faults>>

SyncDone(p) ==
  /\ phase[p] = "pruning" /\ listed[p] = NothingListed
  /\ phase' = [phase EXCEPT ![p] = "polling"]
  /\ UNCHANGED <<now, rows, runs, fired, version, listed, syncNow, claim, boots, faults, since>>
-----------------------------------------------------------------------------
(* Mutant of Due: a lease is never taken over. *)
DueUnleased(s) == Present(s) /\ next[s] <= now /\ token[s] = NoToken

(* The WHERE clause of the claim. *)
Due(s) == Present(s) /\ next[s] <= now /\ (token[s] = NoToken \/ lease[s] = 0)

(* A row inside another process's firing transaction may be SKIP LOCKED. *)
InUpdate(p) == {claim[q].name : q \in {r \in Procs \ {p} : phase[r] = "resolved"}}

FreshToken(k) == \A s \in Schedules : token[s] # k /\ \A p \in Procs : claim[p].token # k

(* claimNextCronSchedule: the earliest due row. *)
Claim(p) ==
  /\ phase[p] = "polling"
  /\ \E locked \in SUBSET InUpdate(p), s \in Schedules, k \in Tokens :
       /\ s \notin locked /\ Due(s)
       /\ \A r \in Schedules \ locked : Due(r) => next[s] <= next[r]
       /\ FreshToken(k)
       /\ token' = [token EXCEPT ![s] = k]
       /\ lease' = [lease EXCEPT ![s] = LeaseMs]
       /\ claim' = [claim EXCEPT ![p] = [NoClaim EXCEPT !.name = s, !.due = next[s], !.token = k]]
  /\ phase' = [phase EXCEPT ![p] = "claimed"]
  /\ UNCHANGED <<now, expr, next, runs, fired, version, listed, syncNow, boots, faults, since>>

(* The claim has returned: the clock is read and the slot is resolved. *)
Resolve(p) ==
  /\ phase[p] = "claimed" /\ Registered(p, claim[p].name) # NoExpr
  /\ \E fire, nextFire \in Times \cup {Never} :
       /\ IsWindow(Registered(p, claim[p].name), claim[p].due, now, fire, nextFire)
       /\ claim' = [claim EXCEPT ![p].fire = fire, ![p].next = nextFire]
  /\ phase' = [phase EXCEPT ![p] = "resolved"]
  /\ UNCHANGED <<now, rows, runs, fired, version, listed, syncNow, boots, faults, since>>

LetGo(p, ph) ==
  /\ phase' = [phase EXCEPT ![p] = ph]
  /\ claim' = [claim EXCEPT ![p] = IF ph = "polling" THEN NoClaim ELSE @]

(* Mutant of Holds: the row is advanced by its name alone. *)
HoldsByName(p) == Present(claim[p].name)

(* UPDATE ... WHERE schedule_name, next_fire_at_ms and lease_token are     *)
(* those of the claim.                                                     *)
Holds(p) ==
  LET c == claim[p] IN
  Present(c.name) /\ next[c.name] = c.due /\ token[c.name] = c.token

(* Mutant of Inserted: the conflict on _chimpbase_cron_runs is not noticed. *)
InsertedAlways(s, t) == TRUE
Inserted(s, t) == <<s, t>> \notin runs

(***************************************************************************)
(* The firing transaction commits: insertCronRun, the job if that was new, *)
(* and advanceCronSchedule, which throws when it matches no row.           *)
(***************************************************************************)
Fire(p) ==
  /\ phase[p] = "resolved"
  /\ Holds(p)
  /\ LET c == claim[p] IN
     /\ runs' = runs \cup {<<c.name, c.fire>>}
     /\ fired' = IF Inserted(c.name, c.fire)
                 THEN [fired EXCEPT ![c.name][c.fire] = @ + 1] ELSE fired
     /\ next' = [next EXCEPT ![c.name] = c.next]
     /\ token' = [token EXCEPT ![c.name] = NoToken]
     /\ lease' = [lease EXCEPT ![c.name] = 0]
  /\ LetGo(p, "polling")
  /\ UNCHANGED <<now, expr, version, listed, syncNow, boots, faults, since>>

(* advanceCronSchedule throws because another has the row now, or a        *)
(* statement of the transaction fails: rolled back.                        *)
FireFails(p) ==
  /\ phase[p] = "resolved"
  /\ \/ ~Holds(p) /\ UNCHANGED faults
     \/ Fault
  /\ LetGo(p, "releasing")
  /\ UNCHANGED <<now, rows, runs, fired, version, listed, syncNow, boots, since>>

(* Mutant of ReleaseRow: the expiry is not reset with the token. *)
ReleaseRowTokenOnly(p) ==
  LET c == claim[p] IN
  IF Present(c.name) /\ token[c.name] = c.token
  THEN token' = [token EXCEPT ![c.name] = NoToken] /\ UNCHANGED lease
  ELSE UNCHANGED <<token, lease>>

(* releaseCronScheduleLease, by name and token. *)
ReleaseRow(p) ==
  LET c == claim[p] IN
  IF Present(c.name) /\ token[c.name] = c.token
  THEN token' = [token EXCEPT ![c.name] = NoToken] /\ lease' = [lease EXCEPT ![c.name] = 0]
  ELSE UNCHANGED <<token, lease>>

(* The release after a failed transaction; it may fail as well. *)
Release(p) ==
  /\ phase[p] = "releasing"
  /\ \/ ReleaseRow(p) /\ UNCHANGED faults
     \/ Fault /\ UNCHANGED <<token, lease>>
  /\ LetGo(p, "polling")
  /\ UNCHANGED <<now, expr, next, runs, fired, version, listed, syncNow, boots, since>>

(* A claimed schedule that this process does not know: its lease is        *)
(* released, then its row is deleted.                                      *)
ReleaseUnknown(p) ==
  /\ phase[p] = "claimed" /\ Registered(p, claim[p].name) = NoExpr
  /\ ReleaseRow(p)
  /\ LetGo(p, "deleting")
  /\ UNCHANGED <<now, expr, next, runs, fired, version, listed, syncNow, boots, faults, since>>

DeleteUnknown(p) ==
  /\ phase[p] = "deleting"
  /\ DeleteRow(claim[p].name)
  /\ LetGo(p, "polling")
  /\ UNCHANGED <<now, runs, fired, version, listed, syncNow, boots, faults>>
-----------------------------------------------------------------------------
(* Time passes; at the end of the calendar only the leases run on.  A      *)
(* process that outlives its lease is a fault as well.                     *)
Tick ==
  /\ SyncTakesTime \/ \A p \in Procs : phase[p] \notin Syncing
  /\ IF \E p \in Procs : phase[p] \in {"claimed", "resolved"} /\ lease[claim[p].name] = 1
     THEN Fault ELSE UNCHANGED faults
  /\ now' = IF now < MaxTime THEN now + 1 ELSE now
  /\ lease' = [s \in Schedules |-> IF lease[s] = 0 THEN 0 ELSE lease[s] - 1]
  /\ UNCHANGED <<expr, next, token, runs, fired, lanes, boots, since>>

Sync(p) == SyncList(p) \/ SyncClock(p) \/ SyncUpsert(p) \/ SyncPrune(p) \/ SyncDelete(p) \/ SyncDone(p)
Poll(p) == Claim(p) \/ Resolve(p) \/ Fire(p) \/ FireFails(p) \/ Release(p)
             \/ ReleaseUnknown(p) \/ DeleteUnknown(p)
BootSome == \E p \in Procs, v \in Versions : Boot(p, v)

Next == BootSome \/ (\E p \in Procs : Sync(p) \/ Poll(p) \/ Stop(p) \/ SyncFails(p)) \/ Tick

Spec == Init /\ [][Next]_vars

(* A supervisor restarts what stopped, every process polls, time passes.   *)
(* Stops and faults are not owed to anyone.                                *)
Fairness == WF_vars(BootSome) /\ WF_vars(Tick) /\ \A p \in Procs : WF_vars(Sync(p) \/ Poll(p))
FairSpec == Spec /\ Fairness
-----------------------------------------------------------------------------
Claims == [name : Schedules, due : Times \cup {Never}, token : Tokens \cup {NoToken},
           fire : Times \cup {Never}, next : Times \cup {Never}]

(* The type invariant; a row without a token has no lease.                 *)
TypeOK ==
  /\ now \in Times
  /\ expr \in [Schedules -> Exprs \cup {NoExpr}]
  /\ next \in [Schedules -> Times \cup {Never}]
  /\ token \in [Schedules -> Tokens \cup {NoToken}]
  /\ lease \in [Schedules -> 0..LeaseMs]
  /\ \A s \in Schedules : token[s] = NoToken => lease[s] = 0
  /\ runs \subseteq Schedules \X Times
  /\ fired \in [Schedules -> [Times -> Nat]]
  /\ phase \in [Procs -> Phase]
  /\ version \in [Procs -> Versions]
  /\ listed \in [Procs -> [Schedules -> Exprs \cup {NoExpr}]]
  /\ syncNow \in [Procs -> Times]
  /\ claim \in [Procs -> Claims]
  /\ boots \in 0..MaxBoots /\ faults \in 0..MaxFaults
  /\ since \in [Schedules -> Times \cup {Never}]

(***************************************************************************)
(* A slot of a schedule is turned into a job at most once, whatever        *)
(* leases run out, processes stop, and stale syncs set the row back.       *)
(***************************************************************************)
SlotOnce == \A s \in Schedules, t \in Times : fired[s][t] <= 1

(***************************************************************************)
(* The jobs of a schedule are made in the order of their slots: once a     *)
(* slot was skipped for a later one, or fired by another process, a slow   *)
(* process does not come back to it.                                       *)
(***************************************************************************)
RunsInOrder ==
  [][\A run \in runs' \ runs, r \in runs : r[1] = run[1] => r[2] < run[2]]_vars

(***************************************************************************)
(* Skipping is only ever in favour of a later slot: of the slots between   *)
(* the registration of a schedule and its next slot, the last was fired.   *)
(***************************************************************************)
LastSlotFired ==
  \A s \in Schedules : Present(s) =>
    \A u \in SlotsOf[expr[s]] :
      since[s] < u /\ u < next[s] =>
        <<s, u>> \in runs \/ \E v \in SlotsOf[expr[s]] : u < v /\ v < next[s]

(* "Schedules are durable - they survive process restarts"                 *)
(* (docs/cron.md:3): while a process that has synced its schedules is up,  *)
(* the schedules it registers have their rows.                             *)
ScheduleSurvives ==
  \A p \in Procs, s \in Schedules :
    phase[p] \notin Syncing \cup {"down"} /\ Registered(p, s) # NoExpr => Present(s)

(* While processes of one version boot, stop and fail, no schedule is lost *)
(* and no slot is passed over but for a later one.                         *)
NothingLost == LastSlotFired /\ ScheduleSurvives

(***************************************************************************)
(* Every slot that comes after a schedule's registration gets a job, its   *)
(* own or that of a later slot, through stops, faults and missed ticks.    *)
(***************************************************************************)
EventuallyFired ==
  \A s \in Schedules, t \in Times :
    (Present(s) /\ t \in SlotsOf[expr[s]] /\ since[s] < t /\ t <= now)
      ~> \E u \in t..MaxTime : fired[s][u] > 0
=============================================================================
