------------------------------ MODULE Workflow ------------------------------
(***************************************************************************)
(* Durable workflows: the tables _chimpbase_workflow_instances and         *)
(* _chimpbase_workflow_signals, the clients that start and signal, and the *)
(* lanes that take jobs of the internal workflow queue and run an instance *)
(* until it suspends (processWorkflowQueuePayload).                        *)
(*                                                                         *)
(* A job's whole run of an instance is one database transaction, the job   *)
(* handler's, so a lane works on a copy that its commit writes back.  The  *)
(* UPDATE that claims the instance's lease keeps its row locked until that *)
(* commit, and the lease is gone from the row by then.  Each statement of  *)
(* a run that looks at what others commit, and each reading of the clock,  *)
(* is a step of its own.  The queue is the one of JobQueue, whose lanes    *)
(* may lose a lease, fail and crash; here a job is delivered once or more. *)
(*                                                                         *)
(* A definition has a program of phases: the steps of a steps-based one,   *)
(* or what a run-based one returns in turn.                                *)
(* Deadlines are kept as the time that is left until them.                 *)
(***************************************************************************)
EXTENDS Integers, FiniteSets, Sequences

CONSTANTS
  Lanes,          \* worker lanes
  Instances,      \* workflow ids
  Definitions,    \* definitions of workflows
  NoTime,         \* wake_at_ms NULL; a wait without a timeout
  MaxSignals,     \* bound: signals sent
  MaxJobs,        \* bound: jobs of the workflow queue
  MaxAttempts,    \* worker.maxAttempts
  RetryDelay,     \* worker.retryDelayMs
  MaxFaults       \* bound: what fails for reasons of its own, outlives its lease or crashes

Kinds == {"action", "sleep", "wait", "action_wait"}
Lengths == {Len(d.program) : d \in Definitions}
Phases == 1..(CHOOSE n \in Lengths : \A m \in Lengths : m <= n)
Places(d, kinds) == {k \in 1..Len(d.program) : d.program[k].kind \in kinds}
WaitsOf(d) == Places(d, {"wait", "action_wait"})
ActsOf(d) == Places(d, {"action", "action_wait"})
Waits == UNION {WaitsOf(d) : d \in Definitions}
Acts == UNION {ActsOf(d) : d \in Definitions}
SignalNames == UNION {{d.program[k].signal : k \in WaitsOf(d)} : d \in Definitions}
Jobs == 1..MaxJobs
Signals == 1..MaxSignals
NoJob == 0
ByNothing == 0
ByTimeout == MaxSignals + 1

(* A phase: an action; a sleep; a wait for a signal; or, in a run-based    *)
(* definition, an action followed by a wait with the state it produced.    *)
ASSUME WorkflowAssumption ==
  /\ Instances # {} /\ Definitions # {}
  /\ \A d \in Definitions : d.runBased \in BOOLEAN /\ Len(d.program) \in Nat
  /\ \A d \in Definitions : \A k \in 1..Len(d.program) : LET phase == d.program[k] IN
       /\ phase.kind \in Kinds /\ phase.onTimeout \in {"continue", "fail"}
       /\ phase.delay \in Nat \cup {NoTime}
       /\ phase.kind = "sleep" => phase.delay # NoTime
       /\ phase.kind = "action_wait" => d.runBased
  /\ NoTime \notin Nat
  /\ {MaxSignals, MaxJobs, MaxAttempts, RetryDelay, MaxFaults} \subseteq Nat

VARIABLES
  def,      \* the definition of each instance
  row,      \* the committed row of each instance
  signal,   \* the rows of _chimpbase_workflow_signals, in id order
  job,      \* the jobs of the workflow queue
  lane,     \* what each lane is doing
  effects,  \* how often the action of a phase has committed
  older,    \* history: the signals committed before each was inserted
  faults

vars == <<def, row, signal, job, lane, effects, older, faults>>

(***************************************************************************)
(* The instance: phase is current_step_index, or what the run function     *)
(* reads from its state; results are the phases whose action's result is   *)
(* in state_json; by tells what each wait was passed by.                   *)
(***************************************************************************)
Blank == [status |-> "absent", phase |-> 1, wake |-> NoTime, results |-> {}, by |-> [k \in Waits |-> ByNothing]]
Live == {"running", "sleeping", "waiting_signal"}
Ended == {"completed", "failed"}

NoSignal == [state |-> "none", of |-> CHOOSE i \in Instances : TRUE, name |-> "none"]
NoRow == [state |-> "none", of |-> CHOOSE i \in Instances : TRUE, wait |-> 0, tries |-> 0]
Idle == [at |-> "idle", job |-> NoJob, tries |-> 0, work |-> Blank, used |-> {}, did |-> {}, timer |-> NoTime]

Init ==
  /\ def \in [Instances -> Definitions]
  /\ row = [i \in Instances |-> Blank]
  /\ signal = [s \in Signals |-> NoSignal]
  /\ job = [j \in Jobs |-> NoRow]
  /\ lane = [l \in Lanes |-> Idle]
  /\ effects = [i \in Instances |-> [k \in Acts |-> 0]]
  /\ older = [s \in Signals |-> {}]
  /\ faults = 0

Fault == faults < MaxFaults /\ faults' = faults + 1

Instance(l) == job[lane[l].job].of

(* The lanes that have the row of their instance locked. *)
InRun == {"running", "unsignalled", "suspending", "returning"}
Locked(i) == \E l \in Lanes : lane[l].at \in InRun /\ Instance(l) = i
-----------------------------------------------------------------------------
IsNextJob(j) == job[j].state = "none" /\ \A k \in 1..(j - 1) : job[k].state # "none"

Enqueued(j, i, delay) == [job EXCEPT ![j] = [state |-> "waiting", of |-> i, wait |-> delay, tries |-> 0]]

(* startWorkflow: the row and its first job, in the client's transaction. *)
Start(i) ==
  /\ row[i].status = "absent"
  /\ row' = [row EXCEPT ![i].status = "running"]
  /\ \E j \in Jobs : IsNextJob(j) /\ job' = Enqueued(j, i, 0)
  /\ UNCHANGED <<def, signal, lane, effects, older, faults>>

(***************************************************************************)
(* signalWorkflow reads the row and inserts the signal, which gets its id; *)
(* it can be seen when the client's transaction has committed.             *)
(***************************************************************************)
SignalInsert(i, name) ==
  /\ row[i].status \in Live
  /\ \E s \in Signals :
       /\ signal[s].state = "none" /\ \A r \in 1..(s - 1) : signal[r].state # "none"
       /\ signal' = [signal EXCEPT ![s] = [state |-> "inserted", of |-> i, name |-> name]]
       /\ older' = [older EXCEPT ![s] = {r \in Signals : signal[r].state \in {"pending", "consumed"}}]
  /\ UNCHANGED <<def, row, job, lane, effects, faults>>

(* Mutant of SignalCommit: only an instance that is seen to wait is told. *)
SignalCommitIfWaiting(s) ==
  /\ signal[s].state = "inserted"
  /\ signal' = [signal EXCEPT ![s].state = "pending"]
  /\ IF row[signal[s].of].status = "waiting_signal"
     THEN \E j \in Jobs : IsNextJob(j) /\ job' = Enqueued(j, signal[s].of, 0)
     ELSE UNCHANGED job
  /\ UNCHANGED <<def, row, lane, effects, older, faults>>

SignalCommit(s) ==
  /\ signal[s].state = "inserted"
  /\ signal' = [signal EXCEPT ![s].state = "pending"]
  /\ \E j \in Jobs : IsNextJob(j) /\ job' = Enqueued(j, signal[s].of, 0)
  /\ UNCHANGED <<def, row, lane, effects, older, faults>>

SignalAbort(s) ==
  /\ signal[s].state = "inserted" /\ Fault
  /\ signal' = [signal EXCEPT ![s].state = "aborted"]
  /\ UNCHANGED <<def, row, job, lane, effects, older>>
-----------------------------------------------------------------------------
(* The queue delivers a job to a lane, or again when its lease ran out:    *)
(* under a lane that is still at it, or because that one has stopped.      *)
Deliverable(j) ==
  \/ job[j].state = "waiting" /\ job[j].wait = 0 /\ UNCHANGED faults
  \/ job[j].state = "taken" /\ IF \E m \in Lanes : lane[m].job = j THEN Fault ELSE UNCHANGED faults

Take(l) ==
  /\ lane[l].at = "idle"
  /\ \E j \in Jobs :
       /\ Deliverable(j)
       /\ job' = [job EXCEPT ![j].state = "taken", ![j].tries = @ + 1]
       /\ lane' = [lane EXCEPT ![l] = [Idle EXCEPT !.at = "taken", !.job = j, !.tries = job[j].tries + 1]]
  /\ UNCHANGED <<def, row, signal, effects, older>>

(* Mutant of MayClaim: the lease alone, which no other transaction sees. *)
MayClaimUnlocked(i) == TRUE

(* An UPDATE of a row that another transaction has written waits for it. *)
MayClaim(i) == ~Locked(i)

(***************************************************************************)
(* claimWorkflowLease and the first loadWorkflowInstanceRow.  The lease    *)
(* columns are never seen set: whoever set them cleared them or rolled     *)
(* back.  An instance that has ended is not claimed, and the job is done.  *)
(***************************************************************************)
ClaimLease(l) ==
  /\ lane[l].at = "taken"
  /\ MayClaim(Instance(l))
  /\ lane' = [lane EXCEPT ![l].at = IF row[Instance(l)].status \in Live THEN "running" ELSE "committed",
                          ![l].work = row[Instance(l)]]
  /\ UNCHANGED <<def, row, signal, job, effects, older, faults>>

(***************************************************************************)
(* One pass of runWorkflowInstanceUntilSuspended, on the lane's copy.      *)
(***************************************************************************)
Works(l, at, work) == lane' = [lane EXCEPT ![l].at = at, ![l].work = work]
OwnStep == UNCHANGED <<def, row, signal, job, effects, older, faults>>
Definition(l) == def[Instance(l)]
Current(l) == Definition(l).program[lane[l].work.phase]
Running(l) == lane[l].at = "running" /\ lane[l].work.status # "sleeping"
PastEnd(l) == lane[l].work.phase > Len(Definition(l).program)
AtPhase(l, kinds) ==
  /\ Running(l) /\ ~PastEnd(l) /\ Current(l).kind \in kinds

GoneOn(work) == [work EXCEPT !.status = "running", !.phase = @ + 1, !.wake = NoTime]

Awake(work) == work.wake = 0

Wake(l) ==
  /\ lane[l].at = "running" /\ lane[l].work.status = "sleeping"
  /\ LET work == lane[l].work IN
     IF Awake(work) THEN Works(l, "running", [work EXCEPT !.status = "running", !.wake = NoTime])
                    ELSE Works(l, "returning", work)
  /\ OwnStep

Finish(l) ==
  /\ Running(l) /\ PastEnd(l)
  /\ Works(l, "returning", [lane[l].work EXCEPT !.status = "completed", !.wake = NoTime])
  /\ OwnStep

(* The action runs inside the lane's transaction; onResult keeps its result. *)
Act(l) ==
  /\ AtPhase(l, {"action"})
  /\ LET work == lane[l].work
         k == work.phase IN
     lane' = [lane EXCEPT ![l].work = [GoneOn(work) EXCEPT !.results = work.results \cup {k}], ![l].did = @ \cup {k}]
  /\ OwnStep

Sleep(l) ==
  /\ AtPhase(l, {"sleep"})
  /\ LET delay == Current(l).delay
         next == GoneOn(lane[l].work) IN
     IF delay = 0 THEN Works(l, "running", next)
     ELSE lane' = [lane EXCEPT ![l].at = "suspending", ![l].timer = delay,
                               ![l].work = [next EXCEPT !.status = "sleeping", !.wake = delay]]
  /\ OwnStep
-----------------------------------------------------------------------------
(* The signals a run sees: committed ones and not those it has consumed. *)
Pending(l) ==
  {s \in Signals : /\ signal[s].state = "pending" /\ signal[s].of = Instance(l)
                   /\ signal[s].name = Current(l).signal /\ s \notin lane[l].used}

(* Mutant of IsFirstPending: ORDER BY id DESC. *)
IsLastPending(l, s) == s \in Pending(l) /\ \A r \in Pending(l) : r <= s

(* findPendingWorkflowSignal: ORDER BY id ASC LIMIT 1. *)
IsFirstPending(l, s) == s \in Pending(l) /\ \A r \in Pending(l) : s <= r

(* The action of an action_wait, unless the state says it is done. *)
Performed(l) ==
  IF Current(l).kind = "action_wait" THEN {lane[l].work.phase} \ lane[l].work.results ELSE {}

Consumed(l, s) == lane[l].used \cup {s}

(***************************************************************************)
(* A signal is there: it is consumed, and onSignal goes on from the state  *)
(* that was loaded, not from the one that the directive hands over.        *)
(***************************************************************************)
TakeSignal(l) ==
  /\ AtPhase(l, {"wait", "action_wait"})
  /\ \E s \in Signals :
       /\ IsFirstPending(l, s)
       /\ lane' = [lane EXCEPT ![l].work = [GoneOn(lane[l].work) EXCEPT !.by[lane[l].work.phase] = s],
                               ![l].used = Consumed(l, s),
                               ![l].did = @ \cup Performed(l)]
  /\ OwnStep

(* There is none; the clock is read after that. *)
FindNoSignal(l) ==
  /\ AtPhase(l, {"wait", "action_wait"}) /\ Pending(l) = {}
  /\ lane' = [lane EXCEPT ![l].at = "unsignalled", ![l].did = @ \cup Performed(l)]
  /\ OwnStep

(* Mutant of TimedOut: a job has come to a waiting instance. *)
TimedOutByJob(l) == lane[l].work.status = "waiting_signal" \/ Current(l).delay = 0

TimedOut(l) ==
  IF lane[l].work.status = "waiting_signal" THEN lane[l].work.wake = 0 ELSE Current(l).delay = 0

(* The first time: the directive's state is stored and the timer set. *)
Suspend(l) ==
  /\ lane[l].at = "unsignalled" /\ lane[l].work.status # "waiting_signal" /\ ~TimedOut(l)
  /\ LET delay == Current(l).delay
         work == lane[l].work IN
     lane' = [lane EXCEPT
       ![l].work = [work EXCEPT !.status = "waiting_signal", !.wake = delay,
                                !.results = work.results \cup Performed(l)],
       ![l].at = IF delay = NoTime THEN "returning" ELSE "suspending",
       ![l].timer = delay]
  /\ OwnStep

(* Waiting already, and not due: nothing changes. *)
StillWaiting(l) ==
  /\ lane[l].at = "unsignalled" /\ lane[l].work.status = "waiting_signal" /\ ~TimedOut(l)
  /\ Works(l, "returning", lane[l].work)
  /\ OwnStep

(* handleWorkflowSignalTimeout and handleWorkflowRunSignalTimeout *)
Continue(l) ==
  /\ lane[l].at = "unsignalled" /\ TimedOut(l) /\ Current(l).onTimeout = "continue"
  /\ Works(l, "running", [GoneOn(lane[l].work) EXCEPT !.by[lane[l].work.phase] = ByTimeout])
  /\ OwnStep

(* Mutant of FailInstance: wake_at_ms is left as it was. *)
FailInstanceWaking(l) ==
  /\ lane[l].at = "unsignalled" /\ TimedOut(l) /\ Current(l).onTimeout = "fail" /\ Definition(l).runBased
  /\ Works(l, "returning", [lane[l].work EXCEPT !.status = "failed"])
  /\ OwnStep

FailInstance(l) ==
  /\ lane[l].at = "unsignalled" /\ TimedOut(l) /\ Current(l).onTimeout = "fail" /\ Definition(l).runBased
  /\ Works(l, "returning", [lane[l].work EXCEPT !.status = "failed", !.wake = NoTime])
  /\ OwnStep

(* Mutant of Timer: the job of the timer comes a moment before the time. *)
TimerEarly(l) == lane[l].timer - 1
Timer(l) == lane[l].timer

EnqueueTimer(l) ==
  /\ lane[l].at = "suspending"
  /\ lane' = [lane EXCEPT ![l].at = "returning", ![l].timer = Timer(l)]
  /\ OwnStep
-----------------------------------------------------------------------------
(* The job is still the lane's, the transaction is over. *)
Left(l, at) == [Idle EXCEPT !.at = at, !.job = lane[l].job, !.tries = lane[l].tries]

(***************************************************************************)
(* The transaction rolls back, with what failWorkflowInstance wrote into   *)
(* it: a steps-based definition has no other way to fail on a timeout.     *)
(***************************************************************************)
Throw(l) ==
  /\ \/ lane[l].at \in InRun /\ Fault
     \/ /\ lane[l].at = "unsignalled" /\ TimedOut(l) /\ Current(l).onTimeout = "fail" /\ ~Definition(l).runBased
        /\ UNCHANGED faults
  /\ lane' = [lane EXCEPT ![l] = Left(l, "failed")]
  /\ UNCHANGED <<def, row, signal, job, effects, older>>

Commit(l) ==
  /\ lane[l].at = "returning"
  /\ row' = [row EXCEPT ![Instance(l)] = lane[l].work]
  /\ signal' = [s \in Signals |-> IF s \in lane[l].used THEN [signal[s] EXCEPT !.state = "consumed"] ELSE signal[s]]
  /\ effects' = [effects EXCEPT ![Instance(l)] = [k \in Acts |-> IF k \in lane[l].did THEN @[k] + 1 ELSE @[k]]]
  /\ IF lane[l].timer = NoTime THEN UNCHANGED job
     ELSE \E j \in Jobs : IsNextJob(j) /\ job' = Enqueued(j, Instance(l), lane[l].timer)
  /\ lane' = [lane EXCEPT ![l] = Left(l, "committed")]
  /\ UNCHANGED <<def, older, faults>>

Complete(l) ==
  /\ lane[l].at = "committed"
  /\ job' = [job EXCEPT ![lane[l].job].state = "done"]
  /\ lane' = [lane EXCEPT ![l] = Idle]
  /\ UNCHANGED <<def, row, signal, effects, older, faults>>

ThrowAfterCommit(l) ==
  /\ lane[l].at = "committed" /\ Fault
  /\ lane' = [lane EXCEPT ![l].at = "failed"]
  /\ UNCHANGED <<def, row, signal, job, effects, older>>

(* failQueueJob: the workflow queue has no dead-letter queue. *)
FailJob(l) ==
  /\ lane[l].at = "failed"
  /\ job' = [job EXCEPT ![lane[l].job].state = IF lane[l].tries >= MaxAttempts THEN "failed" ELSE "waiting",
                        ![lane[l].job].wait = RetryDelay]
  /\ lane' = [lane EXCEPT ![l] = Idle]
  /\ UNCHANGED <<def, row, signal, effects, older, faults>>

Crash(l) ==
  /\ lane[l].at # "idle" /\ Fault
  /\ lane' = [lane EXCEPT ![l] = Idle]
  /\ UNCHANGED <<def, row, signal, job, effects, older>>

Less(t) == IF t \in {NoTime, 0} THEN t ELSE t - 1

Tick ==
  /\ row' = [i \in Instances |-> [row[i] EXCEPT !.wake = Less(@)]]
  /\ job' = [j \in Jobs |-> [job[j] EXCEPT !.wait = Less(@)]]
  /\ lane' = [l \in Lanes |-> [lane[l] EXCEPT !.work.wake = Less(@),
                                              !.timer = IF lane[l].at = "returning" THEN Less(@) ELSE @]]
  /\ UNCHANGED <<def, signal, effects, older, faults>>

Run(l) ==
  \/ ClaimLease(l) \/ Wake(l) \/ Finish(l) \/ Act(l) \/ Sleep(l) \/ TakeSignal(l) \/ FindNoSignal(l)
  \/ Suspend(l) \/ StillWaiting(l) \/ Continue(l) \/ FailInstance(l) \/ EnqueueTimer(l)
  \/ Throw(l) \/ Commit(l)
Settle(l) == Complete(l) \/ ThrowAfterCommit(l) \/ FailJob(l)
Client == (\E i \in Instances, name \in SignalNames : SignalInsert(i, name)) \/ \E s \in Signals : SignalAbort(s)

Next ==
  \/ \E i \in Instances : Start(i)
  \/ Client
  \/ \E s \in Signals : SignalCommit(s)
  \/ \E l \in Lanes : Take(l) \/ Run(l) \/ Settle(l) \/ Crash(l)
  \/ Tick

Spec == Init /\ [][Next]_vars

(* Lanes go on, transactions end, time passes; no client owes a signal. *)
Fairness ==
  /\ \A l \in Lanes : WF_vars(Take(l)) /\ WF_vars(Run(l)) /\ WF_vars(Settle(l))
  /\ \A s \in Signals : WF_vars(SignalCommit(s))
  /\ WF_vars(Tick)
FairSpec == Spec /\ Fairness
-----------------------------------------------------------------------------
Rows == [status : Live \cup Ended \cup {"absent"}, phase : Nat \ {0}, wake : Nat \cup {NoTime},
         results : SUBSET Acts, by : [Waits -> 0..ByTimeout]]
SignalRows == [state : {"none", "inserted", "pending", "consumed", "aborted"}, of : Instances,
               name : SignalNames \cup {"none"}]
JobRows == [state : {"none", "waiting", "taken", "done", "failed"}, of : Instances, wait : Nat, tries : Nat]
LaneStates == [at : InRun \cup {"idle", "taken", "committed", "failed"}, job : Jobs \cup {NoJob}, tries : Nat,
               work : Rows, used : SUBSET Signals, did : SUBSET Acts, timer : Nat \cup {NoTime}]

(* The type invariant; only a suspended instance has a time to wake up.    *)
TypeOK ==
  /\ def \in [Instances -> Definitions]
  /\ row \in [Instances -> Rows]
  /\ \A i \in Instances :
       /\ row[i].phase <= Len(def[i].program) + 1
       /\ row[i].wake # NoTime => row[i].status \in {"sleeping", "waiting_signal"}
       /\ row[i].status = "sleeping" => row[i].wake # NoTime
  /\ signal \in [Signals -> SignalRows]
  /\ job \in [Jobs -> JobRows]
  /\ lane \in [Lanes -> LaneStates]
  /\ effects \in [Instances -> [Acts -> Nat]]
  /\ older \in [Signals -> SUBSET Signals]
  /\ faults \in 0..MaxFaults

(* An instance is past the action of phase k; when it fails in a wait this *)
(* includes the action that came with the wait.                            *)
Behind(w, k) == k < w.phase \/ k \in w.results \/ (k = w.phase /\ w.status = "failed")

(***************************************************************************)
(* The action of a phase has committed once when its instance is past it   *)
(* and not at all before, through retries, crashes and jobs that two lanes *)
(* have at the same time; and the state that the later steps get has the   *)
(* result of every one that has committed, as long as it is steps-based.   *)
(***************************************************************************)
ActionsOnce ==
  /\ \A i \in Instances : \A k \in ActsOf(def[i]) : effects[i][k] = IF Behind(row[i], k) THEN 1 ELSE 0
  /\ \A i \in Instances, k \in Acts : ~def[i].runBased /\ effects[i][k] > 0 => k \in row[i].results

(* A signal is consumed by passing exactly one wait for it, and of two of  *)
(* a name the one that was there before the other was sent is not          *)
(* overtaken.                                                              *)
SignalsOnce ==
  \A s \in Signals :
    LET passed == {w \in Instances \X Waits : row[w[1]].by[w[2]] = s} IN
    /\ Cardinality(passed) = IF signal[s].state = "consumed" THEN 1 ELSE 0
    /\ \A w \in passed : signal[s].of = w[1] /\ signal[s].name = def[w[1]].program[w[2]].signal
    /\ signal[s].state = "consumed" =>
         \A r \in older[s] :
           signal[r].of = signal[s].of /\ signal[r].name = signal[s].name => signal[r].state = "consumed"

(* A job that will look at instance i when t more time has passed. *)
Comes(i, t) ==
  \E j \in Jobs :
    /\ job[j].of = i
    /\ \/ job[j].state = "waiting" /\ job[j].wait >= t
       \/ job[j].state = "taken" /\ t = 0 /\ \A l \in Lanes : lane[l].job = j => lane[l].at # "committed"

GivenUp(i) == \E j \in Jobs : job[j].state = "failed" /\ job[j].of = i

SignalWaits(i) ==
  /\ row[i].status = "waiting_signal"
  /\ \E s \in Signals : /\ signal[s].state = "pending" /\ signal[s].of = i
                        /\ signal[s].name = def[i].program[row[i].phase].signal

(***************************************************************************)
(* While an instance has something to do, now or at its wake-up time, a    *)
(* job is on its way that comes no earlier than that: neither a signal     *)
(* that arrives while a run is deciding to wait nor a timer is lost.       *)
(***************************************************************************)
NoLostWakeup ==
  \A i \in Instances : row[i].status \in Live /\ ~GivenUp(i) =>
    /\ row[i].status = "running" \/ SignalWaits(i) => Comes(i, 0)
    /\ row[i].wake # NoTime => Comes(i, row[i].wake)

(***************************************************************************)
(* Jobs of signals, of earlier timers and of retries come at any time:     *)
(* they cut no sleep short and time no wait out.                           *)
(***************************************************************************)
NothingEarly ==
  [][\A i \in Instances : LET k == row[i].phase IN
       /\ row[i].status = "sleeping" /\ row'[i].status # "sleeping" => row[i].wake = 0
       /\ row[i].status = "waiting_signal" /\ row'[i].by[k] = ByTimeout => row[i].wake = 0]_vars

(* An instance with something to do in a phase gets past it, ends, or is   *)
(* given up with a job that failed.                                        *)
Progress ==
  \A i \in Instances, k \in Phases :
    (/\ row[i].status \in Live /\ row[i].phase = k
     /\ row[i].status = "running" \/ row[i].wake # NoTime \/ SignalWaits(i))
      ~> (row[i].phase > k \/ row[i].status \in Ended \/ GivenUp(i))

(* "Pauses until an external signal arrives (or times out)", with          *)
(* onTimeout: "fail" (docs/workflows.md:102, :111): a wait whose time is   *)
(* over does not stay.                                                     *)
TimeoutEndsWait ==
  \A i \in Instances :
    (row[i].status = "waiting_signal" /\ row[i].wake = 0) ~> (row[i].status # "waiting_signal")
=============================================================================
