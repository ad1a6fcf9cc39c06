--------------------------- MODULE WorkflowProofs ---------------------------
(***************************************************************************)
(* Theorems about Workflow, for all definitions, any number of lanes,      *)
(* instances, signals, jobs and retries, and whatever fails or crashes.    *)
(***************************************************************************)
EXTENDS Workflow, TLAPS, FiniteSetTheorems

(***************************************************************************)
(* What a lane holds: its job stays in the table, and before it has the    *)
(* lease of an instance it has done nothing.                               *)
(***************************************************************************)
HoldOK(v) ==
  /\ v.at # "idle" => v.job \in Jobs
  /\ v.at = "taken" => v.used = {} /\ v.did = {}
  /\ v.at \in {"taken", "running", "unsignalled"} => v.timer = NoTime

LanesHold == \A l \in Lanes : HoldOK(lane[l]) /\ (lane[l].at # "idle" => job[lane[l].job].state # "none")

(* The row lock: no two lanes are in a run of one instance. *)
RunsAlone ==
  \A l, m \in Lanes : lane[l].at \in InRun /\ lane[m].at \in InRun /\ Instance(l) = Instance(m) => l = m

(* What a row or a lane's copy of it may look like. *)
Sound(d, w) ==
  /\ w.phase <= Len(d.program) + 1
  /\ w.wake # NoTime => w.status \in {"sleeping", "waiting_signal"}
  /\ w.status = "sleeping" => w.wake # NoTime
  /\ w.status = "waiting_signal" => w.phase \in WaitsOf(d) /\ (w.phase \in ActsOf(d) => w.phase \in w.results)
  /\ \A k \in w.results : k < w.phase \/ (k = w.phase /\ k \in WaitsOf(d))
  /\ \A k \in Waits : w.by[k] # ByNothing => k < w.phase

RowsSound == \A i \in Instances : Sound(def[i], row[i])

(* Where a lane v may be in a run of instance i. *)
RunOK(i, v) ==
  /\ row[i].status \in Live
  /\ Sound(def[i], v.work)
  /\ v.at = "running" => v.work.status \in Live
  /\ v.at = "unsignalled" => v.work.phase \in WaitsOf(def[i]) /\ v.work.status \in {"running", "waiting_signal"}
  /\ v.at = "suspending" => v.work.status \in {"sleeping", "waiting_signal"} /\ v.timer # NoTime
  /\ v.at = "returning" => v.work.status \in {"sleeping", "waiting_signal"} \cup Ended

RunsSound == \A l \in Lanes : lane[l].at \in InRun => RunOK(Instance(l), lane[l])

Shape == TypeOK /\ LanesHold /\ RunsAlone /\ RowsSound /\ RunsSound

(***************************************************************************)
(* The actions that have committed and those that a lane has performed are *)
(* different ones, and together those that its copy is past.               *)
(***************************************************************************)
ActsOK(i, v) ==
  /\ \A k \in v.did : effects[i][k] = 0
  /\ \A k \in ActsOf(def[i]) :
       (effects[i][k] = 1 \/ k \in v.did) <=> (Behind(v.work, k) \/ (v.at = "unsignalled" /\ k = v.work.phase))
  /\ ~def[i].runBased => v.did \cup row[i].results \subseteq v.work.results

RunsAct == \A l \in Lanes : lane[l].at \in InRun => ActsOK(Instance(l), lane[l])

ActInv == ActionsOnce /\ RunsAct
-----------------------------------------------------------------------------
LEMMA ProgramFacts ==
  ASSUME NEW d \in Definitions
  PROVE  /\ Len(d.program) \in Nat
         /\ WaitsOf(d) \subseteq Waits /\ WaitsOf(d) \subseteq 1..Len(d.program)
         /\ ActsOf(d) \subseteq Acts /\ ActsOf(d) \subseteq 1..Len(d.program)
BY WorkflowAssumption DEF WaitsOf, ActsOf, Waits, Acts, Places

LEMMA BlankFacts ==
  /\ Blank \in Rows /\ Idle \in LaneStates /\ HoldOK(Idle)
  /\ \A d \in Definitions : Sound(d, Blank)
  /\ Idle.at = "idle" /\ Idle.used = {} /\ Idle.did = {}
<1>1. ByNothing \in 0..ByTimeout /\ 1 \in Nat \ {0} /\ {} \in SUBSET Acts /\ NoJob \in Jobs \cup {NoJob}
  BY WorkflowAssumption DEF ByNothing, ByTimeout
<1>2. Blank \in Rows
  BY <1>1 DEF Blank, Rows
<1>3. Idle \in LaneStates /\ HoldOK(Idle)
  BY <1>1, <1>2 DEF Idle, LaneStates, HoldOK
<1>4. \A d \in Definitions : Sound(d, Blank)
  BY ProgramFacts DEF Sound, Blank
<1> QED BY <1>2, <1>3, <1>4 DEF Idle

LEMMA ShapeInit == Init => Shape
<1> SUFFICES ASSUME Init PROVE Shape
  OBVIOUS
<1> USE DEF Init
<1>1. TypeOK
  <2>1. row \in [Instances -> Rows] /\ lane \in [Lanes -> LaneStates]
    BY BlankFacts
  <2>2. signal \in [Signals -> SignalRows] /\ job \in [Jobs -> JobRows]
    BY WorkflowAssumption DEF NoSignal, SignalRows, NoRow, JobRows
  <2>3. effects \in [Instances -> [Acts -> Nat]] /\ older \in [Signals -> SUBSET Signals] /\ faults \in 0..MaxFaults
    BY WorkflowAssumption
  <2>4. \A i \in Instances : def[i] \in Definitions /\ row[i] = Blank
    OBVIOUS
  <2>5. \A i \in Instances :
          /\ row[i].phase <= Len(def[i].program) + 1
          /\ row[i].wake # NoTime => row[i].status \in {"sleeping", "waiting_signal"}
          /\ row[i].status = "sleeping" => row[i].wake # NoTime
    BY <2>4, BlankFacts DEF Sound
  <2> QED BY <2>1, <2>2, <2>3, <2>5 DEF TypeOK
<1>2. LanesHold /\ RunsAlone /\ RunsSound
  BY BlankFacts DEF LanesHold, RunsAlone, RunsSound, InRun
<1>3. RowsSound
  BY BlankFacts DEF RowsSound
<1> QED BY <1>1, <1>2, <1>3 DEF Shape
-----------------------------------------------------------------------------
LEMMA LaneFacts ==
  ASSUME TypeOK, LanesHold, NEW l \in Lanes
  PROVE  /\ lane[l] \in LaneStates /\ HoldOK(lane[l])
         /\ lane[l].at # "idle" => /\ lane[l].job \in Jobs /\ job[lane[l].job].state # "none"
                                   /\ Instance(l) \in Instances /\ Definition(l) \in Definitions
BY DEF TypeOK, LanesHold, HoldOK, LaneStates, JobRows, Instance, Definition

(***************************************************************************)
(* A step of one lane that leaves the rows of instances alone.             *)
(***************************************************************************)
LEMMA LaneFrame ==
  ASSUME Shape, NEW l \in Lanes, NEW v \in LaneStates, lane' = [lane EXCEPT ![l] = v],
         UNCHANGED <<def, row, signal, effects, older>>, faults' \in 0..MaxFaults,
         job' \in [Jobs -> JobRows],
         \A j \in Jobs : job[j].state # "none" => job'[j].state # "none" /\ job'[j].of = job[j].of,
         HoldOK(v), v.at # "idle" => job'[v.job].state # "none",
         v.at \in InRun =>
           /\ lane[l].at # "idle" /\ v.job = lane[l].job /\ RunOK(Instance(l), v)
           /\ \A m \in Lanes \ {l} : lane[m].at \in InRun => Instance(m) # Instance(l)
  PROVE  Shape'
<1> USE DEF Shape
<1>1. lane'[l] = v /\ \A m \in Lanes : m # l => lane'[m] = lane[m]
  BY DEF TypeOK
<1>2. \A m \in Lanes : lane[m].at # "idle" => lane[m].job \in Jobs /\ job[lane[m].job].state # "none"
  BY LaneFacts
<1>3. \A m \in Lanes : lane[m].at # "idle" /\ lane'[m].job = lane[m].job => Instance(m)' = Instance(m)
  BY <1>2 DEF Instance
<1>4. \A m \in Lanes : lane'[m].at \in InRun => Instance(m)' = Instance(m)
  BY <1>1, <1>3 DEF InRun
<1>5. TypeOK'
  BY DEF TypeOK
<1>6. LanesHold'
  BY <1>1, <1>2 DEF LanesHold, HoldOK
<1>7. RunsAlone'
  BY <1>1, <1>4 DEF RunsAlone
<1>8. RowsSound'
  BY DEF RowsSound, Sound
<1>9. RunsSound'
  <2> SUFFICES ASSUME NEW m \in Lanes, lane'[m].at \in InRun
               PROVE  RunOK(Instance(m), lane'[m])
    BY <1>4 DEF RunsSound, RunOK, Sound
  <2> QED BY <1>1 DEF RunsSound
<1> QED BY <1>5, <1>6, <1>7, <1>8, <1>9

(***************************************************************************)
(* The steps of a run between the claim of the lease and the commit.       *)
(***************************************************************************)
Passes(l) ==
  \/ Wake(l) \/ Finish(l) \/ Act(l) \/ Sleep(l) \/ TakeSignal(l) \/ FindNoSignal(l)
  \/ Suspend(l) \/ StillWaiting(l) \/ Continue(l) \/ FailInstance(l) \/ EnqueueTimer(l)

LEMMA PassIsInRun ==
  ASSUME NEW l \in Lanes, Passes(l)
  PROVE  OwnStep /\ lane[l].at \in InRun /\ lane[l].at # "returning"
BY DEF Passes, Wake, Finish, Act, Sleep, TakeSignal, FindNoSignal, Suspend, StillWaiting, Continue, FailInstance,
       EnqueueTimer, AtPhase, Running, InRun

LEMMA GoneOnFacts ==
  ASSUME NEW d \in Definitions, NEW w \in Rows, Sound(d, w), w.phase <= Len(d.program)
  PROVE  /\ GoneOn(w) \in Rows /\ Sound(d, GoneOn(w))
         /\ GoneOn(w).status = "running" /\ GoneOn(w).phase = w.phase + 1 /\ GoneOn(w).wake = NoTime
         /\ GoneOn(w).results = w.results /\ GoneOn(w).by = w.by
<1>1. /\ Len(d.program) \in Nat /\ w.phase \in Nat \ {0} /\ w.results \subseteq Nat /\ Waits \subseteq Nat
      /\ w.phase + 1 \in Nat \ {0} /\ "running" \in Live \cup Ended \cup {"absent"}
  BY ProgramFacts DEF Rows, Acts, ActsOf, Waits, WaitsOf, Places, Live
<1>2. GoneOn(w) \in Rows
  BY <1>1 DEF GoneOn, Rows
<1>3. /\ GoneOn(w).status = "running" /\ GoneOn(w).phase = w.phase + 1 /\ GoneOn(w).wake = NoTime
      /\ GoneOn(w).results = w.results /\ GoneOn(w).by = w.by
  BY DEF GoneOn, Rows
<1>4. Sound(d, GoneOn(w))
  BY <1>1, <1>3 DEF Sound
<1> QED BY <1>2, <1>3, <1>4
-----------------------------------------------------------------------------
(***************************************************************************)
(* What a step of a run makes of its lane, as one record.                  *)
(***************************************************************************)
Copy(st, ph, wk, rs, passed) == [status |-> st, phase |-> ph, wake |-> wk, results |-> rs, by |-> passed]
State(l, a, w, u, d, t) ==
  [at |-> a, job |-> lane[l].job, tries |-> lane[l].tries, work |-> w, used |-> u, did |-> d, timer |-> t]
Becomes(l, v) == lane' = [lane EXCEPT ![l] = v]

LEMMA RowIsCopy ==
  ASSUME NEW w \in Rows
  PROVE  w = Copy(w.status, w.phase, w.wake, w.results, w.by)
BY DEF Rows, Copy

LEMMA BecomesState ==
  ASSUME TypeOK, NEW l \in Lanes, NEW v, lane' = [lane EXCEPT ![l] = v],
         NEW a, NEW w, NEW u, NEW d, NEW t,
         v \in LaneStates, v.job = lane[l].job, v.tries = lane[l].tries,
         v.at = a, v.work = w, v.used = u, v.did = d, v.timer = t
  PROVE  Becomes(l, State(l, a, w, u, d, t))
<1>1. v = [at |-> v.at, job |-> v.job, tries |-> v.tries, work |-> v.work, used |-> v.used, did |-> v.did,
           timer |-> v.timer]
  BY DEF LaneStates
<1> QED BY <1>1 DEF Becomes, State

LEMMA WorksFacts ==
  ASSUME TypeOK, NEW l \in Lanes, NEW a \in InRun, NEW w \in Rows, Works(l, a, w)
  PROVE  Becomes(l, State(l, a, w, lane[l].used, lane[l].did, lane[l].timer))
<1> DEFINE v == [lane[l] EXCEPT !.at = a, !.work = w]
<1>1. lane[l] \in LaneStates /\ lane' = [lane EXCEPT ![l] = v]
  BY DEF Works, TypeOK
<1>2. v \in LaneStates
  BY <1>1 DEF LaneStates
<1>3. /\ v.at = a /\ v.work = w /\ v.job = lane[l].job /\ v.tries = lane[l].tries
      /\ v.used = lane[l].used /\ v.did = lane[l].did /\ v.timer = lane[l].timer
  BY <1>1 DEF LaneStates
<1> HIDE DEF v
<1> QED BY <1>1, <1>2, <1>3, BecomesState

(* A lane whose copy, used signals, performed actions and timer change. *)
LEMMA LaneTypes ==
  ASSUME TypeOK, NEW l \in Lanes
  PROVE  /\ lane[l] \in LaneStates /\ lane[l].work \in Rows
         /\ lane[l].work.phase \in Nat \ {0} /\ lane[l].work.results \in SUBSET Acts
         /\ lane[l].work.by \in [Waits -> 0..ByTimeout] /\ lane[l].work.wake \in Nat \cup {NoTime}
         /\ lane[l].used \in SUBSET Signals /\ lane[l].did \in SUBSET Acts /\ lane[l].timer \in Nat \cup {NoTime}
<1>1. lane[l] \in LaneStates
  BY DEF TypeOK
<1>2. lane[l].work \in Rows /\ lane[l].used \in SUBSET Signals /\ lane[l].did \in SUBSET Acts
      /\ lane[l].timer \in Nat \cup {NoTime}
  BY <1>1 DEF LaneStates
<1> QED BY <1>1, <1>2 DEF Rows

LEMMA PhaseFacts ==
  ASSUME TypeOK, LanesHold, NEW l \in Lanes, lane[l].at \in InRun,
         lane[l].work.phase <= Len(Definition(l).program)
  PROVE  LET k == lane[l].work.phase IN
         /\ k \in 1..Len(Definition(l).program)
         /\ Current(l).delay \in Nat \cup {NoTime}
         /\ (Current(l).kind \in {"wait", "action_wait"}) <=> k \in WaitsOf(Definition(l))
         /\ (Current(l).kind \in {"action", "action_wait"}) <=> k \in ActsOf(Definition(l))
         /\ Current(l).kind = "sleep" => Current(l).delay # NoTime
         /\ k \in WaitsOf(Definition(l)) => Performed(l) = (ActsOf(Definition(l)) \cap {k}) \ lane[l].work.results
         /\ k \in ActsOf(Definition(l)) \cap WaitsOf(Definition(l)) => Definition(l).runBased
<1> DEFINE k == lane[l].work.phase
           d == Definition(l)
<1>1. d \in Definitions /\ k \in Nat \ {0} /\ Len(d.program) \in Nat
  BY LaneFacts, LaneTypes, ProgramFacts DEF InRun
<1>2. k \in 1..Len(d.program) /\ Current(l) = d.program[k]
  BY <1>1 DEF Current
<1>3. /\ d.program[k].kind \in Kinds /\ d.program[k].delay \in Nat \cup {NoTime}
      /\ d.program[k].kind = "sleep" => d.program[k].delay # NoTime
      /\ d.program[k].kind = "action_wait" => d.runBased
  BY <1>1, <1>2, WorkflowAssumption
<1>4. /\ (Current(l).kind \in {"wait", "action_wait"}) <=> k \in WaitsOf(d)
      /\ (Current(l).kind \in {"action", "action_wait"}) <=> k \in ActsOf(d)
  BY <1>2 DEF WaitsOf, ActsOf, Places
<1>5. k \in WaitsOf(d) => Performed(l) = (ActsOf(d) \cap {k}) \ lane[l].work.results
  BY <1>2, <1>4 DEF Performed
<1> QED BY <1>2, <1>3, <1>4, <1>5

LEMMA WakeFacts ==
  ASSUME Shape, NEW l \in Lanes, Wake(l)
  PROVE  LET v == lane[l]  w == v.work IN
         /\ v.at = "running" /\ w.status = "sleeping"
         /\ \/ /\ w.wake = 0
               /\ Becomes(l, State(l, "running", Copy("running", w.phase, NoTime, w.results, w.by), v.used, v.did, v.timer))
            \/ w.wake # 0 /\ Becomes(l, State(l, "returning", w, v.used, v.did, v.timer))
<1> DEFINE w == lane[l].work
           x == [w EXCEPT !.status = "running", !.wake = NoTime]
<1>t. TypeOK /\ w \in Rows /\ "running" \in Live /\ "running" \in InRun /\ "returning" \in InRun
  BY LaneTypes DEF Shape, Live, InRun
<1>1. x \in Rows
  BY <1>t DEF Rows
<1>2. x.status = "running" /\ x.phase = w.phase /\ x.wake = NoTime /\ x.results = w.results /\ x.by = w.by
  BY <1>t DEF Rows
<1>3. lane[l].at = "running" /\ w.status = "sleeping"
      /\ IF w.wake = 0 THEN Works(l, "running", x) ELSE Works(l, "returning", w)
  BY DEF Wake, Awake
<1> HIDE DEF x
<1>4. x = Copy("running", w.phase, NoTime, w.results, w.by)
  BY <1>1, <1>2, RowIsCopy
<1> QED BY <1>t, <1>1, <1>3, <1>4, WorksFacts

LEMMA FinishFacts ==
  ASSUME Shape, NEW l \in Lanes, Finish(l)
  PROVE  LET v == lane[l]  w == v.work IN
         /\ v.at = "running" /\ w.status # "sleeping" /\ PastEnd(l)
         /\ Becomes(l, State(l, "returning", Copy("completed", w.phase, NoTime, w.results, w.by), v.used, v.did, v.timer))
<1> DEFINE w == lane[l].work
           x == [w EXCEPT !.status = "completed", !.wake = NoTime]
<1>t. TypeOK /\ w \in Rows /\ "completed" \in Ended /\ "returning" \in InRun
  BY LaneTypes DEF Shape, Ended, InRun
<1>1. x \in Rows
  BY <1>t DEF Rows
<1>2. x.status = "completed" /\ x.phase = w.phase /\ x.wake = NoTime /\ x.results = w.results /\ x.by = w.by
  BY <1>t DEF Rows
<1>3. lane[l].at = "running" /\ w.status # "sleeping" /\ PastEnd(l) /\ Works(l, "returning", x)
  BY DEF Finish, Running
<1> HIDE DEF x
<1>4. x = Copy("completed", w.phase, NoTime, w.results, w.by)
  BY <1>1, <1>2, RowIsCopy
<1> QED BY <1>t, <1>1, <1>3, <1>4, WorksFacts

(* What GoneOn makes of a copy, with other results and another passer. *)
LEMMA CopyFacts ==
  ASSUME NEW w \in Rows, NEW st \in Live \cup Ended \cup {"absent"}, NEW ph \in Nat \ {0},
         NEW wk \in Nat \cup {NoTime}, NEW rs \in SUBSET Acts
  PROVE  /\ Copy(st, ph, wk, rs, w.by) \in Rows
         /\ \A k \in Waits, s \in 0..ByTimeout : Copy(st, ph, wk, rs, [w.by EXCEPT ![k] = s]) \in Rows
BY DEF Rows, Copy

LEMMA StateFacts ==
  ASSUME TypeOK, NEW l \in Lanes, NEW a \in InRun, NEW w \in Rows, NEW u \in SUBSET Signals,
         NEW d \in SUBSET Acts, NEW t \in Nat \cup {NoTime}
  PROVE  State(l, a, w, u, d, t) \in LaneStates
BY LaneTypes DEF State, LaneStates

LEMMA AtPhaseFacts ==
  ASSUME Shape, NEW l \in Lanes, NEW kinds, AtPhase(l, kinds)
  PROVE  /\ lane[l].at = "running" /\ lane[l].at \in InRun /\ lane[l].work.status # "sleeping"
         /\ lane[l].work.phase <= Len(Definition(l).program) /\ Current(l).kind \in kinds
<1>1. /\ lane[l].at = "running" /\ lane[l].work.status # "sleeping"
      /\ ~(lane[l].work.phase > Len(Definition(l).program)) /\ Current(l).kind \in kinds
  BY DEF AtPhase, Running, PastEnd
<1>2. Definition(l) \in Definitions /\ lane[l].work.phase \in Nat
  BY <1>1, LaneFacts, LaneTypes DEF Shape
<1> QED BY <1>1, <1>2, ProgramFacts DEF InRun

(* What is known of a lane that is in a run and not past the end. *)
LEMMA OnPhase ==
  ASSUME Shape, NEW l \in Lanes, lane[l].at \in InRun, lane[l].work.phase <= Len(Definition(l).program)
  PROVE  LET d == Definition(l)  w == lane[l].work  k == w.phase IN
         /\ d \in Definitions /\ Sound(d, w) /\ w \in Rows /\ k \in Nat \ {0} /\ k + 1 \in Nat \ {0}
         /\ w.results \in SUBSET Acts /\ w.by \in [Waits -> 0..ByTimeout] /\ Waits \subseteq Nat /\ Acts \subseteq Nat
         /\ Performed(l) \in SUBSET Nat
         /\ k \in WaitsOf(d) => k \in Waits /\ Performed(l) \in SUBSET Acts
         /\ k \in ActsOf(d) => k \in Acts
         /\ GoneOn(w) \in Rows /\ GoneOn(w).status = "running" /\ GoneOn(w).phase = k + 1 /\ GoneOn(w).wake = NoTime
         /\ GoneOn(w).results = w.results /\ GoneOn(w).by = w.by
<1> DEFINE d == Definition(l)
           w == lane[l].work
           k == w.phase
<1>1. d \in Definitions /\ Sound(d, w) /\ w \in Rows
  BY LaneFacts, LaneTypes DEF Shape, RunsSound, RunOK, Definition, InRun
<1>2. /\ k \in Nat \ {0} /\ k + 1 \in Nat \ {0} /\ w.results \in SUBSET Acts /\ w.by \in [Waits -> 0..ByTimeout]
  BY LaneTypes DEF Shape
<1>3. Waits \subseteq Nat /\ Acts \subseteq Nat
  BY ProgramFacts DEF Waits, Acts, WaitsOf, ActsOf, Places
<1>4. Performed(l) \in SUBSET {k}
  BY DEF Performed
<1>5. k \in WaitsOf(d) => Performed(l) \in SUBSET ActsOf(d)
  BY PhaseFacts DEF Shape
<1>6. k \in WaitsOf(d) => k \in Waits /\ Performed(l) \in SUBSET Acts
  BY <1>1, <1>5, ProgramFacts
<1>7. k \in ActsOf(d) => k \in Acts
  BY <1>1, ProgramFacts
<1>8. /\ GoneOn(w) \in Rows /\ GoneOn(w).status = "running" /\ GoneOn(w).phase = k + 1 /\ GoneOn(w).wake = NoTime
      /\ GoneOn(w).results = w.results /\ GoneOn(w).by = w.by
  BY <1>1, GoneOnFacts
<1> QED BY <1>1, <1>2, <1>3, <1>4, <1>6, <1>7, <1>8

LEMMA ActFacts ==
  ASSUME Shape, NEW l \in Lanes, Act(l)
  PROVE  LET v == lane[l]  w == v.work  k == w.phase IN
         /\ v.at = "running" /\ w.status # "sleeping"
         /\ k \in ActsOf(Definition(l)) /\ k \notin WaitsOf(Definition(l))
         /\ Becomes(l, State(l, "running", Copy("running", k + 1, NoTime, w.results \cup {k}, w.by), v.used,
                             v.did \cup {k}, v.timer))
<1> DEFINE w == lane[l].work
           k == w.phase
           x == [GoneOn(w) EXCEPT !.results = w.results \cup {k}]
           v == [lane[l] EXCEPT !.work = x, !.did = lane[l].did \cup {k}]
<1>t. /\ TypeOK /\ LanesHold /\ w \in Rows /\ lane[l] \in LaneStates /\ "running" \in InRun
      /\ k \in Nat \ {0} /\ w.results \in SUBSET Acts /\ lane[l].did \in SUBSET Acts
  BY LaneTypes DEF Shape, InRun
<1>1. /\ lane[l].at = "running" /\ w.status # "sleeping"
      /\ ~(k > Len(Definition(l).program)) /\ Current(l).kind = "action"
  BY DEF Act, AtPhase, Running, PastEnd
<1>2. Definition(l) \in Definitions /\ Len(Definition(l).program) \in Nat /\ Sound(Definition(l), w)
  BY <1>t, <1>1, LaneFacts, ProgramFacts DEF InRun, Shape, RunsSound, RunOK, Definition
<1>3. k <= Len(Definition(l).program)
  BY <1>t, <1>1, <1>2
<1>4. k \in ActsOf(Definition(l)) /\ k \notin WaitsOf(Definition(l))
  BY <1>t, <1>1, <1>3, PhaseFacts DEF InRun
<1>5. GoneOn(w) \in Rows /\ GoneOn(w).status = "running" /\ GoneOn(w).phase = k + 1 /\ GoneOn(w).wake = NoTime
      /\ GoneOn(w).by = w.by
  BY <1>t, <1>2, <1>3, GoneOnFacts
<1>6. w.results \cup {k} \in SUBSET Acts /\ lane[l].did \cup {k} \in SUBSET Acts
  BY <1>t, <1>2, <1>4, ProgramFacts
<1>7. x \in Rows
  BY <1>5, <1>6 DEF Rows
<1>8. x.status = "running" /\ x.phase = k + 1 /\ x.wake = NoTime /\ x.results = w.results \cup {k} /\ x.by = w.by
  BY <1>5 DEF Rows
<1>10. lane' = [lane EXCEPT ![l] = v]
  BY <1>t DEF Act, TypeOK
<1> HIDE DEF x
<1>11. v \in LaneStates
  BY <1>t, <1>6, <1>7 DEF LaneStates
<1>12. /\ v.at = "running" /\ v.work = x /\ v.job = lane[l].job /\ v.tries = lane[l].tries
       /\ v.used = lane[l].used /\ v.did = lane[l].did \cup {k} /\ v.timer = lane[l].timer
  BY <1>t, <1>1 DEF LaneStates
<1>13. x = Copy("running", k + 1, NoTime, w.results \cup {k}, w.by)
  BY <1>7, <1>8, RowIsCopy
<1> HIDE DEF v
<1>14. Becomes(l, State(l, "running", x, lane[l].used, lane[l].did \cup {k}, lane[l].timer))
  BY <1>t, <1>10, <1>11, <1>12, BecomesState
<1> QED BY <1>1, <1>4, <1>13, <1>14

LEMMA SleepFacts ==
  ASSUME Shape, NEW l \in Lanes, Sleep(l)
  PROVE  LET v == lane[l]  w == v.work  k == w.phase  delay == Current(l).delay IN
         /\ v.at = "running" /\ w.status # "sleeping" /\ k <= Len(Definition(l).program)
         /\ k \notin ActsOf(Definition(l)) /\ k \notin WaitsOf(Definition(l))
         /\ delay \in Nat
         /\ \/ /\ delay = 0
               /\ Becomes(l, State(l, "running", Copy("running", k + 1, NoTime, w.results, w.by), v.used, v.did, v.timer))
            \/ Becomes(l, State(l, "suspending", Copy("sleeping", k + 1, delay, w.results, w.by), v.used, v.did, delay))
<1> DEFINE w == lane[l].work
           k == w.phase
           delay == Current(l).delay
           x == [GoneOn(w) EXCEPT !.status = "sleeping", !.wake = delay]
           v == [lane[l] EXCEPT !.at = "suspending", !.timer = delay, !.work = x]
<1>t. /\ TypeOK /\ LanesHold /\ w \in Rows /\ lane[l] \in LaneStates
      /\ "running" \in InRun /\ "suspending" \in InRun /\ "sleeping" \in Live
  BY LaneTypes DEF Shape, InRun, Live
<1>1. /\ lane[l].at = "running" /\ lane[l].at \in InRun /\ w.status # "sleeping" /\ k <= Len(Definition(l).program)
      /\ Current(l).kind = "sleep"
  BY AtPhaseFacts DEF Sleep
<1>2. k \notin ActsOf(Definition(l)) /\ k \notin WaitsOf(Definition(l)) /\ delay \in Nat
  BY <1>t, <1>1, PhaseFacts
<1>3. /\ k + 1 \in Nat \ {0}
      /\ GoneOn(w) \in Rows /\ GoneOn(w).status = "running" /\ GoneOn(w).phase = k + 1 /\ GoneOn(w).wake = NoTime
      /\ GoneOn(w).results = w.results /\ GoneOn(w).by = w.by
  BY <1>1, OnPhase
<1>4. IF delay = 0 THEN Works(l, "running", GoneOn(w))
      ELSE lane' = [lane EXCEPT ![l].at = "suspending", ![l].timer = delay, ![l].work = x]
  BY DEF Sleep
<1>5. CASE delay = 0
  <2>1. Becomes(l, State(l, "running", GoneOn(w), lane[l].used, lane[l].did, lane[l].timer))
    BY <1>t, <1>3, <1>4, <1>5, WorksFacts
  <2>2. GoneOn(w) = Copy("running", k + 1, NoTime, w.results, w.by)
    BY <1>3, RowIsCopy
  <2> QED BY <1>1, <1>2, <1>5, <2>1, <2>2
<1>6. CASE delay # 0
  <2>1. x \in Rows
    BY <1>t, <1>2, <1>3 DEF Rows
  <2>2. x.status = "sleeping" /\ x.phase = k + 1 /\ x.wake = delay /\ x.results = w.results /\ x.by = w.by
    BY <1>3 DEF Rows
  <2> HIDE DEF x
  <2>3. x = Copy("sleeping", k + 1, delay, w.results, w.by)
    BY <2>1, <2>2, RowIsCopy
  <2>4. lane' = [lane EXCEPT ![l] = v]
    BY <1>t, <1>4, <1>6 DEF TypeOK
  <2>5. v \in LaneStates
    BY <1>t, <1>2, <2>1 DEF LaneStates
  <2>6. /\ v.at = "suspending" /\ v.work = x /\ v.job = lane[l].job /\ v.tries = lane[l].tries
        /\ v.used = lane[l].used /\ v.did = lane[l].did /\ v.timer = delay
    BY <1>t DEF LaneStates
  <2> HIDE DEF v
  <2>7. Becomes(l, State(l, "suspending", x, lane[l].used, lane[l].did, delay))
    BY <1>t, <2>4, <2>5, <2>6, BecomesState
  <2> QED BY <1>1, <1>2, <1>6, <2>3, <2>7
<1> QED BY <1>5, <1>6

LEMMA TakeSignalFacts ==
  ASSUME Shape, NEW l \in Lanes, TakeSignal(l)
  PROVE  LET v == lane[l]  w == v.work  k == w.phase IN
         /\ v.at = "running" /\ w.status # "sleeping" /\ k \in WaitsOf(Definition(l))
         /\ \E s \in Signals :
              /\ IsFirstPending(l, s)
              /\ Becomes(l, State(l, "running", Copy("running", k + 1, NoTime, w.results, [w.by EXCEPT ![k] = s]),
                                  v.used \cup {s}, v.did \cup Performed(l), v.timer))
<1> DEFINE w == lane[l].work
           k == w.phase
<1>t. /\ TypeOK /\ LanesHold /\ w \in Rows /\ lane[l] \in LaneStates /\ "running" \in InRun
      /\ lane[l].did \in SUBSET Acts /\ lane[l].used \in SUBSET Signals
  BY LaneTypes DEF Shape, InRun
<1>1. /\ lane[l].at = "running" /\ lane[l].at \in InRun /\ w.status # "sleeping" /\ k <= Len(Definition(l).program)
      /\ Current(l).kind \in {"wait", "action_wait"}
  BY AtPhaseFacts DEF TakeSignal
<1>2. k \in WaitsOf(Definition(l))
  BY <1>t, <1>1, PhaseFacts
<1>3. /\ k \in Waits /\ Performed(l) \in SUBSET Acts /\ w.by \in [Waits -> 0..ByTimeout]
      /\ GoneOn(w) \in Rows /\ GoneOn(w).status = "running" /\ GoneOn(w).phase = k + 1 /\ GoneOn(w).wake = NoTime
      /\ GoneOn(w).results = w.results /\ GoneOn(w).by = w.by
  BY <1>1, <1>2, OnPhase
<1>4. PICK s \in Signals :
        /\ IsFirstPending(l, s)
        /\ lane' = [lane EXCEPT ![l].work = [GoneOn(w) EXCEPT !.by[k] = s],
                                ![l].used = Consumed(l, s), ![l].did = @ \cup Performed(l)]
  BY DEF TakeSignal
<1> DEFINE x == [GoneOn(w) EXCEPT !.by[k] = s]
           v == [lane[l] EXCEPT !.work = x, !.used = lane[l].used \cup {s}, !.did = lane[l].did \cup Performed(l)]
<1>5. s \in 0..ByTimeout /\ [w.by EXCEPT ![k] = s] \in [Waits -> 0..ByTimeout]
  BY <1>3, WorkflowAssumption DEF Signals, ByTimeout
<1>6. x \in Rows
  BY <1>3, <1>5 DEF Rows
<1>7. x.status = "running" /\ x.phase = k + 1 /\ x.wake = NoTime /\ x.results = w.results /\ x.by = [w.by EXCEPT ![k] = s]
  BY <1>3 DEF Rows
<1>8. lane' = [lane EXCEPT ![l] = v]
  BY <1>t, <1>4 DEF TypeOK, Consumed
<1> HIDE DEF x
<1>9. x = Copy("running", k + 1, NoTime, w.results, [w.by EXCEPT ![k] = s])
  BY <1>6, <1>7, RowIsCopy
<1>10. lane[l].used \cup {s} \in SUBSET Signals /\ lane[l].did \cup Performed(l) \in SUBSET Acts
  BY <1>t, <1>3
<1>11. v \in LaneStates
  BY <1>t, <1>6, <1>10 DEF LaneStates
<1>12. /\ v.at = "running" /\ v.work = x /\ v.job = lane[l].job /\ v.tries = lane[l].tries
       /\ v.used = lane[l].used \cup {s} /\ v.did = lane[l].did \cup Performed(l) /\ v.timer = lane[l].timer
  BY <1>t, <1>1 DEF LaneStates
<1> HIDE DEF v
<1>13. Becomes(l, State(l, "running", x, lane[l].used \cup {s}, lane[l].did \cup Performed(l), lane[l].timer))
  BY <1>t, <1>8, <1>11, <1>12, BecomesState
<1> QED BY <1>1, <1>2, <1>4, <1>9, <1>13

LEMMA FindNoSignalFacts ==
  ASSUME Shape, NEW l \in Lanes, FindNoSignal(l)
  PROVE  LET v == lane[l]  w == v.work  k == w.phase IN
         /\ v.at = "running" /\ w.status # "sleeping" /\ k \in WaitsOf(Definition(l)) /\ Pending(l) = {}
         /\ Becomes(l, State(l, "unsignalled", w, v.used, v.did \cup Performed(l), v.timer))
<1> DEFINE w == lane[l].work
           k == w.phase
           v == [lane[l] EXCEPT !.at = "unsignalled", !.did = lane[l].did \cup Performed(l)]
<1>t. /\ TypeOK /\ LanesHold /\ lane[l] \in LaneStates /\ lane[l].did \in SUBSET Acts /\ "unsignalled" \in InRun
  BY LaneTypes DEF Shape, InRun
<1>1. /\ lane[l].at = "running" /\ lane[l].at \in InRun /\ w.status # "sleeping" /\ k <= Len(Definition(l).program)
      /\ Current(l).kind \in {"wait", "action_wait"} /\ Pending(l) = {}
  BY AtPhaseFacts DEF FindNoSignal
<1>2. k \in WaitsOf(Definition(l))
  BY <1>t, <1>1, PhaseFacts
<1>3. lane[l].did \cup Performed(l) \in SUBSET Acts
  BY <1>t, <1>1, <1>2, OnPhase
<1>4. lane' = [lane EXCEPT ![l] = v]
  BY <1>t DEF FindNoSignal, TypeOK
<1>5. v \in LaneStates
  BY <1>t, <1>3 DEF LaneStates
<1>6. /\ v.at = "unsignalled" /\ v.work = w /\ v.job = lane[l].job /\ v.tries = lane[l].tries
      /\ v.used = lane[l].used /\ v.did = lane[l].did \cup Performed(l) /\ v.timer = lane[l].timer
  BY <1>t DEF LaneStates
<1> HIDE DEF v
<1>7. Becomes(l, State(l, "unsignalled", w, lane[l].used, lane[l].did \cup Performed(l), lane[l].timer))
  BY <1>t, <1>4, <1>5, <1>6, BecomesState
<1> QED BY <1>1, <1>2, <1>7

LEMMA UnsignalledFacts ==
  ASSUME Shape, NEW l \in Lanes, lane[l].at = "unsignalled"
  PROVE  LET w == lane[l].work IN
         /\ lane[l].at \in InRun /\ w.phase \in WaitsOf(Definition(l)) /\ w.phase <= Len(Definition(l).program)
         /\ w.status \in {"running", "waiting_signal"}
         /\ Current(l).delay \in Nat \cup {NoTime}
<1>1. lane[l].at \in InRun
  BY DEF InRun
<1>2. Definition(l) \in Definitions /\ lane[l].work.phase \in WaitsOf(Definition(l))
      /\ lane[l].work.status \in {"running", "waiting_signal"}
  BY <1>1, LaneFacts DEF Shape, RunsSound, RunOK, Definition
<1>3. lane[l].work.phase <= Len(Definition(l).program)
  BY <1>2, ProgramFacts
<1> QED BY <1>1, <1>2, <1>3, PhaseFacts DEF Shape

LEMMA SuspendFacts ==
  ASSUME Shape, NEW l \in Lanes, Suspend(l)
  PROVE  LET v == lane[l]  w == v.work  k == w.phase  delay == Current(l).delay IN
         /\ v.at = "unsignalled" /\ w.status = "running" /\ delay # 0
         /\ \E a \in {"returning", "suspending"} :
              /\ a = "returning" <=> delay = NoTime
              /\ Becomes(l, State(l, a, Copy("waiting_signal", k, delay, w.results \cup Performed(l), w.by),
                                  v.used, v.did, delay))
<1> DEFINE w == lane[l].work
           k == w.phase
           delay == Current(l).delay
           a == IF delay = NoTime THEN "returning" ELSE "suspending"
           rs == w.results \cup Performed(l)
           x == [w EXCEPT !.status = "waiting_signal", !.wake = delay, !.results = rs]
           v == [lane[l] EXCEPT !.work = x, !.at = a, !.timer = delay]
<1>t. /\ TypeOK /\ LanesHold /\ lane[l] \in LaneStates /\ w \in Rows /\ a \in InRun /\ "waiting_signal" \in Live
  BY LaneTypes DEF Shape, InRun, Live
<1>1. /\ lane[l].at = "unsignalled" /\ w.status # "waiting_signal" /\ ~TimedOut(l)
      /\ lane' = [lane EXCEPT ![l].work = x, ![l].at = a, ![l].timer = delay]
  BY DEF Suspend
<1>2. /\ lane[l].at \in InRun /\ k \in WaitsOf(Definition(l)) /\ k <= Len(Definition(l).program)
      /\ w.status \in {"running", "waiting_signal"} /\ delay \in Nat \cup {NoTime}
  BY <1>1, UnsignalledFacts
<1>3. delay # 0
  BY <1>1 DEF TimedOut
<1>4. rs \in SUBSET Acts
  BY <1>2, OnPhase
<1> HIDE DEF rs
<1>5. x \in Rows
  BY <1>t, <1>2, <1>4 DEF Rows
<1>6. x.status = "waiting_signal" /\ x.phase = k /\ x.wake = delay /\ x.results = rs /\ x.by = w.by
  BY <1>t DEF Rows
<1>7. lane' = [lane EXCEPT ![l] = v]
  BY <1>t, <1>1 DEF TypeOK
<1> HIDE DEF x
<1>8. x = Copy("waiting_signal", k, delay, rs, w.by)
  BY <1>5, <1>6, RowIsCopy
<1>9. v \in LaneStates
  BY <1>t, <1>2, <1>5 DEF LaneStates
<1>10. /\ v.at = a /\ v.work = x /\ v.job = lane[l].job /\ v.tries = lane[l].tries
       /\ v.used = lane[l].used /\ v.did = lane[l].did /\ v.timer = delay
  BY <1>t DEF LaneStates
<1> HIDE DEF v
<1>11. Becomes(l, State(l, a, x, lane[l].used, lane[l].did, delay))
  BY <1>t, <1>7, <1>9, <1>10, BecomesState
<1>12. a \in {"returning", "suspending"} /\ (a = "returning" <=> delay = NoTime)
  OBVIOUS
<1> HIDE DEF a
<1> QED BY <1>1, <1>2, <1>3, <1>8, <1>11, <1>12 DEF rs

LEMMA StillWaitingFacts ==
  ASSUME Shape, NEW l \in Lanes, StillWaiting(l)
  PROVE  LET v == lane[l]  w == v.work IN
         /\ v.at = "unsignalled" /\ w.status = "waiting_signal" /\ w.wake # 0
         /\ Becomes(l, State(l, "returning", w, v.used, v.did, v.timer))
<1>1. /\ lane[l].at = "unsignalled" /\ lane[l].work.status = "waiting_signal" /\ lane[l].work.wake # 0
      /\ Works(l, "returning", lane[l].work)
  BY DEF StillWaiting, TimedOut
<1>2. lane[l].work \in Rows /\ TypeOK /\ "returning" \in InRun
  BY LaneTypes DEF Shape, InRun
<1> QED BY <1>1, <1>2, WorksFacts

LEMMA ContinueFacts ==
  ASSUME Shape, NEW l \in Lanes, Continue(l)
  PROVE  LET v == lane[l]  w == v.work  k == w.phase IN
         /\ v.at = "unsignalled" /\ TimedOut(l)
         /\ Becomes(l, State(l, "running", Copy("running", k + 1, NoTime, w.results, [w.by EXCEPT ![k] = ByTimeout]),
                             v.used, v.did, v.timer))
<1> DEFINE w == lane[l].work
           k == w.phase
           x == [GoneOn(w) EXCEPT !.by[k] = ByTimeout]
<1>t. TypeOK /\ "running" \in InRun
  BY DEF Shape, InRun
<1>1. lane[l].at = "unsignalled" /\ TimedOut(l) /\ Works(l, "running", x)
  BY DEF Continue
<1>2. lane[l].at \in InRun /\ k \in WaitsOf(Definition(l)) /\ k <= Len(Definition(l).program)
  BY <1>1, UnsignalledFacts
<1>3. /\ k \in Waits /\ w.by \in [Waits -> 0..ByTimeout]
      /\ GoneOn(w) \in Rows /\ GoneOn(w).status = "running" /\ GoneOn(w).phase = k + 1 /\ GoneOn(w).wake = NoTime
      /\ GoneOn(w).results = w.results /\ GoneOn(w).by = w.by
  BY <1>2, OnPhase
<1>4. [w.by EXCEPT ![k] = ByTimeout] \in [Waits -> 0..ByTimeout]
  BY <1>3, WorkflowAssumption DEF ByTimeout
<1>5. x \in Rows
  BY <1>3, <1>4 DEF Rows
<1>6. x.status = "running" /\ x.phase = k + 1 /\ x.wake = NoTime /\ x.results = w.results
      /\ x.by = [w.by EXCEPT ![k] = ByTimeout]
  BY <1>3 DEF Rows
<1> HIDE DEF x
<1>7. x = Copy("running", k + 1, NoTime, w.results, [w.by EXCEPT ![k] = ByTimeout])
  BY <1>5, <1>6, RowIsCopy
<1> QED BY <1>t, <1>1, <1>5, <1>7, WorksFacts

LEMMA FailInstanceFacts ==
  ASSUME Shape, NEW l \in Lanes, FailInstance(l)
  PROVE  LET v == lane[l]  w == v.work IN
         /\ v.at = "unsignalled" /\ TimedOut(l) /\ Definition(l).runBased
         /\ Becomes(l, State(l, "returning", Copy("failed", w.phase, NoTime, w.results, w.by), v.used, v.did, v.timer))
<1> DEFINE w == lane[l].work
           x == [w EXCEPT !.status = "failed", !.wake = NoTime]
<1>t. TypeOK /\ w \in Rows /\ "failed" \in Ended /\ "returning" \in InRun
  BY LaneTypes DEF Shape, Ended, InRun
<1>1. x \in Rows
  BY <1>t DEF Rows
<1>2. x.status = "failed" /\ x.phase = w.phase /\ x.wake = NoTime /\ x.results = w.results /\ x.by = w.by
  BY <1>t DEF Rows
<1>3. lane[l].at = "unsignalled" /\ TimedOut(l) /\ Definition(l).runBased /\ Works(l, "returning", x)
  BY DEF FailInstance
<1> HIDE DEF x
<1>4. x = Copy("failed", w.phase, NoTime, w.results, w.by)
  BY <1>1, <1>2, RowIsCopy
<1> QED BY <1>t, <1>1, <1>3, <1>4, WorksFacts

LEMMA EnqueueTimerFacts ==
  ASSUME Shape, NEW l \in Lanes, EnqueueTimer(l)
  PROVE  LET v == lane[l] IN
         /\ v.at = "suspending"
         /\ Becomes(l, State(l, "returning", v.work, v.used, v.did, v.timer))
<1> DEFINE v == [lane[l] EXCEPT !.at = "returning", !.timer = lane[l].timer]
<1>t. TypeOK /\ lane[l] \in LaneStates /\ "returning" \in InRun
  BY LaneTypes DEF Shape, InRun
<1>1. lane[l].at = "suspending" /\ lane' = [lane EXCEPT ![l] = v]
  BY <1>t DEF EnqueueTimer, Timer, TypeOK
<1>2. v \in LaneStates
  BY <1>t DEF LaneStates
<1>3. /\ v.at = "returning" /\ v.work = lane[l].work /\ v.job = lane[l].job /\ v.tries = lane[l].tries
      /\ v.used = lane[l].used /\ v.did = lane[l].did /\ v.timer = lane[l].timer
  BY <1>t DEF LaneStates
<1> HIDE DEF v
<1> QED BY <1>t, <1>1, <1>2, <1>3, BecomesState
-----------------------------------------------------------------------------
(* A step of a run leads to a sound state if it leaves the lane in one.    *)
LEMMA PassFrame ==
  ASSUME Shape, NEW l \in Lanes, lane[l].at \in InRun, OwnStep,
         NEW a \in InRun, NEW w \in Rows, NEW u \in SUBSET Signals, NEW d \in SUBSET Acts, NEW t \in Nat \cup {NoTime},
         Becomes(l, State(l, a, w, u, d, t)),
         Sound(Definition(l), w), a \in {"running", "unsignalled"} => t = NoTime,
         a = "running" => w.status \in Live,
         a = "unsignalled" => w.phase \in WaitsOf(Definition(l)) /\ w.status \in {"running", "waiting_signal"},
         a = "suspending" => w.status \in {"sleeping", "waiting_signal"} /\ t # NoTime,
         a = "returning" => w.status \in {"sleeping", "waiting_signal"} \cup Ended
  PROVE  Shape'
<1> DEFINE v == State(l, a, w, u, d, t)
<1>1. v \in LaneStates
  BY StateFacts DEF Shape
<1>2. /\ v.at = a /\ v.work = w /\ v.timer = t /\ v.job = lane[l].job
  BY DEF State
<1>3. lane' = [lane EXCEPT ![l] = v]
  BY DEF Becomes
<1> HIDE DEF v
<1>4. lane[l].at # "idle" /\ lane[l].job \in Jobs /\ job[lane[l].job].state # "none"
  BY LaneFacts DEF Shape, InRun
<1>5. HoldOK(v)
  BY <1>2, <1>4 DEF HoldOK, InRun
<1>6. RunOK(Instance(l), v)
  BY <1>2 DEF RunOK, Shape, RunsSound, Definition
<1>7. \A m \in Lanes \ {l} : lane[m].at \in InRun => Instance(m) # Instance(l)
  BY DEF Shape, RunsAlone
<1>8. /\ UNCHANGED <<def, row, signal, effects, older>> /\ job' = job /\ faults' = faults
      /\ faults' \in 0..MaxFaults /\ job' \in [Jobs -> JobRows]
  BY DEF OwnStep, Shape, TypeOK
<1> QED BY <1>1, <1>2, <1>3, <1>4, <1>5, <1>6, <1>7, <1>8, LaneFrame

(* A copy that has gone on to the next phase is sound. *)
LEMMA NextIsSound ==
  ASSUME NEW d \in Definitions, NEW w \in Rows, Sound(d, w), w.phase <= Len(d.program),
         NEW st, st # "waiting_signal", NEW wk, (wk # NoTime) <=> (st = "sleeping"),
         NEW rs \in SUBSET Acts, rs \subseteq w.results \cup {w.phase},
         NEW passed \in [Waits -> 0..ByTimeout], \A m \in Waits : passed[m] # w.by[m] => m = w.phase
  PROVE  Sound(d, Copy(st, w.phase + 1, wk, rs, passed))
<1> DEFINE x == Copy(st, w.phase + 1, wk, rs, passed)
<1>1. x.status = st /\ x.phase = w.phase + 1 /\ x.wake = wk /\ x.results = rs /\ x.by = passed
  BY DEF Copy
<1>2. /\ Len(d.program) \in Nat /\ w.phase \in Nat /\ Acts \subseteq Nat /\ Waits \subseteq Nat
  BY ProgramFacts DEF Rows, Waits, Acts, WaitsOf, ActsOf, Places
<1>3. \A k \in rs : k < w.phase + 1
  <2> TAKE k \in rs
  <2>1. k \in Nat /\ (k \in w.results \/ k = w.phase)
    BY <1>2
  <2>2. k \in w.results => k < w.phase \/ k = w.phase
    BY DEF Sound
  <2> QED BY <1>2, <2>1, <2>2
<1>4. \A k \in Waits : passed[k] # ByNothing => k < w.phase + 1
  <2> TAKE k \in Waits
  <2>1. w.by[k] # ByNothing => k < w.phase
    BY DEF Sound
  <2> QED BY <1>2, <2>1
<1> HIDE DEF x
<1>5. Sound(d, x)
  <2>1. x.phase <= Len(d.program) + 1
    BY <1>1, <1>2
  <2> QED BY <1>1, <1>3, <1>4, <2>1 DEF Sound
<1> QED BY <1>5 DEF x

LEMMA PassShape ==
  ASSUME Shape, NEW l \in Lanes, Passes(l)
  PROVE  Shape'
<1> DEFINE v == lane[l]
           w == v.work
           k == w.phase
           d == Definition(l)
<1>1. /\ OwnStep /\ v.at \in InRun
      /\ v.used \in SUBSET Signals /\ v.did \in SUBSET Acts /\ v.timer \in Nat \cup {NoTime} /\ w \in Rows
      /\ w.results \in SUBSET Acts /\ w.by \in [Waits -> 0..ByTimeout] /\ k \in Nat \ {0} /\ w.wake \in Nat \cup {NoTime}
  BY PassIsInRun, LaneTypes DEF Shape
<1>2. Sound(d, w) /\ d \in Definitions /\ RunOK(Instance(l), v) /\ HoldOK(v)
  BY <1>1, LaneFacts DEF Shape, RunsSound, RunOK, Definition, InRun
<1>3. Len(d.program) \in Nat /\ WaitsOf(d) \subseteq Waits /\ WaitsOf(d) \subseteq 1..Len(d.program)
      /\ ActsOf(d) \subseteq Acts /\ ActsOf(d) \subseteq 1..Len(d.program)
      /\ Acts \subseteq Nat /\ Waits \subseteq Nat
  BY <1>2, ProgramFacts DEF Waits, Acts, WaitsOf, ActsOf, Places
<1>4. "running" \in InRun /\ "unsignalled" \in InRun /\ "suspending" \in InRun /\ "returning" \in InRun
  BY DEF InRun
<1>5. "running" \in Live /\ "sleeping" \in Live /\ "waiting_signal" \in Live /\ "completed" \in Ended /\ "failed" \in Ended
  BY DEF Live, Ended
<1>6. v.at = "running" \/ v.at = "unsignalled" => v.timer = NoTime
  BY <1>2 DEF HoldOK
<1>7. \A st \in Live \cup Ended, ph \in Nat \ {0}, wk \in Nat \cup {NoTime}, rs \in SUBSET Acts :
         /\ Copy(st, ph, wk, rs, w.by) \in Rows
         /\ \A m \in Waits, s \in 0..ByTimeout : Copy(st, ph, wk, rs, [w.by EXCEPT ![m] = s]) \in Rows
  BY <1>1, CopyFacts
<1> HIDE DEF v, w, k, d
<1>8. CASE Wake(l)
  <2>1. v.at = "running" /\ w.status = "sleeping"
    BY <1>8, WakeFacts DEF v, w
  <2>2. CASE Becomes(l, State(l, "running", Copy("running", k, NoTime, w.results, w.by), v.used, v.did, v.timer))
    <3>1. Sound(d, Copy("running", k, NoTime, w.results, w.by))
      BY <1>2 DEF Sound, Copy, k
    <3>2. Copy("running", k, NoTime, w.results, w.by) \in Rows /\ Copy("running", k, NoTime, w.results, w.by).status = "running"
      BY <1>1, <1>5, <1>7 DEF Copy
    <3> QED BY <1>1, <1>4, <1>5, <1>6, <2>1, <2>2, <3>1, <3>2, PassFrame DEF v, w, d
  <2>3. CASE Becomes(l, State(l, "returning", w, v.used, v.did, v.timer))
    BY <1>1, <1>2, <1>4, <2>1, <2>3, PassFrame DEF v, w, d
  <2> QED BY <1>8, <2>2, <2>3, WakeFacts DEF v, w, k
<1>9. CASE Finish(l)
  <2> DEFINE x == Copy("completed", k, NoTime, w.results, w.by)
  <2>1. Becomes(l, State(l, "returning", x, v.used, v.did, v.timer))
    BY <1>9, FinishFacts DEF v, w, k
  <2>2. Sound(d, x) /\ x \in Rows /\ x.status = "completed"
    BY <1>1, <1>2, <1>5, <1>7 DEF Sound, Copy, k
  <2> HIDE DEF x
  <2> QED BY <1>1, <1>4, <1>5, <2>1, <2>2, PassFrame DEF v, w, d
<1>10. CASE Act(l)
  <2> DEFINE x == Copy("running", k + 1, NoTime, w.results \cup {k}, w.by)
  <2>1. /\ Becomes(l, State(l, "running", x, v.used, v.did \cup {k}, v.timer)) /\ v.at = "running"
        /\ k \in ActsOf(d)
    BY <1>10, ActFacts DEF v, w, k, d
  <2>2. k \in Acts /\ k <= Len(d.program) /\ k + 1 \in Nat \ {0} /\ w.results \cup {k} \in SUBSET Acts
        /\ v.did \cup {k} \in SUBSET Acts
    BY <1>1, <1>3, <2>1
  <2>3. Sound(d, x)
    BY <1>1, <1>2, <2>2, NextIsSound DEF k
  <2>4. x \in Rows /\ x.status = "running"
    BY <1>5, <1>7, <2>2 DEF Copy
  <2> HIDE DEF x
  <2> QED BY <1>1, <1>4, <1>5, <1>6, <2>1, <2>2, <2>3, <2>4, PassFrame DEF v, w, d
<1>11. CASE Sleep(l)
  <2> DEFINE delay == Current(l).delay
             x == Copy("running", k + 1, NoTime, w.results, w.by)
             y == Copy("sleeping", k + 1, delay, w.results, w.by)
  <2>1. /\ v.at = "running" /\ k <= Len(d.program) /\ delay \in Nat
        /\ \/ Becomes(l, State(l, "running", x, v.used, v.did, v.timer))
           \/ Becomes(l, State(l, "suspending", y, v.used, v.did, delay))
    BY <1>11, SleepFacts DEF v, w, k, d
  <2>2. k + 1 \in Nat \ {0} /\ delay # NoTime
    BY <1>1, <2>1, WorkflowAssumption
  <2>3. Sound(d, x) /\ Sound(d, y)
    BY <1>1, <1>2, <2>1, <2>2, NextIsSound DEF k
  <2>4. x \in Rows /\ x.status = "running" /\ y \in Rows /\ y.status = "sleeping"
    BY <1>1, <1>5, <1>7, <2>1, <2>2 DEF Copy
  <2> HIDE DEF x, y, delay
  <2>5. CASE Becomes(l, State(l, "running", x, v.used, v.did, v.timer))
    BY <1>1, <1>4, <1>5, <1>6, <2>1, <2>3, <2>4, <2>5, PassFrame DEF v, w, d
  <2>6. CASE Becomes(l, State(l, "suspending", y, v.used, v.did, delay))
    BY <1>1, <1>4, <2>1, <2>2, <2>3, <2>4, <2>6, PassFrame DEF v, w, d
  <2> QED BY <2>1, <2>5, <2>6
<1>12. CASE TakeSignal(l)
  <2>1. PICK s \in Signals :
          Becomes(l, State(l, "running", Copy("running", k + 1, NoTime, w.results, [w.by EXCEPT ![k] = s]),
                           v.used \cup {s}, v.did \cup Performed(l), v.timer))
    BY <1>12, TakeSignalFacts DEF v, w, k
  <2> DEFINE x == Copy("running", k + 1, NoTime, w.results, [w.by EXCEPT ![k] = s])
  <2>2. v.at = "running" /\ k \in WaitsOf(d)
    BY <1>12, TakeSignalFacts DEF v, w, k, d
  <2>3. /\ k <= Len(d.program) /\ k + 1 \in Nat \ {0} /\ k \in Waits /\ s \in 0..ByTimeout
        /\ [w.by EXCEPT ![k] = s] \in [Waits -> 0..ByTimeout]
        /\ \A m \in Waits : [w.by EXCEPT ![k] = s][m] # w.by[m] => m = k
    BY <1>1, <1>3, <2>2, WorkflowAssumption DEF Signals, ByTimeout
  <2>4. Performed(l) \in SUBSET Acts
    BY <1>1, <2>2, <2>3, OnPhase DEF v, w, k, d
  <2>5. Sound(d, x)
    BY <1>1, <1>2, <2>3, NextIsSound DEF k
  <2>6. x \in Rows /\ x.status = "running"
    BY <1>1, <1>5, <1>7, <2>3 DEF Copy
  <2>7. v.used \cup {s} \in SUBSET Signals /\ v.did \cup Performed(l) \in SUBSET Acts
    BY <1>1, <2>4
  <2>8. Becomes(l, State(l, "running", x, v.used \cup {s}, v.did \cup Performed(l), v.timer))
    BY <2>1
  <2> HIDE DEF x
  <2> QED BY <1>1, <1>4, <1>5, <1>6, <2>2, <2>5, <2>6, <2>7, <2>8, PassFrame DEF v, w, d
<1>13. CASE FindNoSignal(l)
  <2>1. /\ v.at = "running" /\ w.status # "sleeping" /\ k \in WaitsOf(d)
        /\ Becomes(l, State(l, "unsignalled", w, v.used, v.did \cup Performed(l), v.timer))
    BY <1>13, FindNoSignalFacts DEF v, w, k, d
  <2>2. w.status \in {"running", "waiting_signal"}
    BY <1>2, <2>1 DEF RunOK, Live, w
  <2>3. k <= Len(d.program)
    BY <1>3, <2>1
  <2>4. v.did \cup Performed(l) \in SUBSET Acts
    BY <1>1, <2>1, <2>3, OnPhase DEF v, w, k, d
  <2> QED BY <1>1, <1>2, <1>4, <1>6, <2>1, <2>2, <2>4, PassFrame DEF v, w, d, k
<1>14. CASE Suspend(l)
  <2> DEFINE delay == Current(l).delay
             x == Copy("waiting_signal", k, delay, w.results \cup Performed(l), w.by)
  <2>1. PICK a \in {"returning", "suspending"} :
          /\ a = "returning" <=> delay = NoTime
          /\ Becomes(l, State(l, a, x, v.used, v.did, delay))
    BY <1>14, SuspendFacts DEF v, w, k
  <2>2. v.at = "unsignalled" /\ k \in WaitsOf(d) /\ k <= Len(d.program) /\ delay \in Nat \cup {NoTime}
    BY <1>14, SuspendFacts, UnsignalledFacts DEF v, w, k, d
  <2>3. Performed(l) = (ActsOf(d) \cap {k}) \ w.results
    BY <1>1, <2>2, PhaseFacts DEF v, w, k, d, Shape
  <2>4. w.results \cup Performed(l) \in SUBSET Acts
    BY <1>1, <1>3, <2>3
  <2>5. Sound(d, x)
    BY <1>1, <1>2, <1>3, <2>2, <2>3 DEF Sound, Copy, k
  <2>6. x \in Rows /\ x.status = "waiting_signal"
    BY <1>1, <1>5, <1>7, <2>2, <2>4 DEF Copy
  <2> HIDE DEF x, delay
  <2> QED BY <1>1, <1>4, <2>1, <2>2, <2>5, <2>6, PassFrame DEF v, w, d
<1>15. CASE StillWaiting(l)
  <2>1. v.at = "unsignalled" /\ w.status = "waiting_signal"
        /\ Becomes(l, State(l, "returning", w, v.used, v.did, v.timer))
    BY <1>15, StillWaitingFacts DEF v, w
  <2> QED BY <1>1, <1>2, <1>4, <2>1, PassFrame DEF v, w, d
<1>16. CASE Continue(l)
  <2> DEFINE x == Copy("running", k + 1, NoTime, w.results, [w.by EXCEPT ![k] = ByTimeout])
  <2>1. v.at = "unsignalled" /\ Becomes(l, State(l, "running", x, v.used, v.did, v.timer))
    BY <1>16, ContinueFacts DEF v, w, k
  <2>2. k \in WaitsOf(d) /\ k <= Len(d.program)
    BY <2>1, UnsignalledFacts DEF v, w, k, d
  <2>3. /\ k <= Len(d.program) /\ k + 1 \in Nat \ {0} /\ k \in Waits /\ ByTimeout \in 0..ByTimeout
        /\ [w.by EXCEPT ![k] = ByTimeout] \in [Waits -> 0..ByTimeout]
        /\ \A m \in Waits : [w.by EXCEPT ![k] = ByTimeout][m] # w.by[m] => m = k
    BY <1>1, <1>3, <2>2, WorkflowAssumption DEF ByTimeout
  <2>4. Sound(d, x)
    BY <1>1, <1>2, <2>2, <2>3, NextIsSound DEF k
  <2>5. x \in Rows /\ x.status = "running"
    BY <1>1, <1>5, <1>7, <2>3 DEF Copy
  <2> HIDE DEF x
  <2> QED BY <1>1, <1>4, <1>5, <1>6, <2>1, <2>4, <2>5, PassFrame DEF v, w, d
<1>17. CASE FailInstance(l)
  <2> DEFINE x == Copy("failed", k, NoTime, w.results, w.by)
  <2>1. Becomes(l, State(l, "returning", x, v.used, v.did, v.timer))
    BY <1>17, FailInstanceFacts DEF v, w, k
  <2>2. Sound(d, x) /\ x \in Rows /\ x.status = "failed"
    BY <1>1, <1>2, <1>5, <1>7 DEF Sound, Copy, k
  <2> HIDE DEF x
  <2> QED BY <1>1, <1>4, <1>5, <2>1, <2>2, PassFrame DEF v, w, d
<1>18. CASE EnqueueTimer(l)
  <2>1. v.at = "suspending" /\ Becomes(l, State(l, "returning", w, v.used, v.did, v.timer))
    BY <1>18, EnqueueTimerFacts DEF v, w
  <2>2. w.status \in {"sleeping", "waiting_signal"}
    BY <1>2, <2>1 DEF RunOK, w
  <2> QED BY <1>1, <1>2, <1>4, <2>1, <2>2, PassFrame DEF v, w, d
<1> QED BY <1>8, <1>9, <1>10, <1>11, <1>12, <1>13, <1>14, <1>15, <1>16, <1>17, <1>18 DEF Passes
-----------------------------------------------------------------------------
(* What the jobs of the queue keep through a step: the steps of a client   *)
(* or of a lane insert a job or change the state, the delay and the tries  *)
(* of one.                                                                 *)
JobsKept ==
  /\ job' \in [Jobs -> JobRows]
  /\ \A j \in Jobs : job[j].state # "none" => job'[j].state # "none" /\ job'[j].of = job[j].of

LEMMA EnqueuedKeeps ==
  ASSUME TypeOK, NEW i \in Instances, NEW delay \in Nat, NEW j \in Jobs, IsNextJob(j), job' = Enqueued(j, i, delay)
  PROVE  JobsKept
<1>1. [state |-> "waiting", of |-> i, wait |-> delay, tries |-> 0] \in JobRows
  BY DEF JobRows
<1> QED BY <1>1 DEF JobsKept, Enqueued, TypeOK, IsNextJob

(* A lane that is not in a run after a step of its own. *)
LEMMA OutFrame ==
  ASSUME Shape, NEW l \in Lanes, NEW v \in LaneStates, lane' = [lane EXCEPT ![l] = v], v.at \notin InRun,
         UNCHANGED <<def, row, signal, effects, older>>, faults' \in 0..MaxFaults, JobsKept,
         HoldOK(v), v.at # "idle" => job'[v.job].state # "none"
  PROVE  Shape'
BY LaneFrame DEF JobsKept

LEMMA FaultFacts == ASSUME TypeOK, Fault \/ UNCHANGED faults PROVE faults' \in 0..MaxFaults
BY WorkflowAssumption DEF TypeOK, Fault

LEMMA LeftFacts ==
  ASSUME Shape, NEW l \in Lanes, lane[l].at # "idle", NEW a \in {"committed", "failed"}
  PROVE  /\ Left(l, a) \in LaneStates /\ Left(l, a).at = a /\ Left(l, a).job = lane[l].job
         /\ Left(l, a).used = {} /\ Left(l, a).did = {} /\ HoldOK(Left(l, a)) /\ a \notin InRun
<1>1. lane[l].job \in Jobs /\ lane[l].tries \in Nat /\ Idle \in LaneStates /\ a \notin InRun
  BY LaneFacts, BlankFacts DEF Shape, LaneStates, InRun
<1>2. Left(l, a) \in LaneStates
  BY <1>1 DEF Left, LaneStates
<1>3. /\ Left(l, a).at = a /\ Left(l, a).job = lane[l].job /\ Left(l, a).used = {} /\ Left(l, a).did = {}
      /\ Left(l, a).timer = NoTime
  BY <1>1 DEF Left, LaneStates, Idle
<1> QED BY <1>1, <1>2, <1>3 DEF HoldOK

LEMMA TakeShape ==
  ASSUME Shape, NEW l \in Lanes, Take(l)
  PROVE  Shape'
<1>1. PICK j \in Jobs :
        /\ Deliverable(j)
        /\ job' = [job EXCEPT ![j].state = "taken", ![j].tries = @ + 1]
        /\ lane' = [lane EXCEPT ![l] = [Idle EXCEPT !.at = "taken", !.job = j, !.tries = job[j].tries + 1]]
  BY DEF Take
<1> DEFINE v == [Idle EXCEPT !.at = "taken", !.job = j, !.tries = job[j].tries + 1]
<1>2. Idle \in LaneStates /\ job \in [Jobs -> JobRows] /\ job[j].tries \in Nat /\ job[j].tries + 1 \in Nat
  BY BlankFacts DEF Shape, TypeOK, JobRows
<1>3. v \in LaneStates
  BY <1>2 DEF LaneStates
<1>4. v.at = "taken" /\ v.job = j /\ v.used = {} /\ v.did = {} /\ v.timer = NoTime
  BY <1>2 DEF LaneStates, Idle
<1>5. job[j].state # "none"
  BY <1>1 DEF Deliverable
<1>6. JobsKept /\ job'[j].state = "taken"
  BY <1>1, <1>2 DEF JobsKept, JobRows
<1>7. faults' \in 0..MaxFaults
  BY <1>1, FaultFacts DEF Deliverable, Shape
<1>8. UNCHANGED <<def, row, signal, effects, older>> /\ v.at \notin InRun
  BY <1>4 DEF Take, InRun
<1> HIDE DEF v
<1>9. HoldOK(v)
  BY <1>4 DEF HoldOK
<1> QED BY <1>1, <1>3, <1>4, <1>6, <1>7, <1>8, <1>9, OutFrame DEF v

LEMMA ClaimFacts ==
  ASSUME Shape, NEW l \in Lanes, ClaimLease(l)
  PROVE  LET i == Instance(l) IN
         /\ lane[l].at = "taken" /\ i \in Instances /\ row[i] \in Rows /\ ~Locked(i)
         /\ \E a \in {"running", "committed"} :
              /\ a = "running" <=> row[i].status \in Live
              /\ Becomes(l, State(l, a, row[i], {}, {}, NoTime))
              /\ State(l, a, row[i], {}, {}, NoTime) \in LaneStates
         /\ UNCHANGED <<def, row, signal, job, effects, older, faults>>
<1> DEFINE i == Instance(l)
           a == IF row[i].status \in Live THEN "running" ELSE "committed"
           v == [lane[l] EXCEPT !.at = a, !.work = row[i]]
<1>1. lane[l].at = "taken" /\ ~Locked(i) /\ lane' = [lane EXCEPT ![l].at = a, ![l].work = row[i]]
  BY DEF ClaimLease, MayClaim
<1>2. /\ i \in Instances /\ lane[l] \in LaneStates /\ HoldOK(lane[l]) /\ row[i] \in Rows
      /\ TypeOK
  BY <1>1, LaneFacts DEF Shape, TypeOK
<1>3. lane[l].used = {} /\ lane[l].did = {} /\ lane[l].timer = NoTime
  BY <1>1, <1>2 DEF HoldOK
<1>4. a \in {"running", "committed"} /\ (a = "running" <=> row[i].status \in Live)
  OBVIOUS
<1> HIDE DEF i, a
<1>5. v \in LaneStates
  BY <1>2, <1>4 DEF LaneStates, InRun
<1>6. /\ v.at = a /\ v.work = row[i] /\ v.job = lane[l].job /\ v.tries = lane[l].tries
      /\ v.used = {} /\ v.did = {} /\ v.timer = NoTime
  BY <1>2, <1>3 DEF LaneStates
<1>7. lane' = [lane EXCEPT ![l] = v]
  BY <1>1, <1>2 DEF TypeOK
<1> HIDE DEF v
<1>8. Becomes(l, State(l, a, row[i], {}, {}, NoTime))
  BY <1>2, <1>5, <1>6, <1>7, BecomesState
<1>9. v = State(l, a, row[i], {}, {}, NoTime)
  BY <1>5, <1>6 DEF LaneStates, State
<1>10. UNCHANGED <<def, row, signal, job, effects, older, faults>>
  BY DEF ClaimLease
<1> QED BY <1>1, <1>2, <1>4, <1>5, <1>8, <1>9, <1>10 DEF i

LEMMA ClaimShape ==
  ASSUME Shape, NEW l \in Lanes, ClaimLease(l)
  PROVE  Shape'
<1> DEFINE i == Instance(l)
<1>1. PICK a \in {"running", "committed"} :
         /\ a = "running" <=> row[i].status \in Live
         /\ Becomes(l, State(l, a, row[i], {}, {}, NoTime))
         /\ State(l, a, row[i], {}, {}, NoTime) \in LaneStates
  BY ClaimFacts
<1>2. /\ lane[l].at = "taken" /\ i \in Instances /\ ~Locked(i)
      /\ UNCHANGED <<def, row, signal, job, effects, older, faults>>
  BY ClaimFacts
<1> DEFINE v == State(l, a, row[i], {}, {}, NoTime)
<1>3. v.at = a /\ v.work = row[i] /\ v.job = lane[l].job /\ v.used = {} /\ v.did = {} /\ v.timer = NoTime
  BY DEF State
<1>4. v \in LaneStates /\ lane' = [lane EXCEPT ![l] = v]
  BY <1>1 DEF Becomes
<1> HIDE DEF v
<1>5. lane[l].job \in Jobs /\ job[lane[l].job].state # "none"
  BY <1>2, LaneFacts DEF Shape
<1>6. HoldOK(v) /\ v.job \in Jobs /\ job'[v.job].state # "none"
  BY <1>2, <1>3, <1>5 DEF HoldOK
<1>7. v.at \in InRun => RunOK(i, v)
  BY <1>1, <1>2, <1>3 DEF RunOK, Shape, RowsSound, InRun
<1>8. \A m \in Lanes \ {l} : lane[m].at \in InRun => Instance(m) # i
  BY <1>2 DEF Locked
<1>9. /\ job' \in [Jobs -> JobRows] /\ faults' \in 0..MaxFaults
      /\ \A j \in Jobs : job[j].state # "none" => job'[j].state # "none" /\ job'[j].of = job[j].of
  BY <1>2 DEF Shape, TypeOK
<1> QED BY <1>2, <1>3, <1>4, <1>6, <1>7, <1>8, <1>9, LaneFrame

LEMMA LeaveJobs ==
  ASSUME Shape, NEW l \in Lanes, Throw(l) \/ ThrowAfterCommit(l) \/ Complete(l) \/ FailJob(l) \/ Crash(l)
  PROVE  JobsKept
<1> USE DEF Shape
<1>1. lane[l].at # "idle"
  BY DEF Throw, ThrowAfterCommit, Complete, FailJob, Crash, InRun
<1>2. lane[l].job \in Jobs /\ job[lane[l].job].state # "none" /\ job[lane[l].job] \in JobRows
  BY <1>1, LaneFacts DEF TypeOK
<1>3. ASSUME job' = [job EXCEPT ![lane[l].job].state = "done"] PROVE JobsKept
  BY <1>2, <1>3 DEF JobsKept, TypeOK, JobRows
<1>4. ASSUME FailJob(l) PROVE JobsKept
  <2> DEFINE s == IF lane[l].tries >= MaxAttempts THEN "failed" ELSE "waiting"
             r == [job[lane[l].job] EXCEPT !.state = s, !.wait = RetryDelay]
  <2>1. job' = [job EXCEPT ![lane[l].job].state = s, ![lane[l].job].wait = RetryDelay] /\ s \in {"failed", "waiting"}
    BY <1>4 DEF FailJob
  <2> HIDE DEF s
  <2>2. RetryDelay \in Nat /\ job \in [Jobs -> JobRows]
    BY WorkflowAssumption DEF TypeOK
  <2>3. r \in JobRows /\ r.state = s /\ r.of = job[lane[l].job].of
    BY <1>2, <2>1, <2>2 DEF JobRows
  <2>4. job' = [job EXCEPT ![lane[l].job] = r]
    BY <1>2, <2>1, <2>2
  <2> HIDE DEF r
  <2> QED BY <2>1, <2>2, <2>3, <2>4 DEF JobsKept
<1>5. ASSUME UNCHANGED job PROVE JobsKept
  BY <1>5 DEF JobsKept, TypeOK
<1> QED BY <1>3, <1>4, <1>5 DEF Throw, ThrowAfterCommit, Complete, Crash

LEMMA LeaveShape ==
  ASSUME Shape, NEW l \in Lanes, Throw(l) \/ ThrowAfterCommit(l) \/ Complete(l) \/ FailJob(l) \/ Crash(l)
  PROVE  Shape'
<1> USE DEF Shape
<1>1. lane[l] \in LaneStates /\ lane[l].at # "idle"
  BY LaneFacts DEF Throw, ThrowAfterCommit, Complete, FailJob, Crash, InRun
<1>2. lane[l].job \in Jobs /\ job[lane[l].job].state # "none" /\ job[lane[l].job] \in JobRows
  BY <1>1, LaneFacts DEF TypeOK
<1>3. UNCHANGED <<def, row, signal, effects, older>>
  BY DEF Throw, ThrowAfterCommit, Complete, FailJob, Crash
<1>4. faults' \in 0..MaxFaults
  BY FaultFacts DEF Throw, ThrowAfterCommit, Complete, FailJob, Crash
<1>5. JobsKept
  BY LeaveJobs
<1>6. CASE Throw(l)
  BY <1>1, <1>2, <1>3, <1>4, <1>5, <1>6, LeftFacts, OutFrame DEF Throw, JobsKept
<1>7. CASE ThrowAfterCommit(l)
  <2> DEFINE v == [lane[l] EXCEPT !.at = "failed"]
  <2>1. v \in LaneStates /\ v.at = "failed" /\ v.job = lane[l].job /\ v.at \notin InRun
    BY <1>1 DEF LaneStates, InRun
  <2>2. lane' = [lane EXCEPT ![l] = v]
    BY <1>7 DEF ThrowAfterCommit, TypeOK
  <2>3. HoldOK(v)
    BY <1>2, <2>1 DEF HoldOK
  <2> HIDE DEF v
  <2> QED BY <1>2, <1>3, <1>4, <1>5, <2>1, <2>2, <2>3, OutFrame DEF JobsKept
<1>8. CASE Complete(l) \/ FailJob(l) \/ Crash(l)
  <2>1. lane' = [lane EXCEPT ![l] = Idle] /\ Idle.at = "idle" /\ Idle \in LaneStates /\ HoldOK(Idle) /\ Idle.at \notin InRun
    BY <1>8, BlankFacts DEF Complete, FailJob, Crash, InRun
  <2> QED BY <1>3, <1>4, <1>5, <2>1, OutFrame
<1> QED BY <1>6, <1>7, <1>8

(* The commit of a run writes its copy back and leaves the other runs as   *)
(* they are.                                                               *)
LEMMA CommitFacts ==
  ASSUME Shape, NEW l \in Lanes, Commit(l)
  PROVE  LET i == Instance(l)  v == lane[l] IN
         /\ v.at = "returning" /\ v.at \in InRun /\ v \in LaneStates /\ RunOK(i, v)
         /\ i \in Instances /\ v.job \in Jobs /\ job[v.job].state # "none" /\ def[i] \in Definitions
         /\ row' = [row EXCEPT ![i] = v.work]
         /\ \A s \in Signals : /\ signal'[s].state = IF s \in v.used THEN "consumed" ELSE signal[s].state
                               /\ signal'[s].of = signal[s].of /\ signal'[s].name = signal[s].name
         /\ signal' \in [Signals -> SignalRows]
         /\ effects' \in [Instances -> [Acts -> Nat]]
         /\ \A k \in Acts : effects'[i][k] = IF k \in v.did THEN effects[i][k] + 1 ELSE effects[i][k]
         /\ \A m \in Instances \ {i} : effects'[m] = effects[m] /\ row'[m] = row[m]
         /\ lane' = [lane EXCEPT ![l] = Left(l, "committed")]
         /\ IF v.timer = NoTime THEN job' = job
            ELSE \E j \in Jobs : IsNextJob(j) /\ job' = Enqueued(j, i, v.timer)
         /\ JobsKept
         /\ UNCHANGED <<def, older, faults>>
         /\ \A m \in Lanes \ {l} : lane'[m] = lane[m]
         /\ \A m \in Lanes \ {l} : lane[m].at # "idle" => Instance(m)' = Instance(m) /\ Instance(m) \in Instances
         /\ \A m \in Lanes \ {l} : lane[m].at \in InRun => Instance(m) # i
<1> USE DEF Shape
<1> DEFINE i == Instance(l)
           v == lane[l]
<1>1. v.at = "returning" /\ v.at \in InRun
  BY DEF Commit, InRun
<1>2. v \in LaneStates /\ RunOK(i, v) /\ i \in Instances /\ v.job \in Jobs /\ job[v.job].state # "none" /\ def[i] \in Definitions
  BY <1>1, LaneFacts DEF RunsSound, Definition
<1>3. row' = [row EXCEPT ![i] = v.work] /\ lane' = [lane EXCEPT ![l] = Left(l, "committed")] /\ UNCHANGED <<def, older, faults>>
  BY DEF Commit
<1>4. /\ \A s \in Signals : /\ signal'[s].state = IF s \in v.used THEN "consumed" ELSE signal[s].state
                            /\ signal'[s].of = signal[s].of /\ signal'[s].name = signal[s].name
      /\ signal' \in [Signals -> SignalRows]
  <2>1. signal' = [s \in Signals |-> IF s \in v.used THEN [signal[s] EXCEPT !.state = "consumed"] ELSE signal[s]]
    BY DEF Commit
  <2> QED BY <2>1 DEF TypeOK, SignalRows
<1>5. /\ effects' \in [Instances -> [Acts -> Nat]]
      /\ \A k \in Acts : effects'[i][k] = IF k \in v.did THEN effects[i][k] + 1 ELSE effects[i][k]
  <2> DEFINE e == [k \in Acts |-> IF k \in v.did THEN effects[i][k] + 1 ELSE effects[i][k]]
  <2>1. effects' = [effects EXCEPT ![i] = e]
    BY DEF Commit
  <2>2. e \in [Acts -> Nat] /\ \A k \in Acts : e[k] = IF k \in v.did THEN effects[i][k] + 1 ELSE effects[i][k]
    BY <1>2 DEF TypeOK
  <2> HIDE DEF e
  <2> QED BY <1>2, <2>1, <2>2 DEF TypeOK
<1>6. \A m \in Instances \ {i} : effects'[m] = effects[m] /\ row'[m] = row[m]
  BY <1>3 DEF Commit, TypeOK
<1>7. IF v.timer = NoTime THEN job' = job ELSE \E j \in Jobs : IsNextJob(j) /\ job' = Enqueued(j, i, v.timer)
  BY DEF Commit
<1>8. JobsKept
  <2>1. v.timer = NoTime \/ v.timer \in Nat
    BY <1>2 DEF LaneStates
  <2>2. CASE v.timer = NoTime
    BY <1>7, <2>2 DEF JobsKept, TypeOK
  <2>3. CASE v.timer # NoTime
    BY <1>2, <1>7, <2>1, <2>3, EnqueuedKeeps
  <2> QED BY <2>2, <2>3
<1>9. \A m \in Lanes \ {l} : lane'[m] = lane[m]
  BY <1>3 DEF TypeOK
<1>10. \A m \in Lanes \ {l} : lane[m].at # "idle" => Instance(m)' = Instance(m) /\ Instance(m) \in Instances
  BY <1>8, <1>9, LaneFacts DEF Instance, JobsKept
<1>11. \A m \in Lanes \ {l} : lane[m].at \in InRun => Instance(m) # i
  BY <1>1 DEF RunsAlone
<1> HIDE DEF i, v
<1> QED BY <1>1, <1>2, <1>3, <1>4, <1>5, <1>6, <1>7, <1>8, <1>9, <1>10, <1>11 DEF i, v

LEMMA CommitShape ==
  ASSUME Shape, NEW l \in Lanes, Commit(l)
  PROVE  Shape'
<1> USE DEF Shape
<1> DEFINE i == Instance(l)
           v == lane[l]
           gone == Left(l, "committed")
<1>1. /\ v.at \in InRun /\ v \in LaneStates /\ RunOK(i, v)
      /\ i \in Instances /\ v.job \in Jobs /\ job[v.job].state # "none" /\ def[i] \in Definitions
      /\ row' = [row EXCEPT ![i] = v.work]
      /\ signal' \in [Signals -> SignalRows] /\ effects' \in [Instances -> [Acts -> Nat]]
      /\ \A m \in Instances \ {i} : row'[m] = row[m]
      /\ lane' = [lane EXCEPT ![l] = gone]
      /\ JobsKept /\ UNCHANGED <<def, older, faults>>
      /\ \A m \in Lanes \ {l} : lane'[m] = lane[m]
      /\ \A m \in Lanes \ {l} : lane[m].at # "idle" => Instance(m)' = Instance(m) /\ Instance(m) \in Instances
      /\ \A m \in Lanes \ {l} : lane[m].at \in InRun => Instance(m) # i
  BY CommitFacts
<1>2. /\ gone \in LaneStates /\ gone.at = "committed" /\ gone.job = v.job
      /\ HoldOK(gone) /\ gone.at \notin InRun /\ lane'[l] = gone
  BY <1>1, LeftFacts DEF InRun, TypeOK
<1>3. v.work \in Rows /\ row' \in [Instances -> Rows] /\ row'[i] = v.work
  BY <1>1 DEF LaneStates, TypeOK
<1> HIDE DEF i, v, gone
<1>4. RowsSound'
  BY <1>1, <1>3 DEF RowsSound, Sound, RunOK
<1>5. TypeOK'
  <2>1. \A m \in Instances : Sound(def[m], row'[m])
    BY <1>1, <1>3 DEF RowsSound, RunOK
  <2>2. \A m \in Instances :
          /\ row'[m].phase <= Len(def'[m].program) + 1
          /\ row'[m].wake # NoTime => row'[m].status \in {"sleeping", "waiting_signal"}
          /\ row'[m].status = "sleeping" => row'[m].wake # NoTime
    BY <1>1, <2>1 DEF Sound
  <2>3. def' \in [Instances -> Definitions] /\ older' \in [Signals -> SUBSET Signals] /\ faults' \in 0..MaxFaults
        /\ job' \in [Jobs -> JobRows] /\ lane' \in [Lanes -> LaneStates]
    BY <1>1, <1>2 DEF TypeOK, JobsKept
  <2> QED BY <1>1, <1>3, <2>2, <2>3 DEF TypeOK
<1>6. LanesHold'
  <2> SUFFICES ASSUME NEW m \in Lanes PROVE HoldOK(lane'[m]) /\ (lane'[m].at # "idle" => job'[lane'[m].job].state # "none")
    BY DEF LanesHold, HoldOK
  <2>1. CASE m = l
    BY <1>1, <1>2, <2>1 DEF JobsKept
  <2>2. CASE m # l
    BY <1>1, <2>2, LaneFacts DEF JobsKept, LanesHold
  <2> QED BY <2>1, <2>2
<1>7. \A m \in Lanes : lane'[m].at \in InRun =>
        m # l /\ lane'[m] = lane[m] /\ Instance(m)' = Instance(m) /\ Instance(m) \in Instances /\ Instance(m) # i
  BY <1>1, <1>2 DEF InRun
<1>8. RunsAlone'
  BY <1>7 DEF RunsAlone
<1>9. RunsSound'
  BY <1>1, <1>7 DEF RunsSound, RunOK, Sound
<1> QED BY <1>4, <1>5, <1>6, <1>8, <1>9

LEMMA LessFacts ==
  ASSUME NEW t \in Nat \cup {NoTime}
  PROVE  /\ Less(t) \in Nat \cup {NoTime} /\ Less(t) = NoTime <=> t = NoTime
         /\ t = 0 => Less(t) = 0
         /\ t # NoTime => Less(t) \in Nat /\ Less(t) <= t
BY WorkflowAssumption DEF Less

(* Time passes: only what is left until a deadline gets less. *)
LEMMA TickFacts ==
  ASSUME Shape, Tick
  PROVE  /\ \A i \in Instances : /\ row'[i] = Copy(row[i].status, row[i].phase, Less(row[i].wake), row[i].results, row[i].by)
                                 /\ row'[i] \in Rows
         /\ row' \in [Instances -> Rows]
         /\ \A l \in Lanes : LET v == lane[l]  w == v.work IN
              /\ lane'[l] = State(l, v.at, Copy(w.status, w.phase, Less(w.wake), w.results, w.by), v.used, v.did,
                                  IF v.at = "returning" THEN Less(v.timer) ELSE v.timer)
              /\ lane'[l] \in LaneStates
         /\ lane' \in [Lanes -> LaneStates]
         /\ \A j \in Jobs : /\ job'[j].state = job[j].state /\ job'[j].of = job[j].of /\ job'[j].tries = job[j].tries
                            /\ job'[j].wait = Less(job[j].wait)
         /\ JobsKept
         /\ UNCHANGED <<def, signal, effects, older, faults>>
<1> USE DEF Shape
<1>1. \A i \in Instances : /\ row'[i] = Copy(row[i].status, row[i].phase, Less(row[i].wake), row[i].results, row[i].by)
                           /\ row'[i] \in Rows
  <2> TAKE i \in Instances
  <2> DEFINE r == [row[i] EXCEPT !.wake = Less(row[i].wake)]
  <2>1. row[i] \in Rows /\ row'[i] = r
    BY DEF TypeOK, Tick
  <2>2. Less(row[i].wake) \in Nat \cup {NoTime}
    BY <2>1, LessFacts DEF Rows
  <2>3. r \in Rows
    BY <2>1, <2>2 DEF Rows
  <2>4. /\ r.status = row[i].status /\ r.phase = row[i].phase /\ r.wake = Less(row[i].wake)
        /\ r.results = row[i].results /\ r.by = row[i].by
    BY <2>1 DEF Rows
  <2> HIDE DEF r
  <2> QED BY <2>1, <2>3, <2>4, RowIsCopy
<1>2. row' \in [Instances -> Rows]
  <2>1. row' = [i \in Instances |-> row'[i]]
    BY DEF Tick
  <2> QED BY <1>1, <2>1
<1>3. ASSUME NEW l \in Lanes
      PROVE  LET v == lane[l]  w == v.work IN
             /\ lane'[l] = State(l, v.at, Copy(w.status, w.phase, Less(w.wake), w.results, w.by), v.used, v.did,
                                 IF v.at = "returning" THEN Less(v.timer) ELSE v.timer)
             /\ lane'[l] \in LaneStates
  <2> DEFINE v == lane[l]
             w == v.work
             x == [w EXCEPT !.wake = Less(w.wake)]
             t == IF v.at = "returning" THEN Less(v.timer) ELSE v.timer
             u == [v EXCEPT !.work = x, !.timer = t]
  <2>1. v \in LaneStates /\ w \in Rows /\ w.wake \in Nat \cup {NoTime} /\ v.timer \in Nat \cup {NoTime}
    BY LaneTypes
  <2>2. Less(w.wake) \in Nat \cup {NoTime} /\ t \in Nat \cup {NoTime}
    BY <2>1, LessFacts
  <2>3. lane'[l] = [v EXCEPT !.work = x, !.timer = t]
    BY <2>1 DEF Tick, LaneStates
  <2> HIDE DEF t
  <2>4. x \in Rows
    BY <2>1, <2>2 DEF Rows
  <2>5. x.status = w.status /\ x.phase = w.phase /\ x.wake = Less(w.wake) /\ x.results = w.results /\ x.by = w.by
    BY <2>1 DEF Rows
  <2> HIDE DEF x
  <2>6. x = Copy(w.status, w.phase, Less(w.wake), w.results, w.by)
    BY <2>4, <2>5, RowIsCopy
  <2>7. u \in LaneStates
    BY <2>1, <2>2, <2>4 DEF LaneStates
  <2>8. /\ u.at = v.at /\ u.job = v.job /\ u.tries = v.tries /\ u.work = x /\ u.used = v.used /\ u.did = v.did
        /\ u.timer = t
    BY <2>1 DEF LaneStates
  <2>9. lane'[l] = u
    BY <2>3
  <2> HIDE DEF u
  <2>10. u = State(l, v.at, x, v.used, v.did, t)
    BY <2>7, <2>8 DEF State, LaneStates
  <2> QED BY <2>6, <2>7, <2>9, <2>10 DEF t
<1>4. lane' \in [Lanes -> LaneStates]
  <2>1. lane' = [l \in Lanes |-> lane'[l]]
    BY DEF Tick
  <2> QED BY <1>3, <2>1
<1>5. \A j \in Jobs : /\ job'[j].state = job[j].state /\ job'[j].of = job[j].of /\ job'[j].tries = job[j].tries
                      /\ job'[j].wait = Less(job[j].wait) /\ job'[j] \in JobRows
  <2> TAKE j \in Jobs
  <2>1. job[j] \in JobRows /\ job'[j] = [job[j] EXCEPT !.wait = Less(job[j].wait)]
    BY DEF TypeOK, Tick
  <2>2. Less(job[j].wait) \in Nat
    BY <2>1, LessFacts, WorkflowAssumption DEF JobRows
  <2> QED BY <2>1, <2>2 DEF JobRows
<1>6. JobsKept
  <2>1. job' = [j \in Jobs |-> job'[j]]
    BY DEF Tick
  <2> QED BY <1>5, <2>1 DEF JobsKept
<1>7. UNCHANGED <<def, signal, effects, older, faults>>
  BY DEF Tick
<1> QED BY <1>1, <1>2, <1>3, <1>4, <1>5, <1>6, <1>7

LEMMA TickShape ==
  ASSUME Shape, Tick
  PROVE  Shape'
<1> USE DEF Shape
<1>1. /\ \A i \in Instances :
           /\ row'[i].status = row[i].status /\ row'[i].phase = row[i].phase /\ row'[i].wake = Less(row[i].wake)
           /\ row'[i].results = row[i].results /\ row'[i].by = row[i].by
      /\ row' \in [Instances -> Rows] /\ lane' \in [Lanes -> LaneStates] /\ JobsKept
      /\ UNCHANGED <<def, signal, effects, older, faults>>
  BY TickFacts DEF Copy
<1>2. \A l \in Lanes :
         /\ lane'[l].at = lane[l].at /\ lane'[l].job = lane[l].job /\ lane'[l].used = lane[l].used
         /\ lane'[l].did = lane[l].did
         /\ lane'[l].timer = IF lane[l].at = "returning" THEN Less(lane[l].timer) ELSE lane[l].timer
         /\ lane'[l].work.status = lane[l].work.status /\ lane'[l].work.phase = lane[l].work.phase
         /\ lane'[l].work.wake = Less(lane[l].work.wake) /\ lane'[l].work.results = lane[l].work.results
         /\ lane'[l].work.by = lane[l].work.by
  BY TickFacts DEF Copy, State
<1>3. \A i \in Instances : Less(row[i].wake) = NoTime <=> row[i].wake = NoTime
  BY LessFacts DEF TypeOK, Rows
<1>4. \A l \in Lanes : Less(lane[l].work.wake) = NoTime <=> lane[l].work.wake = NoTime
  BY LaneTypes, LessFacts
<1>5. TypeOK'
  BY <1>1, <1>3 DEF TypeOK, JobsKept
<1>6. LanesHold'
  <2> SUFFICES ASSUME NEW l \in Lanes
               PROVE  HoldOK(lane'[l]) /\ (lane'[l].at # "idle" => job'[lane'[l].job].state # "none")
    BY DEF LanesHold, HoldOK
  <2>1. HoldOK(lane[l]) /\ (lane[l].at # "idle" => lane[l].job \in Jobs /\ job[lane[l].job].state # "none")
    BY LaneFacts
  <2> QED BY <1>1, <1>2, <2>1 DEF HoldOK, JobsKept
<1>7. \A l \in Lanes : lane[l].at # "idle" => Instance(l)' = Instance(l) /\ Instance(l) \in Instances
  BY <1>1, <1>2, LaneFacts DEF Instance, JobsKept
<1>8. RunsAlone'
  <2>1. \A l \in Lanes : lane'[l].at \in InRun => lane[l].at \in InRun /\ Instance(l)' = Instance(l)
    BY <1>2, <1>7 DEF InRun
  <2> QED BY <2>1 DEF RunsAlone
<1>9. RowsSound'
  BY <1>1, <1>3 DEF RowsSound, Sound
<1>10. RunsSound'
  <2> SUFFICES ASSUME NEW l \in Lanes, lane'[l].at \in InRun
               PROVE  RunOK(Instance(l), lane[l])'
    BY DEF RunsSound
  <2>1. /\ Instance(l)' = Instance(l) /\ Instance(l) \in Instances /\ RunOK(Instance(l), lane[l])
        /\ lane'[l].at = lane[l].at
    BY <1>2, <1>7 DEF RunsSound, InRun
  <2>2. Sound(def[Instance(l)], lane'[l].work)
    BY <1>2, <1>4, <2>1 DEF RunOK, Sound
  <2>3. lane[l].at = "suspending" => lane'[l].timer = lane[l].timer
    BY <1>2
  <2> QED BY <1>1, <1>2, <2>1, <2>2, <2>3 DEF RunOK
<1> QED BY <1>5, <1>6, <1>8, <1>9, <1>10

(***************************************************************************)
(* A step of a client, or the commit of a signal.                          *)
(***************************************************************************)
Clients ==
  \/ \E i \in Instances : Start(i)
  \/ Client
  \/ \E s \in Signals : SignalCommit(s)

LEMMA StartFacts ==
  ASSUME Shape, NEW i \in Instances, Start(i)
  PROVE  /\ row[i].status = "absent" /\ row[i] \in Rows
         /\ row' \in [Instances -> Rows] /\ \A m \in Instances \ {i} : row'[m] = row[m]
         /\ row'[i] = Copy("running", row[i].phase, row[i].wake, row[i].results, row[i].by)
         /\ \E j \in Jobs : IsNextJob(j) /\ job' = Enqueued(j, i, 0)
         /\ JobsKept
         /\ UNCHANGED <<def, signal, lane, effects, older, faults>>
<1> DEFINE r == [row[i] EXCEPT !.status = "running"]
<1>1. row[i].status = "absent" /\ row' = [row EXCEPT ![i] = r] /\ UNCHANGED <<def, signal, lane, effects, older, faults>>
  BY DEF Start, Shape, TypeOK
<1>2. row[i] \in Rows /\ row \in [Instances -> Rows]
  BY DEF Shape, TypeOK
<1>3. r \in Rows
  BY <1>2 DEF Rows, Live
<1>4. r.status = "running" /\ r.phase = row[i].phase /\ r.wake = row[i].wake /\ r.results = row[i].results /\ r.by = row[i].by
  BY <1>2 DEF Rows
<1> HIDE DEF r
<1>5. r = Copy("running", row[i].phase, row[i].wake, row[i].results, row[i].by)
  BY <1>3, <1>4, RowIsCopy
<1>6. PICK j \in Jobs : IsNextJob(j) /\ job' = Enqueued(j, i, 0)
  BY DEF Start
<1>7. JobsKept
  BY <1>6, EnqueuedKeeps DEF Shape
<1> QED BY <1>1, <1>2, <1>3, <1>5, <1>6, <1>7

(* A client's step moves at most one signal, and a job may come of it.     *)
LEMMA ClientsFacts ==
  ASSUME Shape, Clients
  PROVE  /\ UNCHANGED <<def, lane, effects>>
         /\ JobsKept /\ faults' \in 0..MaxFaults
         /\ signal' \in [Signals -> SignalRows] /\ older' \in [Signals -> SUBSET Signals]
         /\ \/ \E i \in Instances : Start(i)
            \/ row' = row
<1> USE DEF Shape
<1>1. ASSUME NEW i \in Instances, Start(i)
      PROVE  /\ UNCHANGED <<def, lane, effects>> /\ JobsKept /\ faults' \in 0..MaxFaults
             /\ signal' \in [Signals -> SignalRows] /\ older' \in [Signals -> SUBSET Signals]
  BY <1>1, StartFacts DEF TypeOK
<1>2. ASSUME NEW i \in Instances, NEW name \in SignalNames, SignalInsert(i, name)
      PROVE  /\ UNCHANGED <<def, lane, effects>> /\ JobsKept /\ faults' \in 0..MaxFaults /\ row' = row
             /\ signal' \in [Signals -> SignalRows] /\ older' \in [Signals -> SUBSET Signals]
  <2>1. PICK s \in Signals :
          /\ signal' = [signal EXCEPT ![s] = [state |-> "inserted", of |-> i, name |-> name]]
          /\ older' = [older EXCEPT ![s] = {r \in Signals : signal[r].state \in {"pending", "consumed"}}]
    BY <1>2 DEF SignalInsert
  <2>2. [state |-> "inserted", of |-> i, name |-> name] \in SignalRows
    BY DEF SignalRows
  <2>3. signal' \in [Signals -> SignalRows] /\ older' \in [Signals -> SUBSET Signals]
    BY <2>1, <2>2 DEF TypeOK
  <2>4. UNCHANGED <<def, row, job, lane, effects, faults>>
    BY <1>2 DEF SignalInsert
  <2> QED BY <2>3, <2>4 DEF TypeOK, JobsKept
<1>3. ASSUME NEW s \in Signals, SignalCommit(s) \/ SignalAbort(s)
      PROVE  /\ UNCHANGED <<def, lane, effects>> /\ JobsKept /\ faults' \in 0..MaxFaults /\ row' = row
             /\ signal' \in [Signals -> SignalRows] /\ older' \in [Signals -> SUBSET Signals]
  <2>1. UNCHANGED <<def, row, lane, effects, older>>
    BY <1>3 DEF SignalCommit, SignalAbort
  <2>2. signal[s].of \in Instances /\ signal' \in [Signals -> SignalRows]
    <3>1. signal \in [Signals -> SignalRows] /\ signal[s].of \in Instances
      BY DEF TypeOK, SignalRows
    <3>2. signal' = [signal EXCEPT ![s].state = "pending"] \/ signal' = [signal EXCEPT ![s].state = "aborted"]
      BY <1>3 DEF SignalCommit, SignalAbort
    <3> QED BY <3>1, <3>2 DEF SignalRows
  <2>3. JobsKept
    BY <1>3, <2>2, EnqueuedKeeps DEF SignalCommit, SignalAbort, TypeOK, JobsKept
  <2>4. faults' \in 0..MaxFaults
    BY <1>3, FaultFacts DEF SignalCommit, SignalAbort
  <2> QED BY <2>1, <2>2, <2>3, <2>4 DEF TypeOK
<1> QED BY <1>1, <1>2, <1>3 DEF Clients, Client

LEMMA ClientsShape ==
  ASSUME Shape, Clients
  PROVE  Shape'
<1> USE DEF Shape
<1>1. /\ UNCHANGED <<def, lane, effects>> /\ JobsKept /\ faults' \in 0..MaxFaults
      /\ signal' \in [Signals -> SignalRows] /\ older' \in [Signals -> SUBSET Signals]
  BY ClientsFacts
<1>2. \A i \in Instances :
        /\ row'[i] \in Rows /\ row'[i].phase = row[i].phase /\ row'[i].wake = row[i].wake
        /\ row'[i].results = row[i].results /\ row'[i].by = row[i].by
        /\ row'[i].status = row[i].status \/ (row[i].status = "absent" /\ row'[i].status = "running")
  <2>1. CASE row' = row
    BY <2>1 DEF TypeOK
  <2>2. ASSUME NEW m \in Instances, Start(m), NEW i \in Instances
        PROVE  /\ row'[i] \in Rows /\ row'[i].phase = row[i].phase /\ row'[i].wake = row[i].wake
               /\ row'[i].results = row[i].results /\ row'[i].by = row[i].by
               /\ row'[i].status = row[i].status \/ (row[i].status = "absent" /\ row'[i].status = "running")
    <3>1. /\ row[m].status = "absent" /\ row' \in [Instances -> Rows] /\ \A n \in Instances \ {m} : row'[n] = row[n]
          /\ row'[m] = Copy("running", row[m].phase, row[m].wake, row[m].results, row[m].by)
      BY <2>2, StartFacts
    <3>2. CASE i = m
      BY <3>1, <3>2 DEF Copy
    <3>3. CASE i # m
      BY <3>1, <3>3
    <3> QED BY <3>2, <3>3
  <2> QED BY <2>1, <2>2, ClientsFacts
<1>3. row' \in [Instances -> Rows]
  BY ClientsFacts, StartFacts DEF TypeOK
<1>4. TypeOK'
  BY <1>1, <1>2, <1>3 DEF TypeOK, JobsKept
<1>5. \A l \in Lanes : lane[l].at # "idle" => Instance(l)' = Instance(l) /\ Instance(l) \in Instances
  BY <1>1, LaneFacts DEF Instance, JobsKept
<1>6. LanesHold'
  BY <1>1, LaneFacts DEF LanesHold, HoldOK, JobsKept
<1>7. RunsAlone'
  BY <1>1, <1>5 DEF RunsAlone, InRun
<1>8. RowsSound'
  BY <1>1, <1>2 DEF RowsSound, Sound
<1>9. RunsSound'
  BY <1>1, <1>2, <1>5 DEF RunsSound, RunOK, Sound, InRun, Live
<1> QED BY <1>4, <1>6, <1>7, <1>8, <1>9

LEMMA StutterShape == ASSUME Shape, UNCHANGED vars PROVE Shape'
BY DEF Shape, TypeOK, LanesHold, HoldOK, RunsAlone, RowsSound, RunsSound, RunOK, Sound, Instance, vars

(* The steps of the module, in the groups that the proofs treat alike.     *)
LEMMA NextSteps ==
  ASSUME Next
  PROVE  \/ Clients \/ Tick
         \/ \E l \in Lanes : \/ Take(l) \/ ClaimLease(l) \/ Passes(l) \/ Commit(l)
                             \/ Throw(l) \/ ThrowAfterCommit(l) \/ Complete(l) \/ FailJob(l) \/ Crash(l)
BY DEF Next, Clients, Run, Settle, Passes

LEMMA ShapeStep == ASSUME Shape, [Next]_vars PROVE Shape'
BY NextSteps, ClientsShape, TickShape, TakeShape, ClaimShape, PassShape, CommitShape, LeaveShape, StutterShape

(* The five parts of Shape hold in every reachable state.                  *)
THEOREM ShapeInvariance == Spec => []Shape
BY ShapeInit, ShapeStep, PTL DEF Spec

(***************************************************************************)
(* Rows, signals, jobs and the lanes' copies keep their types, a row never *)
(* is more than one phase past the end of its program, and it has a time   *)
(* to wake up at only while it is suspended, and always while it sleeps.   *)
(***************************************************************************)
THEOREM TypeCorrect == Spec => []TypeOK
BY ShapeInvariance, PTL DEF Shape
-----------------------------------------------------------------------------
LEMMA ActInit == Init => ActInv
<1> SUFFICES ASSUME Init PROVE ActInv
  OBVIOUS
<1>1. RunsAct
  BY BlankFacts DEF RunsAct, Init, InRun
<1>2. \A i \in Instances : def[i] \in Definitions /\ row[i] = Blank /\ effects[i] = [k \in Acts |-> 0]
  BY DEF Init
<1>3. \A d \in Definitions : \A k \in ActsOf(d) : k \in Acts /\ k \in Nat /\ ~(k < 1)
  BY ProgramFacts
<1>4. \A k : Behind(Blank, k) <=> k < 1
  BY DEF Behind, Blank
<1>5. ActionsOnce
  <2>1. \A i \in Instances : \A k \in ActsOf(def[i]) : effects[i][k] = 0 /\ ~Behind(row[i], k)
    BY <1>2, <1>3, <1>4
  <2>2. \A i \in Instances, k \in Acts : ~(effects[i][k] > 0)
    BY <1>2
  <2> QED BY <2>1, <2>2 DEF ActionsOnce
<1> QED BY <1>1, <1>5 DEF ActInv

(***************************************************************************)
(* A step that leaves a lane at a with the copy w performs the actions in  *)
(* fresh: exactly those that the copy gets past.                           *)
(***************************************************************************)
ActMove(l, a, w, fresh) ==
  /\ fresh \subseteq ActsOf(Definition(l))
  /\ \A k \in fresh : ~Behind(lane[l].work, k) /\ lane[l].at # "unsignalled"
  /\ \A k \in ActsOf(Definition(l)) :
       (Behind(w, k) \/ (a = "unsignalled" /\ k = w.phase)) <=>
         (Behind(lane[l].work, k) \/ (lane[l].at = "unsignalled" /\ k = lane[l].work.phase) \/ k \in fresh)
  /\ lane[l].work.results \subseteq w.results
  /\ ~Definition(l).runBased => fresh \subseteq w.results

LEMMA ActStep ==
  ASSUME Shape, ActInv, NEW l \in Lanes, lane[l].at \in InRun, OwnStep,
         NEW a, NEW w, NEW u, NEW t, NEW fresh, NEW d, d = lane[l].did \cup fresh,
         Becomes(l, State(l, a, w, u, d, t)), ActMove(l, a, w, fresh)
  PROVE  ActInv'
<1> DEFINE i == Instance(l)
           v == State(l, a, w, u, d, t)
<1>1. v.at = a /\ v.work = w /\ v.did = d /\ v.job = lane[l].job
  BY DEF State
<1>2. lane' = [lane EXCEPT ![l] = v] /\ UNCHANGED <<def, row, job, effects>>
  BY DEF Becomes, OwnStep
<1>3. lane'[l] = v /\ \A m \in Lanes \ {l} : lane'[m] = lane[m]
  BY <1>2 DEF Shape, TypeOK
<1>4. \A m \in Lanes : Instance(m)' = Instance(m)
  BY <1>1, <1>2, <1>3 DEF Instance
<1>5. ActionsOnce' /\ ActionsOnce
  BY <1>2 DEF ActInv, ActionsOnce
<1>6. i \in Instances /\ ActsOK(i, lane[l]) /\ Definition(l) = def[i]
  BY LaneFacts DEF Shape, ActInv, RunsAct, InRun, Definition
<1> HIDE DEF v
<1>7. ActsOK(i, v)
  <2>1. \A k \in ActsOf(def[i]) : effects[i][k] = IF Behind(row[i], k) THEN 1 ELSE 0
    BY <1>5, <1>6 DEF ActionsOnce
  <2>2. \A k \in fresh : effects[i][k] = 0
    BY <1>6, <2>1 DEF ActsOK, ActMove
  <2>3. \A k \in v.did : effects[i][k] = 0
    BY <1>1, <1>6, <2>2 DEF ActsOK
  <2>4. \A k \in ActsOf(def[i]) :
          (effects[i][k] = 1 \/ k \in v.did) <=> (Behind(v.work, k) \/ (v.at = "unsignalled" /\ k = v.work.phase))
    BY <1>1, <1>6 DEF ActsOK, ActMove
  <2>5. ~def[i].runBased => v.did \cup row[i].results \subseteq v.work.results
    BY <1>1, <1>6 DEF ActsOK, ActMove
  <2> QED BY <2>3, <2>4, <2>5 DEF ActsOK
<1>8. RunsAct'
  <2> SUFFICES ASSUME NEW m \in Lanes, lane'[m].at \in InRun
               PROVE  ActsOK(Instance(m), lane[m])'
    BY DEF RunsAct, InRun
  <2>1. CASE m = l
    BY <1>2, <1>3, <1>4, <1>7, <2>1 DEF ActsOK, Behind
  <2>2. CASE m # l
    BY <1>2, <1>3, <1>4, <2>2 DEF ActsOK, Behind, ActInv, RunsAct
  <2> QED BY <2>1, <2>2
<1> QED BY <1>5, <1>8 DEF ActInv

LEMMA ActKeep ==
  ASSUME Shape, ActInv, NEW l \in Lanes, lane[l].at \in InRun, OwnStep,
         NEW a, NEW w, NEW u, NEW t, Becomes(l, State(l, a, w, u, lane[l].did, t)), ActMove(l, a, w, {})
  PROVE  ActInv'
<1>1. lane[l].did = lane[l].did \cup {}
  OBVIOUS
<1> QED BY <1>1, ActStep

LEMMA PassActs ==
  ASSUME Shape, ActInv, NEW l \in Lanes, Passes(l)
  PROVE  ActInv'
<1> DEFINE v == lane[l]
           w == v.work
           p == w.phase
           d == Definition(l)
<1>1. OwnStep /\ v.at \in InRun /\ p \in Nat
  BY PassIsInRun, LaneTypes DEF Shape
<1>2. Sound(d, w) /\ d \in Definitions /\ RunOK(Instance(l), v)
  BY <1>1, LaneFacts DEF Shape, RunsSound, RunOK, Definition, InRun
<1>3. ActsOf(d) \subseteq Nat /\ WaitsOf(d) \subseteq 1..Len(d.program)
  BY <1>2, ProgramFacts
<1>4. v.at = "running" => w.status \in {"running", "sleeping", "waiting_signal"}
  BY <1>2 DEF RunOK, Live
<1>5. p \in WaitsOf(d) => p <= Len(d.program) /\ Performed(l) = (ActsOf(d) \cap {p}) \ w.results
                          /\ (p \in ActsOf(d) => d.runBased)
  <2>1. p \in WaitsOf(d) => p <= Len(d.program)
    BY <1>3
  <2> QED BY <1>1, <2>1, PhaseFacts DEF Shape
<1> HIDE DEF v, w, p, d
(* What it means that the copy is past an action. *)
<1>6. \A k : Behind(w, k) <=> (k < p \/ k \in w.results \/ (k = p /\ w.status = "failed"))
  BY DEF Behind, p
<1>7. ASSUME NEW st, NEW ph, NEW wk, NEW rs, NEW passed, NEW k
      PROVE  Behind(Copy(st, ph, wk, rs, passed), k) <=> (k < ph \/ k \in rs \/ (k = ph /\ st = "failed"))
  BY DEF Behind, Copy
<1>8. \A st, ph, wk, rs, passed : Copy(st, ph, wk, rs, passed).results = rs /\ Copy(st, ph, wk, rs, passed).phase = ph
  BY DEF Copy
<1>9. CASE Wake(l)
  <2> DEFINE x == Copy("running", p, NoTime, w.results, w.by)
  <2>1. /\ v.at = "running" /\ w.status = "sleeping"
        /\ \/ Becomes(l, State(l, "running", x, v.used, v.did, v.timer))
           \/ Becomes(l, State(l, "returning", w, v.used, v.did, v.timer))
    BY <1>9, WakeFacts DEF v, w, p
  <2>2. \A k \in ActsOf(d) : Behind(x, k) <=> Behind(w, k)
    BY <1>6, <1>7, <2>1
  <2>3. x.results = w.results
    BY <1>8
  <2> HIDE DEF x
  <2>4. CASE Becomes(l, State(l, "running", x, v.used, v.did, v.timer))
    <3>1. ActMove(l, "running", x, {})
      BY <2>1, <2>2, <2>3 DEF ActMove, v, w, d
    <3> QED BY <1>1, <2>4, <3>1, ActKeep DEF v
  <2>5. CASE Becomes(l, State(l, "returning", w, v.used, v.did, v.timer))
    <3>1. ActMove(l, "returning", w, {})
      BY <2>1 DEF ActMove, v, w, d
    <3> QED BY <1>1, <2>5, <3>1, ActKeep DEF v
  <2> QED BY <2>1, <2>4, <2>5
<1>10. CASE Finish(l)
  <2> DEFINE x == Copy("completed", p, NoTime, w.results, w.by)
  <2>1. /\ v.at = "running" /\ w.status # "sleeping"
        /\ Becomes(l, State(l, "returning", x, v.used, v.did, v.timer))
    BY <1>10, FinishFacts DEF v, w, p
  <2>2. x.results = w.results /\ \A k \in ActsOf(d) : Behind(x, k) <=> Behind(w, k)
    BY <1>4, <1>6, <1>7, <1>8, <2>1
  <2> HIDE DEF x
  <2>3. ActMove(l, "returning", x, {})
    BY <2>1, <2>2 DEF ActMove, v, w, d
  <2> QED BY <1>1, <2>1, <2>3, ActKeep DEF v
<1>11. CASE Act(l)
  <2> DEFINE x == Copy("running", p + 1, NoTime, w.results \cup {p}, w.by)
  <2>1. /\ v.at = "running" /\ w.status # "sleeping" /\ p \in ActsOf(d) /\ p \notin WaitsOf(d)
        /\ Becomes(l, State(l, "running", x, v.used, v.did \cup {p}, v.timer))
    BY <1>11, ActFacts DEF v, w, p, d
  <2>2. ~Behind(w, p)
    BY <1>1, <1>2, <1>4, <1>6, <2>1 DEF Sound, p
  <2>3. x.results = w.results \cup {p} /\ \A k \in ActsOf(d) : Behind(x, k) <=> (Behind(w, k) \/ k = p)
    BY <1>1, <1>3, <1>4, <1>6, <1>7, <1>8, <2>1
  <2> HIDE DEF x
  <2> DEFINE fresh == {p}
  <2>4. fresh \subseteq ActsOf(d) /\ (\A k \in fresh : ~Behind(w, k)) /\ fresh \subseteq x.results /\ w.results \subseteq x.results
    BY <2>1, <2>2, <2>3
  <2>5. \A k \in ActsOf(d) : Behind(x, k) <=> (Behind(w, k) \/ k \in fresh)
    BY <2>3
  <2>6. Becomes(l, State(l, "running", x, v.used, v.did \cup fresh, v.timer))
    BY <2>1
  <2> HIDE DEF fresh
  <2>7. ActMove(l, "running", x, fresh)
    BY <2>1, <2>4, <2>5 DEF ActMove, v, w, d
  <2> QED BY <1>1, <2>6, <2>7, ActStep DEF v
<1>12. CASE Sleep(l)
  <2> DEFINE delay == Current(l).delay
             x == Copy("running", p + 1, NoTime, w.results, w.by)
             y == Copy("sleeping", p + 1, delay, w.results, w.by)
  <2>1. /\ v.at = "running" /\ w.status # "sleeping" /\ p \notin ActsOf(d)
        /\ \/ Becomes(l, State(l, "running", x, v.used, v.did, v.timer))
           \/ Becomes(l, State(l, "suspending", y, v.used, v.did, delay))
    BY <1>12, SleepFacts DEF v, w, p, d
  <2>2. /\ x.results = w.results /\ y.results = w.results
        /\ \A k \in ActsOf(d) : (Behind(x, k) <=> Behind(w, k)) /\ (Behind(y, k) <=> Behind(w, k))
    BY <1>1, <1>3, <1>4, <1>6, <1>7, <1>8, <2>1
  <2> HIDE DEF x, y, delay
  <2>3. CASE Becomes(l, State(l, "running", x, v.used, v.did, v.timer))
    <3>1. ActMove(l, "running", x, {})
      BY <2>1, <2>2 DEF ActMove, v, w, d
    <3> QED BY <1>1, <2>3, <3>1, ActKeep DEF v
  <2>4. CASE Becomes(l, State(l, "suspending", y, v.used, v.did, delay))
    <3>1. ActMove(l, "suspending", y, {})
      BY <2>1, <2>2 DEF ActMove, v, w, d
    <3> QED BY <1>1, <2>4, <3>1, ActKeep DEF v
  <2> QED BY <2>1, <2>3, <2>4
<1>13. ASSUME p \in WaitsOf(d), v.at = "running", w.status # "sleeping"
       PROVE  /\ Performed(l) \subseteq ActsOf(d) /\ \A k \in Performed(l) : ~Behind(w, k)
              /\ ~d.runBased => Performed(l) = {}
              /\ \A k \in ActsOf(d) : (k < p + 1 \/ k \in w.results) <=> (Behind(w, k) \/ k \in Performed(l))
              /\ \A k \in ActsOf(d) : (Behind(w, k) \/ k = p) <=> (Behind(w, k) \/ k \in Performed(l))
  <2>1. w.status # "failed"
    BY <1>4, <1>13
  <2> QED BY <1>1, <1>3, <1>5, <1>6, <1>13, <2>1
<1>14. CASE TakeSignal(l)
  <2>1. PICK s \in Signals :
          Becomes(l, State(l, "running", Copy("running", p + 1, NoTime, w.results, [w.by EXCEPT ![p] = s]),
                           v.used \cup {s}, v.did \cup Performed(l), v.timer))
    BY <1>14, TakeSignalFacts DEF v, w, p
  <2> DEFINE x == Copy("running", p + 1, NoTime, w.results, [w.by EXCEPT ![p] = s])
  <2>2. v.at = "running" /\ w.status # "sleeping" /\ p \in WaitsOf(d)
    BY <1>14, TakeSignalFacts DEF v, w, p, d
  <2>3. x.results = w.results /\ \A k \in ActsOf(d) : Behind(x, k) <=> (Behind(w, k) \/ k \in Performed(l))
    BY <1>7, <1>8, <1>13, <2>2
  <2>4. Becomes(l, State(l, "running", x, v.used \cup {s}, v.did \cup Performed(l), v.timer))
    BY <2>1
  <2> HIDE DEF x
  <2>5. ActMove(l, "running", x, Performed(l))
    BY <1>13, <2>2, <2>3 DEF ActMove, v, w, d
  <2> QED BY <1>1, <2>4, <2>5, ActStep DEF v
<1>15. CASE FindNoSignal(l)
  <2>1. /\ v.at = "running" /\ w.status # "sleeping" /\ p \in WaitsOf(d)
        /\ Becomes(l, State(l, "unsignalled", w, v.used, v.did \cup Performed(l), v.timer))
    BY <1>15, FindNoSignalFacts DEF v, w, p, d
  <2>2. ActMove(l, "unsignalled", w, Performed(l))
    BY <1>13, <2>1 DEF ActMove, v, w, d, p
  <2> QED BY <1>1, <2>1, <2>2, ActStep DEF v
<1>16. CASE Suspend(l)
  <2> DEFINE delay == Current(l).delay
             x == Copy("waiting_signal", p, delay, w.results \cup Performed(l), w.by)
  <2>1. PICK a \in {"returning", "suspending"} : Becomes(l, State(l, a, x, v.used, v.did, delay))
    BY <1>16, SuspendFacts DEF v, w, p
  <2>2. v.at = "unsignalled" /\ w.status = "running" /\ p \in WaitsOf(d)
    BY <1>16, SuspendFacts, UnsignalledFacts DEF v, w, p, d
  <2>3. /\ w.results \subseteq x.results
        /\ \A k \in ActsOf(d) : Behind(x, k) <=> (Behind(w, k) \/ k = p)
    BY <1>3, <1>5, <1>6, <1>7, <1>8, <2>2
  <2> HIDE DEF x, delay
  <2>4. ActMove(l, a, x, {})
    BY <2>1, <2>2, <2>3 DEF ActMove, v, w, d, p
  <2> QED BY <1>1, <2>1, <2>4, ActKeep DEF v
<1>17. CASE StillWaiting(l)
  <2>1. v.at = "unsignalled" /\ w.status = "waiting_signal"
        /\ Becomes(l, State(l, "returning", w, v.used, v.did, v.timer))
    BY <1>17, StillWaitingFacts DEF v, w
  <2>2. \A k \in ActsOf(d) : k = p => Behind(w, k)
    BY <1>2, <1>6, <2>1 DEF Sound, p
  <2>3. ActMove(l, "returning", w, {})
    BY <2>1, <2>2 DEF ActMove, v, w, d, p
  <2> QED BY <1>1, <2>1, <2>3, ActKeep DEF v
<1>18. CASE Continue(l)
  <2> DEFINE x == Copy("running", p + 1, NoTime, w.results, [w.by EXCEPT ![p] = ByTimeout])
  <2>1. v.at = "unsignalled" /\ Becomes(l, State(l, "running", x, v.used, v.did, v.timer))
    BY <1>18, ContinueFacts DEF v, w, p
  <2>2. w.status # "failed"
    BY <2>1, UnsignalledFacts DEF v, w
  <2>3. x.results = w.results /\ \A k \in ActsOf(d) : Behind(x, k) <=> (Behind(w, k) \/ k = p)
    BY <1>1, <1>3, <1>6, <1>7, <1>8, <2>2
  <2> HIDE DEF x
  <2>4. ActMove(l, "running", x, {})
    BY <2>1, <2>3 DEF ActMove, v, w, d, p
  <2> QED BY <1>1, <2>1, <2>4, ActKeep DEF v
<1>19. CASE FailInstance(l)
  <2> DEFINE x == Copy("failed", p, NoTime, w.results, w.by)
  <2>1. v.at = "unsignalled" /\ Becomes(l, State(l, "returning", x, v.used, v.did, v.timer))
    BY <1>19, FailInstanceFacts DEF v, w, p
  <2>2. x.results = w.results /\ \A k \in ActsOf(d) : Behind(x, k) <=> (Behind(w, k) \/ k = p)
    BY <1>1, <1>3, <1>6, <1>7, <1>8
  <2> HIDE DEF x
  <2>3. ActMove(l, "returning", x, {})
    BY <2>1, <2>2 DEF ActMove, v, w, d, p
  <2> QED BY <1>1, <2>1, <2>3, ActKeep DEF v
<1>20. CASE EnqueueTimer(l)
  <2>1. v.at = "suspending" /\ Becomes(l, State(l, "returning", w, v.used, v.did, v.timer))
    BY <1>20, EnqueueTimerFacts DEF v, w
  <2>2. ActMove(l, "returning", w, {})
    BY <2>1 DEF ActMove, v, w, d
  <2> QED BY <1>1, <2>1, <2>2, ActKeep DEF v
<1> QED BY <1>9, <1>10, <1>11, <1>12, <1>14, <1>15, <1>16, <1>17, <1>18, <1>19, <1>20 DEF Passes

(* A step after which lane l is not in a run, or has just begun one.       *)
LEMMA OutActs ==
  ASSUME Shape, ActInv, NEW l \in Lanes, NEW v, lane' = [lane EXCEPT ![l] = v], JobsKept,
         UNCHANGED <<def, row, effects>>,
         v.at \in InRun => /\ v.at # "unsignalled" /\ v.did = {} /\ v.job = lane[l].job /\ lane[l].at # "idle"
                           /\ v.work = row[Instance(l)]
  PROVE  ActInv'
<1>1. lane'[l] = v /\ \A m \in Lanes \ {l} : lane'[m] = lane[m]
  BY DEF Shape, TypeOK
<1>2. ActionsOnce' /\ ActionsOnce
  BY DEF ActInv, ActionsOnce
<1>3. RunsAct'
  <2> SUFFICES ASSUME NEW m \in Lanes, lane'[m].at \in InRun
               PROVE  ActsOK(Instance(m), lane[m])'
    BY DEF RunsAct, InRun
  <2>1. /\ lane[m].at # "idle" /\ lane[m].job \in Jobs /\ job[lane[m].job].state # "none" /\ Instance(m) \in Instances
        /\ lane'[m].job = lane[m].job
    BY <1>1, LaneFacts DEF Shape, InRun
  <2>2. Instance(m)' = Instance(m)
    BY <2>1 DEF Instance, JobsKept
  <2>3. CASE m = l
    <3>1. \A k \in ActsOf(def[Instance(m)]) : effects[Instance(m)][k] = 1 <=> Behind(row[Instance(m)], k)
      BY <1>2, <2>1 DEF ActionsOnce
    <3>2. v.work = row[Instance(m)] /\ v.did = {} /\ v.at # "unsignalled"
      BY <1>1, <2>3
    <3>3. ActsOK(Instance(m), v)
      BY <3>1, <3>2 DEF ActsOK
    <3> QED BY <1>1, <2>2, <2>3, <3>3 DEF ActsOK, Behind
  <2>4. CASE m # l
    BY <1>1, <2>2, <2>4 DEF ActsOK, Behind, ActInv, RunsAct
  <2> QED BY <2>3, <2>4
<1> QED BY <1>2, <1>3 DEF ActInv

(* The steps after which a lane is not in a run.                           *)
LEMMA OutLane ==
  ASSUME Shape, NEW l \in Lanes,
         Take(l) \/ Throw(l) \/ ThrowAfterCommit(l) \/ Complete(l) \/ FailJob(l) \/ Crash(l)
  PROVE  \E v : lane' = [lane EXCEPT ![l] = v] /\ v.at \notin InRun
<1>1. lane[l] \in LaneStates /\ Idle \in LaneStates /\ Idle.at = "idle" /\ lane \in [Lanes -> LaneStates]
  BY LaneFacts, BlankFacts DEF Shape, TypeOK
<1>2. CASE Take(l)
  <2>1. PICK j \in Jobs :
          lane' = [lane EXCEPT ![l] = [Idle EXCEPT !.at = "taken", !.job = j, !.tries = job[j].tries + 1]]
    BY <1>2 DEF Take
  <2>2. [Idle EXCEPT !.at = "taken", !.job = j, !.tries = job[j].tries + 1].at = "taken"
    BY <1>1 DEF LaneStates
  <2> QED BY <2>1, <2>2 DEF InRun
<1>3. CASE Throw(l)
  <2>1. Left(l, "failed").at = "failed"
    BY <1>1 DEF Left, LaneStates
  <2> QED BY <1>3, <2>1 DEF Throw, InRun
<1>4. CASE ThrowAfterCommit(l)
  <2>1. lane' = [lane EXCEPT ![l] = [lane[l] EXCEPT !.at = "failed"]]
    BY <1>1, <1>4 DEF ThrowAfterCommit
  <2>2. [lane[l] EXCEPT !.at = "failed"].at = "failed"
    BY <1>1 DEF LaneStates
  <2> QED BY <2>1, <2>2 DEF InRun
<1>5. CASE Complete(l) \/ FailJob(l) \/ Crash(l)
  BY <1>1, <1>5 DEF Complete, FailJob, Crash, InRun
<1> QED BY <1>2, <1>3, <1>4, <1>5

LEMMA OutJobs ==
  ASSUME Shape, NEW l \in Lanes,
         Take(l) \/ Throw(l) \/ ThrowAfterCommit(l) \/ Complete(l) \/ FailJob(l) \/ Crash(l)
  PROVE  JobsKept
<1>1. CASE Take(l)
  <2>1. PICK j \in Jobs : Deliverable(j) /\ job' = [job EXCEPT ![j].state = "taken", ![j].tries = @ + 1]
    BY <1>1 DEF Take
  <2>2. job \in [Jobs -> JobRows] /\ job[j].tries \in Nat /\ job[j].tries + 1 \in Nat
    BY DEF Shape, TypeOK, JobRows
  <2> QED BY <2>1, <2>2 DEF JobsKept, JobRows
<1>2. CASE ~Take(l)
  BY <1>2, LeaveJobs
<1> QED BY <1>1, <1>2

LEMMA LaneActs ==
  ASSUME Shape, ActInv, NEW l \in Lanes,
         \/ Take(l) \/ ClaimLease(l) \/ Throw(l) \/ ThrowAfterCommit(l) \/ Complete(l) \/ FailJob(l) \/ Crash(l)
  PROVE  ActInv'
<1>1. UNCHANGED <<def, row, effects>>
  BY DEF Take, ClaimLease, Throw, ThrowAfterCommit, Complete, FailJob, Crash
<1>2. CASE ClaimLease(l)
  <2>1. PICK a \in {"running", "committed"} : Becomes(l, State(l, a, row[Instance(l)], {}, {}, NoTime))
    BY <1>2, ClaimFacts
  <2> DEFINE v == State(l, a, row[Instance(l)], {}, {}, NoTime)
  <2>2. v.at = a /\ v.did = {} /\ v.job = lane[l].job /\ v.work = row[Instance(l)] /\ lane' = [lane EXCEPT ![l] = v]
    BY <2>1 DEF State, Becomes
  <2>3. lane[l].at # "idle" /\ JobsKept
    BY <1>2 DEF ClaimLease, JobsKept, Shape, TypeOK
  <2> HIDE DEF v
  <2> QED BY <1>1, <2>2, <2>3, OutActs
<1>3. CASE ~ClaimLease(l)
  <2>1. Take(l) \/ Throw(l) \/ ThrowAfterCommit(l) \/ Complete(l) \/ FailJob(l) \/ Crash(l)
    BY <1>3
  <2>2. \E v : lane' = [lane EXCEPT ![l] = v] /\ v.at \notin InRun
    BY <2>1, OutLane
  <2>3. JobsKept
    BY <2>1, OutJobs
  <2> QED BY <1>1, <2>2, <2>3, OutActs
<1> QED BY <1>2, <1>3

LEMMA CommitActs ==
  ASSUME Shape, ActInv, NEW l \in Lanes, Commit(l)
  PROVE  ActInv'
<1> DEFINE i == Instance(l)
           v == lane[l]
<1>1. /\ v.at = "returning" /\ v.at \in InRun /\ v \in LaneStates
      /\ i \in Instances /\ v.job \in Jobs /\ job[v.job].state # "none" /\ def[i] \in Definitions
      /\ row' = [row EXCEPT ![i] = v.work]
      /\ effects' \in [Instances -> [Acts -> Nat]]
      /\ \A k \in Acts : effects'[i][k] = IF k \in v.did THEN effects[i][k] + 1 ELSE effects[i][k]
      /\ \A m \in Instances \ {i} : effects'[m] = effects[m] /\ row'[m] = row[m]
      /\ lane' = [lane EXCEPT ![l] = Left(l, "committed")]
      /\ UNCHANGED <<def, older, faults>>
      /\ \A m \in Lanes \ {l} : lane'[m] = lane[m]
      /\ \A m \in Lanes \ {l} : lane[m].at # "idle" => Instance(m)' = Instance(m) /\ Instance(m) \in Instances
      /\ \A m \in Lanes \ {l} : lane[m].at \in InRun => Instance(m) # i
  BY CommitFacts
<1>2. row'[i] = v.work /\ lane'[l] = Left(l, "committed") /\ lane'[l].at = "committed"
  BY <1>1, LeftFacts DEF Shape, TypeOK, InRun
<1>3. /\ \A k \in v.did : effects[i][k] = 0
      /\ \A k \in ActsOf(def[i]) : (effects[i][k] = 1 \/ k \in v.did) <=> Behind(v.work, k)
      /\ ~def[i].runBased => v.did \cup row[i].results \subseteq v.work.results
  BY <1>1 DEF ActInv, RunsAct, ActsOK
<1>4. \A k \in ActsOf(def[i]) : k \in Acts /\ effects[i][k] \in {0, 1}
  BY <1>1, ProgramFacts DEF ActInv, ActionsOnce
<1> HIDE DEF i, v
<1>5. \A k \in ActsOf(def[i]) : effects'[i][k] = IF Behind(row'[i], k) THEN 1 ELSE 0
  BY <1>1, <1>2, <1>3, <1>4
<1>6. \A k \in Acts : ~def[i].runBased /\ effects'[i][k] > 0 => k \in row'[i].results
  <2> TAKE k \in Acts
  <2>1. ~def[i].runBased /\ effects[i][k] > 0 => k \in row[i].results
    BY <1>1 DEF ActInv, ActionsOnce
  <2>2. k \notin v.did => effects'[i][k] = effects[i][k]
    BY <1>1
  <2> QED BY <1>2, <1>3, <2>1, <2>2
<1>7. ActionsOnce'
  <2> SUFFICES ASSUME NEW m \in Instances
               PROVE  /\ \A k \in ActsOf(def[m]) : effects'[m][k] = IF Behind(row'[m], k) THEN 1 ELSE 0
                      /\ \A k \in Acts : ~def[m].runBased /\ effects'[m][k] > 0 => k \in row'[m].results
    BY <1>1 DEF ActionsOnce, Behind
  <2>1. CASE m = i
    BY <1>5, <1>6, <2>1
  <2>2. CASE m # i
    BY <1>1, <2>2 DEF ActInv, ActionsOnce
  <2> QED BY <2>1, <2>2
<1>8. RunsAct'
  <2> SUFFICES ASSUME NEW m \in Lanes, lane'[m].at \in InRun
               PROVE  ActsOK(Instance(m), lane[m])'
    BY DEF RunsAct, InRun
  <2>1. m \in Lanes \ {l}
    BY <1>2 DEF InRun
  <2>2. lane'[m] = lane[m] /\ Instance(m)' = Instance(m) /\ Instance(m) \in Instances \ {i}
    BY <1>1, <2>1 DEF InRun
  <2>3. effects'[Instance(m)] = effects[Instance(m)] /\ row'[Instance(m)] = row[Instance(m)] /\ def' = def
    BY <1>1, <2>2
  <2>4. ActsOK(Instance(m), lane[m])
    BY <2>2 DEF ActInv, RunsAct
  <2> QED BY <2>2, <2>3, <2>4 DEF ActsOK, Behind
<1> QED BY <1>7, <1>8 DEF ActInv

(* Behind looks at the status, the phase and the results of a row.         *)
LEMMA BehindSame ==
  ASSUME NEW w, NEW x, x.phase = w.phase, x.results = w.results, x.status = "failed" <=> w.status = "failed"
  PROVE  \A k : Behind(x, k) <=> Behind(w, k)
BY DEF Behind

(* A step that moves no instance and no run.                               *)
LEMMA StillActs ==
  ASSUME Shape, ActInv, UNCHANGED <<def, effects>>, JobsKept,
         \A i \in Instances : /\ row'[i].phase = row[i].phase /\ row'[i].results = row[i].results
                              /\ row'[i].status = "failed" <=> row[i].status = "failed",
         \A l \in Lanes : /\ lane'[l].at = lane[l].at /\ lane'[l].job = lane[l].job /\ lane'[l].did = lane[l].did
                          /\ lane'[l].work.phase = lane[l].work.phase
                          /\ lane'[l].work.results = lane[l].work.results
                          /\ lane'[l].work.status = lane[l].work.status
  PROVE  ActInv'
<1>1. \A i \in Instances : \A k : Behind(row'[i], k) <=> Behind(row[i], k)
  BY BehindSame
<1>2. \A l \in Lanes : \A k : Behind(lane'[l].work, k) <=> Behind(lane[l].work, k)
  BY BehindSame
<1>3. ActionsOnce'
  <2>1. ActionsOnce
    BY DEF ActInv
  <2>2. \A i \in Instances : \A k \in ActsOf(def[i]) : effects[i][k] = IF Behind(row'[i], k) THEN 1 ELSE 0
    BY <1>1, <2>1 DEF ActionsOnce
  <2>3. \A i \in Instances, k \in Acts : ~def[i].runBased /\ effects[i][k] > 0 => k \in row'[i].results
    BY <2>1 DEF ActionsOnce
  <2> QED BY <2>2, <2>3 DEF ActionsOnce, Behind
<1>4. RunsAct'
  <2> SUFFICES ASSUME NEW l \in Lanes, lane'[l].at \in InRun
               PROVE  ActsOK(Instance(l), lane[l])'
    BY DEF RunsAct, InRun
  <2>1. Instance(l)' = Instance(l) /\ Instance(l) \in Instances /\ ActsOK(Instance(l), lane[l])
    BY LaneFacts DEF Shape, InRun, Instance, JobsKept, ActInv, RunsAct
  <2>2. \A k : Behind(lane[l].work, k)' <=> Behind(lane[l].work, k)
    BY <1>2 DEF Behind
  <2>3. \A k \in lane[l].did : effects[Instance(l)][k] = 0
    BY <2>1 DEF ActsOK
  <2>4. \A k \in ActsOf(def[Instance(l)]) :
          (effects[Instance(l)][k] = 1 \/ k \in lane[l].did) <=>
            (Behind(lane[l].work, k)' \/ (lane[l].at = "unsignalled" /\ k = lane[l].work.phase))
    BY <2>1, <2>2 DEF ActsOK
  <2>5. ~def[Instance(l)].runBased => lane[l].did \cup row'[Instance(l)].results \subseteq lane'[l].work.results
    BY <2>1 DEF ActsOK
  <2>6. lane'[l].did = lane[l].did /\ lane'[l].at = lane[l].at /\ lane'[l].work.phase = lane[l].work.phase
    OBVIOUS
  <2> QED BY <2>1, <2>3, <2>4, <2>5, <2>6 DEF ActsOK, Behind
<1> QED BY <1>3, <1>4 DEF ActInv

LEMMA OtherActs ==
  ASSUME Shape, ActInv, Tick \/ Clients \/ UNCHANGED vars
  PROVE  ActInv'
<1>1. UNCHANGED <<def, effects>> /\ JobsKept
  BY TickFacts, ClientsFacts DEF vars, JobsKept, Shape, TypeOK
<1>2. \A i \in Instances : /\ row'[i].phase = row[i].phase /\ row'[i].results = row[i].results
                           /\ row'[i].status = "failed" <=> row[i].status = "failed"
  <2>1. CASE Tick
    BY <2>1, TickFacts DEF Copy
  <2>2. CASE row' = row
    BY <2>2
  <2>3. ASSUME NEW m \in Instances, Start(m), NEW i \in Instances
        PROVE  /\ row'[i].phase = row[i].phase /\ row'[i].results = row[i].results
               /\ row'[i].status = "failed" <=> row[i].status = "failed"
    <3>1. /\ row[m].status = "absent" /\ \A n \in Instances \ {m} : row'[n] = row[n]
          /\ row'[m] = Copy("running", row[m].phase, row[m].wake, row[m].results, row[m].by)
      BY <2>3, StartFacts
    <3> QED BY <3>1 DEF Copy
  <2> QED BY <2>1, <2>2, <2>3, ClientsFacts DEF vars
<1>3. \A l \in Lanes : /\ lane'[l].at = lane[l].at /\ lane'[l].job = lane[l].job /\ lane'[l].did = lane[l].did
                       /\ lane'[l].work.phase = lane[l].work.phase
                       /\ lane'[l].work.results = lane[l].work.results
                       /\ lane'[l].work.status = lane[l].work.status
  <2>1. CASE Tick
    BY <2>1, TickFacts DEF State, Copy
  <2>2. CASE lane' = lane
    BY <2>2
  <2> QED BY <2>1, <2>2, ClientsFacts DEF vars
<1> QED BY <1>1, <1>2, <1>3, StillActs

LEMMA ActInvStep == ASSUME Shape, ActInv, [Next]_vars PROVE ActInv'
BY NextSteps, PassActs, LaneActs, CommitActs, OtherActs

(***************************************************************************)
(* The action of a phase has committed once when its instance is past it   *)
(* and not before, whatever fails, crashes or is delivered twice; and a    *)
(* steps-based instance has the result of each one that has committed.     *)
(***************************************************************************)
THEOREM ActionsCommitOnce == Spec => []ActionsOnce
BY ShapeInit, ShapeStep, ActInit, ActInvStep, PTL DEF Spec, ActInv
-----------------------------------------------------------------------------
(***************************************************************************)
(* The waits: which signal passes one, when a timeout does, and that a job *)
(* comes for what an instance still has to do.                             *)
(***************************************************************************)
(* Signal s is one for the wait in phase k of instance i. *)
Mine(i, k, s) == signal[s].of = i /\ signal[s].name = def[i].program[k].signal
Gone == {s \in Signals : signal[s].state = "consumed"}

(* Of two signals for one wait, the older one is in gone if the other is.  *)
InTurn(gone) ==
  \A s \in gone : \A r \in older[s] :
    signal[r].of = signal[s].of /\ signal[r].name = signal[s].name => r \in gone

(* The signals are numbered as they are inserted. *)
Numbered ==
  /\ \A s, r \in Signals : signal[s].state = "none" /\ s < r => signal[r].state = "none"
  /\ \A s \in Signals : \A r \in older[s] : r < s /\ signal[r].state \in {"pending", "consumed"}

(* No signal passes two waits. *)
Distinct(passed) == \A k, m \in Waits : passed[k] \in Signals /\ passed[m] = passed[k] => k = m

(* A signal has been consumed by the wait whose row names it. *)
RowsConsume ==
  /\ \A i \in Instances, k \in Waits : LET s == row[i].by[k] IN
       s \in Signals => signal[s].state = "consumed" /\ Mine(i, k, s)
  /\ \A i \in Instances : Distinct(row[i].by)
  /\ \A s \in Signals : signal[s].state = "consumed" => \E k \in Waits : row[signal[s].of].by[k] = s
  /\ InTurn(Gone)

(* A run keeps what has passed in the row and adds what it has used.       *)
Consumes(i, v) ==
  /\ \A s \in v.used : signal[s].state = "pending" /\ signal[s].of = i /\ \E k \in Waits : v.work.by[k] = s
  /\ \A k \in Waits : LET s == v.work.by[k] IN s \in Signals => Mine(i, k, s) /\ (s \in v.used \/ row[i].by[k] = s)
  /\ \A k \in Waits : row[i].by[k] # ByNothing => v.work.by[k] = row[i].by[k]
  /\ Distinct(v.work.by)
  /\ InTurn(Gone \cup v.used)

RunsConsume == \A l \in Lanes : lane[l].at \in InRun => Consumes(Instance(l), lane[l])

SignalInv == Numbered /\ RowsConsume /\ RunsConsume
-----------------------------------------------------------------------------
LEMMA SignalInit == Init => SignalInv
<1> SUFFICES ASSUME Init PROVE SignalInv
  OBVIOUS
<1>1. \A s \in Signals : signal[s] = NoSignal /\ signal[s].state = "none" /\ older[s] = {}
  BY DEF Init, NoSignal
<1>2. \A i \in Instances, k \in Waits : row[i].by[k] \notin Signals
  BY DEF Init, Blank, ByNothing, Signals
<1>3. Gone = {}
  BY <1>1 DEF Gone
<1>4. RunsConsume
  BY BlankFacts DEF RunsConsume, Init, InRun
<1>5. Numbered
  BY <1>1 DEF Numbered
<1>6. RowsConsume
  BY <1>1, <1>2, <1>3 DEF RowsConsume, Distinct, InTurn
<1> QED BY <1>4, <1>5, <1>6 DEF SignalInv

(* What the invariant says of the property. *)
LEMMA SignalInvGives == ASSUME Shape, SignalInv PROVE SignalsOnce
<1> SUFFICES ASSUME NEW s \in Signals
             PROVE  LET passed == {w \in Instances \X Waits : row[w[1]].by[w[2]] = s} IN
                    /\ Cardinality(passed) = IF signal[s].state = "consumed" THEN 1 ELSE 0
                    /\ \A w \in passed : signal[s].of = w[1] /\ signal[s].name = def[w[1]].program[w[2]].signal
                    /\ signal[s].state = "consumed" =>
                         \A r \in older[s] :
                           signal[r].of = signal[s].of /\ signal[r].name = signal[s].name => signal[r].state = "consumed"
  BY DEF SignalsOnce
<1> DEFINE passed == {w \in Instances \X Waits : row[w[1]].by[w[2]] = s}
<1>1. \A w \in passed : /\ w[1] \in Instances /\ w[2] \in Waits /\ w = <<w[1], w[2]>>
                        /\ row[w[1]].by[w[2]] = s
  OBVIOUS
<1>2. \A w \in passed : signal[s].state = "consumed" /\ Mine(w[1], w[2], s)
  BY <1>1 DEF SignalInv, RowsConsume
<1>3. signal[s].state = "consumed" => Cardinality(passed) = 1
  <2> SUFFICES ASSUME signal[s].state = "consumed" PROVE Cardinality(passed) = 1
    OBVIOUS
  <2>1. signal[s].of \in Instances
    BY DEF Shape, TypeOK, SignalRows
  <2>2. PICK k \in Waits : row[signal[s].of].by[k] = s
    BY DEF SignalInv, RowsConsume
  <2>3. <<signal[s].of, k>> \in passed
    BY <2>1, <2>2
  <2>4. \A w \in passed : w = <<signal[s].of, k>>
    <3> TAKE w \in passed
    <3>1. w[1] = signal[s].of
      BY <1>2 DEF Mine
    <3>2. w[2] = k
      BY <1>1, <2>1, <2>2, <3>1 DEF SignalInv, RowsConsume, Distinct
    <3> QED BY <1>1, <3>1, <3>2
  <2> HIDE DEF passed
  <2>5. passed = {<<signal[s].of, k>>}
    BY <2>3, <2>4
  <2> QED BY <2>5, FS_Singleton
<1>4. signal[s].state # "consumed" => Cardinality(passed) = 0
  <2> SUFFICES ASSUME signal[s].state # "consumed" PROVE Cardinality(passed) = 0
    OBVIOUS
  <2>1. passed = {}
    BY <1>2
  <2> QED BY <2>1, FS_EmptySet
<1>5. signal[s].state = "consumed" =>
        \A r \in older[s] :
          signal[r].of = signal[s].of /\ signal[r].name = signal[s].name => signal[r].state = "consumed"
  BY DEF SignalInv, RowsConsume, InTurn, Gone
<1>6. \A w \in passed : signal[s].of = w[1] /\ signal[s].name = def[w[1]].program[w[2]].signal
  BY <1>2 DEF Mine
<1> HIDE DEF passed
<1> QED BY <1>3, <1>4, <1>5, <1>6 DEF passed
-----------------------------------------------------------------------------
(* A step of one lane that leaves rows and signals alone.                  *)
LEMMA SignalLane ==
  ASSUME Shape, SignalInv, NEW l \in Lanes, NEW v, lane' = [lane EXCEPT ![l] = v], JobsKept,
         UNCHANGED <<def, row, signal, older>>,
         v.at \in InRun => lane[l].at # "idle" /\ v.job = lane[l].job /\ Consumes(Instance(l), v)
  PROVE  SignalInv'
<1>1. lane'[l] = v /\ \A m \in Lanes \ {l} : lane'[m] = lane[m]
  BY DEF Shape, TypeOK
<1>2. Numbered'
  BY DEF SignalInv, Numbered
<1>3. RowsConsume'
  BY DEF SignalInv, RowsConsume, Mine, Distinct, InTurn, Gone
<1>4. RunsConsume'
  <2> SUFFICES ASSUME NEW m \in Lanes, lane'[m].at \in InRun
               PROVE  Consumes(Instance(m), lane[m])'
    BY DEF RunsConsume, InRun
  <2>1. lane[m].at # "idle" /\ lane'[m].job = lane[m].job /\ Consumes(Instance(m), lane'[m])
    BY <1>1 DEF SignalInv, RunsConsume, InRun
  <2>2. Instance(m)' = Instance(m)
    BY <2>1, LaneFacts DEF Instance, JobsKept, Shape
  <2> QED BY <2>1, <2>2 DEF Consumes, Mine, Distinct, InTurn, Gone
<1> QED BY <1>2, <1>3, <1>4 DEF SignalInv

LEMMA ClaimSignals ==
  ASSUME Shape, SignalInv, NEW l \in Lanes, ClaimLease(l)
  PROVE  SignalInv'
<1> DEFINE i == Instance(l)
<1>1. PICK a \in {"running", "committed"} : Becomes(l, State(l, a, row[i], {}, {}, NoTime))
  BY ClaimFacts
<1>2. lane[l].at = "taken" /\ i \in Instances /\ UNCHANGED <<def, row, signal, job, effects, older, faults>>
  BY ClaimFacts
<1> DEFINE v == State(l, a, row[i], {}, {}, NoTime)
<1>3. v.work = row[i] /\ v.used = {} /\ v.job = lane[l].job /\ lane' = [lane EXCEPT ![l] = v]
  BY <1>1 DEF State, Becomes
<1> HIDE DEF v
<1>4. Consumes(i, v)
  <2>1. Gone \cup v.used = Gone
    BY <1>3
  <2>2. InTurn(Gone) /\ Distinct(row[i].by) /\ \A k \in Waits : row[i].by[k] \in Signals => Mine(i, k, row[i].by[k])
    BY <1>2 DEF SignalInv, RowsConsume
  <2> QED BY <1>3, <2>1, <2>2 DEF Consumes
<1>5. JobsKept
  BY <1>2 DEF JobsKept, Shape, TypeOK
<1> QED BY <1>2, <1>3, <1>4, <1>5, SignalLane

LEMMA OutSignals ==
  ASSUME Shape, SignalInv, NEW l \in Lanes,
         Take(l) \/ Throw(l) \/ ThrowAfterCommit(l) \/ Complete(l) \/ FailJob(l) \/ Crash(l)
  PROVE  SignalInv'
<1>1. PICK v : lane' = [lane EXCEPT ![l] = v] /\ v.at \notin InRun
  BY OutLane
<1>2. JobsKept
  BY OutJobs
<1>3. UNCHANGED <<def, row, signal, older>>
  BY DEF Take, Throw, ThrowAfterCommit, Complete, FailJob, Crash
<1> QED BY <1>1, <1>2, <1>3, SignalLane
-----------------------------------------------------------------------------
(* A pass that lets no signal and no timeout pass a wait.                  *)
LEMMA SignalKeep ==
  ASSUME Shape, SignalInv, NEW l \in Lanes, lane[l].at \in InRun, OwnStep,
         NEW a, NEW w, NEW d, NEW t, Becomes(l, State(l, a, w, lane[l].used, d, t)), w.by = lane[l].work.by
  PROVE  SignalInv'
<1> DEFINE v == State(l, a, w, lane[l].used, d, t)
<1>1. v.work = w /\ v.used = lane[l].used /\ v.job = lane[l].job /\ lane' = [lane EXCEPT ![l] = v]
  BY DEF State, Becomes
<1> HIDE DEF v
<1>2. Consumes(Instance(l), lane[l])
  BY DEF SignalInv, RunsConsume
<1>3. Consumes(Instance(l), v)
  BY <1>1, <1>2 DEF Consumes
<1>4. JobsKept /\ UNCHANGED <<def, row, signal, older>> /\ lane[l].at # "idle"
  BY DEF OwnStep, JobsKept, Shape, TypeOK, InRun
<1> QED BY <1>1, <1>3, <1>4, SignalLane

(* The wait in the current phase has not been passed yet. *)
LEMMA NotPassed ==
  ASSUME Shape, SignalInv, NEW l \in Lanes, lane[l].at \in InRun, lane[l].work.phase \in WaitsOf(Definition(l))
  PROVE  LET p == lane[l].work.phase IN
         /\ p \in Waits /\ Instance(l) \in Instances /\ Definition(l) = def[Instance(l)]
         /\ lane[l].work.by[p] = ByNothing /\ row[Instance(l)].by[p] = ByNothing
         /\ lane[l].work.by \in [Waits -> 0..ByTimeout]
<1> DEFINE p == lane[l].work.phase
<1>1. Instance(l) \in Instances /\ Definition(l) = def[Instance(l)] /\ Definition(l) \in Definitions
  BY LaneFacts DEF Shape, InRun, Definition
<1>2. p \in Waits /\ p \in Nat /\ lane[l].work.by \in [Waits -> 0..ByTimeout]
  BY <1>1, ProgramFacts, LaneTypes DEF Shape
<1>3. Sound(Definition(l), lane[l].work)
  BY <1>1 DEF Shape, RunsSound, RunOK
<1>4. lane[l].work.by[p] = ByNothing
  BY <1>2, <1>3 DEF Sound
<1>5. row[Instance(l)].by[p] = ByNothing
  BY <1>2, <1>4 DEF SignalInv, RunsConsume, Consumes
<1> QED BY <1>1, <1>2, <1>4, <1>5

LEMMA ContinueSignals ==
  ASSUME Shape, SignalInv, NEW l \in Lanes, Continue(l)
  PROVE  SignalInv'
<1> DEFINE w == lane[l].work
           p == w.phase
           i == Instance(l)
           passed == [w.by EXCEPT ![p] = ByTimeout]
           v == State(l, "running", Copy("running", p + 1, NoTime, w.results, passed), lane[l].used, lane[l].did,
                      lane[l].timer)
<1>1. lane[l].at = "unsignalled" /\ lane' = [lane EXCEPT ![l] = v]
  BY ContinueFacts DEF Becomes
<1>2. lane[l].at \in InRun /\ p \in WaitsOf(Definition(l))
  BY <1>1, UnsignalledFacts
<1>3. p \in Waits /\ i \in Instances /\ row[i].by[p] = ByNothing /\ w.by \in [Waits -> 0..ByTimeout]
  BY <1>2, NotPassed
<1>4. ByTimeout \notin Signals
  BY WorkflowAssumption DEF ByTimeout, Signals
<1>5. v.work.by = passed /\ v.used = lane[l].used /\ v.job = lane[l].job
  BY DEF State, Copy
<1>6. Consumes(i, lane[l])
  BY <1>2 DEF SignalInv, RunsConsume
<1>7. \A k \in Waits : passed[k] = IF k = p THEN ByTimeout ELSE w.by[k]
  BY <1>3
<1>8. JobsKept /\ UNCHANGED <<def, row, signal, older>>
  BY DEF Continue, OwnStep, JobsKept, Shape, TypeOK
<1> HIDE DEF v, passed, p
<1>9. Consumes(i, v)
  <2>1. \A s \in v.used : signal[s].state = "pending" /\ signal[s].of = i /\ \E k \in Waits : v.work.by[k] = s
    <3> TAKE s \in v.used
    <3>1. PICK k \in Waits : w.by[k] = s
      BY <1>5, <1>6 DEF Consumes
    <3>2. s \in Signals /\ w.by[p] = ByNothing
      BY <1>2, <1>5, LaneTypes, NotPassed DEF Shape, p
    <3>3. passed[k] = s
      BY <1>7, <3>1, <3>2 DEF ByNothing, Signals
    <3> QED BY <1>5, <1>6, <3>3 DEF Consumes
  <2>2. \A k \in Waits : LET s == v.work.by[k] IN s \in Signals => Mine(i, k, s) /\ (s \in v.used \/ row[i].by[k] = s)
    BY <1>4, <1>5, <1>6, <1>7 DEF Consumes
  <2>3. \A k \in Waits : row[i].by[k] # ByNothing => v.work.by[k] = row[i].by[k]
    BY <1>3, <1>5, <1>6, <1>7 DEF Consumes
  <2>4. Distinct(v.work.by)
    BY <1>4, <1>5, <1>6, <1>7 DEF Consumes, Distinct
  <2>5. InTurn(Gone \cup v.used)
    BY <1>5, <1>6 DEF Consumes
  <2> QED BY <2>1, <2>2, <2>3, <2>4, <2>5 DEF Consumes
<1>10. lane[l].at # "idle"
  BY <1>1
<1> QED BY <1>1, <1>5, <1>8, <1>9, <1>10, SignalLane

LEMMA TakeSignalSignals ==
  ASSUME Shape, SignalInv, NEW l \in Lanes, TakeSignal(l)
  PROVE  SignalInv'
<1> DEFINE w == lane[l].work
           p == w.phase
           i == Instance(l)
<1>1. lane[l].at = "running" /\ lane[l].at \in InRun /\ p \in WaitsOf(Definition(l))
  BY TakeSignalFacts DEF InRun
<1>2. PICK s \in Signals :
        /\ IsFirstPending(l, s)
        /\ Becomes(l, State(l, "running", Copy("running", p + 1, NoTime, w.results, [w.by EXCEPT ![p] = s]),
                            lane[l].used \cup {s}, lane[l].did \cup Performed(l), lane[l].timer))
  BY TakeSignalFacts
<1> DEFINE passed == [w.by EXCEPT ![p] = s]
           v == State(l, "running", Copy("running", p + 1, NoTime, w.results, passed), lane[l].used \cup {s},
                      lane[l].did \cup Performed(l), lane[l].timer)
<1>3. /\ p \in Waits /\ i \in Instances /\ row[i].by[p] = ByNothing /\ w.by[p] = ByNothing
      /\ w.by \in [Waits -> 0..ByTimeout] /\ Definition(l) = def[i]
  BY <1>1, NotPassed
<1>4. /\ signal[s].state = "pending" /\ signal[s].of = i /\ signal[s].name = def[i].program[p].signal
      /\ s \notin lane[l].used /\ \A r \in Pending(l) : s <= r
  BY <1>2, <1>3 DEF IsFirstPending, Pending, Current
<1>5. v.work.by = passed /\ v.used = lane[l].used \cup {s} /\ v.job = lane[l].job /\ lane' = [lane EXCEPT ![l] = v]
  BY <1>2 DEF State, Copy, Becomes
<1>6. Consumes(i, lane[l])
  BY <1>1 DEF SignalInv, RunsConsume
<1>7. \A k \in Waits : passed[k] = IF k = p THEN s ELSE w.by[k]
  BY <1>3
<1>8. JobsKept /\ UNCHANGED <<def, row, signal, older>>
  BY DEF TakeSignal, OwnStep, JobsKept, Shape, TypeOK
<1>9. \A k \in Waits : w.by[k] # s
  BY <1>3, <1>4, <1>6 DEF Consumes, SignalInv, RowsConsume
<1>10. InTurn(Gone \cup lane[l].used \cup {s})
  <2> SUFFICES ASSUME NEW r \in older[s], signal[r].of = signal[s].of, signal[r].name = signal[s].name
               PROVE  r \in Gone \cup lane[l].used
    BY <1>6 DEF InTurn, Consumes
  <2>1. r \in Signals /\ r < s /\ signal[r].state \in {"pending", "consumed"}
    BY DEF SignalInv, Numbered, Shape, TypeOK
  <2>2. CASE signal[r].state = "consumed"
    BY <2>1, <2>2 DEF Gone
  <2>3. CASE signal[r].state = "pending" /\ r \notin lane[l].used
    <3>1. r \in Pending(l)
      BY <1>3, <1>4, <2>1, <2>3 DEF Pending, Current
    <3> QED BY <1>4, <2>1, <3>1 DEF Signals
  <2> QED BY <2>1, <2>2, <2>3
<1> HIDE DEF v, passed, p
<1>11. Consumes(i, v)
  <2>1. \A r \in v.used : signal[r].state = "pending" /\ signal[r].of = i /\ \E k \in Waits : v.work.by[k] = r
    <3> TAKE r \in v.used
    <3>1. CASE r = s
      BY <1>3, <1>4, <1>5, <1>7, <3>1
    <3>2. CASE r # s
      <4>1. r \in lane[l].used /\ r \in Signals
        BY <1>5, <3>2, LaneTypes DEF Shape
      <4>2. signal[r].state = "pending" /\ signal[r].of = i
        BY <1>6, <4>1 DEF Consumes
      <4>3. PICK k \in Waits : w.by[k] = r
        BY <1>6, <4>1 DEF Consumes
      <4>4. k # p
        BY <1>3, <4>1, <4>3 DEF ByNothing, Signals
      <4> QED BY <1>5, <1>7, <4>2, <4>3, <4>4
    <3> QED BY <3>1, <3>2
  <2>2. \A k \in Waits : LET r == v.work.by[k] IN r \in Signals => Mine(i, k, r) /\ (r \in v.used \/ row[i].by[k] = r)
    <3> TAKE k \in Waits
    <3>1. CASE k = p
      BY <1>4, <1>5, <1>7, <3>1 DEF Mine
    <3>2. CASE k # p
      BY <1>5, <1>6, <1>7, <3>2 DEF Consumes
    <3> QED BY <3>1, <3>2
  <2>3. \A k \in Waits : row[i].by[k] # ByNothing => v.work.by[k] = row[i].by[k]
    BY <1>3, <1>5, <1>6, <1>7 DEF Consumes
  <2>4. Distinct(v.work.by)
    BY <1>5, <1>6, <1>7, <1>9 DEF Consumes, Distinct
  <2>5. Gone \cup v.used = Gone \cup lane[l].used \cup {s}
    BY <1>5
  <2> QED BY <1>10, <2>1, <2>2, <2>3, <2>4, <2>5 DEF Consumes
<1>12. lane[l].at # "idle"
  BY <1>1
<1> QED BY <1>5, <1>8, <1>11, <1>12, SignalLane

LEMMA PassSignals ==
  ASSUME Shape, SignalInv, NEW l \in Lanes, Passes(l)
  PROVE  SignalInv'
<1> DEFINE v == lane[l]
           w == v.work
           p == w.phase
<1>1. OwnStep /\ lane[l].at \in InRun
  BY PassIsInRun
<1>2. \A st, ph, wk, rs : Copy(st, ph, wk, rs, w.by).by = w.by
  BY DEF Copy
<1> HIDE DEF v, w, p
<1>3. CASE Wake(l) \/ StillWaiting(l) \/ EnqueueTimer(l) \/ FindNoSignal(l)
  <2>1. \/ \E a, d : Becomes(l, State(l, a, w, v.used, d, v.timer))
        \/ \E a : Becomes(l, State(l, a, Copy("running", p, NoTime, w.results, w.by), v.used, v.did, v.timer))
    BY <1>3, WakeFacts, StillWaitingFacts, EnqueueTimerFacts, FindNoSignalFacts DEF v, w, p
  <2> QED BY <1>1, <1>2, <2>1, SignalKeep DEF v, w
<1>4. CASE Finish(l)
  <2>1. Becomes(l, State(l, "returning", Copy("completed", p, NoTime, w.results, w.by), v.used, v.did, v.timer))
    BY <1>4, FinishFacts DEF v, w, p
  <2> QED BY <1>1, <1>2, <2>1, SignalKeep DEF v, w
<1>5. CASE Act(l)
  <2>1. Becomes(l, State(l, "running", Copy("running", p + 1, NoTime, w.results \cup {p}, w.by), v.used, v.did \cup {p},
                         v.timer))
    BY <1>5, ActFacts DEF v, w, p
  <2> QED BY <1>1, <1>2, <2>1, SignalKeep DEF v, w
<1>6. CASE Sleep(l)
  <2>1. \/ Becomes(l, State(l, "running", Copy("running", p + 1, NoTime, w.results, w.by), v.used, v.did, v.timer))
        \/ \E delay : Becomes(l, State(l, "suspending", Copy("sleeping", p + 1, delay, w.results, w.by), v.used, v.did, delay))
    BY <1>6, SleepFacts DEF v, w, p
  <2> QED BY <1>1, <1>2, <2>1, SignalKeep DEF v, w
<1>7. CASE Suspend(l)
  <2>1. \E a, rs, delay : Becomes(l, State(l, a, Copy("waiting_signal", p, delay, rs, w.by), v.used, v.did, delay))
    BY <1>7, SuspendFacts DEF v, w, p
  <2> QED BY <1>1, <1>2, <2>1, SignalKeep DEF v, w
<1>8. CASE FailInstance(l)
  <2>1. Becomes(l, State(l, "returning", Copy("failed", p, NoTime, w.results, w.by), v.used, v.did, v.timer))
    BY <1>8, FailInstanceFacts DEF v, w, p
  <2> QED BY <1>1, <1>2, <2>1, SignalKeep DEF v, w
<1> QED BY <1>3, <1>4, <1>5, <1>6, <1>7, <1>8, TakeSignalSignals, ContinueSignals DEF Passes
-----------------------------------------------------------------------------
(* What a commit consumes are signals of its own instance, no other run's. *)
LEMMA CommitSignals ==
  ASSUME Shape, SignalInv, NEW l \in Lanes, Commit(l)
  PROVE  SignalInv'
<1> DEFINE i == Instance(l)
           v == lane[l]
<1>1. /\ v.at \in InRun /\ i \in Instances /\ v.used \in SUBSET Signals
      /\ row' = [row EXCEPT ![i] = v.work]
      /\ \A s \in Signals : /\ signal'[s].state = IF s \in v.used THEN "consumed" ELSE signal[s].state
                            /\ signal'[s].of = signal[s].of /\ signal'[s].name = signal[s].name
      /\ \A m \in Instances \ {i} : row'[m] = row[m]
      /\ lane' = [lane EXCEPT ![l] = Left(l, "committed")]
      /\ UNCHANGED <<def, older>>
      /\ \A m \in Lanes \ {l} : lane'[m] = lane[m]
      /\ \A m \in Lanes \ {l} : lane[m].at # "idle" => Instance(m)' = Instance(m) /\ Instance(m) \in Instances
      /\ \A m \in Lanes \ {l} : lane[m].at \in InRun => Instance(m) # i
  BY CommitFacts, LaneTypes DEF Shape
<1>2. row'[i] = v.work /\ lane'[l] = Left(l, "committed") /\ lane'[l].at \notin InRun
  BY <1>1, LeftFacts DEF Shape, TypeOK, InRun
<1>3. Consumes(i, v)
  BY <1>1 DEF SignalInv, RunsConsume
<1>4. older \in [Signals -> SUBSET Signals] /\ signal \in [Signals -> SignalRows]
  BY DEF Shape, TypeOK
<1> HIDE DEF i, v
<1>5. Gone' = Gone \cup v.used
  BY <1>1 DEF Gone
<1>6. \A m \in Instances, k \in Waits, s \in Signals :
        Mine(m, k, s) => signal'[s].of = m /\ signal'[s].name = def'[m].program[k].signal
  BY <1>1 DEF Mine
<1>7. ASSUME NEW gone \in SUBSET Signals, InTurn(gone)
      PROVE  \A s \in gone : \A r \in older[s] :
               signal'[r].of = signal'[s].of /\ signal'[r].name = signal'[s].name => r \in gone
  <2> SUFFICES ASSUME NEW s \in gone, NEW r \in older[s],
                      signal'[r].of = signal'[s].of, signal'[r].name = signal'[s].name
               PROVE  r \in gone
    OBVIOUS
  <2>1. s \in Signals /\ r \in Signals
    BY <1>4, <1>7
  <2> QED BY <1>1, <1>7, <2>1 DEF InTurn
<1>8. Numbered'
  <2>1. \A s \in Signals : signal'[s].state = "none" <=> signal[s].state = "none"
    BY <1>1, <1>3 DEF Consumes
  <2>2. \A s \in Signals : signal[s].state \in {"pending", "consumed"} => signal'[s].state \in {"pending", "consumed"}
    BY <1>1
  <2> QED BY <1>1, <1>4, <2>1, <2>2 DEF Numbered, SignalInv
<1>9. RowsConsume'
  <2>1. ASSUME NEW m \in Instances, NEW k \in Waits, row'[m].by[k] \in Signals
        PROVE  LET s == row'[m].by[k] IN
               signal'[s].state = "consumed" /\ signal'[s].of = m /\ signal'[s].name = def'[m].program[k].signal
    <3> DEFINE s == row'[m].by[k]
    <3>1. CASE m = i
      <4>1. Mine(i, k, s) /\ (s \in v.used \/ row[i].by[k] = s)
        BY <1>2, <1>3, <2>1, <3>1 DEF Consumes
      <4>2. row[i].by[k] = s => signal[s].state = "consumed"
        BY <1>1, <2>1, <3>1 DEF SignalInv, RowsConsume
      <4> QED BY <1>1, <1>6, <2>1, <3>1, <4>1, <4>2
    <3>2. CASE m # i
      <4>1. row'[m] = row[m] /\ signal[s].state = "consumed" /\ Mine(m, k, s)
        BY <1>1, <2>1, <3>2 DEF SignalInv, RowsConsume
      <4> QED BY <1>1, <1>6, <2>1, <4>1
    <3> QED BY <3>1, <3>2
  <2>2. \A m \in Instances : Distinct(row'[m].by)
    <3> TAKE m \in Instances
    <3>1. CASE m = i
      BY <1>2, <1>3, <3>1 DEF Consumes
    <3>2. CASE m # i
      BY <1>1, <3>2 DEF SignalInv, RowsConsume
    <3> QED BY <3>1, <3>2
  <2>3. ASSUME NEW s \in Signals, signal'[s].state = "consumed"
        PROVE  \E k \in Waits : row'[signal'[s].of].by[k] = s
    <3>1. signal'[s].of = signal[s].of /\ signal[s].of \in Instances
      BY <1>1, <1>4 DEF SignalRows
    <3>2. CASE s \in v.used
      BY <1>2, <1>3, <3>1, <3>2 DEF Consumes
    <3>3. CASE s \notin v.used
      <4>1. PICK k \in Waits : row[signal[s].of].by[k] = s
        BY <1>1, <2>3, <3>3 DEF SignalInv, RowsConsume
      <4>2. CASE signal[s].of = i
        <5>1. row[i].by[k] # ByNothing
          BY <4>1, <4>2 DEF ByNothing, Signals
        <5>2. v.work.by[k] = s
          BY <1>3, <4>1, <4>2, <5>1 DEF Consumes
        <5> QED BY <1>2, <3>1, <4>2, <5>2
      <4>3. CASE signal[s].of # i
        BY <1>1, <3>1, <4>1, <4>3
      <4> QED BY <4>2, <4>3
    <3> QED BY <3>2, <3>3
  <2>4. \A s \in Gone' : \A r \in older[s] :
          signal'[r].of = signal'[s].of /\ signal'[r].name = signal'[s].name => r \in Gone'
    <3>1. InTurn(Gone \cup v.used) /\ Gone \cup v.used \in SUBSET Signals
      BY <1>1, <1>3 DEF Consumes, Gone
    <3> QED BY <1>1, <1>5, <1>7, <3>1
  <2> QED BY <1>1, <2>1, <2>2, <2>3, <2>4 DEF RowsConsume, Mine, Distinct, InTurn
<1>10. RunsConsume'
  <2> SUFFICES ASSUME NEW m \in Lanes, lane'[m].at \in InRun
               PROVE  Consumes(Instance(m), lane[m])'
    BY DEF RunsConsume, InRun
  <2> DEFINE n == Instance(m)
             u == lane[m]
  <2>1. m # l
    BY <1>2 DEF InRun
  <2>2. lane'[m] = u /\ Instance(m)' = n /\ n \in Instances /\ n # i /\ row'[n] = row[n] /\ u.at \in InRun
    BY <1>1, <2>1 DEF InRun
  <2>3. Consumes(n, u) /\ u.used \in SUBSET Signals
    BY <2>2, LaneTypes DEF SignalInv, RunsConsume, Shape
  <2> HIDE DEF n, u
  <2>4. \A s \in u.used : s \notin v.used
    BY <1>3, <2>2, <2>3 DEF Consumes
  <2>5. \A s \in u.used : signal'[s].state = "pending" /\ signal'[s].of = n /\ \E k \in Waits : u.work.by[k] = s
    BY <1>1, <2>3, <2>4 DEF Consumes
  <2>6. \A k \in Waits : LET s == u.work.by[k] IN
          s \in Signals => /\ signal'[s].of = n /\ signal'[s].name = def'[n].program[k].signal
                           /\ (s \in u.used \/ row'[n].by[k] = s)
    <3> TAKE k \in Waits
    <3>1. u.work.by[k] \in Signals =>
            Mine(n, k, u.work.by[k]) /\ (u.work.by[k] \in u.used \/ row'[n].by[k] = u.work.by[k])
      BY <2>2, <2>3 DEF Consumes
    <3> QED BY <1>6, <2>2, <3>1
  <2>7. \A k \in Waits : row'[n].by[k] # ByNothing => u.work.by[k] = row'[n].by[k]
    BY <2>2, <2>3 DEF Consumes
  <2>8. Distinct(u.work.by)
    BY <2>3 DEF Consumes
  <2>9. InTurn(Gone \cup v.used \cup u.used) /\ Gone \cup v.used \cup u.used \in SUBSET Signals
    BY <1>1, <1>3, <2>3 DEF Consumes, InTurn, Gone
  <2>10. \A s \in Gone' \cup u.used : \A r \in older[s] :
           signal'[r].of = signal'[s].of /\ signal'[r].name = signal'[s].name => r \in Gone' \cup u.used
    BY <1>5, <1>7, <2>9
  <2>11. InTurn(Gone \cup lane[m].used)'
    BY <1>1, <2>2, <2>10 DEF InTurn
  <2> QED BY <2>2, <2>5, <2>6, <2>7, <2>8, <2>11 DEF Consumes, Mine, Distinct
<1> QED BY <1>8, <1>9, <1>10 DEF SignalInv
-----------------------------------------------------------------------------
(* A step that moves no signal and passes no wait.                         *)
LEMMA StillSignals ==
  ASSUME Shape, SignalInv, UNCHANGED <<def, signal, older>>, JobsKept,
         \A i \in Instances : row'[i].by = row[i].by,
         \A l \in Lanes : /\ lane'[l].at = lane[l].at /\ lane'[l].job = lane[l].job /\ lane'[l].used = lane[l].used
                          /\ lane'[l].work.by = lane[l].work.by
  PROVE  SignalInv'
<1>1. Numbered'
  BY DEF SignalInv, Numbered
<1>2. \A s \in Signals : signal[s].of \in Instances
  BY DEF Shape, TypeOK, SignalRows
<1>3. RowsConsume'
  BY <1>2 DEF SignalInv, RowsConsume, Mine, Distinct, InTurn, Gone
<1>4. RunsConsume'
  <2> SUFFICES ASSUME NEW l \in Lanes, lane'[l].at \in InRun
               PROVE  Consumes(Instance(l), lane[l])'
    BY DEF RunsConsume, InRun
  <2>1. Instance(l)' = Instance(l) /\ Instance(l) \in Instances /\ Consumes(Instance(l), lane[l])
    BY LaneFacts DEF Shape, InRun, Instance, JobsKept, SignalInv, RunsConsume
  <2> QED BY <2>1 DEF Consumes, Mine, Distinct, InTurn, Gone
<1> QED BY <1>1, <1>3, <1>4 DEF SignalInv

(* A step of a client with one signal that nobody sees yet.                *)
LEMMA SignalFrame ==
  ASSUME Shape, SignalInv, UNCHANGED <<def, row, lane>>, JobsKept, Numbered',
         \A s \in Signals : signal[s].state \in {"pending", "consumed"} => signal'[s] = signal[s] /\ older'[s] = older[s],
         \A s \in Signals : signal'[s].state = "consumed" => signal[s].state = "consumed"
  PROVE  SignalInv'
<1>1. older \in [Signals -> SUBSET Signals]
  BY DEF Shape, TypeOK
<1>2. Gone' = Gone /\ Gone \in SUBSET Signals /\ \A s \in Gone : signal[s].state \in {"pending", "consumed"}
  BY DEF Gone
<1>3. ASSUME NEW gone \in SUBSET Signals, \A s \in gone : signal[s].state \in {"pending", "consumed"}, InTurn(gone)
      PROVE  \A s \in gone : \A r \in older'[s] :
               signal'[r].of = signal'[s].of /\ signal'[r].name = signal'[s].name => r \in gone
  <2> SUFFICES ASSUME NEW s \in gone, NEW r \in older'[s],
                      signal'[r].of = signal'[s].of, signal'[r].name = signal'[s].name
               PROVE  r \in gone
    OBVIOUS
  <2>1. s \in Signals /\ older'[s] = older[s] /\ r \in Signals /\ signal'[s] = signal[s]
    BY <1>1, <1>3
  <2>2. signal'[r] = signal[r]
    BY <2>1 DEF SignalInv, Numbered
  <2> QED BY <1>3, <2>1, <2>2 DEF InTurn
<1>4. \A i \in Instances, k \in Waits, s \in Signals :
        Mine(i, k, s) /\ signal[s].state \in {"pending", "consumed"} => Mine(i, k, s)'
  BY DEF Mine
<1>5. RowsConsume'
  <2>1. \A i \in Instances, k \in Waits : LET s == row[i].by[k] IN
          s \in Signals => signal'[s].state = "consumed" /\ Mine(i, k, s)'
    BY <1>4 DEF SignalInv, RowsConsume
  <2>2. \A i \in Instances : Distinct(row[i].by)
    BY DEF SignalInv, RowsConsume
  <2>3. \A s \in Signals : signal'[s].state = "consumed" => \E k \in Waits : row[signal'[s].of].by[k] = s
    BY DEF SignalInv, RowsConsume
  <2>4. InTurn(Gone)'
    <3>1. InTurn(Gone)
      BY DEF SignalInv, RowsConsume
    <3> QED BY <1>2, <1>3, <3>1 DEF InTurn
  <2> QED BY <2>1, <2>2, <2>3, <2>4 DEF RowsConsume, Mine, Distinct
<1>6. RunsConsume'
  <2> SUFFICES ASSUME NEW l \in Lanes, lane[l].at \in InRun
               PROVE  Consumes(Instance(l), lane[l])'
    BY DEF RunsConsume, InRun
  <2> DEFINE i == Instance(l)
             v == lane[l]
  <2>1. Instance(l)' = i /\ i \in Instances /\ Consumes(i, v) /\ v.used \in SUBSET Signals
    BY LaneFacts, LaneTypes DEF Shape, InRun, Instance, JobsKept, SignalInv, RunsConsume
  <2>2. \A s \in v.used : signal'[s].state = "pending" /\ signal'[s].of = i /\ \E k \in Waits : v.work.by[k] = s
    BY <2>1 DEF Consumes
  <2>3. \A k \in Waits : LET s == v.work.by[k] IN s \in Signals => Mine(i, k, s)' /\ (s \in v.used \/ row[i].by[k] = s)
    <3> TAKE k \in Waits
    <3>1. SUFFICES ASSUME v.work.by[k] \in Signals
                   PROVE  Mine(i, k, v.work.by[k])' /\ (v.work.by[k] \in v.used \/ row[i].by[k] = v.work.by[k])
      OBVIOUS
    <3>2. Mine(i, k, v.work.by[k]) /\ (v.work.by[k] \in v.used \/ row[i].by[k] = v.work.by[k])
      BY <2>1, <3>1 DEF Consumes
    <3>3. signal[v.work.by[k]].state \in {"pending", "consumed"}
      BY <2>1, <3>1, <3>2 DEF Consumes, SignalInv, RowsConsume
    <3>4. signal'[v.work.by[k]] = signal[v.work.by[k]]
      BY <3>1, <3>3
    <3> QED BY <2>1, <3>2, <3>4 DEF Mine
  <2>4. (\A k \in Waits : row[i].by[k] # ByNothing => v.work.by[k] = row[i].by[k]) /\ Distinct(v.work.by)
    BY <2>1 DEF Consumes
  <2>5. \A s \in Gone \cup v.used : \A r \in older'[s] :
          signal'[r].of = signal'[s].of /\ signal'[r].name = signal'[s].name => r \in Gone \cup v.used
    <3>1. InTurn(Gone \cup v.used) /\ Gone \cup v.used \in SUBSET Signals
          /\ \A s \in Gone \cup v.used : signal[s].state \in {"pending", "consumed"}
      BY <1>2, <2>1 DEF Consumes
    <3> QED BY <1>3, <3>1
  <2>6. InTurn(Gone \cup lane[l].used)'
    BY <1>2, <2>5 DEF InTurn
  <2> QED BY <2>1, <2>2, <2>3, <2>4, <2>6 DEF Consumes, Mine, Distinct
<1> QED BY <1>5, <1>6 DEF SignalInv

LEMMA ClientsSignals ==
  ASSUME Shape, SignalInv, Clients
  PROVE  SignalInv'
<1>1. UNCHANGED <<def, lane>> /\ JobsKept
  BY ClientsFacts
<1>2. signal \in [Signals -> SignalRows] /\ older \in [Signals -> SUBSET Signals] /\ Numbered
  BY DEF Shape, TypeOK, SignalInv
<1>3. ASSUME NEW i \in Instances, Start(i) PROVE SignalInv'
  <2>1. \A m \in Instances : row'[m].by = row[m].by
    <3>1. /\ \A m \in Instances \ {i} : row'[m] = row[m]
          /\ row'[i] = Copy("running", row[i].phase, row[i].wake, row[i].results, row[i].by)
      BY <1>3, StartFacts
    <3> QED BY <3>1 DEF Copy
  <2>2. UNCHANGED <<def, signal, lane, older>>
    BY <1>3 DEF Start
  <2> QED BY <1>1, <2>1, <2>2, StillSignals
<1>4. ASSUME NEW i \in Instances, NEW name \in SignalNames, SignalInsert(i, name) PROVE SignalInv'
  <2>1. PICK s \in Signals :
          /\ signal[s].state = "none" /\ \A r \in 1..(s - 1) : signal[r].state # "none"
          /\ signal' = [signal EXCEPT ![s] = [state |-> "inserted", of |-> i, name |-> name]]
          /\ older' = [older EXCEPT ![s] = {r \in Signals : signal[r].state \in {"pending", "consumed"}}]
    BY <1>4 DEF SignalInsert
  <2>2. UNCHANGED row
    BY <1>4 DEF SignalInsert
  <2>3. \A r \in Signals : r # s => signal'[r] = signal[r] /\ older'[r] = older[r]
    BY <1>2, <2>1
  <2>4. signal'[s].state = "inserted" /\ older'[s] = {r \in Signals : signal[r].state \in {"pending", "consumed"}}
    BY <1>2, <2>1
  <2>5. \A q \in Signals : q < s => signal[q].state # "none"
    BY <2>1 DEF Signals
  <2>6. Numbered'
    <3>1. ASSUME NEW q \in Signals, NEW r \in Signals, signal'[q].state = "none", q < r PROVE signal'[r].state = "none"
      <4>1. q # s /\ signal[q].state = "none"
        BY <2>3, <2>4, <3>1
      <4>2. signal[r].state = "none" /\ ~(q < s)
        BY <1>2, <2>5, <3>1, <4>1 DEF Numbered
      <4> QED BY <2>3, <3>1, <4>2
    <3>2. ASSUME NEW q \in Signals, NEW r \in older'[q] PROVE r < q /\ signal'[r].state \in {"pending", "consumed"}
      <4>1. CASE q = s
        <5>1. r \in Signals /\ signal[r].state \in {"pending", "consumed"}
          BY <2>4, <3>2, <4>1
        <5>2. r # s /\ ~(s < r)
          BY <1>2, <2>1, <5>1 DEF Numbered
        <5> QED BY <2>3, <4>1, <5>1, <5>2 DEF Signals
      <4>2. CASE q # s
        <5>1. r \in older[q] /\ r \in Signals
          BY <1>2, <2>3, <3>2, <4>2
        <5>2. r < q /\ signal[r].state \in {"pending", "consumed"}
          BY <1>2, <5>1 DEF Numbered
        <5> QED BY <2>1, <2>3, <5>1, <5>2
      <4> QED BY <4>1, <4>2
    <3> QED BY <3>1, <3>2 DEF Numbered
  <2> QED BY <1>1, <2>1, <2>2, <2>3, <2>4, <2>6, SignalFrame
<1>5. ASSUME NEW s \in Signals, SignalCommit(s) \/ SignalAbort(s) PROVE SignalInv'
  <2>1. PICK st \in {"pending", "aborted"} : signal' = [signal EXCEPT ![s].state = st]
    BY <1>5 DEF SignalCommit, SignalAbort
  <2>2. signal[s].state = "inserted" /\ UNCHANGED <<row, older>>
    BY <1>5 DEF SignalCommit, SignalAbort
  <2>3. (\A r \in Signals : r # s => signal'[r] = signal[r]) /\ signal'[s].state = st
    BY <1>2, <2>1 DEF SignalRows
  <2>4. Numbered'
    BY <1>2, <2>2, <2>3 DEF Numbered
  <2> QED BY <1>1, <2>2, <2>3, <2>4, SignalFrame
<1> QED BY <1>3, <1>4, <1>5 DEF Clients, Client

LEMMA SignalInvStep == ASSUME Shape, SignalInv, [Next]_vars PROVE SignalInv'
<1>1. CASE Tick
  <2>1. /\ \A i \in Instances : row'[i].by = row[i].by
        /\ \A l \in Lanes : /\ lane'[l].at = lane[l].at /\ lane'[l].job = lane[l].job /\ lane'[l].used = lane[l].used
                            /\ lane'[l].work.by = lane[l].work.by
        /\ JobsKept /\ UNCHANGED <<def, signal, older>>
    BY <1>1, TickFacts DEF State, Copy
  <2> QED BY <2>1, StillSignals
<1>2. CASE UNCHANGED vars
  BY <1>2, StillSignals DEF vars, JobsKept, Shape, TypeOK
<1> QED BY <1>1, <1>2, NextSteps, ClientsSignals, OutSignals, ClaimSignals, PassSignals, CommitSignals

(***************************************************************************)
(* A signal is consumed by passing exactly one wait, one of its instance   *)
(* and its name, and no signal is overtaken by one that was sent when it   *)
(* was already there.                                                      *)
(***************************************************************************)
THEOREM SignalsPassOnce == Spec => []SignalsOnce
BY ShapeInit, ShapeStep, SignalInit, SignalInvStep, SignalInvGives, PTL DEF Spec
-----------------------------------------------------------------------------
(***************************************************************************)
(* How far a run has come from the row it began with.  Until it is past    *)
(* the phase of a row that is suspended and not due, its copy is suspended *)
(* in the same way; it does not get past a sleep, nor times a wait out.    *)
(***************************************************************************)
Suspended == {"sleeping", "waiting_signal"}

LinkedTo(r, v) ==
  LET w == v.work IN
  /\ v.at \in {"running", "unsignalled"} /\ w.status \in Suspended =>
       w.status = r.status /\ w.wake = r.wake /\ w.phase = r.phase
  /\ w.phase >= r.phase
  /\ r.status \in Suspended /\ r.wake # 0 /\ w.phase = r.phase => w.status = r.status /\ w.wake = r.wake
  /\ r.status = "sleeping" /\ r.wake # 0 => w.phase = r.phase /\ v.at \in {"running", "returning"}
  /\ r.status = "waiting_signal" /\ r.wake # 0 => w.by[r.phase] # ByTimeout

Linked == \A l \in Lanes : lane[l].at \in InRun => LinkedTo(row[Instance(l)], lane[l])

LEMMA LinkedInit == Init => Linked
BY BlankFacts DEF Linked, Init, InRun

LEMMA LinkedLane ==
  ASSUME Shape, Linked, NEW l \in Lanes, NEW v, lane' = [lane EXCEPT ![l] = v], JobsKept, UNCHANGED row,
         v.at \in InRun => lane[l].at # "idle" /\ v.job = lane[l].job /\ LinkedTo(row[Instance(l)], v)
  PROVE  Linked'
<1>1. lane'[l] = v /\ \A m \in Lanes \ {l} : lane'[m] = lane[m]
  BY DEF Shape, TypeOK
<1> SUFFICES ASSUME NEW m \in Lanes, lane'[m].at \in InRun
             PROVE  LinkedTo(row'[Instance(m)'], lane'[m])
  BY DEF Linked, InRun, LinkedTo, Suspended
<1>2. lane[m].at # "idle" /\ lane'[m].job = lane[m].job /\ LinkedTo(row[Instance(m)], lane'[m])
  BY <1>1 DEF Linked, InRun
<1>3. Instance(m)' = Instance(m)
  BY <1>2, LaneFacts DEF Instance, JobsKept, Shape
<1> QED BY <1>2, <1>3

LEMMA PassLinked ==
  ASSUME Shape, Linked, NEW l \in Lanes, Passes(l)
  PROVE  Linked'
<1> DEFINE v == lane[l]
           w == v.work
           p == w.phase
           d == Definition(l)
           r == row[Instance(l)]
<1>1. OwnStep /\ v.at \in InRun /\ v.at # "returning" /\ p \in Nat
  BY PassIsInRun, LaneTypes DEF Shape
<1>2. Sound(d, w) /\ d \in Definitions /\ RunOK(Instance(l), v) /\ Sound(d, r) /\ r.phase \in Nat
  BY <1>1, LaneFacts DEF Shape, TypeOK, Rows, RowsSound, RunsSound, RunOK, Definition, InRun
<1>3. WaitsOf(d) \subseteq Waits /\ WaitsOf(d) \subseteq 1..Len(d.program) /\ Len(d.program) \in Nat
  BY <1>2, ProgramFacts
<1>4. LinkedTo(r, v)
  BY <1>1 DEF Linked
<1>5. ASSUME NEW a, NEW x, NEW u, NEW e, NEW t, Becomes(l, State(l, a, x, u, e, t)),
             LinkedTo(r, State(l, a, x, u, e, t))
      PROVE  Linked'
  <2> DEFINE y == State(l, a, x, u, e, t)
  <2>1. y.job = lane[l].job /\ lane' = [lane EXCEPT ![l] = y]
    BY <1>5 DEF State, Becomes
  <2>2. JobsKept /\ UNCHANGED row /\ lane[l].at # "idle"
    BY <1>1 DEF OwnStep, JobsKept, Shape, TypeOK, InRun
  <2> HIDE DEF y
  <2> QED BY <1>5, <2>1, <2>2, LinkedLane DEF y
<1>6. ASSUME NEW a, NEW x, NEW u, NEW e, NEW t
      PROVE  State(l, a, x, u, e, t).at = a /\ State(l, a, x, u, e, t).work = x
  BY DEF State
<1>7. \A st, ph, wk, rs, by : LET x == Copy(st, ph, wk, rs, by) IN
         x.status = st /\ x.phase = ph /\ x.wake = wk /\ x.by = by
  BY DEF Copy
<1> HIDE DEF v, w, p, d, r
(* A copy that goes on to the next phase. *)
<1>8. ASSUME w.status # "sleeping" \/ r.wake = 0, NEW a, NEW st, NEW wk, NEW rs, NEW by, NEW u, NEW e, NEW t,
             st \in Suspended => a \notin {"running", "unsignalled"},
             r.status = "waiting_signal" /\ r.wake # 0 => by[r.phase] # ByTimeout,
             v.at \in {"running", "unsignalled"},
             Becomes(l, State(l, a, Copy(st, p + 1, wk, rs, by), u, e, t))
      PROVE  Linked'
  <2>1. p >= r.phase /\ p + 1 >= r.phase /\ p + 1 # r.phase
    BY <1>1, <1>2, <1>4 DEF LinkedTo, w, p
  <2>2. ~(r.status = "sleeping" /\ r.wake # 0)
    BY <1>4, <1>8 DEF LinkedTo, w, Suspended
  <2>3. LinkedTo(r, State(l, a, Copy(st, p + 1, wk, rs, by), u, e, t))
    BY <1>6, <1>7, <1>8, <2>1, <2>2 DEF LinkedTo
  <2> QED BY <1>5, <1>8, <2>3
<1>9. CASE Wake(l)
  <2>1. v.at = "running" /\ w.status = "sleeping"
    BY <1>9, WakeFacts DEF v, w
  <2>2. w.status = r.status /\ w.wake = r.wake /\ p = r.phase
    BY <1>4, <2>1 DEF LinkedTo, Suspended, v, w, p
  <2>3. CASE w.wake = 0 /\ Becomes(l, State(l, "running", Copy("running", p, NoTime, w.results, w.by), v.used, v.did, v.timer))
    <3>1. LinkedTo(r, State(l, "running", Copy("running", p, NoTime, w.results, w.by), v.used, v.did, v.timer))
      BY <1>2, <1>6, <1>7, <2>1, <2>2, <2>3 DEF LinkedTo, Suspended
    <3> QED BY <1>5, <2>3, <3>1
  <2>4. CASE Becomes(l, State(l, "returning", w, v.used, v.did, v.timer))
    <3>1. LinkedTo(r, State(l, "returning", w, v.used, v.did, v.timer))
      BY <1>4, <1>6, <2>1, <2>2, <2>4 DEF LinkedTo, Suspended, v, w, p
    <3> QED BY <1>5, <2>4, <3>1
  <2> QED BY <1>9, <2>3, <2>4, WakeFacts DEF v, w, p
<1>10. CASE Finish(l)
  <2>1. /\ v.at = "running" /\ w.status # "sleeping" /\ p > Len(d.program)
        /\ Becomes(l, State(l, "returning", Copy("completed", p, NoTime, w.results, w.by), v.used, v.did, v.timer))
    BY <1>10, FinishFacts DEF PastEnd, v, w, p, d
  <2>2. w.status # "waiting_signal"
    BY <1>1, <1>2, <1>3, <2>1 DEF Sound, p
  <2>3. ~(r.status \in Suspended /\ r.wake # 0 /\ p = r.phase) /\ ~(r.status = "sleeping" /\ r.wake # 0)
    BY <1>4, <2>1, <2>2 DEF LinkedTo, Suspended, v, w, p
  <2>4. LinkedTo(r, State(l, "returning", Copy("completed", p, NoTime, w.results, w.by), v.used, v.did, v.timer))
    BY <1>4, <1>6, <1>7, <2>1, <2>3 DEF LinkedTo, Suspended, v, w, p
  <2> QED BY <1>5, <2>1, <2>4
<1>11. CASE Act(l)
  <2>1. /\ v.at = "running" /\ w.status # "sleeping"
        /\ Becomes(l, State(l, "running", Copy("running", p + 1, NoTime, w.results \cup {p}, w.by), v.used, v.did \cup {p},
                            v.timer))
    BY <1>11, ActFacts DEF v, w, p
  <2>2. r.status = "waiting_signal" /\ r.wake # 0 => w.by[r.phase] # ByTimeout
    BY <1>4 DEF LinkedTo, w
  <2> QED BY <1>8, <2>1, <2>2 DEF Suspended
<1>12. CASE Sleep(l)
  <2>1. /\ v.at = "running" /\ w.status # "sleeping"
        /\ \/ Becomes(l, State(l, "running", Copy("running", p + 1, NoTime, w.results, w.by), v.used, v.did, v.timer))
           \/ \E delay : Becomes(l, State(l, "suspending", Copy("sleeping", p + 1, delay, w.results, w.by), v.used, v.did, delay))
    BY <1>12, SleepFacts DEF v, w, p
  <2>2. r.status = "waiting_signal" /\ r.wake # 0 => w.by[r.phase] # ByTimeout
    BY <1>4 DEF LinkedTo, w
  <2>3. CASE Becomes(l, State(l, "running", Copy("running", p + 1, NoTime, w.results, w.by), v.used, v.did, v.timer))
    BY <1>8, <2>1, <2>2, <2>3 DEF Suspended
  <2>4. ASSUME NEW delay, Becomes(l, State(l, "suspending", Copy("sleeping", p + 1, delay, w.results, w.by), v.used, v.did, delay))
        PROVE  Linked'
    BY <1>8, <2>1, <2>2, <2>4
  <2> QED BY <2>1, <2>3, <2>4
<1>13. r.status = "waiting_signal" => r.phase \in Waits
  BY <1>2, <1>3 DEF Sound
<1>14. CASE TakeSignal(l)
  <2>1. PICK s \in Signals :
          Becomes(l, State(l, "running", Copy("running", p + 1, NoTime, w.results, [w.by EXCEPT ![p] = s]),
                           v.used \cup {s}, v.did \cup Performed(l), v.timer))
    BY <1>14, TakeSignalFacts DEF v, w, p
  <2>2. v.at = "running" /\ w.status # "sleeping"
    BY <1>14, TakeSignalFacts DEF v, w
  <2>3. w.by \in [Waits -> 0..ByTimeout]
    BY LaneTypes DEF w, v, Shape
  <2>4. s # ByTimeout
    BY WorkflowAssumption DEF Signals, ByTimeout
  <2> DEFINE passed == [w.by EXCEPT ![p] = s]
  <2>5. r.status = "waiting_signal" /\ r.wake # 0 => passed[r.phase] # ByTimeout
    BY <1>4, <1>13, <2>3, <2>4 DEF LinkedTo, w
  <2>6. "running" \notin Suspended
    BY DEF Suspended
  <2>7. Becomes(l, State(l, "running", Copy("running", p + 1, NoTime, w.results, passed), v.used \cup {s},
                         v.did \cup Performed(l), v.timer))
    BY <2>1
  <2> HIDE DEF passed
  <2> QED BY <1>8, <2>2, <2>5, <2>6, <2>7
<1>15. CASE FindNoSignal(l)
  <2>1. /\ v.at = "running" /\ w.status # "sleeping"
        /\ Becomes(l, State(l, "unsignalled", w, v.used, v.did \cup Performed(l), v.timer))
    BY <1>15, FindNoSignalFacts DEF v, w
  <2>2. LinkedTo(r, State(l, "unsignalled", w, v.used, v.did \cup Performed(l), v.timer))
    BY <1>4, <1>6, <2>1 DEF LinkedTo, Suspended, v, w
  <2> QED BY <1>5, <2>1, <2>2
<1>16. CASE Suspend(l)
  <2> DEFINE delay == Current(l).delay
             rs == w.results \cup Performed(l)
  <2>1. PICK a \in {"returning", "suspending"} :
          Becomes(l, State(l, a, Copy("waiting_signal", p, delay, rs, w.by), v.used, v.did, delay))
    BY <1>16, SuspendFacts DEF v, w, p
  <2> HIDE DEF delay, rs
  <2>2. v.at = "unsignalled" /\ w.status = "running"
    BY <1>16, SuspendFacts DEF v, w
  <2>3. LinkedTo(r, State(l, a, Copy("waiting_signal", p, delay, rs, w.by), v.used, v.did, delay))
    BY <1>4, <1>6, <1>7, <2>2 DEF LinkedTo, Suspended, v, w, p
  <2> QED BY <1>5, <2>1, <2>3
<1>17. CASE StillWaiting(l)
  <2>1. v.at = "unsignalled" /\ Becomes(l, State(l, "returning", w, v.used, v.did, v.timer))
    BY <1>17, StillWaitingFacts DEF v, w
  <2>2. LinkedTo(r, State(l, "returning", w, v.used, v.did, v.timer))
    BY <1>4, <1>6, <2>1 DEF LinkedTo, Suspended, v, w
  <2> QED BY <1>5, <2>1, <2>2
(* A wait that has timed out is not the one that a row is not due for.     *)
<1>18. ASSUME v.at = "unsignalled", TimedOut(l)
       PROVE  /\ w.status # "sleeping"
              /\ ~(r.status \in Suspended /\ r.wake # 0 /\ p = r.phase)
              /\ ~(r.status = "sleeping" /\ r.wake # 0)
  <2>1. w.status \in {"running", "waiting_signal"} /\ (w.status = "waiting_signal" => w.wake = 0)
    BY <1>18, UnsignalledFacts DEF TimedOut, v, w
  <2> QED BY <1>4, <1>18, <2>1 DEF LinkedTo, Suspended, v, w, p
<1>19. CASE Continue(l)
  <2>1. /\ v.at = "unsignalled" /\ TimedOut(l)
        /\ Becomes(l, State(l, "running", Copy("running", p + 1, NoTime, w.results, [w.by EXCEPT ![p] = ByTimeout]),
                            v.used, v.did, v.timer))
    BY <1>19, ContinueFacts DEF v, w, p
  <2>2. w.by \in [Waits -> 0..ByTimeout]
    BY LaneTypes DEF w, v, Shape
  <2> DEFINE passed == [w.by EXCEPT ![p] = ByTimeout]
  <2>3. r.status = "waiting_signal" /\ r.wake # 0 => passed[r.phase] # ByTimeout
    BY <1>4, <1>13, <1>18, <2>1, <2>2 DEF LinkedTo, Suspended, w
  <2>4. "running" \notin Suspended
    BY DEF Suspended
  <2>5. Becomes(l, State(l, "running", Copy("running", p + 1, NoTime, w.results, passed), v.used, v.did, v.timer))
    BY <2>1
  <2> HIDE DEF passed
  <2> QED BY <1>8, <1>18, <2>1, <2>3, <2>4, <2>5
<1>20. CASE FailInstance(l)
  <2>1. /\ v.at = "unsignalled" /\ TimedOut(l)
        /\ Becomes(l, State(l, "returning", Copy("failed", p, NoTime, w.results, w.by), v.used, v.did, v.timer))
    BY <1>20, FailInstanceFacts DEF v, w, p
  <2>2. LinkedTo(r, State(l, "returning", Copy("failed", p, NoTime, w.results, w.by), v.used, v.did, v.timer))
    BY <1>4, <1>6, <1>7, <1>18, <2>1 DEF LinkedTo, Suspended, v, w, p
  <2> QED BY <1>5, <2>1, <2>2
<1>21. CASE EnqueueTimer(l)
  <2>1. v.at = "suspending" /\ Becomes(l, State(l, "returning", w, v.used, v.did, v.timer))
    BY <1>21, EnqueueTimerFacts DEF v, w
  <2>2. LinkedTo(r, State(l, "returning", w, v.used, v.did, v.timer))
    BY <1>4, <1>6, <2>1 DEF LinkedTo, Suspended, v, w
  <2> QED BY <1>5, <2>1, <2>2
<1> QED BY <1>9, <1>10, <1>11, <1>12, <1>14, <1>15, <1>16, <1>17, <1>19, <1>20, <1>21 DEF Passes

LEMMA ClaimLinked ==
  ASSUME Shape, Linked, NEW l \in Lanes, ClaimLease(l)
  PROVE  Linked'
<1> DEFINE i == Instance(l)
<1>1. PICK a \in {"running", "committed"} : Becomes(l, State(l, a, row[i], {}, {}, NoTime))
  BY ClaimFacts
<1>2. /\ lane[l].at = "taken" /\ i \in Instances /\ row[i] \in Rows
      /\ UNCHANGED <<def, row, signal, job, effects, older, faults>>
  BY ClaimFacts
<1> DEFINE v == State(l, a, row[i], {}, {}, NoTime)
<1>3. v.at = a /\ v.work = row[i] /\ v.job = lane[l].job /\ lane' = [lane EXCEPT ![l] = v]
  BY <1>1 DEF State, Becomes
<1> HIDE DEF v
<1>4. Sound(def[i], row[i]) /\ def[i] \in Definitions /\ row[i].phase \in Nat
  BY <1>2 DEF Shape, RowsSound, TypeOK, Rows
<1>5. row[i].status = "waiting_signal" => row[i].by[row[i].phase] # ByTimeout
  <2> SUFFICES ASSUME row[i].status = "waiting_signal" PROVE row[i].by[row[i].phase] # ByTimeout
    OBVIOUS
  <2>1. row[i].phase \in Waits
    BY <1>4, ProgramFacts DEF Sound
  <2>2. row[i].by[row[i].phase] = ByNothing
    BY <1>4, <2>1 DEF Sound
  <2> QED BY <2>2, WorkflowAssumption DEF ByNothing, ByTimeout
<1>6. v.at \in InRun => LinkedTo(row[i], v)
  BY <1>3, <1>4, <1>5 DEF LinkedTo, InRun
<1>7. JobsKept
  BY <1>2 DEF JobsKept, Shape, TypeOK
<1> QED BY <1>2, <1>3, <1>6, <1>7, LinkedLane

(* Time brings a row and its copy equally near to their wake-up time.      *)
LEMMA TickLinked ==
  ASSUME Shape, Linked, Tick
  PROVE  Linked'
<1> SUFFICES ASSUME NEW l \in Lanes, lane'[l].at \in InRun
             PROVE  LinkedTo(row'[Instance(l)'], lane'[l])
  BY DEF Linked, InRun, LinkedTo, Suspended
<1> DEFINE i == Instance(l)
<1>1. /\ lane'[l].at = lane[l].at /\ lane'[l].job = lane[l].job
      /\ lane'[l].work.status = lane[l].work.status /\ lane'[l].work.phase = lane[l].work.phase
      /\ lane'[l].work.by = lane[l].work.by /\ lane'[l].work.wake = Less(lane[l].work.wake)
  BY TickFacts DEF State, Copy
<1>2. lane[l].at # "idle" /\ lane[l].at \in InRun /\ i \in Instances /\ Instance(l)' = i
  BY <1>1, TickFacts, LaneFacts DEF Shape, InRun, Instance, JobsKept
<1>3. row'[i].status = row[i].status /\ row'[i].phase = row[i].phase /\ row'[i].wake = Less(row[i].wake)
  BY <1>2, TickFacts DEF Copy
<1>4. LinkedTo(row[i], lane[l])
  BY <1>2 DEF Linked
<1>5. Less(row[i].wake) # 0 => row[i].wake # 0
  BY LessFacts, <1>2 DEF Shape, TypeOK, Rows
<1> HIDE DEF i
<1> QED BY <1>1, <1>2, <1>3, <1>4, <1>5 DEF LinkedTo

LEMMA CommitLinked ==
  ASSUME Shape, Linked, NEW l \in Lanes, Commit(l)
  PROVE  Linked'
<1>1. /\ Instance(l) \in Instances
      /\ lane' = [lane EXCEPT ![l] = Left(l, "committed")]
      /\ \A m \in Instances \ {Instance(l)} : row'[m] = row[m]
      /\ \A m \in Lanes \ {l} : lane'[m] = lane[m]
      /\ \A m \in Lanes \ {l} : lane[m].at # "idle" => Instance(m)' = Instance(m) /\ Instance(m) \in Instances
      /\ \A m \in Lanes \ {l} : lane[m].at \in InRun => Instance(m) # Instance(l)
  BY CommitFacts
<1>2. lane'[l].at \notin InRun
  <2>1. lane[l].at # "idle"
    BY CommitFacts
  <2>2. Left(l, "committed").at = "committed"
    BY <2>1, LeftFacts
  <2> QED BY <1>1, <2>2 DEF Shape, TypeOK, InRun
<1> SUFFICES ASSUME NEW m \in Lanes, lane'[m].at \in InRun
             PROVE  LinkedTo(row'[Instance(m)'], lane'[m])
  BY DEF Linked, InRun, LinkedTo, Suspended
<1>3. m # l /\ lane'[m] = lane[m] /\ lane[m].at \in InRun /\ lane[m].at # "idle"
  BY <1>1, <1>2 DEF InRun
<1>4. Instance(m)' = Instance(m) /\ row'[Instance(m)] = row[Instance(m)]
  BY <1>1, <1>3
<1> QED BY <1>3, <1>4 DEF Linked

LEMMA LinkedStep == ASSUME Shape, Linked, [Next]_vars PROVE Linked'
<1>1. ASSUME NEW l \in Lanes, Take(l) \/ Throw(l) \/ ThrowAfterCommit(l) \/ Complete(l) \/ FailJob(l) \/ Crash(l)
      PROVE  Linked'
  <2>1. PICK v : lane' = [lane EXCEPT ![l] = v] /\ v.at \notin InRun
    BY <1>1, OutLane
  <2>2. JobsKept /\ UNCHANGED row
    BY <1>1, OutJobs DEF Take, Throw, ThrowAfterCommit, Complete, FailJob, Crash
  <2> QED BY <2>1, <2>2, LinkedLane
<1>2. ASSUME UNCHANGED lane, JobsKept, \A i \in Instances : row[i].status \in Live => row'[i] = row[i]
      PROVE  Linked'
  <2> SUFFICES ASSUME NEW m \in Lanes, lane[m].at \in InRun
               PROVE  LinkedTo(row'[Instance(m)'], lane[m])
    BY <1>2 DEF Linked, InRun, LinkedTo, Suspended
  <2>1. Instance(m)' = Instance(m) /\ Instance(m) \in Instances /\ row[Instance(m)].status \in Live
    BY <1>2, LaneFacts DEF Instance, JobsKept, Shape, InRun, RunsSound, RunOK
  <2> QED BY <1>2, <2>1 DEF Linked
<1>3. ASSUME Clients PROVE Linked'
  <2>1. \A i \in Instances : row[i].status \in Live => row'[i] = row[i]
    BY <1>3, ClientsFacts, StartFacts DEF Live
  <2> QED BY <1>2, <1>3, <2>1, ClientsFacts
<1>4. CASE UNCHANGED vars
  BY <1>2, <1>4 DEF vars, JobsKept, Shape, TypeOK
<1> QED BY <1>1, <1>3, <1>4, NextSteps, PassLinked, ClaimLinked, TickLinked, CommitLinked

(* A row that is suspended and not due stays so, or a signal passes it.    *)
LEMMA EarlyStep ==
  ASSUME Shape, Linked, [Next]_vars, NEW i \in Instances, row[i].wake # 0
  PROVE  LET k == row[i].phase IN
         /\ row[i].status = "sleeping" => row'[i].status = "sleeping"
         /\ row[i].status = "waiting_signal" => row'[i].by[k] # ByTimeout
<1> DEFINE k == row[i].phase
<1>1. row[i].status = "waiting_signal" => row[i].by[k] # ByTimeout
  <2> SUFFICES ASSUME row[i].status = "waiting_signal" PROVE row[i].by[k] # ByTimeout
    OBVIOUS
  <2>1. Sound(def[i], row[i]) /\ def[i] \in Definitions
    BY DEF Shape, RowsSound, TypeOK
  <2>2. k \in Waits
    BY <2>1, ProgramFacts DEF Sound
  <2>3. row[i].by[k] = ByNothing \/ k < k
    BY <2>1, <2>2 DEF Sound
  <2>4. k \in Nat
    BY DEF Shape, TypeOK, Rows
  <2> QED BY <2>3, <2>4, WorkflowAssumption DEF ByNothing, ByTimeout
<1>2. ASSUME row'[i].status = row[i].status \/ row[i].status = "absent", row'[i].by = row[i].by
      PROVE  /\ row[i].status = "sleeping" => row'[i].status = "sleeping"
             /\ row[i].status = "waiting_signal" => row'[i].by[k] # ByTimeout
  BY <1>1, <1>2
<1>3. CASE Tick
  BY <1>2, <1>3, TickFacts DEF Copy
<1>4. CASE Clients
  <2>1. CASE row' = row
    BY <1>2, <2>1
  <2>2. ASSUME NEW m \in Instances, Start(m) PROVE row'[i].status = row[i].status \/ row[i].status = "absent"
    BY <2>2, StartFacts
  <2>3. ASSUME NEW m \in Instances, Start(m) PROVE row'[i].by = row[i].by
    <3>1. /\ \A n \in Instances \ {m} : row'[n] = row[n]
          /\ row'[m] = Copy("running", row[m].phase, row[m].wake, row[m].results, row[m].by)
      BY <2>3, StartFacts
    <3> QED BY <3>1 DEF Copy
  <2> QED BY <1>2, <1>4, <2>1, <2>2, <2>3, ClientsFacts
<1>5. ASSUME NEW l \in Lanes, Commit(l)
      PROVE  /\ row[i].status = "sleeping" => row'[i].status = "sleeping"
             /\ row[i].status = "waiting_signal" => row'[i].by[k] # ByTimeout
  <2>1. /\ Instance(l) \in Instances /\ lane[l].at = "returning" /\ lane[l].at \in InRun
        /\ row' = [row EXCEPT ![Instance(l)] = lane[l].work]
        /\ \A m \in Instances \ {Instance(l)} : row'[m] = row[m]
    BY <1>5, CommitFacts
  <2>2. CASE Instance(l) = i
    <3>1. LinkedTo(row[i], lane[l]) /\ row'[i] = lane[l].work
      BY <2>1, <2>2 DEF Linked, Shape, TypeOK
    <3> QED BY <3>1 DEF LinkedTo, Suspended
  <2>3. CASE Instance(l) # i
    BY <1>2, <2>1, <2>3
  <2> QED BY <2>2, <2>3
<1>6. ASSUME NEW l \in Lanes,
             \/ Take(l) \/ ClaimLease(l) \/ Passes(l) \/ Throw(l) \/ ThrowAfterCommit(l) \/ Complete(l) \/ FailJob(l)
             \/ Crash(l)
      PROVE  row' = row
  BY <1>6, PassIsInRun
     DEF Take, ClaimLease, Throw, ThrowAfterCommit, Complete, FailJob, Crash, OwnStep
<1>7. CASE row' = row
  BY <1>2, <1>7
<1> QED BY <1>3, <1>4, <1>5, <1>6, <1>7, NextSteps DEF vars

(***************************************************************************)
(* No job that comes at the wrong time, of a signal, an earlier timer or a *)
(* retry, cuts a sleep short or times a wait out.                          *)
(***************************************************************************)
THEOREM NothingIsEarly == Spec => NothingEarly
<1>1. Shape /\ Linked /\ [Next]_vars =>
        [\A i \in Instances : LET k == row[i].phase IN
           /\ row[i].status = "sleeping" /\ row'[i].status # "sleeping" => row[i].wake = 0
           /\ row[i].status = "waiting_signal" /\ row'[i].by[k] = ByTimeout => row[i].wake = 0]_vars
  BY EarlyStep
<1> QED BY <1>1, ShapeInit, ShapeStep, LinkedInit, LinkedStep, PTL DEF Spec, NothingEarly
-----------------------------------------------------------------------------
(***************************************************************************)
(* Job j looks at instance i when t more time has passed: it waits for     *)
(* that long, or t = 0 and no lane that has it is further than before.     *)
(***************************************************************************)
On(j, before) == \A l \in Lanes : lane[l].at # "idle" /\ lane[l].job = j => lane[l].at \in before
Serves(j, i, t, before) ==
  /\ job[j].of = i
  /\ IF t = 0 THEN job[j].state \in {"waiting", "taken", "failed"} /\ On(j, before)
     ELSE job[j].state = "waiting" /\ job[j].wait >= t /\ On(j, {})
DueIn(i, t, before) == \E j \in Jobs : Serves(j, i, t, before)

Untouched == {"taken", "failed"}
Undone == Untouched \cup InRun

SomeSignal(i, k, used) == \E s \in Signals \ used : signal[s].state = "pending" /\ Mine(i, k, s)

(* What a row has to do now or later has a job whose run has not ended.    *)
RowWakes(i) == LET r == row[i] IN
  /\ r.status = "running" \/ (r.status = "waiting_signal" /\ SomeSignal(i, r.phase, {})) => DueIn(i, 0, Undone)
  /\ r.wake # NoTime => DueIn(i, r.wake, Undone)

(***************************************************************************)
(* What a run v of i has not seen or leaves to do has a job that no run    *)
(* has begun with, or a timer of its own.                                  *)
(***************************************************************************)
Decided == {"suspending", "returning"}
RunWakes(i, v) == LET w == v.work IN
  /\ (v.at = "unsignalled" \/ (v.at \in Decided /\ w.status = "waiting_signal")) /\ SomeSignal(i, w.phase, v.used)
       => DueIn(i, 0, Untouched)
  /\ v.at \in Decided /\ w.wake # NoTime =>
       IF v.timer # NoTime THEN v.timer >= w.wake ELSE DueIn(i, w.wake, Untouched)
  /\ v.at \in Decided /\ w.wake = NoTime => v.timer = NoTime

Wakes ==
  /\ \A i \in Instances : RowWakes(i)
  /\ \A l \in Lanes : lane[l].at \in InRun => RunWakes(Instance(l), lane[l])

LEMMA WakesInit == Init => Wakes
<1> SUFFICES ASSUME Init PROVE Wakes
  OBVIOUS
<1>1. \A i \in Instances : row[i].status = "absent" /\ row[i].wake = NoTime
  BY DEF Init, Blank
<1>2. \A l \in Lanes : lane[l].at \notin InRun
  BY BlankFacts DEF Init, InRun
<1> QED BY <1>1, <1>2 DEF Wakes, RowWakes

(* What the invariant says of the property. *)
LEMMA WakesGive == ASSUME Shape, Wakes PROVE NoLostWakeup
<1> SUFFICES ASSUME NEW i \in Instances, row[i].status \in Live, ~GivenUp(i)
             PROVE  /\ row[i].status = "running" \/ SignalWaits(i) => Comes(i, 0)
                    /\ row[i].wake # NoTime => Comes(i, row[i].wake)
  BY DEF NoLostWakeup
<1>1. ASSUME NEW t \in Nat, DueIn(i, t, Undone) PROVE Comes(i, t)
  <2>1. PICK j \in Jobs : Serves(j, i, t, Undone)
    BY <1>1 DEF DueIn
  <2>2. job[j].of = i /\ job[j].state # "failed" /\ job[j].wait \in Nat
    BY <2>1 DEF Serves, GivenUp, Shape, TypeOK, JobRows
  <2>3. \A l \in Lanes : lane[l].job = j => lane[l].at # "committed" \/ t # 0
    BY <2>1 DEF Serves, On, Undone, Untouched, InRun
  <2> QED BY <2>1, <2>2, <2>3 DEF Serves, Comes
<1>2. SignalWaits(i) => row[i].status = "waiting_signal" /\ SomeSignal(i, row[i].phase, {})
  BY DEF SignalWaits, SomeSignal, Mine
<1>3. row[i].wake \in Nat \cup {NoTime}
  BY DEF Shape, TypeOK, Rows
<1> QED BY <1>1, <1>2, <1>3 DEF Wakes, RowWakes
-----------------------------------------------------------------------------
LEMMA EarlyEnough ==
  ASSUME NEW j \in Jobs, NEW i, NEW t, Serves(j, i, t, Untouched)
  PROVE  Serves(j, i, t, Undone)
BY DEF Serves, On, Untouched, Undone

LEMMA LaterIsBoth ==
  ASSUME NEW j \in Jobs, NEW i, NEW t, t # 0, Serves(j, i, t, Undone)
  PROVE  Serves(j, i, t, Untouched)
BY DEF Serves

(* A new job, which no lane has yet, serves its instance. *)
LEMMA NewJobServes ==
  ASSUME Shape, NEW i \in Instances, NEW n \in Nat, NEW j \in Jobs, IsNextJob(j), job' = Enqueued(j, i, n),
         NEW t \in Nat, t <= n, NEW b,
         \A m \in Lanes : lane'[m].at # "idle" => lane[m].at # "idle" /\ lane'[m].job = lane[m].job
  PROVE  Serves(j, i, t, b)'
<1>1. job[j].state = "none" /\ job'[j] = [state |-> "waiting", of |-> i, wait |-> n, tries |-> 0]
  BY DEF IsNextJob, Enqueued, Shape, TypeOK
<1>2. \A m \in Lanes : ~(lane'[m].at # "idle" /\ lane'[m].job = j)
  BY <1>1 DEF Shape, LanesHold
<1>3. job'[j].state = "waiting" /\ job'[j].of = i /\ job'[j].wait = n
  BY <1>1
<1> QED BY <1>2, <1>3 DEF Serves, On

(* The steps that leave in the queue a job that serves instance i.         *)
Spares(i, b) ==
  \/ UNCHANGED vars
  \/ Clients
  \/ \E l \in Lanes :
       \/ Take(l) \/ Passes(l) \/ Throw(l) \/ ThrowAfterCommit(l) \/ Complete(l) \/ FailJob(l) \/ Crash(l)
       \/ ClaimLease(l) /\ (Instance(l) = i => b = Undone /\ row[i].status \in Live)
       \/ Commit(l) /\ (Instance(l) = i => b = Untouched)

(* A job that no lane's step touches, under lanes that do not get further. *)
LEMMA ServesStill ==
  ASSUME NEW j \in Jobs, NEW i, NEW t, NEW b, Serves(j, i, t, b), job'[j] = job[j],
         \A m \in Lanes : lane'[m].at # "idle" /\ lane'[m].job = j =>
           /\ lane[m].at # "idle" /\ lane[m].job = j
           /\ lane[m].at \in b => lane'[m].at \in b
  PROVE  Serves(j, i, t, b)'
BY DEF Serves, On

LEMMA TakeServes ==
  ASSUME Shape, NEW i, NEW t \in Nat, NEW b \in {Untouched, Undone}, NEW j \in Jobs, Serves(j, i, t, b),
         NEW l \in Lanes, Take(l)
  PROVE  Serves(j, i, t, b)'
<1>1. PICK n \in Jobs :
        /\ Deliverable(n)
        /\ job' = [job EXCEPT ![n].state = "taken", ![n].tries = @ + 1]
        /\ lane' = [lane EXCEPT ![l] = [Idle EXCEPT !.at = "taken", !.job = n, !.tries = job[n].tries + 1]]
  BY DEF Take
<1>2. /\ lane[l].at = "idle" /\ lane'[l].at = "taken" /\ lane'[l].job = n
      /\ \A m \in Lanes \ {l} : lane'[m] = lane[m]
  BY <1>1 DEF Take, Shape, TypeOK, Idle
<1>3. "taken" \in b
  BY DEF Untouched, Undone
<1>4. CASE n # j
  <2>1. job'[j] = job[j]
    BY <1>1, <1>4 DEF Shape, TypeOK
  <2>2. \A m \in Lanes : lane'[m].at # "idle" /\ lane'[m].job = j =>
           /\ lane[m].at # "idle" /\ lane[m].job = j
           /\ lane[m].at \in b => lane'[m].at \in b
    BY <1>2, <1>4
  <2> QED BY <2>1, <2>2, ServesStill
<1>5. CASE n = j
  <2>1. job'[j].state = "taken" /\ job'[j].of = job[j].of
    BY <1>1, <1>5 DEF Shape, TypeOK, JobRows
  <2>2. t = 0
    BY <1>1, <1>5 DEF Deliverable, Serves
  <2>3. On(j, b)'
    BY <1>2, <1>3, <2>2 DEF Serves, On
  <2> QED BY <2>1, <2>2, <2>3 DEF Serves
<1> QED BY <1>4, <1>5

(* A lane moves within its run, or from the claim of its job into one.     *)
LEMMA MoveServes ==
  ASSUME Shape, NEW i, NEW t \in Nat, NEW b \in {Untouched, Undone}, NEW j \in Jobs, Serves(j, i, t, b),
         NEW l \in Lanes, lane[l].at # "idle", job' = job, NEW v, lane' = [lane EXCEPT ![l] = v], v.job = lane[l].job,
         Instance(l) = i => v.at \in b \/ lane[l].at \notin b
  PROVE  Serves(j, i, t, b)'
<1>1. lane'[l] = v /\ \A m \in Lanes \ {l} : lane'[m] = lane[m]
  BY DEF Shape, TypeOK
<1>2. lane[l].job = j => Instance(l) = i
  BY DEF Serves, Instance
<1>3. \A m \in Lanes : lane'[m].at # "idle" /\ lane'[m].job = j =>
         /\ lane[m].at # "idle" /\ lane[m].job = j
         /\ lane[m].at \in b => lane'[m].at \in b
  BY <1>1, <1>2
<1> QED BY <1>3, ServesStill

LEMMA LeaveServes ==
  ASSUME Shape, NEW i, NEW t \in Nat, NEW b \in {Untouched, Undone}, NEW j \in Jobs, Serves(j, i, t, b),
         NEW l \in Lanes, Throw(l) \/ ThrowAfterCommit(l) \/ Complete(l) \/ FailJob(l) \/ Crash(l)
  PROVE  Serves(j, i, t, b)'
<1>1. /\ lane[l].at # "idle" /\ "failed" \in b /\ "committed" \notin b /\ Idle.at = "idle"
      /\ lane[l] \in LaneStates /\ lane[l].job \in Jobs
  BY LaneFacts, BlankFacts
     DEF Throw, ThrowAfterCommit, Complete, FailJob, Crash, InRun, Untouched, Undone, Shape
<1>2. CASE Throw(l)
  <2>1. Left(l, "failed").at = "failed" /\ Left(l, "failed").job = lane[l].job
    BY <1>1, LeftFacts
  <2> QED BY <1>1, <1>2, <2>1, MoveServes DEF Throw
<1>3. CASE ThrowAfterCommit(l)
  <2> DEFINE v == [lane[l] EXCEPT !.at = "failed"]
  <2>1. v.at = "failed" /\ v.job = lane[l].job
    BY <1>1 DEF LaneStates
  <2>2. lane' = [lane EXCEPT ![l] = v] /\ job' = job
    BY <1>3 DEF ThrowAfterCommit, Shape, TypeOK
  <2> HIDE DEF v
  <2> QED BY <1>1, <2>1, <2>2, MoveServes
<1>4. ASSUME lane' = [lane EXCEPT ![l] = Idle] PROVE lane'[l].at = "idle" /\ \A m \in Lanes \ {l} : lane'[m] = lane[m]
  BY <1>1, <1>4 DEF Shape, TypeOK
<1>5. ASSUME lane' = [lane EXCEPT ![l] = Idle], job'[j] = job[j] PROVE Serves(j, i, t, b)'
  BY <1>4, <1>5, ServesStill
<1>6. CASE Crash(l)
  BY <1>5, <1>6 DEF Crash
<1>7. CASE Complete(l)
  <2>1. t = 0 \/ t # 0
    OBVIOUS
  <2>2. lane[l].job # j
    BY <1>1, <1>7 DEF Complete, Serves, On
  <2>3. job'[j] = job[j]
    BY <1>1, <1>7, <2>2 DEF Complete, Shape, TypeOK
  <2> QED BY <1>5, <1>7, <2>3 DEF Complete
<1>8. CASE FailJob(l) /\ lane[l].job # j
  <2>1. job'[j] = job[j]
    BY <1>1, <1>8 DEF FailJob, Shape, TypeOK
  <2> QED BY <1>5, <1>8, <2>1 DEF FailJob
<1>9. CASE FailJob(l) /\ lane[l].job = j
  <2>1. t = 0
    BY <1>1, <1>9 DEF Serves, On
  <2>2. job'[j].of = i /\ job'[j].state \in {"waiting", "failed"}
    BY <1>1, <1>9 DEF FailJob, Shape, TypeOK, JobRows, Serves
  <2>3. On(j, b)'
    BY <1>4, <1>9, <2>1 DEF FailJob, Serves, On
  <2> QED BY <2>1, <2>2, <2>3 DEF Serves
<1> QED BY <1>2, <1>3, <1>6, <1>7, <1>8, <1>9

(* A step that may insert a job and leaves the others. *)
LEMMA InsertServes ==
  ASSUME Shape, NEW i, NEW t \in Nat, NEW b, NEW j \in Jobs, Serves(j, i, t, b),
         job' = job \/ \E n \in Jobs, m \in Instances, delay \in Nat : IsNextJob(n) /\ job' = Enqueued(n, m, delay)
  PROVE  job'[j] = job[j]
BY DEF IsNextJob, Enqueued, Serves, Shape, TypeOK

LEMMA ClientServes ==
  ASSUME Shape, NEW i, NEW t \in Nat, NEW b, NEW j \in Jobs, Serves(j, i, t, b), Clients
  PROVE  Serves(j, i, t, b)'
<1>1. lane' = lane
  BY ClientsFacts
<1>2. \/ job' = job
      \/ \E n \in Jobs, m \in Instances, delay \in Nat : IsNextJob(n) /\ job' = Enqueued(n, m, delay)
  <2>1. ASSUME NEW m \in Instances, Start(m)
        PROVE  \E n \in Jobs, x \in Instances, delay \in Nat : IsNextJob(n) /\ job' = Enqueued(n, x, delay)
    BY <2>1 DEF Start
  <2>2. CASE Client
    BY <2>2 DEF Client, SignalInsert, SignalAbort
  <2>3. ASSUME NEW s \in Signals, SignalCommit(s)
        PROVE  \E n \in Jobs, x \in Instances, delay \in Nat : IsNextJob(n) /\ job' = Enqueued(n, x, delay)
    <3>1. signal[s].of \in Instances
      BY DEF Shape, TypeOK, SignalRows
    <3> QED BY <2>3, <3>1 DEF SignalCommit
  <2> QED BY <2>1, <2>2, <2>3 DEF Clients
<1>3. job'[j] = job[j]
  BY <1>2, InsertServes
<1> QED BY <1>1, <1>3, ServesStill

LEMMA PassMoves ==
  ASSUME Shape, NEW l \in Lanes, Passes(l)
  PROVE  \E v : lane' = [lane EXCEPT ![l] = v] /\ v.job = lane[l].job /\ v.at \in InRun
<1>1. \E a, w, u, d, t : a \in InRun /\ Becomes(l, State(l, a, w, u, d, t))
  <2>1. {"running", "unsignalled", "suspending", "returning"} \subseteq InRun
    BY DEF InRun
  <2>2. CASE Wake(l) \/ Finish(l) \/ Act(l)
    BY <2>1, <2>2, WakeFacts, FinishFacts, ActFacts
  <2>3. CASE Sleep(l)
    BY <2>1, <2>3, SleepFacts
  <2>4. CASE TakeSignal(l) \/ FindNoSignal(l)
    BY <2>1, <2>4, TakeSignalFacts, FindNoSignalFacts
  <2>5. CASE Suspend(l)
    <3> DEFINE t == Current(l).delay
               w == Copy("waiting_signal", lane[l].work.phase, t, lane[l].work.results \cup Performed(l), lane[l].work.by)
    <3>1. PICK a \in {"returning", "suspending"} : Becomes(l, State(l, a, w, lane[l].used, lane[l].did, t))
      BY <2>5, SuspendFacts
    <3> HIDE DEF t, w
    <3> QED BY <2>1, <3>1
  <2>6. CASE StillWaiting(l) \/ Continue(l)
    BY <2>1, <2>6, StillWaitingFacts, ContinueFacts
  <2>7. CASE FailInstance(l) \/ EnqueueTimer(l)
    BY <2>1, <2>7, FailInstanceFacts, EnqueueTimerFacts
  <2> QED BY <2>2, <2>3, <2>4, <2>5, <2>6, <2>7 DEF Passes
<1>2. PICK a, w, u, d, t : a \in InRun /\ Becomes(l, State(l, a, w, u, d, t))
  BY <1>1
<1> DEFINE v == State(l, a, w, u, d, t)
<1>3. v.job = lane[l].job /\ v.at = a /\ a \in InRun /\ lane' = [lane EXCEPT ![l] = v]
  BY <1>2 DEF Becomes, State
<1> HIDE DEF v
<1> QED BY <1>3

LEMMA CommitServes ==
  ASSUME Shape, NEW i, NEW t \in Nat, NEW b \in {Untouched, Undone}, NEW j \in Jobs, Serves(j, i, t, b),
         NEW l \in Lanes, Commit(l), Instance(l) = i => b = Untouched
  PROVE  Serves(j, i, t, b)'
<1>1. /\ lane[l].at = "returning" /\ lane' = [lane EXCEPT ![l] = Left(l, "committed")]
      /\ \A m \in Lanes \ {l} : lane'[m] = lane[m]
      /\ lane[l].timer \in Nat \cup {NoTime} /\ Instance(l) \in Instances
  BY CommitFacts, LaneTypes DEF Shape
<1>2. Left(l, "committed").at = "committed" /\ Left(l, "committed").job = lane[l].job
  BY <1>1, LeftFacts
<1>3. "returning" \notin Untouched
  BY DEF Untouched
<1>4. lane[l].job # j
  <2>1. CASE Instance(l) = i
    BY <1>1, <1>3, <2>1 DEF Serves, On
  <2>2. CASE Instance(l) # i
    BY <2>2 DEF Serves, Instance
  <2> QED BY <2>1, <2>2
<1>5. lane'[l].job = lane[l].job
  BY <1>1, <1>2 DEF Shape, TypeOK
<1>6. job'[j] = job[j]
  BY <1>1, CommitFacts, InsertServes
<1>7. \A m \in Lanes : lane'[m].at # "idle" /\ lane'[m].job = j =>
         /\ lane[m].at # "idle" /\ lane[m].job = j
         /\ lane[m].at \in b => lane'[m].at \in b
  BY <1>1, <1>4, <1>5
<1> QED BY <1>6, <1>7, ServesStill

LEMMA ServesOn ==
  ASSUME Shape, NEW i, NEW t \in Nat, NEW b \in {Untouched, Undone}, NEW j \in Jobs, Serves(j, i, t, b), Spares(i, b)
  PROVE  Serves(j, i, t, b)'
<1>1. CASE UNCHANGED vars
  BY <1>1, ServesStill DEF vars
<1>2. CASE Clients
  BY <1>2, ClientServes
<1>3. ASSUME NEW l \in Lanes, Take(l) PROVE Serves(j, i, t, b)'
  BY <1>3, TakeServes
<1>4. ASSUME NEW l \in Lanes, Throw(l) \/ ThrowAfterCommit(l) \/ Complete(l) \/ FailJob(l) \/ Crash(l)
      PROVE  Serves(j, i, t, b)'
  BY <1>4, LeaveServes
<1>5. ASSUME NEW l \in Lanes, Passes(l) PROVE Serves(j, i, t, b)'
  <2>1. PICK v : lane' = [lane EXCEPT ![l] = v] /\ v.job = lane[l].job /\ v.at \in InRun
    BY <1>5, PassMoves
  <2>2. lane[l].at \in InRun /\ job' = job /\ lane[l].at # "idle"
    BY <1>5, PassIsInRun DEF OwnStep, InRun
  <2>3. v.at \in b \/ lane[l].at \notin b
    BY <2>1, <2>2 DEF Untouched, Undone, InRun
  <2> QED BY <2>1, <2>2, <2>3, MoveServes
<1>6. ASSUME NEW l \in Lanes, ClaimLease(l), Instance(l) = i => b = Undone /\ row[i].status \in Live
      PROVE  Serves(j, i, t, b)'
  <2>1. PICK a \in {"running", "committed"} :
          /\ a = "running" <=> row[Instance(l)].status \in Live
          /\ Becomes(l, State(l, a, row[Instance(l)], {}, {}, NoTime))
    BY <1>6, ClaimFacts
  <2> DEFINE v == State(l, a, row[Instance(l)], {}, {}, NoTime)
  <2>2. v.at = a /\ v.job = lane[l].job /\ lane' = [lane EXCEPT ![l] = v]
    BY <2>1 DEF State, Becomes
  <2> HIDE DEF v
  <2>3. lane[l].at = "taken" /\ job' = job
    BY <1>6, ClaimFacts
  <2>4. Instance(l) = i => v.at \in b
    BY <1>6, <2>1, <2>2 DEF Undone, InRun
  <2> QED BY <2>2, <2>3, <2>4, MoveServes
<1>7. ASSUME NEW l \in Lanes, Commit(l), Instance(l) = i => b = Untouched PROVE Serves(j, i, t, b)'
  BY <1>7, CommitServes
<1> QED BY <1>1, <1>2, <1>3, <1>4, <1>5, <1>6, <1>7 DEF Spares

LEMMA DueStill ==
  ASSUME Shape, NEW i, NEW t \in Nat, NEW b \in {Untouched, Undone}, DueIn(i, t, b), Spares(i, b)
  PROVE  DueIn(i, t, b)'
BY ServesOn DEF DueIn

(* Time brings what is due and the job that comes for it equally near.     *)
LEMMA TickDue ==
  ASSUME Shape, Tick, NEW i, NEW t \in Nat, NEW b, DueIn(i, t, b)
  PROVE  DueIn(i, Less(t), b)'
<1>1. PICK j \in Jobs : Serves(j, i, t, b)
  BY DEF DueIn
<1>2. /\ job'[j].state = job[j].state /\ job'[j].of = job[j].of /\ job'[j].wait = Less(job[j].wait)
      /\ job[j].wait \in Nat
  BY TickFacts DEF Shape, TypeOK, JobRows
<1>l. \A l \in Lanes : lane'[l].at = lane[l].at /\ lane'[l].job = lane[l].job
  BY TickFacts DEF State
<1>3. \A c : On(j, c)' <=> On(j, c)
  BY <1>l DEF On
<1>4. t = 0 => Less(t) = 0
  BY DEF Less
<1>5. t # 0 /\ job[j].wait >= t => Less(job[j].wait) >= Less(t)
  BY <1>2, WorkflowAssumption DEF Less
<1>6. On(j, {}) => On(j, b)
  BY DEF On
<1> DEFINE u == Less(t)
<1> HIDE DEF u
<1>7. Serves(j, i, u, b)'
  BY <1>1, <1>2, <1>3, <1>4, <1>5, <1>6 DEF Serves, u
<1> QED BY <1>7 DEF DueIn, u
-----------------------------------------------------------------------------
(* A signal that is there after a step was there before it, or its commit  *)
(* has put a job into the queue.                                           *)
LEMMA SignalsCome ==
  ASSUME Shape, [Next]_vars, ~Tick, NEW i \in Instances, NEW k, NEW used, SomeSignal(i, k, used)',
         NEW b
  PROVE  SomeSignal(i, k, used) \/ DueIn(i, 0, b)'
<1>1. PICK s \in Signals \ used : signal'[s].state = "pending" /\ Mine(i, k, s)'
  BY DEF SomeSignal
<1>2. ASSUME signal[s].state = "pending", signal'[s].of = signal[s].of, signal'[s].name = signal[s].name, def' = def
      PROVE  SomeSignal(i, k, used)
  BY <1>1, <1>2 DEF SomeSignal, Mine
<1>3. CASE UNCHANGED <<signal, def>>
  BY <1>1, <1>2, <1>3
<1>4. ASSUME NEW l \in Lanes, Commit(l) PROVE SomeSignal(i, k, used)
  BY <1>1, <1>2, <1>4, CommitFacts
<1>5. ASSUME NEW m \in Instances, NEW name \in SignalNames, SignalInsert(m, name) PROVE SomeSignal(i, k, used)
  <2>1. PICK r \in Signals : signal' = [signal EXCEPT ![r] = [state |-> "inserted", of |-> m, name |-> name]]
    BY <1>5 DEF SignalInsert
  <2>2. signal'[s] = signal[s] /\ def' = def
    BY <1>1, <1>5, <2>1 DEF SignalInsert, Shape, TypeOK
  <2> QED BY <1>1, <1>2, <2>2
<1>6. ASSUME NEW r \in Signals, SignalAbort(r) PROVE SomeSignal(i, k, used)
  <2>1. signal'[s] = signal[s] /\ def' = def
    BY <1>1, <1>6 DEF SignalAbort, Shape, TypeOK, SignalRows
  <2> QED BY <1>1, <1>2, <2>1
<1>7. ASSUME NEW r \in Signals, SignalCommit(r) PROVE SomeSignal(i, k, used) \/ DueIn(i, 0, b)'
  <2>1. CASE s # r
    <3>1. signal'[s] = signal[s] /\ def' = def
      BY <1>1, <1>7, <2>1 DEF SignalCommit, Shape, TypeOK
    <3> QED BY <1>1, <1>2, <3>1
  <2>2. CASE s = r
    <3>1. signal[s].of = i
      BY <1>1, <1>7, <2>2 DEF SignalCommit, Mine, Shape, TypeOK, SignalRows
    <3>2. PICK j \in Jobs : IsNextJob(j) /\ job' = Enqueued(j, i, 0)
      BY <1>7, <2>2, <3>1 DEF SignalCommit
    <3>3. lane' = lane
      BY <1>7 DEF SignalCommit
    <3>4. Serves(j, i, 0, b)'
      BY <3>2, <3>3, NewJobServes
    <3> QED BY <3>4 DEF DueIn
  <2> QED BY <2>1, <2>2
<1>8. ASSUME NEW m \in Instances, Start(m) PROVE UNCHANGED <<signal, def>>
  BY <1>8 DEF Start
<1>9. ASSUME NEW l \in Lanes,
             \/ Take(l) \/ ClaimLease(l) \/ Passes(l) \/ Throw(l) \/ ThrowAfterCommit(l) \/ Complete(l) \/ FailJob(l)
             \/ Crash(l)
      PROVE  UNCHANGED <<signal, def>>
  BY <1>9, PassIsInRun DEF Take, ClaimLease, Throw, ThrowAfterCommit, Complete, FailJob, Crash, OwnStep
<1>10. CASE UNCHANGED vars
  BY <1>3, <1>10 DEF vars
<1> QED BY <1>3, <1>4, <1>5, <1>6, <1>7, <1>8, <1>9, <1>10, NextSteps DEF Clients, Client

(* A row that a step leaves alone. *)
LEMMA RowStill ==
  ASSUME Shape, Wakes, [Next]_vars, ~Tick, NEW i \in Instances, row'[i] = row[i],
         \A l \in Lanes : Commit(l) => Instance(l) # i
  PROVE  RowWakes(i)'
<1>1. row[i].status \in Live => Spares(i, Undone)
  BY NextSteps DEF Spares
<1>2. row[i].wake # NoTime => row[i].status \in Live /\ row[i].wake \in Nat
  BY DEF Shape, TypeOK, Rows, Live
<1>3. RowWakes(i)
  BY DEF Wakes
<1>4. ASSUME NEW t \in Nat, DueIn(i, t, Undone), row[i].status \in Live PROVE DueIn(i, t, Undone)'
  BY <1>1, <1>4, DueStill
<1>5. ASSUME row[i].status = "running" \/ (row[i].status = "waiting_signal" /\ SomeSignal(i, row[i].phase, {})')
      PROVE  DueIn(i, 0, Undone)'
  <2>1. row[i].status \in Live
    BY <1>5 DEF Live
  <2>2. SomeSignal(i, row[i].phase, {})' => SomeSignal(i, row[i].phase, {}) \/ DueIn(i, 0, Undone)'
    <3> DEFINE k == row[i].phase
    <3>1. k' = k
      OBVIOUS
    <3>2. PICK n : n = k
      OBVIOUS
    <3>3. SomeSignal(i, n, {})' => SomeSignal(i, n, {}) \/ DueIn(i, 0, Undone)'
      BY SignalsCome
    <3> QED BY <3>1, <3>2, <3>3
  <2> QED BY <1>3, <1>4, <1>5, <2>1, <2>2 DEF RowWakes
<1>6. ASSUME row[i].wake # NoTime PROVE DueIn(i, row[i].wake, Undone)'
  <2>1. PICK t \in Nat : t = row[i].wake
    BY <1>2, <1>6
  <2>2. DueIn(i, t, Undone)'
    BY <1>2, <1>3, <1>4, <1>6, <2>1 DEF RowWakes
  <2>3. row'[i].wake = t
    BY <2>1
  <2> QED BY <2>2, <2>3
<1> QED BY <1>5, <1>6 DEF RowWakes

(* The row that a run writes back: what the run left to do is its timer's, *)
(* or a job's that no run has begun with.                                  *)
LEMMA CommitRowWakes ==
  ASSUME Shape, Wakes, NEW l \in Lanes, Commit(l), NEW i \in Instances, Instance(l) = i
  PROVE  RowWakes(i)'
<1> DEFINE v == lane[l]
           w == v.work
<1>1. /\ i \in Instances /\ v.at = "returning" /\ v.at \in InRun /\ v.at \in Decided /\ RunOK(i, v)
      /\ row' = [row EXCEPT ![i] = w] /\ lane' = [lane EXCEPT ![l] = Left(l, "committed")]
  BY CommitFacts DEF Decided
<1>2. row'[i] = w /\ RunWakes(i, v) /\ w.phase \in Nat /\ v.timer \in Nat \cup {NoTime} /\ w.wake \in Nat \cup {NoTime}
  BY <1>1, LaneTypes DEF Wakes, Shape, TypeOK
<1>3. ~(w.status = "running") /\ Spares(i, Untouched)
  BY <1>1 DEF RunOK, Ended, Spares
<1>6. PICK k, u, c : k = w.phase /\ u = v.used /\ c = w.wake
  OBVIOUS
<1>7. \A t \in Nat : DueIn(i, t, Untouched) => DueIn(i, t, Undone)'
  <2> TAKE t \in Nat
  <2>1. DueIn(i, t, Untouched) => DueIn(i, t, Untouched)'
    BY <1>3, <1>6, DueStill
  <2>2. DueIn(i, t, Untouched)' => DueIn(i, t, Undone)'
    BY DEF DueIn, Serves, On, Untouched, Undone
  <2> QED BY <2>1, <2>2
(* A signal for the wait the run has decided on that its commit leaves. *)
<1>8. ASSUME w.status = "waiting_signal", SomeSignal(i, k, {})' PROVE DueIn(i, 0, Undone)'
  <2>1. PICK s \in Signals : signal'[s].state = "pending" /\ Mine(i, k, s)'
    BY <1>8 DEF SomeSignal
  <2>2. s \notin u /\ signal[s].state = "pending" /\ Mine(i, k, s)
    BY <1>6, <2>1, CommitFacts DEF Mine
  <2>3. DueIn(i, 0, Untouched)
    BY <1>1, <1>2, <1>6, <1>8, <2>2 DEF RunWakes, SomeSignal
  <2> QED BY <1>7, <2>3
<1>9. ASSUME w.wake # NoTime PROVE DueIn(i, c, Undone)'
  <2>1. c \in Nat
    BY <1>2, <1>6, <1>9
  <2>2. CASE v.timer = NoTime
    BY <1>1, <1>2, <1>6, <1>7, <1>9, <2>1, <2>2 DEF RunWakes
  <2>3. CASE v.timer # NoTime
    <3>1. PICK n \in Nat : n = v.timer
      BY <1>2, <2>3
    <3>2. c <= n
      BY <1>1, <1>2, <1>6, <1>9, <2>1, <2>3, <3>1 DEF RunWakes
    <3>3. PICK j \in Jobs : IsNextJob(j) /\ job' = Enqueued(j, i, n)
      BY <1>6, <2>3, <3>1, CommitFacts
    <3>4. Left(l, "committed").job = lane[l].job /\ lane[l].at # "idle"
      BY <1>1, LeftFacts
    <3>5. \A x \in Lanes : lane'[x].at # "idle" => lane[x].at # "idle" /\ lane'[x].job = lane[x].job
      BY <1>1, <3>4 DEF Shape, TypeOK
    <3>6. Serves(j, i, c, Undone)'
      BY <2>1, <3>2, <3>3, <3>5, NewJobServes
    <3> QED BY <3>6 DEF DueIn
  <2> QED BY <2>2, <2>3
<1> HIDE DEF v, w
<1>10. row'[i].status = w.status /\ row'[i].phase = k /\ row'[i].wake = c /\ w.wake = c /\ w.status # "running"
  BY <1>3, <1>2, <1>6
<1>11. row'[i].wake # NoTime => DueIn(i, row[i].wake, Undone)'
  BY <1>9, <1>10 DEF DueIn, Serves, On
<1>12. row'[i].status = "waiting_signal" /\ SomeSignal(i, row[i].phase, {})' => DueIn(i, 0, Undone)'
  BY <1>8, <1>10 DEF SomeSignal, Mine
<1> QED BY <1>10, <1>11, <1>12 DEF RowWakes

LEMMA StartRowWakes ==
  ASSUME Shape, Wakes, NEW i \in Instances, Start(i)
  PROVE  RowWakes(i)'
<1>1. row[i].status = "absent" /\ lane' = lane /\ row'[i] = Copy("running", row[i].phase, row[i].wake, row[i].results, row[i].by)
  BY StartFacts
<1>c. row'[i].wake = row[i].wake /\ row'[i].status = "running"
  BY <1>1 DEF Copy
<1>2. row[i].wake = NoTime
  BY <1>1 DEF Shape, TypeOK
<1>3. PICK j \in Jobs : IsNextJob(j) /\ job' = Enqueued(j, i, 0)
  BY StartFacts
<1>4. Serves(j, i, 0, Undone)'
  BY <1>1, <1>3, NewJobServes
<1>5. DueIn(i, 0, Undone)'
  BY <1>4 DEF DueIn
<1> QED BY <1>c, <1>2, <1>5 DEF RowWakes

LEMMA TickRowWakes ==
  ASSUME Shape, Wakes, Tick, NEW i \in Instances
  PROVE  RowWakes(i)'
<1>c. row'[i] = Copy(row[i].status, row[i].phase, Less(row[i].wake), row[i].results, row[i].by)
  BY TickFacts
<1>t. UNCHANGED <<def, signal>> /\ row[i].wake \in Nat \cup {NoTime}
  BY TickFacts DEF Shape, TypeOK, Rows
<1>1. /\ row'[i].status = row[i].status /\ row'[i].phase = row[i].phase /\ row'[i].wake = Less(row[i].wake)
      /\ UNCHANGED <<def, signal>> /\ row[i].wake \in Nat \cup {NoTime}
  BY <1>c, <1>t DEF Copy
<1>2. RowWakes(i)
  BY DEF Wakes
<1>3. ASSUME NEW t \in Nat, DueIn(i, t, Undone) PROVE DueIn(i, Less(t), Undone)'
  BY <1>3, TickDue
<1>4. Less(0) = 0 /\ Less(NoTime) = NoTime
  BY DEF Less
<1>5. SomeSignal(i, row[i].phase, {})' <=> SomeSignal(i, row[i].phase, {})
  BY <1>1 DEF SomeSignal, Mine
<1>6. row[i].status = "running" \/ (row[i].status = "waiting_signal" /\ SomeSignal(i, row[i].phase, {})) =>
        DueIn(i, 0, Undone)'
  <2>1. DueIn(i, 0, Undone) => DueIn(i, 0, Undone)'
    BY <1>3, <1>4
  <2> QED BY <1>2, <2>1 DEF RowWakes
<1>7. ASSUME row'[i].wake # NoTime PROVE DueIn(i, row[i].wake, Undone)'
  <2>1. PICK t \in Nat : t = row[i].wake
    BY <1>1, <1>4, <1>7
  <2>2. DueIn(i, t, Undone)
    BY <1>2, <2>1, WorkflowAssumption DEF RowWakes
  <2>3. PICK u : u = Less(t)
    OBVIOUS
  <2>4. DueIn(i, u, Undone)'
    BY <1>3, <2>2, <2>3
  <2>5. row'[i].wake = u
    BY <1>1, <2>1, <2>3
  <2> QED BY <2>4, <2>5 DEF DueIn, Serves, On
<1> QED BY <1>1, <1>5, <1>6, <1>7 DEF RowWakes

LEMMA RowsWake ==
  ASSUME Shape, Wakes, [Next]_vars, NEW i \in Instances
  PROVE  RowWakes(i)'
<1>1. CASE Tick
  BY <1>1, TickRowWakes
<1>2. CASE Start(i)
  BY <1>2, StartRowWakes
<1>3. ASSUME NEW l \in Lanes, Commit(l), Instance(l) = i PROVE RowWakes(i)'
  BY <1>3, CommitRowWakes
<1>4. ASSUME ~Tick, ~Start(i), \A l \in Lanes : Commit(l) => Instance(l) # i PROVE row'[i] = row[i]
  <2>1. CASE UNCHANGED vars
    BY <2>1 DEF vars
  <2>2. CASE Clients
    <3>1. ASSUME NEW m \in Instances, Start(m) PROVE row'[i] = row[i]
      BY <1>4, <3>1, StartFacts
    <3> QED BY <2>2, <3>1, ClientsFacts
  <2>3. ASSUME NEW l \in Lanes, Commit(l) PROVE row'[i] = row[i]
    BY <1>4, <2>3, CommitFacts
  <2>4. ASSUME NEW l \in Lanes,
               \/ Take(l) \/ ClaimLease(l) \/ Passes(l) \/ Throw(l) \/ ThrowAfterCommit(l) \/ Complete(l) \/ FailJob(l)
               \/ Crash(l)
        PROVE  row' = row
    BY <2>4, PassIsInRun DEF Take, ClaimLease, Throw, ThrowAfterCommit, Complete, FailJob, Crash, OwnStep
  <2> QED BY <1>4, <2>1, <2>2, <2>3, <2>4, NextSteps
<1> QED BY <1>1, <1>2, <1>3, <1>4, RowStill
-----------------------------------------------------------------------------
(* What has to hold of a run after a step.                                 *)
LEMMA RunWakesBy ==
  ASSUME NEW m \in Lanes, NEW i, Instance(m)' = i, NEW a, NEW st, NEW k, NEW c, NEW u, NEW t,
         lane'[m].at = a, lane'[m].work.status = st, lane'[m].work.phase = k, lane'[m].work.wake = c,
         lane'[m].used = u, lane'[m].timer = t,
         (a = "unsignalled" \/ (a \in Decided /\ st = "waiting_signal")) /\ SomeSignal(i, k, u)'
           => DueIn(i, 0, Untouched)',
         a \in Decided /\ c # NoTime => IF t # NoTime THEN t >= c ELSE DueIn(i, c, Untouched)',
         a \in Decided /\ c = NoTime => t = NoTime
  PROVE  RunWakes(Instance(m), lane[m])'
<1>1. DueIn(Instance(m), 0, Untouched)' <=> DueIn(i, 0, Untouched)'
  BY DEF DueIn, Serves, On
<1>2. DueIn(Instance(m), lane[m].work.wake, Untouched)' <=> DueIn(i, c, Untouched)'
  BY DEF DueIn, Serves, On
<1>3. SomeSignal(Instance(m), lane[m].work.phase, lane[m].used)' <=> SomeSignal(i, k, u)'
  BY DEF SomeSignal, Mine
<1> QED BY <1>1, <1>2, <1>3 DEF RunWakes

(* A run that a step leaves alone. *)
LEMMA RunStill ==
  ASSUME Shape, Wakes, [Next]_vars, ~Tick, NEW m \in Lanes, lane'[m] = lane[m], lane[m].at \in InRun,
         Spares(Instance(m), Untouched), Instance(m)' = Instance(m), Instance(m) \in Instances
  PROVE  RunWakes(Instance(m), lane[m])'
<1>1. PICK i \in Instances : i = Instance(m)
  OBVIOUS
<1> DEFINE v == lane[m]
           w == v.work
<1>2. PICK a, st, k, c, u, t : a = v.at /\ st = w.status /\ k = w.phase /\ c = w.wake /\ u = v.used /\ t = v.timer
  OBVIOUS
<1>3. RunWakes(i, v)
  BY <1>1 DEF Wakes
<1>4. \A n \in Nat : DueIn(i, n, Untouched) => DueIn(i, n, Untouched)'
  BY <1>1, DueStill
<1>5. c \in Nat \cup {NoTime}
  BY <1>2, LaneTypes DEF Shape
<1>6. SomeSignal(i, k, u)' => SomeSignal(i, k, u) \/ DueIn(i, 0, Untouched)'
  BY SignalsCome
<1>7. (a = "unsignalled" \/ (a \in Decided /\ st = "waiting_signal")) /\ SomeSignal(i, k, u)'
        => DueIn(i, 0, Untouched)'
  BY <1>2, <1>3, <1>4, <1>6 DEF RunWakes
<1>8. a \in Decided /\ c # NoTime => IF t # NoTime THEN t >= c ELSE DueIn(i, c, Untouched)'
  BY <1>2, <1>3, <1>4, <1>5 DEF RunWakes
<1>9. a \in Decided /\ c = NoTime => t = NoTime
  BY <1>2, <1>3 DEF RunWakes
<1> QED BY <1>1, <1>2, <1>7, <1>8, <1>9, RunWakesBy

LEMMA TickRunWakes ==
  ASSUME Shape, Wakes, Tick, NEW m \in Lanes, lane[m].at \in InRun
  PROVE  RunWakes(Instance(m), lane[m])'
<1> DEFINE v == lane[m]
           w == v.work
<1>1. PICK i \in Instances : i = Instance(m)
  BY LaneFacts DEF Shape, InRun
<1>2. lane'[m] = State(m, v.at, Copy(w.status, w.phase, Less(w.wake), w.results, w.by), v.used, v.did,
                       IF v.at = "returning" THEN Less(v.timer) ELSE v.timer)
  BY TickFacts
<1>3. PICK a, st, k, c, u, t : a = v.at /\ st = w.status /\ k = w.phase /\ c = w.wake /\ u = v.used /\ t = v.timer
  OBVIOUS
<1>4. PICK d, n : d = Less(c) /\ n = IF a = "returning" THEN Less(t) ELSE t
  OBVIOUS
<1>5. /\ lane'[m].at = a /\ lane'[m].work.status = st /\ lane'[m].work.phase = k /\ lane'[m].work.wake = d
      /\ lane'[m].used = u /\ lane'[m].timer = n /\ lane'[m].job = lane[m].job
  BY <1>2, <1>3, <1>4 DEF State, Copy
<1>6. Instance(m)' = i
  BY <1>1, <1>5, TickFacts, LaneFacts DEF Instance, Shape, InRun
<1>7. RunWakes(i, v)
  BY <1>1 DEF Wakes
<1>8. \A x \in Nat : DueIn(i, x, Untouched) => DueIn(i, Less(x), Untouched)'
  BY TickDue
<1>9. c \in Nat \cup {NoTime} /\ t \in Nat \cup {NoTime}
  BY <1>3, LaneTypes DEF Shape
<1>10. SomeSignal(i, k, u)' <=> SomeSignal(i, k, u)
  BY TickFacts DEF SomeSignal, Mine
<1>11. (a = "unsignalled" \/ (a \in Decided /\ st = "waiting_signal")) /\ SomeSignal(i, k, u)'
        => DueIn(i, 0, Untouched)'
  <2>1. Less(0) = 0
    BY DEF Less
  <2>2. DueIn(i, 0, Untouched) => DueIn(i, 0, Untouched)'
    BY <1>8, <2>1
  <2> QED BY <1>3, <1>7, <1>10, <2>2 DEF RunWakes
<1>12. a \in Decided /\ d # NoTime => IF n # NoTime THEN n >= d ELSE DueIn(i, d, Untouched)'
  <2> SUFFICES ASSUME a \in Decided, d # NoTime PROVE IF n # NoTime THEN n >= d ELSE DueIn(i, d, Untouched)'
    OBVIOUS
  <2>1. c \in Nat /\ d \in Nat /\ d <= c
    BY <1>4, <1>9, LessFacts
  <2>2. IF t # NoTime THEN t >= c ELSE DueIn(i, c, Untouched)
    BY <1>3, <1>7, <2>1, WorkflowAssumption DEF RunWakes
  <2>3. CASE t = NoTime
    BY <1>4, <1>8, <2>1, <2>2, <2>3, LessFacts
  <2>4. CASE t # NoTime
    <3>1. t \in Nat /\ t >= c
      BY <1>9, <2>2, <2>4
    <3>2. Less(t) \in Nat /\ Less(t) >= Less(c)
      BY <2>1, <3>1, WorkflowAssumption DEF Less
    <3> QED BY <1>4, <2>1, <3>1, <3>2, WorkflowAssumption
  <2> QED BY <2>3, <2>4
<1>13. a \in Decided /\ d = NoTime => n = NoTime
  <2>1. d = NoTime => c = NoTime
    BY <1>4, <1>9, LessFacts
  <2> QED BY <1>3, <1>4, <1>7, <2>1 DEF RunWakes, Less
<1> HIDE DEF v, w
<1> QED BY <1>5, <1>6, <1>11, <1>12, <1>13, RunWakesBy

(***************************************************************************)
(* The steps of a run.  It looks for a signal before it decides to wait,   *)
(* so one that comes later has put a job into the queue behind its back;   *)
(* a suspension that it finds, and leaves, has the timer of an earlier run.*)
(***************************************************************************)
LEMMA PassRunWakes ==
  ASSUME Shape, Linked, Wakes, NEW l \in Lanes, Passes(l)
  PROVE  RunWakes(Instance(l), lane[l])'
<1> DEFINE v == lane[l]
           w == v.work
           r == row[Instance(l)]
<1>1. OwnStep /\ v.at \in InRun /\ v.at # "idle" /\ v.work \in Rows
  BY PassIsInRun, LaneTypes DEF Shape, InRun
<1>2. PICK i \in Instances : i = Instance(l)
  BY <1>1, LaneFacts DEF Shape
<1>3. Spares(i, Untouched) /\ RunWakes(i, v) /\ RowWakes(i) /\ LinkedTo(r, v) /\ r = row[i]
  BY <1>1, <1>2 DEF Spares, Wakes, Linked
<1>4. \A n \in Nat : DueIn(i, n, Untouched) => DueIn(i, n, Untouched)'
  BY <1>3, DueStill
<1>5. \A k, u : SomeSignal(i, k, u)' <=> SomeSignal(i, k, u)
  BY <1>1 DEF OwnStep, SomeSignal, Mine
<1>6. v.at \in {"running", "unsignalled"} => v.timer = NoTime
  BY LaneFacts DEF Shape, HoldOK
<1>7. v.timer \in Nat \cup {NoTime} /\ w.wake \in Nat \cup {NoTime} /\ NoTime \notin Nat
  BY LaneTypes, WorkflowAssumption DEF Shape
(* What a new state of the lane has to fulfil. *)
<1>8. ASSUME NEW a, NEW st, NEW k, NEW c, NEW rs, NEW by, NEW u, NEW e, NEW t,
             Becomes(l, State(l, a, Copy(st, k, c, rs, by), u, e, t)),
             (a = "unsignalled" \/ (a \in Decided /\ st = "waiting_signal")) /\ SomeSignal(i, k, u) => DueIn(i, 0, Untouched),
             a \in Decided /\ c # NoTime => IF t # NoTime THEN t >= c ELSE c \in Nat /\ DueIn(i, c, Untouched),
             a \in Decided /\ c = NoTime => t = NoTime
      PROVE  RunWakes(Instance(l), lane[l])'
  <2> DEFINE y == State(l, a, Copy(st, k, c, rs, by), u, e, t)
  <2>1. /\ y.at = a /\ y.work.status = st /\ y.work.phase = k /\ y.work.wake = c /\ y.used = u /\ y.timer = t
        /\ y.job = lane[l].job
    BY DEF State, Copy
  <2>2. lane'[l] = y
    BY <1>8 DEF Becomes, Shape, TypeOK
  <2> HIDE DEF y
  <2>3. Instance(l)' = i
    BY <1>1, <1>2, <2>1, <2>2 DEF Instance, OwnStep
  <2>4. (a = "unsignalled" \/ (a \in Decided /\ st = "waiting_signal")) /\ SomeSignal(i, k, u)'
           => DueIn(i, 0, Untouched)'
    BY <1>4, <1>5, <1>8
  <2>5. a \in Decided /\ c # NoTime => IF t # NoTime THEN t >= c ELSE DueIn(i, c, Untouched)'
    BY <1>4, <1>8
  <2> QED BY <1>8, <2>1, <2>2, <2>3, <2>4, <2>5, RunWakesBy
<1>9. "running" \notin Decided /\ "unsignalled" \notin Decided /\ {"suspending", "returning"} \subseteq Decided
  BY DEF Decided
<1>10. w = Copy(w.status, w.phase, w.wake, w.results, w.by)
  BY <1>1, RowIsCopy
(* A suspension that the run has found in the row and leaves as it is.     *)
<1>11. ASSUME v.at \in {"running", "unsignalled"}, w.status \in Suspended, w.wake # 0, w.wake # NoTime
       PROVE  w.wake \in Nat /\ DueIn(i, w.wake, Untouched)
  <2>1. row[i].wake = w.wake /\ w.wake \in Nat
    BY <1>3, <1>7, <1>11 DEF LinkedTo
  <2>2. DueIn(i, w.wake, Undone)
    BY <1>3, <1>11, <2>1 DEF RowWakes
  <2> QED BY <1>11, <2>1, <2>2, LaterIsBoth DEF DueIn
<1> HIDE DEF v, w, r
<1>12. CASE Wake(l)
  <2>1. /\ v.at = "running" /\ w.status = "sleeping"
        /\ \/ Becomes(l, State(l, "running", Copy("running", w.phase, NoTime, w.results, w.by), v.used, v.did, v.timer))
           \/ w.wake # 0 /\ Becomes(l, State(l, "returning", w, v.used, v.did, v.timer))
    BY <1>12, WakeFacts DEF v, w
  <2>2. CASE Becomes(l, State(l, "running", Copy("running", w.phase, NoTime, w.results, w.by), v.used, v.did, v.timer))
    BY <1>8, <1>9, <2>2
  <2>3. CASE w.wake # 0 /\ Becomes(l, State(l, "returning", w, v.used, v.did, v.timer))
    <3>1. v.timer = NoTime /\ w.wake # NoTime
      BY <1>1, <1>6, <2>1 DEF Shape, RunsSound, RunOK, Sound, v, w
    <3>2. w.wake \in Nat /\ DueIn(i, w.wake, Untouched)
      BY <1>11, <2>1, <2>3, <3>1 DEF Suspended
    <3>3. Becomes(l, State(l, "returning", Copy(w.status, w.phase, w.wake, w.results, w.by), v.used, v.did, v.timer))
      BY <1>10, <2>3
    <3> QED BY <1>8, <2>1, <3>1, <3>2, <3>3
  <2> QED BY <2>1, <2>2, <2>3
<1>13. CASE Finish(l)
  <2>1. v.at = "running"
        /\ Becomes(l, State(l, "returning", Copy("completed", w.phase, NoTime, w.results, w.by), v.used, v.did, v.timer))
    BY <1>13, FinishFacts DEF v, w
  <2> QED BY <1>6, <1>8, <2>1
<1>14. CASE Act(l)
  <2>1. Becomes(l, State(l, "running", Copy("running", w.phase + 1, NoTime, w.results \cup {w.phase}, w.by), v.used,
                         v.did \cup {w.phase}, v.timer))
    BY <1>14, ActFacts DEF v, w
  <2> QED BY <1>8, <1>9, <2>1
<1>15. CASE Sleep(l)
  <2> DEFINE delay == Current(l).delay
  <2>1. /\ delay \in Nat
        /\ \/ Becomes(l, State(l, "running", Copy("running", w.phase + 1, NoTime, w.results, w.by), v.used, v.did, v.timer))
           \/ Becomes(l, State(l, "suspending", Copy("sleeping", w.phase + 1, delay, w.results, w.by), v.used, v.did, delay))
    BY <1>15, SleepFacts DEF v, w
  <2> HIDE DEF delay
  <2>2. CASE Becomes(l, State(l, "running", Copy("running", w.phase + 1, NoTime, w.results, w.by), v.used, v.did, v.timer))
    BY <1>8, <1>9, <2>2
  <2>3. CASE Becomes(l, State(l, "suspending", Copy("sleeping", w.phase + 1, delay, w.results, w.by), v.used, v.did, delay))
    <3>1. delay # NoTime /\ delay >= delay
      BY <1>7, <2>1
    <3> QED BY <1>8, <2>3, <3>1
  <2> QED BY <2>1, <2>2, <2>3
<1>16. CASE TakeSignal(l)
  <2> DEFINE p == w.phase
  <2>1. PICK s \in Signals :
          Becomes(l, State(l, "running", Copy("running", p + 1, NoTime, w.results, [w.by EXCEPT ![p] = s]),
                           v.used \cup {s}, v.did \cup Performed(l), v.timer))
    BY <1>16, TakeSignalFacts DEF v, w
  <2> DEFINE passed == [w.by EXCEPT ![p] = s]
  <2>2. Becomes(l, State(l, "running", Copy("running", p + 1, NoTime, w.results, passed),
                         v.used \cup {s}, v.did \cup Performed(l), v.timer))
    BY <2>1
  <2> HIDE DEF passed, p
  <2> QED BY <1>8, <1>9, <2>2
<1>17. CASE FindNoSignal(l)
  <2>1. /\ v.at = "running" /\ Pending(l) = {}
        /\ Becomes(l, State(l, "unsignalled", w, v.used, v.did \cup Performed(l), v.timer))
    BY <1>17, FindNoSignalFacts DEF v, w
  <2>2. ~SomeSignal(i, w.phase, v.used)
    BY <1>2, <2>1 DEF SomeSignal, Mine, Pending, Current, Definition, v, w
  <2>3. Becomes(l, State(l, "unsignalled", Copy(w.status, w.phase, w.wake, w.results, w.by), v.used,
                         v.did \cup Performed(l), v.timer))
    BY <1>10, <2>1
  <2> QED BY <1>8, <1>9, <2>2, <2>3
<1>18. v.at = "unsignalled" /\ SomeSignal(i, w.phase, v.used) => DueIn(i, 0, Untouched)
  BY <1>3 DEF RunWakes, w
<1>19. CASE Suspend(l)
  <2> DEFINE delay == Current(l).delay
             rs == w.results \cup Performed(l)
  <2>1. v.at = "unsignalled" /\ delay \in Nat \cup {NoTime}
    BY <1>19, SuspendFacts, UnsignalledFacts DEF v
  <2>2. PICK a \in {"returning", "suspending"} :
          Becomes(l, State(l, a, Copy("waiting_signal", w.phase, delay, rs, w.by), v.used, v.did, delay))
    BY <1>19, SuspendFacts DEF v, w
  <2> HIDE DEF delay, rs
  <2>3. delay # NoTime => delay >= delay
    BY <2>1
  <2> QED BY <1>8, <1>18, <2>1, <2>2, <2>3
<1>20. CASE StillWaiting(l)
  <2>1. /\ v.at = "unsignalled" /\ w.status = "waiting_signal" /\ w.wake # 0
        /\ Becomes(l, State(l, "returning", w, v.used, v.did, v.timer))
    BY <1>20, StillWaitingFacts DEF v, w
  <2>2. v.timer = NoTime
    BY <1>6, <2>1
  <2>3. w.wake # NoTime => w.wake \in Nat /\ DueIn(i, w.wake, Untouched)
    BY <1>11, <2>1 DEF Suspended
  <2>4. Becomes(l, State(l, "returning", Copy(w.status, w.phase, w.wake, w.results, w.by), v.used, v.did, v.timer))
    BY <1>10, <2>1
  <2> QED BY <1>8, <1>18, <2>1, <2>2, <2>3, <2>4
<1>21. CASE Continue(l)
  <2> DEFINE passed == [w.by EXCEPT ![w.phase] = ByTimeout]
  <2>1. Becomes(l, State(l, "running", Copy("running", w.phase + 1, NoTime, w.results, passed), v.used, v.did, v.timer))
    BY <1>21, ContinueFacts DEF v, w
  <2> HIDE DEF passed
  <2> QED BY <1>8, <1>9, <2>1
<1>22. CASE FailInstance(l)
  <2>1. v.at = "unsignalled"
        /\ Becomes(l, State(l, "returning", Copy("failed", w.phase, NoTime, w.results, w.by), v.used, v.did, v.timer))
    BY <1>22, FailInstanceFacts DEF v, w
  <2> QED BY <1>6, <1>8, <2>1
<1>23. CASE EnqueueTimer(l)
  <2>1. v.at = "suspending" /\ Becomes(l, State(l, "returning", w, v.used, v.did, v.timer))
    BY <1>23, EnqueueTimerFacts DEF v, w
  <2>2. v.timer # NoTime
    BY <1>1, <2>1 DEF Shape, RunsSound, RunOK, v
  <2>3. (w.status = "waiting_signal") /\ SomeSignal(i, w.phase, v.used) => DueIn(i, 0, Untouched)
    BY <1>3, <1>9, <2>1 DEF RunWakes, w
  <2>4. /\ w.wake # NoTime => v.timer >= w.wake
        /\ w.wake = NoTime => v.timer = NoTime
    BY <1>3, <1>9, <2>1, <2>2 DEF RunWakes, w
  <2>5. Becomes(l, State(l, "returning", Copy(w.status, w.phase, w.wake, w.results, w.by), v.used, v.did, v.timer))
    BY <1>10, <2>1
  <2> QED BY <1>8, <2>2, <2>3, <2>4, <2>5
<1> QED BY <1>12, <1>13, <1>14, <1>15, <1>16, <1>17, <1>19, <1>20, <1>21, <1>22, <1>23 DEF Passes

LEMMA RunsWake ==
  ASSUME Shape, Linked, Wakes, [Next]_vars, NEW m \in Lanes, lane'[m].at \in InRun
  PROVE  RunWakes(Instance(m), lane[m])'
<1>1. CASE Tick
  BY <1>1, TickFacts, TickRunWakes DEF State
<1>2. CASE Passes(m)
  BY <1>2, PassRunWakes
<1>3. CASE ClaimLease(m)
  <2> DEFINE i == Instance(m)
  <2>1. PICK a \in {"running", "committed"} : Becomes(m, State(m, a, row[i], {}, {}, NoTime))
    BY <1>3, ClaimFacts
  <2>2. lane'[m].at = a
    BY <2>1 DEF Becomes, State, Shape, TypeOK
  <2> QED BY <2>2 DEF RunWakes, Decided
<1>4. CASE ~Tick /\ ~Passes(m) /\ ~ClaimLease(m)
  <2>1. lane'[m] = lane[m] /\ JobsKept
    <3>1. CASE UNCHANGED vars \/ Clients
      BY <3>1, ClientsFacts DEF vars, Shape, TypeOK, JobsKept
    <3>2. ASSUME NEW l \in Lanes, Take(l) \/ Throw(l) \/ ThrowAfterCommit(l) \/ Complete(l) \/ FailJob(l) \/ Crash(l)
          PROVE  lane'[m] = lane[m] /\ JobsKept
      <4>1. PICK v : lane' = [lane EXCEPT ![l] = v] /\ v.at \notin InRun
        BY <3>2, OutLane
      <4>2. JobsKept
        BY <3>2, OutJobs
      <4> QED BY <4>1, <4>2 DEF Shape, TypeOK, InRun
    <3>3. ASSUME NEW l \in Lanes, Commit(l) PROVE lane'[m] = lane[m] /\ JobsKept
      <4>1. lane' = [lane EXCEPT ![l] = Left(l, "committed")] /\ Left(l, "committed").at = "committed" /\ JobsKept
        BY <3>3, CommitFacts, LeftFacts
      <4> QED BY <4>1 DEF Shape, TypeOK, InRun
    <3>4. ASSUME NEW l \in Lanes, Passes(l) PROVE lane'[m] = lane[m] /\ JobsKept
      <4>1. PICK v : lane' = [lane EXCEPT ![l] = v]
        BY <3>4, PassMoves
      <4>2. l # m /\ job' = job
        BY <1>4, <3>4, PassIsInRun DEF OwnStep
      <4> QED BY <4>1, <4>2 DEF Shape, TypeOK, JobsKept
    <3>5. ASSUME NEW l \in Lanes, ClaimLease(l) PROVE lane'[m] = lane[m] /\ JobsKept
      BY <1>4, <3>5 DEF ClaimLease, Shape, TypeOK, JobsKept
    <3> QED BY <1>4, <3>1, <3>2, <3>3, <3>4, <3>5, NextSteps
  <2>2. lane[m].at \in InRun /\ lane[m].at # "idle"
    BY <2>1 DEF InRun
  <2>3. Instance(m)' = Instance(m) /\ Instance(m) \in Instances
    BY <2>1, <2>2, LaneFacts DEF Instance, JobsKept, Shape
  <2>4. Spares(Instance(m), Untouched)
    <3>1. ASSUME NEW l \in Lanes, ClaimLease(l) PROVE Instance(l) # Instance(m)
      BY <2>2, <3>1, ClaimFacts DEF Locked
    <3>2. ASSUME NEW l \in Lanes, Commit(l) PROVE Spares(Instance(m), Untouched)
      BY <3>2 DEF Spares
    <3> QED BY <1>4, <3>1, <3>2, NextSteps DEF Spares
  <2> QED BY <1>4, <2>1, <2>2, <2>3, <2>4, RunStill
<1> QED BY <1>1, <1>2, <1>3, <1>4

LEMMA WakesStep == ASSUME Shape, Linked, Wakes, [Next]_vars PROVE Wakes'
<1>1. \A i \in Instances : RowWakes(i)'
  BY RowsWake
<1>2. \A m \in Lanes : lane'[m].at \in InRun => RunWakes(Instance(m), lane[m])'
  BY RunsWake
<1> QED BY <1>1, <1>2 DEF Wakes

(***************************************************************************)
(* While an instance has something to do, now or at its wake-up time, a    *)
(* job is on its way: no signal that arrives while a run is deciding to    *)
(* wait is lost, and no timer.                                             *)
(***************************************************************************)
THEOREM WakeupsAreNotLost == Spec => []NoLostWakeup
<1>1. Init => Shape /\ Linked /\ Wakes
  BY ShapeInit, LinkedInit, WakesInit
<1>2. Shape /\ Linked /\ Wakes /\ [Next]_vars => Shape' /\ Linked' /\ Wakes'
  BY ShapeStep, LinkedStep, WakesStep
<1>3. Shape /\ Wakes => NoLostWakeup
  BY WakesGive
<1> QED BY <1>1, <1>2, <1>3, PTL DEF Spec
=============================================================================
