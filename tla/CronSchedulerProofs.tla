------------------------ MODULE CronSchedulerProofs ------------------------
(***************************************************************************)
(* Theorems about CronScheduler, for any processes, schedules, calendar,   *)
(* leases, stops and faults.                                               *)
(***************************************************************************)
EXTENDS CronScheduler, TLAPS

Holding == {"claimed", "resolved", "releasing", "deleting"}

(* What a process claimed was due, and so is the slot it resolved to.      *)
ClaimsPast ==
  \A p \in Procs :
    /\ phase[p] \in Holding => claim[p].due <= now /\ claim[p].token # NoToken
    /\ phase[p] \in {"resolved", "releasing"} => claim[p].fire <= now

(* A run is recorded for every job, in the transaction that makes the job. *)
JobsAreRuns ==
  \A s \in Schedules, t \in Times : fired[s][t] <= 1 /\ (fired[s][t] > 0 => <<s, t>> \in runs)

IInv == TypeOK /\ ClaimsPast /\ JobsAreRuns

-----------------------------------------------------------------------------
LEMMA NoClaimType == NoClaim \in Claims
BY CronAssumption DEF NoClaim, Claims, Times, Never

LEMMA TimesType == Times \subseteq Nat /\ Never \in Nat /\ \A t \in Times : t < Never
BY CronAssumption DEF Times, Never

LEMMA InitHolds == Init => IInv
<1> SUFFICES ASSUME Init PROVE IInv
  OBVIOUS
<1> USE DEF Init
<1>1. TypeOK
  <2>1. NothingListed \in [Schedules -> Exprs \cup {NoExpr}]
    BY DEF NothingListed
  <2> QED BY <2>1, NoClaimType, CronAssumption DEF TypeOK, Times, Never, Phase, Syncing
<1>2. ClaimsPast
  BY DEF ClaimsPast, Holding
<1>3. JobsAreRuns
  BY DEF JobsAreRuns
<1> QED BY <1>1, <1>2, <1>3 DEF IInv

(* Only a firing transaction makes jobs and records runs. *)
LEMMA OnlyFire ==
  ASSUME [Next]_vars
  PROVE  (\E p \in Procs : Fire(p)) \/ UNCHANGED <<runs, fired>>
<1> USE DEF rows, lanes
<1>1. ASSUME NEW p \in Procs, Sync(p)
      PROVE  UNCHANGED <<runs, fired>>
  BY <1>1 DEF Sync, SyncList, SyncClock, SyncUpsert, SyncPrune, SyncDelete, SyncDone
<1>2. ASSUME NEW p \in Procs, Poll(p)
      PROVE  Fire(p) \/ UNCHANGED <<runs, fired>>
  BY <1>2 DEF Poll, Claim, Resolve, FireFails, Release, ReleaseUnknown, DeleteUnknown
<1>3. ASSUME NEW p \in Procs, Stop(p) \/ SyncFails(p)
      PROVE  UNCHANGED <<runs, fired>>
  BY <1>3 DEF Stop, SyncFails, Forget
<1>4. CASE BootSome \/ Tick \/ UNCHANGED vars
  BY <1>4 DEF BootSome, Boot, Tick, vars
<1> QED BY <1>1, <1>2, <1>3, <1>4 DEF Next

(* The clock does not go back, and a process keeps or drops what it has    *)
(* claimed: its claims stay in the past.                                   *)
LEMMA StaysPast ==
  ASSUME TypeOK, TypeOK', ClaimsPast, now <= now',
         \A p \in Procs :
           \/ phase'[p] = phase[p] /\ claim'[p] = claim[p]
           \/ phase'[p] \notin Holding
  PROVE  ClaimsPast'
<1>1. now \in Nat /\ now' \in Nat
  BY TimesType DEF TypeOK
<1>2. \A p \in Procs : claim[p].due \in Nat /\ claim[p].fire \in Nat
  BY TimesType DEF TypeOK, Claims
<1> QED BY <1>1, <1>2 DEF ClaimsPast, Holding

LEMMA SyncKeeps ==
  ASSUME TypeOK, ClaimsPast, NEW p \in Procs, Sync(p)
  PROVE  TypeOK' /\ ClaimsPast'
<1> USE DEF rows, lanes
<1>1. UNCHANGED <<now, runs, fired, version, claim, boots, faults>>
  BY DEF Sync, SyncList, SyncClock, SyncUpsert, SyncPrune, SyncDelete, SyncDone, DeleteRow
<1>2. /\ expr' \in [Schedules -> Exprs \cup {NoExpr}]
      /\ next' \in [Schedules -> Times \cup {Never}]
      /\ token' \in [Schedules -> Tokens \cup {NoToken}]
      /\ lease' \in [Schedules -> 0..LeaseMs]
      /\ \A s \in Schedules : token'[s] = NoToken => lease'[s] = 0
      /\ since' \in [Schedules -> Times \cup {Never}]
  <2>1. CASE SyncUpsert(p)
    <3>1. PICK s \in ToUpsert(p), nextFire \in Times \cup {Never} :
            /\ expr' = [expr EXCEPT ![s] = Registered(p, s)]
            /\ next' = [next EXCEPT ![s] = nextFire]
            /\ token' = [token EXCEPT ![s] = NoToken]
            /\ lease' = [lease EXCEPT ![s] = 0]
            /\ since' = [since EXCEPT ![s] = IF @ = Never THEN syncNow[p] ELSE @]
      BY <2>1 DEF SyncUpsert
    <3>2. s \in Schedules /\ Registered(p, s) \in Exprs \cup {NoExpr}
      BY CronAssumption DEF ToUpsert, TypeOK, Registered
    <3>3. 0 \in 0..LeaseMs
      BY CronAssumption
    <3> QED BY <3>1, <3>2, <3>3 DEF TypeOK
  <2>2. CASE SyncDelete(p)
    <3>1. PICK s \in Schedules : DeleteRow(s)
      BY <2>2 DEF SyncDelete
    <3>2. 0 \in 0..LeaseMs /\ 0 \in Times
      BY CronAssumption DEF Times
    <3> QED BY <3>1, <3>2 DEF TypeOK, DeleteRow
  <2>3. CASE UNCHANGED <<rows, since>>
    BY <2>3 DEF TypeOK
  <2> QED BY <2>1, <2>2, <2>3 DEF Sync, SyncList, SyncClock, SyncPrune, SyncDone
<1>3. syncNow' \in [Procs -> Times]
  <2>1. 0 \in Times
    BY CronAssumption DEF Times
  <2> QED BY <2>1 DEF TypeOK, Sync, SyncList, SyncClock, SyncUpsert, SyncPrune, SyncDelete, SyncDone
<1>4. listed' \in [Procs -> [Schedules -> Exprs \cup {NoExpr}]]
  <2>1. \A s \in Schedules : Registered(p, s) \in Exprs \cup {NoExpr}
    BY CronAssumption DEF TypeOK, Registered
  <2>2. CASE SyncPrune(p)
    BY <2>2 DEF SyncPrune, TypeOK
  <2>3. CASE SyncUpsert(p) \/ SyncDelete(p)
    <3>1. PICK s \in Schedules, e \in Exprs \cup {NoExpr} : listed' = [listed EXCEPT ![p][s] = e]
      BY <2>1, <2>3 DEF SyncUpsert, SyncDelete, ToUpsert
    <3> QED BY <3>1 DEF TypeOK
  <2>4. CASE SyncList(p) \/ SyncClock(p) \/ SyncDone(p)
    BY <2>4 DEF SyncList, SyncClock, SyncDone, TypeOK
  <2> QED BY <2>2, <2>3, <2>4 DEF Sync
<1>5. /\ phase' \in [Procs -> Phase]
      /\ \A q \in Procs : phase'[q] = phase[q] \/ phase'[q] \notin Holding
  BY DEF TypeOK, Phase, Syncing, Holding,
         Sync, SyncList, SyncClock, SyncUpsert, SyncPrune, SyncDelete, SyncDone
<1>6. TypeOK'
  BY <1>1, <1>2, <1>3, <1>4, <1>5 DEF TypeOK
<1>7. now <= now'
  BY <1>1, TimesType DEF TypeOK
<1> QED BY <1>1, <1>5, <1>6, <1>7, StaysPast

LEMMA ClaimKeeps ==
  ASSUME TypeOK, ClaimsPast, NEW p \in Procs, Claim(p)
  PROVE  TypeOK' /\ ClaimsPast'
<1>1. PICK s \in Schedules, k \in Tokens :
        /\ Due(s)
        /\ token' = [token EXCEPT ![s] = k]
        /\ lease' = [lease EXCEPT ![s] = LeaseMs]
        /\ claim' = [claim EXCEPT ![p] = [NoClaim EXCEPT !.name = s, !.due = next[s], !.token = k]]
  BY DEF Claim
<1>2. phase' = [phase EXCEPT ![p] = "claimed"]
      /\ UNCHANGED <<now, expr, next, runs, fired, version, listed, syncNow, boots, faults, since>>
  BY DEF Claim
<1> DEFINE c == [NoClaim EXCEPT !.name = s, !.due = next[s], !.token = k]
<1>3. c \in Claims /\ c.due = next[s] /\ c.token = k
  BY NoClaimType DEF Claims, TypeOK
<1>4. claim' = [claim EXCEPT ![p] = c]
  BY <1>1
<1>5. LeaseMs \in 0..LeaseMs /\ k # NoToken
  BY CronAssumption
<1> HIDE DEF c
<1>6. TypeOK'
  BY <1>1, <1>2, <1>3, <1>4, <1>5 DEF TypeOK, Phase, Syncing
<1>7. c.due <= now
  BY <1>1, <1>3 DEF Due
<1>8. ClaimsPast'
  <2>1. ASSUME NEW q \in Procs
        PROVE  /\ phase'[q] \in Holding => claim'[q].due <= now /\ claim'[q].token # NoToken
               /\ phase'[q] \in {"resolved", "releasing"} => claim'[q].fire <= now
    BY <1>2, <1>3, <1>4, <1>5, <1>7 DEF ClaimsPast, TypeOK, Holding
  <2> QED BY <2>1, <1>2 DEF ClaimsPast
<1> QED BY <1>6, <1>8

LEMMA ResolveKeeps ==
  ASSUME TypeOK, ClaimsPast, NEW p \in Procs, Resolve(p)
  PROVE  TypeOK' /\ ClaimsPast'
<1>1. PICK fire \in Times \cup {Never}, nextFire \in Times \cup {Never} :
        /\ IsWindow(Registered(p, claim[p].name), claim[p].due, now, fire, nextFire)
        /\ claim' = [claim EXCEPT ![p].fire = fire, ![p].next = nextFire]
  BY DEF Resolve
<1>2. /\ phase[p] = "claimed" /\ phase' = [phase EXCEPT ![p] = "resolved"]
      /\ UNCHANGED <<now, rows, runs, fired, version, listed, syncNow, boots, faults, since>>
  BY DEF Resolve
<1>3. claim[p] \in Claims
  BY DEF TypeOK
<1>4. claim' = [claim EXCEPT ![p] = [claim[p] EXCEPT !.fire = fire, !.next = nextFire]]
  BY <1>1, <1>3 DEF Claims, TypeOK
<1>5. /\ claim'[p] \in Claims /\ claim'[p].due = claim[p].due /\ claim'[p].token = claim[p].token
      /\ claim'[p].fire = fire
      /\ claim' \in [Procs -> Claims]
      /\ \A q \in Procs : q # p => claim'[q] = claim[q]
  BY <1>3, <1>4 DEF Claims, TypeOK
<1>6. TypeOK'
  BY <1>2, <1>5 DEF TypeOK, Phase, Syncing, rows
<1>7. claim[p].due <= now /\ claim[p].token # NoToken
  BY <1>2 DEF ClaimsPast, Holding
<1>8. fire <= now
  BY <1>1, <1>7 DEF IsWindow
<1>9. ClaimsPast'
  BY <1>2, <1>5, <1>7, <1>8 DEF ClaimsPast, TypeOK, Holding
<1> QED BY <1>6, <1>9

LEMMA LetGoKeeps ==
  ASSUME TypeOK, NEW p \in Procs, NEW ph \in Phase, LetGo(p, ph)
  PROVE  /\ phase' \in [Procs -> Phase] /\ claim' \in [Procs -> Claims]
         /\ phase'[p] = ph /\ (ph # "polling" => claim'[p] = claim[p])
         /\ \A q \in Procs : q # p => phase'[q] = phase[q] /\ claim'[q] = claim[q]
BY NoClaimType DEF LetGo, TypeOK

LEMMA FireKeeps ==
  ASSUME TypeOK, ClaimsPast, NEW p \in Procs, Fire(p)
  PROVE  TypeOK' /\ ClaimsPast'
<1> DEFINE c == claim[p]
<1>1. /\ phase[p] = "resolved" /\ Holds(p)
      /\ runs' = runs \cup {<<c.name, c.fire>>}
      /\ fired' = IF Inserted(c.name, c.fire)
                  THEN [fired EXCEPT ![c.name][c.fire] = @ + 1] ELSE fired
      /\ next' = [next EXCEPT ![c.name] = c.next]
      /\ token' = [token EXCEPT ![c.name] = NoToken]
      /\ lease' = [lease EXCEPT ![c.name] = 0]
      /\ LetGo(p, "polling")
      /\ UNCHANGED <<now, expr, version, listed, syncNow, boots, faults, since>>
  BY DEF Fire
<1>2. c \in Claims
  BY DEF TypeOK
<1>3. c.fire \in Times
  <2>1. c.fire <= now
    BY <1>1 DEF ClaimsPast
  <2>2. now \in Times /\ c.fire \in Times \cup {Never}
    BY <1>2 DEF TypeOK, Claims
  <2> QED BY <2>1, <2>2, CronAssumption DEF Times, Never
<1>4. c.name \in Schedules /\ c.next \in Times \cup {Never} /\ 0 \in 0..LeaseMs
  BY <1>2, CronAssumption DEF Claims
<1>5. fired' \in [Schedules -> [Times -> Nat]] /\ runs' \subseteq Schedules \X Times
  BY <1>1, <1>3, <1>4 DEF TypeOK
<1>6. "polling" \in Phase
  BY DEF Phase
<1>7. /\ phase' \in [Procs -> Phase] /\ claim' \in [Procs -> Claims] /\ phase'[p] = "polling"
      /\ \A q \in Procs : q # p => phase'[q] = phase[q] /\ claim'[q] = claim[q]
  BY <1>1, <1>6, LetGoKeeps
<1>8. TypeOK'
  BY <1>1, <1>4, <1>5, <1>7 DEF TypeOK
<1>9. now <= now'
  BY <1>1, TimesType DEF TypeOK
<1>10. ClaimsPast'
  BY <1>7, <1>8, <1>9, StaysPast DEF Holding
<1> QED BY <1>8, <1>10

LEMMA ReleaseRowKeeps ==
  ASSUME TypeOK, NEW p \in Procs, ReleaseRow(p) \/ UNCHANGED <<token, lease>>
  PROVE  /\ token' \in [Schedules -> Tokens \cup {NoToken}]
         /\ lease' \in [Schedules -> 0..LeaseMs]
         /\ \A s \in Schedules : token'[s] = NoToken => lease'[s] = 0
<1>1. claim[p].name \in Schedules /\ 0 \in 0..LeaseMs
  BY CronAssumption DEF TypeOK, Claims
<1> QED BY <1>1 DEF ReleaseRow, TypeOK

LEMMA RestOfPollKeeps ==
  ASSUME TypeOK, ClaimsPast, NEW p \in Procs,
         FireFails(p) \/ Release(p) \/ ReleaseUnknown(p) \/ DeleteUnknown(p)
  PROVE  TypeOK' /\ ClaimsPast'
<1>1. PICK ph \in {"releasing", "deleting", "polling"} :
        /\ LetGo(p, ph)
        /\ ph = "releasing" => phase[p] = "resolved"
        /\ ph = "deleting" => phase[p] = "claimed"
  BY DEF FireFails, Release, ReleaseUnknown, DeleteUnknown
<1>2. ph \in Phase
  BY DEF Phase
<1>3. /\ phase' \in [Procs -> Phase] /\ claim' \in [Procs -> Claims]
      /\ phase'[p] = ph /\ (ph # "polling" => claim'[p] = claim[p])
      /\ \A q \in Procs : q # p => phase'[q] = phase[q] /\ claim'[q] = claim[q]
  BY <1>1, <1>2, LetGoKeeps
<1>4. UNCHANGED <<now, runs, fired, version, listed, syncNow, boots>>
  BY DEF FireFails, Release, ReleaseUnknown, DeleteUnknown
<1>5. faults' \in 0..MaxFaults
  BY CronAssumption DEF FireFails, Release, ReleaseUnknown, DeleteUnknown, Fault, TypeOK
<1>6. /\ expr' \in [Schedules -> Exprs \cup {NoExpr}]
      /\ next' \in [Schedules -> Times \cup {Never}]
      /\ token' \in [Schedules -> Tokens \cup {NoToken}]
      /\ lease' \in [Schedules -> 0..LeaseMs]
      /\ \A s \in Schedules : token'[s] = NoToken => lease'[s] = 0
      /\ since' \in [Schedules -> Times \cup {Never}]
  <2>1. CASE DeleteUnknown(p)
    <3>1. DeleteRow(claim[p].name)
      BY <2>1 DEF DeleteUnknown
    <3>2. 0 \in 0..LeaseMs /\ 0 \in Times
      BY CronAssumption DEF Times
    <3> QED BY <3>1, <3>2 DEF TypeOK, DeleteRow
  <2>2. CASE UNCHANGED <<expr, next, since>> /\ (ReleaseRow(p) \/ UNCHANGED <<token, lease>>)
    BY <2>2, ReleaseRowKeeps DEF TypeOK
  <2> QED BY <2>1, <2>2 DEF FireFails, Release, ReleaseUnknown, rows
<1>7. TypeOK'
  BY <1>3, <1>4, <1>5, <1>6 DEF TypeOK
<1>8. ClaimsPast'
  BY <1>1, <1>3, <1>4 DEF ClaimsPast, Holding
<1> QED BY <1>7, <1>8

LEMMA StopKeeps ==
  ASSUME TypeOK, ClaimsPast, NEW p \in Procs, Stop(p) \/ SyncFails(p)
  PROVE  TypeOK' /\ ClaimsPast'
<1>1. PICK ph \in {"down", "booting"} : Forget(p, ph)
  BY DEF Stop, SyncFails
<1>2. ph \in Phase /\ ph \notin Holding
  BY DEF Phase, Syncing, Holding
<1>3. faults' \in 0..MaxFaults
  BY CronAssumption DEF Stop, SyncFails, Fault, TypeOK
<1>4. 0 \in Times /\ NothingListed \in [Schedules -> Exprs \cup {NoExpr}]
  BY CronAssumption DEF Times, NothingListed
<1>5. TypeOK'
  BY <1>1, <1>2, <1>3, <1>4, NoClaimType DEF Forget, TypeOK, rows
<1>6. now <= now'
  BY <1>1, TimesType DEF Forget, TypeOK
<1>7. \A q \in Procs : phase'[q] \notin Holding \/ (phase'[q] = phase[q] /\ claim'[q] = claim[q])
  BY <1>1, <1>2 DEF Forget, TypeOK
<1> QED BY <1>5, <1>6, <1>7, StaysPast

LEMMA BootOrTickKeeps ==
  ASSUME TypeOK, ClaimsPast, BootSome \/ Tick \/ UNCHANGED vars
  PROVE  TypeOK' /\ ClaimsPast'
<1>1. CASE BootSome
  <2>1. PICK p \in Procs, v \in Versions : Boot(p, v)
    BY <1>1 DEF BootSome
  <2>2. boots' \in 0..MaxBoots
    BY <2>1, CronAssumption DEF Boot, TypeOK
  <2>3. TypeOK'
    BY <2>1, <2>2 DEF Boot, TypeOK, Phase, Syncing, rows
  <2>4. now <= now'
    BY <2>1, TimesType DEF Boot, TypeOK
  <2>5. \A q \in Procs : phase'[q] \notin Holding \/ (phase'[q] = phase[q] /\ claim'[q] = claim[q])
    BY <2>1 DEF Boot, TypeOK, Holding
  <2> QED BY <2>3, <2>4, <2>5, StaysPast
<1>2. CASE Tick
  <2>1. now' \in Times /\ now <= now'
    BY <1>2, CronAssumption DEF Tick, TypeOK, Times
  <2>2. faults' \in 0..MaxFaults
    BY <1>2, CronAssumption DEF Tick, Fault, TypeOK
  <2>3. /\ lease' \in [Schedules -> 0..LeaseMs]
        /\ \A s \in Schedules : token'[s] = NoToken => lease'[s] = 0
    <3>1. lease' = [s \in Schedules |-> IF lease[s] = 0 THEN 0 ELSE lease[s] - 1] /\ token' = token
      BY <1>2 DEF Tick
    <3>2. \A s \in Schedules : lease[s] \in 0..LeaseMs /\ (token[s] = NoToken => lease[s] = 0)
      BY DEF TypeOK
    <3>3. \A s \in Schedules : (IF lease[s] = 0 THEN 0 ELSE lease[s] - 1) \in 0..LeaseMs
      BY <3>2, CronAssumption
    <3> QED BY <3>1, <3>2, <3>3
  <2>4. TypeOK'
    BY <1>2, <2>1, <2>2, <2>3 DEF Tick, TypeOK, lanes
  <2> QED BY <1>2, <2>1, <2>4, StaysPast DEF Tick, lanes
<1>3. CASE UNCHANGED vars
  BY <1>3 DEF vars, rows, lanes, TypeOK, ClaimsPast
<1> QED BY <1>1, <1>2, <1>3

LEMMA JobsStayRuns ==
  ASSUME TypeOK, TypeOK', JobsAreRuns, [Next]_vars
  PROVE  JobsAreRuns'
<1>1. CASE UNCHANGED <<runs, fired>>
  BY <1>1 DEF JobsAreRuns
<1>2. ASSUME NEW p \in Procs, Fire(p)
      PROVE  JobsAreRuns'
  <2> DEFINE c == claim[p]
  <2>1. /\ runs' = runs \cup {<<c.name, c.fire>>}
        /\ fired' = IF <<c.name, c.fire>> \notin runs
                    THEN [fired EXCEPT ![c.name][c.fire] = @ + 1] ELSE fired
    BY <1>2 DEF Fire, Inserted
  <2>2. CASE <<c.name, c.fire>> \in runs
    BY <2>1, <2>2 DEF JobsAreRuns
  <2>3. CASE <<c.name, c.fire>> \notin runs
    <3>1. c.name \in Schedules /\ c.fire \in Times
      <4>1. <<c.name, c.fire>> \in Schedules \X Times
        BY <2>1 DEF TypeOK
      <4> QED BY <4>1
    <3>2. fired[c.name][c.fire] = 0
      BY <2>3, <3>1 DEF JobsAreRuns, TypeOK
    <3>3. fired' = [fired EXCEPT ![c.name][c.fire] = 1]
      BY <2>1, <2>3, <3>2
    <3>4. \A s \in Schedules, t \in Times :
            fired'[s][t] = IF s = c.name /\ t = c.fire THEN 1 ELSE fired[s][t]
      BY <3>1, <3>3 DEF TypeOK
    <3>5. <<c.name, c.fire>> \in runs' /\ runs \subseteq runs'
      BY <2>1
    <3>6. ASSUME NEW s \in Schedules, NEW t \in Times
          PROVE  fired'[s][t] <= 1 /\ (fired'[s][t] > 0 => <<s, t>> \in runs')
      <4>1. CASE s = c.name /\ t = c.fire
        BY <3>4, <3>5, <4>1
      <4>2. CASE ~(s = c.name /\ t = c.fire)
        <5>1. fired'[s][t] = fired[s][t]
          BY <3>4, <4>2
        <5> QED BY <3>5, <5>1 DEF JobsAreRuns
      <4> QED BY <4>1, <4>2
    <3> QED BY <3>6 DEF JobsAreRuns
  <2> QED BY <2>2, <2>3
<1> QED BY <1>1, <1>2, OnlyFire

LEMMA NextKeeps == IInv /\ [Next]_vars => IInv'
<1> SUFFICES ASSUME IInv, [Next]_vars PROVE IInv'
  OBVIOUS
<1>1. TypeOK /\ ClaimsPast /\ JobsAreRuns
  BY DEF IInv
<1>2. ASSUME NEW p \in Procs, Sync(p) \/ Poll(p) \/ Stop(p) \/ SyncFails(p)
      PROVE  TypeOK' /\ ClaimsPast'
  BY <1>1, <1>2, SyncKeeps, ClaimKeeps, ResolveKeeps, FireKeeps, RestOfPollKeeps, StopKeeps DEF Poll
<1>3. ASSUME BootSome \/ Tick \/ UNCHANGED vars
      PROVE  TypeOK' /\ ClaimsPast'
  BY <1>1, <1>3, BootOrTickKeeps
<1>4. TypeOK' /\ ClaimsPast'
  BY <1>2, <1>3 DEF Next
<1>5. JobsAreRuns'
  BY <1>1, <1>4, JobsStayRuns
<1> QED BY <1>4, <1>5 DEF IInv

(* The inductive invariant holds of every behaviour of the processes. *)
THEOREM Invariance == Spec => []IInv
BY InitHolds, NextKeeps, PTL DEF Spec

(* The variables have their types in every reachable state; a row without  *)
(* a token never keeps a lease.                                            *)
THEOREM TypeCorrect == Spec => []TypeOK
<1>1. IInv => TypeOK
  BY DEF IInv
<1> QED BY <1>1, Invariance, PTL

(***************************************************************************)
(* However the leases, stops, failures and rolling deployments fall, a     *)
(* slot becomes a job at most once: the row of _chimpbase_cron_runs is     *)
(* written in the transaction that enqueues the job.                       *)
(***************************************************************************)
THEOREM OncePerSlot == Spec => []SlotOnce
<1>1. IInv => SlotOnce
  BY DEF IInv, JobsAreRuns, SlotOnce
<1> QED BY <1>1, Invariance, PTL
-----------------------------------------------------------------------------
(***************************************************************************)
(* The order of a schedule's runs, the survival of its row, and that no    *)
(* slot is lost, while every deployed version registers the same schedules.*)
(***************************************************************************)

(* What one version registers: every version of a deployment that changes  *)
(* no schedule.                                                            *)
Reg == RegistryOf[CHOOSE v \in Versions : TRUE]
SameRegistry == Versions # {} /\ \A v \in Versions : RegistryOf[v] = Reg
IsSlot(s, t) == Reg[s] # NoExpr /\ t \in SlotsOf[Reg[s]]

RunsAreSlots == \A r \in runs : IsSlot(r[1], r[2]) /\ r[2] <= now

RowsAreRegistered ==
  \A s \in Schedules : Present(s) => Reg[s] # NoExpr /\ (next[s] # Never => IsSlot(s, next[s]))

ClaimsAreSlots ==
  \A p \in Procs :
    /\ phase[p] \in {"claimed", "resolved"} => IsSlot(claim[p].name, claim[p].due)
    /\ phase[p] = "resolved" =>
         /\ IsSlot(claim[p].name, claim[p].fire)
         /\ claim[p].next # Never => IsSlot(claim[p].name, claim[p].next)

TokensDistinct ==
  \A p, q \in Procs : p # q /\ claim[p].token # NoToken => claim[p].token # claim[q].token

(* No slot after the one a process resolved to has been fired while that   *)
(* process has the lease.                                                  *)
HolderIsLast ==
  \A p \in Procs :
    phase[p] = "resolved" /\ token[claim[p].name] = claim[p].token =>
      \A r \in runs : r[1] = claim[p].name => r[2] <= claim[p].fire

OrderInv == RunsAreSlots /\ RowsAreRegistered /\ ClaimsAreSlots /\ TokensDistinct /\ HolderIsLast
-----------------------------------------------------------------------------
LEMMA RegistryIsReg ==
  ASSUME SameRegistry, TypeOK, NEW p \in Procs, NEW s
  PROVE  Registered(p, s) = Reg[s]
BY DEF SameRegistry, Registered, TypeOK

LEMMA OrderInit == Init => OrderInv
<1> SUFFICES ASSUME Init PROVE OrderInv
  OBVIOUS
<1>1. \A p \in Procs : claim[p] = NoClaim /\ NoClaim.token = NoToken /\ phase[p] = "down"
  BY DEF Init, NoClaim
<1>2. runs = {} /\ \A s \in Schedules : ~Present(s)
  BY DEF Init, Present
<1> QED BY <1>1, <1>2 DEF OrderInv, RunsAreSlots, RowsAreRegistered, ClaimsAreSlots, TokensDistinct, HolderIsLast

(***************************************************************************)
(* A step that fires nothing and claims nothing: tokens only disappear,    *)
(* from the rows and from the claims.                                      *)
(***************************************************************************)
LEMMA QuietKeeps ==
  ASSUME TypeOK, TypeOK', OrderInv, UNCHANGED runs, now <= now', RowsAreRegistered',
         \A p \in Procs :
           \/ phase'[p] = phase[p] /\ claim'[p] = claim[p]
           \/ /\ phase'[p] \notin {"claimed", "resolved"}
              /\ claim'[p].token \in {claim[p].token, NoToken},
         \A s \in Schedules : token'[s] \in {token[s], NoToken},
         \A p \in Procs : phase'[p] = "resolved" => claim[p].token # NoToken
  PROVE  OrderInv'
<1> USE DEF OrderInv
<1>1. RunsAreSlots'
  <2>1. now \in Nat /\ now' \in Nat /\ \A r \in runs : r[2] \in Nat
    BY TimesType DEF TypeOK
  <2> QED BY <2>1 DEF RunsAreSlots, IsSlot
<1>2. ClaimsAreSlots'
  BY DEF ClaimsAreSlots, IsSlot
<1>3. TokensDistinct'
  BY DEF TokensDistinct
<1>4. HolderIsLast'
  <2>1. \A p \in Procs : claim[p].name \in Schedules
    BY DEF TypeOK, Claims
  <2> QED BY <2>1 DEF HolderIsLast
<1> QED BY <1>1, <1>2, <1>3, <1>4

LEMMA RowsStayRegistered ==
  ASSUME RowsAreRegistered,
         \A s \in Schedules : expr'[s] = NoExpr \/ (expr'[s] = expr[s] /\ next'[s] = next[s])
  PROVE  RowsAreRegistered'
BY DEF RowsAreRegistered, Present, IsSlot

LEMMA SyncOrder ==
  ASSUME SameRegistry, TypeOK, TypeOK', ClaimsPast, OrderInv, NEW p \in Procs, Sync(p)
  PROVE  OrderInv'
<1>1. UNCHANGED <<runs, now, claim>>
  BY DEF Sync, SyncList, SyncClock, SyncUpsert, SyncPrune, SyncDelete, SyncDone, rows, lanes
<1>2. \A q \in Procs : phase'[q] = phase[q] \/ phase'[q] \notin {"claimed", "resolved"}
  BY DEF TypeOK, Sync, SyncList, SyncClock, SyncUpsert, SyncPrune, SyncDelete, SyncDone, lanes
<1>3. \A q \in Procs : phase'[q] = "resolved" => claim[q].token # NoToken
  BY <1>2 DEF ClaimsPast, Holding
<1>4. \A s \in Schedules : token'[s] \in {token[s], NoToken}
  BY DEF TypeOK, Sync, SyncList, SyncClock, SyncUpsert, SyncPrune, SyncDelete, SyncDone, DeleteRow, rows
<1>5. RowsAreRegistered'
  <2>1. CASE SyncUpsert(p)
    <3>1. PICK s \in ToUpsert(p), nextFire \in Times \cup {Never} :
            /\ IsNextFire(Registered(p, s), syncNow[p], nextFire)
            /\ expr' = [expr EXCEPT ![s] = Registered(p, s)]
            /\ next' = [next EXCEPT ![s] = nextFire]
      BY <2>1 DEF SyncUpsert
    <3>2. s \in Schedules /\ Registered(p, s) = Reg[s] /\ Reg[s] # NoExpr
      BY RegistryIsReg DEF ToUpsert
    <3>3. nextFire # Never => IsSlot(s, nextFire)
      BY <3>1, <3>2 DEF IsNextFire, IsSlot
    <3>4. expr'[s] = Reg[s] /\ next'[s] = nextFire
          /\ \A r \in Schedules : r # s => expr'[r] = expr[r] /\ next'[r] = next[r]
      BY <3>1, <3>2 DEF TypeOK
    <3> QED BY <3>2, <3>3, <3>4 DEF OrderInv, RowsAreRegistered, Present, IsSlot
  <2>2. CASE SyncDelete(p)
    BY <2>2, RowsStayRegistered DEF OrderInv, SyncDelete, DeleteRow, TypeOK
  <2>3. CASE UNCHANGED rows
    BY <2>3, RowsStayRegistered DEF OrderInv, rows
  <2> QED BY <2>1, <2>2, <2>3 DEF Sync, SyncList, SyncClock, SyncPrune, SyncDone
<1>6. now <= now'
  BY <1>1, TimesType DEF TypeOK
<1> QED BY <1>1, <1>2, <1>3, <1>4, <1>5, <1>6, QuietKeeps

LEMMA ClaimOrder ==
  ASSUME TypeOK, TypeOK', ClaimsPast, OrderInv, NEW p \in Procs, Claim(p)
  PROVE  OrderInv'
<1> USE DEF OrderInv
<1>1. PICK s \in Schedules, k \in Tokens :
        /\ Due(s) /\ FreshToken(k)
        /\ token' = [token EXCEPT ![s] = k]
        /\ claim' = [claim EXCEPT ![p] = [NoClaim EXCEPT !.name = s, !.due = next[s], !.token = k]]
  BY DEF Claim
<1>2. phase' = [phase EXCEPT ![p] = "claimed"] /\ UNCHANGED <<now, expr, next, runs>>
  BY DEF Claim
<1>3. /\ claim'[p].name = s /\ claim'[p].due = next[s] /\ claim'[p].token = k
      /\ phase'[p] = "claimed"
      /\ \A q \in Procs : q # p => claim'[q] = claim[q] /\ phase'[q] = phase[q]
  BY <1>1, <1>2 DEF TypeOK, NoClaim
<1>4. token'[s] = k /\ \A r \in Schedules : r # s => token'[r] = token[r]
  BY <1>1 DEF TypeOK
<1>5. RunsAreSlots'
  BY <1>2 DEF RunsAreSlots, IsSlot
<1>6. RowsAreRegistered'
  BY <1>2 DEF RowsAreRegistered, Present, IsSlot
<1>7. IsSlot(s, next[s])
  <2>1. next[s] <= now /\ now < Never
    BY <1>1, TimesType DEF Due, TypeOK
  <2>2. next[s] # Never
    BY <2>1, TimesType DEF TypeOK
  <2> QED BY <1>1, <2>2 DEF Due, RowsAreRegistered
<1>8. ClaimsAreSlots'
  BY <1>3, <1>7 DEF ClaimsAreSlots, IsSlot
<1>9. TokensDistinct'
  BY <1>1, <1>3 DEF TokensDistinct, FreshToken
<1>10. HolderIsLast'
  <2>1. ASSUME NEW q \in Procs, phase'[q] = "resolved", token'[claim'[q].name] = claim'[q].token,
               NEW r \in runs, r[1] = claim'[q].name
        PROVE  r[2] <= claim'[q].fire
    <3>1. q # p /\ claim'[q] = claim[q] /\ phase'[q] = phase[q]
      BY <1>3, <2>1
    <3>2. claim[q].token # k /\ claim[q].name \in Schedules
      BY <1>1 DEF FreshToken, TypeOK, Claims
    <3>3. token[claim[q].name] = claim[q].token
      BY <1>4, <2>1, <3>1, <3>2
    <3> QED BY <2>1, <3>1, <3>3 DEF HolderIsLast
  <2> QED BY <1>2, <2>1 DEF HolderIsLast
<1> QED BY <1>5, <1>6, <1>8, <1>9, <1>10

LEMMA ResolveOrder ==
  ASSUME SameRegistry, TypeOK, TypeOK', ClaimsPast, OrderInv, NEW p \in Procs, Resolve(p)
  PROVE  OrderInv'
<1> USE DEF OrderInv
<1> DEFINE s == claim[p].name
<1>1. PICK fire \in Times \cup {Never}, nextFire \in Times \cup {Never} :
        /\ IsWindow(Registered(p, s), claim[p].due, now, fire, nextFire)
        /\ claim' = [claim EXCEPT ![p].fire = fire, ![p].next = nextFire]
  BY DEF Resolve
<1>2. phase[p] = "claimed" /\ phase' = [phase EXCEPT ![p] = "resolved"]
      /\ UNCHANGED <<now, expr, next, token, runs>> /\ Registered(p, s) # NoExpr
  BY DEF Resolve, rows
<1>3. claim[p] \in Claims
  BY DEF TypeOK
<1>4. /\ claim'[p].name = s /\ claim'[p].due = claim[p].due /\ claim'[p].token = claim[p].token
      /\ claim'[p].fire = fire /\ claim'[p].next = nextFire
      /\ phase'[p] = "resolved"
      /\ \A q \in Procs : q # p => claim'[q] = claim[q] /\ phase'[q] = phase[q]
  BY <1>1, <1>2, <1>3 DEF Claims, TypeOK
<1>5. s \in Schedules /\ Registered(p, s) = Reg[s]
  BY <1>3, RegistryIsReg DEF Claims
<1>6. IsSlot(s, claim[p].due)
  BY <1>2 DEF ClaimsAreSlots
<1>7. IsSlot(s, fire) /\ (nextFire # Never => IsSlot(s, nextFire))
  BY <1>1, <1>2, <1>5, <1>6 DEF IsWindow, IsNextFire, IsSlot
<1>8. RunsAreSlots' /\ RowsAreRegistered'
  BY <1>2 DEF RunsAreSlots, RowsAreRegistered, Present, IsSlot
<1>9. ClaimsAreSlots'
  BY <1>2, <1>4, <1>6, <1>7 DEF ClaimsAreSlots, IsSlot
<1>10. TokensDistinct'
  BY <1>4 DEF TokensDistinct
<1>11. ASSUME NEW r \in runs, r[1] = s
       PROVE  r[2] <= fire
  <2>1. r[2] \in SlotsOf[Reg[s]] /\ r[2] <= now
    BY <1>11 DEF RunsAreSlots, IsSlot
  <2>2. r[2] \in Nat /\ claim[p].due \in Nat /\ fire \in Nat
    BY <1>3, TimesType DEF TypeOK, Claims
  <2>3. claim[p].due <= fire
    BY <1>1, <2>2 DEF IsWindow
  <2>4. claim[p].due < r[2] => r[2] <= fire
    BY <1>1, <1>5, <2>1 DEF IsWindow
  <2> QED BY <2>2, <2>3, <2>4
<1>12. HolderIsLast'
  <2>1. ASSUME NEW q \in Procs, q # p, phase'[q] = "resolved", token'[claim'[q].name] = claim'[q].token,
               NEW r \in runs, r[1] = claim'[q].name
        PROVE  r[2] <= claim'[q].fire
    BY <1>2, <1>4, <2>1 DEF HolderIsLast
  <2> QED BY <1>2, <1>4, <1>11, <2>1 DEF HolderIsLast
<1> QED BY <1>8, <1>9, <1>10, <1>12

LEMMA FireOrder ==
  ASSUME TypeOK, TypeOK', ClaimsPast, OrderInv, NEW p \in Procs, Fire(p)
  PROVE  OrderInv'
<1> USE DEF OrderInv
<1> DEFINE c == claim[p]
<1>1. /\ phase[p] = "resolved" /\ Holds(p)
      /\ runs' = runs \cup {<<c.name, c.fire>>}
      /\ next' = [next EXCEPT ![c.name] = c.next]
      /\ token' = [token EXCEPT ![c.name] = NoToken]
      /\ LetGo(p, "polling")
      /\ UNCHANGED <<now, expr>>
  BY DEF Fire
<1>2. c \in Claims
  BY DEF TypeOK
<1>3. c.name \in Schedules /\ c.fire <= now /\ IsSlot(c.name, c.fire)
      /\ (c.next # Never => IsSlot(c.name, c.next))
  BY <1>1, <1>2 DEF Claims, ClaimsPast, ClaimsAreSlots
<1>4. /\ phase'[p] = "polling" /\ claim'[p].token = NoToken
      /\ \A q \in Procs : q # p => claim'[q] = claim[q] /\ phase'[q] = phase[q]
  BY <1>1 DEF LetGo, TypeOK, NoClaim
<1>5. RunsAreSlots'
  BY <1>1, <1>3 DEF RunsAreSlots, IsSlot
<1>6. RowsAreRegistered'
  <2>1. next'[c.name] = c.next /\ \A s \in Schedules : s # c.name => next'[s] = next[s]
    BY <1>1, <1>3 DEF TypeOK
  <2> QED BY <1>1, <1>3, <2>1 DEF RowsAreRegistered, Present, IsSlot
<1>7. ClaimsAreSlots'
  BY <1>4 DEF ClaimsAreSlots, IsSlot
<1>8. TokensDistinct'
  BY <1>4 DEF TokensDistinct
<1>9. HolderIsLast'
  <2>1. ASSUME NEW q \in Procs, phase'[q] = "resolved", token'[claim'[q].name] = claim'[q].token,
               NEW r \in runs', r[1] = claim'[q].name
        PROVE  r[2] <= claim'[q].fire
    <3>1. claim'[q] = claim[q] /\ phase[q] = "resolved"
      BY <1>4, <2>1
    <3>2. claim[q].token # NoToken /\ claim[q].name \in Schedules
      BY <3>1 DEF ClaimsPast, Holding, TypeOK, Claims
    <3>3. claim[q].name # c.name
      BY <1>1, <1>3, <2>1, <3>1, <3>2 DEF TypeOK
    <3>4. r \in runs /\ token[claim[q].name] = claim[q].token
      BY <1>1, <1>3, <2>1, <3>1, <3>2, <3>3 DEF TypeOK
    <3> QED BY <2>1, <3>1, <3>4 DEF HolderIsLast
  <2> QED BY <2>1 DEF HolderIsLast
<1> QED BY <1>5, <1>6, <1>7, <1>8, <1>9

LEMMA RestOfPollOrder ==
  ASSUME TypeOK, TypeOK', ClaimsPast, OrderInv, NEW p \in Procs,
         FireFails(p) \/ Release(p) \/ ReleaseUnknown(p) \/ DeleteUnknown(p)
  PROVE  OrderInv'
<1>1. UNCHANGED <<now, runs>>
  BY DEF FireFails, Release, ReleaseUnknown, DeleteUnknown
<1>2. PICK ph \in {"releasing", "deleting", "polling"} : LetGo(p, ph)
  BY DEF FireFails, Release, ReleaseUnknown, DeleteUnknown
<1>3. /\ phase'[p] = ph /\ claim'[p].token \in {claim[p].token, NoToken}
      /\ \A q \in Procs : q # p => phase'[q] = phase[q] /\ claim'[q] = claim[q]
  BY <1>2 DEF LetGo, TypeOK, NoClaim
<1>4. \A q \in Procs :
        \/ phase'[q] = phase[q] /\ claim'[q] = claim[q]
        \/ /\ phase'[q] \notin {"claimed", "resolved"}
           /\ claim'[q].token \in {claim[q].token, NoToken}
  BY <1>3
<1>5. \A q \in Procs : phase'[q] = "resolved" => claim[q].token # NoToken
  BY <1>3 DEF ClaimsPast, Holding
<1>6. claim[p].name \in Schedules
  BY DEF TypeOK, Claims
<1>7. \A s \in Schedules : token'[s] \in {token[s], NoToken}
  BY <1>6 DEF FireFails, Release, ReleaseUnknown, ReleaseRow, DeleteUnknown, DeleteRow, rows, TypeOK
<1>8. \A s \in Schedules : expr'[s] = NoExpr \/ (expr'[s] = expr[s] /\ next'[s] = next[s])
  BY <1>6 DEF FireFails, Release, ReleaseUnknown, DeleteUnknown, DeleteRow, rows, TypeOK
<1>9. RowsAreRegistered'
  BY <1>8, RowsStayRegistered DEF OrderInv
<1>10. now <= now'
  BY <1>1, TimesType DEF TypeOK
<1> QED BY <1>1, <1>4, <1>5, <1>7, <1>9, <1>10, QuietKeeps

LEMMA StopOrder ==
  ASSUME TypeOK, TypeOK', ClaimsPast, OrderInv, NEW p \in Procs, Stop(p) \/ SyncFails(p)
  PROVE  OrderInv'
<1>1. PICK ph \in {"down", "booting"} : Forget(p, ph)
  BY DEF Stop, SyncFails
<1>2. UNCHANGED <<now, rows, runs>>
  BY <1>1 DEF Forget
<1>3. \A q \in Procs :
        \/ phase'[q] = phase[q] /\ claim'[q] = claim[q]
        \/ /\ phase'[q] \notin {"claimed", "resolved"}
           /\ claim'[q].token \in {claim[q].token, NoToken}
  BY <1>1 DEF Forget, TypeOK, NoClaim
<1>4. \A q \in Procs : phase'[q] = "resolved" => claim[q].token # NoToken
  BY <1>3 DEF ClaimsPast, Holding
<1>5. RowsAreRegistered' /\ \A s \in Schedules : token'[s] \in {token[s], NoToken}
  BY <1>2, RowsStayRegistered DEF OrderInv, rows
<1>6. now <= now'
  BY <1>2, TimesType DEF TypeOK
<1> QED BY <1>2, <1>3, <1>4, <1>5, <1>6, QuietKeeps

LEMMA BootOrTickOrder ==
  ASSUME TypeOK, TypeOK', ClaimsPast, OrderInv, BootSome \/ Tick \/ UNCHANGED vars
  PROVE  OrderInv'
<1>1. UNCHANGED <<expr, next, token, runs, claim>> /\ now <= now'
  BY TimesType, CronAssumption DEF BootSome, Boot, Tick, vars, rows, lanes, TypeOK
<1>2. \A q \in Procs : phase'[q] = phase[q] \/ phase'[q] = "booting"
  BY DEF BootSome, Boot, Tick, vars, lanes, TypeOK
<1>3. \A q \in Procs : phase'[q] = "resolved" => claim[q].token # NoToken
  BY <1>2 DEF ClaimsPast, Holding
<1>4. RowsAreRegistered'
  BY <1>1, RowsStayRegistered DEF OrderInv
<1> QED BY <1>1, <1>2, <1>3, <1>4, QuietKeeps

LEMMA OrderNext ==
  ASSUME SameRegistry, IInv, IInv', OrderInv, [Next]_vars
  PROVE  OrderInv'
<1>1. TypeOK /\ TypeOK' /\ ClaimsPast
  BY DEF IInv
<1>2. ASSUME NEW p \in Procs, Sync(p) \/ Poll(p) \/ Stop(p) \/ SyncFails(p)
      PROVE  OrderInv'
  BY <1>1, <1>2, SyncOrder, ClaimOrder, ResolveOrder, FireOrder, RestOfPollOrder, StopOrder DEF Poll
<1>3. ASSUME BootSome \/ Tick \/ UNCHANGED vars
      PROVE  OrderInv'
  BY <1>1, <1>3, BootOrTickOrder
<1> QED BY <1>2, <1>3 DEF Next

LEMMA StepInOrder ==
  ASSUME TypeOK, OrderInv, [Next]_vars
  PROVE  \A run \in runs' \ runs, r \in runs : r[1] = run[1] => r[2] < run[2]
<1>1. CASE UNCHANGED runs
  BY <1>1
<1>2. ASSUME NEW p \in Procs, Fire(p), NEW run \in runs' \ runs, NEW r \in runs, r[1] = run[1]
      PROVE  r[2] < run[2]
  <2>1. run = <<claim[p].name, claim[p].fire>>
    BY <1>2 DEF Fire
  <2>2. phase[p] = "resolved" /\ token[claim[p].name] = claim[p].token
    BY <1>2 DEF Fire, Holds
  <2>3. r[2] <= claim[p].fire
    BY <1>2, <2>1, <2>2 DEF OrderInv, HolderIsLast
  <2>4. r = <<r[1], r[2]>> /\ r[2] \in Nat
    <3>1. r \in Schedules \X Times
      BY DEF TypeOK
    <3>2. r = <<r[1], r[2]>> /\ r[2] \in Times
      BY <3>1
    <3> QED BY <3>2, TimesType
  <2>5. r[2] # claim[p].fire
    BY <1>2, <2>1, <2>4
  <2>6. claim[p].fire \in Nat
    BY TimesType DEF TypeOK, Claims
  <2> QED BY <2>1, <2>3, <2>4, <2>5, <2>6
<1> QED BY <1>1, <1>2, OnlyFire

(***************************************************************************)
(* While the deployed versions register the same schedules, a schedule's   *)
(* jobs are made in the order of their slots, whatever leases run out and  *)
(* whatever fails or stops: a process that lost its lease finds another    *)
(* token in the row and rolls its firing back.                             *)
(***************************************************************************)
THEOREM SlotsInOrder ==
  ASSUME SameRegistry
  PROVE  Spec => RunsInOrder
<1>1. Init => OrderInv
  BY OrderInit
<1>2. IInv /\ IInv' /\ OrderInv /\ [Next]_vars => OrderInv'
  BY OrderNext
<1>3. IInv /\ OrderInv /\ [Next]_vars
        => [\A run \in runs' \ runs, r \in runs : r[1] = run[1] => r[2] < run[2]]_vars
  BY StepInOrder DEF IInv
<1> QED BY <1>1, <1>2, <1>3, Invariance, PTL DEF Spec, RunsInOrder
-----------------------------------------------------------------------------
(***************************************************************************)
(* Rows last: with one registry nobody deletes a row, so what a process    *)
(* has listed or written is still there.                                   *)
(***************************************************************************)
ExprsAreRegistered == \A s \in Schedules : Present(s) => expr[s] = Reg[s]

ListedIsThere ==
  \A p \in Procs :
    /\ phase[p] \in {"listed", "syncing"} =>
         \A s \in Schedules : listed[p][s] # NoExpr => expr[s] = listed[p][s]
    /\ phase[p] = "pruning" => listed[p] = NothingListed

SyncedIsThere ==
  \A p \in Procs :
    phase[p] \notin {"down", "booting", "listed", "syncing"} =>
      \A s \in Schedules : Reg[s] # NoExpr => Present(s)

NobodyDeletes == \A p \in Procs : phase[p] # "deleting"

RowsLast == ExprsAreRegistered /\ ListedIsThere /\ SyncedIsThere /\ NobodyDeletes

LEMMA RowsLastInit == Init => RowsLast
BY DEF Init, RowsLast, ExprsAreRegistered, ListedIsThere, SyncedIsThere, NobodyDeletes, Present

(* Steps that write no expression and start or continue no sync. *)
LEMMA RowsLastFrame ==
  ASSUME TypeOK, RowsLast, UNCHANGED expr,
         \A p \in Procs :
           \/ phase'[p] = phase[p] /\ listed'[p] = listed[p]
           \/ phase'[p] \in {"down", "booting"}
           \/ /\ phase'[p] \in {"polling", "claimed", "resolved", "releasing"}
              /\ phase[p] \notin {"down", "booting", "listed", "syncing"}
  PROVE  RowsLast'
<1> USE DEF RowsLast
<1>1. ExprsAreRegistered'
  BY DEF ExprsAreRegistered, Present
<1>2. ListedIsThere'
  BY DEF ListedIsThere, NothingListed
<1>3. SyncedIsThere'
  BY DEF SyncedIsThere, Present
<1>4. NobodyDeletes'
  BY DEF NobodyDeletes
<1> QED BY <1>1, <1>2, <1>3, <1>4

LEMMA UpsertLasts ==
  ASSUME SameRegistry, TypeOK, RowsLast, NEW p \in Procs, SyncUpsert(p)
  PROVE  RowsLast'
<1> USE DEF RowsLast
<1>1. PICK s \in ToUpsert(p) :
        /\ expr' = [expr EXCEPT ![s] = Registered(p, s)]
        /\ listed' = [listed EXCEPT ![p][s] = Registered(p, s)]
  BY DEF SyncUpsert
<1>2. s \in Schedules /\ Registered(p, s) = Reg[s] /\ Reg[s] # NoExpr
  BY RegistryIsReg DEF ToUpsert
<1>3. phase' = phase /\ phase[p] = "syncing"
  BY DEF SyncUpsert
<1>4. expr'[s] = Reg[s] /\ \A r \in Schedules : r # s => expr'[r] = expr[r]
  BY <1>1, <1>2 DEF TypeOK
<1>5. /\ listed'[p][s] = Reg[s]
      /\ \A r \in Schedules : r # s => listed'[p][r] = listed[p][r]
      /\ \A q \in Procs : q # p => listed'[q] = listed[q]
  BY <1>1, <1>2 DEF TypeOK
<1>6. ExprsAreRegistered'
  BY <1>4 DEF ExprsAreRegistered, Present
<1>7. ListedIsThere'
  <2>1. ASSUME NEW q \in Procs, phase[q] \in {"listed", "syncing"},
               NEW r \in Schedules, listed'[q][r] # NoExpr
        PROVE  expr'[r] = listed'[q][r]
    <3>1. CASE r # s
      BY <1>4, <1>5, <2>1, <3>1 DEF ListedIsThere
    <3>2. CASE r = s /\ q = p
      BY <1>4, <1>5, <3>2
    <3>3. CASE r = s /\ q # p
      <4>1. expr[s] = listed[q][s] /\ listed[q][s] # NoExpr
        BY <1>5, <2>1, <3>3 DEF ListedIsThere
      <4>2. expr[s] = Reg[s]
        BY <1>2, <4>1 DEF ExprsAreRegistered, Present
      <4> QED BY <1>4, <1>5, <3>3, <4>1, <4>2
    <3> QED BY <3>1, <3>2, <3>3
  <2>2. \A q \in Procs : phase[q] = "pruning" => listed'[q] = listed[q]
    BY <1>3, <1>5
  <2> QED BY <1>3, <2>1, <2>2 DEF ListedIsThere, NothingListed
<1>8. SyncedIsThere'
  BY <1>2, <1>3, <1>4 DEF SyncedIsThere, Present
<1>9. NobodyDeletes'
  BY <1>3 DEF NobodyDeletes
<1> QED BY <1>6, <1>7, <1>8, <1>9

LEMMA SyncLasts ==
  ASSUME SameRegistry, TypeOK, OrderInv, RowsLast, NEW p \in Procs, Sync(p)
  PROVE  RowsLast'
<1> USE DEF RowsLast
<1>1. CASE SyncList(p)
  <2>1. /\ phase' = [phase EXCEPT ![p] = "listed"] /\ listed' = [listed EXCEPT ![p] = expr]
        /\ UNCHANGED expr
    BY <1>1 DEF SyncList, rows
  <2>2. /\ phase'[p] = "listed" /\ listed'[p] = expr
        /\ \A q \in Procs : q # p => phase'[q] = phase[q] /\ listed'[q] = listed[q]
    BY <2>1 DEF TypeOK
  <2> QED BY <2>1, <2>2 DEF ExprsAreRegistered, ListedIsThere, SyncedIsThere, NobodyDeletes, Present, NothingListed
<1>2. CASE SyncClock(p)
  <2>1. /\ phase[p] = "listed" /\ phase' = [phase EXCEPT ![p] = "syncing"]
        /\ UNCHANGED <<expr, listed>>
    BY <1>2 DEF SyncClock, rows
  <2>2. phase'[p] = "syncing" /\ \A q \in Procs : q # p => phase'[q] = phase[q]
    BY <2>1 DEF TypeOK
  <2> QED BY <2>1, <2>2 DEF ExprsAreRegistered, ListedIsThere, SyncedIsThere, NobodyDeletes, Present, NothingListed
<1>3. CASE SyncUpsert(p)
  BY <1>3, UpsertLasts
<1>4. CASE SyncPrune(p)
  <2>1. /\ phase[p] = "syncing" /\ ToUpsert(p) = {} /\ phase' = [phase EXCEPT ![p] = "pruning"]
        /\ listed' = [listed EXCEPT ![p] =
             [s \in Schedules |-> IF s \in Stale(p) THEN listed[p][s] ELSE NoExpr]]
        /\ UNCHANGED expr
    BY <1>4 DEF SyncPrune, rows
  <2>2. \A s \in Schedules : Registered(p, s) = Reg[s] /\ (Present(s) => Reg[s] # NoExpr)
    BY RegistryIsReg DEF OrderInv, RowsAreRegistered
  <2>3. Stale(p) = {}
    BY <2>1, <2>2 DEF Stale, ListedIsThere, Present
  <2>4. /\ phase'[p] = "pruning" /\ listed'[p] = NothingListed
        /\ \A q \in Procs : q # p => phase'[q] = phase[q] /\ listed'[q] = listed[q]
    BY <2>1, <2>3 DEF TypeOK, NothingListed
  <2>5. \A s \in Schedules : Reg[s] # NoExpr => Present(s)
    BY <2>1, <2>2 DEF ToUpsert, ListedIsThere, Present
  <2> QED BY <2>1, <2>4, <2>5 DEF ExprsAreRegistered, ListedIsThere, SyncedIsThere, NobodyDeletes, Present, NothingListed
<1>5. CASE SyncDelete(p)
  BY <1>5 DEF SyncDelete, ListedIsThere, NothingListed
<1>6. CASE SyncDone(p)
  <2>1. /\ phase[p] = "pruning" /\ phase' = [phase EXCEPT ![p] = "polling"] /\ UNCHANGED <<expr, listed>>
    BY <1>6 DEF SyncDone, rows
  <2> QED BY <2>1, RowsLastFrame DEF TypeOK
<1> QED BY <1>1, <1>2, <1>3, <1>4, <1>5, <1>6 DEF Sync

LEMMA RowsLastStep ==
  ASSUME SameRegistry, TypeOK, OrderInv, RowsLast, [Next]_vars
  PROVE  RowsLast'
<1>1. ASSUME NEW p \in Procs, Claim(p) \/ Resolve(p) \/ Fire(p) \/ FireFails(p) \/ Release(p)
      PROVE  RowsLast'
  <2>1. UNCHANGED <<expr, listed>>
    BY <1>1 DEF Claim, Resolve, Fire, FireFails, Release, rows
  <2>2. /\ phase[p] \notin {"down", "booting", "listed", "syncing"}
        /\ phase'[p] \in {"polling", "claimed", "resolved", "releasing"}
        /\ \A q \in Procs : q # p => phase'[q] = phase[q]
    BY <1>1 DEF Claim, Resolve, Fire, FireFails, Release, LetGo, TypeOK
  <2> QED BY <2>1, <2>2, RowsLastFrame
<1>2. ASSUME NEW p \in Procs PROVE ~ReleaseUnknown(p) /\ ~DeleteUnknown(p)
  BY RegistryIsReg DEF ReleaseUnknown, DeleteUnknown, OrderInv, ClaimsAreSlots, IsSlot, RowsLast, NobodyDeletes
<1>3. ASSUME NEW p \in Procs, Stop(p) \/ SyncFails(p) PROVE RowsLast'
  <2>1. PICK ph \in {"down", "booting"} : Forget(p, ph)
    BY <1>3 DEF Stop, SyncFails
  <2> QED BY <2>1, RowsLastFrame DEF Forget, rows, TypeOK
<1>4. CASE BootSome
  BY <1>4, RowsLastFrame DEF BootSome, Boot, rows, TypeOK
<1>5. CASE Tick \/ UNCHANGED vars
  BY <1>5, RowsLastFrame DEF Tick, vars, rows, lanes
<1> QED BY <1>1, <1>2, <1>3, <1>4, <1>5, SyncLasts DEF Next, Poll

LEMMA RowsLastMeans == SameRegistry /\ TypeOK /\ RowsLast => ScheduleSurvives
BY RegistryIsReg DEF RowsLast, SyncedIsThere, ScheduleSurvives, Syncing

(***************************************************************************)
(* While the deployed versions register the same schedules, a schedule     *)
(* that a process has synced keeps its row for as long as that process is  *)
(* up, whoever else syncs, stops or fails in the meantime.                 *)
(***************************************************************************)
THEOREM SchedulesSurvive ==
  ASSUME SameRegistry
  PROVE  Spec => []ScheduleSurvives
<1>1. IInv /\ IInv' /\ OrderInv /\ [Next]_vars => OrderInv'
  BY OrderNext
<1>2. IInv /\ OrderInv /\ RowsLast /\ [Next]_vars => RowsLast'
  BY RowsLastStep DEF IInv
<1>3. IInv /\ RowsLast => ScheduleSurvives
  BY RowsLastMeans DEF IInv
<1> QED BY <1>1, <1>2, <1>3, OrderInit, RowsLastInit, Invariance, PTL DEF Spec
-----------------------------------------------------------------------------
(***************************************************************************)
(* No slot is passed over.  While syncing takes no time, a process writes  *)
(* a row at the very time it found it missing; so a row that another       *)
(* process wrote in between, and that is reset now, is not older either.   *)
(***************************************************************************)
RowsHaveAge == \A s \in Schedules : Present(s) <=> since[s] # Never

SyncsAreInstant ==
  \A p \in Procs :
    /\ phase[p] = "syncing" => syncNow[p] = now
    /\ phase[p] \in {"listed", "syncing"} =>
         \A s \in Schedules : listed[p][s] = NoExpr /\ Present(s) => since[s] = now

WindowsAreTight ==
  \A p \in Procs :
    phase[p] = "resolved" => IsNextFire(Reg[claim[p].name], claim[p].fire, claim[p].next)

NoneSkipped == RowsHaveAge /\ SyncsAreInstant /\ WindowsAreTight /\ LastSlotFired

LEMMA NoneSkippedInit == Init => NoneSkipped
BY DEF Init, NoneSkipped, RowsHaveAge, SyncsAreInstant, WindowsAreTight, LastSlotFired, Present

(* Steps that write neither an expression nor a next slot. *)
LEMMA SkipFrame ==
  ASSUME NoneSkipped, UNCHANGED <<expr, next, since>>, runs \subseteq runs',
         SyncsAreInstant', WindowsAreTight'
  PROVE  NoneSkipped'
BY DEF NoneSkipped, RowsHaveAge, LastSlotFired, Present

(* No slot lies between the clock a row is written with and its next slot. *)
LEMMA UpsertSkips ==
  ASSUME SameRegistry, TypeOK, OrderInv, RowsLast, NoneSkipped, NEW p \in Procs, SyncUpsert(p)
  PROVE  NoneSkipped'
<1> USE DEF NoneSkipped
<1>1. PICK s \in ToUpsert(p), nextFire \in Times \cup {Never} :
        /\ IsNextFire(Registered(p, s), syncNow[p], nextFire)
        /\ expr' = [expr EXCEPT ![s] = Registered(p, s)]
        /\ next' = [next EXCEPT ![s] = nextFire]
        /\ listed' = [listed EXCEPT ![p][s] = Registered(p, s)]
        /\ since' = [since EXCEPT ![s] = IF @ = Never THEN syncNow[p] ELSE @]
  BY DEF SyncUpsert
<1>2. s \in Schedules /\ Registered(p, s) = Reg[s] /\ Reg[s] # NoExpr /\ listed[p][s] # Reg[s]
  BY RegistryIsReg DEF ToUpsert
<1>3. /\ phase[p] = "syncing" /\ UNCHANGED <<now, runs, phase, syncNow, claim>>
      /\ syncNow[p] = now /\ now \in Times /\ now # Never
  BY TimesType DEF SyncUpsert, SyncsAreInstant, TypeOK
<1>4. listed[p][s] = NoExpr
  <2>1. listed[p][s] # NoExpr => expr[s] = listed[p][s]
    BY <1>2, <1>3 DEF RowsLast, ListedIsThere
  <2> QED BY <1>2, <2>1 DEF RowsLast, ExprsAreRegistered, Present
<1>5. since'[s] = now
  BY <1>1, <1>2, <1>3, <1>4 DEF TypeOK, RowsHaveAge, SyncsAreInstant
<1>6. /\ expr'[s] = Reg[s] /\ next'[s] = nextFire
      /\ \A r \in Schedules : r # s => expr'[r] = expr[r] /\ next'[r] = next[r] /\ since'[r] = since[r]
  BY <1>1, <1>2 DEF TypeOK
<1>7. /\ listed'[p][s] = Reg[s]
      /\ \A r \in Schedules : r # s => listed'[p][r] = listed[p][r]
      /\ \A q \in Procs : q # p => listed'[q] = listed[q]
  BY <1>1, <1>2 DEF TypeOK
<1>8. RowsHaveAge'
  BY <1>2, <1>3, <1>5, <1>6 DEF RowsHaveAge, Present, Never
<1>9. SyncsAreInstant'
  <2>1. ASSUME NEW q \in Procs, phase[q] \in {"listed", "syncing"}, NEW r \in Schedules,
               listed'[q][r] = NoExpr, expr'[r] # NoExpr
        PROVE  since'[r] = now
    <3>1. CASE r = s
      BY <1>5, <3>1
    <3>2. CASE r # s
      BY <1>6, <1>7, <2>1, <3>2 DEF SyncsAreInstant, Present
    <3> QED BY <3>1, <3>2
  <2> QED BY <1>3, <2>1 DEF SyncsAreInstant, Present
<1>10. WindowsAreTight'
  BY <1>3 DEF WindowsAreTight, IsNextFire
<1>11. LastSlotFired'
  <2>1. ASSUME NEW u \in SlotsOf[Reg[s]], now < u
        PROVE  ~(u < nextFire)
    <3>1. nextFire <= u /\ u \in Nat /\ nextFire \in Nat
      <4>1. Reg[s] \in Exprs
        BY <1>2, <1>6, RegistryIsReg, CronAssumption DEF Registered, TypeOK
      <4> QED BY <1>1, <1>2, <1>3, <2>1, <4>1, TimesType, CronAssumption DEF IsNextFire
    <3> QED BY <3>1
  <2> QED BY <1>3, <1>5, <1>6, <2>1 DEF LastSlotFired, Present
<1> QED BY <1>8, <1>9, <1>10, <1>11

LEMMA FireSkips ==
  ASSUME TypeOK, OrderInv, RowsLast, NoneSkipped, NEW p \in Procs, Fire(p)
  PROVE  NoneSkipped'
<1> USE DEF NoneSkipped
<1> DEFINE s == claim[p].name
<1>1. /\ phase[p] = "resolved" /\ Present(s)
      /\ runs' = runs \cup {<<s, claim[p].fire>>}
      /\ next' = [next EXCEPT ![s] = claim[p].next]
      /\ LetGo(p, "polling")
      /\ UNCHANGED <<now, expr, since, listed, syncNow>>
  BY DEF Fire, Holds
<1>2. s \in Schedules /\ expr[s] = Reg[s]
  BY <1>1 DEF TypeOK, Claims, RowsLast, ExprsAreRegistered
<1>3. /\ phase'[p] = "polling"
      /\ \A q \in Procs : q # p => phase'[q] = phase[q] /\ claim'[q] = claim[q]
  BY <1>1 DEF LetGo, TypeOK
<1>4. next'[s] = claim[p].next /\ \A r \in Schedules : r # s => next'[r] = next[r]
  BY <1>1, <1>2 DEF TypeOK
<1>5. RowsHaveAge'
  BY <1>1 DEF RowsHaveAge, Present
<1>6. SyncsAreInstant'
  BY <1>1, <1>3 DEF SyncsAreInstant, Present
<1>7. WindowsAreTight'
  BY <1>3 DEF WindowsAreTight, IsNextFire
<1>8. ASSUME NEW u \in SlotsOf[Reg[s]], u < claim[p].next
      PROVE  <<s, u>> \in runs' \/ \E v \in SlotsOf[Reg[s]] : u < v /\ v < claim[p].next
  <2>1. /\ IsNextFire(Reg[s], claim[p].fire, claim[p].next)
        /\ claim[p].fire \in SlotsOf[Reg[s]]
    BY <1>1 DEF WindowsAreTight, OrderInv, ClaimsAreSlots, IsSlot
  <2>2. claim[p].fire \in Nat /\ claim[p].next \in Nat /\ u \in Nat
    <3>1. SlotsOf[Reg[s]] \subseteq Times
      BY <1>1, <1>2, CronAssumption DEF TypeOK, Present
    <3> QED BY <3>1, TimesType DEF TypeOK, Claims
  <2>3. claim[p].fire < claim[p].next /\ ~(claim[p].fire < u)
    BY <1>8, <2>1, <2>2 DEF IsNextFire
  <2>4. CASE u = claim[p].fire
    BY <1>1, <2>4
  <2>5. CASE u # claim[p].fire
    BY <2>1, <2>2, <2>3, <2>5
  <2> QED BY <2>4, <2>5
<1>9. LastSlotFired'
  <2>1. ASSUME NEW r \in Schedules, r # s, Present(r), NEW u \in SlotsOf[expr[r]],
               since[r] < u, u < next[r]
        PROVE  <<r, u>> \in runs' \/ \E v \in SlotsOf[expr[r]] : u < v /\ v < next[r]
    BY <1>1, <2>1 DEF LastSlotFired
  <2> QED BY <1>1, <1>2, <1>4, <1>8, <2>1 DEF LastSlotFired, Present
<1> QED BY <1>5, <1>6, <1>7, <1>9

LEMMA NoneSkippedStep ==
  ASSUME SameRegistry, ~SyncTakesTime, TypeOK, OrderInv, RowsLast, NoneSkipped, [Next]_vars
  PROVE  NoneSkipped'
<1> USE DEF NoneSkipped
<1>1. ASSUME NEW p \in Procs, Sync(p) PROVE NoneSkipped'
  <2>1. CASE SyncList(p)
    <3>1. /\ phase' = [phase EXCEPT ![p] = "listed"] /\ listed' = [listed EXCEPT ![p] = expr]
          /\ UNCHANGED <<now, expr, next, since, runs, claim, syncNow>>
      BY <2>1 DEF SyncList, rows
    <3>2. /\ phase'[p] = "listed" /\ listed'[p] = expr
          /\ \A q \in Procs : q # p => phase'[q] = phase[q] /\ listed'[q] = listed[q]
      BY <3>1 DEF TypeOK
    <3>3. SyncsAreInstant'
      BY <3>1, <3>2 DEF SyncsAreInstant, Present
    <3>4. WindowsAreTight'
      BY <3>1, <3>2 DEF WindowsAreTight, IsNextFire
    <3> QED BY <3>1, <3>3, <3>4, SkipFrame
  <2>2. CASE SyncClock(p)
    <3>1. /\ phase[p] = "listed" /\ phase' = [phase EXCEPT ![p] = "syncing"]
          /\ syncNow' = [syncNow EXCEPT ![p] = now]
          /\ UNCHANGED <<now, expr, next, since, runs, claim, listed>>
      BY <2>2 DEF SyncClock, rows
    <3>2. /\ phase'[p] = "syncing" /\ syncNow'[p] = now
          /\ \A q \in Procs : q # p => phase'[q] = phase[q] /\ syncNow'[q] = syncNow[q]
      BY <3>1 DEF TypeOK
    <3>3. SyncsAreInstant'
      BY <3>1, <3>2 DEF SyncsAreInstant, Present
    <3>4. WindowsAreTight'
      BY <3>1, <3>2 DEF WindowsAreTight, IsNextFire
    <3> QED BY <3>1, <3>3, <3>4, SkipFrame
  <2>3. CASE SyncPrune(p) \/ SyncDone(p)
    <3>1. /\ phase'[p] \in {"pruning", "polling"}
          /\ \A q \in Procs : q # p =>
               phase'[q] = phase[q] /\ listed'[q] = listed[q] /\ syncNow'[q] = syncNow[q]
          /\ UNCHANGED <<now, expr, next, since, runs, claim>>
      BY <2>3 DEF SyncPrune, SyncDone, rows, TypeOK
    <3>3. SyncsAreInstant'
      BY <3>1 DEF SyncsAreInstant, Present
    <3>4. WindowsAreTight'
      BY <3>1 DEF WindowsAreTight, IsNextFire
    <3> QED BY <3>1, <3>3, <3>4, SkipFrame
  <2>4. CASE SyncDelete(p)
    BY <2>4 DEF SyncDelete, RowsLast, ListedIsThere, NothingListed
  <2> QED BY <1>1, <2>1, <2>2, <2>3, <2>4, UpsertSkips DEF Sync
<1>2. ASSUME NEW p \in Procs, Claim(p) \/ FireFails(p) \/ Release(p) PROVE NoneSkipped'
  <2>1. /\ phase'[p] \in {"claimed", "releasing", "polling"}
        /\ \A q \in Procs : q # p => phase'[q] = phase[q] /\ claim'[q] = claim[q]
        /\ UNCHANGED <<now, expr, next, since, runs, listed, syncNow>>
    BY <1>2 DEF Claim, FireFails, Release, LetGo, rows, TypeOK
  <2>3. SyncsAreInstant'
    BY <2>1 DEF SyncsAreInstant, Present
  <2>4. WindowsAreTight'
    BY <2>1 DEF WindowsAreTight, IsNextFire
  <2> QED BY <2>1, <2>3, <2>4, SkipFrame
<1>3. ASSUME NEW p \in Procs, Resolve(p) PROVE NoneSkipped'
  <2> DEFINE s == claim[p].name
  <2>1. PICK fire \in Times \cup {Never}, nextFire \in Times \cup {Never} :
          /\ IsWindow(Registered(p, s), claim[p].due, now, fire, nextFire)
          /\ claim' = [claim EXCEPT ![p].fire = fire, ![p].next = nextFire]
    BY <1>3 DEF Resolve
  <2>2. /\ phase' = [phase EXCEPT ![p] = "resolved"]
        /\ UNCHANGED <<now, expr, next, since, runs, listed, syncNow>>
    BY <1>3 DEF Resolve, rows
  <2>3. /\ phase'[p] = "resolved"
        /\ claim'[p].name = s /\ claim'[p].fire = fire /\ claim'[p].next = nextFire
        /\ \A q \in Procs : q # p => phase'[q] = phase[q] /\ claim'[q] = claim[q]
    BY <2>1, <2>2 DEF TypeOK, Claims
  <2>4. IsNextFire(Reg[s], fire, nextFire)
    BY <2>1, RegistryIsReg DEF IsWindow
  <2>5. SyncsAreInstant'
    BY <2>2, <2>3 DEF SyncsAreInstant, Present
  <2>6. WindowsAreTight'
    BY <2>3, <2>4 DEF WindowsAreTight, IsNextFire
  <2> QED BY <2>2, <2>5, <2>6, SkipFrame
<1>4. ASSUME NEW p \in Procs PROVE ~ReleaseUnknown(p) /\ ~DeleteUnknown(p)
  BY RegistryIsReg DEF ReleaseUnknown, DeleteUnknown, OrderInv, ClaimsAreSlots, IsSlot, RowsLast, NobodyDeletes
<1>5. CASE BootSome \/ \E p \in Procs : Stop(p) \/ SyncFails(p)
  <2>1. PICK p \in Procs :
          /\ phase'[p] \in {"down", "booting"}
          /\ \A q \in Procs : q # p => /\ phase'[q] = phase[q] /\ claim'[q] = claim[q]
                                       /\ listed'[q] = listed[q] /\ syncNow'[q] = syncNow[q]
          /\ UNCHANGED <<now, expr, next, since, runs>>
    BY <1>5 DEF BootSome, Boot, Stop, SyncFails, Forget, rows, TypeOK
  <2>2. SyncsAreInstant'
    BY <2>1 DEF SyncsAreInstant, Present
  <2>3. WindowsAreTight'
    BY <2>1 DEF WindowsAreTight, IsNextFire
  <2> QED BY <2>1, <2>2, <2>3, SkipFrame
<1>6. CASE Tick
  <2>1. /\ \A p \in Procs : phase[p] \notin Syncing
        /\ UNCHANGED <<phase, claim, expr, next, since, runs>>
    BY <1>6 DEF Tick, lanes
  <2>2. SyncsAreInstant'
    BY <2>1 DEF SyncsAreInstant, Syncing
  <2>3. WindowsAreTight'
    BY <2>1 DEF WindowsAreTight, IsNextFire
  <2> QED BY <2>1, <2>2, <2>3, SkipFrame
<1>7. CASE UNCHANGED vars
  BY <1>7 DEF vars, rows, lanes, RowsHaveAge, SyncsAreInstant, WindowsAreTight, LastSlotFired, Present, IsNextFire
<1>8. ASSUME NEW p \in Procs, Fire(p) PROVE NoneSkipped'
  BY <1>8, FireSkips
<1> QED BY <1>1, <1>2, <1>3, <1>4, <1>5, <1>6, <1>7, <1>8 DEF Next, Poll

(***************************************************************************)
(* Processes of one registry that sync while the clock stands still lose   *)
(* no schedule, and pass over a slot only in favour of a later one,        *)
(* through every stop, fault and outlived lease: resolving a window skips  *)
(* to the last slot that is due, and a late upsert resets nothing older.   *)
(***************************************************************************)
THEOREM NothingIsLost ==
  ASSUME SameRegistry, ~SyncTakesTime
  PROVE  Spec => []NothingLost
<1>1. IInv /\ IInv' /\ OrderInv /\ [Next]_vars => OrderInv'
  BY OrderNext
<1>2. IInv /\ OrderInv /\ RowsLast /\ [Next]_vars => RowsLast'
  BY RowsLastStep DEF IInv
<1>3. IInv /\ OrderInv /\ RowsLast /\ NoneSkipped /\ [Next]_vars => NoneSkipped'
  BY NoneSkippedStep DEF IInv
<1>4. IInv /\ RowsLast /\ NoneSkipped => NothingLost
  BY RowsLastMeans DEF IInv, NoneSkipped, NothingLost
<1> QED BY <1>1, <1>2, <1>3, <1>4, OrderInit, RowsLastInit, NoneSkippedInit, Invariance, PTL DEF Spec
=============================================================================
