----------------------------- MODULE MeshProofs -----------------------------
(***************************************************************************)
(* Theorems about the mesh, for any calls, peers, nodes, loads, options    *)
(* and delays, and any number of faults.  Its calls: of a call no two      *)
(* executions that it did not give up, each in its own context if the      *)
(* calls that overlap end in order.  Its registry: no node that ended is a *)
(* peer for long, and the sweep takes no row of a node that beats in time. *)
(***************************************************************************)
EXTENDS MeshCalls, FiniteSetTheorems, TLAPS

CONSTANTS Nodes, HeartbeatMs, OfflineAfter, GcAfter, MaxDelay, Meshes, Unknown
VARIABLES mesh, at, due, row, cache, listed, tx, joined, mail, left, gone

Registry == INSTANCE MeshRegistry

Stages == {"idle", "before", "no context", "waiting", "failed", "delay", "answered", "ended"}
CallStates == [pc : Stages, previous : Calls \cup {None}, ctx : Calls \cup {None}, req : Requests \cup {None},
               try : Nat, outcome : {"result", "fallback", "error", None}]
Executions == [call : Calls, try : Nat, at : Peers \cup {Local, None}, ctx : Calls \cup {None},
               phase : {"sent", "runs"}]

(* The type invariant. *)
TypeOK ==
  /\ slot \in Calls \cup {None}
  /\ call \in [Calls -> CallStates]
  /\ running \subseteq Executions
  /\ peers \in [Peers -> {"fresh", "old", None}] /\ counter \in Int
  /\ givenUp \subseteq Calls \X Nat

(***************************************************************************)
(* Attempts are counted from 1, an execution is of one that was made, and  *)
(* no attempt has two.                                                     *)
(***************************************************************************)
Counted ==
  /\ \A c \in Calls : call[c].pc \in {"idle", "before"} => call[c].try = 0
  /\ \A e \in running : e.try >= 1 /\ e.try <= call[e.call].try
  /\ \A e, f \in running : Attempted(e) = Attempted(f) => e = f

CallInv == TypeOK /\ Counted /\ OneAtATime

(* Of two calls in flight one began after the other; a call that is not in *)
(* flight has none after it.                                               *)
Ordered ==
  /\ later \in [Calls -> SUBSET {d \in Calls : InFlight(d)}]
  /\ \A c \in Calls : ~InFlight(c) => later[c] = {}
  /\ \A c, d \in Calls : InFlight(c) /\ InFlight(d) /\ c # d => d \in later[c] \/ c \in later[d]

(* Call d is the one that took the slot from c. *)
Follows(c, d) == d \in later[c] /\ \A e \in later[c] \ {d} : e \in later[d]

(***************************************************************************)
(* As long as calls end in the opposite order of their beginnings, the     *)
(* slots are a stack: the last one's context is in the shared slot, that   *)
(* of each other one is what the next one has put aside.                   *)
(***************************************************************************)
Stacked ==
  \A c \in Calls : InFlight(c) /\ c \notin crossed =>
    /\ later[c] = {} => slot = c
    /\ \A d \in Calls : Follows(c, d) => call[d].previous = c

(* A call is excused if calls have crossed it or hidden its context.       *)
Excused(c) == c \in crossed \cup hidden
Owns(c, ctx) == ctx = c \/ Excused(c)

Taken == \A c \in Calls : InFlight(c) /\ call[c].pc # "before" => Owns(c, call[c].ctx)

ContextInv == Ordered /\ Stacked /\ Taken /\ OwnContext
-----------------------------------------------------------------------------
(* The parts of a step that change one call.  It keeps its attempt, or it  *)
(* makes the next one.                                                     *)
LEMMA CallChanges ==
  ASSUME TypeOK, Counted, OneAtATime, NEW c \in Calls, NEW rec \in CallStates,
         call' = [call EXCEPT ![c] = rec], rec.try = call[c].try,
         rec.pc \in {"idle", "before"} => call[c].pc \in {"idle", "before"},
         running' \subseteq running, givenUp \subseteq givenUp',
         call[c].pc = "waiting" =>
           \A e \in running' : e.call = c /\ e.try = call[c].try => rec.pc = "waiting" \/ Attempted(e) \in givenUp'
  PROVE  call' \in [Calls -> CallStates] /\ running' \subseteq Executions /\ Counted' /\ OneAtATime'
<1>1. /\ call' \in [Calls -> CallStates] /\ call'[c] = rec
      /\ \A d \in Calls : d # c => call'[d] = call[d]
  BY DEF TypeOK
<1>2. \A d \in Calls : call'[d].try = call[d].try
  BY <1>1
<1>3. \A e \in running' : e \in running /\ e.call \in Calls
  BY DEF TypeOK, Executions
<1>4. Counted'
  <2>1. \A d \in Calls : call'[d].pc \in {"idle", "before"} => call'[d].try = 0
    BY <1>1, <1>2 DEF Counted
  <2>2. \A e \in running' : e.try >= 1 /\ e.try <= call'[e.call].try
    BY <1>2, <1>3 DEF Counted
  <2>3. \A e, f \in running' : Attempted(e) = Attempted(f) => e = f
    BY <1>3 DEF Counted
  <2> QED BY <2>1, <2>2, <2>3 DEF Counted, Attempted
<1>5. OneAtATime'
  <2> SUFFICES ASSUME NEW e \in running'
               PROVE  (call'[e.call].pc = "waiting" /\ call'[e.call].try = e.try) \/ Attempted(e) \in givenUp'
    BY DEF OneAtATime, Awaited, Attempted
  <2>1. (call[e.call].pc = "waiting" /\ call[e.call].try = e.try) \/ Attempted(e) \in givenUp'
    BY <1>3 DEF OneAtATime, Awaited
  <2>2. CASE e.call # c
    BY <1>1, <1>3, <2>1, <2>2
  <2>3. CASE e.call = c
    BY <1>1, <2>1, <2>3
  <2> QED BY <2>2, <2>3
<1> QED BY <1>1, <1>3, <1>4, <1>5 DEF TypeOK

LEMMA AttemptMade ==
  ASSUME TypeOK, Counted, OneAtATime, NEW c \in Calls, NEW rec \in CallStates, NEW try \in Nat,
         call[c].pc # "waiting", try = call[c].try + 1, Attempt(c, rec, try), UNCHANGED givenUp
  PROVE  /\ call' \in [Calls -> CallStates] /\ running' \subseteq Executions
         /\ peers' \in [Peers -> {"fresh", "old", None}] /\ counter' \in Int
         /\ Counted' /\ OneAtATime'
<1>1. PICK target \in Peers \cup {Local, None} : Attempt(c, rec, try)!(target)
  BY DEF Attempt
<1> DEFINE rejected == target = None \/ (target # Local /\ ~rec.req.remote)
           phase == IF target = Local THEN "runs" ELSE "sent"
           new == [rec EXCEPT !.try = try, !.pc = IF rejected THEN "failed" ELSE "waiting"]
           exec == [call |-> c, try |-> try, at |-> target, ctx |-> rec.ctx, phase |-> phase]
<1>2. /\ PickTarget(rec.req, target)
      /\ call' = [call EXCEPT ![c] = new]
      /\ running' = IF rejected THEN running ELSE running \cup {exec}
  BY <1>1
<1>3. /\ new \in CallStates /\ new.try = try
      /\ new.pc = IF rejected THEN "failed" ELSE "waiting"
  BY DEF CallStates, Stages
<1>4. exec \in Executions /\ exec.call = c /\ exec.try = try
  BY DEF Executions, CallStates
<1> HIDE DEF rejected, new, exec
<1>5. /\ call' \in [Calls -> CallStates] /\ call'[c] = new
      /\ \A d \in Calls : d # c => call'[d] = call[d]
  BY <1>2, <1>3 DEF TypeOK
<1>6. peers' \in [Peers -> {"fresh", "old", None}] /\ counter' \in Int
  <2>1. peers' \in [Peers -> {"fresh", "old", None}]
    BY <1>2 DEF PickTarget, TypeOK
  <2>2. counter' \in Int
    BY <1>2 DEF PickTarget, TypeOK
  <2> QED BY <2>1, <2>2
<1>7. \A e \in running : e.call \in Calls /\ e.try \in Nat /\ call[e.call].try \in Nat
  BY DEF TypeOK, Executions, CallStates
<1>8. ASSUME NEW e \in running, e.call = c PROVE e.try < try /\ Attempted(e) \in givenUp'
  <2>1. e.try <= call[c].try /\ call[c].try \in Nat /\ e.try \in Nat
    BY <1>7, <1>8 DEF Counted
  <2> QED BY <1>8, <2>1 DEF OneAtATime, Awaited
<1>9. Counted'
  <2>1. ASSUME NEW d \in Calls, call'[d].pc \in {"idle", "before"} PROVE call'[d].try = 0
    BY <1>3, <1>5, <2>1 DEF Counted
  <2>2. ASSUME NEW e \in running' PROVE e.try >= 1 /\ e.try <= call'[e.call].try
    <3>1. CASE e \in running
      <4>1. CASE e.call = c
        <5>1. call'[e.call].try = try /\ e.try < try /\ e.try >= 1 /\ e.try \in Nat
          BY <1>3, <1>5, <1>7, <1>8, <3>1, <4>1 DEF Counted
        <5> QED BY <5>1
      <4>2. CASE e.call # c
        BY <1>5, <1>7, <3>1, <4>2 DEF Counted
      <4> QED BY <4>1, <4>2
    <3>2. CASE e = exec
      <4>1. try \in Nat /\ call[c].try \in Nat /\ try >= 1
        BY DEF TypeOK, CallStates
      <4> QED BY <1>3, <1>4, <1>5, <3>2, <4>1
    <3> QED BY <1>2, <3>1, <3>2
  <2>3. ASSUME NEW e \in running', NEW f \in running', Attempted(e) = Attempted(f) PROVE e = f
    <3>1. e.call = f.call /\ e.try = f.try
      BY <2>3 DEF Attempted
    <3>2. CASE e \in running /\ f \in running
      BY <2>3, <3>2 DEF Counted
    <3>3. CASE e \in running /\ f = exec
      BY <1>4, <1>7, <1>8, <3>1, <3>3
    <3>4. CASE e = exec /\ f \in running
      BY <1>4, <1>7, <1>8, <3>1, <3>4
    <3> QED BY <1>2, <3>2, <3>3, <3>4
  <2> QED BY <2>1, <2>2, <2>3 DEF Counted, Attempted
<1>10. OneAtATime'
  <2> SUFFICES ASSUME NEW e \in running'
               PROVE  (call'[e.call].pc = "waiting" /\ call'[e.call].try = e.try) \/ Attempted(e) \in givenUp'
    BY DEF OneAtATime, Awaited, Attempted
  <2>1. CASE e \in running /\ e.call = c
    BY <1>8, <2>1
  <2>2. CASE e \in running /\ e.call # c
    BY <1>5, <1>7, <2>2 DEF OneAtATime, Awaited
  <2>3. CASE e \notin running
    <3>1. e = exec /\ ~rejected
      BY <1>2, <2>3
    <3> QED BY <1>3, <1>4, <1>5, <3>1
  <2> QED BY <2>1, <2>2, <2>3
<1>11. running' \subseteq Executions
  BY <1>2, <1>4 DEF TypeOK
<1> QED BY <1>5, <1>6, <1>9, <1>10, <1>11

LEMMA CallInit == Init => CallInv
<1> SUFFICES ASSUME Init PROVE CallInv
  OBVIOUS
<1>1. Idle \in CallStates /\ Idle.pc = "idle" /\ Idle.try = 0
  BY DEF Idle, CallStates, Stages
<1>2. TypeOK
  <2>1. peers \in [Peers -> {"fresh", "old", None}]
    BY DEF Init
  <2> QED BY <1>1, <2>1 DEF Init, TypeOK
<1>3. Counted
  BY <1>1 DEF Init, Counted
<1>4. OneAtATime
  BY DEF Init, OneAtATime
<1> QED BY <1>2, <1>3, <1>4 DEF CallInv

(* What a call changes to, and what executions and attempts there are.     *)
Calling ==
  /\ call' \in [Calls -> CallStates] /\ running' \subseteq Executions
  /\ Counted' /\ OneAtATime'

(* An execution ends or is refused, and its call with it if it is awaited. *)
LEMMA Settles ==
  ASSUME TypeOK, Counted, OneAtATime, NEW e \in running, NEW pc \in {"failed", "answered"},
         Settle(e, pc), running' \subseteq running, givenUp \subseteq givenUp',
         e \notin running' \/ Attempted(e) \in givenUp'
  PROVE  Calling
<1>1. e.call \in Calls /\ call[e.call] \in CallStates
  BY DEF TypeOK, Executions
<1> DEFINE rec == IF Awaited(e) THEN [call[e.call] EXCEPT !.pc = pc] ELSE call[e.call]
<1>2. call' = [call EXCEPT ![e.call] = rec]
  BY <1>1 DEF Settle, TypeOK
<1>3. /\ rec \in CallStates /\ rec.try = call[e.call].try
      /\ rec.pc \in {"idle", "before"} => call[e.call].pc \in {"idle", "before"}
      /\ rec.pc = "waiting" \/ call[e.call].pc # "waiting" \/ e.try = call[e.call].try
  BY <1>1 DEF CallStates, Stages, Awaited
<1> HIDE DEF rec
<1>4. ASSUME NEW f \in running', f.call = e.call, f.try = call[e.call].try,
             call[e.call].pc = "waiting", rec.pc # "waiting"
      PROVE  Attempted(f) \in givenUp'
  <2>1. Attempted(f) = Attempted(e)
    BY <1>3, <1>4 DEF Attempted
  <2>2. f = e
    BY <2>1 DEF Counted
  <2> QED BY <2>1, <2>2
<1> QED BY <1>1, <1>2, <1>3, <1>4, CallChanges DEF Calling

(* A call that is no longer waiting.                                       *)
LEMMA CallGoes ==
  ASSUME TypeOK, Counted, OneAtATime, NEW c \in Calls, NEW pc \in {"delay", "failed", "ended", "no context"},
         NEW outcome \in {"result", "fallback", "error", None},
         call' = [call EXCEPT ![c] = [call[c] EXCEPT !.pc = pc, !.outcome = outcome]],
         UNCHANGED running, givenUp \subseteq givenUp',
         call[c].pc = "waiting" => <<c, call[c].try>> \in givenUp'
  PROVE  Calling
<1> DEFINE rec == [call[c] EXCEPT !.pc = pc, !.outcome = outcome]
<1>1. rec \in CallStates /\ rec.try = call[c].try /\ rec.pc = pc
  BY DEF TypeOK, CallStates, Stages
<1> HIDE DEF rec
<1>2. call' = [call EXCEPT ![c] = rec]
  BY DEF rec
<1>3. call[c].pc = "waiting" =>
        \A e \in running' : e.call = c /\ e.try = call[c].try => rec.pc = "waiting" \/ Attempted(e) \in givenUp'
  BY DEF Attempted
<1>4. rec.pc \notin {"idle", "before"}
  BY <1>1
<1> QED BY <1>1, <1>2, <1>3, <1>4, CallChanges DEF Calling

(* A request is received: its execution is that of the same attempt.       *)
LEMMA RequestArrives ==
  ASSUME TypeOK, Counted, OneAtATime, NEW e \in running, UNCHANGED <<call, givenUp>>,
         running' = (running \ {e}) \cup {[e EXCEPT !.phase = "runs"]}
  PROVE  Calling
<1> DEFINE arrived == [e EXCEPT !.phase = "runs"]
<1>1. e \in Executions /\ e.call \in Calls
  BY DEF TypeOK, Executions
<1>2. /\ arrived \in Executions /\ arrived.call = e.call /\ arrived.try = e.try
      /\ Attempted(arrived) = Attempted(e)
  BY <1>1 DEF Executions, Attempted
<1>3. running' = (running \ {e}) \cup {arrived}
  OBVIOUS
<1> HIDE DEF arrived
<1>4. \A f \in running' : \E g \in running : Attempted(f) = Attempted(g) /\ (f = g \/ g = e) /\ f.call = g.call /\ f.try = g.try
  BY <1>2, <1>3
<1>5. Counted'
  <2>1. \A c \in Calls : call'[c].pc \in {"idle", "before"} => call'[c].try = 0
    BY DEF Counted
  <2>2. \A f \in running' : f.try >= 1 /\ f.try <= call'[f.call].try
    BY <1>4 DEF Counted
  <2>3. ASSUME NEW f \in running', NEW g \in running', Attempted(f) = Attempted(g) PROVE f = g
    <3>1. CASE f \in running \ {e} /\ g \in running \ {e}
      BY <2>3, <3>1 DEF Counted
    <3>2. CASE f = arrived /\ g \in running \ {e}
      BY <1>2, <2>3, <3>2 DEF Counted
    <3>3. CASE f \in running \ {e} /\ g = arrived
      BY <1>2, <2>3, <3>3 DEF Counted
    <3> QED BY <1>3, <3>1, <3>2, <3>3
  <2> QED BY <2>1, <2>2, <2>3 DEF Counted, Attempted
<1>6. OneAtATime'
  <2> SUFFICES ASSUME NEW f \in running'
               PROVE  (call[f.call].pc = "waiting" /\ call[f.call].try = f.try) \/ <<f.call, f.try>> \in givenUp
    BY DEF OneAtATime, Awaited, Attempted
  <2>1. PICK g \in running : f.call = g.call /\ f.try = g.try
    BY <1>4
  <2> QED BY <2>1 DEF OneAtATime, Awaited, Attempted
<1>7. running' \subseteq Executions
  BY <1>2, <1>3 DEF TypeOK
<1> QED BY <1>5, <1>6, <1>7 DEF Calling, TypeOK
-----------------------------------------------------------------------------
LEMMA CallNextStep ==
  ASSUME CallInv, Next
  PROVE  CallInv'
<1>1. TypeOK /\ Counted /\ OneAtATime
  BY DEF CallInv
<1> DEFINE Rest == slot' \in Calls \cup {None} /\ peers' \in [Peers -> {"fresh", "old", None}] /\ counter' \in Int
                   /\ givenUp' \subseteq Calls \X Nat
<1>2. ASSUME Calling, Rest PROVE CallInv'
  BY <1>2 DEF Calling, CallInv, TypeOK
<1>3. ASSUME NEW c \in Calls, NEW req \in Requests, NEW waits \in Waits, Call(c, req, waits) PROVE CallInv'
  <2> DEFINE rec == [Idle EXCEPT !.previous = slot, !.req = req, !.ctx = Take(c)]
  <2>1. /\ rec \in CallStates /\ rec.try = 0 /\ call[c].try = 0 /\ call[c].pc = "idle"
        /\ [rec EXCEPT !.pc = "before", !.ctx = None] \in CallStates
        /\ [rec EXCEPT !.pc = "before", !.ctx = None].try = 0
        /\ [rec EXCEPT !.pc = "before", !.ctx = None].pc = "before"
    BY <1>1, <1>3 DEF Call, Idle, Take, CallStates, Stages, TypeOK, Counted
  <2>2. slot' \in Calls \cup {None} /\ UNCHANGED givenUp
    BY <1>3 DEF Call, Take
  <2>3. CASE waits
    <3> DEFINE before == [rec EXCEPT !.pc = "before", !.ctx = None]
    <3>1. call' = [call EXCEPT ![c] = before] /\ UNCHANGED <<running, peers, counter>>
      BY <1>3, <2>3 DEF Call
    <3>2. before \in CallStates /\ before.try = call[c].try /\ call[c].pc = "idle"
      BY <2>1
    <3> HIDE DEF before
    <3>3. Calling
      BY <1>1, <2>2, <3>1, <3>2, CallChanges DEF Calling
    <3> QED BY <1>1, <1>2, <2>2, <3>1, <3>3 DEF TypeOK
  <2>4. CASE ~waits
    <3>1. Attempt(c, rec, 1)
      BY <1>3, <2>4 DEF Call
    <3>2. 1 \in Nat /\ 1 = call[c].try + 1 /\ call[c].pc # "waiting"
      BY <2>1
    <3> HIDE DEF rec
    <3>3. Calling /\ peers' \in [Peers -> {"fresh", "old", None}] /\ counter' \in Int
      BY <1>1, <2>1, <2>2, <3>1, <3>2, AttemptMade DEF Calling
    <3> QED BY <1>1, <1>2, <2>2, <3>3 DEF TypeOK
  <2> QED BY <2>3, <2>4
<1>4. ASSUME NEW c \in Calls, CallNext(c) PROVE CallInv'
  <2>1. call[c].pc = "before" /\ call[c].try = 0 /\ call[c] \in CallStates /\ UNCHANGED <<slot, givenUp>>
    BY <1>1, <1>4 DEF CallNext, Counted, TypeOK
  <2>2. CASE slot = None
    <3>1. call' = [call EXCEPT ![c] = [call[c] EXCEPT !.pc = "no context", !.outcome = call[c].outcome]]
          /\ UNCHANGED <<running, peers, counter>>
      BY <1>1, <1>4, <2>1, <2>2 DEF CallNext, TypeOK, CallStates
    <3>2. call[c].outcome \in {"result", "fallback", "error", None}
      BY <2>1 DEF CallStates
    <3>3. Calling
      BY <1>1, <2>1, <3>1, <3>2, CallGoes
    <3> QED BY <1>1, <1>2, <2>1, <3>1, <3>3 DEF TypeOK
  <2>3. CASE slot # None
    <3> DEFINE rec == [call[c] EXCEPT !.ctx = slot]
    <3>1. Attempt(c, rec, 1)
      BY <1>4, <2>3 DEF CallNext
    <3>2. rec \in CallStates
      BY <1>1, <2>1 DEF CallStates, TypeOK
    <3>3. 1 \in Nat /\ 1 = call[c].try + 1 /\ call[c].pc # "waiting"
      BY <2>1
    <3> HIDE DEF rec
    <3>4. Calling /\ peers' \in [Peers -> {"fresh", "old", None}] /\ counter' \in Int
      BY <1>1, <2>1, <3>1, <3>2, <3>3, AttemptMade DEF Calling
    <3> QED BY <1>1, <1>2, <2>1, <3>4 DEF TypeOK
  <2> QED BY <2>2, <2>3
<1>5. ASSUME NEW c \in Calls, Delay(c) PROVE CallInv'
  <2>1. /\ call' = [call EXCEPT ![c] = [call[c] EXCEPT !.pc = "delay", !.outcome = call[c].outcome]]
        /\ call[c].pc = "failed" /\ call[c].outcome \in {"result", "fallback", "error", None}
        /\ UNCHANGED <<slot, running, peers, counter, givenUp>>
    BY <1>1, <1>5 DEF Delay, TypeOK, CallStates
  <2>2. Calling
    BY <1>1, <2>1, CallGoes
  <2> QED BY <1>1, <1>2, <2>1, <2>2 DEF TypeOK
<1>6. ASSUME NEW c \in Calls, Retry(c) PROVE CallInv'
  <2>1. /\ call[c] \in CallStates /\ call[c].try + 1 \in Nat /\ call[c].pc # "waiting"
        /\ Attempt(c, call[c], call[c].try + 1) /\ UNCHANGED <<slot, givenUp>>
    BY <1>1, <1>6 DEF Retry, MayRetry, TypeOK, CallStates
  <2>2. Calling /\ peers' \in [Peers -> {"fresh", "old", None}] /\ counter' \in Int
    BY <1>1, <2>1, AttemptMade DEF Calling
  <2> QED BY <1>1, <1>2, <2>1, <2>2 DEF TypeOK
<1>7. ASSUME NEW c \in Calls, Return(c) PROVE CallInv'
  <2>1. /\ call[c].pc # "waiting" /\ UNCHANGED <<running, peers, counter, givenUp>>
        /\ slot' = call[c].previous
        /\ \E outcome \in {"result", "fallback", "error"} :
             call' = [call EXCEPT ![c] = [call[c] EXCEPT !.pc = "ended", !.outcome = outcome]]
    BY <1>1, <1>7 DEF Return, TypeOK
  <2>2. Calling
    BY <1>1, <2>1, CallGoes
  <2>3. slot' \in Calls \cup {None}
    BY <1>1, <2>1 DEF TypeOK, CallStates
  <2> QED BY <1>1, <1>2, <2>1, <2>2, <2>3 DEF TypeOK
<1>8. ASSUME NEW c \in Calls, Timeout(c) PROVE CallInv'
  <2>1. /\ call' = [call EXCEPT ![c] = [call[c] EXCEPT !.pc = "failed", !.outcome = call[c].outcome]]
        /\ call[c].outcome \in {"result", "fallback", "error", None} /\ call[c].try \in Nat
        /\ givenUp' = givenUp \cup {<<c, call[c].try>>}
        /\ UNCHANGED <<slot, running, peers, counter>>
    BY <1>1, <1>8 DEF Timeout, TypeOK, CallStates
  <2>2. Calling
    BY <1>1, <2>1, CallGoes
  <2> QED BY <1>1, <1>2, <2>1, <2>2 DEF TypeOK
<1>9. ASSUME NEW e \in running, NEW b \in BOOLEAN, Receive(e, b) PROVE CallInv'
  <2>1. UNCHANGED <<slot, peers, counter, givenUp>>
    BY <1>9 DEF Receive
  <2>2. CASE b
    <3>1. UNCHANGED call /\ running' = (running \ {e}) \cup {[e EXCEPT !.phase = "runs"]}
      BY <1>9, <2>2 DEF Receive
    <3>2. Calling
      BY <1>1, <2>1, <3>1, RequestArrives
    <3> QED BY <1>1, <1>2, <2>1, <3>2 DEF TypeOK
  <2>3. CASE ~b
    <3>1. Settle(e, "failed") /\ running' = running \ {e}
      BY <1>9, <2>3 DEF Receive
    <3>2. Calling
      BY <1>1, <2>1, <3>1, Settles
    <3> QED BY <1>1, <1>2, <2>1, <3>2 DEF TypeOK
  <2> QED BY <2>2, <2>3
<1>10. ASSUME NEW e \in running, NEW b \in BOOLEAN, Finish(e, b) PROVE CallInv'
  <2>1. /\ UNCHANGED <<slot, peers, counter, givenUp>> /\ running' = running \ {e}
        /\ \E pc \in {"failed", "answered"} : Settle(e, pc)
    BY <1>10 DEF Finish
  <2>2. Calling
    BY <1>1, <2>1, Settles
  <2> QED BY <1>1, <1>2, <2>1, <2>2 DEF TypeOK
<1>11. ASSUME NEW e \in running, Break(e) PROVE CallInv'
  <2>1. /\ UNCHANGED <<slot, peers, counter>> /\ running' \subseteq running
        /\ givenUp' = givenUp \cup {Attempted(e)} /\ Settle(e, "failed")
    BY <1>11 DEF Break
  <2>2. Calling
    BY <1>1, <2>1, Settles
  <2>3. Attempted(e) \in Calls \X Nat
    BY <1>1 DEF Attempted, TypeOK, Executions
  <2> QED BY <1>1, <1>2, <2>1, <2>2, <2>3 DEF TypeOK
<1>12. ASSUME NEW p \in Peers, PeerChanges(p) PROVE CallInv'
  BY <1>1, <1>12 DEF PeerChanges, CallInv, TypeOK, Counted, OneAtATime, Awaited, Attempted
<1> QED BY <1>3, <1>4, <1>5, <1>6, <1>7, <1>8, <1>9, <1>10, <1>11, <1>12 DEF Next

LEMMA CallAlways == Spec => []CallInv
<1>1. CallInv /\ [Next]_vars => CallInv'
  <2> SUFFICES ASSUME CallInv, [Next]_vars PROVE CallInv'
    OBVIOUS
  <2>1. CASE UNCHANGED vars
    BY <2>1 DEF vars, CallInv, TypeOK, Counted, OneAtATime, Awaited, Attempted
  <2> QED BY <2>1, CallNextStep
<1> QED BY <1>1, CallInit, PTL DEF Spec

(***************************************************************************)
(* No two executions of a call that it did not give up.                    *)
(***************************************************************************)
OneExecution ==
  \A e, f \in running :
    e.call = f.call /\ Attempted(e) \notin givenUp /\ Attempted(f) \notin givenUp => e = f

(***************************************************************************)
(* Whatever the retries, the timeouts and the connections that break: an   *)
(* execution is of the attempt that its call waits for, or of one that it  *)
(* gave up; and of those that it did not give up there is one at most.     *)
(***************************************************************************)
THEOREM CallsRunOnce == Spec => [](OneAtATime /\ OneExecution)
<1>1. CallInv => OneExecution
  <2> SUFFICES ASSUME CallInv, NEW e \in running, NEW f \in running, e.call = f.call,
                      Attempted(e) \notin givenUp, Attempted(f) \notin givenUp
               PROVE  e = f
    BY DEF OneExecution
  <2>1. e.try = f.try
    BY DEF CallInv, OneAtATime, Awaited
  <2> QED BY <2>1 DEF CallInv, Counted, Attempted
<1>2. CallInv => OneAtATime
  BY DEF CallInv
<1> QED BY <1>1, <1>2, CallAlways, PTL
-----------------------------------------------------------------------------
LEMMA ContextRests ==
  ASSUME ContextInv, UNCHANGED <<slot, call, later, crossed, hidden>>, \A e \in running' : Owns(e.call, e.ctx)
  PROVE  ContextInv'
<1>1. Ordered'
  BY DEF ContextInv, Ordered, InFlight
<1>2. Stacked'
  BY DEF ContextInv, Stacked, Follows, InFlight
<1>3. Taken'
  BY DEF ContextInv, Taken, Owns, Excused, InFlight
<1>4. OwnContext'
  BY DEF ContextInv, OwnContext, Owns, Excused
<1> QED BY <1>1, <1>2, <1>3, <1>4 DEF ContextInv

(* A step of a call in flight that neither begins nor ends one.            *)
LEMMA StaysInFlight ==
  ASSUME TypeOK, ContextInv, NEW c \in Calls, InFlight(c), NEW rec,
         call' = [call EXCEPT ![c] = rec], rec.previous = call[c].previous, rec.pc \notin {"idle", "ended", "before"},
         rec.ctx = c \/ Excused(c)', rec.pc = "no context" => c \in (crossed \cup hidden)',
         UNCHANGED <<slot, later, crossed>>, hidden \subseteq hidden',
         \A e \in running' : Owns(e.call, e.ctx)'
  PROVE  ContextInv'
<1>1. call'[c] = rec /\ \A d \in Calls : d # c => call'[d] = call[d]
  BY DEF TypeOK
<1>2. \A d \in Calls : InFlight(d)' <=> InFlight(d)
  BY <1>1 DEF InFlight
<1>3. \A d \in Calls : call'[d].previous = call[d].previous
  BY <1>1
<1>4. {d \in Calls : InFlight(d)}' = {d \in Calls : InFlight(d)}
  BY <1>2
<1>5. Ordered'
  BY <1>2, <1>4 DEF ContextInv, Ordered
<1>6. Stacked'
  BY <1>2, <1>3 DEF ContextInv, Stacked, Follows
<1>7. Taken'
  BY <1>1, <1>2 DEF ContextInv, Taken, Owns, Excused
<1>8. OwnContext'
  BY <1>1 DEF ContextInv, OwnContext, Owns, Excused
<1> QED BY <1>5, <1>6, <1>7, <1>8 DEF ContextInv

(* An attempt runs in the context that it is given. *)
LEMMA AttemptIn ==
  ASSUME TypeOK, ContextInv, NEW c \in Calls, NEW rec \in CallStates, NEW try \in Nat, Attempt(c, rec, try),
         rec.ctx = c \/ Excused(c)', crossed \subseteq crossed', hidden \subseteq hidden'
  PROVE  \E new \in CallStates :
           /\ call' = [call EXCEPT ![c] = new] /\ new.pc \in {"failed", "waiting"}
           /\ new.previous = rec.previous /\ new.ctx = rec.ctx
           /\ \A e \in running' : Owns(e.call, e.ctx)'
<1>1. PICK target \in Peers \cup {Local, None} : Attempt(c, rec, try)!(target)
  BY DEF Attempt
<1> DEFINE rejected == target = None \/ (target # Local /\ ~rec.req.remote)
           new == [rec EXCEPT !.try = try, !.pc = IF rejected THEN "failed" ELSE "waiting"]
           exec == [call |-> c, try |-> try, at |-> target, ctx |-> rec.ctx,
                    phase |-> IF target = Local THEN "runs" ELSE "sent"]
<1>2. call' = [call EXCEPT ![c] = new] /\ running' = IF rejected THEN running ELSE running \cup {exec}
  BY <1>1
<1>3. new \in CallStates /\ new.pc \in {"failed", "waiting"} /\ new.previous = rec.previous /\ new.ctx = rec.ctx
  BY DEF CallStates, Stages
<1>4. exec.call = c /\ exec.ctx = rec.ctx
  OBVIOUS
<1> HIDE DEF new, exec
<1>5. \A e \in running : Owns(e.call, e.ctx)'
  BY DEF ContextInv, OwnContext, Owns, Excused
<1>6. \A e \in running' : Owns(e.call, e.ctx)'
  BY <1>2, <1>4, <1>5 DEF Owns
<1> QED BY <1>2, <1>3, <1>6

(* A call begins: it is the last one, and has put the last one aside.      *)
LEMMA CallBegins ==
  ASSUME TypeOK, ContextInv, NEW c \in Calls, ~InFlight(c), NEW rec,
         call' = [call EXCEPT ![c] = rec], rec.previous = slot, rec.pc \in {"before", "failed", "waiting"},
         rec.pc # "before" => rec.ctx = c,
         slot' = c, later' = [b \in Calls |-> IF InFlight(b) THEN later[b] \cup {c} ELSE later[b]],
         UNCHANGED <<crossed, hidden>>, \A e \in running' : Owns(e.call, e.ctx)'
  PROVE  ContextInv'
<1>1. call'[c] = rec /\ \A d \in Calls : d # c => call'[d] = call[d]
  BY DEF TypeOK
<1>2. InFlight(c)' /\ \A d \in Calls : d # c => (InFlight(d)' <=> InFlight(d))
  BY <1>1 DEF InFlight
<1>3. /\ later \in [Calls -> SUBSET {d \in Calls : InFlight(d)}] /\ later[c] = {}
      /\ \A d \in Calls : c \notin later[d]
      /\ \A d \in Calls : ~InFlight(d) => later[d] = {}
      /\ \A d, e \in Calls : InFlight(d) /\ InFlight(e) /\ d # e => d \in later[e] \/ e \in later[d]
  BY DEF ContextInv, Ordered
<1>4. /\ later'[c] = {}
      /\ \A d \in Calls : d # c /\ InFlight(d) => later'[d] = later[d] \cup {c}
      /\ \A d \in Calls : ~InFlight(d) => later'[d] = {}
  BY <1>3
<1>5. Ordered'
  <2>1. \A d \in Calls : \A e \in later'[d] : e \in Calls /\ InFlight(e)'
    BY <1>2, <1>3
  <2>2. later' \in [Calls -> SUBSET {d \in Calls : InFlight(d)'}]
    BY <2>1
  <2>3. \A d \in Calls : ~InFlight(d)' => later'[d] = {}
    BY <1>2, <1>4
  <2>4. \A d, e \in Calls : InFlight(d)' /\ InFlight(e)' /\ d # e => d \in later'[e] \/ e \in later'[d]
    BY <1>2, <1>3, <1>4
  <2> QED BY <2>2, <2>3, <2>4 DEF Ordered, InFlight
<1>6. Stacked'
  <2> SUFFICES ASSUME NEW d \in Calls, InFlight(d)', d \notin crossed
               PROVE  /\ later'[d] = {} => slot' = d
                      /\ \A e \in Calls : Follows(d, e)' => call'[e].previous = d
    BY DEF Stacked
  <2>1. CASE d = c
    BY <1>4, <2>1 DEF Follows
  <2>2. CASE d # c
    <3>1. InFlight(d) /\ later'[d] = later[d] \cup {c}
      BY <1>2, <1>4, <2>2
    <3>2. /\ later[d] = {} => slot = d
          /\ \A e \in Calls : Follows(d, e) => call[e].previous = d
      BY <3>1 DEF ContextInv, Stacked
    <3>3. ASSUME NEW e \in Calls, Follows(d, e)' PROVE call'[e].previous = d
      <4>1. e \in later'[d] /\ \A f \in later'[d] \ {e} : f \in later'[e]
        BY <3>3 DEF Follows
      <4>2. CASE e = c
        <5>1. \A f \in later[d] : f # c /\ f \in later'[d] \ {e}
          BY <1>3, <3>1, <4>2
        <5>2. later[d] = {}
          BY <1>4, <4>1, <4>2, <5>1
        <5> QED BY <1>1, <3>2, <4>2, <5>2
      <4>3. CASE e # c
        <5>1. e \in later[d] /\ InFlight(e) /\ later'[e] = later[e] \cup {c}
          BY <1>3, <1>4, <3>1, <4>1, <4>3
        <5>2. \A f \in later[d] \ {e} : f \in later[e]
          BY <1>3, <3>1, <4>1, <5>1
        <5>3. Follows(d, e)
          BY <5>1, <5>2 DEF Follows
        <5> QED BY <1>1, <3>2, <4>3, <5>3
      <4> QED BY <4>2, <4>3
    <3> QED BY <3>1, <3>3
  <2> QED BY <2>1, <2>2
<1>7. Taken'
  BY <1>1, <1>2 DEF ContextInv, Taken, Owns, Excused
<1>8. OwnContext'
  BY <1>1 DEF ContextInv, OwnContext, Owns, Excused
<1> QED BY <1>5, <1>6, <1>7, <1>8 DEF ContextInv

(* A call ends: the one before it has the slot again, or all have crossed. *)
LEMMA CallEnds ==
  ASSUME TypeOK, ContextInv, NEW c \in Calls, Return(c)
  PROVE  ContextInv'
<1>1. PICK rec : call' = [call EXCEPT ![c] = rec] /\ rec.pc = "ended"
  <2>1. PICK outcome : call' = [call EXCEPT ![c].pc = "ended", ![c].outcome = outcome]
    BY DEF Return
  <2>2. call[c] \in CallStates
    BY DEF TypeOK
  <2>3. [call[c] EXCEPT !.pc = "ended", !.outcome = outcome].pc = "ended"
    BY <2>2 DEF CallStates
  <2> QED BY <2>1, <2>3 DEF TypeOK
<1>2. /\ InFlight(c) /\ slot' = call[c].previous /\ UNCHANGED <<running, hidden>>
      /\ later' = [b \in Calls |-> IF b = c THEN {} ELSE later[b] \ {c}]
      /\ crossed' = IF later[c] = {} THEN crossed ELSE crossed \cup {b \in Calls : InFlight(b)}
  BY DEF Return, InFlight
<1>3. call'[c] = rec /\ \A d \in Calls : d # c => call'[d] = call[d]
  BY <1>1 DEF TypeOK
<1>4. ~InFlight(c)' /\ \A d \in Calls : d # c => (InFlight(d)' <=> InFlight(d))
  BY <1>1, <1>3 DEF InFlight
<1>5. /\ later \in [Calls -> SUBSET {d \in Calls : InFlight(d)}]
      /\ \A d \in Calls : ~InFlight(d) => later[d] = {}
      /\ \A d, e \in Calls : InFlight(d) /\ InFlight(e) /\ d # e => d \in later[e] \/ e \in later[d]
  BY DEF ContextInv, Ordered
<1>6. later'[c] = {} /\ \A d \in Calls : d # c => later'[d] = later[d] \ {c}
  BY <1>2
<1>7. Ordered'
  <2>1. \A d \in Calls : \A e \in later'[d] : e \in Calls /\ InFlight(e)'
    BY <1>2, <1>4, <1>5
  <2>2. later' \in [Calls -> SUBSET {d \in Calls : InFlight(d)'}]
    BY <1>2, <2>1
  <2>3. \A d \in Calls : ~InFlight(d)' => later'[d] = {}
    BY <1>4, <1>5, <1>6
  <2>4. \A d, e \in Calls : InFlight(d)' /\ InFlight(e)' /\ d # e => d \in later'[e] \/ e \in later'[d]
    BY <1>4, <1>5, <1>6
  <2> QED BY <2>2, <2>3, <2>4 DEF Ordered, InFlight
<1>8. Stacked'
  <2> SUFFICES ASSUME NEW d \in Calls, InFlight(d)', d \notin crossed'
               PROVE  /\ later'[d] = {} => slot' = d
                      /\ \A e \in Calls : Follows(d, e)' => call'[e].previous = d
    BY DEF Stacked
  <2>1. d # c /\ InFlight(d)
    BY <1>4
  <2>2. later[c] = {} /\ d \notin crossed
    BY <1>2, <2>1
  <2>3. \A e \in Calls : e # c /\ InFlight(e) => c \in later[e]
    BY <1>2, <1>5, <2>2
  <2>4. \A e \in Calls : Follows(d, e) => call[e].previous = d
    BY <2>1, <2>2 DEF ContextInv, Stacked
  <2>5. ASSUME later'[d] = {} PROVE slot' = d
    <3>1. Follows(d, c)
      BY <1>6, <2>1, <2>3, <2>5 DEF Follows
    <3> QED BY <1>2, <2>4, <3>1
  <2>6. ASSUME NEW e \in Calls, Follows(d, e)' PROVE call'[e].previous = d
    <3>1. e \in later'[d] /\ \A f \in later'[d] \ {e} : f \in later'[e]
      BY <2>6 DEF Follows
    <3>2. e \in later[d] /\ e # c /\ InFlight(e)
      BY <1>5, <1>6, <2>1, <3>1
    <3>3. \A f \in later[d] \ {e} : f \in later[e]
      BY <1>6, <2>1, <2>3, <3>1, <3>2
    <3> QED BY <1>3, <2>4, <3>2, <3>3 DEF Follows
  <2> QED BY <2>5, <2>6
<1>9. Taken'
  BY <1>2, <1>3, <1>4 DEF ContextInv, Taken, Owns, Excused
<1>10. OwnContext'
  BY <1>1, <1>2, <1>3 DEF ContextInv, OwnContext
<1> QED BY <1>7, <1>8, <1>9, <1>10 DEF ContextInv

LEMMA ContextStep ==
  ASSUME None \notin Calls, TypeOK, ContextInv, Next
  PROVE  ContextInv'
<1>1. /\ call \in [Calls -> CallStates] /\ running \subseteq Executions
      /\ \A e \in running : Owns(e.call, e.ctx)
  BY DEF TypeOK, ContextInv, OwnContext, Owns, Excused
(* A call goes on without an attempt, nothing new runs. *)
<1>2. ASSUME NEW c \in Calls, NEW pc \in {"failed", "answered", "delay"}, call[c].pc \in {"waiting", "failed"},
             call' = [call EXCEPT ![c].pc = pc], UNCHANGED <<slot, later, crossed, hidden>>,
             \A e \in running' : Owns(e.call, e.ctx)
      PROVE  ContextInv'
  <2> DEFINE rec == [call[c] EXCEPT !.pc = pc]
  <2>1. call' = [call EXCEPT ![c] = rec] /\ InFlight(c)
    BY <1>1, <1>2 DEF InFlight
  <2>2. rec.pc = pc /\ rec.previous = call[c].previous /\ rec.ctx = call[c].ctx
    BY <1>1 DEF CallStates
  <2> HIDE DEF rec
  <2>3. rec.ctx = c \/ Excused(c)'
    BY <1>2, <2>1, <2>2 DEF ContextInv, Taken, Owns, Excused
  <2>4. \A e \in running' : Owns(e.call, e.ctx)'
    BY <1>2 DEF Owns, Excused
  <2> QED BY <1>2, <2>1, <2>2, <2>3, <2>4, StaysInFlight
<1>3. ASSUME NEW e \in running, NEW pc \in {"failed", "answered"}, Settle(e, pc), UNCHANGED <<slot, later, crossed, hidden>>,
             \A f \in running' : Owns(f.call, f.ctx)
      PROVE  ContextInv'
  <2>1. e.call \in Calls
    BY <1>1 DEF Executions
  <2>2. CASE Awaited(e)
    BY <1>2, <1>3, <2>1, <2>2 DEF Settle, Awaited
  <2>3. CASE ~Awaited(e)
    BY <1>3, <2>3, ContextRests DEF Settle
  <2> QED BY <2>2, <2>3
<1>4. ASSUME NEW c \in Calls, NEW req \in Requests, NEW waits \in Waits, Call(c, req, waits) PROVE ContextInv'
  <2> DEFINE rec == [Idle EXCEPT !.previous = slot, !.req = req, !.ctx = Take(c)]
  <2>1. /\ rec \in CallStates /\ rec.previous = slot /\ rec.ctx = c
        /\ [rec EXCEPT !.pc = "before", !.ctx = None].pc = "before"
        /\ [rec EXCEPT !.pc = "before", !.ctx = None].previous = slot
    BY DEF Idle, Take, CallStates, Stages, TypeOK
  <2>2. /\ ~InFlight(c) /\ slot' = c /\ UNCHANGED <<crossed, hidden>>
        /\ later' = [b \in Calls |-> IF InFlight(b) THEN later[b] \cup {c} ELSE later[b]]
    BY <1>4 DEF Call, Take, InFlight
  <2>3. CASE waits
    <3> DEFINE before == [rec EXCEPT !.pc = "before", !.ctx = None]
    <3>1. call' = [call EXCEPT ![c] = before] /\ UNCHANGED running
      BY <1>4, <2>3 DEF Call
    <3>2. before.pc = "before" /\ before.previous = slot
      BY <2>1
    <3>3. \A e \in running' : Owns(e.call, e.ctx)'
      BY <1>1, <2>2, <3>1 DEF Owns, Excused
    <3> HIDE DEF before
    <3> QED BY <2>2, <3>1, <3>2, <3>3, CallBegins
  <2>4. CASE ~waits
    <3>1. Attempt(c, rec, 1) /\ 1 \in Nat
      BY <1>4, <2>4 DEF Call
    <3> HIDE DEF rec
    <3>2. rec.ctx = c \/ Excused(c)'
      BY <2>1 DEF Owns, Excused
    <3>3. PICK new \in CallStates :
            /\ call' = [call EXCEPT ![c] = new] /\ new.pc \in {"failed", "waiting"}
            /\ new.previous = rec.previous /\ new.ctx = rec.ctx
            /\ \A e \in running' : Owns(e.call, e.ctx)'
      BY <2>1, <2>2, <3>1, <3>2, AttemptIn
    <3> QED BY <2>1, <2>2, <3>3, CallBegins
  <2> QED BY <2>3, <2>4
<1>5. ASSUME NEW c \in Calls, CallNext(c) PROVE ContextInv'
  <2>1. /\ call[c].pc = "before" /\ InFlight(c) /\ UNCHANGED <<slot, later, crossed>>
        /\ hidden' = IF later[c] = {} THEN hidden ELSE hidden \cup {c}
    BY <1>5 DEF CallNext, InFlight
  <2>2. slot = c \/ Excused(c)'
    BY <2>1 DEF ContextInv, Stacked, Excused
  <2>3. CASE slot = None
    <3> DEFINE rec == [call[c] EXCEPT !.pc = "no context"]
    <3>1. call' = [call EXCEPT ![c] = rec] /\ UNCHANGED running
      BY <1>5, <2>3 DEF CallNext
    <3>2. rec.pc = "no context" /\ rec.previous = call[c].previous
      BY <1>1 DEF CallStates
    <3> HIDE DEF rec
    <3>3. c \in (crossed \cup hidden)'
      BY <2>1, <2>2, <2>3 DEF Owns, Excused
    <3>4. \A e \in running' : Owns(e.call, e.ctx)'
      BY <1>1, <2>1, <3>1 DEF Owns, Excused
    <3>5. rec.ctx = c \/ Excused(c)'
      BY <3>3 DEF Owns, Excused
    <3> QED BY <2>1, <3>1, <3>2, <3>3, <3>4, <3>5, StaysInFlight
  <2>4. CASE slot # None
    <3> DEFINE rec == [call[c] EXCEPT !.ctx = slot]
    <3>1. Attempt(c, rec, 1) /\ 1 \in Nat
      BY <1>5, <2>4 DEF CallNext
    <3>2. rec \in CallStates /\ rec.ctx = slot /\ rec.previous = call[c].previous
      BY <1>1 DEF CallStates, TypeOK
    <3> HIDE DEF rec
    <3>3. rec.ctx = c \/ Excused(c)'
      BY <2>1, <2>2, <3>2 DEF Owns, Excused
    <3>4. PICK new \in CallStates :
            /\ call' = [call EXCEPT ![c] = new] /\ new.pc \in {"failed", "waiting"}
            /\ new.previous = rec.previous /\ new.ctx = rec.ctx
            /\ \A e \in running' : Owns(e.call, e.ctx)'
      BY <2>1, <3>1, <3>2, <3>3, AttemptIn
    <3> QED BY <2>1, <3>2, <3>3, <3>4, StaysInFlight
  <2> QED BY <2>3, <2>4
<1>6. ASSUME NEW c \in Calls, Delay(c) \/ Timeout(c) PROVE ContextInv'
  BY <1>1, <1>2, <1>6 DEF Delay, Timeout
<1>7. ASSUME NEW c \in Calls, Retry(c) PROVE ContextInv'
  <2>1. /\ call[c] \in CallStates /\ call[c].try + 1 \in Nat /\ call[c].pc = "delay" /\ InFlight(c)
        /\ Attempt(c, call[c], call[c].try + 1) /\ UNCHANGED <<slot, later, crossed, hidden>>
    BY <1>1, <1>7 DEF Retry, MayRetry, CallStates, InFlight
  <2>2. call[c].ctx = c \/ Excused(c)'
    BY <2>1 DEF ContextInv, Taken, Owns, Excused
  <2>3. PICK rec : rec = call[c]
    OBVIOUS
  <2>4. rec.ctx = c \/ Excused(c)'
    BY <2>2, <2>3
  <2>5. PICK new \in CallStates :
          /\ call' = [call EXCEPT ![c] = new] /\ new.pc \in {"failed", "waiting"}
          /\ new.previous = rec.previous /\ new.ctx = rec.ctx
          /\ \A e \in running' : Owns(e.call, e.ctx)'
    BY <2>1, <2>3, <2>4, AttemptIn
  <2> QED BY <2>1, <2>3, <2>4, <2>5, StaysInFlight
<1>8. ASSUME NEW c \in Calls, Return(c) PROVE ContextInv'
  BY <1>8, CallEnds
<1>9. ASSUME NEW e \in running, NEW b \in BOOLEAN, Receive(e, b) PROVE ContextInv'
  <2>1. \A f \in running' : Owns(f.call, f.ctx)
    <3>1. e \in Executions /\ Owns(e.call, e.ctx)
      BY <1>1
    <3>2. [e EXCEPT !.phase = "runs"].ctx = e.ctx /\ [e EXCEPT !.phase = "runs"].call = e.call
      BY <3>1 DEF Executions
    <3> QED BY <1>1, <1>9, <3>1, <3>2 DEF Receive
  <2>2. (UNCHANGED call \/ Settle(e, "failed")) /\ UNCHANGED <<slot, later, crossed, hidden>>
    BY <1>9 DEF Receive
  <2>3. ASSUME UNCHANGED call PROVE ContextInv'
    BY <2>1, <2>2, <2>3, ContextRests
  <2> QED BY <1>3, <2>1, <2>2, <2>3
<1>10. ASSUME NEW e \in running, NEW b \in BOOLEAN, Finish(e, b) \/ Break(e) PROVE ContextInv'
  <2>1. /\ running' \subseteq running /\ (\E pc \in {"failed", "answered"} : Settle(e, pc))
        /\ UNCHANGED <<slot, later, crossed, hidden>>
    BY <1>10 DEF Finish, Break
  <2> QED BY <1>1, <1>3, <2>1
<1>11. ASSUME NEW p \in Peers, PeerChanges(p) PROVE ContextInv'
  BY <1>1, <1>11, ContextRests DEF PeerChanges
<1> QED BY <1>4, <1>5, <1>6, <1>7, <1>8, <1>9, <1>10, <1>11 DEF Next

(***************************************************************************)
(* Whatever middleware waits, and in every retry, an action runs in the    *)
(* context of the call that asked for it, and no call is without one, if   *)
(* the calls that took the slot meanwhile have ended, each before the one  *)
(* that it began in, when the middleware calls the next function.          *)
(***************************************************************************)
THEOREM ContextsAreOwn == ASSUME None \notin Calls PROVE Spec => []OwnContext
<1>1. Init => ContextInv
  <2> SUFFICES ASSUME Init PROVE ContextInv
    OBVIOUS
  <2>1. \A c \in Calls : ~InFlight(c) /\ later[c] = {} /\ call[c].pc = "idle"
    BY DEF Init, InFlight, Idle
  <2>2. Ordered
    BY <2>1 DEF Init, Ordered
  <2> QED BY <2>1, <2>2 DEF Init, ContextInv, Stacked, Taken, OwnContext
<1>2. TypeOK /\ ContextInv /\ [Next]_vars => ContextInv'
  <2> SUFFICES ASSUME TypeOK, ContextInv, [Next]_vars PROVE ContextInv'
    OBVIOUS
  <2>1. CASE UNCHANGED vars
    BY <2>1, ContextRests DEF vars, ContextInv, OwnContext, Owns, Excused
  <2> QED BY <2>1, ContextStep
<1>3. ContextInv => OwnContext
  BY DEF ContextInv
<1>4. CallInv => TypeOK
  BY DEF CallInv
<1> QED BY <1>1, <1>2, <1>3, <1>4, CallAlways, PTL DEF Spec
-----------------------------------------------------------------------------
(* Every non-empty set of naturals has a least element: were there none,   *)
(* adding 1 below the set would map an interval one to one into itself     *)
(* without reaching 0.                                                     *)
LEMMA Least == ASSUME NEW S \in SUBSET Nat, S # {} PROVE \E x \in S : \A y \in S : x <= y
<1> SUFFICES ASSUME \A x \in S : \E y \in S : y < x PROVE FALSE
  OBVIOUS
<1>1. PICK m \in S : TRUE
  OBVIOUS
<1> DEFINE I == 0 .. m
           A == {x \in I : \A y \in S : x < y}
           f == [x \in I |-> IF x \in A THEN x + 1 ELSE x]
<1>2. m \in Nat /\ 0 \in I /\ m \notin A
  OBVIOUS
<1>3. 0 \in A
  <2> SUFFICES ASSUME NEW y \in S, y = 0 PROVE FALSE
    OBVIOUS
  <2> QED OBVIOUS
<1>4. ASSUME NEW x \in A PROVE x + 1 \in A
  <2>1. x + 1 \in I
    BY <1>1, <1>2
  <2>2. x + 1 \notin S
    <3> SUFFICES ASSUME x + 1 \in S PROVE FALSE
      OBVIOUS
    <3>1. PICK y \in S : y < x + 1
      OBVIOUS
    <3> QED BY <3>1
  <2> QED BY <2>1, <2>2
<1>5. f \in [I -> I]
  BY <1>4
<1>6. f \in Injection(I, I)
  <2> SUFFICES ASSUME NEW x \in I, NEW y \in I, f[x] = f[y] PROVE x = y
    BY <1>5 DEF Injection, IsInjective
  <2> QED BY <1>4
<1>7. IsFiniteSet(I)
  BY <1>2, FS_Interval
<1>8. f \in Surjection(I, I)
  <2> HIDE DEF f, I
  <2> QED BY <1>6, <1>7, FS_Injection
<1>9. PICK x \in I : f[x] = 0
  BY <1>8, <1>2 DEF Surjection
<1> QED BY <1>3, <1>4, <1>9
LEMMA MinIs == ASSUME NEW S \in SUBSET Nat, S # {} PROVE Registry!Min(S) \in S
  BY Least DEF Registry!Min

-----------------------------------------------------------------------------
Ages == 0 .. Registry!Old
Kinds == {"upsert", "touch", "announce", "heartbeat", "delete", "leave"}
Places == {"off", "starting", "upserted", "announced", "listed", "up", "touched", "ended"}
Known == Ages \cup {Unknown}
MailOf == [kind : {"announce", "heartbeat", "leave"}, of : Nodes, age : Ages, sent : 0 .. MaxDelay]

(* The type invariant. *)
RegistryTypeOK ==
  /\ mesh \in Registry!Mesh
  /\ at \in [Nodes -> Places] /\ due \in [Nodes -> 0 .. HeartbeatMs]
  /\ row \in [Nodes -> Known]
  /\ cache \in [Nodes -> [Nodes -> Known]] /\ listed \in [Nodes -> [Nodes -> Known]]
  /\ tx \subseteq Nodes /\ left \subseteq Nodes
  /\ joined \in [Nodes -> SUBSET [kind : Kinds, age : Ages]]
  /\ mail \in [Nodes -> SUBSET MailOf]
  /\ gone \in [Nodes -> Ages]

(***************************************************************************)
(* Whoever runs is not gone, and nothing joins but an open transaction.    *)
(* What is known of a node is as old as its end, but for the delay of its  *)
(* last event.                                                             *)
(***************************************************************************)
Present ==
  /\ \A n \in Nodes : Registry!Running(n) \/ at[n] = "off" => gone[n] = 0
  /\ \A n \in Nodes : (n \in tx => Registry!Running(n)) /\ (n \notin tx => joined[n] = {})
Rows == \A n \in Nodes : row[n] # Unknown => gone[n] <= row[n]
Lists == \A m, n \in Nodes : listed[m][n] # Unknown => gone[n] <= listed[m][n]
Mails == \A m \in Nodes : \A e \in mail[m] : gone[e.of] <= e.sent
Caches == \A m, n \in Nodes : cache[m][n] # Unknown => gone[n] <= cache[m][n] + MaxDelay
RegistryInv == RegistryTypeOK /\ Present /\ Rows /\ Lists /\ Mails /\ Caches

LEMMA Numbers ==
  ASSUME Registry!MeshAssumption
  PROVE  /\ HeartbeatMs \in Nat /\ HeartbeatMs > 0 /\ OfflineAfter \in Nat /\ OfflineAfter > 0
         /\ GcAfter \in Nat /\ GcAfter > 0 /\ MaxDelay \in Nat /\ Unknown \notin Int
         /\ Registry!Old \in Nat /\ Registry!Old >= OfflineAfter + MaxDelay + 1 /\ 0 \in Ages
BY DEF Registry!MeshAssumption, Registry!Old, Ages

LEMMA OlderIs ==
  ASSUME Registry!MeshAssumption, NEW a \in Known
  PROVE  /\ Registry!Older(a) \in Known
         /\ a # Unknown => Registry!Older(a) \in Ages /\ Registry!Older(a) >= a /\ Registry!Older(a) <= a + 1
         /\ a = Unknown => Registry!Older(a) = Unknown
         /\ a \in Ages => Registry!Older(a) = Registry!Old \/ Registry!Older(a) = a + 1
BY Numbers DEF Known, Ages, Registry!Older

LEMMA RowAfterIs ==
  ASSUME Registry!MeshAssumption, RegistryTypeOK, NEW n \in Nodes
  PROVE  Registry!RowAfter(n) \in Known /\ (Registry!Beats(n) # {} => Registry!Min(Registry!Beats(n)) \in Registry!Beats(n))
<1>1. Registry!Beats(n) \in SUBSET Ages
  BY DEF Registry!Beats, RegistryTypeOK
<1>2. Ages \subseteq Nat
  BY Numbers DEF Ages
<1>3. Registry!Beats(n) # {} => Registry!Min(Registry!Beats(n)) \in Registry!Beats(n)
  BY <1>1, <1>2, MinIs
<1> QED BY <1>1, <1>3 DEF Registry!RowAfter, RegistryTypeOK, Known
(***************************************************************************)
(* With punctual timers and operations that commit, the row of a node that *)
(* is registered is never older than the time between heartbeats, now or   *)
(* when the transaction is over that inserts it or touches its heartbeat.  *)
(***************************************************************************)
Timely == mesh.punctual /\ ~mesh.mayFail
Waiting == \A n \in Nodes : ~Registry!Beating(n) => due[n] = HeartbeatMs
Leaving == \A n \in Nodes : Registry!Has(n, "delete") => n \in left
AtOnce == Timely => \A n \in Nodes : \A s \in joined[n] : s.age = 0
Kept(n) ==
  \/ n \in tx /\ Registry!Has(n, "upsert")
  \/ /\ row[n] # Unknown /\ row[n] <= HeartbeatMs
     /\ row[n] + due[n] <= HeartbeatMs \/ (n \in tx /\ Registry!Has(n, "touch"))
Registered(n) == n \in mesh.watched /\ Registry!Running(n) /\ at[n] # "starting" /\ n \notin left
Keeping == Timely => \A n \in Nodes : Registered(n) => Kept(n)
TimelyInv == Waiting /\ Leaving /\ AtOnce /\ Keeping
-----------------------------------------------------------------------------
LEMMA StartStep == ASSUME Registry!MeshAssumption, RegistryInv, NEW n \in Nodes, Registry!Start(n) PROVE RegistryInv'
<1> USE DEF RegistryInv
<1>1. RegistryTypeOK'
  BY DEF Registry!Start, RegistryTypeOK, Places
<1>2. Present'
  BY DEF Registry!Start, Present, Registry!Running
<1>3. Rows'
  BY DEF Registry!Start, Rows
<1>4. Lists'
  BY DEF Registry!Start, Lists
<1>5. Mails'
  BY DEF Registry!Start, Mails
<1>6. Caches'
  BY DEF Registry!Start, Caches
<1> QED BY <1>1, <1>2, <1>3, <1>4, <1>5, <1>6

LEMMA UpsertStep == ASSUME Registry!MeshAssumption, RegistryInv, NEW n \in Nodes, Registry!Upsert(n) PROVE RegistryInv'
<1> USE DEF RegistryInv
<1>1. RegistryTypeOK'
  <2>1. 0 \in Known /\ row' \in [Nodes -> Known]
    BY Numbers DEF Registry!Upsert, RegistryTypeOK, Registry!Query, Known
  <2>2. joined' \in [Nodes -> SUBSET [kind : Kinds, age : Ages]]
    BY Numbers DEF Registry!Upsert, RegistryTypeOK, Registry!Query, Registry!Join, Kinds
  <2> QED BY <2>1, <2>2 DEF Registry!Upsert, RegistryTypeOK, Places
<1>2. Present'
  BY DEF Registry!Upsert, RegistryTypeOK, Present, Registry!Running, Registry!Query, Registry!Join
<1>3. Rows'
  <2>1. gone[n] = 0 /\ UNCHANGED gone
    BY DEF Registry!Upsert, Present, Registry!Running
  <2>2. \A m \in Nodes : row'[m] = row[m] \/ (m = n /\ row'[m] = 0)
    BY DEF Registry!Upsert, RegistryTypeOK, Registry!Query
  <2> QED BY <2>1, <2>2 DEF Rows
<1>4. Lists'
  BY DEF Registry!Upsert, Lists
<1>5. Mails'
  BY DEF Registry!Upsert, Mails
<1>6. Caches'
  BY DEF Registry!Upsert, Caches
<1> QED BY <1>1, <1>2, <1>3, <1>4, <1>5, <1>6

LEMMA AnnounceStep == ASSUME Registry!MeshAssumption, RegistryInv, NEW n \in Nodes, Registry!Announce(n) PROVE RegistryInv'
<1> USE DEF RegistryInv
<1>1. RegistryTypeOK'
  <2>1. 0 \in Ages /\ joined' \in [Nodes -> SUBSET [kind : Kinds, age : Ages]]
    BY Numbers DEF Registry!Announce, RegistryTypeOK, Kinds, Registry!PublishEvent, Registry!Join
  <2> QED BY <2>1 DEF Registry!Announce, RegistryTypeOK, Places
<1>2. Present'
  BY DEF Registry!Announce, RegistryTypeOK, Present, Registry!Running, Registry!Join, Registry!PublishEvent
<1>3. Rows'
  BY DEF Registry!Announce, Rows
<1>4. Lists'
  BY DEF Registry!Announce, Lists
<1>5. Mails'
  BY DEF Registry!Announce, Mails
<1>6. Caches'
  BY DEF Registry!Announce, Caches
<1> QED BY <1>1, <1>2, <1>3, <1>4, <1>5, <1>6

LEMMA ListLiveNodesStep == ASSUME Registry!MeshAssumption, RegistryInv, NEW n \in Nodes, Registry!ListLiveNodes(n) PROVE RegistryInv'
<1> USE DEF RegistryInv
<1>1. RegistryTypeOK'
  BY DEF Registry!ListLiveNodes, RegistryTypeOK, Places, Known
<1>2. Present'
  BY DEF Registry!ListLiveNodes, Present, Registry!Running
<1>3. Rows'
  BY DEF Registry!ListLiveNodes, Rows
<1>4. Lists'
  BY DEF Registry!ListLiveNodes, Lists, Rows
<1>5. Mails'
  BY DEF Registry!ListLiveNodes, Mails
<1>6. Caches'
  BY DEF Registry!ListLiveNodes, Caches
<1> QED BY <1>1, <1>2, <1>3, <1>4, <1>5, <1>6

LEMMA SeedStep == ASSUME Registry!MeshAssumption, RegistryInv, NEW n \in Nodes, Registry!Seed(n) PROVE RegistryInv'
<1> USE DEF RegistryInv
<1>1. RegistryTypeOK'
  BY Numbers DEF Registry!Seed, RegistryTypeOK, Places, Known, Registry!Empty
<1>2. Present'
  BY DEF Registry!Seed, Present, Registry!Running
<1>3. Rows'
  BY DEF Registry!Seed, Rows
<1>4. Lists'
  BY DEF Registry!Seed, Lists, Registry!Empty
<1>5. Mails'
  BY DEF Registry!Seed, Mails
<1>6. Caches'
  BY Numbers DEF Registry!Seed, RegistryTypeOK, Caches, Lists, Known, Ages
<1> QED BY <1>1, <1>2, <1>3, <1>4, <1>5, <1>6

LEMMA TouchStep == ASSUME Registry!MeshAssumption, RegistryInv, NEW n \in Nodes, Registry!Touch(n) PROVE RegistryInv'
<1> USE DEF RegistryInv
<1>1. RegistryTypeOK'
  <2>1. row' \in [Nodes -> Known]
    <3>1. CASE n \in tx
      BY <3>1 DEF Registry!Touch, RegistryTypeOK, Registry!Query
    <3>2. CASE n \notin tx
      BY Numbers DEF Registry!Touch, RegistryTypeOK, Registry!Query, Known
    <3> QED BY <3>1, <3>2
  <2>2. joined' \in [Nodes -> SUBSET [kind : Kinds, age : Ages]]
    <3>1. CASE n \in tx
      BY <3>1, Numbers DEF Registry!Touch, RegistryTypeOK, Registry!Query, Registry!Join, Kinds
    <3>2. CASE n \notin tx
      BY <3>2 DEF Registry!Touch, RegistryTypeOK, Registry!Query
    <3> QED BY <3>1, <3>2
  <2>3. due' \in [Nodes -> 0 .. HeartbeatMs] /\ at' \in [Nodes -> Places]
    BY Numbers DEF Registry!Touch, RegistryTypeOK, Places
  <2> QED BY <2>1, <2>2, <2>3 DEF Registry!Touch, RegistryTypeOK
<1>2. Present'
  BY DEF Registry!Touch, RegistryTypeOK, Present, Registry!Running, Registry!Query, Registry!Join
<1>3. Rows'
  <2>1. gone[n] = 0 /\ UNCHANGED gone
    BY DEF Registry!Touch, Present, Registry!Running
  <2>2. \A m \in Nodes : row'[m] = row[m] \/ (m = n /\ row'[m] = 0)
    BY DEF Registry!Touch, RegistryTypeOK, Registry!Query
  <2> QED BY <2>1, <2>2 DEF Rows
<1>4. Lists'
  BY DEF Registry!Touch, Lists
<1>5. Mails'
  BY DEF Registry!Touch, Mails
<1>6. Caches'
  BY DEF Registry!Touch, Caches
<1> QED BY <1>1, <1>2, <1>3, <1>4, <1>5, <1>6

LEMMA EmitHeartbeatStep == ASSUME Registry!MeshAssumption, RegistryInv, NEW n \in Nodes, Registry!EmitHeartbeat(n) PROVE RegistryInv'
<1> USE DEF RegistryInv
<1>1. RegistryTypeOK'
  <2>1. 0 \in Ages /\ joined' \in [Nodes -> SUBSET [kind : Kinds, age : Ages]]
    BY Numbers DEF Registry!EmitHeartbeat, RegistryTypeOK, Kinds, Registry!PublishEvent, Registry!Join
  <2> QED BY <2>1 DEF Registry!EmitHeartbeat, RegistryTypeOK, Places
<1>2. Present'
  BY DEF Registry!EmitHeartbeat, RegistryTypeOK, Present, Registry!Running, Registry!Join, Registry!PublishEvent
<1>3. Rows'
  BY DEF Registry!EmitHeartbeat, Rows
<1>4. Lists'
  BY DEF Registry!EmitHeartbeat, Lists
<1>5. Mails'
  BY DEF Registry!EmitHeartbeat, Mails
<1>6. Caches'
  BY DEF Registry!EmitHeartbeat, Caches
<1> QED BY <1>1, <1>2, <1>3, <1>4, <1>5, <1>6

LEMMA OpBeginsStep == ASSUME Registry!MeshAssumption, RegistryInv, NEW n \in Nodes, Registry!OpBegins(n) PROVE RegistryInv'
<1> USE DEF RegistryInv
<1>1. RegistryTypeOK'
  BY DEF Registry!OpBegins, RegistryTypeOK
<1>2. Present'
  BY DEF Registry!OpBegins, Present, Registry!Running
<1>3. Rows'
  BY DEF Registry!OpBegins, Rows
<1>4. Lists'
  BY DEF Registry!OpBegins, Lists
<1>5. Mails'
  BY DEF Registry!OpBegins, Mails
<1>6. Caches'
  BY DEF Registry!OpBegins, Caches
<1> QED BY <1>1, <1>2, <1>3, <1>4, <1>5, <1>6

LEMMA DeregisterStep == ASSUME Registry!MeshAssumption, RegistryInv, NEW n \in Nodes, Registry!Deregister(n) PROVE RegistryInv'
<1> USE DEF RegistryInv
<1>1. RegistryTypeOK'
  BY Numbers DEF Registry!Deregister, RegistryTypeOK, Kinds
<1>2. Present'
  BY DEF Registry!Deregister, Present, Registry!Running
<1>3. Rows'
  BY DEF Registry!Deregister, Rows
<1>4. Lists'
  BY DEF Registry!Deregister, Lists
<1>5. Mails'
  BY DEF Registry!Deregister, Mails
<1>6. Caches'
  BY DEF Registry!Deregister, Caches
<1> QED BY <1>1, <1>2, <1>3, <1>4, <1>5, <1>6

LEMMA OpCommitsStep == ASSUME Registry!MeshAssumption, RegistryInv, NEW n \in Nodes, Registry!OpCommits(n) PROVE RegistryInv'
<1> USE DEF RegistryInv
<1>1. RegistryTypeOK'
  <2>1. Registry!RowAfter(n) \in Known
    BY RowAfterIs
  <2>2. Registry!Letters(n) \subseteq MailOf
    BY Numbers DEF Registry!Letters, MailOf, RegistryTypeOK
  <2> HIDE DEF Registry!Letters
  <2> QED BY <2>1, <2>2 DEF Registry!OpCommits, RegistryTypeOK
<1>2. Present'
  BY DEF Registry!OpCommits, RegistryTypeOK, Present, Registry!Running
<1>0. gone[n] = 0 /\ UNCHANGED gone
  BY DEF Registry!OpCommits, Present
<1>3. Rows'
  <2>1. Registry!RowAfter(n) \in Known
    BY RowAfterIs
  <2>2. \A m \in Nodes : row'[m] = row[m] \/ (m = n /\ row'[m] \in Known)
    BY <2>1 DEF Registry!OpCommits, RegistryTypeOK
  <2> QED BY <1>0, <2>2 DEF Rows, Known, Ages
<1>4. Lists'
  BY DEF Registry!OpCommits, Lists
<1>5. Mails'
  <2>1. \A e \in Registry!Letters(n) : gone[e.of] <= e.sent
    BY <1>0 DEF Registry!Letters
  <2>2. \A m \in Nodes : mail'[m] \subseteq mail[m] \cup Registry!Letters(n)
    BY DEF Registry!OpCommits, RegistryTypeOK
  <2> QED BY <1>0, <2>1, <2>2 DEF Mails
<1>6. Caches'
  BY DEF Registry!OpCommits, Caches
<1> QED BY <1>1, <1>2, <1>3, <1>4, <1>5, <1>6

LEMMA OpFailsStep == ASSUME Registry!MeshAssumption, RegistryInv, NEW n \in Nodes, Registry!OpFails(n) PROVE RegistryInv'
<1> USE DEF RegistryInv
<1>1. RegistryTypeOK'
  BY DEF Registry!OpFails, RegistryTypeOK
<1>2. Present'
  BY DEF Registry!OpFails, RegistryTypeOK, Present, Registry!Running
<1>3. Rows'
  BY DEF Registry!OpFails, Rows
<1>4. Lists'
  BY DEF Registry!OpFails, Lists
<1>5. Mails'
  BY DEF Registry!OpFails, Mails
<1>6. Caches'
  BY DEF Registry!OpFails, Caches
<1> QED BY <1>1, <1>2, <1>3, <1>4, <1>5, <1>6

LEMMA ReceiveStep == ASSUME Registry!MeshAssumption, RegistryInv, NEW n \in Nodes, Registry!Receive(n) PROVE RegistryInv'
<1> USE DEF RegistryInv
<1>1. RegistryTypeOK'
  BY Numbers DEF Registry!Receive, RegistryTypeOK, Known, MailOf
<1>2. Present'
  BY DEF Registry!Receive, Present, Registry!Running
<1>3. Rows'
  BY DEF Registry!Receive, Rows
<1>4. Lists'
  BY DEF Registry!Receive, Lists
<1>5. Mails'
  BY DEF Registry!Receive, Mails
<1>6. Caches'
  BY Numbers DEF Registry!Receive, RegistryTypeOK, Caches, Mails, Ages, MailOf
<1> QED BY <1>1, <1>2, <1>3, <1>4, <1>5, <1>6

LEMMA AllStep == ASSUME Registry!MeshAssumption, RegistryInv, NEW n \in Nodes, Registry!All(n) PROVE RegistryInv'
<1> USE DEF RegistryInv
<1>1. RegistryTypeOK'
  BY DEF Registry!All, RegistryTypeOK, Known
<1>2. Present'
  BY DEF Registry!All, Present, Registry!Running
<1>3. Rows'
  BY DEF Registry!All, Rows
<1>4. Lists'
  BY DEF Registry!All, Lists
<1>5. Mails'
  BY DEF Registry!All, Mails
<1>6. Caches'
  BY DEF Registry!All, Caches
<1> QED BY <1>1, <1>2, <1>3, <1>4, <1>5, <1>6

LEMMA GcStaleNodesStep == ASSUME Registry!MeshAssumption, RegistryInv, NEW n \in Nodes, Registry!GcStaleNodes(n) PROVE RegistryInv'
<1> USE DEF RegistryInv
<1>1. RegistryTypeOK'
  BY DEF Registry!GcStaleNodes, RegistryTypeOK, Known
<1>2. Present'
  BY DEF Registry!GcStaleNodes, Present, Registry!Running
<1>3. Rows'
  BY DEF Registry!GcStaleNodes, Rows
<1>4. Lists'
  BY DEF Registry!GcStaleNodes, Lists
<1>5. Mails'
  BY DEF Registry!GcStaleNodes, Mails
<1>6. Caches'
  BY DEF Registry!GcStaleNodes, Caches
<1> QED BY <1>1, <1>2, <1>3, <1>4, <1>5, <1>6

LEMMA EndStep == ASSUME Registry!MeshAssumption, RegistryInv, NEW n \in Nodes, Registry!End(n) PROVE RegistryInv'
<1> USE DEF RegistryInv
<1>1. RegistryTypeOK'
  BY Numbers DEF Registry!End, RegistryTypeOK, Places, Known, Registry!Empty
<1>2. Present'
  BY DEF Registry!End, RegistryTypeOK, Present, Registry!Running
<1>3. Rows'
  BY DEF Registry!End, Rows
<1>4. Lists'
  BY DEF Registry!End, Lists, Registry!Empty
<1>5. Mails'
  BY DEF Registry!End, Mails
<1>6. Caches'
  BY DEF Registry!End, Caches, Registry!Empty
<1> QED BY <1>1, <1>2, <1>3, <1>4, <1>5, <1>6

LEMMA Aged ==
  ASSUME Registry!MeshAssumption, NEW a \in Ages, NEW g, g = 0 \/ g = Registry!Older(a), NEW b \in Ages
  PROVE  /\ a <= b => g <= Registry!Older(b) /\ g <= b + 1
         /\ a <= b + MaxDelay => g <= Registry!Older(b) + MaxDelay
BY Numbers DEF Ages, Registry!Older

LEMMA TickStep == ASSUME Registry!MeshAssumption, RegistryInv, Registry!Tick PROVE RegistryInv'
<1> USE DEF RegistryInv
<1>0. \A a \in Known : Registry!Older(a) \in Known /\ (a \in Ages => Registry!Older(a) \in Ages) /\ (a = Unknown => Registry!Older(a) = Unknown)
  BY OlderIs
<1>1. RegistryTypeOK'
  <2>1. row' \in [Nodes -> Known]
    <3>1. row' = [n \in Nodes |-> Registry!Older(row[n])] /\ row \in [Nodes -> Known]
      BY DEF Registry!Tick, RegistryTypeOK
    <3> QED BY <1>0, <3>1
  <2>2. cache' \in [Nodes -> [Nodes -> Known]]
    <3>1. cache' = [m \in Nodes |-> [n \in Nodes |-> Registry!Older(cache[m][n])]] /\ cache \in [Nodes -> [Nodes -> Known]]
      BY DEF Registry!Tick, RegistryTypeOK
    <3> QED BY <1>0, <3>1
  <2>3. listed' \in [Nodes -> [Nodes -> Known]]
    <3>1. listed' = [m \in Nodes |-> [n \in Nodes |-> Registry!Older(listed[m][n])]] /\ listed \in [Nodes -> [Nodes -> Known]]
      BY DEF Registry!Tick, RegistryTypeOK
    <3> QED BY <1>0, <3>1
  <2>4. joined' \in [Nodes -> SUBSET [kind : Kinds, age : Ages]]
    <3>1. joined' = [n \in Nodes |-> {[s EXCEPT !.age = Registry!Older(@)] : s \in joined[n]}]
      BY DEF Registry!Tick
    <3>2. ASSUME NEW n \in Nodes, NEW s \in joined[n] PROVE [s EXCEPT !.age = Registry!Older(@)] \in [kind : Kinds, age : Ages]
      <4>1. s \in [kind : Kinds, age : Ages] /\ s.age \in Ages /\ s.age \in Known
        BY DEF RegistryTypeOK, Known
      <4> QED BY <1>0, <4>1
    <3> QED BY <3>1, <3>2
  <2>5. mail' \in [Nodes -> SUBSET MailOf]
    <3>1. mail' = [m \in Nodes |-> {[e EXCEPT !.age = Registry!Older(@), !.sent = @ + 1] : e \in mail[m]}]
      BY DEF Registry!Tick
    <3>2. ASSUME NEW m \in Nodes, NEW e \in mail[m] PROVE [e EXCEPT !.age = Registry!Older(@), !.sent = @ + 1] \in MailOf
      <4>1. e \in MailOf /\ e.sent < MaxDelay
        BY DEF Registry!Tick, RegistryTypeOK
      <4>2. e.age \in Ages /\ e.age \in Known
        BY <4>1 DEF MailOf, Known
      <4>3. Registry!Older(e.age) \in Ages
        BY <1>0, <4>2
      <4>4. e.sent + 1 \in 0 .. MaxDelay
        BY <4>1, Numbers DEF MailOf
      <4> HIDE DEF RegistryTypeOK
      <4> QED BY <4>1, <4>3, <4>4 DEF MailOf
    <3> QED BY <3>1, <3>2
  <2>6. gone' \in [Nodes -> Ages]
    <3>1. gone' = [n \in Nodes |-> IF Registry!Running(n) \/ at[n] = "off" THEN 0 ELSE Registry!Older(gone[n])] /\ gone \in [Nodes -> Ages]
      BY DEF Registry!Tick, RegistryTypeOK
    <3>2. \A n \in Nodes : Registry!Older(gone[n]) \in Ages
      BY <1>0, <3>1 DEF Known
    <3>3. 0 \in Ages
      BY Numbers
    <3> QED BY <3>1, <3>2, <3>3
  <2>7. due' \in [Nodes -> 0 .. HeartbeatMs]
    <3>1. due' = [n \in Nodes |-> IF due[n] = 0 \/ ~Registry!Beating(n) THEN due[n] ELSE due[n] - 1]
      BY DEF Registry!Tick
    <3>2. \A n \in Nodes : due[n] \in 0 .. HeartbeatMs
      BY DEF RegistryTypeOK
    <3>3. \A n \in Nodes : due[n] # 0 => due[n] - 1 \in 0 .. HeartbeatMs
      BY <3>2, Numbers
    <3> QED BY <3>1, <3>2, <3>3
  <2> QED BY <2>1, <2>2, <2>3, <2>4, <2>5, <2>6, <2>7 DEF Registry!Tick, RegistryTypeOK
<1>2. Present'
  BY DEF Registry!Tick, Present, Registry!Running
<1>3. \A n \in Nodes : gone[n] \in Ages /\ (gone'[n] = 0 \/ gone'[n] = Registry!Older(gone[n]))
  BY DEF Registry!Tick, RegistryTypeOK
<1>4. Rows'
  <2> SUFFICES ASSUME NEW n \in Nodes, row'[n] # Unknown PROVE gone'[n] <= row'[n]
    BY DEF Rows
  <2>1. row'[n] = Registry!Older(row[n]) /\ row[n] \in Known
    BY DEF Registry!Tick, RegistryTypeOK
  <2>2. row[n] \in Ages /\ gone[n] <= row[n]
    BY <1>0, <2>1 DEF Rows, Known
  <2> QED BY <1>3, <2>1, <2>2, Aged
<1>5. Lists'
  <2> SUFFICES ASSUME NEW m \in Nodes, NEW n \in Nodes, listed'[m][n] # Unknown PROVE gone'[n] <= listed'[m][n]
    BY DEF Lists
  <2>1. listed'[m][n] = Registry!Older(listed[m][n]) /\ listed[m][n] \in Known
    BY DEF Registry!Tick, RegistryTypeOK
  <2>2. listed[m][n] \in Ages /\ gone[n] <= listed[m][n]
    BY <1>0, <2>1 DEF Lists, Known
  <2> QED BY <1>3, <2>1, <2>2, Aged
<1>6. Mails'
  <2>1. mail' = [m \in Nodes |-> {[e EXCEPT !.age = Registry!Older(@), !.sent = @ + 1] : e \in mail[m]}]
    BY DEF Registry!Tick
  <2>2. ASSUME NEW m \in Nodes, NEW e \in mail[m]
        PROVE  LET f == [e EXCEPT !.age = Registry!Older(@), !.sent = @ + 1] IN gone'[f.of] <= f.sent
    <3>1. e \in MailOf /\ gone[e.of] <= e.sent
      BY DEF RegistryTypeOK, Mails
    <3>2. e.sent \in Ages /\ e.of \in Nodes
      BY <3>1, Numbers DEF MailOf, Ages
    <3>3. gone'[e.of] <= e.sent + 1
      BY <1>3, <3>1, <3>2, Aged
    <3> QED BY <3>1, <3>3 DEF MailOf
  <2> QED BY <2>1, <2>2 DEF Mails
<1>7. Caches'
  <2> SUFFICES ASSUME NEW m \in Nodes, NEW n \in Nodes, cache'[m][n] # Unknown PROVE gone'[n] <= cache'[m][n] + MaxDelay
    BY DEF Caches
  <2>1. cache'[m][n] = Registry!Older(cache[m][n]) /\ cache[m][n] \in Known
    BY DEF Registry!Tick, RegistryTypeOK
  <2>2. cache[m][n] \in Ages /\ gone[n] <= cache[m][n] + MaxDelay
    BY <1>0, <2>1 DEF Caches, Known
  <2> QED BY <1>3, <2>1, <2>2, Aged
<1> QED BY <1>1, <1>2, <1>4, <1>5, <1>6, <1>7

LEMMA RegistryInit == ASSUME Registry!MeshAssumption, Registry!Init PROVE RegistryInv
BY Numbers DEF Registry!Init, RegistryInv, RegistryTypeOK, Places, Known, Registry!Empty, Present, Rows, Lists, Mails, Caches, Registry!MeshAssumption

LEMMA RegistryNext == ASSUME Registry!MeshAssumption, RegistryInv, [Registry!Next]_(Registry!vars) PROVE RegistryInv'
<1>1. CASE UNCHANGED Registry!vars
  BY <1>1 DEF Registry!vars, RegistryInv, RegistryTypeOK, Registry!Running, Present, Rows, Lists, Mails, Caches
<1>2. ASSUME NEW n \in Nodes, Registry!Boot(n) PROVE RegistryInv'
  BY <1>2, StartStep, UpsertStep, AnnounceStep, ListLiveNodesStep, SeedStep DEF Registry!Boot
<1>3. ASSUME NEW n \in Nodes, Registry!Heartbeat(n) PROVE RegistryInv'
  BY <1>3, TouchStep, EmitHeartbeatStep DEF Registry!Heartbeat
<1>4. ASSUME NEW n \in Nodes, Registry!Operation(n) PROVE RegistryInv'
  BY <1>4, OpBeginsStep, DeregisterStep, OpCommitsStep, OpFailsStep DEF Registry!Operation
<1>5. ASSUME NEW n \in Nodes, Registry!Receive(n) \/ Registry!All(n) \/ Registry!GcStaleNodes(n) \/ Registry!End(n) PROVE RegistryInv'
  BY <1>5, ReceiveStep, AllStep, GcStaleNodesStep, EndStep
<1> QED BY <1>1, <1>2, <1>3, <1>4, <1>5, TickStep DEF Registry!Next

-----------------------------------------------------------------------------
LEMMA MinOfZero == ASSUME NEW B, B \subseteq {0}, B # {} PROVE Registry!Min(B) = 0
<1>1. B \in SUBSET Nat
  OBVIOUS
<1> QED BY <1>1, MinIs

(* What a transaction leaves: the beat that it has, or the row.            *)
LEMMA After ==
  ASSUME NEW n \in Nodes, \A s \in joined[n] : s.age = 0, ~Registry!Has(n, "delete")
  PROVE  Registry!RowAfter(n) = IF Registry!Has(n, "upsert") \/ (Registry!Has(n, "touch") /\ row[n] # Unknown) THEN 0 ELSE row[n]
<1>1. Registry!Beats(n) \subseteq {0} /\ (Registry!Beats(n) = {} <=> ~Registry!Has(n, "upsert") /\ ~Registry!Has(n, "touch"))
  BY DEF Registry!Beats, Registry!Has
<1> HIDE DEF Registry!Beats, Registry!Has
<1> QED BY <1>1, MinOfZero DEF Registry!RowAfter

LEMMA JoinIs ==
  ASSUME RegistryTypeOK, NEW n \in Nodes, NEW kind, Registry!Join(n, kind)
  PROVE  /\ \A k \in Nodes : \A x : Registry!Has(k, x)' <=> Registry!Has(k, x) \/ (k = n /\ x = kind)
         /\ \A k \in Nodes : \A s \in joined'[k] : s \in joined[k] \/ s.age = 0
<1>1. joined'[n] = joined[n] \cup {[kind |-> kind, age |-> 0]} /\ \A k \in Nodes \ {n} : joined'[k] = joined[k]
  BY DEF Registry!Join, RegistryTypeOK
<1>2. ASSUME NEW k \in Nodes, NEW x PROVE Registry!Has(k, x)' <=> Registry!Has(k, x) \/ (k = n /\ x = kind)
  <2>1. CASE k = n
    <3> DEFINE r == [kind |-> kind, age |-> 0]
    <3>1. r.kind = kind
      OBVIOUS
    <3>2. joined'[n] = joined[n] \cup {r}
      BY <1>1
    <3> HIDE DEF r
    <3> QED BY <2>1, <3>1, <3>2 DEF Registry!Has
  <2>2. CASE k # n
    BY <1>1, <2>2 DEF Registry!Has
  <2> QED BY <2>1, <2>2
<1> QED BY <1>1, <1>2

LEMMA PublishIs ==
  ASSUME RegistryTypeOK, NEW n \in Nodes, NEW kind, Registry!PublishEvent(n, kind)
  PROVE  /\ \A k \in Nodes : \A x : Registry!Has(k, x)' <=> Registry!Has(k, x) \/ (k = n /\ n \in tx /\ x = kind)
         /\ \A k \in Nodes : \A s \in joined'[k] : s \in joined[k] \/ s.age = 0
<1>1. CASE n \in tx
  BY <1>1, JoinIs DEF Registry!PublishEvent
<1>2. CASE n \notin tx
  BY <1>2 DEF Registry!PublishEvent, Registry!Has
<1> QED BY <1>1, <1>2

LEMMA QueryIs ==
  ASSUME RegistryTypeOK, NEW n \in Nodes, NEW kind, Registry!Query(n, kind)
  PROVE  /\ \A k \in Nodes : \A x : Registry!Has(k, x)' <=> Registry!Has(k, x) \/ (k = n /\ n \in tx /\ x = kind)
         /\ \A k \in Nodes : \A s \in joined'[k] : s \in joined[k] \/ s.age = 0
         /\ \A k \in Nodes \ {n} : row'[k] = row[k]
         /\ n \in tx => row'[n] = row[n]
         /\ n \notin tx /\ n \in mesh.watched /\ (kind = "touch" => row[n] # Unknown) => row'[n] = 0
<1>1. CASE n \in tx
  BY <1>1, JoinIs DEF Registry!Query
<1>2. CASE n \notin tx
  BY <1>2 DEF Registry!Query, Registry!Has, RegistryTypeOK
<1> QED BY <1>1, <1>2

LEMMA DueIs ==
  ASSUME Registry!MeshAssumption, RegistryTypeOK, NEW n \in Nodes
  PROVE  due[n] \in Nat /\ due[n] <= HeartbeatMs /\ (row[n] # Unknown => row[n] \in Nat)
BY DEF RegistryTypeOK, Known, Ages

LEMMA StartTimely ==
  ASSUME Registry!MeshAssumption, HeartbeatMs <= GcAfter, RegistryInv, TimelyInv, NEW n \in Nodes, Registry!Start(n) PROVE TimelyInv'
<1> USE DEF TimelyInv
<1>1. RegistryTypeOK /\ Present
  BY DEF RegistryInv
<1>2. Waiting'
  BY DEF Registry!Start, Waiting, Registry!Beating
<1>3. Leaving'
  BY DEF Registry!Start, Leaving, Registry!Has
<1>4. AtOnce'
  BY DEF Registry!Start, AtOnce, Timely
<1>5. Keeping'
  <2> SUFFICES ASSUME Timely, NEW k \in Nodes, Registered(k)' PROVE Kept(k)'
    BY DEF Registry!Start, Keeping, Timely
  <2>1. Registered(k) => Kept(k)
    BY DEF Keeping
  <2> QED BY <2>1 DEF Registry!Start, Registered, Registry!Running, Kept, Registry!Has
<1> QED BY <1>2, <1>3, <1>4, <1>5

LEMMA UpsertTimely ==
  ASSUME Registry!MeshAssumption, HeartbeatMs <= GcAfter, RegistryInv, TimelyInv, NEW n \in Nodes, Registry!Upsert(n) PROVE TimelyInv'
<1> USE DEF TimelyInv
<1>1. RegistryTypeOK /\ Present
  BY DEF RegistryInv
<1>2. Waiting'
  BY DEF Registry!Upsert, Waiting, Registry!Beating
<1>0. Registry!Query(n, "upsert")
  BY DEF Registry!Upsert
<1>3. Leaving'
  BY <1>1, QueryIs DEF Registry!Upsert, Leaving
<1>4. AtOnce'
  BY <1>1, QueryIs DEF Registry!Upsert, AtOnce, Timely
<1>5. Keeping'
  <2> SUFFICES ASSUME Timely, NEW k \in Nodes, Registered(k)' PROVE Kept(k)'
    BY DEF Registry!Upsert, Keeping, Timely
  <2>1. Registered(k) => Kept(k)
    BY DEF Keeping
  <2> QED BY <1>1, <2>1, QueryIs, DueIs, Numbers DEF Registry!Upsert, Registered, Registry!Running, Kept
<1> QED BY <1>2, <1>3, <1>4, <1>5

LEMMA AnnounceTimely ==
  ASSUME Registry!MeshAssumption, HeartbeatMs <= GcAfter, RegistryInv, TimelyInv, NEW n \in Nodes, Registry!Announce(n) PROVE TimelyInv'
<1> USE DEF TimelyInv
<1>1. RegistryTypeOK /\ Present
  BY DEF RegistryInv
<1>2. Waiting'
  BY DEF Registry!Announce, Waiting, Registry!Beating
<1>0. Registry!PublishEvent(n, "announce")
  BY DEF Registry!Announce
<1>3. Leaving'
  BY <1>1, PublishIs DEF Registry!Announce, Leaving
<1>4. AtOnce'
  BY <1>1, PublishIs DEF Registry!Announce, AtOnce, Timely
<1>5. Keeping'
  <2> SUFFICES ASSUME Timely, NEW k \in Nodes, Registered(k)' PROVE Kept(k)'
    BY DEF Registry!Announce, Keeping, Timely
  <2>1. Registered(k) => Kept(k)
    BY DEF Keeping
  <2> QED BY <1>1, <2>1, PublishIs DEF Registry!Announce, Registered, Registry!Running, Kept
<1> QED BY <1>2, <1>3, <1>4, <1>5

LEMMA ListLiveNodesTimely ==
  ASSUME Registry!MeshAssumption, HeartbeatMs <= GcAfter, RegistryInv, TimelyInv, NEW n \in Nodes, Registry!ListLiveNodes(n) PROVE TimelyInv'
<1> USE DEF TimelyInv
<1>1. RegistryTypeOK /\ Present
  BY DEF RegistryInv
<1>2. Waiting'
  BY DEF Registry!ListLiveNodes, Waiting, Registry!Beating
<1>3. Leaving'
  BY DEF Registry!ListLiveNodes, Leaving, Registry!Has
<1>4. AtOnce'
  BY DEF Registry!ListLiveNodes, AtOnce, Timely
<1>5. Keeping'
  <2> SUFFICES ASSUME Timely, NEW k \in Nodes, Registered(k)' PROVE Kept(k)'
    BY DEF Registry!ListLiveNodes, Keeping, Timely
  <2>1. Registered(k) => Kept(k)
    BY DEF Keeping
  <2> QED BY <2>1 DEF Registry!ListLiveNodes, Registered, Registry!Running, Kept, Registry!Has
<1> QED BY <1>2, <1>3, <1>4, <1>5

LEMMA SeedTimely ==
  ASSUME Registry!MeshAssumption, HeartbeatMs <= GcAfter, RegistryInv, TimelyInv, NEW n \in Nodes, Registry!Seed(n) PROVE TimelyInv'
<1> USE DEF TimelyInv
<1>1. RegistryTypeOK /\ Present
  BY DEF RegistryInv
<1>2. Waiting'
  BY DEF Registry!Seed, Waiting, Registry!Beating
<1>3. Leaving'
  BY DEF Registry!Seed, Leaving, Registry!Has
<1>4. AtOnce'
  BY DEF Registry!Seed, AtOnce, Timely
<1>5. Keeping'
  <2> SUFFICES ASSUME Timely, NEW k \in Nodes, Registered(k)' PROVE Kept(k)'
    BY DEF Registry!Seed, Keeping, Timely
  <2>1. Registered(k) => Kept(k)
    BY DEF Keeping
  <2>2. due[n] = HeartbeatMs /\ due' = [due EXCEPT ![n] = HeartbeatMs]
    BY DEF Registry!Seed, Waiting, Registry!Beating
  <2>3. due'[k] = due[k] /\ UNCHANGED <<mesh, row, tx, joined, left>>
    BY <2>2 DEF Registry!Seed
  <2>4. Registered(k)
    BY DEF Registry!Seed, Registered, Registry!Running
  <2> QED BY <2>1, <2>3, <2>4 DEF Kept, Registry!Has
<1> QED BY <1>2, <1>3, <1>4, <1>5

LEMMA TouchTimely ==
  ASSUME Registry!MeshAssumption, HeartbeatMs <= GcAfter, RegistryInv, TimelyInv, NEW n \in Nodes, Registry!Touch(n) PROVE TimelyInv'
<1> USE DEF TimelyInv
<1>1. RegistryTypeOK /\ Present
  BY DEF RegistryInv
<1>2. Waiting'
  BY DEF Registry!Touch, Waiting, Registry!Beating
<1>0. Registry!Query(n, "touch")
  BY DEF Registry!Touch
<1>3. Leaving'
  BY <1>1, QueryIs DEF Registry!Touch, Leaving
<1>4. AtOnce'
  BY <1>1, QueryIs DEF Registry!Touch, AtOnce, Timely
<1>5. Keeping'
  <2> SUFFICES ASSUME Timely, NEW k \in Nodes, Registered(k)' PROVE Kept(k)'
    BY DEF Registry!Touch, Keeping, Timely
  <2>1. Registered(k) => Kept(k)
    BY DEF Keeping
  <2> QED BY <1>1, <2>1, QueryIs, Numbers DEF Registry!Touch, Registered, Registry!Running, Kept
<1> QED BY <1>2, <1>3, <1>4, <1>5

LEMMA EmitHeartbeatTimely ==
  ASSUME Registry!MeshAssumption, HeartbeatMs <= GcAfter, RegistryInv, TimelyInv, NEW n \in Nodes, Registry!EmitHeartbeat(n) PROVE TimelyInv'
<1> USE DEF TimelyInv
<1>1. RegistryTypeOK /\ Present
  BY DEF RegistryInv
<1>2. Waiting'
  BY DEF Registry!EmitHeartbeat, Waiting, Registry!Beating
<1>0. Registry!PublishEvent(n, "heartbeat")
  BY DEF Registry!EmitHeartbeat
<1>3. Leaving'
  BY <1>1, PublishIs DEF Registry!EmitHeartbeat, Leaving
<1>4. AtOnce'
  BY <1>1, PublishIs DEF Registry!EmitHeartbeat, AtOnce, Timely
<1>5. Keeping'
  <2> SUFFICES ASSUME Timely, NEW k \in Nodes, Registered(k)' PROVE Kept(k)'
    BY DEF Registry!EmitHeartbeat, Keeping, Timely
  <2>1. Registered(k) => Kept(k)
    BY DEF Keeping
  <2> QED BY <1>1, <2>1, PublishIs DEF Registry!EmitHeartbeat, Registered, Registry!Running, Kept
<1> QED BY <1>2, <1>3, <1>4, <1>5

LEMMA OpBeginsTimely ==
  ASSUME Registry!MeshAssumption, HeartbeatMs <= GcAfter, RegistryInv, TimelyInv, NEW n \in Nodes, Registry!OpBegins(n) PROVE TimelyInv'
<1> USE DEF TimelyInv
<1>1. RegistryTypeOK /\ Present
  BY DEF RegistryInv
<1>2. Waiting'
  BY DEF Registry!OpBegins, Waiting, Registry!Beating
<1>3. Leaving'
  BY DEF Registry!OpBegins, Leaving, Registry!Has
<1>4. AtOnce'
  BY DEF Registry!OpBegins, AtOnce, Timely
<1>5. Keeping'
  <2> SUFFICES ASSUME Timely, NEW k \in Nodes, Registered(k)' PROVE Kept(k)'
    BY DEF Registry!OpBegins, Keeping, Timely
  <2>1. Registered(k) => Kept(k)
    BY DEF Keeping
  <2> QED BY <2>1 DEF Registry!OpBegins, Registered, Registry!Running, Kept, Registry!Has
<1> QED BY <1>2, <1>3, <1>4, <1>5

LEMMA DeregisterTimely ==
  ASSUME Registry!MeshAssumption, HeartbeatMs <= GcAfter, RegistryInv, TimelyInv, NEW n \in Nodes, Registry!Deregister(n) PROVE TimelyInv'
<1> USE DEF TimelyInv
<1>1. RegistryTypeOK /\ Present
  BY DEF RegistryInv
<1>2. Waiting'
  BY DEF Registry!Deregister, Waiting, Registry!Beating
<1>3. Leaving'
  BY DEF Registry!Deregister, Leaving, Registry!Has
<1>4. AtOnce'
  BY DEF Registry!Deregister, AtOnce, Timely
<1>5. Keeping'
  <2> SUFFICES ASSUME Timely, NEW k \in Nodes, Registered(k)' PROVE Kept(k)'
    BY DEF Registry!Deregister, Keeping, Timely
  <2>1. Registered(k) => Kept(k)
    BY DEF Keeping
  <2> QED BY <2>1 DEF Registry!Deregister, Registered, Registry!Running, Kept, Registry!Has
<1> QED BY <1>2, <1>3, <1>4, <1>5

LEMMA OpCommitsTimely ==
  ASSUME Registry!MeshAssumption, HeartbeatMs <= GcAfter, RegistryInv, TimelyInv, NEW n \in Nodes, Registry!OpCommits(n) PROVE TimelyInv'
<1> USE DEF TimelyInv
<1>1. RegistryTypeOK /\ Present
  BY DEF RegistryInv
<1>2. Waiting'
  BY DEF Registry!OpCommits, Waiting, Registry!Beating
<1>3. Leaving'
  BY DEF Registry!OpCommits, Leaving, Registry!Has
<1>4. AtOnce'
  BY DEF Registry!OpCommits, AtOnce, Timely
<1>5. Keeping'
  <2> SUFFICES ASSUME Timely, NEW k \in Nodes, Registered(k)' PROVE Kept(k)'
    BY DEF Registry!OpCommits, Keeping, Timely
  <2>1. Registered(k) => Kept(k)
    BY DEF Keeping
  <2>2. Registered(k) /\ UNCHANGED <<due, left>> /\ (k # n => (k \in tx <=> k \in tx') /\ row'[k] = row[k] /\ joined'[k] = joined[k])
    BY DEF Registry!OpCommits, Registered, Registry!Running
  <2>3. CASE k # n
    BY <2>1, <2>2, <2>3 DEF Kept, Registry!Has
  <2>4. CASE k = n
    <3>1. Registry!RowAfter(n) = IF Registry!Has(n, "upsert") \/ (Registry!Has(n, "touch") /\ row[n] # Unknown) THEN 0 ELSE row[n]
      BY <2>2, <2>4, After DEF AtOnce, Leaving, Registered
    <3>2. row'[n] = Registry!RowAfter(n)
      BY <1>1 DEF Registry!OpCommits, RegistryTypeOK
    <3>3. Registered(n) /\ due'[n] = due[n]
      BY <2>2, <2>4
    <3> QED BY <1>1, <2>1, <2>4, <3>1, <3>2, <3>3, DueIs, Numbers DEF Kept
  <2> QED BY <2>3, <2>4
<1> QED BY <1>2, <1>3, <1>4, <1>5

LEMMA OpFailsTimely ==
  ASSUME Registry!MeshAssumption, HeartbeatMs <= GcAfter, RegistryInv, TimelyInv, NEW n \in Nodes, Registry!OpFails(n) PROVE TimelyInv'
<1> USE DEF TimelyInv
<1>1. RegistryTypeOK /\ Present
  BY DEF RegistryInv
<1>2. Waiting'
  BY DEF Registry!OpFails, Waiting, Registry!Beating
<1>3. Leaving'
  BY <1>1 DEF Registry!OpFails, RegistryTypeOK, Leaving, Registry!Has
<1>4. AtOnce'
  BY DEF Registry!OpFails, AtOnce, Timely
<1>5. Keeping'
  <2> SUFFICES ASSUME Timely, NEW k \in Nodes, Registered(k)' PROVE Kept(k)'
    BY DEF Registry!OpFails, Keeping, Timely
  <2>1. Registered(k) => Kept(k)
    BY DEF Keeping
  <2> QED BY DEF Registry!OpFails, Timely
<1> QED BY <1>2, <1>3, <1>4, <1>5

LEMMA ReceiveTimely ==
  ASSUME Registry!MeshAssumption, HeartbeatMs <= GcAfter, RegistryInv, TimelyInv, NEW n \in Nodes, Registry!Receive(n) PROVE TimelyInv'
<1> USE DEF TimelyInv
<1>1. RegistryTypeOK /\ Present
  BY DEF RegistryInv
<1>2. Waiting'
  BY DEF Registry!Receive, Waiting, Registry!Beating
<1>3. Leaving'
  BY DEF Registry!Receive, Leaving, Registry!Has
<1>4. AtOnce'
  BY DEF Registry!Receive, AtOnce, Timely
<1>5. Keeping'
  <2> SUFFICES ASSUME Timely, NEW k \in Nodes, Registered(k)' PROVE Kept(k)'
    BY DEF Registry!Receive, Keeping, Timely
  <2>1. Registered(k) => Kept(k)
    BY DEF Keeping
  <2> QED BY <2>1 DEF Registry!Receive, Registered, Registry!Running, Kept, Registry!Has
<1> QED BY <1>2, <1>3, <1>4, <1>5

LEMMA AllTimely ==
  ASSUME Registry!MeshAssumption, HeartbeatMs <= GcAfter, RegistryInv, TimelyInv, NEW n \in Nodes, Registry!All(n) PROVE TimelyInv'
<1> USE DEF TimelyInv
<1>1. RegistryTypeOK /\ Present
  BY DEF RegistryInv
<1>2. Waiting'
  BY DEF Registry!All, Waiting, Registry!Beating
<1>3. Leaving'
  BY DEF Registry!All, Leaving, Registry!Has
<1>4. AtOnce'
  BY DEF Registry!All, AtOnce, Timely
<1>5. Keeping'
  <2> SUFFICES ASSUME Timely, NEW k \in Nodes, Registered(k)' PROVE Kept(k)'
    BY DEF Registry!All, Keeping, Timely
  <2>1. Registered(k) => Kept(k)
    BY DEF Keeping
  <2> QED BY <2>1 DEF Registry!All, Registered, Registry!Running, Kept, Registry!Has
<1> QED BY <1>2, <1>3, <1>4, <1>5

LEMMA GcStaleNodesTimely ==
  ASSUME Registry!MeshAssumption, HeartbeatMs <= GcAfter, RegistryInv, TimelyInv, NEW n \in Nodes, Registry!GcStaleNodes(n) PROVE TimelyInv'
<1> USE DEF TimelyInv
<1>1. RegistryTypeOK /\ Present
  BY DEF RegistryInv
<1>2. Waiting'
  BY DEF Registry!GcStaleNodes, Waiting, Registry!Beating
<1>3. Leaving'
  BY DEF Registry!GcStaleNodes, Leaving, Registry!Has
<1>4. AtOnce'
  BY DEF Registry!GcStaleNodes, AtOnce, Timely
<1>5. Keeping'
  <2> SUFFICES ASSUME Timely, NEW k \in Nodes, Registered(k)' PROVE Kept(k)'
    BY DEF Registry!GcStaleNodes, Keeping, Timely
  <2>1. Registered(k) => Kept(k)
    BY DEF Keeping
  <2>2. Registered(k) /\ UNCHANGED <<due, tx, joined>>
    BY DEF Registry!GcStaleNodes, Registered, Registry!Running
  <2>3. row[k] # Unknown /\ row[k] <= HeartbeatMs => row'[k] = row[k]
    BY DueIs, Numbers, <1>1 DEF Registry!GcStaleNodes, Registry!Stale
  <2> QED BY <2>1, <2>2, <2>3 DEF Kept, Registry!Has
<1> QED BY <1>2, <1>3, <1>4, <1>5

LEMMA EndTimely ==
  ASSUME Registry!MeshAssumption, HeartbeatMs <= GcAfter, RegistryInv, TimelyInv, NEW n \in Nodes, Registry!End(n) PROVE TimelyInv'
<1> USE DEF TimelyInv
<1>1. RegistryTypeOK /\ Present
  BY DEF RegistryInv
<1>2. Waiting'
  BY <1>1 DEF Registry!End, RegistryTypeOK, Waiting, Registry!Beating
<1>3. Leaving'
  BY <1>1 DEF Registry!End, RegistryTypeOK, Leaving, Registry!Has
<1>4. AtOnce'
  BY DEF Registry!End, AtOnce, Timely
<1>5. Keeping'
  <2> SUFFICES ASSUME Timely, NEW k \in Nodes, Registered(k)' PROVE Kept(k)'
    BY DEF Registry!End, Keeping, Timely
  <2>1. Registered(k) => Kept(k)
    BY DEF Keeping
  <2> QED BY <1>1, <2>1 DEF Registry!End, RegistryTypeOK, Registered, Registry!Running, Kept, Registry!Has
<1> QED BY <1>2, <1>3, <1>4, <1>5

LEMMA TickTimely ==
  ASSUME Registry!MeshAssumption, HeartbeatMs <= GcAfter, RegistryInv, TimelyInv, Registry!Tick PROVE TimelyInv'
<1> USE DEF TimelyInv
<1>1. RegistryTypeOK /\ Present
  BY DEF RegistryInv
<1>2. Waiting'
  BY DEF Registry!Tick, Waiting, Registry!Beating
<1>3. joined' = [n \in Nodes |-> {[s EXCEPT !.age = Registry!Older(@)] : s \in joined[n]}]
  BY DEF Registry!Tick
<1>4. \A n \in Nodes : \A s \in joined[n] : [s EXCEPT !.age = Registry!Older(@)].kind = s.kind
  BY <1>1 DEF RegistryTypeOK
<1>5. Leaving'
  <2> SUFFICES ASSUME NEW n \in Nodes, NEW s \in joined'[n], s.kind = "delete" PROVE n \in left'
    BY DEF Leaving, Registry!Has
  <2>1. Registry!Has(n, "delete")
    BY <1>3, <1>4 DEF Registry!Has
  <2> QED BY <2>1 DEF Leaving, Registry!Tick
<1>6. ASSUME Timely PROVE tx = {} /\ \A n \in Nodes : Registry!Running(n) => at[n] = "up" /\ due[n] > 0
  BY <1>6 DEF Registry!Tick, Timely
<1>7. AtOnce'
  <2> SUFFICES ASSUME Timely, NEW n \in Nodes PROVE joined'[n] = {}
    BY DEF AtOnce, Registry!Tick, Timely
  <2>1. joined[n] = {}
    BY <1>1, <1>6 DEF Present
  <2> QED BY <1>3, <2>1
<1>8. Keeping'
  <2> SUFFICES ASSUME Timely, NEW n \in Nodes, Registered(n)' PROVE Kept(n)'
    BY DEF Registry!Tick, Keeping, Timely
  <2>1. Registered(n)
    BY DEF Registry!Tick, Registered, Registry!Running
  <2>2. row[n] # Unknown /\ row[n] + due[n] <= HeartbeatMs /\ at[n] = "up" /\ due[n] > 0
    BY <1>6, <2>1 DEF Keeping, Kept, Registered
  <2>3. row'[n] = Registry!Older(row[n]) /\ due'[n] = due[n] - 1
    <3>1. /\ row' = [m \in Nodes |-> Registry!Older(row[m])]
          /\ due' = [m \in Nodes |-> IF due[m] = 0 \/ ~Registry!Beating(m) THEN due[m] ELSE due[m] - 1]
      BY DEF Registry!Tick
    <3>2. Registry!Beating(n) /\ due[n] # 0
      BY <2>2 DEF Registry!Beating
    <3> QED BY <3>1, <3>2
  <2>4. row[n] \in Nat /\ due[n] \in Nat /\ Registry!Older(row[n]) \in Nat /\ Registry!Older(row[n]) <= row[n] + 1
    BY <1>1, <2>2, DueIs DEF Registry!Older
  <2>5. row'[n] # Unknown
    BY <2>3, <2>4, Numbers
  <2> QED BY <2>2, <2>3, <2>4, Numbers DEF Kept
<1> QED BY <1>2, <1>5, <1>7, <1>8

LEMMA TimelyInit == ASSUME Registry!MeshAssumption, Registry!Init PROVE TimelyInv
BY DEF Registry!Init, TimelyInv, Waiting, Leaving, Registry!Has, AtOnce, Keeping, Registered, Registry!Running

LEMMA TimelyNext == ASSUME Registry!MeshAssumption, HeartbeatMs <= GcAfter, RegistryInv, TimelyInv, [Registry!Next]_(Registry!vars) PROVE TimelyInv'
<1>1. CASE UNCHANGED Registry!vars
  BY <1>1 DEF Registry!vars, TimelyInv, Waiting, Registry!Beating, Leaving, Registry!Has, AtOnce, Timely, Keeping, Registered, Registry!Running, Kept
<1>2. ASSUME NEW n \in Nodes, Registry!Boot(n) PROVE TimelyInv'
  BY <1>2, StartTimely, UpsertTimely, AnnounceTimely, ListLiveNodesTimely, SeedTimely DEF Registry!Boot
<1>3. ASSUME NEW n \in Nodes, Registry!Heartbeat(n) PROVE TimelyInv'
  BY <1>3, TouchTimely, EmitHeartbeatTimely DEF Registry!Heartbeat
<1>4. ASSUME NEW n \in Nodes, Registry!Operation(n) PROVE TimelyInv'
  BY <1>4, OpBeginsTimely, DeregisterTimely, OpCommitsTimely, OpFailsTimely DEF Registry!Operation
<1>5. ASSUME NEW n \in Nodes, Registry!Receive(n) \/ Registry!All(n) \/ Registry!GcStaleNodes(n) \/ Registry!End(n) PROVE TimelyInv'
  BY <1>5, ReceiveTimely, AllTimely, GcStaleNodesTimely, EndTimely
<1> QED BY <1>1, <1>2, <1>3, <1>4, <1>5, TickTimely DEF Registry!Next

LEMMA RegistryAlways == ASSUME Registry!MeshAssumption PROVE Registry!Spec => []RegistryInv
<1>1. Registry!Init => RegistryInv
  BY RegistryInit
<1>2. RegistryInv /\ [Registry!Next]_(Registry!vars) => RegistryInv'
  BY RegistryNext
<1> QED BY <1>1, <1>2, PTL DEF Registry!Spec

(***************************************************************************)
(* Whatever is late, out of order or seeded from old rows, and however     *)
(* many nodes there are: a node that has ended is not taken for a peer     *)
(* for longer than offlineAfterMs and the delay of an event.               *)
(***************************************************************************)
NoGhosts ==
  \A m \in mesh.watching, n \in Nodes : Registry!Running(m) /\ n \in Registry!Peers(m) => gone[n] <= OfflineAfter + MaxDelay

THEOREM PeersAreAlive == ASSUME Registry!MeshAssumption PROVE Registry!Spec => []NoGhosts
<1>1. RegistryInv => NoGhosts
  <2> SUFFICES ASSUME RegistryInv, NEW m \in mesh.watching, NEW n \in Nodes, n \in Registry!Peers(m)
               PROVE  gone[n] <= OfflineAfter + MaxDelay
    BY DEF NoGhosts
  <2>1. m \in Nodes /\ cache[m][n] \in Known /\ gone[n] \in Ages
    BY DEF RegistryInv, RegistryTypeOK, Registry!Mesh
  <2>2. cache[m][n] # Unknown /\ cache[m][n] <= OfflineAfter
    BY DEF Registry!Peers, Registry!Live
  <2> QED BY <2>1, <2>2, Numbers DEF RegistryInv, Caches, Known, Ages
<1> QED BY <1>1, RegistryAlways, PTL

(***************************************************************************)
(* And if heartbeats are at least as frequent as rows grow stale, the      *)
(* sweep takes no row of a node that beats in time and whose operations    *)
(* commit.                                                                 *)
(***************************************************************************)
THEOREM PeersStayRecent == ASSUME Registry!MeshAssumption, HeartbeatMs <= GcAfter PROVE Registry!Spec => []Registry!PeersRecent
<1>1. Registry!Init => TimelyInv
  BY TimelyInit
<1>2. RegistryInv /\ TimelyInv /\ [Registry!Next]_(Registry!vars) => TimelyInv'
  BY TimelyNext
<1>3. RegistryInv /\ NoGhosts /\ TimelyInv => Registry!PeersRecent
  BY DEF RegistryInv, RegistryTypeOK, Registry!Mesh, NoGhosts, Registry!PeersRecent, TimelyInv, Timely, Keeping, Kept, Registered
<1> QED BY <1>1, <1>2, <1>3, RegistryAlways, PeersAreAlive, PTL DEF Registry!Spec

=============================================================================
