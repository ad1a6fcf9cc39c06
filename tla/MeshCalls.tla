----------------------------- MODULE MeshCalls -----------------------------
(***************************************************************************)
(* ctx.mesh.call on one node: calls that overlap, the choice of a node for *)
(* every attempt, local and remote execution, timeouts, connections that   *)
(* break, retries and the fallback.                                        *)
(*                                                                         *)
(* A call hands its context to the innermost function of the middleware    *)
(* through a slot that all calls share.  A call is known by its context.   *)
(* An attempt that was given up still runs: nothing cancels an action, and *)
(* the node that receives a request does not look at its deadline.         *)
(***************************************************************************)
EXTENDS Integers, Sequences, FiniteSets

CONSTANTS
  Calls,      \* of one node, each made once
  Local,      \* the node
  PeerOrder,  \* the other nodes, in the order of the cache
  Load,       \* cpuLoad of every node; 5 stands for the 0.5 of the local one
  Requests,   \* options and action of a call, see Request
  Waits,      \* may a middleware wait before it calls the next one, or not: BOOLEAN or a part of it
  MaxFaults,  \* bound: connections that break
  None

VARIABLES
  slot,     \* ctxSlot
  call,     \* a call: what it asks, its attempts, where it is
  running,  \* executions, and requests on their way to one
  peers,    \* the peer cache: "fresh", "old" or None
  counter,  \* roundRobinCounters of the action
  givenUp,  \* history: attempts that ended by a timeout or a broken connection
  later,    \* history: of a call in flight, those in flight that began after it
  crossed,  \* history: calls in flight when one ended before another that began after it
  hidden,   \* history: calls whose middleware called next with a later one in flight
  faults

vars == <<slot, call, running, peers, counter, givenUp, later, crossed, hidden, faults>>

Peers == {PeerOrder[i] : i \in DOMAIN PeerOrder}
Strategies == {"local-first", "round-robin", "random", "cpu"}
(* local: is the action one of this node; remote: does the node use HTTP,  *)
(* have a token and the peer a URL.                                        *)
Request == [strategy : Strategies, pinned : Peers \cup {Local, None}, local : BOOLEAN, remote : BOOLEAN,
            retries : Nat, timed : BOOLEAN, fallback : BOOLEAN]

Idle == [pc |-> "idle", previous |-> None, ctx |-> None, req |-> None, try |-> 0, outcome |-> None]

Init ==
  /\ slot = None /\ call = [c \in Calls |-> Idle] /\ running = {}
  /\ peers \in [Peers -> {"fresh", None}] /\ counter = 0 /\ givenUp = {} /\ faults = 0
  /\ later = [c \in Calls |-> {}] /\ crossed = {} /\ hidden = {}
-----------------------------------------------------------------------------
(* pickTarget.  A pinned node is taken from the cache whatever its age;    *)
(* a search by action forgets the entries that are old.                    *)
Fresh == SelectSeq(PeerOrder, LAMBDA p : peers[p] = "fresh")
Candidates(req) == (IF req.local THEN <<Local>> ELSE <<>>) \o Fresh

Turn(n) == ((counter + 1) % n) + 1

LeastLoaded(nodes) == {nodes[i] : i \in {i \in DOMAIN nodes : \A j \in DOMAIN nodes :
  Load[nodes[i]] < Load[nodes[j]] \/ (Load[nodes[i]] = Load[nodes[j]] /\ i <= j)}}

Pick(req) ==
  LET all == Candidates(req) IN
  IF req.pinned = Local THEN IF req.local THEN {Local} ELSE {}
  ELSE IF req.pinned # None THEN {p \in {req.pinned} : peers[p] # None}
  ELSE IF all = <<>> THEN {}
  ELSE CASE req.strategy = "local-first" -> {all[1]}
         [] req.strategy = "random" -> {all[i] : i \in DOMAIN all}
         [] req.strategy = "round-robin" -> {all[Turn(Len(all))]}
         [] req.strategy = "cpu" -> LeastLoaded(all)

Searches(req) == req.pinned = None
PickTarget(req, target) ==
  /\ IF Pick(req) = {} THEN target = None ELSE target \in Pick(req)
  /\ peers' = IF Searches(req) THEN [p \in Peers |-> IF peers[p] = "old" THEN None ELSE peers[p]] ELSE peers
  /\ counter' = IF Searches(req) /\ req.strategy = "round-robin" /\ Candidates(req) # <<>> THEN counter + 1 ELSE counter

(* An attempt: the action in the context of the call, or a request. *)
Attempt(c, rec, try) == \E target \in Peers \cup {Local, None} :
  LET rejected == target = None \/ (target # Local /\ ~rec.req.remote)
      phase == IF target = Local THEN "runs" ELSE "sent"
  IN /\ PickTarget(rec.req, target)
     /\ call' = [call EXCEPT ![c] = [rec EXCEPT !.try = try, !.pc = IF rejected THEN "failed" ELSE "waiting"]]
     /\ running' = IF rejected THEN running
                   ELSE running \cup {[call |-> c, try |-> try, at |-> target, ctx |-> rec.ctx, phase |-> phase]}
-----------------------------------------------------------------------------
(* The slot is taken by every call. *)
(* A bug: it is taken when it is free. *)
TakeIfFree(c) == IF slot = None THEN c ELSE slot

Take(c) == c

InFlight(c) == call[c].pc \notin {"idle", "ended"}

Call(c, req, waits) ==
  LET rec == [Idle EXCEPT !.previous = slot, !.req = req, !.ctx = Take(c)] IN
  /\ call[c].pc = "idle"
  /\ slot' = Take(c)
  /\ IF waits THEN call' = [call EXCEPT ![c] = [rec EXCEPT !.pc = "before", !.ctx = None]] /\ UNCHANGED <<running, peers, counter>>
     ELSE Attempt(c, rec, 1)
  /\ later' = [b \in Calls |-> IF InFlight(b) THEN later[b] \cup {c} ELSE later[b]]
  /\ UNCHANGED <<givenUp, crossed, hidden, faults>>

(* A middleware that has waited calls the next function: the context is    *)
(* that in the slot by then.                                               *)
CallNext(c) ==
  /\ call[c].pc = "before"
  /\ IF slot = None
       THEN call' = [call EXCEPT ![c].pc = "no context"] /\ UNCHANGED <<running, peers, counter>>
     ELSE Attempt(c, [call[c] EXCEPT !.ctx = slot], 1)
  /\ hidden' = IF later[c] = {} THEN hidden ELSE hidden \cup {c}
  /\ UNCHANGED <<slot, givenUp, later, crossed, faults>>

Delay(c) ==
  /\ call[c].pc = "failed" /\ call[c].try <= call[c].req.retries
  /\ call' = [call EXCEPT ![c].pc = "delay"]
  /\ UNCHANGED <<slot, running, peers, counter, givenUp, faults, later, crossed, hidden>>

(* A bug: the next attempt does not wait for the one before to fail. *)
Hedges(c) == call[c].pc \in {"delay", "waiting"} /\ call[c].try <= call[c].req.retries

MayRetry(c) == call[c].pc = "delay"

Retry(c) ==
  /\ MayRetry(c)
  /\ Attempt(c, call[c], call[c].try + 1)
  /\ UNCHANGED <<slot, givenUp, faults, later, crossed, hidden>>

(* The slot gets back what it was when the call began. *)
Return(c) ==
  LET rec == call[c]
      outcome == CASE rec.pc = "answered" -> "result"
                   [] rec.pc = "no context" -> "error"
                   [] OTHER -> IF rec.req.fallback THEN "fallback" ELSE "error"
  IN /\ \/ rec.pc \in {"answered", "no context"}
        \/ rec.pc = "failed" /\ rec.try > rec.req.retries
     /\ call' = [call EXCEPT ![c].pc = "ended", ![c].outcome = outcome]
     /\ slot' = rec.previous
     /\ later' = [b \in Calls |-> IF b = c THEN {} ELSE later[b] \ {c}]
     /\ crossed' = IF later[c] = {} THEN crossed ELSE crossed \cup {b \in Calls : InFlight(b)}
     /\ UNCHANGED <<running, peers, counter, givenUp, hidden, faults>>
-----------------------------------------------------------------------------
Awaited(e) == call[e.call].pc = "waiting" /\ call[e.call].try = e.try
Attempted(e) == <<e.call, e.try>>
Settle(e, pc) == call' = IF Awaited(e) THEN [call EXCEPT ![e.call].pc = pc] ELSE call

(* A request arrives: it is refused without the right token. *)
Receive(e, authorized) ==
  /\ e.phase = "sent"
  /\ running' = (running \ {e}) \cup (IF authorized THEN {[e EXCEPT !.phase = "runs"]} ELSE {})
  /\ IF authorized THEN UNCHANGED call ELSE Settle(e, "failed")
  /\ UNCHANGED <<slot, peers, counter, givenUp, faults, later, crossed, hidden>>

Finish(e, fails) ==
  /\ e.phase = "runs"
  /\ running' = running \ {e}
  /\ Settle(e, IF fails THEN "failed" ELSE "answered")
  /\ UNCHANGED <<slot, peers, counter, givenUp, faults, later, crossed, hidden>>

(* Timers: that of withTimeout, and the one that aborts the request.       *)
Timeout(c) ==
  /\ call[c].pc = "waiting" /\ call[c].req.timed
  /\ call' = [call EXCEPT ![c].pc = "failed"]
  /\ givenUp' = givenUp \cup {<<c, call[c].try>>}
  /\ UNCHANGED <<slot, running, peers, counter, faults, later, crossed, hidden>>

(* A request that was aborted, or whose connection breaks, may have left;  *)
(* it is received, or not.                                                 *)
Break(e) ==
  /\ e.at # Local /\ faults < MaxFaults
  /\ faults' = faults + 1
  /\ Settle(e, "failed")
  /\ givenUp' = givenUp \cup {Attempted(e)}
  /\ \/ UNCHANGED running
     \/ e.phase = "sent" /\ running' = running \ {e}
  /\ UNCHANGED <<slot, peers, counter, later, crossed, hidden>>

(* Discovery changes the cache meanwhile (MeshRegistry). *)
PeerChanges(p) == \E state \in {"fresh", "old", None} \ {peers[p]} :
  /\ faults < MaxFaults /\ faults' = faults + 1
  /\ peers' = [peers EXCEPT ![p] = state]
  /\ UNCHANGED <<slot, call, running, counter, givenUp, later, crossed, hidden>>

Next ==
  \/ \E c \in Calls : \/ \E req \in Requests, waits \in Waits : Call(c, req, waits)
                      \/ CallNext(c) \/ Delay(c) \/ Retry(c) \/ Return(c) \/ Timeout(c)
  \/ \E e \in running : \/ \E b \in BOOLEAN : Receive(e, b) \/ Finish(e, b)
                        \/ Break(e)
  \/ \E p \in Peers : PeerChanges(p)

Spec == Init /\ [][Next]_vars
-----------------------------------------------------------------------------
(* An action runs in the context of the call that asked for it, also when  *)
(* a middleware waits and other calls take the slot meanwhile: as long as  *)
(* those have ended, each before the one that it began in, when the        *)
(* middleware calls the next one (ctxSlot in createCallDispatcher).        *)
OwnContext ==
  /\ \A e \in running : e.ctx = e.call \/ e.call \in crossed \cup hidden
  /\ \A c \in Calls : call[c].pc = "no context" => c \in crossed \cup hidden

(* A call has one execution at a time, and none once it has its answer,    *)
(* but for attempts that it gave up: after a timeout or a broken           *)
(* connection an action runs on, beside its retry and after the call.      *)
OneAtATime == \A e \in running : Awaited(e) \/ Attempted(e) \in givenUp

(* The dispatcher is never without a context, as the error in currentCtx   *)
(* has it.  A middleware that waits before it calls the next finds none    *)
(* when a call that began earlier has ended meanwhile.                     *)
ActiveContext == \A c \in Calls : call[c].pc # "no context"
=============================================================================
