------------------------------ MODULE EngineTx ------------------------------
(***************************************************************************)
(* The transaction of an engine: transactionDepth and the event buffers of *)
(* ChimpbaseEngine, transactionClient of its Postgres adapter, and what    *)
(* runs on one engine at one time.  The host lets operations follow each   *)
(* other (runEngineOperation).  The callback of the event bus opens its    *)
(* transactions beside them, and lifecycle hooks and the sync of the cron  *)
(* registry send statements and publish without one.                       *)
(*                                                                         *)
(* A task is one such activity, seen once.  What it does between two       *)
(* awaits is one step.  A statement takes effect where it is awaited.      *)
(* beginTransaction does not fail.                                         *)
(***************************************************************************)
EXTENDS Integers, FiniteSets, SequencesExt

CONSTANTS
  Ops,       \* operations of the host: actions, routes, drained jobs
  Handlers,  \* subscription handlers run by the callback of the event bus
  Callbacks, \* "serial" (the polling bus) or "concurrent" (the listening one)
  Plain,     \* activities without a transaction
  Mixes,     \* the activities that there may be at one time
  Clients,   \* connections of the pool
  None       \* no connection: statements go to the pool and commit at once

Tasks == Ops \cup Handlers \cup Plain

EngineAssumption ==
  /\ Ops \cap Handlers = {} /\ (Ops \cup Handlers) \cap Plain = {}
  /\ Mixes \subseteq SUBSET Tasks /\ None \notin Clients /\ Callbacks \in {"serial", "concurrent"}

VARIABLES
  present,    \* the activities that there are
  depth,      \* transactionDepth
  client,     \* transactionClient
  inUse,      \* connections that are not in the pool
  open,       \* connections with a transaction, and what it has written
  writes,     \* committed writes
  events,     \* committed rows of _chimpbase_events
  pending,    \* pendingEvents
  committed,  \* committedEvents
  announced,  \* events that eventBus.publish was given
  task        \* where a task is, and what failed once its handler had returned

vars == <<present, depth, client, inUse, open, writes, events, pending, committed, announced, task>>
buffers == <<pending, committed, announced>>

NoTx == [open |-> FALSE, writes |-> {}, events |-> {}]

Init ==
  /\ present \in Mixes
  /\ depth = 0 /\ client = None /\ inUse = {}
  /\ open = [c \in Clients |-> NoTx]
  /\ writes = {} /\ events = {}
  /\ pending = <<>> /\ committed = <<>> /\ announced = {}
  /\ task = [t \in Tasks |-> [at |-> "ready", root |-> FALSE, conn |-> None, next |-> 1, cut |-> "no"]]

Ended == {"done", "failed"}
At(t, places) == task[t].at \in places
Goes(t, place) == task' = [task EXCEPT ![t].at = place]
Less(d, n) == IF d > n THEN d - n ELSE 0

(* A statement on a connection with a transaction belongs to it. *)
Send(c, ws, es) ==
  IF c # None /\ open[c].open
  THEN /\ open' = [open EXCEPT ![c].writes = @ \cup ws, ![c].events = @ \cup es]
       /\ UNCHANGED <<writes, events>>
  ELSE /\ writes' = writes \cup ws /\ events' = events \cup es
       /\ UNCHANGED open
-----------------------------------------------------------------------------
Waits(t) ==
  LET line == IF t \in Ops THEN Ops ELSE IF Callbacks = "serial" THEN Handlers ELSE {} IN
  \E u \in line \ {t} : ~At(u, Ended \cup {"ready"})

(* runInTransaction: at depth 0 it is the root, and begins a transaction   *)
(* unless the adapter has one.                                             *)
Enter(t) ==
  /\ t \in present \ Plain /\ At(t, {"ready"}) /\ ~Waits(t)
  /\ task' = [task EXCEPT
       ![t].root = depth = 0,
       ![t].at = IF depth # 0 THEN "in" ELSE IF client # None THEN "begun" ELSE "connecting"]
  /\ depth' = IF depth = 0 THEN 0 ELSE depth + 1
  /\ UNCHANGED <<present, client, inUse, open, writes, events, buffers>>

(* beginTransaction gets its connection and sends BEGIN. *)
Connect(t) ==
  /\ At(t, {"connecting"})
  /\ \E c \in Clients \ inUse :
       /\ client' = c /\ inUse' = inUse \cup {c}
       /\ open' = [open EXCEPT ![c] = [NoTx EXCEPT !.open = TRUE]]
  /\ Goes(t, "begun")
  /\ UNCHANGED <<present, depth, writes, events, buffers>>

Begun(t) ==
  /\ At(t, {"begun"})
  /\ depth' = depth + 1 /\ Goes(t, "in")
  /\ UNCHANGED <<present, client, inUse, open, writes, events, buffers>>

Write(t) ==
  /\ At(t, {"in"})
  /\ Send(client, {<<t, "own">>}, {}) /\ Goes(t, "wrote")
  /\ UNCHANGED <<present, depth, client, inUse, buffers>>

(* ctx.action: its transaction is that of the caller. *)
Inner(t) ==
  /\ t \in Ops /\ At(t, {"in"})
  /\ depth' = depth + 1
  /\ Send(client, {<<t, "inner">>}, {}) /\ Goes(t, "inner")
  /\ UNCHANGED <<present, client, inUse, buffers>>

(* It returns, or it throws and the caller goes on. *)
InnerEnds(t) ==
  /\ At(t, {"inner"})
  /\ depth' = Less(depth, 1) /\ Send(client, {<<t, "own">>}, {}) /\ Goes(t, "wrote")
  /\ UNCHANGED <<present, client, inUse, buffers>>

(* pubsub.publish *)
Publish(t) ==
  /\ At(t, {"wrote"}) /\ Goes(t, IF t \in Plain THEN "done" ELSE "told")
  /\ IF depth > 0 THEN pending' = Append(pending, t) /\ UNCHANGED committed
                  ELSE committed' = Append(committed, t) /\ UNCHANGED pending
  /\ UNCHANGED <<present, depth, client, inUse, open, writes, events, announced>>

(* The handler has returned; persistEvents is given queryable(). *)
Return(t) ==
  /\ At(t, {"told"})
  /\ depth' = depth - 1
  /\ task' = [task EXCEPT ![t].at = IF task[t].root THEN "persisting" ELSE "done", ![t].conn = client]
  /\ UNCHANGED <<present, client, inUse, open, writes, events, buffers>>
-----------------------------------------------------------------------------
(* persistEvents iterates over pendingEvents itself. *)
Persist(t) ==
  /\ At(t, {"persisting"}) /\ task[t].next <= Len(pending)
  /\ Send(task[t].conn, {}, {pending[task[t].next]})
  /\ task' = [task EXCEPT ![t].next = @ + 1]
  /\ UNCHANGED <<present, depth, client, inUse, buffers>>

Persisted(t) == task[t].next > Len(pending)

Commit(t) ==
  /\ At(t, {"persisting"}) /\ Persisted(t)
  /\ IF client # None /\ open[client].open
     THEN /\ writes' = writes \cup open[client].writes
          /\ events' = events \cup open[client].events
          /\ open' = [open EXCEPT ![client] = NoTx]
     ELSE UNCHANGED <<writes, events, open>>
  /\ Goes(t, IF client = None THEN "settling" ELSE "committed")
  /\ UNCHANGED <<present, depth, client, inUse, buffers>>

(* transactionClient.release(), of the connection that it is by now. *)
Released ==
  /\ inUse' = inUse \ {client} /\ client' = None

(* The commit is known: the connection goes back to the pool, what is in   *)
(* pendingEvents counts as committed and is announced.                     *)
Settle(t) ==
  /\ At(t, {"settling", "committed"}) /\ ~(At(t, {"committed"}) /\ client = None)
  /\ IF At(t, {"committed"}) THEN Released ELSE UNCHANGED <<client, inUse>>
  /\ committed' = committed \o pending
  /\ announced' = announced \cup ToSet(pending)
  /\ pending' = <<>>
  /\ Goes(t, "publishing")
  /\ UNCHANGED <<present, depth, open, writes, events>>

(* The catch, after the try has counted the depth down: an INSERT or the   *)
(* COMMIT is refused, the answer to the COMMIT is lost, or the bus cannot  *)
(* publish.  It counts again, and rolls back whoever has the connection.   *)
Rejects(t) ==
  /\ \/ At(t, {"persisting"}) /\ (Persisted(t) => client # None)
     \/ At(t, {"committed"}) /\ client # None
     \/ At(t, {"publishing"})
  /\ depth' = Less(depth, 1) /\ pending' = <<>>
  /\ open' = [c \in Clients |-> IF c = client THEN NoTx ELSE open[c]]
  /\ task' = [task EXCEPT ![t].at = IF client = None THEN "failed" ELSE "rolledback", ![t].cut = task[t].at]
  /\ UNCHANGED <<present, client, inUse, writes, events, committed, announced>>

(* transactionClient is null by now, and release() throws. *)
SettleThrows(t) ==
  /\ At(t, {"committed"}) /\ client = None
  /\ depth' = Less(depth, 1) /\ pending' = <<>> /\ Goes(t, "failed")
  /\ UNCHANGED <<present, client, inUse, open, writes, events, committed, announced>>

(* An operation takes committedEvents to dispatch them. *)
Finish(t) ==
  /\ At(t, {"publishing"}) /\ Goes(t, "done")
  /\ committed' = IF t \in Ops THEN <<>> ELSE committed
  /\ UNCHANGED <<present, depth, client, inUse, open, writes, events, pending, announced>>

(* Mutant of Dropped: a rollback keeps the events for the next commit. *)
DroppedNot(t) == pending
Dropped(t) == IF task[t].root THEN <<>> ELSE pending

(* The handler throws, or the action it calls does and it does not catch.  *)
Throw(t) ==
  /\ At(t, {"in", "wrote", "told", "inner"}) /\ t \notin Plain
  /\ depth' = Less(depth, IF At(t, {"inner"}) THEN 2 ELSE 1)
  /\ pending' = Dropped(t)
  /\ IF task[t].root /\ client # None
     THEN /\ open' = [open EXCEPT ![client] = NoTx]
          /\ Goes(t, "rolledback")
     ELSE Goes(t, "failed") /\ UNCHANGED open
  /\ UNCHANGED <<present, client, inUse, writes, events, committed, announced>>

RolledBack(t) ==
  /\ At(t, {"rolledback"}) /\ Goes(t, "failed")
  /\ Released
  /\ UNCHANGED <<present, depth, open, writes, events, buffers>>

(* A statement of a lifecycle hook or of syncRegisteredCrons. *)
Statement(t) ==
  /\ t \in present \cap Plain /\ At(t, {"ready"})
  /\ Send(client, {<<t, "own">>}, {}) /\ Goes(t, "wrote")
  /\ UNCHANGED <<present, depth, client, inUse, buffers>>

Begin(t) == Enter(t) \/ Connect(t) \/ Begun(t)
Body(t) == Write(t) \/ Inner(t) \/ InnerEnds(t) \/ Publish(t) \/ Return(t) \/ Throw(t)
End(t) == Persist(t) \/ Commit(t) \/ Settle(t) \/ SettleThrows(t) \/ Rejects(t) \/ Finish(t) \/ RolledBack(t)

Next == \E t \in Tasks : Begin(t) \/ Body(t) \/ End(t) \/ Statement(t)

Spec == Init /\ [][Next]_vars
-----------------------------------------------------------------------------
OfTask(t) == {t} \X {"own", "inner"}
Alone == \A t \in Handlers : At(t, {"ready"})
Quiet == \A t \in Tasks : At(t, Ended \cup {"ready"})

Cut(t, places) == task[t].cut \in places

(* As long as no callback runs beside it an operation that returns has its *)
(* writes in the database, and one that throws has none, the writes of the *)
(* actions it called included, unless it throws because the answer to its  *)
(* COMMIT is lost or the bus cannot publish, when it has them all.  Its    *)
(* event is persisted with its writes or not at all, no other is           *)
(* announced, and it leaves every connection in the pool, no event for the *)
(* next commit, and no depth, however often that is counted down           *)
(* (runInTransaction, engine.ts:2219; commitTransaction,                   *)
(* postgres/src/index.ts:549).                                             *)
OperationsAreAtomic ==
  Alone =>
    /\ \A t \in Ops : /\ At(t, {"done"}) => <<t, "own">> \in writes
                      /\ At(t, {"failed"}) => IF Cut(t, {"committed", "publishing"})
                                             THEN <<t, "own">> \in writes
                                             ELSE OfTask(t) \cap writes = {}
                      /\ (t \in events) = (<<t, "own">> \in writes)
    /\ announced \subseteq events
    /\ Quiet => depth = 0 /\ client = None /\ inUse = {} /\ pending = <<>>

(* Whatever ran beside what, when nothing runs no transaction counts as    *)
(* open, if every commit and every publish was answered.                   *)
AllOrNothing ==
  /\ OperationsAreAtomic
  /\ Quiet /\ (\A t \in Tasks : Cut(t, {"no"})) => depth = 0

(* "Notify the bus that new events were committed" (core/event-bus.ts:9):  *)
(* no other events are announced, even if callbacks run.                   *)
AnnouncedCommitted == announced \subseteq events
=============================================================================
