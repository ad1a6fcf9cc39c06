---------------------------- MODULE MeshRegistry ----------------------------
(***************************************************************************)
(* Discovery in a mesh: the rows of _chimpbase_mesh_nodes, the peer cache  *)
(* of every node, and the announce, heartbeat and leave events between     *)
(* them.  A node is one run of a process; its id is made at its start.     *)
(*                                                                         *)
(* The hooks and the heartbeat timer of the plugin run outside any         *)
(* transaction.  What they write and publish joins the transaction of an   *)
(* operation if the node's engine has one open (see EngineTx).  Otherwise  *)
(* the writes are done, and an event goes to committedEvents without       *)
(* having been persisted or given to the event bus: only the node's own    *)
(* subscriptions get it, which ignore events of their own node.            *)
(*                                                                         *)
(* Time is the age of things, in ticks, up to Old.                         *)
(***************************************************************************)
EXTENDS Integers, FiniteSetsExt

CONSTANTS
  Nodes,
  HeartbeatMs,   \* ticks between heartbeats
  OfflineAfter,  \* offlineAfterMs
  GcAfter,       \* gcAfterMs
  MaxDelay,      \* bound: the ticks an operation or the delivery of an event takes
  Meshes,        \* what is assumed of the nodes
  Unknown        \* no row, no entry

Old == OfflineAfter + GcAfter + MaxDelay   \* this old, or older

(* The nodes that run for ever, once started; those whose caches are       *)
(* followed, those whose rows and heartbeats are, and those that run       *)
(* operations of their own; whether these roll back; whether timers fire   *)
(* when they are due and operations end before the next tick.              *)
Mesh == [lasting : SUBSET Nodes, watching : SUBSET Nodes, watched : SUBSET Nodes, busy : SUBSET Nodes,
         mayFail : BOOLEAN, punctual : BOOLEAN]

MeshAssumption ==
  /\ Meshes \subseteq Mesh /\ Unknown \notin Int
  /\ {HeartbeatMs, OfflineAfter, GcAfter} \subseteq Nat \ {0} /\ MaxDelay \in Nat

VARIABLES
  mesh,     \* what is assumed of the nodes
  at,       \* where a node is
  due,      \* ticks to its next heartbeat
  row,      \* age of the heartbeat in its row
  cache,    \* age of the heartbeat in the entry that a node has of another
  listed,   \* rows that a node has read at its start, by age
  tx,       \* nodes with a transaction open
  joined,   \* what belongs to that transaction: statements and events
  mail,     \* events on their way to a node
  left,     \* nodes that deregistered
  gone      \* age of a node's end

vars == <<mesh, at, due, row, cache, listed, tx, joined, mail, left, gone>>

Running(n) == at[n] \notin {"off", "ended"}
Beating(n) == at[n] \in {"up", "touched"}   \* the timer is set
Empty == [n \in Nodes |-> Unknown]
Older(a) == IF a = Unknown \/ a = Old THEN a ELSE a + 1

Init ==
  /\ mesh \in Meshes
  /\ at = [n \in Nodes |-> "off"]
  /\ due = [n \in Nodes |-> HeartbeatMs]
  /\ row = Empty
  /\ cache = [n \in Nodes |-> Empty] /\ listed = [n \in Nodes |-> Empty]
  /\ tx = {} /\ joined = [n \in Nodes |-> {}]
  /\ mail = [n \in Nodes |-> {}]
  /\ left = {}
  /\ gone = [n \in Nodes |-> 0]

Has(n, kind) == \E s \in joined[n] : s.kind = kind
Join(n, kind) == joined' = [joined EXCEPT ![n] = @ \cup {[kind |-> kind, age |-> 0]}]

(* upsertNode or touchHeartbeat: an UPDATE, which needs a row. *)
Query(n, kind) ==
  IF n \in tx THEN Join(n, kind) /\ UNCHANGED row
  ELSE /\ row' = [row EXCEPT ![n] = IF n \notin mesh.watched \/ (kind = "touch" /\ @ = Unknown) THEN @ ELSE 0]
       /\ UNCHANGED joined

PublishEvent(n, kind) == IF n \in tx THEN Join(n, kind) ELSE UNCHANGED joined
-----------------------------------------------------------------------------
(* The worker, the server and the event bus are on before the bootstrap hook. *)
Start(n) ==
  /\ at[n] = "off"
  /\ at' = [at EXCEPT ![n] = "starting"]
  /\ UNCHANGED <<mesh, due, row, cache, listed, tx, joined, mail, left, gone>>

Upsert(n) ==
  /\ at[n] = "starting"
  /\ at' = [at EXCEPT ![n] = "upserted"]
  /\ Query(n, "upsert")
  /\ UNCHANGED <<mesh, due, cache, listed, tx, mail, left, gone>>

Announce(n) ==
  /\ at[n] = "upserted"
  /\ at' = [at EXCEPT ![n] = "announced"]
  /\ PublishEvent(n, "announce")
  /\ UNCHANGED <<mesh, due, row, cache, listed, tx, mail, left, gone>>

Live(a) == a # Unknown /\ a <= OfflineAfter

ListLiveNodes(n) ==
  /\ at[n] = "announced"
  /\ at' = [at EXCEPT ![n] = "listed"]
  /\ listed' = [listed EXCEPT ![n] = [m \in Nodes |-> IF m # n /\ n \in mesh.watching /\ Live(row[m]) THEN row[m] ELSE Unknown]]
  /\ UNCHANGED <<mesh, due, row, cache, tx, joined, mail, left, gone>>

(* The cache takes the rows over what it has heard by now. *)
Seed(n) ==
  /\ at[n] = "listed"
  /\ at' = [at EXCEPT ![n] = "up"]
  /\ cache' = [cache EXCEPT ![n] = [m \in Nodes |-> IF listed[n][m] = Unknown THEN @[m] ELSE listed[n][m]]]
  /\ listed' = [listed EXCEPT ![n] = Empty]
  /\ due' = [due EXCEPT ![n] = HeartbeatMs]
  /\ UNCHANGED <<mesh, row, tx, joined, mail, left, gone>>

(* emitHeartbeat: touchHeartbeat, and its event after that. *)
Touch(n) ==
  /\ at[n] = "up" /\ due[n] = 0 /\ n \in mesh.watched
  /\ at' = [at EXCEPT ![n] = "touched"]
  /\ due' = [due EXCEPT ![n] = HeartbeatMs]
  /\ Query(n, "touch")
  /\ UNCHANGED <<mesh, cache, listed, tx, mail, left, gone>>

EmitHeartbeat(n) ==
  /\ at[n] = "touched"
  /\ at' = [at EXCEPT ![n] = "up"]
  /\ PublishEvent(n, "heartbeat")
  /\ UNCHANGED <<mesh, due, row, cache, listed, tx, mail, left, gone>>
-----------------------------------------------------------------------------
(* An operation of the node, such as the action that deregisters it; it    *)
(* does so once, when it is registered.                                    *)
OpBegins(n) ==
  /\ n \in mesh.busy /\ Running(n) /\ n \notin tx
  /\ tx' = tx \cup {n}
  /\ UNCHANGED <<mesh, at, due, row, cache, listed, joined, mail, left, gone>>

Deregister(n) ==
  /\ n \in tx /\ n \notin left /\ at[n] # "starting"
  /\ left' = left \cup {n}
  /\ joined' = [joined EXCEPT ![n] = @ \cup {[kind |-> k, age |-> 0] : k \in {"delete", "leave"}}]
  /\ UNCHANGED <<mesh, at, due, row, cache, listed, tx, mail, gone>>

Beats(n) == {s.age : s \in {s \in joined[n] : s.kind \in {"upsert", "touch"}}}
RowAfter(n) ==
  IF Has(n, "delete") THEN Unknown
  ELSE IF Beats(n) = {} \/ (row[n] = Unknown /\ ~Has(n, "upsert")) THEN row[n]
  ELSE Min(Beats(n))

Letters(n) == {[kind |-> e.kind, of |-> n, age |-> e.age, sent |-> 0] :
                 e \in {e \in joined[n] : e.kind \in {"announce", "heartbeat", "leave"}}}

(* The event bus brings committed events to the other nodes. *)
OpCommits(n) ==
  /\ n \in tx
  /\ tx' = tx \ {n}
  /\ row' = [row EXCEPT ![n] = RowAfter(n)]
  /\ mail' = [m \in Nodes |-> mail[m] \cup IF m # n /\ Running(m) /\ m \in mesh.watching THEN Letters(n) ELSE {}]
  /\ joined' = [joined EXCEPT ![n] = {}]
  /\ UNCHANGED <<mesh, at, due, cache, listed, left, gone>>

OpFails(n) ==
  /\ n \in tx /\ mesh.mayFail
  /\ tx' = tx \ {n}
  /\ joined' = [joined EXCEPT ![n] = {}]
  /\ left' = IF Has(n, "leave") THEN left \ {n} ELSE left
  /\ UNCHANGED <<mesh, at, due, row, cache, listed, mail, gone>>

(* The subscriptions of the plugin. *)
Receive(m) ==
  /\ Running(m)
  /\ \E e \in mail[m] :
       /\ mail' = [mail EXCEPT ![m] = @ \ {e}]
       /\ cache' = [cache EXCEPT ![m][e.of] =
            CASE e.kind = "announce" -> 0
              [] e.kind = "leave" -> Unknown
              [] e.kind = "heartbeat" -> IF @ = Unknown THEN @ ELSE e.age]
  /\ UNCHANGED <<mesh, at, due, row, listed, tx, joined, left, gone>>

(* MeshPeerCache.all forgets what is too old; peers() and call() use it.   *)
All(m) ==
  /\ Running(m)
  /\ cache' = [cache EXCEPT ![m] = [n \in Nodes |-> IF Live(@[n]) THEN @[n] ELSE Unknown]]
  /\ UNCHANGED <<mesh, at, due, row, listed, tx, joined, mail, left, gone>>

(* Mutant of Stale: every row that is not of this moment is deleted. *)
StaleSoon(a) == a > 0
Stale(a) == a > GcAfter

(* The cron job "__chimpbase.mesh.gc", by a worker of some node. *)
GcStaleNodes(m) ==
  /\ Running(m)
  /\ row' = [n \in Nodes |-> IF row[n] # Unknown /\ Stale(row[n]) THEN Unknown ELSE row[n]]
  /\ UNCHANGED <<mesh, at, due, cache, listed, tx, joined, mail, left, gone>>

(* The process crashes or stops.  The shutdown hook clears the timer, and  *)
(* no more.                                                                *)
End(n) ==
  /\ Running(n) /\ n \notin mesh.lasting
  /\ at' = [at EXCEPT ![n] = "ended"]
  /\ tx' = tx \ {n}
  /\ joined' = [joined EXCEPT ![n] = {}] /\ mail' = [mail EXCEPT ![n] = {}]
  /\ cache' = [cache EXCEPT ![n] = Empty] /\ listed' = [listed EXCEPT ![n] = Empty]
  /\ due' = [due EXCEPT ![n] = HeartbeatMs] /\ left' = left \ {n}
  /\ UNCHANGED <<mesh, row, gone>>

Tick ==
  /\ \A m \in Nodes : (\A e \in mail[m] : e.sent < MaxDelay) /\ (\A s \in joined[m] : s.age < MaxDelay)
  /\ mesh.punctual => tx = {} /\ \A n \in Nodes : Running(n) => at[n] = "up" /\ due[n] > 0
  /\ due' = [n \in Nodes |-> IF due[n] = 0 \/ ~Beating(n) THEN due[n] ELSE due[n] - 1]
  /\ row' = [n \in Nodes |-> Older(row[n])]
  /\ cache' = [m \in Nodes |-> [n \in Nodes |-> Older(cache[m][n])]]
  /\ listed' = [m \in Nodes |-> [n \in Nodes |-> Older(listed[m][n])]]
  /\ joined' = [n \in Nodes |-> {[s EXCEPT !.age = Older(@)] : s \in joined[n]}]
  /\ mail' = [m \in Nodes |-> {[e EXCEPT !.age = Older(@), !.sent = @ + 1] : e \in mail[m]}]
  /\ gone' = [n \in Nodes |-> IF Running(n) \/ at[n] = "off" THEN 0 ELSE Older(gone[n])]
  /\ UNCHANGED <<mesh, at, tx, left>>

Boot(n) == Start(n) \/ Upsert(n) \/ Announce(n) \/ ListLiveNodes(n) \/ Seed(n)
Heartbeat(n) == Touch(n) \/ EmitHeartbeat(n)
Operation(n) == OpBegins(n) \/ Deregister(n) \/ OpCommits(n) \/ OpFails(n)

Next ==
  \/ \E n \in Nodes : Boot(n) \/ Heartbeat(n) \/ Operation(n) \/ Receive(n) \/ All(n) \/ GcStaleNodes(n) \/ End(n)
  \/ Tick

Spec == Init /\ [][Next]_vars
-----------------------------------------------------------------------------
Peers(m) == {n \in Nodes : Live(cache[m][n])}

(* "Peers with no heartbeat within this window are treated as offline"     *)
(* (docs/mesh.md:76): whatever is late, out of order or seeded from old    *)
(* rows, a node that has ended is not taken for a peer for longer.  And    *)
(* the sweep takes no row of a node that beats in time and whose           *)
(* operations commit, since touching a heartbeat does not bring the row    *)
(* back (gcStaleNodes, touchHeartbeat).                                    *)
PeersRecent ==
  /\ \A m \in mesh.watching, n \in Nodes : Running(m) /\ n \in Peers(m) => gone[n] <= OfflineAfter + MaxDelay
  /\ mesh.punctual /\ ~mesh.mayFail =>
       \A n \in mesh.watched : Running(n) /\ at[n] # "starting" /\ n \notin left \cup tx => row[n] # Unknown
=============================================================================
