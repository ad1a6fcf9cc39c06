------------------------------ MODULE MCBasis ------------------------------
(***************************************************************************)
(* Small instances of what the rest stands on: the transactions of an      *)
(* engine, a database opened by SQLite adapters, the registry of the mesh, the *)
(* slots of cron expressions, and the registration of plugins.  In these   *)
(* models they share nothing, hence a behaviour is of one of them; the     *)
(* first state says which.                                                 *)
(***************************************************************************)
EXTENDS Integers, Sequences, TLC

CONSTANTS
  None,
  a1, a2,                          \* two that may be swapped: callbacks, queues
  o1, o2, o3, q1, c1, c2,          \* operations, statements and connections of an engine
  DayLength,
  n1, n2, Unknown,                 \* nodes
  MaxSlots, Error,                 \* cron expressions
  x1, x2, MaxCalls                 \* names of plugins

VARIABLES part,
  present, depth, client, inUse, open, writes, events, pending, committed, announced, task,
  runtime, conn, path, now, area, asked, given, promised, reader,
  mesh, at, due, row, cache, listed, tx, joined, mail, left, gone,
  expr, from, slot, count,
  graph, actions, hooks, calls, result

(* Operations beside statements, an operation beside a callback, and       *)
(* callbacks that follow one another.                                      *)
Engine == INSTANCE EngineTx WITH
  Ops <- {o1, o2, o3}, Handlers <- {a1, a2}, Plain <- {q1}, Clients <- {c1, c2},
  Mixes <- {{o1, o2, o3, q1}, {o1, a1}, {o1, a2}, {a1, a2}}, Callbacks <- "serial"
ASSUME Engine!EngineAssumption

Sqlite == INSTANCE SqliteAdapters WITH
  Queues <- {a1, a2}, Crons <- {1, 2}, KvKeys <- {<<3>>, <<1, 3>>}, Prefixes <- {<<>>, <<3>>, <<3, 0>>},
  Streams <- {"logs", "app"}, Telemetry <- {"logs"}, Ids <- {1, 2},
  Objects <- {<<1>>, <<3>>, <<3, 0, 1>>, <<3, 0, 3>>}, Times <- 0 .. 3, calls <- asked,
  MaxCalls <- [a \in {"queue", "cron", "keys", "streams"} |-> 4] @@ [a \in {"uploads", "objects"} |-> 3]

(* A node that lasts watches another, which may be late and fail; and two  *)
(* nodes that are on time.                                                 *)
Watch == [lasting |-> {n1}, watching |-> {n1}, watched |-> {n2}, busy |-> {n2}, mayFail |-> TRUE, punctual |-> FALSE]
Healthy == [lasting |-> {}, watching |-> {n1}, watched |-> {n1, n2}, busy |-> {n1, n2}, mayFail |-> FALSE, punctual |-> TRUE]
Mesh == INSTANCE MeshRegistry WITH
  Nodes <- {n1, n2}, HeartbeatMs <- 1, OfflineAfter <- 1, GcAfter <- 1, MaxDelay <- 1, Meshes <- {Watch, Healthy}
ASSUME Mesh!MeshAssumption

T(base, step) == [base |-> base, step |-> step]
Whole == {T(<<>>, 1)}
One(v) == {T(<<v, v>>, 1)}
Every(n) == {T(<<>>, n)}
Fields(minute, hour, dom, month, dow) ==
  [minute |-> minute, hour |-> hour, dayOfMonth |-> dom, month |-> month, dayOfWeek |-> dow]

(* Minutes of UTC, from 1 March 2000. *)
Date(days, hour, minute) == (days * 24 + hour) * 60 + minute
NewYearsEve2023 == Date(8705, 23, 59)
LeapFebruary2024 == Date(8764, 23, 58)
February2100 == Date(36523, 23, 59)
March2096 == Date(35064, 0, 0)
Friday13June2025 == Date(9235, 3, 0)
Cal == INSTANCE CronExpressions WITH
  Expressions <- {
    Fields(Every(15), Whole, Whole, Whole, Whole), Fields({T(<<5, 59>>, 20)}, {T(<<1, 23>>, 7)}, Whole, Whole, Whole),
    Fields(One(59), One(23), One(31), Whole, Whole), Fields(One(0), One(0), One(29), One(2), Whole),
    Fields(One(0), One(0), One(30), One(2), Whole), Fields(One(30), One(9), Whole, Whole, {T(<<1, 5>>, 1)}),
    Fields(One(0), One(3), One(13), Whole, One(5)), Fields(One(0), One(3), Every(10), Whole, One(7)),
    Fields(One(0), {T(<<0, 23>>, 1)}, Whole \cup One(3), Whole, {T(<<0, 7>>, 3)}),
    Fields(One(60), Whole, Whole, Whole, Whole), Fields(Whole, {T(<<9, 5>>, 1)}, Whole, Whole, Whole), Fields(Every(0), Whole, Whole, Whole, Whole) },
  Starts <- {NewYearsEve2023, LeapFebruary2024, February2100, March2096, Friday13June2025}

(* Three plugins, each with a dependency and a plugin inside at most.  The *)
(* action of the second may have no name, or get one from a key, and       *)
(* beside it may stand what is no entry.                                   *)
Plugin(p, key) == [kind |-> "plugin", of |-> p, key |-> key]
Entry(p, key) == [kind |-> "entry", of |-> p, key |-> key]
NoEntry == [kind |-> "invalid", of |-> None, key |-> None]
Inside(p) == {<<>>} \cup {<<Plugin(q, None)>> : q \in 1 .. p - 1}
Needed(p) == Inside(p) \cup {<<[kind |-> "name", of |-> n, key |-> None]>> : n \in {x1, x2}}
Made(p, names, unnamed, own) ==
  {[name |-> n, unnamed |-> u, dependsOn |-> d, entries |-> o \o e] :
     n \in names, u \in unnamed, d \in Needed(p), o \in own, e \in Inside(p)}
Second == Made(2, {None, x1, x2}, {FALSE}, {<<Entry(2, None)>>}) \cup Made(2, {x2}, {TRUE}, {<<Entry(2, None)>>}) \cup
          {p \in Made(2, {x2}, {TRUE}, {<<Entry(2, x2)>>, <<Entry(2, None), NoEntry>>}) : p.dependsOn = <<>>}
Register == INSTANCE Registration WITH
  Graphs <- {<<a, b, c>> : a \in Made(1, {None, x1}, {FALSE}, {<<Entry(1, None)>>}), b \in Second,
                           c \in Made(3, {None}, {FALSE}, {<<Entry(3, None)>>})},
  Calls <- {<<Plugin(3, None)>>, <<Plugin(3, x2), Plugin(2, None)>>, <<Plugin(2, None), Plugin(3, x1)>>,
            <<Plugin(1, x1), Plugin(3, None)>>}

ofEngine == <<present, depth, client, inUse, open, writes, events, pending, committed, announced, task>>
ofSqlite == <<runtime, conn, path, now, area, asked, given, promised, reader>>
ofMesh == <<mesh, at, due, row, cache, listed, tx, joined, mail, left, gone>>
ofCal == <<expr, from, slot, count>>
ofRegister == <<graph, actions, hooks, calls, result>>

NoEngine ==
  /\ present = None /\ depth = None /\ client = None /\ inUse = None /\ open = None /\ writes = None
  /\ events = None /\ pending = None /\ committed = None /\ announced = None /\ task = None
NoSqlite ==
  /\ runtime = None /\ conn = None /\ path = None /\ now = None
  /\ area = None /\ asked = None /\ given = None /\ promised = None /\ reader = None
NoMesh ==
  /\ mesh = None /\ at = None /\ due = None /\ row = None /\ cache = None /\ listed = None
  /\ tx = None /\ joined = None /\ mail = None /\ left = None /\ gone = None
NoCal == expr = None /\ from = None /\ slot = None /\ count = None
NoRegister == graph = None /\ actions = None /\ hooks = None /\ calls = None /\ result = None

Init ==
  \/ part = "engine" /\ Engine!Init /\ NoSqlite /\ NoMesh /\ NoCal /\ NoRegister
  \/ part = "sqlite" /\ Sqlite!Init /\ NoEngine /\ NoMesh /\ NoCal /\ NoRegister
  \/ part = "mesh" /\ Mesh!Init /\ NoEngine /\ NoSqlite /\ NoCal /\ NoRegister
  \/ part = "cron" /\ Cal!Init /\ NoEngine /\ NoSqlite /\ NoMesh /\ NoRegister
  \/ part = "plugins" /\ Register!Init /\ NoEngine /\ NoSqlite /\ NoMesh /\ NoCal

Next ==
  /\ UNCHANGED part
  /\ \/ part = "engine" /\ Engine!Next /\ UNCHANGED <<ofSqlite, ofMesh, ofCal, ofRegister>>
     \/ part = "sqlite" /\ Sqlite!Next /\ UNCHANGED <<ofEngine, ofMesh, ofCal, ofRegister>>
     \/ part = "mesh" /\ Mesh!Next /\ UNCHANGED <<ofEngine, ofSqlite, ofCal, ofRegister>>
     \/ part = "cron" /\ Cal!Next /\ UNCHANGED <<ofEngine, ofSqlite, ofMesh, ofRegister>>
     \/ part = "plugins" /\ Register!Next /\ UNCHANGED <<ofEngine, ofSqlite, ofMesh, ofCal>>

Spec == Init /\ [][Next]_<<part, ofEngine, ofSqlite, ofMesh, ofCal, ofRegister>>
-----------------------------------------------------------------------------
(* An operation takes effect as a whole or not at all (runInTransaction).  *)
AllOrNothing == part = "engine" => Engine!AllOrNothing

(* What a claim was answered with is nobody else's (claims of SQLite).      *)
ClaimsHold == part = "sqlite" => Sqlite!ClaimsHold

(* A key lives to its time, and not past its day (kvGet of SQLite).        *)
KvHonest == part = "sqlite" => Sqlite!KvHonest

(* Streams are resumed and pages turned without a gap (SQLite).            *)
ReadersMissNothing == part = "sqlite" => Sqlite!ReadersMissNothing

(* Peers are alive or were lately, and the rows of those that beat stay    *)
(* (mesh registry).                                                        *)
PeersRecent == part = "mesh" => Mesh!PeersRecent

(* A schedule fires at the times that its expression means, at every one   *)
(* of them (computeNextCronFireTime).                                      *)
SlotsExact == part = "cron" => Cal!SlotsExact

(* Plugins are registered once, after what they depend on, or not at all   *)
(* (register).                                                             *)
DependenciesFirst == part = "plugins" => Register!DependenciesFirst

Symmetry == Permutations({a1, a2}) \cup Permutations({c1, c2})
=============================================================================
