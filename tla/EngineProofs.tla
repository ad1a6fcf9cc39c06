---------------------------- MODULE EngineProofs ----------------------------
(***************************************************************************)
(* Theorems about EngineTx: the depth of the transaction counts what is    *)
(* inside it, and an operation beside which no callback runs takes effect  *)
(* as a whole or not at all.  Theorems about Blobs, for any engines, keys, *)
(* uploads and ways of using the store: what a row tells of an object is   *)
(* what its file holds.                                                    *)
(***************************************************************************)
EXTENDS EngineTx, FiniteSetTheorems, TLAPS

CONSTANTS Keys, Uploads, PartNumbers, Bodies, Torn, Stores, MaxFaults
VARIABLES store, row, upload, part, file, data, clean, ops, faults

Blob == INSTANCE Blobs

Places == {"ready", "connecting", "begun", "in", "inner", "wrote", "told", "persisting", "committed",
           "settling", "publishing", "rolledback", "done", "failed"}
Effects == Tasks \X {"own", "inner"}
Transactions == [open : BOOLEAN, writes : SUBSET Effects, events : SUBSET Tasks]
TaskStates == [at : Places, root : BOOLEAN, conn : Clients \cup {None}, next : Nat \ {0},
               cut : {"no", "persisting", "committed", "publishing"}]

(* The type invariant. *)
TypeOK ==
  /\ present \subseteq Tasks
  /\ depth \in Int
  /\ client \in Clients \cup {None}
  /\ inUse \subseteq Clients
  /\ open \in [Clients -> Transactions]
  /\ writes \subseteq Effects /\ events \subseteq Tasks
  /\ pending \in Seq(Tasks) /\ committed \in Seq(Tasks) /\ announced \subseteq Tasks
  /\ task \in [Tasks -> TaskStates]

(***************************************************************************)
(* Who may run beside whom: the operations of a host follow each other,    *)
(* the callbacks of a polling bus do, and only operations call actions.    *)
(***************************************************************************)
Idle(t) == At(t, Ended \cup {"ready"})
OneOperation == \A t, u \in Ops : t # u => Idle(t) \/ Idle(u)
OneCallback == Callbacks = "serial" => \A t, u \in Handlers : t # u => Idle(t) \/ Idle(u)
OnlyOpsNest == \A t \in Handlers : ~At(t, {"inner"})
PlainIsBrief == \A t \in Plain : At(t, {"ready", "wrote", "done"})

Order == TypeOK /\ OneOperation /\ OneCallback /\ OnlyOpsNest /\ PlainIsBrief

Step(t) == Begin(t) \/ Body(t) \/ End(t) \/ Statement(t)
-----------------------------------------------------------------------------
LEMMA NoTxType == NoTx \in Transactions
BY DEF NoTx, Transactions

LEMMA Moved ==
  ASSUME TypeOK, NEW t \in Tasks, NEW p \in Places, Goes(t, p)
  PROVE  /\ task' \in [Tasks -> TaskStates]
         /\ task'[t].at = p /\ task'[t].root = task[t].root
         /\ task'[t].conn = task[t].conn /\ task'[t].next = task[t].next
         /\ task'[t].cut = task[t].cut
         /\ \A u \in Tasks : u # t => task'[u] = task[u]
BY DEF TypeOK, Goes, TaskStates

LEMMA SetOfSeq ==
  ASSUME NEW s \in Seq(Tasks)
  PROVE  /\ ToSet(s) \subseteq Tasks
         /\ \A i \in 1 .. Len(s) : s[i] \in ToSet(s)
         /\ \A x \in ToSet(s) : \E i \in 1 .. Len(s) : s[i] = x
         /\ \A x \in Tasks : ToSet(Append(s, x)) = ToSet(s) \cup {x}
         /\ (ToSet(s) = {} <=> s = <<>>)
<1>1. \A x \in ToSet(s) : \E i \in 1 .. Len(s) : s[i] = x
  BY DEF ToSet
<1>2. \A i \in 1 .. Len(s) : s[i] \in ToSet(s)
  BY DEF ToSet
<1>3. ASSUME NEW x \in Tasks PROVE ToSet(Append(s, x)) = ToSet(s) \cup {x}
  <2>1. /\ Append(s, x) \in Seq(Tasks) /\ Len(Append(s, x)) = Len(s) + 1
        /\ \A i \in 1 .. Len(s) : Append(s, x)[i] = s[i]
        /\ Append(s, x)[Len(s) + 1] = x
    OBVIOUS
  <2>2. ToSet(Append(s, x)) \subseteq ToSet(s) \cup {x}
    BY <2>1 DEF ToSet
  <2>3. ToSet(s) \cup {x} \subseteq ToSet(Append(s, x))
    BY <2>1 DEF ToSet
  <2> QED BY <2>2, <2>3
<1>4. ToSet(s) = {} <=> s = <<>>
  <2>1. s = <<>> => ToSet(s) = {}
    BY <1>1
  <2>2. s # <<>> => 1 \in 1 .. Len(s)
    OBVIOUS
  <2> QED BY <2>1, <2>2, <1>2
<1>5. ToSet(s) \subseteq Tasks
  BY <1>1
<1> QED BY <1>1, <1>2, <1>3, <1>4, <1>5

(* A statement adds to the database or to the open transaction. *)
LEMMA SendType ==
  ASSUME TypeOK, NEW c \in Clients \cup {None}, NEW ws \in SUBSET Effects, NEW es \in SUBSET Tasks,
         Send(c, ws, es)
  PROVE  open' \in [Clients -> Transactions] /\ writes' \subseteq Effects /\ events' \subseteq Tasks
BY DEF TypeOK, Send, Transactions

LEMMA OrderInit == EngineAssumption /\ Init => Order
<1> SUFFICES ASSUME EngineAssumption, Init PROVE Order
  OBVIOUS
<1>1. present \subseteq Tasks
  BY DEF Init, EngineAssumption
<1>2. \A t \in Tasks : task[t] = [at |-> "ready", root |-> FALSE, conn |-> None, next |-> 1, cut |-> "no"]
  BY DEF Init
<1>3. task \in [Tasks -> TaskStates]
  BY DEF Init, TaskStates, Places
<1>4. open \in [Clients -> Transactions]
  BY NoTxType DEF Init
<1>5. pending \in Seq(Tasks) /\ committed \in Seq(Tasks)
  BY DEF Init
<1>6. TypeOK
  <2>1. depth = 0 /\ client = None /\ inUse = {} /\ writes = {} /\ events = {} /\ announced = {}
    BY DEF Init
  <2> QED BY <1>1, <1>3, <1>4, <1>5, <2>1 DEF TypeOK
<1>7. ASSUME NEW t \in Tasks
      PROVE  Idle(t) /\ ~At(t, {"inner"}) /\ At(t, {"ready", "wrote", "done"})
  <2>1. task[t].at = "ready"
    BY <1>2
  <2> QED BY <2>1 DEF Idle, At
<1> QED BY <1>6, <1>7 DEF Order, OneOperation, OneCallback, OnlyOpsNest, PlainIsBrief, Tasks

(* Where a step takes a task from and to. *)
Route(t, from, to) ==
  \/ from = "ready" /\ to \in {"connecting", "begun", "in"} /\ t \notin Plain
  \/ from = "ready" /\ to = "wrote" /\ t \in Plain
  \/ from = "connecting" /\ to = "begun"
  \/ from = "begun" /\ to = "in"
  \/ from = "in" /\ to = "inner" /\ t \in Ops
  \/ from \in {"in", "inner"} /\ to = "wrote"
  \/ from = "wrote" /\ to = IF t \in Plain THEN "done" ELSE "told"
  \/ from = "told" /\ to \in {"persisting", "done"}
  \/ from \in {"in", "inner", "wrote", "told"} /\ to \in {"failed", "rolledback"} /\ t \notin Plain
  \/ from = "persisting" /\ to \in {"persisting", "settling", "committed"}
  \/ from \in {"settling", "committed"} /\ to \in {"publishing", "failed"}
  \/ from = "publishing" /\ to = "done"
  \/ from \in {"persisting", "committed", "publishing"} /\ to \in {"failed", "rolledback"}
  \/ from = "rolledback" /\ to = "failed"

LEMMA StepType ==
  ASSUME TypeOK, NEW t \in Tasks, Step(t)
  PROVE  /\ TypeOK'
         /\ \A u \in Tasks : u # t => task'[u] = task[u]
         /\ Route(t, task[t].at, task'[t].at)
<1> USE DEF At, buffers
<1>t. /\ task[t] \in TaskStates /\ task[t].conn \in Clients \cup {None} /\ task[t].next \in Nat \ {0}
      /\ task[t].root \in BOOLEAN
      /\ {<<t, "own">>} \in SUBSET Effects /\ {<<t, "inner">>} \in SUBSET Effects
      /\ {} \in SUBSET Effects /\ {} \in SUBSET Tasks /\ client \in Clients \cup {None}
  BY DEF TypeOK, TaskStates, Effects
<1>s. ASSUME NEW c \in Clients \cup {None}, NEW ws \in SUBSET Effects, NEW es \in SUBSET Tasks,
             NEW p \in Places, Send(c, ws, es), Goes(t, p), depth' \in Int,
             UNCHANGED <<present, client, inUse, buffers>>, Route(t, task[t].at, p)
      PROVE  /\ TypeOK' /\ Route(t, task[t].at, task'[t].at)
             /\ \A u \in Tasks : u # t => task'[u] = task[u]
  <2>1. open' \in [Clients -> Transactions] /\ writes' \subseteq Effects /\ events' \subseteq Tasks
    BY <1>s, SendType
  <2>2. /\ task' \in [Tasks -> TaskStates] /\ task'[t].at = p
        /\ \A u \in Tasks : u # t => task'[u] = task[u]
    BY <1>s, Moved
  <2> QED BY <1>s, <2>1, <2>2 DEF TypeOK
<1>1. CASE Enter(t)
  <2> DEFINE p == IF depth # 0 THEN "in" ELSE IF client # None THEN "begun" ELSE "connecting"
  <2>1. p \in {"in", "begun", "connecting"}
    OBVIOUS
  <2>2. PICK b \in BOOLEAN : task' = [task EXCEPT ![t].root = b, ![t].at = p]
    BY <1>1 DEF Enter
  <2> HIDE DEF p
  <2>3. /\ task' \in [Tasks -> TaskStates] /\ task'[t].at = p
        /\ \A u \in Tasks : u # t => task'[u] = task[u]
    <3>1. task[t] \in TaskStates /\ p \in Places
      BY <2>1 DEF TypeOK, Places
    <3>2. [task[t] EXCEPT !.root = b, !.at = p] \in TaskStates
      BY <3>1 DEF TaskStates
    <3>3. task' = [task EXCEPT ![t] = [task[t] EXCEPT !.root = b, !.at = p]]
      BY <2>2 DEF TypeOK
    <3> QED BY <3>1, <3>2, <3>3 DEF TypeOK, TaskStates
  <2>4. depth' \in Int
    BY <1>1 DEF Enter, TypeOK
  <2> QED BY <1>1, <2>1, <2>3, <2>4 DEF Enter, TypeOK, Route
<1>2. CASE Connect(t)
  <2>1. PICK c \in Clients \ inUse :
          /\ client' = c /\ inUse' = inUse \cup {c}
          /\ open' = [open EXCEPT ![c] = [NoTx EXCEPT !.open = TRUE]]
    BY <1>2 DEF Connect
  <2>2. [NoTx EXCEPT !.open = TRUE] \in Transactions
    BY DEF NoTx, Transactions
  <2>3. open' \in [Clients -> Transactions]
    BY <2>1, <2>2 DEF TypeOK
  <2> QED BY <1>2, <2>1, <2>3, Moved DEF Connect, TypeOK, Places, Route
<1>3. CASE Begun(t)
  BY <1>3, Moved DEF Begun, TypeOK, Places, Route
<1>4. CASE Write(t)
  <2>1. depth' \in Int /\ "wrote" \in Places /\ Route(t, task[t].at, "wrote")
    BY <1>4 DEF Write, TypeOK, Places, Route
  <2> QED BY <1>4, <1>t, <1>s, <2>1 DEF Write
<1>5. CASE Inner(t)
  <2>1. depth' \in Int /\ "inner" \in Places /\ Route(t, task[t].at, "inner")
    BY <1>5 DEF Inner, TypeOK, Places, Route
  <2> QED BY <1>5, <1>t, <1>s, <2>1 DEF Inner
<1>6. CASE InnerEnds(t)
  <2>1. depth' \in Int /\ "wrote" \in Places /\ Route(t, task[t].at, "wrote")
    BY <1>6 DEF InnerEnds, Less, TypeOK, Places, Route
  <2> QED BY <1>6, <1>t, <1>s, <2>1 DEF InnerEnds
<1>7. CASE Publish(t)
  <2>1. Append(pending, t) \in Seq(Tasks) /\ Append(committed, t) \in Seq(Tasks)
    BY DEF TypeOK
  <2>2. PICK p \in {"done", "told"} : Goes(t, p) /\ p = IF t \in Plain THEN "done" ELSE "told"
    BY <1>7 DEF Publish
  <2>3. pending' \in Seq(Tasks) /\ committed' \in Seq(Tasks)
    BY <1>7, <2>1 DEF Publish, TypeOK
  <2> QED BY <1>7, <2>2, <2>3, Moved DEF Publish, TypeOK, Places, Route
<1>8. CASE Return(t)
  <2>1. PICK p \in {"persisting", "done"} : task' = [task EXCEPT ![t].at = p, ![t].conn = client]
    BY <1>8 DEF Return
  <2>2. /\ task' \in [Tasks -> TaskStates] /\ task'[t].at = p
        /\ \A u \in Tasks : u # t => task'[u] = task[u]
    <3>1. task[t] \in TaskStates /\ p \in Places /\ client \in Clients \cup {None}
      BY DEF TypeOK, Places
    <3>2. [task[t] EXCEPT !.at = p, !.conn = client] \in TaskStates
      BY <3>1 DEF TaskStates
    <3>3. task' = [task EXCEPT ![t] = [task[t] EXCEPT !.at = p, !.conn = client]]
      BY <2>1 DEF TypeOK
    <3> QED BY <3>1, <3>2, <3>3 DEF TypeOK, TaskStates
  <2> QED BY <1>8, <2>1, <2>2 DEF Return, TypeOK, Route
<1>9. CASE Persist(t)
  <2>1. pending[task[t].next] \in Tasks
    BY <1>9, <1>t DEF Persist, TypeOK
  <2>a. \A n \in Nat \ {0} : n + 1 \in Nat \ {0}
    OBVIOUS
  <2>b. task' = [task EXCEPT ![t].next = task[t].next + 1]
    BY <1>9 DEF Persist
  <2>2. PICK n \in Nat \ {0} : task' = [task EXCEPT ![t].next = n]
    BY <1>t, <2>a, <2>b
  <2>3. /\ task' \in [Tasks -> TaskStates] /\ task'[t].at = task[t].at
        /\ \A u \in Tasks : u # t => task'[u] = task[u]
    BY <1>t, <2>2 DEF TypeOK, TaskStates
  <2>c. Send(task[t].conn, {}, {pending[task[t].next]}) /\ {pending[task[t].next]} \in SUBSET Tasks
    BY <1>9, <2>1 DEF Persist
  <2>4. open' \in [Clients -> Transactions] /\ writes' \subseteq Effects /\ events' \subseteq Tasks
    BY <1>t, <2>c, SendType
  <2> QED BY <1>9, <2>3, <2>4 DEF Persist, TypeOK, Route
<1>10. CASE Commit(t)
  <2>1. PICK p \in {"settling", "committed"} : Goes(t, p)
    BY <1>10 DEF Commit
  <2>2. /\ open' \in [Clients -> Transactions] /\ writes' \subseteq Effects /\ events' \subseteq Tasks
    <3>1. CASE client # None /\ open[client].open
      <4>1. open[client] \in Transactions
        BY <3>1 DEF TypeOK
      <4> QED BY <1>10, <3>1, <4>1, NoTxType DEF Commit, TypeOK, Transactions
    <3>2. CASE ~(client # None /\ open[client].open)
      BY <1>10, <3>2 DEF Commit, TypeOK
    <3> QED BY <3>1, <3>2
  <2> QED BY <1>10, <2>1, <2>2, Moved DEF Commit, TypeOK, Places, Route
<1>11. CASE Settle(t)
  <2>1. committed \o pending \in Seq(Tasks) /\ ToSet(pending) \subseteq Tasks /\ <<>> \in Seq(Tasks)
    BY SetOfSeq DEF TypeOK
  <2>2. client' \in Clients \cup {None} /\ inUse' \subseteq Clients
    BY <1>11 DEF Settle, Released, TypeOK
  <2> QED BY <1>11, <2>1, <2>2, Moved DEF Settle, TypeOK, Places, Route
<1>12. CASE SettleThrows(t)
  <2>1. depth' \in Int /\ <<>> \in Seq(Tasks)
    BY <1>12 DEF SettleThrows, Less, TypeOK
  <2> QED BY <1>12, <2>1, Moved DEF SettleThrows, TypeOK, Places, Route
<1>13. CASE Finish(t)
  <2>1. committed' \in Seq(Tasks)
    BY <1>13 DEF Finish, TypeOK
  <2> QED BY <1>13, <2>1, Moved DEF Finish, TypeOK, Places, Route
<1>14. CASE Throw(t)
  <2>1. depth' \in Int
    BY <1>14 DEF Throw, Less, TypeOK
  <2>2. pending' \in Seq(Tasks)
    BY <1>14 DEF Throw, Dropped, TypeOK
  <2>3. PICK p \in {"failed", "rolledback"} : Goes(t, p)
    BY <1>14 DEF Throw
  <2>4. open' \in [Clients -> Transactions]
    BY <1>14, NoTxType DEF Throw, TypeOK
  <2> QED BY <1>14, <2>1, <2>2, <2>3, <2>4, Moved DEF Throw, TypeOK, Places, Route
<1>15. CASE RolledBack(t)
  <2>1. client' \in Clients \cup {None} /\ inUse' \subseteq Clients
    BY <1>15 DEF RolledBack, Released, TypeOK
  <2> QED BY <1>15, <2>1, Moved DEF RolledBack, TypeOK, Places, Route
<1>16. CASE Statement(t)
  <2>1. depth' \in Int /\ "wrote" \in Places /\ Route(t, task[t].at, "wrote")
    BY <1>16 DEF Statement, TypeOK, Places, Route
  <2> QED BY <1>16, <1>t, <1>s, <2>1 DEF Statement
<1>17. CASE Rejects(t)
  <2>1. depth' \in Int /\ pending' \in Seq(Tasks) /\ open' \in [Clients -> Transactions]
    BY <1>17, NoTxType DEF Rejects, Less, TypeOK
  <2>2. PICK p \in {"failed", "rolledback"} :
          task' = [task EXCEPT ![t].at = p, ![t].cut = task[t].at]
    BY <1>17 DEF Rejects
  <2>3. task[t].at \in {"persisting", "committed", "publishing"}
    BY <1>17 DEF Rejects
  <2>4. /\ task' \in [Tasks -> TaskStates] /\ task'[t].at = p
        /\ \A u \in Tasks : u # t => task'[u] = task[u]
    <3>1. task[t] \in TaskStates /\ p \in Places
      BY DEF TypeOK, Places
    <3>2. [task[t] EXCEPT !.at = p, !.cut = task[t].at] \in TaskStates
      BY <2>3, <3>1 DEF TaskStates
    <3>3. task' = [task EXCEPT ![t] = [task[t] EXCEPT !.at = p, !.cut = task[t].at]]
      BY <2>2 DEF TypeOK
    <3> QED BY <3>1, <3>2, <3>3 DEF TypeOK, TaskStates
  <2> QED BY <1>17, <2>1, <2>3, <2>4 DEF Rejects, TypeOK, Route
<1> QED BY <1>1, <1>2, <1>3, <1>4, <1>5, <1>6, <1>7, <1>8, <1>9, <1>10, <1>11, <1>12, <1>13, <1>14,
           <1>15, <1>16, <1>17 DEF Step, Begin, Body, End

(* What failed is recorded by the catch alone. *)
LEMMA CutStays ==
  ASSUME TypeOK, NEW t \in Tasks, Step(t)
  PROVE  IF Rejects(t) THEN task'[t].cut = task[t].at ELSE task'[t].cut = task[t].cut
<1>t. task[t] \in TaskStates /\ task' = [task EXCEPT ![t] = task'[t]]
  BY StepType DEF TypeOK
<1>1. CASE Rejects(t)
  <2>1. task'[t].cut = task[t].at
    BY <1>1, <1>t DEF Rejects, TypeOK, TaskStates
  <2> QED BY <1>1, <2>1
<1>2. CASE ~Rejects(t)
  <2>2. CASE Enter(t)
    BY <2>2, <1>2, <1>t DEF Enter, TypeOK, TaskStates
  <2>3. CASE Return(t)
    BY <2>3, <1>2, <1>t DEF Return, TypeOK, TaskStates
  <2>4. CASE Persist(t)
    BY <2>4, <1>2, <1>t DEF Persist, TypeOK, TaskStates
  <2>5. CASE ~Enter(t) /\ ~Return(t) /\ ~Persist(t)
    <3>1. PICK p : Goes(t, p)
      BY <2>5, <1>2 DEF Step, Begin, Body, End, Connect, Begun, Write, Inner, InnerEnds, Publish, Throw,
         Commit, Settle, SettleThrows, Rejects, Finish, RolledBack, Statement
    <3> QED BY <3>1, <1>2, <1>t DEF Goes, TypeOK, TaskStates
  <2> QED BY <2>2, <2>3, <2>4, <2>5
<1> QED BY <1>1, <1>2

LEMMA OrderStep ==
  ASSUME EngineAssumption, Order, NEW t \in Tasks, Step(t)
  PROVE  Order'
<1> USE DEF Order, At
<1>1. /\ TypeOK'
      /\ \A u \in Tasks : u # t => task'[u] = task[u]
      /\ Route(t, task[t].at, task'[t].at)
  BY StepType
<1>2. Ops \subseteq Tasks /\ Handlers \subseteq Tasks /\ Plain \subseteq Tasks
  BY DEF Tasks
<1>3. task[t].at \notin Ended
  BY <1>1 DEF Route, Ended
<1>4. task[t].at = "ready" => t \in Plain \/ ~Waits(t)
  BY DEF Step, Begin, Body, End, Enter, Connect, Begun, Write, Inner, InnerEnds, Publish, Return, Throw,
         Persist, Commit, Settle, SettleThrows, Rejects, Finish, RolledBack, Statement
<1>5. ASSUME NEW L \in {Ops, Handlers}, L = Handlers => Callbacks = "serial",
             \A u, v \in L : u # v => Idle(u) \/ Idle(v)
      PROVE  (\A u, v \in L : u # v => Idle(u) \/ Idle(v))'
  <2>1. ASSUME NEW v \in L, t \in L, v # t PROVE Idle(v)
    <3>1. CASE task[t].at # "ready"
      BY <1>3, <1>5, <2>1, <3>1 DEF Idle
    <3>2. CASE task[t].at = "ready"
      <4>1. ~Waits(t) /\ L = (IF t \in Ops THEN Ops ELSE IF Callbacks = "serial" THEN Handlers ELSE {})
        BY <1>4, <1>5, <2>1, <3>2 DEF EngineAssumption
      <4> QED BY <2>1, <4>1 DEF Waits, Idle
    <3> QED BY <3>1, <3>2
  <2>2. \A u \in L : u # t => (Idle(u)' <=> Idle(u))
    BY <1>1, <1>2 DEF Idle
  <2> QED BY <1>5, <2>1, <2>2
<1>6. OneOperation'
  <2>1. Ops = Handlers => Ops = {}
    BY DEF EngineAssumption
  <2> QED BY <1>5, <2>1 DEF OneOperation
<1>7. OneCallback'
  BY <1>5 DEF OneCallback
<1>8. OnlyOpsNest'
  BY <1>1, <1>2 DEF OnlyOpsNest, Route, EngineAssumption
<1>9. PlainIsBrief'
  BY <1>1, <1>2 DEF PlainIsBrief, Route
<1> QED BY <1>1, <1>6, <1>7, <1>8, <1>9
-----------------------------------------------------------------------------
(***************************************************************************)
(* The depth counts the tasks that are inside a transaction, one of each   *)
(* line at most, and the action that one of them may be in.                *)
(***************************************************************************)
Load(t) == IF At(t, {"in", "wrote", "told"}) THEN 1 ELSE IF At(t, {"inner"}) THEN 2 ELSE 0

LineLoad(L) ==
  IF \E t \in L : Load(t) = 2 THEN 2 ELSE IF \E t \in L : Load(t) = 1 THEN 1 ELSE 0

DepthCounts == depth = LineLoad(Ops) + LineLoad(Handlers)

(* While a commit is being answered and another task is inside, the        *)
(* adapter has a connection: so nothing is taken off the depth twice.      *)
Started(t) == At(t, {"begun", "in", "inner", "wrote", "told"})

CommitKeepsClient ==
  \A t, u \in Ops \cup Handlers : At(u, {"committed"}) /\ Started(t) => client # None

DepthInv == DepthCounts /\ CommitKeepsClient

(* It holds until a commit or a publish fails: then it is counted down     *)
(* twice.                                                                  *)
NoneCut == \A t \in Tasks : Cut(t, {"no"})
DepthTold == NoneCut => DepthInv

LEMMA LoadIs ==
  ASSUME NEW t
  PROVE  Load(t) \in {0, 1, 2} /\ (Idle(t) => Load(t) = 0)
BY DEF Load, Idle, At, Ended

(* The load of a line is that of the task that is busy in it. *)
LEMMA LineLoadIs ==
  ASSUME NEW L, NEW t \in L, \A u \in L : u # t => Idle(u)
  PROVE  LineLoad(L) = Load(t)
<1>1. \A u \in L : u # t => Load(u) = 0
  BY LoadIs
<1> QED BY <1>1, LoadIs DEF LineLoad

LEMMA LoadsAdd ==
  ASSUME EngineAssumption, Callbacks = "serial", Order, Order', NEW t \in Ops \cup Handlers, Step(t),
         DepthCounts
  PROVE  /\ Load(t) <= depth /\ Load(t) \in 0 .. 2 /\ Load(t)' \in 0 .. 2
         /\ (depth' = depth + Load(t)' - Load(t) => DepthCounts')
<1>1. /\ \A u \in Tasks : u # t => task'[u] = task[u]
      /\ Route(t, task[t].at, task'[t].at) /\ t \in Tasks
  BY StepType DEF Order, Tasks
<1>2. task[t].at \notin Ended /\ (task'[t].at \notin Ended \cup {"ready"} \/ task[t].at # "ready")
  BY <1>1 DEF Route, Ended
<1>3. ASSUME NEW L \in {Ops, Handlers}, NEW M \in {Ops, Handlers}, L \cap M = {}, t \in L
      PROVE  /\ LineLoad(L) = Load(t) /\ LineLoad(L)' = Load(t)'
             /\ LineLoad(M)' = LineLoad(M) /\ LineLoad(M) \in 0 .. 2
  <2>1. \A u \in L : u # t => Idle(u) /\ Idle(u)'
    <3>1. \A u \in L : u # t => (Idle(t) \/ Idle(u)) /\ (Idle(t) \/ Idle(u))' /\ (Idle(u)' <=> Idle(u))
      BY <1>1, <1>3 DEF Order, OneOperation, OneCallback, Idle, At, Tasks
    <3>2. ~Idle(t) \/ ~Idle(t)'
      BY <1>2 DEF Idle, At
    <3> QED BY <3>1, <3>2
  <2>2. LineLoad(L) = Load(t)
    BY <1>3, <2>1, LineLoadIs
  <2>3. LineLoad(L)' = Load(t)'
    <3>1. \A u \in L : u # t => Load(u)' = 0
      BY <2>1, LoadIs DEF Load, Idle, At, Ended
    <3> QED BY <3>1, <1>3 DEF LineLoad, Load
  <2>4. \A u \in M : Load(u)' = Load(u)
    BY <1>1, <1>3 DEF Load, At, Tasks
  <2> QED BY <2>2, <2>3, <2>4 DEF LineLoad
<1>4. Load(t) \in 0 .. 2 /\ Load(t)' \in 0 .. 2
  BY DEF Load
<1> QED BY <1>3, <1>4 DEF DepthCounts, EngineAssumption

(* Hooks and the sync of the crons touch neither depth nor connection. *)
LEMMA PlainSteps ==
  ASSUME Order, NEW t \in Plain, Step(t)
  PROVE  Statement(t) \/ Publish(t)
BY DEF Order, PlainIsBrief, At, Step, Begin, Body, End, Enter, Connect, Begun, Write, Inner, InnerEnds, Return,
       Throw, Persist, Commit, Settle, SettleThrows, Rejects, Finish, RolledBack

(* Each step changes the depth by what its task's load changes. *)
LEMMA DepthChange ==
  ASSUME EngineAssumption, Callbacks = "serial", Order, Order', DepthInv,
         NEW t \in Ops \cup Handlers, Step(t), ~Rejects(t)
  PROVE  depth' = depth + Load(t)' - Load(t)
<1> USE DEF At
<1>t. t \in Tasks /\ t \notin Plain /\ task[t] \in TaskStates /\ depth \in Int
  BY DEF Tasks, EngineAssumption, Order, TypeOK
<1>l. Load(t) <= depth
  BY LoadsAdd DEF DepthInv
<1>m. \A p \in Places : Goes(t, p) => task'[t].at = p
  BY <1>t, Moved DEF Order
<1>1. CASE Enter(t)
  <2>1. /\ task[t].at = "ready" /\ (depth # 0 => task'[t].at = "in")
        /\ depth = 0 => task'[t].at \in {"begun", "connecting"}
    <3>1. task[t].at = "ready" /\ TypeOK
      BY <1>1 DEF Enter, Order
    <3> DEFINE p == IF depth # 0 THEN "in" ELSE IF client # None THEN "begun" ELSE "connecting"
    <3> DEFINE r == depth = 0
    <3>2. task' = [task EXCEPT ![t].root = r, ![t].at = p]
      BY <1>1 DEF Enter
    <3>4. (depth # 0 => p = "in") /\ (depth = 0 => p \in {"begun", "connecting"})
      OBVIOUS
    <3> HIDE DEF p, r
    <3>3. task'[t].at = p
      BY <1>t, <3>1, <3>2 DEF TypeOK, TaskStates
    <3> QED BY <3>1, <3>3, <3>4
  <2>2. depth' = IF depth = 0 THEN 0 ELSE depth + 1
    BY <1>1 DEF Enter
  <2>3. Load(t) = 0 /\ Load(t)' = IF depth = 0 THEN 0 ELSE 1
    BY <2>1 DEF Load
  <2> QED BY <2>2, <2>3, <1>t
<1>2. CASE Connect(t)
  BY <1>2, <1>m, <1>t DEF Connect, Load, Places
<1>3. CASE Begun(t)
  BY <1>3, <1>m, <1>t DEF Begun, Load, Places
<1>4. CASE Write(t)
  BY <1>4, <1>m, <1>t DEF Write, Load, Places
<1>5. CASE Inner(t)
  BY <1>5, <1>m, <1>t DEF Inner, Load, Places
<1>6. CASE InnerEnds(t)
  BY <1>6, <1>m, <1>t, <1>l DEF InnerEnds, Load, Places, Less
<1>7. CASE Publish(t)
  BY <1>7, <1>m, <1>t DEF Publish, Load, Places
<1>8. CASE Return(t)
  <2>1. task[t].at = "told" /\ task'[t].at \in {"persisting", "done"} /\ depth' = depth - 1
    BY <1>8, <1>t DEF Return, Order, TypeOK, TaskStates
  <2> QED BY <2>1, <1>t DEF Load
<1>9. CASE Persist(t)
  <2>1. task[t].at = "persisting" /\ depth' = depth
    BY <1>9 DEF Persist
  <2>2. task'[t].at = task[t].at
    BY <1>9, <1>t DEF Persist, Order, TypeOK, TaskStates
  <2>3. Load(t) = 0 /\ Load(t)' = 0
    BY <2>1, <2>2 DEF Load
  <2> QED BY <2>1, <2>3, <1>t
<1>10. CASE Commit(t)
  <2>1. /\ task[t].at = "persisting" /\ task'[t].at \in {"settling", "committed"}
        /\ depth' = depth
    BY <1>10, <1>m DEF Commit, Places
  <2>2. Load(t) = 0 /\ Load(t)' = 0
    BY <2>1 DEF Load
  <2> QED BY <2>1, <2>2, <1>t
<1>11. CASE Settle(t)
  <2>1. /\ task[t].at \in {"settling", "committed"} /\ task'[t].at = "publishing"
        /\ depth' = depth
    BY <1>11, <1>m DEF Settle, Places
  <2>2. Load(t) = 0 /\ Load(t)' = 0
    BY <2>1 DEF Load
  <2> QED BY <2>1, <2>2, <1>t
<1>12. CASE SettleThrows(t)
  <2>1. task[t].at = "committed" /\ client = None /\ task'[t].at = "failed" /\ depth' = Less(depth, 1)
    BY <1>12, <1>m DEF SettleThrows, Places
  <2>2. \A u \in Ops \cup Handlers : Load(u) = 0
    BY <2>1 DEF DepthInv, CommitKeepsClient, Started, Load
  <2>3. depth = 0
    BY <2>2 DEF DepthInv, DepthCounts, LineLoad
  <2> QED BY <2>1, <2>3 DEF Load, Less
<1>13. CASE Finish(t)
  BY <1>13, <1>m, <1>t DEF Finish, Load, Places
<1>14. CASE Throw(t)
  <2>1. task[t].at \in {"in", "wrote", "told", "inner"} /\ task'[t].at \in {"rolledback", "failed"}
    BY <1>14, <1>m DEF Throw, Places
  <2>2. depth' = Less(depth, IF task[t].at = "inner" THEN 2 ELSE 1)
    BY <1>14 DEF Throw
  <2> QED BY <2>1, <2>2, <1>l, <1>t DEF Load, Less
<1>15. CASE RolledBack(t)
  BY <1>15, <1>m, <1>t DEF RolledBack, Load, Places
<1>16. CASE Statement(t)
  BY <1>16, <1>t DEF Statement
<1> QED BY <1>1, <1>2, <1>3, <1>4, <1>5, <1>6, <1>7, <1>8, <1>9, <1>10, <1>11, <1>12, <1>13, <1>14,
           <1>15, <1>16 DEF Step, Begin, Body, End

(* There are two lines only: the two tasks that are busy are all there is. *)
LEMMA TwoLines ==
  ASSUME Callbacks = "serial", Order, NEW t \in Ops \cup Handlers, NEW u \in Ops \cup Handlers,
         NEW v \in Ops \cup Handlers, ~Idle(t), ~Idle(u), ~Idle(v)
  PROVE  t = u \/ t = v \/ u = v
BY DEF Order, OneOperation, OneCallback

LEMMA ClientStep ==
  ASSUME EngineAssumption, Callbacks = "serial", Order, Order', DepthInv,
         NEW t \in Ops \cup Handlers, Step(t), ~Rejects(t)
  PROVE  CommitKeepsClient'
<1> USE DEF At
<1>1. /\ \A u \in Tasks : u # t => task'[u] = task[u]
      /\ Route(t, task[t].at, task'[t].at) /\ t \in Tasks /\ t \notin Plain
  BY StepType DEF Order, Tasks, EngineAssumption
<1> SUFFICES ASSUME NEW s \in Ops \cup Handlers, NEW u \in Ops \cup Handlers,
                    task'[u].at = "committed", Started(s)', client' = None
             PROVE  FALSE
  BY DEF CommitKeepsClient
<1>2. s # u /\ s \in Tasks /\ u \in Tasks
  BY DEF Started, Tasks
<1>3. ~Idle(s)' /\ ~Idle(u)'
  BY DEF Started, Idle, Ended
<1>4. t = s \/ t = u
  <2>1. CASE Idle(t)'
    <3>1. task'[t].at \in {"done", "failed"}
      BY <1>1, <2>1 DEF Route, Idle, Ended
    <3>2. ~Idle(t)
      BY <1>1, <3>1 DEF Route, Idle, Ended
    <3>3. t # s /\ t # u => ~Idle(s) /\ ~Idle(u)
      BY <1>1, <1>2, <1>3 DEF Idle
    <3> QED BY <1>2, <3>2, <3>3, TwoLines
  <2>2. CASE ~Idle(t)'
    <3>1. \A x, y, z \in Ops \cup Handlers : ~Idle(x)' /\ ~Idle(y)' /\ ~Idle(z)' => x = y \/ x = z \/ y = z
      BY DEF Order, OneOperation, OneCallback
    <3> QED BY <1>2, <1>3, <2>2, <3>1
  <2> QED BY <2>1, <2>2
<1>5. CASE t = s
  <2>1. task[u].at = "committed"
    BY <1>1, <1>2, <1>5
  <2>2. ~Idle(u) /\ Load(u) = 0
    BY <2>1 DEF Idle, Ended, Load
  <2>3. task'[t].at \in {"begun", "in", "inner", "wrote", "told"}
    BY <1>5 DEF Started
  <2>4. CASE Enter(t)
    <3>1. Enter(t) => task[t].at = "ready"
      BY DEF Enter
    <3>2. Load(t) = 0
      BY <2>4, <3>1 DEF Load
    <3>3. \A x \in Ops \cup Handlers : Load(x) # 0 => x = u \/ x = t
      <4> SUFFICES ASSUME NEW x \in Ops \cup Handlers, Load(x) # 0, x # u, x # t PROVE FALSE
        OBVIOUS
      <4>1. ~Idle(x) /\ x \in Tasks
        BY LoadIs DEF Tasks
      <4>2. ~Idle(x)'
        BY <1>1, <4>1 DEF Idle
      <4>3. \A y, z \in Ops \cup Handlers : ~Idle(x)' /\ ~Idle(y)' /\ ~Idle(z)' => x = y \/ x = z \/ y = z
        BY DEF Order, OneOperation, OneCallback
      <4> QED BY <1>2, <1>3, <1>5, <4>2, <4>3
    <3>4. depth = 0
      BY <2>2, <3>2, <3>3 DEF DepthInv, DepthCounts, LineLoad
    <3>5. task'[t].at = IF client # None THEN "begun" ELSE "connecting"
      BY <1>1, <2>4, <3>4 DEF Enter, Order, TypeOK, TaskStates
    <3>6. client' = client
      BY <2>4 DEF Enter
    <3> QED BY <2>3, <3>5, <3>6
  <2>5. CASE Connect(t)
    BY <2>5 DEF Connect, EngineAssumption
  <2>6. CASE ~Enter(t) /\ ~Connect(t)
    <3>1. task[t].at \in {"begun", "in", "inner", "wrote", "told"}
      BY <1>1, <2>3, <2>6 DEF Step, Begin, Body, End, Begun, Write, Inner, InnerEnds, Publish, Return, Throw,
         Persist, Commit, Settle, SettleThrows, Rejects, Finish, RolledBack, Statement, Route
    <3>2. client # None
      BY <1>5, <2>1, <3>1 DEF DepthInv, CommitKeepsClient, Started
    <3>3. client' = client
      BY <3>1, <2>3, <2>6 DEF Step, Begin, Body, End, Begun, Write, Inner, InnerEnds, Publish, Return, Throw,
         Persist, Commit, Settle, SettleThrows, Rejects, Finish, RolledBack, Statement
    <3> QED BY <3>2, <3>3
  <2> QED BY <2>4, <2>5, <2>6
<1>6. CASE t = u
  <2>1. task[t].at = "persisting"
    BY <1>1, <1>6 DEF Route
  <2>2. Commit(t) \/ Persist(t)
    BY <2>1 DEF Step, Begin, Body, End, Enter, Connect, Begun, Write, Inner, InnerEnds, Publish, Return, Throw,
       Settle, SettleThrows, Rejects, Finish, RolledBack, Statement
  <2>3. CASE Commit(t)
    <3>1. task'[t].at = IF client = None THEN "settling" ELSE "committed"
      BY <1>1, <2>3, Moved DEF Commit, Places, Order
    <3>2. client' = client
      BY <2>3 DEF Commit
    <3> QED BY <1>6, <3>1, <3>2
  <2>4. CASE Persist(t)
    <3>1. task'[t].at = task[t].at
      BY <1>1, <2>4 DEF Persist, Order, TypeOK, TaskStates
    <3> QED BY <1>6, <2>1, <3>1
  <2> QED BY <2>2, <2>3, <2>4
<1> QED BY <1>4, <1>5, <1>6

LEMMA DepthStep ==
  ASSUME EngineAssumption, Callbacks = "serial", Order, Order', DepthTold, [Next]_vars
  PROVE  DepthTold'
<1> SUFFICES ASSUME NoneCut' PROVE DepthInv'
  BY DEF DepthTold
<1>c. ASSUME NEW t \in Tasks, Step(t) PROVE ~Rejects(t) /\ NoneCut
  <2>1. \A u \in Tasks : u # t => task'[u] = task[u]
    BY <1>c, StepType DEF Order
  <2>2. Rejects(t) => task[t].at # "no"
    BY DEF Rejects, At
  <2>3. task'[t].cut = "no" /\ ~Rejects(t)
    BY <1>c, <2>2, CutStays DEF Order, NoneCut, Cut
  <2> QED BY <1>c, <2>1, <2>3, CutStays DEF Order, NoneCut, Cut
<1>d. DepthInv
  <2>1. CASE UNCHANGED vars
    BY <2>1 DEF vars, NoneCut, Cut, DepthTold
  <2>2. CASE Next
    BY <2>2, <1>c DEF Next, Step, DepthTold
  <2> QED BY <2>1, <2>2
<1>1. ASSUME NEW t \in Ops \cup Handlers, Step(t) PROVE DepthInv'
  <2>1. t \in Tasks
    BY DEF Tasks
  <2> QED BY <1>1, <1>c, <1>d, <2>1, DepthChange, LoadsAdd, ClientStep DEF DepthInv
<1>2. ASSUME UNCHANGED <<depth, client>>, \A t \in Ops \cup Handlers : task'[t] = task[t]
      PROVE  DepthInv'
  <2>1. \A t \in Ops \cup Handlers : Load(t)' = Load(t)
    BY <1>2 DEF Load, At
  <2>2. LineLoad(Ops)' = LineLoad(Ops) /\ LineLoad(Handlers)' = LineLoad(Handlers)
    BY <2>1 DEF LineLoad
  <2> QED BY <1>2, <1>d, <2>2 DEF DepthInv, DepthCounts, CommitKeepsClient, Started, At
<1>3. ASSUME NEW t \in Plain, Step(t) PROVE DepthInv'
  <2>1. UNCHANGED <<depth, client>>
    BY <1>3, PlainSteps DEF Statement, Publish
  <2>2. \A u \in Ops \cup Handlers : task'[u] = task[u]
    BY <1>3, StepType DEF Order, Tasks, EngineAssumption
  <2> QED BY <2>1, <2>2, <1>2
<1>4. CASE UNCHANGED vars
  BY <1>4, <1>2 DEF vars
<1> QED BY <1>1, <1>3, <1>4 DEF Next, Step, Tasks

LEMMA DepthInit == EngineAssumption /\ Init => DepthInv
<1> SUFFICES ASSUME EngineAssumption, Init PROVE DepthInv
  OBVIOUS
<1>1. \A t \in Tasks : task[t].at = "ready"
  BY DEF Init
<1>2. \A t \in Ops \cup Handlers : Load(t) = 0 /\ task[t].at # "committed"
  BY <1>1 DEF Load, At, Tasks
<1>3. LineLoad(Ops) = 0 /\ LineLoad(Handlers) = 0 /\ depth = 0
  BY <1>2 DEF LineLoad, Init
<1>4. CommitKeepsClient
  BY <1>2 DEF CommitKeepsClient, At
<1> QED BY <1>3, <1>4 DEF DepthInv, DepthCounts

LEMMA OrderNext ==
  ASSUME EngineAssumption, Order, [Next]_vars
  PROVE  Order'
<1>1. CASE UNCHANGED vars
  <2>1. TypeOK'
    BY <1>1 DEF vars, Order, TypeOK
  <2>2. task' = task
    BY <1>1 DEF vars
  <2>3. OneOperation' /\ OneCallback'
    BY <2>2 DEF Order, OneOperation, OneCallback, Idle, At
  <2>4. OnlyOpsNest' /\ PlainIsBrief'
    BY <2>2 DEF Order, OnlyOpsNest, PlainIsBrief, At
  <2> QED BY <2>1, <2>3, <2>4 DEF Order
<1> QED BY <1>1, OrderStep DEF Next, Step

LEMMA QuietMeansClosed ==
  ASSUME DepthInv, Quiet
  PROVE  depth = 0
<1>1. \A t \in Ops \cup Handlers : Load(t) = 0
  BY LoadIs DEF Quiet, Idle, Tasks
<1> QED BY <1>1 DEF DepthInv, DepthCounts, LineLoad
-----------------------------------------------------------------------------
(***************************************************************************)
(* As long as no callback has run, an operation is one of: not begun, with *)
(* a connection and a transaction of its own, answered, or ended.  Plain   *)
(* activities may add their statements and events to its transaction.      *)
(***************************************************************************)
OfPlain == Plain \X {"own", "inner"}

Outcome(t) ==
  IF At(t, {"committed", "publishing", "done"}) \/ Cut(t, {"committed", "publishing"})
  THEN <<t, "own">> \in writes /\ t \in events
  ELSE OfTask(t) \cap writes = {} /\ t \notin events

Outset(t) ==
  /\ At(t, {"ready", "connecting", "begun", "in", "inner", "wrote", "told"}) => task[t].next = 1
  /\ ~Idle(t) => task[t].root = TRUE
  /\ ~At(t, {"rolledback", "failed"}) => Cut(t, {"no"})

Between(t) == Idle(t) \/ At(t, {"connecting", "publishing"})
Resting == depth = 0 /\ client = None /\ inUse = {} /\ pending = <<>>

(* The transaction holds what the operation and plain activities wrote. *)
Owned(t) ==
  /\ open[client].open
  /\ open[client].writes \subseteq OfTask(t) \cup OfPlain
  /\ open[client].events \subseteq {t} \cup Plain
  /\ At(t, {"wrote", "told", "persisting"}) => <<t, "own">> \in open[client].writes

(* Every event up to the next one to be persisted is in the transaction. *)
Persisting(t) ==
  /\ task[t].conn = client
  /\ \A i \in 1 .. Len(pending) : i < task[t].next => pending[i] \in open[client].events

Running(t) ==
  /\ client \in Clients /\ inUse = {client} /\ depth = Load(t)
  /\ ToSet(pending) \subseteq {t} \cup Plain
  /\ At(t, {"begun", "in", "inner", "wrote", "told", "persisting", "committed", "rolledback"})
  /\ At(t, {"begun", "in", "inner", "wrote", "told", "persisting"}) => Owned(t)
  /\ At(t, {"told", "persisting"}) => t \in ToSet(pending)
  /\ At(t, {"persisting"}) => Persisting(t)
  /\ At(t, {"committed"}) => ToSet(pending) \subseteq events
  /\ At(t, {"begun", "rolledback"}) => pending = <<>>

Solo ==
  /\ \A t \in Ops : Outcome(t) /\ Outset(t)
  /\ (\A t \in Ops : Between(t)) => Resting
  /\ \A t \in Ops : ~Between(t) => Running(t)
  /\ announced \subseteq events

SoloInv == Alone => Solo

LEMMA SoloInit == EngineAssumption /\ Init => Solo
<1> SUFFICES ASSUME EngineAssumption, Init PROVE Solo
  OBVIOUS
<1>1. \A t \in Tasks : task[t].at = "ready" /\ task[t].next = 1 /\ task[t].cut = "no"
  BY DEF Init
<1>2. depth = 0 /\ client = None /\ inUse = {} /\ pending = <<>> /\ writes = {} /\ events = {} /\ announced = {}
  BY DEF Init
<1>3. \A t \in Ops : Idle(t) /\ Between(t) /\ Outset(t) /\ Outcome(t)
  BY <1>1, <1>2 DEF Idle, Between, Outset, Outcome, At, Cut, Tasks
<1> QED BY <1>2, <1>3 DEF Solo, Resting

(* A step of one operation, all others being idle. *)
LEMMA SoloOf ==
  ASSUME EngineAssumption, Solo, NEW t \in Ops,
         \A u \in Tasks : u # t => task'[u] = task[u],
         \A u \in Ops : u # t => Idle(u),
         writes \subseteq writes', writes' \subseteq writes \cup OfTask(t) \cup OfPlain,
         events \subseteq events', events' \subseteq events \cup {t} \cup Plain,
         Outcome(t)', Outset(t)', Between(t)' => Resting', ~Between(t)' => Running(t)',
         announced' \subseteq events'
  PROVE  Solo'
<1>1. \A u \in Ops : u # t => u \in Tasks /\ u \notin Plain /\ Between(u)'
  BY DEF Tasks, EngineAssumption, Between, Idle, At
<1>2. ASSUME NEW u \in Ops, u # t PROVE Outcome(u)' /\ Outset(u)'
  <2>1. Outcome(u) /\ Outset(u) /\ task'[u] = task[u]
    BY <1>1, <1>2 DEF Solo
  <2>2. OfTask(u) \cap writes = {} => OfTask(u) \cap writes' = {}
    BY <1>1, <1>2 DEF OfTask, OfPlain
  <2>3. u \notin events => u \notin events'
    BY <1>1, <1>2
  <2> QED BY <2>1, <2>2, <2>3 DEF Outcome, Outset, At, Cut, Idle
<1> QED BY <1>1, <1>2 DEF Solo

(* What is sent on a connection with a transaction belongs to it. *)
LEMMA SentInside ==
  ASSUME TypeOK, NEW c \in Clients, c # None, open[c].open, NEW ws, NEW es, Send(c, ws, es)
  PROVE  /\ open'[c].open /\ open'[c].writes = open[c].writes \cup ws
         /\ open'[c].events = open[c].events \cup es
         /\ UNCHANGED <<writes, events>>
BY DEF TypeOK, Send, Transactions

LEMMA SoloBefore ==
  ASSUME EngineAssumption, Order, Solo, NEW t \in Ops, Step(t)
  PROVE  /\ \A u \in Ops : u # t => Idle(u)
         /\ Between(t) => Resting
         /\ ~Between(t) => Running(t)
         /\ \A u \in Tasks : u # t => task'[u] = task[u]
         /\ t \in Tasks /\ t \notin Plain /\ task[t] \in TaskStates /\ task'[t] \in TaskStates
         /\ Outcome(t) /\ Outset(t)
         /\ ~Rejects(t) => task'[t].cut = task[t].cut
<1>1. /\ t \in Tasks /\ t \notin Plain
      /\ TypeOK /\ TypeOK' /\ (\A u \in Tasks : u # t => task'[u] = task[u])
      /\ Route(t, task[t].at, task'[t].at)
  BY StepType DEF Tasks, EngineAssumption, Order
<1>2. \A u \in Ops : u # t => Idle(u)
  <2>1. CASE ~Idle(t)
    BY <2>1 DEF Order, OneOperation
  <2>2. CASE Idle(t)
    <3>1. task[t].at = "ready"
      BY <1>1, <2>2 DEF Idle, At, Ended, Route
    <3>2. Enter(t)
      BY <1>1, <3>1 DEF Step, Begin, Body, End, Enter, Connect, Begun, Write, Inner, InnerEnds, Publish, Return,
         Throw, Persist, Commit, Settle, SettleThrows, Rejects, Finish, RolledBack, Statement, At
    <3>3. ~Waits(t)
      BY <3>2 DEF Enter
    <3> QED BY <3>3 DEF Waits, Idle
  <2> QED BY <2>1, <2>2
<1>3. \A u \in Ops : u # t => Between(u)
  BY <1>2 DEF Between
<1>4. ~Rejects(t) => task'[t].cut = task[t].cut
  BY <1>1, CutStays
<1> QED BY <1>1, <1>2, <1>3, <1>4 DEF Solo, TypeOK

(* From the start to the transaction. *)
LEMMA BeginSolo ==
  ASSUME EngineAssumption, Order, Order', Solo, NEW t \in Ops, Begin(t)
  PROVE  Solo'
<1> USE DEF At, Cut
<1>s. Step(t)
  BY DEF Step
<1>b. /\ \A u \in Ops : u # t => Idle(u)
      /\ Between(t) => Resting
      /\ ~Between(t) => Running(t)
      /\ \A u \in Tasks : u # t => task'[u] = task[u]
      /\ t \in Tasks /\ task[t] \in TaskStates
      /\ Outcome(t) /\ Outset(t) /\ announced \subseteq events
      /\ ~Rejects(t) => task'[t].cut = task[t].cut
  BY <1>s, SoloBefore DEF Solo
<1>t. TypeOK
  BY DEF Order
<1>c. task[t].cut = "no" /\ task'[t].cut = "no"
  BY <1>b DEF Begin, Enter, Connect, Begun, Rejects, Outset
<1>1. CASE Enter(t)
  <2>1. task[t].at = "ready" /\ Resting
    BY <1>1, <1>b DEF Enter, Between, Idle
  <2>2. PICK b \in BOOLEAN : task' = [task EXCEPT ![t].root = b, ![t].at = "connecting"] /\ b = TRUE
    BY <1>1, <2>1 DEF Enter, Resting
  <2>3. /\ task'[t].at = "connecting" /\ task'[t].root = TRUE /\ task'[t].next = task[t].next
    BY <1>t, <1>b, <2>2 DEF TypeOK, TaskStates
  <2>4. UNCHANGED <<client, inUse, writes, events, pending, announced>> /\ depth' = 0
    BY <1>1, <2>1 DEF Enter, buffers, Resting
  <2>5. Between(t)' /\ Resting' /\ Outset(t)'
    BY <1>c, <1>b, <2>1, <2>3, <2>4 DEF Between, Resting, Outset
  <2>6. Outcome(t)'
    BY <1>c, <1>b, <2>1, <2>3, <2>4 DEF Outcome
  <2> QED BY <1>b, <2>4, <2>5, <2>6, SoloOf
<1>2. CASE Connect(t)
  <2>1. PICK c \in Clients :
          /\ client' = c /\ inUse' = inUse \cup {c}
          /\ open' = [open EXCEPT ![c] = [NoTx EXCEPT !.open = TRUE]]
    BY <1>2 DEF Connect
  <2>2. task[t].at = "connecting" /\ Resting /\ "begun" \in Places /\ Goes(t, "begun")
    BY <1>2, <1>b DEF Connect, Between, Places
  <2>3. /\ task'[t].at = "begun" /\ task'[t].root = task[t].root /\ task'[t].next = task[t].next
    BY <1>t, <1>b, <2>2, Moved
  <2>4. UNCHANGED <<depth, writes, events, pending, announced>>
    BY <1>2 DEF Connect, buffers
  <2>5. open'[c].open /\ open'[c].writes = {} /\ open'[c].events = {}
    BY <1>t, <2>1 DEF NoTx, TypeOK
  <2>6. Owned(t)'
    BY <2>1, <2>3, <2>5 DEF Owned
  <2>7. ToSet(pending') = {}
    BY <2>2, <2>4 DEF Resting, ToSet
  <2>8. Running(t)'
    BY <2>1, <2>2, <2>3, <2>4, <2>6, <2>7 DEF Running, Resting, Load
  <2>9. ~Between(t)' /\ Outset(t)'
    BY <1>c, <1>b, <2>2, <2>3 DEF Between, Outset, Idle, Ended
  <2>10. Outcome(t)'
    BY <1>c, <1>b, <2>2, <2>3, <2>4 DEF Outcome
  <2> QED BY <1>b, <2>4, <2>8, <2>9, <2>10, SoloOf
<1>3. CASE Begun(t)
  <2>1. task[t].at = "begun" /\ Running(t) /\ "in" \in Places /\ Goes(t, "in") /\ depth' = depth + 1
    BY <1>3, <1>b DEF Begun, Between, Places, Idle, Ended
  <2>2. /\ task'[t].at = "in" /\ task'[t].root = task[t].root /\ task'[t].next = task[t].next
    BY <1>t, <1>b, <2>1, Moved
  <2>3. UNCHANGED <<client, inUse, open, writes, events, pending, announced>>
    BY <1>3 DEF Begun, buffers
  <2>4. Owned(t)'
    BY <2>1, <2>2, <2>3 DEF Running, Owned
  <2>5. Running(t)'
    BY <2>1, <2>2, <2>3, <2>4 DEF Running, Load
  <2>6. ~Between(t)' /\ Outset(t)'
    BY <1>c, <1>b, <2>1, <2>2 DEF Between, Outset, Idle, Ended
  <2>7. Outcome(t)'
    BY <1>c, <1>b, <2>1, <2>2, <2>3 DEF Outcome
  <2> QED BY <1>b, <2>3, <2>5, <2>6, <2>7, SoloOf
<1> QED BY <1>1, <1>2, <1>3 DEF Begin

(* Inside the transaction: statements go into it, and a throw empties it. *)
LEMMA BodySolo ==
  ASSUME EngineAssumption, Order, Order', Solo, NEW t \in Ops, Body(t)
  PROVE  Solo'
<1> USE DEF At, Cut
<1>s. Step(t)
  BY DEF Step
<1>b. /\ \A u \in Ops : u # t => Idle(u)
      /\ ~Between(t) => Running(t)
      /\ \A u \in Tasks : u # t => task'[u] = task[u]
      /\ t \in Tasks /\ t \notin Plain /\ task[t] \in TaskStates
      /\ Outcome(t) /\ Outset(t) /\ announced \subseteq events
      /\ ~Rejects(t) => task'[t].cut = task[t].cut
  BY <1>s, SoloBefore DEF Solo
<1>t. TypeOK /\ depth \in Int
  BY DEF Order, TypeOK
<1>p. task[t].at \in {"in", "inner", "wrote", "told"}
  BY DEF Body, Write, Inner, InnerEnds, Publish, Return, Throw
<1>c. task[t].cut = "no" /\ task'[t].cut = "no"
  BY <1>b, <1>p DEF Rejects, Outset
<1>r. /\ Running(t) /\ Owned(t) /\ client \in Clients /\ client # None /\ depth = Load(t)
      /\ task[t].next = 1 /\ task[t].root = TRUE
      /\ <<t, "own">> \notin writes /\ OfTask(t) \cap writes = {} /\ t \notin events
  <2>1. ~Between(t) /\ ~Idle(t) /\ task[t].at \notin {"committed", "publishing", "done"}
    BY <1>p DEF Between, Idle, Ended
  <2>2. Running(t) /\ Owned(t) /\ client \in Clients /\ client # None /\ depth = Load(t)
    BY <1>b, <1>p, <2>1 DEF Running, EngineAssumption
  <2>3. task[t].next = 1 /\ task[t].root = TRUE
    BY <1>b, <1>p, <2>1 DEF Outset
  <2>4. OfTask(t) \cap writes = {} /\ t \notin events
    BY <1>b, <1>c, <2>1 DEF Outcome
  <2>5. <<t, "own">> \in OfTask(t)
    BY DEF OfTask
  <2> QED BY <2>2, <2>3, <2>4, <2>5
(* A task that goes on inside, unless the events change. *)
<1>i. ASSUME NEW p \in {"inner", "wrote"}, task'[t].at = p, task'[t].next = 1, task'[t].root = TRUE,
             UNCHANGED <<client, inUse, writes, events, pending, announced>>,
             depth' = IF p = "inner" THEN 2 ELSE 1,
             open'[client].open,
             open'[client].writes \subseteq OfTask(t) \cup OfPlain,
             open'[client].events \subseteq {t} \cup Plain,
             p = "wrote" => <<t, "own">> \in open'[client].writes
      PROVE  Solo'
  <2>1. Owned(t)'
    BY <1>i DEF Owned
  <2>2. Running(t)'
    BY <1>r, <1>i, <2>1 DEF Running, Load
  <2>3. ~Between(t)' /\ Outset(t)'
    BY <1>c, <1>i DEF Between, Outset, Idle, Ended
  <2>4. Outcome(t)'
    BY <1>c, <1>r, <1>i DEF Outcome
  <2> QED BY <1>b, <1>i, <2>2, <2>3, <2>4, SoloOf
<1>o. <<t, "own">> \in OfTask(t) /\ <<t, "inner">> \in OfTask(t)
  BY DEF OfTask
<1>1. CASE Write(t)
  <2>1. Goes(t, "wrote") /\ "wrote" \in Places /\ Send(client, {<<t, "own">>}, {}) /\ task[t].at = "in"
    BY <1>1 DEF Write, Places
  <2>2. task'[t].at = "wrote" /\ task'[t].next = 1 /\ task'[t].root = TRUE
    BY <1>t, <1>b, <1>r, <2>1, Moved
  <2>3. /\ open'[client].open /\ open'[client].writes = open[client].writes \cup {<<t, "own">>}
        /\ open'[client].events = open[client].events \cup {} /\ UNCHANGED <<writes, events>>
    BY <1>t, <1>r, <2>1, SentInside DEF Owned
  <2>4. UNCHANGED <<client, inUse, pending, announced>> /\ depth' = 1
    BY <1>1, <1>r, <2>1 DEF Write, buffers, Load
  <2> QED BY <1>i, <1>o, <1>r, <2>2, <2>3, <2>4 DEF Owned
<1>2. CASE Inner(t)
  <2>1. Goes(t, "inner") /\ "inner" \in Places /\ Send(client, {<<t, "inner">>}, {}) /\ task[t].at = "in"
    BY <1>2 DEF Inner, Places
  <2>2. task'[t].at = "inner" /\ task'[t].next = 1 /\ task'[t].root = TRUE
    BY <1>t, <1>b, <1>r, <2>1, Moved
  <2>3. /\ open'[client].open /\ open'[client].writes = open[client].writes \cup {<<t, "inner">>}
        /\ open'[client].events = open[client].events \cup {} /\ UNCHANGED <<writes, events>>
    BY <1>t, <1>r, <2>1, SentInside DEF Owned
  <2>4. UNCHANGED <<client, inUse, pending, announced>> /\ depth' = 2
    BY <1>2, <1>r, <2>1 DEF Inner, buffers, Load
  <2> QED BY <1>i, <1>o, <1>r, <2>2, <2>3, <2>4 DEF Owned
<1>3. CASE InnerEnds(t)
  <2>1. Goes(t, "wrote") /\ "wrote" \in Places /\ Send(client, {<<t, "own">>}, {}) /\ task[t].at = "inner"
    BY <1>3 DEF InnerEnds, Places
  <2>2. task'[t].at = "wrote" /\ task'[t].next = 1 /\ task'[t].root = TRUE
    BY <1>t, <1>b, <1>r, <2>1, Moved
  <2>3. /\ open'[client].open /\ open'[client].writes = open[client].writes \cup {<<t, "own">>}
        /\ open'[client].events = open[client].events \cup {} /\ UNCHANGED <<writes, events>>
    BY <1>t, <1>r, <2>1, SentInside DEF Owned
  <2>4. UNCHANGED <<client, inUse, pending, announced>> /\ depth' = 1
    BY <1>3, <1>r, <2>1 DEF InnerEnds, buffers, Load, Less
  <2> QED BY <1>i, <1>o, <1>r, <2>2, <2>3, <2>4 DEF Owned
<1>4. CASE Publish(t)
  <2>1. task[t].at = "wrote" /\ Goes(t, "told") /\ "told" \in Places
    BY <1>4, <1>b DEF Publish, Places
  <2>2. depth = 1
    BY <1>r, <2>1 DEF Load
  <2>3. /\ pending' = Append(pending, t)
        /\ UNCHANGED <<depth, client, inUse, open, writes, events, announced>>
    BY <1>4, <2>2 DEF Publish
  <2>4. task'[t].at = "told" /\ task'[t].next = 1 /\ task'[t].root = TRUE
    BY <1>t, <1>b, <1>r, <2>1, Moved
  <2>5. ToSet(pending') = ToSet(pending) \cup {t}
    BY <1>t, <1>b, <2>3, SetOfSeq DEF TypeOK
  <2>6. Owned(t)'
    BY <1>r, <2>1, <2>3, <2>4 DEF Owned
  <2>7. Running(t)'
    BY <1>r, <2>2, <2>3, <2>4, <2>5, <2>6 DEF Running, Load
  <2>8. ~Between(t)' /\ Outset(t)'
    BY <1>c, <2>4 DEF Between, Outset, Idle, Ended
  <2>9. Outcome(t)'
    BY <1>c, <1>r, <2>3, <2>4 DEF Outcome
  <2> QED BY <1>b, <2>3, <2>7, <2>8, <2>9, SoloOf
<1>5. CASE Return(t)
  <2>1. /\ task[t].at = "told" /\ depth' = depth - 1
        /\ task' = [task EXCEPT ![t].at = "persisting", ![t].conn = client]
        /\ UNCHANGED <<client, inUse, open, writes, events, pending, announced>>
    BY <1>5, <1>r DEF Return, buffers
  <2>2. /\ task'[t].at = "persisting" /\ task'[t].conn = client /\ task'[t].next = 1
        /\ task'[t].root = TRUE
    BY <1>t, <1>b, <1>r, <2>1 DEF TypeOK, TaskStates
  <2>3. depth' = 0
    BY <1>r, <2>1 DEF Load
  <2>o. Owned(t)'
    BY <1>r, <2>1, <2>2 DEF Owned
  <2>4. Owned(t)' /\ Persisting(t)'
    <3>1. \A i \in 1 .. Len(pending) : ~(i < 1)
      BY <1>t DEF TypeOK
    <3> QED BY <2>1, <2>2, <2>o, <3>1 DEF Persisting
  <2>5. Running(t)'
    BY <1>r, <2>1, <2>2, <2>3, <2>4 DEF Running, Load
  <2>6. ~Between(t)' /\ Outset(t)'
    BY <1>c, <2>2 DEF Between, Outset, Idle, Ended
  <2>7. Outcome(t)'
    BY <1>c, <1>r, <2>1, <2>2 DEF Outcome
  <2> QED BY <1>b, <2>1, <2>5, <2>6, <2>7, SoloOf
<1>6. CASE Throw(t)
  <2>1. /\ depth' = Less(depth, IF task[t].at = "inner" THEN 2 ELSE 1) /\ pending' = <<>>
        /\ Goes(t, "rolledback") /\ "rolledback" \in Places
        /\ UNCHANGED <<client, inUse, writes, events, announced>>
    BY <1>6, <1>r DEF Throw, Dropped, Places
  <2>2. task'[t].at = "rolledback" /\ task'[t].next = 1 /\ task'[t].root = TRUE
    BY <1>t, <1>b, <1>r, <2>1, Moved
  <2>3. depth' = 0
    BY <1>p, <1>r, <2>1 DEF Load, Less
  <2>4. ToSet(pending') = {}
    BY <2>1 DEF ToSet
  <2>5. Running(t)'
    BY <1>r, <2>1, <2>2, <2>3, <2>4 DEF Running, Load
  <2>6. ~Between(t)' /\ Outset(t)'
    BY <1>c, <2>2 DEF Between, Outset, Idle, Ended
  <2>7. Outcome(t)'
    BY <1>c, <1>r, <2>1, <2>2 DEF Outcome
  <2> QED BY <1>b, <2>1, <2>5, <2>6, <2>7, SoloOf
<1> QED BY <1>1, <1>2, <1>3, <1>4, <1>5, <1>6 DEF Body

(* What follows the transaction: its events are persisted in it, the       *)
(* commit makes all of it visible, and the answer gives the connection     *)
(* back.                                                                   *)
LEMMA EndSolo ==
  ASSUME EngineAssumption, Order, Order', Solo, NEW t \in Ops, End(t)
  PROVE  Solo'
<1> USE DEF At, Cut
<1>s. Step(t)
  BY DEF Step
<1>b. /\ \A u \in Ops : u # t => Idle(u)
      /\ Between(t) => Resting
      /\ ~Between(t) => Running(t)
      /\ \A u \in Tasks : u # t => task'[u] = task[u]
      /\ t \in Tasks /\ t \notin Plain /\ task[t] \in TaskStates
      /\ Outcome(t) /\ Outset(t) /\ announced \subseteq events
      /\ ~Rejects(t) => task'[t].cut = task[t].cut
  BY <1>s, SoloBefore DEF Solo
<1>q. TypeOK
  BY DEF Order
<1>t. TypeOK /\ pending \in Seq(Tasks) /\ Len(pending) \in Nat /\ task[t].next \in Nat \ {0}
  BY <1>b DEF Order, TypeOK, TaskStates
<1>o. <<t, "own">> \in OfTask(t)
  BY DEF OfTask
<1>c. task[t].at # "rolledback" => task[t].cut = "no"
  BY <1>b DEF End, Persist, Commit, Settle, SettleThrows, Rejects, Finish, RolledBack, Outset
<1>n. task'[t].at \notin {"failed", "rolledback"} \/ task[t].at = "rolledback" => task'[t].cut = task[t].cut
  <2>1. Rejects(t) => task[t].at # "rolledback" /\ task'[t].at \in {"failed", "rolledback"}
    BY <1>b, <1>q DEF Rejects, TypeOK, TaskStates
  <2> QED BY <1>b, <2>1
<1>p. ASSUME task[t].at = "persisting"
      PROVE  /\ Running(t) /\ Owned(t) /\ Persisting(t) /\ client \in Clients /\ client # None
             /\ task[t].conn = client /\ open[client].open /\ depth = 0 /\ task[t].root = TRUE
             /\ t \in ToSet(pending) /\ ToSet(pending) \subseteq {t} \cup Plain
             /\ OfTask(t) \cap writes = {} /\ t \notin events
  <2>1. ~Between(t) /\ ~Idle(t)
    BY <1>p DEF Between, Idle, Ended
  <2>2. Running(t) /\ Owned(t) /\ Persisting(t)
    BY <1>b, <1>p, <2>1 DEF Running
  <2>3. client \in Clients /\ client # None /\ depth = 0 /\ t \in ToSet(pending)
        /\ ToSet(pending) \subseteq {t} \cup Plain
    BY <1>p, <2>2 DEF Running, EngineAssumption, Load
  <2>4. task[t].root = TRUE
    BY <1>b, <2>1 DEF Outset
  <2>5. OfTask(t) \cap writes = {} /\ t \notin events
    BY <1>b, <1>c, <1>p DEF Outcome
  <2> QED BY <2>2, <2>3, <2>4, <2>5 DEF Owned, Persisting
<1>1. CASE Persist(t)
  <2>1. /\ task[t].at = "persisting" /\ task[t].next <= Len(pending)
        /\ Send(task[t].conn, {}, {pending[task[t].next]})
        /\ task' = [task EXCEPT ![t].next = task[t].next + 1]
        /\ UNCHANGED <<depth, client, inUse, pending, announced>>
    BY <1>1 DEF Persist, buffers
  <2>2. PICK n \in Nat \ {0} : task' = [task EXCEPT ![t].next = n] /\ n = task[t].next + 1
    <3>1. task[t].next + 1 \in Nat \ {0}
      BY <1>t
    <3> QED BY <2>1, <3>1
  <2>3. /\ task'[t].at = "persisting" /\ task'[t].next = n /\ task'[t].root = task[t].root
        /\ task'[t].conn = task[t].conn
    BY <1>t, <1>b, <2>1, <2>2 DEF TypeOK, TaskStates
  <2>4. /\ open'[client].open /\ open'[client].writes = open[client].writes \cup {}
        /\ open'[client].events = open[client].events \cup {pending[task[t].next]}
        /\ UNCHANGED <<writes, events>>
    <3>1. Send(client, {}, {pending[task[t].next]})
      BY <1>p, <2>1
    <3> QED BY <1>t, <1>p, <2>1, <3>1, SentInside
  <2>5. pending[task[t].next] \in ToSet(pending)
    BY <1>t, <2>1, SetOfSeq
  <2>6. Owned(t)'
    BY <1>p, <2>1, <2>3, <2>4, <2>5 DEF Owned
  <2>7. Persisting(t)'
    <3>1. ASSUME NEW i \in 1 .. Len(pending), i < n PROVE pending[i] \in open'[client].events
      <4>1. CASE i = task[t].next
        BY <2>4, <4>1
      <4>2. CASE i < task[t].next
        BY <1>p, <2>1, <2>4, <4>2 DEF Persisting
      <4> QED BY <1>t, <2>2, <3>1, <4>1, <4>2
    <3> QED BY <1>p, <2>1, <2>3, <3>1 DEF Persisting
  <2>8. Running(t)'
    <3>1. Load(t)' = 0
      BY <2>3 DEF Load
    <3> QED BY <1>p, <2>1, <2>3, <2>6, <2>7, <3>1 DEF Running
  <2>9. ~Between(t)' /\ Outset(t)'
    BY <1>c, <1>b, <1>n, <1>p, <2>1, <2>3 DEF Between, Outset, Idle, Ended
  <2>10. Outcome(t)'
    BY <1>c, <1>b, <1>n, <1>p, <2>1, <2>3, <2>4 DEF Outcome
  <2> QED BY <1>b, <2>1, <2>4, <2>8, <2>9, <2>10, SoloOf
<1>2. CASE Commit(t)
  <2>1. /\ task[t].at = "persisting" /\ task[t].next > Len(pending)
        /\ UNCHANGED <<depth, client, inUse, pending, announced>>
    BY <1>2 DEF Commit, Persisted, buffers
  <2>2. /\ writes' = writes \cup open[client].writes
        /\ events' = events \cup open[client].events
        /\ Goes(t, "committed") /\ "committed" \in Places
    BY <1>2, <1>p, <2>1 DEF Commit, Places
  <2>3. task'[t].at = "committed" /\ task'[t].root = task[t].root
    BY <1>t, <1>b, <2>2, Moved
  <2>4. ToSet(pending) \subseteq open[client].events
    <3>1. \A i \in 1 .. Len(pending) : pending[i] \in open[client].events
      BY <1>t, <1>p, <2>1 DEF Persisting
    <3> QED BY <1>t, <3>1, SetOfSeq
  <2>5. writes \subseteq writes' /\ writes' \subseteq writes \cup OfTask(t) \cup OfPlain
        /\ events \subseteq events' /\ events' \subseteq events \cup {t} \cup Plain
        /\ <<t, "own">> \in writes' /\ t \in events'
    BY <1>p, <2>1, <2>2, <2>4 DEF Owned
  <2>6. Running(t)'
    <3>1. Load(t)' = 0
      BY <2>3 DEF Load
    <3> QED BY <1>p, <2>1, <2>2, <2>3, <2>4, <3>1 DEF Running
  <2>7. ~Between(t)' /\ Outset(t)'
    <3>1. task'[t].root = TRUE
      BY <1>p, <2>1, <2>3
    <3> QED BY <1>b, <1>c, <1>n, <2>1, <2>3, <3>1 DEF Between, Outset, Idle, Ended
  <2>8. Outcome(t)'
    BY <1>c, <1>b, <1>n, <2>3, <2>5 DEF Outcome
  <2>9. announced' \subseteq events'
    BY <1>b, <2>1, <2>5
  <2> QED BY <1>b, <2>5, <2>6, <2>7, <2>8, <2>9, SoloOf
<1>k. ASSUME task[t].at = "committed"
      PROVE  /\ client \in Clients /\ client # None /\ inUse = {client} /\ depth = 0
             /\ ToSet(pending) \subseteq events /\ <<t, "own">> \in writes /\ t \in events
  <2>1. ~Between(t)
    BY <1>k DEF Between, Idle, Ended
  <2>2. Running(t)
    BY <1>b, <2>1
  <2> QED BY <1>b, <1>k, <2>2 DEF Running, EngineAssumption, Load, Outcome
<1>3. CASE Settle(t)
  <2>1. task[t].at = "committed"
    <3>1. task[t].at \in {"settling", "committed"}
      BY <1>3 DEF Settle
    <3>2. CASE task[t].at = "settling"
      <4>1. ~Between(t)
        BY <3>2 DEF Between, Idle, Ended
      <4> QED BY <1>b, <3>2, <4>1 DEF Running
    <3> QED BY <3>1, <3>2
  <2>2. /\ inUse' = inUse \ {client} /\ client' = None
        /\ announced' = announced \cup ToSet(pending) /\ pending' = <<>>
        /\ Goes(t, "publishing") /\ "publishing" \in Places
        /\ UNCHANGED <<depth, writes, events>>
    BY <1>3, <2>1 DEF Settle, Released, Places
  <2>3. task'[t].at = "publishing" /\ task'[t].root = task[t].root
    BY <1>t, <1>b, <2>2, Moved
  <2>4. Between(t)' /\ Resting'
    BY <1>k, <2>1, <2>2, <2>3 DEF Between, Resting
  <2>5. Outset(t)'
    BY <1>c, <1>n, <1>b, <2>1, <2>3 DEF Outset, Idle, Ended
  <2>6. Outcome(t)'
    BY <1>c, <1>b, <1>n, <1>k, <2>1, <2>2, <2>3 DEF Outcome
  <2>7. announced' \subseteq events'
    BY <1>b, <1>k, <2>1, <2>2
  <2> QED BY <1>b, <2>2, <2>4, <2>5, <2>6, <2>7, SoloOf
<1>4. CASE SettleThrows(t)
  BY <1>4, <1>k DEF SettleThrows
<1>5. CASE Finish(t)
  <2>1. task[t].at = "publishing" /\ Goes(t, "done") /\ "done" \in Places /\ Resting
        /\ UNCHANGED <<depth, client, inUse, writes, events, pending, announced>>
    BY <1>5, <1>b DEF Finish, Places, Between
  <2>2. task'[t].at = "done"
    BY <1>t, <1>b, <2>1, Moved
  <2>3. Between(t)' /\ Resting' /\ Outset(t)'
    BY <1>c, <1>b, <1>n, <2>1, <2>2 DEF Between, Resting, Outset, Idle, Ended
  <2>4. Outcome(t)'
    BY <1>c, <1>n, <1>b, <2>1, <2>2 DEF Outcome
  <2> QED BY <1>b, <2>1, <2>3, <2>4, SoloOf
<1>6. CASE RolledBack(t)
  <2>1. task[t].at = "rolledback" /\ Goes(t, "failed") /\ "failed" \in Places
        /\ inUse' = inUse \ {client} /\ client' = None
        /\ UNCHANGED <<depth, writes, events, pending, announced>>
    BY <1>6 DEF RolledBack, Places, Released, buffers
  <2>2. task'[t].at = "failed"
    BY <1>t, <1>b, <2>1, Moved
  <2>3. ~Between(t)
    BY <2>1 DEF Between, Idle, Ended
  <2>4. depth = 0 /\ inUse = {client} /\ pending = <<>>
    BY <1>b, <2>1, <2>3 DEF Running, Load
  <2>5. Between(t)' /\ Resting' /\ Outset(t)'
    BY <1>c, <1>b, <1>n, <2>1, <2>2, <2>4 DEF Between, Resting, Outset, Idle, Ended
  <2>6. Outcome(t)'
    BY <1>c, <1>n, <1>b, <2>1, <2>2 DEF Outcome
  <2> QED BY <1>b, <2>1, <2>5, <2>6, SoloOf
<1>7. CASE Rejects(t)
  <2>1. /\ task[t].at \in {"persisting", "committed", "publishing"} /\ depth' = Less(depth, 1) /\ pending' = <<>>
        /\ UNCHANGED <<client, inUse, writes, events, announced>>
    BY <1>7 DEF Rejects
  <2>2. /\ task'[t].at = (IF client = None THEN "failed" ELSE "rolledback") /\ task'[t].cut = task[t].at
        /\ task'[t].root = task[t].root
    BY <1>7, <1>b, <1>t DEF Rejects, TypeOK, TaskStates
  <2>3. depth = 0 /\ (task[t].at = "publishing" => Resting) /\ (task[t].at # "publishing" => Running(t))
    <3>1. task[t].at = "publishing" => Between(t)
      BY DEF Between
    <3>2. task[t].at \in {"persisting", "committed"} => ~Between(t)
      BY DEF Between, Idle, Ended
    <3> QED BY <1>b, <2>1, <3>1, <3>2 DEF Running, Resting, Load
  <2>4. depth' = 0 /\ ToSet(pending') = {}
    BY <2>1, <2>3 DEF Less, ToSet
  <2>5. Outcome(t)'
    BY <1>b, <1>c, <2>1, <2>2 DEF Outcome
  <2>6. Outset(t)'
    BY <1>b, <2>1, <2>2 DEF Outset, Idle, Ended
  <2>7. CASE client = None
    <3>1. Resting
      BY <2>3, <2>7 DEF Running, EngineAssumption
    <3>2. Between(t)' /\ Resting'
      BY <2>1, <2>2, <2>4, <2>7, <3>1 DEF Between, Idle, Ended, Resting
    <3> QED BY <1>b, <2>1, <2>5, <2>6, <3>2, SoloOf
  <2>8. CASE client # None
    <3>1. Running(t)
      BY <2>3, <2>8 DEF Resting
    <3>2. task'[t].at = "rolledback" /\ Load(t)' = 0
      BY <2>2, <2>8 DEF Load
    <3>3. ~Between(t)'
      BY <3>2 DEF Between, Idle, Ended
    <3>4. Running(t)'
      BY <2>1, <2>4, <3>1, <3>2 DEF Running
    <3> QED BY <1>b, <2>1, <2>5, <2>6, <3>3, <3>4, SoloOf
  <2> QED BY <2>7, <2>8
<1> QED BY <1>1, <1>2, <1>3, <1>4, <1>5, <1>6, <1>7 DEF End

(* A plain activity beside an operation: what it writes is its own, inside *)
(* the transaction or beside it, and what it publishes waits with the      *)
(* operation's events only while the operation is inside.                  *)
LEMMA PlainSolo ==
  ASSUME EngineAssumption, Order, Solo, NEW t \in Plain, Step(t)
  PROVE  Solo'
<1> USE DEF At, Cut
<1>t. TypeOK /\ pending \in Seq(Tasks) /\ t \in Tasks
  BY DEF Order, TypeOK, Tasks
<1>b. /\ Statement(t) \/ Publish(t)
      /\ \A u \in Ops : task'[u] = task[u] /\ t # u
  <2>1. \A u \in Tasks : u # t => task'[u] = task[u]
    BY <1>t, StepType
  <2> QED BY <2>1, PlainSteps DEF Tasks, EngineAssumption
<1>u. ASSUME NEW u \in Ops
      PROVE  /\ Outset(u)' /\ (Between(u)' <=> Between(u)) /\ Load(u)' = Load(u)
  <2>1. Outset(u) /\ task'[u] = task[u]
    BY <1>b DEF Solo
  <2> QED BY <2>1 DEF Outset, Between, Idle, Load
<1>1. CASE Statement(t)
  <2>1. /\ Send(client, {<<t, "own">>}, {})
        /\ UNCHANGED <<depth, client, inUse, pending, announced>>
    BY <1>1 DEF Statement, buffers
  <2>2. <<t, "own">> \in OfPlain /\ \A u \in Ops : <<t, "own">> \notin OfTask(u)
    BY <1>b DEF OfPlain, OfTask
  <2>3. /\ events' = events \cup {} \/ events' = events
        /\ writes' = writes \cup {<<t, "own">>} \/ writes' = writes
    BY <2>1 DEF Send
  <2>4. \A u \in Ops : Outcome(u)'
    <3> SUFFICES ASSUME NEW u \in Ops PROVE Outcome(u)'
      OBVIOUS
    <3>1. Outcome(u) /\ task'[u] = task[u]
      BY <1>b DEF Solo
    <3> QED BY <2>2, <2>3, <3>1 DEF Outcome
  <2>5. (\A u \in Ops : Between(u)') => Resting'
    BY <1>u, <2>1 DEF Solo, Resting
  <2>6. ASSUME NEW u \in Ops, ~Between(u)' PROVE Running(u)'
    <3>1. Running(u) /\ task'[u] = task[u]
      BY <1>u, <1>b, <2>6 DEF Solo
    <3>2. client \in Clients /\ client # None
      BY <3>1 DEF Running, EngineAssumption
    <3>3. ASSUME Owned(u) PROVE Owned(u)' /\ open'[client].events = open[client].events
      <4>1. /\ open'[client].open /\ open'[client].writes = open[client].writes \cup {<<t, "own">>}
            /\ open'[client].events = open[client].events \cup {}
        BY <1>t, <2>1, <3>2, <3>3, SentInside DEF Owned
      <4> QED BY <2>1, <2>2, <3>1, <3>3, <4>1 DEF Owned
    <3>4. task[u].at = "persisting" => Persisting(u)'
      BY <2>1, <3>1, <3>3 DEF Running, Persisting
    <3>5. ToSet(pending) \subseteq events => ToSet(pending)' \subseteq events'
      BY <2>1, <2>3
    <3> QED BY <1>u, <2>1, <3>1, <3>3, <3>4, <3>5 DEF Running
  <2> QED BY <1>u, <2>1, <2>3, <2>4, <2>5, <2>6 DEF Solo
<1>2. CASE Publish(t)
  <2>1. /\ pending' = IF depth > 0 THEN Append(pending, t) ELSE pending
        /\ UNCHANGED <<depth, client, inUse, open, writes, events, announced>>
    BY <1>2 DEF Publish
  <2>2. ToSet(Append(pending, t)) = ToSet(pending) \cup {t}
    BY <1>t, SetOfSeq
  <2>3. \A u \in Ops : Outcome(u)'
    <3> SUFFICES ASSUME NEW u \in Ops PROVE Outcome(u)'
      OBVIOUS
    <3>1. Outcome(u) /\ task'[u] = task[u]
      BY <1>b DEF Solo
    <3> QED BY <2>1, <3>1 DEF Outcome
  <2>4. (\A u \in Ops : Between(u)') => Resting'
    BY <1>u, <2>1 DEF Solo, Resting
  <2>5. ASSUME NEW u \in Ops, ~Between(u)' PROVE Running(u)'
    <3>1. Running(u) /\ task'[u] = task[u]
      BY <1>u, <1>b, <2>5 DEF Solo
    <3>2. Owned(u) => Owned(u)'
      BY <2>1, <3>1 DEF Owned
    <3>3. CASE pending' = pending
      <4>1. Persisting(u) => Persisting(u)'
        BY <2>1, <3>1, <3>3 DEF Persisting
      <4> QED BY <1>u, <2>1, <3>1, <3>2, <3>3, <4>1 DEF Running
    <3>4. CASE pending' # pending
      <4>1. depth > 0 /\ pending' = Append(pending, t)
        BY <2>1, <3>4
      <4>2. ToSet(pending') = ToSet(pending) \cup {t}
        BY <2>2, <4>1
      <4>3. task[u].at \in {"in", "inner", "wrote", "told"}
        BY <3>1, <4>1 DEF Running, Load
      <4> QED BY <1>u, <2>1, <3>1, <3>2, <4>2, <4>3 DEF Running
    <3> QED BY <3>3, <3>4
  <2> QED BY <1>u, <2>1, <2>3, <2>4, <2>5 DEF Solo
<1> QED BY <1>b, <1>1, <1>2

LEMMA SoloNext ==
  ASSUME EngineAssumption, Order, Order', SoloInv, [Next]_vars
  PROVE  SoloInv'
<1> SUFFICES ASSUME Alone' PROVE Solo'
  BY DEF SoloInv
<1>1. CASE UNCHANGED vars
  <2>1. Alone
    BY <1>1 DEF vars, Alone, At
  <2>2. Solo
    BY <2>1 DEF SoloInv
  <2> QED BY <1>1, <2>2 DEF vars, Solo, Outcome, Outset, Between, Resting, Running, Owned, Persisting, Idle, At, Cut, Load
<1>2. ASSUME NEW t \in Tasks, Step(t) PROVE Solo'
  <2>1. /\ \A u \in Tasks : u # t => task'[u] = task[u]
        /\ Route(t, task[t].at, task'[t].at)
    BY <1>2, StepType DEF Order
  <2>2. t \notin Handlers
    <3> SUFFICES ASSUME t \in Handlers PROVE FALSE
      OBVIOUS
    <3>1. task'[t].at = "ready"
      BY DEF Alone, At
    <3> QED BY <2>1, <3>1 DEF Route
  <2>3. Alone
    BY <2>1, <2>2 DEF Alone, At, Tasks
  <2>4. Solo
    BY <2>3 DEF SoloInv
  <2>5. CASE t \in Plain
    BY <1>2, <2>4, <2>5, PlainSolo
  <2>6. CASE t \in Ops
    <3>1. ~Statement(t)
      BY <2>6 DEF Statement, EngineAssumption
    <3> QED BY <1>2, <2>4, <2>6, <3>1, BeginSolo, BodySolo, EndSolo DEF Step
  <2> QED BY <2>2, <2>5, <2>6 DEF Tasks
<1> QED BY <1>1, <1>2 DEF Next, Step

LEMMA SoloIsAtomic ==
  ASSUME EngineAssumption, SoloInv
  PROVE  OperationsAreAtomic
<1> SUFFICES ASSUME Alone, Solo PROVE OperationsAreAtomic
  BY DEF SoloInv, OperationsAreAtomic
<1>1. ASSUME NEW t \in Ops
      PROVE  /\ At(t, {"done"}) => <<t, "own">> \in writes
             /\ At(t, {"failed"}) => IF Cut(t, {"committed", "publishing"})
                                    THEN <<t, "own">> \in writes
                                    ELSE OfTask(t) \cap writes = {}
             /\ (t \in events) = (<<t, "own">> \in writes)
  <2>1. Outcome(t) /\ <<t, "own">> \in OfTask(t)
    BY DEF Solo, OfTask
  <2>2. At(t, {"done"}) => At(t, {"committed", "publishing", "done"})
    BY DEF At
  <2>3. At(t, {"failed"}) => ~At(t, {"committed", "publishing", "done"})
    BY DEF At
  <2>4. CASE <<t, "own">> \in writes /\ t \in events
    BY <2>1, <2>3, <2>4 DEF Outcome
  <2>5. CASE OfTask(t) \cap writes = {} /\ t \notin events
    <3>1. <<t, "own">> \notin writes
      BY <2>1, <2>5
    <3> QED BY <2>1, <2>2, <2>5, <3>1 DEF Outcome
  <2> QED BY <2>1, <2>4, <2>5 DEF Outcome
<1>2. ASSUME Quiet PROVE Resting
  BY <1>2 DEF Quiet, Solo, Between, Idle, Tasks
<1> QED BY <1>1, <1>2 DEF OperationsAreAtomic, Solo, Resting
-----------------------------------------------------------------------------
(* Every state is well typed, a host runs one operation at a time and a    *)
(* polling bus one callback (runEngineOperation, host/src/runtime.ts).     *)
THEOREM HostRunsOneAtATime == ASSUME EngineAssumption PROVE Spec => []Order
<1>1. Init => Order
  BY OrderInit
<1>2. Order /\ [Next]_vars => Order'
  BY OrderNext
<1> QED BY <1>1, <1>2, PTL DEF Spec

(* As long as no callback of the bus has run, whichever bus it is, an      *)
(* operation takes effect as a whole or not at all, its events with it,    *)
(* and leaves nothing behind for the next one, whatever of persistEvents,  *)
(* the COMMIT and the publish fails.  One that throws has taken effect     *)
(* exactly if the COMMIT's answer is lost or the bus cannot publish.       *)
THEOREM OperationsTakeEffectWhole == ASSUME EngineAssumption PROVE Spec => []OperationsAreAtomic
<1>1. Init => Order /\ SoloInv
  BY OrderInit, SoloInit DEF SoloInv
<1>2. Order /\ SoloInv /\ [Next]_vars => (Order /\ SoloInv)'
  BY OrderNext, SoloNext
<1>3. SoloInv => OperationsAreAtomic
  BY SoloIsAtomic
<1> QED BY <1>1, <1>2, <1>3, PTL DEF Spec

(* With the polling bus it is so besides that, unless a commit or a        *)
(* publish has failed, the depth is back at 0 when nothing runs, whatever  *)
(* ran beside what: no operation that follows is taken for a nested one    *)
(* and runs without a transaction of its own.                              *)
THEOREM TransactionsAreAllOrNothing ==
  ASSUME EngineAssumption, Callbacks = "serial" PROVE Spec => []AllOrNothing
<1>1. Init => Order /\ SoloInv /\ DepthTold
  BY OrderInit, SoloInit, DepthInit DEF SoloInv, DepthTold
<1>2. Order /\ SoloInv /\ DepthTold /\ [Next]_vars => (Order /\ SoloInv /\ DepthTold)'
  BY OrderNext, SoloNext, DepthStep
<1>3. SoloInv /\ DepthTold => AllOrNothing
  BY SoloIsAtomic, QuietMeansClosed DEF AllOrNothing, DepthTold, NoneCut
<1> QED BY <1>1, <1>2, <1>3, PTL DEF Spec
-----------------------------------------------------------------------------
(***************************************************************************)
(* Blobs.                                                                  *)
(***************************************************************************)
Subjects == Keys \cup Uploads
Handles == Blob!Inodes \cup {Blob!NoInode}

(* A task has its fields, and these are what its operation has set so far. *)
Shaped(t) ==
  t = [op |-> t.op, at |-> t.at, key |-> t.key, from |-> t.from, up |-> t.up, number |-> t.number, parts |-> t.parts,
       bytes |-> t.bytes, in |-> t.in, out |-> t.out, alone |-> t.alone, touched |-> t.touched]
Does(t, op, places) == t.op = op /\ t.at \in places
OfKey(t) == t.key \in Keys /\ t.up = None
OfUpload(t) == t.key = None /\ t.up \in Uploads
OfBoth(t) == t.key \in Keys /\ t.up \in Uploads
Doing(t) ==
  \/ t = Blob!Idle
  \/ Does(t, "put", {"streaming", "robbed", "stored", "written"}) /\ OfKey(t)
  \/ Does(t, "copy", {"found", "writing", "stored", "written"}) /\ OfKey(t) /\ t.from \in Keys
  \/ Does(t, "delete", {"found", "stored", "written"}) /\ OfKey(t)
  \/ Does(t, "create", {"stored", "written"}) /\ OfBoth(t)
  \/ Does(t, "part", {"found", "writing", "stored", "written"}) /\ OfUpload(t) /\ t.number \in PartNumbers
  \/ Does(t, "complete", {"found", "writing", "assembled", "stored", "written"}) /\ OfBoth(t) /\ t.parts \subseteq PartNumbers
     /\ (t.parts = {} => t.at \in {"stored", "written"})
  \/ Does(t, "abort", {"assembled", "stored", "written"}) /\ OfUpload(t)
  \/ Does(t, "gc", {"stored", "written"}) /\ OfUpload(t)
Touches(t) ==
  IF t.at \in {"idle", "streaming", "found"} \/ t.op \in {"create", "gc"} THEN {}
  ELSE IF t.op = "abort" /\ t.at = "assembled" THEN {}
  ELSE IF t.op = "complete" /\ t.at \in {"writing", "assembled"} THEN {t.key}
  ELSE Blob!Targets(t)
Writing(t) == t.at \in {"streaming", "robbed", "writing"}

TaskOK(t) ==
  /\ Shaped(t) /\ Doing(t) /\ t.alone \in BOOLEAN /\ t.touched = Touches(t)
  /\ IF Writing(t) THEN t.out \in Blob!Inodes ELSE t.out = Blob!NoInode
  /\ IF t.op = "copy" /\ Writing(t) THEN t.in \in Handles ELSE t.in = Blob!NoInode

(* The type invariant. *)
BlobsTypeOK ==
  /\ store \in Stores
  /\ row = [k \in Keys |-> row[k]]
  /\ upload \in [Uploads -> [state : {None, "open"} \cup Blob!Ends, key : Keys \cup {None}]]
  /\ \A u \in Uploads : upload[u].state # None => upload[u].key \in Keys
  /\ part = [u \in Uploads |-> part[u]] /\ \A u \in Uploads : part[u] = [n \in PartNumbers |-> part[u][n]]
  /\ file \in [Blob!Paths -> Handles]
  /\ data = [i \in Blob!Inodes |-> data[i]]
  /\ \A i \in Blob!Inodes : data[i] = [bytes |-> data[i].bytes, mixed |-> data[i].mixed] /\ data[i].mixed \in BOOLEAN
  /\ task = [c \in Clients |-> task[c]] /\ \A c \in Clients : TaskOK(task[c])
  /\ clean \in [Subjects -> BOOLEAN]

(***************************************************************************)
(* Inodes.  No two paths lead to one; one that is written belongs to the   *)
(* path of its writers; nothing leads to one that a put streams into, and  *)
(* nothing but puts writes it.                                             *)
(***************************************************************************)
PathOf(t) == IF t.op = "part" THEN <<t.up, t.number>> ELSE t.key
OnePath == \A p, q \in Blob!Paths : file[p] = file[q] /\ file[p] # Blob!NoInode => p = q
OwnedInodes == \A c \in Clients : Writing(task[c]) => \A p \in Blob!Paths : file[p] = task[c].out => p = PathOf(task[c])
Shared ==
  \A c, d \in Clients : Writing(task[c]) /\ Writing(task[d]) /\ task[c].out = task[d].out =>
    /\ PathOf(task[c]) = PathOf(task[d])
    /\ task[c].at = "streaming" => task[d].at = "streaming"
Apart == \A c \in Clients : Blob!At(c, "put", "streaming") => \A p \in Blob!Paths : file[p] # task[c].out

(* Who is alone has no target in common with another. *)
AloneOnKey == \A c, d \in Clients : c # d /\ task[c].alone => Blob!Targets(task[c]) \cap Blob!Targets(task[d]) = {}

(***************************************************************************)
(* Rows.  No two transactions have written one; what is about to record a  *)
(* part holds the row of an upload that is open; others have no parts, and *)
(* nothing uses one before it is there.                                    *)
(***************************************************************************)
Locks == \A c, d \in Clients : c # d /\ task[c].at = "written" /\ task[d].at = "written" => ~Blob!SameRow(task[c], task[d])
PartsOpen == \A c \in Clients : Blob!At(c, "part", "written") => upload[task[c].up].state = "open"
PartsGone == \A u \in Uploads : upload[u].state # "open" => part[u] = Blob!NoParts
Unmade ==
  \A u \in Uploads : upload[u].state = None =>
    /\ \A n \in PartNumbers : file[<<u, n>>] = Blob!NoInode
    /\ \A c \in Clients : task[c].up = u => task[c].op = "create"
Creating ==
  \A c \in Clients : task[c].op = "create" /\ task[c].up \in Uploads =>
    upload[task[c].up].state = None /\ \A d \in Clients : task[d].up = task[c].up => d = c

(* How far an operation has come that has been alone with its targets. *)
Holds(p, bytes) == file[p] # Blob!NoInode /\ data[file[p]].bytes = bytes
Cleared(u) == \A n \in PartNumbers : file[<<u, n>>] = Blob!NoInode
HasCome(t) ==
  /\ t.at = "streaming" => ~data[t.out].mixed
  /\ t.at = "writing" => file[PathOf(t)] = t.out /\ ~data[t.out].mixed
  /\ t.op \in {"put", "copy", "part"} /\ t.at \in {"stored", "written"} => Holds(PathOf(t), t.bytes)
  /\ t.op = "delete" /\ t.at \in {"stored", "written"} => file[t.key] = Blob!NoInode
  /\ t.op = "complete" /\ t.at \in {"found", "writing"} =>
       /\ upload[t.up].state = "open" /\ t.parts = Blob!RecordedParts(t.up)
       /\ t.bytes = Blob!Joined([n \in t.parts |-> part[t.up][n]])
  /\ t.op = "complete" /\ t.at \in {"assembled", "stored", "written"} /\ clean[t.up] => Holds(t.key, t.bytes)
  /\ t.op \in {"complete", "abort"} /\ t.at \in {"stored", "written"} /\ t.parts = {} => Cleared(t.up)
AloneCome == \A c \in Clients : task[c].alone => HasCome(task[c])

(* What is clean and has not been touched agrees, a part too if another    *)
(* part of its upload is touched by who is alone with it.                  *)
KeysSettled == \A k \in Keys : clean[k] /\ (\A c \in Clients : k \notin task[c].touched) => Blob!Agrees(row[k], k)
Beside(t, u, n) == u \in t.touched => t.alone /\ t.op = "part" /\ t.number # n
PartsSettled ==
  \A u \in Uploads, n \in PartNumbers :
    clean[u] /\ upload[u].state # "gc" /\ (\A c \in Clients : Beside(task[c], u, n)) => Blob!Agrees(part[u][n], <<u, n>>)

(* Where objects are only put and deleted, each put has a file of its own. *)
OnlyPuts == store.kinds \subseteq {"put", "delete"} /\ ~store.sameMs
Puts(t) == t.at = "idle" \/ t.op = "delete" \/ (t.op = "put" /\ t.bytes # Torn)
Whole ==
  OnlyPuts =>
    /\ \A c \in Clients : Puts(task[c])
    /\ \A c \in Clients : Writing(task[c]) =>
         ~data[task[c].out].mixed /\ task[c].at = "streaming" /\ \A d \in Clients : c # d /\ Writing(task[d]) => task[d].out # task[c].out
    /\ \A k \in Keys : file[k] # Blob!NoInode => data[file[k]].bytes # Torn

BlobsInv ==
  /\ BlobsTypeOK /\ OnePath /\ OwnedInodes /\ Shared /\ Apart /\ AloneOnKey
  /\ Locks /\ PartsOpen /\ PartsGone /\ Unmade /\ Creating
  /\ AloneCome /\ KeysSettled /\ PartsSettled /\ Whole
-----------------------------------------------------------------------------
(* There is always an inode that is free: for every path, and for every    *)
(* client the two that it may have opened.                                 *)
LEMMA ImageIs ==
  ASSUME NEW S, IsFiniteSet(S), NEW f, DOMAIN f = S
  PROVE  LET T == {f[x] : x \in S} IN IsFiniteSet(T) /\ Cardinality(T) \in Nat /\ Cardinality(T) <= Cardinality(S)
<1> DEFINE T == {f[x] : x \in S}
           g == [x \in S |-> f[x]]
<1>1. g \in Surjection(S, T)
  BY DEF Surjection
<1> HIDE DEF T, g
<1>2. IsFiniteSet(T) /\ Cardinality(T) <= Cardinality(S)
  BY <1>1, FS_Surjection
<1>3. Cardinality(T) \in Nat
  BY <1>2, FS_CardinalityType
<1> QED BY <1>2, <1>3 DEF T

(* Blobs has finite sets of its own, and they are those of this module. *)
LEMMA SameFinite == ASSUME NEW S PROVE Blob!IsFiniteSet(S) <=> IsFiniteSet(S)
BY DEF Blob!IsFiniteSet, IsFiniteSet

LEMMA SameCardinality == ASSUME NEW S PROVE Blob!Cardinality(S) = Cardinality(S)
BY DEF Blob!Cardinality, Cardinality

LEMMA FiniteSets ==
  ASSUME Blob!BlobsAssumption
  PROVE  IsFiniteSet(Clients) /\ IsFiniteSet(Keys) /\ IsFiniteSet(Uploads) /\ IsFiniteSet(PartNumbers)
BY SameFinite DEF Blob!BlobsAssumption

LEMMA Sizes ==
  ASSUME Blob!BlobsAssumption
  PROVE  /\ IsFiniteSet(Blob!Paths) /\ Cardinality(Blob!Paths) \in Nat /\ Cardinality(Clients) \in Nat
         /\ Cardinality(Blob!Inodes) = Cardinality(Blob!Paths) + 2 * Cardinality(Clients)
         /\ Blob!Inodes \subseteq Nat /\ Blob!NoInode \notin Blob!Inodes
<1>1. IsFiniteSet(Uploads \X PartNumbers)
  BY FiniteSets, FS_Product
<1>2. IsFiniteSet(Blob!Paths) /\ Cardinality(Blob!Paths) \in Nat /\ Cardinality(Clients) \in Nat
  <2>1. IsFiniteSet(Keys) /\ IsFiniteSet(Clients)
    BY FiniteSets
  <2>2. IsFiniteSet(Blob!Paths)
    BY <1>1, <2>1, FS_Union DEF Blob!Paths
  <2> QED BY <2>1, <2>2, FS_CardinalityType
<1> DEFINE n == Cardinality(Blob!Paths) + 2 * Cardinality(Clients)
<1>3. n \in Nat /\ Blob!Inodes = 1 .. n
  BY <1>2, SameCardinality DEF Blob!Inodes
<1>4. Cardinality(1 .. n) = n
  <2> HIDE DEF n
  <2> QED BY <1>3, FS_Interval
<1> QED BY <1>2, <1>3, <1>4 DEF Blob!NoInode

LEMMA SomeFree ==
  ASSUME Blob!BlobsAssumption, BlobsTypeOK, NEW P \in SUBSET Blob!Paths, NEW C \in SUBSET Clients,
         \A p \in Blob!Paths \ P : file[p] = Blob!NoInode,
         \A c \in Clients \ C : task[c].in = Blob!NoInode /\ task[c].out = Blob!NoInode,
         Cardinality(P) + 2 * Cardinality(C) < Cardinality(Blob!Inodes)
  PROVE  Blob!Fresh \in Blob!Inodes /\ ~Blob!InUse(Blob!Fresh)
<1> SUFFICES ASSUME \A i \in Blob!Inodes : Blob!InUse(i) PROVE FALSE
  BY DEF Blob!Fresh
<1>1. IsFiniteSet(P) /\ IsFiniteSet(C) /\ Cardinality(P) \in Nat /\ Cardinality(C) \in Nat
  BY Sizes, FiniteSets, FS_Subset, FS_CardinalityType
<1> DEFINE f == [p \in P |-> file[p]]
           g == [c \in C |-> task[c].in]
           h == [c \in C |-> task[c].out]
           F == {f[p] : p \in P}
           G == {g[c] : c \in C}
           H == {h[c] : c \in C}
<1>2. IsFiniteSet(F) /\ Cardinality(F) \in Nat /\ Cardinality(F) <= Cardinality(P)
  BY <1>1, ImageIs
<1>3. IsFiniteSet(G) /\ Cardinality(G) \in Nat /\ Cardinality(G) <= Cardinality(C)
  BY <1>1, ImageIs
<1>4. IsFiniteSet(H) /\ Cardinality(H) \in Nat /\ Cardinality(H) <= Cardinality(C)
  BY <1>1, ImageIs
<1>5. Blob!Inodes \subseteq F \cup G \cup H
  <2> SUFFICES ASSUME NEW i \in Blob!Inodes PROVE i \in F \cup G \cup H
    OBVIOUS
  <2>1. i # Blob!NoInode /\ Blob!InUse(i)
    BY Sizes
  <2>2. CASE \E p \in Blob!Paths : file[p] = i
    BY <2>1, <2>2
  <2>3. CASE \E c \in Clients : i \in {task[c].in, task[c].out}
    BY <2>1, <2>3
  <2> QED BY <2>1, <2>2, <2>3 DEF Blob!InUse
<1> HIDE DEF F, G, H
<1>6. /\ IsFiniteSet(F \cup G) /\ Cardinality(F \cup G) \in Nat
      /\ Cardinality(F \cup G) <= Cardinality(F) + Cardinality(G)
  <2>1. IsFiniteSet(F \cap G) /\ Cardinality(F \cap G) \in Nat
    <3>1. IsFiniteSet(F \cap G)
      BY <1>2, FS_Intersection
    <3> QED BY <3>1, FS_CardinalityType
  <2>2. IsFiniteSet(F \cup G) /\ Cardinality(F \cup G) = Cardinality(F) + Cardinality(G) - Cardinality(F \cap G)
    BY <1>2, <1>3, FS_Union
  <2>3. Cardinality(F \cup G) \in Nat
    BY <2>2, FS_CardinalityType
  <2> QED BY <1>2, <1>3, <2>1, <2>2, <2>3
<1>7. /\ IsFiniteSet(F \cup G \cup H) /\ Cardinality(F \cup G \cup H) \in Nat
      /\ Cardinality(F \cup G \cup H) <= Cardinality(F \cup G) + Cardinality(H)
  <2>1. IsFiniteSet((F \cup G) \cap H) /\ Cardinality((F \cup G) \cap H) \in Nat
    <3>1. IsFiniteSet((F \cup G) \cap H)
      BY <1>6, FS_Intersection
    <3> QED BY <3>1, FS_CardinalityType
  <2>2. /\ IsFiniteSet(F \cup G \cup H)
        /\ Cardinality(F \cup G \cup H) = Cardinality(F \cup G) + Cardinality(H) - Cardinality((F \cup G) \cap H)
    BY <1>4, <1>6, FS_Union
  <2>3. Cardinality(F \cup G \cup H) \in Nat
    BY <2>2, FS_CardinalityType
  <2> QED BY <1>4, <1>6, <2>1, <2>2, <2>3
<1>8. Cardinality(Blob!Inodes) \in Nat /\ Cardinality(Blob!Inodes) <= Cardinality(F \cup G \cup H)
  BY <1>5, <1>7, FS_Subset, FS_CardinalityType
<1> QED BY <1>1, <1>2, <1>3, <1>4, <1>6, <1>7, <1>8
-----------------------------------------------------------------------------
(* The constants keep paths, subjects and places apart. *)
LEMMA Constants ==
  ASSUME Blob!BlobsAssumption
  PROVE  /\ Keys \subseteq Blob!Paths /\ \A u \in Uploads, n \in PartNumbers : <<u, n>> \in Blob!Paths /\ <<u, n>> \notin Keys
         /\ \A p \in Blob!Paths \ Keys : \E u \in Uploads, n \in PartNumbers : p = <<u, n>>
         /\ Keys \cap Uploads = {} /\ None \notin Keys /\ None \notin Uploads /\ None \notin Blob!Kinds /\ None # "open"
<1>1. Keys \subseteq Blob!Paths /\ Keys \cap Uploads = {} /\ None \notin Keys /\ None \notin Uploads /\ None \notin Blob!Kinds /\ None # "open"
  BY DEF Blob!BlobsAssumption, Blob!Paths
<1>2. ASSUME NEW u \in Uploads, NEW n \in PartNumbers PROVE <<u, n>> \in Blob!Paths /\ <<u, n>> \notin Keys
  <2>1. <<u, n>> \in Uploads \X PartNumbers
    OBVIOUS
  <2> QED BY <2>1 DEF Blob!BlobsAssumption, Blob!Paths
<1>3. ASSUME NEW p \in Blob!Paths \ Keys PROVE \E u \in Uploads, n \in PartNumbers : p = <<u, n>>
  <2>1. p \in Uploads \X PartNumbers
    BY DEF Blob!Paths
  <2> QED BY <2>1
<1> QED BY <1>1, <1>2, <1>3

(* What is known of a task. *)
LEMMA TaskIs ==
  ASSUME Blob!BlobsAssumption, BlobsTypeOK, NEW c \in Clients
  PROVE  /\ TaskOK(task[c])
         /\ Blob!Targets(task[c]) \subseteq Subjects /\ task[c].touched \subseteq Blob!Targets(task[c])
         /\ Writing(task[c]) => task[c].out \in Blob!Inodes /\ PathOf(task[c]) \in Blob!Paths
         /\ task[c] = Blob!Idle <=> task[c].at = "idle"
         /\ Blob!Targets(Blob!Idle) = {} /\ TaskOK(Blob!Idle)
<1> DEFINE t == task[c]
<1>1. TaskOK(t)
  BY DEF BlobsTypeOK
<1> HIDE DEF t
<1>2. None \notin Keys /\ None \notin Uploads
  BY Constants
<1>3. /\ Blob!Targets(t) \subseteq Subjects /\ Touches(t) \subseteq Blob!Targets(t)
      /\ t = Blob!Idle <=> t.at = "idle"
  BY <1>1, <1>2 DEF TaskOK, Doing, Does, OfKey, OfUpload, OfBoth, Blob!Targets, Subjects, Touches, Blob!Idle
<1>4. Writing(t) => t.out \in Blob!Inodes /\ PathOf(t) \in Blob!Paths
  BY <1>1, Constants DEF TaskOK, Doing, Does, OfKey, OfUpload, OfBoth, Writing, PathOf, Blob!Idle
<1>5. Blob!Targets(Blob!Idle) = {} /\ TaskOK(Blob!Idle)
  BY DEF TaskOK, Doing, Shaped, Touches, Writing, Blob!Targets, Blob!Idle
<1> QED BY <1>1, <1>3, <1>4, <1>5 DEF t, TaskOK
-----------------------------------------------------------------------------
(* What a path holds belongs to a key or to an upload; a step leaves a     *)
(* path alone, or a task has reached it.                                   *)
Subject(p) == IF p \in Keys THEN p ELSE p[1]
SamePath(p) == file'[p] = file[p] /\ (file[p] # Blob!NoInode => data'[file[p]] = data[file[p]])
Reached(t, p) == Subject(p) \in t.touched /\ (t.op = "part" => p = PathOf(t))

LEMMA SubjectIs ==
  ASSUME Blob!BlobsAssumption
  PROVE  /\ \A k \in Keys : Subject(k) = k
         /\ \A u \in Uploads, n \in PartNumbers : Subject(<<u, n>>) = u
BY Constants DEF Subject

LEMMA AloneStays ==
  ASSUME AloneOnKey, \A d \in Clients : \/ Blob!Targets(task'[d]) = {}
                                        \/ Blob!Targets(task'[d]) = Blob!Targets(task[d]) /\ (task'[d].alone => task[d].alone)
  PROVE  AloneOnKey'
BY DEF AloneOnKey

LEMMA InodesStay ==
  ASSUME Blob!BlobsAssumption, BlobsTypeOK, OnePath, OwnedInodes, Shared, Apart,
         \A p \in Blob!Paths : file'[p] \in {file[p], Blob!NoInode},
         \A d \in Clients : Writing(task'[d]) =>
           /\ Writing(task[d]) /\ task'[d].out = task[d].out /\ PathOf(task'[d]) = PathOf(task[d])
           /\ task'[d].at = task[d].at /\ task'[d].op = task[d].op
  PROVE  OnePath' /\ OwnedInodes' /\ Shared' /\ Apart'
<1>1. OnePath'
  BY DEF OnePath
<1>2. Blob!NoInode \notin Blob!Inodes
  BY Sizes
<1>3. OwnedInodes'
  BY <1>2, TaskIs DEF OwnedInodes, BlobsTypeOK
<1>4. Shared'
  BY DEF Shared
<1>5. Apart'
  BY <1>2, TaskIs DEF Apart, Blob!At, Writing
<1> QED BY <1>1, <1>3, <1>4, <1>5

(* Who is alone with its targets has come as far if another one takes a    *)
(* step.                                                                   *)
LEMMA OthersCome ==
  ASSUME Blob!BlobsAssumption, BlobsTypeOK, AloneCome, NEW d \in Clients, NEW t, task[d] = t, t.alone,
         NEW T, T \cap Blob!Targets(t) = {},
         \A p \in Blob!Paths : SamePath(p) \/ Subject(p) \in T,
         Writing(t) => data'[t.out].mixed = data[t.out].mixed,
         \A u \in Uploads \ T : upload'[u] = upload[u] /\ part'[u] = part[u] /\ (clean'[u] => clean[u])
  PROVE  HasCome(t)'
<1>1. TaskOK(t) /\ HasCome(t) /\ None \notin Keys /\ None \notin Uploads
  BY TaskIs, Constants DEF AloneCome
<1>2. ASSUME t.key \in Keys PROVE SamePath(t.key)
  BY <1>1, <1>2, SubjectIs, Constants DEF Blob!Targets
<1>3. ASSUME t.up \in Uploads
      PROVE  /\ upload'[t.up] = upload[t.up] /\ part'[t.up] = part[t.up] /\ (clean'[t.up] => clean[t.up])
             /\ \A n \in PartNumbers : SamePath(<<t.up, n>>)
  BY <1>1, <1>3, SubjectIs, Constants DEF Blob!Targets
<1>4. t.at = "idle" \/ t.key \in Keys \/ t.op \notin {"put", "copy", "delete", "complete"}
  BY <1>1 DEF TaskOK, Doing, Does, OfKey, OfBoth, OfUpload, Blob!Idle
<1>5. t.at = "idle" \/ (t.up \in Uploads /\ t.number \in PartNumbers) \/ t.op # "part"
  BY <1>1 DEF TaskOK, Doing, Does, OfKey, OfBoth, OfUpload, Blob!Idle
<1>6. t.at = "idle" \/ t.up \in Uploads \/ t.op \notin {"complete", "abort"}
  BY <1>1 DEF TaskOK, Doing, Does, OfKey, OfBoth, OfUpload, Blob!Idle
<1>7. (t.at = "streaming" => t.op = "put") /\ (t.at = "writing" => t.op \in {"copy", "part", "complete"})
  BY <1>1 DEF TaskOK, Doing, Does, OfKey, OfBoth, OfUpload, Blob!Idle
<1>8. (t.at = "streaming" => ~data[t.out].mixed)'
  BY <1>1 DEF HasCome, Writing
<1>9. (t.at = "writing" => file[PathOf(t)] = t.out /\ ~data[t.out].mixed)'
  BY <1>1, <1>2, <1>3, <1>4, <1>5, <1>7 DEF HasCome, Writing, PathOf, SamePath
<1>10. (t.op \in {"put", "copy", "part"} /\ t.at \in {"stored", "written"} => Holds(PathOf(t), t.bytes))'
  BY <1>1, <1>2, <1>3, <1>4, <1>5 DEF HasCome, PathOf, SamePath, Holds
<1>11. (t.op = "delete" /\ t.at \in {"stored", "written"} => file[t.key] = Blob!NoInode)'
  BY <1>1, <1>2, <1>4 DEF HasCome, SamePath
<1>12. (t.op = "complete" /\ t.at \in {"found", "writing"} =>
          /\ upload[t.up].state = "open" /\ t.parts = Blob!RecordedParts(t.up)
          /\ t.bytes = Blob!Joined([n \in t.parts |-> part[t.up][n]]))'
  BY <1>1, <1>3, <1>6 DEF HasCome, Blob!RecordedParts
<1>13. (t.op = "complete" /\ t.at \in {"assembled", "stored", "written"} /\ clean[t.up] => Holds(t.key, t.bytes))'
  BY <1>1, <1>2, <1>3, <1>4, <1>6 DEF HasCome, SamePath, Holds
<1>14. (t.op \in {"complete", "abort"} /\ t.at \in {"stored", "written"} /\ t.parts = {} => Cleared(t.up))'
  BY <1>1, <1>3, <1>6 DEF HasCome, SamePath, Cleared
<1> QED BY <1>8, <1>9, <1>10, <1>11, <1>12, <1>13, <1>14 DEF HasCome
-----------------------------------------------------------------------------
(* What a step keeps of the invariant, except for what is about puts only. *)
Kept(t, new) ==
  /\ new.op = t.op /\ new.key = t.key /\ new.from = t.from /\ new.up = t.up /\ new.number = t.number
  /\ new.alone = t.alone /\ t.touched \subseteq new.touched
FilesOK ==
  /\ file \in [Blob!Paths -> Handles] /\ data = [i \in Blob!Inodes |-> data[i]]
  /\ \A i \in Blob!Inodes : data[i] = [bytes |-> data[i].bytes, mixed |-> data[i].mixed] /\ data[i].mixed \in BOOLEAN
Steady == Blob!BlobsAssumption /\ BlobsInv
KeptInv ==
  /\ BlobsTypeOK /\ OnePath /\ OwnedInodes /\ Shared /\ Apart /\ AloneOnKey
  /\ Locks /\ PartsOpen /\ PartsGone /\ Unmade /\ Creating
  /\ AloneCome /\ KeysSettled /\ PartsSettled

LEMMA TypeStays ==
  ASSUME BlobsTypeOK, UNCHANGED <<store, row, upload, part>>, FilesOK', clean' \in [Subjects -> BOOLEAN],
         task' = [c \in Clients |-> task'[c]], \A c \in Clients : TaskOK(task'[c])
  PROVE  BlobsTypeOK'
BY DEF BlobsTypeOK, FilesOK

(* A task goes on with what it does. *)
LEMMA Advance ==
  ASSUME Steady, NEW c \in Clients, NEW new,
         task[c] # Blob!Idle, task' = [task EXCEPT ![c] = new], TaskOK(new), new.at # "idle", Kept(task[c], new),
         UNCHANGED <<store, row, upload, part, clean>>, FilesOK',
         OnePath', OwnedInodes', Shared', Apart',
         \A p \in Blob!Paths : SamePath(p) \/ Reached(new, p),
         \A d \in Clients \ {c} : Writing(task[d]) /\ Blob!Targets(new) \cap Blob!Targets(task[d]) = {} =>
           data'[task[d].out].mixed = data[task[d].out].mixed,
         new.at = "written" => ~Blob!Waits(c) /\ Blob!HasUpload(c),
         new.alone => HasCome(new)'
  PROVE  KeptInv'
<1>1. Blob!BlobsAssumption /\ BlobsTypeOK
  BY DEF Steady, BlobsInv
<1>2. task'[c] = new /\ \A d \in Clients : d # c => task'[d] = task[d]
  BY <1>1 DEF BlobsTypeOK
<1>3. BlobsTypeOK'
  <2>1. task' = [d \in Clients |-> task'[d]] /\ \A d \in Clients : TaskOK(task'[d])
    BY <1>1, <1>2, TaskIs DEF BlobsTypeOK
  <2> QED BY <1>1, <2>1, TypeStays DEF BlobsTypeOK
<1>4. Blob!Targets(new) = Blob!Targets(task[c]) /\ new.touched \subseteq Blob!Targets(new)
  <2>1. None \notin Keys /\ None \notin Uploads
    BY <1>1, Constants
  <2> QED BY <2>1 DEF Kept, Blob!Targets, TaskOK, Touches, Doing, Does, OfKey, OfUpload, OfBoth, Blob!Idle
<1>5. AloneOnKey'
  BY <1>2, <1>4, AloneStays DEF Steady, BlobsInv, Kept
<1>6. Locks'
  <2> SUFFICES ASSUME NEW d \in Clients, NEW e \in Clients, d # e, task'[d].at = "written", task'[e].at = "written"
               PROVE  ~Blob!SameRow(task'[d], task'[e])
    BY DEF Locks
  <2>1. CASE d # c /\ e # c
    BY <1>2, <2>1 DEF Steady, BlobsInv, Locks
  <2>2. CASE d = c
    BY <1>2, <1>4, <2>2 DEF Blob!Waits, Blob!SameRow, Kept
  <2>3. CASE e = c
    BY <1>2, <1>4, <2>3 DEF Blob!Waits, Blob!SameRow, Kept
  <2> QED BY <2>1, <2>2, <2>3
<1>7. PartsOpen' /\ PartsGone'
  <2>1. \A d \in Clients : Blob!At(d, "part", "written")' => upload[task'[d].up].state = "open"
    BY <1>2 DEF Steady, BlobsInv, PartsOpen, Blob!HasUpload, Blob!At, Kept
  <2> QED BY <2>1 DEF Steady, BlobsInv, PartsOpen, PartsGone, Blob!NoParts
<1>8. Unmade'
  <2> SUFFICES ASSUME NEW u \in Uploads, upload[u].state = None
               PROVE  /\ \A n \in PartNumbers : file'[<<u, n>>] = Blob!NoInode
                      /\ \A d \in Clients : task'[d].up = u => task'[d].op = "create"
    BY DEF Unmade
  <2>1. /\ \A n \in PartNumbers : file[<<u, n>>] = Blob!NoInode
        /\ \A d \in Clients : task[d].up = u => task[d].op = "create"
    BY DEF Steady, BlobsInv, Unmade
  <2>2. \A d \in Clients : task'[d].up = u => task'[d].op = "create"
    BY <1>2, <2>1 DEF Kept
  <2>3. ASSUME NEW n \in PartNumbers PROVE file'[<<u, n>>] = Blob!NoInode
    <3>1. <<u, n>> \in Blob!Paths /\ Subject(<<u, n>>) = u
      BY <1>1, Constants, SubjectIs
    <3>2. u \notin new.touched
      <4> SUFFICES ASSUME u \in new.touched PROVE FALSE
        OBVIOUS
      <4>1. new.up = u
        BY <1>1, <1>4, Constants DEF Blob!Targets, TaskOK, Doing, Does, OfKey, OfUpload, OfBoth, Blob!Idle
      <4>2. new.op = "create"
        BY <1>2, <2>2, <4>1
      <4> QED BY <4>2 DEF TaskOK, Touches
    <3> QED BY <2>1, <3>1, <3>2 DEF Reached, SamePath
  <2> QED BY <2>2, <2>3
<1>12. Creating'
  BY <1>2 DEF Steady, BlobsInv, Creating, Kept
<1>9. AloneCome'
  <2> SUFFICES ASSUME NEW d \in Clients, task'[d].alone PROVE HasCome(task[d])'
    BY DEF AloneCome
  <2>1. CASE d = c
    BY <1>2, <2>1
  <2>2. CASE d # c
    <3>1. PICK t : t = task[d]
      OBVIOUS
    <3>2. task'[d] = t /\ t.alone
      BY <1>2, <2>2, <3>1
    <3> DEFINE T == Blob!Targets(new)
    <3>3. T \cap Blob!Targets(t) = {}
      BY <1>4, <2>2, <3>1, <3>2 DEF Steady, BlobsInv, AloneOnKey
    <3>4. \A p \in Blob!Paths : SamePath(p) \/ Subject(p) \in T
      BY <1>4 DEF Reached
    <3>5. Writing(t) => data'[t.out].mixed = data[t.out].mixed
      BY <2>2, <3>1, <3>3
    <3> HIDE DEF T
    <3>6. HasCome(t)'
      BY <1>1, <3>1, <3>2, <3>3, <3>4, <3>5, OthersCome DEF Steady, BlobsInv
    <3> QED BY <3>2, <3>6
  <2> QED BY <2>1, <2>2
<1>10. KeysSettled'
  <2> SUFFICES ASSUME NEW k \in Keys, clean[k], \A d \in Clients : k \notin task'[d].touched
               PROVE  Blob!Agrees(row[k], k)'
    BY DEF KeysSettled
  <2>1. k \notin new.touched /\ \A d \in Clients : k \notin task[d].touched
    BY <1>2 DEF Kept
  <2>2. SamePath(k)
    BY <1>1, <2>1, Constants, SubjectIs DEF Reached
  <2>3. Blob!Agrees(row[k], k)
    BY <2>1 DEF Steady, BlobsInv, KeysSettled
  <2> QED BY <2>2, <2>3 DEF Blob!Agrees, SamePath
<1>11. PartsSettled'
  <2> SUFFICES ASSUME NEW u \in Uploads, NEW n \in PartNumbers, clean[u], upload[u].state # "gc",
                      \A d \in Clients : Beside(task'[d], u, n)
               PROVE  Blob!Agrees(part[u][n], <<u, n>>)'
    BY DEF PartsSettled
  <2>1. Beside(new, u, n) /\ \A d \in Clients : Beside(task[d], u, n)
    BY <1>2 DEF Kept, Beside
  <2>2. SamePath(<<u, n>>)
    <3>1. <<u, n>> \in Blob!Paths /\ Subject(<<u, n>>) = u
      BY <1>1, Constants, SubjectIs
    <3>2. ~Reached(new, <<u, n>>)
      BY <2>1, <3>1 DEF Reached, Beside, PathOf
    <3> QED BY <3>1, <3>2
  <2>3. Blob!Agrees(part[u][n], <<u, n>>)
    BY <2>1 DEF Steady, BlobsInv, PartsSettled
  <2> QED BY <2>2, <2>3 DEF Blob!Agrees, SamePath
<1> QED BY <1>3, <1>5, <1>6, <1>7, <1>8, <1>9, <1>10, <1>11, <1>12 DEF KeptInv

(* A task ends without success: its rows stay as they were, and what it    *)
(* leaves in doubt does not count as clean.                                *)
LEMMA GivesUp ==
  ASSUME Steady, NEW c \in Clients, task[c] # Blob!Idle, task' = [task EXCEPT ![c] = Blob!Idle],
         NEW T, T \subseteq Blob!Targets(task[c]), task[c].touched \subseteq T,
         clean' \in [Subjects -> BOOLEAN], \A x \in Subjects : clean'[x] <=> clean[x] /\ x \notin T,
         UNCHANGED <<store, row, upload, part>>, FilesOK',
         \A p \in Blob!Paths : file'[p] \in {file[p], Blob!NoInode} /\ (SamePath(p) \/ Subject(p) \in T),
         \A d \in Clients \ {c} : Writing(task[d]) /\ Blob!Targets(task[c]) \cap Blob!Targets(task[d]) = {} =>
           data'[task[d].out].mixed = data[task[d].out].mixed
  PROVE  KeptInv'
<1>1. Blob!BlobsAssumption /\ BlobsTypeOK
  BY DEF Steady, BlobsInv
<1>2. task'[c] = Blob!Idle /\ \A d \in Clients : d # c => task'[d] = task[d]
  BY <1>1 DEF BlobsTypeOK
<1>4. BlobsTypeOK'
  <2>1. task' = [d \in Clients |-> task'[d]] /\ \A d \in Clients : TaskOK(task'[d])
    BY <1>1, <1>2, TaskIs DEF BlobsTypeOK
  <2> QED BY <1>1, <2>1, TypeStays
<1>5. /\ Blob!Targets(Blob!Idle) = {} /\ Blob!Idle.at = "idle" /\ ~Writing(Blob!Idle) /\ Blob!Idle.touched = {} /\ Blob!Idle.up = None
      /\ None \notin Uploads /\ task[c].touched \subseteq Blob!Targets(task[c])
  BY <1>1, Constants, TaskIs DEF Blob!Idle, Writing
<1>6. AloneOnKey'
  BY <1>2, <1>5, AloneStays DEF Steady, BlobsInv
<1>7. OnePath' /\ OwnedInodes' /\ Shared' /\ Apart'
  BY <1>1, <1>2, <1>5, InodesStay DEF Steady, BlobsInv
<1>8. Locks' /\ PartsOpen' /\ PartsGone'
  BY <1>2, <1>5 DEF Steady, BlobsInv, Locks, PartsOpen, PartsGone, Blob!At, Blob!NoParts
<1>13. Unmade'
  <2>1. \A u \in Uploads, n \in PartNumbers : file[<<u, n>>] = Blob!NoInode => file'[<<u, n>>] = Blob!NoInode
    BY <1>1, Constants
  <2> QED BY <1>2, <1>5, <2>1 DEF Steady, BlobsInv, Unmade
<1>12. Creating'
  <2>1. ASSUME NEW d \in Clients, task'[d].up \in Uploads PROVE task'[d] = task[d]
    BY <1>2, <1>5, <2>1
  <2> QED BY <1>2, <1>5, <2>1 DEF Steady, BlobsInv, Creating
<1>9. AloneCome'
  <2> SUFFICES ASSUME NEW d \in Clients, task'[d].alone, d # c PROVE HasCome(task[d])'
    <3>1. HasCome(Blob!Idle)'
      BY DEF HasCome, Blob!Idle
    <3> QED BY <1>2, <3>1 DEF AloneCome
  <2>1. PICK t : t = task[d]
    OBVIOUS
  <2>2. task'[d] = t /\ t.alone
    BY <1>2, <2>1
  <2> DEFINE S == Blob!Targets(task[c])
  <2>3. S \cap Blob!Targets(t) = {}
    BY <2>1, <2>2 DEF Steady, BlobsInv, AloneOnKey
  <2>4. \A p \in Blob!Paths : SamePath(p) \/ Subject(p) \in S
    OBVIOUS
  <2>5. Writing(t) => data'[t.out].mixed = data[t.out].mixed
    BY <2>1, <2>3
  <2>6. \A u \in Uploads \ S : upload'[u] = upload[u] /\ part'[u] = part[u] /\ (clean'[u] => clean[u])
    BY DEF Subjects
  <2> HIDE DEF S
  <2>7. HasCome(t)'
    BY <1>1, <2>1, <2>2, <2>3, <2>4, <2>5, <2>6, OthersCome DEF Steady, BlobsInv
  <2> QED BY <2>2, <2>7
<1>10. KeysSettled'
  <2> SUFFICES ASSUME NEW k \in Keys, clean'[k], \A d \in Clients : k \notin task'[d].touched
               PROVE  Blob!Agrees(row[k], k)'
    BY DEF KeysSettled
  <2>1. clean[k] /\ k \notin T /\ \A d \in Clients : k \notin task[d].touched
    BY <1>2 DEF Subjects
  <2>2. SamePath(k)
    BY <1>1, <2>1, Constants, SubjectIs
  <2>3. Blob!Agrees(row[k], k)
    BY <2>1 DEF Steady, BlobsInv, KeysSettled
  <2> QED BY <2>2, <2>3 DEF Blob!Agrees, SamePath
<1>11. PartsSettled'
  <2> SUFFICES ASSUME NEW u \in Uploads, NEW n \in PartNumbers, clean'[u], upload[u].state # "gc",
                      \A d \in Clients : Beside(task'[d], u, n)
               PROVE  Blob!Agrees(part[u][n], <<u, n>>)'
    BY DEF PartsSettled
  <2>1. clean[u] /\ u \notin T /\ \A d \in Clients : Beside(task[d], u, n)
    BY <1>2 DEF Subjects, Beside
  <2>2. SamePath(<<u, n>>)
    BY <1>1, <2>1, Constants, SubjectIs
  <2>3. Blob!Agrees(part[u][n], <<u, n>>)
    BY <2>1 DEF Steady, BlobsInv, PartsSettled
  <2> QED BY <2>2, <2>3 DEF Blob!Agrees, SamePath
<1> QED BY <1>4, <1>6, <1>7, <1>8, <1>9, <1>10, <1>11, <1>12, <1>13 DEF KeptInv

(* A task fails: what it has touched does not count as clean.              *)
LEMMA Leave ==
  ASSUME Steady, NEW c \in Clients, task[c] # Blob!Idle, Blob!Fails(c),
         UNCHANGED <<store, row, upload, part, file>>, FilesOK',
         \A p \in Blob!Paths : SamePath(p) \/ Subject(p) \in task[c].touched,
         \A d \in Clients \ {c} : Writing(task[d]) /\ Blob!Targets(task[c]) \cap Blob!Targets(task[d]) = {} =>
           data'[task[d].out].mixed = data[task[d].out].mixed
  PROVE  KeptInv'
<1>1. PICK T : T = task[c].touched
  OBVIOUS
<1>2. Blob!BlobsAssumption /\ BlobsTypeOK
  BY DEF Steady, BlobsInv
<1>3. task' = [task EXCEPT ![c] = Blob!Idle] /\ T \subseteq Blob!Targets(task[c])
  BY <1>1, <1>2, TaskIs DEF Blob!Fails
<1>4. clean' \in [Subjects -> BOOLEAN] /\ \A x \in Subjects : clean'[x] <=> clean[x] /\ x \notin T
  BY <1>1, <1>2 DEF BlobsTypeOK, Blob!Fails
<1> QED BY <1>1, <1>3, <1>4, GivesUp

(* A task that is told whether it is alone is the same otherwise. *)
LEMMA Relabel ==
  ASSUME NEW t, Shaped(t), NEW b, NEW v, v = [t EXCEPT !.alone = b]
  PROVE  /\ Shaped(v) /\ v.op = t.op /\ v.at = t.at /\ v.key = t.key /\ v.from = t.from /\ v.up = t.up
         /\ v.number = t.number /\ v.parts = t.parts /\ v.bytes = t.bytes /\ v.in = t.in /\ v.out = t.out
         /\ v.touched = t.touched /\ v.alone = b /\ (b = t.alone => v = t)
<1>1. v = [op |-> t.op, at |-> t.at, key |-> t.key, from |-> t.from, up |-> t.up, number |-> t.number,
           parts |-> t.parts, bytes |-> t.bytes, in |-> t.in, out |-> t.out, alone |-> b, touched |-> t.touched]
  BY DEF Shaped
<1> QED BY <1>1 DEF Shaped

LEMMA SameTask ==
  ASSUME NEW s, NEW t, TaskOK(t), Shaped(s), s.op = t.op, s.at = t.at, s.key = t.key, s.from = t.from, s.up = t.up,
         s.number = t.number, s.parts = t.parts, s.in = t.in, s.out = t.out, s.touched = t.touched,
         s.alone \in BOOLEAN, t = Blob!Idle => s = Blob!Idle
  PROVE  TaskOK(s)
<1>1. Doing(s)
  <2>1. Doing(t)
    BY DEF TaskOK
  <2> QED BY <2>1 DEF Doing, Does, OfKey, OfBoth, OfUpload
<1>2. Touches(s) = Touches(t) /\ (Writing(s) <=> Writing(t))
  BY DEF Touches, Blob!Targets, Writing
<1> QED BY <1>1, <1>2 DEF TaskOK

(* An operation starts. *)
LEMMA Begins ==
  ASSUME Steady, NEW c \in Clients, NEW new,
         Blob!Start(c, new), TaskOK(new), new.at \notin {"idle", "written"}, new.alone = TRUE, new.touched = {},
         UNCHANGED <<store, row, upload, part, clean, file>>, FilesOK',
         \A p \in Blob!Paths : SamePath(p),
         Writing(new) =>
           /\ new.op = "put" /\ new.at = "streaming" /\ \A p \in Blob!Paths : file[p] # new.out
           /\ \A d \in Clients : Writing(task[d]) /\ task[d].out = new.out =>
                Blob!At(d, "put", "streaming") /\ task[d].key = new.key,
         \A d \in Clients : Writing(task[d]) /\ Blob!Targets(new) \cap Blob!Targets(task[d]) = {} =>
           data'[task[d].out].mixed = data[task[d].out].mixed,
         new.up \in Uploads =>
           IF new.op = "create" THEN upload[new.up].state = None /\ \A d \in Clients : task[d].up # new.up
           ELSE upload[new.up].state # None,
         (\A d \in Clients : Blob!Targets(new) \cap Blob!Targets(task[d]) = {}) => HasCome(new)'
  PROVE  KeptInv'
<1>1. Blob!BlobsAssumption /\ BlobsTypeOK
  BY DEF Steady, BlobsInv
<1> DEFINE Rival(d) == Blob!Targets(task[d]) \cap Blob!Targets(new) # {}
<1>2. /\ task[c] = Blob!Idle /\ task' = [d \in Clients |-> task'[d]]
      /\ task'[c] = [new EXCEPT !.alone = (\A d \in Clients : ~Rival(d))]
      /\ \A d \in Clients : d # c => task'[d] = [task[d] EXCEPT !.alone = @ /\ ~Rival(d)]
  BY DEF Blob!Start
<1>3. /\ Shaped(task'[c])
      /\ task'[c].op = new.op /\ task'[c].at = new.at /\ task'[c].key = new.key /\ task'[c].up = new.up
      /\ task'[c].number = new.number /\ task'[c].out = new.out /\ task'[c].in = new.in /\ task'[c].from = new.from
      /\ task'[c].parts = new.parts /\ task'[c].touched = {} /\ task'[c].alone \in BOOLEAN
      /\ task'[c].alone => task'[c] = new /\ \A d \in Clients : ~Rival(d)
  <2>1. Shaped(new)
    BY DEF TaskOK
  <2>2. PICK b \in BOOLEAN : b <=> \A d \in Clients : ~Rival(d)
    OBVIOUS
  <2>3. b = (\A d \in Clients : ~Rival(d))
    BY <2>2
  <2> HIDE DEF Rival
  <2>4. task'[c] = [new EXCEPT !.alone = b]
    BY <1>2, <2>3
  <2>5. /\ Shaped(task'[c]) /\ task'[c].alone = b /\ (b = new.alone => task'[c] = new)
        /\ task'[c].op = new.op /\ task'[c].at = new.at /\ task'[c].key = new.key /\ task'[c].up = new.up
        /\ task'[c].number = new.number /\ task'[c].out = new.out /\ task'[c].in = new.in
        /\ task'[c].from = new.from /\ task'[c].parts = new.parts /\ task'[c].touched = new.touched
    <3>1. PICK v : v = task'[c]
      OBVIOUS
    <3>2. v = [new EXCEPT !.alone = b]
      BY <2>4, <3>1
    <3> QED BY <2>1, <3>1, <3>2, Relabel
  <2>6. new.alone \in BOOLEAN
    BY DEF TaskOK
  <2>7. b => b = new.alone
    BY <2>6
  <2> QED BY <2>2, <2>5, <2>7
<1>4. ASSUME NEW d \in Clients, d # c
      PROVE  /\ Shaped(task'[d])
             /\ task'[d].op = task[d].op /\ task'[d].at = task[d].at /\ task'[d].key = task[d].key
             /\ task'[d].up = task[d].up /\ task'[d].number = task[d].number /\ task'[d].out = task[d].out
             /\ task'[d].in = task[d].in /\ task'[d].from = task[d].from /\ task'[d].parts = task[d].parts
             /\ task'[d].touched = task[d].touched /\ task'[d].alone \in BOOLEAN
             /\ task'[d].alone => task'[d] = task[d] /\ task[d].alone /\ ~Rival(d)
             /\ task[d] = Blob!Idle => task'[d] = Blob!Idle
  <2>1. TaskOK(task[d]) /\ Blob!Targets(Blob!Idle) = {}
    BY <1>1, TaskIs
  <2>2. Shaped(task[d]) /\ task[d].alone \in BOOLEAN
    BY <2>1 DEF TaskOK
  <2>3. task[d] = Blob!Idle => ~Rival(d) /\ task[d].alone = TRUE
    <3>1. Blob!Idle.alone = TRUE
      BY DEF Blob!Idle
    <3>2. task[d] = Blob!Idle => ~Rival(d)
      BY <2>1
    <3> QED BY <3>1, <3>2
  <2> HIDE DEF Rival
  <2>4. PICK b \in BOOLEAN : b <=> task[d].alone /\ ~Rival(d)
    OBVIOUS
  <2>5. b = (task[d].alone /\ ~Rival(d))
    BY <2>2, <2>4
  <2>6. task'[d] = [task[d] EXCEPT !.alone = b]
    BY <1>2, <1>4, <2>5
  <2>7. /\ Shaped(task'[d]) /\ task'[d].alone = b /\ (b = task[d].alone => task'[d] = task[d])
        /\ task'[d].op = task[d].op /\ task'[d].at = task[d].at /\ task'[d].key = task[d].key
        /\ task'[d].up = task[d].up /\ task'[d].number = task[d].number /\ task'[d].out = task[d].out
        /\ task'[d].in = task[d].in /\ task'[d].from = task[d].from /\ task'[d].parts = task[d].parts
        /\ task'[d].touched = task[d].touched
    BY <2>2, <2>6, Relabel
  <2>8. b => b = task[d].alone
    BY <2>2, <2>4
  <2>9. task[d] = Blob!Idle => b = task[d].alone
    BY <2>3, <2>4
  <2> QED BY <2>4, <2>7, <2>8, <2>9
<1> HIDE DEF Rival
<1>5. BlobsTypeOK'
  <2>1. TaskOK(task'[c])
    <3>1. PICK t : t = task'[c]
      OBVIOUS
    <3>2. new # Blob!Idle
      BY DEF Blob!Idle
    <3> QED BY <1>3, <3>1, <3>2, SameTask
  <2>2. ASSUME NEW d \in Clients, d # c PROVE TaskOK(task'[d])
    <3>1. PICK s, t : s = task'[d] /\ t = task[d]
      OBVIOUS
    <3>2. TaskOK(t)
      BY <1>1, <3>1, TaskIs
    <3> QED BY <1>4, <2>2, <3>1, <3>2, SameTask
  <2>3. \A d \in Clients : TaskOK(task'[d])
    BY <2>1, <2>2
  <2>4. task' = [d \in Clients |-> task'[d]]
    BY <1>2
  <2> QED BY <1>1, <2>3, <2>4, TypeStays DEF BlobsTypeOK
<1>6. Blob!Targets(task'[c]) = Blob!Targets(new) /\ \A d \in Clients : d # c => Blob!Targets(task'[d]) = Blob!Targets(task[d])
  BY <1>3, <1>4 DEF Blob!Targets
<1>7. AloneOnKey'
  BY <1>3, <1>4, <1>6 DEF Steady, BlobsInv, AloneOnKey, Rival
<1>8. OnePath'
  BY DEF Steady, BlobsInv, OnePath
<1>9. OwnedInodes'
  BY <1>3, <1>4 DEF Steady, BlobsInv, OwnedInodes, Writing, PathOf
<1>10. Shared'
  BY <1>3, <1>4 DEF Steady, BlobsInv, Shared, Writing, PathOf, Blob!At
<1>11. Apart'
  BY <1>3, <1>4 DEF Steady, BlobsInv, Apart, Writing, Blob!At
<1>12. Locks' /\ PartsOpen' /\ PartsGone'
  <2>1. upload' = upload /\ part' = part /\ Locks /\ PartsOpen /\ PartsGone
    BY DEF Steady, BlobsInv
  <2>2. task'[c].at # "written"
    BY <1>3
  <2>3. ASSUME NEW d \in Clients, d # c, NEW e \in Clients, e # c, Blob!SameRow(task'[d], task'[e])
        PROVE  Blob!SameRow(task[d], task[e])
    BY <1>4, <1>6, <2>3 DEF Blob!SameRow
  <2>4. Locks'
    BY <1>4, <2>1, <2>2, <2>3 DEF Locks
  <2>5. PartsOpen'
    BY <1>4, <2>1, <2>2 DEF PartsOpen, Blob!At
  <2>6. PartsGone'
    BY <2>1 DEF PartsGone, Blob!NoParts
  <2> QED BY <2>4, <2>5, <2>6
<1>13. Unmade'
  BY <1>3, <1>4 DEF Steady, BlobsInv, Unmade
<1>17. Creating'
  <2>1. ASSUME NEW d \in Clients, d # c, task'[d].op = "create", task'[d].up \in Uploads
        PROVE  /\ upload[task[d].up].state = None /\ new.up # task[d].up
               /\ \A e \in Clients : task[e].up = task[d].up => e = d
    BY <1>4, <2>1 DEF Steady, BlobsInv, Creating
  <2> QED BY <1>3, <1>4, <2>1 DEF Creating
<1>14. AloneCome'
  <2> SUFFICES ASSUME NEW d \in Clients, task'[d].alone PROVE HasCome(task[d])'
    BY DEF AloneCome
  <2>1. CASE d = c
    BY <1>3, <2>1 DEF Rival
  <2>2. CASE d # c
    <3>1. PICK t : t = task[d]
      OBVIOUS
    <3>2. task'[d] = t /\ t.alone /\ Blob!Targets(new) \cap Blob!Targets(t) = {}
      BY <1>4, <2>2, <3>1 DEF Rival
    <3>3. Writing(t) => data'[t.out].mixed = data[t.out].mixed
      BY <3>1, <3>2
    <3> DEFINE T == {}
    <3>4. T \cap Blob!Targets(t) = {} /\ \A p \in Blob!Paths : SamePath(p) \/ Subject(p) \in T
      OBVIOUS
    <3> HIDE DEF T
    <3>5. HasCome(t)'
      BY <1>1, <3>1, <3>2, <3>3, <3>4, OthersCome DEF Steady, BlobsInv
    <3> QED BY <3>2, <3>5
  <2> QED BY <2>1, <2>2
<1>15. KeysSettled'
  BY <1>1, <1>2, <1>3, <1>4, Constants DEF Steady, BlobsInv, KeysSettled, Blob!Agrees, SamePath, Blob!Idle
<1>16. PartsSettled'
  <2> SUFFICES ASSUME NEW u \in Uploads, NEW n \in PartNumbers, clean[u], upload[u].state # "gc",
                      \A d \in Clients : Beside(task'[d], u, n)
               PROVE  Blob!Agrees(part[u][n], <<u, n>>)'
    BY DEF PartsSettled
  <2>1. \A d \in Clients : Beside(task[d], u, n)
    BY <1>2, <1>3, <1>4 DEF Beside, Blob!Idle
  <2>2. SamePath(<<u, n>>)
    BY <1>1, Constants
  <2>3. Blob!Agrees(part[u][n], <<u, n>>)
    BY <2>1 DEF Steady, BlobsInv, PartsSettled
  <2> QED BY <2>2, <2>3 DEF Blob!Agrees, SamePath
<1> QED BY <1>5, <1>7, <1>8, <1>9, <1>10, <1>11, <1>12, <1>13, <1>14, <1>15, <1>16, <1>17 DEF KeptInv
-----------------------------------------------------------------------------
(* What becomes of the inodes. *)
LEMMA StoredIs ==
  ASSUME FilesOK, NEW e, Blob!Stored(e), e = [i \in Blob!Inodes |-> e[i]],
         \A i \in Blob!Inodes : e[i] = [bytes |-> e[i].bytes, mixed |-> e[i].mixed] /\ e[i].mixed \in BOOLEAN,
         file' \in [Blob!Paths -> Handles]
  PROVE  /\ FilesOK'
         /\ \A i \in Blob!Inodes : Blob!InUse(i)' => data'[i] = e[i]
<1>1. data' = [i \in Blob!Inodes |-> IF Blob!InUse(i)' THEN e[i] ELSE Blob!Free]
  BY DEF Blob!Stored
<1>2. Blob!Free = [bytes |-> Blob!Free.bytes, mixed |-> Blob!Free.mixed] /\ Blob!Free.mixed \in BOOLEAN
  BY DEF Blob!Free
<1>3. \A i \in Blob!Inodes : data'[i] = e[i] \/ data'[i] = Blob!Free
  BY <1>1
<1>4. data' = [i \in Blob!Inodes |-> data'[i]]
  BY <1>1
<1>5. \A i \in Blob!Inodes : data'[i] = [bytes |-> data'[i].bytes, mixed |-> data'[i].mixed] /\ data'[i].mixed \in BOOLEAN
  BY <1>2, <1>3
<1> QED BY <1>1, <1>4, <1>5 DEF FilesOK

LEMMA Tidied ==
  ASSUME FilesOK, Blob!Stored(data), file' \in [Blob!Paths -> Handles]
  PROVE  FilesOK' /\ \A i \in Blob!Inodes : Blob!InUse(i)' => data'[i] = data[i]
BY StoredIs DEF FilesOK

LEMMA HasEnded ==
  ASSUME FilesOK, NEW i \in Blob!Inodes, NEW bytes, Blob!Stored(Blob!Holding(i, bytes)), file' \in [Blob!Paths -> Handles]
  PROVE  /\ FilesOK'
         /\ \A j \in Blob!Inodes : Blob!InUse(j)' => data'[j].mixed = data[j].mixed /\ (j # i => data'[j] = data[j])
         /\ Blob!InUse(i)' => data'[i].bytes = bytes
<1> DEFINE e == Blob!Holding(i, bytes)
<1>1. e = [j \in Blob!Inodes |-> e[j]] /\ (\A j \in Blob!Inodes : j # i => e[j] = data[j])
  BY DEF FilesOK, Blob!Holding
<1>2. e[i] = [bytes |-> bytes, mixed |-> data[i].mixed]
  <2>1. data[i] = [bytes |-> data[i].bytes, mixed |-> data[i].mixed]
    BY DEF FilesOK
  <2>2. e[i] = [data[i] EXCEPT !.bytes = bytes]
    BY DEF FilesOK, Blob!Holding
  <2> QED BY <2>1, <2>2
<1> HIDE DEF e
<1>3. \A j \in Blob!Inodes : e[j] = [bytes |-> e[j].bytes, mixed |-> e[j].mixed] /\ e[j].mixed \in BOOLEAN
  BY <1>1, <1>2 DEF FilesOK
<1>4. FilesOK' /\ \A j \in Blob!Inodes : Blob!InUse(j)' => data'[j] = e[j]
  <2>1. Blob!Stored(e)
    BY DEF e
  <2> QED BY <1>1, <1>3, <2>1, StoredIs
<1> QED BY <1>1, <1>2, <1>4

LEMMA OpenedIs ==
  ASSUME FilesOK, NEW i \in Blob!Inodes, data' = Blob!Opened(i), file' \in [Blob!Paths -> Handles]
  PROVE  /\ FilesOK'
         /\ \A j \in Blob!Inodes : j # i => data'[j] = data[j]
         /\ data'[i].mixed = (Blob!Writers(i) # {})
<1>1. data' = [j \in Blob!Inodes |-> data'[j]] /\ data'[i] = [bytes |-> Torn, mixed |-> Blob!Writers(i) # {}]
      /\ \A j \in Blob!Inodes : j # i => data'[j] = data[j]
  BY DEF FilesOK, Blob!Opened
<1>2. PICK b \in BOOLEAN : b = (Blob!Writers(i) # {})
  OBVIOUS
<1>3. data'[i] = [bytes |-> Torn, mixed |-> b]
  BY <1>1, <1>2
<1>4. \A j \in Blob!Inodes : data'[j] = [bytes |-> data'[j].bytes, mixed |-> data'[j].mixed] /\ data'[j].mixed \in BOOLEAN
  BY <1>1, <1>3 DEF FilesOK
<1> QED BY <1>1, <1>2, <1>3, <1>4 DEF FilesOK

(* Who has opened nothing finds a free inode. *)
LEMMA FreshIs ==
  ASSUME Blob!BlobsAssumption, BlobsTypeOK, NEW c \in Clients, task[c].in = Blob!NoInode, task[c].out = Blob!NoInode
  PROVE  Blob!Fresh \in Blob!Inodes /\ ~Blob!InUse(Blob!Fresh)
<1> DEFINE C == Clients \ {c}
<1>1. IsFiniteSet(Clients) /\ Cardinality(C) = Cardinality(Clients) - 1
  BY FiniteSets, FS_RemoveElement
<1>2. \A d \in Clients \ C : task[d].in = Blob!NoInode /\ task[d].out = Blob!NoInode
  OBVIOUS
<1>3. C \in SUBSET Clients
  OBVIOUS
<1> HIDE DEF C
<1>4. Cardinality(Blob!Paths) + 2 * Cardinality(C) < Cardinality(Blob!Inodes)
  BY <1>1, Sizes
<1> DEFINE P == Blob!Paths
<1>5. P \in SUBSET Blob!Paths /\ \A p \in Blob!Paths \ P : file[p] = Blob!NoInode
  OBVIOUS
<1>6. Cardinality(P) + 2 * Cardinality(C) < Cardinality(Blob!Inodes)
  BY <1>4
<1> HIDE DEF P
<1> QED BY <1>2, <1>3, <1>5, <1>6, SomeFree
-----------------------------------------------------------------------------
(* The operations that start by looking something up. *)
Fields(t, op, at, key, from, up, number) ==
  /\ t.op = op /\ t.at = at /\ t.key = key /\ t.from = from /\ t.up = up /\ t.number = number
  /\ t.in = Blob!NoInode /\ t.out = Blob!NoInode /\ t.alone = TRUE /\ t.touched = {}

LEMMA Looks ==
  ASSUME Steady, NEW c \in Clients, NEW new, Blob!Start(c, new), Shaped(new), Doing(new),
         new.at \in {"found", "stored", "assembled"}, new.in = Blob!NoInode, new.out = Blob!NoInode, new.alone = TRUE,
         new.touched = {}, Touches(new) = {},
         new.op \in {"copy", "delete", "part", "create", "gc", "abort", "complete"},
         UNCHANGED <<store, row, upload, part, clean, file, data>>,
         new.up \in Uploads =>
           IF new.op = "create" THEN upload[new.up].state = None /\ \A d \in Clients : task[d].up # new.up
           ELSE upload[new.up].state # None,
         (\A d \in Clients : Blob!Targets(new) \cap Blob!Targets(task[d]) = {}) => HasCome(new)'
  PROVE  KeptInv'
<1>1. TaskOK(new)
  BY DEF TaskOK, Writing
<1>2. FilesOK' /\ ~Writing(new)
  BY DEF Steady, BlobsInv, BlobsTypeOK, FilesOK, Writing
<1>3. \A p \in Blob!Paths : SamePath(p)
  BY DEF SamePath
<1> QED BY <1>1, <1>2, <1>3, Begins

LEMMA CopyLooks ==
  ASSUME Steady, NEW c \in Clients, NEW from \in Keys, NEW k \in Keys, Blob!CopyLookup(c, from, k)
  PROVE  KeptInv'
<1>1. PICK new : new = [Blob!Idle EXCEPT !.op = "copy", !.at = "found", !.key = k, !.from = from]
  OBVIOUS
<1>2. Shaped(new) /\ Fields(new, "copy", "found", k, from, None, 0)
  BY <1>1 DEF Shaped, Fields, Blob!Idle
<1>3. Doing(new) /\ Touches(new) = {} /\ new.up \notin Uploads
  BY <1>2, Constants DEF Fields, Doing, Does, OfKey, Touches, Steady
<1>4. HasCome(new)'
  BY <1>2 DEF Fields, HasCome
<1>5. Blob!Start(c, new) /\ UNCHANGED <<store, row, upload, part, clean, file, data>>
  BY <1>1 DEF Blob!CopyLookup, Blob!tables, Blob!files
<1> QED BY <1>2, <1>3, <1>4, <1>5, Looks DEF Fields

LEMMA DeleteLooks ==
  ASSUME Steady, NEW c \in Clients, NEW k \in Keys, Blob!DeleteLookup(c, k)
  PROVE  KeptInv'
<1>1. PICK new : new = [Blob!Idle EXCEPT !.op = "delete", !.at = "found", !.key = k]
  OBVIOUS
<1>2. Shaped(new) /\ Fields(new, "delete", "found", k, None, None, 0)
  BY <1>1 DEF Shaped, Fields, Blob!Idle
<1>3. Doing(new) /\ Touches(new) = {} /\ new.up \notin Uploads
  BY <1>2, Constants DEF Fields, Doing, Does, OfKey, Touches, Steady
<1>4. HasCome(new)'
  BY <1>2 DEF Fields, HasCome
<1>5. Blob!Start(c, new) /\ UNCHANGED <<store, row, upload, part, clean, file, data>>
  BY <1>1 DEF Blob!DeleteLookup, Blob!tables, Blob!files
<1> QED BY <1>2, <1>3, <1>4, <1>5, Looks DEF Fields

LEMMA Creates ==
  ASSUME Steady, NEW c \in Clients, NEW u \in Uploads, NEW k \in Keys, Blob!CreateUpload(c, u, k)
  PROVE  KeptInv'
<1>1. PICK new : new = [Blob!Idle EXCEPT !.op = "create", !.at = "stored", !.key = k, !.up = u]
  OBVIOUS
<1>2. Shaped(new) /\ Fields(new, "create", "stored", k, None, u, 0)
  BY <1>1 DEF Shaped, Fields, Blob!Idle
<1>3. Doing(new) /\ Touches(new) = {}
  BY <1>2 DEF Fields, Doing, Does, OfBoth, Touches
<1>4. HasCome(new)'
  BY <1>2 DEF Fields, HasCome
<1>5. /\ Blob!Start(c, new) /\ UNCHANGED <<store, row, upload, part, clean, file, data>>
      /\ upload[u].state = None /\ \A d \in Clients : task[d].up # u
  BY <1>1 DEF Blob!CreateUpload, Blob!tables, Blob!files
<1> QED BY <1>2, <1>3, <1>4, <1>5, Looks DEF Fields

LEMMA PartLooks ==
  ASSUME Steady, NEW c \in Clients, NEW u \in Uploads, NEW n \in PartNumbers, NEW body, Blob!PartLookup(c, u, n, body)
  PROVE  KeptInv'
<1>1. PICK new : new = [Blob!Idle EXCEPT !.op = "part", !.at = "found", !.up = u, !.number = n, !.bytes = <<body>>]
  OBVIOUS
<1>2. Shaped(new) /\ Fields(new, "part", "found", None, None, u, n)
  BY <1>1 DEF Shaped, Fields, Blob!Idle
<1>3. Doing(new) /\ Touches(new) = {}
  BY <1>2 DEF Fields, Doing, Does, OfUpload, Touches
<1>4. HasCome(new)'
  BY <1>2 DEF Fields, HasCome
<1>5. Blob!Start(c, new) /\ UNCHANGED <<store, row, upload, part, clean, file, data>> /\ upload[u].state # None
  BY <1>1 DEF Blob!PartLookup, Blob!tables, Blob!files
<1> QED BY <1>2, <1>3, <1>4, <1>5, Looks DEF Fields

LEMMA AbortLooks ==
  ASSUME Steady, NEW c \in Clients, NEW u \in Uploads, Blob!AbortLookup(c, u)
  PROVE  KeptInv'
<1>1. PICK new : new = [Blob!Idle EXCEPT !.op = "abort", !.at = "assembled", !.up = u]
  OBVIOUS
<1>2. Shaped(new) /\ Fields(new, "abort", "assembled", None, None, u, 0)
  BY <1>1 DEF Shaped, Fields, Blob!Idle
<1>3. Doing(new) /\ Touches(new) = {}
  BY <1>2 DEF Fields, Doing, Does, OfUpload, Touches
<1>4. HasCome(new)'
  BY <1>2 DEF Fields, HasCome
<1>5. Blob!Start(c, new) /\ UNCHANGED <<store, row, upload, part, clean, file, data>> /\ upload[u].state # None
  BY <1>1 DEF Blob!AbortLookup, Blob!tables, Blob!files
<1> QED BY <1>2, <1>3, <1>4, <1>5, Looks DEF Fields

LEMMA Collects ==
  ASSUME Steady, NEW c \in Clients, NEW u \in Uploads, Blob!CollectExpired(c, u)
  PROVE  KeptInv'
<1>1. PICK new : new = [Blob!Idle EXCEPT !.op = "gc", !.at = "stored", !.up = u]
  OBVIOUS
<1>2. Shaped(new) /\ Fields(new, "gc", "stored", None, None, u, 0)
  BY <1>1 DEF Shaped, Fields, Blob!Idle
<1>3. Doing(new) /\ Touches(new) = {}
  BY <1>2 DEF Fields, Doing, Does, OfUpload, Touches
<1>4. HasCome(new)'
  BY <1>2 DEF Fields, HasCome
<1>5. Blob!Start(c, new) /\ UNCHANGED <<store, row, upload, part, clean, file, data>> /\ upload[u].state = "open"
  BY <1>1 DEF Blob!CollectExpired, Blob!tables, Blob!files
<1> QED BY <1>2, <1>3, <1>4, <1>5, Constants, Looks DEF Fields, Steady

LEMMA ListsParts ==
  ASSUME Steady, NEW c \in Clients, NEW u \in Uploads, Blob!ListParts(c, u)
  PROVE  KeptInv'
<1> DEFINE k == upload[u].key
           found == Blob!RecordedParts(u)
           all == Blob!Joined([n \in Blob!RecordedParts(u) |-> part[u][n]])
<1>1. PICK new : new = [Blob!Idle EXCEPT !.op = "complete", !.at = "found", !.key = k, !.up = u, !.parts = found, !.bytes = all]
  OBVIOUS
<1>2. Blob!Start(c, new) /\ UNCHANGED <<store, row, upload, part, clean, file, data>> /\ found # {}
  BY <1>1 DEF Blob!ListParts, Blob!tables, Blob!files
<1> HIDE DEF k, found, all
<1>3. Shaped(new) /\ Fields(new, "complete", "found", k, None, u, 0) /\ new.parts = found /\ new.bytes = all
  BY <1>1 DEF Shaped, Fields, Blob!Idle
<1>4. upload[u].state = "open"
  <2> SUFFICES ASSUME upload[u].state # "open" PROVE FALSE
    OBVIOUS
  <2>1. part[u] = Blob!NoParts
    BY DEF Steady, BlobsInv, PartsGone
  <2> QED BY <1>2, <2>1 DEF found, Blob!RecordedParts, Blob!NoParts
<1>5. k \in Keys /\ found \subseteq PartNumbers
  BY <1>4, Constants DEF Steady, BlobsInv, BlobsTypeOK, k, found, Blob!RecordedParts
<1>6. Doing(new) /\ Touches(new) = {}
  BY <1>2, <1>3, <1>5 DEF Fields, Doing, Does, OfBoth, Touches
<1>7. HasCome(new)'
  BY <1>2, <1>3, <1>4 DEF Fields, HasCome, Blob!RecordedParts, found, all
<1> QED BY <1>2, <1>3, <1>4, <1>6, <1>7, Constants, Looks DEF Fields, Steady
-----------------------------------------------------------------------------
(* put opens a file of its own, or one into which only puts of the same    *)
(* key stream; no path leads to it.                                        *)
LEMMA PutOpens ==
  ASSUME Steady, NEW c \in Clients, NEW k \in Keys, NEW body, Blob!PutOpen(c, k, body)
  PROVE  KeptInv'
<1>1. PICK i \in {Blob!Fresh} \cup (IF store.sameMs THEN Blob!Streaming(k) ELSE {}) :
        /\ Blob!Start(c, [Blob!Idle EXCEPT !.op = "put", !.at = "streaming", !.key = k, !.bytes = <<body>>, !.out = i])
        /\ data' = Blob!Opened(i)
        /\ UNCHANGED <<store, row, upload, part, clean, file>>
  BY DEF Blob!PutOpen, Blob!tables
<1>2. PICK new : new = [Blob!Idle EXCEPT !.op = "put", !.at = "streaming", !.key = k, !.bytes = <<body>>, !.out = i]
  OBVIOUS
<1>3. /\ Shaped(new) /\ new.op = "put" /\ new.at = "streaming" /\ new.key = k /\ new.up = None /\ new.out = i
      /\ new.in = Blob!NoInode /\ new.alone = TRUE /\ new.touched = {}
  BY <1>2 DEF Shaped, Blob!Idle
<1>4. Blob!Start(c, new) /\ task[c] = Blob!Idle
  BY <1>1, <1>2 DEF Blob!Start
<1>5. Blob!BlobsAssumption /\ BlobsTypeOK /\ FilesOK /\ None \notin Uploads /\ Keys \subseteq Blob!Paths
  BY Constants DEF Steady, BlobsInv, BlobsTypeOK, FilesOK
<1>6. /\ i \in Blob!Inodes /\ \A p \in Blob!Paths : file[p] # i
      /\ \A d \in Clients : Writing(task[d]) /\ task[d].out = i => Blob!At(d, "put", "streaming") /\ task[d].key = k
  <2>1. CASE i = Blob!Fresh
    <3>1. i \in Blob!Inodes /\ ~Blob!InUse(i)
      BY <1>4, <1>5, <2>1, FreshIs DEF Blob!Idle
    <3> QED BY <3>1 DEF Blob!InUse
  <2>2. CASE i \in Blob!Streaming(k)
    <3>1. PICK e \in Clients : Blob!At(e, "put", "streaming") /\ task[e].key = k /\ task[e].out = i
      BY <2>2 DEF Blob!Streaming
    <3>2. Writing(task[e]) /\ PathOf(task[e]) = k /\ i \in Blob!Inodes
      BY <1>5, <3>1, TaskIs DEF Blob!At, Writing, PathOf
    <3>3. \A p \in Blob!Paths : file[p] # i
      BY <3>1 DEF Steady, BlobsInv, Apart
    <3>4. ASSUME NEW d \in Clients, Writing(task[d]), task[d].out = i
          PROVE  Blob!At(d, "put", "streaming") /\ task[d].key = k
      <4>1. PathOf(task[d]) = k /\ task[d].at = "streaming"
        BY <3>1, <3>2, <3>4 DEF Steady, BlobsInv, Shared, Blob!At
      <4>2. task[d].op = "put"
        BY <1>5, <4>1, TaskIs DEF TaskOK, Doing, Does, Blob!Idle
      <4> QED BY <4>1, <4>2 DEF Blob!At, PathOf
    <3> QED BY <3>2, <3>3, <3>4
  <2> QED BY <1>1, <2>1, <2>2
<1>7. TaskOK(new) /\ Blob!Targets(new) = {k}
  <2>1. Doing(new) /\ Touches(new) = {}
    BY <1>3 DEF Doing, Does, OfKey, Touches
  <2> QED BY <1>3, <1>5, <1>6, <2>1, Constants DEF TaskOK, Writing, Blob!Targets
<1>8. FilesOK' /\ (\A j \in Blob!Inodes : j # i => data'[j] = data[j]) /\ data'[i].mixed = (Blob!Writers(i) # {})
  <2>1. file' \in [Blob!Paths -> Handles]
    BY <1>1, <1>5 DEF BlobsTypeOK
  <2> QED BY <1>1, <1>5, <1>6, <2>1, OpenedIs
<1>9. \A p \in Blob!Paths : SamePath(p)
  BY <1>1, <1>5, <1>6, <1>8 DEF SamePath, FilesOK, Handles
<1>10. ASSUME NEW d \in Clients, Writing(task[d]), Blob!Targets(new) \cap Blob!Targets(task[d]) = {}
       PROVE  data'[task[d].out].mixed = data[task[d].out].mixed
  <2>1. task[d].out # i
    BY <1>5, <1>6, <1>7, <1>10, Constants DEF Blob!Targets
  <2> QED BY <1>5, <1>8, <1>10, <2>1, TaskIs
<1>11. (\A d \in Clients : Blob!Targets(new) \cap Blob!Targets(task[d]) = {}) => HasCome(new)'
  <2> SUFFICES ASSUME \A d \in Clients : Blob!Targets(new) \cap Blob!Targets(task[d]) = {} PROVE HasCome(new)'
    OBVIOUS
  <2>1. ASSUME NEW d \in Clients, task[d].out = i PROVE FALSE
    <3>1. i # Blob!NoInode
      BY <1>5, <1>6, Sizes
    <3>2. Writing(task[d])
      BY <1>5, <2>1, <3>1, TaskIs DEF TaskOK
    <3> QED BY <1>5, <1>6, <1>7, <2>1, <3>2, Constants DEF Blob!Targets
  <2>2. Blob!Writers(i) = {}
    BY <2>1 DEF Blob!Writers
  <2> QED BY <1>3, <1>8, <2>2 DEF HasCome
<1> QED BY <1>1, <1>3, <1>4, <1>5, <1>6, <1>7, <1>8, <1>9, <1>10, <1>11, Begins
-----------------------------------------------------------------------------
(* An operation opens the file at its path, for writing: it belongs to     *)
(* that path, and so do those who write it already.                        *)
LEMMA Opens ==
  ASSUME Steady, NEW c \in Clients, NEW from \in Handles, NEW p \in Blob!Paths, NEW k,
         task[c].at = "found", task[c].op \in {"copy", "part", "complete"}, p = PathOf(task[c]), k = Subject(p),
         task[c].op # "copy" => from = Blob!NoInode,
         Blob!OpensPath(c, p, from, k), UNCHANGED <<store, row, upload, part, clean>>
  PROVE  KeptInv'
<1>1. Blob!BlobsAssumption /\ BlobsTypeOK /\ FilesOK
  BY DEF Steady, BlobsInv, BlobsTypeOK, FilesOK
<1> DEFINE i == Blob!Inode(p)
<1>2. PICK t : t = task[c]
  OBVIOUS
<1>3. PICK new : new = [t EXCEPT !.at = "writing", !.out = i, !.in = from, !.touched = t.touched \cup {k}]
  OBVIOUS
<1>4. TaskOK(t) /\ t.touched = {} /\ t.out = Blob!NoInode /\ t.in = Blob!NoInode /\ Blob!NoInode \notin Blob!Inodes
  BY <1>1, <1>2, TaskIs, Sizes DEF TaskOK, Touches, Writing
<1>5. file' = [file EXCEPT ![p] = i] /\ data' = Blob!Opened(i) /\ task' = [task EXCEPT ![c] = new]
  BY <1>2, <1>3 DEF Blob!OpensPath, Blob!Goes
<1>6. i \in Blob!Inodes /\ (file[p] = i \/ (file[p] = Blob!NoInode /\ ~Blob!InUse(i)))
  <2>1. Blob!Fresh \in Blob!Inodes /\ ~Blob!InUse(Blob!Fresh)
    BY <1>1, <1>2, <1>4, FreshIs
  <2> QED BY <1>1, <2>1 DEF Blob!Inode, BlobsTypeOK, Handles
<1> HIDE DEF i
<1>7. /\ Shaped(new) /\ new.op = t.op /\ new.at = "writing" /\ new.key = t.key /\ new.from = t.from /\ new.up = t.up
      /\ new.number = t.number /\ new.parts = t.parts /\ new.bytes = t.bytes /\ new.in = from /\ new.out = i
      /\ new.alone = t.alone /\ new.touched = {k}
  <2>1. new = [op |-> t.op, at |-> "writing", key |-> t.key, from |-> t.from, up |-> t.up, number |-> t.number,
               parts |-> t.parts, bytes |-> t.bytes, in |-> from, out |-> i, alone |-> t.alone, touched |-> {k}]
    BY <1>3, <1>4 DEF TaskOK, Shaped
  <2> QED BY <2>1 DEF Shaped
<1>8. /\ PathOf(new) = p /\ PathOf(t) = p /\ k \in Blob!Targets(t)
      /\ Doing(new) /\ Touches(new) = {k}
  <2>1. PathOf(new) = p /\ PathOf(t) = p
    BY <1>2, <1>7 DEF PathOf
  <2>2. Doing(t)
    BY <1>4 DEF TaskOK
  <2>3. CASE t.op = "copy"
    <3>1. t.key \in Keys /\ t.up = None /\ t.from \in Keys
      BY <1>2, <2>2, <2>3 DEF Doing, Does, OfKey, Blob!Idle
    <3>2. k = t.key
      BY <1>1, <1>2, <2>3, <3>1, SubjectIs DEF PathOf
    <3> QED BY <1>1, <1>7, <2>1, <2>3, <3>1, <3>2, Constants DEF Doing, Does, OfKey, Touches, Blob!Targets
  <2>4. CASE t.op = "part"
    <3>1. t.key = None /\ t.up \in Uploads /\ t.number \in PartNumbers
      BY <1>2, <2>2, <2>4 DEF Doing, Does, OfUpload, Blob!Idle
    <3>2. k = t.up
      BY <1>1, <1>2, <2>4, <3>1, SubjectIs DEF PathOf
    <3> QED BY <1>1, <1>7, <2>1, <2>4, <3>1, <3>2, Constants DEF Doing, Does, OfUpload, Touches, Blob!Targets
  <2>5. CASE t.op = "complete"
    <3>1. t.key \in Keys /\ t.up \in Uploads /\ t.parts \subseteq PartNumbers /\ t.parts # {}
      BY <1>2, <2>2, <2>5 DEF Doing, Does, OfBoth, Blob!Idle
    <3>2. k = t.key
      BY <1>1, <1>2, <2>5, <3>1, SubjectIs DEF PathOf
    <3> QED BY <1>1, <1>7, <2>1, <2>5, <3>1, <3>2, Constants DEF Doing, Does, OfBoth, Touches, Blob!Targets
  <2> QED BY <1>2, <2>3, <2>4, <2>5
<1>9. TaskOK(new)
  BY <1>2, <1>4, <1>6, <1>7, <1>8 DEF TaskOK, Writing
<1>10. /\ FilesOK' /\ (\A j \in Blob!Inodes : j # i => data'[j] = data[j]) /\ data'[i].mixed = (Blob!Writers(i) # {})
       /\ file'[p] = i /\ \A q \in Blob!Paths : q # p => file'[q] = file[q]
  <2>1. file' \in [Blob!Paths -> Handles] /\ file'[p] = i /\ \A q \in Blob!Paths : q # p => file'[q] = file[q]
    BY <1>1, <1>5, <1>6 DEF BlobsTypeOK, Handles
  <2> QED BY <1>1, <1>5, <1>6, <2>1, OpenedIs
<1>11. \A q \in Blob!Paths : q # p => file[q] # i
  BY <1>4, <1>6 DEF Blob!InUse, Steady, BlobsInv, OnePath
<1>12. ASSUME NEW d \in Clients, task[d].out = i PROVE file[p] = i /\ Writing(task[d]) /\ PathOf(task[d]) = p /\ task[d].at # "streaming"
  <2>1. file[p] = i
    BY <1>6, <1>12 DEF Blob!InUse
  <2>2. Writing(task[d])
    BY <1>1, <1>4, <1>6, <1>12, TaskIs DEF TaskOK
  <2>3. PathOf(task[d]) = p
    BY <1>12, <2>1, <2>2 DEF Steady, BlobsInv, OwnedInodes
  <2>4. task[d].at = "streaming" => Blob!At(d, "put", "streaming")
    BY <1>1, TaskIs DEF TaskOK, Doing, Does, Blob!Idle, Blob!At
  <2> QED BY <1>12, <2>1, <2>2, <2>3, <2>4 DEF Steady, BlobsInv, Apart
<1>13. task'[c] = new /\ Writing(new) /\ \A d \in Clients : d # c => task'[d] = task[d]
  BY <1>1, <1>5, <1>7 DEF BlobsTypeOK, Writing
<1>14. OnePath'
  BY <1>4, <1>6, <1>10, <1>11 DEF OnePath, Steady, BlobsInv
<1>15. OwnedInodes'
  BY <1>7, <1>8, <1>10, <1>11, <1>12, <1>13 DEF OwnedInodes, Steady, BlobsInv
<1>16. Shared'
  BY <1>7, <1>8, <1>12, <1>13 DEF Shared, Steady, BlobsInv
<1>17. Apart'
  BY <1>7, <1>10, <1>12, <1>13 DEF Apart, Blob!At, Writing, Steady, BlobsInv
<1>18. \A q \in Blob!Paths : SamePath(q) \/ Reached(new, q)
  BY <1>1, <1>7, <1>8, <1>10, <1>11 DEF SamePath, Reached, FilesOK, Handles
<1>19. ASSUME NEW d \in Clients, Writing(task[d]), Blob!Targets(new) \cap Blob!Targets(task[d]) = {} \/ (d # c /\ t.alone)
       PROVE  task[d].out # i
  <2> SUFFICES ASSUME task[d].out = i PROVE FALSE
    OBVIOUS
  <2>1. PathOf(task[d]) = p
    BY <1>12
  <2>2. k \in Blob!Targets(task[d])
    <3>1. TaskOK(task[d])
      BY <1>1, TaskIs
    <3>2. (task[d].op = "part" /\ task[d].up \in Uploads /\ task[d].number \in PartNumbers) \/ (task[d].op # "part" /\ task[d].key \in Keys)
      BY <1>19, <3>1 DEF TaskOK, Doing, Does, OfKey, OfUpload, OfBoth, Writing, Blob!Idle
    <3> QED BY <1>1, <2>1, <3>2, SubjectIs, Constants DEF PathOf, Blob!Targets
  <2>3. Blob!Targets(new) = Blob!Targets(t)
    BY <1>7 DEF Blob!Targets
  <2> QED BY <1>2, <1>8, <1>19, <2>2, <2>3 DEF Steady, BlobsInv, AloneOnKey
<1>20. ASSUME NEW d \in Clients \ {c}, Writing(task[d]), Blob!Targets(new) \cap Blob!Targets(task[d]) = {}
       PROVE  data'[task[d].out].mixed = data[task[d].out].mixed
  BY <1>1, <1>10, <1>19, <1>20, TaskIs
<1>21. new.alone => HasCome(new)'
  <2> SUFFICES ASSUME t.alone PROVE HasCome(new)'
    BY <1>7
  <2>1. Blob!Writers(i) = {}
    BY <1>2, <1>4, <1>6, <1>12, <1>19 DEF Blob!Writers
  <2>2. HasCome(t)
    BY <1>2 DEF Steady, BlobsInv, AloneCome
  <2>3. /\ new.op = "complete" => upload[new.up].state = "open" /\ new.parts = Blob!RecordedParts(new.up)
        /\ new.op = "complete" => new.bytes = Blob!Joined([n \in new.parts |-> part[new.up][n]])
    BY <1>2, <1>7, <2>2 DEF HasCome
  <2>4. file'[PathOf(new)] = new.out /\ data'[new.out].mixed = FALSE
    BY <1>7, <1>8, <1>10, <2>1
  <2>5. Blob!RecordedParts(new.up)' = Blob!RecordedParts(new.up)
    BY DEF Blob!RecordedParts
  <2> QED BY <1>7, <2>3, <2>4, <2>5 DEF HasCome
<1>22. Kept(t, new) /\ task[c] # Blob!Idle /\ new.at # "idle"
  BY <1>1, <1>2, <1>4, <1>7, TaskIs DEF Kept
<1> QED BY <1>2, <1>5, <1>7, <1>9, <1>10, <1>14, <1>15, <1>16, <1>17, <1>18, <1>20, <1>21, <1>22, Advance
LEMMA CopyOpens ==
  ASSUME Steady, NEW c \in Clients, Blob!CopyOpen(c)
  PROVE  KeptInv'
<1> DEFINE k == task[c].key
           from == file[task[c].from]
<1>1. Blob!BlobsAssumption /\ BlobsTypeOK /\ TaskOK(task[c]) /\ task[c].at = "found" /\ task[c].op = "copy"
  BY TaskIs DEF Steady, BlobsInv, Blob!CopyOpen, Blob!At
<1>2. k \in Keys /\ task[c].from \in Keys
  BY <1>1 DEF TaskOK, Doing, Does, OfKey, Blob!Idle
<1>3. k \in Blob!Paths /\ from \in Handles /\ k = PathOf(task[c]) /\ k = Subject(k)
  BY <1>1, <1>2, Constants, SubjectIs DEF BlobsTypeOK, PathOf
<1>4. Blob!OpensPath(c, k, from, k) /\ UNCHANGED <<store, row, upload, part, clean>>
  BY DEF Blob!CopyOpen, Blob!tables
<1> HIDE DEF k, from
<1> QED BY <1>1, <1>3, <1>4, Opens

LEMMA PartOpens ==
  ASSUME Steady, NEW c \in Clients, Blob!PartOpen(c)
  PROVE  KeptInv'
<1> DEFINE k == task[c].up
           p == <<task[c].up, task[c].number>>
           from == Blob!NoInode
<1>1. Blob!BlobsAssumption /\ BlobsTypeOK /\ TaskOK(task[c]) /\ task[c].at = "found" /\ task[c].op = "part"
  BY TaskIs DEF Steady, BlobsInv, Blob!PartOpen, Blob!At
<1>2. k \in Uploads /\ task[c].number \in PartNumbers
  BY <1>1 DEF TaskOK, Doing, Does, OfUpload, Blob!Idle
<1>3. p \in Blob!Paths /\ from \in Handles /\ from = Blob!NoInode /\ p = PathOf(task[c]) /\ k = Subject(p)
  BY <1>1, <1>2, Constants, SubjectIs DEF Handles, PathOf
<1>4. Blob!OpensPath(c, p, from, k) /\ UNCHANGED <<store, row, upload, part, clean>>
  BY DEF Blob!PartOpen, Blob!tables
<1> HIDE DEF k, p, from
<1> QED BY <1>1, <1>3, <1>4, Opens

LEMMA AssembleOpens ==
  ASSUME Steady, NEW c \in Clients, Blob!AssembleOpen(c)
  PROVE  KeptInv'
<1> DEFINE k == task[c].key
           from == Blob!NoInode
<1>1. Blob!BlobsAssumption /\ BlobsTypeOK /\ TaskOK(task[c]) /\ task[c].at = "found" /\ task[c].op = "complete"
  BY TaskIs DEF Steady, BlobsInv, Blob!AssembleOpen, Blob!At
<1>2. k \in Keys
  BY <1>1 DEF TaskOK, Doing, Does, OfBoth, Blob!Idle
<1>3. k \in Blob!Paths /\ from \in Handles /\ from = Blob!NoInode /\ k = PathOf(task[c]) /\ k = Subject(k)
  BY <1>1, <1>2, Constants, SubjectIs DEF Handles, PathOf
<1>4. Blob!OpensPath(c, k, from, k) /\ UNCHANGED <<store, row, upload, part, clean>>
  BY DEF Blob!AssembleOpen, Blob!tables
<1> HIDE DEF k, from
<1> QED BY <1>1, <1>3, <1>4, Opens
-----------------------------------------------------------------------------
(* The end of what an operation writes; b is what it has meant to write.   *)
LEMMA Closes ==
  ASSUME Steady, NEW c \in Clients, NEW new, NEW b, NEW bytes \in Blob!Written(task[c].out, b),
         task[c].at = "writing", Blob!Goes(c, new), TaskOK(new), Kept(task[c], new), new.touched = task[c].touched,
         UNCHANGED <<store, row, upload, part, clean, file>>, Blob!Stored(Blob!Holding(task[c].out, bytes)),
         \/ new.op \in {"copy", "part"} /\ new.at = "stored" /\ new.bytes = b
         \/ new.op = "complete" /\ new.at = "assembled" /\ (new.alone /\ clean[new.up] => new.bytes = b)
  PROVE  KeptInv'
<1>1. Blob!BlobsAssumption /\ BlobsTypeOK /\ FilesOK
  BY DEF Steady, BlobsInv, BlobsTypeOK, FilesOK
<1>13. PICK i : i = task[c].out
  OBVIOUS
<1>2. TaskOK(task[c]) /\ Writing(task[c]) /\ i \in Blob!Inodes /\ task[c] # Blob!Idle /\ Blob!NoInode \notin Blob!Inodes
  BY <1>1, <1>13, TaskIs, Sizes DEF Writing, Blob!Idle
<1>3. task'[c] = new /\ ~Writing(new) /\ new.at \notin {"idle", "written"} /\ \A d \in Clients : d # c => task'[d] = task[d]
  BY <1>1 DEF BlobsTypeOK, Writing, Blob!Goes
<1>4. /\ FilesOK'
      /\ \A j \in Blob!Inodes : Blob!InUse(j)' => data'[j].mixed = data[j].mixed /\ (j # i => data'[j] = data[j])
      /\ Blob!InUse(i)' => data'[i].bytes = bytes
  <2>1. file' \in [Blob!Paths -> Handles]
    BY <1>1 DEF BlobsTypeOK
  <2>2. bytes \in Blob!Written(i, b) /\ Blob!Stored(Blob!Holding(i, bytes))
    BY <1>13
  <2> QED BY <1>1, <1>2, <2>1, <2>2, HasEnded
<1>5. \A d \in Clients \ {c} : Writing(task[d]) => data'[task[d].out].mixed = data[task[d].out].mixed
  <2> SUFFICES ASSUME NEW d \in Clients \ {c}, Writing(task[d]) PROVE data'[task[d].out].mixed = data[task[d].out].mixed
    OBVIOUS
  <2>1. task[d].out \in Blob!Inodes /\ task'[d].out = task[d].out
    BY <1>1, <1>3, TaskIs
  <2>2. Blob!InUse(task[d].out)'
    BY <2>1 DEF Blob!InUse
  <2> QED BY <1>4, <2>1, <2>2
<1>6. \A p \in Blob!Paths : file[p] # Blob!NoInode => file[p] \in Blob!Inodes /\ Blob!InUse(file[p])'
  BY <1>1 DEF BlobsTypeOK, Handles, Blob!InUse
<1>7. \A p \in Blob!Paths : file[p] = i => p = PathOf(task[c])
  BY <1>2, <1>13 DEF Steady, BlobsInv, OwnedInodes
<1>8. Subject(PathOf(task[c])) \in task[c].touched /\ PathOf(new) = PathOf(task[c])
  <2>1. PathOf(new) = PathOf(task[c]) /\ new.op = task[c].op /\ new.key = task[c].key /\ new.up = task[c].up
    BY DEF PathOf, Kept
  <2>2. (new.op = "part" /\ new.up \in Uploads /\ new.number \in PartNumbers) \/ (new.op \in {"copy", "complete"} /\ new.key \in Keys)
    BY <1>3 DEF TaskOK, Doing, Does, OfKey, OfUpload, OfBoth, Blob!Idle
  <2>3. new.touched = Touches(new)
    BY DEF TaskOK
  <2> QED BY <1>1, <2>1, <2>2, <2>3, SubjectIs, Constants DEF PathOf, Touches, Blob!Targets
<1>9. \A p \in Blob!Paths : SamePath(p) \/ Reached(new, p)
  BY <1>4, <1>6, <1>7, <1>8 DEF SamePath, Reached
<1>10. OnePath' /\ OwnedInodes' /\ Shared' /\ Apart'
  BY <1>1, <1>3, InodesStay DEF Steady, BlobsInv
<1>11. new.alone => HasCome(new)'
  <2> SUFFICES ASSUME new.alone PROVE HasCome(new)'
    OBVIOUS
  <2>1. HasCome(task[c])
    BY DEF Steady, BlobsInv, AloneCome, Kept
  <2>2. file[PathOf(new)] = i /\ ~data[i].mixed
    BY <1>8, <1>13, <2>1 DEF HasCome
  <2>3. bytes = b
    BY <1>13, <2>2 DEF Blob!Written
  <2>4. PathOf(new) \in Blob!Paths
    BY <1>1, <1>2, <1>8, TaskIs
  <2>5. file'[PathOf(new)] = i /\ data'[i].bytes = b
    BY <1>2, <1>4, <1>6, <2>2, <2>3, <2>4
  <2>6. new.op = "complete" => PathOf(new) = new.key
    BY DEF PathOf
  <2> QED BY <1>2, <2>5, <2>6 DEF HasCome, Holds
<1>12. new.at = "written" => ~Blob!Waits(c) /\ Blob!HasUpload(c)
  BY <1>3
<1> QED BY <1>2, <1>3, <1>4, <1>5, <1>9, <1>10, <1>11, <1>12, Advance DEF Blob!Goes
LEMMA CopyEnds ==
  ASSUME Steady, NEW c \in Clients, Blob!CopyEnd(c)
  PROVE  KeptInv'
<1>1. PICK t, b : t = task[c] /\ b = (IF task[c].in = task[c].out THEN <<>> ELSE data[task[c].in].bytes)
  OBVIOUS
<1>2. PICK new : new = [t EXCEPT !.at = "stored", !.in = Blob!NoInode, !.out = Blob!NoInode, !.bytes = b]
  OBVIOUS
<1>3. TaskOK(t) /\ t.at = "writing" /\ t.op = "copy"
  BY <1>1, TaskIs DEF Steady, BlobsInv, Blob!CopyEnd, Blob!At
<1>4. PICK bytes \in Blob!Written(t.out, b) : Blob!Stored(Blob!Holding(t.out, bytes))
  BY <1>1 DEF Blob!CopyEnd
<1>5. Blob!Goes(c, new) /\ UNCHANGED <<store, row, upload, part, clean, file>>
  BY <1>1, <1>2 DEF Blob!CopyEnd, Blob!tables
<1>6. /\ Shaped(new) /\ new.op = "copy" /\ new.at = "stored" /\ new.key = t.key /\ new.from = t.from /\ new.up = t.up
      /\ new.number = t.number /\ new.in = Blob!NoInode /\ new.out = Blob!NoInode /\ new.alone = t.alone
      /\ new.touched = t.touched /\ new.bytes = b
  <2>1. new = [op |-> t.op, at |-> "stored", key |-> t.key, from |-> t.from, up |-> t.up, number |-> t.number,
               parts |-> t.parts, bytes |-> b, in |-> Blob!NoInode, out |-> Blob!NoInode, alone |-> t.alone, touched |-> t.touched]
    BY <1>2, <1>3 DEF TaskOK, Shaped
  <2> QED BY <1>3, <2>1 DEF Shaped
<1>7. TaskOK(new)
  <2>1. Doing(new) /\ Touches(new) = Touches(t)
    <3>1. t.key \in Keys /\ t.up = None /\ t.from \in Keys
      BY <1>3 DEF TaskOK, Doing, Does, OfKey, Blob!Idle
    <3> QED BY <1>3, <1>6, <3>1 DEF Doing, Does, OfKey, Touches, Blob!Targets
  <2> QED BY <1>3, <1>6, <2>1 DEF TaskOK, Writing
<1>8. Kept(t, new)
  BY <1>3, <1>6 DEF Kept
<1> QED BY <1>1, <1>3, <1>4, <1>5, <1>6, <1>7, <1>8, Closes

LEMMA PartEnds ==
  ASSUME Steady, NEW c \in Clients, Blob!PartEnd(c)
  PROVE  KeptInv'
<1>1. PICK t : t = task[c]
  OBVIOUS
<1>2. PICK new : new = [t EXCEPT !.at = "stored", !.out = Blob!NoInode]
  OBVIOUS
<1>3. TaskOK(t) /\ t.at = "writing" /\ t.op = "part"
  BY <1>1, TaskIs DEF Steady, BlobsInv, Blob!PartEnd, Blob!At
<1>4. PICK bytes \in Blob!Written(t.out, t.bytes) : Blob!Stored(Blob!Holding(t.out, bytes))
  BY <1>1 DEF Blob!PartEnd
<1>5. Blob!Goes(c, new) /\ UNCHANGED <<store, row, upload, part, clean, file>>
  BY <1>1, <1>2 DEF Blob!PartEnd, Blob!tables
<1>6. /\ Shaped(new) /\ new.op = "part" /\ new.at = "stored" /\ new.key = t.key /\ new.from = t.from /\ new.up = t.up
      /\ new.number = t.number /\ new.in = t.in /\ new.out = Blob!NoInode /\ new.alone = t.alone
      /\ new.touched = t.touched /\ new.bytes = t.bytes
  <2>1. new = [op |-> t.op, at |-> "stored", key |-> t.key, from |-> t.from, up |-> t.up, number |-> t.number,
               parts |-> t.parts, bytes |-> t.bytes, in |-> t.in, out |-> Blob!NoInode, alone |-> t.alone, touched |-> t.touched]
    BY <1>2, <1>3 DEF TaskOK, Shaped
  <2> QED BY <1>3, <2>1 DEF Shaped
<1>7. TaskOK(new)
  <2>1. Doing(new) /\ Touches(new) = Touches(t)
    <3>1. t.key = None /\ t.up \in Uploads /\ t.number \in PartNumbers
      BY <1>3 DEF TaskOK, Doing, Does, OfUpload, Blob!Idle
    <3> QED BY <1>3, <1>6, <3>1 DEF Doing, Does, OfUpload, Touches, Blob!Targets
  <2> QED BY <1>3, <1>6, <2>1 DEF TaskOK, Writing
<1>8. Kept(t, new)
  BY <1>3, <1>6 DEF Kept
<1> QED BY <1>1, <1>3, <1>4, <1>5, <1>6, <1>7, <1>8, Closes

(* The parts that complete has found recorded are those it joins, with the *)
(* bytes their rows tell of, if the upload is clean.                       *)
LEMMA PartsJoined ==
  ASSUME Steady, NEW c \in Clients, Blob!At(c, "complete", "writing"), ~Blob!PartMissing(c), task[c].alone, clean[task[c].up]
  PROVE  Blob!Joined([n \in task[c].parts |-> data[Blob!PartFile(c, n)].bytes]) = task[c].bytes
<1>1. PICK u : u = task[c].up
  OBVIOUS
<1>2. Blob!BlobsAssumption /\ BlobsTypeOK /\ TaskOK(task[c]) /\ u \in Uploads /\ task[c].parts \subseteq PartNumbers
  <2>1. Blob!BlobsAssumption /\ BlobsTypeOK /\ TaskOK(task[c])
    BY TaskIs DEF Steady, BlobsInv
  <2> QED BY <1>1, <2>1 DEF TaskOK, Doing, Does, OfBoth, Blob!At, Blob!Idle
<1>3. /\ upload[u].state = "open" /\ task[c].parts = Blob!RecordedParts(u)
      /\ task[c].bytes = Blob!Joined([n \in task[c].parts |-> part[u][n]])
  BY <1>1 DEF Steady, BlobsInv, AloneCome, HasCome, Blob!At
<1>4. ASSUME NEW n \in task[c].parts PROVE data[Blob!PartFile(c, n)].bytes = part[u][n]
  <2>1. \A d \in Clients : u \notin task[d].touched
    <3>1. task[c].touched = {task[c].key} /\ task[c].key \in Keys
      BY <1>2 DEF TaskOK, Touches, Doing, Does, OfBoth, Blob!At, Blob!Idle
    <3>2. u \in Blob!Targets(task[c]) /\ u \notin Keys
      BY <1>1, <1>2, Constants DEF Blob!Targets
    <3>3. \A d \in Clients : d # c => u \notin Blob!Targets(task[d])
      BY <3>2 DEF Steady, BlobsInv, AloneOnKey
    <3> QED BY <1>2, <3>1, <3>2, <3>3, TaskIs
  <2>2. Blob!Agrees(part[u][n], <<u, n>>)
    BY <1>1, <1>2, <1>3, <2>1 DEF Steady, BlobsInv, PartsSettled, Beside
  <2>3. file[<<u, n>>] # Blob!NoInode
    BY <1>1 DEF Blob!PartMissing, Blob!PartFile
  <2> QED BY <1>1, <2>2, <2>3 DEF Blob!Agrees, Blob!PartFile
<1>5. [n \in task[c].parts |-> data[Blob!PartFile(c, n)].bytes] = [n \in task[c].parts |-> part[u][n]]
  BY <1>4
<1> QED BY <1>3, <1>5

LEMMA AssembleEnds ==
  ASSUME Steady, NEW c \in Clients, Blob!AssembleEnd(c)
  PROVE  KeptInv'
<1>1. PICK t, b : t = task[c] /\ b = Blob!Joined([n \in task[c].parts |-> data[Blob!PartFile(c, n)].bytes])
  OBVIOUS
<1>2. PICK new : new = [t EXCEPT !.at = "assembled", !.out = Blob!NoInode]
  OBVIOUS
<1>3. TaskOK(t) /\ t.at = "writing" /\ t.op = "complete"
  BY <1>1, TaskIs DEF Steady, BlobsInv, Blob!AssembleEnd, Blob!At
<1>4. PICK bytes \in Blob!Written(t.out, b) : Blob!Stored(Blob!Holding(t.out, bytes))
  BY <1>1 DEF Blob!AssembleEnd
<1>5. Blob!Goes(c, new) /\ UNCHANGED <<store, row, upload, part, clean, file>>
  BY <1>1, <1>2 DEF Blob!AssembleEnd, Blob!tables
<1>6. /\ Shaped(new) /\ new.op = "complete" /\ new.at = "assembled" /\ new.key = t.key /\ new.from = t.from
      /\ new.up = t.up /\ new.number = t.number /\ new.parts = t.parts /\ new.in = t.in /\ new.out = Blob!NoInode
      /\ new.alone = t.alone /\ new.touched = t.touched /\ new.bytes = t.bytes
  <2>1. new = [op |-> t.op, at |-> "assembled", key |-> t.key, from |-> t.from, up |-> t.up, number |-> t.number,
               parts |-> t.parts, bytes |-> t.bytes, in |-> t.in, out |-> Blob!NoInode, alone |-> t.alone, touched |-> t.touched]
    BY <1>2, <1>3 DEF TaskOK, Shaped
  <2> QED BY <1>3, <2>1 DEF Shaped
<1>7. TaskOK(new)
  <2>1. Doing(new) /\ Touches(new) = Touches(t)
    <3>1. t.key \in Keys /\ t.up \in Uploads /\ t.parts \subseteq PartNumbers /\ t.parts # {}
      BY <1>3 DEF TaskOK, Doing, Does, OfBoth, Blob!Idle
    <3> QED BY <1>3, <1>6, <3>1 DEF Doing, Does, OfBoth, Touches, Blob!Targets
  <2> QED BY <1>3, <1>6, <2>1 DEF TaskOK, Writing
<1>8. Kept(t, new)
  BY <1>3, <1>6 DEF Kept
<1>9. new.alone /\ clean[new.up] => new.bytes = b
  BY <1>1, <1>6, PartsJoined DEF Blob!AssembleEnd
<1> QED BY <1>1, <1>3, <1>4, <1>5, <1>6, <1>7, <1>8, <1>9, Closes
-----------------------------------------------------------------------------
LEMMA PathsKept ==
  ASSUME BlobsTypeOK, \A i \in Blob!Inodes : Blob!InUse(i)' => data'[i] = data[i]
  PROVE  \A p \in Blob!Paths : file'[p] = file[p] => SamePath(p)
<1> SUFFICES ASSUME NEW p \in Blob!Paths, file'[p] = file[p], file[p] # Blob!NoInode PROVE data'[file[p]] = data[file[p]]
  BY DEF SamePath
<1>1. PICK i : i = file[p]
  OBVIOUS
<1>2. i \in Blob!Inodes /\ Blob!InUse(i)'
  BY <1>1 DEF BlobsTypeOK, Handles, Blob!InUse
<1> QED BY <1>1, <1>2

(* A task that changes no bytes. *)
LEMMA Leads ==
  ASSUME Steady, NEW c \in Clients, NEW new,
         ~Writing(task[c]), task[c] # Blob!Idle, Blob!Goes(c, new), TaskOK(new), new.at \in {"stored", "written"}, Kept(task[c], new),
         UNCHANGED <<store, row, upload, part, clean>>, FilesOK',
         \A p \in Blob!Paths : file'[p] \in {file[p], Blob!NoInode} /\ (SamePath(p) \/ Reached(new, p)),
         \A i \in Blob!Inodes : Blob!InUse(i)' => data'[i] = data[i],
         new.at = "written" => ~Blob!Waits(c) /\ Blob!HasUpload(c),
         new.alone => HasCome(new)'
  PROVE  KeptInv'
<1>1. Blob!BlobsAssumption /\ BlobsTypeOK
  BY DEF Steady, BlobsInv
<1>2. task'[c] = new /\ ~Writing(new) /\ new.at # "idle" /\ \A d \in Clients : d # c => task'[d] = task[d]
  BY <1>1 DEF BlobsTypeOK, Writing, Blob!Goes
<1>3. OnePath' /\ OwnedInodes' /\ Shared' /\ Apart'
  BY <1>1, <1>2, InodesStay DEF Steady, BlobsInv
<1>4. \A d \in Clients \ {c} : Writing(task[d]) => data'[task[d].out].mixed = data[task[d].out].mixed
  <2> SUFFICES ASSUME NEW d \in Clients \ {c}, Writing(task[d]) PROVE data'[task[d].out].mixed = data[task[d].out].mixed
    OBVIOUS
  <2>1. task[d].out \in Blob!Inodes /\ task'[d].out = task[d].out
    BY <1>1, <1>2, TaskIs
  <2>2. PICK i : i = task[d].out
    OBVIOUS
  <2>3. Blob!InUse(i)'
    BY <2>1, <2>2 DEF Blob!InUse
  <2> QED BY <2>1, <2>2, <2>3
<1> QED BY <1>2, <1>3, <1>4, Advance DEF Blob!Goes

LEMMA Writes ==
  ASSUME Steady, NEW c \in Clients, Blob!Write(c)
  PROVE  KeptInv'
<1>1. PICK t : t = task[c]
  OBVIOUS
<1>2. PICK new : new = [t EXCEPT !.at = "written"]
  OBVIOUS
<1>3. TaskOK(t) /\ t.at = "stored" /\ ~Blob!Waits(c) /\ Blob!HasUpload(c) /\ FilesOK
  BY <1>1, TaskIs DEF Steady, BlobsInv, Blob!Write, BlobsTypeOK, FilesOK
<1>4. Blob!Goes(c, new) /\ UNCHANGED <<store, row, upload, part, clean, file, data>>
  BY <1>1, <1>2 DEF Blob!Write, Blob!tables, Blob!files
<1>5. /\ Shaped(new) /\ new.op = t.op /\ new.at = "written" /\ new.key = t.key /\ new.from = t.from
      /\ new.up = t.up /\ new.number = t.number /\ new.parts = t.parts /\ new.in = t.in /\ new.out = t.out
      /\ new.alone = t.alone /\ new.touched = t.touched /\ new.bytes = t.bytes
  <2>1. new = [op |-> t.op, at |-> "written", key |-> t.key, from |-> t.from, up |-> t.up, number |-> t.number,
               parts |-> t.parts, bytes |-> t.bytes, in |-> t.in, out |-> t.out, alone |-> t.alone, touched |-> t.touched]
    BY <1>2, <1>3 DEF TaskOK, Shaped
  <2> QED BY <2>1 DEF Shaped
<1>6. TaskOK(new)
  <2>1. Doing(new) /\ Touches(new) = Touches(t)
    BY <1>3, <1>5 DEF TaskOK, Doing, Does, OfKey, OfBoth, OfUpload, Touches, Blob!Targets, Blob!Idle
  <2> QED BY <1>3, <1>5, <2>1 DEF TaskOK, Writing
<1>7. Kept(t, new) /\ ~Writing(t) /\ t # Blob!Idle
  BY <1>3, <1>5 DEF Kept, Writing, Blob!Idle
<1>8. new.alone => HasCome(new)'
  <2> SUFFICES ASSUME new.alone PROVE HasCome(new)'
    OBVIOUS
  <2>1. HasCome(t)
    BY <1>1, <1>5 DEF Steady, BlobsInv, AloneCome
  <2>2. HasCome(new)
    BY <1>3, <1>5, <2>1 DEF HasCome, PathOf
  <2>3. HasCome(new)' <=> HasCome(new)
    BY <1>4 DEF HasCome, Holds, Cleared, Blob!RecordedParts
  <2> QED BY <2>2, <2>3
<1>9. FilesOK' /\ \A p \in Blob!Paths : SamePath(p)
  BY <1>3, <1>4 DEF FilesOK, SamePath
<1> QED BY <1>1, <1>3, <1>4, <1>5, <1>6, <1>7, <1>8, <1>9, Leads

LEMMA Removes ==
  ASSUME Steady, NEW c \in Clients, Blob!Rm(c)
  PROVE  KeptInv'
<1>1. PICK t : t = task[c]
  OBVIOUS
<1>2. PICK new : new = [t EXCEPT !.at = "stored", !.touched = {t.key}]
  OBVIOUS
<1>3. /\ Blob!BlobsAssumption /\ BlobsTypeOK /\ FilesOK /\ TaskOK(t) /\ t.at = "found" /\ t.op = "delete"
      /\ t.key \in Keys /\ t.up = None /\ None \notin Keys /\ t.key \in Blob!Paths /\ Subject(t.key) = t.key
  <2>1. Blob!BlobsAssumption /\ BlobsTypeOK /\ FilesOK /\ TaskOK(t) /\ t.at = "found" /\ t.op = "delete"
    BY <1>1, TaskIs DEF Steady, BlobsInv, Blob!Rm, Blob!At, BlobsTypeOK, FilesOK
  <2>2. t.key \in Keys /\ t.up = None
    BY <2>1 DEF TaskOK, Doing, Does, OfKey, Blob!Idle
  <2> QED BY <2>1, <2>2, Constants, SubjectIs
<1>4. /\ Blob!Goes(c, new) /\ UNCHANGED <<store, row, upload, part, clean>>
      /\ file' = [file EXCEPT ![t.key] = Blob!NoInode] /\ Blob!Stored(data)
  BY <1>1, <1>2 DEF Blob!Rm, Blob!tables
<1>5. /\ Shaped(new) /\ new.op = t.op /\ new.at = "stored" /\ new.key = t.key /\ new.from = t.from
      /\ new.up = t.up /\ new.number = t.number /\ new.parts = t.parts /\ new.in = t.in /\ new.out = t.out
      /\ new.alone = t.alone /\ new.touched = {t.key} /\ new.bytes = t.bytes
  <2>1. new = [op |-> t.op, at |-> "stored", key |-> t.key, from |-> t.from, up |-> t.up, number |-> t.number,
               parts |-> t.parts, bytes |-> t.bytes, in |-> t.in, out |-> t.out, alone |-> t.alone, touched |-> {t.key}]
    BY <1>2, <1>3 DEF TaskOK, Shaped
  <2> QED BY <2>1 DEF Shaped
<1>6. TaskOK(new)
  <2>1. Doing(new) /\ Touches(new) = {t.key}
    BY <1>3, <1>5 DEF Doing, Does, OfKey, Touches, Blob!Targets
  <2> QED BY <1>3, <1>5, <2>1 DEF TaskOK, Writing
<1>7. Kept(t, new) /\ ~Writing(t) /\ t # Blob!Idle
  BY <1>3, <1>5 DEF Kept, Writing, Blob!Idle, TaskOK, Touches
<1>8. /\ file' \in [Blob!Paths -> Handles] /\ file'[t.key] = Blob!NoInode /\ \A p \in Blob!Paths : p # t.key => file'[p] = file[p]
  BY <1>3, <1>4 DEF BlobsTypeOK, Handles
<1>9. FilesOK' /\ \A i \in Blob!Inodes : Blob!InUse(i)' => data'[i] = data[i]
  BY <1>3, <1>4, <1>8, Tidied
<1>10. \A p \in Blob!Paths : file'[p] = file[p] => SamePath(p)
  BY <1>3, <1>9, PathsKept
<1>11. \A p \in Blob!Paths : file'[p] \in {file[p], Blob!NoInode} /\ (SamePath(p) \/ Reached(new, p))
  BY <1>3, <1>5, <1>8, <1>10 DEF Reached
<1>12. HasCome(new)'
  BY <1>3, <1>5, <1>8 DEF HasCome
<1> QED BY <1>1, <1>4, <1>5, <1>6, <1>7, <1>9, <1>11, <1>12, Leads

LEMMA RemovesParts ==
  ASSUME Steady, NEW c \in Clients, Blob!RmParts(c)
  PROVE  KeptInv'
<1>1. PICK t : t = task[c]
  OBVIOUS
<1>2. PICK new : new = [t EXCEPT !.at = "stored", !.touched = Blob!Targets(t), !.parts = {}]
  OBVIOUS
<1>3. /\ Blob!BlobsAssumption /\ BlobsTypeOK /\ FilesOK /\ TaskOK(t) /\ t.at = "assembled" /\ t.op \in {"complete", "abort"}
      /\ t.up \in Uploads /\ t.up \in Blob!Targets(t)
      /\ IF t.op = "complete" THEN t.key \in Keys /\ t.parts \subseteq PartNumbers ELSE t.key = None
  <2>1. Blob!BlobsAssumption /\ BlobsTypeOK /\ FilesOK /\ TaskOK(t) /\ t.at = "assembled"
    BY <1>1, TaskIs DEF Steady, BlobsInv, Blob!RmParts, Blob!At, BlobsTypeOK, FilesOK
  <2>2. t.op \in {"complete", "abort"} /\ t.up \in Uploads
        /\ IF t.op = "complete" THEN t.key \in Keys /\ t.parts \subseteq PartNumbers ELSE t.key = None
    BY <2>1 DEF TaskOK, Doing, Does, OfUpload, OfBoth, Blob!Idle
  <2> QED BY <2>1, <2>2, Constants DEF Blob!Targets
<1>4. /\ Blob!Goes(c, new) /\ UNCHANGED <<store, row, upload, part, clean>>
      /\ file' = [p \in Blob!Paths |-> IF p \in Blob!Staged(t.up) THEN Blob!NoInode ELSE file[p]] /\ Blob!Stored(data)
  BY <1>1, <1>2 DEF Blob!RmParts, Blob!tables
<1>5. /\ Shaped(new) /\ new.op = t.op /\ new.at = "stored" /\ new.key = t.key /\ new.from = t.from
      /\ new.up = t.up /\ new.number = t.number /\ new.parts = {} /\ new.in = t.in /\ new.out = t.out
      /\ new.alone = t.alone /\ new.touched = Blob!Targets(t) /\ new.bytes = t.bytes
  <2> DEFINE T == Blob!Targets(t)
  <2> HIDE DEF T
  <2>1. new = [op |-> t.op, at |-> "stored", key |-> t.key, from |-> t.from, up |-> t.up, number |-> t.number,
               parts |-> {}, bytes |-> t.bytes, in |-> t.in, out |-> t.out, alone |-> t.alone, touched |-> T]
    BY <1>2, <1>3 DEF TaskOK, Shaped, T
  <2>2. Shaped(new)
    BY <2>1 DEF Shaped
  <2> QED BY <2>1, <2>2 DEF T
<1>6. TaskOK(new)
  <2>1. Doing(new) /\ Touches(new) = Blob!Targets(t)
    BY <1>3, <1>5 DEF Doing, Does, OfBoth, OfUpload, Touches, Blob!Targets
  <2> QED BY <1>3, <1>5, <2>1 DEF TaskOK, Writing
<1>7. Kept(t, new) /\ ~Writing(t) /\ t # Blob!Idle
  BY <1>1, <1>3, <1>5, TaskIs DEF Kept, Writing, Blob!Idle
<1>8. file' \in [Blob!Paths -> Handles] /\ \A p \in Blob!Paths : file'[p] = IF p \in Blob!Staged(t.up) THEN Blob!NoInode ELSE file[p]
  BY <1>3, <1>4 DEF BlobsTypeOK, Handles
<1>9. FilesOK' /\ \A i \in Blob!Inodes : Blob!InUse(i)' => data'[i] = data[i]
  BY <1>3, <1>4, <1>8, Tidied
<1>10. \A p \in Blob!Paths : file'[p] = file[p] => SamePath(p)
  BY <1>3, <1>9, PathsKept
<1>11. \A p \in Blob!Paths : p \in Blob!Staged(t.up) => Subject(p) = t.up
  BY <1>3, SubjectIs DEF Blob!Staged
<1>12. \A p \in Blob!Paths : file'[p] \in {file[p], Blob!NoInode} /\ (SamePath(p) \/ Reached(new, p))
  BY <1>3, <1>5, <1>8, <1>10, <1>11 DEF Reached
<1>13. new.alone => HasCome(new)'
  <2> SUFFICES ASSUME t.alone PROVE HasCome(new)'
    BY <1>5
  <2>1. HasCome(t)
    BY <1>1 DEF Steady, BlobsInv, AloneCome
  <2>2. \A n \in PartNumbers : file'[<<t.up, n>>] = Blob!NoInode
    BY <1>3, <1>8, Constants DEF Blob!Staged
  <2>3. Cleared(new.up)'
    BY <1>5, <2>2 DEF Cleared
  <2>4. t.op = "complete" /\ clean[t.up] => Holds(t.key, t.bytes)'
    <3> SUFFICES ASSUME t.op = "complete", clean[t.up] PROVE Holds(t.key, t.bytes)'
      OBVIOUS
    <3>1. Holds(t.key, t.bytes) /\ t.key \in Blob!Paths /\ t.key \notin Blob!Staged(t.up)
      BY <1>3, <2>1, Constants DEF HasCome, Blob!Staged
    <3>2. file'[t.key] = file[t.key]
      BY <1>8, <3>1
    <3> QED BY <1>10, <3>1, <3>2 DEF Holds, SamePath
  <2> QED BY <1>3, <1>4, <1>5, <2>3, <2>4 DEF HasCome
<1> QED BY <1>1, <1>4, <1>5, <1>6, <1>7, <1>9, <1>12, <1>13, Leads
-----------------------------------------------------------------------------
(* The operations that end without success. *)
LEMMA OthersWrite ==
  ASSUME Blob!BlobsAssumption, BlobsTypeOK, NEW c \in Clients, Blob!Fails(c)
  PROVE  \A d \in Clients \ {c} : Writing(task[d]) => task[d].out \in Blob!Inodes /\ \E i \in Blob!Inodes : i = task[d].out /\ Blob!InUse(i)'
<1> SUFFICES ASSUME NEW d \in Clients \ {c}, Writing(task[d])
             PROVE  task[d].out \in Blob!Inodes /\ \E i \in Blob!Inodes : i = task[d].out /\ Blob!InUse(i)'
  OBVIOUS
<1>1. PICK i : i = task[d].out
  OBVIOUS
<1>2. i \in Blob!Inodes /\ task'[d].out = i
  BY <1>1, TaskIs DEF BlobsTypeOK, Blob!Fails
<1> QED BY <1>1, <1>2 DEF Blob!InUse

LEMMA Stops ==
  ASSUME Steady, NEW c \in Clients, task[c] # Blob!Idle, Blob!Fails(c), UNCHANGED <<store, row, upload, part, file>>, Blob!Stored(data)
  PROVE  KeptInv'
<1>1. Blob!BlobsAssumption /\ BlobsTypeOK /\ FilesOK
  BY DEF Steady, BlobsInv, BlobsTypeOK, FilesOK
<1>2. FilesOK' /\ \A i \in Blob!Inodes : Blob!InUse(i)' => data'[i] = data[i]
  BY <1>1, Tidied DEF BlobsTypeOK
<1>3. \A p \in Blob!Paths : SamePath(p)
  BY <1>1, <1>2, PathsKept
<1>4. \A d \in Clients \ {c} : Writing(task[d]) => data'[task[d].out].mixed = data[task[d].out].mixed
  BY <1>1, <1>2, OthersWrite
<1> QED BY <1>2, <1>3, <1>4, Leave

LEMMA Robbed ==
  ASSUME Steady, NEW c \in Clients, Blob!PutRobbed(c)
  PROVE  KeptInv'
<1>1. PICK i : i = task[c].out
  OBVIOUS
<1>2. PICK bytes : Blob!Stored(Blob!Holding(i, bytes))
  BY <1>1 DEF Blob!PutRobbed
<1>3. Blob!Fails(c) /\ UNCHANGED <<store, row, upload, part, file>>
  BY DEF Blob!PutRobbed, Blob!tables
<1>4. /\ Blob!BlobsAssumption /\ BlobsTypeOK /\ FilesOK /\ TaskOK(task[c]) /\ task[c].op = "put" /\ task[c].at = "robbed"
      /\ task[c] # Blob!Idle /\ Writing(task[c]) /\ i \in Blob!Inodes
  BY <1>1, TaskIs DEF Steady, BlobsInv, BlobsTypeOK, FilesOK, Blob!PutRobbed, Blob!At, Writing, Blob!Idle
<1>5. /\ FilesOK'
      /\ \A j \in Blob!Inodes : Blob!InUse(j)' => data'[j].mixed = data[j].mixed /\ (j # i => data'[j] = data[j])
  BY <1>2, <1>3, <1>4, HasEnded DEF BlobsTypeOK
<1>6. \A d \in Clients \ {c} : Writing(task[d]) => data'[task[d].out].mixed = data[task[d].out].mixed
  BY <1>3, <1>4, <1>5, OthersWrite
<1>7. \A p \in Blob!Paths : file[p] # i => SamePath(p)
  <2> SUFFICES ASSUME NEW p \in Blob!Paths, file[p] # i, file[p] # Blob!NoInode PROVE data'[file[p]] = data[file[p]]
    BY <1>3 DEF SamePath
  <2>1. PICK j : j = file[p]
    OBVIOUS
  <2>2. j \in Blob!Inodes /\ Blob!InUse(j)'
    BY <1>3, <1>4, <2>1 DEF BlobsTypeOK, Handles, Blob!InUse
  <2> QED BY <1>5, <2>1, <2>2
<1>8. \A p \in Blob!Paths : file[p] = i => p = task[c].key
  BY <1>1, <1>4 DEF Steady, BlobsInv, OwnedInodes, PathOf
<1>9. task[c].touched = {task[c].key} /\ Subject(task[c].key) = task[c].key
  <2>1. task[c].key \in Keys /\ task[c].up = None
    BY <1>4 DEF TaskOK, Doing, Does, OfKey, Blob!Idle
  <2> QED BY <1>4, <2>1, SubjectIs, Constants DEF TaskOK, Touches, Blob!Targets
<1>10. \A p \in Blob!Paths : SamePath(p) \/ Subject(p) \in task[c].touched
  BY <1>7, <1>8, <1>9
<1> QED BY <1>3, <1>4, <1>5, <1>6, <1>10, Leave

(* rm fails: assemble goes on, with files of parts that may be left;       *)
(* abortUpload throws, and nothing is known of the upload's files.         *)
LEMMA LeavesParts ==
  ASSUME Steady, NEW c \in Clients, Blob!RmFails(c)
  PROVE  KeptInv'
<1>1. PICK t, gone : /\ t = task[c] /\ gone \subseteq Blob!Staged(task[c].up)
                     /\ file' = [p \in Blob!Paths |-> IF p \in gone THEN Blob!NoInode ELSE file[p]]
  BY DEF Blob!RmFails
<1>2. /\ Blob!BlobsAssumption /\ BlobsTypeOK /\ FilesOK /\ TaskOK(t) /\ t.at = "assembled" /\ t.op \in {"complete", "abort"}
      /\ t.up \in Uploads /\ t.up \in Blob!Targets(t) /\ Blob!Targets(t) \subseteq Subjects
      /\ IF t.op = "complete" THEN t.key \in Keys /\ t.parts \subseteq PartNumbers /\ t.parts # {} ELSE t.touched = {}
  <2>1. Blob!BlobsAssumption /\ BlobsTypeOK /\ FilesOK /\ TaskOK(t) /\ t.at = "assembled"
    BY <1>1, TaskIs DEF Steady, BlobsInv, Blob!RmFails, BlobsTypeOK, FilesOK
  <2>2. /\ t.op \in {"complete", "abort"} /\ t.up \in Uploads
        /\ IF t.op = "complete" THEN t.key \in Keys /\ t.parts \subseteq PartNumbers /\ t.parts # {} ELSE t.touched = {}
    BY <2>1 DEF TaskOK, Doing, Does, OfUpload, OfBoth, Touches, Blob!Idle
  <2> QED BY <1>1, <2>1, <2>2, Constants, TaskIs DEF Blob!Targets
<1>3. UNCHANGED <<store, row, upload, part>> /\ Blob!Stored(data) /\ ~Writing(t) /\ t # Blob!Idle
  BY <1>2 DEF Blob!RmFails, Blob!tables, Writing, Blob!Idle
<1>4. file' \in [Blob!Paths -> Handles] /\ \A p \in Blob!Paths : file'[p] = IF p \in gone THEN Blob!NoInode ELSE file[p]
  BY <1>1, <1>2 DEF BlobsTypeOK, Handles
<1>5. FilesOK' /\ \A i \in Blob!Inodes : Blob!InUse(i)' => data'[i] = data[i]
  BY <1>2, <1>3, <1>4, Tidied
<1>6. \A p \in Blob!Paths : file'[p] = file[p] => SamePath(p)
  BY <1>2, <1>5, PathsKept
<1>7. \A p \in Blob!Paths : p \in Blob!Staged(t.up) => Subject(p) = t.up
  BY <1>2, SubjectIs DEF Blob!Staged
<1>8. \A p \in Blob!Paths : file'[p] \in {file[p], Blob!NoInode} /\ (SamePath(p) \/ Subject(p) = t.up)
  BY <1>1, <1>4, <1>6, <1>7
<1>9. CASE t.op = "complete"
  <2>1. PICK new : new = [t EXCEPT !.at = "stored", !.touched = Blob!Targets(t)]
    OBVIOUS
  <2>2. Blob!Goes(c, new) /\ clean' = clean
    BY <1>1, <1>9, <2>1 DEF Blob!RmFails
  <2>3. /\ Shaped(new) /\ new.op = t.op /\ new.at = "stored" /\ new.key = t.key /\ new.from = t.from
        /\ new.up = t.up /\ new.number = t.number /\ new.parts = t.parts /\ new.in = t.in /\ new.out = t.out
        /\ new.alone = t.alone /\ new.touched = Blob!Targets(t) /\ new.bytes = t.bytes
    <3> DEFINE T == Blob!Targets(t)
    <3> HIDE DEF T
    <3>1. new = [op |-> t.op, at |-> "stored", key |-> t.key, from |-> t.from, up |-> t.up, number |-> t.number,
                 parts |-> t.parts, bytes |-> t.bytes, in |-> t.in, out |-> t.out, alone |-> t.alone, touched |-> T]
      BY <1>2, <2>1 DEF TaskOK, Shaped, T
    <3>2. Shaped(new)
      BY <3>1 DEF Shaped
    <3> QED BY <3>1, <3>2 DEF T
  <2>4. TaskOK(new)
    <3>1. Doing(new) /\ Touches(new) = Blob!Targets(t)
      BY <1>2, <1>9, <2>3 DEF Doing, Does, OfBoth, Touches, Blob!Targets
    <3> QED BY <1>2, <2>3, <3>1 DEF TaskOK, Writing
  <2>5. Kept(t, new)
    BY <1>1, <1>2, <2>3, TaskIs DEF Kept
  <2>6. \A p \in Blob!Paths : file'[p] \in {file[p], Blob!NoInode} /\ (SamePath(p) \/ Reached(new, p))
    BY <1>2, <1>8, <1>9, <2>3 DEF Reached
  <2>7. new.alone => HasCome(new)'
    <3> SUFFICES ASSUME t.alone PROVE HasCome(new)'
      BY <2>3
    <3>1. HasCome(t)
      BY <1>1 DEF Steady, BlobsInv, AloneCome
    <3>2. ASSUME clean[t.up] PROVE Holds(t.key, t.bytes)'
      <4>1. Holds(t.key, t.bytes) /\ t.key \in Blob!Paths /\ t.key \notin Blob!Staged(t.up)
        BY <1>2, <1>9, <3>1, <3>2, Constants DEF HasCome, Blob!Staged
      <4>2. file'[t.key] = file[t.key]
        BY <1>1, <1>4, <4>1
      <4> QED BY <1>6, <4>1, <4>2 DEF Holds, SamePath
    <3> QED BY <1>2, <1>3, <1>9, <2>2, <2>3, <3>2 DEF HasCome
  <2> QED BY <1>1, <1>2, <1>3, <1>5, <2>2, <2>3, <2>4, <2>5, <2>6, <2>7, Leads
<1>10. CASE t.op = "abort"
  <2> DEFINE T == {t.up}
  <2>1. task' = [task EXCEPT ![c] = Blob!Idle] /\ clean' = [clean EXCEPT ![t.up] = FALSE]
    BY <1>1, <1>10 DEF Blob!RmFails, Blob!Goes
  <2>2. clean' \in [Subjects -> BOOLEAN] /\ \A x \in Subjects : clean'[x] <=> clean[x] /\ x \notin T
    BY <1>2, <2>1 DEF BlobsTypeOK
  <2>3. T \subseteq Blob!Targets(t) /\ t.touched \subseteq T
    BY <1>2, <1>10
  <2>4. \A p \in Blob!Paths : file'[p] \in {file[p], Blob!NoInode} /\ (SamePath(p) \/ Subject(p) \in T)
    BY <1>8
  <2> HIDE DEF T
  <2>5. ASSUME NEW d \in Clients \ {c}, Writing(task[d]) PROVE data'[task[d].out].mixed = data[task[d].out].mixed
    <3>1. PICK i : i = task[d].out
      OBVIOUS
    <3>2. i \in Blob!Inodes /\ task'[d].out = i
      BY <1>2, <2>1, <2>5, <3>1, TaskIs DEF BlobsTypeOK
    <3>3. Blob!InUse(i)'
      BY <3>2 DEF Blob!InUse
    <3> QED BY <1>5, <3>1, <3>2, <3>3
  <2> QED BY <1>1, <1>3, <1>5, <2>1, <2>2, <2>3, <2>4, <2>5, GivesUp
<1> QED BY <1>2, <1>9, <1>10

LEMMA CopyStops ==
  ASSUME Steady, NEW c \in Clients, Blob!CopyFindsNothing(c)
  PROVE  KeptInv'
BY Stops DEF Blob!CopyFindsNothing, Blob!At, Blob!Idle, Blob!tables

LEMMA AssembleStops ==
  ASSUME Steady, NEW c \in Clients, Blob!AssembleFindsNothing(c)
  PROVE  KeptInv'
BY Stops DEF Blob!AssembleFindsNothing, Blob!At, Blob!Idle, Blob!tables

LEMMA FailStops ==
  ASSUME Steady, NEW c \in Clients, Blob!Fail(c)
  PROVE  KeptInv'
BY Stops DEF Blob!Fail, Blob!Idle, Blob!tables

LEMMA Refused ==
  ASSUME Steady, NEW c \in Clients, Blob!WriteRefused(c)
  PROVE  KeptInv'
<1>1. Blob!Fails(c) /\ UNCHANGED <<store, row, upload, part, file, data>> /\ task[c] # Blob!Idle
  BY DEF Blob!WriteRefused, Blob!tables, Blob!files, Blob!Idle
<1>2. FilesOK' /\ \A p \in Blob!Paths : SamePath(p)
  BY <1>1 DEF Steady, BlobsInv, BlobsTypeOK, FilesOK, SamePath
<1> QED BY <1>1, <1>2, Leave
-----------------------------------------------------------------------------
(* The rename takes the file from all who stream into it.                  *)
LEMMA Renames ==
  ASSUME Steady, NEW c \in Clients, Blob!PutRename(c)
  PROVE  KeptInv'
<1>1. PICK i, k : i = task[c].out /\ k = task[c].key
  OBVIOUS
<1>2. /\ Blob!At(c, "put", "streaming") /\ file' = [file EXCEPT ![k] = i]
      /\ task' = [d \in Clients |->
           IF d = c THEN [task[d] EXCEPT !.at = "stored", !.out = Blob!NoInode, !.touched = {k}]
           ELSE IF d \in Blob!Writers(i) THEN [task[d] EXCEPT !.at = "robbed", !.touched = {k}]
           ELSE task[d]]
      /\ UNCHANGED <<store, row, upload, part, clean>>
  BY <1>1 DEF Blob!PutRename, Blob!tables
<1>3. PICK bytes \in Blob!Written(i, task[c].bytes) : Blob!Stored(Blob!Holding(i, bytes))
  BY <1>1 DEF Blob!PutRename
<1>4. Blob!BlobsAssumption /\ BlobsTypeOK /\ FilesOK /\ Blob!NoInode \notin Blob!Inodes
  BY Sizes DEF Steady, BlobsInv, BlobsTypeOK, FilesOK
<1>5. /\ TaskOK(task[c]) /\ Writing(task[c]) /\ i \in Blob!Inodes /\ k \in Keys /\ PathOf(task[c]) = k /\ task[c].touched = {}
      /\ task[c].up = None
  <2>1. TaskOK(task[c]) /\ Writing(task[c]) /\ i \in Blob!Inodes
    BY <1>1, <1>2, <1>4, TaskIs DEF Blob!At, Writing
  <2>2. k \in Keys /\ task[c].up = None
    <3>1. Doing(task[c]) /\ task[c].op = "put" /\ task[c].at = "streaming"
      BY <1>2, <2>1 DEF Blob!At, TaskOK
    <3> QED BY <1>1, <3>1 DEF Doing, Does, OfKey, Blob!Idle
  <2>3. task[c].touched = {}
    BY <1>2, <2>1 DEF Blob!At, TaskOK, Touches
  <2>4. PathOf(task[c]) = k
    BY <1>1, <1>2 DEF Blob!At, PathOf
  <2> QED BY <2>1, <2>2, <2>3, <2>4
<1>6. k \in Blob!Paths /\ Subject(k) = k /\ k \notin Uploads /\ k # None /\ None \notin Uploads
  BY <1>4, <1>5, Constants, SubjectIs
<1>7. \A p \in Blob!Paths : file[p] # i
  BY <1>1, <1>2 DEF Steady, BlobsInv, Apart
<1>8. ASSUME NEW d \in Clients, d = c \/ d \in Blob!Writers(i)
      PROVE  Blob!At(d, "put", "streaming") /\ TaskOK(task[d]) /\ task[d].key = k /\ task[d].up = None /\ task[d].out = i /\ task[d].touched = {}
  <2>1. task[d].out = i /\ TaskOK(task[d])
    BY <1>1, <1>4, <1>8, TaskIs DEF Blob!Writers
  <2>2. Writing(task[d])
    BY <1>4, <1>5, <2>1 DEF TaskOK
  <2>3. PathOf(task[d]) = k /\ task[d].at = "streaming"
    BY <1>1, <1>2, <1>5, <2>1, <2>2 DEF Steady, BlobsInv, Shared, Blob!At
  <2>4. task[d].op = "put" /\ task[d].up = None /\ task[d].touched = {}
    BY <2>1, <2>3 DEF TaskOK, Doing, Does, OfKey, Touches, Blob!Idle
  <2> QED BY <2>1, <2>3, <2>4 DEF Blob!At, PathOf
<1>9. ASSUME NEW d \in Clients
      PROVE  IF d = c \/ d \in Blob!Writers(i)
             THEN /\ Shaped(task'[d]) /\ task'[d].op = "put" /\ task'[d].key = k /\ task'[d].up = None /\ task'[d].from = task[d].from
                  /\ task'[d].number = task[d].number /\ task'[d].parts = task[d].parts /\ task'[d].bytes = task[d].bytes
                  /\ task'[d].in = Blob!NoInode /\ task'[d].alone = task[d].alone /\ task'[d].touched = {k}
                  /\ IF d = c THEN task'[d].at = "stored" /\ task'[d].out = Blob!NoInode ELSE task'[d].at = "robbed" /\ task'[d].out = i
             ELSE task'[d] = task[d]
  <2>1. CASE d = c
    <3>1. PICK t : t = task[d]
      OBVIOUS
    <3>2. Shaped(t) /\ t.op = "put" /\ t.key = k /\ t.up = None /\ t.in = Blob!NoInode
      BY <1>8, <2>1, <3>1 DEF TaskOK, Blob!At
    <3>3. task'[d] = [t EXCEPT !.at = "stored", !.out = Blob!NoInode, !.touched = {k}]
      BY <1>2, <2>1, <3>1
    <3>4. task'[d] = [op |-> "put", at |-> "stored", key |-> k, from |-> t.from, up |-> None, number |-> t.number,
                      parts |-> t.parts, bytes |-> t.bytes, in |-> Blob!NoInode, out |-> Blob!NoInode, alone |-> t.alone, touched |-> {k}]
      BY <3>2, <3>3 DEF Shaped
    <3> QED BY <2>1, <3>1, <3>4 DEF Shaped
  <2>2. CASE d # c /\ d \in Blob!Writers(i)
    <3>1. PICK t : t = task[d]
      OBVIOUS
    <3>2. Shaped(t) /\ t.op = "put" /\ t.key = k /\ t.up = None /\ t.in = Blob!NoInode /\ t.out = i
      BY <1>8, <2>2, <3>1 DEF TaskOK, Blob!At
    <3>3. task'[d] = [t EXCEPT !.at = "robbed", !.touched = {k}]
      BY <1>2, <2>2, <3>1
    <3>4. task'[d] = [op |-> "put", at |-> "robbed", key |-> k, from |-> t.from, up |-> None, number |-> t.number,
                      parts |-> t.parts, bytes |-> t.bytes, in |-> Blob!NoInode, out |-> i, alone |-> t.alone, touched |-> {k}]
      BY <3>2, <3>3 DEF Shaped
    <3> QED BY <2>2, <3>1, <3>4 DEF Shaped
  <2>3. CASE d # c /\ d \notin Blob!Writers(i)
    BY <1>2, <2>3
  <2> QED BY <2>1, <2>2, <2>3
<1>10. \A d \in Clients : Blob!Targets(task'[d]) = Blob!Targets(task[d]) /\ task'[d].alone = task[d].alone /\ task[d].touched \subseteq task'[d].touched
                          /\ task'[d].up = task[d].up /\ task'[d].op = task[d].op
  BY <1>8, <1>9 DEF Blob!Targets, Blob!At
<1>11. ASSUME NEW d \in Clients PROVE TaskOK(task'[d])
  <2>1. CASE d = c \/ d \in Blob!Writers(i)
    <3>1. Doing(task'[d]) /\ Touches(task'[d]) = {k}
      BY <1>5, <1>6, <1>9, <2>1 DEF Doing, Does, OfKey, Touches, Blob!Targets
    <3>2. task'[d].alone \in BOOLEAN
      BY <1>8, <1>9, <2>1 DEF TaskOK
    <3>3. IF Writing(task'[d]) THEN task'[d].out \in Blob!Inodes ELSE task'[d].out = Blob!NoInode
      BY <1>5, <1>9, <2>1 DEF Writing
    <3> QED BY <1>9, <2>1, <3>1, <3>2, <3>3 DEF TaskOK
  <2>2. CASE ~(d = c \/ d \in Blob!Writers(i))
    BY <1>4, <1>9, <2>2, TaskIs
  <2> QED BY <2>1, <2>2
<1>12. /\ file' \in [Blob!Paths -> Handles] /\ file'[k] = i /\ \A p \in Blob!Paths : p # k => file'[p] = file[p]
  BY <1>2, <1>4, <1>5, <1>6 DEF BlobsTypeOK, Handles
<1>13. /\ FilesOK'
       /\ \A j \in Blob!Inodes : Blob!InUse(j)' => data'[j].mixed = data[j].mixed /\ (j # i => data'[j] = data[j])
       /\ Blob!InUse(i)' => data'[i].bytes = bytes
  BY <1>3, <1>4, <1>5, <1>12, HasEnded
<1>14. BlobsTypeOK'
  <2>1. task' = [d \in Clients |-> task'[d]] /\ \A d \in Clients : TaskOK(task'[d])
    BY <1>2, <1>11
  <2>2. UNCHANGED <<store, row, upload, part>> /\ clean' \in [Subjects -> BOOLEAN]
    BY <1>2, <1>4 DEF BlobsTypeOK
  <2> QED BY <1>4, <1>13, <2>1, <2>2, TypeStays
<1>15. \A p \in Blob!Paths : p # k => SamePath(p)
  <2> SUFFICES ASSUME NEW p \in Blob!Paths, p # k, file[p] # Blob!NoInode PROVE data'[file[p]] = data[file[p]]
    BY <1>12 DEF SamePath
  <2>1. PICK j : j = file[p]
    OBVIOUS
  <2>2. j \in Blob!Inodes /\ Blob!InUse(j)'
    BY <1>4, <1>12, <2>1 DEF BlobsTypeOK, Handles, Blob!InUse
  <2> QED BY <1>7, <1>13, <2>1, <2>2
<1>16. OnePath'
  BY <1>7, <1>12, <1>5, <1>4 DEF OnePath, Steady, BlobsInv
<1>17. ASSUME NEW d \in Clients, Writing(task'[d])
       PROVE  Writing(task[d]) /\ task'[d].out = task[d].out /\ PathOf(task'[d]) = PathOf(task[d])
              /\ (task'[d].out = i => PathOf(task'[d]) = k /\ task'[d].at = "robbed")
              /\ (task'[d].out # i => task'[d] = task[d])
  <2>1. CASE d = c \/ d \in Blob!Writers(i)
    BY <1>8, <1>9, <1>17, <2>1 DEF Writing, PathOf, Blob!At
  <2>2. CASE ~(d = c \/ d \in Blob!Writers(i))
    BY <1>9, <1>17, <2>2 DEF Blob!Writers
  <2> QED BY <2>1, <2>2
<1>18. OwnedInodes'
  BY <1>12, <1>17 DEF OwnedInodes, Steady, BlobsInv
<1>19. Shared'
  BY <1>17 DEF Shared, Steady, BlobsInv
<1>20. Apart'
  <2> SUFFICES ASSUME NEW d \in Clients, task'[d].op = "put", task'[d].at = "streaming", NEW p \in Blob!Paths
               PROVE  file'[p] # task'[d].out
    BY DEF Apart, Blob!At
  <2>1. task'[d].out # i /\ task'[d] = task[d]
    BY <1>17 DEF Writing
  <2>2. file[p] # task[d].out
    BY <2>1 DEF Apart, Blob!At, Steady, BlobsInv
  <2> QED BY <1>12, <2>1, <2>2
<1>21. AloneOnKey'
  BY <1>10, AloneStays DEF Steady, BlobsInv
<1>22. Locks' /\ PartsOpen' /\ PartsGone' /\ Unmade' /\ Creating'
  <2>1. \A d \in Clients : task'[d].at = "written" => task'[d] = task[d]
    BY <1>9
  <2>2. upload' = upload /\ part' = part /\ Locks /\ PartsOpen /\ PartsGone
    BY <1>2 DEF Steady, BlobsInv
  <2>8. Locks'
    BY <2>1, <2>2 DEF Locks
  <2>9. PartsOpen'
    BY <2>1, <2>2 DEF PartsOpen, Blob!At
  <2>10. PartsGone'
    BY <2>2 DEF PartsGone, Blob!NoParts
  <2>3. ASSUME NEW u \in Uploads, NEW n \in PartNumbers PROVE file'[<<u, n>>] = file[<<u, n>>]
    <3>1. <<u, n>> \in Blob!Paths /\ <<u, n>> # k
      BY <1>4, <1>5, Constants
    <3> QED BY <1>12, <3>1
  <2>4. upload' = upload /\ Unmade /\ Creating
    BY <1>2 DEF Steady, BlobsInv
  <2>5. \A d \in Clients : task'[d].up = task[d].up /\ task'[d].op = task[d].op
    BY <1>10
  <2>6. Unmade'
    BY <2>3, <2>4, <2>5 DEF Unmade
  <2>7. Creating'
    BY <2>4, <2>5 DEF Creating
  <2> QED BY <2>6, <2>7, <2>8, <2>9, <2>10
<1>23. AloneCome'
  <2> SUFFICES ASSUME NEW d \in Clients, task'[d].alone PROVE HasCome(task[d])'
    BY DEF AloneCome
  <2>1. CASE d = c
    <3>1. HasCome(task[c])
      BY <1>10, <2>1 DEF Steady, BlobsInv, AloneCome
    <3>2. ~data[i].mixed
      BY <1>1, <1>2, <3>1 DEF HasCome, Blob!At
    <3>3. bytes = task[c].bytes
      BY <1>3, <3>2 DEF Blob!Written
    <3>4. Blob!InUse(i)'
      BY <1>6, <1>12 DEF Blob!InUse
    <3>5. file'[k] = i /\ i # Blob!NoInode /\ data'[i].bytes = task[c].bytes
      BY <1>4, <1>5, <1>12, <1>13, <3>3, <3>4
    <3> QED BY <1>9, <2>1, <3>5 DEF HasCome, Holds, PathOf
  <2>2. CASE d # c
    <3>1. PICK t : t = task[d]
      OBVIOUS
    <3>2. Blob!Targets(task[c]) = {k}
      BY <1>1, <1>5, <1>6 DEF Blob!Targets
    <3>3. t.alone /\ Blob!Targets(task[c]) \cap Blob!Targets(t) = {}
      BY <1>10, <2>2, <3>1 DEF Steady, BlobsInv, AloneOnKey
    <3>4. d \notin Blob!Writers(i)
      BY <1>6, <1>8, <3>1, <3>2, <3>3 DEF Blob!Targets
    <3>5. task'[d] = t
      BY <1>9, <2>2, <3>1, <3>4
    <3>6. Writing(t) => data'[t.out].mixed = data[t.out].mixed
      <4> SUFFICES ASSUME Writing(t) PROVE data'[t.out].mixed = data[t.out].mixed
        OBVIOUS
      <4>1. PICK j : j = t.out
        OBVIOUS
      <4>2. j \in Blob!Inodes /\ Blob!InUse(j)'
        BY <1>4, <3>1, <3>5, <4>1, TaskIs DEF Blob!InUse
      <4> QED BY <1>13, <4>1, <4>2
    <3>7. \A p \in Blob!Paths : SamePath(p) \/ Subject(p) \in {k}
      BY <1>6, <1>15
    <3> DEFINE T == {k}
    <3>8. T \cap Blob!Targets(t) = {} /\ \A p \in Blob!Paths : SamePath(p) \/ Subject(p) \in T
      BY <3>2, <3>3, <3>7
    <3> HIDE DEF T
    <3>9. HasCome(t)'
      BY <1>2, <1>4, <3>1, <3>3, <3>6, <3>8, OthersCome DEF Steady, BlobsInv
    <3> QED BY <3>5, <3>9
  <2> QED BY <2>1, <2>2
<1>24. KeysSettled'
  <2> SUFFICES ASSUME NEW x \in Keys, clean[x], \A d \in Clients : x \notin task'[d].touched
               PROVE  Blob!Agrees(row[x], x)'
    BY <1>2 DEF KeysSettled
  <2>1. x # k
    BY <1>9
  <2>2. SamePath(x)
    BY <1>4, <1>15, <2>1, Constants
  <2>3. Blob!Agrees(row[x], x)
    BY <1>10 DEF Steady, BlobsInv, KeysSettled
  <2> QED BY <1>2, <2>2, <2>3 DEF Blob!Agrees, SamePath
<1>25. PartsSettled'
  <2> SUFFICES ASSUME NEW u \in Uploads, NEW n \in PartNumbers, clean[u], upload[u].state # "gc",
                      \A d \in Clients : Beside(task'[d], u, n)
               PROVE  Blob!Agrees(part[u][n], <<u, n>>)'
    BY <1>2 DEF PartsSettled
  <2>1. \A d \in Clients : Beside(task[d], u, n)
    BY <1>8, <1>9 DEF Beside
  <2>2. SamePath(<<u, n>>)
    BY <1>4, <1>5, <1>15, Constants
  <2>3. Blob!Agrees(part[u][n], <<u, n>>)
    BY <2>1 DEF Steady, BlobsInv, PartsSettled
  <2> QED BY <1>2, <2>2, <2>3 DEF Blob!Agrees, SamePath
<1> QED BY <1>14, <1>16, <1>18, <1>19, <1>20, <1>21, <1>22, <1>23, <1>24, <1>25 DEF KeptInv
-----------------------------------------------------------------------------
(* What a commit does to the rows. *)
RowsOK ==
  /\ row = [k \in Keys |-> row[k]]
  /\ upload \in [Uploads -> [state : {None, "open"} \cup Blob!Ends, key : Keys \cup {None}]]
  /\ \A u \in Uploads : upload[u].state # None => upload[u].key \in Keys
  /\ part = [u \in Uploads |-> part[u]] /\ \A u \in Uploads : part[u] = [n \in PartNumbers |-> part[u][n]]

LEMMA RowIs ==
  ASSUME RowsOK, NEW t, TaskOK(t), t.at = "written", row' = Blob!NewRow(t)
  PROVE  /\ row' = [k \in Keys |-> row'[k]]
         /\ \A k \in Keys : k # t.key \/ t.op \notin {"put", "copy", "complete", "delete"} => row'[k] = row[k]
         /\ t.op \in {"put", "copy", "complete"} => row'[t.key] = t.bytes
         /\ t.op = "delete" => row'[t.key] = None
<1>1. t.op \in {"put", "copy", "complete", "delete"} => t.key \in Keys
  BY DEF TaskOK, Doing, Does, OfKey, OfBoth, Blob!Idle
<1>2. CASE t.op \in {"put", "copy", "complete"}
  <2>1. row' = [row EXCEPT ![t.key] = t.bytes]
    BY <1>2 DEF Blob!NewRow
  <2> QED BY <1>1, <1>2, <2>1 DEF RowsOK
<1>3. CASE t.op = "delete"
  <2>1. row' = [row EXCEPT ![t.key] = None]
    BY <1>3 DEF Blob!NewRow
  <2> QED BY <1>1, <1>3, <2>1 DEF RowsOK
<1>4. CASE t.op \notin {"put", "copy", "complete", "delete"}
  <2>1. row' = row
    BY <1>4 DEF Blob!NewRow
  <2> QED BY <1>4, <2>1 DEF RowsOK
<1> QED BY <1>2, <1>3, <1>4

LEMMA UploadIs ==
  ASSUME RowsOK, NEW t, TaskOK(t), t.at = "written", upload' = Blob!NewUpload(t)
  PROVE  /\ upload' \in [Uploads -> [state : {None, "open"} \cup Blob!Ends, key : Keys \cup {None}]]
         /\ \A u \in Uploads : u # t.up \/ t.op \notin Blob!Ends \cup {"create"} => upload'[u] = upload[u]
         /\ t.op = "create" => upload'[t.up].state = "open" /\ upload'[t.up].key \in Keys
         /\ t.op \in Blob!Ends => upload'[t.up].key = upload[t.up].key
              /\ upload'[t.up].state = IF upload[t.up].state = "open" THEN t.op ELSE upload[t.up].state
<1>1. t.op \in Blob!Ends \cup {"create"} => t.up \in Uploads
  BY DEF TaskOK, Doing, Does, OfUpload, OfBoth, Blob!Idle, Blob!Ends
<1>2. CASE t.op = "create"
  <2>1. t.key \in Keys
    BY <1>2 DEF TaskOK, Doing, Does, OfBoth, Blob!Idle
  <2>2. upload' = [upload EXCEPT ![t.up] = [state |-> "open", key |-> t.key]]
    BY <1>2 DEF Blob!NewUpload, Blob!Ends
  <2> QED BY <1>1, <1>2, <2>1, <2>2 DEF RowsOK, Blob!Ends
<1>3. CASE t.op \in Blob!Ends /\ upload[t.up].state = "open"
  <2>1. upload' = [upload EXCEPT ![t.up].state = t.op]
    BY <1>3 DEF Blob!NewUpload, Blob!Ends
  <2>2. upload[t.up] = [state |-> upload[t.up].state, key |-> upload[t.up].key] /\ upload[t.up].key \in Keys \cup {None}
    BY <1>1, <1>3 DEF RowsOK
  <2>3. upload'[t.up] = [state |-> t.op, key |-> upload[t.up].key]
    BY <1>1, <1>3, <2>1, <2>2 DEF RowsOK
  <2>4. \A u \in Uploads : u # t.up => upload'[u] = upload[u]
    BY <2>1 DEF RowsOK
  <2>5. upload' = [u \in Uploads |-> upload'[u]]
    BY <2>1 DEF RowsOK
  <2>6. ASSUME NEW u \in Uploads PROVE upload'[u] \in [state : {None, "open"} \cup Blob!Ends, key : Keys \cup {None}]
    BY <1>3, <2>2, <2>3, <2>4 DEF RowsOK
  <2> QED BY <1>1, <1>3, <2>3, <2>4, <2>5, <2>6 DEF Blob!Ends
<1>4. CASE t.op # "create" /\ ~(t.op \in Blob!Ends /\ upload[t.up].state = "open")
  <2>1. upload' = upload
    BY <1>4 DEF Blob!NewUpload
  <2> QED BY <1>4, <2>1 DEF RowsOK
<1> QED BY <1>2, <1>3, <1>4

LEMMA PartIs ==
  ASSUME RowsOK, NEW t, TaskOK(t), t.at = "written", part' = Blob!NewPart(t)
  PROVE  /\ part' = [u \in Uploads |-> part'[u]] /\ \A u \in Uploads : part'[u] = [n \in PartNumbers |-> part'[u][n]]
         /\ \A u \in Uploads : u # t.up \/ t.op \notin Blob!Ends \cup {"part"} => part'[u] = part[u]
         /\ t.op = "part" => /\ part'[t.up][t.number] = t.bytes
                             /\ \A n \in PartNumbers : n # t.number => part'[t.up][n] = part[t.up][n]
         /\ t.op \in Blob!Ends => part'[t.up] = Blob!NoParts
<1>1. t.op \in Blob!Ends \cup {"part"} => t.up \in Uploads
  BY DEF TaskOK, Doing, Does, OfUpload, OfBoth, Blob!Idle, Blob!Ends
<1>2. CASE t.op = "part"
  <2>1. t.number \in PartNumbers
    BY <1>2 DEF TaskOK, Doing, Does, Blob!Idle
  <2>2. part' = [part EXCEPT ![t.up][t.number] = t.bytes]
    BY <1>2 DEF Blob!NewPart, Blob!Ends
  <2>3. part'[t.up] = [part[t.up] EXCEPT ![t.number] = t.bytes] /\ \A u \in Uploads : u # t.up => part'[u] = part[u]
    BY <1>1, <1>2, <2>2 DEF RowsOK
  <2>4. part[t.up] = [n \in PartNumbers |-> part[t.up][n]]
    BY <1>1, <1>2 DEF RowsOK
  <2>5. part' = [u \in Uploads |-> part'[u]]
    BY <2>2 DEF RowsOK
  <2> QED BY <1>1, <1>2, <2>1, <2>3, <2>4, <2>5 DEF RowsOK, Blob!Ends
<1>3. CASE t.op \in Blob!Ends
  <2>1. part' = [part EXCEPT ![t.up] = Blob!NoParts]
    BY <1>3 DEF Blob!NewPart, Blob!Ends
  <2> QED BY <1>1, <1>3, <2>1 DEF RowsOK, Blob!Ends, Blob!NoParts
<1>4. CASE t.op \notin Blob!Ends \cup {"part"}
  <2>1. part' = part
    BY <1>4 DEF Blob!NewPart
  <2> QED BY <1>4, <2>1 DEF RowsOK
<1> QED BY <1>2, <1>3, <1>4

LEMMA Commits ==
  ASSUME Steady, NEW c \in Clients, Blob!Commit(c)
  PROVE  KeptInv'
<1>1. PICK t : t = task[c]
  OBVIOUS
<1>2. /\ t.at = "written" /\ row' = Blob!NewRow(t) /\ upload' = Blob!NewUpload(t) /\ part' = Blob!NewPart(t)
      /\ task' = [task EXCEPT ![c] = Blob!Idle] /\ store' = store /\ file' = file /\ data' = data
      /\ clean' = [x \in DOMAIN clean |-> IF x \in Blob!Targets(t) /\ t.op \notin {"create", "gc"} THEN Blob!Sound(t, x) ELSE clean[x]]
  BY <1>1 DEF Blob!Commit, Blob!files
<1>3. Blob!BlobsAssumption /\ BlobsTypeOK /\ RowsOK /\ TaskOK(t) /\ None \notin Keys /\ None \notin Uploads
  BY <1>1, TaskIs, Constants DEF Steady, BlobsInv, BlobsTypeOK, RowsOK
<1>4. /\ task'[c] = Blob!Idle /\ (\A d \in Clients : d # c => task'[d] = task[d])
      /\ Blob!Targets(Blob!Idle) = {} /\ Blob!Idle.at = "idle" /\ ~Writing(Blob!Idle) /\ Blob!Idle.touched = {} /\ Blob!Idle.up = None
      /\ t.touched \subseteq Blob!Targets(t) /\ TaskOK(Blob!Idle)
  BY <1>1, <1>2, <1>3, TaskIs DEF Blob!Idle, Writing, BlobsTypeOK
<1>5. /\ row' = [k \in Keys |-> row'[k]]
      /\ \A k \in Keys : k # t.key \/ t.op \notin {"put", "copy", "complete", "delete"} => row'[k] = row[k]
      /\ t.op \in {"put", "copy", "complete"} => row'[t.key] = t.bytes
      /\ t.op = "delete" => row'[t.key] = None
  BY <1>2, <1>3, RowIs
<1>6. /\ upload' \in [Uploads -> [state : {None, "open"} \cup Blob!Ends, key : Keys \cup {None}]]
      /\ \A u \in Uploads : u # t.up \/ t.op \notin Blob!Ends \cup {"create"} => upload'[u] = upload[u]
      /\ t.op = "create" => upload'[t.up].state = "open" /\ upload'[t.up].key \in Keys
      /\ t.op \in Blob!Ends => upload'[t.up].key = upload[t.up].key
           /\ upload'[t.up].state = IF upload[t.up].state = "open" THEN t.op ELSE upload[t.up].state
  BY <1>2, <1>3, UploadIs
<1>7. /\ part' = [u \in Uploads |-> part'[u]] /\ \A u \in Uploads : part'[u] = [n \in PartNumbers |-> part'[u][n]]
      /\ \A u \in Uploads : u # t.up \/ t.op \notin Blob!Ends \cup {"part"} => part'[u] = part[u]
      /\ t.op = "part" => /\ part'[t.up][t.number] = t.bytes
                          /\ \A n \in PartNumbers : n # t.number => part'[t.up][n] = part[t.up][n]
      /\ t.op \in Blob!Ends => part'[t.up] = Blob!NoParts
  BY <1>2, <1>3, PartIs
<1>8. /\ clean' \in [Subjects -> BOOLEAN]
      /\ \A x \in Subjects : IF x \in Blob!Targets(t) /\ t.op \notin {"create", "gc"} THEN clean'[x] = Blob!Sound(t, x) ELSE clean'[x] = clean[x]
  <2>1. \A x \in Subjects : Blob!Sound(t, x) \in BOOLEAN
    BY DEF Blob!Sound
  <2>2. clean \in [Subjects -> BOOLEAN]
    BY <1>3 DEF BlobsTypeOK
  <2> QED BY <1>2, <2>1, <2>2
<1>9. \A p \in Blob!Paths : SamePath(p)
  BY <1>2 DEF SamePath
<1>10. BlobsTypeOK'
  <2>1. task' = [d \in Clients |-> task'[d]] /\ \A d \in Clients : TaskOK(task'[d])
    BY <1>2, <1>3, <1>4, TaskIs DEF BlobsTypeOK
  <2>2. ASSUME NEW u \in Uploads, upload'[u].state # None PROVE upload'[u].key \in Keys
    <3>1. upload[u].state # None => upload[u].key \in Keys
      BY <1>3 DEF RowsOK
    <3> QED BY <1>3, <1>6, <2>2, <3>1, Constants
  <2> QED BY <1>2, <1>3, <1>5, <1>6, <1>7, <1>8, <2>1, <2>2 DEF BlobsTypeOK
<1>11. OnePath' /\ OwnedInodes' /\ Shared' /\ Apart'
  BY <1>2, <1>3, <1>4, InodesStay DEF Steady, BlobsInv
<1>12. AloneOnKey'
  BY <1>4, AloneStays DEF Steady, BlobsInv
<1>13. Locks'
  BY <1>4 DEF Steady, BlobsInv, Locks
<1>14. PartsOpen'
  <2> SUFFICES ASSUME NEW d \in Clients, Blob!At(d, "part", "written")' PROVE upload'[task'[d].up].state = "open"
    BY DEF PartsOpen
  <2>1. d # c /\ task'[d] = task[d] /\ Blob!At(d, "part", "written")
    BY <1>4 DEF Blob!At
  <2>2. upload[task[d].up].state = "open" /\ task[d].up \in Uploads
    BY <1>3, <2>1, TaskIs DEF Steady, BlobsInv, PartsOpen, TaskOK, Doing, Does, OfUpload, Blob!At, Blob!Idle
  <2>3. CASE t.op \notin Blob!Ends \/ task[d].up # t.up
    BY <1>6, <2>1, <2>2, <2>3
  <2>4. CASE t.op \in Blob!Ends /\ task[d].up = t.up
    <3>1. task[d].up \in Blob!Targets(t) /\ task[d].up \in Blob!Targets(task[d])
      BY <1>3, <2>2, <2>4 DEF Blob!Targets
    <3>2. Blob!SameRow(t, task[d])
      BY <2>4, <3>1 DEF Blob!SameRow, Blob!Ends
    <3> QED BY <1>1, <1>2, <2>1, <3>2 DEF Steady, BlobsInv, Locks, Blob!At
  <2> QED BY <2>3, <2>4
<1>15. PartsGone'
  <2> SUFFICES ASSUME NEW u \in Uploads, upload'[u].state # "open" PROVE part'[u] = Blob!NoParts
    BY DEF PartsGone, Blob!NoParts
  <2>1. CASE t.op \in Blob!Ends /\ t.up = u
    BY <1>7, <2>1
  <2>2. CASE ~(t.op \in Blob!Ends /\ t.up = u)
    <3>1. upload'[u] = upload[u]
      BY <1>6, <2>2
    <3>2. part[u] = Blob!NoParts
      BY <3>1 DEF Steady, BlobsInv, PartsGone
    <3>3. t.op = "part" => t.up # u
      BY <1>1, <1>2, <3>1 DEF Steady, BlobsInv, PartsOpen, Blob!At
    <3> QED BY <1>7, <2>2, <3>2, <3>3
  <2> QED BY <2>1, <2>2
<1>16. Unmade'
  <2> SUFFICES ASSUME NEW u \in Uploads, upload'[u].state = None
               PROVE  /\ \A n \in PartNumbers : file[<<u, n>>] = Blob!NoInode
                      /\ \A d \in Clients : task'[d].up = u => task'[d].op = "create"
    BY <1>2 DEF Unmade
  <2>1. upload[u].state = None
    <3>1. None \notin Blob!Ends /\ None # "open"
      BY <1>3, Constants DEF Blob!Ends, Blob!Kinds
    <3>2. t.op = "create" => t.up # u
      BY <1>6, <3>1
    <3> QED BY <1>6, <3>1, <3>2
  <2>2. /\ \A n \in PartNumbers : file[<<u, n>>] = Blob!NoInode
        /\ \A d \in Clients : task[d].up = u => task[d].op = "create"
    BY <2>1 DEF Steady, BlobsInv, Unmade
  <2> QED BY <1>3, <1>4, <2>2
<1>17. Creating'
  <2> SUFFICES ASSUME NEW d \in Clients, task'[d].op = "create", task'[d].up \in Uploads
               PROVE  /\ upload'[task'[d].up].state = None
                      /\ \A e \in Clients : task'[e].up = task'[d].up => e = d
    BY DEF Creating
  <2>1. d # c /\ task'[d] = task[d]
    BY <1>3, <1>4
  <2>2. /\ upload[task[d].up].state = None /\ \A e \in Clients : task[e].up = task[d].up => e = d
    BY <2>1 DEF Steady, BlobsInv, Creating
  <2>3. task[d].up # t.up
    BY <1>1, <2>1, <2>2
  <2>4. upload'[task[d].up] = upload[task[d].up]
    BY <1>6, <2>1, <2>3
  <2> QED BY <1>3, <1>4, <2>1, <2>2, <2>4
<1>18. AloneCome'
  <2> SUFFICES ASSUME NEW d \in Clients, task'[d].alone, d # c PROVE HasCome(task[d])'
    <3>1. HasCome(Blob!Idle)'
      BY DEF HasCome, Blob!Idle
    <3> QED BY <1>4, <3>1 DEF AloneCome
  <2>1. PICK s : s = task[d]
    OBVIOUS
  <2>2. task'[d] = s /\ s.alone /\ Blob!Targets(t) \cap Blob!Targets(s) = {}
    BY <1>1, <1>4, <2>1 DEF Steady, BlobsInv, AloneOnKey
  <2>3. \A u \in Uploads \ Blob!Targets(t) : u # t.up
    BY <1>3 DEF Blob!Targets
  <2>4. \A u \in Uploads \ Blob!Targets(t) : upload'[u] = upload[u] /\ part'[u] = part[u] /\ (clean'[u] => clean[u])
    BY <1>6, <1>7, <1>8, <2>3 DEF Subjects
  <2> DEFINE T == Blob!Targets(t)
  <2>5. /\ T \cap Blob!Targets(s) = {} /\ \A p \in Blob!Paths : SamePath(p) \/ Subject(p) \in T
        /\ \A u \in Uploads \ T : upload'[u] = upload[u] /\ part'[u] = part[u] /\ (clean'[u] => clean[u])
    BY <1>9, <2>2, <2>4
  <2> HIDE DEF T
  <2>6. Writing(s) => data'[s.out].mixed = data[s.out].mixed
    BY <1>2
  <2>7. HasCome(s)'
    BY <1>3, <2>1, <2>2, <2>5, <2>6, OthersCome DEF Steady, BlobsInv
  <2> QED BY <2>2, <2>7
<1>19. t.alone => HasCome(t)
  BY <1>1 DEF Steady, BlobsInv, AloneCome
<1>20. KeysSettled'
  <2> SUFFICES ASSUME NEW k \in Keys, clean'[k], \A d \in Clients : k \notin task'[d].touched
               PROVE  Blob!Agrees(row'[k], k)
    BY <1>2 DEF KeysSettled, Blob!Agrees
  <2>1. CASE k \notin Blob!Targets(t) \/ t.op \in {"create", "gc"}
    <3>1. clean[k] /\ k # None
      BY <1>3, <1>8, <2>1 DEF Subjects
    <3>2. k \notin t.touched
      BY <1>3, <1>4, <2>1 DEF TaskOK, Touches
    <3>3. \A d \in Clients : k \notin task[d].touched
      BY <1>1, <1>4, <3>2
    <3>4. Blob!Agrees(row[k], k)
      BY <3>1, <3>3 DEF Steady, BlobsInv, KeysSettled
    <3>5. row'[k] = row[k]
      BY <1>5, <2>1, <3>1 DEF Blob!Targets
    <3> QED BY <3>4, <3>5
  <2>2. CASE k \in Blob!Targets(t) /\ t.op \notin {"create", "gc"}
    <3>1. Blob!Sound(t, k)
      BY <1>8, <2>2 DEF Subjects
    <3>2. t.key = k /\ t.op \in {"put", "copy", "delete", "complete"}
      <4>1. k \notin Uploads /\ k # None
        BY <1>3, Constants
      <4> QED BY <1>2, <1>3, <2>2, <4>1 DEF Blob!Targets, TaskOK, Doing, Does, OfKey, OfUpload, OfBoth, Blob!Idle
    <3>3. HasCome(t) /\ (t.op = "complete" => clean[t.up])
      BY <1>19, <3>1 DEF Blob!Sound
    <3>4. CASE t.op = "delete"
      BY <1>2, <1>5, <3>2, <3>3, <3>4 DEF HasCome, Blob!Agrees
    <3>5. CASE t.op # "delete"
      <4>1. Holds(k, t.bytes) /\ row'[k] = t.bytes
        BY <1>2, <1>5, <3>2, <3>3, <3>5 DEF HasCome, PathOf
      <4> QED BY <4>1 DEF Holds, Blob!Agrees
    <3> QED BY <3>4, <3>5
  <2> QED BY <2>1, <2>2
<1>21. PartsSettled'
  <2> SUFFICES ASSUME NEW u \in Uploads, NEW n \in PartNumbers, clean'[u], upload'[u].state # "gc",
                      \A d \in Clients : Beside(task'[d], u, n)
               PROVE  Blob!Agrees(part'[u][n], <<u, n>>)
    BY <1>2 DEF PartsSettled, Blob!Agrees
  <2>1. ASSUME clean[u], upload[u].state # "gc", Beside(t, u, n) PROVE Blob!Agrees(part[u][n], <<u, n>>)
    <3>1. \A d \in Clients : Beside(task[d], u, n)
      BY <1>1, <1>4, <2>1
    <3> QED BY <2>1, <3>1 DEF Steady, BlobsInv, PartsSettled
  <2>2. CASE u \notin Blob!Targets(t)
    <3>1. u # t.up
      BY <1>3, <2>2 DEF Blob!Targets
    <3>2. clean[u] /\ upload[u].state # "gc" /\ Beside(t, u, n)
      BY <1>4, <1>6, <1>8, <2>2, <3>1 DEF Subjects, Beside
    <3> QED BY <1>7, <2>1, <3>1, <3>2
  <2>3. CASE u \in Blob!Targets(t)
    <3>1. t.up = u /\ t.op \in {"create", "part", "complete", "abort", "gc"}
      <4>1. u \notin Keys /\ u # None
        BY <1>3, Constants
      <4> QED BY <1>2, <1>3, <2>3, <4>1 DEF Blob!Targets, TaskOK, Doing, Does, OfKey, OfUpload, OfBoth, Blob!Idle
    <3>2. CASE t.op = "create"
      <4>1. clean[u] /\ Beside(t, u, n) /\ upload[u].state = None
        BY <1>1, <1>3, <1>8, <3>1, <3>2 DEF Subjects, Beside, TaskOK, Touches, Steady, BlobsInv, Creating
      <4>2. file[<<u, n>>] = Blob!NoInode
        BY <4>1 DEF Steady, BlobsInv, Unmade
      <4>3. part'[u] = Blob!NoParts
        BY <1>3, <1>7, <3>2, <4>1, Constants DEF Steady, BlobsInv, PartsGone, Blob!Ends
      <4> QED BY <4>2, <4>3 DEF Blob!Agrees, Blob!NoParts
    <3>3. CASE t.op = "gc"
      <4>1. clean[u] /\ Beside(t, u, n)
        BY <1>3, <1>8, <3>1, <3>3 DEF Subjects, Beside, TaskOK, Touches
      <4>2. upload[u].state # "open" /\ upload[u].state # "gc"
        BY <1>6, <3>1, <3>3 DEF Blob!Ends
      <4>3. part[u] = Blob!NoParts /\ part'[u] = Blob!NoParts
        BY <1>7, <3>1, <3>3, <4>2 DEF Steady, BlobsInv, PartsGone, Blob!Ends
      <4> QED BY <2>1, <4>1, <4>2, <4>3
    <3>4. CASE t.op = "part"
      <4>1. t.alone /\ clean[u] /\ HasCome(t) /\ upload'[u] = upload[u]
        BY <1>6, <1>8, <1>19, <2>3, <3>1, <3>4 DEF Subjects, Blob!Sound, Blob!Ends
      <4>2. CASE n = t.number
        <5>1. Holds(<<u, n>>, t.bytes) /\ part'[u][n] = t.bytes
          BY <1>2, <1>7, <3>1, <3>4, <4>1, <4>2 DEF HasCome, PathOf
        <5> QED BY <5>1 DEF Holds, Blob!Agrees
      <4>3. CASE n # t.number
        <5>1. Blob!Agrees(part[u][n], <<u, n>>)
          BY <2>1, <3>4, <4>1, <4>3 DEF Beside
        <5> QED BY <1>7, <3>1, <3>4, <4>3, <5>1
      <4> QED BY <4>2, <4>3
    <3>5. CASE t.op \in {"complete", "abort"}
      <4>1. HasCome(t) /\ t.parts = {}
        BY <1>8, <1>19, <2>3, <3>1, <3>5 DEF Subjects, Blob!Sound
      <4>2. file[<<u, n>>] = Blob!NoInode
        BY <1>2, <3>1, <3>5, <4>1 DEF HasCome, Cleared
      <4>3. part'[u][n] = None
        BY <1>7, <3>1, <3>5 DEF Blob!Ends, Blob!NoParts
      <4> QED BY <4>2, <4>3 DEF Blob!Agrees
    <3> QED BY <3>1, <3>2, <3>3, <3>4, <3>5
  <2> QED BY <2>2, <2>3
<1> QED BY <1>10, <1>11, <1>12, <1>13, <1>14, <1>15, <1>16, <1>17, <1>18, <1>20, <1>21 DEF KeptInv
-----------------------------------------------------------------------------
(* Where objects are only put and deleted: every put has a file of its     *)
(* own, of which no path leads to a half.                                  *)
LEMMA NoOther ==
  ASSUME Whole, OnlyPuts, NEW c \in Clients, task[c].at # "idle"
  PROVE  task[c].op \in {"put", "delete"}
BY DEF Whole, Puts

LEMMA WholeStays ==
  ASSUME Steady, store' = store,
         OnlyPuts => \A d \in Clients : Puts(task[d]) => Puts(task'[d]),
         \A d \in Clients : Writing(task'[d]) =>
           Writing(task[d]) /\ task'[d].at = task[d].at /\ task'[d].out = task[d].out
           /\ data'[task[d].out].mixed = data[task[d].out].mixed,
         \A k \in Keys : SamePath(k) \/ file'[k] = Blob!NoInode
  PROVE  Whole'
<1> SUFFICES ASSUME OnlyPuts PROVE Whole'
  BY DEF Whole, OnlyPuts
<1>1. /\ \A c \in Clients : Puts(task[c])
      /\ \A c \in Clients : Writing(task[c]) =>
           ~data[task[c].out].mixed /\ task[c].at = "streaming" /\ \A d \in Clients : c # d /\ Writing(task[d]) => task[d].out # task[c].out
      /\ \A k \in Keys : file[k] # Blob!NoInode => data[file[k]].bytes # Torn
  BY DEF Steady, BlobsInv, Whole
<1>2. \A c \in Clients : Puts(task'[c])
  BY <1>1
<1>3. ASSUME NEW c \in Clients, Writing(task'[c])
      PROVE  ~data'[task'[c].out].mixed /\ task'[c].at = "streaming" /\ \A d \in Clients : c # d /\ Writing(task'[d]) => task'[d].out # task'[c].out
  BY <1>1, <1>3
<1>4. \A k \in Keys : file'[k] # Blob!NoInode => data'[file'[k]].bytes # Torn
  BY <1>1 DEF SamePath
<1> QED BY <1>2, <1>3, <1>4 DEF Whole

LEMMA WholeStarts ==
  ASSUME Steady, NEW c \in Clients, NEW new, Blob!Start(c, new), Shaped(new), new.op # "put", ~Writing(new),
         UNCHANGED <<store, file, data>>
  PROVE  Whole'
<1> SUFFICES ASSUME OnlyPuts PROVE Whole'
  BY DEF Whole, OnlyPuts
<1>1. Blob!BlobsAssumption /\ BlobsTypeOK
  BY DEF Steady, BlobsInv
<1>2. new.op = "delete"
  BY DEF Blob!Start, OnlyPuts
<1>3. PICK b : task'[c] = [new EXCEPT !.alone = b]
  BY DEF Blob!Start
<1>4. task'[c].op = "delete" /\ task'[c].at = new.at
  BY <1>2, <1>3, Relabel
<1>5. ASSUME NEW d \in Clients, d # c
      PROVE  task'[d].op = task[d].op /\ task'[d].at = task[d].at /\ task'[d].bytes = task[d].bytes /\ task'[d].out = task[d].out
  <2>1. PICK a : task'[d] = [task[d] EXCEPT !.alone = a]
    BY <1>5 DEF Blob!Start
  <2>2. Shaped(task[d])
    BY <1>1, TaskIs DEF TaskOK
  <2> QED BY <2>1, <2>2, Relabel
<1>6. \A d \in Clients : Puts(task[d]) => Puts(task'[d])
  BY <1>4, <1>5 DEF Puts
<1>7. \A d \in Clients : Writing(task'[d]) =>
        Writing(task[d]) /\ task'[d].at = task[d].at /\ task'[d].out = task[d].out
        /\ data'[task[d].out].mixed = data[task[d].out].mixed
  BY <1>4, <1>5 DEF Writing
<1> QED BY <1>6, <1>7, WholeStays DEF SamePath

LEMMA WholePutOpen ==
  ASSUME Steady, NEW c \in Clients, NEW k \in Keys, NEW body \in Bodies, Blob!PutOpen(c, k, body)
  PROVE  Whole'
<1> SUFFICES ASSUME OnlyPuts PROVE Whole'
  BY DEF Whole, OnlyPuts, Blob!PutOpen
<1>1. Blob!BlobsAssumption /\ BlobsTypeOK /\ FilesOK
  BY DEF Steady, BlobsInv, BlobsTypeOK, FilesOK
<1>2. PICK i : i = Blob!Fresh
  OBVIOUS
<1>3. PICK new : new = [Blob!Idle EXCEPT !.op = "put", !.at = "streaming", !.key = k, !.bytes = <<body>>, !.out = i]
  OBVIOUS
<1>4. Blob!Start(c, new) /\ data' = Blob!Opened(i) /\ file' = file /\ task[c] = Blob!Idle
  <2>1. PICK j \in {Blob!Fresh} \cup (IF store.sameMs THEN Blob!Streaming(k) ELSE {}) :
          /\ Blob!Start(c, [Blob!Idle EXCEPT !.op = "put", !.at = "streaming", !.key = k, !.bytes = <<body>>, !.out = j])
          /\ data' = Blob!Opened(j) /\ file' = file
    BY DEF Blob!PutOpen
  <2>2. j = i
    BY <1>2 DEF OnlyPuts
  <2>3. Blob!Start(c, new)
    BY <1>3, <2>1, <2>2
  <2> QED BY <2>1, <2>2, <2>3 DEF Blob!Start
<1>5. i \in Blob!Inodes /\ ~Blob!InUse(i)
  BY <1>1, <1>2, <1>4, FreshIs DEF Blob!Idle
<1>6. Shaped(new) /\ new.op = "put" /\ new.at = "streaming" /\ new.bytes = <<body>> /\ new.out = i
  BY <1>3 DEF Shaped, Blob!Idle
<1>7. PICK b : task'[c] = [new EXCEPT !.alone = b]
  BY <1>4 DEF Blob!Start
<1>8. task'[c].op = "put" /\ task'[c].at = "streaming" /\ task'[c].bytes = <<body>> /\ task'[c].out = i
  BY <1>6, <1>7, Relabel
<1>9. ASSUME NEW d \in Clients, d # c
      PROVE  task'[d].op = task[d].op /\ task'[d].at = task[d].at /\ task'[d].bytes = task[d].bytes /\ task'[d].out = task[d].out
  <2>1. PICK a : task'[d] = [task[d] EXCEPT !.alone = a]
    BY <1>4, <1>9 DEF Blob!Start
  <2>2. Shaped(task[d])
    BY <1>1, TaskIs DEF TaskOK
  <2> QED BY <2>1, <2>2, Relabel
<1>10. (\A j \in Blob!Inodes : j # i => data'[j] = data[j]) /\ data'[i].mixed = (Blob!Writers(i) # {})
  <2>1. file' \in [Blob!Paths -> Handles]
    BY <1>1, <1>4 DEF BlobsTypeOK
  <2> QED BY <1>1, <1>4, <1>5, <2>1, OpenedIs
<1>11. Blob!Writers(i) = {} /\ (\A d \in Clients : task[d].out # i) /\ \A p \in Blob!Paths : file[p] # i
  BY <1>5 DEF Blob!InUse, Blob!Writers
<1>12. /\ \A d \in Clients : Puts(task[d])
       /\ \A d \in Clients : Writing(task[d]) =>
            ~data[task[d].out].mixed /\ task[d].at = "streaming" /\ \A e \in Clients : d # e /\ Writing(task[e]) => task[e].out # task[d].out
       /\ \A x \in Keys : file[x] # Blob!NoInode => data[file[x]].bytes # Torn
  BY DEF Steady, BlobsInv, Whole
<1>13. \A d \in Clients : Puts(task'[d])
  <2>1. <<body>> # Torn
    BY <1>1 DEF Blob!BlobsAssumption
  <2>2. Puts(task'[c])
    BY <1>8, <2>1 DEF Puts
  <2>3. \A d \in Clients : d # c => Puts(task'[d])
    BY <1>9, <1>12 DEF Puts
  <2> QED BY <2>2, <2>3
<1>14. ASSUME NEW d \in Clients, Writing(task'[d])
       PROVE  ~data'[task'[d].out].mixed /\ task'[d].at = "streaming" /\ \A e \in Clients : d # e /\ Writing(task'[e]) => task'[e].out # task'[d].out
  <2>1. CASE d = c
    BY <1>8, <1>9, <1>10, <1>11, <2>1
  <2>2. CASE d # c
    <3>1. Writing(task[d]) /\ task[d].out \in Blob!Inodes /\ task'[d].out = task[d].out /\ task'[d].at = task[d].at
      BY <1>1, <1>9, <1>14, <2>2, TaskIs DEF Writing
    <3>2. data'[task[d].out] = data[task[d].out]
      BY <1>10, <1>11, <3>1
    <3>3. \A e \in Clients : d # e /\ Writing(task'[e]) => task'[e].out # task'[d].out
      BY <1>8, <1>9, <1>11, <1>12, <3>1 DEF Writing
    <3> QED BY <1>12, <3>1, <3>2, <3>3
  <2> QED BY <2>1, <2>2
<1>15. \A x \in Keys : file'[x] # Blob!NoInode => data'[file'[x]].bytes # Torn
  BY <1>1, <1>4, <1>10, <1>11, <1>12, Constants DEF FilesOK, Handles
<1> QED BY <1>13, <1>14, <1>15 DEF Whole

LEMMA WholeRename ==
  ASSUME Steady, NEW c \in Clients, Blob!PutRename(c)
  PROVE  Whole'
<1> SUFFICES ASSUME OnlyPuts PROVE Whole'
  BY DEF Whole, OnlyPuts, Blob!PutRename
<1>1. Blob!BlobsAssumption /\ BlobsTypeOK /\ FilesOK /\ Blob!NoInode \notin Blob!Inodes
  BY Sizes DEF Steady, BlobsInv, BlobsTypeOK, FilesOK
<1>2. PICK i, k, b : i = task[c].out /\ k = task[c].key /\ b = task[c].bytes
  OBVIOUS
<1>3. PICK bytes \in Blob!Written(i, b) : Blob!Stored(Blob!Holding(i, bytes))
  BY <1>2 DEF Blob!PutRename
<1>4. /\ Blob!At(c, "put", "streaming") /\ TaskOK(task[c]) /\ Writing(task[c]) /\ i \in Blob!Inodes /\ k \in Keys /\ k \in Blob!Paths
  <2>1. Blob!At(c, "put", "streaming") /\ TaskOK(task[c]) /\ Writing(task[c]) /\ i \in Blob!Inodes
    BY <1>1, <1>2, TaskIs DEF Blob!PutRename, Blob!At, Writing
  <2>2. Doing(task[c]) /\ task[c].op = "put" /\ task[c].at = "streaming"
    BY <2>1 DEF Blob!At, TaskOK
  <2>3. k \in Keys
    BY <1>2, <2>2 DEF Doing, Does, OfKey, Blob!Idle
  <2> QED BY <1>1, <2>1, <2>3, Constants
<1>5. /\ \A d \in Clients : Puts(task[d])
      /\ \A d \in Clients : Writing(task[d]) =>
           ~data[task[d].out].mixed /\ task[d].at = "streaming" /\ \A e \in Clients : d # e /\ Writing(task[e]) => task[e].out # task[d].out
      /\ \A x \in Keys : file[x] # Blob!NoInode => data[file[x]].bytes # Torn
  BY DEF Steady, BlobsInv, Whole
<1>6. ~data[i].mixed /\ bytes = b /\ b # Torn
  <2>1. ~data[i].mixed /\ b # Torn
    BY <1>2, <1>4, <1>5 DEF Puts, Blob!At
  <2> QED BY <1>3, <2>1 DEF Blob!Written
<1>7. \A d \in Clients : d # c => task[d].out # i
  BY <1>1, <1>2, <1>4, <1>5, TaskIs DEF TaskOK
<1>8. task'[c] = [task[c] EXCEPT !.at = "stored", !.out = Blob!NoInode, !.touched = {k}] /\ \A d \in Clients : d # c => task'[d] = task[d]
  BY <1>2, <1>7 DEF Blob!PutRename, Blob!Writers
<1>15. \A d \in Clients : d # c => task'[d] = task[d]
  BY <1>8
<1>9. task'[c].op = "put" /\ task'[c].at = "stored" /\ task'[c].bytes = b
  BY <1>2, <1>4, <1>8 DEF TaskOK, Shaped, Blob!At
<1>10. file' \in [Blob!Paths -> Handles] /\ file'[k] = i /\ \A p \in Blob!Paths : p # k => file'[p] = file[p]
  BY <1>1, <1>2, <1>4 DEF Blob!PutRename, BlobsTypeOK, Handles
<1>11. /\ \A j \in Blob!Inodes : Blob!InUse(j)' => data'[j].mixed = data[j].mixed /\ (j # i => data'[j] = data[j])
       /\ Blob!InUse(i)' => data'[i].bytes = bytes
  BY <1>1, <1>3, <1>4, <1>10, HasEnded
<1>12. \A d \in Clients : Puts(task'[d])
  BY <1>5, <1>6, <1>9, <1>15 DEF Puts
<1>13. ASSUME NEW d \in Clients, Writing(task'[d])
       PROVE  ~data'[task'[d].out].mixed /\ task'[d].at = "streaming" /\ \A e \in Clients : d # e /\ Writing(task'[e]) => task'[e].out # task'[d].out
  <2>1. d # c /\ task'[d] = task[d]
    BY <1>8, <1>9, <1>13 DEF Writing
  <2>2. PICK j : j = task[d].out
    OBVIOUS
  <2>3. j \in Blob!Inodes /\ Blob!InUse(j)'
    BY <1>1, <1>13, <2>1, <2>2, TaskIs DEF Blob!InUse
  <2>4. \A e \in Clients : d # e /\ Writing(task'[e]) => task'[e].out # j
    BY <1>5, <1>9, <1>13, <1>15, <2>1, <2>2 DEF Writing
  <2> QED BY <1>5, <1>11, <1>13, <2>1, <2>2, <2>3, <2>4
<1>14. ASSUME NEW x \in Keys, file'[x] # Blob!NoInode PROVE data'[file'[x]].bytes # Torn
  <2>1. CASE x = k
    <3>1. Blob!InUse(i)'
      BY <1>4, <1>10 DEF Blob!InUse
    <3> QED BY <1>6, <1>10, <1>11, <2>1, <3>1
  <2>2. CASE x # k
    <3>1. PICK j : j = file'[x]
      OBVIOUS
    <3>2. x \in Blob!Paths /\ file[x] = j
      BY <1>1, <1>10, <2>2, <3>1, Constants
    <3>3. j \in Blob!Inodes /\ Blob!InUse(j)' /\ j # i
      BY <1>2, <1>4, <1>10, <1>14, <3>1, <3>2 DEF Blob!InUse, Handles, Steady, BlobsInv, Apart
    <3> QED BY <1>5, <1>11, <1>14, <3>1, <3>2, <3>3
  <2> QED BY <2>1, <2>2
<1> QED BY <1>12, <1>13, <1>14 DEF Whole

LEMMA WholeFails ==
  ASSUME Steady, NEW c \in Clients, Blob!Fails(c), store' = store, file' = file, data' = data \/ Blob!Stored(data)
  PROVE  Whole'
<1>1. Blob!BlobsAssumption /\ BlobsTypeOK /\ FilesOK
  BY DEF Steady, BlobsInv, BlobsTypeOK, FilesOK
<1>2. task'[c] = Blob!Idle /\ (\A d \in Clients : d # c => task'[d] = task[d]) /\ Puts(Blob!Idle) /\ ~Writing(Blob!Idle)
  BY <1>1 DEF BlobsTypeOK, Blob!Fails, Puts, Writing, Blob!Idle
<1>3. \A i \in Blob!Inodes : Blob!InUse(i)' => data'[i] = data[i]
  BY <1>1, Tidied DEF BlobsTypeOK
<1>4. \A p \in Blob!Paths : SamePath(p)
  BY <1>1, <1>3, PathsKept
<1>5. \A d \in Clients \ {c} : Writing(task[d]) => data'[task[d].out].mixed = data[task[d].out].mixed
  BY <1>1, <1>3, OthersWrite
<1>6. \A d \in Clients : Puts(task[d]) => Puts(task'[d])
  BY <1>2
<1>7. \A d \in Clients : Writing(task'[d]) =>
        Writing(task[d]) /\ task'[d].at = task[d].at /\ task'[d].out = task[d].out
        /\ data'[task[d].out].mixed = data[task[d].out].mixed
  BY <1>2, <1>5
<1> QED BY <1>1, <1>4, <1>6, <1>7, WholeStays, Constants

LEMMA WholeObject ==
  ASSUME Steady, NEW c \in Clients, Blob!Object(c)
  PROVE  Whole'
<1>1. Blob!BlobsAssumption /\ BlobsTypeOK /\ FilesOK /\ Whole
  BY DEF Steady, BlobsInv, BlobsTypeOK, FilesOK
<1>2. ASSUME NEW k \in Keys, Blob!DeleteLookup(c, k) PROVE Whole'
  <2>1. PICK new : new = [Blob!Idle EXCEPT !.op = "delete", !.at = "found", !.key = k]
    OBVIOUS
  <2>2. Shaped(new) /\ new.op = "delete" /\ ~Writing(new)
    BY <2>1 DEF Shaped, Blob!Idle, Writing
  <2>3. Blob!Start(c, new) /\ UNCHANGED <<store, file, data>>
    BY <1>2, <2>1 DEF Blob!DeleteLookup, Blob!files
  <2> QED BY <2>2, <2>3, WholeStarts
<1>3. ASSUME NEW k \in Keys, NEW from \in Keys, Blob!CopyLookup(c, from, k) PROVE Whole'
  <2>1. PICK new : new = [Blob!Idle EXCEPT !.op = "copy", !.at = "found", !.key = k, !.from = from]
    OBVIOUS
  <2>2. Shaped(new) /\ new.op = "copy" /\ ~Writing(new)
    BY <2>1 DEF Shaped, Blob!Idle, Writing
  <2>3. Blob!Start(c, new) /\ UNCHANGED <<store, file, data>>
    BY <1>3, <2>1 DEF Blob!CopyLookup, Blob!files
  <2> QED BY <2>2, <2>3, WholeStarts
<1>4. CASE Blob!PutRobbed(c)
  <2>1. Writing(task[c]) /\ task[c].at # "streaming"
    BY <1>4 DEF Blob!PutRobbed, Blob!At, Writing
  <2> QED BY <1>1, <1>4, <2>1 DEF Whole, OnlyPuts, Blob!PutRobbed
<1>5. CASE Blob!CopyOpen(c) \/ Blob!CopyEnd(c) \/ Blob!CopyFindsNothing(c)
  <2>1. task[c].op = "copy" /\ task[c].at # "idle" /\ store' = store
    BY <1>5 DEF Blob!CopyOpen, Blob!CopyEnd, Blob!CopyFindsNothing, Blob!At
  <2> QED BY <1>1, <2>1, NoOther DEF Whole, OnlyPuts
<1>6. CASE Blob!Rm(c)
  <2>1. PICK t : t = task[c]
    OBVIOUS
  <2>2. TaskOK(t) /\ t.op = "delete" /\ t.at = "found" /\ t.out = Blob!NoInode /\ t.key \in Keys
    <3>1. TaskOK(t) /\ t.op = "delete" /\ t.at = "found"
      BY <1>1, <1>6, <2>1, TaskIs DEF Blob!Rm, Blob!At
    <3>2. t.key \in Keys
      BY <3>1 DEF TaskOK, Doing, Does, OfKey, Blob!Idle
    <3> QED BY <3>1, <3>2 DEF TaskOK, Writing
  <2>3. PICK new : new = [t EXCEPT !.at = "stored", !.touched = {t.key}]
    OBVIOUS
  <2>4. new.op = "delete" /\ new.at = "stored"
    BY <2>2, <2>3 DEF TaskOK, Shaped
  <2>5. task'[c] = new /\ \A d \in Clients : d # c => task'[d] = task[d]
    BY <1>1, <1>6, <2>1, <2>3 DEF Blob!Rm, Blob!Goes, BlobsTypeOK
  <2>6. store' = store /\ Blob!Stored(data) /\ file' = [file EXCEPT ![t.key] = Blob!NoInode]
    BY <1>6, <2>1 DEF Blob!Rm
  <2>7. file' \in [Blob!Paths -> Handles] /\ \A p \in Blob!Paths : file'[p] = file[p] \/ file'[p] = Blob!NoInode
    BY <1>1, <2>2, <2>6 DEF BlobsTypeOK, Handles
  <2>8. \A i \in Blob!Inodes : Blob!InUse(i)' => data'[i] = data[i]
    BY <1>1, <2>6, <2>7, Tidied
  <2>9. \A p \in Blob!Paths : SamePath(p) \/ file'[p] = Blob!NoInode
    BY <1>1, <2>7, <2>8, PathsKept
  <2>10. \A d \in Clients : Puts(task[d]) => Puts(task'[d])
    BY <2>4, <2>5 DEF Puts
  <2>11. ASSUME NEW d \in Clients, Writing(task'[d])
         PROVE  /\ Writing(task[d]) /\ task'[d].at = task[d].at /\ task'[d].out = task[d].out
                /\ data'[task[d].out].mixed = data[task[d].out].mixed
    <3>1. d # c /\ task'[d] = task[d]
      BY <2>4, <2>5, <2>11 DEF Writing
    <3>2. PICK i : i = task[d].out
      OBVIOUS
    <3>3. i \in Blob!Inodes /\ Blob!InUse(i)'
      BY <1>1, <2>11, <3>1, <3>2, TaskIs DEF Blob!InUse
    <3> QED BY <2>8, <2>11, <3>1, <3>2, <3>3
  <2> QED BY <1>1, <2>6, <2>9, <2>10, <2>11, WholeStays, Constants
<1> QED BY <1>2, <1>3, <1>4, <1>5, <1>6, WholePutOpen, WholeRename DEF Blob!Object

LEMMA WholeMultipart ==
  ASSUME Steady, NEW c \in Clients, Blob!Multipart(c)
  PROVE  Whole'
<1>1. Blob!BlobsAssumption /\ BlobsTypeOK /\ FilesOK /\ Whole
  BY DEF Steady, BlobsInv, BlobsTypeOK, FilesOK
<1>2. ASSUME NEW u \in Uploads, NEW k \in Keys, Blob!CreateUpload(c, u, k) PROVE Whole'
  <2>1. PICK new : new = [Blob!Idle EXCEPT !.op = "create", !.at = "stored", !.key = k, !.up = u]
    OBVIOUS
  <2>2. Shaped(new) /\ new.op = "create" /\ ~Writing(new)
    BY <2>1 DEF Shaped, Blob!Idle, Writing
  <2>3. Blob!Start(c, new) /\ UNCHANGED <<store, file, data>>
    BY <1>2, <2>1 DEF Blob!CreateUpload, Blob!files
  <2> QED BY <2>2, <2>3, WholeStarts
<1>3. ASSUME NEW u \in Uploads, NEW n \in PartNumbers, NEW body \in Bodies, Blob!PartLookup(c, u, n, body) PROVE Whole'
  <2>1. PICK new : new = [Blob!Idle EXCEPT !.op = "part", !.at = "found", !.up = u, !.number = n, !.bytes = <<body>>]
    OBVIOUS
  <2>2. Shaped(new) /\ new.op = "part" /\ ~Writing(new)
    BY <2>1 DEF Shaped, Blob!Idle, Writing
  <2>3. Blob!Start(c, new) /\ UNCHANGED <<store, file, data>>
    BY <1>3, <2>1 DEF Blob!PartLookup, Blob!files
  <2> QED BY <2>2, <2>3, WholeStarts
<1>4. ASSUME NEW u \in Uploads, Blob!ListParts(c, u) PROVE Whole'
  <2> DEFINE k == upload[u].key
             found == Blob!RecordedParts(u)
             all == Blob!Joined([n \in Blob!RecordedParts(u) |-> part[u][n]])
  <2>1. PICK new : new = [Blob!Idle EXCEPT !.op = "complete", !.at = "found", !.key = k, !.up = u, !.parts = found, !.bytes = all]
    OBVIOUS
  <2>2. Blob!Start(c, new) /\ UNCHANGED <<store, file, data>>
    BY <1>4, <2>1 DEF Blob!ListParts, Blob!files
  <2> HIDE DEF k, found, all
  <2>3. Shaped(new) /\ new.op = "complete" /\ ~Writing(new)
    BY <2>1 DEF Shaped, Blob!Idle, Writing
  <2> QED BY <2>2, <2>3, WholeStarts
<1>5. ASSUME NEW u \in Uploads, Blob!AbortLookup(c, u) PROVE Whole'
  <2>1. PICK new : new = [Blob!Idle EXCEPT !.op = "abort", !.at = "assembled", !.up = u]
    OBVIOUS
  <2>2. Shaped(new) /\ new.op = "abort" /\ ~Writing(new)
    BY <2>1 DEF Shaped, Blob!Idle, Writing
  <2>3. Blob!Start(c, new) /\ UNCHANGED <<store, file, data>>
    BY <1>5, <2>1 DEF Blob!AbortLookup, Blob!files
  <2> QED BY <2>2, <2>3, WholeStarts
<1>6. ASSUME NEW u \in Uploads, Blob!CollectExpired(c, u) PROVE Whole'
  <2>1. PICK new : new = [Blob!Idle EXCEPT !.op = "gc", !.at = "stored", !.up = u]
    OBVIOUS
  <2>2. Shaped(new) /\ new.op = "gc" /\ ~Writing(new)
    BY <2>1 DEF Shaped, Blob!Idle, Writing
  <2>3. Blob!Start(c, new) /\ UNCHANGED <<store, file, data>>
    BY <1>6, <2>1 DEF Blob!CollectExpired, Blob!files
  <2> QED BY <2>2, <2>3, WholeStarts
<1>7. CASE Blob!PartOpen(c) \/ Blob!PartEnd(c) \/ Blob!AssembleOpen(c) \/ Blob!AssembleEnd(c) \/ Blob!AssembleFindsNothing(c)
       \/ Blob!RmParts(c) \/ Blob!RmFails(c)
  <2>1. task[c].op \notin {"put", "delete"} /\ task[c].at # "idle" /\ store' = store
    <3>1. CASE Blob!RmParts(c) \/ Blob!RmFails(c)
      <4>1. Doing(task[c]) /\ task[c].at = "assembled"
        BY <1>1, <3>1, TaskIs DEF Blob!RmParts, Blob!RmFails, TaskOK
      <4> QED BY <3>1, <4>1 DEF Blob!RmParts, Blob!RmFails, Doing, Does, Blob!Idle
    <3>2. CASE ~(Blob!RmParts(c) \/ Blob!RmFails(c))
      BY <1>7, <3>2 DEF Blob!PartOpen, Blob!PartEnd, Blob!AssembleOpen, Blob!AssembleEnd, Blob!AssembleFindsNothing, Blob!At
    <3> QED BY <3>1, <3>2
  <2> QED BY <1>1, <2>1, NoOther DEF Whole, OnlyPuts
<1> QED BY <1>2, <1>3, <1>4, <1>5, <1>6, <1>7 DEF Blob!Multipart

LEMMA WholeEnds ==
  ASSUME Steady, NEW c \in Clients, Blob!Write(c) \/ Blob!WriteRefused(c) \/ Blob!Commit(c) \/ Blob!Fail(c)
  PROVE  Whole'
<1>1. Blob!BlobsAssumption /\ BlobsTypeOK /\ FilesOK
  BY DEF Steady, BlobsInv, BlobsTypeOK, FilesOK
<1>2. CASE Blob!Write(c)
  <2>1. PICK t : t = task[c]
    OBVIOUS
  <2>2. PICK new : new = [t EXCEPT !.at = "written"]
    OBVIOUS
  <2>3. TaskOK(t) /\ t.at = "stored"
    BY <1>1, <1>2, <2>1, TaskIs DEF Blob!Write
  <2>4. new.op = t.op /\ new.at = "written" /\ new.bytes = t.bytes
    BY <2>2, <2>3 DEF TaskOK, Shaped
  <2>5. task'[c] = new /\ \A d \in Clients : d # c => task'[d] = task[d]
    BY <1>1, <1>2, <2>1, <2>2 DEF Blob!Write, Blob!Goes, BlobsTypeOK
  <2>6. UNCHANGED <<store, file, data>>
    BY <1>2 DEF Blob!Write, Blob!files
  <2>7. \A d \in Clients : Puts(task[d]) => Puts(task'[d])
    BY <2>1, <2>3, <2>4, <2>5 DEF Puts
  <2>8. \A d \in Clients : Writing(task'[d]) => task'[d] = task[d]
    BY <2>4, <2>5 DEF Writing
  <2> QED BY <2>6, <2>7, <2>8, WholeStays DEF SamePath
<1>3. CASE Blob!WriteRefused(c)
  BY <1>3, WholeFails DEF Blob!WriteRefused, Blob!files
<1>4. CASE Blob!Fail(c)
  BY <1>4, WholeFails DEF Blob!Fail
<1>5. CASE Blob!Commit(c)
  <2>1. task'[c] = Blob!Idle /\ (\A d \in Clients : d # c => task'[d] = task[d]) /\ Puts(Blob!Idle) /\ ~Writing(Blob!Idle)
    BY <1>1, <1>5 DEF BlobsTypeOK, Blob!Commit, Puts, Writing, Blob!Idle
  <2>2. UNCHANGED <<store, file, data>>
    BY <1>5 DEF Blob!Commit, Blob!files
  <2>3. \A d \in Clients : Puts(task[d]) => Puts(task'[d])
    BY <2>1
  <2>4. \A d \in Clients : Writing(task'[d]) => task'[d] = task[d]
    BY <2>1
  <2> QED BY <2>2, <2>3, <2>4, WholeStays DEF SamePath
<1> QED BY <1>2, <1>3, <1>4, <1>5
-----------------------------------------------------------------------------
LEMMA BlobsStarts ==
  ASSUME Blob!BlobsAssumption, Blob!Init
  PROVE  BlobsInv
<1>1. Blob!Idle.at = "idle" /\ Blob!Idle.op = None /\ Blob!Idle.up = None /\ Blob!Idle.touched = {} /\ ~Writing(Blob!Idle) /\ Blob!Targets(Blob!Idle) = {}
  BY DEF Blob!Idle, Writing, Blob!Targets
<1>2. None \notin Keys /\ None \notin Uploads /\ None # "open" /\ None \notin Blob!Kinds
  BY Constants
<1>3. (\A c \in Clients : task[c] = Blob!Idle) /\ (\A p \in Blob!Paths : file[p] = Blob!NoInode) /\ \A u \in Uploads, n \in PartNumbers : <<u, n>> \in Blob!Paths
  BY Constants DEF Blob!Init
<1>4. BlobsTypeOK
  <2>1. TaskOK(Blob!Idle)
    BY DEF TaskOK, Doing, Shaped, Touches, Writing, Blob!Targets, Blob!Idle
  <2>2. Blob!Free = [bytes |-> Blob!Free.bytes, mixed |-> Blob!Free.mixed] /\ Blob!Free.mixed \in BOOLEAN
    BY DEF Blob!Free
  <2>3. file \in [Blob!Paths -> Handles] /\ clean \in [Subjects -> BOOLEAN]
    BY DEF Blob!Init, Handles, Subjects
  <2>4. /\ upload \in [Uploads -> [state : {None, "open"} \cup Blob!Ends, key : Keys \cup {None}]]
        /\ \A u \in Uploads : upload[u].state = None
    BY DEF Blob!Init
  <2>5. row = [k \in Keys |-> row[k]] /\ part = [u \in Uploads |-> part[u]] /\ \A u \in Uploads : part[u] = [n \in PartNumbers |-> part[u][n]]
    BY DEF Blob!Init
  <2>6. data = [i \in Blob!Inodes |-> data[i]] /\ \A i \in Blob!Inodes : data[i] = Blob!Free
    BY DEF Blob!Init
  <2>7. task = [c \in Clients |-> task[c]] /\ store \in Stores
    BY DEF Blob!Init
  <2> QED BY <1>3, <2>1, <2>2, <2>3, <2>4, <2>5, <2>6, <2>7 DEF BlobsTypeOK
<1>5. OnePath /\ OwnedInodes /\ Shared /\ Apart /\ AloneOnKey /\ Locks
  BY <1>1, <1>3 DEF OnePath, OwnedInodes, Shared, Apart, AloneOnKey, Locks, Blob!At
<1>6. PartsOpen /\ PartsGone /\ Unmade /\ Creating
  <2>1. \A u \in Uploads : part[u] = Blob!NoParts
    BY DEF Blob!Init, Blob!NoParts
  <2> QED BY <1>1, <1>2, <1>3, <2>1 DEF PartsOpen, PartsGone, Unmade, Creating, Blob!At
<1>7. AloneCome
  BY <1>1, <1>3 DEF AloneCome, HasCome
<1>8. KeysSettled /\ PartsSettled
  <2>1. (\A k \in Keys : row[k] = None) /\ \A u \in Uploads, n \in PartNumbers : part[u][n] = None
    BY DEF Blob!Init
  <2> QED BY <1>3, <2>1, Constants DEF KeysSettled, PartsSettled, Blob!Agrees
<1>9. Whole
  BY <1>1, <1>3, Constants DEF Whole, Puts
<1> QED BY <1>4, <1>5, <1>6, <1>7, <1>8, <1>9 DEF BlobsInv

LEMMA BlobsStutter ==
  ASSUME BlobsInv, UNCHANGED Blob!vars
  PROVE  BlobsInv'
<1>1. UNCHANGED <<store, row, upload, part, file, data, task, clean>>
  BY DEF Blob!vars
<1>2. BlobsTypeOK'
  BY <1>1 DEF BlobsInv, BlobsTypeOK
<1>3. OnePath' /\ OwnedInodes' /\ Shared' /\ Apart' /\ AloneOnKey'
  BY <1>1 DEF BlobsInv, OnePath, OwnedInodes, Shared, Apart, AloneOnKey, Blob!At
<1>4. Locks' /\ PartsOpen' /\ PartsGone' /\ Unmade' /\ Creating'
  BY <1>1 DEF BlobsInv, Locks, PartsOpen, PartsGone, Unmade, Creating, Blob!At, Blob!NoParts
<1>5. AloneCome'
  BY <1>1 DEF BlobsInv, AloneCome, HasCome, Holds, Cleared, Blob!RecordedParts
<1>6. KeysSettled' /\ PartsSettled'
  BY <1>1 DEF BlobsInv, KeysSettled, PartsSettled, Blob!Agrees
<1>7. Whole'
  BY <1>1 DEF BlobsInv, Whole, OnlyPuts
<1> QED BY <1>2, <1>3, <1>4, <1>5, <1>6, <1>7 DEF BlobsInv

LEMMA BlobsStep ==
  ASSUME Blob!BlobsAssumption, BlobsInv, [Blob!Next]_(Blob!vars)
  PROVE  BlobsInv'
<1> SUFFICES ASSUME Blob!Next PROVE BlobsInv'
  BY BlobsStutter
<1>1. Steady
  BY DEF Steady
<1>2. PICK c \in Clients : Blob!Object(c) \/ Blob!Multipart(c) \/ Blob!Write(c) \/ Blob!WriteRefused(c) \/ Blob!Commit(c) \/ Blob!Fail(c)
  BY DEF Blob!Next
<1>3. Whole'
  BY <1>1, <1>2, WholeObject, WholeMultipart, WholeEnds
<1>4. KeptInv'
  <2>1. CASE Blob!Object(c)
    BY <1>1, <2>1, PutOpens, CopyLooks, DeleteLooks, Renames, Robbed, CopyOpens, CopyEnds, CopyStops, Removes DEF Blob!Object
  <2>2. CASE Blob!Multipart(c)
    BY <1>1, <2>2, Creates, PartLooks, ListsParts, AbortLooks, Collects, PartOpens, PartEnds, AssembleOpens, AssembleEnds,
       AssembleStops, RemovesParts, LeavesParts DEF Blob!Multipart
  <2> QED BY <1>1, <1>2, <2>1, <2>2, Writes, Refused, Commits, FailStops
<1> QED BY <1>3, <1>4 DEF BlobsInv, KeptInv

LEMMA BlobsAgree ==
  ASSUME Blob!BlobsAssumption, BlobsInv
  PROVE  Blob!ObjectsAgree
<1>1. BlobsTypeOK
  BY DEF BlobsInv
<1>2. ASSUME NEW x, Blob!Quiet(x) PROVE clean[x] /\ \A c \in Clients : x \notin task[c].touched
  BY <1>1, <1>2, TaskIs DEF Blob!Quiet
<1>3. ASSUME NEW k \in Keys, Blob!Quiet(k) PROVE Blob!Agrees(row[k], k)
  BY <1>2, <1>3 DEF BlobsInv, KeysSettled
<1>4. ASSUME NEW u \in Uploads, Blob!Quiet(u), upload[u].state # "gc", NEW n \in PartNumbers PROVE Blob!Agrees(part[u][n], <<u, n>>)
  BY <1>2, <1>4 DEF BlobsInv, PartsSettled, Beside
<1>5. store.kinds \subseteq {"put", "delete"} /\ ~store.sameMs => \A k \in Keys : file[k] # Blob!NoInode => data[file[k]].bytes # Torn
  BY DEF BlobsInv, Whole, OnlyPuts
<1> QED BY <1>3, <1>4, <1>5 DEF Blob!ObjectsAgree

(* Blobs, blobs.ts and the engines: for any clients, keys, uploads and     *)
(* ways of using the store, what an object's row tells and what its file   *)
(* holds agree once an operation that was alone with it has committed,     *)
(* and a path of a store of puts never leads to half an object.            *)
THEOREM RowsTellOfFiles ==
  ASSUME Blob!BlobsAssumption
  PROVE  Blob!Spec => []Blob!ObjectsAgree
<1>1. Blob!Init => BlobsInv
  BY BlobsStarts
<1>2. BlobsInv /\ [Blob!Next]_(Blob!vars) => BlobsInv'
  BY BlobsStep
<1>3. BlobsInv => Blob!ObjectsAgree
  BY BlobsAgree
<1> QED BY <1>1, <1>2, <1>3, PTL DEF Blob!Spec
=============================================================================
