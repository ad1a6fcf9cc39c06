----------------------------- MODULE HostProofs -----------------------------
(***************************************************************************)
(* Theorems about Host, for any lanes, schedules, hooks and faults: the    *)
(* event bus outlives the lanes, and no schedule is missed or deleted.     *)
(***************************************************************************)
EXTENDS Host, TLAPS

Names == {"new", "starting", "started", "failed", "stopping", "closed", "stopped"}
Stations == {"off", "idle", "ticks", "fails", "idles", "waits", "awaits", "syncs", "cron", "queue", "more"}
Operations == [kind : {"request", "drain"}, by : Lanes \cup {None}, left : Int, first : {"cron", "queue"},
               at : {"begin", "runs", "cron", "other", "syncs", "awaits"}]

(* The type invariant. *)
Fields ==
  /\ lanesOn \in BOOLEAN /\ phase \in [name : Names, hook : Int]
  /\ server \in BOOLEAN /\ bus \in BOOLEAN /\ stopped \in BOOLEAN /\ dirty \in BOOLEAN
  /\ registry \subseteq Crons /\ laneCrons \subseteq registry /\ table \subseteq Crons
  /\ sync \in Syncs \cup {None}
TypeOK == Fields /\ lane \in [Lanes -> Stations] /\ chain \in Seq(Operations)

(***************************************************************************)
(* A lane that has put a drain into the chain waits for it, and has no     *)
(* other there; who began the sync that runs is in it.                     *)
(***************************************************************************)
DrainsAwaited ==
  /\ \A i \in DOMAIN chain : chain[i].by # None => lane[chain[i].by] = "waits"
  /\ \A i, j \in DOMAIN chain : i # j /\ chain[i].by = chain[j].by => chain[i].by = None

RequestsRun == \A i \in DOMAIN chain : chain[i].kind = "request" => chain[i].by = None /\ chain[i].at = "runs"

SyncIsOf(s) ==
  s # None =>
    /\ s.by \in Lanes => lane[s.by] = "syncs"
    /\ s.by = "primary" => chain # <<>> /\ chain[1].at = "syncs"

Places == TypeOK /\ DrainsAwaited /\ RequestsRun /\ SyncIsOf(sync)

(* Before the start nothing runs but a sync that the program asked for. *)
Begins ==
  phase.name = "new" =>
    /\ ~bus /\ chain = <<>> /\ \A l \in Lanes : lane[l] = "off"
    /\ sync # None => sync.by = "program"

(* The flag is up before the bus is off, and the lanes rest by then. *)
Ends ==
  /\ phase.name \notin {"new", "stopped"} => bus
  /\ phase.name \in {"closed", "stopped"} => stopped
  /\ phase.name = "stopped" => Resting

(***************************************************************************)
(* What a sync that sees every registration has visited or has yet to      *)
(* compare is in the table; it turns to deletes when it has visited all    *)
(* that the workers know, and deletes nothing that it has visited.         *)
(***************************************************************************)
SyncHonest ==
  ~dirty =>
    IF sync = None THEN KnownToWorkers \subseteq table
    ELSE /\ KnownToWorkers \cap (sync.seen \cup sync.persisted) \subseteq table
         /\ sync.seen \cap sync.persisted = {}
         /\ sync.stage = "deletes" => KnownToWorkers \subseteq sync.seen

HostInv == Places /\ Begins /\ Ends /\ SyncHonest

(* How a step moves a lane: one that is off stays off, and none is woken   *)
(* after the flag.                                                         *)
Moved(l) == lane[l] # "off" /\ lane'[l] # "off" /\ (stopped => lane[l] # "idle")
Moves == \A l \in Lanes : lane'[l] = lane[l] \/ Moved(l)
-----------------------------------------------------------------------------
LEMMA FirstOfChain ==
  ASSUME TypeOK, chain # <<>>
  PROVE  /\ 1 \in DOMAIN chain /\ Head(chain) = chain[1] /\ chain[1] \in Operations
         /\ Len(chain) \in Nat \ {0} /\ DOMAIN chain = 1 .. Len(chain)
BY DEF TypeOK

LEMMA WhoseOperation ==
  ASSUME TypeOK, NEW i \in DOMAIN chain
  PROVE  chain[i] \in Operations /\ chain[i].by \in Lanes \cup {None}
<1>1. chain[i] \in Operations
  BY DEF TypeOK
<1> QED BY <1>1 DEF Operations

(* The first operation is gone. *)
LEMMA TailOfChain ==
  ASSUME TypeOK, chain # <<>>
  PROVE  /\ Tail(chain) \in Seq(Operations)
         /\ \A i \in DOMAIN Tail(chain) : i \in Nat /\ i + 1 \in DOMAIN chain /\ i + 1 # 1 /\ Tail(chain)[i] = chain[i + 1]
BY DEF TypeOK

(* The first operation is another now. *)
LEMMA HeadOfChain ==
  ASSUME TypeOK, chain # <<>>, NEW op \in Operations
  PROVE  LET other == <<op>> \o Tail(chain) IN
         /\ other \in Seq(Operations) /\ DOMAIN other = DOMAIN chain /\ other # <<>>
         /\ \A i \in DOMAIN chain : other[i] = IF i = 1 THEN op ELSE chain[i]
<1> DEFINE other == <<op>> \o Tail(chain)
<1>1. Tail(chain) \in Seq(Operations) /\ Len(Tail(chain)) = Len(chain) - 1 /\ Len(chain) \in Nat \ {0}
  BY DEF TypeOK
<1>2. \A i \in 1 .. Len(chain) - 1 : Tail(chain)[i] = chain[i + 1]
  BY DEF TypeOK
<1>3. <<op>> \in Seq(Operations) /\ Len(<<op>>) = 1 /\ <<op>>[1] = op
  OBVIOUS
<1>4. other \in Seq(Operations) /\ Len(other) = Len(chain)
  BY <1>1, <1>3
<1>5. ASSUME NEW i \in 1 .. Len(chain)
      PROVE  other[i] = IF i = 1 THEN op ELSE chain[i]
  <2>1. CASE i = 1
    BY <2>1, <1>1, <1>3
  <2>2. CASE i # 1
    <3>1. i - 1 \in 1 .. Len(chain) - 1 /\ (i - 1) + 1 = i
      BY <2>2, <1>1
    <3>2. other[i] = Tail(chain)[i - 1]
      BY <2>2, <1>1, <1>3
    <3> QED BY <3>1, <3>2, <1>2, <2>2
  <2> QED BY <2>1, <2>2
<1>6. DOMAIN other = 1 .. Len(chain) /\ DOMAIN chain = 1 .. Len(chain)
  BY <1>4 DEF TypeOK
<1>7. other # <<>>
  BY <1>4, <1>1
<1> QED BY <1>4, <1>5, <1>6, <1>7

(* The first operation goes somewhere. *)
LEMMA MarkOfChain ==
  ASSUME TypeOK, chain # <<>>, NEW to \in {"cron", "other", "syncs", "awaits"}
  PROVE  LET other == [chain EXCEPT ![1].at = to] IN
         /\ other \in Seq(Operations) /\ DOMAIN other = DOMAIN chain /\ other # <<>> /\ other[1].at = to
         /\ \A i \in DOMAIN chain : other[i].by = chain[i].by /\ other[i].kind = chain[i].kind
         /\ \A i \in DOMAIN chain : i # 1 => other[i] = chain[i]
<1> DEFINE op == [chain[1] EXCEPT !.at = to]
           other == [chain EXCEPT ![1].at = to]
<1>1. 1 \in DOMAIN chain /\ chain[1] \in Operations /\ Len(chain) \in Nat \ {0} /\ DOMAIN chain = 1 .. Len(chain)
  BY FirstOfChain
<1>2. op \in Operations /\ op.at = to /\ op.by = chain[1].by /\ op.kind = chain[1].kind
  BY <1>1 DEF Operations
<1>3. other = [chain EXCEPT ![1] = op]
  OBVIOUS
<1> HIDE DEF op
<1>4. [chain EXCEPT ![1] = op] \in Seq(Operations) /\ Len([chain EXCEPT ![1] = op]) = Len(chain)
  BY <1>1, <1>2 DEF TypeOK
<1>5. \A i \in DOMAIN chain : [chain EXCEPT ![1] = op][i] = IF i = 1 THEN op ELSE chain[i]
  BY <1>1 DEF TypeOK
<1> HIDE DEF other
<1>6. other \in Seq(Operations) /\ Len(other) = Len(chain) /\ DOMAIN other = DOMAIN chain /\ other # <<>>
  BY <1>1, <1>3, <1>4
<1>7. \A i \in DOMAIN chain : other[i] = IF i = 1 THEN op ELSE chain[i]
  BY <1>3, <1>5
<1>8. other[1] = op /\ \A i \in DOMAIN chain : i # 1 => other[i] = chain[i]
  BY <1>1, <1>7
<1>9. \A i \in DOMAIN chain : other[i].by = chain[i].by /\ other[i].kind = chain[i].kind
  BY <1>2, <1>7
<1> QED BY <1>2, <1>6, <1>8, <1>9 DEF other
-----------------------------------------------------------------------------
LEMMA LaneMoves ==
  ASSUME HostAssumption, Places, NEW l \in Lanes, NEW to \in Stations \ {"off"},
         lane[l] \notin {"off", "waits", "syncs"}, stopped => lane[l] # "idle",
         lane' = [lane EXCEPT ![l] = to], UNCHANGED <<chain, sync>>
  PROVE  lane' \in [Lanes -> Stations] /\ Moves /\ DrainsAwaited' /\ RequestsRun' /\ SyncIsOf(sync)'
<1>1. TypeOK /\ DrainsAwaited /\ RequestsRun /\ SyncIsOf(sync)
  BY DEF Places
<1>2. lane' \in [Lanes -> Stations] /\ lane'[l] = to /\ \A m \in Lanes : m # l => lane'[m] = lane[m]
  BY <1>1 DEF TypeOK
<1>3. Moves
  BY <1>2 DEF Moves, Moved
<1>4. \A i \in DOMAIN chain : chain[i].by \in Lanes \cup {None}
  BY <1>1, WhoseOperation
<1>5. DrainsAwaited'
  BY <1>1, <1>2, <1>4 DEF DrainsAwaited
<1>6. RequestsRun'
  BY <1>1 DEF RequestsRun
<1>7. SyncIsOf(sync)'
  BY <1>1, <1>2 DEF SyncIsOf
<1> QED BY <1>2, <1>3, <1>5, <1>6, <1>7

(* The operation that leaves the chain takes its lane along. *)
LEMMA HeadLeaves ==
  ASSUME HostAssumption, Places, chain # <<>>, NEW to,
         chain[1].by # None => to \in Stations \ {"off"},
         chain[1].at # "syncs", Leave(Head(chain), to), UNCHANGED sync
  PROVE  /\ lane' \in [Lanes -> Stations] /\ chain' \in Seq(Operations)
         /\ Moves /\ DrainsAwaited' /\ RequestsRun' /\ SyncIsOf(sync)'
<1>1. TypeOK /\ DrainsAwaited /\ RequestsRun /\ SyncIsOf(sync)
  BY DEF Places
<1> DEFINE op == chain[1]
<1>2. 1 \in DOMAIN chain /\ Head(chain) = op /\ op \in Operations
  BY <1>1, FirstOfChain
<1>3. op.by \in Lanes \cup {None}
  BY <1>2 DEF Operations
<1>4. /\ chain' = Tail(chain)
      /\ lane' = IF op.by = None THEN lane ELSE [lane EXCEPT ![op.by] = to]
  BY <1>2 DEF Leave
<1>5. /\ chain' \in Seq(Operations)
      /\ \A i \in DOMAIN chain' : i + 1 \in DOMAIN chain /\ i + 1 # 1 /\ chain'[i] = chain[i + 1] /\ i \in Nat
  BY <1>1, <1>4, TailOfChain
<1>6. op.by # None => lane[op.by] = "waits"
  BY <1>1, <1>2 DEF DrainsAwaited
<1> HIDE DEF op
<1>7. /\ lane' \in [Lanes -> Stations] /\ (op.by # None => lane'[op.by] = to)
      /\ \A m \in Lanes : m # op.by => lane'[m] = lane[m]
  BY <1>1, <1>3, <1>4 DEF op, TypeOK
<1>8. Moves
  BY <1>3, <1>6, <1>7 DEF Moves, Moved, op, HostAssumption
<1>9. DrainsAwaited'
  <2>1. ASSUME NEW i \in DOMAIN chain', chain'[i].by # None
        PROVE  lane'[chain'[i].by] = "waits"
    <3>1. chain'[i].by = chain[i + 1].by /\ i + 1 \in DOMAIN chain /\ i + 1 # 1
      BY <1>5
    <3>2. chain[i + 1].by # None /\ 1 \in DOMAIN chain
      BY <1>2, <2>1, <3>1
    <3>4. chain[i + 1].by # op.by
      BY <1>1, <3>1, <3>2 DEF DrainsAwaited, op
    <3>3. lane[chain[i + 1].by] = "waits" /\ chain[i + 1].by \in Lanes
      BY <1>1, <2>1, <3>1, WhoseOperation DEF DrainsAwaited
    <3> QED BY <1>7, <3>1, <3>4, <3>3
  <2>2. ASSUME NEW i \in DOMAIN chain', NEW j \in DOMAIN chain', i # j, chain'[i].by = chain'[j].by
        PROVE  chain'[i].by = None
    <3>1. /\ chain'[i] = chain[i + 1] /\ i + 1 \in DOMAIN chain
          /\ chain'[j] = chain[j + 1] /\ j + 1 \in DOMAIN chain /\ i + 1 # j + 1
      BY <1>5, <2>2
    <3> QED BY <1>1, <2>2, <3>1 DEF DrainsAwaited
  <2> QED BY <2>1, <2>2 DEF DrainsAwaited
<1>10. RequestsRun'
  BY <1>1, <1>5 DEF RequestsRun
<1>11. SyncIsOf(sync)'
  <2>1. sync # None => sync.by # "primary"
    BY <1>1 DEF SyncIsOf
  <2>2. sync # None /\ sync.by \in Lanes => sync.by # op.by
    BY <1>1, <1>3, <1>6 DEF SyncIsOf, HostAssumption
  <2> QED BY <1>1, <1>7, <2>1, <2>2 DEF SyncIsOf
<1> QED BY <1>5, <1>7, <1>8, <1>9, <1>10, <1>11

(* The chain keeps its operations, but for how far the first one is. *)
LEMMA HeadStays ==
  ASSUME HostAssumption, Places, chain' \in Seq(Operations), DOMAIN chain' = DOMAIN chain, UNCHANGED lane,
         \A i \in DOMAIN chain : chain'[i].by = chain[i].by /\ chain'[i].kind = chain[i].kind,
         \A i \in DOMAIN chain : chain[i].kind = "request" => chain'[i].at = chain[i].at
  PROVE  lane' \in [Lanes -> Stations] /\ Moves /\ DrainsAwaited' /\ RequestsRun'
<1>1. TypeOK /\ DrainsAwaited /\ RequestsRun
  BY DEF Places
<1>2. lane' \in [Lanes -> Stations] /\ Moves
  BY <1>1 DEF TypeOK, Moves
<1>3. DrainsAwaited'
  BY <1>1 DEF DrainsAwaited
<1>4. RequestsRun'
  BY <1>1 DEF RequestsRun
<1> QED BY <1>2, <1>3, <1>4

(* An operation comes. *)
LEMMA OperationComes ==
  ASSUME HostAssumption, Places, NEW op \in Operations, chain' = Append(chain, op),
         op.kind = "request" => op.by = None /\ op.at = "runs", UNCHANGED sync,
         \/ op.by = None /\ UNCHANGED lane
         \/ op.by # None /\ lane' = [lane EXCEPT ![op.by] = "waits"] /\ lane[op.by] = "ticks"
  PROVE  /\ lane' \in [Lanes -> Stations] /\ chain' \in Seq(Operations)
         /\ Moves /\ DrainsAwaited' /\ RequestsRun' /\ SyncIsOf(sync)'
<1>1. TypeOK /\ DrainsAwaited /\ RequestsRun /\ SyncIsOf(sync)
  BY DEF Places
<1>2. /\ chain' \in Seq(Operations) /\ DOMAIN chain' = DOMAIN chain \cup {Len(chain) + 1}
      /\ chain'[Len(chain) + 1] = op /\ Len(chain) + 1 \notin DOMAIN chain
      /\ \A i \in DOMAIN chain : chain'[i] = chain[i]
  BY <1>1 DEF TypeOK
<1>3. op.by \in Lanes \cup {None}
  BY DEF Operations
<1>4. /\ lane' \in [Lanes -> Stations]
      /\ op.by # None => lane[op.by] = "ticks" /\ lane'[op.by] = "waits"
      /\ \A m \in Lanes : m # op.by => lane'[m] = lane[m]
  BY <1>1, <1>3 DEF TypeOK, Stations, HostAssumption
<1>5. Moves
  BY <1>3, <1>4 DEF Moves, Moved, HostAssumption
<1>6. \A i \in DOMAIN chain : chain[i].by # None => chain[i].by \in Lanes /\ chain[i].by # op.by
  <2> SUFFICES ASSUME NEW i \in DOMAIN chain, chain[i].by # None
               PROVE  chain[i].by \in Lanes /\ chain[i].by # op.by
    OBVIOUS
  <2>1. chain[i].by \in Lanes
    BY <1>1, WhoseOperation
  <2>2. lane[chain[i].by] = "waits"
    BY <1>1 DEF DrainsAwaited
  <2> QED BY <1>4, <2>1, <2>2
<1>7. DrainsAwaited'
  <2>1. ASSUME NEW i \in DOMAIN chain', chain'[i].by # None
        PROVE  lane'[chain'[i].by] = "waits"
    BY <1>1, <1>2, <1>4, <1>6, <2>1 DEF DrainsAwaited
  <2>2. ASSUME NEW i \in DOMAIN chain', NEW j \in DOMAIN chain', i # j, chain'[i].by = chain'[j].by
        PROVE  chain'[i].by = None
    BY <1>1, <1>2, <1>6, <2>2 DEF DrainsAwaited
  <2> QED BY <2>1, <2>2 DEF DrainsAwaited
<1>8. RequestsRun'
  BY <1>1, <1>2 DEF RequestsRun
<1>9. SyncIsOf(sync)'
  <2>1. sync # None /\ sync.by \in Lanes => lane'[sync.by] = "syncs"
    BY <1>1, <1>4 DEF SyncIsOf
  <2>2. sync # None /\ sync.by = "primary" => chain' # <<>> /\ chain'[1].at = "syncs"
    <3>1. ASSUME chain # <<>> PROVE chain' # <<>> /\ chain'[1] = chain[1]
      BY <1>1, <1>2, <3>1, FirstOfChain
    <3> QED BY <1>1, <3>1 DEF SyncIsOf
  <2> QED BY <2>1, <2>2 DEF SyncIsOf
<1> QED BY <1>2, <1>4, <1>5, <1>7, <1>8, <1>9

(* Nothing happens to lanes, chain and who syncs. *)
LEMMA PlacesStay ==
  ASSUME Places, UNCHANGED <<lane, chain>>,
         sync' # None => (sync # None /\ sync'.by = sync.by) \/ sync'.by \notin Lanes \cup {"primary"}
  PROVE  /\ lane' \in [Lanes -> Stations] /\ chain' \in Seq(Operations)
         /\ Moves /\ DrainsAwaited' /\ RequestsRun' /\ SyncIsOf(sync)'
BY DEF Places, TypeOK, Moves, DrainsAwaited, RequestsRun, SyncIsOf

(* A sync ends: the lanes and the operation that were in it go on.         *)
LEMMA ReleaseFrees ==
  ASSUME HostAssumption, Places, sync # None, sync' = None,
         NEW to \in {"cron", "fails"}, Release(to, to)
  PROVE  /\ lane' \in [Lanes -> Stations] /\ chain' \in Seq(Operations)
         /\ Moves /\ DrainsAwaited' /\ RequestsRun' /\ SyncIsOf(sync)'
<1>1. TypeOK /\ DrainsAwaited /\ RequestsRun /\ SyncIsOf(sync)
  BY DEF Places
<1> DEFINE freed(who) == who = sync.by \/ Waiting(who)
           falls(l) == freed("primary") /\ to = "fails" /\ Head(chain).by = l
<1>2. /\ lane' = [l \in Lanes |-> IF freed(l) THEN to ELSE IF falls(l) THEN "fails" ELSE lane[l]]
      /\ chain' = IF ~freed("primary") THEN chain
                  ELSE IF to = "fails" THEN Tail(chain) ELSE [chain EXCEPT ![1].at = to]
  BY DEF Release
<1>3. ASSUME NEW l \in Lanes, freed(l) PROVE lane[l] \in {"syncs", "awaits"}
  <2>1. CASE l = sync.by
    BY <1>1, <2>1 DEF SyncIsOf
  <2>2. CASE Waiting(l)
    BY <2>2 DEF Waiting, HostAssumption
  <2> QED BY <1>3, <2>1, <2>2
<1>4. ASSUME freed("primary")
      PROVE  chain # <<>> /\ Head(chain) = chain[1] /\ 1 \in DOMAIN chain /\ chain[1].at \in {"syncs", "awaits"}
  <2>1. chain # <<>> /\ (chain[1].at = "syncs" \/ Head(chain).at = "awaits")
    BY <1>1, <1>4 DEF SyncIsOf, Waiting
  <2> QED BY <1>1, <2>1, FirstOfChain
<1>5. ASSUME NEW l \in Lanes, falls(l)
      PROVE  lane[l] = "waits"
  BY <1>1, <1>4, <1>5 DEF DrainsAwaited, HostAssumption
<1>6. lane' \in [Lanes -> Stations]
  <2>1. \A l \in Lanes : lane[l] \in Stations
    BY <1>1 DEF TypeOK
  <2> HIDE DEF freed, falls
  <2>2. to \in Stations /\ "fails" \in Stations
    BY DEF Stations
  <2> QED BY <1>2, <2>1, <2>2
<1>7. Moves
  <2> SUFFICES ASSUME NEW l \in Lanes, lane'[l] # lane[l] PROVE Moved(l)
    BY DEF Moves
  <2>1. (freed(l) \/ falls(l)) /\ lane'[l] \in {to, "fails"}
    BY <1>2
  <2>2. lane[l] \in {"syncs", "awaits", "waits"}
    BY <1>3, <1>5, <2>1
  <2> QED BY <2>1, <2>2 DEF Moved
<1>8. ASSUME NEW i \in DOMAIN chain, chain[i].by # None, ~freed("primary") \/ to # "fails" \/ i # 1
      PROVE  lane'[chain[i].by] = "waits"
  <2>1. chain[i].by \in Lanes /\ lane[chain[i].by] = "waits"
    BY <1>1, <1>8, WhoseOperation DEF DrainsAwaited
  <2>2. ~freed(chain[i].by)
    BY <1>3, <2>1
  <2>3. ~falls(chain[i].by)
    BY <1>1, <1>4, <1>8 DEF DrainsAwaited
  <2> QED BY <1>2, <2>1, <2>2, <2>3
<1>9. chain' \in Seq(Operations) /\ DrainsAwaited' /\ RequestsRun'
  <2>1. CASE ~freed("primary")
    <3>1. chain' = chain
      BY <1>2, <2>1
    <3>2. \A i \in DOMAIN chain : chain[i].by # None => lane'[chain[i].by] = "waits"
      BY <1>8, <2>1
    <3>3. DrainsAwaited'
      BY <1>1, <3>1, <3>2 DEF DrainsAwaited
    <3>4. RequestsRun'
      BY <1>1, <3>1 DEF RequestsRun
    <3> QED BY <1>1, <3>1, <3>3, <3>4 DEF TypeOK
  <2>2. CASE freed("primary") /\ to = "fails"
    <3>1. chain' = Tail(chain) /\ chain # <<>>
      BY <1>2, <1>4, <2>2
    <3>2. /\ chain' \in Seq(Operations)
          /\ \A i \in DOMAIN chain' : i + 1 \in DOMAIN chain /\ i + 1 # 1 /\ chain'[i] = chain[i + 1] /\ i \in Nat
      BY <1>1, <3>1, TailOfChain
    <3>3. ASSUME NEW i \in DOMAIN chain', chain'[i].by # None
          PROVE  lane'[chain'[i].by] = "waits"
      BY <1>8, <3>2, <3>3
    <3>4. ASSUME NEW i \in DOMAIN chain', NEW j \in DOMAIN chain', i # j, chain'[i].by = chain'[j].by
          PROVE  chain'[i].by = None
      <4>1. /\ chain'[i] = chain[i + 1] /\ i + 1 \in DOMAIN chain
            /\ chain'[j] = chain[j + 1] /\ j + 1 \in DOMAIN chain /\ i + 1 # j + 1
        BY <3>2, <3>4
      <4> QED BY <1>1, <3>4, <4>1 DEF DrainsAwaited
    <3>5. DrainsAwaited'
      BY <3>3, <3>4 DEF DrainsAwaited
    <3>6. RequestsRun'
      BY <1>1, <3>2 DEF RequestsRun
    <3> QED BY <3>2, <3>5, <3>6
  <2>3. CASE freed("primary") /\ to = "cron"
    <3>1. chain' = [chain EXCEPT ![1].at = to] /\ chain # <<>> /\ to \in {"cron", "other", "syncs", "awaits"}
      BY <1>2, <1>4, <2>3
    <3>2. /\ chain' \in Seq(Operations) /\ DOMAIN chain' = DOMAIN chain
          /\ \A i \in DOMAIN chain : chain'[i].by = chain[i].by /\ chain'[i].kind = chain[i].kind
          /\ \A i \in DOMAIN chain : i # 1 => chain'[i] = chain[i]
      BY <1>1, <3>1, MarkOfChain
    <3>3. \A i \in DOMAIN chain : chain[i].by # None => lane'[chain[i].by] = "waits"
      BY <1>8, <2>3
    <3>4. DrainsAwaited'
      BY <1>1, <3>2, <3>3 DEF DrainsAwaited
    <3>5. chain[1].kind # "request"
      BY <1>1, <1>4, <2>3 DEF RequestsRun
    <3>6. RequestsRun'
      BY <1>1, <3>2, <3>5 DEF RequestsRun
    <3> QED BY <3>2, <3>4, <3>6
  <2> QED BY <2>1, <2>2, <2>3
<1>10. SyncIsOf(sync)'
  BY DEF SyncIsOf
<1> QED BY <1>6, <1>7, <1>9, <1>10

(* Who needs the sync goes to it, past it or to wait for it.               *)
LEMMA NeedyGoes ==
  ASSUME HostAssumption, Places, NEW who \in Lanes \cup {"primary"}, NEW to \in {"cron", "syncs", "awaits"},
         Needy(who), Goes(who, to),
         \/ UNCHANGED sync /\ to # "syncs"
         \/ sync = None /\ sync' # None /\ sync'.by = who /\ to = "syncs"
  PROVE  /\ lane' \in [Lanes -> Stations] /\ chain' \in Seq(Operations)
         /\ Moves /\ DrainsAwaited' /\ RequestsRun' /\ SyncIsOf(sync)'
<1>1. TypeOK /\ DrainsAwaited /\ RequestsRun /\ SyncIsOf(sync)
  BY DEF Places
<1>2. CASE who = "primary"
  <2>1. /\ chain # <<>> /\ Head(chain).kind = "drain" /\ Head(chain).at = "begin"
        /\ chain' = [chain EXCEPT ![1].at = to] /\ lane' = lane
    BY <1>2 DEF Needy, Goes, HostAssumption
  <2>2. 1 \in DOMAIN chain /\ chain[1].kind = "drain" /\ chain[1].at = "begin"
    BY <1>1, <2>1, FirstOfChain
  <2>3. /\ chain' \in Seq(Operations) /\ DOMAIN chain' = DOMAIN chain /\ chain' # <<>> /\ chain'[1].at = to
        /\ \A i \in DOMAIN chain : chain'[i].by = chain[i].by /\ chain'[i].kind = chain[i].kind
        /\ \A i \in DOMAIN chain : i # 1 => chain'[i] = chain[i]
    <3>1. to \in {"cron", "other", "syncs", "awaits"}
      OBVIOUS
    <3> QED BY <1>1, <2>1, <3>1, MarkOfChain
  <2>4. \A i \in DOMAIN chain : chain[i].kind = "request" => chain'[i].at = chain[i].at
    BY <2>2, <2>3
  <2>5. lane' \in [Lanes -> Stations] /\ Moves /\ DrainsAwaited' /\ RequestsRun'
    BY <2>1, <2>3, <2>4, HeadStays
  <2>6. SyncIsOf(sync)'
    <3>1. sync # None => sync.by # "primary"
      BY <1>1, <2>2 DEF SyncIsOf
    <3>2. CASE UNCHANGED sync
      BY <1>1, <2>1, <3>1, <3>2 DEF SyncIsOf
    <3>3. CASE sync' # None /\ sync'.by = who /\ to = "syncs"
      BY <1>2, <2>3, <3>3 DEF SyncIsOf, HostAssumption
    <3> QED BY <3>2, <3>3
  <2> QED BY <2>3, <2>5, <2>6
<1>3. CASE who \in Lanes /\ who # "primary"
  <2>1. lane[who] = "ticks" /\ lane' = [lane EXCEPT ![who] = to] /\ chain' = chain
    BY <1>3 DEF Needy, Goes
  <2>2. lane' \in [Lanes -> Stations] /\ lane'[who] = to /\ \A m \in Lanes : m # who => lane'[m] = lane[m]
    BY <1>1, <1>3, <2>1 DEF TypeOK, Stations
  <2>3. Moves
    BY <2>1, <2>2 DEF Moves, Moved
  <2>4. DrainsAwaited'
    <3>1. ASSUME NEW i \in DOMAIN chain, chain[i].by # None PROVE lane'[chain[i].by] = "waits"
      <4>1. chain[i].by \in Lanes /\ lane[chain[i].by] = "waits"
        BY <1>1, <3>1, WhoseOperation DEF DrainsAwaited
      <4> QED BY <2>1, <2>2, <4>1
    <3> QED BY <1>1, <2>1, <3>1 DEF DrainsAwaited
  <2>5. RequestsRun'
    BY <1>1, <2>1 DEF RequestsRun
  <2>6. SyncIsOf(sync)'
    <3>1. CASE UNCHANGED sync
      BY <1>1, <2>1, <2>2, <3>1 DEF SyncIsOf
    <3>2. CASE sync' # None /\ sync'.by = who /\ to = "syncs"
      BY <1>3, <2>2, <3>2 DEF SyncIsOf
    <3> QED BY <3>1, <3>2
  <2>7. chain' \in Seq(Operations)
    BY <1>1, <2>1 DEF TypeOK
  <2> QED BY <2>2, <2>3, <2>4, <2>5, <2>6, <2>7
<1> QED BY <1>2, <1>3 DEF HostAssumption
-----------------------------------------------------------------------------
LEMMA SyncGoesOn ==
  ASSUME HostAssumption, Fields, NEW name \in Crons,
         SyncSchedule(name) \/ SyncStale(name) \/ SyncTurns
  PROVE  sync \in Syncs /\ sync' \in Syncs /\ sync # None /\ sync' # None
<1>1. sync \in Syncs /\ sync # None
  BY DEF Fields, SyncSchedule, SyncStale, SyncTurns
<1>2. /\ sync.seen \cup {name} \in SUBSET Crons /\ sync.persisted \ {name} \in SUBSET Crons
      /\ sync.by \in Lanes \cup {"primary", "program"} /\ sync.stage \in {"upserts", "deletes"}
  BY <1>1 DEF Syncs
<1>3. sync' \in Syncs
  <2>1. CASE SyncSchedule(name)
    BY <1>1, <1>2, <2>1 DEF SyncSchedule, Syncs
  <2>2. CASE SyncStale(name)
    BY <1>1, <1>2, <2>2 DEF SyncStale, Syncs
  <2>3. CASE SyncTurns
    BY <1>1, <2>3 DEF SyncTurns, Syncs
  <2> QED BY <2>1, <2>2, <2>3
<1> QED BY <1>1, <1>3 DEF HostAssumption

LEMMA NextFields ==
  ASSUME HostAssumption, Fields, Hooks \in Int, Next
  PROVE  Fields'
<1> USE DEF Fields, hostVars, cronVars
<1>1. ASSUME NEW workers \in SUBSET Lanes, NEW serves \in BOOLEAN, Start(workers, serves) PROVE Fields'
  BY <1>1 DEF Start, At, Names
<1>2. CASE StartHook
  BY <1>2 DEF StartHook, At, Names
<1>3. CASE Stop \/ StopHook \/ StopServer \/ StopBus
  <2>1. phase' \in [name : Names, hook : Int]
    BY <1>3 DEF Stop, StopHook, StopServer, StopBus, At, Names
  <2>2. server' \in BOOLEAN /\ bus' \in BOOLEAN /\ stopped' \in BOOLEAN
    BY <1>3 DEF Stop, StopHook, StopServer, StopBus
  <2> QED BY <1>3, <2>1, <2>2 DEF Stop, StopHook, StopServer, StopBus
<1>4. ASSUME NEW l \in Lanes, Tick(l) \/ EndTick(l) \/ WorkerDrain(l) \/ LaneQueue(l) PROVE Fields'
  BY <1>4 DEF Tick, EndTick, WorkerDrain, LaneQueue
<1>5. ASSUME NEW l \in Lanes, LaneCron(l) PROVE Fields'
  <2>1. table' \subseteq table
    BY <1>5 DEF LaneCron, ProcessNextCronSchedule
  <2> QED BY <1>5, <2>1 DEF LaneCron
<1>6. CASE Submit(Request) \/ Submit(Drain(2)) \/ EndRequest
  BY <1>6 DEF Submit, EndRequest
<1>7. ASSUME NEW who \in Lanes \cup {"primary"}, Clean(who) \/ AwaitSync(who) PROVE Fields'
  BY <1>7 DEF Clean, AwaitSync
<1>8. ASSUME NEW who \in Lanes \cup {"primary"}, BeginSync(who) PROVE Fields'
  BY <1>8 DEF BeginSync, Syncs
<1>9. ASSUME NEW name \in Crons, SyncSchedule(name) PROVE Fields'
  BY <1>9, SyncGoesOn DEF SyncSchedule
<1>10. ASSUME NEW name \in Crons, SyncStale(name) PROVE Fields'
  BY <1>10, SyncGoesOn DEF SyncStale
<1>11. ASSUME NEW name \in Crons, RegisterCron(name) PROVE Fields'
  BY <1>11 DEF RegisterCron
<1>12. CASE SyncTurns
  <2>1. sync \in Syncs
    BY <1>12 DEF SyncTurns
  <2> QED BY <1>12, <2>1 DEF SyncTurns, Syncs
<1>13. CASE EndSync
  <2>1. sync \in Syncs
    BY <1>13 DEF EndSync, Synced
  <2>2. CASE dirty
    <3>1. sync' \in Syncs
      BY <1>13, <2>1, <2>2 DEF EndSync, Syncs
    <3> QED BY <1>13, <2>2, <3>1 DEF EndSync
  <2>3. CASE ~dirty
    BY <1>13, <2>3 DEF EndSync
  <2> QED BY <2>2, <2>3
<1>14. CASE SyncFails
  BY <1>14 DEF SyncFails
<1>15. CASE SyncCronSchedules
  <2>1. CASE sync # None
    BY <1>15, <2>1 DEF SyncCronSchedules
  <2>2. CASE sync = None
    <3>1. sync' \in Syncs
      BY <1>15, <2>2 DEF SyncCronSchedules, Syncs
    <3> QED BY <1>15, <2>2, <3>1 DEF SyncCronSchedules
  <2> QED BY <2>1, <2>2
<1>16. CASE Due \/ DrainQueue \/ DrainEnds
  BY <1>16 DEF Due, DrainQueue, DrainEnds
<1>17. CASE DrainCron
  <2>1. table' \subseteq table
    BY <1>17 DEF DrainCron, ProcessNextCronSchedule
  <2> QED BY <1>17, <2>1 DEF DrainCron
<1> QED BY <1>1, <1>2, <1>3, <1>4, <1>5, <1>6, <1>7, <1>8, <1>9, <1>10, <1>11, <1>12, <1>13, <1>14,
           <1>15, <1>16, <1>17 DEF Next

(* What happens to lanes, chain and sync, apart from the start. *)
Goings ==
  /\ lane' \in [Lanes -> Stations] /\ chain' \in Seq(Operations)
  /\ Moves /\ DrainsAwaited' /\ RequestsRun' /\ SyncIsOf(sync)'

LEMMA FoundGoes ==
  ASSUME HostAssumption, Places, Draining, UNCHANGED sync, NEW kind \in {"cron", "queue"}, Found(kind) \/ Missed
  PROVE  Goings
<1>1. TypeOK /\ DrainsAwaited /\ RequestsRun /\ SyncIsOf(sync)
  BY DEF Places
<1>2. chain # <<>> /\ Head(chain) = chain[1] /\ 1 \in DOMAIN chain /\ chain[1] \in Operations
  BY <1>1, FirstOfChain DEF Draining
<1>3. chain[1].kind = "drain" /\ chain[1].at # "syncs"
  BY <1>2 DEF Draining
<1>4. ASSUME NEW to \in {"ticks", "idles"}, Leave(Head(chain), to) PROVE Goings
  <2>1. to \in Stations \ {"off"}
    BY DEF Stations
  <2> QED BY <1>2, <1>3, <1>4, <2>1, HeadLeaves DEF Goings
<1>5. ASSUME NEW op \in Operations, op.by = chain[1].by, op.kind = chain[1].kind,
             chain' = <<op>> \o Tail(chain), UNCHANGED lane
      PROVE  Goings
  <2>1. /\ chain' \in Seq(Operations) /\ DOMAIN chain' = DOMAIN chain
        /\ \A i \in DOMAIN chain : chain'[i] = IF i = 1 THEN op ELSE chain[i]
    BY <1>1, <1>2, <1>5, HeadOfChain
  <2>2. \A i \in DOMAIN chain : chain'[i].by = chain[i].by /\ chain'[i].kind = chain[i].kind
    BY <1>5, <2>1
  <2>3. \A i \in DOMAIN chain : chain[i].kind = "request" => chain'[i].at = chain[i].at
    BY <1>3, <2>1
  <2>4. lane' \in [Lanes -> Stations] /\ Moves /\ DrainsAwaited' /\ RequestsRun'
    BY <1>5, <2>1, <2>2, <2>3, HeadStays
  <2>5. SyncIsOf(sync)'
    BY <1>1, <1>3, <1>5 DEF SyncIsOf
  <2> QED BY <2>1, <2>4, <2>5 DEF Goings
<1>6. CASE Found(kind)
  <2>1. CASE Head(chain).left = 1
    BY <1>4, <1>6, <2>1 DEF Found
  <2>2. CASE Head(chain).left # 1
    <3> DEFINE op == [chain[1] EXCEPT !.left = @ - 1, !.first = Other(kind), !.at = "cron"]
    <3>1. op \in Operations /\ op.by = chain[1].by /\ op.kind = chain[1].kind
      <4>1. chain[1].left - 1 \in Int /\ Other(kind) \in {"cron", "queue"}
        BY <1>2 DEF Operations, Other
      <4> QED BY <1>2, <4>1 DEF Operations
    <3>2. chain' = <<op>> \o Tail(chain) /\ UNCHANGED lane
      BY <1>2, <1>6, <2>2 DEF Found
    <3> HIDE DEF op
    <3> QED BY <1>5, <3>1, <3>2
  <2> QED BY <2>1, <2>2
<1>7. CASE Missed
  <2>1. CASE Head(chain).at = "other"
    BY <1>4, <1>7, <2>1 DEF Missed
  <2>2. CASE Head(chain).at # "other"
    <3> DEFINE op == [chain[1] EXCEPT !.at = "other"]
    <3>1. op \in Operations /\ op.by = chain[1].by /\ op.kind = chain[1].kind
      BY <1>2 DEF Operations
    <3>2. chain' = <<op>> \o Tail(chain) /\ UNCHANGED lane
      BY <1>2, <1>7, <2>2 DEF Missed
    <3> HIDE DEF op
    <3> QED BY <1>5, <3>1, <3>2
  <2> QED BY <2>1, <2>2
<1> QED BY <1>6, <1>7

LEMMA StartGoes ==
  ASSUME HostAssumption, Places, Begins, NEW workers \in SUBSET Lanes, NEW serves \in BOOLEAN,
         Start(workers, serves)
  PROVE  /\ lane' \in [Lanes -> {"ticks", "off"}] /\ chain' = <<>>
         /\ DrainsAwaited' /\ RequestsRun' /\ SyncIsOf(sync)'
<1>1. chain = <<>> /\ chain' = <<>> /\ sync' = sync /\ (sync # None => sync.by = "program")
  BY DEF Start, Begins, cronVars
<1>2. lane' \in [Lanes -> {"ticks", "off"}]
  BY DEF Start
<1>3. SyncIsOf(sync)'
  BY <1>1 DEF SyncIsOf, HostAssumption
<1> QED BY <1>1, <1>2, <1>3 DEF DrainsAwaited, RequestsRun

LEMMA NextGoes ==
  ASSUME HostAssumption, Places, Next
  PROVE  (\E workers \in SUBSET Lanes, serves \in BOOLEAN : Start(workers, serves)) \/ Goings
<1>1. TypeOK /\ DrainsAwaited /\ RequestsRun /\ SyncIsOf(sync)
  BY DEF Places
<1>2. ASSUME UNCHANGED <<lane, chain, sync>> PROVE Goings
  BY <1>2, PlacesStay DEF Goings
<1>3. ASSUME NEW l \in Lanes, NEW to \in {"idle", "ticks", "fails", "idles", "queue", "more"},
             lane[l] \notin {"off", "waits", "syncs"}, stopped => lane[l] # "idle",
             lane' = [lane EXCEPT ![l] = to], UNCHANGED <<chain, sync>>
      PROVE  Goings
  <2>1. to \in Stations \ {"off"}
    BY DEF Stations
  <2>2. /\ lane[l] \notin {"off", "waits", "syncs"} /\ (stopped => lane[l] # "idle")
        /\ lane' = [lane EXCEPT ![l] = to] /\ UNCHANGED <<chain, sync>>
    BY <1>3
  <2>3. lane' \in [Lanes -> Stations] /\ Moves /\ DrainsAwaited' /\ RequestsRun' /\ SyncIsOf(sync)'
    BY <2>1, <2>2, LaneMoves
  <2>4. chain' \in Seq(Operations)
    BY <1>1, <2>2 DEF TypeOK
  <2> QED BY <2>3, <2>4 DEF Goings
<1>4. CASE StartHook \/ Stop \/ StopHook \/ StopServer \/ StopBus \/ Due
  BY <1>2, <1>4 DEF StartHook, Stop, StopHook, StopServer, StopBus, Due, cronVars
<1>5. ASSUME NEW l \in Lanes, Tick(l) PROVE Goings
  BY <1>3, <1>5 DEF Tick, cronVars
<1>6. ASSUME NEW l \in Lanes, EndTick(l) PROVE Goings
  BY <1>3, <1>6 DEF EndTick, cronVars
<1>7. ASSUME NEW l \in Lanes, WorkerDrain(l) PROVE Goings
  <2> DEFINE op == [kind |-> "drain", by |-> l, left |-> 1, first |-> "cron", at |-> "begin"]
  <2>1. op \in Operations /\ op.kind = "drain" /\ op.by = l
    BY DEF Operations
  <2>2. /\ chain' = Append(chain, op) /\ lane[l] = "ticks" /\ UNCHANGED sync
        /\ lane' = [lane EXCEPT ![l] = "waits"]
    BY <1>7 DEF WorkerDrain, cronVars
  <2>3. l # None
    BY DEF HostAssumption
  <2> HIDE DEF op
  <2> QED BY <2>1, <2>2, <2>3, OperationComes DEF Goings
<1>8. ASSUME NEW l \in Lanes, LaneCron(l) PROVE Goings
  <2>1. /\ lane[l] = "cron" /\ UNCHANGED <<chain, sync>>
        /\ \E to \in {"more", "queue", "fails"} : lane' = [lane EXCEPT ![l] = to]
    BY <1>8 DEF LaneCron
  <2> QED BY <1>3, <2>1
<1>9. ASSUME NEW l \in Lanes, LaneQueue(l) PROVE Goings
  <2>1. /\ lane[l] \in {"queue", "more"} /\ UNCHANGED <<chain, sync>>
        /\ \E to \in {"ticks", "idles", "fails"} : lane' = [lane EXCEPT ![l] = to]
    <3>1. lane[l] \in {"queue", "more"} /\ UNCHANGED <<chain, sync>>
      BY <1>9 DEF LaneQueue, cronVars
    <3>2. \/ lane' = [lane EXCEPT ![l] = "ticks"]
          \/ lane' = [lane EXCEPT ![l] = "fails"]
          \/ lane' = [lane EXCEPT ![l] = IF @ = "more" THEN "ticks" ELSE "idles"]
      BY <1>9 DEF LaneQueue
    <3>3. CASE lane' = [lane EXCEPT ![l] = IF @ = "more" THEN "ticks" ELSE "idles"]
      <4>1. CASE lane[l] = "more"
        BY <3>1, <3>3, <4>1
      <4>2. CASE lane[l] # "more"
        BY <3>1, <3>3, <4>2
      <4> QED BY <4>1, <4>2
    <3> QED BY <3>1, <3>2, <3>3
  <2> QED BY <1>3, <2>1
<1>10. ASSUME NEW op \in {Request, Drain(2)}, Submit(op) PROVE Goings
  <2>1. op \in Operations /\ op.by = None /\ (op.kind = "request" => op.at = "runs")
    BY DEF Operations, Request, Drain
  <2>2. chain' = Append(chain, op) /\ UNCHANGED <<lane, sync>>
    BY <1>10 DEF Submit, cronVars
  <2> QED BY <2>1, <2>2, OperationComes DEF Goings
<1>11. CASE EndRequest
  <2>1. chain # <<>> /\ Head(chain).kind = "request" /\ Leave(Head(chain), None) /\ UNCHANGED sync
    BY <1>11 DEF EndRequest, cronVars
  <2>2. chain[1].by = None /\ chain[1].at # "syncs"
    BY <1>1, <2>1, FirstOfChain DEF RequestsRun
  <2> QED BY <2>1, <2>2, HeadLeaves DEF Goings
<1>12. ASSUME NEW who \in Lanes \cup {"primary"}, Clean(who) \/ AwaitSync(who) PROVE Goings
  <2>1. Needy(who) /\ UNCHANGED sync /\ \E to \in {"cron", "awaits"} : Goes(who, to)
    BY <1>12 DEF Clean, AwaitSync, cronVars
  <2>2. PICK to \in {"cron", "awaits"} : Goes(who, to)
    BY <2>1
  <2>3. to \in {"cron", "syncs", "awaits"} /\ to # "syncs"
    OBVIOUS
  <2> QED BY <2>1, <2>2, <2>3, NeedyGoes DEF Goings
<1>13. ASSUME NEW who \in Lanes \cup {"primary"}, BeginSync(who) PROVE Goings
  <2>1. Needy(who) /\ sync = None /\ Goes(who, "syncs")
    BY <1>13 DEF BeginSync
  <2>2. sync' \in Syncs /\ sync'.by = who
    BY <1>1, <1>13 DEF BeginSync, Syncs, TypeOK, Fields
  <2>3. sync' # None
    BY <2>2 DEF HostAssumption
  <2> QED BY <2>1, <2>2, <2>3, NeedyGoes DEF Goings
<1>14. ASSUME NEW name \in Crons, SyncSchedule(name) \/ SyncStale(name) PROVE Goings
  <2>1. sync \in Syncs /\ sync # None /\ UNCHANGED <<lane, chain>>
    BY <1>1, <1>14 DEF SyncSchedule, SyncStale, TypeOK, Fields
  <2>2. sync'.by = sync.by
    BY <1>14, <2>1 DEF SyncSchedule, SyncStale, Syncs
  <2> QED BY <2>1, <2>2, PlacesStay DEF Goings
<1>15. CASE SyncTurns
  <2>1. sync \in Syncs /\ sync # None /\ UNCHANGED <<lane, chain>>
    BY <1>1, <1>15 DEF SyncTurns, TypeOK, Fields
  <2>2. sync'.by = sync.by
    BY <1>15, <2>1 DEF SyncTurns, Syncs
  <2> QED BY <2>1, <2>2, PlacesStay DEF Goings
<1>16. CASE EndSync
  <2>1. sync \in Syncs /\ sync # None
    BY <1>1, <1>16 DEF EndSync, Synced, TypeOK, Fields
  <2>2. CASE dirty
    <3>1. sync'.by = sync.by /\ UNCHANGED <<lane, chain>>
      BY <1>16, <2>1, <2>2 DEF EndSync, Syncs
    <3> QED BY <2>1, <3>1, PlacesStay DEF Goings
  <2>3. CASE ~dirty
    <3>1. sync' = None /\ Release("cron", "cron")
      BY <1>16, <2>3 DEF EndSync
    <3> QED BY <2>1, <3>1, ReleaseFrees DEF Goings
  <2> QED BY <2>2, <2>3
<1>17. CASE SyncFails
  BY <1>17, ReleaseFrees DEF SyncFails, Goings
<1>18. CASE SyncCronSchedules
  <2>1. UNCHANGED <<lane, chain>>
    BY <1>18 DEF SyncCronSchedules
  <2>2. CASE sync # None
    BY <1>18, <2>1, <2>2, PlacesStay DEF SyncCronSchedules, Goings
  <2>3. CASE sync = None
    <3>1. sync'.by = "program"
      BY <1>18, <2>3 DEF SyncCronSchedules
    <3>2. sync'.by \notin Lanes \cup {"primary"}
      BY <3>1 DEF HostAssumption
    <3> QED BY <2>1, <3>2, PlacesStay DEF Goings
  <2> QED BY <2>2, <2>3
<1>19. ASSUME NEW name \in Crons, RegisterCron(name) PROVE Goings
  BY <1>2, <1>19 DEF RegisterCron
<1>20. CASE DrainCron
  <2>1. Draining /\ UNCHANGED sync /\ (Found("cron") \/ Missed)
    BY <1>20 DEF DrainCron, Tries
  <2> QED BY <2>1, FoundGoes
<1>21. CASE DrainQueue
  <2>1. Draining /\ UNCHANGED sync /\ (Found("queue") \/ Missed)
    BY <1>21 DEF DrainQueue, Tries, cronVars
  <2> QED BY <2>1, FoundGoes
<1>22. CASE DrainEnds
  <2>1. Draining /\ chain # <<>> /\ UNCHANGED sync /\ \E to \in {"ticks", "fails"} : Leave(Head(chain), to)
    BY <1>22 DEF DrainEnds, Draining, cronVars
  <2>2. PICK to \in {"ticks", "fails"} : Leave(Head(chain), to)
    BY <2>1
  <2>3. to \in Stations \ {"off"} /\ chain[1].at # "syncs"
    BY <1>1, <2>1, FirstOfChain DEF Draining, Stations
  <2> QED BY <2>1, <2>2, <2>3, HeadLeaves DEF Goings
<1> QED BY <1>4, <1>5, <1>6, <1>7, <1>8, <1>9, <1>10, <1>11, <1>12, <1>13, <1>14, <1>15, <1>16, <1>17,
           <1>18, <1>19, <1>20, <1>21, <1>22 DEF Next
-----------------------------------------------------------------------------
HostStep == StartHook \/ Stop \/ StopHook \/ StopServer \/ StopBus

LEMMA HostSteps ==
  ASSUME Next
  PROVE  \/ \E workers \in SUBSET Lanes, serves \in BOOLEAN : Start(workers, serves)
         \/ HostStep /\ UNCHANGED <<lanesOn, lane, chain, registry, laneCrons, table, dirty, sync>>
         \/ UNCHANGED <<lanesOn, phase, bus, stopped, laneCrons>>
<1> DEFINE Rest == UNCHANGED <<lanesOn, phase, bus, stopped, laneCrons>>
<1>1. CASE HostStep
  BY <1>1 DEF HostStep, StartHook, Stop, StopHook, StopServer, StopBus, cronVars
<1>2. ASSUME NEW l \in Lanes, Tick(l) \/ EndTick(l) \/ WorkerDrain(l) \/ LaneCron(l) \/ LaneQueue(l) PROVE Rest
  BY <1>2 DEF Tick, EndTick, WorkerDrain, LaneCron, LaneQueue, hostVars
<1>3. CASE Submit(Request) \/ Submit(Drain(2)) \/ EndRequest
  BY <1>3 DEF Submit, EndRequest, hostVars
<1>4. ASSUME NEW who \in Lanes \cup {"primary"}, Clean(who) \/ BeginSync(who) \/ AwaitSync(who) PROVE Rest
  BY <1>4 DEF Clean, BeginSync, AwaitSync, hostVars
<1>5. ASSUME NEW name \in Crons, SyncSchedule(name) \/ SyncStale(name) \/ RegisterCron(name) PROVE Rest
  BY <1>5 DEF SyncSchedule, SyncStale, RegisterCron, hostVars
<1>6. CASE SyncTurns \/ EndSync \/ SyncFails \/ Due \/ SyncCronSchedules
  BY <1>6 DEF SyncTurns, EndSync, SyncFails, Due, SyncCronSchedules, hostVars
<1>7. CASE DrainCron \/ DrainQueue \/ DrainEnds
  BY <1>7 DEF DrainCron, DrainQueue, DrainEnds, hostVars
<1>8. CASE HostStep \/ \E workers \in SUBSET Lanes, serves \in BOOLEAN : Start(workers, serves)
  BY <1>1, <1>8
<1> QED BY <1>2, <1>3, <1>4, <1>5, <1>6, <1>7, <1>8 DEF Next, HostStep

(* Before the start the chain stays empty, and nobody but the program syncs. *)
LEMMA NothingBegins ==
  ASSUME HostAssumption, Places, Begins, phase.name = "new", phase' = phase, Next
  PROVE  chain' = <<>> /\ (sync' # None => sync'.by = "program")
<1>1. /\ chain = <<>> /\ \A l \in Lanes : lane[l] = "off"
      /\ sync # None => sync.by = "program"
  BY DEF Begins
<1>2. TypeOK /\ sync \in Syncs \cup {None}
  BY DEF Places, TypeOK, Fields
<1>3. ~Draining /\ \A who \in Lanes \cup {"primary"} : ~Needy(who)
  BY <1>1 DEF Draining, Needy
<1>4. ASSUME UNCHANGED <<chain, sync>> PROVE chain' = <<>> /\ (sync' # None => sync'.by = "program")
  BY <1>1, <1>4
<1>5. ASSUME NEW workers \in SUBSET Lanes, NEW serves \in BOOLEAN, Start(workers, serves) PROVE FALSE
  BY <1>5 DEF Start, At
<1>6. CASE HostStep
  BY <1>4, <1>6 DEF HostStep, StartHook, Stop, StopHook, StopServer, StopBus, cronVars
<1>7. ASSUME NEW l \in Lanes, Tick(l) \/ EndTick(l) \/ WorkerDrain(l) \/ LaneCron(l) \/ LaneQueue(l) PROVE FALSE
  BY <1>1, <1>7 DEF Tick, EndTick, WorkerDrain, LaneCron, LaneQueue
<1>8. CASE Submit(Request) \/ Submit(Drain(2)) \/ EndRequest
  BY <1>1, <1>8 DEF Submit, EndRequest
<1>9. ASSUME NEW who \in Lanes \cup {"primary"}, Clean(who) \/ BeginSync(who) \/ AwaitSync(who) PROVE FALSE
  BY <1>3, <1>9 DEF Clean, BeginSync, AwaitSync
<1>10. CASE SyncTurns \/ \E name \in Crons : SyncSchedule(name) \/ SyncStale(name)
  <2>1. sync \in Syncs /\ sync # None /\ chain' = chain
    BY <1>2, <1>10 DEF SyncTurns, SyncSchedule, SyncStale
  <2>2. sync'.by = sync.by
    BY <1>10, <2>1 DEF SyncTurns, SyncSchedule, SyncStale, Syncs
  <2> QED BY <1>1, <2>1, <2>2
<1>11. CASE EndSync \/ SyncFails
  <2>1. sync \in Syncs /\ sync # None
    BY <1>2, <1>11 DEF EndSync, Synced, SyncFails
  <2>2. ASSUME NEW to \in {"cron", "fails"}, Release(to, to) PROVE chain' = chain
    <3>1. ~("primary" = sync.by \/ Waiting("primary"))
      BY <1>1, <2>1 DEF Waiting
    <3> QED BY <2>2, <3>1 DEF Release
  <2>3. sync' = None \/ sync'.by = sync.by
    BY <1>11, <2>1 DEF EndSync, SyncFails, Syncs
  <2>4. chain' = chain
    BY <1>11, <2>2 DEF EndSync, SyncFails
  <2> QED BY <1>1, <2>1, <2>3, <2>4
<1>12. CASE SyncCronSchedules
  <2>1. chain' = chain /\ (sync' = sync \/ sync'.by = "program")
    BY <1>12 DEF SyncCronSchedules
  <2> QED BY <1>1, <2>1
<1>13. CASE Due \/ \E name \in Crons : RegisterCron(name)
  BY <1>4, <1>13 DEF Due, RegisterCron, cronVars
<1>14. CASE DrainCron \/ DrainQueue \/ DrainEnds
  BY <1>3, <1>14 DEF DrainCron, DrainQueue, DrainEnds, Tries
<1> QED BY <1>5, <1>6, <1>7, <1>8, <1>9, <1>10, <1>11, <1>12, <1>13, <1>14 DEF Next, HostStep

LEMMA BusNext ==
  ASSUME HostAssumption, Places, Begins, Ends, Next
  PROVE  Begins' /\ Ends'
<1>1. TypeOK /\ phase \in [name : Names, hook : Int]
  BY DEF Places, TypeOK, Fields
<1>2. ASSUME NEW workers \in SUBSET Lanes, NEW serves \in BOOLEAN, Start(workers, serves)
      PROVE  Begins' /\ Ends'
  <2>1. phase'.name = "starting" /\ bus'
    BY <1>2 DEF Start, At
  <2> QED BY <2>1 DEF Begins, Ends
<1>3. ASSUME HostStep, UNCHANGED <<lanesOn, lane, chain, registry, laneCrons, table, dirty, sync>>
      PROVE  Begins' /\ Ends'
  <2>1. phase.name # "new" /\ phase'.name # "new"
    BY <1>3 DEF HostStep, StartHook, Stop, StopHook, StopServer, StopBus, WorkerStopped, At
  <2>2. CASE StartHook \/ Stop \/ StopHook
    <3>1. UNCHANGED <<bus, stopped>> /\ phase.name # "stopped" /\ phase'.name \notin {"closed", "stopped"}
      BY <2>2 DEF StartHook, Stop, StopHook, At
    <3> QED BY <2>1, <3>1 DEF Begins, Ends
  <2>3. CASE StopServer
    <3>1. bus' = bus /\ stopped' /\ phase.name # "stopped" /\ phase'.name = "closed"
      BY <2>3 DEF StopServer, At
    <3> QED BY <2>1, <3>1 DEF Begins, Ends
  <2>4. CASE StopBus
    <3>1. stopped' = stopped /\ phase.name = "closed" /\ phase'.name = "stopped" /\ Resting
      BY <2>4 DEF StopBus, WorkerStopped, At
    <3> QED BY <1>3, <2>1, <3>1 DEF Begins, Ends, Resting
  <2> QED BY <1>3, <2>2, <2>3, <2>4 DEF HostStep
<1>4. ASSUME Goings, UNCHANGED <<lanesOn, phase, bus, stopped, laneCrons>>
      PROVE  Begins' /\ Ends'
  <2>1. Begins'
    <3> SUFFICES ASSUME phase'.name = "new" PROVE Begins'
      BY DEF Begins
    <3>1. phase.name = "new" /\ ~bus' /\ \A l \in Lanes : lane[l] = "off"
      BY <1>4 DEF Begins
    <3>2. \A l \in Lanes : lane'[l] = "off"
      BY <1>4, <3>1 DEF Goings, Moves, Moved
    <3>3. chain' = <<>> /\ (sync' # None => sync'.by = "program")
      BY <1>4, <3>1, NothingBegins
    <3> QED BY <3>1, <3>2, <3>3 DEF Begins
  <2>2. stopped /\ Resting => Resting'
    BY <1>4 DEF Goings, Moves, Moved, Resting
  <2>3. Ends'
    BY <1>4, <2>2 DEF Ends
  <2> QED BY <2>1, <2>3
<1>5. Goings \/ \E workers \in SUBSET Lanes, serves \in BOOLEAN : Start(workers, serves)
  BY NextGoes
<1> QED BY <1>2, <1>3, <1>4, <1>5, HostSteps
-----------------------------------------------------------------------------
(* What the workers know is what was registered at the start, or, without  *)
(* lanes, all that is.  It changes with a registration only.               *)
LEMMA KnownIsRegistered == ASSUME TypeOK PROVE KnownToWorkers \subseteq registry
BY DEF TypeOK, Fields, KnownToWorkers

LEMMA KnownStays ==
  ASSUME TypeOK, Moves, lane' \in [Lanes -> Stations], UNCHANGED <<lanesOn, laneCrons, registry>>
  PROVE  KnownToWorkers' = KnownToWorkers
<1>1. \A l \in Lanes : lane'[l] = "off" <=> lane[l] = "off"
  BY DEF Moves, Moved
<1>2. (\E l \in Lanes : lanesOn /\ lane[l] # "off") <=> \E l \in Lanes : lanesOn' /\ lane'[l] # "off"
  BY <1>1
<1> QED BY <1>2 DEF KnownToWorkers

LEMMA KnownAtStart ==
  ASSUME TypeOK, Begins, NEW workers \in SUBSET Lanes, NEW serves \in BOOLEAN, Start(workers, serves)
  PROVE  KnownToWorkers' = KnownToWorkers /\ registry' = registry
<1>1. \A l \in Lanes : lane[l] = "off"
  BY DEF Start, Begins
<1>2. KnownToWorkers = registry
  BY <1>1 DEF KnownToWorkers
<1>3. registry' = registry /\ laneCrons' = IF workers = {} THEN {} ELSE registry
  BY DEF Start, cronVars
<1>4. KnownToWorkers' = registry
  <2>1. CASE workers = {}
    <3>1. \A l \in Lanes : lane'[l] = "off"
      BY <2>1 DEF Start
    <3> QED BY <1>3, <3>1 DEF KnownToWorkers
  <2>2. CASE workers # {}
    BY <1>3, <2>2 DEF KnownToWorkers
  <2> QED BY <2>1, <2>2
<1> QED BY <1>2, <1>3, <1>4

(* A claimed schedule whose row is deleted is none that the workers know.  *)
LEMMA KnownAreKept ==
  ASSUME SyncHonest, KnownToWorkers' = KnownToWorkers, UNCHANGED <<dirty, sync>>,
         table' \subseteq table, \A name \in table \ table' : name \notin KnownToWorkers
  PROVE  SyncHonest'
BY DEF SyncHonest

LEMMA SyncNext ==
  ASSUME HostAssumption, Places, Begins, SyncHonest, Next
  PROVE  SyncHonest'
<1>1. TypeOK /\ sync \in Syncs \cup {None}
  BY DEF Places, TypeOK, Fields
<1>2. ASSUME NEW workers \in SUBSET Lanes, NEW serves \in BOOLEAN, Start(workers, serves)
      PROVE  SyncHonest'
  <2>1. UNCHANGED <<table, dirty, sync>> /\ KnownToWorkers' = KnownToWorkers
    BY <1>1, <1>2, KnownAtStart DEF Start, cronVars
  <2> QED BY <2>1 DEF SyncHonest
<1>3. ASSUME HostStep, UNCHANGED <<lanesOn, lane, chain, registry, laneCrons, table, dirty, sync>>
      PROVE  SyncHonest'
  BY <1>3 DEF SyncHonest, KnownToWorkers
<1>4. ASSUME Goings, UNCHANGED <<lanesOn, phase, bus, stopped, laneCrons>>
      PROVE  SyncHonest'
  <2>1. ASSUME UNCHANGED registry PROVE KnownToWorkers' = KnownToWorkers
    BY <1>1, <1>4, <2>1, KnownStays DEF Goings
  <2>2. ASSUME UNCHANGED <<registry, table, dirty, sync>> PROVE SyncHonest'
    BY <2>1, <2>2 DEF SyncHonest
  <2>3. ASSUME NEW workers \in SUBSET Lanes, NEW serves \in BOOLEAN, Start(workers, serves) PROVE SyncHonest'
    BY <1>2, <2>3
  <2>4. CASE StartHook \/ Stop \/ StopHook \/ StopServer \/ StopBus \/ Due
    BY <2>2, <2>4 DEF StartHook, Stop, StopHook, StopServer, StopBus, Due, cronVars
  <2>5. ASSUME NEW l \in Lanes, Tick(l) \/ EndTick(l) \/ WorkerDrain(l) \/ LaneQueue(l) PROVE SyncHonest'
    BY <2>2, <2>5 DEF Tick, EndTick, WorkerDrain, LaneQueue, cronVars
  <2>6. ASSUME NEW l \in Lanes, LaneCron(l) PROVE SyncHonest'
    <3>1. lanesOn /\ lane[l] # "off" /\ UNCHANGED <<registry, dirty, sync>>
      BY <2>6 DEF LaneCron
    <3>2. KnownToWorkers = laneCrons
      BY <3>1 DEF KnownToWorkers
    <3>3. table' \subseteq table /\ \A name \in table \ table' : name \notin laneCrons
      BY <2>6 DEF LaneCron, ProcessNextCronSchedule
    <3> QED BY <2>1, <3>1, <3>2, <3>3, KnownAreKept
  <2>7. CASE Submit(Request) \/ Submit(Drain(2)) \/ EndRequest
    BY <2>2, <2>7 DEF Submit, EndRequest, cronVars
  <2>8. ASSUME NEW who \in Lanes \cup {"primary"}, Clean(who) \/ AwaitSync(who) PROVE SyncHonest'
    BY <2>2, <2>8 DEF Clean, AwaitSync, cronVars
  (* A sync begins with the rows that are there. *)
  <2>9. ASSUME sync' \in Syncs, sync'.persisted = table, sync'.seen = {}, sync'.stage = "upserts",
               UNCHANGED <<registry, table>>
        PROVE  SyncHonest'
    <3>1. sync' # None
      BY <2>9 DEF HostAssumption
    <3> QED BY <2>9, <3>1 DEF SyncHonest
  <2>10. ASSUME NEW who \in Lanes \cup {"primary"}, BeginSync(who) PROVE SyncHonest'
    <3>1. /\ UNCHANGED <<registry, table>>
          /\ sync' = [by |-> who, stage |-> "upserts", persisted |-> table, seen |-> {}]
      BY <2>10 DEF BeginSync
    <3>2. sync' \in Syncs
      BY <1>1, <3>1 DEF Syncs, TypeOK, Fields
    <3> QED BY <2>9, <3>1, <3>2
  <2>11. ASSUME NEW name \in Crons, SyncSchedule(name) PROVE SyncHonest'
    <3>1. /\ sync \in Syncs /\ sync # None /\ sync.stage = "upserts" /\ UNCHANGED <<registry, dirty>>
          /\ sync' = [sync EXCEPT !.seen = @ \cup {name}, !.persisted = @ \ {name}]
          /\ table' = IF name \in sync.persisted THEN table ELSE table \cup {name}
      BY <1>1, <2>11 DEF SyncSchedule
    <3>2. /\ sync'.seen = sync.seen \cup {name} /\ sync'.persisted = sync.persisted \ {name}
          /\ sync'.stage = "upserts"
      BY <3>1 DEF Syncs
    <3>3. sync' # None
      BY <1>1, <2>11, SyncGoesOn DEF TypeOK
    <3> SUFFICES ASSUME ~dirty
                 PROVE  /\ KnownToWorkers \cap (sync'.seen \cup sync'.persisted) \subseteq table'
                        /\ sync'.seen \cap sync'.persisted = {}
      BY <2>1, <3>1, <3>2, <3>3 DEF SyncHonest
    <3>4. /\ KnownToWorkers \cap (sync.seen \cup sync.persisted) \subseteq table
          /\ sync.seen \cap sync.persisted = {}
      BY <3>1 DEF SyncHonest
    <3> QED BY <3>1, <3>2, <3>4
  <2>12. ASSUME NEW name \in Crons, SyncStale(name) PROVE SyncHonest'
    <3>1. /\ sync \in Syncs /\ sync # None /\ sync.stage = "deletes" /\ UNCHANGED <<registry, dirty>>
          /\ sync' = [sync EXCEPT !.persisted = @ \ {name}] /\ name \in sync.persisted
          /\ table' = table \ {name}
      BY <1>1, <2>12 DEF SyncStale
    <3>2. sync'.seen = sync.seen /\ sync'.persisted = sync.persisted \ {name} /\ sync'.stage = "deletes"
      BY <3>1 DEF Syncs
    <3>3. sync' # None
      BY <1>1, <2>12, SyncGoesOn DEF TypeOK
    <3> SUFFICES ASSUME ~dirty
                 PROVE  /\ KnownToWorkers \cap (sync'.seen \cup sync'.persisted) \subseteq table'
                        /\ sync'.seen \cap sync'.persisted = {} /\ KnownToWorkers \subseteq sync'.seen
      BY <2>1, <3>1, <3>2, <3>3 DEF SyncHonest
    <3>4. /\ KnownToWorkers \cap (sync.seen \cup sync.persisted) \subseteq table
          /\ sync.seen \cap sync.persisted = {} /\ KnownToWorkers \subseteq sync.seen
      BY <3>1 DEF SyncHonest
    <3> QED BY <3>1, <3>2, <3>4
  <2>13. CASE SyncTurns
    <3>1. /\ sync \in Syncs /\ sync # None /\ UNCHANGED <<registry, table, dirty>> /\ registry \subseteq sync.seen
          /\ sync' = [sync EXCEPT !.stage = "deletes"]
      BY <1>1, <2>13 DEF SyncTurns
    <3>2. sync'.seen = sync.seen /\ sync'.persisted = sync.persisted /\ sync' # None
      <4>1. sync' \in Syncs
        BY <3>1 DEF Syncs
      <4> QED BY <3>1, <4>1 DEF Syncs, HostAssumption
    <3>3. KnownToWorkers \subseteq sync.seen
      BY <1>1, <3>1, KnownIsRegistered
    <3> QED BY <2>1, <3>1, <3>2, <3>3 DEF SyncHonest
  <2>14. CASE EndSync
    <3>1. sync \in Syncs /\ sync # None /\ sync.stage = "deletes" /\ sync.persisted = {} /\ UNCHANGED <<registry, table>>
      BY <1>1, <2>14 DEF EndSync, Synced
    <3>2. CASE dirty
      <4>1. sync' = [sync EXCEPT !.stage = "upserts", !.persisted = table, !.seen = {}]
        BY <2>14, <3>2 DEF EndSync
      <4>2. /\ sync' \in Syncs /\ sync'.persisted = table /\ sync'.seen = {} /\ sync'.stage = "upserts"
        BY <1>1, <3>1, <4>1 DEF Syncs, TypeOK, Fields
      <4> QED BY <2>9, <3>1, <4>2
    <3>3. CASE ~dirty
      <4>1. sync' = None /\ KnownToWorkers' = KnownToWorkers
        BY <2>1, <2>14, <3>1, <3>3 DEF EndSync
      <4>2. KnownToWorkers \subseteq table
        BY <3>1, <3>3 DEF SyncHonest
      <4> QED BY <3>1, <4>1, <4>2 DEF SyncHonest
    <3> QED BY <3>2, <3>3
  <2>15. CASE SyncFails \/ \E name \in Crons : RegisterCron(name)
    BY <2>15 DEF SyncFails, RegisterCron, SyncHonest
  <2>16. CASE SyncCronSchedules
    <3>1. CASE sync # None
      BY <2>16, <3>1 DEF SyncCronSchedules, SyncHonest
    <3>2. CASE sync = None
      <4>1. /\ UNCHANGED <<registry, table>>
            /\ sync' = [by |-> "program", stage |-> "upserts", persisted |-> table, seen |-> {}]
        BY <2>16, <3>2 DEF SyncCronSchedules
      <4>2. sync' \in Syncs
        BY <1>1, <4>1 DEF Syncs, TypeOK, Fields
      <4> QED BY <2>9, <4>1, <4>2
    <3> QED BY <3>1, <3>2
  <2>17. CASE DrainCron
    <3>1. /\ UNCHANGED <<registry, dirty, sync>>
          /\ table' \subseteq table /\ \A name \in table \ table' : name \notin registry
      BY <2>17 DEF DrainCron, ProcessNextCronSchedule
    <3> QED BY <1>1, <2>1, <3>1, KnownAreKept, KnownIsRegistered
  <2>18. CASE DrainQueue \/ DrainEnds
    BY <2>2, <2>18 DEF DrainQueue, DrainEnds, cronVars
  <2> QED BY <2>3, <2>4, <2>5, <2>6, <2>7, <2>8, <2>10, <2>11, <2>12, <2>13, <2>14, <2>15, <2>16, <2>17,
             <2>18 DEF Next
<1>5. Goings \/ \E workers \in SUBSET Lanes, serves \in BOOLEAN : Start(workers, serves)
  BY NextGoes
<1> QED BY <1>2, <1>3, <1>4, <1>5, HostSteps
-----------------------------------------------------------------------------
LEMMA HostInit == HostAssumption /\ Init => HostInv
<1> SUFFICES ASSUME HostAssumption, Init PROVE HostInv
  OBVIOUS
<1>1. Fields
  <2>1. phase \in [name : Names, hook : Int]
    BY DEF Init, At, Names
  <2>2. laneCrons = {} /\ sync = None /\ registry \subseteq Crons /\ table \subseteq Crons
    BY DEF Init
  <2>3. server \in BOOLEAN /\ bus \in BOOLEAN /\ stopped \in BOOLEAN /\ dirty \in BOOLEAN /\ lanesOn \in BOOLEAN
    BY DEF Init
  <2> QED BY <2>1, <2>2, <2>3 DEF Fields
<1>2. lane \in [Lanes -> Stations] /\ chain = <<>> /\ \A l \in Lanes : lane[l] = "off"
  BY DEF Init, Stations
<1>3. Places
  <2>1. chain \in Seq(Operations)
    BY <1>2
  <2>2. sync = None
    BY DEF Init
  <2> QED BY <1>1, <1>2, <2>1, <2>2 DEF Places, TypeOK, DrainsAwaited, RequestsRun, SyncIsOf
<1>4. Begins
  BY <1>2 DEF Init, Begins
<1>5. Ends
  BY DEF Init, Ends, At
<1>6. SyncHonest
  BY DEF Init, SyncHonest
<1> QED BY <1>3, <1>4, <1>5, <1>6 DEF HostInv

LEMMA HostNext == HostAssumption /\ Hooks \in Int /\ HostInv /\ [Next]_vars => HostInv'
<1> SUFFICES ASSUME HostAssumption, Hooks \in Int, HostInv, [Next]_vars PROVE HostInv'
  OBVIOUS
<1>1. CASE Next
  <2>1. Places /\ Begins /\ Ends /\ SyncHonest /\ Fields
    BY DEF HostInv, Places, TypeOK
  <2>2. Fields'
    BY <1>1, <2>1, NextFields
  <2>3. Places'
    <3>1. CASE Goings
      BY <2>2, <3>1 DEF Goings, Places, TypeOK
    <3>2. ASSUME NEW workers \in SUBSET Lanes, NEW serves \in BOOLEAN, Start(workers, serves) PROVE Places'
      <4>1. /\ lane' \in [Lanes -> {"ticks", "off"}] /\ chain' = <<>>
            /\ DrainsAwaited' /\ RequestsRun' /\ SyncIsOf(sync)'
        BY <2>1, <3>2, StartGoes
      <4>2. lane' \in [Lanes -> Stations] /\ chain' \in Seq(Operations)
        BY <4>1 DEF Stations
      <4> QED BY <2>2, <4>1, <4>2 DEF Places, TypeOK
    <3> QED BY <1>1, <2>1, <3>1, <3>2, NextGoes
  <2>4. Begins' /\ Ends'
    BY <1>1, <2>1, BusNext
  <2>5. SyncHonest'
    BY <1>1, <2>1, SyncNext
  <2> QED BY <2>3, <2>4, <2>5 DEF HostInv
<1>2. CASE UNCHANGED vars
  BY <1>2 DEF vars, HostInv, Places, TypeOK, Fields, DrainsAwaited, RequestsRun, SyncIsOf, Begins, Ends, Resting,
              SyncHonest, KnownToWorkers
<1> QED BY <1>1, <1>2

LEMMA HostAlways == ASSUME HostAssumption, Hooks \in Int PROVE Spec => []HostInv
<1>1. Init => HostInv
  BY HostInit
<1>2. HostInv /\ [Next]_vars => HostInv'
  BY HostNext
<1> QED BY <1>1, <1>2, PTL DEF Spec

(***************************************************************************)
(* While a lane works the event bus is on; and once the bus is off, none   *)
(* works or will: stop clears the worker's flag and waits for the ticks    *)
(* before it stops the bus, a drain in the primary engine's chain keeps    *)
(* its lane waiting, and a tick that finds the flag down does nothing.     *)
(***************************************************************************)
THEOREM BusStopsLast ==
  ASSUME HostAssumption, Hooks \in Int PROVE Spec => []BusOutlivesLanes
<1>1. HostInv => BusOutlivesLanes
  <2> SUFFICES ASSUME HostInv, ~bus PROVE Resting
    BY DEF BusOutlivesLanes
  <2>1. phase.name \in {"new", "stopped"}
    BY DEF HostInv, Ends
  <2>2. CASE phase.name = "new"
    BY <2>2 DEF HostInv, Begins, Resting
  <2>3. CASE phase.name = "stopped"
    BY <2>3 DEF HostInv, Ends
  <2> QED BY <2>1, <2>2, <2>3
<1> QED BY <1>1, HostAlways, PTL

(***************************************************************************)
(* When no sync is due or under way, every schedule that the workers know  *)
(* has its row: what is registered while a sync runs raises the flag that  *)
(* the sync lowered when it began, so that it starts over, and what a sync *)
(* deletes and what a worker deletes is not known to the workers.          *)
(***************************************************************************)
THEOREM NoScheduleIsMissed ==
  ASSUME HostAssumption, Hooks \in Int PROVE Spec => []SchedulesSynced
<1>1. HostInv => SchedulesSynced
  BY DEF HostInv, SyncHonest, SchedulesSynced
<1> QED BY <1>1, HostAlways, PTL
=============================================================================
