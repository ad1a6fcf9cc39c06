------------------------ MODULE EventDeliveryProofs ------------------------
(***************************************************************************)
(* Theorems about EventDelivery: an idempotent subscription handles an     *)
(* event once as long as no two agents are at the jobs of the event at one *)
(* time, its marker stands for a handler that has committed, and a process *)
(* that listens is not given its own events a second time.                 *)
(***************************************************************************)
EXTENDS EventDelivery, TLAPS

Places == {"idle", "persisted", "committed", "published", "polled", "dispatching", "called", "announcing",
           "enqueuing", "handled"}
AgentStates ==
  [at : Places, todo : SUBSET Events, sub : Subs, did : SUBSET (Events \X Subs), job : Jobs \cup {NoJob}]
EventRows == [state : {"none", "inserted", "committed", "aborted"}, by : Procs]
JobRows == [state : {"none", "waiting", "taken"}, event : Events]

(* The type invariant. *)
TypeOK ==
  /\ config \in Deployment
  /\ event \in [Events -> EventRows]
  /\ job \in [Jobs -> JobRows]
  /\ marker \subseteq Events \X Subs
  /\ ran \in [Procs -> [Events -> [Subs -> Nat]]]
  /\ agent \in [Agents -> AgentStates] /\ \A a \in Agents : agent[a].sub <= config.subs
  /\ buffer \in [Procs -> SUBSET Events]
  /\ notified \in [Procs -> SUBSET Events]

(***************************************************************************)
(* Where the events are: with the operation that persisted them, in the    *)
(* buffer of its process, with an agent that hands them on, in the mail of *)
(* a process, or in a job.  All but the first have committed.              *)
(***************************************************************************)
At(a, places) == agent[a].at \in places
Holds(a, e) == e \in agent[a].todo \/ \E s \in Subs : <<e, s>> \in agent[a].did
Delivering == {"dispatching", "called", "announcing", "enqueuing"}
IsCommitted(e) == event[e].state = "committed"

(* What is common to operations and the bus. *)
Hands(a) ==
  /\ config.dispatch = "sync" => ~At(a, {"enqueuing"})
  /\ config.dispatch = "async" => ~At(a, {"dispatching", "called", "announcing"})
  /\ agent[a].did # {} => At(a, {"called"})

OpStage(p, a) ==
  /\ At(a, {"idle", "persisted", "committed", "published"} \cup Delivering) /\ Hands(a)
  /\ At(a, {"idle", "published"}) => \A e \in Events : ~Holds(a, e)
  /\ At(a, {"persisted"}) => \A e \in Events : Holds(a, e) => event[e] = [state |-> "inserted", by |-> p]
  /\ At(a, {"committed"}) => \A e \in Events : Holds(a, e) => e \in buffer[p]
  /\ At(a, Delivering) => /\ buffer[p] = {}
                        /\ \A e \in Events : Holds(a, e) => IsCommitted(e) /\ event[e].by = p
  /\ \A e \in buffer[p] : IsCommitted(e) /\ event[e].by = p

BusStage(p, a) ==
  /\ At(a, {"idle", "polled"} \cup Delivering) /\ Hands(a)
  /\ At(a, {"idle"}) => \A e \in Events : ~Holds(a, e)
  /\ \A e \in Events : Holds(a, e) => IsCommitted(e)
  /\ config.bus = "noop" => At(a, {"idle"})
  /\ config.bus # "polling" => ~At(a, {"polled"})
  /\ \A e \in notified[p] : IsCommitted(e)
  /\ config.bus # "listen" => notified[p] = {}

WorkStage(p, a) ==
  /\ At(a, {"idle", "dispatching", "announcing", "handled"})
  /\ At(a, {"idle"}) => agent[a].job = NoJob /\ \A e \in Events : ~Holds(a, e)
  /\ ~At(a, {"idle"}) =>
       /\ p \in config.workers /\ agent[a].job \in Jobs /\ job[agent[a].job].state = "taken"
       /\ \A e \in Events : Holds(a, e) => e = job[agent[a].job].event
  /\ agent[a].did # {} => At(a, {"dispatching"})

Stages ==
  /\ \A p \in Procs : OpStage(p, Op(p)) /\ BusStage(p, Bus(p)) /\ WorkStage(p, Worker(p))
  /\ \A p, q \in Procs : agent[Worker(p)].job = agent[Worker(q)].job => p = q \/ agent[Worker(p)].job = NoJob
  /\ \A j \in Jobs : job[j].state # "none" => config.dispatch = "async" /\ IsCommitted(job[j].event)

(* Only events that have committed are handled, and a marker stands for a  *)
(* handler that has.                                                       *)
Marks ==
  \A e \in Events, s \in Subs :
    /\ (<<e, s>> \in marker) <=> (config.idempotent /\ Handled(e, s))
    /\ Handled(e, s) => IsCommitted(e)

(* Without a bus each event gets one job at most, and none as long as the  *)
(* process that published it still has it.                                 *)
OneJob ==
  config.bus = "noop" =>
    /\ \A j, k \in Jobs :
         j # k /\ job[j].state # "none" /\ job[k].state # "none" => job[j].event # job[k].event
    /\ \A j \in Jobs, p \in Procs :
         job[j].state # "none" => job[j].event \notin buffer[p] /\ ~Holds(Op(p), job[j].event)

(* A handler that is about to commit is the only one of its event and      *)
(* subscription.                                                           *)
Fresh ==
  config.idempotent /\ OneAtATime =>
    /\ \A a \in Agents : agent[a].did \cap marker = {}
    /\ \A a, b \in Agents : a # b => agent[a].did \cap agent[b].did = {}
    /\ \A e \in Events, s \in Subs : Once(e, s)

(* What an agent has still to call. *)
ToCall(a, e, s) ==
  /\ e \in agent[a].todo /\ s \in 1 .. config.subs
  /\ First(e, agent[a].todo) => agent[a].sub <= s
Owed(a, e, s) == ToCall(a, e, s) \/ <<e, s>> \in agent[a].did

(* With notifications and without jobs each process has each event in one  *)
(* place at most, before it has handled it: an operation that is about to  *)
(* publish it, the buffer, the mail, or an agent at its handlers.          *)
NotRun(p, e) == \A s \in Subs : ran[p][e][s] = 0
Sending(p, e) ==
  At(Op(p), {"committed"}) /\ e \in agent[Op(p)].todo =>
    \A q \in Procs : e \notin notified[q] /\ ~Holds(Bus(q), e) /\ NotRun(q, e)
Buffered(p, e) == e \in buffer[p] => NotRun(p, e)
Mailed(p, e) == e \in notified[p] /\ Foreign(p, e) => ~Holds(Bus(p), e) /\ NotRun(p, e)
Received(p, e) == Holds(Bus(p), e) => Foreign(p, e)
Called(p, a, e, s) ==
  /\ At(a, Delivering) /\ Owed(a, e, s) => ran[p][e][s] = 0
  /\ ~(ToCall(a, e, s) /\ <<e, s>> \in agent[a].did)
Single ==
  config.dispatch = "sync" /\ config.bus = "listen" =>
    \A p \in Procs, e \in Events :
      /\ Sending(p, e) /\ Buffered(p, e) /\ Mailed(p, e) /\ Received(p, e)
      /\ \A s \in Subs : Called(p, Op(p), e, s) /\ Called(p, Bus(p), e, s) /\ ran[p][e][s] <= 1
-----------------------------------------------------------------------------
(***************************************************************************)
(* What each action does with its agent.                                   *)
(***************************************************************************)
Becomes(a, at, todo, sub, did, held) ==
  /\ agent' \in [Agents -> AgentStates]
  /\ agent'[a].at = at /\ agent'[a].todo = todo /\ agent'[a].sub = sub
  /\ agent'[a].did = did /\ agent'[a].job = held
  /\ \A b \in Agents : b # a => agent'[b] = agent[b]

LEMMA TheAgents ==
  ASSUME TypeOK, NEW a \in Agents
  PROVE  /\ agent[a] \in AgentStates /\ agent[a].at \in Places /\ agent[a].todo \in SUBSET Events
         /\ agent[a].sub \in Subs /\ agent[a].did \in SUBSET (Events \X Subs) /\ agent[a].job \in Jobs \cup {NoJob}
         /\ a[1] \in Procs /\ a[2] \in Kinds /\ a = <<a[1], a[2]>> /\ 1 \in Subs /\ NoJob \notin Jobs
BY DeliveryAssumption DEF TypeOK, AgentStates, Agents, Subs, Jobs, NoJob

LEMMA SetAgent ==
  ASSUME TypeOK, NEW a \in Agents, NEW x \in AgentStates, agent' = [agent EXCEPT ![a] = x]
  PROVE  Becomes(a, x.at, x.todo, x.sub, x.did, x.job)
BY DEF TypeOK, AgentStates, Becomes

LEMMA IdleType ==
  ASSUME TypeOK
  PROVE  /\ Idle \in AgentStates
         /\ Idle.at = "idle" /\ Idle.todo = {} /\ Idle.sub = 1 /\ Idle.did = {} /\ Idle.job = NoJob
<1>1. 1 \in Subs
  BY DeliveryAssumption DEF Subs
<1> QED BY <1>1 DEF Idle, AgentStates, Places

LEMMA IdleIs ==
  ASSUME TypeOK, NEW a \in Agents, NEW at \in Places, NEW todo \in SUBSET Events,
         agent' = [agent EXCEPT ![a] = [Idle EXCEPT !.at = at, !.todo = todo]]
  PROVE  Becomes(a, at, todo, 1, {}, NoJob)
<1> DEFINE x == [Idle EXCEPT !.at = at, !.todo = todo]
<1>1. x \in AgentStates /\ x.at = at /\ x.todo = todo /\ x.sub = 1 /\ x.did = {} /\ x.job = NoJob
  BY IdleType DEF AgentStates
<1>2. agent' = [agent EXCEPT ![a] = x]
  OBVIOUS
<1> HIDE DEF x
<1>3. Becomes(a, x.at, x.todo, x.sub, x.did, x.job)
  BY <1>1, <1>2, SetAgent
<1> QED BY <1>1, <1>3

LEMMA BecomesIdle ==
  ASSUME TypeOK, NEW a \in Agents, agent' = [agent EXCEPT ![a] = Idle]
  PROVE  Becomes(a, "idle", {}, 1, {}, NoJob)
BY IdleType, SetAgent

LEMMA BecomesHanding ==
  ASSUME TypeOK, NEW a \in Agents, NEW todo \in SUBSET Events, agent' = [agent EXCEPT ![a] = Handing(todo)]
  PROVE  Becomes(a, IF config.dispatch = "sync" THEN "dispatching" ELSE "enqueuing", todo, 1, {}, NoJob)
<1> DEFINE at == IF config.dispatch = "sync" THEN "dispatching" ELSE "enqueuing"
<1>1. at \in Places
  BY DEF Places
<1>2. agent' = [agent EXCEPT ![a] = [Idle EXCEPT !.at = at, !.todo = todo]]
  BY DEF Handing
<1> HIDE DEF at
<1>3. Becomes(a, at, todo, 1, {}, NoJob)
  BY <1>1, <1>2, IdleIs
<1> QED BY <1>3 DEF at

(* A step that only moves its agent on. *)
LEMMA GoesOn ==
  ASSUME TypeOK, NEW a \in Agents, NEW at \in Places, agent' = [agent EXCEPT ![a].at = at]
  PROVE  Becomes(a, at, agent[a].todo, agent[a].sub, agent[a].did, agent[a].job)
<1> DEFINE x == [agent[a] EXCEPT !.at = at]
<1>1. agent[a] \in AgentStates
  BY TheAgents
<1>2. x \in AgentStates /\ x.at = at /\ x.todo = agent[a].todo /\ x.sub = agent[a].sub
      /\ x.did = agent[a].did /\ x.job = agent[a].job
  BY <1>1 DEF AgentStates
<1>3. agent' = [agent EXCEPT ![a] = x]
  OBVIOUS
<1> HIDE DEF x
<1> QED BY <1>2, <1>3, SetAgent

LEMMA PersistDoes ==
  ASSUME TypeOK, NEW p \in Procs, Persist(p)
  PROVE  \E e \in Events :
           /\ agent[Op(p)].at = "idle"
           /\ event[e].state = "none" /\ event' = [event EXCEPT ![e] = [state |-> "inserted", by |-> p]]
           /\ Becomes(Op(p), "persisted", {e}, 1, {}, NoJob)
           /\ UNCHANGED <<config, job, marker, ran, buffer, notified>>
<1>1. PICK e \in Events :
        /\ event[e].state = "none" /\ event' = [event EXCEPT ![e] = [state |-> "inserted", by |-> p]]
        /\ agent' = [agent EXCEPT ![Op(p)] = [Idle EXCEPT !.at = "persisted", !.todo = {e}]]
  BY DEF Persist
<1>2. Op(p) \in Agents /\ "persisted" \in Places
  BY DEF Agents, Kinds, Places, Op
<1>3. Becomes(Op(p), "persisted", {e}, 1, {}, NoJob)
  BY <1>1, <1>2, IdleIs
<1> QED BY <1>1, <1>3 DEF Persist

LEMMA TakeJobDoes ==
  ASSUME TypeOK, NEW p \in Procs, TakeJob(p)
  PROVE  \E j \in Jobs :
           /\ agent[Worker(p)].at = "idle" /\ p \in config.workers
           /\ \/ job[j].state = "waiting"
              \/ job[j].state = "taken" /\ \A q \in Procs : agent[Worker(q)].job # j
           /\ job' = [job EXCEPT ![j].state = "taken"]
           /\ Becomes(Worker(p), "dispatching", {job[j].event}, 1, {}, j)
           /\ UNCHANGED <<config, event, marker, ran, buffer, notified>>
<1>1. PICK j \in Jobs :
       /\ \/ job[j].state = "waiting"
          \/ job[j].state = "taken" /\ \A q \in Procs : agent[Worker(q)].job # j
       /\ job' = [job EXCEPT ![j].state = "taken"]
       /\ agent' = [agent EXCEPT ![Worker(p)] =
            [Idle EXCEPT !.at = "dispatching", !.todo = {job[j].event}, !.job = j]]
  BY DEF TakeJob
<1>2. Worker(p) \in Agents /\ "dispatching" \in Places /\ 1 \in Subs /\ job[j].event \in Events
  BY DeliveryAssumption DEF Agents, Kinds, Places, Subs, TypeOK, JobRows, Worker
<1> DEFINE x == [Idle EXCEPT !.at = "dispatching", !.todo = {job[j].event}, !.job = j]
<1>3. /\ x \in AgentStates /\ x.at = "dispatching" /\ x.todo = {job[j].event} /\ x.sub = 1 /\ x.did = {}
      /\ x.job = j
  BY <1>2, IdleType DEF AgentStates
<1>4. agent' = [agent EXCEPT ![Worker(p)] = x]
  BY <1>1
<1> HIDE DEF x
<1>5. Becomes(Worker(p), "dispatching", {job[j].event}, 1, {}, j)
  BY <1>2, <1>3, <1>4, SetAgent
<1> QED BY <1>1, <1>5 DEF TakeJob

LEMMA EnqueueDoes ==
  ASSUME TypeOK, NEW a \in Agents, Enqueue(a)
  PROVE  \E e \in Events, j \in Jobs :
           /\ agent[a].at = "enqueuing" /\ e \in agent[a].todo
           /\ job[j].state = "none" /\ job' = [job EXCEPT ![j] = [state |-> "waiting", event |-> e]]
           /\ Becomes(a, "enqueuing", agent[a].todo \ {e}, agent[a].sub, agent[a].did, agent[a].job)
           /\ UNCHANGED <<config, event, marker, ran, buffer, notified>>
<1>1. PICK e \in Events, j \in Jobs :
       /\ First(e, agent[a].todo)
       /\ job[j].state = "none" /\ job' = [job EXCEPT ![j] = [state |-> "waiting", event |-> e]]
       /\ agent' = [agent EXCEPT ![a].todo = @ \ {e}]
  BY DEF Enqueue
<1>2. agent[a].at = "enqueuing"
  BY DEF Enqueue
<1>3. Becomes(a, "enqueuing", agent[a].todo \ {e}, agent[a].sub, agent[a].did, agent[a].job)
  BY <1>1, <1>2, TheAgents DEF TypeOK, AgentStates, Becomes
<1> QED BY <1>1, <1>2, <1>3 DEF Enqueue, First

LEMMA CallDoes ==
  ASSUME TypeOK, NEW a \in Agents, Call(a)
  PROVE  \E e \in Events, did \in SUBSET (Events \X Subs) :
           /\ agent[a].at = "dispatching" /\ First(e, agent[a].todo)
           /\ did \in {agent[a].did, agent[a].did \cup {<<e, agent[a].sub>>}}
           /\ SeenBefore(<<e, agent[a].sub>>) => did = agent[a].did
           /\ Becomes(a, IF a[2] = "work" THEN "dispatching" ELSE "called",
                      IF agent[a].sub = config.subs THEN agent[a].todo \ {e} ELSE agent[a].todo,
                      Following(agent[a].sub), did, agent[a].job)
           /\ UNCHANGED <<config, event, job, marker, ran, buffer, notified>>
<1>1. PICK e \in Events :
       /\ First(e, agent[a].todo)
       /\ agent' = [agent EXCEPT
            ![a].at = IF a[2] = "work" THEN @ ELSE "called",
            ![a].did = IF SeenBefore(<<e, agent[a].sub>>) THEN @ ELSE @ \cup {<<e, agent[a].sub>>},
            ![a].sub = Following(@),
            ![a].todo = IF agent[a].sub = config.subs THEN @ \ {e} ELSE @]
  BY DEF Call
<1>2. agent[a].at = "dispatching"
  BY DEF Call
<1>3. PICK did \in {agent[a].did, agent[a].did \cup {<<e, agent[a].sub>>}} :
        did = IF SeenBefore(<<e, agent[a].sub>>) THEN agent[a].did ELSE agent[a].did \cup {<<e, agent[a].sub>>}
  OBVIOUS
<1>4. PICK at \in Places : at = IF a[2] = "work" THEN "dispatching" ELSE "called"
  BY DEF Places
<1>5. PICK todo \in SUBSET Events :
        todo = IF agent[a].sub = config.subs THEN agent[a].todo \ {e} ELSE agent[a].todo
  BY TheAgents
<1>6. did \in SUBSET (Events \X Subs)
  BY <1>3, TheAgents
<1>7. Following(agent[a].sub) \in Subs
  <2>1. agent[a].sub \in 1 .. MaxSubs /\ agent[a].sub <= config.subs /\ config.subs \in 1 .. MaxSubs
    BY TheAgents DEF Subs, TypeOK, Deployment
  <2>2. MaxSubs \in Nat \ {0}
    BY DeliveryAssumption
  <2> QED BY <2>1, <2>2 DEF Following, Subs
<1>8. PICK sub \in Subs : sub = Following(agent[a].sub)
  BY <1>7
<1>9. agent' = [agent EXCEPT ![a].at = at, ![a].did = did, ![a].sub = sub, ![a].todo = todo]
  BY <1>1, <1>2, <1>3, <1>4, <1>5, <1>8
<1> DEFINE x == [agent[a] EXCEPT !.at = at, !.did = did, !.sub = sub, !.todo = todo]
<1>11. x \in AgentStates /\ x.at = at /\ x.todo = todo /\ x.sub = sub /\ x.did = did /\ x.job = agent[a].job
  BY <1>6, TheAgents DEF AgentStates
<1>12. agent' = [agent EXCEPT ![a] = x]
  BY <1>9
<1> HIDE DEF x
<1>10. Becomes(a, at, todo, sub, did, agent[a].job)
  BY <1>11, <1>12, SetAgent
<1>13. UNCHANGED <<config, event, job, marker, ran, buffer, notified>>
  BY DEF Call
<1>14. Becomes(a, IF a[2] = "work" THEN "dispatching" ELSE "called",
               IF agent[a].sub = config.subs THEN agent[a].todo \ {e} ELSE agent[a].todo,
               Following(agent[a].sub), did, agent[a].job)
  BY <1>4, <1>5, <1>8, <1>10
<1>15. SeenBefore(<<e, agent[a].sub>>) => did = agent[a].did
  BY <1>3
<1> QED BY <1>1, <1>2, <1>3, <1>6, <1>13, <1>14, <1>15

(* The steps of an operation after its events have been persisted. *)
LEMMA OperateDoes ==
  ASSUME TypeOK, NEW p \in Procs
  PROVE  /\ Commit(p) =>
              /\ agent[Op(p)].at = "persisted"
              /\ event' = [e \in Events |-> IF e \in agent[Op(p)].todo
                                            THEN [event[e] EXCEPT !.state = "committed"] ELSE event[e]]
              /\ buffer' = [buffer EXCEPT ![p] = @ \cup agent[Op(p)].todo]
              /\ Becomes(Op(p), "committed", agent[Op(p)].todo, agent[Op(p)].sub, agent[Op(p)].did,
                         agent[Op(p)].job)
              /\ UNCHANGED <<config, job, marker, ran, notified>>
         /\ Rollback(p) =>
              /\ agent[Op(p)].at = "persisted"
              /\ event' = [e \in Events |-> IF e \in agent[Op(p)].todo
                                            THEN [event[e] EXCEPT !.state = "aborted"] ELSE event[e]]
              /\ Becomes(Op(p), "idle", {}, 1, {}, NoJob)
              /\ UNCHANGED <<config, job, marker, ran, buffer, notified>>
         /\ Publish(p) =>
              /\ agent[Op(p)].at = "committed"
              /\ notified' = IF config.bus = "listen"
                             THEN [q \in Procs |-> notified[q] \cup {e \in agent[Op(p)].todo : q \in config.listening}] ELSE notified
              /\ Becomes(Op(p), "published", {}, 1, {}, NoJob)
              /\ UNCHANGED <<config, event, job, marker, ran, buffer>>
         /\ PublishThrows(p) =>
              /\ agent[Op(p)].at = "committed"
              /\ Becomes(Op(p), "idle", {}, 1, {}, NoJob)
              /\ UNCHANGED <<config, event, job, marker, ran, buffer, notified>>
         /\ TakeCommitted(p) =>
              /\ agent[Op(p)].at = "published"
              /\ buffer' = [buffer EXCEPT ![p] = {}]
              /\ Becomes(Op(p), IF config.dispatch = "sync" THEN "dispatching" ELSE "enqueuing", buffer[p],
                         1, {}, NoJob)
              /\ UNCHANGED <<config, event, job, marker, ran, notified>>
<1>0. Op(p) \in Agents /\ {"idle", "committed", "published"} \subseteq Places /\ buffer[p] \in SUBSET Events
  BY DEF Op, Agents, Kinds, Places, TypeOK
<1>1. ASSUME Commit(p)
      PROVE  Becomes(Op(p), "committed", agent[Op(p)].todo, agent[Op(p)].sub, agent[Op(p)].did, agent[Op(p)].job)
  <2>1. agent' = [agent EXCEPT ![Op(p)].at = "committed"] /\ "committed" \in Places
    BY <1>0, <1>1 DEF Commit
  <2> QED BY <1>0, <2>1, GoesOn
<1>2. ASSUME Rollback(p) PROVE Becomes(Op(p), "idle", {}, 1, {}, NoJob)
  BY <1>0, <1>2, BecomesIdle DEF Rollback
<1>3. ASSUME Publish(p) PROVE Becomes(Op(p), "published", {}, 1, {}, NoJob)
  <2>1. agent' = [agent EXCEPT ![Op(p)] = [Idle EXCEPT !.at = "published"]]
    BY <1>3 DEF Publish
  <2> DEFINE x == [Idle EXCEPT !.at = "published"]
  <2>2. x \in AgentStates /\ x.at = "published" /\ x.todo = {} /\ x.sub = 1 /\ x.did = {} /\ x.job = NoJob
    BY <1>0, IdleType DEF AgentStates
  <2>3. agent' = [agent EXCEPT ![Op(p)] = x]
    BY <2>1
  <2> HIDE DEF x
  <2> QED BY <1>0, <2>2, <2>3, SetAgent
<1>4. ASSUME PublishThrows(p) PROVE Becomes(Op(p), "idle", {}, 1, {}, NoJob)
  BY <1>0, <1>4, BecomesIdle DEF PublishThrows
<1>5. ASSUME TakeCommitted(p)
      PROVE  Becomes(Op(p), IF config.dispatch = "sync" THEN "dispatching" ELSE "enqueuing", buffer[p],
                     1, {}, NoJob)
  <2>1. agent' = [agent EXCEPT ![Op(p)] = Handing(buffer[p])]
    BY <1>5 DEF TakeCommitted
  <2> QED BY <1>0, <2>1, BecomesHanding
<1>6. Commit(p) =>
        /\ agent[Op(p)].at = "persisted"
        /\ event' = [e \in Events |-> IF e \in agent[Op(p)].todo
                                      THEN [event[e] EXCEPT !.state = "committed"] ELSE event[e]]
        /\ buffer' = [buffer EXCEPT ![p] = @ \cup agent[Op(p)].todo]
        /\ UNCHANGED <<config, job, marker, ran, notified>>
  BY DEF Commit
<1>7. Rollback(p) =>
        /\ agent[Op(p)].at = "persisted"
        /\ event' = [e \in Events |-> IF e \in agent[Op(p)].todo
                                      THEN [event[e] EXCEPT !.state = "aborted"] ELSE event[e]]
        /\ UNCHANGED <<config, job, marker, ran, buffer, notified>>
  BY DEF Rollback
<1>8. Publish(p) =>
        /\ agent[Op(p)].at = "committed"
        /\ notified' = IF config.bus = "listen"
                       THEN [q \in Procs |-> notified[q] \cup {e \in agent[Op(p)].todo : q \in config.listening}] ELSE notified
        /\ UNCHANGED <<config, event, job, marker, ran, buffer>>
  BY DEF Publish
<1>9. PublishThrows(p) => /\ agent[Op(p)].at = "committed"
                          /\ UNCHANGED <<config, event, job, marker, ran, buffer, notified>>
  BY DEF PublishThrows
<1>10. TakeCommitted(p) => /\ agent[Op(p)].at = "published" /\ buffer' = [buffer EXCEPT ![p] = {}]
                           /\ UNCHANGED <<config, event, job, marker, ran, notified>>
  BY DEF TakeCommitted
<1> QED BY <1>1, <1>2, <1>3, <1>4, <1>5, <1>6, <1>7, <1>8, <1>9, <1>10

(* The steps of the bus of a process. *)
LEMMA ListenDoes ==
  ASSUME TypeOK, NEW p \in Procs, Listen(p)
  PROVE  \/ /\ agent[Bus(p)].at = "idle" /\ config.bus = "polling"
            /\ \E todo \in SUBSET Committed : Becomes(Bus(p), "polled", todo, 1, {}, NoJob)
            /\ UNCHANGED <<config, event, job, marker, ran, buffer, notified>>
         \/ /\ agent[Bus(p)].at = "polled"
            /\ Becomes(Bus(p), IF config.dispatch = "sync" THEN "dispatching" ELSE "enqueuing",
                       agent[Bus(p)].todo, 1, {}, NoJob)
            /\ UNCHANGED <<config, event, job, marker, ran, buffer, notified>>
         \/ /\ agent[Bus(p)].at = "idle"
            /\ \E e \in notified[p] :
                 /\ notified' = [notified EXCEPT ![p] = @ \ {e}]
                 /\ \/ /\ Foreign(p, e)
                       /\ Becomes(Bus(p), IF config.dispatch = "sync" THEN "dispatching" ELSE "enqueuing",
                                  {e}, 1, {}, NoJob)
                    \/ ~Foreign(p, e) /\ agent' = agent
            /\ UNCHANGED <<config, event, job, marker, ran, buffer>>
<1>0. Bus(p) \in Agents /\ "polled" \in Places /\ Committed \subseteq Events /\ notified[p] \subseteq Events
      /\ agent[Bus(p)].todo \in SUBSET Events
  BY TheAgents DEF Bus, Agents, Kinds, Places, TypeOK, Committed
<1>1. CASE PollQuery(p)
  <2>1. PICK todo \in SUBSET Committed :
          agent' = [agent EXCEPT ![Bus(p)] = [Idle EXCEPT !.at = "polled", !.todo = todo]]
    BY <1>1 DEF PollQuery
  <2>2. todo \in SUBSET Events
    BY <1>0
  <2>3. Becomes(Bus(p), "polled", todo, 1, {}, NoJob)
    BY <1>0, <2>1, <2>2, IdleIs
  <2> QED BY <1>1, <2>3 DEF PollQuery
<1>2. CASE PollHand(p)
  <2>1. agent' = [agent EXCEPT ![Bus(p)] = Handing(agent[Bus(p)].todo)]
    BY <1>2 DEF PollHand
  <2>2. Becomes(Bus(p), IF config.dispatch = "sync" THEN "dispatching" ELSE "enqueuing", agent[Bus(p)].todo,
                1, {}, NoJob)
    BY <1>0, <2>1, BecomesHanding
  <2> QED BY <1>2, <2>2 DEF PollHand
<1>3. CASE Notify(p)
  <2>1. PICK e \in notified[p] :
          /\ notified' = [notified EXCEPT ![p] = @ \ {e}]
          /\ agent' = IF Foreign(p, e) THEN [agent EXCEPT ![Bus(p)] = Handing({e})] ELSE agent
    BY <1>3 DEF Notify
  <2>2. {e} \in SUBSET Events
    BY <1>0
  <2>3. Foreign(p, e) =>
          Becomes(Bus(p), IF config.dispatch = "sync" THEN "dispatching" ELSE "enqueuing", {e}, 1, {}, NoJob)
    BY <1>0, <2>1, <2>2, BecomesHanding
  <2> QED BY <1>3, <2>1, <2>3 DEF Notify
<1> QED BY <1>1, <1>2, <1>3 DEF Listen

(* The steps that end a handler, an operation, a poll or a job. *)
LEMMA DeliverDoes ==
  ASSUME TypeOK, NEW a \in Agents
  PROVE  /\ HandlerCommits(a) =>
              /\ IF a[2] = "work" THEN agent[a].at = "dispatching" /\ agent[a].todo = {}
                                  ELSE agent[a].at = "called"
              /\ ran' = [ran EXCEPT ![a[1]] = [e \in Events |-> [s \in Subs |->
                   IF <<e, s>> \in agent[a].did THEN @[e][s] + 1 ELSE @[e][s]]]]
              /\ marker' = Marked(agent[a].did)
              /\ Becomes(a, "announcing", agent[a].todo, agent[a].sub, {}, agent[a].job)
              /\ UNCHANGED <<config, event, job, buffer, notified>>
         /\ Announce(a) =>
              /\ agent[a].at = "announcing"
              /\ Becomes(a, IF a[2] = "work" THEN "handled" ELSE "dispatching", agent[a].todo, agent[a].sub,
                         agent[a].did, agent[a].job)
              /\ UNCHANGED <<config, event, job, marker, ran, buffer, notified>>
         /\ HandlerThrows(a) \/ Done(a) =>
              /\ a[2] # "work" /\ agent[a].at \in {"called", "enqueuing", "announcing", "dispatching"}
              /\ Becomes(a, "idle", {}, 1, {}, NoJob)
              /\ UNCHANGED <<config, event, job, marker, ran, buffer, notified>>
<1>0. {"announcing", "handled", "dispatching"} \subseteq Places
  BY DEF Places
<1>1. ASSUME HandlerCommits(a)
      PROVE  Becomes(a, "announcing", agent[a].todo, agent[a].sub, {}, agent[a].job)
  <2> DEFINE x == [agent[a] EXCEPT !.at = "announcing", !.did = {}]
  <2>1. /\ x \in AgentStates /\ x.at = "announcing" /\ x.todo = agent[a].todo /\ x.sub = agent[a].sub
        /\ x.did = {} /\ x.job = agent[a].job
    BY <1>0, TheAgents DEF AgentStates
  <2>2. agent' = [agent EXCEPT ![a] = x]
    BY <1>1 DEF HandlerCommits
  <2> HIDE DEF x
  <2> QED BY <2>1, <2>2, SetAgent
<1>2. ASSUME Announce(a)
      PROVE  Becomes(a, IF a[2] = "work" THEN "handled" ELSE "dispatching", agent[a].todo, agent[a].sub,
                     agent[a].did, agent[a].job)
  <2>1. PICK at \in Places : at = (IF a[2] = "work" THEN "handled" ELSE "dispatching")
    BY <1>0
  <2>2. agent' = [agent EXCEPT ![a].at = at]
    BY <1>2, <2>1 DEF Announce
  <2>3. Becomes(a, at, agent[a].todo, agent[a].sub, agent[a].did, agent[a].job)
    BY <2>2, GoesOn
  <2> QED BY <2>1, <2>3
<1>3. ASSUME HandlerThrows(a) \/ Done(a) PROVE Becomes(a, "idle", {}, 1, {}, NoJob)
  BY <1>3, BecomesIdle DEF HandlerThrows, Done
<1>4. HandlerCommits(a) =>
        /\ IF a[2] = "work" THEN agent[a].at = "dispatching" /\ agent[a].todo = {}
                            ELSE agent[a].at = "called"
        /\ ran' = [ran EXCEPT ![a[1]] = [e \in Events |-> [s \in Subs |->
             IF <<e, s>> \in agent[a].did THEN @[e][s] + 1 ELSE @[e][s]]]]
        /\ marker' = Marked(agent[a].did)
        /\ UNCHANGED <<config, event, job, buffer, notified>>
  BY DEF HandlerCommits
<1>5. Announce(a) => /\ agent[a].at = "announcing"
                     /\ UNCHANGED <<config, event, job, marker, ran, buffer, notified>>
  BY DEF Announce
<1>6. HandlerThrows(a) \/ Done(a) =>
        /\ a[2] # "work" /\ agent[a].at \in {"called", "enqueuing", "announcing", "dispatching"}
        /\ UNCHANGED <<config, event, job, marker, ran, buffer, notified>>
  BY DEF HandlerThrows, Done
<1> QED BY <1>1, <1>2, <1>3, <1>4, <1>5, <1>6

LEMMA WorkDoes ==
  ASSUME TypeOK, NEW p \in Procs
  PROVE  /\ JobCompletes(p) =>
              /\ agent[Worker(p)].at = "handled"
              /\ job' = [job EXCEPT ![agent[Worker(p)].job].state = "none"]
              /\ Becomes(Worker(p), "idle", {}, 1, {}, NoJob)
              /\ UNCHANGED <<config, event, marker, ran, buffer, notified>>
         /\ JobFails(p) =>
              /\ agent[Worker(p)].at \in {"dispatching", "announcing", "handled"}
              /\ job' = [job EXCEPT ![agent[Worker(p)].job].state = "waiting"]
              /\ Becomes(Worker(p), "idle", {}, 1, {}, NoJob)
              /\ UNCHANGED <<config, event, marker, ran, buffer, notified>>
<1>0. Worker(p) \in Agents
  BY DEF Worker, Agents, Kinds
<1>1. JobCompletes(p) \/ JobFails(p) => Becomes(Worker(p), "idle", {}, 1, {}, NoJob)
  BY <1>0, BecomesIdle DEF JobCompletes, JobFails
<1> QED BY <1>1 DEF JobCompletes, JobFails
-----------------------------------------------------------------------------
(* Each state is well typed, and an event that has committed stays so, as  *)
(* one of its process.                                                     *)
LEMMA InitType == Init => TypeOK
<1> SUFFICES ASSUME Init PROVE TypeOK
  OBVIOUS
<1>1. config \in Deployment /\ 1 \in Subs /\ 1 \in Events /\ config.subs \in Nat /\ 1 <= config.subs
  BY DeliveryAssumption DEF Init, Subs, Events, Deployment
<1>2. (CHOOSE p \in Procs : TRUE) \in Procs
  BY DeliveryAssumption
<1>3. PICK q \in Procs : event = [e \in Events |-> [state |-> "none", by |-> q]]
  BY <1>2 DEF Init
<1>4. event \in [Events -> EventRows]
  BY <1>3 DEF EventRows
<1>5. job \in [Jobs -> JobRows]
  BY <1>1 DEF Init, JobRows
<1>6. Idle \in AgentStates /\ Idle.sub = 1
  BY <1>1 DEF Idle, AgentStates, Places
<1>7. agent = [a \in Agents |-> Idle]
  BY DEF Init
<1>8. agent \in [Agents -> AgentStates] /\ \A a \in Agents : agent[a].sub <= config.subs
  BY <1>1, <1>6, <1>7
<1>9. marker = {} /\ ran \in [Procs -> [Events -> [Subs -> Nat]]]
  BY DEF Init
<1>10. buffer \in [Procs -> SUBSET Events] /\ notified \in [Procs -> SUBSET Events]
  BY DEF Init
<1> QED BY <1>1, <1>4, <1>5, <1>8, <1>9, <1>10 DEF TypeOK

LEMMA AgentType ==
  ASSUME TypeOK, NEW a \in Agents, NEW at, NEW todo, NEW sub \in Nat, NEW did, NEW held,
         Becomes(a, at, todo, sub, did, held), sub <= config.subs, config' = config
  PROVE  agent' \in [Agents -> AgentStates] /\ \A b \in Agents : agent'[b].sub <= config'.subs
BY DEF TypeOK, Becomes

Step ==
  \/ \E p \in Procs : Persist(p) \/ Operate(p) \/ Listen(p) \/ Work(p) \/ Crash(p)
  \/ \E a \in Agents : Deliver(a)

LEMMA StepType ==
  ASSUME TypeOK, Step
  PROVE  TypeOK' /\ config' = config
<1>0. /\ config \in Deployment /\ 1 <= config.subs /\ config.subs \in Nat
      /\ \A p \in Procs : Op(p) \in Agents /\ Bus(p) \in Agents /\ Worker(p) \in Agents
  BY DEF TypeOK, Deployment, Subs, Agents, Kinds, Op, Bus, Worker
<1>s. ASSUME NEW a \in Agents, NEW at, NEW todo, NEW sub \in Nat, NEW did, NEW held, sub <= config.subs,
             Becomes(a, at, todo, sub, did, held), config' = config,
             event' \in [Events -> EventRows], job' \in [Jobs -> JobRows], marker' \subseteq Events \X Subs,
             ran' \in [Procs -> [Events -> [Subs -> Nat]]],
             buffer' \in [Procs -> SUBSET Events], notified' \in [Procs -> SUBSET Events]
      PROVE  TypeOK' /\ config' = config
  <2>1. agent' \in [Agents -> AgentStates] /\ \A b \in Agents : agent'[b].sub <= config'.subs
    BY <1>s, AgentType
  <2> QED BY <1>0, <1>s, <2>1 DEF TypeOK
<1>t. /\ event \in [Events -> EventRows] /\ job \in [Jobs -> JobRows] /\ marker \subseteq Events \X Subs
      /\ ran \in [Procs -> [Events -> [Subs -> Nat]]]
      /\ buffer \in [Procs -> SUBSET Events] /\ notified \in [Procs -> SUBSET Events]
  BY DEF TypeOK
<1>a. \A a \in Agents : agent[a].sub \in Nat /\ agent[a].sub <= config.subs
  <2>1. \A a \in Agents : agent[a].sub \in 1 .. MaxSubs
    BY TheAgents DEF Subs
  <2> QED BY <2>1, DeliveryAssumption DEF TypeOK
<1>1. ASSUME NEW p \in Procs, Persist(p) PROVE TypeOK' /\ config' = config
  <2>1. PICK e \in Events :
           /\ event' = [event EXCEPT ![e] = [state |-> "inserted", by |-> p]]
           /\ Becomes(Op(p), "persisted", {e}, 1, {}, NoJob)
           /\ UNCHANGED <<config, job, marker, ran, buffer, notified>>
    BY <1>1, PersistDoes
  <2>2. event' \in [Events -> EventRows]
    BY <1>t, <2>1 DEF EventRows
  <2> QED BY <1>0, <1>s, <1>t, <2>1, <2>2
<1>2. ASSUME NEW p \in Procs, Operate(p) PROVE TypeOK' /\ config' = config
  <2>1. CASE Commit(p)
    <3>1. /\ event' = [e \in Events |-> IF e \in agent[Op(p)].todo
                                        THEN [event[e] EXCEPT !.state = "committed"] ELSE event[e]]
          /\ buffer' = [buffer EXCEPT ![p] = @ \cup agent[Op(p)].todo]
          /\ Becomes(Op(p), "committed", agent[Op(p)].todo, agent[Op(p)].sub, agent[Op(p)].did,
                     agent[Op(p)].job)
          /\ UNCHANGED <<config, job, marker, ran, notified>>
      BY <2>1, OperateDoes
    <3>2. event' \in [Events -> EventRows]
      BY <1>t, <3>1 DEF EventRows
    <3>3. agent[Op(p)].todo \in SUBSET Events
      BY <1>0, TheAgents
    <3>4. buffer' \in [Procs -> SUBSET Events]
      BY <1>t, <3>1, <3>3
    <3> QED BY <1>0, <1>a, <1>s, <1>t, <3>1, <3>2, <3>4
  <2>2. CASE Rollback(p)
    <3>1. /\ event' = [e \in Events |-> IF e \in agent[Op(p)].todo
                                        THEN [event[e] EXCEPT !.state = "aborted"] ELSE event[e]]
          /\ Becomes(Op(p), "idle", {}, 1, {}, NoJob)
          /\ UNCHANGED <<config, job, marker, ran, buffer, notified>>
      BY <2>2, OperateDoes
    <3>2. event' \in [Events -> EventRows]
      BY <1>t, <3>1 DEF EventRows
    <3> QED BY <1>0, <1>s, <1>t, <3>1, <3>2
  <2>3. CASE Publish(p)
    <3>1. /\ notified' = IF config.bus = "listen"
                         THEN [q \in Procs |-> notified[q] \cup {e \in agent[Op(p)].todo : q \in config.listening}] ELSE notified
          /\ Becomes(Op(p), "published", {}, 1, {}, NoJob)
          /\ UNCHANGED <<config, event, job, marker, ran, buffer>>
      BY <2>3, OperateDoes
    <3>2. agent[Op(p)].todo \in SUBSET Events
      BY <1>0, TheAgents
    <3>3. notified' \in [Procs -> SUBSET Events]
      BY <1>t, <3>1, <3>2
    <3> QED BY <1>0, <1>s, <1>t, <3>1, <3>3
  <2>4. CASE PublishThrows(p)
    <3>1. /\ Becomes(Op(p), "idle", {}, 1, {}, NoJob)
          /\ UNCHANGED <<config, event, job, marker, ran, buffer, notified>>
      BY <2>4, OperateDoes
    <3> QED BY <1>0, <1>s, <1>t, <3>1
  <2>5. CASE TakeCommitted(p)
    <3>1. /\ buffer' = [buffer EXCEPT ![p] = {}]
          /\ Becomes(Op(p), IF config.dispatch = "sync" THEN "dispatching" ELSE "enqueuing", buffer[p],
                     1, {}, NoJob)
          /\ UNCHANGED <<config, event, job, marker, ran, notified>>
      BY <2>5, OperateDoes
    <3>2. buffer' \in [Procs -> SUBSET Events]
      BY <1>t, <3>1
    <3> QED BY <1>0, <1>s, <1>t, <3>1, <3>2
  <2> QED BY <1>2, <2>1, <2>2, <2>3, <2>4, <2>5 DEF Operate
<1>3. ASSUME NEW p \in Procs, Listen(p) PROVE TypeOK' /\ config' = config
  <2>0. UNCHANGED <<config, event, job, marker, ran, buffer>>
    BY <1>3, ListenDoes
  <2>1. notified' \in [Procs -> SUBSET Events]
    <3>1. notified' = notified \/ \E e : notified' = [notified EXCEPT ![p] = @ \ {e}]
      BY <1>3, ListenDoes
    <3>2. \A e : [notified EXCEPT ![p] = @ \ {e}] \in [Procs -> SUBSET Events]
      <4>1. \A e : notified[p] \ {e} \in SUBSET Events
        BY <1>t
      <4> QED BY <1>t, <4>1
    <3> QED BY <1>t, <3>1, <3>2
  <2>2. (\E at, todo : Becomes(Bus(p), at, todo, 1, {}, NoJob)) \/ agent' = agent
    BY <1>3, ListenDoes
  <2>3. CASE agent' = agent
    BY <1>0, <1>t, <2>0, <2>1, <2>3 DEF TypeOK
  <2>4. ASSUME NEW at, NEW todo, Becomes(Bus(p), at, todo, 1, {}, NoJob) PROVE TypeOK' /\ config' = config
    BY <1>0, <1>s, <1>t, <2>0, <2>1, <2>4
  <2> QED BY <2>2, <2>3, <2>4
<1>4. ASSUME NEW p \in Procs, Work(p) PROVE TypeOK' /\ config' = config
  <2>1. CASE TakeJob(p)
    <3>1. PICK j \in Jobs :
            /\ job' = [job EXCEPT ![j].state = "taken"]
            /\ Becomes(Worker(p), "dispatching", {job[j].event}, 1, {}, j)
            /\ UNCHANGED <<config, event, marker, ran, buffer, notified>>
      BY <2>1, TakeJobDoes
    <3>2. job' \in [Jobs -> JobRows]
      BY <1>t, <3>1 DEF JobRows
    <3> QED BY <1>0, <1>s, <1>t, <3>1, <3>2
  <2>2. CASE JobCompletes(p) \/ JobFails(p)
    <3>1. PICK st \in {"none", "waiting"} : job' = [job EXCEPT ![agent[Worker(p)].job].state = st]
      BY <2>2, WorkDoes
    <3>2. job' \in [Jobs -> JobRows]
      BY <1>t, <3>1 DEF JobRows
    <3>3. /\ Becomes(Worker(p), "idle", {}, 1, {}, NoJob)
          /\ UNCHANGED <<config, event, marker, ran, buffer, notified>>
      BY <2>2, WorkDoes
    <3> QED BY <1>0, <1>s, <1>t, <3>2, <3>3
  <2> QED BY <1>4, <2>1, <2>2 DEF Work
<1>5. ASSUME NEW p \in Procs, Crash(p) PROVE TypeOK' /\ config' = config
  <2>1. event' \in [Events -> EventRows]
    BY <1>5, <1>t DEF Crash, EventRows
  <2>2. agent' = [a \in Agents |-> IF a[1] = p THEN Idle ELSE agent[a]] /\ config' = config
    BY <1>5 DEF Crash
  <2>3. agent' \in [Agents -> AgentStates] /\ \A a \in Agents : agent'[a].sub <= config'.subs
    <3>1. ASSUME NEW a \in Agents PROVE agent'[a] \in AgentStates /\ agent'[a].sub <= config'.subs
      BY <1>0, <1>a, <2>2, IdleType, TheAgents
    <3> QED BY <2>2, <3>1
  <2>4. buffer' \in [Procs -> SUBSET Events] /\ notified' \in [Procs -> SUBSET Events]
    BY <1>5, <1>t DEF Crash
  <2>5. UNCHANGED <<config, job, marker, ran>>
    BY <1>5 DEF Crash
  <2> QED BY <1>0, <1>t, <2>1, <2>3, <2>4, <2>5 DEF TypeOK
<1>6. ASSUME NEW a \in Agents, Deliver(a) PROVE TypeOK' /\ config' = config
  <2>1. CASE Enqueue(a)
    <3>1. PICK e \in Events, j \in Jobs :
           /\ job' = [job EXCEPT ![j] = [state |-> "waiting", event |-> e]]
           /\ Becomes(a, "enqueuing", agent[a].todo \ {e}, agent[a].sub, agent[a].did, agent[a].job)
           /\ UNCHANGED <<config, event, marker, ran, buffer, notified>>
      BY <2>1, EnqueueDoes
    <3>2. job' \in [Jobs -> JobRows]
      BY <1>t, <3>1 DEF JobRows
    <3> QED BY <1>a, <1>s, <1>t, <3>1, <3>2
  <2>2. CASE Call(a)
    <3>1. PICK at, todo, did :
            /\ Becomes(a, at, todo, Following(agent[a].sub), did, agent[a].job)
            /\ UNCHANGED <<config, event, job, marker, ran, buffer, notified>>
      BY <2>2, CallDoes
    <3>2. Following(agent[a].sub) \in Nat /\ Following(agent[a].sub) <= config.subs
      BY <1>0, <1>a DEF Following
    <3> QED BY <1>s, <1>t, <3>1, <3>2
  <2>3. CASE HandlerCommits(a)
    <3>1. /\ ran' = [ran EXCEPT ![a[1]] = [e \in Events |-> [s \in Subs |->
               IF <<e, s>> \in agent[a].did THEN @[e][s] + 1 ELSE @[e][s]]]]
          /\ marker' = Marked(agent[a].did)
          /\ Becomes(a, "announcing", agent[a].todo, agent[a].sub, {}, agent[a].job)
          /\ UNCHANGED <<config, event, job, buffer, notified>>
      BY <2>3, DeliverDoes
    <3>2. marker' \subseteq Events \X Subs
      <4>1. agent[a].did \subseteq Events \X Subs
        BY TheAgents
      <4> QED BY <1>t, <3>1, <4>1 DEF Marked
    <3>3. ran' \in [Procs -> [Events -> [Subs -> Nat]]]
      <4>1. a[1] \in Procs /\ ran[a[1]] \in [Events -> [Subs -> Nat]]
        BY <1>t, TheAgents
      <4> DEFINE r == [e \in Events |-> [s \in Subs |->
                        IF <<e, s>> \in agent[a].did THEN ran[a[1]][e][s] + 1 ELSE ran[a[1]][e][s]]]
      <4>2. r \in [Events -> [Subs -> Nat]]
        <5>1. ASSUME NEW e \in Events, NEW s \in Subs
              PROVE (IF <<e, s>> \in agent[a].did THEN ran[a[1]][e][s] + 1 ELSE ran[a[1]][e][s]) \in Nat
          BY <4>1
        <5> QED BY <5>1
      <4>3. ran' = [ran EXCEPT ![a[1]] = r]
        BY <3>1
      <4> HIDE DEF r
      <4> QED BY <1>t, <4>1, <4>2, <4>3
    <3> QED BY <1>a, <1>s, <1>t, <3>1, <3>2, <3>3
  <2>4. CASE Announce(a)
    <3>1. PICK at :
            /\ Becomes(a, at, agent[a].todo, agent[a].sub, agent[a].did, agent[a].job)
            /\ UNCHANGED <<config, event, job, marker, ran, buffer, notified>>
      BY <2>4, DeliverDoes
    <3> QED BY <1>a, <1>s, <1>t, <3>1
  <2>5. CASE HandlerThrows(a) \/ Done(a)
    <3>1. /\ Becomes(a, "idle", {}, 1, {}, NoJob)
          /\ UNCHANGED <<config, event, job, marker, ran, buffer, notified>>
      BY <2>5, DeliverDoes
    <3> QED BY <1>0, <1>s, <1>t, <3>1
  <2> QED BY <1>6, <2>1, <2>2, <2>3, <2>4, <2>5 DEF Deliver
<1> QED BY <1>1, <1>2, <1>3, <1>4, <1>5, <1>6 DEF Step
-----------------------------------------------------------------------------
(***************************************************************************)
(* Each event is where its process, its notification or its job has it.    *)
(***************************************************************************)
Kept == \A e \in Events : IsCommitted(e) => event'[e] = event[e]
Inserted(e, p) == event[e] = [state |-> "inserted", by |-> p]
JobsCommitted == \A j \in Jobs : job[j].state # "none" => config.dispatch = "async" /\ IsCommitted(job[j].event)

LEMMA Distinct ==
  ASSUME NEW p \in Procs, NEW q \in Procs
  PROVE  /\ Op(p) \in Agents /\ Bus(p) \in Agents /\ Worker(p) \in Agents
         /\ Op(p) # Bus(q) /\ Op(p) # Worker(q) /\ Bus(p) # Worker(q)
         /\ (Op(p) = Op(q) <=> p = q) /\ (Bus(p) = Bus(q) <=> p = q) /\ (Worker(p) = Worker(q) <=> p = q)
BY DEF Op, Bus, Worker, Agents, Kinds

LEMMA WhichAgent ==
  ASSUME NEW a \in Agents
  PROVE  \E p \in Procs : \/ a = Op(p) /\ a[1] = p /\ a[2] = "op"
                          \/ a = Bus(p) /\ a[1] = p /\ a[2] = "bus"
                          \/ a = Worker(p) /\ a[1] = p /\ a[2] = "work"
BY DEF Op, Bus, Worker, Agents, Kinds

LEMMA OpKept ==
  ASSUME TypeOK, NEW p \in Procs, OpStage(p, Op(p)), agent'[Op(p)] = agent[Op(p)], buffer'[p] = buffer[p],
         config' = config, Kept, \A e \in Events : Inserted(e, p) => event'[e] = event[e]
  PROVE  OpStage(p, Op(p))'
<1>1. \A e \in Events : Holds(Op(p), e)' <=> Holds(Op(p), e)
  BY DEF Holds
<1>2. buffer[p] \subseteq Events
  BY DEF TypeOK
<1>3. \A e \in buffer[p] : event'[e] = event[e]
  BY <1>2 DEF OpStage, Kept
<1>4. At(Op(p), {"persisted"}) =>
        \A e \in Events : Holds(Op(p), e) => event'[e] = [state |-> "inserted", by |-> p]
  BY DEF OpStage, Inserted
<1>5. At(Op(p), Delivering) => \A e \in Events : Holds(Op(p), e) => event'[e] = event[e]
  BY DEF OpStage, Kept
<1> QED BY <1>1, <1>3, <1>4, <1>5 DEF OpStage, At, Hands, IsCommitted

LEMMA BusKept ==
  ASSUME TypeOK, NEW p \in Procs, BusStage(p, Bus(p)), agent'[Bus(p)] = agent[Bus(p)],
         config' = config, Kept, notified'[p] \subseteq Events,
         \A e \in notified'[p] : e \in notified[p] \/ (IsCommitted(e) /\ config.bus = "listen")
  PROVE  BusStage(p, Bus(p))'
<1>1. \A e \in Events : Holds(Bus(p), e)' <=> Holds(Bus(p), e)
  BY DEF Holds
<1>2. \A e \in Events : IsCommitted(e) => IsCommitted(e)'
  BY DEF Kept, IsCommitted
<1>3. \A e \in notified'[p] : IsCommitted(e)'
  BY <1>2 DEF BusStage
<1>4. config.bus # "listen" => notified'[p] = {}
  BY DEF BusStage
<1> QED BY <1>1, <1>2, <1>3, <1>4 DEF BusStage, At, Hands

LEMMA WorkKept ==
  ASSUME TypeOK, NEW p \in Procs, WorkStage(p, Worker(p)), agent'[Worker(p)] = agent[Worker(p)],
         config' = config,
         agent[Worker(p)].job \in Jobs => job'[agent[Worker(p)].job] = job[agent[Worker(p)].job]
  PROVE  WorkStage(p, Worker(p))'
<1>1. \A e \in Events : Holds(Worker(p), e)' <=> Holds(Worker(p), e)
  BY DEF Holds
<1> QED BY <1>1 DEF WorkStage, At

(* A step of an operation or of the bus leaves the workers alone.          *)
LEMMA HandStage ==
  ASSUME TypeOK, TypeOK', Stages, NEW p \in Procs, NEW a \in {Op(p), Bus(p)}, config' = config, Kept,
         \A b \in Agents : b # a => agent'[b] = agent[b],
         \A q \in Procs : q # p \/ a # Op(p) => buffer'[q] = buffer[q],
         \A q \in Procs : q # p \/ a # Op(p) => \A e \in Events : Inserted(e, q) => event'[e] = event[e],
         \A q \in Procs : \A e \in notified'[q] : e \in notified[q] \/ (IsCommitted(e) /\ config.bus = "listen"),
         \A j \in Jobs : job[j].state = "taken" => job'[j] = job[j],
         JobsCommitted',
         a = Op(p) => OpStage(p, Op(p))', a = Bus(p) => BusStage(p, Bus(p))'
  PROVE  Stages'
<1>1. ASSUME NEW q \in Procs PROVE OpStage(q, Op(q))'
  <2>1. CASE a = Op(p) /\ q = p
    BY <2>1
  <2>2. CASE a # Op(p) \/ q # p
    <3>1. agent'[Op(q)] = agent[Op(q)]
      BY <2>2, Distinct
    <3>2. OpStage(q, Op(q))
      BY DEF Stages
    <3> QED BY <2>2, <3>1, <3>2, OpKept
  <2> QED BY <2>1, <2>2
<1>2. ASSUME NEW q \in Procs PROVE BusStage(q, Bus(q))'
  <2>1. CASE a = Bus(p) /\ q = p
    BY <2>1
  <2>2. CASE a # Bus(p) \/ q # p
    <3>1. agent'[Bus(q)] = agent[Bus(q)]
      BY <2>2, Distinct
    <3>2. BusStage(q, Bus(q)) /\ notified'[q] \subseteq Events
      BY DEF Stages, TypeOK
    <3> QED BY <2>2, <3>1, <3>2, BusKept
  <2> QED BY <2>1, <2>2
<1>3. \A q \in Procs : agent'[Worker(q)] = agent[Worker(q)]
  BY Distinct
<1>4. ASSUME NEW q \in Procs PROVE WorkStage(q, Worker(q))'
  <2>1. WorkStage(q, Worker(q))
    BY DEF Stages
  <2>2. agent[Worker(q)].job \in Jobs => job'[agent[Worker(q)].job] = job[agent[Worker(q)].job]
    <3>1. At(Worker(q), {"idle"}) => agent[Worker(q)].job \notin Jobs
      BY <2>1, TheAgents, Distinct DEF WorkStage
    <3> QED BY <2>1, <3>1 DEF WorkStage
  <2> QED BY <1>3, <2>1, <2>2, WorkKept
<1> QED BY <1>1, <1>2, <1>3, <1>4 DEF Stages, JobsCommitted

(* A step of a worker leaves operations and the bus alone. *)
LEMMA WorkerStage ==
  ASSUME TypeOK, TypeOK', Stages, NEW p \in Procs,
         \A b \in Agents : b # Worker(p) => agent'[b] = agent[b],
         UNCHANGED <<config, event, buffer, notified>>,
         \A q \in Procs : q # p /\ agent[Worker(q)].job \in Jobs =>
            job'[agent[Worker(q)].job] = job[agent[Worker(q)].job],
         \A q \in Procs : q # p => agent[Worker(q)].job # agent'[Worker(p)].job \/ agent'[Worker(p)].job = NoJob,
         JobsCommitted', WorkStage(p, Worker(p))'
  PROVE  Stages'
<1>1. ASSUME NEW q \in Procs PROVE OpStage(q, Op(q))' /\ BusStage(q, Bus(q))'
  <2>1. agent'[Op(q)] = agent[Op(q)] /\ agent'[Bus(q)] = agent[Bus(q)]
    BY Distinct
  <2>2. OpStage(q, Op(q)) /\ BusStage(q, Bus(q)) /\ notified[q] \subseteq Events
    BY DEF Stages, TypeOK
  <2>3. Kept
    BY DEF Kept
  <2> QED BY <2>1, <2>2, <2>3, OpKept, BusKept
<1>2. \A q \in Procs : q # p => agent'[Worker(q)] = agent[Worker(q)]
  BY Distinct
<1>3. ASSUME NEW q \in Procs PROVE WorkStage(q, Worker(q))'
  <2>1. CASE q = p
    BY <2>1
  <2>2. CASE q # p
    <3>1. WorkStage(q, Worker(q))
      BY DEF Stages
    <3> QED BY <1>2, <2>2, <3>1, WorkKept
  <2> QED BY <2>1, <2>2
<1>4. \A q, r \in Procs : agent'[Worker(q)].job = agent'[Worker(r)].job => q = r \/ agent'[Worker(q)].job = NoJob
  <2>1. \A q, r \in Procs : agent[Worker(q)].job = agent[Worker(r)].job => q = r \/ agent[Worker(q)].job = NoJob
    BY DEF Stages
  <2> SUFFICES ASSUME NEW q \in Procs, NEW r \in Procs, agent'[Worker(q)].job = agent'[Worker(r)].job, q # r
               PROVE  agent'[Worker(q)].job = NoJob
    OBVIOUS
  <2> QED BY <1>2, <2>1
<1> QED BY <1>1, <1>3, <1>4 DEF Stages, JobsCommitted

LEMMA OperateStages ==
  ASSUME TypeOK, TypeOK', Stages, config' = config, NEW p \in Procs, Persist(p) \/ Operate(p)
  PROVE  Stages' /\ Kept
<1>a. PICK a \in Agents : a = Op(p) /\ a # Bus(p)
  BY Distinct
<1>b. OpStage(p, a) /\ JobsCommitted
  BY <1>a DEF Stages, JobsCommitted
<1>c. config.dispatch \in {"sync", "async"} /\ buffer[p] \subseteq Events /\ event \in [Events -> EventRows]
      /\ agent[a].todo \subseteq Events /\ \A j \in Jobs : job[j].event \in Events
  BY <1>a, TheAgents DEF TypeOK, Deployment, JobRows
<1>j. ASSUME Kept, job' = job, config' = config PROVE JobsCommitted'
  BY <1>b, <1>c, <1>j DEF JobsCommitted, Kept, IsCommitted
<1>h. ASSUME Kept, job' = job, OpStage(p, a)', \A b \in Agents : b # a => agent'[b] = agent[b],
             \A q \in Procs : q # p => buffer'[q] = buffer[q],
             \A q \in Procs, e \in Events : q # p /\ Inserted(e, q) => event'[e] = event[e],
             \A q \in Procs : \A e \in notified'[q] :
               e \in notified[q] \/ (IsCommitted(e) /\ config.bus = "listen")
      PROVE  Stages' /\ Kept
  <2>1. JobsCommitted'
    BY <1>h, <1>j
  <2>2. \A j \in Jobs : job[j].state = "taken" => job'[j] = job[j]
    BY <1>h
  <2>3. a = Op(p) /\ a \in {Op(p), Bus(p)}
    BY <1>a
  <2>4. a = Op(p) => OpStage(p, Op(p))'
    BY <1>h, <2>3
  <2>5. a = Bus(p) => BusStage(p, Bus(p))'
    BY <1>a
  <2>6. \A q \in Procs : q # p \/ a # Op(p) => buffer'[q] = buffer[q]
    BY <1>h, <2>3
  <2>7. \A q \in Procs : q # p \/ a # Op(p) => \A e \in Events : Inserted(e, q) => event'[e] = event[e]
    BY <1>h, <2>3
  <2>8. Stages'
    BY <1>a, <1>h, <2>1, <2>2, <2>3, <2>4, <2>5, <2>6, <2>7, HandStage
  <2> QED BY <1>h, <2>8
<1>1. CASE Persist(p)
  <2>1. PICK e \in Events :
          /\ event[e].state = "none" /\ event' = [event EXCEPT ![e] = [state |-> "inserted", by |-> p]]
          /\ Becomes(a, "persisted", {e}, 1, {}, NoJob)
          /\ UNCHANGED <<config, job, marker, ran, buffer, notified>>
    BY <1>1, PersistDoes, <1>a
  <2>2. /\ \A f \in Events : Holds(a, f)' <=> f = e
        /\ agent'[a].at = "persisted" /\ agent'[a].did = {}
        /\ \A b \in Agents : b # a => agent'[b] = agent[b]
    BY <2>1 DEF Becomes, Holds
  <2>3. Kept /\ (\A f \in Events, q \in Procs : Inserted(f, q) => event'[f] = event[f]) /\ Inserted(e, p)'
    BY <1>c, <2>1 DEF Kept, IsCommitted, Inserted
  <2>4. \A f \in buffer[p] : IsCommitted(f)' /\ event'[f].by = p
    BY <1>b, <1>c, <2>3 DEF OpStage, Kept, IsCommitted
  <2>5. OpStage(p, a)'
    BY <2>1, <2>2, <2>3, <2>4 DEF OpStage, At, Hands, Delivering, Inserted
  <2> QED BY <1>h, <2>1, <2>2, <2>3, <2>5
<1>e. ASSUME agent[a].at = "persisted"
      PROVE  /\ agent[a].did = {} /\ \A e \in agent[a].todo : Inserted(e, p) /\ event[e].by = p /\ ~IsCommitted(e)
             /\ \A q \in Procs, e \in Events : q # p /\ Inserted(e, q) => e \notin agent[a].todo
  <2>1. agent[a].did = {}
    BY <1>b, <1>e DEF OpStage, Hands, At
  <2>2. \A e \in agent[a].todo : Inserted(e, p)
    BY <1>b, <1>c, <1>e DEF OpStage, At, Holds, Inserted
  <2>3. \A e \in Events : Inserted(e, p) => event[e].by = p /\ ~IsCommitted(e)
    BY DEF Inserted, IsCommitted
  <2>4. \A q \in Procs, e \in Events : Inserted(e, q) /\ Inserted(e, p) => q = p
    BY DEF Inserted
  <2> QED BY <1>c, <2>1, <2>2, <2>3, <2>4
<1>2. CASE Commit(p)
  <2>1. /\ agent[a].at = "persisted"
        /\ event' = [e \in Events |-> IF e \in agent[a].todo
                                      THEN [event[e] EXCEPT !.state = "committed"] ELSE event[e]]
        /\ buffer' = [buffer EXCEPT ![p] = @ \cup agent[a].todo]
        /\ Becomes(a, "committed", agent[a].todo, agent[a].sub, agent[a].did, agent[a].job)
        /\ UNCHANGED <<config, job, marker, ran, notified>>
    BY <1>2, OperateDoes, <1>a
  <2>2. /\ \A f \in Events : Holds(a, f)' <=> f \in agent[a].todo
        /\ agent'[a].at = "committed" /\ agent'[a].did = {}
        /\ \A b \in Agents : b # a => agent'[b] = agent[b]
    BY <1>e, <2>1 DEF Becomes, Holds
  <2>3. Kept /\ (\A f \in Events, q \in Procs : q # p /\ Inserted(f, q) => event'[f] = event[f])
    BY <1>c, <1>e, <2>1 DEF Kept
  <2>4. \A f \in agent[a].todo : IsCommitted(f)' /\ event'[f].by = p
    BY <1>c, <1>e, <2>1 DEF IsCommitted, EventRows
  <2>5. buffer'[p] = buffer[p] \cup agent[a].todo /\ \A q \in Procs : q # p => buffer'[q] = buffer[q]
    BY <2>1 DEF TypeOK
  <2>6. \A f \in buffer'[p] : IsCommitted(f)' /\ event'[f].by = p
    BY <1>b, <1>c, <2>3, <2>4, <2>5 DEF OpStage, Kept, IsCommitted
  <2>7. OpStage(p, a)'
    BY <2>2, <2>5, <2>6 DEF OpStage, At, Hands, Delivering
  <2> QED BY <1>h, <2>1, <2>2, <2>3, <2>5, <2>7
<1>3. CASE Rollback(p)
  <2>1. /\ agent[a].at = "persisted"
        /\ event' = [e \in Events |-> IF e \in agent[a].todo
                                      THEN [event[e] EXCEPT !.state = "aborted"] ELSE event[e]]
        /\ Becomes(a, "idle", {}, 1, {}, NoJob)
        /\ UNCHANGED <<config, job, marker, ran, buffer, notified>>
    BY <1>3, OperateDoes, <1>a
  <2>2. /\ \A f \in Events : ~Holds(a, f)'
        /\ agent'[a].at = "idle" /\ agent'[a].did = {}
        /\ \A b \in Agents : b # a => agent'[b] = agent[b]
    BY <1>e, <2>1 DEF Becomes, Holds
  <2>3. Kept /\ (\A f \in Events, q \in Procs : q # p /\ Inserted(f, q) => event'[f] = event[f])
    BY <1>c, <1>e, <2>1 DEF Kept
  <2>4. \A f \in buffer[p] : IsCommitted(f)' /\ event'[f].by = p
    BY <1>b, <1>c, <2>3 DEF OpStage, Kept, IsCommitted
  <2>5. OpStage(p, a)'
    BY <2>1, <2>2, <2>4 DEF OpStage, At, Hands, Delivering
  <2> QED BY <1>h, <2>1, <2>2, <2>3, <2>5
<1>4. CASE Publish(p)
  <2>1. /\ agent[a].at = "committed"
        /\ notified' = IF config.bus = "listen"
                       THEN [q \in Procs |-> notified[q] \cup {e \in agent[a].todo : q \in config.listening}] ELSE notified
        /\ Becomes(a, "published", {}, 1, {}, NoJob)
        /\ UNCHANGED <<config, event, job, marker, ran, buffer>>
    BY <1>4, OperateDoes, <1>a
  <2>2. /\ \A f \in Events : ~Holds(a, f)'
        /\ agent'[a].at = "published" /\ agent'[a].did = {}
        /\ \A b \in Agents : b # a => agent'[b] = agent[b]
    BY <2>1 DEF Becomes, Holds
  <2>3. \A f \in agent[a].todo : IsCommitted(f)
    BY <1>b, <1>c, <2>1 DEF OpStage, At, Holds
  <2>4. \A q \in Procs : \A f \in notified'[q] : f \in notified[q] \/ (IsCommitted(f) /\ config.bus = "listen")
    BY <2>1, <2>3
  <2>5. OpStage(p, a)'
    BY <1>b, <2>1, <2>2 DEF OpStage, At, Hands, Delivering, IsCommitted
  <2>6. Kept
    BY <2>1 DEF Kept
  <2> QED BY <1>h, <2>1, <2>2, <2>4, <2>5, <2>6
<1>5. CASE PublishThrows(p)
  <2>1. /\ Becomes(a, "idle", {}, 1, {}, NoJob)
        /\ UNCHANGED <<config, event, job, marker, ran, buffer, notified>>
    BY <1>5, OperateDoes, <1>a
  <2>2. /\ \A f \in Events : ~Holds(a, f)'
        /\ agent'[a].at = "idle" /\ agent'[a].did = {}
        /\ \A b \in Agents : b # a => agent'[b] = agent[b]
    BY <2>1 DEF Becomes, Holds
  <2>3. OpStage(p, a)'
    BY <1>b, <2>1, <2>2 DEF OpStage, At, Hands, Delivering, IsCommitted
  <2>4. Kept
    BY <2>1 DEF Kept
  <2> QED BY <1>h, <2>1, <2>2, <2>3, <2>4
<1>6. CASE TakeCommitted(p)
  <2>1. /\ buffer' = [buffer EXCEPT ![p] = {}]
        /\ Becomes(a, IF config.dispatch = "sync" THEN "dispatching" ELSE "enqueuing", buffer[p], 1, {}, NoJob)
        /\ UNCHANGED <<config, event, job, marker, ran, notified>>
    BY <1>6, OperateDoes, <1>a
  <2>2. /\ \A f \in Events : Holds(a, f)' <=> f \in buffer[p]
        /\ agent'[a].at = (IF config.dispatch = "sync" THEN "dispatching" ELSE "enqueuing")
        /\ agent'[a].did = {}
        /\ \A b \in Agents : b # a => agent'[b] = agent[b]
    BY <2>1 DEF Becomes, Holds
  <2>3. buffer'[p] = {} /\ \A q \in Procs : q # p => buffer'[q] = buffer[q]
    BY <2>1 DEF TypeOK
  <2>4. \A f \in buffer[p] : IsCommitted(f)' /\ event'[f].by = p
    BY <1>b, <2>1 DEF OpStage, IsCommitted
  <2>5. OpStage(p, a)'
    BY <1>c, <2>1, <2>2, <2>3, <2>4 DEF OpStage, At, Hands, Delivering
  <2>6. Kept
    BY <2>1 DEF Kept
  <2> QED BY <1>h, <2>1, <2>2, <2>3, <2>5, <2>6
<1> QED BY <1>1, <1>2, <1>3, <1>4, <1>5, <1>6 DEF Operate

LEMMA ListenStages ==
  ASSUME TypeOK, TypeOK', Stages, config' = config, NEW p \in Procs, Listen(p)
  PROVE  Stages' /\ Kept
<1>a. PICK a \in Agents : a = Bus(p) /\ a # Op(p)
  BY Distinct
<1>b. BusStage(p, a) /\ JobsCommitted
  BY <1>a DEF Stages, JobsCommitted
<1>c. /\ config.dispatch \in {"sync", "async"} /\ config.bus \in {"noop", "polling", "listen"}
      /\ agent[a].todo \subseteq Events /\ notified[p] \subseteq Events
  BY TheAgents DEF TypeOK, Deployment
<1>d. UNCHANGED <<config, event, job, marker, ran, buffer>>
  BY <1>a, ListenDoes
<1>k. Kept /\ JobsCommitted'
  BY <1>b, <1>d DEF Kept, JobsCommitted, IsCommitted
<1>h. ASSUME BusStage(p, a)', \A b \in Agents : b # a => agent'[b] = agent[b],
             \A q \in Procs : notified'[q] \subseteq notified[q]
      PROVE  Stages' /\ Kept
  <2>1. a \in {Op(p), Bus(p)}
    BY <1>a
  <2>2. (a = Op(p) => OpStage(p, Op(p))') /\ (a = Bus(p) => BusStage(p, Bus(p))')
    BY <1>a, <1>h
  <2>3. \A q \in Procs : q # p \/ a # Op(p) => buffer'[q] = buffer[q]
    BY <1>d
  <2>4. \A q \in Procs : q # p \/ a # Op(p) => \A e \in Events : Inserted(e, q) => event'[e] = event[e]
    BY <1>d
  <2>5. \A j \in Jobs : job[j].state = "taken" => job'[j] = job[j]
    BY <1>d
  <2>6. Stages'
    BY <1>h, <1>k, <2>1, <2>2, <2>3, <2>4, <2>5, HandStage
  <2> QED BY <1>k, <2>6
<1>1. ASSUME agent[a].at = "idle", config.bus = "polling", NEW todo \in SUBSET Committed,
             Becomes(a, "polled", todo, 1, {}, NoJob), notified' = notified
      PROVE  Stages' /\ Kept
  <2>1. /\ \A f \in Events : Holds(a, f)' <=> f \in todo
        /\ agent'[a].at = "polled" /\ agent'[a].did = {}
        /\ \A b \in Agents : b # a => agent'[b] = agent[b]
    BY <1>1 DEF Becomes, Holds
  <2>2. \A f \in todo : IsCommitted(f)'
    BY <1>1, <1>d DEF Committed, IsCommitted
  <2>3. BusStage(p, a)'
    BY <1>1, <1>b, <1>d, <2>1, <2>2 DEF BusStage, At, Hands, Delivering, IsCommitted
  <2> QED BY <1>1, <1>h, <2>1, <2>3
<1>2. ASSUME NEW todo \in SUBSET Events, \A e \in todo : IsCommitted(e), config.bus # "noop",
             Becomes(a, IF config.dispatch = "sync" THEN "dispatching" ELSE "enqueuing", todo, 1, {}, NoJob),
             \A q \in Procs : notified'[q] \subseteq notified[q]
      PROVE  Stages' /\ Kept
  <2>1. /\ \A f \in Events : Holds(a, f)' <=> f \in todo
        /\ agent'[a].at = (IF config.dispatch = "sync" THEN "dispatching" ELSE "enqueuing")
        /\ agent'[a].did = {}
        /\ \A b \in Agents : b # a => agent'[b] = agent[b]
    BY <1>2 DEF Becomes, Holds
  <2>2. \A f \in todo : IsCommitted(f)'
    BY <1>2, <1>d DEF IsCommitted
  <2>3. (\A e \in notified'[p] : IsCommitted(e)') /\ (config.bus # "listen" => notified'[p] = {})
    BY <1>2, <1>b, <1>d DEF BusStage, IsCommitted
  <2>4. BusStage(p, a)'
    BY <1>2, <1>c, <1>d, <2>1, <2>2, <2>3 DEF BusStage, At, Hands, Delivering
  <2> QED BY <1>2, <1>h, <2>1, <2>4
<1>3. CASE agent[Bus(p)].at = "polled" /\ notified' = notified
           /\ Becomes(Bus(p), IF config.dispatch = "sync" THEN "dispatching" ELSE "enqueuing",
                       agent[Bus(p)].todo, 1, {}, NoJob)
  <2>1. config.bus # "noop" /\ \A e \in agent[a].todo : IsCommitted(e)
    BY <1>3, <1>a, <1>b, <1>c DEF BusStage, At, Holds
  <2> QED BY <1>2, <1>3, <1>a, <1>c, <2>1
<1>4. ASSUME NEW e \in notified[p], notified' = [notified EXCEPT ![p] = @ \ {e}],
             \/ Becomes(a, IF config.dispatch = "sync" THEN "dispatching" ELSE "enqueuing", {e}, 1, {}, NoJob)
             \/ agent' = agent
      PROVE  Stages' /\ Kept
  <2>1. config.bus # "noop" /\ IsCommitted(e) /\ e \in Events
    BY <1>b, <1>c, <1>4 DEF BusStage
  <2>2. \A q \in Procs : notified'[q] \subseteq notified[q]
    BY <1>4 DEF TypeOK
  <2>3. CASE agent' = agent
    <3>1. BusStage(p, a)'
      BY <1>a, <1>b, <1>c, <1>d, <1>k, <2>2, <2>3, BusKept DEF TypeOK
    <3> QED BY <1>h, <2>2, <2>3, <3>1
  <2> QED BY <1>2, <1>4, <2>1, <2>2, <2>3
<1>5. CASE /\ agent[Bus(p)].at = "idle" /\ config.bus = "polling" /\ notified' = notified
           /\ \E todo \in SUBSET Committed : Becomes(Bus(p), "polled", todo, 1, {}, NoJob)
  BY <1>1, <1>5, <1>a
<1>6. CASE \E e \in notified[p] :
              /\ notified' = [notified EXCEPT ![p] = @ \ {e}]
              /\ \/ Becomes(Bus(p), IF config.dispatch = "sync" THEN "dispatching" ELSE "enqueuing",
                            {e}, 1, {}, NoJob)
                 \/ agent' = agent
  BY <1>4, <1>6, <1>a
<1> QED BY <1>3, <1>5, <1>6, ListenDoes

(* A delivery that goes on or ends holds no more than before. *)
LEMMA DeliverStages ==
  ASSUME TypeOK, TypeOK', Stages, config' = config, NEW a \in Agents, Deliver(a)
  PROVE  Stages' /\ Kept
<1>p. PICK p \in Procs : \/ a = Op(p) /\ a[2] = "op"
                         \/ a = Bus(p) /\ a[2] = "bus"
                         \/ a = Worker(p) /\ a[2] = "work"
  BY WhichAgent
<1>d. UNCHANGED <<config, event, buffer, notified>>
  BY DEF Deliver, Enqueue, Call, HandlerCommits, Announce, HandlerThrows, Done
<1>k. Kept
  BY <1>d DEF Kept
<1>b. JobsCommitted /\ OpStage(p, Op(p)) /\ BusStage(p, Bus(p)) /\ WorkStage(p, Worker(p))
  BY DEF Stages, JobsCommitted
<1>c. /\ config.dispatch \in {"sync", "async"} /\ agent[a].todo \subseteq Events
      /\ agent[a].did \subseteq Events \X Subs /\ agent[a].sub \in Subs
      /\ \A j \in Jobs : job[j].event \in Events
  BY TheAgents DEF TypeOK, Deployment, JobRows
<1>j. job' = job => JobsCommitted'
  BY <1>b, <1>d DEF JobsCommitted, IsCommitted
(* Operations and the bus. *)
<1>h. ASSUME a[2] # "work", agent[a].at \in Delivering, agent'[a].at \in Delivering \cup {"idle"}, Hands(a)',
             agent'[a].at = "idle" => \A e \in Events : ~Holds(a, e)',
             \A e \in Events : Holds(a, e)' => Holds(a, e),
             \A b \in Agents : b # a => agent'[b] = agent[b],
             \A j \in Jobs : job[j].state = "taken" => job'[j] = job[j], JobsCommitted'
      PROVE  Stages' /\ Kept
  <2>1. a \in {Op(p), Bus(p)}
    BY <1>h, <1>p
  <2>2. a = Op(p) => OpStage(p, Op(p))'
    BY <1>b, <1>d, <1>h DEF OpStage, At, Delivering, IsCommitted
  <2>3. a = Bus(p) => BusStage(p, Bus(p))'
    BY <1>b, <1>d, <1>h DEF BusStage, At, Delivering, IsCommitted
  <2>4. \A q \in Procs : \A e \in notified'[q] : e \in notified[q] \/ (IsCommitted(e) /\ config.bus = "listen")
    BY <1>d
  <2>5. \A q \in Procs : q # p \/ a # Op(p) => buffer'[q] = buffer[q]
    BY <1>d
  <2>6. \A q \in Procs : q # p \/ a # Op(p) => \A e \in Events : Inserted(e, q) => event'[e] = event[e]
    BY <1>d
  <2>7. Stages'
    BY <1>h, <1>k, <2>1, <2>2, <2>3, <2>4, <2>5, <2>6, HandStage
  <2> QED BY <1>k, <2>7
(* Workers. *)
<1>w. ASSUME a[2] = "work", agent[a].at # "idle", agent'[a].at \in {"dispatching", "announcing", "handled"},
             agent'[a].job = agent[a].job, agent'[a].did # {} => agent'[a].at = "dispatching",
             \A e \in Events : Holds(a, e)' => Holds(a, e),
             \A b \in Agents : b # a => agent'[b] = agent[b], job' = job
      PROVE  Stages' /\ Kept
  <2>1. a = Worker(p)
    BY <1>w, <1>p
  <2>2. WorkStage(p, a)'
    BY <1>b, <1>d, <1>w, <2>1 DEF WorkStage, At
  <2>3. \A q \in Procs : q # p => agent[Worker(q)].job # agent'[Worker(p)].job \/ agent'[Worker(p)].job = NoJob
    BY <1>w, <2>1 DEF Stages
  <2>4. \A q \in Procs : q # p /\ agent[Worker(q)].job \in Jobs =>
            job'[agent[Worker(q)].job] = job[agent[Worker(q)].job]
    BY <1>w
  <2>5. Stages'
    BY <1>d, <1>j, <1>w, <2>1, <2>2, <2>3, <2>4, WorkerStage
  <2> QED BY <1>k, <2>5
<1>1. CASE Enqueue(a)
  <2>1. PICK e \in Events, j \in Jobs :
          /\ agent[a].at = "enqueuing" /\ e \in agent[a].todo
          /\ job[j].state = "none" /\ job' = [job EXCEPT ![j] = [state |-> "waiting", event |-> e]]
          /\ Becomes(a, "enqueuing", agent[a].todo \ {e}, agent[a].sub, agent[a].did, agent[a].job)
    BY <1>1, EnqueueDoes
  <2>2. /\ \A f \in Events : Holds(a, f)' => Holds(a, f)
        /\ agent'[a].at = "enqueuing" /\ agent'[a].did = agent[a].did
        /\ \A b \in Agents : b # a => agent'[b] = agent[b]
    BY <2>1 DEF Becomes, Holds
  <2>3. a[2] # "work"
    BY <1>b, <1>p, <2>1 DEF WorkStage, At
  <2>4. config.dispatch = "async" /\ IsCommitted(e) /\ Hands(a)
    BY <1>b, <1>c, <1>p, <2>1, <2>3 DEF OpStage, BusStage, Hands, At, Holds, Delivering
  <2>5. \A k \in Jobs : job[k].state = "taken" => job'[k] = job[k]
    BY <2>1 DEF TypeOK
  <2>6. JobsCommitted'
    BY <1>b, <1>d, <2>1, <2>4 DEF JobsCommitted, IsCommitted, TypeOK
  <2>7. Hands(a)'
    BY <1>d, <2>1, <2>2, <2>4 DEF Hands, At
  <2> QED BY <1>h, <2>1, <2>2, <2>3, <2>5, <2>6, <2>7 DEF Delivering
<1>2. CASE Call(a)
  <2>1. PICK e \in Events, did \in SUBSET (Events \X Subs) :
           /\ agent[a].at = "dispatching" /\ First(e, agent[a].todo)
           /\ did \in {agent[a].did, agent[a].did \cup {<<e, agent[a].sub>>}}
           /\ Becomes(a, IF a[2] = "work" THEN "dispatching" ELSE "called",
                      IF agent[a].sub = config.subs THEN agent[a].todo \ {e} ELSE agent[a].todo,
                      Following(agent[a].sub), did, agent[a].job)
           /\ job' = job
    BY <1>2, CallDoes
  <2>2. /\ agent'[a].at = (IF a[2] = "work" THEN "dispatching" ELSE "called")
        /\ agent'[a].job = agent[a].job /\ agent'[a].did = did /\ agent'[a].todo \subseteq agent[a].todo
        /\ \A b \in Agents : b # a => agent'[b] = agent[b]
    BY <2>1 DEF Becomes
  <2>3. e \in agent[a].todo
    BY <2>1 DEF First
  <2>4. \A f \in Events : Holds(a, f)' => Holds(a, f)
    BY <1>c, <2>1, <2>2, <2>3 DEF Holds
  <2>5. CASE a[2] = "work"
    BY <1>w, <2>1, <2>2, <2>4, <2>5
  <2>6. CASE a[2] # "work"
    <3>1. config.dispatch = "sync" /\ Hands(a)
      BY <1>b, <1>c, <1>p, <2>1, <2>6 DEF OpStage, BusStage, Hands, At
    <3>2. Hands(a)'
      BY <1>d, <2>2, <2>6, <3>1 DEF Hands, At
    <3>3. agent'[a].at = "called"
      BY <2>2, <2>6
    <3> QED BY <1>h, <1>j, <2>1, <2>2, <2>4, <2>6, <3>2, <3>3 DEF Delivering
  <2> QED BY <2>5, <2>6
<1>3. CASE HandlerCommits(a)
  <2>1. /\ IF a[2] = "work" THEN agent[a].at = "dispatching" /\ agent[a].todo = {}
                            ELSE agent[a].at = "called"
        /\ Becomes(a, "announcing", agent[a].todo, agent[a].sub, {}, agent[a].job)
        /\ job' = job
    BY <1>3, DeliverDoes
  <2>2. /\ \A f \in Events : Holds(a, f)' => Holds(a, f)
        /\ agent'[a].at = "announcing" /\ agent'[a].did = {} /\ agent'[a].job = agent[a].job
        /\ \A b \in Agents : b # a => agent'[b] = agent[b]
    BY <2>1 DEF Becomes, Holds
  <2>3. CASE a[2] = "work"
    BY <1>w, <2>1, <2>2, <2>3
  <2>4. CASE a[2] # "work"
    <3>1. config.dispatch = "sync"
      BY <1>b, <1>c, <1>p, <2>1, <2>4 DEF OpStage, BusStage, Hands, At
    <3>2. Hands(a)'
      BY <1>d, <2>2, <3>1 DEF Hands, At
    <3> QED BY <1>h, <1>j, <2>1, <2>2, <2>4, <3>2 DEF Delivering
  <2> QED BY <2>3, <2>4
<1>4. CASE Announce(a)
  <2>1. /\ agent[a].at = "announcing" /\ job' = job
        /\ Becomes(a, IF a[2] = "work" THEN "handled" ELSE "dispatching", agent[a].todo, agent[a].sub,
                   agent[a].did, agent[a].job)
    BY <1>4, DeliverDoes
  <2>2. /\ \A f \in Events : Holds(a, f)' => Holds(a, f)
        /\ agent'[a].at = (IF a[2] = "work" THEN "handled" ELSE "dispatching")
        /\ agent'[a].did = agent[a].did /\ agent'[a].job = agent[a].job
        /\ \A b \in Agents : b # a => agent'[b] = agent[b]
    BY <2>1 DEF Becomes, Holds
  <2>3. agent[a].did = {}
    BY <1>b, <1>p, <2>1 DEF OpStage, BusStage, WorkStage, Hands, At
  <2>4. CASE a[2] = "work"
    BY <1>w, <2>1, <2>2, <2>3, <2>4
  <2>5. CASE a[2] # "work"
    <3>1. config.dispatch = "sync"
      BY <1>b, <1>c, <1>p, <2>1, <2>5 DEF OpStage, BusStage, Hands, At
    <3>2. Hands(a)'
      BY <1>d, <2>2, <2>3, <2>5, <3>1 DEF Hands, At
    <3>3. agent'[a].at = "dispatching"
      BY <2>2, <2>5
    <3> QED BY <1>h, <1>j, <2>1, <2>2, <2>5, <3>2, <3>3 DEF Delivering
  <2> QED BY <2>4, <2>5
<1>5. CASE HandlerThrows(a) \/ Done(a)
  <2>1. /\ a[2] # "work" /\ agent[a].at \in {"called", "enqueuing", "announcing", "dispatching"}
        /\ Becomes(a, "idle", {}, 1, {}, NoJob) /\ job' = job
    BY <1>5, DeliverDoes
  <2>2. /\ \A f \in Events : ~Holds(a, f)'
        /\ agent'[a].at = "idle" /\ agent'[a].did = {}
        /\ \A b \in Agents : b # a => agent'[b] = agent[b]
    BY <2>1 DEF Becomes, Holds
  <2>3. Hands(a)'
    BY <2>2 DEF Hands, At
  <2> QED BY <1>h, <1>j, <2>1, <2>2, <2>3 DEF Delivering
<1> QED BY <1>1, <1>2, <1>3, <1>4, <1>5 DEF Deliver

LEMMA WorkStages ==
  ASSUME TypeOK, TypeOK', Stages, config' = config, NEW p \in Procs, Work(p)
  PROVE  Stages' /\ Kept
<1>a. PICK a \in Agents : a = Worker(p)
  BY Distinct
<1>b. JobsCommitted /\ WorkStage(p, a)
  BY <1>a DEF Stages, JobsCommitted
<1>c. /\ job \in [Jobs -> JobRows] /\ NoJob \notin Jobs
      /\ \A q \in Procs : agent[Worker(q)].job \in Jobs => job[agent[Worker(q)].job].state = "taken"
  <2>1. ASSUME NEW q \in Procs, agent[Worker(q)].job \in Jobs
        PROVE  job[agent[Worker(q)].job].state = "taken"
    <3>1. WorkStage(q, Worker(q)) /\ NoJob \notin Jobs
      BY TheAgents, Distinct DEF Stages
    <3> QED BY <2>1, <3>1 DEF WorkStage
  <2> QED BY <2>1, TheAgents DEF TypeOK
<1>1. CASE TakeJob(p)
  <2>1. PICK j \in Jobs :
           /\ agent[a].at = "idle" /\ p \in config.workers
           /\ \/ job[j].state = "waiting"
              \/ job[j].state = "taken" /\ \A q \in Procs : agent[Worker(q)].job # j
           /\ job' = [job EXCEPT ![j].state = "taken"]
           /\ Becomes(a, "dispatching", {job[j].event}, 1, {}, j)
           /\ UNCHANGED <<config, event, marker, ran, buffer, notified>>
    BY <1>1, <1>a, TakeJobDoes
  <2>2. /\ \A f \in Events : Holds(a, f)' <=> f = job[j].event
        /\ agent'[a].at = "dispatching" /\ agent'[a].did = {} /\ agent'[a].job = j
        /\ \A b \in Agents : b # a => agent'[b] = agent[b]
    BY <2>1 DEF Becomes, Holds
  <2>3. job'[j].state = "taken" /\ job'[j].event = job[j].event /\ \A k \in Jobs : k # j => job'[k] = job[k]
    BY <1>c, <2>1 DEF JobRows
  <2>4. WorkStage(p, a)'
    BY <2>1, <2>2, <2>3 DEF WorkStage, At
  <2>5. \A q \in Procs : agent[Worker(q)].job # j
    BY <1>c, <2>1
  <2>6. JobsCommitted'
    BY <1>b, <2>1, <2>3 DEF JobsCommitted, IsCommitted
  <2>7. \A q \in Procs : q # p /\ agent[Worker(q)].job \in Jobs =>
            job'[agent[Worker(q)].job] = job[agent[Worker(q)].job]
    BY <2>3, <2>5
  <2>8. Stages'
    BY <1>a, <2>1, <2>2, <2>4, <2>5, <2>6, <2>7, WorkerStage
  <2> QED BY <2>1, <2>8 DEF Kept
<1>2. CASE JobCompletes(p) \/ JobFails(p)
  <2>1. PICK st \in {"none", "waiting"} : job' = [job EXCEPT ![agent[a].job].state = st]
    BY <1>2, <1>a, WorkDoes
  <2>2. /\ agent[a].at # "idle"
        /\ Becomes(a, "idle", {}, 1, {}, NoJob)
        /\ UNCHANGED <<config, event, marker, ran, buffer, notified>>
    BY <1>2, <1>a, WorkDoes
  <2>3. /\ \A f \in Events : ~Holds(a, f)'
        /\ agent'[a].at = "idle" /\ agent'[a].did = {} /\ agent'[a].job = NoJob
        /\ \A b \in Agents : b # a => agent'[b] = agent[b]
    BY <2>2 DEF Becomes, Holds
  <2>4. agent[a].job \in Jobs
    BY <1>b, <2>2 DEF WorkStage, At
  <2>5. /\ \A k \in Jobs : k # agent[a].job => job'[k] = job[k]
        /\ job'[agent[a].job].state = st /\ job'[agent[a].job].event = job[agent[a].job].event
    BY <1>c, <2>1, <2>4 DEF JobRows
  <2>6. \A q \in Procs : q # p => agent[Worker(q)].job # agent[a].job
    BY <1>a, <1>c, <2>4 DEF Stages
  <2>7. WorkStage(p, a)'
    BY <2>3 DEF WorkStage, At
  <2>8. JobsCommitted'
    <3>1. job[agent[a].job].state = "taken"
      BY <1>a, <1>c, <2>4
    <3> QED BY <1>b, <2>2, <2>4, <2>5, <3>1 DEF JobsCommitted, IsCommitted
  <2>9. \A q \in Procs : q # p /\ agent[Worker(q)].job \in Jobs =>
            job'[agent[Worker(q)].job] = job[agent[Worker(q)].job]
    BY <2>5, <2>6
  <2>10. Stages'
    BY <1>a, <2>2, <2>3, <2>7, <2>8, <2>9, WorkerStage
  <2> QED BY <2>2, <2>10 DEF Kept
<1> QED BY <1>1, <1>2 DEF Work

LEMMA CrashStages ==
  ASSUME TypeOK, TypeOK', Stages, NEW p \in Procs, Crash(p)
  PROVE  Stages' /\ Kept
<1>1. /\ event' = [e \in Events |-> IF event[e] = [state |-> "inserted", by |-> p]
                                    THEN [event[e] EXCEPT !.state = "aborted"] ELSE event[e]]
      /\ agent' = [a \in Agents |-> IF a[1] = p THEN Idle ELSE agent[a]]
      /\ buffer' = [buffer EXCEPT ![p] = {}] /\ notified' = [notified EXCEPT ![p] = {}]
      /\ UNCHANGED <<config, job, marker, ran>>
  BY DEF Crash
<1>2. Kept /\ \A q \in Procs : q # p => \A e \in Events : Inserted(e, q) => event'[e] = event[e]
  BY <1>1 DEF Kept, IsCommitted, Inserted
<1>3. /\ buffer'[p] = {} /\ notified'[p] = {}
      /\ \A q \in Procs : q # p => buffer'[q] = buffer[q] /\ notified'[q] = notified[q]
  BY <1>1 DEF TypeOK
<1>4. \A q \in Procs : \A a \in {Op(q), Bus(q), Worker(q)} : agent'[a] = IF q = p THEN Idle ELSE agent[a]
  BY <1>1 DEF Op, Bus, Worker, Agents, Kinds
<1>5. ASSUME NEW q \in Procs, q # p
      PROVE  OpStage(q, Op(q))' /\ BusStage(q, Bus(q))' /\ WorkStage(q, Worker(q))'
  <2>1. /\ agent'[Op(q)] = agent[Op(q)] /\ agent'[Bus(q)] = agent[Bus(q)]
        /\ agent'[Worker(q)] = agent[Worker(q)] /\ buffer'[q] = buffer[q] /\ notified'[q] = notified[q]
    BY <1>3, <1>4, <1>5
  <2>2. OpStage(q, Op(q)) /\ BusStage(q, Bus(q)) /\ WorkStage(q, Worker(q)) /\ notified'[q] \subseteq Events
    BY <2>1 DEF Stages, TypeOK
  <2>3. OpStage(q, Op(q))'
    BY <1>1, <1>2, <1>5, <2>1, <2>2, OpKept
  <2>4. BusStage(q, Bus(q))'
    BY <1>1, <1>2, <2>1, <2>2, BusKept
  <2>5. WorkStage(q, Worker(q))'
    BY <1>1, <2>1, <2>2, WorkKept
  <2> QED BY <2>3, <2>4, <2>5
<1>6. OpStage(p, Op(p))' /\ BusStage(p, Bus(p))' /\ WorkStage(p, Worker(p))'
  <2>1. ASSUME NEW a \in {Op(p), Bus(p), Worker(p)}
        PROVE  agent'[a].at = "idle" /\ agent'[a].did = {} /\ agent'[a].job = NoJob /\ \A e : ~Holds(a, e)'
    <3>1. agent'[a] = Idle
      BY <1>4
    <3>2. Idle.todo = {} /\ Idle.did = {} /\ Idle.at = "idle" /\ Idle.job = NoJob
      BY IdleType
    <3> QED BY <3>1, <3>2 DEF Holds
  <2>2. OpStage(p, Op(p))'
    BY <1>3, <2>1 DEF OpStage, At, Hands, Delivering
  <2>3. BusStage(p, Bus(p))'
    BY <1>3, <2>1 DEF BusStage, At, Hands
  <2>4. WorkStage(p, Worker(p))'
    BY <2>1 DEF WorkStage, At
  <2> QED BY <2>2, <2>3, <2>4
<1>7. \A q, r \in Procs : agent'[Worker(q)].job = agent'[Worker(r)].job => q = r \/ agent'[Worker(q)].job = NoJob
  <2>1. \A q, r \in Procs : agent[Worker(q)].job = agent[Worker(r)].job => q = r \/ agent[Worker(q)].job = NoJob
    BY DEF Stages
  <2>2. \A q \in Procs : agent'[Worker(q)].job = IF q = p THEN NoJob ELSE agent[Worker(q)].job
    BY <1>4, IdleType
  <2> QED BY <2>1, <2>2
<1>8. JobsCommitted'
  <2>1. JobsCommitted /\ \A j \in Jobs : job[j].event \in Events
    BY DEF Stages, JobsCommitted, TypeOK, JobRows
  <2> QED BY <1>1, <1>2, <2>1 DEF JobsCommitted, IsCommitted, Kept
<1> QED BY <1>2, <1>5, <1>6, <1>7, <1>8 DEF Stages, JobsCommitted

LEMMA InitStages == Init => Stages
<1> SUFFICES ASSUME Init PROVE Stages
  OBVIOUS
<1>1. TypeOK
  BY InitType
<1>2. ASSUME NEW a \in Agents
      PROVE  agent[a].at = "idle" /\ agent[a].did = {} /\ agent[a].job = NoJob /\ \A e : ~Holds(a, e)
  <2>1. agent[a] = Idle
    BY DEF Init
  <2>2. Idle.todo = {} /\ Idle.did = {} /\ Idle.at = "idle" /\ Idle.job = NoJob
    BY <1>1, IdleType
  <2> QED BY <2>1, <2>2 DEF Holds
<1>3. \A q \in Procs : buffer[q] = {} /\ notified[q] = {}
  BY DEF Init
<1>4. \A j \in Jobs : job[j].state = "none"
  BY DEF Init
<1>5. ASSUME NEW p \in Procs PROVE OpStage(p, Op(p)) /\ BusStage(p, Bus(p)) /\ WorkStage(p, Worker(p))
  <2>1. OpStage(p, Op(p))
    BY <1>2, <1>3, Distinct DEF OpStage, At, Hands, Delivering
  <2>2. BusStage(p, Bus(p))
    BY <1>2, <1>3, Distinct DEF BusStage, At, Hands
  <2>3. WorkStage(p, Worker(p))
    BY <1>2, Distinct DEF WorkStage, At
  <2> QED BY <2>1, <2>2, <2>3
<1>6. \A p \in Procs : agent[Worker(p)].job = NoJob
  BY <1>2, Distinct
<1> QED BY <1>4, <1>5, <1>6 DEF Stages

LEMMA StagesStep ==
  ASSUME TypeOK, Stages, Step
  PROVE  TypeOK' /\ Stages' /\ Kept /\ config' = config
<1>1. TypeOK' /\ config' = config
  BY StepType
<1> QED BY <1>1, OperateStages, ListenStages, WorkStages, CrashStages, DeliverStages DEF Step
-----------------------------------------------------------------------------
(***************************************************************************)
(* What handlers leave behind.                                             *)
(***************************************************************************)
LEMMA Handlers ==
  ASSUME TypeOK, Step
  PROVE  \/ UNCHANGED <<marker, ran>> /\ \A a \in Agents : agent'[a].did \in {agent[a].did, {}}
         \/ \E a \in Agents : Call(a)
         \/ \E a \in Agents : HandlerCommits(a)
<1> DEFINE Quiet == UNCHANGED <<marker, ran>> /\ \A a \in Agents : agent'[a].did \in {agent[a].did, {}}
<1>h. ASSUME NEW a \in Agents, NEW at, NEW todo, NEW sub, NEW did \in {agent[a].did, {}}, NEW held,
             Becomes(a, at, todo, sub, did, held), UNCHANGED <<marker, ran>>
      PROVE  Quiet
  BY <1>h DEF Becomes
<1>1. ASSUME NEW p \in Procs, Persist(p) PROVE Quiet
  BY <1>1, <1>h, PersistDoes, Distinct
<1>2. ASSUME NEW p \in Procs, Operate(p) PROVE Quiet
  <2>1. Op(p) \in Agents
    BY Distinct
  <2>2. ASSUME Commit(p) PROVE Quiet
    BY <1>h, <2>1, <2>2, OperateDoes
  <2>3. ASSUME Rollback(p) PROVE Quiet
    BY <1>h, <2>1, <2>3, OperateDoes
  <2>4. ASSUME Publish(p) PROVE Quiet
    BY <1>h, <2>1, <2>4, OperateDoes
  <2>5. ASSUME PublishThrows(p) PROVE Quiet
    BY <1>h, <2>1, <2>5, OperateDoes
  <2>6. ASSUME TakeCommitted(p) PROVE Quiet
    BY <1>h, <2>1, <2>6, OperateDoes
  <2> QED BY <1>2, <2>2, <2>3, <2>4, <2>5, <2>6 DEF Operate
<1>3. ASSUME NEW p \in Procs, Listen(p) PROVE Quiet
  BY <1>3, <1>h, ListenDoes, Distinct
<1>4. ASSUME NEW p \in Procs, Work(p) PROVE Quiet
  <2>1. Worker(p) \in Agents
    BY Distinct
  <2>2. ASSUME TakeJob(p) PROVE Quiet
    BY <1>h, <2>1, <2>2, TakeJobDoes
  <2>3. ASSUME JobCompletes(p) \/ JobFails(p) PROVE Quiet
    BY <1>h, <2>1, <2>3, WorkDoes
  <2> QED BY <1>4, <2>2, <2>3 DEF Work
<1>5. ASSUME NEW p \in Procs, Crash(p) PROVE Quiet
  BY <1>5, IdleType DEF Crash
<1>6. ASSUME NEW a \in Agents, Enqueue(a) PROVE Quiet
  BY <1>6, <1>h, EnqueueDoes
<1>7. ASSUME NEW a \in Agents, Announce(a) PROVE Quiet
  BY <1>7, <1>h, DeliverDoes
<1>8. ASSUME NEW a \in Agents, HandlerThrows(a) \/ Done(a) PROVE Quiet
  BY <1>8, <1>h, DeliverDoes
<1> QED BY <1>1, <1>2, <1>3, <1>4, <1>5, <1>6, <1>7, <1>8 DEF Step, Deliver

LEMMA CommitsDo ==
  ASSUME TypeOK, NEW a \in Agents, HandlerCommits(a), NEW p \in Procs, NEW e \in Events, NEW s \in Subs
  PROVE  /\ ran[p][e][s] \in Nat
         /\ ran'[p][e][s] = IF p = a[1] /\ <<e, s>> \in agent[a].did THEN ran[p][e][s] + 1 ELSE ran[p][e][s]
<1>1. ran' = [ran EXCEPT ![a[1]] = [f \in Events |-> [t \in Subs |->
                   IF <<f, t>> \in agent[a].did THEN @[f][t] + 1 ELSE @[f][t]]]]
  BY DeliverDoes
<1>2. ran \in [Procs -> [Events -> [Subs -> Nat]]]
  BY DEF TypeOK
<1> QED BY <1>1, <1>2

(* What a handler is called for has committed. *)
LEMMA DidCommitted ==
  ASSUME TypeOK, Stages, NEW a \in Agents, NEW e \in Events, NEW s \in Subs, <<e, s>> \in agent[a].did
  PROVE  IsCommitted(e)
<1>1. PICK p \in Procs : a = Op(p) \/ a = Bus(p) \/ a = Worker(p)
  BY WhichAgent
<1>2. Holds(a, e) /\ agent[a].did # {}
  BY DEF Holds
<1>3. CASE a = Op(p)
  <2>1. OpStage(p, a)
    BY <1>3 DEF Stages
  <2>2. At(a, Delivering)
    BY <1>2, <2>1 DEF OpStage, Hands, At, Delivering
  <2> QED BY <1>2, <2>1, <2>2 DEF OpStage
<1>4. CASE a = Bus(p)
  <2>1. BusStage(p, a)
    BY <1>4 DEF Stages
  <2> QED BY <1>2, <2>1 DEF BusStage
<1>5. CASE a = Worker(p)
  <2>1. WorkStage(p, a) /\ \A j \in Jobs : job[j].state # "none" => IsCommitted(job[j].event)
    BY <1>5 DEF Stages
  <2>2. agent[a].job \in Jobs /\ job[agent[a].job].state = "taken" /\ e = job[agent[a].job].event
    BY <1>2, <2>1 DEF WorkStage, At
  <2> QED BY <2>1, <2>2
<1> QED BY <1>1, <1>3, <1>4, <1>5

LEMMA MarksStep ==
  ASSUME TypeOK, Stages, Marks, Kept, config' = config, Step
  PROVE  Marks'
<1>1. \A e \in Events : IsCommitted(e) => IsCommitted(e)'
  BY DEF Kept, IsCommitted
<1>2. CASE UNCHANGED <<marker, ran>>
  BY <1>1, <1>2 DEF Marks, Handled
<1>3. ASSUME NEW a \in Agents, HandlerCommits(a) PROVE Marks'
  <2>1. marker' = Marked(agent[a].did) /\ a[1] \in Procs
    BY <1>3, DeliverDoes, TheAgents
  <2> SUFFICES ASSUME NEW e \in Events, NEW s \in Subs
               PROVE  /\ (<<e, s>> \in marker') <=> (config.idempotent /\ Handled(e, s)')
                      /\ Handled(e, s)' => IsCommitted(e)'
    BY DEF Marks
  <2>2. Handled(e, s)' <=> (Handled(e, s) \/ <<e, s>> \in agent[a].did)
    <3>1. \A p \in Procs : /\ ran[p][e][s] \in Nat
                           /\ ran'[p][e][s] = IF p = a[1] /\ <<e, s>> \in agent[a].did
                                              THEN ran[p][e][s] + 1 ELSE ran[p][e][s]
      BY <1>3, CommitsDo
    <3>2. ASSUME <<e, s>> \in agent[a].did PROVE Handled(e, s)'
      <4>1. ran'[a[1]][e][s] > 0
        BY <2>1, <3>1, <3>2
      <4> QED BY <2>1, <4>1 DEF Handled
    <3>3. ASSUME NEW p \in Procs PROVE ran[p][e][s] > 0 => ran'[p][e][s] > 0
      BY <3>1
    <3>4. ASSUME <<e, s>> \notin agent[a].did PROVE Handled(e, s)' <=> Handled(e, s)
      BY <3>1, <3>4 DEF Handled
    <3>5. Handled(e, s) => Handled(e, s)'
      BY <3>3 DEF Handled
    <3> QED BY <3>2, <3>4, <3>5
  <2>3. <<e, s>> \in agent[a].did => IsCommitted(e)
    BY DidCommitted
  <2>4. <<e, s>> \in marker' <=> (<<e, s>> \in marker \/ (config.idempotent /\ <<e, s>> \in agent[a].did))
    BY <2>1 DEF Marked
  <2> QED BY <1>1, <2>2, <2>3, <2>4 DEF Marks
<1>4. ASSUME NEW a \in Agents, Call(a) PROVE UNCHANGED <<marker, ran>>
  BY <1>4 DEF Call
<1> QED BY <1>2, <1>3, <1>4, Handlers
-----------------------------------------------------------------------------
(***************************************************************************)
(* Without a bus an event is with its operation or in one job.             *)
(***************************************************************************)
OpHas(p, e) == e \in buffer[p] \/ Holds(Op(p), e)
Shrinks ==
  /\ \A p \in Procs, e \in Events : OpHas(p, e)' => OpHas(p, e) \/ ~IsCommitted(e)
  /\ \A j \in Jobs : job'[j].event = job[j].event /\ (job'[j].state # "none" => job[j].state # "none")

LEMMA OneJobKept ==
  ASSUME TypeOK, Stages, OneJob, config' = config, Shrinks
  PROVE  OneJob'
<1> SUFFICES ASSUME config.bus = "noop"
             PROVE  /\ \A j, k \in Jobs : j # k /\ job'[j].state # "none" /\ job'[k].state # "none" =>
                         job'[j].event # job'[k].event
                    /\ \A j \in Jobs, p \in Procs, e \in Events :
                         job'[j].state # "none" /\ e = job'[j].event => ~OpHas(p, e)'
  <2>1. \A j \in Jobs : job'[j].event \in Events
    BY DEF Shrinks, TypeOK, JobRows
  <2> QED BY <2>1 DEF OneJob, OpHas, Holds
<1>1. \A j, k \in Jobs : j # k /\ job'[j].state # "none" /\ job'[k].state # "none" =>
         job'[j].event # job'[k].event
  BY DEF OneJob, Shrinks
<1>2. ASSUME NEW j \in Jobs, NEW p \in Procs, NEW f \in Events, job'[j].state # "none", f = job'[j].event
      PROVE  ~OpHas(p, f)'
  <2>1. job[j].state # "none" /\ job'[j].event = job[j].event /\ job[j].event \in Events
    BY <1>2 DEF Shrinks, TypeOK, JobRows
  <2>2. ~OpHas(p, job[j].event) /\ IsCommitted(job[j].event)
    BY <2>1 DEF OneJob, OpHas, Stages
  <2>3. \A e \in Events : OpHas(p, e)' => OpHas(p, e) \/ ~IsCommitted(e)
    BY DEF Shrinks
  <2>4. f = job[j].event
    BY <1>2, <2>1
  <2> QED BY <2>2, <2>3, <2>4
<1> QED BY <1>1, <1>2

(* Most steps give an operation nothing that has committed before. *)
LEMMA OperateShrinks ==
  ASSUME TypeOK, Stages, NEW p \in Procs, Persist(p) \/ Operate(p)
  PROVE  Shrinks
<1>a. PICK a \in Agents : a = Op(p)
  BY Distinct
<1>h. ASSUME \A b \in Agents : b # a => agent'[b] = agent[b], job' = job,
             \A q \in Procs : q # p => buffer'[q] = buffer[q],
             \A e \in Events : OpHas(p, e)' => OpHas(p, e) \/ ~IsCommitted(e)
      PROVE  Shrinks
  <2>1. ASSUME NEW q \in Procs, q # p, NEW e \in Events PROVE OpHas(q, e)' => OpHas(q, e)
    <3>1. agent'[Op(q)] = agent[Op(q)]
      BY <1>a, <1>h, <2>1, Distinct
    <3> QED BY <1>h, <2>1, <3>1 DEF OpHas, Holds
  <2> QED BY <1>h, <2>1 DEF Shrinks
<1>b. buffer \in [Procs -> SUBSET Events]
  BY DEF TypeOK
<1>1. CASE Persist(p)
  <2>1. PICK e \in Events : /\ event[e].state = "none"
                            /\ Becomes(a, "persisted", {e}, 1, {}, NoJob)
                            /\ job' = job /\ buffer' = buffer
    BY <1>1, <1>a, PersistDoes
  <2>2. \A f \in Events : OpHas(p, f)' => f \in buffer[p] \/ f = e
    BY <1>a, <2>1 DEF Becomes, OpHas, Holds
  <2>3. ~IsCommitted(e)
    BY <2>1 DEF IsCommitted
  <2>4. \A f \in Events : OpHas(p, f)' => OpHas(p, f) \/ ~IsCommitted(f)
    BY <2>2, <2>3 DEF OpHas
  <2> QED BY <1>h, <2>1, <2>4 DEF Becomes
<1>2. CASE Commit(p)
  <2>1. /\ Becomes(a, "committed", agent[a].todo, agent[a].sub, agent[a].did, agent[a].job)
        /\ job' = job /\ buffer' = [buffer EXCEPT ![p] = @ \cup agent[a].todo]
    BY <1>2, <1>a, OperateDoes
  <2>2. \A f \in Events : OpHas(p, f)' => OpHas(p, f)
    BY <1>a, <1>b, <2>1 DEF Becomes, OpHas, Holds
  <2>3. \A q \in Procs : q # p => buffer'[q] = buffer[q]
    BY <1>b, <2>1
  <2> QED BY <1>h, <2>1, <2>2, <2>3 DEF Becomes
<1>3. CASE Rollback(p) \/ PublishThrows(p)
  <2>1. Becomes(a, "idle", {}, 1, {}, NoJob) /\ job' = job /\ buffer' = buffer
    BY <1>3, <1>a, OperateDoes
  <2>2. \A f \in Events : OpHas(p, f)' => OpHas(p, f)
    BY <1>a, <2>1 DEF Becomes, OpHas, Holds
  <2> QED BY <1>h, <2>1, <2>2 DEF Becomes
<1>4. CASE Publish(p)
  <2>1. Becomes(a, "published", {}, 1, {}, NoJob) /\ job' = job /\ buffer' = buffer
    BY <1>4, <1>a, OperateDoes
  <2>2. \A f \in Events : OpHas(p, f)' => OpHas(p, f)
    BY <1>a, <2>1 DEF Becomes, OpHas, Holds
  <2> QED BY <1>h, <2>1, <2>2 DEF Becomes
<1>5. CASE TakeCommitted(p)
  <2>1. PICK at : Becomes(a, at, buffer[p], 1, {}, NoJob)
    BY <1>5, <1>a, OperateDoes
  <2>2. job' = job /\ buffer' = [buffer EXCEPT ![p] = {}]
    BY <1>5, OperateDoes
  <2>3. \A f \in Events : OpHas(p, f)' => OpHas(p, f)
    BY <1>a, <1>b, <2>1, <2>2 DEF Becomes, OpHas, Holds
  <2>4. \A q \in Procs : q # p => buffer'[q] = buffer[q]
    BY <1>b, <2>2
  <2> QED BY <1>h, <2>1, <2>2, <2>3, <2>4 DEF Becomes
<1> QED BY <1>1, <1>2, <1>3, <1>4, <1>5 DEF Operate

LEMMA ListenShrinks ==
  ASSUME TypeOK, NEW p \in Procs, Listen(p)
  PROVE  Shrinks
<1>1. /\ \A b \in Agents : b # Bus(p) => agent'[b] = agent[b]
      /\ job' = job /\ buffer' = buffer
  BY ListenDoes DEF Becomes
<1>2. \A q \in Procs : agent'[Op(q)] = agent[Op(q)]
  BY <1>1, Distinct
<1> QED BY <1>1, <1>2 DEF Shrinks, OpHas, Holds

LEMMA WorkShrinks ==
  ASSUME TypeOK, Stages, NEW p \in Procs, Work(p)
  PROVE  Shrinks
<1>1. job \in [Jobs -> JobRows]
  BY DEF TypeOK
<1>2. CASE TakeJob(p)
  <2>1. PICK j \in Jobs : /\ job[j].state \in {"waiting", "taken"} /\ job' = [job EXCEPT ![j].state = "taken"]
                          /\ Becomes(Worker(p), "dispatching", {job[j].event}, 1, {}, j)
                          /\ buffer' = buffer
    BY <1>2, TakeJobDoes
  <2>2. \A q \in Procs : agent'[Op(q)] = agent[Op(q)]
    BY <2>1, Distinct DEF Becomes
  <2>3. \A k \in Jobs : job'[k].event = job[k].event /\ (job'[k].state # "none" => job[k].state # "none")
    BY <1>1, <2>1 DEF JobRows
  <2> QED BY <2>1, <2>2, <2>3 DEF Shrinks, OpHas, Holds
<1>3. CASE JobCompletes(p) \/ JobFails(p)
  <2>1. PICK st \in {"none", "waiting"} : job' = [job EXCEPT ![agent[Worker(p)].job].state = st]
    BY <1>3, WorkDoes
  <2>2. agent[Worker(p)].at # "idle" /\ Becomes(Worker(p), "idle", {}, 1, {}, NoJob) /\ buffer' = buffer
    BY <1>3, WorkDoes
  <2>3. \A q \in Procs : agent'[Op(q)] = agent[Op(q)]
    BY <2>2, Distinct DEF Becomes
  <2>4. agent[Worker(p)].job \in Jobs /\ job[agent[Worker(p)].job].state = "taken"
    BY <2>2 DEF Stages, WorkStage, At
  <2>5. \A k \in Jobs : job'[k].event = job[k].event /\ (job'[k].state # "none" => job[k].state # "none")
    BY <1>1, <2>1, <2>4 DEF JobRows
  <2> QED BY <2>2, <2>3, <2>5 DEF Shrinks, OpHas, Holds
<1> QED BY <1>2, <1>3 DEF Work

LEMMA CrashShrinks ==
  ASSUME TypeOK, NEW p \in Procs, Crash(p)
  PROVE  Shrinks
<1>1. /\ agent' = [a \in Agents |-> IF a[1] = p THEN Idle ELSE agent[a]]
      /\ buffer' = [buffer EXCEPT ![p] = {}] /\ job' = job
  BY DEF Crash
<1>2. Idle.todo = {} /\ Idle.did = {}
  BY IdleType
<1>3. \A q \in Procs : agent'[Op(q)] = (IF q = p THEN Idle ELSE agent[Op(q)])
  BY <1>1 DEF Op, Agents, Kinds
<1>4. \A q \in Procs : buffer'[q] = IF q = p THEN {} ELSE buffer[q]
  BY <1>1 DEF TypeOK
<1>5. ASSUME NEW q \in Procs, NEW e \in Events PROVE OpHas(q, e)' => OpHas(q, e)
  BY <1>2, <1>3, <1>4 DEF OpHas, Holds
<1> QED BY <1>1, <1>5 DEF Shrinks

LEMMA DeliverShrinks ==
  ASSUME TypeOK, NEW a \in Agents, Deliver(a), ~Enqueue(a)
  PROVE  Shrinks
<1>h. ASSUME NEW at, NEW todo, NEW sub, NEW did, NEW held, Becomes(a, at, todo, sub, did, held),
             job' = job, buffer' = buffer,
             \A e \in Events : e \in todo => e \in agent[a].todo,
             \A e \in Events, s \in Subs : <<e, s>> \in did => Holds(a, e)
      PROVE  Shrinks
  <2>1. ASSUME NEW e \in Events PROVE Holds(a, e)' => Holds(a, e)
    BY <1>h DEF Becomes, Holds
  <2>2. ASSUME NEW q \in Procs, NEW e \in Events PROVE Holds(Op(q), e)' => Holds(Op(q), e)
    <3>1. CASE Op(q) = a
      BY <2>1, <3>1
    <3>2. CASE Op(q) # a
      BY <1>h, <3>2, Distinct DEF Becomes, Holds
    <3> QED BY <3>1, <3>2
  <2> QED BY <1>h, <2>2 DEF Shrinks, OpHas
<1>g. \A e \in Events, s \in Subs : <<e, s>> \in agent[a].did => Holds(a, e)
  BY DEF Holds
<1>1. ASSUME Call(a) PROVE Shrinks
  <2>1. PICK e \in Events, did \in SUBSET (Events \X Subs) :
           /\ First(e, agent[a].todo)
           /\ did \in {agent[a].did, agent[a].did \cup {<<e, agent[a].sub>>}}
           /\ Becomes(a, IF a[2] = "work" THEN "dispatching" ELSE "called",
                      IF agent[a].sub = config.subs THEN agent[a].todo \ {e} ELSE agent[a].todo,
                      Following(agent[a].sub), did, agent[a].job)
           /\ job' = job /\ buffer' = buffer
    BY <1>1, CallDoes
  <2>2. \A f \in Events, s \in Subs : <<f, s>> \in did => Holds(a, f)
    BY <1>g, <2>1 DEF First, Holds
  <2> QED BY <1>h, <2>1, <2>2
<1>2. ASSUME HandlerCommits(a) PROVE Shrinks
  <2>1. /\ Becomes(a, "announcing", agent[a].todo, agent[a].sub, {}, agent[a].job)
        /\ job' = job /\ buffer' = buffer
    BY <1>2, DeliverDoes
  <2> QED BY <1>h, <2>1
<1>3. ASSUME Announce(a) PROVE Shrinks
  <2>1. PICK at : Becomes(a, at, agent[a].todo, agent[a].sub, agent[a].did, agent[a].job)
    BY <1>3, DeliverDoes
  <2>2. job' = job /\ buffer' = buffer
    BY <1>3, DeliverDoes
  <2> QED BY <1>g, <1>h, <2>1, <2>2
<1>4. ASSUME HandlerThrows(a) \/ Done(a) PROVE Shrinks
  <2>1. Becomes(a, "idle", {}, 1, {}, NoJob) /\ job' = job /\ buffer' = buffer
    BY <1>4, DeliverDoes
  <2> QED BY <1>h, <2>1
<1> QED BY <1>1, <1>2, <1>3, <1>4 DEF Deliver

(* The job of an event is written by the process that publishes it, which  *)
(* has no second place for the event.                                      *)
LEMMA EnqueueOneJob ==
  ASSUME TypeOK, Stages, OneJob, config' = config, NEW a \in Agents, Enqueue(a)
  PROVE  OneJob'
<1> SUFFICES ASSUME config.bus = "noop" PROVE OneJob'
  BY DEF OneJob
<1>1. PICK e \in Events, j \in Jobs :
        /\ agent[a].at = "enqueuing" /\ e \in agent[a].todo
        /\ job[j].state = "none" /\ job' = [job EXCEPT ![j] = [state |-> "waiting", event |-> e]]
        /\ Becomes(a, "enqueuing", agent[a].todo \ {e}, agent[a].sub, agent[a].did, agent[a].job)
        /\ buffer' = buffer
  BY EnqueueDoes
<1>2. PICK p \in Procs : a = Op(p)
  <2>1. PICK p \in Procs : a = Op(p) \/ a = Bus(p) \/ a = Worker(p)
    BY WhichAgent
  <2>2. BusStage(p, Bus(p)) /\ WorkStage(p, Worker(p))
    BY DEF Stages
  <2> QED BY <1>1, <2>1, <2>2 DEF BusStage, WorkStage, At
<1>3. OpStage(p, Op(p)) /\ Holds(Op(p), e) /\ agent[a].did = {}
  <2>1. OpStage(p, Op(p)) /\ Holds(Op(p), e)
    BY <1>1, <1>2 DEF Stages, Holds
  <2> QED BY <1>1, <1>2, <2>1 DEF OpStage, Hands, At
<1>4. buffer[p] = {} /\ IsCommitted(e) /\ event[e].by = p
  BY <1>1, <1>2, <1>3 DEF OpStage, At, Delivering
<1>5. /\ job'[j].state = "waiting" /\ job'[j].event = e
      /\ \A k \in Jobs : k # j => job'[k] = job[k]
  BY <1>1 DEF TypeOK
<1>6. \A k \in Jobs : job[k].state # "none" => job[k].event # e
  BY <1>3 DEF OneJob
<1>7. \A k, l \in Jobs : k # l /\ job'[k].state # "none" /\ job'[l].state # "none" =>
        job'[k].event # job'[l].event
  <2> SUFFICES ASSUME NEW k \in Jobs, NEW l \in Jobs, k # l, job'[k].state # "none", job'[l].state # "none"
               PROVE  job'[k].event # job'[l].event
    OBVIOUS
  <2>1. CASE k # j /\ l # j
    BY <1>5, <2>1 DEF OneJob
  <2>2. CASE k = j \/ l = j
    BY <1>5, <1>6, <2>2
  <2> QED BY <2>1, <2>2
<1>8. ASSUME NEW q \in Procs PROVE ~OpHas(q, e)'
  <2>1. CASE q = p
    <3>1. agent'[Op(p)].todo = agent[a].todo \ {e} /\ agent'[Op(p)].did = {}
      BY <1>1, <1>2, <1>3 DEF Becomes
    <3> QED BY <1>1, <1>4, <2>1, <3>1 DEF OpHas, Holds
  <2>2. CASE q # p
    <3>1. OpStage(q, Op(q)) /\ agent'[Op(q)] = agent[Op(q)]
      BY <1>1, <1>2, <2>2, Distinct DEF Stages, Becomes
    <3>2. e \notin buffer[q]
      BY <1>4, <2>2, <3>1 DEF OpStage
    <3>3. ~Holds(Op(q), e)
      <4>1. ~At(Op(q), {"persisted"}) \/ ~Holds(Op(q), e)
        BY <1>4, <3>1 DEF OpStage, IsCommitted
      <4> QED BY <1>4, <2>2, <3>1, <3>2, <4>1 DEF OpStage, At, Delivering
    <3> QED BY <1>1, <3>1, <3>2, <3>3 DEF OpHas, Holds
  <2> QED BY <2>1, <2>2
<1>9. ASSUME NEW q \in Procs, NEW f \in Events, OpHas(q, f)' PROVE OpHas(q, f)
  <2>1. CASE q = p
    BY <1>1, <1>2, <1>9, <2>1 DEF OpHas, Holds, Becomes
  <2>2. CASE q # p
    <3>1. agent'[Op(q)] = agent[Op(q)]
      BY <1>1, <1>2, <2>2, Distinct DEF Becomes
    <3> QED BY <1>1, <1>9, <3>1 DEF OpHas, Holds
  <2> QED BY <2>1, <2>2
<1>10. ASSUME NEW k \in Jobs, NEW q \in Procs, NEW f \in Events, job'[k].state # "none", f = job'[k].event
       PROVE  ~OpHas(q, f)'
  <2>1. CASE k = j
    BY <1>5, <1>8, <1>10, <2>1
  <2>2. CASE k # j
    <3>1. job[k].state # "none" /\ f = job[k].event
      BY <1>5, <1>10, <2>2
    <3>2. ~OpHas(q, f)
      BY <3>1 DEF OneJob, OpHas
    <3> QED BY <1>9, <3>2
  <2> QED BY <2>1, <2>2
<1>11. \A k \in Jobs : job'[k].event \in Events
  BY <1>5 DEF TypeOK, JobRows
<1> QED BY <1>7, <1>10, <1>11 DEF OneJob, OpHas, Holds

LEMMA OneJobStep ==
  ASSUME TypeOK, Stages, OneJob, config' = config, Step
  PROVE  OneJob'
<1>1. ASSUME NEW p \in Procs, Persist(p) \/ Operate(p) \/ Listen(p) \/ Work(p) \/ Crash(p) PROVE Shrinks
  BY <1>1, OperateShrinks, ListenShrinks, WorkShrinks, CrashShrinks
<1>2. ASSUME NEW a \in Agents, Deliver(a), ~Enqueue(a) PROVE Shrinks
  BY <1>2, DeliverShrinks
<1> QED BY <1>1, <1>2, OneJobKept, EnqueueOneJob DEF Step
-----------------------------------------------------------------------------
(***************************************************************************)
(* No two agents have handlers of one event to run at one time, where      *)
(* OneAtATime says so.                                                     *)
(***************************************************************************)
LEMMA Callers ==
  ASSUME TypeOK, Stages, NEW a \in Agents, At(a, {"dispatching"}) \/ agent[a].did # {}
  PROVE  \E p \in Procs :
           \/ config.dispatch = "sync" /\ a = Op(p) /\ At(a, Delivering)
           \/ config.dispatch = "sync" /\ a = Bus(p) /\ config.bus # "noop"
           \/ config.dispatch = "async" /\ a = Worker(p) /\ ~At(a, {"idle"})
<1>0. config.dispatch \in {"sync", "async"}
  BY DEF TypeOK, Deployment
<1>1. PICK p \in Procs : a = Op(p) \/ a = Bus(p) \/ a = Worker(p)
  BY WhichAgent
<1>2. CASE a = Op(p)
  <2>1. OpStage(p, a)
    BY <1>2 DEF Stages
  <2> QED BY <1>0, <1>2, <2>1 DEF OpStage, Hands, At, Delivering
<1>3. CASE a = Bus(p)
  <2>1. BusStage(p, a)
    BY <1>3 DEF Stages
  <2> QED BY <1>0, <1>3, <2>1 DEF BusStage, Hands, At
<1>4. CASE a = Worker(p)
  <2>1. WorkStage(p, a)
    BY <1>4 DEF Stages
  <2>2. ~At(a, {"idle"})
    BY <2>1 DEF WorkStage, At
  <2>3. agent[a].job \in Jobs /\ job[agent[a].job].state = "taken"
    BY <2>1, <2>2 DEF WorkStage
  <2>4. config.dispatch = "async"
    BY <2>3 DEF Stages
  <2> QED BY <1>4, <2>2, <2>4
<1> QED BY <1>1, <1>2, <1>3, <1>4

LEMMA Apart ==
  ASSUME TypeOK, Stages, OneJob, OneAtATime, NEW a \in Agents, NEW b \in Agents, a # b,
         At(a, {"dispatching"}) \/ agent[a].did # {}, At(b, {"dispatching"}) \/ agent[b].did # {},
         NEW e \in Events, Holds(a, e)
  PROVE  ~Holds(b, e)
<1> SUFFICES ASSUME Holds(b, e) PROVE FALSE
  OBVIOUS
<1>1. PICK p \in Procs :
        \/ config.dispatch = "sync" /\ a = Op(p) /\ At(a, Delivering)
        \/ config.dispatch = "sync" /\ a = Bus(p) /\ config.bus # "noop"
        \/ config.dispatch = "async" /\ a = Worker(p) /\ ~At(a, {"idle"})
  BY Callers
<1>2. PICK q \in Procs :
        \/ config.dispatch = "sync" /\ b = Op(q) /\ At(b, Delivering)
        \/ config.dispatch = "sync" /\ b = Bus(q) /\ config.bus # "noop"
        \/ config.dispatch = "async" /\ b = Worker(q) /\ ~At(b, {"idle"})
  BY Callers
<1>3. CASE config.dispatch = "sync"
  <2>1. config.bus = "noop" /\ a = Op(p) /\ b = Op(q) /\ At(a, Delivering) /\ At(b, Delivering)
    BY <1>1, <1>2, <1>3 DEF OneAtATime
  <2>2. OpStage(p, a) /\ OpStage(q, b)
    BY <2>1 DEF Stages
  <2>3. event[e].by = p /\ event[e].by = q
    BY <2>1, <2>2 DEF OpStage
  <2> QED BY <2>1, <2>3
<1>4. CASE config.dispatch = "async"
  <2>1. a = Worker(p) /\ b = Worker(q) /\ ~At(a, {"idle"}) /\ ~At(b, {"idle"})
    BY <1>1, <1>2, <1>4
  <2>2. WorkStage(p, a) /\ WorkStage(q, b) /\ p # q
    BY <2>1 DEF Stages
  <2>3. /\ p \in config.workers /\ agent[a].job \in Jobs /\ job[agent[a].job].state = "taken"
        /\ e = job[agent[a].job].event
        /\ q \in config.workers /\ agent[b].job \in Jobs /\ job[agent[b].job].state = "taken"
        /\ e = job[agent[b].job].event
    BY <2>1, <2>2 DEF WorkStage
  <2>4. agent[a].job # agent[b].job
    BY <2>1, <2>2, <2>3, TheAgents DEF Stages
  <2>5. config.bus # "noop"
    BY <2>3, <2>4 DEF OneJob
  <2> QED BY <2>2, <2>3, <2>5 DEF OneAtATime
<1> QED BY <1>1, <1>3, <1>4

(* A call adds a pair that has no marker and that no other agent runs. *)
LEMMA FreshStep ==
  ASSUME TypeOK, TypeOK', Stages, Marks, OneJob, Fresh, config' = config, Step
  PROVE  Fresh'
<1> SUFFICES ASSUME config.idempotent, OneAtATime PROVE Fresh'
  BY DEF Fresh, OneAtATime
<1>0. /\ \A a \in Agents : agent[a].did \cap marker = {}
      /\ \A a, b \in Agents : a # b => agent[a].did \cap agent[b].did = {}
      /\ \A e \in Events, s \in Subs : Once(e, s)
  BY DEF Fresh
<1>1. CASE UNCHANGED <<marker, ran>> /\ \A a \in Agents : agent'[a].did \in {agent[a].did, {}}
  <2>1. \A e \in Events, s \in Subs : Once(e, s)'
    BY <1>0, <1>1 DEF Once
  <2>2. \A a, b \in Agents : a # b => agent'[a].did \cap agent'[b].did = {}
    BY <1>0, <1>1
  <2>3. \A a \in Agents : agent'[a].did \cap marker' = {}
    BY <1>0, <1>1
  <2> QED BY <2>1, <2>2, <2>3 DEF Fresh
<1>2. ASSUME NEW a \in Agents, Call(a) PROVE Fresh'
  <2>1. PICK e \in Events, did \in SUBSET (Events \X Subs) :
          /\ agent[a].at = "dispatching" /\ First(e, agent[a].todo)
          /\ did \in {agent[a].did, agent[a].did \cup {<<e, agent[a].sub>>}}
          /\ SeenBefore(<<e, agent[a].sub>>) => did = agent[a].did
          /\ agent'[a].did = did /\ \A b \in Agents : b # a => agent'[b] = agent[b]
          /\ UNCHANGED <<marker, ran>>
    BY <1>2, CallDoes DEF Becomes
  <2>2. \A f \in Events, s \in Subs : Once(f, s)'
    BY <1>0, <2>1 DEF Once
  <2>3. did \cap marker = {}
    BY <1>0, <2>1 DEF SeenBefore
  <2>4. ASSUME NEW b \in Agents, b # a PROVE did \cap agent[b].did = {}
    <3>1. <<e, agent[a].sub>> \notin agent[b].did
      <4> SUFFICES ASSUME <<e, agent[a].sub>> \in agent[b].did PROVE FALSE
        OBVIOUS
      <4>1. Holds(a, e) /\ At(a, {"dispatching"})
        BY <2>1 DEF Holds, First, At
      <4>2. Holds(b, e) /\ agent[b].did # {}
        BY TheAgents DEF Holds
      <4> QED BY <2>4, <4>1, <4>2, Apart
    <3> QED BY <1>0, <2>1, <2>4, <3>1
  <2>5. \A b, c \in Agents : b # c => agent'[b].did \cap agent'[c].did = {}
    BY <1>0, <2>1, <2>4
  <2>6. \A b \in Agents : agent'[b].did \cap marker' = {}
    BY <1>0, <2>1, <2>3
  <2> QED BY <2>2, <2>5, <2>6 DEF Fresh
<1>3. ASSUME NEW a \in Agents, HandlerCommits(a) PROVE Fresh'
  <2>1. /\ agent'[a].did = {} /\ \A b \in Agents : b # a => agent'[b] = agent[b]
        /\ marker' = marker \cup agent[a].did
    BY <1>3, DeliverDoes DEF Becomes, Marked
  <2>2. ASSUME NEW e \in Events, NEW s \in Subs PROVE Once(e, s)'
    <3>1. \A p \in Procs : /\ ran[p][e][s] \in Nat
                           /\ ran'[p][e][s] = IF p = a[1] /\ <<e, s>> \in agent[a].did
                                              THEN ran[p][e][s] + 1 ELSE ran[p][e][s]
      BY <1>3, CommitsDo
    <3>2. CASE <<e, s>> \in agent[a].did
      <4>1. ~Handled(e, s)
        BY <1>0, <3>2 DEF Marks
      <4>2. \A p \in Procs : ran[p][e][s] = 0
        BY <3>1, <4>1 DEF Handled
      <4>3. \A p \in Procs : ran'[p][e][s] = IF p = a[1] THEN 1 ELSE 0
        BY <3>1, <3>2, <4>2
      <4> QED BY <4>3 DEF Once
    <3>3. CASE <<e, s>> \notin agent[a].did
      <4>1. \A p \in Procs : ran'[p][e][s] = ran[p][e][s]
        BY <3>1, <3>3
      <4> QED BY <1>0, <4>1 DEF Once
    <3> QED BY <3>2, <3>3
  <2>3. \A b, c \in Agents : b # c => agent'[b].did \cap agent'[c].did = {}
    BY <1>0, <2>1
  <2>4. \A b \in Agents : agent'[b].did \cap marker' = {}
    BY <1>0, <2>1
  <2> QED BY <2>2, <2>3, <2>4 DEF Fresh
<1> QED BY <1>1, <1>2, <1>3, Handlers
-----------------------------------------------------------------------------
(***************************************************************************)
(* A process that listens dispatches each of its events once.              *)
(***************************************************************************)
Direct == config.dispatch = "sync" /\ config.bus = "listen"

LEMMA DirectStages ==
  ASSUME TypeOK, Stages, Direct, NEW p \in Procs
  PROVE  /\ At(Worker(p), {"idle"}) /\ ~At(Bus(p), {"polled", "enqueuing"}) /\ ~At(Op(p), {"enqueuing"})
         /\ \A j \in Jobs : job[j].state = "none"
<1>1. OpStage(p, Op(p)) /\ BusStage(p, Bus(p)) /\ WorkStage(p, Worker(p))
      /\ \A j \in Jobs : job[j].state # "none" => config.dispatch = "async"
  BY DEF Stages
<1>2. \A j \in Jobs : job[j].state = "none"
  BY <1>1 DEF Direct
<1>3. At(Worker(p), {"idle"})
  BY <1>1, <1>2 DEF WorkStage
<1> QED BY <1>1, <1>2, <1>3 DEF OpStage, BusStage, Hands, At, Direct

(* Whose an event is does not change on its way. *)
LEMMA ForeignKept ==
  ASSUME TypeOK, Stages, Kept, NEW p \in Procs, NEW e \in Events, Holds(Bus(p), e) \/ e \in notified[p]
  PROVE  Foreign(p, e)' <=> Foreign(p, e)
<1>1. IsCommitted(e)
  BY DEF Stages, BusStage
<1> QED BY <1>1 DEF Kept, Foreign

(* Where each event is, by the stages. *)
LEMMA Whose ==
  ASSUME TypeOK, Stages, Direct, Single, NEW p \in Procs, NEW e \in Events
  PROVE  /\ e \in buffer[p] => event[e].by = p /\ IsCommitted(e)
         /\ At(Op(p), Delivering) /\ Holds(Op(p), e) => event[e].by = p
         /\ At(Op(p), Delivering) => buffer[p] = {}
         /\ At(Op(p), {"committed"}) /\ Holds(Op(p), e) => e \in buffer[p]
         /\ Holds(Bus(p), e) => event[e].by # p
<1>1. OpStage(p, Op(p)) /\ Received(p, e)
  BY DEF Stages, Single, Direct
<1> QED BY <1>1 DEF OpStage, Received, Foreign

LEMMA CalledKept ==
  ASSUME NEW p, NEW a, NEW e, NEW s, Called(p, a, e, s), agent'[a] = agent[a], config' = config,
         ran'[p][e][s] = ran[p][e][s]
  PROVE  Called(p, a, e, s)'
BY DEF Called, Owed, ToCall, At

LEMMA CalledNone ==
  ASSUME NEW p, NEW a, NEW e, NEW s, agent'[a].todo = {}, agent'[a].did = {}
  PROVE  Called(p, a, e, s)'
BY DEF Called, Owed, ToCall

(* A step of an operation that is not at its handlers. *)
LEMMA OpSingle ==
  ASSUME TypeOK, TypeOK', Stages, Single, Kept, config' = config, Direct, NEW p \in Procs,
         \A b \in Agents : b # Op(p) => agent'[b] = agent[b], ran' = ran,
         \A q \in Procs : q # p => buffer'[q] = buffer[q],
         \A q \in Procs, e \in Events : e \in notified'[q] /\ e \notin notified[q] =>
            At(Op(p), {"committed"}) /\ e \in agent[Op(p)].todo,
         \A e \in Events : Sending(p, e)' /\ Buffered(p, e)' /\ \A s \in Subs : Called(p, Op(p), e, s)'
  PROVE  Single'
<1>1. /\ \A q \in Procs : agent'[Bus(q)] = agent[Bus(q)]
      /\ \A q \in Procs : q # p => agent'[Op(q)] = agent[Op(q)]
  BY Distinct
<1>2. \A q \in Procs, e \in Events :
        /\ Sending(q, e) /\ Buffered(q, e) /\ Mailed(q, e) /\ Received(q, e)
        /\ \A s \in Subs : Called(q, Op(q), e, s) /\ Called(q, Bus(q), e, s) /\ ran[q][e][s] <= 1
  BY DEF Single, Direct
<1>3. \A q \in Procs, e \in Events : (Holds(Bus(q), e)' <=> Holds(Bus(q), e)) /\ (NotRun(q, e)' <=> NotRun(q, e))
  BY <1>1 DEF Holds, NotRun
<1>4. ASSUME NEW q \in Procs, NEW e \in Events PROVE Sending(q, e)'
  <2>1. CASE q = p
    BY <2>1
  <2>2. CASE q # p
    <3> SUFFICES ASSUME At(Op(q), {"committed"}), e \in agent[Op(q)].todo, NEW r \in Procs
                 PROVE  e \notin notified'[r] /\ ~Holds(Bus(r), e)' /\ NotRun(r, e)'
      BY <1>1, <2>2 DEF Sending, At
    <3>1. e \notin notified[r] /\ ~Holds(Bus(r), e) /\ NotRun(r, e)
      BY <1>2 DEF Sending
    <3>2. event[e].by = q
      BY Whose DEF Holds
    <3>3. ~(At(Op(p), {"committed"}) /\ e \in agent[Op(p)].todo)
      BY <2>2, <3>2, Whose DEF Holds
    <3> QED BY <1>3, <3>1, <3>3
  <2> QED BY <2>1, <2>2
<1>5. ASSUME NEW q \in Procs, NEW e \in Events PROVE Buffered(q, e)'
  <2>1. CASE q = p
    BY <2>1
  <2>2. CASE q # p
    BY <1>2, <1>3, <2>2 DEF Buffered
  <2> QED BY <2>1, <2>2
<1>6. ASSUME NEW q \in Procs, NEW e \in Events PROVE Mailed(q, e)'
  <2>1. CASE e \in notified[q]
    <3>1. Foreign(q, e)' <=> Foreign(q, e)
      BY <2>1, ForeignKept
    <3> QED BY <1>2, <1>3, <2>1, <3>1 DEF Mailed
  <2>2. CASE e \in notified'[q] /\ e \notin notified[q]
    <3>1. ~Holds(Bus(q), e) /\ NotRun(q, e)
      BY <1>2, <2>2 DEF Sending
    <3> QED BY <1>3, <3>1 DEF Mailed
  <2>3. CASE e \notin notified'[q]
    BY <2>3 DEF Mailed
  <2> QED BY <2>1, <2>2, <2>3
<1>7. ASSUME NEW q \in Procs, NEW e \in Events PROVE Received(q, e)'
  <2>1. CASE Holds(Bus(q), e)
    <3>1. Foreign(q, e)' <=> Foreign(q, e)
      BY <2>1, ForeignKept
    <3> QED BY <1>2, <2>1, <3>1 DEF Received
  <2>2. CASE ~Holds(Bus(q), e)
    BY <1>3, <2>2 DEF Received
  <2> QED BY <2>1, <2>2
<1>8. ASSUME NEW q \in Procs, NEW e \in Events, NEW s \in Subs
      PROVE  Called(q, Op(q), e, s)' /\ Called(q, Bus(q), e, s)' /\ ran'[q][e][s] <= 1
  <2>1. Called(q, Bus(q), e, s)'
    BY <1>1, <1>2, CalledKept
  <2>2. Called(q, Op(q), e, s)'
    <3>1. CASE q = p
      BY <3>1
    <3>2. CASE q # p
      BY <1>1, <1>2, <3>2, CalledKept
    <3> QED BY <3>1, <3>2
  <2> QED BY <1>2, <2>1, <2>2
<1> QED BY <1>4, <1>5, <1>6, <1>7, <1>8 DEF Single

LEMMA OperateSingle ==
  ASSUME TypeOK, TypeOK', Stages, Marks, Single, Kept, config' = config, Direct, NEW p \in Procs,
         Persist(p) \/ Operate(p)
  PROVE  Single'
<1>a. PICK a \in Agents : a = Op(p)
  BY Distinct
<1>b. /\ buffer \in [Procs -> SUBSET Events] /\ notified \in [Procs -> SUBSET Events]
      /\ agent[a].todo \subseteq Events
  BY TheAgents DEF TypeOK
<1>c. \A e \in Events : Sending(p, e) /\ Buffered(p, e)
  BY DEF Single, Direct
<1>h. ASSUME \A b \in Agents : b # a => agent'[b] = agent[b], ran' = ran,
             \A q \in Procs : q # p => buffer'[q] = buffer[q],
             \A q \in Procs, e \in Events : e \in notified'[q] /\ e \notin notified[q] =>
                At(a, {"committed"}) /\ e \in agent[a].todo,
             \A e \in Events : Sending(p, e)', \A e \in Events : Buffered(p, e)',
             \A e \in Events, s \in Subs : Called(p, a, e, s)'
      PROVE  Single'
  <2>1. \A e \in Events : Sending(p, e)' /\ Buffered(p, e)' /\ \A s \in Subs : Called(p, Op(p), e, s)'
    BY <1>a, <1>h
  <2> QED BY <1>a, <1>h, <2>1, OpSingle
<1>k. ASSUME buffer'[p] = buffer[p], ran' = ran PROVE \A e \in Events : Buffered(p, e)'
  BY <1>c, <1>k DEF Buffered, NotRun
<1>1. CASE Persist(p)
  <2>1. PICK e \in Events : /\ Becomes(a, "persisted", {e}, 1, {}, NoJob)
                            /\ buffer' = buffer /\ notified' = notified /\ ran' = ran
    BY <1>1, <1>a, PersistDoes
  <2>2. /\ agent'[a].at = "persisted" /\ agent'[a].did = {}
        /\ \A b \in Agents : b # a => agent'[b] = agent[b]
    BY <2>1 DEF Becomes
  <2>3. \A f \in Events : Sending(p, f)'
    BY <1>a, <2>2 DEF Sending, At
  <2>4. \A f \in Events, s \in Subs : Called(p, a, f, s)'
    BY <2>2 DEF Called, At, Delivering
  <2> QED BY <1>h, <1>k, <2>1, <2>2, <2>3, <2>4
<1>2. CASE Commit(p)
  <2>1. /\ agent[a].at = "persisted"
        /\ Becomes(a, "committed", agent[a].todo, agent[a].sub, agent[a].did, agent[a].job)
        /\ buffer' = [buffer EXCEPT ![p] = @ \cup agent[a].todo] /\ notified' = notified /\ ran' = ran
    BY <1>2, <1>a, OperateDoes
  <2>2. /\ agent'[a].at = "committed" /\ agent'[a].todo = agent[a].todo /\ agent'[a].did = agent[a].did
        /\ \A b \in Agents : b # a => agent'[b] = agent[b]
    BY <2>1 DEF Becomes
  <2>3. OpStage(p, a)
    BY <1>a DEF Stages
  <2>4. agent[a].did = {}
    BY <2>1, <2>3 DEF OpStage, Hands, At
  <2>5. ASSUME NEW e \in agent[a].todo, NEW q \in Procs
        PROVE  e \notin notified[q] /\ ~Holds(Bus(q), e) /\ NotRun(q, e)
    <3>1. e \in Events /\ ~IsCommitted(e)
      BY <1>b, <2>1, <2>3 DEF OpStage, At, Holds, IsCommitted
    <3>2. BusStage(q, Bus(q))
      BY DEF Stages
    <3>3. e \notin notified[q] /\ ~Holds(Bus(q), e)
      BY <3>1, <3>2 DEF BusStage
    <3>4. \A s \in Subs : ran[q][e][s] \in Nat
      BY <3>1 DEF TypeOK
    <3>5. \A s \in Subs : ~(ran[q][e][s] > 0)
      BY <3>1 DEF Marks, Handled
    <3>6. NotRun(q, e)
      BY <3>4, <3>5 DEF NotRun
    <3> QED BY <3>3, <3>6
  <2>6. \A q \in Procs : agent'[Bus(q)] = agent[Bus(q)]
    BY <1>a, <2>2, Distinct
  <2>7. \A e \in Events : Sending(p, e)'
    BY <1>a, <2>1, <2>2, <2>5, <2>6 DEF Sending, Holds, NotRun
  <2>8. \A e \in Events : Buffered(p, e)'
    BY <1>b, <1>c, <2>1, <2>5 DEF Buffered, NotRun
  <2>9. \A e \in Events, s \in Subs : Called(p, a, e, s)'
    BY <2>2, <2>4 DEF Called, At, Delivering
  <2>10. \A q \in Procs : q # p => buffer'[q] = buffer[q]
    BY <1>b, <2>1
  <2> QED BY <1>h, <2>1, <2>2, <2>7, <2>8, <2>9, <2>10
<1>3. CASE Rollback(p) \/ PublishThrows(p)
  <2>1. Becomes(a, "idle", {}, 1, {}, NoJob) /\ buffer' = buffer /\ notified' = notified /\ ran' = ran
    BY <1>3, <1>a, OperateDoes
  <2>2. /\ agent'[a].todo = {} /\ agent'[a].did = {}
        /\ \A b \in Agents : b # a => agent'[b] = agent[b]
    BY <2>1 DEF Becomes
  <2>3. \A e \in Events : Sending(p, e)'
    BY <1>a, <2>2 DEF Sending
  <2> QED BY <1>h, <1>k, <2>1, <2>2, <2>3, CalledNone
<1>4. CASE Publish(p)
  <2>1. /\ agent[a].at = "committed" /\ Becomes(a, "published", {}, 1, {}, NoJob)
        /\ notified' = [q \in Procs |-> notified[q] \cup {e \in agent[a].todo : q \in config.listening}]
        /\ buffer' = buffer /\ ran' = ran
    BY <1>4, <1>a, OperateDoes DEF Direct
  <2>2. /\ agent'[a].todo = {} /\ agent'[a].did = {}
        /\ \A b \in Agents : b # a => agent'[b] = agent[b]
    BY <2>1 DEF Becomes
  <2>3. \A e \in Events : Sending(p, e)'
    BY <1>a, <2>2 DEF Sending
  <2>4. \A q \in Procs, e \in Events : e \in notified'[q] /\ e \notin notified[q] =>
                At(a, {"committed"}) /\ e \in agent[a].todo
    BY <2>1 DEF At
  <2> QED BY <1>h, <1>k, <2>1, <2>2, <2>3, <2>4, CalledNone
<1>5. CASE TakeCommitted(p)
  <2>1. Becomes(a, "dispatching", buffer[p], 1, {}, NoJob)
    BY <1>5, <1>a, OperateDoes DEF Direct
  <2>2. buffer' = [buffer EXCEPT ![p] = {}] /\ notified' = notified /\ ran' = ran
    BY <1>5, OperateDoes
  <2>3. /\ agent'[a].at = "dispatching" /\ agent'[a].todo = buffer[p] /\ agent'[a].did = {}
        /\ \A b \in Agents : b # a => agent'[b] = agent[b]
    BY <2>1 DEF Becomes
  <2>4. \A e \in Events : Sending(p, e)'
    BY <1>a, <2>3 DEF Sending, At
  <2>5. buffer'[p] = {} /\ \A q \in Procs : q # p => buffer'[q] = buffer[q]
    BY <1>b, <2>2
  <2>6. \A e \in Events : Buffered(p, e)'
    BY <2>5 DEF Buffered
  <2>7. \A e \in Events, s \in Subs : Called(p, a, e, s)'
    BY <1>c, <2>2, <2>3 DEF Called, Owed, ToCall, Buffered, NotRun
  <2> QED BY <1>h, <2>2, <2>3, <2>4, <2>5, <2>6, <2>7
<1> QED BY <1>1, <1>2, <1>3, <1>4, <1>5 DEF Operate

LEMMA ListenSingle ==
  ASSUME TypeOK, TypeOK', Stages, Single, Kept, config' = config, Direct, NEW p \in Procs, Listen(p)
  PROVE  Single'
<1>a. PICK a \in Agents : a = Bus(p)
  BY Distinct
<1>b. notified \in [Procs -> SUBSET Events] /\ ~At(a, {"polled"})
  BY <1>a, DirectStages DEF TypeOK, At
<1>1. /\ \A b \in Agents : b # a => agent'[b] = agent[b]
      /\ UNCHANGED <<config, event, ran, buffer>>
  BY <1>a, ListenDoes DEF Becomes
<1>2. PICK e \in notified[p] :
        /\ agent[a].at = "idle" /\ notified' = [notified EXCEPT ![p] = @ \ {e}]
        /\ \/ Foreign(p, e) /\ Becomes(a, "dispatching", {e}, 1, {}, NoJob)
           \/ agent' = agent
  BY <1>a, <1>b, ListenDoes DEF Direct, At
<1>3. /\ \A q \in Procs : agent'[Op(q)] = agent[Op(q)]
      /\ \A q \in Procs : q # p => agent'[Bus(q)] = agent[Bus(q)] /\ notified'[q] = notified[q]
      /\ notified'[p] = notified[p] \ {e} /\ e \in Events
  BY <1>a, <1>b, <1>1, <1>2, Distinct
<1>4. \A q \in Procs, f \in Events :
        /\ Sending(q, f) /\ Buffered(q, f) /\ Mailed(q, f) /\ Received(q, f)
        /\ \A s \in Subs : Called(q, Op(q), f, s) /\ Called(q, Bus(q), f, s) /\ ran[q][f][s] <= 1
  BY DEF Single, Direct
<1>5. \A f \in Events : Holds(a, f)' => Holds(a, f) \/ (f = e /\ Foreign(p, e))
  BY <1>2 DEF Becomes, Holds
<1>6. \A q \in Procs, f \in Events :
        Holds(Bus(q), f)' => Holds(Bus(q), f) \/ (q = p /\ f = e /\ Foreign(p, e))
  <2> SUFFICES ASSUME NEW q \in Procs, NEW f \in Events, Holds(Bus(q), f)'
               PROVE  Holds(Bus(q), f) \/ (q = p /\ f = e /\ Foreign(p, e))
    OBVIOUS
  <2>1. CASE q = p
    BY <1>a, <1>5, <2>1
  <2>2. CASE q # p
    BY <1>3, <2>2 DEF Holds
  <2> QED BY <2>1, <2>2
<1>7. ASSUME NEW q \in Procs, NEW f \in Events PROVE Sending(q, f)'
  <2> SUFFICES ASSUME At(Op(q), {"committed"}), f \in agent[Op(q)].todo, NEW r \in Procs
               PROVE  f \notin notified'[r] /\ ~Holds(Bus(r), f)' /\ NotRun(r, f)'
    BY <1>3 DEF Sending, At
  <2>1. f \notin notified[r] /\ ~Holds(Bus(r), f) /\ NotRun(r, f) /\ f \notin notified[p]
    BY <1>4 DEF Sending
  <2>2. f \notin notified'[r] /\ NotRun(r, f)'
    BY <1>1, <1>3, <2>1 DEF NotRun
  <2>3. ~Holds(Bus(r), f)'
    BY <1>2, <1>6, <2>1
  <2> QED BY <2>2, <2>3
<1>8. ASSUME NEW q \in Procs, NEW f \in Events PROVE Buffered(q, f)'
  BY <1>1, <1>4 DEF Buffered, NotRun
<1>9. ASSUME NEW q \in Procs, NEW f \in Events PROVE Mailed(q, f)'
  <2> SUFFICES ASSUME f \in notified'[q], Foreign(q, f)
               PROVE  ~Holds(Bus(q), f)' /\ NotRun(q, f)'
    BY <1>1 DEF Mailed, Foreign
  <2>1. f \in notified[q] /\ (q = p => f # e)
    BY <1>3
  <2>2. ~Holds(Bus(q), f) /\ NotRun(q, f)
    BY <1>4, <2>1 DEF Mailed
  <2>3. ~Holds(Bus(q), f)'
    BY <1>6, <2>1, <2>2
  <2> QED BY <1>1, <2>2, <2>3 DEF NotRun
<1>10. ASSUME NEW q \in Procs, NEW f \in Events PROVE Received(q, f)'
  <2>1. Holds(Bus(q), f)' => Foreign(q, f)
    BY <1>4, <1>6 DEF Received
  <2>2. Foreign(q, f)' <=> Foreign(q, f)
    BY <1>1 DEF Foreign
  <2> QED BY <2>1, <2>2 DEF Received
<1>11. ASSUME NEW q \in Procs, NEW f \in Events, NEW s \in Subs
       PROVE  Called(q, Op(q), f, s)' /\ Called(q, Bus(q), f, s)' /\ ran'[q][f][s] <= 1
  <2>1. Called(q, Op(q), f, s)'
    BY <1>1, <1>3, <1>4, CalledKept
  <2>2. CASE agent'[Bus(q)] = agent[Bus(q)]
    <3>1. Called(q, Bus(q), f, s)'
      BY <1>1, <1>4, <2>2, CalledKept
    <3> QED BY <1>1, <1>4, <2>1, <3>1
  <2>3. CASE agent'[Bus(q)] # agent[Bus(q)]
    <3>0. agent' # agent /\ q = p
      BY <1>3, <2>3
    <3>1. q = p /\ Foreign(p, e) /\ agent'[a].todo = {e} /\ agent'[a].did = {}
      BY <1>2, <3>0 DEF Becomes
    <3>2. NotRun(p, e)
      BY <1>3, <1>4, <3>1 DEF Mailed
    <3>3. Called(q, Bus(q), f, s)'
      BY <1>1, <1>a, <3>1, <3>2 DEF Called, Owed, ToCall, NotRun
    <3> QED BY <1>1, <1>4, <2>1, <3>3
  <2> QED BY <2>2, <2>3
<1> QED BY <1>7, <1>8, <1>9, <1>10, <1>11 DEF Single

LEMMA CrashSingle ==
  ASSUME TypeOK, TypeOK', Stages, Single, Kept, config' = config, Direct, NEW p \in Procs, Crash(p)
  PROVE  Single'
<1>1. /\ agent' = [a \in Agents |-> IF a[1] = p THEN Idle ELSE agent[a]]
      /\ buffer' = [buffer EXCEPT ![p] = {}] /\ notified' = [notified EXCEPT ![p] = {}]
      /\ UNCHANGED <<config, ran>>
  BY DEF Crash
<1>2. Idle.todo = {} /\ Idle.did = {} /\ Idle.at = "idle"
  BY IdleType
<1>3. \A q \in Procs : \A a \in {Op(q), Bus(q)} : agent'[a] = IF q = p THEN Idle ELSE agent[a]
  BY <1>1 DEF Op, Bus, Agents, Kinds
<1>4. \A q \in Procs : /\ buffer'[q] \subseteq buffer[q] /\ notified'[q] \subseteq notified[q]
                       /\ notified[q] \subseteq Events
  BY <1>1 DEF TypeOK
<1>5. \A q \in Procs, f \in Events :
        /\ Sending(q, f) /\ Buffered(q, f) /\ Mailed(q, f) /\ Received(q, f)
        /\ \A s \in Subs : Called(q, Op(q), f, s) /\ Called(q, Bus(q), f, s) /\ ran[q][f][s] <= 1
  BY DEF Single, Direct
<1>6. \A q \in Procs, f \in Events : Holds(Bus(q), f)' => Holds(Bus(q), f)
  BY <1>2, <1>3 DEF Holds
<1>7. ASSUME NEW q \in Procs, NEW f \in Events PROVE Sending(q, f)'
  <2> SUFFICES ASSUME At(Op(q), {"committed"})', f \in agent'[Op(q)].todo, NEW r \in Procs
               PROVE  f \notin notified'[r] /\ ~Holds(Bus(r), f)' /\ NotRun(r, f)'
    BY DEF Sending
  <2>1. At(Op(q), {"committed"}) /\ f \in agent[Op(q)].todo
    BY <1>2, <1>3 DEF At
  <2>2. f \notin notified[r] /\ ~Holds(Bus(r), f) /\ NotRun(r, f)
    BY <1>5, <2>1 DEF Sending
  <2> QED BY <1>1, <1>4, <1>6, <2>2 DEF NotRun
<1>8. ASSUME NEW q \in Procs, NEW f \in Events PROVE Buffered(q, f)'
  BY <1>1, <1>4, <1>5 DEF Buffered, NotRun
<1>9. ASSUME NEW q \in Procs, NEW f \in Events PROVE Mailed(q, f)'
  <2> SUFFICES ASSUME f \in notified'[q], Foreign(q, f)'
               PROVE  ~Holds(Bus(q), f)' /\ NotRun(q, f)'
    BY DEF Mailed
  <2>1. f \in notified[q] /\ Foreign(q, f)
    BY <1>4, ForeignKept
  <2>2. ~Holds(Bus(q), f) /\ NotRun(q, f)
    BY <1>5, <2>1 DEF Mailed
  <2> QED BY <1>1, <1>6, <2>2 DEF NotRun
<1>10. ASSUME NEW q \in Procs, NEW f \in Events PROVE Received(q, f)'
  BY <1>5, <1>6, ForeignKept DEF Received
<1>11. ASSUME NEW q \in Procs, NEW f \in Events, NEW s \in Subs
       PROVE  Called(q, Op(q), f, s)' /\ Called(q, Bus(q), f, s)' /\ ran'[q][f][s] <= 1
  <2>1. CASE q = p
    <3>1. \A a \in {Op(q), Bus(q)} : agent'[a].todo = {} /\ agent'[a].did = {}
      BY <1>2, <1>3, <2>1
    <3> QED BY <1>1, <1>5, <3>1, CalledNone
  <2>2. CASE q # p
    <3>1. \A a \in {Op(q), Bus(q)} : agent'[a] = agent[a]
      BY <1>3, <2>2
    <3> QED BY <1>1, <1>5, <3>1, CalledKept
  <2> QED BY <2>1, <2>2
<1> QED BY <1>7, <1>8, <1>9, <1>10, <1>11 DEF Single

(* A step of an agent that is at its handlers. *)
LEMMA HandsSingle ==
  ASSUME TypeOK, TypeOK', Stages, Single, Direct, NEW p \in Procs, NEW a \in {Op(p), Bus(p)},
         UNCHANGED <<config, event, buffer, notified>>, At(a, Delivering),
         ~At(a, {"committed"})', \A b \in Agents : b # a => agent'[b] = agent[b],
         \A e \in Events : Holds(a, e)' => Holds(a, e),
         \A q \in Procs, e \in Events, s \in Subs :
            ran'[q][e][s] = ran[q][e][s] \/ (q = p /\ ran'[q][e][s] <= 1 /\ <<e, s>> \in agent[a].did),
         \A e \in Events, s \in Subs : Called(p, a, e, s)'
  PROVE  Single'
<1>1. \A q \in Procs, f \in Events :
        /\ Sending(q, f) /\ Buffered(q, f) /\ Mailed(q, f) /\ Received(q, f)
        /\ \A s \in Subs : Called(q, Op(q), f, s) /\ Called(q, Bus(q), f, s) /\ ran[q][f][s] <= 1
  BY DEF Single, Direct
<1>2. a \in Agents /\ \A q \in Procs, f \in Events : Holds(Bus(q), f)' => Holds(Bus(q), f)
  <2>1. a \in Agents
    BY Distinct
  <2>2. ASSUME NEW q \in Procs, NEW f \in Events, Holds(Bus(q), f)' PROVE Holds(Bus(q), f)
    <3>1. CASE Bus(q) = a
      BY <2>2, <3>1
    <3>2. CASE Bus(q) # a
      BY <2>2, <3>2, Distinct DEF Holds
    <3> QED BY <3>1, <3>2
  <2> QED BY <2>1, <2>2
<1>3. \A f \in Events, s \in Subs : <<f, s>> \in agent[a].did => Holds(a, f)
  BY DEF Holds
<1>4. ASSUME NEW q \in Procs, NEW f \in Events, NotRun(q, f), ~(q = p /\ Holds(a, f)) PROVE NotRun(q, f)'
  <2>1. \A s \in Subs : ran'[q][f][s] = ran[q][f][s]
    BY <1>3, <1>4
  <2> QED BY <1>4, <2>1 DEF NotRun
<1>5. ASSUME NEW f \in Events, Holds(a, f)
      PROVE  f \notin buffer[p] /\ ~(f \in notified[p] /\ Foreign(p, f))
  <2>1. CASE a = Op(p)
    BY <1>5, <2>1, Whose DEF Foreign
  <2>2. CASE a = Bus(p)
    BY <1>1, <1>5, <2>2, Whose DEF Mailed
  <2> QED BY <2>1, <2>2
<1>6. ASSUME NEW q \in Procs, NEW f \in Events PROVE Sending(q, f)'
  <2> SUFFICES ASSUME At(Op(q), {"committed"})', f \in agent'[Op(q)].todo, NEW r \in Procs
               PROVE  f \notin notified'[r] /\ ~Holds(Bus(r), f)' /\ NotRun(r, f)'
    BY DEF Sending
  <2>1. Op(q) # a
    BY DEF At
  <2>2. At(Op(q), {"committed"}) /\ f \in agent[Op(q)].todo
    BY <2>1, Distinct DEF At
  <2>3. f \notin notified[r] /\ ~Holds(Bus(r), f) /\ NotRun(r, f) /\ ~Holds(Bus(p), f)
    BY <1>1, <2>2 DEF Sending
  <2>4. event[f].by = q
    BY <2>2, Whose DEF Holds
  <2>5. ~Holds(a, f)
    <3>1. CASE a = Bus(p)
      BY <2>3, <3>1
    <3>2. CASE a = Op(p)
      BY <2>1, <2>4, <3>2, Whose
    <3> QED BY <3>1, <3>2
  <2>6. NotRun(r, f)'
    BY <1>4, <2>3, <2>5
  <2> QED BY <1>2, <2>3, <2>6
<1>7. ASSUME NEW q \in Procs, NEW f \in Events PROVE Buffered(q, f)'
  <2> SUFFICES ASSUME f \in buffer[q] PROVE NotRun(q, f)'
    BY DEF Buffered
  <2>1. NotRun(q, f)
    BY <1>1 DEF Buffered
  <2> QED BY <1>4, <1>5, <2>1
<1>8. ASSUME NEW q \in Procs, NEW f \in Events PROVE Mailed(q, f)'
  <2> SUFFICES ASSUME f \in notified[q], Foreign(q, f) PROVE ~Holds(Bus(q), f)' /\ NotRun(q, f)'
    BY DEF Mailed, Foreign
  <2>1. ~Holds(Bus(q), f) /\ NotRun(q, f)
    BY <1>1 DEF Mailed
  <2> QED BY <1>2, <1>4, <1>5, <2>1
<1>9. ASSUME NEW q \in Procs, NEW f \in Events PROVE Received(q, f)'
  BY <1>1, <1>2 DEF Received, Foreign
<1>10. ASSUME NEW q \in Procs, NEW f \in Events, NEW s \in Subs
       PROVE  Called(q, Op(q), f, s)' /\ Called(q, Bus(q), f, s)' /\ ran'[q][f][s] <= 1
  <2>1. ran'[q][f][s] <= 1
    BY <1>1
  <2>2. ASSUME NEW b \in {Op(q), Bus(q)} PROVE Called(q, b, f, s)'
    <3>1. CASE b = a
      <4>1. q = p
        BY <3>1, Distinct
      <4> QED BY <3>1, <4>1
    <3>2. CASE b # a
      <4>1. agent'[b] = agent[b] /\ Called(q, b, f, s)
        BY <1>1, <3>2, Distinct
      <4>2. CASE ran'[q][f][s] = ran[q][f][s]
        BY <4>1, <4>2, CalledKept
      <4>3. CASE ran'[q][f][s] # ran[q][f][s]
        <5>1. q = p /\ Holds(a, f)
          BY <1>3, <4>3
        <5>2. ~(At(b, Delivering) /\ Holds(b, f))
          <6>1. CASE a = Op(p) /\ b = Bus(p)
            BY <5>1, <6>1, Whose
          <6>2. CASE a = Bus(p) /\ b = Op(p)
            BY <5>1, <6>2, Whose
          <6> QED BY <3>2, <5>1, <6>1, <6>2
        <5>3. ~(At(b, Delivering) /\ Owed(b, f, s))
          BY <5>2 DEF Owed, ToCall, Holds
        <5> QED BY <4>1, <5>3 DEF Called, Owed, ToCall, At
      <4> QED BY <4>2, <4>3
    <3> QED BY <3>1, <3>2
  <2> QED BY <2>1, <2>2
<1> QED BY <1>6, <1>7, <1>8, <1>9, <1>10 DEF Single

(* A call takes its pair off the calls to come. *)
LEMMA CallOnce ==
  ASSUME TypeOK, NEW a \in Agents, NEW e \in Events, First(e, agent[a].todo), config' = config,
         agent'[a].todo = (IF agent[a].sub = config.subs THEN agent[a].todo \ {e} ELSE agent[a].todo),
         agent'[a].sub = Following(agent[a].sub)
  PROVE  /\ ToCall(a, e, agent[a].sub)
         /\ \A f \in Events, s \in Subs :
              ToCall(a, f, s)' => ToCall(a, f, s) /\ <<f, s>> # <<e, agent[a].sub>>
<1>1. /\ agent[a].sub \in Nat /\ 1 <= agent[a].sub /\ agent[a].sub <= config.subs /\ config.subs \in Nat
      /\ \A f \in Events : f \in Nat
  <2>1. agent[a].sub \in 1 .. MaxSubs /\ agent[a].sub <= config.subs /\ config.subs \in 1 .. MaxSubs
    BY TheAgents DEF Subs, TypeOK, Deployment
  <2> QED BY <2>1, DeliveryAssumption DEF Events
<1>2. ToCall(a, e, agent[a].sub)
  BY <1>1 DEF ToCall, First
<1>3. ASSUME NEW f \in Events, NEW s \in Subs, ToCall(a, f, s)'
      PROVE  ToCall(a, f, s) /\ <<f, s>> # <<e, agent[a].sub>>
  <2>0. s \in Nat /\ s \in 1 .. config.subs
    BY <1>1, <1>3, DeliveryAssumption DEF ToCall, Subs
  <2>1. CASE agent[a].sub = config.subs
    <3>1. f \in agent[a].todo /\ f # e
      BY <1>3, <2>1 DEF ToCall
    <3>2. ~First(f, agent[a].todo)
      BY <1>1, <3>1 DEF First
    <3> QED BY <2>0, <3>1, <3>2 DEF ToCall
  <2>2. CASE agent[a].sub # config.subs
    <3>1. f \in agent[a].todo /\ (First(f, agent[a].todo) => agent[a].sub + 1 <= s)
      BY <1>3, <2>2 DEF ToCall, Following, First
    <3>2. ToCall(a, f, s)
      BY <1>1, <2>0, <3>1 DEF ToCall
    <3>3. f = e => s # agent[a].sub
      BY <1>1, <2>0, <3>1
    <3> QED BY <3>2, <3>3
  <2> QED BY <2>1, <2>2
<1> QED BY <1>2, <1>3

LEMMA DeliverSingle ==
  ASSUME TypeOK, TypeOK', Stages, Single, config' = config, Direct, NEW a \in Agents, Deliver(a)
  PROVE  Single'
<1>1. PICK p \in Procs : (a = Op(p) \/ a = Bus(p)) /\ a[1] = p /\ a[2] # "work"
  <2>1. PICK p \in Procs : \/ a = Op(p) /\ a[1] = p /\ a[2] = "op"
                           \/ a = Bus(p) /\ a[1] = p /\ a[2] = "bus"
                           \/ a = Worker(p) /\ a[1] = p /\ a[2] = "work"
    BY WhichAgent
  <2>2. ASSUME a = Worker(p) PROVE FALSE
    <3>1. agent[a].at = "idle" /\ a[2] = "work"
      BY <2>2, DirectStages DEF At, Worker
    <3> QED BY <3>1 DEF Deliver, Enqueue, Call, HandlerCommits, Announce, HandlerThrows, Done
  <2> QED BY <2>1, <2>2
<1>2. ~At(a, {"enqueuing"})
  BY <1>1, DirectStages DEF At
<1>3. \A e \in Events, s \in Subs : Called(p, a, e, s) /\ \A q \in Procs : ran[q][e][s] <= 1
  BY <1>1 DEF Single, Direct
<1>4. \A e \in Events, s \in Subs : <<e, s>> \in agent[a].did => Holds(a, e)
  BY DEF Holds
<1>h. ASSUME NEW at, NEW todo, NEW sub, NEW did, NEW held, Becomes(a, at, todo, sub, did, held),
             UNCHANGED <<config, event, ran, buffer, notified>>, At(a, Delivering), at # "committed",
             \A e \in Events : e \in todo => e \in agent[a].todo,
             \A e \in Events, s \in Subs : <<e, s>> \in did => Holds(a, e),
             \A e \in Events, s \in Subs : Called(p, a, e, s)'
      PROVE  Single'
  <2>1. /\ agent'[a].at = at /\ agent'[a].todo = todo /\ agent'[a].did = did
        /\ \A b \in Agents : b # a => agent'[b] = agent[b]
    BY <1>h DEF Becomes
  <2>2. \A e \in Events : Holds(a, e)' => Holds(a, e)
    BY <1>h, <2>1 DEF Holds
  <2>3. ~At(a, {"committed"})'
    BY <1>h, <2>1 DEF At
  <2>4. \A q \in Procs, e \in Events, s \in Subs : ran'[q][e][s] = ran[q][e][s]
    BY <1>h
  <2> QED BY <1>1, <1>h, <2>1, <2>2, <2>3, <2>4, HandsSingle
<1>5. ASSUME Call(a) PROVE Single'
  <2>1. PICK e \in Events, did \in SUBSET (Events \X Subs) :
          /\ agent[a].at = "dispatching" /\ First(e, agent[a].todo)
          /\ did \in {agent[a].did, agent[a].did \cup {<<e, agent[a].sub>>}}
          /\ Becomes(a, "called",
                     IF agent[a].sub = config.subs THEN agent[a].todo \ {e} ELSE agent[a].todo,
                     Following(agent[a].sub), did, agent[a].job)
          /\ UNCHANGED <<config, event, ran, buffer, notified>>
    BY <1>1, <1>5, CallDoes
  <2>2. /\ agent'[a].todo = (IF agent[a].sub = config.subs THEN agent[a].todo \ {e} ELSE agent[a].todo)
        /\ agent'[a].sub = Following(agent[a].sub) /\ agent'[a].did = did
    BY <2>1 DEF Becomes
  <2>3. /\ ToCall(a, e, agent[a].sub)
        /\ \A f \in Events, s \in Subs :
             ToCall(a, f, s)' => ToCall(a, f, s) /\ <<f, s>> # <<e, agent[a].sub>>
    BY <2>1, <2>2, CallOnce
  <2>4. At(a, Delivering)
    BY <2>1 DEF At, Delivering
  <2>5. ASSUME NEW f \in Events, NEW s \in Subs PROVE Called(p, a, f, s)'
    <3>1. Owed(a, f, s)' => Owed(a, f, s)
      BY <2>1, <2>2, <2>3 DEF Owed
    <3>2. ~(ToCall(a, f, s)' /\ <<f, s>> \in agent'[a].did)
      BY <1>3, <2>1, <2>2, <2>3 DEF Called
    <3>3. Owed(a, f, s) => ran'[p][f][s] = 0
      BY <1>3, <2>1, <2>4 DEF Called
    <3> QED BY <3>1, <3>2, <3>3 DEF Called
  <2>6. \A f \in Events, s \in Subs : <<f, s>> \in did => Holds(a, f)
    BY <1>4, <2>1 DEF First, Holds
  <2> QED BY <1>h, <2>1, <2>4, <2>5, <2>6
<1>6. ASSUME HandlerCommits(a) PROVE Single'
  <2>1. /\ agent[a].at = "called"
        /\ Becomes(a, "announcing", agent[a].todo, agent[a].sub, {}, agent[a].job)
        /\ UNCHANGED <<config, event, buffer, notified>>
    BY <1>1, <1>6, DeliverDoes
  <2>2. /\ agent'[a].at = "announcing" /\ agent'[a].todo = agent[a].todo /\ agent'[a].did = {}
        /\ agent'[a].sub = agent[a].sub /\ \A b \in Agents : b # a => agent'[b] = agent[b]
    BY <2>1 DEF Becomes
  <2>3. At(a, Delivering)
    BY <2>1 DEF At, Delivering
  <2>4. ASSUME NEW q \in Procs, NEW e \in Events, NEW s \in Subs
        PROVE  /\ ran[q][e][s] \in Nat
               /\ ran'[q][e][s] = IF q = p /\ <<e, s>> \in agent[a].did THEN ran[q][e][s] + 1 ELSE ran[q][e][s]
    BY <1>1, <1>6, CommitsDo
  <2>5. ASSUME NEW q \in Procs, NEW e \in Events, NEW s \in Subs
        PROVE  ran'[q][e][s] = ran[q][e][s] \/ (q = p /\ ran'[q][e][s] <= 1 /\ <<e, s>> \in agent[a].did)
    <3>1. <<e, s>> \in agent[a].did => ran[p][e][s] = 0
      BY <1>3, <2>3 DEF Called, Owed
    <3> QED BY <2>4, <3>1
  <2>6. ASSUME NEW e \in Events, NEW s \in Subs PROVE Called(p, a, e, s)'
    <3>1. Owed(a, e, s)' <=> ToCall(a, e, s)
      BY <2>1, <2>2 DEF Owed, ToCall
    <3>2. ToCall(a, e, s) => <<e, s>> \notin agent[a].did /\ ran[p][e][s] = 0
      BY <1>3, <2>3 DEF Called, Owed
    <3>3. ToCall(a, e, s) => ran'[p][e][s] = 0
      BY <2>4, <3>2
    <3> QED BY <2>2, <3>1, <3>3 DEF Called
  <2>7. \A e \in Events : Holds(a, e)' => Holds(a, e)
    BY <2>2 DEF Holds
  <2>8. ~At(a, {"committed"})'
    BY <2>2 DEF At
  <2> QED BY <1>1, <2>1, <2>2, <2>3, <2>5, <2>6, <2>7, <2>8, HandsSingle
<1>7. ASSUME Announce(a) PROVE Single'
  <2>1. /\ agent[a].at = "announcing"
        /\ Becomes(a, "dispatching", agent[a].todo, agent[a].sub, agent[a].did, agent[a].job)
        /\ UNCHANGED <<config, event, ran, buffer, notified>>
    BY <1>1, <1>7, DeliverDoes
  <2>2. /\ agent'[a].todo = agent[a].todo /\ agent'[a].did = agent[a].did /\ agent'[a].sub = agent[a].sub
        /\ At(a, Delivering)
    BY <2>1 DEF Becomes, At, Delivering
  <2>3. ASSUME NEW e \in Events, NEW s \in Subs PROVE Called(p, a, e, s)'
    <3>1. Called(p, a, e, s)
      BY <1>3
    <3> QED BY <2>1, <2>2, <3>1 DEF Called, Owed, ToCall
  <2> QED BY <1>h, <1>4, <2>1, <2>2, <2>3
<1>8. ASSUME HandlerThrows(a) \/ Done(a) PROVE Single'
  <2>1. /\ agent[a].at \in {"called", "enqueuing", "announcing", "dispatching"}
        /\ Becomes(a, "idle", {}, 1, {}, NoJob) /\ UNCHANGED <<config, event, ran, buffer, notified>>
    BY <1>8, DeliverDoes
  <2>2. agent'[a].todo = {} /\ agent'[a].did = {} /\ At(a, Delivering)
    BY <2>1 DEF Becomes, At, Delivering
  <2>3. \A e \in Events, s \in Subs : Called(p, a, e, s)'
    BY <2>2, CalledNone
  <2> QED BY <1>h, <2>1, <2>2, <2>3
<1>9. ~Enqueue(a)
  BY <1>2 DEF Enqueue, At
<1> QED BY <1>5, <1>6, <1>7, <1>8, <1>9 DEF Deliver

LEMMA SingleStep ==
  ASSUME TypeOK, TypeOK', Stages, Marks, Single, Kept, config' = config, Step
  PROVE  Single'
<1> SUFFICES ASSUME Direct PROVE Single'
  BY DEF Single, Direct
<1>1. ASSUME NEW p \in Procs PROVE ~Work(p)
  <2>1. agent[Worker(p)].at = "idle" /\ \A j \in Jobs : job[j].state = "none"
    BY DirectStages DEF At
  <2> QED BY <2>1 DEF Work, TakeJob, JobCompletes, JobFails
<1> QED BY <1>1, OperateSingle, ListenSingle, CrashSingle, DeliverSingle DEF Step
-----------------------------------------------------------------------------
(***************************************************************************)
(* The theorems.                                                           *)
(***************************************************************************)
Delivery == TypeOK /\ Stages /\ Marks /\ OneJob /\ Fresh /\ Single

LEMMA InitDelivery == Init => Delivery
<1> SUFFICES ASSUME Init PROVE Delivery
  OBVIOUS
<1>1. TypeOK /\ Stages
  BY InitType, InitStages
<1>2. /\ \A p \in Procs, e \in Events, s \in Subs : ran[p][e][s] = 0
      /\ marker = {} /\ \A j \in Jobs : job[j].state = "none"
  BY DEF Init
<1>3. \A p \in Procs : buffer[p] = {} /\ notified[p] = {}
  BY DEF Init
<1>4. \A a \in Agents : agent[a].at = "idle" /\ agent[a].todo = {} /\ agent[a].did = {}
  <2>1. \A a \in Agents : agent[a] = Idle
    BY DEF Init
  <2> QED BY <1>1, <2>1, IdleType
<1>5. Marks
  BY <1>2 DEF Marks, Handled
<1>6. OneJob
  BY <1>2 DEF OneJob
<1>7. Fresh
  <2>1. \A e \in Events, s \in Subs : Once(e, s)
    BY <1>2 DEF Once
  <2> QED BY <1>4, <2>1 DEF Fresh
<1>8. Single
  <2>1. \A p \in Procs, e \in Events : Sending(p, e) /\ Received(p, e)
    BY <1>4, Distinct DEF Sending, Received, Holds, Foreign
  <2>2. \A p \in Procs, e \in Events : Buffered(p, e) /\ Mailed(p, e)
    BY <1>3 DEF Buffered, Mailed
  <2>3. \A p \in Procs, e \in Events, s \in Subs : Called(p, Op(p), e, s) /\ Called(p, Bus(p), e, s)
    BY <1>4, Distinct DEF Called, Owed, ToCall
  <2> QED BY <1>2, <2>1, <2>2, <2>3 DEF Single
<1> QED BY <1>1, <1>5, <1>6, <1>7, <1>8 DEF Delivery

LEMMA DeliveryStep == Delivery /\ [Next]_vars => Delivery'
<1> SUFFICES ASSUME Delivery, [Next]_vars PROVE Delivery'
  OBVIOUS
<1>1. TypeOK /\ Stages /\ Marks /\ OneJob /\ Fresh /\ Single
  BY DEF Delivery
<1>2. CASE UNCHANGED vars
  <2>1. TypeOK'
    BY <1>1, <1>2 DEF TypeOK, vars
  <2>2. Stages'
    <3>1. UNCHANGED <<config, event, job, agent, buffer, notified>>
      BY <1>2 DEF vars
    <3>2. Kept
      BY <3>1 DEF Kept
    <3>3. ASSUME NEW p \in Procs PROVE OpStage(p, Op(p))' /\ BusStage(p, Bus(p))' /\ WorkStage(p, Worker(p))'
      <4>1. OpStage(p, Op(p)) /\ BusStage(p, Bus(p)) /\ WorkStage(p, Worker(p)) /\ notified[p] \subseteq Events
        BY <1>1 DEF Stages, TypeOK
      <4> QED BY <1>1, <3>1, <3>2, <4>1, OpKept, BusKept, WorkKept
    <3> QED BY <1>1, <3>1, <3>3 DEF Stages, IsCommitted
  <2>3. Marks' /\ OneJob'
    BY <1>1, <1>2 DEF Marks, OneJob, Handled, Holds, IsCommitted, vars
  <2>4. Fresh'
    BY <1>1, <1>2 DEF Fresh, OneAtATime, Once, vars
  <2>5. Single'
    <3>1. UNCHANGED <<config, event, ran, agent, buffer, notified>>
      BY <1>2 DEF vars
    <3>2. \A p \in Procs, e \in Events :
            /\ Sending(p, e)' <=> Sending(p, e)
            /\ Buffered(p, e)' <=> Buffered(p, e)
            /\ Mailed(p, e)' <=> Mailed(p, e)
            /\ Received(p, e)' <=> Received(p, e)
      BY <3>1 DEF Sending, Buffered, Mailed, Received, NotRun, Foreign, Holds, At
    <3>3. \A p \in Procs, a \in Agents, e \in Events, s \in Subs : Called(p, a, e, s)' <=> Called(p, a, e, s)
      BY <3>1 DEF Called, Owed, ToCall, At
    <3> QED BY <1>1, <3>1, <3>2, <3>3, Distinct DEF Single
  <2> QED BY <2>1, <2>2, <2>3, <2>4, <2>5 DEF Delivery
<1>3. CASE Next
  <2>1. Step
    BY <1>3 DEF Next, Step
  <2>2. TypeOK' /\ Stages' /\ Kept /\ config' = config
    BY <1>1, <2>1, StagesStep
  <2>3. Marks' /\ OneJob' /\ Fresh' /\ Single'
    BY <1>1, <2>1, <2>2, MarksStep, OneJobStep, FreshStep, SingleStep
  <2> QED BY <2>2, <2>3 DEF Delivery
<1> QED BY <1>2, <1>3

LEMMA Deliveries == Spec => []Delivery
<1>1. Init => Delivery
  BY InitDelivery
<1>2. Delivery /\ [Next]_vars => Delivery'
  BY DeliveryStep
<1> QED BY <1>1, <1>2, PTL DEF Spec

LEMMA SubscribedSubs ==
  ASSUME TypeOK, NEW w \in Subscribed
  PROVE  w[1] \in Events /\ w[2] \in Subs /\ w = <<w[1], w[2]>>
<1>1. config.subs \in 1 .. MaxSubs /\ MaxSubs \in Nat
  BY DeliveryAssumption DEF TypeOK, Deployment, Subs
<1>2. 1 .. config.subs \subseteq Subs
  BY <1>1 DEF Subs
<1> QED BY <1>2 DEF Subscribed

(* In every deployment an idempotent subscription handles an event once at *)
(* most, provided that nobody but a job of the event hands it on           *)
(* (dispatchSubscriptions looks at the marker and writes it in one         *)
(* transaction); its marker is there just when a handler has committed;    *)
(* and handlers only see events that have committed.                       *)
THEOREM HandledAtMostOnce == Spec => []AtMostOnce
<1>1. Delivery => AtMostOnce
  <2> SUFFICES ASSUME Delivery, NEW w \in Subscribed
               PROVE  /\ config.idempotent /\ OneAtATime => Once(w[1], w[2])
                      /\ (w \in marker) = (config.idempotent /\ Handled(w[1], w[2]))
                      /\ Handled(w[1], w[2]) => event[w[1]].state = "committed"
    BY DEF AtMostOnce
  <2>1. w[1] \in Events /\ w[2] \in Subs /\ w = <<w[1], w[2]>>
    BY SubscribedSubs DEF Delivery
  <2>2. config.idempotent /\ OneAtATime => Once(w[1], w[2])
    BY <2>1 DEF Delivery, Fresh
  <2>3. \A e \in Events, s \in Subs :
          /\ (<<e, s>> \in marker) <=> (config.idempotent /\ Handled(e, s))
          /\ Handled(e, s) => IsCommitted(e)
    BY DEF Delivery, Marks
  <2>4. (w \in marker) <=> (config.idempotent /\ Handled(w[1], w[2]))
    BY <2>1, <2>3
  <2>5. Handled(w[1], w[2]) => event[w[1]].state = "committed"
    BY <2>1, <2>3 DEF IsCommitted
  <2> QED BY <2>2, <2>4, <2>5
<1> QED BY <1>1, Deliveries, PTL

(* A process whose bus listens handles each event once at most with each   *)
(* subscription when it dispatches them itself: it drops the notifications *)
(* of its own events (the origin of the notification), and those of an     *)
(* operation whose publish failed wait in the buffer for the next one.     *)
THEOREM OwnEventsHandledOnce == Spec => []NotTwiceInProcess
<1>1. Delivery => NotTwiceInProcess
  BY SubscribedSubs DEF Delivery, Single, NotTwiceInProcess
<1> QED BY <1>1, Deliveries, PTL
=============================================================================
