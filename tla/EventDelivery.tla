--------------------------- MODULE EventDelivery ---------------------------
(***************************************************************************)
(* Published events on their way to subscriptions: the events that an      *)
(* operation's transaction persists, the event bus, the dispatch that      *)
(* follows the commit in the publishing process (sync, or as a job of the  *)
(* internal subscription queue), and the dispatch by the buses of other    *)
(* processes.  An idempotent subscription leaves a marker in the key-value *)
(* table, in the transaction of its handler.                               *)
(*                                                                         *)
(* A process has an agent that runs operations, one that serves the event  *)
(* bus and one that works on jobs; each statement that looks at what other *)
(* agents commit is a step.  Operations publish one event each, handlers   *)
(* none.  An operation and the bus of a process use one engine: here they  *)
(* open their transactions in turns, and a listening bus goes through its  *)
(* notifications one after the other, in any order.                        *)
(***************************************************************************)
EXTENDS Integers

CONSTANTS
  Procs,          \* processes
  MaxEvents,      \* bound: events
  MaxSubs,        \* bound: subscriptions of the event's name
  MaxJobs,        \* bound: jobs of the subscription queue that are open at one time
  MaxFaults,      \* bound: how often statements fail by themselves
  MaxCrashes,     \* bound: how often processes crash
  Deployments     \* how the processes may be configured, and what befalls them

Events == 1..MaxEvents    \* in the order of _chimpbase_events.id
Subs == 1..MaxSubs        \* in the order of their registration
Jobs == 1..MaxJobs
NoJob == 0
Kinds == {"op", "bus", "work"}

(* dispatch is subscriptions.dispatch, bus is eventBus; subs is the number *)
(* of subscriptions; listening are the processes that have started their   *)
(* bus, publishers run operations that publish, workers take jobs; failing *)
(* are the kinds of agents whose statements may fail; tooLarge are the     *)
(* events that do not fit into a notification.                             *)
Deployment ==
  [dispatch : {"sync", "async"}, bus : {"noop", "polling", "listen"}, idempotent : BOOLEAN, subs : Subs,
   listening : SUBSET Procs, publishers : SUBSET Procs, workers : SUBSET Procs, crashing : SUBSET Procs,
   failing : SUBSET Kinds, tooLarge : SUBSET Events]

ASSUME DeliveryAssumption ==
  /\ Deployments \subseteq Deployment
  /\ Procs # {} /\ {MaxEvents, MaxSubs} \subseteq Nat \ {0} /\ {MaxJobs, MaxFaults, MaxCrashes} \subseteq Nat

VARIABLES
  config,    \* the deployment
  event,     \* rows of _chimpbase_events: their state and the publishing process
  job,       \* open jobs of the subscription queue
  late,      \* history: events that committed after one with a greater id
  marker,    \* markers of idempotent subscriptions
  ran,       \* handlers that committed, by process, event and subscription
  agent,     \* what the agents of a process are doing
  buffer,    \* committedEvents of a process
  seen,      \* lastSeenId of its polling bus
  notified,  \* notifications on their way to it
  faults,
  crashes

vars == <<config, event, late, job, marker, ran, agent, buffer, seen, notified, faults, crashes>>

Idle == [at |-> "idle", todo |-> {}, sub |-> 1, did |-> {}, job |-> NoJob]
Agents == Procs \X Kinds
Op(p) == <<p, "op">>
Bus(p) == <<p, "bus">>
Worker(p) == <<p, "work">>

Init ==
  /\ config \in Deployments
  /\ event = [e \in Events |-> [state |-> "none", by |-> CHOOSE p \in Procs : TRUE]]
  /\ job = [j \in Jobs |-> [state |-> "none", event |-> 1]]
  /\ late = {}
  /\ marker = {}
  /\ ran = [p \in Procs |-> [e \in Events |-> [s \in Subs |-> 0]]]
  /\ agent = [a \in Agents |-> Idle]
  /\ buffer = [p \in Procs |-> {}]
  /\ seen = [p \in Procs |-> 0]
  /\ notified = [p \in Procs |-> {}]
  /\ faults = 0
  /\ crashes = 0

Fault(kind) == kind \in config.failing /\ faults < MaxFaults /\ faults' = faults + 1
Committed == {e \in Events : event[e].state = "committed"}
MaxId(S) == CHOOSE m \in S \cup {0} : \A e \in S : e <= m

(* Events are gone through in the order of their ids. *)
First(e, todo) == e \in todo /\ \A f \in todo : e <= f
-----------------------------------------------------------------------------
(* persistEvents: the row gets its id before the transaction commits. *)
Persist(p) ==
  /\ agent[Op(p)].at = "idle" /\ p \in config.publishers /\ agent[Bus(p)].at # "called"
  /\ \E e \in Events :
       /\ event[e].state = "none" /\ \A f \in 1..(e - 1) : event[f].state # "none"
       /\ event' = [event EXCEPT ![e] = [state |-> "inserted", by |-> p]]
       /\ agent' = [agent EXCEPT ![Op(p)] = [Idle EXCEPT !.at = "persisted", !.todo = {e}]]
  /\ UNCHANGED <<config, late, job, marker, ran, buffer, seen, notified, faults, crashes>>

(* COMMIT; the events move from pendingEvents to committedEvents. *)
Commit(p) ==
  /\ agent[Op(p)].at = "persisted"
  /\ event' = [e \in Events |-> IF e \in agent[Op(p)].todo
                                THEN [event[e] EXCEPT !.state = "committed"] ELSE event[e]]
  /\ late' = late \cup {e \in agent[Op(p)].todo : \E f \in Committed : f > e}
  /\ buffer' = [buffer EXCEPT ![p] = @ \cup agent[Op(p)].todo]
  /\ agent' = [agent EXCEPT ![Op(p)].at = "committed"]
  /\ UNCHANGED <<config, job, marker, ran, seen, notified, faults, crashes>>

Rollback(p) ==
  /\ agent[Op(p)].at = "persisted" /\ Fault("op")
  /\ event' = [e \in Events |-> IF e \in agent[Op(p)].todo
                                THEN [event[e] EXCEPT !.state = "aborted"] ELSE event[e]]
  /\ agent' = [agent EXCEPT ![Op(p)] = Idle]
  /\ UNCHANGED <<config, late, job, marker, ran, buffer, seen, notified, crashes>>

(***************************************************************************)
(* eventBus.publish, after the commit of any transaction.  The polling bus *)
(* moves its mark to the greatest id there is; the listening one notifies  *)
(* every process that has started it.                                      *)
(***************************************************************************)
Publishable(p) == config.bus # "listen" \/ agent[Op(p)].todo \cap config.tooLarge = {}
Moved(p) == IF config.bus = "polling" THEN [seen EXCEPT ![p] = MaxId(Committed \cup {@})] ELSE seen

Publish(p) ==
  /\ agent[Op(p)].at = "committed" /\ Publishable(p)
  /\ seen' = Moved(p)
  /\ notified' = IF config.bus = "listen"
                 THEN [q \in Procs |-> notified[q] \cup {e \in agent[Op(p)].todo : q \in config.listening}] ELSE notified
  /\ agent' = [agent EXCEPT ![Op(p)] = [Idle EXCEPT !.at = "published"]]
  /\ UNCHANGED <<config, event, late, job, marker, ran, buffer, faults, crashes>>

(* It throws: the operation fails, and its events stay in committedEvents. *)
PublishThrows(p) ==
  /\ agent[Op(p)].at = "committed"
  /\ IF Publishable(p) THEN Fault("op") ELSE UNCHANGED faults
  /\ agent' = [agent EXCEPT ![Op(p)] = Idle]
  /\ UNCHANGED <<config, event, late, job, marker, ran, buffer, seen, notified, crashes>>

Handing(todo) ==
  [Idle EXCEPT !.at = IF config.dispatch = "sync" THEN "dispatching" ELSE "enqueuing", !.todo = todo]

(* Mutant of TakeCommitted: the events are taken before the operation's own commit. *)
TakeCommittedEarly(p) ==
  /\ agent[Op(p)].at = "published"
  /\ LET last == {MaxId(buffer[p])} IN
     /\ agent' = [agent EXCEPT ![Op(p)] = Handing(buffer[p] \ last)]
     /\ buffer' = [buffer EXCEPT ![p] = last]
  /\ UNCHANGED <<config, event, late, job, marker, ran, seen, notified, faults, crashes>>

(* takeCommittedEvents and handleCommittedEvents. *)
TakeCommitted(p) ==
  /\ agent[Op(p)].at = "published"
  /\ agent' = [agent EXCEPT ![Op(p)] = Handing(buffer[p])]
  /\ buffer' = [buffer EXCEPT ![p] = {}]
  /\ UNCHANGED <<config, event, late, job, marker, ran, seen, notified, faults, crashes>>
-----------------------------------------------------------------------------
(* poll: the query, and what the process does with its rows after that. *)
PollQuery(p) ==
  /\ config.bus = "polling" /\ p \in config.listening /\ agent[Bus(p)].at = "idle"
  /\ LET rows == {e \in Committed : e > seen[p]} IN
     /\ rows # {}
     /\ agent' = [agent EXCEPT ![Bus(p)] = [Idle EXCEPT !.at = "polled", !.todo = rows]]
  /\ UNCHANGED <<config, event, late, job, marker, ran, buffer, seen, notified, faults, crashes>>

PollHand(p) ==
  /\ agent[Bus(p)].at = "polled"
  /\ seen' = [seen EXCEPT ![p] = MaxId(agent[Bus(p)].todo)]
  /\ agent' = [agent EXCEPT ![Bus(p)] = Handing(agent[Bus(p)].todo)]
  /\ UNCHANGED <<config, event, late, job, marker, ran, buffer, notified, faults, crashes>>

(* Mutant of Foreign: the origin is not looked at. *)
ForeignNot(p, e) == TRUE
Foreign(p, e) == event[e].by # p

(* The listening bus gets a notification and drops those of its own origin. *)
Notify(p) ==
  /\ agent[Bus(p)].at = "idle"
  /\ \E e \in notified[p] :
       /\ notified' = [notified EXCEPT ![p] = @ \ {e}]
       /\ agent' = IF Foreign(p, e) THEN [agent EXCEPT ![Bus(p)] = Handing({e})] ELSE agent
  /\ UNCHANGED <<config, event, late, job, marker, ran, buffer, seen, faults, crashes>>
-----------------------------------------------------------------------------
(* enqueueSubscriptionDispatchJobs *)
Enqueue(a) ==
  /\ agent[a].at = "enqueuing"
  /\ \E e \in Events, j \in Jobs :
       /\ First(e, agent[a].todo)
       /\ job[j].state = "none" /\ \A k \in 1..(j - 1) : job[k].state # "none"
       /\ job' = [job EXCEPT ![j] = [state |-> "waiting", event |-> e]]
       /\ agent' = [agent EXCEPT ![a].todo = @ \ {e}]
  /\ UNCHANGED <<config, event, late, marker, ran, buffer, seen, notified, faults, crashes>>

(***************************************************************************)
(* dispatchSubscriptions.  In an operation and on the bus every handler    *)
(* has a transaction of its own; in a job it joins that of the job.        *)
(***************************************************************************)
(* Mutant of SeenBefore: the marker is not looked up. *)
SeenBeforeNot(pair) == FALSE
SeenBefore(pair) == config.idempotent /\ pair \in marker

Engine(a) == IF a[2] = "work" THEN {a} ELSE {Op(a[1]), Bus(a[1])}

Following(sub) == IF sub = config.subs THEN 1 ELSE sub + 1

Call(a) ==
  /\ agent[a].at = "dispatching"
  /\ \A b \in Engine(a) : agent[b].at \notin {"persisted", "called"}
  /\ \E e \in Events :
       /\ First(e, agent[a].todo)
       /\ agent' = [agent EXCEPT
            ![a].at = IF a[2] = "work" THEN @ ELSE "called",
            ![a].did = IF SeenBefore(<<e, agent[a].sub>>) THEN @ ELSE @ \cup {<<e, agent[a].sub>>},
            ![a].sub = Following(@),
            ![a].todo = IF agent[a].sub = config.subs THEN @ \ {e} ELSE @]
  /\ UNCHANGED <<config, event, late, job, marker, ran, buffer, seen, notified, faults, crashes>>

Marked(did) == IF config.idempotent THEN marker \cup did ELSE marker

(* The transaction of the handler, or of the job, commits. *)
HandlerCommits(a) ==
  /\ IF a[2] = "work" THEN agent[a].at = "dispatching" /\ agent[a].todo = {}
                      ELSE agent[a].at = "called"
  /\ ran' = [ran EXCEPT ![a[1]] = [e \in Events |-> [s \in Subs |->
       IF <<e, s>> \in agent[a].did THEN @[e][s] + 1 ELSE @[e][s]]]]
  /\ marker' = Marked(agent[a].did)
  /\ agent' = [agent EXCEPT ![a].at = "announcing", ![a].did = {}]
  /\ UNCHANGED <<config, event, late, job, buffer, seen, notified, faults, crashes>>

(* eventBus.publish of no events *)
Announce(a) ==
  /\ agent[a].at = "announcing"
  /\ seen' = Moved(a[1])
  /\ agent' = [agent EXCEPT ![a].at = IF a[2] = "work" THEN "handled" ELSE "dispatching"]
  /\ UNCHANGED <<config, event, late, job, marker, ran, buffer, notified, faults, crashes>>

(* A handler, an enqueue or a publish throws: the operation or the poll is over. *)
HandlerThrows(a) ==
  /\ agent[a].at \in {"called", "enqueuing", "announcing"} /\ a[2] # "work" /\ Fault(a[2])
  /\ agent' = [agent EXCEPT ![a] = Idle]
  /\ UNCHANGED <<config, event, late, job, marker, ran, buffer, seen, notified, crashes>>

Done(a) ==
  /\ agent[a].at \in {"dispatching", "enqueuing"} /\ a[2] # "work"
  /\ agent[a].todo = {}
  /\ agent' = [agent EXCEPT ![a] = Idle]
  /\ UNCHANGED <<config, event, late, job, marker, ran, buffer, seen, notified, faults, crashes>>
-----------------------------------------------------------------------------
(* The subscription queue delivers a job, or again when its lease ran out  *)
(* because its process stopped (JobQueue has those that outlive a lease).  *)
TakeJob(p) ==
  /\ agent[Worker(p)].at = "idle" /\ p \in config.workers
  /\ \E j \in Jobs :
       /\ \/ job[j].state = "waiting"
          \/ job[j].state = "taken" /\ \A q \in Procs : agent[Worker(q)].job # j
       /\ job' = [job EXCEPT ![j].state = "taken"]
       /\ agent' = [agent EXCEPT ![Worker(p)] =
            [Idle EXCEPT !.at = "dispatching", !.todo = {job[j].event}, !.job = j]]
  /\ UNCHANGED <<config, event, late, marker, ran, buffer, seen, notified, faults, crashes>>

JobCompletes(p) ==
  /\ agent[Worker(p)].at = "handled"
  /\ job' = [job EXCEPT ![agent[Worker(p)].job].state = "none"]
  /\ agent' = [agent EXCEPT ![Worker(p)] = Idle]
  /\ UNCHANGED <<config, event, late, marker, ran, buffer, seen, notified, faults, crashes>>

(* Before its commit, which rolls back, or after it. *)
JobFails(p) ==
  /\ agent[Worker(p)].at \in {"dispatching", "announcing", "handled"} /\ Fault("work")
  /\ job' = [job EXCEPT ![agent[Worker(p)].job].state = "waiting"]
  /\ agent' = [agent EXCEPT ![Worker(p)] = Idle]
  /\ UNCHANGED <<config, event, late, marker, ran, buffer, seen, notified, crashes>>

(* A process stops and starts again; its bus begins at the greatest id.    *)
Crash(p) ==
  /\ crashes < MaxCrashes /\ p \in config.crashing
  /\ crashes' = crashes + 1
  /\ event' = [e \in Events |-> IF event[e] = [state |-> "inserted", by |-> p]
                                THEN [event[e] EXCEPT !.state = "aborted"] ELSE event[e]]
  /\ agent' = [a \in Agents |-> IF a[1] = p THEN Idle ELSE agent[a]]
  /\ buffer' = [buffer EXCEPT ![p] = {}]
  /\ seen' = [seen EXCEPT ![p] = MaxId(Committed)]
  /\ notified' = [notified EXCEPT ![p] = {}]
  /\ UNCHANGED <<config, late, job, marker, ran, faults>>

Operate(p) == Commit(p) \/ Rollback(p) \/ Publish(p) \/ PublishThrows(p) \/ TakeCommitted(p)
Listen(p) == PollQuery(p) \/ PollHand(p) \/ Notify(p)
Deliver(a) ==
  Enqueue(a) \/ Call(a) \/ HandlerCommits(a) \/ Announce(a) \/ HandlerThrows(a) \/ Done(a)
Work(p) == TakeJob(p) \/ JobCompletes(p) \/ JobFails(p)

Next ==
  \/ \E p \in Procs : Persist(p) \/ Operate(p) \/ Listen(p) \/ Work(p) \/ Crash(p)
  \/ \E a \in Agents : Deliver(a)

Spec == Init /\ [][Next]_vars

(* What has begun goes on; no operation is owed to anyone. *)
Fairness ==
  /\ \A p \in Procs : WF_vars(Operate(p)) /\ WF_vars(Listen(p)) /\ WF_vars(Work(p))
  /\ \A a \in Agents : WF_vars(Deliver(a))
FairSpec == Spec /\ Fairness
-----------------------------------------------------------------------------
Handled(e, s) == \E p \in Procs : ran[p][e][s] > 0
Once(e, s) ==
  /\ \A p \in Procs : ran[p][e][s] <= 1
  /\ \A p, q \in Procs : ran[p][e][s] > 0 /\ ran[q][e][s] > 0 => p = q
Subscribed == Events \X (1..config.subs)
Undisturbed == config.failing \subseteq {"work"} /\ config.crashing = {}

(* "the handler runs at most once per event (dedup via KV)"                *)
(* (docs/subscriptions.md:42), whatever is retried or delivered twice, as  *)
(* long as no two agents are at the jobs of one event at one time.  A      *)
(* marker stands for a handler that has committed, so that skipping the    *)
(* subscription loses nothing, and handlers only see persisted events.     *)
OneAtATime == config.bus = "noop" \/ (config.dispatch = "async" /\ \A p, q \in config.workers : p = q)
AtMostOnce ==
  \A w \in Subscribed :
    /\ config.idempotent /\ OneAtATime => Once(w[1], w[2])
    /\ (w \in marker) = (config.idempotent /\ Handled(w[1], w[2]))
    /\ Handled(w[1], w[2]) => event[w[1]].state = "committed"

(* "in-process subscriptions are not double-dispatched"                    *)
(* (docs/subscriptions.md:102): a process drops the notifications of its   *)
(* own events, and a failed publish leaves them to be dispatched once.     *)
NotTwiceInProcess ==
  config.dispatch = "sync" /\ config.bus = "listen" =>
    \A p \in Procs : \A w \in Subscribed : ran[p][w[1]][w[2]] <= 1

(* A bus "delivers them to peer processes" (docs/subscriptions.md:71): of  *)
(* the listening one this holds when nothing fails - every process handles *)
(* every event.  Of the polling one it does not: publish moves the mark of *)
(* a process past the events of its peers (PostgresPollingEventBus).  With *)
(* dispatch in jobs, an event that has committed is handled somewhere if   *)
(* nothing but handlers fails, or if a process that only polls makes up    *)
(* for those that publish, fail after the commit and crash - unless the    *)
(* event is late: then poll may have left its id behind, and it is handled *)
(* only if its own process lives to do so (handleCommittedEvents, poll).   *)
Fanout == Undisturbed /\ config.bus = "listen" /\ config.dispatch = "sync" /\ config.tooLarge = {}
Standby(p) == p \in config.listening \ (config.publishers \cup config.workers \cup config.crashing)
MadeUpFor(e) ==
  /\ config.dispatch = "async" /\ config.workers # {}
  /\ \/ Undisturbed
     \/ config.bus = "polling" /\ "bus" \notin config.failing /\ e \notin late /\ \E p \in Procs : Standby(p)
ReachesPeers ==
  \A e \in Events :
    /\ (Fanout /\ event[e].state = "committed") ~> \A p \in config.listening, s \in 1..config.subs : ran[p][e][s] > 0
    /\ (MadeUpFor(e) /\ event[e].state = "committed") ~> \A s \in 1..config.subs : Handled(e, s)
=============================================================================
