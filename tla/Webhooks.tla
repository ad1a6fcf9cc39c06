------------------------------ MODULE Webhooks ------------------------------
(***************************************************************************)
(* The webhooks plugin: sources that post to the application, and hooks    *)
(* to which the application posts its events.                              *)
(*                                                                         *)
(* A request is verified, and accepted in a transaction of its own that    *)
(* looks its deduplication key up and writes it.  An event of the          *)
(* application is dispatched to the plugin's subscription, which makes a   *)
(* delivery job for every active hook that wants it; a worker posts it     *)
(* inside the job's transaction.  Management requests change the hooks     *)
(* meanwhile.  Processes meet in the database only, statement by           *)
(* statement; a lane keeps its leases (see JobQueue for those that do not).*)
(***************************************************************************)
EXTENDS DocumentStore, FiniteSets, Sequences

CONSTANTS
  Sources,      \* inbound sources; each stands for one payload with its key
  Verify,       \* how a source is verified
  Events,       \* events of the application, each with its own name
  Deliveries,   \* delivery ids: random
  MaxAttempts,  \* attempts of a job
  MaxRequests,  \* bound: requests of clients
  MaxFaults     \* bound: crashes and posts that fail

VARIABLES
  task,       \* what a process is doing
  budget,     \* requests and faults that are left
  published,  \* how often the payload of a key was published
  accepted,   \* keys of requests that were answered "accepted"
  emitted,    \* events of the application that were committed
  steady,     \* history: hooks that want an event, untouched since
  job,        \* delivery jobs
  received,   \* posts that the endpoint answered with success
  log,        \* rows of the delivery log, by status
  skipped,    \* deliveries whose hook was gone or inactive when looked up
  off         \* history: hooks that were deleted or deactivated

hookVars == <<task, budget, published, accepted, emitted, steady, job, received, log, skipped, off>>
vars == <<hookVars, storeVars>>

Idle == [op |-> "idle"]
Hooks == Docs
Marker(e) == <<"seen", e>>
Patches == {[active |-> FALSE], [label |-> 1], [events |-> Events]}

(* The document of a hook, and a delivery job. *)
HookDocs == [coll : {"hook"}, events : SUBSET Events, active : BOOLEAN, label : {0, 1}]
Jobs == [hook : Hooks, event : Events, status : {"pending", "processing", "completed", "dead", "reported"}, attempts : Nat]

(* The keys hold what sources post and the markers of events; what says that there is none is none. *)
WebhookConstants ==
  /\ Sources \subseteq Keys /\ \A e \in Events : Marker(e) \in Keys \ Sources
  /\ Unused # Gone /\ \A doc \in HookDocs : Exists(doc)
  /\ None # TRUE /\ None \notin Jobs /\ \A alive \in BOOLEAN : None # [value |-> TRUE, alive |-> alive]

Init ==
  /\ StoreInit([h \in Hooks |-> Unused], [k \in Keys |-> None])
  /\ task = [p \in Procs |-> Idle]
  /\ budget = [requests |-> MaxRequests, faults |-> MaxFaults]
  /\ published = [k \in Sources |-> 0] /\ accepted = {}
  /\ emitted = {} /\ steady = [e \in Events |-> {}]
  /\ job = [d \in Deliveries |-> None]
  /\ received = [d \in Deliveries |-> 0]
  /\ log = [d \in Deliveries |-> [delivered |-> 0, failed |-> 0]]
  /\ skipped = {} /\ off = {}

At(p, op, place) == task[p].op = op /\ task[p].at = place
Goto(p, place) == task' = [task EXCEPT ![p].at = place]
Rest(p) == task' = [task EXCEPT ![p] = Idle]
Start(p, t, subject) ==
  /\ task[p] = Idle
  /\ Begin(p, subject)
  /\ task' = [task EXCEPT ![p] = t]
-----------------------------------------------------------------------------
(* Verification.  A request carries credentials: a header of some scheme, *)
(* with what it proves; a signature is over a secret and what was signed. *)
Missing == "missing"

Hmac(cred, secret, signed) ==
  /\ cred.scheme # Missing /\ secret # Missing
  /\ cred.value = <<secret, signed>>

BasicAuth(cred, secret, username) ==
  /\ cred.scheme = "basic" /\ Len(cred.value) = 2
  /\ secret # Missing
  /\ cred.value = <<username, secret>>

BearerToken(cred, secret, header) ==
  /\ cred.scheme = IF header = "authorization" THEN "bearer" ELSE header
  /\ secret # Missing
  /\ cred.value = <<secret>>

HeaderToken(cred, secret, header) ==
  /\ cred.scheme = header
  /\ secret # Missing
  /\ cred.value = <<secret>>

Username == "user"
Secret == "secret"
Body == "body"
HeaderName == "x-token"

Verified(s, cred) ==
  CASE Verify[s] = "hmac"   -> Hmac(cred, Secret, Body)
    [] Verify[s] = "basic"  -> BasicAuth(cred, Secret, Username)
    [] Verify[s] = "bearer" -> BearerToken(cred, Secret, "authorization")
    [] Verify[s] = "header" -> HeaderToken(cred, Secret, HeaderName)

Credentials ==
  [scheme : {Missing, "basic", "bearer", HeaderName},
   value : {<<Secret, Body>>, <<Username, Secret>>, <<Username>>, <<Secret>>}]
-----------------------------------------------------------------------------
(* The inbound route answers 401, or runs the accept action. *)
Inbound(p, s, cred, keyed) ==
  /\ budget.requests > 0
  /\ Verified(s, cred)
  /\ Start(p, [op |-> "accept", at |-> "lookup", id |-> s, keyed |-> keyed], s)
  /\ budget' = [budget EXCEPT !.requests = @ - 1]
  /\ UNCHANGED <<published, accepted, emitted, steady, job, received, log, skipped, off>>

AcceptLookup(p) ==
  /\ At(p, "accept", "lookup")
  /\ Goto(p, IF ~task[p].keyed THEN "publish"
             ELSE IF KvGet(p, task[p].id) = None THEN "set" ELSE "duplicate")
  /\ UNCHANGED <<budget, published, accepted, emitted, steady, job, received, log, skipped, off, storeVars>>

(* A bug: the key is remembered before the transaction that publishes. *)
AcceptSetEarly(p) ==
  /\ At(p, "accept", "set")
  /\ kv' = [kv EXCEPT ![task[p].id] = [value |-> TRUE, alive |-> TRUE]]
  /\ Goto(p, "publish")
  /\ UNCHANGED <<rows, tx, met, budget, published, accepted, emitted, steady, job, received, log, skipped, off>>
AcceptSet(p) ==
  /\ At(p, "accept", "set")
  /\ KvSet(p, task[p].id, TRUE)
  /\ Goto(p, "publish")
  /\ UNCHANGED <<budget, published, accepted, emitted, steady, job, received, log, skipped, off>>

(* The event is published by the commit; the answer may be lost. *)
AcceptCommit(p) ==
  /\ At(p, "accept", "publish") \/ At(p, "accept", "duplicate")
  /\ Commit(p) /\ Rest(p)
  /\ LET s == task[p].id IN
       IF task[p].keyed
       THEN /\ published' = [published EXCEPT ![s] = @ + IF task[p].at = "publish" THEN 1 ELSE 0]
            /\ accepted' = accepted \cup {s}
       ELSE UNCHANGED <<published, accepted>>
  /\ UNCHANGED <<budget, emitted, steady, job, received, log, skipped, off>>

-----------------------------------------------------------------------------
(* Management: a request's method and path name an action, or none and    *)
(* the next route is asked.  segments is what follows the base path.      *)
ManagementRoute(method, segments) ==
  CASE segments = <<>> /\ method = "POST"   -> "register"
    [] segments = <<>> /\ method = "GET"    -> "list"
    [] Len(segments) = 1 /\ method = "GET"  -> "get"
    [] Len(segments) = 2 /\ segments[2] = "deliveries" /\ method = "GET" -> "listDeliveries"
    [] Len(segments) = 1 /\ method = "PATCH"  -> "update"
    [] Len(segments) = 1 /\ method = "DELETE" -> "delete"
    [] OTHER -> "next"

(* Fields of a body: absent (or null), of the wrong type, empty, or right. *)
RequireString(f) == f = "right"
RequireStringArray(f) == f = "right"
OptionalField(f) == f # "wrong"

ValidBody(action, url, events, label, active) ==
  CASE action = "register" -> RequireString(url) /\ RequireStringArray(events) /\ OptionalField(label)
    [] action = "update"   -> \A f \in {url, events, label, active} : OptionalField(f)
    [] OTHER -> TRUE

Manage(p, h, method, segments, t) ==
  /\ budget.requests > 0
  /\ ManagementRoute(method, segments) = t.op
  /\ Start(p, t, h)
  /\ budget' = [budget EXCEPT !.requests = @ - 1]
  /\ UNCHANGED <<published, accepted, emitted, steady, job, received, log, skipped, off>>

Request(p, h) ==
  \/ /\ ValidBody("register", "right", "right", "absent", "absent")
     /\ Manage(p, h, "POST", <<>>, [op |-> "register", at |-> "insert", id |-> h])
  \/ /\ ValidBody("update", "absent", "right", "right", "right")
     /\ \E patch \in Patches :
          Manage(p, h, "PATCH", <<h>>, [op |-> "update", at |-> "find", id |-> h, patch |-> patch, read |-> None])
  \/ Manage(p, h, "DELETE", <<h>>, [op |-> "delete", at |-> "find", id |-> h, read |-> None])

Untouched(h) == steady' = [e \in Events |-> steady[e] \ {h}]

Register(p) ==
  /\ At(p, "register", "insert")
  /\ \E wants \in SUBSET Events \ {{}} :
       CollectionInsert(p, task[p].id, [coll |-> "hook", events |-> wants, active |-> TRUE, label |-> 0])
  /\ Goto(p, "commit")
  /\ UNCHANGED <<budget, published, accepted, emitted, steady, job, received, log, skipped, off>>

(* findOne, and the SELECT of collectionUpdate or collectionDelete. *)
Find(p) ==
  /\ At(p, "update", "find") \/ At(p, "delete", "find")
  /\ LET h == task[p].id IN
       IF h \in Found(p, "hook")
       THEN task' = [task EXCEPT ![p].at = "write", ![p].read = Doc(p, h)]
       ELSE Goto(p, "nothing")
  /\ UNCHANGED <<budget, published, accepted, emitted, steady, job, received, log, skipped, off, storeVars>>

Write(p) ==
  /\ \/ At(p, "update", "write") /\ UpdateRow(p, task[p].id, task[p].read, task[p].patch)
     \/ At(p, "delete", "write") /\ DeleteRow(p, task[p].id)
  /\ Goto(p, "commit")
  /\ UNCHANGED <<budget, published, accepted, emitted, steady, job, received, log, skipped, off>>

Silences(t) == t.op = "delete" \/ (t.op = "update" /\ "active" \in DOMAIN t.patch)

ManageCommit(p) ==
  /\ task[p].op \in {"register", "update", "delete"} /\ task[p].at \in {"commit", "nothing"}
  /\ Commit(p) /\ Rest(p)
  /\ IF task[p].at = "commit"
     THEN /\ Untouched(task[p].id)
          /\ off' = IF Silences(task[p]) THEN off \cup {task[p].id} ELSE off
     ELSE UNCHANGED <<steady, off>>
  /\ UNCHANGED <<budget, published, accepted, emitted, job, received, log, skipped>>
-----------------------------------------------------------------------------
(* Parsed from JSON; "*" stands for every event. *)
Wants(doc, e) == e \in doc.events

(* An action of the application commits an event. *)
Emit(e) ==
  /\ e \notin emitted
  /\ emitted' = emitted \cup {e}
  /\ steady' = [steady EXCEPT ![e] = {h \in Hooks : Exists(rows[h]) /\ rows[h].active /\ Wants(rows[h], e)}]
  /\ UNCHANGED <<task, budget, published, accepted, job, received, log, skipped, off, storeVars>>

(* The engine gives the event to the subscription, once or more often; the *)
(* subscription is idempotent, so the engine keeps a marker for it.        *)
Dispatch(p, e) ==
  /\ e \in emitted /\ budget.requests > 0
  /\ Start(p, [op |-> "dispatch", at |-> "marker", id |-> e, jobs |-> Nothing], Marker(e))
  /\ budget' = [budget EXCEPT !.requests = @ - 1]
  /\ UNCHANGED <<published, accepted, emitted, steady, job, received, log, skipped, off>>

DispatchMarker(p) ==
  /\ At(p, "dispatch", "marker")
  /\ Goto(p, IF KvGet(p, Marker(task[p].id)) = None THEN "find" ELSE "commit")
  /\ UNCHANGED <<budget, published, accepted, emitted, steady, job, received, log, skipped, off, storeVars>>

FreshDeliveries ==
  {d \in Deliveries : job[d] = None /\ \A q \in Procs : task[q].op = "dispatch" => d \notin DOMAIN task[q].jobs}

NewJob(h, e) == [hook |-> h, event |-> e, status |-> "pending", attempts |-> 0]

(* A job for every active hook that wants the event, each with a new id. *)
EnqueueDeliveries(p) ==
  /\ At(p, "dispatch", "find")
  /\ LET e == task[p].id
         chosen == {h \in Found(p, "hook") : Doc(p, h).active /\ Wants(Doc(p, h), e)}
     IN /\ Cardinality(chosen) <= Cardinality(FreshDeliveries)
        /\ \E ids \in {f \in [chosen -> FreshDeliveries] : \A g, h \in chosen : g # h => f[g] # f[h]} :
             task' = [task EXCEPT ![p].at = "mark",
                ![p].jobs = [d \in {ids[h] : h \in chosen} |-> NewJob(CHOOSE h \in chosen : ids[h] = d, e)]]
  /\ UNCHANGED <<budget, published, accepted, emitted, steady, job, received, log, skipped, off, storeVars>>

DispatchMark(p) ==
  /\ At(p, "dispatch", "mark")
  /\ KvSet(p, Marker(task[p].id), TRUE)
  /\ Goto(p, "commit")
  /\ UNCHANGED <<budget, published, accepted, emitted, steady, job, received, log, skipped, off>>

DispatchCommit(p) ==
  /\ At(p, "dispatch", "commit")
  /\ Commit(p) /\ Rest(p)
  /\ job' = Over(task[p].jobs, job)
  /\ UNCHANGED <<budget, published, accepted, emitted, steady, received, log, skipped, off>>
-----------------------------------------------------------------------------
(* A lane claims a delivery job and runs the deliver action. *)
Claim(p, d) ==
  /\ job[d] # None /\ job[d].status = "pending"
  /\ job' = [job EXCEPT ![d].status = "processing", ![d].attempts = @ + 1]
  /\ Start(p, [op |-> "deliver", at |-> "find", id |-> d, silent |-> job[d].hook \in off \ met], d)
  /\ UNCHANGED <<budget, published, accepted, emitted, steady, received, log, skipped, off>>

(* A bug: a hook that was turned off is posted to. *)
DeliverableAlways(doc) == Exists(doc)

Deliverable(doc) == Exists(doc) /\ doc.active

DeliverFind(p) ==
  /\ At(p, "deliver", "find")
  /\ Goto(p, IF Deliverable(Doc(p, job[task[p].id].hook)) THEN "post" ELSE "skip")
  /\ UNCHANGED <<budget, published, accepted, emitted, steady, job, received, log, skipped, off, storeVars>>

(* The post succeeds, is refused or gets nowhere, or is aborted by the     *)
(* timeout when the endpoint has taken it already.                         *)
Post(p) ==
  /\ At(p, "deliver", "post")
  /\ \/ /\ received' = [received EXCEPT ![task[p].id] = @ + 1]
        /\ Goto(p, "log")
        /\ UNCHANGED budget
     \/ /\ budget.faults > 0
        /\ budget' = [budget EXCEPT !.faults = @ - 1]
        /\ \E taken \in {0, 1} : received' = [received EXCEPT ![task[p].id] = @ + taken]
        /\ Goto(p, "logFailure")
  /\ UNCHANGED <<published, accepted, emitted, steady, job, log, skipped, off, storeVars>>

(* The row of the attempt, in the job's transaction: it is seen if that    *)
(* commits.  A failed attempt throws after it, and leaves no row.          *)
LogAttempt(t, committed) ==
  CASE committed /\ t.at = "log"        -> [log EXCEPT ![t.id].delivered = @ + 1]
    [] committed /\ t.at = "logFailure" -> [log EXCEPT ![t.id].failed = @ + 1]
    [] OTHER                            -> log

Delivered(p) ==
  /\ At(p, "deliver", "log") \/ At(p, "deliver", "skip")
  /\ Commit(p)
  /\ log' = LogAttempt(task[p], TRUE)
  /\ skipped' = IF task[p].at = "skip" THEN skipped \cup {task[p].id} ELSE skipped
  /\ Goto(p, "complete")
  /\ UNCHANGED <<budget, published, accepted, emitted, steady, job, received, off>>

Settled(d, status) == job' = [job EXCEPT ![d].status = status]

Complete(p) ==
  /\ At(p, "deliver", "complete")
  /\ Settled(task[p].id, "completed") /\ Rest(p)
  /\ UNCHANGED <<budget, published, accepted, emitted, steady, received, log, skipped, off, storeVars>>

DeliveryFails(p) ==
  /\ At(p, "deliver", "logFailure")
  /\ Rollback(p)
  /\ log' = LogAttempt(task[p], FALSE)
  /\ LET d == task[p].id IN Settled(d, IF job[d].attempts >= MaxAttempts THEN "dead" ELSE "pending")
  /\ Rest(p)
  /\ UNCHANGED <<budget, published, accepted, emitted, steady, received, skipped, off>>

(* The worker of the dead letter queue only reports. *)
ReportExhausted(d) ==
  /\ job[d] # None /\ job[d].status = "dead"
  /\ Settled(d, "reported")
  /\ UNCHANGED <<task, budget, published, accepted, emitted, steady, received, log, skipped, off, storeVars>>
-----------------------------------------------------------------------------
(* A process dies, or what it does throws: the transaction is undone.  The *)
(* lease of a delivery runs out and the job can be claimed again.          *)
Crash(p) ==
  /\ task[p] # Idle /\ budget.faults > 0
  /\ budget' = [budget EXCEPT !.faults = @ - 1]
  /\ IF InTx(p) THEN Rollback(p) ELSE UNCHANGED storeVars
  /\ IF task[p].op = "deliver" THEN Settled(task[p].id, "pending") ELSE UNCHANGED job
  /\ Rest(p)
  /\ UNCHANGED <<published, accepted, emitted, steady, received, log, skipped, off>>

Forget(s) ==
  /\ Expire(s)
  /\ published' = [published EXCEPT ![s] = 0]
  /\ UNCHANGED <<task, budget, accepted, emitted, steady, job, received, log, skipped, off>>

Accept(p) == AcceptLookup(p) \/ AcceptSet(p) \/ AcceptCommit(p)
Management(p) == Register(p) \/ Find(p) \/ Write(p) \/ ManageCommit(p)
Subscription(p) == DispatchMarker(p) \/ EnqueueDeliveries(p) \/ DispatchMark(p) \/ DispatchCommit(p)
Deliver(p) == DeliverFind(p) \/ Post(p) \/ Delivered(p) \/ Complete(p) \/ DeliveryFails(p)

Next ==
  \/ \E p \in Procs :
       \/ \E s \in Sources, cred \in Credentials, keyed \in BOOLEAN : Inbound(p, s, cred, keyed)
       \/ \E h \in Hooks : Request(p, h)
       \/ \E e \in Events : Dispatch(p, e)
       \/ \E d \in Deliveries : Claim(p, d)
       \/ Accept(p) \/ Management(p) \/ Subscription(p) \/ Deliver(p)
       \/ Crash(p)
  \/ \E e \in Events : Emit(e)
  \/ \E d \in Deliveries : ReportExhausted(d)
  \/ \E s \in Sources : Forget(s)

Spec == Init /\ [][Next]_vars
-----------------------------------------------------------------------------
(* What a source posts again, because an answer was lost or late, is       *)
(* published once, as long as its key is remembered and two of the posts   *)
(* are not accepted at one time; what was answered "accepted" has been     *)
(* published, whatever failed before.  And of the hooks that wanted an     *)
(* event when it was committed, and were left alone, each gets exactly one *)
(* job once the event has been dispatched, however often it is, unless two *)
(* dispatches meet.                                                        *)
OncePerEvent ==
  /\ \A s \in Sources \ met : published[s] <= 1
  /\ \A s \in accepted : published[s] >= 1 \/ (kv[s] # None /\ ~kv[s].alive)
  /\ \A e \in Events, h \in Hooks :
       LET jobs == {d \in Deliveries : job[d] # None /\ job[d].event = e /\ job[d].hook = h}
       IN Marker(e) \notin met =>
            /\ Cardinality(jobs) <= 1
            /\ kv[Marker(e)] # None /\ h \in steady[e] => jobs # {}

(* A row of the log that says "delivered" is of an answer of the endpoint, *)
(* whatever is undone; a job is completed with such a row or because its   *)
(* hook was silent, and given up only after its last attempt.  Of failed   *)
(* attempts it says nothing: their rows are undone with their jobs.  And   *)
(* once a request that deletes or deactivates a hook is answered, no       *)
(* attempt that begins later posts to it, unless another request on the    *)
(* hook met it.                                                            *)
DeliveriesAgree ==
  /\ \A d \in Deliveries :
       /\ log[d].delivered <= received[d]
       /\ job[d] # None /\ job[d].status = "completed" => log[d].delivered > 0 \/ d \in skipped
       /\ job[d] # None /\ job[d].status \in {"dead", "reported"} => job[d].attempts >= MaxAttempts
  /\ \A p \in Procs : task[p].op = "deliver" /\ task[p].at \in {"post", "log", "logFailure"} => ~task[p].silent
=============================================================================
