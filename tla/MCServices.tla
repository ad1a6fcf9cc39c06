---------------------------- MODULE MCServices ----------------------------
(***************************************************************************)
(* Small instances of what serves requests: the plugins webhooks, auth and *)
(* REST collections over the document store, the blob store, the calls of  *)
(* the mesh, and the host.  In these models they share nothing, hence a    *)
(* behaviour is of one of them; the first state says which.                *)
(***************************************************************************)
EXTENDS Integers, TLC

CONSTANTS
  None,
  a1, a2,                      \* two that may be swapped: hooks, keys, metadata, clients, calls, schedules
  b1, b2,                      \* two more: processes of plugins, bodies of objects, lanes
  MaxFaults,
  Unused, Gone, MaxAttempts,
  s1, e1, d1, d2, HookRequests,
  u1, boot, unknown, prefix, AuthRequests,
  doc1, doc2, m3, r1, r2, RestRequests,
  key1, key2, up1, Torn,
  Local, n1, n2, MaxJobs

VARIABLES part, task, faults,
  rows, kv, tx, met, budget,
  published, accepted, emitted, steady, job, received, log, skipped, off,
  expired, ended, streak,
  answered,
  store, row, upload, parts, file, data, clean, ops,
  slot, call, running, peers, counter, givenUp, later, crossed, hidden,
  lanesOn, phase, server, bus, stopped, lane, chain, registry, laneCrons, table, dirty, sync, work

Webhook == INSTANCE Webhooks WITH
  Procs <- {b1, b2}, Docs <- {a1, a2}, Keys <- {s1, <<"seen", e1>>}, Sources <- {s1}, Verify <- (s1 :> "hmac"),
  Events <- {e1}, Deliveries <- {d1, d2}, MaxRequests <- HookRequests
ASSUME Webhook!WebhookConstants

Authority == INSTANCE Auth WITH
  Procs <- {b1, b2}, Docs <- {u1, a1, a2}, Keys <- {<<"block", prefix>>, <<"count", prefix>>}, Users <- {u1}, ApiKeys <- {a1, a2},
  Bootstrap <- boot, Unknown <- unknown, Prefix <- [k \in {a1, a2, boot, unknown} |-> prefix],
  MaxRequests <- AuthRequests
ASSUME Authority!AuthConstants

Rest == INSTANCE RestCollections WITH
  Procs <- {r1, r2}, Docs <- {doc1, doc2, a1, a2, m3}, Keys <- {}, Documents <- {doc1, doc2}, Metadata <- {a1, a2, m3},
  Legacy <- {doc1}, Version <- (r1 :> 1 @@ r2 :> 2), Rewriters <- {r1}, MaxRequests <- RestRequests

ASSUME Rest!RestConstants /\ Rest!ValidCollections({Rest!Orders})

Use(kinds, sameMs, maxOps) == [kinds |-> kinds, sameMs |-> sameMs, maxOps |-> maxOps]
Blob == INSTANCE Blobs WITH
  Clients <- {a1, a2}, Keys <- {key1, key2}, Uploads <- {up1}, PartNumbers <- {1, 2}, Bodies <- {b1, b2}, part <- parts,
  Stores <- { Use({"put", "delete"}, FALSE, 4), Use({"put", "copy", "delete"}, TRUE, 3),
              Use({"put", "create", "part", "complete", "abort", "gc"}, FALSE, 4) }
ASSUME Blob!BlobsAssumption

(* Two calls that overlap, of one of these kinds. *)
Default == [strategy |-> "local-first", pinned |-> None, local |-> TRUE, remote |-> TRUE,
            retries |-> 1, timed |-> TRUE, fallback |-> FALSE]
Mesh == INSTANCE MeshCalls WITH
  Calls <- {a1, a2}, PeerOrder <- <<n1, n2>>, Load <- (Local :> 5 @@ n1 :> 3 @@ n2 :> 5), Waits <- BOOLEAN,
  Requests <- { Default, [Default EXCEPT !.local = FALSE, !.fallback = TRUE, !.retries = 0],
                [Default EXCEPT !.strategy = "round-robin", !.timed = FALSE],
                [Default EXCEPT !.strategy = "random", !.retries = 0],
                [Default EXCEPT !.strategy = "cpu", !.remote = FALSE, !.retries = 0],
                [Default EXCEPT !.pinned = n1, !.local = FALSE, !.retries = 0] }

Process == INSTANCE Host WITH Lanes <- {b1, b2}, Crons <- {a1}, Hooks <- 1
ASSUME Process!HostAssumption

ofStore == <<rows, kv, tx, met, budget>>
ofWebhooks == <<published, accepted, emitted, steady, job, received, log, skipped, off>>
ofAuth == <<expired, ended, streak>>
ofRest == <<answered>>
ofBlobs == <<store, row, upload, parts, file, data, clean, ops>>
ofMesh == <<slot, call, running, peers, counter, givenUp, later, crossed, hidden>>
ofHost == <<lanesOn, phase, server, bus, stopped, lane, chain, registry, laneCrons, table, dirty, sync, work>>

NoTask == task = None
NoFaults == faults = None
NoStore == rows = None /\ kv = None /\ tx = None /\ met = None /\ budget = None
NoWebhooks ==
  /\ published = None /\ accepted = None /\ emitted = None /\ steady = None /\ job = None
  /\ received = None /\ log = None /\ skipped = None /\ off = None
NoAuth == expired = None /\ ended = None /\ streak = None
NoRest == answered = None
NoBlobs ==
  /\ store = None /\ row = None /\ upload = None /\ parts = None /\ file = None
  /\ data = None /\ clean = None /\ ops = None
NoMesh ==
  /\ slot = None /\ call = None /\ running = None /\ peers = None /\ counter = None /\ givenUp = None
  /\ later = None /\ crossed = None /\ hidden = None
NoHost ==
  /\ lanesOn = None /\ phase = None /\ server = None /\ bus = None /\ stopped = None /\ lane = None /\ chain = None
  /\ registry = None /\ laneCrons = None /\ table = None /\ dirty = None /\ sync = None /\ work = None
NoPlugin == NoStore /\ NoWebhooks /\ NoAuth /\ NoRest

Init ==
  \/ part = "webhooks" /\ Webhook!Init /\ NoAuth /\ NoRest /\ NoFaults /\ NoBlobs /\ NoMesh /\ NoHost
  \/ part = "auth" /\ Authority!Init /\ NoWebhooks /\ NoRest /\ NoFaults /\ NoBlobs /\ NoMesh /\ NoHost
  \/ part = "rest" /\ Rest!Init /\ NoWebhooks /\ NoAuth /\ NoFaults /\ NoBlobs /\ NoMesh /\ NoHost
  \/ part = "blobs" /\ Blob!Init /\ NoPlugin /\ NoMesh /\ NoHost
  \/ part = "calls" /\ Mesh!Init /\ NoPlugin /\ NoTask /\ NoBlobs /\ NoHost
  \/ part = "host" /\ Process!Init /\ NoPlugin /\ NoTask /\ NoBlobs /\ NoMesh

Next ==
  /\ UNCHANGED part
  /\ \/ part = "webhooks" /\ Webhook!Next /\ UNCHANGED <<ofAuth, ofRest, faults, ofBlobs, ofMesh, ofHost>>
     \/ part = "auth" /\ Authority!Next /\ UNCHANGED <<ofWebhooks, ofRest, faults, ofBlobs, ofMesh, ofHost>>
     \/ part = "rest" /\ Rest!Next /\ UNCHANGED <<ofWebhooks, ofAuth, faults, ofBlobs, ofMesh, ofHost>>
     \/ part = "blobs" /\ Blob!Next /\ UNCHANGED <<ofStore, ofWebhooks, ofAuth, ofRest, ofMesh, ofHost>>
     \/ part = "calls" /\ Mesh!Next /\ UNCHANGED <<task, ofStore, ofWebhooks, ofAuth, ofRest, ofBlobs, ofHost>>
     \/ part = "host" /\ Process!Next /\ UNCHANGED <<task, ofStore, ofWebhooks, ofAuth, ofRest, ofBlobs, ofMesh>>

Spec == Init /\ [][Next]_<<part, task, faults, ofStore, ofWebhooks, ofAuth, ofRest, ofBlobs, ofMesh, ofHost>>
-----------------------------------------------------------------------------
(* What a source posts again is published once, and an event makes one job *)
(* for each hook that wants it (inbound handler and dispatch of webhooks). *)
OncePerEvent == part = "webhooks" => Webhook!OncePerEvent

(* Rows of the delivery log and jobs agree with what the endpoint answered, and a hook *)
(* that was turned off is left alone (the delivery worker of webhooks).    *)
DeliveriesAgree == part = "webhooks" => Webhook!DeliveriesAgree

(* A deleted user's keys are dead and a revoked key does not pass (auth).  *)
DeadKeysStayOut == part = "auth" => Authority!DeadKeysStayOut

(* Failures in a row make a block (the rate limit of auth).                *)
FailuresBlock == part = "auth" => Authority!FailuresBlock

(* Content, version and metadata of a document agree (REST collections).   *)
VersionsAgree == part = "rest" => Rest!VersionsAgree

(* What an update was answered stays (REST collections).                   *)
UpdatesKept == part = "rest" => Rest!UpdatesKept

(* Rows and files of objects and parts agree (blobs).                      *)
ObjectsAgree == part = "blobs" => Blob!ObjectsAgree

(* An action of another node or of this one runs in the context of the     *)
(* call that asked for it (the context slot of the mesh's dispatcher).     *)
OwnContext == part = "calls" => Mesh!OwnContext

(* A call is executed once at a time, but for attempts it gave up (retries *)
(* of the mesh's dispatcher).                                              *)
OneAtATime == part = "calls" => Mesh!OneAtATime

(* The event bus outlives the lanes (stop of the host).                    *)
BusOutlivesLanes == part = "host" => Process!BusOutlivesLanes

(* No schedule is missed or deleted by a worker (sync flag of the host).   *)
SchedulesSynced == part = "host" => Process!SchedulesSynced

Symmetry == Permutations({a1, a2}) \cup Permutations({b1, b2})
=============================================================================
