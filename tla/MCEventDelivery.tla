-------------------------- MODULE MCEventDelivery --------------------------
(***************************************************************************)
(* Small instances of EventDelivery: two or three processes over one      *)
(* database.                                                               *)
(***************************************************************************)
EXTENDS EventDelivery

CONSTANTS p1, p2, p3

All == {p1, p2, p3}
Both == {p1, p2}

(* Jobs without a bus, in processes that may fail anywhere. *)
Queued ==
  [dispatch |-> "async", bus |-> "noop", idempotent |-> TRUE, subs |-> 2, listening |-> Both, publishers |-> {p1},
   workers |-> Both, crashing |-> Both, failing |-> Kinds, tooLarge |-> {}]

(* Jobs without a bus whose handlers may fail. *)
Retries == [Queued EXCEPT !.idempotent = FALSE, !.crashing = {}, !.failing = {"work"}]

(* A process that only polls beside two that publish, of which one crashes *)
(* or either fails.                                                        *)
Watched ==
  [Queued EXCEPT !.bus = "polling", !.listening = {p3}, !.publishers = Both, !.workers = {p2},
                 !.crashing = {p1}, !.failing = {}, !.subs = 1]
Doubtful == [Watched EXCEPT !.listening = {p2}, !.publishers = {p1}, !.workers = {p1}, !.crashing = {}, !.failing = {"op"}]

(* Notifications, of which one is too large, in processes that fail. *)
Notified ==
  [dispatch |-> "sync", bus |-> "listen", idempotent |-> FALSE, subs |-> 2, listening |-> Both, publishers |-> Both,
   workers |-> {}, crashing |-> {p1}, failing |-> {"op", "bus"}, tooLarge |-> {1}]

(* The same when nothing fails. *)
Peers == [Notified EXCEPT !.crashing = {}, !.failing = {}, !.tooLarge = {}, !.subs = 1]

Sound == {Queued, Retries, Watched, Doubtful, Notified, Peers}
=============================================================================
