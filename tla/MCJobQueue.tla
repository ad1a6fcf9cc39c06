---------------------------- MODULE MCJobQueue ----------------------------
(* Small instances of JobQueue: one queue with a dead letter queue.        *)
EXTENDS JobQueue, TLC

CONSTANTS orders, letters   \* a queue and its dead letter queue

MCQueues == {orders, letters}
MCOrders == {orders}
MCDlqOf == (orders :> letters) @@ (letters :> NoQueue)

LaneSymmetry == Permutations(Lanes)
=============================================================================
