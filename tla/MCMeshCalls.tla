---------------------------- MODULE MCMeshCalls ----------------------------
(***************************************************************************)
(* A small instance of MeshCalls with calls that wait for each other's     *)
(* slot: two calls, two peers, a request of each strategy.                 *)
(***************************************************************************)
EXTENDS MeshCalls, TLC
CONSTANTS p1, p2
PeerOrderDef == <<p1, p2>>
LoadDef == Local :> 5 @@ p1 :> 3 @@ p2 :> 5
Default == [strategy |-> "local-first", pinned |-> None, local |-> TRUE, remote |-> TRUE, retries |-> 1, timed |-> TRUE, fallback |-> FALSE]
RequestsDef == {
  Default, [Default EXCEPT !.local = FALSE, !.fallback = TRUE],
  [Default EXCEPT !.strategy = "round-robin", !.timed = FALSE],
  [Default EXCEPT !.strategy = "cpu", !.remote = FALSE, !.retries = 0], [Default EXCEPT !.pinned = p1, !.local = FALSE]}
=============================================================================
