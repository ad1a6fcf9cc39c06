----------------------------- MODULE MCEngineTx -----------------------------
(* A small instance of EngineTx: an operation beside the callback of the   *)
(* event bus, a pool of two connections.                                   *)
EXTENDS EngineTx

CONSTANTS o1, h1, c1, c2

OneOfEach == {{o1, h1}}
=============================================================================
