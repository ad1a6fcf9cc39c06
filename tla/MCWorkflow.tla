----------------------------- MODULE MCWorkflow -----------------------------
(* Small instances of Workflow: one instance of any of some definitions. *)
EXTENDS Workflow, TLC

LaneSymmetry == Permutations(Lanes)

Phase(kind, delay, name, onTimeout) ==
  [kind |-> kind, delay |-> delay, signal |-> name, onTimeout |-> onTimeout]
Action == Phase("action", 0, "none", "continue")
Pause(delay) == Phase("sleep", delay, "none", "continue")
Steps(phases) == [runBased |-> FALSE, program |-> phases]

(* A wait between two actions, which fails when its time is over. *)
Approval == Steps(<<Action, Phase("wait", 1, "s", "fail"), Action>>)

(* Two waits for one signal, the first for a time. *)
TwoWaits == Steps(<<Action, Phase("wait", 1, "s", "continue"), Phase("wait", NoTime, "s", "continue")>>)

(* A wait that goes on, a delay that turns out to be none, and a pause. *)
Reminder == Steps(<<Action, Phase("wait", 1, "s", "continue"), Pause(0), Pause(2), Action>>)

(* An action whose result is handed over together with a wait. *)
Fulfilment ==
  [runBased |-> TRUE, program |-> <<Phase("action_wait", 1, "s", "fail"), Pause(1), Action>>]

All == {Approval, TwoWaits, Reminder, Fulfilment}
Handed == {Approval, TwoWaits, Fulfilment}
StepsOnly == {Approval}
=============================================================================
