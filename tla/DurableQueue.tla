---------------------------- MODULE DurableQueue ----------------------------
(***************************************************************************)
(* What the job queue promises to those who enqueue into it, with no       *)
(* lanes, leases, attempts or clock.  A job stays open until it is done,   *)
(* which takes a committed handler transaction, or given up, which in a    *)
(* queue with a dead letter queue takes a letter that reports it; being    *)
(* done or given up is for good.  The handler may commit any number of     *)
(* times while the job is open (at-least-once), and never afterwards.      *)
(***************************************************************************)
EXTENDS Naturals

CONSTANTS Jobs, NoJob

VARIABLES
  state,     \* "none", then "open", then how the job ended
  letterOf,  \* the job that a dead letter reports, NoJob for other jobs
  commits    \* committed handler transactions

Ended == {"done", "dead", "lettered"}

Init ==
  /\ state = [j \in Jobs |-> "none"]
  /\ letterOf = [j \in Jobs |-> NoJob]
  /\ commits = [j \in Jobs |-> 0]

(* A job is submitted; a dead letter only for a job that is still open. *)
Submit(j, reported) ==
  /\ state[j] = "none"
  /\ reported = NoJob \/ state[reported] = "open"
  /\ state' = [state EXCEPT ![j] = "open"]
  /\ letterOf' = [letterOf EXCEPT ![j] = reported]
  /\ UNCHANGED commits

Commit(j) ==
  /\ state[j] = "open"
  /\ commits' = [commits EXCEPT ![j] = @ + 1]
  /\ UNCHANGED <<state, letterOf>>

End(j, how) ==
  /\ state[j] = "open"
  /\ how = "done" => commits[j] > 0
  /\ how = "lettered" => \E r \in Jobs : letterOf[r] = j
  /\ state' = [state EXCEPT ![j] = how]
  /\ UNCHANGED <<letterOf, commits>>

Next ==
  \E j \in Jobs :
    \/ \E reported \in Jobs \cup {NoJob} : Submit(j, reported)
    \/ Commit(j)
    \/ \E how \in Ended : End(j, how)

Spec == Init /\ [][Next]_<<state, letterOf, commits>>
=============================================================================
