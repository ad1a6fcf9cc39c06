------------------------------ MODULE JobQueue ------------------------------
(***************************************************************************)
(* The durable job queue: the table _chimpbase_queue_jobs, the clients     *)
(* that enqueue into it, and the worker lanes that claim, run, complete    *)
(* and fail its jobs.  A lane is one engine with one adapter; the lanes of *)
(* one process and of several processes share nothing but the table, so a  *)
(* lane stands for either.                                                 *)
(*                                                                         *)
(* Every SQL statement outside the handler's transaction is a step of its  *)
(* own, because the code runs each of them in its own implicit             *)
(* transaction: a lane can crash, or be overtaken, between any two.        *)
(*                                                                         *)
(* One variable per column of the table.  The two timestamp columns are    *)
(* kept as the time that is left: wait[j] is available_at_ms - now and     *)
(* lease[j] is lease_expires_at_ms - now, both cut off at 0, so a state    *)
(* does not depend on how long the system has been running.  All lanes     *)
(* read one clock.                                                         *)
(***************************************************************************)
EXTENDS Integers, FiniteSets

CONSTANTS
  Lanes,          \* the worker lanes
  MaxJobs,        \* bound: rows of the table
  MaxEnqueued,    \* bound: jobs the clients enqueue
  MaxDelay,       \* bound: the largest delayMs a client asks for
  MaxCrashes,     \* bound: crashes of a lane
  Queues,         \* the names jobs are enqueued under
  ClientQueues,   \* bound: the queues clients enqueue under
  Handled,        \* the queues that have a worker: getClaimableQueueNames
  NoQueue,        \* the queue of a row that is not there yet
  DlqOf,          \* the dlq of each queue's worker, NoQueue when it has none
  MaxAttempts,    \* worker.maxAttempts
  LeaseMs,        \* worker.leaseMs
  RetryDelayMs,   \* worker.retryDelayMs
  BatchSize,      \* the limit processNextQueueJobs is called with
  OverrunAllowed  \* may a lane still hold a job when its lease runs out?

ASSUME QueueAssumption ==
  /\ MaxJobs \in Nat \ {0}
  /\ MaxEnqueued \in Nat
  /\ MaxDelay \in Nat
  /\ MaxCrashes \in Nat
  /\ ClientQueues \subseteq Queues
  /\ Handled \subseteq Queues
  /\ NoQueue \notin Queues
  /\ DlqOf \in [Queues -> Queues \cup {NoQueue}]
  /\ MaxAttempts \in Nat \ {0}
  /\ LeaseMs \in Nat \ {0}
  /\ RetryDelayMs \in Nat
  /\ BatchSize \in Nat \ {0}
  /\ OverrunAllowed \in BOOLEAN

Jobs == 1..MaxJobs
NoJob == 0
Status == {"absent", "pending", "processing", "completed", "failed", "dlq"}
Phase == {"idle", "ready", "running", "committed", "failing", "marking"}

VARIABLES
  status,     \* column status; "absent" before the row is inserted
  queue,      \* column queue_name
  wait,       \* available_at_ms - now
  lease,      \* lease_expires_at_ms - now; 0 also when the column is NULL
  attempts,   \* column attempt_count
  letterOf,   \* payload of a dead letter: the job it reports, else NoJob
  letterAtt,  \* payload of a dead letter: its field attempts
  phase,      \* where each lane is in processNextQueueJobs
  held,       \* the claimed jobs a lane has not finished with
  att,        \* attempt_count of the claimed records a lane holds, else 0
  crashes,    \* crashes so far
  commits,    \* history: handler transactions committed per job
  orphans     \* history: commits whose job was not completed by their lane

table == <<status, queue, wait, lease, attempts, letterOf, letterAtt>>
history == <<commits, orphans>>
vars == <<table, phase, held, att, crashes, history>>
-----------------------------------------------------------------------------
Init ==
  /\ status = [j \in Jobs |-> "absent"]
  /\ queue = [j \in Jobs |-> NoQueue]
  /\ wait = [j \in Jobs |-> 0]
  /\ lease = [j \in Jobs |-> 0]
  /\ attempts = [j \in Jobs |-> 0]
  /\ letterOf = [j \in Jobs |-> NoJob]
  /\ letterAtt = [j \in Jobs |-> 0]
  /\ phase = [l \in Lanes |-> "idle"]
  /\ held = [l \in Lanes |-> {}]
  /\ att = [l \in Lanes |-> [j \in Jobs |-> 0]]
  /\ crashes = 0
  /\ commits = [j \in Jobs |-> 0]
  /\ orphans = [j \in Jobs |-> 0]

(***************************************************************************)
(* INSERT of a row: BIGSERIAL ids, so the lowest row that is absent.       *)
(***************************************************************************)
IsNextRow(r) == status[r] = "absent" /\ \A k \in Jobs : k < r => status[k] # "absent"

QueueEnqueue(r, q, delay, source, sourceAtt) ==
  /\ IsNextRow(r)
  /\ status' = [status EXCEPT ![r] = "pending"]
  /\ queue' = [queue EXCEPT ![r] = q]
  /\ wait' = [wait EXCEPT ![r] = delay]
  /\ letterOf' = [letterOf EXCEPT ![r] = source]
  /\ letterAtt' = [letterAtt EXCEPT ![r] = sourceAtt]
  /\ UNCHANGED <<lease, attempts>>

(* ctx.queue.enqueue by anything but the queue machinery itself. *)
Enqueue(q, delay) ==
  /\ Cardinality({j \in Jobs : status[j] # "absent" /\ letterOf[j] = NoJob}) < MaxEnqueued
  /\ \E r \in Jobs : QueueEnqueue(r, q, delay, NoJob, 0)
  /\ UNCHANGED <<phase, held, att, crashes, history>>
-----------------------------------------------------------------------------
(* Mutants of Claimable: the claim ignores the lease; it never takes over  *)
(* an expired one.                                                         *)
ClaimableDespiteLease(j) ==
  /\ queue[j] \in Handled
  /\ status[j] = "processing" \/ (status[j] = "pending" /\ wait[j] = 0)
ClaimableOnlyPending(j) == queue[j] \in Handled /\ status[j] = "pending" /\ wait[j] = 0

(* The WHERE clause of the claim. *)
Claimable(j) ==
  /\ queue[j] \in Handled
  /\ \/ status[j] = "pending" /\ wait[j] = 0
     \/ status[j] = "processing" /\ lease[j] = 0

(* Mutant of Stamp: the count runs down. *)
StampDown(j) == attempts[j] - 1

(* The attempt_count a claim writes and returns. *)
Stamp(j) == attempts[j] + 1

(* ORDER BY id LIMIT n. *)
Lowest(n, S) == {j \in S : Cardinality({k \in S : k < j}) < n}

(* The jobs of a batch are run in the order of their ids. *)
IsCurrent(l, j) == j \in held[l] /\ \A k \in held[l] : j <= k

(* Rows another lane may be updating at this moment: SKIP LOCKED may pass   *)
(* over them.                                                               *)
InUpdate(l) ==
  {j \in Jobs : \E m \in Lanes \ {l} : phase[m] \in {"committed", "marking"} /\ IsCurrent(m, j)}

(***************************************************************************)
(* claimNextQueueJobs(BatchSize), or claimNextQueueJob when that returned  *)
(* nothing or the adapter does not have it.                                *)
(***************************************************************************)
Claim(l) ==
  /\ phase[l] = "idle"
  /\ \E limit \in {1, BatchSize}, locked \in SUBSET InUpdate(l) :
       LET batch == Lowest(limit, {j \in Jobs \ locked : Claimable(j)}) IN
       /\ batch # {}
       /\ status' = [j \in Jobs |-> IF j \in batch THEN "processing" ELSE status[j]]
       /\ attempts' = [j \in Jobs |-> IF j \in batch THEN Stamp(j) ELSE attempts[j]]
       /\ lease' = [j \in Jobs |-> IF j \in batch THEN LeaseMs ELSE lease[j]]
       /\ held' = [held EXCEPT ![l] = batch]
       /\ att' = [att EXCEPT ![l] = [j \in Jobs |-> IF j \in batch THEN Stamp(j) ELSE 0]]
  /\ phase' = [phase EXCEPT ![l] = "ready"]
  /\ UNCHANGED <<queue, wait, letterOf, letterAtt, crashes, history>>

StartHandler(l) ==
  /\ phase[l] = "ready"
  /\ phase' = [phase EXCEPT ![l] = "running"]
  /\ UNCHANGED <<table, held, att, crashes, history>>

(* The handler returns and its transaction commits. *)
HandlerCommits(l) ==
  /\ phase[l] = "running"
  /\ \E j \in Jobs : IsCurrent(l, j) /\ commits' = [commits EXCEPT ![j] = @ + 1]
  /\ phase' = [phase EXCEPT ![l] = "committed"]
  /\ UNCHANGED <<table, held, att, crashes, orphans>>

(* Mutant of Complete: the batch loop does not move on. *)
CompleteAgain(l) ==
  /\ phase[l] = "committed"
  /\ \E j \in Jobs :
       /\ IsCurrent(l, j)
       /\ status' = [status EXCEPT ![j] = "completed"]
       /\ lease' = [lease EXCEPT ![j] = 0]
  /\ phase' = [phase EXCEPT ![l] = "ready"]
  /\ UNCHANGED <<queue, wait, attempts, letterOf, letterAtt, held, att, crashes, history>>

(***************************************************************************)
(* completeQueueJob: an UPDATE by id, whatever the row has become since    *)
(* the claim; then the loop goes on to the next job of the batch.          *)
(***************************************************************************)
Complete(l) ==
  /\ phase[l] = "committed"
  /\ \E j \in Jobs :
       /\ IsCurrent(l, j)
       /\ status' = [status EXCEPT ![j] = "completed"]
       /\ lease' = [lease EXCEPT ![j] = 0]
       /\ held' = [held EXCEPT ![l] = @ \ {j}]
       /\ att' = [att EXCEPT ![l][j] = 0]
  /\ phase' = [phase EXCEPT ![l] = IF held'[l] = {} THEN "idle" ELSE "ready"]
  /\ UNCHANGED <<queue, wait, attempts, letterOf, letterAtt, crashes, history>>
-----------------------------------------------------------------------------
(* failQueueJob decides on the record that was claimed, not on the row. *)
Exhausted(l, j) == att[l][j] >= MaxAttempts
ShouldDlq(l, j) == DlqOf[queue[j]] # NoQueue /\ Exhausted(l, j)

(* Mutant of EnterFailure: the job is marked and its letter forgotten. *)
EnterFailureMarkOnly(l, j) == phase' = [phase EXCEPT ![l] = "marking"]

(* The catch block starts with the dead letter when there is one to write. *)
EnterFailure(l, j) ==
  phase' = [phase EXCEPT ![l] = IF ShouldDlq(l, j) THEN "failing" ELSE "marking"]

(* Mutant of HandlerThrows: the error is swallowed. *)
HandlerThrowsUnseen(l) ==
  /\ phase[l] = "running"
  /\ phase' = [phase EXCEPT ![l] = "committed"]
  /\ UNCHANGED <<table, held, att, crashes, history>>

(* The handler throws, or its transaction does not commit: rolled back. *)
HandlerThrows(l) ==
  /\ phase[l] = "running"
  /\ \E j \in Jobs : IsCurrent(l, j) /\ EnterFailure(l, j)
  /\ UNCHANGED <<table, held, att, crashes, history>>

(* Publishing or dispatching the committed events, or completeQueueJob,    *)
(* throws: the same catch block, but the handler's effects stay.           *)
ThrowsAfterCommit(l) ==
  /\ phase[l] = "committed"
  /\ \E j \in Jobs :
       /\ IsCurrent(l, j)
       /\ EnterFailure(l, j)
       /\ orphans' = [orphans EXCEPT ![j] = @ + 1]
  /\ UNCHANGED <<table, held, att, crashes, commits>>

(* Mutant of WriteDeadLetter: the insert is tried again when its answer is *)
(* lost.                                                                   *)
WriteDeadLetterAgain(l) ==
  /\ phase[l] = "failing"
  /\ \E j, r \in Jobs :
       /\ IsCurrent(l, j)
       /\ QueueEnqueue(r, DlqOf[queue[j]], 0, j, att[l][j])
  /\ \E p \in {"failing", "marking"} : phase' = [phase EXCEPT ![l] = p]
  /\ UNCHANGED <<held, att, crashes, history>>

WriteDeadLetter(l) ==
  /\ phase[l] = "failing"
  /\ \E j, r \in Jobs :
       /\ IsCurrent(l, j)
       /\ QueueEnqueue(r, DlqOf[queue[j]], 0, j, att[l][j])
  /\ phase' = [phase EXCEPT ![l] = "marking"]
  /\ UNCHANGED <<held, att, crashes, history>>

FailedStatus(l, j) ==
  IF ShouldDlq(l, j) THEN "dlq" ELSE IF Exhausted(l, j) THEN "failed" ELSE "pending"

(* The records a lane holds are forgotten: the batch loop ends. *)
DropBatch(l) ==
  /\ phase' = [phase EXCEPT ![l] = "idle"]
  /\ held' = [held EXCEPT ![l] = {}]
  /\ att' = [att EXCEPT ![l] = [j \in Jobs |-> 0]]

(***************************************************************************)
(* markQueueJobFailure, again by id alone; then the error is rethrown out  *)
(* of the batch loop, and the rest of the batch is left "processing".      *)
(***************************************************************************)
MarkFailure(l) ==
  /\ phase[l] = "marking"
  /\ \E j \in Jobs :
       /\ IsCurrent(l, j)
       /\ status' = [status EXCEPT ![j] = FailedStatus(l, j)]
       /\ wait' = [wait EXCEPT ![j] = RetryDelayMs]
       /\ lease' = [lease EXCEPT ![j] = 0]
  /\ DropBatch(l)
  /\ UNCHANGED <<queue, attempts, letterOf, letterAtt, crashes, history>>
-----------------------------------------------------------------------------
(***************************************************************************)
(* The process stops between two statements and starts again, or           *)
(* failQueueJob itself throws: what the lane knew is gone, an open         *)
(* transaction is rolled back, the table stays as it is.                   *)
(***************************************************************************)
Crash(l) ==
  /\ phase[l] # "idle"
  /\ crashes < MaxCrashes
  /\ crashes' = crashes + 1
  /\ orphans' = [j \in Jobs |-> IF phase[l] = "committed" /\ IsCurrent(l, j)
                                THEN orphans[j] + 1 ELSE orphans[j]]
  /\ DropBatch(l)
  /\ UNCHANGED <<table, commits>>

Elapse(t) == IF t = 0 THEN 0 ELSE t - 1

(***************************************************************************)
(* Time passes.  With OverrunAllowed = FALSE the lanes are assumed to be   *)
(* done with a batch before its lease runs out; nothing in the code        *)
(* enforces that (no heartbeat extends a lease).                           *)
(***************************************************************************)
Tick ==
  /\ OverrunAllowed \/ \A l \in Lanes : \A j \in held[l] : lease[j] > 1
  /\ wait' = [j \in Jobs |-> Elapse(wait[j])]
  /\ lease' = [j \in Jobs |-> Elapse(lease[j])]
  /\ UNCHANGED <<status, queue, attempts, letterOf, letterAtt, phase, held, att, crashes, history>>
-----------------------------------------------------------------------------
LaneStep(l) ==
  \/ Claim(l) \/ StartHandler(l) \/ HandlerCommits(l) \/ Complete(l)
  \/ HandlerThrows(l) \/ ThrowsAfterCommit(l) \/ WriteDeadLetter(l) \/ MarkFailure(l)

Next ==
  \/ \E q \in ClientQueues, delay \in 0..MaxDelay : Enqueue(q, delay)
  \/ \E l \in Lanes : LaneStep(l) \/ Crash(l)
  \/ Tick

Spec == Init /\ [][Next]_vars

(***************************************************************************)
(* The interval timer of the host keeps every lane polling, a handler      *)
(* returns or throws, and time passes.  Crashes and enqueues are not       *)
(* owed to anyone.                                                         *)
(***************************************************************************)
Fairness == WF_vars(Tick) /\ \A l \in Lanes : WF_vars(LaneStep(l))
FairSpec == Spec /\ Fairness
-----------------------------------------------------------------------------
(* The type invariant: what each column and each lane variable may hold. *)
TypeOK ==
  /\ status \in [Jobs -> Status]
  /\ queue \in [Jobs -> Queues \cup {NoQueue}]
  /\ wait \in [Jobs -> Nat]
  /\ lease \in [Jobs -> Nat]
  /\ attempts \in [Jobs -> Nat]
  /\ letterOf \in [Jobs -> Jobs \cup {NoJob}]
  /\ letterAtt \in [Jobs -> Nat]
  /\ phase \in [Lanes -> Phase]
  /\ held \in [Lanes -> SUBSET Jobs]
  /\ att \in [Lanes -> [Jobs -> Nat]]
  /\ crashes \in Nat
  /\ commits \in [Jobs -> Nat]
  /\ orphans \in [Jobs -> Nat]

Open(j) == status[j] \in {"pending", "processing"}
Settled(j) == status[j] \in {"completed", "failed", "dlq"}

-------------------------- \* what holds however late a lane is

(***************************************************************************)
(* Two lanes may hold one job once its lease has run out, but never under  *)
(* the same attempt number: the claim statement hands every number out     *)
(* once, also to lanes that claim at the same time or after a crash.       *)
(***************************************************************************)
ClaimsDistinct ==
  \A l, m \in Lanes : l # m => \A j \in held[l] \cap held[m] : att[l][j] # att[m][j]

(***************************************************************************)
(* A job is not given up without a trace: a job is "dlq" only when its     *)
(* dead letter is in the table, although the letter and the mark are two   *)
(* statements with room for a crash, a tick or another lane in between.    *)
(***************************************************************************)
DlqHasLetter ==
  \A j \in Jobs : status[j] = "dlq" => \E r \in Jobs : status[r] # "absent" /\ letterOf[r] = j

(***************************************************************************)
(* Dead letters of one job carry different attempt numbers, all of them    *)
(* from maxAttempts up to the attempts the row counts: a crash or an       *)
(* overtaken lane may write a job's letter again, one claim never does,    *)
(* and none is written while a retry is left.                              *)
(***************************************************************************)
LettersDistinct ==
  \A r, s \in Jobs :
    letterOf[r] # NoJob =>
      /\ letterAtt[r] \in MaxAttempts..attempts[letterOf[r]]
      /\ r # s /\ letterOf[s] = letterOf[r] => letterAtt[s] # letterAtt[r]

(***************************************************************************)
(* What a claim gives, an attempt number and the right to one dead letter, *)
(* is given once, however many lanes work on a job.                        *)
(***************************************************************************)
OncePerClaim == ClaimsDistinct /\ LettersDistinct

(***************************************************************************)
(* No job is completed unless a handler transaction committed for it, and  *)
(* none is given up before maxAttempts claims, whichever lane writes last. *)
(***************************************************************************)
SettledForCause ==
  \A j \in Jobs :
    /\ status[j] = "completed" => commits[j] > 0
    /\ status[j] \in {"failed", "dlq"} => attempts[j] >= MaxAttempts

-------------------------- \* what holds while lanes keep their leases

(***************************************************************************)
(* A lane has the jobs it holds to itself: each is still "processing"      *)
(* under the lane's own attempt with lease left, so none is in the hands   *)
(* of a second lane, waiting, or settled.                                  *)
(***************************************************************************)
Exclusive ==
  \A l \in Lanes : \A j \in held[l] :
    /\ status[j] = "processing"
    /\ lease[j] > 0
    /\ att[l][j] = attempts[j]
    /\ \A m \in Lanes \ {l} : j \notin held[m]

(***************************************************************************)
(* A handler's transaction commits once, except that each commit whose     *)
(* lane crashed or failed before it marked the job completed is followed   *)
(* by another try: at-least-once delivery, with every repeat accounted to  *)
(* one lost completion.                                                    *)
(***************************************************************************)
CommitsAccounted ==
  \A j \in Jobs :
    LET closing == {l \in Lanes : phase[l] = "committed" /\ IsCurrent(l, j)} IN
    commits[j] = orphans[j] + Cardinality(closing) + (IF status[j] = "completed" THEN 1 ELSE 0)

(* Once a job is completed, failed or dead-lettered its status is final:   *)
(* no late statement of any lane reopens it.                               *)
SettledIsFinal == [][\A j \in Jobs : Settled(j) => status'[j] = status[j]]_vars

(***************************************************************************)
(* Seen from outside, and with leases kept, all of the above is the queue  *)
(* of DurableQueue: claims, leases, retries and crashes are stuttering.    *)
(***************************************************************************)
OutsideState(st) ==
  CASE st = "absent" -> "none"
    [] st \in {"pending", "processing"} -> "open"
    [] st = "completed" -> "done"
    [] st = "failed" -> "dead"
    [] st = "dlq" -> "lettered"

Promise == INSTANCE DurableQueue WITH
  state <- [j \in Jobs |-> OutsideState(status[j])]

(* The lanes and the table implement the durable queue. *)
KeepsPromise == Promise!Spec

-------------------------- \* liveness

(***************************************************************************)
(* Every job of a queue with a worker is settled in the end, and stays so, *)
(* whatever crashes, throws and expired leases there are on the way and    *)
(* however often it is abandoned in somebody else's batch.                 *)
(***************************************************************************)
EventuallySettled ==
  \A j \in Jobs : (Open(j) /\ queue[j] \in Handled) ~> []Settled(j)
=============================================================================
