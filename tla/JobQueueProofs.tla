--------------------------- MODULE JobQueueProofs ---------------------------
(***************************************************************************)
(* Theorems about JobQueue, for every number of lanes and jobs, every      *)
(* maxAttempts, lease, delay and batch size, and any number of crashes.    *)
(***************************************************************************)
EXTENDS JobQueue, FiniteSetTheorems, TLAPS

(***************************************************************************)
(* The inductive invariant.  What a lane holds was claimed: the row is     *)
(* there, has a worker, and has counted the lane's attempt.  A lane's      *)
(* phase tells what it has already done about its current job.             *)
(***************************************************************************)
HeldWasClaimed ==
  \A l \in Lanes : \A j \in held[l] :
    status[j] # "absent" /\ queue[j] \in Handled /\ att[l][j] \in 1..attempts[j]

IdleHoldsNothing == \A l \in Lanes : phase[l] = "idle" => held[l] = {}

LettersArePresent == \A r \in Jobs : letterOf[r] # NoJob => status[r] # "absent"

CommittedHasCommit ==
  \A l \in Lanes, j \in Jobs : phase[l] = "committed" /\ IsCurrent(l, j) => commits[j] > 0

FailingOwesLetter ==
  \A l \in Lanes, j \in Jobs : phase[l] = "failing" /\ IsCurrent(l, j) => ShouldDlq(l, j)

MarkingHasLetter ==
  \A l \in Lanes, j \in Jobs :
    phase[l] = "marking" /\ IsCurrent(l, j) /\ ShouldDlq(l, j) => \E r \in Jobs : letterOf[r] = j

NoLetterYet ==
  \A l \in Lanes : phase[l] # "marking" =>
    \A j \in held[l], r \in Jobs : letterOf[r] = j => letterAtt[r] # att[l][j]

Bookkeeping ==
  /\ HeldWasClaimed
  /\ IdleHoldsNothing
  /\ LettersArePresent
  /\ CommittedHasCommit
  /\ FailingOwesLetter
  /\ MarkingHasLetter
  /\ NoLetterYet

IInv ==
  TypeOK /\ Bookkeeping /\ ClaimsDistinct /\ DlqHasLetter /\ LettersDistinct /\ SettledForCause
-----------------------------------------------------------------------------
(* A lane has one current job at a time. *)
LEMMA CurrentUnique ==
  ASSUME TypeOK, NEW l \in Lanes, NEW i \in Jobs, NEW j \in Jobs, IsCurrent(l, i), IsCurrent(l, j)
  PROVE  i = j
BY DEF IsCurrent, TypeOK, Jobs

LEMMA InitHolds == Init => IInv
<1> SUFFICES ASSUME Init PROVE IInv
  OBVIOUS
<1> USE DEF Init
<1>1. TypeOK
  BY QueueAssumption DEF TypeOK, Status, Phase, Jobs
<1>2. Bookkeeping
  BY DEF Bookkeeping, HeldWasClaimed, IdleHoldsNothing, LettersArePresent, CommittedHasCommit,
         FailingOwesLetter, MarkingHasLetter, NoLetterYet
<1>3. ClaimsDistinct /\ DlqHasLetter /\ LettersDistinct /\ SettledForCause
  BY DEF ClaimsDistinct, DlqHasLetter, LettersDistinct, SettledForCause
<1> QED BY <1>1, <1>2, <1>3 DEF IInv

(* Inserting a row, by a client or for a dead letter, leaves every other   *)
(* row alone.                                                              *)
LEMMA EnqueueKeepsRows ==
  ASSUME TypeOK, NEW r \in Jobs, NEW q \in Queues, NEW delay \in Nat,
         NEW source \in Jobs \cup {NoJob}, NEW n \in Nat, QueueEnqueue(r, q, delay, source, n)
  PROVE  /\ status' \in [Jobs -> Status]
         /\ queue' \in [Jobs -> Queues \cup {NoQueue}]
         /\ wait' \in [Jobs -> Nat]
         /\ letterOf' \in [Jobs -> Jobs \cup {NoJob}]
         /\ letterAtt' \in [Jobs -> Nat]
         /\ lease' = lease /\ attempts' = attempts
         /\ status[r] = "absent" /\ status'[r] = "pending"
         /\ letterOf'[r] = source /\ letterAtt'[r] = n
         /\ \A j \in Jobs : j # r =>
              /\ status'[j] = status[j]
              /\ queue'[j] = queue[j]
              /\ letterOf'[j] = letterOf[j]
              /\ letterAtt'[j] = letterAtt[j]
BY DEF QueueEnqueue, IsNextRow, TypeOK, Status

LEMMA EnqueueKeeps ==
  ASSUME IInv, NEW q \in ClientQueues, NEW delay \in 0..MaxDelay, Enqueue(q, delay)
  PROVE  IInv'
<1>1. PICK r \in Jobs : QueueEnqueue(r, q, delay, NoJob, 0)
  BY DEF Enqueue
<1>2. UNCHANGED <<phase, held, att, crashes, commits, orphans>>
  BY DEF Enqueue, history
<1>3. q \in Queues /\ delay \in Nat
  BY QueueAssumption
<1>4. /\ status' \in [Jobs -> Status]
      /\ queue' \in [Jobs -> Queues \cup {NoQueue}]
      /\ wait' \in [Jobs -> Nat]
      /\ letterOf' \in [Jobs -> Jobs \cup {NoJob}]
      /\ letterAtt' \in [Jobs -> Nat]
      /\ lease' = lease /\ attempts' = attempts
      /\ status[r] = "absent" /\ status'[r] = "pending" /\ letterOf'[r] = NoJob
      /\ \A j \in Jobs : j # r =>
           /\ status'[j] = status[j]
           /\ queue'[j] = queue[j]
           /\ letterOf'[j] = letterOf[j]
           /\ letterAtt'[j] = letterAtt[j]
  <2>1. TypeOK /\ NoJob \in Jobs \cup {NoJob} /\ 0 \in Nat
    BY DEF IInv
  <2> QED BY <1>1, <1>3, <2>1, EnqueueKeepsRows
<1>5. TypeOK'
  BY <1>2, <1>4 DEF IInv, TypeOK
<1>6. letterOf[r] = NoJob
  BY <1>4 DEF IInv, Bookkeeping, LettersArePresent
<1>7. letterOf' = letterOf
  BY <1>4, <1>6 DEF IInv, TypeOK
<1>8. \A l \in Lanes : r \notin held[l]
  BY <1>4 DEF IInv, Bookkeeping, HeldWasClaimed
<1>9. \A l \in Lanes, j \in Jobs : IsCurrent(l, j)' <=> IsCurrent(l, j)
  BY <1>2 DEF IsCurrent
<1>10. \A l \in Lanes : \A j \in held[l] : ShouldDlq(l, j)' <=> ShouldDlq(l, j)
  BY <1>2, <1>4, <1>8 DEF ShouldDlq, Exhausted, IInv, TypeOK
<1>11. Bookkeeping'
  <2>1. HeldWasClaimed'
    BY <1>2, <1>4, <1>8 DEF IInv, Bookkeeping, HeldWasClaimed, TypeOK
  <2>2. IdleHoldsNothing' /\ CommittedHasCommit'
    BY <1>2, <1>9 DEF IInv, Bookkeeping, IdleHoldsNothing, CommittedHasCommit
  <2>3. LettersArePresent'
    BY <1>4, <1>7 DEF IInv, Bookkeeping, LettersArePresent
  <2>4. FailingOwesLetter'
    BY <1>2, <1>9, <1>10 DEF IInv, Bookkeeping, FailingOwesLetter, IsCurrent
  <2>5. MarkingHasLetter'
    BY <1>2, <1>7, <1>9, <1>10 DEF IInv, Bookkeeping, MarkingHasLetter, IsCurrent
  <2>6. NoLetterYet'
    BY <1>2, <1>4, <1>6, <1>7 DEF IInv, Bookkeeping, NoLetterYet, NoJob, Jobs, TypeOK
  <2> QED BY <2>1, <2>2, <2>3, <2>4, <2>5, <2>6 DEF Bookkeeping
<1>12. ClaimsDistinct'
  BY <1>2 DEF IInv, ClaimsDistinct
<1>13. DlqHasLetter'
  BY <1>4, <1>7 DEF IInv, DlqHasLetter
<1>14. LettersDistinct'
  BY <1>4, <1>6, <1>7 DEF IInv, LettersDistinct
<1>15. SettledForCause'
  BY <1>2, <1>4 DEF IInv, SettledForCause
<1> QED BY <1>5, <1>11, <1>12, <1>13, <1>14, <1>15 DEF IInv

LEMMA WriteDeadLetterKeeps ==
  ASSUME IInv, NEW l \in Lanes, WriteDeadLetter(l)
  PROVE  IInv'
<1>1. PICK j \in Jobs, r \in Jobs :
        IsCurrent(l, j) /\ QueueEnqueue(r, DlqOf[queue[j]], 0, j, att[l][j])
  BY DEF WriteDeadLetter
<1>2. /\ UNCHANGED <<held, att, crashes, commits, orphans>>
      /\ phase[l] = "failing" /\ phase' = [phase EXCEPT ![l] = "marking"]
  BY DEF WriteDeadLetter, history
<1>3. /\ ShouldDlq(l, j) /\ j \in held[l] /\ status[j] # "absent" /\ queue[j] \in Queues
      /\ att[l][j] \in MaxAttempts..attempts[j]
  BY <1>1, <1>2, QueueAssumption
     DEF IInv, Bookkeeping, FailingOwesLetter, HeldWasClaimed, IsCurrent, ShouldDlq, Exhausted, TypeOK
<1>4. /\ status' \in [Jobs -> Status]
      /\ queue' \in [Jobs -> Queues \cup {NoQueue}]
      /\ wait' \in [Jobs -> Nat]
      /\ letterOf' \in [Jobs -> Jobs \cup {NoJob}]
      /\ letterAtt' \in [Jobs -> Nat]
      /\ lease' = lease /\ attempts' = attempts
      /\ status[r] = "absent" /\ status'[r] = "pending"
      /\ letterOf'[r] = j /\ letterAtt'[r] = att[l][j]
      /\ \A k \in Jobs : k # r =>
           /\ status'[k] = status[k]
           /\ queue'[k] = queue[k]
           /\ letterOf'[k] = letterOf[k]
           /\ letterAtt'[k] = letterAtt[k]
  <2>1. DlqOf[queue[j]] \in Queues /\ att[l][j] \in Nat /\ 0 \in Nat /\ j \in Jobs \cup {NoJob} /\ TypeOK
    BY <1>3, QueueAssumption DEF ShouldDlq, IInv, TypeOK
  <2> QED BY <1>1, <2>1, EnqueueKeepsRows
<1>5. TypeOK'
  BY <1>2, <1>4 DEF IInv, TypeOK, Phase
<1>6. letterOf[r] = NoJob /\ NoJob \notin Jobs
  BY <1>4 DEF IInv, Bookkeeping, LettersArePresent, NoJob, Jobs
<1>7. \A m \in Lanes : r \notin held[m]
  BY <1>4 DEF IInv, Bookkeeping, HeldWasClaimed
<1>8. \A m \in Lanes, k \in Jobs : IsCurrent(m, k)' <=> IsCurrent(m, k)
  BY <1>2 DEF IsCurrent
<1>9. \A m \in Lanes : \A k \in held[m] : ShouldDlq(m, k)' <=> ShouldDlq(m, k)
  BY <1>2, <1>4, <1>7 DEF ShouldDlq, Exhausted, IInv, TypeOK
<1>10. \A k, s \in Jobs : letterOf[s] = k => letterOf'[s] = k
  BY <1>4, <1>6
<1>11. Bookkeeping'
  <2>1. HeldWasClaimed'
    BY <1>2, <1>4, <1>7 DEF IInv, Bookkeeping, HeldWasClaimed, TypeOK
  <2>2. IdleHoldsNothing' /\ CommittedHasCommit'
    BY <1>2, <1>8 DEF IInv, Bookkeeping, IdleHoldsNothing, CommittedHasCommit, TypeOK
  <2>3. LettersArePresent'
    BY <1>4 DEF IInv, Bookkeeping, LettersArePresent
  <2>4. FailingOwesLetter'
    BY <1>2, <1>8, <1>9 DEF IInv, Bookkeeping, FailingOwesLetter, IsCurrent, TypeOK
  <2>5. MarkingHasLetter'
    <3> SUFFICES ASSUME NEW m \in Lanes, NEW k \in Jobs, phase'[m] = "marking",
                        IsCurrent(m, k), ShouldDlq(m, k)
                 PROVE  \E s \in Jobs : letterOf'[s] = k
      BY <1>8, <1>9 DEF MarkingHasLetter, IsCurrent
    <3>1. CASE m = l
      BY <3>1, <1>1, <1>4, CurrentUnique DEF IInv
    <3>2. CASE m # l
      BY <3>2, <1>2, <1>10 DEF IInv, Bookkeeping, MarkingHasLetter, TypeOK
    <3> QED BY <3>1, <3>2
  <2>6. NoLetterYet'
    <3> SUFFICES ASSUME NEW m \in Lanes, phase'[m] # "marking", NEW k \in held[m],
                        NEW s \in Jobs, letterOf'[s] = k
                 PROVE  letterAtt'[s] # att[m][k]
      BY <1>2 DEF NoLetterYet
    <3>1. m # l /\ phase[m] # "marking"
      BY <1>2 DEF IInv, TypeOK
    <3>2. CASE s = r
      BY <3>1, <3>2, <1>3, <1>4 DEF IInv, ClaimsDistinct
    <3>3. CASE s # r
      BY <3>1, <3>3, <1>4 DEF IInv, Bookkeeping, NoLetterYet
    <3> QED BY <3>2, <3>3
  <2> QED BY <2>1, <2>2, <2>3, <2>4, <2>5, <2>6 DEF Bookkeeping
<1>12. ClaimsDistinct'
  BY <1>2 DEF IInv, ClaimsDistinct
<1>13. DlqHasLetter'
  BY <1>4, <1>10 DEF IInv, DlqHasLetter
<1>14. LettersDistinct'
  <2>1. \A s \in Jobs : letterOf[s] = j => letterAtt[s] # att[l][j]
    BY <1>2, <1>3 DEF IInv, Bookkeeping, NoLetterYet
  <2>2. \A s \in Jobs : s # r => letterOf'[s] = letterOf[s] /\ letterAtt'[s] = letterAtt[s]
    BY <1>4
  <2> QED BY <1>3, <1>4, <2>1, <2>2 DEF IInv, LettersDistinct
<1>15. SettledForCause'
  BY <1>2, <1>4 DEF IInv, SettledForCause
<1> QED BY <1>5, <1>11, <1>12, <1>13, <1>14, <1>15 DEF IInv

LEMMA ClaimKeeps ==
  ASSUME IInv, NEW l \in Lanes, Claim(l)
  PROVE  IInv'
<1>1. PICK n \in {1, BatchSize}, locked \in SUBSET InUpdate(l) : Claim(l)!2!(n, locked)
  BY DEF Claim
<1> DEFINE batch == Lowest(n, {j \in Jobs \ locked : Claimable(j)})
<1>2. batch \subseteq Jobs /\ \A j \in batch : Claimable(j)
  BY DEF Lowest
<1> HIDE DEF batch
<1>3. /\ status' = [j \in Jobs |-> IF j \in batch THEN "processing" ELSE status[j]]
      /\ attempts' = [j \in Jobs |-> IF j \in batch THEN attempts[j] + 1 ELSE attempts[j]]
      /\ lease' = [j \in Jobs |-> IF j \in batch THEN LeaseMs ELSE lease[j]]
      /\ held' = [held EXCEPT ![l] = batch]
      /\ att' = [att EXCEPT ![l] = [j \in Jobs |-> IF j \in batch THEN attempts[j] + 1 ELSE 0]]
  BY <1>1 DEF batch, Stamp
<1>4. /\ phase[l] = "idle" /\ phase' = [phase EXCEPT ![l] = "ready"]
      /\ UNCHANGED <<queue, wait, letterOf, letterAtt, crashes, commits, orphans>>
  BY DEF Claim, history
<1> DEFINE Same(m) == held'[m] = held[m] /\ att'[m] = att[m] /\ phase'[m] = phase[m]
<1>5. /\ \A m \in Lanes : m # l => Same(m)
      /\ held'[l] = batch /\ phase'[l] = "ready"
      /\ \A j \in batch : att'[l][j] = attempts[j] + 1 /\ attempts'[j] = attempts[j] + 1
      /\ \A j \in Jobs : attempts'[j] \in Nat /\ attempts[j] \in Nat /\ attempts'[j] >= attempts[j]
      /\ \A j \in Jobs : status'[j] = "absent" => status[j] = "absent"
  BY <1>2, <1>3, <1>4 DEF IInv, TypeOK, Claimable
<1>6. TypeOK'
  BY <1>2, <1>3, <1>4, QueueAssumption DEF IInv, TypeOK, Status, Phase
<1>7. \A m \in Lanes, j \in Jobs : m # l =>
        (IsCurrent(m, j)' <=> IsCurrent(m, j)) /\ (ShouldDlq(m, j)' <=> ShouldDlq(m, j))
  BY <1>4, <1>5 DEF IsCurrent, ShouldDlq, Exhausted
<1>8. Bookkeeping'
  <2>1. HeldWasClaimed'
    <3> SUFFICES ASSUME NEW m \in Lanes, NEW j \in held'[m]
                 PROVE  status'[j] # "absent" /\ queue'[j] \in Handled /\ att'[m][j] \in 1..attempts'[j]
      BY DEF HeldWasClaimed
    <3>1. CASE m = l
      <4>1. j \in batch
        BY <3>1, <1>5
      <4>2. j \in Jobs /\ Claimable(j)
        BY <4>1, <1>2
      <4>3. status'[j] = "processing" /\ queue'[j] \in Handled
        BY <4>1, <4>2, <1>3, <1>4 DEF Claimable
      <4>4. att'[m][j] = attempts'[j] /\ attempts'[j] = attempts[j] + 1 /\ attempts[j] \in Nat
        BY <3>1, <4>1, <4>2, <1>5
      <4> QED BY <4>3, <4>4
    <3>2. CASE m # l
      <4>1. j \in held[m] /\ j \in Jobs
        BY <3>2, <1>5 DEF IInv, TypeOK
      <4>2. status[j] # "absent" /\ queue[j] \in Handled /\ att[m][j] \in 1..attempts[j]
        BY <4>1 DEF IInv, Bookkeeping, HeldWasClaimed
      <4> QED BY <3>2, <4>1, <4>2, <1>4, <1>5
    <3> QED BY <3>1, <3>2
  <2>2. IdleHoldsNothing'
    BY <1>5 DEF IInv, Bookkeeping, IdleHoldsNothing
  <2>3. LettersArePresent'
    BY <1>4, <1>5 DEF IInv, Bookkeeping, LettersArePresent
  <2>4. CommittedHasCommit'
    BY <1>4, <1>5, <1>7 DEF IInv, Bookkeeping, CommittedHasCommit
  <2>5. FailingOwesLetter'
    BY <1>5, <1>7 DEF IInv, Bookkeeping, FailingOwesLetter
  <2>6. MarkingHasLetter'
    BY <1>4, <1>5, <1>7 DEF IInv, Bookkeeping, MarkingHasLetter
  <2>7. NoLetterYet'
    <3> SUFFICES ASSUME NEW m \in Lanes, phase'[m] # "marking", NEW j \in held'[m],
                        NEW r \in Jobs, letterOf[r] = j
                 PROVE  letterAtt[r] # att'[m][j]
      BY <1>4 DEF NoLetterYet
    <3>1. CASE m = l
      <4>1. j \in batch /\ j \in Jobs /\ j # NoJob
        <5>1. j \in batch
          BY <3>1, <1>5
        <5>2. j \in Jobs
          BY <5>1, <1>2
        <5> QED BY <5>1, <5>2 DEF NoJob, Jobs
      <4>2. letterAtt[r] \in MaxAttempts..attempts[j]
        BY <4>1 DEF IInv, LettersDistinct
      <4> QED BY <3>1, <4>1, <4>2, <1>5, QueueAssumption
    <3>2. CASE m # l
      BY <3>2, <1>5 DEF IInv, Bookkeeping, NoLetterYet
    <3> QED BY <3>1, <3>2
  <2> QED BY <2>1, <2>2, <2>3, <2>4, <2>5, <2>6, <2>7 DEF Bookkeeping
<1>9. ClaimsDistinct'
  <2> SUFFICES ASSUME NEW p \in Lanes, NEW m \in Lanes, p # m, NEW j \in held'[p] \cap held'[m]
               PROVE  att'[p][j] # att'[m][j]
    BY DEF ClaimsDistinct
  <2>1. \A k \in Lanes : k # l /\ j \in held'[k] => att'[k][j] \in 1..attempts[j]
    BY <1>5 DEF IInv, Bookkeeping, HeldWasClaimed
  <2>2. j \in Jobs
    BY <1>6 DEF TypeOK
  <2>3. CASE p # l /\ m # l
    BY <2>3, <1>5 DEF IInv, ClaimsDistinct
  <2>4. CASE p = l \/ m = l
    BY <2>1, <2>2, <2>4, <1>5
  <2> QED BY <2>3, <2>4
<1>10. DlqHasLetter'
  <2>1. \A j \in Jobs : status'[j] = "dlq" => status[j] = "dlq"
    BY <1>3
  <2> QED BY <2>1, <1>4, <1>5 DEF IInv, DlqHasLetter
<1>11. LettersDistinct'
  <2> SUFFICES ASSUME NEW r \in Jobs, NEW s \in Jobs, letterOf[r] # NoJob
               PROVE  /\ letterAtt[r] \in MaxAttempts..attempts'[letterOf[r]]
                      /\ r # s /\ letterOf[s] = letterOf[r] => letterAtt[s] # letterAtt[r]
    BY <1>4 DEF LettersDistinct
  <2>1. letterOf[r] \in Jobs
    BY DEF IInv, TypeOK
  <2> QED BY <2>1, <1>5, QueueAssumption DEF IInv, LettersDistinct
<1>12. SettledForCause'
  <2>1. \A j \in Jobs : status'[j] \in {"completed", "failed", "dlq"} => status'[j] = status[j]
    BY <1>3
  <2> QED BY <2>1, <1>4, <1>5, QueueAssumption DEF IInv, SettledForCause
<1> QED BY <1>6, <1>8, <1>9, <1>10, <1>11, <1>12 DEF IInv

(* A lane moves on within its job: the table and what is held stay.        *)
LEMMA MoveKeeps ==
  ASSUME IInv, TypeOK', NEW l \in Lanes, NEW p \in Phase \ {"idle"},
         UNCHANGED <<table, held, att>>, phase[l] # "idle", phase[l] # "marking",
         phase' = [phase EXCEPT ![l] = p],
         \A j \in Jobs : commits'[j] >= commits[j],
         \A j \in Jobs : IsCurrent(l, j) =>
           /\ p = "committed" => commits'[j] > 0
           /\ p = "failing" => ShouldDlq(l, j)
           /\ p = "marking" => ~ShouldDlq(l, j)
  PROVE  IInv'
<1>1. \A m \in Lanes, j \in Jobs :
        (IsCurrent(m, j)' <=> IsCurrent(m, j)) /\ (ShouldDlq(m, j)' <=> ShouldDlq(m, j))
  BY DEF IsCurrent, ShouldDlq, Exhausted, table
<1>2. phase'[l] = p /\ \A m \in Lanes : m # l => phase'[m] = phase[m]
  BY DEF IInv, TypeOK
<1>3. \A j \in Jobs : commits[j] \in Nat /\ commits'[j] \in Nat
  BY DEF IInv, TypeOK
<1>4. Bookkeeping'
  <2>1. HeldWasClaimed' /\ IdleHoldsNothing' /\ LettersArePresent'
    BY <1>2 DEF IInv, Bookkeeping, HeldWasClaimed, IdleHoldsNothing, LettersArePresent, table
  <2>2. CommittedHasCommit'
    BY <1>1, <1>2, <1>3 DEF IInv, Bookkeeping, CommittedHasCommit
  <2>3. FailingOwesLetter' /\ MarkingHasLetter'
    BY <1>1, <1>2 DEF IInv, Bookkeeping, FailingOwesLetter, MarkingHasLetter, table
  <2>4. NoLetterYet'
    BY <1>2 DEF IInv, Bookkeeping, NoLetterYet, table
  <2> QED BY <2>1, <2>2, <2>3, <2>4 DEF Bookkeeping
<1>5. ClaimsDistinct' /\ DlqHasLetter' /\ LettersDistinct'
  BY DEF IInv, ClaimsDistinct, DlqHasLetter, LettersDistinct, table
<1>6. SettledForCause'
  BY <1>3 DEF IInv, SettledForCause, table
<1> QED BY <1>4, <1>5, <1>6 DEF IInv

(* A lane lets go of one job or of all, having written no status that the  *)
(* invariant forbids.                                                      *)
LEMMA ReleaseKeeps ==
  ASSUME IInv, TypeOK', NEW l \in Lanes,
         UNCHANGED <<queue, attempts, letterOf, letterAtt, commits>>,
         \A m \in Lanes : m # l => held'[m] = held[m] /\ att'[m] = att[m] /\ phase'[m] = phase[m],
         held'[l] \subseteq held[l], phase'[l] \in {"idle", "ready"},
         phase'[l] = "idle" => held'[l] = {},
         phase[l] = "marking" => held'[l] = {},
         \A j \in held'[l] : att'[l][j] = att[l][j],
         \A j \in Jobs : status'[j] # status[j] =>
           /\ status[j] # "absent" /\ status'[j] # "absent"
           /\ status'[j] = "dlq" => \E r \in Jobs : letterOf[r] = j
           /\ status'[j] = "completed" => commits[j] > 0
           /\ status'[j] \in {"failed", "dlq"} => attempts[j] >= MaxAttempts
  PROVE  IInv'
<1>1. \A m \in Lanes, j \in Jobs : m # l =>
        (IsCurrent(m, j)' <=> IsCurrent(m, j)) /\ (ShouldDlq(m, j)' <=> ShouldDlq(m, j))
  BY DEF IsCurrent, ShouldDlq, Exhausted
<1>2. \A j \in Jobs : status'[j] = "absent" <=> status[j] = "absent"
  OBVIOUS
<1>3. \A m \in Lanes : \A j \in held'[m] : j \in held[m] /\ j \in Jobs /\ att'[m][j] = att[m][j]
  BY DEF IInv, TypeOK
<1>4. Bookkeeping'
  <2>1. HeldWasClaimed'
    BY <1>2, <1>3 DEF IInv, Bookkeeping, HeldWasClaimed
  <2>2. IdleHoldsNothing'
    BY DEF IInv, Bookkeeping, IdleHoldsNothing
  <2>3. LettersArePresent'
    BY <1>2 DEF IInv, Bookkeeping, LettersArePresent
  <2>4. CommittedHasCommit' /\ FailingOwesLetter' /\ MarkingHasLetter'
    BY <1>1 DEF IInv, Bookkeeping, CommittedHasCommit, FailingOwesLetter, MarkingHasLetter
  <2>5. NoLetterYet'
    <3> SUFFICES ASSUME NEW m \in Lanes, phase'[m] # "marking", NEW j \in held'[m],
                        NEW r \in Jobs, letterOf[r] = j
                 PROVE  letterAtt[r] # att'[m][j]
      BY DEF NoLetterYet
    <3>1. phase[m] # "marking"
      BY DEF IInv
    <3> QED BY <3>1, <1>3 DEF IInv, Bookkeeping, NoLetterYet
  <2> QED BY <2>1, <2>2, <2>3, <2>4, <2>5 DEF Bookkeeping
<1>5. ClaimsDistinct'
  BY <1>3 DEF IInv, ClaimsDistinct
<1>6. DlqHasLetter'
  <2> SUFFICES ASSUME NEW j \in Jobs, status'[j] = "dlq"
               PROVE  \E r \in Jobs : status'[r] # "absent" /\ letterOf[r] = j
    BY DEF DlqHasLetter
  <2>1. PICK r \in Jobs : letterOf[r] = j
    BY DEF IInv, DlqHasLetter
  <2>2. status[r] # "absent"
    BY <2>1 DEF IInv, Bookkeeping, LettersArePresent, NoJob, Jobs
  <2> QED BY <2>1, <2>2, <1>2
<1>7. LettersDistinct'
  BY DEF IInv, LettersDistinct
<1>8. SettledForCause'
  BY DEF IInv, SettledForCause
<1> QED BY <1>4, <1>5, <1>6, <1>7, <1>8 DEF IInv

(* What a lane writes when it marks its current job is allowed. *)
LEMMA FailedStatusAllowed ==
  ASSUME IInv, NEW l \in Lanes, NEW j \in Jobs, phase[l] = "marking", IsCurrent(l, j)
  PROVE  /\ status[j] # "absent" /\ FailedStatus(l, j) \in {"pending", "failed", "dlq"}
         /\ FailedStatus(l, j) = "dlq" => \E r \in Jobs : letterOf[r] = j
         /\ FailedStatus(l, j) \in {"failed", "dlq"} => attempts[j] >= MaxAttempts
<1>1. att[l][j] \in 1..attempts[j] /\ status[j] # "absent" /\ attempts[j] \in Nat
  BY DEF IsCurrent, IInv, Bookkeeping, HeldWasClaimed, TypeOK
<1>2. Exhausted(l, j) => attempts[j] >= MaxAttempts
  BY <1>1, QueueAssumption DEF Exhausted
<1>3. ShouldDlq(l, j) => \E r \in Jobs : letterOf[r] = j
  BY DEF IInv, Bookkeeping, MarkingHasLetter
<1> QED BY <1>1, <1>2, <1>3 DEF FailedStatus, ShouldDlq

LEMMA LaneStepKeeps ==
  ASSUME IInv, NEW l \in Lanes, LaneStep(l) \/ Crash(l)
  PROVE  IInv'
<1> USE DEF table, history
<1>t. TypeOK /\ Bookkeeping
  BY DEF IInv
<1>1. CASE Claim(l)
  BY <1>1, ClaimKeeps
<1>2. CASE StartHandler(l)
  <2>1. TypeOK'
    BY <1>2, <1>t DEF StartHandler, TypeOK, Phase
  <2>2. /\ phase[l] = "ready" /\ phase' = [phase EXCEPT ![l] = "running"]
        /\ UNCHANGED <<table, held, att, commits>>
    BY <1>2 DEF StartHandler
  <2>3. \A j \in Jobs : commits'[j] >= commits[j]
    BY <2>2, <1>t DEF TypeOK
  <2>4. "running" \in Phase \ {"idle"}
    BY DEF Phase
  <2> QED BY <2>1, <2>2, <2>3, <2>4, MoveKeeps
<1>3. CASE HandlerCommits(l)
  <2>1. PICK k \in Jobs : IsCurrent(l, k) /\ commits' = [commits EXCEPT ![k] = @ + 1]
    BY <1>3 DEF HandlerCommits
  <2>2. /\ phase[l] = "running" /\ phase' = [phase EXCEPT ![l] = "committed"]
        /\ UNCHANGED <<table, held, att, crashes, orphans>>
    BY <1>3 DEF HandlerCommits
  <2>3. TypeOK'
    BY <2>1, <2>2, <1>t DEF TypeOK, Phase
  <2>4. \A j \in Jobs : commits'[j] >= commits[j]
    BY <2>1, <1>t DEF TypeOK
  <2>5. \A j \in Jobs : IsCurrent(l, j) => commits'[j] > 0
    <3>1. commits'[k] > 0
      BY <2>1, <1>t DEF TypeOK
    <3>2. \A j \in Jobs : IsCurrent(l, j) => j = k
      BY <2>1, <1>t, CurrentUnique
    <3> QED BY <3>1, <3>2
  <2>6. "committed" \in Phase \ {"idle"}
    BY DEF Phase
  <2> QED BY <2>2, <2>3, <2>4, <2>5, <2>6, MoveKeeps
<1>4. CASE Complete(l)
  <2>1. PICK k \in Jobs :
          /\ IsCurrent(l, k)
          /\ status' = [status EXCEPT ![k] = "completed"]
          /\ lease' = [lease EXCEPT ![k] = 0]
          /\ held' = [held EXCEPT ![l] = @ \ {k}]
          /\ att' = [att EXCEPT ![l][k] = 0]
    BY <1>4 DEF Complete
  <2>2. /\ phase[l] = "committed"
        /\ phase' = [phase EXCEPT ![l] = IF held'[l] = {} THEN "idle" ELSE "ready"]
        /\ UNCHANGED <<queue, wait, attempts, letterOf, letterAtt, crashes, history>>
    BY <1>4 DEF Complete
  <2>3. TypeOK'
    BY <2>1, <2>2, <1>t DEF TypeOK, Status, Phase
  <2>4. commits[k] > 0 /\ status[k] # "absent"
    BY <2>1, <2>2, <1>t DEF Bookkeeping, CommittedHasCommit, HeldWasClaimed, IsCurrent
  <2>5. /\ \A m \in Lanes : m # l => held'[m] = held[m] /\ att'[m] = att[m] /\ phase'[m] = phase[m]
        /\ held'[l] \subseteq held[l] /\ phase'[l] \in {"idle", "ready"}
        /\ phase'[l] = "idle" => held'[l] = {}
        /\ \A j \in held'[l] : att'[l][j] = att[l][j]
        /\ \A j \in Jobs : j # k => status'[j] = status[j]
        /\ status'[k] = "completed"
    BY <2>1, <2>2, <1>t DEF TypeOK
  <2> QED BY <2>2, <2>3, <2>4, <2>5, ReleaseKeeps
<1>5. CASE HandlerThrows(l)
  <2>1. PICK k \in Jobs : IsCurrent(l, k) /\ EnterFailure(l, k)
    BY <1>5 DEF HandlerThrows
  <2>2. phase[l] = "running" /\ UNCHANGED <<table, held, att, crashes, history>>
    BY <1>5 DEF HandlerThrows
  <2>3. TypeOK'
    BY <2>1, <2>2, <1>t DEF TypeOK, Phase, EnterFailure
  <2>4. \A j \in Jobs : IsCurrent(l, j) => j = k
    BY <2>1, <1>t, CurrentUnique
  <2>5. \A j \in Jobs : commits'[j] >= commits[j]
    BY <2>2, <1>t DEF TypeOK
  <2> DEFINE p == IF ShouldDlq(l, k) THEN "failing" ELSE "marking"
  <2>6. /\ p \in Phase \ {"idle"} /\ phase' = [phase EXCEPT ![l] = p]
        /\ phase[l] # "idle" /\ phase[l] # "marking"
    BY <2>1, <2>2 DEF EnterFailure, Phase
  <2>7. \A j \in Jobs : IsCurrent(l, j) =>
          /\ p = "committed" => commits'[j] > 0
          /\ p = "failing" => ShouldDlq(l, j)
          /\ p = "marking" => ~ShouldDlq(l, j)
    BY <2>4
  <2>8. UNCHANGED <<table, held, att>>
    BY <2>2
  <2> HIDE DEF p
  <2> QED BY <2>3, <2>5, <2>6, <2>7, <2>8, MoveKeeps
<1>6. CASE ThrowsAfterCommit(l)
  <2>1. PICK k \in Jobs :
          IsCurrent(l, k) /\ EnterFailure(l, k) /\ orphans' = [orphans EXCEPT ![k] = @ + 1]
    BY <1>6 DEF ThrowsAfterCommit
  <2>2. phase[l] = "committed" /\ UNCHANGED <<table, held, att, crashes, commits>>
    BY <1>6 DEF ThrowsAfterCommit
  <2>3. TypeOK'
    BY <2>1, <2>2, <1>t DEF TypeOK, Phase, EnterFailure
  <2>4. \A j \in Jobs : IsCurrent(l, j) => j = k
    BY <2>1, <1>t, CurrentUnique
  <2>5. \A j \in Jobs : commits'[j] >= commits[j]
    BY <2>2, <1>t DEF TypeOK
  <2> DEFINE p == IF ShouldDlq(l, k) THEN "failing" ELSE "marking"
  <2>6. /\ p \in Phase \ {"idle"} /\ phase' = [phase EXCEPT ![l] = p]
        /\ phase[l] # "idle" /\ phase[l] # "marking"
    BY <2>1, <2>2 DEF EnterFailure, Phase
  <2>7. \A j \in Jobs : IsCurrent(l, j) =>
          /\ p = "committed" => commits'[j] > 0
          /\ p = "failing" => ShouldDlq(l, j)
          /\ p = "marking" => ~ShouldDlq(l, j)
    BY <2>4
  <2>8. UNCHANGED <<table, held, att>>
    BY <2>2
  <2> HIDE DEF p
  <2> QED BY <2>3, <2>5, <2>6, <2>7, <2>8, MoveKeeps
<1>7. CASE WriteDeadLetter(l)
  BY <1>7, WriteDeadLetterKeeps
<1>8. CASE MarkFailure(l)
  <2>1. PICK k \in Jobs :
          /\ IsCurrent(l, k)
          /\ status' = [status EXCEPT ![k] = FailedStatus(l, k)]
          /\ wait' = [wait EXCEPT ![k] = RetryDelayMs]
          /\ lease' = [lease EXCEPT ![k] = 0]
    BY <1>8 DEF MarkFailure
  <2>2. /\ phase[l] = "marking"
        /\ DropBatch(l)
        /\ UNCHANGED <<queue, attempts, letterOf, letterAtt, crashes, history>>
    BY <1>8 DEF MarkFailure
  <2>3. /\ status[k] # "absent" /\ FailedStatus(l, k) \in {"pending", "failed", "dlq"}
        /\ FailedStatus(l, k) = "dlq" => \E r \in Jobs : letterOf[r] = k
        /\ FailedStatus(l, k) \in {"failed", "dlq"} => attempts[k] >= MaxAttempts
    BY <2>1, <2>2, FailedStatusAllowed
  <2>4. TypeOK'
    BY <2>1, <2>2, <2>3, <1>t, QueueAssumption DEF TypeOK, Status, Phase, DropBatch
  <2>5. /\ \A m \in Lanes : m # l => held'[m] = held[m] /\ att'[m] = att[m] /\ phase'[m] = phase[m]
        /\ held'[l] = {} /\ phase'[l] = "idle"
        /\ \A j \in Jobs : j # k => status'[j] = status[j]
        /\ status'[k] = FailedStatus(l, k)
    BY <2>1, <2>2, <1>t DEF TypeOK, DropBatch
  <2> QED BY <2>2, <2>3, <2>4, <2>5, ReleaseKeeps
<1>9. CASE Crash(l)
  <2>1. DropBatch(l) /\ UNCHANGED <<table, commits>>
    BY <1>9 DEF Crash
  <2>2. TypeOK'
    BY <1>9, <1>t DEF TypeOK, Phase, DropBatch, Crash
  <2>3. /\ \A m \in Lanes : m # l => held'[m] = held[m] /\ att'[m] = att[m] /\ phase'[m] = phase[m]
        /\ held'[l] = {} /\ phase'[l] = "idle"
    BY <2>1, <1>t DEF TypeOK, DropBatch
  <2> QED BY <2>1, <2>2, <2>3, ReleaseKeeps
<1> QED BY <1>1, <1>2, <1>3, <1>4, <1>5, <1>6, <1>7, <1>8, <1>9 DEF LaneStep

(* Steps that touch neither what is held nor any column but the two times. *)
LEMMA TimeKeeps ==
  ASSUME IInv, TypeOK',
         UNCHANGED <<status, queue, attempts, letterOf, letterAtt, phase, held, att, commits>>
  PROVE  IInv'
<1>1. \A l \in Lanes, j \in Jobs :
        (IsCurrent(l, j)' <=> IsCurrent(l, j)) /\ (ShouldDlq(l, j)' <=> ShouldDlq(l, j))
  BY DEF IsCurrent, ShouldDlq, Exhausted
<1>2. Bookkeeping'
  BY <1>1 DEF IInv, Bookkeeping, HeldWasClaimed, IdleHoldsNothing, LettersArePresent,
              CommittedHasCommit, FailingOwesLetter, MarkingHasLetter, NoLetterYet
<1>3. ClaimsDistinct' /\ DlqHasLetter' /\ LettersDistinct' /\ SettledForCause'
  BY DEF IInv, ClaimsDistinct, DlqHasLetter, LettersDistinct, SettledForCause
<1> QED BY <1>2, <1>3 DEF IInv

LEMMA StepHolds == IInv /\ [Next]_vars => IInv'
<1> SUFFICES ASSUME IInv, [Next]_vars PROVE IInv'
  OBVIOUS
<1>1. ASSUME NEW q \in ClientQueues, NEW delay \in 0..MaxDelay, Enqueue(q, delay)
      PROVE  IInv'
  BY <1>1, EnqueueKeeps
<1>2. ASSUME NEW l \in Lanes, LaneStep(l) \/ Crash(l) PROVE IInv'
  BY <1>2, LaneStepKeeps
<1>3. CASE Tick
  <2>1. /\ wait' = [j \in Jobs |-> Elapse(wait[j])] /\ lease' = [j \in Jobs |-> Elapse(lease[j])]
        /\ UNCHANGED <<status, queue, attempts, letterOf, letterAtt, phase, held, att, crashes,
                       commits, orphans>>
    BY <1>3 DEF Tick, history
  <2>2. \A t \in Nat : Elapse(t) \in Nat
    BY DEF Elapse
  <2>3. wait' \in [Jobs -> Nat] /\ lease' \in [Jobs -> Nat]
    BY <2>1, <2>2 DEF IInv, TypeOK
  <2>4. TypeOK'
    BY <2>1, <2>3 DEF IInv, TypeOK
  <2> QED BY <2>1, <2>4, TimeKeeps
<1>4. CASE UNCHANGED vars
  <2>1. TypeOK'
    BY <1>4 DEF vars, table, history, IInv, TypeOK
  <2> QED BY <1>4, <2>1, TimeKeeps DEF vars, table, history
<1> QED BY <1>1, <1>2, <1>3, <1>4 DEF Next

THEOREM Invariance == Spec => []IInv
BY InitHolds, StepHolds, PTL DEF Spec

(* Every column and every lane variable keeps its type. *)
THEOREM TypeCorrect == Spec => []TypeOK
<1>1. IInv => TypeOK
  BY DEF IInv
<1> QED BY <1>1, Invariance, PTL

(***************************************************************************)
(* However late, crashed or overtaken the lanes are, attempt numbers are   *)
(* handed out once and one claim writes at most one letter (the claim's    *)
(* UPDATE, and the INSERT of enqueueDlqJob).                               *)
(***************************************************************************)
THEOREM ClaimsAreOnce == Spec => []OncePerClaim
<1>1. IInv => OncePerClaim
  BY DEF IInv, OncePerClaim
<1> QED BY <1>1, Invariance, PTL

(* A job is "dlq" only with a dead letter, whoever stopped in between the  *)
(* INSERT and the UPDATE of markQueueJobFailure.                           *)
THEOREM LettersAreNotLost == Spec => []DlqHasLetter
<1>1. IInv => DlqHasLetter
  BY DEF IInv
<1> QED BY <1>1, Invariance, PTL

(* Nothing is settled without cause: no lane that writes late, by id       *)
(* alone, completes a job that no handler committed for, or gives one up   *)
(* before its attempts are used.                                           *)
THEOREM LateLanesAreHarmless == Spec => []SettledForCause
<1>1. IInv => SettledForCause
  BY DEF IInv
<1> QED BY <1>1, Invariance, PTL
-----------------------------------------------------------------------------
(***************************************************************************)
(* Theorems about JobQueue for a deployment in which no lane is still      *)
(* holding a job when its lease runs out (~OverrunAllowed): a lane has its *)
(* jobs to itself, what is settled stays settled, and the lanes and the    *)
(* table together implement DurableQueue.                                  *)
(***************************************************************************)

LEMMA ExclusiveInit == Init => Exclusive
BY DEF Init, Exclusive

(* Steps that change no lane's hands and no row that some lane holds. *)
LEMMA ExclusiveFrame ==
  ASSUME Exclusive, held' = held, att' = att, attempts' = attempts,
         \A l \in Lanes : \A j \in held[l] : status'[j] = status[j] /\ lease'[j] > 0
  PROVE  Exclusive'
BY DEF Exclusive

(* A lane that finishes with one or all of its jobs writes no row that is  *)
(* in the hands of another.                                                *)
LEMMA ExclusiveRelease ==
  ASSUME TypeOK, Exclusive, NEW l \in Lanes, attempts' = attempts,
         \A m \in Lanes : m # l => held'[m] = held[m] /\ att'[m] = att[m],
         held'[l] \subseteq held[l],
         \A j \in held'[l] : att'[l][j] = att[l][j],
         \A j \in Jobs : j \notin held[l] \/ j \in held'[l] =>
           status'[j] = status[j] /\ lease'[j] = lease[j]
  PROVE  Exclusive'
<1> SUFFICES ASSUME NEW m \in Lanes, NEW j \in held'[m]
             PROVE  /\ status'[j] = "processing" /\ lease'[j] > 0 /\ att'[m][j] = attempts[j]
                    /\ \A k \in Lanes \ {m} : j \notin held'[k]
  BY DEF Exclusive
<1>1. j \in held[m] /\ j \in Jobs /\ att'[m][j] = att[m][j]
  BY DEF TypeOK
<1>2. /\ status[j] = "processing" /\ lease[j] > 0 /\ att[m][j] = attempts[j]
      /\ \A k \in Lanes \ {m} : j \notin held[k]
  BY <1>1 DEF Exclusive
<1>3. j \notin held[l] \/ j \in held'[l]
  BY <1>1, <1>2
<1>4. \A k \in Lanes : held'[k] \subseteq held[k]
  OBVIOUS
<1> QED BY <1>1, <1>2, <1>3, <1>4

LEMMA ExclusiveClaim ==
  ASSUME TypeOK, Exclusive, NEW l \in Lanes, Claim(l)
  PROVE  Exclusive'
<1>1. PICK n \in {1, BatchSize}, locked \in SUBSET InUpdate(l) : Claim(l)!2!(n, locked)
  BY DEF Claim
<1> DEFINE batch == Lowest(n, {j \in Jobs \ locked : Claimable(j)})
<1>2. batch \subseteq Jobs /\ \A j \in batch : Claimable(j)
  BY DEF Lowest
<1> HIDE DEF batch
<1>3. /\ status' = [j \in Jobs |-> IF j \in batch THEN "processing" ELSE status[j]]
      /\ attempts' = [j \in Jobs |-> IF j \in batch THEN attempts[j] + 1 ELSE attempts[j]]
      /\ lease' = [j \in Jobs |-> IF j \in batch THEN LeaseMs ELSE lease[j]]
      /\ held' = [held EXCEPT ![l] = batch]
      /\ att' = [att EXCEPT ![l] = [j \in Jobs |-> IF j \in batch THEN attempts[j] + 1 ELSE 0]]
  BY <1>1 DEF batch, Stamp
<1>4. \A m \in Lanes : \A j \in batch : j \notin held[m]
  BY <1>2 DEF Claimable, Exclusive
<1>5. /\ held'[l] = batch
      /\ \A m \in Lanes : m # l => held'[m] = held[m] /\ att'[m] = att[m]
      /\ \A j \in batch : /\ att'[l][j] = attempts'[j]
                          /\ status'[j] = "processing" /\ lease'[j] = LeaseMs
      /\ \A j \in Jobs \ batch :
           status'[j] = status[j] /\ attempts'[j] = attempts[j] /\ lease'[j] = lease[j]
  BY <1>2, <1>3 DEF TypeOK
<1> SUFFICES ASSUME NEW m \in Lanes, NEW j \in held'[m]
             PROVE  /\ status'[j] = "processing" /\ lease'[j] > 0 /\ att'[m][j] = attempts'[j]
                    /\ \A k \in Lanes \ {m} : j \notin held'[k]
  BY DEF Exclusive
<1>6. CASE m = l
  BY <1>4, <1>5, <1>6, QueueAssumption
<1>7. CASE m # l
  <2>1. j \in held[m] /\ j \in Jobs /\ j \notin batch
    BY <1>4, <1>5, <1>7 DEF TypeOK
  <2> QED BY <1>5, <1>7, <2>1 DEF Exclusive
<1> QED BY <1>6, <1>7

LEMMA ExclusiveStep ==
  ASSUME ~OverrunAllowed, IInv, Exclusive, [Next]_vars
  PROVE  Exclusive'
<1> USE DEF table, history
<1>t. TypeOK /\ \A l \in Lanes : \A j \in held[l] : j \in Jobs /\ lease[j] > 0 /\ status[j] # "absent"
  BY DEF IInv, TypeOK, Exclusive
<1>1. ASSUME NEW r \in Jobs, NEW q, NEW delay, NEW source, NEW n,
             QueueEnqueue(r, q, delay, source, n), UNCHANGED <<held, att>>
      PROVE  Exclusive'
  <2>1. /\ \A j \in Jobs : status[j] # "absent" => status'[j] = status[j]
        /\ lease' = lease /\ attempts' = attempts
    BY <1>1, <1>t DEF QueueEnqueue, IsNextRow, TypeOK
  <2>2. \A l \in Lanes : \A j \in held[l] : status'[j] = status[j] /\ lease'[j] > 0
    BY <2>1, <1>t
  <2> QED BY <1>1, <2>1, <2>2, ExclusiveFrame
<1>2. ASSUME NEW q \in ClientQueues, NEW delay \in 0..MaxDelay, Enqueue(q, delay)
      PROVE  Exclusive'
  BY <1>1, <1>2 DEF Enqueue
<1>3. ASSUME NEW l \in Lanes, StartHandler(l) \/ HandlerCommits(l) \/ HandlerThrows(l) \/ ThrowsAfterCommit(l)
      PROVE  Exclusive'
  <2>1. UNCHANGED <<table, held, att>>
    BY <1>3 DEF StartHandler, HandlerCommits, HandlerThrows, ThrowsAfterCommit
  <2>2. \A m \in Lanes : \A j \in held[m] : status'[j] = status[j] /\ lease'[j] > 0
    BY <2>1, <1>t
  <2> QED BY <2>1, <2>2, ExclusiveFrame
<1>4. ASSUME NEW l \in Lanes, WriteDeadLetter(l) PROVE Exclusive'
  BY <1>1, <1>4 DEF WriteDeadLetter
<1>5. ASSUME NEW l \in Lanes, Complete(l) PROVE Exclusive'
  <2>1. PICK k \in Jobs :
          /\ IsCurrent(l, k)
          /\ status' = [status EXCEPT ![k] = "completed"]
          /\ lease' = [lease EXCEPT ![k] = 0]
          /\ held' = [held EXCEPT ![l] = @ \ {k}]
          /\ att' = [att EXCEPT ![l][k] = 0]
    BY <1>5 DEF Complete
  <2>2. /\ attempts' = attempts /\ k \in held[l]
        /\ \A m \in Lanes : m # l => held'[m] = held[m] /\ att'[m] = att[m]
        /\ held'[l] = held[l] \ {k}
        /\ \A j \in held'[l] : att'[l][j] = att[l][j]
        /\ \A j \in Jobs : j # k => status'[j] = status[j] /\ lease'[j] = lease[j]
    BY <1>5, <2>1, <1>t DEF TypeOK, Complete, IsCurrent
  <2> QED BY <2>2, <1>t, ExclusiveRelease
<1>6. ASSUME NEW l \in Lanes, MarkFailure(l) PROVE Exclusive'
  <2>1. PICK k \in Jobs :
          /\ IsCurrent(l, k)
          /\ status' = [status EXCEPT ![k] = FailedStatus(l, k)]
          /\ lease' = [lease EXCEPT ![k] = 0]
    BY <1>6 DEF MarkFailure
  <2>2. /\ attempts' = attempts /\ k \in held[l]
        /\ \A m \in Lanes : m # l => held'[m] = held[m] /\ att'[m] = att[m]
        /\ held'[l] = {}
        /\ \A j \in Jobs : j # k => status'[j] = status[j] /\ lease'[j] = lease[j]
    BY <1>6, <2>1, <1>t DEF TypeOK, MarkFailure, DropBatch, IsCurrent
  <2> QED BY <2>2, <1>t, ExclusiveRelease
<1>7. ASSUME NEW l \in Lanes, Crash(l) PROVE Exclusive'
  <2>1. /\ attempts' = attempts /\ status' = status /\ lease' = lease
        /\ \A m \in Lanes : m # l => held'[m] = held[m] /\ att'[m] = att[m]
        /\ held'[l] = {}
    BY <1>7, <1>t DEF TypeOK, Crash, DropBatch
  <2> QED BY <2>1, <1>t, ExclusiveRelease
<1>8. CASE Tick
  <2>1. /\ \A l \in Lanes : \A j \in held[l] : lease[j] > 1
        /\ lease' = [j \in Jobs |-> Elapse(lease[j])]
        /\ held' = held /\ att' = att /\ attempts' = attempts /\ status' = status
    BY <1>8 DEF Tick
  <2>2. \A t \in Nat : t > 1 => Elapse(t) > 0
    BY DEF Elapse
  <2>3. \A l \in Lanes : \A j \in held[l] : status'[j] = status[j] /\ lease'[j] > 0
    <3> SUFFICES ASSUME NEW l \in Lanes, NEW j \in held[l] PROVE lease'[j] > 0
      BY <2>1
    <3>1. j \in Jobs /\ lease[j] \in Nat /\ lease[j] > 1
      BY <2>1, <1>t DEF TypeOK
    <3> QED BY <2>1, <2>2, <3>1
  <2> QED BY <2>1, <2>3, ExclusiveFrame
<1>9. CASE UNCHANGED vars
  BY <1>9 DEF vars, Exclusive
<1>10. ASSUME NEW l \in Lanes, Claim(l) PROVE Exclusive'
  BY <1>10, <1>t, ExclusiveClaim
<1> QED BY <1>2, <1>3, <1>4, <1>5, <1>6, <1>7, <1>8, <1>9, <1>10 DEF Next, LaneStep

(***************************************************************************)
(* While no lane outlives its leases, every lane has the jobs it holds to  *)
(* itself, under the attempt number the row counts.                        *)
(***************************************************************************)
THEOREM LeaseIsExclusive ==
  ASSUME ~OverrunAllowed
  PROVE  Spec => []Exclusive
<1>1. IInv /\ Exclusive /\ [Next]_vars => Exclusive'
  BY ExclusiveStep
<1> QED BY <1>1, ExclusiveInit, Invariance, PTL DEF Spec
-----------------------------------------------------------------------------
(* What a step does to the status of a job, in terms of its old status.    *)
LEMMA StatusStep ==
  ASSUME IInv, Exclusive, [Next]_vars, NEW j \in Jobs, Settled(j)
  PROVE  status'[j] = status[j]
<1> USE DEF table, history
<1>t. TypeOK /\ status[j] # "absent" /\ ~Claimable(j) /\ \A l \in Lanes : j \notin held[l]
  BY DEF IInv, Exclusive, Settled, Claimable
<1>1. ASSUME NEW r \in Jobs, NEW q, NEW delay, NEW source, NEW n, QueueEnqueue(r, q, delay, source, n)
      PROVE  status'[j] = status[j]
  BY <1>1, <1>t DEF QueueEnqueue, IsNextRow, TypeOK
<1>2. ASSUME NEW q \in ClientQueues, NEW delay \in 0..MaxDelay, Enqueue(q, delay)
      PROVE  status'[j] = status[j]
  BY <1>1, <1>2 DEF Enqueue
<1>3. ASSUME NEW l \in Lanes, LaneStep(l) \/ Crash(l)
      PROVE  status'[j] = status[j]
  <2>1. CASE Claim(l)
    BY <2>1, <1>t DEF Claim, Lowest
  <2>2. CASE WriteDeadLetter(l)
    BY <2>2, <1>1 DEF WriteDeadLetter
  <2>3. CASE Complete(l)
    BY <2>3, <1>t DEF Complete, IsCurrent, TypeOK
  <2>4. CASE MarkFailure(l)
    BY <2>4, <1>t DEF MarkFailure, IsCurrent, TypeOK
  <2>5. CASE StartHandler(l) \/ HandlerCommits(l) \/ HandlerThrows(l) \/ ThrowsAfterCommit(l) \/ Crash(l)
    BY <2>5 DEF StartHandler, HandlerCommits, HandlerThrows, ThrowsAfterCommit, Crash
  <2> QED BY <1>3, <2>1, <2>2, <2>3, <2>4, <2>5 DEF LaneStep
<1>4. CASE Tick \/ UNCHANGED vars
  BY <1>4 DEF Tick, vars
<1> QED BY <1>2, <1>3, <1>4 DEF Next

(* While no lane outlives its leases, a job that was completed, failed or  *)
(* dead-lettered is never reopened by a late statement.                    *)
THEOREM SettledStaysSettled ==
  ASSUME ~OverrunAllowed
  PROVE  Spec => SettledIsFinal
<1>1. IInv /\ Exclusive /\ [Next]_vars => [\A j \in Jobs : Settled(j) => status'[j] = status[j]]_vars
  BY StatusStep
<1> QED BY <1>1, LeaseIsExclusive, Invariance, PTL DEF Spec, SettledIsFinal
-----------------------------------------------------------------------------
(* The refinement: state function of DurableQueue, written out. *)
Outside == [j \in Jobs |-> OutsideState(status[j])]

LEMMA OutsideChanges ==
  ASSUME TypeOK, TypeOK', NEW j \in Jobs, status' = [status EXCEPT ![j] = status'[j]]
  PROVE  Outside' = [Outside EXCEPT ![j] = OutsideState(status'[j])]
BY DEF Outside, TypeOK

LEMMA SubmitStep ==
  ASSUME IInv, IInv', NEW r \in Jobs, NEW q, NEW delay, NEW source \in Jobs \cup {NoJob}, NEW n,
         QueueEnqueue(r, q, delay, source, n), commits' = commits,
         source = NoJob \/ Open(source)
  PROVE  Promise!Submit(r, source)
<1>1. /\ status[r] = "absent" /\ status' = [status EXCEPT ![r] = "pending"]
      /\ letterOf' = [letterOf EXCEPT ![r] = source]
  BY DEF QueueEnqueue, IsNextRow
<1>2. status'[r] = "pending"
  BY <1>1 DEF IInv, TypeOK
<1>3. Outside' = [Outside EXCEPT ![r] = "open"]
  BY <1>1, <1>2, OutsideChanges DEF IInv, OutsideState
<1>4. Outside[r] = "none" /\ (source = NoJob \/ Outside[source] = "open")
  BY <1>1 DEF Outside, OutsideState, Open
<1> QED BY <1>1, <1>3, <1>4 DEF Promise!Submit, Outside

LEMMA EndStep ==
  ASSUME IInv, IInv', NEW l \in Lanes, NEW j \in Jobs, IsCurrent(l, j), Exclusive,
         status' = [status EXCEPT ![j] = status'[j]], UNCHANGED <<letterOf, commits>>,
         status'[j] \in {"pending", "completed", "failed", "dlq"}
  PROVE  (\E how \in Promise!Ended : Promise!End(j, how)) \/ UNCHANGED <<Outside, letterOf, commits>>
<1>1. Outside' = [Outside EXCEPT ![j] = OutsideState(status'[j])]
  BY OutsideChanges DEF IInv
<1>2. status[j] = "processing" /\ Outside[j] = "open"
  BY DEF Exclusive, IsCurrent, Outside, OutsideState
<1>3. CASE status'[j] = "pending"
  BY <1>1, <1>2, <1>3 DEF OutsideState, Outside
<1>4. CASE status'[j] # "pending"
  <2> DEFINE how == OutsideState(status'[j])
  <2>1. how \in Promise!Ended
    BY <1>4 DEF OutsideState, Promise!Ended
  <2>2. how = "done" => commits[j] > 0
    BY DEF OutsideState, IInv, SettledForCause
  <2>3. how = "lettered" => \E r \in Jobs : letterOf[r] = j
    BY DEF OutsideState, IInv, DlqHasLetter
  <2>4. Promise!End(j, how)
    BY <1>1, <1>2, <2>2, <2>3 DEF Promise!End, Outside
  <2> QED BY <2>1, <2>4
<1> QED BY <1>3, <1>4

LEMMA QueueStep ==
  ASSUME IInv, IInv', Exclusive, [Next]_vars
  PROVE  [Promise!Next]_<<Outside, letterOf, commits>>
<1> USE DEF table, history
<1>t. TypeOK /\ TypeOK' /\ NoJob \in Jobs \cup {NoJob}
  BY DEF IInv
<1>1. ASSUME NEW q \in ClientQueues, NEW delay \in 0..MaxDelay, Enqueue(q, delay)
      PROVE  \E r \in Jobs : Promise!Submit(r, NoJob)
  BY <1>1, <1>t, SubmitStep DEF Enqueue
<1>2. ASSUME NEW l \in Lanes, WriteDeadLetter(l)
      PROVE  \E r, j \in Jobs : Promise!Submit(r, j)
  <2>1. PICK j \in Jobs, r \in Jobs : IsCurrent(l, j) /\ QueueEnqueue(r, DlqOf[queue[j]], 0, j, att[l][j])
    BY <1>2 DEF WriteDeadLetter
  <2>2. Open(j) /\ commits' = commits /\ j \in Jobs \cup {NoJob}
    BY <1>2, <2>1 DEF WriteDeadLetter, Exclusive, IsCurrent, Open
  <2>3. Promise!Submit(r, j)
    BY <2>1, <2>2, SubmitStep
  <2> QED BY <2>3
<1>3. ASSUME NEW l \in Lanes, HandlerCommits(l)
      PROVE  \E j \in Jobs : Promise!Commit(j)
  <2>1. PICK j \in Jobs : IsCurrent(l, j) /\ commits' = [commits EXCEPT ![j] = @ + 1]
    BY <1>3 DEF HandlerCommits
  <2>2. Outside[j] = "open" /\ UNCHANGED <<status, letterOf>>
    BY <1>3, <2>1 DEF HandlerCommits, Exclusive, IsCurrent, Outside, OutsideState
  <2> QED BY <2>1, <2>2 DEF Promise!Commit, Outside
<1>4. ASSUME NEW l \in Lanes, Complete(l)
      PROVE  Promise!Next \/ UNCHANGED <<Outside, letterOf, commits>>
  <2>1. PICK j \in Jobs : IsCurrent(l, j) /\ status' = [status EXCEPT ![j] = "completed"]
    BY <1>4 DEF Complete
  <2>2. status'[j] = "completed"
    BY <2>1, <1>t DEF TypeOK
  <2>3. UNCHANGED <<letterOf, commits>>
    BY <1>4 DEF Complete
  <2> QED BY <2>1, <2>2, <2>3, EndStep DEF Promise!Next
<1>5. ASSUME NEW l \in Lanes, MarkFailure(l)
      PROVE  Promise!Next \/ UNCHANGED <<Outside, letterOf, commits>>
  <2>1. PICK j \in Jobs : IsCurrent(l, j) /\ status' = [status EXCEPT ![j] = FailedStatus(l, j)]
    BY <1>5 DEF MarkFailure
  <2>2. status'[j] = FailedStatus(l, j) /\ FailedStatus(l, j) \in {"pending", "failed", "dlq"}
    BY <2>1, <1>t DEF TypeOK, FailedStatus
  <2>3. UNCHANGED <<letterOf, commits>>
    BY <1>5 DEF MarkFailure
  <2> QED BY <2>1, <2>2, <2>3, EndStep DEF Promise!Next
<1>6. ASSUME NEW l \in Lanes, Claim(l)
      PROVE  UNCHANGED <<Outside, letterOf, commits>>
  <2>1. \A j \in Jobs :
          status'[j] = status[j] \/ (status[j] \in {"pending", "processing"} /\ status'[j] = "processing")
    BY <1>6 DEF Claim, Claimable, Lowest
  <2>2. \A j \in Jobs : OutsideState(status'[j]) = OutsideState(status[j])
    BY <2>1 DEF OutsideState
  <2> QED BY <1>6, <2>2 DEF Claim, Outside
<1>7. ASSUME NEW l \in Lanes,
             StartHandler(l) \/ HandlerThrows(l) \/ ThrowsAfterCommit(l) \/ Crash(l)
      PROVE  UNCHANGED <<Outside, letterOf, commits>>
  BY <1>7 DEF StartHandler, HandlerThrows, ThrowsAfterCommit, Crash, Outside
<1>8. CASE Tick \/ UNCHANGED vars
  BY <1>8 DEF Tick, vars, Outside
<1>9. (\E r \in Jobs : Promise!Submit(r, NoJob)) \/ (\E r, j \in Jobs : Promise!Submit(r, j))
        \/ (\E j \in Jobs : Promise!Commit(j)) => Promise!Next
  BY <1>t DEF Promise!Next
<1> QED BY <1>1, <1>2, <1>3, <1>4, <1>5, <1>6, <1>7, <1>8, <1>9 DEF Next, LaneStep

(***************************************************************************)
(* While no lane outlives its leases, the table, the clients and all the   *)
(* lanes, with their crashes and retries, implement DurableQueue.          *)
(***************************************************************************)
THEOREM QueueKeepsPromise ==
  ASSUME ~OverrunAllowed
  PROVE  Spec => KeepsPromise
<1>1. Init => Promise!Init
  BY DEF Init, Promise!Init, OutsideState
<1>2. IInv /\ IInv' /\ Exclusive /\ [Next]_vars
        => [Promise!Next]_<<[j \in Jobs |-> OutsideState(status[j])], letterOf, commits>>
  BY QueueStep DEF Outside
<1> QED BY <1>1, <1>2, LeaseIsExclusive, Invariance, PTL DEF Spec, KeepsPromise, Promise!Spec
-----------------------------------------------------------------------------
(***************************************************************************)
(* The ledger of commits.  CommitsAccounted counts the lanes between the   *)
(* commit and the completion of a job; a lane that has its jobs to itself  *)
(* is the only such lane, so the count is one or none.                     *)
(***************************************************************************)
Closing(l, j) == phase[l] = "committed" /\ IsCurrent(l, j)
BeingClosed(j) == IF \E l \in Lanes : Closing(l, j) THEN 1 ELSE 0
Closed(j) == IF status[j] = "completed" THEN 1 ELSE 0

Ledger == \A j \in Jobs : commits[j] = orphans[j] + BeingClosed(j) + Closed(j)

LEMMA LedgerCounts == Exclusive /\ Ledger => CommitsAccounted
<1> SUFFICES ASSUME Exclusive, Ledger, NEW j \in Jobs
             PROVE  commits[j] = orphans[j] + Cardinality({l \in Lanes : Closing(l, j)}) + Closed(j)
  BY DEF CommitsAccounted, Closing, Closed
<1> DEFINE closing == {l \in Lanes : Closing(l, j)}
<1>1. Cardinality(closing) = BeingClosed(j)
  <2>1. CASE \E l \in Lanes : Closing(l, j)
    <3>1. PICK l \in Lanes : Closing(l, j)
      BY <2>1
    <3>2. closing = {l}
      BY <3>1 DEF Closing, IsCurrent, Exclusive
    <3> QED BY <3>2, <2>1, FS_Singleton DEF BeingClosed
  <2>2. CASE ~\E l \in Lanes : Closing(l, j)
    <3>1. closing = {}
      BY <2>2
    <3> QED BY <3>1, <2>2, FS_EmptySet DEF BeingClosed
  <2> QED BY <2>1, <2>2
<1> QED BY <1>1 DEF Ledger

(* Steps that neither commit, complete nor close. *)
LEMMA LedgerFrame ==
  ASSUME Ledger, UNCHANGED <<commits, orphans>>,
         \A j \in Jobs : status'[j] = "completed" <=> status[j] = "completed",
         \A l \in Lanes, j \in Jobs : Closing(l, j)' <=> Closing(l, j)
  PROVE  Ledger'
BY DEF Ledger, BeingClosed, Closed

(* A lane that moves on with its current job k changes the account of k    *)
(* and of no other job.                                                    *)
LEMMA LedgerMove ==
  ASSUME TypeOK, Exclusive, Ledger, NEW l \in Lanes, NEW k \in Jobs, IsCurrent(l, k),
         \A m \in Lanes : m # l => held'[m] = held[m] /\ phase'[m] = phase[m],
         phase'[l] # "committed" \/ held'[l] = held[l],
         \A j \in Jobs : j # k =>
           commits'[j] = commits[j] /\ orphans'[j] = orphans[j] /\ status'[j] = status[j],
         commits'[k] = orphans'[k] + (IF Closing(l, k)' THEN 1 ELSE 0) + Closed(k)'
  PROVE  Ledger'
<1>1. \A m \in Lanes, j \in Jobs : m # l => (Closing(m, j)' <=> Closing(m, j))
  BY DEF Closing, IsCurrent
<1>2. \A j \in Jobs : j # k => ~Closing(l, j) /\ ~Closing(l, j)'
  <2> SUFFICES ASSUME NEW j \in Jobs, j # k PROVE ~Closing(l, j) /\ ~Closing(l, j)'
    OBVIOUS
  <2>1. ~IsCurrent(l, j)
    BY CurrentUnique
  <2>2. held'[l] = held[l] => ~IsCurrent(l, j)'
    BY <2>1 DEF IsCurrent
  <2> QED BY <2>1, <2>2 DEF Closing
<1>3. \A m \in Lanes : m # l => ~Closing(m, k)
  BY DEF Closing, IsCurrent, Exclusive
<1>4. BeingClosed(k)' = IF Closing(l, k)' THEN 1 ELSE 0
  BY <1>1, <1>3 DEF BeingClosed
<1>5. \A j \in Jobs : j # k => BeingClosed(j)' = BeingClosed(j) /\ Closed(j)' = Closed(j)
  BY <1>1, <1>2 DEF BeingClosed, Closed
<1> QED BY <1>4, <1>5 DEF Ledger

LEMMA LedgerInit == Init => Ledger
BY DEF Init, Ledger, BeingClosed, Closed, Closing

(* A claim takes no completed job, into hands that were empty. *)
LEMMA LedgerClaim ==
  ASSUME IInv, Ledger, NEW l \in Lanes, Claim(l)
  PROVE  Ledger'
<1>1. \A j \in Jobs : status'[j] = "completed" <=> status[j] = "completed"
  BY DEF Claim, Lowest, Claimable
<1>2. /\ phase[l] = "idle" /\ phase'[l] = "ready"
      /\ \A m \in Lanes : m # l => phase'[m] = phase[m] /\ held'[m] = held[m]
  BY DEF Claim, IInv, TypeOK
<1>3. \A m \in Lanes, j \in Jobs : Closing(m, j)' <=> Closing(m, j)
  BY <1>2 DEF Closing, IsCurrent
<1> QED BY <1>1, <1>3, LedgerFrame DEF Claim, history

LEMMA LedgerStep ==
  ASSUME IInv, Exclusive, Ledger, [Next]_vars
  PROVE  Ledger'
<1> USE DEF table, history
<1>t. /\ TypeOK
      /\ \A j \in Jobs : commits[j] \in Nat /\ orphans[j] \in Nat
      /\ \A l \in Lanes : \A j \in Jobs : IsCurrent(l, j) =>
           status[j] = "processing" /\ \A m \in Lanes : Closing(m, j) => m = l
  BY DEF IInv, TypeOK, Exclusive, IsCurrent, Closing
<1>1. ASSUME NEW r \in Jobs, NEW q, NEW delay, NEW source, NEW n,
             QueueEnqueue(r, q, delay, source, n)
      PROVE  \A j \in Jobs : status'[j] = "completed" <=> status[j] = "completed"
  BY <1>1, <1>t DEF QueueEnqueue, IsNextRow, TypeOK
<1>2. ASSUME NEW q \in ClientQueues, NEW delay \in 0..MaxDelay, Enqueue(q, delay)
      PROVE  Ledger'
  <2>1. UNCHANGED <<phase, held, commits, orphans>>
    BY <1>2 DEF Enqueue
  <2>2. \A l \in Lanes, j \in Jobs : Closing(l, j)' <=> Closing(l, j)
    BY <2>1 DEF Closing, IsCurrent
  <2> QED BY <1>1, <1>2, <2>1, <2>2, LedgerFrame DEF Enqueue
<1>3. ASSUME NEW l \in Lanes, StartHandler(l) \/ HandlerThrows(l) \/ WriteDeadLetter(l)
      PROVE  Ledger'
  <2>1. UNCHANGED <<held, commits, orphans>>
    BY <1>3 DEF StartHandler, HandlerThrows, WriteDeadLetter
  <2>2. /\ phase[l] # "committed" /\ phase'[l] # "committed"
        /\ \A m \in Lanes : m # l => phase'[m] = phase[m]
    BY <1>3, <1>t DEF StartHandler, HandlerThrows, EnterFailure, WriteDeadLetter, TypeOK
  <2>3. \A m \in Lanes, j \in Jobs : Closing(m, j)' <=> Closing(m, j)
    BY <2>1, <2>2 DEF Closing, IsCurrent
  <2>4. \A j \in Jobs : status'[j] = "completed" <=> status[j] = "completed"
    BY <1>1, <1>3 DEF StartHandler, HandlerThrows, WriteDeadLetter
  <2> QED BY <2>1, <2>3, <2>4, LedgerFrame
<1>4. ASSUME NEW l \in Lanes, HandlerCommits(l) PROVE Ledger'
  <2>1. PICK k \in Jobs : IsCurrent(l, k) /\ commits' = [commits EXCEPT ![k] = @ + 1]
    BY <1>4 DEF HandlerCommits
  <2>2. /\ phase[l] = "running" /\ phase' = [phase EXCEPT ![l] = "committed"]
        /\ UNCHANGED <<status, held, orphans>>
    BY <1>4 DEF HandlerCommits
  <2>3. /\ phase'[l] = "committed" /\ \A m \in Lanes : m # l => phase'[m] = phase[m]
        /\ commits'[k] = commits[k] + 1 /\ \A j \in Jobs : j # k => commits'[j] = commits[j]
    BY <2>1, <2>2, <1>t DEF TypeOK
  <2>4. commits[k] = orphans[k]
    BY <2>1, <2>2, <1>t DEF Ledger, BeingClosed, Closed, Closing
  <2>5. Closing(l, k)' /\ Closed(k)' = 0
    BY <2>1, <2>2, <2>3, <1>t DEF Closing, Closed, IsCurrent
  <2>6. commits'[k] = orphans'[k] + (IF Closing(l, k)' THEN 1 ELSE 0) + Closed(k)'
    BY <2>2, <2>3, <2>4, <2>5, <1>t
  <2> QED BY <2>1, <2>2, <2>3, <2>6, <1>t, LedgerMove
<1>5. ASSUME NEW l \in Lanes, Complete(l) PROVE Ledger'
  <2>1. PICK k \in Jobs :
          /\ IsCurrent(l, k) /\ status' = [status EXCEPT ![k] = "completed"]
          /\ held' = [held EXCEPT ![l] = @ \ {k}]
    BY <1>5 DEF Complete
  <2>2. /\ phase[l] = "committed" /\ UNCHANGED <<commits, orphans>>
        /\ phase' = [phase EXCEPT ![l] = IF held'[l] = {} THEN "idle" ELSE "ready"]
    BY <1>5 DEF Complete
  <2>3. /\ phase'[l] # "committed" /\ status'[k] = "completed"
        /\ \A m \in Lanes : m # l => held'[m] = held[m] /\ phase'[m] = phase[m]
        /\ \A j \in Jobs : j # k => status'[j] = status[j]
    BY <2>1, <2>2, <1>t DEF TypeOK
  <2>4. commits[k] = orphans[k] + 1
    BY <2>1, <2>2, <1>t DEF Ledger, BeingClosed, Closed, Closing
  <2>5. ~Closing(l, k)' /\ Closed(k)' = 1
    BY <2>3 DEF Closing, Closed
  <2>6. commits'[k] = orphans'[k] + (IF Closing(l, k)' THEN 1 ELSE 0) + Closed(k)'
    BY <2>2, <2>4, <2>5, <1>t
  <2> QED BY <2>1, <2>2, <2>3, <2>6, <1>t, LedgerMove
<1>6. ASSUME NEW l \in Lanes, ThrowsAfterCommit(l) PROVE Ledger'
  <2>1. PICK k \in Jobs :
          IsCurrent(l, k) /\ EnterFailure(l, k) /\ orphans' = [orphans EXCEPT ![k] = @ + 1]
    BY <1>6 DEF ThrowsAfterCommit
  <2>2. phase[l] = "committed" /\ UNCHANGED <<status, held, commits>>
    BY <1>6 DEF ThrowsAfterCommit
  <2>3. /\ phase'[l] # "committed" /\ \A m \in Lanes : m # l => phase'[m] = phase[m]
        /\ orphans'[k] = orphans[k] + 1 /\ \A j \in Jobs : j # k => orphans'[j] = orphans[j]
    BY <2>1, <2>2, <1>t DEF TypeOK, EnterFailure
  <2>4. commits[k] = orphans[k] + 1
    BY <2>1, <2>2, <1>t DEF Ledger, BeingClosed, Closed, Closing
  <2>5. ~Closing(l, k)' /\ Closed(k)' = 0
    BY <2>1, <2>2, <2>3, <1>t DEF Closing, Closed
  <2>6. commits'[k] = orphans'[k] + (IF Closing(l, k)' THEN 1 ELSE 0) + Closed(k)'
    BY <2>2, <2>3, <2>4, <2>5, <1>t
  <2> QED BY <2>1, <2>2, <2>3, <2>6, <1>t, LedgerMove
<1>7. ASSUME NEW l \in Lanes, MarkFailure(l) PROVE Ledger'
  <2>1. PICK k \in Jobs : IsCurrent(l, k) /\ status' = [status EXCEPT ![k] = FailedStatus(l, k)]
    BY <1>7 DEF MarkFailure
  <2>2. phase[l] = "marking" /\ DropBatch(l) /\ UNCHANGED <<commits, orphans>>
    BY <1>7 DEF MarkFailure
  <2>3. /\ phase'[l] # "committed" /\ status'[k] # "completed"
        /\ \A m \in Lanes : m # l => held'[m] = held[m] /\ phase'[m] = phase[m]
        /\ \A j \in Jobs : j # k => status'[j] = status[j]
    BY <2>1, <2>2, <1>t DEF TypeOK, DropBatch, FailedStatus
  <2>4. commits[k] = orphans[k]
    BY <2>1, <2>2, <1>t DEF Ledger, BeingClosed, Closed, Closing
  <2>5. ~Closing(l, k)' /\ Closed(k)' = 0
    BY <2>3 DEF Closing, Closed
  <2>6. commits'[k] = orphans'[k] + (IF Closing(l, k)' THEN 1 ELSE 0) + Closed(k)'
    BY <2>2, <2>4, <2>5, <1>t
  <2> QED BY <2>1, <2>2, <2>3, <2>6, <1>t, LedgerMove
<1>8. ASSUME NEW l \in Lanes, Crash(l) PROVE Ledger'
  <2>1. /\ DropBatch(l) /\ UNCHANGED <<status, commits>>
        /\ orphans' = [j \in Jobs |-> IF Closing(l, j) THEN orphans[j] + 1 ELSE orphans[j]]
    BY <1>8 DEF Crash, Closing
  <2>2. /\ phase'[l] # "committed"
        /\ \A m \in Lanes : m # l => held'[m] = held[m] /\ phase'[m] = phase[m]
    BY <2>1, <1>t DEF TypeOK, DropBatch, Closed
  <2>3. \A m \in Lanes, j \in Jobs : m # l => (Closing(m, j)' <=> Closing(m, j))
    BY <2>2 DEF Closing, IsCurrent
  <2>4. \A j \in Jobs : ~Closing(l, j)'
    BY <2>2 DEF Closing
  <2> SUFFICES ASSUME NEW j \in Jobs PROVE commits'[j] = orphans'[j] + BeingClosed(j)' + Closed(j)'
    BY DEF Ledger
  <2>5. commits[j] = orphans[j] + BeingClosed(j) + Closed(j) /\ Closed(j)' = Closed(j) /\ Closed(j) \in Nat
    BY <2>1 DEF Ledger, Closed
  <2>6. CASE Closing(l, j)
    <3>1. BeingClosed(j) = 1 /\ orphans'[j] = orphans[j] + 1
      BY <2>1, <2>6 DEF BeingClosed
    <3>2. BeingClosed(j)' = 0
      BY <2>3, <2>4, <2>6, <1>t DEF BeingClosed, Closing
    <3> QED BY <2>1, <2>5, <3>1, <3>2, <1>t
  <2>7. CASE ~Closing(l, j)
    <3>1. BeingClosed(j)' = BeingClosed(j) /\ orphans'[j] = orphans[j]
      BY <2>1, <2>3, <2>4, <2>7 DEF BeingClosed
    <3> QED BY <2>1, <2>5, <3>1
  <2> QED BY <2>6, <2>7
<1>9. CASE Tick \/ UNCHANGED vars
  <2>1. UNCHANGED <<status, phase, held, commits, orphans>>
    BY <1>9 DEF Tick, vars
  <2>2. \A l \in Lanes, j \in Jobs : Closing(l, j)' <=> Closing(l, j)
    BY <2>1 DEF Closing, IsCurrent
  <2> QED BY <2>1, <2>2, LedgerFrame
<1>10. ASSUME NEW l \in Lanes, Claim(l) PROVE Ledger'
  BY <1>10, LedgerClaim
<1> QED BY <1>2, <1>3, <1>4, <1>5, <1>6, <1>7, <1>8, <1>9, <1>10 DEF Next, LaneStep

(***************************************************************************)
(* While no lane outlives its leases, a handler's transaction commits once *)
(* for a job, and once more only for each lane that stopped or failed      *)
(* between the commit and completeQueueJob.                                *)
(***************************************************************************)
THEOREM CommitsAreAccounted ==
  ASSUME ~OverrunAllowed
  PROVE  Spec => []CommitsAccounted
<1>1. IInv /\ Exclusive /\ Ledger /\ [Next]_vars => Ledger'
  BY LedgerStep
<1> QED BY <1>1, LedgerInit, LedgerCounts, LeaseIsExclusive, Invariance, PTL DEF Spec
=============================================================================
