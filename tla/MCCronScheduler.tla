-------------------------- MODULE MCCronScheduler --------------------------
(* Small instances of CronScheduler: ticks are the slots' granularity.     *)
EXTENDS CronScheduler, TLC

CONSTANTS rollup,                   \* a schedule
          everyTick, everyOther,    \* two expressions
          older, old, new           \* versions

MCOne == {rollup}
MCSlotsOf == (everyTick :> 1..MaxTime) @@ (everyOther :> {t \in 1..MaxTime : t % 2 = 0})

(* One version. *)
MCSame == new :> [s \in Schedules |-> everyTick]

(* The versions before lack a schedule, or have another expression for it. *)
MCHistory == (older :> [s \in Schedules |-> NoExpr]) @@ (old :> [s \in Schedules |-> everyOther])
               @@ (new :> [s \in Schedules |-> everyTick])

MCSymmetry == Permutations(Procs) \cup Permutations(Tokens)
=============================================================================
