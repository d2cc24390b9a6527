---------------------------- MODULE MCScheduler ----------------------------
(***************************************************************************)
(* An instance of Scheduler: a job that must run alone, one that is free to *)
(* run at any time, and three that compete for groups.  Without a limit     *)
(* three jobs could run at once, so that a concurrency of two binds.        *)
(***************************************************************************)
EXTENDS Scheduler

CONSTANTS alone, pairA, pairB, both, free

MCJobs == {alone, pairA, pairB, both, free}
MCParallelSafe == MCJobs \ {alone}
MCGroups == 1..3
MCJobGroups ==
  [j \in MCJobs |->
     CASE j = pairA -> {1}
       [] j = pairB -> {2, 3}
       [] j = both  -> {1, 2, 3}
       [] j = alone -> {2}
       [] OTHER     -> {}]

=============================================================================
