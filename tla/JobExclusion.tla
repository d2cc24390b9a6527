---------------------------- MODULE JobExclusion ----------------------------
(***************************************************************************)
(* What the orchestrator promises about overlapping jobs, with no mention   *)
(* of the locks that keep the promise: a job that is not parallel-safe runs *)
(* alone, two jobs that share an exclusivity group never overlap, at most   *)
(* Slots jobs run at once, every job runs exactly once, and the caller      *)
(* regains control only after the last one.  (Comment of schedule in        *)
(* internal/orchestrator/orchestrator.go.)                                  *)
(***************************************************************************)
EXTENDS Integers, FiniteSets

CONSTANTS
  Jobs,          \* one job per automation tool with selected tests
  ParallelSafe,  \* the jobs that may overlap others
  JobGroups,     \* JobGroups[j]: the exclusivity groups of job j
  Slots          \* the largest number of jobs that may run at once

VARIABLES
  phase,     \* phase[j]: "waiting", "running" or "finished"
  returned   \* schedule has returned to its caller

vars == <<phase, returned>>

Running == {j \in Jobs : phase[j] = "running"}

\* Two different jobs may run at the same time.
MayOverlap(i, j) ==
  /\ i \in ParallelSafe
  /\ j \in ParallelSafe
  /\ JobGroups[i] \cap JobGroups[j] = {}

Init ==
  /\ phase = [j \in Jobs |-> "waiting"]
  /\ returned = FALSE

Start(j) ==
  /\ phase[j] = "waiting"
  /\ \A i \in Running : MayOverlap(i, j)
  /\ Cardinality(Running \cup {j}) <= Slots
  /\ phase' = [phase EXCEPT ![j] = "running"]
  /\ UNCHANGED returned

Finish(j) ==
  /\ phase[j] = "running"
  /\ phase' = [phase EXCEPT ![j] = "finished"]
  /\ UNCHANGED returned

Return ==
  /\ \A j \in Jobs : phase[j] = "finished"
  /\ returned' = TRUE
  /\ UNCHANGED phase

Next ==
  \/ \E j \in Jobs : Start(j) \/ Finish(j)
  \/ Return

Spec == Init /\ [][Next]_vars

\* Some job always gets further: no scheduling state is a dead end.
FairSpec == Spec /\ WF_vars(Next)

=============================================================================
