------------------------- MODULE JobPipelineProofs -------------------------
(***************************************************************************)
(* Theorems about MCPipeline and its models, for any values of their        *)
(* constants: the jobs and their stages (JobPipeline), the files beside     *)
(* them, one execution up to its verdicts (AS, Assessment) and the way from *)
(* the catalog to the jobs (SE, Selection).  Each has an invariant of its   *)
(* own: IInv, AssessInv and SelectInv.                                      *)
(***************************************************************************)
EXTENDS MCPipeline, FiniteSetTheorems, TLAPS

\* Where the goroutines are in each phase of Run; no execution begins in the first.
PhaseInv ==
  /\ main = "setup" => \A j \in Jobs : pc[j] = "idle"
  /\ main = "setup" => \A e \in Runnable : cut[e] = "no"
  /\ main = "jobs" => next > Len(Scopes)
  /\ main \in {"takedown", "returned"} => \A j \in Jobs : pc[j] = "finished"

\* A job runs its own executions, which are still on the schedule.
OwnInv ==
  \A j \in Jobs : current[j] # 0 => JobOf[current[j]] = j /\ current[j] \in scorable

\* While executions are to be run, those on the schedule have the setups run so far.
SetupInv ==
  main \in {"setup", "jobs"} =>
    \A s \in DOMAIN Scopes : s < next =>
      \A e \in scorable \cap Scopes[s] : s \in up

\* Only what is between its first stage and its Teardown can have left something.
DirtyInv ==
  \A j \in Jobs : dirty[j] => pc[j] \in {"stage", "grade", "settle", "teardown"}

\* Nothing has cut short an execution that has not begun, and only a cancellation
\* cuts short as one.
CutInv ==
  \A e \in Runnable :
    /\ record[e] = "queued" => cut[e] = "no"
    /\ cut[e] = "cancel" => cancelled

\* Until the verdicts are settled a limit that came first is noted as expired; later
\* it is the result, unless the run was cancelled.
LimitInv ==
  \A j \in Jobs : current[j] # 0 =>
    /\ Working(j) /\ expired[j] => cut[current[j]] = "limit"
    /\ cut[current[j]] = "limit" /\ Working(j) => expired[j]
    /\ cut[current[j]] = "limit" /\ pc[j] \in {"teardown", "report"} /\ ~cancelled =>
         result[j] = "timeout"
    /\ result[j] = "timeout" => cut[current[j]] = "limit"

IInv ==
  /\ TypeOK
  /\ PhaseInv
  /\ OwnInv
  /\ SetupInv
  /\ DirtyInv
  /\ CutInv
  /\ LimitInv
  /\ OutcomeTellsWhy

-----------------------------------------------------------------------------
LEMMA Constants ==
  ASSUME PipelineAssumption
  PROVE  /\ Len(Scopes) \in Nat /\ DOMAIN Scopes = 1..Len(Scopes)
         /\ \A s \in DOMAIN Scopes : Scopes[s] \subseteq Runnable
         /\ Len(Stages) \in Nat
         /\ 0 \notin Runnable /\ Runnable \subseteq Nat
         /\ \A e \in Runnable : JobOf[e] \in Jobs
         /\ NamedVariants \subseteq Runnable
  BY DEF PipelineAssumption

LEMMA InitIInv ==
  ASSUME PipelineAssumption, Init
  PROVE  IInv
  <1> USE Constants DEF Init
  <1>1. TypeOK
    <2>0. cancelled \in BOOLEAN
      BY Zenon
    <2>1. /\ main = "setup" /\ next \in 1..(Len(Scopes) + 1)
          /\ up \subseteq DOMAIN Scopes /\ scorable \subseteq Runnable
      OBVIOUS
    <2>2. /\ record \in [Runnable -> {"queued", "running", "completed", "aborted"}]
          /\ verdict \in [Runnable -> {"none", "graded", "error", "timeout"}]
          /\ cut \in [Runnable -> {"no", "limit", "cancel"}]
      OBVIOUS
    <2>3. /\ pc \in [Jobs -> PCs] /\ current \in [Jobs -> Runnable \cup {0}]
          /\ stage \in [Jobs -> Nat] /\ expired \in [Jobs -> BOOLEAN]
      BY DEF PCs
    <2>4. /\ result \in [Jobs -> {"none", "graded", "error", "timeout"}]
          /\ dirty \in [Jobs -> BOOLEAN]
      OBVIOUS
    <2>5. \A j \in Jobs : pc[j] = "idle" /\ current[j] = 0
      OBVIOUS
    <2>6. QED
      BY ONLY <2>0, <2>1, <2>2, <2>3, <2>4, <2>5 DEF TypeOK
  <1>2. PhaseInv /\ OwnInv /\ SetupInv /\ DirtyInv
    BY DEF PhaseInv, OwnInv, SetupInv, DirtyInv
  <1>3. CutInv /\ LimitInv /\ OutcomeTellsWhy
    BY DEF CutInv, LimitInv, OutcomeTellsWhy
  <1>4. QED
    BY <1>1, <1>2, <1>3 DEF IInv

\* During the setups no job has an execution, and nothing has been cut short.
LEMMA SetupIInv ==
  ASSUME PipelineAssumption, IInv, RunSetup
  PROVE  IInv'
  <1> USE Constants DEF IInv, TypeOK, RunSetup, PhaseInv, job
  <1>0. \A j \in Jobs : pc[j] = "idle" /\ current[j] = 0
    OBVIOUS
  <1>1. TypeOK'
    <2>1. /\ next' \in 1..(Len(Scopes) + 1) /\ up' \subseteq DOMAIN Scopes
          /\ scorable' \subseteq Runnable /\ UNCHANGED <<cancelled, main, job, cut>>
      OBVIOUS
    <2>2. record' \in [Runnable -> {"queued", "running", "completed", "aborted"}]
      OBVIOUS
    <2>3. verdict' \in [Runnable -> {"none", "graded", "error", "timeout"}]
      OBVIOUS
    <2>4. QED
      BY <1>0, <2>1, <2>2, <2>3
  <1>2. PhaseInv' /\ DirtyInv'
    BY DEF DirtyInv
  <1>3. OwnInv' /\ LimitInv'
    BY <1>0 DEF OwnInv, LimitInv
  <1>4. SetupInv'
    <2> SUFFICES ASSUME NEW s \in DOMAIN Scopes, s < next',
                        NEW e \in scorable', e \in Scopes[s]
                 PROVE  s \in up'
      BY DEF SetupInv
    <2>1. e \in scorable /\ (s < next \/ s = next)
      OBVIOUS
    <2>2. CASE s < next
      BY <2>1, <2>2 DEF SetupInv
    <2>3. CASE s = next
      BY <2>3
    <2>4. QED
      BY <2>1, <2>2, <2>3
  <1>5. CutInv' /\ OutcomeTellsWhy'
    BY DEF CutInv, OutcomeTellsWhy
  <1>6. QED
    BY <1>1, <1>2, <1>3, <1>4, <1>5

LEMMA MainIInv ==
  ASSUME PipelineAssumption, IInv, Schedule \/ AfterJobs \/ TakeDown
  PROVE  IInv'
  <1> USE Constants DEF IInv, TypeOK, PhaseInv, job
  <1>1. CASE Schedule
    <2> USE <1>1 DEF Schedule
    <2>0. \A j \in Jobs : current[j] = 0 /\ pc'[j] \in {"idle", "finished"}
      OBVIOUS
    <2>1. TypeOK'
      BY <2>0 DEF PCs
    <2>2. PhaseInv' /\ SetupInv'
      BY DEF SetupInv
    <2>3. OwnInv' /\ DirtyInv' /\ LimitInv'
      BY <2>0 DEF OwnInv, DirtyInv, LimitInv
    <2>4. CutInv' /\ OutcomeTellsWhy'
      BY DEF CutInv, OutcomeTellsWhy
    <2>5. QED
      BY <2>1, <2>2, <2>3, <2>4
  <1>2. CASE AfterJobs
    BY <1>2 DEF AfterJobs, OwnInv, SetupInv, DirtyInv, CutInv, LimitInv, Working, OutcomeTellsWhy
  <1>3. CASE TakeDown
    <2>1. /\ main = "takedown" /\ main' \in {"takedown", "returned"} /\ up' \subseteq DOMAIN Scopes
          /\ UNCHANGED <<cancelled, next, scorable, record, verdict, job, cut>>
      BY <1>3 DEF TakeDown
    <2>2. QED
      BY <2>1 DEF OwnInv, SetupInv, DirtyInv, CutInv, LimitInv, Working, OutcomeTellsWhy
  <1>4. QED
    BY <1>1, <1>2, <1>3

\* An execution that has run for a while and is not over is cut short by a cancellation.
LEMMA CancelIInv ==
  ASSUME PipelineAssumption, IInv, Cancel
  PROVE  IInv'
  <1> USE Constants DEF IInv, TypeOK, Cancel, job
  <1>0. /\ UNCHANGED <<pc, current, stage, expired, result, dirty>>
        /\ UNCHANGED <<main, next, up, scorable, record, verdict>>
        /\ cancelled' = TRUE
    OBVIOUS
  <1>1. \A e \in Runnable : /\ cut[e] # "no" => cut'[e] = cut[e]
                            /\ cut[e] = "no" => cut'[e] \in {"no", "cancel"}
                            /\ cut'[e] # cut[e] => \E j \in Jobs : Working(j) /\ current[j] = e
    OBVIOUS
  <1>10. \A e \in Runnable : cut'[e] # cut[e] => record[e] = "running" /\ cut'[e] = "cancel"
    BY <1>0, <1>1
  <1>2. TypeOK'
    <2>1. cut' \in [Runnable -> {"no", "limit", "cancel"}]
      OBVIOUS
    <2>2. cancelled' \in BOOLEAN
      BY <1>0, Zenon
    <2>3. QED
      BY <1>0, <2>1, <2>2
  <1>3. PhaseInv'
    BY <1>0, <1>1 DEF PhaseInv, Working
  <1>4. OwnInv' /\ DirtyInv'
    BY <1>0 DEF OwnInv, DirtyInv
  <1>9. SetupInv'
    BY <1>0 DEF SetupInv
  <1>5. CutInv'
    BY <1>0, <1>10 DEF CutInv
  <1>6. LimitInv'
    BY <1>0, <1>1 DEF LimitInv, Working
  <1>7. OutcomeTellsWhy'
    BY <1>0, <1>1, <1>10 DEF OutcomeTellsWhy
  <1>8. QED
    BY <1>2, <1>3, <1>4, <1>5, <1>6, <1>7, <1>9

-----------------------------------------------------------------------------
(* The steps of a job. *)

\* An execution that is queued is nobody's, and nothing has become of it.
LEMMA QueuedFacts ==
  ASSUME PipelineAssumption, IInv, NEW e \in Runnable, record[e] = "queued"
  PROVE  /\ \A k \in Jobs : current[k] # e
         /\ cut[e] = "no" /\ verdict[e] # "timeout"
  <1>1. e # 0
    BY Constants
  <1>2. \A k \in Jobs : current[k] # 0 => record[current[k]] = "running"
    BY DEF IInv, TypeOK
  <1>3. cut[e] = "no"
    BY DEF IInv, CutInv
  <1>4. verdict[e] # "timeout"
    BY <1>3 DEF IInv, OutcomeTellsWhy
  <1>5. QED
    BY <1>1, <1>2, <1>3, <1>4

LEMMA BeginIInv ==
  ASSUME PipelineAssumption, IInv, NEW j \in Jobs, BeginExecution(j)
  PROVE  IInv'
  <1> USE Constants DEF IInv, TypeOK
  <1>0. PICK e \in Runnable :
          /\ IsNext(j, e)
          /\ current' = [current EXCEPT ![j] = e]
          /\ record' = [record EXCEPT ![e] = "running"]
          /\ cut' = IF cancelled THEN [cut EXCEPT ![e] = "cancel"] ELSE cut
    BY DEF BeginExecution
  <1>1. /\ main = "jobs" /\ pc[j] = "idle" /\ current[j] = 0
        /\ e \in scorable /\ JobOf[e] = j /\ record[e] = "queued" /\ e # 0
    BY <1>0 DEF BeginExecution, IsNext, Queue
  <1>2. /\ \A k \in Jobs : current[k] # e
        /\ cut[e] = "no" /\ verdict[e] # "timeout"
    BY <1>1, QueuedFacts
  <1>3. /\ expired' = [expired EXCEPT ![j] = FALSE]
        /\ UNCHANGED <<cancelled, main, next, up, scorable, verdict>>
    BY DEF BeginExecution
  <1>4. /\ pc' \in [Jobs -> PCs] /\ pc'[j] \in {"stage", "grade", "report"}
        /\ stage' \in [Jobs -> Nat] /\ (pc'[j] = "stage" => stage'[j] \in 1..Len(Stages))
        /\ result' \in [Jobs -> {"none", "graded", "error", "timeout"}]
        /\ result'[j] \in {"none", "error"}
        /\ \A k \in Jobs \ {j} : pc'[k] = pc[k] /\ stage'[k] = stage[k] /\ result'[k] = result[k]
    <2>1. CASE cancelled
      <3>1. /\ pc' = [pc EXCEPT ![j] = "report"]
            /\ result' = [result EXCEPT ![j] = "error"]
            /\ UNCHANGED stage
        BY <2>1 DEF BeginExecution
      <3>2. QED
        BY <3>1 DEF PCs
    <2>2. CASE ~cancelled
      <3>1. /\ pc' = [pc EXCEPT ![j] = IF Stages = <<>> THEN "grade" ELSE "stage"]
            /\ stage' = [stage EXCEPT ![j] = 1]
            /\ result' = [result EXCEPT ![j] = "none"]
        BY <2>2 DEF BeginExecution
      <3>2. Stages # <<>> => Len(Stages) >= 1
        BY DEF PipelineAssumption
      <3>3. QED
        BY <3>1, <3>2 DEF PCs
    <2>3. QED
      BY <2>1, <2>2
  <1>5. /\ dirty' \in [Jobs -> BOOLEAN]
        /\ \A k \in Jobs \ {j} : dirty'[k] = dirty[k]
        /\ dirty'[j] => pc'[j] = "stage"
    <2>1. ~dirty[j]
      BY <1>1 DEF DirtyInv
    <2>2. CASE cancelled
      <3>1. dirty' = dirty
        BY <2>2, Zenon DEF BeginExecution
      <3>2. QED
        BY <2>1, <3>1
    <2>3. CASE ~cancelled
      <3>1. /\ dirty' = [dirty EXCEPT ![j] = Stages # <<>> /\ Stages[1] \in Dirtying]
            /\ pc' = [pc EXCEPT ![j] = IF Stages = <<>> THEN "grade" ELSE "stage"]
        BY <2>3, Zenon DEF BeginExecution
      <3>2. dirty \in [Jobs -> BOOLEAN] /\ pc \in [Jobs -> PCs]
        BY Zenon
      <3>3. /\ dirty' \in [Jobs -> BOOLEAN]
            /\ \A k \in Jobs \ {j} : dirty'[k] = dirty[k]
            /\ dirty'[j] <=> (Stages # <<>> /\ Stages[1] \in Dirtying)
            /\ pc'[j] = IF Stages = <<>> THEN "grade" ELSE "stage"
        BY ONLY <3>1, <3>2, j \in Jobs, Zenon
      <3>4. QED
        BY ONLY <3>3, Zenon
    <2>4. QED
      BY <2>2, <2>3
  <1>6. /\ cut' \in [Runnable -> {"no", "limit", "cancel"}]
        /\ \A d \in Runnable \ {e} : cut'[d] = cut[d]
        /\ cut'[e] \in {"no", "cancel"} /\ (cut'[e] = "cancel" => cancelled)
    BY <1>0, <1>2
  <1>7. TypeOK'
    <2>1. /\ record' \in [Runnable -> {"queued", "running", "completed", "aborted"}]
          /\ current' \in [Jobs -> Runnable \cup {0}] /\ expired' \in [Jobs -> BOOLEAN]
      BY <1>0, <1>3
    <2>2. \A k \in Jobs : current'[k] # 0 => record'[current'[k]] = "running"
      BY <1>0, <1>2
    <2>3. \A k \in Jobs : (current'[k] = 0 <=> pc'[k] \in {"idle", "finished"})
                         /\ (pc'[k] = "stage" => stage'[k] \in 1..Len(Stages))
      BY <1>0, <1>1, <1>4
    <2>4. QED
      BY <1>3, <1>4, <1>5, <1>6, <2>1, <2>2, <2>3
  <1>8. PhaseInv'
    <2>1. main' = "jobs" /\ next' = next /\ next > Len(Scopes)
      BY <1>1, <1>3 DEF PhaseInv
    <2>2. QED
      BY ONLY <2>1 DEF PhaseInv
  <1>14. SetupInv'
    BY <1>3 DEF SetupInv
  <1>9. OwnInv'
    BY <1>0, <1>1, <1>3 DEF OwnInv
  <1>15. DirtyInv'
    BY ONLY DirtyInv, <1>4, <1>5 DEF DirtyInv
  <1>10. CutInv'
    BY <1>0, <1>3, <1>6 DEF CutInv
  <1>11. LimitInv'
    <2>1. \A k \in Jobs \ {j} : current'[k] # 0 =>
            current'[k] = current[k] /\ cut'[current[k]] = cut[current[k]]
            /\ expired'[k] = expired[k]
      BY <1>0, <1>2, <1>3, <1>6
    <2>2. current'[j] = e /\ expired'[j] = FALSE
      BY <1>0, <1>3
    <2>3. QED
      BY <1>3, <1>4, <1>6, <2>1, <2>2 DEF LimitInv, Working
  <1>12. OutcomeTellsWhy'
    BY <1>0, <1>2, <1>3, <1>6 DEF OutcomeTellsWhy
  <1>13. QED
    BY <1>7, <1>8, <1>9, <1>10, <1>11, <1>12, <1>14, <1>15

\* A step in which a job moves on in the pipeline, and nothing of its execution that
\* others can see changes.
MovesOn(j) ==
  /\ UNCHANGED <<cancelled, main, next, up, scorable, record, verdict, current, expired, cut>>
  /\ pc[j] \in {"stage", "grade", "settle", "teardown"}
  /\ pc' \in [Jobs -> PCs]
  /\ pc'[j] \in {"stage", "grade", "settle", "teardown", "report"}
  /\ stage' \in [Jobs -> Nat]
  /\ pc'[j] = "stage" => stage'[j] \in 1..Len(Stages)
  /\ result' \in [Jobs -> {"none", "graded", "error", "timeout"}]
  /\ dirty' \in [Jobs -> BOOLEAN]
  /\ dirty'[j] => pc'[j] # "report"
  /\ \A k \in Jobs \ {j} : pc'[k] = pc[k] /\ stage'[k] = stage[k] /\ result'[k] = result[k]
  /\ \A k \in Jobs \ {j} : dirty'[k] = dirty[k]
  /\ pc'[j] \in {"stage", "grade", "settle"} => Working(j)
  /\ result'[j] = "timeout" => cut[current[j]] = "limit"
  /\ cut[current[j]] = "limit" /\ pc'[j] \in {"teardown", "report"} /\ ~cancelled =>
       result'[j] = "timeout"

LEMMA MovesOnIInv ==
  ASSUME PipelineAssumption, IInv, NEW j \in Jobs, MovesOn(j)
  PROVE  IInv'
  <1> USE Constants DEF IInv, TypeOK, MovesOn
  <1>1. current[j] # 0
    OBVIOUS
  <1>2. TypeOK'
    <2>1. \A k \in Jobs : (current'[k] = 0 <=> pc'[k] \in {"idle", "finished"})
                         /\ (pc'[k] = "stage" => stage'[k] \in 1..Len(Stages))
      BY <1>1
    <2>2. QED
      BY <2>1
  <1>3. PhaseInv'
    BY DEF PhaseInv
  <1>4. OwnInv' /\ CutInv' /\ OutcomeTellsWhy'
    BY DEF OwnInv, CutInv, OutcomeTellsWhy
  <1>5. SetupInv'
    BY DEF SetupInv
  <1>6. DirtyInv'
    <2>1. /\ pc'[j] \in {"stage", "grade", "settle", "teardown", "report"}
          /\ \A k \in Jobs \ {j} : pc'[k] = pc[k]
      OBVIOUS
    <2>2. dirty'[j] => pc'[j] # "report"
      BY Zenon
    <2>3. \A k \in Jobs \ {j} : dirty'[k] = dirty[k]
      BY Zenon
    <2>4. QED
      BY ONLY DirtyInv, <2>1, <2>2, <2>3 DEF DirtyInv
  <1>7. LimitInv'
    BY DEF LimitInv, Working
  <1>8. QED
    BY <1>2, <1>3, <1>4, <1>5, <1>6, <1>7

LEMMA StageReturnsIInv ==
  ASSUME PipelineAssumption, IInv, NEW j \in Jobs, StageReturns(j)
  PROVE  IInv'
  <1> USE Constants DEF IInv, TypeOK
  <1>1. /\ pc[j] = "stage" /\ current[j] # 0 /\ Working(j)
        /\ UNCHANGED <<cancelled, main, next, up, scorable, record, verdict, current, expired, cut>>
        /\ result[j] = "timeout" => cut[current[j]] = "limit"
    BY DEF StageReturns, Working, LimitInv
  <1>2. CASE /\ pc' = [pc EXCEPT ![j] = "settle"]
             /\ result' = [result EXCEPT ![j] = "error"]
             /\ UNCHANGED <<stage, dirty>>
    <2>1. /\ pc' \in [Jobs -> PCs] /\ pc'[j] = "settle"
          /\ result' \in [Jobs -> {"none", "graded", "error", "timeout"}] /\ result'[j] = "error"
          /\ \A k \in Jobs \ {j} : pc'[k] = pc[k] /\ result'[k] = result[k]
      BY <1>2 DEF PCs
    <2>8. MovesOn(j)
      BY <1>1, <1>2, <2>1 DEF MovesOn
    <2>9. QED
      BY <2>8, MovesOnIInv
  <1>3. CASE /\ stage[j] < Len(Stages)
             /\ stage' = [stage EXCEPT ![j] = @ + 1]
             /\ dirty' = [dirty EXCEPT ![j] = @ \/ Stages[stage[j] + 1] \in Dirtying]
             /\ UNCHANGED <<pc, result>>
    <2>1. /\ stage' \in [Jobs -> Nat] /\ stage'[j] \in 1..Len(Stages)
          /\ \A k \in Jobs \ {j} : stage'[k] = stage[k]
      BY <1>1, <1>3
    <2>2. dirty' \in [Jobs -> BOOLEAN] /\ \A k \in Jobs \ {j} : dirty'[k] = dirty[k]
      <3>1. dirty \in [Jobs -> BOOLEAN]
        BY Zenon
      <3>2. dirty' = [dirty EXCEPT ![j] = @ \/ Stages[stage[j] + 1] \in Dirtying]
        BY <1>3, Zenon
      <3>3. QED
        BY ONLY <3>1, <3>2, j \in Jobs, Zenon
    <2>3. /\ pc' \in [Jobs -> PCs] /\ pc'[j] = "stage"
          /\ result' \in [Jobs -> {"none", "graded", "error", "timeout"}]
          /\ \A k \in Jobs \ {j} : pc'[k] = pc[k] /\ result'[k] = result[k]
          /\ result'[j] = "timeout" => cut[current[j]] = "limit"
      <3>1. UNCHANGED <<pc, result>>
        BY <1>3, Zenon
      <3>2. QED
        BY <1>1, <3>1
    <2>8. MovesOn(j)
      BY <1>1, <2>1, <2>2, <2>3 DEF MovesOn
    <2>9. QED
      BY <2>8, MovesOnIInv
  <1>4. CASE /\ pc' = [pc EXCEPT ![j] = "grade"]
             /\ UNCHANGED <<stage, dirty, result>>
    <2>1. /\ pc' \in [Jobs -> PCs] /\ pc'[j] = "grade"
          /\ \A k \in Jobs \ {j} : pc'[k] = pc[k]
      BY <1>4 DEF PCs
    <2>8. MovesOn(j)
      BY <1>1, <1>4, <2>1 DEF MovesOn
    <2>9. QED
      BY <2>8, MovesOnIInv
  <1>5. QED
    BY <1>2, <1>3, <1>4, Zenon DEF StageReturns

LEMMA GradeIInv ==
  ASSUME PipelineAssumption, IInv, NEW j \in Jobs, Grade(j)
  PROVE  IInv'
  <1> USE Constants DEF IInv, TypeOK
  <1>1. /\ pc[j] = "grade" /\ Working(j)
        /\ UNCHANGED <<cancelled, main, next, up, scorable, record, verdict, current, expired, cut>>
        /\ UNCHANGED <<stage, dirty>>
    BY DEF Grade, Working
  <1>2. /\ pc' \in [Jobs -> PCs] /\ pc'[j] = "settle"
        /\ result' \in [Jobs -> {"none", "graded", "error", "timeout"}]
        /\ result'[j] \in {"graded", "error"}
        /\ \A k \in Jobs \ {j} : pc'[k] = pc[k] /\ result'[k] = result[k]
    BY DEF Grade, PCs
  <1>8. MovesOn(j)
    BY <1>1, <1>2 DEF MovesOn
  <1>9. QED
    BY <1>8, MovesOnIInv

\* What the deferred function that settles the verdicts sees is what cut the execution short.
LEMMA SettleIInv ==
  ASSUME PipelineAssumption, IInv, NEW j \in Jobs, Settle(j)
  PROVE  IInv'
  <1> USE Constants DEF IInv, TypeOK
  <1>1. /\ pc[j] = "settle" /\ Working(j) /\ current[j] # 0
        /\ UNCHANGED <<cancelled, main, next, up, scorable, record, verdict, current, expired, cut>>
        /\ UNCHANGED <<stage, dirty>>
    BY DEF Settle, Working
  <1>2. /\ pc' \in [Jobs -> PCs] /\ pc'[j] = "teardown"
        /\ result' \in [Jobs -> {"none", "graded", "error", "timeout"}]
        /\ \A k \in Jobs \ {j} : pc'[k] = pc[k] /\ result'[k] = result[k]
        /\ expired[j] /\ ~cancelled => result'[j] = "timeout"
        /\ ~(expired[j] /\ ~cancelled) => result'[j] = result[j]
    BY DEF Settle, PCs
  <1>3. /\ cut[current[j]] = "limit" <=> expired[j]
        /\ result[j] = "timeout" => cut[current[j]] = "limit"
    BY <1>1 DEF LimitInv
  <1>4. /\ result'[j] = "timeout" => cut[current[j]] = "limit"
        /\ cut[current[j]] = "limit" /\ ~cancelled => result'[j] = "timeout"
    BY <1>2, <1>3
  <1>6. stage' \in [Jobs -> Nat] /\ dirty' \in [Jobs -> BOOLEAN]
    BY <1>1, Zenon
  <1>8. MovesOn(j)
    BY <1>1, <1>2, <1>4, <1>6 DEF MovesOn
  <1>9. QED
    BY <1>8, MovesOnIInv

LEMMA TeardownIInv ==
  ASSUME PipelineAssumption, IInv, NEW j \in Jobs, Teardown(j)
  PROVE  IInv'
  <1> USE Constants DEF IInv, TypeOK
  <1>1. /\ pc[j] = "teardown" /\ current[j] # 0
        /\ UNCHANGED <<cancelled, main, next, up, scorable, record, verdict, current, expired, cut>>
        /\ UNCHANGED <<stage, result>>
    BY DEF Teardown
  <1>2. /\ pc' \in [Jobs -> PCs] /\ pc'[j] = "report"
        /\ \A k \in Jobs \ {j} : pc'[k] = pc[k]
    BY DEF Teardown, PCs
  <1>3. /\ dirty' \in [Jobs -> BOOLEAN] /\ ~dirty'[j]
        /\ \A k \in Jobs \ {j} : dirty'[k] = dirty[k]
    BY ZenonT(30) DEF Teardown
  <1>4. /\ result[j] = "timeout" => cut[current[j]] = "limit"
        /\ cut[current[j]] = "limit" /\ ~cancelled => result[j] = "timeout"
    BY <1>1 DEF LimitInv
  <1>6. /\ stage' \in [Jobs -> Nat] /\ result' \in [Jobs -> {"none", "graded", "error", "timeout"}]
        /\ result'[j] = "timeout" => cut[current[j]] = "limit"
        /\ cut[current[j]] = "limit" /\ ~cancelled => result'[j] = "timeout"
    BY <1>1, <1>4
  <1>8. MovesOn(j)
    BY <1>1, <1>2, <1>3, <1>6 DEF MovesOn
  <1>9. QED
    BY <1>8, MovesOnIInv

\* A job has no more executions: it is over while the jobs run.
LEMMA FinishJobIInv ==
  ASSUME PipelineAssumption, IInv, NEW j \in Jobs, FinishJob(j)
  PROVE  IInv'
  <1> USE Constants DEF IInv, TypeOK
  <1>1. /\ main = "jobs" /\ pc[j] = "idle" /\ current[j] = 0
        /\ UNCHANGED <<cancelled, main, next, up, scorable, record, verdict, current,
                       stage, expired, result, dirty, cut>>
        /\ pc' \in [Jobs -> PCs] /\ pc'[j] = "finished"
        /\ \A k \in Jobs \ {j} : pc'[k] = pc[k]
    BY DEF FinishJob, PCs
  <1>2. TypeOK'
    <2>1. \A k \in Jobs : (current'[k] = 0 <=> pc'[k] \in {"idle", "finished"})
                         /\ (pc'[k] = "stage" => stage'[k] \in 1..Len(Stages))
      BY <1>1
    <2>2. QED
      BY <1>1, <2>1
  <1>3. PhaseInv'
    BY <1>1 DEF PhaseInv
  <1>4. OwnInv' /\ CutInv' /\ OutcomeTellsWhy'
    BY <1>1 DEF OwnInv, CutInv, OutcomeTellsWhy
  <1>5. SetupInv'
    BY <1>1 DEF SetupInv
  <1>6. DirtyInv'
    <2>1. ~dirty[j]
      BY <1>1 DEF DirtyInv
    <2>2. dirty' = dirty
      BY Zenon DEF FinishJob
    <2>3. QED
      BY ONLY DirtyInv, <1>1, <2>1, <2>2 DEF DirtyInv
  <1>7. LimitInv'
    BY <1>1 DEF LimitInv, Working
  <1>8. QED
    BY <1>2, <1>3, <1>4, <1>5, <1>6, <1>7

\* The limit passes: it cuts the execution short unless that has been settled.
LEMMA ExpireIInv ==
  ASSUME PipelineAssumption, IInv, NEW j \in Jobs, Expire(j)
  PROVE  IInv'
  <1> USE Constants DEF IInv, TypeOK
  <1>1. /\ pc[j] \in {"stage", "grade", "settle", "teardown", "report"}
        /\ current[j] \in Runnable
        /\ UNCHANGED <<main, next, up, scorable, record, verdict, pc, current, stage, result>>
        /\ cut' = IF Working(j) THEN [cut EXCEPT ![current[j]] = "limit"] ELSE cut
    BY DEF Expire
  <1>2. /\ ~expired[j] /\ ~cancelled
        /\ cancelled' = cancelled /\ dirty' = dirty
        /\ expired' = [expired EXCEPT ![j] = TRUE]
    BY Zenon DEF Expire, ctxDone
  <1>3. /\ expired' \in [Jobs -> BOOLEAN] /\ expired'[j]
        /\ \A k \in Jobs \ {j} : expired'[k] = expired[k]
    <2>1. expired \in [Jobs -> BOOLEAN]
      BY Zenon
    <2>2. QED
      BY ONLY <1>2, <2>1, j \in Jobs, Zenon
  <1>4. /\ cut' \in [Runnable -> {"no", "limit", "cancel"}]
        /\ \A d \in Runnable : d # current[j] => cut'[d] = cut[d]
        /\ Working(j) => cut'[current[j]] = "limit"
        /\ ~Working(j) => cut' = cut
    BY <1>1
  <1>5. \A k \in Jobs : current[k] # 0 /\ k # j => current[k] # current[j]
    BY <1>1 DEF OwnInv
  <1>6. record[current[j]] = "running" /\ main = "jobs"
    BY <1>1 DEF PhaseInv
  <1>7. TypeOK'
    <2>1. cancelled' \in BOOLEAN /\ dirty' \in [Jobs -> BOOLEAN]
      BY <1>2, Zenon
    <2>2. QED
      BY <1>1, <1>3, <1>4, <2>1
  <1>8. PhaseInv'
    BY <1>1, <1>6 DEF PhaseInv
  <1>9. OwnInv' /\ SetupInv'
    BY <1>1 DEF OwnInv, SetupInv
  <1>10. DirtyInv'
    BY <1>1, <1>2 DEF DirtyInv
  <1>11. CutInv'
    BY <1>1, <1>2, <1>4, <1>6 DEF CutInv
  <1>12. LimitInv'
    BY <1>1, <1>2, <1>3, <1>4, <1>5 DEF LimitInv, Working
  <1>13. OutcomeTellsWhy'
    BY <1>1, <1>4, <1>6 DEF OutcomeTellsWhy
  <1>14. QED
    BY <1>7, <1>8, <1>9, <1>10, <1>11, <1>12, <1>13

\* An execution gets its record: from a job that is done with it, or without having begun.
\* The verdict must be the one its end calls for.
Settled(e, value) ==
  /\ value \in {"graded", "error", "timeout", "none"}
  /\ cut'[e] = "cancel" => cancelled
  /\ cut'[e] = "limit" /\ ~cancelled => value = "timeout"
  /\ value = "timeout" => cut'[e] = "limit"
  /\ \A d \in Runnable \ {e} : cut'[d] = cut[d]
  /\ cut' \in [Runnable -> {"no", "limit", "cancel"}]

LEMMA RecordFacts ==
  ASSUME PipelineAssumption, IInv, NEW e \in Runnable, NEW value,
         Record(e, value), Settled(e, value), cancelled' = cancelled
  PROVE  /\ record' \in [Runnable -> {"queued", "running", "completed", "aborted"}]
         /\ verdict' \in [Runnable -> {"none", "graded", "error", "timeout"}]
         /\ \A d \in Runnable \ {e} : record'[d] = record[d] /\ verdict'[d] = verdict[d]
         /\ CutInv' /\ OutcomeTellsWhy'
  <1> USE DEF IInv, TypeOK, Settled, Record
  <1>1. /\ record' \in [Runnable -> {"queued", "running", "completed", "aborted"}]
        /\ verdict' \in [Runnable -> {"none", "graded", "error", "timeout"}]
        /\ \A d \in Runnable \ {e} : record'[d] = record[d] /\ verdict'[d] = verdict[d]
        /\ record'[e] = IF cancelled THEN "aborted" ELSE "completed"
        /\ verdict'[e] = value
    OBVIOUS
  <1>2. CutInv'
    BY <1>1 DEF CutInv
  <1>3. OutcomeTellsWhy'
    BY <1>1 DEF OutcomeTellsWhy
  <1>4. QED
    BY <1>1, <1>2, <1>3

LEMMA VariantIInv ==
  ASSUME PipelineAssumption, IInv, NEW j \in Jobs, VariantWithoutDirectory(j)
  PROVE  IInv'
  <1> USE Constants DEF IInv, TypeOK
  <1>0. PICK e \in NamedVariants :
          /\ IsNext(j, e)
          /\ Record(e, "error")
          /\ cut' = IF cancelled THEN [cut EXCEPT ![e] = "cancel"] ELSE cut
    BY DEF VariantWithoutDirectory
  <1>1. e \in Runnable /\ record[e] = "queued" /\ main = "jobs"
    BY <1>0 DEF VariantWithoutDirectory, IsNext, Queue
  <1>2. /\ \A k \in Jobs : current[k] # e
        /\ cut[e] = "no" /\ verdict[e] # "timeout"
    BY <1>1, QueuedFacts
  <1>3. UNCHANGED <<main, next, up, scorable, pc, current, stage, result>>
    BY DEF VariantWithoutDirectory, job
  <1>4. cancelled' = cancelled /\ expired' = expired /\ dirty' = dirty
    BY Zenon DEF VariantWithoutDirectory, job
  <1>5. Settled(e, "error")
    BY <1>0, <1>1, <1>2 DEF Settled
  <1>6. /\ record' \in [Runnable -> {"queued", "running", "completed", "aborted"}]
        /\ verdict' \in [Runnable -> {"none", "graded", "error", "timeout"}]
        /\ \A d \in Runnable \ {e} : record'[d] = record[d] /\ verdict'[d] = verdict[d]
        /\ CutInv' /\ OutcomeTellsWhy'
    BY <1>0, <1>1, <1>4, <1>5, RecordFacts
  <1>7. TypeOK'
    <2>1. cancelled' \in BOOLEAN /\ expired' \in [Jobs -> BOOLEAN] /\ dirty' \in [Jobs -> BOOLEAN]
      BY <1>4, Zenon
    <2>2. \A k \in Jobs : current'[k] # 0 => record'[current'[k]] = "running"
      BY <1>2, <1>3, <1>6
    <2>3. QED
      BY <1>3, <1>5, <1>6, <2>1, <2>2 DEF Settled
  <1>8. PhaseInv'
    BY <1>1, <1>3 DEF PhaseInv
  <1>9. OwnInv' /\ SetupInv'
    BY <1>3 DEF OwnInv, SetupInv
  <1>10. DirtyInv'
    BY <1>3, <1>4 DEF DirtyInv
  <1>11. LimitInv'
    <2>1. \A k \in Jobs : current[k] # 0 => cut'[current[k]] = cut[current[k]]
      BY <1>2, <1>5 DEF Settled
    <2>2. QED
      BY <1>3, <1>4, <2>1 DEF LimitInv, Working
  <1>12. QED
    BY <1>6, <1>7, <1>8, <1>9, <1>10, <1>11

LEMMA ReportIInv ==
  ASSUME PipelineAssumption, IInv, NEW j \in Jobs, Report(j)
  PROVE  IInv'
  <1> USE Constants DEF IInv, TypeOK
  <1> DEFINE e == current[j]
  <1>1. /\ pc[j] = "report" /\ e \in Runnable /\ main = "jobs"
        /\ Record(e, result[j])
        /\ current' = [current EXCEPT ![j] = 0]
        /\ pc' = [pc EXCEPT ![j] = "idle"]
        /\ UNCHANGED <<main, next, up, scorable, stage, result, cut>>
    BY DEF Report, PhaseInv
  <1>2. cancelled' = cancelled /\ expired' = expired /\ dirty' = dirty
    BY Zenon DEF Report
  <1>3. \A k \in Jobs \ {j} : current[k] # e
    BY <1>1 DEF OwnInv
  <1>4. Settled(e, result[j])
    <2>1. /\ result[j] = "timeout" => cut[e] = "limit"
          /\ cut[e] = "limit" /\ ~cancelled => result[j] = "timeout"
      BY <1>1 DEF LimitInv
    <2>2. cut[e] = "cancel" => cancelled
      BY <1>1 DEF CutInv
    <2>3. QED
      BY <1>1, <2>1, <2>2 DEF Settled
  <1>5. /\ record' \in [Runnable -> {"queued", "running", "completed", "aborted"}]
        /\ verdict' \in [Runnable -> {"none", "graded", "error", "timeout"}]
        /\ \A d \in Runnable \ {e} : record'[d] = record[d] /\ verdict'[d] = verdict[d]
        /\ CutInv' /\ OutcomeTellsWhy'
    BY <1>1, <1>2, <1>4, RecordFacts
  <1>6. /\ pc' \in [Jobs -> PCs] /\ pc'[j] = "idle" /\ current'[j] = 0
        /\ current' \in [Jobs -> Runnable \cup {0}]
        /\ \A k \in Jobs \ {j} : pc'[k] = pc[k] /\ current'[k] = current[k]
    BY <1>1 DEF PCs
  <1>7. TypeOK'
    <2>1. cancelled' \in BOOLEAN /\ expired' \in [Jobs -> BOOLEAN] /\ dirty' \in [Jobs -> BOOLEAN]
      BY <1>2, Zenon
    <2>2. \A k \in Jobs : current'[k] # 0 => record'[current'[k]] = "running"
      <3> SUFFICES ASSUME NEW k \in Jobs, current'[k] # 0
                   PROVE  record'[current'[k]] = "running"
        OBVIOUS
      <3>1. k # j /\ current'[k] = current[k]
        BY <1>6
      <3>2. current[k] \in Runnable \ {e} /\ record[current[k]] = "running"
        BY <1>3, <3>1
      <3>3. QED
        BY <1>5, <3>1, <3>2
    <2>3. \A k \in Jobs : (current'[k] = 0 <=> pc'[k] \in {"idle", "finished"})
                         /\ (pc'[k] = "stage" => stage'[k] \in 1..Len(Stages))
      BY <1>1, <1>6
    <2>4. /\ main' = "jobs" /\ next' \in 1..(Len(Scopes) + 1)
          /\ up' \subseteq DOMAIN Scopes /\ scorable' \subseteq Runnable
          /\ stage' \in [Jobs -> Nat]
          /\ result' \in [Jobs -> {"none", "graded", "error", "timeout"}]
          /\ cut' \in [Runnable -> {"no", "limit", "cancel"}]
      BY <1>1
    <2>5. QED
      BY ONLY <1>5, <1>6, <2>1, <2>2, <2>3, <2>4 DEF TypeOK
  <1>8. PhaseInv'
    BY <1>1 DEF PhaseInv
  <1>9. OwnInv' /\ SetupInv'
    BY <1>1, <1>6 DEF OwnInv, SetupInv
  <1>10. DirtyInv'
    <2>1. ~dirty[j]
      BY <1>1 DEF DirtyInv
    <2>2. QED
      BY ONLY DirtyInv, <1>2, <1>6, <2>1 DEF DirtyInv
  <1>11. LimitInv'
    BY <1>1, <1>2, <1>6 DEF LimitInv, Working
  <1>12. QED
    BY <1>5, <1>7, <1>8, <1>9, <1>10, <1>11

-----------------------------------------------------------------------------
LEMMA NextIInv ==
  ASSUME PipelineAssumption, IInv, [Next]_vars
  PROVE  IInv'
  <1>1. CASE MainStep
    BY <1>1, SetupIInv, MainIInv DEF MainStep
  <1>2. ASSUME NEW j \in Jobs, JobStep(j) \/ Expire(j)
        PROVE  IInv'
    BY <1>2, BeginIInv, VariantIInv, StageReturnsIInv, GradeIInv, SettleIInv, TeardownIInv,
       ReportIInv, FinishJobIInv, ExpireIInv DEF JobStep
  <1>3. CASE Cancel
    BY <1>3, CancelIInv
  <1>4. CASE UNCHANGED vars
    BY <1>4, Zenon DEF vars, job, IInv, TypeOK, PhaseInv, OwnInv, SetupInv, DirtyInv, CutInv, LimitInv,
       Working, OutcomeTellsWhy
  <1>5. QED
    BY <1>1, <1>2, <1>3, <1>4 DEF Next

LEMMA IInvHolds ==
  ASSUME PipelineAssumption
  PROVE  Spec => []IInv
  <1>1. Init => IInv
    BY InitIInv
  <1>2. IInv /\ [Next]_vars => IInv'
    BY NextIInv
  <1>3. QED
    BY <1>1, <1>2, PTL DEF Spec

\* Whatever the tools, a job has a current execution exactly while it is in the
\* pipeline, and that execution is the one recorded as running.
THEOREM PipelineTypeOK ==
  ASSUME PipelineAssumption
  PROVE  Spec => []TypeOK
  <1>1. IInv => TypeOK
    BY DEF IInv
  <1>2. QED
    BY <1>1, IInvHolds, PTL

\* However an execution ends, nothing it made is on the cluster when the job goes on.
THEOREM TeardownAlwaysRunsHolds ==
  ASSUME PipelineAssumption
  PROVE  Spec => []TeardownAlwaysRuns
  <1>1. IInv => TeardownAlwaysRuns
    BY DEF IInv, DirtyInv, TeardownAlwaysRuns
  <1>2. QED
    BY <1>1, IInvHolds, PTL

\* The record and the verdict of an execution tell why it ended, in whatever order a
\* limit, a cancellation and the end of a stage happen.
THEOREM OutcomeTellsWhyHolds ==
  ASSUME PipelineAssumption
  PROVE  Spec => []OutcomeTellsWhy
  <1>1. IInv => OutcomeTellsWhy
    BY DEF IInv
  <1>2. QED
    BY <1>1, IInvHolds, PTL

\* A test runs only while every shared setup it is in the scope of is up.
THEOREM SetupsHoldHolds ==
  ASSUME PipelineAssumption
  PROVE  Spec => []SetupsHold
  <1>1. IInv => SetupsHold
    <2> SUFFICES ASSUME IInv, NEW j \in Jobs, NEW s \in DOMAIN Scopes, current[j] \in Scopes[s]
                 PROVE  s \in up
      BY DEF SetupsHold
    <2>1. current[j] # 0 /\ current[j] \in scorable
      BY Constants DEF IInv, OwnInv
    <2>2. main = "jobs" /\ next > Len(Scopes)
      <3>1. pc[j] \notin {"idle", "finished"}
        BY <2>1 DEF IInv, TypeOK
      <3>2. main \in {"setup", "jobs", "takedown", "returned"}
        BY DEF IInv, TypeOK
      <3>3. main \notin {"setup", "takedown", "returned"}
        BY <3>1 DEF IInv, PhaseInv
      <3>4. QED
        BY <3>2, <3>3 DEF IInv, PhaseInv
    <2>3. s < next
      BY <2>2, Constants DEF IInv, TypeOK
    <2>4. QED
      BY <2>1, <2>2, <2>3 DEF IInv, SetupInv
  <1>2. QED
    BY <1>1, IInvHolds, PTL

-----------------------------------------------------------------------------
(* One execution from what its tool did to its verdicts (AS!Spec). *)

\* The test is one of the catalog's, with parameters.
TestInv ==
  /\ test.params.objects \in Nat
  /\ \E t \in Catalog : /\ test.kind = t.kind /\ test.slas = t.slas
                        /\ test.checks = t.checks /\ test.bars = t.bars

\* What really happened, once the tool has been started.
FactsInv ==
  /\ DOMAIN out = {"whole", "torn", "took", "kept", "pinged", "asked", "ran", "verified"}
  /\ aPc # "queued" =>
       /\ out.took \in Seq(Nat)
       /\ test.kind # "density" => out.ran = test.params.objects /\ out.verified

\* The parts of what tools write.
Parts == {"summary", "detail", "raw", "target", "before", "time", "after",
          "rows", "jobs", "quantiles"}

\* What is still to be written is not there yet, and is written once.
WritingInv ==
  /\ aPc \in {"queued", "running"} => out.torn = {}
  /\ aPc = "running" =>
       /\ left \in Seq(Parts)
       /\ \A i, j \in 1..Len(left) : left[i] = left[j] => i = j
       /\ \A i \in 1..Len(left) : left[i] \notin out.whole
  /\ out.whole \cap out.torn = {}

VerdictInv ==
  /\ \A i \in DOMAIN latest : latest[i] \in AS!Outcomes
  /\ \A i \in DOMAIN verdicts : verdicts[i] \in AS!Outcomes
  /\ aPc = "graded" <=> latest # AS!NoVerdicts

ControlInv ==
  /\ aPc \in {"queued", "running", "exited", "graded"}
  /\ clean \in BOOLEAN
  /\ attempt \in 1..MaxAttempts

AssessInv ==
  /\ ControlInv /\ TestInv /\ FactsInv /\ WritingInv /\ VerdictInv
  /\ AS!EveryItemAnswered
  /\ AS!PassCountsAll

\* Every verdict of the built-in rules is an outcome, one for each item of the test.
LEMMA GradedVerdicts ==
  ASSUME NEW t, NEW res
  PROVE  /\ DOMAIN AS!Graded(t, res) = DOMAIN t.slas \cup DOMAIN t.checks
         /\ \A i \in DOMAIN AS!Graded(t, res) : AS!Graded(t, res)[i] \in AS!Outcomes
  <1>1. \A i \in DOMAIN t.slas : AS!GradeSLAs(t, res)[i] \in AS!Outcomes
    <2> SUFFICES ASSUME NEW i \in DOMAIN t.slas
                 PROVE  AS!gradeSLA(t, i, res.metrics) \in AS!Outcomes
      BY DEF AS!GradeSLAs
    <2>1. \A m, b : AS!compareWithUnits(m, b) \in AS!Outcomes
      BY Zenon DEF AS!compareWithUnits, AS!Outcomes
    <2>2. QED
      BY <2>1, Zenon DEF AS!gradeSLA, AS!Outcomes
  <1>2. \A i \in DOMAIN t.checks : AS!GradeChecks(t, res)[i] \in AS!Outcomes
    <2> SUFFICES ASSUME NEW i \in DOMAIN t.checks
                 PROVE  AS!gradeCheck(t, i, res.checks) \in AS!Outcomes
      BY DEF AS!GradeChecks
    <2>1. QED
      BY Zenon DEF AS!gradeCheck, AS!Outcomes
  <1>3. DOMAIN AS!GradeSLAs(t, res) = DOMAIN t.slas
        /\ DOMAIN AS!GradeChecks(t, res) = DOMAIN t.checks
    BY DEF AS!GradeSLAs, AS!GradeChecks
  <1>4. QED
    BY <1>1, <1>2, <1>3 DEF AS!Graded, AS!Also

\* What a custom evaluator takes for the tool's own verdict is one.
LEMMA NativeVerdicts ==
  ASSUME NEW o
  PROVE  /\ \A p, z \in BOOLEAN : AS!ParseSnapshots(o, p, z).native \in {"pass", "fail", "refused"}
         /\ \A w \in AS!KubeBurnerOcp :
              AS!ParseWorkload(o, w).native \in {"pass", "fail", "error", "refused"}
  <1>1. \A b \in BOOLEAN : AS!Is(b) \in {"pass", "fail"}
    BY DEF AS!Is
  <1>2. AS!Refused.native = "refused"
    BY DEF AS!Refused, AS!Result
  <1>3. \A n, m, c : AS!Result(n, m, c).native = n
    BY DEF AS!Result
  <1>4. ASSUME NEW p \in BOOLEAN, NEW z \in BOOLEAN
        PROVE  AS!ParseSnapshots(o, p, z).native \in {"pass", "fail", "refused"}
    <2>1. AS!parseResults(o, p, z).native \in {"pass", "fail", "refused"}
      BY SMT DEF AS!parseResults, AS!Is, AS!Refused, AS!Result
    <2>2. QED
      BY <1>3, <2>1, Zenon DEF AS!ParseSnapshots
  <1>5. ASSUME NEW w \in AS!KubeBurnerOcp
        PROVE  AS!ParseWorkload(o, w).native \in {"pass", "fail", "error", "refused"}
    <2> DEFINE native == AS!Is(AS!jobsPassed(o))
    <2>1. native \in {"pass", "fail"}
      BY DEF AS!Is
    <2>2. AS!mapVirtMigrationResults(o, native).native = native
      BY SMT DEF AS!mapVirtMigrationResults, AS!Result
    <2>3. AS!mapVirtParallelResults(o, native).native = native
      BY SMT DEF AS!mapVirtParallelResults, AS!Result
    <2>4. AS!matchIterations(o, AS!mapPVCDensityResults(o, native)).native \in {"pass", "fail", "error"}
      <3>1. AS!mapPVCDensityResults(o, native).native = native
        BY <1>3, Zenon DEF AS!mapPVCDensityResults
      <3>2. QED
        BY <2>1, <3>1, SMT DEF AS!matchIterations, AS!Result
    <2> HIDE DEF native
    <2>5. CASE w = "density"
      BY <1>2, <1>3, <2>4, <2>5 DEF AS!ParseWorkload, native
    <2>6. CASE w = "migration"
      BY <1>2, <1>3, <2>1, <2>2, <2>6 DEF AS!ParseWorkload, native
    <2>7. CASE w = "parallel"
      BY <1>2, <1>3, <2>1, <2>3, <2>7 DEF AS!ParseWorkload, native
    <2>8. QED
      BY <2>5, <2>6, <2>7 DEF AS!KubeBurnerOcp
  <1>6. QED
    BY <1>4, <1>5

LEMMA CardinalityOfInstance ==
  ASSUME NEW S
  PROVE  AS!Cardinality(S) = Cardinality(S)
  BY Zenon DEF AS!Cardinality, Cardinality

LEMMA FailedIsNat ==
  ASSUME NEW o, o.took \in Seq(Nat)
  PROVE  /\ AS!Failed(o) \in Nat
         /\ AS!Failed(o) > 0 <=> AS!Failed(o) # 0
  <1>0. Len(o.took) \in Nat /\ DOMAIN o.took = 1..Len(o.took)
    OBVIOUS
  <1>1. IsFiniteSet(1..Len(o.took)) /\ Cardinality(1..Len(o.took)) = Len(o.took)
    BY <1>0, FS_Interval
  <1>2. AS!Good(o) \subseteq 1..Len(o.took)
    BY <1>0 DEF AS!Good
  <1>3. Cardinality(AS!Good(o)) \in Nat /\ Cardinality(AS!Good(o)) <= Len(o.took)
    BY <1>1, <1>2, FS_Subset, FS_CardinalityType
  <1> DEFINE g == Cardinality(AS!Good(o))
             l == Len(o.took)
  <1>4. AS!Failed(o) = l - g
    BY CardinalityOfInstance DEF AS!Failed
  <1>5. l \in Nat /\ g \in Nat /\ g <= l
    BY <1>0, <1>3
  <1> HIDE DEF g, l
  <1>6. QED
    BY <1>4, <1>5

\* A tool writes every part of its output once.
LEMMA OutputsWrittenOnce ==
  ASSUME NEW kind, NEW s \in AS!Outputs(kind)
  PROVE  /\ s \in Seq(Parts)
         /\ \A i, j \in 1..Len(s) : s[i] = s[j] => i = j
  <1>1. \/ s = <<"summary">>
        \/ \E a, b \in Parts : a # b /\ s = <<a, b>>
        \/ s = <<"target", "before", "time", "after">>
    BY DEF AS!Outputs, AS!KubeBurner, AS!KubeBurnerOcp, Parts
  <1>2. CASE s = <<"summary">>
    BY <1>2 DEF Parts
  <1>3. ASSUME NEW a \in Parts, NEW b \in Parts, a # b, s = <<a, b>>
        PROVE  s \in Seq(Parts) /\ \A i, j \in 1..Len(s) : s[i] = s[j] => i = j
    BY <1>3
  <1>4. CASE s = <<"target", "before", "time", "after">>
    <2>1. s \in Seq(Parts) /\ Len(s) = 4
      BY <1>4 DEF Parts
    <2>2. s[1] = "target" /\ s[2] = "before" /\ s[3] = "time" /\ s[4] = "after"
      BY <1>4
    <2>3. 1..Len(s) = {1, 2, 3, 4}
      BY <2>1
    <2>4. QED
      BY <2>1, <2>2, <2>3
  <1>5. QED
    BY <1>1, <1>2, <1>3, <1>4

LEMMA AssessInit ==
  ASSUME AS!AssessmentAssumption, AS!Init
  PROVE  AssessInv
  <1> USE DEF AS!Init
  <1>1. TestInv
    BY DEF TestInv, AS!WithParams, AS!AssessmentAssumption
  <1>2. ControlInv
    <2>1. clean \in BOOLEAN
      BY Zenon
    <2>2. QED
      BY <2>1 DEF ControlInv, AS!AssessmentAssumption
  <1>3. FactsInv /\ WritingInv
    BY DEF FactsInv, WritingInv, AS!NoOutput
  <1>4. VerdictInv
    BY DEF VerdictInv, AS!NoVerdicts
  <1>5. AS!EveryItemAnswered /\ AS!PassCountsAll
    BY DEF AS!EveryItemAnswered, AS!PassCountsAll
  <1>6. QED
    BY <1>1, <1>2, <1>3, <1>4, <1>5 DEF AssessInv

\* Before the verdicts there is nothing to be said of them.
LEMMA NotGraded ==
  ASSUME aPc' # "graded", UNCHANGED verdicts, latest' = latest \/ latest' = AS!NoVerdicts,
         latest = AS!NoVerdicts \/ latest' = AS!NoVerdicts, VerdictInv
  PROVE  /\ VerdictInv'
         /\ AS!EveryItemAnswered'
         /\ AS!PassCountsAll'
  <1>1. VerdictInv'
    BY DEF VerdictInv, AS!NoVerdicts
  <1>2. QED
    BY <1>1 DEF AS!EveryItemAnswered, AS!PassCountsAll

LEMMA ExecuteStep ==
  ASSUME AS!AssessmentAssumption, AssessInv, AS!Execute
  PROVE  AssessInv'
  <1> USE DEF AS!Execute
  <1> DEFINE n == test.params.objects
  <1>0. PICK o \in [whole : {{}}, torn : {{}}, took : [1..n -> Durations], kept : SUBSET (1..n),
                    pinged : {n - 1, n}, asked : {n}, ran : {n - 1, n}, verified : BOOLEAN] :
             /\ out' = o
             /\ test.kind # "density" => o.ran = n /\ o.verified
    BY DEF AS!Happens, AS!Objects
  <1>1. ControlInv' /\ TestInv'
    BY DEF AssessInv, ControlInv, TestInv
  <1>2. FactsInv'
    <2>1. o.took \in [1..n -> Nat]
      BY <1>0 DEF AS!AssessmentAssumption
    <2>2. o.took \in Seq(Nat)
      BY <2>1 DEF AssessInv, TestInv
    <2>3. DOMAIN o = {"whole", "torn", "took", "kept", "pinged", "asked", "ran", "verified"}
      BY <1>0
    <2>4. QED
      BY <1>0, <2>2, <2>3 DEF FactsInv
  <1>3. WritingInv'
    <2>1. out'.whole = {} /\ out'.torn = {}
      BY <1>0
    <2>2. QED
      BY <2>1, OutputsWrittenOnce DEF WritingInv
  <1>4. VerdictInv' /\ AS!EveryItemAnswered' /\ AS!PassCountsAll'
    BY NotGraded DEF AssessInv, VerdictInv
  <1>5. QED
    BY <1>1, <1>2, <1>3, <1>4 DEF AssessInv

LEMMA WriteStep ==
  ASSUME AssessInv, AS!Write
  PROVE  AssessInv'
  <1> USE DEF AS!Write
  <1>0. /\ out' = [out EXCEPT !.whole = @ \cup {left[1]}]
        /\ left' = Tail(left) /\ left \in Seq(Parts) /\ Len(left) \in Nat \ {0}
        /\ Len(left') = Len(left) - 1
        /\ \A i \in 1..Len(left') : left'[i] = left[i + 1]
    BY DEF AssessInv, WritingInv
  <1>a. /\ DOMAIN out' = DOMAIN out
        /\ out'.whole = out.whole \cup {left[1]} /\ out'.torn = out.torn
        /\ out'.took = out.took /\ out'.ran = out.ran /\ out'.verified = out.verified
    BY <1>0 DEF AssessInv, FactsInv
  <1>1. ControlInv' /\ TestInv'
    BY DEF AssessInv, ControlInv, TestInv
  <1>2. FactsInv'
    BY <1>a DEF AssessInv, FactsInv
  <1>3. WritingInv'
    <2>1. left' \in Seq(Parts)
      BY <1>0
    <2>2. out'.torn = {}
      BY <1>a DEF AssessInv, WritingInv
    <2>3. ASSUME NEW i \in 1..Len(left'), NEW j \in 1..Len(left'), left'[i] = left'[j]
          PROVE  i = j
      BY <1>0, <2>3 DEF AssessInv, WritingInv
    <2>4. ASSUME NEW i \in 1..Len(left')
          PROVE  left'[i] \notin out'.whole
      <3>1. i + 1 \in 1..Len(left) /\ 1 \in 1..Len(left) /\ left'[i] = left[i + 1]
        BY <1>0
      <3>2. left[i + 1] # left[1]
        BY <3>1 DEF AssessInv, WritingInv
      <3>3. QED
        BY <1>a, <3>1, <3>2 DEF AssessInv, WritingInv
    <2>5. QED
      BY <2>1, <2>2, <2>3, <2>4 DEF WritingInv
  <1>4. VerdictInv' /\ AS!EveryItemAnswered' /\ AS!PassCountsAll'
    BY NotGraded DEF AssessInv, VerdictInv
  <1>5. QED
    BY <1>1, <1>2, <1>3, <1>4 DEF AssessInv

LEMMA CrashStep ==
  ASSUME AssessInv, AS!Crash
  PROVE  AssessInv'
  <1> USE DEF AS!Crash
  <1>0. /\ out' = out \/ out' = [out EXCEPT !.torn = {left[1]}]
        /\ left \in Seq(Parts) /\ Len(left) \in Nat \ {0}
    BY DEF AssessInv, WritingInv
  <1>a. /\ DOMAIN out' = DOMAIN out /\ out'.whole = out.whole
        /\ out'.torn = out.torn \/ out'.torn = {left[1]}
        /\ out'.took = out.took /\ out'.ran = out.ran /\ out'.verified = out.verified
    BY <1>0 DEF AssessInv, FactsInv
  <1>1. ControlInv' /\ TestInv'
    BY DEF AssessInv, ControlInv, TestInv
  <1>2. FactsInv'
    BY <1>a DEF AssessInv, FactsInv
  <1>3. WritingInv'
    <2>1. left[1] \notin out.whole /\ out.torn = {}
      BY <1>0 DEF AssessInv, WritingInv
    <2>2. QED
      BY <1>a, <2>1 DEF WritingInv
  <1>4. VerdictInv' /\ AS!EveryItemAnswered' /\ AS!PassCountsAll'
    BY NotGraded DEF AssessInv, VerdictInv
  <1>5. QED
    BY <1>1, <1>2, <1>3, <1>4 DEF AssessInv

LEMMA ExitStep ==
  ASSUME AssessInv, AS!Exit
  PROVE  AssessInv'
  <1> USE DEF AS!Exit
  <1>1. ControlInv' /\ TestInv'
    BY DEF AssessInv, ControlInv, TestInv
  <1>2. FactsInv' /\ WritingInv'
    BY DEF AssessInv, FactsInv, WritingInv
  <1>3. VerdictInv' /\ AS!EveryItemAnswered' /\ AS!PassCountsAll'
    BY NotGraded DEF AssessInv, VerdictInv
  <1>4. QED
    BY <1>1, <1>2, <1>3 DEF AssessInv

\* An execution that is run again has its verdicts from before until it has new ones.
LEMMA RetryStep ==
  ASSUME AS!AssessmentAssumption, AssessInv, AS!Retry
  PROVE  AssessInv'
  <1> USE DEF AS!Retry
  <1>1. ControlInv'
    <2>1. clean' \in BOOLEAN
      BY Zenon
    <2>2. QED
      BY <2>1 DEF AssessInv, ControlInv, AS!AssessmentAssumption
  <1>2. TestInv' /\ FactsInv' /\ WritingInv'
    BY DEF AssessInv, TestInv, FactsInv, WritingInv, AS!NoOutput
  <1>3. VerdictInv' /\ AS!EveryItemAnswered' /\ AS!PassCountsAll'
    BY NotGraded DEF AssessInv
  <1>4. QED
    BY <1>1, <1>2, <1>3 DEF AssessInv

-----------------------------------------------------------------------------
(* The step from what is left of the output to the verdicts. *)

LEMMA ConcludeVerdicts ==
  ASSUME VerdictInv, NEW v, AS!Conclude(v), DOMAIN v # {},
         \A i \in DOMAIN v : v[i] \in AS!Outcomes
  PROVE  VerdictInv'
  <1>1. /\ DOMAIN verdicts' = DOMAIN v \cup DOMAIN verdicts
        /\ \A i \in DOMAIN verdicts' :
             verdicts'[i] = IF i \in DOMAIN v THEN v[i] ELSE verdicts[i]
    BY DEF AS!Conclude, AS!Also
  <1>2. \A i \in DOMAIN verdicts' : verdicts'[i] \in AS!Outcomes
    BY <1>1 DEF VerdictInv
  <1>3. latest' = v /\ aPc' = "graded"
    BY DEF AS!Conclude
  <1>4. v # AS!NoVerdicts
    BY DEF AS!NoVerdicts
  <1>5. QED
    BY <1>2, <1>3, <1>4 DEF VerdictInv

\* A pass has no item that failed, and one that passed.
LEMMA PassIsWhole ==
  ASSUME NEW v, AS!summarize(v) = "pass"
  PROVE  /\ \A i \in DOMAIN v : v[i] \notin {"fail", "error"}
         /\ \E i \in DOMAIN v : v[i] = "pass"
  <1> DEFINE said == {v[i] : i \in DOMAIN v}
  <1>1. AS!summarize(v) = IF said = {} \/ "error" \in said THEN "error"
                          ELSE IF "fail" \in said THEN "fail"
                          ELSE IF "pass" \in said THEN "pass" ELSE "skip"
    BY Zenon DEF AS!summarize
  <1> HIDE DEF said
  <1>2. "error" \notin said /\ "fail" \notin said /\ "pass" \in said
    BY <1>1
  <1>3. QED
    BY <1>2 DEF said

\* The same verdict on every item, of which there is always one.
LEMMA SameOnAll ==
  ASSUME NEW t, NEW o
  PROVE  /\ DOMAIN AS!itemVerdicts(t, o) # {}
         /\ DOMAIN t.slas \cup DOMAIN t.checks \subseteq DOMAIN AS!itemVerdicts(t, o)
         /\ \A i \in DOMAIN AS!itemVerdicts(t, o) : AS!itemVerdicts(t, o)[i] = o
  BY DEF AS!itemVerdicts, AS!HasItems

\* Failing as a whole leaves no pass and no item without a verdict.
LEMMA FailsAsWhole ==
  ASSUME AssessInv, NEW o \in {"fail", "error"}, AS!Conclude(AS!itemVerdicts(test, o)),
         UNCHANGED test
  PROVE  /\ VerdictInv'
         /\ AS!EveryItemAnswered'
         /\ AS!PassCountsAll'
  <1> DEFINE v == AS!itemVerdicts(test, o)
  <1>1. /\ DOMAIN v # {} /\ \A i \in DOMAIN v : v[i] = o
        /\ DOMAIN test.slas \cup DOMAIN test.checks \subseteq DOMAIN v
    BY SameOnAll
  <1>2. latest' = v
    BY DEF AS!Conclude
  <1> HIDE DEF v
  <1>3. VerdictInv'
    BY <1>1, ConcludeVerdicts DEF AssessInv, AS!Outcomes, v
  <1>4. AS!EveryItemAnswered'
    BY <1>1, <1>2 DEF AS!EveryItemAnswered
  <1>5. AS!summarize(v) # "pass"
    BY <1>1, PassIsWhole
  <1>6. AS!PassCountsAll'
    BY <1>2, <1>5 DEF AS!PassCountsAll
  <1>7. QED
    BY <1>3, <1>4, <1>6

LEMMA ExpireStep ==
  ASSUME AssessInv, AS!Expire
  PROVE  AssessInv'
  <1> USE DEF AS!Expire
  <1>1. ControlInv'
    BY DEF AssessInv, ControlInv, AS!Conclude
  <1>2. TestInv' /\ FactsInv' /\ WritingInv'
    BY DEF AssessInv, TestInv, FactsInv, WritingInv, AS!Conclude
  <1>3. VerdictInv' /\ AS!EveryItemAnswered' /\ AS!PassCountsAll'
    BY FailsAsWhole
  <1>4. QED
    BY <1>1, <1>2, <1>3 DEF AssessInv

\* What parseSummary says of the VMs stays what the scenario's own parser says of
\* them, whatever metrics it adds.
LEMMA SummaryNative ==
  ASSUME NEW o
  PROVE  \A base :
           LET res == AS!parseSummary(o, base) IN
           \/ res = AS!Refused
           \/ /\ DOMAIN res = {"native", "metrics", "checks"}
              /\ res.native = AS!Is(AS!Failed(o) = 0)
  <1> TAKE base
  <1> DEFINE res == AS!parseSummary(o, base)
             x == AS!Is(AS!Failed(o) = 0)
             refused == "summary" \in o.torn \/ Len(o.took) = 0
  <1>1. refused => res = AS!Refused
    BY Zenon DEF AS!parseSummary
  <1> HIDE DEF x
  <1>2. ~refused => DOMAIN res = {"native", "metrics", "checks"}
    BY SMT DEF AS!parseSummary, AS!Result
  <1>3. ~refused => res.native = x
    BY SMT DEF AS!parseSummary, AS!Result, x
  <1>4. QED
    BY <1>1, <1>2, <1>3 DEF x

\* One parser for each kind of test.
LEMMA ParserOf ==
  ASSUME NEW t
  PROVE  /\ t.kind = "storm" => AS!Parse(t) = AS!ParseBootStorm(out)
         /\ t.kind = "clone" => AS!Parse(t) = AS!ParseClones(out)
         /\ t.kind = "fio" => AS!Parse(t) = AS!ParseFIO(out)
         /\ t.kind = "drain" => AS!Parse(t) = AS!ParseDrain(out)
         /\ t.kind = "recovery" => AS!Parse(t) = AS!ParseFailureRecovery(out)
         /\ t.kind = "diskops" => AS!Parse(t) = AS!ParseDiskOps(out)
         /\ t.kind \in AS!KubeBurner =>
              \E p, z \in BOOLEAN : AS!Parse(t) = AS!ParseSnapshots(out, p, z)
         /\ t.kind \in AS!KubeBurnerOcp => AS!Parse(t) = AS!ParseWorkload(out, t.kind)
  <1>1. /\ t.kind = "storm" => AS!Parse(t) = AS!ParseBootStorm(out)
        /\ t.kind = "clone" => AS!Parse(t) = AS!ParseClones(out)
        /\ t.kind = "fio" => AS!Parse(t) = AS!ParseFIO(out)
    BY DEF AS!Parse, AS!KubeBurner
  <1>2. /\ t.kind = "drain" => AS!Parse(t) = AS!ParseDrain(out)
        /\ t.kind = "recovery" => AS!Parse(t) = AS!ParseFailureRecovery(out)
        /\ t.kind = "diskops" => AS!Parse(t) = AS!ParseDiskOps(out)
    BY DEF AS!Parse, AS!KubeBurner
  <1>3. t.kind = "snapshot" => AS!Parse(t) = AS!ParseSnapshots(out, FALSE, FALSE)
    BY DEF AS!Parse, AS!KubeBurner
  <1>4. t.kind = "depth" => AS!Parse(t) = AS!ParseSnapshots(out, TRUE, TRUE)
    BY DEF AS!Parse, AS!KubeBurner
  <1>5. t.kind \in AS!KubeBurnerOcp => AS!Parse(t) = AS!ParseWorkload(out, t.kind)
    BY DEF AS!Parse, AS!KubeBurner, AS!KubeBurnerOcp
  <1>6. QED
    BY <1>1, <1>2, <1>3, <1>4, <1>5 DEF AS!KubeBurner

\* A virtbench scenario that its own verdict passes, single-node apart, has no VM that
\* failed.
LEMMA VirtbenchNative ==
  ASSUME NEW t, t.kind \in AS!Virtbench, t.kind # "ceiling",
         out.took \in Seq(Nat),
         t.kind = "drain" => "after" \in out.whole,
         AS!Parse(t).native \notin {"fail", "refused"}
  PROVE  AS!Failed(out) = 0
  <1>0. AS!Failed(out) \in Nat /\ (AS!Failed(out) > 0 <=> AS!Failed(out) # 0)
    BY FailedIsNat
  <1>a. AS!Refused.native = "refused" /\ AS!Is(FALSE) = "fail"
    BY DEF AS!Refused, AS!Result, AS!Is
  <1>b. \A n, m, c : AS!Result(n, m, c).native = n
    BY DEF AS!Result
  <1>c. \A base : LET res == AS!parseSummary(out, base) IN
          res = AS!Refused \/ (DOMAIN res = {"native", "metrics", "checks"}
                               /\ res.native = AS!Is(AS!Failed(out) = 0))
    BY SummaryNative
  <1>d. \A res, m : "native" \in DOMAIN res => AS!With(res, m).native = res.native
    BY DEF AS!With
  <1>1. CASE t.kind = "storm"
    <2>1. AS!Parse(t) = AS!ParseBootStorm(out)
      BY <1>1, ParserOf
    <2> DEFINE res == AS!parseSummary(out, "time_to_running")
    <2>2. AS!ParseBootStorm(out) = res \/ \E m : AS!ParseBootStorm(out) = AS!With(res, m)
      BY Zenon DEF AS!ParseBootStorm
    <2>3. res = AS!Refused \/ (DOMAIN res = {"native", "metrics", "checks"}
                               /\ res.native = AS!Is(AS!Failed(out) = 0))
      BY <1>c
    <2>4. "native" \in DOMAIN AS!Refused
      BY DEF AS!Refused, AS!Result
    <2> HIDE DEF res
    <2>5. QED
      BY <1>a, <1>d, <2>1, <2>2, <2>3, <2>4
  <1>2. CASE t.kind = "clone"
    <2>1. AS!Parse(t) = AS!ParseClones(out)
      BY <1>2, ParserOf
    <2> DEFINE res == AS!parseSummary(out, "clone_duration")
    <2>2. res = AS!Refused \/ (DOMAIN res = {"native", "metrics", "checks"}
                               /\ res.native = AS!Is(AS!Failed(out) = 0))
      BY <1>c
    <2> HIDE DEF res
    <2>3. AS!ParseClones(out).native \in {"refused", res.native}
      BY <1>a, <1>d, <2>2, SMT DEF AS!ParseClones, res
    <2>4. QED
      BY <1>a, <2>1, <2>2, <2>3
  <1>3. CASE t.kind = "fio"
    <2>1. AS!Parse(t) = AS!ParseFIO(out)
      BY <1>3, ParserOf
    <2>2. AS!Failed(out) > 0 => AS!ParseFIO(out).native \in {"refused", "fail"}
      BY SMT, <1>a, <1>b DEF AS!ParseFIO
    <2>3. QED
      BY <1>0, <2>1, <2>2
  <1>4. CASE t.kind = "drain"
    <2>1. AS!Parse(t) = AS!ParseDrain(out)
      BY <1>4, ParserOf
    <2>2. AS!ParseDrain(out).native \in {"refused", AS!Is(AS!Failed(out) = 0)}
      BY <1>4, SMT DEF AS!ParseDrain, AS!Result, AS!Refused
    <2>3. QED
      BY <1>a, <2>1, <2>2
  <1>5. CASE t.kind = "recovery"
    <2>1. AS!Parse(t) = AS!ParseFailureRecovery(out)
      BY <1>5, ParserOf
    <2> DEFINE res == AS!parseSummary(out, "vm_ha_restart_time")
    <2>2. AS!ParseFailureRecovery(out) = AS!Refused
          \/ \E c : AS!ParseFailureRecovery(out) = [res EXCEPT !.checks = c]
      BY Zenon DEF AS!ParseFailureRecovery
    <2>3. res = AS!Refused \/ (DOMAIN res = {"native", "metrics", "checks"}
                               /\ res.native = AS!Is(AS!Failed(out) = 0))
      BY <1>c
    <2>4. "native" \in DOMAIN AS!Refused
      BY DEF AS!Refused, AS!Result
    <2> HIDE DEF res
    <2>5. \A c : [res EXCEPT !.checks = c].native = res.native
      BY <2>3, <2>4
    <2>6. QED
      BY <1>a, <2>1, <2>2, <2>3, <2>5
  <1>6. CASE t.kind = "diskops"
    <2>1. AS!Parse(t) = AS!ParseDiskOps(out)
      BY <1>6, ParserOf
    <2>2. AS!ParseDiskOps(out).native \in {"refused", AS!Is(AS!Failed(out) = 0)}
      BY SMT DEF AS!ParseDiskOps, AS!Result, AS!Refused
    <2>3. QED
      BY <1>a, <2>1, <2>2
  <1>7. QED
    BY <1>1, <1>2, <1>3, <1>4, <1>5, <1>6 DEF AS!Virtbench

\* With every job waited for, kube-burner's own verdict is that none of its objects
\* failed.
LEMMA SnapshotsNative ==
  ASSUME NEW p \in BOOLEAN, NEW z \in BOOLEAN, out.verified, out.took \in Seq(Nat),
         AS!ParseSnapshots(out, p, z).native \notin {"fail", "refused"}
  PROVE  AS!Failed(out) = 0
  <1>1. AS!jobsPassed(out)
    <2> SUFFICES ASSUME ~AS!jobsPassed(out)
                 PROVE  AS!ParseSnapshots(out, p, z).native \in {"fail", "refused"}
      OBVIOUS
    <2>1. AS!parseResults(out, p, z).native \in {"fail", "refused"}
      BY SMT DEF AS!parseResults, AS!Is, AS!Refused, AS!Result
    <2>2. QED
      BY <2>1, SMT DEF AS!ParseSnapshots, AS!Result
  <1>2. QED
    BY <1>1, Zenon DEF AS!jobsPassed

\* The checks that kube-burner-ocp's workloads report.
LEMMA WorkloadChecks ==
  ASSUME NEW w \in AS!KubeBurnerOcp
  PROVE  LET res == AS!ParseWorkload(out, w)
             fine(c) == c \in DOMAIN res.checks /\ res.checks[c] \in {"pass", "skip"}
         IN /\ w = "density" /\ fine("pvc-1000-bound") =>
                 AS!jobsPassed(out) /\ out.ran = out.asked /\ out.verified
            /\ w = "migration" /\ fine("jobs_passed") => AS!jobsPassed(out)
            /\ w = "parallel" =>
                 \A c \in DOMAIN res.checks :
                   /\ c \in {"jobs_passed", "parallel-lifecycle-20"}
                   /\ c = "jobs_passed" \/ out.ran >= virtParallelCheckVMs =>
                        (res.checks[c] = "pass" => AS!jobsPassed(out))
                   /\ c = "parallel-lifecycle-20" /\ out.ran >= virtParallelCheckVMs =>
                        res.checks[c] # "skip"
                   /\ c = "parallel-lifecycle-20" /\ ~(out.ran >= virtParallelCheckVMs) =>
                        res.checks[c] = "skip"
  <1> DEFINE native == AS!Is(AS!jobsPassed(out))
             none == AS!Result("fail", <<>>, AS!NoChecks)
  <1>0. /\ none.checks = [c \in {} |-> "pass"] /\ AS!Refused.checks = [c \in {} |-> "pass"]
        /\ native = IF AS!jobsPassed(out) THEN "pass" ELSE "fail"
    BY DEF AS!Result, AS!NoChecks, AS!Refused, AS!Is
  <1>1. ASSUME w = "density", NEW res, res = AS!ParseWorkload(out, w),
               "pvc-1000-bound" \in DOMAIN res.checks,
               res.checks["pvc-1000-bound"] \in {"pass", "skip"}
        PROVE  AS!jobsPassed(out) /\ out.ran = out.asked /\ out.verified
    <2> DEFINE r == AS!mapPVCDensityResults(out, native)
    <2>1. res \in {none, AS!Refused, AS!matchIterations(out, r)}
      BY <1>1 DEF AS!ParseWorkload
    <2>2. res = AS!matchIterations(out, r)
      BY <1>0, <1>1, <2>1
    <2>3. /\ DOMAIN r.checks = {"jobs_passed", "pvc-1000-bound"}
          /\ r.checks["pvc-1000-bound"] =
               AS!Is(AS!jobsPassed(out) /\ out.ran > 0 /\ out.verified)
      BY SMT DEF AS!mapPVCDensityResults, AS!Result
    <2> HIDE DEF r
    <2>4. CASE out.asked > 0 /\ out.ran = out.asked
      <3>1. res = r
        BY <2>2, <2>4, Zenon DEF AS!matchIterations
      <3>2. r.checks["pvc-1000-bound"] \in {"pass", "skip"}
        BY <1>1, <3>1
      <3>3. AS!jobsPassed(out) /\ out.ran > 0 /\ out.verified
        BY <2>3, <3>2 DEF AS!Is
      <3>4. QED
        BY <2>4, <3>3
    <2>5. CASE ~(out.asked > 0 /\ out.ran = out.asked)
      <3>1. res = AS!Result("error", r.metrics, [r.checks EXCEPT !["pvc-1000-bound"] = "error"])
        BY <2>2, <2>5, Zenon DEF AS!matchIterations
      <3>2. res.checks = [r.checks EXCEPT !["pvc-1000-bound"] = "error"]
        BY <3>1, Zenon DEF AS!Result
      <3>3. res.checks["pvc-1000-bound"] = "error"
        BY <2>3, <3>2
      <3>4. QED
        BY <1>1, <3>3
    <2>6. QED
      BY <2>4, <2>5
  <1>2. ASSUME w = "migration", NEW res, res = AS!ParseWorkload(out, w),
               "jobs_passed" \in DOMAIN res.checks,
               res.checks["jobs_passed"] \in {"pass", "skip"}
        PROVE  AS!jobsPassed(out)
    <2>1. res \in {none, AS!Refused, AS!mapVirtMigrationResults(out, native)}
      BY <1>2 DEF AS!ParseWorkload
    <2>2. AS!mapVirtMigrationResults(out, native).checks = [c \in {"jobs_passed"} |-> native]
      BY SMT DEF AS!mapVirtMigrationResults, AS!Result
    <2>3. QED
      BY <1>0, <1>2, <2>1, <2>2
  <1>3. ASSUME w = "parallel", NEW res, res = AS!ParseWorkload(out, w), NEW c \in DOMAIN res.checks
        PROVE  /\ c \in {"jobs_passed", "parallel-lifecycle-20"}
               /\ c = "jobs_passed" \/ out.ran >= virtParallelCheckVMs =>
                    (res.checks[c] = "pass" => AS!jobsPassed(out))
               /\ c = "parallel-lifecycle-20" /\ out.ran >= virtParallelCheckVMs =>
                    res.checks[c] # "skip"
               /\ c = "parallel-lifecycle-20" /\ ~(out.ran >= virtParallelCheckVMs) =>
                    res.checks[c] = "skip"
    <2>1. res \in {none, AS!Refused, AS!mapVirtParallelResults(out, native)}
      BY <1>3 DEF AS!ParseWorkload
    <2>2. AS!mapVirtParallelResults(out, native).checks =
            [k \in {"jobs_passed", "parallel-lifecycle-20"} |->
               IF k = "jobs_passed" \/ out.ran >= virtParallelCheckVMs THEN native ELSE "skip"]
      BY SMT DEF AS!mapVirtParallelResults, AS!Result
    <2>3. QED
      BY <1>0, <1>3, <2>1, <2>2
  <1>4. QED
    BY <1>1, <1>2, <1>3

\* A check that counts is graded as the tool's output has it.
LEMMA ReportedCheck ==
  ASSUME NEW t, NEW res, NEW id, AS!Reports(t, id), \A i \in DOMAIN t.slas : i.kind = "sla",
         \A i \in DOMAIN AS!Graded(t, res) : AS!Graded(t, res)[i] \notin {"fail", "error"}
  PROVE  id \in DOMAIN res.checks /\ res.checks[id] \in {"pass", "skip"}
  <1> DEFINE i == AS!Check(id)
  <1>1. i \in DOMAIN t.checks /\ i \notin DOMAIN t.slas /\ i.name = id
    BY DEF AS!Reports, AS!Check
  <1>2. AS!Graded(t, res)[i] = AS!gradeCheck(t, i, res.checks) /\ i \in DOMAIN AS!Graded(t, res)
    BY <1>1 DEF AS!Graded, AS!Also, AS!GradeSLAs, AS!GradeChecks
  <1>3. ~(t.checks[i].status = "to-be-validated" \/ t.checks[i].kind = "manual")
    BY DEF AS!Reports
  <1> HIDE DEF i
  <1>4. AS!gradeCheck(t, i, res.checks) =
          IF id \notin DOMAIN res.checks THEN "error"
          ELSE IF res.checks[id] \in AS!Outcomes THEN res.checks[id] ELSE "error"
    BY <1>1, <1>3 DEF AS!gradeCheck
  <1>5. QED
    BY <1>2, <1>4 DEF AS!Outcomes

\* Which evaluator has the last word.
LEMMA EvaluatorOf ==
  ASSUME NEW t, NEW res
  PROVE  LET v == AS!GradeTR(AS!Evaluator(t.kind), t, res) IN
         /\ t.kind \in AS!Virtbench => v = AS!scenarioEvaluator(t, res)
         /\ t.kind \in AS!KubeBurner => v = AS!snapshotEvaluator(t, res)
         /\ t.kind \in {"density", "parallel"} => v = AS!NativeOrGraded(t, res)
         /\ t.kind = "migration" => v = AS!Graded(t, res)
         /\ AS!Evaluator(t.kind) \in {"scenario", "built in"}
              <=> t.kind \notin AS!KubeBurner \cup {"density", "parallel"}
  BY DEF AS!Evaluator, AS!GradeTR, AS!Virtbench, AS!KubeBurner

\* Whatever a test is graded to has an outcome, there is one, and all of the items are
\* there unless the tool's own verdict is that it failed.
LEMMA Evaluated ==
  ASSUME AS!AssessmentAssumption, TestInv,
         AS!Parse(test).native # "refused",
         NEW v, v = AS!GradeTR(AS!Evaluator(test.kind), test, AS!Parse(test))
  PROVE  /\ DOMAIN v # {}
         /\ \A i \in DOMAIN v : v[i] \in AS!Outcomes
         /\ \/ DOMAIN test.slas \cup DOMAIN test.checks \subseteq DOMAIN v
            \/ \E i \in DOMAIN v : i.kind = "native" /\ v[i] = "fail"
  <1> DEFINE res == AS!Parse(test)
             own == AS!Native("jobs_passed")
             items == DOMAIN test.slas \cup DOMAIN test.checks
             g == AS!Graded(test, res)
  <1>0. /\ test.kind \in AS!Virtbench \cup AS!KubeBurner \cup AS!KubeBurnerOcp
        /\ test.kind \notin AS!KubeBurner \cup {"density", "parallel"} => AS!HasItems(test)
    BY EvaluatorOf DEF TestInv, AS!AssessmentAssumption, AS!CatalogAssumption, AS!HasItems
  <1>1. DOMAIN g = items /\ \A i \in DOMAIN g : g[i] \in AS!Outcomes
    BY GradedVerdicts
  <1>2. AS!HasItems(test) <=> items # {}
    BY DEF AS!HasItems
  <1>3. test.kind \notin AS!Virtbench => res.native \in {"pass", "fail", "error"}
    <2>1. CASE test.kind \in AS!KubeBurner
      <3>1. PICK p \in BOOLEAN, z \in BOOLEAN : res = AS!ParseSnapshots(out, p, z)
        BY <2>1, ParserOf
      <3>2. QED
        BY <3>1, NativeVerdicts
    <2>2. CASE test.kind \in AS!KubeBurnerOcp
      BY <2>2, ParserOf, NativeVerdicts
    <2>3. QED
      BY <1>0, <2>1, <2>2
  <1> HIDE DEF res, g
  <1>4. \A i : \A o \in {"pass", "fail", "error"} :
          DOMAIN AS!Single(i, o) = {i} /\ AS!Single(i, o)[i] = o
    BY DEF AS!Single
  <1>5. CASE test.kind \in AS!Virtbench
    <2>1. v = AS!scenarioEvaluator(test, res)
      BY <1>5, EvaluatorOf DEF res
    <2>2. CASE res.native = "fail"
      <3> DEFINE lost == AS!Native("all_vms_succeeded")
      <3>1. v = AS!Single(lost, "fail")
        BY <2>1, <2>2 DEF AS!scenarioEvaluator
      <3>2. lost.kind = "native"
        BY DEF AS!Native
      <3> HIDE DEF lost
      <3>3. DOMAIN v = {lost} /\ v[lost] = "fail"
        BY <1>4, <3>1
      <3>4. QED
        BY <3>2, <3>3 DEF AS!Outcomes
    <2>3. CASE res.native # "fail"
      <3>1. v = g
        BY <2>1, <2>3 DEF AS!scenarioEvaluator, g
      <3>2. items # {}
        BY <1>0, <1>2, <1>5 DEF AS!Virtbench, AS!KubeBurner
      <3>3. QED
        BY <1>1, <3>1, <3>2
    <2>4. QED
      BY <2>2, <2>3
  <1>6. CASE test.kind \in AS!KubeBurner
    <2>1. v = AS!Also(AS!Single(own, res.native), g)
      BY <1>6, EvaluatorOf DEF res, g, AS!snapshotEvaluator
    <2>2. res.native \in {"pass", "fail", "error"}
      BY <1>3, <1>6 DEF AS!Virtbench, AS!KubeBurner
    <2>3. /\ DOMAIN AS!Single(own, res.native) = {own}
          /\ AS!Single(own, res.native)[own] = res.native
      BY <1>4, <2>2
    <2>4. DOMAIN v = {own} \cup DOMAIN g
          /\ \A i \in DOMAIN v : v[i] = IF i = own THEN res.native ELSE g[i]
      BY <2>1, <2>3 DEF AS!Also
    <2>5. QED
      BY <1>1, <2>2, <2>4 DEF AS!Outcomes
  <1>7. CASE test.kind \in {"density", "parallel"}
    <2>1. v = AS!NativeOrGraded(test, res)
      BY <1>7, EvaluatorOf DEF res
    <2>2. res.native \in {"pass", "fail", "error"}
      BY <1>3, <1>7 DEF AS!Virtbench
    <2>3. CASE AS!HasItems(test)
      BY <1>1, <1>2, <2>1, <2>3 DEF AS!NativeOrGraded, g
    <2>4. CASE ~AS!HasItems(test)
      <3>1. v = AS!Single(own, res.native)
        BY <2>1, <2>4 DEF AS!NativeOrGraded
      <3>2. items = {}
        BY <1>2, <2>4
      <3> HIDE DEF own
      <3>3. DOMAIN v = {own} /\ v[own] = res.native
        BY <1>4, <2>2, <3>1
      <3>4. QED
        BY <2>2, <3>2, <3>3 DEF AS!Outcomes
    <2>5. QED
      BY <2>3, <2>4
  <1>8. CASE test.kind = "migration"
    <2>1. v = g
      BY <1>8, EvaluatorOf DEF res, g
    <2>2. items # {}
      BY <1>0, <1>2, <1>8 DEF AS!KubeBurner
    <2>3. QED
      BY <1>1, <2>1, <2>2
  <1>9. QED
    BY <1>0, <1>5, <1>6, <1>7, <1>8 DEF AS!KubeBurnerOcp

\* A test that is graded to a pass from an output that tells what became of its objects
\* has done all that it was to do.
LEMMA GradedPassCounts ==
  ASSUME AS!AssessmentAssumption, AssessInv, AS!TellsAll, aPc = "exited",
         AS!Parse(test).native # "refused",
         AS!summarize(AS!GradeTR(AS!Evaluator(test.kind), test, AS!Parse(test))) = "pass"
  PROVE  AS!AllSucceeded
  <1> USE DEF AS!AllSucceeded
  <1> DEFINE res == AS!Parse(test)
             g == AS!Graded(test, res)
             v == AS!GradeTR(AS!Evaluator(test.kind), test, res)
  <1>1. /\ \A i \in DOMAIN v : v[i] \notin {"fail", "error"}
        /\ \E i \in DOMAIN v : v[i] = "pass"
    BY PassIsWhole
  <1>2. out.took \in Seq(Nat) /\ (test.kind # "density" => out.ran = test.params.objects /\ out.verified)
    BY DEF AssessInv, FactsInv
  <1>3. /\ test.kind \in AS!Virtbench \cup AS!KubeBurner \cup AS!KubeBurnerOcp
        /\ \A i \in DOMAIN test.slas : i.kind = "sla"
        /\ test.kind = "recovery" => AS!Reports(test, "node-failure-vm-recovery")
        /\ test.kind = "density" => AS!Reports(test, "pvc-1000-bound")
        /\ test.kind = "migration" => AS!Reports(test, "jobs_passed")
        /\ test.kind = "parallel" => AS!Reports(test, "parallel-lifecycle-20")
    BY DEF AssessInv, TestInv, AS!AssessmentAssumption, AS!CatalogAssumption, AS!Reports
  <1>4. AS!jobsPassed(out) /\ out.verified => AS!Failed(out) = 0
    BY Zenon DEF AS!jobsPassed
  <1> HIDE DEF res, g, v
  <1>5. CASE test.kind \in AS!Virtbench
    <2>1. v = AS!scenarioEvaluator(test, res)
      BY <1>5, EvaluatorOf DEF res, v
    <2>2. res.native # "fail" /\ v = g
      <3>1. CASE res.native = "fail"
        <4>1. v = AS!Single(AS!Native("all_vms_succeeded"), "fail")
          BY <2>1, <3>1 DEF AS!scenarioEvaluator
        <4>2. \E i \in DOMAIN v : v[i] = "fail"
          BY <4>1 DEF AS!Single
        <4>3. QED
          BY <1>1, <4>2
      <3>2. QED
        BY <2>1, <3>1 DEF AS!scenarioEvaluator, g
    <2>3. test.kind # "ceiling" => AS!Failed(out) = 0
      BY <1>2, <1>5, <2>2, VirtbenchNative DEF res, AS!TellsAll
    <2>4. test.kind = "recovery" => out.pinged = Len(out.took)
      <3> SUFFICES ASSUME test.kind = "recovery" PROVE out.pinged = Len(out.took)
        OBVIOUS
      <3> DEFINE c == "node-failure-vm-recovery"
                 s == AS!parseSummary(out, "vm_ha_restart_time")
      <3>1. c \in DOMAIN res.checks /\ res.checks[c] \in {"pass", "skip"}
        BY <1>1, <1>3, <2>2, ReportedCheck DEF g
      <3>2. res = AS!ParseFailureRecovery(out)
        BY ParserOf DEF res
      <3>3. s # AS!Refused /\ DOMAIN s = {"native", "metrics", "checks"}
        <4>1. DOMAIN AS!Refused.checks = {}
          BY DEF AS!Refused, AS!Result, AS!NoChecks
        <4>2. s = AS!Refused => res = AS!Refused
          BY <3>2, Zenon DEF AS!ParseFailureRecovery
        <4>3. QED
          BY <3>1, <4>1, <4>2, SummaryNative
      <3> HIDE DEF s
      <3>4. res.checks[c] = AS!Is(s.native = "pass" /\ out.pinged = Len(out.took))
        BY <3>2, <3>3 DEF AS!ParseFailureRecovery, s
      <3>5. QED
        BY <3>1, <3>4 DEF AS!Is
    <2>5. QED
      BY <1>5, <2>3, <2>4 DEF AS!Virtbench
  <1>6. CASE test.kind \in AS!KubeBurner
    <2> DEFINE own == AS!Native("jobs_passed")
    <2>1. v = AS!Also(AS!Single(own, res.native), g)
      BY <1>6, EvaluatorOf DEF res, g, v, AS!snapshotEvaluator
    <2>2. PICK p \in BOOLEAN, z \in BOOLEAN : res = AS!ParseSnapshots(out, p, z)
      BY <1>6, ParserOf DEF res
    <2>3. res.native \in {"pass", "fail", "refused"}
      BY <2>2, NativeVerdicts
    <2>4. own \in DOMAIN v /\ v[own] = res.native
      BY <2>1, <2>3 DEF AS!Also, AS!Single
    <2>5. res.native \notin {"fail", "refused"}
      BY <1>1, <2>4 DEF res
    <2>6. out.verified
      BY <1>2, <1>6 DEF AS!KubeBurner
    <2>7. AS!Failed(out) = 0
      BY <1>2, <2>2, <2>5, <2>6, SnapshotsNative
    <2>8. QED
      BY <1>6, <2>7 DEF AS!KubeBurner
  <1>7. CASE test.kind \in AS!KubeBurnerOcp
    <2>1. res = AS!ParseWorkload(out, test.kind)
      BY <1>7, ParserOf DEF res
    <2>2. v = g
      <3>1. AS!HasItems(test)
        BY <1>3, <1>7 DEF AS!KubeBurnerOcp, AS!HasItems, AS!Reports
      <3>2. QED
        BY <1>7, <3>1, EvaluatorOf DEF AS!KubeBurnerOcp, AS!NativeOrGraded, res, v, g
    <2>3. \A id : AS!Reports(test, id) =>
            id \in DOMAIN res.checks /\ res.checks[id] \in {"pass", "skip"}
      BY <1>1, <1>3, <2>2, ReportedCheck DEF g
    <2>4. CASE test.kind = "density"
      BY <1>3, <1>4, <1>7, <2>1, <2>3, <2>4, WorkloadChecks
    <2>5. CASE test.kind = "migration"
      BY <1>2, <1>3, <1>4, <1>7, <2>1, <2>3, <2>5, WorkloadChecks
    <2>6. CASE test.kind = "parallel"
      <3>1. out.ran >= virtParallelCheckVMs
        BY <2>6 DEF AS!TellsAll
      <3>2. "parallel-lifecycle-20" \in DOMAIN res.checks
            /\ res.checks["parallel-lifecycle-20"] \in {"pass", "skip"}
        BY <1>3, <2>3, <2>6
      <3>3. AS!jobsPassed(out)
        BY <1>7, <2>1, <2>6, <3>1, <3>2, WorkloadChecks
      <3>4. QED
        BY <1>2, <1>4, <2>6, <3>3
    <2>7. QED
      BY <1>7, <2>4, <2>5, <2>6 DEF AS!KubeBurnerOcp
  <1>8. QED
    BY <1>3, <1>5, <1>6, <1>7

LEMMA AssessStep ==
  ASSUME AS!AssessmentAssumption, AssessInv, AS!Assess
  PROVE  AssessInv'
  <1> DEFINE res == AS!Parse(test)
             v == AS!GradeTR(AS!Evaluator(test.kind), test, res)
             lost == \/ test.kind \in AS!Virtbench /\ ~clean /\ ~AS!TolerateRunError(test.kind)
                     \/ ~AS!Collected(test)
                     \/ res.native = "refused"
  <1>0. /\ aPc = "exited" /\ UNCHANGED <<test, out, clean, left, attempt>>
        /\ aPc' = "graded"
        /\ \/ lost /\ AS!Conclude(AS!itemVerdicts(test, "error"))
           \/ ~lost /\ AS!Conclude(v)
    BY Zenon DEF AS!Assess, AS!Conclude
  <1>1. ControlInv'
    BY <1>0 DEF AssessInv, ControlInv
  <1>2. TestInv' /\ FactsInv' /\ WritingInv'
    BY <1>0 DEF AssessInv, TestInv, FactsInv, WritingInv
  <1>3. VerdictInv' /\ AS!EveryItemAnswered' /\ AS!PassCountsAll'
    <2>1. CASE lost /\ AS!Conclude(AS!itemVerdicts(test, "error"))
      BY <1>0, <2>1, FailsAsWhole
    <2>2. CASE ~lost /\ AS!Conclude(v)
      <3>1. res.native # "refused" /\ latest' = v
        BY <2>2 DEF AS!Conclude
      <3>2. /\ DOMAIN v # {}
            /\ \A i \in DOMAIN v : v[i] \in AS!Outcomes
            /\ \/ DOMAIN test.slas \cup DOMAIN test.checks \subseteq DOMAIN v
               \/ \E i \in DOMAIN v : i.kind = "native" /\ v[i] = "fail"
        BY <3>1, Evaluated DEF AssessInv
      <3>3. AS!TellsAll /\ AS!summarize(v) = "pass" => AS!AllSucceeded
        BY <1>0, <3>1, GradedPassCounts
      <3> HIDE DEF v
      <3>4. VerdictInv'
        BY <2>2, <3>2, ConcludeVerdicts DEF AssessInv
      <3>5. AS!EveryItemAnswered'
        BY <1>0, <3>1, <3>2 DEF AS!EveryItemAnswered
      <3>6. AS!PassCountsAll'
        BY <1>0, <3>1, <3>3 DEF AS!PassCountsAll, AS!TellsAll, AS!AllSucceeded
      <3>7. QED
        BY <3>4, <3>5, <3>6
    <2>3. QED
      BY <1>0, <2>1, <2>2
  <1>4. QED
    BY <1>1, <1>2, <1>3 DEF AssessInv

LEMMA AssessInvHolds ==
  ASSUME AS!AssessmentAssumption
  PROVE  AS!Spec => []AssessInv
  <1>1. AS!Init => AssessInv
    BY AssessInit
  <1>2. AssessInv /\ [AS!Next]_(AS!vars) => AssessInv'
    <2> SUFFICES ASSUME AssessInv, [AS!Next]_(AS!vars)
                 PROVE  AssessInv'
      OBVIOUS
    <2>1. CASE AS!Execute
      BY <2>1, ExecuteStep
    <2>2. CASE AS!Write
      BY <2>2, WriteStep
    <2>3. CASE AS!Crash
      BY <2>3, CrashStep
    <2>4. CASE AS!Exit
      BY <2>4, ExitStep
    <2>5. CASE AS!Assess
      BY <2>5, AssessStep
    <2>6. CASE AS!Expire
      BY <2>6, ExpireStep
    <2>7. CASE AS!Retry
      BY <2>7, RetryStep
    <2>8. CASE UNCHANGED AS!vars
      <3> USE <2>8 DEF AS!vars
      <3>1. ControlInv' /\ TestInv' /\ FactsInv' /\ WritingInv' /\ VerdictInv'
        BY DEF AssessInv, ControlInv, TestInv, FactsInv, WritingInv, VerdictInv
      <3>2. AS!EveryItemAnswered' /\ AS!PassCountsAll'
        BY DEF AssessInv, AS!EveryItemAnswered, AS!PassCountsAll, AS!TellsAll, AS!AllSucceeded
      <3>3. QED
        BY <3>1, <3>2 DEF AssessInv
    <2>9. QED
      BY <2>1, <2>2, <2>3, <2>4, <2>5, <2>6, <2>7, <2>8 DEF AS!Next
  <1>3. QED
    BY <1>1, <1>2, PTL DEF AS!Spec

\* In MCPipeline the assessment takes steps of its own or stutters.
LEMMA AssessmentInPipeline ==
  MCFairSpec => AS!Spec
  <1>1. MCInit => AS!Init
    BY DEF MCInit
  <1>2. ASSUME [MCNext]_allVars
        PROVE  [AS!Next]_(AS!vars)
    BY <1>2 DEF MCNext, allVars, aVars, AS!vars
  <1>3. QED
    BY <1>1, <1>2, PTL DEF MCFairSpec, AS!Spec

\* Every item of the catalog's test has a verdict once it is graded, unless it failed
\* as a whole, wherever the tool or its parser stopped.
THEOREM EveryItemAnsweredHolds ==
  MCFairSpec => []EveryItemAnswered
  <1>1. AS!Spec => []AssessInv
    BY PipelinesAssumption, AssessInvHolds DEF PipelinesAssumption
  <1>2. AssessInv => EveryItemAnswered
    BY DEF AssessInv, EveryItemAnswered
  <1>3. QED
    BY <1>1, <1>2, AssessmentInPipeline, PTL

\* A test passes only if all of its objects did what they were to do, wherever its
\* tool's output is cut off and however often it is run, except a drain whose log stops
\* before the distribution and parallel VMs below the scale of their check.
THEOREM PassCountsAllHolds ==
  MCFairSpec => []AS!PassCountsAll
  <1>1. AS!Spec => []AssessInv
    BY PipelinesAssumption, AssessInvHolds DEF PipelinesAssumption
  <1>2. AssessInv => AS!PassCountsAll
    BY DEF AssessInv
  <1>3. QED
    BY <1>1, <1>2, AssessmentInPipeline, PTL

-----------------------------------------------------------------------------
(* From the catalog to the jobs (SE!Spec). *)

\* The tests that the filter matches, and those of them that the run before has not
\* ended for good.
Matching ==
  {c \in SE!Elements(input.catalog.trs) :
     SE!SelectTRs({c}, SE!Filter(input.plan, input.flags)) # {}}

EndedBefore ==
  input.prior.settled \cup (IF input.retryFailed THEN {} ELSE input.prior.failed)

Wanted == {c \in Matching : c.id \notin EndedBefore}

\* An execution has the values of its variant, else the plan, else the catalog.
HasItsValues(tr) ==
  /\ \A p \in DOMAIN tr.params : tr.params[p] = SE!ValueOf(tr, p)
  /\ \A p \in DOMAIN tr.spec : SE!ValueOf(tr, p) # 0 => p \in DOMAIN tr.params

IsExecutionOf(tr, c) ==
  /\ tr.id = c.id /\ tr.tool = c.tool /\ tr.spec = c.spec
  /\ tr.variant \in SE!VariantsOf(c.id)
  /\ HasItsValues(tr)

\* The documents are read first; what is selected then are tests, and at last their
\* executions, each of them once.
SelectedInv ==
  /\ input \in Inputs
  /\ sPc \in {"resume", "resolve", "classify", "setup", "scheduled"} =>
       SE!ValidCatalog(input.catalog) /\ SE!ValidPlan(input.plan)
  /\ sPc = "resume" => selected = {SE!trFromCatalog(c) : c \in Matching}
  /\ sPc = "resolve" => selected = {SE!trFromCatalog(c) : c \in Wanted}
  /\ sPc \in {"classify", "setup", "scheduled"} =>
       /\ \A tr \in selected : \E c \in Wanted : IsExecutionOf(tr, c)
       /\ \A c \in Wanted : \A v \in SE!VariantsOf(c.id) :
            \E tr \in selected : tr.id = c.id /\ tr.variant = v
       /\ \A t, u \in selected : t.id = u.id /\ t.variant = u.variant => t = u

HasOutcome(tr) == \E r \in results : r.id = tr.id /\ r.variant = tr.variant

\* An execution is still to be scheduled or has its outcome, not both.  A setup goes
\* with all of the variants of its tests.
AnsweredInv ==
  /\ sScorable \subseteq selected
  /\ \A r \in results : r.outcome \in {"skip", "error"}
  /\ sPc \in {"load", "resume", "resolve", "classify", "refused"} =>
       sScorable = {} /\ results = {} /\ setups = {}
  /\ sPc \in {"setup", "scheduled"} =>
       /\ \A tr \in selected : tr \in sScorable <=> ~HasOutcome(tr)
       /\ \A tr \in sScorable : SE!runnable(tr)
       /\ \A s \in setups :
            /\ s.scope \subseteq selected
            /\ \A t \in s.scope, u \in sScorable : u.id = t.id => u \in s.scope

JobsInv ==
  /\ sPc # "scheduled" => jobs = {}
  /\ sPc = "scheduled" => jobs = SE!groupByTool(sScorable, input.plan.scheduling)

SelectInv ==
  /\ sPc \in {"load", "resume", "resolve", "classify", "setup", "scheduled", "refused"}
  /\ SelectedInv /\ AnsweredInv /\ JobsInv

\* What the plan, else the catalog, has for a parameter.
PlanValue(tr, p) ==
  IF tr.id \in DOMAIN input.plan.overrides /\ p \in DOMAIN input.plan.overrides[tr.id]
    THEN input.plan.overrides[tr.id][p]
    ELSE IF p \in DOMAIN tr.spec THEN tr.spec[p].default ELSE 0

\* The values that an execution is to have, without variants and with them.
LEMMA ValueOfExecution ==
  ASSUME SE!ValidPlan(input.plan), NEW tr, NEW p
  PROVE  /\ tr.id \notin DOMAIN input.plan.variants => SE!ValueOf(tr, p) = PlanValue(tr, p)
         /\ tr.id \in DOMAIN input.plan.variants =>
              \A v \in SE!Elements(input.plan.variants[tr.id]) :
                v.name = tr.variant =>
                  SE!ValueOf(tr, p) = IF p \in DOMAIN v.params THEN v.params[p]
                                                               ELSE PlanValue(tr, p)
  <1> DEFINE variant == {v \in UNION {SE!Elements(input.plan.variants[id]) :
                                        id \in {tr.id} \cap DOMAIN input.plan.variants} :
                           v.name = tr.variant /\ p \in DOMAIN v.params}
  <1>1. variant = {} => SE!ValueOf(tr, p) = PlanValue(tr, p)
    BY DEF SE!ValueOf, PlanValue
  <1>2. variant # {} => SE!ValueOf(tr, p) = (CHOOSE v \in variant : TRUE).params[p]
    BY DEF SE!ValueOf
  <1>3. tr.id \notin DOMAIN input.plan.variants => variant = {}
    OBVIOUS
  <1>4. ASSUME tr.id \in DOMAIN input.plan.variants,
               NEW v \in SE!Elements(input.plan.variants[tr.id]), v.name = tr.variant
        PROVE  SE!ValueOf(tr, p) = IF p \in DOMAIN v.params THEN v.params[p]
                                                            ELSE PlanValue(tr, p)
    <2>1. \A w \in SE!Elements(input.plan.variants[tr.id]) : w.name = tr.variant => w = v
      BY <1>4 DEF SE!ValidPlan, SE!Elements
    <2>2. CASE p \in DOMAIN v.params
      <3>1. variant = {v}
        BY <1>4, <2>1, <2>2
      <3> HIDE DEF variant
      <3>2. (CHOOSE w \in variant : TRUE) = v
        BY <3>1
      <3>3. QED
        BY <1>2, <2>2, <3>1, <3>2
    <2>3. CASE p \notin DOMAIN v.params
      <3>1. variant = {}
        BY <1>4, <2>1, <2>3
      <3>2. QED
        BY <1>1, <2>3, <3>1
    <2>4. QED
      BY <2>2, <2>3
  <1> HIDE DEF variant
  <1>5. QED
    BY <1>1, <1>3, <1>4

\* A test of the catalog with the parameters of the plan.
Overridden(c) ==
  [SE!trFromCatalog(c) EXCEPT
     !.params = IF c.id \in DOMAIN input.plan.overrides
                  THEN SE!Over(input.plan.overrides[c.id], @) ELSE @]

LEMMA OverriddenTest ==
  ASSUME NEW c
  PROVE  LET o == Overridden(c) IN
         /\ o.id = c.id /\ o.tool = c.tool /\ o.spec = c.spec /\ o.variant = ""
         /\ DOMAIN o = {"id", "variant", "tool", "level", "scorable", "slas", "spec", "params"}
         /\ \A p \in DOMAIN o.params : o.params[p] = PlanValue(o, p)
         /\ \A p : p \notin DOMAIN o.params => PlanValue(o, p) = 0
  <1> DEFINE b == SE!trFromCatalog(c)
             o == Overridden(c)
             given == SE!paramDefaults(c.spec)
  <1>1. /\ b.id = c.id /\ b.tool = c.tool /\ b.spec = c.spec /\ b.variant = ""
        /\ b.params = given
        /\ DOMAIN b = {"id", "variant", "tool", "level", "scorable", "slas", "spec", "params"}
    BY DEF SE!trFromCatalog
  <1>2. /\ DOMAIN given = {q \in DOMAIN c.spec : c.spec[q].default # 0}
        /\ \A p \in DOMAIN given : given[p] = c.spec[p].default
    BY DEF SE!paramDefaults
  <1> HIDE DEF b, given
  <1>3. /\ o.id = c.id /\ o.tool = c.tool /\ o.spec = c.spec /\ o.variant = ""
        /\ DOMAIN o = {"id", "variant", "tool", "level", "scorable", "slas", "spec", "params"}
        /\ o.params = IF c.id \in DOMAIN input.plan.overrides
                        THEN SE!Over(input.plan.overrides[c.id], given) ELSE given
    BY <1>1 DEF Overridden, b
  <1> HIDE DEF o
  <1>4. CASE c.id \in DOMAIN input.plan.overrides
    <2> DEFINE ov == input.plan.overrides[c.id]
    <2>1. /\ DOMAIN o.params = DOMAIN ov \cup DOMAIN given
          /\ \A p \in DOMAIN o.params :
               o.params[p] = IF p \in DOMAIN ov THEN ov[p] ELSE given[p]
      BY <1>3, <1>4 DEF SE!Over
    <2>2. \A p : PlanValue(o, p) = IF p \in DOMAIN ov THEN ov[p]
                                   ELSE IF p \in DOMAIN c.spec THEN c.spec[p].default ELSE 0
      BY <1>3, <1>4 DEF PlanValue
    <2> HIDE DEF ov
    <2>3. QED
      BY <1>2, <1>3, <2>1, <2>2 DEF o
  <1>5. CASE c.id \notin DOMAIN input.plan.overrides
    <2>1. o.params = given
      BY <1>3, <1>5
    <2>2. \A p : PlanValue(o, p) = IF p \in DOMAIN c.spec THEN c.spec[p].default ELSE 0
      BY <1>3, <1>5 DEF PlanValue
    <2>3. QED
      BY <1>2, <1>3, <2>1, <2>2 DEF o
  <1>6. QED
    BY <1>4, <1>5

\* What Resolve makes of a test are executions of it, one per variant.
LEMMA ExecutionsOfTest ==
  ASSUME SE!ValidPlan(input.plan), NEW c
  PROVE  LET execs == SE!Executions(Overridden(c), input.plan.variants) IN
         /\ \A tr \in execs : IsExecutionOf(tr, c)
         /\ \A v \in SE!VariantsOf(c.id) : \E tr \in execs : tr.id = c.id /\ tr.variant = v
         /\ \A t, u \in execs : t.variant = u.variant => t = u
  <1> DEFINE o == Overridden(c)
             execs == SE!Executions(o, input.plan.variants)
             vs == SE!Elements(input.plan.variants[c.id])
             With(v) == [o EXCEPT !.variant = v.name, !.params = SE!Over(v.params, @)]
  <1>1. /\ o.id = c.id /\ o.tool = c.tool /\ o.spec = c.spec /\ o.variant = ""
        /\ DOMAIN o = {"id", "variant", "tool", "level", "scorable", "slas", "spec", "params"}
        /\ \A p \in DOMAIN o.params : o.params[p] = PlanValue(o, p)
        /\ \A p : p \notin DOMAIN o.params => PlanValue(o, p) = 0
    BY OverriddenTest
  <1> HIDE DEF o
  <1>2. CASE c.id \notin DOMAIN input.plan.variants
    <2>1. execs = {o} /\ SE!VariantsOf(c.id) = {""}
      BY <1>1, <1>2 DEF SE!Executions, SE!VariantsOf
    <2>2. \A p : SE!ValueOf(o, p) = PlanValue(o, p)
      BY <1>1, <1>2, ValueOfExecution
    <2>3. IsExecutionOf(o, c)
      BY <1>1, <2>1, <2>2 DEF IsExecutionOf, HasItsValues
    <2>4. QED
      BY <1>1, <2>1, <2>3 DEF o
  <1>3. CASE c.id \in DOMAIN input.plan.variants
    <2>1. execs = {With(v) : v \in vs} /\ SE!VariantsOf(c.id) = {v.name : v \in vs}
      BY <1>1, <1>3 DEF SE!Executions, SE!VariantsOf
    <2>2. \A v : /\ With(v).id = c.id /\ With(v).tool = c.tool /\ With(v).spec = c.spec
                 /\ With(v).variant = v.name /\ With(v).params = SE!Over(v.params, o.params)
      BY <1>1
    <2>3. \A v, w \in vs : v.name = w.name => v = w
      BY <1>3 DEF SE!ValidPlan, SE!Elements
    <2> HIDE DEF With, vs
    <2>4. ASSUME NEW v \in vs
          PROVE  IsExecutionOf(With(v), c)
      <3> DEFINE tr == With(v)
      <3>1. /\ DOMAIN tr.params = DOMAIN v.params \cup DOMAIN o.params
            /\ \A p \in DOMAIN tr.params :
                 tr.params[p] = IF p \in DOMAIN v.params THEN v.params[p] ELSE o.params[p]
        <4>1. tr.params = SE!Over(v.params, o.params)
          BY <2>2
        <4>2. QED
          BY <4>1, Zenon DEF SE!Over
      <3>2. \A p : PlanValue(tr, p) = PlanValue(o, p)
        BY <1>1, <2>2 DEF PlanValue
      <3>3. \A p : SE!ValueOf(tr, p) = IF p \in DOMAIN v.params THEN v.params[p]
                                                                ELSE PlanValue(o, p)
        BY <1>3, <2>2, <3>2, ValueOfExecution DEF vs
      <3> HIDE DEF tr
      <3>4. HasItsValues(tr)
        <4>1. ASSUME NEW p \in DOMAIN tr.params
              PROVE  tr.params[p] = SE!ValueOf(tr, p)
          BY <1>1, <3>1, <3>3
        <4>2. ASSUME NEW p, p \notin DOMAIN tr.params
              PROVE  SE!ValueOf(tr, p) = 0
          BY <1>1, <3>1, <3>3, <4>2
        <4>3. QED
          BY <4>1, <4>2 DEF HasItsValues
      <3>5. QED
        BY <2>1, <2>2, <3>4 DEF IsExecutionOf, tr
    <2>5. QED
      BY <2>1, <2>2, <2>3, <2>4 DEF o
  <1>4. QED
    BY <1>2, <1>3

LEMMA SelectInit ==
  ASSUME SE!Init
  PROVE  SelectInv
  BY DEF SE!Init, SelectInv, SelectedInv, AnsweredInv, JobsInv

\* A filter looks at what a test has from the catalog.
LEMMA FilterLooksAtCatalog ==
  ASSUME NEW f, NEW c, NEW tr, tr.id = c.id, tr.tool = c.tool, tr.level = c.level
  PROVE  tr \in SE!SelectTRs({tr}, f) <=> SE!SelectTRs({c}, f) # {}
  BY DEF SE!SelectTRs

LEMMA TestOfCatalog ==
  ASSUME NEW c
  PROVE  /\ SE!trFromCatalog(c).id = c.id /\ SE!trFromCatalog(c).tool = c.tool
         /\ SE!trFromCatalog(c).level = c.level /\ SE!trFromCatalog(c).variant = ""
  BY DEF SE!trFromCatalog

LEMMA LoadStep ==
  ASSUME SelectInv, SE!Load
  PROVE  SelectInv'
  <1> DEFINE trs == {SE!trFromCatalog(c) : c \in SE!Elements(input.catalog.trs)}
             f == SE!Filter(input.plan, input.flags)
             chosen == SE!SelectTRs(trs, f)
  <1>1. /\ sPc = "load" /\ UNCHANGED <<input, sScorable, results, setups, jobs>>
        /\ \/ sPc' = "refused" /\ UNCHANGED selected
           \/ /\ selected' = chosen /\ sPc' = "resume"
              /\ SE!ValidPlan(input.plan) /\ SE!ValidCatalog(input.catalog)
    BY Zenon DEF SE!Load, SE!Refuse
  <1>2. chosen = {SE!trFromCatalog(c) : c \in Matching}
    <2>1. \A c : SE!trFromCatalog(c) \in SE!SelectTRs({SE!trFromCatalog(c)}, f)
                 <=> SE!SelectTRs({c}, f) # {}
      BY FilterLooksAtCatalog, TestOfCatalog
    <2>2. \A tr : tr \in chosen <=> tr \in trs /\ tr \in SE!SelectTRs({tr}, f)
      BY DEF SE!SelectTRs
    <2> HIDE DEF chosen, f
    <2>3. \A tr : tr \in chosen <=> \E c \in Matching : tr = SE!trFromCatalog(c)
      BY <2>1, <2>2 DEF Matching, f
    <2>4. QED
      BY <2>3
  <1> HIDE DEF chosen
  <1>3. SelectedInv'
    BY <1>1, <1>2 DEF SelectInv, SelectedInv, Matching
  <1>4. AnsweredInv'
    <2>1. results = {} /\ sScorable = {} /\ setups = {}
      BY <1>1 DEF SelectInv, AnsweredInv
    <2>2. QED
      BY <1>1, <2>1 DEF AnsweredInv
  <1>5. JobsInv' /\ sPc' \in {"refused", "resume"}
    BY <1>1 DEF SelectInv, JobsInv
  <1>6. QED
    BY <1>3, <1>4, <1>5 DEF SelectInv

LEMMA ResumeStep ==
  ASSUME SE!SelectionAssumption, SelectInv, SE!Resume
  PROVE  SelectInv'
  <1> DEFINE again(tr) ==
               tr \in SE!ResumeExecutionsWithOptions(selected, input.prior, input.plan.scenario,
                                                     input.retryFailed)
  <1>1. /\ sPc = "resume" /\ sPc' = "resolve"
        /\ UNCHANGED <<input, sScorable, results, setups, jobs>>
        /\ \A tr : tr \in selected' <=> again(tr)
    BY Zenon DEF SE!Resume
  <1>2. ASSUME NEW c \in Matching
        PROVE  again(SE!trFromCatalog(c)) <=> c.id \notin EndedBefore
    <2> DEFINE tr == SE!trFromCatalog(c)
               said == SE!Ended(input, c)
               bad == \E r \in said : r.outcome \in {"fail", "error"}
    <2>1. tr \in selected
      BY <1>1, <1>2 DEF SelectInv, SelectedInv
    <2>2. again(tr) <=> said = {} \/ (input.retryFailed /\ bad)
      <3>1. tr.id = c.id /\ tr.variant = ""
        BY TestOfCatalog
      <3>2. \A records : SE!At(records, tr, input.plan.scenario) =
              {r \in records : /\ r.id = c.id /\ r.variant = ""
                               /\ r.scenario = input.plan.scenario}
        BY <3>1 DEF SE!At
      <3> HIDE DEF tr
      <3> DEFINE known == SE!At(input.prior.executions, tr, input.plan.scenario)
                 read == IF known = {} THEN SE!At(input.prior.verdicts, tr, input.plan.scenario)
                         ELSE {r \in known : r.state = "completed"}
      <3>3. again(tr) <=> read = {} \/ (input.retryFailed
                                        /\ \E r \in read : r.outcome \in {"fail", "error"})
        BY <2>1 DEF SE!ResumeExecutionsWithOptions
      <3>4. read = said
        <4>1. said = IF {r \in input.prior.executions : /\ r.id = c.id /\ r.variant = ""
                                                        /\ r.scenario = input.plan.scenario} = {}
                     THEN {r \in input.prior.verdicts : /\ r.id = c.id /\ r.variant = ""
                                                        /\ r.scenario = input.plan.scenario}
                     ELSE {r \in {e \in input.prior.executions :
                                    /\ e.id = c.id /\ e.variant = ""
                                    /\ e.scenario = input.plan.scenario} : r.state = "completed"}
          BY DEF SE!Ended
        <4> HIDE DEF said
        <4>2. QED
          BY <3>2, <4>1
      <3> HIDE DEF read, said
      <3>5. QED
        BY <3>3, <3>4
    <2>3. /\ c.id \in input.prior.settled <=> said # {} /\ ~bad
          /\ c.id \in input.prior.failed <=> bad
      <3>1. SE!PriorIsTrue(input)
        BY DEF SE!SelectionAssumption, SelectInv, SelectedInv
      <3>2. QED
        BY <1>2, <3>1 DEF SE!PriorIsTrue, Matching
    <2>4. bad => said # {}
      OBVIOUS
    <2> HIDE DEF said, bad, tr, again
    <2>5. QED
      BY <2>2, <2>3, <2>4 DEF EndedBefore, tr
  <1>3. \A tr : again(tr) => tr \in selected
    BY DEF SE!ResumeExecutionsWithOptions
  <1>4. selected = {SE!trFromCatalog(c) : c \in Matching}
    BY <1>1 DEF SelectInv, SelectedInv
  <1> HIDE DEF again
  <1>5. \A tr : tr \in selected' <=> \E c \in Wanted : tr = SE!trFromCatalog(c)
    BY <1>1, <1>2, <1>3, <1>4 DEF Wanted
  <1>6. selected' = {SE!trFromCatalog(c) : c \in Wanted}
    BY <1>5
  <1>7. SelectedInv'
    <2>1. Wanted' = Wanted
      BY <1>1, Zenon DEF Wanted, Matching, EndedBefore
    <2>2. SE!ValidCatalog(input.catalog) /\ SE!ValidPlan(input.plan) /\ input \in Inputs
      BY <1>1 DEF SelectInv, SelectedInv
    <2>3. QED
      BY <1>1, <1>6, <2>1, <2>2 DEF SelectedInv
  <1>8. AnsweredInv'
    <2>1. results = {} /\ sScorable = {} /\ setups = {}
      BY <1>1 DEF SelectInv, AnsweredInv
    <2>2. QED
      BY <1>1, <2>1 DEF AnsweredInv
  <1>9. QED
    BY <1>1, <1>7, <1>8 DEF SelectInv, JobsInv

\* What a run has been started from stays, and with it what its executions are to be.
LEMMA InputStays ==
  ASSUME UNCHANGED input
  PROVE  /\ Wanted' = Wanted
         /\ \A id : SE!VariantsOf(id)' = SE!VariantsOf(id)
         /\ \A tr, c : IsExecutionOf(tr, c)' <=> IsExecutionOf(tr, c)
  <1>1. Wanted' = Wanted
    BY DEF Wanted, Matching, EndedBefore
  <1>2. \A id : SE!VariantsOf(id)' = SE!VariantsOf(id)
    BY DEF SE!VariantsOf
  <1>3. \A tr, p : SE!ValueOf(tr, p)' = SE!ValueOf(tr, p)
    BY DEF SE!ValueOf
  <1>4. \A tr : HasItsValues(tr)' <=> HasItsValues(tr)
    BY <1>3, Zenon DEF HasItsValues
  <1>5. QED
    BY <1>1, <1>2, <1>4 DEF IsExecutionOf

LEMMA ResolveStep ==
  ASSUME SelectInv, SE!Resolve
  PROVE  SelectInv'
  <1> DEFINE f == SE!Filter(input.plan, input.flags)
             tests == SE!applyOverrides(SE!SelectTRs(selected, f), input.plan.overrides)
             execs(c) == SE!Executions(Overridden(c), input.plan.variants)
             all == UNION {SE!Executions(tr, input.plan.variants) : tr \in tests}
  <1>1. /\ sPc = "resolve" /\ UNCHANGED <<input, sScorable, results, setups, jobs>>
        /\ \/ sPc' = "refused" /\ UNCHANGED selected
           \/ sPc' = "classify" /\ selected' = all
    BY Zenon DEF SE!Resolve, SE!Refuse
  <1>2. /\ selected = {SE!trFromCatalog(c) : c \in Wanted}
        /\ SE!ValidCatalog(input.catalog) /\ SE!ValidPlan(input.plan)
    BY <1>1 DEF SelectInv, SelectedInv
  <1>3. SE!SelectTRs(selected, f) = selected
    <2>1. ASSUME NEW tr \in selected
          PROVE  tr \in SE!SelectTRs({tr}, f)
      <3>1. PICK c \in Wanted : tr = SE!trFromCatalog(c)
        BY <1>2
      <3>2. tr.id = c.id /\ tr.tool = c.tool /\ tr.level = c.level
        BY <3>1, TestOfCatalog
      <3>3. SE!SelectTRs({c}, f) # {}
        BY DEF Wanted, Matching
      <3> HIDE DEF f
      <3>4. QED
        BY <3>2, <3>3, FilterLooksAtCatalog
    <2>2. \A tr : tr \in SE!SelectTRs(selected, f) <=> tr \in selected /\ tr \in SE!SelectTRs({tr}, f)
      BY DEF SE!SelectTRs
    <2> HIDE DEF f
    <2>3. QED
      BY <2>1, <2>2
  <1>4. \A o : o \in tests <=> \E c \in Wanted : o = Overridden(c)
    <2>1. tests = SE!applyOverrides(selected, input.plan.overrides)
      BY <1>3
    <2>2. \A o : o \in tests <=>
            \E tr \in selected :
              o = [tr EXCEPT !.params = IF tr.id \in DOMAIN input.plan.overrides
                                          THEN SE!Over(input.plan.overrides[tr.id], @) ELSE @]
      BY <2>1 DEF SE!applyOverrides
    <2>3. \A c : LET tr == SE!trFromCatalog(c) IN
            Overridden(c) =
              [tr EXCEPT !.params = IF tr.id \in DOMAIN input.plan.overrides
                                      THEN SE!Over(input.plan.overrides[tr.id], @) ELSE @]
      BY TestOfCatalog DEF Overridden
    <2> HIDE DEF tests
    <2>4. QED
      BY <1>2, <2>2, <2>3
  <1> HIDE DEF tests
  <1>5. \A tr : tr \in all <=> \E c \in Wanted : tr \in execs(c)
    BY <1>4
  <1>6. \A c : /\ \A tr \in execs(c) : IsExecutionOf(tr, c)
               /\ \A v \in SE!VariantsOf(c.id) :
                    \E tr \in execs(c) : tr.id = c.id /\ tr.variant = v
               /\ \A t, u \in execs(c) : t.variant = u.variant => t = u
    BY <1>2, ExecutionsOfTest
  <1>7. \A c, d \in Wanted : c.id = d.id => c = d
    BY <1>2 DEF SE!ValidCatalog, SE!Distinct, SE!Elements, Wanted, Matching
  <1> HIDE DEF execs, all
  <1>8. SelectedInv'
    <2>1. CASE sPc' = "refused"
      BY <1>1, <2>1 DEF SelectInv, SelectedInv
    <2>2. CASE sPc' = "classify" /\ selected' = all
      <3>1. \A tr \in selected' : \E c \in Wanted : IsExecutionOf(tr, c)
        BY <1>5, <1>6, <2>2
      <3>2. \A c \in Wanted : \A v \in SE!VariantsOf(c.id) :
              \E tr \in selected' : tr.id = c.id /\ tr.variant = v
        BY <1>5, <1>6, <2>2
      <3>3. ASSUME NEW t \in selected', NEW u \in selected',
                   t.id = u.id, t.variant = u.variant
            PROVE  t = u
        <4>1. PICK c \in Wanted : t \in execs(c)
          BY <1>5, <2>2
        <4>2. PICK d \in Wanted : u \in execs(d)
          BY <1>5, <2>2
        <4>3. t.id = c.id /\ u.id = d.id
          BY <1>6, <4>1, <4>2 DEF IsExecutionOf
        <4>4. c = d
          BY <1>7, <3>3, <4>3
        <4>5. QED
          BY <1>6, <3>3, <4>1, <4>2, <4>4
      <3>4. input' \in Inputs /\ SE!ValidCatalog(input'.catalog) /\ SE!ValidPlan(input'.plan)
        BY <1>1, <1>2 DEF SelectInv, SelectedInv
      <3>5. /\ Wanted' = Wanted
            /\ \A id : SE!VariantsOf(id)' = SE!VariantsOf(id)
            /\ \A tr, c : IsExecutionOf(tr, c)' <=> IsExecutionOf(tr, c)
        BY <1>1, InputStays
      <3>6. QED
        BY <2>2, <3>1, <3>2, <3>3, <3>4, <3>5 DEF SelectedInv
    <2>3. QED
      BY <1>1, <2>1, <2>2
  <1>9. AnsweredInv'
    <2>1. results = {} /\ sScorable = {} /\ setups = {}
      BY <1>1 DEF SelectInv, AnsweredInv
    <2>2. QED
      BY <1>1, <2>1 DEF AnsweredInv
  <1>10. QED
    BY <1>1, <1>8, <1>9 DEF SelectInv, JobsInv

\* What is selected, once it is, stays as it is.
LEMMA SelectedStays ==
  ASSUME SelectedInv, UNCHANGED <<input, selected>>,
         sPc \in {"classify", "setup"}, sPc' \in {"setup", "scheduled"}
  PROVE  SelectedInv'
  <1>1. /\ Wanted' = Wanted
        /\ \A id : SE!VariantsOf(id)' = SE!VariantsOf(id)
        /\ \A tr, c : IsExecutionOf(tr, c)' <=> IsExecutionOf(tr, c)
    BY InputStays
  <1>2. /\ \A tr \in selected : \E c \in Wanted : IsExecutionOf(tr, c)
        /\ \A c \in Wanted : \A v \in SE!VariantsOf(c.id) :
             \E tr \in selected : tr.id = c.id /\ tr.variant = v
        /\ \A t, u \in selected : t.id = u.id /\ t.variant = u.variant => t = u
        /\ input \in Inputs /\ SE!ValidCatalog(input.catalog) /\ SE!ValidPlan(input.plan)
    BY DEF SelectedInv
  <1>3. QED
    BY <1>1, <1>2 DEF SelectedInv

\* The tool of a test is found by the test's label and id.
LEMMA SameTool ==
  ASSUME NEW t, NEW u, t.id = u.id, t.tool = u.tool
  PROVE  /\ SE!ResolveTool(t) = SE!ResolveTool(u)
         /\ SE!runnable(t) <=> SE!runnable(u)
  <1> DEFINE named == SE!Named(t.tool)
             candidates == IF named # {} THEN named ELSE SE!ForTRID(t.id)
  <1>1. SE!ResolveTool(t) = Tools[CHOOSE i \in candidates : \A j \in candidates : i <= j]
    BY DEF SE!ResolveTool
  <1>2. SE!ResolveTool(u) = Tools[CHOOSE i \in candidates : \A j \in candidates : i <= j]
    BY DEF SE!ResolveTool
  <1>3. QED
    BY <1>1, <1>2 DEF SE!runnable

\* All executions of a test have its tool.
LEMMA OneToolPerTest ==
  ASSUME SelectedInv, sPc \in {"classify", "setup", "scheduled"},
         NEW t \in selected, NEW u \in selected, t.id = u.id
  PROVE  t.tool = u.tool
  <1>1. PICK c \in Wanted : IsExecutionOf(t, c)
    BY DEF SelectedInv
  <1>2. PICK d \in Wanted : IsExecutionOf(u, d)
    BY DEF SelectedInv
  <1>3. \A x, y \in Wanted : x.id = y.id => x = y
    BY DEF SelectedInv, SE!ValidCatalog, SE!Distinct, SE!Elements, Wanted, Matching
  <1>4. c = d
    BY <1>1, <1>2, <1>3 DEF IsExecutionOf
  <1>5. QED
    BY <1>1, <1>2, <1>4 DEF IsExecutionOf

\* An outcome for a set of executions is one for each of them, and no others.
LEMMA OutcomesOf ==
  ASSUME NEW trs, NEW o, NEW tr
  PROVE  (\E r \in SE!WithOutcome(trs, o) : r.id = tr.id /\ r.variant = tr.variant)
           <=> \E t \in trs : t.id = tr.id /\ t.variant = tr.variant
  <1> DEFINE R(t) == [id |-> t.id, variant |-> t.variant, outcome |-> o]
  <1>1. \A r : r \in SE!WithOutcome(trs, o) <=> \E t \in trs : r = R(t)
    BY DEF SE!WithOutcome
  <1>2. \A t : R(t).id = t.id /\ R(t).variant = t.variant
    OBVIOUS
  <1> HIDE DEF R
  <1>3. QED
    BY <1>1, <1>2

LEMMA ClassifyStep ==
  ASSUME SelectInv, SE!Classify
  PROVE  SelectInv'
  <1> DEFINE idle == {tr \in selected : ~SE!runnable(tr)}
             short == {tr \in selected \ idle : SE!missingRequiredParams(tr) # {}}
             rest == (selected \ idle) \ short
  <1>1. /\ sPc = "classify" /\ sPc' = "setup" /\ UNCHANGED <<input, selected, jobs>>
        /\ results' = SE!WithOutcome(idle, "skip") \cup SE!WithOutcome(short, "error")
        /\ sScorable' = rest
        /\ setups' = SE!activeSetups(rest)
    BY Zenon DEF SE!Classify
  <1>2. /\ idle \subseteq selected /\ short \subseteq selected /\ rest \subseteq selected
        /\ \A tr \in selected : tr \in rest <=> tr \notin idle \cup short
        /\ \A tr \in rest : SE!runnable(tr)
    OBVIOUS
  <1> HIDE DEF idle, short, rest
  <1>3. \A t, u \in selected : t.id = u.id /\ t.variant = u.variant => t = u
    BY <1>1 DEF SelectInv, SelectedInv
  <1>4. SelectedInv'
    BY <1>1, SelectedStays DEF SelectInv
  <1>5. AnsweredInv'
    <2>1. \A r \in results' : r.outcome \in {"skip", "error"}
      BY <1>1 DEF SE!WithOutcome
    <2>2. ASSUME NEW tr \in selected
          PROVE  HasOutcome(tr)' <=> tr \in idle \cup short
      <3>1. HasOutcome(tr)' <=> \E t \in idle \cup short : t.id = tr.id /\ t.variant = tr.variant
        BY <1>1, OutcomesOf DEF HasOutcome
      <3>2. QED
        BY <1>2, <1>3, <3>1
    <2>3. ASSUME NEW s \in setups'
          PROVE  /\ s.scope \subseteq rest
                 /\ \A t \in s.scope, u \in rest : u.id = t.id => u \in s.scope
      <3> DEFINE In(key) == {tr \in rest : key \in SE!ResolveTool(tr).setups}
      <3>1. \/ s.scope = rest
            \/ \E key : s.scope = In(key)
        <4>1. setups' \subseteq
                {[order |-> i, scope |-> rest] : i \in DOMAIN RunSetups}
                \cup {[order |-> Len(RunSetups) + i, scope |-> In(GroupSetups[i])] :
                         i \in DOMAIN GroupSetups}
          BY <1>1 DEF SE!activeSetups
        <4> HIDE DEF In
        <4>2. CASE \E i \in DOMAIN RunSetups : s = [order |-> i, scope |-> rest]
          BY <4>2
        <4>3. CASE \E i \in DOMAIN GroupSetups :
                     s = [order |-> Len(RunSetups) + i, scope |-> In(GroupSetups[i])]
          BY <4>3
        <4>4. QED
          BY <4>1, <4>2, <4>3
      <3>2. ASSUME NEW key, NEW t \in In(key), NEW u \in rest, u.id = t.id
            PROVE  u \in In(key)
        <4>1. t.tool = u.tool
          BY <1>1, <1>2, <3>2, OneToolPerTest DEF SelectInv
        <4>2. SE!ResolveTool(t) = SE!ResolveTool(u)
          BY <3>2, <4>1, SameTool
        <4>3. QED
          BY <4>2
      <3>3. QED
        BY <3>1, <3>2
    <2>4. QED
      BY <1>1, <1>2, <2>1, <2>2, <2>3 DEF AnsweredInv
  <1>6. JobsInv'
    BY <1>1 DEF SelectInv, JobsInv
  <1>7. QED
    BY <1>1, <1>4, <1>5, <1>6 DEF SelectInv

LEMMA SetupStep ==
  ASSUME SelectInv, SE!Setup
  PROVE  SelectInv'
  <1>1. PICK s \in setups :
          /\ sPc = "setup" /\ UNCHANGED <<input, sPc, selected, jobs>>
          /\ setups' = setups \ {s}
          /\ \/ UNCHANGED <<sScorable, results>>
             \/ /\ results' = results \cup SE!WithOutcome(s.scope, "error")
                /\ sScorable' = SE!withoutTRs(sScorable, s.scope)
    BY Zenon DEF SE!Setup
  <1>2. /\ sScorable \subseteq selected /\ \A r \in results : r.outcome \in {"skip", "error"}
        /\ \A tr \in selected : tr \in sScorable <=> ~HasOutcome(tr)
        /\ \A tr \in sScorable : SE!runnable(tr)
        /\ \A o \in setups : /\ o.scope \subseteq selected
                             /\ \A t \in o.scope, u \in sScorable : u.id = t.id => u \in o.scope
    BY <1>1 DEF SelectInv, AnsweredInv
  <1>3. SelectedInv'
    BY <1>1, SelectedStays DEF SelectInv
  <1>4. AnsweredInv'
    <2>1. CASE UNCHANGED <<sScorable, results>>
      BY <1>1, <1>2, <2>1 DEF AnsweredInv, HasOutcome
    <2>2. CASE /\ results' = results \cup SE!WithOutcome(s.scope, "error")
               /\ sScorable' = SE!withoutTRs(sScorable, s.scope)
      <3>1. \A tr : tr \in sScorable' <=> tr \in sScorable /\ ~\E t \in s.scope : t.id = tr.id
        BY <2>2 DEF SE!withoutTRs, SE!Ids
      <3>2. \A r \in results' : r.outcome \in {"skip", "error"}
        BY <1>2, <2>2 DEF SE!WithOutcome
      <3>3. \A tr : HasOutcome(tr)' <=>
              HasOutcome(tr) \/ \E t \in s.scope : t.id = tr.id /\ t.variant = tr.variant
        BY <2>2, OutcomesOf DEF HasOutcome
      <3>4. \A t, u \in selected : t.id = u.id /\ t.variant = u.variant => t = u
        BY <1>1 DEF SelectInv, SelectedInv
      <3>5. ASSUME NEW tr \in selected
            PROVE  tr \in sScorable' <=> ~HasOutcome(tr)'
        <4>1. CASE tr \notin sScorable
          BY <1>2, <3>1, <3>3, <4>1
        <4>2. CASE tr \in sScorable /\ tr \in s.scope
          BY <3>1, <3>3, <4>2
        <4>3. CASE tr \in sScorable /\ tr \notin s.scope
          <5>1. ~\E t \in s.scope : t.id = tr.id
            BY <1>1, <1>2, <4>3
          <5>2. QED
            BY <1>2, <3>1, <3>3, <4>3, <5>1
        <4>4. QED
          BY <4>1, <4>2, <4>3
      <3>6. \A o \in setups' : /\ o.scope \subseteq selected
                               /\ \A t \in o.scope, u \in sScorable' :
                                    u.id = t.id => u \in o.scope
        BY <1>1, <1>2, <3>1
      <3>7. QED
        BY <1>1, <1>2, <3>1, <3>2, <3>5, <3>6 DEF AnsweredInv
    <2>3. QED
      BY <1>1, <2>1, <2>2
  <1>5. JobsInv'
    BY <1>1 DEF SelectInv, JobsInv
  <1>6. QED
    BY <1>1, <1>3, <1>4, <1>5 DEF SelectInv

LEMMA ScheduleStep ==
  ASSUME SelectInv, SE!Schedule
  PROVE  SelectInv'
  <1>1. /\ sPc = "setup" /\ sPc' = "scheduled"
        /\ UNCHANGED <<input, selected, sScorable, results, setups>>
        /\ jobs' = SE!groupByTool(sScorable, input.plan.scheduling)
    BY Zenon DEF SE!Schedule
  <1>2. SelectedInv'
    BY <1>1, SelectedStays DEF SelectInv
  <1>3. AnsweredInv'
    BY <1>1 DEF SelectInv, AnsweredInv, HasOutcome
  <1>4. JobsInv'
    BY <1>1 DEF JobsInv
  <1>5. QED
    BY <1>1, <1>2, <1>3, <1>4 DEF SelectInv

LEMMA SelectInvHolds ==
  ASSUME SE!SelectionAssumption
  PROVE  SE!Spec => []SelectInv
  <1>1. SE!Init => SelectInv
    BY SelectInit
  <1>2. SelectInv /\ [SE!Next]_(SE!vars) => SelectInv'
    <2> SUFFICES ASSUME SelectInv, [SE!Next]_(SE!vars)
                 PROVE  SelectInv'
      OBVIOUS
    <2>1. CASE SE!Load
      BY <2>1, LoadStep
    <2>2. CASE SE!Resume
      BY <2>2, ResumeStep
    <2>3. CASE SE!Resolve
      BY <2>3, ResolveStep
    <2>4. CASE SE!Classify
      BY <2>4, ClassifyStep
    <2>5. CASE SE!Setup
      BY <2>5, SetupStep
    <2>6. CASE SE!Schedule
      BY <2>6, ScheduleStep
    <2>7. CASE UNCHANGED SE!vars
      <3> USE <2>7 DEF SE!vars
      <3>1. /\ Wanted' = Wanted
            /\ \A id : SE!VariantsOf(id)' = SE!VariantsOf(id)
            /\ \A tr, c : IsExecutionOf(tr, c)' <=> IsExecutionOf(tr, c)
        BY InputStays
      <3>2. SelectedInv'
        BY <3>1 DEF SelectInv, SelectedInv, Matching
      <3>3. AnsweredInv' /\ JobsInv'
        BY DEF SelectInv, AnsweredInv, HasOutcome, JobsInv
      <3>4. QED
        BY <3>2, <3>3 DEF SelectInv
    <2>8. QED
      BY <2>1, <2>2, <2>3, <2>4, <2>5, <2>6, <2>7 DEF SE!Next
  <1>3. QED
    BY <1>1, <1>2, PTL DEF SE!Spec

LEMMA CardinalityInSelection ==
  ASSUME NEW S
  PROVE  SE!Cardinality(S) = Cardinality(S)
  BY Zenon DEF SE!Cardinality, Cardinality

\* A label has one job, with all that is scheduled under it.
LEMMA JobsOfLabels ==
  ASSUME SelectInv, sPc = "scheduled"
  PROVE  /\ \A j \in jobs : /\ j.trs = {tr \in sScorable : tr.tool = j.tool} /\ j.trs # {}
                            /\ j = SE!Job(j.tool, j.trs, input.plan.scheduling)
         /\ \A tr \in sScorable : \E j \in jobs : j.tool = tr.tool
         /\ \A j, k \in jobs : j.tool = k.tool => j = k
  <1> DEFINE Under(label) == {tr \in sScorable : tr.tool = label}
             J(label) == SE!Job(label, Under(label), input.plan.scheduling)
  <1>1. jobs = {J(label) : label \in {tr.tool : tr \in sScorable}}
    BY DEF SelectInv, JobsInv, SE!groupByTool
  <1>2. \A label : J(label).tool = label /\ J(label).trs = Under(label)
    BY DEF SE!Job
  <1>3. \A label : J(label) = SE!Job(label, Under(label), input.plan.scheduling)
    OBVIOUS
  <1>4. \A tr : tr \in Under(tr.tool) <=> tr \in sScorable
    OBVIOUS
  <1> HIDE DEF J
  <1>5. ASSUME NEW j \in jobs
        PROVE  /\ j.trs = Under(j.tool) /\ j.trs # {}
               /\ j = J(j.tool)
    <2>1. PICK tr \in sScorable : j = J(tr.tool)
      BY <1>1
    <2>2. QED
      BY <1>2, <1>3, <1>4, <2>1
  <1>6. \A tr \in sScorable : \E j \in jobs : j.tool = tr.tool
    BY <1>1, <1>2
  <1>7. \A j, k \in jobs : j.tool = k.tool => j = k
    BY <1>5
  <1>8. QED
    BY <1>3, <1>5, <1>6, <1>7

LEMMA PlacedOnce ==
  ASSUME SelectInv
  PROVE  SE!EveryTestPlaced
  <1> SUFFICES ASSUME sPc = "scheduled"
               PROVE  SE!EveryTestPlaced
    BY DEF SE!EveryTestPlaced
  <1> DEFINE planned == UNION {{<<c.id, v>> : v \in SE!VariantsOf(c.id)} : c \in Wanted}
             In(w, j) == \E tr \in j.trs : <<tr.id, tr.variant>> = w
             Answered(w) == \E r \in results : <<r.id, r.variant>> = w
  <1>1. /\ \A tr \in selected : \E c \in Wanted : IsExecutionOf(tr, c)
        /\ \A c \in Wanted : \A v \in SE!VariantsOf(c.id) :
             \E tr \in selected : tr.id = c.id /\ tr.variant = v
        /\ \A t, u \in selected : t.id = u.id /\ t.variant = u.variant => t = u
        /\ sScorable \subseteq selected
        /\ \A tr \in selected : tr \in sScorable <=> ~HasOutcome(tr)
    BY DEF SelectInv, SelectedInv, AnsweredInv
  <1>2. /\ \A j \in jobs : j.trs = {tr \in sScorable : tr.tool = j.tool} /\ j.trs # {}
        /\ \A tr \in sScorable : \E j \in jobs : j.tool = tr.tool
        /\ \A j, k \in jobs : j.tool = k.tool => j = k
    BY JobsOfLabels
  <1>3. ASSUME NEW w \in planned
        PROVE  /\ SE!Cardinality({j \in jobs : In(w, j)}) = IF Answered(w) THEN 0 ELSE 1
               /\ \A j \in jobs :
                    SE!Cardinality({tr \in j.trs : <<tr.id, tr.variant>> = w}) <= 1
    <2>1. PICK tr \in selected : w = <<tr.id, tr.variant>>
      BY <1>1
    <2>2. \A t \in selected : <<t.id, t.variant>> = w => t = tr
      BY <1>1, <2>1
    <2>3. Answered(w) <=> HasOutcome(tr)
      BY <2>1 DEF HasOutcome
    <2>4. \A j \in jobs : In(w, j) <=> tr \in sScorable /\ tr.tool = j.tool
      BY <1>1, <1>2, <2>1, <2>2
    <2>5. \A j \in jobs : {t \in j.trs : <<t.id, t.variant>> = w} \in {{}, {tr}}
      BY <1>1, <1>2, <2>2
    <2>6. Cardinality({}) = 0 /\ (\A x : Cardinality({x}) = 1)
      BY FS_EmptySet, FS_Singleton
    <2> HIDE DEF In, Answered
    <2>7. Cardinality({j \in jobs : In(w, j)}) = IF Answered(w) THEN 0 ELSE 1
      <3>1. CASE HasOutcome(tr)
        <4>1. {j \in jobs : In(w, j)} = {}
          BY <1>1, <2>4, <3>1
        <4>2. QED
          BY <2>3, <2>6, <3>1, <4>1
      <3>2. CASE ~HasOutcome(tr)
        <4>1. tr \in sScorable
          BY <1>1, <3>2
        <4>2. PICK k \in jobs : k.tool = tr.tool
          BY <1>2, <4>1
        <4>3. {j \in jobs : In(w, j)} = {k}
          BY <1>2, <2>4, <4>1, <4>2
        <4>4. QED
          BY <2>3, <2>6, <3>2, <4>3
      <3>3. QED
        BY <3>1, <3>2
    <2>8. \A j \in jobs : Cardinality({t \in j.trs : <<t.id, t.variant>> = w}) <= 1
      <3>1. ASSUME NEW S, S = {} \/ S = {tr}
            PROVE  Cardinality(S) <= 1
        <4>1. Cardinality(S) = 0 \/ Cardinality(S) = 1
          BY <2>6, <3>1, Zenon
        <4>2. QED
          BY <4>1
      <3>2. QED
        BY <2>5, <3>1
    <2>9. QED
      BY <2>7, <2>8, CardinalityInSelection
  <1>4. ASSUME NEW tr \in UNION {j.trs : j \in jobs}
        PROVE  /\ <<tr.id, tr.variant>> \in planned
               /\ \A p \in DOMAIN tr.params : tr.params[p] = SE!ValueOf(tr, p)
               /\ \A p \in DOMAIN tr.spec : SE!ValueOf(tr, p) # 0 => p \in DOMAIN tr.params
    <2>1. tr \in selected
      BY <1>1, <1>2
    <2>2. PICK c \in Wanted : IsExecutionOf(tr, c)
      BY <1>1, <2>1
    <2>3. QED
      BY <2>2 DEF IsExecutionOf, HasItsValues
  <1> HIDE DEF In, Answered
  <1>5. Wanted = {c \in SE!Elements(input.catalog.trs) :
                    /\ SE!SelectTRs({c}, SE!Filter(input.plan, input.flags)) # {}
                    /\ c.id \notin EndedBefore}
    BY DEF Wanted, Matching
  <1> HIDE DEF planned
  <1>6. QED
    BY <1>3, <1>4, <1>5, Zenon DEF SE!EveryTestPlaced, EndedBefore, planned, In, Answered

\* A job is scheduled as each of its tests is to be, unless the plan speaks of it.
LEMMA JobIsLikeItsTests ==
  ASSUME SelectInv, SE!SelectionAssumption, sPc = "scheduled",
         NEW j \in jobs, NEW tr \in j.trs, tr.tool \notin DOMAIN input.plan.scheduling
  PROVE  j.safe = SE!ResolveTool(tr).safe /\ j.groups = SE!ResolveTool(tr).groups
  <1> DEFINE first == SE!First(j.trs)
  <1>1. /\ j.trs = {t \in sScorable : t.tool = j.tool}
        /\ j = SE!Job(j.tool, j.trs, input.plan.scheduling)
    BY JobsOfLabels
  <1>2. /\ j.safe = SE!ResolveTool(first).safe
        /\ j.groups = SE!ResolveTool(first).groups
    <2>1. j.tool \notin DOMAIN input.plan.scheduling
      BY <1>1
    <2>2. LET J == SE!Job(j.tool, j.trs, input.plan.scheduling) IN
          J.safe = SE!ResolveTool(first).safe /\ J.groups = SE!ResolveTool(first).groups
      BY <2>1 DEF SE!Job
    <2>3. QED
      BY <1>1, <2>2
  <1>3. \A t \in j.trs : \E c \in SE!Elements(input.catalog.trs) :
           t.id = c.id /\ t.tool = c.tool /\ SE!runnable(t)
    <2>1. \A t \in j.trs : t \in selected /\ SE!runnable(t)
      BY <1>1 DEF SelectInv, AnsweredInv
    <2>2. \A t \in selected : \E c \in Wanted : t.id = c.id /\ t.tool = c.tool
      BY DEF SelectInv, SelectedInv, IsExecutionOf
    <2>3. QED
      BY <2>1, <2>2 DEF Wanted, Matching
  <1>4. SE!Ids(SE!Elements(input.catalog.trs)) \subseteq Nat /\ SE!LabelsAreAlike(input)
    BY DEF SelectInv, SelectedInv, SE!SelectionAssumption
  <1>5. \A t \in j.trs : t.id \in Nat
    BY <1>3, <1>4 DEF SE!Ids
  <1>6. first \in j.trs
    <2> DEFINE ids == {t.id : t \in j.trs}
    <2>1. \E n \in ids : \A m \in ids : n <= m
      <3>1. ids \in SUBSET Nat /\ ids # {}
        BY <1>5
      <3> HIDE DEF ids
      <3>2. QED
        BY <3>1, RF!LeastElement
    <2>2. \E t \in j.trs : \A other \in j.trs : t.id <= other.id
      BY <2>1
    <2>3. QED
      BY <2>2 DEF SE!First
  <1> HIDE DEF first
  <1>7. PICK c \in SE!Elements(input.catalog.trs) :
           tr.id = c.id /\ tr.tool = c.tool /\ SE!runnable(tr)
    BY <1>3
  <1>8. PICK d \in SE!Elements(input.catalog.trs) :
           first.id = d.id /\ first.tool = d.tool /\ SE!runnable(first)
    BY <1>3, <1>6
  <1>9. /\ SE!ResolveTool(c) = SE!ResolveTool(tr) /\ SE!runnable(c)
        /\ SE!ResolveTool(d) = SE!ResolveTool(first) /\ SE!runnable(d)
    BY <1>7, <1>8, SameTool
  <1>10. c.tool = d.tool
    BY <1>1, <1>6, <1>7, <1>8
  <1>11. QED
    BY <1>2, <1>4, <1>9, <1>10 DEF SE!LabelsAreAlike

LEMMA OverlapFollows ==
  ASSUME SelectInv, SE!SelectionAssumption
  PROVE  SE!OverlapIsAllowed
  <1> DEFINE Free(t) == t.tool \notin DOMAIN input.plan.scheduling
  <1>1. \A j \in jobs : sPc = "scheduled"
    BY DEF SelectInv, JobsInv
  <1>2. \A j \in jobs : \A tr \in j.trs :
           Free(tr) => j.safe = SE!ResolveTool(tr).safe /\ j.groups = SE!ResolveTool(tr).groups
    BY <1>1, JobIsLikeItsTests
  <1>3. ASSUME NEW j \in jobs, NEW k \in jobs, j.safe, k.safe, j.groups \cap k.groups = {},
               NEW tr \in j.trs, Free(tr)
        PROVE  /\ SE!ResolveTool(tr).safe
               /\ \A other \in k.trs : Free(other) =>
                    SE!ResolveTool(tr).groups \cap SE!ResolveTool(other).groups = {}
    BY <1>2, <1>3
  <1>4. ASSUME NEW j \in jobs, NEW k \in jobs, j.safe, k.safe, j.groups \cap k.groups = {},
               NEW tr \in j.trs \cup k.trs, Free(tr)
        PROVE  /\ SE!ResolveTool(tr).safe
               /\ \A other \in (IF tr \in j.trs THEN k.trs ELSE j.trs) : Free(other) =>
                    SE!ResolveTool(tr).groups \cap SE!ResolveTool(other).groups = {}
    <2>1. CASE tr \in j.trs
      BY <1>3, <1>4, <2>1
    <2>2. CASE tr \notin j.trs
      <3>1. tr \in k.trs /\ k.groups \cap j.groups = {}
        BY <1>4, <2>2
      <3>2. QED
        BY <1>3, <1>4, <2>2, <3>1
    <2>3. QED
      BY <2>1, <2>2
  <1>5. QED
    BY <1>4 DEF SE!OverlapIsAllowed

LEMMA SelectionTypeOK ==
  ASSUME SelectInv
  PROVE  SE!TypeOK
  <1>1. sScorable \subseteq selected /\ \A r \in results : r.outcome \in {"skip", "error"}
    BY DEF SelectInv, AnsweredInv
  <1>2. \A j \in jobs : j.trs \subseteq selected
    <2>1. CASE sPc = "scheduled"
      BY <1>1, <2>1, JobsOfLabels
    <2>2. CASE sPc # "scheduled"
      BY <2>2 DEF SelectInv, JobsInv
    <2>3. QED
      BY <2>1, <2>2
  <1>3. QED
    BY <1>1, <1>2 DEF SelectInv, SE!TypeOK

LEMMA SelectionInPipeline ==
  MCFairSpec => SE!Spec
  <1>1. MCInit => SE!Init
    BY DEF MCInit
  <1>2. ASSUME [MCNext]_allVars
        PROVE  [SE!Next]_(SE!vars)
    BY <1>2 DEF MCNext, allVars, sVars, SE!vars
  <1>3. QED
    BY <1>1, <1>2, PTL DEF MCFairSpec, SE!Spec

\* Every test that a plan asks for, and that a continued run has not ended for good, is
\* run once per variant and with its values, or has its outcome; and tests overlap only
\* if their tools or the plan allow it.
THEOREM EveryTestPlacedHolds ==
  MCFairSpec => []EveryTestPlaced
  <1>1. SE!Spec => []SelectInv
    BY PipelinesAssumption, SelectInvHolds DEF PipelinesAssumption
  <1>2. SelectInv => EveryTestPlaced
    BY PipelinesAssumption, PlacedOnce, OverlapFollows DEF PipelinesAssumption, EveryTestPlaced
  <1>3. QED
    BY <1>1, <1>2, SelectionInPipeline, PTL

-----------------------------------------------------------------------------
LEMMA PipelineInPipeline ==
  MCFairSpec => Spec
  <1>1. MCInit => Init
    BY DEF MCInit
  <1>2. ASSUME [MCNext]_allVars
        PROVE  [Next]_vars
    BY <1>2 DEF MCNext, allVars, vars
  <1>3. QED
    BY <1>1, <1>2, PTL DEF MCFairSpec, Spec

LEMMA FilesInPipeline ==
  MCFairSpec => RF!Spec
  <1>1. MCInit => RF!Init
    BY DEF MCInit
  <1>2. ASSUME [MCNext]_allVars
        PROVE  [RF!Next]_(RF!vars)
    BY <1>2 DEF MCNext, allVars, fVars, RF!vars
  <1>3. QED
    BY <1>1, <1>2, PTL DEF MCFairSpec, RF!Spec

LEMMA AssessmentTypeOK ==
  ASSUME AssessInv
  PROVE  AS!TypeOK
  <1>1. /\ \A i \in DOMAIN latest : latest[i] \in AS!Outcomes
        /\ \A i \in DOMAIN verdicts : verdicts[i] \in AS!Outcomes
    BY DEF AssessInv, VerdictInv
  <1>2. AS!Range(latest) \cup AS!Range(verdicts) \subseteq AS!Outcomes
    BY <1>1 DEF AS!Range
  <1>3. QED
    BY <1>2 DEF AssessInv, ControlInv, WritingInv, VerdictInv, AS!TypeOK

\* However many reports a run writes beside its pipeline, a reader finds whole files,
\* none ahead of report.json, also after a kill or a loss of power.
THEOREM FilesStayWhole ==
  MCFairSpec => []ReportStaysWhole
  <1>1. RF!Spec => []RF!ReportStaysWhole
    BY RF!ReportStaysWholeHolds
  <1>2. RF!ReportStaysWhole => ReportStaysWhole
    BY DEF ReportStaysWhole
  <1>3. QED
    BY <1>1, <1>2, FilesInPipeline, PTL

\* Every variable of the four models has its type, for any values of their constants:
\* a job has a current execution exactly while it is in the pipeline, and a test has
\* verdicts exactly when it is graded.
THEOREM AllTypesOKHolds ==
  MCFairSpec => []AllTypesOK
  <1>1. Spec => []TypeOK
    BY PipelinesAssumption, PipelineTypeOK DEF PipelinesAssumption
  <1>2. AS!Spec => []AssessInv
    BY PipelinesAssumption, AssessInvHolds DEF PipelinesAssumption
  <1>3. SE!Spec => []SelectInv
    BY PipelinesAssumption, SelectInvHolds DEF PipelinesAssumption
  <1>4. RF!Spec => []RF!TypeOK
    BY RF!ReportFilesTypeOK
  <1>5. AssessInv => AS!TypeOK
    BY AssessmentTypeOK
  <1>6. SelectInv => SE!TypeOK
    BY SelectionTypeOK
  <1>7. TypeOK /\ AS!TypeOK /\ SE!TypeOK /\ RF!TypeOK => AllTypesOK
    BY DEF AllTypesOK
  <1>8. QED
    BY <1>1, <1>2, <1>3, <1>4, <1>5, <1>6, <1>7, PipelineInPipeline, AssessmentInPipeline,
       SelectionInPipeline, FilesInPipeline, PTL

=============================================================================
