---------------------------- MODULE JobPipeline ----------------------------
(***************************************************************************)
(* Shared setups and the stage pipeline of every execution, between the     *)
(* checkpoints that RunLifecycle models (Run, runToolExecutionsWithTimeout  *)
(* and runJobWithTimeout in internal/orchestrator/orchestrator.go).         *)
(*                                                                          *)
(* Run sets up, one after another, what several tests share, gives the      *)
(* tests of a failed setup an error, runs a job per tool and takes the      *)
(* setups down in reverse.  A job takes its executions one by one through   *)
(* the stages of its tool, under a time limit of their own; the verdicts    *)
(* are settled and the tool's Teardown is called in deferred functions,     *)
(* last in first out.  The whole run may be cancelled at any time.          *)
(*                                                                          *)
(* Which jobs overlap is Scheduler's concern: here they all may.            *)
(***************************************************************************)
EXTENDS Integers, Sequences, FiniteSets

CONSTANTS
  Jobs,          \* the tools
  Runnable,       \* runnable executions, as numbers in the order they are run in
  JobOf,         \* JobOf[e]: the job of execution e
  NamedVariants, \* the executions that are named variants
  Stages,        \* the stages of a tool, a sequence of names
  Scopes         \* Scopes[i]: the executions the i-th shared setup is for

PipelineAssumption ==
  /\ Runnable \subseteq Nat \ {0}
  /\ IsFiniteSet(Runnable)
  /\ JobOf \in [Runnable -> Jobs]
  /\ NamedVariants \subseteq Runnable
  /\ Stages \in Seq({"preflight", "provision", "run", "collect", "parse"})
  /\ Scopes \in Seq(SUBSET Runnable)

VARIABLES
  cancelled,   \* parent.Err() # nil
  main,        \* "setup", "jobs", "takedown" or "returned"
  next,        \* the shared setup to run next
  up,          \* ranSetups
  scorable,    \* executions still to be scheduled
  record,      \* record[e]: "queued", "running", "completed", "aborted"
  verdict,     \* verdict[e]: "none", "graded", "error" or "timeout"
  pc,          \* pc[j]: where job j's goroutine is
  current,     \* current[j]: its execution, 0 for none
  stage,       \* stage[j]: number of the stage it is in
  expired,     \* expired[j]: its execution's limit passed before any cancellation
  result,      \* result[j]: the value runJobWithTimeout is to return
  dirty,       \* dirty[j]: its execution may have left something on the cluster
  cut          \* history: what ended e's context before its verdicts were settled

job == <<pc, current, stage, expired, result, dirty>>
vars == <<cancelled, main, next, up, scorable, record, verdict, job, cut>>

PCs == {"idle", "stage", "grade", "settle", "teardown", "report", "finished"}

\* The stages that change the cluster.
Dirtying == {"provision", "run"}

ctxDone(j) == expired[j] \/ cancelled

Init ==
  /\ cancelled = FALSE
  /\ main = "setup"
  /\ next = 1
  /\ up = {}
  /\ scorable = Runnable
  /\ record = [e \in Runnable |-> "queued"]
  /\ verdict = [e \in Runnable |-> "none"]
  /\ pc = [j \in Jobs |-> "idle"]
  /\ current = [j \in Jobs |-> 0]
  /\ stage = [j \in Jobs |-> 0]
  /\ expired = [j \in Jobs |-> FALSE]
  /\ result = [j \in Jobs |-> "none"]
  /\ dirty = [j \in Jobs |-> FALSE]
  /\ cut = [e \in Runnable |-> "no"]

-----------------------------------------------------------------------------
(* Shared setups. *)

\* Faulty variant: a failed setup's tests stay on the schedule.
RunSetupLeniently ==
  /\ main = "setup"
  /\ next <= Len(Scopes)
  /\ next' = next + 1
  /\ \/ up' = up \cup {next} /\ UNCHANGED <<scorable, record, verdict>>
     \/ /\ verdict' = [e \in Runnable |-> IF e \in Scopes[next] THEN "error" ELSE verdict[e]]
        /\ UNCHANGED <<up, scorable, record>>
  /\ UNCHANGED <<cancelled, main, job, cut>>

\* One provider's Setup.  If it fails, its executions have their result; an
\* execution that has one already keeps its record.  A setup without executions
\* is not active.
RunSetup ==
  LET failed == Scopes[next]
  IN  /\ main = "setup"
      /\ next <= Len(Scopes)
      /\ next' = next + 1
      /\ \/ /\ up' = IF failed = {} THEN up ELSE up \cup {next}
            /\ UNCHANGED <<scorable, record, verdict>>
         \/ /\ failed # {}
            /\ verdict' = [e \in Runnable |-> IF e \in failed THEN "error" ELSE verdict[e]]
            /\ record' = [e \in Runnable |->
                            IF e \in failed /\ record[e] = "queued"
                              THEN IF cancelled THEN "aborted" ELSE "completed"
                              ELSE record[e]]
            /\ scorable' = scorable \ failed
            /\ UNCHANGED up
      /\ UNCHANGED <<cancelled, main, job, cut>>

\* groupByTool and schedule: a job for every tool that has executions left.
Schedule ==
  /\ main = "setup"
  /\ next > Len(Scopes)
  /\ main' = "jobs"
  /\ pc' = [j \in Jobs |-> IF \E e \in scorable : JobOf[e] = j THEN "idle" ELSE "finished"]
  /\ UNCHANGED <<cancelled, next, up, scorable, record, verdict, current, stage,
                 expired, result, dirty, cut>>

\* schedule returns when its jobs have; then the deferred function takes down
\* what was set up, last first.
AfterJobs ==
  /\ main = "jobs"
  /\ \A j \in Jobs : pc[j] = "finished"
  /\ main' = "takedown"
  /\ UNCHANGED <<cancelled, next, up, scorable, record, verdict, job, cut>>

\* Faulty variant: the loop over ranSetups misses the first one.
TakeDownButFirst ==
  /\ main = "takedown"
  /\ \/ /\ \E s \in up : /\ \A t \in up : t <= s
                         /\ s # 1
                         /\ up' = up \ {s}
        /\ main' = main
     \/ /\ up \subseteq {1}
        /\ main' = "returned"
        /\ UNCHANGED up
  /\ UNCHANGED <<cancelled, next, scorable, record, verdict, job, cut>>

TakeDown ==
  /\ main = "takedown"
  /\ \/ /\ \E s \in up : /\ \A t \in up : t <= s
                         /\ up' = up \ {s}
        /\ main' = main
     \/ /\ up = {}
        /\ main' = "returned"
        /\ UNCHANGED up
  /\ UNCHANGED <<cancelled, next, scorable, record, verdict, job, cut>>

-----------------------------------------------------------------------------
(* A job. *)

Queue(j) == {e \in scorable : JobOf[e] = j /\ record[e] = "queued"}

\* Ordinary executions come before named variants.
IsNext(j, e) ==
  /\ e \in Queue(j)
  /\ \A d \in Queue(j) :
       IF e \in NamedVariants THEN d \in NamedVariants /\ e <= d
                              ELSE d \in NamedVariants \/ e <= d

\* progress.complete, or progress.abort when the run has been cancelled.
Record(e, value) ==
  /\ record' = [record EXCEPT ![e] = IF cancelled THEN "aborted" ELSE "completed"]
  /\ verdict' = [verdict EXCEPT ![e] = value]

\* progress.start and the call of runJobWithTimeout.  A job that is cancelled
\* before it starts returns before anything is deferred.
BeginExecution(j) ==
  /\ main = "jobs"
  /\ pc[j] = "idle"
  /\ \E e \in Runnable :
       /\ IsNext(j, e)
       /\ current' = [current EXCEPT ![j] = e]
       /\ record' = [record EXCEPT ![e] = "running"]
       /\ cut' = IF cancelled THEN [cut EXCEPT ![e] = "cancel"] ELSE cut
  /\ expired' = [expired EXCEPT ![j] = FALSE]
  /\ IF cancelled
       THEN /\ pc' = [pc EXCEPT ![j] = "report"]
            /\ result' = [result EXCEPT ![j] = "error"]
            /\ UNCHANGED <<stage, dirty>>
       ELSE /\ pc' = [pc EXCEPT ![j] = IF Stages = <<>> THEN "grade" ELSE "stage"]
            /\ stage' = [stage EXCEPT ![j] = 1]
            /\ result' = [result EXCEPT ![j] = "none"]
            /\ dirty' = [dirty EXCEPT ![j] = Stages # <<>> /\ Stages[1] \in Dirtying]
  /\ UNCHANGED <<cancelled, main, next, up, scorable, verdict>>

\* The working directory of a named variant cannot be made: it never starts.
VariantWithoutDirectory(j) ==
  /\ main = "jobs"
  /\ pc[j] = "idle"
  /\ \E e \in NamedVariants :
       /\ IsNext(j, e)
       /\ Record(e, "error")
       /\ cut' = IF cancelled THEN [cut EXCEPT ![e] = "cancel"] ELSE cut
  /\ UNCHANGED <<cancelled, main, next, up, scorable, job>>

\* A stage returns with an error of its own or because its context is done, or
\* it returns without one and the context is looked at.
StageReturns(j) ==
  /\ pc[j] = "stage"
  /\ \/ /\ pc' = [pc EXCEPT ![j] = "settle"]
        /\ result' = [result EXCEPT ![j] = "error"]
        /\ UNCHANGED <<stage, dirty>>
     \/ /\ ~ctxDone(j)
        /\ stage[j] < Len(Stages)
        /\ stage' = [stage EXCEPT ![j] = @ + 1]
        /\ dirty' = [dirty EXCEPT ![j] = @ \/ Stages[stage[j] + 1] \in Dirtying]
        /\ UNCHANGED <<pc, result>>
     \/ /\ ~ctxDone(j)
        /\ stage[j] = Len(Stages)
        /\ pc' = [pc EXCEPT ![j] = "grade"]
        /\ UNCHANGED <<stage, dirty, result>>
  /\ UNCHANGED <<cancelled, main, next, up, scorable, record, verdict, current,
                 expired, cut>>

\* GradeTR of the parsed results, or an error for a test without any.
Grade(j) ==
  /\ pc[j] = "grade"
  /\ pc' = [pc EXCEPT ![j] = "settle"]
  /\ \E value \in {"graded", "error"} : result' = [result EXCEPT ![j] = value]
  /\ UNCHANGED <<cancelled, main, next, up, scorable, record, verdict, current,
                 stage, expired, dirty, cut>>

\* The deferred function that is run first: a job over its limit fails, unless
\* the whole run was cancelled.
Settle(j) ==
  /\ pc[j] = "settle"
  /\ pc' = [pc EXCEPT ![j] = "teardown"]
  /\ result' = IF expired[j] /\ ~cancelled
                 THEN [result EXCEPT ![j] = "timeout"] ELSE result
  /\ UNCHANGED <<cancelled, main, next, up, scorable, record, verdict, current,
                 stage, expired, dirty, cut>>

\* Faulty variant: Teardown on the execution's own context.
TeardownOnRunContext(j) ==
  /\ pc[j] = "teardown"
  /\ pc' = [pc EXCEPT ![j] = "report"]
  /\ dirty' = [dirty EXCEPT ![j] = @ /\ ctxDone(j)]
  /\ UNCHANGED <<cancelled, main, next, up, scorable, record, verdict, current,
                 stage, expired, result, cut>>

\* The tool's Teardown, on a context that a cancelled run does not end.  It is
\* taken to succeed.
Teardown(j) ==
  /\ pc[j] = "teardown"
  /\ pc' = [pc EXCEPT ![j] = "report"]
  /\ dirty' = [dirty EXCEPT ![j] = FALSE]
  /\ UNCHANGED <<cancelled, main, next, up, scorable, record, verdict, current,
                 stage, expired, result, cut>>

\* Faulty variant: the limit is looked at after Teardown, in a deferred function
\* registered before it.
ReportSettledLate(j) ==
  /\ pc[j] = "report"
  /\ Record(current[j], IF expired[j] /\ ~cancelled THEN "timeout" ELSE result[j])
  /\ pc' = [pc EXCEPT ![j] = "idle"]
  /\ current' = [current EXCEPT ![j] = 0]
  /\ UNCHANGED <<cancelled, main, next, up, scorable, stage, expired, result, dirty, cut>>

\* Faulty variant: the execution is reported and stays current.
ReportKeeping(j) ==
  /\ pc[j] = "report"
  /\ Record(current[j], result[j])
  /\ pc' = [pc EXCEPT ![j] = "idle"]
  /\ UNCHANGED <<cancelled, main, next, up, scorable, current, stage, expired, result,
                 dirty, cut>>

\* runJobWithTimeout has returned.
Report(j) ==
  /\ pc[j] = "report"
  /\ Record(current[j], result[j])
  /\ pc' = [pc EXCEPT ![j] = "idle"]
  /\ current' = [current EXCEPT ![j] = 0]
  /\ UNCHANGED <<cancelled, main, next, up, scorable, stage, expired, result, dirty, cut>>

FinishJob(j) ==
  /\ main = "jobs"
  /\ pc[j] = "idle"
  /\ Queue(j) = {}
  /\ pc' = [pc EXCEPT ![j] = "finished"]
  /\ UNCHANGED <<cancelled, main, next, up, scorable, record, verdict, current,
                 stage, expired, result, dirty, cut>>

-----------------------------------------------------------------------------
(* Time and the operator. *)

\* Before the deferred function that settles the verdicts has looked at the time.
Working(j) == pc[j] \in {"stage", "grade", "settle"}

\* The limit of the running execution passes.
Expire(j) ==
  /\ pc[j] \in {"stage", "grade", "settle", "teardown", "report"}
  /\ ~ctxDone(j)
  /\ expired' = [expired EXCEPT ![j] = TRUE]
  /\ cut' = IF Working(j) THEN [cut EXCEPT ![current[j]] = "limit"] ELSE cut
  /\ UNCHANGED <<cancelled, main, next, up, scorable, record, verdict, pc, current,
                 stage, result, dirty>>

Cancel ==
  /\ ~cancelled
  /\ main # "returned"
  /\ cancelled' = TRUE
  /\ cut' = [e \in Runnable |->
               IF cut[e] = "no" /\ \E j \in Jobs : Working(j) /\ current[j] = e
                 THEN "cancel" ELSE cut[e]]
  /\ UNCHANGED <<main, next, up, scorable, record, verdict, job>>

-----------------------------------------------------------------------------
MainStep == RunSetup \/ Schedule \/ AfterJobs \/ TakeDown

JobStep(j) ==
  \/ BeginExecution(j) \/ VariantWithoutDirectory(j)
  \/ StageReturns(j) \/ Grade(j) \/ Settle(j) \/ Teardown(j) \/ Report(j)
  \/ FinishJob(j)

Next ==
  \/ MainStep
  \/ \E j \in Jobs : JobStep(j) \/ Expire(j)
  \/ Cancel
  \/ main = "returned" /\ UNCHANGED vars

Spec == Init /\ [][Next]_vars

\* Goroutines go on, and stages, setups and teardowns return: each is bounded by
\* a context with a deadline.  Nothing has to expire or to be cancelled.
FairSpec == Spec /\ WF_vars(MainStep) /\ \A j \in Jobs : WF_vars(JobStep(j))

-----------------------------------------------------------------------------
(* Properties. *)

\* Types; and a job has a current execution exactly while it is in the pipeline, which
\* is running, and a stage while it is in one.
TypeOK ==
  /\ cancelled \in BOOLEAN
  /\ main \in {"setup", "jobs", "takedown", "returned"}
  /\ next \in 1..(Len(Scopes) + 1)
  /\ up \subseteq DOMAIN Scopes
  /\ scorable \subseteq Runnable
  /\ record \in [Runnable -> {"queued", "running", "completed", "aborted"}]
  /\ verdict \in [Runnable -> {"none", "graded", "error", "timeout"}]
  /\ pc \in [Jobs -> PCs]
  /\ current \in [Jobs -> Runnable \cup {0}]
  /\ stage \in [Jobs -> Nat]
  /\ expired \in [Jobs -> BOOLEAN]
  /\ result \in [Jobs -> {"none", "graded", "error", "timeout"}]
  /\ dirty \in [Jobs -> BOOLEAN]
  /\ cut \in [Runnable -> {"no", "limit", "cancel"}]
  /\ \A j \in Jobs : current[j] = 0 <=> pc[j] \in {"idle", "finished"}
  /\ \A j \in Jobs : current[j] # 0 => record[current[j]] = "running"
  /\ \A j \in Jobs : pc[j] = "stage" => stage[j] \in 1..Len(Stages)

\* "Teardown always runs": however an execution ended, nothing it made is on the
\* cluster when the next one of the job starts or the job is over.
TeardownAlwaysRuns ==
  \A j \in Jobs : pc[j] \in {"idle", "finished"} => ~dirty[j]

\* "Aborted executions must remain resumable; they are deliberately not
\* represented as completed errors": what a cancellation has cut short is aborted.
\* A limit that passes first and is not followed by a cancellation is a failure,
\* and a test that was not over its limit does not fail for it, whatever passes
\* while it is torn down.
OutcomeTellsWhy ==
  \A e \in Runnable :
    /\ cut[e] = "cancel" /\ record[e] \in {"completed", "aborted"} => record[e] = "aborted"
    /\ cut[e] = "limit" /\ record[e] = "completed" => verdict[e] = "timeout"
    /\ verdict[e] = "timeout" => cut[e] = "limit"

\* A test runs only while every shared setup it is in the scope of is up.
SetupsHold ==
  \A j \in Jobs, s \in DOMAIN Scopes :
    current[j] \in Scopes[s] => s \in up

\* Every execution gets a final record and a verdict, and whatever was set up
\* is down again when Run returns.
RunComesToItsEnd ==
  <>(main = "returned" /\ up = {}
     /\ \A e \in Runnable : record[e] \in {"completed", "aborted"} /\ verdict[e] # "none")

=============================================================================
