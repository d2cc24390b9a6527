---------------------------- MODULE RunLifecycle ----------------------------
(***************************************************************************)
(* A certification campaign: `harness run`, interrupted and continued with  *)
(* `recover` and `run --continue-from`, and the report.json it leaves       *)
(* behind (cmd/harness/main.go, cmd/harness/checkpoint.go and Run in        *)
(* internal/orchestrator/orchestrator.go).                                  *)
(*                                                                          *)
(* One process at a time.  Its main goroutine goes through the phases of    *)
(* newRunCmd and Run; one worker goroutine per tool runs the executions of  *)
(* the tool one after another.  Every worker publishes its progress by a    *)
(* checkpoint: it copies the verdicts, then the execution records, each     *)
(* under its own mutex, and then has the reportCheckpoint merge the copy    *)
(* into the latest report and write it.  A crash loses all memory and       *)
(* leaves report.json (disk).                                               *)
(*                                                                          *)
(* When jobs may start is JobExclusion's promise, which Scheduler keeps.    *)
(* A job's stage pipeline is reduced to its checkpoints and its result.     *)
(***************************************************************************)
EXTENDS Integers, FiniteSets

CONSTANTS
  TRs,            \* the selected test requirements, as numbers in catalog order
  Variants,       \* Variants[t]: t's named variants, as positive numbers
  Items,          \* scorable items
  CatalogItems,   \* the items itemVerdicts names: the SLAs and checks of the catalog
  Results,        \* verdicts a job may produce for one execution
  NotRunnable,    \* requirements with no registered automation tool
  MissingParams,  \* requirements with an unset required parameter
  SetupScopes,    \* SetupScopes[s]: the requirements the s-th shared setup is for
  Jobs, ToolOf,   \* the tools, and the tool of each requirement
  ParallelSafe, JobGroups, Slots,   \* the scheduling constraints
  MaxParts,       \* bound: runs of the harness in one campaign
  Faults,         \* what may go wrong: a subset of FaultKinds
  RetryFailed,    \* the values of --retry-failed the operator uses
  RecoverFirst    \* the operator runs `recover` before continuing a stale report

\* The process is killed, the run is cancelled, a report cannot be written, the
\* directory of a variant cannot be made.
FaultKinds == {"crash", "cancel", "write", "mkdir"}

\* ExecutionLabel: a requirement without variants runs once, as variant 0.
Executions(t) == IF Variants[t] = {} THEN {<<t, 0>>} ELSE {t} \X Variants[t]

Plan == UNION {Executions(t) : t \in TRs}

\* Every key a report can hold: NewRunning records the selected requirements
\* before their variants are expanded.
Keys == Plan \cup (TRs \X {0})

INSTANCE ReportAlgebra

ASSUME LifecycleAssumption ==
  /\ TRs \subseteq Nat
  /\ Variants \in [TRs -> SUBSET (Nat \ {0})]
  /\ CatalogItems \subseteq Items
  /\ CatalogItems # {}
  /\ Results \subseteq Verdicts \ {NoVerdict}
  /\ NotRunnable \subseteq TRs
  /\ MissingParams \subseteq TRs
  /\ DOMAIN SetupScopes \subseteq Nat
  /\ ToolOf \in [TRs -> Jobs]
  /\ MaxParts \in Nat \ {0}
  /\ Faults \subseteq FaultKinds
  /\ RetryFailed \subseteq BOOLEAN
  /\ RecoverFirst \in BOOLEAN

VARIABLES
  disk,       \* report.json
  part,       \* runs started so far
  main,       \* where the main goroutine is; "off" when no process runs
  prior,      \* the report read by --continue-from, NoReport in a first run
  retry,      \* --retry-failed of this run
  latest,     \* reportCheckpoint.latest
  lastErr,    \* reportCheckpoint.lastErr is set
  cancelled,  \* ctx.Err() != nil: a signal came or --timeout has passed
  record,     \* executionStates ("absent": not selected in this run)
  verdict,    \* verdicts of this run
  scorable,   \* executions handed to the scheduler
  setups,     \* shared setups not yet run
  phase,      \* phase[j]: the scheduler's view of job j
  worker,     \* worker[j]: where job j's goroutine is
  pending,    \* pending[j]: verdicts of job j's executions, not yet in verdict
  copied      \* copied[j]: the snapshot j's checkpoint is taking

memory == <<prior, retry, latest, lastErr, cancelled, record, verdict, scorable,
            setups, phase, worker, pending, copied>>
vars == <<disk, part, main, memory>>

Mains == {"off", "enter", "classify", "setup", "jobs"}
Workers == {"idle", "ready", "verdicts", "records", "save", "work"}

ExecutionsOf(j) == {e \in Plan : ToolOf[e[1]] = j}

\* The verdicts itemVerdicts makes of one outcome.
Uniform(outcome) ==
  [i \in Items |-> IF i \in CatalogItems THEN outcome ELSE "none"]

Init ==
  /\ disk = NoReport
  /\ part = 0
  /\ main = "off"
  /\ prior = NoReport
  /\ retry = FALSE
  /\ latest = NoReport
  /\ lastErr = FALSE
  /\ cancelled = FALSE
  /\ record = NoRecords
  /\ verdict = NoVerdicts
  /\ scorable = {}
  /\ setups = {}
  /\ phase = [j \in Jobs |-> "waiting"]
  /\ worker = [j \in Jobs |-> "idle"]
  /\ pending = [j \in Jobs |-> NoVerdicts]
  /\ copied = [j \in Jobs |-> NoReport]

\* The process ends.
Exit ==
  /\ main' = "off"
  /\ prior' = NoReport
  /\ retry' = FALSE
  /\ latest' = NoReport
  /\ lastErr' = FALSE
  /\ cancelled' = FALSE
  /\ record' = NoRecords
  /\ verdict' = NoVerdicts
  /\ scorable' = {}
  /\ setups' = {}
  /\ phase' = [j \in Jobs |-> "waiting"]
  /\ worker' = [j \in Jobs |-> "idle"]
  /\ pending' = [j \in Jobs |-> NoVerdicts]
  /\ copied' = [j \in Jobs |-> NoReport]

-----------------------------------------------------------------------------
(* Writing the report. *)

\* writeReportFiles succeeds, or fails before or after replacing report.json
\* (the Markdown and JUnit files are written after it).
WriteResults ==
  IF "write" \in Faults THEN {"written", "late error", "error"} ELSE {"written"}

Written(old, new, result) == IF result = "error" THEN old ELSE new

Snapshot(records, verdicts, status, incidents) ==
  [status |-> status, record |-> records, verdict |-> verdicts,
   incidents |-> incidents]

\* reportCheckpoint.Save.
Save(snapshot) ==
  \E result \in WriteResults :
     /\ latest' = Merge(latest, snapshot)
     /\ disk' = Written(disk, latest', result)
     /\ lastErr' = (lastErr \/ result # "written")

\* A checkpoint of the main goroutine while no worker runs.
Checkpoint == Save(Snapshot(record, verdict, "running", {}))

-----------------------------------------------------------------------------
(* Starting a run. *)

\* NewRunning.
Shell(selected) ==
  [NoReport EXCEPT !.status = "running",
                   !.record = [k \in Keys |-> IF k \in selected \X {0}
                                                THEN "queued" ELSE "absent"]]

\* newRunCmd up to the call of Run: the initial report is written before any
\* test is run, and the run is refused when it cannot be.
Begin(selected, from, retryFailed) ==
  LET initial == IF from = NoReport THEN Shell(selected)
                                    ELSE Merge(from, Shell(selected))
  IN  \E result \in WriteResults :
        /\ part' = part + 1
        /\ disk' = Written(disk, initial, result)
        /\ IF result = "written"
             THEN /\ main' = "enter"
                  /\ prior' = from
                  /\ retry' = retryFailed
                  /\ latest' = initial
                  /\ scorable' = UNION {Executions(t) : t \in selected}
                  /\ UNCHANGED <<lastErr, cancelled, record, verdict, setups,
                                 phase, worker, pending, copied>>
             ELSE UNCHANGED <<main, memory>>

FirstRun ==
  /\ main = "off"
  /\ part = 0
  /\ Begin(TRs, NoReport, FALSE)

\* --continue-from: ResumeExecutionsWithOptions is applied to requirements, so
\* a requirement is looked up as an execution without a variant.
ContinueFrom ==
  /\ main = "off"
  /\ part \in 1..(MaxParts - 1)
  /\ disk.status # "none"
  /\ RecoverFirst => disk.status # "running"
  /\ \E r \in RetryFailed :
        Begin({t \in TRs : ~Skips(disk, <<t, 0>>, r)}, disk, r)

\* Faulty variant: the recovered report carries no incident.
RecoverQuietly ==
  /\ main = "off"
  /\ disk.status = "running"
  /\ disk' = Finalize(disk, "abandoned")
  /\ UNCHANGED <<part, main, memory>>

\* harness recover.
Recover ==
  /\ main = "off"
  /\ disk.status = "running"
  /\ \E result \in WriteResults :
        disk' = Written(disk,
                        Finalize([disk EXCEPT !.incidents = @ \cup {"run-abandoned"}],
                                 "abandoned"),
                        result)
  /\ UNCHANGED <<part, main, memory>>

-----------------------------------------------------------------------------
(* Run, before the scheduler. *)

\* ResolveExecutions, and the first checkpoint of Run: everything is queued.
Enter ==
  /\ main = "enter"
  /\ main' = "classify"
  /\ record' = [k \in Keys |-> IF k \in scorable THEN "queued" ELSE "absent"]
  /\ Save(Snapshot(record', verdict, "running", {}))
  /\ UNCHANGED <<part, prior, retry, cancelled, verdict, scorable, setups, phase,
                 worker, pending, copied>>

\* Executions that cannot be run get their verdicts at once.
Classify ==
  LET skips == {e \in scorable : e[1] \in NotRunnable}
      errors == {e \in scorable \ skips : e[1] \in MissingParams}
  IN  /\ main = "classify"
      /\ main' = "setup"
      /\ verdict' = [k \in Keys |-> CASE k \in skips  -> Uniform("skip")
                                      [] k \in errors -> Uniform("error")
                                      [] OTHER        -> verdict[k]]
      /\ record' = [k \in Keys |-> CASE k \in skips  -> "skip"
                                     [] k \in errors -> "error"
                                     [] OTHER        -> record[k]]
      /\ scorable' = scorable \ (skips \cup errors)
      /\ setups' = {s \in DOMAIN SetupScopes :
                      \E e \in scorable' : e[1] \in SetupScopes[s]}
      /\ Save(Snapshot(record', verdict', "running", {}))
      /\ UNCHANGED <<part, prior, retry, cancelled, phase, worker, pending, copied>>

\* The executions a setup is for, fixed before the first setup runs: those of
\* its requirements that were found runnable.
SetupExecutions(s) ==
  {e \in Plan : /\ record[e] # "absent"
                /\ e[1] \in SetupScopes[s] \ (NotRunnable \cup MissingParams)}

\* Faulty variant: the executions of a failed setup get no verdicts.
RunSetupSilently ==
  /\ main = "setup"
  /\ \E s \in setups :
       /\ \A other \in setups : s <= other
       /\ setups' = setups \ {s}
       /\ record' = [k \in Keys |-> IF k \in SetupExecutions(s)
                                      THEN IF cancelled THEN "aborted" ELSE "error"
                                      ELSE record[k]]
       /\ scorable' = {e \in scorable : e[1] \notin SetupScopes[s]}
  /\ Checkpoint
  /\ UNCHANGED <<part, main, prior, retry, cancelled, verdict, phase, worker, pending,
                 copied>>

\* SetStage's checkpoint, then the provider's Setup.  A failed setup gives its
\* executions error verdicts and takes their requirements off the schedule.
RunSetup ==
  /\ main = "setup"
  /\ \E s \in setups :
       /\ \A other \in setups : s <= other
       /\ setups' = setups \ {s}
       /\ \/ UNCHANGED <<verdict, record, scorable>>
          \/ LET failed == SetupExecutions(s)
             IN  /\ verdict' = [k \in Keys |-> IF k \in failed THEN Uniform("error")
                                                               ELSE verdict[k]]
                 /\ record' = [k \in Keys |-> IF k \in failed
                                                THEN IF cancelled /\ record[k] = "queued"
                                                       THEN "aborted"
                                                     ELSE IF cancelled THEN record[k]
                                                     ELSE "error"
                                                ELSE record[k]]
                 /\ scorable' = {e \in scorable : e[1] \notin SetupScopes[s]}
  /\ Checkpoint
  /\ UNCHANGED <<part, main, prior, retry, cancelled, phase, worker, pending, copied>>

\* groupByTool makes a job of every tool that has executions left.
Schedule ==
  /\ main = "setup"
  /\ setups = {}
  /\ main' = "jobs"
  /\ phase' = [j \in Jobs |-> IF scorable \cap ExecutionsOf(j) = {}
                                THEN "finished" ELSE "waiting"]
  /\ Checkpoint
  /\ UNCHANGED <<part, prior, retry, cancelled, record, verdict, scorable, setups,
                 worker, pending, copied>>

-----------------------------------------------------------------------------
(* A worker. *)

Sched == INSTANCE JobExclusion WITH returned <- (main # "jobs")

\* The job's executions that are still to run: ordinary ones first, then
\* variants, each in the order of the plan.
Queued(j) == {e \in scorable \cap ExecutionsOf(j) : record[e] = "queued"}

Before(d, e) ==
  \/ d[2] = 0 /\ e[2] # 0
  \/ /\ d[2] = 0 <=> e[2] = 0
     /\ d[1] < e[1] \/ (d[1] = e[1] /\ d[2] < e[2])

NextExecution(j, e) == e \in Queued(j) /\ \A d \in Queued(j) : ~Before(d, e)

Active(j) == {e \in ExecutionsOf(j) : record[e] = "running"}

StartJob(j) ==
  /\ main = "jobs"
  /\ phase' = [phase EXCEPT ![j] = "running"]
  /\ main' = main
  /\ Sched!Start(j)
  /\ worker' = [worker EXCEPT ![j] = "ready"]
  /\ UNCHANGED <<disk, part, prior, retry, latest, lastErr, cancelled, record,
                 verdict, scorable, setups, pending, copied>>

\* progress.start, which ends in a checkpoint.
StartExecution(j) ==
  /\ worker[j] = "ready"
  /\ \E e \in Plan : /\ NextExecution(j, e)
                     /\ record' = [record EXCEPT ![e] = "running"]
  /\ worker' = [worker EXCEPT ![j] = "verdicts"]
  /\ UNCHANGED <<disk, part, main, prior, retry, latest, lastErr, cancelled,
                 verdict, scorable, setups, phase, pending, copied>>

\* SetStage or RecordArtifacts in the stage pipeline: another checkpoint.
EnterStage(j) ==
  /\ worker[j] = "work"
  /\ worker' = [worker EXCEPT ![j] = "verdicts"]
  /\ UNCHANGED <<disk, part, main, prior, retry, latest, lastErr, cancelled, record,
                 verdict, scorable, setups, phase, pending, copied>>

\* progress.complete, or progress.abort when the run was cancelled: the record
\* is in memory at once, the verdicts stay with the worker.
Report(j, e, result) ==
  /\ record' = [record EXCEPT ![e] = IF cancelled THEN "aborted"
                                                  ELSE Summarize(result)]
  /\ pending' = [pending EXCEPT ![j][e] = result]
  /\ worker' = [worker EXCEPT ![j] = "ready"]
  /\ UNCHANGED <<disk, part, main, prior, retry, latest, lastErr, cancelled,
                 verdict, scorable, setups, phase, copied>>

\* runJob returns.
FinishExecution(j) ==
  /\ worker[j] = "work"
  /\ \E e \in Active(j), result \in Results : Report(j, e, result)

\* The directory of a variant cannot be made.
VariantWithoutDirectory(j) ==
  /\ worker[j] = "ready"
  /\ "mkdir" \in Faults
  /\ \E e \in Plan : /\ NextExecution(j, e)
                     /\ e[2] # 0
                     /\ Report(j, e, Uniform("error"))

\* Faulty variant: the append to the run's verdicts is lost to another job's.
FinishJobOverwriting(j) ==
  /\ worker[j] = "ready"
  /\ Queued(j) = {}
  /\ verdict' = pending[j]
  /\ pending' = [pending EXCEPT ![j] = NoVerdicts]
  /\ worker' = [worker EXCEPT ![j] = "verdicts"]
  /\ UNCHANGED <<disk, part, main, prior, retry, latest, lastErr, cancelled, record,
                 scorable, setups, phase, copied>>

\* The job's last execution is done: its verdicts are appended to the run's.
FinishJob(j) ==
  /\ worker[j] = "ready"
  /\ Queued(j) = {}
  /\ verdict' = OverlayVerdicts(verdict, pending[j])
  /\ pending' = [pending EXCEPT ![j] = NoVerdicts]
  /\ worker' = [worker EXCEPT ![j] = "verdicts"]
  /\ UNCHANGED <<disk, part, main, prior, retry, latest, lastErr, cancelled, record,
                 scorable, setups, phase, copied>>

\* checkpointSnapshot: the verdicts, under resultsMu, ...
CopyVerdicts(j) ==
  /\ worker[j] = "verdicts"
  /\ copied' = [copied EXCEPT ![j] = Snapshot(NoRecords, verdict, "running", {})]
  /\ worker' = [worker EXCEPT ![j] = "records"]
  /\ UNCHANGED <<disk, part, main, prior, retry, latest, lastErr, cancelled, record,
                 verdict, scorable, setups, phase, pending>>

\* ... then the execution records, under stateMu.
CopyRecords(j) ==
  /\ worker[j] = "records"
  /\ copied' = [copied EXCEPT ![j].record = record]
  /\ worker' = [worker EXCEPT ![j] = "save"]
  /\ UNCHANGED <<disk, part, main, prior, retry, latest, lastErr, cancelled, record,
                 verdict, scorable, setups, phase, pending>>

\* Save, and on with the execution; after the job's last checkpoint the job is over.
SaveCopy(j) ==
  /\ worker[j] = "save"
  /\ Save(copied[j])
  /\ copied' = [copied EXCEPT ![j] = NoReport]
  /\ IF Active(j) # {}
       THEN worker' = [worker EXCEPT ![j] = "work"] /\ UNCHANGED phase
       ELSE /\ worker' = [worker EXCEPT ![j] = "idle"]
            /\ phase' = [phase EXCEPT ![j] = "finished"]
  /\ UNCHANGED <<part, main, prior, retry, cancelled, record, verdict, scorable,
                 setups, pending>>

-----------------------------------------------------------------------------
(* The end of a run, and what can interrupt it. *)

\* Faulty variant: a cancelled run is called complete.
FinalReportDespiteCancel == Snapshot(record, verdict, "complete", {})

\* Run after schedule has returned: the final status and its incident.
FinalReport ==
  LET final == [k \in Keys |-> IF record[k] = "running" THEN "aborted" ELSE record[k]]
      terminal == \A k \in Keys : final[k] \in {"absent", "aborted"} \cup Outcomes
  IN  CASE cancelled ->
             Snapshot(final, verdict, "partial", {"run-cancelled"})
        [] ~cancelled /\ ~terminal ->
             Snapshot(final, verdict, "partial", {"run-incomplete"})
        [] OTHER ->
             Snapshot(final, verdict, "complete", {})

\* Faulty variant: the final report is not merged into the prior one.
ConcludeWithoutPrior ==
  /\ main = "jobs"
  /\ \A j \in Jobs : phase[j] = "finished"
  /\ disk' = FinalReport
  /\ Exit
  /\ UNCHANGED part

\* Faulty variant: the latest checkpoint is written as it is.
ConcludeUnfinalized ==
  LET final == IF prior = NoReport THEN FinalReport ELSE Merge(prior, FinalReport)
  IN  /\ main = "jobs"
      /\ \A j \in Jobs : phase[j] = "finished"
      /\ \E result, second \in WriteResults :
           disk' = IF lastErr THEN Written(disk, latest, second)
                   ELSE IF result = "written" THEN final
                   ELSE Written(Written(disk, final, result), latest, second)
      /\ Exit
      /\ UNCHANGED part

\* newRunCmd after Run: an earlier checkpoint error, or an error writing the
\* final report, finalizes the latest checkpoint as partial instead.
Conclude ==
  LET final == IF prior = NoReport THEN FinalReport ELSE Merge(prior, FinalReport)
      fallback == Finalize(latest, "partial")
  IN  /\ main = "jobs"
      /\ \A j \in Jobs : phase[j] = "finished"
      /\ \E result, second \in WriteResults :
           disk' = IF lastErr THEN Written(disk, fallback, second)
                   ELSE IF result = "written" THEN final
                   ELSE Written(Written(disk, final, result), fallback, second)
      /\ Exit
      /\ UNCHANGED part

\* SIGINT, SIGTERM or --timeout.
Cancel ==
  /\ "cancel" \in Faults
  /\ main # "off"
  /\ ~cancelled
  /\ cancelled' = TRUE
  /\ UNCHANGED <<disk, part, main, prior, retry, latest, lastErr, record, verdict,
                 scorable, setups, phase, worker, pending, copied>>

\* The process is killed.
Crash ==
  /\ "crash" \in Faults
  /\ main # "off"
  /\ Exit
  /\ UNCHANGED <<disk, part>>

-----------------------------------------------------------------------------
MainStep == Enter \/ Classify \/ RunSetup \/ Schedule \/ Conclude

WorkerStep(j) ==
  \/ StartJob(j) \/ StartExecution(j) \/ EnterStage(j) \/ FinishExecution(j)
  \/ VariantWithoutDirectory(j) \/ FinishJob(j)
  \/ CopyVerdicts(j) \/ CopyRecords(j) \/ SaveCopy(j)

Next ==
  \/ FirstRun \/ ContinueFrom \/ Recover
  \/ MainStep
  \/ \E j \in Jobs : WorkerStep(j)
  \/ Cancel \/ Crash

Spec == Init /\ [][Next]_vars

\* The goroutines of a run are scheduled fairly, and a job goes through a fixed
\* number of stages, so that it does not checkpoint for ever.  Nothing obliges
\* the operator to start, recover or continue a run.
FairSpec ==
  /\ Spec
  /\ WF_vars(MainStep)
  /\ \A j \in Jobs : WF_vars(WorkerStep(j)) /\ SF_vars(FinishExecution(j))

-----------------------------------------------------------------------------
(* Properties. *)

TypeOK ==
  /\ disk \in Reports /\ latest \in Reports /\ prior \in Reports
  /\ part \in 0..MaxParts
  /\ main \in Mains
  /\ retry \in BOOLEAN /\ lastErr \in BOOLEAN /\ cancelled \in BOOLEAN
  /\ record \in [Keys -> Records]
  /\ verdict \in [Keys -> Verdicts]
  /\ scorable \subseteq Plan
  /\ setups \subseteq DOMAIN SetupScopes
  /\ phase \in [Jobs -> {"waiting", "running", "finished"}]
  /\ worker \in [Jobs -> Workers]
  /\ pending \in [Jobs -> [Keys -> Verdicts]]
  /\ copied \in [Jobs -> Reports]

\* A verdict that has reached report.json is never lost again, whatever is
\* interrupted, retried, merged or fails to be written: a later step may only
\* replace it by another verdict on the same item.
EvidenceNeverLost ==
  [][\A k \in Keys, i \in Items :
       disk.verdict[k][i] # "none" => disk'.verdict[k][i] # "none"]_vars

\* An incident that blocks certification stays in the report for good.
IncidentsStick == [][disk.incidents \subseteq disk'.incidents]_vars

\* A report that says "complete" accounts for every execution of the plan: all
\* of them have completed, in this run or in one it continues.
CompleteCoversPlan ==
  disk.status = "complete" => \A e \in Plan : disk.record[e] \in Outcomes

\* "failed results are preserved": a report whose record of an execution is a
\* failure or an error is not certifiable.  The record and the verdicts, which
\* decide certification, reach the report at different times.
FailureBlocksCertification ==
  (\E e \in Plan : disk.record[e] \in {"fail", "error"}) => ~Certifiable(disk)

\* A certifiable report has earned it: every execution of the plan has verdicts
\* in it, and none of them is a failure or an error.
CertifiableIsEarned ==
  Certifiable(disk) => \A e \in Plan : /\ Has(disk.verdict[e], Outcomes)
                                       /\ ~Has(disk.verdict[e], {"fail", "error"})

\* A report that is not under way and was never abandoned has verdicts for every
\* execution it records as completed, even when checkpoints failed to be written.
FinalReportIsBacked ==
  disk.status # "running" /\ "run-abandoned" \notin disk.incidents =>
    \A e \in Plan : disk.record[e] \in Outcomes => Has(disk.verdict[e], Outcomes)

\* Execution e, if the prior report has it as completed, runs again only if it failed
\* and the operator asked for a retry.
RerunAsAsked(e) ==
  record[e] = "running" /\ prior.record[e] \in Outcomes =>
    retry /\ prior.record[e] \in {"fail", "error"}

\* "every completed execution for the matching scenario is skipped".
CompletedNotRerun == \A e \in Plan : RerunAsAsked(e)

\* Every completed execution of a requirement without variants is skipped, whatever
\* becomes of the variants of others.
OrdinaryNotRerun == \A e \in Plan : Variants[e[1]] = {} => RerunAsAsked(e)

\* "keeps the latest report available for recovery": while a run is under way,
\* its checkpoints never take back that an execution has completed.
CompletionNeverUnrecorded ==
  [][main # "off" /\ main' = main =>
       \A e \in Plan : disk.record[e] \in Outcomes => disk'.record[e] \in Outcomes]_vars

\* The step that ends a run leaves a report that says "running" only if it has not
\* written one: not after a checkpoint that failed, nor after a final report that did.
EndIsFinal ==
  [][main # "off" /\ main' = "off" => disk'.status # "running" \/ disk' = disk]_vars

\* Every run that is started ends, cancelled or not, whatever its workers wait for
\* and whichever write fails.
RunStops == main # "off" ~> main = "off"

\* ... and it ends with a final report if it can write one.
RunEnds == RunStops /\ EndIsFinal

=============================================================================
