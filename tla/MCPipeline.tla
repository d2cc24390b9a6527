----------------------------- MODULE MCPipeline -----------------------------
(* Five models of one harness, of which one moves in each behaviour: from the  *)
(* catalog to the jobs (Selection), the jobs and their stages (JobPipeline),   *)
(* one execution from what its tool did to its verdicts (Assessment), the      *)
(* files of the report (ReportFiles, with its theorems), and one run of a      *)
(* campaign with its checkpoints (RunLifecycle).                               *)
EXTENDS JobPipeline, MCSelection

CONSTANTS
  virtbench, kubeburner,
  Inputs, Tools, RunSetups, GroupSetups,                       \* see Selection
  Catalog, Durations, MaxObjects, MaxAttempts,                 \* see Assessment
  virtParallelCheckVMs,                                        \* see ResultParsing
  MaxSaves                                                     \* see ReportFiles

VARIABLES
  focus,
  test, out, aPc, clean, left, attempt, latest, verdicts,
  input, sPc, selected, sScorable, results, setups, jobs,
  file, attestations, number, at, step, synced, pending,
  disk, part, rMain, prior, retry, rLatest, lastErr, rCancelled, rRecord, rVerdict,
  rScorable, toSetUp, phase, worker, unreported, copied

aVars == <<test, out, aPc, clean, left, attempt, latest, verdicts>>
sVars == <<input, sPc, selected, sScorable, results, setups, jobs>>
fVars == <<file, attestations, number, at, step, synced, pending>>
rVars == <<disk, part, rMain, prior, retry, rLatest, lastErr, rCancelled, rRecord, rVerdict,
           rScorable, toSetUp, phase, worker, unreported, copied>>
allVars == <<focus, vars, aVars, sVars, fVars, rVars>>

\* Two tools, one with an ordinary execution and a named variant; a setup for the
\* whole run and one for a group of tests.
MCJobOf == [e \in 1..3 |-> IF e = 3 THEN kubeburner ELSE virtbench]
MCStages == <<"preflight", "provision", "run", "collect", "parse">>
MCScopes == <<1..3, {1, 3}>>

CAT == INSTANCE MCCatalog
MCTests == CAT!AllTests
MCDurations == {0, 360000, 1080000}

AS == INSTANCE Assessment WITH pc <- aPc, report <- verdicts
SE == INSTANCE Selection WITH pc <- sPc, scorable <- sScorable
RF == INSTANCE ReportFilesProofs WITH report <- number

\* A campaign of one run, of two tools that may run at the same time: the first one's
\* requirement has a named variant and a setup of its own, and one of the other's
\* lacks a parameter.  Executions fail; that some pass is Lifecycle_campaign's matter.
MCVariants == [t \in 1..3 |-> IF t = 1 THEN {1} ELSE {}]
MCToolOf == [t \in 1..3 |-> IF t = 1 THEN virtbench ELSE kubeburner]
MCSetupScopes == <<1..3, {1}>>
MCResults == {[i \in {"sla", "native"} |-> IF i = "sla" THEN "fail" ELSE "none"]}
MCNoGroups == [j \in Jobs |-> {}]

RL == INSTANCE RunLifecycle WITH
        TRs <- 1..3, Variants <- MCVariants, Items <- {"sla", "native"},
        CatalogItems <- {"sla"}, Results <- MCResults, NotRunnable <- {},
        MissingParams <- {3}, SetupScopes <- MCSetupScopes, ToolOf <- MCToolOf,
        ParallelSafe <- Jobs, JobGroups <- MCNoGroups, Slots <- 2, MaxParts <- 1,
        Faults <- {"cancel", "mkdir", "write"}, RetryFailed <- {FALSE}, RecoverFirst <- TRUE,
        main <- rMain, latest <- rLatest, cancelled <- rCancelled, record <- rRecord,
        verdict <- rVerdict, scorable <- rScorable, setups <- toSetUp,
        pending <- unreported

ASSUME PipelinesAssumption ==
  /\ PipelineAssumption
  /\ AS!AssessmentAssumption
  /\ SE!SelectionAssumption

-----------------------------------------------------------------------------
\* A behaviour of one model begins in one state of the others.
Idle == test.kind = "storm" /\ test.params.objects = 1

Nothing == input = [catalog |-> GoodCatalog, thresholds |-> GoodThresholds, plan |-> Everything,
                    flags |-> Unfiltered, prior |-> NoReport, retryFailed |-> FALSE]

MCInit ==
  /\ Init /\ AS!Init /\ SE!Init /\ RF!Init /\ RL!Init
  /\ focus \in {"selection", "pipeline", "assessment", "files", "campaign"}
  /\ focus # "assessment" => Idle
  /\ focus # "selection" => Nothing

InPipeline(A) == focus = "pipeline" /\ A /\ UNCHANGED <<focus, aVars, sVars, fVars, rVars>>
InCampaign(A) == focus = "campaign" /\ A /\ UNCHANGED <<focus, vars, aVars, sVars, fVars>>

MCNext ==
  \/ focus = "selection" /\ SE!Next /\ UNCHANGED <<focus, vars, aVars, fVars, rVars>>
  \/ focus = "pipeline" /\ Next /\ UNCHANGED <<focus, aVars, sVars, fVars, rVars>>
  \/ focus = "assessment" /\ AS!Next /\ UNCHANGED <<focus, vars, sVars, fVars, rVars>>
  \/ focus = "files" /\ RF!Next /\ UNCHANGED <<focus, vars, aVars, sVars, rVars>>
  \/ focus = "campaign" /\ RL!Next /\ UNCHANGED <<focus, vars, aVars, sVars, fVars>>

\* The pipeline and the campaign with their own fairness.
MCFairSpec ==
  /\ MCInit /\ [][MCNext]_allVars
  /\ WF_allVars(InPipeline(MainStep))
  /\ \A j \in Jobs : WF_allVars(InPipeline(JobStep(j)))
  /\ WF_allVars(InCampaign(RL!MainStep))
  /\ \A j \in Jobs : /\ WF_allVars(InCampaign(RL!WorkerStep(j)))
                     /\ SF_allVars(InCampaign(RL!FinishExecution(j)))

-----------------------------------------------------------------------------
(* Properties of the other four, by the names that they have there. *)

\* All of the variables have their types; those of the campaign, see MCRunLifecycle.
AllTypesOK == TypeOK /\ AS!TypeOK /\ SE!TypeOK /\ RF!TypeOK

\* A test that passes met all of its bars, whatever is left of the tool's output.
PassIsEarned == AS!PassIsEarned

\* Every item that the test's tool measures or checks has a verdict once it is graded.
EveryItemAnswered == AS!EveryItemAnswered

\* A run ends with a result for every execution, and takes its setups down.
PipelineComesToItsEnd == focus = "pipeline" => RunComesToItsEnd

\* What a plan asks for is run once, with its parameters, or has its outcome; and
\* tests overlap only if their tools or the plan allow it.
EveryTestPlaced == SE!EveryTestPlaced /\ SE!OverlapIsAllowed

\* The files of the report are whole, whatever becomes of the process or machine.
ReportStaysWhole == RF!ReportStaysWhole

\* The report a run leaves has verdicts for all that it calls completed.
FinalReportIsBacked == RL!FinalReportIsBacked

\* Every run ends, with a final report if it could write one.
RunEnds == (focus = "campaign" => RL!RunStops) /\ RL!EndIsFinal

=============================================================================
