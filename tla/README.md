# storage-cert-harness in TLA+

This directory specifies the core of the storage certification harness: how it
chooses, schedules and stages its tests, what the tests do to a cluster, how
their output becomes verdicts, and how it keeps a report that survives crashes
and continuations. All references `file:line` are to the repository.

## 1. The system

`harness run` loads a catalog of test requirements (TRs), selects some of them,
expands each into its named variants (an *execution* is a TR with a variant, or
without one), runs them with the tools that are registered for them, grades the
results and writes `report.json`, with Markdown and JUnit beside it.
`harness recover` closes the report of a run that was killed;
`run --continue-from` starts another run that leaves out what a prior report has
as completed and merges its results into it.

| Component | State | Operations | Interacts with |
|---|---|---|---|
| Selection (plan, catalog, thresholds, kb, registry; orchestrator.go:342-584) | documents, registry of tools and setups | validate, join, filter, resume, resolve, classify, group | CLI, Run |
| Scheduler, `schedule` (orchestrator.go:589) | semaphore, RWMutex, a mutex per exclusivity group | run all jobs, at most `concurrency` at a time | calls a job body per tool |
| Run (orchestrator.go:41) | verdicts, execution records, incidents, each under a mutex | resolve, classify, shared setups, schedule, final status | scheduler, progress tracker, checkpoints |
| Job pipeline (orchestrator.go:667, :897) | stage, contexts, deferred functions | preflight, provision, run, collect, parse, grade, teardown | stage adapters of a tool, Run's callbacks |
| Progress tracker (progress.go) | state and outcome per execution | start, complete, abort | Run's records, through `onStateChange` |
| Checkpoint (checkpoint.go:15) | latest report, last error | Save, RecordIncident, Finalize | every worker; report files |
| Report algebra (report.go) | none | Merge, Finalize, RefreshLifecycle | checkpoint, main, recover |
| CLI (main.go) | prior report, deferred finalization | run, recover, attest, preflight, list | all of the above |
| ssh helper pod (setup.go) | one pod of a fixed name on the cluster | Setup, rollback, Teardown | kubectl; other harness runs |
| virtbench adapter (internal/tools/virtbench) | bag per job, VMs, snapshots, namespaces, cordons, result files | the stages of each scenario | kubectl, virtbench CLI |
| kube-burner adapters (internal/tools/kubeburner, kubeburnerocp) | private StorageClass and profile, namespaces, result files | the stages of each workload | kubectl, CDI, kube-burner CLIs |
| Grader (internal/grader) and parsers | none | parse outputs, convert units, select bars, evaluate SLAs and checks | job pipeline |
| Storage preflight (internal/clustercheck) | caches of one check | choose classes, complete claims, inspect boot sources, review access | kubectl; CDI changes what it reads |
| Report files (safefs.go, main.go:615) | files | atomic replacement | checkpoint, CLI |

What makes it hard:

* *Concurrency.* One goroutine per job; each takes three kinds of locks, shares
  slices and maps with the others, and publishes the state of all of them. Other
  harnesses, CDI and the namespace controller change the cluster meanwhile.
* *Failure.* The process is killed, the operator cancels, a report cannot be
  written, a directory cannot be made, a setup or a stage fails, a kubectl call
  takes effect although it fails, a tool stops in the middle of its output.
* *Ordering.* Deferred functions run in reverse; a snapshot is copied in two
  critical sections and saved in a third; reports are merged oldest first.
* *Timeouts.* A test has a limit, the run has another, rollback and teardown
  have their own detached ones.
* *History.* A campaign is a chain of runs, and its report must not look better
  than what has happened in any of them. Working directories and clusters are
  used again.

What makes each component correct, in one line:

* Selection: what filter and plan say is run, once each and with the right
  parameters, or has its outcome.
* Scheduler: exclusive jobs alone, groups disjoint, bound kept, no deadlock,
  everything released.
* Job pipeline: teardown always, no test without its setups, and a final record
  that says why the test ended.
* Lifecycle: verdicts and blocking incidents never get lost, "complete" means
  complete, certifiable means earned, completed tests are not rerun, a run ends.
* Helper pod: a run cleans up its own pod and leaves those of others alone; in
  the end no pod is left.
* Adapters: a test leaves nothing on its cluster, touches no other one, a replay
  touches none, it measures what was selected, and it is graded on what its own
  run wrote.
* Parsing and grading: a test passes only if what happened met its bars, however
  little of the output is left; every item is answered.
* Preflight: a finding about a source is true of that source, and only faults
  block.
* Report files: a reader sees the old or the new file, never part of one.

## 2. Modules

| Module | Models | Composes |
|---|---|---|
| `Selection` | from documents, flags and a prior report to the jobs | |
| `JobExclusion` | what `schedule` promises: which jobs may overlap | |
| `Scheduler` | `schedule`, every lock operation of every goroutine | refines `JobExclusion` |
| `SchedulerProofs` | theorems about `Scheduler` | |
| `JobPipeline` | shared setups and the stages of every execution | |
| `JobPipelineProofs` | theorems about `JobPipeline`, `Assessment`, `Selection` and `MCPipeline` | |
| `ReportAlgebra` | report operations, as pure operators | |
| `RunLifecycle` | a campaign of runs, checkpoints and recoveries | `ReportAlgebra`, `JobExclusion` |
| `RunLifecycleProofs` | theorems about `RunLifecycle` | |
| `ReportFiles` | how a report gets to disk | |
| `ReportFilesProofs` | theorems about `ReportFiles` | |
| `SSHPod` | the helper pod, shared by several runs | |
| `SSHPodProofs` | theorems about `SSHPod` | |
| `VirtbenchJob` | what the virtbench tests do to the clusters they run on | |
| `VirtbenchJobProofs` | theorems about `VirtbenchJob` and about `MCAdapters` | |
| `KubeBurnerJob` | what the kube-burner tests do to the cluster and the working directory | |
| `KubeBurnerJobProofs` | theorems about `KubeBurnerJob` | |
| `StorageClaims` | the class and the claim a disk will get, as operators | |
| `BootSource` | `CheckStorage` against a cluster that changes | `StorageClaims` |
| `BootSourceProofs` | theorems about `BootSource` | |
| `Grading` | units, bars, evaluators, verdict items, as operators | |
| `ResultParsing` | what every kind of output becomes, as operators | `Grading` |
| `Assessment` | one execution from what happened to its verdicts, retried | `ResultParsing` |
| `MC...` | values of the constants for TLC, and instances checked side by side | |

`MCHarness`, `MCAdapters` and `MCPipeline` (the run `Assessment`) hold several models:
they extend one and instantiate the others. Those share no variables: in each
behaviour one of them moves (`focus`), or, in `MCHarness`, one after the other. The
properties of an instance have their names there. That is a way to run them, and says
nothing of their interaction. Where a model has a module of proofs the instance is one
of that, which is the model with its theorems; TLC sees no difference, and the proofs can
say of the composed model what they say of each (section 4).

### Selection

One step per phase: `Load` refuses what validation refuses or joins the rest,
`Resume` drops what a prior report has settled, `Resolve` expands variants,
`Classify` answers what has no tool or lacks a parameter, `Setup` (once per
active shared setup) may fail its tests, `Schedule` groups the rest by label.
Registries are sequences in the order of their names, as lookups depend on it; the
setups still to run are a set, in which each has its place in the order.

### Scheduler and JobExclusion

`Scheduler` has a program counter per goroutine. The RWMutex is modelled with
Go's semantics: a waiting writer holds new readers off
(`AnnounceLock`/`AcquireLock`), so an exclusive job cannot be overtaken for ever
and readers can wait for a writer that waits for other readers. A parallel-safe
job takes a semaphore token, the read lock and its groups in sorted order
(`AcquireSlot`, `RLock`, `LockGroup`, one step per group), runs and releases
everything in the reverse order, as the deferred calls do. `JobExclusion` has
only the phase of every job; `Start` is allowed when the running jobs may overlap
with the new one and fewer than `Slots` jobs are running.

### ReportAlgebra and RunLifecycle

A report keeps per execution its record and, per scorable item, its verdict:
what certification and continuation look at. `RunLifecycle` has one process at a
time. `FirstRun`, `ContinueFrom` and `Recover` are commands of the operator;
`Enter`, `Classify`, `RunSetup`, `Schedule` and `Conclude` are the phases of the
main goroutine; a worker per tool takes each execution through `StartExecution`,
any number of stage checkpoints (`EnterStage`) and `FinishExecution`, and hands
its verdicts over when the job is done (`FinishJob`). A checkpoint is three
steps, as in the code: `CopyVerdicts` under `resultsMu`, `CopyRecords` under
`stateMu`, `SaveCopy` under the checkpoint's mutex. Between any two of them other
workers go on, the process may be killed (`Crash`) or cancelled (`Cancel`), and
every write of the report may fail before or after report.json is replaced; the
directory of a variant may not be made. `Faults` says which of these an instance has.

### JobPipeline

What `RunLifecycle` leaves out of an execution: shared setups and their reverse
takedown, the stages with a look at the context after each, the limit of the
execution against the cancellation of the run, and the two deferred functions
(`Settle`, then `Teardown`) that decide the result. `cut` is a history variable:
it remembers what ended the execution's context before its verdicts were settled.

### ReportFiles

`RunLifecycle` takes a save to be one step. `ReportFiles` takes it apart: the
temporary file is created, written, synced and renamed, for each of three files
in turn, and any call may fail. The directory is never synced: `pending` has the
renames that a loss of power may undo, from some point on, and data that was not
synced by then is gone (`Torn`). attestations.json is truncated and written in
place, so no property speaks of it.

### SSHPod

One control state per harness run, one step per kubectl call. Every mutating
call may fail without effect, succeed, take effect and be reported as failed
(`lost`), or, for a create, take effect later (`late`). The pod has the UID, the
annotation (`runID`) and the phase the code looks at, and its creator as history.

### VirtbenchJob

One virtbench test at a time (they share the exclusivity group "cluster"), through
the stages of `engine.go` with the hooks of the scenarios that need them: the drain
seeds VMs in `Seed`, the failure recovery makes its own in `Apply` and waits for them in
`AwaitRunning`, a clone from snapshots makes these in `Prepare`, fio has a cleanup of its own.
Deletions are not waited for (`--wait=false`), so a test may find a namespace of its own whose
deletion is under way, and what still runs there is "Running" for it (`SeenRunning`); the
history variable `leaving` has those of a drain or a recovery from its beginning. `bag` is the core.Bag
that the stages hand on; its entries `ns_prefix`, `kubeconfig`, `replay` and the
`Created` list of the snapshots decide what `Teardown` does, in the order of the
code: the scenario's teardown, the sweep of the namespaces with the prefix, the
deferred deletion of the snapshots. Each of its loops is one step in which any of the
commands may fail. The virtbench CLI and the namespace controller are external: the
CLI does what the flags ask of it, or part of it when it fails, and nothing more
once it is killed. A second process finds what the first one left, on the clusters
and in the working directory.

### KubeBurnerJob

The same for the two kube-burner adapters. A snapshot test whose backend names a
snapshot class creates a private StorageClass (`CreateClass`), awaits and patches
its StorageProfile (`AwaitProfile`, `PatchProfile`) and waits until CDI has
reconciled it (`Settle`, against the external `Reconcile`). `Stage` and `RunCLI` are
the tool; `summary` has the run that wrote the jobSummary.json in the directory of a
test; `RemoveNamespace` and `RemoveClass` are `Teardown`.

### StorageClaims and BootSource

`StorageClaims` has the rules by which CDI and Kubernetes choose a class and
complete a claim. `BootSource` is `CheckStorage`, one read of the cluster at a
time, each of which may fail; between any two of them CDI may go through an import
of the boot image (`Outdate`, `Remove`, `Reimport`, `TakeSnapshot`, `Ready`), go on to
another image, or somebody may replace the PVC. What does not change is a situation
(`given`): the disks, what the DataSource names, whose content the snapshot names. `sources`, `profiles`, `config` and
`access` are its caches.

### Grading, ResultParsing and Assessment

A test is its items, checks and bars at a small scale; objects (VMs, volumes,
snapshots) take some time or fail. `Assessment` has the tool write its output part by
part (`Write`) until it ends or is killed, possibly in the middle of a part (`Crash`).
`Assess` then collects, parses (`ResultParsing`, an operator per kind of output) and
grades (`Grading`: the evaluator the adapter registers, its bars selected by the
parameters, units converted). `out` keeps what happened beside what is on disk, so
that `PassIsEarned` can compare the verdict with the truth. `Retry` is
`--retry-failed`: new verdicts replace old ones item by item.

## 3. Runs

Where the operator or the harness may rightly stop, a run has no deadlock check
(`CHECK_DEADLOCK FALSE`), which is in all of them. That jobs do not block one
another is checked as `NoCircularWait` and `ScheduleReturns`, that a pipeline goes
on as `PipelineComesToItsEnd`.

| Run | Instance | Shows |
|---|---|---|
| `Harness` | 5 jobs, one exclusive, two groups, 2 slots; then 2 harnesses, 2 setups of the pod each, evictions | overlap rules, the bound, lock order, nothing left locked, refinement of `JobExclusion`, every job runs; rollback spares the pods of others, no pod is left |
| `Lifecycle_campaign` | 2 tools, one of whose tests has a named variant and a shared setup, a manual test, 2 runs, kills, cancellation, failed setups and variant directories, with and without `--retry-failed` | nothing is lost or certified unearned, no test without variants is run twice |
| `Adapters` | virtbench: 2 of 5 tests (clone from 2 snapshots, drain, recovery of 2 VMs, fio in the clone's namespaces, replay) in each of 2 processes, 2 clusters; kube-burner: 2 of 3 tests in each of 2 processes; boot sources: 6 situations, 2 disks, 2 imports; helper pod: one run, lost and late replies, kills | nothing is left on a cluster, VMs are there when they are tested, own results are graded, snapshots are measured on the selected class, findings are true, only faults block, a failed Setup cleans up |
| `Assessment` | all 12 kinds of test, up to 3 objects with 3 durations, 2 attempts; 3 executions of 2 tools with 2 setups and 5 stages; 180 plain and 4 continued selections of 8 tests; 3 saves of 3 files; a campaign of one run: 2 tools, a variant, a missing parameter, two overlapping setups, cancellation, failed writes, failed directories | what passes has earned it, every item is answered, teardown, setups outlive their tests, limits against cancellation, a run ends, every test is placed, files stay whole; a run ends, not with a report that says "running" unless it could write none, and with verdicts for what it calls completed |

Runs that show a disagreement between the code and what the repository says of
it (see 5): `Lifecycle_lost`, `Lifecycle_stale`, `Lifecycle_rerun`,
`SSHPod_recreated`, `Virtbench_unprovisioned`, `KubeBurner_stale`,
`Assessment_drain`, `Assessment_retry`.

`Adapters` and `Lifecycle_campaign` have more than 2 million states and `Assessment` 400
thousand, each about two minutes with two workers; `Harness` takes one, and the others take
seconds.

*Bounds.* `MaxParts` bounds the runs of a campaign: two are needed to lose
something that the next one could rerun or certify; a third adds nothing that the
merge of the second into the first has not, and what is lost or kept along longer
chains is proved (see 4). Two workers suffice for every race on the
shared state, as each step touches the shared state and one worker's own. Two
items tell "some verdict" from "all verdicts". `MaxSetups` bounds the calls of
Setup per run; two show a Setup before a scenario that has to repair what the
first one left. UIDs are reused once nobody remembers them, so that no bound on
the number of pods is needed. Two processes with two tests each (`MaxRuns`,
`MaxTests`) let every test meet what every other one, or itself, has left; two
snapshots and two VMs let a loop fail after it began. Two imports (`MaxImports`)
give a snapshot another volume and class under the same name; two requests meet
the caches. Three objects (`MaxObjects`) can be all right, all failed and mixed on
either side of a percentile; `Durations` are a failure, one in time and one that
is not; two attempts (`MaxAttempts`) let a result meet an older one. Three saves
(`MaxSaves`) have one before, one in the making and one after a loss of power.

*Fairness.* Goroutines that can go on do (weak fairness of each worker and of the
main goroutine): the Go scheduler is preemptive and its mutexes are not starved.
A job leaves its stages: their number is fixed, hence strong fairness of
`FinishExecution` in `RunLifecycle`, which does not count them; each stage is
bounded by its context in `JobPipeline`. Setup of the helper pod is bounded by
300 seconds, hence strong fairness of its failing branch. Nothing is assumed of
the operator, of cancellations, crashes and expiring limits: they may happen or
not.

## 4. Theorems

`SchedulerProofs` proves for any finite set of jobs, any groups and any
concurrency:

* `SchedulerTypeOK`, the type invariant;
* `ExclusiveRunsAloneHolds`, `GroupsNeverOverlapHolds`, `BoundedConcurrencyHolds`,
  `NothingHeldAfterReturnHolds`, safety properties of the run `Harness`;
* `NoCircularWaitHolds`, that no set of goroutines is deadlocked, whatever the groups are;
* `SchedulerRefinesExclusion`, that every behaviour of `Scheduler` is one of
  `JobExclusion` without its fairness.

None of the properties is inductive: which jobs overlap is decided by who holds
which lock. The inductive invariant says, for every program counter, what the
goroutine holds (the token, the read lock, a prefix of its groups), that every
holder is at such a program counter, and that the writer excludes readers. A
running parallel-safe job then holds all of its groups, so that two running jobs
share none, and holds one of the tokens, whose number bounds the running jobs.
Against a deadlock stands the order of the locks (`OrderInv`: a job holds groups only
before those it still wants): of readers that wait for one another's groups, take one
with the fewest readers that wait for later groups; whoever holds its group has fewer.
Type correctness of the record of holders comes first, one lemma per action.

`RunLifecycleProofs` proves for any plan, setups, tools, results, faults and
number of runs:

* `LifecycleTypeOK`, the type invariant;
* `EvidenceNeverLostHolds` and `IncidentsStickHolds`: no verdict and no incident
  that has reached report.json is lost, however a campaign is interleaved, killed,
  cancelled, continued, retried, recovered, or unable to write its report;
* `EndIsFinalHolds`, the safety half of `RunEnds`: the step that ends a run leaves a
  report that says "running" only if it has not changed the file. It needs no invariant:
  whatever `Conclude` writes has another status, also after failed checkpoints.

Whether a step loses something depends on what is still in memory, so the step
alone proves nothing. The inductive invariant is a chain. With "below" meaning
"has a verdict only where the other has one",

* report.json is below the latest checkpoint, and its incidents are the latest
  checkpoint's, while a run is under way;
* the latest checkpoint is below the prior report overlaid with this run's
  verdicts, and what a worker has copied is below this run's verdicts;
* before the workers start (`EarlyInv`) and when no process runs (`MemoryInv`)
  there is nothing copied or pending.

A checkpoint can then only move report.json upwards, and so can the final report,
which is the prior report merged with this run's; a failed write leaves
report.json, or the latest checkpoint, both above what it was. That `Merge` is an
upper bound of its arguments is a lemma of its own.

It goes on from there and proves the invariants of the run
`Lifecycle_campaign` about records and verdicts:

* `CompleteCoversPlanHolds`: a complete report has an outcome for every execution;
* `FinalReportIsBackedHolds`, `FailureBlocksCertificationHolds` and
  `CertifiableIsEarnedHolds`, under the hypothesis `RecoverFirst`: the operator
  recovers a report that is still "running" before continuing it;
* `OrdinaryNotRerunHolds`: what has completed is not rerun, unless as a retry, if its
  requirement has no named variants, whatever becomes of the variants of others.

Neither the hypothesis nor the restriction to requirements without variants
(`CompletedNotRerun` has no such restriction) can be dropped: `Lifecycle_lost` and
`Lifecycle_rerun` (section 5) are counterexamples without them. None needs to be added:
variants, failed writes, failed setups and any number of runs are covered, so the theorems
say exactly under which use the code keeps these promises.

A record says that an execution is completed as soon as its job returns; its
verdicts are then in the worker's hand, and get into report.json one checkpoint at a
time, past other workers' older copies. The invariant `CInv` follows them.
A record of the run with an outcome has its verdicts with the job or with the run
(`RecordInv`, `JobInv`); what a worker has copied may be incomplete but is true
(`CopyInv`), and so is the latest checkpoint, apart from what it has of the prior report
(`LatestInv`); a job whose worker has nothing more to save is shown completely by the
latest checkpoint (`SavedInv`). So when all jobs are over, both reports that the
run can end with account for every record, given that the prior one did
(`PriorInv`, `DiskInv`), and for what a continuation leaves out the prior report has
an outcome. A report that is abandoned may not account for its records, but keeps
its incident.

`JobPipelineProofs` proves for any tools, executions, stages and shared setups:

* `PipelineTypeOK`, the type invariant, by which an execution in the pipeline is the
  one recorded as running;
* `TeardownAlwaysRunsHolds`, `OutcomeTellsWhyHolds` and `SetupsHoldHolds`, the
  safety properties of the pipeline in the run `Assessment`.

The other models of that run have their theorems in the same module, see below.

What ended an execution is decided long before its record is written, and the
clock, the operator and the deferred functions go on in between. So the invariant
follows what is known to each: until the verdicts are settled a limit that came
first shows as expired, afterwards as the result, unless the run was cancelled
(`LimitInv`); nothing has cut short what has not begun (`CutInv`); a job runs its own
executions, which are still on the schedule (`OwnInv`), and those have all setups
that have been run (`SetupInv`), of which there is none left once jobs run
(`PhaseInv`); what is on the cluster belongs to a stage between the first and
Teardown (`DirtyInv`). Steps that move one job on and touch nothing that others see
are treated once (`MovesOnIInv`).

*Selection.* `EveryTestPlacedHolds`: for any documents, plans, flags, prior reports, tools
and setups, a scheduled run has every test that is wanted in exactly one job, once per variant
and with the values it is to have, or has its outcome; nothing else is run; tests overlap only
if their tools or the plan allow it. What `pc = "scheduled"` promises about the documents is
built up phase by phase, so the invariant `SelectInv` says of every phase what is selected in
terms of the catalog (`SelectedInv`): its tests that the filter matches, those of them that the
run before has not ended, and then the executions of these, one per variant, with their values
(`HasItsValues`). From `Classify` on an execution is scheduled or has its outcome, not both
(`AnsweredInv`). That a failed setup keeps this up needs that a setup has all variants of its
tests in its scope: `withoutTRs` removes by the id, and would otherwise drop an execution that
nobody has answered for. The job of a label is that of its first test, so a job is scheduled
as its tests are to be only if tools under one label agree (`JobIsLikeItsTests`). The hypothesis
`SelectionAssumption` says that, that ids are numbers, and that `settled` and `failed`, by which
the property speaks of the prior report, are what that report really has of a test
(`PriorIsTrue`). It says nothing of versions, joins, duplicates or plans: `Load` is to refuse
what is wrong with them, and the proof uses that it does.

*Assessment.* For any catalog, any sizes and durations and any number of attempts:

* `EveryItemAnsweredHolds`: a graded test has a verdict for every item, or failed as a whole;
* `PassCountsAllHolds`, the first half of `PassIsEarned`: a test that passes had no failed
  object (but for the ceiling, which is found by failing), all VMs of a recovery answered, and a
  density run made and checked as many volumes as it was asked for - if the output tells
  (`TellsAll`), which is about two tests that the code grades without knowing: a drain
  whose log ends before the distribution AFTER it, of which the run `Assessment_drain` shows
  that it passes with VMs left, and a parallel workload below the scale of its check
  (section 5). Nothing is assumed of where a tool stops.

A verdict is given in one step, which reads what many steps have written or left out.
`AssessInv` says what may be there when a tool stops (`WritingInv`) and what it is about
(`TestInv`, `FactsInv`). Parsers are then taken
one by one for what their own verdict tells of the objects (`SummaryNative`, `VirtbenchNative`,
`SnapshotsNative`, `WorkloadChecks`), and evaluators for which of these verdicts a pass needs
(`PassComesFrom`, `GradedPassCounts`). The proof found what it needs of a catalog, which is
`CatalogAssumption`: a test has items, unless its evaluator has the tool's own verdict to fall
back on; where an evaluator passes that verdict by (recovery, density, migration and the
parallel workload), there is an automated check that stands for it. catalog.json has all of
that, with thresholds.json and with the thresholds for smoke tests.

`ReportFilesProofs` proves `ReportStaysWholeHolds` and `ReportFilesTypeOK` for any number of reports. A loss
of power undoes the directory's changes from some point on, so the invariant is
about more than the files there are: there is a sequence of directories that explains
the pending changes, every one of them whole and in order, and each file in it is
the same until a change is about it (`Explain`). A rename adds a directory, one
that reaches the disk drops the oldest, and what comes back after a loss of power is
one of them, by the least change that was undone.

`VirtbenchJobProofs` proves for any tests, clusters, prefixes, workers, numbers of VMs and
of snapshots, tests in a process and processes:

* `VirtbenchTypeOK`, `CleanedUpHolds`, `SnapshotsReturnedHolds`, `VMsUnderTestHolds` (but
  for namespaces that were being deleted when the test began, section 5),
  `GradedOnOwnResultsHolds`;
* the action property `OtherClustersLeftAloneOnceProvisionedHolds`.

Each of the properties looks at the end of a path on which every command may fail, and a
previous process may have been killed anywhere. The invariant says what is known on the
way: from Provision on the bag names the test's own cluster and prefix, and a replay's bag
says so (`BagInv`); which tests come to which stage (`PathInv`); what is there as loops go on
(`VMsInv`, `SnapshotsInv`) and what is gone as Teardown does (`TeardownInv`); and that a root
belongs to the run in its name (`FilesInv`), which is why a result of another run is never
collected. A first attempt at the proof failed at `CleanedByCLI`, whose CASE had overlapping
guards and so did not say which arm was taken; they are disjoint now.

`KubeBurnerJobProofs` proves for any tests of both adapters, namespaces and processes
`KubeBurnerTypeOK`, `PrivateStorageReturnedHolds`, `MeasuredOnSelectedClassHolds` and
`SnapshotTestsGradedOnOwnResultsHolds`. The invariant follows the private class through
the stages, against CDI (`ClassInv`). It needs `FreshInv`: of a test that has not begun, in
this process or a later one, no private class exists, as its name has the run in it.

`SSHPodProofs` proves for any finite set of harnesses and any number of Setups:

* `SSHPodTypeOK`. That there is always a UID nobody remembers is a pigeonhole argument on
  twice as many UIDs as harnesses and one more, which justifies that UIDs are reused;
* `RollbackSparesForeignPodsHolds` if no call at all is `lost`, be it a create, a stamp or
  a delete, whatever create is late and whatever is evicted or killed. A pod that carries a run's ID while that run may roll back was created by it
  (`OwnershipInv`), as a stamp that succeeds is the end of its Setup. One that is lost
  leaves the ID on a pod of whatever run (section 5);
* `FailedSetupLeavesNothingHolds` if creates are neither `lost` nor `late`
  (`CreatesAnswered`, by `KnownInv`), or if there is one harness and nothing is evicted
  (`SingleRun`, by `AloneInv`).

These hypotheses are tight: TLC refutes the first with two harnesses and lost replies, the
second with two harnesses and lost or late ones, and with one harness, an eviction, and either.

`BootSourceProofs` proves for any classes, situations, disks and number of imports
`BootSourceTypeOK`, `SourceClassIsTrueHolds` and `OnlyFaultsBlockHolds`. `CheckStorage` reads
the snapshot, then what its class may be concluded from, then the snapshot again; what was
read may be of another import each time. The volumes of an image are imported in an
order. So the class noted from the cron is that of the snapshot read first for as long as
that is the snapshot there is and it is not being deleted (`SeenInv`, with `Lost`), which is
what the second read finds out. What blocks a run is in the caches before it is a finding, so
`SourcesInv` and `CachesInv` say that a cached fault was real and stays so, as the image, once
changed, is never again the one the check began with (`Changed`). A content that names
another snapshot counts as a fault, as it does in the code (section 5).

*In the composed models.* `EachAdapterMoves` shows that `MCAdapters` implements the
specification of each of its four models: one takes a step, the others stutter. With it, and
the theorems of the instances, the invariants and properties of the run `Adapters` are proved
of `MCAdapters` itself, for any constants of `VirtbenchJob` and the instances that
`MCAdapters` names: `AdaptersTypeOKHolds`, `OwnResultsHolds`, `KubeBurnerStorageReturned`,
`KubeBurnerMeasuredOnClass`, `BootSourceClassIsTrue`, `BootSourceFaultsBlock` and
`HelperPodLeavesNothing`. In the same way `FilesStayWhole` (in `JobPipelineProofs`) and
`RollbackSparesForeignPodsToo` (in `SchedulerProofs`) take `ReportFiles` over to
`MCPipeline` and `SSHPod` to `MCHarness`. These are corollaries; what is proved for every
value of the constants is in the module of each model. `MCPipeline` leaves the constants of
`Selection` and `Assessment` open, so that the theorems about these two, which are of their
instances there, are as general as in a module of their own; `AllTypesOKHolds` is the type
invariant of the first four models in it; the fifth is an instance of `RunLifecycle`, whose
theorems cover it.

The assumptions are those stated in `Scheduler` (a finite set of jobs, groups per
job, an integer concurrency), in `RunLifecycle` (a plan, at least one item that the
catalog names, results that are not empty), in `JobPipeline` (every execution
has its job, setups are for executions that are run), in `VirtbenchJob` (tables for the
tests; the sweep of a prefix finds its own namespaces; a positive number of VMs), in
`KubeBurnerJob` and `SSHPod` (types only; finitely many harnesses) and in `BootSource` (types of
the situations, at least one import). Where a model is instantiated by another, its
assumption is a hypothesis of each of its theorems, and the module that instantiates it
assumes it of the instance, so that TLC evaluates it: `PipelinesAssumption` has those of
`JobPipeline`, `Selection` and `Assessment`.

Only model-checked: all liveness, which is out of the prover's reach
(`ScheduleReturns`, `KeepsPromise`, `RunEnds`, `NothingLeftBehind`,
`PipelineComesToItsEnd`); and `PassMeetsBars`, the second half of `PassIsEarned`. It compares
averages, maxima and percentiles of what a parser has kept with those of what happened, so it
takes induction over the library's filters, sorts and folds of sequences, and it is about
numbers: values are rounded to the unit of a metric, and bars have to be chosen accordingly.

## 5. Where the code and its documents disagree

* `Lifecycle_lost`: an execution is recorded as completed before its verdicts are
  in the report (orchestrator.go:264, :912). If the process is killed then and
  the report is continued without `recover`, a failure disappears and the report
  becomes certifiable. With `recover` first, the incident of the abandoned run
  blocks certification, which is why `Lifecycle_campaign`, where the operator
  does that, passes.
* `Lifecycle_stale`: a worker that was overtaken between its copy and its Save
  takes back what another checkpoint had as completed.
* `Lifecycle_rerun`: completed named variants run again in a continuation, which refutes
  `CompletedNotRerun`. `Lifecycle_campaign` has variants, too, and checks what is left of
  the promise, `OrdinaryNotRerun`.
* `SSHPod_recreated`: a Setup that creates the pod twice compares the second pod
  with the UID of the first and leaves it behind.
* `Virtbench_unprovisioned`: Teardown asks the bag whether this is a replay and which
  cluster it is about (engine.go:432, :453), but only Provision tells the bag, and
  Teardown runs from before Preflight on (orchestrator.go:688). A replay whose
  preflight fails or is cancelled uncordons workers and deletes namespaces of the
  default cluster, although replay is for working "without a cluster" (engine.go:23);
  a test with a kubeconfig of its own is cleaned up on the wrong cluster.
  `OtherClustersLeftAloneOnceProvisioned` is the part that holds.
* `KubeBurner_stale`: the results directory of a kube-burner-ocp test is neither
  cleared nor named for the run (kubeburnerocp/runner.go:66), and a failed CLI is
  graded if there is a summary in it, which may be that of an earlier run. The other
  adapters are not exposed: `OwnResults`.
* `Assessment_drain`: a drain log that ends before the distribution AFTER the drain, or in
  it before the line of the target node, counts as zero remaining VMs (parse.go:490), and a
  drain whose CLI failed or was killed is graded from its log: it passes with VMs left on the
  node. A failure of the CLI is to be "a FAIL to score from the log" (scenario.go:65-66).
* `Assessment_retry`: a failed virtbench run that is not tolerated answers with an
  item of its own, which the retry that passes does not replace; the test stays
  failed in the report.

Known, without a run:

* a Setup whose create found the pod of another run, and whose stamp of it takes effect
  although kubectl reports a failure, finds its own run ID on that pod and rolls it back,
  although "Another run's pod [...] is left alone" (setup.go:168): with two harnesses and
  `lost` in `Faults` TLC refutes `RollbackSparesForeignPods`; without it that is a theorem;
* rollback's read and delete of the helper pod are two calls with only the UID as a
  precondition (setup.go), so that a pod another run has claimed in between is deleted;
* `ResolveExecutions` calls a variant or an override of a test that is not in the
  catalog an error, but main passes it what has been selected (main.go:456), so that
  a plan with variants of a test is refused as soon as a filter, or a prior report,
  leaves that test out; the preflight command accepts it (`Selection.Resolve`);
* a scheduling override is documented as keyed by the tool's name (plan.go:43) but
  looked up by the label of the tests, as is the job itself, whose tool is that of
  its first test (`Selection.Job`);
* of a parallel workload below 20 VMs the check is skipped, and the tool's own verdict does
  not count beside the items (results.go:68, evaluator.go:26); a failed run with a summary
  is then graded on its duration. ci/config/smoke/thresholds-smoke.json:238 has a bar for
  2 VMs, so that such a run passes there (`TellsAll`);
* a VolumeSnapshotContent that names another snapshot makes a ready snapshot "not ready", an
  error that blocks the run (storage_source.go:99-101), although "Unknown or inconsistent
  provenance produces a warning" (docs/storage-preflight.md:126-127). `ReadContent` has that
  path, and `OnlyFaultsBlock` leaves this one inconsistency out of what may not block: with
  `given.content = "own"` taken out of it TLC refutes it;
* a recovery or a drain takes over a VM of its name in a namespace that an earlier test or
  run has deleted without waiting (setup.go:662): kubectl apply changes nothing there, and
  waitForVMRunning asks for the phase only, which stays "Running" until the VM has shut down
  (vm_provision.go:73-98, :184-187). It may be gone when the CLI fences its node or drains it.
  `VMsUnderTest` says that nothing else is missing then; without `leaving` TLC refutes it;
* Teardown of the drain uncordons every worker, also one that was cordoned before
  (drain.go:117); decision 0013 states that as intended.

## 6. Abstractions and assumptions

* `Selection`: levels, scenarios and costs are not filtered on beyond what the inputs
  have; parameters have integer values; tests with the same label resolve to
  tools with the same scheduling (`LabelsAreAlike`), as `OverlapIsAllowed` needs where a
  plan says nothing.
* `RunLifecycle`: one scenario; the output directory is not overwritten by a fresh
  run; every TR has an item in the catalog (all of `catalog.json` do);
  `RecordIncident` has no caller outside tests and is left out; incidents are
  their IDs; measurements, environment, parts, timings and artifacts are left
  out.
* `JobPipeline`: a tool's own Teardown succeeds; all tools have the same stages.
* `ReportFiles`: changes of the directory reach the disk in their order; a file that
  was synced stays.
* `SSHPod`: a create in flight arrives within the settle time; Teardown's three
  attempts and rollback's 120 seconds are enough; replay mode is left out.
* `VirtbenchJob`: a CLI that the harness starts does not outlive it; a namespace is
  kept apart from another by cluster, prefix and VM number; snapshots whose create
  did not return, or whose process was killed, are forgotten; two harness processes
  at the same time are not considered; the node that a recovery fences is left out. The
  single-node ceiling, whose failed CLI is tolerated as the drain's is (scenario.go:218), has
  no kind of its own here (it has in `Assessment`). A recovery in monitor mode gets no cleanup
  flags (engine.go:920-926): its CLI may clean up or not. A new object in a namespace that is
  being deleted is refused, which is only seen as VMs that do not come up.
* `KubeBurnerJob`: an execution of kube-burner-ocp has one TR, as orchestrator.go:897
  gives it; a private class whose create did not return, or whose process was killed,
  is forgotten.
* `BootSource`: CDI deletes the outdated snapshot before it notes the new class; what
  a user may do does not change during a check; oc or kubectl is on the path.
* `Grading`, `ResultParsing`, `Assessment`: numbers are integers, averages exact; the
  order in which a tool writes and what its exit code tells are as `Outputs` and
  `Exit` state; parameters that bars select by go with the size of the workload. An evaluator's
  bar without measured_by cannot occur, as kb.go:97-98 fills it in; a jobSummary.json without
  the job of the test, an error or a check without outcome in the code, is a failed check.

## 7. Not modelled, and the plan

Left out for good, as data without control: rendering of Markdown and JUnit, the
environment section of the report, manifests and templates of virtbench, backends,
flags of the CLI, the syntax of output files, review of attestations.

Could be added: the import of boot images by virtbench (datasource.go), the scoping of
checks such as `pvc-1000-bound`, concurrent harness processes in `VirtbenchJob`, the
fencing of a node.
