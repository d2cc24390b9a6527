------------------------- MODULE RunLifecycleProofs -------------------------
(***************************************************************************)
(* For any plan, any results, any number of runs and any faults: the        *)
(* campaign is type-correct, and report.json never loses a verdict or an    *)
(* incident (EvidenceNeverLost, IncidentsStick).  The second half of the     *)
(* module is about what a report has earned.                                *)
(*                                                                          *)
(* A run ends by replacing report.json with Merge(prior, FinalReport) or    *)
(* with the latest checkpoint.  Neither contains the report on disk by      *)
(* construction: the argument is the chain                                  *)
(*    disk  <=  latest  <=  prior overlaid by this run's verdicts           *)
(* which holds at every step of a run, and for which every copy a worker    *)
(* still has to save must lie below this run's verdicts.                    *)
(***************************************************************************)
EXTENDS RunLifecycle, TLAPS

\* Every verdict of b has a counterpart in a.
Covers(a, b) ==
  \A k \in Keys, i \in Items : b[k][i] # "none" => a[k][i] # "none"

\* Outside a run the memory is reset; a worker is active only while the jobs are.
MemoryInv ==
  /\ part = 0 => disk = NoReport
  /\ main # "off" => part # 0
  /\ main = "off" => verdict = NoVerdicts
  /\ \A j \in Jobs : worker[j] # "idle" => main = "jobs"

\* Verdicts a run gives before its jobs start: none at first, then those of
\* executions that cannot be run and of failed setups, one per catalog item.
EarlyInv ==
  /\ main \in {"enter", "classify"} => verdict = NoVerdicts
  /\ main = "setup" =>
       \A k \in Keys, i \in Items : verdict[k][i] # "none" => i \in CatalogItems

EvidenceInv ==
  /\ main # "off" => Covers(latest.verdict, disk.verdict)
  /\ main # "off" => Covers(OverlayVerdicts(prior.verdict, verdict), latest.verdict)
  /\ \A j \in Jobs : Covers(verdict, copied[j].verdict)

IncidentInv ==
  /\ main # "off" => disk.incidents \subseteq latest.incidents
  /\ main # "off" => latest.incidents \subseteq prior.incidents
  /\ \A j \in Jobs : copied[j].incidents = {}

IInv ==
  /\ TypeOK
  /\ MemoryInv
  /\ EarlyInv
  /\ EvidenceInv
  /\ IncidentInv


-----------------------------------------------------------------------------
(* Types. *)

LEMMA PlanKeys == Plan \subseteq Keys /\ TRs \X {0} \subseteq Keys
  BY DEF Keys

LEMMA ExecutionsInPlan ==
  ASSUME NEW S \in SUBSET TRs
  PROVE  UNION {Executions(t) : t \in S} \subseteq Plan
  BY DEF Plan

LEMMA NoReportType ==
  /\ NoReport \in Reports
  /\ NoRecords \in [Keys -> Records]
  /\ NoVerdicts \in [Keys -> Verdicts]
  BY DEF NoReport, Reports, Statuses, NoRecords, Records, NoVerdicts, NoVerdict, Verdicts

LEMMA UniformType ==
  ASSUME NEW o \in Outcomes
  PROVE  Uniform(o) \in Verdicts
  BY DEF Uniform, Verdicts

LEMMA SummarizeType ==
  ASSUME NEW v
  PROVE  Summarize(v) \in Outcomes
  BY DEF Summarize, Outcomes

LEMMA OverlayType ==
  ASSUME NEW a \in [Keys -> Verdicts], NEW b \in [Keys -> Verdicts]
  PROVE  OverlayVerdicts(a, b) \in [Keys -> Verdicts]
  BY DEF OverlayVerdicts, Verdicts

LEMMA MergeType ==
  ASSUME NEW a \in Reports, NEW b \in Reports
  PROVE  Merge(a, b) \in Reports
  <1>1. OverlayRecords(a.record, b.record) \in [Keys -> Records]
    BY DEF OverlayRecords, Reports
  <1>2. OverlayVerdicts(a.verdict, b.verdict) \in [Keys -> Verdicts]
    BY OverlayType DEF Reports
  <1>3. QED
    BY <1>1, <1>2 DEF Merge, Reports

LEMMA SnapshotType ==
  ASSUME NEW r \in [Keys -> Records], NEW v \in [Keys -> Verdicts],
         NEW s \in Statuses, NEW n \in SUBSET IncidentIDs
  PROVE  Snapshot(r, v, s, n) \in Reports
  BY DEF Snapshot, Reports

LEMMA FinalizeType ==
  ASSUME NEW r \in Reports, NEW s \in Statuses
  PROVE  Finalize(r, s) \in Reports
  BY DEF Finalize, Reports

LEMMA ShellType ==
  ASSUME NEW S
  PROVE  Shell(S) \in Reports
  <1>1. [k \in Keys |-> IF k \in S \X {0} THEN "queued" ELSE "absent"] \in [Keys -> Records]
    BY DEF Records
  <1>2. QED
    BY <1>1, NoReportType DEF Shell, NoReport, Reports, Statuses

\* Saving a snapshot keeps the reports typed.
LEMMA SaveType ==
  ASSUME TypeOK, NEW s \in Reports, Save(s)
  PROVE  disk' \in Reports /\ latest' \in Reports /\ lastErr' \in BOOLEAN
  BY MergeType DEF Save, Written, WriteResults, TypeOK

\* What the end of a process leaves in memory.
LEMMA ExitType ==
  ASSUME Exit
  PROVE  /\ prior' \in Reports /\ latest' \in Reports
         /\ main' = "off"
         /\ retry' \in BOOLEAN /\ lastErr' \in BOOLEAN /\ cancelled' \in BOOLEAN
         /\ record' \in [Keys -> Records]
         /\ verdict' \in [Keys -> Verdicts]
         /\ scorable' = {} /\ setups' = {}
         /\ phase' \in [Jobs -> {"waiting", "running", "finished"}]
         /\ worker' \in [Jobs -> Workers]
         /\ pending' \in [Jobs -> [Keys -> Verdicts]]
         /\ copied' \in [Jobs -> Reports]
  BY NoReportType DEF Exit, Workers

LEMMA FinalReportType ==
  ASSUME TypeOK
  PROVE  FinalReport \in Reports
  <1> DEFINE final == [k \in Keys |-> IF record[k] = "running" THEN "aborted" ELSE record[k]]
             terminal == \A k \in Keys : final[k] \in {"absent", "aborted"} \cup Outcomes
  <1>1. final \in [Keys -> Records]
    BY DEF TypeOK, Records
  <1>2. verdict \in [Keys -> Verdicts]
    BY DEF TypeOK
  <1>3. /\ Snapshot(final, verdict, "partial", {"run-cancelled"}) \in Reports
        /\ Snapshot(final, verdict, "partial", {"run-incomplete"}) \in Reports
        /\ Snapshot(final, verdict, "complete", {}) \in Reports
    BY <1>1, <1>2, SnapshotType DEF Statuses, IncidentIDs
  <1> HIDE DEF final
  <1>4. FinalReport = CASE cancelled -> Snapshot(final, verdict, "partial", {"run-cancelled"})
                        [] ~cancelled /\ ~terminal ->
                             Snapshot(final, verdict, "partial", {"run-incomplete"})
                        [] OTHER -> Snapshot(final, verdict, "complete", {})
    BY DEF FinalReport, final
  <1>5. QED
    BY <1>3, <1>4

LEMMA InitType == Init => TypeOK
  <1> SUFFICES ASSUME Init
               PROVE  TypeOK
    OBVIOUS
  <1>1. /\ disk \in Reports /\ latest \in Reports /\ prior \in Reports
        /\ record \in [Keys -> Records] /\ verdict \in [Keys -> Verdicts]
    BY NoReportType DEF Init
  <1>2. /\ pending \in [Jobs -> [Keys -> Verdicts]]
        /\ copied \in [Jobs -> Reports]
    BY NoReportType DEF Init
  <1>3. part \in 0..MaxParts
    BY LifecycleAssumption DEF Init
  <1>4. main \in Mains
    BY DEF Init, Mains
  <1>5. retry \in BOOLEAN /\ lastErr \in BOOLEAN /\ cancelled \in BOOLEAN
    BY DEF Init
  <1>6. phase \in [Jobs -> {"waiting", "running", "finished"}]
    BY DEF Init
  <1>7. worker \in [Jobs -> Workers]
    BY DEF Init, Workers
  <1>8. scorable \subseteq Plan /\ setups \subseteq DOMAIN SetupScopes
    BY DEF Init
  <1>9. QED
    BY <1>1, <1>2, <1>3, <1>4, <1>5, <1>6, <1>7, <1>8 DEF TypeOK

LEMMA BeginType ==
  ASSUME TypeOK, NEW S \in SUBSET TRs, NEW from \in Reports, NEW r \in BOOLEAN,
         part < MaxParts, Begin(S, from, r)
  PROVE  TypeOK'
  <1> DEFINE initial == IF from = NoReport THEN Shell(S) ELSE Merge(from, Shell(S))
  <1>1. initial \in Reports
    BY ShellType, MergeType
  <1> HIDE DEF initial
  <1>2. part' \in 0..MaxParts
    BY LifecycleAssumption DEF Begin, TypeOK
  <1>3. PICK result \in WriteResults :
          /\ disk' = Written(disk, initial, result)
          /\ IF result = "written"
               THEN /\ main' = "enter"
                    /\ prior' = from
                    /\ retry' = r
                    /\ latest' = initial
                    /\ scorable' = UNION {Executions(t) : t \in S}
                    /\ UNCHANGED <<lastErr, cancelled, record, verdict, setups,
                                   phase, worker, pending, copied>>
               ELSE UNCHANGED <<main, memory>>
    BY DEF Begin, initial
  <1>4. disk' \in Reports
    BY <1>1, <1>3 DEF Written, TypeOK
  <1>5. CASE result = "written"
    <2>1. scorable' \subseteq Plan
      BY <1>3, <1>5, ExecutionsInPlan
    <2>2. QED
      BY <1>1, <1>2, <1>3, <1>4, <1>5, <2>1 DEF TypeOK, Mains
  <1>6. CASE result # "written"
    BY <1>2, <1>3, <1>4, <1>6 DEF TypeOK, memory
  <1>7. QED
    BY <1>5, <1>6

LEMMA CheckpointType ==
  ASSUME TypeOK, Checkpoint
  PROVE  disk' \in Reports /\ latest' \in Reports /\ lastErr' \in BOOLEAN
  <1>1. Snapshot(record, verdict, "running", {}) \in Reports
    BY SnapshotType DEF TypeOK, Statuses
  <1>2. QED
    BY <1>1, SaveType DEF Checkpoint

\* What Report writes about an execution has its type.
LEMMA ReportStepType ==
  ASSUME TypeOK, NEW j \in Jobs, NEW e \in Plan, NEW v \in Verdicts, Report(j, e, v)
  PROVE  TypeOK'
  <1>1. e \in Keys
    BY PlanKeys
  <1>2. record' \in [Keys -> Records]
    BY <1>1, SummarizeType DEF Report, TypeOK, Records
  <1>3. pending' \in [Jobs -> [Keys -> Verdicts]]
    <2>1. pending[j] \in [Keys -> Verdicts]
      BY DEF TypeOK
    <2>2. [pending[j] EXCEPT ![e] = v] \in [Keys -> Verdicts]
      BY <2>1
    <2>3. pending' = [pending EXCEPT ![j] = [pending[j] EXCEPT ![e] = v]]
      BY DEF Report
    <2>4. QED
      BY <2>2, <2>3 DEF TypeOK
  <1>4. worker' \in [Jobs -> Workers]
    BY DEF Report, TypeOK, Workers
  <1>5. QED
    BY <1>2, <1>3, <1>4 DEF Report, TypeOK

LEMMA WorkerStepType ==
  ASSUME TypeOK, NEW j \in Jobs, WorkerStep(j)
  PROVE  TypeOK'
  <1> USE LifecycleAssumption
  <1>1. CASE StartJob(j)
    <2>1. worker' \in [Jobs -> Workers]
      BY <1>1 DEF StartJob, TypeOK, Workers
    <2>2. phase' \in [Jobs -> {"waiting", "running", "finished"}]
      BY <1>1 DEF StartJob, TypeOK
    <2>3. QED
      BY <1>1, <2>1, <2>2 DEF StartJob, TypeOK
  <1>2. CASE StartExecution(j)
    <2>1. record' \in [Keys -> Records]
      BY <1>2 DEF StartExecution, TypeOK, Records
    <2>2. worker' \in [Jobs -> Workers]
      BY <1>2 DEF StartExecution, TypeOK, Workers
    <2>3. QED
      BY <1>2, <2>1, <2>2 DEF StartExecution, TypeOK
  <1>3. CASE EnterStage(j)
    <2>1. worker' \in [Jobs -> Workers]
      BY <1>3 DEF EnterStage, TypeOK, Workers
    <2>2. QED
      BY <1>3, <2>1 DEF EnterStage, TypeOK
  <1>4. CASE FinishExecution(j)
    <2>1. PICK e \in Active(j), v \in Results : Report(j, e, v)
      BY <1>4 DEF FinishExecution
    <2>2. e \in Plan /\ v \in Verdicts
      BY DEF Active, ExecutionsOf
    <2>3. QED
      BY <2>1, <2>2, ReportStepType
  <1>5. CASE VariantWithoutDirectory(j)
    <2>1. PICK e \in Plan : Report(j, e, Uniform("error"))
      BY <1>5 DEF VariantWithoutDirectory
    <2>2. Uniform("error") \in Verdicts
      BY UniformType DEF Outcomes
    <2>3. QED
      BY <2>1, <2>2, ReportStepType
  <1>6. CASE FinishJob(j)
    <2>1. verdict' \in [Keys -> Verdicts]
      BY <1>6, OverlayType DEF FinishJob, TypeOK
    <2>2. pending' \in [Jobs -> [Keys -> Verdicts]]
      BY <1>6, NoReportType DEF FinishJob, TypeOK
    <2>3. worker' \in [Jobs -> Workers]
      BY <1>6 DEF FinishJob, TypeOK, Workers
    <2>4. QED
      BY <1>6, <2>1, <2>2, <2>3 DEF FinishJob, TypeOK
  <1>7. CASE CopyVerdicts(j)
    <2>1. Snapshot(NoRecords, verdict, "running", {}) \in Reports
      BY NoReportType, SnapshotType DEF TypeOK, Statuses
    <2>2. copied' \in [Jobs -> Reports]
      BY <1>7, <2>1 DEF CopyVerdicts, TypeOK
    <2>3. worker' \in [Jobs -> Workers]
      BY <1>7 DEF CopyVerdicts, TypeOK, Workers
    <2>4. QED
      BY <1>7, <2>2, <2>3 DEF CopyVerdicts, TypeOK
  <1>8. CASE CopyRecords(j)
    <2>1. copied[j] \in Reports
      BY DEF TypeOK
    <2>2. [copied[j] EXCEPT !.record = record] \in Reports
      BY <2>1 DEF TypeOK, Reports
    <2>3. copied' = [copied EXCEPT ![j] = [copied[j] EXCEPT !.record = record]]
      BY <1>8 DEF CopyRecords
    <2>4. copied' \in [Jobs -> Reports]
      BY <2>2, <2>3 DEF TypeOK
    <2>5. worker' \in [Jobs -> Workers]
      BY <1>8 DEF CopyRecords, TypeOK, Workers
    <2>6. QED
      BY <1>8, <2>4, <2>5 DEF CopyRecords, TypeOK
  <1>9. CASE SaveCopy(j)
    <2>1. copied[j] \in Reports
      BY DEF TypeOK
    <2>2. disk' \in Reports /\ latest' \in Reports /\ lastErr' \in BOOLEAN
      BY <1>9, <2>1, SaveType DEF SaveCopy
    <2>3. copied' \in [Jobs -> Reports]
      BY <1>9, NoReportType DEF SaveCopy, TypeOK
    <2>4. worker' \in [Jobs -> Workers]
      BY <1>9 DEF SaveCopy, TypeOK, Workers
    <2>5. phase' \in [Jobs -> {"waiting", "running", "finished"}]
      BY <1>9 DEF SaveCopy, TypeOK
    <2>6. QED
      BY <1>9, <2>2, <2>3, <2>4, <2>5 DEF SaveCopy, TypeOK
  <1>10. QED
    BY <1>1, <1>2, <1>3, <1>4, <1>5, <1>6, <1>7, <1>8, <1>9 DEF WorkerStep

\* Every step preserves the type invariant: one step per action.
LEMMA NextType == TypeOK /\ [Next]_vars => TypeOK'
  <1> SUFFICES ASSUME TypeOK, [Next]_vars
               PROVE  TypeOK'
    OBVIOUS
  <1> USE LifecycleAssumption
  <1>1. CASE FirstRun
    <2>1. part < MaxParts /\ NoReport \in Reports
      BY <1>1, NoReportType DEF FirstRun
    <2>2. QED
      BY <1>1, <2>1, BeginType DEF FirstRun
  <1>2. CASE ContinueFrom
    <2>1. part < MaxParts /\ disk \in Reports
      BY <1>2 DEF ContinueFrom, TypeOK
    <2>2. PICK r \in RetryFailed : Begin({t \in TRs : ~Skips(disk, <<t, 0>>, r)}, disk, r)
      BY <1>2 DEF ContinueFrom
    <2>3. r \in BOOLEAN
      OBVIOUS
    <2> DEFINE selected == {t \in TRs : ~Skips(disk, <<t, 0>>, r)}
    <2>4. selected \in SUBSET TRs
      OBVIOUS
    <2> HIDE DEF selected
    <2>5. Begin(selected, disk, r)
      BY <2>2 DEF selected
    <2>6. QED
      BY <2>1, <2>3, <2>4, <2>5, BeginType
  <1>3. CASE Recover
    <2> DEFINE flagged == [disk EXCEPT !.incidents = @ \cup {"run-abandoned"}]
    <2>1. flagged \in Reports
      BY DEF TypeOK, Reports, IncidentIDs
    <2>2. Finalize(flagged, "abandoned") \in Reports
      BY <2>1, FinalizeType DEF Statuses
    <2> HIDE DEF flagged
    <2>3. disk' \in {disk, Finalize(flagged, "abandoned")}
      BY <1>3 DEF Recover, Written, flagged
    <2>4. QED
      BY <1>3, <2>2, <2>3 DEF Recover, TypeOK, memory
  <1>4. CASE Enter
    <2>1. record' \in [Keys -> Records]
      BY <1>4 DEF Enter, Records
    <2>2. Snapshot(record', verdict, "running", {}) \in Reports
      BY <2>1, SnapshotType DEF TypeOK, Statuses
    <2>3. disk' \in Reports /\ latest' \in Reports /\ lastErr' \in BOOLEAN
      BY <1>4, <2>2, SaveType DEF Enter
    <2>4. QED
      BY <1>4, <2>1, <2>3 DEF Enter, TypeOK, Mains
  <1>5. CASE Classify
    <2> DEFINE skips == {e \in scorable : e[1] \in NotRunnable}
               errors == {e \in scorable \ skips : e[1] \in MissingParams}
    <2>1. record' = [k \in Keys |-> CASE k \in skips  -> "skip"
                                      [] k \in errors -> "error"
                                      [] OTHER        -> record[k]]
      BY <1>5 DEF Classify
    <2>2. verdict' = [k \in Keys |-> CASE k \in skips  -> Uniform("skip")
                                       [] k \in errors -> Uniform("error")
                                       [] OTHER        -> verdict[k]]
      BY <1>5 DEF Classify
    <2>3. scorable' \subseteq Plan
      BY <1>5 DEF Classify, TypeOK
    <2>4. setups' \subseteq DOMAIN SetupScopes
      BY <1>5 DEF Classify
    <2> HIDE DEF skips, errors
    <2>5. record' \in [Keys -> Records]
      BY <2>1 DEF TypeOK, Records, Outcomes
    <2>6. verdict' \in [Keys -> Verdicts]
      <3>1. Uniform("skip") \in Verdicts /\ Uniform("error") \in Verdicts
        BY UniformType DEF Outcomes
      <3>2. QED
        BY <2>2, <3>1 DEF TypeOK
    <2>7. Snapshot(record', verdict', "running", {}) \in Reports
      BY <2>5, <2>6, SnapshotType DEF Statuses
    <2>8. disk' \in Reports /\ latest' \in Reports /\ lastErr' \in BOOLEAN
      BY <1>5, <2>7, SaveType DEF Classify
    <2>9. QED
      BY <1>5, <2>3, <2>4, <2>5, <2>6, <2>8 DEF Classify, TypeOK, Mains
  <1>6. CASE RunSetup
    <2>1. PICK s \in setups :
            /\ setups' = setups \ {s}
            /\ \/ UNCHANGED <<verdict, record, scorable>>
               \/ /\ verdict' = [k \in Keys |-> IF k \in SetupExecutions(s)
                                                  THEN Uniform("error") ELSE verdict[k]]
                  /\ record' = [k \in Keys |-> IF k \in SetupExecutions(s)
                                                 THEN IF cancelled /\ record[k] = "queued"
                                                        THEN "aborted"
                                                      ELSE IF cancelled THEN record[k]
                                                      ELSE "error"
                                                 ELSE record[k]]
                  /\ scorable' = {e \in scorable : e[1] \notin SetupScopes[s]}
      BY <1>6 DEF RunSetup
    <2>2. record' \in [Keys -> Records]
      BY <2>1 DEF TypeOK, Records, Outcomes
    <2>3. verdict' \in [Keys -> Verdicts]
      <3>1. Uniform("error") \in Verdicts
        BY UniformType DEF Outcomes
      <3>2. QED
        BY <2>1, <3>1 DEF TypeOK
    <2>4. scorable' \subseteq Plan /\ setups' \subseteq DOMAIN SetupScopes
      BY <2>1 DEF TypeOK
    <2>5. disk' \in Reports /\ latest' \in Reports /\ lastErr' \in BOOLEAN
      BY <1>6, CheckpointType DEF RunSetup
    <2>6. QED
      BY <1>6, <2>2, <2>3, <2>4, <2>5 DEF RunSetup, TypeOK
  <1>7. CASE Schedule
    <2>1. disk' \in Reports /\ latest' \in Reports /\ lastErr' \in BOOLEAN
      BY <1>7, CheckpointType DEF Schedule
    <2>2. phase' \in [Jobs -> {"waiting", "running", "finished"}]
      BY <1>7 DEF Schedule
    <2>3. QED
      BY <1>7, <2>1, <2>2 DEF Schedule, TypeOK, Mains
  <1>8. CASE Conclude
    <2> DEFINE final == IF prior = NoReport THEN FinalReport ELSE Merge(prior, FinalReport)
               fallback == Finalize(latest, "partial")
    <2>1. final \in Reports
      BY FinalReportType, MergeType DEF TypeOK
    <2>2. fallback \in Reports
      BY FinalizeType DEF TypeOK, Statuses
    <2> HIDE DEF final, fallback
    <2>3. disk' \in {disk, final, fallback}
      BY <1>8 DEF Conclude, Written, final, fallback
    <2>4. disk' \in Reports
      BY <2>1, <2>2, <2>3 DEF TypeOK
    <2>5. Exit /\ UNCHANGED part
      BY <1>8 DEF Conclude
    <2>6. QED
      BY <2>4, <2>5, ExitType DEF TypeOK, Mains
  <1>9. ASSUME NEW j \in Jobs, WorkerStep(j)
        PROVE  TypeOK'
    BY <1>9, WorkerStepType
  <1>10. CASE Cancel
    BY <1>10 DEF Cancel, TypeOK
  <1>11. CASE Crash
    <2>1. Exit /\ UNCHANGED <<disk, part>>
      BY <1>11 DEF Crash
    <2>2. QED
      BY <2>1, ExitType DEF TypeOK, Mains
  <1>12. CASE UNCHANGED vars
    BY <1>12 DEF vars, memory, TypeOK
  <1>13. QED
    BY <1>1, <1>2, <1>3, <1>4, <1>5, <1>6, <1>7, <1>8, <1>9, <1>10, <1>11, <1>12
    DEF Next, MainStep

\* In every reachable state of any campaign, each variable has its type.
THEOREM LifecycleTypeOK == Spec => []TypeOK
  BY InitType, NextType, PTL DEF Spec

-----------------------------------------------------------------------------
(* Evidence. *)

LEMMA CoversReflexive == \A a : Covers(a, a)
  BY DEF Covers

LEMMA CoversTransitive ==
  ASSUME NEW a, NEW b, NEW c, Covers(a, b), Covers(b, c)
  PROVE  Covers(a, c)
  BY DEF Covers

LEMMA CoversNothing ==
  ASSUME NEW a
  PROVE  Covers(a, NoVerdicts)
  BY DEF Covers, NoVerdicts, NoVerdict

\* The overlay of two sets of verdicts covers both and nothing else.
LEMMA OverlayCovers ==
  ASSUME NEW a, NEW b
  PROVE  /\ Covers(OverlayVerdicts(a, b), a)
         /\ Covers(OverlayVerdicts(a, b), b)
  BY DEF Covers, OverlayVerdicts

LEMMA CoversOverlay ==
  ASSUME NEW a, NEW b, NEW c, Covers(c, a), Covers(c, b)
  PROVE  Covers(c, OverlayVerdicts(a, b))
  BY DEF Covers, OverlayVerdicts

LEMMA OverlayMonotone ==
  ASSUME NEW p, NEW a, NEW b, Covers(a, b)
  PROVE  Covers(OverlayVerdicts(p, a), OverlayVerdicts(p, b))
  BY DEF Covers, OverlayVerdicts

LEMMA MergeFields ==
  ASSUME NEW a, NEW b
  PROVE  /\ Merge(a, b).verdict = OverlayVerdicts(a.verdict, b.verdict)
         /\ Merge(a, b).incidents = a.incidents \cup b.incidents
  BY DEF Merge

LEMMA SnapshotFields ==
  ASSUME NEW r, NEW v, NEW s, NEW n
  PROVE  /\ Snapshot(r, v, s, n).verdict = v
         /\ Snapshot(r, v, s, n).incidents = n
  BY DEF Snapshot

\* What a step of the campaign may do to report.json.
Grows ==
  /\ Covers(disk'.verdict, disk.verdict)
  /\ disk.incidents \subseteq disk'.incidents

\* The links between report.json, the latest checkpoint and the run.
Chain ==
  /\ Covers(latest.verdict, disk.verdict)
  /\ Covers(OverlayVerdicts(prior.verdict, verdict), latest.verdict)
  /\ disk.incidents \subseteq latest.incidents
  /\ latest.incidents \subseteq prior.incidents

\* A checkpoint keeps the chain if this run's verdicts cover what it saves.
LEMMA SaveKeepsChain ==
  ASSUME Chain, NEW s, Save(s), prior' = prior, s.incidents = {},
         Covers(verdict', verdict), Covers(verdict', s.verdict)
  PROVE  Chain' /\ Grows
  <1>1. latest' = Merge(latest, s) /\ disk' \in {disk, latest'}
    BY DEF Save, Written
  <1>2. /\ latest'.verdict = OverlayVerdicts(latest.verdict, s.verdict)
        /\ latest'.incidents = latest.incidents
    BY <1>1, MergeFields
  <1>3. Covers(latest'.verdict, latest.verdict)
    BY <1>2, OverlayCovers
  <1>4. Covers(latest'.verdict, disk.verdict)
    BY <1>3, CoversTransitive DEF Chain
  <1>5. Covers(latest'.verdict, disk'.verdict) /\ Covers(disk'.verdict, disk.verdict)
    BY <1>1, <1>4, CoversReflexive
  <1>6. Covers(OverlayVerdicts(prior.verdict, verdict'), latest'.verdict)
    <2>1. Covers(OverlayVerdicts(prior.verdict, verdict'), latest.verdict)
      BY OverlayMonotone, CoversTransitive DEF Chain
    <2>2. Covers(OverlayVerdicts(prior.verdict, verdict'), s.verdict)
      BY OverlayCovers, CoversTransitive
    <2>3. QED
      BY <1>2, <2>1, <2>2, CoversOverlay
  <1>7. QED
    BY <1>1, <1>2, <1>5, <1>6 DEF Chain, Grows

LEMMA CheckpointKeepsChain ==
  ASSUME Chain, Checkpoint, prior' = prior, Covers(verdict', verdict)
  PROVE  Chain' /\ Grows
  BY SaveKeepsChain, SnapshotFields DEF Checkpoint

\* The end of a run writes the final report over the prior one, or the latest
\* checkpoint, or both, or nothing.
LEMMA ConcludeGrows ==
  ASSUME TypeOK, Chain, Conclude
  PROVE  Grows
  <1> DEFINE final == IF prior = NoReport THEN FinalReport ELSE Merge(prior, FinalReport)
             fallback == Finalize(latest, "partial")
  <1>1. FinalReport.verdict = verdict
    BY SnapshotFields DEF FinalReport
  <1>2. Covers(final.verdict, OverlayVerdicts(prior.verdict, verdict))
    <2>1. CASE prior = NoReport
      <3>1. Covers(verdict, prior.verdict)
        BY <2>1, CoversNothing DEF NoReport
      <3>2. QED
        BY <1>1, <2>1, <3>1, CoversOverlay, CoversReflexive
    <2>2. CASE prior # NoReport
      BY <1>1, <2>2, MergeFields, CoversReflexive
    <2>3. QED
      BY <2>1, <2>2
  <1>3. prior.incidents \subseteq final.incidents
    BY MergeFields DEF NoReport
  <1>4. fallback.verdict = latest.verdict /\ fallback.incidents = latest.incidents
    BY DEF Finalize, TypeOK, Reports
  <1>5. Covers(final.verdict, disk.verdict) /\ disk.incidents \subseteq final.incidents
    BY <1>2, <1>3, CoversTransitive DEF Chain
  <1>6. Covers(fallback.verdict, disk.verdict) /\ disk.incidents \subseteq fallback.incidents
    BY <1>4 DEF Chain
  <1> HIDE DEF final, fallback
  <1>7. disk' \in {disk, final, fallback}
    BY DEF Conclude, Written, final, fallback
  <1>8. QED
    BY <1>5, <1>6, <1>7, CoversReflexive DEF Grows

\* The invariant without its type part, so that each action is taken up once.
KInv == MemoryInv /\ EarlyInv /\ EvidenceInv /\ IncidentInv

LEMMA ChainInRun == IInv /\ main # "off" => Chain
  BY DEF IInv, EvidenceInv, IncidentInv, Chain

\* A run that ends leaves nothing in memory that could matter.
LEMMA ExitKInv ==
  ASSUME IInv, Exit, part' # 0
  PROVE  KInv'
  <1>1. /\ main' = "off" /\ verdict' = NoVerdicts
        /\ worker' = [j \in Jobs |-> "idle"]
        /\ copied' = [j \in Jobs |-> NoReport]
    BY DEF Exit
  <1>2. \A j \in Jobs : copied'[j].verdict = NoVerdicts /\ copied'[j].incidents = {}
    BY <1>1 DEF NoReport
  <1>3. QED
    BY <1>1, <1>2, CoversReflexive
    DEF KInv, MemoryInv, EarlyInv, EvidenceInv, IncidentInv

LEMMA BeginKInv ==
  ASSUME IInv, NEW S, NEW from, NEW r, main = "off", from = disk, Begin(S, from, r)
  PROVE  KInv' /\ Grows
  <1> DEFINE initial == IF from = NoReport THEN Shell(S) ELSE Merge(from, Shell(S))
  <1>1. Shell(S).verdict = NoVerdicts /\ Shell(S).incidents = {}
    BY DEF Shell, NoReport
  <1>2. /\ Covers(initial.verdict, from.verdict)
        /\ Covers(OverlayVerdicts(from.verdict, NoVerdicts), initial.verdict)
        /\ initial.incidents = from.incidents
    <2>1. CASE from = NoReport
      <3>1. from.verdict = NoVerdicts /\ from.incidents = {}
        BY <2>1 DEF NoReport
      <3>2. QED
        BY <1>1, <2>1, <3>1, CoversNothing
    <2>2. CASE from # NoReport
      <3>1. /\ initial.verdict = OverlayVerdicts(from.verdict, NoVerdicts)
            /\ initial.incidents = from.incidents \cup {}
        BY <1>1, <2>2, MergeFields
      <3>2. QED
        BY <3>1, OverlayCovers, CoversReflexive
    <2>3. QED
      BY <2>1, <2>2
  <1> HIDE DEF initial
  <1>3. PICK result \in WriteResults :
          /\ disk' = Written(disk, initial, result)
          /\ IF result = "written"
               THEN /\ main' = "enter"
                    /\ prior' = from
                    /\ latest' = initial
                    /\ UNCHANGED <<verdict, worker, copied>>
               ELSE UNCHANGED <<main, memory>>
    BY DEF Begin, initial
  <1>4. part \in Nat /\ part' = part + 1
    BY LifecycleAssumption DEF Begin, IInv, TypeOK
  <1>5. Grows
    BY <1>2, <1>3, CoversReflexive DEF Written, Grows
  <1>6. CASE result = "written"
    <2>1. disk' = initial
      BY <1>3, <1>6 DEF Written
    <2>2. verdict' = NoVerdicts /\ \A j \in Jobs : worker'[j] = "idle"
      BY <1>3, <1>6 DEF IInv, TypeOK, MemoryInv
    <2>3. \A j \in Jobs : Covers(verdict', copied'[j].verdict) /\ copied'[j].incidents = {}
      BY <1>3, <1>6 DEF IInv, EvidenceInv, IncidentInv
    <2>4. main' = "enter" /\ prior' = from /\ latest' = initial
      BY <1>3, <1>6
    <2>5. MemoryInv' /\ EarlyInv'
      BY <1>4, <2>2, <2>4 DEF MemoryInv, EarlyInv
    <2>6. EvidenceInv'
      BY <1>2, <2>1, <2>2, <2>3, <2>4, CoversReflexive DEF EvidenceInv
    <2>7. IncidentInv'
      BY <1>2, <2>1, <2>3, <2>4 DEF IncidentInv
    <2>8. QED
      BY <1>5, <2>5, <2>6, <2>7 DEF KInv
  <1>7. CASE result # "written"
    <2>1. main' = "off" /\ UNCHANGED memory
      BY <1>3, <1>7
    <2>2. QED
      BY <1>4, <1>5, <2>1
      DEF KInv, IInv, MemoryInv, EarlyInv, EvidenceInv, IncidentInv, memory
  <1>8. QED
    BY <1>6, <1>7

\* A step of a run that only adds verdicts, and saves at most what it has.
LEMMA RunStepKInv ==
  ASSUME IInv, main # "off", main' # "off", part' = part,
         Chain' /\ Grows,
         Covers(verdict', verdict),
         \A j \in Jobs : \/ copied'[j] = copied[j]
                         \/ Covers(verdict', copied'[j].verdict) /\ copied'[j].incidents = {},
         \A j \in Jobs : worker'[j] # "idle" => main' = "jobs",
         EarlyInv'
  PROVE  KInv'
  <1>1. \A j \in Jobs : Covers(verdict', copied'[j].verdict)
    BY CoversTransitive DEF IInv, EvidenceInv
  <1>2. \A j \in Jobs : copied'[j].incidents = {}
    BY DEF IInv, IncidentInv
  <1>3. MemoryInv'
    BY DEF IInv, MemoryInv
  <1>4. QED
    BY <1>1, <1>2, <1>3 DEF KInv, EvidenceInv, IncidentInv, Chain

LEMMA MainStepKInv ==
  ASSUME IInv, MainStep
  PROVE  KInv' /\ Grows
  <1>1. main # "off"
    BY DEF MainStep, Enter, Classify, RunSetup, Schedule, Conclude
  <1>2. Chain
    BY <1>1, ChainInRun
  <1>3. CASE Enter
    <2>1. Chain' /\ Grows
      <3>1. Covers(verdict', verdict)
        BY <1>3, CoversReflexive DEF Enter
      <3>2. QED
        BY <1>2, <1>3, <3>1, SaveKeepsChain, SnapshotFields DEF Enter
    <2>2. /\ main' = "classify" /\ part' = part /\ verdict' = verdict
          /\ copied' = copied /\ worker' = worker
      BY <1>3 DEF Enter
    <2>3. verdict = NoVerdicts
      BY <1>3 DEF Enter, IInv, EarlyInv
    <2>4. EarlyInv' /\ \A j \in Jobs : worker'[j] # "idle" => main' = "jobs"
      BY <1>3, <2>2, <2>3 DEF Enter, EarlyInv, IInv, MemoryInv
    <2>5. QED
      BY <1>1, <2>1, <2>2, <2>4, CoversReflexive, RunStepKInv
  <1>4. CASE Classify
    <2> DEFINE skips == {e \in scorable : e[1] \in NotRunnable}
               errors == {e \in scorable \ skips : e[1] \in MissingParams}
    <2>1. verdict' = [k \in Keys |-> CASE k \in skips  -> Uniform("skip")
                                       [] k \in errors -> Uniform("error")
                                       [] OTHER        -> verdict[k]]
      BY <1>4 DEF Classify
    <2> HIDE DEF skips, errors
    <2>2. verdict = NoVerdicts
      BY <1>4 DEF Classify, IInv, EarlyInv
    <2>3. Covers(verdict', verdict)
      BY <2>2, CoversNothing
    <2>4. \A k \in Keys, i \in Items : verdict'[k][i] # "none" => i \in CatalogItems
      BY <2>1, <2>2 DEF Uniform, NoVerdicts, NoVerdict
    <2>5. /\ main' = "setup" /\ part' = part /\ copied' = copied /\ worker' = worker
          /\ prior' = prior
      BY <1>4 DEF Classify
    <2>6. Chain' /\ Grows
      <3>1. Save(Snapshot(record', verdict', "running", {}))
        BY <1>4 DEF Classify
      <3>2. QED
        BY <1>2, <2>3, <2>5, <3>1, CoversReflexive, SaveKeepsChain, SnapshotFields
    <2>7. EarlyInv' /\ \A j \in Jobs : worker'[j] # "idle" => main' = "jobs"
      BY <1>4, <2>4, <2>5 DEF Classify, EarlyInv, IInv, MemoryInv
    <2>8. QED
      BY <1>1, <2>3, <2>5, <2>6, <2>7, RunStepKInv
  <1>5. CASE RunSetup
    <2>1. PICK s \in setups :
            \/ verdict' = verdict
            \/ verdict' = [k \in Keys |-> IF k \in SetupExecutions(s)
                                            THEN Uniform("error") ELSE verdict[k]]
      BY <1>5 DEF RunSetup
    <2>2. \A k \in Keys, i \in Items : verdict[k][i] # "none" => i \in CatalogItems
      BY <1>5 DEF RunSetup, IInv, EarlyInv
    <2>3. Covers(verdict', verdict)
      BY <2>1, <2>2 DEF Covers, Uniform
    <2>4. \A k \in Keys, i \in Items : verdict'[k][i] # "none" => i \in CatalogItems
      BY <2>1, <2>2 DEF Uniform
    <2>5. /\ main' = main /\ part' = part /\ copied' = copied /\ worker' = worker
          /\ prior' = prior /\ main = "setup"
      BY <1>5 DEF RunSetup
    <2>6. Chain' /\ Grows
      BY <1>2, <1>5, <2>3, <2>5, CheckpointKeepsChain DEF RunSetup
    <2>7. EarlyInv' /\ \A j \in Jobs : worker'[j] # "idle" => main' = "jobs"
      BY <2>4, <2>5 DEF EarlyInv, IInv, MemoryInv
    <2>8. QED
      BY <1>1, <2>3, <2>5, <2>6, <2>7, RunStepKInv
  <1>6. CASE Schedule
    <2>1. /\ main' = "jobs" /\ part' = part /\ copied' = copied /\ worker' = worker
          /\ prior' = prior /\ verdict' = verdict
      BY <1>6 DEF Schedule
    <2>2. Chain' /\ Grows
      BY <1>2, <1>6, <2>1, CoversReflexive, CheckpointKeepsChain DEF Schedule
    <2>3. EarlyInv'
      BY <2>1 DEF EarlyInv
    <2>4. QED
      BY <1>1, <2>1, <2>2, <2>3, CoversReflexive, RunStepKInv
  <1>7. CASE Conclude
    <2>1. Grows
      BY <1>2, <1>7, ConcludeGrows DEF IInv
    <2>2. part' # 0
      BY <1>1, <1>7 DEF Conclude, IInv, MemoryInv
    <2>3. QED
      BY <1>7, <2>1, <2>2, ExitKInv DEF Conclude
  <1>8. QED
    BY <1>3, <1>4, <1>5, <1>6, <1>7 DEF MainStep

\* A worker's step that touches neither report.json nor the latest checkpoint.
LEMMA QuietStep ==
  ASSUME Chain, disk' = disk, latest' = latest, prior' = prior, Covers(verdict', verdict)
  PROVE  Chain' /\ Grows
  BY OverlayMonotone, CoversTransitive, CoversReflexive DEF Chain, Grows

LEMMA WorkerStepKInv ==
  ASSUME IInv, NEW j \in Jobs, WorkerStep(j)
  PROVE  KInv' /\ Grows
  <1> DEFINE Saved(i) == \/ copied'[i] = copied[i]
                         \/ Covers(verdict', copied'[i].verdict) /\ copied'[i].incidents = {}
  <1>1. main = "jobs"
    <2>1. worker[j] # "idle" => main = "jobs"
      BY DEF IInv, MemoryInv
    <2>2. QED
      BY <2>1 DEF WorkerStep, StartJob, StartExecution, EnterStage, FinishExecution, Active,
                  VariantWithoutDirectory, FinishJob, CopyVerdicts, CopyRecords, SaveCopy
  <1>2. Chain
    <2>1. main # "off"
      BY <1>1
    <2>2. QED
      BY <2>1, ChainInRun
  <1>3. copied \in [Jobs -> Reports]
    BY DEF IInv, TypeOK
  <1>4. SUFFICES /\ main' = main /\ part' = part
                 /\ Chain' /\ Grows
                 /\ Covers(verdict', verdict)
                 /\ \A i \in Jobs : Saved(i)
    <2>1. main' = main /\ part' = part
      BY <1>4
    <2>2. EarlyInv'
      BY <1>1, <2>1 DEF EarlyInv
    <2>3. \A i \in Jobs : worker'[i] # "idle" => main' = "jobs"
      BY <1>1, <2>1
    <2>4. main # "off" /\ main' # "off"
      BY <1>1, <2>1
    <2>5. QED
      BY <1>4, <2>2, <2>3, <2>4, RunStepKInv
  <1>5. CASE StartJob(j) \/ StartExecution(j) \/ EnterStage(j)
    <2>1. /\ main' = main /\ part' = part /\ disk' = disk /\ latest' = latest
          /\ prior' = prior /\ verdict' = verdict /\ copied' = copied
      BY <1>5 DEF StartJob, StartExecution, EnterStage
    <2>2. QED
      BY <1>2, <2>1, CoversReflexive, QuietStep
  <1>6. CASE FinishExecution(j) \/ VariantWithoutDirectory(j)
    <2>1. /\ main' = main /\ part' = part /\ disk' = disk /\ latest' = latest
          /\ prior' = prior /\ verdict' = verdict /\ copied' = copied
      BY <1>6 DEF FinishExecution, VariantWithoutDirectory, Report
    <2>2. QED
      BY <1>2, <2>1, CoversReflexive, QuietStep
  <1>7. CASE FinishJob(j)
    <2>1. /\ main' = main /\ part' = part /\ disk' = disk /\ latest' = latest
          /\ prior' = prior /\ copied' = copied
          /\ verdict' = OverlayVerdicts(verdict, pending[j])
      BY <1>7 DEF FinishJob
    <2>2. Covers(verdict', verdict)
      BY <2>1, OverlayCovers
    <2>3. QED
      BY <1>2, <2>1, <2>2, QuietStep
  <1>8. CASE CopyVerdicts(j)
    <2>1. /\ main' = main /\ part' = part /\ disk' = disk /\ latest' = latest
          /\ prior' = prior /\ verdict' = verdict
          /\ copied' = [copied EXCEPT ![j] = Snapshot(NoRecords, verdict, "running", {})]
      BY <1>8 DEF CopyVerdicts
    <2>2. \A i \in Jobs : Saved(i)
      <3>1. copied'[j].verdict = verdict /\ copied'[j].incidents = {}
        BY <1>3, <2>1, SnapshotFields
      <3>2. QED
        BY <1>3, <2>1, <3>1, CoversReflexive
    <2>3. QED
      BY <1>2, <2>1, <2>2, CoversReflexive, QuietStep
  <1>9. CASE CopyRecords(j)
    <2>1. /\ main' = main /\ part' = part /\ disk' = disk /\ latest' = latest
          /\ prior' = prior /\ verdict' = verdict
          /\ copied' = [copied EXCEPT ![j] = [copied[j] EXCEPT !.record = record]]
      BY <1>9 DEF CopyRecords
    <2>2. \A i \in Jobs : Saved(i)
      <3>1. copied'[j] = [copied[j] EXCEPT !.record = record]
        BY <1>3, <2>1
      <3>2. /\ copied'[j].verdict = copied[j].verdict
            /\ copied'[j].incidents = copied[j].incidents
        BY <1>3, <3>1 DEF Reports
      <3>3. Covers(verdict', copied[j].verdict) /\ copied[j].incidents = {}
        BY <2>1 DEF IInv, EvidenceInv, IncidentInv
      <3>4. QED
        BY <1>3, <2>1, <3>2, <3>3
    <2>3. QED
      BY <1>2, <2>1, <2>2, CoversReflexive, QuietStep
  <1>10. CASE SaveCopy(j)
    <2>1. /\ main' = main /\ part' = part /\ prior' = prior /\ verdict' = verdict
          /\ copied' = [copied EXCEPT ![j] = NoReport]
          /\ Save(copied[j])
      BY <1>10 DEF SaveCopy
    <2>2. Covers(verdict', copied[j].verdict) /\ copied[j].incidents = {}
      BY <2>1 DEF IInv, EvidenceInv, IncidentInv
    <2>3. Chain' /\ Grows
      BY <1>2, <2>1, <2>2, CoversReflexive, SaveKeepsChain
    <2>4. \A i \in Jobs : Saved(i)
      <3>1. copied'[j].verdict = NoVerdicts /\ copied'[j].incidents = {}
        BY <1>3, <2>1 DEF NoReport
      <3>2. QED
        BY <1>3, <2>1, <3>1, CoversNothing
    <2>5. QED
      BY <2>1, <2>3, <2>4, CoversReflexive
  <1>11. QED
    BY <1>5, <1>6, <1>7, <1>8, <1>9, <1>10 DEF WorkerStep

LEMMA InitIInv == Init => IInv
  <1> SUFFICES ASSUME Init
               PROVE  IInv
    OBVIOUS
  <1>1. \A j \in Jobs : /\ worker[j] = "idle"
                        /\ copied[j].verdict = NoVerdicts /\ copied[j].incidents = {}
    BY DEF Init, NoReport
  <1>2. QED
    BY <1>1, InitType, CoversReflexive
    DEF Init, IInv, MemoryInv, EarlyInv, EvidenceInv, IncidentInv

\* Every step keeps the invariant, and adds to the evidence on disk.
LEMMA NextIInv == IInv /\ [Next]_vars => IInv' /\ Grows
  <1> SUFFICES ASSUME IInv, [Next]_vars
               PROVE  IInv' /\ Grows
    OBVIOUS
  <1>1. SUFFICES KInv' /\ Grows
    BY NextType DEF IInv, KInv
  <1>2. CASE FirstRun
    <2>1. disk = NoReport /\ main = "off" /\ Begin(TRs, NoReport, FALSE)
      BY <1>2 DEF FirstRun, IInv, MemoryInv
    <2>2. QED
      BY <2>1, BeginKInv
  <1>3. CASE ContinueFrom
    <2>1. PICK r \in RetryFailed : Begin({t \in TRs : ~Skips(disk, <<t, 0>>, r)}, disk, r)
      BY <1>3 DEF ContinueFrom
    <2>2. main = "off"
      BY <1>3 DEF ContinueFrom
    <2>3. QED
      BY <2>1, <2>2, BeginKInv
  <1>4. CASE Recover
    <2> DEFINE flagged == [disk EXCEPT !.incidents = @ \cup {"run-abandoned"}]
    <2>1. disk \in Reports
      BY DEF IInv, TypeOK
    <2>2. flagged \in Reports /\ flagged.verdict = disk.verdict
          /\ disk.incidents \subseteq flagged.incidents
      BY <2>1 DEF Reports, IncidentIDs
    <2> HIDE DEF flagged
    <2>3. /\ Finalize(flagged, "abandoned").verdict = disk.verdict
          /\ disk.incidents \subseteq Finalize(flagged, "abandoned").incidents
      BY <2>2 DEF Finalize, Reports
    <2>4. disk' \in {disk, Finalize(flagged, "abandoned")}
      BY <1>4 DEF Recover, Written, flagged
    <2>5. Grows
      BY <2>3, <2>4, CoversReflexive DEF Grows
    <2>6. main = "off" /\ part # 0 /\ UNCHANGED <<part, main, memory>>
      BY <1>4 DEF Recover, IInv, MemoryInv, NoReport
    <2>7. QED
      BY <2>5, <2>6 DEF KInv, IInv, MemoryInv, EarlyInv, EvidenceInv, IncidentInv, memory
  <1>5. CASE MainStep
    BY <1>5, MainStepKInv
  <1>6. ASSUME NEW j \in Jobs, WorkerStep(j)
        PROVE  KInv' /\ Grows
    BY <1>6, WorkerStepKInv
  <1>7. CASE Cancel
    <2>1. UNCHANGED <<disk, part, main, prior, latest, verdict, worker, copied>>
      BY <1>7 DEF Cancel
    <2>2. QED
      BY <2>1, CoversReflexive
      DEF Grows, KInv, IInv, MemoryInv, EarlyInv, EvidenceInv, IncidentInv
  <1>8. CASE Crash
    <2>1. Exit /\ disk' = disk /\ part' # 0
      BY <1>8 DEF Crash, IInv, MemoryInv
    <2>2. QED
      BY <2>1, ExitKInv, CoversReflexive DEF Grows
  <1>9. CASE UNCHANGED vars
    BY <1>9, CoversReflexive
    DEF vars, memory, Grows, KInv, IInv, MemoryInv, EarlyInv, EvidenceInv, IncidentInv
  <1>10. QED
    BY <1>2, <1>3, <1>4, <1>5, <1>6, <1>7, <1>8, <1>9 DEF Next

THEOREM LifecycleIInv == Spec => []IInv
  BY InitIInv, NextIInv, PTL DEF Spec

\* A verdict that has reached report.json stays there, in any campaign: for any
\* plan, any interleaving of the workers' checkpoints, any crash, cancellation,
\* failed write, continuation and retry.
THEOREM EvidenceNeverLostHolds == Spec => EvidenceNeverLost
  <1>1. IInv /\ [Next]_vars =>
          [\A k \in Keys, i \in Items :
             disk.verdict[k][i] # "none" => disk'.verdict[k][i] # "none"]_vars
    BY NextIInv DEF Grows, Covers
  <1>2. QED
    BY <1>1, LifecycleIInv, PTL DEF Spec, EvidenceNeverLost

\* An incident that has reached report.json stays there.
THEOREM IncidentsStickHolds == Spec => IncidentsStick
  <1>1. IInv /\ [Next]_vars => [disk.incidents \subseteq disk'.incidents]_vars
    BY NextIInv DEF Grows
  <1>2. QED
    BY <1>1, LifecycleIInv, PTL DEF Spec, IncidentsStick

-----------------------------------------------------------------------------
(***************************************************************************)
(* What a report that is complete, final or certifiable has earned.          *)
(*                                                                          *)
(* An execution's record says that it is completed before its verdicts are  *)
(* among the run's, which are ahead of the copies the workers still have to *)
(* save, which are ahead of the latest checkpoint.  Whatever is in one of   *)
(* these places is followed here until the run ends:                        *)
(*    pending  ->  verdict  ->  copied  ->  latest  ->  report.json         *)
(***************************************************************************)
\* Verdicts v account for a record that says o.
Backed(o, v) ==
  /\ o \in Outcomes => Has(v, Outcomes)
  /\ o \in {"fail", "error"} => Has(v, {"fail", "error"})

AllBacked(r) == \A e \in Plan : Backed(r.record[e], r.verdict[e])

\* The requirements without variants are recorded: Shell records each of them.
Known(r) == \A e \in Plan : e[2] = 0 => r.record[e] # "absent"

\* A requirement with variants has, as such, neither outcome nor verdict.
Clean(r) ==
  \A k \in Keys \ Plan : r.record[k] \notin Outcomes /\ r.verdict[k] = NoVerdict

\* Execution e belongs to the run that is under way.
InRun(e) == IF main = "enter" THEN e \in scorable ELSE record[e] # "absent"

UnderWay == main \notin {"off", "enter"}

\* report.json.
DiskInv ==
  /\ main # "off" => disk.status = "running"
  /\ Clean(disk)
  /\ disk.status # "none" => Known(disk)
  /\ CompleteCoversPlan
  /\ RecoverFirst /\ disk.status # "running" /\ "run-abandoned" \notin disk.incidents
       => AllBacked(disk)

\* The prior report, and what the run has taken over from it.
PriorInv ==
  /\ Clean(prior)
  /\ main # "off" => prior = NoReport \/ Known(prior)
  /\ main # "off" /\ RecoverFirst /\ "run-abandoned" \notin prior.incidents
       => AllBacked(prior)
  /\ main # "off" => \A e \in Plan : ~InRun(e) => prior.record[e] \in Outcomes
  /\ main # "off" =>
       \A e \in Plan : InRun(e) /\ Variants[e[1]] = {} /\ prior.record[e] \in Outcomes =>
                         retry /\ prior.record[e] \in {"fail", "error"}

\* A copy of records rec and verdicts ver: not all of them, but true.
Faithful(r, rec, ver) ==
  \A k \in Keys :
     /\ r.record[k] \in Outcomes => r.record[k] = rec[k]
     /\ r.record[k] # "absent" => rec[k] # "absent"
     /\ \A i \in Items : r.verdict[k][i] # "none" => r.verdict[k][i] = ver[k][i]

\* A checkpoint: such copies, merged into the prior report p.
FaithfulOver(r, p, rec, ver) ==
  /\ \A k \in Plan : rec[k] = "absent" => r.record[k] = p.record[k]
  /\ \A k \in Keys : rec[k] # "absent" /\ r.record[k] \in Outcomes =>
                       r.record[k] = rec[k]
  /\ \A k \in Keys, i \in Items :
        \/ r.verdict[k][i] = p.verdict[k][i]
        \/ ver[k][i] # "none" /\ r.verdict[k][i] = ver[k][i]

\* r has every verdict of ver on job j's executions.
Shows(r, ver, j) ==
  \A e \in ExecutionsOf(j), i \in Items :
     ver[e][i] # "none" => r.verdict[e][i] = ver[e][i]

LatestInv ==
  /\ main # "off" => /\ latest.status = "running"
                     /\ Clean(latest) /\ Known(latest)
                     /\ prior.incidents \subseteq latest.incidents
  /\ main = "enter" =>
       /\ \A e \in Plan \ scorable : latest.record[e] = prior.record[e]
       /\ latest.verdict = prior.verdict
  /\ UnderWay => FaithfulOver(latest, prior, record, verdict)

CopyInv ==
  \A j \in Jobs : /\ Clean(copied[j]) /\ Faithful(copied[j], record, verdict)
                  /\ worker[j] \in {"records", "save"} => copied[j].status = "running"

\* The latest checkpoint has what the run knows of a job, or the job's worker is
\* about to put it there.
SavedInv ==
  main = "jobs" =>
    \A j \in Jobs : \/ Shows(latest, verdict, j)
                    \/ worker[j] = "verdicts"
                    \/ worker[j] \in {"records", "save"} /\ Shows(copied[j], verdict, j)

\* Before the jobs, as far as the classification and the setups have come.
PlanningInv ==
  /\ main \in {"off", "enter"} => \A k \in Keys : record[k] = "absent"
  /\ main = "classify" => \A k \in Keys : record[k] \in {"absent", "queued"}
  /\ main = "setup" => \A e \in Plan :
       /\ record[e] \in {"absent", "queued", "skip", "error", "aborted"}
       /\ record[e] = "skip" => e[1] \in NotRunnable
       /\ record[e] \in {"error", "aborted"} => verdict[e] = Uniform("error")
  /\ UnderWay => \A e \in scorable : record[e] # "absent"

\* The records of the run, and the verdicts that belong to them.
RecordInv ==
  /\ \A k \in Keys \ Plan : record[k] = "absent"
  /\ \A k \in Keys : record[k] = "aborted" => cancelled
  /\ main # "jobs" => \A k \in Keys : record[k] # "running"
  /\ \A k \in Keys : record[k] \in {"absent", "queued", "running"} =>
                       verdict[k] = NoVerdict
  /\ \A j \in Jobs : \A e \in ExecutionsOf(j) :
       Backed(record[e], verdict[e]) \/ Backed(record[e], pending[j][e])

\* What a job has in hand.
JobInv ==
  /\ main # "jobs" => \A j \in Jobs : pending[j] = NoVerdicts
  /\ \A j \in Jobs, k \in Keys : pending[j][k] # NoVerdict =>
       /\ k \in ExecutionsOf(j)
       /\ record[k] \notin {"absent", "queued", "running"}
       /\ verdict[k] = NoVerdict
  /\ \A j \in Jobs : worker[j] \in {"verdicts", "records", "save", "work"} =>
       Active(j) # {} \/ pending[j] = NoVerdicts
  /\ main = "jobs" => \A j \in Jobs :
       /\ phase[j] # "running" => worker[j] = "idle"
       /\ phase[j] = "finished" => Active(j) = {} /\ pending[j] = NoVerdicts

\* What report.json and the checkpoints have of the run, and the run itself.
ReportInv == DiskInv /\ PriorInv /\ LatestInv /\ CopyInv
RunInv == SavedInv /\ PlanningInv /\ RecordInv /\ JobInv

CInv == IInv /\ ReportInv /\ RunInv

-----------------------------------------------------------------------------
(* Lemmas about the plan and about reports. *)

LEMMA PlanElements ==
  ASSUME NEW e \in Plan
  PROVE  /\ e[1] \in TRs
         /\ e \in Executions(e[1])
         /\ Variants[e[1]] = {} => e = <<e[1], 0>>
         /\ Variants[e[1]] # {} => e[2] # 0
  <1>1. PICK t \in TRs : e \in Executions(t)
    BY DEF Plan
  <1>2. Variants[t] \subseteq Nat \ {0}
    BY LifecycleAssumption
  <1>3. CASE Variants[t] = {}
    BY <1>1, <1>3 DEF Executions
  <1>4. CASE Variants[t] # {}
    <2>1. e \in {t} \X Variants[t]
      BY <1>1, <1>4 DEF Executions
    <2>2. e[1] = t /\ e[2] \in Variants[t]
      BY <2>1
    <2>3. QED
      BY <1>1, <1>2, <1>4, <2>2
  <1>5. QED
    BY <1>3, <1>4

\* As such, a requirement with variants is not in the plan.
LEMMA BareRequirement ==
  ASSUME NEW t \in TRs
  PROVE  /\ <<t, 0>> \in Keys
         /\ Variants[t] # {} => <<t, 0>> \notin Plan
  <1>1. <<t, 0>> \in Keys
    BY DEF Keys
  <1>2. ASSUME Variants[t] # {}, <<t, 0>> \in Plan
        PROVE  FALSE
    <2>1. Variants[<<t, 0>>[1]] # {} => <<t, 0>>[2] # 0
      BY <1>2, PlanElements
    <2>2. QED
      BY <1>2, <2>1
  <1>3. QED
    BY <1>1, <1>2

LEMMA PlanHasTools ==
  ASSUME NEW e \in Plan
  PROVE  \E j \in Jobs : e \in ExecutionsOf(j)
  BY PlanElements, LifecycleAssumption DEF ExecutionsOf

\* No execution belongs to two tools.
LEMMA OneTool ==
  ASSUME NEW i, NEW j, NEW e, e \in ExecutionsOf(i), e \in ExecutionsOf(j)
  PROVE  i = j
  BY DEF ExecutionsOf

LEMMA JobKeys ==
  ASSUME NEW j
  PROVE  ExecutionsOf(j) \subseteq Plan /\ ExecutionsOf(j) \subseteq Keys
  BY PlanKeys DEF ExecutionsOf

LEMMA NoReportFields ==
  /\ NoReport.status = "none" /\ NoReport.incidents = {}
  /\ NoReport.verdict = NoVerdicts
  /\ \A k \in Keys : NoReport.record[k] = "absent" /\ NoReport.verdict[k] = NoVerdict
  BY DEF NoReport, NoRecords, NoVerdicts

LEMMA NoReportClean == Clean(NoReport)
  BY NoReportFields DEF Clean, Outcomes

LEMMA NoReportFaithful ==
  ASSUME NEW rec, NEW ver
  PROVE  Faithful(NoReport, rec, ver)
  BY NoReportFields DEF Faithful, Outcomes, NoVerdict

-----------------------------------------------------------------------------
(* Verdicts that account for a record. *)

LEMMA NotCompletedBacked ==
  ASSUME NEW o, o \notin Outcomes, NEW v
  PROVE  Backed(o, v)
  BY DEF Backed, Outcomes

LEMMA UniformBacked ==
  ASSUME NEW o \in Outcomes
  PROVE  Backed(o, Uniform(o)) /\ Uniform(o) # NoVerdict
  <1>1. PICK i \in CatalogItems : i \in Items
    BY LifecycleAssumption
  <1>2. Uniform(o)[i] = o /\ NoVerdict[i] = "none"
    BY <1>1 DEF Uniform, NoVerdict
  <1>3. QED
    BY <1>1, <1>2 DEF Backed, Has, Outcomes

\* The outcome that a job's verdicts are summarized to is among them.
LEMMA SummaryBacked ==
  ASSUME NEW v \in Verdicts, v # NoVerdict
  PROVE  Backed(Summarize(v), v)
  <1>1. PICK i \in Items : v[i] # "none"
    <2>1. v = [i \in Items |-> v[i]] /\ NoVerdict = [i \in Items |-> "none"]
      BY DEF Verdicts, NoVerdict
    <2>2. QED
      BY <2>1
  <1>2. v[i] \in Outcomes
    BY <1>1 DEF Verdicts
  <1>3. Has(v, Outcomes)
    BY <1>2 DEF Has
  <1>4. Summarize(v) \in {"fail", "error"} => Has(v, {"fail", "error"})
    <2>1. CASE Has(v, {"error"})
      BY <2>1 DEF Has
    <2>2. CASE ~Has(v, {"error"}) /\ Has(v, {"fail"})
      BY <2>2 DEF Has
    <2>3. CASE ~Has(v, {"error", "fail"}) /\ Has(v, {"pass"})
      <3>1. ~Has(v, {"error"}) /\ ~Has(v, {"fail"})
        BY <2>3 DEF Has
      <3>2. ~Has(v, {"error", "fail", "pass"}) => FALSE
        BY <2>3 DEF Has
      <3>3. Summarize(v) = "pass"
        BY <2>3, <3>1, <3>2 DEF Summarize
      <3>4. QED
        BY <3>3
    <2>4. CASE ~Has(v, {"error", "fail", "pass"})
      <3>1. ~Has(v, {"error"}) /\ ~Has(v, {"fail"}) /\ ~Has(v, {"error", "fail"})
            /\ ~Has(v, {"pass"})
        BY <2>4 DEF Has
      <3>2. Has(v, {"skip"})
        BY <1>2, <2>4 DEF Has, Outcomes
      <3>3. Summarize(v) = "skip"
        BY <2>4, <3>1, <3>2 DEF Summarize
      <3>4. QED
        BY <3>3
    <2>5. QED
      BY <2>1, <2>2, <2>3, <2>4 DEF Has
  <1>5. QED
    BY <1>3, <1>4 DEF Backed

\* Later verdicts account for a later record whatever they are laid over.
LEMMA OverlayBacked ==
  ASSUME NEW a, NEW b, NEW k \in Keys, NEW o, Backed(o, b[k])
  PROVE  Backed(o, OverlayVerdicts(a, b)[k])
  <1>1. \A i \in Items : b[k][i] \in Outcomes => OverlayVerdicts(a, b)[k][i] = b[k][i]
    BY DEF OverlayVerdicts, Outcomes
  <1>2. {"fail", "error"} \subseteq Outcomes
    BY DEF Outcomes
  <1>3. QED
    BY <1>1, <1>2 DEF Backed, Has

\* Without later verdicts, the earlier ones stay as they are.
LEMMA OverlayNothing ==
  ASSUME NEW a \in [Keys -> Verdicts], NEW b, NEW k \in Keys, b[k] = NoVerdict
  PROVE  OverlayVerdicts(a, b)[k] = a[k]
  <1>1. a[k] = [i \in Items |-> a[k][i]]
    BY DEF Verdicts
  <1>2. OverlayVerdicts(a, b)[k] = [i \in Items |-> a[k][i]]
    BY DEF OverlayVerdicts, NoVerdict
  <1>3. QED
    BY <1>1, <1>2

LEMMA OverlayOnNothing ==
  ASSUME NEW a, NEW b \in [Keys -> Verdicts], NEW k \in Keys, a[k] = NoVerdict
  PROVE  OverlayVerdicts(a, b)[k] = b[k]
  <1>1. b[k] = [i \in Items |-> b[k][i]]
    BY DEF Verdicts
  <1>2. OverlayVerdicts(a, b)[k] = [i \in Items |-> b[k][i]]
    BY DEF OverlayVerdicts, NoVerdict
  <1>3. QED
    BY <1>1, <1>2

-----------------------------------------------------------------------------
(* Copies of a run's records and verdicts, and their merge into a report. *)

\* How a run's records and verdicts may go on: no execution joins or leaves the
\* run, and no outcome or verdict is taken back.
Onward(rec, ver, rec2, ver2) ==
  \A k \in Keys :
     /\ rec2[k] = "absent" <=> rec[k] = "absent"
     /\ rec[k] \in Outcomes => rec2[k] = rec[k]
     /\ \A i \in Items : ver[k][i] # "none" => ver2[k][i] = ver[k][i]

LEMMA SnapshotIsFaithful ==
  ASSUME NEW rec, NEW ver, NEW s, NEW n
  PROVE  /\ Faithful(Snapshot(rec, ver, s, n), rec, ver)
         /\ Faithful(Snapshot(NoRecords, ver, s, n), rec, ver)
  BY DEF Faithful, Snapshot, NoRecords, Outcomes

LEMMA FaithfulOnward ==
  ASSUME NEW r, NEW rec, NEW ver, NEW rec2, NEW ver2,
         Faithful(r, rec, ver), Onward(rec, ver, rec2, ver2)
  PROVE  Faithful(r, rec2, ver2)
  BY DEF Faithful, Onward

LEMMA FaithfulOverOnward ==
  ASSUME NEW r, NEW p, NEW rec, NEW ver, NEW rec2, NEW ver2,
         FaithfulOver(r, p, rec, ver), Onward(rec, ver, rec2, ver2)
  PROVE  FaithfulOver(r, p, rec2, ver2)
  <1>1. Plan \subseteq Keys
    BY PlanKeys
  <1>2. ASSUME NEW k \in Keys, NEW i \in Items
        PROVE  \/ r.verdict[k][i] = p.verdict[k][i]
               \/ ver2[k][i] # "none" /\ r.verdict[k][i] = ver2[k][i]
    BY DEF FaithfulOver, Onward
  <1>3. QED
    BY <1>1, <1>2 DEF FaithfulOver, Onward

LEMMA MergeParts ==
  ASSUME NEW a, NEW b
  PROVE  /\ Merge(a, b).status = b.status
         /\ Merge(a, b).incidents = a.incidents \cup b.incidents
         /\ \A k \in Keys : Merge(a, b).record[k] =
              IF b.record[k] = "absent" THEN a.record[k] ELSE b.record[k]
         /\ \A k \in Keys, i \in Items : Merge(a, b).verdict[k][i] =
              IF b.verdict[k][i] = "none" THEN a.verdict[k][i] ELSE b.verdict[k][i]
         /\ Merge(a, b).verdict = OverlayVerdicts(a.verdict, b.verdict)
  BY DEF Merge, OverlayRecords, OverlayVerdicts

LEMMA MergeClean ==
  ASSUME NEW a \in Reports, NEW b, Clean(a), Clean(b)
  PROVE  Clean(Merge(a, b))
  <1> SUFFICES ASSUME NEW k \in Keys \ Plan
               PROVE  /\ Merge(a, b).record[k] \notin Outcomes
                      /\ Merge(a, b).verdict[k] = NoVerdict
    BY DEF Clean
  <1>1. Merge(a, b).record[k] \notin Outcomes
    BY MergeParts DEF Clean
  <1>2. a.verdict \in [Keys -> Verdicts] /\ b.verdict[k] = NoVerdict
    BY DEF Clean, Reports
  <1>3. OverlayVerdicts(a.verdict, b.verdict)[k] = a.verdict[k]
    BY <1>2, OverlayNothing
  <1>4. QED
    BY <1>1, <1>3, MergeParts DEF Clean

LEMMA MergeKnown ==
  ASSUME NEW a, NEW b, Known(a)
  PROVE  Known(Merge(a, b))
  BY MergeParts, PlanKeys DEF Known

LEMMA MergeFaithful ==
  ASSUME NEW r, NEW s, NEW p, NEW rec, NEW ver,
         FaithfulOver(r, p, rec, ver), Faithful(s, rec, ver)
  PROVE  FaithfulOver(Merge(r, s), p, rec, ver)
  <1>1. Plan \subseteq Keys
    BY PlanKeys
  <1>2. ASSUME NEW k \in Plan, rec[k] = "absent"
        PROVE  Merge(r, s).record[k] = p.record[k]
    BY <1>1, <1>2, MergeParts DEF FaithfulOver, Faithful
  <1>3. ASSUME NEW k \in Keys, rec[k] # "absent", Merge(r, s).record[k] \in Outcomes
        PROVE  Merge(r, s).record[k] = rec[k]
    BY <1>3, MergeParts DEF FaithfulOver, Faithful
  <1>4. ASSUME NEW k \in Keys, NEW i \in Items
        PROVE  \/ Merge(r, s).verdict[k][i] = p.verdict[k][i]
               \/ ver[k][i] # "none" /\ Merge(r, s).verdict[k][i] = ver[k][i]
    <2>1. Merge(r, s).verdict[k][i] =
            IF s.verdict[k][i] = "none" THEN r.verdict[k][i] ELSE s.verdict[k][i]
      BY MergeParts
    <2>2. CASE s.verdict[k][i] = "none"
      BY <2>1, <2>2 DEF FaithfulOver
    <2>3. CASE s.verdict[k][i] # "none"
      BY <2>1, <2>3 DEF Faithful
    <2>4. QED
      BY <2>2, <2>3
  <1>5. QED
    BY <1>2, <1>3, <1>4 DEF FaithfulOver

\* What either report shows, their merge shows, if the later one is faithful.
LEMMA MergeShows ==
  ASSUME NEW r, NEW s, NEW rec, NEW ver, NEW j,
         Faithful(s, rec, ver), Shows(r, ver, j) \/ Shows(s, ver, j)
  PROVE  Shows(Merge(r, s), ver, j)
  <1> SUFFICES ASSUME NEW e \in ExecutionsOf(j), NEW i \in Items, ver[e][i] # "none"
               PROVE  Merge(r, s).verdict[e][i] = ver[e][i]
    BY DEF Shows
  <1>1. e \in Keys
    BY JobKeys
  <1>2. Merge(r, s).verdict[e][i] =
          IF s.verdict[e][i] = "none" THEN r.verdict[e][i] ELSE s.verdict[e][i]
    BY <1>1, MergeParts
  <1>3. CASE s.verdict[e][i] = "none"
    BY <1>2, <1>3 DEF Shows
  <1>4. CASE s.verdict[e][i] # "none"
    BY <1>1, <1>2, <1>4 DEF Faithful
  <1>5. QED
    BY <1>3, <1>4

LEMMA SnapshotParts ==
  ASSUME NEW rec, NEW ver, NEW s, NEW n
  PROVE  /\ Snapshot(rec, ver, s, n).status = s
         /\ Snapshot(rec, ver, s, n).record = rec
         /\ Snapshot(rec, ver, s, n).verdict = ver
         /\ Snapshot(rec, ver, s, n).incidents = n
         /\ \A j : Shows(Snapshot(rec, ver, s, n), ver, j)
  BY DEF Snapshot, Shows

LEMMA SnapshotClean ==
  ASSUME NEW rec, NEW ver, NEW s, NEW n,
         \A k \in Keys \ Plan : rec[k] \notin Outcomes /\ ver[k] = NoVerdict
  PROVE  Clean(Snapshot(rec, ver, s, n))
  BY SnapshotParts DEF Clean

-----------------------------------------------------------------------------
(* The reports, through the steps of a run. *)

LEMMA SaveParts ==
  ASSUME NEW s, Save(s)
  PROVE  latest' = Merge(latest, s) /\ disk' \in {disk, latest'}
  BY DEF Save, Written

\* While a run is under way, report.json is an earlier report of it or the latest.
LEMMA DiskFollows ==
  ASSUME DiskInv, LatestInv', main # "off", main' # "off", disk' \in {disk, latest'}
  PROVE  DiskInv'
  <1>1. disk'.status = "running"
    BY DEF DiskInv, LatestInv
  <1>2. Clean(disk')
    BY DEF DiskInv, LatestInv
  <1>3. Known(disk')
    BY DEF DiskInv, LatestInv
  <1>4. QED
    BY <1>1, <1>2, <1>3 DEF DiskInv, CompleteCoversPlan

LEMMA PriorFollows ==
  ASSUME PriorInv, main # "off", main' # "off", prior' = prior, retry' = retry,
         \A e \in Plan : InRun(e)' <=> InRun(e)
  PROVE  PriorInv'
  BY DEF PriorInv

\* A step of a run after Enter: the records and verdicts go on, a worker may have
\* copied them, and the checkpoint may have been merged with a faithful copy.
LEMMA RunStepReportInv ==
  ASSUME CInv, UnderWay, UnderWay', prior' = prior, retry' = retry,
         Onward(record, verdict, record', verdict'),
         disk' \in {disk, latest'},
         \/ latest' = latest
         \/ \E s : /\ latest' = Merge(latest, s) /\ s.status = "running"
                   /\ Clean(s) /\ Faithful(s, record', verdict'),
         \A j \in Jobs :
            \/ copied'[j] = copied[j] /\ (worker'[j] \in {"records", "save"} =>
                                            worker[j] \in {"records", "save"})
            \/ /\ Clean(copied'[j]) /\ Faithful(copied'[j], record', verdict')
               /\ copied'[j].status = "running" \/ worker'[j] \notin {"records", "save"}
  PROVE  ReportInv'
  <1>1. main # "off" /\ main # "enter" /\ main' # "off" /\ main' # "enter"
    BY DEF UnderWay
  <1>2. \A e \in Plan : InRun(e)' <=> InRun(e)
    BY <1>1, PlanKeys DEF InRun, Onward
  <1>3. PriorInv'
    BY <1>1, <1>2, PriorFollows DEF CInv, ReportInv
  <1>4. FaithfulOver(latest, prior, record', verdict')
    BY FaithfulOverOnward DEF CInv, ReportInv, LatestInv
  <1>5. /\ latest.status = "running" /\ Clean(latest) /\ Known(latest)
        /\ prior.incidents \subseteq latest.incidents
    BY <1>1 DEF CInv, ReportInv, LatestInv
  <1>6. /\ latest'.status = "running" /\ Clean(latest') /\ Known(latest')
        /\ prior.incidents \subseteq latest'.incidents
        /\ FaithfulOver(latest', prior, record', verdict')
    <2>1. CASE latest' = latest
      BY <1>4, <1>5, <2>1
    <2>2. ASSUME NEW s, latest' = Merge(latest, s), s.status = "running",
                 Clean(s), Faithful(s, record', verdict')
          PROVE  /\ latest'.status = "running" /\ Clean(latest') /\ Known(latest')
                 /\ prior.incidents \subseteq latest'.incidents
                 /\ FaithfulOver(latest', prior, record', verdict')
      <3>1. Merge(latest, s).status = "running"
            /\ prior.incidents \subseteq Merge(latest, s).incidents
        BY <1>5, <2>2, MergeParts
      <3>2. latest \in Reports
        BY DEF CInv, IInv, TypeOK
      <3>3. Clean(Merge(latest, s)) /\ Known(Merge(latest, s))
        BY <1>5, <2>2, <3>2, MergeClean, MergeKnown
      <3>4. FaithfulOver(Merge(latest, s), prior, record', verdict')
        BY <1>4, <2>2, MergeFaithful
      <3>5. QED
        BY <2>2, <3>1, <3>3, <3>4
    <2>3. QED
      BY <2>1, <2>2
  <1>7. LatestInv'
    BY <1>1, <1>6 DEF LatestInv
  <1>8. DiskInv'
    BY <1>1, <1>7, DiskFollows DEF CInv, ReportInv
  <1>9. CopyInv'
    <2> SUFFICES ASSUME NEW j \in Jobs
                 PROVE  /\ Clean(copied'[j]) /\ Faithful(copied'[j], record', verdict')
                        /\ worker'[j] \in {"records", "save"} => copied'[j].status = "running"
      BY DEF CopyInv
    <2>1. CASE copied'[j] = copied[j] /\ (worker'[j] \in {"records", "save"} =>
                                            worker[j] \in {"records", "save"})
      BY <2>1, FaithfulOnward DEF CInv, ReportInv, CopyInv
    <2>2. QED
      BY <2>1
  <1>10. QED
    BY <1>3, <1>7, <1>8, <1>9 DEF ReportInv

\* Outside a run there is nothing to account for but report.json itself.
LEMMA OffRest ==
  ASSUME main' = "off", prior' = NoReport,
         \A k \in Keys : record'[k] = "absent" /\ verdict'[k] = NoVerdict,
         \A j \in Jobs : /\ copied'[j] = NoReport /\ worker'[j] = "idle"
                         /\ pending'[j] = NoVerdicts
  PROVE  PriorInv' /\ LatestInv' /\ CopyInv' /\ RunInv'
  <1>1. PriorInv'
    BY NoReportClean DEF PriorInv
  <1>2. LatestInv'
    BY DEF LatestInv, UnderWay
  <1>3. CopyInv'
    BY NoReportClean, NoReportFaithful DEF CopyInv
  <1>4. SavedInv' /\ PlanningInv'
    BY DEF SavedInv, PlanningInv, UnderWay
  <1>5. RecordInv'
    BY JobKeys, NotCompletedBacked DEF RecordInv, Outcomes
  <1>6. JobInv'
    BY DEF JobInv, NoVerdicts
  <1>7. QED
    BY <1>1, <1>2, <1>3, <1>4, <1>5, <1>6 DEF RunInv

LEMMA ExitRest ==
  ASSUME Exit
  PROVE  PriorInv' /\ LatestInv' /\ CopyInv' /\ RunInv'
  <1>1. /\ main' = "off" /\ prior' = NoReport
        /\ record' = NoRecords /\ verdict' = NoVerdicts
        /\ copied' = [j \in Jobs |-> NoReport]
        /\ worker' = [j \in Jobs |-> "idle"]
        /\ pending' = [j \in Jobs |-> NoVerdicts]
    BY DEF Exit
  <1>2. QED
    BY <1>1, OffRest DEF NoRecords, NoVerdicts

LEMMA InitCInv == Init => CInv
  <1> SUFFICES ASSUME Init
               PROVE  CInv
    OBVIOUS
  <1>1. DiskInv
    BY NoReportClean, NoReportFields, NotCompletedBacked, PlanKeys
    DEF Init, DiskInv, CompleteCoversPlan, AllBacked, Outcomes
  <1>2. PriorInv /\ LatestInv
    BY NoReportClean DEF Init, PriorInv, LatestInv, UnderWay
  <1>3. CopyInv
    BY NoReportClean, NoReportFaithful DEF Init, CopyInv
  <1>4. SavedInv /\ PlanningInv
    BY DEF Init, SavedInv, PlanningInv, UnderWay, NoRecords
  <1>5. RecordInv
    BY JobKeys, NotCompletedBacked DEF Init, RecordInv, NoRecords, NoVerdicts, Outcomes
  <1>6. JobInv
    BY DEF Init, JobInv, NoVerdicts
  <1>7. QED
    BY <1>1, <1>2, <1>3, <1>4, <1>5, <1>6, InitIInv DEF CInv, ReportInv, RunInv

-----------------------------------------------------------------------------
(* Starting, recovering and ending a run. *)

\* The selection of a first run or of a continuation.
Selects(S, from, r) ==
  \/ S = TRs /\ from = NoReport
  \/ /\ from.status # "none"
     /\ RecoverFirst => from.status # "running"
     /\ S = {t \in TRs : ~Skips(from, <<t, 0>>, r)}

\* What a continuation leaves out has completed.
LEMMA LeftOutCompleted ==
  ASSUME NEW from, NEW r, NEW e \in Plan,
         Clean(from), Known(from), Skips(from, <<e[1], 0>>, r)
  PROVE  from.record[e] \in Outcomes
  <1>1. e[1] \in TRs /\ IsCompleted(from, <<e[1], 0>>)
    BY PlanElements DEF Skips
  <1>2. CASE Variants[e[1]] = {}
    <2>1. e = <<e[1], 0>> /\ e[2] = 0
      BY <1>2, PlanElements
    <2>2. from.record[e] # "absent"
      BY <2>1 DEF Known
    <2>3. QED
      BY <1>1, <2>1, <2>2 DEF IsCompleted
  <1>3. CASE Variants[e[1]] # {}
    <2>1. <<e[1], 0>> \in Keys \ Plan
      BY <1>1, <1>3, BareRequirement
    <2>2. from.record[<<e[1], 0>>] \notin Outcomes /\ from.verdict[<<e[1], 0>>] = NoVerdict
      BY <2>1 DEF Clean
    <2>3. ~Has(NoVerdict, Outcomes)
      BY DEF Has, NoVerdict, Outcomes
    <2>4. QED
      BY <1>1, <2>2, <2>3 DEF IsCompleted
  <1>4. QED
    BY <1>2, <1>3

\* What it selects has not, unless it failed and is retried.
LEMMA SelectedNotCompleted ==
  ASSUME NEW from, NEW r, NEW e \in Plan, Variants[e[1]] = {},
         ~Skips(from, <<e[1], 0>>, r), from.record[e] \in Outcomes
  PROVE  r /\ from.record[e] \in {"fail", "error"}
  <1>1. e = <<e[1], 0>>
    BY PlanElements
  <1>2. from.record[e] # "absent"
    BY DEF Outcomes
  <1>3. IsCompleted(from, e) /\ ~Skips(from, e, r)
    BY <1>1, <1>2 DEF IsCompleted
  <1>4. r /\ IsFailed(from, e)
    BY <1>3 DEF Skips
  <1>5. QED
    BY <1>2, <1>4 DEF IsFailed

LEMMA ShellParts ==
  ASSUME NEW S
  PROVE  /\ Shell(S).status = "running" /\ Shell(S).incidents = {}
         /\ Shell(S).verdict = NoVerdicts
         /\ \A k \in Keys : Shell(S).record[k] =
              IF k \in S \X {0} THEN "queued" ELSE "absent"
         /\ Clean(Shell(S))
  <1>1. /\ Shell(S).status = "running" /\ Shell(S).incidents = {}
        /\ Shell(S).verdict = NoVerdicts
        /\ \A k \in Keys : Shell(S).record[k] =
             IF k \in S \X {0} THEN "queued" ELSE "absent"
    BY DEF Shell, NoReport
  <1>2. QED
    BY <1>1 DEF Clean, Outcomes, NoVerdicts

\* The initial report of a run.
LEMMA InitialParts ==
  ASSUME NEW S \in SUBSET TRs, NEW from \in Reports, NEW r, NEW initial,
         Clean(from), from.status # "none" => Known(from), Selects(S, from, r),
         initial = IF from = NoReport THEN Shell(S) ELSE Merge(from, Shell(S))
  PROVE  /\ initial.status = "running"
         /\ Clean(initial) /\ Known(initial)
         /\ from.incidents \subseteq initial.incidents
         /\ initial.verdict = from.verdict
         /\ \A e \in Plan : e \notin UNION {Executions(t) : t \in S} =>
                              initial.record[e] = from.record[e]
  <1>1. \A e \in Plan : e[1] \in S => e \in UNION {Executions(t) : t \in S}
    BY PlanElements
  <1>2. \A e \in Plan : e \in S \X {0} => e[1] \in S
    OBVIOUS
  <1>3. Plan \subseteq Keys
    BY PlanKeys
  <1>4. CASE from = NoReport
    <2>1. initial = Shell(S) /\ S = TRs
      BY <1>4, NoReportFields DEF Selects
    <2>2. Known(initial)
      <3> SUFFICES ASSUME NEW e \in Plan, e[2] = 0
                   PROVE  Shell(S).record[e] # "absent"
        BY <2>1 DEF Known
      <3>1. e[1] \in TRs /\ e = <<e[1], 0>>
        BY PlanElements
      <3>2. e \in S \X {0}
        BY <2>1, <3>1
      <3>3. QED
        BY <1>3, <3>2, ShellParts
    <2>3. \A e \in Plan : e \notin UNION {Executions(t) : t \in S} =>
                            initial.record[e] = from.record[e]
      BY <1>1, <1>2, <1>3, <1>4, <2>1, ShellParts, NoReportFields
    <2>4. QED
      BY <1>4, <2>1, <2>2, <2>3, ShellParts, NoReportFields
  <1>5. CASE from # NoReport
    <2>1. initial = Merge(from, Shell(S)) /\ Known(from)
      BY <1>5 DEF Selects
    <2>2. initial.status = "running" /\ from.incidents \subseteq initial.incidents
      BY <2>1, MergeParts, ShellParts
    <2>3. Clean(initial) /\ Known(initial)
      BY <2>1, MergeClean, MergeKnown, ShellParts
    <2>4. initial.verdict = from.verdict
      <3>1. from.verdict \in [Keys -> Verdicts]
        BY DEF Reports
      <3>2. \A k \in Keys : NoVerdicts[k] = NoVerdict
        BY DEF NoVerdicts
      <3>3. \A k \in Keys : OverlayVerdicts(from.verdict, NoVerdicts)[k] = from.verdict[k]
        BY <3>1, <3>2, OverlayNothing
      <3>4. OverlayVerdicts(from.verdict, NoVerdicts) \in [Keys -> Verdicts]
        BY <3>1, NoReportType, OverlayType
      <3>5. OverlayVerdicts(from.verdict, NoVerdicts) = from.verdict
        BY <3>1, <3>3, <3>4
      <3>6. QED
        BY <2>1, <3>5, MergeParts, ShellParts
    <2>5. \A e \in Plan : e \notin UNION {Executions(t) : t \in S} =>
                            initial.record[e] = from.record[e]
      BY <1>1, <1>2, <1>3, <2>1, MergeParts, ShellParts
    <2>6. QED
      BY <2>2, <2>3, <2>4, <2>5
  <1>6. QED
    BY <1>4, <1>5

LEMMA BeginCInv ==
  ASSUME CInv, NEW S \in SUBSET TRs, NEW r \in BOOLEAN,
         main = "off", Selects(S, disk, r), Begin(S, disk, r)
  PROVE  ReportInv' /\ RunInv'
  <1> DEFINE initial == IF disk = NoReport THEN Shell(S) ELSE Merge(disk, Shell(S))
             chosen == UNION {Executions(t) : t \in S}
  <1>1. PICK result \in WriteResults :
          /\ disk' = Written(disk, initial, result)
          /\ IF result = "written"
               THEN /\ main' = "enter"
                    /\ prior' = disk
                    /\ retry' = r
                    /\ latest' = initial
                    /\ scorable' = chosen
                    /\ UNCHANGED <<lastErr, cancelled, record, verdict, setups,
                                   phase, worker, pending, copied>>
               ELSE UNCHANGED <<main, memory>>
    BY DEF Begin
  <1>2. /\ disk \in Reports /\ Clean(disk) /\ (disk.status # "none" => Known(disk))
        /\ RecoverFirst /\ disk.status # "running" /\ "run-abandoned" \notin disk.incidents
             => AllBacked(disk)
    BY DEF CInv, IInv, TypeOK, ReportInv, DiskInv
  <1>3. /\ initial.status = "running" /\ Clean(initial) /\ Known(initial)
        /\ disk.incidents \subseteq initial.incidents
        /\ initial.verdict = disk.verdict
        /\ \A e \in Plan \ chosen : initial.record[e] = disk.record[e]
    BY <1>2, InitialParts
  <1> HIDE DEF initial
  <1>4. disk' \in {disk, initial}
    BY <1>1 DEF Written
  <1>5. DiskInv'
    <2>1. CASE disk' = initial
      BY <1>3, <2>1 DEF DiskInv, CompleteCoversPlan
    <2>2. CASE disk' = disk /\ disk # initial
      <3>1. result # "written"
        BY <1>1, <2>2 DEF Written
      <3>2. main' = "off"
        BY <1>1, <3>1
      <3>3. QED
        BY <2>2, <3>2 DEF CInv, ReportInv, DiskInv, CompleteCoversPlan
    <2>3. QED
      BY <1>4, <2>1, <2>2
  <1>6. CASE result = "written"
    <2>1. /\ main' = "enter" /\ prior' = disk /\ retry' = r /\ latest' = initial
          /\ scorable' = chosen
          /\ UNCHANGED <<cancelled, record, verdict, phase, worker, pending, copied>>
      BY <1>1, <1>6
    <2>2. \A e \in Plan : e \notin chosen => e[1] \notin S
      BY PlanElements
    <2>3. \A e \in Plan : e \in chosen => e[1] \in S
      BY DEF Executions
    <2> HIDE DEF chosen
    <2>4. \A e \in Plan : ~InRun(e)' => disk.record[e] \in Outcomes
      <3> SUFFICES ASSUME NEW e \in Plan, e \notin chosen
                   PROVE  disk.record[e] \in Outcomes
        BY <2>1 DEF InRun
      <3>1. e[1] \in TRs \ S
        BY <2>2, PlanElements
      <3>2. disk.status # "none" /\ Skips(disk, <<e[1], 0>>, r)
        BY <3>1 DEF Selects
      <3>3. QED
        BY <1>2, <3>2, LeftOutCompleted
    <2>5. \A e \in Plan : InRun(e)' /\ Variants[e[1]] = {} /\ disk.record[e] \in Outcomes =>
                             r /\ disk.record[e] \in {"fail", "error"}
      <3> SUFFICES ASSUME NEW e \in Plan, e \in chosen, Variants[e[1]] = {},
                          disk.record[e] \in Outcomes
                   PROVE  r /\ disk.record[e] \in {"fail", "error"}
        BY <2>1 DEF InRun
      <3>1. e[1] \in S
        BY <2>3
      <3>2. disk # NoReport
        BY NoReportFields, PlanKeys DEF Outcomes
      <3>3. ~Skips(disk, <<e[1], 0>>, r)
        BY <3>1, <3>2 DEF Selects
      <3>4. QED
        BY <3>1, <3>3, SelectedNotCompleted
    <2>6. disk = NoReport \/ Known(disk)
      BY <1>2 DEF Selects
    <2>7. RecoverFirst => disk.status # "running"
      BY NoReportFields DEF Selects
    <2>8. PriorInv'
      BY <1>2, <2>1, <2>4, <2>5, <2>6, <2>7 DEF PriorInv
    <2>9. LatestInv'
      BY <1>3, <2>1 DEF LatestInv, UnderWay
    <2>10. CopyInv'
      BY <2>1 DEF CInv, ReportInv, CopyInv
    <2>11. SavedInv' /\ PlanningInv'
      BY <2>1 DEF CInv, RunInv, SavedInv, PlanningInv, UnderWay
    <2>12. RecordInv'
      BY <2>1 DEF CInv, RunInv, RecordInv
    <2>13. JobInv'
      BY <2>1 DEF CInv, RunInv, JobInv, Active
    <2>14. QED
      BY <1>5, <2>8, <2>9, <2>10, <2>11, <2>12, <2>13 DEF ReportInv, RunInv
  <1>7. CASE result # "written"
    <2>1. main' = "off" /\ UNCHANGED memory
      BY <1>1, <1>7
    <2>2. PriorInv' /\ LatestInv' /\ CopyInv'
      BY <2>1 DEF CInv, ReportInv, PriorInv, LatestInv, CopyInv, UnderWay, InRun, memory
    <2>3. SavedInv' /\ PlanningInv'
      BY <2>1 DEF CInv, RunInv, SavedInv, PlanningInv, UnderWay, memory
    <2>4. RecordInv'
      BY <2>1 DEF CInv, RunInv, RecordInv, memory
    <2>5. JobInv'
      BY <2>1 DEF CInv, RunInv, JobInv, Active, memory
    <2>6. QED
      BY <1>5, <2>2, <2>3, <2>4, <2>5 DEF ReportInv, RunInv
  <1>8. QED
    BY <1>6, <1>7

LEMMA RecoverCInv ==
  ASSUME CInv, Recover
  PROVE  ReportInv' /\ RunInv'
  <1> DEFINE flagged == [disk EXCEPT !.incidents = @ \cup {"run-abandoned"}]
             recovered == Finalize(flagged, "abandoned")
  <1>1. disk \in Reports
    BY DEF CInv, IInv, TypeOK
  <1>2. /\ recovered.status = "abandoned" /\ "run-abandoned" \in recovered.incidents
        /\ recovered.record = disk.record /\ recovered.verdict = disk.verdict
    BY <1>1 DEF Reports, Finalize
  <1>3. main = "off" /\ disk.status = "running" /\ UNCHANGED <<part, main, memory>>
    BY DEF Recover
  <1>4. disk' \in {disk, recovered}
    BY DEF Recover, Written
  <1> HIDE DEF flagged, recovered
  <1>5. Clean(disk) /\ Known(disk)
    BY <1>3 DEF CInv, ReportInv, DiskInv
  <1>6. Clean(recovered) /\ Known(recovered)
    BY <1>2, <1>5 DEF Clean, Known
  <1>7. DiskInv'
    BY <1>2, <1>3, <1>4, <1>5, <1>6 DEF DiskInv, CompleteCoversPlan
  <1>8. PriorInv' /\ LatestInv' /\ CopyInv'
    BY <1>3 DEF CInv, ReportInv, PriorInv, LatestInv, CopyInv, UnderWay, InRun, memory
  <1>9. SavedInv' /\ PlanningInv'
    BY <1>3 DEF CInv, RunInv, SavedInv, PlanningInv, UnderWay, memory
  <1>10. RecordInv'
    BY <1>3 DEF CInv, RunInv, RecordInv, memory
  <1>11. JobInv'
    BY <1>3 DEF CInv, RunInv, JobInv, Active, memory
  <1>12. QED
    BY <1>7, <1>8, <1>9, <1>10, <1>11 DEF ReportInv, RunInv

LEMMA FinalReportParts ==
  ASSUME cancelled \in BOOLEAN
  PROVE  /\ FinalReport.verdict = verdict
         /\ FinalReport.status \in {"partial", "complete"}
         /\ \A k \in Keys : FinalReport.record[k] =
              IF record[k] = "running" THEN "aborted" ELSE record[k]
         /\ FinalReport.status = "complete" =>
              /\ ~cancelled
              /\ \A k \in Keys : FinalReport.record[k] \in {"absent", "aborted"} \cup Outcomes
  <1> DEFINE final == [k \in Keys |-> IF record[k] = "running" THEN "aborted" ELSE record[k]]
             terminal == \A k \in Keys : final[k] \in {"absent", "aborted"} \cup Outcomes
  <1>1. FinalReport = CASE cancelled -> Snapshot(final, verdict, "partial", {"run-cancelled"})
                        [] ~cancelled /\ ~terminal ->
                             Snapshot(final, verdict, "partial", {"run-incomplete"})
                        [] OTHER -> Snapshot(final, verdict, "complete", {})
    BY DEF FinalReport
  <1>2. \A k \in Keys : final[k] = IF record[k] = "running" THEN "aborted" ELSE record[k]
    OBVIOUS
  <1> HIDE DEF final
  <1>3. CASE cancelled
    <2>1. FinalReport = Snapshot(final, verdict, "partial", {"run-cancelled"})
      BY <1>1, <1>3
    <2>2. QED
      BY <1>2, <2>1, SnapshotParts
  <1>4. CASE ~cancelled /\ ~terminal
    <2>1. FinalReport = Snapshot(final, verdict, "partial", {"run-incomplete"})
      BY <1>1, <1>4
    <2>2. QED
      BY <1>2, <2>1, SnapshotParts
  <1>5. CASE ~cancelled /\ terminal
    <2>1. FinalReport = Snapshot(final, verdict, "complete", {})
      BY <1>1, <1>5
    <2>2. QED
      BY <1>2, <1>5, <2>1, SnapshotParts
  <1>6. QED
    BY <1>3, <1>4, <1>5

\* When the jobs are over, no execution is running, and every record is accounted
\* for by verdicts of the run.
LEMMA JobsAreOver ==
  ASSUME CInv, main = "jobs", \A j \in Jobs : phase[j] = "finished"
  PROVE  /\ \A k \in Keys : record[k] # "running"
         /\ \A e \in Plan : Backed(record[e], verdict[e])
         /\ \A j \in Jobs : Shows(latest, verdict, j)
  <1>1. ASSUME NEW e \in Plan
        PROVE  record[e] # "running" /\ Backed(record[e], verdict[e])
    <2>1. PICK j \in Jobs : e \in ExecutionsOf(j)
      BY PlanHasTools
    <2>2. Active(j) = {} /\ pending[j] = NoVerdicts
      BY DEF CInv, RunInv, JobInv
    <2>3. record[e] # "running"
      BY <2>1, <2>2 DEF Active
    <2>4. pending[j][e] = NoVerdict
      BY <2>2, PlanKeys DEF NoVerdicts
    <2>5. Backed(record[e], verdict[e]) \/ Backed(record[e], NoVerdict)
      BY <2>1, <2>4 DEF CInv, RunInv, RecordInv
    <2>6. ~Has(NoVerdict, Outcomes)
      BY DEF Has, NoVerdict, Outcomes
    <2>7. Backed(record[e], NoVerdict) => record[e] \notin Outcomes
      BY <2>6 DEF Backed
    <2>8. QED
      BY <2>3, <2>5, <2>7, NotCompletedBacked
  <1>2. \A k \in Keys \ Plan : record[k] # "running"
    BY DEF CInv, RunInv, RecordInv
  <1>3. \A j \in Jobs : Shows(latest, verdict, j)
    <2> SUFFICES ASSUME NEW j \in Jobs
                 PROVE  Shows(latest, verdict, j)
      OBVIOUS
    <2>1. worker[j] = "idle"
      BY DEF CInv, RunInv, JobInv
    <2>2. QED
      BY <2>1 DEF CInv, RunInv, SavedInv
  <1>4. QED
    BY <1>1, <1>2, <1>3

\* What the latest checkpoint then has as completed, it has verdicts for, if the
\* prior report had.
LEMMA LatestBacked ==
  ASSUME CInv, main = "jobs", \A j \in Jobs : phase[j] = "finished", AllBacked(prior)
  PROVE  AllBacked(latest)
  <1> SUFFICES ASSUME NEW e \in Plan
               PROVE  Backed(latest.record[e], latest.verdict[e])
    BY DEF AllBacked
  <1>1. FaithfulOver(latest, prior, record, verdict)
    BY DEF CInv, ReportInv, LatestInv, UnderWay
  <1>2. e \in Keys
    BY PlanKeys
  <1>3. CASE record[e] = "absent"
    <2>1. latest.record[e] = prior.record[e]
      BY <1>1, <1>3 DEF FaithfulOver
    <2>2. verdict[e] = NoVerdict
      BY <1>2, <1>3 DEF CInv, RunInv, RecordInv
    <2>3. \A i \in Items : latest.verdict[e][i] = prior.verdict[e][i]
      BY <1>1, <1>2, <2>2 DEF FaithfulOver, NoVerdict
    <2>4. Backed(prior.record[e], prior.verdict[e])
      BY DEF AllBacked
    <2>5. QED
      BY <2>1, <2>3, <2>4 DEF Backed, Has
  <1>4. CASE record[e] # "absent" /\ latest.record[e] \in Outcomes
    <2>1. latest.record[e] = record[e]
      BY <1>1, <1>2, <1>4 DEF FaithfulOver
    <2>2. Backed(record[e], verdict[e])
      BY JobsAreOver
    <2>3. PICK j \in Jobs : e \in ExecutionsOf(j)
      BY PlanHasTools
    <2>4. \A i \in Items : verdict[e][i] \in Outcomes => latest.verdict[e][i] = verdict[e][i]
      BY <2>3, JobsAreOver DEF Shows, Outcomes
    <2>5. {"fail", "error"} \subseteq Outcomes
      BY DEF Outcomes
    <2>6. QED
      BY <2>1, <2>2, <2>4, <2>5 DEF Backed, Has
  <1>5. CASE latest.record[e] \notin Outcomes
    BY <1>5, NotCompletedBacked
  <1>6. QED
    BY <1>3, <1>4, <1>5

\* The report a run ends with.
LEMMA FinalParts ==
  ASSUME CInv, main = "jobs", \A j \in Jobs : phase[j] = "finished", NEW final,
         final = IF prior = NoReport THEN FinalReport ELSE Merge(prior, FinalReport)
  PROVE  /\ Clean(final) /\ Known(final)
         /\ final.status \in {"partial", "complete"}
         /\ prior.incidents \subseteq final.incidents
         /\ \A e \in Plan : final.record[e] =
              IF record[e] = "absent" THEN prior.record[e] ELSE record[e]
         /\ AllBacked(prior) => AllBacked(final)
         /\ final.status = "complete" => \A e \in Plan : final.record[e] \in Outcomes
  <1>1. /\ FinalReport.verdict = verdict
        /\ FinalReport.status \in {"partial", "complete"}
        /\ \A k \in Keys : FinalReport.record[k] = record[k]
        /\ FinalReport.status = "complete" =>
             /\ ~cancelled
             /\ \A k \in Keys : record[k] \in {"absent", "aborted"} \cup Outcomes
    <2>1. cancelled \in BOOLEAN
      BY DEF CInv, IInv, TypeOK
    <2>2. \A k \in Keys : record[k] # "running"
      BY JobsAreOver
    <2>3. QED
      BY <2>1, <2>2, FinalReportParts
  <1>2. Plan \subseteq Keys
    BY PlanKeys
  <1>3. /\ Clean(prior) /\ (prior = NoReport \/ Known(prior))
        /\ \A e \in Plan : record[e] = "absent" => prior.record[e] \in Outcomes
    BY DEF CInv, ReportInv, PriorInv, InRun
  <1>4. \A k \in Keys \ Plan : record[k] = "absent" /\ verdict[k] = NoVerdict
    BY DEF CInv, RunInv, RecordInv
  <1>5. Clean(FinalReport)
    BY <1>1, <1>4 DEF Clean, Outcomes
  <1>6. /\ final.status = FinalReport.status
        /\ prior.incidents \subseteq final.incidents
        /\ Clean(final)
        /\ \A e \in Plan : final.record[e] =
             IF record[e] = "absent" THEN prior.record[e] ELSE record[e]
        /\ \A e \in Plan : final.verdict[e] = verdict[e]
                           \/ final.verdict[e] = OverlayVerdicts(prior.verdict, verdict)[e]
        /\ \A e \in Plan : record[e] = "absent" => final.verdict[e] = prior.verdict[e]
    <2>1. CASE prior = NoReport
      <3>1. \A e \in Plan : record[e] # "absent"
        BY <1>2, <1>3, <2>1, NoReportFields DEF Outcomes
      <3>2. QED
        BY <1>1, <1>2, <1>5, <2>1, <3>1, NoReportFields
    <2>2. CASE prior # NoReport
      <3>1. final = Merge(prior, FinalReport)
        BY <2>2
      <3>2. prior \in Reports /\ prior.verdict \in [Keys -> Verdicts]
        BY DEF CInv, IInv, TypeOK, Reports
      <3>3. Clean(final)
        BY <1>3, <1>5, <3>1, <3>2, MergeClean
      <3>4. final.verdict = OverlayVerdicts(prior.verdict, verdict)
        BY <1>1, <3>1, MergeParts
      <3>5. \A e \in Plan : record[e] = "absent" => verdict[e] = NoVerdict
        BY <1>2 DEF CInv, RunInv, RecordInv
      <3>6. \A e \in Plan : record[e] = "absent" => final.verdict[e] = prior.verdict[e]
        BY <1>2, <3>2, <3>4, <3>5, OverlayNothing
      <3>7. QED
        BY <1>1, <1>2, <3>1, <3>3, <3>4, <3>6, MergeParts
    <2>3. QED
      BY <2>1, <2>2
  <1>7. Known(final)
    <2> SUFFICES ASSUME NEW e \in Plan, e[2] = 0
                 PROVE  final.record[e] # "absent"
      BY DEF Known
    <2>1. record[e] = "absent" => prior.record[e] # "absent"
      BY <1>3 DEF Outcomes
    <2>2. QED
      BY <1>6, <2>1
  <1>8. ASSUME AllBacked(prior), NEW e \in Plan
        PROVE  Backed(final.record[e], final.verdict[e])
    <2>1. CASE record[e] = "absent"
      BY <1>6, <1>8, <2>1 DEF AllBacked
    <2>2. CASE record[e] # "absent"
      <3>1. Backed(record[e], verdict[e])
        BY JobsAreOver
      <3>2. Backed(record[e], OverlayVerdicts(prior.verdict, verdict)[e])
        BY <1>2, <3>1, OverlayBacked
      <3>3. QED
        BY <1>6, <2>2, <3>1, <3>2
    <2>3. QED
      BY <2>1, <2>2
  <1>9. ASSUME final.status = "complete", NEW e \in Plan
        PROVE  final.record[e] \in Outcomes
    <2>1. ~cancelled /\ record[e] \in {"absent", "aborted"} \cup Outcomes
      BY <1>1, <1>2, <1>6, <1>9
    <2>2. record[e] # "aborted"
      BY <1>2, <2>1 DEF CInv, RunInv, RecordInv
    <2>3. QED
      BY <1>3, <1>6, <2>1, <2>2
  <1>10. QED
    BY <1>1, <1>6, <1>7, <1>8, <1>9 DEF AllBacked

LEMMA ConcludeCInv ==
  ASSUME CInv, Conclude
  PROVE  ReportInv' /\ RunInv'
  <1> DEFINE final == IF prior = NoReport THEN FinalReport ELSE Merge(prior, FinalReport)
             fallback == Finalize(latest, "partial")
  <1>1. main = "jobs" /\ \A j \in Jobs : phase[j] = "finished"
    BY DEF Conclude
  <1>2. PriorInv' /\ LatestInv' /\ CopyInv' /\ RunInv'
    BY ExitRest DEF Conclude
  <1>3. main' = "off"
    BY DEF Conclude, Exit
  <1>4. /\ Clean(final) /\ Known(final)
        /\ prior.incidents \subseteq final.incidents
        /\ AllBacked(prior) => AllBacked(final)
        /\ final.status = "complete" => \A e \in Plan : final.record[e] \in Outcomes
    BY <1>1, FinalParts
  <1>5. /\ Clean(latest) /\ Known(latest)
        /\ prior.incidents \subseteq latest.incidents
        /\ AllBacked(prior) => AllBacked(latest)
    BY <1>1, LatestBacked DEF CInv, ReportInv, LatestInv
  <1>6. /\ fallback.status = "partial" /\ fallback.incidents = latest.incidents
        /\ fallback.record = latest.record /\ fallback.verdict = latest.verdict
    BY DEF Finalize, CInv, IInv, TypeOK, Reports
  <1>7. /\ RecoverFirst /\ "run-abandoned" \notin prior.incidents => AllBacked(prior)
        /\ disk.status = "running" /\ Clean(disk) /\ Known(disk)
    BY <1>1 DEF CInv, ReportInv, PriorInv, DiskInv
  <1>8. disk' \in {disk, final, fallback}
    BY DEF Conclude, Written
  <1> HIDE DEF final, fallback
  <1>9. Clean(fallback) /\ Known(fallback) /\ (AllBacked(latest) => AllBacked(fallback))
    BY <1>5, <1>6 DEF Clean, Known, AllBacked
  <1>10. DiskInv'
    <2>1. CASE disk' = disk
      BY <1>3, <1>7, <2>1 DEF DiskInv, CompleteCoversPlan
    <2>2. CASE disk' = final
      BY <1>3, <1>4, <1>7, <2>2 DEF DiskInv, CompleteCoversPlan
    <2>3. CASE disk' = fallback
      BY <1>3, <1>5, <1>6, <1>7, <1>9, <2>3 DEF DiskInv, CompleteCoversPlan
    <2>4. QED
      BY <1>8, <2>1, <2>2, <2>3
  <1>11. QED
    BY <1>2, <1>10 DEF ReportInv

-----------------------------------------------------------------------------
(* The steps before the jobs. *)

LEMMA EnterCInv ==
  ASSUME CInv, Enter
  PROVE  ReportInv' /\ RunInv'
  <1> DEFINE s == Snapshot(record', verdict, "running", {})
  <1>1. /\ main = "enter" /\ main' = "classify"
        /\ record' = [k \in Keys |-> IF k \in scorable THEN "queued" ELSE "absent"]
        /\ UNCHANGED <<part, prior, retry, cancelled, verdict, scorable, setups, phase,
                       worker, pending, copied>>
    BY DEF Enter
  <1>2. /\ \A k \in Keys : record[k] = "absent" /\ verdict[k] = NoVerdict
        /\ \A k \in Keys : record'[k] = IF k \in scorable THEN "queued" ELSE "absent"
        /\ scorable \subseteq Plan /\ Plan \subseteq Keys
    BY <1>1, PlanKeys
    DEF CInv, IInv, TypeOK, EarlyInv, NoVerdicts, RunInv, PlanningInv
  <1>3. \A j \in Jobs, k \in Keys : pending[j][k] = NoVerdict
    BY <1>1 DEF CInv, RunInv, JobInv, NoVerdicts
  <1>4. latest' = Merge(latest, s) /\ disk' \in {disk, latest'}
    BY SaveParts DEF Enter
  <1>5. \A e \in Plan : InRun(e)' <=> InRun(e)
    BY <1>1, <1>2 DEF InRun
  <1>6. PriorInv'
    BY <1>1, <1>5, PriorFollows DEF CInv, ReportInv
  <1>7. LatestInv'
    <2>1. latest \in Reports /\ Clean(latest) /\ Known(latest)
          /\ prior.incidents \subseteq latest.incidents
      BY <1>1 DEF CInv, IInv, TypeOK, ReportInv, LatestInv
    <2>2. Clean(s)
      BY <1>2, SnapshotClean DEF Outcomes
    <2>3. /\ s.status = "running" /\ s.incidents = {}
          /\ s.record = record' /\ s.verdict = verdict
      BY SnapshotParts
    <2> HIDE DEF s
    <2>4. /\ latest'.status = "running" /\ Clean(latest') /\ Known(latest')
          /\ prior.incidents \subseteq latest'.incidents
      BY <1>4, <2>1, <2>2, <2>3, MergeClean, MergeKnown, MergeParts
    <2>5. /\ \A e \in Plan : record'[e] = "absent" => latest'.record[e] = prior.record[e]
          /\ \A k \in Keys : record'[k] # "absent" => latest'.record[k] = record'[k]
          /\ \A k \in Keys, i \in Items : latest'.verdict[k][i] = prior.verdict[k][i]
      <3>1. ASSUME NEW e \in Plan, record'[e] = "absent"
            PROVE  latest'.record[e] = prior.record[e]
        <4>1. e \notin scorable /\ e \in Keys
          BY <1>2, <3>1
        <4>2. latest'.record[e] = latest.record[e]
          BY <1>4, <2>3, <3>1, <4>1, MergeParts
        <4>3. QED
          BY <1>1, <4>1, <4>2 DEF CInv, ReportInv, LatestInv
      <3>2. \A k \in Keys : record'[k] # "absent" => latest'.record[k] = record'[k]
        BY <1>4, <2>3, MergeParts
      <3>3. ASSUME NEW k \in Keys, NEW i \in Items
            PROVE  latest'.verdict[k][i] = prior.verdict[k][i]
        <4>1. s.verdict[k][i] = "none"
          BY <1>2, <2>3 DEF NoVerdict
        <4>2. latest'.verdict[k][i] = latest.verdict[k][i]
          BY <1>4, <4>1, MergeParts
        <4>3. QED
          BY <1>1, <4>2 DEF CInv, ReportInv, LatestInv
      <3>4. QED
        BY <3>1, <3>2, <3>3
    <2>6. FaithfulOver(latest', prior', record', verdict')
      BY <1>1, <2>5 DEF FaithfulOver
    <2>7. QED
      BY <1>1, <2>4, <2>6 DEF LatestInv
  <1>8. DiskInv'
    BY <1>1, <1>4, <1>7, DiskFollows DEF CInv, ReportInv
  <1>9. CopyInv'
    <2>1. ASSUME NEW j \in Jobs
          PROVE  Faithful(copied[j], record', verdict')
      <3>1. Faithful(copied[j], record, verdict)
        BY DEF CInv, ReportInv, CopyInv
      <3>2. QED
        BY <1>1, <1>2, <3>1 DEF Faithful, Outcomes
    <2>2. QED
      BY <1>1, <2>1 DEF CInv, ReportInv, CopyInv
  <1>10. SavedInv'
    BY <1>1 DEF SavedInv
  <1>11. PlanningInv'
    BY <1>1, <1>2 DEF PlanningInv, UnderWay
  <1>12. RecordInv'
    <2>1. \A j \in Jobs : \A e \in ExecutionsOf(j) : Backed(record'[e], verdict'[e])
      BY <1>2, JobKeys, NotCompletedBacked DEF Outcomes
    <2>2. QED
      BY <1>1, <1>2, <2>1 DEF RecordInv
  <1>13. JobInv'
    BY <1>1, <1>3 DEF CInv, RunInv, JobInv, Active, IInv, MemoryInv
  <1>14. QED
    BY <1>6, <1>7, <1>8, <1>9, <1>10, <1>11, <1>12, <1>13 DEF ReportInv, RunInv

\* A checkpoint of the main goroutine, of its records and verdicts or of earlier ones.
LEMMA MainStepReportInv ==
  ASSUME CInv, UnderWay, UnderWay', NEW rec, NEW ver,
         Save(Snapshot(rec, ver, "running", {})),
         Clean(Snapshot(rec, ver, "running", {})),
         Onward(rec, ver, record', verdict'),
         Onward(record, verdict, record', verdict'),
         prior' = prior, retry' = retry, copied' = copied, worker' = worker
  PROVE  ReportInv'
  <1>1. /\ latest' = Merge(latest, Snapshot(rec, ver, "running", {}))
        /\ disk' \in {disk, latest'}
    BY SaveParts
  <1>2. Snapshot(rec, ver, "running", {}).status = "running"
    BY SnapshotParts
  <1>3. Faithful(Snapshot(rec, ver, "running", {}), record', verdict')
    BY SnapshotIsFaithful, FaithfulOnward
  <1>4. \E s : /\ latest' = Merge(latest, s) /\ s.status = "running"
               /\ Clean(s) /\ Faithful(s, record', verdict')
    BY <1>1, <1>2, <1>3
  <1>5. QED
    BY <1>1, <1>4, RunStepReportInv

LEMMA OnwardReflexive ==
  ASSUME NEW rec, NEW ver
  PROVE  Onward(rec, ver, rec, ver)
  BY DEF Onward

LEMMA ClassifyCInv ==
  ASSUME CInv, Classify
  PROVE  ReportInv' /\ RunInv'
  <1> DEFINE skips == {e \in scorable : e[1] \in NotRunnable}
             errors == {e \in scorable \ skips : e[1] \in MissingParams}
  <1>1. /\ main = "classify" /\ main' = "setup"
        /\ verdict' = [k \in Keys |-> CASE k \in skips  -> Uniform("skip")
                                        [] k \in errors -> Uniform("error")
                                        [] OTHER        -> verdict[k]]
        /\ record' = [k \in Keys |-> CASE k \in skips  -> "skip"
                                       [] k \in errors -> "error"
                                       [] OTHER        -> record[k]]
        /\ scorable' = scorable \ (skips \cup errors)
        /\ Save(Snapshot(record', verdict', "running", {}))
        /\ UNCHANGED <<part, prior, retry, cancelled, phase, worker, pending, copied>>
    BY DEF Classify
  <1>2. skips \cap errors = {} /\ skips \subseteq scorable /\ errors \subseteq scorable
        /\ \A e \in skips : e[1] \in NotRunnable
    OBVIOUS
  <1>3. /\ \A k \in Keys : record[k] \in {"absent", "queued"} /\ verdict[k] = NoVerdict
        /\ \A k \in Keys \ Plan : record[k] = "absent"
        /\ \A e \in scorable : record[e] # "absent"
        /\ scorable \subseteq Plan /\ Plan \subseteq Keys
    BY <1>1, PlanKeys
    DEF CInv, IInv, TypeOK, EarlyInv, NoVerdicts, RunInv, PlanningInv, RecordInv, UnderWay
  <1> HIDE DEF skips, errors
  <1>4. /\ \A k \in skips : record'[k] = "skip" /\ verdict'[k] = Uniform("skip")
        /\ \A k \in errors : record'[k] = "error" /\ verdict'[k] = Uniform("error")
        /\ \A k \in Keys : k \notin skips \cup errors =>
             record'[k] = record[k] /\ verdict'[k] = verdict[k]
    BY <1>1, <1>2, <1>3
  <1>5. Onward(record, verdict, record', verdict')
    BY <1>2, <1>3, <1>4 DEF Onward, Outcomes, NoVerdict
  <1>6. Clean(Snapshot(record', verdict', "running", {}))
    <2>1. \A k \in Keys \ Plan : record'[k] \notin Outcomes /\ verdict'[k] = NoVerdict
      BY <1>2, <1>3, <1>4 DEF Outcomes
    <2>2. QED
      BY <2>1, SnapshotClean
  <1>7. ReportInv'
    <2>1. UnderWay /\ UnderWay'
      BY <1>1 DEF UnderWay
    <2>2. Onward(record', verdict', record', verdict')
      BY OnwardReflexive
    <2>3. QED
      BY <1>1, <1>5, <1>6, <2>1, <2>2, MainStepReportInv
  <1>8. SavedInv'
    BY <1>1 DEF SavedInv
  <1>9. PlanningInv'
    <2>1. \A e \in scorable' : record'[e] # "absent"
      BY <1>1, <1>2, <1>3, <1>4
    <2>2. \A e \in Plan : /\ record'[e] \in {"absent", "queued", "skip", "error", "aborted"}
                          /\ record'[e] = "skip" => e[1] \in NotRunnable
                          /\ record'[e] \in {"error", "aborted"} => verdict'[e] = Uniform("error")
      BY <1>2, <1>3, <1>4
    <2>3. QED
      BY <1>1, <2>1, <2>2 DEF PlanningInv
  <1>10. RecordInv'
    <2>1. \A k \in Keys \ Plan : record'[k] = "absent"
      BY <1>2, <1>3, <1>4
    <2>2. \A k \in Keys : record'[k] \notin {"aborted", "running"}
      BY <1>2, <1>3, <1>4
    <2>3. \A k \in Keys : record'[k] \in {"absent", "queued", "running"} =>
                            verdict'[k] = NoVerdict
      BY <1>2, <1>3, <1>4
    <2>4. \A k \in Keys : Backed(record'[k], verdict'[k])
      <3>1. Backed("skip", Uniform("skip")) /\ Backed("error", Uniform("error"))
        BY UniformBacked DEF Outcomes
      <3>2. QED
        BY <1>3, <1>4, <3>1, NotCompletedBacked DEF Outcomes
    <2>5. QED
      BY <1>1, <2>1, <2>2, <2>3, <2>4, JobKeys DEF RecordInv
  <1>11. JobInv'
    <2>1. \A j \in Jobs, k \in Keys : pending[j][k] = NoVerdict
      BY <1>1 DEF CInv, RunInv, JobInv, NoVerdicts
    <2>2. QED
      BY <1>1, <2>1 DEF CInv, RunInv, JobInv
  <1>12. QED
    BY <1>7, <1>8, <1>9, <1>10, <1>11 DEF RunInv

\* The run's records and verdicts, as they are before the jobs, have nothing of
\* what is outside the plan.
LEMMA RunClean ==
  ASSUME CInv
  PROVE  Clean(Snapshot(record, verdict, "running", {}))
  <1>1. \A k \in Keys \ Plan : record[k] \notin Outcomes /\ verdict[k] = NoVerdict
    BY DEF CInv, RunInv, RecordInv, Outcomes
  <1>2. QED
    BY <1>1, SnapshotClean

LEMMA RunSetupCInv ==
  ASSUME CInv, RunSetup
  PROVE  ReportInv' /\ RunInv'
  <1>1. /\ main = "setup" /\ main' = "setup" /\ Checkpoint
        /\ UNCHANGED <<part, prior, retry, cancelled, phase, worker, pending, copied>>
    BY DEF RunSetup
  <1>2. PICK s \in setups :
          \/ UNCHANGED <<verdict, record, scorable>>
          \/ /\ verdict' = [k \in Keys |-> IF k \in SetupExecutions(s)
                                             THEN Uniform("error") ELSE verdict[k]]
             /\ record' = [k \in Keys |-> IF k \in SetupExecutions(s)
                                            THEN IF cancelled /\ record[k] = "queued"
                                                   THEN "aborted"
                                                 ELSE IF cancelled THEN record[k]
                                                 ELSE "error"
                                            ELSE record[k]]
             /\ scorable' = {e \in scorable : e[1] \notin SetupScopes[s]}
    BY DEF RunSetup
  <1>3. UnderWay /\ UnderWay'
    BY <1>1 DEF UnderWay
  <1>4. \A e \in SetupExecutions(s) : e \in Plan /\ e \in Keys /\ record[e] # "absent"
                                      /\ e[1] \notin NotRunnable
    BY PlanKeys DEF SetupExecutions
  <1>5. /\ \A e \in Plan : /\ record[e] \in {"absent", "queued", "skip", "error", "aborted"}
                           /\ record[e] = "skip" => e[1] \in NotRunnable
                           /\ record[e] \in {"error", "aborted"} => verdict[e] = Uniform("error")
        /\ \A e \in scorable : record[e] # "absent"
    BY <1>1 DEF CInv, RunInv, PlanningInv, UnderWay
  <1>6. /\ \A k \in Keys \ Plan : record[k] = "absent"
        /\ \A k \in Keys : record[k] = "aborted" => cancelled
        /\ \A k \in Keys : record[k] # "running"
        /\ \A k \in Keys : record[k] \in {"absent", "queued"} => verdict[k] = NoVerdict
    BY <1>1 DEF CInv, RunInv, RecordInv
  <1>7. /\ \A j \in Jobs : pending[j] = NoVerdicts
        /\ \A j \in Jobs, k \in Keys : pending[j][k] = NoVerdict
    BY <1>1 DEF CInv, RunInv, JobInv, NoVerdicts
  <1>8. \A j \in Jobs : worker[j] = "idle"
    BY <1>1 DEF CInv, IInv, MemoryInv
  <1>9. CASE UNCHANGED <<verdict, record, scorable>>
    <2>1. ReportInv'
      <3>1. Onward(record, verdict, record', verdict')
        BY <1>9, OnwardReflexive
      <3>2. QED
        BY <1>1, <1>3, <3>1, RunClean, MainStepReportInv DEF Checkpoint
    <2>2. SavedInv' /\ PlanningInv'
      BY <1>1, <1>9 DEF SavedInv, PlanningInv, CInv, RunInv, UnderWay
    <2>3. RecordInv' /\ JobInv'
      BY <1>1, <1>9 DEF CInv, RunInv, RecordInv, JobInv, Active
    <2>4. QED
      BY <2>1, <2>2, <2>3 DEF RunInv
  <1>10. CASE
          /\ verdict' = [k \in Keys |-> IF k \in SetupExecutions(s)
                                          THEN Uniform("error") ELSE verdict[k]]
          /\ record' = [k \in Keys |-> IF k \in SetupExecutions(s)
                                         THEN IF cancelled /\ record[k] = "queued"
                                                THEN "aborted"
                                              ELSE IF cancelled THEN record[k]
                                              ELSE "error"
                                         ELSE record[k]]
          /\ scorable' = {e \in scorable : e[1] \notin SetupScopes[s]}
    <2> DEFINE failed == SetupExecutions(s)
    <2>1. /\ \A k \in Keys : k \notin failed => record'[k] = record[k] /\ verdict'[k] = verdict[k]
          /\ \A k \in failed : record'[k] \in {"error", "aborted"} /\ verdict'[k] = Uniform("error")
          /\ \A k \in failed : record'[k] = "aborted" => cancelled
          /\ \A k \in failed : record[k] = "error" => record'[k] = "error"
          /\ \A k \in failed : record[k] \in {"queued", "error", "aborted"}
      BY <1>4, <1>5, <1>6, <1>10
    <2>2. scorable' \subseteq scorable
      BY <1>10
    <2>3. scorable \subseteq Plan /\ Plan \subseteq Keys
      BY PlanKeys DEF CInv, IInv, TypeOK
    <2> HIDE DEF failed
    <2>4. failed \subseteq Plan
      BY <1>4 DEF failed
    <2>5. Onward(record, verdict, record', verdict')
      <3> SUFFICES ASSUME NEW k \in failed
                   PROVE  /\ record'[k] # "absent" /\ record[k] # "absent"
                          /\ record[k] \in Outcomes => record'[k] = record[k]
                          /\ \A i \in Items : verdict[k][i] # "none" =>
                                                verdict'[k][i] = verdict[k][i]
        BY <2>1 DEF Onward
      <3>1. k \in Keys /\ k \in Plan
        BY <2>3, <2>4
      <3>2. CASE record[k] = "queued"
        <4>1. verdict[k] = NoVerdict
          BY <1>6, <3>1, <3>2
        <4>2. QED
          BY <2>1, <3>2, <4>1 DEF NoVerdict, Outcomes
      <3>3. CASE record[k] \in {"error", "aborted"}
        <4>1. verdict[k] = Uniform("error")
          BY <1>5, <3>1, <3>3
        <4>2. QED
          BY <2>1, <3>3, <4>1 DEF Outcomes
      <3>4. QED
        BY <2>1, <3>2, <3>3
    <2>6. ReportInv'
      BY <1>1, <1>3, <2>5, RunClean, MainStepReportInv DEF Checkpoint
    <2>7. SavedInv'
      BY <1>1 DEF SavedInv
    <2>8. PlanningInv'
      <3>1. \A e \in scorable' : record'[e] # "absent"
        BY <1>5, <2>1, <2>2, <2>3
      <3>2. \A e \in Plan :
              /\ record'[e] \in {"absent", "queued", "skip", "error", "aborted"}
              /\ record'[e] = "skip" => e[1] \in NotRunnable
              /\ record'[e] \in {"error", "aborted"} => verdict'[e] = Uniform("error")
        BY <1>5, <2>1, <2>3
      <3>3. QED
        BY <1>1, <3>1, <3>2 DEF PlanningInv
    <2>9. RecordInv'
      <3>1. /\ \A k \in Keys \ Plan : record'[k] = "absent"
            /\ \A k \in Keys : record'[k] = "aborted" => cancelled
            /\ \A k \in Keys : record'[k] # "running"
            /\ \A k \in Keys : record'[k] \in {"absent", "queued", "running"} =>
                                 verdict'[k] = NoVerdict
        BY <1>6, <2>1, <2>4
      <3>2. ASSUME NEW j \in Jobs, NEW e \in ExecutionsOf(j)
            PROVE  Backed(record'[e], verdict'[e]) \/ Backed(record'[e], pending[j][e])
        <4>1. e \in Keys
          BY JobKeys
        <4>2. CASE e \in failed
          <5>1. Backed("error", Uniform("error"))
            BY UniformBacked DEF Outcomes
          <5>2. record'[e] = "error" \/ record'[e] \notin Outcomes
            BY <2>1, <4>2 DEF Outcomes
          <5>3. QED
            BY <2>1, <4>2, <5>1, <5>2, NotCompletedBacked
        <4>3. CASE e \notin failed
          BY <2>1, <4>1, <4>3 DEF CInv, RunInv, RecordInv
        <4>4. QED
          BY <4>2, <4>3
      <3>3. QED
        BY <1>1, <3>1, <3>2 DEF RecordInv
    <2>10. JobInv'
      BY <1>1, <1>7, <1>8 DEF JobInv
    <2>11. QED
      BY <2>6, <2>7, <2>8, <2>9, <2>10 DEF RunInv
  <1>11. QED
    BY <1>2, <1>9, <1>10

LEMMA ScheduleCInv ==
  ASSUME CInv, Schedule
  PROVE  ReportInv' /\ RunInv'
  <1> DEFINE s == Snapshot(record, verdict, "running", {})
  <1>1. /\ main = "setup" /\ main' = "jobs" /\ Save(s)
        /\ UNCHANGED <<part, prior, retry, cancelled, record, verdict, scorable, setups,
                       worker, pending, copied>>
    BY DEF Schedule, Checkpoint
  <1>2. UnderWay /\ UnderWay'
    BY <1>1 DEF UnderWay
  <1>3. Onward(record, verdict, record', verdict')
    BY <1>1, OnwardReflexive
  <1>4. ReportInv'
    BY <1>1, <1>2, <1>3, RunClean, MainStepReportInv
  <1>5. SavedInv'
    <2>1. latest' = Merge(latest, s)
      BY <1>1, SaveParts
    <2>2. Faithful(s, record, verdict) /\ \A j \in Jobs : Shows(s, verdict, j)
      BY SnapshotIsFaithful, SnapshotParts
    <2> HIDE DEF s
    <2>3. \A j \in Jobs : Shows(latest', verdict, j)
      BY <2>1, <2>2, MergeShows
    <2>4. QED
      BY <1>1, <2>3 DEF SavedInv
  <1>6. PlanningInv'
    BY <1>1, <1>2 DEF CInv, RunInv, PlanningInv, UnderWay
  <1>7. RecordInv'
    BY <1>1 DEF CInv, RunInv, RecordInv
  <1>8. JobInv'
    <2>1. \A k \in Keys : record[k] # "running"
      BY <1>1 DEF CInv, RunInv, RecordInv
    <2>2. \A j \in Jobs : Active(j)' = {}
      BY <1>1, <2>1, JobKeys DEF Active
    <2>3. \A j \in Jobs : worker[j] = "idle" /\ pending[j] = NoVerdicts
      BY <1>1 DEF CInv, IInv, MemoryInv, RunInv, JobInv
    <2>4. \A j \in Jobs, k \in Keys : pending[j][k] = NoVerdict
      BY <2>3 DEF NoVerdicts
    <2>5. QED
      BY <1>1, <2>2, <2>3, <2>4 DEF JobInv
  <1>9. QED
    BY <1>4, <1>5, <1>6, <1>7, <1>8 DEF RunInv

-----------------------------------------------------------------------------
(* The steps of a worker. *)

\* A worker's step leaves the plan of the run alone, and, unless it saves, the reports.
LEMMA WorkerStepReportInv ==
  ASSUME CInv, main = "jobs", main' = "jobs",
         prior' = prior, retry' = retry, scorable' = scorable,
         Onward(record, verdict, record', verdict'),
         disk' = disk, latest' = latest,
         \A j \in Jobs :
            \/ copied'[j] = copied[j] /\ (worker'[j] \in {"records", "save"} =>
                                            worker[j] \in {"records", "save"})
            \/ /\ Clean(copied'[j]) /\ Faithful(copied'[j], record', verdict')
               /\ copied'[j].status = "running"
  PROVE  ReportInv' /\ PlanningInv'
  <1>1. UnderWay /\ UnderWay'
    BY DEF UnderWay
  <1>2. ReportInv'
    BY <1>1, RunStepReportInv
  <1>3. \A e \in scorable : e \in Keys /\ record[e] # "absent"
    BY <1>1, PlanKeys DEF CInv, IInv, TypeOK, RunInv, PlanningInv
  <1>4. PlanningInv'
    BY <1>3 DEF PlanningInv, Onward
  <1>5. QED
    BY <1>2, <1>4

\* What a worker does to one execution of its job that has no verdict yet.
LEMMA OneRecordOnward ==
  ASSUME CInv, NEW e \in Keys, record[e] \in {"queued", "running"}, NEW o, o # "absent",
         record' = [record EXCEPT ![e] = o], verdict' = verdict
  PROVE  /\ Onward(record, verdict, record', verdict')
         /\ record'[e] = o /\ \A k \in Keys : k # e => record'[k] = record[k]
  <1>1. record'[e] = o /\ \A k \in Keys : k # e => record'[k] = record[k]
    BY DEF CInv, IInv, TypeOK
  <1>2. QED
    BY <1>1 DEF Onward, Outcomes

LEMMA StartJobCInv ==
  ASSUME CInv, NEW j \in Jobs, StartJob(j)
  PROVE  ReportInv' /\ RunInv'
  <1>1. /\ main = "jobs" /\ main' = "jobs" /\ phase[j] = "waiting"
        /\ phase' = [phase EXCEPT ![j] = "running"]
        /\ worker' = [worker EXCEPT ![j] = "ready"]
        /\ UNCHANGED <<disk, part, prior, retry, latest, lastErr, cancelled, record,
                       verdict, scorable, setups, pending, copied>>
    BY DEF StartJob, Sched!Start
  <1>2. /\ worker \in [Jobs -> Workers] /\ phase \in [Jobs -> {"waiting", "running", "finished"}]
        /\ worker[j] = "idle"
    BY <1>1 DEF CInv, IInv, TypeOK, RunInv, JobInv
  <1>3. /\ worker'[j] = "ready" /\ phase'[j] = "running"
        /\ \A i \in Jobs : i # j => worker'[i] = worker[i] /\ phase'[i] = phase[i]
    BY <1>1, <1>2
  <1>4. Onward(record, verdict, record', verdict')
    BY <1>1, OnwardReflexive
  <1>5. \A i \in Jobs : copied'[i] = copied[i] /\ (worker'[i] \in {"records", "save"} =>
                                                     worker[i] \in {"records", "save"})
    BY <1>1, <1>3
  <1>6. ReportInv' /\ PlanningInv'
    BY <1>1, <1>4, <1>5, WorkerStepReportInv
  <1>7. SavedInv'
    BY <1>1, <1>2, <1>3 DEF CInv, RunInv, SavedInv
  <1>8. RecordInv'
    BY <1>1 DEF CInv, RunInv, RecordInv
  <1>9. JobInv'
    BY <1>1, <1>3 DEF CInv, RunInv, JobInv, Active
  <1>10. QED
    BY <1>6, <1>7, <1>8, <1>9 DEF RunInv

LEMMA StartExecutionCInv ==
  ASSUME CInv, NEW j \in Jobs, StartExecution(j), main = "jobs"
  PROVE  ReportInv' /\ RunInv'
  <1>1. PICK e \in Plan : NextExecution(j, e) /\ record' = [record EXCEPT ![e] = "running"]
    BY DEF StartExecution
  <1>2. /\ worker[j] = "ready" /\ worker' = [worker EXCEPT ![j] = "verdicts"]
        /\ UNCHANGED <<disk, part, main, prior, retry, latest, lastErr, cancelled,
                       verdict, scorable, setups, phase, pending, copied>>
    BY DEF StartExecution
  <1>3. e \in ExecutionsOf(j) /\ record[e] = "queued" /\ e \in Keys
    BY <1>1, PlanKeys DEF NextExecution, Queued
  <1>4. /\ Onward(record, verdict, record', verdict')
        /\ record'[e] = "running" /\ \A k \in Keys : k # e => record'[k] = record[k]
    BY <1>1, <1>2, <1>3, OneRecordOnward
  <1>5. worker'[j] = "verdicts" /\ \A i \in Jobs : i # j => worker'[i] = worker[i]
    BY <1>2 DEF CInv, IInv, TypeOK
  <1>6. \A i \in Jobs : copied'[i] = copied[i] /\ (worker'[i] \in {"records", "save"} =>
                                                     worker[i] \in {"records", "save"})
    BY <1>2, <1>5
  <1>7. ReportInv' /\ PlanningInv'
    BY <1>2, <1>4, <1>6, WorkerStepReportInv
  <1>8. SavedInv'
    BY <1>2, <1>5 DEF CInv, RunInv, SavedInv
  <1>9. RecordInv'
    <2>1. /\ \A k \in Keys \ Plan : record'[k] = "absent"
          /\ \A k \in Keys : record'[k] = "aborted" => cancelled
          /\ \A k \in Keys : record'[k] \in {"absent", "queued", "running"} =>
                               verdict[k] = NoVerdict
      BY <1>3, <1>4 DEF CInv, RunInv, RecordInv
    <2>2. ASSUME NEW i \in Jobs, NEW d \in ExecutionsOf(i)
          PROVE  Backed(record'[d], verdict[d]) \/ Backed(record'[d], pending[i][d])
      <3>1. d \in Keys
        BY JobKeys
      <3>2. CASE d = e
        BY <1>4, <3>2, NotCompletedBacked DEF Outcomes
      <3>3. CASE d # e
        BY <1>4, <3>1, <3>3 DEF CInv, RunInv, RecordInv
      <3>4. QED
        BY <3>2, <3>3
    <2>3. QED
      BY <1>2, <2>1, <2>2 DEF RecordInv
  <1>10. JobInv'
    <2>1. \A i \in Jobs, k \in Keys : pending[i][k] # NoVerdict =>
            /\ k \in ExecutionsOf(i)
            /\ record'[k] \notin {"absent", "queued", "running"}
            /\ verdict[k] = NoVerdict
      BY <1>3, <1>4 DEF CInv, RunInv, JobInv
    <2>2. e \in Active(j)'
      BY <1>3, <1>4 DEF Active
    <2>3. ASSUME NEW i \in Jobs, i # j
          PROVE  Active(i)' = Active(i)
      <3>1. \A d \in ExecutionsOf(i) : d \in Keys /\ d # e
        BY <1>3, <2>3, JobKeys, OneTool
      <3>2. QED
        BY <1>4, <3>1 DEF Active
    <2>4. phase[j] = "running"
      BY <1>2 DEF CInv, RunInv, JobInv
    <2>5. \A i \in Jobs : worker'[i] \in {"verdicts", "records", "save", "work"} =>
                            Active(i)' # {} \/ pending[i] = NoVerdicts
      BY <1>5, <2>2, <2>3 DEF CInv, RunInv, JobInv
    <2>6. \A i \in Jobs : /\ phase[i] # "running" => worker'[i] = "idle"
                          /\ phase[i] = "finished" => Active(i)' = {} /\ pending[i] = NoVerdicts
      BY <1>5, <2>3, <2>4 DEF CInv, RunInv, JobInv
    <2>7. QED
      BY <1>2, <2>1, <2>5, <2>6 DEF JobInv
  <1>11. QED
    BY <1>7, <1>8, <1>9, <1>10 DEF RunInv

LEMMA EnterStageCInv ==
  ASSUME CInv, NEW j \in Jobs, EnterStage(j), main = "jobs"
  PROVE  ReportInv' /\ RunInv'
  <1>1. /\ worker[j] = "work" /\ worker' = [worker EXCEPT ![j] = "verdicts"]
        /\ UNCHANGED <<disk, part, main, prior, retry, latest, lastErr, cancelled, record,
                       verdict, scorable, setups, phase, pending, copied>>
    BY DEF EnterStage
  <1>2. worker'[j] = "verdicts" /\ \A i \in Jobs : i # j => worker'[i] = worker[i]
    BY <1>1 DEF CInv, IInv, TypeOK
  <1>3. Onward(record, verdict, record', verdict')
    BY <1>1, OnwardReflexive
  <1>4. \A i \in Jobs : copied'[i] = copied[i] /\ (worker'[i] \in {"records", "save"} =>
                                                     worker[i] \in {"records", "save"})
    BY <1>1, <1>2
  <1>5. ReportInv' /\ PlanningInv'
    BY <1>1, <1>3, <1>4, WorkerStepReportInv
  <1>6. SavedInv'
    BY <1>1, <1>2 DEF CInv, RunInv, SavedInv
  <1>7. RecordInv'
    BY <1>1 DEF CInv, RunInv, RecordInv
  <1>8. JobInv'
    BY <1>1, <1>2 DEF CInv, RunInv, JobInv, Active
  <1>9. QED
    BY <1>5, <1>6, <1>7, <1>8 DEF RunInv

\* The end of an execution: its record has the outcome, its verdicts are in hand.
LEMMA ReportCInv ==
  ASSUME CInv, NEW j \in Jobs, NEW e \in ExecutionsOf(j), NEW v \in Verdicts,
         v # NoVerdict, record[e] \in {"queued", "running"},
         worker[j] \in {"ready", "work"}, main = "jobs", Report(j, e, v)
  PROVE  ReportInv' /\ RunInv'
  <1> DEFINE o == IF cancelled THEN "aborted" ELSE Summarize(v)
  <1>1. /\ record' = [record EXCEPT ![e] = o]
        /\ pending' = [pending EXCEPT ![j][e] = v]
        /\ worker' = [worker EXCEPT ![j] = "ready"]
        /\ UNCHANGED <<disk, part, main, prior, retry, latest, lastErr, cancelled,
                       verdict, scorable, setups, phase, copied>>
    BY DEF Report
  <1>2. o \in Outcomes \/ (o = "aborted" /\ cancelled)
    BY SummarizeType
  <1>3. Backed(o, v)
    BY SummaryBacked, NotCompletedBacked DEF Outcomes
  <1> HIDE DEF o
  <1>4. e \in Keys /\ o \notin {"absent", "queued", "running"}
    BY <1>2, JobKeys DEF Outcomes
  <1>5. /\ Onward(record, verdict, record', verdict')
        /\ record'[e] = o /\ \A k \in Keys : k # e => record'[k] = record[k]
    BY <1>1, <1>4, OneRecordOnward
  <1>6. worker'[j] = "ready" /\ \A i \in Jobs : i # j => worker'[i] = worker[i]
    BY <1>1 DEF CInv, IInv, TypeOK
  <1>7. /\ pending'[j][e] = v
        /\ \A k \in Keys : k # e => pending'[j][k] = pending[j][k]
        /\ \A i \in Jobs : i # j => pending'[i] = pending[i]
    <2>1. pending \in [Jobs -> [Keys -> Verdicts]]
      BY DEF CInv, IInv, TypeOK
    <2>2. pending' = [pending EXCEPT ![j] = [pending[j] EXCEPT ![e] = v]]
      BY <1>1
    <2>3. pending[j] \in [Keys -> Verdicts]
      BY <2>1
    <2>4. pending'[j] = [pending[j] EXCEPT ![e] = v]
      BY <2>1, <2>2
    <2>5. QED
      BY <1>4, <2>1, <2>2, <2>3, <2>4
  <1>8. \A i \in Jobs : copied'[i] = copied[i] /\ (worker'[i] \in {"records", "save"} =>
                                                     worker[i] \in {"records", "save"})
    BY <1>1, <1>6
  <1>9. ReportInv' /\ PlanningInv'
    BY <1>1, <1>5, <1>8, WorkerStepReportInv
  <1>10. SavedInv'
    BY <1>1, <1>6 DEF CInv, RunInv, SavedInv
  <1>11. verdict[e] = NoVerdict
    BY <1>4 DEF CInv, RunInv, RecordInv
  <1>12. RecordInv'
    <2>1. /\ \A k \in Keys \ Plan : record'[k] = "absent"
          /\ \A k \in Keys : record'[k] = "aborted" => cancelled
          /\ \A k \in Keys : record'[k] \in {"absent", "queued", "running"} =>
                               verdict[k] = NoVerdict
      BY <1>2, <1>4, <1>5, JobKeys DEF CInv, RunInv, RecordInv, Outcomes
    <2>2. ASSUME NEW i \in Jobs, NEW d \in ExecutionsOf(i)
          PROVE  Backed(record'[d], verdict[d]) \/ Backed(record'[d], pending'[i][d])
      <3>1. d \in Keys
        BY JobKeys
      <3>2. CASE d = e
        <4>1. i = j
          BY <3>2, OneTool
        <4>2. QED
          BY <1>3, <1>5, <1>7, <3>2, <4>1
      <3>3. CASE d # e
        <4>1. pending'[i][d] = pending[i][d]
          BY <1>7, <3>1, <3>3
        <4>2. QED
          BY <1>5, <3>1, <3>3, <4>1 DEF CInv, RunInv, RecordInv
      <3>4. QED
        BY <3>2, <3>3
    <2>3. QED
      BY <1>1, <2>1, <2>2 DEF RecordInv
  <1>13. JobInv'
    <2>1. ASSUME NEW i \in Jobs, NEW k \in Keys, pending'[i][k] # NoVerdict
          PROVE  /\ k \in ExecutionsOf(i)
                 /\ record'[k] \notin {"absent", "queued", "running"}
                 /\ verdict[k] = NoVerdict
      <3>1. CASE i = j /\ k = e
        BY <1>4, <1>5, <1>11, <3>1
      <3>2. CASE ~(i = j /\ k = e)
        <4>1. pending[i][k] # NoVerdict
          BY <1>7, <2>1, <3>2
        <4>2. /\ k \in ExecutionsOf(i)
              /\ record[k] \notin {"absent", "queued", "running"}
              /\ verdict[k] = NoVerdict
          BY <4>1 DEF CInv, RunInv, JobInv
        <4>3. record'[k] = record[k]
          BY <1>5, <4>2
        <4>4. QED
          BY <4>2, <4>3
      <3>3. QED
        BY <3>1, <3>2
    <2>2. ASSUME NEW i \in Jobs, i # j
          PROVE  Active(i)' = Active(i)
      <3>1. \A d \in ExecutionsOf(i) : d \in Keys /\ d # e
        BY <2>2, JobKeys, OneTool
      <3>2. QED
        BY <1>5, <3>1 DEF Active
    <2>3. phase[j] = "running"
      BY DEF CInv, RunInv, JobInv
    <2>4. \A i \in Jobs : worker'[i] \in {"verdicts", "records", "save", "work"} =>
                            Active(i)' # {} \/ pending'[i] = NoVerdicts
      BY <1>6, <1>7, <2>2 DEF CInv, RunInv, JobInv
    <2>5. \A i \in Jobs : /\ phase[i] # "running" => worker'[i] = "idle"
                          /\ phase[i] = "finished" => Active(i)' = {} /\ pending'[i] = NoVerdicts
      BY <1>6, <1>7, <2>2, <2>3 DEF CInv, RunInv, JobInv
    <2>6. QED
      BY <1>1, <2>1, <2>4, <2>5 DEF JobInv
  <1>14. QED
    BY <1>9, <1>10, <1>12, <1>13 DEF RunInv

LEMMA FinishExecutionCInv ==
  ASSUME CInv, NEW j \in Jobs, main = "jobs",
         FinishExecution(j) \/ VariantWithoutDirectory(j)
  PROVE  ReportInv' /\ RunInv'
  <1>1. CASE FinishExecution(j)
    <2>1. PICK e \in Active(j), v \in Results : Report(j, e, v)
      BY <1>1 DEF FinishExecution
    <2>2. e \in ExecutionsOf(j) /\ record[e] = "running"
      BY DEF Active
    <2>3. v \in Verdicts /\ v # NoVerdict
      BY LifecycleAssumption
    <2>4. worker[j] = "work"
      BY <1>1 DEF FinishExecution
    <2>5. QED
      BY <2>1, <2>2, <2>3, <2>4, ReportCInv
  <1>2. CASE VariantWithoutDirectory(j)
    <2>1. PICK e \in Plan : NextExecution(j, e) /\ Report(j, e, Uniform("error"))
      BY <1>2 DEF VariantWithoutDirectory
    <2>2. e \in ExecutionsOf(j) /\ record[e] = "queued"
      BY <2>1 DEF NextExecution, Queued
    <2>3. Uniform("error") \in Verdicts /\ Uniform("error") # NoVerdict
      BY UniformType, UniformBacked DEF Outcomes
    <2>4. worker[j] = "ready"
      BY <1>2 DEF VariantWithoutDirectory
    <2>5. QED
      BY <2>1, <2>2, <2>3, <2>4, ReportCInv
  <1>3. QED
    BY <1>1, <1>2

\* The end of a job: what it has in hand goes over to the run.
LEMMA FinishJobCInv ==
  ASSUME CInv, NEW j \in Jobs, FinishJob(j), main = "jobs"
  PROVE  ReportInv' /\ RunInv'
  <1>1. /\ worker[j] = "ready"
        /\ verdict' = OverlayVerdicts(verdict, pending[j])
        /\ pending' = [pending EXCEPT ![j] = NoVerdicts]
        /\ worker' = [worker EXCEPT ![j] = "verdicts"]
        /\ UNCHANGED <<disk, part, main, prior, retry, latest, lastErr, cancelled, record,
                       scorable, setups, phase, copied>>
    BY DEF FinishJob
  <1>2. /\ pending \in [Jobs -> [Keys -> Verdicts]] /\ verdict \in [Keys -> Verdicts]
        /\ worker \in [Jobs -> Workers]
    BY DEF CInv, IInv, TypeOK
  <1>3. worker'[j] = "verdicts" /\ \A i \in Jobs : i # j => worker'[i] = worker[i]
    BY <1>1, <1>2
  <1>4. pending'[j] = NoVerdicts /\ \A i \in Jobs : i # j => pending'[i] = pending[i]
    BY <1>1, <1>2
  <1>5. \A k \in Keys : pending[j][k] # NoVerdict =>
          /\ k \in ExecutionsOf(j)
          /\ record[k] \notin {"absent", "queued", "running"}
          /\ verdict[k] = NoVerdict
    BY DEF CInv, RunInv, JobInv
  <1>6. ASSUME NEW k \in Keys
        PROVE  verdict'[k] = IF pending[j][k] = NoVerdict THEN verdict[k] ELSE pending[j][k]
    BY <1>1, <1>2, <1>5, OverlayNothing, OverlayOnNothing
  <1>7. Onward(record, verdict, record', verdict')
    BY <1>1, <1>5, <1>6 DEF Onward, NoVerdict
  <1>8. \A i \in Jobs : copied'[i] = copied[i] /\ (worker'[i] \in {"records", "save"} =>
                                                     worker[i] \in {"records", "save"})
    BY <1>1, <1>3
  <1>9. ReportInv' /\ PlanningInv'
    BY <1>1, <1>7, <1>8, WorkerStepReportInv
  <1>10. SavedInv'
    <2> SUFFICES ASSUME NEW i \in Jobs, i # j
                 PROVE  \/ Shows(latest, verdict', i)
                        \/ worker[i] = "verdicts"
                        \/ worker[i] \in {"records", "save"} /\ Shows(copied[i], verdict', i)
      BY <1>1, <1>3 DEF SavedInv
    <2>1. \A d \in ExecutionsOf(i) : verdict'[d] = verdict[d]
      <3> SUFFICES ASSUME NEW d \in ExecutionsOf(i)
                   PROVE  verdict'[d] = verdict[d]
        OBVIOUS
      <3>1. d \in Keys /\ d \notin ExecutionsOf(j)
        BY JobKeys, OneTool
      <3>2. QED
        BY <1>5, <1>6, <3>1
    <2>2. \/ Shows(latest, verdict, i)
          \/ worker[i] = "verdicts"
          \/ worker[i] \in {"records", "save"} /\ Shows(copied[i], verdict, i)
      BY DEF CInv, RunInv, SavedInv
    <2>3. QED
      BY <2>1, <2>2 DEF Shows
  <1>11. RecordInv'
    <2>1. \A k \in Keys : record[k] \in {"absent", "queued", "running"} =>
                            verdict'[k] = NoVerdict
      BY <1>5, <1>6 DEF CInv, RunInv, RecordInv
    <2>2. ASSUME NEW i \in Jobs, NEW d \in ExecutionsOf(i)
          PROVE  Backed(record[d], verdict'[d]) \/ Backed(record[d], pending'[i][d])
      <3>1. d \in Keys
        BY JobKeys
      <3>2. Backed(record[d], verdict[d]) \/ Backed(record[d], pending[i][d])
        BY DEF CInv, RunInv, RecordInv
      <3>3. CASE i # j
        <4>1. d \notin ExecutionsOf(j)
          BY <3>3, OneTool
        <4>2. verdict'[d] = verdict[d]
          BY <1>5, <1>6, <3>1, <4>1
        <4>3. QED
          BY <1>4, <3>2, <3>3, <4>2
      <3>4. CASE i = j /\ record[d] \notin Outcomes
        BY <3>4, NotCompletedBacked
      <3>5. CASE i = j /\ record[d] \in Outcomes
        <4>1. ~Backed(record[d], NoVerdict)
          BY <3>5 DEF Backed, Has, NoVerdict, Outcomes
        <4>2. CASE pending[j][d] = NoVerdict
          BY <1>6, <3>1, <3>2, <3>5, <4>1, <4>2
        <4>3. CASE pending[j][d] # NoVerdict
          <5>1. verdict[d] = NoVerdict
            BY <1>5, <3>1, <4>3
          <5>2. Backed(record[d], pending[j][d])
            BY <3>2, <3>5, <4>1, <5>1
          <5>3. QED
            BY <1>6, <3>1, <4>3, <5>2
        <4>4. QED
          BY <4>2, <4>3
      <3>6. QED
        BY <3>3, <3>4, <3>5
    <2>3. QED
      BY <1>1, <2>1, <2>2 DEF CInv, RunInv, RecordInv
  <1>12. JobInv'
    <2>1. ASSUME NEW i \in Jobs, NEW k \in Keys, pending'[i][k] # NoVerdict
          PROVE  /\ k \in ExecutionsOf(i)
                 /\ record[k] \notin {"absent", "queued", "running"}
                 /\ verdict'[k] = NoVerdict
      <3>1. i # j
        BY <1>4, <2>1 DEF NoVerdicts
      <3>2. /\ k \in ExecutionsOf(i)
            /\ record[k] \notin {"absent", "queued", "running"}
            /\ verdict[k] = NoVerdict
        BY <1>4, <2>1, <3>1 DEF CInv, RunInv, JobInv
      <3>3. k \notin ExecutionsOf(j)
        BY <3>1, <3>2, OneTool
      <3>4. QED
        BY <1>5, <1>6, <3>2, <3>3
    <2>2. \A i \in Jobs : Active(i)' = Active(i)
      BY <1>1 DEF Active
    <2>3. phase[j] = "running"
      BY <1>1 DEF CInv, RunInv, JobInv
    <2>4. QED
      BY <1>1, <1>3, <1>4, <2>1, <2>2, <2>3 DEF CInv, RunInv, JobInv
  <1>13. QED
    BY <1>9, <1>10, <1>11, <1>12 DEF RunInv

LEMMA CopyVerdictsCInv ==
  ASSUME CInv, NEW j \in Jobs, CopyVerdicts(j), main = "jobs"
  PROVE  ReportInv' /\ RunInv'
  <1> DEFINE s == Snapshot(NoRecords, verdict, "running", {})
  <1>1. /\ worker[j] = "verdicts"
        /\ copied' = [copied EXCEPT ![j] = s]
        /\ worker' = [worker EXCEPT ![j] = "records"]
        /\ UNCHANGED <<disk, part, main, prior, retry, latest, lastErr, cancelled, record,
                       verdict, scorable, setups, phase, pending>>
    BY DEF CopyVerdicts
  <1>2. /\ s.status = "running" /\ Faithful(s, record, verdict) /\ Shows(s, verdict, j)
        /\ Clean(s)
    <2>1. \A k \in Keys \ Plan : NoRecords[k] \notin Outcomes /\ verdict[k] = NoVerdict
      BY DEF CInv, RunInv, RecordInv, NoRecords, Outcomes
    <2>2. QED
      BY <2>1, SnapshotParts, SnapshotIsFaithful, SnapshotClean
  <1> HIDE DEF s
  <1>3. /\ copied'[j] = s /\ worker'[j] = "records"
        /\ \A i \in Jobs : i # j => copied'[i] = copied[i] /\ worker'[i] = worker[i]
    BY <1>1 DEF CInv, IInv, TypeOK
  <1>4. Onward(record, verdict, record', verdict')
    BY <1>1, OnwardReflexive
  <1>5. ReportInv' /\ PlanningInv'
    BY <1>1, <1>2, <1>3, <1>4, WorkerStepReportInv
  <1>6. SavedInv'
    BY <1>1, <1>2, <1>3 DEF CInv, RunInv, SavedInv
  <1>7. RecordInv'
    BY <1>1 DEF CInv, RunInv, RecordInv
  <1>8. JobInv'
    BY <1>1, <1>3 DEF CInv, RunInv, JobInv, Active
  <1>9. QED
    BY <1>5, <1>6, <1>7, <1>8 DEF RunInv

LEMMA CopyRecordsCInv ==
  ASSUME CInv, NEW j \in Jobs, CopyRecords(j), main = "jobs"
  PROVE  ReportInv' /\ RunInv'
  <1>1. /\ worker[j] = "records"
        /\ copied' = [copied EXCEPT ![j] = [copied[j] EXCEPT !.record = record]]
        /\ worker' = [worker EXCEPT ![j] = "save"]
        /\ UNCHANGED <<disk, part, main, prior, retry, latest, lastErr, cancelled, record,
                       verdict, scorable, setups, phase, pending>>
    BY DEF CopyRecords
  <1>2. /\ copied'[j] = [copied[j] EXCEPT !.record = record] /\ worker'[j] = "save"
        /\ \A i \in Jobs : i # j => copied'[i] = copied[i] /\ worker'[i] = worker[i]
    BY <1>1 DEF CInv, IInv, TypeOK
  <1>3. /\ copied'[j].status = copied[j].status
        /\ copied'[j].verdict = copied[j].verdict
        /\ copied'[j].record = record
    BY <1>2 DEF CInv, IInv, TypeOK, Reports
  <1>4. /\ Clean(copied[j]) /\ Faithful(copied[j], record, verdict)
        /\ copied[j].status = "running"
    BY <1>1 DEF CInv, ReportInv, CopyInv
  <1>5. Clean(copied'[j])
    <2>1. \A k \in Keys \ Plan : record[k] = "absent"
      BY DEF CInv, RunInv, RecordInv
    <2>2. QED
      BY <1>3, <1>4, <2>1 DEF Clean, Outcomes
  <1>6. Faithful(copied'[j], record, verdict)
    BY <1>3, <1>4 DEF Faithful
  <1>7. Onward(record, verdict, record', verdict')
    BY <1>1, OnwardReflexive
  <1>8. ReportInv' /\ PlanningInv'
    BY <1>1, <1>2, <1>3, <1>4, <1>5, <1>6, <1>7, WorkerStepReportInv
  <1>9. SavedInv'
    <2>1. Shows(copied[j], verdict, j) => Shows(copied'[j], verdict, j)
      BY <1>3 DEF Shows
    <2>2. QED
      BY <1>1, <1>2, <2>1 DEF CInv, RunInv, SavedInv
  <1>10. RecordInv'
    BY <1>1 DEF CInv, RunInv, RecordInv
  <1>11. JobInv'
    BY <1>1, <1>2 DEF CInv, RunInv, JobInv, Active
  <1>12. QED
    BY <1>8, <1>9, <1>10, <1>11 DEF RunInv

\* Whatever another worker has saved meanwhile, the latest checkpoint shows what
\* this one had, and the job may be over.
LEMMA SaveCopyCInv ==
  ASSUME CInv, NEW j \in Jobs, SaveCopy(j), main = "jobs"
  PROVE  ReportInv' /\ RunInv'
  <1>1. /\ worker[j] = "save" /\ Save(copied[j])
        /\ copied' = [copied EXCEPT ![j] = NoReport]
        /\ IF Active(j) # {}
             THEN worker' = [worker EXCEPT ![j] = "work"] /\ UNCHANGED phase
             ELSE /\ worker' = [worker EXCEPT ![j] = "idle"]
                  /\ phase' = [phase EXCEPT ![j] = "finished"]
        /\ UNCHANGED <<part, main, prior, retry, cancelled, record, verdict, scorable,
                       setups, pending>>
    BY DEF SaveCopy
  <1>2. latest' = Merge(latest, copied[j]) /\ disk' \in {disk, latest'}
    BY <1>1, SaveParts
  <1>3. /\ Clean(copied[j]) /\ Faithful(copied[j], record, verdict)
        /\ copied[j].status = "running"
    BY <1>1 DEF CInv, ReportInv, CopyInv
  <1>4. /\ copied'[j] = NoReport
        /\ \A i \in Jobs : i # j => copied'[i] = copied[i]
                                    /\ worker'[i] = worker[i] /\ phase'[i] = phase[i]
        /\ Active(j) # {} => worker'[j] = "work" /\ phase'[j] = phase[j]
        /\ Active(j) = {} => worker'[j] = "idle" /\ phase'[j] = "finished"
    BY <1>1 DEF CInv, IInv, TypeOK
  <1>5. UnderWay /\ UnderWay'
    BY <1>1 DEF UnderWay
  <1>6. Onward(record, verdict, record', verdict')
    BY <1>1, OnwardReflexive
  <1>7. ReportInv'
    <2>1. \E s : /\ latest' = Merge(latest, s) /\ s.status = "running"
                 /\ Clean(s) /\ Faithful(s, record', verdict')
      BY <1>1, <1>2, <1>3
    <2>2. \A i \in Jobs :
            \/ copied'[i] = copied[i] /\ (worker'[i] \in {"records", "save"} =>
                                            worker[i] \in {"records", "save"})
            \/ /\ Clean(copied'[i]) /\ Faithful(copied'[i], record', verdict')
               /\ copied'[i].status = "running" \/ worker'[i] \notin {"records", "save"}
      BY <1>4, NoReportClean, NoReportFaithful
    <2>3. QED
      BY <1>1, <1>2, <1>5, <1>6, <2>1, <2>2, RunStepReportInv
  <1>8. SavedInv'
    <2>1. ASSUME NEW i \in Jobs, Shows(latest, verdict, i) \/ Shows(copied[j], verdict, i)
          PROVE  Shows(latest', verdict, i)
      BY <1>2, <1>3, <2>1, MergeShows
    <2>2. Shows(latest, verdict, j) \/ Shows(copied[j], verdict, j)
      BY <1>1 DEF CInv, RunInv, SavedInv
    <2>3. QED
      BY <1>1, <1>4, <2>1, <2>2 DEF CInv, RunInv, SavedInv
  <1>9. PlanningInv'
    BY <1>1 DEF CInv, RunInv, PlanningInv, UnderWay
  <1>10. RecordInv'
    BY <1>1 DEF CInv, RunInv, RecordInv
  <1>11. JobInv'
    <2>1. \A i \in Jobs : Active(i)' = Active(i)
      BY <1>1 DEF Active
    <2>2. Active(j) # {} \/ pending[j] = NoVerdicts
      BY <1>1 DEF CInv, RunInv, JobInv
    <2>3. phase[j] = "running"
      BY <1>1 DEF CInv, RunInv, JobInv
    <2>4. \A i \in Jobs : worker'[i] \in {"verdicts", "records", "save", "work"} =>
                            Active(i) # {} \/ pending[i] = NoVerdicts
      BY <1>4, <2>2 DEF CInv, RunInv, JobInv
    <2>5. \A i \in Jobs : /\ phase'[i] # "running" => worker'[i] = "idle"
                          /\ phase'[i] = "finished" => Active(i) = {} /\ pending[i] = NoVerdicts
      BY <1>4, <2>2, <2>3 DEF CInv, RunInv, JobInv
    <2>6. QED
      BY <1>1, <2>1, <2>4, <2>5 DEF CInv, RunInv, JobInv
  <1>12. QED
    BY <1>7, <1>8, <1>9, <1>10, <1>11 DEF RunInv

-----------------------------------------------------------------------------
(* Theorems. *)

LEMMA WorkerStepCInv ==
  ASSUME CInv, NEW j \in Jobs, WorkerStep(j)
  PROVE  ReportInv' /\ RunInv'
  <1>1. CASE StartJob(j)
    BY <1>1, StartJobCInv
  <1>2. CASE ~StartJob(j)
    <2>1. worker[j] # "idle"
      BY <1>2 DEF WorkerStep, StartExecution, EnterStage, FinishExecution,
                  VariantWithoutDirectory, FinishJob, CopyVerdicts, CopyRecords, SaveCopy
    <2>2. main = "jobs"
      BY <2>1 DEF CInv, IInv, MemoryInv
    <2>3. QED
      BY <1>2, <2>2, StartExecutionCInv, EnterStageCInv, FinishExecutionCInv,
         FinishJobCInv, CopyVerdictsCInv, CopyRecordsCInv, SaveCopyCInv DEF WorkerStep
  <1>3. QED
    BY <1>1, <1>2

\* Every step of a campaign keeps the invariant.
LEMMA NextCInv == CInv /\ [Next]_vars => CInv'
  <1> SUFFICES ASSUME CInv, [Next]_vars
               PROVE  ReportInv' /\ RunInv'
    BY NextIInv DEF CInv
  <1>1. CASE FirstRun
    <2>1. disk = NoReport /\ main = "off" /\ Begin(TRs, NoReport, FALSE)
      BY <1>1 DEF FirstRun, CInv, IInv, MemoryInv
    <2>2. Selects(TRs, disk, FALSE)
      BY <2>1 DEF Selects
    <2>3. QED
      BY <2>1, <2>2, BeginCInv
  <1>2. CASE ContinueFrom
    <2>1. PICK r \in RetryFailed : Begin({t \in TRs : ~Skips(disk, <<t, 0>>, r)}, disk, r)
      BY <1>2 DEF ContinueFrom
    <2> DEFINE selected == {t \in TRs : ~Skips(disk, <<t, 0>>, r)}
    <2>2. main = "off" /\ Selects(selected, disk, r)
      BY <1>2 DEF ContinueFrom, Selects
    <2>3. selected \in SUBSET TRs /\ r \in BOOLEAN
      BY LifecycleAssumption
    <2>4. Begin(selected, disk, r)
      BY <2>1
    <2> HIDE DEF selected
    <2>5. QED
      BY <2>2, <2>3, <2>4, BeginCInv
  <1>3. CASE Recover
    BY <1>3, RecoverCInv
  <1>4. CASE MainStep
    BY <1>4, EnterCInv, ClassifyCInv, RunSetupCInv, ScheduleCInv, ConcludeCInv DEF MainStep
  <1>5. ASSUME NEW j \in Jobs, WorkerStep(j)
        PROVE  ReportInv' /\ RunInv'
    BY <1>5, WorkerStepCInv
  <1>6. CASE Cancel
    <2>1. /\ cancelled' = TRUE
          /\ UNCHANGED <<disk, part, main, prior, retry, latest, lastErr, record, verdict,
                         scorable, setups, phase, worker, pending, copied>>
      BY <1>6 DEF Cancel
    <2>2. DiskInv' /\ PriorInv' /\ LatestInv' /\ CopyInv'
      BY <2>1 DEF CInv, ReportInv, DiskInv, CompleteCoversPlan, PriorInv, InRun, LatestInv,
                  UnderWay, CopyInv
    <2>3. SavedInv' /\ PlanningInv'
      BY <2>1 DEF CInv, RunInv, SavedInv, PlanningInv, UnderWay
    <2>4. RecordInv' /\ JobInv'
      BY <2>1 DEF CInv, RunInv, RecordInv, JobInv, Active
    <2>5. QED
      BY <2>2, <2>3, <2>4 DEF ReportInv, RunInv
  <1>7. CASE Crash
    <2>1. Exit /\ disk' = disk /\ main' = "off" /\ disk.status = "running"
      BY <1>7 DEF Crash, Exit, CInv, ReportInv, DiskInv
    <2>2. DiskInv'
      BY <2>1 DEF CInv, ReportInv, DiskInv, CompleteCoversPlan
    <2>3. QED
      BY <2>1, <2>2, ExitRest DEF ReportInv
  <1>8. CASE UNCHANGED vars
    <2>1. UNCHANGED <<disk, part, main, memory>>
      BY <1>8 DEF vars
    <2>2. DiskInv' /\ PriorInv' /\ LatestInv' /\ CopyInv'
      BY <2>1 DEF CInv, ReportInv, DiskInv, CompleteCoversPlan, PriorInv, InRun, LatestInv,
                  UnderWay, CopyInv, memory
    <2>3. SavedInv' /\ PlanningInv'
      BY <2>1 DEF CInv, RunInv, SavedInv, PlanningInv, UnderWay, memory
    <2>4. RecordInv' /\ JobInv'
      BY <2>1 DEF CInv, RunInv, RecordInv, JobInv, Active, memory
    <2>5. QED
      BY <2>2, <2>3, <2>4 DEF ReportInv, RunInv
  <1>9. QED
    BY <1>1, <1>2, <1>3, <1>4, <1>5, <1>6, <1>7, <1>8 DEF Next

\* In every reachable state, what a worker, the run, a checkpoint or report.json has
\* of an execution is accounted for.
THEOREM LifecycleCInv == Spec => []CInv
  BY InitCInv, NextCInv, PTL DEF Spec

\* A report.json that says "complete" has an outcome for every execution of the plan,
\* whatever was interrupted, retried, or failed to be written on the way, and also
\* when the operator continues reports that are under way.
THEOREM CompleteCoversPlanHolds == Spec => []CompleteCoversPlan
  <1>1. CInv => CompleteCoversPlan
    BY DEF CInv, ReportInv, DiskInv
  <1>2. QED
    BY <1>1, LifecycleCInv, PTL

\* A continuation runs an execution again that the prior report has as completed only
\* if it failed and is to be retried, if its requirement has no named variants: a
\* report is searched for the requirement, and the run Lifecycle_rerun shows what
\* becomes of variants.
THEOREM OrdinaryNotRerunHolds == Spec => []OrdinaryNotRerun
  <1>1. CInv => OrdinaryNotRerun
    <2> SUFFICES ASSUME CInv, NEW e \in Plan, Variants[e[1]] = {},
                        record[e] = "running", prior.record[e] \in Outcomes
                 PROVE  retry /\ prior.record[e] \in {"fail", "error"}
      BY DEF OrdinaryNotRerun, RerunAsAsked
    <2>1. main = "jobs"
      BY PlanKeys DEF CInv, RunInv, RecordInv
    <2>2. InRun(e)
      BY <2>1 DEF InRun
    <2>3. QED
      BY <2>1, <2>2 DEF CInv, ReportInv, PriorInv
  <1>2. QED
    BY <1>1, LifecycleCInv, PTL

\* A final report that was never abandoned has a failed verdict, too, for whatever it
\* records as failed.
LEMMA FinalReportBacked ==
  ASSUME RecoverFirst, CInv, disk.status # "running", "run-abandoned" \notin disk.incidents
  PROVE  AllBacked(disk)
  BY DEF CInv, ReportInv, DiskInv

\* If the operator recovers a report before continuing it, a final report that was
\* never abandoned has verdicts for whatever it records as completed, although records
\* are checkpointed before verdicts and any write may fail.
THEOREM FinalReportIsBackedHolds ==
  ASSUME RecoverFirst
  PROVE  Spec => []FinalReportIsBacked
  <1>1. CInv => FinalReportIsBacked
    BY FinalReportBacked DEF FinalReportIsBacked, AllBacked, Backed
  <1>2. QED
    BY <1>1, LifecycleCInv, PTL

\* Under the same assumption, no recorded failure gets past certification: what runs
\* later, is merged, or is lost by a crash cannot take it away unnoticed.  Without
\* it, the run Lifecycle_lost shows how it can.
THEOREM FailureBlocksCertificationHolds ==
  ASSUME RecoverFirst
  PROVE  Spec => []FailureBlocksCertification
  <1>1. CInv => FailureBlocksCertification
    <2> SUFFICES ASSUME CInv, NEW e \in Plan, disk.record[e] \in {"fail", "error"},
                        Certifiable(disk)
                 PROVE  FALSE
      BY DEF FailureBlocksCertification
    <2>1. disk.status = "complete" /\ disk.incidents = {}
      BY DEF Certifiable
    <2>2. Backed(disk.record[e], disk.verdict[e])
      BY <2>1, FinalReportBacked DEF AllBacked
    <2>3. Has(disk.verdict[e], {"fail", "error"})
      BY <2>2 DEF Backed
    <2>4. QED
      BY <2>3, PlanKeys DEF Certifiable, Has
  <1>2. QED
    BY <1>1, LifecycleCInv, PTL

\* Under the same assumption, a certifiable report has earned it: it has verdicts
\* for every execution of the plan, and no failure or error among them.
THEOREM CertifiableIsEarnedHolds ==
  ASSUME RecoverFirst
  PROVE  Spec => []CertifiableIsEarned
  <1>1. CInv => CertifiableIsEarned
    <2> SUFFICES ASSUME CInv, Certifiable(disk), NEW e \in Plan
                 PROVE  /\ Has(disk.verdict[e], Outcomes)
                        /\ ~Has(disk.verdict[e], {"fail", "error"})
      BY DEF CertifiableIsEarned
    <2>1. disk.status = "complete" /\ disk.incidents = {}
      BY DEF Certifiable
    <2>2. disk.record[e] \in Outcomes
      BY <2>1 DEF CInv, ReportInv, DiskInv, CompleteCoversPlan
    <2>3. Backed(disk.record[e], disk.verdict[e])
      BY <2>1, FinalReportBacked DEF AllBacked
    <2>4. Has(disk.verdict[e], Outcomes)
      BY <2>2, <2>3 DEF Backed
    <2>5. ~Has(disk.verdict[e], {"fail", "error"})
      BY PlanKeys DEF Certifiable, Has
    <2>6. QED
      BY <2>4, <2>5
  <1>2. QED
    BY <1>1, LifecycleCInv, PTL

\* The step that ends a run leaves a report that says "running" only if it has not
\* written one, for any plan, faults and interleaving: whichever report Conclude writes,
\* the final one or the latest checkpoint, has been finalized.
THEOREM EndIsFinalHolds == Spec => EndIsFinal
  <1>1. ASSUME [Next]_vars, main # "off", main' = "off"
        PROVE  disk'.status # "running" \/ disk' = disk
    <2>1. CASE Conclude
      <3> DEFINE final == IF prior = NoReport THEN FinalReport ELSE Merge(prior, FinalReport)
                 fallback == Finalize(latest, "partial")
      <3>1. FinalReport.status # "running"
        BY Zenon DEF FinalReport, Snapshot
      <3>2. final.status # "running"
        BY <3>1 DEF Merge
      <3>3. fallback.status # "running"
        BY DEF Finalize
      <3>4. disk' \in {disk, final, fallback}
        BY <2>1, Zenon DEF Conclude, Written
      <3>5. QED
        BY <3>2, <3>3, <3>4
    <2>2. CASE Crash
      BY <2>2 DEF Crash
    <2>3. CASE MainStep /\ ~Conclude
      BY <1>1, <2>3, Zenon DEF MainStep, Enter, Classify, RunSetup, Schedule
    <2>4. ASSUME NEW j \in Jobs, WorkerStep(j)
          PROVE  FALSE
      <3>1. main' = main
        BY <2>4, Zenon DEF WorkerStep, StartJob, StartExecution, EnterStage, FinishExecution,
           VariantWithoutDirectory, Report, FinishJob, CopyVerdicts, CopyRecords, SaveCopy
      <3>2. QED
        BY <1>1, <3>1
    <2>5. CASE FirstRun \/ ContinueFrom \/ Recover \/ Cancel \/ UNCHANGED vars
      BY <1>1, <2>5 DEF FirstRun, ContinueFrom, Recover, Cancel, vars
    <2>6. QED
      BY <1>1, <2>1, <2>2, <2>3, <2>4, <2>5 DEF Next
  <1>2. [Next]_vars => [main # "off" /\ main' = "off" =>
                          disk'.status # "running" \/ disk' = disk]_vars
    BY <1>1
  <1>3. QED
    BY <1>2, PTL DEF Spec, EndIsFinal

=============================================================================
