--------------------------- MODULE ResultParsing ---------------------------
(***************************************************************************)
(* How the tools' output files become results: the parsers of the virtbench, *)
(* kube-burner and kube-burner-ocp adapters.                                *)
(*                                                                          *)
(* A test works on objects (VMs, volumes, snapshots).  What a tool left     *)
(* behind is a record                                                       *)
(*   whole, torn   the parts of its output that are complete, or cut off    *)
(*   took          per object, how long it took in ms; 0 when it failed     *)
(*   kept          the objects whose own samples are in the output          *)
(*   pinged        the number of VMs that answered a ping                   *)
(*   asked         the number of objects asked for                          *)
(*   ran           the number the tool notes in its summary                 *)
(*   verified      the tool waited for its objects and checked them         *)
(* A file that is cut off is no JSON; a line of a log that is cut off does  *)
(* not match.  A job summary that is whole has an entry, with its times, for *)
(* every job of the workload.  Averages are exact here, floats in the code.                 *)
(***************************************************************************)
EXTENDS Grading, SequencesExt, TLC

CONSTANT virtParallelCheckVMs

ParsingAssumption == virtParallelCheckVMs \in Nat

Metric(name, pct, value, unit) ==
  [name |-> name, pct |-> pct, value |-> value, unit |-> unit]

NoChecks == [c \in {} |-> "pass"]

Result(native, metrics, checks) ==
  [native |-> native, metrics |-> metrics, checks |-> checks]

\* The parser returns an error.
Refused == Result("refused", <<>>, NoChecks)

Is(b) == IF b THEN "pass" ELSE "fail"

Good(out) == {i \in DOMAIN out.took : out.took[i] > 0}
Failed(out) == Len(out.took) - Cardinality(Good(out))

\* The durations of some objects, ascending.
Sorted(out, objects) ==
  SortSeq(SelectSeq([i \in DOMAIN out.took |-> IF i \in objects THEN out.took[i] ELSE 0],
                    LAMBDA d : d > 0),
          LAMBDA a, b : a < b)

Total(samples) == FoldSeq(LAMBDA a, b : a + b, 0, samples)
Longest(samples) == IF samples = <<>> THEN 0 ELSE Last(samples)

-----------------------------------------------------------------------------
(* virtbench. *)

\* Nearest rank.
percentile(samples, p) ==
  LET n == Len(samples)
      rank == (p * n + 99) \div 100
  IN samples[IF rank < 1 THEN 1 ELSE IF rank > n THEN n ELSE rank]

\* Average, longest and shortest of a phase are there only if it has samples.
phaseMetrics(base, samples) ==
  IF samples = <<>> THEN <<>>
  ELSE <<Metric(base, "", Total(samples) \div (1000 * Len(samples)), "s"),
         Metric(base \o "_max", "", Last(samples) \div 1000, "s"),
         Metric(base \o "_min", "", Head(samples) \div 1000, "s")>>

runMetrics(out) ==
  <<Metric("vms_total", "", Len(out.took), ""),
    Metric("vms_successful", "", Cardinality(Good(out)), ""),
    Metric("vms_failed", "", Failed(out), "")>>

parseSummary(out, base) ==
  LET samples == Sorted(out, Good(out))
  IN IF "summary" \in out.torn \/ Len(out.took) = 0 THEN Refused
     ELSE Result(Is(Failed(out) = 0),
                 phaseMetrics(base, samples) \o runMetrics(out)
                   \o <<Metric("total_test_duration", "", Longest(samples) \div 1000, "s")>>,
                 NoChecks)

With(res, metrics) == [res EXCEPT !.metrics = @ \o metrics]

ParseBootStorm(out) ==
  LET res == parseSummary(out, "time_to_running")
      storm == findMetrics(res.metrics, SLA("total_test_duration", ""))
  IN IF storm = <<>> THEN res
     ELSE With(res, <<Metric("vm_boot_time", "", Head(storm).value, "s")>>)

\* VMs are expected to fail: that is how the ceiling is found.
ParseSingleNodeCeiling(out) ==
  LET res == parseSummary(out, "clone_duration")
  IN IF res = Refused THEN Refused
     ELSE [With(res, <<Metric("max_vms_per_node", "", Cardinality(Good(out)), "count")>>)
             EXCEPT !.native = "pass"]

\* The summary, and the percentile from the samples of the detailed file.
ParseClones(out) ==
  LET res == parseSummary(out, "clone_duration")
      samples == Sorted(out, out.kept)
  IN IF res = Refused \/ "detail" \in out.torn THEN Refused
     ELSE IF samples = <<>> THEN res
     ELSE With(res, <<Metric("clone_duration", "p99", percentile(samples, 99) \div 1000, "s")>>)

\* Faulty variant: a VM without a result of its own is not missed.
ParseCollectedFIO(out) ==
  IF out.torn # {} \/ Len(out.took) = 0 THEN Refused
  ELSE IF Failed(out) > 0 THEN Result("fail", runMetrics(out), NoChecks)
  ELSE LET worst == Longest(Sorted(out, out.kept)) IN
       Result("pass", runMetrics(out) \o <<Metric("read_latency", "p99", worst, "ms"),
                                           Metric("write_latency", "p99", worst, "ms")>>,
              NoChecks)

\* Every VM's own result, or nothing; the slowest VM counts.
ParseFIO(out) ==
  IF out.torn # {} \/ Len(out.took) = 0 THEN Refused
  ELSE IF Failed(out) > 0 THEN Result("fail", runMetrics(out), NoChecks)
  ELSE IF Cardinality(out.kept) # Len(out.took) THEN Refused
  ELSE LET worst == Longest(Sorted(out, out.kept)) IN
       Result("pass", runMetrics(out) \o <<Metric("read_latency", "p99", worst, "ms"),
                                           Metric("write_latency", "p99", worst, "ms")>>,
              NoChecks)

\* The log is read line by line.  VMs that the distribution AFTER the drain does
\* not list on the target have left it.
ParseDrain(out) ==
  LET remaining == IF "after" \in out.whole THEN Failed(out) ELSE 0
      total == Len(out.took)
      left == Is(remaining = 0)
  IN IF ~({"target", "before", "time"} \subseteq out.whole) \/ total = 0 THEN Refused
     ELSE Result(left,
                 <<Metric("evacuation_time", "", Longest(Sorted(out, Good(out))) \div 1000, "s"),
                   Metric("vms_total", "", total, ""),
                   Metric("vms_evacuated", "", total - remaining, ""),
                   Metric("vms_remaining", "", remaining, "")>>,
                 [c \in {"all-vms-evacuated"} |-> left])

\* A VM counts as recovered once it answers again.
ParseFailureRecovery(out) ==
  LET res == parseSummary(out, "vm_ha_restart_time")
      recovered == res.native = "pass" /\ out.pinged = Len(out.took)
  IN IF res = Refused THEN Refused
     ELSE [res EXCEPT !.checks = [c \in {"node-failure-vm-recovery", "reattach-failure-modes"} |->
             IF c = "node-failure-vm-recovery" THEN Is(recovered) ELSE res.native]]

\* Attach operations; no VM counts.
ParseDiskOps(out) ==
  IF "summary" \in out.torn THEN Refused
  ELSE Result(Is(Failed(out) = 0),
              phaseMetrics("pvc_attach_time", Sorted(out, Good(out)))
                \o <<Metric("ops_total", "", Len(out.took), ""),
                     Metric("ops_failed", "", Failed(out), "")>>,
              NoChecks)

-----------------------------------------------------------------------------
(* kube-burner and kube-burner-ocp. *)

\* The two samples next to the rank, unless it falls on one.
kubeBurnerPercentile(samples, p) ==
  LET n == Len(samples)
      i == (p * n) \div 100
  IN IF n = 1 THEN samples[1]
     ELSE IF (p * n) % 100 = 0 THEN samples[i]
     ELSE (samples[i] + samples[i + 1]) \div 2

\* A job that waits for its objects passes only with all of them.
jobsPassed(out) == Failed(out) = 0 \/ ~out.verified

latencies(name, samples) ==
  [k \in 1..2 |-> LET p == IF k = 1 THEN 50 ELSE 99 IN
     Metric(name, IF k = 1 THEN "p50" ELSE "p99", kubeBurnerPercentile(samples, p), "ms")]

\* Snapshots: rows per snapshot, or only quantiles over all of them.
parseResults(out, perVolume, allowZero) ==
  LET rows == IF "rows" \in out.whole THEN Sorted(out, out.kept) ELSE <<>>
      quantiles == IF "quantiles" \in out.whole THEN Sorted(out, Good(out)) ELSE <<>>
      samples == IF rows # <<>> THEN rows ELSE quantiles
      ready == IF rows = <<>> /\ jobsPassed(out) THEN out.asked ELSE Len(rows)
      reduced == out.asked = 0 /\ allowZero
      native == Is(jobsPassed(out) /\ (out.asked = 0 \/ ready = out.asked) /\ ~reduced)
  IN IF out.torn # {} \/ (out.asked > 0 /\ ready > out.asked) THEN Refused
     ELSE Result(native,
       (IF samples = <<>> THEN <<>> ELSE latencies("snapshot_ready_time", samples))
         \o (IF out.asked = 0 THEN <<>>
             ELSE <<Metric("snapshot_ready_count", "", ready, "count"),
                    Metric("snapshot_failed_count", "", out.asked - ready, "count")>>)
         \o (IF (perVolume /\ out.asked > 0) \/ reduced
               THEN <<Metric("snapshots_per_volume", "",
                             IF reduced THEN 0 ELSE ready, "count")>> ELSE <<>>),
       [c \in {"jobs_passed"} |-> native])

\* No summary of the jobs: the tool failed.
ParseSnapshots(out, perVolume, allowZero) ==
  IF "jobs" \notin out.whole \cup out.torn THEN Result("fail", <<>>, NoChecks)
  ELSE parseResults(out, perVolume, allowZero)

\* kube-burner-ocp: quantiles that cannot be read are passed over.
Quantiles(out) ==
  IF "quantiles" \in out.whole THEN Sorted(out, Good(out)) ELSE <<>>

\* Volumes count as bound if the job waited for and verified all of them.
mapPVCDensityResults(out, native) ==
  Result(native,
         <<Metric("pvc_requested_count", "", out.ran, "count")>>
           \o (IF Quantiles(out) = <<>> THEN <<>>
               ELSE <<Metric("pvc_bind_latency", "p99",
                             kubeBurnerPercentile(Quantiles(out), 99), "ms")>>),
         [c \in {"jobs_passed", "pvc-1000-bound"} |->
            IF c = "jobs_passed" THEN native
            ELSE Is(jobsPassed(out) /\ out.ran > 0 /\ out.verified)])

\* ... and only if it was asked for as many as the test wants.
matchIterations(out, res) ==
  IF out.asked > 0 /\ out.ran = out.asked THEN res
  ELSE Result("error", res.metrics, [res.checks EXCEPT !["pvc-1000-bound"] = "error"])

mapVirtMigrationResults(out, native) ==
  Result(native,
         <<Metric("total_migration_duration", "", Longest(Sorted(out, Good(out))) \div 1000, "s")>>,
         [c \in {"jobs_passed"} |-> native])

\* The check is for a scale; below it there is nothing to say.
mapVirtParallelResults(out, native) ==
  LET seconds == Longest(Sorted(out, Good(out))) \div 1000
  IN Result(native,
            IF seconds > 0 THEN <<Metric("lifecycle_completion_time", "", seconds, "s")>>
                           ELSE <<>>,
            [c \in {"jobs_passed", "parallel-lifecycle-20"} |->
               IF c = "jobs_passed" \/ out.ran >= virtParallelCheckVMs THEN native ELSE "skip"])

ParseWorkload(out, workload) ==
  LET native == Is(jobsPassed(out))
  IN IF "jobs" \notin out.whole \cup out.torn THEN Result("fail", <<>>, NoChecks)
     ELSE IF "jobs" \in out.torn THEN Refused
     ELSE CASE workload = "density" -> matchIterations(out, mapPVCDensityResults(out, native))
            [] workload = "migration" -> mapVirtMigrationResults(out, native)
            [] OTHER -> mapVirtParallelResults(out, native)

=============================================================================
