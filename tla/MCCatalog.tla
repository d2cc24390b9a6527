----------------------------- MODULE MCCatalog ------------------------------
(* The tests of the catalog, at a small scale: full scale is three objects,    *)
(* and what takes six minutes is in time where eighteen are not.               *)
EXTENDS Grading

Full == 3
AtFull == [objects |-> Full]

Bar(item, op, value, unit, when) ==
  [item |-> item, op |-> op, value |-> value, unit |-> unit, when |-> when]

\* Items that a test's own tool measures, and checks that it reports.
Measured(tool, items) == [i \in items |-> {tool}]
Checks(kind, ids) == [i \in {Check(id) : id \in ids} |-> [kind |-> kind, status |-> "defined"]]

TestOf(kind, tool, slas, checks, bars) ==
  [kind |-> kind, tool |-> tool, slas |-> slas, checks |-> checks, bars |-> bars]

\* A test with one measured item and one bar at full scale.
OneBar(kind, tool, item, op, value, unit, checks) ==
  TestOf(kind, tool, Measured(tool, {item}), checks, {Bar(item, op, value, unit, AtFull)})

NoCheck == Checks("suite", {})
Latencies == {SLA("read_latency", "p99"), SLA("write_latency", "p99")}
Ceiling == SLA("max_vms_per_node", "")
Luns == SLA("max_luns_per_node", "")
Migration == SLA("total_migration_duration", "")
Lifecycle == SLA("lifecycle_completion_time", "")

AllTests ==
  {OneBar("storm", "vb", SLA("vm_boot_time", ""), "<", 12, "min", NoCheck),
   OneBar("clone", "vb", SLA("clone_duration", "p99"), "<", 720, "s", NoCheck),
   OneBar("recovery", "vb", SLA("vm_ha_restart_time", ""), "<=", 720, "s",
          Checks("suite", {"node-failure-vm-recovery", "reattach-failure-modes"})),
   OneBar("drain", "vb", SLA("evacuation_time", ""), "<=", 12, "min",
          Checks("suite", {"all-vms-evacuated"})),
   OneBar("diskops", "vb", SLA("pvc_attach_time", ""), "<", 12, "min", NoCheck),
   OneBar("snapshot", "kb", SLA("snapshot_ready_time", "p99"), "<=", 720, "s", NoCheck),
   OneBar("depth", "kb", SLA("snapshots_per_volume", ""), ">=", Full, "count", NoCheck),
   OneBar("density", "ocp", SLA("pvc_bind_latency", "p99"), "<=", 720, "s",
          Checks("suite", {"pvc-1000-bound"})),
   \* It has a bar below the scale of its check, too.
   TestOf("parallel", "ocp", Measured("ocp", {Lifecycle}),
          Checks("scenario", {"parallel-lifecycle-20"}),
          {Bar(Lifecycle, "<=", 12, "min", [objects |-> 2]),
           Bar(Lifecycle, "<=", 12, "min", AtFull)}),
   \* Slower at a larger scale.
   TestOf("migration", "ocp", Measured("ocp", {Migration}), Checks("suite", {"jobs_passed"}),
          {Bar(Migration, "<=", 12, "min", [objects |-> 2]),
           Bar(Migration, "<=", 36, "min", AtFull)}),
   \* One of the two is only reported.
   TestOf("ceiling", "vb", Measured("vb", {Ceiling, Luns}), NoCheck,
          {Bar(Ceiling, ">=", 2, "count", AtFull)}),
   \* A bar for a load, whatever the scale; another tool is needed for a third item.
   TestOf("fio", "vb",
          [i \in Latencies \cup {SLA("fsync_latency", "p99")} |->
             IF i \in Latencies THEN {"vb"} ELSE {}], NoCheck,
          {Bar(i, "<=", 720000, "ms", [load |-> 80]) : i \in Latencies})}

=============================================================================
