---------------------------- MODULE Assessment -----------------------------
(***************************************************************************)
(* From what a tool did to the verdicts in the report: one execution whose  *)
(* tool writes its output file by file and may be killed anywhere, whose    *)
(* time may run out, and which is run again with --retry-failed.            *)
(*                                                                          *)
(* Run, Collect and Parse of the adapters and GradeTR are one step here:    *)
(* they only read what the tool has left.  How an execution is scheduled,   *)
(* cancelled and torn down is JobPipeline's concern, and whether a tool's   *)
(* directory is its own VirtbenchJob's and KubeBurnerJob's.                 *)
(***************************************************************************)
EXTENDS ResultParsing

CONSTANTS
  Catalog,       \* the tests: see Grading, with a kind of tool each
  Durations,     \* bound: how long an object may take, in ms
  MaxObjects,    \* bound: objects of a test
  MaxAttempts    \* bound: executions of the test

VARIABLES
  test,     \* the test, with the parameters of this execution
  out,      \* what its tool has left, and what really happened
  pc,       \* "queued", "running", "exited" or "graded"
  clean,    \* the tool's exit code is 0
  left,     \* the parts of its output that the tool has still to write
  attempt,  \* executions so far
  latest,   \* verdicts of this execution
  report    \* verdicts in the report

vars == <<test, out, pc, clean, left, attempt, latest, report>>

-----------------------------------------------------------------------------
(* The tools. *)

KubeBurner == {"snapshot", "depth"}
KubeBurnerOcp == {"density", "migration", "parallel"}
Virtbench == {"clone", "storm", "ceiling", "fio", "drain", "recovery", "diskops"}

\* What a tool writes, in its order.
Outputs(kind) ==
  CASE kind = "clone" -> {<<"detail", "summary">>}
    [] kind = "fio" -> {<<"raw", "summary">>}
    [] kind = "drain" -> {<<"target", "before", "time", "after">>}
    [] kind \in KubeBurner -> {<<"rows", "jobs">>, <<"quantiles", "jobs">>, <<"jobs", "rows">>}
    [] kind \in KubeBurnerOcp -> {<<"quantiles", "jobs">>, <<"jobs", "quantiles">>}
    [] OTHER -> {<<"summary">>}

\* Scenario.TolerateRunError: a timeout of the drain and VMs that do not fit on the
\* node are graded.
TolerateRunError(kind) == kind \in {"drain", "ceiling"}

\* findResult: the files Collect insists on.
Required(kind) ==
  CASE kind = "clone" -> {"detail", "summary"}
    [] kind = "fio" -> {"raw", "summary"}
    [] OTHER -> {"summary"}

Collected(t) ==
  LET there == out.whole \cup out.torn
  IN CASE t.kind \in KubeBurner \cup KubeBurnerOcp -> TRUE
       [] t.kind = "drain" -> there # {}
       [] OTHER -> /\ Required(t.kind) \subseteq there
                   /\ t.kind = "fio" => out.kept # {}

Parse(t) ==
  CASE t.kind = "storm" -> ParseBootStorm(out)
    [] t.kind = "ceiling" -> ParseSingleNodeCeiling(out)
    [] t.kind = "clone" -> ParseClones(out)
    [] t.kind = "fio" -> ParseFIO(out)
    [] t.kind = "drain" -> ParseDrain(out)
    [] t.kind = "recovery" -> ParseFailureRecovery(out)
    [] t.kind = "diskops" -> ParseDiskOps(out)
    [] t.kind \in KubeBurner -> ParseSnapshots(out, t.kind = "depth", t.kind = "depth")
    [] OTHER -> ParseWorkload(out, t.kind)

Evaluator(kind) ==
  CASE kind \in Virtbench -> "scenario"
    [] kind \in KubeBurner -> "snapshot"
    [] kind \in {"density", "parallel"} -> "native_or_graded"
    [] OTHER -> "built in"

\* The tool's outcome of the check counts.
Reports(t, id) ==
  /\ Check(id) \in DOMAIN t.checks
  /\ t.checks[Check(id)].status # "to-be-validated"
  /\ t.checks[Check(id)].kind # "manual"

\* A test has something to be graded on, its tool's own verdict if nothing else;
\* where that verdict does not count, a check does.
CatalogAssumption ==
  \A t \in Catalog :
    /\ t.kind \in Virtbench \cup KubeBurner \cup KubeBurnerOcp
    /\ \A i \in DOMAIN t.slas : i.kind = "sla"
    /\ Evaluator(t.kind) \in {"scenario", "built in"} => HasItems(t)
    /\ t.kind = "recovery" => Reports(t, "node-failure-vm-recovery")
    /\ t.kind = "density" => Reports(t, "pvc-1000-bound")
    /\ t.kind = "migration" => Reports(t, "jobs_passed")
    /\ t.kind = "parallel" => Reports(t, "parallel-lifecycle-20")

AssessmentAssumption ==
  /\ ParsingAssumption
  /\ CatalogAssumption
  /\ Durations \subseteq Nat
  /\ MaxObjects \in Nat
  /\ MaxAttempts \in Nat \ {0}

-----------------------------------------------------------------------------
NoVerdicts == [i \in {} |-> "pass"]
Objects(n) == 1..n

\* What may really happen to n objects.  Only the tools that keep a file or a row
\* per object can lose one; only a drain and a kube-burner-ocp run may work on
\* another number of objects than asked for.
Happens(t, n) ==
  {o \in [whole : {{}}, torn : {{}}, took : [Objects(n) -> Durations], kept : SUBSET Objects(n),
          pinged : {n - 1, n}, asked : {n}, ran : {n - 1, n}, verified : BOOLEAN] :
     /\ t.kind \notin {"fio"} \cup KubeBurner => o.kept = Good(o)
     /\ o.kept \subseteq Good(o)
     /\ t.kind # "recovery" => o.pinged = n
     /\ t.kind # "density" => o.ran = n /\ o.verified}

\* A plan gives a test its size; the bars look at it, or at the load.
WithParams(t, n, load) ==
  [tool |-> t.tool, kind |-> t.kind, slas |-> t.slas, checks |-> t.checks, bars |-> t.bars,
   params |-> [objects |-> n, load |-> load]]

NoOutput == [whole |-> {}, torn |-> {}, took |-> <<>>, kept |-> {}, pinged |-> 0, asked |-> 0,
             ran |-> 0, verified |-> FALSE]

Init ==
  /\ \E t \in Catalog, n \in 0..MaxObjects, load \in {50, 80} :
       /\ n = 0 => t.kind = "depth"
       /\ load = 80 \/ t.kind = "fio"
       /\ test = WithParams(t, n, load)
  /\ pc = "queued"
  /\ out = NoOutput
  /\ left = <<>>
  /\ clean = FALSE
  /\ attempt = 1
  /\ latest = NoVerdicts
  /\ report = NoVerdicts

\* The tool is started; what will happen to the objects is settled now.
Execute ==
  /\ pc = "queued"
  /\ out' \in Happens(test, test.params.objects)
  /\ left' \in Outputs(test.kind)
  /\ pc' = "running"
  /\ UNCHANGED <<test, clean, attempt, latest, report>>

\* The tool writes the next part of its output.
Write ==
  /\ pc = "running"
  /\ left # <<>>
  /\ out' = [out EXCEPT !.whole = @ \cup {Head(left)}]
  /\ left' = Tail(left)
  /\ UNCHANGED <<test, pc, clean, attempt, latest, report>>

\* It is killed, or gives up, possibly in the middle of a part.
Crash ==
  /\ pc = "running"
  /\ left # <<>>
  /\ out' \in {out, [out EXCEPT !.torn = {Head(left)}]}
  /\ pc' = "exited"
  /\ UNCHANGED <<test, clean, left, attempt, latest, report>>

\* It has written everything.  A tool may also fail without saying so in its files,
\* and say in them what its exit code does not.
Exit ==
  /\ pc = "running"
  /\ left = <<>>
  /\ clean' \in BOOLEAN
  /\ pc' = "exited"
  /\ UNCHANGED <<test, out, left, attempt, latest, report>>

\* Merge replaces item by item.
Conclude(verdicts) ==
  /\ latest' = verdicts
  /\ report' = Also(verdicts, report)
  /\ pc' = "graded"

\* Run returns an error, Collect finds no results, Parse refuses them, or GradeTR
\* has the last word.  kube-burner's error is for Parse to see.
Assess ==
  LET res == Parse(test)
  IN /\ pc = "exited"
     /\ IF \/ test.kind \in Virtbench /\ ~clean /\ ~TolerateRunError(test.kind)
           \/ ~Collected(test)
           \/ res.native = "refused"
          THEN Conclude(itemVerdicts(test, "error"))
          ELSE Conclude(GradeTR(Evaluator(test.kind), test, res))
     /\ UNCHANGED <<test, out, clean, left, attempt>>

\* The limit of the execution has passed, whatever it has come to by then.
Expire ==
  /\ pc \in {"running", "exited"}
  /\ Conclude(itemVerdicts(test, "fail"))
  /\ UNCHANGED <<test, out, clean, left, attempt>>

\* --continue-from with --retry-failed: any failed item of the execution.
Retry ==
  /\ pc = "graded"
  /\ attempt < MaxAttempts
  /\ \E i \in DOMAIN report : report[i] \in {"fail", "error"}
  /\ attempt' = attempt + 1
  /\ pc' = "queued"
  /\ out' = NoOutput /\ left' = <<>> /\ clean' = FALSE
  /\ latest' = NoVerdicts
  /\ UNCHANGED <<test, report>>

Next == Execute \/ Write \/ Crash \/ Exit \/ Assess \/ Expire \/ Retry

Spec == Init /\ [][Next]_vars

-----------------------------------------------------------------------------
(* Properties. *)

TypeOK ==
  /\ pc \in {"queued", "running", "exited", "graded"}
  /\ clean \in BOOLEAN
  /\ attempt \in 1..MaxAttempts
  /\ out.whole \cap out.torn = {}
  /\ Range(latest) \cup Range(report) \subseteq Outcomes
  /\ pc = "graded" <=> latest # NoVerdicts

\* What the test was to measure, in ms or objects, over all of its objects: not
\* over those that the tool has kept or that did not fail.
TrueValue(metric) ==
  LET all == SortSeq(out.took, LAMBDA a, b : a < b)
  IN CASE metric \in {"vm_ha_restart_time", "pvc_attach_time"} -> Total(all) \div Len(all)
       [] metric \in {"snapshot_ready_time", "pvc_bind_latency"} -> kubeBurnerPercentile(all, 99)
       [] metric \in {"max_vms_per_node", "snapshots_per_volume"} -> Cardinality(Good(out))
       [] OTHER -> Last(all)

Meets(b) == compare(TrueValue(b.item.name), b.op, canonicalize(b.value, b.unit))

\* All objects did what they were to do (single-node: as many as the bar asks for).
AllSucceeded ==
  /\ test.kind # "ceiling" => Failed(out) = 0
  /\ test.kind = "recovery" => out.pinged = Len(out.took)
  /\ test.kind = "density" => out.ran = out.asked /\ out.verified

\* "a timeout, which is a FAIL to score from the log": a drain that left VMs on the
\* node does not pass, wherever its log ends.
FailedDrainNeverPasses ==
  pc = "graded" /\ test.kind = "drain" /\ summarize(latest) = "pass" => AllSucceeded

\* The output tells what became of the objects: a drain's log has the distribution
\* AFTER the drain, and a kube-burner-ocp run has the scale its check is for.
TellsAll ==
  /\ test.kind = "drain" => "after" \in out.whole
  /\ test.kind = "parallel" => out.ran >= virtParallelCheckVMs

\* A test passes only if all its objects succeeded, unless it is one of the two that
\* the code grades without knowing: a drain whose log stops before the distribution
\* (FailedDrainNeverPasses is false), and parallel VMs below the scale of the check.
\* Any other output may be cut off anywhere.
PassCountsAll ==
  pc = "graded" /\ summarize(latest) = "pass" /\ TellsAll => AllSucceeded

\* It passes only if every bar that its parameters select is met by what really
\* happened.
PassMeetsBars ==
  pc = "graded" /\ summarize(latest) = "pass" =>
    \A i \in DOMAIN test.slas : \A b \in selectBars(test, i) : Meets(b)

PassIsEarned == PassCountsAll /\ PassMeetsBars

\* Every item of the catalog gets a verdict from every execution, unless it has
\* failed as a whole.
EveryItemAnswered ==
  pc = "graded" =>
    \/ DOMAIN test.slas \cup DOMAIN test.checks \subseteq DOMAIN latest
    \/ \E i \in DOMAIN latest : i.kind = "native" /\ latest[i] = "fail"

\* "distinct executions coexist while a re-run of the same execution replaces the
\* earlier result": a test whose latest run has passed has passed.
RetryReplacesResult ==
  pc = "graded" /\ summarize(latest) = "pass" => summarize(report) = "pass"

=============================================================================
