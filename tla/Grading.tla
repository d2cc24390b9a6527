------------------------------ MODULE Grading ------------------------------
(***************************************************************************)
(* How the result of a test becomes verdicts: internal/grader, and the      *)
(* evaluators the tool adapters put in front of it.                         *)
(*                                                                          *)
(* A test is [tool, slas, checks, bars, params]: slas maps a scorable item  *)
(* to the tools that measure it (a test with a tool has them: kb.Join fills *)
(* in that tool for a missing measured_by), checks maps one to its kind and *)
(* status, bars is a set of [item, op, value, unit, when].  A result is     *)
(* [native, metrics, checks].  Verdicts are a function from items to        *)
(* outcomes: the report keys them by item.                                  *)
(***************************************************************************)
EXTENDS Integers, Sequences, FiniteSets

Outcomes == {"pass", "fail", "error", "skip"}

SLA(metric, percentile) == [kind |-> "sla", name |-> metric, pct |-> percentile]
Check(id) == [kind |-> "check", name |-> id, pct |-> ""]
Native(name) == [kind |-> "native", name |-> name, pct |-> ""]
NoItem == [kind |-> "(none)", name |-> "", pct |-> ""]

-----------------------------------------------------------------------------
(* Units.  Factors to the base unit of a dimension; here time is in ms. *)

UnitTable == [ms  |-> [factor |-> 1, dim |-> "time"],
              s   |-> [factor |-> 1000, dim |-> "time"],
              min |-> [factor |-> 60000, dim |-> "time"],
              percent |-> [factor |-> 1, dim |-> "ratio"],
              iops    |-> [factor |-> 1, dim |-> "iops"]]

Known(unit) == unit \in DOMAIN UnitTable

canonicalize(value, unit) ==
  IF Known(unit) THEN value * UnitTable[unit].factor ELSE value

compare(actual, op, want) ==
  \/ op = "<=" /\ actual <= want
  \/ op = "<"  /\ actual < want
  \/ op = ">=" /\ actual >= want
  \/ op = ">"  /\ actual > want
  \/ op = "==" /\ actual = want

\* Units of two dimensions cannot be compared; a unit that is not in the table
\* takes both sides as they are.
compareWithUnits(m, bar) ==
  LET both == Known(m.unit) /\ Known(bar.unit)
      pass == IF both
                THEN compare(canonicalize(m.value, m.unit), bar.op,
                             canonicalize(bar.value, bar.unit))
                ELSE compare(m.value, bar.op, bar.value)
  IN IF both /\ UnitTable[m.unit].dim # UnitTable[bar.unit].dim THEN "error"
     ELSE IF pass THEN "pass" ELSE "fail"

-----------------------------------------------------------------------------
(* The built-in rules. *)

whenSubset(when, params) ==
  \A k \in DOMAIN when : k \in DOMAIN params /\ params[k] = when[k]

selectBars(test, i) ==
  {b \in test.bars : b.item = i /\ whenSubset(b.when, test.params)}

\* The metrics of that name, in the order of the result: the first one counts.
findMetrics(metrics, i) ==
  SelectSeq(metrics, LAMBDA m : m.name = i.name /\ i.pct \in {"", m.pct})

\* Not measurable by this tool; ambiguous bars; no bar, so only reported; not
\* measured; compared.
gradeSLA(test, i, metrics) ==
  LET bars == selectBars(test, i)
      found == findMetrics(metrics, i)
  IN IF test.tool \notin test.slas[i] THEN "skip"
     ELSE IF Cardinality(bars) > 1 THEN "error"
     ELSE IF bars = {} THEN "skip"
     ELSE IF found = <<>> THEN "error"
     ELSE compareWithUnits(Head(found), CHOOSE b \in bars : TRUE)

GradeSLAs(test, res) ==
  [i \in DOMAIN test.slas |-> gradeSLA(test, i, res.metrics)]

\* A check nobody automated, or that a human signs off, is skipped.
gradeCheck(test, i, outcomes) ==
  IF test.checks[i].status = "to-be-validated" \/ test.checks[i].kind = "manual"
    THEN "skip"
  ELSE IF i.name \notin DOMAIN outcomes THEN "error"
  ELSE IF outcomes[i.name] \in Outcomes THEN outcomes[i.name] ELSE "error"

\* Faulty variant: only checks with an outcome are graded.
GradeReportedChecks(test, res) ==
  [i \in {c \in DOMAIN test.checks : c.name \in DOMAIN res.checks} |->
     gradeCheck(test, i, res.checks)]

GradeChecks(test, res) ==
  [i \in DOMAIN test.checks |-> gradeCheck(test, i, res.checks)]

\* Verdicts on two disjoint or overlapping sets of items: the first one counts.
Also(first, second) ==
  [i \in DOMAIN first \cup DOMAIN second |->
     IF i \in DOMAIN first THEN first[i] ELSE second[i]]

Graded(test, res) == Also(GradeSLAs(test, res), GradeChecks(test, res))

Single(i, outcome) == [j \in {i} |-> IF outcome = "" THEN "error" ELSE outcome]

HasItems(test) == DOMAIN test.slas \cup DOMAIN test.checks # {}

-----------------------------------------------------------------------------
(* Custom evaluators, and what stands in for a grade. *)

\* internal/grader: tests without bars are graded on the tool's own verdict.
NativeOrGraded(test, res) ==
  IF HasItems(test) THEN Graded(test, res)
                    ELSE Single(Native("jobs_passed"), res.native)

\* kube-burner: the tool's own verdict comes on top.
snapshotEvaluator(test, res) ==
  Also(Single(Native("jobs_passed"), res.native), Graded(test, res))

\* virtbench: a run with failed VMs is not graded any further.
scenarioEvaluator(test, res) ==
  IF res.native = "fail" THEN Single(Native("all_vms_succeeded"), "fail")
                         ELSE Graded(test, res)

\* errTR and the like: the same outcome on every item.
itemVerdicts(test, outcome) ==
  [i \in (IF HasItems(test) THEN DOMAIN test.slas \cup DOMAIN test.checks
                            ELSE {NoItem}) |-> outcome]

GradeTR(evaluator, test, res) ==
  CASE evaluator = "native_or_graded" -> NativeOrGraded(test, res)
    [] evaluator = "snapshot" -> snapshotEvaluator(test, res)
    [] evaluator = "scenario" -> scenarioEvaluator(test, res)
    [] OTHER -> Graded(test, res)

\* summarizeTR: the worst outcome; no verdict at all is an error.
summarize(verdicts) ==
  LET said == {verdicts[i] : i \in DOMAIN verdicts}
  IN IF said = {} \/ "error" \in said THEN "error"
     ELSE IF "fail" \in said THEN "fail"
     ELSE IF "pass" \in said THEN "pass" ELSE "skip"

=============================================================================
