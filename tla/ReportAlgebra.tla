---------------------------- MODULE ReportAlgebra ----------------------------
(***************************************************************************)
(* The part of a certification report that decides what is run again and    *)
(* whether the run is certifiable, and the operations of internal/report    *)
(* and internal/orchestrator on it.                                         *)
(*                                                                          *)
(* A report holds, per execution key (TR, variant): the execution record,   *)
(* which is its state and, once completed, its outcome; and one verdict per *)
(* scorable item.  One scenario is modelled, so it is no part of the key.   *)
(* All modelled incidents block certification, so only their IDs are kept.  *)
(* Left out: measurements, environment, attestations, run parts, timings,   *)
(* artifacts and the stage of an execution.                                 *)
(***************************************************************************)

CONSTANTS
  Keys,   \* execution keys
  Items   \* scorable items of a test requirement

Outcomes == {"pass", "fail", "error", "skip"}

\* "none" stands for a verdict that is not in the report.
Verdicts == [Items -> Outcomes \cup {"none"}]

\* "absent" stands for an execution that is not in the report; a completed
\* execution is represented by its outcome.
Records == {"absent", "queued", "running", "aborted"} \cup Outcomes

Statuses == {"none", "running", "complete", "partial", "abandoned"}

IncidentIDs == {"run-cancelled", "run-incomplete", "run-abandoned"}

Reports == [status    : Statuses,
            record    : [Keys -> Records],
            verdict   : [Keys -> Verdicts],
            incidents : SUBSET IncidentIDs]

NoRecords == [k \in Keys |-> "absent"]
NoVerdict == [i \in Items |-> "none"]
NoVerdicts == [k \in Keys |-> NoVerdict]

\* No report.json, or a report with no RunID.
NoReport == [status |-> "none", record |-> NoRecords,
             verdict |-> NoVerdicts, incidents |-> {}]

-----------------------------------------------------------------------------
(* Merge. *)

\* Verdicts are keyed by execution and item: the later one wins.
OverlayVerdicts(base, next) ==
  [k \in Keys |-> [i \in Items |->
     IF next[k][i] = "none" THEN base[k][i] ELSE next[k][i]]]

\* Execution records are keyed by execution: the later one wins, whatever it says.
OverlayRecords(base, next) ==
  [k \in Keys |-> IF next[k] = "absent" THEN base[k] ELSE next[k]]

\* Faulty variant: the incidents of the earlier report are dropped.
MergeForgettingIncidents(base, next) ==
  [status    |-> next.status,
   record    |-> OverlayRecords(base.record, next.record),
   verdict   |-> OverlayVerdicts(base.verdict, next.verdict),
   incidents |-> next.incidents]

Merge(base, next) ==
  [status    |-> next.status,
   record    |-> OverlayRecords(base.record, next.record),
   verdict   |-> OverlayVerdicts(base.verdict, next.verdict),
   incidents |-> base.incidents \cup next.incidents]

Finalize(r, status) == [r EXCEPT !.status = status]

\* Faulty variant: only errors count against certification.
CertifiableDespiteFailures(r) ==
  /\ r.status = "complete"
  /\ r.incidents = {}
  /\ \A k \in Keys, i \in Items : r.verdict[k][i] # "error"

\* RefreshLifecycle's certification flag.
Certifiable(r) ==
  /\ r.status = "complete"
  /\ r.incidents = {}
  /\ \A k \in Keys, i \in Items : r.verdict[k][i] \notin {"fail", "error"}

-----------------------------------------------------------------------------
(* Outcome of one execution and selection of what a continuation runs. *)

Has(verdict, outcomes) == \E i \in Items : verdict[i] \in outcomes

\* Faulty variant: an execution has an outcome only if its items agree.
SummarizeUnanimous(verdict) ==
  IF \E o \in Outcomes : \A i \in Items : verdict[i] = o
    THEN CHOOSE o \in Outcomes : \A i \in Items : verdict[i] = o
    ELSE "none"

\* The worst item decides; an execution with no verdict at all is an error.
Summarize(verdict) ==
  CASE Has(verdict, {"error"}) -> "error"
    [] ~Has(verdict, {"error"}) /\ Has(verdict, {"fail"}) -> "fail"
    [] ~Has(verdict, {"error", "fail"}) /\ Has(verdict, {"pass"}) -> "pass"
    [] ~Has(verdict, {"error", "fail", "pass"}) /\ Has(verdict, {"skip"}) -> "skip"
    [] OTHER -> "error"

\* A record decides when there is one; a report from before records existed is
\* read by its verdicts.
IsCompleted(r, k) ==
  IF r.record[k] = "absent" THEN Has(r.verdict[k], Outcomes)
                            ELSE r.record[k] \in Outcomes

IsFailed(r, k) ==
  IF r.record[k] = "absent" THEN Has(r.verdict[k], {"fail", "error"})
                            ELSE r.record[k] \in {"fail", "error"}

\* Faulty variant: the sense of --retry-failed is inverted.
SkipsUnlessFailed(prior, k, retryFailed) ==
  IsCompleted(prior, k) /\ (retryFailed \/ ~IsFailed(prior, k))

\* ResumeExecutionsWithOptions leaves this execution out.
Skips(prior, k, retryFailed) ==
  IsCompleted(prior, k) /\ (~retryFailed \/ ~IsFailed(prior, k))

=============================================================================
