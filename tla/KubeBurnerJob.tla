---------------------------- MODULE KubeBurnerJob ----------------------------
(***************************************************************************)
(* The tests of the two kube-burner adapters (internal/tools/kubeburner and *)
(* kubeburnerocp, with the snapshot selection of internal/clustercheck): a  *)
(* namespace, for snapshot tests a private StorageClass whose StorageProfile*)
(* pins the snapshot class, and a results directory under the working       *)
(* directory.                                                               *)
(*                                                                          *)
(* Both adapters are in the same exclusivity groups, so the tests of a run  *)
(* go one after another, in any order, each through the stages of           *)
(* JobPipeline.  CDI reconciles profiles at its own pace, kubectl and the   *)
(* CLI may fail in every call, and the process may be killed; the next run  *)
(* is started in the same working directory.                                *)
(***************************************************************************)
EXTENDS Integers, FiniteSets

CONSTANTS
  Tests,
  Ocp,         \* the tests of kube-burner-ocp; the others are kube-burner's
  Snapshots,   \* the tests with a "snapshot_count" above 0
  Pinned,      \* the backend names a "snapshot_class"
  Namespace,   \* Namespace[t]: the "namespace" of a kube-burner test
  MaxTests,    \* bound: tests in a run
  MaxRuns,     \* bound: one process after another
  None

KubeBurnerAssumption ==
  /\ None \notin Tests
  /\ Ocp \subseteq Tests
  /\ Snapshots \subseteq Tests
  /\ Pinned \in BOOLEAN
  /\ MaxRuns \in Nat \ {0}

Runs == 1..MaxRuns
Namespaces == {Namespace[t] : t \in Tests \ Ocp}

VARIABLES
  (* the cluster *)
  space,     \* space[n]: namespace n is "absent", "active" or "terminating"
  class,     \* class[r, t]: the private class made by test t of run r
  (* the working directory *)
  summary,   \* summary[t]: the run whose jobSummary.json lies in t's directory, or 0
  (* the process *)
  run,       \* number of the process
  done,      \* the tests that are over in this run
  pc,
  test,      \* the current test, None if there is none
  ctx,       \* its context: "live" or "done"
  bag,
  evidence,  \* the run whose results the current test was graded on, or 0
  (* history *)
  trouble    \* a command of this test's teardown failed

cluster == <<space, class>>
vars == <<cluster, summary, run, done, pc, test, ctx, bag, evidence, trouble>>

\* Of a private class: it exists, CDI has made its profile, the profile is
\* patched, and its status shows the patch.
ClassStates == {"absent", "made", "profiled", "patched", "ready"}
Own == <<run, test>>

\* "params", "snapshot_selection" and "snapshot_storage_class".
EmptyBag == [params |-> FALSE, selection |-> FALSE, created |-> FALSE]

Init ==
  /\ space = [n \in Namespaces |-> "absent"]
  /\ class = [c \in Runs \X Tests |-> "absent"]
  /\ summary = [t \in Tests |-> 0]
  /\ run = 1
  /\ done = {}
  /\ pc = "idle"
  /\ test = None
  /\ ctx = "live"
  /\ bag = EmptyBag
  /\ evidence = 0
  /\ trouble = FALSE

NewTest ==
  /\ pc' = "idle"
  /\ test' = None
  /\ ctx' = "live"
  /\ bag' = EmptyBag
  /\ evidence' = 0
  /\ trouble' = FALSE

-----------------------------------------------------------------------------
(* Preflight and Provision. *)

Begin(t) ==
  /\ pc = "idle"
  /\ t \notin done
  /\ Cardinality(done) < MaxTests
  /\ test' = t
  /\ pc' = "preflight"
  /\ UNCHANGED <<cluster, summary, run, done, ctx, bag, evidence, trouble>>

\* A stage is followed by the next one if it returned no error and the context is
\* live; a stage that fails, for one of the many reasons it has, by Teardown.
GoOn(next) ==
  \/ ctx = "live" /\ pc' = next
  \/ pc' = "teardown"

\* The checks read only.  ResolveSnapshot may fail, and then so does the preflight.
Preflight ==
  /\ pc = "preflight"
  /\ \/ /\ bag' = [bag EXCEPT !.params = TRUE,
                             !.selection = test \in Snapshots \ Ocp]
        /\ GoOn(IF test \in Snapshots \ Ocp /\ Pinned THEN "create" ELSE "dir")
     \/ /\ bag' = [bag EXCEPT !.params = TRUE]
        /\ pc' = "teardown"
  /\ UNCHANGED <<cluster, summary, run, done, test, ctx, evidence, trouble>>

\* How prepareVMStorage returns once it knows the name of its class.
\* Faulty variant: Provision notes the class of a preparation that succeeded.
ReturnSuccessOnly(ok) ==
  /\ bag' = [bag EXCEPT !.created = ok]
  /\ pc' = IF ok THEN "dir" ELSE "teardown"
Return(ok) ==
  /\ bag' = [bag EXCEPT !.created = TRUE]
  /\ pc' = IF ok THEN "dir" ELSE "teardown"

\* The copy gets a generated name.  When the reply is lost, nothing knows it.
CreateClass ==
  /\ pc = "create"
  /\ \/ class' = [class EXCEPT ![Own] = "made"] /\ pc' \in {"profile", "teardown"}
     \/ pc' = "teardown" /\ UNCHANGED class
  /\ UNCHANGED <<space, summary, run, done, test, ctx, bag, evidence, trouble>>

\* "wait --for=create" of the profile that CDI makes for the class.
AwaitProfile ==
  /\ pc = "profile"
  /\ \/ ctx = "live" /\ class[Own] # "made" /\ pc' = "patch" /\ UNCHANGED bag
     \/ Return(FALSE)
  /\ UNCHANGED <<cluster, summary, run, done, test, ctx, evidence, trouble>>

PatchProfile ==
  /\ pc = "patch"
  /\ \/ class' = [class EXCEPT ![Own] = "patched"] /\ pc' = "settle" /\ UNCHANGED bag
     \/ class' \in {class, [class EXCEPT ![Own] = "patched"]} /\ Return(FALSE)
  /\ UNCHANGED <<space, summary, run, done, test, ctx, evidence, trouble>>

\* WaitForStorageProfile polls until the status has the selected snapshot class and
\* complete claim properties.
\* Faulty variant: it waits for nothing.
SettleAtOnce ==
  /\ pc = "settle"
  /\ Return(TRUE)
  /\ UNCHANGED <<cluster, summary, run, done, test, ctx, evidence, trouble>>
Settle ==
  /\ pc = "settle"
  /\ \/ class[Own] = "ready" /\ Return(TRUE)
     \/ Return(FALSE)
  /\ UNCHANGED <<cluster, summary, run, done, test, ctx, evidence, trouble>>

ResultsDir ==
  /\ pc = "dir"
  /\ GoOn("stage")
  /\ UNCHANGED <<cluster, summary, run, done, test, ctx, bag, evidence, trouble>>

-----------------------------------------------------------------------------
(* Run, Collect and Parse. *)

\* kube-burner removes the directory of the test and fills it anew; a failure of
\* that fails the test.  kube-burner-ocp makes it if need be, and a failure is only
\* recorded: there is no directory to collect from then, so Parse fails the test.
\* Faulty variant: kube-burner does not remove it either.
StageInPlace ==
  /\ pc = "stage"
  /\ pc' \in {"cli", "teardown"}
  /\ UNCHANGED <<cluster, summary, run, done, test, ctx, bag, evidence, trouble>>
Stage ==
  /\ pc = "stage"
  /\ \/ /\ test \notin Ocp
        /\ summary' = [summary EXCEPT ![test] = 0]
        /\ pc' = "cli"
     \/ test \in Ocp /\ pc' = "cli" /\ UNCHANGED summary
     \/ /\ summary' \in {summary, [summary EXCEPT ![test] = 0]}
        /\ test \in Ocp => summary' = summary
        /\ pc' = "teardown"
  /\ UNCHANGED <<cluster, run, done, test, ctx, bag, evidence, trouble>>

CLIWorks ==
  /\ pc = "cli"
  /\ test \notin Ocp
  /\ space[Namespace[test]] = "absent"
  /\ space' = [space EXCEPT ![Namespace[test]] = "active"]
  /\ UNCHANGED <<class, summary, run, done, pc, test, ctx, bag, evidence, trouble>>

\* The end of the context kills the CLI.  Whether it failed is noted for Parse and
\* does not stop the test; it may have written its summary before.
RunCLI ==
  /\ pc = "cli"
  /\ \/ /\ ctx = "live"
        /\ test \notin Ocp => space[Namespace[test]] = "active"
        /\ summary' = [summary EXCEPT ![test] = run]
        /\ pc' = "collect"
     \/ /\ summary' \in {summary, [summary EXCEPT ![test] = run]}
        /\ pc' = IF ctx = "live" THEN "collect" ELSE "teardown"
  /\ UNCHANGED <<cluster, run, done, test, ctx, bag, evidence, trouble>>

\* Collect takes what lies in the directory of the test, Parse grades that.  Without a
\* jobSummary.json the test has failed; with one it is graded on it, whatever became of
\* the CLI.
Collect ==
  /\ pc = "collect"
  /\ evidence' \in {0, summary[test]}
  /\ GoOn("parse")
  /\ UNCHANGED <<cluster, summary, run, done, test, ctx, bag, trouble>>

Parse ==
  /\ pc = "parse"
  /\ pc' = "teardown"
  /\ evidence' \in IF ctx = "live" THEN {0, evidence} ELSE {0}
  /\ UNCHANGED <<cluster, summary, run, done, test, ctx, bag, trouble>>

-----------------------------------------------------------------------------
(* Teardown, on a context of its own.  Commands that fail are logged. *)

\* kube-burner's namespace, unless Preflight did not get as far as the parameters.
RemoveNamespace ==
  LET goes == test \notin Ocp /\ bag.params /\ space[Namespace[test]] = "active"
  IN  /\ pc = "teardown"
      /\ pc' = "class"
      /\ \/ /\ space' = IF goes THEN [space EXCEPT ![Namespace[test]] = "terminating"]
                                ELSE space
            /\ UNCHANGED trouble
         \/ goes /\ trouble' = TRUE /\ UNCHANGED space
      /\ UNCHANGED <<class, summary, run, done, test, ctx, bag, evidence>>

\* CleanupVMStorage, deferred: it comes after the namespace in all cases.
RemoveClass ==
  /\ pc = "class"
  /\ pc' = "over"
  /\ \/ /\ class' = IF bag.created THEN [class EXCEPT ![Own] = "absent"] ELSE class
        /\ UNCHANGED trouble
     \/ bag.created /\ trouble' = TRUE /\ UNCHANGED class
  /\ UNCHANGED <<space, summary, run, done, test, ctx, bag, evidence>>

Finish ==
  /\ pc = "over"
  /\ done' = done \cup {test}
  /\ NewTest
  /\ UNCHANGED <<cluster, summary, run>>

-----------------------------------------------------------------------------
(* Around the process. *)

\* The limit of the test passes, or the run is cancelled.
EndContext ==
  /\ test # None
  /\ ctx = "live"
  /\ ctx' = "done"
  /\ UNCHANGED <<cluster, summary, run, done, pc, test, bag, evidence, trouble>>

\* The process is killed, or has ended; another one follows.
StartAnotherRun ==
  /\ run < MaxRuns
  /\ run' = run + 1
  /\ done' = {}
  /\ NewTest
  /\ UNCHANGED <<cluster, summary>>

NamespaceGone ==
  /\ \E n \in Namespaces :
       /\ space[n] = "terminating"
       /\ space' = [space EXCEPT ![n] = "absent"]
  /\ UNCHANGED <<class, summary, run, done, pc, test, ctx, bag, evidence, trouble>>

\* CDI makes the profile of a new class, and brings its status up to date.
Reconcile ==
  /\ \E c \in Runs \X Tests :
       \/ class[c] = "made" /\ class' = [class EXCEPT ![c] = "profiled"]
       \/ class[c] = "patched" /\ class' = [class EXCEPT ![c] = "ready"]
  /\ UNCHANGED <<space, summary, run, done, pc, test, ctx, bag, evidence, trouble>>

Next ==
  \/ \E t \in Tests : Begin(t)
  \/ Preflight
  \/ CreateClass
  \/ AwaitProfile
  \/ PatchProfile
  \/ Settle
  \/ ResultsDir
  \/ Stage
  \/ CLIWorks
  \/ RunCLI
  \/ Collect
  \/ Parse
  \/ RemoveNamespace
  \/ RemoveClass
  \/ Finish
  \/ EndContext
  \/ StartAnotherRun
  \/ NamespaceGone
  \/ Reconcile

Spec == Init /\ [][Next]_vars

-----------------------------------------------------------------------------
(* Properties. *)

TypeOK ==
  /\ space \in [Namespaces -> {"absent", "active", "terminating"}]
  /\ class \in [Runs \X Tests -> ClassStates]
  /\ summary \in [Tests -> 0..MaxRuns]
  /\ run \in Runs
  /\ done \subseteq Tests
  /\ pc \in {"idle", "preflight", "create", "profile", "patch", "settle", "dir",
             "stage", "cli", "collect", "parse", "teardown", "class", "over"}
  /\ test \in Tests \cup {None}
  /\ (test = None) <=> (pc = "idle")
  /\ ctx \in {"live", "done"}
  /\ bag \in [params : BOOLEAN, selection : BOOLEAN, created : BOOLEAN]
  /\ evidence \in 0..MaxRuns
  /\ trouble \in BOOLEAN

\* A test that is over, with no command of its teardown having failed, leaves
\* neither its namespace nor a private class whose name it learnt, however it ended
\* ("returns the copy's name even on later failure", storage.go): at a profile that
\* never came, a patch whose reply was lost, or a context that ended.
PrivateStorageReturned ==
  pc = "over" /\ ~trouble =>
    /\ bag.params /\ test \notin Ocp => space[Namespace[test]] # "active"
    /\ class[Own] = "absent" \/ ~bag.created
    /\ class[Own] \in {"absent", "made", "profiled"}

\* Snapshots are measured on the class that was selected and reported: kube-burner
\* works on a private class only after CDI has taken over its patch.
MeasuredOnSelectedClass ==
  pc \in {"stage", "cli"} /\ bag.selection /\ Pinned => class[Own] = "ready"

\* A test is graded on what its own run wrote.  "Every execution gets its own
\* directory so a collector can never reach another execution's output" (types.go);
\* kube-burner-ocp does not keep this.
GradedOnOwnResults == evidence \in {0, run}

\* The part of it that the code does keep: kube-burner clears its directory.
SnapshotTestsGradedOnOwnResults == test \notin Ocp => GradedOnOwnResults

=============================================================================
