------------------------ MODULE KubeBurnerJobProofs ------------------------
(***************************************************************************)
(* Theorems about KubeBurnerJob, for any tests, namespaces and runs.  The  *)
(* invariant says how far the private class of the current test has come   *)
(* at each point of its stages, and whose summary lies in its directory.   *)
(***************************************************************************)
EXTENDS KubeBurnerJob, TLAPS

\* Nothing of a test that has not begun exists, and nothing of the next run.
ToCome(r, t) ==
  \/ r > run
  \/ r = run /\ t \notin done /\ (t = test => pc \in {"preflight", "create"})
FreshInv ==
  /\ \A r \in Runs, t \in Tests : ToCome(r, t) => class[<<r, t>>] = "absent"
  /\ test \notin done

\* The bag is empty before Preflight and has the parameters from then on; a selection
\* is that of a snapshot test; a class is noted at the end of its preparation.
BagInv ==
  /\ pc \in {"idle", "preflight"} => bag = EmptyBag
  /\ pc \notin {"idle", "preflight"} => bag.params
  /\ bag.selection => test \in Snapshots \ Ocp
  /\ pc \in {"create", "profile", "patch", "settle"} => ~bag.created

\* The private class of the current test.
ClassInv ==
  /\ pc = "profile" => class[Own] \in {"made", "profiled"}
  /\ pc = "patch" => class[Own] = "profiled"
  /\ pc = "settle" => class[Own] \in {"patched", "ready"}
  /\ pc \in {"dir", "stage", "cli"} /\ bag.selection /\ Pinned => class[Own] = "ready"
  /\ pc \in {"dir", "stage", "cli", "collect", "parse", "teardown", "class", "over"} =>
       \/ bag.created
       \/ class[Own] \in {"absent", "made", "profiled"}

\* What is gone as the Teardown goes along.
TeardownInv ==
  /\ pc \in {"class", "over"} /\ ~trouble /\ test \notin Ocp =>
       space[Namespace[test]] # "active"
  /\ pc = "over" /\ ~trouble /\ bag.created => class[Own] = "absent"

\* From the CLI to the collection there is no other summary in the directory of a test
\* of kube-burner than that of its own run.
SummaryInv ==
  /\ pc \in {"cli", "collect"} /\ test \notin Ocp => summary[test] \in {0, run}
  /\ test \notin Ocp => evidence \in {0, run}

IInv ==
  /\ TypeOK
  /\ FreshInv
  /\ BagInv
  /\ ClassInv
  /\ TeardownInv
  /\ SummaryInv

-----------------------------------------------------------------------------
LEMMA Constants ==
  ASSUME KubeBurnerAssumption
  PROVE  /\ None \notin Tests
         /\ Ocp \subseteq Tests /\ Snapshots \subseteq Tests /\ None \notin Ocp
         /\ Pinned \in BOOLEAN
         /\ MaxRuns \in Nat \ {0}
  BY DEF KubeBurnerAssumption

\* The current test has a class of its own, and a namespace unless it is one of
\* kube-burner-ocp.
LEMMA OwnFacts ==
  ASSUME TypeOK, pc # "idle"
  PROVE  /\ test \in Tests
         /\ Own \in Runs \X Tests
         /\ test \notin Ocp => Namespace[test] \in Namespaces
         /\ run \in Nat
  BY DEF TypeOK, Own, Namespaces, Runs

\* The bag is one after any of its three entries is set.
LEMMA BagFacts ==
  ASSUME TypeOK, NEW p \in BOOLEAN
  PROVE  /\ EmptyBag \in [params : BOOLEAN, selection : BOOLEAN, created : BOOLEAN]
         /\ [bag EXCEPT !.created = p] \in
              [params : BOOLEAN, selection : BOOLEAN, created : BOOLEAN]
         /\ [bag EXCEPT !.params = TRUE, !.selection = p] \in
              [params : BOOLEAN, selection : BOOLEAN, created : BOOLEAN]
         /\ [bag EXCEPT !.params = TRUE] \in
              [params : BOOLEAN, selection : BOOLEAN, created : BOOLEAN]
  BY DEF TypeOK, EmptyBag

\* What a test does to its own class leaves those to come alone.
LEMMA FreshStays ==
  ASSUME IInv, pc # "idle", pc' \notin {"preflight", "create"},
         UNCHANGED <<run, done, test>>,
         \A c \in Runs \X Tests : c # Own => class'[c] = class[c]
  PROVE  FreshInv'
  <1>1. test \notin done'
    BY DEF IInv, FreshInv
  <1>2. ASSUME NEW r \in Runs, NEW t \in Tests, ToCome(r, t)'
        PROVE  class'[<<r, t>>] = "absent"
    <2>1. <<r, t>> # Own /\ ToCome(r, t)
      BY <1>2 DEF ToCome, Own, IInv, TypeOK, Runs
    <2>2. QED
      BY <2>1 DEF IInv, FreshInv
  <1>3. QED
    BY <1>1, <1>2 DEF FreshInv

-----------------------------------------------------------------------------
(* The invariant holds initially, and every action preserves it. *)

LEMMA InitIInv ==
  ASSUME KubeBurnerAssumption, Init
  PROVE  IInv
  <1> USE Constants DEF Init
  <1>1. EmptyBag \in [params : BOOLEAN, selection : BOOLEAN, created : BOOLEAN]
    BY DEF EmptyBag
  <1>2. /\ space \in [Namespaces -> {"absent", "active", "terminating"}]
        /\ class \in [Runs \X Tests -> ClassStates]
        /\ summary \in [Tests -> 0..MaxRuns]
        /\ run \in Runs /\ done \subseteq Tests /\ evidence \in 0..MaxRuns
    BY DEF Runs, ClassStates
  <1>3. TypeOK
    BY <1>1, <1>2 DEF TypeOK
  <1>4. FreshInv
    BY DEF FreshInv
  <1>5. BagInv
    BY DEF BagInv, EmptyBag
  <1>6. ClassInv /\ TeardownInv
    BY Zenon DEF ClassInv, TeardownInv
  <1>7. SummaryInv
    BY DEF SummaryInv
  <1>8. QED
    BY <1>3, <1>4, <1>5, <1>6, <1>7 DEF IInv

LEMMA BeginIInv ==
  ASSUME KubeBurnerAssumption, IInv, NEW t \in Tests, Begin(t)
  PROVE  IInv'
  <1> USE Constants DEF IInv, Begin, cluster
  <1>1. TypeOK'
    BY DEF TypeOK
  <1>2. FreshInv'
    BY DEF TypeOK, FreshInv, ToCome
  <1>3. BagInv'
    BY DEF BagInv, EmptyBag
  <1>4. ClassInv' /\ TeardownInv'
    BY DEF ClassInv, TeardownInv
  <1>5. SummaryInv'
    BY DEF SummaryInv, TypeOK
  <1>6. QED
    BY <1>1, <1>2, <1>3, <1>4, <1>5 DEF IInv

LEMMA PreflightIInv ==
  ASSUME KubeBurnerAssumption, IInv, Preflight
  PROVE  IInv'
  <1> USE Constants DEF IInv, cluster
  <1>1. /\ pc = "preflight" /\ test \in Tests /\ bag = EmptyBag
        /\ class[Own] = "absent"
        /\ UNCHANGED <<cluster, summary, run, done, test, ctx, evidence, trouble>>
    BY DEF Preflight, TypeOK, BagInv, FreshInv, ToCome, Own, Runs
  <1>2. /\ bag' \in [params : BOOLEAN, selection : BOOLEAN, created : BOOLEAN]
        /\ bag'.params /\ ~bag'.created
        /\ bag'.selection => test \in Snapshots \ Ocp
        /\ pc' \in {"create", "dir", "teardown"}
        /\ pc' = "dir" => ~(bag'.selection /\ Pinned)
    <2>1. CASE /\ bag' = [bag EXCEPT !.params = TRUE, !.selection = test \in Snapshots \ Ocp]
               /\ GoOn(IF test \in Snapshots \ Ocp /\ Pinned THEN "create" ELSE "dir")
      <3>1. (test \in Snapshots \ Ocp) \in BOOLEAN
        OBVIOUS
      <3>2. bag' \in [params : BOOLEAN, selection : BOOLEAN, created : BOOLEAN]
        BY <2>1, <3>1, BagFacts
      <3>3. bag'.params /\ ~bag'.created /\ (bag'.selection <=> test \in Snapshots \ Ocp)
        BY <1>1, <2>1 DEF EmptyBag
      <3>4. QED
        BY <2>1, <3>2, <3>3 DEF GoOn
    <2>2. CASE bag' = [bag EXCEPT !.params = TRUE] /\ pc' = "teardown"
      BY <1>1, <2>2, BagFacts DEF EmptyBag
    <2>3. QED
      BY <2>1, <2>2 DEF Preflight
  <1>3. TypeOK'
    BY <1>1, <1>2 DEF TypeOK
  <1>4. FreshInv'
    BY <1>1, <1>2 DEF FreshInv, ToCome
  <1>5. BagInv'
    BY <1>1, <1>2 DEF BagInv
  <1>6. ClassInv' /\ TeardownInv'
    BY <1>1, <1>2 DEF ClassInv, TeardownInv, Own
  <1>7. SummaryInv'
    BY <1>1, <1>2 DEF SummaryInv
  <1>8. QED
    BY <1>3, <1>4, <1>5, <1>6, <1>7 DEF IInv

LEMMA CreateClassIInv ==
  ASSUME KubeBurnerAssumption, IInv, CreateClass
  PROVE  IInv'
  <1> USE Constants DEF IInv
  <1>1. /\ pc = "create" /\ test \in Tests /\ Own \in Runs \X Tests
        /\ class[Own] = "absent"
        /\ \/ class' = [class EXCEPT ![Own] = "made"] /\ pc' \in {"profile", "teardown"}
           \/ class' = class /\ pc' = "teardown"
        /\ UNCHANGED <<space, summary, run, done, test, ctx, bag, evidence, trouble>>
    BY OwnFacts DEF CreateClass, TypeOK, FreshInv, ToCome, Own, Runs
  <1>2. /\ class' \in [Runs \X Tests -> ClassStates]
        /\ class'[Own] \in {"absent", "made"}
        /\ pc' = "profile" => class'[Own] = "made"
        /\ \A c \in Runs \X Tests : c # Own => class'[c] = class[c]
    BY <1>1 DEF TypeOK, ClassStates
  <1>3. TypeOK'
    BY <1>1, <1>2 DEF TypeOK
  <1>4. FreshInv'
    BY <1>1, <1>2, FreshStays
  <1>5. BagInv'
    BY <1>1 DEF BagInv
  <1>6. ClassInv' /\ TeardownInv'
    BY <1>1, <1>2 DEF ClassInv, TeardownInv, Own
  <1>7. SummaryInv'
    BY <1>1 DEF SummaryInv
  <1>8. QED
    BY <1>3, <1>4, <1>5, <1>6, <1>7 DEF IInv

\* The preparation of a class: after its creation every way it may end notes it.
LEMMA AwaitProfileIInv ==
  ASSUME KubeBurnerAssumption, IInv, AwaitProfile
  PROVE  IInv'
  <1> USE Constants DEF IInv, cluster
  <1>1. /\ pc = "profile" /\ test \in Tests /\ class[Own] \in {"made", "profiled"}
        /\ \/ class[Own] = "profiled" /\ pc' = "patch" /\ bag' = bag
           \/ pc' = "teardown" /\ bag' = [bag EXCEPT !.created = TRUE]
        /\ UNCHANGED <<cluster, summary, run, done, test, ctx, evidence, trouble>>
    BY OwnFacts DEF AwaitProfile, ClassInv, Return
  <1>2. /\ bag' \in [params : BOOLEAN, selection : BOOLEAN, created : BOOLEAN]
        /\ bag'.params = bag.params /\ bag'.selection = bag.selection
        /\ pc' = "patch" => bag'.created = bag.created
        /\ pc' = "teardown" => bag'.created
    BY <1>1, BagFacts DEF TypeOK
  <1>3. TypeOK'
    BY <1>1, <1>2 DEF TypeOK
  <1>4. FreshInv'
    BY <1>1, FreshStays
  <1>5. BagInv'
    BY <1>1, <1>2 DEF BagInv
  <1>6. ClassInv' /\ TeardownInv'
    BY <1>1, <1>2 DEF ClassInv, TeardownInv, Own
  <1>7. SummaryInv'
    BY <1>1 DEF SummaryInv
  <1>8. QED
    BY <1>3, <1>4, <1>5, <1>6, <1>7 DEF IInv

LEMMA PatchProfileIInv ==
  ASSUME KubeBurnerAssumption, IInv, PatchProfile
  PROVE  IInv'
  <1> USE Constants DEF IInv
  <1>1. /\ pc = "patch" /\ test \in Tests /\ Own \in Runs \X Tests
        /\ class[Own] = "profiled"
        /\ class' \in {class, [class EXCEPT ![Own] = "patched"]}
        /\ \/ /\ class' = [class EXCEPT ![Own] = "patched"]
              /\ pc' = "settle" /\ bag' = bag
           \/ pc' = "teardown" /\ bag' = [bag EXCEPT !.created = TRUE]
        /\ UNCHANGED <<space, summary, run, done, test, ctx, evidence, trouble>>
    BY OwnFacts DEF PatchProfile, ClassInv, Return
  <1>2. /\ class' \in [Runs \X Tests -> ClassStates]
        /\ pc' = "settle" => class'[Own] = "patched"
        /\ \A c \in Runs \X Tests : c # Own => class'[c] = class[c]
    BY <1>1 DEF TypeOK, ClassStates
  <1>3. /\ bag' \in [params : BOOLEAN, selection : BOOLEAN, created : BOOLEAN]
        /\ bag'.params = bag.params /\ bag'.selection = bag.selection
        /\ pc' = "settle" => bag'.created = bag.created
        /\ pc' = "teardown" => bag'.created
    BY <1>1, BagFacts DEF TypeOK
  <1>4. TypeOK'
    BY <1>1, <1>2, <1>3 DEF TypeOK
  <1>5. FreshInv'
    BY <1>1, <1>2, FreshStays
  <1>6. BagInv'
    BY <1>1, <1>3 DEF BagInv
  <1>7. ClassInv' /\ TeardownInv'
    BY <1>1, <1>2, <1>3 DEF ClassInv, TeardownInv, Own
  <1>8. SummaryInv'
    BY <1>1 DEF SummaryInv
  <1>9. QED
    BY <1>4, <1>5, <1>6, <1>7, <1>8 DEF IInv

LEMMA SettleIInv ==
  ASSUME KubeBurnerAssumption, IInv, Settle
  PROVE  IInv'
  <1> USE Constants DEF IInv, cluster
  <1>1. /\ pc = "settle" /\ test \in Tests
        /\ pc' \in {"dir", "teardown"} /\ (pc' = "dir" => class[Own] = "ready")
        /\ bag' = [bag EXCEPT !.created = TRUE]
        /\ UNCHANGED <<cluster, summary, run, done, test, ctx, evidence, trouble>>
    BY OwnFacts DEF Settle, Return
  <1>2. /\ bag' \in [params : BOOLEAN, selection : BOOLEAN, created : BOOLEAN]
        /\ bag'.params = bag.params /\ bag'.selection = bag.selection
        /\ bag'.created
    BY <1>1, BagFacts DEF TypeOK
  <1>3. TypeOK'
    BY <1>1, <1>2 DEF TypeOK
  <1>4. FreshInv'
    BY <1>1, FreshStays
  <1>5. BagInv'
    BY <1>1, <1>2 DEF BagInv
  <1>6. ClassInv' /\ TeardownInv'
    BY <1>1, <1>2 DEF ClassInv, TeardownInv, Own
  <1>7. SummaryInv'
    BY <1>1 DEF SummaryInv
  <1>8. QED
    BY <1>3, <1>4, <1>5, <1>6, <1>7 DEF IInv

\* The stages between touch neither the class nor the bag.
LEMMA StageStepIInv ==
  ASSUME KubeBurnerAssumption, IInv,
         UNCHANGED <<class, run, done, test, ctx, bag, trouble>>,
         \/ pc = "dir" /\ pc' \in {"stage", "teardown"}
         \/ pc = "stage" /\ pc' \in {"cli", "teardown"}
         \/ pc = "cli" /\ pc' \in {"cli", "collect", "teardown"}
         \/ pc = "collect" /\ pc' \in {"parse", "teardown"}
         \/ pc = "parse" /\ pc' = "teardown",
         space' \in [Namespaces -> {"absent", "active", "terminating"}],
         summary' \in [Tests -> 0..MaxRuns], evidence' \in 0..MaxRuns,
         SummaryInv'
  PROVE  IInv'
  <1> USE Constants DEF IInv
  <1>1. TypeOK'
    BY DEF TypeOK
  <1>2. FreshInv'
    BY FreshStays
  <1>3. BagInv'
    BY DEF BagInv
  <1>4. ClassInv' /\ TeardownInv'
    BY DEF ClassInv, TeardownInv, Own
  <1>5. QED
    BY <1>1, <1>2, <1>3, <1>4 DEF IInv

LEMMA ResultsDirIInv ==
  ASSUME KubeBurnerAssumption, IInv, ResultsDir
  PROVE  IInv'
  BY StageStepIInv, Constants DEF ResultsDir, GoOn, cluster, IInv, TypeOK, SummaryInv

\* kube-burner removes the summary of an earlier run before its CLI starts.
LEMMA StageIInv ==
  ASSUME KubeBurnerAssumption, IInv, Stage
  PROVE  IInv'
  <1>1. /\ pc = "stage" /\ test \in Tests /\ pc' \in {"cli", "teardown"}
        /\ summary' \in {summary, [summary EXCEPT ![test] = 0]}
        /\ pc' = "cli" /\ test \notin Ocp => summary' = [summary EXCEPT ![test] = 0]
        /\ UNCHANGED <<cluster, run, done, test, ctx, bag, evidence, trouble>>
    BY OwnFacts DEF Stage, IInv
  <1>2. summary' \in [Tests -> 0..MaxRuns]
    BY <1>1, Constants DEF IInv, TypeOK
  <1>3. SummaryInv'
    BY <1>1 DEF IInv, TypeOK, SummaryInv
  <1>4. QED
    BY <1>1, <1>2, <1>3, StageStepIInv DEF IInv, TypeOK, cluster

LEMMA CLIWorksIInv ==
  ASSUME KubeBurnerAssumption, IInv, CLIWorks
  PROVE  IInv'
  <1>1. space' \in [Namespaces -> {"absent", "active", "terminating"}]
    BY DEF CLIWorks, IInv, TypeOK
  <1>2. SummaryInv'
    BY DEF CLIWorks, IInv, SummaryInv
  <1>3. QED
    BY <1>1, <1>2, StageStepIInv DEF CLIWorks, IInv, TypeOK

LEMMA RunCLIIInv ==
  ASSUME KubeBurnerAssumption, IInv, RunCLI
  PROVE  IInv'
  <1>1. /\ pc = "cli" /\ test \in Tests /\ pc' \in {"collect", "teardown"}
        /\ summary' \in {summary, [summary EXCEPT ![test] = run]}
        /\ UNCHANGED <<cluster, run, done, test, ctx, bag, evidence, trouble>>
    BY OwnFacts DEF RunCLI, IInv
  <1>2. summary' \in [Tests -> 0..MaxRuns]
    BY <1>1, Constants DEF IInv, TypeOK, Runs
  <1>3. SummaryInv'
    BY <1>1 DEF IInv, TypeOK, SummaryInv
  <1>4. QED
    BY <1>1, <1>2, <1>3, StageStepIInv DEF IInv, TypeOK, cluster

LEMMA CollectIInv ==
  ASSUME KubeBurnerAssumption, IInv, Collect
  PROVE  IInv'
  <1>1. /\ pc = "collect" /\ test \in Tests /\ pc' \in {"parse", "teardown"}
        /\ evidence' \in {0, summary[test]}
        /\ UNCHANGED <<cluster, summary, run, done, test, ctx, bag, trouble>>
    BY OwnFacts DEF Collect, IInv, GoOn
  <1>2. evidence' \in 0..MaxRuns
    BY <1>1, Constants DEF IInv, TypeOK
  <1>3. SummaryInv'
    BY <1>1 DEF IInv, SummaryInv
  <1>4. QED
    BY <1>1, <1>2, <1>3, StageStepIInv DEF IInv, TypeOK, cluster

LEMMA ParseIInv ==
  ASSUME KubeBurnerAssumption, IInv, Parse
  PROVE  IInv'
  <1>1. /\ pc = "parse" /\ pc' = "teardown"
        /\ evidence' \in {0, evidence}
        /\ UNCHANGED <<cluster, summary, run, done, test, ctx, bag, trouble>>
    BY DEF Parse
  <1>2. evidence' \in 0..MaxRuns
    BY <1>1, Constants DEF IInv, TypeOK
  <1>3. SummaryInv'
    BY <1>1 DEF IInv, SummaryInv
  <1>4. QED
    BY <1>1, <1>2, <1>3, StageStepIInv DEF IInv, TypeOK, cluster

\* Without trouble the namespace of the test is no longer active.
LEMMA RemoveNamespaceIInv ==
  ASSUME KubeBurnerAssumption, IInv, RemoveNamespace
  PROVE  IInv'
  <1> DEFINE goes == test \notin Ocp /\ bag.params /\ space[Namespace[test]] = "active"
  <1> USE Constants DEF IInv
  <1>1. /\ pc = "teardown" /\ test \in Tests /\ pc' = "class"
        /\ test \notin Ocp => Namespace[test] \in Namespaces
        /\ bag.params
        /\ UNCHANGED <<class, summary, run, done, test, ctx, bag, evidence>>
    BY OwnFacts DEF RemoveNamespace, BagInv
  <1>2. \/ /\ space' = IF goes THEN [space EXCEPT ![Namespace[test]] = "terminating"]
                               ELSE space
           /\ trouble' = trouble
        \/ trouble' = TRUE /\ space' = space
    BY DEF RemoveNamespace
  <1>3. /\ space' \in [Namespaces -> {"absent", "active", "terminating"}]
        /\ trouble' \in BOOLEAN
        /\ ~trouble' /\ test \notin Ocp => space'[Namespace[test]] # "active"
    <2>1. CASE trouble' = TRUE /\ space' = space
      BY <2>1 DEF TypeOK
    <2>2. CASE goes /\ trouble' = trouble
               /\ space' = [space EXCEPT ![Namespace[test]] = "terminating"]
      BY <1>1, <2>2 DEF TypeOK
    <2>3. CASE ~goes /\ trouble' = trouble /\ space' = space
      BY <1>1, <2>3 DEF TypeOK
    <2>4. QED
      BY <1>2, <2>1, <2>2, <2>3
  <1>4. TypeOK'
    BY <1>1, <1>3 DEF TypeOK
  <1>5. FreshInv'
    BY <1>1, FreshStays
  <1>6. BagInv'
    BY <1>1 DEF BagInv
  <1>7. ClassInv' /\ TeardownInv'
    BY <1>1, <1>3 DEF ClassInv, TeardownInv, Own
  <1>8. SummaryInv'
    BY <1>1 DEF SummaryInv
  <1>9. QED
    BY <1>4, <1>5, <1>6, <1>7, <1>8 DEF IInv

LEMMA RemoveClassIInv ==
  ASSUME KubeBurnerAssumption, IInv, RemoveClass
  PROVE  IInv'
  <1> USE Constants DEF IInv
  <1>1. /\ pc = "class" /\ test \in Tests /\ Own \in Runs \X Tests /\ pc' = "over"
        /\ UNCHANGED <<space, summary, run, done, test, ctx, bag, evidence>>
    BY OwnFacts DEF RemoveClass
  <1>2. \/ bag.created /\ class' = [class EXCEPT ![Own] = "absent"] /\ trouble' = trouble
        \/ ~bag.created /\ class' = class /\ trouble' = trouble
        \/ bag.created /\ class' = class /\ trouble' = TRUE
    BY DEF RemoveClass
  <1>3. /\ class' \in [Runs \X Tests -> ClassStates]
        /\ trouble' \in BOOLEAN
        /\ ~trouble' => ~trouble
        /\ ~trouble' /\ bag.created => class'[Own] = "absent"
        /\ ~bag.created => class' = class
        /\ \A c \in Runs \X Tests : c # Own => class'[c] = class[c]
    BY <1>1, <1>2, ZenonT(40) DEF TypeOK, ClassStates
  <1>4. TypeOK'
    BY <1>1, <1>3 DEF TypeOK
  <1>5. FreshInv'
    BY <1>1, <1>3, FreshStays
  <1>6. BagInv'
    BY <1>1 DEF BagInv
  <1>7. ClassInv' /\ TeardownInv'
    BY <1>1, <1>3 DEF ClassInv, TeardownInv, Own
  <1>8. SummaryInv'
    BY <1>1 DEF SummaryInv
  <1>9. QED
    BY <1>4, <1>5, <1>6, <1>7, <1>8 DEF IInv

\* The next test, of this process or of another one, starts afresh.
LEMMA NewTestIInv ==
  ASSUME KubeBurnerAssumption, IInv, NewTest, UNCHANGED <<cluster, summary>>,
         \/ pc = "over" /\ run' = run /\ done' = done \cup {test}
         \/ run' = run + 1 /\ run' \in Runs /\ done' = {}
  PROVE  IInv'
  <1> USE Constants DEF IInv, NewTest, cluster
  <1>1. EmptyBag \in [params : BOOLEAN, selection : BOOLEAN, created : BOOLEAN]
    BY BagFacts
  <1>2. run' \in Runs /\ done' \subseteq Tests
    BY OwnFacts DEF TypeOK
  <1>3. evidence' \in 0..MaxRuns
    OBVIOUS
  <1>4. TypeOK'
    BY <1>1, <1>2, <1>3 DEF TypeOK
  <1>5. ASSUME NEW r \in Runs, NEW t \in Tests, ToCome(r, t)'
        PROVE  class'[<<r, t>>] = "absent"
    <2>1. ToCome(r, t)
      BY <1>5 DEF ToCome, TypeOK, Runs
    <2>2. QED
      BY <2>1 DEF FreshInv
  <1>6. test' \notin done'
    BY <1>2
  <1>7. BagInv'
    BY DEF BagInv, EmptyBag
  <1>8. ClassInv' /\ TeardownInv'
    BY Zenon DEF ClassInv, TeardownInv
  <1>9. SummaryInv'
    BY DEF SummaryInv
  <1>10. QED
    BY <1>4, <1>5, <1>6, <1>7, <1>8, <1>9 DEF IInv, FreshInv

LEMMA EndContextIInv ==
  ASSUME KubeBurnerAssumption, IInv, EndContext
  PROVE  IInv'
  <1> USE DEF IInv, EndContext, cluster
  <1>1. TypeOK'
    BY DEF TypeOK
  <1>2. FreshInv' /\ BagInv' /\ ClassInv' /\ TeardownInv' /\ SummaryInv'
    BY DEF FreshInv, ToCome, BagInv, ClassInv, TeardownInv, SummaryInv, Own
  <1>3. QED
    BY <1>1, <1>2 DEF IInv

LEMMA NamespaceGoneIInv ==
  ASSUME KubeBurnerAssumption, IInv, NamespaceGone
  PROVE  IInv'
  <1> USE Constants DEF IInv
  <1>1. PICK n \in Namespaces :
          space[n] = "terminating" /\ space' = [space EXCEPT ![n] = "absent"]
    BY DEF NamespaceGone
  <1>2. UNCHANGED <<class, summary, run, done, pc, test, ctx, bag, evidence, trouble>>
    BY DEF NamespaceGone
  <1>3. /\ space' \in [Namespaces -> {"absent", "active", "terminating"}]
        /\ \A m \in Namespaces : space'[m] = "active" => space[m] = "active"
    BY <1>1 DEF TypeOK
  <1>4. TypeOK'
    BY <1>2, <1>3 DEF TypeOK
  <1>5. FreshInv' /\ BagInv' /\ ClassInv' /\ SummaryInv'
    BY <1>2 DEF FreshInv, ToCome, BagInv, ClassInv, SummaryInv, Own
  <1>6. TeardownInv'
    BY <1>2, <1>3, OwnFacts DEF TeardownInv, Own
  <1>7. QED
    BY <1>4, <1>5, <1>6 DEF IInv

\* CDI brings a class on, but makes none and patches none.
LEMMA ReconcileIInv ==
  ASSUME KubeBurnerAssumption, IInv, Reconcile
  PROVE  IInv'
  <1> USE Constants DEF IInv
  <1>1. PICK c \in Runs \X Tests :
          \/ class[c] = "made" /\ class' = [class EXCEPT ![c] = "profiled"]
          \/ class[c] = "patched" /\ class' = [class EXCEPT ![c] = "ready"]
    BY DEF Reconcile
  <1>2. UNCHANGED <<space, summary, run, done, pc, test, ctx, bag, evidence, trouble>>
    BY DEF Reconcile
  <1>3. /\ class' \in [Runs \X Tests -> ClassStates]
        /\ \A d \in Runs \X Tests :
             \/ class'[d] = class[d]
             \/ class[d] = "made" /\ class'[d] = "profiled"
             \/ class[d] = "patched" /\ class'[d] = "ready"
    BY <1>1 DEF TypeOK, ClassStates
  <1>4. TypeOK'
    BY <1>2, <1>3 DEF TypeOK
  <1>5. FreshInv'
    BY <1>2, <1>3 DEF FreshInv, ToCome
  <1>6. BagInv' /\ SummaryInv'
    BY <1>2 DEF BagInv, SummaryInv
  <1>7. ClassInv' /\ TeardownInv'
    BY <1>2, <1>3, OwnFacts DEF ClassInv, TeardownInv, Own
  <1>8. QED
    BY <1>4, <1>5, <1>6, <1>7 DEF IInv

LEMMA NextIInv ==
  ASSUME KubeBurnerAssumption, IInv, [Next]_vars
  PROVE  IInv'
  <1>1. ASSUME NEW t \in Tests, Begin(t)
        PROVE  IInv'
    BY <1>1, BeginIInv
  <1>2. CASE Finish
    BY <1>2, NewTestIInv DEF Finish
  <1>3. CASE StartAnotherRun
    <2>1. run' \in Runs
      BY <1>3, Constants DEF StartAnotherRun, IInv, TypeOK, Runs
    <2>2. QED
      BY <1>3, <2>1, NewTestIInv DEF StartAnotherRun
  <1>4. CASE UNCHANGED vars
    BY <1>4 DEF vars, cluster, IInv, TypeOK, FreshInv, ToCome, BagInv, ClassInv,
                TeardownInv, SummaryInv, Own
  <1>5. QED
    BY <1>1, <1>2, <1>3, <1>4, PreflightIInv, CreateClassIInv, AwaitProfileIInv,
       PatchProfileIInv, SettleIInv, ResultsDirIInv, StageIInv, CLIWorksIInv, RunCLIIInv,
       CollectIInv, ParseIInv, RemoveNamespaceIInv, RemoveClassIInv, EndContextIInv,
       NamespaceGoneIInv, ReconcileIInv
    DEF Next

-----------------------------------------------------------------------------
(* Theorems. *)

\* The invariant of what the kube-burner tests do, over any number of runs.
THEOREM KubeBurnerIInv ==
  ASSUME KubeBurnerAssumption
  PROVE  Spec => []IInv
  <1>1. Init => IInv
    BY InitIInv
  <1>2. IInv /\ [Next]_vars => IInv'
    BY NextIInv
  <1>3. QED
    BY <1>1, <1>2, PTL DEF Spec

\* The types of all variables.
THEOREM KubeBurnerTypeOK ==
  ASSUME KubeBurnerAssumption
  PROVE  Spec => []TypeOK
  <1>1. IInv => TypeOK
    BY DEF IInv
  <1>2. QED
    BY <1>1, KubeBurnerIInv, PTL

\* A Teardown none of whose commands failed leaves no namespace, and no private class
\* that Provision noted, wherever the preparation of the class broke off.
THEOREM PrivateStorageReturnedHolds ==
  ASSUME KubeBurnerAssumption
  PROVE  Spec => []PrivateStorageReturned
  <1>1. IInv => PrivateStorageReturned
    BY DEF IInv, TeardownInv, ClassInv, PrivateStorageReturned
  <1>2. QED
    BY <1>1, KubeBurnerIInv, PTL

\* Snapshots are measured on a private class whose profile CDI has taken over.
THEOREM MeasuredOnSelectedClassHolds ==
  ASSUME KubeBurnerAssumption
  PROVE  Spec => []MeasuredOnSelectedClass
  <1>1. IInv => MeasuredOnSelectedClass
    BY DEF IInv, ClassInv, MeasuredOnSelectedClass
  <1>2. QED
    BY <1>1, KubeBurnerIInv, PTL

\* A kube-burner test is graded on nothing that an earlier run has left in its
\* directory, because Run clears it.
THEOREM SnapshotTestsGradedOnOwnResultsHolds ==
  ASSUME KubeBurnerAssumption
  PROVE  Spec => []SnapshotTestsGradedOnOwnResults
  <1>1. IInv => SnapshotTestsGradedOnOwnResults
    BY DEF IInv, SummaryInv, SnapshotTestsGradedOnOwnResults, GradedOnOwnResults
  <1>2. QED
    BY <1>1, KubeBurnerIInv, PTL

=============================================================================
