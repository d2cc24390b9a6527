---------------------------- MODULE VirtbenchJob ----------------------------
(***************************************************************************)
(* What the virtbench tests do to the clusters they run on, and what they   *)
(* leave there (internal/tools/virtbench: engine.go, drain.go, snapshot.go, *)
(* vm_provision.go).                                                        *)
(*                                                                          *)
(* The tests of a run hold the exclusivity group "cluster", so they go one  *)
(* after another, in any order, each through preflight, provision, run,     *)
(* collect and, whatever happened before, teardown (JobPipeline).  The      *)
(* stages of a test talk to one another through its bag.  Between them are  *)
(* the virtbench CLI, a child that the end of the context kills, and        *)
(* kubectl, every call of which may fail.  The process may be killed at any *)
(* point; then the next run finds what it left on the clusters.             *)
(***************************************************************************)
EXTENDS Integers, FiniteSets

CONSTANTS
  Tests,
  Scenario,       \* Scenario[t]: "clone", "fio", "drain" or "recovery"
  Cluster,        \* Cluster[t]: the cluster that its "kubeconfig" names
  Prefix,         \* Prefix[t]: its namespace prefix
  Replays,        \* the tests that have a "results_dir"
  UsesSnapshot,   \* the tests that clone from snapshots
  Clusters,
  Default,        \* the cluster of the environment's kubeconfig
  DefaultPrefix,  \* DefaultPrefix[sc]: NSPrefix of a scenario
  Sweeps,         \* Sweeps[p]: the prefixes whose namespaces match p + "-"
  VMs,            \* VMs[t]: how many it makes, each in a namespace of its own
  Sources,        \* number of volumes that a snapshot test clones
  Workers,
  Target,         \* the worker that the drain names
  Maintenance,    \* <<cluster, worker>>: cordoned by an administrator
  MaxTests,       \* bound: tests in a run
  MaxRuns,        \* bound: one process after another
  None

Scenarios == {"clone", "fio", "drain", "recovery"}
Prefixes == DOMAIN Sweeps
Runs == 1..MaxRuns

ASSUME VirtbenchAssumption ==
  /\ Scenario \in [Tests -> Scenarios]
  /\ Cluster \in [Tests -> Clusters]
  /\ Prefix \in [Tests -> Prefixes]
  /\ Replays \subseteq Tests
  /\ UsesSnapshot \subseteq {t \in Tests : Scenario[t] = "clone"}
  /\ Default \in Clusters
  /\ DefaultPrefix \in [Scenarios -> Prefixes]
  /\ \A p \in Prefixes : p \in Sweeps[p] /\ Sweeps[p] \subseteq Prefixes
  /\ VMs \in [Tests -> Nat \ {0}]
  /\ Sources \in Nat
  /\ Target \in Workers
  /\ Maintenance \subseteq Clusters \X Workers
  /\ MaxTests \in Nat
  /\ MaxRuns \in Nat \ {0}
  /\ None \notin Tests \cup Clusters \cup Prefixes

VARIABLES
  (* the clusters *)
  space,     \* space[n]: namespace n is "absent", "active" or "terminating"
  cordoned,  \* <<cluster, worker>>
  snaps,     \* volumes with a snapshot for the current test that kubectl returned
  (* the working directory *)
  files,     \* result files: the root each lies under and the run that wrote it
  (* the process *)
  run,       \* number of the process, for its RunID
  done,      \* the tests that are over in this run
  pc,
  test,      \* the current test, None if there is none
  ctx,       \* its context: "live" or "done"
  bag,
  step,      \* counter of the loops of provisionFailureRecoveryVMs and prepare
  evidence,  \* the run whose results the current test was graded on, 0 for none
  (* history *)
  leaving,   \* own namespaces of a drain or recovery terminating when it began, until
             \* its teardown
  trouble    \* a command of this test's teardown failed

cluster == <<space, cordoned, snaps>>
vars == <<cluster, files, run, done, pc, test, ctx, bag, step, evidence, leaving, trouble>>

\* The namespaces that the tests make, prefix-1, prefix-2 and so on.
OwnSpaces(t) == [cluster : {Cluster[t]}, prefix : {Prefix[t]}, vm : 1..VMs[t]]
Namespaces == UNION {OwnSpaces(t) : t \in Tests}
In(state) == {n \in Namespaces : space[n] = state}

\* Namespaces and workers after some commands.
Create(made) == space' = [n \in Namespaces |-> IF n \in made THEN "active" ELSE space[n]]
Delete(gone) == space' = [n \in Namespaces |-> IF n \in gone THEN "terminating" ELSE space[n]]

EmptyBag == [replay |-> FALSE, prefix |-> None, kubeconfig |-> None, created |-> {}]

Init ==
  /\ space = [n \in Namespaces |-> "absent"]
  /\ cordoned = Maintenance
  /\ snaps = {}
  /\ files = {}
  /\ run = 1
  /\ done = {}
  /\ pc = "idle"
  /\ test = None
  /\ ctx = "live"
  /\ bag = EmptyBag
  /\ step = 1
  /\ evidence = 0
  /\ leaving = {}
  /\ trouble = FALSE

-----------------------------------------------------------------------------
(* From the start of a test to the CLI. *)

\* A test has a context and a bag of its own.
NewTest ==
  /\ pc' = "idle"
  /\ test' = None
  /\ ctx' = "live"
  /\ bag' = EmptyBag
  /\ step' = 1
  /\ evidence' = 0
  /\ leaving' = {}
  /\ trouble' = FALSE
  /\ snaps' = {}

Begin(t) ==
  /\ pc = "idle"
  /\ t \notin done
  /\ Cardinality(done) < MaxTests
  /\ test' = t
  /\ pc' = "preflight"
  /\ leaving' = IF Scenario[t] \in {"drain", "recovery"}
                  THEN OwnSpaces(t) \cap In("terminating") ELSE {}
  /\ UNCHANGED <<cluster, files, run, done, ctx, bag, step, evidence, trouble>>

Schedulable(c) == {w \in Workers : <<c, w>> \notin cordoned}

\* The checks read only.  Any test may fail one, a replay when its results_dir is
\* not there; a drain fails without a second worker to move its VMs to.
Preflight ==
  LET blocked == /\ Scenario[test] = "drain"
                 /\ test \notin Replays
                 /\ Cardinality(Schedulable(Cluster[test])) < 2
  IN  /\ pc = "preflight"
      /\ \/ pc' = "provision" /\ ctx = "live" /\ ~blocked
         \/ pc' = "teardown"
      /\ UNCHANGED <<cluster, files, run, done, test, ctx, bag, step, evidence, leaving, trouble>>

\* Faulty variant: the bag does not say that this is a replay.
ProvisionWithoutReplay ==
  /\ pc = "provision"
  /\ bag' = [bag EXCEPT !.prefix = Prefix[test], !.kubeconfig = Cluster[test]]
  /\ pc' = IF test \in Replays THEN "collect"
           ELSE CASE Scenario[test] = "drain" -> "seed"
                  [] Scenario[test] = "recovery" -> "apply"
                  [] OTHER -> "prepare"
  /\ UNCHANGED <<cluster, files, run, done, test, ctx, step, evidence, leaving, trouble>>

\* Faulty variant: the kubeconfig is not handed on.
ProvisionWithoutCluster ==
  /\ pc = "provision"
  /\ bag' = [bag EXCEPT !.prefix = Prefix[test], !.replay = test \in Replays]
  /\ pc' = "teardown"
  /\ UNCHANGED <<cluster, files, run, done, test, ctx, step, evidence, leaving, trouble>>

\* The bag has the prefix and the kubeconfig before anything can fail: the helper
\* pod (SSHPod), the results directory.  A replay ends here and its Run returns
\* at once.
Provision ==
  /\ pc = "provision"
  /\ bag' = [bag EXCEPT !.prefix = Prefix[test],
                        !.kubeconfig = Cluster[test],
                        !.replay = test \in Replays]
  /\ \/ test \in Replays /\ ctx = "live" /\ pc' = "collect"
     \/ /\ test \notin Replays /\ ctx = "live"
        /\ pc' = CASE Scenario[test] = "drain" -> "seed"
                   [] Scenario[test] = "recovery" -> "apply"
                   [] OTHER -> "prepare"
     \/ (test \notin Replays \/ ctx = "done") /\ pc' = "teardown"
  /\ UNCHANGED <<cluster, files, run, done, test, ctx, step, evidence, leaving, trouble>>

\* The flags --cleanup and --cleanup-on-failure, or --cleanup-vms: which of its
\* namespaces a CLI may have deleted when it ends.  runFIO has a cleanup of its
\* own on a context that the test's end does not touch; the clone that seeds a
\* drain, like the drain, cleans nothing, nor does a recovery in monitor mode.
\* Faulty variant: a drain's clone gets them, too.
CleanedByAny(t, how) ==
  LET own == OwnSpaces(t) \cap In("active")
  IN  CASE how = "ok" -> {own}
        [] how = "killed" /\ Scenario[t] # "fio" -> {{}}
        [] OTHER -> SUBSET own
CleanedByCLI(t, how) ==
  LET own == OwnSpaces(t) \cap In("active")
  IN  CASE how = "ok" /\ Scenario[t] \in {"clone", "fio"} -> {own}
        [] how = "ok" /\ Scenario[t] = "recovery" -> {own, {}}
        [] Scenario[t] = "drain" \/ (how = "killed" /\ Scenario[t] # "fio") -> {{}}
        [] OTHER -> SUBSET own

\* Where a VM still runs: its namespace may be on its way out.
SeenRunning == In("active") \cup In("terminating")

\* drainProvision: the drain follows only if the clone has come to a good end.
Seed ==
  /\ pc = "seed"
  /\ \/ /\ ctx = "live"
        /\ OwnSpaces(test) \subseteq SeenRunning
        /\ \E gone \in CleanedByCLI(test, "ok") : Delete(gone)
        /\ pc' = "prepare"
     \/ /\ \E gone \in CleanedByCLI(test, IF ctx = "live" THEN "failed" ELSE "killed") :
             Delete(gone)
        /\ pc' = "teardown"
  /\ UNCHANGED <<cordoned, snaps, files, run, done, test, ctx, bag, step, evidence,
                 leaving, trouble>>

\* provisionFailureRecoveryVMs: the namespaces and the VM in each, one by one.
\* Both objects are applied, so what an earlier test or run left is taken over, even
\* a VM that still runs in a namespace whose deletion is under way (a new one would
\* be refused there).
Apply ==
  LET n == [cluster |-> bag.kubeconfig, prefix |-> Prefix[test], vm |-> step]
  IN  /\ pc = "apply"
      /\ \/ /\ step <= VMs[test]
            /\ ctx = "live"
            /\ Create({n} \ In("terminating"))
            /\ step' = step + 1
            /\ UNCHANGED pc
         \/ /\ step > VMs[test]
            /\ step' = 1
            /\ pc' = "await"
            /\ UNCHANGED space
         \/ pc' = "teardown" /\ step' = 1 /\ UNCHANGED space
      /\ UNCHANGED <<cordoned, snaps, files, run, done, test, ctx, bag,
                     evidence, leaving, trouble>>

\* waitForVMRunning, for one VM after the other.  "Running" is also the phase of one
\* that is being deleted, until its time to shut down is over.
AwaitRunning ==
  LET n == [cluster |-> bag.kubeconfig, prefix |-> Prefix[test], vm |-> step]
  IN  /\ pc = "await"
      /\ \/ /\ step <= VMs[test]
            /\ ctx = "live"
            /\ n \in SeenRunning
            /\ step' = step + 1
            /\ UNCHANGED pc
         \/ /\ step > VMs[test]
            /\ step' = 1
            /\ pc' = "prepare"
         \/ pc' = "teardown" /\ step' = 1
      /\ UNCHANGED <<cluster, files, run, done, test, ctx, bag, evidence, leaving,
                     trouble>>

\* Faulty variant: a snapshot is noted once it is ready.
PrepareNotingLate ==
  LET last == IF test \in UsesSnapshot THEN Sources ELSE 0
  IN  /\ pc = "prepare"
      /\ IF step > last
           THEN pc' = "cli" /\ UNCHANGED <<snaps, bag, step>>
           ELSE /\ snaps' = snaps \cup {step}
                /\ \/ /\ bag' = [bag EXCEPT !.created = @ \cup {step}]
                      /\ step' = step + 1
                      /\ UNCHANGED pc
                   \/ pc' = "teardown" /\ UNCHANGED <<bag, step>>
      /\ UNCHANGED <<space, cordoned, files, run, done, test, ctx, evidence, leaving, trouble>>

\* prepare, which does nothing without snapshots: the snapshot of every volume is
\* created, noted and waited for.
Prepare ==
  LET last == IF test \in UsesSnapshot THEN Sources ELSE 0
  IN  /\ pc = "prepare"
      /\ \/ /\ step > last
            /\ pc' = "cli"
            /\ step' = 1
            /\ UNCHANGED <<snaps, bag>>
         \/ /\ step <= last
            /\ snaps' = snaps \cup {step}
            /\ bag' = [bag EXCEPT !.created = @ \cup {step}]
            /\ \/ ctx = "live" /\ step' = step + 1 /\ UNCHANGED pc
               \/ pc' = "teardown" /\ step' = 1
         \/ /\ step <= last
            /\ pc' = "teardown"
            /\ step' = 1
            /\ UNCHANGED <<snaps, bag>>
      /\ UNCHANGED <<space, cordoned, files, run, done, test, ctx, evidence, leaving, trouble>>

-----------------------------------------------------------------------------
(* The CLI. *)

\* What it does as it goes along: a clone makes a namespace, a drain cordons.
CLIWorks ==
  /\ \/ /\ \/ pc = "seed"
           \/ pc = "cli" /\ Scenario[test] \in {"clone", "fio"}
        /\ \E n \in OwnSpaces(test) \cap In("absent") : Create({n})
        /\ UNCHANGED cordoned
     \/ /\ pc = "cli"
        /\ Scenario[test] = "drain"
        /\ cordoned' = cordoned \cup {<<Cluster[test], Target>>}
        /\ UNCHANGED space
  /\ UNCHANGED <<snaps, files, run, done, pc, test, ctx, bag, step,
                 evidence, leaving, trouble>>

\* ExecutionDir.
\* Faulty variant: the run is not part of it.
RootOfTest(t) == <<t, 1>>
Root(t) == <<t, run>>

\* drain-nodes gives the worker back only when it succeeds.  TolerateRunError: its
\* failure is graded from the log, if it got to write one (as is that of the
\* single-node ceiling, which has none of the stages that matter here and no kind of
\* its own).  What others leave that fail is not read.
RunCLI ==
  /\ pc = "cli"
  /\ \E how \in {"ok", "failed", "killed"} :
       /\ how = "killed" <=> ctx = "done"
       /\ how = "ok" => CASE Scenario[test] \in {"clone", "fio"} ->
                                OwnSpaces(test) \subseteq SeenRunning
                          [] Scenario[test] = "drain" -> <<Cluster[test], Target>> \in cordoned
                          [] OTHER -> TRUE
       /\ \E gone \in CleanedByCLI(test, how) : Delete(gone)
       /\ cordoned' = IF how = "ok" /\ Scenario[test] = "drain"
                        THEN cordoned \ {<<Cluster[test], Target>>}
                        ELSE cordoned
       /\ \/ /\ how = "ok" \/ Scenario[test] = "drain"
             /\ files' = files \cup {[root |-> Root(test), run |-> run]}
          \/ how # "ok" /\ UNCHANGED files
       /\ pc' = IF how = "ok" \/ (how = "failed" /\ Scenario[test] = "drain")
                  THEN "collect" ELSE "teardown"
  /\ UNCHANGED <<snaps, run, done, test, ctx, bag, step, evidence, leaving, trouble>>

\* findResult wants exactly one file.  A replay's are not of this directory.
CollectAndGrade ==
  LET found == {f \in files : f.root = Root(test)}
  IN  /\ pc = "collect"
      /\ pc' = "teardown"
      /\ \/ /\ test \notin Replays
            /\ ctx = "live"
            /\ Cardinality(found) = 1
            /\ \E f \in found : evidence' = f.run
         \/ UNCHANGED evidence
      /\ UNCHANGED <<cluster, files, run, done, test, ctx, bag, step, leaving, trouble>>

-----------------------------------------------------------------------------
(* Teardown, on a context of its own.  Commands that fail are logged. *)

BagCluster == IF bag.kubeconfig = None THEN Default ELSE bag.kubeconfig
BagPrefix == IF bag.prefix = None THEN DefaultPrefix[Scenario[test]] ELSE bag.prefix

TeardownBegins ==
  /\ pc = "teardown"
  /\ pc' = IF bag.replay THEN "over" ELSE "scenario"
  /\ leaving' = {}
  /\ UNCHANGED <<cluster, files, run, done, test, ctx, bag, step, evidence, trouble>>

\* drainTeardown, the only scenario teardown: every worker is uncordoned.
ScenarioTeardown ==
  LET cordons == {x \in cordoned : x[1] = BagCluster}
  IN  /\ pc = "scenario"
      /\ pc' = "sweep"
      /\ IF Scenario[test] = "drain"
           THEN \E missed \in SUBSET cordons :
                  /\ cordoned' = (cordoned \ cordons) \cup missed
                  /\ trouble' = (trouble \/ missed # {})
           ELSE UNCHANGED <<cordoned, trouble>>
      /\ UNCHANGED <<space, snaps, files, run, done, test, ctx, bag, step,
                     evidence, leaving>>

\* Faulty variant: the sweep runs on the context of the test.
SweepOnRunContext ==
  LET swept == {n \in In("active") : n.cluster = BagCluster /\ n.prefix \in Sweeps[BagPrefix]}
  IN  /\ pc = "sweep"
      /\ pc' = "snapshots"
      /\ \E missed \in SUBSET swept :
           /\ Delete(IF ctx = "live" THEN swept \ missed ELSE {})
           /\ trouble' = (trouble \/ missed # {})
      /\ UNCHANGED <<cordoned, snaps, files, run, done, test, ctx, bag, step,
                     evidence, leaving>>

\* The namespaces that match the prefix, whoever made them.
Sweep ==
  LET swept == {n \in In("active") : n.cluster = BagCluster /\ n.prefix \in Sweeps[BagPrefix]}
  IN  /\ pc = "sweep"
      /\ pc' = "snapshots"
      /\ \E missed \in SUBSET swept :
           /\ Delete(swept \ missed)
           /\ trouble' = (trouble \/ missed # {})
      /\ UNCHANGED <<cordoned, snaps, files, run, done, test, ctx, bag, step,
                     evidence, leaving>>

\* cleanup of the snapshots that were noted, deferred to the end.
CleanUpSnapshots ==
  /\ pc = "snapshots"
  /\ pc' = "over"
  /\ \E missed \in SUBSET bag.created :
       /\ snaps' = snaps \ (bag.created \ missed)
       /\ trouble' = (trouble \/ missed # {})
  /\ UNCHANGED <<space, cordoned, files, run, done, test, ctx, bag, step, evidence, leaving>>

Finish ==
  /\ pc = "over"
  /\ done' = done \cup {test}
  /\ NewTest
  /\ UNCHANGED <<space, cordoned, files, run>>

-----------------------------------------------------------------------------
(* Around the process. *)

\* The limit of the test passes, or the run is cancelled.
EndContext ==
  /\ test # None
  /\ ctx = "live"
  /\ ctx' = "done"
  /\ UNCHANGED <<cluster, files, run, done, pc, test, bag, step, evidence, leaving, trouble>>

\* The process is killed, or has ended, and another one is started in the same
\* working directory.
StartAnotherRun ==
  /\ run < MaxRuns
  /\ run' = run + 1
  /\ done' = {}
  /\ NewTest
  /\ UNCHANGED <<space, cordoned, files>>

\* --wait=false: the cluster takes its time.
NamespaceGone ==
  /\ \E n \in In("terminating") : space' = [space EXCEPT ![n] = "absent"]
  /\ UNCHANGED <<cordoned, snaps, files, run, done, pc, test, ctx, bag, step,
                 evidence, leaving, trouble>>

Next ==
  \/ \E t \in Tests : Begin(t)
  \/ Preflight
  \/ Provision
  \/ Seed
  \/ Apply
  \/ AwaitRunning
  \/ Prepare
  \/ CLIWorks
  \/ RunCLI
  \/ CollectAndGrade
  \/ TeardownBegins
  \/ ScenarioTeardown
  \/ Sweep
  \/ CleanUpSnapshots
  \/ Finish
  \/ EndContext
  \/ StartAnotherRun
  \/ NamespaceGone

Spec == Init /\ [][Next]_vars

-----------------------------------------------------------------------------
(* Properties. *)

TypeOK ==
  /\ space \in [Namespaces -> {"absent", "active", "terminating"}]
  /\ cordoned \subseteq Clusters \X Workers
  /\ snaps \subseteq 1..Sources
  /\ files \subseteq [root : Tests \X Runs, run : Runs]
  /\ run \in Runs
  /\ done \subseteq Tests
  /\ pc \in {"idle", "preflight", "provision", "seed", "apply", "await", "prepare",
             "cli", "collect", "teardown", "scenario", "sweep", "snapshots", "over"}
  /\ test \in Tests \cup {None}
  /\ (test = None) <=> (pc = "idle")
  /\ (bag.prefix = None) <=> (bag.kubeconfig = None)
  /\ ctx \in {"live", "done"}
  /\ bag \in [replay : BOOLEAN, prefix : Prefixes \cup {None},
              kubeconfig : Clusters \cup {None}, created : SUBSET (1..Sources)]
  /\ step \in Nat
  /\ evidence \in 0..MaxRuns
  /\ leaving \subseteq Namespaces
  /\ trouble \in BOOLEAN

TakesFrom(c) ==
  \/ \E n \in Namespaces : n.cluster = c /\ space[n] = "active" /\ space'[n] # "active"
  \/ \E w \in Workers : <<c, w>> \in cordoned \ cordoned'
OnOwnCluster(c) == test # None /\ test \notin Replays /\ Cluster[test] = c

\* Nothing is taken from a cluster that the current test does not run on, and a
\* replay runs on none: "enabling offline e2e and re-grading without a cluster"
\* (engine.go).  The teardown of a test that did not get as far as Provision finds
\* nothing in its bag and turns to the default cluster: the code does not keep this.
OtherClustersLeftAlone == [][\A c \in Clusters : TakesFrom(c) => OnOwnCluster(c)]_vars

\* The part of it that the code does keep: from Provision on, through every way its
\* stages may end.
OtherClustersLeftAloneOnceProvisioned ==
  [][\A c \in Clusters : TakesFrom(c) /\ bag.kubeconfig # None => OnOwnCluster(c)]_vars

\* A test that is over, with no command of its teardown having failed, leaves no
\* namespace and no cordon, not even those of an earlier run that was killed, and
\* however its own run ended: also in a preflight that such a cordon stopped, where
\* the defaults are the test's own cluster and prefix.
CleanedUp ==
  (/\ pc = "over" /\ ~trouble /\ test \notin Replays
   /\ BagCluster = Cluster[test] /\ BagPrefix = Prefix[test])
  =>
    /\ OwnSpaces(test) \cap In("active") = {}
    /\ Scenario[test] = "drain" => Schedulable(Cluster[test]) = Workers

\* A snapshot that a create returned is deleted at the end of its test, unless the
\* deletion fails, also when it never became ready ("Created is populated before
\* waiting so partial failures are cleaned up too", snapshot.go).
SnapshotsReturned == pc = "over" /\ ~trouble => snaps = {}

\* The VMs to evacuate or to recover are all there when the CLI goes to work on
\* them: no cleanup of their own creation takes them, nor anything else since the
\* test began.  The code does not keep more: a namespace whose deletion an earlier
\* test or run had left under way may be taken for one of the test's own, and go.
VMsUnderTest ==
  pc = "cli" /\ Scenario[test] \in {"drain", "recovery"} =>
    OwnSpaces(test) \subseteq In("active") \cup leaving

\* A test is graded on what its own run wrote, also after a CLI that failed without
\* a result and although an earlier run left one in the same working directory.
GradedOnOwnResults == evidence \in {0, run}

=============================================================================
