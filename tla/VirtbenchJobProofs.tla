------------------------- MODULE VirtbenchJobProofs -------------------------
(***************************************************************************)
(* Theorems about VirtbenchJob, for any tests, clusters, prefixes, workers *)
(* and numbers of VMs, sources and runs.  The invariant says what the bag  *)
(* of the current test knows at each point of its stages, and what its VMs *)
(* and snapshots have to do with it.  The last part takes the theorems     *)
(* about the other adapters over to MCAdapters, where all of them are      *)
(* checked.                                                                *)
(***************************************************************************)
EXTENDS MCAdapters, TLAPS

\* Before Provision the bag is empty, from then on it tells where the test runs; it
\* does so before anything of the test's own is on a cluster.
BagInv ==
  /\ pc \in {"idle", "preflight", "provision"} => bag = EmptyBag
  /\ pc \in {"seed", "apply", "await", "prepare", "cli", "collect"} => bag.kubeconfig # None
  /\ bag.replay => bag.kubeconfig # None
  /\ test # None /\ bag.kubeconfig # None =>
       /\ bag.kubeconfig = Cluster[test]
       /\ bag.prefix = Prefix[test]
       /\ bag.replay <=> test \in Replays

\* Which tests come where.
PathInv ==
  /\ pc \in {"seed", "apply", "await", "prepare", "cli"} => test \notin Replays
  /\ pc = "seed" => Scenario[test] = "drain"
  /\ pc \in {"apply", "await"} => Scenario[test] = "recovery"
  /\ pc \in {"scenario", "sweep", "snapshots"} => ~bag.replay

\* The loops count from 1.  What is terminating before the VMs of a drain or a
\* recovery are made was so when the test began; from the stage that makes them on,
\* they are there, or where it was.
UnderTest == test # None /\ Scenario[test] \in {"drain", "recovery"}
VMsInv ==
  /\ step \in Nat \ {0}
  /\ pc \in {"idle", "preflight", "provision", "seed"} => step = 1
  /\ pc \in {"preflight", "provision", "seed", "apply"} /\ UnderTest =>
       \A n \in OwnSpaces(test) : space[n] = "terminating" => n \in leaving
  /\ pc = "apply" =>
       \A n \in OwnSpaces(test) : n.vm < step => space[n] = "active" \/ n \in leaving
  /\ pc \in {"await", "prepare", "cli"} /\ UnderTest =>
       \A n \in OwnSpaces(test) : space[n] = "active" \/ n \in leaving

\* A snapshot is noted when it is made.
SnapshotsInv ==
  /\ pc \in {"idle", "preflight", "provision", "seed", "apply", "await"} => snaps = {}
  /\ pc # "over" => snaps \subseteq bag.created
  /\ test \in Replays => snaps = {}

\* What of the current test is gone as its Teardown goes along.
OnOwnDefaults == test \notin Replays /\ BagCluster = Cluster[test] /\ BagPrefix = Prefix[test]
TeardownInv ==
  /\ pc \in {"sweep", "snapshots", "over"} /\ ~trouble /\ OnOwnDefaults
       /\ Scenario[test] = "drain" =>
     \A w \in Workers : <<Cluster[test], w>> \notin cordoned
  /\ pc \in {"snapshots", "over"} /\ ~trouble /\ OnOwnDefaults =>
     \A n \in OwnSpaces(test) : space[n] # "active"

\* A root belongs to the run that is part of its name.
FilesInv == \A f \in files : f.root[2] = f.run

IInv ==
  /\ TypeOK
  /\ BagInv
  /\ PathInv
  /\ VMsInv
  /\ SnapshotsInv
  /\ TeardownInv
  /\ FilesInv
  /\ GradedOnOwnResults
  /\ SnapshotsReturned

-----------------------------------------------------------------------------
(* The namespaces of the tests. *)

LEMMA Constants ==
  ASSUME VirtbenchAssumption
  PROVE  /\ Scenario \in [Tests -> Scenarios]
         /\ Cluster \in [Tests -> Clusters]
         /\ Prefix \in [Tests -> Prefixes]
         /\ UsesSnapshot \subseteq {t \in Tests : Scenario[t] = "clone"}
         /\ Default \in Clusters
         /\ DefaultPrefix \in [Scenarios -> Prefixes]
         /\ \A p \in Prefixes : p \in Sweeps[p] /\ Sweeps[p] \subseteq Prefixes
         /\ VMs \in [Tests -> Nat \ {0}]
         /\ Sources \in Nat
         /\ Target \in Workers
         /\ Maintenance \subseteq Clusters \X Workers
         /\ MaxRuns \in Nat \ {0}
         /\ None \notin Tests /\ None \notin Clusters /\ None \notin Prefixes
  BY DEF VirtbenchAssumption

LEMMA OwnSpacesFacts ==
  ASSUME VirtbenchAssumption, NEW t \in Tests
  PROVE  /\ OwnSpaces(t) \subseteq Namespaces
         /\ \A n \in OwnSpaces(t) :
              n.cluster = Cluster[t] /\ n.prefix = Prefix[t] /\ n.vm \in 1..VMs[t]
         /\ \A i \in 1..VMs[t] :
              [cluster |-> Cluster[t], prefix |-> Prefix[t], vm |-> i] \in OwnSpaces(t)
         /\ \A n \in OwnSpaces(t) :
              n = [cluster |-> Cluster[t], prefix |-> Prefix[t], vm |-> n.vm]
  BY DEF OwnSpaces, Namespaces

\* Namespaces have the cluster of some test.
LEMMA NamespaceFacts ==
  ASSUME VirtbenchAssumption, NEW n \in Namespaces
  PROVE  n.cluster \in Clusters /\ n.prefix \in Prefixes
  <1>1. PICK t \in Tests : n \in OwnSpaces(t)
    BY DEF Namespaces
  <1>2. QED
    BY <1>1, OwnSpacesFacts, Constants

\* Creating makes namespaces active, deleting leaves the others alone.
LEMMA CreateFacts ==
  ASSUME TypeOK, NEW made, Create(made)
  PROVE  /\ space' \in [Namespaces -> {"absent", "active", "terminating"}]
         /\ \A n \in Namespaces : n \in made => space'[n] = "active"
         /\ \A n \in Namespaces : n \notin made => space'[n] = space[n]
  BY DEF TypeOK, Create

LEMMA DeleteFacts ==
  ASSUME TypeOK, NEW gone, Delete(gone)
  PROVE  /\ space' \in [Namespaces -> {"absent", "active", "terminating"}]
         /\ \A n \in Namespaces : n \in gone => space'[n] = "terminating"
         /\ \A n \in Namespaces : n \notin gone => space'[n] = space[n]
  BY DEF TypeOK, Delete

\* A CLI deletes namespaces of its own test, and that of a drain deletes none.
LEMMA CLIFacts ==
  ASSUME NEW t, NEW how, NEW gone \in CleanedByCLI(t, how)
  PROVE  /\ gone \subseteq OwnSpaces(t) \cap In("active")
         /\ Scenario[t] = "drain" => gone = {}
  <1>1. CASE Scenario[t] = "drain"
    BY <1>1 DEF CleanedByCLI
  <1>2. CASE Scenario[t] # "drain" /\ how = "ok"
    BY <1>2 DEF CleanedByCLI
  <1>3. CASE Scenario[t] # "drain" /\ how # "ok"
    BY <1>3 DEF CleanedByCLI
  <1>4. QED
    BY <1>1, <1>2, <1>3

-----------------------------------------------------------------------------
(* The invariant holds initially, and every action preserves it. *)

LEMMA InitIInv ==
  ASSUME VirtbenchAssumption, Init
  PROVE  IInv
  <1> USE Constants DEF Init
  <1>1. EmptyBag \in [replay : BOOLEAN, prefix : Prefixes \cup {None},
                     kubeconfig : Clusters \cup {None}, created : SUBSET (1..Sources)]
    BY DEF EmptyBag
  <1>2. TypeOK
    <2>1. /\ space \in [Namespaces -> {"absent", "active", "terminating"}]
          /\ cordoned \subseteq Clusters \X Workers
          /\ snaps \subseteq 1..Sources
          /\ files \subseteq [root : Tests \X Runs, run : Runs]
          /\ run \in Runs /\ done \subseteq Tests /\ evidence \in 0..MaxRuns
      BY DEF Runs
    <2>2. QED
      BY <1>1, <2>1 DEF TypeOK, EmptyBag
  <1>3. BagInv /\ PathInv
    BY DEF BagInv, PathInv, EmptyBag
  <1>4. VMsInv
    <2>1. step \in Nat \ {0}
      OBVIOUS
    <2>2. QED
      BY <2>1, Zenon DEF VMsInv, UnderTest
  <1>5. SnapshotsInv
    BY DEF SnapshotsInv, EmptyBag
  <1>6. TeardownInv
    BY DEF TeardownInv
  <1>7. FilesInv /\ GradedOnOwnResults /\ SnapshotsReturned
    BY DEF FilesInv, GradedOnOwnResults, SnapshotsReturned
  <1>8. QED
    BY <1>2, <1>3, <1>4, <1>6, <1>5, <1>7 DEF IInv

LEMMA BeginIInv ==
  ASSUME VirtbenchAssumption, IInv, NEW t \in Tests, Begin(t)
  PROVE  IInv'
  <1> USE Constants DEF IInv, Begin, cluster
  <1>1. /\ leaving' \subseteq Namespaces
        /\ Scenario[t] \in {"drain", "recovery"} =>
             leaving' = OwnSpaces(t) \cap In("terminating")
    BY DEF In
  <1>2. TypeOK'
    BY <1>1, Zenon DEF TypeOK
  <1>3. BagInv' /\ PathInv'
    BY DEF TypeOK, BagInv, PathInv, EmptyBag
  <1>4. VMsInv'
    <2>1. \A n \in OwnSpaces(t) : n \in Namespaces
      BY OwnSpacesFacts
    <2>2. OwnSpaces(t)' = OwnSpaces(t)
      BY DEF OwnSpaces
    <2>3. step = 1 /\ step' = 1 /\ test' = t /\ pc' = "preflight" /\ space' = space
      BY DEF VMsInv
    <2>4. QED
      BY <1>1, <2>1, <2>2, <2>3 DEF VMsInv, UnderTest, In
  <1>5. SnapshotsInv' /\ TeardownInv'
    BY DEF TypeOK, SnapshotsInv, TeardownInv
  <1>6. FilesInv' /\ GradedOnOwnResults' /\ SnapshotsReturned'
    BY DEF FilesInv, GradedOnOwnResults, SnapshotsReturned
  <1>7. QED
    BY <1>2, <1>3, <1>4, <1>5, <1>6 DEF IInv

LEMMA PreflightIInv ==
  ASSUME VirtbenchAssumption, IInv, Preflight
  PROVE  IInv'
  <1>0. /\ pc = "preflight"
        /\ pc' \in {"provision", "teardown"}
        /\ UNCHANGED <<cluster, files, run, done, test, ctx, bag, step, evidence,
                       leaving, trouble>>
    BY DEF Preflight
  <1> USE Constants, <1>0 DEF IInv, cluster
  <1>1. TypeOK'
    BY DEF TypeOK
  <1>2. BagInv' /\ PathInv' /\ VMsInv'
    BY DEF TypeOK, BagInv, PathInv, VMsInv, UnderTest, EmptyBag
  <1>3. SnapshotsInv' /\ TeardownInv'
    BY DEF TypeOK, SnapshotsInv, TeardownInv
  <1>4. FilesInv' /\ GradedOnOwnResults' /\ SnapshotsReturned'
    BY DEF FilesInv, GradedOnOwnResults, SnapshotsReturned
  <1>5. QED
    BY <1>1, <1>2, <1>3, <1>4 DEF IInv

LEMMA ProvisionIInv ==
  ASSUME VirtbenchAssumption, IInv, Provision
  PROVE  IInv'
  <1> USE Constants DEF IInv, Provision, cluster
  <1>1. test \in Tests
    BY DEF TypeOK
  <1>2. \/ test \in Replays /\ pc' = "collect"
        \/ test \notin Replays /\ Scenario[test] = "drain" /\ pc' = "seed"
        \/ test \notin Replays /\ Scenario[test] = "recovery" /\ pc' = "apply"
        \/ /\ test \notin Replays /\ Scenario[test] \notin {"drain", "recovery"}
           /\ pc' = "prepare"
        \/ pc' = "teardown"
    <2>1. CASE test \notin Replays /\ Scenario[test] = "drain"
      BY <2>1
    <2>2. CASE test \notin Replays /\ Scenario[test] = "recovery"
      BY <2>2
    <2>3. CASE test \notin Replays /\ Scenario[test] \notin {"drain", "recovery"}
      BY <2>3
    <2>4. QED
      BY <2>1, <2>2, <2>3
  <1>3. /\ bag'.kubeconfig = Cluster[test]
        /\ bag'.prefix = Prefix[test]
        /\ bag'.created = bag.created
        /\ bag' \in [replay : BOOLEAN, prefix : Prefixes \cup {None},
                     kubeconfig : Clusters \cup {None}, created : SUBSET (1..Sources)]
    <2>1. (test \in Replays) \in BOOLEAN
      OBVIOUS
    <2>2. QED
      BY <1>1, <2>1 DEF TypeOK
  <1>4. bag'.replay <=> test \in Replays
    BY DEF TypeOK
  <1>5. TypeOK'
    BY <1>1, <1>2, <1>3 DEF TypeOK
  <1>6. step = 1
    BY DEF VMsInv, UnderTest
  <1>7. BagInv'
    BY <1>1, <1>2, <1>3, <1>4 DEF TypeOK, BagInv
  <1>8. PathInv'
    BY <1>2, <1>3, <1>4 DEF PathInv
  <1>9. VMsInv'
    BY <1>1, <1>2, <1>6, OwnSpacesFacts DEF TypeOK, VMsInv, UnderTest
  <1>10. SnapshotsInv' /\ TeardownInv'
    BY DEF TypeOK, SnapshotsInv, TeardownInv
  <1>11. FilesInv' /\ GradedOnOwnResults' /\ SnapshotsReturned'
    BY DEF FilesInv, GradedOnOwnResults, SnapshotsReturned
  <1>12. QED
    BY <1>5, <1>7, <1>8, <1>9, <1>10, <1>11 DEF IInv

LEMMA SeedIInv ==
  ASSUME VirtbenchAssumption, IInv, Seed
  PROVE  IInv'
  <1> USE Constants DEF IInv, cluster
  <1>1. /\ pc = "seed" /\ test \in Tests /\ test \notin Replays
        /\ Scenario[test] = "drain"
        /\ UNCHANGED <<cordoned, snaps, files, run, done, test, ctx, bag, step,
                       evidence, leaving, trouble>>
    BY DEF Seed, TypeOK, PathInv
  <1>2. PICK gone : /\ Delete(gone) /\ gone = {}
                    /\ \/ pc' = "prepare" /\ OwnSpaces(test) \subseteq SeenRunning
                       \/ pc' = "teardown"
    BY <1>1, CLIFacts DEF Seed
  <1>3. space' = space
    BY <1>2 DEF Delete, TypeOK
  <1>4. TypeOK'
    BY <1>1, <1>2, <1>3 DEF TypeOK
  <1>5. BagInv' /\ PathInv'
    BY <1>1, <1>2 DEF BagInv, PathInv
  <1>6. VMsInv'
    <2>1. OwnSpaces(test)' = OwnSpaces(test) /\ UnderTest
      BY <1>1 DEF OwnSpaces, UnderTest
    <2>2. pc' = "prepare" =>
            \A n \in OwnSpaces(test) : space[n] = "active" \/ n \in leaving
      BY <1>1, <1>2, <2>1 DEF VMsInv, SeenRunning, In
    <2>3. QED
      BY <1>1, <1>2, <1>3, <2>1, <2>2 DEF VMsInv
  <1>7. SnapshotsInv' /\ TeardownInv'
    BY <1>1, <1>2 DEF SnapshotsInv, TeardownInv
  <1>8. FilesInv' /\ GradedOnOwnResults' /\ SnapshotsReturned'
    BY <1>1, <1>2 DEF FilesInv, GradedOnOwnResults, SnapshotsReturned
  <1>9. QED
    BY <1>4, <1>5, <1>6, <1>7, <1>8 DEF IInv

\* With the VM of every step its namespace is there, or was on its way out, and none
\* of the earlier ones goes.
LEMMA ApplyIInv ==
  ASSUME VirtbenchAssumption, IInv, Apply
  PROVE  IInv'
  <1> DEFINE n == [cluster |-> bag.kubeconfig, prefix |-> Prefix[test], vm |-> step]
             made == {n} \ In("terminating")
  <1> USE Constants DEF IInv, cluster
  <1>1. /\ pc = "apply" /\ test \in Tests /\ test \notin Replays
        /\ Scenario[test] = "recovery" /\ bag.kubeconfig = Cluster[test]
        /\ step \in Nat \ {0} /\ VMs[test] \in Nat
        /\ UNCHANGED <<cordoned, snaps, files, run, done, test, ctx, bag,
                       evidence, leaving, trouble>>
    BY DEF Apply, TypeOK, PathInv, BagInv, VMsInv
  <1>2. UnderTest
    BY <1>1 DEF UnderTest
  <1>3. CASE /\ Create(made)
             /\ step' = step + 1
             /\ UNCHANGED pc
    <2>1. TypeOK'
      BY <1>1, <1>3, CreateFacts DEF TypeOK
    <2>2. BagInv' /\ PathInv' /\ SnapshotsInv' /\ TeardownInv'
      BY <1>1, <1>3 DEF BagInv, PathInv, SnapshotsInv, TeardownInv
    <2>3. ASSUME NEW m \in OwnSpaces(test)
          PROVE  /\ m \in Namespaces
                 /\ space[m] = "active" => space'[m] = "active"
                 /\ space'[m] = "terminating" => space[m] = "terminating"
      BY <1>1, <1>3, CreateFacts, OwnSpacesFacts
    <2>4. ASSUME NEW m \in OwnSpaces(test), m.vm < step + 1
          PROVE  space'[m] = "active" \/ m \in leaving
      <3>1. m \in Namespaces /\ m.vm \in 1..VMs[test]
        BY <1>1, OwnSpacesFacts
      <3>2. CASE m.vm < step
        BY <1>1, <2>3, <3>2 DEF VMsInv
      <3>3. CASE m.vm = step /\ space[m] = "terminating"
        BY <1>1, <1>2, <3>3 DEF VMsInv
      <3>4. CASE m.vm = step /\ space[m] # "terminating"
        <4>1. m = n
          BY <1>1, <3>4, OwnSpacesFacts
        <4>2. m \in made
          BY <3>4, <4>1 DEF In
        <4>3. QED
          BY <1>3, <3>1, <4>2, CreateFacts
      <3>5. QED
        BY <1>1, <2>4, <3>1, <3>2, <3>3, <3>4
    <2>5. VMsInv'
      <3>1. OwnSpaces(test)' = OwnSpaces(test) /\ UnderTest' = UnderTest
        BY <1>1 DEF OwnSpaces, UnderTest
      <3>2. \A m \in OwnSpaces(test) : space'[m] = "terminating" => m \in leaving
        BY <1>1, <1>2, <2>3 DEF VMsInv
      <3>3. QED
        BY <1>1, <1>3, <2>4, <3>1, <3>2 DEF VMsInv
    <2>6. FilesInv' /\ GradedOnOwnResults' /\ SnapshotsReturned'
      BY <1>1, <1>3 DEF FilesInv, GradedOnOwnResults, SnapshotsReturned
    <2>7. QED
      BY <2>1, <2>2, <2>5, <2>6 DEF IInv
  <1>4. CASE /\ \/ step > VMs[test] /\ pc' = "await"
                \/ pc' = "teardown"
             /\ step' = 1
             /\ UNCHANGED space
    <2>1. TypeOK'
      BY <1>1, <1>4 DEF TypeOK
    <2>2. BagInv' /\ PathInv' /\ SnapshotsInv' /\ TeardownInv'
      BY <1>1, <1>4 DEF BagInv, PathInv, SnapshotsInv, TeardownInv
    <2>3. ASSUME step > VMs[test], NEW m \in OwnSpaces(test)
          PROVE  space[m] = "active" \/ m \in leaving
      <3>1. m.vm \in 1..VMs[test]
        BY <1>1, OwnSpacesFacts
      <3>2. QED
        BY <1>1, <2>3, <3>1 DEF VMsInv
    <2>4. VMsInv'
      BY <1>1, <1>4, <2>3 DEF VMsInv, UnderTest, OwnSpaces
    <2>5. FilesInv' /\ GradedOnOwnResults' /\ SnapshotsReturned'
      BY <1>1, <1>4 DEF FilesInv, GradedOnOwnResults, SnapshotsReturned
    <2>6. QED
      BY <2>1, <2>2, <2>4, <2>5 DEF IInv
  <1>5. QED
    BY <1>1, <1>3, <1>4 DEF Apply

\* Waiting changes nothing.
LEMMA AwaitRunningIInv ==
  ASSUME VirtbenchAssumption, IInv, AwaitRunning
  PROVE  IInv'
  <1> USE Constants DEF IInv, cluster
  <1>1. /\ pc = "await" /\ test \in Tests /\ test \notin Replays
        /\ pc' \in {"await", "prepare", "teardown"}
        /\ step' \in {1, step + 1} /\ step' \in Nat \ {0}
        /\ UNCHANGED <<cluster, files, run, done, test, ctx, bag, evidence, leaving, trouble>>
    BY DEF AwaitRunning, TypeOK, PathInv, VMsInv
  <1>2. TypeOK'
    BY <1>1 DEF TypeOK
  <1>3. BagInv' /\ PathInv'
    BY <1>1 DEF BagInv, PathInv
  <1>4. VMsInv'
    BY <1>1 DEF VMsInv, UnderTest, OwnSpaces
  <1>5. SnapshotsInv' /\ TeardownInv'
    BY <1>1 DEF SnapshotsInv, TeardownInv
  <1>6. FilesInv' /\ GradedOnOwnResults' /\ SnapshotsReturned'
    BY <1>1 DEF FilesInv, GradedOnOwnResults, SnapshotsReturned
  <1>7. QED
    BY <1>2, <1>3, <1>4, <1>5, <1>6 DEF IInv

LEMMA PrepareIInv ==
  ASSUME VirtbenchAssumption, IInv, Prepare
  PROVE  IInv'
  <1> USE Constants DEF IInv, cluster
  <1>1. /\ pc = "prepare" /\ test \in Tests /\ test \notin Replays
        /\ pc' \in {"prepare", "cli", "teardown"}
        /\ UNCHANGED <<space, cordoned, files, run, done, test, ctx, evidence, leaving, trouble>>
    BY DEF Prepare, TypeOK, PathInv
  <1>2. /\ \/ UNCHANGED <<snaps, bag>>
           \/ /\ step <= (IF test \in UsesSnapshot THEN Sources ELSE 0)
              /\ snaps' = snaps \cup {step}
              /\ bag' = [bag EXCEPT !.created = @ \cup {step}]
        /\ step' \in {1, step, step + 1}
    BY DEF Prepare
  <1>3. /\ bag' \in [replay : BOOLEAN, prefix : Prefixes \cup {None},
                     kubeconfig : Clusters \cup {None}, created : SUBSET (1..Sources)]
        /\ bag'.replay = bag.replay /\ bag'.prefix = bag.prefix
        /\ bag'.kubeconfig = bag.kubeconfig
        /\ snaps' \subseteq 1..Sources
        /\ snaps' \subseteq bag'.created
        /\ step' \in Nat \ {0}
    BY <1>1, <1>2 DEF TypeOK, SnapshotsInv, VMsInv, UnderTest
  <1>4. TypeOK'
    BY <1>1, <1>3 DEF TypeOK
  <1>5. BagInv' /\ PathInv'
    BY <1>1, <1>3 DEF BagInv, PathInv
  <1>6. VMsInv'
    BY <1>1, <1>3 DEF VMsInv, UnderTest, In, OwnSpaces
  <1>7. SnapshotsInv' /\ TeardownInv'
    BY <1>1, <1>3 DEF SnapshotsInv, TeardownInv
  <1>8. FilesInv' /\ GradedOnOwnResults' /\ SnapshotsReturned'
    BY <1>1 DEF FilesInv, GradedOnOwnResults, SnapshotsReturned
  <1>9. QED
    BY <1>4, <1>5, <1>6, <1>7, <1>8 DEF IInv

LEMMA CLIWorksIInv ==
  ASSUME VirtbenchAssumption, IInv, CLIWorks
  PROVE  IInv'
  <1> USE Constants DEF IInv, cluster
  <1>1. /\ pc \in {"seed", "cli"} /\ test \in Tests
        /\ UNCHANGED <<snaps, files, run, done, pc, test, ctx, bag, step,
                       evidence, leaving, trouble>>
    BY DEF CLIWorks, TypeOK
  <1>2. CASE UNCHANGED cordoned /\ \E n \in OwnSpaces(test) \cap In("absent") : Create({n})
    <2>1. PICK n \in OwnSpaces(test) \cap In("absent") : Create({n})
      BY <1>2
    <2>2. TypeOK'
      BY <1>1, <1>2, <2>1, CreateFacts DEF TypeOK
    <2>3. \A m \in Namespaces :
            /\ space[m] = "active" => space'[m] = "active"
            /\ space'[m] = "terminating" => space[m] = "terminating"
      BY <2>1, CreateFacts DEF In
    <2>4. VMsInv'
      <3>1. \A m \in OwnSpaces(test) : m \in Namespaces
        BY <1>1, OwnSpacesFacts
      <3>2. OwnSpaces(test)' = OwnSpaces(test) /\ UnderTest' = UnderTest
        BY <1>1 DEF OwnSpaces, UnderTest
      <3>3. step' = step /\ leaving' = leaving /\ pc' = pc /\ test' = test
        BY <1>1
      <3>4. \A m \in OwnSpaces(test) :
              /\ space[m] = "active" => space'[m] = "active"
              /\ space'[m] = "terminating" => space[m] = "terminating"
        BY <2>3, <3>1
      <3>5. QED
        BY <1>1, <3>2, <3>3, <3>4 DEF VMsInv
    <2>5. QED
      BY <1>1, <2>2, <2>4 DEF BagInv, PathInv, SnapshotsInv, TeardownInv, FilesInv,
                              GradedOnOwnResults, SnapshotsReturned
  <1>3. CASE UNCHANGED space /\ cordoned' = cordoned \cup {<<Cluster[test], Target>>}
    <2>1. TypeOK'
      BY <1>1, <1>3 DEF TypeOK
    <2>2. VMsInv'
      BY <1>1, <1>3 DEF VMsInv, UnderTest, In, OwnSpaces
    <2>3. QED
      BY <1>1, <2>1, <2>2 DEF BagInv, PathInv, SnapshotsInv, TeardownInv, FilesInv,
                              GradedOnOwnResults, SnapshotsReturned
  <1>4. QED
    BY <1>2, <1>3 DEF CLIWorks

LEMMA RunCLIIInv ==
  ASSUME VirtbenchAssumption, IInv, RunCLI
  PROVE  IInv'
  <1> USE Constants DEF IInv
  <1>1. /\ pc = "cli" /\ test \in Tests
        /\ pc' \in {"collect", "teardown"}
        /\ UNCHANGED <<snaps, run, done, test, ctx, bag, step, evidence, leaving, trouble>>
        /\ cordoned' \subseteq cordoned
        /\ files' \in {files, files \cup {[root |-> Root(test), run |-> run]}}
    BY DEF RunCLI, TypeOK
  <1>2. space' \in [Namespaces -> {"absent", "active", "terminating"}]
    BY DeleteFacts DEF RunCLI
  <1>3. /\ [root |-> Root(test), run |-> run] \in [root : Tests \X Runs, run : Runs]
        /\ Root(test)[2] = run
    BY <1>1 DEF TypeOK, Root
  <1>4. TypeOK'
    BY <1>1, <1>2, <1>3 DEF TypeOK
  <1>5. BagInv' /\ PathInv' /\ VMsInv'
    BY <1>1 DEF BagInv, PathInv, VMsInv, UnderTest
  <1>6. SnapshotsInv' /\ TeardownInv'
    BY <1>1 DEF SnapshotsInv, TeardownInv
  <1>7. FilesInv' /\ GradedOnOwnResults' /\ SnapshotsReturned'
    BY <1>1, <1>3 DEF FilesInv, GradedOnOwnResults, SnapshotsReturned
  <1>8. QED
    BY <1>4, <1>5, <1>6, <1>7 DEF IInv

\* What lies under the root of a test and a run was written in that run.
LEMMA CollectAndGradeIInv ==
  ASSUME VirtbenchAssumption, IInv, CollectAndGrade
  PROVE  IInv'
  <1> USE Constants DEF IInv, cluster
  <1>1. /\ pc = "collect" /\ test \in Tests /\ pc' = "teardown"
        /\ UNCHANGED <<cluster, files, run, done, test, ctx, bag, step, leaving, trouble>>
    BY DEF CollectAndGrade, TypeOK
  <1>2. evidence' \in {0, run} /\ evidence' \in 0..MaxRuns
    <2>1. CASE UNCHANGED evidence
      BY <2>1 DEF GradedOnOwnResults, TypeOK
    <2>2. CASE \E f \in files : f.root = Root(test) /\ evidence' = f.run
      <3>1. PICK f \in files : f.root = Root(test) /\ evidence' = f.run
        BY <2>2
      <3>2. evidence' = run
        BY <3>1 DEF FilesInv, Root
      <3>3. QED
        BY <3>2 DEF TypeOK, Runs
    <2>3. QED
      BY <2>1, <2>2 DEF CollectAndGrade
  <1>3. TypeOK'
    BY <1>1, <1>2 DEF TypeOK
  <1>4. BagInv' /\ PathInv' /\ VMsInv'
    BY <1>1 DEF BagInv, PathInv, VMsInv, UnderTest
  <1>5. SnapshotsInv' /\ TeardownInv'
    BY <1>1 DEF SnapshotsInv, TeardownInv
  <1>6. FilesInv' /\ GradedOnOwnResults' /\ SnapshotsReturned'
    BY <1>1, <1>2 DEF FilesInv, GradedOnOwnResults, SnapshotsReturned
  <1>7. QED
    BY <1>3, <1>4, <1>5, <1>6 DEF IInv

LEMMA TeardownBeginsIInv ==
  ASSUME VirtbenchAssumption, IInv, TeardownBegins
  PROVE  IInv'
  <1> USE Constants DEF IInv, cluster
  <1>1. /\ pc = "teardown" /\ test \in Tests
        /\ \/ bag.replay /\ test \in Replays /\ pc' = "over"
           \/ ~bag.replay /\ pc' = "scenario"
        /\ leaving' = {}
        /\ UNCHANGED <<cluster, files, run, done, test, ctx, bag, step, evidence, trouble>>
    BY DEF TeardownBegins, TypeOK, BagInv
  <1>2. TypeOK'
    BY <1>1 DEF TypeOK
  <1>3. BagInv' /\ PathInv' /\ VMsInv'
    BY <1>1 DEF BagInv, PathInv, VMsInv, UnderTest
  <1>4. SnapshotsInv' /\ TeardownInv' /\ SnapshotsReturned'
    BY <1>1 DEF SnapshotsInv, TeardownInv, SnapshotsReturned, OnOwnDefaults
  <1>5. FilesInv' /\ GradedOnOwnResults'
    BY <1>1 DEF FilesInv, GradedOnOwnResults
  <1>6. QED
    BY <1>2, <1>3, <1>4, <1>5 DEF IInv

\* With no worker missed, none of the cluster that the teardown turned to is cordoned.
LEMMA ScenarioTeardownIInv ==
  ASSUME VirtbenchAssumption, IInv, ScenarioTeardown
  PROVE  IInv'
  <1> USE Constants DEF IInv
  <1>1. /\ pc = "scenario" /\ test \in Tests /\ ~bag.replay /\ pc' = "sweep"
        /\ UNCHANGED <<space, snaps, files, run, done, test, ctx, bag, step,
                       evidence, leaving>>
    BY DEF ScenarioTeardown, TypeOK, PathInv
  <1>2. /\ cordoned' \subseteq cordoned
        /\ trouble' \in BOOLEAN
        /\ Scenario[test] = "drain" /\ ~trouble' =>
             \A x \in cordoned' : x[1] # BagCluster
    <2>1. CASE Scenario[test] = "drain"
      <3>1. PICK missed \in SUBSET {x \in cordoned : x[1] = BagCluster} :
              /\ cordoned' = (cordoned \ {x \in cordoned : x[1] = BagCluster}) \cup missed
              /\ trouble' = (trouble \/ missed # {})
        BY <2>1 DEF ScenarioTeardown
      <3>2. ~trouble' => missed = {}
        BY <3>1, Zenon
      <3>3. trouble' \in BOOLEAN
        BY <3>1, Zenon
      <3>4. QED
        BY <3>1, <3>2, <3>3
    <2>2. CASE Scenario[test] # "drain"
      BY <2>2 DEF ScenarioTeardown, TypeOK
    <2>3. QED
      BY <2>1, <2>2
  <1>3. TypeOK'
    BY <1>1, <1>2 DEF TypeOK
  <1>4. BagInv' /\ PathInv' /\ VMsInv'
    BY <1>1 DEF BagInv, PathInv, VMsInv, UnderTest
  <1>5. SnapshotsInv'
    BY <1>1 DEF SnapshotsInv
  <1>6. TeardownInv'
    BY <1>1, <1>2 DEF TeardownInv, OnOwnDefaults, BagCluster
  <1>7. FilesInv' /\ GradedOnOwnResults' /\ SnapshotsReturned'
    BY <1>1 DEF FilesInv, GradedOnOwnResults, SnapshotsReturned
  <1>8. QED
    BY <1>3, <1>4, <1>5, <1>6, <1>7 DEF IInv

\* With no namespace missed, none of the test is left active: its prefix matches.
LEMMA SweepIInv ==
  ASSUME VirtbenchAssumption, IInv, Sweep
  PROVE  IInv'
  <1> DEFINE swept ==
        {n \in In("active") : n.cluster = BagCluster /\ n.prefix \in Sweeps[BagPrefix]}
  <1> USE Constants DEF IInv
  <1>1. /\ pc = "sweep" /\ test \in Tests /\ ~bag.replay /\ pc' = "snapshots"
        /\ UNCHANGED <<cordoned, snaps, files, run, done, test, ctx, bag, step,
                       evidence, leaving>>
    BY DEF Sweep, TypeOK, PathInv
  <1>2. PICK missed \in SUBSET swept :
               Delete(swept \ missed) /\ trouble' = (trouble \/ missed # {})
    BY DEF Sweep
  <1>3. /\ trouble' \in BOOLEAN
        /\ ~trouble' => ~trouble /\ missed = {}
    BY <1>2, Zenon
  <1>4. TypeOK'
    BY <1>1, <1>2, <1>3, DeleteFacts DEF TypeOK
  <1>5. BagInv' /\ PathInv' /\ VMsInv' /\ SnapshotsInv'
    BY <1>1 DEF BagInv, PathInv, VMsInv, UnderTest, SnapshotsInv
  <1>6. TeardownInv'
    <2>1. ASSUME ~trouble', OnOwnDefaults, NEW n \in OwnSpaces(test)
          PROVE  space'[n] # "active"
      <3>1. /\ n \in Namespaces /\ n.cluster = BagCluster /\ n.prefix = BagPrefix
            /\ n.prefix \in Sweeps[BagPrefix]
        BY <1>1, <2>1, OwnSpacesFacts DEF OnOwnDefaults
      <3>2. CASE space[n] = "active"
        BY <1>2, <1>3, <2>1, <3>1, <3>2, DeleteFacts DEF In
      <3>3. CASE space[n] # "active"
        BY <1>2, <3>1, <3>3, DeleteFacts
      <3>4. QED
        BY <3>2, <3>3
    <2>2. OnOwnDefaults' <=> OnOwnDefaults
      BY <1>1 DEF OnOwnDefaults, BagCluster, BagPrefix
    <2>3. QED
      BY <1>1, <1>3, <2>1, <2>2 DEF TeardownInv, OwnSpaces
  <1>7. FilesInv' /\ GradedOnOwnResults' /\ SnapshotsReturned'
    BY <1>1 DEF FilesInv, GradedOnOwnResults, SnapshotsReturned
  <1>8. QED
    BY <1>4, <1>5, <1>6, <1>7 DEF IInv

LEMMA CleanUpSnapshotsIInv ==
  ASSUME VirtbenchAssumption, IInv, CleanUpSnapshots
  PROVE  IInv'
  <1> USE Constants DEF IInv
  <1>1. /\ pc = "snapshots" /\ test \in Tests /\ pc' = "over"
        /\ UNCHANGED <<space, cordoned, files, run, done, test, ctx, bag, step, evidence,
                       leaving>>
    BY DEF CleanUpSnapshots, TypeOK
  <1>2. PICK missed \in SUBSET bag.created :
               /\ snaps' = snaps \ (bag.created \ missed)
               /\ trouble' = (trouble \/ missed # {})
    BY DEF CleanUpSnapshots
  <1>3. /\ trouble' \in BOOLEAN
        /\ ~trouble' => ~trouble /\ missed = {}
    BY <1>2, Zenon
  <1>4. TypeOK'
    BY <1>1, <1>2, <1>3 DEF TypeOK
  <1>5. BagInv' /\ PathInv' /\ VMsInv'
    BY <1>1 DEF BagInv, PathInv, VMsInv, UnderTest
  <1>6. SnapshotsInv' /\ SnapshotsReturned'
    BY <1>1, <1>2, <1>3 DEF SnapshotsInv, SnapshotsReturned
  <1>7. TeardownInv'
    BY <1>1, <1>3 DEF TeardownInv, OnOwnDefaults, BagCluster, BagPrefix, OwnSpaces
  <1>8. FilesInv' /\ GradedOnOwnResults'
    BY <1>1 DEF FilesInv, GradedOnOwnResults
  <1>9. QED
    BY <1>4, <1>5, <1>6, <1>7, <1>8 DEF IInv

\* The next test, of this process or of another one, starts afresh.
LEMMA NewTestIInv ==
  ASSUME VirtbenchAssumption, IInv, NewTest, UNCHANGED <<space, cordoned, files>>,
         run' \in Runs, done' \subseteq Tests
  PROVE  IInv'
  <1> USE Constants DEF IInv, NewTest
  <1>1. EmptyBag \in [replay : BOOLEAN, prefix : Prefixes \cup {None},
                      kubeconfig : Clusters \cup {None}, created : SUBSET (1..Sources)]
    BY DEF EmptyBag
  <1>2. TypeOK'
    <2>1. /\ (bag'.prefix = None) <=> (bag'.kubeconfig = None)
          /\ step' \in Nat /\ evidence' \in 0..MaxRuns
      BY DEF EmptyBag
    <2>2. QED
      BY <1>1, <2>1 DEF TypeOK
  <1>3. BagInv' /\ PathInv'
    BY DEF BagInv, PathInv, EmptyBag
  <1>4. VMsInv'
    <2>1. step' \in Nat \ {0}
      OBVIOUS
    <2>2. QED
      BY <2>1, Zenon DEF VMsInv, UnderTest
  <1>5. SnapshotsInv'
    BY DEF SnapshotsInv, EmptyBag
  <1>6. TeardownInv'
    BY DEF TeardownInv
  <1>7. FilesInv' /\ GradedOnOwnResults' /\ SnapshotsReturned'
    BY DEF FilesInv, GradedOnOwnResults, SnapshotsReturned
  <1>8. QED
    BY <1>2, <1>3, <1>4, <1>5, <1>6, <1>7 DEF IInv

LEMMA EndContextIInv ==
  ASSUME VirtbenchAssumption, IInv, EndContext
  PROVE  IInv'
  <1> USE DEF IInv, EndContext, cluster
  <1>1. TypeOK'
    BY DEF TypeOK
  <1>2. BagInv' /\ PathInv' /\ VMsInv' /\ SnapshotsInv'
    BY DEF BagInv, PathInv, VMsInv, UnderTest, SnapshotsInv, In, OwnSpaces
  <1>3. TeardownInv'
    BY DEF TeardownInv, OnOwnDefaults, BagCluster, BagPrefix, OwnSpaces
  <1>4. FilesInv' /\ GradedOnOwnResults' /\ SnapshotsReturned'
    BY DEF FilesInv, GradedOnOwnResults, SnapshotsReturned
  <1>5. QED
    BY <1>1, <1>2, <1>3, <1>4 DEF IInv

\* The cluster takes none that is active.
LEMMA NamespaceGoneIInv ==
  ASSUME VirtbenchAssumption, IInv, NamespaceGone
  PROVE  IInv'
  <1> USE Constants DEF IInv
  <1>1. PICK n \in In("terminating") : space' = [space EXCEPT ![n] = "absent"]
    BY DEF NamespaceGone
  <1>2. UNCHANGED <<cordoned, snaps, files, run, done, pc, test, ctx, bag, step,
                    evidence, leaving, trouble>>
    BY DEF NamespaceGone
  <1>3. /\ space' \in [Namespaces -> {"absent", "active", "terminating"}]
        /\ \A m \in Namespaces :
             /\ space'[m] = "active" <=> space[m] = "active"
             /\ space'[m] = "terminating" => space[m] = "terminating"
    BY <1>1 DEF TypeOK, In
  <1>4. TypeOK'
    BY <1>2, <1>3 DEF TypeOK
  <1>5. BagInv' /\ PathInv' /\ SnapshotsInv'
    BY <1>2 DEF BagInv, PathInv, SnapshotsInv
  <1>6. test \in Tests \/ pc = "idle"
    BY DEF TypeOK
  <1>7. VMsInv'
    <2>1. CASE pc = "idle"
      BY <1>2, <2>1 DEF VMsInv
    <2>2. CASE test \in Tests
      <3>1. \A m \in OwnSpaces(test) : m \in Namespaces
        BY <2>2, OwnSpacesFacts
      <3>2. OwnSpaces(test)' = OwnSpaces(test) /\ UnderTest' = UnderTest
        BY <1>2 DEF OwnSpaces, UnderTest
      <3>3. QED
        BY <1>2, <1>3, <3>1, <3>2 DEF VMsInv
    <2>3. QED
      BY <1>6, <2>1, <2>2
  <1>8. TeardownInv'
    BY <1>2, <1>3, <1>6, OwnSpacesFacts
       DEF TeardownInv, OnOwnDefaults, BagCluster, BagPrefix, OwnSpaces
  <1>9. FilesInv' /\ GradedOnOwnResults' /\ SnapshotsReturned'
    BY <1>2 DEF FilesInv, GradedOnOwnResults, SnapshotsReturned
  <1>10. QED
    BY <1>4, <1>5, <1>7, <1>8, <1>9 DEF IInv

LEMMA NextIInv ==
  ASSUME VirtbenchAssumption, IInv, [Next]_vars
  PROVE  IInv'
  <1>1. ASSUME NEW t \in Tests, Begin(t)
        PROVE  IInv'
    BY <1>1, BeginIInv
  <1>2. CASE Finish
    BY <1>2, NewTestIInv DEF Finish, IInv, TypeOK
  <1>3. CASE StartAnotherRun
    BY <1>3, NewTestIInv, Constants DEF StartAnotherRun, IInv, TypeOK, Runs
  <1>4. CASE UNCHANGED vars
    BY <1>4 DEF vars, cluster, IInv, TypeOK, BagInv, PathInv, VMsInv, UnderTest, SnapshotsInv,
                TeardownInv, FilesInv, GradedOnOwnResults, SnapshotsReturned, In,
                OwnSpaces, OnOwnDefaults, BagCluster, BagPrefix
  <1>5. QED
    BY <1>1, <1>2, <1>3, <1>4, PreflightIInv, ProvisionIInv, SeedIInv, ApplyIInv,
       AwaitRunningIInv, PrepareIInv, CLIWorksIInv, RunCLIIInv, CollectAndGradeIInv,
       TeardownBeginsIInv,
       ScenarioTeardownIInv, SweepIInv, CleanUpSnapshotsIInv, EndContextIInv,
       NamespaceGoneIInv
    DEF Next

-----------------------------------------------------------------------------
(* Theorems. *)

\* The invariant of all that the tests do to the clusters, over any number of runs.
THEOREM VirtbenchIInv ==
  ASSUME VirtbenchAssumption
  PROVE  Spec => []IInv
  <1>1. Init => IInv
    BY InitIInv
  <1>2. IInv /\ [Next]_vars => IInv'
    BY NextIInv
  <1>3. QED
    BY <1>1, <1>2, PTL DEF Spec

\* The types; and that the bag names a prefix exactly when it names a cluster.
THEOREM VirtbenchTypeOK ==
  ASSUME VirtbenchAssumption
  PROVE  Spec => []TypeOK
  <1>1. IInv => TypeOK
    BY DEF IInv
  <1>2. QED
    BY <1>1, VirtbenchIInv, PTL

\* A test whose teardown (genericTeardown, drainTeardown) had no failing command
\* leaves no namespace and no cordon of its own, wherever its stages broke off.
THEOREM CleanedUpHolds ==
  ASSUME VirtbenchAssumption
  PROVE  Spec => []CleanedUp
  <1>1. ASSUME IInv
        PROVE  CleanedUp
    <2> SUFFICES ASSUME pc = "over", ~trouble, OnOwnDefaults
                 PROVE  /\ OwnSpaces(test) \cap In("active") = {}
                        /\ Scenario[test] = "drain" => Schedulable(Cluster[test]) = Workers
      BY DEF CleanedUp, OnOwnDefaults
    <2>1. \A n \in OwnSpaces(test) : space[n] # "active"
      BY <1>1 DEF IInv, TeardownInv
    <2>2. Scenario[test] = "drain" => \A w \in Workers : <<Cluster[test], w>> \notin cordoned
      BY <1>1 DEF IInv, TeardownInv
    <2>3. QED
      BY <2>1, <2>2 DEF In, Schedulable
  <1>2. IInv => CleanedUp
    BY <1>1
  <1>3. QED
    BY <1>2, VirtbenchIInv, PTL

\* A snapshot that prepare has made is gone when its test is over, unless a deletion
\* failed, also when it never became ready.
THEOREM SnapshotsReturnedHolds ==
  ASSUME VirtbenchAssumption
  PROVE  Spec => []SnapshotsReturned
  <1>1. IInv => SnapshotsReturned
    BY DEF IInv
  <1>2. QED
    BY <1>1, VirtbenchIInv, PTL

\* A drain or a recovery finds all of its VMs in place when its CLI starts, but for
\* those in namespaces whose deletion was already under way when the test began.
THEOREM VMsUnderTestHolds ==
  ASSUME VirtbenchAssumption
  PROVE  Spec => []VMsUnderTest
  <1>1. ASSUME IInv, pc = "cli", Scenario[test] \in {"drain", "recovery"},
               NEW n \in OwnSpaces(test)
        PROVE  n \in In("active") \cup leaving
    <2>1. UnderTest /\ test \in Tests
      BY <1>1 DEF IInv, TypeOK, UnderTest
    <2>2. n \in Namespaces
      BY <1>1, <2>1 DEF Namespaces
    <2>3. QED
      BY <1>1, <2>1, <2>2 DEF IInv, VMsInv, In
  <1>2. IInv => VMsUnderTest
    BY <1>1 DEF VMsUnderTest
  <1>3. QED
    BY <1>2, VirtbenchIInv, PTL

\* ExecutionDir keeps the runs apart: what a test is graded on was written by the
\* same run.
THEOREM GradedOnOwnResultsHolds ==
  ASSUME VirtbenchAssumption
  PROVE  Spec => []GradedOnOwnResults
  <1>1. IInv => GradedOnOwnResults
    BY DEF IInv
  <1>2. QED
    BY <1>1, VirtbenchIInv, PTL

\* From Provision on no step takes a namespace or a cordon from another cluster than
\* the one of the test, and a replay takes none.
THEOREM OtherClustersLeftAloneOnceProvisionedHolds ==
  ASSUME VirtbenchAssumption
  PROVE  Spec => OtherClustersLeftAloneOnceProvisioned
  <1>1. ASSUME IInv, [Next]_vars, NEW c \in Clusters, TakesFrom(c), bag.kubeconfig # None
        PROVE  OnOwnCluster(c)
    <2> USE Constants, <1>1
    <2>1. CASE space' = space /\ cordoned \subseteq cordoned'
      BY <2>1 DEF TakesFrom
    <2>2. CASE \E made : Create(made) /\ UNCHANGED cordoned
      <3>1. PICK made : Create(made) /\ UNCHANGED cordoned
        BY <2>2
      <3>2. \A n \in Namespaces : space[n] = "active" => space'[n] = "active"
        BY <3>1 DEF Create
      <3>3. QED
        BY <3>1, <3>2 DEF TakesFrom
    <2>3. CASE Seed \/ RunCLI
      <3>1. /\ test \in Tests /\ test \notin Replays
            /\ \A x \in cordoned \ cordoned' : x[1] = Cluster[test]
        BY <2>3 DEF IInv, TypeOK, PathInv, Seed, RunCLI
      <3>2. PICK gone : Delete(gone) /\ gone \subseteq OwnSpaces(test)
        BY <2>3, CLIFacts DEF Seed, RunCLI
      <3>3. \A n \in Namespaces : space[n] = "active" /\ space'[n] # "active" =>
                                    n.cluster = Cluster[test]
        BY <3>1, <3>2, OwnSpacesFacts DEF Delete
      <3>4. QED
        BY <3>1, <3>3 DEF TakesFrom, OnOwnCluster
    <2>4. CASE ScenarioTeardown \/ Sweep
      <3>1. /\ test \in Tests /\ test \notin Replays
            /\ BagCluster = Cluster[test]
        BY <2>4 DEF IInv, TypeOK, PathInv, BagInv, BagCluster, ScenarioTeardown, Sweep
      <3>2. \A x \in cordoned \ cordoned' : x[1] = BagCluster
        BY <2>4 DEF ScenarioTeardown, Sweep
      <3>3. \A n \in Namespaces : space[n] = "active" /\ space'[n] # "active" =>
                                    n.cluster = BagCluster
        BY <2>4 DEF ScenarioTeardown, Sweep, Delete
      <3>4. QED
        BY <3>1, <3>2, <3>3 DEF TakesFrom, OnOwnCluster
    <2>5. CASE NamespaceGone
      <3>1. \A n \in Namespaces : space[n] = "active" => space'[n] = "active"
        BY <2>5 DEF NamespaceGone, IInv, TypeOK, In
      <3>2. QED
        BY <2>5, <3>1 DEF TakesFrom, NamespaceGone
    <2>6. CASE Apply \/ CLIWorks
      BY <2>1, <2>2, <2>6 DEF Apply, CLIWorks, cluster
    <2>7. QED
      BY <2>1, <2>3, <2>4, <2>5, <2>6
         DEF Next, Begin, Preflight, Provision, AwaitRunning, Prepare, CollectAndGrade,
             TeardownBegins, CleanUpSnapshots, Finish, EndContext, StartAnotherRun, vars, cluster
  <1>2. IInv /\ [Next]_vars =>
          [\A c \in Clusters : TakesFrom(c) /\ bag.kubeconfig # None => OnOwnCluster(c)]_vars
    BY <1>1
  <1>3. QED
    BY <1>2, VirtbenchIInv, PTL DEF Spec, OtherClustersLeftAloneOnceProvisioned

-----------------------------------------------------------------------------
(***************************************************************************)
(* The adapters side by side.  In a behaviour of MCAdapters each model     *)
(* takes steps of its own or stutters, so what is proved of each model,    *)
(* here and in its own module of proofs, holds of them together: whatever  *)
(* the tests, clusters and workers of the first model, and for the         *)
(* instances of the others that MCAdapters names.                          *)
(***************************************************************************)

\* The specification of each model is that of MCAdapters with the others hidden.
THEOREM EachAdapterMoves ==
  MCSpec => Spec /\ KB!Spec /\ BS!Spec /\ SP!Spec
  <1>1. MCInit => Init /\ KB!Init /\ BS!Init /\ SP!Init
    BY DEF MCInit
  <1>2. ASSUME [MCNext]_<<focus, vars, kbVars, bsVars, spVars>>
        PROVE  [Next]_vars /\ [KB!Next]_(KB!vars) /\ [BS!Next]_(BS!vars) /\ [SP!Next]_(SP!vars)
    <2>1. /\ UNCHANGED kbVars => UNCHANGED KB!vars
          /\ UNCHANGED bsVars => UNCHANGED BS!vars
          /\ UNCHANGED spVars => UNCHANGED SP!vars
      BY DEF kbVars, bsVars, spVars, KB!vars, KB!cluster, BS!vars, BS!image, BS!inspection,
             BS!caches, SP!vars
    <2>2. QED
      BY <1>2, <2>1 DEF MCNext
  <1>3. QED
    BY <1>1, <1>2, PTL DEF MCSpec, Spec, KB!Spec, BS!Spec, SP!Spec

\* All of the variables of the adapters have their types.
THEOREM AdaptersTypeOKHolds ==
  ASSUME VirtbenchAssumption
  PROVE  MCSpec => []AdaptersTypeOK
  <1>1. Spec => []TypeOK
    BY VirtbenchTypeOK
  <1>2. KB!Spec => []KB!TypeOK
    BY AdaptersAssumption, KB!KubeBurnerTypeOK
  <1>3. BS!Spec => []BS!TypeOK
    BY AdaptersAssumption, BS!BootSourceTypeOK
  <1>4. SP!Spec => []SP!TypeOK
    BY AdaptersAssumption, SP!SSHPodTypeOK
  <1>5. TypeOK /\ KB!TypeOK /\ BS!TypeOK /\ SP!TypeOK => AdaptersTypeOK
    BY DEF AdaptersTypeOK
  <1>6. QED
    BY <1>1, <1>2, <1>3, <1>4, <1>5, EachAdapterMoves, PTL

\* A test of virtbench or of kube-burner is graded on what its own run wrote: what an
\* earlier run left in the working directory is not taken for a result of this one.
THEOREM OwnResultsHolds ==
  ASSUME VirtbenchAssumption
  PROVE  MCSpec => []OwnResults
  <1>1. Spec => []GradedOnOwnResults
    BY GradedOnOwnResultsHolds
  <1>2. KB!Spec => []KB!SnapshotTestsGradedOnOwnResults
    BY AdaptersAssumption, KB!SnapshotTestsGradedOnOwnResultsHolds
  <1>3. GradedOnOwnResults /\ KB!SnapshotTestsGradedOnOwnResults => OwnResults
    BY DEF OwnResults
  <1>4. QED
    BY <1>1, <1>2, <1>3, EachAdapterMoves, PTL

\* When a kube-burner test is over, with no command of its Teardown having failed, its
\* namespace is gone and so is a private StorageClass whose name it learnt.
THEOREM KubeBurnerStorageReturned == MCSpec => []PrivateStorageReturned
  <1>1. KB!Spec => []KB!PrivateStorageReturned
    BY AdaptersAssumption, KB!PrivateStorageReturnedHolds
  <1>2. KB!PrivateStorageReturned => PrivateStorageReturned
    BY DEF PrivateStorageReturned
  <1>3. QED
    BY <1>1, <1>2, EachAdapterMoves, PTL

\* kube-burner is staged and run on a private copy of the selected class only after CDI
\* has taken over the patch of its profile.
THEOREM KubeBurnerMeasuredOnClass == MCSpec => []MeasuredOnSelectedClass
  <1>1. KB!Spec => []KB!MeasuredOnSelectedClass
    BY AdaptersAssumption, KB!MeasuredOnSelectedClassHolds
  <1>2. KB!MeasuredOnSelectedClass => MeasuredOnSelectedClass
    BY DEF MeasuredOnSelectedClass
  <1>3. QED
    BY <1>1, <1>2, EachAdapterMoves, PTL

\* CheckStorage reports no other class for a boot source than that of the volume which
\* the ready snapshot was taken of, while imports replace the volume under it.
THEOREM BootSourceClassIsTrue == MCSpec => []SourceClassIsTrue
  <1>1. BS!Spec => []BS!SourceClassIsTrue
    BY AdaptersAssumption, BS!SourceClassIsTrueHolds
  <1>2. BS!SourceClassIsTrue => SourceClassIsTrue
    BY DEF SourceClassIsTrue
  <1>3. QED
    BY <1>1, <1>2, EachAdapterMoves, PTL

\* CheckStorage blocks a run for a source that cannot be used, and for nothing else.
THEOREM BootSourceFaultsBlock == MCSpec => []OnlyFaultsBlock
  <1>1. BS!Spec => []BS!OnlyFaultsBlock
    BY AdaptersAssumption, BS!OnlyFaultsBlockHolds
  <1>2. BS!OnlyFaultsBlock => OnlyFaultsBlock
    BY DEF OnlyFaultsBlock
  <1>3. QED
    BY <1>1, <1>2, EachAdapterMoves, PTL

\* A failed Setup of the helper pod leaves no pod of its own, although creates take
\* effect that were reported as failed, or later: there is one harness and no eviction.
THEOREM HelperPodLeavesNothing == MCSpec => FailedSetupLeavesNothing
  <1>1. SP!SingleRun
    BY DEF SP!SingleRun
  <1>2. SP!Spec => SP!FailedSetupLeavesNothing
    BY <1>1, AdaptersAssumption, SP!FailedSetupLeavesNothingHolds
  <1>3. SP!FailedSetupLeavesNothing <=> FailedSetupLeavesNothing
    BY DEF FailedSetupLeavesNothing
  <1>4. QED
    BY <1>2, <1>3, EachAdapterMoves, PTL

=============================================================================
