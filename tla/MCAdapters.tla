----------------------------- MODULE MCAdapters ------------------------------
(* The models of what the tool adapters do to a cluster, or read from it, side *)
(* by side: in each behaviour one of them moves.  The first is MCVirtbenchJob; *)
(* the others are instances of their modules of proofs, which add the theorems *)
(* to the models, so that VirtbenchJobProofs can use them here.                *)
EXTENDS MCVirtbenchJob, Sequences

CONSTANTS snapshots, reduced, density, vmsnapshot, h1

VARIABLES
  focus,
  kSpace, kClass, kSummary, kRun, kDone, kPc, kTest, kCtx, kBag, kEvidence, kTrouble,
  owned, snap, origin, volumes, phase, cron, current, dsReady, given,
  sPc, request, checked, seen, noted, source, sources, profiles, config, access, findings,
  pod, inFlight, hPc, setups, attempted, createdUID, doomed, issued

kbVars == <<kSpace, kClass, kSummary, kRun, kDone, kPc, kTest, kCtx, kBag, kEvidence, kTrouble>>
bsVars == <<owned, snap, origin, volumes, phase, cron, current, dsReady, given, sPc, request,
            checked, seen, noted, source, sources, profiles, config, access, findings>>
spVars == <<pod, inFlight, hPc, setups, attempted, createdUID, doomed, issued>>

\* A snapshot test, a reduced one without snapshots in the same default namespace, and
\* a test of kube-burner-ocp.
KB == INSTANCE KubeBurnerJobProofs WITH
        Tests <- {snapshots, reduced, density}, Ocp <- {density}, Snapshots <- {snapshots},
        Pinned <- TRUE, Namespace <- [t \in {snapshots, reduced, density} |-> vmsnapshot],
        space <- kSpace, class <- kClass, summary <- kSummary, run <- kRun, done <- kDone,
        pc <- kPc, test <- kTest, ctx <- kCtx, bag <- kBag, evidence <- kEvidence,
        trouble <- kTrouble

\* Two classes of two drivers; a profile that completes every claim, and an empty one.
Disk == [class |-> 1, storage |-> TRUE, archive |-> FALSE,
         claim |-> [modes |-> {"ReadWriteOnce"}, mode |-> "Block"], expected |-> None,
         kind |-> None, cdi |-> TRUE, space |-> "source", scratch |-> FALSE]
FromDataSource ==
  [Disk EXCEPT !.class = None, !.claim = [modes |-> {}, mode |-> None], !.archive = TRUE,
               !.scratch = TRUE, !.kind = "DataSource", !.space = "unknown"]
FromSnapshot == [Disk EXCEPT !.kind = "snapshot"]
Restored == [FromSnapshot EXCEPT !.cdi = FALSE, !.storage = FALSE]
FromElsewhere == [FromSnapshot EXCEPT !.space = "other", !.expected = 2]
Unclassed == [Restored EXCEPT !.class = 0]

Given(disks, class, resolves, golden, rights) ==
  [disks |-> disks, class |-> class, content |-> "own", resolves |-> resolves,
   golden |-> golden, rights |-> rights]
GivenFirst == Given({FromDataSource}, 2, "snapshot", "bound", {})

BS == INSTANCE BootSourceProofs WITH
        Classes <- {1, 2}, Created <- <<1, 2>>, Virt <- {1}, Kube <- {1, 2},
        Profile <- << <<[modes |-> {"ReadWriteMany"}, mode |-> "Block"]>>, << >> >>,
        Driver <- <<"a", "b">>, Scratch <- None,
        Situations <-
          {GivenFirst,
           Given({FromSnapshot, FromElsewhere, Restored}, 2, "snapshot", "bound", {"pods"}),
           Given({FromSnapshot, FromElsewhere}, 1, "snapshot", "bound", {"pods", "pvcs"}),
           Given({FromDataSource}, 1, "pvc", "bound", {"source"}),
           [Given({FromDataSource, Unclassed}, 2, "snapshot", "bound", {})
              EXCEPT !.content = "another"],
           Given({FromDataSource, FromElsewhere}, 1, None, "absent", {"source"})},
        MaxRequests <- 2, MaxImports <- 2,
        pc <- sPc

\* One harness, whose calls take effect although they are reported as failed, or later.
SP == INSTANCE SSHPodProofs WITH
        Harnesses <- {h1}, AvoidNode <- {}, MaxSetups <- 6,
        Faults <- {"lost", "late", "crash"},
        pc <- hPc

ASSUME AdaptersAssumption ==
  KB!KubeBurnerAssumption /\ SP!SSHPodAssumption /\ BS!BootSourceAssumption

MCInit ==
  /\ Init /\ KB!Init /\ BS!Init /\ SP!Init
  /\ focus \in {"virtbench", "kube-burner", "sources", "helper pod"}
  /\ focus # "sources" => given = GivenFirst /\ owned

MCNext ==
  \/ focus = "virtbench" /\ UNCHANGED <<focus, kbVars, bsVars, spVars>> /\ Next
  \/ focus = "kube-burner" /\ UNCHANGED <<focus, vars, bsVars, spVars>> /\ KB!Next
  \/ focus = "sources" /\ UNCHANGED <<focus, vars, kbVars, spVars>> /\ BS!Next
  \/ focus = "helper pod" /\ UNCHANGED <<focus, vars, kbVars, bsVars>> /\ SP!Next

MCSpec == MCInit /\ [][MCNext]_<<focus, vars, kbVars, bsVars, spVars>>

-----------------------------------------------------------------------------
(* Properties of the four models, by the names that they have there. *)

\* All of the variables have their types.
AdaptersTypeOK == TypeOK /\ KB!TypeOK /\ BS!TypeOK /\ SP!TypeOK

\* A test of virtbench or kube-burner is graded on what its own run wrote.
OwnResults == GradedOnOwnResults /\ KB!SnapshotTestsGradedOnOwnResults

\* kube-burner leaves no namespace and no private StorageClass that it knows of.
PrivateStorageReturned == KB!PrivateStorageReturned

\* kube-burner measures snapshots on the class that was selected.
MeasuredOnSelectedClass == KB!MeasuredOnSelectedClass

\* CheckStorage reports the class of no other snapshot than the one it found ready.
SourceClassIsTrue == BS!SourceClassIsTrue

\* CheckStorage blocks a run for a source that cannot be used, and for nothing else.
OnlyFaultsBlock == BS!OnlyFaultsBlock

\* A Setup of the helper pod that fails cleans up what its create has made.
FailedSetupLeavesNothing == SP!FailedSetupLeavesNothing

=============================================================================
