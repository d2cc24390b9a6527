----------------------------- MODULE MCHarness ------------------------------
(* Two models of what runs concurrently, one after the other: the jobs of a    *)
(* harness (MCScheduler), and, once schedule has returned, two harnesses that  *)
(* share the helper pod (SSHPod, with its theorems).                           *)
EXTENDS MCScheduler

CONSTANTS h1, h2

VARIABLES pod, inFlight, hPc, setups, attempted, createdUID, doomed, issued

hVars == <<pod, inFlight, hPc, setups, attempted, createdUID, doomed, issued>>
allVars == <<vars, hVars>>

\* One of the harnesses must keep the pod off a node.
HP == INSTANCE SSHPodProofs WITH
        Harnesses <- {h1, h2}, AvoidNode <- {h2}, MaxSetups <- 2, Faults <- {"evict"},
        pc <- hPc

ASSUME HarnessAssumption == HP!SSHPodAssumption

MCInit == Init /\ HP!Init

Then(A) == returned /\ A /\ UNCHANGED vars

MCNext ==
  \/ Next /\ UNCHANGED hVars
  \/ returned /\ HP!Next /\ UNCHANGED vars

\* Each model with its own fairness.
MCFairSpec ==
  /\ MCInit /\ [][MCNext]_allVars
  /\ \A j \in Jobs : WF_vars(JobStep(j))
  /\ WF_vars(Return)
  /\ WF_allVars(Then(HP!PodGone))
  /\ \A h \in {h1, h2} :
       /\ WF_allVars(Then(HP!HarnessStep(h)))
       /\ WF_allVars(Then(HP!CreateLands(h)))
       /\ SF_allVars(Then(HP!Get(h) /\ hPc'[h] = HP!FailedTo(h)))
       /\ SF_allVars(Then(HP!Delete(h) /\ issued'[h]))

-----------------------------------------------------------------------------
(* Properties of SSHPod, by the names that they have there. *)

\* A rollback of the helper pod deletes no pod that another run has created.
RollbackSparesForeignPods == HP!RollbackSparesForeignPods

\* Once all runs are over, the helper pod goes away.
NothingLeftBehind == HP!NothingLeftBehind

=============================================================================
