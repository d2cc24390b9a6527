------------------------------- MODULE SSHPod -------------------------------
(***************************************************************************)
(* The ssh helper pod shared by all virtbench scenarios of all harness runs *)
(* on one cluster (internal/tools/virtbench/setup.go).                      *)
(*                                                                          *)
(* The pod has a fixed name, so that runs of several harnesses meet at it.  *)
(* Setup is called at the start of a run and again before each scenario: it *)
(* finds or creates the pod, waits until it runs and stamps it with its run *)
(* ID.  A Setup that fails after it has tried to create the pod rolls back: *)
(* it deletes the pod if it carries the run's ID.  Teardown deletes the pod *)
(* whosever it is.  Every kubectl call is one step, and may fail before or  *)
(* after the API server has carried it out.                                 *)
(*                                                                          *)
(* The detached budget of a rollback is taken to be enough for it.          *)
(*                                                                          *)
(* The calls of one harness are serialized by sshPodSetup.mu, hence one     *)
(* control state per harness.  A UID is a number that nobody remembers yet. *)
(***************************************************************************)
EXTENDS Integers, FiniteSets

CONSTANTS
  Harnesses,      \* harness runs on the cluster
  AvoidNode,      \* those whose plan has a target node the pod must not be on
  MaxSetups,      \* bound: calls of Setup per run
  Faults          \* a subset of {"lost", "late", "evict", "crash"}

SSHPodAssumption ==
  /\ IsFiniteSet(Harnesses)
  /\ AvoidNode \subseteq Harnesses
  /\ MaxSetups \in Nat \ {0}
  /\ Faults \subseteq {"lost", "late", "evict", "crash"}

VARIABLES
  pod,        \* the pod of the fixed name, or NoPod
  inFlight,   \* harnesses whose create is still on its way to the API server
  pc,         \* pc[h]: the next kubectl call of harness h
  setups,     \* setups[h]: calls of Setup made
  attempted,  \* attempted[h]: createAttemptedThisSetup
  createdUID, \* createdUID[h]: createdPodUID, 0 for ""
  doomed,     \* doomed[h]: the UID rollback is to delete, 0 for none
  issued      \* issued[h]: rollback's deleteIssued

vars == <<pod, inFlight, pc, setups, attempted, createdUID, doomed, issued>>

UIDs == 1..(2 * Cardinality(Harnesses) + 1)
Phases == {"Pending", "Running", "Stopped"}
NoPod == [uid |-> 0]

Pods == [uid : UIDs, creator : Harnesses, runID : Harnesses, phase : Phases,
         onTarget : BOOLEAN, deleting : BOOLEAN]

\* "idle" before the run's first Setup, "work" between two Setups, "over" when
\* the run has torn down, failed its first Setup, or crashed.
InSetup == {"get", "create", "replace", "exec", "stamp"}
InRollback == {"inspect", "delete"}
PCs == {"idle", "work", "over"} \cup InSetup \cup InRollback

Remembered == {createdUID[h] : h \in Harnesses} \cup {doomed[h] : h \in Harnesses}
FreshUID == CHOOSE u \in UIDs : u \notin Remembered

Init ==
  /\ pod = NoPod
  /\ inFlight = {}
  /\ pc = [h \in Harnesses |-> "idle"]
  /\ setups = [h \in Harnesses |-> 0]
  /\ attempted = [h \in Harnesses |-> FALSE]
  /\ createdUID = [h \in Harnesses |-> 0]
  /\ doomed = [h \in Harnesses |-> 0]
  /\ issued = [h \in Harnesses |-> FALSE]

Go(h, where) == pc' = [pc EXCEPT ![h] = where]

\* A call fails without effect, succeeds, or succeeds although it is reported
\* as failed.
Replies == {"ok", "error"} \cup ({"lost"} \cap Faults)

\* A pod is created: it starts with its creator's bootstrap annotations, and
\* away from the node its creator avoids.
NewPod(h, new) ==
  /\ new \in Pods
  /\ new.uid = FreshUID /\ new.creator = h /\ new.runID = h
  /\ new.phase = "Pending" /\ ~new.deleting
  /\ h \in AvoidNode => ~new.onTarget

\* kubectl delete --wait=false --ignore-not-found, by name.
Deleted == IF pod = NoPod THEN NoPod ELSE [pod EXCEPT !.deleting = TRUE]

\* Setup is over.  A run that cannot set up at its start is not torn down.
AfterFailure(h) == IF setups[h] = 1 THEN "over" ELSE "work"
Forget(h) ==
  /\ attempted' = [attempted EXCEPT ![h] = FALSE]
  /\ createdUID' = [createdUID EXCEPT ![h] = 0]
  /\ doomed' = [doomed EXCEPT ![h] = 0]
  /\ issued' = [issued EXCEPT ![h] = FALSE]

\* Faulty variant: the deferred rollback is missing.
FailedWithoutRollback(h) == AfterFailure(h)

\* Setup returns an error; its deferred function rolls back if it has tried to
\* create the pod.
FailedTo(h) == IF attempted[h] THEN "inspect" ELSE AfterFailure(h)

-----------------------------------------------------------------------------
(* Setup. *)

BeginSetup(h) ==
  /\ pc[h] \in {"idle", "work"}
  /\ setups[h] < MaxSetups
  /\ setups' = [setups EXCEPT ![h] = @ + 1]
  /\ Go(h, "get")
  /\ UNCHANGED <<pod, inFlight, attempted, createdUID, doomed, issued>>

\* One turn of the loop: getSSHPod, and the case its answer selects.  Setup
\* fails here when its 300 seconds are over, when the run was cancelled, or
\* when the pod cannot be read.
Get(h) ==
  /\ pc[h] = "get"
  /\ \/ Go(h, FailedTo(h))
     \/ pod = NoPod /\ Go(h, "create")
     \/ /\ pod # NoPod
        /\ CASE pod.deleting -> Go(h, "get")
             [] ~pod.deleting /\ pod.phase = "Stopped" -> Go(h, "replace")
             [] ~pod.deleting /\ pod.phase # "Stopped" /\ pod.onTarget /\ h \in AvoidNode
                  -> Go(h, "replace")
             [] OTHER -> Go(h, IF pod.phase = "Running" THEN "exec" ELSE "get")
  /\ UNCHANGED <<pod, inFlight, setups, attempted, createdUID, doomed, issued>>

\* Faulty variant: kubectl apply, which adopts a pod that exists.
CreateByApply(h) ==
  /\ pc[h] = "create"
  /\ attempted' = [attempted EXCEPT ![h] = TRUE]
  /\ \/ /\ pod # NoPod
        /\ pod' = [pod EXCEPT !.runID = h]
        /\ createdUID' = [createdUID EXCEPT ![h] = pod.uid]
     \/ /\ pod = NoPod
        /\ \E new \in Pods : NewPod(h, new) /\ pod' = new
        /\ createdUID' = [createdUID EXCEPT ![h] = FreshUID]
  /\ Go(h, "get")
  /\ UNCHANGED <<inFlight, setups, doomed, issued>>

\* kubectlCreateSSHPod: the pod is created, or exists already, or the call
\* fails; then the API server may create it nevertheless, at once or later.
Create(h) ==
  /\ pc[h] = "create"
  /\ attempted' = [attempted EXCEPT ![h] = TRUE]
  /\ \/ /\ pod # NoPod
        /\ Go(h, "get")
        /\ UNCHANGED <<pod, createdUID, inFlight>>
     \/ /\ pod = NoPod
        /\ \E new \in Pods, reply \in Replies \ {"error"} :
             /\ NewPod(h, new)
             /\ pod' = new
             /\ IF reply = "ok"
                  THEN Go(h, "get") /\ createdUID' = [createdUID EXCEPT ![h] = new.uid]
                  ELSE Go(h, "inspect") /\ UNCHANGED createdUID
        /\ UNCHANGED inFlight
     \/ /\ Go(h, "inspect")
        /\ inFlight' \in {inFlight} \cup (IF "late" \in Faults
                                            THEN {inFlight \cup {h}} ELSE {})
        /\ UNCHANGED <<pod, createdUID>>
  /\ UNCHANGED <<setups, doomed, issued>>

\* Delete a pod that has stopped or is on the target node: by name, whatever
\* is there now.
Replace(h) ==
  /\ pc[h] = "replace"
  /\ \E reply \in Replies :
       /\ pod' = IF reply = "error" THEN pod ELSE Deleted
       /\ Go(h, IF reply = "ok" THEN "get" ELSE FailedTo(h))
  /\ UNCHANGED <<inFlight, setups, attempted, createdUID, doomed, issued>>

\* sshpassReady, in whatever pod is there now.
Exec(h) ==
  /\ pc[h] = "exec"
  /\ \/ Go(h, "get")
     \/ pod # NoPod /\ pod.phase = "Running" /\ Go(h, "stamp")
  /\ UNCHANGED <<pod, inFlight, setups, attempted, createdUID, doomed, issued>>

\* stampSSHPodHarness: by name.  When it succeeds, so does Setup.
Stamp(h) ==
  /\ pc[h] = "stamp"
  /\ \E reply \in IF pod = NoPod THEN {"error"} ELSE Replies :
       /\ pod' = IF reply = "error" THEN pod ELSE [pod EXCEPT !.runID = h]
       /\ IF reply = "ok" THEN Go(h, "work") /\ Forget(h)
                          ELSE /\ Go(h, FailedTo(h))
                               /\ UNCHANGED <<attempted, createdUID, doomed, issued>>
  /\ UNCHANGED <<inFlight, setups>>

-----------------------------------------------------------------------------
(* rollbackSSHPod. *)

RollbackDone(h) == Go(h, AfterFailure(h)) /\ Forget(h)

\* Faulty variant: rollback is done as soon as it finds no pod.
InspectOnce(h) ==
  /\ pc[h] = "inspect"
  /\ IF pod = NoPod \/ pod.runID # h
       THEN RollbackDone(h)
       ELSE /\ ~issued[h]
            /\ Go(h, "delete")
            /\ doomed' = [doomed EXCEPT ![h] = pod.uid]
            /\ UNCHANGED <<attempted, createdUID, issued>>
  /\ UNCHANGED <<pod, inFlight, setups>>

\* One poll.  The pod is left alone if it carries another run's ID or is known
\* not to be the one created.  Once it has been absent for
\* sshPodRollbackSettle, which a create in flight is assumed not to outlast,
\* rollback is done.
Inspect(h) ==
  /\ pc[h] = "inspect"
  /\ \/ /\ pod = NoPod
        /\ h \notin inFlight
        /\ RollbackDone(h)
     \/ /\ pod # NoPod
        /\ pod.runID # h \/ createdUID[h] \notin {0, pod.uid}
        /\ RollbackDone(h)
     \/ /\ pod # NoPod
        /\ pod.runID = h
        /\ createdUID[h] \in {0, pod.uid}
        /\ ~issued[h]
        /\ Go(h, "delete")
        /\ doomed' = [doomed EXCEPT ![h] = pod.uid]
        /\ UNCHANGED <<attempted, createdUID, issued>>
  /\ UNCHANGED <<pod, inFlight, setups>>

\* deleteSSHPodUID: the precondition is the UID alone.  When another pod has
\* the name, rollback is done; an error is retried at the next poll.
Delete(h) ==
  /\ pc[h] = "delete"
  /\ IF pod # NoPod /\ pod.uid # doomed[h]
       THEN RollbackDone(h) /\ UNCHANGED pod
       ELSE \E reply \in Replies :
              /\ pod' = IF reply = "error" THEN pod ELSE Deleted
              /\ Go(h, "inspect")
              /\ issued' = [issued EXCEPT ![h] = (reply = "ok")]
              /\ doomed' = [doomed EXCEPT ![h] = 0]
              /\ UNCHANGED <<attempted, createdUID>>
  /\ UNCHANGED <<inFlight, setups>>

-----------------------------------------------------------------------------
(* The end of a run, and the cluster. *)

\* The group's Teardown, called once after all jobs if the first Setup has
\* succeeded.  deleteSSHPod tries three times, which is taken to be enough.
Teardown(h) ==
  /\ pc[h] = "work"
  /\ pod' = Deleted
  /\ Go(h, "over")
  /\ UNCHANGED <<inFlight, setups, attempted, createdUID, doomed, issued>>

\* The harness is killed.
Crash(h) ==
  /\ "crash" \in Faults
  /\ pc[h] \notin {"idle", "over"}
  /\ Go(h, "over")
  /\ Forget(h)
  /\ UNCHANGED <<pod, inFlight, setups>>

\* A delayed create reaches the API server.
CreateLands(h) ==
  /\ h \in inFlight
  /\ inFlight' = inFlight \ {h}
  /\ IF pod = NoPod THEN \E new \in Pods : NewPod(h, new) /\ pod' = new
                    ELSE UNCHANGED pod
  /\ UNCHANGED <<pc, setups, attempted, createdUID, doomed, issued>>

Idle == UNCHANGED <<inFlight, pc, setups, attempted, createdUID, doomed, issued>>

PodRuns ==
  /\ pod # NoPod /\ pod.phase = "Pending" /\ ~pod.deleting
  /\ pod' = [pod EXCEPT !.phase = "Running"]
  /\ Idle

\* The pod is evicted by a node drain, or its container ends.
PodStops ==
  /\ "evict" \in Faults
  /\ pod # NoPod
  /\ \/ pod.phase = "Running" /\ pod' = [pod EXCEPT !.phase = "Stopped"]
     \/ ~pod.deleting /\ pod' = [pod EXCEPT !.deleting = TRUE]
  /\ Idle

PodGone ==
  /\ pod # NoPod /\ pod.deleting
  /\ pod' = NoPod
  /\ Idle

HarnessStep(h) ==
  \/ BeginSetup(h) \/ Get(h) \/ Create(h) \/ Replace(h) \/ Exec(h) \/ Stamp(h)
  \/ Inspect(h) \/ Delete(h) \/ Teardown(h)

Next ==
  \/ \E h \in Harnesses : HarnessStep(h) \/ Crash(h) \/ CreateLands(h)
  \/ PodRuns \/ PodStops \/ PodGone

Spec == Init /\ [][Next]_vars

\* Setup and rollback are bounded by their contexts and a run comes to its
\* Teardown; the API server finishes deletions and the requests in flight.
\* WF of Get stands for the 300 seconds of Setup: its failing branch is strongly
\* fair, as is a rollback that keeps polling.
FairSpec ==
  /\ Spec
  /\ WF_vars(PodGone)
  /\ \A h \in Harnesses :
       /\ WF_vars(HarnessStep(h))
       /\ WF_vars(CreateLands(h))
       /\ SF_vars(Get(h) /\ pc'[h] = FailedTo(h))
       /\ SF_vars(Delete(h) /\ issued'[h])

-----------------------------------------------------------------------------
(* Properties. *)

\* Types; and what a Setup marks down is local to it (createAttemptedThisSetup
\* and createdPodUID are variables of one call of Setup).
TypeOK ==
  /\ pod \in Pods \cup {NoPod}
  /\ inFlight \subseteq Harnesses
  /\ pc \in [Harnesses -> PCs]
  /\ setups \in [Harnesses -> 0..MaxSetups]
  /\ attempted \in [Harnesses -> BOOLEAN]
  /\ createdUID \in [Harnesses -> UIDs \cup {0}]
  /\ doomed \in [Harnesses -> UIDs \cup {0}]
  /\ issued \in [Harnesses -> BOOLEAN]
  /\ \A h \in Harnesses :
       /\ attempted[h] => pc[h] \in InSetup \cup InRollback
       /\ createdUID[h] # 0 => attempted[h]
       /\ pc[h] \in InRollback => attempted[h]
       /\ doomed[h] # 0 <=> pc[h] = "delete"

RollsBack(h) == pc[h] = "delete" /\ pc'[h] # "delete" /\ pod' # pod

\* "a same-name replacement is left alone": what a rollback deletes was created
\* by its own run, however runs adopt, stamp, delete and recreate the pod
\* between the rollback's reading of it and its delete.
RollbackSparesForeignPods ==
  [][\A h \in Harnesses : RollsBack(h) => pod.creator = h]_vars

\* "Create can still commit before its command returns, so rollback reconciles":
\* a Setup that fails after it has tried to create the pod leaves neither a pod
\* of its own nor one on its way.
FailedSetupLeavesNothing ==
  [][\A h \in Harnesses :
       /\ HarnessStep(h)
       /\ pc[h] = "create" \/ attempted[h]
       /\ pc[h] # "stamp"
       /\ pc'[h] \in {"work", "over"}
       => /\ h \notin inFlight'
          /\ pod' # NoPod => pod'.deleting \/ pod'.creator # h \/ pod'.runID # h]_vars

\* "The pod is deleted whether this run created it or reused a leftover": once
\* all runs are over, however their Setups failed and reused one another's pods,
\* the pod goes away.
NothingLeftBehind ==
  (\A h \in Harnesses : pc[h] = "over") ~> pod = NoPod

=============================================================================
