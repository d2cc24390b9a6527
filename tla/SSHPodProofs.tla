--------------------------- MODULE SSHPodProofs ----------------------------
(***************************************************************************)
(* Theorems about SSHPod, for any number of harnesses and of Setups.  What *)
(* they say of the rollback depends on which calls may take effect         *)
(* although they are reported as failed: the assumptions of each theorem   *)
(* name them.                                                              *)
(***************************************************************************)
EXTENDS SSHPod, FiniteSetTheorems, TLAPS

\* A pod that carries the run's ID while a Setup of it may roll back was created by it,
\* and so was the pod that the rollback is about to delete.
Owns(h) ==
  /\ (attempted[h] \/ pc[h] = "create") /\ pod # NoPod /\ pod.runID = h => pod.creator = h
  /\ pc[h] = "delete" /\ pod # NoPod /\ pod.uid = doomed[h] => pod.creator = h
OwnershipInv == \A h \in Harnesses : Owns(h)

\* When no create is lost or late, a Setup knows the UID of the pod that it created.
CreatesAnswered == "lost" \notin Faults /\ "late" \notin Faults
Knows(h) ==
  /\ pc[h] = "create" /\ pod # NoPod => pod.creator # h
  /\ attempted[h] /\ pod # NoPod /\ pod.creator = h => pod.uid = createdUID[h]
  /\ pc[h] = "delete" => doomed[h] = createdUID[h]
KnownInv == inFlight = {} /\ \A h \in Harnesses : Knows(h)

\* A harness that is alone on a cluster without evictions never replaces a pod, and meets
\* no other while its Setup goes on.
SingleRun == "evict" \notin Faults /\ \E h \in Harnesses : Harnesses = {h}
Lone(h) ==
  /\ pod # NoPod => pod.phase # "Stopped" /\ (h \in AvoidNode => ~pod.onTarget)
  /\ pc[h] # "replace"
  /\ pc[h] = "create" => pod = NoPod
  /\ pc[h] \in InSetup /\ createdUID[h] # 0 => pod # NoPod /\ ~pod.deleting
  /\ createdUID[h] # 0 /\ pod # NoPod => pod.uid = createdUID[h]
  /\ pc[h] = "delete" /\ pod # NoPod => pod.uid = doomed[h]
  /\ inFlight # {} /\ pc[h] # "over" =>
       pc[h] = "inspect" /\ pod = NoPod /\ createdUID[h] = 0
AloneInv == \A h \in Harnesses : Lone(h)

-----------------------------------------------------------------------------
(* UIDs. *)

\* The image of a function on the harnesses has no more elements than they.
LEMMA ImageBound ==
  ASSUME IsFiniteSet(Harnesses), NEW f, NEW S, f \in [Harnesses -> S]
  PROVE  /\ IsFiniteSet({f[h] : h \in Harnesses})
         /\ Cardinality({f[h] : h \in Harnesses}) <= Cardinality(Harnesses)
  <1> DEFINE T == {f[h] : h \in Harnesses}
  <1>1. f \in [Harnesses -> T]
    OBVIOUS
  <1>2. \A t \in T : \E h \in Harnesses : f[h] = t
    OBVIOUS
  <1>3. f \in Surjection(Harnesses, T)
    BY <1>1, <1>2 DEF Surjection
  <1> HIDE DEF T
  <1>4. IsFiniteSet(T) /\ Cardinality(T) <= Cardinality(Harnesses)
    BY <1>3, FS_Surjection
  <1>5. QED
    BY <1>4 DEF T

\* There are more UIDs than the harnesses can remember, so that there is a fresh one.
LEMMA FreshUIDFacts ==
  ASSUME SSHPodAssumption, TypeOK
  PROVE  FreshUID \in UIDs /\ FreshUID \notin Remembered
  <1> DEFINE n == Cardinality(Harnesses)
             C == {createdUID[h] : h \in Harnesses}
             D == {doomed[h] : h \in Harnesses}
  <1>1. IsFiniteSet(Harnesses) /\ n \in Nat
    BY FS_CardinalityType DEF SSHPodAssumption
  <1>2. /\ IsFiniteSet(C) /\ Cardinality(C) <= n
        /\ IsFiniteSet(D) /\ Cardinality(D) <= n
    <2>1. /\ createdUID \in [Harnesses -> UIDs \cup {0}]
          /\ doomed \in [Harnesses -> UIDs \cup {0}]
      BY DEF TypeOK
    <2>2. IsFiniteSet(C) /\ Cardinality(C) <= n
      BY <1>1, <2>1, ImageBound
    <2>3. IsFiniteSet(D) /\ Cardinality(D) <= n
      BY <1>1, <2>1, ImageBound
    <2>4. QED
      BY <2>2, <2>3
  <1>3. Remembered = C \cup D
    BY DEF Remembered
  <1> HIDE DEF C, D
  <1>4. /\ Cardinality(C) \in Nat /\ Cardinality(D) \in Nat
        /\ IsFiniteSet(C \cap D) /\ Cardinality(C \cap D) \in Nat
    <2>1. C \cap D \in SUBSET C
      OBVIOUS
    <2>2. IsFiniteSet(C \cap D)
      BY <1>2, <2>1, FS_Subset
    <2>3. QED
      BY <1>2, <2>2, FS_CardinalityType
  <1>5. IsFiniteSet(Remembered) /\ Cardinality(Remembered) <= 2 * n
    <2>1. /\ IsFiniteSet(C \cup D)
          /\ Cardinality(C \cup D) = Cardinality(C) + Cardinality(D) - Cardinality(C \cap D)
      BY <1>2, FS_Union
    <2>2. QED
      BY <1>1, <1>2, <1>3, <1>4, <2>1
  <1>6. Cardinality(UIDs) = 2 * n + 1
    <2>1. 2 * n + 1 \in Int /\ ~(1 > 2 * n + 1)
      BY <1>1
    <2>2. Cardinality(1..(2 * n + 1)) = (2 * n + 1) - 1 + 1
      BY <2>1, FS_Interval
    <2>3. QED
      BY <1>1, <2>2 DEF UIDs
  <1>7. ~(UIDs \subseteq Remembered)
    <2>1. SUFFICES ASSUME UIDs \in SUBSET Remembered
                   PROVE  FALSE
      OBVIOUS
    <2>2. Cardinality(UIDs) <= Cardinality(Remembered) /\ Cardinality(Remembered) \in Nat
      BY <1>5, <2>1, FS_Subset, FS_CardinalityType
    <2>3. QED
      BY <1>1, <1>5, <1>6, <2>2
  <1>8. \E u \in UIDs : u \notin Remembered
    BY <1>7
  <1>9. QED
    BY <1>8 DEF FreshUID

\* A new pod is one, and its UID is that of no pod that a harness has marked down.
LEMMA NewPodFacts ==
  ASSUME SSHPodAssumption, TypeOK, NEW h \in Harnesses, NEW new, NewPod(h, new)
  PROVE  /\ new \in Pods /\ new # NoPod
         /\ new.uid \in UIDs /\ new.uid # 0
         /\ new.creator = h /\ new.runID = h
         /\ new.phase = "Pending" /\ ~new.deleting
         /\ h \in AvoidNode => ~new.onTarget
         /\ \A k \in Harnesses : new.uid # createdUID[k] /\ new.uid # doomed[k]
  <1>1. /\ new \in Pods /\ new.uid = FreshUID
        /\ new.creator = h /\ new.runID = h
        /\ new.phase = "Pending" /\ ~new.deleting
        /\ h \in AvoidNode => ~new.onTarget
    BY DEF NewPod
  <1>2. new.uid \in UIDs /\ new.uid \notin Remembered
    BY <1>1, FreshUIDFacts
  <1>3. Cardinality(Harnesses) \in Nat
    BY FS_CardinalityType DEF SSHPodAssumption
  <1>4. new.uid # 0
    BY <1>2, <1>3 DEF UIDs
  <1>5. new # NoPod
    BY <1>4 DEF NoPod
  <1>6. QED
    BY <1>1, <1>2, <1>4, <1>5 DEF Remembered

-----------------------------------------------------------------------------
(* Types. *)

\* What the calls and the cluster make of the pod.
LEMMA PodFacts ==
  ASSUME SSHPodAssumption, TypeOK
  PROVE  /\ NoPod \notin Pods
         /\ Deleted \in Pods \cup {NoPod}
         /\ Deleted = NoPod <=> pod = NoPod
         /\ pod # NoPod =>
              /\ pod \in Pods
              /\ Deleted.uid = pod.uid /\ Deleted.creator = pod.creator
              /\ Deleted.runID = pod.runID /\ Deleted.phase = pod.phase
              /\ Deleted.onTarget = pod.onTarget /\ Deleted.deleting
  <1>1. Cardinality(Harnesses) \in Nat
    BY FS_CardinalityType DEF SSHPodAssumption
  <1>2. 0 \notin UIDs
    BY <1>1 DEF UIDs
  <1>3. NoPod \notin Pods
    BY <1>2 DEF NoPod, Pods
  <1>4. CASE pod = NoPod
    BY <1>3, <1>4 DEF Deleted
  <1>5. CASE pod # NoPod
    <2>1. pod \in Pods
      BY <1>5 DEF TypeOK
    <2>2. Deleted = [pod EXCEPT !.deleting = TRUE]
      BY <1>5 DEF Deleted
    <2>3. Deleted \in Pods
      BY <2>1, <2>2 DEF Pods
    <2>4. QED
      BY <1>3, <1>5, <2>1, <2>2, <2>3 DEF Pods
  <1>6. QED
    BY <1>4, <1>5

LEMMA PodUpdates ==
  ASSUME SSHPodAssumption, TypeOK, pod # NoPod, NEW h \in Harnesses, NEW p \in Phases
  PROVE  /\ [pod EXCEPT !.runID = h] \in Pods
         /\ [pod EXCEPT !.phase = p] \in Pods
         /\ [pod EXCEPT !.deleting = TRUE] \in Pods
  BY PodFacts DEF Pods

\* The control states that a failed Setup goes to.
LEMMA FailureFacts ==
  ASSUME NEW h \in Harnesses
  PROVE  /\ AfterFailure(h) \in {"over", "work"}
         /\ attempted[h] => FailedTo(h) = "inspect"
         /\ ~attempted[h] => FailedTo(h) \in {"over", "work"}
  BY DEF AfterFailure, FailedTo

\* A harness whose Setup is over has forgotten what it marked down.
LEMMA ForgetTypes ==
  ASSUME TypeOK, NEW h \in Harnesses, Forget(h), NEW q \in {"over", "work"}, Go(h, q),
         pod' \in Pods \cup {NoPod}, UNCHANGED <<inFlight, setups>>
  PROVE  TypeOK'
  BY DEF TypeOK, Forget, Go, PCs, InSetup, InRollback

\* A step of a harness that only moves on.
LEMMA MoveTypes ==
  ASSUME TypeOK, NEW h \in Harnesses, NEW q \in PCs, Go(h, q),
         pod' \in Pods \cup {NoPod}, inFlight' \subseteq Harnesses,
         UNCHANGED <<setups, attempted, createdUID, doomed, issued>>,
         pc[h] # "delete", q # "delete",
         attempted[h] => q \in InSetup \cup InRollback,
         q \in InRollback => attempted[h]
  PROVE  TypeOK'
  <1>1. /\ pod' \in Pods \cup {NoPod}
        /\ inFlight' \subseteq Harnesses
        /\ pc' \in [Harnesses -> PCs]
        /\ setups' \in [Harnesses -> 0..MaxSetups]
        /\ attempted' \in [Harnesses -> BOOLEAN]
        /\ createdUID' \in [Harnesses -> UIDs \cup {0}]
        /\ doomed' \in [Harnesses -> UIDs \cup {0}]
        /\ issued' \in [Harnesses -> BOOLEAN]
    BY DEF TypeOK, Go
  <1>2. ASSUME NEW k \in Harnesses
        PROVE  /\ attempted'[k] => pc'[k] \in InSetup \cup InRollback
               /\ createdUID'[k] # 0 => attempted'[k]
               /\ pc'[k] \in InRollback => attempted'[k]
               /\ doomed'[k] # 0 <=> pc'[k] = "delete"
    <2>1. CASE k = h
      BY <2>1 DEF TypeOK, Go
    <2>2. CASE k # h
      BY <2>2 DEF TypeOK, Go
    <2>3. QED
      BY <2>1, <2>2
  <1>3. QED
    BY <1>1, <1>2 DEF TypeOK

LEMMA InitTypeOK ==
  ASSUME SSHPodAssumption, Init
  PROVE  TypeOK
  BY DEF SSHPodAssumption, Init, TypeOK, PCs, InSetup, InRollback

LEMMA BeginSetupTypeOK ==
  ASSUME SSHPodAssumption, TypeOK, NEW h \in Harnesses, BeginSetup(h)
  PROVE  TypeOK'
  <1>1. setups[h] + 1 \in 0..MaxSetups
    BY DEF SSHPodAssumption, TypeOK, BeginSetup
  <1>2. QED
    BY <1>1 DEF TypeOK, BeginSetup, Go, PCs, InSetup, InRollback

LEMMA GetTypeOK ==
  ASSUME SSHPodAssumption, TypeOK, NEW h \in Harnesses, Get(h)
  PROVE  TypeOK'
  <1>1. PICK q \in {FailedTo(h), "create", "get", "replace", "exec"} : Go(h, q)
    BY DEF Get
  <1>2. /\ q \in PCs /\ q # "delete"
        /\ attempted[h] => q \in InSetup \cup InRollback
        /\ q \in InRollback => attempted[h]
    BY <1>1, FailureFacts DEF PCs, InSetup, InRollback
  <1>3. QED
    BY <1>1, <1>2, MoveTypes DEF Get, TypeOK

LEMMA ReplaceTypeOK ==
  ASSUME SSHPodAssumption, TypeOK, NEW h \in Harnesses, Replace(h)
  PROVE  TypeOK'
  <1>1. PICK q \in {FailedTo(h), "get"} : Go(h, q)
    BY DEF Replace
  <1>2. /\ q \in PCs /\ q # "delete"
        /\ attempted[h] => q \in InSetup \cup InRollback
        /\ q \in InRollback => attempted[h]
    BY <1>1, FailureFacts DEF PCs, InSetup, InRollback
  <1>3. pod' \in Pods \cup {NoPod}
    BY PodFacts DEF Replace, TypeOK
  <1>4. QED
    BY <1>1, <1>2, <1>3, MoveTypes DEF Replace, TypeOK

LEMMA ExecTypeOK ==
  ASSUME SSHPodAssumption, TypeOK, NEW h \in Harnesses, Exec(h)
  PROVE  TypeOK'
  <1>1. PICK q \in {"get", "stamp"} : Go(h, q)
    BY DEF Exec
  <1>2. /\ q \in PCs /\ q # "delete" /\ q \in InSetup /\ q \notin InRollback
    BY <1>1 DEF PCs, InSetup, InRollback
  <1>3. QED
    BY <1>1, <1>2, MoveTypes DEF Exec, TypeOK

\* What can come of a create.
LEMMA CreateCases ==
  ASSUME NEW h \in Harnesses, Create(h)
  PROVE  /\ pc[h] = "create"
         /\ attempted' = [attempted EXCEPT ![h] = TRUE]
         /\ UNCHANGED <<setups, doomed, issued>>
         /\ \/ pod # NoPod /\ Go(h, "get") /\ UNCHANGED <<pod, createdUID, inFlight>>
            \/ /\ pod = NoPod /\ NewPod(h, pod') /\ Go(h, "get")
               /\ createdUID' = [createdUID EXCEPT ![h] = pod'.uid]
               /\ UNCHANGED inFlight
            \/ /\ pod = NoPod /\ NewPod(h, pod') /\ Go(h, "inspect")
               /\ "lost" \in Faults
               /\ UNCHANGED <<createdUID, inFlight>>
            \/ /\ Go(h, "inspect")
               /\ inFlight' = inFlight \/ ("late" \in Faults /\ inFlight' = inFlight \cup {h})
               /\ UNCHANGED <<pod, createdUID>>
  <1>1. /\ pc[h] = "create"
        /\ attempted' = [attempted EXCEPT ![h] = TRUE]
        /\ UNCHANGED <<setups, doomed, issued>>
    BY DEF Create
  <1>2. CASE /\ pod # NoPod
             /\ Go(h, "get")
             /\ UNCHANGED <<pod, createdUID, inFlight>>
    BY <1>1, <1>2
  <1>3. ASSUME pod = NoPod, UNCHANGED inFlight,
               NEW new \in Pods, NEW reply \in Replies \ {"error"},
               NewPod(h, new), pod' = new,
               IF reply = "ok"
                 THEN Go(h, "get") /\ createdUID' = [createdUID EXCEPT ![h] = new.uid]
                 ELSE Go(h, "inspect") /\ UNCHANGED createdUID
        PROVE  \/ /\ pod = NoPod /\ NewPod(h, pod') /\ Go(h, "get")
                  /\ createdUID' = [createdUID EXCEPT ![h] = pod'.uid]
                  /\ UNCHANGED inFlight
               \/ /\ pod = NoPod /\ NewPod(h, pod') /\ Go(h, "inspect")
                  /\ "lost" \in Faults
                  /\ UNCHANGED <<createdUID, inFlight>>
    <2>1. CASE reply = "ok"
      BY <1>3, <2>1
    <2>2. CASE reply # "ok"
      BY <1>3, <2>2 DEF Replies
    <2>3. QED
      BY <2>1, <2>2
  <1>4. CASE /\ Go(h, "inspect")
             /\ inFlight' \in {inFlight} \cup (IF "late" \in Faults
                                                 THEN {inFlight \cup {h}} ELSE {})
             /\ UNCHANGED <<pod, createdUID>>
    BY <1>1, <1>4
  <1>5. QED
    BY <1>1, <1>2, <1>3, <1>4 DEF Create

LEMMA CreateTypeOK ==
  ASSUME SSHPodAssumption, TypeOK, NEW h \in Harnesses, Create(h)
  PROVE  TypeOK'
  <1>1. /\ pod' \in Pods \cup {NoPod}
        /\ inFlight' \subseteq Harnesses
        /\ createdUID' \in [Harnesses -> UIDs \cup {0}]
        /\ \A k \in Harnesses : k # h => createdUID'[k] = createdUID[k]
    BY CreateCases, NewPodFacts DEF TypeOK
  <1>2. PICK q \in {"get", "inspect"} : Go(h, q)
    BY CreateCases
  <1>3. /\ pc[h] = "create"
        /\ attempted' = [attempted EXCEPT ![h] = TRUE]
        /\ UNCHANGED <<setups, doomed, issued>>
    BY CreateCases
  <1>4. QED
    BY <1>1, <1>2, <1>3 DEF TypeOK, Go, PCs, InSetup, InRollback

\* What can come of the stamp.
LEMMA StampCases ==
  ASSUME NEW h \in Harnesses, Stamp(h)
  PROVE  /\ pc[h] = "stamp"
         /\ UNCHANGED <<inFlight, setups>>
         /\ \/ /\ pod # NoPod /\ pod' = [pod EXCEPT !.runID = h]
               /\ Go(h, "work") /\ Forget(h)
            \/ /\ \/ pod' = pod
                  \/ "lost" \in Faults /\ pod # NoPod /\ pod' = [pod EXCEPT !.runID = h]
               /\ Go(h, FailedTo(h))
               /\ UNCHANGED <<attempted, createdUID, doomed, issued>>
  <1>1. PICK reply \in IF pod = NoPod THEN {"error"} ELSE Replies :
          /\ pod' = IF reply = "error" THEN pod ELSE [pod EXCEPT !.runID = h]
          /\ IF reply = "ok" THEN Go(h, "work") /\ Forget(h)
                             ELSE /\ Go(h, FailedTo(h))
                                  /\ UNCHANGED <<attempted, createdUID, doomed, issued>>
    BY DEF Stamp
  <1>2. pc[h] = "stamp" /\ UNCHANGED <<inFlight, setups>>
    BY DEF Stamp
  <1>3. CASE reply = "ok"
    <2>1. pod # NoPod
      BY <1>1, <1>3
    <2>2. QED
      BY <1>1, <1>2, <1>3, <2>1
  <1>4. CASE reply = "error"
    BY <1>1, <1>2, <1>4
  <1>5. CASE reply \notin {"ok", "error"}
    <2>1. pod # NoPod /\ "lost" \in Faults
      BY <1>1, <1>5 DEF Replies
    <2>2. QED
      BY <1>1, <1>2, <1>5, <2>1
  <1>6. QED
    BY <1>3, <1>4, <1>5

LEMMA StampTypeOK ==
  ASSUME SSHPodAssumption, TypeOK, NEW h \in Harnesses, Stamp(h)
  PROVE  TypeOK'
  <1>1. pod' \in Pods \cup {NoPod}
    <2>1. "Pending" \in Phases
      BY DEF Phases
    <2>2. QED
      BY <2>1, StampCases, PodUpdates DEF TypeOK
  <1>2. CASE Go(h, "work") /\ Forget(h)
    BY <1>1, <1>2, StampCases, ForgetTypes
  <1>3. CASE Go(h, FailedTo(h)) /\ UNCHANGED <<attempted, createdUID, doomed, issued>>
    <2>1. /\ FailedTo(h) \in PCs /\ FailedTo(h) # "delete"
          /\ attempted[h] => FailedTo(h) \in InSetup \cup InRollback
          /\ FailedTo(h) \in InRollback => attempted[h]
      BY FailureFacts DEF PCs, InSetup, InRollback
    <2>2. QED
      BY <1>1, <1>3, <2>1, StampCases, MoveTypes DEF TypeOK
  <1>4. QED
    BY <1>2, <1>3, StampCases

LEMMA InspectTypeOK ==
  ASSUME SSHPodAssumption, TypeOK, NEW h \in Harnesses, Inspect(h)
  PROVE  TypeOK'
  <1>1. CASE RollbackDone(h)
    BY <1>1, FailureFacts, ForgetTypes DEF Inspect, RollbackDone, TypeOK
  <1>2. CASE /\ pod # NoPod /\ Go(h, "delete")
             /\ doomed' = [doomed EXCEPT ![h] = pod.uid]
             /\ UNCHANGED <<attempted, createdUID, issued>>
    <2>1. pod.uid \in UIDs /\ pod.uid # 0
      BY <1>2, PodFacts, FS_CardinalityType DEF Pods, UIDs, SSHPodAssumption
    <2>2. pc[h] = "inspect" /\ UNCHANGED <<pod, inFlight, setups>>
      BY DEF Inspect
    <2>3. QED
      BY <1>2, <2>1, <2>2 DEF TypeOK, Go, PCs, InSetup, InRollback
  <1>3. QED
    BY <1>1, <1>2 DEF Inspect

\* What can come of the rollback's delete.
LEMMA DeleteCases ==
  ASSUME NEW h \in Harnesses, Delete(h)
  PROVE  /\ pc[h] = "delete"
         /\ UNCHANGED <<inFlight, setups>>
         /\ \/ pod # NoPod /\ pod.uid # doomed[h] /\ RollbackDone(h) /\ UNCHANGED pod
            \/ /\ pod = NoPod \/ pod.uid = doomed[h]
               /\ pod' \in {pod, Deleted}
               /\ Go(h, "inspect")
               /\ \E b \in BOOLEAN : issued' = [issued EXCEPT ![h] = b]
               /\ doomed' = [doomed EXCEPT ![h] = 0]
               /\ UNCHANGED <<attempted, createdUID>>
  <1>1. pc[h] = "delete" /\ UNCHANGED <<inFlight, setups>>
    BY DEF Delete
  <1>2. CASE pod # NoPod /\ pod.uid # doomed[h]
    BY <1>1, <1>2 DEF Delete
  <1>3. CASE ~(pod # NoPod /\ pod.uid # doomed[h])
    <2>1. PICK reply \in Replies :
            /\ pod' = IF reply = "error" THEN pod ELSE Deleted
            /\ Go(h, "inspect")
            /\ issued' = [issued EXCEPT ![h] = (reply = "ok")]
            /\ doomed' = [doomed EXCEPT ![h] = 0]
            /\ UNCHANGED <<attempted, createdUID>>
      BY <1>3 DEF Delete
    <2>2. pod' \in {pod, Deleted}
      BY <2>1
    <2>3. \E b \in BOOLEAN : issued' = [issued EXCEPT ![h] = b]
      <3>1. (reply = "ok") \in BOOLEAN
        OBVIOUS
      <3>2. QED
        BY <2>1, <3>1
    <2>4. QED
      BY <1>1, <1>3, <2>1, <2>2, <2>3
  <1>4. QED
    BY <1>2, <1>3

LEMMA DeleteTypeOK ==
  ASSUME SSHPodAssumption, TypeOK, NEW h \in Harnesses, Delete(h)
  PROVE  TypeOK'
  <1>1. CASE RollbackDone(h) /\ UNCHANGED pod
    BY <1>1, DeleteCases, FailureFacts, ForgetTypes DEF RollbackDone, TypeOK
  <1>2. ASSUME pod' \in {pod, Deleted}, Go(h, "inspect"),
               NEW b \in BOOLEAN, issued' = [issued EXCEPT ![h] = b],
               doomed' = [doomed EXCEPT ![h] = 0],
               UNCHANGED <<attempted, createdUID>>
        PROVE  TypeOK'
    <2>1. pod' \in Pods \cup {NoPod}
      BY <1>2, PodFacts DEF TypeOK
    <2>2. pc[h] = "delete" /\ attempted[h] /\ UNCHANGED <<inFlight, setups>>
      BY DeleteCases DEF TypeOK, InRollback
    <2>3. QED
      BY <1>2, <2>1, <2>2 DEF TypeOK, Go, PCs, InSetup, InRollback
  <1>3. QED
    BY <1>1, <1>2, DeleteCases

LEMMA TeardownTypeOK ==
  ASSUME SSHPodAssumption, TypeOK, NEW h \in Harnesses, Teardown(h)
  PROVE  TypeOK'
  <1>1. /\ pc[h] = "work" /\ pod' = Deleted /\ Go(h, "over")
        /\ UNCHANGED <<inFlight, setups, attempted, createdUID, doomed, issued>>
    BY DEF Teardown
  <1>2. ~attempted[h]
    BY <1>1 DEF TypeOK, InSetup, InRollback
  <1>3. "over" \in PCs /\ "over" \notin InRollback
    BY DEF PCs, InRollback
  <1>4. QED
    BY <1>1, <1>2, <1>3, PodFacts, MoveTypes DEF TypeOK

LEMMA CrashTypeOK ==
  ASSUME SSHPodAssumption, TypeOK, NEW h \in Harnesses, Crash(h)
  PROVE  TypeOK'
  BY ForgetTypes DEF Crash, TypeOK

LEMMA CreateLandsTypeOK ==
  ASSUME SSHPodAssumption, TypeOK, NEW h \in Harnesses, CreateLands(h)
  PROVE  TypeOK'
  <1>1. pod' \in Pods \cup {NoPod} /\ inFlight' \subseteq Harnesses
    BY NewPodFacts DEF CreateLands, TypeOK
  <1>2. QED
    BY <1>1 DEF CreateLands, TypeOK

\* The cluster's own steps: nothing but the pod changes, and it is the same pod or gone.
LEMMA ClusterFacts ==
  ASSUME SSHPodAssumption, TypeOK, PodRuns \/ PodStops \/ PodGone
  PROVE  /\ UNCHANGED <<inFlight, pc, setups, attempted, createdUID, doomed, issued>>
         /\ pod # NoPod
         /\ \/ PodGone /\ pod.deleting /\ pod' = NoPod
            \/ /\ pod' \in Pods /\ pod' # NoPod
               /\ pod'.uid = pod.uid /\ pod'.creator = pod.creator
               /\ pod'.runID = pod.runID /\ pod'.onTarget = pod.onTarget
               /\ PodRuns => pod'.phase = "Running" /\ pod'.deleting = pod.deleting
               /\ PodRuns \/ "evict" \in Faults
  <1>1. UNCHANGED <<inFlight, pc, setups, attempted, createdUID, doomed, issued>> /\ pod # NoPod
    BY DEF PodRuns, PodStops, PodGone, Idle
  <1>2. CASE PodGone
    BY <1>1, <1>2 DEF PodGone
  <1>3. CASE PodRuns
    <2>1. pod' = [pod EXCEPT !.phase = "Running"] /\ pod \in Pods
      BY <1>3, PodFacts DEF PodRuns
    <2>2. pod' \in Pods /\ pod' # NoPod
      BY <2>1, PodFacts DEF Pods, Phases
    <2>3. QED
      BY <1>1, <1>3, <2>1, <2>2 DEF Pods
  <1>4. CASE PodStops /\ ~PodRuns
    <2>1. /\ pod \in Pods /\ "evict" \in Faults
          /\ pod' \in {[pod EXCEPT !.phase = "Stopped"], [pod EXCEPT !.deleting = TRUE]}
      BY <1>4, PodFacts DEF PodStops
    <2>2. pod' \in Pods /\ pod' # NoPod
      BY <2>1, PodFacts, ZenonT(40) DEF Pods, Phases
    <2>3. QED
      BY <1>1, <1>4, <2>1, <2>2 DEF Pods
  <1>5. QED
    BY <1>2, <1>3, <1>4

LEMMA NextTypeOK ==
  ASSUME SSHPodAssumption, TypeOK, [Next]_vars
  PROVE  TypeOK'
  <1>1. CASE UNCHANGED vars
    BY <1>1 DEF TypeOK, vars
  <1>2. ASSUME NEW h \in Harnesses, HarnessStep(h)
        PROVE  TypeOK'
    BY <1>2, BeginSetupTypeOK, GetTypeOK, CreateTypeOK, ReplaceTypeOK, ExecTypeOK,
       StampTypeOK, InspectTypeOK, DeleteTypeOK, TeardownTypeOK DEF HarnessStep
  <1>3. ASSUME NEW h \in Harnesses, Crash(h) \/ CreateLands(h)
        PROVE  TypeOK'
    BY <1>3, CrashTypeOK, CreateLandsTypeOK
  <1>4. CASE PodRuns \/ PodStops \/ PodGone
    BY <1>4, ClusterFacts DEF TypeOK
  <1>5. QED
    BY <1>1, <1>2, <1>3, <1>4 DEF Next

(* The pod, the control state of every harness and what its Setup has marked down stay *)
(* what they are said to be; between two Setups nothing is marked down.                *)
THEOREM SSHPodTypeOK ==
  ASSUME SSHPodAssumption
  PROVE  Spec => []TypeOK
  <1>1. Init => TypeOK
    BY InitTypeOK
  <1>2. TypeOK /\ [Next]_vars => TypeOK'
    BY NextTypeOK
  <1>3. QED
    BY <1>1, <1>2, PTL DEF Spec

-----------------------------------------------------------------------------
(* Which pod is whose. *)

\* A harness that is not the one at work keeps what it owns when the pod goes, stays the
\* same but for its state, becomes the other's, or is a new one of the other's.
LEMMA OthersOwn ==
  ASSUME TypeOK, NEW h \in Harnesses, NEW k \in Harnesses, k # h, Owns(k),
         pc'[k] = pc[k], attempted'[k] = attempted[k], doomed'[k] = doomed[k],
         \/ pod' = NoPod
         \/ /\ pod # NoPod
            /\ pod'.uid = pod.uid /\ pod'.creator = pod.creator
            /\ pod'.runID \in {pod.runID, h}
         \/ pod'.uid # doomed[k] /\ pod'.runID = h
  PROVE  Owns(k)'
  BY DEF Owns

\* So does any harness that stays where it is while the pod stays the same or goes.
LEMMA SameOwn ==
  ASSUME TypeOK, NEW k \in Harnesses, Owns(k),
         pc'[k] = pc[k], attempted'[k] = attempted[k], doomed'[k] = doomed[k],
         \/ pod' = NoPod
         \/ /\ pod # NoPod
            /\ pod'.uid = pod.uid /\ pod'.creator = pod.creator
            /\ pod'.runID = pod.runID
  PROVE  Owns(k)'
  BY DEF Owns

\* A harness that has forgotten its Setup owns nothing.
LEMMA ForgetOwn ==
  ASSUME TypeOK, NEW h \in Harnesses, Forget(h), NEW q \in {"over", "work"}, Go(h, q)
  PROVE  Owns(h)'
  BY DEF Owns, Forget, Go, TypeOK

LEMMA HarnessStepOwnership ==
  ASSUME SSHPodAssumption, "lost" \notin Faults, TypeOK, OwnershipInv,
         NEW h \in Harnesses, HarnessStep(h), NEW k \in Harnesses
  PROVE  Owns(k)'
  <1>1. Owns(k) /\ Owns(h)
    BY DEF OwnershipInv
  <1>2. CASE BeginSetup(h)
    <2>1. CASE k = h
      BY <1>1, <1>2, <2>1 DEF BeginSetup, Owns, Go, TypeOK, InSetup, InRollback
    <2>2. CASE k # h
      BY <1>1, <1>2, <2>2 DEF BeginSetup, Owns, Go, TypeOK
    <2>3. QED
      BY <2>1, <2>2
  <1>3. CASE Get(h)
    <2>1. /\ UNCHANGED <<pod, attempted, doomed>>
          /\ \E q \in {FailedTo(h), "create", "get", "replace", "exec"} : Go(h, q)
          /\ pc'[h] = "create" => pod = NoPod
      BY <1>3, FailureFacts DEF Get, Go, TypeOK
    <2>2. CASE k = h
      BY <1>1, <2>1, <2>2, FailureFacts DEF Owns, Go, TypeOK
    <2>3. CASE k # h
      BY <1>1, <2>1, <2>3 DEF Owns, Go, TypeOK
    <2>4. QED
      BY <2>2, <2>3
  <1>4. CASE Create(h)
    <2>1. /\ pc[h] = "create"
          /\ attempted' = [attempted EXCEPT ![h] = TRUE]
          /\ UNCHANGED doomed
          /\ \E q \in {"get", "inspect"} : Go(h, q)
          /\ pod' = pod \/ (pod'.uid # doomed[k] /\ pod'.runID = h /\ pod'.creator = h)
      BY <1>4, CreateCases, NewPodFacts
    <2>2. CASE k = h
      BY <1>1, <2>1, <2>2 DEF Owns, Go, TypeOK
    <2>3. CASE k # h
      <3>1. pc'[k] = pc[k] /\ attempted'[k] = attempted[k] /\ doomed'[k] = doomed[k]
        BY <2>1, <2>3 DEF Go, TypeOK
      <3>2. QED
        BY <1>1, <2>1, <2>3, <3>1 DEF Owns
    <2>4. QED
      BY <2>2, <2>3
  <1>5. CASE Replace(h)
    <2>1. /\ UNCHANGED <<attempted, doomed>>
          /\ pod' \in {pod, Deleted}
          /\ \E q \in {FailedTo(h), "get"} : Go(h, q)
      BY <1>5 DEF Replace
    <2>2. CASE k = h
      BY <1>1, <2>1, <2>2, FailureFacts, PodFacts DEF Owns, Go, TypeOK
    <2>3. CASE k # h
      BY <1>1, <2>1, <2>3, PodFacts DEF Owns, Go, TypeOK
    <2>4. QED
      BY <2>2, <2>3
  <1>6. CASE Exec(h)
    <2>1. /\ UNCHANGED <<pod, attempted, doomed>>
          /\ \E q \in {"get", "stamp"} : Go(h, q)
      BY <1>6 DEF Exec
    <2>2. QED
      BY <1>1, <2>1 DEF Owns, Go, TypeOK
  <1>7. CASE Stamp(h)
    <2>1. CASE /\ pod # NoPod /\ pod' = [pod EXCEPT !.runID = h]
               /\ Go(h, "work") /\ Forget(h)
      <3>1. CASE k = h
        BY <2>1, <3>1, ForgetOwn
      <3>2. CASE k # h
        <4>1. /\ pod \in Pods
              /\ pod'.uid = pod.uid /\ pod'.creator = pod.creator /\ pod'.runID = h
          BY <2>1, PodFacts DEF Pods
        <4>2. pc'[k] = pc[k] /\ attempted'[k] = attempted[k] /\ doomed'[k] = doomed[k]
          BY <2>1, <3>2 DEF Go, Forget, TypeOK
        <4>3. QED
          BY <1>1, <2>1, <3>2, <4>1, <4>2, OthersOwn
      <3>3. QED
        BY <3>1, <3>2
    <2>2. CASE UNCHANGED <<pod, attempted, doomed>> /\ Go(h, FailedTo(h))
      <3>1. CASE k = h
        BY <1>1, <2>2, <3>1, FailureFacts DEF Owns, Go, TypeOK
      <3>2. CASE k # h
        BY <1>1, <2>2, <3>2 DEF Owns, Go, TypeOK
      <3>3. QED
        BY <3>1, <3>2
    <2>3. QED
      BY <1>7, <2>1, <2>2, StampCases
  <1>8. CASE Inspect(h)
    <2>1. CASE RollbackDone(h)
      <3>1. CASE k = h
        BY <2>1, <3>1, FailureFacts, ForgetOwn DEF RollbackDone
      <3>2. CASE k # h
        BY <1>1, <1>8, <2>1, <3>2 DEF Inspect, RollbackDone, Owns, Go, Forget, TypeOK
      <3>3. QED
        BY <3>1, <3>2
    <2>2. CASE /\ pod # NoPod /\ pod.runID = h
               /\ Go(h, "delete")
               /\ doomed' = [doomed EXCEPT ![h] = pod.uid]
               /\ UNCHANGED attempted
      <3>1. attempted[h] /\ UNCHANGED pod
        BY <1>8 DEF Inspect, TypeOK, InRollback
      <3>2. pod.creator = h
        BY <1>1, <2>2, <3>1 DEF Owns
      <3>3. CASE k = h
        BY <1>1, <2>2, <3>1, <3>2, <3>3 DEF Owns, Go, TypeOK
      <3>4. CASE k # h
        BY <1>1, <2>2, <3>1, <3>4 DEF Owns, Go, TypeOK
      <3>5. QED
        BY <3>3, <3>4
    <2>3. QED
      BY <1>8, <2>1, <2>2 DEF Inspect
  <1>9. CASE Delete(h)
    <2>1. CASE RollbackDone(h) /\ UNCHANGED pod
      <3>1. CASE k = h
        BY <2>1, <3>1, FailureFacts, ForgetOwn DEF RollbackDone
      <3>2. CASE k # h
        BY <1>1, <2>1, <3>2 DEF RollbackDone, Owns, Go, Forget, TypeOK
      <3>3. QED
        BY <3>1, <3>2
    <2>2. CASE /\ pod' \in {pod, Deleted} /\ Go(h, "inspect")
               /\ doomed' = [doomed EXCEPT ![h] = 0] /\ UNCHANGED attempted
      <3>1. CASE k = h
        BY <1>1, <1>9, <2>2, <3>1, DeleteCases, PodFacts DEF Owns, Go, TypeOK, InRollback
      <3>2. CASE k # h
        BY <1>1, <2>2, <3>2, PodFacts DEF Owns, Go, TypeOK
      <3>3. QED
        BY <3>1, <3>2
    <2>3. QED
      BY <1>9, <2>1, <2>2, DeleteCases
  <1>10. CASE Teardown(h)
    <2>1. pod' = Deleted /\ Go(h, "over") /\ UNCHANGED <<attempted, doomed>>
      BY <1>10 DEF Teardown
    <2>2. QED
      BY <1>1, <2>1, PodFacts DEF Owns, Go, TypeOK
  <1>11. QED
    BY <1>2, <1>3, <1>4, <1>5, <1>6, <1>7, <1>8, <1>9, <1>10 DEF HarnessStep

LEMMA NextOwnership ==
  ASSUME SSHPodAssumption, "lost" \notin Faults, TypeOK, OwnershipInv, [Next]_vars
  PROVE  OwnershipInv'
  <1> SUFFICES ASSUME NEW k \in Harnesses
               PROVE  Owns(k)'
    BY DEF OwnershipInv
  <1>1. Owns(k)
    BY DEF OwnershipInv
  <1>2. CASE UNCHANGED vars
    BY <1>1, <1>2 DEF Owns, vars
  <1>3. ASSUME NEW h \in Harnesses, HarnessStep(h)
        PROVE  Owns(k)'
    BY <1>3, HarnessStepOwnership
  <1>4. ASSUME NEW h \in Harnesses, Crash(h)
        PROVE  Owns(k)'
    <2>1. CASE k = h
      BY <1>4, <2>1, ForgetOwn DEF Crash
    <2>2. CASE k # h
      BY <1>1, <1>4, <2>2 DEF Crash, Owns, Go, Forget, TypeOK
    <2>3. QED
      BY <2>1, <2>2
  <1>5. ASSUME NEW h \in Harnesses, CreateLands(h)
        PROVE  Owns(k)'
    <2>1. \/ pod' = pod
          \/ pod'.uid # doomed[k] /\ pod'.runID = h /\ pod'.creator = h
      BY <1>5, NewPodFacts DEF CreateLands
    <2>2. QED
      BY <1>1, <1>5, <2>1 DEF CreateLands, Owns
  <1>6. CASE PodRuns \/ PodStops \/ PodGone
    BY <1>1, <1>6, ClusterFacts, SameOwn
  <1>7. QED
    BY <1>2, <1>3, <1>4, <1>5, <1>6 DEF Next

\* A rollback's delete that reaches the pod finds the one it is to delete.
LEMMA RollbackStep ==
  ASSUME SSHPodAssumption, TypeOK, OwnershipInv, [Next]_vars,
         NEW h \in Harnesses, RollsBack(h)
  PROVE  pod.creator = h
  <1>1. /\ pc[h] = "delete" /\ pc'[h] # pc[h] /\ pod' # pod
        /\ attempted[h]
    BY DEF RollsBack, TypeOK, InRollback
  <1>2. \E k \in Harnesses : HarnessStep(k) \/ Crash(k) \/ CreateLands(k)
    BY <1>1, ClusterFacts DEF Next, vars
  <1>3. PICK k \in Harnesses : HarnessStep(k) \/ Crash(k) \/ CreateLands(k)
    BY <1>2
  <1>4. ~Crash(k) /\ ~CreateLands(k)
    BY <1>1 DEF Crash, CreateLands
  <1>5. HarnessStep(k) /\ k = h
    <2>1. SUFFICES ASSUME k # h PROVE FALSE
      BY <1>3, <1>4
    <2>2. \E q : Go(k, q)
      <3>1. ASSUME Create(k) PROVE \E q : Go(k, q)
        BY <3>1, CreateCases
      <3>2. ASSUME Stamp(k) PROVE \E q : Go(k, q)
        BY <3>2, StampCases
      <3>3. ASSUME Delete(k) PROVE \E q : Go(k, q)
        BY <3>3, DeleteCases DEF RollbackDone
      <3>4. QED
        BY <1>3, <1>4, <3>1, <3>2, <3>3
        DEF HarnessStep, BeginSetup, Get, Replace, Exec, Inspect, RollbackDone, Teardown
    <2>3. QED
      BY <1>1, <2>1, <2>2 DEF Go, TypeOK
  <1>6. Delete(h)
    BY <1>1, <1>5, CreateCases, StampCases
    DEF HarnessStep, BeginSetup, Get, Replace, Exec, Inspect, Teardown
  <1>7. pod # NoPod /\ pod.uid = doomed[h]
    BY <1>1, <1>6, DeleteCases, PodFacts
  <1>8. QED
    BY <1>1, <1>7 DEF OwnershipInv, Owns

(* A rollback deletes no pod that another run created, whichever harnesses meet at the *)
(* pod and however it is evicted, recreated and stamped in between - as long as no     *)
(* call takes effect that is reported as failed: a stamp of that kind leaves its ID on *)
(* a pod of another's.                                                                 *)
THEOREM RollbackSparesForeignPodsHolds ==
  ASSUME SSHPodAssumption, "lost" \notin Faults
  PROVE  Spec => RollbackSparesForeignPods
  <1>1. Init => TypeOK /\ OwnershipInv
    BY InitTypeOK DEF Init, OwnershipInv, Owns
  <1>2. TypeOK /\ OwnershipInv /\ [Next]_vars => TypeOK' /\ OwnershipInv'
    BY NextTypeOK, NextOwnership
  <1>3. TypeOK /\ OwnershipInv /\ [Next]_vars =>
          [\A h \in Harnesses : RollsBack(h) => pod.creator = h]_vars
    BY RollbackStep
  <1>4. QED
    BY <1>1, <1>2, <1>3, PTL DEF Spec, RollbackSparesForeignPods

-----------------------------------------------------------------------------
(* What a failed Setup leaves. *)

\* A harness knows what it knew when only another one, or the cluster, is at work.
LEMMA OthersKnow ==
  ASSUME TypeOK, NEW k \in Harnesses, Knows(k),
         pc'[k] = pc[k], attempted'[k] = attempted[k],
         doomed'[k] = doomed[k], createdUID'[k] = createdUID[k],
         \/ pod' = NoPod
         \/ pod # NoPod /\ pod'.uid = pod.uid /\ pod'.creator = pod.creator
         \/ pod'.creator # k
  PROVE  Knows(k)'
  BY DEF Knows

\* What a step of a harness does to the pod, and that it leaves the others alone.
LEMMA StepOnOthers ==
  ASSUME SSHPodAssumption, TypeOK, NEW h \in Harnesses, HarnessStep(h) \/ Crash(h)
  PROVE  /\ \A k \in Harnesses : k # h =>
              /\ pc'[k] = pc[k] /\ attempted'[k] = attempted[k]
              /\ doomed'[k] = doomed[k] /\ createdUID'[k] = createdUID[k]
         /\ \/ pod' = pod
            \/ pod' = Deleted
            \/ pod # NoPod /\ pod' = [pod EXCEPT !.runID = h]
            \/ Create(h) /\ pod = NoPod /\ NewPod(h, pod')
  <1>1. CASE BeginSetup(h) \/ Get(h) \/ Replace(h) \/ Exec(h) \/ Teardown(h) \/ Crash(h)
    BY <1>1 DEF BeginSetup, Get, Replace, Exec, Teardown, Crash, Go, Forget, TypeOK
  <1>2. CASE Create(h)
    BY <1>2, CreateCases DEF Go, TypeOK
  <1>3. CASE Stamp(h)
    BY <1>3, StampCases DEF Go, Forget, TypeOK
  <1>4. CASE Inspect(h)
    BY <1>4 DEF Inspect, RollbackDone, Go, Forget, TypeOK
  <1>5. CASE Delete(h)
    BY <1>5, DeleteCases DEF RollbackDone, Go, Forget, TypeOK
  <1>6. QED
    BY <1>1, <1>2, <1>3, <1>4, <1>5 DEF HarnessStep

\* The pod after a step of a harness that is no create is the one before it, or none.
LEMMA StepOnPod ==
  ASSUME SSHPodAssumption, TypeOK, NEW h \in Harnesses, HarnessStep(h) \/ Crash(h), ~Create(h)
  PROVE  \/ pod' = NoPod /\ pod = NoPod
         \/ pod # NoPod /\ pod' # NoPod /\ pod'.uid = pod.uid /\ pod'.creator = pod.creator
              /\ pod'.phase = pod.phase /\ pod'.onTarget = pod.onTarget
  <1>1. CASE pod' = [pod EXCEPT !.runID = h] /\ pod # NoPod
    <2>1. "Pending" \in Phases
      BY DEF Phases
    <2>2. pod' \in Pods /\ pod \in Pods
      BY <1>1, <2>1, PodUpdates, PodFacts
    <2>3. QED
      BY <1>1, <2>2, PodFacts DEF Pods
  <1>2. CASE pod' \in {pod, Deleted}
    BY <1>2, PodFacts
  <1>3. QED
    BY <1>1, <1>2, StepOnOthers

\* Who has forgotten its Setup knows nothing.
LEMMA ForgetKnow ==
  ASSUME TypeOK, NEW h \in Harnesses, Forget(h), NEW q \in {"over", "work"}, Go(h, q)
  PROVE  Knows(h)'
  BY DEF Knows, Forget, Go, TypeOK

LEMMA HarnessStepKnown ==
  ASSUME SSHPodAssumption, CreatesAnswered, TypeOK, OwnershipInv, KnownInv,
         NEW h \in Harnesses, HarnessStep(h)
  PROVE  inFlight' = {} /\ Knows(h)'
  <1>1. inFlight = {} /\ Knows(h)
    BY DEF KnownInv
  <1>2. CASE BeginSetup(h)
    BY <1>1, <1>2 DEF BeginSetup, Knows, Go, TypeOK, InSetup, InRollback
  <1>3. CASE Get(h)
    <2>1. /\ UNCHANGED <<pod, inFlight, attempted, createdUID, doomed>>
          /\ \E q \in {FailedTo(h), "create", "get", "replace", "exec"} : Go(h, q)
          /\ pc'[h] = "create" => pod = NoPod
      BY <1>3, FailureFacts DEF Get, Go, TypeOK
    <2>2. QED
      BY <1>1, <2>1, FailureFacts DEF Knows, Go, TypeOK
  <1>4. CASE Create(h)
    <2>1. /\ pc[h] = "create"
          /\ attempted' = [attempted EXCEPT ![h] = TRUE]
          /\ UNCHANGED <<doomed, inFlight>>
          /\ \E q \in {"get", "inspect"} : Go(h, q)
          /\ \/ UNCHANGED <<pod, createdUID>>
             \/ pod'.creator = h /\ createdUID' = [createdUID EXCEPT ![h] = pod'.uid]
      BY <1>4, CreateCases, NewPodFacts DEF CreatesAnswered
    <2>2. QED
      BY <1>1, <2>1 DEF Knows, Go, TypeOK
  <1>5. CASE Replace(h)
    <2>1. /\ UNCHANGED <<inFlight, attempted, createdUID, doomed>>
          /\ pod' \in {pod, Deleted}
          /\ \E q \in {FailedTo(h), "get"} : Go(h, q)
      BY <1>5 DEF Replace
    <2>2. QED
      BY <1>1, <2>1, FailureFacts, PodFacts DEF Knows, Go, TypeOK
  <1>6. CASE Exec(h)
    <2>1. /\ UNCHANGED <<pod, inFlight, attempted, createdUID, doomed>>
          /\ \E q \in {"get", "stamp"} : Go(h, q)
      BY <1>6 DEF Exec
    <2>2. QED
      BY <1>1, <2>1 DEF Knows, Go, TypeOK
  <1>7. CASE Stamp(h)
    <2>1. CASE Go(h, "work") /\ Forget(h)
      BY <1>1, <1>7, <2>1, StampCases, ForgetKnow
    <2>2. CASE /\ UNCHANGED <<pod, attempted, createdUID, doomed>>
               /\ Go(h, FailedTo(h))
      BY <1>1, <1>7, <2>2, StampCases, FailureFacts DEF Knows, Go, TypeOK
    <2>3. QED
      BY <1>7, <2>1, <2>2, StampCases DEF CreatesAnswered
  <1>8. CASE Inspect(h)
    <2>1. CASE RollbackDone(h)
      BY <1>1, <1>8, <2>1, FailureFacts, ForgetKnow DEF Inspect, RollbackDone
    <2>2. CASE /\ pod # NoPod /\ pod.runID = h
               /\ Go(h, "delete")
               /\ doomed' = [doomed EXCEPT ![h] = pod.uid]
               /\ UNCHANGED <<attempted, createdUID>>
      <3>1. attempted[h] /\ UNCHANGED <<pod, inFlight>>
        BY <1>8 DEF Inspect, TypeOK, InRollback
      <3>2. pod.creator = h
        BY <2>2, <3>1 DEF OwnershipInv, Owns
      <3>3. QED
        BY <1>1, <2>2, <3>1, <3>2 DEF Knows, Go, TypeOK
    <2>3. QED
      BY <1>8, <2>1, <2>2 DEF Inspect
  <1>9. CASE Delete(h)
    <2>1. CASE RollbackDone(h)
      BY <1>1, <1>9, <2>1, DeleteCases, FailureFacts, ForgetKnow DEF RollbackDone
    <2>2. CASE /\ pod' \in {pod, Deleted} /\ Go(h, "inspect")
               /\ UNCHANGED <<attempted, createdUID>>
      BY <1>1, <1>9, <2>2, DeleteCases, PodFacts DEF Knows, Go, TypeOK
    <2>3. QED
      BY <1>9, <2>1, <2>2, DeleteCases
  <1>10. CASE Teardown(h)
    <2>1. pod' = Deleted /\ Go(h, "over") /\ UNCHANGED <<inFlight, attempted, createdUID, doomed>>
      BY <1>10 DEF Teardown
    <2>2. QED
      BY <1>1, <2>1, PodFacts DEF Knows, Go, TypeOK
  <1>11. QED
    BY <1>2, <1>3, <1>4, <1>5, <1>6, <1>7, <1>8, <1>9, <1>10 DEF HarnessStep

LEMMA NextKnown ==
  ASSUME SSHPodAssumption, CreatesAnswered, TypeOK, OwnershipInv, KnownInv, [Next]_vars
  PROVE  KnownInv'
  <1>1. inFlight = {} /\ \A k \in Harnesses : Knows(k)
    BY DEF KnownInv
  <1>2. CASE UNCHANGED vars
    BY <1>2 DEF KnownInv, Knows, vars
  <1>3. ASSUME NEW h \in Harnesses, HarnessStep(h)
        PROVE  KnownInv'
    <2>1. inFlight' = {} /\ Knows(h)'
      BY <1>3, HarnessStepKnown
    <2>2. ASSUME NEW k \in Harnesses, k # h
          PROVE  Knows(k)'
      <3>1. CASE Create(h)
        <4>1. pod' = pod \/ pod'.creator = h
          BY <3>1, CreateCases, NewPodFacts
        <4>2. QED
          BY <1>1, <1>3, <2>2, <4>1, StepOnOthers, OthersKnow
      <3>2. CASE ~Create(h)
        BY <1>1, <1>3, <2>2, <3>2, StepOnOthers, StepOnPod, OthersKnow
      <3>3. QED
        BY <3>1, <3>2
    <2>3. QED
      BY <2>1, <2>2 DEF KnownInv
  <1>4. ASSUME NEW h \in Harnesses, Crash(h)
        PROVE  KnownInv'
    <2>1. inFlight' = {} /\ Knows(h)'
      BY <1>1, <1>4, ForgetKnow DEF Crash
    <2>2. ASSUME NEW k \in Harnesses, k # h
          PROVE  Knows(k)'
      BY <1>1, <1>4, <2>2, StepOnOthers DEF Crash, Knows
    <2>3. QED
      BY <2>1, <2>2 DEF KnownInv
  <1>5. ASSUME NEW h \in Harnesses, CreateLands(h)
        PROVE  FALSE
    BY <1>1, <1>5 DEF CreateLands
  <1>6. CASE PodRuns \/ PodStops \/ PodGone
    <2>1. inFlight' = {}
      BY <1>1, <1>6, ClusterFacts
    <2>2. ASSUME NEW k \in Harnesses
          PROVE  Knows(k)'
      BY <1>1, <1>6, ClusterFacts, OthersKnow
    <2>3. QED
      BY <2>1, <2>2 DEF KnownInv
  <1>7. QED
    BY <1>2, <1>3, <1>4, <1>5, <1>6 DEF Next

\* Only a rollback that is done ends a Setup that has failed after its create.
LEMMA FailedSetupEnds ==
  ASSUME SSHPodAssumption, TypeOK, NEW h \in Harnesses, HarnessStep(h),
         pc[h] = "create" \/ attempted[h], pc[h] # "stamp", pc'[h] \in {"work", "over"}
  PROVE  /\ attempted[h]
         /\ \/ Inspect(h) /\ RollbackDone(h)
            \/ /\ Delete(h) /\ RollbackDone(h)
               /\ pod # NoPod /\ pod.uid # doomed[h] /\ UNCHANGED pod
         /\ UNCHANGED <<pod, inFlight>>
  <1>1. ~BeginSetup(h) /\ ~Stamp(h) /\ ~Teardown(h)
    BY StampCases DEF BeginSetup, Teardown, TypeOK, InSetup, InRollback
  <1>2. ~Create(h)
    BY CreateCases DEF Go, TypeOK
  <1>3. ~Get(h) /\ ~Replace(h) /\ ~Exec(h)
    BY FailureFacts DEF Get, Replace, Exec, Go, TypeOK
  <1>4. CASE Inspect(h)
    <2>1. RollbackDone(h)
      BY <1>4 DEF Inspect, Go, TypeOK
    <2>2. QED
      BY <1>4, <2>1 DEF Inspect, TypeOK, InRollback
  <1>5. CASE Delete(h)
    <2>1. RollbackDone(h) /\ pod # NoPod /\ pod.uid # doomed[h] /\ UNCHANGED pod
      BY <1>5, DeleteCases DEF Go, TypeOK
    <2>2. QED
      BY <1>5, <2>1, DeleteCases DEF TypeOK, InRollback
  <1>6. QED
    BY <1>1, <1>2, <1>3, <1>4, <1>5 DEF HarnessStep

\* What a failed Setup leaves, when creates are answered.
Nothing(h) ==
  h \notin inFlight' /\ (pod' # NoPod => pod'.deleting \/ pod'.creator # h \/ pod'.runID # h)

LEMMA KnownLeavesNothing ==
  ASSUME SSHPodAssumption, TypeOK, KnownInv, NEW h \in Harnesses, HarnessStep(h),
         pc[h] = "create" \/ attempted[h], pc[h] # "stamp", pc'[h] \in {"work", "over"}
  PROVE  Nothing(h)
  <1>1. /\ attempted[h] /\ UNCHANGED <<pod, inFlight>>
        /\ Inspect(h) \/ (Delete(h) /\ pod # NoPod /\ pod.uid # doomed[h])
    BY FailedSetupEnds
  <1>2. inFlight = {} /\ Knows(h)
    BY DEF KnownInv
  <1>3. CASE Inspect(h)
    <2>1. \/ pod = NoPod
          \/ pod.runID # h \/ createdUID[h] \notin {0, pod.uid}
      BY <1>3 DEF Inspect, Go, TypeOK
    <2>2. QED
      BY <1>1, <1>2, <2>1 DEF Knows, Nothing
  <1>4. CASE Delete(h) /\ pod # NoPod /\ pod.uid # doomed[h]
    BY <1>1, <1>2, <1>4, DeleteCases DEF Knows, Nothing
  <1>5. QED
    BY <1>1, <1>3, <1>4

\* A Setup that is over, with nothing on its way unless the run is over too.
LEMMA LoneForgets ==
  ASSUME SSHPodAssumption, TypeOK, NEW h \in Harnesses, Lone(h), HarnessStep(h) \/ Crash(h),
         ~Create(h), Forget(h), NEW q \in {"over", "work"}, Go(h, q),
         UNCHANGED inFlight, q = "over" \/ inFlight = {}
  PROVE  Lone(h)'
  <1>1. pc'[h] = q /\ createdUID'[h] = 0
    BY DEF Go, Forget, TypeOK
  <1>2. pod' # NoPod => pod # NoPod /\ pod'.phase = pod.phase /\ pod'.onTarget = pod.onTarget
    BY StepOnPod
  <1>3. QED
    BY <1>1, <1>2 DEF Lone, InSetup

LEMMA HarnessStepLone ==
  ASSUME SSHPodAssumption, SingleRun, TypeOK, NEW h \in Harnesses, Lone(h), HarnessStep(h)
  PROVE  Lone(h)'
  <1>1. inFlight \subseteq {h}
    BY DEF TypeOK, SingleRun
  <1>2. CASE BeginSetup(h)
    <2>1. createdUID[h] = 0
      BY <1>2 DEF BeginSetup, TypeOK, InSetup, InRollback
    <2>2. QED
      BY <1>2, <2>1 DEF BeginSetup, Lone, Go, TypeOK, InSetup
  <1>3. CASE Get(h)
    <2>1. /\ pc[h] = "get"
          /\ UNCHANGED <<pod, inFlight, createdUID, doomed>>
          /\ pc'[h] \in {FailedTo(h), "create", "get", "exec"}
          /\ pc'[h] = "create" => pod = NoPod
      <3>1. /\ pc[h] = "get"
            /\ UNCHANGED <<pod, inFlight, createdUID, doomed>>
            /\ \E q \in {FailedTo(h), "create", "get", "replace", "exec"} : Go(h, q)
            /\ pc'[h] = "create" => pod = NoPod
        BY <1>3, FailureFacts DEF Get, Go, TypeOK
      <3>2. pc'[h] # "replace"
        BY <1>3, FailureFacts DEF Get, Go, TypeOK, Lone
      <3>3. QED
        BY <3>1, <3>2 DEF Go, TypeOK
    <2>2. QED
      BY <2>1, FailureFacts DEF Lone, InSetup
  <1>4. CASE Create(h)
    <2>1. /\ pc[h] = "create" /\ pod = NoPod /\ inFlight = {} /\ createdUID[h] = 0
          /\ UNCHANGED doomed
      BY <1>4, CreateCases DEF Lone, InSetup
    <2>2. CASE /\ NewPod(h, pod') /\ Go(h, "get")
               /\ createdUID' = [createdUID EXCEPT ![h] = pod'.uid]
               /\ UNCHANGED inFlight
      <3>1. /\ createdUID'[h] = pod'.uid /\ pod'.uid # 0 /\ pod' # NoPod
            /\ pod'.phase = "Pending" /\ ~pod'.deleting
            /\ h \in AvoidNode => ~pod'.onTarget
        BY <2>2, NewPodFacts DEF TypeOK
      <3>2. pc'[h] = "get" /\ inFlight' = {}
        BY <2>1, <2>2 DEF Go, TypeOK
      <3>3. QED
        BY <3>1, <3>2 DEF Lone
    <2>3. CASE /\ NewPod(h, pod') /\ Go(h, "inspect")
               /\ UNCHANGED <<createdUID, inFlight>>
      <3>1. pod'.phase = "Pending" /\ (h \in AvoidNode => ~pod'.onTarget)
        BY <2>3, NewPodFacts
      <3>2. pc'[h] = "inspect" /\ inFlight' = {} /\ createdUID'[h] = 0
        BY <2>1, <2>3 DEF Go, TypeOK
      <3>3. QED
        BY <3>1, <3>2 DEF Lone, InSetup
    <2>4. CASE Go(h, "inspect") /\ UNCHANGED <<pod, createdUID>>
      <3>1. pc'[h] = "inspect" /\ pod' = NoPod /\ createdUID'[h] = 0
        BY <2>1, <2>4 DEF Go, TypeOK
      <3>2. QED
        BY <3>1 DEF Lone, InSetup
    <2>5. QED
      BY <1>4, <2>1, <2>2, <2>3, <2>4, CreateCases
  <1>5. ~Replace(h)
    BY DEF Replace, Lone
  <1>6. CASE Exec(h)
    <2>1. /\ pc[h] = "exec" /\ UNCHANGED <<pod, inFlight, createdUID, doomed>>
          /\ pc'[h] \in {"get", "stamp"}
      BY <1>6 DEF Exec, Go, TypeOK
    <2>2. QED
      BY <2>1 DEF Lone, InSetup
  <1>7. CASE Stamp(h)
    <2>1. pc[h] = "stamp" /\ UNCHANGED inFlight /\ inFlight = {}
      BY <1>7, StampCases DEF Lone
    <2>2. CASE Go(h, "work") /\ Forget(h)
      BY <1>7, <2>1, <2>2, CreateCases, LoneForgets
    <2>3. CASE /\ Go(h, FailedTo(h))
               /\ UNCHANGED <<attempted, createdUID, doomed>>
      <3>1. pc'[h] \in {"inspect", "over", "work"}
        BY <2>3, FailureFacts DEF Go, TypeOK
      <3>2. pod' # NoPod => /\ pod # NoPod /\ pod'.uid = pod.uid
                            /\ pod'.phase = pod.phase /\ pod'.onTarget = pod.onTarget
        BY <1>7, <2>1, CreateCases, StepOnPod
      <3>3. QED
        BY <2>1, <2>3, <3>1, <3>2 DEF Lone, InSetup
    <2>4. QED
      BY <1>7, <2>2, <2>3, StampCases
  <1>8. CASE Inspect(h)
    <2>1. pc[h] = "inspect" /\ UNCHANGED <<pod, inFlight>>
      BY <1>8 DEF Inspect
    <2>2. CASE RollbackDone(h)
      <3>1. inFlight = {}
        BY <1>1, <1>8, <2>1, <2>2, FailureFacts DEF Inspect, Lone, RollbackDone, Go, TypeOK
      <3>2. QED
        BY <1>8, <2>1, <2>2, <3>1, CreateCases, FailureFacts, LoneForgets DEF RollbackDone
    <2>3. CASE /\ pod # NoPod /\ Go(h, "delete")
               /\ doomed' = [doomed EXCEPT ![h] = pod.uid]
               /\ UNCHANGED createdUID
      <3>1. pc'[h] = "delete" /\ doomed'[h] = pod.uid /\ inFlight = {}
        BY <2>1, <2>3 DEF Go, TypeOK, Lone
      <3>2. QED
        BY <2>1, <2>3, <3>1 DEF Lone, InSetup
    <2>4. QED
      BY <1>8, <2>2, <2>3 DEF Inspect
  <1>9. CASE Delete(h)
    <2>1. pc[h] = "delete" /\ UNCHANGED inFlight /\ inFlight = {}
      BY <1>9, DeleteCases DEF Lone
    <2>2. CASE RollbackDone(h)
      BY <1>9, <2>1, <2>2, CreateCases, FailureFacts, LoneForgets DEF RollbackDone
    <2>3. CASE /\ pod' \in {pod, Deleted} /\ Go(h, "inspect")
               /\ UNCHANGED createdUID
      <3>1. pc'[h] = "inspect"
        BY <2>3 DEF Go, TypeOK
      <3>2. QED
        BY <2>1, <2>3, <3>1, PodFacts DEF Lone, InSetup
    <2>4. QED
      BY <1>9, <2>2, <2>3, DeleteCases
  <1>10. CASE Teardown(h)
    <2>1. /\ pc[h] = "work" /\ pod' = Deleted /\ pc'[h] = "over"
          /\ UNCHANGED <<inFlight, createdUID, doomed>>
      BY <1>10 DEF Teardown, Go, TypeOK
    <2>2. createdUID[h] = 0
      BY <2>1 DEF TypeOK, InSetup, InRollback
    <2>3. QED
      BY <2>1, <2>2, PodFacts DEF Lone, InSetup
  <1>11. QED
    BY <1>2, <1>3, <1>4, <1>5, <1>6, <1>7, <1>8, <1>9, <1>10 DEF HarnessStep

LEMMA NextLone ==
  ASSUME SSHPodAssumption, SingleRun, TypeOK, AloneInv, [Next]_vars
  PROVE  AloneInv'
  <1> SUFFICES ASSUME NEW h \in Harnesses
               PROVE  Lone(h)'
    BY DEF AloneInv
  <1>1. Lone(h) /\ \A k \in Harnesses : k = h
    BY DEF AloneInv, SingleRun
  <1>2. CASE UNCHANGED vars
    BY <1>1, <1>2 DEF Lone, vars
  <1>3. CASE HarnessStep(h)
    BY <1>1, <1>3, HarnessStepLone
  <1>4. CASE Crash(h)
    <2>1. pc'[h] = "over" /\ createdUID'[h] = 0 /\ UNCHANGED pod
      BY <1>4 DEF Crash, Go, Forget, TypeOK
    <2>2. QED
      BY <1>1, <2>1 DEF Lone, InSetup
  <1>5. CASE CreateLands(h)
    <2>1. /\ inFlight # {} /\ inFlight' = {}
          /\ UNCHANGED <<pc, createdUID, doomed>>
      BY <1>1, <1>5 DEF CreateLands, TypeOK
    <2>2. \/ pod' = pod
          \/ pod'.phase = "Pending" /\ (h \in AvoidNode => ~pod'.onTarget)
      BY <1>5, NewPodFacts DEF CreateLands
    <2>3. pc[h] \in {"over", "inspect"} /\ createdUID[h] = 0
      BY <1>1, <2>1 DEF Lone, TypeOK, InSetup, InRollback
    <2>4. QED
      BY <1>1, <2>1, <2>2, <2>3 DEF Lone, InSetup
  <1>6. CASE PodGone
    <2>1. /\ UNCHANGED <<inFlight, pc, createdUID, doomed>>
          /\ pod # NoPod /\ pod.deleting /\ pod' = NoPod
      BY <1>6 DEF PodGone, Idle
    <2>2. QED
      BY <1>1, <2>1 DEF Lone
  <1>7. CASE PodRuns
    <2>1. /\ UNCHANGED <<inFlight, pc, createdUID, doomed>> /\ pod # NoPod
          /\ pod'.uid = pod.uid /\ pod'.onTarget = pod.onTarget /\ pod' # NoPod
          /\ pod'.phase = "Running" /\ pod'.deleting = pod.deleting
      <3>1. pod' # NoPod
        BY <1>7, PodFacts, PodUpdates DEF PodRuns, Phases
      <3>2. QED
        BY <1>7, <3>1, ClusterFacts
    <2>2. QED
      BY <1>1, <2>1 DEF Lone
  <1>8. ~PodStops
    BY DEF PodStops, SingleRun
  <1>9. QED
    BY <1>1, <1>2, <1>3, <1>4, <1>5, <1>6, <1>7, <1>8 DEF Next

LEMMA AloneLeavesNothing ==
  ASSUME SSHPodAssumption, SingleRun, TypeOK, AloneInv, NEW h \in Harnesses, HarnessStep(h),
         pc[h] = "create" \/ attempted[h], pc[h] # "stamp", pc'[h] \in {"work", "over"}
  PROVE  Nothing(h)
  <1>1. /\ attempted[h] /\ UNCHANGED <<pod, inFlight>>
        /\ Inspect(h) \/ (Delete(h) /\ pod # NoPod /\ pod.uid # doomed[h])
    BY FailedSetupEnds
  <1>2. Lone(h)
    BY DEF AloneInv
  <1>3. ~(Delete(h) /\ pod # NoPod /\ pod.uid # doomed[h])
    BY <1>2, DeleteCases DEF Lone
  <1>4. \/ pod = NoPod /\ h \notin inFlight
        \/ pod # NoPod /\ (pod.runID # h \/ createdUID[h] \notin {0, pod.uid})
    BY <1>1, <1>3 DEF Inspect, Go, TypeOK
  <1>5. pod # NoPod => h \notin inFlight /\ createdUID[h] \in {0, pod.uid}
    BY <1>1, <1>2, <1>3 DEF Lone, Inspect
  <1>6. QED
    BY <1>1, <1>4, <1>5 DEF Nothing

(* A Setup that fails after it has tried to create the pod leaves neither a pod of its *)
(* own nor a create on its way: with any number of harnesses, evictions and crashes    *)
(* when its creates are answered; and whichever calls are lost or late when it is the  *)
(* only run and nothing is evicted.                                                    *)
THEOREM FailedSetupLeavesNothingHolds ==
  ASSUME SSHPodAssumption, CreatesAnswered \/ SingleRun
  PROVE  Spec => FailedSetupLeavesNothing
  <1> DEFINE Left == \A h \in Harnesses :
               /\ HarnessStep(h)
               /\ pc[h] = "create" \/ attempted[h]
               /\ pc[h] # "stamp"
               /\ pc'[h] \in {"work", "over"}
               => /\ h \notin inFlight'
                  /\ pod' # NoPod => pod'.deleting \/ pod'.creator # h \/ pod'.runID # h
             Known == CreatesAnswered => OwnershipInv /\ KnownInv
             Alone == SingleRun => AloneInv
  <1>1. Init => TypeOK /\ Known /\ Alone
    BY InitTypeOK
    DEF Init, OwnershipInv, Owns, KnownInv, Knows, AloneInv, Lone, InSetup
  <1>2. TypeOK /\ Known /\ Alone /\ [Next]_vars => TypeOK' /\ Known' /\ Alone'
    BY NextTypeOK, NextOwnership, NextKnown, NextLone DEF CreatesAnswered, SingleRun
  <1>3. TypeOK /\ Known /\ Alone => [Left]_vars
    BY KnownLeavesNothing, AloneLeavesNothing DEF Nothing
  <1>4. QED
    BY <1>1, <1>2, <1>3, PTL DEF Spec, FailedSetupLeavesNothing

=============================================================================
