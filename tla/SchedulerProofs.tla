--------------------------- MODULE SchedulerProofs ---------------------------
(***************************************************************************)
(* For any set of jobs, any groups and any --concurrency: the scheduler    *)
(* never lets two jobs overlap that must not, never exceeds the            *)
(* concurrency bound, leaves no lock behind, and implements JobExclusion.  *)
(* The last theorem is about the helper pod, which MCHarness has beside    *)
(* it.                                                                     *)
(***************************************************************************)
EXTENDS MCHarness, FiniteSetTheorems, WellFoundedInduction, TLAPS

\* The run lock has at most one writer, and it is the exclusive job between
\* its announcement and its unlock.
WriterInv ==
  \A j \in Jobs \ ParallelSafe :
    /\ (writer = j) <=> (pc[j] \in {"drain", "running", "releasing"})
    /\ pc[j] \notin {"slot", "locking", "unslot"}

\* A parallel job holds the run lock for reading, or waits for it behind a
\* writer, exactly while it locks its groups, runs and unlocks them.
ReaderInv ==
  /\ \A j \in ParallelSafe :
       /\ pc[j] # "drain"
       /\ (j \in readers \cup blocked) <=> (pc[j] \in {"locking", "running", "releasing"})
       /\ j \in blocked => pc[j] = "locking" /\ j \notin readers
  /\ blocked # {} => writer # NoJob

\* Once the announced writer has got through, there is no reader.
DrainInv ==
  \A j \in Jobs \ ParallelSafe : pc[j] \in {"running", "releasing"} => readers = {}

\* The tokens of the semaphore are held by the parallel jobs in flight.
SlotInv ==
  /\ \A j \in ParallelSafe :
       (j \in slots) <=> (pc[j] \in {"slot", "locking", "running", "releasing", "unslot"})
  /\ Cardinality(slots) <= Slots

\* A group's mutex is held by a reader whose group it is; a parallel job that
\* runs holds all of its groups.
OwnerInv ==
  /\ \A g \in Groups : owner[g] # NoJob => owner[g] \in readers
  /\ \A j \in ParallelSafe : pc[j] = "running" => \A g \in JobGroups[j] : owner[g] = j

ReturnInv == returned => \A j \in Jobs : pc[j] = "done"

IInv ==
  /\ TypeOK
  /\ WriterInv
  /\ ReaderInv
  /\ DrainInv
  /\ SlotInv
  /\ OwnerInv
  /\ ReturnInv

LEMMA SlotsPositive == Slots \in Nat /\ Slots >= 1
  BY SchedulerAssumption DEF Slots

\* Taking a token or giving one back changes the number of tokens by at most one.
LEMMA TokenCount ==
  ASSUME NEW S, NEW x, IsFiniteSet(S)
  PROVE  /\ Cardinality(S \cup {x}) \in Nat
         /\ Cardinality(S \cup {x}) <= Cardinality(S) + 1
         /\ Cardinality(S \ {x}) \in Nat
         /\ Cardinality(S \ {x}) <= Cardinality(S)
  <1>1. Cardinality(S) \in Nat
    BY FS_CardinalityType
  <1>2. /\ Cardinality(S \cup {x}) \in Nat
        /\ Cardinality(S \ {x}) \in Nat
    BY FS_AddElement, FS_RemoveElement, FS_CardinalityType
  <1>3. /\ Cardinality(S \cup {x}) \in {Cardinality(S), Cardinality(S) + 1}
        /\ Cardinality(S \ {x}) \in {Cardinality(S), Cardinality(S) - 1}
    BY FS_AddElement, FS_RemoveElement
  <1>4. QED
    BY <1>1, <1>2, <1>3

LEMMA InitIInv == Init => IInv
  <1> SUFFICES ASSUME Init
               PROVE  IInv
    OBVIOUS
  <1>1. Cardinality(slots) <= Slots
    BY SlotsPositive, FS_EmptySet DEF Init
  <1>2. QED
    BY <1>1, SchedulerAssumption
    DEF Init, IInv, TypeOK, PC, WriterInv, ReaderInv, DrainInv, SlotInv, OwnerInv, ReturnInv

\* One goroutine's step preserves the invariant: one step per action.
LEMMA JobStepIInv ==
  ASSUME IInv, NEW j \in Jobs, JobStep(j)
  PROVE  IInv'
  <1> USE SchedulerAssumption DEF IInv, TypeOK, PC, WriterInv, ReaderInv, DrainInv,
          OwnerInv, ReturnInv
  <1>0. Slots \in Nat /\ IsFiniteSet(slots) /\ Cardinality(slots) \in Nat
    BY SlotsPositive, FS_Subset, FS_CardinalityType
  <1>1. CASE AnnounceLock(j)
    BY <1>1 DEF AnnounceLock, SlotInv
  <1>2. CASE AcquireLock(j)
    BY <1>2 DEF AcquireLock, SlotInv
  <1>3. CASE ReleaseLock(j)
    BY <1>3 DEF ReleaseLock, SlotInv
  <1>4. CASE AcquireSlot(j)
    <2>1. Cardinality(slots \cup {j}) <= Slots
      <3>1. Cardinality(slots \cup {j}) <= Cardinality(slots) + 1
        BY <1>0, TokenCount
      <3>2. Cardinality(slots) < Slots /\ Cardinality(slots \cup {j}) \in Nat
        BY <1>0, <1>4, TokenCount DEF AcquireSlot
      <3>3. QED
        BY <1>0, <3>1, <3>2
    <2>2. QED
      BY <1>4, <2>1 DEF AcquireSlot, SlotInv
  <1>5. CASE RLock(j)
    BY <1>5 DEF RLock, SlotInv
  <1>6. CASE LockGroup(j)
    BY <1>6 DEF LockGroup, IsNext, Wanted, Held, SlotInv
  <1>7. CASE StartRun(j)
    BY <1>7 DEF StartRun, Wanted, Held, SlotInv
  <1>8. CASE UnlockGroup(j)
    BY <1>8 DEF UnlockGroup, IsLast, Held, SlotInv
  <1>9. CASE RUnlock(j)
    BY <1>9 DEF RUnlock, Held, SlotInv
  <1>10. CASE ReleaseSlot(j)
    <2>1. Cardinality(slots \ {j}) <= Slots
      <3>1. /\ Cardinality(slots \ {j}) <= Cardinality(slots)
            /\ Cardinality(slots \ {j}) \in Nat
        BY <1>0, TokenCount
      <3>2. QED
        BY <1>0, <3>1 DEF SlotInv
    <2>2. QED
      BY <1>10, <2>1 DEF ReleaseSlot, SlotInv
  <1>11. CASE FinishRun(j)
    BY <1>11 DEF FinishRun, SlotInv
  <1>12. QED
    BY <1>1, <1>2, <1>3, <1>4, <1>5, <1>6, <1>7, <1>8, <1>9, <1>10, <1>11 DEF JobStep

LEMMA NextIInv == IInv /\ [Next]_vars => IInv'
  <1> SUFFICES ASSUME IInv, [Next]_vars
               PROVE  IInv'
    OBVIOUS
  <1>1. CASE \E j \in Jobs : JobStep(j)
    BY <1>1, JobStepIInv
  <1>2. CASE Return
    BY <1>2 DEF Return, IInv, TypeOK, WriterInv, ReaderInv, DrainInv, SlotInv, OwnerInv,
                ReturnInv, Held, Wanted
  <1>3. CASE UNCHANGED vars
    BY <1>3 DEF vars, IInv, TypeOK, WriterInv, ReaderInv, DrainInv, SlotInv, OwnerInv, ReturnInv
  <1>4. QED
    BY <1>1, <1>2, <1>3 DEF Next

LEMMA InvariantHolds == Spec => []IInv
  BY InitIInv, NextIInv, PTL DEF Spec

-----------------------------------------------------------------------------
(* What the invariant says about the jobs that run at the same time. *)

\* While a job that must run alone runs, nothing else does: a second exclusive
\* job is not the writer, and a parallel one would be a reader.
LEMMA AloneLemma ==
  ASSUME IInv, NEW i \in Running, NEW j \in Running, i # j
  PROVE  i \in ParallelSafe
  BY DEF IInv, TypeOK, WriterInv, ReaderInv, DrainInv, Running

\* Two running jobs hold the mutexes of all of their groups, so they share none.
LEMMA DisjointLemma ==
  ASSUME IInv, NEW i \in Running, NEW j \in Running, i # j
  PROVE  JobGroups[i] \cap JobGroups[j] = {}
  <1>1. i \in ParallelSafe /\ j \in ParallelSafe
    BY AloneLemma
  <1>2. QED
    BY <1>1, SchedulerAssumption DEF IInv, OwnerInv, Running

\* Either one exclusive job runs, or every running job has a token.
LEMMA BoundLemma == IInv => BoundedConcurrency
  <1> SUFFICES ASSUME IInv
               PROVE  Cardinality(Running) <= Slots
    BY DEF BoundedConcurrency
  <1>1. CASE Running \subseteq ParallelSafe
    <2>1. Running \subseteq slots
      BY <1>1 DEF IInv, SlotInv, Running
    <2>2. IsFiniteSet(slots)
      BY SchedulerAssumption, FS_Subset DEF IInv, TypeOK
    <2>3. /\ Cardinality(Running) <= Cardinality(slots)
          /\ Cardinality(Running) \in Nat
          /\ Cardinality(slots) \in Nat
      BY <2>1, <2>2, FS_Subset, FS_CardinalityType
    <2>4. Cardinality(slots) <= Slots
      BY DEF IInv, SlotInv
    <2>5. QED
      BY <2>3, <2>4, SlotsPositive
  <1>2. CASE ~(Running \subseteq ParallelSafe)
    <2>1. PICK i \in Running : i \notin ParallelSafe
      BY <1>2
    <2>2. Running = {i}
      BY <2>1, AloneLemma
    <2>3. Cardinality(Running) = 1
      BY <2>2, FS_Singleton
    <2>4. QED
      BY <2>3, SlotsPositive
  <1>3. QED
    BY <1>1, <1>2

\* Type correctness of the scheduler's locks (func schedule).
THEOREM SchedulerTypeOK == Spec => []TypeOK
  BY InvariantHolds, PTL DEF IInv

\* A job that is not parallel-safe runs alone, for any jobs and any concurrency.
THEOREM ExclusiveRunsAloneHolds == Spec => []ExclusiveRunsAlone
  <1>1. IInv => ExclusiveRunsAlone
    BY AloneLemma DEF ExclusiveRunsAlone
  <1>2. QED
    BY <1>1, InvariantHolds, PTL

\* Jobs that share an exclusivity group never overlap.
THEOREM GroupsNeverOverlapHolds == Spec => []GroupsNeverOverlap
  <1>1. IInv => GroupsNeverOverlap
    BY DisjointLemma DEF GroupsNeverOverlap
  <1>2. QED
    BY <1>1, InvariantHolds, PTL

\* The number of running jobs never exceeds the clamped --concurrency, the jobs
\* that bypass the semaphore included.
THEOREM BoundedConcurrencyHolds == Spec => []BoundedConcurrency
  BY BoundLemma, InvariantHolds, PTL

\* schedule returns with every lock free.
THEOREM NothingHeldAfterReturnHolds == Spec => []NothingHeldAfterReturn
  <1>1. IInv => NothingHeldAfterReturn
    <2> SUFFICES ASSUME IInv, returned
                 PROVE  /\ slots = {}
                        /\ writer = NoJob
                        /\ readers \cup blocked = {}
                        /\ \A g \in Groups : owner[g] = NoJob
      BY DEF NothingHeldAfterReturn
    <2>1. \A j \in Jobs : pc[j] = "done"
      BY DEF IInv, ReturnInv
    <2>2. slots = {} /\ readers \cup blocked = {}
      BY <2>1, SchedulerAssumption DEF IInv, TypeOK, SlotInv, ReaderInv
    <2>3. writer = NoJob
      BY <2>1 DEF IInv, TypeOK, WriterInv
    <2>4. \A g \in Groups : owner[g] = NoJob
      BY <2>2 DEF IInv, OwnerInv
    <2>5. QED
      BY <2>2, <2>3, <2>4
  <1>2. QED
    BY <1>1, InvariantHolds, PTL

-----------------------------------------------------------------------------
(* No deadlock. *)

\* A job that locks its groups holds those before the ones it still wants.
OrderInv ==
  \A j \in Jobs : pc[j] = "locking" => \A g \in Held(j), h \in Wanted(j) : g < h

LEMMA OrderStep ==
  ASSUME IInv, OrderInv, [Next]_vars
  PROVE  OrderInv'
  <1> USE SchedulerAssumption DEF OrderInv, Held, Wanted
  <1>1. ASSUME NEW j \in Jobs, LockGroup(j)
        PROVE  OrderInv'
    <2>1. PICK l \in Groups : /\ IsNext(j, l) /\ owner[l] = NoJob
                              /\ owner' = [owner EXCEPT ![l] = j]
      BY <1>1 DEF LockGroup
    <2>2. pc' = pc /\ j # NoJob /\ owner \in [Groups -> ParallelSafe \cup {NoJob}]
      BY <1>1 DEF LockGroup, IInv, TypeOK
    <2> SUFFICES ASSUME NEW i \in Jobs, pc'[i] = "locking", NEW g \in Held(i)', NEW h \in Wanted(i)'
                 PROVE  g < h
      OBVIOUS
    <2>3. CASE i # j
      <3>1. g \in Held(i) /\ h \in Wanted(i)
        BY <2>1, <2>2, <2>3
      <3>2. QED
        BY <2>2, <3>1
    <2>4. CASE i = j
      <3>1. h \in Wanted(j) /\ h # l /\ (g = l \/ g \in Held(j))
        BY <2>1, <2>2, <2>4
      <3>2. l <= h
        BY <2>1, <3>1 DEF IsNext
      <3>3. g \in Int /\ h \in Int /\ l \in Int
        BY <2>1
      <3>4. CASE g = l
        BY <3>1, <3>2, <3>3, <3>4
      <3>5. CASE g \in Held(j)
        BY <2>2, <2>4, <3>1, <3>5
      <3>6. QED
        BY <3>1, <3>4, <3>5
    <2>5. QED
      BY <2>3, <2>4
  <1>2. ASSUME NEW j \in Jobs, UnlockGroup(j)
        PROVE  OrderInv'
    <2>1. PICK l \in Groups : IsLast(j, l) /\ owner' = [owner EXCEPT ![l] = NoJob]
      BY <1>2 DEF UnlockGroup
    <2>2. pc' = pc /\ pc[j] = "releasing" /\ owner \in [Groups -> ParallelSafe \cup {NoJob}]
      BY <1>2 DEF UnlockGroup, IInv, TypeOK
    <2> SUFFICES ASSUME NEW i \in Jobs, pc'[i] = "locking", NEW g \in Held(i)', NEW h \in Wanted(i)'
                 PROVE  g < h
      OBVIOUS
    <2>3. i # j /\ g \in Held(i) /\ h \in Wanted(i)
      BY <2>1, <2>2 DEF IsLast
    <2>4. QED
      BY <2>2, <2>3
  <1>3. ASSUME NEW j \in Jobs, RLock(j)
        PROVE  OrderInv'
    <2>1. Held(j) = {}
      <3>1. pc[j] = "slot" /\ j # NoJob
        BY <1>3 DEF RLock
      <3>2. j \notin readers
        BY <3>1 DEF IInv, TypeOK, ReaderInv
      <3>3. \A g \in Groups : owner[g] # NoJob => owner[g] \in readers
        BY DEF IInv, OwnerInv
      <3>4. QED
        BY ONLY <3>1, <3>2, <3>3 DEF Held
    <2>2. /\ owner' = owner /\ pc' = [pc EXCEPT ![j] = "locking"]
          /\ pc \in [Jobs -> PC]
      BY <1>3 DEF RLock, IInv, TypeOK
    <2>3. QED
      BY <2>1, <2>2
  <1>4. ASSUME NEW j \in Jobs,
               \/ AnnounceLock(j) \/ AcquireLock(j) \/ ReleaseLock(j) \/ AcquireSlot(j)
               \/ StartRun(j) \/ RUnlock(j) \/ ReleaseSlot(j) \/ FinishRun(j)
        PROVE  OrderInv'
    <2>1. owner' = owner /\ \A i \in Jobs : pc'[i] = "locking" => pc[i] = "locking"
      BY <1>4 DEF AnnounceLock, AcquireLock, ReleaseLock, AcquireSlot, StartRun, RUnlock,
                  ReleaseSlot, FinishRun, IInv, TypeOK
    <2>2. QED
      BY <2>1
  <1>5. CASE Return \/ UNCHANGED vars
    BY <1>5 DEF Return, vars
  <1>6. QED
    BY <1>1, <1>2, <1>3, <1>4, <1>5 DEF Next, JobStep

LEMMA OrderHolds == Spec => [](IInv /\ OrderInv)
  <1>1. Init => OrderInv
    BY DEF Init, OrderInv
  <1>2. IInv /\ OrderInv /\ [Next]_vars => OrderInv'
    BY OrderStep
  <1>3. QED
    BY <1>1, <1>2, InvariantHolds, PTL DEF Spec

LEMMA LeastElement ==
  ASSUME NEW S \in SUBSET Nat, S # {}
  PROVE  \E n \in S : \A m \in S : n <= m
  <1>1. PICK n \in S : \A m \in S : ~(<<m, n>> \in OpToRel(<, Nat))
    BY NatLessThanWellFounded, WFMin, Zenon
  <1>2. \A m \in S : ~(m < n)
    BY <1>1 DEF OpToRel
  <1>3. QED
    BY <1>2

\* The readers of R that wait for a later group than i does.
Behind(R, i) ==
  {k \in R : \E g, h \in Groups : IsNext(i, g) /\ IsNext(k, h) /\ g < h}

\* Not every one of some readers waits for a group that another one holds: that one waits
\* for a later group, so that fewer readers wait for later groups still.
LEMMA SomeReaderGoesOn ==
  ASSUME IInv, OrderInv, NEW R \in SUBSET Jobs, R # {}, \A i \in R : pc[i] = "locking"
  PROVE  \E i \in R : \A g \in Groups : IsNext(i, g) => owner[g] \notin R
  <1> SUFFICES ASSUME \A i \in R : \E g \in Groups : IsNext(i, g) /\ owner[g] \in R
               PROVE  FALSE
    OBVIOUS
  <1>1. IsFiniteSet(R)
    BY SchedulerAssumption, FS_Subset
  <1>2. \A i \in R : IsFiniteSet(Behind(R, i)) /\ Cardinality(Behind(R, i)) \in Nat
    <2> TAKE i \in R
    <2>1. Behind(R, i) \in SUBSET R
      BY DEF Behind
    <2>2. QED
      BY <1>1, <2>1, FS_Subset, FS_CardinalityType
  <1> DEFINE N == {Cardinality(Behind(R, i)) : i \in R}
  <1>3. PICK i \in R : \A k \in R : Cardinality(Behind(R, i)) <= Cardinality(Behind(R, k))
    <2>1. N \in SUBSET Nat /\ N # {}
      BY <1>2
    <2>2. PICK n \in N : \A m \in N : n <= m
      BY <2>1, LeastElement
    <2>3. QED
      BY <2>2
  <1>4. PICK g \in Groups : IsNext(i, g) /\ owner[g] \in R
    OBVIOUS
  <1>5. PICK k \in R : k = owner[g]
    BY <1>4
  <1>6. PICK h \in Groups : IsNext(k, h)
    OBVIOUS
  <1>7. g < h
    BY <1>5, <1>6 DEF OrderInv, Held, IsNext
  <1>8. \A x \in Groups : IsNext(k, x) => x = h
    BY <1>6, SchedulerAssumption DEF IsNext, Wanted
  <1>9. k \in Behind(R, i) /\ k \notin Behind(R, k)
    <2>1. k \in Behind(R, i)
      BY <1>4, <1>6, <1>7 DEF Behind
    <2>2. ~(h < h)
      BY SchedulerAssumption
    <2>3. k \notin Behind(R, k)
      BY <1>8, <2>2, Zenon DEF Behind
    <2>4. QED
      BY <2>1, <2>3
  <1>10. Behind(R, k) \subseteq Behind(R, i)
    <2> SUFFICES ASSUME NEW l \in Behind(R, k)
                 PROVE  l \in Behind(R, i)
      OBVIOUS
    <2>1. PICK x \in Groups : l \in R /\ IsNext(l, x) /\ h < x
      BY <1>8 DEF Behind
    <2>2. g < x
      BY <1>7, <2>1, SchedulerAssumption
    <2>3. QED
      BY <1>4, <2>1, <2>2 DEF Behind
  <1>11. Cardinality(Behind(R, k)) < Cardinality(Behind(R, i))
    <2>1. /\ Cardinality(Behind(R, k)) <= Cardinality(Behind(R, i))
          /\ Cardinality(Behind(R, k)) # Cardinality(Behind(R, i))
      BY <1>2, <1>9, <1>10, FS_Subset
    <2>2. QED
      BY <1>2, <2>1
  <1>12. QED
    BY <1>2, <1>3, <1>11

\* No set of goroutines is deadlocked, for any jobs and groups: of those that hold the
\* run lock for reading one goes on; without one the writer does, and without a writer all.
THEOREM NoCircularWaitHolds == Spec => []NoCircularWait
  <1>1. IInv /\ OrderInv => NoCircularWait
    <2> SUFFICES ASSUME IInv, OrderInv
                 PROVE  NoCircularWait
      OBVIOUS
    <2> SUFFICES ASSUME NEW S \in (SUBSET Jobs) \ {{}}
                 PROVE  \E i \in S : \A j \in S : ~WaitsFor(i, j)
      BY DEF NoCircularWait
    <2>8. S \in SUBSET Jobs /\ S # {}
      OBVIOUS
    <2> USE <2>8
    <2> SUFFICES ASSUME \A i \in S : \E j \in S : WaitsFor(i, j)
                 PROVE  FALSE
      OBVIOUS
    <2> DEFINE R == S \cap readers
    <2>0. NoJob \notin Jobs
      BY SchedulerAssumption
    <2>1. ASSUME NEW i \in R
          PROVE  /\ pc[i] = "locking"
                 /\ \E g \in Groups : IsNext(i, g) /\ owner[g] \in R
      <3>1. PICK j \in S : WaitsFor(i, j)
        OBVIOUS
      <3>2. i \in ParallelSafe /\ i \notin blocked /\ pc[i] # "drain"
        BY DEF IInv, TypeOK, ReaderInv
      <3>3. pc[i] = "locking" /\ \E g \in Groups : IsNext(i, g) /\ owner[g] = j
        BY <3>1, <3>2 DEF WaitsFor
      <3>4. PICK g \in Groups : IsNext(i, g) /\ owner[g] = j
        BY <3>3
      <3>5. j \in R
        BY <2>0, <3>4 DEF IInv, OwnerInv
      <3>6. QED
        BY <3>3, <3>4, <3>5
    <2>2. R = {}
      <3> SUFFICES ASSUME R # {} PROVE FALSE
        OBVIOUS
      <3>1. R \in SUBSET Jobs /\ \A i \in R : pc[i] = "locking"
        BY <2>1
      <3>2. PICK i \in R : \A g \in Groups : IsNext(i, g) => owner[g] \notin R
        BY <3>1, SomeReaderGoesOn
      <3>3. QED
        BY <2>1, <3>2
    <2>3. \A i \in S : writer \in S
      <3> TAKE i \in S
      <3>1. PICK j \in S : WaitsFor(i, j)
        OBVIOUS
      <3>2. QED
        BY <2>2, <3>1 DEF WaitsFor
    <2>4. PICK j \in S : WaitsFor(writer, j)
      BY <2>3
    <2>5. writer \in Jobs \ ParallelSafe /\ pc[writer] \in {"drain", "running", "releasing"}
      BY <2>0, <2>3 DEF IInv, TypeOK, WriterInv
    <2>6. j \in readers
      BY <2>4, <2>5 DEF WaitsFor
    <2>7. QED
      BY <2>2, <2>6
  <1>2. QED
    BY <1>1, OrderHolds, PTL

-----------------------------------------------------------------------------
(* schedule implements JobExclusion. *)

Phase(j) == IF pc[j] = "running" THEN "running"
            ELSE IF pc[j] \in {"releasing", "unslot", "done"} THEN "finished"
            ELSE "waiting"

\* What the refinement needs of the invariant, as one fact.
LEMMA OverlapLemma ==
  IInv => ExclusiveRunsAlone /\ GroupsNeverOverlap /\ BoundedConcurrency
  BY AloneLemma, DisjointLemma, BoundLemma DEF ExclusiveRunsAlone, GroupsNeverOverlap

\* A job's last lock is the abstract Start.  What makes it possible is that the
\* jobs already running may all overlap the new one, in the state after the step.
LEMMA StartRefines ==
  ASSUME IInv, ExclusiveRunsAlone', GroupsNeverOverlap', BoundedConcurrency',
         NEW j \in Jobs, AcquireLock(j) \/ StartRun(j)
  PROVE  Exclusion!Start(j)
  <1> DEFINE phase == [i \in Jobs |-> Phase(i)]
  <1>1. /\ pc[j] \in {"drain", "locking"}
        /\ pc' = [pc EXCEPT ![j] = "running"]
        /\ returned' = returned
    BY DEF AcquireLock, StartRun
  <1>2. pc \in [Jobs -> PC]
    BY DEF IInv, TypeOK
  <1>3. Exclusion!Running = Running
    BY DEF Exclusion!Running, Running
  <1>4. Running' = Running \cup {j}
    BY <1>1, <1>2 DEF Running
  <1>5. \A i \in Running : Exclusion!MayOverlap(i, j)
    <2> SUFFICES ASSUME NEW i \in Running
                 PROVE  Exclusion!MayOverlap(i, j)
      OBVIOUS
    <2>1. i # j
      BY <1>1 DEF Running
    <2>2. i \in Running' /\ j \in Running'
      BY <1>4
    <2>3. QED
      BY <2>1, <2>2 DEF ExclusiveRunsAlone, GroupsNeverOverlap, Exclusion!MayOverlap
  <1>6. Cardinality(Running \cup {j}) <= Slots
    BY <1>4 DEF BoundedConcurrency, Slots
  <1>7. phase[j] = "waiting" /\ phase' = [phase EXCEPT ![j] = "running"]
    BY <1>1, <1>2 DEF Phase
  <1>8. QED
    <2> HIDE DEF Running
    <2>1. \A i \in Exclusion!Running : Exclusion!MayOverlap(i, j)
      BY <1>3, <1>5
    <2>2. Exclusion!Cardinality(Exclusion!Running \cup {j}) <= Slots
      BY <1>3, <1>6, Zenon DEF Exclusion!Cardinality, Cardinality
    <2>3. QED
      BY <1>1, <1>7, <2>1, <2>2 DEF Exclusion!Start, Phase

\* Every step is a step of JobExclusion or leaves its variables alone.
LEMMA StepRefines ==
  ASSUME IInv, ExclusiveRunsAlone', GroupsNeverOverlap', BoundedConcurrency',
         [Next]_vars
  PROVE  [Exclusion!Next]_(Exclusion!vars)
  <1> USE DEF Exclusion!vars
  <1>1. pc \in [Jobs -> PC]
    BY DEF IInv, TypeOK
  <1>2. ASSUME NEW j \in Jobs, AcquireLock(j) \/ StartRun(j)
        PROVE  Exclusion!Next
    BY <1>2, StartRefines DEF Exclusion!Next
  <1>3. ASSUME NEW j \in Jobs, FinishRun(j)
        PROVE  Exclusion!Next
    BY <1>1, <1>3 DEF FinishRun, Exclusion!Next, Exclusion!Finish
  <1>4. ASSUME NEW j \in Jobs,
               \/ AnnounceLock(j) \/ ReleaseLock(j) \/ AcquireSlot(j) \/ RLock(j)
               \/ LockGroup(j) \/ UnlockGroup(j) \/ RUnlock(j) \/ ReleaseSlot(j)
        PROVE  UNCHANGED Exclusion!vars
    BY <1>1, <1>4 DEF AnnounceLock, ReleaseLock, AcquireSlot, RLock, LockGroup,
                      UnlockGroup, RUnlock, ReleaseSlot
  <1>5. CASE Return
    BY <1>1, <1>5 DEF Return, Exclusion!Next, Exclusion!Return
  <1>6. CASE UNCHANGED vars
    BY <1>6 DEF vars
  <1>7. QED
    BY <1>2, <1>3, <1>4, <1>5, <1>6 DEF Next, JobStep

\* schedule, with its semaphore, its read-write lock and its group mutexes,
\* behaves like the abstract scheduler (safety part of KeepsPromise).
THEOREM SchedulerRefinesExclusion == Spec => Exclusion!Spec
  <1>1. Init => Exclusion!Init
    BY DEF Init, Exclusion!Init
  <1>2. /\ IInv /\ [Next]_vars
        /\ ExclusiveRunsAlone' /\ GroupsNeverOverlap' /\ BoundedConcurrency'
        => [Exclusion!Next]_(Exclusion!vars)
    BY StepRefines
  <1>3. QED
    BY <1>1, <1>2, InvariantHolds, OverlapLemma, PTL DEF Spec, Exclusion!Spec

-----------------------------------------------------------------------------
\* Two harnesses that share the helper pod once schedule has returned: a rollback of
\* one deletes no pod of the other, although pods are evicted and made again between
\* the create and the delete.
THEOREM RollbackSparesForeignPodsToo == MCFairSpec => RollbackSparesForeignPods
  <1>1. MCInit => HP!Init
    BY DEF MCInit
  <1>2. ASSUME [MCNext]_allVars
        PROVE  [HP!Next]_(HP!vars)
    BY <1>2 DEF MCNext, allVars, hVars, HP!vars
  <1>3. HP!Spec => HP!RollbackSparesForeignPods
    BY HarnessAssumption, HP!RollbackSparesForeignPodsHolds
  <1>4. HP!RollbackSparesForeignPods <=> RollbackSparesForeignPods
    BY DEF RollbackSparesForeignPods
  <1>5. QED
    BY <1>1, <1>2, <1>3, <1>4, PTL DEF MCFairSpec, HP!Spec

=============================================================================
