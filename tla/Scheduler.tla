------------------------------ MODULE Scheduler ------------------------------
(***************************************************************************)
(* func schedule (internal/orchestrator/orchestrator.go): one goroutine per *)
(* job, ordered by three kinds of locks taken in a fixed order,             *)
(*                                                                          *)
(*     semaphore  <  run lock (sync.RWMutex)  <  group mutexes, sorted.     *)
(*                                                                          *)
(* A job that is not parallel-safe takes only the run lock, for writing.    *)
(* Each action is one blocking call, or the part of one between two points  *)
(* at which the goroutine can be suspended.                                 *)
(*                                                                          *)
(* Abstracted: the lazily filled map of group mutexes (a group's mutex is   *)
(* created free, under its own lock, before anyone can hold it) and the     *)
(* job's work itself, which is the pair StartRun/FinishRun.                 *)
(***************************************************************************)
EXTENDS Integers, FiniteSets

CONSTANTS
  Jobs,          \* the jobs handed to schedule
  ParallelSafe,  \* {j \in Jobs : j.parallelSafe}
  Groups,        \* group names, as numbers: their order is the sorting order
  JobGroups,     \* JobGroups[j]: j.groups as a set (it is built from a map's keys)
  Concurrency,   \* --concurrency as given, before it is clamped
  NoJob          \* no holder

ASSUME SchedulerAssumption ==
  /\ IsFiniteSet(Jobs)
  /\ NoJob \notin Jobs
  /\ ParallelSafe \subseteq Jobs
  /\ Groups \subseteq Int
  /\ JobGroups \in [Jobs -> SUBSET Groups]
  /\ Concurrency \in Int

\* if concurrency < 1 { concurrency = 1 }
Slots == IF Concurrency < 1 THEN 1 ELSE Concurrency

VARIABLES
  pc,        \* pc[j]: where job j's goroutine is
  slots,     \* jobs holding a token of the semaphore channel
  writer,    \* the job that called runLock.Lock and got past other writers
  readers,   \* jobs holding runLock for reading
  blocked,   \* readers that arrived behind a writer and wait for it to unlock
  owner,     \* owner[g]: the holder of group g's mutex
  returned   \* wg.Wait has returned

vars == <<pc, slots, writer, readers, blocked, owner, returned>>

PC == {"spawned", "drain", "slot", "locking", "running", "releasing",
       "unslot", "done"}

Held(j) == {g \in Groups : owner[g] = j}
Wanted(j) == JobGroups[j] \ Held(j)

\* Faulty variant: the groups are locked in the iteration order of a map.
IsNextUnsorted(j, g) == g \in Wanted(j)

\* "sorted -> consistent lock order": the loop locks j.groups in ascending order.
IsNext(j, g) == g \in Wanted(j) /\ \A h \in Wanted(j) : g <= h

\* The deferred unlocks run in the reverse order.
IsLast(j, g) == g \in Held(j) /\ \A h \in Held(j) : h <= g

Init ==
  /\ pc = [j \in Jobs |-> "spawned"]
  /\ slots = {}
  /\ writer = NoJob
  /\ readers = {}
  /\ blocked = {}
  /\ owner = [g \in Groups |-> NoJob]
  /\ returned = FALSE

-----------------------------------------------------------------------------
(* A job that must run alone. *)

\* runLock.Lock, first half: keep other writers out and announce the writer,
\* so that readers arriving from now on wait behind it.
AnnounceLock(j) ==
  /\ j \notin ParallelSafe
  /\ pc[j] = "spawned"
  /\ writer = NoJob
  /\ writer' = j
  /\ pc' = [pc EXCEPT ![j] = "drain"]
  /\ UNCHANGED <<slots, readers, blocked, owner, returned>>

\* Faulty variant: the writer does not wait for the readers to leave.
AcquireLockWithoutDrain(j) ==
  /\ pc[j] = "drain"
  /\ pc' = [pc EXCEPT ![j] = "running"]
  /\ UNCHANGED <<slots, writer, readers, blocked, owner, returned>>

\* runLock.Lock, second half: the readers that were there have left; run(j).
AcquireLock(j) ==
  /\ pc[j] = "drain"
  /\ readers = {}
  /\ pc' = [pc EXCEPT ![j] = "running"]
  /\ UNCHANGED <<slots, writer, readers, blocked, owner, returned>>

\* Faulty variant: the readers that queued behind the writer are not woken.
ReleaseLockSilently(j) ==
  /\ j \notin ParallelSafe
  /\ pc[j] = "releasing"
  /\ writer' = NoJob
  /\ pc' = [pc EXCEPT ![j] = "done"]
  /\ UNCHANGED <<slots, readers, blocked, owner, returned>>

\* runLock.Unlock: every waiting reader holds the lock before the next writer
\* can announce itself.
ReleaseLock(j) ==
  /\ j \notin ParallelSafe
  /\ pc[j] = "releasing"
  /\ writer' = NoJob
  /\ readers' = readers \cup blocked
  /\ blocked' = {}
  /\ pc' = [pc EXCEPT ![j] = "done"]
  /\ UNCHANGED <<slots, owner, returned>>

-----------------------------------------------------------------------------
(* A parallel-safe job. *)

\* Faulty variants: the limit is off by one; a job that must run alone takes a token too.
AcquireSlotOffByOne(j) ==
  /\ j \in ParallelSafe
  /\ pc[j] = "spawned"
  /\ Cardinality(slots) <= Slots
  /\ slots' = slots \cup {j}
  /\ pc' = [pc EXCEPT ![j] = "slot"]
  /\ UNCHANGED <<writer, readers, blocked, owner, returned>>

AcquireSlotForAll(j) ==
  /\ pc[j] = "spawned"
  /\ Cardinality(slots) < Slots
  /\ slots' = slots \cup {j}
  /\ pc' = [pc EXCEPT ![j] = "slot"]
  /\ UNCHANGED <<writer, readers, blocked, owner, returned>>

\* sem <- struct{}{}
AcquireSlot(j) ==
  /\ j \in ParallelSafe
  /\ pc[j] = "spawned"
  /\ Cardinality(slots) < Slots
  /\ slots' = slots \cup {j}
  /\ pc' = [pc EXCEPT ![j] = "slot"]
  /\ UNCHANGED <<writer, readers, blocked, owner, returned>>

\* runLock.RLock: at once, or queued behind an announced writer.
RLock(j) ==
  /\ pc[j] = "slot"
  /\ IF writer = NoJob
       THEN readers' = readers \cup {j} /\ UNCHANGED blocked
       ELSE blocked' = blocked \cup {j} /\ UNCHANGED readers
  /\ pc' = [pc EXCEPT ![j] = "locking"]
  /\ UNCHANGED <<slots, writer, owner, returned>>

\* m.Lock for the next group of the loop.
LockGroup(j) ==
  /\ pc[j] = "locking"
  /\ j \in readers
  /\ \E g \in Groups : /\ IsNext(j, g)
                       /\ owner[g] = NoJob
                       /\ owner' = [owner EXCEPT ![g] = j]
  /\ UNCHANGED <<pc, slots, writer, readers, blocked, returned>>

\* Faulty variant: the job starts before it holds all of its groups.
StartRunEarly(j) ==
  /\ pc[j] = "locking"
  /\ j \in readers
  /\ pc' = [pc EXCEPT ![j] = "running"]
  /\ UNCHANGED <<slots, writer, readers, blocked, owner, returned>>

\* The loop is over: run(j).
StartRun(j) ==
  /\ pc[j] = "locking"
  /\ j \in readers
  /\ Wanted(j) = {}
  /\ pc' = [pc EXCEPT ![j] = "running"]
  /\ UNCHANGED <<slots, writer, readers, blocked, owner, returned>>

\* m.Unlock, deferred.
UnlockGroup(j) ==
  /\ j \in ParallelSafe
  /\ pc[j] = "releasing"
  /\ \E g \in Groups : /\ IsLast(j, g)
                       /\ owner' = [owner EXCEPT ![g] = NoJob]
  /\ UNCHANGED <<pc, slots, writer, readers, blocked, returned>>

\* Faulty variant: the group mutexes are left locked.
RUnlockEarly(j) ==
  /\ j \in ParallelSafe
  /\ pc[j] = "releasing"
  /\ readers' = readers \ {j}
  /\ pc' = [pc EXCEPT ![j] = "unslot"]
  /\ UNCHANGED <<slots, writer, blocked, owner, returned>>

\* runLock.RUnlock, deferred.
RUnlock(j) ==
  /\ j \in ParallelSafe
  /\ pc[j] = "releasing"
  /\ Held(j) = {}
  /\ readers' = readers \ {j}
  /\ pc' = [pc EXCEPT ![j] = "unslot"]
  /\ UNCHANGED <<slots, writer, blocked, owner, returned>>

\* <-sem and wg.Done, deferred.
ReleaseSlot(j) ==
  /\ pc[j] = "unslot"
  /\ slots' = slots \ {j}
  /\ pc' = [pc EXCEPT ![j] = "done"]
  /\ UNCHANGED <<writer, readers, blocked, owner, returned>>

-----------------------------------------------------------------------------
\* run(j) returns.
FinishRun(j) ==
  /\ pc[j] = "running"
  /\ pc' = [pc EXCEPT ![j] = "releasing"]
  /\ UNCHANGED <<slots, writer, readers, blocked, owner, returned>>

\* wg.Wait returns.
Return ==
  /\ \A j \in Jobs : pc[j] = "done"
  /\ returned' = TRUE
  /\ UNCHANGED <<pc, slots, writer, readers, blocked, owner>>

JobStep(j) ==
  \/ AnnounceLock(j) \/ AcquireLock(j) \/ ReleaseLock(j)
  \/ AcquireSlot(j) \/ RLock(j) \/ LockGroup(j) \/ StartRun(j)
  \/ UnlockGroup(j) \/ RUnlock(j) \/ ReleaseSlot(j)
  \/ FinishRun(j)

Next == (\E j \in Jobs : JobStep(j)) \/ Return

Spec == Init /\ [][Next]_vars

\* The Go scheduler runs every runnable goroutine, and run(j) returns because
\* every stage of a job runs under a deadline.  Weak fairness is enough: each
\* goroutine asks for each lock once, so nobody can be overtaken for ever.
FairSpec == Spec /\ (\A j \in Jobs : WF_vars(JobStep(j))) /\ WF_vars(Return)

-----------------------------------------------------------------------------
(* Properties. *)

TypeOK ==
  /\ pc \in [Jobs -> PC]
  /\ slots \subseteq ParallelSafe
  /\ writer \in (Jobs \ ParallelSafe) \cup {NoJob}
  /\ readers \subseteq ParallelSafe
  /\ blocked \subseteq ParallelSafe
  /\ owner \in [Groups -> ParallelSafe \cup {NoJob}]
  /\ returned \in BOOLEAN

Running == {j \in Jobs : pc[j] = "running"}

\* A job that is not parallel-safe shares its running time with no other job:
\* "running non-parallel-safe jobs alone (exclusive)".
ExclusiveRunsAlone ==
  \A i, j \in Running : i # j => i \in ParallelSafe

\* Two jobs that run at the same time have no exclusivity group in common:
\* "never overlapping jobs that share an exclusivity group".
GroupsNeverOverlap ==
  \A i, j \in Running : i # j => JobGroups[i] \cap JobGroups[j] = {}

\* No more jobs run at once than --concurrency allows, although jobs that must
\* run alone never take a token of the semaphore.
BoundedConcurrency == Cardinality(Running) <= Slots

\* When schedule has returned nobody holds, or waits for, any of its locks.
NothingHeldAfterReturn ==
  returned => /\ slots = {}
              /\ writer = NoJob
              /\ readers \cup blocked = {}
              /\ \A g \in Groups : owner[g] = NoJob

\* WaitsFor(i, j): job i cannot go on before job j has released a lock.
WaitsFor(i, j) ==
  \/ pc[i] = "locking" /\ i \in readers /\ \E g \in Groups : IsNext(i, g) /\ owner[g] = j
  \/ pc[i] = "locking" /\ i \in blocked /\ writer = j
  \/ pc[i] = "drain" /\ j \in readers
  \/ pc[i] = "spawned" /\ i \notin ParallelSafe /\ writer = j

\* No set of jobs waits for one another in a circle, whatever the groups are:
\* every nonempty set of jobs has one that waits for nobody in the set.
NoCircularWait ==
  \A S \in (SUBSET Jobs) \ {{}} : \E i \in S : \A j \in S : ~WaitsFor(i, j)

\* Every job is run to its end and schedule returns to Run.
ScheduleReturns == <>returned

\* schedule keeps the promise of JobExclusion: a job is running from the
\* moment its last lock is acquired until run(j) returns.
Exclusion == INSTANCE JobExclusion WITH
  phase <- [j \in Jobs |->
              IF pc[j] = "running" THEN "running"
              ELSE IF pc[j] \in {"releasing", "unslot", "done"} THEN "finished"
              ELSE "waiting"]

KeepsPromise == Exclusion!FairSpec

=============================================================================
