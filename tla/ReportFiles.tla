---------------------------- MODULE ReportFiles ----------------------------
(***************************************************************************)
(* How a report gets to disk: writeReportFiles in cmd/harness/main.go and   *)
(* WriteFileAtomic in internal/safefs, while the process may be killed, the *)
(* machine may lose power and any call may fail.  RunLifecycle takes a save *)
(* to be one step; this is why it may.                                      *)
(*                                                                          *)
(* A file has the number of the report that it holds.  After a loss of      *)
(* power, data that was not synced is gone, and so may be the last changes  *)
(* of the directory, which is never synced.                                 *)
(***************************************************************************)
EXTENDS Integers, Sequences

CONSTANT MaxSaves  \* bound: reports written

Files == <<"report.json", "report.md", "report.junit.xml">>
Torn == -1

VARIABLES
  file,          \* file[i]: the report in the i-th file, 0 for none
  attestations,  \* the report that attestations.json belongs to, Torn, or 0
  report,        \* number of the report being written, or written last
  at,            \* the file being written, 0 for none
  step,          \* "attest", "create", "write", "sync" or "rename"
  synced,        \* the temporary file is on the disk
  pending        \* the directory changes that a loss of power may undo, as [at, old, lost]

vars == <<file, attestations, report, at, step, synced, pending>>

Init ==
  /\ file = [i \in DOMAIN Files |-> 0]
  /\ attestations = 0
  /\ report = 0
  /\ at = 0
  /\ step = "create"
  /\ synced = FALSE
  /\ pending = <<>>

\* The next report is rendered.  Only the final one of a run has attestations.
Save ==
  /\ at = 0
  /\ report < MaxSaves
  /\ report' = report + 1
  /\ at' = 1
  /\ step' \in {"attest", "create"}
  /\ UNCHANGED <<file, attestations, synced, pending>>

\* attestations.json is written in place: truncated, then filled.
Attest ==
  /\ at = 1
  /\ step = "attest"
  /\ \/ attestations # Torn /\ attestations' = Torn /\ step' = step
     \/ attestations = Torn /\ attestations' = report /\ step' = "create"
  /\ UNCHANGED <<file, report, at, synced, pending>>

CreateTemp ==
  /\ at # 0
  /\ step = "create"
  /\ step' = "write"
  /\ synced' = FALSE
  /\ UNCHANGED <<file, attestations, report, at, pending>>

WriteTemp ==
  /\ at # 0
  /\ step = "write"
  /\ step' = "sync"
  /\ UNCHANGED <<file, attestations, report, at, synced, pending>>

\* Faulty variant: the temporary file is not synced.
SyncNothing ==
  /\ at # 0
  /\ step = "sync"
  /\ step' = "rename"
  /\ UNCHANGED <<file, attestations, report, at, synced, pending>>

\* Sync and Close.
Sync ==
  /\ at # 0
  /\ step = "sync"
  /\ step' = "rename"
  /\ synced' = TRUE
  /\ UNCHANGED <<file, attestations, report, at, pending>>

\* The report is there, and the next file is written.
Rename ==
  /\ at # 0
  /\ step = "rename"
  /\ file' = [file EXCEPT ![at] = report]
  /\ pending' = Append(pending, [at |-> at, old |-> file[at], lost |-> ~synced])
  /\ at' = IF at = Len(Files) THEN 0 ELSE at + 1
  /\ step' = "create"
  /\ UNCHANGED <<attestations, report, synced>>

\* A call fails and the temporary file is removed, or the process is killed and it
\* stays, under a name of its own: the save is over.
Fail ==
  /\ at # 0
  /\ at' = 0
  /\ step' = "create"
  /\ UNCHANGED <<file, attestations, report, synced, pending>>

-----------------------------------------------------------------------------
(* The machine. *)

\* The directory gets to the disk by itself.
Flush ==
  /\ pending # <<>>
  /\ pending' = Tail(pending)
  /\ UNCHANGED <<file, attestations, report, at, step, synced>>

\* Some of the last changes are undone; of the others, data not synced is lost.
LosePower ==
  /\ \E k \in 0..Len(pending) :
       LET Undone(i) == {n \in (k + 1)..Len(pending) : pending[n].at = i}
           Kept(i) == {n \in 1..k : pending[n].at = i}
       IN file' = [i \in DOMAIN Files |->
            IF Undone(i) # {}
              THEN pending[CHOOSE n \in Undone(i) : \A m \in Undone(i) : n <= m].old
            ELSE IF \E n \in Kept(i) : pending[n].lost /\ \A m \in Kept(i) : m <= n
              THEN Torn ELSE file[i]]
  /\ at' = 0
  /\ step' = "create"
  /\ pending' = <<>>
  /\ UNCHANGED <<attestations, report, synced>>

Next ==
  \/ Save \/ Attest \/ CreateTemp \/ WriteTemp \/ Sync \/ Rename \/ Fail
  \/ Flush \/ LosePower

Spec == Init /\ [][Next]_vars

-----------------------------------------------------------------------------
(* Properties. *)

TypeOK ==
  /\ \A i \in DOMAIN Files : file[i] \in Torn..report
  /\ attestations \in Torn..report
  /\ at \in 0..Len(Files)
  /\ step \in {"attest", "create", "write", "sync", "rename"}
  /\ synced \in BOOLEAN

\* "a checkpoint is either the prior complete report or the new complete report,
\* never a truncated XML/JSON file", at any time; and the files for people and for
\* CI tell of no report that report.json, which a run is continued from, has not
\* had: they are never ahead of it.
ReportStaysWhole ==
  /\ \A i \in DOMAIN Files : file[i] # Torn
  /\ file[3] <= file[2] /\ file[2] <= file[1]

=============================================================================
