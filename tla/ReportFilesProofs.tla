------------------------- MODULE ReportFilesProofs -------------------------
(***************************************************************************)
(* Theorems about ReportFiles, however many reports are written: whenever   *)
(* the power fails, what comes back is one of the directories there were,   *)
(* and each of those held whole files in order.                             *)
(***************************************************************************)
EXTENDS ReportFiles, SequenceTheorems, WellFoundedInduction, TLAPS

Change == [at : 1..3, old : Nat, lost : BOOLEAN]
Directory == [1..3 -> Nat]

\* Files that a reader may see: whole, and never ahead of report.json, which is the
\* first; none is ahead of the last report.
InOrder(d) == d[3] <= d[2] /\ d[2] <= d[1] /\ d[1] <= report

\* D[n] is the directory after the n-th pending change: each one differs from the one
\* before in the file that was replaced, and a file is the same as long as it was not.
Explain(D) ==
  /\ D \in [0..Len(pending) -> Directory]
  /\ D[Len(pending)] = file
  /\ \A n \in 0..Len(pending) : InOrder(D[n])
  /\ \A n \in 1..Len(pending) : D[n - 1][pending[n].at] = pending[n].old
  /\ \A k, n \in 0..Len(pending), i \in 1..3 :
       k <= n /\ (\A m \in (k + 1)..n : pending[m].at # i) => D[k][i] = D[n][i]

PendingInv ==
  /\ pending \in Seq(Change)
  /\ \A n \in 1..Len(pending) : pending[n].lost = FALSE
  /\ \E D : Explain(D)

\* What the save in the making has done already.
SaveInv ==
  /\ report \in Nat
  /\ step = "rename" => synced = TRUE
  /\ at >= 2 => file[1] = report
  /\ at = 3 => file[2] = report

IInv == TypeOK /\ PendingInv /\ SaveInv

-----------------------------------------------------------------------------
LEMMA LeastElement ==
  ASSUME NEW S \in SUBSET Nat, S # {}
  PROVE  \E n \in S : \A m \in S : n <= m
  <1>1. PICK n \in S : \A m \in S : ~(<<m, n>> \in OpToRel(<, Nat))
    BY NatLessThanWellFounded, WFMin, Zenon
  <1>2. \A m \in S : ~(m < n)
    BY <1>1 DEF OpToRel
  <1>3. QED
    BY <1>2

LEMMA ThreeFiles == DOMAIN Files = 1..3 /\ Len(Files) = 3
  BY DEF Files

LEMMA InitIInv == Init => IInv
  <1> SUFFICES ASSUME Init PROVE IInv
    OBVIOUS
  <1> USE ThreeFiles DEF Init
  <1>1. TypeOK
    <2>1. synced \in BOOLEAN
      BY Zenon
    <2>2. QED
      BY <2>1 DEF TypeOK, Torn
  <1>2. SaveInv
    BY DEF SaveInv
  <1>3. PendingInv
    <2>1. pending = << >> /\ Len(pending) = 0 /\ pending \in Seq(Change)
      OBVIOUS
    <2>2. Explain([n \in 0..0 |-> file])
      BY <2>1 DEF Explain, InOrder, Directory
    <2>3. QED
      BY <2>1, <2>2 DEF PendingInv
  <1>4. QED
    BY <1>1, <1>2, <1>3 DEF IInv

\* A file that no change between two directories is about is the same in both.
LEMMA SameFile ==
  ASSUME NEW D, Explain(D), NEW a \in 0..Len(pending), NEW b \in 0..Len(pending),
         NEW i \in 1..3, a <= b, \A m \in (a + 1)..b : pending[m].at # i
  PROVE  D[a][i] = D[b][i]
  BY Zenon DEF Explain

\* A step that does not change the directory.
LEMMA QuietPending ==
  ASSUME IInv, UNCHANGED <<file, pending>>, report' \in Nat, report <= report'
  PROVE  PendingInv'
  <1>1. PICK D : Explain(D)
    BY DEF IInv, PendingInv
  <1>2. Len(pending) \in Nat /\ report \in Nat
    BY DEF IInv, PendingInv, SaveInv
  <1>3. \A n \in 0..Len(pending) : InOrder(D[n])'
    <2> SUFFICES ASSUME NEW n \in 0..Len(pending)
                 PROVE  InOrder(D[n])'
      OBVIOUS
    <2>1. D[n] \in Directory /\ InOrder(D[n])
      BY <1>1 DEF Explain
    <2>2. D[n][1] \in Nat
      BY <2>1 DEF Directory
    <2>3. QED
      BY <1>2, <2>1, <2>2 DEF InOrder
  <1>4. Explain(D)'
    BY <1>1, <1>3 DEF Explain
  <1>5. QED
    BY <1>4 DEF IInv, PendingInv

LEMMA QuietIInv ==
  ASSUME IInv, Save \/ Attest \/ CreateTemp \/ WriteTemp \/ Sync \/ Fail
  PROVE  IInv'
  <1> USE ThreeFiles DEF IInv
  <1>1. report' \in Nat /\ report <= report' /\ UNCHANGED <<file, pending>>
    BY DEF SaveInv, Save, Attest, CreateTemp, WriteTemp, Sync, Fail
  <1>2. PendingInv'
    BY <1>1, QuietPending
  <1>3. TypeOK'
    <2>1. /\ \A i \in DOMAIN Files : file'[i] \in Torn..report'
          /\ attestations' \in Torn..report'
      BY <1>1 DEF TypeOK, SaveInv, Torn, Save, Attest, CreateTemp, WriteTemp, Sync, Fail
    <2>2. /\ at' \in 0..Len(Files)
          /\ step' \in {"attest", "create", "write", "sync", "rename"}
      BY DEF TypeOK, Save, Attest, CreateTemp, WriteTemp, Sync, Fail
    <2>3. synced' \in BOOLEAN
      BY Zenon DEF TypeOK, Save, Attest, CreateTemp, WriteTemp, Sync, Fail
    <2>4. QED
      BY <2>1, <2>2, <2>3 DEF TypeOK
  <1>4. SaveInv'
    <2>1. step' = "rename" => synced' = TRUE
      BY DEF SaveInv, Save, Attest, CreateTemp, WriteTemp, Sync, Fail
    <2>2. /\ at' >= 2 => file'[1] = report'
          /\ at' = 3 => file'[2] = report'
      BY DEF TypeOK, SaveInv, Save, Attest, CreateTemp, WriteTemp, Sync, Fail
    <2>3. QED
      BY <1>1, <2>1, <2>2 DEF SaveInv
  <1>5. QED
    BY <1>2, <1>3, <1>4

\* Report.json is replaced first, and each of the others when those before it have been.
LEMMA RenameIInv ==
  ASSUME IInv, Rename
  PROVE  IInv'
  <1> USE ThreeFiles
  <1> DEFINE change == [at |-> at, old |-> file[at], lost |-> ~synced]
  <1>0. PICK L : L = Len(pending)
    OBVIOUS
  <1> USE <1>0
  <1>1. PICK D : Explain(D)
    BY DEF IInv, PendingInv
  <1>2. /\ at \in 1..3 /\ report \in Nat /\ L \in Nat /\ pending \in Seq(Change)
        /\ file' = [file EXCEPT ![at] = report]
        /\ at' = (IF at = 3 THEN 0 ELSE at + 1) /\ step' = "create"
        /\ report' = report
        /\ attestations \in Torn..report /\ attestations' = attestations
    BY DEF IInv, TypeOK, PendingInv, SaveInv, Rename
  <1>3. synced = TRUE /\ synced' = synced
    BY DEF IInv, SaveInv, Rename
  <1>4. file \in Directory /\ D[L] = file /\ InOrder(file)
    BY <1>1, <1>2 DEF Explain
  <1>5. file' \in Directory /\ InOrder(file)'
    BY <1>2, <1>4 DEF Directory, InOrder, IInv, SaveInv
  <1>6. /\ change \in Change /\ change.at = at /\ change.old = file[at] /\ change.lost = FALSE
        /\ pending' = Append(pending, change)
    <2>1. change.lost = FALSE /\ change.lost \in BOOLEAN
      BY <1>3, Zenon
    <2>2. at \in 1..3 /\ file[at] \in Nat
      BY <1>2, <1>4 DEF Directory
    <2>3. pending' = Append(pending, change)
      BY Zenon DEF Rename
    <2>4. QED
      BY <2>1, <2>2, <2>3, Zenon DEF Change
  <1> HIDE DEF change
  <1>7. /\ pending' \in Seq(Change) /\ Len(pending') = L + 1
        /\ \A n \in 1..L : pending'[n] = pending[n]
        /\ pending'[L + 1] = change
    BY <1>2, <1>6, AppendProperties
  <1>8. PendingInv'
    <2>0. PICK E : E = [n \in 0..(L + 1) |-> IF n <= L THEN D[n] ELSE file']
      OBVIOUS
    <2>1. /\ E \in [0..(L + 1) -> Directory] /\ E[L + 1] = file'
          /\ \A n \in 0..L : E[n] = D[n]
      BY <1>1, <1>2, <1>5, <2>0 DEF Explain
    <2>2. \A n \in 0..(L + 1) : InOrder(E[n])'
      <3>1. \A n \in 0..L : InOrder(D[n])
        BY <1>1 DEF Explain
      <3>2. \A n \in 0..L : InOrder(E[n])'
        BY <1>2, <2>1, <3>1 DEF InOrder
      <3>3. InOrder(E[L + 1])'
        BY <1>5, <2>1 DEF InOrder
      <3>4. QED
        BY <1>2, <3>2, <3>3 DEF InOrder
    <2>3. \A n \in 1..(L + 1) : E[n - 1][pending'[n].at] = pending'[n].old
      <3>1. \A n \in 1..L : D[n - 1][pending[n].at] = pending[n].old
        BY <1>1 DEF Explain
      <3>2. \A n \in 1..L : E[n - 1][pending'[n].at] = pending'[n].old
        <4> TAKE n \in 1..L
        <4>1. n - 1 \in 0..L /\ E[n - 1] = D[n - 1] /\ pending'[n] = pending[n]
          BY <1>2, <1>7, <2>1, SMTT(20)
        <4>2. QED
          BY <3>1, <4>1
      <3>3. E[L] = file
        BY <1>2, <1>4, <2>1, SMTT(20)
      <3>4. QED
        BY <1>2, <1>6, <1>7, <3>2, <3>3
    <2>4. \A k, n \in 0..(L + 1), i \in 1..3 :
            k <= n /\ (\A m \in (k + 1)..n : pending'[m].at # i) => E[k][i] = E[n][i]
      <3> TAKE k, n \in 0..(L + 1), i \in 1..3
      <3> HAVE k <= n /\ \A m \in (k + 1)..n : pending'[m].at # i
      <3>1. \A l \in 0..L : k <= l /\ l <= n => E[k][i] = D[l][i]
        <4> SUFFICES ASSUME NEW l \in 0..L, k <= l, l <= n
                     PROVE  E[k][i] = D[l][i]
          OBVIOUS
        <4>1. \A m \in (k + 1)..l : pending[m].at # i
          BY <1>2, <1>7
        <4>2. k \in 0..L /\ E[k] = D[k]
          BY <1>2, <2>1
        <4>3. D[k][i] = D[l][i]
          BY <1>1, <4>1, <4>2, SameFile
        <4>4. QED
          BY <4>2, <4>3
      <3>2. CASE n <= L
        <4>1. E[k][i] = D[n][i] /\ E[n] = D[n]
          BY <1>2, <2>1, <3>1, <3>2
        <4>2. QED
          BY <4>1
      <3>3. CASE k = L + 1
        BY <3>3, <1>2
      <3>4. CASE n = L + 1 /\ k <= L
        <4>1. E[k][i] = file[i]
          BY <1>2, <1>4, <3>1, <3>4
        <4>2. at # i
          BY <1>2, <1>6, <1>7, <3>4
        <4>3. QED
          BY <1>2, <1>4, <2>1, <3>4, <4>1, <4>2 DEF Directory
      <3>5. QED
        BY <1>2, <3>2, <3>3, <3>4
    <2>5. Explain(E)'
      <3>1. E \in [0..Len(pending') -> Directory] /\ E[Len(pending')] = file'
        BY <1>7, <2>1, <2>1
      <3>2. \A n \in 0..Len(pending') : InOrder(E[n])'
        BY ONLY <1>7, <2>2, Zenon
      <3>3. \A n \in 1..Len(pending') : E[n - 1][pending'[n].at] = pending'[n].old
        BY ONLY <1>7, <2>3, Zenon
      <3>4. \A k, n \in 0..Len(pending'), i \in 1..3 :
              k <= n /\ (\A m \in (k + 1)..n : pending'[m].at # i) => E[k][i] = E[n][i]
        <4> TAKE k, n \in 0..Len(pending'), i \in 1..3
        <4> HAVE k <= n /\ \A m \in (k + 1)..n : pending'[m].at # i
        <4>1. k \in 0..(L + 1) /\ n \in 0..(L + 1)
          BY <1>7
        <4>2. QED
          BY <2>4, <4>1, Zenon
      <3>5. QED
        BY ONLY <3>1, <3>2, <3>3, <3>4, Zenon DEF Explain
    <2>6. \A n \in 1..(L + 1) : pending'[n].lost = FALSE
      BY <1>2, <1>6, <1>7 DEF IInv, PendingInv
    <2>7. QED
      BY <1>7, <2>5, <2>6 DEF PendingInv
  <1>9. TypeOK'
    <2>1. synced' \in BOOLEAN
      BY <1>3, Zenon
    <2>2. \A i \in DOMAIN Files : file'[i] \in Torn..report'
      BY <1>2, <1>5 DEF Directory, InOrder, Torn
    <2>3. QED
      BY <1>2, <2>1, <2>2 DEF TypeOK
  <1>10. SaveInv'
    BY <1>2, <1>4 DEF IInv, SaveInv, Directory
  <1>11. QED
    BY <1>8, <1>9, <1>10 DEF IInv

\* The oldest change reaches the disk: the others are explained as before.
LEMMA FlushIInv ==
  ASSUME IInv, Flush
  PROVE  IInv'
  <1>0. PICK L : L = Len(pending)
    OBVIOUS
  <1> USE <1>0
  <1>1. PICK D : Explain(D)
    BY DEF IInv, PendingInv
  <1>2. /\ pending \in Seq(Change) /\ pending # << >> /\ L \in Nat \ {0}
        /\ pending' = Tail(pending)
        /\ UNCHANGED <<file, attestations, report, at, step>>
    BY EmptySeq DEF IInv, PendingInv, Flush
  <1>3. synced' = synced
    BY Zenon DEF Flush
  <1>4. /\ pending' \in Seq(Change) /\ Len(pending') = L - 1
        /\ \A n \in 1..(L - 1) : pending'[n] = pending[n + 1]
    BY <1>2, HeadTailProperties
  <1>5. PendingInv'
    <2>0. PICK E : E = [n \in 0..(L - 1) |-> D[n + 1]]
      OBVIOUS
    <2>1. E \in [0..(L - 1) -> Directory] /\ \A n \in 0..(L - 1) : E[n] = D[n + 1]
      BY <1>1, <1>2, <2>0 DEF Explain
    <2>2. E[L - 1] = file'
      BY <1>1, <1>2, <2>1 DEF Explain
    <2>3. \A n \in 0..(L - 1) : InOrder(E[n])'
      <3>1. \A n \in 0..(L - 1) : InOrder(D[n + 1])
        BY <1>1, <1>2 DEF Explain
      <3>2. QED
        BY <1>2, <2>1, <3>1 DEF InOrder
    <2>4. \A n \in 1..(L - 1) : E[n - 1][pending'[n].at] = pending'[n].old
      <3>1. \A n \in 1..(L - 1) : D[n][pending[n + 1].at] = pending[n + 1].old
        BY <1>1, <1>2 DEF Explain
      <3>2. QED
        BY <1>2, <1>4, <2>1, <3>1
    <2>5. \A k, n \in 0..(L - 1), i \in 1..3 :
            k <= n /\ (\A m \in (k + 1)..n : pending'[m].at # i) => E[k][i] = E[n][i]
      <3> TAKE k, n \in 0..(L - 1), i \in 1..3
      <3> HAVE k <= n /\ \A m \in (k + 1)..n : pending'[m].at # i
      <3>1. \A m \in ((k + 1) + 1)..(n + 1) : pending[m].at # i
        <4> SUFFICES ASSUME NEW m \in ((k + 1) + 1)..(n + 1)
                     PROVE  pending[m].at # i
          OBVIOUS
        <4>1. m - 1 \in (k + 1)..n /\ m - 1 \in 1..(L - 1) /\ (m - 1) + 1 = m
          BY <1>2
        <4>2. QED
          BY <1>4, <4>1
      <3>2. k + 1 \in 0..L /\ n + 1 \in 0..L /\ k + 1 <= n + 1
        BY <1>2
      <3>3. D[k + 1][i] = D[n + 1][i]
        BY <1>1, <3>1, <3>2, SameFile
      <3>4. QED
        BY <2>1, <3>3
    <2>6. Explain(E)'
      <3>1. E \in [0..Len(pending') -> Directory] /\ E[Len(pending')] = file'
        BY <1>4, <2>1, <2>2
      <3>2. \A n \in 0..Len(pending') : InOrder(E[n])'
        BY ONLY <1>4, <2>3, Zenon
      <3>3. \A n \in 1..Len(pending') : E[n - 1][pending'[n].at] = pending'[n].old
        BY ONLY <1>4, <2>4, Zenon
      <3>4. \A k, n \in 0..Len(pending'), i \in 1..3 :
              k <= n /\ (\A m \in (k + 1)..n : pending'[m].at # i) => E[k][i] = E[n][i]
        <4> TAKE k, n \in 0..Len(pending'), i \in 1..3
        <4> HAVE k <= n /\ \A m \in (k + 1)..n : pending'[m].at # i
        <4>1. k \in 0..(L - 1) /\ n \in 0..(L - 1)
          BY <1>4
        <4>2. QED
          BY <2>5, <4>1, Zenon
      <3>5. QED
        BY ONLY <3>1, <3>2, <3>3, <3>4, Zenon DEF Explain
    <2>7. \A n \in 1..(L - 1) : pending'[n].lost = FALSE
      <3>1. \A n \in 1..L : pending[n].lost = FALSE
        BY DEF IInv, PendingInv
      <3>2. QED
        BY <1>2, <1>4, <3>1
    <2>8. QED
      BY <1>4, <2>6, <2>7 DEF PendingInv
  <1>6. TypeOK'
    <2>1. synced' \in BOOLEAN
      BY <1>3, Zenon DEF IInv, TypeOK
    <2>2. QED
      BY <1>2, <2>1 DEF IInv, TypeOK
  <1>7. SaveInv'
    <2>1. step' = "rename" => synced' = TRUE
      BY <1>2, <1>3 DEF IInv, SaveInv
    <2>2. QED
      BY <1>2, <2>1 DEF IInv, SaveInv
  <1>8. QED
    BY <1>5, <1>6, <1>7 DEF IInv

\* What comes back after a loss of power is one of the directories there were.
LEMMA LosePowerIInv ==
  ASSUME IInv, LosePower
  PROVE  IInv'
  <1> USE ThreeFiles
  <1> DEFINE Undone(k, i) == {n \in (k + 1)..Len(pending) : pending[n].at = i}
             Kept(k, i) == {n \in 1..k : pending[n].at = i}
             First(S) == CHOOSE n \in S : \A m \in S : n <= m
  <1>1. PICK D : Explain(D)
    BY DEF IInv, PendingInv
  <1>2. PICK k \in 0..Len(pending) :
          file' = [i \in 1..3 |->
            IF Undone(k, i) # {} THEN pending[First(Undone(k, i))].old
            ELSE IF \E n \in Kept(k, i) : pending[n].lost /\ \A m \in Kept(k, i) : m <= n
              THEN Torn ELSE file[i]]
    BY ZenonT(30) DEF LosePower
  <1>3. /\ Len(pending) \in Nat /\ report \in Nat /\ pending' = << >>
        /\ at' = 0 /\ step' = "create" /\ report' = report /\ attestations' = attestations
        /\ synced' = synced
    BY Zenon, LenProperties DEF LosePower, IInv, PendingInv, SaveInv
  <1>4. D[k] \in Directory /\ InOrder(D[k])
    BY <1>1, <1>2 DEF Explain
  <1>5. ASSUME NEW i \in 1..3
        PROVE  file'[i] = D[k][i]
    <2>1. CASE Undone(k, i) # {}
      <3>1. PICK n \in Undone(k, i) : /\ n = First(Undone(k, i))
                                      /\ \A m \in Undone(k, i) : n <= m
        <4>1. Undone(k, i) \in SUBSET Nat
          BY <1>3
        <4>2. \E n \in Undone(k, i) : \A m \in Undone(k, i) : n <= m
          BY <2>1, <4>1, LeastElement
        <4>3. QED
          BY <4>2, Zenon
      <3>2. file'[i] = pending[n].old
        BY <1>2, <2>1, <3>1, Zenon
      <3>3. n \in (k + 1)..Len(pending) /\ pending[n].at = i
        OBVIOUS
      <3>4. D[n - 1][i] = pending[n].old
        <4>1. n \in 1..Len(pending)
          BY <1>3, <3>3
        <4>2. D[n - 1][pending[n].at] = pending[n].old
          BY <1>1, <4>1, Zenon DEF Explain
        <4>3. QED
          BY <3>3, <4>2
      <3>5. D[k][i] = D[n - 1][i]
        <4>1. n - 1 \in 0..Len(pending) /\ k <= n - 1
          BY <1>3, <3>3
        <4>2. \A m \in (k + 1)..(n - 1) : pending[m].at # i
          <5> TAKE m \in (k + 1)..(n - 1)
          <5>1. m \in (k + 1)..Len(pending) /\ ~(n <= m)
            BY <1>3, <3>3
          <5>2. m \notin Undone(k, i)
            BY <3>1, <5>1, Zenon
          <5>3. QED
            BY <5>1, <5>2
        <4>3. QED
          BY <1>1, <4>1, <4>2, SameFile, ZenonT(40)
      <3>6. QED
        BY <3>2, <3>4, <3>5
    <2>2. CASE Undone(k, i) = {}
      <3>1. \A n \in Kept(k, i) : ~pending[n].lost
        <4>1. \A n \in 1..Len(pending) : ~pending[n].lost
          BY Zenon DEF IInv, PendingInv
        <4>2. \A n \in Kept(k, i) : n \in 1..Len(pending)
          BY <1>3
        <4>3. QED
          BY <4>1, <4>2, Zenon
      <3>2. file'[i] = file[i]
        BY <1>2, <2>2, <3>1, Zenon
      <3>3. D[Len(pending)] = file
        BY <1>1 DEF Explain
      <3>4. D[k][i] = D[Len(pending)][i]
        <4>1. /\ \A m \in (k + 1)..Len(pending) : pending[m].at # i
              /\ Len(pending) \in 0..Len(pending) /\ k <= Len(pending)
          BY <1>3, <2>2
        <4>2. QED
          BY <1>1, <4>1, SameFile
      <3>5. QED
        BY <3>2, <3>3, <3>4
    <2>3. QED
      BY <2>1, <2>2
  <1>6. file' = D[k]
    <2>1. D[k] = [i \in 1..3 |-> D[k][i]]
      BY <1>4 DEF Directory
    <2>2. file' = [i \in 1..3 |-> file'[i]]
      BY ONLY <1>2
    <2>3. QED
      BY ONLY <1>5, <2>1, <2>2
  <1>7. PendingInv'
    <2>0. PICK E : E = [n \in 0..0 |-> D[k]]
      OBVIOUS
    <2>1. E \in [0..0 -> Directory] /\ E[0] = D[k]
      BY <1>4, <2>0
    <2>2. Len(pending') = 0 /\ pending' \in Seq(Change)
      BY <1>3
    <2>3. InOrder(E[0])'
      BY <1>3, <1>4, <2>1 DEF InOrder
    <2>4. Explain(E)'
      BY <1>6, <2>1, <2>2, <2>3 DEF Explain
    <2>5. QED
      BY <2>2, <2>4 DEF PendingInv
  <1>8. TypeOK'
    <2>1. synced' \in BOOLEAN
      BY <1>3, Zenon DEF IInv, TypeOK
    <2>2. \A i \in DOMAIN Files : file'[i] \in Torn..report'
      BY <1>3, <1>4, <1>6 DEF Directory, InOrder, Torn
    <2>3. QED
      BY <1>3, <2>1, <2>2 DEF IInv, TypeOK
  <1>9. SaveInv'
    BY <1>3 DEF SaveInv
  <1>10. QED
    BY <1>7, <1>8, <1>9 DEF IInv

-----------------------------------------------------------------------------
LEMMA IInvHolds == Spec => []IInv
  <1>1. IInv /\ [Next]_vars => IInv'
    <2> SUFFICES ASSUME IInv, [Next]_vars PROVE IInv'
      OBVIOUS
    <2>1. CASE UNCHANGED vars
      <3>1. UNCHANGED <<file, attestations, report, at, step, pending>> /\ synced' = synced
        BY <2>1, Zenon DEF vars
      <3>2. PendingInv'
        <4>1. UNCHANGED <<file, pending>> /\ report' \in Nat /\ report <= report'
          BY <3>1 DEF IInv, SaveInv
        <4>2. QED
          BY <4>1, QuietPending
      <3>3. TypeOK' /\ SaveInv'
        BY <3>1, Zenon DEF IInv, TypeOK, SaveInv
      <3>4. QED
        BY <3>2, <3>3 DEF IInv
    <2>2. CASE Next
      BY <2>2, QuietIInv, RenameIInv, FlushIInv, LosePowerIInv DEF Next
    <2>3. QED
      BY <2>1, <2>2
  <1>2. QED
    BY <1>1, InitIInv, PTL DEF Spec

\* However many reports are written, every variable of the files has its type.
THEOREM ReportFilesTypeOK == Spec => []TypeOK
  <1>1. IInv => TypeOK
    BY DEF IInv
  <1>2. QED
    BY <1>1, IInvHolds, PTL

\* A reader of the files sees whole ones in order, whatever fails and however many
\* reports are written.
THEOREM ReportStaysWholeHolds == Spec => []ReportStaysWhole
  <1>1. IInv => ReportStaysWhole
    <2> SUFFICES ASSUME IInv PROVE ReportStaysWhole
      OBVIOUS
    <2>1. PICK D : Explain(D)
      BY DEF IInv, PendingInv
    <2>2. file \in Directory /\ InOrder(file)
      <3>1. Len(pending) \in 0..Len(pending)
        BY LenProperties DEF IInv, PendingInv
      <3>2. QED
        BY <2>1, <3>1 DEF Explain
    <2>3. QED
      BY <2>2, ThreeFiles DEF Directory, InOrder, ReportStaysWhole, Torn
  <1>2. QED
    BY <1>1, IInvHolds, PTL

=============================================================================
