----------------------------- MODULE BootSource ------------------------------
(***************************************************************************)
(* CheckStorage (internal/clustercheck, storage_check.go and the files that *)
(* read for it): what a preflight says of the disks of a test and of the    *)
(* boot images they are cloned from.                                        *)
(*                                                                          *)
(* It reads the cluster one object at a time and any read may fail, while   *)
(* CDI may be importing the image anew: when the default class changes it   *)
(* deletes the snapshot of the image, notes the new class at its            *)
(* DataImportCron, imports into a PVC of the same name and takes a snapshot *)
(* of the same name.  What is said of a source must nevertheless be true of  *)
(* the snapshot it was said of, and only a source that is missing, unready   *)
(* or forbidden may block a run.                                            *)
(***************************************************************************)
EXTENDS StorageClaims, FiniteSets

CONSTANTS
  Driver,      \* Driver[c]: the provisioner of class c
  Scratch,     \* the scratch class of the CDIConfig, None if there is none
  Situations,  \* what does not change during the check, as a set of records:
               \*   disks      the disks of the manifests: requests of StorageClaims, also
               \*              with expected (the class of the backend, if any), kind (of
               \*              the source, if any), cdi (it is a DataVolume), scratch (it
               \*              needs some) and space (its namespace: "source", that of
               \*              the images, "other" or "unknown")
               \*   class      of the first volume of the image: the one the snapshot
               \*              was taken of, or the PVC is bound to
               \*   content    whose the content is that this snapshot names: its "own",
               \*              or that of "another" snapshot
               \*   resolves   what the DataSource names: "snapshot", "pvc" or None
               \*   golden     the PVC of the sources of kind "pvc": "absent", "pending"
               \*              or "bound"
               \*   rights     what the user may do in the namespace of the images
  MaxRequests, \* bound: disks that are checked
  MaxImports   \* bound: volumes the image is imported into

Volumes == 1..MaxImports
Kinds == {"DataSource", "snapshot", "pvc"}
Rights == {"source", "pods", "pvcs"}
Spaces == {"source", "other", "unknown"}

BootSourceAssumption ==
  /\ None \notin Classes /\ NoName \notin Classes /\ None \notin Kinds
  /\ \A s \in Situations :
       /\ None \notin s.disks
       /\ \A r \in s.disks : r.kind \in Kinds \cup {None} /\ r.cdi \in BOOLEAN /\ r.space \in Spaces
       /\ s.class \in Classes /\ s.content \in {"own", "another"}
       /\ s.resolves \in {"snapshot", "pvc", None}
       /\ s.golden \in {"absent", "pending", "bound"}
  /\ MaxRequests \in Nat /\ MaxImports \in Nat \ {0}

VARIABLES
  (* the cluster: the image and its import *)
  owned,     \* the snapshot is labelled as an import of a DataImportCron
  snap,      \* the snapshot: the volume it was taken of (0: none), ready, deleting
  origin,    \* the volume of the PVC that the snapshot names as its source, 0 if gone
  volumes,   \* volumes[v]: the class of volume v, in the order of the imports
  phase,     \* of the import
  cron,      \* the class noted at the DataImportCron
  current,   \* the snapshot's name is still that of the cron's current import
  dsReady,   \* the DataSource is Ready
  given,     \* one of the Situations
  (* CheckStorage *)
  pc,
  request,   \* the request at hand
  checked,   \* the requests seen
  seen,      \* the snapshot as first read
  noted,     \* the class read from the cron, or the volume read from the PVC
  source,    \* the storageSource in the making: its class and driver
  sources,   \* sources[k]: the cached verdict on the source of kind k
  profiles,  \* profiles[c]: the cached outcome of reading c's profile
  config,    \* the cached outcome of reading the CDIConfig
  access,    \* the cached authorization findings, by kind and relation of namespaces
  findings   \* on the request at hand

image == <<owned, snap, origin, volumes, phase, cron, current, dsReady, given>>
inspection == <<seen, noted, source>>
caches == <<sources, profiles, config, access>>
vars == <<image, pc, request, checked, inspection, caches, findings>>

Unread == "unread"
NoSource == [class |-> None, driver |-> None]
NotInspected == [status |-> Unread, class |-> None, driver |-> None, volume |-> 0]
NoSnapshot == [volume |-> 0, ready |-> FALSE, deleting |-> FALSE]
Verdict(status) == [status |-> status, class |-> source.class, driver |-> source.driver,
                    volume |-> seen.volume]

Init ==
  /\ given \in Situations
  /\ volumes = <<given.class>>
  /\ owned \in BOOLEAN
  /\ snap = [volume |-> 1, ready |-> TRUE, deleting |-> FALSE]
  /\ origin = 1
  /\ phase = "steady"
  /\ cron = given.class
  /\ current = TRUE
  /\ dsReady = (given.resolves = "pvc" => given.golden = "bound")
  /\ pc = "list"
  /\ request = None
  /\ checked = {}
  /\ seen = NoSnapshot
  /\ noted = None
  /\ source = NoSource
  /\ sources = [k \in Kinds |-> NotInspected]
  /\ profiles = [c \in Classes |-> Unread]
  /\ config = Unread
  /\ access = [a \in Kinds \X Spaces |-> Unread]
  /\ findings = {}

-----------------------------------------------------------------------------
(* The cluster. *)

\* The default class changes, and CDI deletes the snapshot of the current import.
Outdate ==
  /\ owned /\ current
  /\ phase = "steady"
  /\ Len(volumes) < MaxImports
  /\ snap' = [snap EXCEPT !.deleting = TRUE]
  /\ phase' = "outdated"
  /\ UNCHANGED <<owned, origin, volumes, cron, current, dsReady, given>>

Remove ==
  /\ snap.deleting
  /\ snap' = NoSnapshot
  /\ UNCHANGED <<owned, origin, volumes, phase, cron, current, dsReady, given>>

\* The class is noted on the cron after the deletion was asked for; the import makes a
\* PVC that has the name of the one before it.
Reimport(c) ==
  /\ phase = "outdated"
  /\ cron' = c
  /\ volumes' = Append(volumes, c)
  /\ origin' = Len(volumes')
  /\ phase' = "imported"
  /\ UNCHANGED <<owned, snap, current, dsReady, given>>

TakeSnapshot ==
  /\ phase = "imported"
  /\ snap = NoSnapshot
  /\ snap' = [volume |-> Len(volumes), ready |-> FALSE, deleting |-> FALSE]
  /\ phase' = "taken"
  /\ UNCHANGED <<owned, origin, volumes, cron, current, dsReady, given>>

Ready ==
  /\ phase = "taken"
  /\ snap' = [snap EXCEPT !.ready = TRUE]
  /\ phase' = "steady"
  /\ UNCHANGED <<owned, origin, volumes, cron, current, dsReady, given>>

\* The status of the DataSource follows the snapshot at its own pace.
UpdateDataSource ==
  /\ given.resolves = "snapshot"
  /\ dsReady' = snap.ready
  /\ dsReady' # dsReady
  /\ UNCHANGED <<owned, snap, origin, volumes, phase, cron, current, given>>

\* The cron goes on to another image: it imports that under another name, on a class
\* that may change then, and keeps this snapshot.
NextImage(c) ==
  /\ owned
  /\ phase = "steady"
  /\ \/ current /\ current' = FALSE /\ UNCHANGED cron
     \/ ~current /\ cron' = c /\ UNCHANGED current
  /\ UNCHANGED <<owned, snap, origin, volumes, phase, dsReady, given>>

\* The PVC is deleted once the snapshot is taken.  A user who keeps a snapshot may as
\* well make another PVC of that name.
ReplaceOrigin(c) ==
  /\ phase = "steady"
  /\ \/ origin # 0 /\ origin' = 0 /\ UNCHANGED volumes
     \/ /\ ~owned /\ origin = 0 /\ Len(volumes) < MaxImports
        /\ volumes' = Append(volumes, c)
        /\ origin' = Len(volumes')
  /\ UNCHANGED <<owned, snap, phase, cron, current, dsReady, given>>

\* When it changes between two reads makes no difference: it does just before the next.
Reads == {"DataSource", "pvc", "snapshot", "content", "origin", "volume", "cron", "managed",
          "again"}
ClusterGoesOn ==
  /\ pc \in Reads
  /\ \/ Outdate \/ Remove \/ TakeSnapshot \/ Ready \/ UpdateDataSource
     \/ \E c \in Classes : Reimport(c) \/ NextImage(c) \/ ReplaceOrigin(c)
  /\ UNCHANGED <<pc, request, checked, inspection, caches, findings>>

-----------------------------------------------------------------------------
(* The target class and the claim of a request. *)

Say(level, about) == findings' = findings \cup {[level |-> level, about |-> about]}

\* The list of the classes: without it, one warning is all that is said.
ListStorageClasses ==
  /\ pc = "list"
  /\ pc' \in {"next", "over"}
  /\ UNCHANGED <<image, request, checked, inspection, caches, findings>>

\* A request is checked once.  Nothing more is said of one that gets no class.
TakeRequest(r) ==
  LET target == storageTarget(r)
  IN  /\ pc = "next"
      /\ r \notin checked
      /\ Cardinality(checked) < MaxRequests
      /\ request' = r
      /\ checked' = checked \cup {r}
      /\ pc' = IF target \in Classes THEN "claim" ELSE "next"
      /\ findings' = {[about |-> "target",
                       level |-> CASE target = None /\ r.expected = None -> "warn"
                           [] target \in Classes /\ r.expected \in {None, target} -> "info"
                           [] OTHER -> "error"]}
      /\ UNCHANGED <<image, inspection, caches>>

SourceNext == IF request.kind = None THEN "scratch" ELSE "inspect"

\* The first disk of a class that leaves something to CDI has its profile read, which
\* may be missing or fail to be read, for the others as well.
ReadProfile ==
  LET target == storageTarget(request)
      claim  == ArchiveClaim(request)
  IN  /\ pc = "claim"
      /\ request.storage /\ (claim.mode = None \/ claim.modes = {})
      /\ ~(request.archive /\ request.claim.mode = "Block")
      /\ profiles[target] = Unread
      /\ profiles' \in {[profiles EXCEPT ![target] = x] : x \in {"read", "missing", "failed"}}
      /\ UNCHANGED <<image, pc, request, checked, inspection, sources, config, access, findings>>

CheckClaim ==
  LET target == storageTarget(request)
      claim  == ArchiveClaim(request)
      filled == defaultStorageClaim(claim, Profile[target])
      asks   == request.storage /\ (claim.mode = None \/ claim.modes = {})
      answer == IF asks THEN profiles[target] ELSE "read"
  IN  /\ pc = "claim"
      /\ IF request.archive /\ request.claim.mode = "Block" /\ request.storage
           THEN pc' = "next" /\ Say("error", "claim")
           ELSE /\ answer # Unread
                /\ pc' = SourceNext
                /\ Say(CASE answer = "failed" -> "warn"
                         [] answer = "missing" -> "error"
                         [] answer = "read" ->
                              IF validateStorageClaim(IF asks THEN filled ELSE claim)
                                THEN "info" ELSE "error",
                       "claim")
      /\ UNCHANGED <<image, request, checked, inspection, caches>>

-----------------------------------------------------------------------------
(* inspectStorageSource: every read may fail.  A verdict is cached by source. *)

Idle == <<image, request, checked, profiles, config, access, findings>>

ConcludeWith(verdict) ==
  /\ sources' = [sources EXCEPT ![request.kind] = verdict]
  /\ pc' = "judge"
  /\ seen' = NoSnapshot
  /\ noted' = None
  /\ source' = NoSource
  /\ UNCHANGED Idle
Conclude(status) == ConcludeWith(Verdict(status))

Inspect ==
  /\ pc = "inspect"
  /\ pc' = IF sources[request.kind] # NotInspected THEN "judge" ELSE request.kind
  /\ UNCHANGED <<Idle, inspection, sources>>

\* A DataSource is Ready and names a PVC or a snapshot, or is not ready to be used.
ReadDataSource ==
  /\ pc = "DataSource"
  /\ \/ Conclude("failed")
     \/ (~dsReady \/ given.resolves = None) /\ Conclude("notReady")
     \/ /\ dsReady /\ given.resolves # None
        /\ pc' = given.resolves
        /\ UNCHANGED <<Idle, inspection, sources>>

ReadPVC ==
  /\ pc = "pvc"
  /\ \/ Conclude("failed")
     \/ given.golden = "absent" /\ Conclude("missing")
     \/ given.golden = "pending" /\ Conclude("notReady")
     \/ /\ given.golden = "bound"
        /\ ConcludeWith([Verdict("ready") EXCEPT !.class = given.class, !.volume = 1])

ReadSnapshot ==
  /\ pc = "snapshot"
  /\ \/ Conclude("failed")
     \/ snap.volume = 0 /\ Conclude("missing")
     \/ snap.volume # 0 /\ ~snap.ready /\ Conclude("notReady")
     \/ /\ snap.ready
        /\ seen' = snap
        /\ pc' = "content"
        /\ UNCHANGED <<Idle, sources, noted, source>>

\* inspectSnapshotVolume.  From here on what cannot be read is only noted, but a
\* content that names another snapshot makes this one unfit.  The content goes away
\* with its snapshot, and has no volume handle when it was made by hand.
ReadContent ==
  LET astray == given.content = "another" /\ seen.volume = 1
  IN  /\ pc = "content"
      /\ \/ pc' = "cron" /\ UNCHANGED <<Idle, inspection, sources>>
         \/ astray /\ Conclude("notReady")
         \/ /\ ~astray
            /\ seen.volume = snap.volume
            /\ source' = [source EXCEPT !.driver = Driver[volumes[seen.volume]]]
            /\ pc' \in {"origin"} \cup (IF owned THEN {} ELSE {"cron"})
            /\ UNCHANGED <<Idle, sources, seen, noted>>

ReadOrigin ==
  /\ pc = "origin"
  /\ \/ pc' = "cron" /\ UNCHANGED noted
     \/ origin # 0 /\ noted' = origin /\ pc' = "volume"
  /\ UNCHANGED <<Idle, sources, seen, source>>

\* The PVC may be another one of that name: its volume is compared with the content.
ReadVolume ==
  /\ pc = "volume"
  /\ \/ pc' = "cron" /\ UNCHANGED source
     \/ /\ noted = seen.volume
        /\ source' = [source EXCEPT !.class = volumes[noted]]
        /\ pc' = "conclude"
  /\ UNCHANGED <<Idle, sources, seen, noted>>

\* inferCDISnapshotClass: the cron's current import must be this snapshot.
ReadCron ==
  /\ pc = "cron"
  /\ \/ pc' = "conclude" /\ UNCHANGED noted
     \/ /\ owned /\ current /\ ~seen.deleting
        /\ noted' = cron
        /\ pc' = "managed"
  /\ UNCHANGED <<Idle, sources, seen, source>>

ReadManaged ==
  /\ pc = "managed"
  /\ \/ pc' = "conclude"
     \/ dsReady /\ given.resolves = "snapshot" /\ pc' = "again"
  /\ UNCHANGED <<Idle, sources, inspection>>

\* "A recreated snapshot must not inherit provenance from an earlier read."
\* Faulty variant: the snapshot is not compared with the one that was read first.
ReadAgainByName ==
  /\ pc = "again"
  /\ pc' = "conclude"
  /\ \/ UNCHANGED source
     \/ snap.ready /\ ~snap.deleting /\ source' = [source EXCEPT !.class = noted]
  /\ UNCHANGED <<Idle, sources, seen, noted>>
ReadAgain ==
  /\ pc = "again"
  /\ pc' = "conclude"
  /\ \/ UNCHANGED source
     \/ /\ snap.volume = seen.volume
        /\ snap.ready /\ ~snap.deleting
        /\ source' = [source EXCEPT !.class = noted]
  /\ UNCHANGED <<Idle, sources, seen, noted>>

ConcludeSnapshot == pc = "conclude" /\ Conclude("ready")

-----------------------------------------------------------------------------
(* What is said of the source, and of scratch space. *)

\* checkCDICloneAccess: either the right to clone, or to make a pod of one's own there
\* (and, for a snapshot, a PVC).  A review may fail.
Answers == {"allowed", "denied", "failed"}
Review == {a \in [Rights -> Answers] :
             \A x \in Rights : a[x] \in {IF x \in given.rights THEN "allowed" ELSE "denied", "failed"}}
CloneAccess(kind, a) ==
  LET last == IF kind = "pvc" \/ a["pods"] # "allowed" THEN a["pods"] ELSE a["pvcs"]
  IN  CASE "allowed" \in {a["source"], last} -> "info"
        [] a["source"] = "denied" /\ last = "denied" -> "error"
        [] OTHER -> "warn"

SourceKind == IF request.kind = "DataSource" THEN given.resolves ELSE request.kind
\* Faulty variant: the finding is kept by source alone.
AccessKeyBySource == <<SourceKind, "source">>
AccessKey == <<SourceKind, request.space>>

ReviewAccess ==
  /\ pc = "judge"
  /\ sources[request.kind].status = "ready"
  /\ request.cdi
  /\ access[AccessKey] = Unread
  /\ \E a \in Review :
       access' = [access EXCEPT ![AccessKey] =
                    CASE request.space = "unknown" -> "warn"
                      [] request.space = "source" -> "info"
                      [] OTHER -> CloneAccess(SourceKind, a)]
  /\ UNCHANGED <<image, pc, request, checked, inspection, sources, profiles, config, findings>>

\* A source of which nothing is known for sure is a matter for a warning.
SourceLevel(verdict, target) ==
  IF verdict.status \in {"missing", "notReady"} THEN "error"
  ELSE IF verdict.status = "ready" /\ verdict.class = target THEN "info"
  ELSE "warn"
DriverLevel(verdict, target) ==
  IF verdict.driver = Driver[target] THEN "info"
  ELSE IF request.cdi THEN "warn"
  ELSE "error"

Judge ==
  LET target  == storageTarget(request)
      verdict == sources[request.kind]
      ready   == verdict.status = "ready"
      levels  == [about \in {"source"} \cup (IF ready THEN {"access"} ELSE {})
                           \cup (IF ready /\ verdict.driver # None THEN {"driver"} ELSE {}) |->
        CASE about = "source" -> SourceLevel(verdict, target)
          [] about = "driver" -> DriverLevel(verdict, target)
          [] about = "access" -> IF request.cdi THEN access[AccessKey] ELSE "warn"]
  IN  /\ pc = "judge"
      /\ ready /\ request.cdi => access[AccessKey] # Unread
      /\ findings' = findings \cup {[level |-> levels[about], about |-> about] : about \in DOMAIN levels}
      /\ pc' = "scratch"
      /\ UNCHANGED <<image, request, checked, inspection, caches>>

CheckScratch ==
  /\ pc = "scratch"
  /\ pc' = "next"
  /\ config' \in IF request.scratch /\ config = Unread THEN {"read", "failed"} ELSE {config}
  /\ IF request.scratch
       THEN Say(CASE config' = "failed" -> "warn"
                  [] config' = "read" /\ Scratch \in Classes \cup {None} -> "info"
                  [] OTHER -> "error",
                "scratch")
       ELSE UNCHANGED findings
  /\ UNCHANGED <<image, request, checked, inspection, sources, profiles, access>>

Check ==
  \/ ListStorageClasses
  \/ \E r \in given.disks : TakeRequest(r)
  \/ ReadProfile
  \/ CheckClaim
  \/ Inspect
  \/ ReadDataSource
  \/ ReadPVC
  \/ ReadSnapshot
  \/ ReadContent
  \/ ReadOrigin
  \/ ReadVolume
  \/ ReadCron
  \/ ReadManaged
  \/ ReadAgain
  \/ ConcludeSnapshot
  \/ ReviewAccess
  \/ Judge
  \/ CheckScratch

Next == ClusterGoesOn \/ Check

Spec == Init /\ [][Next]_vars

-----------------------------------------------------------------------------
(* Properties. *)

\* Types; and while a source is looked at, no verdict on it is in the cache.
TypeOK ==
  /\ snap.volume \in 0..Len(volumes) /\ origin \in 0..Len(volumes)
  /\ volumes \in Seq(Classes) /\ cron \in Classes
  /\ phase \in {"steady", "outdated", "imported", "taken"}
  /\ request \in given.disks \cup {None}
  /\ checked \subseteq given.disks /\ Cardinality(checked) <= MaxRequests
  /\ \A f \in findings :
       /\ f.level \in {"info", "warn", "error"}
       /\ f.about \in {"target", "claim", "source", "driver", "access", "scratch"}
  /\ pc \in Reads => request # None /\ sources[request.kind].status = Unread

\* What is said of the class of a source is true of the PVC, or of the snapshot that
\* was found ready, though a new one of that name, a new PVC of the name it was taken from or a
\* new annotation of the cron may have been read on the way.
SourceClassIsTrue ==
  \A k \in Kinds :
    sources[k].class # None =>
      sources[k].class = volumes[sources[k].volume]

\* A boot source blocks a run only if it is missing or unready, forbidden, or of
\* another driver where nothing could copy it; and the right to clone it is neither
\* denied nor granted by the answer to the question of another namespace.  A snapshot
\* whose content names another one blocks, too (inspectSnapshotVolume), although
\* "unknown or inconsistent provenance produces a warning" (docs/storage-preflight.md):
\* no other inconsistency does.
OnlyFaultsBlock ==
  \A f \in findings :
    LET kind    == IF request.kind = "DataSource" THEN given.resolves ELSE request.kind
        granted == \/ "source" \in given.rights
                   \/ "pods" \in given.rights /\ (kind = "pvc" \/ "pvcs" \in given.rights)
        sound   == CASE kind = "pvc" -> given.golden = "bound"
                     [] kind = "snapshot" ->
                          phase = "steady" /\ snap.volume = 1 /\ given.content = "own"
                     [] OTHER -> FALSE
    IN  /\ f.about = "source" /\ f.level = "error" => ~sound
        /\ f.about = "driver" /\ f.level = "error" => ~request.cdi
        /\ f.about = "access" /\ f.level = "error" => request.space = "other" /\ ~granted
        /\ f.about = "access" /\ f.level = "info" =>
             request.space = "source" \/ (request.space = "other" /\ granted)

=============================================================================
