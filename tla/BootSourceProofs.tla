-------------------------- MODULE BootSourceProofs --------------------------
(***************************************************************************)
(* Theorems about BootSource, for any classes, situations, requests and    *)
(* imports.  The argument about the class of a snapshot is that the        *)
(* volumes of the image are imported in an order, so that a snapshot that  *)
(* was read before an import is gone, or going, for as long as it can      *)
(* still be taken for the one that follows it.                             *)
(***************************************************************************)
EXTENDS BootSource, FiniteSetTheorems, TLAPS

\* Control states: after the snapshot has been read; while a source is looked at; all.
ToRead == {"content", "origin", "volume", "cron", "managed", "again", "conclude"}
Inspected == {"DataSource", "pvc", "snapshot"} \cup ToRead
PCs == {"list", "over", "next", "claim", "inspect", "judge", "scratch"} \cup Inspected

\* The image: where its import has come to shows in the snapshot.
ImageInv ==
  /\ volumes \in Seq(Classes) /\ Len(volumes) \in 1..MaxImports
  /\ snap \in [volume : 0..Len(volumes), ready : BOOLEAN, deleting : BOOLEAN]
  /\ snap.ready => snap.volume # 0
  /\ origin \in 0..Len(volumes)
  /\ cron \in Classes
  /\ phase \in {"steady", "outdated", "imported", "taken"}
  /\ given \in Situations
  /\ volumes[1] = given.class
  /\ ~owned => phase = "steady"
  /\ phase = "steady" => /\ snap.volume # 0 /\ snap.ready /\ ~snap.deleting
                         /\ owned => snap.volume = Len(volumes)
  /\ phase = "outdated" => Len(volumes) < MaxImports /\ (snap = NoSnapshot \/ snap.deleting)
  /\ phase = "imported" => snap = NoSnapshot \/ (snap.deleting /\ snap.volume < Len(volumes))
  /\ phase = "taken" => snap.volume = Len(volumes) /\ ~snap.ready /\ ~snap.deleting
  /\ phase \in {"imported", "taken"} => Len(volumes) > 1
  /\ phase # "steady" => current
  /\ owned /\ current => cron = volumes[Len(volumes)]

\* The snapshot is not the first one, or will not be for long; a DataSource that is not
\* Ready tells so.
Changed == phase # "steady" \/ snap.volume # 1
DataSourceInv ==
  /\ given.resolves = "snapshot" /\ ~dsReady => Changed
  /\ given.resolves = "pvc" => (dsReady <=> given.golden = "bound")

\* The snapshot that was read is gone, or going.
Lost == snap.volume # seen.volume \/ snap.deleting

\* What is known of the snapshot that was read: the class noted from the cron is that of
\* its volume as long as it is not lost.
SeenInv ==
  /\ pc \in ToRead => seen.volume \in 1..Len(volumes)
  /\ pc \notin ToRead => seen = NoSnapshot /\ noted = None /\ source = NoSource
  /\ pc \in ToRead /\ phase = "imported" => seen.volume < Len(volumes)
  /\ pc = "volume" => noted \in 1..Len(volumes)
  /\ pc \in {"managed", "again"} => owned /\ (noted = volumes[seen.volume] \/ Lost)
  /\ source = [class |-> source.class, driver |-> source.driver]
  /\ source.class # None =>
       seen.volume \in 1..Len(volumes) /\ source.class = volumes[seen.volume]

\* The kind of source that a disk of kind k is made from, and whether it can be used.
OfKind(k) == IF k = "DataSource" THEN given.resolves ELSE k
Sound(k) ==
  \/ k = "pvc" /\ given.golden = "bound"
  \/ k = "snapshot" /\ ~Changed /\ given.content = "own"
Granted(k) ==
  \/ "source" \in given.rights
  \/ "pods" \in given.rights /\ (k = "pvc" \/ "pvcs" \in given.rights)

\* The request at hand, and which source it is whose verdict is still open.
RequestInv ==
  /\ pc \in PCs
  /\ request \in given.disks \cup {None}
  /\ checked \subseteq given.disks /\ IsFiniteSet(checked) /\ Cardinality(checked) <= MaxRequests
  /\ pc \notin {"list", "over", "next"} =>
       request \in given.disks /\ storageTarget(request) \in Classes
  /\ pc \in {"inspect", "judge"} \cup Inspected => request.kind \in Kinds
  /\ pc \in {"snapshot"} \cup ToRead => OfKind(request.kind) = "snapshot"
  /\ pc = "pvc" => OfKind(request.kind) = "pvc"
  /\ pc = "DataSource" => request.kind = "DataSource"
  /\ pc \in Inspected => sources[request.kind].status = Unread

\* The cached verdicts: what blocks a run was true, and will be.
SourcesInv ==
  /\ sources = [k \in Kinds |-> sources[k]]
  /\ \A k \in Kinds :
       /\ sources[k].class # None => /\ sources[k].volume \in 1..Len(volumes)
                                     /\ sources[k].class = volumes[sources[k].volume]
       /\ sources[k].status \in {"missing", "notReady"} => ~Sound(OfKind(k))
       /\ sources[k].status = "ready" => OfKind(k) \in {"snapshot", "pvc"}

\* The other caches.
Levels == {"info", "warn", "error"}
CachesInv ==
  /\ profiles \in [Classes -> {Unread, "read", "missing", "failed"}]
  /\ access \in [Kinds \X Spaces -> Levels \cup {Unread}]
  /\ \A k \in {"snapshot", "pvc"}, s \in Spaces :
       /\ access[<<k, s>>] = "error" => s = "other" /\ ~Granted(k)
       /\ access[<<k, s>>] = "info" => s = "source" \/ (s = "other" /\ Granted(k))

\* What is said of the request at hand.
FindingsInv ==
  \A f \in findings :
    /\ request \in given.disks
    /\ f.level \in Levels
    /\ f.about \in {"target", "claim", "source", "driver", "access", "scratch"}
    /\ f.about = "source" /\ f.level = "error" => ~Sound(OfKind(request.kind))
    /\ f.about = "driver" /\ f.level = "error" => ~request.cdi
    /\ f.about = "access" /\ f.level = "error" =>
         request.space = "other" /\ ~Granted(OfKind(request.kind))
    /\ f.about = "access" /\ f.level = "info" =>
         request.space = "source" \/ (request.space = "other" /\ Granted(OfKind(request.kind)))

IInv ==
  /\ ImageInv
  /\ DataSourceInv
  /\ SeenInv
  /\ RequestInv
  /\ SourcesInv
  /\ CachesInv
  /\ FindingsInv

-----------------------------------------------------------------------------
LEMMA GivenFacts ==
  ASSUME BootSourceAssumption, given \in Situations
  PROVE  /\ None \notin Classes /\ None \notin Kinds /\ None \notin given.disks
         /\ \A r \in given.disks :
              r.kind \in Kinds \cup {None} /\ r.cdi \in BOOLEAN /\ r.space \in Spaces
         /\ given.class \in Classes
         /\ given.resolves \in {"snapshot", "pvc", None}
         /\ MaxRequests \in Nat /\ MaxImports \in Nat \ {0}
  BY DEF BootSourceAssumption

LEMMA InitIInv ==
  ASSUME BootSourceAssumption, Init
  PROVE  IInv
  <1>1. given \in Situations
    BY DEF Init
  <1>2. /\ volumes = <<given.class>> /\ volumes \in Seq(Classes)
        /\ Len(volumes) = 1 /\ volumes[1] = given.class
    BY <1>1, GivenFacts DEF Init
  <1>3. ImageInv
    BY <1>1, <1>2, GivenFacts DEF Init, ImageInv
  <1>4. DataSourceInv
    BY DEF Init, DataSourceInv
  <1>5. SeenInv
    BY <1>2 DEF Init, SeenInv, ToRead, NoSource
  <1>6. RequestInv
    <2>1. IsFiniteSet({}) /\ Cardinality({}) = 0
      BY FS_EmptySet
    <2>2. QED
      BY <1>1, <2>1, GivenFacts DEF Init, RequestInv, PCs, Inspected, ToRead
  <1>7. SourcesInv
    BY DEF Init, SourcesInv, NotInspected, Unread
  <1>8. CachesInv
    BY DEF Init, CachesInv, Unread, Kinds, Levels
  <1>9. FindingsInv
    BY DEF Init, FindingsInv
  <1>10. QED
    BY <1>3, <1>4, <1>5, <1>6, <1>7, <1>8, <1>9 DEF IInv

-----------------------------------------------------------------------------
(* The cluster goes on. *)

\* The volumes are imported one after the other, and keep their classes.
Grown ==
  /\ volumes' \in Seq(Classes)
  /\ Len(volumes') >= Len(volumes)
  /\ \A v \in 1..Len(volumes) : volumes'[v] = volumes[v]

\* What the import of the image and its user may make of it.
ImageGoesOn ==
  \/ Outdate \/ Remove \/ TakeSnapshot \/ Ready \/ UpdateDataSource
  \/ \E c \in Classes : Reimport(c) \/ NextImage(c) \/ ReplaceOrigin(c)

LEMMA AppendFacts ==
  ASSUME ImageInv, NEW c \in Classes, volumes' = Append(volumes, c)
  PROVE  /\ Grown
         /\ Len(volumes') = Len(volumes) + 1
         /\ volumes'[Len(volumes')] = c
  BY DEF ImageInv, Grown

LEMMA VolumesGrow ==
  ASSUME ImageInv, ImageGoesOn
  PROVE  /\ Grown
         /\ owned' = owned /\ given' = given
  <1>1. CASE UNCHANGED volumes
    BY <1>1 DEF Grown, ImageInv, ImageGoesOn, Outdate, Remove, TakeSnapshot, Ready,
       UpdateDataSource, Reimport, NextImage, ReplaceOrigin
  <1>2. ASSUME NEW c \in Classes, Reimport(c)
        PROVE  Grown /\ owned' = owned /\ given' = given
    BY <1>2, AppendFacts DEF Reimport
  <1>3. ASSUME NEW c \in Classes, ReplaceOrigin(c)
        PROVE  Grown /\ owned' = owned /\ given' = given
    BY <1>1, <1>3, AppendFacts DEF ReplaceOrigin
  <1>4. QED
    BY <1>1, <1>2, <1>3
    DEF ImageGoesOn, Outdate, Remove, TakeSnapshot, Ready, UpdateDataSource, NextImage

\* A snapshot that has changed stays so, and one that is lost is never found again.
LEMMA ImageStep ==
  ASSUME BootSourceAssumption, ImageInv, DataSourceInv, ImageGoesOn
  PROVE  /\ ImageInv' /\ DataSourceInv'
         /\ Changed => Changed'
  <1> USE GivenFacts
  <1>1. CASE Outdate
    BY <1>1 DEF Outdate, ImageInv, DataSourceInv, Changed
  <1>2. CASE Remove
    BY <1>2 DEF Remove, ImageInv, DataSourceInv, Changed, NoSnapshot
  <1>3. CASE TakeSnapshot
    BY <1>3 DEF TakeSnapshot, ImageInv, DataSourceInv, Changed, NoSnapshot
  <1>4. CASE Ready
    <2>1. /\ snap' \in [volume : 0..Len(volumes), ready : BOOLEAN, deleting : BOOLEAN]
          /\ snap'.volume = Len(volumes) /\ snap'.ready /\ ~snap'.deleting
      BY <1>4 DEF Ready, ImageInv
    <2>2. Changed /\ Changed'
      BY <1>4, <2>1 DEF Ready, ImageInv, Changed
    <2>3. QED
      BY <1>4, <2>1, <2>2 DEF Ready, ImageInv, DataSourceInv
  <1>5. CASE UpdateDataSource
    BY <1>5 DEF UpdateDataSource, ImageInv, DataSourceInv, Changed
  <1>6. ASSUME NEW c \in Classes, Reimport(c)
        PROVE  ImageInv' /\ DataSourceInv' /\ (Changed => Changed')
    <2>1. /\ Grown /\ Len(volumes') = Len(volumes) + 1
          /\ volumes'[Len(volumes')] = c
      BY <1>6, AppendFacts DEF Reimport
    <2>2. Len(volumes') \in 1..MaxImports
      BY <1>6, <2>1 DEF Reimport, ImageInv
    <2>3. QED
      BY <1>6, <2>1, <2>2 DEF Reimport, ImageInv, DataSourceInv, Changed, Grown, NoSnapshot
  <1>7. ASSUME NEW c \in Classes, NextImage(c)
        PROVE  ImageInv' /\ DataSourceInv' /\ (Changed => Changed')
    BY <1>7 DEF NextImage, ImageInv, DataSourceInv, Changed
  <1>8. ASSUME NEW c \in Classes, ReplaceOrigin(c)
        PROVE  ImageInv' /\ DataSourceInv' /\ (Changed => Changed')
    <2>1. CASE UNCHANGED volumes
      BY <1>8, <2>1 DEF ReplaceOrigin, ImageInv, DataSourceInv, Changed
    <2>2. CASE ~owned /\ Len(volumes) < MaxImports /\ volumes' = Append(volumes, c)
                 /\ origin' = Len(volumes')
      <3>1. /\ Grown /\ Len(volumes') = Len(volumes) + 1
        BY <2>2, AppendFacts
      <3>2. QED
        BY <1>8, <2>2, <3>1 DEF ReplaceOrigin, ImageInv, DataSourceInv, Changed, Grown
    <2>3. QED
      BY <1>8, <2>1, <2>2 DEF ReplaceOrigin
  <1>9. QED
    BY <1>1, <1>2, <1>3, <1>4, <1>5, <1>6, <1>7, <1>8 DEF ImageGoesOn

\* What was read of a snapshot that is lost by now, or was its class, still was.
LEMMA ImageSeen ==
  ASSUME BootSourceAssumption, ImageInv, SeenInv, ImageGoesOn,
         UNCHANGED <<pc, inspection>>
  PROVE  SeenInv'
  <1>1. Grown /\ owned' = owned
    BY VolumesGrow
  <1>2. Len(volumes) \in Nat /\ Len(volumes') \in Nat
    BY <1>1 DEF Grown, ImageInv
  <1>3. /\ seen' = seen /\ noted' = noted /\ source' = source /\ pc' = pc
    BY DEF inspection
  <1>4. \A v \in 1..Len(volumes) : v \in 1..Len(volumes') /\ volumes'[v] = volumes[v]
    BY <1>1, <1>2 DEF Grown
  <1>5. ASSUME pc \in ToRead, phase' = "imported"
        PROVE  seen.volume < Len(volumes')
    <2>1. CASE phase = "imported"
      BY <1>1, <1>2, <1>5, <2>1 DEF SeenInv, Grown
    <2>2. CASE phase # "imported"
      <3>1. PICK c \in Classes : Reimport(c)
        BY <1>5, <2>2 DEF ImageGoesOn, Outdate, Remove, TakeSnapshot, Ready, UpdateDataSource,
           NextImage, ReplaceOrigin
      <3>2. Len(volumes') = Len(volumes) + 1
        BY <3>1, AppendFacts DEF Reimport
      <3>3. QED
        BY <1>2, <1>5, <3>2 DEF SeenInv
    <2>3. QED
      BY <2>1, <2>2
  <1>6. ASSUME pc \in ToRead, Lost
        PROVE  Lost'
    <2>1. seen.volume \in 1..Len(volumes)
      BY <1>6 DEF SeenInv
    <2>2. CASE Outdate
      BY <1>3, <1>6, <2>2 DEF Outdate, Lost, ImageInv
    <2>3. CASE Remove
      BY <1>3, <2>1, <2>3 DEF Remove, Lost, NoSnapshot
    <2>4. CASE TakeSnapshot
      <3>1. snap'.volume = Len(volumes) /\ phase = "imported"
        BY <2>4 DEF TakeSnapshot
      <3>2. seen.volume < Len(volumes)
        BY <1>6, <3>1 DEF SeenInv
      <3>3. QED
        BY <1>2, <1>3, <2>1, <3>1, <3>2 DEF Lost
    <2>5. CASE Ready
      <3>1. snap'.volume = snap.volume /\ snap'.deleting = snap.deleting
        BY <2>5 DEF Ready, ImageInv
      <3>2. QED
        BY <1>3, <1>6, <3>1 DEF Lost
    <2>6. CASE UNCHANGED snap
      BY <1>3, <1>6, <2>6 DEF Lost
    <2>7. QED
      BY <2>2, <2>3, <2>4, <2>5, <2>6
      DEF ImageGoesOn, UpdateDataSource, Reimport, NextImage, ReplaceOrigin
  <1>7. pc \in {"managed", "again"} => pc \in ToRead
    BY DEF ToRead
  <1>8. ASSUME pc \in {"managed", "again"}
        PROVE  owned /\ (noted = volumes'[seen.volume] \/ Lost')
    BY <1>4, <1>6, <1>7, <1>8 DEF SeenInv
  <1>9. pc = "volume" => noted \in 1..Len(volumes')
    BY <1>4 DEF SeenInv
  <1>10. source.class # None =>
           seen.volume \in 1..Len(volumes') /\ source.class = volumes'[seen.volume]
    BY <1>4 DEF SeenInv
  <1>11. pc \in ToRead => seen.volume \in 1..Len(volumes')
    BY <1>4 DEF SeenInv
  <1>12. QED
    BY <1>1, <1>3, <1>5, <1>8, <1>9, <1>10, <1>11 DEF SeenInv

LEMMA ClusterIInv ==
  ASSUME BootSourceAssumption, IInv, ClusterGoesOn
  PROVE  IInv'
  <1>1. /\ ImageGoesOn
        /\ UNCHANGED <<pc, request, checked, inspection, caches, findings>>
    BY DEF ClusterGoesOn, ImageGoesOn
  <1>2. ImageInv' /\ DataSourceInv' /\ (Changed => Changed')
    BY <1>1, ImageStep DEF IInv
  <1>3. Grown /\ given' = given
    BY <1>1, VolumesGrow DEF IInv
  <1>4. SeenInv'
    BY <1>1, ImageSeen DEF IInv
  <1>5. /\ \A k : OfKind(k)' = OfKind(k)
        /\ \A k : Granted(k)' = Granted(k)
    BY <1>3 DEF OfKind, Granted
  <1>6. \A k : Sound(k)' => Sound(k)
    BY <1>2, <1>3 DEF Sound
  <1>7. RequestInv'
    BY <1>1, <1>3, <1>5 DEF IInv, RequestInv, caches
  <1>8. \A v \in 1..Len(volumes) : v \in 1..Len(volumes') /\ volumes'[v] = volumes[v]
    BY <1>3 DEF Grown, IInv, ImageInv
  <1>9. SourcesInv'
    <2>1. sources' = sources
      BY <1>1 DEF caches
    <2>2. QED
      BY <1>5, <1>6, <1>8, <2>1 DEF IInv, SourcesInv
  <1>10. CachesInv'
    <2>1. profiles' = profiles /\ access' = access
      BY <1>1 DEF caches
    <2>2. QED
      BY <1>5, <2>1 DEF IInv, CachesInv
  <1>11. FindingsInv'
    BY <1>1, <1>3, <1>5, <1>6 DEF IInv, FindingsInv
  <1>12. QED
    BY <1>2, <1>4, <1>7, <1>9, <1>10, <1>11 DEF IInv

-----------------------------------------------------------------------------
(* The check. *)

\* While the image stays as it is read, what is true of it stays true.
LEMMA ImageFrame ==
  ASSUME IInv, UNCHANGED image
  PROVE  /\ ImageInv' /\ DataSourceInv'
         /\ \A k : OfKind(k)' = OfKind(k) /\ Granted(k)' = Granted(k) /\ Sound(k)' = Sound(k)
         /\ volumes' = volumes /\ given' = given
  BY DEF IInv, image, ImageInv, DataSourceInv, OfKind, Granted, Sound, Changed

\* A step that only goes on, among the states in which no source is looked at.
LEMMA Elsewhere ==
  ASSUME IInv, UNCHANGED <<image, inspection>>, pc \notin ToRead, pc' \notin ToRead
  PROVE  SeenInv'
  <1>1. seen' = seen /\ noted' = noted /\ source' = source /\ UNCHANGED <<volumes, phase>>
    BY DEF inspection, image
  <1>2. pc' # "volume" /\ pc' \notin {"managed", "again"}
    BY DEF ToRead
  <1>3. QED
    BY <1>1, <1>2 DEF IInv, SeenInv

LEMMA CachesFrame ==
  ASSUME IInv, UNCHANGED image, UNCHANGED <<profiles, access>>
  PROVE  CachesInv'
  BY ImageFrame DEF IInv, CachesInv

LEMMA SourcesFrame ==
  ASSUME IInv, UNCHANGED image, UNCHANGED sources
  PROVE  SourcesInv'
  BY ImageFrame DEF IInv, SourcesInv

LEMMA FindingsFrame ==
  ASSUME IInv, UNCHANGED image, UNCHANGED <<request, findings>>
  PROVE  FindingsInv'
  BY ImageFrame DEF IInv, FindingsInv

LEMMA ListIInv ==
  ASSUME BootSourceAssumption, IInv, ListStorageClasses
  PROVE  IInv'
  <1>1. /\ pc = "list" /\ pc' \in {"next", "over"}
        /\ UNCHANGED <<image, request, checked, inspection, caches, findings>>
    BY DEF ListStorageClasses
  <1>2. RequestInv'
    BY <1>1, ImageFrame DEF IInv, RequestInv, PCs, Inspected, ToRead, image
  <1>3. QED
    BY <1>1, <1>2, ImageFrame, Elsewhere, CachesFrame, SourcesFrame, FindingsFrame
    DEF IInv, ToRead, caches

LEMMA TakeRequestIInv ==
  ASSUME BootSourceAssumption, IInv, NEW r \in given.disks, TakeRequest(r)
  PROVE  IInv'
  <1>1. /\ pc = "next" /\ r \notin checked /\ Cardinality(checked) < MaxRequests
        /\ request' = r /\ checked' = checked \cup {r}
        /\ pc' = IF storageTarget(r) \in Classes THEN "claim" ELSE "next"
        /\ UNCHANGED <<image, inspection, caches>>
    BY DEF TakeRequest
  <1>2. /\ IsFiniteSet(checked') /\ Cardinality(checked') <= MaxRequests
    <2>1. IsFiniteSet(checked) /\ Cardinality(checked) \in Nat
      BY FS_CardinalityType DEF IInv, RequestInv
    <2>2. IsFiniteSet(checked') /\ Cardinality(checked') = Cardinality(checked) + 1
      BY <1>1, <2>1, FS_AddElement
    <2>3. MaxRequests \in Nat
      BY DEF BootSourceAssumption
    <2>4. QED
      BY <1>1, <2>1, <2>2, <2>3
  <1>3. given' = given /\ sources' = sources
    BY <1>1 DEF image, caches
  <1>4. RequestInv'
    BY <1>1, <1>2, <1>3 DEF IInv, RequestInv, PCs, Inspected, ToRead
  <1>5. \E level \in Levels : findings' = {[about |-> "target", level |-> level]}
    BY DEF TakeRequest, Levels
  <1>6. FindingsInv'
    BY <1>1, <1>3, <1>5 DEF FindingsInv
  <1>7. QED
    BY <1>1, <1>3, <1>4, <1>6, ImageFrame, Elsewhere, CachesFrame, SourcesFrame
    DEF IInv, ToRead, caches

LEMMA ReadProfileIInv ==
  ASSUME BootSourceAssumption, IInv, ReadProfile
  PROVE  IInv'
  <1>1. /\ pc = "claim"
        /\ UNCHANGED <<image, pc, request, checked, inspection, sources, config, access, findings>>
        /\ \E x \in {"read", "missing", "failed"} :
             profiles' = [profiles EXCEPT ![storageTarget(request)] = x]
    BY DEF ReadProfile
  <1>2. RequestInv'
    BY <1>1, ImageFrame DEF IInv, RequestInv, OfKind, image
  <1>3. CachesInv'
    <2>1. profiles' \in [Classes -> {Unread, "read", "missing", "failed"}]
      BY <1>1 DEF IInv, CachesInv
    <2>2. QED
      BY <1>1, <2>1, ImageFrame DEF IInv, CachesInv
  <1>4. QED
    BY <1>1, <1>2, <1>3, ImageFrame, Elsewhere, SourcesFrame, FindingsFrame
    DEF IInv, ToRead

\* A finding that is no verdict on a source.
LEMMA SayFindings ==
  ASSUME IInv, UNCHANGED <<image, request>>, pc \notin {"list", "over", "next"},
         NEW level \in Levels, NEW about \in {"claim", "scratch"}, Say(level, about)
  PROVE  FindingsInv'
  <1>1. request \in given.disks /\ request' = request
    BY DEF IInv, RequestInv
  <1>2. findings' = findings \cup {[level |-> level, about |-> about]}
    BY DEF Say
  <1>3. QED
    BY <1>1, <1>2, ImageFrame DEF IInv, FindingsInv

LEMMA CheckClaimIInv ==
  ASSUME BootSourceAssumption, IInv, CheckClaim
  PROVE  IInv'
  <1>1. /\ pc = "claim" /\ pc' \in {"next", "scratch", "inspect"}
        /\ pc' = "inspect" => request.kind # None
        /\ UNCHANGED <<image, request, checked, inspection, caches>>
    BY DEF CheckClaim, SourceNext
  <1>2. \E level \in Levels : Say(level, "claim")
    <2>1. CASE /\ request.archive /\ request.claim.mode = "Block" /\ request.storage
               /\ Say("error", "claim")
      BY <2>1 DEF Levels
    <2>2. CASE ~(request.archive /\ request.claim.mode = "Block" /\ request.storage)
      <3> DEFINE target == storageTarget(request)
                 claim == ArchiveClaim(request)
                 asks == request.storage /\ (claim.mode = None \/ claim.modes = {})
                 answer == IF asks THEN profiles[target] ELSE "read"
                 valid == validateStorageClaim(IF asks THEN defaultStorageClaim(claim, Profile[target])
                                                       ELSE claim)
      <3>1. /\ answer # Unread
            /\ Say(CASE answer = "failed" -> "warn"
                     [] answer = "missing" -> "error"
                     [] answer = "read" -> IF valid THEN "info" ELSE "error", "claim")
        BY <2>2 DEF CheckClaim
      <3>2. answer \in {"read", "missing", "failed"}
        BY <1>1, <3>1 DEF IInv, RequestInv, CachesInv, Unread
      <3> HIDE DEF answer, valid
      <3>3. QED
        BY <3>1, <3>2 DEF Levels
    <2>3. QED
      BY <2>1, <2>2 DEF CheckClaim
  <1>3. given \in Situations
    BY DEF IInv, ImageInv
  <1>4. request \in given.disks /\ request.kind \in Kinds \cup {None}
    BY <1>1, <1>3, GivenFacts DEF IInv, RequestInv
  <1>5. RequestInv'
    BY <1>1, <1>4, ImageFrame DEF IInv, RequestInv, PCs, Inspected, ToRead
  <1>6. FindingsInv'
    BY <1>1, <1>2, SayFindings
  <1>7. QED
    BY <1>1, <1>5, <1>6, ImageFrame, Elsewhere, CachesFrame, SourcesFrame
    DEF IInv, ToRead, caches

LEMMA CheckScratchIInv ==
  ASSUME BootSourceAssumption, IInv, CheckScratch
  PROVE  IInv'
  <1>1. /\ pc = "scratch" /\ pc' = "next"
        /\ UNCHANGED <<image, request, checked, inspection, sources, profiles, access>>
    BY DEF CheckScratch
  <1>2. UNCHANGED findings \/ \E level \in Levels : Say(level, "scratch")
    BY DEF CheckScratch, Levels
  <1>3. RequestInv'
    BY <1>1, ImageFrame DEF IInv, RequestInv, PCs, Inspected, ToRead
  <1>4. FindingsInv'
    BY <1>1, <1>2, SayFindings, FindingsFrame
  <1>5. QED
    BY <1>1, <1>3, <1>4, ImageFrame, Elsewhere, CachesFrame, SourcesFrame
    DEF IInv, ToRead

-----------------------------------------------------------------------------
(* A source is looked at. *)

LEMMA InspectIInv ==
  ASSUME BootSourceAssumption, IInv, Inspect
  PROVE  IInv'
  <1>1. /\ pc = "inspect"
        /\ pc' = IF sources[request.kind] # NotInspected THEN "judge" ELSE request.kind
        /\ UNCHANGED <<image, request, checked, profiles, config, access, findings,
                       inspection, sources>>
    BY DEF Inspect, Idle
  <1>2. request \in given.disks /\ request.kind \in Kinds /\ storageTarget(request) \in Classes
    BY <1>1 DEF IInv, RequestInv, Inspected, ToRead
  <1>3. CASE sources[request.kind] # NotInspected
    <2>1. RequestInv'
      BY <1>1, <1>2, <1>3, ImageFrame DEF IInv, RequestInv, PCs, Inspected, ToRead
    <2>2. QED
      BY <1>1, <1>3, <2>1, ImageFrame, Elsewhere, CachesFrame, SourcesFrame, FindingsFrame
      DEF IInv, ToRead
  <1>4. CASE sources[request.kind] = NotInspected
    <2>1. pc' = request.kind /\ sources[request.kind].status = Unread
      BY <1>1, <1>4 DEF NotInspected
    <2>2. RequestInv'
      BY <1>1, <1>2, <2>1, ImageFrame
      DEF IInv, RequestInv, PCs, Inspected, ToRead, Kinds, OfKind
    <2>3. QED
      BY <1>1, <1>2, <2>1, <2>2, ImageFrame, Elsewhere, CachesFrame, SourcesFrame, FindingsFrame
      DEF IInv, ToRead, Kinds
  <1>5. QED
    BY <1>3, <1>4

\* A verdict is kept: it must be true if it blocks, and of a source that there is if not;
\* and the class it tells is that of its volume.
LEMMA ConcludeWithIInv ==
  ASSUME BootSourceAssumption, IInv, pc \in Inspected, NEW verdict, ConcludeWith(verdict),
         verdict.class # None => /\ verdict.volume \in 1..Len(volumes)
                                 /\ verdict.class = volumes[verdict.volume],
         verdict.status \in {"failed", "missing", "notReady", "ready"},
         verdict.status \in {"missing", "notReady"} => ~Sound(OfKind(request.kind)),
         verdict.status = "ready" => OfKind(request.kind) \in {"snapshot", "pvc"}
  PROVE  IInv'
  <1>1. /\ UNCHANGED <<image, request, checked, profiles, config, access, findings>>
        /\ pc' = "judge" /\ seen' = NoSnapshot /\ noted' = None /\ source' = NoSource
        /\ sources' = [sources EXCEPT ![request.kind] = verdict]
    BY DEF ConcludeWith, Idle
  <1>2. /\ request \in given.disks /\ request.kind \in Kinds /\ storageTarget(request) \in Classes
    BY DEF IInv, RequestInv, Inspected, ToRead
  <1>3. RequestInv'
    BY <1>1, <1>2, ImageFrame DEF IInv, RequestInv, PCs, Inspected, ToRead
  <1>4. SeenInv'
    BY <1>1, ImageFrame DEF SeenInv, ToRead, NoSource
  <1>5. SourcesInv'
    <2>1. sources' = [k \in Kinds |-> IF k = request.kind THEN verdict ELSE sources[k]]
      BY <1>1 DEF IInv, SourcesInv
    <2>2. QED
      BY <1>1, <2>1, ImageFrame DEF IInv, SourcesInv
  <1>6. QED
    BY <1>1, <1>3, <1>4, <1>5, ImageFrame, CachesFrame, FindingsFrame DEF IInv

\* The class of the source in the making is told.
LEMMA ConcludeIInv ==
  ASSUME BootSourceAssumption, IInv, pc \in Inspected,
         NEW status \in {"failed", "missing", "notReady", "ready"}, Conclude(status),
         status \in {"missing", "notReady"} => ~Sound(OfKind(request.kind)),
         status = "ready" => OfKind(request.kind) \in {"snapshot", "pvc"}
  PROVE  IInv'
  <1>1. /\ Verdict(status).status = status
        /\ Verdict(status).class # None =>
             /\ Verdict(status).volume \in 1..Len(volumes)
             /\ Verdict(status).class = volumes[Verdict(status).volume]
    BY DEF Verdict, IInv, SeenInv
  <1>2. ConcludeWith(Verdict(status))
    BY DEF Conclude
  <1>3. QED
    BY <1>1, <1>2, ConcludeWithIInv

\* A read that leads to the next one.
LEMMA ReadOn ==
  ASSUME IInv, pc \in Inspected, pc' \in Inspected, UNCHANGED <<Idle, sources>>,
         pc' \in {"snapshot"} \cup ToRead => OfKind(request.kind) = "snapshot",
         pc' = "pvc" => OfKind(request.kind) = "pvc",
         pc' # "DataSource", SeenInv'
  PROVE  IInv'
  <1>1. UNCHANGED <<image, request, checked, profiles, config, access, findings, sources>>
    BY DEF Idle
  <1>2. /\ request \in given.disks /\ request.kind \in Kinds /\ storageTarget(request) \in Classes
        /\ sources[request.kind].status = Unread
    BY DEF IInv, RequestInv, Inspected, ToRead
  <1>3. RequestInv'
    BY <1>1, <1>2, ImageFrame DEF IInv, RequestInv, PCs
  <1>4. QED
    BY <1>1, <1>3, ImageFrame, CachesFrame, SourcesFrame, FindingsFrame DEF IInv

LEMMA ReadDataSourceIInv ==
  ASSUME BootSourceAssumption, IInv, ReadDataSource
  PROVE  IInv'
  <1>1. pc = "DataSource" /\ pc \in Inspected /\ OfKind(request.kind) = given.resolves
    BY DEF ReadDataSource, Inspected, OfKind, IInv, RequestInv
  <1>2. given.resolves \in {"snapshot", "pvc", None}
    BY GivenFacts DEF IInv, ImageInv
  <1>3. CASE Conclude("failed")
    BY <1>1, <1>3, ConcludeIInv
  <1>4. CASE (~dsReady \/ given.resolves = None) /\ Conclude("notReady")
    <2>1. ~Sound(given.resolves)
      <3>1. None \notin Kinds
        BY GivenFacts DEF IInv, ImageInv
      <3>2. QED
        BY <1>4, <3>1 DEF Sound, IInv, DataSourceInv, Kinds
    <2>2. QED
      BY <1>1, <1>4, <2>1, ConcludeIInv
  <1>5. CASE /\ given.resolves # None /\ pc' = given.resolves
             /\ UNCHANGED <<Idle, inspection, sources>>
    <2>1. pc' \in {"snapshot", "pvc"} /\ pc' = OfKind(request.kind)
      BY <1>1, <1>2, <1>5
    <2>2. SeenInv'
      BY <1>1, <1>5, <2>1, Elsewhere DEF ToRead, Idle
    <2>3. QED
      BY <1>1, <1>5, <2>1, <2>2, ReadOn DEF Inspected, ToRead
  <1>6. QED
    BY <1>3, <1>4, <1>5 DEF ReadDataSource

LEMMA ReadPVCIInv ==
  ASSUME BootSourceAssumption, IInv, ReadPVC
  PROVE  IInv'
  <1>1. pc = "pvc" /\ pc \in Inspected /\ OfKind(request.kind) = "pvc"
    BY DEF ReadPVC, Inspected, IInv, RequestInv
  <1>2. given.golden # "bound" => ~Sound("pvc")
    BY DEF Sound
  <1>3. CASE Conclude("failed")
    BY <1>1, <1>3, ConcludeIInv
  <1>4. CASE given.golden = "absent" /\ Conclude("missing")
    BY <1>1, <1>2, <1>4, ConcludeIInv
  <1>5. CASE given.golden = "pending" /\ Conclude("notReady")
    BY <1>1, <1>2, <1>5, ConcludeIInv
  <1> DEFINE verdict == [Verdict("ready") EXCEPT !.class = given.class, !.volume = 1]
  <1>6. CASE given.golden = "bound" /\ ConcludeWith(verdict)
    <2>1. verdict.status = "ready" /\ verdict.class = given.class /\ verdict.volume = 1
      BY DEF Verdict
    <2>2. 1 \in 1..Len(volumes) /\ volumes[1] = given.class
      BY DEF IInv, ImageInv
    <2> HIDE DEF verdict
    <2>3. QED
      BY <1>1, <1>6, <2>1, <2>2, ConcludeWithIInv
  <1>7. QED
    BY <1>3, <1>4, <1>5, <1>6 DEF ReadPVC

LEMMA ReadSnapshotIInv ==
  ASSUME BootSourceAssumption, IInv, ReadSnapshot
  PROVE  IInv'
  <1>1. pc = "snapshot" /\ pc \in Inspected /\ OfKind(request.kind) = "snapshot"
    BY DEF ReadSnapshot, Inspected, IInv, RequestInv
  <1>2. CASE Conclude("failed")
    BY <1>1, <1>2, ConcludeIInv
  <1>3. ASSUME snap.volume = 0 \/ ~snap.ready
        PROVE  ~Sound("snapshot")
    BY <1>3 DEF Sound, Changed, IInv, ImageInv
  <1>4. CASE snap.volume = 0 /\ Conclude("missing")
    BY <1>1, <1>3, <1>4, ConcludeIInv
  <1>5. CASE snap.volume # 0 /\ ~snap.ready /\ Conclude("notReady")
    BY <1>1, <1>3, <1>5, ConcludeIInv
  <1>6. CASE /\ snap.ready /\ seen' = snap /\ pc' = "content"
             /\ UNCHANGED <<Idle, sources, noted, source>>
    <2>1. UNCHANGED image
      BY <1>6 DEF Idle
    <2>2. snap.volume \in 1..Len(volumes)
      BY <1>6 DEF IInv, ImageInv, NoSnapshot
    <2>3. phase = "imported" => snap.volume < Len(volumes)
      BY <2>2 DEF IInv, ImageInv, NoSnapshot
    <2>4. source = NoSource
      BY <1>1 DEF IInv, SeenInv, ToRead
    <2>5. SeenInv'
      BY <1>6, <2>1, <2>2, <2>3, <2>4 DEF SeenInv, image, ToRead, NoSource
    <2>6. QED
      BY <1>1, <1>6, <2>5, ReadOn DEF Inspected, ToRead
  <1>7. QED
    BY <1>2, <1>4, <1>5, <1>6 DEF ReadSnapshot

\* After the snapshot has been read: what a read leaves alone, and which control states
\* it leads to.
LEMMA ReadingFacts ==
  ASSUME IInv, pc \in ToRead
  PROVE  /\ pc \in Inspected
         /\ OfKind(request.kind) = "snapshot"
         /\ seen.volume \in 1..Len(volumes)
  BY DEF IInv, RequestInv, SeenInv, Inspected

LEMMA ReadFurther ==
  ASSUME IInv, pc \in ToRead, pc' \in ToRead, UNCHANGED <<Idle, sources, seen>>,
         pc' = "volume" => noted' \in 1..Len(volumes),
         pc' \in {"managed", "again"} => owned /\ (noted' = volumes[seen.volume] \/ Lost),
         source' = [class |-> source'.class, driver |-> source'.driver],
         source'.class \in {None, source.class, volumes[seen.volume]}
  PROVE  IInv'
  <1>1. UNCHANGED image
    BY DEF Idle
  <1>2. /\ volumes' = volumes /\ phase' = phase /\ owned' = owned /\ snap' = snap /\ seen' = seen
    BY <1>1 DEF image
  <1>3. seen.volume \in 1..Len(volumes) /\ pc \in Inspected /\ OfKind(request.kind) = "snapshot"
    BY ReadingFacts
  <1>4. Lost' = Lost
    BY <1>2 DEF Lost
  <1>5. SeenInv'
    BY <1>2, <1>3, <1>4 DEF IInv, SeenInv
  <1>6. pc' # "DataSource" /\ pc' # "pvc" /\ pc' \in Inspected
    BY DEF ToRead, Inspected
  <1>7. QED
    BY <1>3, <1>5, <1>6, ReadOn

\* A content that names another snapshot is no sound one's.
LEMMA ReadContentIInv ==
  ASSUME BootSourceAssumption, IInv, ReadContent
  PROVE  IInv'
  <1>1. /\ pc = "content" /\ pc \in Inspected
        /\ OfKind(request.kind) = "snapshot"
    BY ReadingFacts DEF ReadContent, ToRead, Inspected
  <1>2. CASE given.content = "another" /\ Conclude("notReady")
    <2>1. ~Sound("snapshot")
      BY <1>2 DEF Sound
    <2>2. QED
      BY <1>1, <1>2, <2>1, ConcludeIInv
  <1>3. CASE pc' = "cron" /\ UNCHANGED <<Idle, inspection, sources>>
    <2>1. UNCHANGED <<Idle, sources, seen, noted, source>>
      BY <1>3 DEF inspection
    <2>2. source' = [class |-> source'.class, driver |-> source'.driver]
      BY <2>1 DEF IInv, SeenInv
    <2>3. QED
      BY <1>1, <1>3, <2>1, <2>2, ReadFurther DEF ToRead
  <1>4. CASE /\ source' = [source EXCEPT !.driver = Driver[volumes[seen.volume]]]
             /\ pc' \in {"origin", "cron"}
             /\ UNCHANGED <<Idle, sources, seen, noted>>
    <2>1. source = [class |-> source.class, driver |-> source.driver]
      BY DEF IInv, SeenInv
    <2>2. /\ source' = [class |-> source'.class, driver |-> source'.driver]
          /\ source'.class = source.class
      BY <1>4, <2>1
    <2>3. QED
      BY <1>1, <1>4, <2>2, ReadFurther DEF ToRead
  <1>5. QED
    BY <1>2, <1>3, <1>4 DEF ReadContent

LEMMA ReadOriginIInv ==
  ASSUME BootSourceAssumption, IInv, ReadOrigin
  PROVE  IInv'
  <1>1. /\ pc = "origin" /\ pc' \in {"cron", "volume"} /\ UNCHANGED <<Idle, sources, seen, source>>
        /\ pc' = "volume" => origin # 0 /\ noted' = origin
    BY DEF ReadOrigin
  <1>2. pc' = "volume" => noted' \in 1..Len(volumes)
    BY <1>1 DEF IInv, ImageInv
  <1>3. source' = [class |-> source'.class, driver |-> source'.driver] /\ source' = source
    BY <1>1 DEF IInv, SeenInv
  <1>4. QED
    BY <1>1, <1>2, <1>3, ReadFurther DEF ToRead

LEMMA ReadVolumeIInv ==
  ASSUME BootSourceAssumption, IInv, ReadVolume
  PROVE  IInv'
  <1>1. /\ pc = "volume" /\ pc' \in {"cron", "conclude"} /\ UNCHANGED <<Idle, sources, seen, noted>>
    BY DEF ReadVolume
  <1>2. /\ source' = [class |-> source'.class, driver |-> source'.driver]
        /\ source'.class \in {source.class, volumes[seen.volume]}
    <2>1. source = [class |-> source.class, driver |-> source.driver]
      BY DEF IInv, SeenInv
    <2>2. CASE UNCHANGED source
      BY <2>1, <2>2
    <2>3. CASE noted = seen.volume /\ source' = [source EXCEPT !.class = volumes[noted]]
      BY <2>1, <2>3
    <2>4. QED
      BY <2>2, <2>3 DEF ReadVolume
  <1>3. QED
    BY <1>1, <1>2, ReadFurther DEF ToRead

\* The class noted at the cron is that of the last volume.
LEMMA ReadCronIInv ==
  ASSUME BootSourceAssumption, IInv, ReadCron
  PROVE  IInv'
  <1>1. /\ pc = "cron" /\ pc' \in {"conclude", "managed"} /\ UNCHANGED <<Idle, sources, seen, source>>
        /\ pc' = "managed" => owned /\ current /\ noted' = cron
    BY DEF ReadCron
  <1>2. seen.volume \in 1..Len(volumes)
    BY <1>1, ReadingFacts DEF ToRead
  <1>3. ASSUME owned, current
        PROVE  cron = volumes[seen.volume] \/ Lost
    <2>1. cron = volumes[Len(volumes)]
      BY <1>3 DEF IInv, ImageInv
    <2>2. ASSUME seen.volume # Len(volumes), ~Lost
          PROVE  FALSE
      <3>1. snap.volume = seen.volume /\ ~snap.deleting /\ snap.volume # 0
        BY <1>2, <2>2 DEF Lost
      <3>2. snap # NoSnapshot
        BY <3>1 DEF NoSnapshot
      <3>3. QED
        BY <1>3, <2>2, <3>1, <3>2 DEF IInv, ImageInv
    <2>3. QED
      BY <2>1, <2>2
  <1>4. source' = [class |-> source'.class, driver |-> source'.driver] /\ source' = source
    BY <1>1 DEF IInv, SeenInv
  <1>5. QED
    BY <1>1, <1>3, <1>4, ReadFurther DEF ToRead

LEMMA ReadManagedIInv ==
  ASSUME BootSourceAssumption, IInv, ReadManaged
  PROVE  IInv'
  <1>1. /\ pc = "managed" /\ pc' \in {"conclude", "again"}
        /\ UNCHANGED <<Idle, sources, seen, noted, source>>
    BY DEF ReadManaged, inspection
  <1>2. owned /\ (noted' = volumes[seen.volume] \/ Lost)
    BY <1>1 DEF IInv, SeenInv
  <1>3. source' = [class |-> source'.class, driver |-> source'.driver] /\ source' = source
    BY <1>1 DEF IInv, SeenInv
  <1>4. QED
    BY <1>1, <1>2, <1>3, ReadFurther DEF ToRead

LEMMA ReadAgainIInv ==
  ASSUME BootSourceAssumption, IInv, ReadAgain
  PROVE  IInv'
  <1>1. /\ pc = "again" /\ pc' = "conclude" /\ UNCHANGED <<Idle, sources, seen, noted>>
    BY DEF ReadAgain
  <1>2. /\ source' = [class |-> source'.class, driver |-> source'.driver]
        /\ source'.class \in {source.class, volumes[seen.volume]}
    <2>1. source = [class |-> source.class, driver |-> source.driver]
      BY DEF IInv, SeenInv
    <2>2. CASE UNCHANGED source
      BY <2>1, <2>2
    <2>3. CASE /\ snap.volume = seen.volume /\ ~snap.deleting
               /\ source' = [source EXCEPT !.class = noted]
      <3>1. noted = volumes[seen.volume]
        BY <1>1, <2>3 DEF IInv, SeenInv, Lost
      <3>2. QED
        BY <2>1, <2>3, <3>1
    <2>4. QED
      BY <2>2, <2>3 DEF ReadAgain
  <1>3. QED
    BY <1>1, <1>2, ReadFurther DEF ToRead

LEMMA ConcludeSnapshotIInv ==
  ASSUME BootSourceAssumption, IInv, ConcludeSnapshot
  PROVE  IInv'
  <1>1. pc = "conclude" /\ Conclude("ready")
    BY DEF ConcludeSnapshot
  <1>2. pc \in Inspected /\ OfKind(request.kind) = "snapshot"
    BY <1>1, ReadingFacts DEF ToRead
  <1>3. QED
    BY <1>1, <1>2, ConcludeIInv

-----------------------------------------------------------------------------
(* What is said of the source. *)

\* The answers to a review are those of the rights, or none.
LEMMA CloneAccessFacts ==
  ASSUME NEW kind \in {"snapshot", "pvc"}, NEW a \in Review
  PROVE  /\ CloneAccess(kind, a) \in Levels
         /\ CloneAccess(kind, a) = "error" => ~Granted(kind)
         /\ CloneAccess(kind, a) = "info" => Granted(kind)
  <1> DEFINE last == IF kind = "pvc" \/ a["pods"] # "allowed" THEN a["pods"] ELSE a["pvcs"]
  <1>1. \A x \in Rights : /\ a[x] = "allowed" => x \in given.rights
                          /\ a[x] = "denied" => x \notin given.rights
    BY DEF Review
  <1>2. /\ "source" \in Rights /\ "pods" \in Rights /\ "pvcs" \in Rights
    BY DEF Rights
  <1>3. CASE "allowed" \in {a["source"], last}
    <2>1. CloneAccess(kind, a) = "info"
      BY <1>3 DEF CloneAccess
    <2>2. QED
      BY <1>1, <1>2, <1>3, <2>1 DEF Granted, Levels
  <1>4. CASE a["source"] = "denied" /\ last = "denied"
    <2>1. CloneAccess(kind, a) = "error"
      BY <1>4 DEF CloneAccess
    <2>2. QED
      BY <1>1, <1>2, <1>4, <2>1 DEF Granted, Levels
  <1>5. CASE /\ "allowed" \notin {a["source"], last}
             /\ ~(a["source"] = "denied" /\ last = "denied")
    BY <1>5 DEF CloneAccess, Levels
  <1>6. QED
    BY <1>3, <1>4, <1>5

LEMMA ReviewAccessIInv ==
  ASSUME BootSourceAssumption, IInv, ReviewAccess
  PROVE  IInv'
  <1>1. /\ pc = "judge" /\ sources[request.kind].status = "ready"
        /\ UNCHANGED <<image, pc, request, checked, inspection, sources, profiles, config, findings>>
    BY DEF ReviewAccess
  <1>2. /\ request \in given.disks /\ request.kind \in Kinds /\ request.space \in Spaces
    BY <1>1, GivenFacts DEF IInv, ImageInv, RequestInv
  <1>3. SourceKind = OfKind(request.kind) /\ SourceKind \in {"snapshot", "pvc"}
    BY <1>1, <1>2 DEF SourceKind, OfKind, IInv, SourcesInv
  <1>4. PICK a \in Review :
          access' = [access EXCEPT ![AccessKey] =
                       CASE request.space = "unknown" -> "warn"
                         [] request.space = "source" -> "info"
                         [] OTHER -> CloneAccess(SourceKind, a)]
    BY DEF ReviewAccess
  <1> DEFINE level == CASE request.space = "unknown" -> "warn"
                        [] request.space = "source" -> "info"
                        [] OTHER -> CloneAccess(SourceKind, a)
  <1>5. /\ level \in Levels
        /\ level = "error" => request.space = "other" /\ ~Granted(SourceKind)
        /\ level = "info" =>
             request.space = "source" \/ (request.space = "other" /\ Granted(SourceKind))
    <2>1. CASE request.space = "unknown"
      BY <2>1 DEF Levels
    <2>2. CASE request.space = "source"
      BY <2>2 DEF Levels
    <2>3. CASE request.space = "other"
      BY <1>3, <2>3, CloneAccessFacts
    <2>4. QED
      BY <1>2, <2>1, <2>2, <2>3 DEF Spaces
  <1>6. access' = [access EXCEPT ![<<SourceKind, request.space>>] = level]
    BY <1>4 DEF AccessKey
  <1> HIDE DEF level
  <1>7. <<SourceKind, request.space>> \in Kinds \X Spaces
    BY <1>2, <1>3 DEF Kinds
  <1>8. CachesInv'
    <2>1. access' \in [Kinds \X Spaces -> Levels \cup {Unread}]
      BY <1>5, <1>6 DEF IInv, CachesInv
    <2>2. ASSUME NEW k \in {"snapshot", "pvc"}, NEW s \in Spaces
          PROVE  /\ access'[<<k, s>>] = "error" => s = "other" /\ ~Granted(k)
                 /\ access'[<<k, s>>] = "info" => s = "source" \/ (s = "other" /\ Granted(k))
      <3>1. <<k, s>> \in Kinds \X Spaces
        BY DEF Kinds
      <3>2. CASE k = SourceKind /\ s = request.space
        <4>1. access'[<<k, s>>] = level
          BY <1>6, <3>1, <3>2 DEF IInv, CachesInv
        <4>2. QED
          BY <1>5, <3>2, <4>1
      <3>3. CASE ~(k = SourceKind /\ s = request.space)
        <4>1. access'[<<k, s>>] = access[<<k, s>>]
          BY <1>6, <3>1, <3>3 DEF IInv, CachesInv
        <4>2. QED
          BY <4>1 DEF IInv, CachesInv
      <3>4. QED
        BY <3>2, <3>3
    <2>3. QED
      BY <1>1, <2>1, <2>2, ImageFrame DEF IInv, CachesInv
  <1>9. RequestInv'
    BY <1>1, ImageFrame DEF IInv, RequestInv
  <1>10. QED
    BY <1>1, <1>8, <1>9, ImageFrame, Elsewhere, SourcesFrame, FindingsFrame DEF IInv, ToRead

LEMMA JudgeIInv ==
  ASSUME BootSourceAssumption, IInv, Judge
  PROVE  IInv'
  <1> DEFINE verdict == sources[request.kind]
             target == storageTarget(request)
             ready == verdict.status = "ready"
             abouts == {"source"} \cup (IF ready THEN {"access"} ELSE {})
                         \cup (IF ready /\ verdict.driver # None THEN {"driver"} ELSE {})
             Level(about) == CASE about = "source" -> SourceLevel(verdict, target)
                               [] about = "driver" -> DriverLevel(verdict, target)
                               [] about = "access" -> IF request.cdi THEN access[AccessKey] ELSE "warn"
  <1>1. /\ pc = "judge" /\ pc' = "scratch"
        /\ ready /\ request.cdi => access[AccessKey] # Unread
        /\ UNCHANGED <<image, request, checked, inspection, caches>>
    BY DEF Judge
  <1>2. findings' = findings \cup {[level |-> Level(about), about |-> about] : about \in abouts}
    BY DEF Judge
  <1>3. /\ request \in given.disks /\ request.kind \in Kinds /\ request.space \in Spaces
        /\ request.cdi \in BOOLEAN
    BY <1>1, GivenFacts DEF IInv, ImageInv, RequestInv
  <1>4. ready => SourceKind = OfKind(request.kind) /\ SourceKind \in {"snapshot", "pvc"}
    BY <1>1, <1>3 DEF SourceKind, OfKind, IInv, SourcesInv
  <1>5. /\ Level("source") \in Levels
        /\ Level("source") = "error" => ~Sound(OfKind(request.kind))
    BY <1>3 DEF SourceLevel, Levels, IInv, SourcesInv
  <1>6. /\ Level("driver") \in Levels
        /\ Level("driver") = "error" => ~request.cdi
    BY DEF DriverLevel, Levels
  <1>7. ASSUME ready
        PROVE  /\ Level("access") \in Levels
               /\ Level("access") = "error" =>
                    request.space = "other" /\ ~Granted(OfKind(request.kind))
               /\ Level("access") = "info" =>
                    \/ request.space = "source"
                    \/ request.space = "other" /\ Granted(OfKind(request.kind))
    <2>1. CASE ~request.cdi
      BY <2>1 DEF Levels
    <2>2. CASE request.cdi
      <3>1. AccessKey = <<OfKind(request.kind), request.space>>
        BY <1>4, <1>7 DEF AccessKey
      <3>2. access[AccessKey] \in Levels
        BY <1>1, <1>3, <1>4, <1>7, <2>2, <3>1 DEF IInv, CachesInv, Kinds
      <3>3. Level("access") = access[<<OfKind(request.kind), request.space>>]
        BY <2>2, <3>1
      <3>4. QED
        BY <1>3, <1>4, <1>7, <3>1, <3>2, <3>3 DEF IInv, CachesInv
    <2>3. QED
      BY <2>1, <2>2
  <1> HIDE DEF Level, verdict, target
  <1>8. FindingsInv'
    <2>1. request' = request /\ request \in given'.disks
      BY <1>1, <1>3, ImageFrame
    <2>2. ASSUME NEW f \in findings'
          PROVE  /\ f.level \in Levels
                 /\ f.about \in {"target", "claim", "source", "driver", "access", "scratch"}
                 /\ f.about = "source" /\ f.level = "error" => ~Sound(OfKind(request.kind))
                 /\ f.about = "driver" /\ f.level = "error" => ~request.cdi
                 /\ f.about = "access" /\ f.level = "error" =>
                      request.space = "other" /\ ~Granted(OfKind(request.kind))
                 /\ f.about = "access" /\ f.level = "info" =>
                      \/ request.space = "source"
                      \/ request.space = "other" /\ Granted(OfKind(request.kind))
      <3>1. CASE f \in findings
        BY <3>1 DEF IInv, FindingsInv
      <3>2. CASE f \notin findings
        <4>1. PICK about \in abouts : f = [level |-> Level(about), about |-> about]
          BY <1>2, <3>2
        <4>2. about \in {"source", "driver"} \/ (about = "access" /\ ready)
          BY <4>1
        <4>3. QED
          BY <1>5, <1>6, <1>7, <4>1, <4>2
      <3>3. QED
        BY <3>1, <3>2
    <2>3. QED
      BY <1>1, <2>1, <2>2, ImageFrame DEF FindingsInv
  <1>9. RequestInv'
    BY <1>1, ImageFrame DEF IInv, RequestInv, PCs, Inspected, ToRead
  <1>10. QED
    BY <1>1, <1>8, <1>9, ImageFrame, Elsewhere, CachesFrame, SourcesFrame
    DEF IInv, ToRead, caches

-----------------------------------------------------------------------------
LEMMA NextIInv ==
  ASSUME BootSourceAssumption, IInv, [Next]_vars
  PROVE  IInv'
  <1>1. CASE UNCHANGED vars
    <2>1. /\ UNCHANGED <<image, request, checked, inspection, caches, findings>> /\ pc' = pc
      BY <1>1 DEF vars
    <2>2. /\ seen' = seen /\ noted' = noted /\ source' = source
          /\ sources' = sources /\ profiles' = profiles /\ access' = access
          /\ volumes' = volumes /\ phase' = phase /\ owned' = owned /\ snap' = snap
      BY <2>1 DEF inspection, caches, image
    <2>3. SeenInv'
      BY <2>1, <2>2 DEF IInv, SeenInv, Lost
    <2>4. RequestInv'
      BY <2>1, <2>2, ImageFrame DEF IInv, RequestInv
    <2>5. QED
      BY <2>1, <2>2, <2>3, <2>4, ImageFrame, CachesFrame, SourcesFrame, FindingsFrame DEF IInv
  <1>2. CASE ClusterGoesOn
    BY <1>2, ClusterIInv
  <1>3. CASE Check
    BY <1>3, ListIInv, TakeRequestIInv, ReadProfileIInv, CheckClaimIInv, InspectIInv,
       ReadDataSourceIInv, ReadPVCIInv, ReadSnapshotIInv, ReadContentIInv, ReadOriginIInv,
       ReadVolumeIInv, ReadCronIInv, ReadManagedIInv, ReadAgainIInv, ConcludeSnapshotIInv,
       ReviewAccessIInv, JudgeIInv, CheckScratchIInv DEF Check
  <1>4. QED
    BY <1>1, <1>2, <1>3 DEF Next

(* The invariant that the theorems of this module rest on. *)
THEOREM BootSourceIInv ==
  ASSUME BootSourceAssumption
  PROVE  Spec => []IInv
  <1>1. Init => IInv
    BY InitIInv
  <1>2. IInv /\ [Next]_vars => IInv'
    BY NextIInv
  <1>3. QED
    BY <1>1, <1>2, PTL DEF Spec

(* The image, the request at hand and the findings are of their types, and no verdict *)
(* is cached on the source that is looked at.                                         *)
THEOREM BootSourceTypeOK ==
  ASSUME BootSourceAssumption
  PROVE  Spec => []TypeOK
  <1>1. ASSUME IInv
        PROVE  TypeOK
    <2>1. /\ snap.volume \in 0..Len(volumes) /\ origin \in 0..Len(volumes)
          /\ volumes \in Seq(Classes) /\ cron \in Classes
          /\ phase \in {"steady", "outdated", "imported", "taken"}
      BY <1>1 DEF IInv, ImageInv
    <2>2. /\ request \in given.disks \cup {None}
          /\ checked \subseteq given.disks /\ Cardinality(checked) <= MaxRequests
      BY <1>1 DEF IInv, RequestInv
    <2>3. \A f \in findings :
            /\ f.level \in {"info", "warn", "error"}
            /\ f.about \in {"target", "claim", "source", "driver", "access", "scratch"}
      BY <1>1 DEF IInv, FindingsInv, Levels
    <2>4. ASSUME pc \in Reads
          PROVE  request # None /\ sources[request.kind].status = Unread
      <3>1. pc \in Inspected /\ pc \notin {"list", "over", "next"}
        BY <2>4 DEF Reads, Inspected, ToRead
      <3>2. None \notin given.disks
        BY <1>1, GivenFacts DEF IInv, ImageInv
      <3>3. QED
        BY <1>1, <3>1, <3>2 DEF IInv, RequestInv
    <2>5. QED
      BY <2>1, <2>2, <2>3, <2>4 DEF TypeOK
  <1>2. QED
    BY <1>1, BootSourceIInv, PTL

(* The class that CheckStorage reports for a snapshot is that of the volume it was     *)
(* taken of, whatever is imported, noted at the cron or made under its names between  *)
(* the reads.                                                                         *)
THEOREM SourceClassIsTrueHolds ==
  ASSUME BootSourceAssumption
  PROVE  Spec => []SourceClassIsTrue
  <1>1. IInv => SourceClassIsTrue
    BY DEF IInv, SourcesInv, SourceClassIsTrue
  <1>2. QED
    BY <1>1, BootSourceIInv, PTL

(* CheckStorage blocks a run for no source that can be used, nor for the driver of one *)
(* that CDI copies, and it neither denies nor grants a right but by the answer to the *)
(* question of that namespace - also where it answers from a cache.                   *)
THEOREM OnlyFaultsBlockHolds ==
  ASSUME BootSourceAssumption
  PROVE  Spec => []OnlyFaultsBlock
  <1>1. ASSUME IInv
        PROVE  OnlyFaultsBlock
    <2>1. SUFFICES ASSUME NEW f \in findings
                   PROVE  LET kind    == IF request.kind = "DataSource" THEN given.resolves ELSE request.kind
                              granted == \/ "source" \in given.rights
                                         \/ "pods" \in given.rights /\ (kind = "pvc" \/ "pvcs" \in given.rights)
                              sound   == CASE kind = "pvc" -> given.golden = "bound"
                                           [] kind = "snapshot" ->
                                                phase = "steady" /\ snap.volume = 1
                                                /\ given.content = "own"
                                           [] OTHER -> FALSE
                          IN  /\ f.about = "source" /\ f.level = "error" => ~sound
                              /\ f.about = "driver" /\ f.level = "error" => ~request.cdi
                              /\ f.about = "access" /\ f.level = "error" => request.space = "other" /\ ~granted
                              /\ f.about = "access" /\ f.level = "info" =>
                                   request.space = "source" \/ (request.space = "other" /\ granted)
      BY DEF OnlyFaultsBlock
    <2> DEFINE kind == IF request.kind = "DataSource" THEN given.resolves ELSE request.kind
               sound == CASE kind = "pvc" -> given.golden = "bound"
                          [] kind = "snapshot" ->
                               phase = "steady" /\ snap.volume = 1 /\ given.content = "own"
                          [] OTHER -> FALSE
    <2>2. kind = OfKind(request.kind)
      BY DEF OfKind
    <2>3. sound => Sound(kind)
      BY DEF Sound, Changed
    <2> HIDE DEF kind, sound
    <2>4. /\ f.about = "source" /\ f.level = "error" => ~sound
          /\ f.about = "driver" /\ f.level = "error" => ~request.cdi
          /\ f.about = "access" /\ f.level = "error" => request.space = "other" /\ ~Granted(kind)
          /\ f.about = "access" /\ f.level = "info" =>
               request.space = "source" \/ (request.space = "other" /\ Granted(kind))
      BY <1>1, <2>2, <2>3 DEF IInv, FindingsInv
    <2>5. QED
      BY <2>4 DEF kind, sound, Granted
  <1>2. QED
    BY <1>1, BootSourceIInv, PTL

=============================================================================
