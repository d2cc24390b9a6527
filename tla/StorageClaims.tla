----------------------------- MODULE StorageClaims ---------------------------
(***************************************************************************)
(* What internal/clustercheck makes of the disk of a manifest before a run:  *)
(* the class it will get and its completed claim, by the rules of CDI.       *)
(*                                                                          *)
(* A request is a record with                                               *)
(*   class     the explicit storageClassName, None when it is omitted and    *)
(*             NoName when it is empty: no class is wanted then              *)
(*   storage   it is a DataVolume's "storage" stanza, completed by CDI      *)
(*   archive   its contentType is "archive"                                 *)
(*   claim     [modes, mode]: its access modes and its volume mode, {} and   *)
(*             None where omitted.                                          *)
(***************************************************************************)
EXTENDS Integers, Sequences

CONSTANTS
  Classes,  \* the StorageClasses, numbered in the order of their names
  Created,  \* Created[c]: when
  Virt,     \* the classes annotated as the default for virtual machines
  Kube,     \* the classes annotated as the default of Kubernetes, old or new style
  Profile,  \* Profile[c]: the claimPropertySets of c's StorageProfile, in order
  None

AccessModes == {"ReadWriteOnce", "ReadWriteMany", "ReadOnlyMany", "ReadWriteOncePod"}
VolumeModes == {"Filesystem", "Block"}

NoName == 0

\* CDI takes the newest of several defaults, then the first by name.
Preferred(S) ==
  CHOOSE c \in S : \A d \in S \ {c} : \/ Created[c] > Created[d]
                                      \/ Created[c] = Created[d] /\ c < d

storageTarget(r) ==
  LET virt == IF r.storage /\ ~r.archive THEN Virt ELSE {}
  IN  CASE r.class = NoName          -> None
        [] r.class \notin {None, NoName} -> r.class
        [] r.class = None /\ virt # {} -> Preferred(virt)
        [] r.class = None /\ virt = {} /\ Kube # {} -> Preferred(Kube)
        [] OTHER                     -> None

\* An archive is unpacked, so its claim is for a file system.
ArchiveClaim(r) ==
  IF r.storage /\ r.archive THEN [r.claim EXCEPT !.mode = "Filesystem"] ELSE r.claim

Fallback(mode) == IF mode = None THEN "Filesystem" ELSE mode

\* The first of the property sets that satisfies P, if any does.
FirstSet(sets, P(_)) ==
  LET hits == {i \in DOMAIN sets : P(sets[i])}
  IN  IF hits = {} THEN [modes |-> {}, mode |-> None]
      ELSE sets[CHOOSE i \in hits : \A j \in hits : i <= j]

\* No access modes in the result: an error.
defaultStorageClaim(claim, sets) ==
  LET whole  == FirstSet(sets, LAMBDA s : TRUE)
      byMode == FirstSet(sets, LAMBDA s : s.mode = claim.mode /\ s.modes # {})
      shared == FirstSet(sets, LAMBDA s : s.modes \cap claim.modes # {})
      filled == CASE claim.modes = {} /\ claim.mode = None -> whole
                  [] claim.modes = {} /\ claim.mode # None -> [claim EXCEPT !.modes = byMode.modes]
                  [] claim.modes # {} /\ claim.mode = None -> [claim EXCEPT !.mode = shared.mode]
                  [] OTHER -> claim
  IN  [filled EXCEPT !.mode = Fallback(filled.mode)]

validateStorageClaim(claim) ==
  /\ claim.mode \in VolumeModes \cup {None}
  /\ claim.modes # {}
  /\ claim.modes \subseteq AccessModes

=============================================================================
