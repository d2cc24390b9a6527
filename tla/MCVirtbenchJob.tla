--------------------------- MODULE MCVirtbenchJob ---------------------------
(* Model values for VirtbenchJob: a test of each kind on the clusters hub, the *)
(* default one, and spoke.  The namespace_prefix of the one that measures is   *)
(* that of the one that clones; a recovery has two VMs.                        *)
EXTENDS VirtbenchJob

CONSTANTS cloning, draining, recovering, measuring, saved, hub, spoke, w1, w2,
          vb, vbdrain, recovery, fio

AllTests == {cloning, draining, recovering, measuring, saved}
KindOf == [t \in AllTests |->
             CASE t = cloning -> "clone" [] t = recovering -> "recovery"
               [] t = measuring -> "fio" [] OTHER -> "drain"]
ClusterOf == [t \in AllTests |-> IF t = recovering THEN spoke ELSE hub]
PrefixOf == [t \in AllTests |->
               CASE t \in {cloning, measuring} -> vb [] t = recovering -> recovery
                 [] OTHER -> vbdrain]
NSPrefix == [s \in {"clone", "fio", "drain", "recovery"} |->
               CASE s = "clone" -> vb [] s = "fio" -> fio
                 [] s = "drain" -> vbdrain [] OTHER -> recovery]
\* "virtbench-" is how the names of the drain's namespaces begin, too.
Matches == [p \in {vb, vbdrain, recovery, fio} |-> IF p = vb THEN {vb, vbdrain} ELSE {p}]
VMsOf == [t \in AllTests |-> IF t = recovering THEN 2 ELSE 1]
SpokeCordoned == {<<spoke, w2>>}

=============================================================================
