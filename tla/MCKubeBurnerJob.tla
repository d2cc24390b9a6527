--------------------------- MODULE MCKubeBurnerJob --------------------------
(* Model values for KubeBurnerJob: a snapshot test, a reduced one without *)
(* snapshots that has the default namespace, too, and a kube-burner-ocp test. *)
EXTENDS KubeBurnerJob

CONSTANTS snapshots, reduced, density, vmsnapshot

AllTests == {snapshots, reduced, density}
DefaultNamespace == [t \in AllTests |-> vmsnapshot]

=============================================================================
