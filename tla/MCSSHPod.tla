------------------------------ MODULE MCSSHPod ------------------------------
(* Model values for SSHPod. *)
EXTENDS SSHPod, TLC

CONSTANTS h1

One == {h1}
Nobody == {}
LostAndEvictions == {"lost", "evict"}

=============================================================================
