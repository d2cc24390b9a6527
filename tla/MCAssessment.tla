---------------------------- MODULE MCAssessment ----------------------------
(* Assessment of one test of the catalog. *)
EXTENDS Assessment

CAT == INSTANCE MCCatalog

JustDrain == {t \in CAT!AllTests : t.kind = "drain"}

=============================================================================
