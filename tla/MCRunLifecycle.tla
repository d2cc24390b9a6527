--------------------------- MODULE MCRunLifecycle ---------------------------
(***************************************************************************)
(* Instances of RunLifecycle: small plans, each made for one question.      *)
(***************************************************************************)
EXTENDS RunLifecycle

CONSTANTS toolA, toolB

MCItems == {"sla", "native"}
MCCatalogItems == {"sla"}

Verdict(sla, native) ==
  [i \in MCItems |-> IF i = "sla" THEN sla ELSE native]

\* What a job reports on its execution.
MCGraded == {Verdict("pass", "none"), Verdict("fail", "none")}

MCNone == {}
MCNoSetups == <<>>
MCTwoTools == {toolA, toolB}
MCOneTool == {toolA}
MCNoGroups == [j \in MCTwoTools |-> {}]

\* Three requirements: two parallel tools have one each, and the third is not runnable.
MCThree == 1..3
MCToolEach == [t \in MCThree |-> IF t = 1 THEN toolA ELSE toolB]
MCThird == {3}

\* The second one has a named variant, and a shared setup.
MCSecondVaries == [t \in MCThree |-> IF t = 2 THEN {1} ELSE {}]
MCSetup == <<{2}>>

\* Only the first two of them, without variants or with one of the first.
MCTwo == 1..2
MCTwoNoVariants == [t \in MCTwo |-> {}]
MCTwoVariants == [t \in MCTwo |-> IF t = 1 THEN {1} ELSE {}]
MCTwoToolA == [t \in MCTwo |-> toolA]
MCTwoToolEach == [t \in MCTwo |-> MCToolEach[t]]

MCAllButWrite == {"crash", "cancel", "mkdir"}
MCCancel == {"cancel"}
MCCrash == {"crash"}
MCNever == {FALSE}
MCRetryOrNot == BOOLEAN

=============================================================================
