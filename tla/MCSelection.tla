---------------------------- MODULE MCSelection -----------------------------
(* Inputs for Selection: a catalog of eight tests and what it may be run with. *)
EXTENDS Integers, Sequences, TLC

Tool(name, provides, safe, groups, setups) ==
  [name |-> name, provides |-> provides, safe |-> safe, groups |-> groups, setups |-> setups]

Registered ==
  <<Tool("example", {1, 2}, TRUE, {}, {}),
    Tool("kube-burner-ocp", {3, 4}, FALSE, {"kube-burner", "cdi", "storage"}, {}),
    Tool("virtbench clone", {5}, FALSE, {"cluster"}, {"ssh"}),
    Tool("virtbench drain", {6}, FALSE, {"cluster"}, {"ssh"})>>

\* One setup for every run and two for groups, one of them without tests.
ForRun == <<"all">>
ForGroups == <<"other", "ssh">>

\* Two tests take parameters: a size that has to be given, and a count.
Sized == [size |-> [required |-> TRUE, default |-> 0],
          count |-> [required |-> FALSE, default |-> 1]]

Test(id, tool, level) ==
  [id |-> id, tool |-> tool, level |-> level, scorable |-> id # 1, bar |-> FALSE,
   slas |-> [m \in {"time"} |-> [given |-> FALSE, by |-> {}]],
   spec |-> IF id \in {2, 5} THEN Sized ELSE <<>>]

\* By name, by the label that a knowledge base gives it, by a human, not integrated.
GoodCatalog ==
  [version |-> "2.0", commit |-> "c1",
   trs |-> <<Test(1, "example", 1), Test(2, "example", 1),
             Test(3, "kube-burner-ocp pvc-density", 1), Test(4, "kube-burner-ocp", 2),
             Test(5, "virtbench clone", 2), Test(6, "virtbench drain", 2),
             Test(7, "manual", 2), Test(8, "other", 1)>>]

Catalogs == {GoodCatalog, [GoodCatalog EXCEPT !.trs[2].id = 1],
             [GoodCatalog EXCEPT !.trs[2].bar = TRUE]}

GoodThresholds ==
  [version |-> "2.0", commit |-> "c1", trs |-> [i \in 1..8 |-> [id |-> i, ops |-> {"<="}]]]

\* As it should be; none; of another commit; incomplete.
Thresholds == {GoodThresholds, [GoodThresholds EXCEPT !.commit = ""],
               [GoodThresholds EXCEPT !.commit = "c0"], [GoodThresholds EXCEPT !.trs = Tail(@)]}

Unfiltered == [ids |-> {}, tools |-> {}, levels |-> {}]
Everything ==
  [all |-> TRUE, select |-> Unfiltered, overrides |-> <<>>, variants |-> <<>>,
   scheduling |-> <<>>, scenario |-> ""]

Variant(name, params) == [name |-> name, params |-> params]
Elaborate ==
  [Everything EXCEPT
     !.overrides = (2 :> [size |-> 2]) @@ (5 :> [size |-> 2, count |-> 3]),
     !.variants = (5 :> <<Variant("small", [size |-> 4]), Variant("large", [count |-> 5])>>),
     !.scheduling = ("virtbench drain" :> [safe |-> {TRUE}, groups |-> {{"nodes"}}])]

Plans ==
  {Everything, Elaborate,
   [Elaborate EXCEPT !.all = FALSE, !.select.levels = {2}, !.scenario = "load80"],
   [Elaborate EXCEPT !.variants = (5 :> <<Variant("small", <<>>), Variant("small", <<>>)>>)],
   [Everything EXCEPT !.all = FALSE]}

Flags == {Unfiltered, [Unfiltered EXCEPT !.ids = {1}],
          [Unfiltered EXCEPT !.tools = {"virtbench clone", "example"}]}

PriorRecord(id, variant, scenario, state, outcome) ==
  [id |-> id, variant |-> variant, scenario |-> scenario, state |-> state, outcome |-> outcome]
NoReport == [executions |-> {}, verdicts |-> {}, settled |-> {}, failed |-> {}]

\* Tests 1 and 6 have verdicts only, as in a report of an older harness; test 4 was
\* cancelled, a variant of test 5 was run, and test 7 was seen to in another scenario.
Before ==
  [executions |-> {PriorRecord(2, "", "", "completed", "pass"),
                   PriorRecord(3, "", "", "completed", "fail"),
                   PriorRecord(4, "", "", "aborted", "error"), PriorRecord(5, "", "", "queued", ""),
                   PriorRecord(5, "small", "", "completed", "pass")},
   verdicts |-> {PriorRecord(1, "", "", "", "pass"), PriorRecord(3, "", "", "", "fail"),
                 PriorRecord(4, "", "", "", "error"), PriorRecord(6, "", "", "", "error"),
                 PriorRecord(7, "", "load80", "", "skip")},
   settled |-> {1, 2}, failed |-> {3, 6}]

MCInputs ==
  [catalog : Catalogs, thresholds : Thresholds, plan : Plans, flags : Flags,
   prior : {NoReport}, retryFailed : {FALSE}]
  \cup
  [catalog : {GoodCatalog}, thresholds : {GoodThresholds}, plan : {Everything, Elaborate},
   flags : {Unfiltered}, prior : {Before}, retryFailed : BOOLEAN]

=============================================================================
