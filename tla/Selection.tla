----------------------------- MODULE Selection -----------------------------
(***************************************************************************)
(* From the catalog, the thresholds, a plan, the flags and the report of a   *)
(* run before to the jobs of a run: catalog, thresholds, plan, kb, registry  *)
(* and the first half of the orchestrator's Run.                            *)
(*                                                                          *)
(* A document is [version, commit, trs] with trs a sequence of records, and *)
(* parameters are a function from names to values.  An execution is a test  *)
(* requirement with a variant, "" for none.                                 *)
(***************************************************************************)
EXTENDS Integers, Sequences, FiniteSets

CONSTANTS
  Inputs,      \* what a run may start from: [catalog, thresholds, plan, flags, prior, retryFailed]
  Tools,       \* the registered integrations, in the order of their names:
               \* [name, provides, safe, groups, setups]
  RunSetups,   \* keys of the registered run-scope setups, in their order
  GroupSetups  \* keys of the registered group-scope setups, in their order

VARIABLES
  input,     \* what this run has started from
  pc,        \* "load", "resume", "resolve", "classify", "setup", "scheduled" or "refused"
  selected,  \* test requirements, later the executions
  scorable,  \* executions still to be scheduled
  results,   \* executions that have their verdicts: [id, variant, outcome]
  setups,    \* the shared setups still to run: [order, scope]
  jobs       \* the jobs that schedule gets

vars == <<input, pc, selected, scorable, results, setups, jobs>>

SupportedSchemaVersion == "2.0"

Elements(seq) == {seq[i] : i \in DOMAIN seq}
Ids(trs) == {tr.id : tr \in trs}

-----------------------------------------------------------------------------
(* The documents. *)

Distinct(seq) == \A i, j \in DOMAIN seq : seq[i].id = seq[j].id => i = j

\* No bars in the catalog: it is published.
ValidCatalog(doc) ==
  /\ doc.version = SupportedSchemaVersion
  /\ Distinct(doc.trs)
  /\ \A tr \in Elements(doc.trs) : ~tr.bar

\* Operators that the grader knows.
ValidThresholds(doc) ==
  /\ doc.version = SupportedSchemaVersion
  /\ Distinct(doc.trs)
  /\ \A tr \in Elements(doc.trs) : tr.ops \subseteq {"<=", "<", ">=", ">", "=="}

Joins(catalog, thresholds) ==
  /\ catalog.commit = thresholds.commit
  /\ Ids(Elements(catalog.trs)) = Ids(Elements(thresholds.trs))

\* A metric is measured by the tool of the test if the catalog does not say.
descriptors(c) ==
  [i \in DOMAIN c.slas |->
     IF c.slas[i].given \/ c.tool = "" THEN c.slas[i].by ELSE {c.tool}]

\* A parameter without a default is absent.
paramDefaults(spec) ==
  [p \in {q \in DOMAIN spec : spec[q].default # 0} |-> spec[p].default]

trFromCatalog(c) ==
  [id |-> c.id, variant |-> "", tool |-> c.tool, level |-> c.level, scorable |-> c.scorable,
   slas |-> descriptors(c), spec |-> c.spec, params |-> paramDefaults(c.spec)]

\* Variant names are distinct and there is at least one; a selector says something.
ValidPlan(plan) ==
  /\ \A id \in DOMAIN plan.variants :
       /\ plan.variants[id] # <<>>
       /\ \A i, j \in DOMAIN plan.variants[id] :
            plan.variants[id][i].name = plan.variants[id][j].name => i = j
  /\ plan.all \/ \E part \in {"ids", "tools", "levels"} : plan.select[part] # {}

NoFilter == [ids |-> {}, tools |-> {}, levels |-> {}]

\* A filter on the command line replaces the plan's.
Filter(plan, flags) ==
  IF flags # NoFilter THEN flags ELSE IF plan.all THEN NoFilter ELSE plan.select

SelectTRs(trs, f) ==
  {tr \in trs : /\ f.ids # {} => tr.id \in f.ids
                /\ f.tools # {} => tr.tool \in f.tools
                /\ f.levels # {} => tr.level \in f.levels}

-----------------------------------------------------------------------------
(* The registry. *)

Named(name) == {i \in DOMAIN Tools : Tools[i].name = name}
ForTRID(id) == {i \in DOMAIN Tools : id \in Tools[i].provides}

runnable(tr) ==
  /\ tr.tool \notin {"", "manual"}
  /\ Named(tr.tool) \cup ForTRID(tr.id) # {}

\* By its name; or else the first one, in the order of the names, that provides the test.
ResolveTool(tr) ==
  LET candidates == IF Named(tr.tool) # {} THEN Named(tr.tool) ELSE ForTRID(tr.id)
  IN Tools[CHOOSE i \in candidates : \A j \in candidates : i <= j]

-----------------------------------------------------------------------------
(* What is run again, and with which parameters. *)

\* The values of both; the first one's count.
Over(first, second) ==
  [p \in DOMAIN first \cup DOMAIN second |->
     IF p \in DOMAIN first THEN first[p] ELSE second[p]]

At(records, tr, scenario) ==
  {r \in records : r.id = tr.id /\ r.variant = tr.variant /\ r.scenario = scenario}

\* Verdicts count only where a report has no record of the execution.
ResumeExecutionsWithOptions(trs, prior, scenario, retryFailed) ==
  {tr \in trs :
     LET known == At(prior.executions, tr, scenario)
         ended == {r \in known : r.state = "completed"}
         said == IF known = {} THEN At(prior.verdicts, tr, scenario) ELSE ended
     IN said = {} \/ (retryFailed /\ \E r \in said : r.outcome \in {"fail", "error"})}

applyOverrides(trs, overrides) ==
  {[tr EXCEPT !.params = IF tr.id \in DOMAIN overrides THEN Over(overrides[tr.id], @) ELSE @] :
     tr \in trs}

\* Variants replace the execution without one.
Executions(tr, variants) ==
  IF tr.id \notin DOMAIN variants THEN {tr}
  ELSE {[tr EXCEPT !.variant = v.name, !.params = Over(v.params, @)] :
          v \in Elements(variants[tr.id])}

missingRequiredParams(tr) ==
  {p \in DOMAIN tr.spec : tr.spec[p].required /\ p \notin DOMAIN tr.params}

-----------------------------------------------------------------------------
(* What a run may start from. *)

\* What the run before has to say of a test without variants: records that are
\* completed or, in the report of an older harness, verdicts and no records.
Ended(in, c) ==
  LET Of(records) == {r \in records : /\ r.id = c.id /\ r.variant = ""
                                      /\ r.scenario = in.plan.scenario}
  IN IF Of(in.prior.executions) = {} THEN Of(in.prior.verdicts)
     ELSE {r \in Of(in.prior.executions) : r.state = "completed"}

\* settled and failed are the tests that it has ended, by what they ended with.
PriorIsTrue(in) ==
  \A c \in Elements(in.catalog.trs) :
    LET bad == \E r \in Ended(in, c) : r.outcome \in {"fail", "error"} IN
    /\ c.id \in in.prior.settled <=> Ended(in, c) # {} /\ ~bad
    /\ c.id \in in.prior.failed <=> bad

\* Tests under one label, which are one job, have tools that are scheduled alike.
LabelsAreAlike(in) ==
  \A c, d \in {e \in Elements(in.catalog.trs) : runnable(e)} :
    c.tool = d.tool => /\ ResolveTool(c).safe = ResolveTool(d).safe
                       /\ ResolveTool(c).groups = ResolveTool(d).groups

SelectionAssumption ==
  \A in \in Inputs :
    /\ Ids(Elements(in.catalog.trs)) \subseteq Nat
    /\ PriorIsTrue(in)
    /\ LabelsAreAlike(in)

-----------------------------------------------------------------------------
(* Shared setups and jobs. *)

\* Every run-scope setup, then those for a group that has a test to run.
activeSetups(trs) ==
  LET InGroup(key) == {tr \in trs : key \in ResolveTool(tr).setups}
  IN IF trs = {} THEN {}
     ELSE {[order |-> i, scope |-> trs] : i \in DOMAIN RunSetups}
            \cup {[order |-> Len(RunSetups) + i, scope |-> InGroup(GroupSetups[i])] :
                     i \in {k \in DOMAIN GroupSetups : InGroup(GroupSetups[k]) # {}}}

\* By the id: a test goes with all of its variants.
withoutTRs(trs, remove) == {tr \in trs : tr.id \notin Ids(remove)}

First(trs) == CHOOSE tr \in trs : \A other \in trs : tr.id <= other.id

\* The tool of a job is that of its first test, and is overridden by the label.
Job(label, trs, scheduling) ==
  LET tool == ResolveTool(First(trs))
      ov == IF label \in DOMAIN scheduling THEN scheduling[label]
                                           ELSE [safe |-> {}, groups |-> {}]
  IN [tool |-> label, trs |-> trs,
      safe |-> IF ov.safe = {} THEN tool.safe ELSE TRUE \in ov.safe,
      groups |-> IF ov.groups = {} THEN tool.groups ELSE UNION ov.groups]

\* Faulty variant: a test replaces the one before it that has the same label.
groupByToolLast(trs, scheduling) ==
  {Job(label, {tr \in trs : tr.tool = label /\ \A o \in trs : o.tool = label => o.id <= tr.id},
       scheduling) : label \in {tr.tool : tr \in trs}}

groupByTool(trs, scheduling) ==
  {Job(label, {tr \in trs : tr.tool = label}, scheduling) : label \in {tr.tool : tr \in trs}}

-----------------------------------------------------------------------------
(* A run up to its jobs. *)

Init ==
  /\ input \in Inputs
  /\ pc = "load"
  /\ selected = {}
  /\ scorable = {}
  /\ results = {}
  /\ setups = {}
  /\ jobs = {}

Refuse == pc' = "refused" /\ UNCHANGED <<selected, scorable, results, setups, jobs>>

\* Without thresholds a test that is to be graded cannot be run.
Load ==
  LET cat == input.catalog
      th == input.thresholds
      trs == {trFromCatalog(c) : c \in Elements(cat.trs)}
      chosen == SelectTRs(trs, Filter(input.plan, input.flags))
      bundle == th.commit # ""
  IN /\ pc = "load"
     /\ IF \/ ~ValidPlan(input.plan) \/ ~ValidCatalog(cat)
           \/ bundle /\ ~(ValidThresholds(th) /\ Joins(cat, th))
           \/ chosen = {}
           \/ ~bundle /\ \E tr \in chosen : tr.scorable
          THEN Refuse
          ELSE /\ selected' = chosen
               /\ pc' = "resume"
               /\ UNCHANGED <<scorable, results, setups, jobs>>
     /\ UNCHANGED input

\* --continue-from.
Resume ==
  /\ pc = "resume"
  /\ selected' = ResumeExecutionsWithOptions(selected, input.prior, input.plan.scenario,
                                             input.retryFailed)
  /\ pc' = "resolve"
  /\ UNCHANGED <<input, scorable, results, setups, jobs>>

\* ResolveExecutions is given what has been selected, and selects once more.
Resolve ==
  /\ pc = "resolve"
  /\ IF ~(DOMAIN input.plan.variants \subseteq Ids(selected))
       THEN Refuse
       ELSE /\ selected' = UNION {Executions(tr, input.plan.variants) :
                 tr \in applyOverrides(SelectTRs(selected, Filter(input.plan, input.flags)),
                                       input.plan.overrides)}
            /\ pc' = "classify"
            /\ UNCHANGED <<scorable, results, setups, jobs>>
  /\ UNCHANGED input

WithOutcome(trs, outcome) ==
  {[id |-> tr.id, variant |-> tr.variant, outcome |-> outcome] : tr \in trs}

\* What has no tool is skipped; what has no value for a required parameter fails.
Classify ==
  LET idle == {tr \in selected : ~runnable(tr)}
      short == {tr \in selected \ idle : missingRequiredParams(tr) # {}}
      rest == (selected \ idle) \ short
  IN /\ pc = "classify"
     /\ results' = WithOutcome(idle, "skip") \cup WithOutcome(short, "error")
     /\ scorable' = rest
     /\ setups' = activeSetups(rest)
     /\ pc' = "setup"
     /\ UNCHANGED <<input, selected, jobs>>

\* A setup fails its tests, also those that an earlier one has failed already.
Setup ==
  /\ pc = "setup"
  /\ \E s \in setups :
       /\ \A other \in setups : s.order <= other.order
       /\ setups' = setups \ {s}
       /\ \/ UNCHANGED <<scorable, results>>
          \/ /\ results' = results \cup WithOutcome(s.scope, "error")
             /\ scorable' = withoutTRs(scorable, s.scope)
  /\ UNCHANGED <<input, pc, selected, jobs>>

Schedule ==
  /\ pc = "setup"
  /\ setups = {}
  /\ jobs' = groupByTool(scorable, input.plan.scheduling)
  /\ pc' = "scheduled"
  /\ UNCHANGED <<input, selected, scorable, results, setups>>

Next == Load \/ Resume \/ Resolve \/ Classify \/ Setup \/ Schedule

Spec == Init /\ [][Next]_vars

-----------------------------------------------------------------------------
(* Properties. *)

TypeOK ==
  /\ pc \in {"load", "resume", "resolve", "classify", "setup", "scheduled", "refused"}
  /\ scorable \subseteq selected
  /\ \A r \in results : r.outcome \in {"skip", "error"}
  /\ \A j \in jobs : j.trs \subseteq selected

\* The variants a plan has for a test.
VariantsOf(id) ==
  IF id \in DOMAIN input.plan.variants
    THEN {v.name : v \in Elements(input.plan.variants[id])} ELSE {""}

\* The value that a parameter of an execution is to have, 0 for none.
ValueOf(tr, p) ==
  LET variant == {v \in UNION {Elements(input.plan.variants[id]) :
                                id \in {tr.id} \cap DOMAIN input.plan.variants} :
                    v.name = tr.variant /\ p \in DOMAIN v.params}
  IN CASE variant # {} -> (CHOOSE v \in variant : TRUE).params[p]
       [] variant = {} /\ tr.id \in DOMAIN input.plan.overrides
            /\ p \in DOMAIN input.plan.overrides[tr.id] -> input.plan.overrides[tr.id][p]
       [] OTHER -> IF p \in DOMAIN tr.spec THEN tr.spec[p].default ELSE 0

\* Every test that the filter matches, and that the run before has not ended for
\* good, is planned once per variant; each of these executions has its outcome or
\* is in exactly one job, with the values of its variant, else the plan, else the
\* catalog.  Nothing else is run.  (prior.settled, prior.failed: the tests without
\* variants that the run before really ended, by what they ended with.)
EveryTestPlaced ==
  pc = "scheduled" =>
    LET plan == input.plan
        over == input.prior.settled \cup (IF input.retryFailed THEN {} ELSE input.prior.failed)
        wanted == {c \in Elements(input.catalog.trs) :
                     SelectTRs({c}, Filter(plan, input.flags)) # {} /\ c.id \notin over}
        planned == UNION {{<<c.id, v>> : v \in VariantsOf(c.id)} : c \in wanted}
        In(w, j) == \E tr \in j.trs : <<tr.id, tr.variant>> = w
        Answered(w) == \E r \in results : <<r.id, r.variant>> = w
    IN /\ \A w \in planned :
            /\ Cardinality({j \in jobs : In(w, j)}) = IF Answered(w) THEN 0 ELSE 1
            /\ \A j \in jobs : Cardinality({tr \in j.trs : <<tr.id, tr.variant>> = w}) <= 1
       /\ \A tr \in UNION {j.trs : j \in jobs} :
            /\ <<tr.id, tr.variant>> \in planned
            /\ \A p \in DOMAIN tr.params : tr.params[p] = ValueOf(tr, p)
            /\ \A p \in DOMAIN tr.spec : ValueOf(tr, p) # 0 => p \in DOMAIN tr.params

\* Two tests that may run at the same time are of tools that allow it, unless the
\* plan speaks of their labels.
OverlapIsAllowed ==
  \A j, k \in jobs : j # k /\ j.safe /\ k.safe /\ j.groups \cap k.groups = {} =>
    \A tr \in {t \in j.trs \cup k.trs : t.tool \notin DOMAIN input.plan.scheduling} :
      /\ ResolveTool(tr).safe
      /\ \A other \in (IF tr \in j.trs THEN k.trs ELSE j.trs) :
           other.tool \notin DOMAIN input.plan.scheduling =>
             ResolveTool(tr).groups \cap ResolveTool(other).groups = {}

=============================================================================
