----------------------------- MODULE Validation -----------------------------
(***************************************************************************)
(* validate (validate.go) and NewSnapshot (snapshot.go): which             *)
(* configurations the engine will run.  A team edits the parts of a        *)
(* configuration in any order; at every point NewSnapshot either refuses   *)
(* it, with an error per fault, or builds what resolver and evaluator read.*)
(*                                                                         *)
(*   features : sequence of [key, lifecycle, free, dependsOn : sequence]   *)
(*   segments : sequence of [key, rules : sequence of sequences of         *)
(*              conditions]                                                *)
(*   flags    : sequence of [feature, variants : sequence, from, until,    *)
(*              rules : sequence of [conditions : sequence, serve],        *)
(*              default]                                                   *)
(*   plans    : sequence of [id, extends, ents]                            *)
(*   addons   : sequence of [id, requires : sequence, ents]                *)
(*   ents     : sequence of [feature, limit : [max, period] or Nil]        *)
(*                                                                         *)
(* Conditions and serves are those of FlagEvaluation; an error is the      *)
(* field it names.                                                         *)
(* What the search for cyclic dependencies adds is DependencyCycles'       *)
(* concern: by its theorems there is an error if and only if there is a    *)
(* cycle.                                                                  *)
(***************************************************************************)
EXTENDS Entitlement, FlagEvaluation

CONSTANTS
    ValidKeys,        \* the keys that match catalog.keyRE
    LimitPeriods,     \* the valid periods of a limit
    Compiles(_, _),   \* op, value: a well-formed regexp or version
    Whole, Tolerance, \* 100 percent and 1e-9, in the unit of percentages
    FeatureLists, SegmentLists, FlagLists, PlanLists, AddOnLists  \* the edits

\* Lists are lists, and a window is bounded by instants.
ASSUME ListsAssumption ==
    /\ \A list \in FeatureLists \cup PlanLists \cup AddOnLists : list \in Seq(ToSet(list))
    /\ \A list \in PlanLists \cup AddOnLists : \A x \in ToSet(list) : x.ents \in Seq(ToSet(x.ents))
    /\ \A list \in FlagLists : \A fl \in ToSet(list) : {fl.from, fl.until} \subseteq Int \cup {Nil}
    /\ Nil \notin Int

VARIABLE config

ErrorIf(field, fault) == IF fault THEN {field} ELSE {}

Each(list, ErrorsOf(_)) == UNION {ErrorsOf(x) : x \in ToSet(list)}

\* An entry with an invalid key, or with one that an earlier entry has.
CheckKeys(field, keys, valid) ==
    ErrorIf(field, ~(ToSet(keys) \subseteq valid /\ IsInjective(keys)))

Project(list, field) == [i \in DOMAIN list |-> list[i][field]]

-----------------------------------------------------------------------------
Lifecycles == {"draft", "beta", "ga", "deprecated", "retired"}

UnknownOnly(f, known) == ~(ToSet(f.dependsOn) \subseteq known)

Misdirected(f, known) == f.key \in ToSet(f.dependsOn) \/ ~(ToSet(f.dependsOn) \subseteq known)

\* A set of features each of which needs another one of the set.
HasCycle(features) ==
    \E S \in (SUBSET DOMAIN features) \ {{}} : \A i \in S : \E j \in S :
        /\ features[j].key # features[i].key
        /\ features[j].key \in ToSet(features[i].dependsOn)
        /\ \A k \in DOMAIN features : features[k].key = features[j].key => k <= j

CheckFeatures(features, known) ==
    CheckKeys("features.key", Project(features, "key"), ValidKeys)
      \cup Each(features, LAMBDA f :
               ErrorIf("lifecycle", f.lifecycle \notin Lifecycles)
                 \cup ErrorIf("dependsOn[j]", Misdirected(f, known)))
      \cup ErrorIf("dependsOn", HasCycle(features))

-----------------------------------------------------------------------------
ValidOps ==
    {"eq", "neq", "in", "nin", "contains", "startsWith", "endsWith", "matches",
     "gt", "gte", "lt", "lte", "semverGt", "semverGte", "semverLt", "semverLte",
     "exists", "notExists", "inSegment", "notInSegment"}

OperandOK(c) ==
    CASE c.op \in {"exists", "notExists"} -> c.value = Nil /\ c.values = {}
      [] c.op \in {"in", "nin"} -> c.values # {}
      [] c.op \in {"matches", "semverGt", "semverGte", "semverLt", "semverLte"} ->
             c.value # Nil /\ Compiles(c.op, c.value)
      [] OTHER -> c.value # Nil

SegmentOf(c) == IF c.value = Nil THEN Nil ELSE c.value.text

KnownSegmentIfIn(c, segments) == c.op = "notInSegment" \/ SegmentOf(c) \in segments

KnownSegment(c, segments) == SegmentOf(c) \in segments

\* segments is Nil inside a segment, where segments do not nest.
CheckCondition(c, segments) ==
    IF c.op \notin ValidOps THEN {"op"}
    ELSE IF c.op \in SegmentOps
    THEN IF segments = Nil THEN {"op"}
         ELSE IF c.attribute # Nil THEN {"attribute"}
         ELSE ErrorIf("value", ~KnownSegment(c, segments))
    ELSE ErrorIf("attribute", c.attribute = Nil) \cup ErrorIf("value", ~OperandOK(c))

CheckConditions(conditions, segments) ==
    Each(conditions, LAMBDA c : CheckCondition(c, segments))

CheckSegments(list) ==
    CheckKeys("segments.key", Project(list, "key"), ValidKeys)
      \cup Each(list, LAMBDA s :
               ErrorIf("rules", s.rules = <<>>)
                 \cup Each(s.rules, LAMBDA conditions :
                          ErrorIf("conditions", conditions = <<>>)
                            \cup CheckConditions(conditions, Nil)))

Undeclared(variant, variants) == variant # Nil /\ variant \notin variants

ExceedsExactly(total) == total > Whole

\* More than everyone, beyond what rounding explains.
ExceedsWhole(total) == total > Whole + Tolerance

CheckSplitOnlySum(split, variants) ==
    ErrorIf("split", ExceedsWhole(Shares(split)[Len(split)]))

CheckSplit(split, variants) ==
    Each(split, LAMBDA p :
        ErrorIf("percent", p.percent < 0)
          \cup ErrorIf("variant", Undeclared(p.variant, variants)))
      \cup ErrorIf("split", ExceedsWhole(Shares(split)[Len(split)]))

CheckServe(serve, variants) ==
    ErrorIf("variant", Undeclared(serve.variant, variants))
      \cup IF serve.rollout = Nil THEN {} ELSE CheckSplit(serve.rollout.split, variants)

ClosedIfReversed(fl) == fl.from # Nil /\ fl.until # Nil /\ fl.until < fl.from

Closed(fl) == fl.from # Nil /\ fl.until # Nil /\ fl.until <= fl.from

CheckFlags(list, known, segments) ==
    CheckKeys("flags.feature", Project(list, "feature"), known)
      \cup Each(list, LAMBDA fl :
               LET variants == ToSet(fl.variants) \ {Nil}
               IN CheckKeys("variants.key", fl.variants, variants)
                    \cup ErrorIf("window", Closed(fl))
                    \cup Each(fl.rules, LAMBDA r :
                             CheckConditions(r.conditions, segments)
                               \cup CheckServe(r.serve, variants))
                    \cup CheckServe(fl.default, variants))

-----------------------------------------------------------------------------
CheckEntitlements(ents, known) ==
    CheckKeys("entitlements.feature", Project(ents, "feature"), known)
      \cup Each(ents, LAMBDA e :
               IF e.limit = Nil THEN {}
               ELSE ErrorIf("max", e.limit.max < 0)
                      \cup ErrorIf("period", e.limit.period \notin LimitPeriods))

\* planSet keeps the first plan of an id; byID in NewResolver the last.
FirstOf(plans, id) == plans[SelectInSeq(plans, LAMBDA p : p.id = id)]
LastOf(plans, id) == plans[SelectLastInSeq(plans, LAMBDA p : p.id = id)]

CyclicAtOnce(plans, plan) == plan.extends = plan.id

\* The plans that a walk along Extends comes to, one at each step: Nil when it
\* has ended or left the known plans.
Walk(start, extends, n) ==
    LET id[i \in 0 .. n] ==
            IF i = 0 THEN start
            ELSE IF id[i - 1] \in DOMAIN extends THEN extends[id[i - 1]] ELSE Nil
    IN id

ComesBack(plan, walk, n) == walk[n] # Nil /\ walk[n] \in {plan.id} \cup {walk[m] : m \in 0 .. n - 1}

\* No walk comes to more plans than there are.
Cyclic(plans, plan) ==
    LET extends == [id \in ToSet(Project(plans, "id")) \ {Nil} |-> FirstOf(plans, id).extends]
        walk == Walk(plan.extends, extends, Len(plans))
    IN \E n \in 0 .. Len(plans) : ComesBack(plan, walk, n)

CheckPlans(plans, known) ==
    LET ids == ToSet(Project(plans, "id")) \ {Nil}
    IN CheckKeys("plans.id", Project(plans, "id"), ids)
         \cup Each(plans, LAMBDA p :
                  CheckEntitlements(p.ents, known)
                    \cup ErrorIf("extends",
                                 \/ (p.extends # Nil /\ p.extends \notin ids)
                                 \/ Cyclic(plans, p)))

CheckAddOns(addons, plans, known) ==
    LET ids == ToSet(Project(addons, "id")) \ {Nil}
        planIDs == ToSet(Project(plans, "id")) \ {Nil}
    IN CheckKeys("addons.id", Project(addons, "id"), ids)
         \cup Each(addons, LAMBDA a :
                  CheckEntitlements(a.ents, known)
                    \cup ErrorIf("requires", ~(ToSet(a.requires) \subseteq planIDs)))

-----------------------------------------------------------------------------
\* NewResolver refuses an Extends chain that is cyclic or leads to an unknown
\* plan, and an add-on that requires one.
Refused(plans, addons) ==
    LET known == ToSet(Project(plans, "id"))
        extends == [id \in known \ {Nil} |-> LastOf(plans, id).extends]
        fails(p) ==
            LET walk == Walk(p.extends, extends, Len(plans))
            IN \E n \in 0 .. Len(plans) :
                   ComesBack(p, walk, n) \/ walk[n] \notin DOMAIN extends \cup {Nil}
    IN \/ \E p \in ToSet(plans) : fails(p)
       \/ \E a \in ToSet(addons) : ~(ToSet(a.requires) \subseteq known)

\* Of two entitlements to a feature the later counts.
Entitlements(ents) ==
    [f \in ToSet(Project(ents, "feature")) |->
        ents[SelectLastInSeq(ents, LAMBDA e : e.feature = f)].limit]

PlansOf(plans) ==
    [id \in ToSet(Project(plans, "id")) |->
        [extends |-> LastOf(plans, id).extends, ents |-> Entitlements(LastOf(plans, id).ents)]]

AddOnsOf(addons) ==
    [id \in ToSet(Project(addons, "id")) |->
        LET a == addons[SelectLastInSeq(addons, LAMBDA b : b.id = id)]
        IN [requires |-> ToSet(a.requires), ents |-> Entitlements(a.ents)]]

ResolverOf(plans, addons) == NewResolver(PlansOf(plans), AddOnsOf(addons))

\* The limits of a feature that are compared: those of the flattened plans and
\* those of the add-ons.
LimitsOfPlans(plans, addons, feature) ==
    LET flat == ResolverOf(plans, addons).flat
    IN IF Refused(plans, addons) THEN {}
       ELSE {flat[id][feature] : id \in {p \in DOMAIN flat \ {Nil} : feature \in DOMAIN flat[p]}}

LimitsOfAddOns(addons, feature) ==
    {e.limit : e \in {x \in UNION {ToSet(a.ents) : a \in ToSet(addons)} : x.feature = feature}}

LimitsOfPlansOnly(plans, addons, feature) == LimitsOfPlans(plans, addons, feature)

LimitsOf(plans, addons, feature) ==
    LimitsOfPlans(plans, addons, feature) \cup LimitsOfAddOns(addons, feature)

CheckPeriods(plans, addons) ==
    LET ents == UNION {ToSet(x.ents) : x \in ToSet(plans) \cup ToSet(addons)}
        periods(f) == {l.period : l \in LimitsOf(plans, addons, f) \ {Nil}} \cap LimitPeriods
    IN ErrorIf("periods", \E e \in ents : \E p, q \in periods(e.feature) : p # q)

-----------------------------------------------------------------------------
Validate(c) ==
    LET known == ToSet(Project(c.features, "key")) \cap ValidKeys
        segments == ToSet(Project(c.segments, "key")) \cap ValidKeys
    IN CheckFeatures(c.features, known)
         \cup CheckSegments(c.segments)
         \cup CheckFlags(c.flags, known, segments)
         \cup CheckPlans(c.plans, known)
         \cup CheckAddOns(c.addons, c.plans, known)
         \cup CheckPeriods(c.plans, c.addons)

Accepted == Validate(config) = {}

Edit(part, lists) == \E list \in lists : config' = [config EXCEPT ![part] = list]

Start == config = [features |-> <<>>, segments |-> <<>>, flags |-> <<>>,
                  plans |-> <<>>, addons |-> <<>>]

EditFeatures == Edit("features", FeatureLists)
EditSegments == Edit("segments", SegmentLists)
EditFlags == Edit("flags", FlagLists)
EditPlans == Edit("plans", PlanLists)
EditAddOns == Edit("addons", AddOnLists)

EditPart == EditFeatures \/ EditSegments \/ EditFlags \/ EditPlans \/ EditAddOns

-----------------------------------------------------------------------------
\* "unreachable: validate() already rejected these configs" (snapshot.go:61):
\* NewResolver, which walks the plans its own way, never refuses them.
ResolverBuilds == Accepted => ~Refused(config.plans, config.addons)

\* "Periods are equal by snapshot validation" (resolver.go:216): whichever plan
\* a tenant moves to and whatever it buys, a feature has one period, so that
\* limits can be summed and a change of plan keeps the counter.
PeriodsAgree ==
    Accepted =>
        LET r == ResolverOf(config.plans, config.addons)
            limits(f) ==
                {r.flat[p][f] : p \in {q \in DOMAIN r.flat : f \in DOMAIN r.flat[q]}}
                  \cup {r.addons[a].ents[f] : a \in {b \in DOMAIN r.addons : f \in DOMAIN r.addons[b].ents}}
        IN \A f \in ToSet(Project(config.features, "key")) :
               \A k, l \in limits(f) \ {Nil} : k.period = l.period

\* evaluate's recursion ends (evaluate.go:129-130): prerequisites exist, and
\* following them never comes back.  The search for cycles skips unknown and
\* own keys (validate.go:328), the pass before it reports them.
PrerequisitesEnd ==
    Accepted =>
        LET keys == ToSet(Project(config.features, "key"))
            needs(k) == UNION {ToSet(f.dependsOn) : f \in {g \in ToSet(config.features) : g.key = k}}
        IN /\ \A k \in keys : needs(k) \subseteq keys
           /\ \A S \in (SUBSET keys) \ {{}} : \E k \in S : needs(k) \cap S = {}

\* A segment operator never asks for a segment that is not there, which would
\* make inSegment match nobody and notInSegment everybody, also in the
\* segments themselves (evaluator.go:52-60, condition.go:56-66).
SegmentsExist ==
    Accepted =>
        LET conditions(rules) == UNION {ToSet(r) : r \in ToSet(rules)}
            keys == ToSet(Project(config.segments, "key"))
        IN /\ \A fl \in ToSet(config.flags) :
                  \A c \in conditions(Project(fl.rules, "conditions")) :
                      c.op \in SegmentOps => SegmentOf(c) \in keys
           /\ \A s \in ToSet(config.segments) :
                  \A c \in conditions(s.rules) : c.op \notin SegmentOps

\* Whatever branch of a flag serves a named variant, the decision carries that
\* variant and not a nil one (flag.go:102-113).
VariantsExist ==
    Accepted =>
        \A fl \in ToSet(config.flags) :
            LET serves == {fl.default} \cup ToSet(Project(fl.rules, "serve"))
                named(s) == IF s.rollout = Nil THEN {s.variant}
                            ELSE ToSet(Project(s.rollout.split, "variant"))
                declared == [fl EXCEPT !.variants = ToSet(@)]
            IN \A s \in serves : \A v \in named(s) \ {Nil} : Variant(declared, v) = v

\* A flag that is switched on is in force at some time (flag.go:88-100).
WindowOpens ==
    Accepted =>
        \A fl \in ToSet(config.flags) : fl.enabled =>
            \E now \in ({fl.from, 0} \ {Nil}) \cup (IF fl.until = Nil THEN {} ELSE {fl.until - 1}) :
                Inactive(fl, now) = Nil
=============================================================================
