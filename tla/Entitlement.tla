---------------------------- MODULE Entitlement ----------------------------
(***************************************************************************)
(* Commercial access (entitlement/resolver.go, subscription.go): plans     *)
(* with inheritance, add-ons, grants and trials, resolved to an            *)
(* entitlement and its limit.                                              *)
(*                                                                         *)
(*   plans  : plan id   -> [extends : plan id or Nil, ents]                *)
(*   addons : add-on id -> [requires : set of plan ids, ents]              *)
(*   ents   : feature   -> limit [max, period], or Nil for unlimited       *)
(*   sub    : [plan, addons : sequence, trial : [plan, until] or Nil,      *)
(*             grants : sequence of [feature, deny, limit, until, reason], *)
(*             anchor : instant or Nil], or Nil                            *)
(*                                                                         *)
(* ents is a function because validation refuses duplicate entitlements.   *)
(***************************************************************************)
EXTENDS GoValues, SequencesExt

\* Root first, descendants override.
Override(ents, inherited) ==
    [f \in DOMAIN ents \cup DOMAIN inherited |->
        IF f \in DOMAIN ents THEN ents[f] ELSE inherited[f]]

\* Plans extend plans that there are, and every chain of Extends ends.
ValidPlans(plans) ==
    /\ Nil \notin DOMAIN plans
    /\ \A p \in DOMAIN plans : plans[p].extends \in DOMAIN plans \cup {Nil}
    /\ \A S \in (SUBSET DOMAIN plans) \ {{}} : \E p \in S : plans[p].extends \notin S

\* What NewResolver builds from plans whose Extends chains end.
NewResolver(plans, addons) ==
    LET parent(p) == plans[p].extends
        flat[p \in DOMAIN plans] ==
            Override(plans[p].ents, IF parent(p) = Nil THEN <<>> ELSE flat[parent(p)])
        ancestors[p \in DOMAIN plans] ==
            {p} \cup (IF parent(p) = Nil THEN {} ELSE ancestors[parent(p)])
    IN [flat |-> flat, ancestors |-> ancestors, addons |-> addons]

ActiveThrough(g, now) == g.until = Nil \/ now <= g.until

Active(g, now) == g.until = Nil \/ now < g.until

EffectivePlan(sub, now) ==
    IF sub.trial # Nil /\ now < sub.trial.until THEN sub.trial.plan ELSE sub.plan

RequiresExactly(r, requires, effective) == effective \in requires

RequiresSatisfied(r, requires, effective) ==
    effective \in DOMAIN r.ancestors /\ requires \cap r.ancestors[effective] # {}

Effective(r, a, plan) ==
    /\ a \in DOMAIN r.addons
    /\ r.addons[a].requires = {} \/ RequiresSatisfied(r, r.addons[a].requires, plan)

EffectiveAddOns(r, sub, now) ==
    SelectSeq(sub.addons, LAMBDA a : Effective(r, a, EffectivePlan(sub, now)))

\* limits : place -> limit, with places in 0 .. n.
SumMax(limits, n) ==
    LET sum[i \in 0 .. n] ==
            (IF i = 0 THEN 0 ELSE sum[i - 1]) + (IF i \in DOMAIN limits THEN limits[i].max ELSE 0)
    IN Wrap(sum[n])

LastLimit(limits, n) == IF Nil \in Range(limits) THEN Nil ELSE limits[Max(DOMAIN limits)]

\* Any unlimited source dominates.
SumLimits(limits, n) ==
    IF Nil \in Range(limits)
    THEN Nil
    ELSE [max |-> SumMax(limits, n), period |-> limits[Max(DOMAIN limits)].period]

Resolution(kind, source, limit, err) ==
    [kind |-> kind, source |-> source, limit |-> limit, err |-> err]

\* The places in the list of the grants that are in force for a feature.
GrantsFor(sub, feature, now) ==
    {i \in DOMAIN sub.grants : sub.grants[i].feature = feature /\ Active(sub.grants[i], now)}

PlanGives(r, plan, feature) == plan \in DOMAIN r.flat /\ feature \in DOMAIN r.flat[plan]

\* The places in the list of the effective add-ons that give a feature.
AddOnsWith(r, sub, feature, plan) ==
    {i \in DOMAIN sub.addons : /\ Effective(r, sub.addons[i], plan)
                               /\ feature \in DOMAIN r.addons[sub.addons[i]].ents}

\* What the effective plan gives, at place 0, and what the add-ons give.
LimitsFor(r, sub, feature, now) ==
    LET plan == EffectivePlan(sub, now)
    IN [i \in AddOnsWith(r, sub, feature, plan)
                \cup (IF PlanGives(r, plan, feature) THEN {0} ELSE {}) |->
            IF i = 0 THEN r.flat[plan][feature] ELSE r.addons[sub.addons[i]].ents[feature]]

ResolveSources(r, sub, feature, now) ==
    LET plan == EffectivePlan(sub, now)
        err == IF plan # Nil /\ plan \notin DOMAIN r.flat THEN "unknown_plan" ELSE Nil
        limits == LimitsFor(r, sub, feature, now)
        limit == SumLimits(limits, Len(sub.addons))
    IN IF DOMAIN limits = {} THEN Resolution("none", Nil, Nil, err)
       ELSE IF 0 \in DOMAIN limits THEN Resolution("plan", plan, limit, err)
       ELSE Resolution("addon", sub.addons[Min(DOMAIN limits)], limit, err)

ResolveFirstGrant(r, sub, feature, now) ==
    LET grants == GrantsFor(sub, feature, now)
        first == sub.grants[Min(grants)]
    IN IF grants = {} THEN ResolveSources(r, sub, feature, now)
       ELSE IF first.deny THEN Resolution("denied", first.reason, Nil, Nil)
       ELSE Resolution("grant", first.reason, first.limit, Nil)

\* An active deny wins over every allow; the first active allow replaces what
\* the plan and the add-ons give.
Resolve(r, sub, feature, now) ==
    LET denies == {i \in GrantsFor(sub, feature, now) : sub.grants[i].deny}
        allows == GrantsFor(sub, feature, now) \ denies
        first(places) == sub.grants[Min(places)]
    IN IF sub = Nil THEN Resolution("none", Nil, Nil, Nil)
       ELSE IF denies # {} THEN Resolution("denied", first(denies).reason, Nil, Nil)
       ELSE IF allows # {} THEN Resolution("grant", first(allows).reason, first(allows).limit, Nil)
       ELSE ResolveSources(r, sub, feature, now)

Entitled(res) == res.kind \in {"grant", "plan", "addon"}
=============================================================================
