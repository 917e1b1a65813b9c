----------------------------- MODULE Evaluation -----------------------------
(***************************************************************************)
(* The decision pipeline (evaluate.go, meter.go): catalog, flag gate,      *)
(* entitlement, flag rules, prerequisites; then what a metered call        *)
(* charges.  Everything here is a function of its arguments: Engine says   *)
(* when each argument is read.                                             *)
(*                                                                         *)
(*   snap : [features, flags, segments, resolver]                          *)
(*     features : key -> [lifecycle, free, dependsOn : sequence of keys]   *)
(*   ec   : [tenant, user, attributes, now], tenant, user and now may be   *)
(*          Nil                                                            *)
(*   sc   : [loaded, sub, err], the subCache of one call                   *)
(*                                                                         *)
(* Decision.Detail and Decision.Lifecycle only explain and are left out.   *)
(***************************************************************************)
EXTENDS Entitlement, FlagEvaluation, Period, Counters

CONSTANT HasSubscriptions   \* built WithSubscriptions; else flags only

ASSUME HasSubscriptionsAssumption == HasSubscriptions \in BOOLEAN

Off(key, reason, entitlement, err) ==
    [feature |-> key, enabled |-> FALSE, variant |-> Nil, reason |-> reason,
     entitlement |-> entitlement, usage |-> Nil, err |-> err]

On(key, out, entitlement) ==
    [Off(key, out.reason, entitlement, Nil) EXCEPT !.enabled = TRUE, !.variant = out.variant]

NotLoaded == [loaded |-> FALSE, sub |-> Nil, err |-> Nil]
Loaded(sub) == [loaded |-> TRUE, sub |-> sub,
                err |-> IF sub = Nil THEN "no_subscription" ELSE Nil]
LoadFailed == [loaded |-> TRUE, sub |-> Nil, err |-> "store"]

\* The evaluation cannot go on before the subscription is loaded.
Suspended(key) == Off(key, "suspended", Nil, Nil)
IsSuspended(d) == d.reason = "suspended"

Text(id) == [text |-> id, number |-> Nil, elems |-> Nil]
List(ids) == [text |-> ids, number |-> Nil, elems |-> [i \in DOMAIN ids |-> Text(ids[i])]]

\* The reserved attributes override the caller's; plan and addons only when a
\* subscription was used.
Attributes(snap, ec, sub, now) ==
    LET plan == EffectivePlan(sub, now)
        own == ("tenant" :> ec.tenant) @@ ("user" :> ec.user)
                 @@ (IF sub = Nil THEN <<>> ELSE "plan" :> plan)
        addons == IF sub = Nil THEN <<>>
                  ELSE "addons" :> List(EffectiveAddOns(snap.resolver, sub, now))
        given == {a \in DOMAIN own : own[a] # Nil}
        callers == DOMAIN ec.attributes \ DOMAIN own
    IN addons @@ [a \in given |-> Text(own[a])]
         @@ [a \in callers |-> ec.attributes[a]]

\* The entitlement step lets the evaluation go on.
Cleared(tenant, sc, res) ==
    tenant # Nil /\ sc.loaded /\ sc.err # "store" /\ Entitled(res)

\* The decision that ends the evaluation otherwise.
Refused(key, tenant, sc, res) ==
    IF tenant = Nil THEN Off(key, "not_entitled", Nil, Nil)
    ELSE IF ~sc.loaded THEN Suspended(key)
    ELSE IF sc.err = "store" THEN Off(key, "store_error", Nil, "store")
    ELSE IF res.kind = "denied" THEN Off(key, "denied", res, Nil)
    ELSE Off(key, "not_entitled", res, res.err)

\* The prerequisites of key in DependsOn order: the first that is off decides.
AfterPrerequisites(key, pre, entitlement, decision) ==
    LET first == SelectInSeq(pre, LAMBDA d : ~d.enabled)
    IN IF first = 0 THEN decision
       ELSE IF IsSuspended(pre[first]) THEN Suspended(key)
       ELSE Off(key, "prerequisite", entitlement, pre[first].err)

Gated(f) == HasSubscriptions /\ ~f.free

Dark(f) == f.lifecycle \in {"draft", "retired"}

\* What the flag of feature k serves.
Served(snap, k, ec, sub, now) ==
    IF k \in DOMAIN snap.flags
    THEN Serve(snap.flags[k], k, snap.segments, Attributes(snap, ec, sub, now))
    ELSE Outcome(TRUE, Nil, "no_flag")

\* The decision on feature k, given those on its prerequisites.
EvaluateFeature(snap, k, ec, sc, now, pre) ==
    LET f == snap.features[k]
        inactive == IF k \in DOMAIN snap.flags THEN Inactive(snap.flags[k], now) ELSE Nil
        sub == IF Gated(f) THEN sc.sub ELSE Nil
        res == IF Gated(f) THEN Resolve(snap.resolver, sub, k, now) ELSE Nil
        out == Served(snap, k, ec, sub, now)
    IN IF Dark(f) THEN Off(k, "lifecycle", Nil, Nil)
       ELSE IF inactive # Nil THEN Off(k, inactive, Nil, Nil)
       ELSE IF Gated(f) /\ ~Cleared(ec.tenant, sc, res) THEN Refused(k, ec.tenant, sc, res)
       ELSE IF ~out.on THEN Off(k, out.reason, res, Nil)
       ELSE AfterPrerequisites(k, pre, res, On(k, out, res))

\* The decisions on the prerequisites of feature k.
Prerequisites(snap, k, decided) ==
    [i \in DOMAIN snap.features[k].dependsOn |-> decided[snap.features[k].dependsOn[i]]]

Evaluate(snap, key, ec, sc, now) ==
    LET verdict[k \in DOMAIN snap.features] ==
            EvaluateFeature(snap, k, ec, sc, now, Prerequisites(snap, k, verdict))
    IN IF key \in DOMAIN snap.features
       THEN verdict[key]
       ELSE Off(key, "unknown_feature", Nil, Nil)

-----------------------------------------------------------------------------
Unlimited == [max |-> -1, period |-> "none"]

Limit(d) ==
    IF d.entitlement # Nil /\ d.entitlement.limit # Nil THEN d.entitlement.limit ELSE Unlimited

Anchor(sc) == IF sc.sub = Nil THEN Nil ELSE sc.sub.anchor

\* Where, and up to what, an enabled decision is metered.
Meter(d, ec, sc, now) ==
    LET limit == Limit(d)
        period == PeriodBounds(limit.period, Anchor(sc), now)
    IN [key |-> [tenant |-> ec.tenant, feature |-> d.feature,
                 period |-> PeriodKey(limit.period, Anchor(sc), now)],
        max |-> limit.max, start |-> period.start, resetsAt |-> period.end]

AtLeastZero(n) == IF n < 0 THEN 0 ELSE n

UsageInfo(total, meter) ==
    [used |-> total, max |-> meter.max,
     remaining |-> IF meter.max < 0 THEN -1 ELSE AtLeastZero(Wrap(meter.max - total)),
     period |-> meter.key.period, start |-> meter.start, resetsAt |-> meter.resetsAt]
=============================================================================
