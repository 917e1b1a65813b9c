------------------------------ MODULE MCEngine ------------------------------
(* Two snapshots of a small product, either of which may replace the other  *)
(* at any time: in "old" the feature api is on the plans free and pro and   *)
(* needs core, behind a targeted flag; in "new" the plan free is gone, pro  *)
(* is metered by the day, and core is rolled out to a part of the tenants.  *)
EXTENDS Engine

MCKeys == {"api", "core", "site", "beta"}

MCLimit(max, period) == [max |-> max, period |-> period]
MCPlan(extends, ents) == [extends |-> extends, ents |-> ents]
MCFeature(lifecycle, free, deps) == [lifecycle |-> lifecycle, free |-> free, dependsOn |-> deps]

MCServe(on) == [on |-> on, variant |-> Nil, rollout |-> Nil]
MCRollout(percent) ==
    [on |-> FALSE, variant |-> Nil,
     rollout |-> [bucketBy |-> Nil, seed |-> Nil,
                  split |-> <<[variant |-> "blue", percent |-> percent],
                              [variant |-> "green", percent |-> 2000]>>]]
MCCondition(attribute, op, value) ==
    [attribute |-> attribute, op |-> op, value |-> Text(value), values |-> {}]
MCRule(c, serve) == [conditions |-> {c}, serve |-> serve]
MCFlag(enabled, from, until, rules, default) ==
    [enabled |-> enabled, from |-> from, until |-> until,
     variants |-> {"blue", "green"}, rules |-> rules, default |-> default]

MCFeatures ==
    "api"  :> MCFeature("ga", FALSE, <<"core">>) @@
    "core" :> MCFeature("beta", FALSE, <<>>) @@
    "site" :> MCFeature("ga", TRUE, <<"core">>) @@
    "beta" :> MCFeature("draft", TRUE, <<>>)

MCSegments == "trusted" :> {{MCCondition("tenant", "eq", "acme")}}

MCAddOns == "pack" :> [requires |-> {}, ents |-> "core" :> Nil]

MCOld ==
    [features |-> MCFeatures,
     segments |-> MCSegments,
     flags |-> "api" :> MCFlag(TRUE, Nil, Nil,
                    <<MCRule(MCCondition(Nil, "inSegment", "trusted"), MCServe(TRUE))>>,
                    MCServe(FALSE)),
     resolver |-> NewResolver(
        "free" :> MCPlan(Nil, "api" :> MCLimit(1, "month") @@ "core" :> Nil) @@
        "pro"  :> MCPlan("free", "api" :> MCLimit(2, "month")), MCAddOns)]

MCNew ==
    [features |-> MCFeatures,
     segments |-> MCSegments,
     flags |-> "core" :> MCFlag(TRUE, Nil, 33, <<>>, MCRollout(5000)),
     resolver |-> NewResolver(
        "pro" :> MCPlan(Nil, "api" :> MCLimit(1, "day") @@ "core" :> Nil), MCAddOns)]

MCContents == "old" :> MCOld @@ "new" :> MCNew

\* bucketOf puts acme at 54.83; 20, 50 and their sum are floats.
MCHash(seed, text) == 5483
MCRound(x) == x
MCTextTest(op, text, operand) == text = operand

MCSub(plan, addons, trial, grants) ==
    [plan |-> plan, addons |-> addons, trial |-> trial, grants |-> grants, anchor |-> Nil]
MCSubFree == MCSub("free", <<>>, [plan |-> "pro", until |-> 31], <<>>)
MCSubPro == MCSub("pro", <<"pack">>, Nil, <<>>)
MCSubDenied ==
    MCSub("pro", <<>>, Nil,
          <<[feature |-> "core", deny |-> TRUE, limit |-> Nil, until |-> Nil, reason |-> "abuse"]>>)

MCContext(tenant) == [tenant |-> tenant, user |-> Nil, attributes |-> <<>>, now |-> Nil]
MCRequest(op, key, tenant, n) == [op |-> op, key |-> key, ec |-> MCContext(tenant), n |-> n]

\* Two callers race for the same quota.
MCSubscriptionsCalls == {MCSubFree, MCSubPro}
MCRequestsCalls == {MCRequest("consume", "api", "acme", 1)}

MCSymmetry == Permutations(Callers) \cup Permutations(Appliers)

\* One caller asks everything there is to ask, of stores that fail.
MCSubscriptionsFaults == {MCSubPro, MCSubDenied}
MCRequestsFaults ==
    {MCRequest(op, key, tenant, 1) : op \in Ops, key \in {"api", "site"}, tenant \in {"acme", Nil}}
      \cup {MCRequest("evaluate", key, "acme", 0) : key \in {"beta", "core", "gone"}}
      \cup {MCRequest("consume", "api", "acme", 0)}

\* One edit during the calls, or up to MaxEdits of them while nobody calls.
MCBound == edits > 1 => (\A c \in Callers : pc[c] = "idle") /\ usage = <<>> /\ clock = FirstTime

ASSUME LazyLoading /\ NeedsSubscription /\ CapsAreLimits
=============================================================================
