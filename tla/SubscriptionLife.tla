-------------------------- MODULE SubscriptionLife --------------------------
(***************************************************************************)
(* One tenant's subscription over time, under a fixed snapshot: the        *)
(* application sets new values of it (MemSubscriptions.Set), deletes it,   *)
(* and the clock runs.  What the tenant is entitled to follows from        *)
(* Resolve at every instant.                                               *)
(***************************************************************************)
EXTENDS Entitlement

CONSTANTS
    Plans, AddOns,     \* the snapshot's plans and add-ons
    Features,
    PlanIDs,           \* what a subscription may name: also plans long gone
    AddOnIDs,
    Grants, Trials,    \* the grants and trials the application hands out
    MaxList,           \* bound on the add-on and grant lists
    LastTime           \* bound on the clock

ASSUME BoundsAssumption == MaxList \in Nat /\ LastTime \in Nat

Subscriptions ==
    [plan : PlanIDs, addons : Seq(AddOnIDs), trial : Trials \cup {Nil}, grants : Seq(Grants),
     anchor : {Nil}]

\* The limits of the snapshot.
LimitsGiven == (UNION {Range(x.ents) : x \in Range(Plans) \cup Range(AddOns)}) \ {Nil}

\* The snapshot was accepted.
ASSUME PlansAssumption == DOMAIN Plans \subseteq PlanIDs /\ ValidPlans(Plans)

ASSUME GrantsAssumption ==
    /\ \A g \in Grants : g.until \in Int \cup {Nil} /\ (g.limit = Nil \/ g.limit.max \in Int)
    /\ \A t \in Trials : t.until \in Int

ASSUME NilAssumption ==
    /\ Nil \notin Subscriptions
    /\ Nil \notin [max : Int64, period : {l.period : l \in LimitsGiven}]

VARIABLES sub, now

vars == <<sub, now>>

Resolver == NewResolver(Plans, AddOns)

Resolved(s, f, t) == Resolve(Resolver, s, f, t)

NewSubscription(plan) ==
    [plan |-> plan, addons |-> <<>>, trial |-> Nil, grants |-> <<>>, anchor |-> Nil]

Init == sub = Nil /\ now = 0

Set(s) == sub' = s /\ UNCHANGED now

Subscribe == sub = Nil /\ \E p \in PlanIDs : Set(NewSubscription(p))

Delete == sub # Nil /\ Set(Nil)

ChangePlan(p) == sub # Nil /\ Set([sub EXCEPT !.plan = p])

AttachAddOn(a) ==
    /\ sub # Nil /\ Len(sub.addons) < MaxList
    /\ Set([sub EXCEPT !.addons = Append(@, a)])

StartTrial(t) == sub # Nil /\ sub.trial = Nil /\ Set([sub EXCEPT !.trial = t])

AddGrant(g) ==
    /\ sub # Nil /\ Len(sub.grants) < MaxList
    /\ Set([sub EXCEPT !.grants = Append(@, g)])

Tick == now < LastTime /\ now' = now + 1 /\ UNCHANGED sub

Next ==
    \/ Subscribe \/ Delete \/ Tick
    \/ \E p \in PlanIDs : ChangePlan(p)
    \/ \E a \in AddOnIDs : AttachAddOn(a)
    \/ \E t \in Trials : StartTrial(t)
    \/ \E g \in Grants : AddGrant(g)

Spec == Init /\ [][Next]_vars

-----------------------------------------------------------------------------
\* better is at least as generous as res.
AtLeast(better, res) ==
    Entitled(res) =>
        /\ Entitled(better)
        /\ \/ better.limit = Nil
           \/ res.limit # Nil /\ better.limit.max >= res.limit.max

\* Buying an add-on never takes a feature or part of a limit away, whatever
\* plan, trial and grants are in force (resolver.go:187-211, 215-228).
AddOnNeverHurts ==
    [][\A a \in AddOnIDs : AttachAddOn(a) =>
          \A f \in Features : AtLeast(Resolved(sub', f, now), Resolved(sub, f, now))]_vars

\* Moving to a plan that extends the current one loses no feature: it inherits
\* entitlements and still satisfies what add-ons require
\* (resolver.go:53-82, 150-158).
UpgradeKeepsFeatures ==
    [][\A p \in DOMAIN Plans :
          (ChangePlan(p) /\ sub.plan \in Resolver.ancestors[p]) =>
              \A f \in Features :
                  Entitled(Resolved(sub, f, now)) => Entitled(Resolved(sub', f, now))]_vars

\* The ways to leave entries of a list out: the places of those that stay.
Selections(list) ==
    {at \in UNION {[1 .. n -> DOMAIN list] : n \in 0 .. Len(list)} :
        \A i, j \in DOMAIN at : i < j => at[i] < at[j]}

\* A trial or a grant whose time is up changes nothing: whichever of them the
\* application removes, the tenant is exactly where it was
\* (subscription.go:41-44, resolver.go:119-127).
ExpiredIsAbsent ==
    sub # Nil =>
        LET live == {i \in DOMAIN sub.grants :
                        sub.grants[i].until = Nil \/ sub.grants[i].until > now}
            trials == {sub.trial} \cup
                          (IF sub.trial # Nil /\ sub.trial.until <= now THEN {Nil} ELSE {})
        IN \A at \in {a \in Selections(sub.grants) : live \subseteq Range(a)}, trial \in trials :
               LET kept == [sub EXCEPT !.grants = [i \in DOMAIN at |-> sub.grants[at[i]]],
                                       !.trial = trial]
               IN \A f \in Features : Resolved(kept, f, now) = Resolved(sub, f, now)

\* A revoked feature stays off whatever is granted, bought or tried besides,
\* in whatever order (resolver.go:160-173).
DenyWins ==
    sub # Nil =>
        \A g \in ToSet(sub.grants) :
            g.deny /\ (g.until = Nil \/ now < g.until) => ~Entitled(Resolved(sub, g.feature, now))

-----------------------------------------------------------------------------
\* resolver.go:163 and 215: "limits summed".
LimitsSummed ==
    sub # Nil =>
        \A f \in Features :
            LET res == Resolved(sub, f, now)
                limits == LimitsFor(Resolver, sub, f, now)
            IN res.kind \in {"plan", "addon"} /\ res.limit # Nil =>
                   res.limit.max = MapThenSumSet(LAMBDA i : limits[i].max, DOMAIN limits)

\* resolver.go:11-12: a plan that is not in the snapshot: "Resolution fails
\* closed and carries this in Err".
UnknownPlanFailsClosed ==
    \A f \in Features :
        LET res == Resolved(sub, f, now) IN res.err = "unknown_plan" => ~Entitled(res)
=============================================================================
