------------------------- MODULE MCSubscriptionLife -------------------------
(* Three plans, each extending the one before; an add-on that needs the free *)
(* plan or one that extends it, and one that needs none; and a plan id that  *)
(* no snapshot knows any more.                                               *)
EXTENDS SubscriptionLife

CONSTANTS api, audit, export, free, pro, team, gone, packs, seats

MCLimit(n) == [max |-> n, period |-> "month"]

MCPlans ==
    free :> [extends |-> Nil, ents |-> (api :> MCLimit(2))] @@
    pro  :> [extends |-> free, ents |-> (export :> MCLimit(1))] @@
    team :> [extends |-> pro, ents |-> (export :> Nil)]

MCAddOns ==
    packs :> [requires |-> {free}, ents |-> (api :> MCLimit(1) @@ audit :> Nil)] @@
    seats :> [requires |-> {}, ents |-> (export :> MCLimit(1))]

MCGrant(f, deny, limit, until) ==
    [feature |-> f, deny |-> deny, limit |-> limit, until |-> until, reason |-> "support"]

MCGrants ==
    {MCGrant(api, TRUE, Nil, 2), MCGrant(api, FALSE, Nil, 1),
     MCGrant(api, FALSE, MCLimit(4), Nil), MCGrant(export, TRUE, Nil, Nil)}

MCTrials == {[plan |-> pro, until |-> 2], [plan |-> gone, until |-> 1]}
=============================================================================
