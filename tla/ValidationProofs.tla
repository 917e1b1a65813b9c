--------------------------- MODULE ValidationProofs ---------------------------
(***************************************************************************)
(* What every configuration that NewSnapshot accepts has, however large it *)
(* is: the properties of Validation, what NewResolver makes of plans whose *)
(* Extends chains end, and what Resolve gives a tenant of such plans.      *)
(***************************************************************************)
EXTENDS RolloutLife, SubscriptionLife, TLAPS, FiniteSetTheorems, WellFoundedInduction

\* Every set of naturals has a least element.
LEMMA Least ==
    ASSUME NEW S \in SUBSET Nat, S # {}
    PROVE  \E n \in S : \A m \in S : n <= m
<1> DEFINE R == OpToRel(<, Nat)
<1>1. IsWellFoundedOn(R, Nat)
  BY NatLessThanWellFounded, Zenon
<1>2. \A m, n \in Nat : m < n => <<m, n>> \in R
  BY DEF OpToRel
<1> HIDE DEF R
<1>3. PICK n \in S : \A m \in S : ~ (<<m, n>> \in R)
  BY <1>1, WFMin, Zenon
<1>4. ASSUME NEW m \in S PROVE n <= m
  <2>1. m \in Nat /\ n \in Nat
    OBVIOUS
  <2>2. ~(m < n)
    BY <2>1, <1>2, <1>3
  <2> QED BY <2>1, <2>2
<1> QED BY <1>4

\* A member below all the others is the minimum.
LEMMA MinIs ==
    ASSUME NEW S \in SUBSET Int, NEW m \in S, \A n \in S : m <= n
    PROVE  Min(S) = m
<1>1. Min(S) \in S /\ \A n \in S : Min(S) <= n
  BY DEF Min
<1>2. Min(S) <= m /\ m <= Min(S) /\ Min(S) \in Int /\ m \in Int
  BY <1>1
<1> QED BY <1>2

\* Sets of naturals have a minimum.
LEMMA MinHolds ==
    ASSUME NEW S \in SUBSET Nat, S # {}
    PROVE  Min(S) \in S /\ \A n \in S : Min(S) <= n
BY Least DEF Min

\* Bounded sets of naturals have a maximum.
LEMMA MaxHolds ==
    ASSUME NEW n \in Nat, NEW S \in SUBSET (0 .. n), S # {}
    PROVE  Max(S) \in S
<1> DEFINE T == {k \in Nat : \E m \in S : k = n - m}
<1>1. \A m \in S : m \in Int /\ n - m \in Nat
  OBVIOUS
<1>2. T \in SUBSET Nat /\ T # {}
  BY <1>1
<1>3. PICK k \in T : \A l \in T : k <= l
  BY <1>2, Least
<1>4. PICK m \in S : k = n - m
  OBVIOUS
<1>5. \A l \in S : m >= l
  <2> SUFFICES ASSUME NEW l \in S PROVE m >= l
    OBVIOUS
  <2>1. n - l \in T
    BY <1>1
  <2>2. k <= n - l
    BY <1>3, <2>1
  <2> QED BY <1>1, <1>4, <2>2
<1> QED BY <1>5 DEF Max

-----------------------------------------------------------------------------
\* What NewResolver computes: the plan itself and all that it extends.
Parent(plans, p) == plans[p].extends

Ancestors(plans) ==
    LET ancestors[p \in DOMAIN plans] ==
            {p} \cup (IF Parent(plans, p) = Nil THEN {} ELSE ancestors[Parent(plans, p)])
    IN ancestors

Flat(plans) ==
    LET flat[p \in DOMAIN plans] ==
            Override(plans[p].ents, IF Parent(plans, p) = Nil THEN <<>> ELSE flat[Parent(plans, p)])
    IN flat

\* The tables of NewResolver, each by its name.
LEMMA ResolverIs ==
    ASSUME NEW plans, NEW addons
    PROVE  NewResolver(plans, addons) =
               [flat |-> Flat(plans), ancestors |-> Ancestors(plans), addons |-> addons]
BY DEF NewResolver, Ancestors, Flat, Parent

UpClosed(plans, S) == \A p \in S : Parent(plans, p) # Nil => Parent(plans, p) \in S

\* The least set that holds p and what its members extend.
Above(plans, p) ==
    {q \in DOMAIN plans : \A S \in SUBSET DOMAIN plans : p \in S /\ UpClosed(plans, S) => q \in S}

\* What is above a plan is itself and what is above its parent.
LEMMA AboveIs ==
    ASSUME NEW plans, ValidPlans(plans), NEW p \in DOMAIN plans
    PROVE  /\ Above(plans, p) =
                   {p} \cup (IF Parent(plans, p) = Nil THEN {} ELSE Above(plans, Parent(plans, p)))
           /\ Above(plans, p) \subseteq DOMAIN plans /\ p \in Above(plans, p)
           /\ UpClosed(plans, Above(plans, p))
<1>1. p \in Above(plans, p) /\ Above(plans, p) \subseteq DOMAIN plans
  BY DEF Above
<1>2. ASSUME NEW q \in DOMAIN plans PROVE UpClosed(plans, Above(plans, q))
  <2>1. \A x \in DOMAIN plans : Parent(plans, x) # Nil => Parent(plans, x) \in DOMAIN plans
    BY DEF ValidPlans, Parent
  <2> QED BY <2>1 DEF Above, UpClosed
<1>3. Parent(plans, p) # Nil => Parent(plans, p) \in DOMAIN plans
  BY DEF ValidPlans, Parent
<1>4. Parent(plans, p) # Nil => Above(plans, Parent(plans, p)) \subseteq Above(plans, p)
  BY <1>3 DEF Above, UpClosed
<1> DEFINE T == {p} \cup (IF Parent(plans, p) = Nil THEN {} ELSE Above(plans, Parent(plans, p)))
<1>5. T \subseteq DOMAIN plans /\ p \in T
  BY DEF Above
<1>6. UpClosed(plans, T)
  <2> SUFFICES ASSUME NEW q \in T, Parent(plans, q) # Nil PROVE Parent(plans, q) \in T
    BY DEF UpClosed
  <2>1. CASE q = p
    <3>1. Parent(plans, p) \in Above(plans, Parent(plans, p))
      BY <1>3, <2>1 DEF Above
    <3> QED BY <2>1, <3>1
  <2>2. CASE q # p
    <3>1. Parent(plans, p) # Nil /\ q \in Above(plans, Parent(plans, p))
      BY <2>2
    <3>2. Parent(plans, q) \in Above(plans, Parent(plans, p))
      BY <1>2, <1>3, <3>1 DEF UpClosed
    <3> QED BY <3>1, <3>2
  <2> QED BY <2>1, <2>2
<1>7. Above(plans, p) \subseteq T
  <2> HIDE DEF T
  <2> QED BY <1>5, <1>6 DEF Above
<1>8. Above(plans, p) = T
  BY <1>1, <1>4, <1>7
<1> QED BY <1>1, <1>2, <1>8

\* What extends a plan has all the plans above it, and none below.
LEMMA AboveOrder ==
    ASSUME NEW plans, ValidPlans(plans), NEW p \in DOMAIN plans, NEW q \in Above(plans, p)
    PROVE  Above(plans, q) \subseteq Above(plans, p) /\ (p \in Above(plans, q) => p = q)
<1>1. q \in DOMAIN plans /\ UpClosed(plans, Above(plans, p)) /\ Above(plans, p) \subseteq DOMAIN plans
  BY AboveIs
<1>2. Above(plans, q) \subseteq Above(plans, p)
  BY <1>1 DEF Above
<1>3. p \in Above(plans, q) => p = q
  <2> SUFFICES ASSUME p \in Above(plans, q), p # q PROVE FALSE
    OBVIOUS
  <2> DEFINE S == {x \in Above(plans, p) : p \in Above(plans, x)}
  <2>1. S \in (SUBSET DOMAIN plans) \ {{}}
    BY <1>1, AboveIs
  <2>2. PICK x \in S : Parent(plans, x) \notin S
    BY <2>1 DEF ValidPlans, Parent
  <2>3. x \in DOMAIN plans /\ x \in Above(plans, p) /\ p \in Above(plans, x)
    BY <2>1, <2>2
  <2>4. CASE x = p
    <3>1. Parent(plans, p) # Nil /\ q \in Above(plans, Parent(plans, p))
      BY AboveIs
    <3>2. Parent(plans, p) \in DOMAIN plans
      BY <3>1 DEF ValidPlans, Parent
    <3>3. Above(plans, q) \subseteq Above(plans, Parent(plans, p))
      BY <3>1, <3>2, AboveIs DEF Above
    <3>4. Parent(plans, p) \in Above(plans, p)
      BY <3>1, AboveIs DEF UpClosed
    <3> QED BY <2>2, <2>4, <3>3, <3>4
  <2>5. CASE x # p
    <3>1. Parent(plans, x) # Nil /\ p \in Above(plans, Parent(plans, x))
      BY <2>3, <2>5, AboveIs
    <3>2. Parent(plans, x) \in Above(plans, p)
      BY <1>1, <2>3, <3>1 DEF UpClosed
    <3> QED BY <2>2, <3>1, <3>2
  <2> QED BY <2>4, <2>5
<1> QED BY <1>2, <1>3

\* The ancestors that NewResolver collects are what is above a plan.
LEMMA AncestorsAre ==
    ASSUME NEW plans, ValidPlans(plans)
    PROVE  /\ DOMAIN Ancestors(plans) = DOMAIN plans
           /\ \A p \in DOMAIN plans : Ancestors(plans)[p] = Above(plans, p)
<1> DEFINE f == [p \in DOMAIN plans |-> Above(plans, p)]
           ancestors[p \in DOMAIN plans] ==
               {p} \cup (IF Parent(plans, p) = Nil THEN {} ELSE ancestors[Parent(plans, p)])
<1>1. f = [p \in DOMAIN plans |-> {p} \cup (IF Parent(plans, p) = Nil THEN {} ELSE f[Parent(plans, p)])]
  <2>1. \A p \in DOMAIN plans : f[p] = {p} \cup (IF Parent(plans, p) = Nil THEN {} ELSE f[Parent(plans, p)])
    BY AboveIs DEF ValidPlans, Parent
  <2>2. f = [p \in DOMAIN plans |-> f[p]]
    OBVIOUS
  <2> HIDE DEF f
  <2> QED BY <2>1, <2>2
<1>2. ancestors = [p \in DOMAIN plans |-> {p} \cup (IF Parent(plans, p) = Nil THEN {} ELSE ancestors[Parent(plans, p)])]
  <2> HIDE DEF f
  <2> QED BY <1>1
<1>3. Ancestors(plans) = ancestors
  BY DEF Ancestors, ancestors
<1> HIDE DEF f, ancestors
<1>4. /\ DOMAIN Ancestors(plans) = DOMAIN plans
      /\ \A p \in DOMAIN plans :
            Ancestors(plans)[p] = {p} \cup (IF Parent(plans, p) = Nil THEN {} ELSE Ancestors(plans)[Parent(plans, p)])
  BY <1>2, <1>3
<1> DEFINE Bad == {p \in DOMAIN plans : Ancestors(plans)[p] # Above(plans, p)}
<1>5. Bad = {}
  <2> SUFFICES ASSUME Bad # {} PROVE FALSE
    OBVIOUS
  <2>1. Bad \in (SUBSET DOMAIN plans) \ {{}}
    OBVIOUS
  <2>2. PICK p \in Bad : Parent(plans, p) \notin Bad
    BY <2>1 DEF ValidPlans, Parent
  <2>3. Parent(plans, p) # Nil => Ancestors(plans)[Parent(plans, p)] = Above(plans, Parent(plans, p))
    BY <2>2 DEF ValidPlans, Parent
  <2> QED BY <1>4, <2>3, AboveIs
<1> QED BY <1>4, <1>5

Gives(plans, p, f) == f \in DOMAIN plans[p].ents

Nearest(plans, p, f) ==
    CHOOSE q \in Above(plans, p) :
        /\ Gives(plans, q, f)
        /\ \A r \in Above(plans, p) : Gives(plans, r, f) => r \in Above(plans, q)

FeaturesOf(plans, p) == UNION {DOMAIN plans[q].ents : q \in Above(plans, p)}

\* What a flattened plan gives comes from it or from a plan that it extends.
LEMMA FlatIs ==
    ASSUME NEW plans, ValidPlans(plans)
    PROVE  /\ DOMAIN Flat(plans) = DOMAIN plans
           /\ \A p \in DOMAIN plans : DOMAIN Flat(plans)[p] = FeaturesOf(plans, p)
           /\ \A p \in DOMAIN plans : \A f \in DOMAIN Flat(plans)[p] :
                 \E q \in DOMAIN plans : Gives(plans, q, f) /\ Flat(plans)[p][f] = plans[q].ents[f]
<1> DEFINE g == [p \in DOMAIN plans |-> [f \in FeaturesOf(plans, p) |-> plans[Nearest(plans, p, f)].ents[f]]]
           flat[p \in DOMAIN plans] ==
               Override(plans[p].ents, IF Parent(plans, p) = Nil THEN <<>> ELSE flat[Parent(plans, p)])
<1>1. ASSUME NEW p \in DOMAIN plans
      PROVE  FeaturesOf(plans, p) = DOMAIN plans[p].ents
                               \cup (IF Parent(plans, p) = Nil THEN {} ELSE FeaturesOf(plans, Parent(plans, p)))
  BY AboveIs DEF FeaturesOf
<1>2. ASSUME NEW p \in DOMAIN plans
      PROVE  g[p] = Override(plans[p].ents, IF Parent(plans, p) = Nil THEN <<>> ELSE g[Parent(plans, p)])
  <2> DEFINE rest == IF Parent(plans, p) = Nil THEN <<>> ELSE g[Parent(plans, p)]
  <2>1. Parent(plans, p) # Nil => Parent(plans, p) \in DOMAIN plans
    BY DEF ValidPlans, Parent
  <2>2. DOMAIN rest = IF Parent(plans, p) = Nil THEN {} ELSE FeaturesOf(plans, Parent(plans, p))
    BY <2>1
  <2>3. ASSUME NEW f \in FeaturesOf(plans, p), Gives(plans, p, f) PROVE Nearest(plans, p, f) = p
    <3>1. p \in Above(plans, p) /\ \A r \in Above(plans, p) : Gives(plans, r, f) => r \in Above(plans, p)
      BY AboveIs
    <3>2. ASSUME NEW q \in Above(plans, p), \A r \in Above(plans, p) : Gives(plans, r, f) => r \in Above(plans, q)
          PROVE  q = p
      BY <2>3, <3>1, <3>2, AboveOrder
    <3> QED BY <2>3, <3>1, <3>2 DEF Nearest
  <2>4. ASSUME NEW f \in FeaturesOf(plans, p), ~Gives(plans, p, f)
        PROVE  /\ Parent(plans, p) # Nil /\ f \in FeaturesOf(plans, Parent(plans, p))
               /\ Nearest(plans, p, f) = Nearest(plans, Parent(plans, p), f)
    <3>1. Parent(plans, p) # Nil /\ f \in FeaturesOf(plans, Parent(plans, p))
      BY <1>1, <2>4 DEF Gives
    <3>2. Above(plans, p) = {p} \cup Above(plans, Parent(plans, p))
      BY <3>1, AboveIs
    <3>3. \A q : (q \in Above(plans, p) /\ Gives(plans, q, f)
                      /\ \A r \in Above(plans, p) : Gives(plans, r, f) => r \in Above(plans, q))
               <=> (q \in Above(plans, Parent(plans, p)) /\ Gives(plans, q, f)
                      /\ \A r \in Above(plans, Parent(plans, p)) : Gives(plans, r, f) => r \in Above(plans, q))
      BY <2>4, <3>2
    <3>4. Nearest(plans, p, f) = Nearest(plans, Parent(plans, p), f)
      BY <3>3 DEF Nearest
    <3> QED BY <3>1, <3>4
  <2>5. ASSUME NEW f \in FeaturesOf(plans, p)
        PROVE  g[p][f] = IF f \in DOMAIN plans[p].ents THEN plans[p].ents[f] ELSE rest[f]
    <3>1. CASE Gives(plans, p, f)
      BY <2>3, <3>1 DEF Gives
    <3>2. CASE ~Gives(plans, p, f)
      BY <2>1, <2>4, <3>2 DEF Gives
    <3> QED BY <3>1, <3>2
  <2>6. g[p] = [f \in DOMAIN plans[p].ents \cup DOMAIN rest |->
                   IF f \in DOMAIN plans[p].ents THEN plans[p].ents[f] ELSE rest[f]]
    <3>1. FeaturesOf(plans, p) = DOMAIN plans[p].ents \cup DOMAIN rest
      BY <1>1, <2>2
    <3>2. g[p] = [f \in FeaturesOf(plans, p) |-> g[p][f]]
      OBVIOUS
    <3> HIDE DEF g, rest
    <3> QED BY <2>5, <3>1, <3>2
  <2> QED BY <2>6 DEF Override
<1>3. g = [p \in DOMAIN plans |-> Override(plans[p].ents, IF Parent(plans, p) = Nil THEN <<>> ELSE g[Parent(plans, p)])]
  <2>1. g = [p \in DOMAIN plans |-> g[p]]
    OBVIOUS
  <2> HIDE DEF g
  <2> QED BY <1>2, <2>1
<1>4. flat = [p \in DOMAIN plans |->
                 Override(plans[p].ents, IF Parent(plans, p) = Nil THEN <<>> ELSE flat[Parent(plans, p)])]
  <2> HIDE DEF g
  <2> QED BY <1>3
<1>5. Flat(plans) = flat
  BY DEF Flat, flat
<1> HIDE DEF g, flat
<1>6. /\ DOMAIN Flat(plans) = DOMAIN plans
      /\ \A p \in DOMAIN plans :
            Flat(plans)[p] = Override(plans[p].ents, IF Parent(plans, p) = Nil THEN <<>> ELSE Flat(plans)[Parent(plans, p)])
  BY <1>4, <1>5
<1> DEFINE Good(p) == /\ DOMAIN Flat(plans)[p] = FeaturesOf(plans, p)
                      /\ \A f \in DOMAIN Flat(plans)[p] :
                            \E q \in DOMAIN plans : Gives(plans, q, f) /\ Flat(plans)[p][f] = plans[q].ents[f]
           Bad == {p \in DOMAIN plans : ~Good(p)}
<1>7. Bad = {}
  <2> SUFFICES ASSUME Bad # {} PROVE FALSE
    OBVIOUS
  <2>1. Bad \in (SUBSET DOMAIN plans) \ {{}}
    OBVIOUS
  <2>2. PICK p \in Bad : Parent(plans, p) \notin Bad
    BY <2>1 DEF ValidPlans, Parent
  <2> DEFINE rest == IF Parent(plans, p) = Nil THEN <<>> ELSE Flat(plans)[Parent(plans, p)]
  <2>3. Parent(plans, p) # Nil => Parent(plans, p) \in DOMAIN plans /\ Good(Parent(plans, p))
    BY <2>2 DEF ValidPlans, Parent
  <2>4. Flat(plans)[p] = [f \in DOMAIN plans[p].ents \cup DOMAIN rest |->
                      IF f \in DOMAIN plans[p].ents THEN plans[p].ents[f] ELSE rest[f]]
    BY <1>6 DEF Override
  <2>5. DOMAIN rest = IF Parent(plans, p) = Nil THEN {} ELSE FeaturesOf(plans, Parent(plans, p))
    BY <2>3
  <2>6. DOMAIN Flat(plans)[p] = FeaturesOf(plans, p)
    BY <1>1, <2>4, <2>5
  <2>7. ASSUME NEW f \in DOMAIN Flat(plans)[p]
        PROVE  \E q \in DOMAIN plans : Gives(plans, q, f) /\ Flat(plans)[p][f] = plans[q].ents[f]
    <3>1. CASE f \in DOMAIN plans[p].ents
      BY <2>4, <3>1 DEF Gives
    <3>2. CASE f \notin DOMAIN plans[p].ents
      <4>1. /\ Parent(plans, p) # Nil /\ f \in DOMAIN Flat(plans)[Parent(plans, p)]
            /\ Flat(plans)[p][f] = Flat(plans)[Parent(plans, p)][f]
        BY <2>4, <2>5, <2>7, <3>2
      <4> QED BY <2>3, <4>1
    <3> QED BY <3>1, <3>2
  <2> QED BY <2>2, <2>6, <2>7
<1> QED BY <1>6, <1>7

-----------------------------------------------------------------------------
\* What the configurations that are submitted look like.
Edited ==
    [features : FeatureLists \cup {<<>>}, segments : SegmentLists \cup {<<>>},
     flags : FlagLists \cup {<<>>}, plans : PlanLists \cup {<<>>}, addons : AddOnLists \cup {<<>>}]

ConfigOK == config \in Edited \/ \E split : config = ConfigWith(split)

\* The inductive invariant: a team edits parts, or a rollout that was let through.
LEMMA ConfigHolds == TeamSpec => []ConfigOK
<1>1. Start \/ RolloutInit => ConfigOK
  BY DEF Start, RolloutInit, ConfigOK, Edited
<1>2. ConfigOK /\ [Team]_config => ConfigOK'
  <2> SUFFICES ASSUME ConfigOK, [Team]_config PROVE ConfigOK'
    OBVIOUS
  <2>1. CASE ~Rolling /\ EditPart
    <3>1. config \in Edited
      <4> SUFFICES ASSUME NEW split, config = ConfigWith(split) PROVE FALSE
        BY DEF ConfigOK
      <4>1. config.flags = <<FlagWith(split)>> /\ FlagWith(split).feature = Feature
        BY DEF ConfigWith, FlagWith
      <4>2. config.flags # <<>> /\ config.flags[1].feature = Feature
        BY <4>1
      <4> QED BY <2>1, <4>2 DEF Rolling
    <3>2. config' \in Edited
      BY <2>1, <3>1 DEF EditPart, EditFeatures, EditSegments, EditFlags, EditPlans, EditAddOns,
                        Edit, Edited
    <3> QED BY <3>2 DEF ConfigOK
  <2>2. CASE Rolling /\ RolloutNext
    <3>1. \A split : Submit(split) => ConfigOK'
      BY DEF Submit, ConfigOK
    <3> QED BY <2>2, <3>1 DEF RolloutNext, NextArm, Widen, Narrow, Shift
  <2>3. CASE UNCHANGED config
    BY <2>3 DEF ConfigOK
  <2> QED BY <2>1, <2>2, <2>3 DEF Team
<1> QED BY <1>1, <1>2, PTL DEF TeamSpec

\* Features, plans, add-ons and what these give are lists; a flag's window is
\* bounded by instants.
ListsOK ==
    /\ config.features \in Seq(ToSet(config.features))
    /\ config.plans \in Seq(ToSet(config.plans)) /\ config.addons \in Seq(ToSet(config.addons))
    /\ \A x \in ToSet(config.plans) \cup ToSet(config.addons) : x.ents \in Seq(ToSet(x.ents))

WindowsOK == \A fl \in ToSet(config.flags) : {fl.from, fl.until} \subseteq Int \cup {Nil}

\* So the parts are lists, whichever of the two it does.
LEMMA ConfigShape == ASSUME ConfigOK PROVE ListsOK /\ WindowsOK
<1>1. CASE config \in Edited
  <2>1. <<>> \in Seq(ToSet(<<>>)) /\ ToSet(<<>>) = {}
    BY DEF ToSet
  <2>2. ListsOK
    BY <1>1, <2>1, ListsAssumption DEF Edited, ListsOK
  <2>3. WindowsOK
    BY <1>1, <2>1, ListsAssumption DEF Edited, WindowsOK
  <2> QED BY <2>2, <2>3
<1>2. ASSUME NEW split, config = ConfigWith(split) PROVE ListsOK /\ WindowsOK
  <2> DEFINE feature == [key |-> Feature, lifecycle |-> "ga", free |-> TRUE, dependsOn |-> <<>>]
  <2>1. /\ config.features = <<feature>> /\ config.flags = <<FlagWith(split)>>
        /\ config.plans = <<>> /\ config.addons = <<>>
    BY <1>2 DEF ConfigWith
  <2>2. FlagWith(split).from = Nil /\ FlagWith(split).until = Nil
    BY DEF FlagWith
  <2> HIDE DEF feature
  <2>3. \A x : ToSet(<<x>>) = {x} /\ <<x>> \in Seq(ToSet(<<x>>))
    BY DEF ToSet
  <2>4. ToSet(<<>>) = {} /\ <<>> \in Seq(ToSet(<<>>))
    BY DEF ToSet
  <2>5. ListsOK
    BY <2>1, <2>3, <2>4 DEF ListsOK
  <2>6. WindowsOK
    BY <2>1, <2>2, <2>3 DEF WindowsOK
  <2> QED BY <2>5, <2>6
<1> QED BY <1>1, <1>2 DEF ConfigOK

-----------------------------------------------------------------------------
KnownFeatures == ToSet(Project(config.features, "key")) \cap ValidKeys
KnownSegments == ToSet(Project(config.segments, "key")) \cap ValidKeys

\* A configuration without errors has none in any part.
LEMMA NoError ==
    ASSUME Accepted
    PROVE  /\ CheckFeatures(config.features, KnownFeatures) = {}
           /\ CheckSegments(config.segments) = {}
           /\ CheckFlags(config.flags, KnownFeatures, KnownSegments) = {}
           /\ CheckPlans(config.plans, KnownFeatures) = {}
           /\ CheckAddOns(config.addons, config.plans, KnownFeatures) = {}
           /\ CheckPeriods(config.plans, config.addons) = {}
BY DEF Accepted, Validate, KnownFeatures, KnownSegments

\* A check that reports nothing found no fault.
LEMMA NoFault == ASSUME NEW field, NEW fault PROVE ErrorIf(field, fault) = {} => ~fault
BY DEF ErrorIf

\* The values that a field has in a list.
LEMMA FieldOf ==
    ASSUME NEW list, NEW field
    PROVE  ToSet(Project(list, field)) = {x[field] : x \in ToSet(list)}
BY DEF ToSet, Project

\* What is checked of the conditions of a flag and of a segment.
LEMMA ConditionOK ==
    ASSUME NEW c, NEW segments, CheckCondition(c, segments) = {}, c.op \in SegmentOps
    PROVE  segments # Nil /\ SegmentOf(c) \in segments
BY NoFault DEF CheckCondition, SegmentOps, ValidOps, KnownSegment

\* Each condition is checked.
LEMMA ConditionsOK ==
    ASSUME NEW conditions, NEW segments, CheckConditions(conditions, segments) = {},
           NEW c \in ToSet(conditions)
    PROVE  CheckCondition(c, segments) = {}
BY DEF CheckConditions, Each

\* Each portion of a split is checked, and their sum.
LEMMA SplitOK ==
    ASSUME NEW split, NEW variants, CheckSplit(split, variants) = {}
    PROVE  /\ \A portion \in ToSet(split) :
                 ~(portion.percent < 0) /\ ~Undeclared(portion.variant, variants)
           /\ ~ExceedsWhole(Shares(split)[Len(split)])
<1> DEFINE errors == Each(split, LAMBDA p :
                         ErrorIf("percent", p.percent < 0)
                           \cup ErrorIf("variant", Undeclared(p.variant, variants)))
<1>1. errors = {} /\ ErrorIf("split", ExceedsWhole(Shares(split)[Len(split)])) = {}
  BY Zenon DEF CheckSplit
<1>2. ASSUME NEW portion \in ToSet(split)
      PROVE  /\ ErrorIf("percent", portion.percent < 0) = {}
             /\ ErrorIf("variant", Undeclared(portion.variant, variants)) = {}
  <2>1. errors = {}
    BY <1>1
  <2> QED BY <2>1 DEF Each
<1> QED BY <1>1, <1>2, NoFault, Zenon

\* What is checked of a flag and of its rules.
LEMMA FlagOK ==
    ASSUME NEW list, NEW known, NEW segments, CheckFlags(list, known, segments) = {},
           NEW fl \in ToSet(list)
    PROVE  /\ ~Closed(fl)
           /\ CheckKeys("variants.key", fl.variants, ToSet(fl.variants) \ {Nil}) = {}
           /\ CheckServe(fl.default, ToSet(fl.variants) \ {Nil}) = {}
           /\ \A r \in ToSet(fl.rules) :
                 /\ CheckConditions(r.conditions, segments) = {}
                 /\ CheckServe(r.serve, ToSet(fl.variants) \ {Nil}) = {}
<1> DEFINE variants == ToSet(fl.variants) \ {Nil}
           errors == CheckKeys("variants.key", fl.variants, variants)
                       \cup ErrorIf("window", Closed(fl))
                       \cup Each(fl.rules, LAMBDA r :
                                CheckConditions(r.conditions, segments)
                                  \cup CheckServe(r.serve, variants))
                       \cup CheckServe(fl.default, variants)
<1>1. errors = {}
  BY DEF CheckFlags, Each
<1>2. ~Closed(fl) /\ CheckKeys("variants.key", fl.variants, variants) = {}
      /\ CheckServe(fl.default, variants) = {}
  BY <1>1, NoFault
<1>3. \A r \in ToSet(fl.rules) :
          CheckConditions(r.conditions, segments) = {} /\ CheckServe(r.serve, variants) = {}
  BY <1>1 DEF Each
<1> QED BY <1>2, <1>3

\* Segment operators in flags name segments of the configuration, and segments
\* have none (validate.go:74-76, 107-110, 188-195).
THEOREM SegmentsExistHolds == TeamSpec => []SegmentsExist
<1>1. SegmentsExist
  <2> DEFINE conditions(rules) == UNION {ToSet(r) : r \in ToSet(rules)}
             keys == ToSet(Project(config.segments, "key"))
  <2> SUFFICES ASSUME Accepted
               PROVE  /\ \A fl \in ToSet(config.flags) :
                            \A c \in conditions(Project(fl.rules, "conditions")) :
                                c.op \in SegmentOps => SegmentOf(c) \in keys
                      /\ \A s \in ToSet(config.segments) :
                            \A c \in conditions(s.rules) : c.op \notin SegmentOps
    BY DEF SegmentsExist
  <2>1. ASSUME NEW fl \in ToSet(config.flags),
               NEW c \in conditions(Project(fl.rules, "conditions")), c.op \in SegmentOps
        PROVE  SegmentOf(c) \in keys
    <3>1. PICK r \in ToSet(fl.rules) : c \in ToSet(r.conditions)
      <4>1. PICK list \in ToSet(Project(fl.rules, "conditions")) : c \in ToSet(list)
        OBVIOUS
      <4> QED BY <4>1, FieldOf
    <3>2. CheckConditions(r.conditions, KnownSegments) = {}
      BY NoError, FlagOK
    <3>3. SegmentOf(c) \in KnownSegments
      BY <2>1, <3>1, <3>2, ConditionsOK, ConditionOK
    <3> QED BY <3>3 DEF KnownSegments
  <2>2. ASSUME NEW s \in ToSet(config.segments), NEW c \in conditions(s.rules)
        PROVE  c.op \notin SegmentOps
    <3>1. PICK list \in ToSet(s.rules) : c \in ToSet(list)
      OBVIOUS
    <3>2. CheckSegments(config.segments) = {}
      BY NoError
    <3>3. CheckConditions(list, Nil) = {}
      BY <3>1, <3>2 DEF CheckSegments, Each
    <3> QED BY <3>1, <3>3, ConditionsOK, ConditionOK
  <2> QED BY <2>1, <2>2
<1> QED BY <1>1, PTL

\* Every variant that a flag may serve is one that it declares
\* (validate.go:92-102, 227-247).
THEOREM VariantsExistHolds == TeamSpec => []VariantsExist
<1>1. VariantsExist
  <2> SUFFICES ASSUME Accepted, NEW fl \in ToSet(config.flags),
                      NEW s \in {fl.default} \cup ToSet(Project(fl.rules, "serve")),
                      NEW v \in (IF s.rollout = Nil THEN {s.variant}
                                  ELSE ToSet(Project(s.rollout.split, "variant"))) \ {Nil}
               PROVE  Variant([fl EXCEPT !.variants = ToSet(@)], v) = v
    BY DEF VariantsExist
  <2> DEFINE variants == ToSet(fl.variants) \ {Nil}
  <2>1. CheckServe(s, variants) = {}
    <3>1. CASE s = fl.default
      BY <3>1, NoError, FlagOK
    <3>2. CASE s \in ToSet(Project(fl.rules, "serve"))
      <4>1. PICK r \in ToSet(fl.rules) : s = r.serve
        BY <3>2, FieldOf
      <4> QED BY <4>1, NoError, FlagOK
    <3> QED BY <3>1, <3>2
  <2>2. v \in variants
    <3>1. CASE s.rollout = Nil
      <4>1. ~Undeclared(s.variant, variants)
        BY <2>1, NoFault DEF CheckServe
      <4> QED BY <3>1, <4>1 DEF Undeclared
    <3>2. CASE s.rollout # Nil
      <4>1. CheckSplit(s.rollout.split, variants) = {}
        BY <2>1, <3>2 DEF CheckServe
      <4>2. PICK portion \in ToSet(s.rollout.split) : v = portion.variant
        BY <3>2, FieldOf
      <4>3. ~Undeclared(v, variants)
        BY <4>1, <4>2, SplitOK
      <4> QED BY <4>3 DEF Undeclared
    <3> QED BY <3>1, <3>2
  <2> DEFINE declared == [fl EXCEPT !.variants = ToSet(@)]
  <2>3. v \in declared.variants
    BY <2>2
  <2> QED BY <2>3 DEF Variant
<1> QED BY <1>1, PTL

\* A window that is accepted has an instant in it (validate.go:103-105).
THEOREM WindowOpensHolds == TeamSpec => []WindowOpens
<1>1. ConfigOK => WindowOpens
  <2> SUFFICES ASSUME ConfigOK, Accepted, NEW fl \in ToSet(config.flags), fl.enabled
               PROVE  \E at \in ({fl.from, 0} \ {Nil})
                                    \cup (IF fl.until = Nil THEN {} ELSE {fl.until - 1}) :
                          Inactive(fl, at) = Nil
    BY DEF WindowOpens
  <2>1. fl.from \in Int \cup {Nil} /\ fl.until \in Int \cup {Nil} /\ Nil \notin Int
    BY ConfigShape, ListsAssumption DEF WindowsOK
  <2>2. ~Closed(fl)
    BY NoError, FlagOK
  <2>3. ASSUME NEW at \in Int, fl.from # Nil => fl.from <= at, fl.until # Nil => at < fl.until
        PROVE  Inactive(fl, at) = Nil
    BY <2>1, <2>3 DEF Inactive
  <2>4. CASE fl.from # Nil
    <3>1. Inactive(fl, fl.from) = Nil
      BY <2>1, <2>2, <2>3, <2>4 DEF Closed
    <3> QED BY <2>4, <3>1
  <2>5. CASE fl.from = Nil /\ fl.until # Nil
    <3>1. fl.until - 1 \in Int /\ fl.until - 1 < fl.until
      BY <2>1, <2>5
    <3>2. Inactive(fl, fl.until - 1) = Nil
      BY <2>3, <2>5, <3>1
    <3> QED BY <2>5, <3>2
  <2>6. CASE fl.from = Nil /\ fl.until = Nil
    <3>1. Inactive(fl, 0) = Nil /\ 0 # Nil
      BY <2>1, <2>3, <2>6
    <3> QED BY <3>1
  <2> QED BY <2>4, <2>5, <2>6
<1> QED BY <1>1, ConfigHolds, PTL

-----------------------------------------------------------------------------
\* Entries of a list with an accepted key: each is valid and the only one.
LEMMA KeysOK ==
    ASSUME NEW error, NEW list, NEW field, NEW valid,
           CheckKeys(error, Project(list, field), valid) = {}
    PROVE  /\ \A x \in ToSet(list) : x[field] \in valid
           /\ \A i, j \in DOMAIN list : list[i][field] = list[j][field] => i = j
<1> DEFINE keys == Project(list, field)
<1>1. ToSet(keys) \subseteq valid /\ IsInjective(keys)
  BY NoFault DEF CheckKeys
<1>2. \A i \in DOMAIN list : i \in DOMAIN keys /\ keys[i] = list[i][field]
  BY DEF Project
<1>3. \A x \in ToSet(list) : x[field] \in ToSet(keys)
  BY FieldOf
<1> HIDE DEF keys
<1>4. \A i, j \in DOMAIN list : list[i][field] = list[j][field] => i = j
  BY <1>1, <1>2 DEF IsInjective
<1> QED BY <1>1, <1>3, <1>4

\* Prerequisites are features, and following them never comes back
\* (validate.go:43-53, 310-358).
THEOREM PrerequisitesEndHolds == TeamSpec => []PrerequisitesEnd
<1>1. ConfigOK => PrerequisitesEnd
  <2> DEFINE features == config.features
             keys == ToSet(Project(features, "key"))
             needs(k) == UNION {ToSet(f.dependsOn) : f \in {g \in ToSet(features) : g.key = k}}
  <2> SUFFICES ASSUME ConfigOK, Accepted
               PROVE  /\ \A k \in keys : needs(k) \subseteq keys
                      /\ \A S \in (SUBSET keys) \ {{}} : \E k \in S : needs(k) \cap S = {}
    BY DEF PrerequisitesEnd
  <2>1. CheckFeatures(features, KnownFeatures) = {}
    BY NoError
  <2>2. /\ CheckKeys("features.key", Project(features, "key"), ValidKeys) = {}
        /\ \A f \in ToSet(features) : ErrorIf("dependsOn[j]", Misdirected(f, KnownFeatures)) = {}
        /\ ErrorIf("dependsOn", HasCycle(features)) = {}
    BY <2>1 DEF CheckFeatures, Each
  <2>3. \A i, j \in DOMAIN features : features[i].key = features[j].key => i = j
    BY <2>2, KeysOK
  <2>4. ASSUME NEW f \in ToSet(features)
        PROVE  f.key \notin ToSet(f.dependsOn) /\ ToSet(f.dependsOn) \subseteq keys
    BY <2>2, NoFault DEF Misdirected, KnownFeatures
  <2>5. ~HasCycle(features)
    BY <2>2, NoFault
  <2>6. keys = {f.key : f \in ToSet(features)}
    BY FieldOf
  <2>7. DOMAIN features \subseteq Nat /\ \A f : f \in ToSet(features) <=> \E i \in DOMAIN features : f = features[i]
    <3>1. features \in Seq(ToSet(features))
      BY ConfigShape DEF ListsOK
    <3> QED BY <3>1 DEF ToSet
  <2> HIDE DEF keys, features
  <2>8. ASSUME NEW S \in (SUBSET keys) \ {{}}, \A k \in S : needs(k) \cap S # {}
        PROVE  FALSE
    <3> DEFINE T == {i \in DOMAIN features : features[i].key \in S}
    <3>1. T \in (SUBSET DOMAIN features) \ {{}}
      BY <2>6, <2>7
    <3>2. ASSUME NEW i \in T
          PROVE  \E j \in T : /\ features[j].key # features[i].key
                             /\ features[j].key \in ToSet(features[i].dependsOn)
                             /\ \A k \in DOMAIN features : features[k].key = features[j].key => k <= j
      <4>1. PICK f \in ToSet(features), d \in S : f.key = features[i].key /\ d \in ToSet(f.dependsOn)
        BY <2>8
      <4>2. f = features[i]
        BY <2>3, <2>7, <4>1
      <4>3. PICK j \in DOMAIN features : d = features[j].key
        BY <2>6, <2>7
      <4>4. j \in T /\ d # features[i].key
        BY <2>4, <4>1, <4>2, <4>3
      <4>5. \A k \in DOMAIN features : features[k].key = features[j].key => k <= j
        BY <2>3, <2>7
      <4> QED BY <4>1, <4>2, <4>3, <4>4, <4>5
    <3> HIDE DEF T
    <3>3. HasCycle(features)
      BY <3>1, <3>2 DEF HasCycle
    <3> QED BY <2>5, <3>3
  <2>9. \A k \in keys : needs(k) \subseteq keys
    BY <2>4
  <2> QED BY <2>8, <2>9
<1> QED BY <1>1, ConfigHolds, PTL
-----------------------------------------------------------------------------
\* Where a walk goes from a plan.
Onward(extends, p) == IF p \in DOMAIN extends THEN extends[p] ELSE Nil

\* A walk starts where it is told and goes on from each plan to what it extends.
LEMMA WalkIs ==
    ASSUME NEW start, NEW extends, NEW n \in Nat
    PROVE  /\ Walk(start, extends, n)[0] = start
           /\ \A i \in 1 .. n : Walk(start, extends, n)[i] = Onward(extends, Walk(start, extends, n)[i - 1])
<1> DEFINE Steps(f, k) == f = [i \in 0 .. k |-> IF i = 0 THEN start ELSE Onward(extends, f[i - 1])]
           Bad == {k \in Nat : ~ \E f : Steps(f, k)}
<1>1. \E f : Steps(f, 0)
  <2>1. Steps([i \in 0 .. 0 |-> start], 0)
    BY SMT
  <2> QED BY <2>1
<1>2. ASSUME NEW k \in Nat, NEW f, Steps(f, k) PROVE \E g : Steps(g, k + 1)
  <2> DEFINE g == [i \in 0 .. k + 1 |-> IF i = k + 1 THEN Onward(extends, f[k]) ELSE f[i]]
             h == [i \in 0 .. k + 1 |-> IF i = 0 THEN start ELSE Onward(extends, g[i - 1])]
  <2>1. ASSUME NEW i \in 0 .. k + 1 PROVE g[i] = h[i]
    <3>1. CASE i = k + 1
      <4>1. i # 0 /\ i - 1 = k /\ g[k] = f[k] /\ g[i] = Onward(extends, f[k])
        BY <3>1
      <4> QED BY <4>1
    <3>2. CASE i \in 0 .. k
      <4>1. f[i] = (IF i = 0 THEN start ELSE Onward(extends, f[i - 1]))
        BY <1>2, <3>2
      <4>2. g[i] = f[i] /\ (i # 0 => i - 1 \in 0 .. k /\ i - 1 # k + 1 /\ g[i - 1] = f[i - 1])
        BY <3>2
      <4>3. h[i] = IF i = 0 THEN start ELSE Onward(extends, g[i - 1])
        OBVIOUS
      <4> HIDE DEF g, h
      <4> QED BY <4>1, <4>2, <4>3
    <3> QED BY <3>1, <3>2
  <2>2. g = h
    BY <2>1
  <2>3. Steps(g, k + 1)
    BY <2>2
  <2> HIDE DEF g
  <2> QED BY <2>3
<1> HIDE DEF Steps
<1>3. Bad = {}
  <2> SUFFICES ASSUME Bad # {} PROVE FALSE
    OBVIOUS
  <2>1. PICK k \in Bad : \A j \in Bad : k <= j
    <3>1. Bad \in SUBSET Nat
      OBVIOUS
    <3> HIDE DEF Bad
    <3> QED BY <3>1, Least
  <2>2. k \in Nat /\ k # 0
    BY <1>1
  <2>3. k - 1 \in Nat /\ k - 1 + 1 = k /\ k - 1 \notin Bad
    BY <2>1, <2>2
  <2> QED BY <1>2, <2>3
<1>4. \E f : Steps(f, n)
  BY <1>3
<1>5. Steps(Walk(start, extends, n), n)
  <2>1. Walk(start, extends, n) = CHOOSE f : Steps(f, n)
    BY DEF Walk, Steps, Onward
  <2> QED BY <1>4, <2>1
<1>6. Walk(start, extends, n)
        = [i \in 0 .. n |-> IF i = 0 THEN start ELSE Onward(extends, Walk(start, extends, n)[i - 1])]
  BY <1>5 DEF Steps
<1> DEFINE walk == Walk(start, extends, n)
<1>7. \A i \in 0 .. n : walk[i] = IF i = 0 THEN start ELSE Onward(extends, walk[i - 1])
  BY <1>6
<1> QED BY <1>7

\* A walk comes to a plan of the set for the second time.
Repeats(walk, n, S) == \E j \in 1 .. n : \E i \in 0 .. j - 1 : walk[j] \in S /\ walk[j] = walk[i]

\* Where each plan extends another of the set, a walk from within it comes
\* back: it takes more steps than there are plans.
LEMMA WalkRepeats ==
    ASSUME NEW extends, NEW n \in Nat, NEW S, S # {}, Nil \notin S,
           IsFiniteSet(S), Cardinality(S) <= n,
           \A p \in S : p \in DOMAIN extends /\ extends[p] \in S,
           NEW start \in S
    PROVE  Repeats(Walk(start, extends, n), n, S)
<1> DEFINE walk == Walk(start, extends, n)
           Bad == {k \in 0 .. n : walk[k] \notin S}
<1>1. walk[0] \in S /\ \A i \in 1 .. n : walk[i] = Onward(extends, walk[i - 1])
  BY WalkIs
<1> HIDE DEF walk
<1>2. \A k \in 0 .. n : walk[k] \in S
  <2> SUFFICES ASSUME Bad # {} PROVE FALSE
    OBVIOUS
  <2>1. PICK k \in Bad : \A j \in Bad : k <= j
    <3>1. Bad \in SUBSET Nat
      OBVIOUS
    <3> HIDE DEF Bad
    <3> QED BY <3>1, Least
  <2>2. k \in 1 .. n /\ k - 1 \in 0 .. n /\ walk[k - 1] \in S
    BY <1>1, <2>1
  <2> QED BY <1>1, <2>1, <2>2 DEF Onward
<1>3. PICK i, j \in 0 .. n : i # j /\ walk[i] = walk[j]
  <2> DEFINE f == [k \in 0 .. n |-> walk[k]]
  <2>1. f \in [0 .. n -> S]
    BY <1>2
  <2>2. IsFiniteSet(0 .. n) /\ Cardinality(0 .. n) = n + 1
    BY FS_Interval
  <2>3. Cardinality(S) < Cardinality(0 .. n)
    <3>1. Cardinality(S) \in Nat
      BY FS_CardinalityType
    <3> QED BY <2>2, <3>1
  <2> HIDE DEF f
  <2>4. \E x, y \in 0 .. n : x # y /\ f[x] = f[y]
    BY <2>1, <2>2, <2>3, FS_PigeonHole, Zenon
  <2> QED BY <2>4 DEF f
<1>4. CASE i < j
  BY <1>2, <1>3, <1>4 DEF walk, Repeats
<1>5. CASE j < i
  BY <1>2, <1>3, <1>5 DEF walk, Repeats
<1> QED BY <1>3, <1>4, <1>5

-----------------------------------------------------------------------------
Distinct(list, field) ==
    \A i, j \in DOMAIN list : list[i][field] = list[j][field] => i = j

PlacesOf(list, field, value) == {i \in 1 .. Len(list) : list[i][field] = value}

\* Where keys are not repeated the first entry of a key is the last.
LEMMA OnlyPlace ==
    ASSUME NEW T, NEW list \in Seq(T), NEW field, Distinct(list, field), NEW k \in DOMAIN list
    PROVE  /\ PlacesOf(list, field, list[k][field]) = {k}
           /\ Min({k}) = k /\ Max({k}) = k
<1>1. PlacesOf(list, field, list[k][field]) = {k}
  BY DEF PlacesOf, Distinct
<1>2. k \in Int
  OBVIOUS
<1> QED BY <1>1, <1>2 DEF Min, Max

\* So the two tables of plans agree (validate.go:116, resolver.go:47).
LEMMA OnlyPlan ==
    ASSUME NEW T, NEW plans \in Seq(T), Distinct(plans, "id"), NEW p \in ToSet(plans)
    PROVE  FirstOf(plans, p.id) = p /\ LastOf(plans, p.id) = p
<1>1. PICK k \in DOMAIN plans : p = plans[k]
  BY DEF ToSet
<1>2. PlacesOf(plans, "id", p.id) = {k} /\ Min({k}) = k /\ Max({k}) = k
  BY <1>1, OnlyPlace
<1>3. {i \in 1 .. Len(plans) : plans[i].id = p.id} = {k}
  BY <1>2 DEF PlacesOf
<1>4. FirstOf(plans, p.id) = plans[k]
  BY <1>2, <1>3 DEF FirstOf, SelectInSeq
<1>5. LastOf(plans, p.id) = plans[k]
  BY <1>2, <1>3 DEF LastOf, SelectLastInSeq
<1> QED BY <1>1, <1>4, <1>5

\* An entitlement is found by its feature,
LEMMA OnlyEntitlement ==
    ASSUME NEW T, NEW ents \in Seq(T), Distinct(ents, "feature"), NEW e \in ToSet(ents)
    PROVE  e.feature \in DOMAIN Entitlements(ents) /\ Entitlements(ents)[e.feature] = e.limit
<1>1. PICK k \in DOMAIN ents : e = ents[k]
  BY DEF ToSet
<1>2. PlacesOf(ents, "feature", e.feature) = {k} /\ Min({k}) = k /\ Max({k}) = k
  BY <1>1, OnlyPlace
<1>3. {i \in 1 .. Len(ents) : ents[i].feature = e.feature} = {k}
  BY <1>2 DEF PlacesOf
<1>4. ents[SelectLastInSeq(ents, LAMBDA x : x.feature = e.feature)] = ents[k]
  BY <1>2, <1>3 DEF SelectLastInSeq
<1>5. e.feature \in ToSet(Project(ents, "feature"))
  BY FieldOf
<1> QED BY <1>1, <1>4, <1>5 DEF Entitlements

\* and an add-on by its id.
LEMMA OnlyAddOn ==
    ASSUME NEW T, NEW addons \in Seq(T), Distinct(addons, "id"), NEW a \in ToSet(addons)
    PROVE  /\ a.id \in DOMAIN AddOnsOf(addons)
           /\ AddOnsOf(addons)[a.id] = [requires |-> ToSet(a.requires), ents |-> Entitlements(a.ents)]
<1>1. PICK k \in DOMAIN addons : a = addons[k]
  BY DEF ToSet
<1>2. PlacesOf(addons, "id", a.id) = {k} /\ Min({k}) = k /\ Max({k}) = k
  BY <1>1, OnlyPlace
<1>3. {i \in 1 .. Len(addons) : addons[i].id = a.id} = {k}
  BY <1>2 DEF PlacesOf
<1>4. addons[SelectLastInSeq(addons, LAMBDA b : b.id = a.id)] = addons[k]
  BY <1>2, <1>3 DEF SelectLastInSeq
<1>5. a.id \in ToSet(Project(addons, "id"))
  BY FieldOf
<1> QED BY <1>1, <1>4, <1>5 DEF AddOnsOf

-----------------------------------------------------------------------------
IDs(list) == ToSet(Project(list, "id")) \ {Nil}

\* What is checked of a plan and of an add-on.
LEMMA PlansOK ==
    ASSUME NEW T, NEW plans \in Seq(T), NEW known, CheckPlans(plans, known) = {}
    PROVE  /\ Distinct(plans, "id") /\ \A p \in ToSet(plans) : p.id # Nil
           /\ \A p \in ToSet(plans) : /\ CheckEntitlements(p.ents, known) = {}
                                      /\ p.extends \in IDs(plans) \cup {Nil}
                                      /\ ~Cyclic(plans, p)
<1>1. /\ CheckKeys("plans.id", Project(plans, "id"), IDs(plans)) = {}
      /\ \A p \in ToSet(plans) :
            /\ CheckEntitlements(p.ents, known) = {}
            /\ ErrorIf("extends", (p.extends # Nil /\ p.extends \notin IDs(plans)) \/ Cyclic(plans, p)) = {}
  <2>1. Each(plans, LAMBDA p :
                  CheckEntitlements(p.ents, known)
                    \cup ErrorIf("extends",
                                 \/ (p.extends # Nil /\ p.extends \notin IDs(plans))
                                 \/ Cyclic(plans, p))) = {}
    BY Zenon DEF CheckPlans, IDs
  <2>2. CheckKeys("plans.id", Project(plans, "id"), IDs(plans)) = {}
    BY Zenon DEF CheckPlans, IDs
  <2>3. ASSUME NEW p \in ToSet(plans)
        PROVE  CheckEntitlements(p.ents, known)
                 \cup ErrorIf("extends", (p.extends # Nil /\ p.extends \notin IDs(plans)) \/ Cyclic(plans, p)) = {}
    BY <2>1, Zenon DEF Each
  <2>4. \A p \in ToSet(plans) :
            /\ CheckEntitlements(p.ents, known) = {}
            /\ ErrorIf("extends", (p.extends # Nil /\ p.extends \notin IDs(plans)) \/ Cyclic(plans, p)) = {}
    BY <2>3
  <2> QED BY <2>2, <2>4
<1>2. Distinct(plans, "id") /\ \A p \in ToSet(plans) : p.id \in IDs(plans)
  BY <1>1, KeysOK DEF Distinct
<1>3. \A p \in ToSet(plans) : ~((p.extends # Nil /\ p.extends \notin IDs(plans)) \/ Cyclic(plans, p))
  BY <1>1, NoFault
<1> QED BY <1>1, <1>2, <1>3 DEF IDs

\* What is checked of an add-on.
LEMMA AddOnsOK ==
    ASSUME NEW T, NEW addons \in Seq(T), NEW plans, NEW known, CheckAddOns(addons, plans, known) = {}
    PROVE  /\ Distinct(addons, "id")
           /\ \A a \in ToSet(addons) : /\ CheckEntitlements(a.ents, known) = {}
                                       /\ ToSet(a.requires) \subseteq IDs(plans)
<1>1. /\ CheckKeys("addons.id", Project(addons, "id"), IDs(addons)) = {}
      /\ \A a \in ToSet(addons) :
            /\ CheckEntitlements(a.ents, known) = {}
            /\ ErrorIf("requires", ~(ToSet(a.requires) \subseteq IDs(plans))) = {}
  <2>1. Each(addons, LAMBDA a :
                  CheckEntitlements(a.ents, known)
                    \cup ErrorIf("requires", ~(ToSet(a.requires) \subseteq IDs(plans)))) = {}
    BY Zenon DEF CheckAddOns, IDs
  <2>2. CheckKeys("addons.id", Project(addons, "id"), IDs(addons)) = {}
    BY Zenon DEF CheckAddOns, IDs
  <2>3. ASSUME NEW a \in ToSet(addons)
        PROVE  CheckEntitlements(a.ents, known)
                 \cup ErrorIf("requires", ~(ToSet(a.requires) \subseteq IDs(plans))) = {}
    BY <2>1, Zenon DEF Each
  <2>4. \A a \in ToSet(addons) :
            /\ CheckEntitlements(a.ents, known) = {}
            /\ ErrorIf("requires", ~(ToSet(a.requires) \subseteq IDs(plans))) = {}
    BY <2>3
  <2> QED BY <2>2, <2>4
<1>2. Distinct(addons, "id")
  BY <1>1, KeysOK DEF Distinct
<1>3. \A a \in ToSet(addons) : ToSet(a.requires) \subseteq IDs(plans)
  BY <1>1, NoFault
<1> QED BY <1>1, <1>2, <1>3

\* What is checked of an entitlement.
LEMMA EntitlementsOK ==
    ASSUME NEW ents, NEW known, CheckEntitlements(ents, known) = {}
    PROVE  /\ Distinct(ents, "feature")
           /\ \A e \in ToSet(ents) : e.limit # Nil => e.limit.period \in LimitPeriods
<1>1. /\ CheckKeys("entitlements.feature", Project(ents, "feature"), known) = {}
      /\ \A e \in ToSet(ents) :
            e.limit # Nil => ErrorIf("period", e.limit.period \notin LimitPeriods) = {}
  BY DEF CheckEntitlements, Each
<1>2. Distinct(ents, "feature")
  BY <1>1, KeysOK DEF Distinct
<1> QED BY <1>1, <1>2, NoFault

\* A list names no more plans than it has entries.
LEMMA PlansFinite ==
    ASSUME NEW T, NEW plans \in Seq(T), NEW S \in SUBSET IDs(plans)
    PROVE  IsFiniteSet(S) /\ Cardinality(S) <= Len(plans)
<1> DEFINE f == [i \in 1 .. Len(plans) |-> plans[i].id]
           ids == {f[i] : i \in 1 .. Len(plans)}
<1>1. IsFiniteSet(1 .. Len(plans)) /\ Cardinality(1 .. Len(plans)) = Len(plans)
  <2>1. Len(plans) \in Nat /\ 1 \in Int
    OBVIOUS
  <2> QED BY <2>1, FS_Interval
<1>2. f \in Surjection(1 .. Len(plans), ids)
  BY DEF Surjection
<1> HIDE DEF f
<1>3. IsFiniteSet(ids) /\ Cardinality(ids) <= Len(plans)
  BY <1>1, <1>2, FS_Surjection
<1>4. S \subseteq ids
  BY DEF IDs, ToSet, Project, f
<1>5. IsFiniteSet(S) /\ Cardinality(S) <= Cardinality(ids)
  BY <1>3, <1>4, FS_Subset
<1>6. Cardinality(S) \in Nat /\ Cardinality(ids) \in Nat
  BY <1>3, <1>5, FS_CardinalityType
<1> QED BY <1>3, <1>5, <1>6

\* The plans that CheckPlans lets through extend plans that there are, and every
\* chain of Extends ends: a chain that does not would come back within as many
\* steps as there are plans, where the search for cycles sees it.
LEMMA PlansValid ==
    ASSUME NEW T, NEW plans \in Seq(T), NEW known, CheckPlans(plans, known) = {}
    PROVE  ValidPlans(PlansOf(plans))
<1> DEFINE extends == [id \in IDs(plans) |-> FirstOf(plans, id).extends]
<1>1. /\ Distinct(plans, "id") /\ \A p \in ToSet(plans) : p.id # Nil
      /\ \A p \in ToSet(plans) : p.extends \in IDs(plans) \cup {Nil} /\ ~Cyclic(plans, p)
  BY PlansOK
<1>2. ToSet(Project(plans, "id")) = {p.id : p \in ToSet(plans)}
  BY FieldOf
<1>3. IDs(plans) = {p.id : p \in ToSet(plans)}
  BY <1>1, <1>2 DEF IDs
<1>4. \A p \in ToSet(plans) : p.id \in IDs(plans) /\ extends[p.id] = p.extends
  BY <1>1, <1>3, OnlyPlan
<1>5. DOMAIN PlansOf(plans) = IDs(plans)
  BY <1>2, <1>3 DEF PlansOf
<1>6. \A p \in ToSet(plans) : PlansOf(plans)[p.id].extends = p.extends
  BY <1>1, <1>2, OnlyPlan DEF PlansOf
<1>7. ASSUME NEW S \in (SUBSET IDs(plans)) \ {{}}, \A id \in S : PlansOf(plans)[id].extends \in S
      PROVE  FALSE
  <2>1. PICK p \in ToSet(plans) : p.id \in S
    BY <1>3, <1>7
  <2>2. p.extends \in S
    BY <1>6, <1>7, <2>1
  <2>3. \A id \in S : id \in DOMAIN extends /\ extends[id] \in S
    BY <1>3, <1>4, <1>6, <1>7
  <2>4. IsFiniteSet(S) /\ Cardinality(S) <= Len(plans) /\ Nil \notin S /\ S # {} /\ Len(plans) \in Nat
    BY <1>7, PlansFinite DEF IDs
  <2> HIDE DEF extends
  <2>5. Repeats(Walk(p.extends, extends, Len(plans)), Len(plans), S)
    BY <2>2, <2>3, <2>4, WalkRepeats, Zenon
  <2>6. \E j \in 0 .. Len(plans) : ComesBack(p, Walk(p.extends, extends, Len(plans)), j)
    BY <2>4, <2>5 DEF ComesBack, Repeats
  <2>7. Cyclic(plans, p)
    BY <2>6 DEF Cyclic, extends, IDs
  <2> QED BY <1>1, <2>7
<1>8. Nil \notin DOMAIN PlansOf(plans)
  BY <1>5 DEF IDs
<1>9. \A id \in DOMAIN PlansOf(plans) : PlansOf(plans)[id].extends \in DOMAIN PlansOf(plans) \cup {Nil}
  BY <1>1, <1>3, <1>5, <1>6
<1> QED BY <1>5, <1>7, <1>8, <1>9 DEF ValidPlans

\* Where every chain of Extends ends, a walk from a plan stays among the plans
\* and never comes back.
LEMMA WalkEnds ==
    ASSUME NEW ids, Nil \notin ids, NEW extends \in [ids -> ids \cup {Nil}],
           \A S \in (SUBSET ids) \ {{}} : \E p \in S : extends[p] \notin S,
           NEW plan, plan.id \in ids, plan.extends = extends[plan.id], NEW n \in Nat
    PROVE  \A k \in 0 .. n : /\ Walk(plan.extends, extends, n)[k] \in ids \cup {Nil}
                             /\ ~ComesBack(plan, Walk(plan.extends, extends, n), k)
<1> DEFINE walk == Walk(plan.extends, extends, n)
           at == [i \in 0 .. n + 1 |-> IF i = 0 THEN plan.id ELSE walk[i - 1]]
<1>1. walk[0] = plan.extends /\ \A i \in 1 .. n : walk[i] = Onward(extends, walk[i - 1])
  BY WalkIs
<1>2. \A i \in 0 .. n : walk[i] \in ids \cup {Nil}
  <2> DEFINE Bad == {i \in 0 .. n : walk[i] \notin ids \cup {Nil}}
  <2> SUFFICES ASSUME Bad # {} PROVE FALSE
    OBVIOUS
  <2>1. PICK i \in Bad : \A j \in Bad : i <= j
    <3>1. Bad \in SUBSET Nat
      OBVIOUS
    <3> HIDE DEF Bad
    <3> QED BY <3>1, Least
  <2> HIDE DEF walk
  <2>2. i \in 1 .. n
    BY <1>1, <2>1
  <2>3. walk[i] = Onward(extends, walk[i - 1])
    BY <1>1, <2>2
  <2>4. walk[i] \in ids \cup {Nil}
    BY <2>3 DEF Onward
  <2> QED BY <2>1, <2>4
<1>3. /\ at[0] = plan.id /\ \A i \in 0 .. n : at[i + 1] = walk[i]
      /\ \A i \in 0 .. n + 1 : at[i] \in ids \cup {Nil}
  <2> HIDE DEF walk
  <2>1. \A i \in 0 .. n : i + 1 \in 0 .. n + 1 /\ i + 1 # 0 /\ (i + 1) - 1 = i
    OBVIOUS
  <2>2. \A i \in 0 .. n + 1 : i # 0 => i - 1 \in 0 .. n
    OBVIOUS
  <2> QED BY <1>2, <2>1, <2>2
<1>4. \A i \in 0 .. n : at[i + 1] = Onward(extends, at[i])
  <2> SUFFICES ASSUME NEW i \in 0 .. n PROVE at[i + 1] = Onward(extends, at[i])
    OBVIOUS
  <2> HIDE DEF at, walk
  <2>1. CASE i = 0
    BY <1>1, <1>3, <2>1 DEF Onward
  <2>2. CASE i # 0
    <3>1. i \in 1 .. n /\ i - 1 \in 0 .. n /\ (i - 1) + 1 = i
      BY <2>2
    <3>2. at[i + 1] = walk[i] /\ at[i] = walk[i - 1]
      BY <1>3, <3>1
    <3> QED BY <1>1, <3>1, <3>2
  <2> QED BY <2>1, <2>2
<1> HIDE DEF at
\* Once it has ended it stays so.
<1>5. ASSUME NEW k \in 0 .. n + 1, at[k] # Nil PROVE \A i \in 0 .. k : at[i] # Nil
  <2> DEFINE Bad == {i \in Nat : i <= k /\ at[k - i] = Nil}
  <2>1. Bad = {}
    <3> SUFFICES ASSUME Bad # {} PROVE FALSE
      OBVIOUS
    <3>1. PICK i \in Bad : \A j \in Bad : i <= j
      <4>1. Bad \in SUBSET Nat
        OBVIOUS
      <4> HIDE DEF Bad
      <4> QED BY <4>1, Least
    <3>2. i \in Nat /\ i <= k /\ at[k - i] = Nil /\ i # 0
      BY <1>5, <3>1
    <3>3. /\ i - 1 \in Nat /\ i - 1 <= k /\ ~(i <= i - 1)
          /\ k - i \in 0 .. n /\ (k - i) + 1 = k - (i - 1)
      BY <3>2
    <3>4. i - 1 \notin Bad
      <4> HIDE DEF Bad
      <4> QED BY <3>1, <3>3
    <3>5. at[k - (i - 1)] = Onward(extends, Nil)
      BY <1>4, <3>2, <3>3
    <3>6. at[k - (i - 1)] = Nil
      BY <3>5 DEF Onward
    <3> QED BY <3>3, <3>4, <3>6
  <2>2. \A i \in 0 .. k : k - i \in Nat /\ k - i <= k /\ k - (k - i) = i
    OBVIOUS
  <2>3. \A i \in 0 .. k : k - i \notin Bad
    BY <2>1, Zenon
  <2> QED BY <2>2, <2>3
<1>6. ASSUME NEW j \in 1 .. n + 1, NEW i \in 0 .. j - 1, at[j] = at[i], at[j] # Nil PROVE FALSE
  <2> DEFINE S == {at[k] : k \in i .. j - 1}
  <2>1. \A k \in i .. j - 1 : k \in 0 .. n /\ k \in 0 .. j /\ k + 1 \in i .. j
    OBVIOUS
  <2>2. \A k \in i .. j - 1 : at[k] \in ids
    BY <1>3, <1>5, <1>6, <2>1
  <2>3. S \in (SUBSET ids) \ {{}}
    BY <2>2
  <2>4. ASSUME NEW k \in i .. j - 1 PROVE extends[at[k]] \in S
    <3>1. extends[at[k]] = at[k + 1]
      BY <1>4, <2>1, <2>2 DEF Onward
    <3>2. k + 1 \in i .. j - 1 \/ k + 1 = j
      OBVIOUS
    <3> QED BY <1>6, <3>1, <3>2
  <2> QED BY <2>3, <2>4
<1>7. ASSUME NEW k \in 0 .. n PROVE ~ComesBack(plan, walk, k)
  <2> SUFFICES ASSUME ComesBack(plan, walk, k) PROVE FALSE
    OBVIOUS
  <2>1. k + 1 \in 1 .. n + 1 /\ at[k + 1] # Nil
    BY <1>3 DEF ComesBack
  <2>2. \A i \in 0 .. (k + 1) - 1 : at[k + 1] # at[i]
    BY <1>6, <2>1
  <2>3. walk[k] # plan.id
    BY <1>3, <2>2
  <2>4. ASSUME NEW m \in 0 .. k - 1 PROVE walk[k] # walk[m]
    <3>1. m + 1 \in 0 .. (k + 1) - 1 /\ m \in 0 .. n
      OBVIOUS
    <3> QED BY <1>3, <2>2, <3>1
  <2> QED BY <2>3, <2>4 DEF ComesBack
<1> QED BY <1>2, <1>7

\* Validation makes sure of what NewResolver checks again and what
\* SubscriptionLife takes for granted of its plans.
THEOREM PlansEnd == TeamSpec => [](Accepted => ValidPlans(PlansOf(config.plans)))
<1>1. ConfigOK /\ Accepted => ValidPlans(PlansOf(config.plans))
  BY ConfigShape, NoError, PlansValid DEF ListsOK
<1> QED BY <1>1, ConfigHolds, PTL

\* NewResolver finds no fault in a configuration that was accepted.
LEMMA ResolverBuildsAt == ASSUME ConfigOK, Accepted PROVE ~Refused(config.plans, config.addons)
<1> SUFFICES ASSUME Refused(config.plans, config.addons) PROVE FALSE
  OBVIOUS
<1> DEFINE plans == config.plans
           known == ToSet(Project(plans, "id"))
           extends == [id \in known \ {Nil} |-> LastOf(plans, id).extends]
<1>1. plans \in Seq(ToSet(plans)) /\ CheckPlans(plans, KnownFeatures) = {}
  BY ConfigShape, NoError DEF ListsOK
<1>2. config.addons \in Seq(ToSet(config.addons)) /\ CheckAddOns(config.addons, plans, KnownFeatures) = {}
  BY ConfigShape, NoError DEF ListsOK
<1>3. /\ Distinct(plans, "id") /\ \A p \in ToSet(plans) : p.id # Nil
      /\ \A p \in ToSet(plans) : p.extends \in IDs(plans) \cup {Nil}
  BY <1>1, PlansOK
<1>4. ValidPlans(PlansOf(plans))
  BY <1>1, PlansValid
<1> HIDE DEF plans
<1>5. IDs(plans) = known \ {Nil} /\ IDs(plans) = {p.id : p \in ToSet(plans)} /\ IDs(plans) = known
  BY <1>3, FieldOf DEF IDs
<1>6. \A p \in ToSet(plans) : p.extends = extends[p.id]
  BY <1>1, <1>3, <1>5, OnlyPlan
<1>7. extends \in [IDs(plans) -> IDs(plans) \cup {Nil}]
  BY <1>3, <1>5, <1>6
<1>8. \A S \in (SUBSET IDs(plans)) \ {{}} : \E p \in S : extends[p] \notin S
  <2>1. DOMAIN PlansOf(plans) = IDs(plans) /\ \A id \in IDs(plans) : PlansOf(plans)[id].extends = extends[id]
    BY <1>5 DEF PlansOf
  <2> HIDE DEF extends
  <2> QED BY <1>4, <2>1 DEF ValidPlans
<1>9. Nil \notin IDs(plans) /\ Len(plans) \in Nat
  BY <1>1 DEF IDs
<1>10. ASSUME NEW p \in ToSet(plans), NEW n \in 0 .. Len(plans)
       PROVE  /\ Walk(p.extends, extends, Len(plans))[n] \in IDs(plans) \cup {Nil}
              /\ ~ComesBack(p, Walk(p.extends, extends, Len(plans)), n)
  <2>1. p.id \in IDs(plans) /\ p.extends = extends[p.id]
    BY <1>5, <1>6
  <2> HIDE DEF extends
  <2> QED BY <1>7, <1>8, <1>9, <2>1, WalkEnds, Zenon
<1>11. \A a \in ToSet(config.addons) : ToSet(a.requires) \subseteq known
  BY <1>2, <1>5, AddOnsOK
<1>12. DOMAIN extends = IDs(plans)
  BY <1>7
<1>13. \E p \in ToSet(plans) : \E n \in 0 .. Len(plans) :
          \/ ComesBack(p, Walk(p.extends, extends, Len(plans)), n)
          \/ Walk(p.extends, extends, Len(plans))[n] \notin DOMAIN extends \cup {Nil}
  BY <1>11 DEF Refused, plans
<1> HIDE DEF extends
<1> QED BY <1>10, <1>12, <1>13

\* "unreachable: validate() already rejected these configs" (snapshot.go:61).
THEOREM ResolverBuildsHolds == TeamSpec => []ResolverBuilds
<1>1. ConfigOK => ResolverBuilds
  BY ResolverBuildsAt DEF ResolverBuilds
<1> QED BY <1>1, ConfigHolds, PTL

\* Each limit of the table is that of an entitlement in the list.
LEMMA EntitlementOf ==
    ASSUME NEW T, NEW ents \in Seq(T), NEW known, CheckEntitlements(ents, known) = {},
           NEW f \in DOMAIN Entitlements(ents)
    PROVE  \E e \in ToSet(ents) : e.feature = f /\ e.limit = Entitlements(ents)[f]
<1>1. PICK e \in ToSet(ents) : e.feature = f
  <2>1. f \in ToSet(Project(ents, "feature"))
    BY DEF Entitlements
  <2> QED BY <2>1, FieldOf
<1>2. Distinct(ents, "feature")
  BY EntitlementsOK
<1> QED BY <1>1, <1>2, OnlyEntitlement

AllEntitlements == UNION {ToSet(x.ents) : x \in ToSet(config.plans) \cup ToSet(config.addons)}

\* A plan has the limit, its own or inherited, or an add-on brings it.
Granted(f, l) ==
    \/ \E p \in DOMAIN Flat(PlansOf(config.plans)) :
          /\ f \in DOMAIN Flat(PlansOf(config.plans))[p]
          /\ l = Flat(PlansOf(config.plans))[p][f]
    \/ \E a \in DOMAIN AddOnsOf(config.addons) :
          /\ f \in DOMAIN AddOnsOf(config.addons)[a].ents
          /\ l = AddOnsOf(config.addons)[a].ents[f]

\* A limit that a plan hands down or an add-on adds is that of an entitlement to
\* the feature, so that validation has compared its period.
LEMMA LimitCompared ==
    ASSUME ConfigOK, Accepted, NEW f, NEW l, l # Nil, Granted(f, l)
    PROVE  /\ l \in LimitsOf(config.plans, config.addons, f)
           /\ \E e \in AllEntitlements : e.feature = f /\ e.limit = l
           /\ l.period \in LimitPeriods
<1> DEFINE plans == config.plans
           addons == config.addons
<1>1. /\ plans \in Seq(ToSet(plans)) /\ addons \in Seq(ToSet(addons))
      /\ \A x \in ToSet(plans) \cup ToSet(addons) : x.ents \in Seq(ToSet(x.ents))
      /\ CheckPlans(plans, KnownFeatures) = {} /\ CheckAddOns(addons, plans, KnownFeatures) = {}
  BY ConfigShape, NoError DEF ListsOK
<1>2. ~Refused(plans, addons)
  BY ResolverBuildsAt
<1>3. ValidPlans(PlansOf(plans))
  BY <1>1, PlansValid
<1> HIDE DEF plans, addons
<1>4. /\ Distinct(plans, "id") /\ Distinct(addons, "id") /\ \A p \in ToSet(plans) : p.id # Nil
      /\ \A x \in ToSet(plans) \cup ToSet(addons) : CheckEntitlements(x.ents, KnownFeatures) = {}
  BY <1>1, PlansOK, AddOnsOK
<1>5. \A e \in AllEntitlements : e.limit # Nil => e.limit.period \in LimitPeriods
  BY <1>4, EntitlementsOK DEF AllEntitlements, plans, addons
<1>6. ASSUME NEW p \in DOMAIN Flat(PlansOf(plans)), f \in DOMAIN Flat(PlansOf(plans))[p],
             l = Flat(PlansOf(plans))[p][f]
      PROVE  l \in LimitsOf(plans, addons, f) /\ \E e \in AllEntitlements : e.feature = f /\ e.limit = l
  <2>1. PICK q \in DOMAIN PlansOf(plans) : Gives(PlansOf(plans), q, f) /\ l = PlansOf(plans)[q].ents[f]
    BY <1>3, <1>6, FlatIs
  <2>2. PICK x \in ToSet(plans) : x.id = q
    BY FieldOf DEF PlansOf
  <2>3. PlansOf(plans)[q].ents = Entitlements(x.ents)
    BY <1>1, <1>4, <2>1, <2>2, OnlyPlan DEF PlansOf
  <2>4. PICK e \in ToSet(x.ents) : e.feature = f /\ e.limit = l
    <3> DEFINE ents == x.ents
    <3>1. ents \in Seq(ToSet(ents)) /\ CheckEntitlements(ents, KnownFeatures) = {}
      BY <1>1, <1>4, <2>2
    <3>2. f \in DOMAIN Entitlements(ents) /\ l = Entitlements(ents)[f]
      BY <2>1, <2>3 DEF Gives
    <3> HIDE DEF ents
    <3>3. \E e \in ToSet(ents) : e.feature = f /\ e.limit = l
      BY <3>1, <3>2, EntitlementOf
    <3> QED BY <3>3 DEF ents
  <2>5. p # Nil
    BY <1>3, <1>6, FlatIs DEF ValidPlans
  <2>6. ResolverOf(plans, addons).flat = Flat(PlansOf(plans))
    BY ResolverIs DEF ResolverOf
  <2>7. l \in LimitsOfPlans(plans, addons, f)
    BY <1>2, <1>6, <2>5, <2>6 DEF LimitsOfPlans, plans, addons
  <2>8. e \in AllEntitlements
    BY <2>2, <2>4 DEF AllEntitlements, plans
  <2> QED BY <2>4, <2>7, <2>8 DEF LimitsOf
<1>7. ASSUME NEW a \in DOMAIN AddOnsOf(addons), f \in DOMAIN AddOnsOf(addons)[a].ents,
             l = AddOnsOf(addons)[a].ents[f]
      PROVE  l \in LimitsOf(plans, addons, f) /\ \E e \in AllEntitlements : e.feature = f /\ e.limit = l
  <2>1. PICK x \in ToSet(addons) : x.id = a
    BY FieldOf DEF AddOnsOf
  <2>2. AddOnsOf(addons)[a].ents = Entitlements(x.ents)
    <3>1. AddOnsOf(addons)[x.id] = [requires |-> ToSet(x.requires), ents |-> Entitlements(x.ents)]
      BY <1>1, <1>4, OnlyAddOn, Zenon
    <3> QED BY <2>1, <3>1
  <2>3. PICK e \in ToSet(x.ents) : e.feature = f /\ e.limit = l
    <3> DEFINE ents == x.ents
    <3>1. ents \in Seq(ToSet(ents)) /\ CheckEntitlements(ents, KnownFeatures) = {}
      BY <1>1, <1>4
    <3>2. f \in DOMAIN Entitlements(ents) /\ l = Entitlements(ents)[f]
      BY <1>7, <2>2
    <3> HIDE DEF ents
    <3>3. \E e \in ToSet(ents) : e.feature = f /\ e.limit = l
      BY <3>1, <3>2, EntitlementOf
    <3> QED BY <3>3 DEF ents
  <2>4. l \in LimitsOfAddOns(addons, f)
    BY <2>1, <2>3 DEF LimitsOfAddOns
  <2>5. e \in AllEntitlements
    BY <2>1, <2>3 DEF AllEntitlements, addons
  <2> QED BY <2>3, <2>4, <2>5 DEF LimitsOf
<1> QED BY <1>5, <1>6, <1>7 DEF plans, addons, Granted

\* "Periods are equal by snapshot validation" (resolver.go:216).
THEOREM PeriodsAgreeHolds == TeamSpec => []PeriodsAgree
<1>1. ConfigOK => PeriodsAgree
  <2> DEFINE r == ResolverOf(config.plans, config.addons)
             limits(f) ==
                 {r.flat[p][f] : p \in {q \in DOMAIN r.flat : f \in DOMAIN r.flat[q]}}
                   \cup {r.addons[a].ents[f] : a \in {b \in DOMAIN r.addons : f \in DOMAIN r.addons[b].ents}}
             periods(f) ==
                 {l.period : l \in LimitsOf(config.plans, config.addons, f) \ {Nil}} \cap LimitPeriods
  <2> SUFFICES ASSUME ConfigOK, Accepted, NEW f, NEW k \in limits(f) \ {Nil}, NEW l \in limits(f) \ {Nil}
               PROVE  k.period = l.period
    BY DEF PeriodsAgree
  <2>1. r.flat = Flat(PlansOf(config.plans)) /\ r.addons = AddOnsOf(config.addons)
    BY ResolverIs DEF ResolverOf
  <2> HIDE DEF r
  <2>2. ASSUME NEW m \in limits(f) \ {Nil}
        PROVE  m.period \in periods(f) /\ \E e \in AllEntitlements : e.feature = f
    <3>1. Granted(f, m) /\ m # Nil
      BY <2>1 DEF Granted
    <3>2. /\ m \in LimitsOf(config.plans, config.addons, f) /\ m.period \in LimitPeriods
          /\ \E e \in AllEntitlements : e.feature = f /\ e.limit = m
      BY <3>1, LimitCompared
    <3> QED BY <3>2
  <2>3. \A e \in AllEntitlements : \A p, q \in periods(e.feature) : p = q
    <3>1. CheckPeriods(config.plans, config.addons) = {}
      BY NoError
    <3>2. ~ \E e \in AllEntitlements : \E p, q \in periods(e.feature) : p # q
      BY <3>1, NoFault, Zenon DEF CheckPeriods, AllEntitlements
    <3> QED BY <3>2
  <2> HIDE DEF limits, periods
  <2> QED BY <2>2, <2>3
<1> QED BY <1>1, ConfigHolds, PTL

-----------------------------------------------------------------------------
(***************************************************************************)
(* Entitlements: for every valid snapshot, subscription and instant,       *)
(* denies win, what is expired is as good as removed, a plan that extends  *)
(* the current one loses no feature, and an add-on takes nothing away      *)
(* unless the sum of the limits overflows.                                 *)
(***************************************************************************)
SubOK == sub = Nil \/ sub \in Subscriptions

TypeOK == SubOK /\ now \in Nat

\* The inductive invariant: what is stored is a subscription.
LEMMA TypeHolds == Spec => []TypeOK
<1>1. Init => TypeOK
  BY DEF Init, TypeOK, SubOK
<1>2. TypeOK /\ [Next]_vars => TypeOK'
  <2> SUFFICES ASSUME TypeOK, [Next]_vars PROVE TypeOK'
    OBVIOUS
  <2> USE DEF TypeOK, SubOK, Subscriptions
  <2>1. CASE Subscribe
    BY <2>1 DEF Subscribe, Set, NewSubscription
  <2>2. CASE Delete
    BY <2>2 DEF Delete, Set
  <2>3. CASE Tick
    BY <2>3 DEF Tick
  <2>4. CASE \E p \in PlanIDs : ChangePlan(p)
    BY <2>4 DEF ChangePlan, Set
  <2>5. CASE \E a \in AddOnIDs : AttachAddOn(a)
    <3>1. PICK a \in AddOnIDs : /\ sub # Nil /\ UNCHANGED now
                              /\ sub' = [sub EXCEPT !.addons = Append(sub.addons, a)]
      BY <2>5 DEF AttachAddOn, Set
    <3>2. sub.addons \in Seq(AddOnIDs) /\ sub \in Subscriptions
      BY <3>1
    <3>3. Append(sub.addons, a) \in Seq(AddOnIDs)
      BY <3>2
    <3>4. sub' \in Subscriptions
      BY <3>1, <3>2, <3>3
    <3> QED BY <3>1, <3>4
  <2>6. CASE \E t \in Trials : StartTrial(t)
    BY <2>6 DEF StartTrial, Set
  <2>7. CASE \E g \in Grants : AddGrant(g)
    <3>1. PICK g \in Grants : /\ sub # Nil /\ UNCHANGED now
                              /\ sub' = [sub EXCEPT !.grants = Append(sub.grants, g)]
      BY <2>7 DEF AddGrant, Set
    <3>2. sub.grants \in Seq(Grants) /\ sub \in Subscriptions
      BY <3>1
    <3>3. Append(sub.grants, g) \in Seq(Grants)
      BY <3>2
    <3>4. sub' \in Subscriptions
      BY <3>1, <3>2, <3>3
    <3> QED BY <3>1, <3>4
  <2>8. CASE UNCHANGED vars
    BY <2>8 DEF vars
  <2> QED BY <2>1, <2>2, <2>3, <2>4, <2>5, <2>6, <2>7, <2>8 DEF Next
<1> QED BY <1>1, <1>2, PTL DEF Spec

\* A revoked feature stays off, whatever else the subscription holds
\* (resolver.go:168-174).
THEOREM DenyWinsHolds == Spec => []DenyWins
<1>1. DenyWins
  <2> SUFFICES ASSUME sub # Nil, NEW g \in ToSet(sub.grants),
                      g.deny, g.until = Nil \/ now < g.until
               PROVE  ~Entitled(Resolved(sub, g.feature, now))
    BY DEF DenyWins
  <2>1. PICK i \in DOMAIN sub.grants : g = sub.grants[i]
    BY DEF ToSet
  <2>2. i \in {j \in GrantsFor(sub, g.feature, now) : sub.grants[j].deny}
    BY <2>1 DEF GrantsFor, Active
  <2>3. Resolved(sub, g.feature, now).kind = "denied"
    BY <2>2 DEF Resolved, Resolve, Resolution
  <2> QED BY <2>3 DEF Entitled
<1> QED BY <1>1, PTL

-----------------------------------------------------------------------------
\* A selection of a list keeps n of m places, in order.
Selects(at, n, m) ==
    /\ n \in Nat /\ m \in Nat /\ at \in [1 .. n -> 1 .. m]
    /\ \A i, j \in 1 .. n : i < j => at[i] < at[j]

Places(at, n, S) == {i \in 1 .. n : at[i] \in S}

\* The first of some places that it keeps stays the first of them.
LEMMA FirstSelected ==
    ASSUME NEW at, NEW n, NEW m, Selects(at, n, m),
           NEW S, S \subseteq 1 .. m, S \subseteq Range(at), S # {}
    PROVE  /\ Places(at, n, S) # {} /\ Min(Places(at, n, S)) \in 1 .. n
           /\ at[Min(Places(at, n, S))] = Min(S)
<1> USE DEF Selects
<1> DEFINE K == {i \in 1 .. n : at[i] \in S}
<1>1. \A s \in S : \E i \in K : at[i] = s
  <2>1. \A s \in S : \E i \in 1 .. n : at[i] = s
    BY Zenon DEF Range
  <2> QED BY <2>1
<1>2. K # {} /\ K \in SUBSET Nat
  <2>1. PICK s \in S : TRUE
    OBVIOUS
  <2>2. \E i \in K : at[i] = s
    BY <1>1
  <2>3. \A i \in K : i \in Nat
    OBVIOUS
  <2> HIDE DEF K
  <2> QED BY <2>2, <2>3
<1>3. Min(K) \in K /\ \A i \in K : Min(K) <= i
  BY <1>2, MinHolds
<1> DEFINE k == Min(K)
<1>4. at[k] \in S /\ \A s \in S : at[k] <= s
  <2>1. at[k] \in S
    BY <1>3
  <2>2. ASSUME NEW s \in S PROVE at[k] <= s
    <3>1. PICK i \in K : at[i] = s
      BY <1>1
    <3>2. k <= i /\ k \in 1 .. n /\ i \in 1 .. n
      BY <1>3
    <3>3. k = i \/ k < i
      BY <3>2
    <3>4. at[k] \in 1 .. m /\ at[i] \in 1 .. m
      BY <3>2
    <3> QED BY <3>1, <3>2, <3>3, <3>4
  <2> QED BY <2>1, <2>2
<1>5. Min(S) = at[k]
  <2> DEFINE x == at[k]
  <2>1. S \in SUBSET Int /\ x \in S /\ \A s \in S : x <= s
    BY <1>4
  <2> HIDE DEF x
  <2> QED BY <2>1, MinIs DEF x
<1> QED BY <1>2, <1>3, <1>5 DEF Places

\* What plan and add-ons give depends on the effective plan and the add-ons.
LEMMA SameSources ==
    ASSUME NEW s, NEW u, NEW f, NEW t, NEW r,
           s.addons = u.addons, EffectivePlan(s, t) = EffectivePlan(u, t)
    PROVE  ResolveSources(r, s, f, t) = ResolveSources(r, u, f, t)
<1>1. AddOnsWith(r, s, f, EffectivePlan(s, t)) = AddOnsWith(r, u, f, EffectivePlan(u, t))
  BY DEF AddOnsWith
<1>2. LimitsFor(r, s, f, t) = LimitsFor(r, u, f, t)
  BY <1>1 DEF LimitsFor
<1> QED BY <1>2 DEF ResolveSources

\* A trial or grant whose time is up is as good as removed
\* (subscription.go:41-44, resolver.go:119-127, 168-181).
THEOREM ExpiredIsAbsentHolds == Spec => []ExpiredIsAbsent
<1>1. TypeOK => ExpiredIsAbsent
  <2> DEFINE live == {i \in DOMAIN sub.grants : sub.grants[i].until = Nil \/ sub.grants[i].until > now}
             trials == {sub.trial} \cup
                          (IF sub.trial # Nil /\ sub.trial.until <= now THEN {Nil} ELSE {})
  <2> SUFFICES ASSUME TypeOK, sub # Nil, NEW at \in Selections(sub.grants), live \subseteq Range(at),
                      NEW trial \in trials, NEW f \in Features
               PROVE  LET kept == [sub EXCEPT !.grants = [i \in DOMAIN at |-> sub.grants[at[i]]],
                                              !.trial = trial]
                      IN Resolved(kept, f, now) = Resolved(sub, f, now)
    BY DEF ExpiredIsAbsent
  <2> DEFINE grants == [i \in DOMAIN at |-> sub.grants[at[i]]]
             kept == [sub EXCEPT !.grants = grants, !.trial = trial]
             m == Len(sub.grants)
  <2>1. sub \in Subscriptions /\ now \in Nat /\ sub.grants \in Seq(Grants) /\ m \in Nat
        /\ DOMAIN sub.grants = 1 .. m /\ sub.trial \in Trials \cup {Nil}
    BY DEF TypeOK, SubOK, Subscriptions
  <2>2. PICK n \in Nat : /\ at \in [1 .. n -> 1 .. m]
                         /\ \A i, j \in 1 .. n : i < j => at[i] < at[j]
    BY <2>1 DEF Selections
  <2>3. DOMAIN at = 1 .. n /\ DOMAIN grants = 1 .. n
        /\ \A i \in 1 .. n : at[i] \in 1 .. m /\ grants[i] = sub.grants[at[i]]
    BY <2>2
  <2>4. grants \in Seq(Grants)
    <3>1. \A i \in 1 .. n : grants[i] \in Grants
      BY <2>1, <2>3
    <3> QED BY <2>3, <3>1
  <2>5. trial \in Trials \cup {Nil}
    BY <2>1
  <2> HIDE DEF grants
  <2>6. kept \in Subscriptions /\ kept.grants = grants /\ kept.trial = trial
        /\ kept.addons = sub.addons /\ kept.plan = sub.plan
    BY <2>1, <2>4, <2>5 DEF Subscriptions
  <2>7. kept # Nil
    BY <2>6, NilAssumption
  <2> HIDE DEF kept
  <2>8. EffectivePlan(kept, now) = EffectivePlan(sub, now)
    <3>1. sub.trial # Nil => sub.trial.until \in Int
      BY <2>1, GrantsAssumption
    <3>2. CASE trial = sub.trial
      BY <2>6, <3>2 DEF EffectivePlan
    <3>3. CASE trial = Nil /\ sub.trial # Nil /\ sub.trial.until <= now
      BY <2>1, <2>6, <3>1, <3>3 DEF EffectivePlan
    <3> QED BY <3>2, <3>3
  <2>9. ResolveSources(Resolver, kept, f, now) = ResolveSources(Resolver, sub, f, now)
    BY <2>6, <2>8, SameSources
  <2> DEFINE denies(s) == {i \in GrantsFor(s, f, now) : s.grants[i].deny}
             allows(s) == GrantsFor(s, f, now) \ denies(s)
  <2>10. /\ GrantsFor(sub, f, now) \in SUBSET (1 .. m)
         /\ GrantsFor(sub, f, now) \subseteq live
    <3>1. \A i \in 1 .. m : sub.grants[i].until \in Int \cup {Nil}
      BY <2>1, GrantsAssumption
    <3> QED BY <2>1, <3>1 DEF GrantsFor, Active
  <2>11. GrantsFor(kept, f, now) = {i \in 1 .. n : at[i] \in GrantsFor(sub, f, now)}
    BY <2>1, <2>3, <2>6 DEF GrantsFor
  <2>12. denies(kept) = {i \in 1 .. n : at[i] \in denies(sub)}
    BY <2>3, <2>6, <2>11
  <2>13. allows(kept) = {i \in 1 .. n : at[i] \in allows(sub)}
    BY <2>11, <2>12
  <2>14. ASSUME NEW K, NEW S \in SUBSET GrantsFor(sub, f, now),
                K = {i \in 1 .. n : at[i] \in S}
         PROVE  /\ K = {} <=> S = {}
                /\ S # {} => kept.grants[Min(K)] = sub.grants[Min(S)]
    <3>1. CASE S = {}
      BY <2>14, <3>1
    <3>2. CASE S # {}
      <4>1. S \subseteq 1 .. m /\ S \subseteq Range(at) /\ Selects(at, n, m) /\ K = Places(at, n, S)
        BY <2>1, <2>2, <2>10, <2>14 DEF Selects, Places
      <4>2. K # {} /\ Min(K) \in 1 .. n /\ at[Min(K)] = Min(S)
        BY <3>2, <4>1, FirstSelected
      <4>3. kept.grants[Min(K)] = sub.grants[at[Min(K)]]
        BY <2>3, <2>6, <4>2
      <4> QED BY <3>2, <4>2, <4>3
    <3> QED BY <3>1, <3>2
  <2>15. denies(sub) \in SUBSET GrantsFor(sub, f, now) /\ allows(sub) \in SUBSET GrantsFor(sub, f, now)
    OBVIOUS
  <2>16. /\ denies(kept) = {} <=> denies(sub) = {}
         /\ denies(sub) # {} => kept.grants[Min(denies(kept))] = sub.grants[Min(denies(sub))]
         /\ allows(kept) = {} <=> allows(sub) = {}
         /\ allows(sub) # {} => kept.grants[Min(allows(kept))] = sub.grants[Min(allows(sub))]
    <3> HIDE DEF denies, allows
    <3> QED BY <2>12, <2>13, <2>14, <2>15
  <2>17. ASSUME NEW s, s # Nil
         PROVE  Resolved(s, f, now) =
                    IF denies(s) # {}
                    THEN Resolution("denied", s.grants[Min(denies(s))].reason, Nil, Nil)
                    ELSE IF allows(s) # {}
                    THEN Resolution("grant", s.grants[Min(allows(s))].reason,
                                    s.grants[Min(allows(s))].limit, Nil)
                    ELSE ResolveSources(Resolver, s, f, now)
    BY <2>17 DEF Resolved, Resolve
  <2> HIDE DEF denies, allows
  <2>18. Resolved(kept, f, now) = Resolved(sub, f, now)
    BY <2>7, <2>9, <2>16, <2>17
  <2> QED BY <2>18 DEF kept, grants
<1> QED BY <1>1, TypeHolds, PTL

-----------------------------------------------------------------------------
-----------------------------------------------------------------------------
\* The tables of the resolver in closed form.
LEMMA SnapshotIs ==
    /\ ValidPlans(Plans) /\ Resolver.addons = AddOns
    /\ Resolver.flat = Flat(Plans) /\ Resolver.ancestors = Ancestors(Plans)
BY PlansAssumption, ResolverIs DEF Resolver

\* When a feature is entitled.
Denied(s, f, t) == \E i \in GrantsFor(s, f, t) : s.grants[i].deny

Allowed(s, f, t) == \E i \in GrantsFor(s, f, t) : ~s.grants[i].deny

Giving(s, f, t) == DOMAIN LimitsFor(Resolver, s, f, t)

\* When a feature is on, and where its limit comes from.
LEMMA ResolvedIs ==
    ASSUME NEW s, s # Nil, NEW f, NEW t
    PROVE  /\ Entitled(Resolved(s, f, t))
                 <=> ~Denied(s, f, t) /\ (Allowed(s, f, t) \/ Giving(s, f, t) # {})
           /\ ~Denied(s, f, t) /\ ~Allowed(s, f, t) =>
                  Resolved(s, f, t) = ResolveSources(Resolver, s, f, t)
<1> DEFINE denies == {i \in GrantsFor(s, f, t) : s.grants[i].deny}
           allows == GrantsFor(s, f, t) \ denies
<1>1. (denies # {} <=> Denied(s, f, t)) /\ (allows # {} <=> Allowed(s, f, t))
  BY DEF Denied, Allowed
<1>2. Resolved(s, f, t) =
          IF denies # {} THEN Resolution("denied", s.grants[Min(denies)].reason, Nil, Nil)
          ELSE IF allows # {}
          THEN Resolution("grant", s.grants[Min(allows)].reason, s.grants[Min(allows)].limit, Nil)
          ELSE ResolveSources(Resolver, s, f, t)
  BY DEF Resolved, Resolve
<1>3. ResolveSources(Resolver, s, f, t).kind \in {"plan", "addon"} <=> Giving(s, f, t) # {}
  BY DEF ResolveSources, Resolution, Giving
<1>4. ResolveSources(Resolver, s, f, t).kind \in {"none", "plan", "addon"}
  BY DEF ResolveSources, Resolution
<1> HIDE DEF denies, allows
<1>5. CASE denies # {}
  BY <1>1, <1>2, <1>5 DEF Entitled, Resolution
<1>6. CASE denies = {} /\ allows # {}
  BY <1>1, <1>2, <1>6 DEF Entitled, Resolution
<1>7. CASE denies = {} /\ allows = {}
  BY <1>1, <1>2, <1>3, <1>4, <1>7 DEF Entitled
<1> QED BY <1>5, <1>6, <1>7

\* Which of the plan and the add-ons give a feature.
LEMMA GivingIs ==
    ASSUME NEW s, NEW f, NEW t
    PROVE  LET plan == EffectivePlan(s, t)
           IN Giving(s, f, t) = {i \in DOMAIN s.addons : /\ Effective(Resolver, s.addons[i], plan)
                                                        /\ f \in DOMAIN AddOns[s.addons[i]].ents}
                                  \cup (IF plan \in DOMAIN Plans /\ f \in FeaturesOf(Plans, plan) THEN {0} ELSE {})
<1> DEFINE plan == EffectivePlan(s, t)
<1>1. PlanGives(Resolver, plan, f) <=> plan \in DOMAIN Plans /\ f \in FeaturesOf(Plans, plan)
  BY SnapshotIs, FlatIs DEF PlanGives
<1>2. Giving(s, f, t) = AddOnsWith(Resolver, s, f, plan)
                          \cup (IF PlanGives(Resolver, plan, f) THEN {0} ELSE {})
  BY DEF Giving, LimitsFor
<1> QED BY <1>1, <1>2, SnapshotIs DEF AddOnsWith

\* A plan above another is satisfied wherever that one is.
LEMMA UpgradeGives ==
    ASSUME NEW p \in DOMAIN Plans, NEW q \in Above(Plans, p)
    PROVE  /\ q \in DOMAIN Plans /\ FeaturesOf(Plans, q) \subseteq FeaturesOf(Plans, p)
           /\ \A a : Effective(Resolver, a, q) => Effective(Resolver, a, p)
<1>1. Above(Plans, q) \subseteq Above(Plans, p) /\ Above(Plans, p) \subseteq DOMAIN Plans
  BY SnapshotIs, AboveOrder, AboveIs
<1>2. FeaturesOf(Plans, q) \subseteq FeaturesOf(Plans, p)
  BY <1>1 DEF FeaturesOf
<1>3. \A a : Effective(Resolver, a, q) => Effective(Resolver, a, p)
  BY <1>1, SnapshotIs, AncestorsAre DEF Effective, RequiresSatisfied
<1> QED BY <1>1, <1>2, <1>3

\* A feature that is on stays on when the plan is one that extends the old.
LEMMA UpgradeKeeps ==
    ASSUME NEW s \in Subscriptions, NEW p \in DOMAIN Plans, s.plan \in Above(Plans, p), NEW f, NEW t,
           Entitled(Resolved(s, f, t))
    PROVE  Entitled(Resolved([s EXCEPT !.plan = p], f, t))
<1> DEFINE u == [s EXCEPT !.plan = p]
<1>1. /\ u \in Subscriptions /\ u.grants = s.grants /\ u.addons = s.addons
      /\ u.trial = s.trial /\ u.plan = p
  BY PlansAssumption DEF Subscriptions
<1>2. s # Nil /\ u # Nil
  BY <1>1, NilAssumption
<1> HIDE DEF u
<1>3. (Denied(u, f, t) <=> Denied(s, f, t)) /\ (Allowed(u, f, t) <=> Allowed(s, f, t))
  BY <1>1 DEF Denied, Allowed, GrantsFor
<1>4. Giving(s, f, t) \subseteq Giving(u, f, t)
  <2>1. CASE EffectivePlan(u, t) = EffectivePlan(s, t)
    BY <1>1, <2>1, GivingIs
  <2>2. CASE EffectivePlan(u, t) = p /\ EffectivePlan(s, t) = s.plan
    <3>1. /\ s.plan \in DOMAIN Plans /\ FeaturesOf(Plans, s.plan) \subseteq FeaturesOf(Plans, p)
          /\ \A a : Effective(Resolver, a, s.plan) => Effective(Resolver, a, p)
      BY UpgradeGives
    <3> QED BY <1>1, <2>2, <3>1, GivingIs
  <2> QED BY <1>1, <2>1, <2>2 DEF EffectivePlan
<1>5. Entitled(Resolved(u, f, t))
  BY <1>2, <1>3, <1>4, ResolvedIs
<1> QED BY <1>5 DEF u

\* Whatever the plans, add-ons, trial and grants, moving to a plan that extends
\* the current one loses no feature (resolver.go:53-82, 150-158).
THEOREM UpgradeKeepsFeaturesHolds == Spec => UpgradeKeepsFeatures
<1> DEFINE Step == \A p \in DOMAIN Plans :
                      (ChangePlan(p) /\ sub.plan \in Resolver.ancestors[p]) =>
                          \A f \in Features :
                              Entitled(Resolved(sub, f, now)) => Entitled(Resolved(sub', f, now))
<1>1. TypeOK /\ [Next]_vars => [Step]_vars
  <2> SUFFICES ASSUME TypeOK, NEW p \in DOMAIN Plans,
                      ChangePlan(p), sub.plan \in Resolver.ancestors[p],
                      NEW f \in Features, Entitled(Resolved(sub, f, now))
               PROVE  Entitled(Resolved(sub', f, now))
    OBVIOUS
  <2>1. sub \in Subscriptions /\ sub' = [sub EXCEPT !.plan = p]
    BY DEF TypeOK, SubOK, ChangePlan, Set
  <2>2. sub.plan \in Above(Plans, p)
    BY SnapshotIs, AncestorsAre
  <2>3. Entitled(Resolved([sub EXCEPT !.plan = p], f, now))
    BY <2>1, <2>2, UpgradeKeeps
  <2> QED BY <2>1, <2>3
<1> QED BY <1>1, TypeHolds, PTL DEF Spec, UpgradeKeepsFeatures

-----------------------------------------------------------------------------
\* The running sums of the limits' maxima.
Term(limits, i) == IF i \in DOMAIN limits THEN limits[i].max ELSE 0

Sums(limits, n) ==
    LET sum[i \in 0 .. n] == (IF i = 0 THEN 0 ELSE sum[i - 1]) + Term(limits, i)
    IN sum

\* The sum as the last of the running sums.
LEMMA SumMaxIs == ASSUME NEW limits, NEW n PROVE SumMax(limits, n) = Wrap(Sums(limits, n)[n])
BY DEF SumMax, Sums, Term

\* What SumMax sums by is a function: it extends one place at a time.
LEMMA SumsAre ==
    ASSUME NEW limits, NEW n \in Nat
    PROVE  \A i \in 0 .. n :
               Sums(limits, n)[i] = (IF i = 0 THEN 0 ELSE Sums(limits, n)[i - 1]) + Term(limits, i)
<1> DEFINE Sum(f, k) == f = [i \in 0 .. k |-> (IF i = 0 THEN 0 ELSE f[i - 1]) + Term(limits, i)]
           Bad == {k \in Nat : ~ \E f : Sum(f, k)}
<1>1. \E f : Sum(f, 0)
  <2>1. Sum([i \in 0 .. 0 |-> 0 + Term(limits, i)], 0)
    BY SMT
  <2> QED BY <2>1
<1>2. ASSUME NEW k \in Nat, NEW f, Sum(f, k) PROVE \E g : Sum(g, k + 1)
  <2> DEFINE g == [i \in 0 .. k + 1 |-> IF i = k + 1 THEN f[k] + Term(limits, i) ELSE f[i]]
             h == [i \in 0 .. k + 1 |-> (IF i = 0 THEN 0 ELSE g[i - 1]) + Term(limits, i)]
  <2>1. ASSUME NEW i \in 0 .. k + 1 PROVE g[i] = h[i]
    <3>1. CASE i = k + 1
      <4>1. i # 0 /\ i - 1 = k /\ g[k] = f[k] /\ g[i] = f[k] + Term(limits, i)
        BY <3>1
      <4> QED BY <4>1
    <3>2. CASE i \in 0 .. k
      <4>1. f[i] = (IF i = 0 THEN 0 ELSE f[i - 1]) + Term(limits, i)
        BY <1>2, <3>2
      <4>2. g[i] = f[i] /\ (i # 0 => i - 1 \in 0 .. k /\ i - 1 # k + 1 /\ g[i - 1] = f[i - 1])
        BY <3>2
      <4>3. h[i] = (IF i = 0 THEN 0 ELSE g[i - 1]) + Term(limits, i)
        OBVIOUS
      <4> HIDE DEF g, h
      <4> QED BY <4>1, <4>2, <4>3
    <3> QED BY <3>1, <3>2
  <2>2. g = h
    BY <2>1
  <2>3. Sum(g, k + 1)
    BY <2>2
  <2> HIDE DEF g
  <2> QED BY <2>3
<1> HIDE DEF Sum
<1>3. Bad = {}
  <2> SUFFICES ASSUME Bad # {} PROVE FALSE
    OBVIOUS
  <2>1. PICK k \in Bad : \A j \in Bad : k <= j
    <3>1. Bad \in SUBSET Nat
      OBVIOUS
    <3> HIDE DEF Bad
    <3> QED BY <3>1, Least
  <2>2. k \in Nat /\ k # 0
    BY <1>1
  <2>3. k - 1 \in Nat /\ k - 1 + 1 = k /\ k - 1 \notin Bad
    <3>1. k - 1 \in Nat /\ k - 1 + 1 = k /\ ~(k <= k - 1)
      BY <2>2
    <3> HIDE DEF Bad
    <3> QED BY <2>1, <3>1
  <2> QED BY <1>2, <2>3
<1>4. PICK f : Sum(f, n)
  BY <1>3
<1>5. Sums(limits, n) = CHOOSE g : Sum(g, n)
  BY DEF Sums, Sum
<1>6. Sum(Sums(limits, n), n)
  BY <1>4, <1>5
<1> QED BY <1>6 DEF Sum

\* Sums of limits that are not negative stay between 0 and their number times
\* the greatest.
LEMMA SumsBound ==
    ASSUME NEW limits, NEW n \in Nat, NEW Most \in Nat,
           \A i \in 0 .. n : Term(limits, i) \in 0 .. Most
    PROVE  \A i \in 0 .. n : Sums(limits, n)[i] \in Nat /\ Sums(limits, n)[i] <= (i + 1) * Most
<1> DEFINE s == Sums(limits, n)
           Bad == {i \in 0 .. n : ~(s[i] \in Nat /\ s[i] <= (i + 1) * Most)}
<1>1. \A i \in 0 .. n : s[i] = (IF i = 0 THEN 0 ELSE s[i - 1]) + Term(limits, i)
  BY SumsAre
<1> HIDE DEF s
<1>2. Bad = {}
  <2> SUFFICES ASSUME Bad # {} PROVE FALSE
    OBVIOUS
  <2>1. PICK k \in Bad : \A j \in Bad : k <= j
    <3>1. Bad \in SUBSET Nat
      OBVIOUS
    <3> HIDE DEF Bad
    <3> QED BY <3>1, Least
  <2>2. k \in 0 .. n /\ Term(limits, k) \in 0 .. Most
    OBVIOUS
  <2>3. CASE k = 0
    <3>1. s[k] = Term(limits, k)
      BY <1>1, <2>2, <2>3
    <3> QED BY <2>2, <2>3, <3>1
  <2>4. CASE k # 0
    <3>1. k - 1 \in 0 .. n /\ ~(k <= k - 1)
      BY <2>2, <2>4
    <3>2. k - 1 \notin Bad
      <4> HIDE DEF Bad
      <4> QED BY <2>1, <3>1
    <3>3. s[k - 1] \in Nat /\ s[k - 1] <= ((k - 1) + 1) * Most
      BY <3>1, <3>2
    <3>4. s[k] = s[k - 1] + Term(limits, k)
      BY <1>1, <2>2, <2>4
    <3>5. ((k - 1) + 1) * Most + Most = (k + 1) * Most
      BY <2>2
    <3>6. s[k] \in Nat /\ s[k] <= (k + 1) * Most
      <4> DEFINE low == ((k - 1) + 1) * Most
                 high == (k + 1) * Most
      <4>1. low \in Int /\ high \in Int /\ low + Most = high /\ s[k - 1] <= low
        BY <2>2, <3>3, <3>5
      <4> HIDE DEF low, high
      <4>2. s[k] \in Nat /\ s[k] <= high
        BY <2>2, <3>3, <3>4, <4>1
      <4> QED BY <4>2 DEF high
    <3> QED BY <3>6
  <2> QED BY <2>3, <2>4
<1> QED BY <1>2 DEF s

\* Another place, and terms that are no smaller, make no sum smaller.
LEMMA SumsCompare ==
    ASSUME NEW limits, NEW more, NEW n \in Nat, NEW Most \in Nat,
           \A i \in 0 .. n : Term(limits, i) \in 0 .. Most,
           \A i \in 0 .. n + 1 : Term(more, i) \in 0 .. Most,
           \A i \in 0 .. n : Term(limits, i) <= Term(more, i)
    PROVE  Sums(limits, n)[n] <= Sums(more, n + 1)[n + 1]
<1> DEFINE s == Sums(limits, n)
           u == Sums(more, n + 1)
           Bad == {i \in 0 .. n : ~(s[i] <= u[i])}
<1>1. \A i \in 0 .. n : s[i] = (IF i = 0 THEN 0 ELSE s[i - 1]) + Term(limits, i) /\ s[i] \in Nat
  BY SumsAre, SumsBound
<1>2. \A i \in 0 .. n + 1 : u[i] = (IF i = 0 THEN 0 ELSE u[i - 1]) + Term(more, i) /\ u[i] \in Nat
  <2>1. n + 1 \in Nat
    OBVIOUS
  <2> QED BY <2>1, SumsAre, SumsBound
<1> HIDE DEF s, u
<1>3. Bad = {}
  <2> SUFFICES ASSUME Bad # {} PROVE FALSE
    OBVIOUS
  <2>1. PICK k \in Bad : \A j \in Bad : k <= j
    <3>1. Bad \in SUBSET Nat
      OBVIOUS
    <3> HIDE DEF Bad
    <3> QED BY <3>1, Least
  <2>2. k \in 0 .. n /\ k \in 0 .. n + 1 /\ ~(s[k] <= u[k])
    OBVIOUS
  <2>3. /\ Term(limits, k) \in 0 .. Most /\ Term(more, k) \in 0 .. Most
        /\ Term(limits, k) <= Term(more, k)
    BY <2>2
  <2>4. CASE k = 0
    <3>1. s[k] = Term(limits, k) /\ u[k] = Term(more, k)
      BY <1>1, <1>2, <2>2, <2>3, <2>4
    <3> QED BY <2>2, <2>3, <3>1
  <2>5. CASE k # 0
    <3>1. k - 1 \in 0 .. n /\ k - 1 \in 0 .. n + 1 /\ ~(k <= k - 1)
      BY <2>2, <2>5
    <3>2. k - 1 \notin Bad
      <4> HIDE DEF Bad
      <4> QED BY <2>1, <3>1
    <3>3. s[k - 1] <= u[k - 1] /\ s[k - 1] \in Nat /\ u[k - 1] \in Nat
      BY <1>1, <1>2, <3>1, <3>2
    <3>4. s[k] = s[k - 1] + Term(limits, k) /\ u[k] = u[k - 1] + Term(more, k)
      BY <1>1, <1>2, <2>2, <2>5
    <3> QED BY <2>2, <2>3, <3>3, <3>4
  <2> QED BY <2>4, <2>5
<1>4. s[n] <= u[n] /\ s[n] \in Nat /\ u[n] \in Nat
  BY <1>1, <1>2, <1>3
<1>5. u[n + 1] = u[n] + Term(more, n + 1) /\ Term(more, n + 1) \in Nat
  <2>1. n + 1 \in 0 .. n + 1 /\ n + 1 # 0 /\ n + 1 - 1 = n
    OBVIOUS
  <2> QED BY <2>1, <1>2
<1>6. s[n] <= u[n + 1]
  BY <1>4, <1>5
<1> QED BY <1>6 DEF s, u

\* An int64 in range is itself.
LEMMA WrapFits == ASSUME NEW x \in Int64 PROVE Wrap(x) = x
<1>1. MaxInt \in Nat /\ x \in Int /\ -MaxInt - 1 <= x /\ x <= MaxInt
  BY MaxIntAssumption DEF Int64
<1>2. \A a, b \in Int : 0 <= a /\ a < b => a % b = a
  OBVIOUS
<1>3. (x + MaxInt + 1) % (2 * (MaxInt + 1)) = x + MaxInt + 1
  BY <1>1, <1>2
<1> QED BY <1>1, <1>3 DEF Wrap

Limits(s, f, t) == LimitsFor(Resolver, s, f, t)

\* Every limit that counts is one of the snapshot's.
LEMMA LimitsAre ==
    ASSUME NEW s \in Subscriptions, NEW f, NEW t
    PROVE  LET limits == Limits(s, f, t)
           IN /\ Len(s.addons) \in Nat /\ DOMAIN limits \subseteq 0 .. Len(s.addons)
              /\ \A i \in DOMAIN limits : limits[i] \in LimitsGiven \cup {Nil}
<1> DEFINE limits == Limits(s, f, t)
           plan == EffectivePlan(s, t)
<1>1. Len(s.addons) \in Nat /\ DOMAIN s.addons = 1 .. Len(s.addons)
  BY DEF Subscriptions
<1>2. DOMAIN limits = AddOnsWith(Resolver, s, f, plan) \cup (IF PlanGives(Resolver, plan, f) THEN {0} ELSE {})
      /\ \A i \in DOMAIN limits :
            limits[i] = IF i = 0 THEN Resolver.flat[plan][f] ELSE Resolver.addons[s.addons[i]].ents[f]
  BY DEF Limits, LimitsFor
<1> HIDE DEF limits
<1>3. DOMAIN limits \subseteq 0 .. Len(s.addons)
  BY <1>1, <1>2 DEF AddOnsWith
<1>4. ASSUME NEW i \in DOMAIN limits PROVE limits[i] \in LimitsGiven \cup {Nil}
  <2>1. CASE i = 0
    <3>1. PlanGives(Resolver, plan, f)
      BY <1>1, <1>2, <2>1 DEF AddOnsWith
    <3>2. plan \in DOMAIN Plans /\ f \in DOMAIN Flat(Plans)[plan]
      BY <3>1, SnapshotIs, FlatIs DEF PlanGives
    <3>3. PICK q \in DOMAIN Plans : f \in DOMAIN Plans[q].ents /\ Flat(Plans)[plan][f] = Plans[q].ents[f]
      BY SnapshotIs, <3>2, FlatIs DEF Gives
    <3>4. limits[i] = Plans[q].ents[f]
      BY <1>2, <2>1, <3>3, SnapshotIs
    <3>5. Plans[q] \in Range(Plans) /\ Plans[q].ents[f] \in Range(Plans[q].ents)
      BY <3>3 DEF Range
    <3> QED BY <3>4, <3>5 DEF LimitsGiven
  <2>2. CASE i # 0
    <3>1. i \in AddOnsWith(Resolver, s, f, plan)
      BY <1>2, <2>2
    <3> DEFINE a == s.addons[i]
    <3>2. a \in DOMAIN AddOns /\ f \in DOMAIN AddOns[a].ents
      BY <3>1, SnapshotIs DEF AddOnsWith, Effective
    <3>3. limits[i] = AddOns[a].ents[f]
      BY <1>2, <2>2, SnapshotIs
    <3>4. AddOns[a] \in Range(AddOns) /\ AddOns[a].ents[f] \in Range(AddOns[a].ents)
      BY <3>2 DEF Range
    <3> HIDE DEF a
    <3> QED BY <3>3, <3>4 DEF LimitsGiven
  <2> QED BY <2>1, <2>2
<1> QED BY <1>1, <1>3, <1>4 DEF limits

Grows(s, u, f, t) ==
    /\ DOMAIN Limits(s, f, t) \subseteq DOMAIN Limits(u, f, t)
    /\ \A i \in DOMAIN Limits(s, f, t) : Limits(u, f, t)[i] = Limits(s, f, t)[i]

\* An add-on at the end of the list leaves the other sources where they are.
LEMMA LimitsGrow ==
    ASSUME NEW s \in Subscriptions, NEW u \in Subscriptions, NEW a, NEW f, NEW t,
           u.addons = Append(s.addons, a), u.trial = s.trial, u.plan = s.plan, u.grants = s.grants
    PROVE  /\ Grows(s, u, f, t) /\ Len(u.addons) = Len(s.addons) + 1
           /\ EffectivePlan(u, t) = EffectivePlan(s, t)
<1> DEFINE plan == EffectivePlan(s, t)
           limits == Limits(s, f, t)
           more == Limits(u, f, t)
<1>1. s.addons \in Seq(AddOnIDs) /\ Len(s.addons) \in Nat /\ DOMAIN s.addons = 1 .. Len(s.addons)
  BY DEF Subscriptions
<1>2. u.addons = Append(s.addons, a) /\ u.trial = s.trial /\ u.plan = s.plan
  OBVIOUS
<1>3. /\ Len(u.addons) = Len(s.addons) + 1 /\ DOMAIN u.addons = 1 .. Len(s.addons) + 1
      /\ \A i \in 1 .. Len(s.addons) : u.addons[i] = s.addons[i]
  <2>1. u.addons \in Seq(AddOnIDs \cup {a})
    BY <1>1, <1>2
  <2> QED BY <1>1, <1>2, <2>1
<1>4. EffectivePlan(u, t) = plan
  BY <1>2 DEF EffectivePlan
<1>5. AddOnsWith(Resolver, s, f, plan) \subseteq AddOnsWith(Resolver, u, f, plan)
  BY <1>1, <1>3 DEF AddOnsWith
<1>6. DOMAIN limits \subseteq DOMAIN more
  BY <1>4, <1>5 DEF Limits, LimitsFor
<1>7. ASSUME NEW i \in DOMAIN limits PROVE more[i] = limits[i]
  <2>1. limits[i] = IF i = 0 THEN Resolver.flat[plan][f] ELSE Resolver.addons[s.addons[i]].ents[f]
    BY DEF Limits, LimitsFor
  <2>2. i \in DOMAIN more
    BY <1>6
  <2>3. more[i] = IF i = 0 THEN Resolver.flat[plan][f] ELSE Resolver.addons[u.addons[i]].ents[f]
    <3>1. more[i] = IF i = 0 THEN Resolver.flat[EffectivePlan(u, t)][f]
                    ELSE Resolver.addons[u.addons[i]].ents[f]
      BY <2>2 DEF Limits, LimitsFor
    <3> QED BY <1>4, <3>1
  <2>4. i \in 0 .. Len(s.addons)
    BY LimitsAre
  <2>5. i # 0 => u.addons[i] = s.addons[i]
    BY <1>1, <1>3, <2>4
  <2> QED BY <2>1, <2>3, <2>5
<1> QED BY <1>3, <1>4, <1>6, <1>7 DEF Grows

\* No sum of the snapshot's limits wraps: a plan and MaxList add-ons give at
\* most MaxList + 1 times the greatest limit.
LimitsFit(Most) ==
    /\ Most \in Nat /\ (MaxList + 1) * Most <= MaxInt
    /\ \A l \in LimitsGiven : l.max \in 0 .. Most

\* Sums of limits that fit are exact.
LEMMA SumFits ==
    ASSUME NEW Most, LimitsFit(Most), NEW limits, NEW n \in 0 .. MaxList,
           DOMAIN limits \subseteq 0 .. n, \A i \in DOMAIN limits : limits[i] \in LimitsGiven
    PROVE  /\ \A i \in Nat : Term(limits, i) \in 0 .. Most
           /\ SumMax(limits, n) = Sums(limits, n)[n] /\ SumMax(limits, n) \in Int64
<1>1. \A i \in Nat : Term(limits, i) \in 0 .. Most
  BY DEF LimitsFit, Term
<1>2. n \in Nat /\ Most \in Nat /\ n <= MaxList /\ MaxList \in Nat /\ n \in 0 .. n
  BY BoundsAssumption DEF LimitsFit
<1>3. Sums(limits, n)[n] \in Nat /\ Sums(limits, n)[n] <= (n + 1) * Most
  <2>1. \A i \in 0 .. n : Term(limits, i) \in 0 .. Most
    BY <1>1, <1>2
  <2> QED BY <1>2, <2>1, SumsBound
<1>4. (n + 1) * Most <= (MaxList + 1) * Most
  <2> DEFINE d == MaxList - n
  <2>1. d \in Nat /\ d * Most \in Nat
    BY <1>2
  <2>2. (MaxList + 1) * Most = (n + 1) * Most + d * Most
    BY <1>2
  <2> QED BY <1>2, <2>1, <2>2
<1>5. Sums(limits, n)[n] \in Int64
  <2> DEFINE low == (n + 1) * Most
             high == (MaxList + 1) * Most
  <2>1. low \in Int /\ high \in Int /\ low <= high /\ high <= MaxInt
    BY <1>2, <1>4 DEF LimitsFit
  <2>2. Sums(limits, n)[n] <= low
    BY <1>3
  <2> HIDE DEF low, high
  <2> QED BY <1>3, <2>1, <2>2, MaxIntAssumption DEF Int64
<1>6. SumMax(limits, n) = Sums(limits, n)[n]
  BY <1>5, WrapFits, SumMaxIs
<1> QED BY <1>1, <1>5, <1>6

\* The sum of limits is unlimited if one of them is, and their sum if none is.
LEMMA SumLimitsAre ==
    ASSUME NEW Most, LimitsFit(Most), NEW limits, NEW n \in 0 .. MaxList,
           DOMAIN limits \subseteq 0 .. n, DOMAIN limits # {},
           \A i \in DOMAIN limits : limits[i] \in LimitsGiven \cup {Nil}
    PROVE  IF \E i \in DOMAIN limits : limits[i] = Nil
           THEN SumLimits(limits, n) = Nil
           ELSE /\ \A i \in DOMAIN limits : limits[i] \in LimitsGiven
                /\ SumLimits(limits, n) # Nil
                /\ SumLimits(limits, n).max = SumMax(limits, n)
<1>1. CASE \E i \in DOMAIN limits : limits[i] = Nil
  BY <1>1 DEF SumLimits, Range
<1>2. CASE ~ \E i \in DOMAIN limits : limits[i] = Nil
  <2>1. \A i \in DOMAIN limits : limits[i] \in LimitsGiven
    BY <1>2
  <2>2. Max(DOMAIN limits) \in DOMAIN limits
    <3>1. n \in Nat /\ DOMAIN limits \in SUBSET (0 .. n)
      BY BoundsAssumption
    <3> QED BY <3>1, MaxHolds
  <2>3. SumLimits(limits, n) =
            [max |-> SumMax(limits, n), period |-> limits[Max(DOMAIN limits)].period]
    BY <1>2 DEF SumLimits, Range
  <2>4. SumMax(limits, n) \in Int64
    BY <2>1, SumFits
  <2>5. limits[Max(DOMAIN limits)].period \in {l.period : l \in LimitsGiven}
    BY <2>1, <2>2
  <2>6. SumLimits(limits, n) \in [max : Int64, period : {l.period : l \in LimitsGiven}]
    BY <2>3, <2>4, <2>5
  <2> QED BY <1>2, <2>1, <2>3, <2>6, NilAssumption
<1> QED BY <1>1, <1>2

\* More sources, with the same limits where there were some, give no less.
LEMMA SumLimitsCompare ==
    ASSUME NEW Most, LimitsFit(Most), NEW limits, NEW more, NEW n \in Nat,
           n \in 0 .. MaxList, n + 1 \in 0 .. MaxList,
           DOMAIN limits \subseteq 0 .. n, DOMAIN limits # {},
           DOMAIN more \subseteq 0 .. n + 1, DOMAIN limits \subseteq DOMAIN more,
           \A i \in DOMAIN more : more[i] \in LimitsGiven \cup {Nil},
           \A i \in DOMAIN limits : more[i] = limits[i]
    PROVE  \/ SumLimits(more, n + 1) = Nil
           \/ /\ SumLimits(limits, n) # Nil
              /\ SumLimits(more, n + 1).max >= SumLimits(limits, n).max
<1>1. CASE \E i \in DOMAIN more : more[i] = Nil
  BY <1>1, SumLimitsAre
<1>2. CASE ~ \E i \in DOMAIN more : more[i] = Nil
  <2>1. ~ \E i \in DOMAIN limits : limits[i] = Nil
    BY <1>2
  <2>2. /\ \A i \in DOMAIN more : more[i] \in LimitsGiven
        /\ SumLimits(more, n + 1).max = SumMax(more, n + 1)
    BY <1>2, SumLimitsAre
  <2>3. /\ \A i \in DOMAIN limits : limits[i] \in LimitsGiven
        /\ SumLimits(limits, n) # Nil /\ SumLimits(limits, n).max = SumMax(limits, n)
    BY <2>1, SumLimitsAre
  <2>4. /\ \A i \in Nat : Term(limits, i) \in 0 .. Most
        /\ SumMax(limits, n) = Sums(limits, n)[n] /\ SumMax(limits, n) \in Int64
    BY <2>3, SumFits
  <2>5. /\ \A i \in Nat : Term(more, i) \in 0 .. Most
        /\ SumMax(more, n + 1) = Sums(more, n + 1)[n + 1] /\ SumMax(more, n + 1) \in Int64
    BY <2>2, SumFits
  <2>6. Most \in Nat
    BY DEF LimitsFit
  <2>7. ASSUME NEW i \in Nat PROVE Term(limits, i) <= Term(more, i)
    <3>1. Term(limits, i) \in Int /\ Term(more, i) \in Nat
      BY <2>4, <2>5, <2>6
    <3>2. CASE i \in DOMAIN limits
      BY <3>1, <3>2 DEF Term
    <3>3. CASE i \notin DOMAIN limits
      <4>1. Term(limits, i) = 0
        BY <3>3 DEF Term
      <4> QED BY <3>1, <4>1
    <3> QED BY <3>2, <3>3
  <2>8. Sums(limits, n)[n] <= Sums(more, n + 1)[n + 1]
    <3>1. \A i \in 0 .. n : Term(limits, i) \in 0 .. Most /\ Term(limits, i) <= Term(more, i)
      BY <2>4, <2>7
    <3>2. \A i \in 0 .. n + 1 : Term(more, i) \in 0 .. Most
      BY <2>5
    <3> QED BY <2>6, <3>1, <3>2, SumsCompare
  <2>9. SumMax(limits, n) \in Int /\ SumMax(more, n + 1) \in Int
    BY <2>4, <2>5, MaxIntAssumption DEF Int64
  <2> QED BY <2>2, <2>3, <2>4, <2>5, <2>8, <2>9
<1> QED BY <1>1, <1>2

\* What attaching an add-on does to one feature.
LEMMA AddOnKeeps ==
    ASSUME NEW Most, LimitsFit(Most), NEW s \in Subscriptions, Len(s.addons) < MaxList,
           NEW u \in Subscriptions, NEW a, NEW f, NEW t,
           u.addons = Append(s.addons, a), u.trial = s.trial, u.plan = s.plan, u.grants = s.grants
    PROVE  AtLeast(Resolved(u, f, t), Resolved(s, f, t))
<1> DEFINE limits == Limits(s, f, t)
           more == Limits(u, f, t)
           n == Len(s.addons)
<1>1. u.grants = s.grants /\ u \in Subscriptions
  OBVIOUS
<1>2. s # Nil /\ u # Nil
  BY NilAssumption
<1>3. /\ Len(u.addons) = n + 1 /\ DOMAIN limits \subseteq DOMAIN more
      /\ \A i \in DOMAIN limits : more[i] = limits[i]
      /\ EffectivePlan(u, t) = EffectivePlan(s, t)
  <2>1. /\ Grows(s, u, f, t) /\ Len(u.addons) = Len(s.addons) + 1
        /\ EffectivePlan(u, t) = EffectivePlan(s, t)
    BY LimitsGrow, Zenon
  <2> QED BY <2>1 DEF Grows
<1>4. /\ n \in Nat /\ n + 1 \in 0 .. MaxList /\ n \in 0 .. MaxList
      /\ DOMAIN limits \subseteq 0 .. n /\ DOMAIN more \subseteq 0 .. n + 1
      /\ \A i \in DOMAIN limits : limits[i] \in LimitsGiven \cup {Nil}
      /\ \A i \in DOMAIN more : more[i] \in LimitsGiven \cup {Nil}
  <2>1. Len(s.addons) \in Nat /\ DOMAIN limits \subseteq 0 .. Len(s.addons)
        /\ \A i \in DOMAIN limits : limits[i] \in LimitsGiven \cup {Nil}
    BY LimitsAre
  <2>2. DOMAIN more \subseteq 0 .. Len(u.addons)
        /\ \A i \in DOMAIN more : more[i] \in LimitsGiven \cup {Nil}
    BY <1>1, LimitsAre
  <2>3. n \in Nat /\ n + 1 \in 0 .. MaxList /\ n \in 0 .. MaxList
    BY <2>1, BoundsAssumption
  <2> QED BY <1>3, <2>1, <2>2, <2>3
<1>5. (Denied(u, f, t) <=> Denied(s, f, t)) /\ (Allowed(u, f, t) <=> Allowed(s, f, t))
  BY <1>1 DEF Denied, Allowed, GrantsFor
<1>6. SUFFICES ASSUME Entitled(Resolved(s, f, t))
               PROVE  /\ Entitled(Resolved(u, f, t))
                      /\ \/ Resolved(u, f, t).limit = Nil
                         \/ /\ Resolved(s, f, t).limit # Nil
                            /\ Resolved(u, f, t).limit.max >= Resolved(s, f, t).limit.max
  BY DEF AtLeast
<1>7. ~Denied(s, f, t) /\ (Allowed(s, f, t) \/ DOMAIN limits # {})
  BY <1>2, <1>6, ResolvedIs DEF Giving, Limits
<1>8. Entitled(Resolved(u, f, t))
  BY <1>3, <1>2, <1>5, <1>7, ResolvedIs DEF Giving, Limits
<1>9. CASE Allowed(s, f, t)
  <2> DEFINE denies == {i \in GrantsFor(s, f, t) : s.grants[i].deny}
             allows == GrantsFor(s, f, t) \ denies
             limit == s.grants[Min(allows)].limit
  <2>1. denies = {} /\ allows # {}
    BY <1>7, <1>9 DEF Denied, Allowed
  <2>2. Resolved(s, f, t).limit = limit
    BY <1>2, <2>1 DEF Resolved, Resolve, Resolution
  <2>3. GrantsFor(u, f, t) = GrantsFor(s, f, t)
    BY <1>1 DEF GrantsFor
  <2>4. Resolved(u, f, t).limit = limit
    BY <1>1, <1>2, <2>1, <2>3 DEF Resolved, Resolve, Resolution
  <2>5. allows \in SUBSET Nat /\ \A i \in allows : s.grants[i] \in Grants
    BY DEF GrantsFor, Subscriptions
  <2>6. s.grants[Min(allows)] \in Grants
    <3> HIDE DEF allows
    <3> QED BY <2>1, <2>5, MinHolds
  <2>7. limit = Nil \/ limit.max \in Int
    BY <2>6, GrantsAssumption
  <2> HIDE DEF limit
  <2> QED BY <1>8, <2>2, <2>4, <2>7
<1>10. CASE ~Allowed(s, f, t)
  <2>1. /\ Resolved(s, f, t) = ResolveSources(Resolver, s, f, t)
        /\ Resolved(u, f, t) = ResolveSources(Resolver, u, f, t)
    BY <1>2, <1>5, <1>7, <1>10, ResolvedIs
  <2>2. DOMAIN limits # {} /\ DOMAIN more # {}
    BY <1>3, <1>7, <1>10
  <2>3. Resolved(s, f, t).limit = SumLimits(limits, n)
    BY <2>1, <2>2 DEF ResolveSources, Resolution, Limits
  <2>4. Resolved(u, f, t).limit = SumLimits(more, n + 1)
    <3>1. Resolved(u, f, t).limit = SumLimits(more, Len(u.addons))
      BY <2>1, <2>2 DEF ResolveSources, Resolution, Limits
    <3> QED BY <1>3, <3>1
  <2> HIDE DEF limits, more, n
  <2>5. \/ SumLimits(more, n + 1) = Nil
        \/ /\ SumLimits(limits, n) # Nil
           /\ SumLimits(more, n + 1).max >= SumLimits(limits, n).max
    BY <1>3, <1>4, <2>2, SumLimitsCompare
  <2> QED BY <1>8, <2>3, <2>4, <2>5
<1> QED BY <1>9, <1>10

\* Buying an add-on takes no feature and no part of a limit away, as long as no
\* sum of limits overflows: run LimitsOverflow shows what happens when one does
\* (resolver.go:187-211, 215-228).
THEOREM AddOnNeverHurtsHolds ==
    ASSUME NEW CONSTANT Most, LimitsFit(Most)
    PROVE  Spec => AddOnNeverHurts
<1> DEFINE Step == \A a \in AddOnIDs : AttachAddOn(a) =>
                      \A f \in Features : AtLeast(Resolved(sub', f, now), Resolved(sub, f, now))
<1>1. TypeOK /\ TypeOK' /\ [Next]_vars => [Step]_vars
  <2> SUFFICES ASSUME TypeOK, TypeOK', NEW a \in AddOnIDs, AttachAddOn(a), NEW f \in Features
               PROVE  AtLeast(Resolved(sub', f, now), Resolved(sub, f, now))
    OBVIOUS
  <2>1. /\ sub \in Subscriptions /\ Len(sub.addons) < MaxList
        /\ sub' = [sub EXCEPT !.addons = Append(sub.addons, a)]
    BY DEF TypeOK, SubOK, AttachAddOn, Set
  <2>2. sub.addons \in Seq(AddOnIDs)
    BY <2>1 DEF Subscriptions
  <2>3. Append(sub.addons, a) \in Seq(AddOnIDs)
    BY <2>2
  <2>4. [sub EXCEPT !.addons = Append(sub.addons, a)] \in Subscriptions
    BY <2>1, <2>3 DEF Subscriptions
  <2> DEFINE u == [sub EXCEPT !.addons = Append(sub.addons, a)]
  <2>5. /\ u.addons = Append(sub.addons, a) /\ u.trial = sub.trial
        /\ u.plan = sub.plan /\ u.grants = sub.grants
    BY <2>1 DEF Subscriptions
  <2> HIDE DEF u
  <2>6. u \in Subscriptions
    BY <2>4 DEF u
  <2>7. AtLeast(Resolved(u, f, now), Resolved(sub, f, now))
    BY <2>1, <2>5, <2>6, AddOnKeeps
  <2> QED BY <2>1, <2>7 DEF u
<1> QED BY <1>1, TypeHolds, PTL DEF Spec, AddOnNeverHurts
=============================================================================
