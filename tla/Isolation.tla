------------------------------ MODULE Isolation ------------------------------
(***************************************************************************)
(* clone.go and snapshot.go: a snapshot is immutable because nothing the   *)
(* application holds refers to the memory it reads.  A value is the set of *)
(* the cells it reaches, each one a slice's array, a pointer's target or   *)
(* what an interface holds: the definition it is of, its path of fields    *)
(* there, and the copy that made it.  Copying a value renews the cells at  *)
(* the paths the clone function names and shares all others.               *)
(***************************************************************************)
EXTENDS Naturals, SequencesExt

CONSTANTS Definitions,  \* the features, segments, flags, plans and add-ons
          Kind,         \* of each of them
          Chain,        \* of a plan: itself and the plans it extends
          MaxMade,      \* bound: copies made in all
          MaxSnapshots, \* bound: snapshots built
          MaxCopies     \* bound: results of accessors held

ASSUME KindAssumption ==
  Kind \in [Definitions -> {"feature", "segment", "flag", "plan", "addon"}]

ASSUME ChainAssumption ==
  \A p \in DOMAIN Chain :
    /\ p \in Definitions /\ Chain[p] \subseteq Definitions
    /\ \A q \in Chain[p] \cup {p} : Kind[q] = "plan"

VARIABLES config,    \* the cells of the application's Config
          snapshots, \* of each snapshot in use: the cells it reads
          copies,    \* of each result of an accessor: its cells
          decisions, \* of each Decision held: its cells
          made,      \* copies made so far
          written    \* the application's write, if the last step was one

vars == <<config, snapshots, copies, decisions, made, written>>

Cell(of, at, by) == [of |-> of, at |-> at, made |-> by]

Nothing == [cell |-> Cell("nothing", <<"nothing">>, 0), through |-> "nothing"]

(***************************************************************************)
(* Paths.  Within is a struct's field, Behind one that refers to a cell.   *)
(***************************************************************************)
Within(field, inner) == {<<field>> \o p : p \in inner}
Behind(field, inner) == {<<field>>} \cup Within(field, inner)

\* Where the types refer to cells.
ConditionRefs == Behind("Value", {}) \cup Behind("Values", {<<"element">>})
ServeRefs == Behind("Rollout", Behind("Split", {}))
RuleRefs == Behind("Conditions", ConditionRefs) \cup Within("Serve", ServeRefs)
EntitlementRefs == Behind("Entitlements", Behind("Limit", {}))

References ==
  [feature |-> Behind("Tags", {}) \cup Behind("DependsOn", {}),
   segment |-> Behind("Rules", Behind("Conditions", ConditionRefs)),
   flag    |-> Behind("Window", {}) \cup Behind("Variants", Behind("Value", {}))
                 \cup Behind("Rules", RuleRefs) \cup Within("Default", ServeRefs),
   plan    |-> EntitlementRefs,
   addon   |-> Behind("Requires", {}) \cup EntitlementRefs]

(***************************************************************************)
(* The clone functions: the paths whose cells they renew.                  *)
(***************************************************************************)
CloneFeature == Behind("Tags", {}) \cup Behind("DependsOn", {})

ShareValues == {}  \* the condition copied as a struct
CloneCondition == Behind("Values", {})
CloneConditions == Behind("Conditions", CloneCondition)
CloneWindow == Behind("Window", {})
CloneRollout == Behind("Rollout", Behind("Split", {}))
CloneServe == CloneRollout
CloneRules == Behind("Rules", CloneConditions \cup Within("Serve", CloneServe))
CloneSegment == Behind("Rules", CloneConditions)
CloneFlag == CloneWindow \cup Behind("Variants", {}) \cup CloneRules
               \cup Within("Default", CloneServe)
CloneEntitlements == Behind("Entitlements", Behind("Limit", {}))
ClonePlan == CloneEntitlements
CloneAddOn == Behind("Requires", {}) \cup CloneEntitlements

Renewed == [feature |-> CloneFeature, segment |-> CloneSegment, flag |-> CloneFlag,
            plan |-> ClonePlan, addon |-> CloneAddOn]

\* A copy of the cells of some definitions, made by copy number by.
Copy(cells, by) ==
  {IF c.at \in Renewed[Kind[c.of]] THEN [c EXCEPT !.made = by] ELSE c : c \in cells}

Of(cells, names) == {c \in cells : c.of \in names}

(***************************************************************************)
(* NewSnapshot, and what its maps, its evaluator and its resolver reach.   *)
(* The evaluator holds the segments of the snapshot and the resolver its   *)
(* add-ons; the resolver's flattened plans are arrays of their own, whose  *)
(* entitlements share the Limits of the plans.                             *)
(***************************************************************************)
Flat == <<"flat">>
Limits(cells, plan) == {c \in Of(cells, Chain[plan]) : c.at = <<"Entitlements", "Limit">>}

Flattened(cells, plan) ==
  {c \in cells : c.of = plan /\ c.at = Flat} \cup Limits(cells, plan)

CloneConfig(by) == Copy(config, by)

NewSnapshot ==
  /\ made < MaxMade /\ Len(snapshots) < MaxSnapshots
  /\ snapshots' = Append(snapshots, CloneConfig(made + 1)
                                      \cup {Cell(p, Flat, made + 1) : p \in DOMAIN Chain})
  /\ made' = made + 1
  /\ UNCHANGED <<config, copies, decisions>>
  /\ written' = Nothing

\* The cells of the definitions in a snapshot, without the flattened plans.
Stored(s, names) == {c \in Of(s, names) : c.at # Flat}

HandOut(cells) ==
  /\ made < MaxMade /\ Cardinality(copies) < MaxCopies
  /\ copies' = copies \cup {cells}
  /\ made' = made + 1
  /\ UNCHANGED <<config, snapshots, decisions>>
  /\ written' = Nothing

\* Feature, Segment, Flag, Plan, AddOn
GetOne == \E s \in ToSet(snapshots), n \in Definitions :
            HandOut(Copy(Stored(s, {n}), made + 1))

\* Features, Segments, Plans, AddOns; flags have no such accessor.
GetAll == \E s \in ToSet(snapshots), k \in {"feature", "segment", "plan", "addon"} :
            HandOut(Copy(Stored(s, {n \in Definitions : Kind[n] = k}), made + 1))

CloneFlat == {Flat, <<"Entitlements", "Limit">>}

PlanEntitlements ==
  \E s \in ToSet(snapshots), p \in DOMAIN Chain :
    HandOut({IF c.at \in CloneFlat THEN [c EXCEPT !.made = made + 1] ELSE c :
               c \in Flattened(s, p)})

(***************************************************************************)
(* Evaluate: Variant points into the flag's Variants, and the Limit of the *)
(* Entitlement is the sum's own.                                           *)
(***************************************************************************)
\* A single limit is returned, not summed.
SumLimitsUnlessOne(s, plan) == Limits(s, plan)
SumLimits(s, plan) == {Cell(plan, <<"Entitlement", "Limit">>, made + 1)}

ServedVariant(s, flag) ==
  {c \in Of(s, {flag}) : c.at \in {<<"Variants">>, <<"Variants", "Value">>}}

Evaluate ==
  /\ made < MaxMade
  /\ \E s \in ToSet(snapshots), f \in Definitions, p \in DOMAIN Chain :
       /\ Kind[f] = "flag"
       /\ decisions' = {[variant |-> ServedVariant(s, f), limit |-> SumLimits(s, p)]}
  /\ made' = made + 1
  /\ UNCHANGED <<config, snapshots, copies>>
  /\ written' = Nothing

(***************************************************************************)
(* The application: it writes what it can reach, and builds its next       *)
(* Config from what accessors gave it.                                     *)
(***************************************************************************)
Write ==
  /\ \/ \E c \in config : written' = [cell |-> c, through |-> "config"]
     \/ \E v \in copies : \E c \in v : written' = [cell |-> c, through |-> "copy"]
     \/ \E d \in decisions :
          \/ \E c \in d.variant : written' = [cell |-> c, through |-> "variant"]
          \/ \E c \in d.limit : written' = [cell |-> c, through |-> "limit"]
  /\ UNCHANGED <<config, snapshots, copies, decisions, made>>

Reuse ==
  \E v \in copies :
    /\ \A c \in v : c.at # Flat
    /\ config' = {c \in config : c.of \notin {d.of : d \in v}} \cup v
    /\ copies' = copies \ {v}
    /\ UNCHANGED <<snapshots, decisions, made>>
  /\ written' = Nothing

Forget ==
  \E v \in copies : copies' = copies \ {v}
                    /\ UNCHANGED <<config, snapshots, decisions, made>>
  /\ written' = Nothing

Init ==
  /\ config = UNION {{Cell(n, p, 0) : p \in References[Kind[n]]} : n \in Definitions}
  /\ snapshots = <<>> /\ copies = {} /\ decisions = {} /\ made = 0 /\ written = Nothing

Next == NewSnapshot \/ GetOne \/ GetAll \/ PlanEntitlements \/ Evaluate \/ Write \/ Reuse \/ Forget

Spec == Init /\ [][Next]_vars

(***************************************************************************)
(* Properties.                                                             *)
(***************************************************************************)
Read == UNION ToSet(snapshots)

\* What an interface holds is shared by reference.
Interfaces == {"Value", "element"}
Exempt(c) == Last(c.at) \in Interfaces

\* clone.go:12-17.  No write of the application, through its Config or through
\* anything an accessor or a resolution gave it, changes what a snapshot reads, at
\* any depth and also after values returned were put into a new Config.  The
\* exceptions are what interfaces hold, and writes through a Decision's Variant.
WritesStayOut ==
  written.cell \in Read => Exempt(written.cell) \/ written.through = "variant"

\* isolation_test.go:103-104.  No two values the application holds share memory
\* either: the caller of an accessor never sees what another does to its copy, nor
\* what becomes of the Config, and a resolution's limit is its own.
Held == {config} \cup copies \cup {d.limit : d \in decisions}

HeldApart == \A v, w \in Held : v # w => \A c \in v \cap w : Exempt(c)

\* snapshot.go:12-13 calls the snapshot immutable and safe to share.  The code hands
\* out a pointer to its own Variant (evaluate.go:125, flag.go:109), through which a
\* caller rewrites the key or the value that every later decision serves.
VariantReadOnly ==
  written.through = "variant" /\ written.cell \in Read => Exempt(written.cell)

\* snapshot.go:26-28 names Variant.Value and Condition.Value as the one exception.
\* slices.Clone copies the array of Condition.Values (clone.go:26), but not what its
\* elements hold.
OneException ==
  written.through = "config" /\ written.cell \in Read => Last(written.cell.at) = "Value"
=============================================================================
