-------------------------- MODULE DependencyCycles --------------------------
(***************************************************************************)
(* checkDependencyCycles (validate.go): the three-colour depth-first       *)
(* search over DependsOn with which NewSnapshot refuses a catalog whose    *)
(* prerequisites are cyclic.  One action per turn of one of its loops: the *)
(* scan over the features, or the loop of the innermost visit.             *)
(***************************************************************************)
EXTENDS Integers, Sequences, FiniteSets

CONSTANTS Keys, Catalogs

ASSUME CatalogsAssumption == Catalogs \subseteq Seq([key : Keys, dependsOn : Seq(Keys)])

VARIABLES
    features,   \* the catalog under validation; only read
    color,      \* per feature: white, gray or black
    stack,      \* the visits in progress, innermost last
    at,         \* per feature: the position of its visit in DependsOn
    entry,      \* the position of the scan
    reports     \* the features an error was added for

vars == <<features, color, stack, at, entry, reports>>

Nodes == DOMAIN features

On(i) == \E k \in 1 .. Len(stack) : stack[k] = i

TypeOK ==
    /\ features \in Catalogs
    /\ color \in [Nodes -> {"white", "gray", "black"}]
    /\ stack \in Seq(Nodes)
    /\ \A k, l \in 1 .. Len(stack) : stack[k] = stack[l] => k = l
    /\ at \in [Nodes -> Nat]
    /\ \A i \in Nodes : at[i] \in 1 .. Len(features[i].dependsOn) + 1
    /\ entry \in 1 .. Len(features) + 1
    /\ reports \subseteq Nodes

(***************************************************************************)
(* The feature that a key means: the map idx keeps the last of duplicates. *)
(* None for an unknown key, nor for the feature's own, which the reference *)
(* pass reports.                                                           *)
(***************************************************************************)
Target(i, p) ==
    {j \in Nodes :
        /\ features[j].key = features[i].dependsOn[p]
        /\ features[j].key # features[i].key
        /\ \A l \in Nodes : features[l].key = features[j].key => l <= j}

Prerequisites(i) == UNION {Target(i, p) : p \in 1 .. Len(features[i].dependsOn)}

Init ==
    /\ features \in Catalogs
    /\ color = [i \in Nodes |-> "white"]
    /\ stack = <<>>
    /\ at = [i \in Nodes |-> 1]
    /\ entry = 1
    /\ reports = {}

Done == stack = <<>> /\ entry > Len(features)

Visit(i) ==
    /\ color' = [color EXCEPT ![i] = "gray"]
    /\ stack' = Append(stack, i)

Scan ==
    /\ stack = <<>> /\ entry <= Len(features)
    /\ IF color[entry] = "white"
       THEN Visit(entry) /\ UNCHANGED entry
       ELSE entry' = entry + 1 /\ UNCHANGED <<color, stack>>
    /\ UNCHANGED <<features, at, reports>>

-----------------------------------------------------------------------------
Top == stack[Len(stack)]

Looking ==
    /\ stack # <<>>
    /\ at[Top] <= Len(features[Top].dependsOn)

Dependency == Target(Top, at[Top])

UnvisitedUnlessBlack(j) == color[j] # "black"

Unvisited(j) == color[j] = "white"

MoveOn == at' = [at EXCEPT ![Top] = @ + 1]

\* The dependency was found to be acyclic, or is no concern of this pass.
Pass ==
    /\ Looking
    /\ \A j \in Dependency : color[j] = "black"
    /\ MoveOn
    /\ UNCHANGED <<features, color, stack, entry, reports>>

Descend ==
    /\ Looking
    /\ \E j \in Dependency : Unvisited(j) /\ Visit(j)
    /\ MoveOn
    /\ UNCHANGED <<features, entry, reports>>

ReportAndStop ==
    /\ Looking
    /\ \E j \in Dependency : color[j] = "gray"
    /\ reports' = reports \cup {entry}
    /\ color' = [i \in Nodes |-> IF On(i) THEN "black" ELSE color[i]]
    /\ stack' = <<>>
    /\ entry' = Len(features) + 1
    /\ UNCHANGED <<features, at>>

\* A gray dependency closes a cycle.  Every visit returns false; the scan adds
\* one error, blackens what they left on the stack and goes on.
Report ==
    /\ Looking
    /\ \E j \in Dependency : color[j] = "gray"
    /\ reports' = reports \cup {entry}
    /\ color' = [i \in Nodes |-> IF On(i) THEN "black" ELSE color[i]]
    /\ stack' = <<>>
    /\ entry' = entry + 1
    /\ UNCHANGED <<features, at>>

FinishedStaysGray == color

FinishedUnmarked == [color EXCEPT ![Top] = "white"]

Finished == [color EXCEPT ![Top] = "black"]

Pop == SubSeq(stack, 1, Len(stack) - 1)

Finish ==
    /\ stack # <<>>
    /\ at[Top] > Len(features[Top].dependsOn)
    /\ color' = Finished
    /\ stack' = Pop
    /\ entry' = IF Len(stack) = 1 THEN entry + 1 ELSE entry
    /\ UNCHANGED <<features, at, reports>>

\* validate goes on with its other passes.
Return == Done /\ UNCHANGED vars

Next == Scan \/ Pass \/ Descend \/ Report \/ Finish \/ Return

Spec == Init /\ [][Next]_vars

-----------------------------------------------------------------------------
Acyclic(S) == \A T \in SUBSET S : T # {} => \E i \in T : Prerequisites(i) \cap T = {}

\* No dependency leads into S or out of it.
Separate(S) == \A i \in Nodes : IF i \in S THEN Prerequisites(i) \subseteq S
                                           ELSE Prerequisites(i) \cap S = {}

\* Wherever there is a cycle an error is added for that part of the catalog,
\* and not only for the first one found (validate.go:308); so evaluate, which
\* recurses into prerequisites (evaluate.go:129), ends on what is accepted.
CyclesReported ==
    Done => \A S \in SUBSET Nodes : Separate(S) /\ S \cap reports = {} => Acyclic(S)

\* A feature that an error names does lead into a cycle: diamonds and features
\* visited from an earlier entry are no false alarms (validate.go:335-340).
NoFalseAlarm ==
    \A e \in reports : \E S \in SUBSET Nodes :
        e \in S /\ \A i \in S : Prerequisites(i) \cap S # {}

\* "one error per disjoint cyclic component" (validate.go:308): two features
\* that errors name do not depend on each other.
OneErrorPerComponent ==
    \A d, e \in reports : d # e =>
        \E S \in SUBSET Nodes :
            /\ \A i \in S : Prerequisites(i) \subseteq S
            /\ (d \in S) # (e \in S)

\* The entries of DependsOn that are still to be looked at.
Unread == UNION {{i} \X (at[i] .. Len(features[i].dependsOn)) : i \in Nodes}

WorkLeft ==
    2 * Cardinality({i \in Nodes : color[i] = "white"}) + Len(stack)
      + Cardinality(entry .. Len(features)) + Cardinality(Unread)

\* Every step leaves less to do: the search ends, and is linear in the features
\* and their dependencies, since none is visited twice (validate.go:332-336).
LinearSearch == [][~Return => WorkLeft' \in Nat /\ WorkLeft' < WorkLeft]_vars
=============================================================================
