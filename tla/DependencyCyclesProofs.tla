----------------------- MODULE DependencyCyclesProofs -----------------------
(***************************************************************************)
(* What the search for dependency cycles establishes for every catalog.    *)
(* The argument: whatever has been finished without an error depends only  *)
(* on what is finished, and every part of it has a feature that depends on *)
(* nothing of that part.  A visit in progress never leaves the part of the *)
(* catalog that it entered.                                                *)
(***************************************************************************)
EXTENDS DependencyCycles, SequenceTheorems, FiniteSetTheorems, TLAPS

Black == {i \in Nodes : color[i] = "black"}

Gray == \A i \in Nodes : color[i] = "gray" <=> On(i)

Path ==
    /\ stack # <<>> => entry <= Len(features) /\ stack[1] = entry
    /\ \A k \in 1 .. Len(stack) : k < Len(stack) => stack[k + 1] \in Prerequisites(stack[k])

Scanned ==
    /\ \A i \in Nodes : i < entry => color[i] # "white"
    /\ \A i \in Nodes : color[i] = "white" => at[i] = 1

\* A dependency behind the position of a visit is finished or being visited.
Looked ==
    \A k \in 1 .. Len(stack) : \A p \in 1 .. at[stack[k]] - 1 : \A j \in Target(stack[k], p) :
        color[j] = "black" \/ (k < Len(stack) /\ j = stack[k + 1])

Inside ==
    \A S \in SUBSET Nodes : Separate(S) /\ entry \notin S =>
        \A k \in 1 .. Len(stack) : stack[k] \notin S

\* S is finished, and each part of it has a feature that needs nothing there.
Sound(S) ==
    /\ \A i \in S \cap Black : Prerequisites(i) \subseteq Black
    /\ \A T \in SUBSET (S \cap Black) : T # {} => \E i \in T : Prerequisites(i) \cap T = {}

Finishes == \A S \in SUBSET Nodes : Separate(S) /\ S \cap reports = {} => Sound(S)

Inv ==
    /\ TypeOK /\ Gray /\ Path /\ Scanned /\ Looked
    /\ Inside /\ Finishes /\ NoFalseAlarm

-----------------------------------------------------------------------------
\* What Pop leaves of a stack.
LEMMA WithoutLast ==
    ASSUME NEW S, NEW s \in Seq(S), s # <<>>, NEW t, t = SubSeq(s, 1, Len(s) - 1)
    PROVE  /\ t \in Seq(S) /\ Len(t) = Len(s) - 1
           /\ \A k \in 1 .. Len(s) - 1 : t[k] = s[k] /\ k \in 1 .. Len(s)
<1> DEFINE m == Len(s) - 1
<1>1. Len(s) \in Nat \ {0} /\ m \in Nat
  OBVIOUS
<1>2. \A i \in 1 .. m : s[i] \in S
  BY <1>1
<1> HIDE DEF m
<1>3. /\ SubSeq(s, 1, m) \in Seq(S)
      /\ Len(SubSeq(s, 1, m)) = IF 1 <= m THEN m - 1 + 1 ELSE 0
      /\ \A i \in 1 .. m - 1 + 1 : SubSeq(s, 1, m)[i] = s[1 + i - 1]
  BY <1>1, <1>2, SubSeqProperties
<1>4. t = SubSeq(s, 1, m)
  BY DEF m
<1>5. Len(t) = m /\ \A k \in 1 .. m : t[k] = s[k]
  BY <1>1, <1>3, <1>4
<1> QED  BY <1>1, <1>3, <1>4, <1>5 DEF m

\* A dependency is a feature of the catalog, and another one.
LEMMA Targets ==
    ASSUME NEW i, NEW p, NEW j \in Target(i, p)
    PROVE  j \in Nodes /\ j # i
BY DEF Target

\* The prerequisites of a feature are features.
LEMMA PrerequisitesAreNodes ==
    ASSUME NEW i PROVE Prerequisites(i) \subseteq Nodes
BY Targets DEF Prerequisites

\* The feature that one entry of DependsOn means is a prerequisite.
LEMMA TargetIsPrerequisite ==
    ASSUME NEW i, NEW p \in 1 .. Len(features[i].dependsOn)
    PROVE  Target(i, p) \subseteq Prerequisites(i)
BY DEF Prerequisites

\* The graph does not change.
LEMMA SameGraph ==
    ASSUME features' = features
    PROVE  /\ Nodes' = Nodes
           /\ \A i, p : Target(i, p)' = Target(i, p)
           /\ \A i : Prerequisites(i)' = Prerequisites(i)
           /\ \A S : Separate(S)' = Separate(S)
<1>1. Nodes' = Nodes
  BY DEF Nodes
<1>2. ASSUME NEW i, NEW p PROVE Target(i, p)' = Target(i, p)
  BY <1>1 DEF Target
<1>3. ASSUME NEW i PROVE Prerequisites(i)' = Prerequisites(i)
  BY <1>2 DEF Prerequisites
<1>4. ASSUME NEW S PROVE Separate(S)' = Separate(S)
  BY <1>1, <1>3 DEF Separate
<1> QED  BY <1>1, <1>2, <1>3, <1>4

\* What the types say of catalogs and of the innermost visit.
LEMMA Shapes ==
    ASSUME TypeOK
    PROVE  /\ Nodes = 1 .. Len(features) /\ Len(features) \in Nat
           /\ \A i \in Nodes : Len(features[i].dependsOn) \in Nat
           /\ stack # <<>> => Len(stack) \in 1 .. Len(stack) /\ Top \in Nodes /\ On(Top)
<1>1. features \in Seq([key : Keys, dependsOn : Seq(Keys)])
  BY CatalogsAssumption DEF TypeOK
<1>2. Nodes = 1 .. Len(features) /\ Len(features) \in Nat
  BY <1>1 DEF Nodes
<1>3. ASSUME NEW i \in Nodes PROVE Len(features[i].dependsOn) \in Nat
  <2>1. features[i] \in [key : Keys, dependsOn : Seq(Keys)]
    BY <1>1, <1>2, ElementOfSeq
  <2>2. features[i].dependsOn \in Seq(Keys)
    BY <2>1
  <2> QED  BY <2>2
<1>4. stack # <<>> => Len(stack) \in 1 .. Len(stack) /\ Top \in Nodes /\ On(Top)
  BY DEF TypeOK, Top, On
<1> QED  BY <1>2, <1>3, <1>4

-----------------------------------------------------------------------------
\* Before the search nothing is gray, black or reported.
LEMMA InitInv == Init => Inv
<1> SUFFICES ASSUME Init PROVE Inv
  OBVIOUS
<1>1. TypeOK
  <2>1. features \in Seq([key : Keys, dependsOn : Seq(Keys)]) /\ stack = <<>>
    BY CatalogsAssumption DEF Init
  <2>2. Nodes = 1 .. Len(features) /\ Len(features) \in Nat
    BY <2>1 DEF Nodes
  <2>3. \A i \in Nodes : Len(features[i].dependsOn) \in Nat
    <3> TAKE i \in Nodes
    <3>1. features[i] \in [key : Keys, dependsOn : Seq(Keys)]
      BY <2>1, <2>2, ElementOfSeq
    <3>2. features[i].dependsOn \in Seq(Keys)
      BY <3>1
    <3> QED  BY <3>2
  <2> QED  BY <2>1, <2>2, <2>3 DEF Init, TypeOK
<1>2. Black = {} /\ stack = <<>> /\ Len(stack) = 0 /\ reports = {}
  BY DEF Init, Black
<1>3. Gray /\ Scanned
  BY <1>1, <1>2, Shapes DEF Init, Gray, On, Scanned
<1>4. Path /\ Looked /\ Inside /\ NoFalseAlarm
  BY <1>2 DEF Path, Looked, Inside, NoFalseAlarm
<1>5. Finishes
  BY <1>2 DEF Finishes, Sound
<1> QED  BY <1>1, <1>3, <1>4, <1>5 DEF Inv

\* Nothing that is finished is ever taken back, and nothing new is finished by
\* a step that leaves black features and errors as they are.
LEMMA FinishesKept ==
    ASSUME Finishes, features' = features, Black' = Black, reports' = reports
    PROVE  Finishes'
BY SameGraph DEF Finishes, Sound

\* An error that was no false alarm does not become one: the catalog is only read.
LEMMA AlarmsKept ==
    ASSUME NoFalseAlarm, features' = features, reports' = reports
    PROVE  NoFalseAlarm'
BY SameGraph DEF NoFalseAlarm

-----------------------------------------------------------------------------
\* A visit starts: at the entry of the scan, or below the innermost visit.
LEMMA VisitKeeps ==
    ASSUME Inv, features' = features, reports' = reports, entry' = entry,
           NEW i \in Nodes, Visit(i), color[i] = "white",
           at' \in [Nodes -> Nat],
           \A j \in Nodes : at'[j] \in 1 .. Len(features[j].dependsOn) + 1
    PROVE  /\ TypeOK' /\ Gray' /\ Finishes' /\ NoFalseAlarm'
           /\ stack' \in Seq(Nodes) /\ Len(stack') = Len(stack) + 1
           /\ \A k \in 1 .. Len(stack) : stack'[k] = stack[k]
           /\ stack'[Len(stack')] = i
<1>1. Nodes' = Nodes /\ TypeOK
  BY SameGraph DEF Inv
<1>2. /\ stack' \in Seq(Nodes) /\ Len(stack') = Len(stack) + 1 /\ Len(stack) \in Nat
      /\ \A k \in 1 .. Len(stack) : stack'[k] = stack[k]
      /\ stack'[Len(stack')] = i
  BY <1>1 DEF Visit, TypeOK
<1>3. ~On(i)
  BY <1>1 DEF Inv, Gray
<1>4. color' \in [Nodes -> {"white", "gray", "black"}]
      /\ \A j \in Nodes : color'[j] = IF j = i THEN "gray" ELSE color[j]
  BY <1>1 DEF Visit, TypeOK
<1>5. TypeOK'
  <2>1. ASSUME NEW k \in 1 .. Len(stack'), NEW l \in 1 .. Len(stack'), stack'[k] = stack'[l]
        PROVE  k = l
    <3>1. \A n \in 1 .. Len(stack) : stack'[n] # i
      BY <1>2, <1>3 DEF On
    <3>2. CASE k \in 1 .. Len(stack) /\ l \in 1 .. Len(stack)
      BY <1>1, <1>2, <2>1, <3>2 DEF TypeOK
    <3>3. CASE k = Len(stack) + 1 \/ l = Len(stack) + 1
      BY <1>2, <2>1, <3>1, <3>3
    <3> QED  BY <1>2, <3>2, <3>3
  <2> QED  BY <1>1, <1>2, <1>4, <2>1 DEF TypeOK
<1>6. Gray'
  <2>1. ASSUME NEW j \in Nodes PROVE On(j)' <=> On(j) \/ j = i
    <3>1. On(j)' => On(j) \/ j = i
      <4>1. \A k \in 1 .. Len(stack') : k \in 1 .. Len(stack) \/ k = Len(stack')
        BY <1>2
      <4> QED  BY <1>2, <4>1 DEF On
    <3>2. \A k \in 1 .. Len(stack) : k \in 1 .. Len(stack')
      BY <1>2
    <3>3. Len(stack') \in 1 .. Len(stack')
      BY <1>2
    <3>4. On(j) => On(j)'
      BY <1>2, <3>2 DEF On
    <3>5. On(i)'
      BY <1>2, <3>3 DEF On
    <3> QED  BY <3>1, <3>4, <3>5
  <2> QED  BY <1>1, <1>4, <2>1 DEF Inv, Gray
<1>7. Black' = Black
  BY <1>1, <1>4 DEF Black
<1>8. Finishes' /\ NoFalseAlarm'
  BY <1>7, FinishesKept, AlarmsKept DEF Inv
<1> QED  BY <1>2, <1>5, <1>6, <1>8

\* The scan starts a visit at a white feature, or goes on.
LEMMA ScanStep == Inv /\ Scan => Inv'
<1> SUFFICES ASSUME Inv, Scan PROVE Inv'
  OBVIOUS
<1>0. /\ TypeOK /\ UNCHANGED <<features, at, reports>> /\ Nodes' = Nodes
      /\ Nodes = 1 .. Len(features) /\ Len(features) \in Nat /\ entry \in Nodes
      /\ stack = <<>> /\ Len(stack) = 0
  BY SameGraph, Shapes DEF Inv, Scan, TypeOK
<1>1. CASE color[entry] = "white"
  <2>1. Visit(entry) /\ entry' = entry
    BY <1>1 DEF Scan
  <2>2. /\ TypeOK' /\ Gray' /\ Finishes' /\ NoFalseAlarm'
        /\ Len(stack') = 1 /\ stack'[1] = entry
    BY <1>0, <1>1, <2>1, VisitKeeps DEF TypeOK
  <2>3. \A j \in Nodes : color'[j] = IF j = entry THEN "gray" ELSE color[j]
    BY <1>0, <2>1 DEF Visit, TypeOK
  <2>4. Path'
    BY <1>0, <2>1, <2>2 DEF Path
  <2>5. Scanned'
    BY <1>0, <2>1, <2>3 DEF Inv, Scanned
  <2>6. at[entry] = 1
    BY <1>0, <1>1 DEF Inv, Scanned
  <2>7. Looked'
    BY <1>0, <2>2, <2>6 DEF Looked
  <2>8. Inside'
    BY <2>1, <2>2 DEF Inside
  <2> QED  BY <2>2, <2>4, <2>5, <2>7, <2>8 DEF Inv
<1>2. CASE color[entry] # "white"
  <2>1. entry' = entry + 1 /\ UNCHANGED <<color, stack>>
    BY <1>2 DEF Scan
  <2>2. TypeOK'
    BY <1>0, <2>1 DEF TypeOK
  <2>3. Gray'
    BY <1>0, <2>1 DEF Inv, Gray, On
  <2>4. Path' /\ Looked' /\ Inside'
    BY <1>0, <2>1 DEF Path, Looked, Inside
  <2>5. Scanned'
    <3>1. \A i \in Nodes : i < entry + 1 => i < entry \/ i = entry
      BY <1>0
    <3> QED  BY <1>0, <1>2, <2>1, <3>1 DEF Inv, Scanned
  <2>6. Black' = Black
    BY <1>0, <2>1 DEF Black
  <2>7. Finishes' /\ NoFalseAlarm'
    BY <1>0, <2>6, FinishesKept, AlarmsKept DEF Inv
  <2> QED  BY <2>2, <2>3, <2>4, <2>5, <2>7 DEF Inv
<1> QED  BY <1>1, <1>2

\* The innermost visit looks at its next dependency.
LEMMA LookFacts ==
    ASSUME Inv, Looking, features' = features
    PROVE  /\ TypeOK /\ Nodes' = Nodes /\ Nodes = 1 .. Len(features)
           /\ Len(features) \in Nat /\ Len(stack) \in Nat \ {0}
           /\ Top \in Nodes /\ On(Top) /\ Top = stack[Len(stack)]
           /\ color[Top] = "gray" /\ at[Top] \in 1 .. Len(features[Top].dependsOn)
           /\ Len(features[Top].dependsOn) \in Nat
           /\ Dependency \subseteq Prerequisites(Top)
<1>1. TypeOK /\ stack # <<>> /\ Nodes' = Nodes
  BY SameGraph DEF Inv, Looking
<1>2. /\ Nodes = 1 .. Len(features) /\ Len(features) \in Nat
      /\ Top \in Nodes /\ On(Top) /\ Len(features[Top].dependsOn) \in Nat
  BY <1>1, Shapes
<1>3. Len(stack) \in Nat \ {0}
  BY <1>1 DEF TypeOK
<1>4. color[Top] = "gray"
  BY <1>2 DEF Inv, Gray
<1>5. at[Top] \in 1 .. Len(features[Top].dependsOn)
  BY <1>1, <1>2 DEF Looking, TypeOK
<1>6. Dependency \subseteq Prerequisites(Top)
  BY <1>5, TargetIsPrerequisite DEF Dependency
<1> QED  BY <1>1, <1>2, <1>3, <1>4, <1>5, <1>6 DEF Top

\* Moving on in one visit's DependsOn keeps every other position.
LEMMA MoveOnFacts ==
    ASSUME Inv, Looking, features' = features, MoveOn
    PROVE  /\ at' \in [Nodes -> Nat]
           /\ \A j \in Nodes : at'[j] = IF j = Top THEN at[j] + 1 ELSE at[j]
           /\ \A j \in Nodes : at'[j] \in 1 .. Len(features[j].dependsOn) + 1
<1>1. \A j \in Nodes : at'[j] = IF j = Top THEN at[j] + 1 ELSE at[j]
  BY LookFacts DEF MoveOn, TypeOK
<1>2. at' \in [Nodes -> Nat]
  BY LookFacts DEF MoveOn, TypeOK
<1>3. ASSUME NEW j \in Nodes PROVE at'[j] \in 1 .. Len(features[j].dependsOn) + 1
  <2>1. Len(features[j].dependsOn) \in Nat
    BY LookFacts, Shapes
  <2>2. CASE j = Top
    BY <1>1, <2>1, <2>2, LookFacts
  <2>3. CASE j # Top
    BY <1>1, <2>3, LookFacts DEF TypeOK
  <2> QED  BY <2>2, <2>3
<1> QED  BY <1>1, <1>2, <1>3

\* A dependency that is black, or none, may be passed over.
LEMMA PassStep == Inv /\ Pass => Inv'
<1> SUFFICES ASSUME Inv, Pass PROVE Inv'
  OBVIOUS
<1>0. Looking /\ MoveOn /\ UNCHANGED <<features, color, stack, entry, reports>>
  BY DEF Pass
<1>1. TypeOK'
  BY <1>0, LookFacts, MoveOnFacts DEF TypeOK
<1>2. Gray' /\ Path' /\ Inside'
  BY <1>0, SameGraph DEF Inv, Gray, On, Path, Inside
<1>3. Scanned'
  <2>1. \A i \in Nodes : color[i] = "white" => at'[i] = at[i]
    BY <1>0, LookFacts, MoveOnFacts
  <2> QED  BY <1>0, <2>1, LookFacts DEF Inv, Scanned
<1>4. Looked'
  <2> SUFFICES ASSUME NEW k \in 1 .. Len(stack), NEW p \in 1 .. at'[stack[k]] - 1,
                      NEW j \in Target(stack[k], p)
               PROVE  color[j] = "black" \/ (k < Len(stack) /\ j = stack[k + 1])
    BY <1>0, SameGraph DEF Looked
  <2>1. stack[k] \in Nodes
    BY LookFacts, <1>0, ElementOfSeq DEF TypeOK
  <2>2. CASE p \in 1 .. at[stack[k]] - 1
    BY <2>2 DEF Inv, Looked
  <2>3. CASE stack[k] = Top /\ p = at[Top]
    BY <2>3 DEF Pass, Dependency
  <2>4. at[stack[k]] \in Nat
    BY <2>1, LookFacts, <1>0 DEF TypeOK
  <2> QED  BY <1>0, <2>1, <2>2, <2>3, <2>4, MoveOnFacts
<1>5. Black' = Black
  BY <1>0, LookFacts DEF Black
<1>6. Finishes' /\ NoFalseAlarm'
  BY <1>0, <1>5, FinishesKept, AlarmsKept DEF Inv
<1> QED  BY <1>1, <1>2, <1>3, <1>4, <1>6 DEF Inv

\* A visit to a white dependency lengthens the path of gray features.
LEMMA DescendStep == Inv /\ Descend => Inv'
<1> SUFFICES ASSUME Inv, Descend PROVE Inv'
  OBVIOUS
<1>0. Looking /\ MoveOn /\ UNCHANGED <<features, entry, reports>>
  BY DEF Descend
<1>1. PICK i \in Dependency : color[i] = "white" /\ Visit(i)
  BY DEF Descend, Unvisited
<1>2. i \in Nodes /\ i \in Prerequisites(Top) /\ i # Top
  BY <1>0, <1>1, LookFacts, PrerequisitesAreNodes
<1>3. /\ TypeOK' /\ Gray' /\ Finishes' /\ NoFalseAlarm'
      /\ Len(stack') = Len(stack) + 1
      /\ \A k \in 1 .. Len(stack) : stack'[k] = stack[k]
      /\ stack'[Len(stack')] = i
  BY <1>0, <1>1, <1>2, VisitKeeps, MoveOnFacts
<1>4. /\ Len(stack) \in Nat \ {0} /\ Nodes' = Nodes
      /\ Len(stack) \in 1 .. Len(stack) /\ stack' # <<>> /\ stack # <<>>
      /\ \A k \in 1 .. Len(stack') : k \in 1 .. Len(stack) \/ k = Len(stack) + 1
  BY <1>0, <1>3, LookFacts DEF Looking
<1>5. \A j \in Nodes : color'[j] = IF j = i THEN "gray" ELSE color[j]
  BY <1>0, <1>1, <1>2, LookFacts DEF Visit, TypeOK
<1>6. Path'
  <2>1. entry' <= Len(features') /\ stack'[1] = entry'
    BY <1>0, <1>3, <1>4 DEF Inv, Path
  <2>2. ASSUME NEW k \in 1 .. Len(stack'), k < Len(stack')
        PROVE  stack'[k + 1] \in Prerequisites(stack'[k])
    <3>1. CASE k < Len(stack)
      <4>1. k \in 1 .. Len(stack) /\ k + 1 \in 1 .. Len(stack)
        BY <1>4, <3>1
      <4> QED  BY <1>3, <3>1, <4>1 DEF Inv, Path
    <3>2. CASE k = Len(stack)
      BY <1>0, <1>2, <1>3, <1>4, <3>2, LookFacts
    <3> QED  BY <1>3, <1>4, <2>2, <3>1, <3>2
  <2> QED  BY <1>0, <2>1, <2>2, SameGraph DEF Path
<1>7. Scanned'
  <2>1. \A j \in Nodes : color'[j] = "white" => color[j] = "white" /\ at'[j] = at[j]
    BY <1>0, <1>5, LookFacts, MoveOnFacts
  <2>2. \A j \in Nodes : color[j] # "white" => color'[j] # "white"
    BY <1>5
  <2> QED  BY <1>0, <1>4, <2>1, <2>2 DEF Inv, Scanned
<1>8. Looked'
  <2> SUFFICES ASSUME NEW k \in 1 .. Len(stack'), NEW p \in 1 .. at'[stack'[k]] - 1,
                      NEW j \in Target(stack'[k], p)
               PROVE  color'[j] = "black" \/ (k < Len(stack') /\ j = stack'[k + 1])
    BY <1>0, SameGraph DEF Looked
  <2>1. CASE k \in 1 .. Len(stack) /\ p \in 1 .. at[stack[k]] - 1
    <3>1. stack'[k] = stack[k] /\ j \in Target(stack[k], p) /\ j \in Nodes
      BY <1>3, <2>1, Targets
    <3>2. color[j] = "black" \/ (k < Len(stack) /\ j = stack[k + 1])
      BY <2>1, <3>1 DEF Inv, Looked
    <3>3. CASE color[j] = "black"
      BY <1>1, <1>5, <3>1, <3>3
    <3>4. CASE k < Len(stack) /\ j = stack[k + 1]
      <4>1. k + 1 \in 1 .. Len(stack)
        BY <1>4, <2>1, <3>4
      <4> QED  BY <1>3, <1>4, <2>1, <3>4, <4>1
    <3> QED  BY <3>2, <3>3, <3>4
  <2>2. CASE k = Len(stack) /\ p = at[Top]
    <3>1. stack'[k] = Top
      BY <1>0, <1>3, <1>4, <2>2, LookFacts
    <3>2. j \in Dependency
      BY <2>2, <3>1 DEF Dependency
    <3>3. i <= j /\ j <= i /\ i \in Nodes /\ j \in Nodes
      BY <1>1, <3>2 DEF Dependency, Target
    <3>4. j = i
      BY <1>0, <3>3, LookFacts
    <3> QED  BY <1>3, <1>4, <2>2, <3>4
  <2>3. k = Len(stack) + 1 => at'[stack'[k]] = 1
    <3>1. at[i] = 1 /\ at'[i] = at[i]
      BY <1>0, <1>1, <1>2, MoveOnFacts DEF Inv, Scanned
    <3> QED  BY <1>3, <3>1
  <2>4. k \in 1 .. Len(stack) => at'[stack'[k]] = IF stack[k] = Top THEN at[Top] + 1 ELSE at[stack[k]]
    <3> SUFFICES ASSUME k \in 1 .. Len(stack)
                 PROVE  at'[stack'[k]] = IF stack[k] = Top THEN at[Top] + 1 ELSE at[stack[k]]
      OBVIOUS
    <3>1. stack[k] \in Nodes /\ stack'[k] = stack[k]
      BY <1>0, <1>3, LookFacts, ElementOfSeq DEF TypeOK
    <3> QED  BY <1>0, <3>1, MoveOnFacts
  <2>5. k \in 1 .. Len(stack) /\ stack[k] = Top => k = Len(stack)
    BY <1>0, <1>4, LookFacts DEF TypeOK
  <2>6. k \in 1 .. Len(stack) => at[stack[k]] \in Nat
    BY <1>0, LookFacts, ElementOfSeq DEF TypeOK
  <2>7. CASE k \in 1 .. Len(stack)
    BY <2>1, <2>2, <2>4, <2>5, <2>6, <2>7
  <2>8. CASE k = Len(stack) + 1
    BY <2>3, <2>8
  <2> QED  BY <1>4, <2>7, <2>8
<1>9. Inside'
  <2> SUFFICES ASSUME NEW S \in SUBSET Nodes, Separate(S), entry \notin S,
                      NEW k \in 1 .. Len(stack')
               PROVE  stack'[k] \notin S
    BY <1>0, <1>4, SameGraph DEF Inside
  <2>1. \A l \in 1 .. Len(stack) : stack[l] \notin S
    BY DEF Inv, Inside
  <2>2. Top \notin S /\ Top \in Nodes
    BY <1>0, <1>4, <2>1, LookFacts
  <2>3. i \notin S
    BY <1>2, <2>2 DEF Separate
  <2> QED  BY <1>3, <1>4, <2>1, <2>3
<1> QED  BY <1>3, <1>6, <1>7, <1>8, <1>9 DEF Inv

\* A cycle closes: the visits in progress are it and what leads into it.
LEMMA ReportStep == Inv /\ Report => Inv'
<1> SUFFICES ASSUME Inv, Report PROVE Inv'
  OBVIOUS
<1>0. /\ Looking /\ UNCHANGED <<features, at>>
      /\ reports' = reports \cup {entry} /\ entry' = entry + 1 /\ stack' = <<>>
      /\ color' = [i \in Nodes |-> IF On(i) THEN "black" ELSE color[i]]
  BY DEF Report
<1>1. Len(stack') = 0 /\ entry \in Nodes /\ entry <= Len(features) /\ stack # <<>>
      /\ stack[1] = entry /\ 1 \in 1 .. Len(stack)
  BY <1>0, LookFacts DEF Looking, Inv, Path, TypeOK
<1>2. \A i \in Nodes : color'[i] = IF On(i) THEN "black" ELSE color[i]
  BY <1>0
<1>3. TypeOK'
  BY <1>0, <1>1, LookFacts DEF TypeOK
<1>4. Gray'
  BY <1>0, <1>1, <1>2, LookFacts DEF Inv, Gray, On
<1>5. Path' /\ Looked' /\ Inside'
  BY <1>0, <1>1 DEF Path, Looked, Inside
<1>6. Scanned'
  <2>1. On(entry)
    BY <1>1 DEF On
  <2>2. \A i \in Nodes : i < entry + 1 => i < entry \/ i = entry
    BY <1>1, <1>0, LookFacts
  <2> QED  BY <1>0, <1>1, <1>2, <2>1, <2>2, LookFacts DEF Inv, Scanned
<1>7. Finishes'
  <2> SUFFICES ASSUME NEW S \in SUBSET Nodes, Separate(S), S \cap (reports \cup {entry}) = {}
               PROVE  Sound(S)'
    BY <1>0, LookFacts, SameGraph DEF Finishes
  <2>1. Sound(S)
    BY DEF Inv, Finishes
  <2>2. \A k \in 1 .. Len(stack) : stack[k] \notin S
    BY DEF Inv, Inside
  <2>3. S \cap Black' = S \cap Black
    BY <1>0, <1>2, <2>2, LookFacts DEF Black, On
  <2>4. Black \subseteq Black'
    BY <1>0, <1>2, LookFacts DEF Black
  <2> QED  BY <1>0, <2>1, <2>3, <2>4, SameGraph DEF Sound
<1>8. NoFalseAlarm'
  <2> DEFINE Visits == {i \in Nodes : On(i)}
  <2>1. entry \in Visits
    BY <1>1 DEF On
  <2>2. ASSUME NEW i \in Visits PROVE Prerequisites(i) \cap Visits # {}
    <3>1. PICK k \in 1 .. Len(stack) : stack[k] = i
      BY <2>2 DEF On
    <3>2. CASE k < Len(stack)
      <4>1. k + 1 \in 1 .. Len(stack)
        BY <1>0, <3>2, LookFacts
      <4>2. stack[k + 1] \in Prerequisites(i) /\ On(stack[k + 1])
        BY <3>1, <3>2, <4>1 DEF Inv, Path, On
      <4> QED  BY <4>2, PrerequisitesAreNodes
    <3>3. CASE k = Len(stack)
      <4>1. PICK j \in Dependency : color[j] = "gray"
        BY DEF Report
      <4>2. i = Top /\ j \in Prerequisites(i)
        BY <1>0, <3>1, <3>3, <4>1, LookFacts
      <4>3. j \in Nodes /\ On(j)
        BY <4>1, <4>2, PrerequisitesAreNodes DEF Inv, Gray
      <4> QED  BY <4>2, <4>3
    <3> QED  BY <1>0, <3>1, <3>2, <3>3, LookFacts
  <2> SUFFICES ASSUME NEW e \in reports \cup {entry}
               PROVE  \E S \in SUBSET Nodes : e \in S /\ \A i \in S : Prerequisites(i) \cap S # {}
    BY <1>0, LookFacts, SameGraph DEF NoFalseAlarm
  <2>3. CASE e = entry
    <3>1. Visits \in SUBSET Nodes
      OBVIOUS
    <3> QED  BY <2>1, <2>2, <2>3, <3>1
  <2>4. CASE e \in reports
    BY <2>4 DEF Inv, NoFalseAlarm
  <2> QED  BY <2>3, <2>4
<1> QED  BY <1>3, <1>4, <1>5, <1>6, <1>7, <1>8 DEF Inv

\* The innermost visit has seen all its dependencies: they are finished.
LEMMA FinishStep == Inv /\ Finish => Inv'
<1> SUFFICES ASSUME Inv, Finish PROVE Inv'
  OBVIOUS
<1> DEFINE n == Len(stack)
<1>0. /\ TypeOK /\ UNCHANGED <<features, at, reports>> /\ Nodes' = Nodes /\ stack # <<>>
      /\ Nodes = 1 .. Len(features) /\ Len(features) \in Nat
      /\ Top \in Nodes /\ On(Top) /\ Top = stack[n] /\ n \in Nat \ {0}
      /\ color[Top] = "gray" /\ at[Top] > Len(features[Top].dependsOn)
      /\ entry' = IF n = 1 THEN entry + 1 ELSE entry
      /\ entry \in Nodes /\ stack[1] = entry
  <2>1. TypeOK /\ UNCHANGED <<features, at, reports>> /\ stack # <<>>
        /\ at[Top] > Len(features[Top].dependsOn)
        /\ entry' = IF n = 1 THEN entry + 1 ELSE entry
    BY DEF Inv, Finish
  <2>2. Top \in Nodes /\ On(Top) /\ Nodes = 1 .. Len(features) /\ Len(features) \in Nat
    BY <2>1, Shapes
  <2>3. n \in Nat \ {0} /\ entry \in Nodes /\ stack[1] = entry
    BY <2>1, <2>2 DEF TypeOK, Inv, Path
  <2>4. color[Top] = "gray" /\ Nodes' = Nodes
    BY <2>1, <2>2, SameGraph DEF Inv, Gray
  <2> QED  BY <2>1, <2>2, <2>3, <2>4 DEF Top
<1>1. \A j \in Nodes : color'[j] = IF j = Top THEN "black" ELSE color[j]
  BY <1>0 DEF Finish, Finished, TypeOK
<1>2. /\ stack' \in Seq(Nodes) /\ Len(stack') = n - 1
      /\ \A k \in 1 .. n - 1 : stack'[k] = stack[k] /\ k \in 1 .. n
  <2>1. stack \in Seq(Nodes) /\ stack' = SubSeq(stack, 1, Len(stack) - 1)
    BY <1>0 DEF Finish, Pop, TypeOK
  <2>2. stack # <<>>
    BY <1>0
  <2> QED  BY <2>1, <2>2, WithoutLast
<1>3. TypeOK'
  <2>1. color' \in [Nodes -> {"white", "gray", "black"}]
    BY <1>0 DEF Finish, Finished, TypeOK
  <2>2. \A k, l \in 1 .. Len(stack') : stack'[k] = stack'[l] => k = l
    BY <1>0, <1>2 DEF TypeOK
  <2>3. entry' \in 1 .. Len(features) + 1
    BY <1>0
  <2> QED  BY <1>0, <1>2, <2>1, <2>2, <2>3 DEF TypeOK
<1>4. Gray'
  <2> SUFFICES ASSUME NEW j \in Nodes PROVE color'[j] = "gray" <=> On(j)'
    BY <1>0 DEF Gray
  <2>1. j # Top => (On(j) <=> On(j)')
    <3>1. \A k \in 1 .. n : k \in 1 .. n - 1 \/ k = n
      BY <1>0
    <3> QED  BY <1>0, <1>2, <3>1 DEF On
  <2>2. j = Top => ~On(j)'
    <3> SUFFICES ASSUME NEW k \in 1 .. n - 1, stack[k] = Top PROVE FALSE
      BY <1>2 DEF On
    <3>1. k \in 1 .. n /\ n \in 1 .. n /\ k # n
      BY <1>0
    <3> QED  BY <1>0, <3>1 DEF TypeOK
  <2> QED  BY <1>1, <2>1, <2>2 DEF Inv, Gray
<1>5. Path'
  <2>1. ASSUME stack' # <<>> PROVE entry' = entry /\ stack'[1] = entry
    <3>1. stack' \in Seq(Nodes) /\ Len(stack') = n - 1
      BY <1>2
    <3>2. Len(stack') \in Nat \ {0}
      BY <2>1, <3>1, EmptySeq
    <3>3. n # 1 /\ 1 \in 1 .. n - 1
      BY <1>0, <3>1, <3>2
    <3>4. entry' = entry
      BY <1>0, <3>3
    <3>5. stack'[1] = stack[1]
      BY <1>2, <3>3
    <3> QED  BY <1>0, <3>4, <3>5
  <2>2. ASSUME NEW k \in 1 .. n - 1, k < n - 1 PROVE stack'[k + 1] \in Prerequisites(stack'[k])
    <3>1. k + 1 \in 1 .. n - 1 /\ k < n
      BY <1>0, <2>2
    <3>2. stack'[k] = stack[k] /\ stack'[k + 1] = stack[k + 1] /\ k \in 1 .. n
      BY <1>2, <3>1
    <3>3. stack[k + 1] \in Prerequisites(stack[k])
      BY <3>1, <3>2 DEF Inv, Path
    <3> QED  BY <3>2, <3>3
  <2>3. stack' # <<>> => entry' <= Len(features')
    BY <1>0, <2>1 DEF Inv, Path
  <2>4. Len(stack') = n - 1
    BY <1>2
  <2>5. \A i : Prerequisites(i)' = Prerequisites(i)
    BY <1>0, SameGraph
  <2>6. ASSUME NEW k \in 1 .. Len(stack'), k < Len(stack')
        PROVE  (stack[k + 1] \in Prerequisites(stack[k]))'
    BY <2>2, <2>4, <2>5, <2>6
  <2> QED  BY <2>1, <2>3, <2>6 DEF Path
<1>6. Scanned'
  <2>1. n = 1 => Top = entry
    BY <1>0
  <2>2. \A i \in Nodes : i < entry' => i < entry \/ (n = 1 /\ i = entry)
    BY <1>0
  <2> QED  BY <1>0, <1>1, <2>1, <2>2 DEF Inv, Scanned
<1>7. Looked'
  <2> SUFFICES ASSUME NEW k \in 1 .. n - 1, NEW p \in 1 .. at[stack[k]] - 1,
                      NEW j \in Target(stack[k], p)
               PROVE  color'[j] = "black" \/ (k < n - 1 /\ j = stack'[k + 1])
    BY <1>0, <1>2, SameGraph DEF Looked
  <2>1. j \in Nodes /\ k \in 1 .. n
    BY <1>2, Targets
  <2>2. color[j] = "black" \/ (k < n /\ j = stack[k + 1])
    BY <2>1 DEF Inv, Looked
  <2>3. CASE color[j] = "black"
    BY <1>1, <2>1, <2>3
  <2>4. CASE k = n - 1 /\ j = stack[k + 1]
    BY <1>0, <1>1, <2>1, <2>4
  <2>5. CASE k < n - 1 /\ j = stack[k + 1]
    <3>1. k + 1 \in 1 .. n - 1
      BY <1>0, <2>5
    <3> QED  BY <1>2, <2>5, <3>1
  <2> QED  BY <1>0, <2>2, <2>3, <2>4, <2>5
<1>8. Inside'
  <2> SUFFICES ASSUME NEW S \in SUBSET Nodes, Separate(S), entry' \notin S, NEW k \in 1 .. n - 1
               PROVE  stack'[k] \notin S
    BY <1>0, <1>2, SameGraph DEF Inside
  <2>1. entry' = entry
    BY <1>0
  <2> QED  BY <1>2, <2>1 DEF Inv, Inside
<1>9. Prerequisites(Top) \subseteq Black
  <2> SUFFICES ASSUME NEW p \in 1 .. Len(features[Top].dependsOn), NEW j \in Target(Top, p)
               PROVE  j \in Black
    BY DEF Prerequisites
  <2>1. n \in 1 .. n /\ p \in 1 .. at[stack[n]] - 1
    <3>1. Len(features[Top].dependsOn) \in Nat /\ at[Top] \in Nat
      BY <1>0, Shapes DEF TypeOK
    <3> QED  BY <1>0, <3>1
  <2>2. color[j] = "black"
    BY <1>0, <2>1 DEF Inv, Looked
  <2> QED  BY <2>2, Targets DEF Black
<1>10. Black' = Black \cup {Top} /\ Top \notin Black
  BY <1>0, <1>1 DEF Black
<1>11. Finishes'
  <2> SUFFICES ASSUME NEW S \in SUBSET Nodes, Separate(S), S \cap reports = {}
               PROVE  Sound(S)'
    BY <1>0, SameGraph DEF Finishes
  <2>0. Sound(S)
    BY DEF Inv, Finishes
  <2>1. \A i \in S \cap Black' : Prerequisites(i) \subseteq Black'
    BY <1>9, <1>10, <2>0 DEF Sound
  <2>2. ASSUME NEW T \in SUBSET (S \cap Black'), T # {}
        PROVE  \E i \in T : Prerequisites(i) \cap T = {}
    <3>1. CASE T \cap Black = {}
      <4>1. T = {Top}
        BY <1>10, <2>2, <3>1
      <4> QED  BY <1>9, <1>10, <4>1
    <3>2. CASE T \cap Black # {}
      <4>1. PICK i \in T \cap Black : Prerequisites(i) \cap (T \cap Black) = {}
        BY <2>0, <3>2 DEF Sound
      <4>2. Prerequisites(i) \subseteq Black
        BY <2>0, <4>1 DEF Sound
      <4> QED  BY <4>1, <4>2
    <3> QED  BY <3>1, <3>2
  <2> QED  BY <1>0, <2>1, <2>2, SameGraph DEF Sound
<1>12. NoFalseAlarm'
  BY <1>0, AlarmsKept DEF Inv
<1> QED  BY <1>3, <1>4, <1>5, <1>6, <1>7, <1>8, <1>11, <1>12 DEF Inv

-----------------------------------------------------------------------------
\* The invariant holds in every state of the search.
LEMMA Invariance == Spec => []Inv
<1>1. ASSUME Inv, UNCHANGED vars PROVE Inv'
  <2>1. UNCHANGED <<features, color, stack, at, entry, reports>>
    BY <1>1 DEF vars
  <2>2. TypeOK' /\ Gray' /\ Scanned'
    BY <1>1, <2>1, SameGraph DEF Inv, TypeOK, Gray, On, Scanned
  <2>4. Path' /\ Looked' /\ Inside'
    BY <1>1, <2>1, SameGraph DEF Inv, Path, Looked, Inside
  <2>3. Black' = Black
    BY <2>1, SameGraph DEF Black
  <2> QED  BY <1>1, <2>1, <2>2, <2>3, <2>4, FinishesKept, AlarmsKept DEF Inv
<1>2. Inv /\ [Next]_vars => Inv'
  BY <1>1, ScanStep, PassStep, DescendStep, ReportStep, FinishStep DEF Next, Return
<1> QED  BY <1>2, InitInv, PTL DEF Spec

\* The search keeps its types, and its recursion never enters a feature again:
\* the stack is no longer than the catalog (validate.go:325-343).
THEOREM TypeCorrect == Spec => []TypeOK
<1>1. Inv => TypeOK
  BY DEF Inv
<1> QED  BY <1>1, Invariance, PTL

\* Every part of a catalog that has a cycle gets an error, for catalogs of any
\* size: what NewSnapshot accepts has no cyclic prerequisites (validate.go:305).
THEOREM CyclesReportedHolds == Spec => []CyclesReported
<1>1. ASSUME Inv PROVE CyclesReported
  <2> SUFFICES ASSUME Done, NEW S \in SUBSET Nodes, Separate(S), S \cap reports = {}
               PROVE  Acyclic(S)
    BY DEF CyclesReported
  <2>1. Nodes \subseteq Black
    <3>0. Nodes = 1 .. Len(features) /\ Len(features) \in Nat /\ Len(stack) = 0
          /\ \A i \in Nodes : i < entry
      BY <1>1, Shapes DEF Inv, TypeOK, Done
    <3>1. \A i \in Nodes : color[i] # "white" /\ color[i] # "gray"
      BY <1>1, <3>0 DEF Inv, Gray, On, Scanned
    <3> QED  BY <1>1, <3>1 DEF Inv, TypeOK, Black
  <2>2. Sound(S) /\ S \cap Black = S
    BY <1>1, <2>1 DEF Inv, Finishes
  <2> QED  BY <2>2 DEF Sound, Acyclic
<1> QED  BY <1>1, Invariance, PTL

\* No feature is blamed that does not lead into a cycle (validate.go:347-348).
THEOREM NoFalseAlarmHolds == Spec => []NoFalseAlarm
<1>1. Inv => NoFalseAlarm
  BY DEF Inv
<1> QED  BY <1>1, Invariance, PTL

-----------------------------------------------------------------------------
(***************************************************************************)
(* The search ends: a visit pays for its place on the stack and for its    *)
(* end with the feature's whiteness, the rest is read once.                *)
(***************************************************************************)
White == {i \in Nodes : color[i] = "white"}

Entries == entry .. Len(features)

Finite ==
    /\ IsFiniteSet(White) /\ Cardinality(White) \in Nat /\ Len(stack) \in Nat
    /\ IsFiniteSet(Unread) /\ Cardinality(Unread) \in Nat
    /\ Cardinality(Entries) = Len(features) - entry + 1 /\ Cardinality(Entries) \in Nat
    /\ WorkLeft = 2 * Cardinality(White) + Len(stack) + Cardinality(Entries) + Cardinality(Unread)
    /\ WorkLeft \in Nat

\* What is left to do is finite.
LEMMA WorkFinite == TypeOK => Finite
<1> SUFFICES ASSUME TypeOK PROVE Finite
  OBVIOUS
<1>1. /\ Nodes = 1 .. Len(features) /\ Len(features) \in Nat
      /\ \A i \in Nodes : Len(features[i].dependsOn) \in Nat
      /\ entry \in 1 .. Len(features) + 1 /\ Len(stack) \in Nat
  BY Shapes DEF TypeOK
<1>2. IsFiniteSet(Nodes)
  BY <1>1, FS_Interval
<1>3. IsFiniteSet(White) /\ Cardinality(White) \in Nat
  <2>1. White \in SUBSET Nodes
    BY DEF White
  <2> QED BY <1>2, <2>1, FS_Subset, FS_CardinalityType
<1>4. Cardinality(Entries) = Len(features) - entry + 1 /\ Cardinality(Entries) \in Nat
  <2>1. PICK a \in Int, b \in Int : a = entry /\ b = Len(features)
    BY <1>1
  <2>2. Cardinality(a .. b) = IF a > b THEN 0 ELSE b - a + 1
    BY FS_Interval
  <2>3. a <= b + 1
    BY <1>1, <2>1
  <2>4. Cardinality(a .. b) = b - a + 1 /\ b - a + 1 \in Nat
    BY <2>2, <2>3
  <2> QED BY <2>1, <2>4 DEF Entries
<1>5. IsFiniteSet(Unread) /\ Cardinality(Unread) \in Nat
  <2> DEFINE row == [i \in Nodes |-> {i} \X (at[i] .. Len(features[i].dependsOn))]
             Rows == {row[i] : i \in Nodes}
  <2>1. ASSUME NEW i \in Nodes PROVE IsFiniteSet(row[i])
    <3>1. IsFiniteSet(at[i] .. Len(features[i].dependsOn))
      <4>1. at[i] \in Int /\ Len(features[i].dependsOn) \in Int
        BY <1>1 DEF TypeOK
      <4> QED BY <4>1, FS_Interval
    <3>2. IsFiniteSet({i})
      BY FS_Singleton
    <3>3. IsFiniteSet({i} \X (at[i] .. Len(features[i].dependsOn)))
      BY <3>1, <3>2, FS_Product
    <3> QED BY <3>3
  <2>2. row \in Surjection(Nodes, Rows)
    BY DEF Surjection
  <2> HIDE DEF row
  <2>3. IsFiniteSet(Rows)
    BY <1>2, <2>2, FS_Surjection
  <2>4. \A r \in Rows : IsFiniteSet(r)
    BY <2>1
  <2>5. Unread = UNION Rows
    BY DEF Unread, row
  <2> HIDE DEF Rows
  <2> QED BY <2>3, <2>4, <2>5, FS_UNION, FS_CardinalityType
<1>6. WorkLeft = 2 * Cardinality(White) + Len(stack) + Cardinality(Entries) + Cardinality(Unread)
  BY DEF WorkLeft, White, Entries
<1> QED BY <1>1, <1>3, <1>4, <1>5, <1>6 DEF Finite

\* A visit makes a white feature gray.
LEMMA VisitPays ==
    ASSUME TypeOK, features' = features, NEW i \in Nodes, color[i] = "white", Visit(i)
    PROVE  Cardinality(White') = Cardinality(White) - 1 /\ Len(stack') = Len(stack) + 1
<1>1. White' = White \ {i} /\ i \in White
  BY SameGraph DEF White, Visit, TypeOK
<1>2. Len(stack') = Len(stack) + 1
  BY DEF Visit, TypeOK
<1> QED BY <1>1, <1>2, WorkFinite, FS_RemoveElement DEF Finite

\* The innermost visit has one entry less to look at.
LEMMA MoveOnPays ==
    ASSUME TypeOK, features' = features, Looking, MoveOn
    PROVE  Cardinality(Unread') = Cardinality(Unread) - 1
<1>1. /\ Top \in Nodes /\ at \in [Nodes -> Nat] /\ at[Top] <= Len(features[Top].dependsOn)
      /\ \A i \in Nodes : Len(features[i].dependsOn) \in Nat
  BY Shapes DEF TypeOK, Looking
<1>2. \A i \in Nodes : at'[i] = IF i = Top THEN at[i] + 1 ELSE at[i]
  BY <1>1 DEF MoveOn
<1>3. /\ Unread = UNION {{i} \X (at[i] .. Len(features[i].dependsOn)) : i \in Nodes}
      /\ Unread' = UNION {{i} \X (at'[i] .. Len(features[i].dependsOn)) : i \in Nodes}
  BY SameGraph DEF Unread
<1>4. \A i, p : <<i, p>> \in Unread <=> i \in Nodes /\ p \in at[i] .. Len(features[i].dependsOn)
  BY <1>3
<1>5. \A i, p : <<i, p>> \in Unread' <=> i \in Nodes /\ p \in at'[i] .. Len(features[i].dependsOn)
  BY <1>3
<1>6. /\ \A x \in Unread : x = <<x[1], x[2]>>
      /\ \A x \in Unread' : x = <<x[1], x[2]>>
  BY <1>3
<1>7. ASSUME NEW i, NEW p
      PROVE  <<i, p>> \in Unread' <=> <<i, p>> \in Unread /\ <<i, p>> # <<Top, at[Top]>>
  BY <1>1, <1>2, <1>4, <1>5
<1>8. Unread' = Unread \ {<<Top, at[Top]>>}
  BY <1>6, <1>7
<1>9. <<Top, at[Top]>> \in Unread
  BY <1>1, <1>4
<1> QED BY <1>8, <1>9, WorkFinite, FS_RemoveElement DEF Finite

\* Every step but the return leaves less to do.
LEMMA StepPays == Inv /\ Inv' /\ Next /\ ~Return => WorkLeft' \in Nat /\ WorkLeft' < WorkLeft
<1>1. TypeOK' => Finite'
  BY WorkFinite, PTL
<1> SUFFICES ASSUME Inv, Inv', Next, ~Return PROVE WorkLeft' \in Nat /\ WorkLeft' < WorkLeft
  OBVIOUS
<1>2. TypeOK /\ TypeOK'
  BY DEF Inv
<1>3. /\ Cardinality(White) \in Nat /\ Cardinality(Unread) \in Nat /\ Len(stack) \in Nat
      /\ Cardinality(Entries) = Len(features) - entry + 1 /\ Cardinality(Entries) \in Nat
      /\ WorkLeft = 2 * Cardinality(White) + Len(stack) + Cardinality(Entries) + Cardinality(Unread)
  BY <1>2, WorkFinite DEF Finite
<1>4. /\ Cardinality(White') \in Nat /\ Cardinality(Unread') \in Nat /\ Len(stack') \in Nat
      /\ Cardinality(Entries') = Len(features') - entry' + 1 /\ Cardinality(Entries') \in Nat
      /\ WorkLeft' = 2 * Cardinality(White') + Len(stack') + Cardinality(Entries')
                       + Cardinality(Unread')
      /\ WorkLeft' \in Nat
  BY <1>1, <1>2 DEF Finite
<1>5. /\ Nodes = 1 .. Len(features) /\ Len(features) \in Nat
      /\ entry \in 1 .. Len(features) + 1 /\ entry' \in 1 .. Len(features') + 1
      /\ stack # <<>> => Len(stack) >= 1 /\ Top \in Nodes /\ On(Top)
  BY <1>2, Shapes DEF TypeOK
<1>6. features' = features => Nodes' = Nodes
  BY SameGraph
<1>7. ASSUME features' = features, entry <= entry',
             2 * Cardinality(White') + Len(stack') + Cardinality(Unread')
               < 2 * Cardinality(White) + Len(stack) + Cardinality(Unread)
      PROVE  WorkLeft' \in Nat /\ WorkLeft' < WorkLeft
  <2>1. Len(features') = Len(features) /\ entry \in Int /\ entry' \in Int
    BY <1>5, <1>7
  <2>2. Cardinality(Entries') <= Cardinality(Entries)
    BY <1>3, <1>4, <1>5, <1>7, <2>1
  <2>3. PICK m \in Int : m = 2 * Cardinality(White) + Len(stack) + Cardinality(Unread)
    BY <1>3
  <2>4. PICK n \in Int : n = 2 * Cardinality(White') + Len(stack') + Cardinality(Unread')
    BY <1>4
  <2>5. PICK k \in Int : k = Cardinality(Entries)
    BY <1>3
  <2>6. PICK l \in Int : l = Cardinality(Entries')
    BY <1>4
  <2>7. WorkLeft = m + k
    BY <1>3, <2>3, <2>5
  <2>8. WorkLeft' = n + l
    BY <1>4, <2>4, <2>6
  <2>9. n < m /\ l <= k
    BY <1>7, <2>2, <2>3, <2>4, <2>5, <2>6
  <2> QED BY <1>4, <2>7, <2>8, <2>9
<1>8. CASE Scan
  <2>1. /\ features' = features /\ at' = at /\ entry \in Nodes
        /\ IF color[entry] = "white" THEN Visit(entry) /\ entry' = entry
           ELSE entry' = entry + 1 /\ color' = color /\ stack' = stack
    BY <1>5, <1>8 DEF Scan
  <2>2. Unread' = Unread
    BY <1>6, <2>1 DEF Unread
  <2>3. CASE color[entry] = "white"
    <3>1. Cardinality(White') = Cardinality(White) - 1 /\ Len(stack') = Len(stack) + 1
      BY <1>2, <2>1, <2>3, VisitPays
    <3> QED BY <1>3, <1>5, <1>7, <2>1, <2>2, <2>3, <3>1
  <2>4. CASE color[entry] # "white"
    <3>1. White' = White
      BY <1>6, <2>1, <2>4 DEF White
    <3> QED BY <1>3, <1>4, <1>5, <2>1, <2>2, <2>4, <3>1
  <2> QED BY <2>3, <2>4
<1>9. CASE Pass
  <2>1. /\ features' = features /\ Looking /\ MoveOn
        /\ color' = color /\ stack' = stack /\ entry' = entry
    BY <1>9 DEF Pass
  <2>2. White' = White
    BY <1>6, <2>1 DEF White
  <2>3. Cardinality(Unread') = Cardinality(Unread) - 1
    BY <1>2, <2>1, MoveOnPays
  <2> QED BY <1>3, <1>5, <1>7, <2>1, <2>2, <2>3
<1>10. CASE Descend
  <2>1. /\ features' = features /\ Looking /\ MoveOn /\ entry' = entry
    BY <1>10 DEF Descend
  <2>2. PICK j \in Dependency : color[j] = "white" /\ Visit(j)
    BY <1>10 DEF Descend, Unvisited
  <2>3. j \in Nodes
    BY Targets DEF Dependency
  <2>4. Cardinality(White') = Cardinality(White) - 1 /\ Len(stack') = Len(stack) + 1
    BY <1>2, <2>1, <2>2, <2>3, VisitPays
  <2>5. Cardinality(Unread') = Cardinality(Unread) - 1
    BY <1>2, <2>1, MoveOnPays
  <2> QED BY <1>3, <1>5, <1>7, <2>1, <2>4, <2>5
<1>11. CASE Report
  <2>1. /\ features' = features /\ at' = at /\ stack # <<>> /\ stack' = <<>> /\ entry' = entry + 1
        /\ color' = [i \in Nodes |-> IF On(i) THEN "black" ELSE color[i]]
    BY <1>11 DEF Report, Looking
  <2>2. White' = White
    <3>1. \A i \in Nodes : On(i) => color[i] # "white"
      BY DEF Inv, Gray
    <3>2. \A i \in Nodes : color'[i] = "white" <=> color[i] = "white"
      BY <2>1, <3>1
    <3> QED BY <1>6, <2>1, <3>2 DEF White
  <2>3. Unread' = Unread
    BY <1>6, <2>1 DEF Unread
  <2>4. Len(stack') = 0
    BY <2>1
  <2>5. Len(stack) >= 1 /\ entry <= entry'
    BY <1>3, <1>5, <2>1
  <2> QED BY <1>3, <1>7, <2>1, <2>2, <2>3, <2>4, <2>5
<1>12. CASE Finish
  <2>1. /\ features' = features /\ at' = at /\ stack # <<>>
        /\ color' = [color EXCEPT ![Top] = "black"] /\ stack' = SubSeq(stack, 1, Len(stack) - 1)
        /\ entry' = IF Len(stack) = 1 THEN entry + 1 ELSE entry
    BY <1>12 DEF Finish, Finished, Pop
  <2>2. White' = White
    <3>1. color[Top] # "white"
      BY <1>5, <2>1 DEF Inv, Gray
    <3>2. \A i \in Nodes : color'[i] = "white" <=> color[i] = "white"
      BY <1>2, <2>1, <3>1 DEF TypeOK
    <3> QED BY <1>6, <2>1, <3>2 DEF White
  <2>3. Unread' = Unread
    BY <1>6, <2>1 DEF Unread
  <2>4. Len(stack') = Len(stack) - 1
    BY <1>2, <2>1, WithoutLast DEF TypeOK
  <2>5. Len(stack) >= 1 /\ entry <= entry'
    BY <1>3, <1>5, <2>1
  <2> QED BY <1>3, <1>7, <2>1, <2>2, <2>3, <2>4, <2>5
<1> QED BY <1>8, <1>9, <1>10, <1>11, <1>12 DEF Next

\* For every catalog the search ends, in a number of steps linear in its features and
\* dependencies (validate.go:332-336): what is left to do is a number, and falls.
THEOREM LinearSearchHolds == Spec => LinearSearch
<1>1. Inv /\ Inv' /\ [Next]_vars => [~Return => WorkLeft' \in Nat /\ WorkLeft' < WorkLeft]_vars
  BY StepPays
<1>2. Spec => [][Next]_vars
  BY DEF Spec
<1> QED BY <1>1, <1>2, Invariance, PTL DEF LinearSearch
=============================================================================
