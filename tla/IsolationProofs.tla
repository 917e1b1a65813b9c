--------------------------- MODULE IsolationProofs ---------------------------
(***************************************************************************)
(* Proofs about Isolation: whatever the definitions are and however many   *)
(* snapshots, copies and decisions there are, what the application holds   *)
(* shares no cell with a snapshot, nor with anything else it holds, except *)
(* what interfaces hold.                                                   *)
(***************************************************************************)
EXTENDS Isolation, SequenceTheorems, TLAPS

(***************************************************************************)
(* Paths: whichever cell a definition refers to, the clone function of its *)
(* kind renews it, or an interface holds it.                               *)
(***************************************************************************)
Fields ==
  {"Tags", "DependsOn", "Requires", "Rules", "Conditions", "Value", "Values", "element",
   "Serve", "Rollout", "Split", "Window", "Variants", "Default", "Entitlements", "Limit",
   "Entitlement"}

Path(p) == p \in Seq(Fields) /\ p # <<>>

Covers(renewed, refs) ==
  \A p \in refs : Path(p) /\ (p \in renewed \/ Last(p) \in Interfaces)

\* The fields that are used.
LEMMA Names ==
  /\ "Tags" \in Fields /\ "DependsOn" \in Fields /\ "Requires" \in Fields
  /\ "Rules" \in Fields /\ "Conditions" \in Fields
  /\ "Value" \in Fields /\ "Values" \in Fields /\ "element" \in Fields
  /\ "Serve" \in Fields /\ "Rollout" \in Fields /\ "Split" \in Fields
  /\ "Window" \in Fields /\ "Variants" \in Fields /\ "Default" \in Fields
  /\ "Entitlements" \in Fields /\ "Limit" \in Fields
BY DEF Fields

\* A field alone is a path.
LEMMA Field ==
  ASSUME NEW f \in Fields
  PROVE  Path(<<f>>) /\ Last(<<f>>) = f
<1>1. <<f>> \in Seq(Fields) /\ Len(<<f>>) = 1 /\ <<f>>[1] = f /\ <<f>> # <<>>
  OBVIOUS
<1> QED BY <1>1 DEF Path, Last

\* A longer path ends where it ended.
LEMMA Deeper ==
  ASSUME NEW f \in Fields, NEW p \in Seq(Fields), p # <<>>
  PROVE  Path(<<f>> \o p) /\ Last(<<f>> \o p) = Last(p)
<1>1. <<f>> \in Seq(Fields) /\ Len(<<f>>) = 1 /\ <<f>>[1] = f
  OBVIOUS
<1>2. /\ <<f>> \o p \in Seq(Fields)
      /\ Len(<<f>> \o p) = 1 + Len(p)
      /\ \A i \in 1 .. 1 + Len(p) :
            (<<f>> \o p)[i] = IF i <= 1 THEN <<f>>[i] ELSE p[i - 1]
  BY <1>1, ConcatProperties
<1>3. Len(p) \in Nat /\ Len(p) > 0
  OBVIOUS
<1>4. (<<f>> \o p)[1] = f /\ (<<f>> \o p)[1 + Len(p)] = p[Len(p)]
  BY <1>1, <1>2, <1>3
<1>5. <<f>> \o p # <<>>
  BY <1>2, <1>3
<1> QED BY <1>2, <1>4, <1>5 DEF Path, Last

\* Nesting both sides in a field keeps the relation.
LEMMA CoversWithin ==
  ASSUME NEW f \in Fields, NEW A, NEW B, Covers(A, B)
  PROVE  Covers(Within(f, A), Within(f, B))
<1> SUFFICES ASSUME NEW p \in B
             PROVE  /\ Path(<<f>> \o p)
                    /\ <<f>> \o p \in Within(f, A) \/ Last(<<f>> \o p) \in Interfaces
  BY DEF Covers, Within
<1>1. p \in Seq(Fields) /\ p # <<>> /\ (p \in A \/ Last(p) \in Interfaces)
  BY DEF Covers, Path
<1>2. Path(<<f>> \o p) /\ Last(<<f>> \o p) = Last(p)
  BY <1>1, Deeper
<1> QED BY <1>1, <1>2 DEF Within

\* Two clone functions together renew what both types refer to.
LEMMA CoversUnion ==
  ASSUME NEW A, NEW B, NEW C, NEW D, Covers(A, B), Covers(C, D)
  PROVE  Covers(A \cup C, B \cup D)
BY DEF Covers

\* A field added in front of every path keeps the relation.
LEMMA CoversBehind ==
  ASSUME NEW f \in Fields, NEW A, NEW B, Covers(A, B)
  PROVE  Covers(Behind(f, A), Behind(f, B))
<1>1. Covers({<<f>>}, {<<f>>})
  BY Field DEF Covers
<1> QED BY <1>1, CoversWithin, CoversUnion DEF Behind

\* A field with nothing behind it, and one whose value is an interface.
LEMMA CoversField ==
  ASSUME NEW f \in Fields
  PROVE  /\ Covers(Behind(f, {}), Behind(f, {}))
         /\ f \in Interfaces => Covers({}, Behind(f, {}))
<1>1. Covers({}, {})
  BY DEF Covers
<1>2. Covers({}, {<<f>>}) \/ f \notin Interfaces
  BY Field DEF Covers
<1>3. Behind(f, {}) = {<<f>>}
  BY DEF Behind, Within
<1> QED BY <1>1, <1>2, <1>3, CoversBehind

\* CloneCondition renews what a condition refers to, and so on for each type.
LEMMA ConditionCovered == Covers(CloneCondition, ConditionRefs)
<1>1. Covers({}, Behind("Value", {}))
  BY Names, CoversField DEF Interfaces
<1>2. Behind("element", {}) = {<<"element">>}
  BY DEF Behind, Within
<1>3. Covers({}, {<<"element">>})
  BY <1>2, Names, CoversField DEF Interfaces
<1>4. Covers(CloneCondition, Behind("Values", {<<"element">>}))
  BY <1>3, Names, CoversBehind DEF CloneCondition
<1>5. CloneCondition = {} \cup CloneCondition
  OBVIOUS
<1> QED BY <1>1, <1>4, <1>5, CoversUnion DEF ConditionRefs

\* cloneServe copies the split of a rollout.
LEMMA ServeCovered == Covers(CloneServe, ServeRefs)
<1>1. Covers(Behind("Split", {}), Behind("Split", {}))
  BY Names, CoversField
<1> QED BY <1>1, Names, CoversBehind DEF CloneServe, CloneRollout, ServeRefs

\* cloneEntitlements copies the limits.
LEMMA EntitlementsCovered == Covers(CloneEntitlements, EntitlementRefs)
<1>1. Covers(Behind("Limit", {}), Behind("Limit", {}))
  BY Names, CoversField
<1> QED BY <1>1, Names, CoversBehind DEF CloneEntitlements, EntitlementRefs

\* A copied feature shares nothing.
LEMMA FeatureCovered == Covers(Renewed.feature, References.feature)
<1>1. /\ Covers(Behind("Tags", {}), Behind("Tags", {}))
      /\ Covers(Behind("DependsOn", {}), Behind("DependsOn", {}))
  BY Names, CoversField
<1> QED BY <1>1, CoversUnion DEF Renewed, References, CloneFeature

\* Nor does a segment, down to its conditions.
LEMMA SegmentCovered == Covers(Renewed.segment, References.segment)
<1>1. Covers(CloneConditions, Behind("Conditions", ConditionRefs))
  BY ConditionCovered, Names, CoversBehind DEF CloneConditions
<1> QED BY <1>1, Names, CoversBehind DEF Renewed, References, CloneSegment

\* Nor does a flag, down to its rules.
LEMMA FlagCovered == Covers(Renewed.flag, References.flag)
<1>1. Covers(CloneConditions, Behind("Conditions", ConditionRefs))
  BY ConditionCovered, Names, CoversBehind DEF CloneConditions
<1>2. /\ Covers(Within("Serve", CloneServe), Within("Serve", ServeRefs))
      /\ Covers(Within("Default", CloneServe), Within("Default", ServeRefs))
  BY ServeCovered, Names, CoversWithin
<1>3. Covers(CloneRules, Behind("Rules", RuleRefs))
  BY <1>1, <1>2, Names, CoversUnion, CoversBehind DEF CloneRules, RuleRefs
<1>4. Covers(CloneWindow, Behind("Window", {}))
  BY Names, CoversField DEF CloneWindow
<1>5. Covers({}, Behind("Value", {}))
  BY Names, CoversField DEF Interfaces
<1>6. Covers(Behind("Variants", {}), Behind("Variants", Behind("Value", {})))
  BY <1>5, Names, CoversBehind
<1> QED BY <1>2, <1>3, <1>4, <1>6, CoversUnion DEF Renewed, References, CloneFlag

\* Nor does a plan.
LEMMA PlanCovered == Covers(Renewed.plan, References.plan)
BY EntitlementsCovered DEF Renewed, References, ClonePlan

\* Nor does an add-on.
LEMMA AddOnCovered == Covers(Renewed.addon, References.addon)
<1>1. Covers(Behind("Requires", {}), Behind("Requires", {}))
  BY Names, CoversField
<1> QED BY <1>1, EntitlementsCovered, CoversUnion DEF Renewed, References, CloneAddOn

\* No kind of definition has a reference that its clone function forgets.
LEMMA AllCovered == \A k \in DOMAIN References : Covers(Renewed[k], References[k])
<1>1. DOMAIN References = {"feature", "segment", "flag", "plan", "addon"}
  BY DEF References
<1> QED BY <1>1, FeatureCovered, SegmentCovered, FlagCovered, PlanCovered, AddOnCovered

(***************************************************************************)
(* The inductive invariant.  A copy's cells are renewed with a number that *)
(* no cell bears yet, so that nothing in use has one of them; cells with   *)
(* the same number are told apart by who holds them.  That copies of the   *)
(* same definition do not share is more than HeldApart says of equal sets. *)
(***************************************************************************)
Cells(n) == [of : Definitions, at : Seq(Fields) \cup {Flat}, made : 0 .. n]

Refers(c) == c.at = Flat \/ c.at \in References[Kind[c.of]]

Well(cells, n) == cells \subseteq Cells(n) /\ \A c \in cells : Refers(c)

Typed ==
  /\ made \in Nat
  /\ snapshots \in Seq(SUBSET Cells(made))
  /\ Well(Read, made)
  /\ Well(config, made)
  /\ \A c \in config : c.at # Flat
  /\ \A v \in copies : Well(v, made)
  /\ \A d \in decisions : d.limit \subseteq Cells(made)

Apart(v, w) == \A c \in v \cap w : Exempt(c)

Separate ==
  /\ Apart(config, Read)
  /\ \A v \in copies : Apart(v, Read) /\ Apart(v, config)
  /\ \A v, w \in copies : v # w => Apart(v, w)
  /\ \A d \in decisions :
       /\ Apart(d.limit, Read) /\ Apart(d.limit, config)
       /\ \A v \in copies : Apart(d.limit, v)
  /\ \A d, e \in decisions : d = e

Inv == Typed /\ Separate /\ WritesStayOut

New(cells) == \A c \in cells : Exempt(c) \/ c.made = made + 1

\* What is well formed stays so when more is made.
LEMMA Grows ==
  ASSUME made \in Nat
  PROVE  /\ Cells(made) \subseteq Cells(made + 1)
         /\ \A v : Well(v, made) => Well(v, made + 1)
         /\ Seq(SUBSET Cells(made)) \subseteq Seq(SUBSET Cells(made + 1))
<1>1. 0 .. made \subseteq 0 .. made + 1
  OBVIOUS
<1>2. Cells(made) \subseteq Cells(made + 1)
  BY <1>1 DEF Cells
<1>3. SUBSET Cells(made) \subseteq SUBSET Cells(made + 1)
  BY <1>2
<1>4. Seq(SUBSET Cells(made)) \subseteq Seq(SUBSET Cells(made + 1))
  BY <1>3, SeqMonotonic
<1> QED BY <1>2, <1>4 DEF Well

\* What is new is apart from everything there was.
LEMMA NewApart ==
  ASSUME made \in Nat, NEW new, New(new), NEW old, old \subseteq Cells(made)
  PROVE  Apart(new, old) /\ Apart(old, new)
<1>1. \A c \in old : c.made \in 0 .. made
  BY DEF Cells
<1> QED BY <1>1 DEF Apart, New

\* Every definition is of a kind that has references.
LEMMA KindOf ==
  ASSUME NEW n \in Definitions
  PROVE  Kind[n] \in DOMAIN References
BY KindAssumption DEF References

\* Every cell of a copy is new, or an interface holds it.
LEMMA CopyNew ==
  ASSUME made \in Nat, NEW cells, Well(cells, made), \A c \in cells : c.at # Flat
  PROVE  LET copy == Copy(cells, made + 1)
         IN  Well(copy, made + 1) /\ New(copy) /\ \A c \in copy : c.at # Flat
<1> SUFFICES ASSUME NEW c \in cells
             PROVE  LET d == IF c.at \in Renewed[Kind[c.of]]
                             THEN [c EXCEPT !.made = made + 1] ELSE c
                    IN  /\ d \in Cells(made + 1) /\ Refers(d) /\ d.at # Flat
                        /\ Exempt(d) \/ d.made = made + 1
  BY DEF Copy, Well, New
<1>1. c \in Cells(made) /\ c \in Cells(made + 1)
  BY Grows DEF Well
<1>2. c.of \in Definitions /\ c.at \in References[Kind[c.of]]
  BY <1>1 DEF Well, Refers, Cells
<1>3. c.at \in Renewed[Kind[c.of]] \/ Exempt(c)
  BY <1>2, KindOf, AllCovered DEF Covers, Exempt
<1>4. CASE c.at \in Renewed[Kind[c.of]]
  <2> DEFINE d == [c EXCEPT !.made = made + 1]
  <2>1. d.of = c.of /\ d.at = c.at /\ d.made = made + 1 /\ d \in Cells(made + 1)
    BY <1>1 DEF Cells
  <2> QED BY <1>4, <1>2, <2>1 DEF Refers
<1>5. CASE c.at \notin Renewed[Kind[c.of]]
  BY <1>1, <1>2, <1>3, <1>5 DEF Refers
<1> QED BY <1>4, <1>5

\* The cells that are not in the definitions themselves.
LEMMA OwnCells ==
  ASSUME made \in Nat, NEW p \in DOMAIN Chain
  PROVE  /\ Cell(p, Flat, made + 1) \in Cells(made + 1)
         /\ Cell(p, <<"Entitlement", "Limit">>, made + 1) \in Cells(made + 1)
<1>1. p \in Definitions
  BY ChainAssumption
<1>2. <<"Entitlement", "Limit">> \in Seq(Fields)
  BY DEF Fields
<1> QED BY <1>1, <1>2 DEF Cell, Cells

\* The two markers are not paths.
LEMMA NoPath == Flat \notin Seq(Fields) /\ <<"nothing">> \notin Seq(Fields) /\ <<"nothing">> # Flat
<1>1. \A p \in Seq(Fields) : p # <<>> => p[1] \in Fields
  OBVIOUS
<1>2. Flat[1] = "flat" /\ <<"nothing">>[1] = "nothing" /\ Flat # <<>> /\ <<"nothing">> # <<>>
  BY DEF Flat
<1> QED BY <1>1, <1>2 DEF Fields

\* Nothing is in no memory.
LEMMA NothingIsNoCell ==
  ASSUME NEW n, NEW cells, cells \subseteq Cells(n)
  PROVE  Nothing.cell \notin cells
BY NoPath DEF Cells, Nothing, Cell

\* The invariant holds at the start,
LEMMA InitInv == Init => Inv
<1> SUFFICES ASSUME Init PROVE Inv
  OBVIOUS
<1>1. Read = {}
  BY DEF Init, Read, ToSet
<1>2. ASSUME NEW n \in Definitions, NEW p \in References[Kind[n]]
      PROVE  Cell(n, p, 0) \in Cells(0) /\ Refers(Cell(n, p, 0)) /\ p # Flat
  <2>1. Path(p)
    BY KindOf, AllCovered DEF Covers
  <2>2. p # Flat
    BY <2>1, NoPath DEF Path
  <2> QED BY <2>1, <2>2 DEF Cell, Cells, Path, Refers
<1>3. Well(config, 0) /\ \A c \in config : c.at # Flat
  BY <1>2 DEF Init, Well, Cell
<1>4. Typed
  BY <1>1, <1>3 DEF Init, Typed, Well
<1>5. Separate
  BY <1>1 DEF Init, Separate, Apart
<1>6. WritesStayOut
  BY <1>1 DEF WritesStayOut
<1> QED BY <1>4, <1>5, <1>6 DEF Inv

(***************************************************************************)
(* The steps.                                                              *)
(***************************************************************************)
LEMMA ReadAppended ==
  ASSUME Typed, NEW new, new \subseteq Cells(made + 1), snapshots' = Append(snapshots, new)
  PROVE  /\ snapshots' \in Seq(SUBSET Cells(made + 1))
         /\ Read' = Read \cup new
<1>1. snapshots \in Seq(SUBSET Cells(made + 1)) /\ new \in SUBSET Cells(made + 1)
  BY Grows DEF Typed
<1>2. /\ snapshots' \in Seq(SUBSET Cells(made + 1))
      /\ Len(snapshots') = Len(snapshots) + 1 /\ snapshots'[Len(snapshots) + 1] = new
      /\ \A i \in 1 .. Len(snapshots) : snapshots'[i] = snapshots[i]
  BY <1>1, AppendProperties
<1>3. Len(snapshots) \in Nat /\ DOMAIN snapshots = 1 .. Len(snapshots)
      /\ DOMAIN snapshots' = 1 .. Len(snapshots) + 1
  BY <1>1, <1>2
<1>4. ToSet(snapshots') = ToSet(snapshots) \cup {new}
  BY <1>2, <1>3 DEF ToSet
<1> QED BY <1>2, <1>4 DEF Read

\* and after each step: a new snapshot,
LEMMA NewSnapshotStep == Inv /\ NewSnapshot => Inv'
<1> SUFFICES ASSUME Inv, NewSnapshot PROVE Inv'
  OBVIOUS
<1> USE DEF Inv
<1> DEFINE flat == {Cell(p, Flat, made + 1) : p \in DOMAIN Chain}
           new == CloneConfig(made + 1) \cup flat
<1>1. made \in Nat /\ made' = made + 1
  BY DEF Typed, NewSnapshot
<1>2. Well(CloneConfig(made + 1), made + 1) /\ New(CloneConfig(made + 1))
  BY <1>1, CopyNew DEF Typed, CloneConfig
<1>3. Well(flat, made + 1) /\ New(flat)
  <2>1. ASSUME NEW p \in DOMAIN Chain
        PROVE  LET c == Cell(p, Flat, made + 1)
               IN  c \in Cells(made + 1) /\ c.at = Flat /\ c.made = made + 1
    BY <1>1, OwnCells DEF Cell
  <2> QED BY <2>1 DEF Well, New, Refers
<1>4. Well(new, made + 1) /\ New(new)
  BY <1>2, <1>3 DEF Well, New
<1>5. snapshots' = Append(snapshots, new)
  BY DEF NewSnapshot
<1> HIDE DEF new
<1>6. snapshots' \in Seq(SUBSET Cells(made + 1)) /\ Read' = Read \cup new
  BY <1>4, <1>5, ReadAppended DEF Well
<1>7. UNCHANGED <<config, copies, decisions>> /\ written' = Nothing
  BY DEF NewSnapshot
<1>8. Typed'
  <2>1. Well(Read, made + 1) /\ Well(config, made + 1) /\ \A v \in copies : Well(v, made + 1)
    BY <1>1, Grows DEF Typed
  <2>2. \A d \in decisions : d.limit \subseteq Cells(made + 1)
    BY <1>1, Grows DEF Typed
  <2>3. Well(Read', made + 1)
    BY <2>1, <1>4, <1>6 DEF Well
  <2> QED BY <2>1, <2>2, <2>3, <1>1, <1>6, <1>7 DEF Typed
<1>9. Separate'
  <2>1. \A v : v \subseteq Cells(made) => Apart(v, new)
    BY <1>1, <1>4, NewApart
  <2>2. \A v : Apart(v, Read) /\ Apart(v, new) => Apart(v, Read')
    BY <1>6 DEF Apart
  <2>3. /\ config \subseteq Cells(made) /\ \A v \in copies : v \subseteq Cells(made)
        /\ \A d \in decisions : d.limit \subseteq Cells(made)
    BY DEF Typed, Well
  <2> QED BY <2>1, <2>2, <2>3, <1>7 DEF Separate
<1>10. WritesStayOut'
  <2>1. Read' \subseteq Cells(made')
    BY <1>8 DEF Typed, Well
  <2> QED BY <2>1, <1>7, NothingIsNoCell DEF WritesStayOut
<1> QED BY <1>8, <1>9, <1>10

\* new cells handed to the application,
LEMMA HandOutStep ==
  ASSUME Inv, NEW cells, Well(cells, made + 1), New(cells), HandOut(cells)
  PROVE  Inv'
<1> USE DEF Inv
<1>1. made \in Nat /\ made' = made + 1 /\ copies' = copies \cup {cells}
      /\ UNCHANGED <<config, snapshots, decisions>> /\ written' = Nothing
  BY DEF Typed, HandOut
<1>2. Read' = Read
  BY <1>1 DEF Read
<1>3. /\ config \subseteq Cells(made) /\ Read \subseteq Cells(made)
      /\ \A v \in copies : v \subseteq Cells(made)
      /\ \A d \in decisions : d.limit \subseteq Cells(made)
  BY DEF Typed, Well
<1>4. Typed'
  BY <1>1, <1>2, <1>3, Grows DEF Typed
<1>5. Separate'
  <2>1. \A v : v \subseteq Cells(made) => Apart(v, cells) /\ Apart(cells, v)
    BY <1>1, NewApart
  <2> QED BY <2>1, <1>1, <1>2, <1>3 DEF Separate
<1>6. WritesStayOut'
  BY <1>1, <1>2, <1>3, NothingIsNoCell DEF WritesStayOut
<1> QED BY <1>4, <1>5, <1>6

\* What a snapshot stores is well formed.
LEMMA StoredWell ==
  ASSUME Typed, NEW s \in ToSet(snapshots), NEW names
  PROVE  Well(Stored(s, names), made) /\ \A c \in Stored(s, names) : c.at # Flat
<1>1. Well(s, made)
  BY DEF Typed, Read, Well
<1> QED BY <1>1 DEF Stored, Of, Well

\* an accessor,
LEMMA AccessorStep == Inv /\ (GetOne \/ GetAll) => Inv'
<1> SUFFICES ASSUME Inv, NEW s \in ToSet(snapshots), NEW names,
                    HandOut(Copy(Stored(s, names), made + 1))
             PROVE  Inv'
  BY DEF GetOne, GetAll
<1>1. Well(Stored(s, names), made) /\ \A c \in Stored(s, names) : c.at # Flat
  BY StoredWell DEF Inv
<1>2. LET copy == Copy(Stored(s, names), made + 1)
      IN  Well(copy, made + 1) /\ New(copy)
  BY <1>1, CopyNew DEF Inv, Typed
<1> QED BY <1>2, HandOutStep

\* the entitlements of a plan,
LEMMA PlanEntitlementsStep == Inv /\ PlanEntitlements => Inv'
<1> SUFFICES ASSUME Inv, NEW s \in ToSet(snapshots), NEW p \in DOMAIN Chain,
                    HandOut({IF c.at \in CloneFlat THEN [c EXCEPT !.made = made + 1] ELSE c :
                               c \in Flattened(s, p)})
             PROVE  Inv'
  BY DEF PlanEntitlements
<1> DEFINE cells == {IF c.at \in CloneFlat THEN [c EXCEPT !.made = made + 1] ELSE c :
                       c \in Flattened(s, p)}
<1>1. made \in Nat /\ Well(s, made)
  BY DEF Inv, Typed, Read, Well
<1>2. ASSUME NEW c \in Flattened(s, p)
      PROVE  c \in Cells(made) /\ Refers(c) /\ c.at \in CloneFlat
  BY <1>1 DEF Flattened, Limits, Of, Well, CloneFlat
<1>3. ASSUME NEW c \in Flattened(s, p)
      PROVE  LET d == [c EXCEPT !.made = made + 1]
             IN  d \in Cells(made + 1) /\ Refers(d) /\ d.made = made + 1
  BY <1>1, <1>2, <1>3 DEF Cells, Refers
<1>4. Well(cells, made + 1) /\ New(cells)
  BY <1>2, <1>3 DEF Well, New
<1> HIDE DEF cells
<1> QED BY <1>4, HandOutStep DEF cells

\* a decision,
LEMMA EvaluateStep == Inv /\ Evaluate => Inv'
<1> SUFFICES ASSUME Inv, NEW s \in ToSet(snapshots), NEW f \in Definitions, NEW p \in DOMAIN Chain,
                    decisions' = {[variant |-> ServedVariant(s, f), limit |-> SumLimits(s, p)]},
                    made' = made + 1, UNCHANGED <<config, snapshots, copies>>, written' = Nothing
             PROVE  Inv'
  BY DEF Evaluate
<1> USE DEF Inv
<1>1. made \in Nat /\ Read' = Read
  BY DEF Typed, Read
<1>2. SumLimits(s, p) \subseteq Cells(made + 1) /\ New(SumLimits(s, p))
  <2> DEFINE c == Cell(p, <<"Entitlement", "Limit">>, made + 1)
  <2>1. c \in Cells(made + 1) /\ c.made = made + 1
    BY <1>1, OwnCells DEF Cell
  <2>2. SumLimits(s, p) = {c}
    BY DEF SumLimits
  <2> QED BY <2>1, <2>2 DEF New
<1>3. /\ config \subseteq Cells(made) /\ Read \subseteq Cells(made)
      /\ \A v \in copies : v \subseteq Cells(made)
  BY DEF Typed, Well
<1>4. Typed'
  BY <1>1, <1>2, <1>3, Grows DEF Typed
<1>5. Separate'
  <2>1. \A v : v \subseteq Cells(made) => Apart(SumLimits(s, p), v)
    BY <1>1, <1>2, NewApart
  <2> QED BY <2>1, <1>1, <1>2, <1>3 DEF Separate
<1>6. WritesStayOut'
  BY <1>1, <1>3, NothingIsNoCell DEF WritesStayOut
<1> QED BY <1>4, <1>5, <1>6

\* a write,
LEMMA WriteStep == Inv /\ Write => Inv'
<1> SUFFICES ASSUME Inv, Write PROVE Inv'
  OBVIOUS
<1> USE DEF Inv
<1>1. UNCHANGED <<config, snapshots, copies, decisions, made>> /\ Read' = Read
  BY DEF Write, Read
<1>2. Typed'
  BY <1>1 DEF Typed
<1>3. Separate'
  BY <1>1 DEF Separate
<1>4. \/ written'.through = "variant"
      \/ written'.cell \in config
      \/ \E v \in copies : written'.cell \in v
      \/ \E d \in decisions : written'.cell \in d.limit
  BY DEF Write
<1>5. WritesStayOut'
  BY <1>1, <1>4 DEF WritesStayOut, Separate, Apart
<1> QED BY <1>2, <1>3, <1>5

\* The copy that becomes the Config is apart from the others.
LEMMA ReuseStep == Inv /\ Reuse => Inv'
<1> SUFFICES ASSUME Inv, NEW v \in copies, \A c \in v : c.at # Flat,
                    config' = {c \in config : c.of \notin {d.of : d \in v}} \cup v,
                    copies' = copies \ {v},
                    UNCHANGED <<snapshots, decisions, made>>, written' = Nothing
             PROVE  Inv'
  BY DEF Reuse
<1> USE DEF Inv
<1>1. Read' = Read /\ config' \subseteq config \cup v
  BY DEF Read
<1>2. Typed'
  BY <1>1 DEF Typed, Well
<1>3. Separate'
  BY <1>1 DEF Separate, Apart
<1>4. Read \subseteq Cells(made)
  BY DEF Typed, Well
<1>5. WritesStayOut'
  BY <1>1, <1>4, NothingIsNoCell DEF WritesStayOut
<1> QED BY <1>2, <1>3, <1>5

\* a value that the application drops.
LEMMA ForgetStep == Inv /\ Forget => Inv'
<1> SUFFICES ASSUME Inv, NEW v \in copies, copies' = copies \ {v},
                    UNCHANGED <<config, snapshots, decisions, made>>, written' = Nothing
             PROVE  Inv'
  BY DEF Forget
<1> USE DEF Inv
<1>1. Read' = Read
  BY DEF Read
<1>2. Typed'
  BY <1>1 DEF Typed
<1>3. Separate'
  BY <1>1 DEF Separate
<1>4. Read \subseteq Cells(made)
  BY DEF Typed, Well
<1>5. WritesStayOut'
  BY <1>1, <1>4, NothingIsNoCell DEF WritesStayOut
<1> QED BY <1>2, <1>3, <1>5

\* The inductive invariant holds throughout.
LEMMA InvHolds == Spec => []Inv
<1>1. Inv /\ UNCHANGED vars => Inv'
  BY DEF vars, Inv, Typed, Separate, WritesStayOut, Read
<1>2. Inv /\ [Next]_vars => Inv'
  BY <1>1, NewSnapshotStep, AccessorStep, PlanEntitlementsStep, EvaluateStep, WriteStep,
     ReuseStep, ForgetStep DEF Next
<1> QED BY InitInv, <1>2, PTL DEF Spec

(***************************************************************************)
(* The theorems.                                                           *)
(***************************************************************************)
\* clone.go:12-17: nothing the application writes through its Config, through what
\* an accessor returned or through an Entitlement's Limit reaches a snapshot, at any
\* depth, however many snapshots and copies there are.
THEOREM WritesStayOutHolds == Spec => []WritesStayOut
BY InvHolds, PTL DEF Inv

\* isolation_test.go:103-104: no two values the application holds share a cell.
THEOREM HeldApartHolds == Spec => []HeldApart
<1>1. Separate => HeldApart
  <2> SUFFICES ASSUME Separate, NEW v \in Held, NEW w \in Held, v # w PROVE Apart(v, w)
    BY DEF HeldApart, Apart
  <2>1. \A x, y : Apart(x, y) => Apart(y, x)
    BY DEF Apart
  <2> QED BY <2>1 DEF Separate, Held
<1> QED BY <1>1, InvHolds, PTL DEF Inv
====
