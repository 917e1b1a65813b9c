----------------------------- MODULE FlagProofs -----------------------------
(***************************************************************************)
(* What every rollout gives and keeps, however its weights are moved, and  *)
(* how the version tests of conditions order every version.                *)
(***************************************************************************)
EXTENDS ValidationProofs, Semver

-----------------------------------------------------------------------------
(***************************************************************************)
(* Rounding: a float is rounded to itself, and a larger value to no        *)
(* smaller one.                                                            *)
(***************************************************************************)
LEMMA RoundIs ==
    ASSUME NEW x \in Exact
    PROVE  /\ x \in Int /\ Round(x) \in Floats /\ Round(x) \in Int
           /\ \A g \in Floats : Distance(x, Round(x)) <= Distance(x, g)
<1>1. /\ Floats \subseteq Int /\ IsNearest(Round(x), x) /\ Hundredth \in Nat
  BY FloatsAssumption, RolloutAssumption
<1>2. x \in Int
  <2>1. CASE x \in {f + g : f, g \in Floats}
    <3>1. PICK f \in Floats, g \in Floats : x = f + g
      BY <2>1
    <3> QED BY <1>1, <3>1
  <2>2. CASE x \in {t * Hundredth : t \in Tenants}
    <3>1. PICK t \in Tenants : x = t * Hundredth
      BY <2>2
    <3>2. t \in Int
      BY DEF Tenants
    <3> QED BY <1>1, <3>1, <3>2
  <2> QED BY <2>1, <2>2 DEF Exact
<1> QED BY <1>1, <1>2 DEF IsNearest

\* Sums of floats and numbers of hundredths are what is rounded.
LEMMA ExactHas ==
    /\ \A f, g \in Floats : f + g \in Exact
    /\ \A t \in Tenants : t * Hundredth \in Exact
BY DEF Exact

LEMMA RoundRises ==
    ASSUME NEW x \in Exact, NEW y \in Exact, x <= y
    PROVE  Round(x) <= Round(y)
<1>1. /\ x \in Int /\ y \in Int /\ Round(x) \in Int /\ Round(y) \in Int
      /\ Distance(x, Round(x)) <= Distance(x, Round(y))
      /\ Distance(y, Round(y)) <= Distance(y, Round(x))
  BY RoundIs
<1>2. CASE x = y
  BY <1>1, <1>2
<1>3. CASE x < y
  BY <1>1, <1>3 DEF Distance
<1> QED BY <1>1, <1>2, <1>3

LEMMA FloatKept ==
    ASSUME NEW f \in Floats
    PROVE  f \in Exact /\ Round(f) = f
<1>1. f \in Int /\ 0 \in Floats
  BY FloatsAssumption
<1>2. f + 0 \in Exact /\ f + 0 = f
  BY <1>1, ExactHas
<1>3. Round(f) \in Int /\ Distance(f, Round(f)) <= Distance(f, f)
  BY <1>2, RoundIs
<1> QED BY <1>1, <1>2, <1>3 DEF Distance

\* How far a value from 0 to 100 percent is from the float it is rounded to.
LEMMA RoundNear ==
    ASSUME NEW x \in Exact, x \in 0 .. Whole + Tolerance \/ Round(x) \in 0 .. Whole + Tolerance
    PROVE  Round(x) - x <= Error /\ x - Round(x) <= Error
<1>1. Distance(x, Round(x)) <= Error /\ x \in Int /\ Round(x) \in Int /\ Error \in Nat
  BY FloatsAssumption, RoundIs
<1> QED BY <1>1 DEF Distance

-----------------------------------------------------------------------------
(***************************************************************************)
(* A rollout: the boundaries are the running sums of the percentages, each *)
(* rounded, and a bucket falls in the first portion whose boundary is      *)
(* above it.                                                               *)
(***************************************************************************)
Share(split, i) == split[i].percent

\* The running sums start from nothing, and each adds its portion's share.
LEMMA SharesAre ==
    ASSUME NEW split, Len(split) \in Nat
    PROVE  /\ Shares(split)[0] = 0
           /\ \A i \in 1 .. Len(split) : Shares(split)[i] = Round(Shares(split)[i - 1] + split[i].percent)
<1> DEFINE n == Len(split)
           Steps(f, k) == f = [i \in 0 .. k |-> IF i = 0 THEN 0 ELSE Round(f[i - 1] + Share(split, i))]
           Bad == {k \in Nat : ~ \E f : Steps(f, k)}
<1>1. \E f : Steps(f, 0)
  <2>1. Steps([i \in 0 .. 0 |-> 0], 0)
    BY SMT
  <2> QED BY <2>1
<1>2. ASSUME NEW k \in Nat, NEW f, Steps(f, k) PROVE \E g : Steps(g, k + 1)
  <2> DEFINE g == [i \in 0 .. k + 1 |-> IF i = k + 1 THEN Round(f[k] + Share(split, i)) ELSE f[i]]
             h == [i \in 0 .. k + 1 |-> IF i = 0 THEN 0 ELSE Round(g[i - 1] + Share(split, i))]
  <2>1. ASSUME NEW i \in 0 .. k + 1 PROVE g[i] = h[i]
    <3>1. CASE i = k + 1
      <4>1. i # 0 /\ i - 1 = k /\ g[k] = f[k] /\ g[i] = Round(f[k] + Share(split, i))
        BY <3>1
      <4> QED BY <4>1
    <3>2. CASE i \in 0 .. k
      <4>1. f[i] = (IF i = 0 THEN 0 ELSE Round(f[i - 1] + Share(split, i)))
        BY <1>2, <3>2
      <4>2. g[i] = f[i] /\ (i # 0 => i - 1 \in 0 .. k /\ i - 1 # k + 1 /\ g[i - 1] = f[i - 1])
        BY <3>2
      <4>3. h[i] = IF i = 0 THEN 0 ELSE Round(g[i - 1] + Share(split, i))
        OBVIOUS
      <4> HIDE DEF g, h
      <4> QED BY <4>1, <4>2, <4>3
    <3> QED BY <3>1, <3>2
  <2>2. g = h
    BY <2>1
  <2>3. Steps(g, k + 1)
    BY <2>2
  <2> HIDE DEF g
  <2> QED BY <2>3
<1> HIDE DEF Steps
<1>3. Bad = {}
  <2> SUFFICES ASSUME Bad # {} PROVE FALSE
    OBVIOUS
  <2>1. PICK k \in Bad : \A j \in Bad : k <= j
    <3>1. Bad \in SUBSET Nat
      OBVIOUS
    <3> HIDE DEF Bad
    <3> QED BY <3>1, Least
  <2>2. k \in Nat /\ k # 0
    BY <1>1
  <2>3. k - 1 \in Nat /\ k - 1 + 1 = k /\ k - 1 \notin Bad
    BY <2>1, <2>2
  <2> QED BY <1>2, <2>3
<1>4. \E f : Steps(f, n)
  BY <1>3
<1>5. Steps(Shares(split), n)
  <2>1. Shares(split) = CHOOSE f : Steps(f, n)
    BY DEF Shares, Steps, Share
  <2> QED BY <1>4, <2>1
<1>6. \A i \in 0 .. n : Shares(split)[i] = IF i = 0 THEN 0 ELSE Round(Shares(split)[i - 1] + Share(split, i))
  <2>1. Shares(split) = [i \in 0 .. n |-> IF i = 0 THEN 0 ELSE Round(Shares(split)[i - 1] + Share(split, i))]
    BY <1>5 DEF Steps
  <2> QED BY <2>1
<1> QED BY <1>6 DEF Share

\* The boundaries of a split are floats, and rise where no share is negative.
LEMMA BoundariesRise ==
    ASSUME NEW split, Len(split) \in Nat, \A i \in 1 .. Len(split) : split[i].percent \in Floats
    PROVE  /\ \A i \in 0 .. Len(split) : Boundary(split, i) \in Floats /\ Boundary(split, i) \in Int
           /\ (\A i \in 1 .. Len(split) : split[i].percent >= 0) =>
                 \A i, j \in 0 .. Len(split) : i <= j => Boundary(split, i) <= Boundary(split, j)
<1> DEFINE n == Len(split)
           b(i) == Boundary(split, i)
           NotFloat == {i \in 0 .. n : b(i) \notin Floats}
<1>1. b(0) = 0 /\ \A i \in 1 .. n : b(i) = Round(b(i - 1) + split[i].percent)
  BY SharesAre DEF Boundary
<1> HIDE DEF b
<1>2. NotFloat = {}
  <2> SUFFICES ASSUME NotFloat # {} PROVE FALSE
    OBVIOUS
  <2>1. PICK k \in NotFloat : \A j \in NotFloat : k <= j
    <3>1. NotFloat \in SUBSET Nat
      OBVIOUS
    <3> HIDE DEF NotFloat
    <3> QED BY <3>1, Least
  <2>2. 0 \in Floats
    BY FloatsAssumption
  <2>3. k \in 1 .. n /\ k - 1 \in 0 .. n /\ b(k - 1) \in Floats
    BY <1>1, <2>1, <2>2
  <2>4. b(k - 1) + split[k].percent \in Exact
    BY <2>3, ExactHas
  <2> QED BY <1>1, <2>1, <2>3, <2>4, RoundIs
<1>3. \A i \in 0 .. n : b(i) \in Floats /\ b(i) \in Int
  BY <1>2, FloatsAssumption
<1>4. ASSUME \A i \in 1 .. n : split[i].percent >= 0, NEW i \in 0 .. n
      PROVE  \A j \in 0 .. n : i <= j => b(i) <= b(j)
  <2> DEFINE Low == {j \in 0 .. n : i <= j /\ ~(b(i) <= b(j))}
  <2>1. Low = {}
    <3> SUFFICES ASSUME Low # {} PROVE FALSE
      OBVIOUS
    <3>1. PICK k \in Low : \A j \in Low : k <= j
      <4>1. Low \in SUBSET Nat
        OBVIOUS
      <4> HIDE DEF Low
      <4> QED BY <4>1, Least
    <3>2. k # i /\ k \in 1 .. n /\ k - 1 \in 0 .. n /\ i <= k - 1
      BY <1>3, <3>1
    <3>3. b(i) <= b(k - 1)
      BY <3>1, <3>2
    <3>4. /\ split[k].percent \in Floats /\ split[k].percent \in Int /\ split[k].percent >= 0
          /\ b(k - 1) \in Floats /\ b(k - 1) \in Int /\ b(k) \in Int
      BY <1>3, <1>4, <3>2, FloatsAssumption
    <3>5. b(k - 1) <= b(k)
      <4>1. b(k - 1) \in Exact /\ b(k - 1) + split[k].percent \in Exact /\ Round(b(k - 1)) = b(k - 1)
        BY <3>4, ExactHas, FloatKept
      <4>2. b(k - 1) <= b(k - 1) + split[k].percent
        BY <3>4
      <4>3. Round(b(k - 1)) <= Round(b(k - 1) + split[k].percent)
        BY <4>1, <4>2, RoundRises
      <4> QED BY <1>1, <3>2, <4>1, <4>3
    <3>6. b(i) \in Int /\ ~(b(i) <= b(k))
      BY <1>3, <3>1
    <3> QED BY <3>3, <3>4, <3>5, <3>6
  <2> QED BY <2>1
<1> QED BY <1>3, <1>4 DEF b

\* Portions that take a bucket.
Hits(split, bucket) == {i \in DOMAIN split : bucket < Boundary(split, i)}

\* Hit is the first of them, if there is one.
LEMMA HitIs ==
    ASSUME NEW T, NEW split \in Seq(T), NEW bucket
    PROVE  IF Hits(split, bucket) = {} THEN Hit(split, bucket) = 0
           ELSE /\ Hit(split, bucket) \in Hits(split, bucket)
                /\ \A i \in Hits(split, bucket) : Hit(split, bucket) <= i
<1>1. Hits(split, bucket) \in SUBSET Nat
  BY DEF Hits
<1>2. Hit(split, bucket) = IF Hits(split, bucket) = {} THEN 0 ELSE Min(Hits(split, bucket))
  BY DEF Hit, Hits
<1> QED BY <1>1, <1>2, MinHolds

-----------------------------------------------------------------------------
\* The splits of the rollout: its arms, in order, with any percentages.
InOrder(s) ==
    /\ s \in Seq(Portions)
    /\ Len(s) <= Len(Arms)
    /\ \A i \in DOMAIN s : s[i].variant = Arms[i]

SplitIs(split) == InOrder(split) /\ config = ConfigWith(split) /\ (split = <<>> \/ Accepted)

\* While it is ramped the flag has such a split, which was let through.
RolloutOK == Rolling => \E split : SplitIs(split)

\* The split of such a configuration.
LEMMA SplitOf ==
    ASSUME NEW split, config = ConfigWith(split)
    PROVE  Rolling /\ Split = split
BY DEF ConfigWith, FlagWith, Rollout, Rolling, Split

\* A portion may be replaced by one for the same arm.
LEMMA Replaced ==
    ASSUME NEW s, InOrder(s), NEW i \in DOMAIN s, NEW y \in Portions, y.variant = Arms[i]
    PROVE  InOrder([s EXCEPT ![i] = y])
<1> DEFINE r == [s EXCEPT ![i] = y]
<1>1. s \in Seq(Portions) /\ Len(s) <= Len(Arms) /\ \A j \in DOMAIN s : s[j].variant = Arms[j]
  BY DEF InOrder
<1>2. r \in Seq(Portions) /\ Len(r) = Len(s) /\ DOMAIN r = DOMAIN s
  BY <1>1
<1>3. \A j \in DOMAIN s : r[j] = IF j = i THEN y ELSE s[j]
  OBVIOUS
<1> HIDE DEF r
<1>4. \A j \in DOMAIN r : r[j].variant = Arms[j]
  BY <1>1, <1>2, <1>3
<1> QED BY <1>1, <1>2, <1>4 DEF InOrder

\* A portion of such a split.
LEMMA PortionOf ==
    ASSUME NEW s, InOrder(s), NEW i \in DOMAIN s
    PROVE  /\ s[i] = [variant |-> Arms[i], percent |-> s[i].percent]
           /\ s[i].percent \in Floats /\ s[i].percent \in Int
<1>1. s \in Seq(Portions) /\ s[i].variant = Arms[i]
  BY DEF InOrder
<1>2. s[i] \in Portions
  BY <1>1
<1> QED BY <1>1, <1>2, FloatsAssumption DEF Portions

\* Percentages may be set at will.
LEMMA Moved ==
    ASSUME NEW s, InOrder(s), NEW i \in DOMAIN s, NEW m \in Floats
    PROVE  /\ InOrder([s EXCEPT ![i].percent = m])
           /\ [s EXCEPT ![i].percent = m][i].percent = m
           /\ DOMAIN [s EXCEPT ![i].percent = m] = DOMAIN s
           /\ \A j \in DOMAIN s : j # i => [s EXCEPT ![i].percent = m][j] = s[j]
<1> DEFINE y == [s[i] EXCEPT !.percent = m]
<1>1. s[i] = [variant |-> Arms[i], percent |-> s[i].percent] /\ s \in Seq(Portions)
  BY PortionOf DEF InOrder
<1>2. s[i] \in Portions
  BY <1>1
<1>3. y = [variant |-> Arms[i], percent |-> m]
  BY <1>1
<1>4. y \in Portions /\ y.variant = Arms[i] /\ y.percent = m
  BY <1>1, <1>2, <1>3 DEF Portions
<1> HIDE DEF y
<1>5. InOrder([s EXCEPT ![i] = y])
  BY <1>4, Replaced
<1>6. /\ [s EXCEPT ![i] = y][i].percent = m
      /\ DOMAIN [s EXCEPT ![i] = y] = DOMAIN s
      /\ \A j \in DOMAIN s : j # i => [s EXCEPT ![i] = y][j] = s[j]
  BY <1>1, <1>4
<1> QED BY <1>5, <1>6 DEF y

\* So may those of two neighbours at once.
LEMMA MovedTwo ==
    ASSUME NEW s, InOrder(s), NEW i \in DOMAIN s, i + 1 \in DOMAIN s,
           NEW m \in Floats, NEW n \in Floats
    PROVE  LET r == [s EXCEPT ![i].percent = m, ![i + 1].percent = n]
           IN /\ InOrder(r) /\ DOMAIN r = DOMAIN s
              /\ r[i].percent = m /\ r[i + 1].percent = n
              /\ \A j \in DOMAIN s : j \notin {i, i + 1} => r[j] = s[j]
<1> DEFINE q == [s EXCEPT ![i].percent = m]
           r == [q EXCEPT ![i + 1].percent = n]
<1>1. InOrder(q) /\ q[i].percent = m /\ DOMAIN q = DOMAIN s /\ \A j \in DOMAIN s : j # i => q[j] = s[j]
  BY Moved
<1>2. i \in Nat
  BY DEF InOrder
<1> HIDE DEF q
<1>3. /\ InOrder(r) /\ r[i + 1].percent = n /\ DOMAIN r = DOMAIN q
      /\ \A j \in DOMAIN q : j # i + 1 => r[j] = q[j]
  BY <1>1, Moved
<1> HIDE DEF r
<1>4. /\ InOrder(r) /\ DOMAIN r = DOMAIN s /\ r[i].percent = m /\ r[i + 1].percent = n
      /\ \A j \in DOMAIN s : j \notin {i, i + 1} => r[j] = s[j]
  BY <1>1, <1>2, <1>3
<1> QED BY <1>4 DEF q, r

\* The next arm joins at the end.
LEMMA Joined ==
    ASSUME NEW s, InOrder(s), Len(s) < Len(Arms), NEW n \in Floats
    PROVE  LET r == Append(s, [variant |-> Arms[Len(s) + 1], percent |-> n])
           IN /\ InOrder(r) /\ Len(r) = Len(s) + 1 /\ r[Len(s) + 1].percent = n
              /\ \A j \in DOMAIN s : r[j] = s[j]
<1> DEFINE y == [variant |-> Arms[Len(s) + 1], percent |-> n]
           r == Append(s, y)
<1>1. Arms \in Seq(ToSet(Arms)) /\ s \in Seq(Portions)
  BY RolloutAssumption DEF InOrder
<1>2. Len(s) + 1 \in DOMAIN Arms
  BY <1>1
<1>3. y \in Portions /\ y.variant = Arms[Len(s) + 1] /\ y.percent = n
  BY <1>2 DEF Portions, ToSet
<1> HIDE DEF y
<1>4. r \in Seq(Portions) /\ Len(r) = Len(s) + 1 /\ r[Len(s) + 1] = y /\ \A j \in DOMAIN s : r[j] = s[j]
  BY <1>1, <1>3
<1>5. \A j \in DOMAIN r : j \in DOMAIN s \/ j = Len(s) + 1
  BY <1>1, <1>4
<1> HIDE DEF r
<1>6. \A j \in DOMAIN r : r[j].variant = Arms[j]
  BY <1>3, <1>4, <1>5 DEF InOrder
<1>7. Len(r) <= Len(Arms)
  BY <1>1, <1>4
<1>8. InOrder(r)
  BY <1>4, <1>6, <1>7 DEF InOrder
<1> QED BY <1>3, <1>4, <1>8 DEF r, y

\* It is an invariant: every edit is checked before it is served.
LEMMA RolloutHolds == TeamSpec => []RolloutOK
<1>1. Start \/ RolloutInit => RolloutOK
  <2>1. InOrder(<<>>)
    BY RolloutAssumption DEF InOrder
  <2>2. RolloutInit => SplitIs(<<>>)
    BY <2>1 DEF RolloutInit, SplitIs
  <2>3. Start => ~Rolling
    BY DEF Start, Rolling
  <2> QED BY <2>1, <2>2, <2>3 DEF RolloutOK
<1>2. ConfigOK /\ RolloutOK /\ [Team]_config => RolloutOK'
  <2> SUFFICES ASSUME ConfigOK, RolloutOK, [Team]_config PROVE RolloutOK'
    OBVIOUS
  <2>1. CASE ~Rolling /\ EditPart
    <3>1. config \in Edited
      BY <2>1, SplitOf DEF ConfigOK
    <3>2. config.flags \in FlagLists \cup {<<>>}
      BY <3>1 DEF Edited
    <3>3. config'.flags \in FlagLists \cup {<<>>}
      BY <2>1, <3>1, <3>2 DEF EditPart, EditFeatures, EditSegments, EditFlags, EditPlans, EditAddOns,
                        Edit, Edited
    <3>4. ~Rolling'
      BY <3>3, RolloutAssumption DEF Rolling
    <3> QED BY <3>4 DEF RolloutOK
  <2>2. CASE Rolling /\ RolloutNext
    <3>1. PICK split : SplitIs(split)
      BY <2>2 DEF RolloutOK
    <3>2. Split = split /\ Percents \subseteq Floats
      BY <3>1, SplitOf, RolloutAssumption DEF SplitIs
    <3>3. ASSUME NEW next, InOrder(next), Submit(next) PROVE RolloutOK'
      BY <3>3 DEF Submit, SplitIs, Accepted, RolloutOK
    <3>4. InOrder(split) /\ split \in Seq(Portions)
      BY <3>1 DEF SplitIs, InOrder
    <3>5. CASE NextArm
      <4>1. PICK p \in Percents : Submit(Append(split, [variant |-> Arms[Len(split) + 1], percent |-> p]))
        BY <3>2, <3>5 DEF NextArm
      <4>2. InOrder(Append(split, [variant |-> Arms[Len(split) + 1], percent |-> p]))
        BY <3>2, <3>4, <3>5, Joined DEF NextArm
      <4> QED BY <3>3, <4>1, <4>2
    <3>6. ASSUME NEW i \in DOMAIN Split, NEW p \in Percents, Widen(i, p) \/ Narrow(i, p)
          PROVE  RolloutOK'
      <4>1. Submit([split EXCEPT ![i].percent = p])
        BY <3>2, <3>6 DEF Widen, Narrow
      <4>2. InOrder([split EXCEPT ![i].percent = p])
        BY <3>2, <3>4, Moved
      <4> QED BY <3>3, <4>1, <4>2
    <3>7. ASSUME NEW i \in DOMAIN Split, NEW p \in Percents, NEW q \in Percents, Shift(i, p, q)
          PROVE  RolloutOK'
      <4>1. i < Len(split) /\ Submit([split EXCEPT ![i].percent = p, ![i + 1].percent = q])
        BY <3>2, <3>7 DEF Shift
      <4>2. i + 1 \in DOMAIN split /\ i + 1 # i /\ i \in DOMAIN split
        BY <3>2, <3>4, <4>1
      <4>3. InOrder([split EXCEPT ![i].percent = p, ![i + 1].percent = q])
        BY <3>2, <3>4, <4>2, MovedTwo
      <4> QED BY <3>3, <4>1, <4>3
    <3> QED BY <2>2, <3>5, <3>6, <3>7 DEF RolloutNext
  <2>3. CASE UNCHANGED config
    BY <2>3 DEF RolloutOK, Rolling, SplitIs, Accepted
  <2> QED BY <2>1, <2>2, <2>3 DEF Team
<1> QED BY <1>1, <1>2, ConfigHolds, PTL DEF TeamSpec

\* The bucket of a tenant, as a float.
At(t) == Round(t * Hundredth)

\* Buckets are about a hundredth apart, and rise.
LEMMA BucketIs ==
    ASSUME NEW t \in Tenants
    PROVE  /\ At(t) \in Int /\ At(t) - t * Hundredth <= Error /\ t * Hundredth - At(t) <= Error
           /\ \A u \in Tenants : u <= t => At(u) <= At(t)
<1>1. /\ Buckets \in Nat /\ Hundredth \in Nat /\ Whole = Buckets * Hundredth
      /\ \A u \in Tenants : u \in Nat /\ u <= Buckets /\ u * Hundredth \in Nat
  BY RolloutAssumption DEF Tenants
<1>2. \A u \in Tenants : u * Hundredth \in Exact
  BY ExactHas
<1>3. t * Hundredth <= Buckets * Hundredth
  BY <1>1
<1>4. t * Hundredth \in 0 .. Whole + Tolerance
  BY <1>1, <1>3, FloatsAssumption
<1>5. ASSUME NEW u \in Tenants, u <= t PROVE At(u) <= At(t)
  <2>1. u * Hundredth <= t * Hundredth
    BY <1>1, <1>5
  <2> QED BY <1>2, <2>1, RoundRises DEF At
<1> QED BY <1>2, <1>4, <1>5, RoundIs, RoundNear DEF At

\* What a tenant is served under a split.
Rolled(split, t) ==
    LET hit == Hit(split, At(t))
    IN IF hit = 0 THEN Outcome(FALSE, Nil, "flag_rollout")
       ELSE Outcome(TRUE, split[hit].variant, "flag_rollout")

\* The evaluator serves the arm of the portion that the tenant's bucket falls in.
LEMMA ServedIs ==
    ASSUME NEW split, InOrder(split), NEW t \in Tenants
    PROVE  Served(ConfigWith(split), t) = Rolled(split, t)
<1> DEFINE flag == [FlagWith(split) EXCEPT !.variants = ToSet(@)]
           attrs == [tenant |-> [text |-> t, number |-> Nil, elems |-> Nil]]
<1>1. /\ flag.rules = <<>> /\ flag.variants = ToSet(Arms)
      /\ flag.default = [on |-> FALSE, variant |-> Nil, rollout |-> Rollout(split)]
  BY DEF FlagWith
<1>2. Served(ConfigWith(split), t) = Serve(flag, Feature, <<>>, attrs)
  BY DEF Served, ConfigWith
<1> HIDE DEF flag
<1>3. Serve(flag, Feature, <<>>, attrs) = ServeOne(flag, Feature, flag.default, "flag_default", attrs)
  <2>1. SelectInSeq(<<>>, LAMBDA r : \A c \in r.conditions : Match(<<>>, c, attrs)) = 0
    BY DEF SelectInSeq
  <2> QED BY <1>1, <2>1, Zenon DEF Serve
<1>4. split \in Seq(Portions)
  BY DEF InOrder
<1>5. Rollout(split) # Nil
  <2>1. Rollout(split) \in [bucketBy : {Nil}, seed : {Nil}, split : Seq(Portions)]
    BY <1>4 DEF Rollout
  <2> QED BY <2>1, RolloutAssumption
<1>6. ServeOne(flag, Feature, flag.default, "flag_default", attrs)
        = ServeRollout(flag, Feature, Rollout(split), attrs)
  BY <1>1, <1>5 DEF ServeOne
<1>7. /\ Rollout(split).bucketBy = Nil /\ Rollout(split).seed = Nil /\ Rollout(split).split = split
      /\ "tenant" \in DOMAIN attrs /\ attrs["tenant"].text = t
  BY DEF Rollout
<1>8. BucketOf(Feature, t) = At(t) /\ t # Nil
  BY RolloutAssumption, ListsAssumption DEF Tenants, BucketOf, At
<1> HIDE DEF attrs
<1>9. ServeRollout(flag, Feature, Rollout(split), attrs)
        = IF Hit(split, At(t)) = 0 THEN Outcome(FALSE, Nil, "flag_rollout")
          ELSE Outcome(TRUE, Variant(flag, split[Hit(split, At(t))].variant), "flag_rollout")
  BY <1>7, <1>8, Zenon DEF ServeRollout
<1>10. ASSUME Hit(split, At(t)) # 0
       PROVE  Variant(flag, split[Hit(split, At(t))].variant) = split[Hit(split, At(t))].variant
  <2>1. Hit(split, At(t)) \in DOMAIN split
    BY <1>4, <1>10, HitIs DEF Hits
  <2>2. split[Hit(split, At(t))] \in Portions
    BY <1>4, <2>1
  <2>3. split[Hit(split, At(t))].variant \in ToSet(Arms)
    BY <2>2 DEF Portions
  <2> QED BY <1>1, <2>3 DEF Variant
<1> QED BY <1>2, <1>3, <1>6, <1>9, <1>10, Zenon DEF Rolled

\* What validation lets through: shares that are not negative and fit, and arms
\* that can be told apart.
Fits(split) ==
    /\ \A i \in DOMAIN split : split[i].percent \in Floats /\ split[i].percent >= 0
    /\ Boundary(split, Len(split)) <= Whole + Tolerance
    /\ split # <<>> => Nil \notin ToSet(Arms) /\ \A i, j \in DOMAIN Arms : Arms[i] = Arms[j] => i = j

\* That is what NewSnapshot's check of the flag amounts to here.
LEMMA LetThrough ==
    ASSUME NEW split, InOrder(split), Validate(ConfigWith(split)) = {}
    PROVE  Fits(split)
<1> DEFINE c == ConfigWith(split)
           known == ToSet(Project(c.features, "key")) \cap ValidKeys
           segments == ToSet(Project(c.segments, "key")) \cap ValidKeys
           fl == FlagWith(split)
           variants == ToSet(fl.variants) \ {Nil}
<1>1. CheckFlags(c.flags, known, segments) = {}
  BY DEF Validate
<1>2. c.flags = <<fl>> /\ fl \in ToSet(c.flags)
  BY DEF ConfigWith, ToSet
<1>3. fl.variants = Arms /\ fl.default.rollout = Rollout(split)
  BY DEF FlagWith
<1>4. Rollout(split).split = split /\ split \in Seq(Portions)
  BY DEF Rollout, InOrder
<1>5. Rollout(split) # Nil
  <2>1. Rollout(split) \in [bucketBy : {Nil}, seed : {Nil}, split : Seq(Portions)]
    BY <1>4 DEF Rollout
  <2> QED BY <2>1, RolloutAssumption
<1> HIDE DEF c, known, segments, fl
<1>6. CheckKeys("variants.key", fl.variants, variants) = {} /\ CheckServe(fl.default, variants) = {}
  BY <1>1, <1>2, FlagOK
<1>7. ToSet(Arms) \subseteq ToSet(Arms) \ {Nil} /\ IsInjective(Arms)
  BY <1>3, <1>6, NoFault, Zenon DEF CheckKeys
<1>8. CheckSplit(split, variants) = {}
  BY <1>3, <1>4, <1>5, <1>6 DEF CheckServe
<1>9. /\ \A portion \in ToSet(split) : ~(portion.percent < 0)
      /\ ~ExceedsWhole(Shares(split)[Len(split)])
  BY <1>8, SplitOK
<1>10. \A i \in DOMAIN split : split[i].percent \in Floats /\ split[i].percent \in Int /\ split[i] \in ToSet(split)
  BY <1>4, PortionOf DEF ToSet
<1>11. \A i \in DOMAIN split : split[i].percent \in Floats /\ split[i].percent >= 0
  BY <1>9, <1>10
<1>12. /\ Boundary(split, Len(split)) \in Int /\ Whole + Tolerance \in Int
       /\ ~(Boundary(split, Len(split)) > Whole + Tolerance)
  <2>1. Boundary(split, Len(split)) \in Int
    BY <1>4, <1>10, BoundariesRise
  <2>2. Whole \in Int /\ Tolerance \in Int
    BY RolloutAssumption, FloatsAssumption
  <2> QED BY <1>9, <2>1, <2>2 DEF Boundary, ExceedsWhole
<1>13. Boundary(split, Len(split)) <= Whole + Tolerance
  BY <1>12
<1> QED BY <1>7, <1>11, <1>13 DEF Fits, IsInjective

\* The split of a rollout fits.
LEMMA FitsNow ==
    ASSUME NEW split, SplitIs(split)
    PROVE  Fits(split) /\ Split = split /\ InOrder(split)
           /\ \A t \in Tenants : Served(config, t) = Rolled(split, t)
<1>1. InOrder(split) /\ config = ConfigWith(split)
  BY DEF SplitIs
<1>2. Split = split /\ \A t \in Tenants : Served(config, t) = Rolled(split, t)
  BY <1>1, SplitOf, ServedIs
<1>3. CASE split = <<>>
  <2>1. Len(split) = 0 /\ DOMAIN split = {}
    BY <1>3
  <2>2. Boundary(split, 0) = 0
    BY <2>1, SharesAre DEF Boundary
  <2>3. 0 <= Whole + Tolerance
    BY RolloutAssumption, FloatsAssumption
  <2> QED BY <1>1, <1>2, <1>3, <2>1, <2>2, <2>3 DEF Fits
<1>4. CASE Accepted
  BY <1>1, <1>2, <1>4, LetThrough DEF Accepted
<1> QED BY <1>3, <1>4 DEF SplitIs

\* The boundaries of a split that fits, in order and within the buckets.
LEMMA Boundaries ==
    ASSUME NEW split, InOrder(split), Fits(split)
    PROVE  /\ split \in Seq(Portions) /\ Len(split) \in Nat /\ DOMAIN split = 1 .. Len(split)
           /\ \A i \in DOMAIN split : split[i].percent \in Floats /\ split[i].percent \in Nat
           /\ Boundary(split, 0) = 0 /\ Boundary(split, Len(split)) <= Whole + Tolerance
           /\ \A i \in 0 .. Len(split) : Boundary(split, i) \in Floats /\ Boundary(split, i) \in Int
           /\ \A i \in 1 .. Len(split) : Boundary(split, i) = Round(Boundary(split, i - 1) + split[i].percent)
           /\ \A i, j \in 0 .. Len(split) : i <= j => Boundary(split, i) <= Boundary(split, j)
<1>1. split \in Seq(Portions) /\ Len(split) \in Nat /\ DOMAIN split = 1 .. Len(split)
  BY DEF InOrder
<1>2. \A i \in 1 .. Len(split) :
         split[i].percent \in Floats /\ split[i].percent >= 0 /\ split[i].percent \in Nat
  <2>1. \A p \in Floats : p \in Int
    BY FloatsAssumption
  <2> QED BY <1>1, <2>1 DEF Fits
<1>3. /\ Boundary(split, 0) = 0
      /\ \A i \in 1 .. Len(split) : Boundary(split, i) = Round(Boundary(split, i - 1) + split[i].percent)
  BY <1>1, SharesAre DEF Boundary
<1>4. /\ \A i \in 0 .. Len(split) : Boundary(split, i) \in Floats /\ Boundary(split, i) \in Int
      /\ \A i, j \in 0 .. Len(split) : i <= j => Boundary(split, i) <= Boundary(split, j)
  BY <1>1, <1>2, BoundariesRise
<1> QED BY <1>1, <1>2, <1>3, <1>4 DEF Fits

\* Each is one share above the last, but for an error.
LEMMA BoundaryNear ==
    ASSUME NEW split, InOrder(split), Fits(split), NEW i \in DOMAIN split
    PROVE  /\ Boundary(split, i) \in 0 .. Whole + Tolerance
           /\ Boundary(split, i) - (Boundary(split, i - 1) + split[i].percent) <= Error
           /\ (Boundary(split, i - 1) + split[i].percent) - Boundary(split, i) <= Error
<1> DEFINE b(j) == Boundary(split, j)
           n == Len(split)
<1>1. /\ n \in Nat /\ i \in 1 .. n /\ b(0) = 0 /\ b(n) <= Whole + Tolerance
      /\ \A j \in 0 .. n : b(j) \in Floats /\ b(j) \in Int
      /\ \A j \in 1 .. n : b(j) = Round(b(j - 1) + split[j].percent)
      /\ \A j, k \in 0 .. n : j <= k => b(j) <= b(k)
      /\ split[i].percent \in Floats
  BY Boundaries
<1> HIDE DEF b, n
<1>2. /\ i \in 0 .. n /\ 0 \in 0 .. n /\ n \in 0 .. n /\ i - 1 \in 0 .. n /\ 0 <= i /\ i <= n
  BY <1>1
<1>3. b(0) <= b(i) /\ b(i) <= b(n) /\ b(i) \in Int /\ b(n) \in Int /\ b(i - 1) \in Floats
  BY <1>1, <1>2
<1>4. b(i) \in 0 .. Whole + Tolerance
  <2>1. Whole \in Int /\ Tolerance \in Int
    BY RolloutAssumption, FloatsAssumption
  <2> QED BY <1>1, <1>3, <2>1
<1>5. b(i - 1) + split[i].percent \in Exact /\ b(i) = Round(b(i - 1) + split[i].percent)
  BY <1>1, <1>3, ExactHas
<1>6. /\ b(i) - (b(i - 1) + split[i].percent) <= Error
      /\ (b(i - 1) + split[i].percent) - b(i) <= Error
  BY <1>4, <1>5, RoundNear
<1> QED BY <1>4, <1>6 DEF b

\* A portion's buckets are those from the boundary before it to its own.
LEMMA HitBetween ==
    ASSUME NEW split, InOrder(split), Fits(split), NEW i \in DOMAIN split, NEW t \in Int
    PROVE  Hit(split, t) = i <=> (t < Boundary(split, i) /\ (i # 1 => t >= Boundary(split, i - 1)))
<1> DEFINE b(j) == Boundary(split, j)
           hit == Hit(split, t)
<1>1. i \in 1 .. Len(split) /\ DOMAIN split = 1 .. Len(split) /\ Len(split) \in Nat /\ split \in Seq(Portions)
  BY Boundaries
<1>2. /\ \A j \in 0 .. Len(split) : b(j) \in Int
      /\ \A j, k \in 0 .. Len(split) : j <= k => b(j) <= b(k)
  BY Boundaries
<1>3. IF Hits(split, t) = {} THEN hit = 0
      ELSE hit \in Hits(split, t) /\ \A j \in Hits(split, t) : hit <= j
  BY <1>1, HitIs
<1>4. \A j : j \in Hits(split, t) <=> j \in 1 .. Len(split) /\ t < b(j)
  BY <1>1 DEF Hits
<1> HIDE DEF b, hit
<1>5. ASSUME hit = i PROVE t < b(i) /\ (i # 1 => t >= b(i - 1))
  <2>1. i \in Hits(split, t) /\ \A j \in Hits(split, t) : i <= j
    BY <1>1, <1>3, <1>5
  <2>2. i # 1 => i - 1 \in 1 .. Len(split) /\ i - 1 \in 0 .. Len(split) /\ i - 1 \notin Hits(split, t)
    BY <1>1, <2>1
  <2> QED BY <1>2, <1>4, <2>1, <2>2
<1>6. ASSUME t < b(i), i # 1 => t >= b(i - 1) PROVE hit = i
  <2>1. i \in Hits(split, t)
    BY <1>1, <1>4, <1>6
  <2>2. hit \in Hits(split, t) /\ hit <= i
    BY <1>3, <2>1
  <2>3. hit \in 1 .. Len(split) /\ t < b(hit)
    BY <1>4, <2>2
  <2>4. ~(hit < i)
    <3> SUFFICES ASSUME hit < i PROVE FALSE
      OBVIOUS
    <3>1. hit <= i - 1 /\ i # 1 /\ i - 1 \in 0 .. Len(split) /\ hit \in 0 .. Len(split)
      BY <1>1, <2>3
    <3>2. b(hit) <= b(i - 1) /\ t >= b(i - 1) /\ b(hit) \in Int /\ b(i - 1) \in Int
      BY <1>2, <1>6, <3>1
    <3> QED BY <2>3, <3>2
  <2> QED BY <1>1, <2>2, <2>3, <2>4
<1> QED BY <1>5, <1>6 DEF b, hit

\* A number of buckets lies below any boundary: all those up to its place.
LEMMA BucketsBelow ==
    ASSUME NEW v \in 0 .. Whole + Tolerance
    PROVE  \E k \in 0 .. Buckets :
              /\ \A t \in Tenants : At(t) < v <=> t < k
              /\ Hundredth * k < v + Error + Hundredth
              /\ v <= Hundredth * k + Error + Tolerance
<1> DEFINE NotBelow == {k \in 0 .. Buckets : k = Buckets \/ At(k) >= v}
<1>1. /\ Buckets \in Nat \ {0} /\ Hundredth \in Nat /\ Whole = Buckets * Hundredth
      /\ Error \in Nat /\ Tolerance \in Nat /\ v \in Int /\ 0 <= v /\ v <= Whole + Tolerance
      /\ Whole \in Int
  BY RolloutAssumption, FloatsAssumption
<1>2. PICK k \in NotBelow : \A j \in NotBelow : k <= j
  <2>1. NotBelow \in SUBSET Nat /\ Buckets \in NotBelow
    BY <1>1
  <2> HIDE DEF NotBelow
  <2> QED BY <2>1, Least
<1>3. k \in 0 .. Buckets /\ k \in Nat
  BY <1>1, <1>2
<1>4. \A t \in Tenants : At(t) \in Int /\ t \in 0 .. Buckets /\ t # Buckets /\ t \in Int
  BY <1>1, BucketIs DEF Tenants
<1>5. ASSUME NEW t \in Tenants PROVE At(t) < v <=> t < k
  <2>1. CASE t < k
    <3>1. t \notin NotBelow
      BY <1>2, <1>3, <1>4, <2>1
    <3> QED BY <1>1, <1>4, <2>1, <3>1
  <2>2. CASE k <= t
    <3>1. k \in Tenants /\ k # Buckets
      BY <1>1, <1>3, <1>4, <2>2 DEF Tenants
    <3>2. At(k) >= v /\ At(k) <= At(t) /\ At(k) \in Int
      BY <1>2, <1>4, <2>2, <3>1, BucketIs
    <3> QED BY <1>1, <1>3, <1>4, <2>2, <3>2
  <2> QED BY <1>3, <1>4, <2>1, <2>2
<1>6. Hundredth * k < v + Error + Hundredth
  <2>1. CASE k = 0
    <3>1. Hundredth * k = 0 /\ Hundredth # 0
      BY <1>1, <2>1, RolloutAssumption
    <3> QED BY <1>1, <3>1
  <2>2. CASE k # 0
    <3>1. PICK t \in Int : t = k - 1
      BY <1>3
    <3>2. t \in Tenants /\ k = t + 1 /\ t < k
      BY <1>1, <1>3, <2>2, <3>1 DEF Tenants
    <3>3. At(t) < v /\ At(t) \in Int /\ t * Hundredth - At(t) <= Error
      BY <1>4, <1>5, <3>2, BucketIs
    <3>4. Hundredth * k = t * Hundredth + Hundredth
      BY <1>1, <3>1, <3>2
    <3>5. PICK h \in Int : h = t * Hundredth
      BY <1>1, <3>1
    <3> QED BY <1>1, <3>3, <3>4, <3>5
  <2> QED BY <2>1, <2>2
<1>7. v <= Hundredth * k + Error + Tolerance
  <2>1. CASE k = Buckets
    <3>1. Hundredth * k = Whole
      BY <1>1, <2>1
    <3> QED BY <1>1, <3>1
  <2>2. CASE k # Buckets
    <3>1. k \in Tenants /\ At(k) >= v
      BY <1>1, <1>2, <1>3, <2>2 DEF Tenants
    <3>2. At(k) \in Int /\ At(k) - k * Hundredth <= Error
      BY <3>1, BucketIs
    <3>3. PICK h \in Int : h = k * Hundredth
      BY <1>1, <1>3
    <3>4. Hundredth * k = h
      BY <1>1, <1>3, <3>3
    <3> QED BY <1>1, <3>1, <3>2, <3>3, <3>4
  <2> QED BY <2>1, <2>2
<1> QED BY <1>3, <1>5, <1>6, <1>7

\* Whoever falls in a portion of a split is on, with that portion's arm.
LEMMA OnIs ==
    ASSUME NEW s, InOrder(s), NEW t
    PROVE  /\ Rolled(s, t).on <=> Hit(s, At(t)) # 0
           /\ Hit(s, At(t)) # 0 =>
                Hit(s, At(t)) \in DOMAIN s /\ Rolled(s, t).variant = Arms[Hit(s, At(t))]
           /\ Hit(s, At(t)) = 0 => Rolled(s, t).variant = Nil
<1>1. s \in Seq(Portions)
  BY DEF InOrder
<1>2. Hit(s, At(t)) # 0 => Hit(s, At(t)) \in DOMAIN s
  BY <1>1, HitIs DEF Hits
<1>3. Hit(s, At(t)) # 0 => s[Hit(s, At(t))].variant = Arms[Hit(s, At(t))]
  BY <1>2 DEF InOrder
<1> QED BY <1>2, <1>3 DEF Rolled, Outcome

\* A variant is served to those who fall in its portion.
LEMMA VariantIs ==
    ASSUME NEW s, InOrder(s), Fits(s), NEW i \in DOMAIN s, NEW t
    PROVE  Rolled(s, t).variant = Arms[i] <=> Hit(s, At(t)) = i
<1>1. DOMAIN s = 1 .. Len(s) /\ Len(s) \in Nat /\ s # <<>> /\ i # 0
  BY Boundaries
<1>2. /\ Arms \in Seq(ToSet(Arms)) /\ \A j \in DOMAIN s : j \in DOMAIN Arms /\ Arms[j] \in ToSet(Arms)
  BY <1>1, RolloutAssumption DEF InOrder, ToSet
<1>3. Nil \notin ToSet(Arms) /\ \A j, k \in DOMAIN Arms : Arms[j] = Arms[k] => j = k
  BY <1>1 DEF Fits
<1>4. CASE Hit(s, At(t)) = 0
  BY <1>1, <1>2, <1>3, <1>4, OnIs
<1>5. CASE Hit(s, At(t)) # 0
  BY <1>2, <1>3, <1>5, OnIs
<1> QED BY <1>4, <1>5

\* SharesWithinOne: a portion serves as many buckets as its share, give or take one.
THEOREM SharesWithinOneHolds == TeamSpec => []SharesWithinOne
<1>1. RolloutOK => SharesWithinOne
  <2> SUFFICES ASSUME RolloutOK, Rolling, NEW i \in DOMAIN Split
               PROVE  Distance(Hundredth * Cardinality(ServedTo(config, Split[i].variant)), Split[i].percent)
                        < Hundredth + 3 * Error + Tolerance
    BY DEF SharesWithinOne
  <2>1. PICK split : SplitIs(split)
    BY DEF RolloutOK
  <2>2. /\ Fits(split) /\ Split = split /\ InOrder(split) /\ i \in DOMAIN split
        /\ \A t \in Tenants : Served(config, t) = Rolled(split, t)
    BY <2>1, FitsNow
  <2> DEFINE b(j) == Boundary(split, j)
  <2>3. /\ Len(split) \in Nat /\ i \in 1 .. Len(split) /\ DOMAIN split = 1 .. Len(split)
        /\ split[i].percent \in Nat /\ b(0) = 0 /\ split[i].variant = Arms[i]
    BY <2>2, Boundaries DEF InOrder
  <2>4. /\ Hundredth \in Nat /\ Error \in Nat /\ Tolerance \in Nat /\ Whole \in Nat /\ Buckets \in Nat
    BY RolloutAssumption, FloatsAssumption
  <2>5. b(i) \in 0 .. Whole + Tolerance
    BY <2>2, BoundaryNear
  <2>6. b(i - 1) \in 0 .. Whole + Tolerance
    <3>1. CASE i = 1
      BY <2>3, <2>4, <3>1
    <3>2. CASE i # 1
      <4>1. i - 1 \in DOMAIN split
        BY <2>3, <3>2
      <4> QED BY <2>2, <4>1, BoundaryNear
    <3> QED BY <3>1, <3>2
  <2>7. b(i) - (b(i - 1) + split[i].percent) <= Error /\ (b(i - 1) + split[i].percent) - b(i) <= Error
    BY <2>2, BoundaryNear
  <2>8. PICK k \in 0 .. Buckets : /\ \A t \in Tenants : At(t) < b(i) <=> t < k
                                  /\ Hundredth * k < b(i) + Error + Hundredth
                                  /\ b(i) <= Hundredth * k + Error + Tolerance
    BY <2>5, BucketsBelow
  <2>9. PICK l \in 0 .. Buckets : /\ \A t \in Tenants : At(t) < b(i - 1) <=> t < l
                                  /\ Hundredth * l < b(i - 1) + Error + Hundredth
                                  /\ b(i - 1) <= Hundredth * l + Error + Tolerance
    BY <2>6, BucketsBelow
  <2>10. ASSUME NEW t \in Tenants
         PROVE  Served(config, t).variant = Split[i].variant <=> t \in l .. k - 1
    <3>1. At(t) \in Int /\ t \in Nat
      BY BucketIs DEF Tenants
    <3>2. Hit(split, At(t)) = i <=> (At(t) < b(i) /\ (i # 1 => At(t) >= b(i - 1)))
      BY <2>2, <3>1, HitBetween
    <3>3. i = 1 => At(t) >= b(i - 1)
      <4> SUFFICES ASSUME i = 1, ~(At(t) >= b(i - 1)) PROVE FALSE
        OBVIOUS
      <4>1. t < l /\ b(i - 1) = 0
        BY <2>3, <2>6, <2>9, <3>1
      <4>2. 0 \in Tenants /\ At(0) <= At(t) /\ At(0) = 0
        <5>1. 0 \in Tenants /\ 0 * Hundredth = 0 /\ 0 <= t
          BY <2>4, <3>1, RolloutAssumption DEF Tenants
        <5>2. At(0) = 0
          BY <5>1, FloatKept, FloatsAssumption DEF At
        <5> QED BY <3>1, <5>1, <5>2, BucketIs
      <4> QED BY <3>1, <4>1, <4>2
    <3>4. Hit(split, At(t)) = i <=> (t < k /\ ~(t < l))
      BY <2>5, <2>6, <2>8, <2>9, <3>1, <3>2, <3>3
    <3>5. Served(config, t).variant = Split[i].variant <=> Hit(split, At(t)) = i
      BY <2>2, <2>3, VariantIs
    <3> QED BY <3>1, <3>4, <3>5
  <2> HIDE DEF b
  <2>11. ServedTo(config, Split[i].variant) = l .. k - 1
    <3>1. l .. k - 1 \subseteq Tenants
      BY <2>4 DEF Tenants
    <3> QED BY <2>10, <3>1 DEF ServedTo
  <2>12. PICK c \in Int : c = Cardinality(l .. k - 1) /\ c = IF l > k - 1 THEN 0 ELSE k - l
    <3>1. k - 1 \in Int /\ l \in Int /\ (k - 1) - l + 1 = k - l
      BY <2>4
    <3>2. Cardinality(l .. k - 1) = IF l > k - 1 THEN 0 ELSE (k - 1) - l + 1
      BY <3>1, FS_Interval
    <3> QED BY <3>1, <3>2
  <2>13. PICK hk \in Int, hl \in Int, hc \in Int, p \in Int, x \in Int, y \in Int :
           /\ hk = Hundredth * k /\ hl = Hundredth * l /\ hc = Hundredth * c
           /\ p = split[i].percent /\ x = b(i - 1) /\ y = b(i)
    BY <2>3, <2>4, <2>5, <2>6, <2>12
  <2>14. IF l <= k THEN hc = hk - hl ELSE hc = 0 /\ hk + Hundredth <= hl
    <3>1. CASE l <= k
      <4>1. c = k - l
        BY <2>12, <3>1
      <4> QED BY <2>4, <2>13, <3>1, <4>1
    <3>2. CASE k < l
      <4>1. c = 0 /\ Hundredth * (k + 1) <= Hundredth * l
        BY <2>4, <2>12, <3>2
      <4> QED BY <2>4, <2>13, <3>2, <4>1
    <3> QED BY <3>1, <3>2
  <2>15. Distance(hc, p) < Hundredth + 3 * Error + Tolerance
    <3>1. /\ hk < y + Error + Hundredth /\ y <= hk + Error + Tolerance
          /\ hl < x + Error + Hundredth /\ x <= hl + Error + Tolerance
          /\ y - (x + p) <= Error /\ (x + p) - y <= Error /\ p >= 0
      BY <2>3, <2>7, <2>8, <2>9, <2>13
    <3> QED BY <2>4, <2>14, <3>1 DEF Distance
  <2> QED BY <2>2, <2>11, <2>12, <2>13, <2>15
<1> QED BY <1>1, RolloutHolds, PTL

-----------------------------------------------------------------------------
\* Two splits are served alike to a tenant that falls in one portion of both.
LEMMA SameArm ==
    ASSUME NEW s, InOrder(s), NEW r, InOrder(r), NEW t, Hit(s, At(t)) = Hit(r, At(t))
    PROVE  Rolled(r, t) = Rolled(s, t)
<1>1. CASE Hit(s, At(t)) = 0
  BY <1>1 DEF Rolled
<1>2. CASE Hit(s, At(t)) # 0
  <2>1. s \in Seq(Portions) /\ r \in Seq(Portions)
    BY DEF InOrder
  <2>2. Hit(s, At(t)) \in DOMAIN s /\ Hit(r, At(t)) \in DOMAIN r
    BY <1>2, <2>1, HitIs DEF Hits
  <2>3. s[Hit(s, At(t))].variant = r[Hit(r, At(t))].variant
    BY <2>2 DEF InOrder
  <2> QED BY <1>2, <2>3 DEF Rolled
<1> QED BY <1>1, <1>2

\* A bucket below a boundary falls in some portion, at most in that one.
LEMMA HitBelow ==
    ASSUME NEW s, InOrder(s), NEW t, NEW i \in DOMAIN s, t < Boundary(s, i)
    PROVE  Hit(s, t) \in DOMAIN s /\ Hit(s, t) # 0 /\ Hit(s, t) <= i
<1>1. s \in Seq(Portions) /\ DOMAIN s = 1 .. Len(s) /\ Len(s) \in Nat
  BY DEF InOrder
<1>2. i \in Hits(s, t)
  BY DEF Hits
<1>3. Hit(s, t) \in Hits(s, t) /\ Hit(s, t) <= i
  BY <1>1, <1>2, HitIs
<1>4. Hit(s, t) \in DOMAIN s
  BY <1>3 DEF Hits
<1> QED BY <1>1, <1>3, <1>4

\* Where the boundaries up to a portion stay, so does who falls in it.
LEMMA HitStays ==
    ASSUME NEW s, InOrder(s), Fits(s), NEW r, InOrder(r), Fits(r), NEW t \in Int,
           NEW i \in DOMAIN s, i \in DOMAIN r, Hit(s, t) = i, t < Boundary(r, i),
           \A j \in 0 .. i - 1 : Boundary(r, j) = Boundary(s, j)
    PROVE  Hit(r, t) = i
<1>1. i # 1 => t >= Boundary(s, i - 1)
  BY HitBetween
<1>2. i \in Nat /\ i >= 1
  BY Boundaries
<1>3. i # 1 => t >= Boundary(r, i - 1)
  BY <1>1, <1>2
<1> QED BY <1>3, HitBetween

\* An edit that is let through is served from the next step on.
LEMMA Submitted ==
    ASSUME NEW r, InOrder(r), Submit(r)
    PROVE  Fits(r) /\ \A t \in Tenants : Served(config', t) = Rolled(r, t)
<1>1. config' = ConfigWith(r) /\ Validate(ConfigWith(r)) = {}
  BY DEF Submit
<1> QED BY <1>1, LetThrough, ServedIs

\* Two splits with the same first shares have the same first boundaries.
LEMMA SameStart ==
    ASSUME NEW s, InOrder(s), Fits(s), NEW r, InOrder(r), Fits(r), NEW hi \in Nat,
           hi <= Len(s), hi <= Len(r), \A i \in 1 .. hi : r[i].percent = s[i].percent
    PROVE  \A i \in 0 .. hi : Boundary(r, i) = Boundary(s, i)
<1> DEFINE Apart == {i \in 0 .. hi : Boundary(r, i) # Boundary(s, i)}
<1> SUFFICES ASSUME Apart # {} PROVE FALSE
  OBVIOUS
<1>1. PICK k \in Apart : \A j \in Apart : k <= j
  <2>1. Apart \in SUBSET Nat
    OBVIOUS
  <2> HIDE DEF Apart
  <2> QED BY <2>1, Least
<1>2. Len(s) \in Nat /\ Len(r) \in Nat /\ Boundary(s, 0) = 0 /\ Boundary(r, 0) = 0
  BY Boundaries
<1>3. /\ k \in 1 .. hi /\ k \in 1 .. Len(s) /\ k \in 1 .. Len(r) /\ k - 1 \in 0 .. hi
      /\ Boundary(r, k) # Boundary(s, k)
  BY <1>1, <1>2
<1>4. Boundary(r, k - 1) = Boundary(s, k - 1) /\ r[k].percent = s[k].percent
  BY <1>1, <1>3
<1>5. /\ Boundary(s, k) = Round(Boundary(s, k - 1) + s[k].percent)
      /\ Boundary(r, k) = Round(Boundary(r, k - 1) + r[k].percent)
  BY <1>3, Boundaries
<1> QED BY <1>3, <1>4, <1>5

\* Where no share from a portion on shrinks, no boundary from there on falls.
LEMMA BoundariesFollow ==
    ASSUME NEW s, InOrder(s), Fits(s), NEW r, InOrder(r), Fits(r), Len(r) = Len(s),
           NEW i \in DOMAIN s, Boundary(s, i - 1) <= Boundary(r, i - 1),
           \A j \in i .. Len(s) : s[j].percent <= r[j].percent
    PROVE  \A j \in i .. Len(s) : Boundary(s, j) <= Boundary(r, j)
<1> DEFINE Fallen == {j \in i .. Len(s) : ~(Boundary(s, j) <= Boundary(r, j))}
<1> SUFFICES ASSUME Fallen # {} PROVE FALSE
  OBVIOUS
<1>1. Len(s) \in Nat /\ i \in 1 .. Len(s)
  BY Boundaries
<1>2. PICK k \in Fallen : \A j \in Fallen : k <= j
  <2>1. Fallen \in SUBSET Nat
    BY <1>1
  <2> HIDE DEF Fallen
  <2> QED BY <2>1, Least
<1>3. /\ k \in i .. Len(s) /\ k \in 1 .. Len(s) /\ k \in DOMAIN s /\ k - 1 \in 0 .. Len(s)
      /\ ~(Boundary(s, k) <= Boundary(r, k))
  BY <1>1, <1>2, Boundaries
<1>4. Boundary(s, k - 1) <= Boundary(r, k - 1)
  <2>1. CASE k = i
    BY <2>1
  <2>2. CASE k # i
    <3>1. k - 1 \in i .. Len(s) /\ ~(k <= k - 1)
      BY <1>1, <1>3, <2>2
    <3> QED BY <1>2, <3>1
  <2> QED BY <2>1, <2>2
<1>5. /\ Boundary(s, k) = Round(Boundary(s, k - 1) + s[k].percent)
      /\ Boundary(s, k - 1) \in Floats /\ Boundary(s, k - 1) \in Int
      /\ s[k].percent \in Floats /\ s[k].percent \in Int
  <2>1. s[k].percent \in Floats /\ s[k].percent \in Nat
    BY <1>3, Boundaries
  <2>2. /\ Boundary(s, k) = Round(Boundary(s, k - 1) + s[k].percent)
        /\ Boundary(s, k - 1) \in Floats /\ Boundary(s, k - 1) \in Int
    BY <1>3, Boundaries
  <2> QED BY <2>1, <2>2
<1>6. /\ Boundary(r, k) = Round(Boundary(r, k - 1) + r[k].percent)
      /\ Boundary(r, k - 1) \in Floats /\ Boundary(r, k - 1) \in Int
      /\ r[k].percent \in Floats /\ r[k].percent \in Int
  <2>1. k \in DOMAIN r /\ k \in 1 .. Len(r) /\ k - 1 \in 0 .. Len(r)
    BY <1>3, Boundaries
  <2>2. r[k].percent \in Floats /\ r[k].percent \in Nat
    BY <2>1, Boundaries
  <2>3. /\ Boundary(r, k) = Round(Boundary(r, k - 1) + r[k].percent)
        /\ Boundary(r, k - 1) \in Floats /\ Boundary(r, k - 1) \in Int
    BY <2>1, Boundaries
  <2> QED BY <2>2, <2>3
<1>7. Boundary(s, k - 1) + s[k].percent <= Boundary(r, k - 1) + r[k].percent
  BY <1>3, <1>4, <1>5, <1>6
<1>8. Boundary(s, k - 1) + s[k].percent \in Exact /\ Boundary(r, k - 1) + r[k].percent \in Exact
  BY <1>5, <1>6, ExactHas
<1> QED BY <1>3, <1>5, <1>6, <1>7, <1>8, RoundRises

\* A new portion leaves all tenants that have the feature theirs.
LEMMA Joins ==
    ASSUME NEW s, InOrder(s), Fits(s), NEW r, InOrder(r), Fits(r), Len(r) = Len(s) + 1,
           \A j \in DOMAIN s : r[j] = s[j], NEW t \in Tenants, Hit(s, At(t)) # 0
    PROVE  Rolled(r, t) = Rolled(s, t)
<1>1. Len(s) \in Nat /\ DOMAIN s = 1 .. Len(s) /\ Len(r) \in Nat /\ DOMAIN r = 1 .. Len(r)
  BY Boundaries
<1>2. \A j \in 0 .. Len(s) : Boundary(r, j) = Boundary(s, j)
  <2>1. Len(s) <= Len(s) /\ Len(s) <= Len(r) /\ \A j \in 1 .. Len(s) : r[j].percent = s[j].percent
    BY <1>1
  <2> QED BY <1>1, <2>1, SameStart
<1>3. PICK i \in DOMAIN s : Hit(s, At(t)) = i
  BY OnIs
<1>4. At(t) \in Int /\ At(t) < Boundary(s, i)
  BY <1>3, BucketIs, HitBetween
<1>5. i \in 1 .. Len(s) /\ i \in 0 .. Len(s) /\ i \in DOMAIN r /\ \A j \in 0 .. i - 1 : j \in 0 .. Len(s)
  BY <1>1, <1>3
<1>6. At(t) < Boundary(r, i) /\ \A j \in 0 .. i - 1 : Boundary(r, j) = Boundary(s, j)
  BY <1>2, <1>4, <1>5
<1>7. Hit(r, At(t)) = i
  BY <1>3, <1>4, <1>5, <1>6, HitStays
<1> QED BY <1>3, <1>7, SameArm

\* A wider portion takes the feature from nobody, and the last one's growth
\* leaves the others theirs too.
LEMMA Widens ==
    ASSUME NEW s, InOrder(s), Fits(s), NEW r, InOrder(r), Fits(r), DOMAIN r = DOMAIN s,
           NEW i \in DOMAIN s, s[i].percent <= r[i].percent,
           \A j \in DOMAIN s : j # i => r[j] = s[j], NEW t \in Tenants, Hit(s, At(t)) # 0
    PROVE  Hit(r, At(t)) # 0 /\ (i = Len(s) => Rolled(r, t) = Rolled(s, t))
<1>1. /\ Len(s) \in Nat /\ DOMAIN s = 1 .. Len(s) /\ Len(r) \in Nat /\ DOMAIN r = 1 .. Len(r)
      /\ \A j \in DOMAIN s : s[j].percent \in Int
      /\ \A j \in 0 .. Len(s) : Boundary(s, j) \in Int
      /\ \A j \in 0 .. Len(r) : Boundary(r, j) \in Int
  BY Boundaries
<1>2. /\ Len(r) = Len(s) /\ i \in 1 .. Len(s) /\ i - 1 \in Nat /\ i <= Len(s)
      /\ i - 1 \in 0 .. Len(s) /\ i - 1 \in 0 .. i - 1
  BY <1>1
<1>3. \A j \in 0 .. i - 1 : Boundary(r, j) = Boundary(s, j)
  <2>1. i - 1 <= Len(s) /\ i - 1 <= Len(r) /\ \A j \in 1 .. i - 1 : r[j].percent = s[j].percent
    <3>1. ASSUME NEW j \in 1 .. i - 1 PROVE r[j] = s[j]
      <4>1. j # i /\ j \in DOMAIN s
        BY <1>1, <1>2
      <4> QED BY <4>1
    <3> QED BY <1>2, <3>1
  <2> QED BY <1>2, <2>1, SameStart
<1>4. \A j \in i .. Len(s) : Boundary(s, j) <= Boundary(r, j)
  <2>1. ASSUME NEW j \in i .. Len(s) PROVE s[j].percent <= r[j].percent
    <3>1. j \in DOMAIN s /\ s[j].percent \in Int
      BY <1>1, <1>2
    <3>2. CASE j = i
      BY <3>2
    <3>3. CASE j # i
      <4>1. r[j].percent = s[j].percent
        BY <3>1, <3>3
      <4> QED BY <3>1, <4>1
    <3> QED BY <3>2, <3>3
  <2>2. Boundary(s, i - 1) <= Boundary(r, i - 1)
    BY <1>1, <1>2, <1>3
  <2> QED BY <1>2, <2>1, <2>2, BoundariesFollow
<1>5. PICK h \in DOMAIN s : Hit(s, At(t)) = h
  BY OnIs
<1>6. At(t) \in Int /\ At(t) < Boundary(s, h) /\ h \in 1 .. Len(s) /\ h \in DOMAIN r
  <2>1. At(t) \in Int
    BY BucketIs
  <2> QED BY <1>1, <1>5, <2>1, HitBetween
<1>7. At(t) < Boundary(r, h)
  <2>1. Boundary(r, h) \in Int /\ Boundary(s, h) \in Int
    BY <1>1, <1>2, <1>6
  <2>2. Boundary(s, h) <= Boundary(r, h)
    <3>1. h \in 0 .. i - 1 \/ h \in i .. Len(s)
      BY <1>2, <1>6
    <3> QED BY <1>3, <1>4, <2>1, <3>1
  <2> QED BY <1>6, <2>1, <2>2
<1>8. Hit(r, At(t)) # 0
  BY <1>6, <1>7, HitBelow
<1>9. ASSUME i = Len(s) PROVE Rolled(r, t) = Rolled(s, t)
  <2>1. \A j \in 0 .. h - 1 : Boundary(r, j) = Boundary(s, j)
    BY <1>3, <1>6, <1>9
  <2>2. Hit(r, At(t)) = h
    BY <1>5, <1>6, <1>7, <2>1, HitStays
  <2> QED BY <1>5, <2>2, SameArm
<1> QED BY <1>8, <1>9

\* So the step that adds an arm keeps everyone's.
LEMMA ArmJoins ==
    ASSUME NEW s, SplitIs(s), NextArm, NEW t \in Tenants
    PROVE  Keeps(t)
<1>1. /\ Fits(s) /\ Split = s /\ InOrder(s) /\ Served(config, t) = Rolled(s, t)
  BY FitsNow
<1>2. PICK p \in Percents : Submit(Append(s, [variant |-> Arms[Len(s) + 1], percent |-> p]))
  BY <1>1 DEF NextArm
<1>3. Len(s) < Len(Arms) /\ p \in Floats
  BY <1>1, RolloutAssumption DEF NextArm
<1>4. PICK r : /\ Submit(r) /\ InOrder(r) /\ Len(r) = Len(s) + 1
               /\ \A j \in DOMAIN s : r[j] = s[j]
  <2> DEFINE r == Append(s, [variant |-> Arms[Len(s) + 1], percent |-> p])
  <2>1. InOrder(r) /\ Len(r) = Len(s) + 1 /\ \A j \in DOMAIN s : r[j] = s[j]
    BY <1>1, <1>3, Joined
  <2>2. Submit(r)
    BY <1>2
  <2> HIDE DEF r
  <2> QED BY <2>1, <2>2
<1>5. Fits(r) /\ Served(config', t) = Rolled(r, t)
  BY <1>4, Submitted
<1>6. Rolled(s, t).on => Rolled(r, t) = Rolled(s, t)
  BY <1>1, <1>4, <1>5, OnIs, Joins
<1> QED BY <1>1, <1>5, <1>6 DEF Keeps

\* So the step that widens one keeps everyone on.
LEMMA ArmWidens ==
    ASSUME NEW s, SplitIs(s), NEW i \in DOMAIN s, NEW p \in Percents, Widen(i, p), NEW t \in Tenants
    PROVE  KeepsOn(t) /\ (i = Len(s) => Keeps(t))
<1>1. Fits(s) /\ Split = s /\ InOrder(s) /\ Served(config, t) = Rolled(s, t)
  BY FitsNow
<1>2. p \in Floats /\ p \in Int /\ s[i].percent \in Int
  BY <1>1, RolloutAssumption, FloatsAssumption, PortionOf
<1>3. Submit([s EXCEPT ![i].percent = p]) /\ s[i].percent <= p
  BY <1>1, <1>2 DEF Widen
<1>4. PICK r : /\ Submit(r) /\ InOrder(r) /\ DOMAIN r = DOMAIN s /\ r[i].percent = p
               /\ \A j \in DOMAIN s : j # i => r[j] = s[j]
  BY <1>1, <1>2, <1>3, Moved
<1>5. Fits(r) /\ Served(config', t) = Rolled(r, t)
  BY <1>4, Submitted
<1>6. Hit(s, At(t)) # 0 => Hit(r, At(t)) # 0 /\ (i = Len(s) => Rolled(r, t) = Rolled(s, t))
  BY <1>1, <1>3, <1>4, <1>5, Widens
<1>7. (Rolled(s, t).on <=> Hit(s, At(t)) # 0) /\ (Rolled(r, t).on <=> Hit(r, At(t)) # 0)
  BY <1>1, <1>4, OnIs
<1> QED BY <1>1, <1>5, <1>6, <1>7 DEF KeepsOn, Keeps

\* RampKeepsTenants: widening a rollout takes the feature from nobody.
THEOREM RampKeepsTenantsHolds == TeamSpec => RampKeepsTenants
<1>1. RolloutOK => [Rolling =>
         /\ NextArm => \A t \in Tenants : Keeps(t)
         /\ \A i \in DOMAIN Split : \A p \in Percents : Widen(i, p) =>
               \A t \in Tenants : KeepsOn(t) /\ (i = Len(Split) => Keeps(t))]_config
  <2> SUFFICES ASSUME RolloutOK, Rolling
               PROVE  /\ NextArm => \A t \in Tenants : Keeps(t)
                      /\ \A i \in DOMAIN Split : \A p \in Percents : Widen(i, p) =>
                            \A t \in Tenants : KeepsOn(t) /\ (i = Len(Split) => Keeps(t))
    OBVIOUS
  <2>1. PICK s : SplitIs(s)
    BY DEF RolloutOK
  <2>2. Split = s
    BY <2>1, FitsNow
  <2>3. NextArm => \A t \in Tenants : Keeps(t)
    BY <2>1, ArmJoins
  <2>4. ASSUME NEW i \in DOMAIN Split, NEW p \in Percents, Widen(i, p), NEW t \in Tenants
        PROVE  KeepsOn(t) /\ (i = Len(Split) => Keeps(t))
    BY <2>1, <2>2, <2>4, ArmWidens
  <2> QED BY <2>3, <2>4
<1> QED BY <1>1, RolloutHolds, PTL DEF RampKeepsTenants

-----------------------------------------------------------------------------
\* What n roundings of either of two sums, and four of shares, may part them by.
Drift(n) == (4 + 2 * n) * Error

LEMMA DriftIs ==
    ASSUME NEW n \in Nat
    PROVE  /\ Drift(n) \in Nat /\ Drift(n + 1) = Drift(n) + 2 * Error
           /\ \A m \in Nat : n <= m => Drift(n) <= Drift(m)
<1>1. Error \in Nat /\ Hundredth \in Nat /\ (6 + 2 * Len(Arms)) * Error < Hundredth
  BY FloatsAssumption, RolloutAssumption
<1>2. Drift(n) \in Nat /\ Drift(n + 1) = Drift(n) + 2 * Error
  BY <1>1 DEF Drift
<1>3. ASSUME NEW m \in Nat, n <= m PROVE Drift(n) <= Drift(m)
  <2>1. 4 + 2 * n <= 4 + 2 * m /\ 4 + 2 * n \in Nat /\ 4 + 2 * m \in Nat
    BY <1>3
  <2> QED BY <1>1, <2>1 DEF Drift
<1> QED BY <1>2, <1>3

LEMMA DriftsAre ==
    Drift(2) = 8 * Error /\ Drift(Len(Arms)) \in Nat /\ Drift(Len(Arms)) + 2 * Error < Hundredth
<1>1. Error \in Nat /\ Hundredth \in Nat /\ (6 + 2 * Len(Arms)) * Error < Hundredth
  BY FloatsAssumption, RolloutAssumption
<1>2. PICK l \in Nat : l = Len(Arms)
  BY RolloutAssumption
<1>3. (6 + 2 * l) * Error = (4 + 2 * l) * Error + 2 * Error /\ (4 + 2 * l) * Error \in Nat
  BY <1>1, <1>2
<1> QED BY <1>1, <1>2, <1>3 DEF Drift

\* How two splits of the same arms differ when portion i of the first has given
\* to the next.
Given(s, r, i) ==
    /\ InOrder(s) /\ Fits(s) /\ InOrder(r) /\ Fits(r) /\ Len(r) = Len(s)
    /\ i \in DOMAIN s /\ i + 1 \in DOMAIN s
    /\ r[i].percent <= s[i].percent
    /\ Distance(r[i].percent + r[i + 1].percent, s[i].percent + s[i + 1].percent) <= 4 * Error
    /\ \A j \in DOMAIN s : j \notin {i, i + 1} => r[j].percent = s[j].percent

\* The portions and boundaries of both.
LEMMA GivenIs ==
    ASSUME NEW s, NEW r, NEW i, Given(s, r, i)
    PROVE  /\ Len(s) \in Nat /\ Len(r) = Len(s) /\ DOMAIN s = 1 .. Len(s) /\ DOMAIN r = 1 .. Len(s)
           /\ i \in 1 .. Len(s) /\ i + 1 \in 1 .. Len(s) /\ i \in Nat
           /\ \A j \in 0 .. Len(s) : Boundary(s, j) \in Int /\ Boundary(r, j) \in Int
           /\ \A j \in 1 .. Len(s) : /\ s[j].percent \in Floats /\ s[j].percent \in Int
                                     /\ r[j].percent \in Floats /\ r[j].percent \in Int
<1>1. /\ Len(s) \in Nat /\ DOMAIN s = 1 .. Len(s)
      /\ \A j \in 0 .. Len(s) : Boundary(s, j) \in Int
      /\ \A j \in DOMAIN s : s[j].percent \in Floats /\ s[j].percent \in Nat
  BY Boundaries DEF Given
<1>2. /\ Len(r) = Len(s) /\ DOMAIN r = 1 .. Len(r)
      /\ \A j \in 0 .. Len(r) : Boundary(r, j) \in Int
      /\ \A j \in DOMAIN r : r[j].percent \in Floats /\ r[j].percent \in Nat
  BY Boundaries DEF Given
<1>3. i \in 1 .. Len(s) /\ i + 1 \in 1 .. Len(s) /\ i \in Nat
  BY <1>1 DEF Given
<1>4. \A j \in 0 .. Len(s) : Boundary(s, j) \in Int /\ Boundary(r, j) \in Int
  BY <1>1, <1>2
<1>5. ASSUME NEW j \in 1 .. Len(s)
      PROVE  /\ s[j].percent \in Floats /\ s[j].percent \in Int
             /\ r[j].percent \in Floats /\ r[j].percent \in Int
  <2>1. s[j].percent \in Floats /\ s[j].percent \in Nat
    BY <1>1
  <2>2. r[j].percent \in Floats /\ r[j].percent \in Nat
    BY <1>2
  <2> QED BY <2>1, <2>2
<1>6. DOMAIN r = 1 .. Len(s)
  BY <1>2
<1> QED BY <1>1, <1>2, <1>3, <1>4, <1>5, <1>6

\* The boundaries before the two stay, and the one between them does not rise.
LEMMA GivenBefore ==
    ASSUME NEW s, NEW r, NEW i, Given(s, r, i)
    PROVE  /\ \A j \in 0 .. i - 1 : Boundary(r, j) = Boundary(s, j)
           /\ Boundary(r, i) <= Boundary(s, i)
<1>1. /\ Len(s) \in Nat /\ Len(r) = Len(s) /\ DOMAIN s = 1 .. Len(s) /\ DOMAIN r = 1 .. Len(s)
      /\ i \in 1 .. Len(s) /\ i \in Nat
      /\ \A j \in 1 .. Len(s) : /\ s[j].percent \in Floats /\ s[j].percent \in Int
                                /\ r[j].percent \in Floats /\ r[j].percent \in Int
  BY GivenIs
<1>2. InOrder(s) /\ Fits(s) /\ InOrder(r) /\ Fits(r) /\ r[i].percent <= s[i].percent
  BY DEF Given
<1>3. \A j \in 0 .. i - 1 : Boundary(r, j) = Boundary(s, j)
  <2>1. ASSUME NEW j \in 1 .. i - 1 PROVE r[j].percent = s[j].percent
    <3>1. j \notin {i, i + 1} /\ j \in DOMAIN s
      BY <1>1
    <3> QED BY <3>1 DEF Given
  <2>2. i - 1 \in Nat /\ i - 1 <= Len(s) /\ i - 1 <= Len(r)
    BY <1>1
  <2> QED BY <1>2, <2>1, <2>2, SameStart
<1>4. /\ i - 1 \in 0 .. i - 1 /\ i - 1 \in 0 .. Len(s) /\ i \in 1 .. Len(r) /\ i - 1 \in 0 .. Len(r)
  BY <1>1
<1>5. /\ Boundary(s, i) = Round(Boundary(s, i - 1) + s[i].percent)
      /\ Boundary(s, i - 1) \in Floats /\ Boundary(s, i - 1) \in Int
  BY <1>1, <1>2, <1>4, Boundaries
<1>6. Boundary(r, i) = Round(Boundary(r, i - 1) + r[i].percent)
  BY <1>2, <1>4, Boundaries
<1>7. Boundary(r, i - 1) = Boundary(s, i - 1)
  BY <1>3, <1>4
<1>8. /\ s[i].percent \in Floats /\ s[i].percent \in Int /\ r[i].percent \in Floats /\ r[i].percent \in Int
  BY <1>1
<1>9. /\ Boundary(s, i - 1) + s[i].percent \in Exact /\ Boundary(s, i - 1) + r[i].percent \in Exact
      /\ Boundary(s, i - 1) + r[i].percent <= Boundary(s, i - 1) + s[i].percent
  BY <1>2, <1>5, <1>8, ExactHas
<1>10. Round(Boundary(s, i - 1) + r[i].percent) <= Round(Boundary(s, i - 1) + s[i].percent)
  BY <1>9, RoundRises
<1> QED BY <1>3, <1>5, <1>6, <1>7, <1>10

\* Each boundary after them moves by less than what parts two buckets.
LEMMA GivenAfter ==
    ASSUME NEW s, NEW r, NEW i, Given(s, r, i)
    PROVE  \A j \in i + 1 .. Len(s) :
              /\ Boundary(r, j) - Boundary(s, j) <= Drift(Len(Arms))
              /\ Boundary(s, j) - Boundary(r, j) <= Drift(Len(Arms))
<1> DEFINE b(j) == Boundary(s, j)
           c(j) == Boundary(r, j)
           n == Len(s)
           Off(j) == c(j) - b(j) <= Drift(j - i + 1) /\ b(j) - c(j) <= Drift(j - i + 1)
           Bad == {j \in i + 1 .. n : ~Off(j)}
<1>1. /\ n \in Nat /\ DOMAIN s = 1 .. n /\ DOMAIN r = 1 .. n
      /\ i \in 1 .. n /\ i + 1 \in 1 .. n /\ i \in Nat
      /\ \A j \in 0 .. n : b(j) \in Int /\ c(j) \in Int
      /\ \A j \in 1 .. n : s[j].percent \in Int /\ r[j].percent \in Int
  BY GivenIs
<1>2. Error \in Nat
  BY FloatsAssumption
<1>3. ASSUME NEW j \in 1 .. n
      PROVE  /\ b(j) - (b(j - 1) + s[j].percent) <= Error /\ (b(j - 1) + s[j].percent) - b(j) <= Error
             /\ c(j) - (c(j - 1) + r[j].percent) <= Error /\ (c(j - 1) + r[j].percent) - c(j) <= Error
  BY <1>1, BoundaryNear DEF Given
<1>4. c(i - 1) = b(i - 1)
  <2>1. i - 1 \in 0 .. i - 1
    BY <1>1
  <2> QED BY <2>1, GivenBefore
<1> HIDE DEF b, c, n
<1>5. Off(i + 1)
  <2>1. PICK k \in Int : k = i + 1
    BY <1>1
  <2>2. PICK b0 \in Int, b1 \in Int, b2 \in Int, c1 \in Int, c2 \in Int :
           b0 = b(i - 1) /\ b1 = b(i) /\ b2 = b(k) /\ c1 = c(i) /\ c2 = c(k)
    <3>1. i - 1 \in 0 .. n /\ i \in 0 .. n /\ k \in 0 .. n
      BY <1>1, <2>1
    <3> QED BY <1>1, <3>1
  <2>3. PICK s1 \in Int, s2 \in Int, r1 \in Int, r2 \in Int :
           s1 = s[i].percent /\ s2 = s[k].percent /\ r1 = r[i].percent /\ r2 = r[k].percent
    BY <1>1, <2>1
  <2>4. Distance(r1 + r2, s1 + s2) <= 4 * Error
    BY <2>1, <2>3 DEF Given
  <2>5. /\ b1 - (b0 + s1) <= Error /\ (b0 + s1) - b1 <= Error
        /\ c1 - (b0 + r1) <= Error /\ (b0 + r1) - c1 <= Error
    BY <1>1, <1>3, <1>4, <2>2, <2>3
  <2>6. /\ b2 - (b1 + s2) <= Error /\ (b1 + s2) - b2 <= Error
        /\ c2 - (c1 + r2) <= Error /\ (c1 + r2) - c2 <= Error
    <3>1. k - 1 = i /\ k \in 1 .. n
      BY <1>1, <2>1
    <3> QED BY <1>3, <2>2, <2>3, <3>1
  <2>7. c2 - b2 <= 8 * Error /\ b2 - c2 <= 8 * Error
    <3>1. (r1 + r2) - (s1 + s2) <= 4 * Error /\ (s1 + s2) - (r1 + r2) <= 4 * Error
      BY <1>2, <2>3, <2>4 DEF Distance
    <3> QED BY <1>2, <2>2, <2>3, <2>5, <2>6, <3>1
  <2>8. k - i + 1 = 2 /\ Drift(2) = 8 * Error
    BY <1>1, <2>1, DriftsAre
  <2> QED BY <2>1, <2>2, <2>7, <2>8
<1>6. Bad = {}
  <2> SUFFICES ASSUME Bad # {} PROVE FALSE
    OBVIOUS
  <2>1. PICK k \in Bad : \A j \in Bad : k <= j
    <3>1. Bad \in SUBSET Nat
      BY <1>1
    <3> HIDE DEF Bad
    <3> QED BY <3>1, Least
  <2>2. /\ k \in i + 1 .. n /\ k # i + 1 /\ ~Off(k) /\ k \in Int
    BY <1>5, <2>1
  <2>3. /\ k - 1 \in i + 1 .. n /\ ~(k <= k - 1) /\ k \in 1 .. n /\ k \in 0 .. n /\ k - 1 \in 0 .. n
        /\ k \notin {i, i + 1} /\ k - i \in Nat /\ (k - 1) - i + 1 = k - i
    BY <1>1, <2>2
  <2>4. Off(k - 1)
    BY <2>1, <2>3
  <2>5. PICK b1 \in Int, b2 \in Int, c1 \in Int, c2 \in Int, x \in Int, y \in Int :
           /\ b1 = b(k - 1) /\ b2 = b(k) /\ c1 = c(k - 1) /\ c2 = c(k)
           /\ x = s[k].percent /\ y = r[k].percent
    BY <1>1, <2>3
  <2>6. x = y
    BY <1>1, <2>3, <2>5 DEF Given
  <2>7. PICK d \in Nat : d = Drift(k - i) /\ Drift((k - i) + 1) = d + 2 * Error
    BY <2>3, DriftIs
  <2>8. c1 - b1 <= d /\ b1 - c1 <= d
    BY <2>3, <2>4, <2>5, <2>7
  <2>9. /\ b2 - (b1 + x) <= Error /\ (b1 + x) - b2 <= Error
        /\ c2 - (c1 + y) <= Error /\ (c1 + y) - c2 <= Error
    BY <1>3, <2>3, <2>5
  <2>10. c2 - b2 <= d + 2 * Error /\ b2 - c2 <= d + 2 * Error
    BY <1>2, <2>5, <2>6, <2>7, <2>8, <2>9
  <2> QED BY <2>2, <2>5, <2>7, <2>10
<1>7. ASSUME NEW j \in i + 1 .. n
      PROVE  c(j) - b(j) <= Drift(Len(Arms)) /\ b(j) - c(j) <= Drift(Len(Arms))
  <2>1. Off(j)
    BY <1>6
  <2>2. PICK l \in Nat : l = Len(Arms) /\ n <= l
    <3>1. Len(Arms) \in Nat
      BY RolloutAssumption
    <3>2. Len(s) <= Len(Arms)
      BY DEF Given, InOrder
    <3> QED BY <3>1, <3>2 DEF n
  <2>3. j - i + 1 \in Nat /\ j - i + 1 <= l /\ j \in 0 .. n
    BY <1>1, <2>2
  <2>4. PICK d \in Nat, e \in Nat : d = Drift(j - i + 1) /\ e = Drift(l) /\ d <= e
    BY <2>2, <2>3, DriftIs
  <2>5. b(j) \in Int /\ c(j) \in Int
    BY <1>1, <2>3
  <2> QED BY <2>1, <2>2, <2>4, <2>5
<1> QED BY <1>7 DEF b, c, n

\* A tenant crosses a boundary that moves over its bucket.
Crosses(s, r, j, t) == ~(At(t) < Boundary(s, j) <=> At(t) < Boundary(r, j))

\* At most one tenant crosses a boundary after the two.
LEMMA OneCrosses ==
    ASSUME NEW s, NEW r, NEW i, Given(s, r, i), NEW j \in i + 1 .. Len(s),
           NEW t \in Tenants, NEW u \in Tenants, Crosses(s, r, j, t), Crosses(s, r, j, u)
    PROVE  ~(t < u)
<1> SUFFICES ASSUME t < u PROVE FALSE
  OBVIOUS
<1>1. PICK x \in Int, y \in Int : x = Boundary(s, j) /\ y = Boundary(r, j)
  <2>1. j \in 0 .. Len(s)
    BY GivenIs
  <2> QED BY <2>1, GivenIs
<1>2. PICK d \in Nat : d = Drift(Len(Arms)) /\ d + 2 * Error < Hundredth
  BY DriftsAre
<1>3. y - x <= d /\ x - y <= d
  BY <1>1, <1>2, GivenAfter
<1>4. Error \in Nat /\ Hundredth \in Nat /\ t \in Int /\ u \in Int
  BY FloatsAssumption, RolloutAssumption DEF Tenants
<1>5. PICK ht \in Int, hu \in Int : ht = t * Hundredth /\ hu = u * Hundredth /\ ht + Hundredth <= hu
  <2>1. (t + 1) * Hundredth <= u * Hundredth /\ (t + 1) * Hundredth = t * Hundredth + Hundredth
    BY <1>4
  <2> QED BY <1>4, <2>1
<1>6. PICK at \in Int, au \in Int : at = At(t) /\ au = At(u)
  BY BucketIs
<1>7. at - ht <= Error /\ ht - at <= Error /\ au - hu <= Error /\ hu - au <= Error
  BY <1>5, <1>6, BucketIs
<1>8. ~(at < x <=> at < y) /\ ~(au < x <=> au < y)
  BY <1>1, <1>6 DEF Crosses
<1>9. d < au - at
  <2>1. ht + Hundredth <= hu
    BY <1>5
  <2> QED BY <1>2, <1>4, <1>7, <2>1
<1>10. au - at <= d
  BY <1>3, <1>8
<1> QED BY <1>9, <1>10

\* Whoever crosses none of them keeps its portion, or is handed from one of the
\* two to the other.
LEMMA Shifts ==
    ASSUME NEW s, NEW r, NEW i, Given(s, r, i), NEW t \in Tenants,
           \A j \in i + 1 .. Len(s) : ~Crosses(s, r, j, t)
    PROVE  \/ Hit(r, At(t)) = Hit(s, At(t))
           \/ Hit(s, At(t)) = i /\ Hit(r, At(t)) = i + 1
<1> DEFINE a == At(t)
<1>1. /\ Len(s) \in Nat /\ Len(r) = Len(s) /\ DOMAIN s = 1 .. Len(s) /\ DOMAIN r = 1 .. Len(s)
      /\ i \in 1 .. Len(s) /\ i + 1 \in 1 .. Len(s) /\ i \in Nat
      /\ \A j \in 0 .. Len(s) : Boundary(s, j) \in Int /\ Boundary(r, j) \in Int
  BY GivenIs
<1>2. s \in Seq(Portions) /\ r \in Seq(Portions) /\ a \in Int
  BY BucketIs DEF Given, InOrder
<1>3. \A j : /\ j \in Hits(s, a) <=> j \in 1 .. Len(s) /\ a < Boundary(s, j)
             /\ j \in Hits(r, a) <=> j \in 1 .. Len(s) /\ a < Boundary(r, j)
  BY <1>1 DEF Hits
<1>4. \A j : j # i => (j \in Hits(r, a) <=> j \in Hits(s, a))
  <2> SUFFICES ASSUME NEW j \in 1 .. Len(s), j # i
               PROVE  a < Boundary(s, j) <=> a < Boundary(r, j)
    BY <1>3
  <2>1. CASE j \in 0 .. i - 1
    BY <2>1, GivenBefore
  <2>2. CASE j \in i + 1 .. Len(s)
    BY <2>2 DEF Crosses
  <2> QED BY <1>1, <2>1, <2>2
<1>5. i \in Hits(r, a) => i \in Hits(s, a)
  <2>1. PICK x \in Int, y \in Int : x = Boundary(s, i) /\ y = Boundary(r, i)
    <3>1. i \in 0 .. Len(s)
      BY <1>1
    <3> QED BY <1>1, <3>1
  <2>2. y <= x
    BY <2>1, GivenBefore
  <2> QED BY <1>1, <1>2, <1>3, <2>1, <2>2
<1> HIDE DEF a
<1>6. CASE i \in Hits(s, a) /\ i \notin Hits(r, a)
  <2>1. i + 1 \in Hits(r, a)
    <3>1. a < Boundary(s, i)
      BY <1>3, <1>6
    <3>2. Boundary(s, i) <= Boundary(s, i + 1)
      <4>1. i \in 0 .. Len(s) /\ i + 1 \in 0 .. Len(s) /\ i <= i + 1
        BY <1>1
      <4> QED BY <4>1, Boundaries DEF Given
    <3>3. PICK x \in Int, y \in Int : x = Boundary(s, i) /\ y = Boundary(s, i + 1)
      <4>1. i \in 0 .. Len(s) /\ i + 1 \in 0 .. Len(s)
        BY <1>1
      <4> QED BY <1>1, <4>1
    <3>4. i + 1 \in Hits(s, a)
      BY <1>1, <1>2, <1>3, <3>1, <3>2, <3>3
    <3>5. i + 1 # i
      BY <1>1
    <3> QED BY <1>4, <3>4, <3>5
  <2>2. /\ Hit(s, a) \in Hits(s, a) /\ \A j \in Hits(s, a) : Hit(s, a) <= j
        /\ Hit(r, a) \in Hits(r, a) /\ \A j \in Hits(r, a) : Hit(r, a) <= j
    BY <1>2, <1>6, <2>1, HitIs
  <2>3. Hit(s, a) \in 1 .. Len(s) /\ Hit(r, a) \in 1 .. Len(s) /\ Hit(s, a) <= i /\ Hit(r, a) <= i + 1
        /\ Hit(r, a) # i
    BY <1>3, <1>6, <2>1, <2>2
  <2>4. CASE Hit(s, a) = i
    <3>1. Hit(r, a) \in Hits(s, a)
      BY <1>4, <2>2, <2>3
    <3> QED BY <1>1, <2>2, <2>3, <2>4, <3>1 DEF a
  <2>5. CASE Hit(s, a) # i
    <3>1. Hit(s, a) \in Hits(r, a) /\ Hit(r, a) \in Hits(s, a)
      BY <1>4, <2>2, <2>3, <2>5
    <3> QED BY <2>2, <2>3, <3>1 DEF a
  <2> QED BY <2>4, <2>5
<1>7. CASE ~(i \in Hits(s, a) /\ i \notin Hits(r, a))
  <2>1. Hits(s, a) = Hits(r, a)
    BY <1>4, <1>5, <1>7
  <2>2. CASE Hits(s, a) = {}
    BY <1>2, <2>1, <2>2, HitIs DEF a
  <2>3. CASE Hits(s, a) # {}
    <3>1. /\ Hit(s, a) \in Hits(s, a) /\ \A j \in Hits(s, a) : Hit(s, a) <= j
          /\ Hit(r, a) \in Hits(s, a) /\ \A j \in Hits(s, a) : Hit(r, a) <= j
      BY <1>2, <2>1, <2>3, HitIs
    <3>2. Hit(s, a) \in 1 .. Len(s) /\ Hit(r, a) \in 1 .. Len(s)
      BY <1>3, <3>1
    <3> QED BY <3>1, <3>2 DEF a
  <2> QED BY <2>2, <2>3
<1> QED BY <1>6, <1>7

\* So no more change otherwise than there are boundaries after the two.
LEMMA FewCross ==
    ASSUME NEW s, NEW r, NEW i, Given(s, r, i),
           NEW T \in SUBSET Tenants, \A t \in T : \E j \in i + 1 .. Len(s) : Crosses(s, r, j, t)
    PROVE  Cardinality(T) <= Len(s) - i
<1> DEFINE J == i + 1 .. Len(s)
           g == [t \in T |-> CHOOSE j \in J : Crosses(s, r, j, t)]
<1>1. i \in Nat /\ Len(s) \in Nat /\ i + 1 <= Len(s)
  BY GivenIs
<1>2. IsFiniteSet(J) /\ Cardinality(J) = Len(s) - i
  <2>1. IsFiniteSet(J) /\ Cardinality(J) = IF i + 1 > Len(s) THEN 0 ELSE Len(s) - (i + 1) + 1
    BY <1>1, FS_Interval
  <2> QED BY <1>1, <2>1
<1>3. \A t \in T : g[t] \in J /\ Crosses(s, r, g[t], t)
  OBVIOUS
<1>4. g \in [T -> J]
  BY <1>3
<1> HIDE DEF g
<1>5. ASSUME NEW t \in T, NEW u \in T, g[t] = g[u] PROVE t = u
  <2>1. g[t] \in J /\ Crosses(s, r, g[t], t) /\ Crosses(s, r, g[t], u) /\ t \in Tenants /\ u \in Tenants
    BY <1>3, <1>5
  <2>2. ~(t < u) /\ ~(u < t)
    BY <2>1, OneCrosses
  <2> QED BY <2>1, <2>2 DEF Tenants
<1>6. g \in Injection(T, J)
  BY <1>4, <1>5 DEF Injection, IsInjective
<1>7. Cardinality(T) <= Cardinality(J)
  BY <1>2, <1>6, FS_Injection
<1> QED BY <1>2, <1>7

\* A step that shifts a share yields such splits.
LEMMA ArmShifts ==
    ASSUME NEW s, SplitIs(s), NEW i \in DOMAIN s, NEW p \in Percents, NEW q \in Percents, Shift(i, p, q)
    PROVE  \E r : /\ Given(s, r, i) /\ s[i].variant = Arms[i] /\ s[i + 1].variant = Arms[i + 1]
                  /\ Split = s /\ InOrder(s) /\ Fits(s) /\ InOrder(r) /\ Fits(r)
                  /\ \A t \in Tenants : /\ Served(config, t) = Rolled(s, t)
                                        /\ Served(config', t) = Rolled(r, t)
<1>1. Fits(s) /\ Split = s /\ InOrder(s) /\ \A t \in Tenants : Served(config, t) = Rolled(s, t)
  BY FitsNow
<1>2. p \in Floats /\ q \in Floats /\ p \in Int /\ q \in Int
  BY RolloutAssumption, FloatsAssumption
<1>3. /\ i < Len(s) /\ p < s[i].percent
      /\ Distance(p + q, s[i].percent + s[i + 1].percent) <= 4 * Error
      /\ Submit([s EXCEPT ![i].percent = p, ![i + 1].percent = q])
  BY <1>1 DEF Shift
<1>4. i + 1 \in DOMAIN s /\ i + 1 # i
  BY <1>1, <1>3, Boundaries
<1>5. PICK r : /\ Submit(r) /\ InOrder(r) /\ DOMAIN r = DOMAIN s
               /\ r[i].percent = p /\ r[i + 1].percent = q
               /\ \A j \in DOMAIN s : j \notin {i, i + 1} => r[j] = s[j]
  <2> DEFINE r == [s EXCEPT ![i].percent = p, ![i + 1].percent = q]
  <2>1. /\ InOrder(r) /\ DOMAIN r = DOMAIN s
        /\ r[i].percent = p /\ r[i + 1].percent = q
        /\ \A j \in DOMAIN s : j \notin {i, i + 1} => r[j] = s[j]
    BY <1>1, <1>2, <1>4, MovedTwo, Zenon
  <2>2. Submit(r)
    BY <1>3
  <2> HIDE DEF r
  <2> QED BY <2>1, <2>2
<1>6. Fits(r) /\ \A t \in Tenants : Served(config', t) = Rolled(r, t)
  BY <1>5, Submitted
<1>7. Len(r) = Len(s)
  BY <1>1, <1>5, <1>6, Boundaries
<1>8. p <= s[i].percent
  BY <1>1, <1>2, <1>3, PortionOf
<1>9. Given(s, r, i)
  BY <1>1, <1>3, <1>4, <1>5, <1>6, <1>7, <1>8 DEF Given
<1>10. s[i].variant = Arms[i] /\ s[i + 1].variant = Arms[i + 1]
  BY <1>1, <1>4 DEF InOrder
<1> QED BY <1>1, <1>5, <1>6, <1>9, <1>10

\* ShiftIsLocal: a share given to a neighbour moves tenants to it, and at most
\* one more at every boundary after the two.
THEOREM ShiftIsLocalHolds == TeamSpec => ShiftIsLocal
<1>1. RolloutOK => [Rolling => \A i \in DOMAIN Split : \A p, q \in Percents : Shift(i, p, q) =>
          /\ \A j \in 1 .. i - 1 :
                ServedTo(config', Split[j].variant) = ServedTo(config, Split[j].variant)
          /\ Cardinality(Changed \ Handed(Split[i].variant, Split[i + 1].variant))
               <= Len(Split) - i]_config
  <2> SUFFICES ASSUME RolloutOK, Rolling, NEW i \in DOMAIN Split, NEW p \in Percents, NEW q \in Percents,
                      Shift(i, p, q)
               PROVE  /\ \A j \in 1 .. i - 1 :
                            ServedTo(config', Split[j].variant) = ServedTo(config, Split[j].variant)
                      /\ Cardinality(Changed \ Handed(Split[i].variant, Split[i + 1].variant))
                           <= Len(Split) - i
    OBVIOUS
  <2>1. PICK s : SplitIs(s)
    BY DEF RolloutOK
  <2>2. Split = s /\ i \in DOMAIN s
    BY <2>1, FitsNow
  <2>3. PICK r : /\ Given(s, r, i) /\ s[i].variant = Arms[i] /\ s[i + 1].variant = Arms[i + 1]
                 /\ InOrder(s) /\ Fits(s) /\ InOrder(r) /\ Fits(r)
                 /\ \A t \in Tenants : /\ Served(config, t) = Rolled(s, t)
                                       /\ Served(config', t) = Rolled(r, t)
    BY <2>1, <2>2, ArmShifts
  <2>4. /\ DOMAIN s = 1 .. Len(s) /\ DOMAIN r = 1 .. Len(s) /\ Len(s) \in Nat
        /\ i \in 1 .. Len(s) /\ i + 1 \in 1 .. Len(s) /\ i \in Nat
    BY <2>3, GivenIs
  <2>5. ASSUME NEW j \in 1 .. i - 1
        PROVE  ServedTo(config', Split[j].variant) = ServedTo(config, Split[j].variant)
    <3>1. j \in DOMAIN s /\ j \in DOMAIN r /\ j \in 0 .. i - 1 /\ j - 1 \in 0 .. i - 1
      BY <2>4
    <3>2. Boundary(r, j) = Boundary(s, j) /\ Boundary(r, j - 1) = Boundary(s, j - 1)
      BY <2>3, <3>1, GivenBefore
    <3>3. s[j].variant = Arms[j]
      BY <2>3, <3>1 DEF InOrder
    <3>4. ASSUME NEW t \in Tenants PROVE Hit(r, At(t)) = j <=> Hit(s, At(t)) = j
      <4>1. At(t) \in Int
        BY BucketIs
      <4>2. Hit(s, At(t)) = j <=> (At(t) < Boundary(s, j) /\ (j # 1 => At(t) >= Boundary(s, j - 1)))
        BY <2>3, <3>1, <4>1, HitBetween
      <4>3. Hit(r, At(t)) = j <=> (At(t) < Boundary(r, j) /\ (j # 1 => At(t) >= Boundary(r, j - 1)))
        BY <2>3, <3>1, <4>1, HitBetween
      <4> QED BY <3>2, <4>2, <4>3
    <3>5. ASSUME NEW t \in Tenants
          PROVE  Served(config', t).variant = Arms[j] <=> Served(config, t).variant = Arms[j]
      <4>1. (Rolled(s, t).variant = Arms[j] <=> Hit(s, At(t)) = j)
            /\ (Rolled(r, t).variant = Arms[j] <=> Hit(r, At(t)) = j)
        BY <2>3, <3>1, VariantIs
      <4> QED BY <2>3, <3>4, <4>1
    <3> QED BY <2>2, <3>3, <3>5 DEF ServedTo
  <2> DEFINE Others == Changed \ Handed(Split[i].variant, Split[i + 1].variant)
  <2>6. ASSUME NEW t \in Others PROVE \E j \in i + 1 .. Len(s) : Crosses(s, r, j, t)
    <3> SUFFICES ASSUME \A j \in i + 1 .. Len(s) : ~Crosses(s, r, j, t) PROVE FALSE
      OBVIOUS
    <3>1. /\ t \in Tenants /\ Served(config', t) # Served(config, t)
          /\ t \notin Handed(Split[i].variant, Split[i + 1].variant)
      BY DEF Changed
    <3>2. Hit(r, At(t)) = Hit(s, At(t)) \/ (Hit(s, At(t)) = i /\ Hit(r, At(t)) = i + 1)
      BY <2>3, <3>1, Shifts
    <3>3. CASE Hit(r, At(t)) = Hit(s, At(t))
      BY <2>3, <3>1, <3>3, SameArm
    <3>4. CASE Hit(s, At(t)) = i /\ Hit(r, At(t)) = i + 1
      <4>1. Rolled(s, t).variant = Arms[i] /\ Rolled(r, t).variant = Arms[i + 1]
        <5>1. i \in DOMAIN s /\ i + 1 \in DOMAIN r
          BY <2>4
        <5> QED BY <2>3, <3>4, <5>1, VariantIs
      <4>2. t \in ServedTo(config, Split[i].variant) /\ t \in ServedTo(config', Split[i + 1].variant)
        BY <2>2, <2>3, <3>1, <4>1 DEF ServedTo
      <4> QED BY <3>1, <4>2 DEF Handed
    <3> QED BY <3>2, <3>3, <3>4
  <2>7. Others \in SUBSET Tenants
    BY DEF Changed
  <2> HIDE DEF Others
  <2>8. Cardinality(Others) <= Len(s) - i
    BY <2>3, <2>6, <2>7, FewCross
  <2> QED BY <2>2, <2>5, <2>8 DEF Others
<1> QED BY <1>1, RolloutHolds, PTL DEF ShiftIsLocal

-----------------------------------------------------------------------------
(***************************************************************************)
(* Full rollouts: the percentages that a team adds up to 100 are let       *)
(* through, and leave no tenant out.                                       *)
(***************************************************************************)
Totals(split, n) ==
    LET sum[i \in 0 .. n] == IF i = 0 THEN 0 ELSE sum[i - 1] + split[i].percent
    IN sum

\* What Total adds up, one portion at a time.
LEMMA TotalsAre ==
    ASSUME NEW split, NEW n \in Nat
    PROVE  /\ Totals(split, n)[0] = 0
           /\ \A i \in 1 .. n : Totals(split, n)[i] = Totals(split, n)[i - 1] + split[i].percent
<1> DEFINE Sum(f, k) == f = [i \in 0 .. k |-> IF i = 0 THEN 0 ELSE f[i - 1] + Share(split, i)]
           Bad == {k \in Nat : ~ \E f : Sum(f, k)}
<1>1. \E f : Sum(f, 0)
  <2>1. Sum([i \in 0 .. 0 |-> 0], 0)
    BY SMT
  <2> QED BY <2>1
<1>2. ASSUME NEW k \in Nat, NEW f, Sum(f, k) PROVE \E g : Sum(g, k + 1)
  <2> DEFINE g == [i \in 0 .. k + 1 |-> IF i = k + 1 THEN f[k] + Share(split, i) ELSE f[i]]
             h == [i \in 0 .. k + 1 |-> IF i = 0 THEN 0 ELSE g[i - 1] + Share(split, i)]
  <2>1. ASSUME NEW i \in 0 .. k + 1 PROVE g[i] = h[i]
    <3>1. CASE i = k + 1
      <4>1. i # 0 /\ i - 1 = k /\ g[k] = f[k] /\ g[i] = f[k] + Share(split, i)
        BY <3>1
      <4> QED BY <4>1
    <3>2. CASE i \in 0 .. k
      <4>1. f[i] = IF i = 0 THEN 0 ELSE f[i - 1] + Share(split, i)
        BY <1>2, <3>2
      <4>2. g[i] = f[i] /\ (i # 0 => i - 1 \in 0 .. k /\ i - 1 # k + 1 /\ g[i - 1] = f[i - 1])
        BY <3>2
      <4>3. h[i] = IF i = 0 THEN 0 ELSE g[i - 1] + Share(split, i)
        OBVIOUS
      <4> HIDE DEF g, h
      <4> QED BY <4>1, <4>2, <4>3
    <3> QED BY <3>1, <3>2
  <2>2. g = h
    BY <2>1
  <2>3. Sum(g, k + 1)
    BY <2>2
  <2> HIDE DEF g
  <2> QED BY <2>3
<1> HIDE DEF Sum
<1>3. Bad = {}
  <2> SUFFICES ASSUME Bad # {} PROVE FALSE
    OBVIOUS
  <2>1. PICK k \in Bad : \A j \in Bad : k <= j
    <3>1. Bad \in SUBSET Nat
      OBVIOUS
    <3> HIDE DEF Bad
    <3> QED BY <3>1, Least
  <2>2. k \in Nat /\ k # 0
    BY <1>1
  <2>3. k - 1 \in Nat /\ k - 1 + 1 = k /\ k - 1 \notin Bad
    BY <2>1, <2>2
  <2> QED BY <1>2, <2>3
<1>4. PICK f : Sum(f, n)
  BY <1>3
<1>5. Totals(split, n) = CHOOSE g : Sum(g, n)
  BY DEF Totals, Sum, Share
<1>6. Sum(Totals(split, n), n)
  BY <1>4, <1>5
<1>7. \A i \in 0 .. n : Totals(split, n)[i] = IF i = 0 THEN 0 ELSE Totals(split, n)[i - 1] + Share(split, i)
  <2>1. Totals(split, n) = [i \in 0 .. n |-> IF i = 0 THEN 0 ELSE Totals(split, n)[i - 1] + Share(split, i)]
    BY <1>6 DEF Sum
  <2> QED BY <2>1
<1> QED BY <1>7 DEF Share

\* They rise where no share is negative.
LEMMA TotalsRise ==
    ASSUME NEW split, NEW n \in Nat,
           \A i \in 1 .. n : split[i].percent \in Int /\ split[i].percent >= 0
    PROVE  \A i \in 0 .. n : /\ Totals(split, n)[i] \in Int /\ 0 <= Totals(split, n)[i]
                             /\ Totals(split, n)[i] <= Totals(split, n)[n]
<1> DEFINE s(i) == Totals(split, n)[i]
           Low == {i \in 0 .. n : ~(s(i) \in Int /\ 0 <= s(i))}
           High == {i \in 0 .. n : ~(s(n - i) <= s(n))}
<1>1. s(0) = 0 /\ \A i \in 1 .. n : s(i) = s(i - 1) + split[i].percent
  BY TotalsAre
<1> HIDE DEF s
<1>2. Low = {}
  <2> SUFFICES ASSUME Low # {} PROVE FALSE
    OBVIOUS
  <2>1. PICK k \in Low : \A j \in Low : k <= j
    <3>1. Low \in SUBSET Nat
      OBVIOUS
    <3> HIDE DEF Low
    <3> QED BY <3>1, Least
  <2>2. k \in 1 .. n /\ k - 1 \in 0 .. n /\ k - 1 \notin Low
    BY <1>1, <2>1
  <2>3. /\ s(k - 1) \in Int /\ 0 <= s(k - 1) /\ s(k) = s(k - 1) + split[k].percent
        /\ split[k].percent \in Int /\ split[k].percent >= 0
    BY <1>1, <2>2
  <2>4. s(k) \in Int /\ 0 <= s(k)
    BY <2>3
  <2> QED BY <2>1, <2>4
<1>3. \A i \in 0 .. n : s(i) \in Int /\ 0 <= s(i)
  BY <1>2
<1>4. High = {}
  <2> SUFFICES ASSUME High # {} PROVE FALSE
    OBVIOUS
  <2>1. PICK k \in High : \A j \in High : k <= j
    <3>1. High \in SUBSET Nat
      OBVIOUS
    <3> HIDE DEF High
    <3> QED BY <3>1, Least
  <2>2. k \in 0 .. n /\ ~(s(n - k) <= s(n)) /\ n \in 0 .. n /\ s(n) \in Int
    BY <1>3, <2>1
  <2>3. k # 0
    BY <2>2
  <2>4. PICK i \in 1 .. n : i = n - k + 1 /\ i - 1 = n - k /\ n - (k - 1) = i
    BY <2>2, <2>3
  <2>5. k - 1 \in 0 .. n /\ k - 1 \notin High
    BY <2>1, <2>2, <2>3
  <2>6. s(i) <= s(n)
    BY <2>4, <2>5
  <2>7. /\ s(i - 1) \in Int /\ s(i) = s(i - 1) + split[i].percent
        /\ split[i].percent \in Int /\ split[i].percent >= 0
    BY <1>1, <1>3
  <2> QED BY <2>2, <2>4, <2>6, <2>7
<1>5. ASSUME NEW i \in 0 .. n PROVE s(i) <= s(n)
  <2>1. n - i \in 0 .. n /\ n - (n - i) = i
    OBVIOUS
  <2> QED BY <1>4, <2>1
<1> QED BY <1>3, <1>5 DEF s

\* The float sums stay near them, as long as they come to 100 percent.
LEMMA TotalsNear ==
    ASSUME NEW split, InOrder(split), AddsUp(split),
           \A i \in DOMAIN split : split[i].percent >= 0
    PROVE  /\ Boundary(split, Len(split)) - Whole <= Tolerance
           /\ Whole - Boundary(split, Len(split)) <= Tolerance
           /\ Whole - Boundary(split, Len(split)) < Hundredth - Error
<1> DEFINE n == Len(split)
           s(i) == Totals(split, n)[i]
           b(i) == Boundary(split, i)
           Off(i) == b(i) - s(i) <= i * Error /\ s(i) - b(i) <= i * Error
           Bad == {i \in 0 .. n : ~Off(i)}
<1>1. /\ n \in Nat /\ DOMAIN split = 1 .. n /\ n <= Len(Arms) /\ Len(Arms) \in Nat
  BY RolloutAssumption DEF InOrder
<1>2. \A i \in 1 .. n : split[i].percent \in Floats /\ split[i].percent \in Int /\ split[i].percent >= 0
  BY <1>1, PortionOf
<1>3. s(0) = 0 /\ \A i \in 1 .. n : s(i) = s(i - 1) + split[i].percent
  BY <1>1, TotalsAre
<1>4. \A i \in 0 .. n : s(i) \in Int /\ 0 <= s(i) /\ s(i) <= s(n)
  BY <1>1, <1>2, TotalsRise
<1>5. b(0) = 0 /\ \A i \in 1 .. n : b(i) = Round(b(i - 1) + split[i].percent)
  BY <1>1, SharesAre DEF Boundary
<1>6. /\ \A i \in 0 .. n : b(i) \in Floats /\ b(i) \in Int
      /\ \A i, j \in 0 .. n : i <= j => b(i) <= b(j)
  BY <1>1, <1>2, BoundariesRise
<1>7. PICK e \in Nat, tol \in Nat, w \in Nat, h \in Nat :
         e = Error /\ tol = Tolerance /\ w = Whole /\ h = Hundredth
  BY FloatsAssumption, RolloutAssumption
<1>8. s(n) - w <= n * e /\ w - s(n) <= n * e
  <2>1. Total(split) = s(n)
    BY DEF Total, Totals
  <2>2. n \in 0 .. n /\ s(n) \in Int /\ n * e \in Int
    BY <1>1, <1>4, <1>7
  <2>3. Distance(s(n), w) <= n * e
    BY <1>7, <2>1 DEF AddsUp
  <2> HIDE DEF s, n
  <2> QED BY <1>7, <2>2, <2>3 DEF Distance
<1> HIDE DEF s, b, n
<1>9. 2 * (n * e) <= tol /\ 6 * e + 2 * (n * e) < h
  <2>1. PICK l \in Nat : l = Len(Arms)
    BY <1>1
  <2>2. 2 * l * e <= tol /\ (6 + 2 * l) * e < h
    BY <1>7, <2>1, FloatsAssumption
  <2>3. n * e <= l * e /\ 2 * l * e = 2 * (l * e) /\ (6 + 2 * l) * e = 6 * e + 2 * (l * e)
    BY <1>1, <1>7, <2>1
  <2>4. PICK x \in Int, y \in Int : x = n * e /\ y = l * e
    BY <1>1, <1>7, <2>1
  <2> QED BY <1>7, <2>2, <2>3, <2>4
<1>10. PICK ne \in Nat : ne = n * e /\ \A k \in 0 .. n : k * e <= ne /\ k * e \in Nat
  <2>1. \A k \in 0 .. n : k * e <= n * e /\ k * e \in Nat
    BY <1>1, <1>7
  <2> QED BY <1>1, <1>7, <2>1
<1>11. Bad = {}
  <2> SUFFICES ASSUME Bad # {} PROVE FALSE
    OBVIOUS
  <2>1. PICK k \in Bad : \A j \in Bad : k <= j
    <3>1. Bad \in SUBSET Nat
      BY <1>1
    <3> HIDE DEF Bad
    <3> QED BY <3>1, Least
  <2>2. k # 0
    <3>1. Off(0)
      BY <1>3, <1>5, <1>7
    <3> QED BY <2>1, <3>1
  <2>3. /\ k \in 1 .. n /\ k \in 0 .. n /\ k - 1 \in 0 .. n /\ 0 \in 0 .. n /\ ~(k <= k - 1) /\ ~Off(k)
        /\ 0 <= k - 1
    BY <1>1, <2>1, <2>2
  <2>4. Off(k - 1)
    BY <2>1, <2>3
  <2>5. PICK b1 \in Int, b2 \in Int, s1 \in Int, s2 \in Int, p \in Int, sn \in Int :
           /\ b1 = b(k - 1) /\ b2 = b(k) /\ s1 = s(k - 1) /\ s2 = s(k) /\ p = split[k].percent
           /\ sn = s(n)
    <3>1. n \in 0 .. n
      BY <1>1
    <3> QED BY <1>2, <1>4, <1>6, <2>3, <3>1
  <2>6. PICK k1 \in Nat, k2 \in Nat :
           k1 = (k - 1) * e /\ k2 = k * e /\ k2 = k1 + e /\ k1 <= ne
    <3>1. (k - 1) * e + e = k * e
      BY <1>7, <2>3
    <3> QED BY <1>10, <2>3, <3>1
  <2>7. b1 - s1 <= k1 /\ s1 - b1 <= k1
    BY <1>7, <2>4, <2>5, <2>6
  <2>8. s2 = s1 + p /\ s2 <= sn /\ p >= 0 /\ 0 <= b1
    <3>1. b(0) <= b(k - 1)
      BY <1>6, <2>3
    <3> QED BY <1>2, <1>3, <1>4, <1>5, <2>3, <2>5, <3>1
  <2>9. b1 + p \in Exact /\ Round(b1 + p) = b2
    <3>1. b1 \in Floats /\ p \in Floats
      BY <1>2, <1>6, <2>3, <2>5
    <3> QED BY <1>5, <2>3, <2>5, <3>1, ExactHas
  <2>10. b1 + p \in 0 .. w + tol
    <3>1. sn - w <= ne /\ 2 * ne <= tol
      BY <1>8, <1>9, <1>10, <2>5
    <3> QED BY <1>7, <2>6, <2>7, <2>8, <3>1
  <2>11. b2 - (b1 + p) <= e /\ (b1 + p) - b2 <= e
    BY <1>7, <2>9, <2>10, RoundNear
  <2>12. b2 - s2 <= k2 /\ s2 - b2 <= k2
    BY <1>7, <2>6, <2>7, <2>8, <2>11
  <2> QED BY <1>7, <2>3, <2>5, <2>6, <2>12
<1>12. PICK bn \in Int, sn \in Int : bn = b(n) /\ sn = s(n)
  <2>1. n \in 0 .. n
    BY <1>1
  <2> QED BY <1>4, <1>6, <2>1
<1>13. bn - sn <= ne /\ sn - bn <= ne
  <2>1. n \in 0 .. n
    BY <1>1
  <2> QED BY <1>7, <1>10, <1>11, <1>12, <2>1
<1>14. sn - w <= ne /\ w - sn <= ne /\ 2 * ne <= tol /\ 6 * e + 2 * ne < h
  BY <1>8, <1>9, <1>10, <1>12
<1>15. bn - w <= tol /\ w - bn <= tol /\ w - bn < h - e
  BY <1>7, <1>12, <1>13, <1>14
<1> QED BY <1>7, <1>12, <1>15 DEF b, n

\* A check of no portion has nothing to report.
LEMMA NothingFound ==
    ASSUME NEW field, NEW fault, ~fault
    PROVE  ErrorIf(field, fault) = {}
BY DEF ErrorIf

\* A split that fits is let through, as the flag without one is.
LEMMA LetIn ==
    ASSUME NEW split, InOrder(split), \A i \in DOMAIN split : split[i].percent >= 0,
           Boundary(split, Len(split)) - Whole <= Tolerance
    PROVE  Validate(ConfigWith(split)) = {}
<1> DEFINE c == ConfigWith(split)
           o == ConfigWith(<<>>)
           known == ToSet(Project(o.features, "key")) \cap ValidKeys
           segments == ToSet(Project(o.segments, "key")) \cap ValidKeys
           fl == FlagWith(split)
           none == FlagWith(<<>>)
           variants == ToSet(Arms) \ {Nil}
<1>1. /\ c.features = o.features /\ c.segments = o.segments /\ c.plans = o.plans /\ c.addons = o.addons
      /\ c.flags = <<fl>> /\ o.flags = <<none>>
  BY DEF ConfigWith
<1>2. /\ fl.variants = Arms /\ none.variants = Arms /\ fl.default.rollout = Rollout(split)
      /\ fl.default.variant = Nil /\ fl.rules = <<>> /\ none.rules = <<>>
      /\ fl.from = Nil /\ fl.feature = none.feature
  BY DEF FlagWith
<1>3. Rollout(split).split = split /\ split \in Seq(Portions)
  BY DEF Rollout, InOrder
<1> HIDE DEF c, o, fl, none
<1>4. /\ CheckFeatures(o.features, known) = {} /\ CheckSegments(o.segments) = {}
      /\ CheckFlags(o.flags, known, segments) = {} /\ CheckPlans(o.plans, known) = {}
      /\ CheckAddOns(o.addons, o.plans, known) = {} /\ CheckPeriods(o.plans, o.addons) = {}
  BY FlagAssumption DEF Validate, o
<1>5. CheckKeys("variants.key", Arms, variants) = {}
  <2> HIDE DEF known, segments
  <2>1. none \in ToSet(o.flags)
    BY <1>1 DEF ToSet
  <2>2. CheckKeys("variants.key", none.variants, ToSet(none.variants) \ {Nil}) = {}
    BY <1>4, <2>1, FlagOK
  <2> QED BY <1>2, <2>2
<1>6. CheckKeys("flags.feature", Project(c.flags, "feature"), known) = {}
  <2>1. CheckKeys("flags.feature", Project(o.flags, "feature"), known) = {}
    BY <1>4 DEF CheckFlags
  <2>2. Project(c.flags, "feature") = <<fl.feature>> /\ Project(o.flags, "feature") = <<none.feature>>
    BY <1>1 DEF Project
  <2> QED BY <1>2, <2>1, <2>2
<1>7. CheckSplit(split, variants) = {}
  <2>1. ASSUME NEW p \in ToSet(split)
        PROVE  /\ ErrorIf("percent", p.percent < 0) = {}
               /\ ErrorIf("variant", Undeclared(p.variant, variants)) = {}
    <3>1. PICK i \in DOMAIN split : p = split[i]
      BY DEF ToSet
    <3>2. p.percent \in Int /\ p.percent >= 0
      BY <3>1, PortionOf
    <3>3. p.variant \in ToSet(Arms)
      <4>1. split[i] \in Portions
        BY <1>3
      <4> QED BY <3>1, <4>1 DEF Portions
    <3>4. ToSet(Arms) \subseteq variants
      BY <1>5, NoFault, Zenon DEF CheckKeys
    <3>5. ~(p.percent < 0) /\ ~Undeclared(p.variant, variants)
      BY <3>2, <3>3, <3>4 DEF Undeclared
    <3> QED BY <3>5, NothingFound, Zenon
  <2>2. ErrorIf("split", ExceedsWhole(Shares(split)[Len(split)])) = {}
    <3>1. Boundary(split, Len(split)) \in Int /\ Whole \in Int /\ Tolerance \in Int
      <4>1. \A i \in 1 .. Len(split) : split[i].percent \in Floats
        BY <1>3, PortionOf
      <4>2. Len(split) \in Nat /\ Len(split) \in 0 .. Len(split)
        BY <1>3
      <4>3. Boundary(split, Len(split)) \in Int
        BY <4>1, <4>2, BoundariesRise
      <4> QED BY <4>3, RolloutAssumption, FloatsAssumption
    <3>2. ~ExceedsWhole(Shares(split)[Len(split)])
      BY <3>1 DEF ExceedsWhole, Boundary
    <3> QED BY <3>2, NothingFound, Zenon
  <2>3. Each(split, LAMBDA p :
            ErrorIf("percent", p.percent < 0)
              \cup ErrorIf("variant", Undeclared(p.variant, variants))) = {}
    BY <2>1 DEF Each
  <2> QED BY <2>2, <2>3 DEF CheckSplit
<1>8. CheckServe(fl.default, variants) = {}
  <2>1. ~Undeclared(fl.default.variant, variants)
    BY <1>2 DEF Undeclared
  <2>2. ErrorIf("variant", Undeclared(fl.default.variant, variants)) = {}
    BY <2>1, NothingFound, Zenon
  <2> QED BY <1>2, <1>3, <1>7, <2>2 DEF CheckServe
<1>9. CheckFlags(c.flags, known, segments) = {}
  <2>1. ToSet(c.flags) = {fl}
    BY <1>1 DEF ToSet
  <2>2. ErrorIf("window", Closed(fl)) = {}
    <3>1. ~Closed(fl)
      BY <1>2 DEF Closed
    <3> QED BY <3>1, NothingFound, Zenon
  <2>3. ToSet(fl.rules) = {}
    BY <1>2 DEF ToSet
  <2> HIDE DEF known, segments
  <2> DEFINE errors(x) == CheckKeys("variants.key", x.variants, ToSet(x.variants) \ {Nil})
                            \cup ErrorIf("window", Closed(x))
                            \cup Each(x.rules, LAMBDA r :
                                     CheckConditions(r.conditions, segments)
                                       \cup CheckServe(r.serve, ToSet(x.variants) \ {Nil}))
                            \cup CheckServe(x.default, ToSet(x.variants) \ {Nil})
  <2>4. errors(fl) = {}
    BY <1>2, <1>5, <1>8, <2>2, <2>3 DEF Each
  <2>5. UNION {errors(x) : x \in ToSet(c.flags)} = {}
    <3> HIDE DEF errors
    <3> QED BY <2>1, <2>4
  <2>6. CheckFlags(c.flags, known, segments)
          = CheckKeys("flags.feature", Project(c.flags, "feature"), known)
              \cup UNION {errors(x) : x \in ToSet(c.flags)}
    BY Zenon DEF CheckFlags, Each
  <2> QED BY <1>6, <2>5, <2>6
<1> QED BY <1>1, <1>4, <1>9 DEF Validate, c, o

\* FullRolloutServesAll: percentages that add up to 100 are let through, and
\* everyone has the feature.
THEOREM FullRolloutServesAllHolds == TeamSpec => []FullRolloutServesAll
<1>1. RolloutOK => FullRolloutServesAll
  <2> SUFFICES ASSUME RolloutOK, Rolling, Len(Split) < Len(Arms), NEW p \in Percents, p >= 0,
                      AddsUp(Append(Split, [variant |-> Arms[Len(Split) + 1], percent |-> p]))
               PROVE  LET split == Append(Split, [variant |-> Arms[Len(Split) + 1], percent |-> p])
                      IN /\ Validate(ConfigWith(split)) = {}
                         /\ \A t \in Tenants : Served(ConfigWith(split), t).on
    BY DEF FullRolloutServesAll
  <2>1. PICK s : SplitIs(s)
    BY DEF RolloutOK
  <2>2. Fits(s) /\ Split = s /\ InOrder(s)
    BY <2>1, FitsNow
  <2>3. p \in Floats
    BY RolloutAssumption
  <2> DEFINE r == Append(s, [variant |-> Arms[Len(s) + 1], percent |-> p])
  <2>4. /\ InOrder(r) /\ Len(r) = Len(s) + 1 /\ r[Len(s) + 1].percent = p
        /\ \A j \in DOMAIN s : r[j] = s[j]
    BY <2>2, <2>3, Joined
  <2>5. AddsUp(r)
    BY <2>2
  <2> HIDE DEF r
  <2>6. /\ DOMAIN s = 1 .. Len(s) /\ Len(s) \in Nat
        /\ \A i \in DOMAIN s : s[i].percent \in Nat
    BY <2>2, Boundaries
  <2>7. r \in Seq(Portions) /\ DOMAIN r = 1 .. Len(r)
    BY <2>4 DEF InOrder
  <2>8. \A i \in DOMAIN r : r[i].percent >= 0
    <3>1. ASSUME NEW i \in DOMAIN r PROVE r[i].percent >= 0
      <4>1. i \in DOMAIN s \/ i = Len(s) + 1
        BY <2>4, <2>6, <2>7
      <4>2. CASE i \in DOMAIN s
        <5>1. r[i] = s[i] /\ s[i].percent \in Nat
          BY <2>4, <2>6, <4>2
        <5> QED BY <5>1
      <4>3. CASE i = Len(s) + 1
        BY <2>4, <4>3
      <4> QED BY <4>1, <4>2, <4>3
    <3> QED BY <3>1
  <2>9. /\ Boundary(r, Len(r)) - Whole <= Tolerance
        /\ Whole - Boundary(r, Len(r)) < Hundredth - Error
    BY <2>4, <2>5, <2>8, TotalsNear
  <2>10. Validate(ConfigWith(r)) = {}
    BY <2>4, <2>8, <2>9, LetIn
  <2>11. ASSUME NEW t \in Tenants PROVE Served(ConfigWith(r), t).on
    <3>1. /\ Buckets \in Nat \ {0} /\ Hundredth \in Nat /\ Whole = Buckets * Hundredth
          /\ t \in Nat /\ t + 1 <= Buckets
      BY RolloutAssumption DEF Tenants
    <3>2. (t + 1) * Hundredth <= Buckets * Hundredth /\ (t + 1) * Hundredth = t * Hundredth + Hundredth
      BY <3>1
    <3>3. PICK a \in Int, ht \in Int, w \in Int, h \in Int, e \in Int, b \in Int :
             /\ a = At(t) /\ ht = t * Hundredth /\ w = Whole /\ h = Hundredth /\ e = Error
             /\ b = Boundary(r, Len(r))
      <4>1. Error \in Int /\ At(t) \in Int
        BY FloatsAssumption, BucketIs
      <4>2. Boundary(r, Len(r)) \in Int
        <5>1. Fits(r) /\ Len(r) \in 0 .. Len(r)
          BY <2>4, <2>6, <2>10, LetThrough
        <5> QED BY <2>4, <5>1, Boundaries
      <4> QED BY <3>1, <4>1, <4>2
    <3>4. a - ht <= e /\ ht + h <= w /\ w - b < h - e
      BY <2>9, <3>1, <3>2, <3>3, BucketIs
    <3>5. At(t) < Boundary(r, Len(r))
      BY <3>3, <3>4
    <3>6. Len(r) \in DOMAIN r
      BY <2>4, <2>6, <2>7
    <3>7. Hit(r, At(t)) # 0
      BY <2>4, <3>5, <3>6, HitBelow
    <3> QED BY <2>4, <3>7, ServedIs, OnIs
  <2> QED BY <2>2, <2>10, <2>11 DEF r
<1> QED BY <1>1, RolloutHolds, PTL

-----------------------------------------------------------------------------
(***************************************************************************)
(* The version tests.  An identifier that reads as a number must be one of *)
(* digits alone, and the other way round.                                  *)
(***************************************************************************)
Plain == \A i \in Identifiers : IF i.digits THEN i.num \in Int64 ELSE i.num \notin Int64

\* Neither comes before the other.
Same(a, b) == ~IdentifierBelow(a, b) /\ ~IdentifierBelow(b, a)

\* What comes first is told from the first difference.
LEMMA DifferenceIs ==
    ASSUME NEW cs \in Seq(Int), NEW otherwise
    PROVE  \/ /\ \A i \in DOMAIN cs : cs[i] = 0
              /\ FirstDifference(cs, otherwise) = otherwise
           \/ \E k \in DOMAIN cs :
                 /\ cs[k] # 0 /\ FirstDifference(cs, otherwise) = cs[k]
                 /\ \A j \in 1 .. k - 1 : cs[j] = 0
<1> DEFINE D == {i \in 1 .. Len(cs) : cs[i] # 0}
           at == SelectInSeq(cs, LAMBDA c : c # 0)
<1>1. at = IF D # {} THEN Min(D) ELSE 0
  BY DEF SelectInSeq
<1>2. FirstDifference(cs, otherwise) = IF at = 0 THEN otherwise ELSE cs[at]
  BY DEF FirstDifference
<1>3. D \in SUBSET Nat /\ DOMAIN cs = 1 .. Len(cs) /\ Len(cs) \in Nat
  OBVIOUS
<1> HIDE DEF at
<1>4. CASE D = {}
  BY <1>1, <1>2, <1>3, <1>4
<1>5. CASE D # {}
  <2>1. at \in D /\ \A i \in D : at <= i
    BY <1>1, <1>3, <1>5, MinHolds
  <2>2. at \in DOMAIN cs /\ at # 0 /\ cs[at] # 0 /\ \A j \in 1 .. at - 1 : j \notin D /\ j \in 1 .. Len(cs)
    BY <1>3, <2>1
  <2>3. \A j \in 1 .. at - 1 : cs[j] = 0
    BY <2>2
  <2> QED BY <1>2, <2>2, <2>3
<1> QED BY <1>4, <1>5

\* Identifiers compare as §11.4 has them.
LEMMA IdentifiersCompared ==
    ASSUME Plain, NEW a \in Identifiers, NEW b \in Identifiers
    PROVE  /\ CompareIdentifiers(a, b) \in {-1, 0, 1}
           /\ CompareIdentifiers(a, b) = -1 <=> IdentifierBelow(a, b)
           /\ CompareIdentifiers(a, b) = 1 <=> IdentifierBelow(b, a)
<1>1. /\ a.rank \in Nat /\ b.rank \in Nat
      /\ a.digits => a.num \in Nat
      /\ b.digits => b.num \in Nat
  BY IdentifiersAssumption
<1>2. /\ IF a.digits THEN ParseInt(a.num) = a.num /\ a.num # Nil ELSE ParseInt(a.num) = Nil
      /\ IF b.digits THEN ParseInt(b.num) = b.num /\ b.num # Nil ELSE ParseInt(b.num) = Nil
  BY GatesAssumption DEF Plain, ParseInt, Int64
<1>3. CASE a.digits /\ b.digits
  BY <1>1, <1>2, <1>3 DEF CompareIdentifiers, IdentifierBelow, CmpInt
<1>4. CASE a.digits /\ ~b.digits
  BY <1>1, <1>2, <1>4 DEF CompareIdentifiers, IdentifierBelow, CmpInt
<1>5. CASE ~a.digits /\ b.digits
  BY <1>1, <1>2, <1>5 DEF CompareIdentifiers, IdentifierBelow, CmpInt
<1>6. CASE ~a.digits /\ ~b.digits
  BY <1>1, <1>2, <1>6 DEF CompareIdentifiers, CompareText, IdentifierBelow, CmpInt
<1> QED BY <1>3, <1>4, <1>5, <1>6

\* The order of identifiers, and of those that are the same.
LEMMA IdentifiersOrdered ==
    ASSUME NEW a \in Identifiers, NEW b \in Identifiers, NEW c \in Identifiers
    PROVE  /\ ~(IdentifierBelow(a, b) /\ IdentifierBelow(b, a))
           /\ IdentifierBelow(a, b) /\ IdentifierBelow(b, c) => IdentifierBelow(a, c)
           /\ IdentifierBelow(a, b) /\ Same(b, c) => IdentifierBelow(a, c)
           /\ Same(a, b) /\ IdentifierBelow(b, c) => IdentifierBelow(a, c)
           /\ Same(a, b) /\ Same(b, c) => Same(a, c)
<1>1. /\ a.rank \in Nat /\ b.rank \in Nat /\ c.rank \in Nat
      /\ a.digits => a.num \in Nat
      /\ b.digits => b.num \in Nat
      /\ c.digits => c.num \in Nat
  BY IdentifiersAssumption
<1> QED BY <1>1 DEF IdentifierBelow, Same

\* The first identifier in which two pre-releases differ.
DifferAt(p, q, k) ==
    /\ k \in 1 .. Len(p) /\ k <= Len(q) /\ IdentifierBelow(p[k], q[k])
    /\ \A j \in 1 .. k - 1 : Same(p[j], q[j])

\* One is the other's beginning.
Begins(p, q) == Len(p) < Len(q) /\ \A k \in 1 .. Len(p) : Same(p[k], q[k])

\* Precedence of pre-releases, by its three cases.
LEMMA PreBelowIs ==
    ASSUME NEW p, NEW q
    PROVE  PreBelow(p, q) <=> \/ p # <<>> /\ q = <<>>
                              \/ p # <<>> /\ Begins(p, q)
                              \/ \E k \in 1 .. Len(p) : DifferAt(p, q, k)
BY DEF PreBelow, Begins, DifferAt, Same

\* The comparison of pre-releases is their precedence.
LEMMA PreCompared ==
    ASSUME Plain, NEW p \in Seq(Identifiers), NEW q \in Seq(Identifiers)
    PROVE  /\ ComparePre(p, q) \in {-1, 0, 1}
           /\ ComparePre(p, q) = -1 <=> PreBelow(p, q)
           /\ ComparePre(p, q) = 1 <=> PreBelow(q, p)
<1>1. Len(p) \in Nat /\ Len(q) \in Nat /\ (p = <<>> <=> Len(p) = 0) /\ (q = <<>> <=> Len(q) = 0)
  OBVIOUS
<1>2. CASE p = <<>> \/ q = <<>>
  BY <1>1, <1>2, PreBelowIs DEF ComparePre, Begins, DifferAt
<1>3. CASE p # <<>> /\ q # <<>>
  <2> DEFINE n == IF Len(p) < Len(q) THEN Len(p) ELSE Len(q)
             cs == [i \in 1 .. n |-> CompareIdentifiers(p[i], q[i])]
  <2>1. n \in Nat /\ n <= Len(p) /\ n <= Len(q)
    BY <1>1
  <2>2. \A i \in 1 .. n : p[i] \in Identifiers /\ q[i] \in Identifiers
    BY <1>1, <2>1
  <2>3. \A i \in 1 .. n :
           /\ cs[i] \in {-1, 0, 1}
           /\ cs[i] = -1 <=> IdentifierBelow(p[i], q[i])
           /\ cs[i] = 1 <=> IdentifierBelow(q[i], p[i])
           /\ cs[i] = 0 <=> Same(p[i], q[i])
    BY <2>2, IdentifiersCompared DEF Same
  <2>4. cs \in Seq(Int) /\ DOMAIN cs = 1 .. n
    <3>1. \A i \in 1 .. n : CompareIdentifiers(p[i], q[i]) \in Int
      <4>1. \A i \in 1 .. n : CompareIdentifiers(p[i], q[i]) \in {-1, 0, 1}
        BY <2>2, IdentifiersCompared
      <4> QED BY <4>1
    <3> HIDE DEF n
    <3>2. cs \in [1 .. n -> Int]
      BY <3>1
    <3> HIDE DEF cs
    <3> QED BY <2>1, <3>2
  <2>5. ComparePre(p, q) = FirstDifference(cs, CmpInt(Len(p), Len(q)))
    BY <1>3, Zenon DEF ComparePre, ComparePreAsListed
  <2> HIDE DEF cs
  <2>6. CASE /\ \A i \in DOMAIN cs : cs[i] = 0
             /\ ComparePre(p, q) = CmpInt(Len(p), Len(q))
    <3>1. \A i \in 1 .. n : Same(p[i], q[i]) /\ ~IdentifierBelow(p[i], q[i]) /\ ~IdentifierBelow(q[i], p[i])
      BY <2>3, <2>4, <2>6 DEF Same
    <3>2. \A k : ~DifferAt(p, q, k) /\ ~DifferAt(q, p, k)
      BY <1>1, <2>1, <3>1 DEF DifferAt
    <3>3. (Begins(p, q) <=> Len(p) < Len(q)) /\ (Begins(q, p) <=> Len(q) < Len(p))
      BY <1>1, <2>1, <3>1 DEF Begins, Same
    <3>4. (PreBelow(p, q) <=> Len(p) < Len(q)) /\ (PreBelow(q, p) <=> Len(q) < Len(p))
      BY <1>3, <3>2, <3>3, PreBelowIs
    <3> QED BY <1>1, <2>6, <3>4 DEF CmpInt
  <2>7. ASSUME NEW k \in DOMAIN cs, cs[k] # 0, ComparePre(p, q) = cs[k],
               \A j \in 1 .. k - 1 : cs[j] = 0
        PROVE  /\ ComparePre(p, q) \in {-1, 0, 1}
               /\ ComparePre(p, q) = -1 <=> PreBelow(p, q)
               /\ ComparePre(p, q) = 1 <=> PreBelow(q, p)
    <3>1. k \in 1 .. n /\ k \in 1 .. Len(p) /\ k \in 1 .. Len(q) /\ k <= Len(p) /\ k <= Len(q)
      BY <1>1, <2>1, <2>4
    <3>2. \A j \in 1 .. k - 1 : Same(p[j], q[j]) /\ Same(q[j], p[j])
      <4>1. \A j \in 1 .. k - 1 : j \in 1 .. n
        BY <2>1, <3>1
      <4> QED BY <2>3, <2>7, <4>1 DEF Same
    <3>3. ~Same(p[k], q[k]) /\ ~Same(q[k], p[k])
      BY <2>3, <2>7, <3>1 DEF Same
    <3>4. ~Begins(p, q) /\ ~Begins(q, p)
      BY <3>1, <3>3 DEF Begins
    <3>5. \A j : DifferAt(p, q, j) \/ DifferAt(q, p, j) => j = k
      <4> SUFFICES ASSUME NEW j, DifferAt(p, q, j) \/ DifferAt(q, p, j), j # k PROVE FALSE
        OBVIOUS
      <4>1. j \in Nat /\ k \in Nat /\ j >= 1 /\ k >= 1 /\ ~Same(p[j], q[j])
        BY <1>1, <3>1 DEF DifferAt, Same
      <4>2. CASE j < k
        BY <3>2, <4>1, <4>2
      <4>3. CASE k < j
        <5>1. k \in 1 .. j - 1
          BY <4>1, <4>3
        <5> QED BY <3>3, <5>1 DEF DifferAt
      <4> QED BY <4>1, <4>2, <4>3
    <3>6. (DifferAt(p, q, k) <=> IdentifierBelow(p[k], q[k])) /\ (DifferAt(q, p, k) <=> IdentifierBelow(q[k], p[k]))
      BY <3>1, <3>2 DEF DifferAt
    <3>7. (PreBelow(p, q) <=> IdentifierBelow(p[k], q[k])) /\ (PreBelow(q, p) <=> IdentifierBelow(q[k], p[k]))
      BY <1>3, <3>1, <3>4, <3>5, <3>6, PreBelowIs
    <3> QED BY <2>3, <2>7, <3>1, <3>7
  <2> QED BY <2>4, <2>5, <2>6, <2>7, DifferenceIs
<1> QED BY <1>2, <1>3

-----------------------------------------------------------------------------
\* Versions compare as §11 has them.
LEMMA VersionsCompared ==
    ASSUME Plain, NEW a \in Version, NEW b \in Version
    PROVE  /\ CompareSemver(a, b) \in {-1, 0, 1}
           /\ CompareSemver(a, b) = -1 <=> Below(a, b)
           /\ CompareSemver(a, b) = 1 <=> Below(b, a)
<1> DEFINE cs == [i \in 1 .. 3 |-> CmpInt(a.nums[i], b.nums[i])]
           last == ComparePre(a.pre, b.pre)
<1>1. /\ a.nums \in [1 .. 3 -> Int] /\ b.nums \in [1 .. 3 -> Int]
      /\ a.pre \in Seq(Identifiers) /\ b.pre \in Seq(Identifiers)
  BY MaxIntAssumption DEF Version, Int64
<1>2. \A i \in 1 .. 3 : a.nums[i] \in Int /\ b.nums[i] \in Int
  BY <1>1
<1>3. \A i \in 1 .. 3 : /\ cs[i] \in {-1, 0, 1}
                        /\ cs[i] = -1 <=> a.nums[i] < b.nums[i]
                        /\ cs[i] = 1 <=> b.nums[i] < a.nums[i]
                        /\ cs[i] = 0 <=> a.nums[i] = b.nums[i]
  BY <1>2 DEF CmpInt
<1>4. cs \in Seq(Int) /\ DOMAIN cs = 1 .. 3
  <2>1. cs \in [1 .. 3 -> Int]
    BY <1>3
  <2>2. PICK n \in Nat : n = 3
    OBVIOUS
  <2> HIDE DEF cs
  <2>3. cs \in [1 .. n -> Int]
    BY <2>1, <2>2
  <2>4. cs \in Seq(Int) /\ DOMAIN cs = 1 .. n
    BY <2>3
  <2> QED BY <2>2, <2>4
<1>5. CompareSemver(a, b) = FirstDifference(cs, last)
  BY DEF CompareSemver
<1>6. /\ last \in {-1, 0, 1}
      /\ last = -1 <=> PreBelow(a.pre, b.pre)
      /\ last = 1 <=> PreBelow(b.pre, a.pre)
  BY <1>1, PreCompared
<1>7. a.nums = b.nums <=> \A i \in 1 .. 3 : a.nums[i] = b.nums[i]
  BY <1>1
<1> HIDE DEF cs, last
<1>8. CASE (\A i \in DOMAIN cs : cs[i] = 0) /\ FirstDifference(cs, last) = last
  <2>1. \A i \in 1 .. 3 : a.nums[i] = b.nums[i] /\ ~(a.nums[i] < b.nums[i]) /\ ~(b.nums[i] < a.nums[i])
    BY <1>2, <1>3, <1>4, <1>8
  <2>2. (Below(a, b) <=> PreBelow(a.pre, b.pre)) /\ (Below(b, a) <=> PreBelow(b.pre, a.pre))
    BY <1>7, <2>1 DEF Below
  <2> QED BY <1>5, <1>6, <1>8, <2>2
<1>9. ASSUME NEW k \in DOMAIN cs, cs[k] # 0, FirstDifference(cs, last) = cs[k],
             \A j \in 1 .. k - 1 : cs[j] = 0
      PROVE  /\ CompareSemver(a, b) \in {-1, 0, 1}
             /\ CompareSemver(a, b) = -1 <=> Below(a, b)
             /\ CompareSemver(a, b) = 1 <=> Below(b, a)
  <2>1. k \in 1 .. 3 /\ a.nums # b.nums
    BY <1>3, <1>4, <1>7, <1>9
  <2>2. \A j \in 1 .. k - 1 : a.nums[j] = b.nums[j]
    <3>1. \A j \in 1 .. k - 1 : j \in 1 .. 3
      BY <2>1
    <3> QED BY <1>3, <1>9, <3>1
  <2>3. a.nums[k] # b.nums[k] /\ a.nums[k] \in Int /\ b.nums[k] \in Int
    BY <1>2, <1>3, <1>9, <2>1
  <2>4. ASSUME NEW i \in 1 .. 3, a.nums[i] # b.nums[i], \A j \in 1 .. i - 1 : a.nums[j] = b.nums[j]
        PROVE  i = k
    BY <2>1, <2>2, <2>3, <2>4
  <2>5. (Below(a, b) <=> a.nums[k] < b.nums[k]) /\ (Below(b, a) <=> b.nums[k] < a.nums[k])
    <3>1. Below(a, b) => a.nums[k] < b.nums[k]
      <4> SUFFICES ASSUME Below(a, b) PROVE a.nums[k] < b.nums[k]
        OBVIOUS
      <4>1. PICK i \in 1 .. 3 : a.nums[i] < b.nums[i] /\ \A j \in 1 .. i - 1 : a.nums[j] = b.nums[j]
        BY <2>1 DEF Below
      <4>2. a.nums[i] # b.nums[i]
        BY <1>2, <4>1
      <4> QED BY <2>4, <4>1, <4>2
    <3>2. Below(b, a) => b.nums[k] < a.nums[k]
      <4> SUFFICES ASSUME Below(b, a) PROVE b.nums[k] < a.nums[k]
        OBVIOUS
      <4>1. PICK i \in 1 .. 3 : b.nums[i] < a.nums[i] /\ \A j \in 1 .. i - 1 : b.nums[j] = a.nums[j]
        BY <2>1 DEF Below
      <4>2. a.nums[i] # b.nums[i]
        BY <1>2, <4>1
      <4> QED BY <2>4, <4>1, <4>2
    <3>3. (a.nums[k] < b.nums[k] => Below(a, b)) /\ (b.nums[k] < a.nums[k] => Below(b, a))
      BY <2>1, <2>2 DEF Below
    <3> QED BY <3>1, <3>2, <3>3
  <2> QED BY <1>3, <1>5, <1>9, <2>1, <2>5
<1> QED BY <1>4, <1>8, <1>9, DifferenceIs

\* What a text is: the parts between its dots, and identifiers.
TextOK(t) == t.parts \in Seq(Optional(Int)) /\ t.pre \in Seq(Identifiers)

\* The client reports versions, and the condition holds some text.
TextsOK ==
    /\ text \in [parts : Seq(0 .. MaxPart), pre : Seq(Identifiers)]
    /\ Len(text.parts) \in 1 .. 3
    /\ gate \in Gates

\* A text that can be read is a version.
LEMMA ParsedIs ==
    ASSUME NEW t, TextOK(t), ParseSemver(t) # Nil
    PROVE  ParseSemver(t) \in Version
<1> DEFINE part(i) == ParseInt(t.parts[i])
<1>1. /\ Len(t.parts) \in 1 .. 3 /\ \A i \in 1 .. Len(t.parts) : part(i) # Nil
      /\ ParseSemver(t)
           = [nums |-> [i \in 1 .. 3 |-> IF i <= Len(t.parts) THEN part(i) ELSE 0], pre |-> t.pre]
  BY DEF ParseSemver
<1>2. \A i \in 1 .. 3 : (IF i <= Len(t.parts) THEN part(i) ELSE 0) \in Int64
  <2>1. 0 \in Int64
    BY MaxIntAssumption DEF Int64
  <2>2. \A i \in 1 .. Len(t.parts) : part(i) \in Int64
    BY <1>1 DEF ParseInt
  <2>3. \A i \in 1 .. 3 : i <= Len(t.parts) => i \in 1 .. Len(t.parts)
    BY <1>1
  <2> QED BY <2>1, <2>2, <2>3
<1>3. t.pre \in Seq(Identifiers)
  BY DEF TextOK
<1> HIDE DEF part
<1> QED BY <1>1, <1>2, <1>3 DEF Version

\* The four tests of two texts, by the precedence of what they read as.
LEMMA MatchIs ==
    ASSUME Plain, NEW v, TextOK(v), NEW r, TextOK(r)
    PROVE  LET a == ParseSemver(v)
               b == ParseSemver(r)
               readable == a # Nil /\ b # Nil
           IN /\ MatchSemver("semverLt", v, r) <=> readable /\ Below(a, b)
              /\ MatchSemver("semverGt", v, r) <=> readable /\ Below(b, a)
              /\ MatchSemver("semverGte", v, r) <=> readable /\ ~Below(a, b)
              /\ MatchSemver("semverLte", v, r) <=> readable /\ ~Below(b, a)
<1> DEFINE a == ParseSemver(v)
           b == ParseSemver(r)
<1>1. CASE a = Nil \/ b = Nil
  BY <1>1 DEF MatchSemver
<1>2. CASE a # Nil /\ b # Nil
  <2>1. a \in Version /\ b \in Version
    BY <1>2, ParsedIs
  <2>2. /\ CompareSemver(a, b) \in {-1, 0, 1}
        /\ CompareSemver(a, b) = -1 <=> Below(a, b)
        /\ CompareSemver(a, b) = 1 <=> Below(b, a)
    BY <2>1, VersionsCompared
  <2>3. /\ MatchSemver("semverLt", v, r) <=> CompareSemver(a, b) < 0
        /\ MatchSemver("semverGt", v, r) <=> CompareSemver(a, b) > 0
        /\ MatchSemver("semverGte", v, r) <=> CompareSemver(a, b) >= 0
        /\ MatchSemver("semverLte", v, r) <=> CompareSemver(a, b) <= 0
    BY <1>2 DEF MatchSemver
  <2> HIDE DEF a, b
  <2>4. /\ MatchSemver("semverLt", v, r) <=> Below(a, b)
        /\ MatchSemver("semverGt", v, r) <=> Below(b, a)
        /\ MatchSemver("semverGte", v, r) <=> ~Below(a, b)
        /\ MatchSemver("semverLte", v, r) <=> ~Below(b, a)
    BY <2>2, <2>3
  <2> QED BY <1>2, <2>4 DEF a, b
<1> QED BY <1>1, <1>2

\* A list of n elements of a set.
LEMMA IsSeq == ASSUME NEW T, NEW n \in Nat, NEW s \in [1 .. n -> T] PROVE s \in Seq(T) /\ Len(s) = n
OBVIOUS

\* Whatever the client reports stays a version.
LEMMA TextsHold == VersionSpec => []TextsOK
<1>1. VersionInit => TextsOK
  <2> SUFFICES ASSUME VersionInit PROVE TextsOK
    OBVIOUS
  <2>1. gate \in Gates
    BY DEF VersionInit
  <2>2. CASE text = [parts |-> <<0>>, pre |-> <<>>]
    BY <2>1, <2>2, GatesAssumption DEF TextsOK
  <2>3. ASSUME NEW i \in Identifiers, text = [parts |-> <<0, 0>>, pre |-> <<i>>] PROVE TextsOK
    BY <2>1, <2>3, GatesAssumption DEF TextsOK
  <2> QED BY <2>2, <2>3 DEF VersionInit
<1>2. TextsOK /\ [VersionNext]_versionVars => TextsOK'
  <2> SUFFICES ASSUME TextsOK, [VersionNext]_versionVars PROVE TextsOK'
    OBVIOUS
  <2>1. /\ text.parts \in Seq(0 .. MaxPart) /\ Len(text.parts) \in 1 .. 3
        /\ text.pre \in Seq(Identifiers) /\ gate \in Gates
    BY DEF TextsOK
  <2>2. CASE Bump
    <3>1. PICK i \in 1 .. 3, n \in 1 .. 3, pre \in {<<>>} \cup {<<j>> : j \in Identifiers} :
             /\ Nums[i] < MaxPart
             /\ text' = [parts |-> [k \in 1 .. n |->
                                      IF k < i THEN Nums[k] ELSE IF k = i THEN Nums[k] + 1 ELSE 0],
                         pre |-> pre]
             /\ gate' = gate
      BY <2>2 DEF Bump
    <3>2. pre \in Seq(Identifiers)
      <4>1. ASSUME NEW j \in Identifiers PROVE <<j>> \in Seq(Identifiers)
        OBVIOUS
      <4>2. <<>> \in Seq(Identifiers)
        OBVIOUS
      <4>3. pre = <<>> \/ \E j \in Identifiers : pre = <<j>>
        OBVIOUS
      <4> QED BY <4>1, <4>2, <4>3, Zenon
    <3>3. \A k \in 1 .. 3 : Nums[k] \in 0 .. MaxPart
      BY <2>1, GatesAssumption DEF Nums
    <3>4. [k \in 1 .. n |-> IF k < i THEN Nums[k] ELSE IF k = i THEN Nums[k] + 1 ELSE 0]
            \in [1 .. n -> 0 .. MaxPart]
      BY <3>1, <3>3, GatesAssumption
    <3>5. text'.parts \in [1 .. n -> 0 .. MaxPart] /\ text'.pre = pre /\ n \in Nat
      BY <3>1, <3>4
    <3>6. text'.parts \in Seq(0 .. MaxPart) /\ Len(text'.parts) = n
      <4>1. PICK parts : parts = text'.parts
        OBVIOUS
      <4>2. PICK len \in Nat : len = n
        BY <3>5
      <4>3. parts \in [1 .. len -> 0 .. MaxPart]
        BY <3>5, <4>1, <4>2
      <4>4. parts \in Seq(0 .. MaxPart) /\ Len(parts) = len
        BY <4>3, IsSeq
      <4> QED BY <4>1, <4>2, <4>4
    <3> QED BY <2>1, <3>1, <3>2, <3>5, <3>6 DEF TextsOK
  <2>3. ASSUME NEW pre \in Seq(Identifiers), text' = [text EXCEPT !.pre = pre], gate' = gate
        PROVE  TextsOK'
    <3>1. text' = [parts |-> text.parts, pre |-> pre]
      BY <2>3 DEF TextsOK
    <3> QED BY <2>1, <2>3, <3>1 DEF TextsOK
  <2>4. CASE Advance
    <3>1. PICK k \in 1 .. Len(text.pre), j \in Identifiers :
             /\ text' = [text EXCEPT !.pre = Append(SubSeq(@, 1, k - 1), j)]
             /\ gate' = gate
      BY <2>4 DEF Advance
    <3>2. Append(SubSeq(text.pre, 1, k - 1), j) \in Seq(Identifiers)
      BY <2>1
    <3> QED BY <2>3, <3>1, <3>2
  <2>5. CASE Extend
    <3>1. PICK j \in Identifiers : text' = [text EXCEPT !.pre = Append(@, j)] /\ gate' = gate
      BY <2>5 DEF Extend
    <3>2. Append(text.pre, j) \in Seq(Identifiers)
      BY <2>1
    <3> QED BY <2>3, <3>1, <3>2
  <2>6. CASE Release
    <3>1. <<>> \in Seq(Identifiers)
      OBVIOUS
    <3> QED BY <2>3, <2>6, <3>1 DEF Release
  <2>7. CASE UNCHANGED versionVars
    BY <2>1, <2>7 DEF versionVars, TextsOK
  <2> QED BY <2>2, <2>4, <2>5, <2>6, <2>7 DEF VersionNext
<1> QED BY <1>1, <1>2, PTL DEF VersionSpec

\* The texts of the condition and of the client are texts.
LEMMA TextsAre == ASSUME TextsOK PROVE TextOK(text) /\ TextOK(gate)
<1>1. \A s \in Seq(0 .. MaxPart) : s \in Seq(Optional(Int))
  BY GatesAssumption DEF Optional
<1> QED BY <1>1, GatesAssumption DEF TextsOK, TextOK

\* FollowsPrecedence: the four tests order versions as §11 does.  It needs that
\* every pre-release identifier reads as a number exactly if it is made of digits:
\* one with a hyphen, or too many digits, does not (see the run HyphenedVersions).
THEOREM FollowsPrecedenceHolds == ASSUME Plain PROVE VersionSpec => []FollowsPrecedence
<1>1. TextsOK => FollowsPrecedence
  BY TextsAre, MatchIs, Zenon DEF FollowsPrecedence
<1> QED BY <1>1, TextsHold, PTL

-----------------------------------------------------------------------------
\* Precedence of pre-releases is an order.
LEMMA PreBelowOrder ==
    ASSUME NEW p \in Seq(Identifiers), NEW q \in Seq(Identifiers), NEW r \in Seq(Identifiers),
           PreBelow(p, q), PreBelow(q, r)
    PROVE  PreBelow(p, r)
<1>1. /\ Len(p) \in Nat /\ Len(q) \in Nat /\ Len(r) \in Nat
      /\ p = <<>> <=> Len(p) = 0
      /\ q = <<>> <=> Len(q) = 0
      /\ r = <<>> <=> Len(r) = 0
      /\ \A i \in 1 .. Len(p) : p[i] \in Identifiers
      /\ \A i \in 1 .. Len(q) : q[i] \in Identifiers
      /\ \A i \in 1 .. Len(r) : r[i] \in Identifiers
  OBVIOUS
<1>2. p # <<>> /\ q # <<>>
  BY <1>1, PreBelowIs DEF DifferAt
<1>3. CASE r = <<>>
  BY <1>2, <1>3, PreBelowIs
<1>4. ASSUME Begins(p, q), Begins(q, r) PROVE PreBelow(p, r)
  <2>1. Len(p) < Len(r) /\ \A k \in 1 .. Len(p) : k \in 1 .. Len(q) /\ k \in 1 .. Len(r)
    BY <1>1, <1>4 DEF Begins
  <2>2. ASSUME NEW k \in 1 .. Len(p) PROVE Same(p[k], r[k])
    <3>1. Same(p[k], q[k]) /\ Same(q[k], r[k])
      BY <1>4, <2>1 DEF Begins
    <3>2. p[k] \in Identifiers /\ q[k] \in Identifiers /\ r[k] \in Identifiers
      BY <1>1, <2>1
    <3> QED BY <3>1, <3>2, IdentifiersOrdered
  <2>3. Begins(p, r)
    BY <2>1, <2>2 DEF Begins
  <2> QED BY <1>2, <2>3, PreBelowIs
<1>5. ASSUME Begins(p, q), NEW k \in 1 .. Len(q), DifferAt(q, r, k) PROVE PreBelow(p, r)
  <2>1. CASE k <= Len(p)
    <3>1. k \in 1 .. Len(p) /\ k \in 1 .. Len(r) /\ k <= Len(r)
      BY <1>1, <1>5, <2>1 DEF DifferAt
    <3>2. ASSUME NEW j \in 1 .. k - 1 PROVE Same(p[j], r[j])
      <4>1. j \in 1 .. Len(p) /\ j \in 1 .. Len(q) /\ j \in 1 .. Len(r)
        BY <1>1, <3>1
      <4>2. Same(p[j], q[j]) /\ Same(q[j], r[j])
        BY <1>5, <4>1 DEF Begins, DifferAt
      <4>3. p[j] \in Identifiers /\ q[j] \in Identifiers /\ r[j] \in Identifiers
        BY <1>1, <4>1
      <4> QED BY <4>2, <4>3, IdentifiersOrdered
    <3>3. Same(p[k], q[k]) /\ IdentifierBelow(q[k], r[k])
      BY <1>5, <3>1 DEF Begins, DifferAt
    <3>4. p[k] \in Identifiers /\ q[k] \in Identifiers /\ r[k] \in Identifiers
      BY <1>1, <3>1
    <3>5. IdentifierBelow(p[k], r[k])
      BY <3>3, <3>4, IdentifiersOrdered
    <3>6. DifferAt(p, r, k)
      BY <3>1, <3>2, <3>5 DEF DifferAt
    <3> QED BY <3>1, <3>6, PreBelowIs
  <2>2. CASE ~(k <= Len(p))
    <3>1. Len(p) < k /\ k <= Len(r) /\ k \in Nat
      BY <1>1, <1>5, <2>2 DEF DifferAt
    <3>2. ASSUME NEW j \in 1 .. Len(p) PROVE Same(p[j], r[j])
      <4>1. j \in 1 .. k - 1 /\ j \in 1 .. Len(q) /\ j \in 1 .. Len(r)
        BY <1>1, <3>1
      <4>2. Same(p[j], q[j]) /\ Same(q[j], r[j])
        BY <1>5, <4>1 DEF Begins, DifferAt
      <4>3. p[j] \in Identifiers /\ q[j] \in Identifiers /\ r[j] \in Identifiers
        BY <1>1, <4>1
      <4> QED BY <4>2, <4>3, IdentifiersOrdered
    <3>3. Len(p) < Len(r)
      BY <1>1, <3>1
    <3>4. Begins(p, r)
      BY <3>2, <3>3 DEF Begins
    <3> QED BY <1>2, <3>4, PreBelowIs
  <2> QED BY <2>1, <2>2
<1>6. ASSUME NEW k \in 1 .. Len(p), DifferAt(p, q, k), NEW l \in 1 .. Len(q) \cup {Len(q) + 1},
             l <= Len(r) \/ l = Len(q) + 1, l = Len(q) + 1 \/ IdentifierBelow(q[l], r[l]),
             Len(q) < Len(r) \/ l <= Len(q),
             \A j \in 1 .. l - 1 : Same(q[j], r[j])
      PROVE  PreBelow(p, r)
  <2>1. k <= Len(q) /\ IdentifierBelow(p[k], q[k]) /\ \A j \in 1 .. k - 1 : Same(p[j], q[j])
    BY <1>6 DEF DifferAt
  <2>2. PICK m \in {k, l} : m <= k /\ m <= l
    BY <1>1
  <2>3. m \in 1 .. Len(p) /\ m \in 1 .. Len(q) /\ m \in 1 .. Len(r) /\ m <= Len(r)
    BY <1>1, <1>6, <2>1, <2>2
  <2>4. ASSUME NEW j \in 1 .. m - 1 PROVE Same(p[j], r[j])
    <3>1. /\ j \in 1 .. k - 1 /\ j \in 1 .. l - 1
          /\ j \in 1 .. Len(p) /\ j \in 1 .. Len(q) /\ j \in 1 .. Len(r)
      BY <1>1, <2>2, <2>3
    <3>2. Same(p[j], q[j]) /\ Same(q[j], r[j])
      BY <1>6, <2>1, <3>1
    <3>3. p[j] \in Identifiers /\ q[j] \in Identifiers /\ r[j] \in Identifiers
      BY <1>1, <3>1
    <3> QED BY <3>2, <3>3, IdentifiersOrdered
  <2>5. p[m] \in Identifiers /\ q[m] \in Identifiers /\ r[m] \in Identifiers
    BY <1>1, <2>3
  <2>6. \/ IdentifierBelow(p[m], q[m]) /\ IdentifierBelow(q[m], r[m])
        \/ IdentifierBelow(p[m], q[m]) /\ Same(q[m], r[m])
        \/ Same(p[m], q[m]) /\ IdentifierBelow(q[m], r[m])
    <3>1. CASE k < l
      <4>1. m = k /\ k \in 1 .. l - 1
        BY <1>1, <2>2, <3>1
      <4> QED BY <1>6, <2>1, <4>1
    <3>2. CASE l < k
      <4>1. m = l /\ l \in 1 .. k - 1 /\ l # Len(q) + 1
        BY <1>1, <2>1, <2>2, <3>2
      <4> QED BY <1>6, <2>1, <4>1
    <3>3. CASE l = k
      <4>1. m = k /\ l # Len(q) + 1
        BY <1>1, <2>1, <2>2, <3>3
      <4> QED BY <1>6, <2>1, <3>3, <4>1
    <3> QED BY <1>1, <3>1, <3>2, <3>3
  <2>7. IdentifierBelow(p[m], r[m])
    BY <2>5, <2>6, IdentifiersOrdered
  <2>8. DifferAt(p, r, m)
    BY <2>3, <2>4, <2>7 DEF DifferAt
  <2> QED BY <2>3, <2>8, PreBelowIs
<1>7. ASSUME NEW k \in 1 .. Len(p), DifferAt(p, q, k), Begins(q, r) PROVE PreBelow(p, r)
  <2>1. Len(q) < Len(r) /\ \A j \in 1 .. (Len(q) + 1) - 1 : Same(q[j], r[j])
    BY <1>1, <1>7 DEF Begins
  <2> QED BY <1>6, <1>7, <2>1
<1>8. ASSUME NEW k \in 1 .. Len(p), DifferAt(p, q, k), NEW l \in 1 .. Len(q), DifferAt(q, r, l)
      PROVE  PreBelow(p, r)
  <2>1. l <= Len(r) /\ l <= Len(q) /\ IdentifierBelow(q[l], r[l]) /\ \A j \in 1 .. l - 1 : Same(q[j], r[j])
    BY <1>1, <1>8 DEF DifferAt
  <2> QED BY <1>6, <1>8, <2>1
<1>9. Begins(p, q) \/ \E k \in 1 .. Len(p) : DifferAt(p, q, k)
  BY <1>2, PreBelowIs
<1>10. r # <<>> => Begins(q, r) \/ \E k \in 1 .. Len(q) : DifferAt(q, r, k)
  BY <1>2, PreBelowIs
<1> QED BY <1>3, <1>4, <1>5, <1>7, <1>8, <1>9, <1>10

\* Precedence is an order.
LEMMA BelowOrder ==
    ASSUME NEW a \in Version, NEW b \in Version, NEW c \in Version, Below(a, b), Below(b, c)
    PROVE  Below(a, c)
<1>1. /\ a.nums \in [1 .. 3 -> Int] /\ b.nums \in [1 .. 3 -> Int] /\ c.nums \in [1 .. 3 -> Int]
      /\ a.pre \in Seq(Identifiers) /\ b.pre \in Seq(Identifiers) /\ c.pre \in Seq(Identifiers)
  BY MaxIntAssumption DEF Version, Int64
<1>2. CASE a.nums = b.nums /\ b.nums = c.nums
  <2>1. PreBelow(a.pre, b.pre) /\ PreBelow(b.pre, c.pre)
    BY <1>1, <1>2 DEF Below
  <2> QED BY <1>1, <1>2, <2>1, PreBelowOrder DEF Below
<1>3. CASE a.nums # b.nums /\ b.nums = c.nums
  BY <1>3 DEF Below
<1>4. CASE a.nums = b.nums /\ b.nums # c.nums
  BY <1>4 DEF Below
<1>5. CASE a.nums # b.nums /\ b.nums # c.nums
  <2>1. PICK i \in 1 .. 3 : a.nums[i] < b.nums[i] /\ \A j \in 1 .. i - 1 : a.nums[j] = b.nums[j]
    BY <1>5 DEF Below
  <2>2. PICK k \in 1 .. 3 : b.nums[k] < c.nums[k] /\ \A j \in 1 .. k - 1 : b.nums[j] = c.nums[j]
    BY <1>5 DEF Below
  <2>3. \A j \in 1 .. 3 : a.nums[j] \in Int /\ b.nums[j] \in Int /\ c.nums[j] \in Int
    BY <1>1
  <2>4. PICK m \in {i, k} : m <= i /\ m <= k
    OBVIOUS
  <2>5. m \in 1 .. 3 /\ \A j \in 1 .. m - 1 : a.nums[j] = c.nums[j]
    BY <2>1, <2>2, <2>4
  <2>6. a.nums[m] < c.nums[m]
    <3>1. CASE i < k
      BY <2>1, <2>2, <2>3, <2>4, <3>1
    <3>2. CASE k < i
      BY <2>1, <2>2, <2>3, <2>4, <3>2
    <3>3. CASE i = k
      BY <2>1, <2>2, <2>3, <2>4, <3>3
    <3> QED BY <3>1, <3>2, <3>3
  <2> QED BY <2>5, <2>6 DEF Below
<1> QED BY <1>2, <1>3, <1>4, <1>5

\* The elements of a list.
LEMMA ElementIs == ASSUME NEW T, NEW s \in Seq(T), NEW i \in 1 .. Len(s) PROVE s[i] \in T
OBVIOUS

\* What a text of the client reads as.
LEMMA ReadAs ==
    ASSUME NEW t, t.parts \in Seq(0 .. MaxPart), Len(t.parts) \in 1 .. 3, t.pre \in Seq(Identifiers)
    PROVE  /\ ParseSemver(t) # Nil /\ ParseSemver(t) \in Version /\ ParseSemver(t).pre = t.pre
           /\ \A i \in 1 .. 3 : ParseSemver(t).nums[i] = IF i <= Len(t.parts) THEN t.parts[i] ELSE 0
<1> DEFINE read == [nums |-> [i \in 1 .. 3 |-> IF i <= Len(t.parts) THEN ParseInt(t.parts[i]) ELSE 0],
                    pre |-> t.pre]
<1>1. \A i \in 1 .. Len(t.parts) : t.parts[i] \in 0 .. MaxPart
  BY ElementIs
<1>2. \A i \in 1 .. Len(t.parts) :
         /\ ParseInt(t.parts[i]) = t.parts[i] /\ t.parts[i] # Nil /\ t.parts[i] >= 0
         /\ t.parts[i] \in Int64
  BY <1>1, GatesAssumption, MaxIntAssumption DEF ParseInt, Int64
<1>3. ParseSemver(t) = read
  BY <1>2 DEF ParseSemver
<1>4. \A i \in 1 .. 3 : i <= Len(t.parts) => i \in 1 .. Len(t.parts)
  OBVIOUS
<1>5. 0 \in Int64
  BY MaxIntAssumption DEF Int64
<1>6. \A i \in 1 .. 3 : (IF i <= Len(t.parts) THEN ParseInt(t.parts[i]) ELSE 0) \in Int64
  BY <1>2, <1>4, <1>5
<1>7. read \in Version
  BY <1>6 DEF Version
<1>8. /\ read.pre = t.pre
      /\ \A i \in 1 .. 3 : read.nums[i] = IF i <= Len(t.parts) THEN t.parts[i] ELSE 0
  BY <1>2, <1>4
<1> QED BY <1>3, <1>7, <1>8, GatesAssumption

\* Every release is above the one before it.
LEMMA Upgrades ==
    ASSUME TextsOK, TextsOK', VersionNext
    PROVE  /\ ParseSemver(text) \in Version /\ ParseSemver(text') \in Version
           /\ ParseSemver(text) # Nil /\ ParseSemver(text') # Nil
           /\ Below(ParseSemver(text), ParseSemver(text'))
<1> DEFINE a == ParseSemver(text)
           b == ParseSemver(text')
<1>1. /\ a # Nil /\ a \in Version /\ a.pre = text.pre
      /\ \A i \in 1 .. 3 : a.nums[i] = IF i <= Len(text.parts) THEN text.parts[i] ELSE 0
  BY ReadAs DEF TextsOK
<1>2. /\ b # Nil /\ b \in Version /\ b.pre = text'.pre
      /\ \A i \in 1 .. 3 : b.nums[i] = IF i <= Len(text'.parts) THEN text'.parts[i] ELSE 0
  BY ReadAs DEF TextsOK
<1>3. /\ \A i \in 1 .. 3 : a.nums[i] \in Int /\ b.nums[i] \in Int
      /\ a.nums \in [1 .. 3 -> Int] /\ b.nums \in [1 .. 3 -> Int]
  BY <1>1, <1>2, MaxIntAssumption DEF Version, Int64
<1>4. text.pre \in Seq(Identifiers) /\ Len(text.pre) \in Nat
  BY DEF TextsOK
<1> HIDE DEF a, b
<1>5. CASE Bump
  <2>1. PICK i \in 1 .. 3, n \in 1 .. 3, pre \in {<<>>} \cup {<<j>> : j \in Identifiers} :
           /\ i <= n
           /\ text' = [parts |-> [k \in 1 .. n |->
                                    IF k < i THEN Nums[k] ELSE IF k = i THEN Nums[k] + 1 ELSE 0],
                       pre |-> pre]
    BY <1>5 DEF Bump
  <2>2. \A k \in 1 .. 3 : Nums[k] = a.nums[k]
    BY <1>1 DEF Nums
  <2>3. \A k \in 1 .. n :
           text'.parts[k] = IF k < i THEN Nums[k] ELSE IF k = i THEN Nums[k] + 1 ELSE 0
    BY <2>1
  <2>4. Len(text'.parts) = n
    BY <2>1
  <2>5. b.nums[i] = a.nums[i] + 1 /\ \A j \in 1 .. i - 1 : b.nums[j] = a.nums[j]
    BY <1>2, <2>1, <2>2, <2>3, <2>4
  <2>6. a.nums[i] < b.nums[i] /\ \A j \in 1 .. i - 1 : a.nums[j] = b.nums[j]
    BY <1>3, <2>5
  <2>7. Below(a, b)
    BY <2>6 DEF Below
  <2> QED BY <1>1, <1>2, <2>7 DEF a, b
<1>6. ASSUME text'.parts = text.parts, PreBelow(text.pre, text'.pre) PROVE Below(a, b)
  <2>1. \A i \in 1 .. 3 : a.nums[i] = b.nums[i]
    BY <1>1, <1>2, <1>6
  <2>2. a.nums = b.nums
    BY <1>3, <2>1
  <2> QED BY <1>1, <1>2, <1>6, <2>2 DEF Below
<1>7. CASE Advance
  <2>1. PICK k \in 1 .. Len(text.pre), j \in Identifiers :
           /\ IdentifierBelow(text.pre[k], j)
           /\ text' = [text EXCEPT !.pre = Append(SubSeq(@, 1, k - 1), j)]
    BY <1>7 DEF Advance
  <2> DEFINE q == Append(SubSeq(text.pre, 1, k - 1), j)
  <2>2. text'.parts = text.parts /\ text'.pre = q
    BY <2>1 DEF TextsOK
  <2>3. Len(q) = k /\ q[k] = j /\ \A i \in 1 .. k - 1 : q[i] = text.pre[i] /\ text.pre[i] \in Identifiers
    BY <1>4
  <2> HIDE DEF q
  <2>4. \A i \in 1 .. k - 1 : Same(text.pre[i], q[i])
    BY <2>3, IdentifiersOrdered DEF Same
  <2>5. DifferAt(text.pre, q, k)
    BY <1>4, <2>1, <2>3, <2>4 DEF DifferAt
  <2>6. PreBelow(text.pre, q)
    BY <2>5, PreBelowIs
  <2> QED BY <1>1, <1>2, <1>6, <2>2, <2>6 DEF a, b
<1>8. CASE Extend
  <2>1. PICK j \in Identifiers : text' = [text EXCEPT !.pre = Append(@, j)]
    BY <1>8 DEF Extend
  <2> DEFINE q == Append(text.pre, j)
  <2>2. text'.parts = text.parts /\ text'.pre = q /\ text.pre # <<>>
    <3>1. Len(text.pre) # 0
      BY <1>8, GatesAssumption DEF Extend
    <3> QED BY <1>4, <2>1, <3>1 DEF TextsOK
  <2>3. /\ Len(text.pre) < Len(q)
        /\ \A i \in 1 .. Len(text.pre) : q[i] = text.pre[i] /\ text.pre[i] \in Identifiers
    BY <1>4
  <2> HIDE DEF q
  <2>4. Begins(text.pre, q)
    BY <2>3, IdentifiersOrdered DEF Begins, Same
  <2>5. PreBelow(text.pre, q)
    BY <2>2, <2>4, PreBelowIs
  <2> QED BY <1>1, <1>2, <1>6, <2>2, <2>5 DEF a, b
<1>9. CASE Release
  <2>1. text'.parts = text.parts /\ text'.pre = <<>> /\ text.pre # <<>>
    BY <1>9 DEF Release, TextsOK
  <2>2. PreBelow(text.pre, text'.pre)
    BY <2>1, PreBelowIs
  <2> QED BY <1>1, <1>2, <1>6, <2>1, <2>2 DEF a, b
<1> QED BY <1>5, <1>7, <1>8, <1>9 DEF VersionNext

\* UpgradesNeverRevert: a version gate that a client has passed stays passed.
THEOREM UpgradesNeverRevertHolds == ASSUME Plain PROVE VersionSpec => UpgradesNeverRevert
<1>1. TextsOK /\ TextsOK' /\ [VersionNext]_versionVars
        => [/\ MatchSemver("semverGte", text, gate) => MatchSemver("semverGte", text', gate)
            /\ MatchSemver("semverGt", text, gate) => MatchSemver("semverGt", text', gate)
            /\ MatchSemver("semverLt", text', gate) => MatchSemver("semverLt", text, gate)
            /\ MatchSemver("semverLte", text', gate) => MatchSemver("semverLte", text, gate)]_text
  <2> SUFFICES ASSUME TextsOK, TextsOK', VersionNext
               PROVE  /\ MatchSemver("semverGte", text, gate) => MatchSemver("semverGte", text', gate)
                      /\ MatchSemver("semverGt", text, gate) => MatchSemver("semverGt", text', gate)
                      /\ MatchSemver("semverLt", text', gate) => MatchSemver("semverLt", text, gate)
                      /\ MatchSemver("semverLte", text', gate) => MatchSemver("semverLte", text, gate)
    BY DEF versionVars
  <2> DEFINE a == ParseSemver(text)
             b == ParseSemver(text')
             g == ParseSemver(gate)
  <2>1. a \in Version /\ b \in Version /\ a # Nil /\ b # Nil /\ Below(a, b)
    BY Upgrades
  <2>2. TextOK(text) /\ TextOK(text') /\ TextOK(gate)
    <3>1. \A s \in Seq(0 .. MaxPart) : s \in Seq(Optional(Int))
      BY GatesAssumption DEF Optional
    <3> QED BY <3>1, TextsAre DEF TextsOK, TextOK
  <2>3. /\ MatchSemver("semverLt", text, gate) <=> g # Nil /\ Below(a, g)
        /\ MatchSemver("semverGt", text, gate) <=> g # Nil /\ Below(g, a)
        /\ MatchSemver("semverGte", text, gate) <=> g # Nil /\ ~Below(a, g)
        /\ MatchSemver("semverLte", text, gate) <=> g # Nil /\ ~Below(g, a)
    BY <2>1, <2>2, MatchIs, Zenon
  <2>4. /\ MatchSemver("semverLt", text', gate) <=> g # Nil /\ Below(b, g)
        /\ MatchSemver("semverGt", text', gate) <=> g # Nil /\ Below(g, b)
        /\ MatchSemver("semverGte", text', gate) <=> g # Nil /\ ~Below(b, g)
        /\ MatchSemver("semverLte", text', gate) <=> g # Nil /\ ~Below(g, b)
    BY <2>1, <2>2, MatchIs, Zenon
  <2>5. g # Nil => g \in Version
    BY <2>2, ParsedIs
  <2> HIDE DEF a, b, g
  <2>6. g # Nil => (Below(b, g) => Below(a, g)) /\ (Below(g, a) => Below(g, b))
    BY <2>1, <2>5, BelowOrder
  <2> QED BY <2>3, <2>4, <2>6
<1>2. VersionSpec => [][VersionNext]_versionVars
  BY DEF VersionSpec
<1> QED BY <1>1, <1>2, TextsHold, PTL DEF UpgradesNeverRevert
=============================================================================
