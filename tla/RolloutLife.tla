---------------------------- MODULE RolloutLife ----------------------------
(***************************************************************************)
(* A percentage rollout over time: a team widens, narrows and shifts the   *)
(* portions of one flag's split (flags/flag.go), NewSnapshot accepts each  *)
(* edit or refuses it, and tenants keep being served by                    *)
(* flags/evaluator.go.  The flag lives in Validation's configuration.      *)
(***************************************************************************)
EXTENDS Validation

CONSTANTS
    Arms,       \* the variants of the portions, in order
    Percents,   \* the percentages a team writes, each read as a float64
    Buckets,    \* 10000
    Floats,     \* the finite float64 values
    Error       \* the largest error of rounding a value from 0 to 100

Tenants == 0 .. Buckets - 1

Feature == "feature"

Portions == [variant : ToSet(Arms), percent : Floats]

Rollout(split) == [bucketBy |-> Nil, seed |-> Nil, split |-> split]

\* A tenant for every bucket, and the flag is nobody else's to edit.
ASSUME RolloutAssumption ==
    /\ Buckets \in Nat \ {0} /\ Hundredth \in Nat \ {0} /\ Whole = Buckets * Hundredth
    /\ Arms \in Seq(ToSet(Arms)) /\ Percents \subseteq Floats
    /\ \A t \in Tenants : Hash(Feature, t) = t
    /\ \A list \in FlagLists : list # <<>> => list[1].feature # Feature
    /\ Nil \notin [bucketBy : {Nil}, seed : {Nil}, split : Seq(Portions)]

Distance(x, y) == IF x < y THEN y - x ELSE x - y

IsNearest(f, x) == f \in Floats /\ \A g \in Floats : Distance(x, f) <= Distance(x, g)

\* What is rounded: the sum of two floats, or a number of hundredths.
Exact == {x + y : x, y \in Floats} \cup {t * Hundredth : t \in Tenants}

\* All the errors of a rollout together are within the tolerance, and smaller than
\* a bucket.
ASSUME FloatsAssumption ==
    /\ Floats \subseteq Int /\ 0 \in Floats /\ Error \in Nat /\ Tolerance \in Nat
    /\ \A x \in Exact : IsNearest(Round(x), x)
    /\ \A x \in Exact : {x, Round(x)} \cap (0 .. Whole + Tolerance) # {} =>
          Distance(x, Round(x)) <= Error
    /\ 2 * Len(Arms) * Error <= Tolerance
    /\ (6 + 2 * Len(Arms)) * Error < Hundredth

FlagWith(split) ==
    [feature |-> Feature, enabled |-> TRUE, variants |-> Arms, from |-> Nil, until |-> Nil,
     rules |-> <<>>,
     default |-> [on |-> FALSE, variant |-> Nil, rollout |-> Rollout(split)]]

ConfigWith(split) ==
    [features |-> <<[key |-> Feature, lifecycle |-> "ga", free |-> TRUE, dependsOn |-> <<>>]>>,
     segments |-> <<>>, flags |-> <<FlagWith(split)>>, plans |-> <<>>, addons |-> <<>>]

\* NewSnapshot lets the flag through before it has portions.
ASSUME FlagAssumption == Validate(ConfigWith(<<>>)) = {}

Split == config.flags[1].default.rollout.split

Served(c, t) ==
    LET flag == [c.flags[1] EXCEPT !.variants = ToSet(@)]
        attrs == [tenant |-> [text |-> t, number |-> Nil, elems |-> Nil]]
    IN Serve(flag, Feature, <<>>, attrs)

RolloutInit == config = ConfigWith(<<>>)

Rolling == config.flags # <<>> /\ config.flags[1].feature = Feature

\* NewSnapshot: a refused configuration leaves the running one.
Submit(split) ==
    /\ Validate(ConfigWith(split)) = {}
    /\ config' = ConfigWith(split)

NextArm ==
    /\ Len(Split) < Len(Arms)
    /\ \E p \in Percents : Submit(Append(Split, [variant |-> Arms[Len(Split) + 1], percent |-> p]))

Widen(i, p) ==
    /\ p > Split[i].percent
    /\ Submit([Split EXCEPT ![i].percent = p])

Narrow(i, p) ==
    /\ p < Split[i].percent
    /\ Submit([Split EXCEPT ![i].percent = p])

\* Portion i gives to the next; what the two have together is the same, but for
\* the four percentages being read as floats.
Shift(i, p, q) ==
    /\ i < Len(Split)
    /\ p < Split[i].percent /\ q > Split[i + 1].percent
    /\ Distance(p + q, Split[i].percent + Split[i + 1].percent) <= 4 * Error
    /\ Submit([Split EXCEPT ![i].percent = p, ![i + 1].percent = q])

RolloutNext ==
    \/ NextArm
    \/ \E i \in DOMAIN Split, p \in Percents : Widen(i, p) \/ Narrow(i, p)
    \/ \E i \in DOMAIN Split, p, q \in Percents : Shift(i, p, q)

\* A team edits whatever it likes, or ramps a rollout.
Team == (~Rolling /\ EditPart) \/ (Rolling /\ RolloutNext)

TeamSpec == (Start \/ RolloutInit) /\ [][Team]_config

-----------------------------------------------------------------------------
ServedTo(c, variant) == {t \in Tenants : Served(c, t).variant = variant}

\* Every portion is served to its share of the buckets, give or take one: the
\* float sums that bound it may fall just beyond a bucket, never farther, and
\* no tenant is in two portions (evaluator.go:80, 119-126, validate.go:227-247).
SharesWithinOne ==
    Rolling => \A i \in DOMAIN Split :
        Distance(Hundredth * Cardinality(ServedTo(config, Split[i].variant)), Split[i].percent)
          < Hundredth + 3 * Error + Tolerance

\* The percentages add up to 100 as the team wrote them.
Total(split) ==
    LET sum[i \in 0 .. Len(split)] == IF i = 0 THEN 0 ELSE sum[i - 1] + split[i].percent
    IN sum[Len(split)]

AddsUp(split) == Distance(Total(split), Whole) <= Len(split) * Error

\* A rollout whose percentages add up to 100 is let through and leaves nobody
\* out, whatever its float sum comes to (validate.go:244, evaluator.go:121).
FullRolloutServesAll ==
    Rolling /\ Len(Split) < Len(Arms) => \A p \in Percents :
        LET split == Append(Split, [variant |-> Arms[Len(Split) + 1], percent |-> p])
        IN AddsUp(split) /\ p >= 0 =>
             /\ Validate(ConfigWith(split)) = {}
             /\ \A t \in Tenants : Served(ConfigWith(split), t).on

KeepsOn(t) == Served(config, t).on => Served(config', t).on

Keeps(t) == Served(config, t).on => Served(config', t) = Served(config, t)

\* Ramping up takes the feature from no tenant that has it; when it is the last
\* portion that grows, or a new one, everyone also keeps its variant.
RampKeepsTenants ==
    [][Rolling =>
         /\ NextArm => \A t \in Tenants : Keeps(t)
         /\ \A i \in DOMAIN Split : \A p \in Percents : Widen(i, p) =>
               \A t \in Tenants : KeepsOn(t) /\ (i = Len(Split) => Keeps(t))]_config

Changed == {t \in Tenants : Served(config', t) # Served(config, t)}

\* Those that an edit moves from one variant to the other.
Handed(from, to) == ServedTo(config, from) \cap ServedTo(config', to)

\* Shifting a share to the next portion moves tenants to it.  The portions before
\* them keep theirs and gain nobody; at each boundary after them, where the sum
\* is rounded anew, at most one bucket changes hands (evaluator.go:119-126).
ShiftIsLocal ==
    [][Rolling => \A i \in DOMAIN Split : \A p, q \in Percents : Shift(i, p, q) =>
          /\ \A j \in 1 .. i - 1 :
                ServedTo(config', Split[j].variant) = ServedTo(config, Split[j].variant)
          /\ Cardinality(Changed \ Handed(Split[i].variant, Split[i + 1].variant))
               <= Len(Split) - i]_config
=============================================================================
