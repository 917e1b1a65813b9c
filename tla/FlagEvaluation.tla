--------------------------- MODULE FlagEvaluation ---------------------------
(***************************************************************************)
(* Operational flags (flags/flag.go, evaluator.go, condition.go): kill     *)
(* switch, time window, targeting rules, segments and percentage rollout.  *)
(*                                                                         *)
(*   value     : [text, number, elems]: what str renders, what toFloat     *)
(*               yields or Nil, and the sequence of a list or Nil          *)
(*   condition : [attribute, op, value, values]                            *)
(*   segment   : a set of rules, each a set of conditions                  *)
(*   flag      : [enabled, from, until, variants : set of keys,            *)
(*                rules : sequence of [conditions : set, serve], default]  *)
(*   serve     : [on, variant, rollout : [bucketBy, seed, split] or Nil]   *)
(*                                                                         *)
(* A window without bounds stands for a nil one.  Conditions are sets: all *)
(* of a rule's must match, in whatever order.  Percentages and buckets are *)
(* float64, counted in a unit that every float and a hundredth of a        *)
(* percent are multiples of; what is no float is rounded to one.           *)
(***************************************************************************)
EXTENDS GoValues, SequencesExt

CONSTANTS
    Hash(_, _),        \* fnv64a(seed:text) % 10000, the public contract
    Hundredth,         \* of a percent
    Round(_),          \* to a nearest float64, as IEEE 754 arithmetic does
    TextTest(_, _, _)  \* op, text, operand: substrings, regexps, versions

Inactive(flag, now) ==
    CASE ~flag.enabled -> "flag_off"
      [] flag.enabled /\ \/ flag.from # Nil /\ now < flag.from
                         \/ flag.until # Nil /\ now >= flag.until -> "flag_window"
      [] OTHER -> Nil

-----------------------------------------------------------------------------
EqValues(a, b) ==
    IF a.number # Nil /\ b.number # Nil THEN a.number = b.number ELSE a.text = b.text

\* A value that is no number orders with nothing.
Compare(op, a, b) ==
    /\ a # Nil /\ b # Nil
    /\ CASE op = "gt" -> a > b
         [] op = "gte" -> a >= b
         [] op = "lt" -> a < b
         [] op = "lte" -> a <= b

\* A condition on an attribute that is present.
TestValue(c, v) ==
    CASE c.op = "eq" -> EqValues(v, c.value)
      [] c.op = "neq" -> ~EqValues(v, c.value)
      [] c.op = "in" -> \E w \in c.values : EqValues(v, w)
      [] c.op = "nin" -> \A w \in c.values : ~EqValues(v, w)
      [] c.op = "contains" /\ v.elems # Nil -> \E e \in ToSet(v.elems) : EqValues(e, c.value)
      [] c.op \in {"gt", "gte", "lt", "lte"} -> Compare(c.op, v.number, c.value.number)
      [] OTHER -> TextTest(c.op, v.text, c.value.text)

\* Only the negative operators hold of an attribute that is missing.
TestAttribute(c, attrs) ==
    LET present == c.attribute \in DOMAIN attrs
    IN CASE c.op = "exists" -> present
         [] c.op = "notExists" -> ~present
         [] c.op \notin {"exists", "notExists"} /\ present -> TestValue(c, attrs[c.attribute])
         [] OTHER -> c.op \in {"neq", "nin"}

SegmentOps == {"inSegment", "notInSegment"}

\* Segments do not nest: a segment operator inside a segment never matches.
MatchInSegment(c, attrs) == c.op \notin SegmentOps /\ TestAttribute(c, attrs)

InSegment(segments, key, attrs) ==
    /\ key \in DOMAIN segments
    /\ \E rule \in segments[key] :
          rule # {} /\ \A c \in rule : MatchInSegment(c, attrs)

Match(segments, c, attrs) ==
    IF c.op \in SegmentOps
    THEN InSegment(segments, c.value.text, attrs) = (c.op = "inSegment")
    ELSE TestAttribute(c, attrs)

-----------------------------------------------------------------------------
Outcome(on, variant, reason) == [on |-> on, variant |-> variant, reason |-> reason]

Variant(flag, key) == IF key \in flag.variants THEN key ELSE Nil

BucketOf(seed, text) == Round(Hash(seed, text) * Hundredth)

\* The percentages of the portions, added up from the first on; every sum is a
\* float again.
Shares(split) ==
    LET cum[i \in 0 .. Len(split)] == IF i = 0 THEN 0 ELSE Round(cum[i - 1] + split[i].percent)
    IN cum

BoundaryOfTheShare(split, i) == split[i].percent

BoundaryBefore(split, i) == Shares(split)[i - 1]

\* What a bucket must be below to fall in the first i portions.
Boundary(split, i) == Shares(split)[i]

HitLargestFirst(split, bucket) ==
    LET order == SetToSortSeq(DOMAIN split, LAMBDA i, j :
                     \/ split[i].percent > split[j].percent
                     \/ (split[i].percent = split[j].percent /\ i < j))
        sorted == [i \in DOMAIN split |-> split[order[i]]]
        hit == SelectInSeq([i \in DOMAIN split |-> Boundary(sorted, i)],
                           LAMBDA boundary : bucket < boundary)
    IN IF hit = 0 THEN 0 ELSE order[hit]

\* The portion that a bucket falls in, or 0.
Hit(split, bucket) ==
    LET hits == {i \in DOMAIN split : bucket < Boundary(split, i)}
    IN IF hits = {} THEN 0 ELSE Min(hits)

ServeRollout(flag, feature, ro, attrs) ==
    LET by == IF ro.bucketBy = Nil THEN "tenant" ELSE ro.bucketBy
        seed == IF ro.seed = Nil THEN feature ELSE ro.seed
        text == IF by \in DOMAIN attrs THEN attrs[by].text ELSE Nil
        hit == Hit(ro.split, BucketOf(seed, text))
    IN IF text = Nil \/ hit = 0
       THEN Outcome(FALSE, Nil, "flag_rollout")
       ELSE Outcome(TRUE, Variant(flag, ro.split[hit].variant), "flag_rollout")

ServeOne(flag, feature, serve, reason, attrs) ==
    IF serve.rollout = Nil
    THEN Outcome(serve.on, Variant(flag, serve.variant), reason)
    ELSE ServeRollout(flag, feature, serve.rollout, attrs)

\* The first rule that matches, else the default.
Serve(flag, feature, segments, attrs) ==
    LET rule == SelectInSeq(flag.rules, LAMBDA r :
                    \A c \in r.conditions : Match(segments, c, attrs))
    IN IF rule # 0
       THEN ServeOne(flag, feature, flag.rules[rule].serve, "flag_rule", attrs)
       ELSE ServeOne(flag, feature, flag.default, "flag_default", attrs)
=============================================================================
