---------------------------- MODULE MCValidation ----------------------------
(* The edits a team makes to a small product: of every part a few lists that *)
(* are right and, for every check of validate, one that is wrong.  Or a      *)
(* rollout: three arms over eight buckets, in floats of seven bits.          *)
EXTENDS RolloutLife

MCArms == <<"blue", "green", "red">>

(***************************************************************************)
(* float64 with seven bits for its 53, and a hundredth of 31 units, which  *)
(* is no power of two either: the nearest float to five hundredths is 156, *)
(* and its sum with one hundredth is 188, above bucket six at 186, as 1.1  *)
(* and 2.2 have a sum above bucket 3.3.                                    *)
(***************************************************************************)
MCFloats ==
    LET magnitudes == 0 .. 128 \cup {2 * n : n \in 64 .. 128} \cup {4 * n : n \in 64 .. 127}
    IN magnitudes \cup {-n : n \in magnitudes}

MCUnit(x) == IF x < 128 THEN 1 ELSE IF x < 256 THEN 2 ELSE 4

\* Ties go to the even significand; 508 stands for what is too large.
MCRoundUp(x) ==
    LET unit == MCUnit(x)
        twice == 2 * (x % unit)
        up == twice > unit \/ (twice = unit /\ (x \div unit) % 2 = 1)
    IN Min({508, unit * (x \div unit + IF up THEN 1 ELSE 0)})

MCRound(x) == IF x < 0 THEN -MCRoundUp(-x) ELSE MCRoundUp(x)

\* Every number of hundredths, two percentages in between, and a slip.
MCPercents == {MCRound(31 * n) : n \in 0 .. 8} \cup {14, 83, -31}

MCValidKeys == {"a", "b", "s", "feature"}
MCPeriods == {"none", "day", "month"}
MCCompiles(op, value) == value.text # "("

\* Tenants are named by their buckets.
MCHash(seed, text) == text
MCTextTest(op, text, operand) == FALSE

MCValue(text) == [text |-> text, number |-> Nil, elems |-> Nil]

MCF(key, lifecycle, deps) ==
    [key |-> key, lifecycle |-> lifecycle, free |-> FALSE, dependsOn |-> deps]
MCNeeds(deps) == <<MCF("a", "ga", deps), MCF("b", "beta", <<>>)>>

MCFeatureLists ==
    {MCNeeds(<<>>), MCNeeds(<<"b">>), MCNeeds(<<"b", "a">>), MCNeeds(<<"c">>),
     <<MCF("a", "ga", <<"b">>), MCF("b", "ga", <<"a">>)>>,
     <<MCF("a", "ga", <<>>), MCF("a", "ga", <<>>)>>,
     <<MCF("a", "soon", <<>>)>>, <<MCF("Bad!", "ga", <<>>)>>}

MCC(attribute, op, value) ==
    [attribute |-> attribute, op |-> op, value |-> value, values |-> {}]
MCIn == MCC(Nil, "inSegment", MCValue("s"))
MCNotIn == MCC(Nil, "notInSegment", MCValue("s"))
MCSegment(rules) == <<[key |-> "s", rules |-> rules]>>

MCSegmentLists ==
    {MCSegment(<<<<MCC("user", "startsWith", MCValue("x"))>>>>),
     MCSegment(<<<<MCIn>>>>), MCSegment(<<<<>>>>), MCSegment(<<>>)}

MCServe(variant, split) ==
    [on |-> TRUE, variant |-> variant,
     rollout |-> IF split = Nil THEN Nil ELSE [bucketBy |-> Nil, seed |-> Nil, split |-> split]]
MCPortion(variant, percent) == [variant |-> variant, percent |-> percent]
MCOnly(conditions) == <<[conditions |-> conditions, serve |-> MCServe(Nil, Nil)]>>
MCFlag(rules, default) ==
    [feature |-> "a", variants |-> <<"blue">>, from |-> Nil, until |-> Nil,
     enabled |-> TRUE, rules |-> rules, default |-> default]

MCFlagLists ==
    {<<MCFlag(MCOnly(<<c>>), MCServe(Nil, Nil))>> : c \in
        {MCIn, MCNotIn, MCC("user", "matches", MCValue("(")), MCC("user", "eq", Nil)}}
      \cup {<<MCFlag(<<>>, MCServe(variant, split))>> :
               variant \in {"blue", "red"},
               split \in {Nil, <<MCPortion("red", 31)>>, <<MCPortion("blue", 216), MCPortion(Nil, 62)>>}}
      \cup {<<[MCFlag(<<>>, MCServe("blue", Nil)) EXCEPT !.from = 1, !.until = 1]>>}

MCE(feature, period) ==
    [feature |-> feature, limit |-> IF period = Nil THEN Nil ELSE [max |-> 1, period |-> period]]
MCP(id, extends, ents) == [id |-> id, extends |-> extends, ents |-> ents]

MCPlanLists ==
    {<<MCP("p", Nil, <<MCE("a", "month")>>)>>,
     <<MCP("p", Nil, <<MCE("a", "day")>>), MCP("q", "p", <<MCE("a", Nil)>>)>>,
     <<MCP("p", Nil, <<MCE("a", "day")>>), MCP("q", "p", <<MCE("a", "month")>>)>>,
     <<MCP("p", "q", <<>>), MCP("q", "r", <<>>), MCP("r", "q", <<>>)>>,
     <<MCP("p", "p", <<>>)>>, <<MCP("p", "gone", <<>>)>>, <<MCP(Nil, Nil, <<>>)>>,
     <<MCP("p", "p", <<>>), MCP("p", Nil, <<>>)>>,
     <<MCP("p", Nil, <<MCE("a", "decade")>>)>>,
     <<MCP("p", Nil, <<MCE("b", Nil), MCE("b", "month")>>)>>}

MCA(id, requires, ents) == [id |-> id, requires |-> requires, ents |-> ents]

MCAddOnLists ==
    {<<MCA("x", <<"p">>, <<MCE("a", "month")>>)>>,
     <<MCA("x", <<>>, <<MCE("a", "month")>>), MCA("y", <<>>, <<MCE("a", "day")>>)>>,
     <<MCA("x", <<"gone">>, <<>>)>>, <<MCA("x", <<>>, <<>>), MCA("x", <<>>, <<>>)>>,
     <<MCA("x", <<>>, <<MCE("b", "day"), MCE("c", Nil)>>)>>}
=============================================================================
