------------------------- MODULE MCDependencyCycles -------------------------
(* Four features with up to two prerequisites each, in every order; three of *)
(* which two have the same key; dependencies that are unknown or on itself.  *)
EXTENDS DependencyCycles, Functions

CONSTANTS a, b, c, d, ghost

MCKeys == {a, b, c, d, ghost}

MCDependsOn(keys) == {s \in UNION {[1 .. n -> keys] : n \in 0 .. 2} : IsInjective(s)}

MCFeatures(key, keys) == [key : {key}, dependsOn : MCDependsOn(keys)]

MCFour ==
    {<<f1, f2, f3, f4>> : f1 \in MCFeatures(a, {b, c, d}), f2 \in MCFeatures(b, {a, c, d}),
                          f3 \in MCFeatures(c, {a, b, d}), f4 \in MCFeatures(d, {a, b, c})}

MCOddities ==
    {<<f1, f2, f3>> : f1, f3 \in MCFeatures(a, {a, b, ghost}), f2 \in MCFeatures(b, {a, ghost})}

MCCatalogs == MCFour \cup MCOddities
=============================================================================
