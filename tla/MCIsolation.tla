---------------------------- MODULE MCIsolation ----------------------------
\* One definition of each kind, and a plan that extends another.
EXTENDS Isolation

MCDefinitions == {"feature", "segment", "flag", "base", "pro", "addon"}

MCKind == [d \in MCDefinitions |-> IF d \in {"base", "pro"} THEN "plan" ELSE d]

MCChain == ("base" :> {"base"}) @@ ("pro" :> {"base", "pro"})
=============================================================================
