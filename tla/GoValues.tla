------------------------------ MODULE GoValues ------------------------------
(***************************************************************************)
(* The few facts about Go's values that every other module relies on: one  *)
(* absent value and fixed-width integers.                                  *)
(***************************************************************************)
EXTENDS Integers

CONSTANTS
    Nil,     \* a nil pointer or error, a zero time, or an empty string
    MaxInt   \* largest int64; runs shrink the width

ASSUME MaxIntAssumption == MaxInt \in Nat \ {0}

Int64 == (-MaxInt - 1) .. MaxInt

\* The int64 that holds the mathematical integer x: two's complement.
Wrap(x) == ((x + MaxInt + 1) % (2 * (MaxInt + 1))) - (MaxInt + 1)

\* Integer division truncates toward zero.
Quo(a, b) == IF a >= 0 THEN a \div b ELSE -((-a) \div b)
Rem(a, b) == a - b * Quo(a, b)

\* A nil pointer, or a pointer to an element of S.
Optional(S) == S \cup {Nil}
=============================================================================
