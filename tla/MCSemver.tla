------------------------------ MODULE MCSemver ------------------------------
\* Identifiers whose order as text is not that of their numbers, and gates that are
\* equal to versions of the train, between them, above all of them, or no versions.
EXTENDS Semver

Digits(n, rank) == [num |-> n, digits |-> TRUE, rank |-> rank]
Word(rank) == [num |-> Nil, digits |-> FALSE, rank |-> rank]

\* "10", "9", "alpha", "beta"
MCIdentifiers == {Digits(10, 1), Digits(9, 2), Word(3), Word(4)}

\* "-5", which reads as a number, "10", "alpha"
MCHyphened == {[num |-> -5, digits |-> FALSE, rank |-> 0], Digits(10, 1), Word(3)}

Pres(ids) == {<<>>} \cup {<<i>> : i \in ids} \cup {<<i, j>> : i, j \in ids}

GatesOver(ids) ==
  {[parts |-> p, pre |-> q] : p \in {<<0, 0, 1>>, <<0, 1>>, <<1>>, <<1, 0, 1>>}, q \in Pres(ids)}

\* Not versions: a word, a negative part, four parts, and a part past int64.
NotVersions ==
  {[parts |-> p, pre |-> <<>>] : p \in {<<Nil>>, <<1, -1>>, <<0, 0, 0, 1>>, <<MaxInt + 1>>}}

MCGates == GatesOver(MCIdentifiers) \cup NotVersions
MCHyphenedGates == GatesOver(MCHyphened)
=============================================================================
