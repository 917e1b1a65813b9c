------------------------------- MODULE Semver -------------------------------
(***************************************************************************)
(* flags/semver.go: the version tests of conditions, while the version a   *)
(* client reports goes up along its releases.                              *)
(*                                                                         *)
(* A text is what is left without the "v" and the "+build": the parts      *)
(* between the dots, each what it reads as in base 10 or Nil, and the      *)
(* pre-release identifiers.  An identifier has the number it reads as (or  *)
(* Nil), whether it has nothing but digits, and its rank in byte order.    *)
(***************************************************************************)
EXTENDS GoValues, SequencesExt

CONSTANTS Identifiers,  \* pre-release identifiers in use
          Gates,        \* the texts that conditions compare with
          MaxPart, MaxPre  \* bounds: of a release number, and of a pre-release's length

ASSUME IdentifiersAssumption ==
  \A i \in Identifiers : i.num \in Optional(Int) /\ (i.digits => i.num \in Nat) /\ i.rank \in Nat

\* What a text reads as.
Version == [nums : [1..3 -> Int64], pre : Seq(Identifiers)]

\* The bounds are in range, conditions hold texts, and Nil is neither number nor version.
ASSUME GatesAssumption ==
  /\ MaxPart \in 0..MaxInt /\ MaxPre \in Nat
  /\ Nil \notin Int /\ Nil \notin Version
  /\ \A g \in Gates : g.parts \in Seq(Optional(Int)) /\ g.pre \in Seq(Identifiers)

VARIABLES text,  \* the version a client reports
          gate   \* the condition's value

versionVars == <<text, gate>>

\* strconv.ParseInt(s, 10, 64) of a text that reads as num: out of range is an error.
ParseInt(num) == IF num \in Int64 THEN num ELSE Nil

CmpInt(a, b) == IF a < b THEN -1 ELSE IF a > b THEN 1 ELSE 0

ParseSemver(t) ==
  LET part(i) == ParseInt(t.parts[i])
  IN IF /\ Len(t.parts) \in 1..3
        /\ \A i \in 1..Len(t.parts) : part(i) # Nil /\ part(i) >= 0
     THEN [nums |-> [i \in 1..3 |-> IF i <= Len(t.parts) THEN part(i) ELSE 0], pre |-> t.pre]
     ELSE Nil

CompareText(a, b) == CmpInt(a.rank, b.rank)

\* Every identifier as text: rc.10 would come before rc.9.
CompareAsText(a, b) == CompareText(a, b)
CompareIdentifiers(a, b) ==
  LET an == ParseInt(a.num)
      bn == ParseInt(b.num)
  IN CASE an # Nil /\ bn # Nil -> CmpInt(an, bn)
       [] an # Nil /\ bn = Nil -> -1
       [] an = Nil /\ bn # Nil -> 1
       [] OTHER -> CompareText(a, b)

\* The first comparison that tells a difference, or the last resort.
FirstDifference(cs, otherwise) ==
  LET i == SelectInSeq(cs, LAMBDA c : c # 0)
  IN IF i = 0 THEN otherwise ELSE cs[i]

ComparePreAsListed(p, q) ==
  FirstDifference([i \in 1..(IF Len(p) < Len(q) THEN Len(p) ELSE Len(q)) |->
                     CompareIdentifiers(p[i], q[i])],
                  CmpInt(Len(p), Len(q)))

\* An empty pre-release is the release, which none of its pre-releases exceeds.
ComparePre(p, q) ==
  CASE p = <<>> /\ q = <<>> -> 0
    [] p = <<>> /\ q # <<>> -> 1
    [] p # <<>> /\ q = <<>> -> -1
    [] OTHER -> ComparePreAsListed(p, q)

CompareSemver(a, b) ==
  FirstDifference([i \in 1..3 |-> CmpInt(a.nums[i], b.nums[i])], ComparePre(a.pre, b.pre))

MatchSemver(op, v, ref) ==
  LET a == ParseSemver(v)
      b == ParseSemver(ref)
  IN /\ a # Nil /\ b # Nil
     /\ LET c == CompareSemver(a, b)
        IN CASE op = "semverGt" -> c > 0
             [] op = "semverGte" -> c >= 0
             [] op = "semverLt" -> c < 0
             [] op = "semverLte" -> c <= 0
             [] OTHER -> FALSE

(***************************************************************************)
(* The releases of a client, in the order semver gives them.               *)
(***************************************************************************)
Nums == [i \in 1..3 |-> IF i <= Len(text.parts) THEN text.parts[i] ELSE 0]

VersionInit ==
  /\ text \in {[parts |-> <<0>>, pre |-> <<>>]}
                \cup {[parts |-> <<0, 0>>, pre |-> <<i>>] : i \in Identifiers}
  /\ gate \in Gates

\* Major, minor or patch: the parts after it start again, or are left out.
Bump ==
  \E i \in 1..3, n \in 1..3, pre \in {<<>>} \cup {<<j>> : j \in Identifiers} :
    /\ i <= n /\ Nums[i] < MaxPart
    /\ text' = [parts |-> [k \in 1..n |-> IF k < i THEN Nums[k] ELSE IF k = i THEN Nums[k] + 1 ELSE 0],
                pre |-> pre]
    /\ UNCHANGED gate

\* §11.4: identifiers of digits alone by number, others as text and above them.
IdentifierBelow(a, b) ==
  \/ a.digits /\ ~b.digits
  \/ a.digits /\ b.digits /\ a.num < b.num
  \/ ~a.digits /\ ~b.digits /\ a.rank < b.rank

\* The next pre-release, e.g. alpha to beta or rc.1 to rc.2 ...
Advance ==
  \E k \in 1..Len(text.pre), j \in Identifiers :
    /\ IdentifierBelow(text.pre[k], j)
    /\ text' = [text EXCEPT !.pre = Append(SubSeq(@, 1, k - 1), j)]
    /\ UNCHANGED gate

\* ... or alpha to alpha.1.
Extend ==
  /\ Len(text.pre) \in 1..(MaxPre - 1)
  /\ \E j \in Identifiers : text' = [text EXCEPT !.pre = Append(@, j)]
  /\ UNCHANGED gate

Release ==
  /\ text.pre # <<>>
  /\ text' = [text EXCEPT !.pre = <<>>]
  /\ UNCHANGED gate

VersionNext == Bump \/ Advance \/ Extend \/ Release

VersionSpec == VersionInit /\ [][VersionNext]_versionVars

(***************************************************************************)
(* Properties.                                                             *)
(***************************************************************************)
\* semver.go:93-118.  A gate "from version X on" opens once as a client is upgraded,
\* and a gate "before X" closes once, also across pre-releases of the next version and
\* versions with parts left out.
UpgradesNeverRevert ==
  [][/\ MatchSemver("semverGte", text, gate) => MatchSemver("semverGte", text', gate)
     /\ MatchSemver("semverGt", text, gate) => MatchSemver("semverGt", text', gate)
     /\ MatchSemver("semverLt", text', gate) => MatchSemver("semverLt", text, gate)
     /\ MatchSemver("semverLte", text', gate) => MatchSemver("semverLte", text, gate)]_text

\* Precedence by §11 of semver 2.0, by quantifiers.
PreBelow(p, q) ==
  \/ p # <<>> /\ q = <<>>
  \/ p # <<>> /\ Len(p) < Len(q)
       /\ \A k \in 1..Len(p) : ~IdentifierBelow(p[k], q[k]) /\ ~IdentifierBelow(q[k], p[k])
  \/ \E k \in 1..Len(p) :
       /\ k <= Len(q) /\ IdentifierBelow(p[k], q[k])
       /\ \A j \in 1..(k - 1) : ~IdentifierBelow(p[j], q[j]) /\ ~IdentifierBelow(q[j], p[j])

Below(a, b) ==
  \/ \E i \in 1..3 : a.nums[i] < b.nums[i] /\ \A j \in 1..(i - 1) : a.nums[j] = b.nums[j]
  \/ a.nums = b.nums /\ PreBelow(a.pre, b.pre)

\* semver.go:43: the four tests order versions as §11 does, and a text that is not a
\* version matches none of them.
FollowsPrecedence ==
  LET a == ParseSemver(text)
      b == ParseSemver(gate)
      readable == a # Nil /\ b # Nil
  IN /\ MatchSemver("semverLt", text, gate) <=> readable /\ Below(a, b)
     /\ MatchSemver("semverGt", text, gate) <=> readable /\ Below(b, a)
     /\ MatchSemver("semverGte", text, gate) <=> readable /\ ~Below(a, b)
     /\ MatchSemver("semverLte", text, gate) <=> readable /\ ~Below(b, a)
=============================================================================
