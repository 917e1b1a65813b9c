---------------------------- MODULE MCPeriodClock ----------------------------
(* Half-day ticks from late 2023 to early 2026, with the anchors that make  *)
(* months and years irregular: the 31st, a leap day, and one in the future. *)
EXTENDS PeriodClock

MCDay(d) == 2 * d
MCFirstTick == MCDay(-75)
MCAnchors ==
    {Nil,
     MCDay(30) + 1,    \* noon, 31 January 2024
     MCDay(59),        \* 29 February 2024
     MCDay(1095) + 1}  \* noon, 31 December 2026: still ahead

ASSUME MCAnchorsInReach == \A a \in MCAnchors \ {Nil} : InReach(a)

\* Noon, 1 January 1700.
MCFarAnchors == {MCDay(-118338) + 1}
=============================================================================
