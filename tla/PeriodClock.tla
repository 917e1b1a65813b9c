----------------------------- MODULE PeriodClock -----------------------------
(***************************************************************************)
(* A tenant's clock runs under one period and one billing anchor, and the  *)
(* engine asks for the current period at every tick.                       *)
(***************************************************************************)
EXTENDS Period

CONSTANTS Anchors, FirstTick, LastTick

ASSUME HorizonAssumption == FirstTick \in Int /\ LastTick \in Int
ASSUME AnchorsAssumption == \A a \in Anchors : a = Nil \/ a \in Int

VARIABLES
    p, anchor,
    now,
    period    \* the bounds reported for now

vars == <<p, anchor, now, period>>

Init ==
    /\ p \in Periods \ {"none"}
    /\ anchor \in Anchors
    /\ now = FirstTick
    /\ period = PeriodBounds(p, anchor, now)

\* LastTick bounds the run.
Tick ==
    /\ now < LastTick
    /\ now' = now + 1
    /\ period' = PeriodBounds(p, anchor, now')
    /\ UNCHANGED <<p, anchor>>

Spec == Init /\ [][Tick]_vars

-----------------------------------------------------------------------------
\* The clock stays within a Duration of the anchor, with a week to spare: about
\* 292 years.
InReach(a) ==
    /\ FirstTick - a <= MaxDuration /\ LastTick - a <= MaxDuration
    /\ a - FirstTick <= MaxDuration - 7 * TicksPerDay

\* The period reported for an instant contains it: usage is never charged to
\* a window that is over or has not begun (period.go:9-10).
InsidePeriod == period.start <= now /\ now < period.end

\* Periods tile time: the period changes only when it ends, and the next one
\* starts exactly there, so no instant is metered twice or not at all
\* (period.go:15, 68-83).
Seamless == [][period' = period \/ (period'.start = period.end /\ now' = period.end)]_vars

\* Anchored months and years begin on the anchor's day of the month and time
\* of day, or on the last day of a shorter month (period.go:11-13).
OnAnchorDay ==
    p \in {"month", "year"} /\ anchor # Nil =>
        LET s == period.start
        IN /\ TimeOfDay(s) = TimeOfDay(anchor)
           /\ \/ DayOfMonth(s) = DayOfMonth(anchor)
              \/ /\ DayOfMonth(s) < DayOfMonth(anchor)
                 /\ DayOfMonth(s) = DaysIn(Month(s)) - 1
=============================================================================
