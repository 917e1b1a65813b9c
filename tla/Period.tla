------------------------------- MODULE Period -------------------------------
(***************************************************************************)
(* Billing and calendar periods (entitlement/period.go).  An instant is a  *)
(* number of ticks (the seconds of RFC 3339 at most; runs use coarser      *)
(* ones) since Monday 1 January 2024 00:00 UTC, negative before it.  Days, *)
(* months and years are the Gregorian ones.                                *)
(***************************************************************************)
EXTENDS GoValues

CONSTANTS
    TicksPerDay,
    MaxDuration    \* largest time.Duration: 292 years

ASSUME TicksPerDayAssumption == TicksPerDay \in Nat \ {0}
ASSUME MaxDurationAssumption == MaxDuration \in Nat \ {0}

Periods == {"none", "day", "week", "month", "year"}

-----------------------------------------------------------------------------
\* The time package: months are numbered from January 2024, days from the
\* first of that month.
LeapDaysBefore(year) == ((year - 1) \div 4) - ((year - 1) \div 100) + ((year - 1) \div 400)

DaysBefore == <<0, 31, 59, 90, 120, 151, 181, 212, 243, 273, 304, 334>>

FirstDay(month) ==
    LET y == month \div 12
        i == month % 12
        leapDay == i > 1 /\ LeapDaysBefore(2025 + y) > LeapDaysBefore(2024 + y)
    IN 365 * y + LeapDaysBefore(2024 + y) - LeapDaysBefore(2024)
         + DaysBefore[i + 1] + (IF leapDay THEN 1 ELSE 0)

DaysIn(month) == FirstDay(month + 1) - FirstDay(month)

\* 4800 months of four hundred years have 146097 days.
MonthOf(day) ==
    LET guess == (4800 * day) \div 146097
    IN CHOOSE month \in {guess, guess - 1, guess + 1} :
           FirstDay(month) <= day /\ day < FirstDay(month + 1)

Day(t) == t \div TicksPerDay
TimeOfDay(t) == t % TicksPerDay
Month(t) == MonthOf(Day(t))
DayOfMonth(t) == Day(t) - FirstDay(Month(t))   \* the first is 0

AtStartOf(month) == TicksPerDay * FirstDay(month)

-----------------------------------------------------------------------------
Days(p) == IF p = "week" THEN 7 ELSE 1
Months(p) == IF p = "year" THEN 12 ELSE 1

Bounds(first, next) == [start |-> first, end |-> next]

\* Day 0 is a Monday.
Weekday(day) == day % 7

CalendarDays(p, now) ==
    LET day == Day(now)
        first == IF p = "day" THEN day ELSE day - Weekday(day)
    IN Bounds(TicksPerDay * first, TicksPerDay * (first + Days(p)))

\* Go's division rounds toward zero, so instants before the anchor need one
\* period more.
TruncatedPeriods(diff, d) == Quo(diff, d)

PeriodsSince(diff, d) ==
    IF diff < 0 /\ Rem(diff, d) # 0 THEN Quo(diff, d) - 1 ELSE Quo(diff, d)

\* A duration is an int64 of its own: the difference of two instants
\* saturates, a product wraps.
Duration == INSTANCE GoValues WITH MaxInt <- MaxDuration

Sub(t, u) ==
    CASE t - u > MaxDuration -> MaxDuration
      [] t - u < -MaxDuration - 1 -> -MaxDuration - 1
      [] OTHER -> t - u

AnchoredDays(p, a, now) ==
    LET d == TicksPerDay * Days(p)
        first == a + Duration!Wrap(d * PeriodsSince(Sub(now, a), d))
    IN Bounds(first, first + d)

CalendarMonths(p, now) ==
    LET month == IF p = "month" THEN Month(now) ELSE Month(now) - (Month(now) % 12)
    IN Bounds(AtStartOf(month), AtStartOf(month + Months(p)))

\* time.Date with the day left as it is rolls over into the next month.
AddMonthsRolling(a, n) ==
    AtStartOf(Month(a) + n) + TicksPerDay * DayOfMonth(a) + TimeOfDay(a)

\* The anchor's day and time of day in the n-th month after the anchor's,
\* the day clamped to that month.
AddMonthsClamped(a, n) ==
    LET month == Month(a) + n
        wanted == DayOfMonth(a)
        last == DaysIn(month) - 1
        day == IF wanted > last THEN last ELSE wanted
    IN AtStartOf(month) + TicksPerDay * day + TimeOfDay(a)

NextFromStart(a, n, step) == AddMonthsClamped(AddMonthsClamped(a, n), step)

NextBoundary(a, n, step) == AddMonthsClamped(a, n + step)

AnchoredMonths(p, a, now) ==
    LET step == Months(p)
        n0 == step * Quo(Month(now) - Month(a), step)
        back[n \in Int] == IF AddMonthsClamped(a, n) > now THEN back[n - step] ELSE n
        forward[n \in Int] ==
            IF NextBoundary(a, n, step) > now THEN n ELSE forward[n + step]
        n1 == forward[back[n0]]
    IN Bounds(AddMonthsClamped(a, n1), NextBoundary(a, n1, step))

\* A zero anchor means calendar periods; period none has zero bounds.
PeriodBounds(p, anchor, now) ==
    CASE p \in {"day", "week"} /\ anchor = Nil -> CalendarDays(p, now)
      [] p \in {"day", "week"} /\ anchor # Nil -> AnchoredDays(p, anchor, now)
      [] p \in {"month", "year"} /\ anchor = Nil -> CalendarMonths(p, now)
      [] p \in {"month", "year"} /\ anchor # Nil -> AnchoredMonths(p, anchor, now)
      [] OTHER -> Bounds(Nil, Nil)

PeriodStart(p, anchor, now) == PeriodBounds(p, anchor, now).start
PeriodEnd(p, anchor, now) == PeriodBounds(p, anchor, now).end

\* The formatted start of the period, which is as distinct as the start; the
\* empty string for period none.
PeriodKey(p, anchor, now) == PeriodStart(p, anchor, now)
=============================================================================
