----------------------------- MODULE PeriodProofs -----------------------------
(***************************************************************************)
(* The periods that period.go computes tile time: they run from one        *)
(* boundary to the next, for every period, anchor and clock.  Gregorian    *)
(* months first, then each way of counting, then the clock.                *)
(***************************************************************************)
EXTENDS PeriodClock, TLAPS

\* Leap days are counted up by none or one a year, and by 97 in 400 years.
LEMMA LeapDays ==
    /\ \A y \in Int : LeapDaysBefore(y) \in Int
    /\ \A y \in Int : LeapDaysBefore(y + 1) - LeapDaysBefore(y) \in {0, 1}
    /\ \A y, z \in Int : y <= z => LeapDaysBefore(y) <= LeapDaysBefore(z)
    /\ \A y \in Int : /\ 97 * y - 800 <= 400 * LeapDaysBefore(y)
                      /\ 400 * LeapDaysBefore(y) <= 97 * y + 800
<1>1. \A y \in Int : LeapDaysBefore(y) \in Int
  BY DEF LeapDaysBefore
<1>2. \A y \in Int : LeapDaysBefore(y + 1) - LeapDaysBefore(y) \in {0, 1}
  BY DEF LeapDaysBefore
<1>3. \A y, z \in Int : y <= z => LeapDaysBefore(y) <= LeapDaysBefore(z)
  BY DEF LeapDaysBefore
<1>4. \A y \in Int : /\ 97 * y - 800 <= 400 * LeapDaysBefore(y)
                      /\ 400 * LeapDaysBefore(y) <= 97 * y + 800
  BY DEF LeapDaysBefore
<1> QED BY <1>1, <1>2, <1>3, <1>4

\* The leap days before the year from which months are numbered.
LEMMA LeapDays2024 == LeapDaysBefore(2024) = 490
<1>1. 2023 \div 4 = 505 /\ 2023 \div 100 = 20 /\ 2023 \div 400 = 5 /\ 2024 - 1 = 2023
  BY SMT
<1> QED BY <1>1, SMT DEF LeapDaysBefore

\* The first day of a month, by its year and its place in the year.
LEMMA FirstDayIs ==
    ASSUME NEW y \in Int, NEW i \in 0 .. 11
    PROVE  FirstDay(12 * y + i)
             = 365 * y + LeapDaysBefore(2024 + y) - LeapDaysBefore(2024) + DaysBefore[i + 1]
                 + IF i > 1 /\ LeapDaysBefore(2025 + y) > LeapDaysBefore(2024 + y) THEN 1 ELSE 0
<1>1. (12 * y + i) \div 12 = y /\ (12 * y + i) % 12 = i
  OBVIOUS
<1> QED BY <1>1 DEF FirstDay

\* The days before each month of a common year.
LEMMA Offsets ==
    /\ \A i \in 0 .. 11 : DaysBefore[i + 1] \in 30 * i - 1 .. 30 * i + 4
    /\ \A i, j \in 0 .. 11 : i < j => DaysBefore[i + 1] + 28 <= DaysBefore[j + 1]
    /\ \A i \in 0 .. 10 : DaysBefore[i + 2] - DaysBefore[i + 1] \in 28 .. 31
    /\ DaysBefore[3] - DaysBefore[2] = 28
    /\ DaysBefore[1] = 0 /\ DaysBefore[12] = 334
BY DEF DaysBefore

\* Months begin on days.
LEMMA FirstDayType == \A m \in Int : FirstDay(m) \in Int
<1> SUFFICES ASSUME NEW m \in Int PROVE FirstDay(m) \in Int
  OBVIOUS
<1> DEFINE y == m \div 12
           i == m % 12
<1>1. y \in Int /\ i \in 0 .. 11
  OBVIOUS
<1>2. DaysBefore[i + 1] \in Int
  BY <1>1, Offsets
<1>3. LeapDaysBefore(2024 + y) \in Int /\ LeapDaysBefore(2024) \in Int
  BY <1>1, LeapDays
<1> QED BY <1>1, <1>2, <1>3 DEF FirstDay

\* Months have 28 to 31 days.
LEMMA MonthLength ==
    \A m \in Int : FirstDay(m + 1) - FirstDay(m) \in 28 .. 31
<1> SUFFICES ASSUME NEW m \in Int PROVE FirstDay(m + 1) - FirstDay(m) \in 28 .. 31
  OBVIOUS
<1> DEFINE y == m \div 12
           i == m % 12
<1>1. y \in Int /\ i \in 0 .. 11 /\ m = 12 * y + i
  OBVIOUS
<1>2. /\ LeapDaysBefore(2024 + y) \in Int /\ LeapDaysBefore(2024) \in Int
      /\ LeapDaysBefore(2025 + y) \in Int
      /\ LeapDaysBefore(2025 + y) - LeapDaysBefore(2024 + y) \in {0, 1}
  <2> DEFINE z == 2024 + y
  <2>1. z \in Int /\ 2025 + y = z + 1
    BY <1>1
  <2>2. LeapDaysBefore(z) \in Int /\ LeapDaysBefore(z + 1) \in Int
        /\ LeapDaysBefore(z + 1) - LeapDaysBefore(z) \in {0, 1}
    BY <2>1, LeapDays
  <2> QED BY <2>1, <2>2, LeapDays
<1> HIDE DEF y, i
<1>3. CASE i < 11
  <2>1. FirstDay(m + 1) = FirstDay(12 * y + (i + 1)) /\ i + 1 \in 0 .. 11 /\ i \in 0 .. 10
    BY <1>1, <1>3
  <2>2. DaysBefore[i + 1] \in Int /\ DaysBefore[i + 2] \in Int
    BY <1>1, <2>1, Offsets
  <2>3. DaysBefore[i + 2] - DaysBefore[i + 1] \in 28 .. 31
    BY <2>1, Offsets
  <2>4. i = 1 => DaysBefore[i + 2] - DaysBefore[i + 1] = 28
    BY Offsets
  <2>5. /\ FirstDay(m) = 365 * y + LeapDaysBefore(2024 + y) - LeapDaysBefore(2024) + DaysBefore[i + 1]
             + IF i > 1 /\ LeapDaysBefore(2025 + y) > LeapDaysBefore(2024 + y) THEN 1 ELSE 0
        /\ FirstDay(m + 1) = 365 * y + LeapDaysBefore(2024 + y) - LeapDaysBefore(2024) + DaysBefore[i + 2]
             + IF i + 1 > 1 /\ LeapDaysBefore(2025 + y) > LeapDaysBefore(2024 + y) THEN 1 ELSE 0
    BY <1>1, <2>1, FirstDayIs
  <2> QED BY <1>1, <1>2, <2>2, <2>3, <2>4, <2>5
<1>4. CASE i = 11
  <2>1. FirstDay(m + 1) = FirstDay(12 * (y + 1) + 0) /\ y + 1 \in Int
    BY <1>1, <1>4
  <2>2. FirstDay(12 * (y + 1) + 0) =
          365 * (y + 1) + LeapDaysBefore(2024 + (y + 1)) - LeapDaysBefore(2024) + DaysBefore[0 + 1]
             + IF 0 > 1 /\ LeapDaysBefore(2025 + (y + 1)) > LeapDaysBefore(2024 + (y + 1)) THEN 1 ELSE 0
    BY <2>1, FirstDayIs
  <2>3. FirstDay(m) =
          365 * y + LeapDaysBefore(2024 + y) - LeapDaysBefore(2024) + DaysBefore[11 + 1]
             + IF 11 > 1 /\ LeapDaysBefore(2025 + y) > LeapDaysBefore(2024 + y) THEN 1 ELSE 0
    BY <1>1, <1>4, FirstDayIs
  <2>4. 2024 + (y + 1) = 2025 + y
    BY <1>1
  <2> QED BY <1>1, <1>2, <2>1, <2>2, <2>3, <2>4, Offsets
<1> QED BY <1>1, <1>3, <1>4

YearStart(y) == FirstDay(12 * y)

\* Years have 365 days or more.
LEMMA YearStarts ==
    /\ \A y \in Int : YearStart(y) \in Int
    /\ \A y \in Int :
          YearStart(y) = 365 * y + LeapDaysBefore(2024 + y) - LeapDaysBefore(2024)
    /\ \A y, z \in Int : y <= z => YearStart(z) - YearStart(y) >= 365 * (z - y)
<1>1. ASSUME NEW y \in Int
      PROVE  YearStart(y) = 365 * y + LeapDaysBefore(2024 + y) - LeapDaysBefore(2024)
  <2>1. YearStart(y) = FirstDay(12 * y + 0) /\ 0 \in 0 .. 11
    BY DEF YearStart
  <2>2. FirstDay(12 * y + 0) =
          365 * y + LeapDaysBefore(2024 + y) - LeapDaysBefore(2024) + DaysBefore[0 + 1]
             + IF 0 > 1 /\ LeapDaysBefore(2025 + y) > LeapDaysBefore(2024 + y) THEN 1 ELSE 0
    BY FirstDayIs
  <2>3. LeapDaysBefore(2024 + y) \in Int /\ LeapDaysBefore(2024) \in Int
    BY LeapDays
  <2> QED BY <2>1, <2>2, <2>3, Offsets
<1>2. LeapDaysBefore(2024) \in Int /\ \A y \in Int : LeapDaysBefore(2024 + y) \in Int
  BY LeapDays
<1>3. ASSUME NEW y \in Int, NEW z \in Int, y <= z
      PROVE  YearStart(z) - YearStart(y) >= 365 * (z - y)
  <2>1. 2024 + y <= 2024 + z
    BY <1>3
  <2>2. LeapDaysBefore(2024 + y) <= LeapDaysBefore(2024 + z)
    BY <2>1, LeapDays
  <2> QED BY <1>1, <1>2, <2>2
<1>4. \A y \in Int : YearStart(y) \in Int
  BY FirstDayType DEF YearStart
<1> QED BY <1>1, <1>3, <1>4

\* A month begins in its year, in the order of the months.
LEMMA MonthInYear ==
    ASSUME NEW y \in Int, NEW i \in 0 .. 11
    PROVE  /\ FirstDay(12 * y + i) - YearStart(y) \in 30 * i - 1 .. 30 * i + 5
           /\ FirstDay(12 * y + i) + 28 <= YearStart(y + 1)
           /\ \A j \in 0 .. 11 : i < j => FirstDay(12 * y + i) + 28 <= FirstDay(12 * y + j)
<1> DEFINE leap == LeapDaysBefore(2025 + y) > LeapDaysBefore(2024 + y)
<1>1. YearStart(y) \in Int /\ YearStart(y + 1) \in Int /\ YearStart(y + 1) - YearStart(y) >= 365
  <2>1. y + 1 \in Int /\ y <= y + 1 /\ (y + 1) - y = 1
    OBVIOUS
  <2>2. YearStart(y + 1) - YearStart(y) >= 365 * ((y + 1) - y)
    BY <2>1, YearStarts
  <2> QED BY <2>1, <2>2, YearStarts
<1>2. \A j \in 0 .. 11 : FirstDay(12 * y + j)
         = YearStart(y) + DaysBefore[j + 1] + IF j > 1 /\ leap THEN 1 ELSE 0
  <2> SUFFICES ASSUME NEW j \in 0 .. 11
               PROVE  FirstDay(12 * y + j)
                        = YearStart(y) + DaysBefore[j + 1] + IF j > 1 /\ leap THEN 1 ELSE 0
    OBVIOUS
  <2>1. LeapDaysBefore(2024 + y) \in Int /\ LeapDaysBefore(2024) \in Int
    BY LeapDays, SMT
  <2>2. DaysBefore[j + 1] \in Int
    BY Offsets
  <2>3. YearStart(y) = 365 * y + LeapDaysBefore(2024 + y) - LeapDaysBefore(2024)
    BY YearStarts, SMT
  <2>4. FirstDay(12 * y + j)
          = 365 * y + LeapDaysBefore(2024 + y) - LeapDaysBefore(2024) + DaysBefore[j + 1]
              + IF j > 1 /\ leap THEN 1 ELSE 0
    BY FirstDayIs, SMT
  <2> HIDE DEF leap
  <2> QED BY <2>1, <2>2, <2>3, <2>4, SMT
<1> HIDE DEF leap
<1>3. \A j \in 0 .. 11 : DaysBefore[j + 1] \in 30 * j - 1 .. 30 * j + 4
  BY Offsets
<1>4. FirstDay(12 * y + i) - YearStart(y) \in 30 * i - 1 .. 30 * i + 5
  BY <1>1, <1>2, <1>3
<1>5. \A j \in 0 .. 11 : i < j => FirstDay(12 * y + i) + 28 <= FirstDay(12 * y + j)
  <2> SUFFICES ASSUME NEW j \in 0 .. 11, i < j
               PROVE  FirstDay(12 * y + i) + 28 <= FirstDay(12 * y + j)
    OBVIOUS
  <2>1. DaysBefore[i + 1] + 28 <= DaysBefore[j + 1]
    BY Offsets
  <2> QED BY <1>1, <1>2, <1>3, <2>1
<1>6. FirstDay(12 * y + i) + 28 <= YearStart(y + 1)
  <2>1. DaysBefore[i + 1] <= 334
    BY Offsets
  <2> QED BY <1>1, <1>2, <1>3, <2>1
<1> QED BY <1>4, <1>5, <1>6

\* Months begin one after the other.
LEMMA MonthOrder ==
    ASSUME NEW m \in Int, NEW n \in Int, m < n
    PROVE  FirstDay(m) + 28 <= FirstDay(n)
<1> DEFINE y == m \div 12
           i == m % 12
           z == n \div 12
           j == n % 12
<1>1. /\ y \in Int /\ i \in 0 .. 11 /\ m = 12 * y + i
      /\ z \in Int /\ j \in 0 .. 11 /\ n = 12 * z + j
  OBVIOUS
<1> HIDE DEF y, i, z, j
<1>2. CASE y = z
  <2>1. i < j
    BY <1>1, <1>2
  <2> QED BY <1>1, <1>2, <2>1, MonthInYear
<1>3. CASE y < z
  <2>1. FirstDay(m) + 28 <= YearStart(y + 1) /\ y + 1 <= z /\ y + 1 \in Int
    <3>1. FirstDay(12 * y + i) + 28 <= YearStart(y + 1)
      BY <1>1, MonthInYear
    <3> QED BY <1>1, <1>3, <3>1
  <2>2. YearStart(y + 1) <= YearStart(z) /\ YearStart(z) \in Int /\ YearStart(y + 1) \in Int
    <3>1. YearStart(z) - YearStart(y + 1) >= 365 * (z - (y + 1))
      BY <1>1, <2>1, YearStarts, SMT
    <3>2. YearStart(z) \in Int /\ YearStart(y + 1) \in Int
      BY <1>1, <2>1, YearStarts
    <3> QED BY <1>1, <2>1, <3>1, <3>2, SMT
  <2>3. FirstDay(n) - YearStart(z) \in 30 * j - 1 .. 30 * j + 5
    <3>1. FirstDay(12 * z + j) - YearStart(z) \in 30 * j - 1 .. 30 * j + 5
      BY <1>1, MonthInYear
    <3> QED BY <1>1, <3>1
  <2>4. FirstDay(n) \in Int /\ FirstDay(m) \in Int
    BY FirstDayType
  <2>5. FirstDay(n) >= YearStart(z)
    <3>1. CASE j = 0
      <4>1. n = 12 * z
        BY <1>1, <3>1
      <4> QED BY <2>2, <4>1 DEF YearStart
    <3>2. CASE j > 0
      BY <1>1, <2>2, <2>3, <2>4, <3>2, SMT
    <3> QED BY <1>1, <3>1, <3>2
  <2> QED BY <2>1, <2>2, <2>4, <2>5, SMT
<1>4. y <= z
  BY <1>1
<1> QED BY <1>1, <1>2, <1>3, <1>4

\* The mean month is never far off.
LEMMA MeanMonth ==
    ASSUME NEW m \in Int
    PROVE  /\ -40000 <= 4800 * FirstDay(m) - 146097 * m
           /\ 4800 * FirstDay(m) - 146097 * m <= 40000
<1> DEFINE y == m \div 12
           i == m % 12
<1>1. y \in Int /\ i \in 0 .. 11 /\ m = 12 * y + i
  BY SMT
<1> HIDE DEF y, i
<1>2. FirstDay(m) - YearStart(y) \in 30 * i - 1 .. 30 * i + 5
  <2>1. FirstDay(12 * y + i) - YearStart(y) \in 30 * i - 1 .. 30 * i + 5
    BY <1>1, MonthInYear
  <2> QED BY <1>1, <2>1
<1>3. YearStart(y) = 365 * y + LeapDaysBefore(2024 + y) - LeapDaysBefore(2024)
  BY <1>1, YearStarts, SMT
<1>4. /\ LeapDaysBefore(2024 + y) \in Int
      /\ 97 * (2024 + y) - 800 <= 400 * LeapDaysBefore(2024 + y)
      /\ 400 * LeapDaysBefore(2024 + y) <= 97 * (2024 + y) + 800
  BY <1>1, LeapDays, SMT
<1>5. LeapDaysBefore(2024) = 490
  BY LeapDays2024, SMT
<1>6. FirstDay(m) \in Int
  BY FirstDayType
<1> QED BY <1>1, <1>2, <1>3, <1>4, <1>5, <1>6, SMT

InMonth(day, m) == FirstDay(m) <= day /\ day < FirstDay(m + 1)

\* Every day is in a month, and in one only.
LEMMA EveryDay == ASSUME NEW day \in Int PROVE \E m \in Int : InMonth(day, m)
<1> DEFINE g == (400 * day) \div 146097
<1>1. g \in Int /\ 146097 * g <= 400 * day /\ 400 * day < 146097 * g + 146097
  BY SMT
<1> HIDE DEF g
<1>2. ASSUME NEW y \in Int
      PROVE  /\ YearStart(y) \in Int
             /\ -2000 <= 400 * YearStart(y) - 146097 * y
             /\ 400 * YearStart(y) - 146097 * y <= 2000
  <2>1. /\ LeapDaysBefore(2024 + y) \in Int
        /\ 97 * (2024 + y) - 800 <= 400 * LeapDaysBefore(2024 + y)
        /\ 400 * LeapDaysBefore(2024 + y) <= 97 * (2024 + y) + 800
    BY LeapDays, SMT
  <2>2. LeapDaysBefore(2024) = 490
    BY LeapDays2024, SMT
  <2>3. /\ YearStart(y) \in Int
        /\ YearStart(y) = 365 * y + LeapDaysBefore(2024 + y) - LeapDaysBefore(2024)
    BY YearStarts
  <2> QED BY <2>1, <2>2, <2>3, SMT
<1>3. PICK y \in Int : YearStart(y) <= day /\ day < YearStart(y + 1)
  <2>1. YearStart(g - 1) \in Int /\ 400 * YearStart(g - 1) - 146097 * (g - 1) <= 2000
    BY <1>1, <1>2, SMT
  <2>2. YearStart(g + 2) \in Int /\ -2000 <= 400 * YearStart(g + 2) - 146097 * (g + 2)
    BY <1>1, <1>2, SMT
  <2>3. YearStart(g - 1) <= day
    BY <1>1, <2>1, SMT
  <2>4. day < YearStart(g + 2)
    BY <1>1, <2>2, SMT
  <2>5. (g - 1) + 1 = g /\ (g + 1) + 1 = g + 2 /\ g - 1 \in Int /\ g + 1 \in Int
    BY <1>1, SMT
  <2>6. CASE day < YearStart(g)
    BY <2>3, <2>5, <2>6, SMT
  <2>7. CASE YearStart(g) <= day /\ day < YearStart(g + 1)
    BY <1>1, <2>7, SMT
  <2>8. CASE YearStart(g + 1) <= day
    BY <2>4, <2>5, <2>8, SMT
  <2>9. YearStart(g) \in Int /\ YearStart(g + 1) \in Int
    BY <1>1, <2>5, YearStarts, SMT
  <2> QED BY <2>6, <2>7, <2>8, <2>9, SMT
<1> DEFINE F(i) == FirstDay(12 * y + i)
<1>4. \A i \in 0 .. 12 : F(i) \in Int
  BY FirstDayType, SMT
<1>5. F(0) <= day /\ day < F(12)
  <2>1. 12 * y + 0 = 12 * y /\ 12 * y + 12 = 12 * (y + 1)
    BY SMT
  <2> QED BY <1>3, <2>1, SMT DEF YearStart
<1> HIDE DEF F
<1>6. PICK i \in 0 .. 11 : F(i) <= day /\ day < F(i + 1)
  <2> SUFFICES ASSUME \A i \in 0 .. 11 : F(i) <= day => F(i + 1) <= day PROVE FALSE
    BY <1>4, SMT
  <2>1. F(1) <= day /\ F(2) <= day /\ F(3) <= day /\ F(4) <= day
    BY <1>5, SMT
  <2>2. F(5) <= day /\ F(6) <= day /\ F(7) <= day /\ F(8) <= day
    BY <2>1, SMT
  <2>3. F(9) <= day /\ F(10) <= day /\ F(11) <= day /\ F(12) <= day
    BY <2>2, SMT
  <2> QED BY <1>4, <1>5, <2>3, SMT
<1>7. InMonth(day, 12 * y + i) /\ 12 * y + i \in Int
  <2>1. (12 * y + i) + 1 = 12 * y + (i + 1)
    BY SMT
  <2> QED BY <1>6, <2>1, SMT DEF F, InMonth
<1> QED BY <1>7, SMT

\* A day is in one month only.
LEMMA OneMonth ==
    ASSUME NEW day \in Int, NEW m \in Int, InMonth(day, m), NEW n \in Int, InMonth(day, n)
    PROVE  m = n
<1>1. m + 1 \in Int /\ n + 1 \in Int /\ FirstDay(m) \in Int /\ FirstDay(n) \in Int
      /\ FirstDay(m + 1) \in Int /\ FirstDay(n + 1) \in Int
  BY FirstDayType
<1>2. ~(m < n)
  <2> SUFFICES ASSUME m < n PROVE FALSE
    OBVIOUS
  <2>1. m + 1 = n \/ m + 1 < n
    OBVIOUS
  <2>2. FirstDay(m + 1) <= FirstDay(n)
    BY <1>1, <2>1, MonthOrder
  <2> QED BY <1>1, <2>2 DEF InMonth
<1>3. ~(n < m)
  <2> SUFFICES ASSUME n < m PROVE FALSE
    OBVIOUS
  <2>1. n + 1 = m \/ n + 1 < m
    OBVIOUS
  <2>2. FirstDay(n + 1) <= FirstDay(m)
    BY <1>1, <2>1, MonthOrder
  <2> QED BY <1>1, <2>2 DEF InMonth
<1> QED BY <1>2, <1>3

\* The month that is looked for is the one the day is in.
LEMMA MonthOfIs ==
    ASSUME NEW day \in Int, NEW m \in Int, InMonth(day, m)
    PROVE  MonthOf(day) = m
<1> DEFINE g == (4800 * day) \div 146097
<1>1. g \in Int /\ 146097 * g <= 4800 * day /\ 4800 * day < 146097 * g + 146097
  OBVIOUS
<1> HIDE DEF g
<1>2. m \in {g, g - 1, g + 1}
  <2>1. /\ -40000 <= 4800 * FirstDay(m) - 146097 * m
        /\ 4800 * FirstDay(m) - 146097 * m <= 40000
    BY MeanMonth
  <2>2. day - FirstDay(m) \in 0 .. 30
    <3>1. FirstDay(m + 1) - FirstDay(m) \in 28 .. 31 /\ FirstDay(m) \in Int /\ FirstDay(m + 1) \in Int
      BY MonthLength, FirstDayType
    <3> QED BY <3>1 DEF InMonth
  <2> QED BY <1>1, <2>1, <2>2, FirstDayType
<1>3. MonthOf(day) = CHOOSE n \in {g, g - 1, g + 1} : InMonth(day, n)
  BY DEF MonthOf, g, InMonth
<1>4. MonthOf(day) \in {g, g - 1, g + 1} /\ InMonth(day, MonthOf(day))
  BY <1>2, <1>3
<1> QED BY <1>1, <1>4, OneMonth

\* MonthOf finds it for every day.
LEMMA MonthOfDay ==
    ASSUME NEW day \in Int
    PROVE  MonthOf(day) \in Int /\ InMonth(day, MonthOf(day))
BY EveryDay, MonthOfIs

-----------------------------------------------------------------------------
\* An instant is a day and a time of that day, in one way only.
LEMMA DayAndTime ==
    ASSUME NEW t \in Int
    PROVE  /\ Day(t) \in Int /\ TimeOfDay(t) \in 0 .. TicksPerDay - 1
           /\ t = TicksPerDay * Day(t) + TimeOfDay(t)
BY TicksPerDayAssumption DEF Day, TimeOfDay

\* The day and the time of day that make up an instant can be told from it.
LEMMA OneDayAndTime ==
    ASSUME NEW day \in Int, NEW time \in 0 .. TicksPerDay - 1
    PROVE  /\ Day(TicksPerDay * day + time) = day
           /\ TimeOfDay(TicksPerDay * day + time) = time
<1> DEFINE t == TicksPerDay * day + time
<1>1. TicksPerDay \in Nat /\ TicksPerDay > 0 /\ t \in Int /\ TicksPerDay * day \in Int
  BY TicksPerDayAssumption
<1>2. Day(t) \in Int /\ TimeOfDay(t) \in 0 .. TicksPerDay - 1
      /\ t = TicksPerDay * Day(t) + TimeOfDay(t)
  BY <1>1, DayAndTime
<1>3. Day(t) = day
  <2>1. TicksPerDay * (Day(t) - day) = time - TimeOfDay(t)
    BY <1>1, <1>2
  <2>2. CASE Day(t) - day >= 1
    <3>1. TicksPerDay * (Day(t) - day) >= TicksPerDay
      BY <1>1, <1>2, <2>2
    <3> QED BY <1>1, <1>2, <2>1, <3>1
  <2>3. CASE day - Day(t) >= 1
    <3>1. TicksPerDay * (day - Day(t)) >= TicksPerDay
      BY <1>1, <1>2, <2>3
    <3>2. TicksPerDay * (day - Day(t)) = TimeOfDay(t) - time
      BY <1>1, <1>2
    <3> QED BY <1>1, <1>2, <3>1, <3>2
  <2> QED BY <1>2, <2>2, <2>3
<1> QED BY <1>1, <1>2, <1>3

\* Longer spans of days hold more ticks.
LEMMA MoreDays ==
    ASSUME NEW d \in Int, NEW e \in Int
    PROVE  /\ TicksPerDay * d \in Int
           /\ d <= e => TicksPerDay * d <= TicksPerDay * e
           /\ d < e => TicksPerDay * d + TicksPerDay <= TicksPerDay * e
<1>1. TicksPerDay \in Nat /\ TicksPerDay * d \in Int /\ TicksPerDay * e \in Int
  BY TicksPerDayAssumption
<1>2. d <= e => TicksPerDay * (e - d) >= 0
  BY <1>1
<1>3. d < e => TicksPerDay * (e - d) >= TicksPerDay
  BY <1>1
<1>4. TicksPerDay * (e - d) = TicksPerDay * e - TicksPerDay * d
  BY <1>1
<1> QED BY <1>1, <1>2, <1>3, <1>4

\* Later months start later.
LEMMA MonthsInOrder ==
    ASSUME NEW m \in Int, NEW n \in Int, m <= n
    PROVE  AtStartOf(m) \in Int /\ AtStartOf(n) \in Int /\ AtStartOf(m) <= AtStartOf(n)
<1>1. FirstDay(m) \in Int /\ FirstDay(n) \in Int
  BY FirstDayType
<1>2. FirstDay(m) <= FirstDay(n)
  <2>1. m = n \/ m < n
    OBVIOUS
  <2> QED BY <1>1, <2>1, MonthOrder
<1> QED BY <1>1, <1>2, MoreDays DEF AtStartOf

\* An instant lies in its month.
LEMMA InItsMonth ==
    ASSUME NEW t \in Int
    PROVE  /\ Month(t) \in Int /\ AtStartOf(Month(t)) <= t /\ t < AtStartOf(Month(t) + 1)
           /\ DayOfMonth(t) \in Nat /\ DayOfMonth(t) < DaysIn(Month(t))
<1> DEFINE day == Day(t)
           m == Month(t)
<1>1. day \in Int /\ TimeOfDay(t) \in 0 .. TicksPerDay - 1
      /\ t = TicksPerDay * day + TimeOfDay(t)
  BY DayAndTime
<1>2. m \in Int /\ FirstDay(m) <= day /\ day < FirstDay(m + 1)
  BY <1>1, MonthOfDay DEF Month, InMonth
<1>3. FirstDay(m) \in Int /\ FirstDay(m + 1) \in Int
  BY <1>2, FirstDayType
<1>4. AtStartOf(m) <= TicksPerDay * day /\ AtStartOf(m) \in Int
  BY <1>1, <1>2, <1>3, MoreDays DEF AtStartOf
<1>5. TicksPerDay * day + TicksPerDay <= AtStartOf(m + 1) /\ AtStartOf(m + 1) \in Int
  BY <1>1, <1>2, <1>3, MoreDays DEF AtStartOf
<1>6. TicksPerDay * day \in Int /\ TicksPerDay \in Int
  BY <1>1, TicksPerDayAssumption
<1>7. AtStartOf(m) <= t /\ t < AtStartOf(m + 1)
  BY <1>1, <1>4, <1>5, <1>6
<1>8. DayOfMonth(t) \in Nat /\ DayOfMonth(t) < DaysIn(m)
  BY <1>1, <1>2, <1>3 DEF DayOfMonth, DaysIn
<1> QED BY <1>2, <1>7, <1>8

\* Adding months keeps the time of day, reaches the month aimed at, and keeps
\* the day of the month or takes the last.
LEMMA ClampedMonths ==
    ASSUME NEW a \in Int, NEW n \in Int
    PROVE  LET s == AddMonthsClamped(a, n)
           IN /\ s \in Int
              /\ Month(s) = Month(a) + n
              /\ TimeOfDay(s) = TimeOfDay(a)
              /\ \/ DayOfMonth(s) = DayOfMonth(a)
                 \/ /\ DayOfMonth(s) < DayOfMonth(a)
                    /\ DayOfMonth(s) = DaysIn(Month(s)) - 1
<1> DEFINE m == Month(a) + n
           wanted == DayOfMonth(a)
           last == DaysIn(m) - 1
           day == IF wanted > last THEN last ELSE wanted
           s == AddMonthsClamped(a, n)
<1>1. Month(a) \in Int /\ m \in Int /\ wanted \in Nat
  BY InItsMonth
<1>2. FirstDay(m) \in Int /\ FirstDay(m + 1) \in Int /\ last \in Nat
      /\ last = FirstDay(m + 1) - FirstDay(m) - 1
  <2>1. FirstDay(m) \in Int /\ FirstDay(m + 1) \in Int /\ FirstDay(m + 1) - FirstDay(m) \in 28 .. 31
    BY <1>1, FirstDayType, MonthLength
  <2> QED BY <2>1 DEF DaysIn
<1>3. day \in 0 .. last
  BY <1>1, <1>2
<1>4. TimeOfDay(a) \in 0 .. TicksPerDay - 1
  BY DayAndTime
<1>5. s = AtStartOf(m) + TicksPerDay * day + TimeOfDay(a)
  BY DEF AddMonthsClamped
<1> HIDE DEF m, wanted, last, day, s
<1>6. s = TicksPerDay * (FirstDay(m) + day) + TimeOfDay(a)
  BY <1>2, <1>3, <1>4, <1>5, TicksPerDayAssumption DEF AtStartOf
<1>7. Day(s) = FirstDay(m) + day /\ TimeOfDay(s) = TimeOfDay(a)
  <2>1. FirstDay(m) + day \in Int
    BY <1>2, <1>3
  <2> QED BY <1>4, <1>6, <2>1, OneDayAndTime
<1>8. s \in Int
  BY <1>2, <1>3, <1>4, <1>6, TicksPerDayAssumption
<1>9. Month(s) = m
  <2>1. FirstDay(m) + day \in Int /\ InMonth(FirstDay(m) + day, m)
    BY <1>2, <1>3 DEF InMonth
  <2> QED BY <1>1, <1>7, <2>1, MonthOfIs DEF Month
<1>10. DayOfMonth(s) = day
  BY <1>2, <1>3, <1>7, <1>9 DEF DayOfMonth
<1>11. day = wanted \/ (day < wanted /\ day = last)
  BY <1>1, <1>2 DEF day
<1>12. last = DaysIn(Month(s)) - 1
  BY <1>9 DEF last
<1> QED BY <1>7, <1>8, <1>9, <1>10, <1>11, <1>12 DEF m, wanted, s

\* An instant of an earlier month is earlier.
LEMMA MonthBefore ==
    ASSUME NEW t \in Int, NEW u \in Int, Month(t) < Month(u)
    PROVE  t < u
<1>1. Month(t) \in Int /\ t < AtStartOf(Month(t) + 1)
  BY InItsMonth
<1>2. Month(u) \in Int /\ AtStartOf(Month(u)) <= u
  BY InItsMonth
<1>3. Month(t) + 1 <= Month(u)
  BY <1>1, <1>2
<1>4. /\ AtStartOf(Month(t) + 1) \in Int /\ AtStartOf(Month(u)) \in Int
      /\ AtStartOf(Month(t) + 1) <= AtStartOf(Month(u))
  BY <1>1, <1>2, <1>3, MonthsInOrder
<1> QED BY <1>1, <1>2, <1>4

\* The instants of an anchor's months lie in their months, one after the other.
LEMMA ClampedOrder ==
    ASSUME NEW a \in Int, NEW m \in Int, NEW n \in Int, m < n
    PROVE  AddMonthsClamped(a, m) < AddMonthsClamped(a, n)
<1>1. AddMonthsClamped(a, m) \in Int /\ Month(AddMonthsClamped(a, m)) = Month(a) + m
  BY ClampedMonths
<1>2. AddMonthsClamped(a, n) \in Int /\ Month(AddMonthsClamped(a, n)) = Month(a) + n
  BY ClampedMonths
<1>3. Month(a) \in Int
  BY InItsMonth
<1> QED BY <1>1, <1>2, <1>3, MonthBefore

-----------------------------------------------------------------------------
\* Rounded toward zero, and one more before the anchor: the period that
\* contains the instant.
LEMMA FloorPeriods ==
    ASSUME NEW diff \in Int, NEW d \in Nat, d > 0
    PROVE  /\ PeriodsSince(diff, d) \in Int
           /\ d * PeriodsSince(diff, d) \in Int
           /\ d * PeriodsSince(diff, d) <= diff /\ diff < d * PeriodsSince(diff, d) + d
<1>1. CASE diff >= 0
  <2>1. PeriodsSince(diff, d) = diff \div d
    BY <1>1 DEF PeriodsSince, Quo
  <2> DEFINE k == diff \div d
  <2>2. k \in Int /\ d * k \in Int /\ d * k <= diff /\ diff < d * k + d
    OBVIOUS
  <2> QED BY <2>1, <2>2
<1>2. CASE diff < 0
  <2> DEFINE k == (-diff) \div d
  <2>1. k \in Int /\ d * k \in Int /\ d * k <= -diff /\ -diff < d * k + d
    OBVIOUS
  <2>2. Quo(diff, d) = -k
    BY <1>2 DEF Quo
  <2> HIDE DEF k
  <2>3. d * (-k) = -(d * k) /\ d * (-k - 1) = -(d * k) - d
    BY <2>1
  <2>4. Rem(diff, d) = diff + d * k
    BY <2>1, <2>2, <2>3 DEF Rem
  <2>5. PeriodsSince(diff, d) = IF diff + d * k # 0 THEN -k - 1 ELSE -k
    BY <1>2, <2>2, <2>4 DEF PeriodsSince
  <2>6. CASE diff + d * k # 0
    <3>1. PeriodsSince(diff, d) = -k - 1
      BY <2>5, <2>6
    <3> QED BY <2>1, <2>3, <2>6, <3>1
  <2>7. CASE diff + d * k = 0
    <3>1. PeriodsSince(diff, d) = -k
      BY <2>5, <2>7
    <3> QED BY <2>1, <2>3, <2>7, <3>1
  <2> QED BY <2>6, <2>7
<1> QED BY <1>1, <1>2

\* Durations in range are computed exactly.
LEMMA ExactDuration ==
    ASSUME NEW x \in Int, -MaxDuration <= x, x <= MaxDuration
    PROVE  Duration!Wrap(x) = x
<1>1. MaxDuration \in Nat /\ MaxDuration > 0
  BY MaxDurationAssumption
<1> DEFINE w == 2 * (MaxDuration + 1)
           z == x + MaxDuration + 1
<1>2. z \in 0 .. w - 1 /\ w \in Nat
  BY <1>1
<1>3. z % w = z
  <2> HIDE DEF z, w
  <2> QED BY <1>2
<1> QED BY <1>1, <1>3 DEF Duration!Wrap

\* Instants the Duration type can tell from the anchor, with a week to spare.
Measurable(a, t) == a \in Int /\ t - a <= MaxDuration /\ a - t <= MaxDuration - 7 * TicksPerDay

\* Anchored days and weeks: the boundaries are whole periods from the anchor.
LEMMA AnchoredDaysAre ==
    ASSUME NEW q \in {"day", "week"}, NEW a \in Int, NEW t \in Int, Measurable(a, t)
    PROVE  LET d == TicksPerDay * Days(q)
           IN \E k \in Int : /\ AnchoredDays(q, a, t) = Bounds(a + d * k, a + d * (k + 1))
                             /\ a + d * k <= t /\ t < a + d * (k + 1)
<1> DEFINE d == TicksPerDay * Days(q)
           k == PeriodsSince(t - a, d)
<1>1. TicksPerDay \in Nat /\ TicksPerDay > 0 /\ MaxDuration \in Nat
  BY TicksPerDayAssumption, MaxDurationAssumption
<1>2. d \in Nat /\ d > 0 /\ d <= 7 * TicksPerDay
  BY <1>1 DEF Days
<1>3. Sub(t, a) = t - a
  BY <1>1 DEF Measurable, Sub
<1>4. k \in Int /\ d * k \in Int /\ d * k <= t - a /\ t - a < d * k + d
  <2>1. t - a \in Int
    OBVIOUS
  <2> HIDE DEF d
  <2> QED BY <1>2, <2>1, FloorPeriods
<1>5. AnchoredDays(q, a, t) = Bounds(a + Duration!Wrap(d * k), a + Duration!Wrap(d * k) + d)
  BY <1>3 DEF AnchoredDays
<1> HIDE DEF d, k
<1>6. Duration!Wrap(d * k) = d * k
  <2>1. -MaxDuration <= d * k /\ d * k <= MaxDuration
    BY <1>1, <1>2, <1>4 DEF Measurable
  <2> QED BY <1>4, <2>1, ExactDuration
<1>7. d * (k + 1) = d * k + d
  BY <1>2, <1>4
<1>8. a + d * (k + 1) = a + d * k + d
  BY <1>2, <1>4, <1>7
<1>9. /\ AnchoredDays(q, a, t) = Bounds(a + d * k, a + d * (k + 1))
      /\ a + d * k <= t /\ t < a + d * (k + 1)
  BY <1>2, <1>4, <1>5, <1>6, <1>8
<1> QED BY <1>4, <1>9 DEF d

\* Calendar days and weeks: the boundaries are multiples of the period.
LEMMA CalendarDaysAre ==
    ASSUME NEW q \in {"day", "week"}, NEW t \in Int
    PROVE  LET d == TicksPerDay * Days(q)
           IN \E k \in Int : /\ CalendarDays(q, t) = Bounds(d * k, d * (k + 1))
                             /\ d * k <= t /\ t < d * (k + 1)
<1> DEFINE day == Day(t)
           k == IF q = "day" THEN day ELSE day \div 7
           first == IF q = "day" THEN day ELSE day - Weekday(day)
           n == Days(q)
<1>1. TicksPerDay \in Nat /\ TicksPerDay > 0
  BY TicksPerDayAssumption
<1>2. day \in Int /\ TimeOfDay(t) \in 0 .. TicksPerDay - 1
      /\ t = TicksPerDay * day + TimeOfDay(t)
  BY DayAndTime
<1>3. /\ k \in Int /\ n \in Nat /\ first \in Int /\ first = n * k
      /\ first + n = n * (k + 1) /\ first <= day /\ day + 1 <= first + n
  BY <1>2 DEF Days, Weekday
<1>4. CalendarDays(q, t) = Bounds(TicksPerDay * first, TicksPerDay * (first + n))
  BY DEF CalendarDays
<1> HIDE DEF day, k, first, n
<1>5. /\ TicksPerDay * first = (TicksPerDay * n) * k
      /\ TicksPerDay * (first + n) = (TicksPerDay * n) * (k + 1)
  <2>1. TicksPerDay * (n * k) = (TicksPerDay * n) * k
    BY <1>1, <1>3
  <2>2. TicksPerDay * (n * (k + 1)) = (TicksPerDay * n) * (k + 1)
    BY <1>1, <1>3
  <2> QED BY <1>3, <2>1, <2>2
<1>6. TicksPerDay * first <= t /\ t < TicksPerDay * (first + n)
  <2>1. TicksPerDay * first \in Int /\ TicksPerDay * first <= TicksPerDay * day
    BY <1>2, <1>3, MoreDays
  <2>2. first + n \in Int /\ day < first + n
    BY <1>2, <1>3
  <2>3. /\ TicksPerDay * (first + n) \in Int /\ TicksPerDay * day \in Int
        /\ TicksPerDay * day + TicksPerDay <= TicksPerDay * (first + n)
    BY <1>2, <2>2, MoreDays
  <2> QED BY <1>1, <1>2, <2>1, <2>3
<1>7. /\ CalendarDays(q, t) = Bounds((TicksPerDay * n) * k, (TicksPerDay * n) * (k + 1))
      /\ (TicksPerDay * n) * k <= t /\ t < (TicksPerDay * n) * (k + 1)
  BY <1>4, <1>5, <1>6
<1> QED BY <1>3, <1>7 DEF n

\* Calendar months and years begin with a month.
LEMMA CalendarMonthsAre ==
    ASSUME NEW q \in {"month", "year"}, NEW t \in Int
    PROVE  \E k \in Int :
              /\ CalendarMonths(q, t) = Bounds(AtStartOf(Months(q) * k), AtStartOf(Months(q) * (k + 1)))
              /\ AtStartOf(Months(q) * k) <= t /\ t < AtStartOf(Months(q) * (k + 1))
<1> DEFINE m == Month(t)
           k == IF q = "month" THEN m ELSE m \div 12
           first == IF q = "month" THEN m ELSE m - (m % 12)
<1>1. m \in Int /\ AtStartOf(m) <= t /\ t < AtStartOf(m + 1)
  BY InItsMonth
<1>2. /\ k \in Int /\ first \in Int /\ first = Months(q) * k
      /\ first + Months(q) = Months(q) * (k + 1) /\ first + Months(q) \in Int
      /\ first <= m /\ m + 1 <= first + Months(q)
  BY <1>1 DEF Months
<1>3. CalendarMonths(q, t) = Bounds(AtStartOf(first), AtStartOf(first + Months(q)))
  BY DEF CalendarMonths
<1> HIDE DEF m, k, first
<1>4. AtStartOf(first) \in Int /\ AtStartOf(m) \in Int /\ AtStartOf(first) <= AtStartOf(m)
  BY <1>1, <1>2, MonthsInOrder
<1>5. m + 1 \in Int
  BY <1>1
<1>6. /\ AtStartOf(m + 1) \in Int /\ AtStartOf(first + Months(q)) \in Int
      /\ AtStartOf(m + 1) <= AtStartOf(first + Months(q))
  BY <1>2, <1>5, MonthsInOrder
<1>7. AtStartOf(first) <= t /\ t < AtStartOf(first + Months(q))
  BY <1>1, <1>4, <1>6
<1> QED BY <1>2, <1>3, <1>7

-----------------------------------------------------------------------------
\* The anchor's instants before the month of t are past, those after it are not.
LEMMA AnchorMonths ==
    ASSUME NEW a \in Int, NEW t \in Int, NEW n \in Int
    PROVE  /\ AddMonthsClamped(a, n) \in Int
           /\ n < Month(t) - Month(a) => AddMonthsClamped(a, n) < t
           /\ n > Month(t) - Month(a) => AddMonthsClamped(a, n) > t
<1>1. AddMonthsClamped(a, n) \in Int /\ Month(AddMonthsClamped(a, n)) = Month(a) + n
  BY ClampedMonths
<1>2. Month(a) \in Int /\ Month(t) \in Int
  BY InItsMonth
<1> QED BY <1>1, <1>2, MonthBefore

\* The loops of AnchoredMonths (period.go:72-83).
Covers(a, t, s, n, k) ==
    (k - n) % s = 0 /\ AddMonthsClamped(a, k) <= t /\ t < AddMonthsClamped(a, k + s)

\* Of the anchor's periods one only covers an instant.
LEMMA OneCover ==
    ASSUME NEW a \in Int, NEW t \in Int, NEW s \in {1, 12}, NEW n \in Int, NEW k \in Int,
           Covers(a, t, s, n, k), NEW j \in Int, Covers(a, t, s, n, j)
    PROVE  j = k
<1>1. ASSUME NEW u \in Int, Covers(a, t, s, n, u), NEW v \in Int, Covers(a, t, s, n, v), u < v
      PROVE FALSE
  <2>1. u + s \in Int /\ u + s <= v
    BY <1>1 DEF Covers
  <2>2. u + s = v \/ AddMonthsClamped(a, u + s) < AddMonthsClamped(a, v)
    BY <2>1, ClampedOrder
  <2>3. AddMonthsClamped(a, u + s) \in Int /\ AddMonthsClamped(a, v) \in Int
    BY <2>1, AnchorMonths
  <2> QED BY <1>1, <2>2, <2>3 DEF Covers
<1> QED BY <1>1

Back(a, t, s) ==
    LET back[n \in Int] == IF AddMonthsClamped(a, n) > t THEN back[n - s] ELSE n
    IN back

Forward(a, t, s) ==
    LET forward[n \in Int] == IF NextBoundary(a, n, s) > t THEN n ELSE forward[n + s]
    IN forward

\* The first search loop of AnchoredMonths (period.go:72-75) as one step.
LEMMA Rewind ==
    ASSUME NEW a \in Int, NEW t \in Int, NEW s \in {1, 12}, NEW n \in Int
    PROVE  Back(a, t, s)[n]
             = IF AddMonthsClamped(a, n) > t THEN Back(a, t, s)[n - s] ELSE n
<1> DEFINE A(m) == AddMonthsClamped(a, m)
           Found(m) == CHOOSE k \in Int : Covers(a, t, s, m, k)
           f == [m \in Int |-> IF A(m) > t THEN Found(m) ELSE m]
           back[m \in Int] == IF A(m) > t THEN back[m - s] ELSE m
<1>1. ASSUME NEW m \in Int, A(m) > t PROVE f[m] = f[m - s]
  <2>1. m - s \in Int /\ A(m) \in Int /\ A(m - s) \in Int /\ (m - s) + s = m
    <3>1. m - s \in Int /\ (m - s) + s = m
      OBVIOUS
    <3> QED BY <3>1, AnchorMonths
  <2>2. \A k \in Int : Covers(a, t, s, m, k) <=> Covers(a, t, s, m - s, k)
    <3>1. \A k \in Int : (k - m) % s = 0 <=> (k - (m - s)) % s = 0
      OBVIOUS
    <3> QED BY <3>1 DEF Covers
  <2>3. Found(m) = Found(m - s)
    BY <2>2
  <2>4. CASE A(m - s) > t
    BY <1>1, <2>1, <2>3, <2>4
  <2>5. CASE A(m - s) <= t
    <3>1. Covers(a, t, s, m - s, m - s)
      BY <1>1, <2>1, <2>5 DEF Covers
    <3>2. Found(m - s) \in Int /\ Covers(a, t, s, m - s, Found(m - s))
      BY <2>1, <3>1
    <3>3. Found(m - s) = m - s
      BY <2>1, <3>1, <3>2, OneCover
    <3> QED BY <1>1, <2>1, <2>3, <2>5, <3>3
  <2> QED BY <2>1, <2>4, <2>5
<1>2. f = [m \in Int |-> IF A(m) > t THEN f[m - s] ELSE m]
  <2>1. f = [m \in Int |-> f[m]]
    OBVIOUS
  <2>2. \A m \in Int : ~(A(m) > t) => f[m] = m
    OBVIOUS
  <2> HIDE DEF f, A
  <2>3. \A m \in Int : f[m] = IF A(m) > t THEN f[m - s] ELSE m
    BY <1>1, <2>2
  <2> QED BY <2>1, <2>3
<1>3. back = [m \in Int |-> IF A(m) > t THEN back[m - s] ELSE m]
  <2> HIDE DEF f, A
  <2> QED BY <1>2
<1> HIDE DEF back
<1>4. back[n] = IF A(n) > t THEN back[n - s] ELSE n
  BY <1>3
<1>5. Back(a, t, s) = back
  BY DEF Back, back
<1> QED BY <1>4, <1>5

\* The second search loop (period.go:76-83) as one step.
LEMMA Advance ==
    ASSUME NEW a \in Int, NEW t \in Int, NEW s \in {1, 12}, NEW n \in Int
    PROVE  Forward(a, t, s)[n]
             = IF NextBoundary(a, n, s) > t THEN n ELSE Forward(a, t, s)[n + s]
<1> DEFINE A(m) == AddMonthsClamped(a, m)
           B(m) == NextBoundary(a, m, s)
           Found(m) == CHOOSE k \in Int : Covers(a, t, s, m, k)
           f == [m \in Int |-> IF B(m) > t THEN m ELSE Found(m)]
           forward[m \in Int] == IF B(m) > t THEN m ELSE forward[m + s]
<1>1. ASSUME NEW m \in Int, ~(B(m) > t) PROVE f[m] = f[m + s]
  <2>1. m + s \in Int /\ A(m + s) \in Int /\ B(m) = A(m + s) /\ B(m + s) = A(m + s + s)
        /\ B(m + s) \in Int
    <3>1. m + s \in Int /\ (m + s) + s \in Int
      OBVIOUS
    <3> QED BY <3>1, AnchorMonths DEF NextBoundary
  <2>2. \A k \in Int : Covers(a, t, s, m, k) <=> Covers(a, t, s, m + s, k)
    <3>1. \A k \in Int : (k - m) % s = 0 <=> (k - (m + s)) % s = 0
      OBVIOUS
    <3> QED BY <3>1 DEF Covers
  <2>3. Found(m) = Found(m + s)
    BY <2>2
  <2>4. CASE ~(B(m + s) > t)
    BY <1>1, <2>1, <2>3, <2>4
  <2>5. CASE B(m + s) > t
    <3>1. Covers(a, t, s, m + s, m + s)
      BY <1>1, <2>1, <2>5 DEF Covers
    <3>2. Found(m + s) \in Int /\ Covers(a, t, s, m + s, Found(m + s))
      BY <2>1, <3>1
    <3>3. Found(m + s) = m + s
      BY <2>1, <3>1, <3>2, OneCover
    <3> QED BY <1>1, <2>1, <2>3, <2>5, <3>3
  <2> QED BY <2>4, <2>5
<1>2. f = [m \in Int |-> IF B(m) > t THEN m ELSE f[m + s]]
  <2>1. f = [m \in Int |-> f[m]]
    OBVIOUS
  <2>2. \A m \in Int : B(m) > t => f[m] = m
    OBVIOUS
  <2> HIDE DEF f, B
  <2>3. \A m \in Int : f[m] = IF B(m) > t THEN m ELSE f[m + s]
    BY <1>1, <2>2
  <2> QED BY <2>1, <2>3
<1>3. forward = [m \in Int |-> IF B(m) > t THEN m ELSE forward[m + s]]
  <2> HIDE DEF f, B
  <2> QED BY <1>2
<1> HIDE DEF forward
<1>4. forward[n] = IF B(n) > t THEN n ELSE forward[n + s]
  BY <1>3
<1>5. Forward(a, t, s) = forward
  BY DEF Forward, forward
<1> QED BY <1>4, <1>5

\* The period of anchored months that contains an instant.
LEMMA AnchoredMonthsAre ==
    ASSUME NEW q \in {"month", "year"}, NEW a \in Int, NEW t \in Int
    PROVE  LET s == Months(q)
           IN \E k \in Int :
                 /\ AnchoredMonths(q, a, t)
                      = Bounds(AddMonthsClamped(a, s * k), AddMonthsClamped(a, s * (k + 1)))
                 /\ AddMonthsClamped(a, s * k) <= t /\ t < AddMonthsClamped(a, s * (k + 1))
<1> DEFINE s == Months(q)
           diff == Month(t) - Month(a)
           n0 == s * Quo(diff, s)
           A(m) == AddMonthsClamped(a, m)
           back == Back(a, t, s)
           forward == Forward(a, t, s)
           n1 == forward[back[n0]]
<1>1. s \in {1, 12} /\ diff \in Int
  BY InItsMonth DEF Months
<1>2. /\ Quo(diff, s) \in Int /\ n0 \in Int
      /\ diff >= 0 => n0 <= diff /\ diff < n0 + s
      /\ diff < 0 => diff <= n0 /\ n0 - s < diff
  <2> HIDE DEF diff, s
  <2> QED BY <1>1 DEF Quo
<1>3. \A m \in Int : /\ A(m) \in Int
                     /\ m < diff => A(m) < t
                     /\ m > diff => A(m) > t
  BY AnchorMonths
<1>4. AnchoredMonths(q, a, t) = Bounds(A(n1), A(n1 + s))
  BY DEF AnchoredMonths, NextBoundary, Back, Forward
<1>5. ASSUME NEW m \in Int PROVE back[m] = IF A(m) > t THEN back[m - s] ELSE m
  BY <1>1, Rewind
<1>6. ASSUME NEW m \in Int PROVE forward[m] = IF A(m + s) > t THEN m ELSE forward[m + s]
  <2>1. forward[m] = IF NextBoundary(a, m, s) > t THEN m ELSE forward[m + s]
    BY <1>1, Advance
  <2> QED BY <2>1 DEF NextBoundary
<1> HIDE DEF A, back, forward, n0, s, diff
<1>7. PICK j \in Int : back[n0] = s * j /\ A(s * j) <= t /\ A(s * (j + 1)) > t
  <2>1. CASE A(n0) > t
    <3>1. back[n0] = back[n0 - s] /\ n0 - s \in Int /\ n0 >= diff
      BY <1>1, <1>2, <1>3, <1>5, <2>1
    <3>2. n0 - s < diff
      BY <1>1, <1>2, <3>1
    <3>3. back[n0 - s] = n0 - s /\ A(n0 - s) <= t
      BY <1>1, <1>3, <1>5, <3>1, <3>2
    <3>4. /\ n0 - s = s * (Quo(diff, s) - 1) /\ n0 = s * ((Quo(diff, s) - 1) + 1)
          /\ Quo(diff, s) - 1 \in Int
      BY <1>1, <1>2 DEF n0
    <3> QED BY <2>1, <3>1, <3>3, <3>4
  <2>2. CASE ~(A(n0) > t)
    <3>1. back[n0] = n0 /\ A(n0) <= t /\ n0 <= diff
      BY <1>1, <1>2, <1>3, <1>5, <2>2
    <3>2. n0 + s > diff /\ n0 + s \in Int
      BY <1>1, <1>2, <3>1
    <3>3. A(n0 + s) > t
      BY <1>3, <3>2, <1>1
    <3>4. n0 = s * Quo(diff, s) /\ n0 + s = s * (Quo(diff, s) + 1)
      BY <1>1, <1>2 DEF n0
    <3> QED BY <1>2, <3>1, <3>3, <3>4
  <2> QED BY <2>1, <2>2
<1>8. n1 = s * j /\ n1 + s = s * (j + 1) /\ n1 \in Int /\ n1 + s \in Int
  <2>1. s * j \in Int /\ s * j + s = s * (j + 1) /\ s * j + s \in Int
    BY <1>1
  <2>2. forward[s * j] = s * j
    BY <1>6, <1>7, <2>1
  <2> QED BY <1>7, <2>1, <2>2
<1>9. /\ AnchoredMonths(q, a, t) = Bounds(A(s * j), A(s * (j + 1)))
      /\ A(s * j) <= t /\ t < A(s * (j + 1))
  <2>1. A(n1 + s) \in Int
    BY <1>3, <1>8
  <2> QED BY <1>4, <1>7, <1>8, <2>1
<1> QED BY <1>9 DEF A, s

-----------------------------------------------------------------------------
\* The instants at which the periods of an anchor begin, one for every integer.
Boundary(q, a, k) ==
    CASE q \in {"day", "week"} /\ a = Nil -> TicksPerDay * Days(q) * k
      [] q \in {"day", "week"} /\ a # Nil -> a + TicksPerDay * Days(q) * k
      [] q \in {"month", "year"} /\ a = Nil -> AtStartOf(Months(q) * k)
      [] q \in {"month", "year"} /\ a # Nil -> AddMonthsClamped(a, Months(q) * k)

\* Boundaries come in the order of their numbers.
LEMMA BoundaryOrder ==
    ASSUME NEW q \in Periods \ {"none"}, NEW a, a = Nil \/ a \in Int,
           NEW k \in Int, NEW j \in Int, k <= j
    PROVE  Boundary(q, a, k) \in Int /\ Boundary(q, a, j) \in Int
           /\ Boundary(q, a, k) <= Boundary(q, a, j)
<1>1. CASE q \in {"day", "week"}
  <2> DEFINE d == TicksPerDay * Days(q)
  <2>1. d \in Nat
    BY TicksPerDayAssumption DEF Days
  <2> HIDE DEF d
  <2>2. d * k \in Int /\ d * j \in Int /\ d * k <= d * j
    <3>1. d * k \in Int /\ d * j \in Int /\ d * (j - k) \in Nat
      BY <2>1
    <3>2. d * (j - k) = d * j - d * k
      BY <2>1
    <3> QED BY <3>1, <3>2
  <2>3. CASE a = Nil
    <3>1. Boundary(q, a, k) = d * k /\ Boundary(q, a, j) = d * j
      BY <1>1, <2>3 DEF Boundary, d
    <3> QED BY <2>2, <3>1
  <2>4. CASE a # Nil
    <3>1. Boundary(q, a, k) = a + d * k /\ Boundary(q, a, j) = a + d * j
      BY <1>1, <2>4 DEF Boundary, d
    <3> QED BY <2>2, <2>4, <3>1
  <2> QED BY <2>3, <2>4
<1>2. CASE q \in {"month", "year"}
  <2> DEFINE m == Months(q) * k
             n == Months(q) * j
  <2>1. m \in Int /\ n \in Int /\ m <= n
    BY DEF Months
  <2>2. CASE a = Nil
    <3>1. Boundary(q, a, k) = AtStartOf(m) /\ Boundary(q, a, j) = AtStartOf(n)
      BY <1>2, <2>2 DEF Boundary
    <3> HIDE DEF m, n
    <3> QED BY <2>1, <3>1, MonthsInOrder
  <2>3. CASE a # Nil
    <3>1. Boundary(q, a, k) = AddMonthsClamped(a, m) /\ Boundary(q, a, j) = AddMonthsClamped(a, n)
      BY <1>2, <2>3 DEF Boundary
    <3> HIDE DEF m, n
    <3>2. AddMonthsClamped(a, m) \in Int /\ AddMonthsClamped(a, n) \in Int
      BY <2>1, <2>3, ClampedMonths
    <3>3. m = n \/ AddMonthsClamped(a, m) < AddMonthsClamped(a, n)
      BY <2>1, <2>3, ClampedOrder
    <3> QED BY <3>1, <3>2, <3>3
  <2> QED BY <2>2, <2>3
<1> QED BY <1>1, <1>2 DEF Periods

\* The period reported for an instant runs from the boundary before it to the
\* next.
LEMMA PeriodIs ==
    ASSUME NEW q \in Periods \ {"none"}, NEW a, a = Nil \/ a \in Int, NEW t \in Int,
           q \in {"day", "week"} /\ a # Nil => Measurable(a, t)
    PROVE  \E k \in Int : /\ PeriodBounds(q, a, t) = Bounds(Boundary(q, a, k), Boundary(q, a, k + 1))
                          /\ Boundary(q, a, k) <= t /\ t < Boundary(q, a, k + 1)
<1>1. CASE q \in {"day", "week"} /\ a = Nil
  <2>1. PeriodBounds(q, a, t) = CalendarDays(q, t)
    BY <1>1 DEF PeriodBounds
  <2>2. \A k : Boundary(q, a, k) = TicksPerDay * Days(q) * k
    BY <1>1 DEF Boundary
  <2>3. PICK k \in Int : /\ CalendarDays(q, t) = Bounds(TicksPerDay * Days(q) * k, TicksPerDay * Days(q) * (k + 1))
                         /\ TicksPerDay * Days(q) * k <= t /\ t < TicksPerDay * Days(q) * (k + 1)
    BY <1>1, CalendarDaysAre
  <2> QED BY <2>1, <2>2, <2>3
<1>2. CASE q \in {"day", "week"} /\ a # Nil
  <2>1. PeriodBounds(q, a, t) = AnchoredDays(q, a, t)
    BY <1>2 DEF PeriodBounds
  <2>2. \A k : Boundary(q, a, k) = a + TicksPerDay * Days(q) * k
    BY <1>2 DEF Boundary
  <2> QED BY <1>2, <2>1, <2>2, AnchoredDaysAre
<1>3. CASE q \in {"month", "year"} /\ a = Nil
  <2>1. PeriodBounds(q, a, t) = CalendarMonths(q, t)
    BY <1>3 DEF PeriodBounds
  <2>2. \A k : Boundary(q, a, k) = AtStartOf(Months(q) * k)
    BY <1>3 DEF Boundary
  <2>3. PICK k \in Int : /\ CalendarMonths(q, t) = Bounds(AtStartOf(Months(q) * k), AtStartOf(Months(q) * (k + 1)))
                         /\ AtStartOf(Months(q) * k) <= t /\ t < AtStartOf(Months(q) * (k + 1))
    BY <1>3, CalendarMonthsAre
  <2> QED BY <2>1, <2>2, <2>3
<1>4. CASE q \in {"month", "year"} /\ a # Nil
  <2>1. PeriodBounds(q, a, t) = AnchoredMonths(q, a, t)
    BY <1>4 DEF PeriodBounds
  <2>2. \A k : Boundary(q, a, k) = AddMonthsClamped(a, Months(q) * k)
    BY <1>4 DEF Boundary
  <2>3. PICK k \in Int : /\ AnchoredMonths(q, a, t) = Bounds(AddMonthsClamped(a, Months(q) * k), AddMonthsClamped(a, Months(q) * (k + 1)))
                         /\ AddMonthsClamped(a, Months(q) * k) <= t /\ t < AddMonthsClamped(a, Months(q) * (k + 1))
    BY <1>4, AnchoredMonthsAre
  <2> QED BY <2>1, <2>2, <2>3
<1> QED BY <1>1, <1>2, <1>3, <1>4 DEF Periods

-----------------------------------------------------------------------------
\* The clock is in its horizon and the report is up to date.
Clock ==
    /\ p \in Periods \ {"none"} /\ anchor \in Anchors
    /\ now \in Int /\ FirstTick <= now /\ (now = FirstTick \/ now <= LastTick)
    /\ period = PeriodBounds(p, anchor, now)

\* The inductive invariant: what the clock reports is computed from its own state.
LEMMA ClockHolds == Spec => []Clock
<1>1. Init => Clock
  BY HorizonAssumption DEF Init, Clock
<1>2. Clock /\ [Tick]_vars => Clock'
  <2> SUFFICES ASSUME Clock, [Tick]_vars PROVE Clock'
    OBVIOUS
  <2>1. CASE Tick
    BY <2>1, HorizonAssumption DEF Tick, Clock
  <2>2. CASE UNCHANGED vars
    BY <2>2 DEF vars, Clock
  <2> QED BY <2>1, <2>2
<1> QED BY <1>1, <1>2, PTL DEF Spec

\* Every period that the clock can report lies between two neighbouring boundaries.
LEMMA ClockPeriod ==
    ASSUME \A a \in Anchors \ {Nil} : InReach(a), NEW q \in Periods \ {"none"}, NEW a \in Anchors,
           NEW t \in Int, FirstTick <= t, t = FirstTick \/ t <= LastTick
    PROVE  \E k \in Int : /\ PeriodBounds(q, a, t) = Bounds(Boundary(q, a, k), Boundary(q, a, k + 1))
                          /\ Boundary(q, a, k) <= t /\ t < Boundary(q, a, k + 1)
<1>1. a = Nil \/ a \in Int
  BY AnchorsAssumption
<1>2. a # Nil => Measurable(a, t)
  BY <1>1, HorizonAssumption, MaxDurationAssumption, TicksPerDayAssumption DEF InReach, Measurable
<1> QED BY <1>1, <1>2, PeriodIs

\* The period reported for an instant contains it, for every period, anchor and
\* clock, while the clock stays within 292 years of the anchor (period.go:31-86).
THEOREM InsidePeriodHolds ==
    ASSUME \A a \in Anchors \ {Nil} : InReach(a)
    PROVE  Spec => []InsidePeriod
<1>1. Clock => InsidePeriod
  <2> SUFFICES ASSUME Clock PROVE InsidePeriod
    OBVIOUS
  <2>1. PICK k \in Int : /\ period = Bounds(Boundary(p, anchor, k), Boundary(p, anchor, k + 1))
                         /\ Boundary(p, anchor, k) <= now /\ now < Boundary(p, anchor, k + 1)
    BY ClockPeriod DEF Clock
  <2> QED BY <2>1 DEF InsidePeriod, Bounds
<1> QED BY <1>1, ClockHolds, PTL

\* Under the same anchors no instant is metered twice or not at all: when the
\* reported period changes, the next one starts where it ended.
THEOREM SeamlessHolds ==
    ASSUME \A a \in Anchors \ {Nil} : InReach(a)
    PROVE  Spec => Seamless
<1> DEFINE Step == period' = period \/ (period'.start = period.end /\ now' = period.end)
<1>1. Clock /\ Clock' /\ [Tick]_vars => [Step]_vars
  <2> SUFFICES ASSUME Clock, Clock', Tick PROVE Step
    OBVIOUS
  <2> DEFINE B(k) == Boundary(p, anchor, k)
  <2>1. PICK k \in Int : period = Bounds(B(k), B(k + 1)) /\ B(k) <= now /\ now < B(k + 1)
    BY ClockPeriod DEF Clock
  <2>2. PICK j \in Int : period' = Bounds(B(j), B(j + 1)) /\ B(j) <= now + 1 /\ now + 1 < B(j + 1)
    <3>1. p' = p /\ anchor' = anchor /\ now' = now + 1
      BY DEF Tick
    <3>2. /\ p \in Periods \ {"none"} /\ anchor \in Anchors
          /\ now + 1 \in Int /\ FirstTick <= now + 1 /\ (now + 1 = FirstTick \/ now + 1 <= LastTick)
          /\ period' = PeriodBounds(p, anchor, now + 1)
      BY <3>1 DEF Clock
    <3> QED BY <3>2, ClockPeriod
  <2>3. p \in Periods \ {"none"} /\ (anchor = Nil \/ anchor \in Int) /\ now \in Int
    BY AnchorsAssumption DEF Clock
  <2>4. ASSUME NEW m \in Int, NEW n \in Int, m <= n
        PROVE  B(m) \in Int /\ B(n) \in Int /\ B(m) <= B(n)
    BY <2>3, <2>4, BoundaryOrder
  <2> HIDE DEF B
  <2>5. k + 1 \in Int /\ j + 1 \in Int
    OBVIOUS
  <2>6. B(k) \in Int /\ B(j) \in Int /\ B(k + 1) \in Int /\ B(j + 1) \in Int
    BY <2>4, <2>5
  <2>7. CASE j < k
    <3>1. j + 1 <= k
      BY <2>7
    <3>2. B(j + 1) <= B(k)
      BY <2>4, <2>5, <3>1
    <3> QED BY <2>1, <2>2, <2>3, <2>6, <3>2
  <2>8. CASE j = k
    BY <2>1, <2>2, <2>8
  <2>9. CASE j > k
    <3>1. k + 1 <= j
      BY <2>9
    <3>2. B(k + 1) <= B(j)
      BY <2>4, <2>5, <3>1
    <3>3. B(j) = B(k + 1) /\ B(k + 1) = now + 1
      BY <2>1, <2>2, <2>3, <2>6, <3>2
    <3>4. now' = now + 1
      BY DEF Tick
    <3> QED BY <2>1, <2>2, <3>3, <3>4 DEF Bounds
  <2> QED BY <2>7, <2>8, <2>9
<1> QED BY <1>1, ClockHolds, PTL DEF Spec, Seamless

\* Whatever the anchor and the clock, anchored months and years begin on the
\* anchor's day and time, or on the last day of a shorter month
\* (period.go:88-105).
THEOREM OnAnchorDayHolds == Spec => []OnAnchorDay
<1>1. Clock => OnAnchorDay
  <2> SUFFICES ASSUME Clock, p \in {"month", "year"}, anchor # Nil
               PROVE  LET s == period.start
                      IN /\ TimeOfDay(s) = TimeOfDay(anchor)
                         /\ \/ DayOfMonth(s) = DayOfMonth(anchor)
                            \/ /\ DayOfMonth(s) < DayOfMonth(anchor)
                               /\ DayOfMonth(s) = DaysIn(Month(s)) - 1
    BY DEF OnAnchorDay
  <2>1. anchor \in Int /\ now \in Int
    BY AnchorsAssumption DEF Clock
  <2>2. period = AnchoredMonths(p, anchor, now)
    BY DEF Clock, PeriodBounds
  <2>3. PICK k \in Int :
           /\ AnchoredMonths(p, anchor, now) = Bounds(AddMonthsClamped(anchor, Months(p) * k),
                                                      AddMonthsClamped(anchor, Months(p) * (k + 1)))
           /\ AddMonthsClamped(anchor, Months(p) * k) <= now
           /\ now < AddMonthsClamped(anchor, Months(p) * (k + 1))
    BY <2>1, AnchoredMonthsAre
  <2>4. period.start = AddMonthsClamped(anchor, Months(p) * k) /\ Months(p) * k \in Int
    BY <2>2, <2>3 DEF Bounds, Months
  <2> QED BY <2>1, <2>4, ClampedMonths
<1> QED BY <1>1, ClockHolds, PTL
====
