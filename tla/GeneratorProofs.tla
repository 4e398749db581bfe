--------------------------- MODULE GeneratorProofs ---------------------------
(***************************************************************************)
(* Proofs about EpochGenerator, for every set of requests: the calendar,   *)
(* the sets of dimension values, and the epochs.                           *)
(***************************************************************************)
EXTENDS EpochGenerator, FiniteSetTheorems, WellFoundedInduction, TLAPS

(* The calendar *)

\* A nonempty set of natural numbers has a least element: induction over the
\* numbers of the boundaries goes by the least counterexample.
LEMMA LeastNumber ==
    ASSUME NEW S, S \subseteq Nat, S # {}
    PROVE  \E n \in S : \A m \in S : n <= m
<1> DEFINE T == {0..n : n \in S}
<1>1. T \subseteq FiniteSubsetsOf(Nat) /\ T # {}
  <2>1. ASSUME NEW n \in S PROVE 0..n \subseteq Nat /\ IsFiniteSet(0..n)
    BY FS_Interval
  <2> QED
    BY <2>1, Zenon DEF FiniteSubsetsOf
<1>2. \E x \in T : \A y \in T : ~(<<y, x>> \in StrictSubsetOrdering(Nat))
  <2> HIDE DEF T
  <2> QED
    BY <1>1, FS_StrictSubsetOrderingWellFounded, WFMin, Zenon
<1>3. PICK n \in S : \A m \in S : ~(<<0..m, 0..n>> \in StrictSubsetOrdering(Nat))
  BY <1>2, Zenon
<1>4. ASSUME NEW m \in S PROVE n <= m
  <2>1. SUFFICES ASSUME m < n PROVE FALSE
    OBVIOUS
  <2>2. 0..m \subseteq 0..n /\ 0..m # 0..n
    BY <2>1
  <2>3. <<0..m, 0..n>> \in StrictSubsetOrdering(Nat)
    BY <2>2 DEF StrictSubsetOrdering
  <2> QED
    BY <1>3, <2>3, Zenon
<1> QED
  BY <1>4, Zenon

\* A year has 365 or 366 days.
LEMMA Years ==
    ASSUME NEW y \in Nat
    PROVE  YearStart(y) \in Nat /\ LeapDays(y) \in {0, 1}
BY DEF YearStart, LeapDays

\* What the table says.
LEMMA Table ==
    ASSUME NEW k \in 0..11
    PROVE  /\ DaysBefore[k + 1] \in Nat
           /\ k < 11 => DaysBefore[k + 1] + 28 <= DaysBefore[k + 2]
           /\ k = 0 => DaysBefore[k + 1] = 0
           /\ k = 11 => DaysBefore[k + 1] = 334
BY DEF DaysBefore

\* No month has less than 28 days.
LEMMA Months ==
    ASSUME NEW m \in Nat \ {0}
    PROVE  /\ MonthStart(m) \in Nat
           /\ MonthStart(m) + 28 <= MonthStart(m + 1)
<1> DEFINE y == (m - 1) \div 12
           k == (m - 1) % 12
<1>1. y \in Nat /\ k \in 0..11 /\ m - 1 = 12 * y + k
  OBVIOUS
<1>2. IF k = 11 THEN m \div 12 = y + 1 /\ m % 12 = 0 ELSE m \div 12 = y /\ m % 12 = k + 1
  BY <1>1
<1>3. (m + 1) - 1 = m
  OBVIOUS
<1>4. MonthStart(m) = YearStart(y) + DaysBefore[k + 1] + (IF k >= 2 THEN LeapDays(y) ELSE 0)
  BY Zenon DEF MonthStart
<1>5. YearStart(y) \in Nat /\ LeapDays(y) \in {0, 1} /\ YearStart(y + 1) = YearStart(y) + 365 + LeapDays(y)
      /\ YearStart(y + 1) \in Nat
  <2>1. YearStart(y) \in Nat /\ LeapDays(y) \in {0, 1} /\ YearStart(y + 1) \in Nat
    BY <1>1, Years
  <2> QED
    BY <2>1 DEF LeapDays
<1> HIDE DEF y, k
<1>6. CASE k = 11
  <2>1. MonthStart(m + 1) = YearStart(y + 1) + DaysBefore[1] + 0
    BY <1>2, <1>3, <1>6 DEF MonthStart
  <2>2. DaysBefore[k + 1] = 334 /\ DaysBefore[1] = 0
    BY <1>6, Table
  <2> QED
    BY <1>4, <1>5, <1>6, <2>1, <2>2
<1>7. CASE k # 11
  <2>1. MonthStart(m + 1) = YearStart(y) + DaysBefore[k + 2] + (IF k + 1 >= 2 THEN LeapDays(y) ELSE 0)
    BY <1>1, <1>2, <1>3, <1>7 DEF MonthStart
  <2>2. DaysBefore[k + 1] \in Nat /\ DaysBefore[k + 2] \in Nat /\ DaysBefore[k + 1] + 28 <= DaysBefore[k + 2]
    <3>1. DaysBefore[k + 1] \in Nat /\ DaysBefore[k + 1] + 28 <= DaysBefore[k + 2]
      BY <1>1, <1>7, Table
    <3>2. k + 1 \in 0..11 /\ (k + 1) + 1 = k + 2
      BY <1>1, <1>7
    <3>3. DaysBefore[(k + 1) + 1] \in Nat
      BY <3>2, Table
    <3> QED
      BY <3>1, <3>2, <3>3, Zenon
  <2> QED
    BY <1>1, <1>4, <1>5, <1>7, <2>1, <2>2
<1> QED
  BY <1>6, <1>7, Zenon

\* The n-th calendar boundary of a unit.
Bound(u, n) ==
    CASE u = "HOUR"  -> n * Hour
      [] u = "DAY"   -> n * Day
      [] u = "WEEK"  -> n * Week
      [] u = "MONTH" -> MonthStart(n + 1) * Day

\* Boundaries are instants, each before the next one.
LEMMA BoundStep ==
    ASSUME NEW u \in Unit, NEW n \in Nat
    PROVE  Bound(u, n) \in Nat /\ Bound(u, n) < Bound(u, n + 1) /\ Bound(u, 0) = 0
<1>1. CASE u = "MONTH"
  <2>1. n + 1 \in Nat \ {0} /\ (n + 1) + 1 \in Nat
    OBVIOUS
  <2>2. MonthStart(n + 1) \in Nat /\ MonthStart(n + 1) + 28 <= MonthStart((n + 1) + 1)
    BY <2>1, Months, Zenon
  <2>3. MonthStart((n + 1) + 1) \in Nat
    BY Months
  <2>4. MonthStart(0 + 1) = 0
    BY DEF MonthStart, YearStart, DaysBefore
  <2>5. Bound(u, n) = MonthStart(n + 1) * Day /\ Bound(u, n + 1) = MonthStart((n + 1) + 1) * Day
        /\ Bound(u, 0) = MonthStart(0 + 1) * Day
    BY <1>1, Zenon DEF Bound
  <2> QED
    BY <2>2, <2>3, <2>4, <2>5 DEF Day, Hour
<1>2. CASE u # "MONTH"
  BY <1>2 DEF Bound, Unit, Hour, Day, Week
<1> QED
  BY <1>1, <1>2, Zenon

\* They increase.
LEMMA BoundsIncrease ==
    ASSUME NEW u \in Unit, NEW m \in Nat, NEW n \in Nat, m < n
    PROVE  Bound(u, m) < Bound(u, n)
<1> DEFINE S == {k \in Nat : m < k /\ ~(Bound(u, m) < Bound(u, k))}
<1>1. SUFFICES ASSUME S # {} PROVE FALSE
  BY Zenon
<1>2. PICK k \in S : \A l \in S : k <= l
  <2>1. S \subseteq Nat
    BY Zenon
  <2> HIDE DEF S
  <2> QED
    BY <1>1, <2>1, LeastNumber, Zenon
<1>3. k - 1 \in Nat /\ m <= k - 1 /\ k - 1 \notin S /\ (k - 1) + 1 = k
  BY <1>2
<1>4. Bound(u, k - 1) \in Nat /\ Bound(u, k - 1) < Bound(u, k) /\ Bound(u, m) \in Nat /\ Bound(u, k) \in Nat
  <2>1. Bound(u, k - 1) \in Nat /\ Bound(u, k - 1) < Bound(u, (k - 1) + 1)
    BY <1>3, BoundStep, Zenon
  <2>2. Bound(u, m) \in Nat /\ Bound(u, k) \in Nat
    BY BoundStep, Zenon
  <2> QED
    BY <1>3, <2>1, <2>2, Zenon
<1>5. CASE m = k - 1
  BY <1>2, <1>4, <1>5, Zenon
<1>6. CASE m < k - 1
  BY <1>2, <1>3, <1>4, <1>6
<1> QED
  BY <1>3, <1>5, <1>6

\* The order of two boundaries is that of their numbers.
LEMMA BoundOrder ==
    ASSUME NEW u \in Unit, NEW m \in Nat, NEW n \in Nat
    PROVE  /\ Bound(u, m) <= Bound(u, n) <=> m <= n
           /\ Bound(u, m) < Bound(u, n) <=> m < n
           /\ Bound(u, m) = Bound(u, n) <=> m = n
<1>1. Bound(u, m) \in Nat /\ Bound(u, n) \in Nat
  BY BoundStep, Zenon
<1>2. /\ m < n => Bound(u, m) < Bound(u, n)
      /\ n < m => Bound(u, n) < Bound(u, m)
  BY BoundsIncrease, Zenon
<1> QED
  BY <1>1, <1>2

\* Months, and boundaries, lie far enough apart.
LEMMA MonthsApart ==
    ASSUME NEW m \in Nat
    PROVE  28 * m <= MonthStart(m + 1)
<1> DEFINE S == {k \in Nat : ~(28 * k <= MonthStart(k + 1))}
<1>1. SUFFICES ASSUME S # {} PROVE FALSE
  BY Zenon
<1>2. PICK k \in S : \A l \in S : k <= l
  <2>1. S \subseteq Nat
    BY Zenon
  <2> HIDE DEF S
  <2> QED
    BY <1>1, <2>1, LeastNumber, Zenon
<1>3. k # 0
  <2>1. MonthStart(0 + 1) = 0
    BY DEF MonthStart, YearStart, DaysBefore
  <2> QED
    BY <1>2, <2>1
<1>4. k - 1 \in Nat /\ k - 1 \notin S /\ (k - 1) + 1 = k /\ k \in Nat \ {0}
  BY <1>2, <1>3
<1>5. MonthStart(k) \in Nat /\ MonthStart(k) + 28 <= MonthStart(k + 1)
  BY <1>4, Months, Zenon
<1>6. MonthStart(k + 1) \in Nat
  BY <1>4, Months
<1>7. 28 * (k - 1) <= MonthStart(k)
  BY <1>4, Zenon
<1> QED
  BY <1>2, <1>4, <1>5, <1>6, <1>7

\* Every instant lies in a month.
LEMMA InMonth ==
    ASSUME NEW t \in Nat
    PROVE  \E n \in Nat : Bound("MONTH", n) <= t /\ t < Bound("MONTH", n + 1)
<1> DEFINE S == {k \in Nat : t < Bound("MONTH", k)}
<1>u. "MONTH" \in Unit
  BY Zenon DEF Unit
<1>1. t + 1 \in S
  <2>1. 28 * (t + 1) <= MonthStart((t + 1) + 1) /\ MonthStart((t + 1) + 1) \in Nat
    BY MonthsApart, Months
  <2>2. Bound("MONTH", t + 1) = MonthStart((t + 1) + 1) * Day
    BY Zenon DEF Bound
  <2> QED
    BY <2>1, <2>2 DEF Day, Hour
<1>2. PICK k \in S : \A l \in S : k <= l
  <2>1. S \subseteq Nat /\ S # {}
    BY <1>1, Zenon
  <2> HIDE DEF S
  <2> QED
    BY <2>1, LeastNumber, Zenon
<1>3. k # 0
  BY <1>u, <1>2, BoundStep
<1>4. k - 1 \in Nat /\ k - 1 \notin S /\ (k - 1) + 1 = k
  BY <1>2, <1>3
<1>5. Bound("MONTH", k - 1) \in Nat
  BY <1>u, <1>4, BoundStep, Zenon
<1>6. Bound("MONTH", k - 1) <= t /\ t < Bound("MONTH", (k - 1) + 1)
  BY <1>2, <1>4, <1>5
<1> QED
  BY <1>4, <1>6, Zenon

\* MonthOf finds it.
LEMMA MonthFound ==
    ASSUME NEW t \in Nat, NEW n \in Nat, Bound("MONTH", n) <= t, t < Bound("MONTH", n + 1)
    PROVE  MonthOf(t) = n + 1
<1>u. "MONTH" \in Unit
  BY Zenon DEF Unit
<1>1. \A m \in Nat : Bound("MONTH", m) = MonthStart(m + 1) * Day
  BY Zenon DEF Bound
<1>2. n + 1 \in 1 .. ((t \div (28 * Day)) + 1)
  <2>1. 28 * n <= MonthStart(n + 1) /\ MonthStart(n + 1) \in Nat
    BY MonthsApart, Months
  <2>2. 1344 * n <= t
    BY <1>1, <2>1 DEF Day, Hour
  <2>3. n <= t \div 1344
    BY <2>2
  <2> QED
    BY <2>3 DEF Day, Hour
<1>3. ASSUME NEW m \in 1 .. ((t \div (28 * Day)) + 1),
             MonthStart(m) * Day <= t /\ t < MonthStart(m + 1) * Day
      PROVE  m = n + 1
  <2>1. m - 1 \in Nat /\ m \in Nat /\ (m - 1) + 1 = m
    BY <1>3 DEF Day, Hour
  <2>2. Bound("MONTH", m - 1) <= t /\ t < Bound("MONTH", m)
    BY <1>1, <1>3, <2>1, Zenon
  <2>3. /\ Bound("MONTH", m - 1) \in Nat /\ Bound("MONTH", m) \in Nat
        /\ Bound("MONTH", n) \in Nat /\ Bound("MONTH", n + 1) \in Nat
    BY <1>u, <2>1, BoundStep
  <2>4. Bound("MONTH", m - 1) < Bound("MONTH", n + 1) /\ Bound("MONTH", n) < Bound("MONTH", m)
    BY <2>2, <2>3
  <2>5. m - 1 < n + 1 /\ n < m
    BY <1>u, <2>1, <2>4, BoundOrder
  <2> QED
    BY <2>1, <2>5
<1>4. MonthStart(n + 1) * Day <= t /\ t < MonthStart((n + 1) + 1) * Day
  BY <1>1
<1>5. MonthsNear(t) = 1 .. ((t \div (28 * Day)) + 1)
  <2>1. ~(t < 0)
    OBVIOUS
  <2> QED
    BY <2>1, Zenon DEF MonthsNear
<1> QED
  BY <1>2, <1>3, <1>4, <1>5, Zenon DEF MonthOf

\* truncateToGranularity goes back to the last boundary.
LEMMA Truncates ==
    ASSUME NEW g, g.unit \in Unit, NEW t \in Nat
    PROVE  \E n \in Nat : /\ truncateToGranularity(t, g) = Bound(g.unit, n)
                          /\ Bound(g.unit, n) <= t /\ t < Bound(g.unit, n + 1)
<1>1. CASE g.unit = "MONTH"
  <2>1. PICK n \in Nat : Bound("MONTH", n) <= t /\ t < Bound("MONTH", n + 1)
    BY InMonth, Zenon
  <2>2. MonthOf(t) = n + 1
    BY <2>1, MonthFound, Zenon
  <2>3. truncateToGranularity(t, g) = MonthStart(n + 1) * Day
    BY <1>1, <2>2, Zenon DEF truncateToGranularity
  <2> QED
    BY <1>1, <2>1, <2>3, Zenon DEF Bound
<1>2. CASE g.unit = "HOUR"
  <2>1. truncateToGranularity(t, g) = (t \div Hour) * Hour
    BY <1>2, Zenon DEF truncateToGranularity
  <2>2. t \div 2 \in Nat /\ (t \div 2) * 2 <= t /\ t < ((t \div 2) + 1) * 2
    OBVIOUS
  <2> QED
    BY <1>2, <2>1, <2>2, Zenon DEF Bound, Hour
<1>3. CASE g.unit = "DAY"
  <2>1. truncateToGranularity(t, g) = (t \div Day) * Day
    BY <1>3, Zenon DEF truncateToGranularity, truncateToDay
  <2>2. t \div 48 \in Nat /\ (t \div 48) * 48 <= t /\ t < ((t \div 48) + 1) * 48
    OBVIOUS
  <2> QED
    BY <1>3, <2>1, <2>2 DEF Bound, Day, Hour
<1>4. CASE g.unit = "WEEK"
  <2> DEFINE d == IF Weekday(t) = 0 THEN 7 ELSE Weekday(t)
  <2>1. truncateToGranularity(t, g) = ((t - (d - 1) * Day) \div Day) * Day
    BY <1>4, Zenon DEF truncateToGranularity, truncateToDay
  <2>2. d = ((t \div 48) % 7) + 1
    BY DEF Weekday, Day, Hour
  <2>3. (t \div 48) % 7 = (t \div 48) - 7 * (t \div 336)
    OBVIOUS
  <2> HIDE DEF d
  <2>4. ((t - (d - 1) * 48) \div 48) * 48 = (t \div 336) * 336
    BY <2>2, <2>3
  <2>5. t \div 336 \in Nat /\ (t \div 336) * 336 <= t /\ t < ((t \div 336) + 1) * 336
    OBVIOUS
  <2> QED
    BY <1>4, <2>1, <2>4, <2>5 DEF Bound, Week, Day, Hour
<1> QED
  BY <1>1, <1>2, <1>3, <1>4, Zenon DEF Unit

\* addGranularity goes on from a boundary by value boundaries.
LEMMA Adds ==
    ASSUME NEW g, g.unit \in Unit, g.value \in Nat, NEW n \in Nat
    PROVE  addGranularity(Bound(g.unit, n), g) = Bound(g.unit, n + g.value)
<1> DEFINE v == g.value
<1>1. CASE g.unit = "MONTH"
  <2>1. MonthOf(Bound("MONTH", n)) = n + 1
    <3>1. "MONTH" \in Unit
      BY Zenon DEF Unit
    <3>2. /\ Bound("MONTH", n) \in Nat
          /\ Bound("MONTH", n) <= Bound("MONTH", n)
          /\ Bound("MONTH", n) < Bound("MONTH", n + 1)
      BY <3>1, BoundStep
    <3> QED
      BY <3>2, MonthFound, Zenon
  <2>2. addGranularity(Bound("MONTH", n), g) = MonthStart((n + 1) + g.value) * Day
    BY <1>1, <2>1, Zenon DEF addGranularity
  <2>3. (n + 1) + g.value = (n + g.value) + 1
    OBVIOUS
  <2> QED
    BY <1>1, <2>2, <2>3, Zenon DEF Bound
<1>2. CASE g.unit = "HOUR"
  BY <1>2 DEF addGranularity, Bound, Hour
<1>3. CASE g.unit = "DAY"
  BY <1>3 DEF addGranularity, Bound, Day, Hour
<1>4. CASE g.unit = "WEEK"
  BY <1>4 DEF addGranularity, Bound, Week, Day, Hour
<1> QED
  BY <1>1, <1>2, <1>3, <1>4, Zenon DEF Unit

\* IsBoundary holds of the boundaries.
LEMMA Boundaries ==
    ASSUME NEW u \in Unit, NEW t \in Nat
    PROVE  IsBoundary(t, u) <=> \E n \in Nat : t = Bound(u, n)
<1>1. CASE u = "MONTH"
  <2>1. IsBoundary(t, u) <=> \E m \in 1 .. ((t \div (28 * Day)) + 1) : t = MonthStart(m) * Day
    BY <1>1, Zenon DEF IsBoundary
  <2>2. ASSUME NEW m \in 1 .. ((t \div (28 * Day)) + 1), t = MonthStart(m) * Day
        PROVE  \E n \in Nat : t = Bound(u, n)
    <3>1. m - 1 \in Nat /\ (m - 1) + 1 = m
      BY <2>2 DEF Day, Hour
    <3> QED
      BY <1>1, <2>2, <3>1, Zenon DEF Bound
  <2>3. ASSUME NEW n \in Nat, t = Bound(u, n)
        PROVE  \E m \in 1 .. ((t \div (28 * Day)) + 1) : t = MonthStart(m) * Day
    <3>1. 28 * n <= MonthStart(n + 1) /\ MonthStart(n + 1) \in Nat
      BY MonthsApart, Months
    <3>2. t = MonthStart(n + 1) * Day
      BY <1>1, <2>3, Zenon DEF Bound
    <3>3. 1344 * n <= t
      BY <3>1, <3>2 DEF Day, Hour
    <3>4. n <= t \div 1344
      BY <3>3
    <3>5. n + 1 \in 1 .. ((t \div (28 * Day)) + 1)
      BY <3>4 DEF Day, Hour
    <3> QED
      BY <3>2, <3>5, Zenon
  <2> QED
    BY <2>1, <2>2, <2>3, Zenon
<1>2. CASE u = "HOUR"
  <2>1. IsBoundary(t, u) <=> t % 2 = 0
    BY <1>2, Zenon DEF IsBoundary, Hour
  <2>2. t % 2 = 0 => t \div 2 \in Nat /\ t = (t \div 2) * 2
    OBVIOUS
  <2>3. ASSUME NEW n \in Nat, t = n * 2 PROVE t % 2 = 0
    BY <2>3
  <2> QED
    BY <1>2, <2>1, <2>2, <2>3, Zenon DEF Bound, Hour
<1>3. CASE u = "DAY"
  <2>1. IsBoundary(t, u) <=> t % 48 = 0
    BY <1>3 DEF IsBoundary, Day, Hour
  <2>2. t % 48 = 0 => t \div 48 \in Nat /\ t = (t \div 48) * 48
    OBVIOUS
  <2>3. ASSUME NEW n \in Nat, t = n * 48 PROVE t % 48 = 0
    BY <2>3
  <2> QED
    BY <1>3, <2>1, <2>2, <2>3 DEF Bound, Day, Hour
<1>4. CASE u = "WEEK"
  <2>1. IsBoundary(t, u) <=> t % 336 = 0
    BY <1>4 DEF IsBoundary, Week, Day, Hour
  <2>2. t % 336 = 0 => t \div 336 \in Nat /\ t = (t \div 336) * 336
    OBVIOUS
  <2>3. ASSUME NEW n \in Nat, t = n * 336 PROVE t % 336 = 0
    BY <2>3
  <2> QED
    BY <1>4, <2>1, <2>2, <2>3 DEF Bound, Week, Day, Hour
<1> QED
  BY <1>1, <1>2, <1>3, <1>4, Zenon DEF Unit

\* From one boundary to another there are as many as their numbers say.
LEMMA BoundsBetween ==
    ASSUME NEW u \in Unit, NEW n \in Nat, NEW v \in Nat
    PROVE  LET between == {t \in Bound(u, n) .. Bound(u, n + v) : IsBoundary(t, u)}
           IN  {Bound(u, n), Bound(u, n + v)} \subseteq between /\ Cardinality(between) = v + 1
<1> DEFINE between == {t \in Bound(u, n) .. Bound(u, n + v) : IsBoundary(t, u)}
           f == [k \in n .. (n + v) |-> Bound(u, k)]
<1>1. ASSUME NEW k \in n .. (n + v)
      PROVE  k \in Nat /\ Bound(u, k) \in Nat /\ Bound(u, k) \in between
  <2>1. k \in Nat /\ n + v \in Nat /\ n <= k /\ k <= n + v
    OBVIOUS
  <2>2. /\ Bound(u, k) \in Nat /\ Bound(u, n) \in Nat /\ Bound(u, n + v) \in Nat
        /\ Bound(u, n) <= Bound(u, k) /\ Bound(u, k) <= Bound(u, n + v)
    BY <2>1, BoundStep, BoundOrder, Zenon
  <2>3. IsBoundary(Bound(u, k), u)
    BY <2>1, <2>2, Boundaries, Zenon
  <2> QED
    BY <2>1, <2>2, <2>3
<1>2. ASSUME NEW t \in between PROVE \E k \in n .. (n + v) : t = Bound(u, k)
  <2>1. Bound(u, n) \in Nat /\ Bound(u, n + v) \in Nat /\ n + v \in Nat
    BY BoundStep
  <2>2. t \in Nat /\ Bound(u, n) <= t /\ t <= Bound(u, n + v) /\ IsBoundary(t, u)
    BY <2>1
  <2>3. PICK k \in Nat : t = Bound(u, k)
    BY <2>2, Boundaries, Zenon
  <2>4. n <= k /\ k <= n + v
    BY <2>1, <2>2, <2>3, BoundOrder, Zenon
  <2> QED
    BY <2>1, <2>3, <2>4
<1>3. ASSUME NEW k \in n .. (n + v), NEW l \in n .. (n + v), Bound(u, k) = Bound(u, l)
      PROVE  k = l
  BY <1>1, <1>3, BoundOrder, Zenon
<1> HIDE DEF between
<1>4. f \in Bijection(n .. (n + v), between)
  BY <1>1, <1>2, <1>3, Zenon DEF Bijection, Injection, Surjection, IsInjective
<1>5. ExistsBijection(n .. (n + v), between)
  BY <1>4, Zenon DEF ExistsBijection
<1>6. IsFiniteSet(n .. (n + v)) /\ Cardinality(n .. (n + v)) = v + 1
  <2>1. n \in Int /\ n + v \in Int /\ ~(n > n + v) /\ (n + v) - n + 1 = v + 1
    OBVIOUS
  <2> QED
    BY <2>1, FS_Interval, Zenon
<1>7. Cardinality(between) = v + 1
  BY <1>5, <1>6, FS_Bijection, Zenon
<1>8. n \in n .. (n + v) /\ n + v \in n .. (n + v)
  OBVIOUS
<1> QED
  BY <1>1, <1>7, <1>8, Zenon DEF between

-----------------------------------------------------------------------------
(* The sets of dimension values *)

\* What a request is, in the parts the proofs use.
LEMMA RequestTypes ==
    ASSUME NEW r \in Request
    PROVE  /\ r.start \in Nat /\ r.end \in Nat
           /\ Len(r.dims) \in Nat /\ DOMAIN r.dims = 1 .. Len(r.dims)
           /\ \A i \in DOMAIN r.dims :
                /\ r.dims[i].name \in STRING
                /\ Len(r.dims[i].values) \in Nat
                /\ DOMAIN r.dims[i].values = 1 .. Len(r.dims[i].values)
                /\ r.dims[i].values = <<>> <=> Len(r.dims[i].values) = 0
                /\ \A j \in DOMAIN r.dims[i].values : r.dims[i].values[j] \in STRING
<1>1. r.start \in Nat /\ r.end \in Nat /\ r.dims \in Seq([name : STRING, values : Seq(STRING)])
  BY GeneratorAssumption, Zenon
<1>2. Len(r.dims) \in Nat /\ DOMAIN r.dims = 1 .. Len(r.dims)
  BY <1>1
<1>3. ASSUME NEW i \in DOMAIN r.dims
      PROVE  r.dims[i].name \in STRING /\ r.dims[i].values \in Seq(STRING)
  <2>1. \A T : \A s \in Seq(T) : \A k \in DOMAIN s : s[k] \in T
    OBVIOUS
  <2>2. r.dims[i] \in [name : STRING, values : Seq(STRING)]
    BY <1>1, <2>1, Zenon
  <2> QED
    BY <2>2, Zenon
<1>4. ASSUME NEW s \in Seq(STRING)
      PROVE  /\ Len(s) \in Nat /\ DOMAIN s = 1 .. Len(s)
             /\ s = <<>> <=> Len(s) = 0
             /\ \A j \in DOMAIN s : s[j] \in STRING
  OBVIOUS
<1> QED
  BY <1>1, <1>2, <1>3, <1>4, Zenon

\* The partitions among the first n that have values, and the choices of one value
\* of each.
ValuedTo(r, n) == {i \in Valued(r) : i <= n}

NamesTo(r, n) == {r.dims[i].name : i \in ValuedTo(r, n)}

Choices(r, n) ==
    {f \in [NamesTo(r, n) -> STRING] :
        \A i \in ValuedTo(r, n) : f[r.dims[i].name] \in Values(r.dims[i])}

\* Before the first partition there is one choice, of nothing.
LEMMA ChoicesNone ==
    ASSUME NEW r \in Request
    PROVE  \A f : f \in Choices(r, 0) <=> f = [name \in {} |-> ""]
<1>1. ValuedTo(r, 0) = {}
  BY RequestTypes DEF ValuedTo, Valued
<1>2. NamesTo(r, 0) = {}
  BY <1>1, Zenon DEF NamesTo
<1>3. Choices(r, 0) = [{} -> STRING]
  BY <1>1, <1>2, Zenon DEF Choices
<1> QED
  BY <1>3, Zenon

\* After the last they are the combinations.
LEMMA ChoicesAll ==
    ASSUME NEW r \in Request
    PROVE  Choices(r, Len(r.dims)) = Combinations(r)
<1> DEFINE V == UNION {Values(r.dims[i]) : i \in Valued(r)}
           N == {r.dims[i].name : i \in Valued(r)}
<1>1. ValuedTo(r, Len(r.dims)) = Valued(r)
  BY RequestTypes DEF ValuedTo, Valued
<1>2. Choices(r, Len(r.dims)) =
        {f \in [N -> STRING] : \A i \in Valued(r) : f[r.dims[i].name] \in Values(r.dims[i])}
  BY <1>1, Zenon DEF Choices, NamesTo
<1>3. V \subseteq STRING
  BY RequestTypes DEF Values, Valued
<1>4. ASSUME NEW f \in [N -> STRING],
             \A i \in Valued(r) : f[r.dims[i].name] \in Values(r.dims[i])
      PROVE  f \in [N -> V]
  <2>1. ASSUME NEW x \in N PROVE f[x] \in V
    BY <1>4, Zenon
  <2> QED
    BY <2>1, Zenon
<1>5. ASSUME NEW f \in [N -> V] PROVE f \in [N -> STRING]
  BY <1>3, Zenon
<1>6. Combinations(r) =
        {f \in [N -> V] : \A i \in Valued(r) : f[r.dims[i].name] \in Values(r.dims[i])}
  BY Zenon DEF Combinations
<1> HIDE DEF N, V
<1> QED
  BY <1>2, <1>4, <1>5, <1>6, Zenon

\* A partition without values changes nothing.
LEMMA ChoicesSkip ==
    ASSUME NEW r \in Request, NEW n \in DOMAIN r.dims, r.dims[n].values = <<>>
    PROVE  Choices(r, n) = Choices(r, n - 1)
<1>1. n \in Nat /\ DOMAIN r.dims \subseteq Nat
  BY RequestTypes
<1>2. ValuedTo(r, n) = ValuedTo(r, n - 1)
  BY <1>1 DEF ValuedTo, Valued
<1> QED
  BY <1>2, Zenon DEF Choices, NamesTo

\* A partition with values extends every choice by every value, and different
\* choices and values give different results.
LEMMA ChoicesExtend ==
    ASSUME NEW r \in Request, DistinctDimensions(r),
           NEW n \in DOMAIN r.dims, r.dims[n].values # <<>>
    PROVE  LET d == r.dims[n]
           IN  /\ \A g \in Choices(r, n - 1), j \in DOMAIN d.values : Extended(g, d, j) \in Choices(r, n)
               /\ \A f \in Choices(r, n) :
                    \E g \in Choices(r, n - 1), j \in DOMAIN d.values : f = Extended(g, d, j)
               /\ \A g, h \in Choices(r, n - 1), j, k \in DOMAIN d.values :
                    Extended(g, d, j) = Extended(h, d, k) => g = h /\ j = k
<1> DEFINE d == r.dims[n]
           A == ValuedTo(r, n - 1)
           N == NamesTo(r, n - 1)
<1>1. n \in Nat /\ DOMAIN r.dims \subseteq Nat /\ n \in Valued(r)
  BY RequestTypes DEF Valued
<1>2. ValuedTo(r, n) = A \cup {n} /\ n \notin A /\ A \subseteq Valued(r)
  <2>1. \A i \in Valued(r) : i \in Nat /\ (i <= n <=> i <= n - 1 \/ i = n)
    BY <1>1 DEF Valued
  <2>2. ~(n <= n - 1)
    BY <1>1
  <2> QED
    BY <1>1, <2>1, <2>2, Zenon DEF ValuedTo
<1>3. NamesTo(r, n) = N \cup {d.name}
  BY <1>2, Zenon DEF NamesTo
<1>4. d.name \notin N
  BY <1>1, <1>2 DEF NamesTo, DistinctDimensions
<1>5. \A i \in A : r.dims[i].name \in N /\ r.dims[i].name # d.name
  BY <1>4, Zenon DEF NamesTo
<1>6. d.name \in STRING /\ \A j \in DOMAIN d.values : d.values[j] \in STRING /\ d.values[j] \in Values(d)
  BY RequestTypes, Zenon DEF Values
<1>7. \A j, k \in DOMAIN d.values : d.values[j] = d.values[k] => j = k
  BY <1>1, Zenon DEF DistinctDimensions
<1>8. \A g \in Choices(r, n - 1) : /\ g \in [N -> STRING]
                                   /\ \A i \in A : g[r.dims[i].name] \in Values(r.dims[i])
  BY Zenon DEF Choices
<1>9. \A f : f \in Choices(r, n) <=> /\ f \in [N \cup {d.name} -> STRING]
                                     /\ \A i \in A : f[r.dims[i].name] \in Values(r.dims[i])
                                     /\ f[d.name] \in Values(d)
  BY <1>2, <1>3, Zenon DEF Choices
<1>10. \A g : (/\ g \in [N -> STRING] /\ \A i \in A : g[r.dims[i].name] \in Values(r.dims[i]))
              => g \in Choices(r, n - 1)
  BY Zenon DEF Choices
<1> HIDE DEF A, N, d
<1>11. ASSUME NEW g \in Choices(r, n - 1), NEW j \in DOMAIN d.values
       PROVE  /\ Extended(g, d, j) \in [N \cup {d.name} -> STRING]
              /\ Extended(g, d, j)[d.name] = d.values[j]
              /\ \A x \in N : Extended(g, d, j)[x] = g[x]
  <2>1. DOMAIN g = N /\ \A x \in N : g[x] \in STRING
    BY <1>8, Zenon
  <2>2. Extended(g, d, j) = [x \in N \cup {d.name} |-> IF x = d.name THEN d.values[j] ELSE g[x]]
    BY <2>1, Zenon DEF Extended
  <2> QED
    BY <1>4, <1>6, <2>1, <2>2
<1>12. ASSUME NEW g \in Choices(r, n - 1), NEW j \in DOMAIN d.values
       PROVE  Extended(g, d, j) \in Choices(r, n)
  <2> DEFINE f == Extended(g, d, j)
  <2>1. f \in [N \cup {d.name} -> STRING] /\ f[d.name] \in Values(d) /\ \A x \in N : f[x] = g[x]
    BY <1>6, <1>11, ZenonT(30)
  <2>2. ASSUME NEW i \in A PROVE f[r.dims[i].name] \in Values(r.dims[i])
    <3>1. f[r.dims[i].name] = g[r.dims[i].name] /\ g[r.dims[i].name] \in Values(r.dims[i])
      BY <1>5, <1>8, <2>1, Zenon
    <3> QED
      BY <3>1, Zenon
  <2> HIDE DEF f
  <2>3. f \in Choices(r, n)
    BY <1>9, <2>1, <2>2, Zenon
  <2> QED
    BY <2>3, Zenon DEF f
<1>13. ASSUME NEW f \in Choices(r, n)
       PROVE  \E g \in Choices(r, n - 1), j \in DOMAIN d.values : f = Extended(g, d, j)
  <2> DEFINE g == [x \in N |-> f[x]]
  <2>1. f \in [N \cup {d.name} -> STRING] /\ f[d.name] \in Values(d)
    BY <1>9, Zenon
  <2>2. g \in Choices(r, n - 1)
    BY <1>5, <1>9, <1>10, Zenon
  <2>3. PICK j \in DOMAIN d.values : f[d.name] = d.values[j]
    BY <2>1, Zenon DEF Values
  <2>4. f = Extended(g, d, j)
    BY <1>4, <2>1, <2>3, Zenon DEF Extended
  <2> QED
    BY <2>2, <2>4, Zenon
<1>14. ASSUME NEW g \in Choices(r, n - 1), NEW h \in Choices(r, n - 1),
              NEW j \in DOMAIN d.values, NEW k \in DOMAIN d.values,
              Extended(g, d, j) = Extended(h, d, k)
       PROVE  g = h /\ j = k
  <2>1. d.values[j] = d.values[k] /\ \A x \in N : g[x] = h[x]
    BY <1>11, <1>14
  <2>2. g \in [N -> STRING] /\ h \in [N -> STRING]
    BY <1>8, Zenon
  <2> QED
    BY <1>7, <2>1, <2>2
<1> QED
  BY <1>12, <1>13, <1>14, Zenon DEF d

-----------------------------------------------------------------------------
(* The inductive invariant *)

Phase == {"start", "extract", "next", "slice", "done", "error", "panic"}

DimensionValues == UNION {[D -> STRING] : D \in SUBSET STRING}

EpochID == UNION {{generateEpochID(t, d) : d \in DimensionValues} : t \in Nat}

Epoch == [id : EpochID, start : Nat, end : Nat, dims : DimensionValues]

\* The loops over the dimensions are at one that has values.
AtValued == dim <= Len(req.dims) /\ req.dims[dim].values # <<>>

\* Types, and what the phases say of the loop variables.
GeneratorTypeOK ==
    /\ req \in Request
    /\ phase \in Phase
    /\ dim \in 1 .. (Len(req.dims) + 1)
    /\ sets \in Seq(DimensionValues)
    /\ nextSets \in Seq(DimensionValues)
    /\ at \in Nat \ {0}
    /\ value \in Nat \ {0}
    /\ current \in Nat
    /\ epochs \in Seq(Epoch)

LoopInv ==
    /\ phase \notin {"start", "error", "panic"} => granularity # NoGranularity
    /\ phase \in {"start", "extract"} => epochs = <<>> /\ (at = 1 \/ AtValued)
    /\ phase \in {"next", "slice", "done"} => dim = Len(req.dims) + 1
    /\ phase = "slice" => at <= Len(sets) /\ req.start < req.end
    /\ phase = "done" => at > Len(sets)
    /\ value = 1 \/ (/\ phase = "extract" /\ AtValued
                     /\ at <= Len(sets) /\ value <= Len(req.dims[dim].values))

\* The loop variable of sliceTimeRange is at a boundary, and the range begins
\* before the next one.
CurrentInv ==
    phase = "slice" =>
      IF granularity.unit \in Unit
      THEN \E n \in Nat : /\ current = Bound(granularity.unit, n)
                          /\ req.start < Bound(granularity.unit, n + 1)
      ELSE current <= req.start

\* Every epoch lies between two boundaries and meets the range.
EpochsInv ==
    \A i \in DOMAIN epochs :
        /\ granularity.unit \in Unit /\ granularity.value \in Nat
        /\ \E n \in Nat : /\ epochs[i].start = Bound(granularity.unit, n)
                          /\ epochs[i].end = Bound(granularity.unit, n + granularity.value)
        /\ epochs[i].start < epochs[i].end
        /\ req.start < req.end /\ epochs[i].start < req.end /\ req.start < epochs[i].end

\* The instants that are sliced already, for each set, are in an epoch.
CoverInv ==
    phase \in {"next", "slice", "done"} =>
      \A k \in DOMAIN sets, t \in req.start .. (req.end - 1) :
        (k < at \/ (k = at /\ phase = "slice" /\ t < current)) =>
          \E i \in DOMAIN epochs : Holds(epochs[i], sets[k], t)

\* Every epoch is of a set that is sliced, or of the part of one that is.
OwnerInv ==
    \A i \in DOMAIN epochs : \E k \in DOMAIN sets :
        /\ epochs[i].dims = sets[k]
        /\ k < at \/ (k = at /\ phase \in {"slice", "panic"} /\ epochs[i].end <= current)

\* The sets are the choices from the dimensions that are done, each one once.
SetsInv ==
    /\ \A k \in DOMAIN sets : sets[k] \in Choices(req, dim - 1)
    /\ \A f \in Choices(req, dim - 1) : \E k \in DOMAIN sets : sets[k] = f
    /\ \A k, l \in DOMAIN sets : sets[k] = sets[l] => k = l

\* The inner loops have been at the j-th value for the k-th set.
Visited(k, j) == k < at \/ (k = at /\ j < value)

\* nextSets holds what the inner loops have visited, each one once.
Extensions ==
    LET d == req.dims[dim] IN
    /\ \A p \in DOMAIN nextSets : \E k \in DOMAIN sets, j \in DOMAIN d.values :
         Visited(k, j) /\ nextSets[p] = Extended(sets[k], d, j)
    /\ \A k \in DOMAIN sets, j \in DOMAIN d.values :
         Visited(k, j) => \E p \in DOMAIN nextSets : nextSets[p] = Extended(sets[k], d, j)
    /\ \A p, q \in DOMAIN nextSets : nextSets[p] = nextSets[q] => p = q

NextSetsInv ==
    phase \in {"start", "extract"} =>
      IF AtValued THEN Extensions ELSE nextSets = <<>>

\* Of two epochs of the same dimension values, the earlier ends first.
DisjointInv ==
    \A i, j \in DOMAIN epochs :
        i < j /\ epochs[i].dims = epochs[j].dims => epochs[i].end <= epochs[j].start

\* All of this is about the granularities that the API asks for.
SliceInv ==
    /\ PositiveGranularity
    /\ GeneratorTypeOK /\ LoopInv /\ CurrentInv /\ EpochsInv /\ CoverInv /\ OwnerInv

DistinctInv == DistinctDimensions(req) => SetsInv /\ NextSetsInv /\ DisjointInv

GeneratorInv == PositiveGranularity => SliceInv /\ DistinctInv

-----------------------------------------------------------------------------
(* Steps *)

\* What Append does, position by position.
LEMMA Appended ==
    ASSUME NEW T, NEW s \in Seq(T), NEW x \in T
    PROVE  /\ Append(s, x) \in Seq(T)
           /\ Len(s) + 1 \in DOMAIN Append(s, x) /\ Append(s, x)[Len(s) + 1] = x
           /\ \A i \in DOMAIN s : /\ i \in DOMAIN Append(s, x) /\ Append(s, x)[i] = s[i]
                                  /\ i \in Nat /\ i < Len(s) + 1
           /\ \A i \in DOMAIN Append(s, x) : i \in DOMAIN s \/ i = Len(s) + 1
<1>1. Len(s) \in Nat /\ DOMAIN s = 1 .. Len(s)
  OBVIOUS
<1>2. /\ Append(s, x) \in Seq(T) /\ Len(Append(s, x)) = Len(s) + 1
      /\ Append(s, x)[Len(s) + 1] = x
      /\ \A i \in 1 .. Len(s) : Append(s, x)[i] = s[i]
  OBVIOUS
<1>3. DOMAIN Append(s, x) = 1 .. (Len(s) + 1)
  BY <1>2
<1> HIDE <1>2
<1>4. /\ Len(s) + 1 \in 1 .. (Len(s) + 1)
      /\ \A i \in 1 .. Len(s) : i \in 1 .. (Len(s) + 1) /\ i \in Nat /\ i < Len(s) + 1
      /\ \A i \in 1 .. (Len(s) + 1) : i \in 1 .. Len(s) \/ i = Len(s) + 1
  BY <1>1
<1> QED
  BY <1>1, <1>2, <1>3, <1>4, Zenon

\* What a sequence is, for the steps that leave Append out.
LEMMA Positions ==
    ASSUME NEW T, NEW s \in Seq(T)
    PROVE  /\ Len(s) \in Nat /\ DOMAIN s = 1 .. Len(s)
           /\ \A i \in DOMAIN s : s[i] \in T /\ i \in Nat \ {0} /\ i <= Len(s)
           /\ \A i \in Nat \ {0} : i <= Len(s) => i \in DOMAIN s
<1>1. Len(s) \in Nat /\ DOMAIN s = 1 .. Len(s) /\ \A i \in 1 .. Len(s) : s[i] \in T
  OBVIOUS
<1>2. \A i \in 1 .. Len(s) : i \in Nat \ {0} /\ i <= Len(s)
  BY <1>1
<1>3. \A i \in Nat \ {0} : i <= Len(s) => i \in 1 .. Len(s)
  BY <1>1
<1> QED
  BY <1>1, <1>2, <1>3, Zenon

\* A granularity that the API asks for is a positive number.
LEMMA GranularityPositive ==
    ASSUME req \in Request, granularity # NoGranularity, PositiveGranularity
    PROVE  granularity.value \in Nat \ {0}
<1>1. CASE req.granularity # NoGranularity
  <2>1. granularity = req.granularity /\ granularity.value \in Int
    BY <1>1, GeneratorAssumption, Zenon DEF granularity, determineGranularity
  <2>2. granularity.value > 0
    BY Zenon DEF PositiveGranularity
  <2> QED
    BY <2>1, <2>2
<1>2. CASE req.granularity = NoGranularity
  <2>1. \/ granularity = convertSourceGranularity(req.source)
        \/ granularity = [value |-> 1, unit |-> "DAY"]
    BY <1>2, Zenon DEF granularity, determineGranularity
  <2>2. convertSourceGranularity(req.source) \in {[value |-> 1, unit |-> req.source], NoGranularity}
    BY Zenon DEF convertSourceGranularity
  <2>3. \E u : granularity = [value |-> 1, unit |-> u]
    BY <2>1, <2>2, Zenon
  <2> QED
    BY <2>3
<1> QED
  BY <1>1, <1>2, Zenon

\* No step changes the request.
LEMMA SameRequest ==
    ASSUME [GeneratorNext]_generatorVars
    PROVE  /\ req' = req /\ granularity' = granularity
           /\ PositiveGranularity' => PositiveGranularity
           /\ PositiveGranularity => PositiveGranularity'
<1>1. req' = req
  BY Zenon DEF GeneratorNext, generatorVars, GenerateEpochs, SkipDimension, ExtendSet, DimensionEnds,
         ExtractReturns, sliceTimeRange, SliceStep, SliceEnds, GenerateReturns
<1>2. granularity' = granularity
  BY <1>1, Zenon DEF granularity
<1> QED
  BY <1>1, <1>2, Zenon DEF PositiveGranularity

\* sliceTimeRange begins on the last boundary before the range.
LEMMA SliceBegins ==
    ASSUME SliceInv, sliceTimeRange, phase' = "slice"
    PROVE  /\ current' \in Nat /\ current' <= req.start
           /\ granularity.unit \in Unit =>
                \E n \in Nat : /\ current' = Bound(granularity.unit, n)
                               /\ req.start < Bound(granularity.unit, n + 1)
<1>1. current' = truncateToGranularity(req.start, granularity) /\ req.start \in Nat
  BY RequestTypes, Zenon DEF sliceTimeRange, SliceInv, GeneratorTypeOK
<1>2. CASE granularity.unit \in Unit
  <2>1. PICK n \in Nat : /\ current' = Bound(granularity.unit, n)
                         /\ Bound(granularity.unit, n) <= req.start
                         /\ req.start < Bound(granularity.unit, n + 1)
    BY <1>1, <1>2, Truncates, Zenon
  <2>2. Bound(granularity.unit, n) \in Nat
    BY <1>2, BoundStep, Zenon
  <2> QED
    BY <2>1, <2>2, Zenon
<1>3. CASE granularity.unit \notin Unit
  <2>1. truncateToGranularity(req.start, granularity) = (req.start \div Day) * Day
    BY <1>3, Zenon DEF truncateToGranularity, truncateToDay, Unit
  <2>2. (req.start \div 48) * 48 \in Nat /\ (req.start \div 48) * 48 <= req.start
    BY <1>1
  <2> QED
    BY <1>1, <1>3, <2>1, <2>2 DEF Day, Hour
<1> QED
  BY <1>2, <1>3, Zenon

\* The epoch that an iteration adds.
NewEpoch == [id |-> generateEpochID(current, sets[at]), start |-> current,
             end |-> addGranularity(current, granularity), dims |-> sets[at]]

\* An iteration adds an epoch between two boundaries, which meets the range.
LEMMA SliceGoes ==
    ASSUME SliceInv, SliceStep, granularity.unit \in Unit
    PROVE  /\ at \in DOMAIN sets /\ NewEpoch \in Epoch
           /\ epochs' = Append(epochs, NewEpoch) /\ phase' = "slice"
           /\ NewEpoch.dims = sets[at]
           /\ NewEpoch.start = current /\ NewEpoch.end = current' /\ current' \in Nat
           /\ req.start < req.end /\ current < req.end /\ req.start < current' /\ current < current'
           /\ granularity.value \in Nat
           /\ \E n \in Nat : /\ current = Bound(granularity.unit, n)
                             /\ current' = Bound(granularity.unit, n + granularity.value)
                             /\ req.start < Bound(granularity.unit, (n + granularity.value) + 1)
<1> DEFINE u == granularity.unit
           v == granularity.value
<1>1. /\ phase = "slice" /\ current < req.end /\ phase' = "slice"
      /\ current' = addGranularity(current, granularity)
      /\ epochs' = Append(epochs, NewEpoch)
  BY Zenon DEF SliceStep, NewEpoch
<1>2. v \in Nat \ {0}
  BY <1>1, GranularityPositive, Zenon DEF SliceInv, GeneratorTypeOK, LoopInv
<1>3. PICK n \in Nat : current = Bound(u, n) /\ req.start < Bound(u, n + 1)
  BY <1>1, Zenon DEF SliceInv, CurrentInv
<1>4. current' = Bound(u, n + v)
  BY <1>1, <1>2, <1>3, Adds
<1>5. req.start \in Nat /\ req.start < req.end
  BY <1>1, RequestTypes, Zenon DEF SliceInv, GeneratorTypeOK, LoopInv
<1>6. n + v \in Nat /\ (n + v) + 1 \in Nat /\ n + 1 \in Nat /\ n + 1 <= n + v /\ n < n + v /\ n + 1 <= (n + v) + 1
  BY <1>2
<1>7. /\ Bound(u, n) \in Nat /\ Bound(u, n + 1) \in Nat /\ Bound(u, n + v) \in Nat
      /\ Bound(u, (n + v) + 1) \in Nat
  BY <1>6, BoundStep, Zenon
<1>8. Bound(u, n + 1) <= Bound(u, n + v) /\ Bound(u, n) < Bound(u, n + v)
      /\ Bound(u, n + 1) <= Bound(u, (n + v) + 1)
  BY <1>6, BoundOrder, Zenon
<1>9. req.start < current' /\ current < current' /\ req.start < Bound(u, (n + v) + 1)
  <2> HIDE DEF u, v
  <2> QED
    BY <1>3, <1>4, <1>5, <1>7, <1>8
<1>10. at \in DOMAIN sets /\ sets[at] \in DimensionValues
  BY <1>1, Positions, Zenon DEF SliceInv, GeneratorTypeOK, LoopInv
<1>11. NewEpoch \in Epoch /\ NewEpoch.dims = sets[at] /\ NewEpoch.start = current
       /\ NewEpoch.end = current'
  <2>1. current \in Nat /\ addGranularity(current, granularity) \in Nat
    BY <1>1, <1>3, <1>4, <1>7
  <2>2. generateEpochID(current, sets[at]) \in EpochID
    <3>1. ASSUME NEW t \in Nat, NEW d \in DimensionValues PROVE generateEpochID(t, d) \in EpochID
      <4> DEFINE I == {generateEpochID(t, e) : e \in DimensionValues}
      <4>1. generateEpochID(t, d) \in I
        BY Zenon
      <4>2. I \in {{generateEpochID(x, e) : e \in DimensionValues} : x \in Nat}
        BY Zenon
      <4> QED
        BY <4>1, <4>2, Zenon DEF EpochID
    <3> QED
      BY <1>10, <2>1, <3>1, Zenon
  <2> QED
    BY <1>1, <1>10, <2>1, <2>2, Zenon DEF NewEpoch, Epoch
<1> QED
  BY <1>1, <1>2, <1>3, <1>4, <1>5, <1>7, <1>9, <1>10, <1>11, ZenonT(30)

\* The value that an iteration of the inner loop takes is one of the dimension's,
\* and the set that it extends stays a set of dimension values.
LEMMA ExtensionTypes ==
    ASSUME SliceInv, ExtendSet
    PROVE  /\ phase = "extract" /\ AtValued /\ at \in DOMAIN sets
           /\ dim \in DOMAIN req.dims /\ value \in DOMAIN req.dims[dim].values
           /\ Extended(sets[at], req.dims[dim], value) \in DimensionValues
<1> DEFINE d == req.dims[dim]
<1>1. phase = "extract" /\ AtValued /\ at <= Len(sets)
  BY Zenon DEF ExtendSet, AtDimension, AtValued
<1>2. at \in DOMAIN sets /\ sets[at] \in DimensionValues
  BY <1>1, Positions, Zenon DEF SliceInv, GeneratorTypeOK
<1>3. dim \in DOMAIN req.dims
  BY <1>1, RequestTypes DEF SliceInv, GeneratorTypeOK, AtValued
<1>4. /\ d.name \in STRING /\ Len(d.values) \in Nat /\ DOMAIN d.values = 1 .. Len(d.values)
      /\ d.values = <<>> <=> Len(d.values) = 0
      /\ \A j \in DOMAIN d.values : d.values[j] \in STRING
  BY <1>3, RequestTypes, Zenon DEF SliceInv, GeneratorTypeOK
<1>5. value \in Nat \ {0} /\ (value = 1 \/ value <= Len(d.values)) /\ d.values # <<>>
  BY <1>1, Zenon DEF SliceInv, GeneratorTypeOK, LoopInv, AtValued
<1> HIDE DEF d
<1>6. value \in DOMAIN d.values
  BY <1>4, <1>5
<1>7. PICK D \in SUBSET STRING : sets[at] \in [D -> STRING]
  BY <1>2, Zenon DEF DimensionValues
<1>8. Extended(sets[at], d, value) \in [D \cup {d.name} -> STRING]
  BY <1>4, <1>6, <1>7, Zenon DEF Extended
<1>9. D \cup {d.name} \in SUBSET STRING
  BY <1>4, Zenon
<1>10. Extended(sets[at], d, value) \in DimensionValues
  BY <1>8, <1>9, Zenon DEF DimensionValues
<1> QED
  BY <1>1, <1>2, <1>3, <1>6, <1>10, Zenon DEF d

\* Types are kept.
LEMMA TypesStep ==
    ASSUME SliceInv, [GeneratorNext]_generatorVars
    PROVE  GeneratorTypeOK'
<1> USE DEF SliceInv
<1>1. req' = req /\ Len(req.dims) \in Nat
  BY SameRequest, RequestTypes, Zenon DEF GeneratorTypeOK
<1>2. CASE GenerateEpochs
  BY <1>2, Zenon DEF GenerateEpochs, loopVars, GeneratorTypeOK, Phase
<1>3. CASE SkipDimension
  BY <1>1, <1>3 DEF SkipDimension, AtDimension, GeneratorTypeOK
<1>4. CASE ExtendSet
  <2>1. Extended(sets[at], req.dims[dim], value) \in DimensionValues
    BY <1>4, ExtensionTypes, Zenon
  <2>2. nextSets' \in Seq(DimensionValues)
    BY <1>4, <2>1, Appended DEF ExtendSet, GeneratorTypeOK
  <2>3. at' \in Nat \ {0} /\ value' \in Nat \ {0}
    BY <1>4 DEF ExtendSet, GeneratorTypeOK
  <2> QED
    BY <1>1, <1>4, <2>2, <2>3 DEF ExtendSet, GeneratorTypeOK
<1>5. CASE DimensionEnds
  <2>1. dim' \in 1 .. (Len(req.dims) + 1)
    BY <1>1, <1>5 DEF DimensionEnds, AtDimension, GeneratorTypeOK
  <2>2. nextSets' \in Seq(DimensionValues)
    BY <1>5 DEF DimensionEnds
  <2> QED
    BY <1>1, <1>5, <2>1, <2>2 DEF DimensionEnds, GeneratorTypeOK
<1>6. CASE ExtractReturns
  BY <1>6, Zenon DEF ExtractReturns, loopVars, GeneratorTypeOK, Phase
<1>7. CASE sliceTimeRange
  <2>1. current' \in Nat /\ phase' \in Phase
    BY <1>7, SliceBegins, Zenon DEF sliceTimeRange, GeneratorTypeOK, Phase
  <2> QED
    BY <1>1, <1>7, <2>1, Zenon DEF sliceTimeRange, loopVars, GeneratorTypeOK
<1>8. CASE SliceStep
  <2>1. CASE granularity.unit \in Unit
    <3>1. /\ NewEpoch \in Epoch /\ epochs' = Append(epochs, NewEpoch)
          /\ current' \in Nat /\ phase' = phase
      BY <1>8, <2>1, SliceGoes, Zenon DEF SliceStep
    <3>2. epochs' \in Seq(Epoch)
      BY <3>1, Appended, Zenon DEF GeneratorTypeOK
    <3> QED
      BY <1>1, <1>8, <3>1, <3>2, Zenon DEF SliceStep, loopVars, GeneratorTypeOK
  <2>2. CASE granularity.unit \notin Unit
    BY <1>1, <1>8, <2>2, Zenon DEF SliceStep, loopVars, GeneratorTypeOK, Phase
  <2> QED
    BY <2>1, <2>2, Zenon
<1>9. CASE SliceEnds
  BY <1>9 DEF SliceEnds, GeneratorTypeOK, Phase
<1>10. CASE GenerateReturns
  BY <1>10, Zenon DEF GenerateReturns, loopVars, GeneratorTypeOK, Phase
<1>11. CASE UNCHANGED generatorVars
  BY <1>11, Zenon DEF generatorVars, loopVars, GeneratorTypeOK
<1> QED
  BY <1>2, <1>3, <1>4, <1>5, <1>6, <1>7, <1>8, <1>9, <1>10, <1>11, Zenon DEF GeneratorNext

\* The phases and the loop variables agree.
LEMMA LoopStep ==
    ASSUME SliceInv, [GeneratorNext]_generatorVars
    PROVE  LoopInv'
<1> USE DEF SliceInv
<1>1. req' = req /\ granularity' = granularity /\ Len(req.dims) \in Nat /\ dim \in Nat /\ at \in Nat
      /\ Len(sets) \in Nat
  BY SameRequest, RequestTypes, Positions DEF GeneratorTypeOK
<1>2. CASE GenerateEpochs
  BY <1>1, <1>2, Zenon DEF GenerateEpochs, loopVars, LoopInv, AtValued
<1>3. CASE SkipDimension
  <2>1. ~AtValued /\ phase = "extract" /\ phase' = "extract"
    BY <1>3, Zenon DEF SkipDimension, AtDimension, AtValued
  <2>2. at' = 1 /\ value' = 1 /\ epochs' = <<>>
    BY <1>3, <2>1, Zenon DEF SkipDimension, LoopInv
  <2> QED
    BY <1>1, <2>1, <2>2, Zenon DEF LoopInv
<1>4. CASE ExtendSet
  <2>1. /\ phase = "extract" /\ phase' = "extract" /\ AtValued
        /\ value \in DOMAIN req.dims[dim].values /\ dim \in DOMAIN req.dims
    BY <1>4, ExtensionTypes, Zenon DEF ExtendSet
  <2>2. AtValued'
    BY <1>1, <1>4, <2>1, Zenon DEF ExtendSet, AtValued
  <2>3. DOMAIN req.dims[dim].values = 1 .. Len(req.dims[dim].values) /\ Len(req.dims[dim].values) \in Nat
    BY <2>1, RequestTypes, Zenon DEF GeneratorTypeOK
  <2>4. value' = 1 \/ (at' <= Len(sets') /\ value' <= Len(req'.dims[dim'].values))
    <3>1. value' = 1 \/ (value' = value + 1 /\ at' = at /\ value # Len(req.dims[dim].values)
                         /\ at <= Len(sets) /\ sets' = sets /\ dim' = dim)
      BY <1>4, Zenon DEF ExtendSet
    <3>2. value # Len(req.dims[dim].values) => value + 1 <= Len(req.dims[dim].values)
      BY <2>1, <2>3
    <3> QED
      BY <1>1, <3>1, <3>2, Zenon
  <2>5. epochs' = epochs /\ epochs = <<>> /\ granularity # NoGranularity
    BY <1>4, <2>1, Zenon DEF ExtendSet, LoopInv
  <2> QED
    BY <1>1, <2>1, <2>2, <2>4, <2>5, Zenon DEF LoopInv
<1>5. CASE DimensionEnds
  <2>1. phase = "extract" /\ phase' = "extract" /\ at' = 1 /\ epochs' = epochs /\ at > Len(sets) /\ value' = value
    BY <1>5, Zenon DEF DimensionEnds, AtDimension
  <2>2. value = 1
    BY <1>1, <2>1 DEF LoopInv
  <2> QED
    BY <1>1, <2>1, <2>2, Zenon DEF LoopInv
<1>6. CASE ExtractReturns
  <2>1. dim = Len(req.dims) + 1
    BY <1>1, <1>6 DEF ExtractReturns, GeneratorTypeOK
  <2>2. ~AtValued
    BY <1>1, <1>6 DEF ExtractReturns, AtValued
  <2> QED
    BY <1>1, <1>6, <2>1, <2>2, Zenon DEF ExtractReturns, loopVars, LoopInv
<1>7. CASE sliceTimeRange
  <2>1. req.start \in Nat /\ req.end \in Nat
    BY RequestTypes, Zenon DEF GeneratorTypeOK
  <2> QED
    BY <1>1, <1>7, <2>1 DEF sliceTimeRange, loopVars, LoopInv
<1>8. CASE SliceStep
  BY <1>1, <1>8 DEF SliceStep, loopVars, LoopInv
<1>9. CASE SliceEnds
  BY <1>1, <1>9 DEF SliceEnds, LoopInv
<1>10. CASE GenerateReturns
  BY <1>1, <1>10, Zenon DEF GenerateReturns, loopVars, LoopInv
<1>11. CASE UNCHANGED generatorVars
  BY <1>1, <1>11, Zenon DEF generatorVars, loopVars, LoopInv, AtValued
<1> QED
  BY <1>2, <1>3, <1>4, <1>5, <1>6, <1>7, <1>8, <1>9, <1>10, <1>11, ZenonT(30) DEF GeneratorNext

\* The loop variable of sliceTimeRange stays on boundaries.
LEMMA CurrentStep ==
    ASSUME SliceInv, [GeneratorNext]_generatorVars
    PROVE  CurrentInv'
<1> SUFFICES ASSUME phase' = "slice"
             PROVE  IF granularity.unit \in Unit
                    THEN \E n \in Nat : /\ current' = Bound(granularity.unit, n)
                                        /\ req.start < Bound(granularity.unit, n + 1)
                    ELSE current' <= req.start
  BY SameRequest, Zenon DEF CurrentInv
<1>1. CASE sliceTimeRange
  BY <1>1, SliceBegins, Zenon
<1>2. CASE SliceStep
  <2>1. granularity.unit \in Unit
    BY <1>2, Zenon DEF SliceStep
  <2>2. PICK n \in Nat : /\ current' = Bound(granularity.unit, n + granularity.value)
                         /\ req.start < Bound(granularity.unit, (n + granularity.value) + 1)
    BY <1>2, <2>1, SliceGoes, Zenon
  <2>3. n + granularity.value \in Nat
    BY <1>2, <2>1, SliceGoes
  <2> QED
    BY <2>1, <2>2, <2>3, Zenon
<1>3. CASE UNCHANGED generatorVars
  BY <1>3, Zenon DEF generatorVars, SliceInv, CurrentInv
<1>4. ~GenerateEpochs /\ ~ExtractReturns /\ ~SliceEnds /\ ~GenerateReturns
  BY Zenon DEF GenerateEpochs, ExtractReturns, SliceEnds, GenerateReturns
<1>5. ~SkipDimension /\ ~ExtendSet /\ ~DimensionEnds
  BY Zenon DEF SkipDimension, ExtendSet, DimensionEnds, AtDimension
<1> QED
  BY <1>1, <1>2, <1>3, <1>4, <1>5, Zenon DEF GeneratorNext

\* Only the loop of sliceTimeRange adds epochs.
LEMMA EpochKinds ==
    ASSUME [GeneratorNext]_generatorVars
    PROVE  epochs' = epochs \/ (SliceStep /\ granularity.unit \in Unit)
BY Zenon DEF GeneratorNext, generatorVars, GenerateEpochs, SkipDimension, ExtendSet, DimensionEnds,
       ExtractReturns, sliceTimeRange, SliceStep, SliceEnds, GenerateReturns

\* The positions of the epochs after an iteration.
LEMMA EpochAdded ==
    ASSUME SliceInv, SliceStep, granularity.unit \in Unit
    PROVE  /\ Len(epochs) + 1 \in DOMAIN epochs' /\ epochs'[Len(epochs) + 1] = NewEpoch
           /\ \A i \in DOMAIN epochs : /\ i \in DOMAIN epochs' /\ epochs'[i] = epochs[i]
                                       /\ i \in Nat /\ i < Len(epochs) + 1
                                       /\ epochs[i] \in Epoch
           /\ \A i \in DOMAIN epochs' : i \in DOMAIN epochs \/ i = Len(epochs) + 1
<1>1. epochs \in Seq(Epoch)
  BY Zenon DEF SliceInv, GeneratorTypeOK
<1>2. NewEpoch \in Epoch /\ epochs' = Append(epochs, NewEpoch)
  BY SliceGoes, Zenon
<1>3. \A i \in DOMAIN epochs : epochs[i] \in Epoch
  BY <1>1, Positions, Zenon
<1> QED
  BY <1>1, <1>2, <1>3, Appended

\* What EpochsInv says of one epoch.
Aligned(e) ==
    /\ granularity.unit \in Unit /\ granularity.value \in Nat
    /\ \E n \in Nat : /\ e.start = Bound(granularity.unit, n)
                      /\ e.end = Bound(granularity.unit, n + granularity.value)
    /\ e.start < e.end
    /\ req.start < req.end /\ e.start < req.end /\ req.start < e.end

\* Epochs stay on boundaries.
LEMMA EpochsStep ==
    ASSUME SliceInv, [GeneratorNext]_generatorVars
    PROVE  EpochsInv'
<1>1. EpochsInv <=> \A i \in DOMAIN epochs : Aligned(epochs[i])
  BY Zenon DEF EpochsInv, Aligned
<1>2. EpochsInv' <=> \A i \in DOMAIN epochs' : Aligned(epochs'[i])
  BY SameRequest DEF EpochsInv, Aligned
<1>3. CASE epochs' = epochs
  BY <1>1, <1>2, <1>3, Zenon DEF SliceInv
<1>4. CASE SliceStep /\ granularity.unit \in Unit
  <2>1. Aligned(NewEpoch)
    BY <1>4, SliceGoes, Zenon DEF Aligned
  <2> QED
    BY <1>1, <1>2, <1>4, <2>1, EpochAdded, Zenon DEF SliceInv
<1> QED
  BY <1>3, <1>4, EpochKinds, Zenon

\* What is sliced stays covered.
LEMMA CoverStep ==
    ASSUME SliceInv, [GeneratorNext]_generatorVars
    PROVE  CoverInv'
<1> DEFINE requested == req.start .. (req.end - 1)
<1>1. req' = req /\ req.start \in Nat /\ req.end \in Nat /\ at \in Nat \ {0} /\ current \in Nat
  BY SameRequest, RequestTypes, Zenon DEF SliceInv, GeneratorTypeOK
<1>2. \A k \in DOMAIN sets : k \in Nat \ {0}
  BY Positions, Zenon DEF SliceInv, GeneratorTypeOK
<1>3. SUFFICES ASSUME phase' \in {"next", "slice", "done"},
                      NEW k \in DOMAIN sets', NEW t \in requested,
                      k < at' \/ (k = at' /\ phase' = "slice" /\ t < current')
               PROVE  \E i \in DOMAIN epochs' : Holds(epochs'[i], sets'[k], t)
  BY <1>1, Zenon DEF CoverInv
<1>4. ASSUME phase \in {"next", "slice", "done"}, k \in DOMAIN sets,
             k < at \/ (k = at /\ phase = "slice" /\ t < current)
      PROVE  \E i \in DOMAIN epochs : Holds(epochs[i], sets[k], t)
  BY <1>4, Zenon DEF SliceInv, CoverInv
<1>5. t \in Nat /\ req.start <= t /\ t < req.end
  BY <1>1
<1> HIDE DEF requested
<1>6. CASE ExtractReturns
  <2>1. at = 1
    BY <1>6 DEF ExtractReturns, SliceInv, LoopInv, AtValued, GeneratorTypeOK
  <2> QED
    BY <1>2, <1>3, <1>6, <2>1 DEF ExtractReturns, loopVars
<1>7. CASE sliceTimeRange
  <2>2. phase = "next" /\ sets' = sets /\ at' = at /\ epochs' = epochs /\ phase' = "slice"
    BY <1>3, <1>7, Zenon DEF sliceTimeRange, loopVars
  <2>3. current' \in Nat /\ current' <= req.start
    BY <1>7, <2>2, SliceBegins, Zenon
  <2>4. k < at
    BY <1>1, <1>3, <1>5, <2>2, <2>3
  <2> QED
    BY <1>4, <2>2, <2>4, Zenon
<1>8. CASE SliceStep
  <2>1. /\ phase = "slice" /\ phase' = "slice" /\ granularity.unit \in Unit
        /\ sets' = sets /\ at' = at
    BY <1>3, <1>8, Zenon DEF SliceStep, loopVars
  <2>2. CASE k < at \/ (k = at /\ t < current)
    <3>1. PICK i \in DOMAIN epochs : Holds(epochs[i], sets[k], t)
      BY <1>4, <2>1, <2>2, Zenon
    <3> QED
      BY <1>8, <2>1, <3>1, EpochAdded, Zenon
  <2>3. CASE k = at /\ ~(t < current)
    <3>1. t < current'
      BY <1>2, <1>3, <2>1, <2>3
    <3>2. Holds(NewEpoch, sets[k], t)
      <4>1. NewEpoch.dims = sets[k] /\ NewEpoch.start = current /\ NewEpoch.end = current'
        BY <1>8, <2>1, <2>3, SliceGoes
      <4>2. current <= t
        BY <1>1, <1>5, <2>3
      <4> QED
        BY <3>1, <4>1, <4>2, Zenon DEF Holds
    <3> QED
      BY <1>8, <2>1, <3>2, EpochAdded, Zenon
  <2> QED
    BY <1>1, <1>2, <1>3, <2>1, <2>2, <2>3, Zenon
<1>9. CASE SliceEnds
  <2>1. /\ phase = "slice" /\ phase' = "next" /\ current >= req.end
        /\ at' = at + 1 /\ sets' = sets /\ epochs' = epochs
    BY <1>9, Zenon DEF SliceEnds
  <2>2. k < at \/ (k = at /\ t < current)
    BY <1>1, <1>2, <1>3, <1>5, <2>1, SMTT(20)
  <2> QED
    BY <1>3, <1>4, <2>1, <2>2
<1>10. CASE GenerateReturns
  <2>1. phase = "next" /\ phase' = "done" /\ at' = at /\ sets' = sets /\ epochs' = epochs
    BY <1>10, Zenon DEF GenerateReturns, loopVars
  <2> QED
    BY <1>3, <1>4, <2>1
<1>11. CASE UNCHANGED generatorVars
  <2>1. phase' = phase /\ at' = at /\ sets' = sets /\ epochs' = epochs /\ current' = current
    BY <1>11, Zenon DEF generatorVars, loopVars
  <2> QED
    BY <1>3, <1>4, <2>1, SMTT(20)
<1>12. ~GenerateEpochs
  BY <1>3, Zenon DEF GenerateEpochs
<1>13. ~SkipDimension /\ ~ExtendSet /\ ~DimensionEnds
  BY <1>3, Zenon DEF SkipDimension, ExtendSet, DimensionEnds, AtDimension
<1> QED
  BY <1>6, <1>7, <1>8, <1>9, <1>10, <1>11, <1>12, <1>13, SMTT(20) DEF GeneratorNext

\* Epochs stay those of the sets that are sliced.
LEMMA OwnerStep ==
    ASSUME SliceInv, [GeneratorNext]_generatorVars
    PROVE  OwnerInv'
<1>1. at \in Nat \ {0} /\ current \in Nat
  BY Zenon DEF SliceInv, GeneratorTypeOK
<1>2. \A k \in DOMAIN sets : k \in Nat \ {0}
  BY Positions DEF SliceInv, GeneratorTypeOK
<1>3. \A i \in DOMAIN epochs : epochs[i].end \in Nat
  <2>1. \A i \in DOMAIN epochs : epochs[i] \in Epoch
    BY Positions, Zenon DEF SliceInv, GeneratorTypeOK
  <2> QED
    BY <2>1, Zenon DEF Epoch
<1>4. \A i \in DOMAIN epochs : \E k \in DOMAIN sets :
        /\ epochs[i].dims = sets[k]
        /\ k < at \/ (k = at /\ phase \in {"slice", "panic"} /\ epochs[i].end <= current)
  BY Zenon DEF SliceInv, OwnerInv
<1>5. CASE phase \in {"start", "extract"}
  <2>1. epochs = <<>> /\ ~SliceStep
    BY <1>5, Zenon DEF SliceInv, LoopInv, SliceStep
  <2>2. epochs' = <<>>
    BY <2>1, EpochKinds, Zenon
  <2> QED
    BY <2>2 DEF OwnerInv
<1>6. CASE sliceTimeRange
  BY <1>4, <1>6, Zenon DEF sliceTimeRange, loopVars, OwnerInv
<1>7. CASE SliceStep
  <2>1. phase = "slice" /\ sets' = sets /\ at' = at /\ phase' \in {"slice", "panic"}
    BY <1>7, Zenon DEF SliceStep, loopVars
  <2>2. CASE granularity.unit \in Unit
    <3>1. current < current' /\ current' \in Nat
      BY <1>7, <2>2, SliceGoes, Zenon
    <3>2. ASSUME NEW i \in DOMAIN epochs
          PROVE  \E k \in DOMAIN sets : /\ epochs'[i].dims = sets[k]
                                        /\ k < at \/ (k = at /\ epochs'[i].end <= current')
      <4>1. epochs'[i] = epochs[i]
        BY <1>7, <2>2, EpochAdded, Zenon
      <4>2. PICK k \in DOMAIN sets : /\ epochs[i].dims = sets[k]
                                     /\ k < at \/ (k = at /\ epochs[i].end <= current)
        BY <1>4, Zenon
      <4>3. epochs[i].end <= current => epochs[i].end <= current'
        BY <1>1, <1>3, <3>1
      <4> QED
        BY <4>1, <4>2, <4>3, Zenon
    <3>3. at \in DOMAIN sets /\ NewEpoch.dims = sets[at] /\ NewEpoch.end <= current'
      BY <1>7, <2>2, <3>1, SliceGoes
    <3>4. ASSUME NEW i \in DOMAIN epochs'
          PROVE  \E k \in DOMAIN sets : /\ epochs'[i].dims = sets[k]
                                        /\ k < at \/ (k = at /\ epochs'[i].end <= current')
      BY <1>7, <2>2, <3>2, <3>3, EpochAdded, Zenon
    <3> QED
      BY <2>1, <3>4, Zenon DEF OwnerInv
  <2>3. CASE granularity.unit \notin Unit
    BY <1>4, <1>7, <2>1, <2>3, Zenon DEF SliceStep, OwnerInv
  <2> QED
    BY <2>2, <2>3, Zenon
<1>8. CASE SliceEnds
  <2>1. \A k \in DOMAIN sets : k < at \/ k = at => k < at + 1
    BY <1>1, <1>2
  <2> QED
    BY <1>4, <1>8, <2>1, Zenon DEF SliceEnds, OwnerInv
<1>9. CASE GenerateReturns
  BY <1>4, <1>9, Zenon DEF GenerateReturns, loopVars, OwnerInv
<1>10. CASE UNCHANGED generatorVars
  BY <1>4, <1>10, Zenon DEF generatorVars, loopVars, OwnerInv
<1>11. GenerateEpochs \/ SkipDimension \/ ExtendSet \/ DimensionEnds \/ ExtractReturns => phase \in {"start", "extract"}
  BY Zenon DEF GenerateEpochs, SkipDimension, ExtendSet, DimensionEnds, ExtractReturns, AtDimension
<1> QED
  BY <1>5, <1>6, <1>7, <1>8, <1>9, <1>10, <1>11 DEF GeneratorNext

\* Of a dimension that the inner loops have not begun there are no extensions.
LEMMA NoExtensions ==
    ASSUME req \in Request, dim \in DOMAIN req.dims, sets \in Seq(DimensionValues),
           at = 1, value = 1, nextSets = <<>>
    PROVE  Extensions
<1>1. \A k \in DOMAIN sets : k \in Nat \ {0}
  BY Positions, Zenon
<1>2. \A j \in DOMAIN req.dims[dim].values : j \in Nat \ {0}
  BY RequestTypes
<1>3. \A k \in DOMAIN sets, j \in DOMAIN req.dims[dim].values : ~Visited(k, j)
  BY <1>1, <1>2 DEF Visited
<1>4. DOMAIN nextSets = {}
  OBVIOUS
<1> QED
  BY <1>3, <1>4, Zenon DEF Extensions

\* The same after a step that ends a dimension.
LEMMA NoExtensionsNext ==
    ASSUME GeneratorTypeOK', (at = 1)', (value = 1)', (nextSets = <<>>)'
    PROVE  (IF AtValued THEN Extensions ELSE nextSets = <<>>)'
<1>1. AtValued' => (dim \in DOMAIN req.dims)'
  BY RequestTypes DEF GeneratorTypeOK, AtValued
<1>2. (dim \in DOMAIN req.dims)' => Extensions'
  <2>1. (req \in Request)' /\ (sets \in Seq(DimensionValues))'
    BY Zenon DEF GeneratorTypeOK
  <2> QED
    BY <2>1, NoExtensions, PTL
<1> QED
  BY <1>1, <1>2, Zenon

\* An iteration of the inner loop visits one pair more.
LEMMA VisitedNext ==
    ASSUME SliceInv, ExtendSet, NEW k \in DOMAIN sets, NEW j \in DOMAIN req.dims[dim].values
    PROVE  /\ Visited(k, j)' <=> Visited(k, j) \/ (k = at /\ j = value)
           /\ ~Visited(at, value)
<1>1. /\ at \in DOMAIN sets /\ dim \in DOMAIN req.dims /\ value \in DOMAIN req.dims[dim].values
  BY ExtensionTypes, Zenon
<1>2. k \in Nat /\ at \in Nat
  BY <1>1, Positions, Zenon DEF SliceInv, GeneratorTypeOK
<1>3. Len(req.dims[dim].values) \in Nat /\ DOMAIN req.dims[dim].values = 1 .. Len(req.dims[dim].values)
  BY <1>1, RequestTypes, Zenon DEF SliceInv, GeneratorTypeOK
<1>4. PICK n \in Nat : n = Len(req.dims[dim].values)
  BY <1>3, Zenon
<1>5. j \in 1 .. n /\ value \in 1 .. n
  BY <1>1, <1>3, <1>4, Zenon
<1>6. IF value = n THEN at' = at + 1 /\ value' = 1 ELSE value' = value + 1 /\ at' = at
  BY <1>4, Zenon DEF ExtendSet
<1>7. (Visited(k, j))' <=> k < at' \/ (k = at' /\ j < value')
  BY Zenon DEF Visited
<1> QED
  BY <1>2, <1>5, <1>6, <1>7 DEF Visited

\* The inner loops extend the choices.
LEMMA ExtensionsStep ==
    ASSUME SliceInv, SetsInv, Extensions, DistinctDimensions(req), ExtendSet
    PROVE  Extensions'
<1> DEFINE d == req.dims[dim]
           x == Extended(sets[at], d, value)
<1>1. /\ at \in DOMAIN sets /\ dim \in DOMAIN req.dims /\ value \in DOMAIN d.values
      /\ x \in DimensionValues /\ AtValued
  BY ExtensionTypes, Zenon
<1>2. req' = req /\ dim' = dim /\ sets' = sets /\ nextSets' = Append(nextSets, x)
  BY Zenon DEF ExtendSet
<1>3. /\ Len(nextSets) + 1 \in DOMAIN nextSets' /\ nextSets'[Len(nextSets) + 1] = x
      /\ \A p \in DOMAIN nextSets : p \in DOMAIN nextSets' /\ nextSets'[p] = nextSets[p]
      /\ \A p \in DOMAIN nextSets' : p \in DOMAIN nextSets \/ p = Len(nextSets) + 1
  BY <1>1, <1>2, Appended DEF SliceInv, GeneratorTypeOK
<1>4. ASSUME NEW k \in DOMAIN sets, NEW j \in DOMAIN d.values
      PROVE  /\ Visited(k, j)' <=> Visited(k, j) \/ (k = at /\ j = value)
             /\ ~Visited(at, value)
  BY VisitedNext, Zenon
<1>5. ASSUME NEW k \in DOMAIN sets, NEW j \in DOMAIN d.values, Extended(sets[k], d, j) = x
      PROVE  k = at /\ j = value
  <2>1. sets[k] \in Choices(req, dim - 1) /\ sets[at] \in Choices(req, dim - 1)
    BY <1>1, Zenon DEF SetsInv
  <2>2. sets[k] = sets[at] /\ j = value
    BY <1>1, <1>5, <2>1, ChoicesExtend, SMTT(20) DEF AtValued, SliceInv, GeneratorTypeOK
  <2> QED
    BY <1>1, <2>2, Zenon DEF SetsInv
<1>6. /\ \A p \in DOMAIN nextSets : \E k \in DOMAIN sets, j \in DOMAIN d.values :
           Visited(k, j) /\ nextSets[p] = Extended(sets[k], d, j)
      /\ \A k \in DOMAIN sets, j \in DOMAIN d.values :
           Visited(k, j) => \E p \in DOMAIN nextSets : nextSets[p] = Extended(sets[k], d, j)
      /\ \A p, q \in DOMAIN nextSets : nextSets[p] = nextSets[q] => p = q
  BY Zenon DEF Extensions
<1>7. Extensions' <=>
      /\ \A p \in DOMAIN nextSets' : \E k \in DOMAIN sets, j \in DOMAIN d.values :
           Visited(k, j)' /\ nextSets'[p] = Extended(sets[k], d, j)
      /\ \A k \in DOMAIN sets, j \in DOMAIN d.values :
           Visited(k, j)' => \E p \in DOMAIN nextSets' : nextSets'[p] = Extended(sets[k], d, j)
      /\ \A p, q \in DOMAIN nextSets' : nextSets'[p] = nextSets'[q] => p = q
  BY <1>2 DEF Extensions, Visited
<1>8. x = Extended(sets[at], d, value)
  BY Zenon
<1> HIDE DEF d, x
<1>9. ASSUME NEW p \in DOMAIN nextSets'
      PROVE  \E k \in DOMAIN sets, j \in DOMAIN d.values :
               Visited(k, j)' /\ nextSets'[p] = Extended(sets[k], d, j)
  <2>1. CASE p \in DOMAIN nextSets
    <3>1. PICK k \in DOMAIN sets, j \in DOMAIN d.values :
            Visited(k, j) /\ nextSets[p] = Extended(sets[k], d, j)
      BY <1>6, <2>1, Zenon
    <3>2. Visited(k, j)'
      BY <1>4, <3>1, Zenon
    <3>3. nextSets'[p] = Extended(sets[k], d, j)
      BY <1>3, <2>1, <3>1, Zenon
    <3> QED
      BY <3>2, <3>3, Zenon
  <2>2. CASE p = Len(nextSets) + 1
    BY <1>1, <1>3, <1>4, <1>8, <2>2, Zenon
  <2> QED
    BY <1>3, <2>1, <2>2, Zenon
<1>10. ASSUME NEW k \in DOMAIN sets, NEW j \in DOMAIN d.values, Visited(k, j)'
       PROVE  \E p \in DOMAIN nextSets' : nextSets'[p] = Extended(sets[k], d, j)
  <2>1. CASE Visited(k, j)
    <3>1. PICK p \in DOMAIN nextSets : nextSets[p] = Extended(sets[k], d, j)
      BY <1>6, <2>1, Zenon
    <3> QED
      BY <1>3, <3>1, Zenon
  <2>2. CASE k = at /\ j = value
    BY <1>3, <1>8, <2>2, Zenon
  <2> QED
    BY <1>4, <1>10, <2>1, <2>2, Zenon
<1>11. ASSUME NEW p \in DOMAIN nextSets PROVE nextSets[p] # x
  <2>1. PICK k \in DOMAIN sets, j \in DOMAIN d.values :
          Visited(k, j) /\ nextSets[p] = Extended(sets[k], d, j)
    BY <1>6, Zenon
  <2>2. ASSUME nextSets[p] = x PROVE FALSE
    <3>1. k = at /\ j = value
      BY <1>5, <2>1, <2>2, Zenon
    <3>2. ~Visited(at, value)
      BY <1>1, <1>4, Zenon
    <3> QED
      BY <2>1, <3>1, <3>2, Zenon
  <2> QED
    BY <2>2, Zenon
<1>12. ASSUME NEW p \in DOMAIN nextSets', NEW q \in DOMAIN nextSets', nextSets'[p] = nextSets'[q]
       PROVE  p = q
  BY <1>3, <1>6, <1>11, <1>12, Zenon
<1> QED
  BY <1>7, <1>9, <1>10, <1>12, Zenon

\* When the inner loops are through, the extensions are the choices.
LEMMA ExtensionsComplete ==
    ASSUME SliceInv, SetsInv, Extensions, DistinctDimensions(req), AtValued, at > Len(sets),
           dim \in DOMAIN req.dims
    PROVE  /\ \A p \in DOMAIN nextSets : nextSets[p] \in Choices(req, dim)
           /\ \A f \in Choices(req, dim) : \E p \in DOMAIN nextSets : nextSets[p] = f
           /\ \A p, q \in DOMAIN nextSets : nextSets[p] = nextSets[q] => p = q
<1> DEFINE d == req.dims[dim]
<1>1. \A k \in DOMAIN sets : k < at
  <2>1. \A k \in DOMAIN sets : k \in Nat /\ k <= Len(sets)
    BY Positions, Zenon DEF SliceInv, GeneratorTypeOK
  <2>2. at \in Nat /\ Len(sets) \in Nat
    BY Positions, Zenon DEF SliceInv, GeneratorTypeOK
  <2> QED
    BY <2>1, <2>2
<1>2. \A k \in DOMAIN sets, j \in DOMAIN d.values : Visited(k, j)
  BY <1>1, Zenon DEF Visited
<1>3. /\ \A g \in Choices(req, dim - 1), j \in DOMAIN d.values : Extended(g, d, j) \in Choices(req, dim)
      /\ \A f \in Choices(req, dim) :
           \E g \in Choices(req, dim - 1), j \in DOMAIN d.values : f = Extended(g, d, j)
  BY ChoicesExtend, Zenon DEF AtValued, SliceInv, GeneratorTypeOK
<1>4. /\ \A p \in DOMAIN nextSets : \E k \in DOMAIN sets, j \in DOMAIN d.values :
           nextSets[p] = Extended(sets[k], d, j)
      /\ \A k \in DOMAIN sets, j \in DOMAIN d.values :
           \E p \in DOMAIN nextSets : nextSets[p] = Extended(sets[k], d, j)
      /\ \A p, q \in DOMAIN nextSets : nextSets[p] = nextSets[q] => p = q
  BY <1>2 DEF Extensions
<1> HIDE DEF d
<1>5. /\ \A k \in DOMAIN sets : sets[k] \in Choices(req, dim - 1)
      /\ \A f \in Choices(req, dim - 1) : \E k \in DOMAIN sets : sets[k] = f
  BY Zenon DEF SetsInv
<1>6. ASSUME NEW p \in DOMAIN nextSets PROVE nextSets[p] \in Choices(req, dim)
  <2>1. PICK k \in DOMAIN sets, j \in DOMAIN d.values : nextSets[p] = Extended(sets[k], d, j)
    BY <1>4, Zenon
  <2> QED
    BY <1>3, <1>5, <2>1
<1>7. ASSUME NEW f \in Choices(req, dim) PROVE \E p \in DOMAIN nextSets : nextSets[p] = f
  <2>1. PICK g \in Choices(req, dim - 1), j \in DOMAIN d.values : f = Extended(g, d, j)
    BY <1>3, Zenon
  <2>2. PICK k \in DOMAIN sets : sets[k] = g
    BY <1>5, Zenon
  <2>3. PICK p \in DOMAIN nextSets : nextSets[p] = Extended(sets[k], d, j)
    BY <1>4, Zenon
  <2> QED
    BY <2>1, <2>2, <2>3, Zenon
<1> QED
  BY <1>4, <1>6, <1>7, Zenon

\* The sets stay the choices from the dimensions that are done.
LEMMA SetsStep ==
    ASSUME SliceInv, DistinctDimensions(req), SetsInv, NextSetsInv, [GeneratorNext]_generatorVars
    PROVE  SetsInv'
<1>1. req' = req /\ req \in Request /\ dim \in Nat
  BY SameRequest, RequestTypes DEF SliceInv, GeneratorTypeOK
<1>2. CASE sets' = sets /\ dim' = dim
  BY <1>1, <1>2, Zenon DEF SetsInv
<1>3. CASE SkipDimension
  <2>1. dim' = dim + 1 /\ sets' = sets /\ req.dims[dim].values = <<>> /\ dim <= Len(req.dims)
    BY <1>3, Zenon DEF SkipDimension, AtDimension
  <2>2. dim \in DOMAIN req.dims
    BY <2>1, RequestTypes DEF SliceInv, GeneratorTypeOK
  <2>3. dim' - 1 = dim
    BY <1>1, <2>1
  <2>4. Choices(req, dim) = Choices(req, dim - 1)
    BY <1>1, <2>1, <2>2, ChoicesSkip, Zenon
  <2> QED
    BY <1>1, <2>1, <2>3, <2>4, Zenon DEF SetsInv
<1>4. CASE DimensionEnds
  <2>1. /\ dim' = dim + 1 /\ sets' = nextSets /\ AtValued /\ at > Len(sets) /\ phase = "extract"
    BY <1>4, Zenon DEF DimensionEnds, AtDimension, AtValued
  <2>2. dim \in DOMAIN req.dims
    BY <2>1, RequestTypes DEF SliceInv, GeneratorTypeOK, AtValued
  <2>3. dim' - 1 = dim
    BY <1>1, <2>1
  <2>4. Extensions
    BY <2>1, Zenon DEF NextSetsInv
  <2>5. /\ \A p \in DOMAIN nextSets : nextSets[p] \in Choices(req, dim)
        /\ \A f \in Choices(req, dim) : \E p \in DOMAIN nextSets : nextSets[p] = f
        /\ \A p, q \in DOMAIN nextSets : nextSets[p] = nextSets[q] => p = q
    BY <2>1, <2>2, <2>4, ExtensionsComplete, Zenon
  <2> QED
    BY <1>1, <2>1, <2>3, <2>5, Zenon DEF SetsInv
<1>5. SkipDimension \/ DimensionEnds \/ (sets' = sets /\ dim' = dim)
  BY Zenon DEF GeneratorNext, generatorVars, loopVars, GenerateEpochs, ExtendSet,
         ExtractReturns, sliceTimeRange, SliceStep, SliceEnds, GenerateReturns
<1> QED
  BY <1>2, <1>3, <1>4, <1>5, Zenon

\* nextSets stays what the inner loops have visited.
LEMMA NextSetsStep ==
    ASSUME SliceInv, DistinctDimensions(req), SetsInv, NextSetsInv, [GeneratorNext]_generatorVars
    PROVE  NextSetsInv'
<1>1. SUFFICES ASSUME phase' \in {"start", "extract"}
               PROVE  (IF AtValued THEN Extensions ELSE nextSets = <<>>)'
  BY Zenon DEF NextSetsInv
<1>2. req' = req /\ GeneratorTypeOK'
  BY SameRequest, TypesStep, Zenon
<1>3. CASE SkipDimension
  <2>1. phase = "extract" /\ ~AtValued
    BY <1>3, Zenon DEF SkipDimension, AtDimension, AtValued
  <2>2. at = 1 /\ value = 1 /\ nextSets = <<>>
    BY <2>1, Zenon DEF SliceInv, LoopInv, NextSetsInv
  <2>3. at' = 1 /\ value' = 1 /\ nextSets' = <<>>
    BY <1>3, <2>2, Zenon DEF SkipDimension
  <2> QED
    BY <1>2, <2>3, NoExtensionsNext, Zenon
<1>4. CASE DimensionEnds
  <2>1. phase = "extract" /\ at > Len(sets)
    BY <1>4, Zenon DEF DimensionEnds, AtDimension
  <2>2. at \in Nat /\ Len(sets) \in Nat
    BY Positions, Zenon DEF SliceInv, GeneratorTypeOK
  <2>3. value = 1
    BY <2>1, <2>2 DEF SliceInv, LoopInv
  <2>4. at' = 1 /\ value' = 1 /\ nextSets' = <<>>
    BY <1>4, <2>3, Zenon DEF DimensionEnds
  <2> QED
    BY <1>2, <2>4, NoExtensionsNext
<1>5. CASE ExtendSet
  <2>1. phase = "extract" /\ AtValued
    BY <1>5, ExtensionTypes, Zenon
  <2>2. Extensions
    BY <2>1, Zenon DEF NextSetsInv
  <2>3. Extensions'
    BY <1>5, <2>2, ExtensionsStep, Zenon
  <2>4. AtValued'
    BY <1>5, <2>1, Zenon DEF ExtendSet, AtValued
  <2> QED
    BY <2>3, <2>4, Zenon
<1>6. CASE GenerateEpochs \/ UNCHANGED generatorVars
  <2>1. /\ dim' = dim /\ sets' = sets /\ nextSets' = nextSets /\ at' = at /\ value' = value
        /\ phase \in {"start", "extract"}
    BY <1>1, <1>6, Zenon DEF GenerateEpochs, generatorVars, loopVars
  <2>2. IF AtValued THEN Extensions ELSE nextSets = <<>>
    BY <2>1, Zenon DEF NextSetsInv
  <2>3. (AtValued' <=> AtValued) /\ (Extensions' <=> Extensions)
    BY <1>2, <2>1 DEF AtValued, Extensions, Visited
  <2> QED
    BY <2>1, <2>2, <2>3, Zenon
<1>7. ~ExtractReturns /\ ~sliceTimeRange /\ ~SliceStep /\ ~SliceEnds /\ ~GenerateReturns
  BY <1>1, Zenon DEF ExtractReturns, sliceTimeRange, SliceStep, SliceEnds, GenerateReturns
<1> QED
  BY <1>3, <1>4, <1>5, <1>6, <1>7, Zenon DEF GeneratorNext

\* An iteration adds an epoch after all others of the same dimension values: their
\* set is the one it is at.
LEMMA DisjointStep ==
    ASSUME SliceInv, SetsInv, DisjointInv, [GeneratorNext]_generatorVars
    PROVE  DisjointInv'
<1>1. CASE epochs' = epochs
  BY <1>1, Zenon DEF DisjointInv
<1>2. CASE SliceStep /\ granularity.unit \in Unit
  <2> DEFINE n == Len(epochs) + 1
  <2>1. /\ n \in DOMAIN epochs' /\ epochs'[n] = NewEpoch
        /\ \A i \in DOMAIN epochs : /\ i \in DOMAIN epochs' /\ epochs'[i] = epochs[i]
                                    /\ i \in Nat /\ i < n
        /\ \A i \in DOMAIN epochs' : i \in DOMAIN epochs \/ i = n
    BY <1>2, EpochAdded, Zenon
  <2>2. phase = "slice" /\ at \in DOMAIN sets /\ NewEpoch.dims = sets[at] /\ NewEpoch.start = current
    BY <1>2, SliceGoes, Zenon DEF SliceStep
  <2>3. ASSUME NEW i \in DOMAIN epochs, epochs[i].dims = NewEpoch.dims
        PROVE  epochs[i].end <= NewEpoch.start
    <3>1. PICK k \in DOMAIN sets : /\ epochs[i].dims = sets[k]
                                   /\ k < at \/ (k = at /\ epochs[i].end <= current)
      BY Zenon DEF SliceInv, OwnerInv
    <3>2. k = at
      BY <2>2, <2>3, <3>1, Zenon DEF SetsInv
    <3>3. ~(at < at)
      BY DEF SliceInv, GeneratorTypeOK
    <3> QED
      BY <2>2, <3>1, <3>2, <3>3, Zenon
  <2>4. n \in Nat
    BY Positions DEF SliceInv, GeneratorTypeOK
  <2> HIDE DEF n
  <2>5. \A i \in DOMAIN epochs' : i < n => i \in DOMAIN epochs
    BY <2>1, <2>4
  <2>6. \A i \in DOMAIN epochs : ~(n < i)
    BY <2>1, <2>4
  <2>7. ASSUME NEW i \in DOMAIN epochs', NEW j \in DOMAIN epochs', i < j,
               epochs'[i].dims = epochs'[j].dims
        PROVE  epochs'[i].end <= epochs'[j].start
    <3>1. CASE j = n
      BY <2>1, <2>3, <2>5, <2>7, <3>1, Zenon
    <3>2. CASE j \in DOMAIN epochs
      <4>1. i \in DOMAIN epochs
        BY <2>1, <2>6, <2>7, <3>2, Zenon
      <4> QED
        BY <2>1, <2>7, <3>2, <4>1, Zenon DEF DisjointInv
    <3> QED
      BY <2>1, <3>1, <3>2, Zenon
  <2> QED
    BY <2>7, Zenon DEF DisjointInv
<1> QED
  BY <1>1, <1>2, EpochKinds, Zenon

-----------------------------------------------------------------------------
(* Theorems *)

\* The invariant holds of a call that begins.
LEMMA GeneratorInvInit == GeneratorInit => GeneratorInv
<1> SUFFICES ASSUME GeneratorInit, PositiveGranularity PROVE SliceInv /\ DistinctInv
  BY Zenon DEF GeneratorInv
<1> DEFINE none == [name \in {} |-> ""]
<1>1. /\ req \in Request /\ phase = "start" /\ dim = 1 /\ sets = <<none>> /\ nextSets = <<>>
      /\ at = 1 /\ value = 1 /\ current = 0 /\ epochs = <<>>
  BY Zenon DEF GeneratorInit
<1>2. Len(req.dims) \in Nat /\ DOMAIN req.dims = 1 .. Len(req.dims)
  BY <1>1, RequestTypes, Zenon
<1>3. none \in DimensionValues
  <2>1. none \in [{} -> STRING] /\ {} \in SUBSET STRING
    BY Zenon
  <2> QED
    BY <2>1, Zenon DEF DimensionValues
<1>4. \A f : f \in Choices(req, 0) <=> f = none
  BY <1>1, ChoicesNone, Zenon
<1> HIDE DEF none
<1>5. sets \in Seq(DimensionValues) /\ DOMAIN sets = {1} /\ sets[1] = none
  BY <1>1, <1>3
<1>6. nextSets \in Seq(DimensionValues) /\ epochs \in Seq(Epoch) /\ DOMAIN epochs = {}
  BY <1>1
<1>7. GeneratorTypeOK
  BY <1>1, <1>2, <1>5, <1>6 DEF GeneratorTypeOK, Phase
<1>8. LoopInv /\ CurrentInv /\ CoverInv
  BY <1>1, Zenon DEF LoopInv, CurrentInv, CoverInv
<1>9. EpochsInv /\ OwnerInv /\ DisjointInv
  BY <1>6, Zenon DEF EpochsInv, OwnerInv, DisjointInv
<1>10. SetsInv
  <2>1. dim - 1 = 0
    BY <1>1
  <2> QED
    BY <1>4, <1>5, <2>1, Zenon DEF SetsInv
<1>11. NextSetsInv
  <2>1. AtValued => dim \in DOMAIN req.dims
    BY <1>1, <1>2 DEF AtValued
  <2>2. dim \in DOMAIN req.dims => Extensions
    BY <1>1, <1>5, NoExtensions, Zenon
  <2> QED
    BY <1>1, <2>1, <2>2, Zenon DEF NextSetsInv
<1> QED
  BY <1>7, <1>8, <1>9, <1>10, <1>11, Zenon DEF SliceInv, DistinctInv

\* Every step keeps the invariant.
LEMMA GeneratorInvStep == GeneratorInv /\ [GeneratorNext]_generatorVars => GeneratorInv'
<1> SUFFICES ASSUME PositiveGranularity', SliceInv, DistinctInv, [GeneratorNext]_generatorVars
             PROVE  SliceInv' /\ DistinctInv'
  BY SameRequest, Zenon DEF GeneratorInv
<1>1. SliceInv'
  BY TypesStep, LoopStep, CurrentStep, EpochsStep, CoverStep, OwnerStep, Zenon DEF SliceInv
<1>2. DistinctDimensions(req)' => DistinctDimensions(req)
  BY SameRequest, Zenon
<1>3. DistinctDimensions(req) => (SetsInv /\ NextSetsInv /\ DisjointInv)'
  BY SetsStep, NextSetsStep, DisjointStep, Zenon DEF DistinctInv
<1> QED
  BY <1>1, <1>2, <1>3, Zenon DEF DistinctInv

\* It holds throughout a call.
LEMMA GeneratorInvariance == GeneratorSpec => []GeneratorInv
BY GeneratorInvInit, GeneratorInvStep, PTL DEF GeneratorSpec

\* Every epoch begins and ends on boundaries and has value - 1 inside.
LEMMA AlignedFollows == SliceInv => CalendarAligned
<1> SUFFICES ASSUME SliceInv, NEW i \in DOMAIN epochs
             PROVE  LET e == epochs[i]
                        boundaries == {t \in e.start .. e.end : IsBoundary(t, granularity.unit)}
                    IN  /\ {e.start, e.end} \subseteq boundaries
                        /\ Cardinality(boundaries) = granularity.value + 1
  BY Zenon DEF CalendarAligned
<1>1. granularity.unit \in Unit /\ granularity.value \in Nat
  BY Zenon DEF SliceInv, EpochsInv
<1>2. PICK n \in Nat : /\ epochs[i].start = Bound(granularity.unit, n)
                       /\ epochs[i].end = Bound(granularity.unit, n + granularity.value)
  BY Zenon DEF SliceInv, EpochsInv
<1> DEFINE u == granularity.unit
           v == granularity.value
<1>3. LET between == {t \in Bound(u, n) .. Bound(u, n + v) : IsBoundary(t, u)}
      IN  {Bound(u, n), Bound(u, n + v)} \subseteq between /\ Cardinality(between) = v + 1
  <2> HIDE DEF u, v
  <2>1. u \in Unit /\ v \in Nat
    BY <1>1, Zenon DEF u, v
  <2> QED
    BY <2>1, BoundsBetween, Zenon
<1> QED
  BY <1>2, <1>3, Zenon

\* Two epochs of the same dimension values never hold the same instant.
LEMMA DisjointFollows ==
    ASSUME SliceInv, DisjointInv, NEW i \in DOMAIN epochs, NEW j \in DOMAIN epochs,
           epochs[i].dims = epochs[j].dims, i # j, NEW t \in Nat,
           epochs[i].start <= t, t < epochs[i].end
    PROVE  ~(epochs[j].start <= t /\ t < epochs[j].end)
<1>1. /\ epochs[i].start \in Nat /\ epochs[i].end \in Nat
      /\ epochs[j].start \in Nat /\ epochs[j].end \in Nat
  <2>1. epochs[i] \in Epoch /\ epochs[j] \in Epoch
    BY Positions, Zenon DEF SliceInv, GeneratorTypeOK
  <2> QED
    BY <2>1, Zenon DEF Epoch
<1>2. i < j \/ j < i
  <2>1. i \in Nat /\ j \in Nat
    BY Positions, Zenon DEF SliceInv, GeneratorTypeOK
  <2> QED
    BY <2>1
<1>3. epochs[i].end <= epochs[j].start \/ epochs[j].end <= epochs[i].start
  BY <1>2, Zenon DEF DisjointInv
<1> QED
  BY <1>1, <1>3

\* When the call returns, the epochs cover the range exactly.
LEMMA CoverFollows == SliceInv /\ SetsInv /\ DisjointInv => ExactCover
<1> SUFFICES ASSUME SliceInv, SetsInv, DisjointInv, phase = "done" PROVE ExactCover
  BY Zenon DEF ExactCover
<1> DEFINE requested == req.start .. (req.end - 1)
<1>1. /\ req \in Request /\ req.start \in Nat /\ req.end \in Nat /\ Len(req.dims) \in Nat
      /\ dim = Len(req.dims) + 1 /\ at > Len(sets)
  BY RequestTypes, Zenon DEF SliceInv, GeneratorTypeOK, LoopInv
<1>2. dim - 1 = Len(req.dims)
  BY <1>1
<1>3. Choices(req, dim - 1) = Combinations(req)
  BY <1>1, <1>2, ChoicesAll
<1>4. \A k \in DOMAIN sets : k < at
  <2>1. at \in Nat /\ Len(sets) \in Nat /\ \A k \in DOMAIN sets : k \in Nat /\ k <= Len(sets)
    BY Positions, Zenon DEF SliceInv, GeneratorTypeOK
  <2> QED
    BY <1>1, <2>1
<1>5. ASSUME NEW f \in Combinations(req), NEW t \in requested
      PROVE  \E i \in DOMAIN epochs : \A j \in DOMAIN epochs : Holds(epochs[j], f, t) <=> j = i
  <2>1. PICK k \in DOMAIN sets : sets[k] = f
    BY <1>3, Zenon DEF SetsInv
  <2>2. PICK i \in DOMAIN epochs : Holds(epochs[i], f, t)
    BY <1>4, <2>1 DEF SliceInv, CoverInv
  <2>3. t \in Nat
    BY <1>1
  <2>4. ASSUME NEW j \in DOMAIN epochs, Holds(epochs[j], f, t), j # i PROVE FALSE
    BY <2>2, <2>3, <2>4, DisjointFollows, Zenon DEF Holds
  <2> QED
    BY <2>2, <2>4, Zenon
<1>6. ASSUME NEW i \in DOMAIN epochs
      PROVE  /\ epochs[i].dims \in Combinations(req)
             /\ \E t \in requested : Holds(epochs[i], epochs[i].dims, t)
  <2>1. PICK k \in DOMAIN sets : epochs[i].dims = sets[k]
    BY Zenon DEF SliceInv, OwnerInv
  <2>2. epochs[i].dims \in Combinations(req)
    BY <1>3, <2>1 DEF SetsInv
  <2>3. /\ epochs[i].start < epochs[i].end
        /\ req.start < req.end /\ epochs[i].start < req.end /\ req.start < epochs[i].end
    BY Zenon DEF SliceInv, EpochsInv
  <2>4. epochs[i].start \in Nat /\ epochs[i].end \in Nat
    <3>1. epochs[i] \in Epoch
      BY Positions, Zenon DEF SliceInv, GeneratorTypeOK
    <3> QED
      BY <3>1, Zenon DEF Epoch
  <2>5. CASE req.start <= epochs[i].start
    <3>1. epochs[i].start \in requested /\ epochs[i].start <= epochs[i].start
      BY <1>1, <2>3, <2>4, <2>5
    <3> QED
      BY <2>2, <2>3, <3>1, Zenon DEF Holds
  <2>6. CASE epochs[i].start < req.start
    <3>1. req.start \in requested /\ epochs[i].start <= req.start
      BY <1>1, <2>3, <2>4, <2>6, SMTT(20)
    <3> QED
      BY <2>2, <2>3, <3>1, Zenon DEF Holds
  <2> QED
    BY <1>1, <2>4, <2>5, <2>6
<1> QED
  BY <1>5, <1>6, Zenon DEF ExactCover

\* Every epoch of every request whose granularity is above 0 begins and ends on
\* calendar boundaries of its unit, with value - 1 of them inside.
THEOREM EpochsAligned == GeneratorSpec => [](PositiveGranularity => CalendarAligned)
<1>1. GeneratorInv => (PositiveGranularity => CalendarAligned)
  BY AlignedFollows, Zenon DEF GeneratorInv
<1> QED
  BY <1>1, GeneratorInvariance, PTL

\* The epochs of such a request whose partitions name no value twice cover its
\* range exactly, for every combination of dimension values.
THEOREM EpochsCoverExactly ==
    GeneratorSpec => [](PositiveGranularity /\ DistinctDimensions(req) => ExactCover)
<1>1. GeneratorInv => (PositiveGranularity /\ DistinctDimensions(req) => ExactCover)
  BY CoverFollows, Zenon DEF GeneratorInv, DistinctInv
<1> QED
  BY <1>1, GeneratorInvariance, PTL

-----------------------------------------------------------------------------
(* Termination: every iteration of a loop brings the call closer to its end *)

\* How many of n rounds are left when the loop is at round k.
Left(n, k) == IF k <= n THEN n + 1 - k ELSE 0

\* What is left of a call: phases, then rounds of the loops from the outer to the
\* inner one.
Remaining ==
    CASE phase = "start"   -> <<3, 0, 0, 0>>
      [] phase = "extract" -> <<2, Left(Len(req.dims), dim), Left(Len(sets), at),
                                IF dim <= Len(req.dims)
                                THEN Left(Len(req.dims[dim].values), value) ELSE 0>>
      [] phase = "next"    -> <<1, Left(Len(sets), at), 1, 0>>
      [] phase = "slice"   -> <<1, Left(Len(sets), at), 0,
                                IF current < req.end THEN req.end - current ELSE 0>>
      [] OTHER             -> <<0, 0, 0, 0>>

\* The lexicographic order, which has no infinite descent in the natural numbers.
Shorter(a, b) == \E i \in 1 .. 4 : a[i] < b[i] /\ \A j \in 1 .. (i - 1) : a[j] = b[j]

\* A step of GenerateEpochs leaves less to do.
Advances == Shorter(Remaining', Remaining) /\ Remaining \in Nat \X Nat \X Nat \X Nat

\* With a granularity above 0 every step does, whatever else is requested.
StepsAdvance == [][PositiveGranularity => Advances]_generatorVars

\* The order, component by component.
LEMMA Lexicographic ==
    ASSUME NEW a1 \in Nat, NEW a2 \in Nat, NEW a3 \in Nat, NEW a4 \in Nat,
           NEW b1 \in Nat, NEW b2 \in Nat, NEW b3 \in Nat, NEW b4 \in Nat,
           a1 < b1 \/ (a1 = b1 /\ (a2 < b2 \/ (a2 = b2 /\ (a3 < b3 \/ (a3 = b3 /\ a4 < b4)))))
    PROVE  Shorter(<<a1, a2, a3, a4>>, <<b1, b2, b3, b4>>)
<1> DEFINE a == <<a1, a2, a3, a4>>
           b == <<b1, b2, b3, b4>>
<1>1. /\ a[1] = a1 /\ a[2] = a2 /\ a[3] = a3 /\ a[4] = a4
      /\ b[1] = b1 /\ b[2] = b2 /\ b[3] = b3 /\ b[4] = b4
  BY Zenon
<1> HIDE DEF a, b
<1>2. \E i \in 1 .. 4 : a[i] < b[i] /\ \A j \in 1 .. (i - 1) : a[j] = b[j]
  <2>1. CASE a1 < b1
    BY <1>1, <2>1
  <2>2. CASE a1 = b1 /\ a2 < b2
    BY <1>1, <2>2
  <2>3. CASE a1 = b1 /\ a2 = b2 /\ a3 < b3
    BY <1>1, <2>3
  <2>4. CASE a1 = b1 /\ a2 = b2 /\ a3 = b3 /\ a4 < b4
    BY <1>1, <2>4
  <2> QED
    BY <2>1, <2>2, <2>3, <2>4, Zenon
<1> QED
  BY <1>2, Zenon DEF Shorter, a, b

\* A round of a loop leaves one round less.
LEMMA RoundEnds ==
    ASSUME NEW n \in Nat, NEW k \in Nat
    PROVE  /\ Left(n, k) \in Nat
           /\ k <= n => Left(n, k + 1) < Left(n, k)
BY DEF Left

\* The bounds and the variables of the loops are natural numbers.
LEMMA RemainingAt ==
    ASSUME SliceInv
    PROVE  /\ Len(req.dims) \in Nat /\ Len(sets) \in Nat
           /\ dim \in Nat /\ at \in Nat /\ value \in Nat
           /\ current \in Nat /\ req.start \in Nat /\ req.end \in Nat
           /\ dim <= Len(req.dims) => Len(req.dims[dim].values) \in Nat
<1>1. req \in Request /\ dim \in 1 .. (Len(req.dims) + 1) /\ Len(req.dims) \in Nat
  BY RequestTypes, Zenon DEF SliceInv, GeneratorTypeOK
<1>2. dim <= Len(req.dims) => dim \in DOMAIN req.dims
  BY <1>1, RequestTypes
<1> QED
  BY <1>1, <1>2, RequestTypes, Positions DEF SliceInv, GeneratorTypeOK

\* Every part of what is left is a natural number.
RoundsLeft ==
    /\ Left(Len(req.dims), dim) \in Nat /\ Left(Len(sets), at) \in Nat
    /\ (IF dim <= Len(req.dims) THEN Left(Len(req.dims[dim].values), value) ELSE 0) \in Nat
    /\ (IF current < req.end THEN req.end - current ELSE 0) \in Nat

\* This follows from the types of the loop variables.
LEMMA RemainingParts == SliceInv => RoundsLeft
<1> SUFFICES ASSUME SliceInv PROVE RoundsLeft
  BY Zenon
<1>1. Left(Len(req.dims), dim) \in Nat /\ Left(Len(sets), at) \in Nat
  BY RemainingAt, RoundEnds, Zenon
<1>2. dim <= Len(req.dims) => Left(Len(req.dims[dim].values), value) \in Nat
  BY RemainingAt, RoundEnds, Zenon
<1>3. current \in Nat /\ req.end \in Nat
  BY RemainingAt, Zenon
<1>4. (IF current < req.end THEN req.end - current ELSE 0) \in Nat
  BY <1>3
<1>5. 0 \in Nat
  OBVIOUS
<1> QED
  BY <1>1, <1>2, <1>4, <1>5, Zenon DEF RoundsLeft

\* The phases that are left come first.
PhasesLeft ==
    CASE phase = "start" -> 3 [] phase = "extract" -> 2 [] phase \in {"next", "slice"} -> 1
      [] OTHER -> 0

BeginsWithPhases ==
    PhasesLeft \in Nat /\ \E r, s, t \in Nat : Remaining = <<PhasesLeft, r, s, t>>

\* In every phase they are the first part of what is left.
LEMMA PhasesFirst == SliceInv => BeginsWithPhases
<1> SUFFICES ASSUME SliceInv PROVE BeginsWithPhases
  BY Zenon
<1> USE RemainingParts DEF BeginsWithPhases, RoundsLeft
<1>0. 0 \in Nat /\ 1 \in Nat /\ 2 \in Nat /\ 3 \in Nat
  OBVIOUS
<1>1. CASE phase = "start"
  BY <1>0, <1>1, Zenon DEF Remaining, PhasesLeft
<1>2. CASE phase = "extract"
  BY <1>0, <1>2, Zenon DEF Remaining, PhasesLeft
<1>3. CASE phase = "next"
  BY <1>0, <1>3, Zenon DEF Remaining, PhasesLeft
<1>4. CASE phase = "slice"
  BY <1>0, <1>4, Zenon DEF Remaining, PhasesLeft
<1>5. CASE phase \notin {"start", "extract", "next", "slice"}
  BY <1>0, <1>5, Zenon DEF Remaining, PhasesLeft
<1> QED
  BY <1>1, <1>2, <1>3, <1>4, <1>5, ZenonT(30)

\* The loops of extractDimensionValueSets: dimensions, sets, values.
LEMMA ExtractAdvances ==
    ASSUME SliceInv, SkipDimension \/ ExtendSet \/ DimensionEnds
    PROVE  Shorter(Remaining', Remaining)
<1> DEFINE v == IF dim <= Len(req.dims) THEN Left(Len(req.dims[dim].values), value) ELSE 0
           D == Left(Len(req.dims), dim)
           S == Left(Len(sets), at)
<1>1. phase = "extract" /\ phase' = "extract" /\ req' = req /\ dim <= Len(req.dims)
  BY Zenon DEF SkipDimension, ExtendSet, DimensionEnds, AtDimension
<1>2. Remaining = <<2, D, S, v>> /\ Remaining' = <<2, D', S', v'>>
  BY <1>1, Zenon DEF Remaining
<1>3. SliceInv'
  BY SameRequest, TypesStep, LoopStep, CurrentStep, EpochsStep, CoverStep, OwnerStep, Zenon
  DEF SliceInv, GeneratorNext
<1>4. D \in Nat /\ S \in Nat /\ v \in Nat
  BY RemainingParts, Zenon DEF RoundsLeft
<1>5. D' \in Nat /\ S' \in Nat /\ v' \in Nat
  <2>1. RoundsLeft'
    BY <1>3, RemainingParts, PTL
  <2> QED
    BY <2>1, Zenon DEF RoundsLeft
<1>6. D' < D \/ (D' = D /\ (S' < S \/ (S' = S /\ v' < v)))
  <2>1. CASE SkipDimension \/ DimensionEnds
    <3>1. dim' = dim + 1
      BY <2>1, Zenon DEF SkipDimension, DimensionEnds
    <3> QED
      BY <1>1, <3>1, RemainingAt, RoundEnds, ZenonT(30)
  <2>2. CASE ExtendSet
    <3>1. D' = D /\ sets' = sets /\ dim' = dim /\ at <= Len(sets)
      BY <1>1, <2>2, Zenon DEF ExtendSet
    <3>2. CASE at' = at + 1
      BY <3>1, <3>2, RemainingAt, RoundEnds
    <3>3. CASE at' = at /\ value' = value + 1
      <4>1. value <= Len(req.dims[dim].values)
        BY <2>2, ExtensionTypes, RequestTypes DEF SliceInv, GeneratorTypeOK
      <4>2. v' < v
        BY <1>1, <3>1, <3>3, <4>1, RemainingAt, RoundEnds, ZenonT(30)
      <4> QED
        BY <3>1, <3>3, <4>2, Zenon
    <3> QED
      BY <2>2, <3>2, <3>3, Zenon DEF ExtendSet
  <2> QED
    BY <2>1, <2>2, Zenon
<1> HIDE DEF D, S, v
<1>7. 2 \in Nat
  OBVIOUS
<1> QED
  BY <1>2, <1>4, <1>5, <1>6, <1>7, Lexicographic, Zenon

\* The loops of GenerateEpochs and sliceTimeRange: sets, slices.
LEMMA SliceAdvances ==
    ASSUME SliceInv, sliceTimeRange \/ SliceStep \/ SliceEnds, phase' \in {"next", "slice"}
    PROVE  Shorter(Remaining', Remaining)
<1> DEFINE c == IF current < req.end THEN req.end - current ELSE 0
           S == Left(Len(sets), at)
<1>1. req' = req /\ sets' = sets /\ S \in Nat /\ c \in Nat
  BY RemainingParts, Zenon DEF RoundsLeft, sliceTimeRange, SliceStep, SliceEnds, loopVars
<1>2. 0 \in Nat /\ 1 \in Nat /\ 0 < 1
  OBVIOUS
<1>3. CASE sliceTimeRange
  <2>1. phase = "next" /\ phase' = "slice" /\ S' = S
    BY <1>3, Zenon DEF sliceTimeRange, loopVars
  <2>2. Remaining = <<1, S, 1, 0>> /\ Remaining' = <<1, S, 0, c'>>
    BY <2>1, Zenon DEF Remaining
  <2>3. c' \in Nat
    BY <1>1, <1>3, <2>1, SliceBegins, RemainingAt, SMTT(20)
  <2> HIDE DEF c, S
  <2> QED
    BY <1>1, <1>2, <2>2, <2>3, Lexicographic, Zenon
<1>4. CASE SliceStep
  <2>1. phase = "slice" /\ phase' = "slice" /\ S' = S /\ granularity.unit \in Unit
    BY <1>4, Zenon DEF SliceStep, loopVars
  <2>2. Remaining = <<1, S, 0, c>> /\ Remaining' = <<1, S, 0, c'>>
    BY <2>1, Zenon DEF Remaining
  <2>3. current' \in Nat /\ current < req.end /\ current < current'
    BY <1>4, <2>1, SliceGoes, Zenon
  <2>4. c' \in Nat /\ c' < c
    <3>1. current \in Nat /\ req.end \in Nat
      BY RemainingAt, Zenon
    <3> QED
      BY <1>1, <2>3, <3>1
  <2> HIDE DEF c, S
  <2> QED
    BY <1>1, <1>2, <2>2, <2>4, Lexicographic, Zenon
<1>5. CASE SliceEnds
  <2>1. phase = "slice" /\ phase' = "next" /\ at' = at + 1 /\ at <= Len(sets)
    BY <1>5, Zenon DEF SliceEnds, SliceInv, LoopInv
  <2>2. Remaining = <<1, S, 0, c>> /\ Remaining' = <<1, S', 1, 0>>
    BY <2>1, Zenon DEF Remaining
  <2>3. S' < S
    BY <1>1, <2>1, RemainingAt, RoundEnds, Zenon
  <2>4. S' \in Nat
    <3>1. at + 1 \in Nat
      BY RemainingAt
    <3> QED
      BY <1>1, <2>1, <3>1, RemainingAt, RoundEnds, Zenon
  <2> HIDE DEF c, S
  <2> QED
    BY <1>1, <1>2, <2>2, <2>3, <2>4, Lexicographic, Zenon
<1> QED
  BY <1>3, <1>4, <1>5, Zenon

\* Every other step ends a phase.
LEMMA PhaseAdvances ==
    ASSUME SliceInv, SliceInv',
           \/ GenerateEpochs \/ ExtractReturns \/ GenerateReturns
           \/ (sliceTimeRange \/ SliceStep) /\ phase' \notin {"next", "slice"}
    PROVE  Shorter(Remaining', Remaining)
<1>1. PhasesLeft' < PhasesLeft
  BY DEF PhasesLeft, GenerateEpochs, ExtractReturns, GenerateReturns, sliceTimeRange, SliceStep
<1>2. PICK r, s, t \in Nat : Remaining = <<PhasesLeft, r, s, t>>
  BY PhasesFirst, Zenon DEF BeginsWithPhases
<1>3. BeginsWithPhases'
  BY PhasesFirst, PTL
<1>4. PICK u, v, w \in Nat : Remaining' = <<PhasesLeft', u, v, w>>
  BY <1>3, Zenon DEF BeginsWithPhases
<1>5. PhasesLeft \in Nat /\ PhasesLeft' \in Nat
  BY <1>3, PhasesFirst, Zenon DEF BeginsWithPhases
<1> HIDE DEF PhasesLeft
<1> QED
  BY <1>1, <1>2, <1>4, <1>5, Lexicographic, Zenon

\* Every step of GenerateEpochs leaves less to do when the granularity is above 0: no
\* such request keeps it busy for ever, however many dimensions and values it has and
\* however long its range is.
THEOREM GenerationAdvances == GeneratorSpec => StepsAdvance
<1>1. ASSUME SliceInv, SliceInv', GeneratorNext
      PROVE  Advances
  <2>1. Remaining \in Nat \X Nat \X Nat \X Nat
    <3>1. PICK r, s, t \in Nat : Remaining = <<PhasesLeft, r, s, t>>
      BY <1>1, PhasesFirst, Zenon DEF BeginsWithPhases
    <3>2. PhasesLeft \in Nat
      BY <1>1, PhasesFirst, Zenon DEF BeginsWithPhases
    <3> QED
      BY <3>1, <3>2
  <2>2. SliceEnds => phase' \in {"next", "slice"}
    BY Zenon DEF SliceEnds
  <2> QED
    BY <1>1, <2>1, <2>2, ExtractAdvances, SliceAdvances, PhaseAdvances, Zenon
    DEF GeneratorNext, Advances
<1>2. GeneratorInv /\ GeneratorInv' /\ [GeneratorNext]_generatorVars =>
        [PositiveGranularity => Advances]_generatorVars
  <2>1. ASSUME GeneratorInv, GeneratorInv', GeneratorNext, PositiveGranularity
        PROVE  Advances
    <3>1. PositiveGranularity'
      BY <2>1, SameRequest, Zenon
    <3> QED
      BY <1>1, <2>1, <3>1, Zenon DEF GeneratorInv
  <2> QED
    BY <2>1, Zenon
<1> QED
  BY <1>2, GeneratorInvariance, PTL DEF GeneratorSpec, StepsAdvance
=============================================================================
