--------------------------- MODULE CalendarProofs ---------------------------
(***************************************************************************)
(* A time of nanoseconds taken apart into year, day and time of day, and   *)
(* put together again, is the time it was: for every count of nanoseconds, *)
(* before 1970 as after it, and whatever the parts of a day are; and so is *)
(* one kept in tenths of milliseconds, but for what is less than a tenth.  *)
(***************************************************************************)
EXTENDS Calendar, SequenceTheorems, FiniteSetTheorems, WellFoundedInduction, TLAPS

-----------------------------------------------------------------------------
(* Least and greatest numbers *)

LEMMA LeastOne ==
    ASSUME NEW S, S \subseteq Nat, S # {}
    PROVE  \E n \in S : \A m \in S : n <= m
<1> DEFINE Less == {z \in Nat \X Nat : z[1] < z[2]}
<1>1. IsWellFoundedOn(Less, Nat)
  BY NatLessThanWellFounded, Zenon DEF OpToRel
<1> HIDE DEF Less
<1>2. PICK x \in S : \A y \in S : ~ (<<y, x>> \in Less)
  BY <1>1, WFMin, Zenon
<1>3. ASSUME NEW y \in S
      PROVE  x <= y
  <2>1. <<y, x>> \in Less <=> y < x
    BY DEF Less
  <2> QED
    BY <1>2, <2>1
<1> QED
  BY <1>3

LEMMA MaxIs ==
    ASSUME NEW m \in Nat, NEW S, S \subseteq 0..m, NEW z \in S
    PROVE  Max(S) \in S /\ z <= Max(S)
<1> DEFINE T == {m - d : d \in S}
<1>1. T \subseteq Nat
  OBVIOUS
<1>2. T # {}
  OBVIOUS
<1> HIDE DEF T
<1>3. PICK t \in T : \A u \in T : t <= u
  BY <1>1, <1>2, LeastOne
<1>4. PICK x \in S : t = m - x
  BY <1>3 DEF T
<1>5. ASSUME NEW y \in S PROVE x >= y
  <2>1. t <= m - y /\ x \in 0..m /\ y \in 0..m
    BY <1>3 DEF T
  <2> QED
    BY <1>4, <2>1
<1>6. Max(S) \in S /\ \A y \in S : Max(S) >= y
  BY <1>5, Zenon DEF Max
<1>7. Max(S) \in 0..m /\ z \in 0..m /\ Max(S) >= z
  BY <1>6
<1> QED
  BY <1>6, <1>7

-----------------------------------------------------------------------------
(* Years *)

\* Leap years from year 1 to year y, and days to the end of it.
Leaps(y) == (y \div 4) - (y \div 100) + (y \div 400)
DaysTo(y) == 365 * y + Leaps(y)

\* One year more is a leap year or not.
LEMMA LeapsNext ==
    ASSUME NEW y \in Int
    PROVE  Leaps(y) = Leaps(y - 1) + LeapYear(y) /\ Leaps(y) \in Int /\ LeapYear(y) \in {0, 1}
<1>1. (y \div 4) - ((y - 1) \div 4) = IF y % 4 = 0 THEN 1 ELSE 0
  OBVIOUS
<1>2. (y \div 100) - ((y - 1) \div 100) = IF y % 100 = 0 THEN 1 ELSE 0
  OBVIOUS
<1>3. (y \div 400) - ((y - 1) \div 400) = IF y % 400 = 0 THEN 1 ELSE 0
  OBVIOUS
<1>4. (y % 400 = 0 => y % 100 = 0) /\ (y % 100 = 0 => y % 4 = 0)
  OBVIOUS
<1> QED
  BY <1>1, <1>2, <1>3, <1>4 DEF Leaps, LeapYear

LEMMA LeapCount ==
    ASSUME NEW from \in Int, NEW k \in Nat
    PROVE  Cardinality({y \in from..(from + k - 1) : LeapYear(y) = 1})
               = Leaps(from + k - 1) - Leaps(from - 1)
<1> DEFINE S(m) == {y \in from..(from + m - 1) : LeapYear(y) = 1}
           Right(m) == IsFiniteSet(S(m)) /\ Cardinality(S(m)) = Leaps(from + m - 1) - Leaps(from - 1)
           Wrong == {m \in Nat : ~Right(m)}
<1>1. SUFFICES ASSUME Wrong # {} PROVE FALSE
  BY Zenon
<1>2. PICK m \in Wrong : \A n \in Wrong : m <= n
  <2> HIDE DEF Right
  <2>1. Wrong \subseteq Nat
    OBVIOUS
  <2> HIDE DEF Wrong
  <2> QED
    BY <1>1, <2>1, LeastOne
<1>3. m \in Nat /\ ~Right(m)
  BY <1>2, Zenon
<1>4. Right(0)
  <2>1. S(0) = {}
    OBVIOUS
  <2>2. Leaps(from + 0 - 1) - Leaps(from - 1) = 0
    BY LeapsNext
  <2> QED
    BY <2>1, <2>2, FS_EmptySet
<1>5. m # 0
  BY <1>3, <1>4
<1>6. Right(m - 1)
  <2> HIDE DEF Right
  <2>1. m - 1 \in Nat /\ ~(m <= m - 1)
    BY <1>3, <1>5
  <2> QED
    BY <1>2, <2>1
<1> DEFINE y == from + m - 1
<1>7. y \in Int /\ from + (m - 1) - 1 = y - 1
  BY <1>3
<1>8. S(m) = IF LeapYear(y) = 1 THEN S(m - 1) \union {y} ELSE S(m - 1)
  BY <1>3, <1>5
<1>9. y \notin S(m - 1)
  BY <1>3
<1>10. Leaps(y) = Leaps(y - 1) + LeapYear(y) /\ LeapYear(y) \in {0, 1} /\ Leaps(y - 1) \in Int
  BY <1>7, LeapsNext
<1>11. IsFiniteSet(S(m - 1)) /\ Cardinality(S(m - 1)) = Leaps(y - 1) - Leaps(from - 1)
  BY <1>6, <1>7
<1>12. Leaps(from - 1) \in Int
  BY LeapsNext
<1> DEFINE c == Leaps(from - 1)  l == Leaps(y)  l1 == Leaps(y - 1)
<1>13. IsFiniteSet(S(m)) /\ Cardinality(S(m)) = l - c
  <2>1. /\ IsFiniteSet(S(m - 1) \union {y})
        /\ Cardinality(S(m - 1) \union {y}) = Cardinality(S(m - 1)) + 1
    BY <1>9, <1>11, FS_AddElement, Zenon
  <2> HIDE DEF S, c, l, l1, y
  <2>2. l = l1 + LeapYear(y) /\ LeapYear(y) \in {0, 1} /\ l1 \in Int /\ c \in Int
    BY <1>10, <1>12 DEF l, l1, c
  <2>3. IsFiniteSet(S(m - 1)) /\ Cardinality(S(m - 1)) = l1 - c
    BY <1>11 DEF l1, c
  <2>4. CASE LeapYear(y) = 1
    BY <1>8, <2>1, <2>2, <2>3, <2>4
  <2>5. CASE LeapYear(y) = 0
    BY <1>8, <2>2, <2>3, <2>5
  <2> QED
    BY <2>2, <2>4, <2>5
<1> QED
  BY <1>3, <1>13

\* The days after year x to the end of year y: 365 or 366 for each.
AreBetween(x, y) ==
    /\ DaysOfYears(x + 1, y) = DaysTo(y) - DaysTo(x)
    /\ DaysTo(x) \in Int /\ DaysTo(y) \in Int
    /\ DaysTo(y) - DaysTo(x) \in 365 * (y - x) .. 366 * (y - x)

LEMMA BetweenYears ==
    ASSUME NEW x \in Int, NEW y \in Int, x <= y
    PROVE  AreBetween(x, y)
<1> DEFINE k == y - x
           from == x + 1
           S == {z \in from..y : LeapYear(z) = 1}
<1>1. k \in Nat /\ from \in Int /\ from + k - 1 = y /\ from - 1 = x /\ y - from + 1 = k
  OBVIOUS
<1>2. Cardinality(S) = Leaps(y) - Leaps(x)
  <2> HIDE DEF k, from
  <2>1. Cardinality({z \in from..(from + k - 1) : LeapYear(z) = 1})
            = Leaps(from + k - 1) - Leaps(from - 1)
    BY <1>1, LeapCount
  <2> QED
    BY <1>1, <2>1
<1>3. Cardinality(S) \in 0..k
  <2>1. IsFiniteSet(from..y) /\ Cardinality(from..y) = k
    <3> HIDE DEF from, k
    <3>1. IsFiniteSet(from..y) /\ Cardinality(from..y) = IF from > y THEN 0 ELSE y-from+1
      BY <1>1, FS_Interval
    <3> QED
      BY <1>1, <3>1
  <2>2. S \in SUBSET (from..y)
    OBVIOUS
  <2> HIDE DEF S
  <2>3. IsFiniteSet(S) /\ Cardinality(S) <= k
    BY <2>1, <2>2, FS_Subset
  <2>4. Cardinality(S) \in Nat
    BY <2>3, FS_CardinalityType
  <2> QED
    BY <2>3, <2>4
<1>4. Leaps(y) \in Int /\ Leaps(x) \in Int
  BY LeapsNext
<1>5. DaysOfYears(x + 1, y) = 365 * k + Cardinality(S)
  BY DEF DaysOfYears
<1> HIDE DEF S
<1> QED
  BY <1>2, <1>3, <1>4, <1>5 DEF DaysTo, AreBetween

\* A cycle of 400 years, and the days of 1970 to 2007.
LEMMA CyclesAre ==
    ASSUME NEW y \in Int, NEW q \in Int
    PROVE  DaysTo(y + 400 * q) = DaysTo(y) + q * CycleDays
  BY DEF DaysTo, Leaps, CycleDays
LEMMA CheatIs == DaysTo(2007) = DaysTo(1969) + CheatDays /\ DaysTo(1969) = 719162
  BY DEF DaysTo, Leaps, CheatDays

\* A year of the length its number says.
LEMMA LengthIs ==
    ASSUME NEW y \in Int
    PROVE  DaysTo(y) = DaysTo(y - 1) + YearLength(y) /\ DaysTo(y) \in Int /\ YearLength(y) \in {365, 366}
<1>1. Leaps(y) = Leaps(y - 1) + LeapYear(y) /\ Leaps(y) \in Int /\ Leaps(y - 1) \in Int
      /\ LeapYear(y) \in {0, 1}
  BY LeapsNext
<1> QED
  BY <1>1 DEF DaysTo, YearLength

\* The year with day m, counted from the beginning of a year or, as -1 for the
\* last day, from its end, and the day in it: the search finds one.
LEMMA YearsUpAre ==
    ASSUME NEW m \in Nat, NEW year \in Int
    PROVE  LET found == YearsUp(m, year)
           IN  \E y \in Int : \E d \in 0..YearLength(y) - 1 :
                  found = <<y, d>> /\ DaysTo(y - 1) + d = DaysTo(year - 1) + m
<1> DEFINE T == {k \in Nat : DaysTo(year + k) - DaysTo(year - 1) > m}
<1>1. T # {}
  <2>1. DaysTo(year + m) - DaysTo(year - 1) >= 365 * (m + 1)
    <3> DEFINE z == year + m  w == year - 1
    <3>1. z \in Int /\ w \in Int /\ w <= z /\ z - w = m + 1
      OBVIOUS
    <3> HIDE DEF z, w
    <3>2. AreBetween(w, z)
      BY <3>1, BetweenYears
    <3>3. DaysTo(z) - DaysTo(w) >= 365 * (m + 1)
      BY <3>1, <3>2 DEF AreBetween
    <3> QED
      BY <3>3 DEF z, w
  <2>2. 365 * (m + 1) > m /\ year + m \in Int /\ year - 1 \in Int
    OBVIOUS
  <2>3. DaysTo(year + m) \in Int /\ DaysTo(year - 1) \in Int
    BY <2>2, LengthIs
  <2>4. DaysTo(year + m) - DaysTo(year - 1) > m
    BY <2>1, <2>2, <2>3
  <2> QED
    BY <2>4
<1>2. PICK k \in T : \A j \in T : k <= j
  <2>1. T \subseteq Nat
    OBVIOUS
  <2> HIDE DEF T
  <2> QED
    BY <1>1, <2>1, LeastOne
<1> DEFINE y == year + k
           d == m - DaysOfYears(year, y - 1)
<1>3. y \in Int /\ k \in Nat /\ DaysTo(y) - DaysTo(year - 1) > m
  BY <1>2
<1>4. DaysTo(y - 1) - DaysTo(year - 1) <= m
  <2>1. CASE k = 0
    BY <2>1, LengthIs
  <2>2. CASE k > 0
    <3>1. k - 1 \in Nat /\ ~(k <= k - 1) /\ year + (k - 1) = y - 1
      BY <1>3, <2>2
    <3>2. k - 1 \notin T
      <4> HIDE DEF T
      <4> QED
        BY <1>2, <3>1
    <3>3. ~(DaysTo(y - 1) - DaysTo(year - 1) > m)
      BY <3>1, <3>2
    <3> QED
      BY <3>3, <1>3, LengthIs
  <2> QED
    BY <1>3, <2>1, <2>2
<1>5. /\ DaysOfYears(year, y - 1) = DaysTo(y - 1) - DaysTo(year - 1)
      /\ DaysTo(y - 1) - DaysTo(year - 1) \in 365 * k .. 366 * k
      /\ DaysTo(y) - DaysTo(year - 1) \in 365 * (k + 1) .. 366 * (k + 1)
      /\ DaysTo(y) = DaysTo(y - 1) + YearLength(y)
      /\ DaysTo(y) \in Int /\ DaysTo(y - 1) \in Int /\ DaysTo(year - 1) \in Int
  <2> DEFINE w == year - 1  z == y - 1
  <2>1. z \in Int /\ w \in Int /\ w <= z /\ w <= y /\ z - w = k /\ y - w = k + 1 /\ w + 1 = year
    BY <1>3
  <2> HIDE DEF y, w, z
  <2>2. AreBetween(w, z) /\ AreBetween(w, y)
    BY <1>3, <2>1, BetweenYears
  <2>3. DaysTo(y) = DaysTo(y - 1) + YearLength(y) /\ DaysTo(z) \in Int
    BY <1>3, <2>1, LengthIs
  <2>4. DaysOfYears(w + 1, z) = DaysTo(z) - DaysTo(w)
    BY <2>2 DEF AreBetween
  <2>5. DaysTo(z) - DaysTo(w) \in 365 * k .. 366 * k /\ DaysTo(y) - DaysTo(w) \in 365 * (k + 1) .. 366 * (k + 1)
    BY <2>1, <2>2 DEF AreBetween
  <2>6. DaysTo(w) \in Int /\ DaysTo(y) \in Int
    BY <2>2 DEF AreBetween
  <2> QED
    BY <2>1, <2>3, <2>4, <2>5, <2>6 DEF w, z
<1>6. k \in m \div 366 .. m \div 365 /\ d \in 0..YearLength(y) - 1
  <2> HIDE DEF y, T
  <2>1. d = m - (DaysTo(y - 1) - DaysTo(year - 1))
    BY <1>5
  <2> DEFINE a == DaysTo(y - 1)  b == DaysTo(year - 1)  l == YearLength(y)
  <2>3. l \in Int /\ a \in Int /\ b \in Int
    BY LengthIs, <1>3, <1>5
  <2>5. /\ a - b \in 365 * k .. 366 * k /\ DaysTo(y) - b \in 365 * (k + 1) .. 366 * (k + 1)
        /\ DaysTo(y) = a + l /\ DaysTo(y) - b > m /\ a - b <= m
    BY <1>3, <1>4, <1>5
  <2> HIDE DEF a, b, l, d
  <2>2. /\ d = m - (a - b) /\ a - b <= m /\ a + l - b > m
        /\ 365 * k <= a - b /\ a + l - b <= 366 * (k + 1)
    BY <1>3, <2>1, <2>3, <2>5 DEF a, b
  <2>4. 365 * k <= m /\ m < 366 * (k + 1) /\ d \in 0..l - 1
    BY <1>3, <2>2, <2>3
  <2> QED
    BY <1>3, <2>4 DEF l
<1> DEFINE S == {<<z, m - DaysOfYears(year, z - 1)>> : z \in year + (m \div 366) .. year + (m \div 365)}
           found == YearsUp(m, year)
<1>7. <<y, d>> \in S /\ <<y, d>>[2] \in 0..YearLength(<<y, d>>[1]) - 1
  <2>1. y \in year + (m \div 366) .. year + (m \div 365)
    BY <1>3, <1>6
  <2> QED
    BY <1>6, <2>1
<1>8. found \in S /\ found[2] \in 0..YearLength(found[1]) - 1
  <2>1. found = CHOOSE f \in S : f[2] \in 0..YearLength(f[1]) - 1
    BY Zenon DEF YearsUp
  <2> HIDE DEF S, found
  <2> QED
    BY <1>7, <2>1, Zenon
<1>9. PICK z \in year + (m \div 366) .. year + (m \div 365) :
          found = <<z, m - DaysOfYears(year, z - 1)>>
  <2> HIDE DEF found
  <2> QED
    BY <1>8
<1>10. z \in Int /\ year <= z
  BY <1>9
<1>11. DaysOfYears(year, z - 1) = DaysTo(z - 1) - DaysTo(year - 1) /\ DaysTo(z - 1) \in Int
       /\ DaysTo(year - 1) \in Int
  <2> DEFINE w == year - 1  v == z - 1
  <2>1. v \in Int /\ w \in Int /\ w <= v /\ w + 1 = year
    BY <1>10
  <2> HIDE DEF w, v
  <2>2. AreBetween(w, v)
    BY <2>1, BetweenYears
  <2>3. DaysOfYears(w + 1, v) = DaysTo(v) - DaysTo(w) /\ DaysTo(v) \in Int /\ DaysTo(w) \in Int
    BY <2>2 DEF AreBetween
  <2> QED
    BY <2>1, <2>3 DEF w, v
<1>12. found[1] = z /\ found[2] = m - (DaysTo(z - 1) - DaysTo(year - 1))
  <2> HIDE DEF found
  <2> QED
    BY <1>9, <1>11
<1>13. m - (DaysTo(z - 1) - DaysTo(year - 1)) \in 0..YearLength(z) - 1
  BY <1>8, <1>12
<1> HIDE DEF found
<1>14. found = <<z, m - (DaysTo(z - 1) - DaysTo(year - 1))>>
  BY <1>9, <1>11
<1>15. DaysTo(z - 1) + (m - (DaysTo(z - 1) - DaysTo(year - 1))) = DaysTo(year - 1) + m
  BY <1>11
<1> QED
  BY <1>10, <1>13, <1>14, <1>15 DEF found

LEMMA YearsDownAre ==
    ASSUME NEW m \in Int, m < 0, NEW year \in Int
    PROVE  LET found == YearsDown(m, year)
           IN  \E y \in Int : \E d \in -YearLength(y)..-1 :
                  found = <<y, d>> /\ DaysTo(y) + d = DaysTo(year) + m
<1> DEFINE n == -m - 1
           T == {k \in Nat : DaysTo(year) - DaysTo(year - k - 1) > n}
<1>0. n \in Nat /\ m = -n - 1
  OBVIOUS
<1>1. T # {}
  <2>1. DaysTo(year) - DaysTo(year - n - 1) >= 365 * (n + 1)
    <3> DEFINE w == year - n - 1
    <3>1. w \in Int /\ w <= year /\ year - w = n + 1
      BY <1>0
    <3> HIDE DEF w, n
    <3>2. AreBetween(w, year)
      BY <3>1, BetweenYears
    <3>3. DaysTo(year) - DaysTo(w) >= 365 * (n + 1)
      BY <1>0, <3>1, <3>2 DEF AreBetween
    <3> QED
      BY <3>3 DEF w
  <2> HIDE DEF n
  <2>2. 365 * (n + 1) > n /\ year - n - 1 \in Int
    BY <1>0
  <2>3. DaysTo(year - n - 1) \in Int /\ DaysTo(year) \in Int
    BY <2>2, LengthIs
  <2>4. DaysTo(year) - DaysTo(year - n - 1) > n
    BY <1>0, <2>1, <2>2, <2>3
  <2> QED
    BY <1>0, <2>4
<1>2. PICK k \in T : \A j \in T : k <= j
  <2>1. T \subseteq Nat
    OBVIOUS
  <2> HIDE DEF T
  <2> QED
    BY <1>1, <2>1, LeastOne
<1> DEFINE y == year - k
           d == m + DaysOfYears(y + 1, year)
<1>3. y \in Int /\ k \in Nat /\ DaysTo(year) - DaysTo(y - 1) > n
  BY <1>2
<1>4. DaysTo(year) - DaysTo(y) <= n
  <2>1. CASE k = 0
    BY <1>0, <2>1, LengthIs
  <2>2. CASE k > 0
    <3>1. k - 1 \in Nat /\ ~(k <= k - 1) /\ year - (k - 1) - 1 = y
      BY <1>3, <2>2
    <3>2. k - 1 \notin T
      <4> HIDE DEF T
      <4> QED
        BY <1>2, <3>1
    <3>3. ~(DaysTo(year) - DaysTo(y) > n)
      BY <3>1, <3>2
    <3> QED
      BY <3>3, <1>0, <1>3, LengthIs
  <2> QED
    BY <1>3, <2>1, <2>2
<1>5. /\ DaysOfYears(y + 1, year) = DaysTo(year) - DaysTo(y)
      /\ DaysTo(year) - DaysTo(y) \in 365 * k .. 366 * k
      /\ DaysTo(year) - DaysTo(y - 1) \in 365 * (k + 1) .. 366 * (k + 1)
      /\ DaysTo(y) = DaysTo(y - 1) + YearLength(y)
      /\ DaysTo(y) \in Int /\ DaysTo(y - 1) \in Int /\ DaysTo(year) \in Int
  <2> DEFINE w == y - 1
  <2>1. w \in Int /\ y <= year /\ w <= year /\ year - y = k /\ year - w = k + 1
    BY <1>3
  <2> HIDE DEF y, w
  <2>2. AreBetween(y, year) /\ AreBetween(w, year)
    BY <1>3, <2>1, BetweenYears
  <2>3. DaysTo(y) = DaysTo(y - 1) + YearLength(y)
    BY <1>3, LengthIs
  <2>4. DaysOfYears(y + 1, year) = DaysTo(year) - DaysTo(y)
    BY <2>2 DEF AreBetween
  <2>5. /\ DaysTo(year) - DaysTo(y) \in 365 * k .. 366 * k
        /\ DaysTo(year) - DaysTo(w) \in 365 * (k + 1) .. 366 * (k + 1)
    BY <2>1, <2>2 DEF AreBetween
  <2>6. DaysTo(y) \in Int /\ DaysTo(year) \in Int /\ DaysTo(w) \in Int
    BY <2>2 DEF AreBetween
  <2> QED
    BY <2>1, <2>3, <2>4, <2>5, <2>6 DEF w
<1>6. k \in n \div 366 .. n \div 365 /\ d \in -YearLength(y)..-1
  <2> HIDE DEF y, T, n
  <2>1. d = -n - 1 + (DaysTo(year) - DaysTo(y))
    BY <1>0, <1>5
  <2> DEFINE a == DaysTo(y)  b == DaysTo(year)  l == YearLength(y)
  <2>2. /\ a \in Int /\ b \in Int /\ d = -n - 1 + (b - a) /\ b - a <= n /\ b - (a - l) > n
        /\ 365 * k <= b - a /\ b - (a - l) <= 366 * (k + 1)
    BY <1>3, <1>4, <1>5, <2>1, LengthIs
  <2>3. l \in Int
    BY LengthIs, <1>3
  <2> HIDE DEF a, b, l, d
  <2>4. 365 * k <= n /\ n < 366 * (k + 1) /\ d \in -l..-1
    BY <1>0, <1>3, <2>2, <2>3
  <2> QED
    BY <1>0, <1>3, <2>4 DEF l
<1> DEFINE S == {<<z, m + DaysOfYears(z + 1, year)>> :
                    z \in year - ((-m - 1) \div 365) .. year - ((-m - 1) \div 366)}
           found == YearsDown(m, year)
<1>7. <<y, d>> \in S /\ <<y, d>>[2] \in -YearLength(<<y, d>>[1])..-1
  <2>1. y \in year - ((-m - 1) \div 365) .. year - ((-m - 1) \div 366)
    BY <1>3, <1>6
  <2> QED
    BY <1>6, <2>1
<1>8. found \in S /\ found[2] \in -YearLength(found[1])..-1
  <2>1. found = CHOOSE f \in S : f[2] \in -YearLength(f[1])..-1
    BY Zenon DEF YearsDown
  <2> HIDE DEF S, found
  <2> QED
    BY <1>7, <2>1, Zenon
<1>9. PICK z \in year - ((-m - 1) \div 365) .. year - ((-m - 1) \div 366) :
          found = <<z, m + DaysOfYears(z + 1, year)>>
  <2> HIDE DEF found
  <2> QED
    BY <1>8
<1>10. z \in Int /\ z + 1 <= year + 1
  BY <1>9
<1>11. DaysOfYears(z + 1, year) = DaysTo(year) - DaysTo(z) /\ DaysTo(z) \in Int /\ DaysTo(year) \in Int
  <2>1. z <= year
    BY <1>10
  <2>2. AreBetween(z, year)
    BY <1>10, <2>1, BetweenYears
  <2> QED
    BY <2>2 DEF AreBetween
<1>12. found[1] = z /\ found[2] = m + (DaysTo(year) - DaysTo(z))
  <2> HIDE DEF found
  <2> QED
    BY <1>9, <1>11
<1>13. m + (DaysTo(year) - DaysTo(z)) \in -YearLength(z)..-1
  BY <1>8, <1>12
<1> HIDE DEF found
<1>14. found = <<z, m + (DaysTo(year) - DaysTo(z))>>
  BY <1>9, <1>11
<1>15. DaysTo(z) + (m + (DaysTo(year) - DaysTo(z))) = DaysTo(year) + m
  BY <1>11
<1> QED
  BY <1>10, <1>13, <1>14, <1>15 DEF found

\* The month of day m of a year and the day of it make up the day.
Dated(date, y, d) ==
    /\ date[1] = y
    /\ JulianDays(LeapYear(y), date[2]) + date[3] = d

LEMMA MonthsAre ==
    ASSUME NEW y \in Int, NEW d \in Nat
    PROVE  Dated(<<y>> \o MonthsUp(d, LeapYear(y)), y, d)
<1> DEFINE S == {x \in 0..11 : JulianDays(LeapYear(y), x) <= d}
           mon == Max(S)
           j == JulianDays(LeapYear(y), mon)
<1>1. LeapYear(y) \in {0, 1}
  BY LeapsNext
<1>2. S \subseteq 0..11 /\ 0 \in S
  BY DEF JulianDays
<1>3. mon \in 0..11
  <2> HIDE DEF S
  <2>1. Max(S) \in S
    BY <1>2, MaxIs
  <2> QED
    BY <1>2, <2>1
<1>4. j \in Int
  <2> HIDE DEF mon
  <2> QED
    BY <1>1, <1>3 DEF JulianDays
<1>5. MonthsUp(d, LeapYear(y)) = <<mon, d - j>>
  BY Zenon DEF MonthsUp
<1> DEFINE e == d - j
           u == <<y>> \o <<mon, e>>
<1>6. u[1] = y /\ u[2] = mon /\ u[3] = e
  <2> HIDE DEF mon, e
  <2>1. <<y>> \in Seq({y, mon, e}) /\ <<mon, e>> \in Seq({y, mon, e})
    OBVIOUS
  <2>2. Len(<<y>>) = 1 /\ Len(<<mon, e>>) = 2
    OBVIOUS
  <2>3. \A x \in 1..3 : u[x] = IF x <= 1 THEN <<y>>[x] ELSE <<mon, e>>[x - 1]
    BY <2>1, <2>2, ConcatProperties
  <2> QED
    BY <2>3
<1>7. JulianDays(LeapYear(y), mon) + e = d
  <2> HIDE DEF mon
  <2> QED
    BY <1>4
<1> HIDE DEF u
<1>8. Dated(u, y, d)
  BY <1>6, <1>7, Zenon DEF Dated
<1> QED
  BY <1>5, <1>8 DEF u

\* The date of a day counted from 1970.
LEMMA DateIs ==
    ASSUME NEW day \in Int
    PROVE  \E y \in Int : \E d \in 0..YearLength(y) - 1 :
              Dated(DateOf(day), y, d) /\ DaysTo(y - 1) + d = DaysTo(1969) + day
<1> DEFINE Found(date, days) ==
        \E y \in Int : \E d \in 0..YearLength(y) - 1 :
            Dated(date, y, d) /\ DaysTo(y - 1) + d = days
<1> SUFFICES Found(DateOf(day), DaysTo(1969) + day)
  BY Zenon
<1>1. ASSUME NEW m \in Nat, NEW year \in Int
      PROVE  Found(FromStart(YearsUp(m, year)), DaysTo(year - 1) + m)
  <2>1. PICK y \in Int : \E d \in 0..YearLength(y) - 1 :
            YearsUp(m, year) = <<y, d>> /\ DaysTo(y - 1) + d = DaysTo(year - 1) + m
    BY YearsUpAre
  <2>2. PICK d \in 0..YearLength(y) - 1 :
            YearsUp(m, year) = <<y, d>> /\ DaysTo(y - 1) + d = DaysTo(year - 1) + m
    BY <2>1
  <2>3. d \in Nat
    BY LengthIs
  <2>4. FromStart(YearsUp(m, year)) = <<y>> \o MonthsUp(d, LeapYear(y))
    BY <2>2 DEF FromStart
  <2> QED
    BY <2>2, <2>3, <2>4, MonthsAre
<1>2. ASSUME NEW m \in Int, m < 0, NEW year \in Int
      PROVE  Found(FromEnd(YearsDown(m, year)), DaysTo(year) + m)
  <2>1. PICK y \in Int : \E d \in -YearLength(y)..-1 :
            YearsDown(m, year) = <<y, d>> /\ DaysTo(y) + d = DaysTo(year) + m
    BY <1>2, YearsDownAre
  <2>2. PICK d \in -YearLength(y)..-1 :
            YearsDown(m, year) = <<y, d>> /\ DaysTo(y) + d = DaysTo(year) + m
    BY <2>1
  <2> DEFINE e == d + 365 + LeapYear(y)
  <2>3. /\ e \in 0..YearLength(y) - 1 /\ e \in Nat
        /\ DaysTo(y - 1) + e = DaysTo(y) + d
    <3>1. /\ DaysTo(y) = DaysTo(y - 1) + YearLength(y) /\ DaysTo(y) \in Int
          /\ YearLength(y) \in {365, 366}
      BY LengthIs
    <3>2. YearLength(y) = 365 + LeapYear(y) /\ LeapYear(y) \in {0, 1} /\ DaysTo(y - 1) \in Int
      BY LeapsNext, LengthIs DEF YearLength
    <3> QED
      BY <3>1, <3>2
  <2>4. FromEnd(YearsDown(m, year)) = <<y>> \o MonthsUp(e, LeapYear(y))
    BY <2>2 DEF FromEnd, MonthsDown
  <2> HIDE DEF e
  <2>5. Dated(FromEnd(YearsDown(m, year)), y, e)
    BY <2>3, <2>4, MonthsAre
  <2>6. DaysTo(y - 1) + e = DaysTo(year) + m
    BY <2>2, <2>3
  <2> QED
    BY <2>3, <2>5, <2>6
<1> HIDE DEF Found
<1>3. CycleDays = 146097
  BY DEF CycleDays
<1>4. ASSUME NEW n \in Int, NEW before \in Int
      PROVE  Found(UpFrom(n, before + 1), DaysTo(before) + n)
  <2> DEFINE q == n \div CycleDays  m == n % CycleDays
             year == before + 1 + 400 * q
  <2>1. q \in Int /\ m \in Nat /\ n = q * CycleDays + m /\ year \in Int /\ year - 1 = before + 400 * q
    BY <1>3
  <2>2. UpFrom(n, before + 1) = FromStart(YearsUp(m, year))
    BY DEF UpFrom
  <2> HIDE DEF q, m, year
  <2>3. DaysTo(before + 400 * q) = DaysTo(before) + q * CycleDays
    BY <2>1, CyclesAre, Zenon
  <2>6. DaysTo(before) \in Int
    BY LengthIs
  <2>4. DaysTo(year - 1) + m = DaysTo(before) + n
    BY <1>3, <2>1, <2>3, <2>6
  <2>5. Found(FromStart(YearsUp(m, year)), DaysTo(year - 1) + m)
    BY <1>1, <2>1
  <2> QED
    BY <2>2, <2>4, <2>5
<1>5. CASE day >= CheatDays
  <2> DEFINE n == day - CheatDays
  <2>1. n \in Int /\ 2007 + 1 = 2008 /\ DateOf(day) = UpFrom(n, 2008)
    BY <1>5 DEF DateOf, CheatDays
  <2>2. DaysTo(2007) + n = DaysTo(1969) + day
    BY CheatIs DEF CheatDays
  <2> HIDE DEF n
  <2>3. Found(UpFrom(n, 2007 + 1), DaysTo(2007) + n)
    BY <1>4, <2>1
  <2> QED
    BY <2>1, <2>2, <2>3
<1>6. CASE day < CheatDays /\ day >= 0
  <2>1. 1969 + 1 = 1970 /\ DateOf(day) = UpFrom(day, 1970)
    BY <1>6 DEF DateOf, CheatDays
  <2>2. Found(UpFrom(day, 1969 + 1), DaysTo(1969) + day)
    BY <1>4
  <2> QED
    BY <2>1, <2>2
<1>7. CASE day < 0
  <2> DEFINE c == CQuot(day, CycleDays) + 1
             m == day - c * CycleDays
             year == 1969 + 400 * c
  <2>1. DateOf(day) = FromEnd(YearsDown(m, year))
    BY <1>7 DEF DateOf, DownFrom, CheatDays
  <2>2. c \in Int /\ m \in Int /\ m < 0 /\ year \in Int /\ m = day - c * CycleDays /\ year = 1969 + 400 * c
    BY <1>3, <1>7 DEF CQuot
  <2> HIDE DEF c, m, year
  <2>3. DaysTo(1969 + 400 * c) = DaysTo(1969) + c * CycleDays
    BY <2>2, CyclesAre
  <2>4. DaysTo(year) + m = DaysTo(1969) + day
    BY <1>3, <2>2, <2>3, CheatIs
  <2>5. Found(FromEnd(YearsDown(m, year)), DaysTo(year) + m)
    BY <1>2, <2>2
  <2> QED
    BY <2>1, <2>4, <2>5
<1> QED
  <2>1. day >= CheatDays \/ (day < CheatDays /\ day >= 0) \/ day < 0
    BY DEF CheatDays
  <2> QED
    BY <1>5, <1>6, <1>7, <2>1

LEMMA SinceIs ==
    ASSUME NEW year \in Int, NEW yday \in Int
    PROVE  DaysSince1970(year, yday) = DaysTo(year - 1) - DaysTo(1969) + (yday - 1)
<1> DEFINE short == year - 1900
           a4 == (short \div 4) + 475 - (IF short % 4 = 0 THEN 1 ELSE 0)
           a100 == CQuot(a4, 25) - Borrow(CRem(a4, 25))
           p == year - 1
<1>1. a4 = p \div 4 /\ a4 \in Int
  OBVIOUS
<1>2. a100 = a4 \div 25
  <2> HIDE DEF a4
  <2> QED
    BY <1>1 DEF CQuot, CRem, Borrow
<1>3. (p \div 4) \div 25 = p \div 100 /\ (p \div 100) \div 4 = p \div 400
  OBVIOUS
<1>4. DaysSince1970(year, yday)
        = 365 * (short - 70) + (a4 - 492) - (a100 - 19) + ((a100 \div 4) - 4) + (yday - 1)
  BY DEF DaysSince1970
<1>5. a100 = p \div 100 /\ a100 \div 4 = p \div 400
  BY <1>1, <1>2, <1>3
<1> HIDE DEF a4, a100
<1>6. DaysSince1970(year, yday)
        = 365 * (short - 70) + ((p \div 4) - 492) - ((p \div 100) - 19) + ((p \div 400) - 4) + (yday - 1)
  BY <1>1, <1>4, <1>5
<1>7. DaysTo(p) = 365 * p + ((p \div 4) - (p \div 100) + (p \div 400))
  BY DEF DaysTo, Leaps
<1>8. DaysTo(1969) = 719162
  BY CheatIs
<1> QED
  BY <1>6, <1>7, <1>8

-----------------------------------------------------------------------------
(* Parts of a day *)

\* Division towards zero, the remainder less what was borrowed from it, which
\* borrows in turn when it is below zero.
LEMMA PartIs ==
    ASSUME NEW a \in Int, NEW u \in Nat \ {0}, NEW b \in {0, 1}
    PROVE  LET v == CRem(a, u) - b
           IN  /\ (CQuot(a, u) - Borrow(v)) * u + Borrowed(v, u) = a - b
               /\ Borrowed(v, u) \in 0..u - 1
               /\ CQuot(a, u) \in Int /\ Borrow(v) \in {0, 1}
<1> DEFINE q == CQuot(a, u)  r == CRem(a, u)  v == r - b
<1>1. q \in Int /\ r \in Int /\ a = u * q + r /\ r \in -(u - 1)..u - 1
  <2>1. CASE a >= 0
    <3>1. a \div u \in Int /\ a % u \in 0..u - 1 /\ a = u * (a \div u) + (a % u)
      OBVIOUS
    <3>2. q = a \div u /\ r = a - u * (a \div u)
      BY <2>1 DEF CQuot, CRem
    <3> HIDE DEF q, r
    <3> QED
      BY <3>1, <3>2
  <2>2. CASE a < 0
    <3> DEFINE n == -a  d == n \div u
    <3>1. n \in Int /\ a = -n
      OBVIOUS
    <3>2. d \in Int /\ n % u \in 0..u - 1 /\ n = u * d + (n % u)
      <4> HIDE DEF n
      <4> QED
        BY <3>1
    <3>3. q = -d /\ r = a - u * (-d)
      BY <2>2 DEF CQuot, CRem
    <3> HIDE DEF n, d, q, r
    <3>4. u * (-d) = -(u * d)
      BY <3>2
    <3> QED
      BY <3>1, <3>2, <3>3, <3>4
  <2> QED
    BY <2>1, <2>2
<1> HIDE DEF q, r
<1>2. CASE v < 0
  <2>1. Borrow(v) = 1 /\ Borrowed(v, u) = v + u
    BY <1>1, <1>2 DEF Borrow, Borrowed
  <2>2. (q - 1) * u = u * q - u
    BY <1>1
  <2>3. u * q \in Int
    BY <1>1
  <2> HIDE DEF v
  <2>4. v \in Int /\ v = r - b /\ v < 0
    BY <1>1, <1>2 DEF v
  <2>5. (q - 1) * u + (v + u) = a - b /\ v + u \in 0..u - 1
    BY <1>1, <2>2, <2>3, <2>4
  <2> QED
    BY <1>1, <2>1, <2>5 DEF v, q, r
<1>3. CASE v >= 0
  <2>1. Borrow(v) = 0 /\ Borrowed(v, u) = v
    BY <1>1, <1>3 DEF Borrow, Borrowed
  <2>2. (q - 0) * u = u * q /\ u * q \in Int
    BY <1>1
  <2> HIDE DEF v
  <2>4. v \in Int /\ v = r - b /\ v >= 0
    BY <1>1, <1>3 DEF v
  <2>5. (q - 0) * u + v = a - b /\ v \in 0..u - 1
    BY <1>1, <2>2, <2>4
  <2> QED
    BY <1>1, <2>1, <2>5 DEF v, q, r
<1> QED
  BY <1>1, <1>2, <1>3

LEMMA ScalesAre ==
    /\ HourPerDay \in Nat \ {0} /\ MinPerHour \in Nat \ {0} /\ SecPerMin \in Nat \ {0}
    /\ FsecPerSec \in Nat \ {0} /\ NsPerUs \in Nat \ {0} /\ UsPerFsec \in Nat \ {0}
    /\ NsPerFsec \in Nat \ {0} /\ NSTMODULUS \in Nat \ {0}
<1>1. /\ HourPerDay \in Nat \ {0} /\ MinPerHour \in Nat \ {0} /\ SecPerMin \in Nat \ {0}
      /\ FsecPerSec \in Nat \ {0} /\ NsPerUs \in Nat \ {0} /\ UsPerFsec \in Nat \ {0}
  BY ScaleAssumption
<1>2. NsPerFsec \in Nat \ {0}
  BY <1>1 DEF NsPerFsec
<1>3. NSTMODULUS \in Nat \ {0}
  BY <1>1, <1>2 DEF NSTMODULUS
<1> QED
  BY <1>1, <1>2, <1>3

\* What a count of seconds is taken apart to.
GmIs(t, time) ==
    \E day \in Int :
        /\ t.year \in Int /\ t.yday \in 0..YearLength(t.year) - 1
        /\ DaysTo(t.year - 1) + t.yday = DaysTo(1969) + day
        /\ t.hour \in 0..HourPerDay - 1 /\ t.min \in 0..MinPerHour - 1 /\ t.sec \in 0..SecPerMin - 1
        /\ ((day * HourPerDay + t.hour) * MinPerHour + t.min) * SecPerMin + t.sec = time

LEMMA GmTimeIs ==
    ASSUME NEW time \in Int
    PROVE  GmIs(GmTime(time), time)
<1> DEFINE mins  == CQuot(time, SecPerMin)
           hours == CQuot(mins, MinPerHour)
           sec   == CRem(time, SecPerMin)
           min   == CRem(mins, MinPerHour) - Borrow(sec)
           hour  == CRem(hours, HourPerDay) - Borrow(min)
           day   == CQuot(hours, HourPerDay) - Borrow(hour)
           h     == Borrowed(hour, HourPerDay)
           m     == Borrowed(min, MinPerHour)
           s     == Borrowed(sec, SecPerMin)
<1>1. GmTime(time) = Broken(DateOf(day), h, m, s)
  BY Zenon DEF GmTime
<1>2. (mins - Borrow(sec)) * SecPerMin + s = time /\ s \in 0..SecPerMin - 1 /\ mins \in Int
      /\ Borrow(sec) \in {0, 1}
  <2>1. CRem(time, SecPerMin) - 0 = sec
    BY ScalesAre DEF CRem, CQuot
  <2>2. LET v == CRem(time, SecPerMin) - 0
        IN  /\ (CQuot(time, SecPerMin) - Borrow(v)) * SecPerMin + Borrowed(v, SecPerMin) = time - 0
            /\ Borrowed(v, SecPerMin) \in 0..SecPerMin - 1
            /\ CQuot(time, SecPerMin) \in Int /\ Borrow(v) \in {0, 1}
    <3>1. 0 \in {0, 1}
      OBVIOUS
    <3> QED
      BY <3>1, ScalesAre, PartIs, Zenon
  <2> QED
    BY <2>1, <2>2
<1> DEFINE b == Borrow(sec)
<1> HIDE DEF mins, sec, b
<1>3. (hours - Borrow(min)) * MinPerHour + m = mins - b /\ m \in 0..MinPerHour - 1
      /\ hours \in Int /\ Borrow(min) \in {0, 1}
  <2>1. b \in {0, 1} /\ mins \in Int
    BY <1>2 DEF b
  <2>2. min = CRem(mins, MinPerHour) - b
    BY DEF b
  <2>3. LET v == CRem(mins, MinPerHour) - b
        IN  /\ (CQuot(mins, MinPerHour) - Borrow(v)) * MinPerHour + Borrowed(v, MinPerHour) = mins - b
            /\ Borrowed(v, MinPerHour) \in 0..MinPerHour - 1
            /\ CQuot(mins, MinPerHour) \in Int /\ Borrow(v) \in {0, 1}
    BY <2>1, ScalesAre, PartIs, Zenon
  <2> QED
    BY <2>2, <2>3
<1> DEFINE c == Borrow(min)
<1> HIDE DEF hours, min, c
<1>4. (CQuot(hours, HourPerDay) - Borrow(hour)) * HourPerDay + h = hours - c
      /\ h \in 0..HourPerDay - 1 /\ CQuot(hours, HourPerDay) \in Int /\ Borrow(hour) \in {0, 1}
  <2>1. c \in {0, 1} /\ hours \in Int
    BY <1>3 DEF c
  <2>2. hour = CRem(hours, HourPerDay) - c
    BY DEF c
  <2>3. LET v == CRem(hours, HourPerDay) - c
        IN  /\ (CQuot(hours, HourPerDay) - Borrow(v)) * HourPerDay + Borrowed(v, HourPerDay) = hours - c
            /\ Borrowed(v, HourPerDay) \in 0..HourPerDay - 1
            /\ CQuot(hours, HourPerDay) \in Int /\ Borrow(v) \in {0, 1}
    BY <2>1, ScalesAre, PartIs, Zenon
  <2> QED
    BY <2>2, <2>3
<1>5. day \in Int /\ day * HourPerDay + h = hours - c
  <2> HIDE DEF h, hour
  <2> QED
    BY <1>4
<1> HIDE DEF h, m, s, day
<1>6. ((day * HourPerDay + h) * MinPerHour + m) * SecPerMin + s = time
  <2>1. (day * HourPerDay + h) * MinPerHour + m = mins - b
    BY <1>3, <1>5 DEF c
  <2> QED
    BY <1>2, <2>1 DEF b
<1>7. PICK y \in Int : \E d \in 0..YearLength(y) - 1 :
          Dated(DateOf(day), y, d) /\ DaysTo(y - 1) + d = DaysTo(1969) + day
  BY <1>5, DateIs
<1>8. PICK d \in 0..YearLength(y) - 1 :
          Dated(DateOf(day), y, d) /\ DaysTo(y - 1) + d = DaysTo(1969) + day
  BY <1>7
<1> DEFINE t == Broken(DateOf(day), h, m, s)
<1>9. t.year = y /\ t.yday = d /\ t.hour = h /\ t.min = m /\ t.sec = s
  BY <1>8 DEF Broken, Dated
<1> HIDE DEF t
<1>10. GmIs(t, time)
  BY <1>2, <1>3, <1>4, <1>5, <1>6, <1>8, <1>9 DEF GmIs, h, m, s
<1> QED
  BY <1>1, <1>10 DEF t

LEMMA EpochIs ==
    ASSUME NEW nstime \in Int
    PROVE  LET e == EpochParts(nstime)
           IN  /\ e[1] \in Int /\ e[2] \in 0..NSTMODULUS - 1
               /\ e[1] * NSTMODULUS + e[2] = nstime
<1> DEFINE u == NSTMODULUS  q == CQuot(nstime, u)  r == CRem(nstime, u)
           e == EpochParts(nstime)
<1>1. u \in Nat \ {0} /\ 0 \in {0, 1}
  BY ScalesAre
<1>2. LET v == CRem(nstime, u) - 0
      IN  /\ (CQuot(nstime, u) - Borrow(v)) * u + Borrowed(v, u) = nstime - 0
          /\ Borrowed(v, u) \in 0..u - 1
          /\ CQuot(nstime, u) \in Int /\ Borrow(v) \in {0, 1}
  <2> HIDE DEF u
  <2> QED
    BY <1>1, PartIs, Zenon
<1>3. q \in Int /\ r = nstime - q * u /\ q * u \in Int /\ r \in Int
  <2>1. q \in Int
    BY <1>2
  <2>2. r = nstime - u * q
    BY DEF CRem
  <2> HIDE DEF q, u, r
  <2> QED
    BY <1>1, <2>1, <2>2
<1>4. r < 0 <=> nstime < 0 /\ r # 0
  <2>1. CASE nstime >= 0
    <3>1. q = nstime \div u
      BY <2>1 DEF CQuot
    <3> HIDE DEF q, r, u
    <3>2. u * (nstime \div u) <= nstime
      BY <1>1
    <3> QED
      BY <1>1, <1>3, <2>1, <3>1, <3>2
  <2>2. CASE nstime < 0
    <3> DEFINE n == -nstime  d == n \div u
    <3>1. q = -d /\ n \in Int /\ nstime = -n
      BY <2>2 DEF CQuot
    <3>2. d \in Int /\ u * d <= n
      <4> HIDE DEF n, u
      <4> QED
        BY <1>1, <3>1
    <3> HIDE DEF q, r, u, n, d
    <3>3. (-d) * u = -(u * d) /\ u * d \in Int
      BY <1>1, <3>2
    <3> QED
      BY <1>1, <1>3, <2>2, <3>1, <3>2, <3>3
  <2> QED
    BY <2>1, <2>2
<1>5. e = IF nstime < 0 /\ nstime - q * u # 0 THEN <<q - 1, u + (nstime - q * u)>>
          ELSE <<q, nstime - q * u>>
  BY Zenon DEF EpochParts
<1> DEFINE v == r - 0
<1>6. /\ (q - Borrow(v)) * u + Borrowed(v, u) = nstime /\ Borrowed(v, u) \in 0..u - 1
  BY <1>2
<1>7. v = r
  BY <1>3
<1> HIDE DEF q, r, u, e, v
<1>8. CASE r < 0
  <2>1. Borrow(v) = 1 /\ Borrowed(v, u) = r + u
    BY <1>1, <1>3, <1>7, <1>8 DEF Borrow, Borrowed
  <2>2. e = <<q - 1, u + r>>
    BY <1>3, <1>4, <1>5, <1>8
  <2>3. u + r = r + u
    BY <1>1, <1>3
  <2>4. e[1] = q - 1 /\ e[2] = r + u
    BY <2>2, <2>3
  <2> QED
    BY <1>3, <1>6, <2>1, <2>4 DEF e, u
<1>9. CASE r >= 0
  <2>1. Borrow(v) = 0 /\ Borrowed(v, u) = r
    BY <1>1, <1>3, <1>7, <1>9 DEF Borrow, Borrowed
  <2>2. e = <<q, r>>
    BY <1>3, <1>4, <1>5, <1>9
  <2>3. e[1] = q /\ e[2] = r /\ q - 0 = q
    BY <1>3, <2>2
  <2> QED
    BY <1>3, <1>6, <2>1, <2>3 DEF e, u
<1> QED
  BY <1>3, <1>8, <1>9

-----------------------------------------------------------------------------
(* There and back *)

\* The parts of a time.
TimeIs(t, nstime) ==
    \E day \in Int, time \in Int :
        /\ t.year \in Int /\ t.day - 1 \in 0..YearLength(t.year) - 1 /\ t.day \in Int
        /\ DaysTo(t.year - 1) + (t.day - 1) = DaysTo(1969) + day
        /\ t.hour \in 0..HourPerDay - 1 /\ t.min \in 0..MinPerHour - 1 /\ t.sec \in 0..SecPerMin - 1
        /\ ((day * HourPerDay + t.hour) * MinPerHour + t.min) * SecPerMin + t.sec = time
        /\ t.nsec \in 0..NSTMODULUS - 1
        /\ time * NSTMODULUS + t.nsec = nstime

LEMMA NsTime2TimeIs ==
    ASSUME NEW nstime \in Int
    PROVE  TimeIs(NsTime2Time(nstime), nstime)
<1> DEFINE e == EpochParts(nstime)  time == e[1]  nsec == e[2]
           g == GmTime(time)  t == NsTime2Time(nstime)
<1>1. time \in Int /\ nsec \in 0..NSTMODULUS - 1 /\ time * NSTMODULUS + nsec = nstime
  BY EpochIs
<1>2. GmIs(g, time)
  <2> HIDE DEF time
  <2> QED
    BY <1>1, GmTimeIs
<1>3. t = [year |-> g.year, day |-> g.yday + 1, hour |-> g.hour,
           min |-> g.min, sec |-> g.sec, nsec |-> nsec]
  BY DEF NsTime2Time, WithNanos
<1> HIDE DEF time, nsec, g, t
<1>4. /\ t.year = g.year /\ t.day = g.yday + 1 /\ t.hour = g.hour /\ t.min = g.min
      /\ t.sec = g.sec /\ t.nsec = nsec
  BY <1>3
<1>5. PICK day \in Int :
        /\ g.year \in Int /\ g.yday \in 0..YearLength(g.year) - 1
        /\ DaysTo(g.year - 1) + g.yday = DaysTo(1969) + day
        /\ g.hour \in 0..HourPerDay - 1 /\ g.min \in 0..MinPerHour - 1 /\ g.sec \in 0..SecPerMin - 1
        /\ ((day * HourPerDay + g.hour) * MinPerHour + g.min) * SecPerMin + g.sec = time
  BY <1>2 DEF GmIs
<1>6. YearLength(g.year) \in Int
  BY <1>5, LengthIs
<1>7. t.day \in Int /\ t.day - 1 = g.yday
  BY <1>4, <1>5, <1>6
<1> QED
  BY <1>1, <1>4, <1>5, <1>7 DEF TimeIs, t

\* Nanoseconds are only added: those of a whole second, or of fewer digits.
LEMMA PutTogether ==
    ASSUME NEW t, NEW nstime \in Int, TimeIs(t, nstime)
    PROVE  /\ t.nsec \in 0..NSTMODULUS - 1
           /\ \E time \in Int :
                 /\ nstime = time * NSTMODULUS + t.nsec
                 /\ \A n : Time2NsTimeInt([year |-> t.year, day |-> t.day, hour |-> t.hour,
                                          min |-> t.min, sec |-> t.sec, nsec |-> n])
                              = time * NSTMODULUS + n
                 /\ Time2NsTimeInt(t) = nstime
<1>1. PICK day \in Int, time \in Int :
        /\ t.year \in Int /\ t.day - 1 \in 0..YearLength(t.year) - 1 /\ t.day \in Int
        /\ DaysTo(t.year - 1) + (t.day - 1) = DaysTo(1969) + day
        /\ ((day * HourPerDay + t.hour) * MinPerHour + t.min) * SecPerMin + t.sec = time
        /\ t.nsec \in 0..NSTMODULUS - 1
        /\ time * NSTMODULUS + t.nsec = nstime
  BY DEF TimeIs
<1>2. DaysSince1970(t.year, t.day) = day
  <2>1. DaysSince1970(t.year, t.day) = DaysTo(t.year - 1) - DaysTo(1969) + (t.day - 1)
    BY <1>1, SinceIs
  <2>2. DaysTo(t.year - 1) \in Int /\ DaysTo(1969) \in Int
    BY <1>1, LengthIs
  <2> QED
    BY <1>1, <2>1, <2>2
<1>3. \A n : Time2NsTimeInt([year |-> t.year, day |-> t.day, hour |-> t.hour,
                             min |-> t.min, sec |-> t.sec, nsec |-> n])
                 = time * NSTMODULUS + n
  <2> TAKE n
  <2> DEFINE r == [year |-> t.year, day |-> t.day, hour |-> t.hour,
                   min |-> t.min, sec |-> t.sec, nsec |-> n]
  <2>1. /\ r.year = t.year /\ r.day = t.day /\ r.hour = t.hour /\ r.min = t.min /\ r.sec = t.sec
        /\ r.nsec = n
    OBVIOUS
  <2> HIDE DEF r
  <2>2. Time2NsTimeInt(r) = time * NSTMODULUS + n
    <3>1. Time2NsTimeInt(r) =
            ((((DaysSince1970(r.year, r.day) * HourPerDay) + r.hour) * MinPerHour + r.min)
                * SecPerMin + r.sec) * NSTMODULUS + r.nsec
      BY Zenon DEF Time2NsTimeInt
    <3>2. Time2NsTimeInt(r) =
            ((((day * HourPerDay) + t.hour) * MinPerHour + t.min)
                * SecPerMin + t.sec) * NSTMODULUS + n
      BY <1>2, <2>1, <3>1
    <3> QED
      BY <1>1, <3>2
  <2> QED
    BY <2>2 DEF r
<1>4. Time2NsTimeInt(t) = time * NSTMODULUS + t.nsec
  <2>1. Time2NsTimeInt(t) =
            ((((DaysSince1970(t.year, t.day) * HourPerDay) + t.hour) * MinPerHour + t.min)
                * SecPerMin + t.sec) * NSTMODULUS + t.nsec
    BY Zenon DEF Time2NsTimeInt
  <2>2. Time2NsTimeInt(t) =
            ((((day * HourPerDay) + t.hour) * MinPerHour + t.min)
                * SecPerMin + t.sec) * NSTMODULUS + t.nsec
    BY <1>2, <2>1
  <2> QED
    BY <1>1, <2>2
<1> QED
  BY <1>1, <1>3, <1>4

\* ms_time2nstime() gives back what ms_nstime2time() took apart, unless the
\* year is out of its range.
THEOREM TimeComesBack ==
    ASSUME NEW nstime \in Int
    PROVE  Time2NsTime(NsTime2Time(nstime)) =
              IF ValidYear(NsTime2Time(nstime).year) THEN nstime ELSE NSTERROR
<1> DEFINE t == NsTime2Time(nstime)
<1>1. TimeIs(t, nstime)
  BY NsTime2TimeIs
<1> HIDE DEF t
<1>2. Time2NsTimeInt(t) = nstime
  BY <1>1, PutTogether
<1>3. ValidYearDay(t.year, t.day) /\ ValidClock(t)
  <2>1. PICK day \in Int, time \in Int :
        /\ t.year \in Int /\ t.day - 1 \in 0..YearLength(t.year) - 1 /\ t.day \in Int
        /\ t.hour \in 0..HourPerDay - 1 /\ t.min \in 0..MinPerHour - 1 /\ t.sec \in 0..SecPerMin - 1
        /\ t.nsec \in 0..NSTMODULUS - 1
    BY <1>1 DEF TimeIs
  <2>2. YearLength(t.year) \in Int /\ SecPerMin \in Int
    BY <2>1, LengthIs, ScalesAre
  <2> QED
    BY <2>1, <2>2 DEF ValidYearDay, ValidClock
<1> QED
  BY <1>2, <1>3 DEF Time2NsTime, t

-----------------------------------------------------------------------------
(* Tenths of milliseconds *)

LEMMA QuotientIs ==
    ASSUME NEW a \in Int, NEW u \in Nat \ {0}, NEW q \in Int, NEW r \in 0..u - 1, a = u * q + r
    PROVE  a \div u = q
<1> DEFINE p == a \div u
<1>1. p \in Int /\ u * p <= a /\ a < u * p + u
  <2>1. p \in Int
    OBVIOUS
  <2>2. u * (a \div u) <= a
    OBVIOUS
  <2>3. a < u * (a \div u) + u
    OBVIOUS
  <2> QED
    BY <2>1, <2>2, <2>3
<1> HIDE DEF p
<1>2. u * (q - p) = (u * q) - (u * p) /\ u * q \in Int /\ u * p \in Int
  <2>1. u * (q - p) = (u * q) - (u * p)
    BY <1>1
  <2>2. u * q \in Int /\ u * p \in Int
    BY <1>1
  <2> QED
    BY <2>1, <2>2
<1>3. ~(q - p >= 1)
  <2> SUFFICES ASSUME q - p >= 1 PROVE FALSE
    OBVIOUS
  <2>1. u * (q - p) >= u
    BY <1>1
  <2> QED
    BY <1>1, <1>2, <2>1
<1>4. ~(q - p <= -1)
  <2> SUFFICES ASSUME q - p <= -1 PROVE FALSE
    OBVIOUS
  <2>1. u * (q - p) <= -u
    BY <1>1
  <2> QED
    BY <1>1, <1>2, <2>1
<1> QED
  BY <1>1, <1>3, <1>4 DEF p

LEMMA KeptIs ==
    ASSUME NEW time \in Int, NEW nsec \in 0..NSTMODULUS - 1
    PROVE  LET n == time * NSTMODULUS + nsec
               f == NsPerFsec * (nsec \div NsPerFsec)
           IN  /\ f \in 0..NSTMODULUS - 1
               /\ time * NSTMODULUS + f = NsPerFsec * (n \div NsPerFsec)
               /\ nsec - f \in 0..NsPerFsec - 1
<1> DEFINE g == NsPerFsec  h == FsecPerSec  n == time * NSTMODULUS + nsec
           q == nsec \div g  r == nsec - g * q
<1>1. g \in Nat \ {0} /\ h \in Nat \ {0} /\ NSTMODULUS = g * h /\ nsec \in Nat /\ NSTMODULUS \in Nat
  BY ScalesAre DEF NSTMODULUS
<1> HIDE DEF g, h
<1>2. q \in Nat /\ r \in 0..g - 1 /\ nsec = g * q + r /\ g * q \in Int /\ g * q <= nsec /\ g * q \in Nat
  BY <1>1
<1>3. n = g * (time * h + q) + r
  <2> HIDE DEF q, r
  <2>1. time * (g * h) = g * (time * h) /\ time * h \in Int
    BY <1>1
  <2>2. g * (time * h + q) = g * (time * h) + g * q
    BY <1>1, <1>2, <2>1
  <2>3. g * (time * h) \in Int
    BY <1>1, <2>1
  <2> QED
    BY <1>1, <1>2, <2>1, <2>2, <2>3
<1>4. n \div g = time * h + q
  <2>1. time * h + q \in Int /\ n \in Int
    BY <1>1, <1>2
  <2> DEFINE k == time * h + q
  <2>2. n = g * k + r /\ k \in Int
    BY <1>3, <2>1
  <2> HIDE DEF k, n, q, r
  <2>3. n \div g = k
    BY <1>1, <1>2, <2>1, <2>2, QuotientIs
  <2> QED
    BY <2>3 DEF k
<1>5. g * (n \div g) = time * NSTMODULUS + g * q
  <2>1. time * (g * h) = g * (time * h) /\ time * h \in Int
    BY <1>1
  <2> HIDE DEF q, n
  <2>2. g * (time * h + q) = g * (time * h) + g * q
    BY <1>1, <1>2, <2>1
  <2> QED
    BY <1>1, <1>4, <2>1, <2>2
<1>6. g * q \in 0..NSTMODULUS - 1
  <2> HIDE DEF q, r
  <2> QED
    BY <1>1, <1>2
<1> QED
  BY <1>2, <1>5, <1>6 DEF g

\* A time as version 2 keeps it: in tenths of milliseconds.
Floored(nstime) == NsPerFsec * (nstime \div NsPerFsec)
InTenths(t) ==
    [year |-> t.year, day |-> t.day, hour |-> t.hour, min |-> t.min, sec |-> t.sec,
     fsec |-> t.nsec \div NsPerFsec]

\* What is cut off is what the nanoseconds have more than whole tenths.
LEMMA FlooredIs ==
    ASSUME NEW nstime \in Int
    PROVE  LET nsec == NsTime2Time(nstime).nsec
           IN  /\ nsec \in Nat /\ Floored(nstime) \in Int
               /\ nstime - Floored(nstime) = nsec - NsPerFsec * (nsec \div NsPerFsec)
               /\ nstime - Floored(nstime) \in 0..NsPerFsec - 1
<1> DEFINE t == NsTime2Time(nstime)  nsec == t.nsec  f == NsPerFsec * (nsec \div NsPerFsec)
<1>1. TimeIs(t, nstime)
  BY NsTime2TimeIs
<1> HIDE DEF t
<1>2. nsec \in 0..NSTMODULUS - 1 /\ \E time \in Int : nstime = time * NSTMODULUS + nsec
  BY <1>1, PutTogether
<1>3. PICK time \in Int : nstime = time * NSTMODULUS + nsec
  BY <1>2
<1> HIDE DEF nsec
<1>4. /\ f \in 0..NSTMODULUS - 1 /\ nsec - f \in 0..NsPerFsec - 1
      /\ time * NSTMODULUS + f = Floored(nstime)
  <2>1. /\ f \in 0..NSTMODULUS - 1 /\ nsec - f \in 0..NsPerFsec - 1
        /\ time * NSTMODULUS + f = NsPerFsec * ((time * NSTMODULUS + nsec) \div NsPerFsec)
    BY <1>2, KeptIs
  <2> QED
    BY <1>3, <2>1 DEF Floored
<1> DEFINE w == time * NSTMODULUS
<1>5. w \in Int /\ nstime = w + nsec /\ Floored(nstime) = w + f
  BY <1>3, <1>4, ScalesAre
<1> HIDE DEF f, w
<1>6. nsec \in Nat /\ f \in Int /\ NSTMODULUS \in Nat
  BY <1>2, <1>4, ScalesAre
<1>7. Floored(nstime) \in Int /\ nstime - Floored(nstime) = nsec - f
  BY <1>5, <1>6
<1> QED
  BY <1>4, <1>6, <1>7 DEF f, nsec, t

\* ms_btime2nstime() gives back what ms_nstime2time() took apart, but for what
\* is less than a tenth of a millisecond.
THEOREM TenthsComeBack ==
    ASSUME NEW nstime \in Int
    PROVE  BTime2NsTime(InTenths(NsTime2Time(nstime))) =
              IF ValidYear(NsTime2Time(nstime).year) THEN Floored(nstime) ELSE NSTERROR
<1> DEFINE t == NsTime2Time(nstime)  nsec == t.nsec  f == NsPerFsec * (nsec \div NsPerFsec)
           r == [year |-> t.year, day |-> t.day, hour |-> t.hour, min |-> t.min, sec |-> t.sec, nsec |-> f]
<1>1. TimeIs(t, nstime)
  BY NsTime2TimeIs
<1> HIDE DEF t
<1>2. /\ nsec \in 0..NSTMODULUS - 1
      /\ \E time \in Int :
            /\ nstime = time * NSTMODULUS + nsec
            /\ \A n : Time2NsTimeInt([year |-> t.year, day |-> t.day, hour |-> t.hour,
                                      min |-> t.min, sec |-> t.sec, nsec |-> n])
                          = time * NSTMODULUS + n
  BY <1>1, PutTogether
<1>3. PICK time \in Int :
        /\ nstime = time * NSTMODULUS + nsec
        /\ \A n : Time2NsTimeInt([year |-> t.year, day |-> t.day, hour |-> t.hour,
                                  min |-> t.min, sec |-> t.sec, nsec |-> n])
                      = time * NSTMODULUS + n
  BY <1>2
<1> HIDE DEF nsec
<1>4. f \in 0..NSTMODULUS - 1 /\ time * NSTMODULUS + f = Floored(nstime)
  <2>1. /\ f \in 0..NSTMODULUS - 1
        /\ time * NSTMODULUS + f = NsPerFsec * ((time * NSTMODULUS + nsec) \div NsPerFsec)
    BY <1>2, KeptIs
  <2> QED
    BY <1>3, <2>1 DEF Floored
<1>5. Time2NsTimeInt(r) = Floored(nstime)
  <2>1. Time2NsTimeInt(r) = time * NSTMODULUS + f
    <3> HIDE DEF f
    <3> QED
      BY <1>3
  <2> QED
    BY <1>4, <2>1
<1>6. BTime2NsTime(InTenths(t)) = Time2NsTime(r)
  <2>1. (nsec \div NsPerFsec) * NsPerFsec = f
    <3> DEFINE a == nsec \div NsPerFsec
    <3>1. a \in Int /\ NsPerFsec \in Int
      BY <1>2, ScalesAre
    <3> HIDE DEF a
    <3>2. a * NsPerFsec = NsPerFsec * a
      BY <3>1
    <3> QED
      BY <3>2 DEF a
  <2> DEFINE b == InTenths(t)
  <2>2. /\ b.year = t.year /\ b.day = t.day /\ b.hour = t.hour /\ b.min = t.min /\ b.sec = t.sec
        /\ b.fsec = nsec \div NsPerFsec
    BY DEF InTenths, nsec
  <2> HIDE DEF b, f
  <2>3. BTime2NsTime(b) = Time2NsTime([year |-> b.year, day |-> b.day, hour |-> b.hour, min |-> b.min,
                                       sec |-> b.sec, nsec |-> b.fsec * NsPerFsec])
    BY Zenon DEF BTime2NsTime
  <2> QED
    BY <2>1, <2>2, <2>3 DEF b
<1>7. /\ r.year = t.year /\ r.day = t.day /\ r.hour = t.hour /\ r.min = t.min /\ r.sec = t.sec
      /\ r.nsec = f
  OBVIOUS
<1> HIDE DEF r, f
<1>8. ValidYearDay(r.year, r.day) /\ ValidClock(r)
  <2>1. PICK day \in Int, s \in Int :
        /\ t.year \in Int /\ t.day - 1 \in 0..YearLength(t.year) - 1 /\ t.day \in Int
        /\ t.hour \in 0..HourPerDay - 1 /\ t.min \in 0..MinPerHour - 1 /\ t.sec \in 0..SecPerMin - 1
    BY <1>1 DEF TimeIs
  <2>2. YearLength(t.year) \in Int /\ SecPerMin \in Int
    BY <2>1, LengthIs, ScalesAre
  <2> QED
    BY <1>4, <1>7, <2>1, <2>2 DEF ValidYearDay, ValidClock
<1> QED
  BY <1>5, <1>6, <1>7, <1>8 DEF Time2NsTime, t

\* Of what is cut off, whole microseconds are kept apart.
MicroOf(nstime) == (NsTime2Time(nstime).nsec \div NsPerUs) % UsPerFsec
LEMMA MicroIs ==
    ASSUME NEW nstime \in Int
    PROVE  /\ MicroOf(nstime) * NsPerUs \in 0..NsPerFsec - 1
           /\ (nstime - Floored(nstime)) - (MicroOf(nstime) * NsPerUs) \in 0..NsPerUs - 1
<1> DEFINE n == NsTime2Time(nstime).nsec  u == NsPerUs  k == UsPerFsec
           q == n \div u  m == q % k  p == q \div k
<1>1. /\ n \in Nat /\ nstime - Floored(nstime) = n - NsPerFsec * (n \div NsPerFsec)
      /\ Floored(nstime) \in Int
  BY FlooredIs
<1>2. u \in Nat \ {0} /\ k \in Nat \ {0} /\ NsPerFsec = u * k /\ NsPerFsec \in Nat \ {0}
  BY ScalesAre DEF NsPerFsec
<1> HIDE DEF n, u, k
<1>3. q \in Nat /\ u * q <= n /\ n < u * q + u
  <2>2. n \in Nat
    BY <1>1
  <2>3. u \in Nat \ {0}
    BY <1>2
  <2>1. q \in Nat
    BY <2>2, <2>3
  <2>4. u * (n \div u) <= n
    BY <2>2, <2>3
  <2>5. n < u * (n \div u) + u
    BY <2>2, <2>3
  <2> QED
    BY <2>1, <2>4, <2>5
<1> HIDE DEF q
<1>4. m \in 0..k - 1 /\ p \in Int /\ q = k * p + m
  <2>1. q % k \in 0..k - 1
    BY <1>2, <1>3
  <2>2. q = k * (q \div k) + (q % k)
    BY <1>2, <1>3
  <2>3. p \in Int
    BY <1>2, <1>3
  <2> QED
    BY <2>1, <2>2, <2>3
<1> HIDE DEF m, p
<1> DEFINE a == u * m  z == n - u * q
<1>5. a \in Nat /\ a + u <= u * k /\ z \in 0..u - 1
  <2>1. u * m \in Nat /\ u * (m + 1) = (u * m) + u
    BY <1>2, <1>4
  <2>2. u * (m + 1) <= u * k
    <3>1. m + 1 \in Nat /\ m + 1 <= k
      BY <1>2, <1>4
    <3> DEFINE y == m + 1
    <3> HIDE DEF y
    <3>2. u * (k - y) >= 0 /\ u * (k - y) = u * k - (u * y)
      BY <1>2, <3>1 DEF y
    <3>3. u * k \in Int /\ u * y \in Int
      BY <1>2, <3>1 DEF y
    <3> QED
      BY <3>2, <3>3 DEF y
  <2>3. u * q \in Int
    BY <1>2, <1>3
  <2>4. u * k \in Int
    BY <1>2
  <2>5. z \in 0..u - 1
    BY <1>1, <1>2, <1>3, <2>3
  <2> QED
    BY <1>2, <2>1, <2>2, <2>4, <2>5
<1>6. n = (u * k) * p + (a + z)
  <2>1. u * (k * p + m) = (u * k) * p + u * m
    BY <1>2, <1>4
  <2>2. u * q = (u * k) * p + u * m
    BY <1>4, <2>1
  <2>3. u * q \in Int /\ (u * k) * p \in Int
    BY <1>2, <1>3, <1>4
  <2>4. n = u * q + z
    BY <1>1, <2>3
  <2> DEFINE v == (u * k) * p
  <2> HIDE DEF a, z, v
  <2>5. u * q = v + a
    BY <2>2 DEF v, a
  <2> QED
    BY <1>5, <2>3, <2>4, <2>5 DEF v
<1> HIDE DEF a, z
<1>7. n \div (u * k) = p
  <2> DEFINE g == u * k  s == a + z
  <2>1. g \in Nat \ {0} /\ s \in 0..g - 1
    BY <1>2, <1>5
  <2>2. n = g * p + s
    BY <1>6
  <2> HIDE DEF g, s
  <2>3. n \div g = p
    <3>1. n \in Int
      BY <1>1
    <3> QED
      BY <1>4, <2>1, <2>2, <3>1, QuotientIs
  <2> QED
    BY <2>3 DEF g
<1>8. nstime - Floored(nstime) = a + z
  <2>1. nstime - Floored(nstime) = n - (u * k) * p
    BY <1>1, <1>2, <1>7
  <2>2. (u * k) * p \in Int
    BY <1>2, <1>4
  <2> QED
    BY <1>1, <1>5, <1>6, <2>1, <2>2
<1>9. MicroOf(nstime) * NsPerUs = a
  <2>1. m * u = u * m
    BY <1>2, <1>4
  <2> QED
    BY <2>1 DEF MicroOf, a, m, q, n, u, k
<1> QED
  <2>1. a \in 0..(u * k) - 1
    BY <1>2, <1>5
  <2>2. (a + z) - a \in 0..u - 1
    BY <1>5
  <2> QED
    BY <1>2, <1>8, <1>9, <2>1, <2>2 DEF u

\* With its microseconds a time is no other than without them.
LEMMA NoErrorIs ==
    ASSUME NEW nstime \in Int, NEW m \in 0..NsPerFsec - 1, Floored(nstime) + m = NSTERROR
    PROVE  Floored(nstime) = NSTERROR
<1> DEFINE g == NsPerFsec  q == nstime \div g  d == -(24837 * SecPerDay)
           e == d * FsecPerSec
<1>1. g \in Nat \ {0} /\ q \in Int
  BY ScalesAre
<1>2. e \in Int /\ NSTERROR = g * e
  <2>1. SecPerDay \in Int /\ FsecPerSec \in Int /\ NSTMODULUS = g * FsecPerSec
    BY ScalesAre DEF SecPerDay, NSTMODULUS
  <2>2. NSTERROR = -(24837 * SecPerDay * NSTMODULUS)
    BY <2>1 DEF NSTERROR
  <2>3. d \in Int
    BY <2>1
  <2>4. NSTERROR = d * NSTMODULUS
    <3> DEFINE s == 24837 * SecPerDay
    <3>1. s \in Int /\ NSTMODULUS \in Int
      BY <2>1, ScalesAre
    <3> HIDE DEF s
    <3>2. -(s * NSTMODULUS) = (-s) * NSTMODULUS
      BY <3>1
    <3> QED
      BY <2>2, <3>2 DEF s
  <2> HIDE DEF d, g
  <2>5. d * (g * FsecPerSec) = g * (d * FsecPerSec) /\ d * FsecPerSec \in Int
    BY <1>1, <2>1, <2>3
  <2> QED
    BY <2>1, <2>4, <2>5
<1>3. Floored(nstime) = g * q
  BY DEF Floored
<1> HIDE DEF g, q, e
<1> DEFINE a == g * e
<1>4. a \in Int /\ a = g * q + m /\ a = g * e + 0 /\ m \in 0..g - 1 /\ 0 \in 0..g - 1
  <2>1. g * e \in Int /\ g * q \in Int
    BY <1>1, <1>2
  <2> QED
    BY <1>1, <1>2, <1>3, <2>1 DEF g
<1> HIDE DEF a
<1>5. a \div g = q
  BY <1>1, <1>4, QuotientIs
<1>6. a \div g = e
  BY <1>1, <1>2, <1>4, QuotientIs
<1> QED
  BY <1>2, <1>3, <1>5, <1>6
=============================================================================
