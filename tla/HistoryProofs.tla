--------------------------- MODULE HistoryProofs ---------------------------
(***************************************************************************)
(* What has happened to the PC.  The event logs, from the question to      *)
(* Windows to the diagnosis: what is read of a log, the records of each    *)
(* kind, and the shutdowns that were written down twice.  And the update   *)
(* history (windows_updates.rs), which is read page by page while updates  *)
(* are installed, which moves every entry one place on, and may be         *)
(* deleted: for any number of entries and installations, any size of the   *)
(* pages and any limits of the user, a success has what HistoryWhole       *)
(* promises.                                                               *)
(***************************************************************************)
EXTENDS DiagnosisProofs

-----------------------------------------------------------------------------
(* Places of a list *)

\* As many places as the list of them has, from the first to the last.
LEMMA NthIs ==
    ASSUME NEW n \in Nat, NEW D \in SUBSET (1 .. n)
    PROVE  /\ IsFiniteSet(D) /\ Cardinality(D) \in Nat /\ Cardinality(D) <= n
           /\ \A k \in 1 .. Cardinality(D) : Nth(D, k) \in D /\ k <= Nth(D, k)
           /\ \A i \in D : \E k \in 1 .. Cardinality(D) : Nth(D, k) = i /\ k <= i
           /\ \A k, l \in 1 .. Cardinality(D) : k < l => Nth(D, k) < Nth(D, l)
<1> DEFINE upTo(i) == {j \in D : j <= i}
           r == [i \in D |-> Cardinality(upTo(i))]
           c == Cardinality(D)
<1>0. \A i \in D : i \in Nat /\ 1 <= i
  OBVIOUS
<1>1. IsFiniteSet(D) /\ c \in Nat /\ c <= n
  <2>1. IsFiniteSet(1 .. n) /\ Cardinality(1 .. n) = n
    BY FS_Interval
  <2>2. IsFiniteSet(D) /\ c <= n
    BY <2>1, FS_Subset
  <2> QED BY <2>2, FS_CardinalityType
<1>2. ASSUME NEW i \in D PROVE r[i] \in 1 .. c /\ r[i] <= i
  <2>1. upTo(i) \in SUBSET D /\ upTo(i) \in SUBSET (1 .. i) /\ i \in upTo(i) /\ i \in Nat
    <3>1. i \in Nat /\ i <= i
      BY <1>0
    <3>2. \A x \in D : x <= i => x \in 1 .. i
      BY <1>0, <3>1
    <3> QED BY <3>1, <3>2
  <2>2. IsFiniteSet(1 .. i) /\ Cardinality(1 .. i) = i
    BY <2>1, FS_Interval
  <2>3. IsFiniteSet(upTo(i)) /\ Cardinality(upTo(i)) <= c /\ Cardinality(upTo(i)) <= i
    BY <1>1, <2>1, <2>2, FS_Subset
  <2>4. Cardinality(upTo(i)) \in Nat /\ Cardinality(upTo(i)) # 0
    BY <2>1, <2>3, FS_CardinalityType, FS_EmptySet
  <2> QED BY <1>1, <2>3, <2>4
<1>3. ASSUME NEW i \in D, NEW j \in D, i < j PROVE r[i] < r[j]
  <2>1. upTo(i) \cup {j} \in SUBSET upTo(j) /\ j \notin upTo(i)
    <3>1. j \in Nat /\ i \in Nat /\ ~(j <= i) /\ j <= j
      BY <1>0, <1>3
    <3>2. \A x \in D : x <= i => x <= j
      BY <1>0, <1>3, <3>1
    <3> QED BY <3>1, <3>2
  <2>2. IsFiniteSet(upTo(i)) /\ IsFiniteSet(upTo(j))
    BY <1>1, FS_Subset
  <2>3. Cardinality(upTo(i) \cup {j}) = Cardinality(upTo(i)) + 1
    BY <2>1, <2>2, FS_AddElement
  <2>4. Cardinality(upTo(i) \cup {j}) <= Cardinality(upTo(j))
    BY <2>1, <2>2, FS_Subset
  <2>5. Cardinality(upTo(i)) \in Nat /\ Cardinality(upTo(j)) \in Nat
    BY <2>2, FS_CardinalityType
  <2> QED BY <2>3, <2>4, <2>5
<1> HIDE DEF r, c
<1>4. \A i, j \in D : r[i] = r[j] => i = j
  <2>1. \A i, j \in D : i < j \/ j < i \/ i = j
    OBVIOUS
  <2>2. \A i \in D : r[i] \in Int
    BY <1>2
  <2> QED BY <1>3, <2>1, <2>2
<1>5. r \in Injection(D, 1 .. c)
  BY <1>2, <1>4 DEF Injection, IsInjective, r
<1>6. r \in Surjection(D, 1 .. c)
  <2>1. IsFiniteSet(1 .. c) /\ Cardinality(1 .. c) = c
    BY <1>1, FS_Interval
  <2> QED BY <1>5, <2>1, FS_Injection DEF c
<1>7. ASSUME NEW i \in D PROVE Nth(D, r[i]) = i
  <2>1. \A j \in D : Cardinality({x \in D : x <= j}) = r[j]
    BY DEF r
  <2>2. \A j \in D : Cardinality({x \in D : x <= j}) = r[i] <=> j = i
    BY <1>4, <2>1
  <2> QED BY <2>2 DEF Nth
<1>8. \A k \in 1 .. c : \E i \in D : r[i] = k
  BY <1>6 DEF Surjection
<1>9. \A k \in 1 .. c : Nth(D, k) \in D /\ r[Nth(D, k)] = k
  BY <1>7, <1>8
<1>10. ASSUME NEW k \in 1 .. c, NEW l \in 1 .. c, k < l PROVE Nth(D, k) < Nth(D, l)
  <2> DEFINE i == Nth(D, k)
             j == Nth(D, l)
  <2>1. i \in D /\ j \in D /\ r[i] = k /\ r[j] = l
    BY <1>9
  <2> HIDE DEF i, j
  <2>2. i < j \/ j < i \/ i = j
    <3>1. i \in Nat /\ j \in Nat
      BY <1>0, <2>1
    <3> QED BY <3>1
  <2>3. ~(j < i) /\ i # j
    <3>1. j < i => l < k
      BY <1>3, <2>1
    <3> QED BY <1>10, <2>1, <3>1
  <2>4. i < j
    BY <2>2, <2>3
  <2> QED BY <2>4 DEF i, j
<1>11. \A k \in 1 .. c : k <= Nth(D, k)
  BY <1>2, <1>9
<1> QED BY <1>1, <1>2, <1>7, <1>9, <1>10, <1>11 DEF c

\* What a list has at some places, in the order of the list.
LEMMA EntriesAtIs ==
    ASSUME NEW S, NEW list \in Seq(S), NEW D \in SUBSET DOMAIN list,
           NEW some, some = EntriesAt(list, D)
    PROVE  /\ some \in Seq(S) /\ Len(some) = Cardinality(D) /\ DOMAIN some = 1 .. Cardinality(D)
           /\ IsFiniteSet(D) /\ Cardinality(D) \in Nat /\ Cardinality(D) <= Len(list)
           /\ \A k \in DOMAIN some : Nth(D, k) \in D /\ some[k] = list[Nth(D, k)]
           /\ \A i \in D : \E k \in DOMAIN some : k <= i /\ Nth(D, k) = i /\ some[k] = list[i]
<1>1. D \in SUBSET (1 .. Len(list)) /\ Len(list) \in Nat
  OBVIOUS
<1>2. /\ IsFiniteSet(D) /\ Cardinality(D) \in Nat /\ Cardinality(D) <= Len(list)
      /\ \A k \in 1 .. Cardinality(D) : Nth(D, k) \in D
      /\ \A i \in D : \E k \in 1 .. Cardinality(D) : Nth(D, k) = i /\ k <= i
  BY <1>1, NthIs
<1> DEFINE c == Cardinality(D)
<1>3. some = [k \in 1 .. c |-> list[Nth(D, k)]]
  BY DEF EntriesAt
<1> HIDE DEF c
<1>4. \A k \in 1 .. c : list[Nth(D, k)] \in S
  BY <1>1, <1>2 DEF c
<1>5. some \in Seq(S) /\ Len(some) = c /\ DOMAIN some = 1 .. c
  <2>1. some \in [1 .. c -> S] /\ c \in Nat
    BY <1>2, <1>3, <1>4 DEF c
  <2> QED BY <2>1
<1> QED BY <1>2, <1>3, <1>5 DEF c

\* A set written down as a list: each member once.
LEMMA SetToSeqIs ==
    ASSUME NEW S, IsFiniteSet(S), NEW q, q = SetToSeq(S)
    PROVE  /\ q \in Seq(S) /\ Len(q) = Cardinality(S) /\ Cardinality(S) \in Nat
           /\ DOMAIN q = 1 .. Cardinality(S)
           /\ ToSet(q) = S /\ \A i, j \in DOMAIN q : q[i] = q[j] => i = j
<1> DEFINE c == Cardinality(S)
<1>1. c \in Nat /\ ExistsBijection(1 .. c, S)
  BY FS_CardinalityType
<1>2. \E f \in [1 .. c -> S] : IsInjective(f)
  <2>1. PICK f \in Bijection(1 .. c, S) : TRUE
    BY <1>1 DEF ExistsBijection
  <2>2. f \in [1 .. c -> S] /\ \A i, j \in 1 .. c : f[i] = f[j] => i = j
    BY <2>1 DEF Bijection, Injection, IsInjective
  <2> QED BY <2>2 DEF IsInjective
<1>3. q \in [1 .. c -> S] /\ IsInjective(q)
  BY <1>2 DEF SetToSeq
<1>4. q \in Injection(1 .. c, S)
  BY <1>3 DEF Injection, IsInjective
<1>5. q \in Surjection(1 .. c, S)
  <2>1. IsFiniteSet(1 .. c) /\ Cardinality(1 .. c) = c
    BY <1>1, FS_Interval
  <2> QED BY <1>4, <2>1, FS_Injection
<1> HIDE DEF c
<1>6. ToSet(q) = S
  BY <1>3, <1>5 DEF Surjection, ToSet
<1>7. q \in Seq(S) /\ Len(q) = c /\ DOMAIN q = 1 .. c
  BY <1>1, <1>3
<1> QED BY <1>1, <1>3, <1>6, <1>7 DEF IsInjective, c

-----------------------------------------------------------------------------
(* The calendar *)

\* The days before the year that begins in March of `year'.
DaysToMarch(year) ==
    (year \div 400) * 146097 + (year % 400) * 365 + (year % 400) \div 4 - (year % 400) \div 100

LEMMA YearAfter ==
    ASSUME NEW y \in Nat
    PROVE  DaysToMarch(y + 1) = DaysToMarch(y) + 365 +
             IF (y + 1) % 400 = 0 \/ ((y + 1) % 4 = 0 /\ (y + 1) % 100 # 0) THEN 1 ELSE 0
BY DEF DaysToMarch

LEMMA DaysFromMarch ==
    ASSUME NEW t \in Moments
    PROVE  DaysSinceEpoch(t) =
             IF t.month <= 2
             THEN DaysToMarch(t.year - 1) + (153 * (t.month + 9) + 2) \div 5 + t.day - 719469
             ELSE DaysToMarch(t.year) + (153 * (t.month - 3) + 2) \div 5 + t.day - 719469
<1>1. t.year \in Nat /\ t.month \in Nat /\ t.day \in Nat
  BY DEF Moments
<1>2. t.year - 0 = t.year /\ ~(t.month <= 2) <=> t.month > 2 /\ t.month + (-3) = t.month - 3
  BY <1>1
<1>3. DaysToMarch(t.year) \in Int /\ DaysToMarch(t.year - 1) \in Int
  BY <1>1 DEF DaysToMarch
<1>4. CASE t.month <= 2
  BY <1>1, <1>4 DEF DaysSinceEpoch, DaysToMarch
<1>5. CASE ~(t.month <= 2)
  BY <1>1, <1>5 DEF DaysSinceEpoch, DaysToMarch
<1> QED BY <1>4, <1>5

LEMMA MinutesAre ==
    /\ 0 \in Minutes
    /\ \A m \in Minutes : m \in Nat /\ (m < 1439 => m + 1 \in Minutes) /\ (m < 1439 \/ m = 1439)
<1>1. \A n \in Nat :
        /\ 0 \in 0 .. n
        /\ \A m \in 0 .. n : m \in Nat /\ (m < n => m + 1 \in 0 .. n) /\ (m < n \/ m = n)
  OBVIOUS
<1> DEFINE last == 1439
<1>2. last \in Nat /\ 1439 = last
  OBVIOUS
<1>3. Minutes = 0 .. last
  BY Zenon DEF Minutes
<1> HIDE DEF last
<1> QED BY <1>1, <1>2, <1>3

\* Midnight comes one day later: at the end of each month, in February of any year, and
\* at the turn of the year.
LEMMA DayAfter ==
    ASSUME NEW d \in Moments, IsDay(d), NEW e, e = NextMidnight(d)
    PROVE  e \in Moments /\ IsDay(e) /\ e.minute = 0 /\ DaysSinceEpoch(e) = DaysSinceEpoch(d) + 1
<1> DEFINE y == d.year
           m == d.month
           length == DaysInMonth(y, m)
           leap == y % 400 = 0 \/ (y % 4 = 0 /\ y % 100 # 0)
           Starts(x) == (153 * x + 2) \div 5 - 719469
<1>1. y \in Nat /\ y > 0 /\ m \in 1 .. 12 /\ d.day \in Nat /\ d.day > 0 /\ d.day <= length
  BY DEF Moments, IsDay
<1>2. m = 1 \/ m = 2 \/ m = 3 \/ m = 4 \/ m = 5 \/ m = 6 \/ m = 7 \/ m = 8 \/ m = 9 \/ m = 10
      \/ m = 11 \/ m = 12
  BY <1>1
<1>3. /\ length = IF m \in {4, 6, 9, 11} THEN 30 ELSE IF m = 2 THEN (IF leap THEN 29 ELSE 28) ELSE 31
      /\ length \in Nat
  BY DEF DaysInMonth
<1>4. \A a, b : DaysInMonth(a, b) >= 1
  BY DEF DaysInMonth
<1>5. DaysToMarch(y) \in Int /\ DaysToMarch(y - 1) \in Int
      /\ DaysToMarch(y) = DaysToMarch(y - 1) + 365 + (IF leap THEN 1 ELSE 0)
  <2>1. y - 1 \in Nat /\ (y - 1) + 1 = y
    BY <1>1
  <2>2. DaysToMarch((y - 1) + 1) = DaysToMarch(y - 1) + 365 +
          IF ((y - 1) + 1) % 400 = 0 \/ (((y - 1) + 1) % 4 = 0 /\ ((y - 1) + 1) % 100 # 0) THEN 1 ELSE 0
    BY <2>1, YearAfter
  <2> QED BY <1>1, <2>1, <2>2 DEF DaysToMarch
\* The day of a date, from its three numbers.
<1>6. ASSUME NEW t \in Moments, NEW year \in Nat, NEW month \in Nat, NEW day \in Nat,
             t.year = year, t.month = month, t.day = day
      PROVE  /\ month <= 2 => DaysSinceEpoch(t) = DaysToMarch(year - 1) + Starts(month + 9) + day
             /\ month > 2 => DaysSinceEpoch(t) = DaysToMarch(year) + Starts(month - 3) + day
  <2> DEFINE before == (153 * (month + 9) + 2) \div 5
             within == (153 * (month - 3) + 2) \div 5
  <2>1. DaysToMarch(year) \in Int /\ DaysToMarch(year - 1) \in Int
    BY DEF DaysToMarch
  <2>2. before \in Int /\ within \in Int
    OBVIOUS
  <2>3. DaysSinceEpoch(t) = IF month <= 2 THEN DaysToMarch(year - 1) + before + day - 719469
                            ELSE DaysToMarch(year) + within + day - 719469
    BY <1>6, DaysFromMarch
  <2>4. Starts(month + 9) = before - 719469 /\ Starts(month - 3) = within - 719469
    OBVIOUS
  <2> HIDE DEF before, within, Starts
  <2>5. month > 2 <=> ~(month <= 2)
    OBVIOUS
  <2> QED BY <2>1, <2>2, <2>3, <2>4, <2>5
<1>7. /\ m <= 2 => DaysSinceEpoch(d) = DaysToMarch(y - 1) + Starts(m + 9) + d.day
      /\ m > 2 => DaysSinceEpoch(d) = DaysToMarch(y) + Starts(m - 3) + d.day
  BY <1>1, <1>6
<1>8. \A x \in Int : Starts(x) \in Int
  OBVIOUS
<1> HIDE DEF length, leap, y, m, Starts
<1>9. CASE d.day < length
  <2>1. e = [year |-> y, month |-> m, day |-> d.day + 1, minute |-> 0]
    BY <1>9 DEF NextMidnight, Moment, length, y, m
  <2>2. e.year = y /\ e.month = m /\ e.day = d.day + 1 /\ d.day + 1 <= length /\ d.day + 1 \in Nat
    BY <1>1, <1>3, <1>9, <2>1
  <2>3. e \in Moments
    BY <1>1, <2>1, <2>2, MinutesAre DEF Moments
  <2>4. IsDay(e)
    BY <1>1, <2>2 DEF IsDay, length
  <2>5. /\ m <= 2 => DaysSinceEpoch(e) = DaysToMarch(y - 1) + Starts(m + 9) + (d.day + 1)
        /\ m > 2 => DaysSinceEpoch(e) = DaysToMarch(y) + Starts(m - 3) + (d.day + 1)
    BY <1>1, <1>6, <2>2, <2>3
  <2>6. DaysSinceEpoch(e) = DaysSinceEpoch(d) + 1
    BY <1>1, <1>5, <1>7, <1>8, <2>5
  <2> QED BY <2>1, <2>3, <2>4, <2>6
<1>10. CASE d.day = length /\ m < 12
  <2>1. e = [year |-> y, month |-> m + 1, day |-> 1, minute |-> 0]
    BY <1>3, <1>10 DEF NextMidnight, Moment, length, y, m
  <2>2. e.year = y /\ e.month = m + 1 /\ e.day = 1 /\ m + 1 \in 1 .. 12
    BY <1>1, <1>10, <2>1
  <2>3. e \in Moments
    BY <1>1, <2>1, <2>2, MinutesAre DEF Moments
  <2>4. IsDay(e)
    BY <1>1, <1>4, <2>2 DEF IsDay
  <2>5. /\ m + 1 <= 2 => DaysSinceEpoch(e) = DaysToMarch(y - 1) + Starts(m + 1 + 9) + 1
        /\ m + 1 > 2 => DaysSinceEpoch(e) = DaysToMarch(y) + Starts(m + 1 - 3) + 1
    BY <1>1, <1>6, <2>2, <2>3
  <2>6. DaysSinceEpoch(e) = DaysSinceEpoch(d) + 1
    BY <1>2, <1>3, <1>5, <1>7, <1>10, <2>5 DEF Starts
  <2> QED BY <2>1, <2>3, <2>4, <2>6
<1>11. CASE d.day = length /\ m = 12
  <2>1. e = [year |-> y + 1, month |-> 1, day |-> 1, minute |-> 0]
    BY <1>3, <1>11 DEF NextMidnight, Moment, length, y, m
  <2>2. e.year = y + 1 /\ e.month = 1 /\ e.day = 1 /\ y + 1 \in Nat /\ y + 1 - 1 = y /\ length = 31
    BY <1>1, <1>3, <1>11, <2>1
  <2>3. e \in Moments
    BY <1>1, <2>1, <2>2, MinutesAre DEF Moments
  <2>4. IsDay(e)
    BY <1>1, <1>4, <2>2 DEF IsDay
  <2>5. DaysSinceEpoch(e) = DaysToMarch(y + 1 - 1) + Starts(1 + 9) + 1
    BY <1>1, <1>6, <2>2, <2>3
  <2>6. DaysSinceEpoch(e) = DaysSinceEpoch(d) + 1
    BY <1>5, <1>7, <1>11, <2>2, <2>5 DEF Starts
  <2> QED BY <2>1, <2>3, <2>4, <2>6
<1>12. d.day < length \/ d.day = length
  BY <1>1, <1>3
<1> QED BY <1>2, <1>9, <1>10, <1>11, <1>12

\* One minute later, to the clock as in the count of minutes.
LEMMA MinuteAfter ==
    ASSUME NEW t \in Moments, IsDay(t), NEW u, u = NextMinute(t)
    PROVE  u \in Moments /\ IsDay(u) /\ UtcMinutes(t) \in Int /\ UtcMinutes(u) = UtcMinutes(t) + 1
<1>1. \A x \in Moments : /\ x.year \in Nat /\ x.month \in Nat /\ x.day \in Nat
                         /\ x.minute \in Minutes /\ x.minute \in Int
                         /\ DaysSinceEpoch(x) \in Int
  <2> SUFFICES ASSUME NEW x \in Moments PROVE DaysSinceEpoch(x) \in Int
    BY MinutesAre DEF Moments
  <2>1. x.year \in Nat /\ x.month \in Nat /\ x.day \in Nat
    BY DEF Moments
  <2>2. DaysToMarch(x.year - 1) \in Int /\ DaysToMarch(x.year) \in Int
    BY <2>1 DEF DaysToMarch
  <2>3. (153 * (x.month + 9) + 2) \div 5 \in Int /\ (153 * (x.month - 3) + 2) \div 5 \in Int
    BY <2>1
  <2>4. \A a, b \in Int : a + b + x.day - 719469 \in Int
    BY <2>1
  <2> QED BY <2>2, <2>3, <2>4, DaysFromMarch
<1>2. CASE t.minute < 1439
  <2>1. u = [year |-> t.year, month |-> t.month, day |-> t.day, minute |-> t.minute + 1]
    BY <1>2 DEF NextMinute, Moment
  <2>2. u \in Moments /\ u.minute = t.minute + 1
    BY <1>1, <1>2, <2>1, MinutesAre DEF Moments
  <2>3. u.year = t.year /\ u.month = t.month /\ u.day = t.day
    BY <2>1
  <2>4. IsDay(u) /\ DaysSinceEpoch(u) = DaysSinceEpoch(t)
    BY <2>3 DEF IsDay, DaysSinceEpoch
  <2>5. t.minute \in Int /\ DaysSinceEpoch(t) \in Int
    BY <1>1
  <2>6. UtcMinutes(u) = DaysSinceEpoch(t) * 1440 + (t.minute + 1)
    BY <2>2, <2>4 DEF UtcMinutes
  <2>7. UtcMinutes(t) = DaysSinceEpoch(t) * 1440 + t.minute
    BY DEF UtcMinutes
  <2> QED BY <2>2, <2>4, <2>5, <2>6, <2>7
<1>3. CASE t.minute = 1439
  <2>1. u = NextMidnight(t)
    BY <1>3 DEF NextMinute
  <2>2. u \in Moments /\ IsDay(u) /\ u.minute = 0 /\ DaysSinceEpoch(u) = DaysSinceEpoch(t) + 1
    BY <2>1, DayAfter
  <2> QED BY <1>1, <1>3, <2>2 DEF UtcMinutes
<1>4. t.minute < 1439 \/ t.minute = 1439
  BY <1>1, MinutesAre
<1> QED BY <1>2, <1>3, <1>4

\* The count of minutes follows the ticks of a clock.
LEMMA ClockTicks ==
    ASSUME NEW c \in Clocks
    PROVE  /\ \A i \in DOMAIN c : c[i] \in Moments /\ IsDay(c[i]) /\ UtcMinutes(c[i]) \in Int
           /\ \A i, j \in DOMAIN c : UtcMinutes(c[i]) - UtcMinutes(c[j]) = i - j
<1>1. /\ c \in Seq(Moments) /\ c # <<>> /\ IsDay(c[1])
      /\ \A i \in 1 .. Len(c) - 1 : c[i + 1] = NextMinute(c[i])
  BY SectionsAssumption
<1>2. Len(c) \in Nat /\ DOMAIN c = 1 .. Len(c) /\ 1 \in DOMAIN c /\ c[1] \in Moments
  BY <1>1
<1> DEFINE first == UtcMinutes(c[1])
           Good == {i \in Nat : i + 1 \in DOMAIN c =>
                      /\ c[i + 1] \in Moments /\ IsDay(c[i + 1])
                      /\ UtcMinutes(c[i + 1]) = first + i}
<1>3. first \in Int
  BY <1>1, <1>2, MinuteAfter
<1>4. 0 \in Good
  BY <1>1, <1>2, <1>3
<1>5. ASSUME NEW i \in Nat, i \in Good PROVE i + 1 \in Good
  <2> SUFFICES ASSUME i + 1 + 1 \in DOMAIN c
               PROVE  /\ c[i + 1 + 1] \in Moments /\ IsDay(c[i + 1 + 1])
                      /\ UtcMinutes(c[i + 1 + 1]) = first + (i + 1)
    OBVIOUS
  <2>1. i + 1 \in DOMAIN c /\ i + 1 \in 1 .. Len(c) - 1
    BY <1>2
  <2>2. /\ c[i + 1] \in Moments /\ IsDay(c[i + 1]) /\ UtcMinutes(c[i + 1]) = first + i
        /\ c[i + 1 + 1] = NextMinute(c[i + 1])
    BY <1>1, <1>5, <2>1
  <2> QED BY <1>3, <2>2, MinuteAfter
<1> HIDE DEF Good, first
<1>6. \A i \in Nat : i \in Good
  BY <1>4, <1>5, Induction
<1>7. ASSUME NEW i \in DOMAIN c
      PROVE  c[i] \in Moments /\ IsDay(c[i]) /\ UtcMinutes(c[i]) = first + i - 1
  <2>1. i - 1 \in Nat /\ (i - 1) + 1 = i /\ i \in Nat
    BY <1>2
  <2>2. i - 1 \in Good
    BY <1>6, <2>1
  <2>3. /\ c[(i - 1) + 1] \in Moments /\ IsDay(c[(i - 1) + 1])
        /\ UtcMinutes(c[(i - 1) + 1]) = first + (i - 1)
    BY <2>1, <2>2 DEF Good
  <2> QED BY <1>3, <2>1, <2>3
<1>8. \A i \in DOMAIN c : i \in Int
  BY <1>2
<1> QED BY <1>3, <1>7, <1>8

\* Two moments of a clock are within a minute when no more than a tick lies between them.
LEMMA WithinMinute ==
    ASSUME NEW c \in Clocks, NEW i \in DOMAIN c, NEW j \in DOMAIN c
    PROVE  /\ Distance(c[i], c[j]) \in Nat
           /\ Distance(c[i], c[j]) <= 1 <=> i - j \in -1 .. 1
<1>1. UtcMinutes(c[i]) \in Int /\ UtcMinutes(c[j]) \in Int
      /\ UtcMinutes(c[i]) - UtcMinutes(c[j]) = i - j
  BY ClockTicks
<1>2. i \in Int /\ j \in Int
  BY SectionsAssumption
<1> QED BY <1>1, <1>2 DEF Distance

-----------------------------------------------------------------------------
(* The shutdowns that were written down twice *)

\* The record 6008 a record e uses up, of those that are still free.
Closest(events, e, free) ==
    LET near == {j \in free : Distance(events[j].time, e.time) <= 1}
    IN  {j \in near : \A k \in near :
            LET d(x) == Distance(events[x].time, e.time)
            IN  d(j) < d(k) \/ (d(j) = d(k) /\ j <= k)}

Late(events) == {j \in DOMAIN events : events[j].id = 6008}

\* What is used up after one more record.
UsedAfter(events, used, e) ==
    IF e.id = 41 THEN used \cup Closest(events, e, Late(events) \ used) ELSE used

\* The records are gone through one after the other.
LEMMA PairedIs ==
    ASSUME NEW n \in Nat, NEW ev, DOMAIN ev = 1 .. n
    PROVE  \E used \in [0 .. n -> SUBSET (1 .. n)] :
             /\ used[0] = {} /\ used[n] = Paired(ev)
             /\ \A k \in 0 .. n - 1 : used[k + 1] = UsedAfter(ev, used[k], ev[k + 1])
<1> DEFINE Add(used, e) == UsedAfter(ev, used, e)
           Pass(F, k) == [s \in SUBSET (1 .. k) |->
                            IF s = {} THEN {} ELSE Add(F[s \ {Max(s)}], ev[Max(s)])]
           pass == CHOOSE F : F = Pass(F, n)
<1>1. Paired(ev) = pass[1 .. n]
  <2>1. Paired(ev) = FoldLeft(Add, {}, ev)
    BY ZenonT(30) DEF Paired, UsedAfter, Closest, Late
  <2> QED BY <2>1 DEF FoldLeft, MapThenFoldSet
<1> HIDE DEF Add
\* There is such a pass, whatever is added.
<1>2. \E F : F = Pass(F, n)
  <2> DEFINE Good == {k \in Nat : \E F : F = Pass(F, k)}
  <2>1. 0 \in Good
    <3>1. 1 .. 0 = {} /\ SUBSET {} = {{}}
      OBVIOUS
    <3> DEFINE F0 == [s \in {{}} |-> {}]
    <3>2. F0 = Pass(F0, 0)
      BY <3>1
    <3> QED BY <3>2
  <2>2. ASSUME NEW k \in Nat, k \in Good PROVE k + 1 \in Good
    <3>1. PICK F : F = Pass(F, k)
      BY <2>2
    <3> DEFINE G == [s \in SUBSET (1 .. (k + 1)) |->
                       IF k + 1 \in s THEN Add(F[s \ {k + 1}], ev[k + 1]) ELSE F[s]]
    <3>2. \A s \in SUBSET (1 .. (k + 1)) : s \ {k + 1} \in SUBSET (1 .. k)
      OBVIOUS
    <3>3. ASSUME NEW s \in SUBSET (1 .. (k + 1))
          PROVE  G[s] = IF s = {} THEN {} ELSE Add(G[s \ {Max(s)}], ev[Max(s)])
      <4>1. CASE k + 1 \in s
        <5>1. s \subseteq Int /\ \A y \in s : k + 1 >= y
          OBVIOUS
        <5>2. Max(s) = k + 1
          BY <4>1, <5>1, MaxIs
        <5>3. G[s \ {k + 1}] = F[s \ {k + 1}]
          BY <3>2
        <5>4. G[s] = Add(F[s \ {k + 1}], ev[k + 1])
          BY <4>1
        <5> QED BY <4>1, <5>2, <5>3, <5>4
      <4>2. CASE k + 1 \notin s /\ s # {}
        <5>1. s \in SUBSET (1 .. k)
          BY <3>2, <4>2
        <5>2. Max(s) \in s
          BY <4>2, <5>1, Greatest
        <5>3. s \ {Max(s)} \in SUBSET (1 .. (k + 1)) /\ k + 1 \notin s \ {Max(s)}
          BY <4>2
        <5>4. G[s] = F[s] /\ G[s \ {Max(s)}] = F[s \ {Max(s)}]
          BY <4>2, <5>3
        <5>5. F[s] = Add(F[s \ {Max(s)}], ev[Max(s)])
          BY <3>1, <4>2, <5>1
        <5> QED BY <4>2, <5>4, <5>5
      <4>3. CASE s = {}
        <5>1. s \in SUBSET (1 .. k) /\ k + 1 \notin s
          BY <4>3
        <5>2. F[s] = {}
          BY <3>1, <4>3, <5>1
        <5> QED BY <4>3, <5>1, <5>2
      <4> QED BY <4>1, <4>2, <4>3
    <3> HIDE DEF G
    <3>4. G = [s \in SUBSET (1 .. (k + 1)) |-> G[s]]
      BY DEF G
    <3>5. G = Pass(G, k + 1)
      BY <3>3, <3>4
    <3> HIDE DEF Pass
    <3> QED BY <3>5
  <2> HIDE DEF Good
  <2>3. n \in Good
    BY <2>1, <2>2, Induction
  <2> QED BY <2>3 DEF Good
<1>3. pass = Pass(pass, n)
  <2> HIDE DEF Pass
  <2> QED BY <1>2
<1> HIDE DEF pass
<1> DEFINE used == [k \in 0 .. n |-> pass[1 .. k]]
<1>4. used[0] = {} /\ used[n] = Paired(ev)
  <2>1. 1 .. 0 = {} /\ 0 \in 0 .. n /\ n \in 0 .. n
    OBVIOUS
  <2>2. pass[{}] = {}
    BY <1>3
  <2> QED BY <1>1, <2>1, <2>2
<1>5. ASSUME NEW k \in 0 .. n - 1 PROVE used[k + 1] = UsedAfter(ev, used[k], ev[k + 1])
  <2>1. /\ k \in 0 .. n /\ k + 1 \in 0 .. n /\ k + 1 \in 1 .. k + 1
        /\ 1 .. k + 1 \in SUBSET (1 .. n) /\ (1 .. k + 1) \ {k + 1} = 1 .. k
    OBVIOUS
  <2>2. 1 .. k + 1 \subseteq Int /\ \A y \in 1 .. k + 1 : k + 1 >= y
    OBVIOUS
  <2>3. Max(1 .. k + 1) = k + 1
    BY <2>1, <2>2, MaxIs
  <2>4. pass[1 .. k + 1] = Add(pass[(1 .. k + 1) \ {k + 1}], ev[k + 1])
    BY <1>3, <2>1, <2>3
  <2>5. used[k] = pass[1 .. k] /\ used[k + 1] = pass[1 .. k + 1]
    BY <2>1
  <2> HIDE DEF used
  <2>6. used[k + 1] = Add(used[k], ev[k + 1])
    BY <2>1, <2>4, <2>5
  <2> QED BY <2>6 DEF Add
<1>6. \A k \in 0 .. n : used[k] \in SUBSET (1 .. n)
  <2> DEFINE Good == {k \in Nat : k \in 0 .. n => used[k] \in SUBSET (1 .. n)}
  <2>1. 0 \in Good
    BY <1>4
  <2>2. ASSUME NEW k \in Nat, k \in Good PROVE k + 1 \in Good
    <3> HIDE DEF used
    <3> SUFFICES ASSUME k + 1 \in 0 .. n PROVE used[k + 1] \in SUBSET (1 .. n)
      OBVIOUS
    <3>1. k \in 0 .. n - 1 /\ used[k] \in SUBSET (1 .. n)
      BY <2>2
    <3>2. used[k + 1] = UsedAfter(ev, used[k], ev[k + 1])
      BY <1>5, <3>1
    <3>3. Closest(ev, ev[k + 1], Late(ev) \ used[k]) \subseteq 1 .. n
      BY DEF Closest, Late
    <3> QED BY <3>1, <3>2, <3>3 DEF UsedAfter
  <2> HIDE DEF Good
  <2>3. \A k \in Nat : k \in Good
    BY <2>1, <2>2, Induction
  <2> QED BY <2>3 DEF Good
<1>7. used \in [0 .. n -> SUBSET (1 .. n)]
  BY <1>6
<1> HIDE DEF used
<1> QED BY <1>4, <1>5, <1>7

LEMMA Least ==
    ASSUME NEW n \in Nat, NEW s, s \subseteq 1 .. n, s # {}
    PROVE  \E x \in s : \A y \in s : x <= y
<1> DEFINE t == {n + 1 - y : y \in s}
<1>1. t \subseteq 1 .. n /\ t # {}
  <2>1. \A y \in s : n + 1 - y \in 1 .. n
    OBVIOUS
  <2> QED BY <2>1
<1>2. Max(t) \in t /\ \A y \in t : Max(t) >= y
  BY <1>1, Greatest
<1>3. PICK x \in s : Max(t) = n + 1 - x
  BY <1>2
<1>4. ASSUME NEW y \in s PROVE x <= y
  <2>1. n + 1 - x >= n + 1 - y
    BY <1>2, <1>3
  <2>2. x \in Int /\ y \in Int
    OBVIOUS
  <2> QED BY <2>1, <2>2
<1> QED BY <1>4

\* One record is used up, if there is one near enough that is free.
LEMMA ClosestIs ==
    ASSUME NEW n \in Nat, NEW ev, NEW e, NEW free \in SUBSET (1 .. n),
           \A j \in free : Distance(ev[j].time, e.time) \in Nat
    PROVE  /\ (\A j \in free : ~(Distance(ev[j].time, e.time) <= 1)) => Closest(ev, e, free) = {}
           /\ \A i \in free : Distance(ev[i].time, e.time) <= 1 =>
                \E j \in free : Distance(ev[j].time, e.time) <= 1 /\ Closest(ev, e, free) = {j}
<1> DEFINE near == {j \in free : Distance(ev[j].time, e.time) <= 1}
           d(x) == Distance(ev[x].time, e.time)
           First(j) == \A k \in near : d(j) < d(k) \/ (d(j) = d(k) /\ j <= k)
<1>1. Closest(ev, e, free) = {j \in near : First(j)}
  BY Zenon DEF Closest
<1>2. \A j \in near : d(j) \in Nat /\ d(j) <= 1 /\ j \in 1 .. n
  OBVIOUS
<1>3. \A j \in near : d(j) = 0 \/ d(j) = 1
  BY <1>2
<1>4. near \subseteq 1 .. n
  OBVIOUS
<1> HIDE DEF d
<1>5. ASSUME near # {} PROVE \E j \in near : First(j)
  <2> DEFINE zero == {j \in near : d(j) = 0}
  <2>1. CASE zero # {}
    <3>1. PICK x \in zero : \A y \in zero : x <= y
      BY <1>4, <2>1, Least
    <3> QED BY <1>3, <3>1
  <2>2. CASE zero = {}
    <3>1. PICK x \in near : \A y \in near : x <= y
      BY <1>4, <1>5, Least
    <3>2. \A y \in near : d(y) = 1
      BY <1>3, <2>2
    <3> QED BY <3>1, <3>2
  <2> QED BY <2>1, <2>2
<1>6. ASSUME NEW i \in near, NEW j \in near, First(i), First(j) PROVE i = j
  <2>1. /\ d(i) < d(j) \/ (d(i) = d(j) /\ i <= j)
        /\ d(j) < d(i) \/ (d(j) = d(i) /\ j <= i)
    BY <1>6
  <2>2. d(i) \in Nat /\ d(j) \in Nat /\ i \in Int /\ j \in Int
    BY <1>2
  <2> QED BY <2>1, <2>2
<1>7. near = {} => {j \in near : First(j)} = {}
  OBVIOUS
<1> HIDE DEF First
<1>8. ASSUME near # {} PROVE \E i \in near : {j \in near : First(j)} = {i}
  <2>1. PICK i \in near : First(i)
    BY <1>5, <1>8
  <2>2. \A j \in near : First(j) => j = i
    BY <1>6, <2>1
  <2> QED BY <2>1, <2>2
<1> QED BY <1>1, <1>7, <1>8

\* No two pairs have a record in common.
Matching(m) == \A p, q \in m : p # q => p[1] # q[1] /\ p[2] # q[2]

\* Any two of the records are so many minutes apart.
Measured(ev) == \A i, j \in DOMAIN ev : Distance(ev[i].time, ev[j].time) \in Nat

\* Each record has a place g[i] of its own; `near' are the places of a 41 and a 6008 within
\* a minute.
Placed(ev, g, near) ==
    /\ DOMAIN g = DOMAIN ev /\ \A i, j \in DOMAIN ev : g[i] = g[j] => i = j
    /\ \A p \in near : \E i, j \in DOMAIN ev : p = <<g[i], g[j]>>
    /\ \A i, j \in DOMAIN ev : <<g[i], g[j]>> \in near <=>
          /\ ev[i].id = 41 /\ ev[j].id = 6008 /\ Distance(ev[j].time, ev[i].time) <= 1

\* Pairs of the records that are used up, to which none of `near' can be added.
Pairs(m, ev, g, near) ==
    /\ Matching(m) /\ {p[2] : p \in m} = {g[j] : j \in Paired(ev)}
    /\ \A p \in near : \E q \in m : q[1] = p[1] \/ q[2] = p[2]

\* What is used up makes pairs, to which none can be added: each pair that there might
\* be has a record in common with one of them.
LEMMA PairsWhole ==
    ASSUME NEW n \in Nat, NEW ev, DOMAIN ev = 1 .. n, Measured(ev),
           NEW g, NEW near, Placed(ev, g, near)
    PROVE  Paired(ev) \in SUBSET (1 .. n) /\ \E m \in SUBSET near : Pairs(m, ev, g, near)
<1>1. PICK used \in [0 .. n -> SUBSET (1 .. n)] :
             /\ used[0] = {} /\ used[n] = Paired(ev)
             /\ \A k \in 0 .. n - 1 : used[k + 1] = UsedAfter(ev, used[k], ev[k + 1])
  BY PairedIs, Zenon
<1>a. \A i, j \in 1 .. n : g[i] = g[j] => i = j
  BY DEF Placed
<1> DEFINE OK(k, m) ==
             /\ Matching(m) /\ {p[2] : p \in m} = {g[j] : j \in used[k]}
             /\ \A p \in m : \E i \in 1 .. k : p[1] = g[i]
             /\ \A i \in 1 .. k, j \in 1 .. n :
                  <<g[i], g[j]>> \in near => (\E q \in m : q[1] = g[i]) \/ j \in used[k]
           Good == {k \in Nat : k \in 0 .. n => \E m \in SUBSET near : OK(k, m)}
<1>2. 0 \in Good
  <2>1. OK(0, {})
    BY <1>1 DEF Matching
  <2> HIDE DEF OK
  <2> QED BY <2>1
<1> HIDE DEF OK
<1>3. ASSUME NEW k \in Nat, k \in Good PROVE k + 1 \in Good
  <2> SUFFICES ASSUME k + 1 \in 0 .. n PROVE \E m \in SUBSET near : OK(k + 1, m)
    BY DEF Good
  <2>1. k \in 0 .. n - 1 /\ k \in 0 .. n /\ k + 1 \in 1 .. n /\ k + 1 \in 0 .. n
    OBVIOUS
  <2>2. PICK m \in SUBSET near : OK(k, m)
    BY <1>3, <2>1 DEF Good
  <2> DEFINE e == ev[k + 1]
             free == Late(ev) \ used[k]
             close == {j \in free : Distance(ev[j].time, e.time) <= 1}
  <2>3. used[k + 1] = UsedAfter(ev, used[k], e) /\ used[k] \in SUBSET (1 .. n)
    BY <1>1, <2>1
  <2>4. \A i \in 1 .. k + 1 : i \in 1 .. k \/ i = k + 1
    OBVIOUS
  <2>5. 1 .. k \subseteq 1 .. n /\ k + 1 \notin 1 .. k /\ 1 .. k \subseteq 1 .. k + 1
    BY <2>1
  <2>6. free \in SUBSET (1 .. n) /\ \A j \in free : Distance(ev[j].time, e.time) \in Nat
    BY <2>1 DEF Late, Measured
  <2>7. \A j \in 1 .. n : <<g[k + 1], g[j]>> \in near =>
          e.id = 41 /\ ev[j].id = 6008 /\ Distance(ev[j].time, e.time) <= 1
    BY <2>1 DEF Placed
  <2>b. \A j \in 1 .. n : <<g[k + 1], g[j]>> \in near => e.id = 41 /\ (j \in used[k] \/ j \in close)
    BY <2>7 DEF Late
  <2>8. CASE e.id # 41 \/ close = {}
    <3>1. used[k + 1] = used[k]
      <4>1. CASE e.id # 41
        BY <2>3, <4>1 DEF UsedAfter
      <4>2. CASE close = {}
        <5>1. \A j \in free : ~(Distance(ev[j].time, e.time) <= 1)
          BY <4>2
        <5> HIDE DEF free, close, e
        <5>2. Closest(ev, e, free) = {}
          BY <2>6, <5>1, ClosestIs
        <5> QED BY <2>3, <5>2 DEF UsedAfter, free, e
      <4> QED BY <2>8, <4>1, <4>2
    <3> HIDE DEF close, free, e
    <3>2. \A j \in 1 .. n : <<g[k + 1], g[j]>> \in near => j \in used[k]
      BY <2>b, <2>8
    <3>3. OK(k + 1, m)
      BY <2>2, <2>4, <2>5, <3>1, <3>2 DEF OK
    <3> QED BY <3>3
  <2>9. CASE e.id = 41 /\ close # {}
    <3>1. PICK c \in close : Closest(ev, e, free) = {c}
      <4>1. PICK i \in free : Distance(ev[i].time, e.time) <= 1
        BY <2>9
      <4> HIDE DEF free, e
      <4>2. \E j \in free : Distance(ev[j].time, e.time) <= 1 /\ Closest(ev, e, free) = {j}
        BY <2>6, <4>1, ClosestIs
      <4> QED BY <4>2
    <3>2. used[k + 1] = used[k] \cup {c}
      BY <2>3, <2>9, <3>1 DEF UsedAfter
    <3>3. c \in 1 .. n /\ c \notin used[k] /\ ev[c].id = 6008 /\ Distance(ev[c].time, e.time) <= 1
      BY DEF Late
    <3> DEFINE pair == <<g[k + 1], g[c]>>
               more == m \cup {pair}
    <3>4. pair \in near /\ pair[1] = g[k + 1] /\ pair[2] = g[c]
      BY <2>1, <2>9, <3>3 DEF Placed
    <3> HIDE DEF pair, e, close, free
    <3>5. \A p \in m : p[1] # pair[1] /\ p[2] # pair[2]
      <4>1. \A i \in 1 .. k : g[i] # g[k + 1]
        BY <1>a, <2>1, <2>5
      <4>2. \A j \in used[k] : g[j] # g[c]
        BY <1>a, <2>3, <3>3
      <4>3. \A p \in m : (\E i \in 1 .. k : p[1] = g[i]) /\ \E j \in used[k] : p[2] = g[j]
        BY <2>2 DEF OK
      <4> QED BY <3>4, <4>1, <4>2, <4>3
    <3>6. Matching(more)
      BY <2>2, <3>5 DEF Matching, OK
    <3>7. {p[2] : p \in more} = {g[j] : j \in used[k + 1]}
      <4>1. {p[2] : p \in more} = {p[2] : p \in m} \cup {pair[2]}
        OBVIOUS
      <4>2. {g[j] : j \in used[k + 1]} = {g[j] : j \in used[k]} \cup {g[c]}
        BY <3>2
      <4> QED BY <2>2, <3>4, <4>1, <4>2 DEF OK
    <3>8. \A p \in more : \E i \in 1 .. k + 1 : p[1] = g[i]
      <4>1. k + 1 \in 1 .. k + 1
        OBVIOUS
      <4> QED BY <2>2, <2>5, <3>4, <4>1 DEF OK
    <3>9. ASSUME NEW i \in 1 .. k + 1, NEW j \in 1 .. n, <<g[i], g[j]>> \in near
          PROVE  (\E q \in more : q[1] = g[i]) \/ j \in used[k + 1]
      <4>1. CASE i = k + 1
        BY <3>4, <4>1
      <4>2. CASE i \in 1 .. k
        BY <2>2, <3>2, <3>9, <4>2 DEF OK
      <4> QED BY <2>4, <4>1, <4>2
    <3> HIDE DEF more
    <3>10. more \in SUBSET near
      BY <3>4 DEF more
    <3>11. OK(k + 1, more)
      BY <3>6, <3>7, <3>8, <3>9 DEF OK
    <3> QED BY <3>10, <3>11
  <2> QED BY <2>8, <2>9
<1> HIDE DEF Good
<1>4. n \in Good
  BY <1>2, <1>3, Induction
<1>5. PICK m \in SUBSET near : OK(n, m)
  BY <1>4 DEF Good
<1>6. ASSUME NEW p \in near PROVE \E q \in m : q[1] = p[1] \/ q[2] = p[2]
  <2>1. PICK i \in 1 .. n, j \in 1 .. n : p = <<g[i], g[j]>>
    BY DEF Placed
  <2>2. (\E q \in m : q[1] = g[i]) \/ j \in used[n]
    BY <1>5, <2>1 DEF OK
  <2>3. j \in used[n] => g[j] \in {q[2] : q \in m}
    BY <1>5 DEF OK
  <2> QED BY <2>1, <2>2, <2>3
<1>7. n \in 0 .. n
  OBVIOUS
<1>8. Paired(ev) \in SUBSET (1 .. n)
  BY <1>1, <1>7
<1>9. Matching(m) /\ {p[2] : p \in m} = {g[j] : j \in Paired(ev)}
  BY <1>1, <1>5 DEF OK
<1> QED BY <1>6, <1>8, <1>9 DEF Pairs

\* Pairs that find no others make at least half of the most there can be.
LEMMA HalfOfMost ==
    ASSUME NEW near, IsFiniteSet(near), NEW m \in SUBSET near, Matching(m),
           \A p \in near : \E q \in m : q[1] = p[1] \/ q[2] = p[2],
           NEW most, most = Max({Cardinality(x) : x \in {y \in SUBSET near : Matching(y)}})
    PROVE  Cardinality(m) \in Nat /\ Cardinality(m) <= most /\ 2 * Cardinality(m) >= most
<1> DEFINE sizes == {Cardinality(x) : x \in {y \in SUBSET near : Matching(y)}}
           c == Cardinality(m)
<1>1. \A x \in SUBSET near : IsFiniteSet(x) /\ Cardinality(x) \in Nat
                              /\ Cardinality(x) <= Cardinality(near)
  BY FS_Subset, FS_CardinalityType
<1>2. Cardinality(near) \in Nat /\ c \in Nat
  BY <1>1, FS_CardinalityType
<1>3. ASSUME NEW x \in SUBSET near, Matching(x) PROVE Cardinality(x) <= 2 * c
  <2> DEFINE one == {p \in x : \E q \in m : q[1] = p[1]}
             two == {p \in x : \E q \in m : q[2] = p[2]}
             f == [p \in one |-> CHOOSE q \in m : q[1] = p[1]]
             g == [p \in two |-> CHOOSE q \in m : q[2] = p[2]]
  <2>1. IsFiniteSet(one) /\ IsFiniteSet(two) /\ IsFiniteSet(m)
        /\ Cardinality(one) \in Nat /\ Cardinality(two) \in Nat
    <3>1. one \in SUBSET near /\ two \in SUBSET near
      OBVIOUS
    <3> HIDE DEF one, two
    <3> QED BY <1>1, <3>1
  <2>2. \A p \in one : f[p] \in m /\ f[p][1] = p[1]
    OBVIOUS
  <2>3. \A p \in two : g[p] \in m /\ g[p][2] = p[2]
    OBVIOUS
  <2>4. f \in [one -> m] /\ g \in [two -> m]
    BY <2>2, <2>3
  <2>5. one \in SUBSET x /\ two \in SUBSET x /\ x = one \cup two
    OBVIOUS
  <2> HIDE DEF one, two, f, g
  <2>6. \A p, q \in one : f[p] = f[q] => p = q
    BY <1>3, <2>2, <2>5 DEF Matching
  <2>7. \A p, q \in two : g[p] = g[q] => p = q
    BY <1>3, <2>3, <2>5 DEF Matching
  <2>8. f \in Injection(one, m) /\ g \in Injection(two, m)
    BY <2>4, <2>6, <2>7 DEF Injection, IsInjective
  <2>9. Cardinality(one) <= c /\ Cardinality(two) <= c
    BY <2>1, <2>8, FS_Injection
  <2>10. Cardinality(x) = Cardinality(one) + Cardinality(two) - Cardinality(one \cap two)
    BY <2>1, <2>5, FS_Union
  <2>11. Cardinality(one \cap two) \in Nat
    <3>1. one \cap two \in SUBSET near
      BY <2>5
    <3> QED BY <1>1, <3>1
  <2> QED BY <1>2, <2>1, <2>9, <2>10, <2>11
<1> DEFINE t == {s + 1 : s \in sizes}
<1>4. c \in sizes
  OBVIOUS
<1>5. \A s \in sizes : s \in Nat /\ s <= Cardinality(near) /\ s <= 2 * c
  BY <1>1, <1>3
<1> HIDE DEF sizes, c
<1>6. t \subseteq 1 .. Cardinality(near) + 1 /\ t # {}
  BY <1>2, <1>4, <1>5
<1>7. Max(t) \in t /\ \A y \in t : Max(t) >= y
  <2> HIDE DEF t
  <2>1. Cardinality(near) + 1 \in Nat
    BY <1>2
  <2> QED BY <1>6, <2>1, Greatest
<1>8. PICK s \in sizes : Max(t) = s + 1
  BY <1>7
<1>9. \A y \in sizes : s >= y
  <2> SUFFICES ASSUME NEW y \in sizes PROVE s >= y
    OBVIOUS
  <2>1. s + 1 >= y + 1
    BY <1>7, <1>8
  <2> QED BY <1>5, <2>1
<1>10. sizes \subseteq Int
  BY <1>5
<1>11. Max(sizes) = s
  BY <1>9, <1>10, MaxIs
<1>12. most = Max(sizes)
  BY DEF sizes
<1> QED BY <1>2, <1>4, <1>5, <1>9, <1>11, <1>12 DEF c

-----------------------------------------------------------------------------
(* What is read of a log *)

LEMMA FirstFew ==
    ASSUME NEW S, NEW q \in Seq(S), NEW n \in Nat, NEW few, few = FirstOf(n, q)
    PROVE  /\ few \in Seq(S) /\ Len(few) <= n /\ Len(few) <= Len(q)
           /\ \A i \in DOMAIN few : i \in DOMAIN q /\ few[i] = q[i]
           /\ \A i \in DOMAIN q : i <= n => i \in DOMAIN few
<1> DEFINE k == IF n < Len(q) THEN n ELSE Len(q)
<1>1. k \in Nat /\ k <= Len(q) /\ k <= n /\ Len(q) \in Nat
      /\ \A i \in Nat : i <= n /\ i <= Len(q) => i <= k
  OBVIOUS
<1>2. few = SubSeq(q, 1, k)
  BY DEF FirstOf
<1> HIDE DEF k
<1>3. few = [i \in 1 .. k |-> q[i]]
  <2>1. 1 + k - 1 = k /\ \A i \in 1 .. k : i + 1 - 1 = i
    BY <1>1
  <2>2. few = [i \in 1 .. k |-> q[(1 + i) - 1]]
    BY <1>1, <1>2
  <2>3. \A i \in 1 .. k : (1 + i) - 1 = i
    BY <1>1
  <2> QED BY <2>2, <2>3
<1>4. few \in Seq(S) /\ Len(few) = k /\ DOMAIN few = 1 .. k
  <2>1. \A i \in 1 .. k : q[i] \in S
    BY <1>1
  <2> QED BY <1>1, <1>3, <2>1
<1>5. DOMAIN q = 1 .. Len(q)
  OBVIOUS
<1> QED BY <1>1, <1>3, <1>4, <1>5

\* The events that were asked for, all of those among the first `MaxEvents' of the log.
LEMMA LoggedIs ==
    ASSUME NEW l, NEW events \in Seq(Events), NEW log, log = Logged(l, events)
    PROVE  /\ log \in Seq(Events)
           /\ \A i \in DOMAIN log : Asked(l, log[i]) /\ log[i] \in ToSet(events)
           /\ \A n \in DOMAIN events : n <= MaxEvents /\ Asked(l, events[n]) =>
                \E k \in DOMAIN log : log[k] = events[n]
<1> DEFINE places == {i \in DOMAIN events : Asked(l, events[i])}
           asked == EntriesAt(events, places)
<1>1. log = FirstOf(MaxEvents, asked) /\ places \in SUBSET DOMAIN events /\ MaxEvents \in Nat
  BY HistoriesAssumption DEF Logged
<1>2. /\ asked \in Seq(Events)
      /\ \A k \in DOMAIN asked : Nth(places, k) \in places /\ asked[k] = events[Nth(places, k)]
      /\ \A i \in places : \E k \in DOMAIN asked : k <= i /\ asked[k] = events[i]
  <2> HIDE DEF places
  <2> QED BY <1>1, EntriesAtIs
<1> HIDE DEF asked
<1>3. /\ log \in Seq(Events) /\ \A i \in DOMAIN log : i \in DOMAIN asked /\ log[i] = asked[i]
      /\ \A i \in DOMAIN asked : i <= MaxEvents => i \in DOMAIN log
  BY <1>1, <1>2, FirstFew
<1>4. \A i \in DOMAIN log : Asked(l, log[i]) /\ log[i] \in ToSet(events)
  <2> SUFFICES ASSUME NEW i \in DOMAIN log PROVE Asked(l, log[i]) /\ log[i] \in ToSet(events)
    OBVIOUS
  <2>1. Nth(places, i) \in places /\ log[i] = events[Nth(places, i)]
    BY <1>2, <1>3
  <2>2. Nth(places, i) \in DOMAIN events /\ Asked(l, events[Nth(places, i)])
    BY <2>1
  <2> HIDE DEF places
  <2> QED BY <2>1, <2>2 DEF ToSet
<1>5. ASSUME NEW n \in DOMAIN events, n <= MaxEvents, Asked(l, events[n])
      PROVE  \E k \in DOMAIN log : log[k] = events[n]
  <2>1. PICK k \in DOMAIN asked : k <= n /\ asked[k] = events[n]
    BY <1>2, <1>5
  <2>2. k \in Nat /\ n \in Nat
    BY <1>2
  <2>3. k <= MaxEvents
    BY <1>1, <1>5, <2>1, <2>2
  <2> QED BY <1>3, <2>1, <2>3
<1> QED BY <1>3, <1>4, <1>5

\* A log in the collection.
LogEntries(l, log) == [i \in DOMAIN log |-> Entry(l, log[i])]

LEMMA LogEntriesAre ==
    ASSUME NEW l \in Logs, NEW log \in Seq(Events), NEW v, v = LogEntries(l, log)
    PROVE  /\ v \in Seq(Records) /\ v # Null
           /\ DOMAIN v = DOMAIN log /\ Len(v) = Len(log)
           /\ \A i \in DOMAIN log : /\ v[i].log = l /\ v[i].id = log[i].id /\ v[i].time = log[i].time
                                    /\ v[i] = Entry(l, log[i])
                                    /\ Blank(v[i]) => Blank(log[i])
<1>1. \A i \in DOMAIN log : v[i] = Entry(l, log[i]) /\ log[i] \in Events
  BY DEF LogEntries
<1>2. \A e \in Events : /\ Entry(l, e) \in Records
                        /\ Entry(l, e).log = l /\ Entry(l, e).id = e.id /\ Entry(l, e).time = e.time
                        /\ Blank(Entry(l, e)) => Blank(e)
  <2> SUFFICES ASSUME NEW e \in Events
               PROVE  /\ Entry(l, e) \in Records
                      /\ Entry(l, e).log = l /\ Entry(l, e).id = e.id /\ Entry(l, e).time = e.time
                      /\ Blank(Entry(l, e)) => Blank(e)
    OBVIOUS
  <2>1. e.time \in Moments /\ e.id \in Nat /\ e.text \in {Null, Known, ""}
    BY DEF Events
  <2>2. Known # ""
    BY DEF Known
  <2> QED BY <2>1, <2>2 DEF Entry, Records, Blank
<1>a. DOMAIN log = 1 .. Len(log) /\ Len(log) \in Nat
  OBVIOUS
<1>b. v = [i \in 1 .. Len(log) |-> v[i]]
  BY <1>a DEF LogEntries
<1>3. v \in [1 .. Len(log) -> Records]
  <2>1. \A i \in 1 .. Len(log) : v[i] \in Records
    BY <1>1, <1>2, <1>a
  <2> QED BY <2>1, <1>b
<1>4. v \in Seq(Records)
  BY <1>3, <1>a
<1>5. DOMAIN v = DOMAIN log /\ Len(v) = Len(log)
  BY <1>3, <1>a
<1>6. v # Null
  BY <1>4, ListsAssumption
<1>7. \A i \in DOMAIN log :
        /\ v[i].log = l /\ v[i].id = log[i].id /\ v[i].time = log[i].time
        /\ v[i] = Entry(l, log[i])
        /\ Blank(v[i]) => Blank(log[i])
  <2> SUFFICES ASSUME NEW i \in DOMAIN log
               PROVE  /\ v[i].log = l /\ v[i].id = log[i].id /\ v[i].time = log[i].time
                      /\ v[i] = Entry(l, log[i])
                      /\ Blank(v[i]) => Blank(log[i])
    OBVIOUS
  <2>1. v[i] = Entry(l, log[i]) /\ log[i] \in Events
    BY <1>1
  <2> QED BY <1>2, <2>1
<1> QED BY <1>4, <1>5, <1>6, <1>7

-----------------------------------------------------------------------------
(* The count of the shutdowns *)

\* Records 41 and 6008 of a log, and the places of those that are within a minute.
Shutdowns(log) == {i \in DOMAIN log : log[i].id \in {41, 6008}}
Near(log) ==
    {p \in Shutdowns(log) \X Shutdowns(log) :
       /\ log[p[1]].id = 41 /\ log[p[2]].id = 6008
       /\ log[p[1]].tick - log[p[2]].tick \in -1 .. 1}
MostPairs(log) == Max({Cardinality(x) : x \in {y \in SUBSET Near(log) : Matching(y)}})

LEMMA ShutdownsAre ==
    ASSUME NEW c \in Clocks, NEW log \in Seq(Events), Timed(ToSet(log), c),
           NEW v, v = LogEntries("system", log),
           NEW records, records = EntriesAt(v, Shutdowns(log))
    PROVE  LET pairs == Cardinality(Shutdowns(log)) - ShutdownCount(records)
           IN  pairs <= MostPairs(log) /\ 2 * pairs >= MostPairs(log)
<1> DEFINE those == Shutdowns(log)
           n == Cardinality(those)
           g == [k \in 1 .. n |-> Nth(those, k)]
<1>1. /\ v \in Seq(Records) /\ DOMAIN v = DOMAIN log /\ Len(v) = Len(log)
      /\ \A i \in DOMAIN log : v[i].id = log[i].id /\ v[i].time = log[i].time
  <2>1. "system" \in Logs
    BY DEF Logs
  <2> QED BY <2>1, LogEntriesAre
<1>2. those \in SUBSET DOMAIN v /\ those \in SUBSET (1 .. Len(log)) /\ Len(log) \in Nat
  BY <1>1 DEF Shutdowns
<1>3. /\ records \in Seq(Records) /\ Len(records) = n /\ DOMAIN records = 1 .. n
      /\ IsFiniteSet(those) /\ n \in Nat
      /\ \A k \in DOMAIN records : Nth(those, k) \in those /\ records[k] = v[Nth(those, k)]
  <2>1. records = EntriesAt(v, those)
    OBVIOUS
  <2> HIDE DEF those
  <2> QED BY <1>1, <1>2, <2>1, EntriesAtIs
<1>4. /\ \A k \in 1 .. n : Nth(those, k) \in those /\ k <= Nth(those, k)
      /\ \A i \in those : \E k \in 1 .. n : Nth(those, k) = i
      /\ \A k, l \in 1 .. n : k < l => Nth(those, k) < Nth(those, l)
  <2> HIDE DEF those
  <2> QED BY <1>2, NthIs
<1> HIDE DEF n
<1>5. \A k \in 1 .. n : g[k] \in those
  BY <1>4
<1>6. \A i \in those : \E k \in 1 .. n : g[k] = i
  BY <1>4
<1>7. \A k, l \in 1 .. n : g[k] = g[l] => k = l
  <2>1. \A k, l \in 1 .. n : k < l \/ l < k \/ k = l
    BY <1>3
  <2>2. \A k \in 1 .. n : Nth(those, k) \in Int
    BY <1>2, <1>4
  <2> HIDE DEF those
  <2>3. \A k, l \in 1 .. n : Nth(those, k) = Nth(those, l) => ~(k < l)
    BY <1>4, <2>2
  <2>4. \A k, l \in 1 .. n : Nth(those, k) = Nth(those, l) => k = l
    BY <2>1, <2>3
  <2> QED BY <2>4
\* A record has the number and the time of its event.
<1>8. ASSUME NEW k \in 1 .. n
      PROVE  /\ g[k] \in DOMAIN log /\ records[k].id = log[g[k]].id
             /\ records[k].time = c[log[g[k]].tick] /\ log[g[k]].tick \in DOMAIN c
  <2>1. g[k] \in DOMAIN log /\ records[k] = v[g[k]]
    BY <1>1, <1>2, <1>3, <1>5
  <2>2. log[g[k]] \in ToSet(log)
    BY <2>1 DEF ToSet
  <2> HIDE DEF g
  <2>3. log[g[k]].tick \in DOMAIN c /\ log[g[k]].time = c[log[g[k]].tick]
    BY <2>2 DEF Timed
  <2> QED BY <1>1, <2>1, <2>3
<1> HIDE DEF g, those
<1>9. ASSUME NEW k \in 1 .. n, NEW l \in 1 .. n
      PROVE  /\ Distance(records[k].time, records[l].time) \in Nat
             /\ Distance(records[k].time, records[l].time) <= 1 <=>
                  log[g[k]].tick - log[g[l]].tick \in -1 .. 1
  BY <1>8, WithinMinute
<1>10. Measured(records)
  <2>1. \A k, l \in 1 .. n : Distance(records[k].time, records[l].time) \in Nat
    BY <1>9
  <2>2. DOMAIN records = 1 .. n
    BY <1>3
  <2> QED BY <2>1, <2>2, Zenon DEF Measured
<1>11. Placed(records, g, Near(log))
  <2>1. DOMAIN g = DOMAIN records /\ \A i, j \in DOMAIN records : g[i] = g[j] => i = j
    BY <1>3, <1>7 DEF g
  <2>2. \A p \in Near(log) : \E i, j \in DOMAIN records : p = <<g[i], g[j]>>
    <3> SUFFICES ASSUME NEW p \in Near(log) PROVE \E i, j \in DOMAIN records : p = <<g[i], g[j]>>
      OBVIOUS
    <3>1. PICK a \in those, b \in those : p = <<a, b>>
      BY DEF Near, those
    <3>2. PICK i \in 1 .. n : g[i] = a
      BY <1>6, <3>1
    <3>3. PICK j \in 1 .. n : g[j] = b
      BY <1>6, <3>1
    <3>4. i \in DOMAIN records /\ j \in DOMAIN records
      BY <1>3, <3>2, <3>3
    <3>5. p = <<g[i], g[j]>>
      BY <3>1, <3>2, <3>3
    <3> QED BY <3>4, <3>5
  <2>3. ASSUME NEW i \in DOMAIN records, NEW j \in DOMAIN records
        PROVE  <<g[i], g[j]>> \in Near(log) <=>
                 /\ records[i].id = 41 /\ records[j].id = 6008
                 /\ Distance(records[j].time, records[i].time) <= 1
    <3>1. i \in 1 .. n /\ j \in 1 .. n
      BY <1>3
    <3>2. g[i] \in those /\ g[j] \in those
      BY <1>5, <3>1
    <3>3. <<g[i], g[j]>> \in Near(log) <=>
            /\ log[g[i]].id = 41 /\ log[g[j]].id = 6008
            /\ log[g[i]].tick - log[g[j]].tick \in -1 .. 1
      BY <3>2 DEF Near, those
    <3>4. log[g[i]].tick - log[g[j]].tick \in -1 .. 1 <=> log[g[j]].tick - log[g[i]].tick \in -1 .. 1
      <4>1. c \in Seq(Moments)
        BY SectionsAssumption
      <4>2. \A x \in DOMAIN c : x \in Int
        BY <4>1
      <4>3. log[g[i]].tick \in Int /\ log[g[j]].tick \in Int
        BY <1>8, <3>1, <4>2
      <4> QED BY <4>3
    <3>5. records[i].id = log[g[i]].id /\ records[j].id = log[g[j]].id
      BY <1>8, <3>1
    <3>6. Distance(records[j].time, records[i].time) <= 1 <=>
            log[g[j]].tick - log[g[i]].tick \in -1 .. 1
      BY <1>9, <3>1
    <3> QED BY <3>3, <3>4, <3>5, <3>6
  <2> QED BY <2>1, <2>2, <2>3 DEF Placed
<1>12. Paired(records) \in SUBSET (1 .. n) /\ \E m \in SUBSET Near(log) : Pairs(m, records, g, Near(log))
  <2>1. n \in Nat /\ DOMAIN records = 1 .. n
    BY <1>3
  <2> QED BY <1>10, <1>11, <2>1, PairsWhole
<1>13. PICK m \in SUBSET Near(log) : Pairs(m, records, g, Near(log))
  BY <1>12
<1>a. /\ Matching(m) /\ {p[2] : p \in m} = {g[j] : j \in Paired(records)}
      /\ \A p \in Near(log) : \E q \in m : q[1] = p[1] \/ q[2] = p[2]
  BY <1>13 DEF Pairs
<1>14. IsFiniteSet(Near(log))
  <2>1. IsFiniteSet(those \X those)
    BY <1>3, FS_Product
  <2>2. Near(log) \in SUBSET (those \X those)
    BY DEF Near, those
  <2> QED BY <2>1, <2>2, FS_Subset
<1>15. Cardinality(m) \in Nat /\ Cardinality(m) <= MostPairs(log) /\ 2 * Cardinality(m) >= MostPairs(log)
  BY <1>a, <1>14, HalfOfMost DEF MostPairs
<1>16. Cardinality(m) = Cardinality(Paired(records))
  <2> DEFINE used == Paired(records)
             f == [j \in used |-> CHOOSE p \in m : p[2] = g[j]]
  <2>1. \A j \in used : f[j] \in m /\ f[j][2] = g[j]
    <3>1. ASSUME NEW j \in used PROVE \E p \in m : p[2] = g[j]
      <4>1. g[j] \in {g[i] : i \in used}
        OBVIOUS
      <4>2. g[j] \in {p[2] : p \in m}
        BY <1>a, <4>1
      <4> QED BY <4>2
    <3> QED BY <3>1
  <2>2. ASSUME NEW p \in m PROVE \E j \in used : p[2] = g[j]
    <3>1. p[2] \in {q[2] : q \in m}
      OBVIOUS
    <3>2. p[2] \in {g[j] : j \in used}
      BY <1>a, <3>1
    <3> QED BY <3>2
  <2>3. \A p, q \in m : p[2] = q[2] => p = q
    BY <1>a DEF Matching
  <2>4. f \in [used -> m]
    BY <2>1
  <2>5. \A i, j \in used : f[i] = f[j] => i = j
    <3>1. \A i, j \in used : g[i] = g[j] => i = j
      BY <1>7, <1>12
    <3> HIDE DEF f
    <3> QED BY <2>1, <3>1
  <2> HIDE DEF f
  <2>6. \A p \in m : \E j \in used : f[j] = p
    BY <2>1, <2>2, <2>3
  <2>7. f \in Injection(used, m) /\ f \in Surjection(used, m)
    BY <2>4, <2>5, <2>6 DEF Injection, IsInjective, Surjection
  <2>8. IsFiniteSet(m)
    BY <1>14, FS_Subset
  <2> QED BY <2>7, <2>8, FS_Injection
<1>17. ShutdownCount(records) = n - Cardinality(m)
  BY <1>3, <1>16 DEF ShutdownCount
<1>18. n - ShutdownCount(records) = Cardinality(m)
  BY <1>3, <1>15, <1>17
<1> QED BY <1>15, <1>18 DEF n, those

-----------------------------------------------------------------------------
(* The rules on event logs *)

LEMMA ImageFinite ==
    ASSUME NEW S, IsFiniteSet(S), NEW f, NEW T, T = {f[x] : x \in S}
    PROVE  IsFiniteSet(T)
<1> DEFINE g == [x \in S |-> f[x]]
<1>1. g \in Surjection(S, T)
  BY DEF Surjection
<1> QED BY <1>1, FS_Surjection

\* Two sets written down one after the other: each member once.
LEMMA TwoLists ==
    ASSUME NEW A, IsFiniteSet(A), NEW B, IsFiniteSet(B), A \cap B = {},
           NEW q, q = SetToSeq(A) \o SetToSeq(B)
    PROVE  /\ \E n \in Nat : DOMAIN q = 1 .. n
           /\ ToSet(q) = A \cup B /\ \A i, j \in DOMAIN q : q[i] = q[j] => i = j
<1> DEFINE a == SetToSeq(A)
           b == SetToSeq(B)
<1>1. /\ a \in Seq(A) /\ Len(a) \in Nat /\ DOMAIN a = 1 .. Len(a) /\ ToSet(a) = A
      /\ \A i, j \in DOMAIN a : a[i] = a[j] => i = j
  BY SetToSeqIs
<1>2. /\ b \in Seq(B) /\ Len(b) \in Nat /\ DOMAIN b = 1 .. Len(b) /\ ToSet(b) = B
      /\ \A i, j \in DOMAIN b : b[i] = b[j] => i = j
  BY SetToSeqIs
<1> HIDE DEF a, b
<1> DEFINE n == Len(a) + Len(b)
<1>3. /\ n \in Nat /\ DOMAIN q = 1 .. n
      /\ \A i \in 1 .. n : q[i] = IF i <= Len(a) THEN a[i] ELSE b[i - Len(a)]
  <2>1. a \in Seq(A \cup B) /\ b \in Seq(A \cup B) /\ q = a \o b
    BY <1>1, <1>2 DEF a, b
  <2> QED BY <1>1, <1>2, <2>1
<1>4. \A i \in 1 .. n : \/ i \in DOMAIN a /\ q[i] = a[i]
                        \/ i - Len(a) \in DOMAIN b /\ q[i] = b[i - Len(a)]
  BY <1>1, <1>2, <1>3
<1>5. \A i \in DOMAIN a : i \in 1 .. n /\ q[i] = a[i]
  BY <1>1, <1>2, <1>3
<1>6. \A i \in DOMAIN b : i + Len(a) \in 1 .. n /\ q[i + Len(a)] = b[i]
  <2> SUFFICES ASSUME NEW i \in DOMAIN b PROVE i + Len(a) \in 1 .. n /\ q[i + Len(a)] = b[i]
    OBVIOUS
  <2>1. i + Len(a) \in 1 .. n /\ ~(i + Len(a) <= Len(a)) /\ (i + Len(a)) - Len(a) = i
    BY <1>1, <1>2
  <2> QED BY <1>3, <2>1
<1>7. (\A i \in DOMAIN a : a[i] \in A) /\ (\A i \in DOMAIN b : b[i] \in B)
  BY <1>1, <1>2
<1> HIDE DEF n
<1>8. ToSet(q) = A \cup B
  <2>1. \A x \in ToSet(q) : x \in A \cup B
    BY <1>3, <1>4, <1>7 DEF ToSet
  <2>2. \A x \in A : \E i \in DOMAIN a : a[i] = x
    BY <1>1 DEF ToSet
  <2>3. \A x \in B : \E i \in DOMAIN b : b[i] = x
    BY <1>2 DEF ToSet
  <2>4. ASSUME NEW x \in A \cup B PROVE \E i \in 1 .. n : q[i] = x
    <3>1. CASE x \in A
      <4>1. PICK i \in DOMAIN a : a[i] = x
        BY <2>2, <3>1
      <4> QED BY <1>5, <4>1
    <3>2. CASE x \in B
      <4>1. PICK i \in DOMAIN b : b[i] = x
        BY <2>3, <3>2
      <4>2. i + Len(a) \in 1 .. n /\ q[i + Len(a)] = x
        BY <1>6, <4>1
      <4> QED BY <4>2
    <3> QED BY <3>1, <3>2
  <2>5. \A x \in A \cup B : x \in ToSet(q)
    BY <1>3, <2>4 DEF ToSet
  <2> QED BY <2>1, <2>5
<1>9. ASSUME NEW i \in 1 .. n, NEW j \in 1 .. n, q[i] = q[j] PROVE i = j
  <2>1. CASE i \in DOMAIN a /\ q[i] = a[i] /\ j \in DOMAIN a /\ q[j] = a[j]
    BY <1>1, <1>9, <2>1
  <2>2. CASE /\ i - Len(a) \in DOMAIN b /\ q[i] = b[i - Len(a)]
             /\ j - Len(a) \in DOMAIN b /\ q[j] = b[j - Len(a)]
    <3>1. i - Len(a) = j - Len(a)
      BY <1>2, <1>9, <2>2
    <3> QED BY <1>1, <1>3, <3>1
  <2>3. ~(q[i] \in A /\ q[j] \in B) /\ ~(q[i] \in B /\ q[j] \in A)
    BY <1>9
  <2> QED BY <1>4, <1>7, <2>1, <2>2, <2>3
<1> QED BY <1>3, <1>8, <1>9

LEMMA MomentMinutes == ASSUME NEW t \in Moments PROVE UtcMinutes(t) \in Int
<1>1. t.year \in Nat /\ t.month \in Nat /\ t.day \in Nat /\ t.minute \in Minutes
  BY DEF Moments
<1>2. DaysSinceEpoch(t) \in Int
  <2>1. DaysToMarch(t.year - 1) \in Int /\ DaysToMarch(t.year) \in Int
    BY <1>1 DEF DaysToMarch
  <2>2. \A m \in Int : (153 * m + 2) \div 5 \in Int
    OBVIOUS
  <2>3. t.month + 9 \in Int /\ t.month - 3 \in Int
    BY <1>1
  <2>4. (153 * (t.month + 9) + 2) \div 5 \in Int /\ (153 * (t.month - 3) + 2) \div 5 \in Int
    BY <2>2, <2>3
  <2> QED BY <1>1, <2>1, <2>4, DaysFromMarch
<1>3. t.minute \in Int
  BY <1>1, MinutesAre
<1>4. \A d, m \in Int : d * 1440 + m \in Int
  OBVIOUS
<1> QED BY <1>2, <1>3, <1>4 DEF UtcMinutes

\* Of several there is a last one with the greatest value.
LEMMA LastGreatest ==
    ASSUME NEW n \in Nat, NEW w, \A i \in 1 .. n : w[i] \in Int, NEW s, s \subseteq 1 .. n, s # {}
    PROVE  \E i \in s : \A j \in s : w[i] >= w[j] /\ (w[j] >= w[i] => j <= i)
<1> DEFINE LatestOf(t, i) == \A j \in t : w[i] >= w[j] /\ (w[j] >= w[i] => j <= i)
           Good == {k \in Nat : \A t \in SUBSET (1 .. k) :
                      t # {} /\ t \subseteq 1 .. n => \E i \in t : LatestOf(t, i)}
<1>1. 0 \in Good
  <2>1. 1 .. 0 = {}
    OBVIOUS
  <2>2. \A t \in SUBSET (1 .. 0) : t = {}
    BY <2>1
  <2> HIDE DEF LatestOf
  <2> QED BY <2>2
<1>2. ASSUME NEW k \in Nat, k \in Good PROVE k + 1 \in Good
  <2> SUFFICES ASSUME NEW t \in SUBSET (1 .. k + 1), t # {}, t \subseteq 1 .. n
               PROVE  \E i \in t : LatestOf(t, i)
    OBVIOUS
  <2> DEFINE rest == t \ {k + 1}
  <2>0. rest \in SUBSET (1 .. k) /\ rest \subseteq 1 .. n
    OBVIOUS
  <2>1. CASE rest = {}
    <3>1. t = {k + 1} /\ w[k + 1] \in Int
      BY <2>1
    <3> QED BY <3>1
  <2>2. CASE rest # {}
    <3>1. PICK b \in rest : LatestOf(rest, b)
      BY <1>2, <2>0, <2>2
    <3>2. CASE k + 1 \notin t
      <4>1. rest = t
        BY <3>2
      <4> QED BY <3>1, <4>1
    <3>3. CASE k + 1 \in t /\ w[k + 1] >= w[b]
      <4>1. w[k + 1] \in Int /\ w[b] \in Int /\ \A j \in rest : w[j] \in Int /\ j <= k + 1
        BY <2>0, <3>3
      <4>2. \A j \in rest : w[k + 1] >= w[j] /\ j <= k + 1
        <5> SUFFICES ASSUME NEW j \in rest PROVE w[k + 1] >= w[j] /\ j <= k + 1
          OBVIOUS
        <5>1. w[b] >= w[j] /\ w[j] \in Int /\ j <= k + 1
          BY <3>1, <4>1
        <5> QED BY <3>3, <4>1, <5>1
      <4>3. \A j \in t : j \in rest \/ j = k + 1
        OBVIOUS
      <4>4. w[k + 1] >= w[k + 1] /\ k + 1 <= k + 1
        BY <4>1
      <4>5. LatestOf(t, k + 1)
        BY <4>2, <4>3, <4>4
      <4> QED BY <3>3, <4>5
    <3>4. CASE k + 1 \in t /\ ~(w[k + 1] >= w[b])
      <4>1. w[k + 1] \in Int /\ w[b] \in Int
        BY <2>0, <3>4
      <4>2. w[b] >= w[k + 1]
        BY <3>4, <4>1
      <4>3. \A j \in t : j \in rest \/ j = k + 1
        OBVIOUS
      <4>4. LatestOf(t, b)
        BY <3>1, <3>4, <4>2, <4>3
      <4> QED BY <4>4
    <3> QED BY <3>2, <3>3, <3>4
  <2> QED BY <2>1, <2>2
<1> HIDE DEF Good
<1>3. n \in Good
  BY <1>1, <1>2, Induction
<1> QED BY <1>3 DEF Good

Kinds == {"unexpected_shutdown", "storage_io_failure", "service_failure", "application_failure",
          "audit_log_cleared", "failed_logon", "audit_policy_changed"}

LEMMA KindIs ==
    ASSUME NEW e
    PROVE  /\ KindOf(e) # Null => KindOf(e) \in Kinds
           /\ KindOf(e) = "unexpected_shutdown" <=> e.log = "system" /\ e.id \in {41, 6008}
<1>1. KindOf(e) \in Kinds \cup {Null}
  BY DEF KindOf, Kinds
<1>2. Null # "unexpected_shutdown"
  BY KindsAssumption
<1>3. KindOf(e) = "unexpected_shutdown" <=> e.log = "system" /\ e.id \in {41, 6008}
  BY <1>2 DEF KindOf
<1> QED BY <1>1, <1>3

LEMMA FewKinds == IsFiniteSet(Logs \X Kinds) /\ Null \notin Kinds /\ "availability" \notin Kinds
<1>1. IsFiniteSet(Logs)
  <2>1. Logs = (({} \cup {"system"}) \cup {"application"}) \cup {"security"}
    BY DEF Logs
  <2> QED BY <2>1, FS_EmptySet, FS_AddElement
<1>2. IsFiniteSet(Kinds)
  <2> DEFINE failures == {"storage_io_failure", "service_failure", "application_failure"}
             audits == {"audit_log_cleared", "failed_logon", "audit_policy_changed"}
  <2>1. failures = (({} \cup {"storage_io_failure"}) \cup {"service_failure"})
                   \cup {"application_failure"}
    OBVIOUS
  <2>2. audits = (({} \cup {"audit_log_cleared"}) \cup {"failed_logon"})
                 \cup {"audit_policy_changed"}
    OBVIOUS
  <2>3. Kinds = (failures \cup audits) \cup {"unexpected_shutdown"}
    BY DEF Kinds
  <2> HIDE DEF failures, audits
  <2>4. IsFiniteSet(failures) /\ IsFiniteSet(audits)
    BY <2>1, <2>2, FS_EmptySet, FS_AddElement
  <2>5. IsFiniteSet(failures \cup audits)
    BY <2>4, FS_Union
  <2> QED BY <2>3, <2>5, FS_AddElement
<1>3. Null \notin Kinds /\ "availability" \notin Kinds
  BY KindsAssumption DEF Kinds
<1> QED BY <1>1, <1>2, <1>3, FS_Product

\* The places of a kind's records in a log.
OfKind(v, kind) == {i \in DOMAIN v : KindOf(v[i]) = kind}

LEMMA KindEvaluationIs ==
    ASSUME NEW values, NEW l \in Logs, values[l] \in Seq(Records), values[l] # Null, NEW kind,
           OfKind(values[l], kind) # {}, NEW e, e = KindEvaluation(values, l, kind)
    PROVE  /\ Faithful("event_logs", values, e) /\ e.rule = <<l, kind>> /\ e.status = "triggered"
           /\ kind = "unexpected_shutdown" =>
                 e.count = ShutdownCount(EntriesAt(values[l], OfKind(values[l], kind)))
<1> DEFINE v == values[l]
           those == OfKind(v, kind)
           Latest(i) == \A j \in those : Newer(v[i], v[j]) /\ (Newer(v[j], v[i]) => j <= i)
           latest == CHOOSE i \in those : Latest(i)
           evidence == {[path |-> <<l, latest>>, value |-> v[latest]]}
           records == EntriesAt(v, those)
           judged == Judged(<<l, kind>>, TRUE, KindSeverity(kind), evidence, {})
           count == IF kind = "unexpected_shutdown" THEN ShutdownCount(records) ELSE Len(records)
<1>1. e = [judged EXCEPT !.count = count]
  BY Zenon DEF KindEvaluation, OfKind
<1>2. latest \in those
  <2> DEFINE w == [i \in 1 .. Len(v) |-> UtcMinutes(v[i].time)]
  <2>1. Len(v) \in Nat /\ DOMAIN v = 1 .. Len(v) /\ those \subseteq 1 .. Len(v) /\ those # {}
    BY DEF OfKind
  <2>2. \A i \in 1 .. Len(v) : w[i] \in Int
    <3> SUFFICES ASSUME NEW i \in 1 .. Len(v) PROVE UtcMinutes(v[i].time) \in Int
      OBVIOUS
    <3>1. v[i] \in Records
      BY <2>1
    <3>2. v[i].time \in Moments
      BY <3>1 DEF Records
    <3> QED BY <3>2, MomentMinutes
  <2>3. \A i \in those : w[i] = UtcMinutes(v[i].time)
    BY <2>1
  <2> HIDE DEF w, those
  <2>4. PICK i \in those : \A j \in those : w[i] >= w[j] /\ (w[j] >= w[i] => j <= i)
    BY <2>1, <2>2, LastGreatest
  <2>5. Latest(i)
    BY <2>3, <2>4 DEF Newer
  <2> HIDE DEF Latest
  <2> QED BY <2>5
<1>3. v[latest] = v[latest] /\ latest \in DOMAIN v
  BY <1>2 DEF OfKind
<1> HIDE DEF latest
<1>4. Backed("event_logs", values, evidence)
  BY <1>3 DEF Backed, Holds
<1>5. KindSeverity(kind) \in Severities
  BY DEF KindSeverity, Severities
<1>6. judged = Evaluation(<<l, kind>>, "triggered", KindSeverity(kind), evidence, {})
  BY DEF Judged
<1> DEFINE severity == KindSeverity(kind)
<1>7. /\ e.rule = <<l, kind>> /\ e.status = "triggered" /\ e.severity = severity
      /\ e.evidence = evidence /\ e.count = count
  <2>1. judged = Evaluation(<<l, kind>>, "triggered", severity, evidence, {})
    BY <1>6
  <2> HIDE DEF severity, count, evidence, judged
  <2>2. /\ judged.rule = <<l, kind>> /\ judged.status = "triggered" /\ judged.severity = severity
        /\ judged.evidence = evidence /\ "count" \in DOMAIN judged
        /\ {"rule", "status", "severity", "evidence"} \subseteq DOMAIN judged
    BY <2>1 DEF Evaluation
  <2> QED BY <1>1, <2>2
<1>8. severity # Null
  BY <1>5, NullAssumption DEF Severities
<1>9. Faithful("event_logs", values, e)
  <2> HIDE DEF severity, evidence
  <2> QED BY <1>4, <1>5, <1>7, <1>8 DEF Faithful, Backed, severity
<1>10. kind = "unexpected_shutdown" => e.count = ShutdownCount(records)
  BY <1>7
<1> QED BY <1>7, <1>9, <1>10

\* What a collection has of the logs.
LogsListed(values) ==
    \A l \in Logs : values[l] = Null \/ (values[l] # Null /\ values[l] \in Seq(Records))

\* The evaluation of a rule on event logs, and the finding it stands for.
OfLog(values, e) ==
    \/ \E l \in Logs : values[l] = Null /\ e.rule = <<l, "availability">>
    \/ \E l \in Logs, kind \in Kinds :
         /\ e.rule = <<l, kind>> /\ values[l] # Null /\ OfKind(values[l], kind) # {}
         /\ kind = "unexpected_shutdown" =>
               e.count = ShutdownCount(EntriesAt(values[l], OfKind(values[l], kind)))

\* Nothing that was read is passed over, nor that a log could not be.
Reported(values, ev) ==
    /\ \A n \in DOMAIN ev : ev[n].status = "triggered"
    /\ \A l \in Logs : values[l] = Null =>
         \E n \in DOMAIN ev : ev[n].rule = <<l, "availability">>
    /\ \A l \in Logs : values[l] # Null => \A i \in DOMAIN values[l] :
         KindOf(values[l][i]) # Null =>
            \E n \in DOMAIN ev : ev[n].rule = <<l, KindOf(values[l][i])>>

LEMMA EventRulesAre ==
    ASSUME NEW values, LogsListed(values), NEW ev, ev = EvaluateEventLogs(values)
    PROVE  /\ \E n \in Nat : DOMAIN ev = 1 .. n
           /\ \A n \in DOMAIN ev :
                Faithful("event_logs", values, ev[n]) /\ OfLog(values, ev[n])
           /\ \A n, k \in DOMAIN ev : ev[n].rule = ev[k].rule => n = k
           /\ Reported(values, ev)
<1> DEFINE read == {l \in Logs : values[l] # Null}
           found == {<<p[1], KindOf(p[2])>> : p \in UNION {{l} \X ToSet(values[l]) : l \in read}}
           F == {x \in found : x[2] # Null}
           unread == [l \in Logs \ read |-> Judged(<<l, "availability">>, TRUE, "warning", {}, {})]
           kinds == [f \in F |-> KindEvaluation(values, f[1], f[2])]
           A == {unread[l] : l \in Logs \ read}
           B == {kinds[f] : f \in F}
<1>1. ev = SetToSeq(A) \o SetToSeq(B)
  <2>1. ev = SetToSeq({Judged(<<l, "availability">>, TRUE, "warning", {}, {}) : l \in Logs \ read})
             \o SetToSeq({KindEvaluation(values, f[1], f[2]) : f \in F})
    BY Zenon DEF EvaluateEventLogs
  <2>2. A = {Judged(<<l, "availability">>, TRUE, "warning", {}, {}) : l \in Logs \ read}
    <3> HIDE DEF read
    <3> QED OBVIOUS
  <2>3. B = {KindEvaluation(values, f[1], f[2]) : f \in F}
    <3> HIDE DEF F
    <3> QED OBVIOUS
  <2> QED BY <2>1, <2>2, <2>3
<1>2. \A l \in read : l \in Logs /\ values[l] # Null /\ values[l] \in Seq(Records)
  BY DEF LogsListed
<1>3. ASSUME NEW f \in F
      PROVE  \E l \in read : \E i \in DOMAIN values[l] :
                f = <<l, KindOf(values[l][i])>> /\ KindOf(values[l][i]) # Null
  <2>1. PICK p \in UNION {{l} \X ToSet(values[l]) : l \in read} : f = <<p[1], KindOf(p[2])>>
    OBVIOUS
  <2>2. PICK l \in read : p \in {l} \X ToSet(values[l])
    BY <2>1
  <2>3. p[1] = l /\ p[2] \in ToSet(values[l])
    BY <2>2
  <2>4. PICK i \in DOMAIN values[l] : p[2] = values[l][i]
    BY <2>3 DEF ToSet
  <2>5. f = <<l, KindOf(values[l][i])>> /\ f[2] # Null
    BY <2>1, <2>3, <2>4
  <2> QED BY <2>5
<1>4. ASSUME NEW l \in read, NEW i \in DOMAIN values[l], KindOf(values[l][i]) # Null
      PROVE  <<l, KindOf(values[l][i])>> \in F
  <2> DEFINE p == <<l, values[l][i]>>
  <2>1. p \in {l} \X ToSet(values[l])
    BY DEF ToSet
  <2>2. p \in UNION {{k} \X ToSet(values[k]) : k \in read}
    BY <2>1
  <2>3. <<p[1], KindOf(p[2])>> \in found
    BY <2>2
  <2> QED BY <1>4, <2>3
<1> HIDE DEF F
<1>5. ASSUME NEW f \in F
      PROVE  /\ f = <<f[1], f[2]>> /\ f[1] \in Logs /\ f[2] \in Kinds /\ values[f[1]] # Null
             /\ values[f[1]] \in Seq(Records) /\ OfKind(values[f[1]], f[2]) # {}
  <2>0. PICK l \in read : \E i \in DOMAIN values[l] :
               f = <<l, KindOf(values[l][i])>> /\ KindOf(values[l][i]) # Null
    BY <1>3
  <2>1. PICK i \in DOMAIN values[l] :
               f = <<l, KindOf(values[l][i])>> /\ KindOf(values[l][i]) # Null
    BY <2>0
  <2>2. f[1] = l /\ f[2] = KindOf(values[l][i]) /\ f[2] \in Kinds
    BY <2>1, KindIs
  <2>3. i \in OfKind(values[f[1]], f[2])
    BY <2>2 DEF OfKind
  <2> QED BY <1>2, <2>1, <2>2, <2>3
<1>6. ASSUME NEW f \in F
      PROVE  /\ Faithful("event_logs", values, kinds[f]) /\ kinds[f].rule = f
             /\ kinds[f].status = "triggered" /\ OfLog(values, kinds[f])
  <2>1. kinds[f] = KindEvaluation(values, f[1], f[2])
    OBVIOUS
  <2> DEFINE e == kinds[f]
             l == f[1]
             kind == f[2]
  <2>2. /\ e = KindEvaluation(values, l, kind) /\ f = <<l, kind>> /\ l \in Logs /\ kind \in Kinds
        /\ values[l] # Null /\ values[l] \in Seq(Records) /\ OfKind(values[l], kind) # {}
    BY <1>5, <2>1
  <2> HIDE DEF e, l, kind
  <2>3. /\ Faithful("event_logs", values, e) /\ e.rule = <<l, kind>> /\ e.status = "triggered"
        /\ kind = "unexpected_shutdown" =>
              e.count = ShutdownCount(EntriesAt(values[l], OfKind(values[l], kind)))
    BY <2>2, KindEvaluationIs, ZenonT(40)
  <2>4. OfLog(values, e)
    BY <2>2, <2>3 DEF OfLog
  <2>5. /\ Faithful("event_logs", values, e) /\ e.rule = f
        /\ e.status = "triggered" /\ OfLog(values, e)
    BY <2>2, <2>3, <2>4
  <2> QED BY <2>5 DEF e
<1>7. ASSUME NEW l \in Logs \ read
      PROVE  /\ Faithful("event_logs", values, unread[l]) /\ unread[l].rule = <<l, "availability">>
             /\ unread[l].status = "triggered" /\ OfLog(values, unread[l])
  <2> DEFINE e == unread[l]
             yes == TRUE
  <2>1. /\ e = Judged(<<l, "availability">>, yes, "warning", {}, {}) /\ yes \in BOOLEAN
        /\ values[l] = Null /\ l \in Logs
    OBVIOUS
  <2>2. Backed("event_logs", values, {}) /\ "warning" \in Severities
    BY DEF Backed, Severities
  <2> HIDE DEF e, yes
  <2>3. /\ Faithful("event_logs", values, e) /\ e.rule = <<l, "availability">>
        /\ e.status = IF yes THEN "triggered" ELSE "passed"
    BY <2>1, <2>2, JudgedFaithful
  <2>4. OfLog(values, e)
    BY <2>1, <2>3 DEF OfLog
  <2> QED BY <2>3, <2>4 DEF e, yes
<1>8. IsFiniteSet(A) /\ IsFiniteSet(B)
  <2>1. IsFiniteSet(Logs)
    <3>1. Logs = (({} \cup {"system"}) \cup {"application"}) \cup {"security"}
      BY DEF Logs
    <3> QED BY <3>1, FS_EmptySet, FS_AddElement
  <2>2. IsFiniteSet(Logs \ read)
    BY <2>1, FS_Difference
  <2>3. F \in SUBSET (Logs \X Kinds)
    BY <1>5
  <2>4. IsFiniteSet(F)
    BY <2>3, FewKinds, FS_Subset
  <2> HIDE DEF unread, kinds, read
  <2> QED BY <2>2, <2>4, ImageFinite
<1>9. A \cap B = {}
  <2> SUFFICES ASSUME NEW l \in Logs \ read, NEW f \in F, unread[l] = kinds[f] PROVE FALSE
    OBVIOUS
  <2> HIDE DEF unread, kinds, read
  <2>1. f = <<l, "availability">>
    BY <1>6, <1>7
  <2>2. f[2] = "availability" /\ f[2] \in Kinds
    BY <1>5, <2>1
  <2> QED BY <2>2, FewKinds
<1> HIDE DEF unread, kinds, read
<1>10. /\ \E n \in Nat : DOMAIN ev = 1 .. n
       /\ ToSet(ev) = A \cup B /\ \A i, j \in DOMAIN ev : ev[i] = ev[j] => i = j
  <2> HIDE DEF A, B
  <2> QED BY <1>1, <1>8, <1>9, TwoLists
<1>11. \A n \in DOMAIN ev : \/ \E l \in Logs \ read : ev[n] = unread[l]
                            \/ \E f \in F : ev[n] = kinds[f]
  <2>1. \A n \in DOMAIN ev : ev[n] \in A \cup B
    BY <1>10 DEF ToSet
  <2> QED BY <2>1
<1>12. \A n \in DOMAIN ev : /\ Faithful("event_logs", values, ev[n])
                            /\ ev[n].status = "triggered" /\ OfLog(values, ev[n])
  BY <1>6, <1>7, <1>11
<1>13. ASSUME NEW n \in DOMAIN ev, NEW k \in DOMAIN ev, ev[n].rule = ev[k].rule PROVE n = k
  <2>1. CASE \E l, m \in Logs \ read : ev[n] = unread[l] /\ ev[k] = unread[m]
    <3>1. PICK l, m \in Logs \ read : ev[n] = unread[l] /\ ev[k] = unread[m]
      BY <2>1
    <3>2. l = m
      BY <1>7, <1>13, <3>1
    <3> QED BY <1>10, <3>1, <3>2
  <2>2. CASE \E f, g \in F : ev[n] = kinds[f] /\ ev[k] = kinds[g]
    <3>1. PICK f, g \in F : ev[n] = kinds[f] /\ ev[k] = kinds[g]
      BY <2>2
    <3>2. f = g
      BY <1>6, <1>13, <3>1
    <3> QED BY <1>10, <3>1, <3>2
  <2>3. \A l \in Logs \ read, f \in F : unread[l].rule # kinds[f].rule
    <3> SUFFICES ASSUME NEW l \in Logs \ read, NEW f \in F, unread[l].rule = kinds[f].rule PROVE FALSE
      OBVIOUS
    <3>1. f = <<l, "availability">>
      BY <1>6, <1>7
    <3>2. f[2] = "availability" /\ f[2] \in Kinds
      BY <1>5, <3>1
    <3> QED BY <3>2, FewKinds
  <2> QED BY <1>11, <1>13, <2>1, <2>2, <2>3
<1>14. \A x \in A \cup B : \E n \in DOMAIN ev : ev[n] = x
  BY <1>10 DEF ToSet
<1>15. \A l \in Logs : values[l] = Null => \E n \in DOMAIN ev : ev[n].rule = <<l, "availability">>
  <2> SUFFICES ASSUME NEW l \in Logs, values[l] = Null
               PROVE  \E n \in DOMAIN ev : ev[n].rule = <<l, "availability">>
    OBVIOUS
  <2>1. l \in Logs \ read
    BY DEF read
  <2>2. PICK n \in DOMAIN ev : ev[n] = unread[l]
    BY <1>14, <2>1
  <2> QED BY <1>7, <2>1, <2>2
<1>16. \A l \in Logs : values[l] # Null => \A i \in DOMAIN values[l] :
          KindOf(values[l][i]) # Null =>
             \E n \in DOMAIN ev : ev[n].rule = <<l, KindOf(values[l][i])>>
  <2> SUFFICES ASSUME NEW l \in Logs, values[l] # Null, NEW i \in DOMAIN values[l],
                      KindOf(values[l][i]) # Null
               PROVE  \E n \in DOMAIN ev : ev[n].rule = <<l, KindOf(values[l][i])>>
    OBVIOUS
  <2> DEFINE f == <<l, KindOf(values[l][i])>>
  <2>1. l \in read
    BY DEF read
  <2>2. f \in F
    BY <1>4, <2>1
  <2> HIDE DEF f
  <2>3. PICK n \in DOMAIN ev : ev[n] = kinds[f]
    BY <1>14, <2>2
  <2>4. ev[n].rule = f
    BY <1>6, <2>2, <2>3
  <2> QED BY <2>4 DEF f
<1>17. Reported(values, ev)
  BY <1>12, <1>15, <1>16 DEF Reported
<1> QED BY <1>10, <1>12, <1>13, <1>17

-----------------------------------------------------------------------------
(* The inductive invariant: a log that was asked for is there as it was    *)
(* read, or missing with a reason and a message.                           *)

ReadLog(l) == LogEntries(l, Logged(l, pc[l]))

LogsAsked ==
    \/ todo = EventLogQueries /\ Covers(answer, {})
    \/ todo = <<"application", "security">> /\ Covers(answer, {"system"})
    \/ todo = <<"security">> /\ Covers(answer, {"system", "application"})
    \/ todo = <<>> /\ Covers(answer, Logs)

LogsKept == /\ Voiced(answer)
            /\ \A l \in DOMAIN answer.values : answer.values[l] \in {Null, ReadLog(l)}

LogsHeard == Covers(answer, Logs) /\ LogsKept

\* The logs are lists of events, written by one clock.
Chronicled(logs) ==
    /\ logs \in [Logs -> Seq(Events)]
    /\ \E c \in Clocks : \A l \in Logs : Timed(ToSet(logs[l]), c)

EventsRead ==
    section = "event_logs" =>
        /\ Chronicled(pc)
        /\ stage = "collecting" => LogsAsked /\ LogsKept
        /\ stage # "collecting" => Returned(LogsHeard)

LEMMA EventsInitOK == Init => EventsRead
<1> SUFFICES ASSUME Init, section = "event_logs" PROVE EventsRead
  BY DEF EventsRead
<1>1. /\ stage = "collecting" /\ todo = EventLogQueries /\ answer = Got(<<>>)
      /\ pc \in Pcs("event_logs")
  BY DEF Init, Queries
<1>2. Covers(answer, {}) /\ DOMAIN answer.reasons = {} /\ answer.said = {}
  <2>1. DOMAIN <<>> = {}
    OBVIOUS
  <2> QED BY <1>1, <2>1, GotShape
<1>3. LogsAsked /\ LogsKept
  BY <1>1, <1>2 DEF LogsAsked, LogsKept, Voiced, Covers
<1>4. CASE pc \in {[l \in Logs |-> IF l = "system" THEN t ELSE <<>>] : t \in Timelines}
  <2>1. PICK t \in Timelines : pc = [l \in Logs |-> IF l = "system" THEN t ELSE <<>>]
    BY <1>4
  <2>2. t \in Seq(Events) /\ \E c \in Clocks : Timed(ToSet(t), c)
    BY SectionsAssumption
  <2>3. <<>> \in Seq(Events) /\ ToSet(<<>>) = {}
    BY DEF ToSet
  <2>4. \A l \in Logs : pc[l] \in Seq(Events) /\ (pc[l] = t \/ pc[l] = <<>>)
    BY <2>1, <2>2, <2>3
  <2>5. pc \in [Logs -> Seq(Events)]
    BY <2>1, <2>4
  <2>6. PICK c \in Clocks : Timed(ToSet(t), c)
    BY <2>2
  <2>7. \A l \in Logs : Timed(ToSet(pc[l]), c)
    BY <2>3, <2>4, <2>6 DEF Timed
  <2> QED BY <1>1, <1>3, <2>5, <2>7 DEF EventsRead, Chronicled
<1>5. CASE pc \in {[l \in Logs |-> EntriesAt(q, {i \in DOMAIN q : q[i].log = l})] :
                     q \in SeqsUpTo(Extras, 2)}
  <2>1. PICK q \in SeqsUpTo(Extras, 2) :
          pc = [l \in Logs |-> EntriesAt(q, {i \in DOMAIN q : q[i].log = l})]
    BY <1>5
  <2>0. ASSUME NEW S, NEW n, NEW s \in SeqsUpTo(S, n) PROVE s \in Seq(S)
    BY DEF SeqsUpTo
  <2>2. q \in Seq(Extras)
    BY <2>0
  <2>3. PICK c \in Clocks : Timed(Extras, c)
    BY SectionsAssumption
  <2>4. Extras \subseteq Events
    BY SectionsAssumption
  <2>5. ASSUME NEW l \in Logs
        PROVE  pc[l] \in Seq(Events) /\ Timed(ToSet(pc[l]), c)
    <3> DEFINE places == {i \in DOMAIN q : q[i].log = l}
    <3>1. pc[l] = EntriesAt(q, places) /\ places \in SUBSET DOMAIN q
      BY <2>1
    <3> HIDE DEF places
    <3>2. pc[l] \in Seq(Extras)
      BY <2>2, <3>1, EntriesAtIs
    <3>3. \A i \in DOMAIN pc[l] : pc[l][i] \in Extras
      BY <3>2
    <3>4. pc[l] \in Seq(Events)
      BY <2>4, <3>2
    <3> QED BY <2>3, <3>3, <3>4 DEF ToSet, Timed
  <2>6. pc \in [Logs -> Seq(Events)]
    BY <2>1, <2>5
  <2> QED BY <1>1, <1>3, <2>5, <2>6 DEF EventsRead, Chronicled
<1> QED BY <1>1, <1>4, <1>5 DEF Pcs

LEMMA LogAnswersAre ==
    ASSUME Chronicled(pc), NEW l \in Logs, NEW a \in LogAnswers(l, pc[l])
    PROVE  Covers(a, {l}) /\ Voiced(a) /\ a.values[l] \in {Null, ReadLog(l)}
<1> DEFINE log == Logged(l, pc[l])
           v == [k \in {l} |-> [i \in DOMAIN log |-> Entry(l, log[i])]]
<1>1. a = Got(v) \/ a = Missed({l}, "failed", "event_log")
  BY Zenon DEF LogAnswers
<1>2. DOMAIN v = {l} /\ v[l] = ReadLog(l)
  BY DEF ReadLog, LogEntries
<1>3. pc[l] \in Seq(Events)
  BY DEF Chronicled
<1>4. ReadLog(l) # Null
  <2>1. log \in Seq(Events)
    BY <1>3, LoggedIs
  <2> HIDE DEF log
  <2> QED BY <2>1, LogEntriesAre DEF ReadLog, log
<1> HIDE DEF v
<1>5. CASE a = Got(v)
  BY <1>2, <1>4, <1>5, GotShape DEF Voiced
<1>6. CASE a = Missed({l}, "failed", "event_log")
  BY <1>6, MissedShape DEF Voiced
<1> QED BY <1>1, <1>5, <1>6

LEMMA OwnEventSteps ==
    ASSUME [Next]_vars, section = "event_logs"
    PROVE  AskEventLogs \/ Common
<1>1. Next \/ UNCHANGED vars
  OBVIOUS
<1>2. ~AskWindows /\ ~AskClock /\ ~AskFirmware /\ ~AskMemory /\ ~AskSecurity /\ ~AskCpu /\ ~AskGpu
      /\ ~AskDevices /\ ~AskUpdates /\ ~AskRuntime
  BY DEF AskWindows, AskClock, AskFirmware, AskMemory, AskSecurity, AskCpu, AskGpu, AskDevices,
         AskUpdates, AskRuntime, Hear, See, Ask
<1>3. ~Change
  BY DEF Change, SwitchProcessor, PlugCard, InstallUpdate, ClearHistory
<1>4. ~GiveUp
  BY DEF GiveUp
<1> QED BY <1>1, <1>2, <1>3, <1>4 DEF Next, Work, Common

LEMMA EventsKept ==
    ASSUME [Next]_vars, DInv, EventsRead, section = "event_logs"
    PROVE  EventsRead'
<1>1. /\ section' = section /\ Chronicled(pc)
      /\ stage = "collecting" => LogsAsked /\ LogsKept
      /\ stage # "collecting" => Returned(LogsHeard)
  BY Steady DEF EventsRead
<1>2. ASSUME NEW l \in Logs, Hear("event_logs", l, LogAnswers(l, pc[l])) PROVE EventsRead'
  <2>1. /\ stage = "collecting" /\ stage' = stage /\ pc' = pc /\ todo # <<>> /\ Head(todo) = l
        /\ todo' = Tail(todo)
    BY <1>2 DEF Hear, Ask, later
  <2>2. PICK a \in LogAnswers(l, pc[l]) : answer' = Join(answer, a)
    BY <1>2 DEF Hear
  <2> DEFINE before == DOMAIN answer.values
  <2>3. Covers(a, {l}) /\ Voiced(a) /\ a.values[l] \in {Null, ReadLog(l)}
    BY <1>1, LogAnswersAre
  <2>4. Covers(answer, before) /\ l \notin before
    BY <1>1, <2>1 DEF LogsAsked, EventLogQueries, Covers
  <2>5. before \cap {l} = {}
    BY <2>4
  <2> HIDE DEF before
  <2>6. Joined(answer', answer, before, a, {l})
    BY <2>2, <2>3, <2>4, <2>5, JoinCovers
  <2>7. \A k \in Logs : ReadLog(k)' = ReadLog(k)
    BY <2>1 DEF ReadLog
  <2>8. Voiced(answer')
    BY <1>1, <2>1, <2>3, <2>6 DEF Joined, Voiced, LogsKept
  <2>9. before \subseteq Logs
    BY <1>1, <2>1 DEF before, LogsAsked, Covers, Logs
  <2>10. \A k \in DOMAIN answer'.values : answer'.values[k] \in {Null, ReadLog(k)'}
    <3>1. \A k \in before : answer'.values[k] \in {Null, ReadLog(k)'}
      BY <1>1, <2>1, <2>6, <2>7, <2>9 DEF Joined, LogsKept, before
    <3>2. answer'.values[l] \in {Null, ReadLog(l)'}
      BY <2>3, <2>6, <2>7 DEF Joined
    <3> QED BY <2>6, <3>1, <3>2 DEF Joined, Covers
  <2>11. LogsKept'
    BY <2>8, <2>10 DEF LogsKept
  <2>12. Covers(answer', before \cup {l})
    BY <2>6 DEF Joined
  <2>13. LogsAsked'
    <3>1. CASE todo = EventLogQueries /\ before = {}
      <4>1. l = "system" /\ todo' = <<"application", "security">> /\ before \cup {l} = {"system"}
        BY <2>1, <3>1 DEF EventLogQueries
      <4> QED BY <2>12, <4>1 DEF LogsAsked
    <3>2. CASE todo = <<"application", "security">> /\ before = {"system"}
      <4>1. /\ l = "application" /\ todo' = <<"security">>
            /\ before \cup {l} = {"system", "application"}
        BY <2>1, <3>2
      <4> QED BY <2>12, <4>1 DEF LogsAsked
    <3>3. CASE todo = <<"security">> /\ before = {"system", "application"}
      <4>1. l = "security" /\ todo' = <<>> /\ before \cup {l} = Logs
        BY <2>1, <3>3 DEF Logs
      <4> QED BY <2>12, <4>1 DEF LogsAsked
    <3> QED BY <1>1, <2>1, <3>1, <3>2, <3>3 DEF LogsAsked, Covers, before
  <2> QED BY <1>1, <2>1, <2>11, <2>13 DEF EventsRead
<1>3. CASE AskEventLogs
  BY <1>2, <1>3 DEF AskEventLogs
<1>4. CASE Common
  <2>1. /\ UNCHANGED <<section, pc, changes, answer, seen>>
        /\ stage' = "collecting" => UNCHANGED <<stage, todo>>
    BY <1>4, CommonKeeps
  <2>2. Return => LogsHeard
    BY <1>1 DEF Return, LogsAsked, LogsHeard, EventLogQueries
  <2>3. LogsHeard' = LogsHeard /\ LogsKept' = LogsKept
    BY <2>1 DEF LogsHeard, LogsKept, ReadLog
  <2>4. stage' # "collecting" => Returned(LogsHeard)'
    BY <1>1, <1>4, <2>1, <2>2, <2>3, Handover DEF Returned, LogsHeard
  <2>5. stage' = "collecting" => LogsAsked' /\ LogsKept'
    BY <1>1, <2>1, <2>3 DEF LogsAsked
  <2> QED BY <1>1, <2>1, <2>4, <2>5 DEF EventsRead
<1> QED BY <1>3, <1>4, OwnEventSteps

LEMMA EInvariance == Spec => [](DInv /\ EventsRead)
<1>1. EventsRead /\ DInv /\ [Next]_vars => EventsRead'
  BY EventsKept, Steady DEF EventsRead
<1>2. Spec => []DInv
  BY DInvariance, PTL
<1> QED BY <1>1, <1>2, EventsInitOK, PTL DEF Spec

-----------------------------------------------------------------------------
(* What the collector, the gate and the rules make of it *)

LEMMA ReadLogIs ==
    ASSUME Chronicled(pc), NEW l \in Logs
    PROVE  /\ ReadLog(l) \in Seq(Records) /\ ReadLog(l) # Null
           /\ \A k \in DOMAIN ReadLog(l) : \E n \in DOMAIN pc[l] :
                ReadLog(l)[k].log = l /\ (Blank(ReadLog(l)[k]) => Blank(pc[l][n]))
           /\ \A n \in DOMAIN pc[l] : n <= MaxEvents /\ Asked(l, pc[l][n]) =>
                \E k \in DOMAIN ReadLog(l) : ReadLog(l)[k] = Entry(l, pc[l][n])
<1> DEFINE log == Logged(l, pc[l])
           v == ReadLog(l)
<1>1. pc[l] \in Seq(Events)
  BY DEF Chronicled
<1>2. /\ log \in Seq(Events)
      /\ \A i \in DOMAIN log : log[i] \in ToSet(pc[l])
      /\ \A n \in DOMAIN pc[l] : n <= MaxEvents /\ Asked(l, pc[l][n]) =>
           \E k \in DOMAIN log : log[k] = pc[l][n]
  <2> DEFINE events == pc[l]
  <2>1. events \in Seq(Events) /\ log = Logged(l, events)
    BY <1>1
  <2> HIDE DEF log, events
  <2>2. /\ log \in Seq(Events)
        /\ \A i \in DOMAIN log : log[i] \in ToSet(events)
        /\ \A n \in DOMAIN events : n <= MaxEvents /\ Asked(l, events[n]) =>
             \E k \in DOMAIN log : log[k] = events[n]
    BY <2>1, LoggedIs
  <2> QED BY <2>2 DEF events
<1>3. v = LogEntries(l, log)
  BY DEF ReadLog
<1> HIDE DEF log, v
<1>4. /\ v \in Seq(Records) /\ v # Null /\ DOMAIN v = DOMAIN log
      /\ \A i \in DOMAIN log : v[i].log = l /\ v[i] = Entry(l, log[i])
                               /\ (Blank(v[i]) => Blank(log[i]))
  BY <1>2, <1>3, LogEntriesAre
<1>5. ASSUME NEW k \in DOMAIN v
      PROVE  \E n \in DOMAIN pc[l] : v[k].log = l /\ (Blank(v[k]) => Blank(pc[l][n]))
  <2>1. PICK n \in DOMAIN pc[l] : log[k] = pc[l][n]
    BY <1>2, <1>4 DEF ToSet
  <2> QED BY <1>4, <2>1
<1>6. ASSUME NEW n \in DOMAIN pc[l], n <= MaxEvents, Asked(l, pc[l][n])
      PROVE  \E k \in DOMAIN v : v[k] = Entry(l, pc[l][n])
  <2>1. PICK k \in DOMAIN log : log[k] = pc[l][n]
    BY <1>2, <1>6
  <2>2. k \in DOMAIN v /\ v[k] = Entry(l, pc[l][n])
    BY <1>4, <2>1
  <2> QED BY <2>2
<1> QED BY <1>4, <1>5, <1>6 DEF v

LEMMA LogsReturned ==
    ASSUME EventsRead, section = "event_logs", stage # "collecting"
    PROVE  /\ DOMAIN result.values = Logs /\ Chronicled(pc)
           /\ \A l \in Logs : result.values[l] \in {Null, ReadLog(l)}
           /\ \/ result = Lost(Logs)
              \/ LogsHeard /\ result = EventLogResult(answer)
<1>1. Chronicled(pc) /\ Returned(LogsHeard)
  BY DEF EventsRead
<1>2. CASE result = Lost(EmptyPaths(section))
  <2>1. result = Lost(Logs)
    BY <1>2 DEF EmptyPaths
  <2>2. DOMAIN Lost(Logs).values = Logs /\ \A l \in Logs : Lost(Logs).values[l] = Null
    BY LostUnblamed DEF Lost, Unreasoned, Result, Missed, Answer
  <2> QED BY <1>1, <2>1, <2>2
<1>3. CASE LogsHeard /\ result = Judge(section, answer)
  <2>1. result = EventLogResult(answer)
    BY <1>3 DEF Judge
  <2>2. result.values = answer.values
    BY <2>1 DEF EventLogResult, Result
  <2> QED BY <1>1, <1>3, <2>1, <2>2 DEF LogsHeard, LogsKept, Covers
<1> QED BY <1>1, <1>2, <1>3 DEF Returned

\* The evaluations of the event logs, once they are written.
LEMMA LogsEvaluated ==
    ASSUME DInv, EventsRead, section = "event_logs", Written
    PROVE  /\ evaluations = EvaluateEventLogs(result.values)
           /\ LogsListed(result.values) /\ Chronicled(pc)
           /\ \A l \in Logs : result.values[l] \in {Null, ReadLog(l)}
<1>1. evaluations = Diagnose(section, result.values) /\ stage = "done"
  BY DEF DInv, Followed, Written
<1>2. evaluations = EvaluateEventLogs(result.values)
  BY <1>1 DEF Diagnose
<1>3. /\ DOMAIN result.values = Logs /\ Chronicled(pc)
      /\ \A l \in Logs : result.values[l] \in {Null, ReadLog(l)}
  BY <1>1, LogsReturned
<1>4. LogsListed(result.values)
  BY <1>3, ReadLogIs DEF LogsListed
<1> QED BY <1>2, <1>3, <1>4

LEMMA LogsAccepted ==
    DInv /\ EventsRead => (section = "event_logs" => DiagnosisAccepted)
<1> SUFFICES ASSUME DInv, EventsRead, section = "event_logs", Written
             PROVE  Accepted("event_logs", result.values, evaluations, Summarize(evaluations))
  BY DEF DiagnosisAccepted
<1> DEFINE ev == evaluations
<1>1. ev = EvaluateEventLogs(result.values) /\ LogsListed(result.values)
  BY LogsEvaluated
<1> HIDE DEF ev
<1>2. /\ \E n \in Nat : DOMAIN ev = 1 .. n
      /\ \A n \in DOMAIN ev : Faithful("event_logs", result.values, ev[n])
      /\ \A n, k \in DOMAIN ev : ev[n].rule = ev[k].rule => n = k
  BY <1>1, EventRulesAre
<1>3. PICK n \in Nat : DOMAIN ev = 1 .. n
  BY <1>2
<1>4. Accepted("event_logs", result.values, ev, Summarize(ev))
  BY <1>2, <1>3, AcceptedIs
<1> QED BY <1>4 DEF ev

LEMMA LogFaultsReported ==
    DInv /\ EventsRead => (section = "event_logs" => FaultReported)
<1> SUFFICES ASSUME DInv, EventsRead, section = "event_logs", Written,
                    NEW l \in Logs, NEW n \in DOMAIN pc[l], n <= MaxEvents, Asked(l, pc[l][n]),
                    NEW kind, kind = KindOf(Entry(l, pc[l][n])), kind # Null
             PROVE  \/ Verdicts(<<l, "availability">>) = {"triggered"}
                    \/ Verdicts(<<l, kind>>) = {"triggered"}
  BY DEF FaultReported
<1>1. /\ evaluations = EvaluateEventLogs(result.values) /\ LogsListed(result.values)
      /\ Chronicled(pc) /\ result.values[l] \in {Null, ReadLog(l)}
  BY LogsEvaluated
<1>2. /\ \A i \in DOMAIN evaluations : evaluations[i].status = "triggered"
      /\ \A k \in Logs : result.values[k] = Null =>
           \E i \in DOMAIN evaluations : evaluations[i].rule = <<k, "availability">>
      /\ \A k \in Logs : result.values[k] # Null => \A i \in DOMAIN result.values[k] :
           KindOf(result.values[k][i]) # Null =>
             \E j \in DOMAIN evaluations : evaluations[j].rule = <<k, KindOf(result.values[k][i])>>
  <2>1. Reported(result.values, evaluations)
    BY <1>1, EventRulesAre
  <2> QED BY <2>1 DEF Reported
<1>3. ASSUME NEW rule, NEW i \in DOMAIN evaluations, evaluations[i].rule = rule
      PROVE  Verdicts(rule) = {"triggered"}
  <2>1. \A e \in ToSet(evaluations) : e.status = "triggered"
    BY <1>2 DEF ToSet
  <2>2. evaluations[i] \in {x \in ToSet(evaluations) : x.rule = rule}
    BY <1>3 DEF ToSet
  <2> QED BY <2>1, <2>2 DEF Verdicts
<1>4. CASE result.values[l] = Null
  BY <1>2, <1>3, <1>4
<1>5. CASE result.values[l] # Null
  <2>1. result.values[l] = ReadLog(l)
    BY <1>1, <1>5
  <2>2. PICK k \in DOMAIN ReadLog(l) : ReadLog(l)[k] = Entry(l, pc[l][n])
    BY <1>1, ReadLogIs
  <2>3. PICK j \in DOMAIN evaluations : evaluations[j].rule = <<l, kind>>
    BY <1>2, <1>5, <2>1, <2>2
  <2> QED BY <1>3, <2>3
<1> QED BY <1>4, <1>5

LEMMA ShutdownsOK == DInv /\ EventsRead => ShutdownsCounted
<1> DEFINE log == Logged("system", pc["system"])
           those == {i \in DOMAIN log : log[i].id \in {41, 6008}}
           near == {p \in those \X those : /\ log[p[1]].id = 41 /\ log[p[2]].id = 6008
                                           /\ log[p[1]].tick - log[p[2]].tick \in -1 .. 1}
           ways == {x \in SUBSET near : \A p, q \in x : p # q => p[1] # q[1] /\ p[2] # q[2]}
           most == Max({Cardinality(m) : m \in ways})
           v == result.values["system"]
           kind == "unexpected_shutdown"
<1> SUFFICES ASSUME DInv, EventsRead, section = "event_logs", Written,
                    NEW e \in ToSet(evaluations), e.rule = <<"system", "unexpected_shutdown">>
             PROVE  Cardinality(those) - e.count <= most /\ 2 * (Cardinality(those) - e.count) >= most
  BY SMTT(30) DEF ShutdownsCounted
<1> HIDE DEF those, near, ways, most
<1>1. /\ evaluations = EvaluateEventLogs(result.values) /\ LogsListed(result.values)
      /\ Chronicled(pc) /\ \A l \in Logs : result.values[l] \in {Null, ReadLog(l)}
  BY LogsEvaluated
<1>2. OfLog(result.values, e)
  <2>1. PICK n \in DOMAIN evaluations : e = evaluations[n]
    BY DEF ToSet
  <2>2. \A i \in DOMAIN evaluations : OfLog(result.values, evaluations[i])
    BY <1>1, EventRulesAre
  <2> QED BY <2>1, <2>2
<1>3. v # Null /\ e.count = ShutdownCount(EntriesAt(v, OfKind(v, kind)))
  <2>1. \A l \in Logs : e.rule # <<l, "availability">>
    OBVIOUS
  <2>2. PICK l \in Logs, k \in Kinds :
          /\ e.rule = <<l, k>> /\ result.values[l] # Null
          /\ k = "unexpected_shutdown" =>
                e.count = ShutdownCount(EntriesAt(result.values[l], OfKind(result.values[l], k)))
    BY <1>2, <2>1, Zenon DEF OfLog
  <2>3. l = "system" /\ k = "unexpected_shutdown"
    BY <2>2
  <2> QED BY <2>2, <2>3
<1>4. "system" \in Logs
  BY DEF Logs
<1>5. v = LogEntries("system", log)
  BY <1>1, <1>3, <1>4 DEF ReadLog
<1>6. PICK c \in Clocks : \A l \in Logs : Timed(ToSet(pc[l]), c)
  BY <1>1 DEF Chronicled
<1>7. log \in Seq(Events) /\ Timed(ToSet(log), c)
  <2>1. pc["system"] \in Seq(Events)
    BY <1>1, <1>4 DEF Chronicled
  <2>2. log \in Seq(Events) /\ \A i \in DOMAIN log : log[i] \in ToSet(pc["system"])
    BY <2>1, LoggedIs
  <2>3. ToSet(log) \subseteq ToSet(pc["system"])
    BY <2>2 DEF ToSet
  <2>4. Timed(ToSet(pc["system"]), c)
    BY <1>4, <1>6
  <2> QED BY <2>2, <2>3, <2>4 DEF Timed
<1>8. OfKind(v, kind) = Shutdowns(log)
  <2> HIDE DEF log, v
  <2>1. /\ DOMAIN v = DOMAIN log
        /\ \A i \in DOMAIN log : v[i].log = "system" /\ v[i].id = log[i].id
    BY <1>4, <1>5, <1>7, LogEntriesAre
  <2>2. \A i \in DOMAIN log : KindOf(v[i]) = kind <=> log[i].id \in {41, 6008}
    BY <2>1, KindIs
  <2> QED BY <2>1, <2>2 DEF OfKind, Shutdowns
<1> HIDE DEF log, v
<1>9. e.count = ShutdownCount(EntriesAt(v, Shutdowns(log)))
  BY <1>3, <1>8
<1>10. LET pairs == Cardinality(Shutdowns(log)) - e.count
       IN  pairs <= MostPairs(log) /\ 2 * pairs >= MostPairs(log)
  BY <1>5, <1>7, <1>9, ShutdownsAre
<1>11. those = Shutdowns(log)
  BY DEF Shutdowns, those
<1>12. near = Near(log)
  <2>1. Near(log) = {p \in Shutdowns(log) \X Shutdowns(log) :
                       /\ log[p[1]].id = 41 /\ log[p[2]].id = 6008
                       /\ log[p[1]].tick - log[p[2]].tick \in -1 .. 1}
    BY DEF Near
  <2> QED BY <1>11, <2>1 DEF near
<1>13. ways = {y \in SUBSET Near(log) : Matching(y)}
  BY <1>12 DEF Matching, ways
<1>14. most = MostPairs(log)
  BY <1>13 DEF MostPairs, most
<1> QED BY <1>10, <1>11, <1>14

\* Of the event logs, the gate finds nothing wrong but an event whose text is blank.
LEMMA LogsBlamed ==
    ASSUME EventsRead, section = "event_logs", stage # "collecting"
    PROVE  \A x \in EventLogErrors(result) :
             x[1] = "event" /\ \E n \in DOMAIN pc[x[2]] : Blank(pc[x[2]][n])
<1> DEFINE r == result
           values == result.values
<1>1. /\ DOMAIN values = Logs /\ Chronicled(pc)
      /\ \A l \in Logs : values[l] \in {Null, ReadLog(l)}
      /\ r = Lost(Logs) \/ (LogsHeard /\ r = EventLogResult(answer))
  BY LogsReturned
<1>2. ASSUME NEW l \in Logs, values[l] # Null, NEW k \in DOMAIN values[l],
             values[l][k].log # l \/ Blank(values[l][k])
      PROVE  \E n \in DOMAIN pc[l] : Blank(pc[l][n])
  <2>1. values[l] = ReadLog(l)
    BY <1>1, <1>2
  <2>2. PICK n \in DOMAIN pc[l] :
          values[l][k].log = l /\ (Blank(values[l][k]) => Blank(pc[l][n]))
    BY <1>1, <1>2, <2>1, ReadLogIs
  <2> QED BY <1>2, <2>2
<1>3. ASSUME NEW x \in EventErrors(r)
      PROVE  x[1] = "event" /\ \E n \in DOMAIN pc[x[2]] : Blank(pc[x[2]][n])
  <2>1. EventErrors(r) = UNION {{<<"event", log>> : e \in {y \in ToSet(values[log]) :
                                                             y.log # log \/ Blank(y)}}
                                  : log \in DOMAIN values \ Nulls(values)}
    BY DEF EventErrors, Blank
  <2>2. PICK log \in DOMAIN values \ Nulls(values) :
          x \in {<<"event", log>> : e \in {y \in ToSet(values[log]) : y.log # log \/ Blank(y)}}
    BY <2>1
  <2>3. PICK e \in {y \in ToSet(values[log]) : y.log # log \/ Blank(y)} : x = <<"event", log>>
    BY <2>2
  <2>4. PICK k \in DOMAIN values[log] : e = values[log][k]
    BY <2>3 DEF ToSet
  <2>5. log \in Logs /\ values[log] # Null
    BY <1>1, <2>2 DEF Nulls
  <2>6. \E n \in DOMAIN pc[log] : Blank(pc[log][n])
    BY <1>2, <2>3, <2>4, <2>5
  <2>7. x[1] = "event" /\ x[2] = log
    BY <2>3
  <2> QED BY <2>6, <2>7
<1> HIDE DEF r
<1>4. EventLogErrors(r) = EventErrors(r)
  <2>1. CASE r = Lost(Logs)
    <3>1. r.status = "failed" /\ FailureErrors(r) = {}
      BY <2>1, LostUnblamed DEF Lost, Unreasoned, Result
    <3> QED BY <3>1 DEF EventLogErrors
  <2>2. CASE LogsHeard /\ r = EventLogResult(answer)
    <3> DEFINE reasons == DOMAIN answer.reasons
    <3>1. /\ r.values = answer.values /\ r.fields = answer.reasons /\ r.said = answer.said
          /\ reasons = {} => r.status = "success"
          /\ reasons = Logs => r.status = "failed"
          /\ reasons # {} /\ reasons # Logs => r.status = "partial"
      <4>1. "system" \in Logs
        BY DEF Logs
      <4> QED BY <2>2, <4>1 DEF EventLogResult, Result
    <3>2. /\ reasons = Nulls(r.values) /\ DOMAIN r.values = Logs
          /\ r.said = {} <=> reasons = {}
      BY <2>2, <3>1 DEF LogsHeard, LogsKept, Covers, Balanced, Voiced
    <3> HIDE DEF reasons
    <3>3. CASE reasons = {}
      <4>1. SuccessErrors(r, {}) = {} /\ r.status = "success" /\ Nulls(r.values) = {}
        BY <3>1, <3>2, <3>3 DEF SuccessErrors, reasons
      <4> QED BY <4>1 DEF EventLogErrors
    <3>4. CASE reasons = Logs
      <4>1. reasons # {}
        BY <3>4 DEF Logs
      <4>2. FailureErrors(r) = {} /\ r.status = "failed"
        BY <3>1, <3>2, <3>4, <4>1 DEF FailureErrors
      <4> QED BY <4>2 DEF EventLogErrors
    <3>5. CASE reasons # {} /\ reasons # Logs
      <4>1. r.status = "partial" /\ Nulls(r.values) \ DOMAIN r.fields = {}
        BY <3>1, <3>2, <3>5 DEF reasons
      <4> QED BY <4>1 DEF EventLogErrors
    <3> QED BY <3>3, <3>4, <3>5
  <2> QED BY <1>1, <2>1, <2>2 DEF r
<1> QED BY <1>3, <1>4 DEF r

LEMMA EventExplained ==
    ASSUME NEW e, NEW s, NEW p, NEW a, e[1] = "event",
           \E n \in DOMAIN p[e[2]] : Blank(p[e[2]][n])
    PROVE  Explains(e, s, p, a)
BY DEF Explains

LEMMA LogRefusalsOK == DInv /\ EventsRead => (section = "event_logs" => ExplainedRefusal)
<1> SUFFICES ASSUME DInv, EventsRead, section = "event_logs", NEW e \in errors
             PROVE  Explains(e, section, pc, seen)
  BY RefusalNow
<1>1. stage # "collecting" /\ errors = EventLogErrors(result)
  BY DEF DInv, Followed, GateErrors
<1> QED BY <1>1, LogsBlamed, EventExplained

LEMMA LogsComplete == DInv /\ EventsRead => (section = "event_logs" => SuccessIsComplete)
<1> SUFFICES ASSUME DInv, EventsRead, section = "event_logs", Written, result.status = "success"
             PROVE  SuccessIsComplete
  BY DEF SuccessIsComplete
<1>1. EventLogErrors(result) = {} /\ stage = "done"
  BY DEF DInv, Followed, Written, GateErrors
<1>2. Nulls(result.values) = {}
  <2>1. {<<"not_success", p>> : p \in Nulls(result.values)} \subseteq EventLogErrors(result)
    BY DEF EventLogErrors
  <2> QED BY <1>1, <2>1
<1>3. /\ DOMAIN result.values = Logs /\ Chronicled(pc)
      /\ \A l \in Logs : result.values[l] \in {Null, ReadLog(l)}
  BY <1>1, LogsReturned
<1>4. \A l \in Logs : result.values[l] = ReadLog(l)
  BY <1>2, <1>3 DEF Nulls
<1>5. ASSUME NEW l \in Logs, NEW n \in DOMAIN pc[l], Asked(l, pc[l][n]), n <= MaxEvents
      PROVE  \E e \in ToSet(result.values[l]) : e.id = pc[l][n].id /\ e.time = pc[l][n].time
  <2>1. PICK k \in DOMAIN ReadLog(l) : ReadLog(l)[k] = Entry(l, pc[l][n])
    BY <1>3, <1>5, ReadLogIs
  <2>2. Entry(l, pc[l][n]).id = pc[l][n].id /\ Entry(l, pc[l][n]).time = pc[l][n].time
    BY DEF Entry
  <2>3. ReadLog(l)[k] \in ToSet(result.values[l])
    BY <1>4 DEF ToSet
  <2> QED BY <2>1, <2>2, <2>3
<1> QED BY <1>2, <1>5 DEF SuccessIsComplete

-----------------------------------------------------------------------------
(* The theorems *)

\* However many shutdowns a log tells of, in whatever order, across months, years and
\* leap days: pairing the records one after the other finds no pair too many, and at
\* least half of the most there could be (ShutdownsCounted; paired_shutdowns of rules.rs).
THEOREM ShutdownsRight == Spec => []ShutdownsCounted
BY EInvariance, ShutdownsOK, PTL

\* What the rules say, of every section, is what the report accepts: each rule speaks
\* once, on evidence that the collection holds, with a severity for each finding, and a
\* summary that adds up (DiagnosisAccepted, with nothing left out).
THEOREM EveryDiagnosisAccepted == Spec => []DiagnosisAccepted
<1>1. DInv /\ EventsRead => DiagnosisAccepted
  BY DiagnosisOK, LogsAccepted
<1> QED BY <1>1, EInvariance, PTL

\* A defect that was read is a finding, whatever else could not be read: of adapters, of
\* devices, of memory, and of each kind of event among those a log is read back to
\* (FaultReported, with nothing left out).
THEOREM EveryFaultReported == Spec => []FaultReported
<1>1. DInv /\ EventsRead => FaultReported
  BY FaultOK, LogFaultsReported
<1> QED BY <1>1, EInvariance, PTL

-----------------------------------------------------------------------------
(* The inductive invariant. *)

\* The history was deleted, or had nothing to miss.
Deleted == pc.first = 0 \/ 1 \notin ToSet(pc.history)

\* The number of the newest entry.
Top == pc.first + changes

\* Until it is deleted, the history has every entry, the newest first.
HistoryOK ==
    /\ pc \in [first : Nat, history : Seq(Nat), most : {Null} \cup (Nat \ {0}), cutoff : Int]
    /\ changes \in Nat
    /\ ~Deleted => /\ Len(pc.history) = Top
                   /\ \A i \in 1 .. Top : pc.history[i] = Top + 1 - i

Pages == [total : Nat, offset : Nat, items : Seq(Nat), by_date : BOOLEAN, by_count : BOOLEAN,
          over : BOOLEAN]

\* The pages so far have every entry from `lo' on, and the next one reaches `lo',
\* wherever installations have moved it.
Reaches(p, lo) ==
    /\ lo + p.offset <= Top + 1
    /\ \A n \in ToSet(p.items) : lo <= n
    /\ \A n \in lo .. pc.first : n \in ToSet(p.items)

PagesOK(p) ==
    /\ p \in Pages
    /\ \A n \in ToSet(p.items) : n >= pc.cutoff
    /\ ~p.over => p.offset < p.total /\ ~p.by_date /\ (pc.most # Null => Len(p.items) < pc.most)
    /\ ~Deleted =>
         /\ pc.first <= p.total /\ p.total <= Top
         /\ p.over => p.by_date \/ p.by_count \/ p.offset >= p.total
         /\ p.by_date => \A n \in 1 .. pc.first : n >= pc.cutoff => n \in ToSet(p.items)
         /\ ~p.by_date => \E lo \in 1 .. (Top + 1) : Reaches(p, lo)

\* What HistoryWhole says of the entries and messages of a success.
Kept(items, said) ==
    /\ \A n \in items : n >= pc.cutoff
    /\ ~Deleted =>
         LET due == {n \in 1 .. pc.first : n >= pc.cutoff}
             lost == due \ items
         IN  /\ \A n \in lost, m \in due \cap items : n < m
             /\ Cardinality(lost) <= changes \/ "truncated_by_count" \in said
             /\ "truncated_by_date" \in said => lost = {}

Told(a) == DOMAIN a.reasons # {} \/ Kept(ToSet(a.values["history"]), a.said)

AskedOK ==
    \/ todo = <<"count", "pages">> /\ answer = Got(<<>>) /\ DOMAIN seen = {}
    \/ todo = <<"pages">> /\ answer = Got(<<>>) /\ PagesOK(seen.pages)
    \/ todo = <<>> /\ Told(answer)

ReturnedOK == result.status = "success" => Kept(ToSet(result.values["history"]), result.said)

HInv ==
    section = "windows_updates" =>
        /\ HistoryOK
        /\ stage = "collecting" => AskedOK
        /\ stage # "collecting" => ReturnedOK

-----------------------------------------------------------------------------
(* Sequences and the first of a set. *)

LEMMA ConcatItems ==
    ASSUME NEW s \in Seq(Nat), NEW t \in Seq(Nat)
    PROVE  /\ s \o t \in Seq(Nat) /\ Len(s \o t) = Len(s) + Len(t)
           /\ ToSet(s \o t) = ToSet(s) \cup ToSet(t)
<1> DEFINE u == s \o t
<1>1. /\ u \in Seq(Nat) /\ Len(u) = Len(s) + Len(t)
      /\ \A i \in DOMAIN u : u[i] = IF i <= Len(s) THEN s[i] ELSE t[i - Len(s)]
  OBVIOUS
<1> HIDE DEF u
<1>2. /\ Len(s) \in Nat /\ Len(t) \in Nat /\ DOMAIN s = 1 .. Len(s) /\ DOMAIN t = 1 .. Len(t)
      /\ DOMAIN u = 1 .. (Len(s) + Len(t))
  BY <1>1
<1>3. \A i \in DOMAIN s : i \in DOMAIN u /\ u[i] = s[i]
  BY <1>1, <1>2
<1>4. \A i \in DOMAIN t : i + Len(s) \in DOMAIN u /\ u[i + Len(s)] = t[i]
  <2> SUFFICES ASSUME NEW i \in DOMAIN t
               PROVE  i + Len(s) \in DOMAIN u /\ u[i + Len(s)] = t[i]
    OBVIOUS
  <2>1. i \in Nat /\ 1 <= i /\ i <= Len(t)
    BY <1>2
  <2>2. i + Len(s) \in DOMAIN u /\ ~(i + Len(s) <= Len(s)) /\ i + Len(s) - Len(s) = i
    BY <1>2, <2>1
  <2> QED BY <1>1, <2>2
<1>5. \A i \in DOMAIN u : u[i] \in ToSet(s) \cup ToSet(t)
  <2> SUFFICES ASSUME NEW i \in DOMAIN u PROVE u[i] \in ToSet(s) \cup ToSet(t)
    OBVIOUS
  <2>1. CASE i <= Len(s)
    BY <1>1, <1>2, <2>1 DEF ToSet
  <2>2. CASE ~(i <= Len(s))
    <3>1. i - Len(s) \in DOMAIN t /\ u[i] = t[i - Len(s)]
      BY <1>1, <1>2, <2>2
    <3> QED BY <3>1 DEF ToSet
  <2> QED BY <2>1, <2>2
<1>6. ToSet(u) = ToSet(s) \cup ToSet(t)
  BY <1>3, <1>4, <1>5 DEF ToSet
<1> QED BY <1>1, <1>6 DEF u

LEMMA FirstOfIs ==
    ASSUME NEW s \in Seq(Nat), NEW n \in Nat
    PROVE  /\ FirstOf(n, s) \in Seq(Nat)
           /\ Len(FirstOf(n, s)) = IF n < Len(s) THEN n ELSE Len(s)
           /\ \A i \in DOMAIN FirstOf(n, s) : i \in DOMAIN s /\ FirstOf(n, s)[i] = s[i]
           /\ n = Len(s) => FirstOf(n, s) = s
  BY DEF FirstOf

LEMMA LeastIs ==
    ASSUME NEW S, S \subseteq Int, NEW x \in S, \A y \in S : x <= y
    PROVE  Min(S) = x
<1>1. \A z \in S : (\A y \in S : z <= y) => z = x
  <2> SUFFICES ASSUME NEW z \in S, \A y \in S : z <= y PROVE z = x
    OBVIOUS
  <2>1. z <= x /\ x <= z /\ z \in Int /\ x \in Int
    OBVIOUS
  <2> QED BY <2>1
<1> QED BY <1>1 DEF Min

LEMMA LeastOfThree ==
    ASSUME NEW a \in Int, NEW b \in Int, NEW S, S = {a, b} \/ \E c \in Int : S = {a, b} \cup {c}
    PROVE  Min(S) \in S /\ \A y \in S : Min(S) <= y
<1>1. S \subseteq Int
  OBVIOUS
<1>2. \E x \in S : \A y \in S : x <= y
  <2>1. CASE S = {a, b}
    <3>1. CASE a <= b BY <2>1, <3>1
    <3>2. CASE b <= a BY <2>1, <3>2
    <3> QED BY <3>1, <3>2
  <2>2. CASE \E c \in Int : S = {a, b} \cup {c}
    <3>1. PICK c \in Int : S = {a, b} \cup {c}
      BY <2>2
    <3>2. CASE a <= b /\ a <= c BY <3>1, <3>2
    <3>3. CASE b <= a /\ b <= c BY <3>1, <3>3
    <3>4. CASE c <= a /\ c <= b BY <3>1, <3>4
    <3> QED BY <3>2, <3>3, <3>4
  <2> QED BY <2>1, <2>2
<1>3. PICK x \in S : \A y \in S : x <= y
  BY <1>2
<1> QED BY <1>1, <1>3, LeastIs

\* The entries up to the first that is too old: there is always such a place.
LEMMA FreshIs ==
    ASSUME NEW batch \in Seq(Nat), NEW cutoff \in Int
    PROVE  \E m \in 0 .. Len(batch) :
             /\ Fresh(batch, cutoff) = FirstOf(m, batch)
             /\ \A i \in 1 .. m : batch[i] >= cutoff
             /\ m < Len(batch) => batch[m + 1] < cutoff
<1> DEFINE n == Len(batch)
           S == {j \in 1 .. n : \A i \in 1 .. j : batch[i] >= cutoff}
           k == Cardinality(S)
<1>1. n \in Nat /\ \A i \in 1 .. n : batch[i] \in Nat
  OBVIOUS
<1> HIDE DEF n
<1>2. S \subseteq 1 .. n /\ IsFiniteSet(1 .. n) /\ Cardinality(1 .. n) = n
  BY <1>1, FS_Interval
<1>3. IsFiniteSet(S) /\ k \in Nat /\ k <= n
  BY <1>2, FS_Subset, FS_CardinalityType
<1>4. \A j \in S : 1 .. j \subseteq S
  BY <1>1
<1> HIDE DEF S
<1>5. S \subseteq 1 .. k
  <2> SUFFICES ASSUME NEW j \in S PROVE j <= k /\ j >= 1
    BY <1>1, <1>2, <1>3
  <2>1. j \in Nat /\ j >= 1
    BY <1>1, <1>2
  <2>2. Cardinality(1 .. j) = j
    BY <2>1, FS_Interval
  <2>3. Cardinality(1 .. j) <= Cardinality(S)
    BY <1>3, <1>4, FS_Subset
  <2> QED BY <2>1, <2>2, <2>3
<1>6. S = 1 .. k
  <2>1. IsFiniteSet(1 .. k) /\ Cardinality(1 .. k) = k
    BY <1>3, FS_Interval
  <2> QED BY <1>5, <2>1, FS_Subset
<1>7. \A i \in 1 .. k : batch[i] >= cutoff
  <2> SUFFICES ASSUME NEW i \in 1 .. k PROVE batch[i] >= cutoff
    OBVIOUS
  <2>1. i \in S
    BY <1>6
  <2>2. i \in 1 .. i
    BY <1>3
  <2> QED BY <2>1, <2>2 DEF S
<1>8. k < n => batch[k + 1] < cutoff
  <2> SUFFICES ASSUME k < n, ~(batch[k + 1] < cutoff) PROVE FALSE
    OBVIOUS
  <2>1. k + 1 \in 1 .. n /\ k + 1 \notin S
    BY <1>1, <1>3, <1>6
  <2>2. PICK i \in 1 .. (k + 1) : ~(batch[i] >= cutoff)
    BY <2>1 DEF S
  <2>3. i \in 1 .. k \/ i = k + 1
    BY <1>3
  <2>4. batch[k + 1] \in Nat
    BY <1>1, <2>1
  <2> QED BY <1>7, <2>2, <2>3, <2>4
<1> DEFINE Place(m) == /\ \A i \in 1 .. m : batch[i] >= cutoff
                       /\ m < Len(batch) => batch[m + 1] < cutoff
           place == CHOOSE m \in 0 .. Len(batch) : Place(m)
<1>9. k \in 0 .. Len(batch) /\ Place(k)
  BY <1>1, <1>3, <1>7, <1>8 DEF n
<1>10. place \in 0 .. Len(batch) /\ Place(place)
  <2> HIDE DEF Place
  <2> QED BY <1>9
<1>11. Fresh(batch, cutoff) = FirstOf(place, batch)
  BY DEF Fresh
<1> QED BY <1>10, <1>11

\* What the next page is: b entries from the place of the pages before it, of which the
\* first m are young enough.
Turns(p, h, most, cutoff, q, b, m) ==
    /\ q \in Pages /\ q.total = p.total
    /\ b \in Nat /\ m \in 0 .. b
    /\ b > 0 => p.offset + b <= Len(h)
    /\ b = 0 => Len(h) <= p.offset
    /\ ToSet(q.items) = ToSet(p.items) \cup {h[p.offset + i] : i \in 1 .. m}
    /\ \A i \in 1 .. m : h[p.offset + i] >= cutoff
    /\ m < b => h[p.offset + m + 1] < cutoff
    /\ Len(q.items) = Len(p.items) + m
    /\ q.offset = IF m = b THEN p.offset + b ELSE p.offset
    /\ q.by_date <=> m < b
    /\ q.by_count <=> (most # Null /\ Len(q.items) >= most) /\ q.offset < p.total
    /\ q.over <=> m < b \/ (most # Null /\ Len(q.items) >= most) \/ b = 0 \/ q.offset >= p.total

LEMMA PageIs ==
    ASSUME NEW p \in Pages, NEW h \in Seq(Nat), NEW most \in {Null} \cup (Nat \ {0}),
           NEW cutoff \in Int,
           p.offset < p.total, most # Null => Len(p.items) < most
    PROVE  \E b, m \in Nat : Turns(p, h, most, cutoff, NextPage(p, h, most, cutoff), b, m)
<1> DEFINE left == {Batch, p.total - p.offset} \cup
                     (IF most = Null THEN {} ELSE {most - Len(p.items)})
           rest == SubSeq(h, p.offset + 1, Len(h))
           batch == FirstOf(Min(left), rest)
           fresh == Fresh(batch, cutoff)
           items == p.items \o fresh
           offset == IF fresh = batch THEN p.offset + Len(batch) ELSE p.offset
           full == most # Null /\ Len(items) >= most
           q == NextPage(p, h, most, cutoff)
           b == Len(batch)
<1>1. /\ q = [p EXCEPT !.items = items, !.offset = offset, !.by_date = fresh # batch,
                       !.by_count = full /\ offset < p.total,
                       !.over = fresh # batch \/ full \/ batch = <<>> \/ offset >= p.total]
  BY DEF NextPage, Advance, Exhausted
<1> HIDE DEF q
<1>2. p.offset \in Nat /\ p.total \in Nat /\ p.items \in Seq(Nat) /\ Len(p.items) \in Nat
  BY DEF Pages
<1>3. Min(left) \in Nat \ {0}
  <2>1. Batch \in Nat \ {0}
    BY HistoriesAssumption
  <2>2. left \subseteq Nat \ {0}
    BY <1>2, <2>1
  <2>3. Batch \in Int /\ p.total - p.offset \in Int
    BY <1>2, <2>1
  <2>4. left = {Batch, p.total - p.offset}
        \/ \E c \in Int : left = {Batch, p.total - p.offset} \cup {c}
    <3>1. CASE most = Null
      BY <3>1
    <3>2. CASE most # Null
      <4>1. most - Len(p.items) \in Int
        BY <1>2, <3>2
      <4> QED BY <3>2, <4>1
    <3> QED BY <3>1, <3>2
  <2> HIDE DEF left
  <2>5. Min(left) \in left
    BY <2>3, <2>4, LeastOfThree
  <2> QED BY <2>2, <2>5
<1> DEFINE n == Min(left)
<1> HIDE DEF left, n
<1>4. /\ rest \in Seq(Nat) /\ Len(rest) \in Nat
      /\ Len(rest) = IF p.offset < Len(h) THEN Len(h) - p.offset ELSE 0
      /\ \A i \in 1 .. Len(rest) : rest[i] = h[p.offset + i]
  <2>1. Len(h) \in Nat /\ p.offset + 1 \in Nat \ {0}
    BY <1>2
  <2>2. rest \in Seq(Nat)
    <3>1. \A m \in Nat \ {0} : SubSeq(h, m, Len(h)) \in Seq(Nat)
      BY <2>1
    <3> QED BY <2>1, <3>1
  <2>3. Len(rest) = IF p.offset < Len(h) THEN Len(h) - p.offset ELSE 0
    <3>1. Len(rest) = IF p.offset + 1 <= Len(h) THEN Len(h) - (p.offset + 1) + 1 ELSE 0
      BY <2>1
    <3> HIDE DEF rest
    <3> QED BY <1>2, <2>1, <3>1
  <2>4. \A i \in 1 .. Len(rest) : rest[i] = h[p.offset + i]
    <3> SUFFICES ASSUME NEW i \in 1 .. Len(rest) PROVE rest[i] = h[p.offset + i]
      OBVIOUS
    <3>1. p.offset + 1 + i - 1 = p.offset + i /\ i \in 1 .. (Len(h) - (p.offset + 1) + 1)
      BY <1>2, <2>1, <2>3
    <3> QED BY <2>1, <3>1, SMTT(20)
  <2> QED BY <2>2, <2>3, <2>4
<1> HIDE DEF rest
<1>5. /\ batch \in Seq(Nat) /\ b = IF n < Len(rest) THEN n ELSE Len(rest)
      /\ b \in Nat /\ DOMAIN batch = 1 .. b
      /\ \A i \in 1 .. b : batch[i] = h[p.offset + i]
  <2>1. n \in Nat
    BY <1>3 DEF n
  <2>2. /\ batch \in Seq(Nat) /\ b = IF n < Len(rest) THEN n ELSE Len(rest)
        /\ \A i \in DOMAIN batch : i \in DOMAIN rest /\ batch[i] = rest[i]
    BY <1>4, <2>1, FirstOfIs DEF n
  <2>3. DOMAIN batch = 1 .. b /\ DOMAIN rest = 1 .. Len(rest) /\ b \in Nat
    BY <1>4, <2>2
  <2> QED BY <1>4, <2>2, <2>3
<1>6. (b > 0 => p.offset + b <= Len(h)) /\ (b = 0 => Len(h) <= p.offset)
  BY <1>2, <1>3, <1>4, <1>5 DEF n
<1> HIDE DEF batch
<1>7. PICK m \in 0 .. b : /\ fresh = FirstOf(m, batch)
                          /\ \A i \in 1 .. m : batch[i] >= cutoff
                          /\ m < b => batch[m + 1] < cutoff
  BY <1>5, FreshIs
<1>8. /\ fresh \in Seq(Nat) /\ Len(fresh) = m /\ DOMAIN fresh = 1 .. m
      /\ \A i \in 1 .. m : fresh[i] = h[p.offset + i]
      /\ fresh = batch <=> m = b
  <2>1. m \in Nat /\ m <= b
    BY <1>5, <1>7
  <2>2. /\ fresh \in Seq(Nat) /\ Len(fresh) = IF m < b THEN m ELSE b
        /\ \A i \in DOMAIN fresh : i \in DOMAIN batch /\ fresh[i] = batch[i]
        /\ m = b => fresh = batch
    BY <1>5, <1>7, <2>1, FirstOfIs, SMTT(20)
  <2>3. Len(fresh) = m /\ DOMAIN fresh = 1 .. m
    BY <1>5, <2>1, <2>2
  <2> QED BY <1>5, <2>1, <2>2, <2>3
<1> HIDE DEF fresh
<1>9. /\ items \in Seq(Nat) /\ Len(items) = Len(p.items) + m
      /\ ToSet(items) = ToSet(p.items) \cup {h[p.offset + i] : i \in 1 .. m}
  <2>1. ToSet(fresh) = {h[p.offset + i] : i \in 1 .. m}
    BY <1>8 DEF ToSet
  <2> QED BY <1>2, <1>8, <2>1, ConcatItems
<1> HIDE DEF items
<1>10. batch = <<>> <=> b = 0
  BY <1>5
<1>11. /\ q \in Pages /\ q.total = p.total /\ q.items = items /\ q.offset = offset
       /\ q.by_date = (fresh # batch)
       /\ q.by_count = (full /\ offset < p.total)
       /\ q.over = (fresh # batch \/ full \/ batch = <<>> \/ offset >= p.total)
  <2>1. /\ items \in Seq(Nat) /\ offset \in Nat /\ (fresh # batch) \in BOOLEAN
        /\ (full /\ offset < p.total) \in BOOLEAN
        /\ (fresh # batch \/ full \/ batch = <<>> \/ offset >= p.total) \in BOOLEAN
    BY <1>2, <1>5, <1>9
  <2> DEFINE date == fresh # batch
             count == full /\ offset < p.total
             end == fresh # batch \/ full \/ batch = <<>> \/ offset >= p.total
  <2>2. q = [p EXCEPT !.items = items, !.offset = offset, !.by_date = date,
                      !.by_count = count, !.over = end]
    BY <1>1
  <2>3. date \in BOOLEAN /\ count \in BOOLEAN /\ end \in BOOLEAN
    BY <2>1
  <2> HIDE DEF date, count, end, offset
  <2>4. /\ q \in Pages /\ q.total = p.total /\ q.items = items /\ q.offset = offset
        /\ q.by_date = date /\ q.by_count = count /\ q.over = end
    BY <2>1, <2>2, <2>3 DEF Pages
  <2> QED BY <2>4 DEF date, count, end
<1>12. m < b <=> m # b
  BY <1>5, <1>7
<1>13. \A i \in 1 .. m : h[p.offset + i] >= cutoff
  BY <1>5, <1>7
<1>14. m < b => h[p.offset + m + 1] < cutoff
  <2> SUFFICES ASSUME m < b PROVE h[p.offset + m + 1] < cutoff
    OBVIOUS
  <2>0. m \in Nat /\ b \in Nat /\ p.offset \in Nat
    BY <1>2, <1>5, <1>7
  <2>1. m + 1 \in 1 .. b /\ p.offset + (m + 1) = p.offset + m + 1
    BY <2>0
  <2>2. batch[m + 1] = h[p.offset + m + 1]
    BY <1>5, <2>1
  <2> QED BY <1>7, <2>2
<1>15. Turns(p, h, most, cutoff, q, b, m)
  BY <1>2, <1>5, <1>6, <1>7, <1>8, <1>9, <1>10, <1>11, <1>12, <1>13, <1>14 DEF Turns
<1>16. m \in Nat
  BY <1>5, <1>7
<1> QED BY <1>5, <1>15, <1>16 DEF q

-----------------------------------------------------------------------------
(* The pages *)

LEMMA PcIs ==
    ASSUME HistoryOK
    PROVE  /\ pc.first \in Nat /\ pc.history \in Seq(Nat) /\ changes \in Nat
           /\ pc.most \in {Null} \cup (Nat \ {0}) /\ pc.cutoff \in Int
           /\ Top \in Nat /\ pc.first <= Top
  BY DEF HistoryOK, Top

LEMMA FirstPageOK == HistoryOK => PagesOK(FirstPage(pc.history))
<1> SUFFICES ASSUME HistoryOK PROVE PagesOK(FirstPage(pc.history))
  OBVIOUS
<1> DEFINE p == FirstPage(pc.history)
<1>1. /\ p \in Pages /\ p.total = Len(pc.history) /\ p.offset = 0 /\ p.items = <<>>
      /\ p.by_date = FALSE /\ p.by_count = FALSE /\ p.over = (pc.history = <<>>)
  BY PcIs DEF FirstPage, Pages
<1>2. ToSet(p.items) = {}
  BY <1>1 DEF ToSet
<1> HIDE DEF p
<1>3. p.total \in Nat /\ (p.over <=> p.total = 0)
  <2>1. Len(pc.history) \in Nat /\ (pc.history = <<>> <=> Len(pc.history) = 0)
    BY PcIs
  <2>2. p.over <=> pc.history = <<>>
    BY <1>1
  <2> QED BY <1>1, <2>1, <2>2
<1>4. /\ ~p.over => p.offset < p.total
      /\ p.over => p.offset >= p.total
      /\ ~p.by_date
  BY <1>1, <1>3
<1>5. pc.most # Null => Len(p.items) < pc.most
  BY <1>1, PcIs
<1>6. ~Deleted => p.total = Top /\ Reaches(p, Top + 1) /\ Top + 1 \in 1 .. (Top + 1)
  BY <1>1, <1>2, PcIs DEF HistoryOK, Reaches
<1>7. p \in Pages /\ \A n \in ToSet(p.items) : n >= pc.cutoff
  BY <1>1, <1>2
<1>8. Top <= Top
  BY PcIs
<1> HIDE DEF Top
<1>9. PagesOK(p)
  BY <1>4, <1>5, <1>6, <1>7, <1>8, PcIs DEF PagesOK
<1> QED BY <1>9 DEF p

\* The next page reaches further, at least as far as the one before it, and misses no
\* entry in between: installations move the entries towards it.
LEMMA NextPageOK ==
    ASSUME NEW p, HistoryOK, PagesOK(p), ~p.over
    PROVE  PagesOK(NextPage(p, pc.history, pc.most, pc.cutoff))
<1> DEFINE q == NextPage(p, pc.history, pc.most, pc.cutoff)
           h == pc.history
<1>1. /\ p \in Pages /\ p.offset < p.total
      /\ pc.most # Null => Len(p.items) < pc.most
      /\ \A n \in ToSet(p.items) : n >= pc.cutoff
  BY DEF PagesOK
<1>2. PICK b, m \in Nat : Turns(p, pc.history, pc.most, pc.cutoff, q, b, m)
  BY <1>1, PcIs, PageIs
<1> HIDE DEF q
<1>3. p.offset \in Nat /\ p.total \in Nat /\ q \in Pages /\ q.offset \in Nat /\ q.total \in Nat
      /\ Len(q.items) \in Nat /\ ToSet(p.items) \subseteq Nat
  <2>1. q \in Pages
    BY <1>2 DEF Turns
  <2>2. p.offset \in Nat /\ p.total \in Nat /\ p.items \in Seq(Nat)
    BY <1>1 DEF Pages
  <2>3. q.offset \in Nat /\ q.total \in Nat /\ q.items \in Seq(Nat)
    BY <2>1 DEF Pages
  <2>4. ToSet(p.items) \subseteq Nat
    BY <2>2 DEF ToSet
  <2> QED BY <2>1, <2>2, <2>3, <2>4
<1>4. \A n \in ToSet(q.items) : n >= pc.cutoff
  BY <1>1, <1>2 DEF Turns
<1>5. ~q.over => q.offset < q.total /\ ~q.by_date /\ (pc.most # Null => Len(q.items) < pc.most)
  <2>1. q.total = p.total
    BY <1>2 DEF Turns
  <2>2. ~q.over => ~(m < b) /\ ~(pc.most # Null /\ Len(q.items) >= pc.most)
                   /\ ~(q.offset >= q.total)
    BY <1>2, <2>1 DEF Turns
  <2>3. ~q.by_date <=> ~(m < b)
    BY <1>2 DEF Turns
  <2> QED BY <1>3, <2>2, <2>3, PcIs, SMTT(30)
<1>6. ASSUME ~Deleted
      PROVE  /\ pc.first <= q.total /\ q.total <= Top
             /\ q.over => q.by_date \/ q.by_count \/ q.offset >= q.total
             /\ q.by_date => \A n \in 1 .. pc.first : n >= pc.cutoff => n \in ToSet(q.items)
             /\ ~q.by_date => \E lo \in 1 .. (Top + 1) : Reaches(q, lo)
  <2>1. /\ pc.first <= p.total /\ p.total <= Top /\ q.total = p.total
        /\ Len(h) = Top /\ \A i \in 1 .. Top : h[i] = Top + 1 - i
    BY <1>2, <1>6 DEF PagesOK, HistoryOK, Turns
  <2>2. PICK lo \in 1 .. (Top + 1) : Reaches(p, lo)
    BY <1>6 DEF PagesOK
  <2>0. p.offset \in Nat /\ p.total \in Nat
    BY <1>3
  <2>3. lo \in Nat /\ 1 <= lo /\ lo + p.offset <= Top + 1 /\ Top \in Nat
    BY <2>2, PcIs DEF Reaches
  <2>4. m <= b /\ p.offset + b <= Top
    BY <1>2, <1>3, <2>1, <2>3 DEF Turns
  <2>5. \A i \in 1 .. b : p.offset + i \in 1 .. Top /\ h[p.offset + i] = Top + 1 - (p.offset + i)
    <3> SUFFICES ASSUME NEW i \in 1 .. b
                 PROVE  p.offset + i \in 1 .. Top /\ h[p.offset + i] = Top + 1 - (p.offset + i)
      OBVIOUS
    <3>1. p.offset + i \in 1 .. Top
      BY <2>0, <2>3, <2>4
    <3> QED BY <2>1, <3>1
  <2>6. q.over => q.by_date \/ q.by_count \/ q.offset >= q.total
    <3> SUFFICES ASSUME q.over, ~q.by_date, ~q.by_count PROVE q.offset >= q.total
      OBVIOUS
    <3>1. ~(m < b) /\ (b = 0 \/ q.offset >= p.total \/ (pc.most # Null /\ Len(q.items) >= pc.most))
      BY <1>2 DEF Turns
    <3>2. CASE pc.most # Null /\ Len(q.items) >= pc.most
      <4>1. q.by_count <=> (pc.most # Null /\ Len(q.items) >= pc.most) /\ q.offset < p.total
        BY <1>2 DEF Turns
      <4>2. ~(q.offset < p.total)
        BY <3>2, <4>1
      <4> QED BY <1>3, <2>1, <4>2
    <3>3. CASE b = 0
      <4>1. m = b
        BY <1>2, <3>3 DEF Turns
      <4>2. q.offset = p.offset + b /\ Len(h) <= p.offset
        BY <1>2, <3>3, <4>1 DEF Turns
      <4> QED BY <1>3, <2>1, <2>3, <3>3, <4>2
    <3> QED BY <2>1, <3>1, <3>2, <3>3
  <2>7. q.by_date => \A n \in 1 .. pc.first : n >= pc.cutoff => n \in ToSet(q.items)
    <3> SUFFICES ASSUME q.by_date, NEW n \in 1 .. pc.first, n >= pc.cutoff
                 PROVE  n \in ToSet(q.items)
      OBVIOUS
    <3>1. m < b /\ h[p.offset + m + 1] < pc.cutoff
      BY <1>2 DEF Turns
    <3>2. m + 1 \in 1 .. b /\ p.offset + (m + 1) = p.offset + m + 1
      BY <1>3, <3>1, SMTT(30)
    <3>3. h[p.offset + m + 1] = Top + 1 - (p.offset + m + 1)
      BY <2>5, <3>2
    <3>0. n \in Nat /\ pc.cutoff \in Int
      BY PcIs
    <3>4. n > Top - p.offset - m
      <4>1. Top + 1 - (p.offset + m + 1) < pc.cutoff
        BY <3>1, <3>3
      <4> QED BY <2>0, <2>3, <3>0, <4>1
    <3>5. CASE n >= lo
      <4>1. n \in lo .. pc.first
        BY <2>3, <3>0, <3>5, PcIs
      <4> QED BY <1>2, <2>2, <4>1 DEF Reaches, Turns
    <3>6. CASE n < lo
      <4> DEFINE i == Top + 1 - p.offset - n
      <4>1. i \in 1 .. m /\ i \in 1 .. b /\ Top + 1 - (p.offset + i) = n
        BY <2>0, <2>3, <2>4, <3>0, <3>4, <3>6
      <4>2. h[p.offset + i] = n
        BY <2>5, <4>1
      <4> QED BY <1>2, <4>1, <4>2 DEF Turns
    <3> QED BY <2>3, <3>0, <3>5, <3>6
  <2>8. ~q.by_date => \E l \in 1 .. (Top + 1) : Reaches(q, l)
    <3> SUFFICES ASSUME ~q.by_date PROVE \E l \in 1 .. (Top + 1) : Reaches(q, l)
      OBVIOUS
    <3>1. m = b /\ q.offset = p.offset + b
      BY <1>2, <2>4 DEF Turns
    <3> DEFINE end == Top + 1 - (p.offset + b)
               l == IF end < lo THEN end ELSE lo
    <3>0. end \in Nat /\ 1 <= end /\ end <= Top + 1 /\ end + p.offset + b = Top + 1
      BY <2>0, <2>3, <2>4
    <3> HIDE DEF end
    <3>2. l \in 1 .. (Top + 1) /\ l <= end /\ l <= lo /\ l \in {lo, end}
      BY <2>3, <3>0
    <3>3. l + q.offset <= Top + 1
      BY <2>0, <2>3, <3>0, <3>1, <3>2
    <3>4. \A i \in 1 .. m : h[p.offset + i] >= l
      <4> SUFFICES ASSUME NEW i \in 1 .. b PROVE h[p.offset + i] >= l
        BY <3>1
      <4>1. h[p.offset + i] = Top + 1 - (p.offset + i)
        BY <2>5
      <4> QED BY <2>0, <2>3, <3>0, <3>2, <4>1
    <3>5. \A n \in ToSet(q.items) : l <= n
      <4> SUFFICES ASSUME NEW n \in ToSet(q.items) PROVE l <= n
        OBVIOUS
      <4>1. CASE n \in ToSet(p.items)
        BY <1>3, <2>2, <2>3, <3>2, <4>1 DEF Reaches
      <4>2. CASE \E i \in 1 .. m : n = h[p.offset + i]
        BY <3>4, <4>2
      <4> QED BY <1>2, <4>1, <4>2 DEF Turns
    <3>6. \A n \in l .. pc.first : n \in ToSet(q.items)
      <4> SUFFICES ASSUME NEW n \in l .. pc.first PROVE n \in ToSet(q.items)
        OBVIOUS
      <4>1. n \in Nat /\ l <= n /\ n <= pc.first
        BY <3>2, PcIs
      <4>2. CASE n >= lo
        <5>1. n \in lo .. pc.first
          BY <2>3, <4>1, <4>2, PcIs
        <5> QED BY <1>2, <2>2, <5>1 DEF Reaches, Turns
      <4>3. CASE n < lo
        <5> DEFINE i == Top + 1 - p.offset - n
        <5>1. end <= n
          BY <2>3, <3>0, <3>2, <4>1, <4>3
        <5>2. i \in 1 .. b /\ Top + 1 - (p.offset + i) = n
          BY <2>0, <2>3, <3>0, <4>1, <4>3, <5>1
        <5>3. h[p.offset + i] = n
          BY <2>5, <5>2
        <5> QED BY <1>2, <3>1, <5>2, <5>3 DEF Turns
      <4> QED BY <2>3, <4>1, <4>2, <4>3
    <3> HIDE DEF l
    <3>7. Reaches(q, l)
      BY <3>3, <3>5, <3>6 DEF Reaches
    <3> QED BY <3>2, <3>7
  <2> QED BY <2>1, <2>6, <2>7, <2>8
<1>7. PagesOK(q)
  BY <1>3, <1>4, <1>5, <1>6 DEF PagesOK
<1> QED BY <1>7 DEF q

\* An installation moves every entry one place on.
LEMMA InstallOK ==
    ASSUME HistoryOK, UNCHANGED seen, changes' = changes + 1,
           pc' = [pc EXCEPT !.history = <<pc.first + changes + 1>> \o @]
    PROVE  HistoryOK' /\ (PagesOK(seen.pages) => PagesOK(seen.pages)')
<1> DEFINE h == pc.history
           new == pc.first + changes + 1
           after == <<new>> \o h
<1>1. new \in Nat /\ h \in Seq(Nat) /\ Top \in Nat /\ new = Top + 1 /\ Len(h) \in Nat
  <2>1. pc.first \in Nat /\ changes \in Nat /\ h \in Seq(Nat)
    BY PcIs
  <2> HIDE DEF h
  <2> QED BY <2>1 DEF Top
<1>2. /\ after \in Seq(Nat) /\ Len(after) = Len(h) + 1
      /\ \A i \in 1 .. (Len(h) + 1) : after[i] = IF i = 1 THEN new ELSE h[i - 1]
      /\ ToSet(after) = {new} \cup ToSet(h)
  <2>1. <<new>> \in Seq(Nat) /\ Len(<<new>>) = 1 /\ ToSet(<<new>>) = {new}
    BY <1>1 DEF ToSet
  <2>2. \A i \in 1 .. (Len(h) + 1) : after[i] = IF i = 1 THEN new ELSE h[i - 1]
    BY <1>1
  <2>3. after \in Seq(Nat) /\ Len(after) = 1 + Len(h) /\ ToSet(after) = {new} \cup ToSet(h)
    BY <1>1, <2>1, ConcatItems
  <2> HIDE DEF after
  <2> QED BY <1>1, <2>2, <2>3
<1> HIDE DEF after, new
<1>3. /\ pc' \in [first : Nat, history : Seq(Nat), most : {Null} \cup (Nat \ {0}), cutoff : Int]
      /\ pc'.first = pc.first /\ pc'.history = after /\ pc'.most = pc.most
      /\ pc'.cutoff = pc.cutoff
  BY <1>2 DEF HistoryOK, after, new
<1>4. changes' \in Nat /\ Top' = Top + 1
  <2>1. Top' = pc'.first + changes'
    BY DEF Top
  <2>2. Top = pc.first + changes
    BY DEF Top
  <2>3. pc.first \in Nat /\ changes \in Nat /\ pc'.first = pc.first
    BY <1>3, PcIs
  <2> QED BY <2>1, <2>2, <2>3
<1>5. Deleted' <=> Deleted
  <2>1. Deleted' <=> pc.first = 0 \/ 1 \notin ToSet(after)
    BY <1>3 DEF Deleted
  <2>2. pc.first # 0 => new # 1
    BY PcIs DEF new
  <2> QED BY <1>2, <2>1, <2>2 DEF Deleted
<1>6. ASSUME ~Deleted
      PROVE  Len(after) = Top + 1 /\ \A i \in 1 .. (Top + 1) : after[i] = Top + 2 - i
  <2>1. Len(h) = Top /\ \A i \in 1 .. Top : h[i] = Top + 1 - i
    BY <1>6 DEF HistoryOK
  <2>2. ASSUME NEW i \in 1 .. (Top + 1) PROVE after[i] = Top + 2 - i
    <3>1. CASE i = 1
      BY <1>1, <1>2, <2>1, <3>1
    <3>2. CASE i # 1
      <4>1. i - 1 \in 1 .. Top /\ Top + 1 - (i - 1) = Top + 2 - i
        BY <1>1, <3>2
      <4> QED BY <1>2, <2>1, <3>2, <4>1
    <3> QED BY <3>1, <3>2
  <2> QED BY <1>2, <2>1, <2>2
<1>7. HistoryOK'
  <2>1. ~Deleted' => /\ Len(pc'.history) = Top'
                     /\ \A i \in 1 .. Top' : pc'.history[i] = Top' + 1 - i
    <3>1. ASSUME ~Deleted PROVE Len(after) = Top' /\ \A i \in 1 .. Top' : after[i] = Top' + 1 - i
      <4>1. Len(after) = Top + 1 /\ \A i \in 1 .. (Top + 1) : after[i] = Top + 2 - i
        BY <1>6, <3>1
      <4>2. ASSUME NEW i \in 1 .. (Top + 1) PROVE after[i] = Top' + 1 - i
        <5>1. after[i] = Top + 2 - i
          BY <4>1
        <5> QED BY <1>1, <1>4, <5>1
      <4> QED BY <1>4, <4>1, <4>2
    <3> QED BY <1>3, <1>5, <3>1
  <2> QED BY <1>3, <1>4, <2>1 DEF HistoryOK
<1>8. ASSUME PagesOK(seen.pages) PROVE PagesOK(seen.pages)'
  <2> DEFINE p == seen.pages
  <2>1. p \in Pages /\ p.total \in Nat /\ p.offset \in Nat
    BY <1>8 DEF PagesOK, Pages
  <2>2. ASSUME ~Deleted
        PROVE  /\ p.total <= Top'
               /\ ~p.by_date => \E lo \in 1 .. (Top' + 1) : Reaches(p, lo)'
    <3>1. p.total <= Top /\ (~p.by_date => \E lo \in 1 .. (Top + 1) : Reaches(p, lo))
      BY <1>8, <2>2 DEF PagesOK
    <3>2. ASSUME NEW lo \in 1 .. (Top + 1), Reaches(p, lo)
          PROVE  lo \in 1 .. (Top' + 1) /\ Reaches(p, lo)'
      <4>1. lo + p.offset <= Top + 1
        BY <3>2 DEF Reaches
      <4>2. lo \in 1 .. (Top' + 1) /\ lo + p.offset <= Top' + 1
        BY <1>1, <1>4, <2>1, <4>1
      <4> QED BY <1>3, <3>2, <4>2 DEF Reaches
    <3> QED BY <1>1, <1>4, <2>1, <3>1, <3>2
  <2> QED BY <1>3, <1>5, <1>8, <2>1, <2>2 DEF PagesOK
<1> QED BY <1>7, <1>8

LEMMA ClearOK ==
    ASSUME HistoryOK, UNCHANGED seen, changes' = changes + 1,
           pc' = [pc EXCEPT !.history = <<>>]
    PROVE  HistoryOK' /\ (PagesOK(seen.pages) => PagesOK(seen.pages)')
<1>1. /\ pc' \in [first : Nat, history : Seq(Nat), most : {Null} \cup (Nat \ {0}), cutoff : Int]
      /\ pc'.first = pc.first /\ pc'.history = <<>> /\ pc'.most = pc.most
      /\ pc'.cutoff = pc.cutoff
  <2>1. <<>> \in Seq(Nat)
    OBVIOUS
  <2>2. pc \in [first : Nat, history : Seq(Nat), most : {Null} \cup (Nat \ {0}), cutoff : Int]
    BY DEF HistoryOK
  <2> QED BY <2>1, <2>2
<1>2. Deleted'
  BY <1>1 DEF Deleted, ToSet
<1>3. changes' \in Nat
  BY DEF HistoryOK
<1> QED BY <1>1, <1>2, <1>3 DEF HistoryOK, PagesOK

\* After the last page only entries below the reach can be missing.  There are as many
\* as installations have moved entries past the first count.
LEMMA OverIsWhole ==
    ASSUME NEW p, HistoryOK, PagesOK(p), p.over
    PROVE  Kept(ToSet(p.items), UpdateAnswer(p).said)
<1> DEFINE items == ToSet(p.items)
           said == UpdateAnswer(p).said
           due == {n \in 1 .. pc.first : n >= pc.cutoff}
           lost == due \ items
<1>1. /\ "truncated_by_date" \in said <=> p.by_date
      /\ "truncated_by_count" \in said <=> p.by_count
  BY DEF UpdateAnswer, Answer
<1>2. p.total \in Nat /\ p.offset \in Nat /\ items \subseteq Nat
  BY DEF PagesOK, Pages, ToSet
<1>3. \A n \in items : n >= pc.cutoff
  BY DEF PagesOK
<1> HIDE DEF said, items
<1>4. ASSUME ~Deleted
      PROVE  /\ \A n \in lost, m \in due \cap items : n < m
             /\ Cardinality(lost) <= changes \/ "truncated_by_count" \in said
             /\ "truncated_by_date" \in said => lost = {}
  <2>1. CASE p.by_date
    <3>1. lost = {}
      BY <1>4, <2>1 DEF PagesOK, items
    <3>2. Cardinality({}) = 0
      BY FS_EmptySet
    <3> HIDE DEF lost, due
    <3> QED BY <3>1, <3>2, PcIs
  <2>2. CASE ~p.by_date
    <3>1. PICK lo \in 1 .. (Top + 1) : Reaches(p, lo)
      BY <1>4, <2>2 DEF PagesOK
    <3>2. /\ lo + p.offset <= Top + 1
          /\ \A n \in items : lo <= n
          /\ \A n \in lo .. pc.first : n \in items
      BY <3>1 DEF Reaches, items
    <3>3. lo \in Nat /\ 1 <= lo /\ Top \in Nat /\ pc.first \in Nat /\ changes \in Nat
      BY <3>1, PcIs
    <3>4. ASSUME NEW n \in lost PROVE n \in Nat /\ 1 <= n /\ n < lo
      <4>1. n \in Nat /\ 1 <= n /\ n <= pc.first /\ n \notin items
        BY <3>3
      <4> QED BY <3>2, <3>3, <4>1
    <3>5. \A n \in lost, m \in due \cap items : n < m
      <4> SUFFICES ASSUME NEW n \in lost, NEW m \in due \cap items PROVE n < m
        OBVIOUS
      <4>1. n \in Nat /\ n < lo /\ lo <= m /\ m \in Nat
        BY <1>2, <3>2, <3>4
      <4> QED BY <3>3, <4>1
    <3>6. Cardinality(lost) <= changes \/ p.by_count
      <4> SUFFICES ASSUME ~p.by_count PROVE Cardinality(lost) <= changes
        OBVIOUS
      <4>1. p.offset >= p.total /\ pc.first <= p.total
        BY <1>4, <2>2 DEF PagesOK
      <4>2. lo - 1 \in Nat /\ lo - 1 <= changes
        BY <1>2, <3>2, <3>3, <4>1 DEF Top
      <4>3. IsFiniteSet(1 .. (lo - 1)) /\ Cardinality(1 .. (lo - 1)) = lo - 1
        BY <4>2, FS_Interval
      <4>4. lost \subseteq 1 .. (lo - 1)
        <5> SUFFICES ASSUME NEW n \in lost PROVE n \in 1 .. (lo - 1)
          OBVIOUS
        <5> QED BY <3>3, <3>4
      <4> HIDE DEF lost
      <4>5. IsFiniteSet(lost) /\ Cardinality(lost) <= lo - 1
        BY <4>3, <4>4, FS_Subset
      <4>6. Cardinality(lost) \in Nat
        BY <4>5, FS_CardinalityType
      <4> QED BY <3>3, <4>2, <4>5, <4>6
    <3> QED BY <1>1, <2>2, <3>5, <3>6
  <2> QED BY <2>1, <2>2
<1>5. Kept(items, said)
  BY <1>3, <1>4 DEF Kept
<1> QED BY <1>5 DEF items, said

-----------------------------------------------------------------------------
(* The steps of the collector, the gate and the rules *)

LEMMA HistoryInit == Init => HInv
<1> SUFFICES ASSUME Init, section = "windows_updates" PROVE HInv
  BY DEF HInv
<1>1. pc \in {[first |-> n, history |-> HistoryOf(n), most |-> m, cutoff |-> c] :
                n \in 0 .. MaxEntries, m \in Mosts, c \in Cutoffs}
  BY DEF Init, Pcs
<1>2. PICK n \in 0 .. MaxEntries, m \in Mosts, c \in Cutoffs :
         pc = [first |-> n, history |-> HistoryOf(n), most |-> m, cutoff |-> c]
  BY <1>1
<1>3. n \in Nat /\ m \in {Null} \cup (Nat \ {0}) /\ c \in Int
  BY SectionsAssumption
<1>4. /\ HistoryOf(n) \in Seq(Nat) /\ Len(HistoryOf(n)) = n
      /\ \A i \in 1 .. n : HistoryOf(n)[i] = n + 1 - i
  <2>1. \A i \in 1 .. n : n + 1 - i \in Nat
    BY <1>3
  <2> QED BY <1>3, <2>1 DEF HistoryOf
<1>5. changes = 0 /\ Top = n
  BY <1>2, <1>3 DEF Init, Top
<1>6. pc \in [first : Nat, history : Seq(Nat), most : {Null} \cup (Nat \ {0}), cutoff : Int]
      /\ pc.history = HistoryOf(n)
  BY <1>2, <1>3, <1>4
<1>7. HistoryOK
  BY <1>4, <1>5, <1>6 DEF HistoryOK
<1>8. AskedOK /\ stage = "collecting"
  BY DEF Init, AskedOK, Queries, UpdateQueries
<1> QED BY <1>7, <1>8 DEF HInv

\* What stays as it is, as long as the history does.
LEMMA SameHistory ==
    ASSUME UNCHANGED <<pc, changes>>
    PROVE  /\ HistoryOK => HistoryOK'
           /\ UNCHANGED seen => (PagesOK(seen.pages) => PagesOK(seen.pages)')
           /\ UNCHANGED result => (ReturnedOK => ReturnedOK')
<1>1. Top' = Top /\ (Deleted' <=> Deleted)
  BY DEF Top, Deleted
<1>2. HistoryOK => HistoryOK'
  BY <1>1 DEF HistoryOK
<1>3. UNCHANGED seen => (PagesOK(seen.pages) => PagesOK(seen.pages)')
  BY <1>1 DEF PagesOK, Reaches
<1>4. UNCHANGED result => (ReturnedOK => ReturnedOK')
  BY <1>1 DEF ReturnedOK, Kept
<1> QED BY <1>2, <1>3, <1>4

LEMMA UpdatesAsked ==
    ASSUME section = "windows_updates", stage = "collecting", HInv, AskUpdates
    PROVE  HistoryOK' /\ AskedOK' /\ stage' = stage
<1>1. HistoryOK /\ AskedOK
  BY DEF HInv
<1>2. UNCHANGED <<pc, changes, stage>>
  BY DEF AskUpdates, See, Hear, Ask, later
<1>3. HistoryOK'
  BY <1>1, <1>2, SameHistory
<1>4. CASE See("windows_updates", "count", "pages", FirstPage(pc.history))
  <2>1. todo # <<>> /\ Head(todo) = "count" /\ todo' = Tail(todo) /\ UNCHANGED answer
    BY <1>4 DEF See, Ask
  <2>2. todo = <<"count", "pages">> /\ answer = Got(<<>>) /\ DOMAIN seen = {}
    BY <1>1, <2>1 DEF AskedOK
  <2>3. seen'.pages = FirstPage(pc.history)
    BY <1>4, <2>2 DEF See
  <2>4. PagesOK(seen'.pages)
    BY <1>1, <2>3, FirstPageOK
  <2>5. PagesOK(seen.pages)'
    BY <1>2, <2>4 DEF PagesOK, Reaches, Top, Deleted
  <2>6. todo' = <<"pages">>
    BY <2>1, <2>2
  <2> QED BY <1>2, <1>3, <2>1, <2>2, <2>5, <2>6 DEF AskedOK
<1>5. CASE /\ todo = <<"pages">> /\ ~seen.pages.over
           /\ seen' = [pages |-> NextPage(seen.pages, pc.history, pc.most, pc.cutoff)]
           /\ UNCHANGED <<pc, changes, todo, answer, later>>
  <2>1. PagesOK(seen.pages) /\ answer = Got(<<>>)
    BY <1>1, <1>5 DEF AskedOK
  <2>2. PagesOK(seen'.pages)
    BY <1>1, <1>5, <2>1, NextPageOK
  <2>3. PagesOK(seen.pages)'
    BY <1>2, <2>2 DEF PagesOK, Reaches, Top, Deleted
  <2> QED BY <1>2, <1>3, <1>5, <2>1, <2>3 DEF AskedOK
<1>6. CASE /\ todo = <<"pages">> /\ seen.pages.over
           /\ Hear("windows_updates", "pages", {UpdateAnswer(seen.pages)})
  <2> DEFINE a == UpdateAnswer(seen.pages)
  <2>1. PagesOK(seen.pages) /\ answer = Got(<<>>)
    BY <1>1, <1>6 DEF AskedOK
  <2>2. answer' = Join(Got(<<>>), a) /\ todo' = Tail(todo)
    BY <1>6, <2>1 DEF Hear, Ask
  <2>3. a.values = [history |-> seen.pages.items] /\ a.reasons = <<>>
    BY DEF UpdateAnswer, Answer
  <2>4. Kept(ToSet(seen.pages.items), a.said)
    BY <1>1, <1>6, <2>1, OverIsWhole
  <2> HIDE DEF a
  <2>5. answer'.values["history"] = seen.pages.items /\ answer'.said = a.said
    <3>1. DOMAIN Got(<<>>).values = {} /\ Got(<<>>).said = {}
      BY DEF Got, Answer
    <3>2. /\ answer'.values = [x \in {} \cup {"history"} |->
                                 IF x \in {} THEN Got(<<>>).values[x] ELSE a.values[x]]
          /\ answer'.said = {} \cup a.said
      BY <2>2, <2>3, <3>1 DEF Join, Beside, Answer
    <3> QED BY <2>3, <3>2
  <2>6. Kept(ToSet(answer'.values["history"]), answer'.said)
    BY <2>4, <2>5
  <2>7. Told(answer)'
    BY <1>2, <2>6 DEF Told, Kept, Deleted
  <2>8. todo' = <<>>
    BY <1>6, <2>2
  <2> QED BY <1>2, <1>3, <2>7, <2>8 DEF AskedOK
<1> QED BY <1>4, <1>5, <1>6 DEF AskUpdates

LEMMA StepKeeps == HInv /\ [Next]_vars => HInv'
<1> SUFFICES ASSUME HInv, [Next]_vars, section' = "windows_updates" PROVE HInv'
  BY DEF HInv
<1>1. section = "windows_updates"
  BY DEF vars, later, Next, Work, Change, GiveUp, Lose, Return, Gate, Evaluate, AskWindows,
     AskClock, AskFirmware, AskMemory, AskSecurity, AskCpu, AskGpu, AskDevices, AskEventLogs,
     AskUpdates, AskRuntime, Hear, See, Ask, SwitchProcessor, PlugCard, UnplugCard,
     InstallUpdate, ClearHistory, Changing
<1>2. HistoryOK
  BY <1>1 DEF HInv
<1>3. CASE AskUpdates
  <2>1. stage = "collecting"
    BY <1>3 DEF AskUpdates, See, Hear, Ask
  <2> QED BY <1>1, <1>3, <2>1, UpdatesAsked DEF HInv
<1>4. CASE InstallUpdate \/ ClearHistory
  <2>1. /\ stage = "collecting" /\ todo # <<>> /\ AskedOK /\ changes' = changes + 1
        /\ UNCHANGED <<todo, answer, seen, stage>>
    BY <1>1, <1>4 DEF InstallUpdate, ClearHistory, Changing, later, HInv
  <2>2. HistoryOK' /\ (PagesOK(seen.pages) => PagesOK(seen.pages)')
    BY <1>2, <1>4, <2>1, InstallOK, ClearOK DEF InstallUpdate, ClearHistory, Changing
  <2>3. AskedOK'
    BY <2>1, <2>2 DEF AskedOK
  <2> QED BY <2>1, <2>2, <2>3 DEF HInv
<1>5. CASE GiveUp
  <2>1. /\ stage = "collecting" /\ todo' = <<>> /\ answer' = UpdateFailure
        /\ UNCHANGED <<pc, changes, stage>>
    BY <1>1, <1>5 DEF GiveUp, Failure, later
  <2>2. DOMAIN UpdateFailure.reasons # {}
    BY DEF UpdateFailure, Missed, Answer
  <2>3. AskedOK'
    BY <2>1, <2>2 DEF AskedOK, Told
  <2> QED BY <1>2, <2>1, <2>3, SameHistory DEF HInv
<1>6. CASE Return
  <2>1. /\ stage = "collecting" /\ todo = <<>> /\ result' = UpdateResult(answer) /\ stage' = "gate"
        /\ UNCHANGED <<pc, changes>>
    BY <1>1, <1>6 DEF Return, Judge
  <2>2. Told(answer)
    BY <1>1, <2>1 DEF HInv, AskedOK
  <2>3. /\ result'.status = "success" => DOMAIN answer.reasons = {}
        /\ result'.values = answer.values /\ result'.said = answer.said
    BY <2>1 DEF UpdateResult, Result
  <2>4. result'.status = "success" => Kept(ToSet(result'.values["history"]), result'.said)
    BY <2>2, <2>3 DEF Told
  <2>5. ReturnedOK'
    BY <2>1, <2>4 DEF ReturnedOK, Kept, Deleted
  <2> QED BY <1>2, <2>1, <2>5, SameHistory DEF HInv
<1>7. CASE Lose
  <2>1. result' = Lost(EmptyPaths(section)) /\ stage' = "gate" /\ UNCHANGED <<pc, changes>>
    BY <1>7 DEF Lose
  <2>2. result'.status = "failed"
    BY <2>1 DEF Lost, Unreasoned, Result
  <2> QED BY <1>2, <2>1, <2>2, SameHistory DEF HInv, ReturnedOK
<1>8. CASE Gate \/ Evaluate
  <2>1. /\ stage # "collecting" /\ stage' # "collecting" /\ ReturnedOK
        /\ UNCHANGED <<pc, changes, result>>
    BY <1>1, <1>8 DEF Gate, Evaluate, HInv
  <2> QED BY <1>2, <2>1, SameHistory DEF HInv
<1>9. CASE UNCHANGED vars
  <2>1. UNCHANGED <<pc, changes, stage, todo, answer, seen, result>>
    BY <1>9 DEF vars
  <2>2. AskedOK => AskedOK'
    BY <2>1, SameHistory DEF AskedOK, Told, Kept, Deleted
  <2> QED BY <1>1, <1>2, <2>1, <2>2, SameHistory DEF HInv
<1>10. AskUpdates \/ InstallUpdate \/ ClearHistory \/ GiveUp \/ Return \/ Lose \/ Gate \/ Evaluate
       \/ UNCHANGED vars
  BY <1>1 DEF Next, Work, Change, AskWindows, AskClock, AskFirmware, AskMemory, AskSecurity,
     AskCpu, AskGpu, AskDevices, AskEventLogs, AskRuntime, Hear, See, Ask, SwitchProcessor,
     PlugCard, UnplugCard, Changing
<1> QED BY <1>3, <1>4, <1>5, <1>6, <1>7, <1>8, <1>9, <1>10

-----------------------------------------------------------------------------
(* The theorem *)

LEMMA KeptIsWhole == HInv => HistoryWhole
<1> SUFFICES ASSUME HInv, Written, section = "windows_updates", result.status = "success",
                    pc.first > 0 => 1 \in ToSet(pc.history)
             PROVE  HistoryWhole
  BY DEF HistoryWhole
<1> DEFINE items == ToSet(result.values["history"])
           due == {n \in 1 .. pc.first : n >= pc.cutoff}
           lost == due \ items
           Whole == /\ \A n \in lost, m \in due \cap items : n < m
                    /\ Cardinality(lost) <= changes \/ "truncated_by_count" \in result.said
                    /\ "truncated_by_date" \in result.said => lost = {}
<1>1. HistoryOK /\ Kept(items, result.said)
  BY DEF HInv, ReturnedOK, Written
<1>2. \A n \in items : n >= pc.cutoff
  BY <1>1 DEF Kept
<1>3. CASE pc.first = 0
  <2>1. due = {} /\ lost = {}
    BY <1>3
  <2>2. Cardinality({}) <= changes
    BY <1>1, FS_EmptySet, PcIs
  <2>3. Whole
    <3> HIDE DEF due, lost
    <3> QED BY <2>1, <2>2
  <2> QED BY <1>2, <2>3 DEF HistoryWhole
<1>4. CASE pc.first # 0
  <2>1. ~Deleted
    BY <1>1, <1>4, PcIs DEF Deleted
  <2>2. Whole
    BY <1>1, <2>1 DEF Kept
  <2> QED BY <1>2, <2>2 DEF HistoryWhole
<1> QED BY <1>3, <1>4

\* A success of windows_updates.rs (the loop of its script over the pages) has every
\* entry of the update history that the user's date asks for, but for the oldest: at most
\* one for each update installed meanwhile, unless the limit on their number is named; none
\* when the date is named.  For every length of the history, size of the pages, limit,
\* date, and number of installations between the pages.
THEOREM HistoryIsWhole == Spec => []HistoryWhole
<1>1. Init => HInv
  BY HistoryInit
<1>2. HInv /\ [Next]_vars => HInv'
  BY StepKeeps
<1>3. HInv => HistoryWhole
  BY KeptIsWhole
<1> QED BY <1>1, <1>2, <1>3, PTL DEF Spec
=============================================================================
