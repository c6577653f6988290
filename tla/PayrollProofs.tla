---------------------------- MODULE PayrollProofs ----------------------------
(***************************************************************************)
(* Hours and pay for every month, log, salary history and rate.  The       *)
(* hours of a day are a fold over its events, so the invariant says of     *)
(* that fold what each further event keeps: the ended sessions are the     *)
(* ended stretches of the day, the current one is that of the last event,  *)
(* and no event has made a day shorter.  A fact about a fold is proved on  *)
(* the smallest prefix on which it could fail.                             *)
(***************************************************************************)
EXTENDS Payroll, CommonLemmas

-----------------------------------------------------------------------------
(* Sums over intervals.                                                    *)

\* g has numbers, or one number, on an interval.
IntsOn(g, c, d) == \A x \in c .. d : g[x] \in Int
SameOn(g, c, d, v) == \A x \in c .. d : g[x] = v

\* g has the value v on the n numbers from c, up to e, and is a number up to D.
Flat(g, c, n, e, D, v) ==
    /\ c \in Int /\ n \in Nat /\ e = c + n /\ D \in Int /\ e <= D + 1 /\ v \in Int
    /\ IntsOn(g, c, D) /\ SameOn(g, c, e - 1, v)

\* A sum over an interval that begins with the same value n times.
LEMMA SumFlat ==
    ASSUME NEW g, NEW c, NEW n, NEW e, NEW D, NEW v, Flat(g, c, n, e, D, v)
    PROVE  SumFunctionOnSet(g, c .. D) = v * n + SumFunctionOnSet(g, e .. D)
<1> DEFINE sum(k) == SumFunctionOnSet(g, c + k .. D)
           B == { k \in Nat : k <= n /\ sum(0) # v * k + sum(k) }
<1>1. /\ c \in Int /\ n \in Nat /\ D \in Int /\ c + n <= D + 1 /\ v \in Int /\ c + n = e
      /\ IntsOn(g, c, D) /\ SameOn(g, c, c + n - 1, v)
  BY DEF Flat
<1>2. ASSUME NEW k \in Nat, k <= n
      PROVE  sum(k) \in Int /\ (k < n => sum(k) = v + sum(k + 1))
  <2>1. IsFiniteSet(c + k .. D)
    BY <1>1, FS_Interval
  <2>2. \A x \in c + k .. D : g[x] \in Int
    BY <1>1 DEF IntsOn
  <2>3. sum(k) \in Int
    BY <1>1, <2>1, <2>2, SumFirst
  <2>4. ASSUME k < n PROVE sum(k) = v + sum(k + 1)
    <3>1. c + k \in c + k .. D /\ g[c + k] = v /\ (c + k .. D) \ {c + k} = c + (k + 1) .. D
      BY <1>1, <2>4, <1>2 DEF SameOn
    <3> DEFINE S == c + k .. D
               x == c + k
    <3>2. IsFiniteSet(S) /\ (\A y \in S : g[y] \in Int) /\ x \in S
      BY <1>1, <2>1, <2>2, <3>1
    <3> HIDE DEF S, x
    <3>3. SumFunctionOnSet(g, S) = g[x] + SumFunctionOnSet(g, S \ {x})
      BY <1>1, <3>2, SumRemove
    <3>4. QED BY <1>1, <3>1, <3>3 DEF S, x
  <2>5. QED BY <1>1, <2>3, <2>4
<1> HIDE DEF sum
<1>3. ASSUME B # {} PROVE FALSE
  <2>1. Numbers(B)
    BY <1>1 DEF Numbers
  <2> HIDE DEF B
  <2>2. PICK k \in B : \A x \in B : k <= x
    BY <1>1, <1>3, <2>1, LeastNumber
  <2> USE DEF B
  <2>3. k \in Nat /\ k <= n /\ sum(0) # v * k + sum(k)
    BY <1>1
  <2>4. k # 0
    <3>1. sum(0) \in Int
      BY <1>1, <1>2
    <3>2. QED BY <1>1, <2>3, <3>1
  <2> DEFINE j == k - 1
  <2>5. j \in Nat /\ j < n /\ j <= n /\ k = j + 1 /\ ~ k <= j
    BY <1>1, <2>3, <2>4
  <2>6. sum(0) = v * j + sum(j)
    BY <1>1, <2>2, <2>5
  <2>7. sum(j) = v + sum(k) /\ sum(j) \in Int /\ sum(k) \in Int
    BY <1>1, <1>2, <2>3, <2>5
  <2>8. v * k = v * j + v /\ v * j \in Int
    BY <1>1, <2>5
  <2>9. QED BY <1>1, <2>3, <2>6, <2>7, <2>8
<1>4. sum(0) = v * n + sum(n)
  BY <1>1, <1>3
<1>5. c + 0 = c
  BY <1>1
<1>6. QED BY <1>1, <1>4, <1>5 DEF sum

-----------------------------------------------------------------------------
(* The blended salary.                                                     *)

\* The least number of a set is one of them.
LEMMA MinPicks ==
    ASSUME NEW B, Numbers(B), B # {}
    PROVE  Min(B) \in B /\ \A x \in B : Min(B) <= x
<1>1. \E m \in B : \A x \in B : m <= x
  BY LeastNumber
<1>2. QED BY <1>1 DEF Min

\* The salary histories of the specification.
Histories == [Dates -> Salaries \cup {NoSalary}]

\* The entries of the salary history, and what they come to in a month.
LEMMA EntriesTyped ==
    ASSUME salary \in Histories
    PROVE  /\ Days \in Nat \ {0} /\ MonthEnd = Days + 1
           /\ \A d \in 0 .. Days : MonthlySalary(salary[d]) \in Nat
<1>1. Days \in Nat \ {0} /\ MonthEnd = Days + 1 /\ MonthlyFullTime \in Nat
  BY PayAssumption DEF MonthEnd
<1>2. ASSUME NEW d \in 0 .. Days PROVE MonthlySalary(salary[d]) \in Nat
  <2>1. d \in Dates
    BY <1>1 DEF Dates
  <2>2. salary[d] \in Salaries \cup {NoSalary}
    BY <2>1 DEF Histories
  <2>3. salary[d].amount \in Nat
    BY <2>2, PayAssumption DEF NoSalary
  <2> DEFINE amount == salary[d].amount
             factor == CASE salary[d].salaryType = "ANNUAL" -> 1
                         [] salary[d].salaryType = "HOURLY" -> 12 * MonthlyFullTime
                         [] OTHER                           -> 12
  <2>4. factor \in Nat
    BY <1>1
  <2>5. MonthlySalary(salary[d]) = amount * factor
    BY DEF MonthlySalary
  <2> HIDE DEF amount, factor
  <2>6. amount \in Nat
    BY <2>3 DEF amount
  <2>7. QED BY <2>4, <2>5, <2>6
<1>3. QED BY <1>1, <1>2

\* The days with a new entry.
LEMMA ChangesTyped ==
    ASSUME salary \in Histories
    PROVE  /\ WithinMonth \subseteq 1 .. Days /\ WithinMonth \subseteq Applicable
           /\ Numbers(WithinMonth) /\ IsFiniteSet(WithinMonth)
           /\ Applicable \subseteq 0 .. Days /\ Positions(Applicable) /\ IsFiniteSet(Applicable)
           /\ \A d \in Applicable : d > 0 => d \in WithinMonth
<1>1. Days \in Nat
  BY EntriesTyped
<1>2. WithinMonth \subseteq 1 .. Days /\ Applicable \subseteq 0 .. Days
      /\ WithinMonth \subseteq Applicable /\ \A d \in Applicable : d > 0 => d \in WithinMonth
  BY <1>1 DEF WithinMonth, Applicable
<1>3. IsFiniteSet(0 .. Days) /\ IsFiniteSet(1 .. Days)
  BY <1>1, FS_Interval
<1>4. IsFiniteSet(WithinMonth) /\ IsFiniteSet(Applicable)
  BY <1>2, <1>3, FS_Subset
<1>5. QED BY <1>1, <1>2, <1>4 DEF Numbers, Positions

\* The day before which an entry is replaced.
LEMMA NextIsNext ==
    ASSUME salary \in Histories, NEW c \in WithinMonth
    PROVE  /\ NextChange(c) \in Nat /\ c < NextChange(c) /\ NextChange(c) <= MonthEnd
           /\ NextChange(c) \in WithinMonth \/ NextChange(c) = MonthEnd
           /\ \A x \in WithinMonth : x > c => NextChange(c) <= x
<1> DEFINE later == { x \in WithinMonth : x > c } \cup {MonthEnd}
<1>1. WithinMonth \subseteq 1 .. Days /\ Days \in Nat /\ MonthEnd = Days + 1
  BY ChangesTyped, EntriesTyped
<1>2. Numbers(later) /\ later # {}
  <2>1. \A x \in WithinMonth : x \in Nat
    BY <1>1
  <2>2. MonthEnd \in Nat
    BY <1>1
  <2>3. QED BY <2>1, <2>2 DEF Numbers
<1>3. NextChange(c) = Min(later)
  BY DEF NextChange
<1> DEFINE n == NextChange(c)
<1> HIDE DEF later, n
<1>4. n \in later /\ \A x \in later : n <= x
  BY <1>2, <1>3, MinPicks DEF n
<1>5. (n \in WithinMonth /\ n > c) \/ n = MonthEnd
  BY <1>4 DEF later
<1>6. c \in 1 .. Days /\ n <= MonthEnd /\ \A x \in WithinMonth : x > c => n <= x
  BY <1>1, <1>4 DEF later
<1>7. n \in Nat /\ c < n
  <2> HIDE DEF n
  <2>1. CASE n = MonthEnd
    BY <1>1, <1>6, <2>1
  <2>2. CASE n # MonthEnd
    <3>1. n \in WithinMonth /\ n > c
      BY <1>5, <2>2
    <3>2. n \in 1 .. Days
      BY <1>1, <3>1
    <3>3. QED BY <1>1, <1>6, <3>1, <3>2
  <2>3. QED BY <2>1, <2>2
<1>8. QED BY <1>5, <1>6, <1>7 DEF n

\* The entry in force on the days until the next one.
LEMMA InForceUntilNext ==
    ASSUME salary \in Histories, NEW c \in WithinMonth, NEW d \in c .. NextChange(c) - 1
    PROVE  InForce(d) = salary[c]
<1> DEFINE S == { x \in Applicable : x <= d }
<1>1. /\ WithinMonth \subseteq 1 .. Days /\ WithinMonth \subseteq Applicable
      /\ Positions(Applicable) /\ IsFiniteSet(Applicable)
      /\ \A x \in Applicable : x > 0 => x \in WithinMonth
  BY ChangesTyped
<1>2. Days \in Nat
  BY EntriesTyped
<1>3. /\ NextChange(c) \in Nat
      /\ \A x \in WithinMonth : x > c => NextChange(c) <= x
  BY NextIsNext
<1>4. c \in S /\ c > 0 /\ d \in Int /\ d < NextChange(c)
  BY <1>1, <1>2, <1>3
<1>5. S \in SUBSET Applicable /\ S # {}
  BY <1>4
<1> DEFINE m == Max(S)
<1>6. m \in S /\ \A x \in S : x <= m
  <2> HIDE DEF S
  <2>1. QED BY <1>1, <1>5, MaxPicks
<1> HIDE DEF m
<1>7. m \in Applicable /\ m <= d /\ c <= m /\ m \in Int
  BY <1>1, <1>4, <1>6 DEF Positions
<1>8. m = c
  <2> SUFFICES ASSUME m > c PROVE FALSE
    BY <1>4, <1>7, <1>1
  <2>1. m \in WithinMonth
    BY <1>1, <1>2, <1>4, <1>7
  <2>2. NextChange(c) <= m
    BY <1>3, <2>1
  <2>3. QED BY <1>3, <1>4, <1>7, <2>2
<1>9. InForce(d) = salary[m]
  BY DEF InForce, m
<1>10. QED BY <1>8, <1>9

\* Every day from the first change on has an entry in force.
LEMMA InForceTyped ==
    ASSUME salary \in Histories, NEW c \in WithinMonth, NEW d \in c .. Days
    PROVE  MonthlySalary(InForce(d)) \in Int
<1> DEFINE S == { x \in Applicable : x <= d }
<1>1. /\ WithinMonth \subseteq 1 .. Days /\ WithinMonth \subseteq Applicable
      /\ Positions(Applicable) /\ IsFiniteSet(Applicable) /\ Applicable \subseteq 0 .. Days
  BY ChangesTyped
<1>2. c \in S /\ S \in SUBSET Applicable /\ S # {}
  BY <1>1
<1> DEFINE m == Max(S)
<1>3. m \in S
  <2> HIDE DEF S
  <2>1. QED BY <1>1, <1>2, MaxPicks
<1>4. m \in 0 .. Days
  BY <1>1, <1>3
<1> HIDE DEF m
<1>5. InForce(d) = salary[m]
  BY DEF InForce, m
<1>6. QED BY <1>4, <1>5, EntriesTyped

\* What the segments of the month come to, and what its days come to.
Segments == [d \in WithinMonth |-> MonthlySalary(salary[d]) * (NextChange(d) - d)]
DayByDay == [d \in Min(WithinMonth) .. Days |-> MonthlySalary(InForce(d))]

\* The segments of a salary with several changes are its days.
LEMMA BlendIsDaily ==
    ASSUME salary \in Histories, WithinMonth # {}
    PROVE  SumFunctionOnSet(Segments, WithinMonth)
             = SumFunctionOnSet(DayByDay, Min(WithinMonth) .. Days)
<1> DEFINE W == WithinMonth
           first == Min(W)
           T(c) == { d \in W : d >= c }
           B == { c \in W : SumFunctionOnSet(Segments, T(c)) # SumFunctionOnSet(DayByDay, c .. Days) }
<1>1. /\ W \subseteq 1 .. Days /\ Numbers(W) /\ IsFiniteSet(W) /\ Days \in Nat /\ MonthEnd = Days + 1
      /\ Positions(W)
  BY ChangesTyped, EntriesTyped DEF Positions
<1>2. first \in W /\ \A x \in W : first <= x
  BY <1>1, MinPicks
<1>3. \A d \in W : Segments[d] \in Int
  <2> SUFFICES ASSUME NEW d \in W PROVE Segments[d] \in Int
    OBVIOUS
  <2>1. NextChange(d) \in Nat
    BY NextIsNext
  <2>2. MonthlySalary(salary[d]) \in Nat /\ d \in Nat
    BY <1>1, EntriesTyped
  <2>3. Segments[d] = MonthlySalary(salary[d]) * (NextChange(d) - d)
    BY DEF Segments
  <2> DEFINE x == MonthlySalary(salary[d])
             y == NextChange(d) - d
  <2>4. x \in Int /\ y \in Int
    BY <2>1, <2>2
  <2> HIDE DEF x, y
  <2>5. x * y \in Int
    BY <2>4
  <2>6. QED BY <2>3, <2>5 DEF x, y
<1>4. \A d \in first .. Days : DayByDay[d] \in Int /\ DayByDay[d] = MonthlySalary(InForce(d))
  BY <1>2, InForceTyped DEF DayByDay
<1>5. ASSUME NEW c \in W,
             NextChange(c) \in W => SumFunctionOnSet(Segments, T(NextChange(c)))
                                      = SumFunctionOnSet(DayByDay, NextChange(c) .. Days)
      PROVE  SumFunctionOnSet(Segments, T(c)) = SumFunctionOnSet(DayByDay, c .. Days)
  <2> DEFINE n == NextChange(c)
             v == MonthlySalary(salary[c])
             rest == T(c) \ {c}
  <2>1. /\ n \in Nat /\ c < n /\ n <= MonthEnd /\ (n \in W \/ n = MonthEnd)
        /\ \A x \in W : x > c => n <= x
    BY NextIsNext
  <2>2. c \in Nat /\ first <= c /\ first \in Nat /\ v \in Int
    <3>1. c \in 1 .. Days /\ first \in 1 .. Days /\ first <= c
      BY <1>1, <1>2
    <3>2. c \in 0 .. Days
      BY <3>1, <1>1
    <3>3. v \in Nat
      BY <3>2, EntriesTyped
    <3>4. QED BY <1>1, <3>1, <3>3
  <2>3. IsFiniteSet(T(c)) /\ c \in T(c) /\ \A d \in T(c) : Segments[d] \in Int
    <3>1. T(c) \subseteq W /\ c \in T(c)
      BY <2>2
    <3>2. QED BY <1>1, <1>3, <3>1, FS_Subset
  <2>4. Segments[c] = v * (n - c)
    BY DEF Segments
  <2>5. \A x \in c .. n - 1 : DayByDay[x] = v
    <3> SUFFICES ASSUME NEW x \in c .. n - 1 PROVE DayByDay[x] = v
      BY <2>1, <2>2
    <3>1. InForce(x) = salary[c]
      BY InForceUntilNext
    <3>2. x \in first .. Days
      BY <1>1, <2>1, <2>2
    <3>3. QED BY <1>4, <3>1, <3>2
  <2>6. \A x \in c .. Days : DayByDay[x] \in Int
    BY <1>1, <1>4, <2>2
  <2>7. rest = T(n)
    <3>1. \A x \in W : x \in Nat
      BY <1>1
    <3>2. \A x \in W : x >= c /\ x # c <=> x >= n
      <4> SUFFICES ASSUME NEW x \in W PROVE x >= c /\ x # c <=> x >= n
        OBVIOUS
      <4>1. x \in Nat /\ (x > c => n <= x)
        BY <2>1, <3>1
      <4> HIDE DEF W, n
      <4>2. QED BY <2>1, <2>2, <4>1
    <3> HIDE DEF W, n
    <3>3. QED BY <3>2
  <2>8. SumFunctionOnSet(Segments, T(c)) = v * (n - c) + SumFunctionOnSet(Segments, T(n))
    <3> HIDE DEF T, W, n, v
    <3>1. QED BY <2>3, <2>4, <2>7, SumRemove
  <2>9. SumFunctionOnSet(DayByDay, c .. Days) = v * (n - c) + SumFunctionOnSet(DayByDay, n .. Days)
    <3> DEFINE k == n - c
    <3>1. c \in Int /\ k \in Nat /\ Days \in Int /\ c + k <= Days + 1 /\ c + k = n
      BY <1>1, <2>1, <2>2
    <3>2. Flat(DayByDay, c, k, n, Days, v)
      BY <2>2, <2>5, <2>6, <3>1 DEF Flat, IntsOn, SameOn
    <3> HIDE DEF k, n, v, W, first, T, B
    <3>3. SumFunctionOnSet(DayByDay, c .. Days) = v * k + SumFunctionOnSet(DayByDay, n .. Days)
      BY <3>2, SumFlat
    <3>4. QED BY <3>1, <3>3 DEF k
  <2>10. SumFunctionOnSet(Segments, T(n)) = SumFunctionOnSet(DayByDay, n .. Days)
    <3>1. CASE n \in W
      BY <1>5, <3>1
    <3>2. CASE n = MonthEnd
      <4>1. T(n) = {} /\ n .. Days = {}
        <5>1. \A x \in W : x \in 1 .. Days
          BY <1>1
        <5> HIDE DEF W, n
        <5>2. n = Days + 1
          BY <1>1, <3>2
        <5>3. \A x \in W : ~ x >= n
          <6>1. Days \in Int
            BY <1>1
          <6>2. QED BY <5>1, <5>2, <6>1
        <5>4. T(n) = {}
          BY <5>3
        <5>5. n .. Days = {}
          <6>1. Days \in Int
            BY <1>1
          <6>2. QED BY <5>2, <6>1
        <5>6. QED BY <5>4, <5>5
      <4>2. IsFiniteSet({}) /\ SumFunctionOnSet(Segments, {}) = 0 /\ SumFunctionOnSet(DayByDay, {}) = 0
        BY FS_EmptySet, SumFirst
      <4>3. QED BY <4>1, <4>2
    <3>3. QED BY <2>1, <3>1, <3>2
  <2>11. QED BY <2>8, <2>9, <2>10
<1>6. ASSUME B # {} PROVE FALSE
  <2>1. B \in SUBSET W
    OBVIOUS
  <2>2. PICK c \in B : \A x \in B : c >= x
    <3> HIDE DEF B, W
    <3>1. QED BY <1>1, <1>6, <2>1, MaxExists
  <2>3. NextChange(c) > c /\ NextChange(c) \in Nat /\ c \in Nat
    BY <1>1, NextIsNext
  <2>4. NextChange(c) \notin B
    BY <2>2, <2>3
  <2>5. QED BY <1>5, <2>4
<1>7. T(first) = W /\ first \in W
  BY <1>2
<1>8. QED BY <1>6, <1>7

\* Numbers on the interval from 1 to D.
FromOne(g, D) == \A x \in 1 .. D : g[x] \in Int

\* A sum over an interval in two parts, the second of which begins with m.
LEMMA SumSplit ==
    ASSUME NEW D \in Nat, NEW g, FromOne(g, D), NEW m \in 1 .. D + 1
    PROVE  /\ SumFunctionOnSet(g, 1 .. D)
                = SumFunctionOnSet(g, 1 .. m - 1) + SumFunctionOnSet(g, m .. D)
           /\ SumFunctionOnSet(g, 1 .. m - 1) \in Int /\ SumFunctionOnSet(g, m .. D) \in Int
<1> DEFINE low(k)  == SumFunctionOnSet(g, 1 .. k)
           high(k) == SumFunctionOnSet(g, m .. k)
           B == { k \in m - 1 .. D : low(k) # low(m - 1) + high(k) }
<1>1. ASSUME NEW k \in 0 .. D
      PROVE  /\ low(k) \in Int /\ high(k) \in Int
             /\ k < m => high(k) = 0
             /\ k >= m => high(k) = high(k - 1) + g[k]
             /\ k >= 1 => low(k) = low(k - 1) + g[k]
  <2>1. IsFiniteSet(1 .. k) /\ IsFiniteSet(m .. k)
    BY FS_Interval
  <2>2. (\A x \in 1 .. k : g[x] \in Int) /\ (\A x \in m .. k : g[x] \in Int)
    BY DEF FromOne
  <2>3. low(k) \in Int /\ high(k) \in Int
    BY <2>1, <2>2, SumFirst
  <2>4. ASSUME k < m PROVE high(k) = 0
    <3> DEFINE S == m .. k
    <3>1. S = {}
      BY <2>4
    <3>2. IsFiniteSet(S) /\ \A x \in S : g[x] \in Int
      BY <2>1, <2>2
    <3> HIDE DEF S
    <3>3. SumFunctionOnSet(g, S) = 0
      BY <3>1, <3>2, SumFirst
    <3>4. QED BY <3>3 DEF S
  <2>5. ASSUME NEW l \in 1 .. m, k >= l
        PROVE  SumFunctionOnSet(g, l .. k) = SumFunctionOnSet(g, l .. k - 1) + g[k]
    <3> DEFINE S == l .. k
               T == l .. k - 1
    <3>1. k \in S /\ S \ {k} = T /\ g[k] \in Int
      BY <2>2, <2>5
    <3>2. IsFiniteSet(S) /\ \A x \in S : g[x] \in Int
      <4>1. \A x \in S : x \in 1 .. k
        OBVIOUS
      <4>2. QED BY <2>2, <4>1, FS_Interval
    <3> HIDE DEF S, T
    <3>3. /\ SumFunctionOnSet(g, S) = g[k] + SumFunctionOnSet(g, S \ {k})
          /\ SumFunctionOnSet(g, S \ {k}) \in Int
      BY <3>1, <3>2, SumRemove
    <3>4. SumFunctionOnSet(g, S) = SumFunctionOnSet(g, T) + g[k]
      BY <3>1, <3>3
    <3>5. QED BY <3>4 DEF S, T
  <2>6. 1 \in 1 .. m /\ m \in 1 .. m
    OBVIOUS
  <2> HIDE DEF low, high
  <2>7. QED BY <2>3, <2>4, <2>5, <2>6 DEF low, high
<1> HIDE DEF low, high
<1>2. m - 1 \in 0 .. D /\ D \in 0 .. D /\ D \in m - 1 .. D /\ m - 1 < m
  OBVIOUS
<1>3. ASSUME B # {} PROVE FALSE
  <2>1. Numbers(B)
    BY DEF Numbers
  <2> HIDE DEF B
  <2>2. PICK k \in B : \A x \in B : k <= x
    BY <1>3, <2>1, LeastNumber
  <2> USE DEF B
  <2>3. k \in m - 1 .. D /\ low(k) # low(m - 1) + high(k)
    OBVIOUS
  <2>4. k # m - 1
    <3>1. high(m - 1) = 0 /\ low(m - 1) \in Int
      BY <1>1, <1>2
    <3>2. QED BY <2>3, <3>1
  <2>5. k \in 0 .. D /\ k - 1 \in 0 .. D /\ k >= m /\ k >= 1 /\ k - 1 \in m - 1 .. D /\ ~ k <= k - 1
    BY <2>3, <2>4
  <2>6. low(k - 1) = low(m - 1) + high(k - 1)
    BY <2>2, <2>5
  <2>7. high(k) = high(k - 1) + g[k] /\ low(k) = low(k - 1) + g[k] /\ g[k] \in Int
        /\ high(k - 1) \in Int /\ low(m - 1) \in Int
    <3>1. g[k] \in Int
      BY <2>5 DEF FromOne
    <3>2. QED BY <1>1, <1>2, <2>5, <3>1
  <2> HIDE DEF B
  <2>8. QED BY <2>3, <2>6, <2>7
<1>4. low(D) = low(m - 1) + high(D)
  BY <1>2, <1>3
<1>5. low(m - 1) \in Int /\ high(D) \in Int
  BY <1>1, <1>2
<1>6. QED BY <1>4, <1>5 DEF low, high

\* What every day of the month earns.
Daily == [d \in 1 .. Days |-> DailySalary(d)]

\* It is a number: the amount in force if there is one.
LEMMA DailyTyped ==
    ASSUME salary \in Histories, NEW d \in 1 .. Days
    PROVE  DailySalary(d) \in Int /\ Daily[d] = DailySalary(d)
<1> DEFINE S == { x \in Applicable : x <= d }
<1>1. IsFiniteSet(Applicable) /\ Positions(Applicable) /\ Applicable \subseteq 0 .. Days
  BY ChangesTyped
<1>2. CASE S = {}
  BY <1>2 DEF DailySalary, Daily
<1>3. CASE S # {}
  <2> DEFINE m == Max(S)
  <2>1. m \in S
    <3>1. S \in SUBSET Applicable
      OBVIOUS
    <3> HIDE DEF S
    <3>2. QED BY <1>1, <1>3, <3>1, MaxPicks
  <2>2. m \in 0 .. Days
    BY <1>1, <2>1
  <2> HIDE DEF m
  <2>3. MonthlySalary(salary[m]) \in Int
    BY <2>2, EntriesTyped
  <2>4. DailySalary(d) = MonthlySalary(salary[m])
    BY <1>3 DEF DailySalary, InForce, m
  <2>5. QED BY <2>3, <2>4 DEF Daily
<1>4. QED BY <1>2, <1>3

\* The days of a month with changes: those before the first one, and the others.
LEMMA DueSplits ==
    ASSUME salary \in Histories, WithinMonth # {}
    PROVE  LET first == Min(WithinMonth)
           IN  /\ Earlier = 1 .. first - 1
               /\ DueFor(1 .. Days) = DueFor(Earlier) + SumFunctionOnSet(DayByDay, first .. Days)
               /\ DueFor(Earlier) \in Int /\ SumFunctionOnSet(DayByDay, first .. Days) \in Int
<1> DEFINE first == Min(WithinMonth)
           before == [d \in 1 .. first - 1 |-> DailySalary(d)]
<1>1. /\ WithinMonth \subseteq 1 .. Days /\ WithinMonth \subseteq Applicable /\ Days \in Nat
      /\ Numbers(WithinMonth)
  BY ChangesTyped, EntriesTyped
<1>2. first \in WithinMonth
  BY <1>1, MinPicks
<1>3. first \in 1 .. Days
  BY <1>1, <1>2
<1> HIDE DEF first
<1>4. Earlier = 1 .. first - 1
  BY <1>1, <1>3 DEF Earlier, first
<1>5. FromOne(Daily, Days) /\ first \in 1 .. Days + 1
  BY <1>1, <1>3, DailyTyped DEF FromOne
<1>6. /\ SumFunctionOnSet(Daily, 1 .. Days)
           = SumFunctionOnSet(Daily, 1 .. first - 1) + SumFunctionOnSet(Daily, first .. Days)
      /\ SumFunctionOnSet(Daily, 1 .. first - 1) \in Int /\ SumFunctionOnSet(Daily, first .. Days) \in Int
  BY <1>1, <1>5, SumSplit
<1>7. SumFunctionOnSet(before, 1 .. first - 1) = SumFunctionOnSet(Daily, 1 .. first - 1)
  <2>1. \A d \in 1 .. first - 1 : d \in 1 .. Days
    BY <1>1, <1>3
  <2>2. \A d \in 1 .. first - 1 : Daily[d] \in Int /\ before[d] = Daily[d]
    BY <2>1, DailyTyped
  <2>3. IsFiniteSet(1 .. first - 1)
    BY <1>3, FS_Interval
  <2> HIDE DEF before
  <2>4. QED BY <2>2, <2>3, SumSame
<1>8. SumFunctionOnSet(DayByDay, first .. Days) = SumFunctionOnSet(Daily, first .. Days)
  <2>1. \A d \in first .. Days : d \in 1 .. Days
    BY <1>1, <1>3
  <2>2. \A d \in first .. Days : Daily[d] \in Int /\ DayByDay[d] = Daily[d]
    <3> SUFFICES ASSUME NEW d \in first .. Days PROVE Daily[d] \in Int /\ DayByDay[d] = Daily[d]
      OBVIOUS
    <3>1. first \in { x \in Applicable : x <= d }
      BY <1>1, <1>2, <1>3
    <3>2. DailySalary(d) = MonthlySalary(InForce(d))
      BY <3>1 DEF DailySalary
    <3>3. DayByDay[d] = MonthlySalary(InForce(d))
      BY DEF DayByDay, first
    <3>4. QED BY <2>1, <3>2, <3>3, DailyTyped
  <2>3. IsFiniteSet(first .. Days)
    BY <1>1, <1>3, FS_Interval
  <2>4. QED BY <2>2, <2>3, SumSame
<1>9. DueFor(1 .. Days) = SumFunctionOnSet(Daily, 1 .. Days)
  BY DEF DueFor, Sum, Daily
<1>10. DueFor(1 .. first - 1) = SumFunctionOnSet(before, 1 .. first - 1)
  BY DEF DueFor, Sum
<1> HIDE DEF before
<1>11. QED BY <1>4, <1>6, <1>7, <1>8, <1>9, <1>10 DEF first

\* A month without changes earns one amount on every day, or nothing.
LEMMA UnchangedMonth ==
    ASSUME salary \in Histories, WithinMonth = {}
    PROVE  BlendedSalary = DueFor(1 .. Days) /\ BlendedSalary \in Int
<1>1. /\ Days \in Nat /\ Applicable \subseteq 0 .. Days
      /\ \A d \in Applicable : d > 0 => d \in WithinMonth
  BY ChangesTyped, EntriesTyped
<1>2. DueFor(1 .. Days) = SumFunctionOnSet(Daily, 1 .. Days)
  BY DEF DueFor, Sum, Daily
<1>3. \A d \in 1 .. Days : Daily[d] = DailySalary(d) /\ Daily[d] \in Int
  BY DailyTyped
<1>4. Cardinality(WithinMonth) <= 1
  BY FS_EmptySet
<1>5. CASE Applicable = {}
  <2>1. \A d \in 1 .. Days : Daily[d] \in Nat /\ Daily[d] = 0
    BY <1>3, <1>5 DEF DailySalary
  <2>2. IsFiniteSet(1 .. Days)
    BY <1>1, FS_Interval
  <2>3. SumFunctionOnSet(Daily, 1 .. Days) = 0
    BY <2>1, <2>2, SumNat
  <2>4. BlendedSalary = 0
    BY <1>5 DEF BlendedSalary, Sum
  <2>5. QED BY <1>2, <2>3, <2>4
<1>6. CASE Applicable # {}
  <2> DEFINE v == MonthlySalary(salary[Max(Applicable)])
  <2>1. Applicable = {0}
    <3>1. \A d \in Applicable : d \in Nat /\ ~ d > 0
      BY <1>1
    <3>2. \A d \in Applicable : d = 0
      BY <3>1
    <3>3. QED BY <1>6, <3>2
  <2>2. Max(Applicable) = 0
    BY <2>1, ChangesTyped, MaxPicks
  <2>3. v \in Nat
    BY <1>1, <2>2, EntriesTyped
  <2>4. \A d \in 1 .. Days : { x \in Applicable : x <= d } = Applicable
    BY <1>1, <2>1
  <2>5. \A d \in 1 .. Days : Daily[d] = v
    BY <1>3, <1>6, <2>4 DEF DailySalary, InForce
  <2>6. BlendedSalary = Days * v
    BY <1>4, <1>6 DEF BlendedSalary, Sum
  <2> HIDE DEF v
  <2> DEFINE e == Days + 1
  <2>7. Flat(Daily, 1, Days, e, Days, v)
    BY <1>1, <1>3, <2>3, <2>5 DEF Flat, IntsOn, SameOn
  <2>8. e .. Days = {} /\ IsFiniteSet({})
    BY <1>1, FS_EmptySet
  <2> HIDE DEF e
  <2>9. SumFunctionOnSet(Daily, 1 .. Days) = v * Days + SumFunctionOnSet(Daily, e .. Days)
    BY <2>7, SumFlat
  <2>10. SumFunctionOnSet(Daily, {}) = 0
    BY <2>8, SumFirst
  <2>11. SumFunctionOnSet(Daily, e .. Days) = 0
    BY <2>8, <2>10
  <2>12. v * Days = Days * v /\ v * Days \in Int
    BY <1>1, <2>3
  <2>13. QED BY <1>2, <2>6, <2>9, <2>11, <2>12
<1>7. QED BY <1>5, <1>6

\* A month with a single change is paid whole at the new amount.
LEMMA SingleChange ==
    ASSUME salary \in Histories, NEW c, WithinMonth = {c}
    PROVE  LET v == MonthlySalary(InForce(Days))
           IN  /\ c \in 1 .. Days /\ Min(WithinMonth) = c /\ v \in Int
               /\ BlendedSalary = Days * v
               /\ SumFunctionOnSet(DayByDay, c .. Days) = v * (Days + 1 - c)
<1> DEFINE v == MonthlySalary(InForce(Days))
<1>1. /\ WithinMonth \subseteq 1 .. Days /\ Numbers(WithinMonth) /\ Applicable \subseteq 0 .. Days
      /\ WithinMonth \subseteq Applicable /\ Days \in Nat /\ MonthEnd = Days + 1
  BY ChangesTyped, EntriesTyped
<1>2. c \in WithinMonth /\ c \in 1 .. Days /\ Min(WithinMonth) = c
  BY <1>1, MinPicks
<1>3. NextChange(c) = Days + 1
  BY <1>1, <1>2, NextIsNext
<1>4. InForce(Days) = salary[c]
  <2>1. Days \in c .. NextChange(c) - 1
    BY <1>1, <1>2, <1>3
  <2>2. QED BY <1>2, <2>1, InForceUntilNext
<1>5. { x \in Applicable : x <= Days } = Applicable
  <2>1. \A x \in Applicable : x <= Days
    BY <1>1
  <2>2. QED BY <2>1
<1>6. BlendedSalary = Days * v
  <2>1. Cardinality(WithinMonth) <= 1
    BY FS_Singleton
  <2>2. Applicable # {}
    BY <1>1, <1>2
  <2>3. BlendedSalary = Days * MonthlySalary(salary[Max(Applicable)])
    BY <2>1, <2>2 DEF BlendedSalary, Sum
  <2>4. QED BY <1>5, <2>3 DEF InForce
<1>7. v \in Int
  BY <1>1, <1>2, <1>4, EntriesTyped
<1>8. SumFunctionOnSet(Segments, WithinMonth) = v * (Days + 1 - c)
  <2>1. Segments[c] = v * (Days + 1 - c)
    <3>1. Segments[c] = MonthlySalary(salary[c]) * (NextChange(c) - c)
      BY <1>2 DEF Segments
    <3>2. MonthlySalary(salary[c]) = v
      BY <1>4
    <3>3. NextChange(c) - c = Days + 1 - c
      BY <1>1, <1>2, <1>3
    <3> DEFINE k == Days + 1 - c
               w == MonthlySalary(salary[c])
               l == NextChange(c) - c
    <3>4. Segments[c] = w * l /\ l = k /\ w = v
      BY <3>1, <3>2, <3>3
    <3> HIDE DEF v, k, w, l
    <3>5. Segments[c] = v * k
      BY <3>4
    <3>6. QED BY <3>5 DEF k
  <2> HIDE DEF v
  <2>2. v * (Days + 1 - c) \in Int
    <3> DEFINE k == Days + 1 - c
    <3>1. k \in Int
      BY <1>1, <1>2
    <3> HIDE DEF k
    <3>2. v * k \in Int
      BY <1>7, <3>1
    <3>3. QED BY <3>2 DEF k
  <2>3. IsFiniteSet({c}) /\ \A x \in {c} : Segments[x] \in Int
    BY <2>1, <2>2, FS_Singleton
  <2>4. SumFunctionOnSet(Segments, {c}) = Segments[c] + SumFunctionOnSet(Segments, {c} \ {c})
    BY <2>3, SumRemove
  <2>5. {c} \ {c} = {} /\ SumFunctionOnSet(Segments, {}) = 0
    BY FS_EmptySet, SumFirst
  <2>6. SumFunctionOnSet(Segments, {c} \ {c}) = 0
    BY <2>5
  <2> DEFINE k == v * (Days + 1 - c)
  <2>7. k \in Int /\ Segments[c] = k
    BY <2>1, <2>2
  <2> HIDE DEF k
  <2>8. SumFunctionOnSet(Segments, {c}) = k
    BY <2>4, <2>6, <2>7
  <2>9. QED BY <2>8 DEF k
<1>9. SumFunctionOnSet(Segments, WithinMonth) = SumFunctionOnSet(DayByDay, c .. Days)
  BY <1>2, BlendIsDaily
<1> HIDE DEF v
<1>10. QED BY <1>2, <1>6, <1>7, <1>8, <1>9 DEF v

\* BlendAccounted of any salary history.
LEMMA BlendOfHistory == ASSUME salary \in Histories PROVE BlendAccounted
<1> DEFINE count == Cardinality(WithinMonth)
<1>1. /\ IsFiniteSet(WithinMonth) /\ count \in Nat
      /\ WithinMonth \subseteq 1 .. Days /\ WithinMonth \subseteq Applicable /\ Days \in Nat
  BY ChangesTyped, EntriesTyped, FS_CardinalityType
<1>2. CASE WithinMonth = {}
  <2>1. Earlier = {} /\ count = 0
    BY <1>2, FS_EmptySet DEF Earlier
  <2>2. DueFor({}) = 0
    <3> DEFINE none == [d \in {} |-> DailySalary(d)]
    <3>1. DueFor({}) = SumFunctionOnSet(none, {})
      BY DEF DueFor, Sum
    <3> HIDE DEF none
    <3>2. SumFunctionOnSet(none, {}) = 0
      BY FS_EmptySet, SumFirst
    <3>3. QED BY <3>1, <3>2
  <2>3. BlendedSalary = DueFor(1 .. Days) /\ BlendedSalary \in Int
    BY <1>2, UnchangedMonth
  <2>4. QED BY <2>1, <2>2, <2>3 DEF BlendAccounted
<1>3. CASE count = 1
  <2>1. PICK c : WithinMonth = {c}
    BY <1>1, <1>3, FS_Singleton
  <2> DEFINE v == MonthlySalary(InForce(Days))
             after == SumFunctionOnSet(DayByDay, c .. Days)
             all == DueFor(1 .. Days)
             early == DueFor(Earlier)
  <2>2. /\ c \in 1 .. Days /\ Min(WithinMonth) = c /\ v \in Int /\ BlendedSalary = Days * v
        /\ after = v * (Days + 1 - c)
    BY <2>1, SingleChange
  <2>3. Earlier = 1 .. c - 1 /\ all = early + after /\ early \in Int /\ after \in Int
    BY <2>1, <2>2, DueSplits
  <2>4. Cardinality(Earlier) = c - 1
    BY <1>1, <2>2, <2>3, FS_Interval
  <2>5. BlendAccounted <=> BlendedSalary = all - early + Cardinality(Earlier) * v
    BY <1>3 DEF BlendAccounted
  <2> HIDE DEF v, after, all, early
  <2>6. all - early = after
    BY <2>3
  <2>7. Days * v = v * (Days + 1 - c) + (c - 1) * v
    BY <1>1, <2>2
  <2>8. QED BY <2>2, <2>4, <2>5, <2>6, <2>7
<1>4. CASE count > 1
  <2>1. WithinMonth # {} /\ Applicable # {} /\ ~ count <= 1 /\ count # 1
    <3>1. WithinMonth = {} => count = 0
      BY FS_EmptySet
    <3> HIDE DEF count
    <3>2. ~ count <= 1 /\ count # 1 /\ count # 0
      BY <1>1, <1>4
    <3>3. QED BY <1>1, <3>1, <3>2
  <2> DEFINE after == SumFunctionOnSet(DayByDay, Min(WithinMonth) .. Days)
  <2>2. BlendedSalary = SumFunctionOnSet(Segments, WithinMonth)
    BY <2>1 DEF BlendedSalary, Sum, Segments
  <2>3. BlendedSalary = after
    BY <2>1, <2>2, BlendIsDaily
  <2>4. DueFor(1 .. Days) = DueFor(Earlier) + after /\ DueFor(Earlier) \in Int /\ after \in Int
    BY <2>1, DueSplits
  <2>5. BlendAccounted <=> BlendedSalary = DueFor(1 .. Days) - DueFor(Earlier) + 0
    BY <2>1 DEF BlendAccounted
  <2> HIDE DEF after
  <2>6. QED BY <2>3, <2>4, <2>5
<1>5. count = 0 => WithinMonth = {}
  BY <1>1, FS_EmptySet
<1> HIDE DEF count
<1>6. count = 0 \/ count = 1 \/ count > 1
  BY <1>1
<1>7. QED BY <1>2, <1>3, <1>4, <1>5, <1>6

Event == [action : Actions, time : Nat]

-----------------------------------------------------------------------------
(* The events of a day.                                                    *)

Kept(kept, event, d) == IF DayOf(event.time) = d THEN Append(kept, event) ELSE kept

KeptOver(h, events, d) ==
    h = [U \in SUBSET DOMAIN events |->
           IF U = {} THEN << >> ELSE Kept(h[U \ {Max(U)}], events[Max(U)], d)]

\* EventsOn is the fold of the events that fall on the day.
LEMMA EventsChosen ==
    ASSUME NEW events, NEW d
    PROVE  EventsOn(d, events) = (CHOOSE h : KeptOver(h, events, d))[DOMAIN events]
BY DEF EventsOn, FoldLeft, MapThenFoldSet, KeptOver, Kept

\* That fold has a value for every log.
LEMMA KeptExists ==
    ASSUME NEW events \in Seq(Event), NEW d
    PROVE  \E h : KeptOver(h, events, d)
<1> DEFINE n == Len(events)
           A == Seq(Event)
           step == [i \in 1 .. n |-> [a \in A |-> Kept(a, events[i], d)]]
<1>1. n \in Nat /\ DOMAIN events = 1 .. n /\ \A i \in 1 .. n : events[i] \in Event
  OBVIOUS
<1>2. \A i \in 1 .. n, a \in A : step[i][a] = Kept(a, events[i], d) /\ step[i][a] \in A
  BY DEF Kept
<1>3. << >> \in A /\ Stays(step, n, A)
  BY <1>2 DEF Stays
<1> HIDE DEF n, A, step
<1>4. PICK h : LeftFolds(h, n, << >>, step) /\ AllIn(h, n, A)
  BY <1>1, <1>3, LeftFold
<1>5. ASSUME NEW U \in SUBSET (1 .. n), U # {}
      PROVE  step[Max(U)][h[U \ {Max(U)}]] = Kept(h[U \ {Max(U)}], events[Max(U)], d)
  <2>1. Max(U) \in 1 .. n
    BY <1>1, <1>5, LargestPicks
  <2>2. h[U \ {Max(U)}] \in A
    BY <1>4 DEF AllIn
  <2>3. QED BY <1>2, <2>1, <2>2
<1>6. h = [U \in SUBSET (1 .. n) |->
             IF U = {} THEN << >> ELSE Kept(h[U \ {Max(U)}], events[Max(U)], d)]
  BY <1>4, <1>5 DEF LeftFolds
<1>7. QED BY <1>1, <1>6 DEF KeptOver

\* The value the recursion has on a prefix.
LEMMA KeptChain ==
    ASSUME NEW events \in Seq(Event), NEW d, NEW h, KeptOver(h, events, d)
    PROVE  /\ h[1 .. 0] = << >>
           /\ \A k \in 1 .. Len(events) : h[1 .. k] = Kept(h[1 .. k - 1], events[k], d)
<1> DEFINE n == Len(events)
<1>1. n \in Nat /\ DOMAIN events = 1 .. n /\ 1 .. 0 = {}
  OBVIOUS
<1> HIDE DEF n
<1>2. ASSUME NEW k \in 1 .. n
      PROVE  h[1 .. k] = Kept(h[1 .. k - 1], events[k], d)
  <2>1. 1 .. k \in SUBSET (1 .. n) /\ 1 .. k # {}
    BY <1>1, LargestPicks
  <2>2. Max(1 .. k) = k /\ (1 .. k) \ {k} = 1 .. k - 1
    BY <1>1, LargestPicks
  <2>3. QED BY <1>1, <2>1, <2>2 DEF KeptOver
<1>3. h[1 .. 0] = << >>
  BY <1>1 DEF KeptOver
<1>4. QED BY <1>2, <1>3 DEF n

\* One event more.
LEMMA EventsOnAppend ==
    ASSUME NEW events \in Seq(Event), NEW e \in Event, NEW d
    PROVE  EventsOn(d, Append(events, e)) = Kept(EventsOn(d, events), e, d)
<1> DEFINE more == Append(events, e)
           n == Len(events)
           h == CHOOSE k : KeptOver(k, events, d)
           g == CHOOSE k : KeptOver(k, more, d)
           B == { k \in Nat : k <= n /\ h[1 .. k] # g[1 .. k] }
<1>1. /\ n \in Nat /\ more \in Seq(Event) /\ Len(more) = n + 1 /\ more[n + 1] = e
      /\ DOMAIN events = 1 .. n /\ DOMAIN more = 1 .. n + 1
      /\ \A k \in 1 .. n : more[k] = events[k]
  OBVIOUS
<1>2. KeptOver(h, events, d)
  BY KeptExists
<1>3. KeptOver(g, more, d)
  BY <1>1, KeptExists
<1>4. EventsOn(d, events) = h[1 .. n] /\ EventsOn(d, more) = g[1 .. n + 1]
  BY <1>1, EventsChosen
<1> HIDE DEF h, g, n, more
<1>5. h[1 .. 0] = << >> /\ \A k \in 1 .. n : h[1 .. k] = Kept(h[1 .. k - 1], events[k], d)
  BY <1>2, KeptChain DEF n
<1>6. g[1 .. 0] = << >> /\ \A k \in 1 .. n + 1 : g[1 .. k] = Kept(g[1 .. k - 1], more[k], d)
  BY <1>1, <1>3, KeptChain
<1>7. ASSUME B # {} PROVE FALSE
  <2>1. Numbers(B)
    BY DEF Numbers
  <2> HIDE DEF B
  <2>2. PICK k \in B : \A x \in B : k <= x
    BY <1>7, <2>1, LeastNumber
  <2> USE DEF B
  <2>3. k \in 1 .. n
    BY <1>1, <1>5, <1>6
  <2>4. k - 1 \in Nat /\ k - 1 <= n /\ ~ k <= k - 1
    BY <1>1, <2>3
  <2>5. h[1 .. k - 1] = g[1 .. k - 1]
    BY <2>2, <2>4
  <2>6. k \in 1 .. n + 1
    BY <1>1, <2>3
  <2>7. h[1 .. k] = g[1 .. k]
    BY <1>1, <1>5, <1>6, <2>3, <2>5, <2>6
  <2>8. QED BY <2>7
<1>8. h[1 .. n] = g[1 .. n]
  BY <1>1, <1>7
<1>9. n + 1 \in 1 .. n + 1 /\ (n + 1) - 1 = n
  BY <1>1
<1>10. g[1 .. n + 1] = Kept(g[1 .. n], e, d)
  BY <1>1, <1>6, <1>9
<1>11. QED BY <1>4, <1>8, <1>10 DEF more

\* The events of a day are events.
LEMMA EventsOnTyped ==
    ASSUME NEW events \in Seq(Event), NEW d
    PROVE  EventsOn(d, events) \in Seq(Event) /\ EventsOn(d, << >>) = << >>
<1> DEFINE n == Len(events)
           h == CHOOSE k : KeptOver(k, events, d)
           B == { k \in Nat : k <= n /\ h[1 .. k] \notin Seq(Event) }
<1>1. n \in Nat /\ DOMAIN events = 1 .. n /\ \A k \in 1 .. n : events[k] \in Event
  OBVIOUS
<1>2. KeptOver(h, events, d)
  BY KeptExists
<1>3. EventsOn(d, events) = h[1 .. n]
  BY <1>1, EventsChosen
<1> HIDE DEF h
<1>4. h[1 .. 0] = << >> /\ \A k \in 1 .. n : h[1 .. k] = Kept(h[1 .. k - 1], events[k], d)
  BY <1>2, KeptChain
<1> HIDE DEF n
<1>5. ASSUME B # {} PROVE FALSE
  <2>1. Numbers(B)
    BY DEF Numbers
  <2> HIDE DEF B
  <2>2. PICK k \in B : \A x \in B : k <= x
    BY <1>5, <2>1, LeastNumber
  <2> USE DEF B
  <2>3. k \in 1 .. n
    <3>1. k # 0
      <4>1. << >> \in Seq(Event)
        OBVIOUS
      <4>2. QED BY <1>4, <4>1
    <3>2. QED BY <1>1, <3>1
  <2>4. k - 1 \in Nat /\ k - 1 <= n /\ ~ k <= k - 1
    BY <1>1, <2>3
  <2>5. h[1 .. k - 1] \in Seq(Event)
    BY <2>2, <2>4
  <2>6. h[1 .. k] = Kept(h[1 .. k - 1], events[k], d)
    BY <1>4, <2>3
  <2>7. h[1 .. k] \in Seq(Event)
    BY <1>1, <2>3, <2>5, <2>6 DEF Kept
  <2>8. QED BY <2>7
<1>6. EventsOn(d, events) \in Seq(Event)
  BY <1>1, <1>3, <1>5
<1>7. EventsOn(d, << >>) = << >>
  <2> DEFINE none == << >>
  <2>1. none \in Seq(Event) /\ Len(none) = 0 /\ DOMAIN none = 1 .. 0
    OBVIOUS
  <2> HIDE DEF none
  <2>2. PICK k : KeptOver(k, none, d) /\ EventsOn(d, none) = k[1 .. 0]
    BY <2>1, EventsChosen, KeptExists
  <2>3. k[1 .. 0] = << >>
    BY <2>1, <2>2, KeptChain
  <2>4. QED BY <2>2, <2>3 DEF none
<1>8. QED BY <1>6, <1>7

-----------------------------------------------------------------------------
(* The sessions of a day.                                                  *)

\* The sessions of a day, before and after its events.
NoSessions == [sessions |-> << >>, inSession |-> FALSE]
Day(events) == FoldLeft(Step, NoSessions, events)

\* The current session is the last one, and open.
Accs == { acc \in [sessions : Seq(Session), inSession : BOOLEAN] :
            acc.inSession => /\ Len(acc.sessions) # 0
                             /\ acc.sessions[Len(acc.sessions)].clockOut = NoTime }

\* The breaks that have not ended.
OpenBreaks(breaks) == { i \in 1 .. Len(breaks) : breaks[i].end = NoTime }

\* What a step does, event by event.
LEMMA FirstOpen ==
    ASSUME NEW breaks \in Seq(Break)
    PROVE  /\ OpenBreaks(breaks) = {} => SelectInSeq(breaks, LAMBDA b : b.end = NoTime) = 0
           /\ OpenBreaks(breaks) # {} =>
                SelectInSeq(breaks, LAMBDA b : b.end = NoTime) \in OpenBreaks(breaks)
<1>1. Numbers(OpenBreaks(breaks))
  BY DEF Numbers, OpenBreaks
<1>2. SelectInSeq(breaks, LAMBDA b : b.end = NoTime)
        = IF OpenBreaks(breaks) # {} THEN Min(OpenBreaks(breaks)) ELSE 0
  BY DEF SelectInSeq, OpenBreaks
<1>3. OpenBreaks(breaks) # {} => Min(OpenBreaks(breaks)) \in OpenBreaks(breaks)
  BY <1>1, MinPicks
<1>4. QED BY <1>2, <1>3

\* The sessions with the breaks of the last one changed.
Rebreak(sessions, breaks) == [sessions EXCEPT ![Len(sessions)].breaks = breaks]
ClosedAt(sessions, t) == [sessions EXCEPT ![Len(sessions)].clockOut = t]
FirstBreak(breaks) == SelectInSeq(breaks, LAMBDA b : b.end = NoTime)

\* What Step does to the accumulated sessions, one case per kind of event.
LEMMA StepOf ==
    ASSUME NEW acc \in Accs, NEW e \in Event
    PROVE  LET s == acc.sessions
               breaks == s[Len(s)].breaks
           IN  /\ e.action = "CLOCK_IN" =>
                    Step(acc, e) = [sessions |-> Opened(s, e.time), inSession |-> TRUE]
               /\ e.action = "CLOCK_OUT" /\ acc.inSession =>
                    Step(acc, e) = [sessions |-> ClosedAt(s, e.time), inSession |-> FALSE]
               /\ e.action = "BREAK_START" /\ acc.inSession =>
                    Step(acc, e) = [sessions |-> Rebreak(s, Append(breaks, [start |-> e.time, end |-> NoTime])),
                                    inSession |-> TRUE]
               /\ e.action = "BREAK_END" /\ acc.inSession /\ FirstBreak(breaks) # 0 =>
                    Step(acc, e) = [sessions |-> Rebreak(s, [breaks EXCEPT ![FirstBreak(breaks)].end = e.time]),
                                    inSession |-> TRUE]
               /\ e.action = "BREAK_END" /\ acc.inSession /\ FirstBreak(breaks) = 0 => Step(acc, e) = acc
               /\ e.action # "CLOCK_IN" /\ ~ acc.inSession => Step(acc, e) = acc
<1>1. acc = [sessions |-> acc.sessions, inSession |-> acc.inSession] /\ acc.inSession \in BOOLEAN
  BY DEF Accs
<1>2. e.action = "CLOCK_IN" => Step(acc, e) = [sessions |-> Opened(acc.sessions, e.time), inSession |-> TRUE]
  BY DEF Step
<1>3. e.action = "CLOCK_OUT" /\ acc.inSession =>
        Step(acc, e) = [sessions |-> ClosedAt(acc.sessions, e.time), inSession |-> FALSE]
  BY <1>1 DEF Step, ClosedAt
<1>4. e.action = "BREAK_START" /\ acc.inSession =>
        Step(acc, e) = [sessions |-> Rebreak(acc.sessions, Append(acc.sessions[Len(acc.sessions)].breaks,
                                                                  [start |-> e.time, end |-> NoTime])),
                        inSession |-> TRUE]
  BY <1>1 DEF Step, Rebreak
<1>5. ASSUME e.action = "BREAK_END", acc.inSession
      PROVE  LET breaks == acc.sessions[Len(acc.sessions)].breaks
             IN  Step(acc, e) = IF FirstBreak(breaks) # 0
                                THEN [acc EXCEPT !.sessions[Len(acc.sessions)].breaks
                                                   = [breaks EXCEPT ![FirstBreak(breaks)].end = e.time]]
                                ELSE acc
  BY <1>1, <1>5 DEF Step, FirstBreak, SelectInSeq
<1>6. e.action # "CLOCK_IN" /\ ~ acc.inSession => Step(acc, e) = acc
  BY <1>1 DEF Step
<1>7. \A x : [acc EXCEPT !.sessions[Len(acc.sessions)].breaks = x]
               = [sessions |-> Rebreak(acc.sessions, x), inSession |-> acc.inSession]
  BY <1>1 DEF Rebreak
<1>8. acc.inSession => acc.inSession = TRUE
  BY <1>1
<1> DEFINE breaks == acc.sessions[Len(acc.sessions)].breaks
           ended == [breaks EXCEPT ![FirstBreak(breaks)].end = e.time]
<1>9. e.action = "BREAK_END" /\ acc.inSession /\ FirstBreak(breaks) # 0 =>
        Step(acc, e) = [sessions |-> Rebreak(acc.sessions, ended), inSession |-> TRUE]
  BY <1>5, <1>7, <1>8
<1>10. e.action = "BREAK_END" /\ acc.inSession /\ FirstBreak(breaks) = 0 => Step(acc, e) = acc
  BY <1>5
<1>11. QED BY <1>2, <1>3, <1>4, <1>6, <1>9, <1>10

\* A changed last session.
LEMMA LastChanged ==
    ASSUME NEW s \in Seq(Session), Len(s) # 0
    PROVE  LET n == Len(s)
           IN  /\ n \in Nat /\ n \in 1 .. n /\ s[n] \in Session
               /\ \A breaks \in Seq(Break) :
                    /\ Rebreak(s, breaks) \in Seq(Session) /\ Len(Rebreak(s, breaks)) = n
                    /\ Rebreak(s, breaks)[n] = [s[n] EXCEPT !.breaks = breaks]
                    /\ \A i \in 1 .. n : i # n => Rebreak(s, breaks)[i] = s[i]
               /\ \A t \in Nat :
                    /\ ClosedAt(s, t) \in Seq(Session) /\ Len(ClosedAt(s, t)) = n
                    /\ ClosedAt(s, t)[n] = [s[n] EXCEPT !.clockOut = t]
                    /\ \A i \in 1 .. n : i # n => ClosedAt(s, t)[i] = s[i]
<1> DEFINE n == Len(s)
<1>1. n \in Nat /\ n \in 1 .. n /\ s[n] \in Session /\ DOMAIN s = 1 .. n
  OBVIOUS
<1>2. ASSUME NEW breaks \in Seq(Break)
      PROVE  /\ Rebreak(s, breaks) \in Seq(Session) /\ Len(Rebreak(s, breaks)) = n
             /\ Rebreak(s, breaks)[n] = [s[n] EXCEPT !.breaks = breaks]
             /\ \A i \in 1 .. n : i # n => Rebreak(s, breaks)[i] = s[i]
  <2>1. Rebreak(s, breaks) = [s EXCEPT ![n] = [s[n] EXCEPT !.breaks = breaks]]
    BY DEF Rebreak
  <2>2. [s[n] EXCEPT !.breaks = breaks] \in Session
    BY <1>1 DEF Session
  <2> DEFINE x == [s[n] EXCEPT !.breaks = breaks]
  <2> HIDE DEF x
  <2>3. [s EXCEPT ![n] = x] \in Seq(Session) /\ Len([s EXCEPT ![n] = x]) = n
        /\ [s EXCEPT ![n] = x][n] = x /\ \A i \in 1 .. n : i # n => [s EXCEPT ![n] = x][i] = s[i]
    BY <1>1, <2>2 DEF x
  <2>4. QED BY <2>1, <2>3 DEF x
<1>3. ASSUME NEW t \in Nat
      PROVE  /\ ClosedAt(s, t) \in Seq(Session) /\ Len(ClosedAt(s, t)) = n
             /\ ClosedAt(s, t)[n] = [s[n] EXCEPT !.clockOut = t]
             /\ \A i \in 1 .. n : i # n => ClosedAt(s, t)[i] = s[i]
  <2>1. ClosedAt(s, t) = [s EXCEPT ![n] = [s[n] EXCEPT !.clockOut = t]]
    BY DEF ClosedAt
  <2>2. [s[n] EXCEPT !.clockOut = t] \in Session
    BY <1>1 DEF Session
  <2> DEFINE x == [s[n] EXCEPT !.clockOut = t]
  <2> HIDE DEF x
  <2>3. [s EXCEPT ![n] = x] \in Seq(Session) /\ Len([s EXCEPT ![n] = x]) = n
        /\ [s EXCEPT ![n] = x][n] = x /\ \A i \in 1 .. n : i # n => [s EXCEPT ![n] = x][i] = s[i]
    BY <1>1, <2>2 DEF x
  <2>4. QED BY <2>1, <2>3 DEF x
<1>4. QED BY <1>1, <1>2, <1>3

\* Breaks begun and ended.
LEMMA BreaksTyped ==
    ASSUME NEW breaks \in Seq(Break), NEW t \in Nat
    PROVE  /\ Append(breaks, [start |-> t, end |-> NoTime]) \in Seq(Break)
           /\ FirstBreak(breaks) # 0 => [breaks EXCEPT ![FirstBreak(breaks)].end = t] \in Seq(Break)
<1>1. [start |-> t, end |-> NoTime] \in Break
  BY DEF Break
<1>2. ASSUME FirstBreak(breaks) # 0 PROVE [breaks EXCEPT ![FirstBreak(breaks)].end = t] \in Seq(Break)
  <2> DEFINE i == FirstBreak(breaks)
  <2>1. i \in 1 .. Len(breaks)
    BY <1>2, FirstOpen DEF FirstBreak, OpenBreaks
  <2> HIDE DEF i
  <2>2. [breaks[i] EXCEPT !.end = t] \in Break
    <3>1. breaks[i] \in Break
      BY <2>1
    <3> DEFINE b == breaks[i]
    <3>2. b \in Break
      BY <3>1
    <3> HIDE DEF b
    <3>3. [b EXCEPT !.end = t] \in Break
      BY <3>2 DEF Break
    <3>4. QED BY <3>3 DEF b
  <2>3. [breaks EXCEPT ![i].end = t] \in Seq(Break)
    BY <2>1, <2>2
  <2>4. QED BY <2>3 DEF i
<1>3. QED BY <1>1, <1>2

\* One event more keeps the shape of what is accumulated.
LEMMA StepTyped ==
    ASSUME NEW acc \in Accs, NEW e \in Event
    PROVE  Step(acc, e) \in Accs
<1> DEFINE s == acc.sessions
           n == Len(s)
<1>1. /\ s \in Seq(Session) /\ e.time \in Nat /\ e.action \in Actions
      /\ acc.inSession => n # 0 /\ s[n].clockOut = NoTime
  BY DEF Accs, Event
<1>2. \A q \in Seq(Session) : [sessions |-> q, inSession |-> FALSE] \in Accs
  BY DEF Accs
<1>3. \A q \in Seq(Session) : Len(q) # 0 /\ q[Len(q)].clockOut = NoTime =>
        [sessions |-> q, inSession |-> TRUE] \in Accs
  BY DEF Accs
<1>4. CASE e.action = "CLOCK_IN"
  <2> DEFINE x == [clockIn |-> e.time, clockOut |-> NoTime, breaks |-> << >>]
             q == Append(s, x)
  <2>1. x \in Session /\ x.clockOut = NoTime
    BY <1>1 DEF Session
  <2> HIDE DEF x
  <2>2. q \in Seq(Session) /\ Len(q) # 0 /\ q[Len(q)] = x
    BY <1>1, <2>1
  <2>3. Opened(s, e.time) = q
    BY DEF Opened, x
  <2> HIDE DEF q
  <2>4. Step(acc, e) = [sessions |-> q, inSession |-> TRUE]
    BY <1>4, <2>3, StepOf
  <2>5. QED BY <1>3, <2>1, <2>2, <2>4
<1>5. CASE e.action = "CLOCK_OUT" /\ acc.inSession
  <2>1. ClosedAt(s, e.time) \in Seq(Session)
    BY <1>1, <1>5, LastChanged
  <2>2. Step(acc, e) = [sessions |-> ClosedAt(s, e.time), inSession |-> FALSE]
    BY <1>5, StepOf
  <2>3. QED BY <1>2, <2>1, <2>2
<1>6. ASSUME acc.inSession, NEW breaks \in Seq(Break)
      PROVE  [sessions |-> Rebreak(s, breaks), inSession |-> TRUE] \in Accs
  <2>1. /\ Rebreak(s, breaks) \in Seq(Session) /\ Len(Rebreak(s, breaks)) = n
        /\ Rebreak(s, breaks)[n] = [s[n] EXCEPT !.breaks = breaks] /\ s[n] \in Session
    BY <1>1, <1>6, LastChanged
  <2>2. [s[n] EXCEPT !.breaks = breaks].clockOut = NoTime
    BY <1>1, <1>6, <2>1 DEF Session
  <2> HIDE DEF s
  <2>3. QED BY <1>1, <1>3, <1>6, <2>1, <2>2
<1>7. acc.inSession => s[n].breaks \in Seq(Break)
  <2>1. acc.inSession => s[n] \in Session
    BY <1>1
  <2>2. QED BY <2>1 DEF Session
<1>8. CASE e.action = "BREAK_START" /\ acc.inSession
  <2> DEFINE breaks == Append(s[n].breaks, [start |-> e.time, end |-> NoTime])
  <2>1. breaks \in Seq(Break)
    BY <1>1, <1>7, <1>8, BreaksTyped
  <2>2. Step(acc, e) = [sessions |-> Rebreak(s, breaks), inSession |-> TRUE]
    BY <1>8, StepOf
  <2> HIDE DEF breaks, s
  <2>3. QED BY <1>6, <1>8, <2>1, <2>2
<1>9. CASE e.action = "BREAK_END" /\ acc.inSession /\ FirstBreak(s[n].breaks) # 0
  <2> DEFINE breaks == [s[n].breaks EXCEPT ![FirstBreak(s[n].breaks)].end = e.time]
  <2>1. breaks \in Seq(Break)
    BY <1>1, <1>7, <1>9, BreaksTyped
  <2>2. Step(acc, e) = [sessions |-> Rebreak(s, breaks), inSession |-> TRUE]
    BY <1>9, StepOf
  <2> HIDE DEF breaks, s
  <2>3. QED BY <1>6, <1>9, <2>1, <2>2
<1>10. CASE \/ e.action = "BREAK_END" /\ acc.inSession /\ FirstBreak(s[n].breaks) = 0
            \/ e.action # "CLOCK_IN" /\ ~ acc.inSession
  BY <1>10, StepOf
<1>11. QED BY <1>1, <1>4, <1>5, <1>8, <1>9, <1>10 DEF Actions

\* The fold over a day begins with no session.
LEMMA NoneYet == NoSessions \in Accs
<1>1. << >> \in Seq(Session)
  OBVIOUS
<1>2. QED BY <1>1 DEF NoSessions, Accs

DaysOver(h, events) ==
    h = [U \in SUBSET DOMAIN events |->
           IF U = {} THEN NoSessions ELSE Step(h[U \ {Max(U)}], events[Max(U)])]

\* The sessions of a day are the fold of Step over its events.
LEMMA DayChosen ==
    ASSUME NEW events
    PROVE  Day(events) = (CHOOSE h : DaysOver(h, events))[DOMAIN events]
BY DEF Day, FoldLeft, MapThenFoldSet, DaysOver

\* That fold has a value for every sequence of events.
LEMMA DayExists ==
    ASSUME NEW events \in Seq(Event)
    PROVE  \E h : DaysOver(h, events)
<1> DEFINE n == Len(events)
           A == Accs
           step == [i \in 1 .. n |-> [a \in A |-> Step(a, events[i])]]
<1>1. n \in Nat /\ DOMAIN events = 1 .. n /\ \A i \in 1 .. n : events[i] \in Event
  OBVIOUS
<1>2. \A i \in 1 .. n, a \in A : step[i][a] = Step(a, events[i]) /\ step[i][a] \in A
  BY StepTyped, <1>1
<1>3. NoSessions \in A /\ Stays(step, n, A)
  BY <1>2, NoneYet DEF Stays
<1> HIDE DEF n, A, step
<1>4. PICK h : LeftFolds(h, n, NoSessions, step) /\ AllIn(h, n, A)
  BY <1>1, <1>3, LeftFold
<1>5. ASSUME NEW U \in SUBSET (1 .. n), U # {}
      PROVE  step[Max(U)][h[U \ {Max(U)}]] = Step(h[U \ {Max(U)}], events[Max(U)])
  <2>1. Max(U) \in 1 .. n
    BY <1>1, <1>5, LargestPicks
  <2>2. h[U \ {Max(U)}] \in A
    BY <1>4 DEF AllIn
  <2>3. QED BY <1>2, <2>1, <2>2
<1>6. h = [U \in SUBSET (1 .. n) |->
             IF U = {} THEN NoSessions ELSE Step(h[U \ {Max(U)}], events[Max(U)])]
  BY <1>4, <1>5 DEF LeftFolds
<1>7. QED BY <1>1, <1>6 DEF DaysOver

\* The value the recursion has on a prefix.
LEMMA DayChain ==
    ASSUME NEW events \in Seq(Event), NEW h, DaysOver(h, events)
    PROVE  /\ h[1 .. 0] = NoSessions
           /\ \A k \in 1 .. Len(events) : h[1 .. k] = Step(h[1 .. k - 1], events[k])
<1> DEFINE n == Len(events)
<1>1. n \in Nat /\ DOMAIN events = 1 .. n /\ 1 .. 0 = {}
  OBVIOUS
<1> HIDE DEF n
<1>2. ASSUME NEW k \in 1 .. n
      PROVE  h[1 .. k] = Step(h[1 .. k - 1], events[k])
  <2>1. 1 .. k \in SUBSET (1 .. n) /\ 1 .. k # {}
    BY <1>1, LargestPicks
  <2>2. Max(1 .. k) = k /\ (1 .. k) \ {k} = 1 .. k - 1
    BY <1>1, LargestPicks
  <2>3. QED BY <1>1, <2>1, <2>2 DEF DaysOver
<1>3. h[1 .. 0] = NoSessions
  BY <1>1 DEF DaysOver
<1>4. QED BY <1>2, <1>3 DEF n

\* One event more.
LEMMA DayAppend ==
    ASSUME NEW events \in Seq(Event), NEW e \in Event
    PROVE  Day(Append(events, e)) = Step(Day(events), e)
<1> DEFINE more == Append(events, e)
           n == Len(events)
           h == CHOOSE k : DaysOver(k, events)
           g == CHOOSE k : DaysOver(k, more)
           B == { k \in Nat : k <= n /\ h[1 .. k] # g[1 .. k] }
<1>1. /\ n \in Nat /\ more \in Seq(Event) /\ Len(more) = n + 1 /\ more[n + 1] = e
      /\ DOMAIN events = 1 .. n /\ DOMAIN more = 1 .. n + 1
      /\ \A k \in 1 .. n : more[k] = events[k]
  OBVIOUS
<1>2. DaysOver(h, events)
  BY DayExists
<1>3. DaysOver(g, more)
  BY <1>1, DayExists
<1>4. Day(events) = h[1 .. n] /\ Day(more) = g[1 .. n + 1]
  BY <1>1, DayChosen
<1> HIDE DEF h, g, n, more
<1>5. h[1 .. 0] = NoSessions /\ \A k \in 1 .. n : h[1 .. k] = Step(h[1 .. k - 1], events[k])
  BY <1>2, DayChain DEF n
<1>6. g[1 .. 0] = NoSessions /\ \A k \in 1 .. n + 1 : g[1 .. k] = Step(g[1 .. k - 1], more[k])
  BY <1>1, <1>3, DayChain
<1>7. ASSUME B # {} PROVE FALSE
  <2>1. Numbers(B)
    BY DEF Numbers
  <2> HIDE DEF B
  <2>2. PICK k \in B : \A x \in B : k <= x
    BY <1>7, <2>1, LeastNumber
  <2> USE DEF B
  <2>3. k \in 1 .. n
    BY <1>1, <1>5, <1>6
  <2>4. k - 1 \in Nat /\ k - 1 <= n /\ ~ k <= k - 1
    BY <1>1, <2>3
  <2>5. h[1 .. k - 1] = g[1 .. k - 1]
    BY <2>2, <2>4
  <2>6. k \in 1 .. n + 1
    BY <1>1, <2>3
  <2>7. h[1 .. k] = g[1 .. k]
    BY <1>1, <1>5, <1>6, <2>3, <2>5, <2>6
  <2>8. QED BY <2>7
<1>8. h[1 .. n] = g[1 .. n]
  BY <1>1, <1>7
<1>9. n + 1 \in 1 .. n + 1 /\ (n + 1) - 1 = n
  BY <1>1
<1>10. g[1 .. n + 1] = Step(g[1 .. n], e)
  BY <1>1, <1>6, <1>9
<1>11. QED BY <1>4, <1>8, <1>10 DEF more

\* What is accumulated over a day.
LEMMA DayTyped ==
    ASSUME NEW events \in Seq(Event)
    PROVE  Day(events) \in Accs /\ Day(<< >>) = NoSessions
<1> DEFINE n == Len(events)
           h == CHOOSE k : DaysOver(k, events)
           B == { k \in Nat : k <= n /\ h[1 .. k] \notin Accs }
<1>1. n \in Nat /\ DOMAIN events = 1 .. n /\ \A k \in 1 .. n : events[k] \in Event
  OBVIOUS
<1>2. DaysOver(h, events)
  BY DayExists
<1>3. Day(events) = h[1 .. n]
  BY <1>1, DayChosen
<1> HIDE DEF h
<1>4. h[1 .. 0] = NoSessions /\ \A k \in 1 .. n : h[1 .. k] = Step(h[1 .. k - 1], events[k])
  BY <1>2, DayChain
<1> HIDE DEF n
<1>5. ASSUME B # {} PROVE FALSE
  <2>1. Numbers(B)
    BY DEF Numbers
  <2> HIDE DEF B
  <2>2. PICK k \in B : \A x \in B : k <= x
    BY <1>5, <2>1, LeastNumber
  <2> USE DEF B
  <2>3. k \in 1 .. n
    <3>1. k # 0
      BY <1>4, NoneYet
    <3>2. QED BY <1>1, <3>1
  <2>4. k - 1 \in Nat /\ k - 1 <= n /\ ~ k <= k - 1
    BY <1>1, <2>3
  <2>5. h[1 .. k - 1] \in Accs
    BY <2>2, <2>4
  <2>6. h[1 .. k] = Step(h[1 .. k - 1], events[k])
    BY <1>4, <2>3
  <2>7. h[1 .. k] \in Accs
    BY <1>1, <2>3, <2>5, <2>6, StepTyped
  <2>8. QED BY <2>7
<1>6. Day(events) \in Accs
  BY <1>1, <1>3, <1>5
<1>7. Day(<< >>) = NoSessions
  <2> DEFINE none == << >>
  <2>1. none \in Seq(Event) /\ Len(none) = 0 /\ DOMAIN none = 1 .. 0
    OBVIOUS
  <2> HIDE DEF none
  <2>2. PICK k : DaysOver(k, none) /\ Day(none) = k[1 .. 0]
    BY <2>1, DayChosen, DayExists
  <2>3. k[1 .. 0] = NoSessions
    BY <2>1, <2>2, DayChain
  <2>4. QED BY <2>2, <2>3 DEF none
<1>8. QED BY <1>6, <1>7

-----------------------------------------------------------------------------
(* The inductive invariant.                                                *)

\* The sessions that have ended; their rounded minutes and their slots.
Ends(sessions)   == { i \in DOMAIN sessions : sessions[i].clockOut # NoTime }
SlotsOf(session) == session.clockOut - session.clockIn - BreakSlots(session)
Minutes(sessions) == Sum(LAMBDA i : WorkedMinutes(sessions[i]), Ends(sessions))
Slots(sessions)   == Sum(LAMBDA i : SlotsOf(sessions[i]), Ends(sessions))

\* The sessions of a day that have ended, all but the current one.
Done(acc) == IF acc.inSession THEN Len(acc.sessions) - 1 ELSE Len(acc.sessions)

\* Their minutes are their slots, up to half a minute each.
Tallied(acc) ==
    LET off == 60 * Minutes(acc.sessions) - SlotSeconds * Slots(acc.sessions)
    IN  /\ \A i \in 1 .. Done(acc) : acc.sessions[i].clockOut # NoTime
        /\ Minutes(acc.sessions) >= 0
        /\ -30 * Done(acc) <= off /\ off <= 30 * Done(acc)

\* The current session.
Open(acc) == acc.sessions[Len(acc.sessions)]

\* The slots worked in the current session up to event e.
Worked(acc, e) == e.time - Open(acc).clockIn - BreakSlots(Open(acc))

\* The current session when e was the last event.
Busy(acc, e) ==
    /\ Worked(acc, e) >= 0
    /\ \/ e.action \in {"CLOCK_IN", "BREAK_END"} /\ OpenBreaks(Open(acc).breaks) = {}
       \/ /\ e.action = "BREAK_START"
          /\ OpenBreaks(Open(acc).breaks) = {Len(Open(acc).breaks)}
          /\ Open(acc).breaks[Len(Open(acc).breaks)].start = e.time

\* A current session is that of the last event, or was left on an earlier day.
Current(acc, d, events) ==
    acc.inSession => /\ events # << >>
                     /\ d <= DayOf(Last(events).time)
                     /\ d = DayOf(Last(events).time) => Busy(acc, Last(events))

\* The stretches of a day, and those of them in sessions that have ended, for a
\* log in which no session crosses midnight.
StretchesOn(events, d) == { i \in DOMAIN events : Working(events, i) /\ DayOf(events[i].time) = d }
RefAll(events, d, t)    == Sum(LAMBDA i : Stretch(events, i, t), StretchesOn(events, d))
RefClosed(events, d, t) ==
    Sum(LAMBDA i : Stretch(events, i, t), { i \in StretchesOn(events, d) : Closed(events, i) })

\* Somebody is clocked in after the log.
ClockedIn(events) == events # << >> /\ Last(events).action # "CLOCK_OUT"

\* The sessions of a day are the stretches of the day.
Exact(acc, d, events) ==
    /\ acc.inSession <=> ClockedIn(events) /\ d = DayOf(Last(events).time)
    /\ RefClosed(events, d, 0) = Slots(acc.sessions)
    /\ events # << >> =>
         RefAll(events, d, Last(events).time)
           = Slots(acc.sessions) + IF acc.inSession THEN Worked(acc, Last(events)) ELSE 0

\* No session of the log crosses midnight.
Crossless(events) ==
    \A i \in DOMAIN events :
        DayOf(IF Ended(events, i) /\ events[i].action # "CLOCK_OUT" THEN events[i + 1].time
              ELSE events[i].time)
          = DayOf(events[i].time)

\* A day and the log.
DayInv(d, events) ==
    LET acc == Day(EventsOn(d, events))
    IN  /\ Tallied(acc)
        /\ Current(acc, d, events)
        /\ Len(acc.sessions) = ClockIns(events, d)
        /\ Crossless(events) => Exact(acc, d, events)

\* A stretch belongs to the day it is on.
OfDay(events) ==
    \A i \in DOMAIN events : events[i].action # "CLOCK_OUT" =>
        /\ \E j \in 1 .. i : events[j].action = "CLOCK_IN"
        /\ DayOf(events[ClockInOf(events, i)].time) = DayOf(events[i].time)

\* The last event was no loss.
LastPays(events) ==
    events # << >> =>
        \A d \in 0 .. Days - 1 : Minutes(Sessions(EventsOn(d, Front(events))))
                                   <= Minutes(Sessions(EventsOn(d, events)))

\* The state, without what is computed from it.
Shape ==
    /\ now \in 0 .. MaxTime /\ leave \in 0 .. MaxLeave /\ salary \in Histories
    /\ log \in Seq(Event)
    /\ \A i \in DOMAIN log : log[i].time <= now

\* The inductive invariant.
MonthInv ==
    /\ Shape
    /\ Crossless(log) => OfDay(log)
    /\ \A d \in 0 .. Days - 1 : DayInv(d, log)
    /\ LastPays(log)

-----------------------------------------------------------------------------
(* Totals over the sessions that have ended, for any measure of a session. *)

\* A measure gives every ended session a number.
Finished == { s \in Session : s.clockOut # NoTime }
Measure(m) == \A s \in Finished : m[s] \in Int
Totals(m, sessions) == SumFunctionOnSet([i \in Ends(sessions) |-> m[sessions[i]]], Ends(sessions))

\* The sessions of a day that have ended.
LEMMA EndsTyped ==
    ASSUME NEW ss \in Seq(Session)
    PROVE  /\ IsFiniteSet(Ends(ss)) /\ Ends(ss) \subseteq 1 .. Len(ss)
           /\ \A i \in Ends(ss) : ss[i] \in Finished
<1>1. Len(ss) \in Nat /\ DOMAIN ss = 1 .. Len(ss) /\ \A i \in 1 .. Len(ss) : ss[i] \in Session
  OBVIOUS
<1>2. Ends(ss) \subseteq 1 .. Len(ss)
  BY <1>1 DEF Ends
<1>3. IsFiniteSet(1 .. Len(ss))
  BY <1>1, FS_Interval
<1>4. IsFiniteSet(Ends(ss))
  BY <1>2, <1>3, FS_Subset
<1>5. \A i \in Ends(ss) : ss[i] \in Finished
  BY <1>1 DEF Ends, Finished
<1>6. QED BY <1>2, <1>4, <1>5

\* The total of any measure over them is a number.
LEMMA TotalsTyped ==
    ASSUME NEW ss \in Seq(Session), NEW m, Measure(m)
    PROVE  Totals(m, ss) \in Int
<1> DEFINE S == Ends(ss)
           f == [i \in S |-> m[ss[i]]]
<1>1. IsFiniteSet(S) /\ \A i \in S : f[i] \in Int
  BY EndsTyped DEF Measure
<1> HIDE DEF S, f
<1>2. SumFunctionOnSet(f, S) \in Int
  BY <1>1, SumFirst
<1>3. QED BY <1>2 DEF Totals, S, f

\* The same ended sessions.
LEMMA TotalsSame ==
    ASSUME NEW ss \in Seq(Session), NEW tt, NEW m, Measure(m),
           Ends(tt) = Ends(ss), \A i \in Ends(ss) : tt[i] = ss[i]
    PROVE  Totals(m, tt) = Totals(m, ss)
<1> DEFINE S == Ends(ss)
           f == [i \in S |-> m[ss[i]]]
           g == [i \in S |-> m[tt[i]]]
<1>1. IsFiniteSet(S) /\ \A i \in S : f[i] \in Int /\ g[i] = f[i]
  BY EndsTyped DEF Measure
<1>2. Totals(m, tt) = SumFunctionOnSet(g, S) /\ Totals(m, ss) = SumFunctionOnSet(f, S)
  BY DEF Totals
<1> HIDE DEF S, f, g
<1>3. QED BY <1>1, <1>2, SumSame

\* One more.
LEMMA TotalsMore ==
    ASSUME NEW ss \in Seq(Session), NEW tt \in Seq(Session), NEW m, Measure(m), NEW k,
           k \notin Ends(ss), Ends(tt) = Ends(ss) \cup {k}, \A i \in Ends(ss) : tt[i] = ss[i]
    PROVE  Totals(m, tt) = Totals(m, ss) + m[tt[k]] /\ m[tt[k]] \in Int
<1> DEFINE S == Ends(ss)
           T == Ends(tt)
           f == [i \in S |-> m[ss[i]]]
           g == [i \in T |-> m[tt[i]]]
<1>1. IsFiniteSet(T) /\ k \in T /\ \A i \in T : g[i] \in Int
  BY EndsTyped DEF Measure
<1>2. IsFiniteSet(S) /\ T \ {k} = S /\ \A i \in S : f[i] \in Int /\ g[i] = f[i]
  BY EndsTyped DEF Measure
<1>3. Totals(m, tt) = SumFunctionOnSet(g, T) /\ Totals(m, ss) = SumFunctionOnSet(f, S)
  BY DEF Totals
<1>4. g[k] = m[tt[k]]
  BY <1>1
<1> HIDE DEF S, T, f, g
<1>5. SumFunctionOnSet(g, T) = g[k] + SumFunctionOnSet(g, S) /\ SumFunctionOnSet(g, S) \in Int
  BY <1>1, <1>2, SumRemove
<1>6. SumFunctionOnSet(g, S) = SumFunctionOnSet(f, S)
  BY <1>2, SumSame
<1>7. g[k] \in Int
  BY <1>1
<1>8. QED BY <1>3, <1>4, <1>5, <1>6, <1>7

\* What the events of a day do to a total: only a CLOCK_OUT adds to it.
LEMMA TotalsOpened ==
    ASSUME NEW ss \in Seq(Session), NEW t \in Nat, NEW m, Measure(m)
    PROVE  Totals(m, Opened(ss, t)) = Totals(m, ss)
<1> DEFINE x == [clockIn |-> t, clockOut |-> NoTime, breaks |-> << >>]
           n == Len(ss)
           tt == Append(ss, x)
<1>1. x.clockOut = NoTime /\ Opened(ss, t) = tt
  BY DEF Opened
<1> HIDE DEF x
<1>2. n \in Nat /\ DOMAIN ss = 1 .. n /\ DOMAIN tt = 1 .. n + 1 /\ tt[n + 1] = x
      /\ \A i \in 1 .. n : tt[i] = ss[i]
  OBVIOUS
<1> HIDE DEF n, tt
<1>3. Ends(tt) = Ends(ss)
  BY <1>1, <1>2 DEF Ends
<1>4. \A i \in Ends(ss) : tt[i] = ss[i]
  BY <1>2 DEF Ends
<1>5. QED BY <1>1, <1>3, <1>4, TotalsSame

\* A break of the current session that begins or ends.
LEMMA TotalsRebreak ==
    ASSUME NEW ss \in Seq(Session), Len(ss) # 0, ss[Len(ss)].clockOut = NoTime,
           NEW breaks \in Seq(Break), NEW m, Measure(m)
    PROVE  Totals(m, Rebreak(ss, breaks)) = Totals(m, ss)
<1> DEFINE n == Len(ss)
           tt == Rebreak(ss, breaks)
<1>1. /\ n \in Nat /\ n \in 1 .. n /\ ss[n] \in Session
      /\ tt \in Seq(Session) /\ Len(tt) = n /\ tt[n] = [ss[n] EXCEPT !.breaks = breaks]
      /\ \A i \in 1 .. n : i # n => tt[i] = ss[i]
  BY LastChanged
<1>2. tt[n].clockOut = NoTime
  BY <1>1 DEF Session
<1>3. DOMAIN ss = 1 .. n /\ DOMAIN tt = 1 .. n
  <2> HIDE DEF tt
  <2>1. QED BY <1>1
<1> HIDE DEF tt
<1>4. Ends(tt) = Ends(ss)
  BY <1>1, <1>2, <1>3 DEF Ends
<1>5. \A i \in Ends(ss) : tt[i] = ss[i]
  BY <1>1, <1>3 DEF Ends
<1>6. QED BY <1>4, <1>5, TotalsSame DEF tt

\* The current session ends: its measure is added to the total.
LEMMA TotalsClosedAt ==
    ASSUME NEW ss \in Seq(Session), Len(ss) # 0, ss[Len(ss)].clockOut = NoTime,
           NEW t \in Nat, NEW m, Measure(m)
    PROVE  LET last == [ss[Len(ss)] EXCEPT !.clockOut = t]
           IN  Totals(m, ClosedAt(ss, t)) = Totals(m, ss) + m[last] /\ m[last] \in Int
<1> DEFINE n == Len(ss)
           tt == ClosedAt(ss, t)
<1>1. /\ n \in Nat /\ n \in 1 .. n /\ ss[n] \in Session
      /\ tt \in Seq(Session) /\ Len(tt) = n /\ tt[n] = [ss[n] EXCEPT !.clockOut = t]
      /\ \A i \in 1 .. n : i # n => tt[i] = ss[i]
  BY LastChanged
<1>2. tt[n].clockOut # NoTime
  BY <1>1 DEF Session, NoTime
<1>3. DOMAIN ss = 1 .. n /\ DOMAIN tt = 1 .. n
  <2> HIDE DEF tt
  <2>1. QED BY <1>1
<1> HIDE DEF tt
<1>4. n \notin Ends(ss) /\ Ends(tt) = Ends(ss) \cup {n}
  BY <1>1, <1>2, <1>3 DEF Ends
<1>5. \A i \in Ends(ss) : tt[i] = ss[i]
  BY <1>1, <1>3 DEF Ends
<1>6. Totals(m, tt) = Totals(m, ss) + m[tt[n]] /\ m[tt[n]] \in Int
  BY <1>1, <1>4, <1>5, TotalsMore
<1>7. QED BY <1>1, <1>6 DEF tt

-----------------------------------------------------------------------------
(* Breaks.                                                                 *)

\* The breaks that have ended, with their lengths.
BreakEnds(breaks) == { i \in DOMAIN breaks : breaks[i].end # NoTime }
Lengths(breaks) == [i \in BreakEnds(breaks) |-> breaks[i].end - breaks[i].start]

\* The breaks of a session that have ended.
LEMMA BreaksEnded ==
    ASSUME NEW breaks \in Seq(Break)
    PROVE  /\ IsFiniteSet(BreakEnds(breaks)) /\ BreakEnds(breaks) \subseteq 1 .. Len(breaks)
           /\ \A i \in BreakEnds(breaks) : Lengths(breaks)[i] \in Int
           /\ SumFunctionOnSet(Lengths(breaks), BreakEnds(breaks)) \in Int
<1>1. /\ Len(breaks) \in Nat /\ DOMAIN breaks = 1 .. Len(breaks)
      /\ \A i \in 1 .. Len(breaks) : breaks[i] \in Break
  OBVIOUS
<1>2. BreakEnds(breaks) \subseteq 1 .. Len(breaks)
  BY <1>1 DEF BreakEnds
<1>3. IsFiniteSet(BreakEnds(breaks))
  <2>1. IsFiniteSet(1 .. Len(breaks))
    BY <1>1, FS_Interval
  <2>2. QED BY <1>2, <2>1, FS_Subset
<1>4. ASSUME NEW i \in BreakEnds(breaks) PROVE Lengths(breaks)[i] \in Int
  <2> DEFINE b == breaks[i]
  <2>1. b \in Break /\ b.end # NoTime
    BY <1>1, <1>2 DEF BreakEnds
  <2>2. Lengths(breaks)[i] = b.end - b.start
    BY DEF Lengths
  <2> HIDE DEF b
  <2>3. b.start \in Nat /\ b.end \in Nat
    BY <2>1 DEF Break
  <2>4. QED BY <2>2, <2>3
<1>5. SumFunctionOnSet(Lengths(breaks), BreakEnds(breaks)) \in Int
  BY <1>3, <1>4, SumFirst
<1>6. QED BY <1>2, <1>3, <1>4, <1>5

\* BreakSlots is the sum of their lengths.
LEMMA BreakSlotsIs ==
    ASSUME NEW session
    PROVE  BreakSlots(session) = SumFunctionOnSet(Lengths(session.breaks), BreakEnds(session.breaks))
BY DEF BreakSlots, Sum, Lengths, BreakEnds

\* Their total.
BreakTotal(breaks) == SumFunctionOnSet(Lengths(breaks), BreakEnds(breaks))

\* A break that begins.
LEMMA BreakBegun ==
    ASSUME NEW breaks \in Seq(Break), NEW t \in Nat
    PROVE  LET more == Append(breaks, [start |-> t, end |-> NoTime])
           IN  /\ BreakTotal(more) = BreakTotal(breaks)
               /\ OpenBreaks(more) = OpenBreaks(breaks) \cup {Len(more)}
               /\ more[Len(more)].start = t
<1> DEFINE b == [start |-> t, end |-> NoTime]
           n == Len(breaks)
           more == Append(breaks, b)
           S == BreakEnds(breaks)
           f == Lengths(breaks)
           g == Lengths(more)
<1>1. b.end = NoTime /\ b.start = t
  OBVIOUS
<1> HIDE DEF b
<1>2. /\ n \in Nat /\ DOMAIN breaks = 1 .. n /\ DOMAIN more = 1 .. n + 1 /\ more[n + 1] = b
      /\ Len(more) = n + 1 /\ \A i \in 1 .. n : more[i] = breaks[i]
  OBVIOUS
<1> HIDE DEF n, more
<1>3. BreakEnds(more) = S
  BY <1>1, <1>2 DEF BreakEnds
<1>4. IsFiniteSet(S) /\ \A i \in S : f[i] \in Int /\ g[i] = f[i]
  <2>1. \A i \in S : more[i] = breaks[i]
    BY <1>2 DEF BreakEnds
  <2>2. \A i \in S : g[i] = more[i].end - more[i].start
    BY <1>3 DEF Lengths
  <2>3. \A i \in S : f[i] = breaks[i].end - breaks[i].start
    BY DEF Lengths
  <2>4. IsFiniteSet(S) /\ \A i \in S : f[i] \in Int
    BY BreaksEnded
  <2>5. QED BY <2>1, <2>2, <2>3, <2>4
<1>5. BreakTotal(more) = BreakTotal(breaks)
  <2>1. BreakTotal(more) = SumFunctionOnSet(g, S) /\ BreakTotal(breaks) = SumFunctionOnSet(f, S)
    BY <1>3 DEF BreakTotal
  <2> HIDE DEF f, g, S
  <2>2. QED BY <1>4, <2>1, SumSame
<1>6. OpenBreaks(more) = OpenBreaks(breaks) \cup {n + 1}
  BY <1>1, <1>2 DEF OpenBreaks, n
<1>7. QED BY <1>1, <1>2, <1>5, <1>6 DEF more, b

\* The only open break ends.
LEMMA BreakDone ==
    ASSUME NEW breaks \in Seq(Break), NEW t \in Nat, NEW k, OpenBreaks(breaks) = {k}
    PROVE  LET ended == [breaks EXCEPT ![k].end = t]
           IN  /\ BreakTotal(ended) = BreakTotal(breaks) + (t - breaks[k].start)
               /\ OpenBreaks(ended) = {}
               /\ FirstBreak(breaks) = k /\ k # 0
<1> DEFINE n == Len(breaks)
           ended == [breaks EXCEPT ![k].end = t]
           S == BreakEnds(breaks)
           T == BreakEnds(ended)
           f == Lengths(breaks)
           g == Lengths(ended)
<1>1. /\ n \in Nat /\ DOMAIN breaks = 1 .. n /\ k \in 1 .. n /\ DOMAIN ended = 1 .. n
      /\ breaks[k].end = NoTime /\ \A i \in 1 .. n : i # k => breaks[i].end # NoTime
  BY DEF OpenBreaks
<1>2. FirstBreak(breaks) = k /\ k # 0
  <2>1. FirstBreak(breaks) \in OpenBreaks(breaks)
    BY FirstOpen DEF FirstBreak
  <2>2. QED BY <1>1, <2>1
<1>3. breaks[k] \in Break /\ breaks[k].start \in Nat
  <2>1. breaks[k] \in Break
    BY <1>1
  <2> DEFINE b == breaks[k]
  <2>2. b \in Break
    BY <2>1
  <2> HIDE DEF b
  <2>3. b.start \in Nat
    BY <2>2 DEF Break
  <2>4. QED BY <2>1, <2>3 DEF b
<1>4. ended[k].start = breaks[k].start /\ ended[k].end = t /\ t # NoTime
  <2>1. ended[k] = [breaks[k] EXCEPT !.end = t]
    BY <1>1
  <2> DEFINE b == breaks[k]
  <2>2. b \in Break
    BY <1>3
  <2> HIDE DEF b, ended
  <2>3. [b EXCEPT !.end = t].start = b.start /\ [b EXCEPT !.end = t].end = t
    BY <2>2 DEF Break
  <2>4. t # NoTime
    BY DEF NoTime
  <2>5. QED BY <2>1, <2>3, <2>4 DEF b
<1>5. \A i \in 1 .. n : i # k => ended[i] = breaks[i]
  BY <1>1
<1>6. ended \in Seq(Break) /\ Len(ended) = n
  <2>1. ended \in Seq(Break)
    BY <1>2, BreaksTyped
  <2>2. QED BY <1>1, <2>1
<1> HIDE DEF ended
<1>7. k \notin S /\ T = S \cup {k} /\ k \in T
  BY <1>1, <1>4, <1>5 DEF BreakEnds
<1>8. OpenBreaks(ended) = {}
  BY <1>1, <1>4, <1>5, <1>6 DEF OpenBreaks
<1>9. IsFiniteSet(T) /\ \A i \in T : g[i] \in Int
  BY <1>6, BreaksEnded
<1>10. g[k] = t - breaks[k].start
  BY <1>4, <1>7 DEF Lengths
<1>11. T \ {k} = S /\ IsFiniteSet(S) /\ \A i \in S : f[i] \in Int /\ g[i] = f[i]
  <2>1. \A i \in S : ended[i] = breaks[i]
    BY <1>1, <1>5, <1>7 DEF BreakEnds
  <2>2. \A i \in S : g[i] = ended[i].end - ended[i].start
    BY <1>7 DEF Lengths
  <2>3. \A i \in S : f[i] = breaks[i].end - breaks[i].start
    BY DEF Lengths
  <2>4. IsFiniteSet(S) /\ \A i \in S : f[i] \in Int
    BY BreaksEnded
  <2>5. QED BY <1>7, <2>1, <2>2, <2>3, <2>4
<1>12. BreakTotal(ended) = BreakTotal(breaks) + (t - breaks[k].start)
  <2>1. BreakTotal(ended) = SumFunctionOnSet(g, T) /\ BreakTotal(breaks) = SumFunctionOnSet(f, S)
    BY DEF BreakTotal
  <2>2. BreakTotal(breaks) \in Int
    BY BreaksEnded DEF BreakTotal
  <2> HIDE DEF S, T, f, g
  <2>3. SumFunctionOnSet(g, T) = g[k] + SumFunctionOnSet(g, S)
    BY <1>7, <1>9, <1>11, SumRemove
  <2>4. SumFunctionOnSet(g, S) = SumFunctionOnSet(f, S)
    BY <1>11, SumSame
  <2>5. t - breaks[k].start \in Int
    BY <1>3
  <2>6. QED BY <1>10, <2>1, <2>2, <2>3, <2>4, <2>5
<1>13. QED BY <1>2, <1>8, <1>12 DEF ended

\* The two measures: rounded minutes and slots.
ByMinutes == [s \in Finished |-> WorkedMinutes(s)]
BySlots   == [s \in Finished |-> SlotsOf(s)]

\* A product with the length of a slot.
LEMMA Rounded ==
    ASSUME NEW a \in Int
    PROVE  /\ Round(a, 60) \in Int /\ -30 <= 60 * Round(a, 60) - a /\ 60 * Round(a, 60) - a <= 30
           /\ a >= 0 => Round(a, 60) >= 0
BY DEF Round

\* The two measures of an ended session.
LEMMA SessionMeasured ==
    ASSUME NEW s \in Finished
    PROVE  /\ SlotsOf(s) \in Int /\ WorkedMinutes(s) \in Int
           /\ -30 <= 60 * WorkedMinutes(s) - SlotSeconds * SlotsOf(s)
           /\ 60 * WorkedMinutes(s) - SlotSeconds * SlotsOf(s) <= 30
           /\ SlotsOf(s) >= 0 => WorkedMinutes(s) >= 0
           /\ BreakSlots(s) \in Int
<1>1. s.clockIn \in Nat /\ s.clockOut \in Nat /\ s.breaks \in Seq(Break)
  BY DEF Finished, Session
<1>2. BreakSlots(s) \in Int
  BY <1>1, BreakSlotsIs, BreaksEnded
<1> DEFINE x == s.clockOut - s.clockIn - BreakSlots(s)
           a == x * SlotSeconds
<1>3. x \in Int
  BY <1>1, <1>2
<1>4. SlotsOf(s) = x /\ WorkedMinutes(s) = Round(a, 60)
  BY DEF SlotsOf, WorkedMinutes
<1>5. SlotSeconds \in Nat
  BY SlotAssumption
<1> HIDE DEF x
<1>6. a \in Int /\ a = SlotSeconds * x /\ (x >= 0 => a >= 0)
  BY <1>3, <1>5
<1> HIDE DEF a
<1>7. /\ Round(a, 60) \in Int /\ -30 <= 60 * Round(a, 60) - a /\ 60 * Round(a, 60) - a <= 30
      /\ a >= 0 => Round(a, 60) >= 0
  BY <1>6, Rounded
<1>8. QED BY <1>2, <1>3, <1>4, <1>6, <1>7

\* Minutes and slots are totals of measures, over any sessions.
LEMMA Measures ==
    /\ Measure(ByMinutes) /\ Measure(BySlots)
    /\ \A ss \in Seq(Session) : /\ Minutes(ss) = Totals(ByMinutes, ss) /\ Minutes(ss) \in Int
                                /\ Slots(ss) = Totals(BySlots, ss) /\ Slots(ss) \in Int
<1>1. Measure(ByMinutes) /\ Measure(BySlots)
  BY SessionMeasured DEF Measure, ByMinutes, BySlots
<1>2. ASSUME NEW ss \in Seq(Session)
      PROVE  Minutes(ss) = Totals(ByMinutes, ss) /\ Slots(ss) = Totals(BySlots, ss)
  <2>1. \A i \in Ends(ss) : ss[i] \in Finished
    BY EndsTyped
  <2>2. [i \in Ends(ss) |-> WorkedMinutes(ss[i])] = [i \in Ends(ss) |-> ByMinutes[ss[i]]]
    BY <2>1 DEF ByMinutes
  <2>3. [i \in Ends(ss) |-> SlotsOf(ss[i])] = [i \in Ends(ss) |-> BySlots[ss[i]]]
    BY <2>1 DEF BySlots
  <2>4. QED BY <2>2, <2>3 DEF Minutes, Slots, Sum, Totals
<1>3. QED BY <1>1, <1>2, TotalsTyped

\* The current session, in numbers.
LEMMA OpenTyped ==
    ASSUME NEW acc \in Accs, acc.inSession
    PROVE  /\ acc.sessions \in Seq(Session) /\ Len(acc.sessions) \in Nat \ {0}
           /\ Open(acc) \in Session /\ Open(acc).clockIn \in Nat
           /\ Open(acc).clockOut = NoTime /\ Open(acc).breaks \in Seq(Break)
           /\ BreakSlots(Open(acc)) = BreakTotal(Open(acc).breaks)
           /\ BreakSlots(Open(acc)) \in Int
<1>1. /\ acc.sessions \in Seq(Session) /\ Len(acc.sessions) # 0
      /\ Open(acc).clockOut = NoTime
  BY DEF Accs, Open
<1>2. Open(acc) \in Session
  BY <1>1 DEF Open
<1>3. Open(acc).clockIn \in Nat /\ Open(acc).breaks \in Seq(Break)
  BY <1>2 DEF Session
<1>4. BreakSlots(Open(acc)) = BreakTotal(Open(acc).breaks) /\ BreakSlots(Open(acc)) \in Int
  BY <1>3, BreakSlotsIs, BreaksEnded DEF BreakTotal
<1>5. QED BY <1>1, <1>2, <1>3, <1>4

-----------------------------------------------------------------------------
(* What each event does to a tally.                                        *)

\* Neither total has changed.
SameTotals(new, acc) ==
    Minutes(new.sessions) = Minutes(acc.sessions) /\ Slots(new.sessions) = Slots(acc.sessions)

\* A session begins.
LEMMA AtClockIn ==
    ASSUME NEW acc \in Accs, ~ acc.inSession, Tallied(acc),
           NEW e \in Event, e.action = "CLOCK_IN"
    PROVE  LET new == Step(acc, e)
           IN  /\ new \in Accs /\ new.inSession /\ Tallied(new) /\ SameTotals(new, acc)
               /\ Len(new.sessions) = Len(acc.sessions) + 1
               /\ Busy(new, e) /\ Worked(new, e) = 0
<1> DEFINE ss == acc.sessions
           x == [clockIn |-> e.time, clockOut |-> NoTime, breaks |-> << >>]
           tt == Opened(ss, e.time)
           new == Step(acc, e)
<1>1. ss \in Seq(Session) /\ e.time \in Nat
  BY DEF Accs, Event
<1>2. new = [sessions |-> tt, inSession |-> TRUE] /\ new \in Accs
  BY StepOf, StepTyped
<1>3. new.sessions = tt /\ new.inSession
  BY <1>2
<1>4. tt = Append(ss, x)
  BY DEF Opened
<1>5. x.clockIn = e.time /\ x.breaks = << >> /\ x.clockOut = NoTime
  OBVIOUS
<1> HIDE DEF x
<1>6. /\ Len(ss) \in Nat /\ Len(Append(ss, x)) = Len(ss) + 1 /\ Append(ss, x)[Len(ss) + 1] = x
      /\ \A i \in 1 .. Len(ss) : Append(ss, x)[i] = ss[i]
  BY <1>1
<1>7. SameTotals(new, acc)
  <2>1. tt \in Seq(Session)
    BY <1>2, <1>3 DEF Accs
  <2>2. Totals(ByMinutes, tt) = Totals(ByMinutes, ss) /\ Totals(BySlots, tt) = Totals(BySlots, ss)
    BY <1>1, Measures, TotalsOpened
  <2>3. QED BY <1>1, <1>3, <2>1, <2>2, Measures DEF SameTotals
<1>8. Done(acc) = Len(ss) /\ Done(new) = Len(ss)
  BY <1>3, <1>4, <1>6 DEF Done
<1>9. Tallied(new)
  <2>1. \A i \in 1 .. Len(ss) : tt[i].clockOut # NoTime
    BY <1>4, <1>6, <1>8 DEF Tallied
  <2>2. QED BY <1>3, <1>7, <1>8, <2>1 DEF Tallied, SameTotals
<1>10. Open(new) = x
  BY <1>3, <1>4, <1>6 DEF Open
<1>11. BreakSlots(x) = 0 /\ OpenBreaks(x.breaks) = {}
  <2>1. BreakEnds(<< >>) = {} /\ OpenBreaks(<< >>) = {}
    BY DEF BreakEnds, OpenBreaks
  <2>2. SumFunctionOnSet(Lengths(<< >>), {}) = 0
    BY FS_EmptySet, SumFirst
  <2>3. QED BY <1>5, <2>1, <2>2, BreakSlotsIs
<1>12. Worked(new, e) = 0
  BY <1>1, <1>5, <1>10, <1>11 DEF Worked
<1>13. Busy(new, e)
  BY <1>10, <1>11, <1>12 DEF Busy
<1>14. QED BY <1>2, <1>3, <1>4, <1>6, <1>7, <1>9, <1>12, <1>13

\* The session ends.
LEMMA AtClockOut ==
    ASSUME NEW acc \in Accs, acc.inSession, Tallied(acc), NEW last \in Event, Busy(acc, last),
           last.action # "BREAK_START",
           NEW e \in Event, e.action = "CLOCK_OUT", last.time <= e.time
    PROVE  LET new == Step(acc, e)
           IN  /\ new \in Accs /\ ~ new.inSession /\ Tallied(new)
               /\ Minutes(new.sessions) >= Minutes(acc.sessions)
               /\ Slots(new.sessions) = Slots(acc.sessions) + Worked(acc, last) + (e.time - last.time)
               /\ Len(new.sessions) = Len(acc.sessions)
<1> DEFINE ss == acc.sessions
           n == Len(ss)
           tt == ClosedAt(ss, e.time)
           new == Step(acc, e)
           y == [Open(acc) EXCEPT !.clockOut = e.time]
           slots == SlotsOf(y)
           minutes == WorkedMinutes(y)
<1>1. ss \in Seq(Session) /\ e.time \in Nat /\ last.time \in Nat /\ n \in Nat \ {0}
      /\ ss[n].clockOut = NoTime
  BY OpenTyped DEF Event, Accs
<1>2. new = [sessions |-> tt, inSession |-> FALSE] /\ new \in Accs
  BY StepOf, StepTyped
<1>3. new.sessions = tt /\ ~ new.inSession
  BY <1>2
<1>4. /\ tt \in Seq(Session) /\ Len(tt) = n /\ tt[n] = y
      /\ \A i \in 1 .. n : i # n => tt[i] = ss[i]
  BY <1>1, LastChanged DEF Open
<1>5. /\ y \in Finished /\ y.clockIn = Open(acc).clockIn /\ y.breaks = Open(acc).breaks
      /\ y.clockOut = e.time
  <2> DEFINE s == Open(acc)
  <2>1. s \in Session
    BY OpenTyped
  <2> HIDE DEF s
  <2>2. [s EXCEPT !.clockOut = e.time] \in Session
    BY <1>1, <2>1 DEF Session
  <2>3. /\ [s EXCEPT !.clockOut = e.time].clockIn = s.clockIn
        /\ [s EXCEPT !.clockOut = e.time].breaks = s.breaks
        /\ [s EXCEPT !.clockOut = e.time].clockOut = e.time
    BY <2>1 DEF Session
  <2>4. e.time # NoTime
    BY <1>1 DEF NoTime
  <2>5. QED BY <2>2, <2>3, <2>4 DEF Finished, s
<1>6. slots = Worked(acc, last) + (e.time - last.time) /\ slots >= 0
  <2>1. BreakSlots(y) = BreakSlots(Open(acc))
    BY <1>5, BreakSlotsIs
  <2> HIDE DEF y
  <2>2. BreakSlots(Open(acc)) \in Int /\ Open(acc).clockIn \in Nat
    BY OpenTyped
  <2>3. Worked(acc, last) >= 0
    BY DEF Busy
  <2>4. QED BY <1>1, <1>5, <2>1, <2>2, <2>3 DEF SlotsOf, Worked
<1>7. /\ slots \in Int /\ minutes \in Int /\ minutes >= 0
      /\ -30 <= 60 * minutes - SlotSeconds * slots /\ 60 * minutes - SlotSeconds * slots <= 30
  BY <1>5, <1>6, SessionMeasured
<1>8. ByMinutes[y] = minutes /\ BySlots[y] = slots
  BY <1>5 DEF ByMinutes, BySlots
<1>9. /\ Minutes(tt) = Minutes(ss) + minutes /\ Slots(tt) = Slots(ss) + slots
      /\ Minutes(ss) \in Int /\ Slots(ss) \in Int
  <2>1. Totals(ByMinutes, tt) = Totals(ByMinutes, ss) + ByMinutes[y]
    BY <1>1, Measures, TotalsClosedAt DEF Open
  <2>2. Totals(BySlots, tt) = Totals(BySlots, ss) + BySlots[y]
    BY <1>1, Measures, TotalsClosedAt DEF Open
  <2>3. QED BY <1>1, <1>4, <1>8, <2>1, <2>2, Measures
<1>10. Done(acc) = n - 1 /\ Done(new) = n
  BY <1>1, <1>3, <1>4 DEF Done
<1> DEFINE off == 60 * Minutes(ss) - SlotSeconds * Slots(ss)
           more == 60 * minutes - SlotSeconds * slots
<1>11. 60 * Minutes(tt) - SlotSeconds * Slots(tt) = off + more /\ off \in Int /\ more \in Int
  <2> DEFINE a == Slots(ss)
             b == slots
  <2>1. SlotSeconds \in Int /\ a \in Int /\ b \in Int
    BY <1>7, <1>9, SlotAssumption
  <2> HIDE DEF a, b
  <2>2. SlotSeconds * (a + b) = SlotSeconds * a + SlotSeconds * b
        /\ SlotSeconds * a \in Int /\ SlotSeconds * b \in Int
    BY <2>1
  <2> HIDE DEF minutes
  <2>3. QED BY <1>7, <1>9, <2>2 DEF a, b
<1>12. Tallied(new)
  <2>1. /\ \A i \in 1 .. n - 1 : ss[i].clockOut # NoTime
        /\ Minutes(ss) >= 0 /\ -30 * (n - 1) <= off /\ off <= 30 * (n - 1)
    BY <1>10 DEF Tallied
  <2>2. \A i \in 1 .. n : tt[i].clockOut # NoTime
    <3>1. tt[n].clockOut # NoTime
      BY <1>1, <1>4, <1>5 DEF NoTime
    <3> HIDE DEF tt
    <3>2. ASSUME NEW i \in 1 .. n, i # n PROVE tt[i].clockOut # NoTime
      <4>1. i \in 1 .. n - 1
        BY <1>1, <3>2
      <4>2. tt[i] = ss[i]
        BY <1>4, <3>2
      <4>3. QED BY <2>1, <4>1, <4>2
    <3>3. QED BY <3>1, <3>2
  <2> DEFINE newOff == 60 * Minutes(tt) - SlotSeconds * Slots(tt)
  <2>3. -30 <= more /\ more <= 30 /\ newOff = off + more
    BY <1>7, <1>11
  <2>4. Minutes(tt) >= 0
    BY <1>7, <1>9, <2>1
  <2> HIDE DEF newOff, off, more
  <2>5. -30 * n <= newOff /\ newOff <= 30 * n
    BY <1>1, <1>11, <2>1, <2>3
  <2>6. QED BY <1>3, <1>10, <2>2, <2>4, <2>5 DEF Tallied, newOff
<1>13. /\ Minutes(tt) >= Minutes(ss)
       /\ Slots(tt) = Slots(ss) + Worked(acc, last) + (e.time - last.time)
  <2>1. Worked(acc, last) \in Int
    BY <1>1, OpenTyped DEF Worked
  <2> DEFINE m == Minutes(ss)
             s == Slots(ss)
             w == Worked(acc, last)
  <2>2. /\ m \in Int /\ s \in Int /\ w \in Int
        /\ minutes \in Int /\ minutes >= 0
        /\ Minutes(tt) = m + minutes /\ Slots(tt) = s + slots
        /\ slots = w + (e.time - last.time)
    BY <1>6, <1>7, <1>9, <2>1
  <2> HIDE DEF slots, minutes, tt, m, s, w
  <2>3. Minutes(tt) >= m
    BY <2>2
  <2>4. Slots(tt) = s + w + (e.time - last.time)
    BY <1>1, <2>2
  <2>5. QED BY <2>3, <2>4 DEF m, s, w
<1>14. QED BY <1>2, <1>3, <1>4, <1>12, <1>13

\* A break begins or ends: the breaks of the current session change.
LEMMA AtRebreak ==
    ASSUME NEW acc \in Accs, acc.inSession, Tallied(acc), NEW breaks \in Seq(Break),
           NEW new, new = [sessions |-> Rebreak(acc.sessions, breaks), inSession |-> TRUE]
    PROVE  /\ new.inSession /\ Tallied(new) /\ SameTotals(new, acc)
           /\ Len(new.sessions) = Len(acc.sessions)
           /\ Open(new).breaks = breaks /\ Open(new).clockIn = Open(acc).clockIn
<1> DEFINE ss == acc.sessions
           n == Len(ss)
           tt == Rebreak(ss, breaks)
<1>1. ss \in Seq(Session) /\ n \in Nat \ {0} /\ ss[n].clockOut = NoTime
  BY OpenTyped DEF Accs
<1>2. new.sessions = tt /\ new.inSession
  OBVIOUS
<1>3. /\ tt \in Seq(Session) /\ Len(tt) = n /\ tt[n] = [ss[n] EXCEPT !.breaks = breaks]
      /\ \A i \in 1 .. n : i # n => tt[i] = ss[i]
  BY <1>1, LastChanged
<1>4. SameTotals(new, acc)
  <2>1. Totals(ByMinutes, tt) = Totals(ByMinutes, ss) /\ Totals(BySlots, tt) = Totals(BySlots, ss)
    BY <1>1, Measures, TotalsRebreak
  <2>2. QED BY <1>1, <1>2, <1>3, <2>1, Measures DEF SameTotals
<1>5. Done(acc) = n - 1 /\ Done(new) = n - 1
  BY <1>2, <1>3 DEF Done
<1> HIDE DEF tt
<1>6. Tallied(new)
  <2>1. \A i \in 1 .. n - 1 : tt[i].clockOut # NoTime
    <3> SUFFICES ASSUME NEW i \in 1 .. n - 1 PROVE tt[i].clockOut # NoTime
      OBVIOUS
    <3>1. i \in 1 .. n /\ i # n
      BY <1>1
    <3>2. ss[i].clockOut # NoTime
      BY <1>5 DEF Tallied
    <3>3. QED BY <1>3, <3>1, <3>2
  <2>2. QED BY <1>2, <1>4, <1>5, <2>1 DEF Tallied, SameTotals
<1>7. Open(new) = [Open(acc) EXCEPT !.breaks = breaks]
  BY <1>2, <1>3 DEF Open
<1>8. Open(new).breaks = breaks /\ Open(new).clockIn = Open(acc).clockIn
  <2> DEFINE s == Open(acc)
  <2>1. s \in Session
    BY OpenTyped
  <2> HIDE DEF s
  <2>2. [s EXCEPT !.breaks = breaks].breaks = breaks /\ [s EXCEPT !.breaks = breaks].clockIn = s.clockIn
    BY <2>1 DEF Session
  <2>3. QED BY <1>7, <2>2 DEF s
<1>9. QED BY <1>2, <1>3, <1>4, <1>6, <1>8

\* A break begins: nothing is added to the day, the work up to it is kept.
LEMMA AtBreakStart ==
    ASSUME NEW acc \in Accs, acc.inSession, Tallied(acc), NEW last \in Event, Busy(acc, last),
           last.action # "BREAK_START",
           NEW e \in Event, e.action = "BREAK_START", last.time <= e.time
    PROVE  LET new == Step(acc, e)
           IN  /\ new \in Accs /\ new.inSession /\ Tallied(new) /\ SameTotals(new, acc)
               /\ Len(new.sessions) = Len(acc.sessions)
               /\ Busy(new, e) /\ Worked(new, e) = Worked(acc, last) + (e.time - last.time)
<1> DEFINE new == Step(acc, e)
           old == Open(acc).breaks
           breaks == Append(old, [start |-> e.time, end |-> NoTime])
<1>1. e.time \in Nat /\ last.time \in Nat /\ Open(acc).clockIn \in Nat /\ old \in Seq(Break)
      /\ BreakSlots(Open(acc)) = BreakTotal(old) /\ BreakSlots(Open(acc)) \in Int
  BY OpenTyped DEF Event
<1>2. new = [sessions |-> Rebreak(acc.sessions, breaks), inSession |-> TRUE] /\ new \in Accs
  BY StepOf, StepTyped DEF Open
<1>3. breaks \in Seq(Break)
  BY <1>1, BreaksTyped
<1>4. /\ BreakTotal(breaks) = BreakTotal(old)
      /\ OpenBreaks(breaks) = OpenBreaks(old) \cup {Len(breaks)}
      /\ breaks[Len(breaks)].start = e.time
  BY <1>1, BreakBegun
<1> HIDE DEF new, breaks
<1>5. /\ new.inSession /\ Tallied(new) /\ SameTotals(new, acc)
      /\ Len(new.sessions) = Len(acc.sessions)
      /\ Open(new).breaks = breaks /\ Open(new).clockIn = Open(acc).clockIn
  BY <1>2, <1>3, AtRebreak
<1>6. OpenBreaks(old) = {} /\ Worked(acc, last) >= 0
  BY DEF Busy
<1>7. BreakSlots(Open(new)) = BreakTotal(old)
  BY <1>2, <1>4, <1>5, OpenTyped
<1>8. Worked(new, e) = Worked(acc, last) + (e.time - last.time) /\ Worked(new, e) >= 0
  BY <1>1, <1>5, <1>6, <1>7 DEF Worked
<1>9. Busy(new, e)
  BY <1>4, <1>5, <1>6, <1>8 DEF Busy
<1>10. QED BY <1>2, <1>5, <1>8, <1>9 DEF new

\* The break ends: the work is what it was when it began.
LEMMA AtBreakEnd ==
    ASSUME NEW acc \in Accs, acc.inSession, Tallied(acc), NEW last \in Event, Busy(acc, last),
           last.action = "BREAK_START",
           NEW e \in Event, e.action = "BREAK_END", last.time <= e.time
    PROVE  LET new == Step(acc, e)
           IN  /\ new \in Accs /\ new.inSession /\ Tallied(new) /\ SameTotals(new, acc)
               /\ Len(new.sessions) = Len(acc.sessions)
               /\ Busy(new, e) /\ Worked(new, e) = Worked(acc, last)
<1> DEFINE new == Step(acc, e)
           old == Open(acc).breaks
           k == Len(old)
           breaks == [old EXCEPT ![k].end = e.time]
<1>1. e.time \in Nat /\ last.time \in Nat /\ Open(acc).clockIn \in Nat /\ old \in Seq(Break)
      /\ BreakSlots(Open(acc)) = BreakTotal(old) /\ BreakSlots(Open(acc)) \in Int
  BY OpenTyped DEF Event
<1>2. OpenBreaks(old) = {k} /\ old[k].start = last.time /\ Worked(acc, last) >= 0
  BY DEF Busy
<1>3. /\ BreakTotal(breaks) = BreakTotal(old) + (e.time - last.time)
      /\ OpenBreaks(breaks) = {}
      /\ FirstBreak(old) = k /\ k # 0
  <2> HIDE DEF k, old
  <2>1. /\ BreakTotal(breaks) = BreakTotal(old) + (e.time - old[k].start)
        /\ OpenBreaks(breaks) = {} /\ FirstBreak(old) = k /\ k # 0
    BY <1>1, <1>2, BreakDone
  <2> HIDE DEF breaks
  <2>2. QED BY <1>2, <2>1
<1>4. new = [sessions |-> Rebreak(acc.sessions, breaks), inSession |-> TRUE] /\ new \in Accs
  <2>1. breaks = [old EXCEPT ![FirstBreak(old)].end = e.time]
    BY <1>3
  <2>2. new = [sessions |-> Rebreak(acc.sessions, [old EXCEPT ![FirstBreak(old)].end = e.time]),
               inSession |-> TRUE]
    BY <1>3, StepOf DEF Open
  <2>3. new \in Accs
    BY StepTyped
  <2> HIDE DEF breaks, new
  <2>4. QED BY <2>1, <2>2, <2>3
<1>5. breaks \in Seq(Break)
  BY <1>1, <1>3, BreaksTyped
<1> HIDE DEF new, breaks
<1>6. /\ new.inSession /\ Tallied(new) /\ SameTotals(new, acc)
      /\ Len(new.sessions) = Len(acc.sessions)
      /\ Open(new).breaks = breaks /\ Open(new).clockIn = Open(acc).clockIn
  BY <1>4, <1>5, AtRebreak
<1>7. BreakSlots(Open(new)) = BreakTotal(old) + (e.time - last.time)
  BY <1>3, <1>4, <1>6, OpenTyped
<1>8. Worked(new, e) = Worked(acc, last) /\ Worked(new, e) >= 0
  BY <1>1, <1>2, <1>6, <1>7 DEF Worked
<1>9. Busy(new, e)
  BY <1>3, <1>6, <1>8 DEF Busy
<1>10. QED BY <1>4, <1>6, <1>8, <1>9 DEF new

-----------------------------------------------------------------------------
(* The stretches of a day.                                                 *)

\* The stretches of a day in ended sessions; the length of every stretch.
ClosedOn(events, d) == { i \in StretchesOn(events, d) : Closed(events, i) }
Lasting(events, S, t) == [i \in S |-> Stretch(events, i, t)]

\* The two reference sums, as sums of the lengths of stretches.
LEMMA RefIs ==
    ASSUME NEW events, NEW d, NEW t
    PROVE  /\ RefAll(events, d, t) = SumFunctionOnSet(Lasting(events, StretchesOn(events, d), t), StretchesOn(events, d))
           /\ RefClosed(events, d, t) = SumFunctionOnSet(Lasting(events, ClosedOn(events, d), t), ClosedOn(events, d))
BY DEF RefAll, RefClosed, Sum, Lasting, ClosedOn

\* The stretches of a day.
LEMMA StretchesTyped ==
    ASSUME NEW events \in Seq(Event), NEW d
    PROVE  /\ StretchesOn(events, d) \subseteq 1 .. Len(events) /\ IsFiniteSet(StretchesOn(events, d))
           /\ ClosedOn(events, d) \subseteq StretchesOn(events, d) /\ IsFiniteSet(ClosedOn(events, d))
           /\ \A t \in Nat : \A i \in 1 .. Len(events) : Stretch(events, i, t) \in Int
           /\ \A i \in ClosedOn(events, d) : i < Len(events)
<1>1. /\ Len(events) \in Nat /\ DOMAIN events = 1 .. Len(events)
      /\ \A i \in 1 .. Len(events) : events[i].time \in Nat
  <2>1. /\ Len(events) \in Nat /\ DOMAIN events = 1 .. Len(events)
        /\ \A i \in 1 .. Len(events) : events[i] \in Event
    OBVIOUS
  <2>2. \A e \in Event : e.time \in Nat
    BY DEF Event
  <2>3. QED BY <2>1, <2>2
<1>2. StretchesOn(events, d) \subseteq 1 .. Len(events) /\ ClosedOn(events, d) \subseteq StretchesOn(events, d)
  BY <1>1 DEF StretchesOn, ClosedOn
<1>3. IsFiniteSet(1 .. Len(events))
  BY <1>1, FS_Interval
<1>4. IsFiniteSet(StretchesOn(events, d)) /\ IsFiniteSet(ClosedOn(events, d))
  BY <1>2, <1>3, FS_Subset
<1>5. ASSUME NEW t \in Nat, NEW i \in 1 .. Len(events) PROVE Stretch(events, i, t) \in Int
  <2>1. i < Len(events) => i + 1 \in 1 .. Len(events)
    BY <1>1
  <2>2. QED BY <1>1, <2>1 DEF Stretch, Ended
<1>6. ASSUME NEW i \in ClosedOn(events, d) PROVE i < Len(events)
  <2>1. i \in 1 .. Len(events) /\ Working(events, i) /\ Closed(events, i)
    BY <1>1, <1>2 DEF ClosedOn, StretchesOn
  <2>2. PICK j \in i .. Len(events) : events[j].action = "CLOCK_OUT"
    BY <2>1 DEF Closed
  <2>3. j # i
    BY <2>1, <2>2 DEF Working
  <2>4. QED BY <1>1, <2>1, <2>2, <2>3
<1>7. QED BY <1>2, <1>4, <1>5, <1>6

\* Only the last stretch grows with the clock.
LEMMA RefGrows ==
    ASSUME NEW events \in Seq(Event), NEW d, NEW t \in Nat, NEW u \in Nat
    PROVE  /\ RefAll(events, d, t) \in Int
           /\ RefAll(events, d, u)
                = RefAll(events, d, t) + IF Len(events) \in StretchesOn(events, d) THEN u - t ELSE 0
<1> DEFINE S == StretchesOn(events, d)
           n == Len(events)
           f == Lasting(events, S, t)
           g == Lasting(events, S, u)
<1>1. n \in Nat /\ S \subseteq 1 .. n /\ IsFiniteSet(S)
  BY StretchesTyped
<1>2. \A i \in S : f[i] = Stretch(events, i, t) /\ g[i] = Stretch(events, i, u)
  BY DEF Lasting
<1>3. \A i \in S : f[i] \in Int /\ g[i] \in Int
  BY <1>1, <1>2, StretchesTyped
<1>4. \A i \in S : i # n => g[i] = f[i]
  BY <1>1, <1>2 DEF Stretch, Ended
<1>5. n \in S => g[n] = u - events[n].time /\ f[n] = t - events[n].time /\ events[n].time \in Nat
  <2>1. n \in S => n \in 1 .. n /\ events[n] \in Event
    BY <1>1
  <2>2. n \in S => events[n].time \in Nat
    BY <2>1 DEF Event
  <2>3. Stretch(events, n, u) = u - events[n].time /\ Stretch(events, n, t) = t - events[n].time
    BY <1>1 DEF Stretch, Ended
  <2>4. QED BY <1>2, <2>2, <2>3
<1>6. RefAll(events, d, t) = SumFunctionOnSet(f, S) /\ RefAll(events, d, u) = SumFunctionOnSet(g, S)
  BY RefIs
<1> HIDE DEF S, n, f, g
<1>7. SumFunctionOnSet(f, S) \in Int
  BY <1>1, <1>3, SumFirst
<1>8. CASE n \in S
  <2>1. \A y \in S \ {n} : g[y] = f[y]
    BY <1>4
  <2>2. IsFiniteSet(S)
    BY <1>1
  <2>3. SumFunctionOnSet(g, S) = SumFunctionOnSet(f, S) - f[n] + g[n]
    BY <1>3, <1>8, <2>1, <2>2, SumReplace
  <2>4. QED BY <1>5, <1>6, <1>7, <1>8, <2>3 DEF S, n
<1>9. CASE n \notin S
  <2>1. \A i \in S : f[i] \in Int /\ g[i] = f[i]
    BY <1>3, <1>4, <1>9
  <2>2. SumFunctionOnSet(g, S) = SumFunctionOnSet(f, S)
    BY <1>1, <2>1, SumSame
  <2>3. QED BY <1>6, <1>7, <1>9, <2>2 DEF S, n
<1>10. QED BY <1>8, <1>9

\* One event more.
LEMMA AppendedIs ==
    ASSUME NEW events \in Seq(Event), NEW e \in Event
    PROVE  LET more == Append(events, e)
               n == Len(events)
           IN  /\ more \in Seq(Event) /\ n \in Nat /\ Len(more) = n + 1 /\ more[n + 1] = e
               /\ DOMAIN events = 1 .. n /\ DOMAIN more = 1 .. n + 1
               /\ \A i \in 1 .. n : more[i] = events[i]
               /\ Last(more) = e /\ Front(more) = events /\ more # << >>
<1> DEFINE more == Append(events, e)
           n == Len(events)
<1>1. /\ more \in Seq(Event) /\ n \in Nat /\ Len(more) = n + 1 /\ more[n + 1] = e
      /\ DOMAIN events = 1 .. n /\ DOMAIN more = 1 .. n + 1
      /\ \A i \in 1 .. n : more[i] = events[i]
  OBVIOUS
<1>2. Last(more) = e
  BY <1>1 DEF Last
<1>3. Front(more) = events
  <2>1. Front(more) = [i \in 1 .. n |-> more[i]]
    BY <1>1 DEF Front
  <2>2. events = [i \in 1 .. n |-> events[i]]
    BY <1>1
  <2>3. QED BY <1>1, <2>1, <2>2
<1>4. more # << >>
  BY <1>1
<1>5. QED BY <1>1, <1>2, <1>3, <1>4

\* An event that happens now changes no stretch of the past.
LEMMA RefAppended ==
    ASSUME NEW events \in Seq(Event), NEW e \in Event, NEW d
    PROVE  RefAll(Append(events, e), d, e.time) = RefAll(events, d, e.time)
<1> DEFINE more == Append(events, e)
           n == Len(events)
           t == e.time
           S == StretchesOn(events, d)
           T == StretchesOn(more, d)
           f == Lasting(events, S, t)
           g == Lasting(more, T, t)
<1>1. /\ more \in Seq(Event) /\ n \in Nat /\ Len(more) = n + 1 /\ more[n + 1] = e
      /\ DOMAIN events = 1 .. n /\ DOMAIN more = 1 .. n + 1
      /\ \A i \in 1 .. n : more[i] = events[i]
  BY AppendedIs
<1> HIDE DEF more
<1>2. \A i \in 1 .. n : Working(more, i) = Working(events, i)
  BY <1>1 DEF Working
<1>3. S = T \ {n + 1} /\ S \subseteq 1 .. n
  BY <1>1, <1>2 DEF StretchesOn
<1>4. IsFiniteSet(T) /\ IsFiniteSet(S) /\ t \in Nat
  BY <1>1, StretchesTyped DEF Event
<1>5. \A i \in T : g[i] \in Int
  <2>1. \A i \in T : g[i] = Stretch(more, i, t)
    BY DEF Lasting
  <2>2. QED BY <1>1, <1>4, <2>1, StretchesTyped
<1>6. \A i \in S : f[i] \in Int /\ g[i] = f[i]
  <2> SUFFICES ASSUME NEW i \in S PROVE f[i] \in Int /\ g[i] = f[i]
    OBVIOUS
  <2>1. f[i] = Stretch(events, i, t) /\ g[i] = Stretch(more, i, t) /\ i \in 1 .. n
    BY <1>3 DEF Lasting
  <2>2. Stretch(more, i, t) = Stretch(events, i, t)
    <3>1. more[i] = events[i] /\ i \in Int
      BY <1>1, <2>1
    <3>2. CASE i < n
      <4>1. i + 1 \in 1 .. n /\ i < n + 1
        BY <1>1, <2>1, <3>2
      <4>2. more[i + 1] = events[i + 1]
        BY <1>1, <4>1
      <4>3. QED BY <1>1, <3>1, <3>2, <4>1, <4>2 DEF Stretch, Ended
    <3>3. CASE i = n
      BY <1>1, <3>1, <3>3 DEF Stretch, Ended
    <3>4. i < n \/ i = n
      <4>1. n \in Nat
        BY <1>1
      <4>2. i \in 1 .. n
        BY <2>1
      <4> HIDE DEF n
      <4>3. QED BY <4>1, <4>2
    <3>5. QED BY <3>2, <3>3, <3>4
  <2>3. Stretch(events, i, t) \in Int
    BY <1>4, <2>1, StretchesTyped
  <2>4. QED BY <2>1, <2>2, <2>3
<1>7. n + 1 \in T => g[n + 1] = 0
  BY <1>1, <1>4 DEF Lasting, Stretch, Ended
<1>8. RefAll(events, d, t) = SumFunctionOnSet(f, S) /\ RefAll(more, d, t) = SumFunctionOnSet(g, T)
  BY RefIs
<1> DEFINE k == n + 1
<1> HIDE DEF S, T, f, g, k
<1>9. SumFunctionOnSet(g, S) = SumFunctionOnSet(f, S)
  BY <1>4, <1>6, SumSame
<1>10. CASE k \in T
  <2>1. SumFunctionOnSet(g, T) = g[k] + SumFunctionOnSet(g, T \ {k}) /\ SumFunctionOnSet(g, T \ {k}) \in Int
    BY <1>4, <1>5, <1>10, SumRemove
  <2>2. T \ {k} = S /\ g[k] = 0
    BY <1>3, <1>7, <1>10 DEF k
  <2>3. SumFunctionOnSet(g, T) = SumFunctionOnSet(g, S)
    <3> DEFINE x == SumFunctionOnSet(g, S)
    <3>1. T \ {k} = S
      BY <2>2
    <3>2. x \in Int
      BY <2>1, <3>1
    <3>3. SumFunctionOnSet(g, T) = g[k] + x
      BY <2>1, <3>1
    <3>4. g[k] = 0
      BY <2>2
    <3> HIDE DEF x
    <3>5. SumFunctionOnSet(g, T) = x
      BY <3>2, <3>3, <3>4
    <3>6. QED BY <3>5 DEF x
  <2>4. RefAll(more, d, t) = RefAll(events, d, t)
    BY <1>8, <1>9, <2>3
  <2>5. QED BY <2>4 DEF more
<1>11. CASE k \notin T
  <2>1. T = S
    BY <1>3, <1>11 DEF k
  <2>2. QED BY <1>8, <1>9, <2>1 DEF more
<1>12. QED BY <1>10, <1>11

\* The stretches of ended sessions no longer grow.
LEMMA RefClosedStays ==
    ASSUME NEW events \in Seq(Event), NEW d, NEW t \in Nat, NEW u \in Nat
    PROVE  RefClosed(events, d, u) = RefClosed(events, d, t)
<1> DEFINE C == ClosedOn(events, d)
           f == Lasting(events, C, t)
           g == Lasting(events, C, u)
<1>1. \A i \in C : /\ f[i] = Stretch(events, i, t) /\ g[i] = Stretch(events, i, u)
  BY DEF Lasting
<1>2. IsFiniteSet(C) /\ \A i \in C : i \in 1 .. Len(events) /\ i < Len(events)
  BY StretchesTyped
<1>3. \A i \in C : f[i] \in Int
  BY <1>1, <1>2, StretchesTyped
<1>4. \A i \in C : g[i] = f[i]
  BY <1>1, <1>2 DEF Stretch, Ended
<1>5. RefClosed(events, d, t) = SumFunctionOnSet(f, C) /\ RefClosed(events, d, u) = SumFunctionOnSet(g, C)
  BY RefIs
<1> HIDE DEF C, f, g
<1>6. SumFunctionOnSet(g, C) = SumFunctionOnSet(f, C)
  BY <1>2, <1>3, <1>4, SumSame
<1>7. QED BY <1>5, <1>6

\* Nobody is clocked in: every stretch is closed.
LEMMA RefIdle ==
    ASSUME NEW events \in Seq(Event), events # << >> => Last(events).action = "CLOCK_OUT",
           NEW d, NEW t \in Nat, NEW u \in Nat
    PROVE  RefClosed(events, d, u) = RefAll(events, d, t)
<1> DEFINE n == Len(events)
<1>1. /\ n \in Nat /\ DOMAIN events = 1 .. n /\ StretchesOn(events, d) \subseteq 1 .. n
      /\ n # 0 => events # << >> /\ Last(events) = events[n]
  BY StretchesTyped DEF Last
<1>2. \A i \in 1 .. n : Closed(events, i)
  <2> SUFFICES ASSUME NEW i \in 1 .. n PROVE Closed(events, i)
    OBVIOUS
  <2>1. n \in i .. n /\ n # 0
    BY <1>1
  <2>2. events[n].action = "CLOCK_OUT"
    BY <1>1, <2>1
  <2>3. QED BY <2>1, <2>2 DEF Closed
<1>3. ClosedOn(events, d) = StretchesOn(events, d)
  BY <1>1, <1>2 DEF ClosedOn
<1>4. RefClosed(events, d, t) = RefAll(events, d, t)
  BY <1>3, RefIs
<1>5. QED BY <1>4, RefClosedStays

\* A CLOCK_OUT closes what there is, another event closes nothing.
LEMMA RefClosedAppended ==
    ASSUME NEW events \in Seq(Event), NEW e \in Event, NEW d, NEW t \in Nat
    PROVE  RefClosed(Append(events, e), d, t)
             = IF e.action = "CLOCK_OUT" THEN RefAll(events, d, e.time) ELSE RefClosed(events, d, t)
<1> DEFINE more == Append(events, e)
           n == Len(events)
<1>1. /\ more \in Seq(Event) /\ n \in Nat /\ Len(more) = n + 1 /\ more[n + 1] = e
      /\ DOMAIN events = 1 .. n /\ DOMAIN more = 1 .. n + 1
      /\ \A i \in 1 .. n : more[i] = events[i]
      /\ Last(more) = e /\ more # << >> /\ e.time \in Nat
  BY AppendedIs DEF Event
<1> HIDE DEF more
<1>2. CASE e.action = "CLOCK_OUT"
  <2>1. RefClosed(more, d, t) = RefAll(more, d, e.time)
    BY <1>1, <1>2, RefIdle
  <2>2. RefAll(more, d, e.time) = RefAll(events, d, e.time)
    BY RefAppended DEF more
  <2>3. QED BY <1>2, <2>1, <2>2 DEF more
<1>3. CASE e.action # "CLOCK_OUT"
  <2> DEFINE C == ClosedOn(events, d)
             f == Lasting(events, C, t)
             g == Lasting(more, C, t)
  <2>1. ~ Closed(more, n + 1)
    BY <1>1, <1>3 DEF Closed
  <2>2. ASSUME NEW i \in 1 .. n PROVE Closed(more, i) <=> Closed(events, i)
    <3>1. ASSUME Closed(more, i) PROVE Closed(events, i)
      <4>1. PICK j \in i .. n + 1 : more[j].action = "CLOCK_OUT"
        BY <1>1, <3>1 DEF Closed
      <4>2. j # n + 1
        BY <1>1, <1>3, <4>1
      <4>3. j \in i .. n /\ j \in 1 .. n
        BY <1>1, <4>1, <4>2
      <4>4. QED BY <1>1, <4>1, <4>3 DEF Closed
    <3>2. ASSUME Closed(events, i) PROVE Closed(more, i)
      <4>1. PICK j \in i .. n : events[j].action = "CLOCK_OUT"
        BY <3>2 DEF Closed
      <4>2. j \in i .. n + 1 /\ j \in 1 .. n
        BY <1>1, <4>1
      <4>3. QED BY <1>1, <4>1, <4>2 DEF Closed
    <3>3. QED BY <3>1, <3>2
  <2>3. ClosedOn(more, d) = C
    <3>1. \A i \in 1 .. n : i \in StretchesOn(more, d) <=> i \in StretchesOn(events, d)
      BY <1>1 DEF StretchesOn, Working
    <3>2. StretchesOn(more, d) \subseteq 1 .. n + 1 /\ StretchesOn(events, d) \subseteq 1 .. n
      BY <1>1, StretchesTyped
    <3>3. n + 1 \notin ClosedOn(more, d)
      BY <2>1 DEF ClosedOn
    <3>4. ClosedOn(more, d) \subseteq 1 .. n
      BY <1>1, <3>2, <3>3 DEF ClosedOn
    <3>5. C \subseteq 1 .. n
      BY <3>2 DEF ClosedOn
    <3>6. \A i \in 1 .. n : i \in ClosedOn(more, d) <=> i \in C
      BY <2>2, <3>1 DEF ClosedOn
    <3> HIDE DEF C
    <3>7. QED BY <3>4, <3>5, <3>6
  <2>4. IsFiniteSet(C) /\ \A i \in C : i \in 1 .. n /\ i < n
    BY StretchesTyped
  <2>5. \A i \in C : f[i] = Stretch(events, i, t) /\ g[i] = Stretch(more, i, t)
    BY DEF Lasting
  <2>6. \A i \in C : f[i] \in Int /\ g[i] = f[i]
    <3> SUFFICES ASSUME NEW i \in C PROVE f[i] \in Int /\ g[i] = f[i]
      OBVIOUS
    <3>1. i \in 1 .. n /\ i < n
      BY <2>4
    <3>2. Stretch(events, i, t) \in Int
      BY <3>1, StretchesTyped
    <3>3. i + 1 \in 1 .. n /\ i < n + 1
      BY <1>1, <3>1
    <3>4. more[i] = events[i] /\ more[i + 1] = events[i + 1]
      BY <1>1, <3>1, <3>3
    <3>5. Stretch(more, i, t) = Stretch(events, i, t)
      BY <1>1, <3>1, <3>3, <3>4 DEF Stretch, Ended
    <3>6. QED BY <2>5, <3>2, <3>5
  <2>7. RefClosed(events, d, t) = SumFunctionOnSet(f, C) /\ RefClosed(more, d, t) = SumFunctionOnSet(g, C)
    BY <2>3, RefIs
  <2> HIDE DEF C, f, g
  <2>8. SumFunctionOnSet(g, C) = SumFunctionOnSet(f, C)
    BY <2>4, <2>6, SumSame
  <2>9. QED BY <1>3, <2>7, <2>8 DEF more
<1>4. QED BY <1>2, <1>3

\* The sessions begun on a day.
LEMMA ClockInsAppended ==
    ASSUME NEW events \in Seq(Event), NEW e \in Event, NEW d
    PROVE  /\ ClockIns(Append(events, e), d)
                = ClockIns(events, d) + IF e.action = "CLOCK_IN" /\ DayOf(e.time) = d THEN 1 ELSE 0
           /\ ClockIns(events, d) \in Nat
<1> DEFINE more == Append(events, e)
           n == Len(events)
           S == { i \in DOMAIN events : events[i].action = "CLOCK_IN" /\ DayOf(events[i].time) = d }
           T == { i \in DOMAIN more : more[i].action = "CLOCK_IN" /\ DayOf(more[i].time) = d }
<1>1. /\ n \in Nat /\ more[n + 1] = e /\ DOMAIN events = 1 .. n /\ DOMAIN more = 1 .. n + 1
      /\ \A i \in 1 .. n : more[i] = events[i]
  BY AppendedIs
<1> HIDE DEF more
<1>2. S \subseteq 1 .. n /\ IsFiniteSet(1 .. n)
  BY <1>1, FS_Interval
<1>3. IsFiniteSet(S) /\ n + 1 \notin S
  BY <1>1, <1>2, FS_Subset
<1>4. T = IF e.action = "CLOCK_IN" /\ DayOf(e.time) = d THEN S \cup {n + 1} ELSE S
  BY <1>1
<1>5. Cardinality(S) \in Nat /\ Cardinality(S \cup {n + 1}) = Cardinality(S) + 1
  <2> HIDE DEF S
  <2>1. QED BY <1>3, FS_AddElement, FS_CardinalityType
<1>6. ClockIns(events, d) = Cardinality(S) /\ ClockIns(more, d) = Cardinality(T)
  BY DEF ClockIns
<1> HIDE DEF S, T
<1>7. QED BY <1>4, <1>5, <1>6 DEF more

\* An empty log has no clock-in.
LEMMA NoClockIns == ASSUME NEW d PROVE ClockIns(<< >>, d) = 0
<1>1. { i \in DOMAIN << >> : << >>[i].action = "CLOCK_IN" /\ DayOf(<< >>[i].time) = d } = {}
  OBVIOUS
<1>2. QED BY <1>1, FS_EmptySet DEF ClockIns

-----------------------------------------------------------------------------
(* Logs without a session that crosses midnight.                           *)

\* The clock-ins up to event i.
InsOf(events, i) == { j \in 1 .. i : events[j].action = "CLOCK_IN" }

\* The clock-in an event belongs to is the latest before it.
LEMMA ClockInPicks ==
    ASSUME NEW events, NEW i \in Nat
    PROVE  /\ ClockInOf(events, i) = Max(InsOf(events, i))
           /\ InsOf(events, i) # {} => /\ ClockInOf(events, i) \in InsOf(events, i)
                                       /\ \A x \in InsOf(events, i) : x <= ClockInOf(events, i)
<1> DEFINE S == 1 .. i
           U == InsOf(events, i)
<1>1. IsFiniteSet(S)
  BY FS_Interval
<1>2. Positions(S) /\ U \in SUBSET S
  BY DEF Positions, InsOf
<1>3. ClockInOf(events, i) = Max(U)
  BY DEF ClockInOf, InsOf
<1> HIDE DEF S, U
<1>4. U # {} => Max(U) \in U /\ \A x \in U : x <= Max(U)
  BY <1>1, <1>2, MaxPicks
<1>5. QED BY <1>3, <1>4 DEF U

\* Dropping the last event keeps sessions from crossing midnight.
LEMMA CrosslessAppended ==
    ASSUME NEW events \in Seq(Event), NEW e \in Event, Crossless(Append(events, e))
    PROVE  /\ Crossless(events)
           /\ ClockedIn(events) => DayOf(e.time) = DayOf(Last(events).time)
<1> DEFINE more == Append(events, e)
           n == Len(events)
<1>1. /\ n \in Nat /\ Len(more) = n + 1 /\ more[n + 1] = e
      /\ DOMAIN events = 1 .. n /\ DOMAIN more = 1 .. n + 1
      /\ \A i \in 1 .. n : more[i] = events[i]
  BY AppendedIs
<1>2. Crossless(more)
  OBVIOUS
<1> HIDE DEF more, n
<1>3. ASSUME NEW i \in 1 .. n, events[i].action # "CLOCK_OUT"
      PROVE  DayOf(more[i + 1].time) = DayOf(events[i].time)
  <2>1. i \in DOMAIN more /\ i < n + 1 /\ more[i] = events[i]
    BY <1>1
  <2>2. Ended(more, i)
    BY <1>1, <2>1 DEF Ended
  <2>3. QED BY <1>2, <1>3, <2>1, <2>2 DEF Crossless
<1>4. ASSUME NEW i \in 1 .. n, Ended(events, i), events[i].action # "CLOCK_OUT"
      PROVE  DayOf(events[i + 1].time) = DayOf(events[i].time)
  <2>1. i + 1 \in 1 .. n
    BY <1>1, <1>4 DEF Ended, n
  <2>2. more[i + 1] = events[i + 1]
    BY <1>1, <2>1
  <2>3. QED BY <1>3, <1>4, <2>2
<1>5. Crossless(events)
  BY <1>1, <1>4 DEF Crossless
<1>6. ASSUME ClockedIn(events) PROVE DayOf(e.time) = DayOf(Last(events).time)
  <2>1. n \in 1 .. n /\ Last(events) = events[n] /\ events[n].action # "CLOCK_OUT"
    BY <1>1, <1>6 DEF ClockedIn, Last, n
  <2>2. QED BY <1>1, <1>3, <2>1
<1>7. QED BY <1>5, <1>6

\* One event more: its stretch too belongs to the day it is on.
LEMMA OfDayAppended ==
    ASSUME NEW events \in Seq(Event), NEW e \in Event, OfDay(events), Crossless(Append(events, e)),
           e.action \in {"BREAK_START", "BREAK_END"} => ClockedIn(events)
    PROVE  OfDay(Append(events, e))
<1> DEFINE more == Append(events, e)
           n == Len(events)
<1>1. /\ n \in Nat /\ Len(more) = n + 1 /\ more[n + 1] = e
      /\ DOMAIN events = 1 .. n /\ DOMAIN more = 1 .. n + 1
      /\ \A i \in 1 .. n : more[i] = events[i]
  BY AppendedIs
<1>2. ClockedIn(events) => DayOf(e.time) = DayOf(Last(events).time)
  BY CrosslessAppended
<1> HIDE DEF more, n
<1>3. ASSUME NEW i \in 1 .. n
      PROVE  InsOf(more, i) = InsOf(events, i) /\ ClockInOf(more, i) = ClockInOf(events, i)
  <2>1. \A j \in 1 .. i : more[j] = events[j]
    BY <1>1
  <2>2. InsOf(more, i) = InsOf(events, i)
    BY <2>1 DEF InsOf
  <2>3. i \in Nat
    BY <1>1
  <2>4. QED BY <2>2, <2>3, ClockInPicks
<1>4. ASSUME NEW i \in 1 .. n, events[i].action # "CLOCK_OUT"
      PROVE  /\ InsOf(events, i) # {}
             /\ InsOf(events, i) \subseteq 1 .. n /\ ClockInOf(events, i) \in 1 .. n
             /\ DayOf(events[ClockInOf(events, i)].time) = DayOf(events[i].time)
  <2>1. (\E j \in 1 .. i : events[j].action = "CLOCK_IN")
        /\ DayOf(events[ClockInOf(events, i)].time) = DayOf(events[i].time)
    BY <1>1, <1>4 DEF OfDay
  <2>2. InsOf(events, i) # {} /\ i \in Nat
    BY <1>1, <2>1 DEF InsOf
  <2>3. InsOf(events, i) \subseteq 1 .. n
    BY <1>1 DEF InsOf
  <2>4. ClockInOf(events, i) \in InsOf(events, i)
    BY <2>2, ClockInPicks
  <2>5. QED BY <2>1, <2>2, <2>3, <2>4
<1>5. ASSUME NEW i \in 1 .. n, events[i].action # "CLOCK_OUT"
      PROVE  /\ \E j \in 1 .. i : more[j].action = "CLOCK_IN"
             /\ DayOf(more[ClockInOf(more, i)].time) = DayOf(more[i].time)
  <2>1. \E j \in 1 .. i : more[j].action = "CLOCK_IN"
    BY <1>3, <1>4, <1>5 DEF InsOf
  <2>2. more[ClockInOf(events, i)] = events[ClockInOf(events, i)] /\ more[i] = events[i]
    BY <1>1, <1>4, <1>5
  <2>3. QED BY <1>3, <1>4, <1>5, <2>1, <2>2
<1>6. CASE e.action = "CLOCK_IN"
  <2>1. n + 1 \in InsOf(more, n + 1) /\ n + 1 \in Nat
    BY <1>1, <1>6 DEF InsOf
  <2>2. ClockInOf(more, n + 1) \in InsOf(more, n + 1) /\ n + 1 <= ClockInOf(more, n + 1)
    BY <2>1, ClockInPicks
  <2>3. ClockInOf(more, n + 1) = n + 1
    <3> DEFINE c == ClockInOf(more, n + 1)
    <3>1. c \in 1 .. n + 1 /\ n + 1 <= c
      BY <2>2 DEF InsOf
    <3> HIDE DEF c
    <3>2. c = n + 1
      BY <1>1, <3>1
    <3>3. QED BY <3>2 DEF c
  <2>4. \E j \in 1 .. n + 1 : more[j].action = "CLOCK_IN"
    BY <2>1 DEF InsOf
  <2>5. ASSUME NEW i \in DOMAIN more, more[i].action # "CLOCK_OUT"
        PROVE  /\ \E j \in 1 .. i : more[j].action = "CLOCK_IN"
               /\ DayOf(more[ClockInOf(more, i)].time) = DayOf(more[i].time)
    <3>1. CASE i = n + 1
      BY <2>3, <2>4, <3>1
    <3>2. CASE i # n + 1
      <4>1. i \in 1 .. n /\ more[i] = events[i]
        BY <1>1, <3>2
      <4>2. QED BY <1>5, <2>5, <4>1
    <3>3. QED BY <3>1, <3>2
  <2>6. QED BY <2>5 DEF OfDay, more
<1>7. CASE e.action \in {"BREAK_START", "BREAK_END"}
  <2>1. /\ n \in 1 .. n /\ Last(events) = events[n] /\ events[n].action # "CLOCK_OUT"
        /\ DayOf(e.time) = DayOf(events[n].time)
    BY <1>1, <1>2, <1>7 DEF ClockedIn, Last, n
  <2>2. InsOf(more, n + 1) = InsOf(more, n)
    BY <1>1, <1>7 DEF InsOf
  <2>3. ClockInOf(more, n + 1) = ClockInOf(more, n)
    BY <1>1, <2>2, ClockInPicks
  <2>4. /\ \E j \in 1 .. n : more[j].action = "CLOCK_IN"
        /\ DayOf(more[ClockInOf(more, n)].time) = DayOf(more[n].time)
    BY <1>5, <2>1
  <2>5. /\ \E j \in 1 .. n + 1 : more[j].action = "CLOCK_IN"
        /\ DayOf(more[ClockInOf(more, n + 1)].time) = DayOf(more[n + 1].time)
    BY <1>1, <2>1, <2>3, <2>4
  <2>6. ASSUME NEW i \in DOMAIN more, more[i].action # "CLOCK_OUT"
        PROVE  /\ \E j \in 1 .. i : more[j].action = "CLOCK_IN"
               /\ DayOf(more[ClockInOf(more, i)].time) = DayOf(more[i].time)
    <3>1. CASE i = n + 1
      BY <2>5, <3>1
    <3>2. CASE i # n + 1
      <4>1. i \in 1 .. n /\ more[i] = events[i]
        BY <1>1, <3>2
      <4>2. QED BY <1>5, <2>6, <4>1
    <3>3. QED BY <3>1, <3>2
  <2>7. QED BY <2>6 DEF OfDay, more
<1>8. CASE e.action = "CLOCK_OUT"
  <2>1. ASSUME NEW i \in DOMAIN more, more[i].action # "CLOCK_OUT"
        PROVE  /\ \E j \in 1 .. i : more[j].action = "CLOCK_IN"
               /\ DayOf(more[ClockInOf(more, i)].time) = DayOf(more[i].time)
    <3>1. i \in 1 .. n /\ more[i] = events[i]
      BY <1>1, <1>8, <2>1
    <3>2. QED BY <1>5, <2>1, <3>1
  <2>2. QED BY <2>1 DEF OfDay, more
<1>9. QED BY <1>6, <1>7, <1>8 DEF Event, Actions

\* The reference in terms of the stretches of the day.
LEMMA SecondsAre ==
    ASSUME NEW events \in Seq(Event), OfDay(events), NEW d, NEW t
    PROVE  /\ SecondsWorked(events, d, t, TRUE) = SlotSeconds * RefAll(events, d, t)
           /\ SecondsWorked(events, d, t, FALSE) = SlotSeconds * RefClosed(events, d, t)
<1>1. \A i \in DOMAIN events : Working(events, i) =>
         DayOf(events[ClockInOf(events, i)].time) = DayOf(events[i].time)
  BY DEF OfDay, Working
<1>2. { i \in DOMAIN events : /\ Working(events, i)
                              /\ DayOf(events[ClockInOf(events, i)].time) = d
                              /\ TRUE \/ Closed(events, i) } = StretchesOn(events, d)
  BY <1>1 DEF StretchesOn
<1>3. { i \in DOMAIN events : /\ Working(events, i)
                              /\ DayOf(events[ClockInOf(events, i)].time) = d
                              /\ FALSE \/ Closed(events, i) }
        = { i \in StretchesOn(events, d) : Closed(events, i) }
  BY <1>1 DEF StretchesOn
<1>4. QED BY <1>2, <1>3 DEF SecondsWorked, RefAll, RefClosed, Sum

-----------------------------------------------------------------------------
(* A legal event keeps the invariant of every day.                         *)

\* What the state machine demands of the next event.
Legal(events, action) ==
    /\ action = "CLOCK_IN" <=> ~ ClockedIn(events)
    /\ action \in {"CLOCK_OUT", "BREAK_START"} => Last(events).action # "BREAK_START"
    /\ action = "BREAK_END" => Last(events).action = "BREAK_START"

\* The last event of a log.
LEMMA LastTyped ==
    ASSUME NEW events \in Seq(Event), events # << >>
    PROVE  /\ Last(events) \in Event /\ Last(events) = events[Len(events)]
           /\ Last(events).action \in Actions /\ Last(events).time \in Nat
           /\ Len(events) \in 1 .. Len(events) /\ DOMAIN events = 1 .. Len(events)
<1>1. /\ Len(events) \in 1 .. Len(events) /\ DOMAIN events = 1 .. Len(events)
      /\ events[Len(events)] \in Event
  OBVIOUS
<1>2. Last(events) = events[Len(events)]
  BY DEF Last
<1>3. QED BY <1>1, <1>2 DEF Event

\* A transition of the state machine is legal after the log.
LEMMA Allowed ==
    ASSUME log \in Seq(Event), NEW action \in Actions,
           \E to \in States : <<CurrentState, action, to>> \in Transitions
    PROVE  Legal(log, action)
<1>1. CASE log = << >>
  <2>1. CurrentState = "IDLE"
    BY <1>1 DEF CurrentState
  <2>2. action = "CLOCK_IN"
    BY <2>1 DEF Transitions
  <2>3. QED BY <1>1, <2>2 DEF Legal, ClockedIn
<1>2. CASE log # << >>
  <2> DEFINE a == Last(log).action
             To(s) == \E from \in States : <<from, a, s>> \in Transitions
  <2>1. a \in Actions
    BY <1>2, LastTyped
  <2>2. CurrentState = CHOOSE s \in States : To(s)
    BY <1>2 DEF CurrentState
  <2>3. \E s \in States : To(s)
    BY <2>1 DEF Actions, States, Transitions
  <2>4. CurrentState \in States /\ To(CurrentState)
    BY <2>2, <2>3
  <2>5. /\ a = "CLOCK_OUT" => CurrentState = "IDLE"
        /\ a = "BREAK_START" => CurrentState = "ON_BREAK"
        /\ a \in {"CLOCK_IN", "BREAK_END"} => CurrentState = "CLOCKED_IN"
    BY <2>4 DEF Transitions
  <2>6. /\ CurrentState = "IDLE" => action = "CLOCK_IN"
        /\ CurrentState = "ON_BREAK" => action = "BREAK_END"
        /\ CurrentState = "CLOCKED_IN" => action \in {"CLOCK_OUT", "BREAK_START"}
    BY DEF Transitions
  <2> HIDE DEF To
  <2>7. /\ a = "CLOCK_OUT" => action = "CLOCK_IN"
        /\ a = "BREAK_START" => action = "BREAK_END"
        /\ a \in {"CLOCK_IN", "BREAK_END"} => action \in {"CLOCK_OUT", "BREAK_START"}
    BY <2>5, <2>6
  <2>8. QED BY <1>2, <2>1, <2>7 DEF Legal, ClockedIn, Actions
<1>3. QED BY <1>1, <1>2

\* The work on a day when nothing else happens until u.
LEMMA RefUntil ==
    ASSUME NEW events \in Seq(Event), events # << >>, NEW d, NEW u \in Nat
    PROVE  /\ RefAll(events, d, Last(events).time) \in Int
           /\ RefAll(events, d, u)
                = RefAll(events, d, Last(events).time)
                    + IF Last(events).action \in {"CLOCK_IN", "BREAK_END"} /\ DayOf(Last(events).time) = d
                      THEN u - Last(events).time ELSE 0
<1> DEFINE n == Len(events)
           t == Last(events).time
<1>1. Last(events) = events[n] /\ n \in 1 .. n /\ DOMAIN events = 1 .. n /\ t \in Nat
  BY LastTyped
<1>2. n \in StretchesOn(events, d) <=>
        Last(events).action \in {"CLOCK_IN", "BREAK_END"} /\ DayOf(t) = d
  BY <1>1 DEF StretchesOn, Working
<1>3. /\ RefAll(events, d, t) \in Int
      /\ RefAll(events, d, u) = RefAll(events, d, t) + IF n \in StretchesOn(events, d) THEN u - t ELSE 0
  BY <1>1, RefGrows
<1>4. QED BY <1>2, <1>3

\* Later is not on an earlier day.
LEMMA DayMonotone == ASSUME NEW a \in Nat, NEW b \in Nat, a <= b PROVE DayOf(a) \in Nat /\ DayOf(a) <= DayOf(b)
BY SlotAssumption DEF DayOf

\* An event of another day.
LEMMA ElsewhereStep ==
    ASSUME NEW events \in Seq(Event), NEW e \in Event, NEW d \in Nat, Legal(events, e.action),
           events # << >> => Last(events).time <= e.time, DayOf(e.time) # d, DayInv(d, events)
    PROVE  /\ EventsOn(d, Append(events, e)) = EventsOn(d, events)
           /\ DayInv(d, Append(events, e))
<1> DEFINE more == Append(events, e)
           acc == Day(EventsOn(d, events))
<1>1. /\ Last(more) = e /\ more # << >> /\ more \in Seq(Event) /\ e.time \in Nat
      /\ e.action \in Actions
  BY AppendedIs DEF Event
<1>2. EventsOn(d, more) = EventsOn(d, events)
  BY EventsOnAppend DEF Kept
<1>3. acc \in Accs
  BY EventsOnTyped, DayTyped
<1>4. ClockIns(more, d) = ClockIns(events, d)
  BY ClockInsAppended
<1>5. /\ Tallied(acc) /\ Current(acc, d, events) /\ Len(acc.sessions) = ClockIns(events, d)
      /\ Crossless(events) => Exact(acc, d, events)
  BY DEF DayInv
<1>6. Current(acc, d, more)
  <2> SUFFICES ASSUME acc.inSession PROVE d <= DayOf(e.time) /\ d # DayOf(e.time)
    BY <1>1 DEF Current
  <2>1. events # << >> /\ d <= DayOf(Last(events).time)
    BY <1>5 DEF Current
  <2>2. DayOf(Last(events).time) <= DayOf(e.time) /\ DayOf(e.time) \in Nat /\ DayOf(Last(events).time) \in Nat
    BY <1>1, <2>1, LastTyped, DayMonotone
  <2>3. QED BY <2>1, <2>2
<1>7. ASSUME Crossless(more) PROVE Exact(acc, d, more)
  <2>1. Crossless(events) /\ (ClockedIn(events) => DayOf(e.time) = DayOf(Last(events).time))
    BY <1>7, CrosslessAppended
  <2>2. Exact(acc, d, events)
    BY <1>5, <2>1
  <2>3. ~ acc.inSession
    BY <2>1, <2>2 DEF Exact
  <2>4. acc.inSession <=> ClockedIn(more) /\ d = DayOf(Last(more).time)
    BY <1>1, <2>3
  <2>5. RefAll(more, d, e.time) = Slots(acc.sessions)
    <3>1. RefAll(more, d, e.time) = RefAll(events, d, e.time)
      BY RefAppended
    <3>2. CASE events = << >>
      <4>1. RefClosed(events, d, 0) = RefAll(events, d, e.time)
        BY <1>1, <3>2, RefIdle
      <4>2. QED BY <2>2, <3>1, <4>1 DEF Exact
    <3>3. CASE events # << >>
      <4>1. RefAll(events, d, Last(events).time) = Slots(acc.sessions) + 0
        BY <2>2, <2>3, <3>3 DEF Exact
      <4>2. ~ (Last(events).action \in {"CLOCK_IN", "BREAK_END"} /\ DayOf(Last(events).time) = d)
        BY <2>2, <2>3, <3>3 DEF Exact, ClockedIn
      <4>3. RefAll(events, d, e.time) = RefAll(events, d, Last(events).time) + 0
            /\ RefAll(events, d, Last(events).time) \in Int
        BY <1>1, <3>3, <4>2, RefUntil
      <4>4. Slots(acc.sessions) \in Int
        BY <1>3, Measures DEF Accs
      <4>5. QED BY <3>1, <4>1, <4>3, <4>4
    <3>4. QED BY <3>2, <3>3
  <2>6. RefClosed(more, d, 0) = Slots(acc.sessions)
    <3>1. CASE e.action = "CLOCK_OUT"
      <4>1. RefClosed(more, d, 0) = RefAll(events, d, e.time)
        BY <3>1, RefClosedAppended
      <4>2. RefAll(more, d, e.time) = RefAll(events, d, e.time)
        BY RefAppended
      <4>3. QED BY <2>5, <4>1, <4>2
    <3>2. CASE e.action # "CLOCK_OUT"
      <4>1. RefClosed(more, d, 0) = RefClosed(events, d, 0)
        BY <3>2, RefClosedAppended
      <4>2. QED BY <2>2, <4>1 DEF Exact
    <3>3. QED BY <3>1, <3>2
  <2>7. Slots(acc.sessions) \in Int
    BY <1>3, Measures DEF Accs
  <2>8. QED BY <1>1, <2>3, <2>4, <2>5, <2>6, <2>7 DEF Exact
<1> HIDE DEF more
<1>8. DayInv(d, more)
  BY <1>2, <1>4, <1>5, <1>6, <1>7 DEF DayInv
<1>9. QED BY <1>2, <1>8 DEF more

\* The current session of the day of the next event.
LEMMA StillCurrent ==
    ASSUME NEW events \in Seq(Event), NEW e \in Event, NEW d \in Nat, NEW acc,
           events # << >> => Last(events).time <= e.time, DayOf(e.time) = d,
           Current(acc, d, events), acc.inSession
    PROVE  /\ ClockedIn(events) /\ Busy(acc, Last(events)) /\ DayOf(Last(events).time) = d
           /\ Last(events) \in Event /\ Last(events).time <= e.time /\ events # << >>
           /\ Last(events).action \in {"CLOCK_IN", "BREAK_END", "BREAK_START"}
<1>1. events # << >> /\ d <= DayOf(Last(events).time) /\ e.time \in Nat
  BY DEF Current, Event
<1>2. Last(events) \in Event /\ Last(events).time \in Nat /\ Last(events).time <= e.time
  BY <1>1, LastTyped
<1>3. DayOf(Last(events).time) <= d /\ DayOf(Last(events).time) \in Nat
  BY <1>1, <1>2, DayMonotone
<1>4. DayOf(Last(events).time) = d
  BY <1>1, <1>3
<1>5. Busy(acc, Last(events))
  BY <1>4 DEF Current
<1>6. Last(events).action \in {"CLOCK_IN", "BREAK_END", "BREAK_START"}
  BY <1>5 DEF Busy
<1>7. QED BY <1>1, <1>2, <1>4, <1>5, <1>6 DEF ClockedIn

\* What the event adds to the slots worked, and what of it is in ended sessions.
LEMMA ExactStep ==
    ASSUME NEW events \in Seq(Event), NEW e \in Event, NEW d \in Nat,
           DayOf(e.time) = d, NEW new, Slots(new.sessions) \in Int,
           new.inSession <=> e.action # "CLOCK_OUT",
           RefAll(events, d, e.time) = Slots(new.sessions) + IF new.inSession THEN Worked(new, e) ELSE 0,
           new.inSession => RefClosed(events, d, 0) = Slots(new.sessions)
    PROVE  Exact(new, d, Append(events, e))
<1> DEFINE more == Append(events, e)
<1>1. Last(more) = e /\ more # << >>
  BY AppendedIs
<1>2. new.inSession <=> ClockedIn(more) /\ d = DayOf(Last(more).time)
  BY <1>1 DEF ClockedIn
<1>3. RefAll(more, d, e.time) = RefAll(events, d, e.time)
  BY RefAppended
<1>4. RefClosed(more, d, 0) = IF e.action = "CLOCK_OUT" THEN RefAll(events, d, e.time) ELSE RefClosed(events, d, 0)
  BY RefClosedAppended
<1>5. RefClosed(more, d, 0) = Slots(new.sessions)
  BY <1>4
<1> HIDE DEF more
<1>6. QED BY <1>1, <1>2, <1>3, <1>5 DEF Exact, more

\* An event of the day.
LEMMA HereStep ==
    ASSUME NEW events \in Seq(Event), NEW e \in Event, NEW d \in Nat, Legal(events, e.action),
           events # << >> => Last(events).time <= e.time, DayOf(e.time) = d,
           NEW acc \in Accs, Tallied(acc), Current(acc, d, events),
           Len(acc.sessions) = ClockIns(events, d), Crossless(events) => Exact(acc, d, events)
    PROVE  LET new == Step(acc, e)
               more == Append(events, e)
           IN  /\ Tallied(new) /\ Current(new, d, more) /\ Len(new.sessions) = ClockIns(more, d)
               /\ Crossless(more) => Exact(new, d, more)
               /\ Minutes(acc.sessions) <= Minutes(new.sessions)
<1> DEFINE new == Step(acc, e)
           more == Append(events, e)
           last == Last(events)
<1>1. /\ Last(more) = e /\ more # << >> /\ more \in Seq(Event) /\ e.time \in Nat
      /\ e.action \in Actions /\ DayOf(Last(more).time) = d
  BY AppendedIs DEF Event
<1>2. /\ new \in Accs /\ Slots(acc.sessions) \in Int /\ Slots(new.sessions) \in Int
      /\ Minutes(acc.sessions) \in Int
  BY StepTyped, Measures DEF Accs
<1>3. /\ ClockIns(more, d) = ClockIns(events, d) + IF e.action = "CLOCK_IN" THEN 1 ELSE 0
      /\ ClockIns(events, d) \in Nat
  BY ClockInsAppended
<1>4. acc.inSession => /\ ClockedIn(events) /\ Busy(acc, last) /\ DayOf(last.time) = d
                       /\ last \in Event /\ last.time <= e.time /\ events # << >>
                       /\ last.action \in {"CLOCK_IN", "BREAK_END", "BREAK_START"}
  BY StillCurrent
<1>5. Crossless(more) => /\ Crossless(events) /\ Exact(acc, d, events)
                         /\ ClockedIn(events) => acc.inSession
  <2> SUFFICES ASSUME Crossless(more)
               PROVE  /\ Crossless(events) /\ Exact(acc, d, events)
                      /\ ClockedIn(events) => acc.inSession
    OBVIOUS
  <2>1. Crossless(events) /\ (ClockedIn(events) => DayOf(e.time) = DayOf(last.time))
    BY CrosslessAppended
  <2>2. QED BY <2>1 DEF Exact
<1>6. Current(new, d, more) <=> (new.inSession => Busy(new, e))
  BY <1>1, SlotAssumption DEF Current
<1>7. CASE ~ acc.inSession /\ e.action # "CLOCK_IN"
  <2>1. new = acc
    BY <1>7, StepOf
  <2>2. ClockedIn(events)
    BY <1>7 DEF Legal
  <2>3. ~ Crossless(more)
    BY <1>5, <1>7, <2>2
  <2>4. Len(acc.sessions) = ClockIns(more, d)
    BY <1>3, <1>7
  <2> HIDE DEF new, more
  <2>5. QED BY <1>2, <1>6, <1>7, <2>1, <2>3, <2>4 DEF new, more
<1>8. CASE e.action = "CLOCK_IN"
  <2>1. ~ ClockedIn(events) /\ ~ acc.inSession
    BY <1>4, <1>8 DEF Legal
  <2>2. /\ new.inSession /\ Tallied(new) /\ SameTotals(new, acc)
        /\ Len(new.sessions) = Len(acc.sessions) + 1 /\ Busy(new, e) /\ Worked(new, e) = 0
    BY <1>8, <2>1, AtClockIn
  <2>3. ASSUME Crossless(more) PROVE Exact(new, d, more)
    <3>1. RefClosed(events, d, 0) = Slots(new.sessions)
      BY <1>5, <2>2, <2>3 DEF Exact, SameTotals
    <3>2. RefClosed(events, d, 0) = RefAll(events, d, e.time)
      BY <1>1, <2>1, RefIdle DEF ClockedIn
    <3>3. RefAll(events, d, e.time) = Slots(new.sessions) + IF new.inSession THEN Worked(new, e) ELSE 0
      BY <1>2, <2>2, <3>1, <3>2
    <3> HIDE DEF new
    <3>4. QED BY <1>2, <1>8, <2>2, <3>1, <3>3, ExactStep
  <2>4. Len(new.sessions) = ClockIns(more, d) /\ Minutes(acc.sessions) <= Minutes(new.sessions)
    BY <1>2, <1>3, <1>8, <2>2 DEF SameTotals
  <2> HIDE DEF new, more
  <2>5. QED BY <1>6, <2>2, <2>3, <2>4 DEF new, more
<1>9. CASE acc.inSession /\ e.action = "CLOCK_OUT"
  <2>1. last.action # "BREAK_START"
    BY <1>9 DEF Legal
  <2>2. /\ ~ new.inSession /\ Tallied(new) /\ Minutes(new.sessions) >= Minutes(acc.sessions)
        /\ Slots(new.sessions) = Slots(acc.sessions) + Worked(acc, last) + (e.time - last.time)
        /\ Len(new.sessions) = Len(acc.sessions)
    BY <1>4, <1>9, <2>1, AtClockOut
  <2>3. ASSUME Crossless(more) PROVE Exact(new, d, more)
    <3>1. RefAll(events, d, last.time) = Slots(acc.sessions) + Worked(acc, last)
      BY <1>4, <1>5, <1>9, <2>3 DEF Exact
    <3>2. RefAll(events, d, e.time) = RefAll(events, d, last.time) + (e.time - last.time)
      BY <1>1, <1>4, <1>9, <2>1, RefUntil
    <3>3. RefAll(events, d, e.time) = Slots(new.sessions) + IF new.inSession THEN Worked(new, e) ELSE 0
      <4>1. RefAll(events, d, e.time) = Slots(new.sessions)
        BY <2>2, <3>1, <3>2
      <4>2. QED BY <1>2, <2>2, <4>1
    <3> HIDE DEF new
    <3>4. QED BY <1>2, <1>9, <2>2, <3>3, ExactStep
  <2>4. Len(new.sessions) = ClockIns(more, d) /\ Minutes(acc.sessions) <= Minutes(new.sessions)
    BY <1>2, <1>3, <1>9, <2>2
  <2> HIDE DEF new, more
  <2>5. QED BY <1>6, <2>2, <2>3, <2>4 DEF new, more
<1>10. CASE acc.inSession /\ e.action = "BREAK_START"
  <2>1. last.action # "BREAK_START"
    BY <1>10 DEF Legal
  <2>2. /\ new.inSession /\ Tallied(new) /\ SameTotals(new, acc)
        /\ Len(new.sessions) = Len(acc.sessions) /\ Busy(new, e)
        /\ Worked(new, e) = Worked(acc, last) + (e.time - last.time)
    BY <1>4, <1>10, <2>1, AtBreakStart
  <2>3. ASSUME Crossless(more) PROVE Exact(new, d, more)
    <3>1. RefAll(events, d, last.time) = Slots(acc.sessions) + Worked(acc, last)
      BY <1>4, <1>5, <1>10, <2>3 DEF Exact
    <3>2. RefAll(events, d, e.time) = RefAll(events, d, last.time) + (e.time - last.time)
      BY <1>1, <1>4, <1>10, <2>1, RefUntil
    <3>3. RefAll(events, d, e.time) = Slots(new.sessions) + IF new.inSession THEN Worked(new, e) ELSE 0
      <4>1. Worked(acc, last) \in Int /\ last.time \in Nat
        BY <1>4, <1>10, OpenTyped DEF Worked, Event
      <4>2. RefAll(events, d, e.time) = Slots(acc.sessions) + (Worked(acc, last) + (e.time - last.time))
        BY <1>1, <1>2, <3>1, <3>2, <4>1
      <4>3. QED BY <2>2, <4>2 DEF SameTotals
    <3>4. RefClosed(events, d, 0) = Slots(new.sessions)
      BY <1>5, <2>2, <2>3 DEF Exact, SameTotals
    <3> HIDE DEF new
    <3>5. QED BY <1>2, <1>10, <2>2, <3>3, <3>4, ExactStep
  <2>4. Len(new.sessions) = ClockIns(more, d) /\ Minutes(acc.sessions) <= Minutes(new.sessions)
    BY <1>2, <1>3, <1>10, <2>2 DEF SameTotals
  <2> HIDE DEF new, more
  <2>5. QED BY <1>6, <2>2, <2>3, <2>4 DEF new, more
<1>11. CASE acc.inSession /\ e.action = "BREAK_END"
  <2>1. last.action = "BREAK_START"
    BY <1>11 DEF Legal
  <2>2. /\ new.inSession /\ Tallied(new) /\ SameTotals(new, acc)
        /\ Len(new.sessions) = Len(acc.sessions) /\ Busy(new, e)
        /\ Worked(new, e) = Worked(acc, last)
    BY <1>4, <1>11, <2>1, AtBreakEnd
  <2>3. ASSUME Crossless(more) PROVE Exact(new, d, more)
    <3>1. RefAll(events, d, last.time) = Slots(acc.sessions) + Worked(acc, last)
      BY <1>4, <1>5, <1>11, <2>3 DEF Exact
    <3>2. RefAll(events, d, e.time) = RefAll(events, d, last.time) + 0
          /\ RefAll(events, d, last.time) \in Int
      BY <1>1, <1>4, <1>11, <2>1, RefUntil
    <3>3. RefAll(events, d, e.time) = Slots(new.sessions) + IF new.inSession THEN Worked(new, e) ELSE 0
      <4>1. RefAll(events, d, e.time) = RefAll(events, d, last.time)
        BY <3>2
      <4>2. QED BY <2>2, <3>1, <4>1 DEF SameTotals
    <3>4. RefClosed(events, d, 0) = Slots(new.sessions)
      BY <1>5, <2>2, <2>3 DEF Exact, SameTotals
    <3> HIDE DEF new
    <3>5. QED BY <1>2, <1>11, <2>2, <3>3, <3>4, ExactStep
  <2>4. Len(new.sessions) = ClockIns(more, d) /\ Minutes(acc.sessions) <= Minutes(new.sessions)
    BY <1>2, <1>3, <1>11, <2>2 DEF SameTotals
  <2> HIDE DEF new, more
  <2>5. QED BY <1>6, <2>2, <2>3, <2>4 DEF new, more
<1>12. QED BY <1>1, <1>7, <1>8, <1>9, <1>10, <1>11 DEF Actions

\* A legal event keeps the invariant of every day, and makes no day shorter.
LEMMA DayStep ==
    ASSUME NEW events \in Seq(Event), NEW e \in Event, NEW d \in Nat, Legal(events, e.action),
           events # << >> => Last(events).time <= e.time, DayInv(d, events)
    PROVE  /\ DayInv(d, Append(events, e))
           /\ Minutes(Sessions(EventsOn(d, events))) <= Minutes(Sessions(EventsOn(d, Append(events, e))))
<1> DEFINE more == Append(events, e)
           evs == EventsOn(d, events)
           acc == Day(evs)
<1>1. evs \in Seq(Event) /\ acc \in Accs
  BY EventsOnTyped, DayTyped
<1>2. \A x : Sessions(x) = Day(x).sessions
  BY DEF Sessions, Day, NoSessions
<1>3. /\ Tallied(acc) /\ Current(acc, d, events) /\ Len(acc.sessions) = ClockIns(events, d)
      /\ Crossless(events) => Exact(acc, d, events)
  BY DEF DayInv
<1>4. Minutes(acc.sessions) \in Int
  BY <1>1, Measures DEF Accs
<1>5. CASE DayOf(e.time) # d
  <2>1. EventsOn(d, more) = evs /\ DayInv(d, more)
    BY <1>5, ElsewhereStep
  <2>2. QED BY <1>2, <1>4, <2>1
<1>6. CASE DayOf(e.time) = d
  <2>1. EventsOn(d, more) = Append(evs, e)
    BY <1>6, EventsOnAppend DEF Kept
  <2>2. Day(EventsOn(d, more)) = Step(acc, e)
    BY <1>1, <2>1, DayAppend
  <2> HIDE DEF more, acc, evs
  <2>3. /\ Tallied(Step(acc, e)) /\ Current(Step(acc, e), d, more)
        /\ Len(Step(acc, e).sessions) = ClockIns(more, d)
        /\ Crossless(more) => Exact(Step(acc, e), d, more)
        /\ Minutes(acc.sessions) <= Minutes(Step(acc, e).sessions)
    BY <1>1, <1>3, <1>6, HereStep DEF more
  <2>4. DayInv(d, more)
    BY <2>2, <2>3 DEF DayInv
  <2>5. QED BY <1>2, <2>2, <2>3, <2>4 DEF more, acc, evs
<1>7. QED BY <1>5, <1>6

\* Before the first event every day is empty.
LEMMA NothingYet ==
    ASSUME NEW d \in Nat
    PROVE  DayInv(d, << >>)
<1> DEFINE none == << >>
<1>1. EventsOn(d, none) = << >> /\ Day(none) = NoSessions
  <2>1. none \in Seq(Event)
    OBVIOUS
  <2>2. QED BY <2>1, EventsOnTyped, DayTyped
<1>2. NoSessions.sessions = << >> /\ NoSessions.inSession = FALSE /\ Len(NoSessions.sessions) = 0
  BY DEF NoSessions
<1>3. Ends(<< >>) = {} /\ StretchesOn(none, d) = {} /\ { i \in StretchesOn(none, d) : Closed(none, i) } = {}
  BY DEF Ends, StretchesOn
<1>4. \A f : SumFunctionOnSet(f, {}) = 0
  BY FS_EmptySet, SumFirst
<1>5. Minutes(<< >>) = 0 /\ Slots(<< >>) = 0
  BY <1>3, <1>4 DEF Minutes, Slots, Sum
<1>6. RefClosed(none, d, 0) = 0
  BY <1>3, <1>4 DEF RefClosed, Sum
<1>7. Done(NoSessions) = 0
  BY <1>2 DEF Done
<1>8. Tallied(NoSessions)
  BY <1>2, <1>5, <1>7, SlotAssumption DEF Tallied
<1>9. Current(NoSessions, d, none)
  BY <1>2 DEF Current
<1>10. Exact(NoSessions, d, none)
  BY <1>2, <1>5, <1>6 DEF Exact, ClockedIn
<1>11. ClockIns(none, d) = 0
  BY NoClockIns
<1>12. QED BY <1>1, <1>2, <1>8, <1>9, <1>10, <1>11 DEF DayInv

-----------------------------------------------------------------------------
(* The invariant of the specification.                                     *)

\* The invariant holds at the beginning of a month,
LEMMA MonthInit == ASSUME Init PROVE MonthInv
<1>1. log = << >> /\ now = 0 /\ leave = 0 /\ salary = [d \in Dates |-> NoSalary]
  BY DEF Init
<1>2. MaxTime \in Nat /\ MaxLeave \in Nat /\ Days \in Nat
  BY PayAssumption, SlotAssumption
<1>3. Shape
  <2>1. salary \in Histories
    BY <1>1 DEF Histories
  <2>2. log \in Seq(Event) /\ DOMAIN log = {}
    BY <1>1
  <2>3. QED BY <1>1, <1>2, <2>1, <2>2 DEF Shape
<1>4. OfDay(log)
  BY <1>1 DEF OfDay
<1>5. \A d \in 0 .. Days - 1 : DayInv(d, log)
  <2>1. \A d \in 0 .. Days - 1 : d \in Nat
    BY <1>2
  <2>2. QED BY <1>1, <2>1, NothingYet
<1>6. LastPays(log)
  BY <1>1 DEF LastPays
<1>7. QED BY <1>3, <1>4, <1>5, <1>6 DEF MonthInv

\* a clock event keeps it,
LEMMA MonthClock ==
    ASSUME MonthInv, NEW action \in Actions, Clock(action)
    PROVE  MonthInv'
<1> DEFINE e == [action |-> action, time |-> now]
<1>1. /\ log' = Append(log, e) /\ now' = now /\ salary' = salary /\ leave' = leave
      /\ \E to \in States : <<CurrentState, action, to>> \in Transitions
  BY DEF Clock
<1>2. /\ Shape /\ (Crossless(log) => OfDay(log)) /\ LastPays(log)
      /\ \A d \in 0 .. Days - 1 : DayInv(d, log)
  BY DEF MonthInv
<1>3. now \in Nat /\ log \in Seq(Event) /\ \A i \in DOMAIN log : log[i].time <= now
  BY <1>2, PayAssumption, SlotAssumption DEF Shape
<1>4. e \in Event /\ e.time = now /\ e.action = action
  BY <1>3 DEF Event
<1>5. Legal(log, e.action)
  BY <1>1, <1>3, <1>4, Allowed
<1>6. log # << >> => Last(log).time <= e.time
  BY <1>3, <1>4, LastTyped
<1> HIDE DEF e
<1> DEFINE more == Append(log, e)
<1>7. /\ more \in Seq(Event) /\ Front(more) = log /\ DOMAIN log = 1 .. Len(log) /\ Len(log) \in Nat
      /\ DOMAIN more = 1 .. Len(log) + 1 /\ more[Len(log) + 1] = e
      /\ \A i \in 1 .. Len(log) : more[i] = log[i]
  BY <1>3, <1>4, AppendedIs
<1>8. ASSUME NEW d \in 0 .. Days - 1
      PROVE  /\ DayInv(d, more)
             /\ Minutes(Sessions(EventsOn(d, log))) <= Minutes(Sessions(EventsOn(d, more)))
  <2>1. d \in Nat /\ DayInv(d, log)
    BY <1>2, <1>8, PayAssumption
  <2>2. QED BY <1>3, <1>4, <1>5, <1>6, <2>1, DayStep
<1>9. Crossless(more) => OfDay(more)
  <2> SUFFICES ASSUME Crossless(more) PROVE OfDay(more)
    OBVIOUS
  <2>1. OfDay(log)
    BY <1>2, <1>3, <1>4, CrosslessAppended
  <2>2. e.action \in {"BREAK_START", "BREAK_END"} => ClockedIn(log)
    BY <1>5 DEF Legal
  <2>3. QED BY <1>3, <1>4, <2>1, <2>2, OfDayAppended
<1>10. \A i \in DOMAIN more : more[i].time <= now
  BY <1>3, <1>4, <1>7
<1> HIDE DEF more
<1>11. log' = more
  BY <1>1 DEF more
<1>12. LastPays(more)
  BY <1>7, <1>8 DEF LastPays
<1>13. Shape'
  BY <1>1, <1>2, <1>7, <1>10, <1>11 DEF Shape, Histories, Dates, MonthEnd
<1>14. QED BY <1>8, <1>9, <1>11, <1>12, <1>13 DEF MonthInv

\* and so does every step.
LEMMA MonthStep == ASSUME MonthInv, [Next]_vars PROVE MonthInv'
<1>1. ASSUME NEW action \in Actions, Clock(action) PROVE MonthInv'
  BY <1>1, MonthClock
<1>2. ASSUME Shape', log' = log PROVE MonthInv'
  BY <1>2 DEF MonthInv
<1>3. Shape
  BY DEF MonthInv
<1>4. ASSUME NEW d \in Dates, NEW entry \in Salaries, AddEntry(d, entry) PROVE MonthInv'
  <2>1. /\ salary' = [salary EXCEPT ![d] = entry] /\ now' = now /\ log' = log /\ leave' = leave
    BY <1>4 DEF AddEntry
  <2>2. salary' \in [Dates -> Salaries \cup {NoSalary}]
    BY <1>3, <2>1 DEF Shape, Histories
  <2>3. Shape'
    BY <1>3, <2>1, <2>2 DEF Shape, Histories
  <2>4. QED BY <1>2, <2>1, <2>3
<1>5. CASE ApproveLeave
  <2>1. leave < MaxLeave /\ leave' = leave + 1 /\ now' = now /\ log' = log /\ salary' = salary
    BY <1>5 DEF ApproveLeave
  <2>2. leave' \in 0 .. MaxLeave
    BY <1>3, <2>1, PayAssumption DEF Shape
  <2>3. Shape'
    BY <1>3, <2>1, <2>2 DEF Shape, Histories
  <2>4. QED BY <1>2, <2>1, <2>3
<1>6. CASE Tick
  <2>1. now < MaxTime /\ now' = now + 1 /\ leave' = leave /\ log' = log /\ salary' = salary
    BY <1>6 DEF Tick
  <2>2. now' \in 0 .. MaxTime
    BY <1>3, <2>1, PayAssumption, SlotAssumption DEF Shape
  <2>3. \A i \in DOMAIN log : log[i].time <= now'
    <3>1. \A i \in DOMAIN log : log[i].time \in Nat /\ log[i].time <= now
      <4>1. \A i \in DOMAIN log : log[i] \in Event
        BY <1>3 DEF Shape
      <4>2. QED BY <1>3, <4>1 DEF Shape, Event
    <3>2. now \in Int
      BY <1>3, PayAssumption, SlotAssumption DEF Shape
    <3>3. QED BY <2>1, <3>1, <3>2
  <2>4. Shape'
    BY <1>3, <2>1, <2>2, <2>3 DEF Shape, Histories
  <2>5. QED BY <1>2, <2>1, <2>4
<1>7. CASE UNCHANGED vars
  <2>1. log' = log /\ now' = now /\ leave' = leave /\ salary' = salary
    BY <1>7 DEF vars
  <2>2. Shape'
    BY <1>3, <2>1 DEF Shape, Histories
  <2>3. QED BY <1>2, <2>1, <2>2
<1>8. QED BY <1>1, <1>4, <1>5, <1>6, <1>7 DEF Next

\* At every moment of a month each day's sessions agree with the stretches of the
\* log: the tally of its ended sessions with its slots, its current session with the
\* last event, and the number of its sessions with its clock-ins.
THEOREM MonthInvariant == Spec => []MonthInv
<1>1. Init => MonthInv
  BY MonthInit
<1>2. MonthInv /\ [Next]_vars => MonthInv'
  BY MonthStep
<1>3. QED BY <1>1, <1>2, PTL DEF Spec

-----------------------------------------------------------------------------
(* Types and hours.                                                        *)

\* The shape of the state is its type.
LEMMA ShapeTyped ==
    ASSUME Shape
    PROVE  TypeOK
<1>1. now \in 0 .. MaxTime /\ leave \in 0 .. MaxLeave /\ salary \in [Dates -> Salaries \cup {NoSalary}]
      /\ now \in Nat
  BY PayAssumption, SlotAssumption DEF Shape, Histories
<1>2. log \in Seq([action : Actions, time : 0 .. now])
  <2>1. \A i \in DOMAIN log : log[i] \in [action : Actions, time : 0 .. now]
    <3> SUFFICES ASSUME NEW i \in DOMAIN log PROVE log[i] \in [action : Actions, time : 0 .. now]
      OBVIOUS
    <3>1. log[i] \in Event /\ log[i].time <= now
      BY DEF Shape
    <3>2. log[i].time \in 0 .. now
      BY <1>1, <3>1 DEF Event
    <3>3. QED BY <3>1, <3>2 DEF Event
  <2>2. log \in Seq(Event)
    BY DEF Shape
  <2> DEFINE T == [action : Actions, time : 0 .. now]
  <2>3. Len(log) \in Nat /\ log \in [1 .. Len(log) -> T]
    BY <2>1, <2>2
  <2> HIDE DEF T
  <2>4. log \in Seq(T)
    BY <2>3
  <2>5. QED BY <2>4 DEF T
<1>3. \A d \in 0 .. Days - 1 : Sessions(EventsOn(d, log)) \in Seq(Session)
  <2> SUFFICES ASSUME NEW d \in 0 .. Days - 1 PROVE Sessions(EventsOn(d, log)) \in Seq(Session)
    OBVIOUS
  <2>1. EventsOn(d, log) \in Seq(Event)
    BY EventsOnTyped DEF Shape
  <2>2. Day(EventsOn(d, log)) \in Accs
    BY <2>1, DayTyped
  <2>3. QED BY <2>2 DEF Sessions, Day, NoSessions, Accs
<1>4. QED BY <1>1, <1>2, <1>3 DEF TypeOK

\* Hours out of minutes.
LEMMA HoursOf ==
    ASSUME NEW m \in Int
    PROVE  /\ Round(100 * m, 60) \in Int
           /\ -18 <= 36 * Round(100 * m, 60) - 60 * m /\ 36 * Round(100 * m, 60) - 60 * m <= 18
           /\ m >= 0 => Round(100 * m, 60) >= 0
           /\ \A k \in Int : m <= k => Round(100 * m, 60) <= Round(100 * k, 60)
BY DEF Round

\* The hours of a day are its minutes, rounded to hundredths.
LEMMA DailyHoursAre ==
    ASSUME NEW events
    PROVE  DailyHours(events) = Round(100 * Minutes(Day(events).sessions), 60)
BY DEF DailyHours, Sessions, Day, NoSessions, Minutes, Ends

\* A day of the month under the invariant.
LEMMA DayFacts ==
    ASSUME MonthInv, NEW d \in 0 .. Days - 1
    PROVE  LET acc == Day(EventsOn(d, log))
           IN  /\ d \in Nat /\ acc \in Accs /\ log \in Seq(Event) /\ now \in Nat
               /\ Minutes(acc.sessions) \in Nat /\ Slots(acc.sessions) \in Int
               /\ Len(acc.sessions) = ClockIns(log, d) /\ Len(acc.sessions) \in Nat
               /\ Tallied(acc) /\ Current(acc, d, log) /\ (NoneCrosses => Exact(acc, d, log) /\ OfDay(log))
<1> DEFINE acc == Day(EventsOn(d, log))
<1>1. log \in Seq(Event) /\ now \in Nat /\ d \in Nat
  BY PayAssumption, SlotAssumption DEF MonthInv, Shape
<1>2. acc \in Accs /\ acc.sessions \in Seq(Session)
  BY <1>1, EventsOnTyped, DayTyped DEF Accs
<1>3. /\ Tallied(acc) /\ Current(acc, d, log) /\ Len(acc.sessions) = ClockIns(log, d)
      /\ Crossless(log) => Exact(acc, d, log) /\ OfDay(log)
  BY DEF MonthInv, DayInv
<1>4. NoneCrosses <=> Crossless(log)
  BY DEF NoneCrosses, Crossless
<1> HIDE DEF acc
<1>5. Minutes(acc.sessions) \in Int /\ Slots(acc.sessions) \in Int /\ Len(acc.sessions) \in Nat
  BY <1>2, Measures
<1>6. Minutes(acc.sessions) \in Nat
  BY <1>3, <1>5 DEF Tallied
<1>7. QED BY <1>1, <1>2, <1>3, <1>4, <1>5, <1>6 DEF acc

\* The hours of a day are its slots, up to the rounding.
LEMMA HoursAreSlots ==
    ASSUME MonthInv, NEW d \in 0 .. Days - 1
    PROVE  LET off == 36 * DailyHours(EventsOn(d, log)) - SlotSeconds * Slots(Day(EventsOn(d, log)).sessions)
           IN  /\ DailyHours(EventsOn(d, log)) \in Nat
               /\ SlotSeconds * Slots(Day(EventsOn(d, log)).sessions) \in Int
               /\ ClockIns(log, d) \in Nat
               /\ -(30 * ClockIns(log, d) + 18) <= off /\ off <= 30 * ClockIns(log, d) + 18
<1> DEFINE acc == Day(EventsOn(d, log))
           m == Minutes(acc.sessions)
           h == DailyHours(EventsOn(d, log))
           s == SlotSeconds * Slots(acc.sessions)
           n == Len(acc.sessions)
<1>1. /\ m \in Nat /\ Slots(acc.sessions) \in Int /\ n = ClockIns(log, d) /\ n \in Nat /\ Tallied(acc)
      /\ acc \in Accs
  BY DayFacts
<1>2. Done(acc) \in Int /\ Done(acc) <= n
  BY <1>1 DEF Done
<1>3. -30 * Done(acc) <= 60 * m - s /\ 60 * m - s <= 30 * Done(acc)
  BY <1>1 DEF Tallied
<1>4. s \in Int
  BY <1>1, SlotAssumption
<1>5. h = Round(100 * m, 60)
  BY DailyHoursAre
<1> HIDE DEF m, h, s, n, acc
<1>6. h \in Int /\ -18 <= 36 * h - 60 * m /\ 36 * h - 60 * m <= 18 /\ h >= 0
  BY <1>1, <1>5, HoursOf
<1>7. -(30 * n + 18) <= 36 * h - s /\ 36 * h - s <= 30 * n + 18
  BY <1>1, <1>2, <1>3, <1>4, <1>6
<1>8. h \in Nat
  BY <1>6
<1>9. QED BY <1>1, <1>4, <1>7, <1>8 DEF h, s, acc

\* HoursTrue under the invariant.
LEMMA HoursAreTrue == ASSUME MonthInv PROVE HoursTrue
<1> SUFFICES ASSUME NoneCrosses, NEW d \in 0 .. Days - 1 PROVE Credited(d)
  BY DEF HoursTrue
<1> DEFINE s == Slots(Day(EventsOn(d, log)).sessions)
           seconds == SecondsWorked(log, d, now, FALSE)
           h == DailyHours(EventsOn(d, log))
           n == ClockIns(log, d)
<1>1. /\ d \in Nat /\ log \in Seq(Event) /\ now \in Nat /\ 0 \in Nat
      /\ Exact(Day(EventsOn(d, log)), d, log) /\ OfDay(log)
  BY DayFacts
<1>2. seconds = SlotSeconds * RefClosed(log, d, now)
  BY <1>1, SecondsAre
<1>3. RefClosed(log, d, now) = RefClosed(log, d, 0)
  BY <1>1, RefClosedStays
<1>4. RefClosed(log, d, 0) = s
  BY <1>1 DEF Exact
<1>5. seconds = SlotSeconds * s
  BY <1>2, <1>3, <1>4
<1>6. /\ -(30 * n + 18) <= 36 * h - SlotSeconds * s /\ 36 * h - SlotSeconds * s <= 30 * n + 18
  BY HoursAreSlots
<1>7. Within(h, seconds, 30 * n + 18)
  BY <1>5, <1>6 DEF Within
<1>8. QED BY <1>7 DEF Credited

\* The clock, the log, the salary history and the sessions of every day keep their
\* types, whatever is clocked, entered or approved.
THEOREM PayrollTyped == Spec => []TypeOK
<1>1. MonthInv => TypeOK
  BY ShapeTyped DEF MonthInv
<1>2. QED BY <1>1, MonthInvariant, PTL

\* The daily hours the payroll reads are the time the state machine was clocked in,
\* breaks taken off, up to the rounding of minutes: for any month, any number of
\* sessions and breaks per day.
THEOREM HoursAlwaysTrue == Spec => []HoursTrue
BY HoursAreTrue, MonthInvariant, PTL

\* The salary of a month is what its days come to at the amounts in force, but for
\* the days before the first change: for any salary history (BlendAccounted).
THEOREM BlendAlwaysAccounted == Spec => []BlendAccounted
<1>1. MonthInv => BlendAccounted
  BY BlendOfHistory DEF MonthInv, Shape
<1>2. QED BY <1>1, MonthInvariant, PTL

-----------------------------------------------------------------------------
(* The hours so far.                                                       *)

\* The open session getSummary looks for, and all there are.
FirstIn(sessions) == SelectInSeq(sessions, LAMBDA s : s.clockOut = NoTime)
OpenSessions(sessions) == { i \in 1 .. Len(sessions) : sessions[i].clockOut = NoTime }

\* A log that does not end in a CLOCK_OUT is that of somebody clocked in.
LEMMA ClockedInState ==
    ASSUME log \in Seq(Event)
    PROVE  ClockedIn(log) <=> CurrentState # "IDLE"
<1>1. CASE log = << >>
  BY <1>1 DEF CurrentState, ClockedIn
<1>2. CASE log # << >>
  <2> DEFINE a == Last(log).action
             To(s) == \E from \in States : <<from, a, s>> \in Transitions
  <2>1. a \in Actions
    BY <1>2, LastTyped
  <2>2. CurrentState = CHOOSE s \in States : To(s)
    BY <1>2 DEF CurrentState
  <2>3. \E s \in States : To(s)
    BY <2>1 DEF Actions, States, Transitions
  <2>4. To(CurrentState)
    BY <2>2, <2>3
  <2>5. CurrentState = "IDLE" <=> a = "CLOCK_OUT"
    BY <2>4 DEF Transitions
  <2>6. QED BY <1>2, <2>5 DEF ClockedIn
<1>3. QED BY <1>1, <1>2

\* The first open session of a day is its current one.
LEMMA FirstOpenSession ==
    ASSUME NEW acc \in Accs, Tallied(acc)
    PROVE  FirstIn(acc.sessions) = IF acc.inSession THEN Len(acc.sessions) ELSE 0
<1> DEFINE ss == acc.sessions
           n == Len(ss)
           U == OpenSessions(ss)
<1>1. ss \in Seq(Session) /\ n \in Nat /\ (acc.inSession => n # 0 /\ ss[n].clockOut = NoTime)
  BY DEF Accs
<1>2. FirstIn(ss) = IF U # {} THEN Min(U) ELSE 0
  BY DEF FirstIn, SelectInSeq, OpenSessions
<1>3. \A i \in 1 .. Done(acc) : ss[i].clockOut # NoTime
  BY DEF Tallied
<1>4. CASE ~ acc.inSession
  <2>1. U = {}
    BY <1>1, <1>3, <1>4 DEF OpenSessions, Done
  <2>2. QED BY <1>2, <1>4, <2>1
<1>5. CASE acc.inSession
  <2>1. n \in 1 .. n /\ Done(acc) = n - 1
    BY <1>1, <1>5 DEF Done
  <2>2. \A i \in 1 .. n : i # n => i \in 1 .. n - 1
    BY <1>1
  <2> HIDE DEF n, ss
  <2>3. U = {n}
    BY <1>1, <1>3, <1>5, <2>1, <2>2 DEF OpenSessions, n, ss
  <2>4. Numbers(U) /\ U # {}
    BY <1>1, <2>3 DEF Numbers
  <2>5. Min(U) \in U
    BY <2>4, MinPicks
  <2>6. Min(U) = n
    BY <2>3, <2>5
  <2>7. QED BY <1>2, <1>5, <2>4, <2>6 DEF n, ss
<1>6. QED BY <1>4, <1>5

\* What has been spent in the open break, if there is one.
LEMMA InOpenBreaks ==
    ASSUME NEW breaks \in Seq(Break), NEW t \in Nat
    PROVE  LET spent == Sum(LAMBDA i : t - breaks[i].start, { i \in DOMAIN breaks : breaks[i].end = NoTime })
           IN  /\ OpenBreaks(breaks) = {} => spent = 0
               /\ \A k : OpenBreaks(breaks) = {k} => spent = t - breaks[k].start
<1> DEFINE f == [i \in OpenBreaks(breaks) |-> t - breaks[i].start]
<1>1. OpenBreaks(breaks) = { i \in DOMAIN breaks : breaks[i].end = NoTime }
  BY DEF OpenBreaks
<1>2. Sum(LAMBDA i : t - breaks[i].start, { i \in DOMAIN breaks : breaks[i].end = NoTime })
        = SumFunctionOnSet(f, OpenBreaks(breaks))
  BY <1>1 DEF Sum
<1>3. SumFunctionOnSet(f, {}) = 0 /\ IsFiniteSet({})
  BY FS_EmptySet, SumFirst
<1>4. ASSUME NEW k, OpenBreaks(breaks) = {k}
      PROVE  SumFunctionOnSet(f, OpenBreaks(breaks)) = t - breaks[k].start
  <2>1. k \in 1 .. Len(breaks) /\ breaks[k] \in Break
    BY <1>4 DEF OpenBreaks
  <2>2. breaks[k].start \in Nat
    <3> DEFINE b == breaks[k]
    <3>1. b \in Break
      BY <2>1
    <3> HIDE DEF b
    <3>2. b.start \in Nat
      BY <3>1 DEF Break
    <3>3. QED BY <3>2 DEF b
  <2>3. f[k] = t - breaks[k].start /\ f[k] \in Int
    BY <1>4, <2>2
  <2> HIDE DEF f
  <2>4. IsFiniteSet({k}) /\ {k} \ {k} = {}
    BY FS_Singleton
  <2>5. SumFunctionOnSet(f, {k}) = f[k] + SumFunctionOnSet(f, {k} \ {k})
    BY <2>3, <2>4, SumRemove
  <2>6. SumFunctionOnSet(f, {k}) = f[k]
    <3> DEFINE x == f[k]
    <3>1. SumFunctionOnSet(f, {k}) = x + SumFunctionOnSet(f, {})
      BY <2>4, <2>5
    <3>2. x \in Int
      BY <2>3
    <3> HIDE DEF x
    <3>3. SumFunctionOnSet(f, {k}) = x
      BY <1>3, <3>1, <3>2
    <3>4. QED BY <3>3 DEF x
  <2>7. QED BY <1>4, <2>3, <2>6
<1> HIDE DEF f
<1>5. QED BY <1>2, <1>3, <1>4

\* What the open session has come to.
ElapsedOf(session, t) ==
    t - session.clockIn
      - Sum(LAMBDA i : t - session.breaks[i].start,
            { i \in DOMAIN session.breaks : session.breaks[i].end = NoTime })
      - BreakSlots(session)
Elapsed(acc, t) == ElapsedOf(Open(acc), t)

\* The open session so far: an open break counts up to now and not as work.
LEMMA ElapsedIs ==
    ASSUME NEW acc \in Accs, acc.inSession, NEW last \in Event, Busy(acc, last), NEW t \in Nat
    PROVE  /\ Elapsed(acc, t) = Worked(acc, last) + IF last.action = "BREAK_START" THEN 0 ELSE t - last.time
           /\ Elapsed(acc, t) \in Int
<1> DEFINE breaks == Open(acc).breaks
           spent == Sum(LAMBDA i : t - breaks[i].start, { i \in DOMAIN breaks : breaks[i].end = NoTime })
<1>1. /\ Open(acc).clockIn \in Nat /\ breaks \in Seq(Break) /\ BreakSlots(Open(acc)) \in Int
      /\ last.time \in Nat
  BY OpenTyped DEF Event
<1>2. Elapsed(acc, t) = t - Open(acc).clockIn - spent - BreakSlots(Open(acc))
  BY DEF Elapsed, ElapsedOf
<1>3. Worked(acc, last) = last.time - Open(acc).clockIn - BreakSlots(Open(acc))
  BY DEF Worked
<1> HIDE DEF breaks
<1>4. /\ OpenBreaks(breaks) = {} => spent = 0
      /\ \A k : OpenBreaks(breaks) = {k} => spent = t - breaks[k].start
  BY <1>1, InOpenBreaks
<1> HIDE DEF spent
<1>5. CASE last.action = "BREAK_START"
  <2>1. OpenBreaks(breaks) = {Len(breaks)} /\ breaks[Len(breaks)].start = last.time
    BY <1>5 DEF Busy, breaks
  <2>2. spent = t - last.time
    BY <1>4, <2>1
  <2>3. QED BY <1>1, <1>2, <1>3, <1>5, <2>2
<1>6. CASE last.action # "BREAK_START"
  <2>1. OpenBreaks(breaks) = {}
    BY <1>6 DEF Busy, breaks
  <2>2. spent = 0
    BY <1>4, <2>1
  <2>3. QED BY <1>1, <1>2, <1>3, <1>6, <2>2
<1>7. QED BY <1>5, <1>6

\* The hours so far: those of the ended sessions and of the open one.
LEMMA HoursSoFarAre ==
    ASSUME NEW events \in Seq(Event), NEW t, Tallied(Day(events))
    PROVE  HoursSoFar(events, t)
             = DailyHours(events) + IF Day(events).inSession
                                    THEN Round(100 * Elapsed(Day(events), t) * SlotSeconds, 3600) ELSE 0
<1> DEFINE acc == Day(events)
           ss == Sessions(events)
           open == FirstIn(ss)
           current == ss[open]
<1>1. acc \in Accs
  BY DayTyped
<1>2. ss = acc.sessions
  BY DEF Sessions, Day, NoSessions
<1>3. HoursSoFar(events, t)
        = DailyHours(events) + IF open = 0 THEN 0
                               ELSE Round(100 * ElapsedOf(current, t) * SlotSeconds, 3600)
  BY DEF HoursSoFar, FirstIn, ElapsedOf
<1>4. open = IF acc.inSession THEN Len(acc.sessions) ELSE 0
  <2> HIDE DEF acc, ss
  <2>1. FirstIn(acc.sessions) = IF acc.inSession THEN Len(acc.sessions) ELSE 0
    BY <1>1, FirstOpenSession DEF acc
  <2>2. QED BY <1>2, <2>1
<1>5. acc.inSession => open # 0 /\ current = Open(acc)
  <2>1. acc.inSession => Len(acc.sessions) # 0 /\ Open(acc) = acc.sessions[Len(acc.sessions)]
    BY <1>1, OpenTyped DEF Open
  <2> HIDE DEF acc, ss
  <2>2. QED BY <1>2, <1>4, <2>1
<1> HIDE DEF acc, ss, open, current
<1>6. QED BY <1>3, <1>4, <1>5 DEF Elapsed, acc

\* Rounding to hundredths of an hour loses half of one at most.
LEMMA HoursOfSlots ==
    ASSUME NEW x \in Int
    PROVE  LET h == Round(100 * x, 3600)
           IN  h \in Int /\ -18 <= 36 * h - x /\ 36 * h - x <= 18
BY DEF Round

\* The stretches of today up to now, in ended sessions and in the current one.
LEMMA TodayAdds ==
    ASSUME MonthInv, NoneCrosses, CurrentState # "IDLE" => DayOf(Last(log).time) = DayOf(now),
           DayOf(now) \in 0 .. Days - 1
    PROVE  LET acc == Day(EventsOn(DayOf(now), log))
           IN  RefAll(log, DayOf(now), now) = Slots(acc.sessions) + IF acc.inSession THEN Elapsed(acc, now) ELSE 0
<1> DEFINE d == DayOf(now)
           acc == Day(EventsOn(d, log))
           last == Last(log)
<1>1. /\ acc \in Accs /\ log \in Seq(Event) /\ now \in Nat /\ Slots(acc.sessions) \in Int
      /\ Tallied(acc) /\ Current(acc, d, log) /\ Exact(acc, d, log)
  BY DayFacts
<1>2. ClockedIn(log) => DayOf(last.time) = d
  BY <1>1, ClockedInState
<1>3. acc.inSession <=> ClockedIn(log)
  BY <1>1, <1>2 DEF Exact
<1> HIDE DEF acc, d
<1>4. CASE ~ ClockedIn(log)
  <2>1. RefClosed(log, d, 0) = RefAll(log, d, now)
    BY <1>1, <1>4, RefIdle DEF ClockedIn
  <2>2. RefAll(log, d, now) = Slots(acc.sessions)
    BY <1>1, <2>1 DEF Exact
  <2>3. QED BY <1>1, <1>3, <1>4, <2>2 DEF acc, d
<1>5. CASE ClockedIn(log)
  <2>1. log # << >> /\ last \in Event /\ last.time \in Nat /\ DayOf(last.time) = d
    BY <1>1, <1>2, <1>5, LastTyped DEF ClockedIn
  <2>2. Busy(acc, last)
    BY <1>1, <1>3, <1>5, <2>1 DEF Current
  <2>3. RefAll(log, d, last.time) = Slots(acc.sessions) + Worked(acc, last)
    BY <1>1, <1>3, <1>5, <2>1 DEF Exact
  <2>4. last.action = "BREAK_START" \/ last.action \in {"CLOCK_IN", "BREAK_END"}
    BY <2>2 DEF Busy
  <2>5. RefAll(log, d, now) = RefAll(log, d, last.time)
                                + IF last.action \in {"CLOCK_IN", "BREAK_END"} THEN now - last.time ELSE 0
    BY <1>1, <2>1, RefUntil
  <2>6. /\ Elapsed(acc, now) = Worked(acc, last) + IF last.action = "BREAK_START" THEN 0 ELSE now - last.time
        /\ Elapsed(acc, now) \in Int
    BY <1>1, <1>3, <1>5, <2>1, <2>2, ElapsedIs
  <2>7. Worked(acc, last) \in Int
    BY <1>1, <1>3, <1>5, <2>1, OpenTyped DEF Worked
  <2>8. RefAll(log, d, now) = Slots(acc.sessions) + Elapsed(acc, now)
    <3>1. CASE last.action = "BREAK_START"
      BY <1>1, <2>3, <2>5, <2>6, <2>7, <3>1
    <3>2. CASE last.action \in {"CLOCK_IN", "BREAK_END"}
      BY <1>1, <2>1, <2>3, <2>5, <2>6, <2>7, <3>2
    <3>3. QED BY <2>4, <3>1, <3>2
  <2>9. QED BY <1>3, <1>5, <2>8 DEF acc, d
<1>6. QED BY <1>4, <1>5

\* Today is a day of the month.
LEMMA TodayIsInMonth == ASSUME Shape PROVE DayOf(now) \in 0 .. Days - 1
<1>1. now \in Nat /\ now <= Days * DaySlots - 1 /\ Days \in Nat \ {0} /\ DaySlots \in Nat \ {0}
  BY PayAssumption, SlotAssumption DEF Shape
<1> DEFINE q == now \div DaySlots
<1>2. DaySlots * q <= now /\ q \in Nat
  BY <1>1
<1> HIDE DEF q
<1>3. q < Days
  <2> SUFFICES ASSUME Days <= q PROVE FALSE
    BY <1>1, <1>2
  <2>1. DaySlots * Days <= DaySlots * q
    BY <1>1, <1>2
  <2>2. DaySlots * Days = Days * DaySlots /\ DaySlots * Days \in Int /\ DaySlots * q \in Int
    BY <1>1, <1>2
  <2>3. QED BY <1>1, <1>2, <2>1, <2>2
<1>4. q \in 0 .. Days - 1
  BY <1>1, <1>2, <1>3
<1>5. QED BY <1>4 DEF DayOf, q

\* SummaryLive under the invariant.
LEMMA SummaryIsLive == ASSUME MonthInv PROVE SummaryLive
<1> SUFFICES ASSUME NoneCrosses, CurrentState # "IDLE" => DayOf(Last(log).time) = DayOf(now)
             PROVE  Within(HoursToday, SecondsWorked(log, DayOf(now), now, TRUE),
                           30 * ClockIns(log, DayOf(now)) + 36)
  BY DEF SummaryLive
<1> DEFINE d == DayOf(now)
           events == EventsOn(d, log)
           acc == Day(events)
           h == DailyHours(events)
           slots == Slots(acc.sessions)
           n == ClockIns(log, d)
           el == IF acc.inSession THEN Elapsed(acc, now) ELSE 0
           x == el * SlotSeconds
           seconds == SecondsWorked(log, d, now, TRUE)
<1>1. d \in 0 .. Days - 1
  BY TodayIsInMonth DEF MonthInv
<1>2. /\ acc \in Accs /\ log \in Seq(Event) /\ now \in Nat /\ slots \in Int
      /\ Tallied(acc) /\ Current(acc, d, log) /\ Exact(acc, d, log) /\ OfDay(log) /\ events \in Seq(Event)
  BY <1>1, DayFacts, EventsOnTyped
<1>3. RefAll(log, d, now) = slots + el
  BY <1>1, TodayAdds
<1>4. seconds = SlotSeconds * RefAll(log, d, now)
  BY <1>2, SecondsAre
<1>5. el \in Int
  <2>1. ASSUME acc.inSession PROVE Elapsed(acc, now) \in Int
    <3>1. log # << >> /\ d = DayOf(Last(log).time)
      BY <1>2, <2>1 DEF Exact, ClockedIn
    <3>2. Last(log) \in Event /\ Busy(acc, Last(log))
      BY <1>2, <2>1, <3>1, LastTyped DEF Current
    <3>3. QED BY <1>2, <2>1, <3>2, ElapsedIs
  <2>2. QED BY <2>1
<1>6. HoursToday = h + IF acc.inSession THEN Round(100 * Elapsed(acc, now) * SlotSeconds, 3600) ELSE 0
  BY <1>2, HoursSoFarAre DEF HoursToday
<1>7. /\ h \in Nat /\ SlotSeconds * slots \in Int /\ n \in Nat
      /\ -(30 * n + 18) <= 36 * h - SlotSeconds * slots /\ 36 * h - SlotSeconds * slots <= 30 * n + 18
  BY <1>1, HoursAreSlots
<1> HIDE DEF h, slots, n, seconds, acc, events
<1>8. SlotSeconds \in Nat
  BY SlotAssumption
<1>9. CASE acc.inSession
  <2> DEFINE E == Elapsed(acc, now)
             y == E * SlotSeconds
             r == Round(100 * y, 3600)
  <2>1. E \in Int /\ el = E
    BY <1>5, <1>9
  <2> HIDE DEF E
  <2>2. y \in Int /\ 100 * E * SlotSeconds = 100 * y /\ SlotSeconds * (slots + E) = SlotSeconds * slots + y
    BY <1>2, <1>8, <2>1
  <2>3. HoursToday = h + r
    BY <1>6, <1>9, <2>2 DEF E
  <2> HIDE DEF y
  <2>4. r \in Int /\ -18 <= 36 * r - y /\ 36 * r - y <= 18
    BY <2>2, HoursOfSlots
  <2>5. seconds = SlotSeconds * slots + y
    BY <1>3, <1>4, <2>1, <2>2
  <2> HIDE DEF r, el
  <2>6. Within(h + r, seconds, 30 * n + 36)
    BY <1>7, <2>2, <2>4, <2>5 DEF Within
  <2>7. QED BY <2>3, <2>6 DEF seconds, n
<1>10. CASE ~ acc.inSession
  <2>1. HoursToday = h
    BY <1>6, <1>7, <1>10
  <2>2. seconds = SlotSeconds * slots
    BY <1>2, <1>3, <1>4, <1>10
  <2>3. Within(h, seconds, 30 * n + 36)
    BY <1>7, <2>2 DEF Within
  <2>4. QED BY <2>1, <2>3 DEF seconds, n
<1>11. QED BY <1>9, <1>10

\* hoursToday of the summary is what has been worked today up to now, the open
\* session included and an open break not, up to rounding.
THEOREM SummaryAlwaysLive == Spec => []SummaryLive
BY SummaryIsLive, MonthInvariant, PTL

-----------------------------------------------------------------------------
(* Pay.                                                                    *)

\* Smaller terms, smaller sum.
LEMMA SumMonotone ==
    ASSUME NEW S, IsFiniteSet(S), NEW f, NEW g, \A x \in S : f[x] \in Int /\ g[x] \in Int /\ f[x] <= g[x]
    PROVE  SumFunctionOnSet(f, S) <= SumFunctionOnSet(g, S)
<1> DEFINE fs(T) == SumFunctionOnSet(f, T)
           gs(T) == SumFunctionOnSet(g, T)
           B == { T \in SUBSET S : ~ fs(T) <= gs(T) }
<1> SUFFICES ASSUME B # {} PROVE FALSE
  OBVIOUS
<1>1. PICK T \in B : \A U \in B : U \subseteq T => U = T
  <2>1. B \in SUBSET SUBSET S
    OBVIOUS
  <2> HIDE DEF B
  <2>2. QED BY <2>1, SmallestSubset
<1>2. T \in SUBSET S /\ IsFiniteSet(T) /\ ~ fs(T) <= gs(T)
  BY <1>1, FS_Subset
<1>3. \A x \in T : f[x] \in Int /\ g[x] \in Int /\ f[x] <= g[x]
  BY <1>2
<1>4. T # {}
  <2>1. T = {} => fs(T) = 0 /\ gs(T) = 0
    BY <1>2, FS_EmptySet, SumFirst
  <2>2. QED BY <1>2, <2>1
<1>5. PICK x \in T : TRUE
  BY <1>4
<1>6. fs(T) = f[x] + fs(T \ {x}) /\ fs(T \ {x}) \in Int
  BY <1>2, <1>3, SumRemove
<1>7. gs(T) = g[x] + gs(T \ {x}) /\ gs(T \ {x}) \in Int
  BY <1>2, <1>3, SumRemove
<1>8. fs(T \ {x}) <= gs(T \ {x})
  <2>1. T \ {x} \in SUBSET S /\ T \ {x} \subseteq T /\ T \ {x} # T
    BY <1>2, <1>5
  <2>2. T \ {x} \notin B
    BY <1>1, <2>1
  <2>3. QED BY <2>1, <2>2
<1> DEFINE a == f[x]
           b == g[x]
           c == fs(T \ {x})
           e == gs(T \ {x})
<1>9. a \in Int /\ b \in Int /\ a <= b
  BY <1>3
<1>10. c \in Int /\ e \in Int /\ c <= e
  BY <1>6, <1>7, <1>8
<1>11. fs(T) = a + c /\ gs(T) = b + e
  BY <1>6, <1>7
<1> HIDE DEF a, b, c, e
<1>12. a + c <= b + e
  BY <1>9, <1>10
<1>13. QED BY <1>2, <1>11, <1>12

\* The hours of a month are natural, and no fewer when every day's are.
LEMMA TotalTyped ==
    ASSUME NEW events, NEW requests \in Nat, \A d \in 0 .. Days - 1 : DailyHours(EventsOn(d, events)) \in Nat
    PROVE  TotalHours(events, requests) \in Nat
<1> DEFINE S == 0 .. Days - 1
           f == [d \in S |-> DailyHours(EventsOn(d, events))]
<1>1. Days \in Nat /\ DailyMinimum \in Nat
  BY PayAssumption
<1>2. IsFiniteSet(S)
  BY <1>1, FS_Interval
<1>3. \A d \in S : f[d] \in Nat
  OBVIOUS
<1>4. TotalHours(events, requests) = SumFunctionOnSet(f, S) + 100 * requests * DailyMinimum
  BY DEF TotalHours, Sum
<1> HIDE DEF S, f
<1>5. SumFunctionOnSet(f, S) \in Nat
  BY <1>2, <1>3, SumNat
<1>6. 100 * requests * DailyMinimum \in Nat
  BY <1>1
<1>7. QED BY <1>4, <1>5, <1>6

\* More hours on every day, no fewer in the month.
LEMMA TotalMonotone ==
    ASSUME NEW events, NEW more, NEW requests \in Nat,
           \A d \in 0 .. Days - 1 : /\ DailyHours(EventsOn(d, events)) \in Int
                                    /\ DailyHours(EventsOn(d, more)) \in Int
                                    /\ DailyHours(EventsOn(d, events)) <= DailyHours(EventsOn(d, more))
    PROVE  TotalHours(events, requests) <= TotalHours(more, requests)
           /\ TotalHours(events, requests) \in Int
<1> DEFINE S == 0 .. Days - 1
           f == [d \in S |-> DailyHours(EventsOn(d, events))]
           g == [d \in S |-> DailyHours(EventsOn(d, more))]
           leaves == 100 * requests * DailyMinimum
<1>1. Days \in Nat /\ DailyMinimum \in Nat
  BY PayAssumption
<1>2. IsFiniteSet(S)
  BY <1>1, FS_Interval
<1>3. \A d \in S : f[d] \in Int /\ g[d] \in Int /\ f[d] <= g[d]
  OBVIOUS
<1>4. /\ TotalHours(events, requests) = SumFunctionOnSet(f, S) + leaves
      /\ TotalHours(more, requests) = SumFunctionOnSet(g, S) + leaves
  BY DEF TotalHours, Sum
<1>5. leaves \in Int
  BY <1>1
<1> HIDE DEF S, f, g, leaves
<1>6. SumFunctionOnSet(f, S) <= SumFunctionOnSet(g, S)
  BY <1>2, <1>3, SumMonotone
<1>7. SumFunctionOnSet(f, S) \in Int /\ SumFunctionOnSet(g, S) \in Int
  BY <1>2, <1>3, SumFirst
<1>8. QED BY <1>4, <1>5, <1>6, <1>7

\* A number or nothing, whichever is more.
LEMMA Clipped ==
    ASSUME NEW x \in Int
    PROVE  Max({0, x}) = IF x >= 0 THEN x ELSE 0
<1> DEFINE S == {0, x}
<1>1. IsFiniteSet(S)
  <2>1. IsFiniteSet({0})
    BY FS_Singleton
  <2>2. IsFiniteSet({0} \cup {x})
    BY <2>1, FS_AddElement
  <2>3. S = {0} \cup {x}
    OBVIOUS
  <2>4. QED BY <2>2, <2>3
<1>2. Positions(S) /\ S # {} /\ S \in SUBSET S
  BY DEF Positions
<1> HIDE DEF S
<1>3. Max(S) \in S /\ \A y \in S : y <= Max(S)
  BY <1>1, <1>2, MaxPicks
<1>4. QED BY <1>3 DEF S

\* Overtime and deficit: the distance from the required hours, on either side.
LEMMA ClippedHours ==
    ASSUME NEW total \in Int
    PROVE  /\ RequiredHours = 100 * MonthlyMinimum /\ RequiredHours \in Nat
           /\ OvertimeHours(total) = IF total >= RequiredHours THEN total - RequiredHours ELSE 0
           /\ DeficitHours(total) = IF total <= RequiredHours THEN RequiredHours - total ELSE 0
<1>1. RequiredHours = 100 * MonthlyMinimum /\ RequiredHours \in Nat
  BY PayAssumption DEF RequiredHours
<1>2. OvertimeHours(total) = IF total - RequiredHours >= 0 THEN total - RequiredHours ELSE 0
  BY <1>1, Clipped DEF OvertimeHours
<1>3. DeficitHours(total) = IF RequiredHours - total >= 0 THEN RequiredHours - total ELSE 0
  BY <1>1, Clipped DEF DeficitHours
<1>4. total - RequiredHours >= 0 <=> total >= RequiredHours
  BY <1>1
<1>5. RequiredHours - total >= 0 <=> total <= RequiredHours
  BY <1>1
<1>6. QED BY <1>1, <1>2, <1>3, <1>4, <1>5

\* The base salary is a natural number.
LEMMA BaseTyped == ASSUME salary \in Histories PROVE BlendedSalary \in Nat
<1>1. /\ Days \in Nat \ {0} /\ MonthEnd = Days + 1
      /\ \A d \in 0 .. Days : MonthlySalary(salary[d]) \in Nat
  BY EntriesTyped
<1>2. CASE Applicable = {}
  BY <1>2 DEF BlendedSalary
<1>3. CASE Applicable # {} /\ Cardinality(WithinMonth) <= 1
  <2>1. Positions(Applicable) /\ IsFiniteSet(Applicable) /\ Applicable \subseteq 0 .. Days
    BY ChangesTyped
  <2>2. Max(Applicable) \in Applicable
    <3> DEFINE A == Applicable
    <3> HIDE DEF A
    <3>1. Positions(A) /\ IsFiniteSet(A) /\ A # {} /\ A \in SUBSET A
      BY <1>3, <2>1 DEF A
    <3>2. Max(A) \in A
      BY <3>1, MaxPicks
    <3>3. QED BY <3>2 DEF A
  <2> DEFINE v == MonthlySalary(salary[Max(Applicable)])
  <2>3. v \in Nat
    BY <1>1, <2>1, <2>2
  <2>4. BlendedSalary = Days * v
    BY <1>3 DEF BlendedSalary
  <2> HIDE DEF v
  <2>5. QED BY <1>1, <2>3, <2>4
<1>4. CASE Applicable # {} /\ ~ Cardinality(WithinMonth) <= 1
  <2> DEFINE W == WithinMonth
  <2>1. W \subseteq 1 .. Days /\ IsFiniteSet(W)
    BY ChangesTyped
  <2>2. \A d \in W : Segments[d] \in Nat
    <3> SUFFICES ASSUME NEW d \in W PROVE Segments[d] \in Nat
      OBVIOUS
    <3> DEFINE v == MonthlySalary(salary[d])
               n == NextChange(d) - d
    <3>1. NextChange(d) \in Nat /\ d < NextChange(d)
      BY NextIsNext
    <3>2. d \in 0 .. Days /\ d \in Nat
      BY <1>1, <2>1
    <3>3. v \in Nat /\ n \in Nat
      BY <1>1, <3>1, <3>2
    <3>4. Segments[d] = v * n
      BY DEF Segments
    <3> HIDE DEF v, n
    <3>5. QED BY <3>3, <3>4
  <2>3. BlendedSalary = SumFunctionOnSet(Segments, W)
    BY <1>4 DEF BlendedSalary, Sum, Segments
  <2> HIDE DEF W
  <2>4. QED BY <2>1, <2>2, <2>3, SumNat
<1>5. QED BY <1>2, <1>3, <1>4

\* The parameters of pay.
LEMMA PayTyped ==
    /\ Part \in Nat \ {0} /\ NetPart = 400 * Part /\ NetPart \in Nat
    /\ MonthlyMinimum \in Nat \ {0} /\ OvertimeRate \in Nat
<1>1. Days \in Nat \ {0} /\ MonthlyMinimum \in Nat \ {0} /\ OvertimeRate \in Nat
  BY PayAssumption
<1>2. QED BY <1>1 DEF Part, NetPart

\* The hourly rate: what the salary comes to per hour, up to a half.
LEMMA RateTyped ==
    ASSUME NEW base \in Nat
    PROVE  /\ HourlyRate(base) \in Nat
           /\ 2 * (HourlyRate(base) * (Part * MonthlyMinimum)) <= 2 * base + Part * MonthlyMinimum
<1> DEFINE b == Part * MonthlyMinimum
<1>1. b \in Nat \ {0}
  BY PayTyped
<1>2. HourlyRate(base) = Round(base, b)
  BY DEF HourlyRate
<1> HIDE DEF b
<1> DEFINE c == 2 * b
           a == 2 * base + b
           q == a \div c
<1>3. c \in Nat \ {0} /\ a \in Nat
  BY <1>1
<1>4. Round(base, b) = q
  BY DEF Round
<1> HIDE DEF a, c
<1>5. c * q <= a /\ q \in Nat
  BY <1>3
<1> HIDE DEF q
<1>6. c * q = 2 * (q * b)
  BY <1>1, <1>5 DEF c
<1>7. QED BY <1>2, <1>4, <1>5, <1>6 DEF a, b

\* What is deducted for a deficit.
Deduction(rate, deficit) == IF deficit > 0 /\ rate > 0 THEN (rate * deficit + 99) \div 100 ELSE 0

\* It grows with the deficit and stays below the pay for the missing hours.
LEMMA DeductionTyped ==
    ASSUME NEW rate \in Nat, NEW deficit \in Nat
    PROVE  /\ Deduction(rate, deficit) \in Nat
           /\ \A more \in Nat : deficit <= more => Deduction(rate, deficit) <= Deduction(rate, more)
           /\ \A hours \in Nat : deficit <= 100 * hours => Deduction(rate, deficit) <= rate * hours
<1>1. \A x \in Nat : rate * x \in Nat
  OBVIOUS
<1>2. Deduction(rate, deficit) \in Nat
  <2> DEFINE y == rate * deficit
  <2>1. y \in Nat
    OBVIOUS
  <2> HIDE DEF y
  <2>2. (y + 99) \div 100 \in Nat
    BY <2>1
  <2>3. QED BY <2>2 DEF Deduction, y
<1>3. ASSUME NEW more \in Nat, deficit <= more
      PROVE  Deduction(rate, deficit) <= Deduction(rate, more)
  <2> DEFINE y == rate * deficit
             z == rate * more
  <2>1. y \in Nat /\ z \in Nat /\ y <= z
    BY <1>3
  <2>2. deficit > 0 => more > 0
    BY <1>3
  <2> HIDE DEF y, z
  <2>3. (y + 99) \div 100 <= (z + 99) \div 100 /\ 0 <= (z + 99) \div 100
    BY <2>1
  <2>4. /\ Deduction(rate, deficit) = IF deficit > 0 /\ rate > 0 THEN (y + 99) \div 100 ELSE 0
        /\ Deduction(rate, more) = IF more > 0 /\ rate > 0 THEN (z + 99) \div 100 ELSE 0
    BY DEF Deduction, y, z
  <2>5. QED BY <2>2, <2>3, <2>4
<1>4. ASSUME NEW hours \in Nat, deficit <= 100 * hours
      PROVE  Deduction(rate, deficit) <= rate * hours
  <2> DEFINE y == rate * deficit
             z == rate * hours
  <2>1. y \in Nat /\ z \in Nat
    OBVIOUS
  <2>2. y <= 100 * z
    <3>1. rate * deficit <= rate * (100 * hours)
      BY <1>4
    <3>2. rate * (100 * hours) = 100 * (rate * hours)
      OBVIOUS
    <3>3. QED BY <3>1, <3>2
  <2> HIDE DEF y, z
  <2>3. (y + 99) \div 100 <= z
    BY <2>1, <2>2
  <2>4. Deduction(rate, deficit) = IF deficit > 0 /\ rate > 0 THEN (y + 99) \div 100 ELSE 0
    BY DEF Deduction, y
  <2>5. QED BY <2>1, <2>3, <2>4 DEF z
<1>5. QED BY <1>2, <1>3, <1>4

\* The net amount in its three parts.
Premium(base) == HourlyRate(base) * OvertimeRate * Part

InParts(base, total) ==
    /\ Net(total, base) = 400 * base + OvertimeHours(total) * Premium(base)
                            - Deduction(HourlyRate(base), DeficitHours(total)) * NetPart
    /\ Premium(base) \in Nat
    /\ HourlyRate(base) \in Nat
    /\ OvertimeHours(total) \in Nat
    /\ DeficitHours(total) \in Nat

\* Net is those parts.
LEMMA NetIs == ASSUME NEW base \in Nat, NEW total \in Int PROVE InParts(base, total)
<1> DEFINE rate == HourlyRate(base)
           h == OvertimeHours(total)
<1>1. rate \in Nat /\ OvertimeRate \in Nat /\ Part \in Nat
  BY RateTyped, PayTyped
<1>2. h \in Nat /\ DeficitHours(total) \in Nat
  BY ClippedHours
<1>3. Net(total, base) = 400 * base + OvertimePay(total, rate)
                           - Deduction(rate, DeficitHours(total)) * NetPart
  BY DEF Net, DeficitDeduction, Deduction
<1>4. OvertimePay(total, rate) = h * rate * OvertimeRate * Part
  BY DEF OvertimePay
<1>5. Premium(base) = rate * OvertimeRate * Part
  BY DEF Premium
<1> HIDE DEF rate, h
<1>6. h * rate * OvertimeRate * Part = h * (rate * OvertimeRate * Part) /\ rate * OvertimeRate * Part \in Nat
  BY <1>1, <1>2
<1>7. OvertimePay(total, rate) = h * (rate * OvertimeRate * Part)
  BY <1>4, <1>6
<1>8. Premium(base) \in Nat /\ OvertimePay(total, rate) = h * Premium(base)
  BY <1>5, <1>6, <1>7
<1>9. QED BY <1>1, <1>2, <1>3, <1>8 DEF rate, h, InParts

\* More hours, no less pay.
LEMMA NetMonotone ==
    ASSUME NEW base \in Nat, NEW total \in Int, NEW more \in Int, total <= more
    PROVE  Net(total, base) <= Net(more, base)
<1> DEFINE rate == HourlyRate(base)
           c == Premium(base)
           h == OvertimeHours(total)
           k == OvertimeHours(more)
           x == Deduction(rate, DeficitHours(total))
           y == Deduction(rate, DeficitHours(more))
<1>1. /\ Net(total, base) = 400 * base + h * c - x * NetPart
      /\ Net(more, base) = 400 * base + k * c - y * NetPart
      /\ c \in Nat /\ rate \in Nat /\ h \in Nat /\ k \in Nat
      /\ DeficitHours(total) \in Nat /\ DeficitHours(more) \in Nat /\ NetPart \in Nat
  <2>1. NetPart \in Nat
    BY PayTyped
  <2>2. /\ Net(total, base) = 400 * base + h * c - x * NetPart
        /\ c \in Nat /\ rate \in Nat /\ h \in Nat /\ DeficitHours(total) \in Nat
    <3>1. InParts(base, total)
      BY NetIs
    <3>2. QED BY <3>1 DEF InParts
  <2>3. /\ Net(more, base) = 400 * base + k * c - y * NetPart
        /\ k \in Nat /\ DeficitHours(more) \in Nat
    <3>1. InParts(base, more)
      BY NetIs
    <3>2. QED BY <3>1 DEF InParts
  <2> HIDE DEF rate, c, h, k, x, y
  <2>4. QED BY <2>1, <2>2, <2>3
<1>2. h <= k /\ DeficitHours(more) <= DeficitHours(total)
  <2>1. RequiredHours \in Nat
    BY ClippedHours
  <2>2. /\ h = IF total >= RequiredHours THEN total - RequiredHours ELSE 0
        /\ k = IF more >= RequiredHours THEN more - RequiredHours ELSE 0
    BY ClippedHours
  <2>3. /\ DeficitHours(total) = IF total <= RequiredHours THEN RequiredHours - total ELSE 0
        /\ DeficitHours(more) = IF more <= RequiredHours THEN RequiredHours - more ELSE 0
    BY ClippedHours
  <2> HIDE DEF h, k
  <2>4. h <= k
    BY <2>1, <2>2
  <2>5. DeficitHours(more) <= DeficitHours(total)
    BY <2>1, <2>3
  <2>6. QED BY <2>4, <2>5
<1>3. y <= x /\ x \in Nat /\ y \in Nat
  BY <1>1, <1>2, DeductionTyped
<1> HIDE DEF rate, c, h, k, x, y
<1>4. h * c <= k * c /\ h * c \in Int /\ k * c \in Int
  BY <1>1, <1>2
<1>5. y * NetPart <= x * NetPart /\ y * NetPart \in Int /\ x * NetPart \in Int
  BY <1>1, <1>3
<1>6. QED BY <1>1, <1>4, <1>5

\* Nobody who has worked enough is paid less than the salary, nobody who has not is
\* paid more, and no deduction exceeds the salary and the rounding of the rate.
LEMMA NetFair ==
    ASSUME NEW base \in Nat, NEW total \in Nat
    PROVE  LET net == Net(total, base)
           IN  /\ total >= RequiredHours => net >= 400 * base
               /\ total <= RequiredHours => net <= 400 * base
               /\ 2 * net >= -(MonthlyMinimum + 2) * NetPart
<1> DEFINE rate == HourlyRate(base)
           c == Premium(base)
           h == OvertimeHours(total)
           deficit == DeficitHours(total)
           x == Deduction(rate, deficit)
           net == Net(total, base)
<1>1. /\ net = 400 * base + h * c - x * NetPart
      /\ c \in Nat /\ rate \in Nat /\ h \in Nat /\ deficit \in Nat
      /\ NetPart \in Nat /\ NetPart = 400 * Part /\ Part \in Nat /\ MonthlyMinimum \in Nat
  <2>1. NetPart \in Nat /\ NetPart = 400 * Part /\ Part \in Nat /\ MonthlyMinimum \in Nat
    BY PayTyped
  <2>2. total \in Int
    OBVIOUS
  <2>3. /\ net = 400 * base + h * c - x * NetPart
        /\ c \in Nat /\ rate \in Nat /\ h \in Nat /\ deficit \in Nat
    <3>1. InParts(base, total)
      BY <2>2, NetIs
    <3>2. QED BY <3>1 DEF InParts
  <2> HIDE DEF rate, c, h, deficit, x, net
  <2>4. QED BY <2>1, <2>3
<1>2. /\ RequiredHours \in Nat /\ RequiredHours = 100 * MonthlyMinimum
      /\ h = IF total >= RequiredHours THEN total - RequiredHours ELSE 0
      /\ deficit = IF total <= RequiredHours THEN RequiredHours - total ELSE 0
  BY ClippedHours
<1>3. x \in Nat
  BY <1>1, DeductionTyped
<1>4. x <= rate * MonthlyMinimum
  <2>1. deficit <= 100 * MonthlyMinimum
    BY <1>1, <1>2
  <2>2. QED BY <1>1, <2>1, DeductionTyped
<1>5. 2 * (rate * (Part * MonthlyMinimum)) <= 2 * base + Part * MonthlyMinimum
  BY RateTyped
<1>6. deficit = 0 => x = 0
  BY DEF Deduction
<1> HIDE DEF rate, c, h, deficit, x, net
<1>7. h * c \in Nat /\ x * NetPart \in Nat
  BY <1>1, <1>3
<1>8. ASSUME total >= RequiredHours PROVE net >= 400 * base
  <2>1. deficit = 0
    BY <1>2, <1>8
  <2>2. x * NetPart = 0
    BY <1>1, <1>6, <2>1
  <2>3. QED BY <1>1, <1>7, <2>2
<1>9. ASSUME total <= RequiredHours PROVE net <= 400 * base
  <2>1. h = 0
    BY <1>2, <1>9
  <2>2. h * c = 0
    BY <1>1, <2>1
  <2>3. QED BY <1>1, <1>7, <2>2
<1>10. 2 * net >= -(MonthlyMinimum + 2) * NetPart
  <2> DEFINE m == MonthlyMinimum
             p == Part * MonthlyMinimum
  <2>1. p \in Nat /\ rate * p \in Nat
    BY <1>1
  <2>2. x * NetPart <= rate * m * NetPart
    BY <1>1, <1>3, <1>4
  <2>3. rate * m * NetPart = 400 * (rate * p)
    BY <1>1
  <2>4. -(m + 2) * NetPart = -(400 * p) - 2 * NetPart
    BY <1>1
  <2> DEFINE u == rate * p
             v == x * NetPart
             w == h * c
  <2>5. 2 * u <= 2 * base + p /\ v <= 400 * u /\ net = 400 * base + w - v
    BY <1>1, <1>5, <2>2, <2>3
  <2>6. u \in Nat /\ v \in Nat /\ w \in Nat
    BY <1>7, <2>1
  <2> HIDE DEF u, v, w, p
  <2>7. 2 * net >= -(400 * p) - 2 * NetPart
    BY <1>1, <2>1, <2>5, <2>6
  <2>8. QED BY <2>4, <2>7
<1>11. QED BY <1>8, <1>9, <1>10 DEF net

\* The hours of every day of the month, now and before the last event.
LEMMA HoursGrow ==
    ASSUME MonthInv
    PROVE  /\ BlendedSalary \in Nat /\ leave \in Nat
           /\ TotalHours(log, leave) \in Nat
           /\ log # << >> => /\ TotalHours(Front(log), leave) \in Int
                             /\ TotalHours(Front(log), leave) <= TotalHours(log, leave)
<1>1. Shape /\ LastPays(log) /\ log \in Seq(Event)
  BY DEF MonthInv, Shape
<1>2. BlendedSalary \in Nat /\ leave \in Nat
  BY <1>1, BaseTyped, PayAssumption DEF Shape
<1>3. \A d \in 0 .. Days - 1 : DailyHours(EventsOn(d, log)) \in Nat
  BY HoursAreSlots
<1>4. TotalHours(log, leave) \in Nat
  BY <1>2, <1>3, TotalTyped
<1>5. ASSUME log # << >>
      PROVE  /\ TotalHours(Front(log), leave) \in Int
             /\ TotalHours(Front(log), leave) <= TotalHours(log, leave)
  <2>1. Front(log) \in Seq(Event)
    <3>1. Len(log) \in Nat \ {0} /\ \A i \in 1 .. Len(log) : log[i] \in Event
      BY <1>1, <1>5
    <3>2. Front(log) = [i \in 1 .. Len(log) - 1 |-> log[i]]
      BY <3>1 DEF Front
    <3> DEFINE n == Len(log) - 1
    <3>3. n \in Nat /\ \A i \in 1 .. n : log[i] \in Event
      BY <3>1
    <3> HIDE DEF n
    <3>4. [i \in 1 .. n |-> log[i]] \in Seq(Event)
      BY <3>3
    <3>5. QED BY <3>2, <3>4 DEF n
  <2>2. ASSUME NEW d \in 0 .. Days - 1
        PROVE  /\ DailyHours(EventsOn(d, Front(log))) \in Int
               /\ DailyHours(EventsOn(d, log)) \in Int
               /\ DailyHours(EventsOn(d, Front(log))) <= DailyHours(EventsOn(d, log))
    <3> DEFINE m == Minutes(Day(EventsOn(d, Front(log))).sessions)
               k == Minutes(Day(EventsOn(d, log)).sessions)
    <3>1. \A events \in Seq(Event) : Minutes(Day(EventsOn(d, events)).sessions) \in Int
      BY EventsOnTyped, DayTyped, Measures DEF Accs
    <3>2. m \in Int /\ k \in Int
      BY <1>1, <2>1, <3>1
    <3>3. m <= k
      BY <1>1, <1>5 DEF LastPays, Sessions, Day, NoSessions
    <3>4. DailyHours(EventsOn(d, Front(log))) = Round(100 * m, 60)
          /\ DailyHours(EventsOn(d, log)) = Round(100 * k, 60)
      BY DailyHoursAre
    <3> HIDE DEF m, k
    <3>5. QED BY <3>2, <3>3, <3>4, HoursOf
  <2> DEFINE before == Front(log)
  <2> HIDE DEF before
  <2>3. \A d \in 0 .. Days - 1 : /\ DailyHours(EventsOn(d, before)) \in Int
                                 /\ DailyHours(EventsOn(d, log)) \in Int
                                 /\ DailyHours(EventsOn(d, before)) <= DailyHours(EventsOn(d, log))
    BY <2>2 DEF before
  <2>4. TotalHours(before, leave) <= TotalHours(log, leave) /\ TotalHours(before, leave) \in Int
    BY <1>2, <2>3, TotalMonotone
  <2>5. QED BY <2>4 DEF before
<1>6. QED BY <1>2, <1>4, <1>5

\* PaidFairly under the invariant.
LEMMA PaysFairly == ASSUME MonthInv PROVE PaidFairly
<1>1. BlendedSalary \in Nat /\ TotalHours(log, leave) \in Nat
  BY HoursGrow
<1>2. QED BY <1>1, NetFair DEF PaidFairly

\* WorkPays under the invariant.
LEMMA WorkIsPaid == ASSUME MonthInv PROVE WorkPays
<1> DEFINE base == BlendedSalary
           total == TotalHours(log, leave)
<1>1. base \in Nat /\ total \in Nat /\ leave \in Nat
  BY HoursGrow
<1>2. ASSUME log # << >> PROVE Net(TotalHours(Front(log), leave), base) <= Net(total, base)
  <2> DEFINE before == TotalHours(Front(log), leave)
  <2>1. before \in Int /\ before <= total
    BY <1>2, HoursGrow
  <2> HIDE DEF before, base, total
  <2>2. Net(before, base) <= Net(total, base)
    BY <1>1, <2>1, NetMonotone
  <2>3. QED BY <2>2 DEF before
<1>3. ASSUME leave > 0 PROVE Net(TotalHours(log, leave - 1), base) <= Net(total, base)
  <2>1. leave - 1 \in Nat /\ DailyMinimum \in Nat
    BY <1>1, <1>3, PayAssumption
  <2>2. \A d \in 0 .. Days - 1 : DailyHours(EventsOn(d, log)) \in Nat
    BY HoursAreSlots
  <2>3. TotalHours(log, leave - 1) \in Nat
    BY <2>1, <2>2, TotalTyped
  <2>4. TotalHours(log, leave - 1) <= total
    <3> DEFINE sum == Sum(LAMBDA d : DailyHours(EventsOn(d, log)), 0 .. Days - 1)
    <3>1. TotalHours(log, leave - 1) = sum + 100 * (leave - 1) * DailyMinimum
          /\ total = sum + 100 * leave * DailyMinimum
      BY DEF TotalHours
    <3> DEFINE x == 100 * (leave - 1) * DailyMinimum
               y == 100 * leave * DailyMinimum
    <3>2. x \in Int /\ y \in Int /\ x <= y
      BY <1>1, <2>1
    <3>3. sum \in Int
      <4> DEFINE S == 0 .. Days - 1
                 f == [d \in S |-> DailyHours(EventsOn(d, log))]
      <4>1. IsFiniteSet(S)
        BY FS_Interval, PayAssumption
      <4>2. \A d \in S : f[d] \in Int
        BY <2>2
      <4>3. sum = SumFunctionOnSet(f, S)
        BY DEF Sum
      <4> HIDE DEF S, f, sum
      <4>4. QED BY <4>1, <4>2, <4>3, SumFirst
    <3> HIDE DEF sum, x, y
    <3>4. sum + x <= sum + y
      BY <3>2, <3>3
    <3>5. QED BY <3>1, <3>4 DEF x, y
  <2>5. QED BY <1>1, <2>3, <2>4, NetMonotone
<1>4. QED BY <1>2, <1>3 DEF WorkPays

\* The net amount is at least the salary for whoever works the required hours, at
\* most the salary for whoever does not work more, and the deduction takes at most
\* the salary and the rounding of the hourly rate: for any salaries and rates.
THEOREM PayIsFair == Spec => []PaidFairly
BY PaysFairly, MonthInvariant, PTL

\* Neither the last clock event nor the last approved leave of a month has lowered
\* the net amount.
THEOREM WorkAlwaysPays == Spec => []WorkPays
BY WorkIsPaid, MonthInvariant, PTL
=============================================================================
