--------------------------- MODULE PlanningProofs ---------------------------
(***************************************************************************)
(* Proofs about MCPlanning: forecast plans, the rebalancing of budgets,    *)
(* billing periods, projections and scenarios, for every calendar, cycle   *)
(* day, set of requests, budget and amount, books and plan.                *)
(*                                                                         *)
(* Periods come first: the calendar, what the anomaly report says of a     *)
(* roster, what a request in flight may still believe of the table, and    *)
(* one lemma per step.  Then the arithmetic of a suggestion: the cents the *)
(* donors give and those the categories in deficit receive.  Then plans    *)
(* and their edits.  Then scenarios: which occurrences of a series a month *)
(* reaches, what they and the events of a plan add to an account, one      *)
(* month of a run, one lemma per step.  Last come projections: the walks   *)
(* over a loan's periods and a card's cycles exist and keep what they owe, *)
(* and the books they read stay well formed; and the theorems.             *)
(***************************************************************************)
EXTENDS MCPlanning, SumTheorems, SequenceTheorems

-----------------------------------------------------------------------------
(* Periods: the calendar. *)

\* Days of the calendar, and the first days of its months.
LEMMA CalendarFacts ==
    /\ Len(MonthStart) \in Nat /\ Len(MonthStart) >= 3
    /\ \A m \in 1 .. Len(MonthStart) : MonthStart[m] \in Nat /\ MonthStart[m] >= 1
    /\ \A m, n \in 1 .. Len(MonthStart) : m < n => MonthStart[m] < MonthStart[n]
    /\ MonthStart[1] = 1
    /\ B!Dates = 1 .. (MonthStart[Len(MonthStart)] - 1)
    /\ B!Months = 1 .. (Len(MonthStart) - 1)
    /\ B!Dates \subseteq Nat \ {0}
<1>1. /\ MonthStart \in Seq(Nat) /\ Len(MonthStart) >= 3 /\ MonthStart[1] = 1
      /\ \A m, n \in 1 .. Len(MonthStart) : m < n => MonthStart[m] < MonthStart[n]
  BY PlanningAssumption DEF B!PeriodsAssumption
<1>2. Len(MonthStart) \in Nat /\ \A m \in 1 .. Len(MonthStart) : MonthStart[m] \in Nat
  BY <1>1
<1>3. \A m \in 1 .. Len(MonthStart) : MonthStart[m] >= 1
  BY <1>1, <1>2
<1>4. B!Dates \subseteq Nat \ {0}
  BY <1>1, <1>2 DEF B!Dates
<1> QED BY <1>1, <1>2, <1>3, <1>4 DEF B!Dates, B!Months

\* Every day is in one month.
LEMMA MonthOfIs ==
    ASSUME NEW d \in B!Dates
    PROVE  /\ B!MonthOf(d) \in B!Months
           /\ MonthStart[B!MonthOf(d)] <= d /\ d < MonthStart[B!MonthOf(d) + 1]
<1> DEFINE L == Len(MonthStart)
           T == {n \in 1 .. L : d < MonthStart[n]}
<1>1. d \in Nat /\ d >= 1 /\ d < MonthStart[L]
  BY CalendarFacts
<1>2. T \subseteq Nat /\ L \in T
  BY <1>1, CalendarFacts
<1>3. PICK k \in T : \A n \in T : k <= n
  BY <1>2, Least
<1>4. k # 1
  BY <1>1, <1>3, CalendarFacts
<1>5. k - 1 \in 1 .. L /\ k - 1 \notin T
  BY <1>3, <1>4, CalendarFacts
<1>6. k - 1 \in B!Months /\ MonthStart[k - 1] <= d /\ d < MonthStart[(k - 1) + 1]
  BY <1>1, <1>3, <1>5, CalendarFacts
<1> QED BY <1>6 DEF B!MonthOf

\* A cycle starts within its month.
LEMMA SnapIn ==
    ASSUME NEW m \in B!Months, NEW day \in CycleDays
    PROVE  /\ B!SnapToCycle(m, day) \in B!Dates
           /\ MonthStart[m] <= B!SnapToCycle(m, day)
           /\ B!SnapToCycle(m, day) < MonthStart[m + 1]
<1>1. m \in 1 .. Len(MonthStart) /\ m + 1 \in 1 .. Len(MonthStart)
  BY CalendarFacts
<1>2. /\ MonthStart[m] \in Nat /\ MonthStart[m + 1] \in Nat /\ MonthStart[m] >= 1
      /\ MonthStart[m] < MonthStart[m + 1]
      /\ MonthStart[m + 1] <= MonthStart[Len(MonthStart)]
      /\ MonthStart[Len(MonthStart)] \in Nat
  BY <1>1, CalendarFacts
<1>3. day \in Nat /\ day >= 1
  BY PlanningAssumption DEF B!PeriodsAssumption
<1> DEFINE len == MonthStart[m + 1] - MonthStart[m]
           k == IF day < len THEN day ELSE len
<1>4. B!SnapToCycle(m, day) = MonthStart[m] + k - 1
  BY DEF B!SnapToCycle, B!MonthLength, B!Least
<1>5. k \in Nat /\ 1 <= k /\ MonthStart[m] + k <= MonthStart[m + 1]
  BY <1>2, <1>3
<1>6. B!Dates = 1 .. (MonthStart[Len(MonthStart)] - 1)
  BY CalendarFacts
<1> DEFINE lo == MonthStart[m]
           hi == MonthStart[m + 1]
           top == MonthStart[Len(MonthStart)]
<1>7. /\ lo \in Nat /\ hi \in Nat /\ top \in Nat /\ lo >= 1 /\ hi <= top
      /\ k \in Nat /\ 1 <= k /\ lo + k <= hi
  BY <1>2, <1>5
<1> HIDE DEF k, lo, hi, top
<1>8. lo + k - 1 \in 1 .. (top - 1) /\ lo <= lo + k - 1 /\ lo + k - 1 < hi
  BY <1>7
<1> QED BY <1>4, <1>6, <1>8 DEF lo, hi, top

LEMMA CycleStartIn ==
    ASSUME NEW day \in CycleDays, NEW d \in B!Dates
    PROVE  B!CurrentCycleStart(day, d) \in B!Dates
<1> DEFINE m == B!MonthOf(d)
<1>1. m \in B!Months
  BY MonthOfIs
<1>2. B!SnapToCycle(m, day) \in B!Dates
  BY <1>1, SnapIn
<1>3. m > 1 => B!SnapToCycle(m - 1, day) \in B!Dates
  <2>1. m > 1 => m - 1 \in B!Months
    BY <1>1, CalendarFacts
  <2> QED BY <2>1, SnapIn
<1> HIDE DEF m
<1>4. B!CurrentCycleStart(day, d) =
        IF B!SnapToCycle(m, day) > d /\ m > 1 THEN B!SnapToCycle(m - 1, day)
        ELSE B!Least(B!SnapToCycle(m, day), d)
  BY DEF B!CurrentCycleStart, m
<1> QED BY <1>2, <1>3, <1>4 DEF B!Least

\* The windows of two months do not meet.
LEMMA WindowsApart ==
    ASSUME cycleDay \in CycleDays, NEW m \in B!Months, m + 1 \in B!Months
    PROVE  /\ B!WindowOf(m).start \in B!Dates /\ B!WindowOf(m).end \in B!Dates
           /\ B!WindowOf(m).start <= B!WindowOf(m).end
           /\ MonthStart[m] <= B!WindowOf(m).start
           /\ \A n \in B!Months : m < n => B!WindowOf(m).end < B!WindowOf(n).start
<1> DEFINE snap(k) == B!SnapToCycle(k, cycleDay)
<1>1. \A k \in B!Months :
         /\ snap(k) \in B!Dates /\ MonthStart[k] <= snap(k) /\ snap(k) < MonthStart[k + 1]
  BY SnapIn
<1>2. \A k \in B!Months : B!WindowOf(k).start = snap(k) /\ B!WindowOf(k).end = snap(k + 1) - 1
  BY DEF B!WindowOf
<1> HIDE DEF snap
<1>3. \A k \in B!Months : MonthStart[k] \in Nat /\ MonthStart[k + 1] \in Nat /\ snap(k) \in Nat
  BY <1>1, CalendarFacts
<1>4. snap(m) < snap(m + 1)
  BY <1>1, <1>3
<1>5. snap(m + 1) - 1 \in B!Dates
  BY <1>1, <1>3, <1>4, CalendarFacts
<1>6. ASSUME NEW n \in B!Months, m < n
      PROVE  snap(m + 1) <= snap(n)
  <2>1. CASE n = m + 1
    BY <2>1, <1>3
  <2>2. CASE n # m + 1
    <3>1. m + 2 \in 1 .. Len(MonthStart) /\ n \in 1 .. Len(MonthStart) /\ m + 2 <= n
      BY <1>6, <2>2, CalendarFacts
    <3>2. MonthStart[m + 2] <= MonthStart[n]
      BY <3>1, CalendarFacts
    <3>3. snap(m + 1) < MonthStart[m + 2]
      BY <1>1, CalendarFacts
    <3> QED BY <3>1, <3>2, <3>3, <1>1, <1>3, CalendarFacts
  <2> QED BY <2>1, <2>2
<1> QED BY <1>1, <1>2, <1>3, <1>4, <1>5, <1>6

-----------------------------------------------------------------------------
(* Periods: rosters. *)

Rosters == [B!Dates -> B!Dates \cup {B!None, B!Open}]

LEMMA EndsDiffer ==
    /\ B!None = -1 /\ B!Open = 0 /\ B!None \notin B!Dates /\ B!Open \notin B!Dates
    /\ \A d \in B!Dates : d \in Nat /\ d >= 1
  BY CalendarFacts DEF B!None, B!Open

LEMMA MaxIs ==
    ASSUME NEW S \in SUBSET B!Dates, S # {}
    PROVE  B!Max(S) \in S /\ \A x \in S : x <= B!Max(S)
<1> DEFINE N == MonthStart[Len(MonthStart)]
           T == {N - x : x \in S}
<1>1. N \in Nat /\ \A x \in S : x \in Nat /\ x < N
  BY CalendarFacts
<1>2. T \subseteq Nat /\ T # {}
  BY <1>1
<1>3. PICK t \in T : \A u \in T : t <= u
  BY <1>2, Least
<1>4. PICK x \in S : t = N - x
  BY <1>3
<1>5. \A y \in S : N - x <= N - y
  BY <1>3, <1>4
<1>6. \A y \in S : x >= y
  BY <1>1, <1>5
<1>7. B!Max(S) \in S /\ \A y \in S : B!Max(S) >= y
  BY <1>6 DEF B!Max
<1> QED BY <1>1, <1>7

LEMMA MinIs ==
    ASSUME NEW S \in SUBSET B!Dates, S # {}
    PROVE  B!Min(S) \in S /\ \A x \in S : B!Min(S) <= x
<1>1. S \subseteq Nat
  BY CalendarFacts
<1>2. \E x \in S : \A y \in S : x <= y
  BY <1>1, Least
<1> QED BY <1>2 DEF B!Min

\* The current period is the latest open one.
LEMMA CurrentIs ==
    ASSUME NEW r \in Rosters, B!OpenPeriods(r) # {}
    PROVE  /\ B!CurrentOf(r) \in B!Dates /\ r[B!CurrentOf(r)] = B!Open
           /\ \A t \in B!Dates : r[t] = B!Open => t <= B!CurrentOf(r)
  BY MaxIs DEF B!CurrentOf, B!OpenPeriods

LEMMA NextRowIs ==
    ASSUME NEW r \in Rosters, NEW s \in B!Dates, B!Later(r, s) # {}
    PROVE  /\ B!Min(B!Later(r, s)) \in B!Dates /\ r[B!Min(B!Later(r, s))] # B!None
           /\ s < B!Min(B!Later(r, s))
           /\ \A t \in B!Dates : r[t] # B!None /\ s < t => B!Min(B!Later(r, s)) <= t
<1>1. B!Later(r, s) = {t \in B!Dates : r[t] # B!None /\ t > s}
  BY DEF B!Later, B!Rows
<1>2. B!Later(r, s) \in SUBSET B!Dates
  BY <1>1
<1>3. /\ B!Min(B!Later(r, s)) \in B!Later(r, s)
      /\ \A t \in B!Later(r, s) : B!Min(B!Later(r, s)) <= t
  BY <1>2, MinIs
<1> QED BY <1>1, <1>3, CalendarFacts

\* A close ends within what was asked for and before the next row.
LEMMA ResolvedEndIs ==
    ASSUME NEW r \in Rosters, NEW cur \in B!Dates, NEW date \in Int, date >= cur
    PROVE  /\ B!ResolvedEnd(r, cur, date) \in Int /\ cur <= B!ResolvedEnd(r, cur, date)
           /\ \A t \in B!Dates : r[t] # B!None /\ cur < t => B!ResolvedEnd(r, cur, date) < t
<1>1. cur \in Nat /\ B!Dates \subseteq Nat
  BY CalendarFacts
<1>2. B!Later(r, cur) = {t \in B!Dates : r[t] # B!None /\ t > cur}
  BY DEF B!Later, B!Rows
<1>3. CASE B!Later(r, cur) = {}
  BY <1>1, <1>2, <1>3 DEF B!ResolvedEnd
<1>4. CASE B!Later(r, cur) # {}
  <2> DEFINE n == B!Min(B!Later(r, cur))
  <2>1. n \in Nat /\ cur < n /\ \A t \in B!Dates : r[t] # B!None /\ cur < t => n <= t
    BY <1>1, <1>4, NextRowIs
  <2>2. B!ResolvedEnd(r, cur, date) = IF n <= date THEN n - 1 ELSE date
    BY <1>4 DEF B!ResolvedEnd
  <2> HIDE DEF n
  <2> QED BY <1>1, <2>1, <2>2
<1> QED BY <1>3, <1>4


\* An open row with a later one ends before it, so only the last row is endless.
LEMMA EffectiveEndIs ==
    ASSUME NEW r \in Rosters, NEW s \in B!Dates, r[s] # B!None, ~ B!Inverted(r, s)
    PROVE  /\ B!EffectiveEnd(r, s) \in B!Dates \cup {B!Open}
           /\ B!EffectiveEnd(r, s) # B!Open => s <= B!EffectiveEnd(r, s)
           /\ B!EffectiveEnd(r, s) = B!Open => \A t \in B!Dates : r[t] # B!None => t <= s
<1>1. s \in Nat /\ s >= 1 /\ B!Open = 0 /\ \A d \in B!Dates : d \in Nat /\ d >= 1
  BY EndsDiffer
<1>2. CASE r[s] # B!Open
  <2>1. r[s] \in B!Dates
    BY <1>2 DEF Rosters
  <2>2. B!EffectiveEnd(r, s) = r[s] /\ ~ (r[s] < s)
    BY <1>2 DEF B!EffectiveEnd, B!Inverted
  <2>3. r[s] \in Nat
    BY <1>1, <2>1
  <2>4. s <= r[s]
    <3> DEFINE e == r[s]
    <3>1. e \in Nat /\ ~ (e < s)
      BY <2>2, <2>3
    <3> HIDE DEF e
    <3>2. s <= e
      BY <1>1, <3>1
    <3> QED BY <3>2 DEF e
  <2> QED BY <1>1, <1>2, <2>1, <2>2, <2>4
<1>3. CASE r[s] = B!Open /\ B!Later(r, s) = {}
  BY <1>1, <1>3 DEF B!EffectiveEnd, B!Later, B!Rows
<1>4. CASE r[s] = B!Open /\ B!Later(r, s) # {}
  <2> DEFINE n == B!Min(B!Later(r, s))
  <2>1. n \in B!Dates /\ s < n
    BY <1>4, NextRowIs
  <2>2. B!EffectiveEnd(r, s) = n - 1
    BY <1>4 DEF B!EffectiveEnd
  <2> HIDE DEF n
  <2>3. n - 1 \in B!Dates /\ s <= n - 1
    BY <1>1, <2>1, CalendarFacts
  <2> QED BY <1>1, <2>2, <2>3
<1> QED BY <1>2, <1>3, <1>4

\* Row s counts day d.
Covers(r, s, d) == s <= d /\ (B!EffectiveEnd(r, s) = B!Open \/ d <= B!EffectiveEnd(r, s))
Span(r) == {d \in B!Dates : /\ \E s \in B!Rows(r) : s <= d
                            /\ \E s \in B!Rows(r) : Covers(r, s, d) \/ d < s}
Upright(r) == \A s \in B!Rows(r) : ~ B!Inverted(r, s)

\* Two rows that count the same day overlap.
LEMMA TwiceOverlaps ==
    ASSUME NEW r \in Rosters, Upright(r), NEW u \in B!Rows(r), NEW v \in B!Rows(r), u < v,
           NEW d \in B!Dates, Covers(r, u, d), v <= d
    PROVE  B!Overlaps(r, u, v)
<1>1. u \in B!Dates /\ v \in B!Dates /\ r[u] # B!None /\ r[v] # B!None
  BY DEF B!Rows
<1>2. ~ B!Inverted(r, u) /\ ~ B!Inverted(r, v)
  BY DEF Upright
<1>3. /\ u \in Nat /\ v \in Nat /\ d \in Nat /\ B!Open = 0
      /\ \A x \in B!Dates : x \in Nat /\ x >= 1
  BY <1>1, EndsDiffer
<1>4. B!EffectiveEnd(r, u) # B!Open
  BY <1>1, <1>2, <1>3, EffectiveEndIs
<1>5. B!EffectiveEnd(r, u) \in Nat /\ d <= B!EffectiveEnd(r, u)
  BY <1>1, <1>2, <1>3, <1>4, EffectiveEndIs DEF Covers
<1> QED BY <1>2, <1>3, <1>4, <1>5 DEF B!Overlaps

\* No gap and no overlap: the latest row that starts by a day of the span counts
\* it, and no other row does.
LEMMA CleanCoversOnce ==
    ASSUME NEW r \in Rosters, Upright(r), NEW d \in Span(r),
           \A s \in B!Rows(r) : ~ B!GapAfter(r, s),
           \A s, t \in B!Rows(r) : ~ B!Overlaps(r, s, t)
    PROVE  \E s \in B!Rows(r) : {t \in B!Rows(r) : Covers(r, t, d)} = {s}
<1> DEFINE S == {s \in B!Rows(r) : s <= d}
           s == B!Max(S)
<1>1. /\ \A x \in B!Rows(r) : x \in B!Dates
      /\ \A x \in B!Dates : x \in Nat /\ x >= 1
      /\ B!Open = 0 /\ d \in B!Dates
  BY EndsDiffer DEF B!Rows, Span
<1>2. S # {} /\ S \in SUBSET B!Dates
  BY <1>1 DEF Span
<1>3. s \in S /\ \A t \in S : t <= s
  BY <1>2, MaxIs
<1> HIDE DEF s
<1>4. s \in B!Rows(r) /\ s <= d /\ s \in B!Dates /\ r[s] # B!None /\ ~ B!Inverted(r, s)
  BY <1>1, <1>3 DEF B!Rows, Upright
<1>5. /\ B!EffectiveEnd(r, s) \in B!Dates \cup {B!Open}
      /\ B!EffectiveEnd(r, s) # B!Open => s <= B!EffectiveEnd(r, s)
  BY <1>4, EffectiveEndIs
<1>6. Covers(r, s, d)
  <2> SUFFICES ASSUME ~ Covers(r, s, d)
               PROVE  FALSE
    OBVIOUS
  <2>1. B!EffectiveEnd(r, s) # B!Open /\ B!EffectiveEnd(r, s) < d /\ B!EffectiveEnd(r, s) \in Nat
    <3> DEFINE e == B!EffectiveEnd(r, s)
    <3>1. e # B!Open /\ ~ (d <= e)
      BY <1>4 DEF Covers
    <3>2. e \in Nat /\ d \in Nat
      BY <1>1, <1>5, <3>1
    <3> HIDE DEF e
    <3>3. e < d
      BY <3>1, <3>2
    <3> QED BY <3>1, <3>2, <3>3 DEF e
  <2>2. CASE B!Later(r, s) = {}
    <3>1. \A t \in B!Rows(r) : t <= s
      BY <1>1, <1>4, <2>2 DEF B!Later
    <3>2. PICK u \in B!Rows(r) : Covers(r, u, d) \/ d < u
      BY DEF Span
    <3>3. u < s /\ Covers(r, u, d)
      BY <1>1, <1>4, <3>1, <3>2
    <3>4. B!Overlaps(r, u, s)
      BY <1>1, <1>4, <3>3, TwiceOverlaps
    <3> QED BY <1>4, <3>4
  <2>3. CASE B!Later(r, s) # {}
    <3> DEFINE n == B!Min(B!Later(r, s))
    <3>1. n \in B!Dates /\ r[n] # B!None /\ s < n
      BY <1>4, <2>3, NextRowIs
    <3> HIDE DEF n
    <3>2. n \in B!Rows(r)
      BY <3>1 DEF B!Rows
    <3>3. n > d
      BY <1>1, <1>3, <3>1, <3>2
    <3>4. n > B!EffectiveEnd(r, s) + 1 /\ ~ B!Inverted(r, n)
      BY <1>1, <2>1, <3>1, <3>2, <3>3 DEF Upright
    <3>5. B!GapAfter(r, s)
      BY <1>4, <2>1, <2>3, <3>4 DEF B!GapAfter, n
    <3> QED BY <1>4, <3>5
  <2> QED BY <2>2, <2>3
<1>7. ASSUME NEW t \in B!Rows(r), Covers(r, t, d)
      PROVE  t = s
  <2>1. t \in S
    BY <1>1, <1>7 DEF Covers
  <2>2. t <= s
    BY <1>3, <2>1
  <2>3. CASE t < s
    BY <1>1, <1>4, <1>7, <2>3, TwiceOverlaps
  <2> QED BY <1>1, <1>4, <2>2, <2>3
<1> QED BY <1>4, <1>6, <1>7

\* Every day counted once: a day after a gap, or of an overlap, is not.
LEMMA OnceIsClean ==
    ASSUME NEW r \in Rosters, Upright(r),
           \A d \in Span(r) : \E s : {t \in B!Rows(r) : Covers(r, t, d)} = {s}
    PROVE  /\ \A s, t \in B!Rows(r) : ~ B!Overlaps(r, s, t)
           /\ \A s \in B!Rows(r) : ~ B!GapAfter(r, s)
<1>1. /\ \A x \in B!Rows(r) : x \in B!Dates
      /\ \A x \in B!Dates : x \in Nat /\ x >= 1
      /\ B!Open = 0
  BY EndsDiffer DEF B!Rows
<1>2. \A s \in B!Rows(r) : /\ s \in B!Dates /\ r[s] # B!None /\ ~ B!Inverted(r, s)
                           /\ B!EffectiveEnd(r, s) \in B!Dates \cup {B!Open}
                           /\ B!EffectiveEnd(r, s) # B!Open => s <= B!EffectiveEnd(r, s)
  BY <1>1, EffectiveEndIs DEF B!Rows, Upright
<1>3. ASSUME NEW s \in B!Rows(r), NEW t \in B!Rows(r), B!Overlaps(r, s, t)
      PROVE  FALSE
  <2>1. s < t /\ t <= B!EffectiveEnd(r, s)
    BY <1>3 DEF B!Overlaps
  <2>2. Covers(r, s, t) /\ Covers(r, t, t)
    <3> DEFINE e == B!EffectiveEnd(r, t)
    <3>1. e = B!Open \/ t <= e
      BY <1>2
    <3>2. s \in Nat /\ t \in Nat /\ s <= t
      BY <1>1, <2>1
    <3> QED BY <2>1, <3>1, <3>2 DEF Covers
  <2>3. t \in Span(r)
    <3>1. t \in B!Dates /\ t <= t
      BY <1>1
    <3> QED BY <2>2, <3>1 DEF Span
  <2>4. s = t
    BY <2>2, <2>3
  <2>5. s \in Nat /\ t \in Nat
    BY <1>1
  <2> QED BY <2>1, <2>4, <2>5
<1>4. ASSUME NEW s \in B!Rows(r), B!GapAfter(r, s)
      PROVE  FALSE
  <2> DEFINE n == B!Min(B!Later(r, s))
             d == B!EffectiveEnd(r, s) + 1
  <2>1. n \in B!Dates /\ r[n] # B!None /\ s < n
        /\ \A t \in B!Dates : r[t] # B!None /\ s < t => n <= t
    BY <1>2, <1>4, NextRowIs DEF B!GapAfter
  <2>2. n > d /\ B!EffectiveEnd(r, s) # B!Open
    BY <1>4 DEF B!GapAfter
  <2> HIDE DEF n
  <2>3. n \in B!Rows(r)
    BY <2>1 DEF B!Rows
  <2>4. B!EffectiveEnd(r, s) \in Nat /\ s <= B!EffectiveEnd(r, s)
    BY <1>1, <1>2, <2>2
  <2>5. d \in B!Dates /\ s < d /\ d < n
    BY <1>1, <2>1, <2>2, <2>4, CalendarFacts
  <2>6. d \in Span(r)
    <3>1. s \in Nat /\ d \in Nat /\ s <= d
      BY <1>1, <2>5
    <3> QED BY <2>3, <2>5, <3>1 DEF Span
  <2>7. PICK u : {t \in B!Rows(r) : Covers(r, t, d)} = {u}
    BY <2>6
  <2>8. u \in B!Rows(r) /\ Covers(r, u, d)
    BY <2>7
  <2>9. ~ Covers(r, s, d)
    BY <2>2, <2>4 DEF Covers
  <2> HIDE DEF d
  <2>10. u < s
    <3>1. u \in B!Dates /\ r[u] # B!None /\ u \in Nat /\ s \in Nat /\ n \in Nat /\ d \in Nat
      BY <1>1, <1>2, <2>1, <2>5, <2>8
    <3>2. u <= d
      BY <2>8 DEF Covers
    <3>3. ~ (s < u)
      BY <2>1, <2>5, <3>1, <3>2
    <3>4. u # s
      BY <2>8, <2>9
    <3> QED BY <3>1, <3>3, <3>4
  <2>11. B!Overlaps(r, u, s)
    <3>1. s \in Nat /\ d \in Nat /\ s <= d
      BY <1>1, <2>5
    <3> QED BY <2>5, <2>8, <2>10, <3>1, TwiceOverlaps
  <2> QED BY <1>3, <2>8, <2>11
<1> QED BY <1>3, <1>4

\* Days are finitely many; B counts them as anyone does.
LEMMA OneIsSingle ==
    ASSUME NEW S \in SUBSET B!Dates
    PROVE  B!Cardinality(S) = 1 <=> \E s : S = {s}
<1>1. IsFiniteSet(B!Dates)
  <2>1. MonthStart[Len(MonthStart)] - 1 \in Int
    BY CalendarFacts
  <2>2. IsFiniteSet(1 .. (MonthStart[Len(MonthStart)] - 1))
    BY <2>1, FS_Interval
  <2> QED BY <2>2, CalendarFacts
<1>2. IsFiniteSet(S)
  BY <1>1, FS_Subset
<1>3. B!Cardinality(S) = Cardinality(S)
  BY DEF B!Cardinality, Cardinality, B!IsFiniteSet, IsFiniteSet
<1> QED BY <1>2, <1>3, FS_Singleton

\* AnomaliesExact for a roster.
LEMMA AnomaliesAreExact ==
    ASSUME B!PeriodsTypeOK
    PROVE  B!AnomaliesExact
<1>1. period \in Rosters /\ Upright(period)
  BY DEF B!PeriodsTypeOK, Rosters, Upright
<1>2. B!AnomalyKinds(period) \cap {"gap", "overlap"} = {} <=>
        /\ \A s \in B!Rows(period) : ~ B!GapAfter(period, s)
        /\ \A s, t \in B!Rows(period) : ~ B!Overlaps(period, s, t)
  <2>1. "gap" \in B!AnomalyKinds(period) <=> \E s \in B!Rows(period) : B!GapAfter(period, s)
    BY DEF B!AnomalyKinds
  <2>2. "overlap" \in B!AnomalyKinds(period) <=>
          \E s, t \in B!Rows(period) : B!Overlaps(period, s, t)
    BY DEF B!AnomalyKinds
  <2> QED BY <2>1, <2>2
<1>3. \A d : {s \in B!Rows(period) : Covers(period, s, d)} \in SUBSET B!Dates
  BY DEF B!Rows
<1>4. (\A d \in Span(period) : B!Cardinality({s \in B!Rows(period) : Covers(period, s, d)}) = 1)
      <=> \A d \in Span(period) : \E s : {t \in B!Rows(period) : Covers(period, t, d)} = {s}
  BY <1>3, OneIsSingle
<1>5. B!AnomalyKinds(period) \cap {"gap", "overlap"} = {} <=>
        \A d \in Span(period) : B!Cardinality({s \in B!Rows(period) : Covers(period, s, d)}) = 1
  BY <1>1, <1>2, <1>4, CleanCoversOnce, OnceIsClean
<1> QED BY <1>5 DEF B!AnomaliesExact, Covers, Span

-----------------------------------------------------------------------------
(* Periods: what a request knows. *)

\* Roster c comes after r: no row is gone, and where a period was open there is
\* an open one, the same or a later one.
Succeeds(r, c) ==
    \A s \in B!Dates :
        /\ r[s] # B!None => c[s] # B!None
        /\ r[s] = B!Open => \E t \in B!Dates : s <= t /\ c[t] = B!Open

PeriodReq ==
    [op    : {"idle", "ensure", "create", "close", "job", "budget"},
     pc    : {"idle", "open", "insert", "lock", "retry", "failed"},
     snap  : Rosters,
     cur   : B!Dates \cup {B!None},
     gone  : BOOLEAN,
     date  : Int,
     end   : B!Dates \cup {B!None, B!Open},
     goal  : Int,
     steps : Nat]

SoundReq(q) ==
    /\ q \in PeriodReq
    /\ q.pc \in {"open", "lock", "retry"} => q.cur \in B!Dates
    /\ q.pc = "retry" => q.date >= q.cur
    /\ q.pc = "insert" /\ q.op \in {"ensure", "budget"} => q.cur \in B!Dates
    /\ q.pc = "insert" /\ q.op = "create" =>
          /\ q.date \in B!Dates
          /\ q.end \in B!Dates \cup {B!Open}
          /\ q.end # B!Open => q.date <= q.end
          /\ ~ B!Clashes(q.snap, q.date, q.end)

\* A close that waits for the lock of a row that is still there has a snapshot
\* from before the table.
Kept(q, c) == q.pc = "lock" /\ ~ q.gone => Succeeds(q.snap, c)

\* Without a racing insert: the current period of a request is the latest open
\* one of its snapshot, a row that is open still has not been overtaken by any
\* write, and nobody loses an insert.
Exact(q, c) ==
    /\ q.pc = "retry" => q.gone
    /\ q.pc = "lock" \/ (q.pc = "insert" /\ q.op = "ensure") =>
          /\ q.snap[q.cur] = B!Open
          /\ \A t \in B!Dates : q.snap[t] = B!Open => t <= q.cur
    /\ q.pc = "lock" /\ ~ q.gone /\ c[q.cur] = B!Open => q.snap = c

NoDouble(c) ==
    \A s, t \in B!Dates :
        c[s] # B!None /\ c[t] # B!None /\ s < t /\ c[s] # B!Open => c[s] < t

Follows(b, c) == \A s \in B!Dates : b[s] # B!None => b[s] = c[s]

\* The inductive invariant of the periods.
PeriodInv ==
    /\ B!PeriodsTypeOK
    /\ \A p \in Requests : SoundReq(req[p]) /\ Kept(req[p], period)
    /\ ~ stale => /\ NoDouble(period) /\ Follows(budget, period)
                  /\ \A p \in Requests : Exact(req[p], period)

LEMMA SucceedsSelf ==
    ASSUME NEW r \in Rosters
    PROVE  Succeeds(r, r)
  BY EndsDiffer DEF Succeeds

LEMMA SucceedsOn ==
    ASSUME NEW r, NEW c, NEW d, Succeeds(r, c), Succeeds(c, d)
    PROVE  Succeeds(r, d)
<1> SUFFICES ASSUME NEW s \in B!Dates
             PROVE  /\ r[s] # B!None => d[s] # B!None
                    /\ r[s] = B!Open => \E t \in B!Dates : s <= t /\ d[t] = B!Open
  BY DEF Succeeds
<1>1. r[s] # B!None => d[s] # B!None
  BY DEF Succeeds
<1>2. ASSUME r[s] = B!Open
      PROVE  \E t \in B!Dates : s <= t /\ d[t] = B!Open
  <2>1. PICK u \in B!Dates : s <= u /\ c[u] = B!Open
    BY <1>2 DEF Succeeds
  <2>2. PICK t \in B!Dates : u <= t /\ d[t] = B!Open
    BY <2>1 DEF Succeeds
  <2>3. s <= t
    BY <2>1, <2>2, EndsDiffer
  <2> QED BY <2>2, <2>3
<1> QED BY <1>1, <1>2

LEMMA GrowsSucceeds ==
    ASSUME NEW r \in Rosters, NEW c \in Rosters,
           \A s \in B!Dates : r[s] # B!None => c[s] = r[s]
    PROVE  Succeeds(r, c)
  BY EndsDiffer DEF Succeeds

LEMMA KeptOn ==
    ASSUME NEW q, NEW c, NEW d, Kept(q, c), Succeeds(c, d)
    PROVE  Kept(q, d)
  BY SucceedsOn DEF Kept

LEMMA IdleFine ==
    /\ B!Idle \in PeriodReq /\ SoundReq(B!Idle)
    /\ \A c : Kept(B!Idle, c) /\ Exact(B!Idle, c)
<1>1. B!NoRoster \in Rosters
  BY DEF B!NoRoster, Rosters
<1>2. B!Idle \in PeriodReq /\ B!Idle.pc = "idle"
  BY <1>1, EndsDiffer DEF B!Idle, PeriodReq
<1> QED BY <1>2 DEF SoundReq, Kept, Exact

\* A request that found, or is to open, the current period.
LEMMA CurrentFine ==
    ASSUME period \in Rosters, cycleDay \in CycleDays, today \in B!Dates,
           NEW q \in PeriodReq, q.op \in {"ensure", "close", "job"}
    PROVE  /\ SoundReq(B!GetCurrent(q, B!AfterCurrent(q)))
           /\ Kept(B!GetCurrent(q, B!AfterCurrent(q)), period)
           /\ Exact(B!GetCurrent(q, B!AfterCurrent(q)), period)
<1> DEFINE g == B!GetCurrent(q, B!AfterCurrent(q))
           pc == B!AfterCurrent(q)
<1>1. pc \in {"insert", "lock"} /\ (pc = "insert" <=> q.op = "ensure")
  BY DEF B!AfterCurrent
<1>2. CASE B!OpenPeriods(period) # {}
  <2> DEFINE cur == B!CurrentOf(period)
  <2>1. cur \in B!Dates /\ period[cur] = B!Open /\ \A t \in B!Dates : period[t] = B!Open => t <= cur
    BY <1>2, CurrentIs
  <2>2. g = [q EXCEPT !.snap = period, !.cur = cur, !.pc = pc]
    BY <1>2 DEF B!GetCurrent
  <2> HIDE DEF cur, g, pc
  <2>3. g \in PeriodReq /\ g.snap = period /\ g.cur = cur /\ g.pc = pc /\ g.op = q.op
    BY <1>1, <2>1, <2>2 DEF PeriodReq
  <2>4. SoundReq(g) /\ Kept(g, period) /\ Exact(g, period)
    BY <1>1, <2>1, <2>3, SucceedsSelf DEF SoundReq, Kept, Exact
  <2> QED BY <2>4 DEF g, pc
<1>3. CASE B!OpenPeriods(period) = {}
  <2> DEFINE cur == B!CurrentCycleStart(cycleDay, today)
  <2>1. cur \in B!Dates
    BY CycleStartIn
  <2>2. g = [q EXCEPT !.snap = period, !.pc = "open", !.cur = cur]
    BY <1>3 DEF B!GetCurrent
  <2> HIDE DEF cur, g, pc
  <2>3. g \in PeriodReq /\ g.cur = cur /\ g.pc = "open"
    BY <2>1, <2>2 DEF PeriodReq
  <2>4. SoundReq(g) /\ Kept(g, period) /\ Exact(g, period)
    BY <2>1, <2>3 DEF SoundReq, Kept, Exact
  <2> QED BY <2>4 DEF g, pc
<1> QED BY <1>2, <1>3

\* What follows a close that left roster r.
LEMMA NextStepFine ==
    ASSUME NEW q \in PeriodReq, ~ q.gone, NEW new, NEW r \in Rosters, NEW c, Succeeds(r, c)
    PROVE  /\ SoundReq(B!NextStep(q, new, r)) /\ Kept(B!NextStep(q, new, r), c)
           /\ r = c => Exact(B!NextStep(q, new, r), c)
<1> DEFINE n == B!NextStep(q, new, r)
<1>1. CASE n = B!Idle
  BY <1>1, IdleFine
<1>2. CASE n # B!Idle
  <2> DEFINE cur == B!CurrentOf(r)
  <2>1. /\ n = [q EXCEPT !.steps = @ + 1, !.pc = "lock", !.snap = r, !.cur = cur]
        /\ q.op = "job" /\ B!OpenPeriods(r) # {}
    BY <1>2 DEF B!NextStep
  <2>2. cur \in B!Dates /\ r[cur] = B!Open /\ \A t \in B!Dates : r[t] = B!Open => t <= cur
    BY <2>1, CurrentIs
  <2> HIDE DEF cur, n
  <2>3. n \in PeriodReq /\ n.pc = "lock" /\ n.snap = r /\ n.cur = cur /\ n.op = "job"
    <3> DEFINE k == q.steps + 1
    <3>1. k \in Nat
      BY DEF PeriodReq
    <3>2. n = [q EXCEPT !.steps = k, !.pc = "lock", !.snap = r, !.cur = cur]
      BY <2>1
    <3> HIDE DEF k
    <3> QED BY <2>1, <2>2, <3>1, <3>2 DEF PeriodReq
  <2>4. SoundReq(n) /\ Kept(n, c) /\ (r = c => Exact(n, c))
    BY <2>2, <2>3 DEF SoundReq, Kept, Exact
  <2> QED BY <2>4 DEF n
<1> QED BY <1>1, <1>2

-----------------------------------------------------------------------------
(* Periods: closing on rosters.  c is the table, r the snapshot. *)

\* The table after a close of cur that ends at e.
Closed(c, r, cur, e) ==
    [c EXCEPT ![cur] = e,
              ![e + 1] = IF r[e + 1] = B!Open THEN @
                         ELSE IF r[e + 1] = B!None THEN B!Open ELSE B!ReviveNext(@)]

LEMMA ClosedIs ==
    ASSUME NEW c \in Rosters, NEW r \in Rosters, Succeeds(r, c),
           NEW cur \in B!Dates, c[cur] = B!Open, NEW date \in Int, date >= cur,
           NEW e, e = B!ResolvedEnd(r, cur, date), e + 1 \in B!Dates,
           NEW a, a = Closed(c, r, cur, e)
    PROVE  /\ e \in B!Dates /\ cur <= e /\ cur < e + 1
           /\ a \in Rosters
           /\ a[cur] = e
           /\ a[e + 1] = IF r[e + 1] = B!Open THEN c[e + 1] ELSE B!Open
           /\ a[e + 1] # B!None
           /\ \A s \in B!Dates : s # cur /\ s # e + 1 => a[s] = c[s]
<1>1. e \in Int /\ cur <= e /\ cur \in Nat /\ cur >= 1
  BY ResolvedEndIs, EndsDiffer
<1>2. e \in B!Dates /\ cur < e + 1 /\ e + 1 # cur
  BY <1>1, CalendarFacts
<1> DEFINE v == IF r[e + 1] = B!Open THEN c[e + 1] ELSE B!Open
<1>3. v \in B!Dates \cup {B!None, B!Open}
  BY DEF Rosters
<1>4. a = [c EXCEPT ![cur] = e, ![e + 1] = v]
  BY <1>2 DEF Closed, B!ReviveNext, Rosters
<1> HIDE DEF v
<1>5. a \in Rosters /\ a[cur] = e /\ a[e + 1] = v
      /\ \A s \in B!Dates : s # cur /\ s # e + 1 => a[s] = c[s]
  BY <1>2, <1>3, <1>4 DEF Rosters
<1>6. v # B!None
  BY EndsDiffer DEF Succeeds, v
<1> QED BY <1>1, <1>2, <1>5, <1>6 DEF v

\* A close loses no row and leaves an open one after the one it closed.
LEMMA ClosedSucceeds ==
    ASSUME NEW c \in Rosters, NEW r \in Rosters, Succeeds(r, c),
           NEW cur \in B!Dates, c[cur] = B!Open, NEW date \in Int, date >= cur,
           NEW e, e = B!ResolvedEnd(r, cur, date), e + 1 \in B!Dates,
           NEW a, a = Closed(c, r, cur, e)
    PROVE  /\ \E t \in B!Dates : cur < t /\ a[t] = B!Open
           /\ Succeeds(c, a)
           /\ Upright(c) => Upright(a)
<1>1. /\ e \in B!Dates /\ cur <= e /\ cur < e + 1
      /\ a \in Rosters
      /\ a[cur] = e
      /\ a[e + 1] = IF r[e + 1] = B!Open THEN c[e + 1] ELSE B!Open
      /\ a[e + 1] # B!None
      /\ \A s \in B!Dates : s # cur /\ s # e + 1 => a[s] = c[s]
  BY ClosedIs
<1>2. /\ B!None = -1 /\ B!Open = 0 /\ B!None \notin B!Dates /\ B!Open \notin B!Dates
      /\ \A d \in B!Dates : d \in Nat /\ d >= 1
  BY EndsDiffer
<1>3. PICK u \in B!Dates : cur < u /\ a[u] = B!Open
  <2>1. CASE a[e + 1] = B!Open
    BY <1>1, <2>1
  <2>2. CASE a[e + 1] # B!Open
    <3>1. r[e + 1] = B!Open /\ a[e + 1] = c[e + 1]
      BY <1>1, <2>2
    <3>2. PICK t \in B!Dates : e + 1 <= t /\ c[t] = B!Open
      BY <3>1 DEF Succeeds
    <3>3. t # e + 1 /\ t # cur /\ cur < t
      BY <1>1, <1>2, <2>2, <3>1, <3>2
    <3> QED BY <1>1, <3>2, <3>3
  <2> QED BY <2>1, <2>2
<1>4. ASSUME NEW s \in B!Dates
      PROVE  /\ c[s] # B!None => a[s] # B!None
             /\ c[s] = B!Open => \E t \in B!Dates : s <= t /\ a[t] = B!Open
  <2>1. CASE s = cur
    BY <1>1, <1>2, <1>3, <2>1
  <2>2. CASE s = e + 1
    BY <1>1, <1>2, <2>2
  <2>3. CASE s # cur /\ s # e + 1
    BY <1>1, <1>2, <2>3
  <2> QED BY <2>1, <2>2, <2>3
<1>5. ASSUME Upright(c), NEW s \in B!Rows(a)
      PROVE  ~ B!Inverted(a, s)
  <2>1. s \in B!Dates /\ a[s] # B!None
    BY DEF B!Rows
  <2>2. CASE s = cur
    BY <1>1, <1>2, <2>2 DEF B!Inverted
  <2>3. CASE a[s] = B!Open
    BY <2>3 DEF B!Inverted
  <2>4. CASE s # cur /\ a[s] # B!Open
    <3>1. a[s] = c[s]
      BY <1>1, <2>1, <2>4
    <3> QED BY <1>5, <2>1, <3>1 DEF Upright, B!Rows, B!Inverted
  <2> QED BY <2>2, <2>3, <2>4
<1>6. Succeeds(c, a)
  BY <1>4 DEF Succeeds
<1>7. Upright(c) => Upright(a)
  BY <1>5 DEF Upright
<1> QED BY <1>3, <1>6, <1>7

\* A close that reads the table and closes its latest open row puts no day into
\* two periods, and the budgets follow.
LEMMA ClosedApart ==
    ASSUME NEW c \in Rosters, NoDouble(c),
           NEW cur \in B!Dates, c[cur] = B!Open, \A t \in B!Dates : c[t] = B!Open => t <= cur,
           NEW date \in Int, date >= cur,
           NEW e, e = B!ResolvedEnd(c, cur, date), e + 1 \in B!Dates,
           NEW a, a = Closed(c, c, cur, e)
    PROVE  /\ NoDouble(a)
           /\ \A b : Follows(b, c) => Follows(B!Reanchor(b, c, cur, e), a)
<1>1. Succeeds(c, c)
  BY SucceedsSelf
<1>2. /\ e \in B!Dates /\ cur <= e /\ cur < e + 1
      /\ a \in Rosters
      /\ a[cur] = e
      /\ a[e + 1] = IF c[e + 1] = B!Open THEN c[e + 1] ELSE B!Open
      /\ \A s \in B!Dates : s # cur /\ s # e + 1 => a[s] = c[s]
  BY <1>1, ClosedIs
<1>3. \A t \in B!Dates : c[t] # B!None /\ cur < t => e < t
  BY ResolvedEndIs
<1>4. /\ B!None = -1 /\ B!Open = 0 /\ B!None \notin B!Dates /\ B!Open \notin B!Dates
      /\ \A d \in B!Dates : d \in Nat /\ d >= 1
  BY EndsDiffer
<1>5. a[e + 1] = B!Open
  BY <1>2
<1>6. ASSUME NEW s \in B!Dates, NEW t \in B!Dates, a[s] # B!None, a[t] # B!None, s < t,
             a[s] # B!Open
      PROVE  a[s] < t
  <2>1. s # e + 1
    BY <1>5, <1>6
  <2>2. CASE s = cur
    BY <1>2, <1>3, <1>4, <1>6, <2>2
  <2>3. CASE s # cur
    <3>1. a[s] = c[s]
      BY <1>2, <2>1, <2>3
    <3>2. CASE t # e + 1
      <4>1. c[t] # B!None
        BY <1>2, <1>4, <1>6, <3>2
      <4> QED BY <1>6, <3>1, <4>1 DEF NoDouble
    <3>3. CASE t = e + 1
      <4>1. s < cur
        <5>1. ~ (cur < s)
          BY <1>2, <1>3, <1>4, <1>6, <3>1, <3>3
        <5> QED BY <1>4, <2>3, <5>1
      <4>2. c[s] < cur
        BY <1>4, <1>6, <3>1, <4>1 DEF NoDouble
      <4>3. c[s] \in Nat
        BY <1>4, <1>6, <3>1 DEF Rosters
      <4> QED BY <1>2, <1>4, <3>1, <3>3, <4>2, <4>3
    <3> QED BY <3>2, <3>3
  <2> QED BY <2>2, <2>3
<1>7. ASSUME NEW b, Follows(b, c)
      PROVE  Follows(B!Reanchor(b, c, cur, e), a)
  <2> SUFFICES ASSUME NEW s \in B!Dates, B!Reanchor(b, c, cur, e)[s] # B!None
               PROVE  B!Reanchor(b, c, cur, e)[s] = a[s]
    BY DEF Follows
  <2>1. B!Reanchor(b, c, cur, e)[s] =
          IF b[s] = B!None THEN B!None
          ELSE IF s = cur THEN e
          ELSE IF s = e + 1 /\ c[s] # B!None THEN B!Open ELSE b[s]
    BY DEF B!Reanchor
  <2>2. b[s] # B!None /\ b[s] = c[s]
    BY <1>7, <2>1 DEF Follows
  <2> QED BY <1>2, <1>5, <2>1, <2>2
<1> QED BY <1>6, <1>7 DEF NoDouble

-----------------------------------------------------------------------------
(* Periods: steps. *)

LEMMA PeriodTables ==
    ASSUME PeriodInv
    PROVE  /\ period \in Rosters /\ Upright(period) /\ budget \in Rosters
           /\ cycleDay \in CycleDays /\ today \in B!Dates /\ DOMAIN req = Requests
           /\ stale \in BOOLEAN /\ wipes \in 0 .. MaxWipes
           /\ \A p \in Requests : SoundReq(req[p]) /\ req[p] \in PeriodReq /\ Kept(req[p], period)
  BY DEF PeriodInv, B!PeriodsTypeOK, Rosters, Upright, SoundReq

\* A step of p that leaves the tables alone.
LEMMA TablesStay ==
    ASSUME PeriodInv, UNCHANGED <<period, budget, cycleDay>>,
           NEW p \in Requests, NEW q, req' = [req EXCEPT ![p] = q],
           stale' \in BOOLEAN, stale => stale', wipes' = wipes, today' = today,
           SoundReq(q), Kept(q, period), ~ stale => Exact(q, period)
    PROVE  PeriodInv'
<1>1. B!PeriodsTypeOK'
  BY DEF PeriodInv, B!PeriodsTypeOK, B!Rows, B!Inverted
<1>2. \A o \in Requests : req'[o] = IF o = p THEN q ELSE req[o]
  BY DEF PeriodInv, B!PeriodsTypeOK
<1>3. \A o \in Requests : SoundReq(req'[o]) /\ Kept(req'[o], period')
  BY <1>2 DEF PeriodInv
<1>4. ~ stale => /\ NoDouble(period') /\ Follows(budget', period')
                 /\ \A o \in Requests : Exact(req'[o], period')
  BY <1>2 DEF PeriodInv
<1> QED BY <1>1, <1>3, <1>4 DEF PeriodInv

\* The step of p inserts rows or changes budgets.
LEMMA TablesChange ==
    ASSUME PeriodInv, period' \in Rosters, Upright(period'), Succeeds(period, period'),
           budget' \in Rosters, cycleDay' \in CycleDays, today' = today, wipes' = wipes,
           NEW p \in Requests, NEW q, req' = [req EXCEPT ![p] = q],
           stale' \in BOOLEAN, SoundReq(q), Kept(q, period'),
           ~ stale' =>
              /\ ~ stale /\ NoDouble(period') /\ Follows(budget', period')
              /\ Exact(q, period')
              /\ \A o \in Requests \ {p} : Exact(req[o], period) => Exact(req[o], period')
    PROVE  PeriodInv'
<1>1. B!PeriodsTypeOK'
  BY DEF PeriodInv, B!PeriodsTypeOK, Upright, Rosters
<1>2. \A o \in Requests : req'[o] = IF o = p THEN q ELSE req[o]
  BY DEF PeriodInv, B!PeriodsTypeOK
<1>3. \A o \in Requests : SoundReq(req'[o]) /\ Kept(req'[o], period')
  BY <1>2, KeptOn DEF PeriodInv
<1>4. ~ stale' => /\ NoDouble(period') /\ Follows(budget', period')
                  /\ \A o \in Requests : Exact(req'[o], period')
  BY <1>2 DEF PeriodInv
<1> QED BY <1>1, <1>3, <1>4 DEF PeriodInv

\* An insert that nobody overlaps with disturbs no request.
LEMMA NobodyWaits ==
    ASSUME NEW p \in Requests, ~ B!Overtakes(p), NEW c, NEW d
    PROVE  /\ req[p].snap = period
           /\ \A o \in Requests \ {p} : Exact(req[o], c) => Exact(req[o], d)
  BY DEF B!Overtakes, Exact

LEMMA BeginKeeps ==
    ASSUME PeriodInv, NEW p \in Requests, NEW q \in PeriodReq, q.op \in {"ensure", "close", "job"},
           B!Begin(p, q), UNCHANGED <<period, budget, cycleDay, today, stale, wipes>>
    PROVE  PeriodInv'
<1> DEFINE g == B!GetCurrent(q, B!AfterCurrent(q))
<1>1. SoundReq(g) /\ Kept(g, period) /\ Exact(g, period)
  BY PeriodTables, CurrentFine
<1>2. req' = [req EXCEPT ![p] = g] /\ stale' \in BOOLEAN
  BY PeriodTables DEF B!Begin
<1> HIDE DEF g
<1> QED BY <1>1, <1>2, TablesStay

LEMMA EndKeeps ==
    ASSUME PeriodInv, NEW p \in Requests, req' = B!Done(p),
           UNCHANGED <<period, budget, cycleDay, today, stale, wipes>>
    PROVE  PeriodInv'
<1>1. req' = [req EXCEPT ![p] = B!Idle] /\ stale' \in BOOLEAN
  BY PeriodTables DEF B!Done
<1> QED BY <1>1, IdleFine, TablesStay

LEMMA EnsureKeeps ==
    ASSUME PeriodInv, NEW p \in Requests, B!EnsureFuturePeriods(p)
    PROVE  PeriodInv'
<1> DEFINE q == [B!Idle EXCEPT !.op = "ensure"]
<1>1. q \in PeriodReq /\ q.op = "ensure"
  BY IdleFine DEF PeriodReq
<1>2. B!Begin(p, q) /\ UNCHANGED <<period, budget, cycleDay, today, stale, wipes>>
  BY DEF B!EnsureFuturePeriods
<1> HIDE DEF q
<1> QED BY <1>1, <1>2, BeginKeeps

LEMMA ClosePeriodKeeps ==
    ASSUME PeriodInv, NEW p \in Requests, NEW d \in CloseDates, B!ClosePeriod(p, d)
    PROVE  PeriodInv'
<1> DEFINE q == [B!Idle EXCEPT !.op = "close", !.date = d]
<1>1. d \in Int
  BY PlanningAssumption DEF B!PeriodsAssumption
<1>2. q \in PeriodReq /\ q.op = "close"
  BY <1>1, IdleFine DEF PeriodReq
<1>3. B!Begin(p, q) /\ UNCHANGED <<period, budget, cycleDay, today, stale, wipes>>
  BY DEF B!ClosePeriod
<1> HIDE DEF q
<1> QED BY <1>2, <1>3, BeginKeeps

LEMMA JobKeeps ==
    ASSUME PeriodInv, NEW p \in Requests, B!BillingCloseJob(p)
    PROVE  PeriodInv'
<1> DEFINE goal == B!CurrentCycleStart(cycleDay, today)
           q == [B!Idle EXCEPT !.op = "job", !.date = goal - 1, !.goal = goal]
<1>1. goal \in Int /\ goal - 1 \in Int
  BY PeriodTables, CycleStartIn, EndsDiffer
<1>2. B!Begin(p, q) /\ UNCHANGED <<period, budget, cycleDay, today, stale, wipes>>
  BY DEF B!BillingCloseJob
<1> HIDE DEF goal
<1>3. q \in PeriodReq /\ q.op = "job"
  <2> DEFINE before == goal - 1
  <2>1. before \in Int /\ q = [B!Idle EXCEPT !.op = "job", !.date = before, !.goal = goal]
    BY <1>1
  <2> HIDE DEF before, q
  <2> QED BY <1>1, <2>1, IdleFine DEF PeriodReq
<1> HIDE DEF q
<1> QED BY <1>2, <1>3, BeginKeeps

LEMMA CreatePeriodKeeps ==
    ASSUME PeriodInv, NEW p \in Requests, NEW w \in HandMade, B!CreatePeriod(p, w.start, w.end)
    PROVE  PeriodInv'
<1> DEFINE q == [B!Idle EXCEPT !.op = "create", !.pc = "insert", !.snap = period,
                               !.date = w.start, !.end = w.end]
<1>1. w.start \in B!Dates /\ w.end \in B!Dates \cup {B!Open}
  <2>1. /\ w.start \in 1 .. (MonthStart[Len(MonthStart)] - 1)
        /\ w.end \in 0 .. (MonthStart[Len(MonthStart)] - 1)
    BY PlanningAssumption DEF B!PeriodsAssumption
  <2>2. MonthStart[Len(MonthStart)] \in Nat
    BY CalendarFacts
  <2> QED BY <2>1, <2>2, CalendarFacts DEF B!Open
<1>2. /\ req' = [req EXCEPT ![p] = q]
      /\ UNCHANGED <<period, budget, cycleDay, today, stale, wipes>>
      /\ w.end = B!Open \/ w.end >= w.start
      /\ ~ B!Clashes(period, w.start, w.end)
  BY DEF B!CreatePeriod
<1>3. q \in PeriodReq /\ q.pc = "insert" /\ q.op = "create" /\ q.snap = period
      /\ q.date = w.start /\ q.end = w.end
  <2> DEFINE st == w.start
             en == w.end
  <2>1. st \in Int /\ en \in B!Dates \cup {B!None, B!Open}
    BY <1>1, EndsDiffer
  <2>2. q = [B!Idle EXCEPT !.op = "create", !.pc = "insert", !.snap = period, !.date = st, !.end = en]
    OBVIOUS
  <2>3. period \in Rosters
    BY PeriodTables
  <2> HIDE DEF q, st, en
  <2>4. q \in PeriodReq /\ q.pc = "insert" /\ q.op = "create" /\ q.snap = period
        /\ q.date = st /\ q.end = en
    BY <2>1, <2>2, <2>3, IdleFine DEF PeriodReq
  <2> QED BY <2>4 DEF st, en
<1> HIDE DEF q
<1>4. w.end # B!Open => w.start <= w.end
  BY <1>1, <1>2, EndsDiffer
<1>5. SoundReq(q) /\ Kept(q, period) /\ Exact(q, period)
  BY <1>1, <1>2, <1>3, <1>4 DEF SoundReq, Kept, Exact
<1>6. stale' \in BOOLEAN
  BY <1>2, PeriodTables
<1> QED BY <1>2, <1>5, <1>6, TablesStay

LEMMA CreateBudgetKeeps ==
    ASSUME PeriodInv, NEW p \in Requests, NEW s \in B!Dates, B!CreateBudget(p, s)
    PROVE  PeriodInv'
<1> DEFINE q == [B!Idle EXCEPT !.op = "budget", !.pc = "insert", !.snap = period, !.cur = s]
<1>1. /\ req' = [req EXCEPT ![p] = q]
      /\ UNCHANGED <<period, budget, cycleDay, today, stale, wipes>>
  BY DEF B!CreateBudget
<1>2. q \in PeriodReq /\ q.pc = "insert" /\ q.op = "budget" /\ q.cur = s
  BY IdleFine, PeriodTables DEF PeriodReq
<1> HIDE DEF q
<1>3. SoundReq(q) /\ Kept(q, period) /\ Exact(q, period)
  BY <1>2 DEF SoundReq, Kept, Exact
<1>4. stale' \in BOOLEAN
  BY <1>1, PeriodTables
<1> QED BY <1>1, <1>3, <1>4, TablesStay

\* Rosters that grow by a row, of any start and by the first open one.
Put(c, s, e) == [c EXCEPT ![s] = e]
PutOpen(c, s) == IF c[s] = B!None THEN Put(c, s, B!Open) ELSE c

LEMMA RowAdded ==
    ASSUME NEW c \in Rosters, Upright(c), NEW s \in B!Dates, c[s] = B!None,
           NEW e \in B!Dates \cup {B!Open}, e # B!Open => s <= e
    PROVE  /\ Put(c, s, e) \in Rosters /\ Upright(Put(c, s, e))
           /\ Succeeds(c, Put(c, s, e)) /\ Put(c, s, e)[s] = e
           /\ \A t \in B!Dates : t # s => Put(c, s, e)[t] = c[t]
           /\ \A t \in B!Dates : c[t] # B!None => Put(c, s, e)[t] = c[t]
<1> DEFINE a == Put(c, s, e)
<1>0. a = [c EXCEPT ![s] = e]
  BY DEF Put
<1> HIDE DEF a
<1>1. a \in Rosters /\ a[s] = e /\ \A t \in B!Dates : t # s => a[t] = c[t]
  BY <1>0 DEF Rosters
<1>2. \A t \in B!Dates : c[t] # B!None => a[t] = c[t]
  BY <1>1
<1>3. Succeeds(c, a)
  BY <1>1, <1>2, GrowsSucceeds
<1>4. ASSUME NEW t \in B!Rows(a)
      PROVE  ~ B!Inverted(a, t)
  <2>1. t \in B!Dates /\ a[t] # B!None
    BY DEF B!Rows
  <2>2. CASE t = s
    <3>1. e # B!Open => ~ (e < s)
      BY EndsDiffer
    <3> QED BY <1>1, <2>2, <3>1 DEF B!Inverted
  <2>3. CASE t # s
    <3>1. a[t] = c[t] /\ t \in B!Rows(c)
      BY <1>1, <2>1, <2>3 DEF B!Rows
    <3> QED BY <3>1 DEF Upright, B!Inverted
  <2> QED BY <2>2, <2>3
<1> QED BY <1>1, <1>2, <1>3, <1>4 DEF Upright, a

\* Rows that are added change no budget that follows its period.
LEMMA FollowsGrown ==
    ASSUME NEW b, NEW c, NEW a, Follows(b, c), \A s \in B!Dates : c[s] # B!None => a[s] = c[s]
    PROVE  Follows(b, a)
  BY DEF Follows

\* The first row of all.
LEMMA OpenRow ==
    ASSUME NEW c \in Rosters, Upright(c), NEW s \in B!Dates
    PROVE  /\ PutOpen(c, s) \in Rosters /\ Upright(PutOpen(c, s)) /\ Succeeds(c, PutOpen(c, s))
           /\ \A t \in B!Dates : c[t] # B!None => PutOpen(c, s)[t] = c[t]
           /\ B!Rows(c) = {} => /\ NoDouble(PutOpen(c, s)) /\ PutOpen(c, s)[s] = B!Open
                                /\ \A t \in B!Dates : PutOpen(c, s)[t] = B!Open => t <= s
<1> DEFINE a == PutOpen(c, s)
<1>1. CASE c[s] # B!None
  BY <1>1, SucceedsSelf DEF B!Rows, PutOpen
<1>2. CASE c[s] = B!None
  <2>1. a = Put(c, s, B!Open)
    BY <1>2 DEF PutOpen
  <2> HIDE DEF a
  <2>2. /\ a \in Rosters /\ Upright(a) /\ Succeeds(c, a) /\ a[s] = B!Open
        /\ \A t \in B!Dates : t # s => a[t] = c[t]
        /\ \A t \in B!Dates : c[t] # B!None => a[t] = c[t]
    BY <1>2, <2>1, RowAdded
  <2>3. ASSUME B!Rows(c) = {}
        PROVE  /\ NoDouble(a)
               /\ \A t \in B!Dates : a[t] = B!Open => t <= s
    <3>1. \A t \in B!Dates : t # s => a[t] = B!None
      BY <2>2, <2>3 DEF B!Rows
    <3> QED BY <2>2, <3>1, EndsDiffer DEF NoDouble
  <2> QED BY <2>2, <2>3 DEF a
<1> QED BY <1>1, <1>2

LEMMA OpenCurrentKeeps ==
    ASSUME PeriodInv, NEW p \in Requests, B!OpenCurrent(p)
    PROVE  PeriodInv'
<1> DEFINE q == req[p]
           r == PutOpen(period, q.cur)
           n == [q EXCEPT !.pc = B!AfterCurrent(q), !.snap = r]
<1>1. /\ q.pc = "open" /\ period' = r
      /\ stale' = (stale \/ B!Rows(period) # {} \/ B!Overtakes(p))
      /\ req' = [req EXCEPT ![p] = n]
      /\ UNCHANGED <<budget, cycleDay, today, wipes>>
  BY PeriodTables DEF B!OpenCurrent, PutOpen, Put
<1>2. /\ period \in Rosters /\ Upright(period) /\ budget \in Rosters
      /\ cycleDay \in CycleDays /\ stale \in BOOLEAN
      /\ q \in PeriodReq /\ q.cur \in B!Dates
  BY <1>1, PeriodTables DEF SoundReq
<1>3. /\ r \in Rosters /\ Upright(r) /\ Succeeds(period, r)
      /\ \A t \in B!Dates : period[t] # B!None => r[t] = period[t]
      /\ B!Rows(period) = {} => /\ NoDouble(r) /\ r[q.cur] = B!Open
                                /\ \A t \in B!Dates : r[t] = B!Open => t <= q.cur
  BY <1>2, OpenRow
<1>4. B!AfterCurrent(q) \in {"insert", "lock"} /\ (B!AfterCurrent(q) = "insert" => q.op = "ensure")
  BY DEF B!AfterCurrent
<1> HIDE DEF r
<1>5. /\ n \in PeriodReq /\ n.pc = B!AfterCurrent(q) /\ n.snap = r /\ n.cur = q.cur
      /\ n.op = q.op /\ n.gone = q.gone
  BY <1>2, <1>3, <1>4 DEF PeriodReq
<1>6. SoundReq(n)
  BY <1>2, <1>4, <1>5 DEF SoundReq
<1>7. Kept(n, period')
  BY <1>1, <1>3, <1>5, SucceedsSelf DEF Kept
<1>8. ~ stale' =>
        /\ ~ stale /\ NoDouble(period') /\ Follows(budget', period')
        /\ Exact(n, period')
        /\ \A o \in Requests \ {p} : Exact(req[o], period) => Exact(req[o], period')
  <2> SUFFICES ASSUME ~ stale' PROVE
        /\ ~ stale /\ NoDouble(period') /\ Follows(budget', period')
        /\ Exact(n, period')
        /\ \A o \in Requests \ {p} : Exact(req[o], period) => Exact(req[o], period')
    OBVIOUS
  <2>1. ~ stale /\ B!Rows(period) = {} /\ ~ B!Overtakes(p)
    BY <1>1
  <2>2. NoDouble(r) /\ Exact(n, r)
    BY <1>3, <1>4, <1>5, <2>1 DEF Exact
  <2>3. Follows(budget, r)
    BY <1>3, <2>1, FollowsGrown DEF PeriodInv
  <2>4. \A o \in Requests \ {p} : Exact(req[o], period) => Exact(req[o], r)
    BY <2>1, NobodyWaits
  <2> QED BY <1>1, <2>1, <2>2, <2>3, <2>4
<1>9. stale' \in BOOLEAN
  BY <1>1
<1> HIDE DEF n
<1> QED BY <1>1, <1>2, <1>3, <1>6, <1>7, <1>8, <1>9, TablesChange

LEMMA InsertPeriodKeeps ==
    ASSUME PeriodInv, NEW p \in Requests, B!InsertPeriod(p)
    PROVE  PeriodInv'
<1> DEFINE q == req[p]
<1>1. /\ q.op = "create" /\ q.pc = "insert" /\ req' = B!Done(p)
      /\ req' = [req EXCEPT ![p] = B!Idle]
      /\ UNCHANGED <<budget, cycleDay, today, wipes>>
  BY DEF B!InsertPeriod, B!Done
<1>2. /\ period \in Rosters /\ Upright(period) /\ budget \in Rosters
      /\ cycleDay \in CycleDays /\ stale \in BOOLEAN
      /\ q.date \in B!Dates /\ q.end \in B!Dates \cup {B!Open}
      /\ q.end # B!Open => q.date <= q.end
      /\ ~ B!Clashes(q.snap, q.date, q.end)
  BY <1>1, PeriodTables DEF SoundReq
<1>3. CASE period[q.date] # B!None
  <2>1. UNCHANGED <<period, stale>>
    BY <1>3 DEF B!InsertPeriod
  <2> QED BY <1>1, <2>1, EndKeeps
<1>4. CASE period[q.date] = B!None
  <2> DEFINE s == q.date
             e == q.end
             a == Put(period, s, e)
  <2>1. period' = a /\ stale' = (stale \/ B!Overtakes(p))
    BY <1>4 DEF B!InsertPeriod, Put
  <2>2. /\ s \in B!Dates /\ e \in B!Dates \cup {B!Open} /\ (e # B!Open => s <= e)
        /\ period[s] = B!None /\ ~ B!Clashes(q.snap, s, e)
    BY <1>2, <1>4
  <2> HIDE DEF s, e, q
  <2>3. /\ a \in Rosters /\ Upright(a) /\ Succeeds(period, a) /\ a[s] = e
        /\ \A t \in B!Dates : t # s => a[t] = period[t]
        /\ \A t \in B!Dates : period[t] # B!None => a[t] = period[t]
    BY <1>2, <2>2, RowAdded
  <2> HIDE DEF a
  <2>4. ASSUME ~ stale'
        PROVE  /\ ~ stale /\ NoDouble(a) /\ Follows(budget, a)
               /\ \A o \in Requests \ {p} : Exact(req[o], period) => Exact(req[o], a)
    <3>1. ~ stale /\ ~ B!Overtakes(p)
      BY <2>1, <2>4
    <3>2. q.snap = period /\ \A o \in Requests \ {p} : Exact(req[o], period) => Exact(req[o], a)
      BY <3>1, NobodyWaits DEF q
    <3>3. Follows(budget, a) /\ NoDouble(period)
      BY <2>3, <3>1, FollowsGrown DEF PeriodInv
    <3>4. ~ B!Clashes(period, s, e)
      BY <2>2, <3>2
    <3>5. ASSUME NEW t \in B!Dates, period[t] # B!None,
                 t <= (IF e = B!Open THEN s ELSE e)
          PROVE  t < s /\ (period[t] # B!Open => period[t] < s)
      <4>1. IF period[t] = B!Open THEN ~ (t >= s) ELSE ~ (period[t] >= s)
        BY <3>4, <3>5 DEF B!Clashes, B!Rows
      <4>2. s \in Nat /\ t \in Nat
        BY <2>2, EndsDiffer
      <4>3. CASE period[t] = B!Open
        BY <4>1, <4>2, <4>3
      <4>4. CASE period[t] # B!Open
        <5>1. period[t] \in Nat /\ ~ (period[t] < t)
          <6>1. period[t] \in B!Dates
            BY <1>2, <3>5, <4>4 DEF Rosters
          <6>2. ~ B!Inverted(period, t)
            BY <1>2, <3>5 DEF Upright, B!Rows
          <6> QED BY <4>4, <6>1, <6>2, EndsDiffer DEF B!Inverted
        <5>2. period[t] < s
          BY <4>1, <4>2, <4>4, <5>1
        <5> QED BY <4>2, <5>1, <5>2
      <4> QED BY <4>3, <4>4
    <3>6. ASSUME NEW x \in B!Dates, NEW y \in B!Dates, a[x] # B!None, a[y] # B!None, x < y,
                 a[x] # B!Open
          PROVE  a[x] < y
      <4>0. /\ x \in Nat /\ y \in Nat /\ s \in Nat
            /\ \A d \in B!Dates : d \in Nat
        BY <2>2, EndsDiffer
      <4>1. CASE x # s /\ y # s
        BY <2>3, <3>3, <3>6, <4>1 DEF NoDouble
      <4>2. CASE y = s
        <5>1. x # s /\ a[x] = period[x]
          BY <2>3, <3>6, <4>0, <4>2
        <5>2. x <= (IF e = B!Open THEN s ELSE e)
          BY <2>2, <3>6, <4>0, <4>2
        <5> QED BY <3>5, <3>6, <4>2, <5>1, <5>2
      <4>3. CASE x = s /\ y # s
        <5>1. a[x] = e /\ e # B!Open /\ e \in Nat /\ period[y] = a[y]
          BY <2>2, <2>3, <3>6, <4>0, <4>3
        <5>2. ~ (y <= e)
          BY <3>5, <3>6, <4>0, <4>3, <5>1
        <5> QED BY <4>0, <5>1, <5>2
      <4> QED BY <4>1, <4>2, <4>3
    <3>7. NoDouble(a)
      BY <3>6 DEF NoDouble
    <3> QED BY <3>1, <3>2, <3>3, <3>7
  <2>5. stale' \in BOOLEAN /\ SoundReq(B!Idle) /\ Kept(B!Idle, period') /\ Exact(B!Idle, period')
    BY <2>1, IdleFine
  <2> QED BY <1>1, <1>2, <2>1, <2>3, <2>4, <2>5, TablesChange
<1> QED BY <1>3, <1>4

\* Planned windows lie after the base, apart from each other and from what is
\* closed.
LEMMA PlannedIs ==
    ASSUME cycleDay \in CycleDays, NEW r, NEW base \in B!Dates,
           NEW w \in B!PlanFuturePeriods(r, base)
    PROVE  /\ w.start \in B!Dates /\ w.end \in B!Dates /\ w.start <= w.end /\ base < w.start
           /\ B!Free(r, w)
           /\ \A v \in B!PlanFuturePeriods(r, base) :
                 /\ v.start = w.start => v = w
                 /\ w.start < v.start => w.end < v.start
<1>1. PICK m \in B!Candidates(base) : w = B!WindowOf(m)
  BY DEF B!PlanFuturePeriods
<1>2. /\ B!MonthOf(base) \in B!Months /\ base < MonthStart[B!MonthOf(base) + 1]
      /\ base \in Nat
  BY MonthOfIs, EndsDiffer
<1>3. \A k \in B!Candidates(base) :
         k \in B!Months /\ k + 1 \in B!Months /\ B!MonthOf(base) + 1 <= k
  <2>1. FutureCount \in Nat
    BY PlanningAssumption DEF B!PeriodsAssumption
  <2> QED BY <1>2, <2>1, CalendarFacts DEF B!Candidates
<1>4. /\ w.start \in B!Dates /\ w.end \in B!Dates /\ w.start <= w.end
      /\ MonthStart[m] <= w.start
  BY <1>1, <1>3, WindowsApart
<1>5. base < w.start
  <2>1. B!MonthOf(base) + 1 \in 1 .. Len(MonthStart) /\ m \in 1 .. Len(MonthStart)
        /\ B!MonthOf(base) + 1 <= m
    BY <1>1, <1>2, <1>3, CalendarFacts
  <2>2. MonthStart[B!MonthOf(base) + 1] <= MonthStart[m]
    BY <2>1, CalendarFacts
  <2>3. MonthStart[B!MonthOf(base) + 1] \in Nat /\ MonthStart[m] \in Nat /\ w.start \in Nat
    BY <1>4, <2>1, CalendarFacts
  <2> QED BY <1>2, <1>4, <2>2, <2>3
<1>6. ASSUME NEW v \in B!PlanFuturePeriods(r, base)
      PROVE  /\ v.start = w.start => v = w
             /\ w.start < v.start => w.end < v.start
  <2>1. PICK n \in B!Candidates(base) : v = B!WindowOf(n)
    BY DEF B!PlanFuturePeriods
  <2>2. n \in B!Months /\ n + 1 \in B!Months /\ m \in B!Months /\ m + 1 \in B!Months
    BY <1>1, <1>3, <2>1
  <2>3. m \in Nat /\ n \in Nat
    BY <2>2, CalendarFacts
  <2>4. v.start \in Nat /\ v.end \in Nat /\ w.start \in Nat /\ w.end \in Nat
    BY <1>4, <2>1, <2>2, WindowsApart, EndsDiffer
  <2>5. CASE m = n
    BY <1>1, <2>1, <2>4, <2>5
  <2>6. CASE m < n
    BY <1>1, <1>4, <2>1, <2>2, <2>4, <2>6, WindowsApart
  <2>7. CASE n < m
    <3>1. v.start <= v.end /\ v.end < w.start
      BY <1>1, <2>1, <2>2, <2>7, WindowsApart
    <3> QED BY <2>4, <3>1
  <2> QED BY <2>3, <2>5, <2>6, <2>7
<1>7. B!Free(r, w)
  BY DEF B!PlanFuturePeriods
<1> QED BY <1>4, <1>5, <1>6, <1>7

\* The table with the planned windows.
Filled(c, W) ==
    [s \in B!Dates |-> IF \E w \in W : w.start = s
                       THEN (CHOOSE w \in W : w.start = s).end ELSE c[s]]

LEMMA FilledIs ==
    ASSUME cycleDay \in CycleDays, NEW c \in Rosters, Upright(c), NEW r, NEW base \in B!Dates,
           \A w \in B!PlanFuturePeriods(r, base) : c[w.start] = B!None
    PROVE  LET a == Filled(c, B!PlanFuturePeriods(r, base))
           IN  /\ a \in Rosters /\ Upright(a) /\ Succeeds(c, a)
               /\ \A w \in B!PlanFuturePeriods(r, base) : a[w.start] = w.end
               /\ \A s \in B!Dates : \/ a[s] = c[s]
                                     \/ \E w \in B!PlanFuturePeriods(r, base) : w.start = s
               /\ \A s \in B!Dates : c[s] # B!None => a[s] = c[s]
<1> DEFINE Q == B!PlanFuturePeriods(r, base)
           a == Filled(c, Q)
<1>1. \A w \in Q : /\ w.start \in B!Dates /\ w.end \in B!Dates /\ w.start <= w.end
                   /\ \A v \in Q : v.start = w.start => v = w
  BY PlannedIs
<1>0. \A w \in Q : c[w.start] = B!None
  OBVIOUS
<1> HIDE DEF Q
<1>2. \A w \in Q : a[w.start] = w.end
  <2> TAKE w \in Q
  <2>1. (CHOOSE v \in Q : v.start = w.start) = w
    BY <1>1
  <2> QED BY <1>1, <2>1 DEF Filled
<1>3. \A s \in B!Dates : a[s] = c[s] \/ \E w \in Q : w.start = s
  BY DEF Filled
<1>4. a \in Rosters
  <2>1. \A s \in B!Dates : a[s] \in B!Dates \cup {B!None, B!Open}
    BY <1>1, <1>2, <1>3 DEF Rosters
  <2> QED BY <2>1 DEF Filled, Rosters
<1> HIDE DEF a
<1>5. \A s \in B!Dates : c[s] # B!None => a[s] = c[s]
  BY <1>0, <1>3
<1>6. Succeeds(c, a)
  BY <1>4, <1>5, GrowsSucceeds
<1>7. ASSUME NEW s \in B!Rows(a)
      PROVE  ~ B!Inverted(a, s)
  <2>1. s \in B!Dates /\ a[s] # B!None
    BY DEF B!Rows
  <2>2. CASE a[s] = c[s]
    BY <2>1, <2>2 DEF Upright, B!Rows, B!Inverted
  <2>3. CASE a[s] # c[s]
    <3>1. PICK w \in Q : w.start = s
      BY <1>3, <2>1, <2>3
    <3>2. a[s] \in Nat /\ s \in Nat /\ s <= a[s]
      BY <1>1, <1>2, <3>1, EndsDiffer
    <3> QED BY <3>2 DEF B!Inverted
  <2> QED BY <2>2, <2>3
<1>8. Upright(a)
  BY <1>7 DEF Upright
<1> QED BY <1>2, <1>3, <1>4, <1>5, <1>6, <1>8 DEF a, Q

\* Windows planned from the table and its latest open period.
LEMMA FilledApart ==
    ASSUME cycleDay \in CycleDays, NEW c \in Rosters, Upright(c), NoDouble(c), NEW base \in B!Dates,
           \A t \in B!Dates : c[t] = B!Open => t <= base
    PROVE  NoDouble(Filled(c, B!PlanFuturePeriods(c, base)))
<1> DEFINE Q == B!PlanFuturePeriods(c, base)
           a == Filled(c, Q)
<1>1. \A w \in Q : /\ w.start \in B!Dates /\ w.end \in B!Dates /\ w.start <= w.end
                   /\ base < w.start /\ c[w.start] = B!None
                   /\ \A s \in B!Rows(c) : c[s] # B!Open => (s > w.end \/ c[s] < w.start)
                   /\ \A v \in Q : w.start < v.start => w.end < v.start
  BY PlannedIs DEF B!Free
<1>2. /\ \A w \in Q : a[w.start] = w.end
      /\ \A s \in B!Dates : a[s] = c[s] \/ \E w \in Q : w.start = s
  BY <1>1, FilledIs
<1> HIDE DEF Q, a
<1>3. \A d \in B!Dates : d \in Nat
  BY EndsDiffer
<1>4. ASSUME NEW s \in B!Dates, NEW t \in B!Dates, a[s] # B!None, a[t] # B!None, s < t,
             a[s] # B!Open
      PROVE  a[s] < t
  <2>1. CASE \E w \in Q : w.start = s
    <3>1. PICK w \in Q : w.start = s
      BY <2>1
    <3>2. a[s] = w.end
      BY <1>2, <3>1
    <3>3. CASE \E v \in Q : v.start = t
      BY <1>1, <1>4, <3>1, <3>2, <3>3
    <3>4. CASE ~ \E v \in Q : v.start = t
      <4>1. t \in B!Rows(c)
        BY <1>2, <1>4, <3>4 DEF B!Rows
      <4>2. c[t] # B!Open
        <5>1. s \in Nat /\ t \in Nat /\ base \in Nat /\ base < s
          BY <1>1, <1>3, <3>1
        <5> QED BY <1>4, <5>1
      <4>3. t > w.end \/ c[t] < s
        BY <1>1, <3>1, <4>1, <4>2
      <4>4. ~ (c[t] < t) /\ c[t] \in Nat
        <5>1. c[t] \in B!Dates
          BY <4>1, <4>2 DEF Rosters, B!Rows
        <5> QED BY <1>3, <4>1, <4>2, <5>1 DEF Upright, B!Inverted
      <4>5. s \in Nat /\ t \in Nat /\ w.end \in Nat
        BY <1>1, <1>3
      <4> QED BY <1>4, <3>2, <4>3, <4>4, <4>5
    <3> QED BY <3>3, <3>4
  <2>2. CASE ~ \E w \in Q : w.start = s
    <3>1. a[s] = c[s] /\ s \in B!Rows(c)
      BY <1>2, <1>4, <2>2 DEF B!Rows
    <3>2. CASE \E v \in Q : v.start = t
      <4>1. PICK v \in Q : v.start = t
        BY <3>2
      <4>2. s > v.end \/ c[s] < t
        BY <1>1, <1>4, <3>1, <4>1
      <4>3. s \in Nat /\ t \in Nat /\ v.end \in Nat /\ t <= v.end
        BY <1>1, <1>3, <4>1
      <4> QED BY <1>4, <3>1, <4>2, <4>3
    <3>3. CASE ~ \E v \in Q : v.start = t
      BY <1>2, <1>4, <3>1, <3>3 DEF NoDouble
    <3> QED BY <3>2, <3>3
  <2> QED BY <2>1, <2>2
<1> QED BY <1>4 DEF NoDouble, a, Q

LEMMA InsertPlannedKeeps ==
    ASSUME PeriodInv, NEW p \in Requests, B!InsertPlanned(p)
    PROVE  PeriodInv'
<1> DEFINE q == req[p]
           Q == B!PlanFuturePeriods(q.snap, q.cur)
           a == Filled(period, Q)
<1>1. /\ q.op = "ensure" /\ q.pc = "insert" /\ req' = B!Done(p)
      /\ req' = [req EXCEPT ![p] = B!Idle]
      /\ UNCHANGED <<budget, cycleDay, today, wipes>>
  BY DEF B!InsertPlanned, B!Done
<1>2. \/ UNCHANGED <<period, stale>>
      \/ /\ \A w \in Q : period[w.start] = B!None
         /\ period' = a /\ stale' = (stale \/ B!Overtakes(p))
  BY DEF B!InsertPlanned, Filled
<1>3. /\ period \in Rosters /\ Upright(period) /\ budget \in Rosters
      /\ cycleDay \in CycleDays /\ stale \in BOOLEAN /\ q.cur \in B!Dates
  BY <1>1, PeriodTables DEF SoundReq
<1>4. CASE UNCHANGED <<period, stale>>
  BY <1>1, <1>4, EndKeeps
<1>5. CASE /\ \A w \in Q : period[w.start] = B!None
           /\ period' = a /\ stale' = (stale \/ B!Overtakes(p))
  <2>1. /\ a \in Rosters /\ Upright(a) /\ Succeeds(period, a)
        /\ \A s \in B!Dates : period[s] # B!None => a[s] = period[s]
    BY <1>3, <1>5, FilledIs
  <2>2. ASSUME ~ stale'
        PROVE  /\ ~ stale /\ NoDouble(a) /\ Follows(budget, a)
               /\ \A o \in Requests \ {p} : Exact(req[o], period) => Exact(req[o], a)
    <3>1. ~ stale /\ ~ B!Overtakes(p)
      BY <1>5, <2>2
    <3>2. q.snap = period /\ \A o \in Requests \ {p} : Exact(req[o], period) => Exact(req[o], a)
      BY <3>1, NobodyWaits
    <3>3. NoDouble(period) /\ Exact(q, period) /\ Follows(budget, period)
      BY <3>1 DEF PeriodInv
    <3>4. \A t \in B!Dates : period[t] = B!Open => t <= q.cur
      BY <1>1, <3>2, <3>3 DEF Exact
    <3>5. NoDouble(a)
      BY <1>3, <3>2, <3>3, <3>4, FilledApart
    <3> HIDE DEF a
    <3>6. Follows(budget, a)
      BY <2>1, <3>3, FollowsGrown
    <3> QED BY <3>1, <3>2, <3>5, <3>6
  <2> HIDE DEF a
  <2>3. stale' \in BOOLEAN /\ SoundReq(B!Idle) /\ Kept(B!Idle, period') /\ Exact(B!Idle, period')
    BY <1>5, IdleFine
  <2> QED BY <1>1, <1>3, <1>5, <2>1, <2>2, <2>3, TablesChange
<1> QED BY <1>2, <1>4, <1>5

\* A step that is none of the requests'.
LEMMA WorldChanges ==
    ASSUME PeriodInv, period' \in Rosters, Upright(period'), Succeeds(period, period'),
           budget' \in Rosters, cycleDay' \in CycleDays, today' \in B!Dates, wipes' = wipes,
           req' = req, stale' \in BOOLEAN,
           ~ stale' =>
              /\ ~ stale /\ NoDouble(period') /\ Follows(budget', period')
              /\ \A o \in Requests : Exact(req[o], period) => Exact(req[o], period')
    PROVE  PeriodInv'
<1>1. B!PeriodsTypeOK'
  BY DEF PeriodInv, B!PeriodsTypeOK, Upright, Rosters
<1>2. \A o \in Requests : SoundReq(req'[o]) /\ Kept(req'[o], period')
  BY KeptOn DEF PeriodInv
<1>3. ~ stale' => /\ NoDouble(period') /\ Follows(budget', period')
                  /\ \A o \in Requests : Exact(req'[o], period')
  BY DEF PeriodInv
<1> QED BY <1>1, <1>2, <1>3 DEF PeriodInv

\* The first period of an organisation that has none disturbs no close, since a
\* close has an open row in its snapshot.
LEMMA UpdateBillingCycleKeeps ==
    ASSUME PeriodInv, NEW day \in CycleDays, B!UpdateBillingCycle(day)
    PROVE  PeriodInv'
<1> DEFINE s == B!CurrentCycleStart(day, today)
<1>1. /\ cycleDay' = day
      /\ period' = IF B!OpenPeriods(period) # {} THEN period ELSE PutOpen(period, s)
      /\ stale' = (stale \/ (period' # period /\ B!Rows(period) # {}))
      /\ UNCHANGED <<budget, today, req, wipes>>
  BY DEF B!UpdateBillingCycle, PutOpen, Put
<1>2. /\ period \in Rosters /\ Upright(period) /\ budget \in Rosters
      /\ today \in B!Dates /\ stale \in BOOLEAN
      /\ \A o \in Requests : SoundReq(req[o]) /\ Kept(req[o], period)
  BY PeriodTables
<1>3. s \in B!Dates
  BY <1>2, CycleStartIn
<1> HIDE DEF s
<1>4. stale' \in BOOLEAN /\ (~ stale' => ~ stale)
  BY <1>1, <1>2
<1>5. CASE period' = period
  <2>1. Succeeds(period, period)
    BY <1>2, SucceedsSelf
  <2>2. ~ stale => NoDouble(period) /\ Follows(budget, period)
    BY DEF PeriodInv
  <2> QED BY <1>1, <1>2, <1>4, <1>5, <2>1, <2>2, WorldChanges
<1>6. CASE period' # period
  <2>1. period' = PutOpen(period, s)
    BY <1>1, <1>6
  <2>2. /\ period' \in Rosters /\ Upright(period') /\ Succeeds(period, period')
        /\ \A t \in B!Dates : period[t] # B!None => period'[t] = period[t]
        /\ B!Rows(period) = {} => NoDouble(period')
    BY <1>2, <1>3, <2>1, OpenRow
  <2>3. ASSUME ~ stale'
        PROVE  /\ ~ stale /\ NoDouble(period') /\ Follows(budget, period')
               /\ \A o \in Requests : Exact(req[o], period) => Exact(req[o], period')
    <3>1. ~ stale /\ B!Rows(period) = {}
      BY <1>1, <1>6, <2>3
    <3>2. Follows(budget, period')
      BY <2>2, <3>1, FollowsGrown DEF PeriodInv
    <3>3. ASSUME NEW o \in Requests, Exact(req[o], period)
          PROVE  Exact(req[o], period')
      <4>1. ~ (req[o].pc = "lock" /\ ~ req[o].gone)
        <5> SUFFICES ASSUME req[o].pc = "lock", ~ req[o].gone
                     PROVE  FALSE
          OBVIOUS
        <5>1. req[o].cur \in B!Dates /\ req[o].snap[req[o].cur] = B!Open
          BY <1>2, <3>3 DEF SoundReq, Exact
        <5>2. \E t \in B!Dates : period[t] = B!Open
          BY <1>2, <5>1 DEF Kept, Succeeds
        <5> QED BY <3>1, <5>2, EndsDiffer DEF B!Rows
      <4> QED BY <3>3, <4>1 DEF Exact
    <3> QED BY <2>2, <3>1, <3>2, <3>3
  <2> QED BY <1>1, <1>2, <1>4, <2>2, <2>3, WorldChanges
<1> QED BY <1>5, <1>6

LEMMA DayPassesKeeps ==
    ASSUME PeriodInv, B!DayPasses
    PROVE  PeriodInv'
<1>1. /\ today' \in B!Dates
      /\ UNCHANGED <<period, budget, cycleDay, req, stale, wipes>>
  BY DEF B!DayPasses
<1>2. /\ period \in Rosters /\ Upright(period) /\ budget \in Rosters
      /\ cycleDay \in CycleDays /\ stale \in BOOLEAN /\ Succeeds(period, period)
  BY PeriodTables, SucceedsSelf
<1>3. ~ stale => NoDouble(period) /\ Follows(budget, period)
  BY DEF PeriodInv
<1> QED BY <1>1, <1>2, <1>3, WorldChanges

LEMMA DeleteBudgetKeeps ==
    ASSUME PeriodInv, NEW s \in B!Dates, B!DeleteBudget(s)
    PROVE  PeriodInv'
<1>1. /\ budget' = [budget EXCEPT ![s] = B!None]
      /\ UNCHANGED <<period, cycleDay, today, req, stale, wipes>>
  BY DEF B!DeleteBudget
<1>2. /\ period \in Rosters /\ Upright(period) /\ budget \in Rosters /\ today \in B!Dates
      /\ cycleDay \in CycleDays /\ stale \in BOOLEAN /\ Succeeds(period, period)
  BY PeriodTables, SucceedsSelf
<1>3. /\ budget' \in Rosters
      /\ \A t \in B!Dates : budget'[t] # B!None => budget'[t] = budget[t]
  BY <1>1, <1>2 DEF Rosters
<1>4. ~ stale => NoDouble(period) /\ Follows(budget', period)
  BY <1>3 DEF PeriodInv, Follows
<1> QED BY <1>1, <1>2, <1>3, <1>4, WorldChanges

LEMMA InsertBudgetKeeps ==
    ASSUME PeriodInv, NEW p \in Requests, B!InsertBudget(p)
    PROVE  PeriodInv'
<1> DEFINE q == req[p]
<1>1. /\ q.op = "budget" /\ q.pc = "insert" /\ req' = B!Done(p)
      /\ req' = [req EXCEPT ![p] = B!Idle]
      /\ UNCHANGED <<period, cycleDay, today, wipes>>
  BY DEF B!InsertBudget, B!Done
<1>2. /\ period \in Rosters /\ Upright(period) /\ budget \in Rosters
      /\ cycleDay \in CycleDays /\ stale \in BOOLEAN /\ Succeeds(period, period)
      /\ q.cur \in B!Dates /\ q.snap \in Rosters
  BY <1>1, PeriodTables, SucceedsSelf DEF SoundReq, PeriodReq
<1>3. CASE budget[q.cur] # B!None
  <2>1. UNCHANGED <<budget, stale>>
    BY <1>3 DEF B!InsertBudget
  <2> QED BY <1>1, <2>1, EndKeeps
<1>4. CASE budget[q.cur] = B!None
  <2>1. budget' = [budget EXCEPT ![q.cur] = q.snap[q.cur]] /\ stale' = (stale \/ B!Overtakes(p))
    BY <1>4 DEF B!InsertBudget
  <2>2. budget' \in Rosters
    BY <1>2, <2>1 DEF Rosters
  <2>3. ASSUME ~ stale'
        PROVE  /\ ~ stale /\ NoDouble(period) /\ Follows(budget', period)
    <3>1. ~ stale /\ q.snap = period
      BY <2>1, <2>3, NobodyWaits
    <3>2. NoDouble(period) /\ Follows(budget, period)
      BY <3>1 DEF PeriodInv
    <3>3. \A s \in B!Dates : budget'[s] = IF s = q.cur THEN period[q.cur] ELSE budget[s]
      BY <1>2, <2>1, <3>1 DEF Rosters
    <3>4. Follows(budget', period)
      BY <3>2, <3>3 DEF Follows
    <3> QED BY <3>1, <3>2, <3>4
  <2>4. stale' \in BOOLEAN /\ SoundReq(B!Idle) /\ Kept(B!Idle, period') /\ Exact(B!Idle, period')
    BY <2>1, IdleFine
  <2> QED BY <1>1, <1>2, <2>2, <2>3, <2>4, TablesChange
<1> QED BY <1>3, <1>4

\* A reset takes the row from every close that is under way.
LEMMA WipeKeeps ==
    ASSUME PeriodInv, B!WipeOrgData
    PROVE  PeriodInv'
<1>1. /\ wipes < MaxWipes /\ period' = B!NoRoster /\ budget' = B!NoRoster /\ wipes' = wipes + 1
      /\ req' = [p \in Requests |-> [req[p] EXCEPT !.gone = req[p].pc \in {"lock", "retry"}]]
      /\ UNCHANGED <<cycleDay, today, stale>>
  BY DEF B!WipeOrgData
<1>2. MaxWipes \in Nat
  BY PlanningAssumption DEF B!PeriodsAssumption
<1>3. /\ wipes \in 0 .. MaxWipes /\ stale \in BOOLEAN
      /\ cycleDay \in CycleDays /\ today \in B!Dates
      /\ \A p \in Requests : SoundReq(req[p]) /\ req[p] \in PeriodReq
  BY PeriodTables
<1>4. period' \in Rosters /\ \A s \in B!Dates : period'[s] = B!None /\ budget'[s] = B!None
  BY <1>1 DEF B!NoRoster, Rosters
<1>5. B!PeriodsTypeOK'
  <2>1. wipes' \in 0 .. MaxWipes
    BY <1>1, <1>2, <1>3
  <2>2. /\ period' \in [B!Dates -> B!Dates \cup {B!None, B!Open}]
        /\ budget' \in [B!Dates -> B!Dates \cup {B!None, B!Open}]
    BY <1>1 DEF B!NoRoster
  <2>3. \A s \in B!Rows(period') : ~ B!Inverted(period', s)
    BY <1>4 DEF B!Rows
  <2> QED BY <1>1, <1>3, <2>1, <2>2, <2>3 DEF B!PeriodsTypeOK
<1>6. ASSUME NEW p \in Requests
      PROVE  /\ SoundReq(req'[p]) /\ Kept(req'[p], period')
             /\ ~ stale => Exact(req'[p], period')
  <2> DEFINE q == req[p]
             n == [q EXCEPT !.gone = q.pc \in {"lock", "retry"}]
  <2>1. req'[p] = n
    BY <1>1
  <2>2. q \in PeriodReq /\ SoundReq(q) /\ (~ stale => Exact(q, period))
    BY <1>3 DEF PeriodInv
  <2> HIDE DEF q
  <2>3. /\ n \in PeriodReq /\ n.op = q.op /\ n.pc = q.pc /\ n.snap = q.snap /\ n.cur = q.cur
        /\ n.date = q.date /\ n.end = q.end
        /\ q.pc \in {"lock", "retry"} => n.gone
    <3>1. CASE q.pc \in {"lock", "retry"}
      <4>1. n = [q EXCEPT !.gone = TRUE]
        BY <3>1
      <4> HIDE DEF n
      <4> QED BY <2>2, <4>1 DEF PeriodReq
    <3>2. CASE q.pc \notin {"lock", "retry"}
      <4>0. (q.pc \in {"lock", "retry"}) = FALSE
        BY <3>2
      <4>1. n = [q EXCEPT !.gone = FALSE]
        BY <4>0, Zenon
      <4> HIDE DEF n
      <4> QED BY <2>2, <3>2, <4>1 DEF PeriodReq
    <3> QED BY <3>1, <3>2
  <2> HIDE DEF n
  <2>4. SoundReq(n) /\ Kept(n, period') /\ (~ stale => Exact(n, period'))
    BY <2>2, <2>3 DEF SoundReq, Kept, Exact
  <2> QED BY <2>1, <2>4
<1>7. ~ stale => NoDouble(period') /\ Follows(budget', period')
  BY <1>4 DEF NoDouble, Follows
<1> QED BY <1>1, <1>5, <1>6, <1>7 DEF PeriodInv

\* The close p is about to commit: its row is there and open, r is the roster of
\* its plain reads.
Closing(p, r) ==
    /\ r \in Rosters /\ Succeeds(r, period)
    /\ ~ req[p].gone /\ req[p].cur \in B!Dates /\ period[req[p].cur] = B!Open
    /\ req[p].date >= req[p].cur
    /\ ~ stale => /\ r = period
                  /\ \A t \in B!Dates : period[t] = B!Open => t <= req[p].cur

\* A close that moves the table leaves no other close a row it could still close.
LEMMA OthersOvertaken ==
    ASSUME PeriodInv, ~ stale, NEW p \in Requests, NEW cur \in B!Dates, period[cur] = B!Open,
           \A t \in B!Dates : period[t] = B!Open => t <= cur,
           NEW a \in Rosters, NEW e \in B!Dates, cur < e + 1, a[cur] = e,
           \A s \in B!Dates : s # cur /\ s # e + 1 => a[s] = period[s],
           NEW o \in Requests
    PROVE  Exact(req[o], a)
<1>1. Exact(req[o], period) /\ Kept(req[o], period) /\ SoundReq(req[o])
  BY DEF PeriodInv
<1>2. ASSUME req[o].pc = "lock", ~ req[o].gone, a[req[o].cur] = B!Open
      PROVE  FALSE
  <2> DEFINE oc == req[o].cur
  <2>1. oc \in B!Dates /\ cur \in Nat /\ oc \in Nat
    BY <1>1, <1>2, EndsDiffer DEF SoundReq
  <2>2. req[o].snap[oc] = B!Open /\ \A t \in B!Dates : req[o].snap[t] = B!Open => t <= oc
    BY <1>1, <1>2 DEF Exact
  <2>3. oc # cur
    BY <1>2, EndsDiffer
  <2>4. oc # e + 1
    <3>1. PICK t \in B!Dates : oc <= t /\ period[t] = B!Open
      BY <1>1, <1>2, <2>1, <2>2 DEF Kept, Succeeds
    <3>2. t <= cur /\ t \in Nat /\ e \in Nat
      BY <3>1, EndsDiffer
    <3> QED BY <2>1, <3>1, <3>2
  <2>5. period[oc] = B!Open
    BY <1>2, <2>1, <2>3, <2>4
  <2>6. req[o].snap = period
    BY <1>1, <1>2, <2>5 DEF Exact
  <2>7. cur <= oc /\ oc <= cur
    BY <2>1, <2>2, <2>5, <2>6
  <2> QED BY <2>1, <2>3, <2>7
<1> QED BY <1>1, <1>2 DEF Exact

LEMMA ApplyCloseKeeps ==
    ASSUME PeriodInv, NEW p \in Requests, NEW r, Closing(p, r), B!ApplyClose(p, r),
           UNCHANGED <<cycleDay, today, wipes>>
    PROVE  PeriodInv'
<1> DEFINE q == req[p]
           cur == q.cur
           e == B!ResolvedEnd(r, cur, q.date)
           a == Closed(period, r, cur, e)
<1>1. /\ period \in Rosters /\ Upright(period) /\ budget \in Rosters
      /\ cycleDay \in CycleDays /\ stale \in BOOLEAN /\ q \in PeriodReq /\ q.date \in Int
      /\ r \in Rosters /\ Succeeds(r, period) /\ cur \in B!Dates /\ period[cur] = B!Open
      /\ q.date >= cur /\ ~ q.gone
  BY PeriodTables DEF Closing, PeriodReq
<1>2. /\ e + 1 \in B!Dates /\ stale' = stale
      /\ \/ /\ r[e + 1] = B!None /\ period[e + 1] # B!None
            /\ req' = [req EXCEPT ![p] = [@ EXCEPT !.pc = "retry", !.snap = B!NoRoster]]
            /\ UNCHANGED <<period, budget>>
         \/ /\ ~ (r[e + 1] = B!None /\ period[e + 1] # B!None)
            /\ period' = a
            /\ budget' = B!Reanchor(budget, r, cur, e)
            /\ req' = [req EXCEPT ![p] = B!NextStep(q, e + 1, a)]
  BY DEF B!ApplyClose, Closed
<1>3. CASE /\ r[e + 1] = B!None /\ period[e + 1] # B!None
           /\ req' = [req EXCEPT ![p] = [@ EXCEPT !.pc = "retry", !.snap = B!NoRoster]]
           /\ UNCHANGED <<period, budget>>
  <2> DEFINE n == [q EXCEPT !.pc = "retry", !.snap = B!NoRoster]
  <2>1. req' = [req EXCEPT ![p] = n]
    BY <1>3
  <2>2. B!NoRoster \in Rosters
    BY DEF B!NoRoster, Rosters
  <2>3. n \in PeriodReq /\ n.pc = "retry" /\ n.cur = cur /\ n.date = q.date
    BY <1>1, <2>2 DEF PeriodReq
  <2> HIDE DEF n
  <2>4. SoundReq(n) /\ Kept(n, period)
    BY <1>1, <2>3 DEF SoundReq, Kept
  <2>5. stale
    BY <1>3 DEF Closing
  <2> QED BY <1>1, <1>2, <1>3, <2>1, <2>4, <2>5, TablesStay
<1>4. CASE /\ ~ (r[e + 1] = B!None /\ period[e + 1] # B!None)
           /\ period' = a
           /\ budget' = B!Reanchor(budget, r, cur, e)
           /\ req' = [req EXCEPT ![p] = B!NextStep(q, e + 1, a)]
  <2> DEFINE n == B!NextStep(q, e + 1, a)
  <2>1. /\ e \in B!Dates /\ cur < e + 1 /\ a \in Rosters /\ a[cur] = e
        /\ \A s \in B!Dates : s # cur /\ s # e + 1 => a[s] = period[s]
    BY <1>1, <1>2, ClosedIs
  <2>2. Succeeds(period, a) /\ Upright(a)
    BY <1>1, <1>2, ClosedSucceeds
  <2>3. ~ stale => NoDouble(a) /\ Follows(budget', a)
    <3> SUFFICES ASSUME ~ stale
                 PROVE  NoDouble(a) /\ Follows(budget', a)
      OBVIOUS
    <3>1. r = period /\ \A t \in B!Dates : period[t] = B!Open => t <= cur
      BY DEF Closing
    <3>2. NoDouble(period) /\ Follows(budget, period)
      BY DEF PeriodInv
    <3> QED BY <1>1, <1>2, <1>4, <3>1, <3>2, ClosedApart
  <2>4. ~ stale => \A o \in Requests \ {p} : Exact(req[o], a)
    <3> SUFFICES ASSUME ~ stale, NEW o \in Requests \ {p}
                 PROVE  Exact(req[o], a)
      OBVIOUS
    <3>1. \A t \in B!Dates : period[t] = B!Open => t <= cur
      BY DEF Closing
    <3> HIDE DEF a, e, cur, q
    <3> QED BY <1>1, <2>1, <3>1, OthersOvertaken
  <2>5. budget' \in Rosters
    <3>1. \A s \in B!Dates : B!Reanchor(budget, r, cur, e)[s] \in B!Dates \cup {B!None, B!Open}
      <4> HIDE DEF e, cur, q
      <4> QED BY <1>1, <2>1 DEF B!Reanchor, Rosters
    <3> QED BY <1>4, <3>1 DEF B!Reanchor, Rosters
  <2> HIDE DEF a
  <2>6. SoundReq(n) /\ Kept(n, a) /\ Exact(n, a)
    BY <1>1, <2>1, SucceedsSelf, NextStepFine
  <2> HIDE DEF n
  <2>7. req' = [req EXCEPT ![p] = n] /\ stale' \in BOOLEAN
    BY <1>1, <1>2, <1>4 DEF n
  <2> QED BY <1>1, <1>2, <1>4, <2>1, <2>2, <2>3, <2>4, <2>5, <2>6, <2>7, TablesChange
<1> QED BY <1>2, <1>3, <1>4

LEMMA AdoptRacerKeeps ==
    ASSUME PeriodInv, NEW p \in Requests, NEW r \in Rosters, Succeeds(r, period),
           req[p].cur \in B!Dates, ~ req[p].gone, period[req[p].cur] \notin {B!None, B!Open},
           ~ stale => \A t \in B!Dates : r[t] = B!Open => t <= req[p].cur,
           B!AdoptRacer(p, r), UNCHANGED <<cycleDay, today, wipes>>
    PROVE  PeriodInv'
<1> DEFINE q == req[p]
           new == period[q.cur] + 1
           f == [B!Idle EXCEPT !.pc = "failed", !.cur = q.cur]
           n == IF new \in B!Dates /\ r[new] = B!Open THEN B!NextStep(q, new, r) ELSE f
<1>1. /\ req' = [req EXCEPT ![p] = n] /\ UNCHANGED <<period, budget, stale>>
  BY DEF B!AdoptRacer
<1>2. /\ period \in Rosters /\ Upright(period) /\ stale \in BOOLEAN /\ q \in PeriodReq
  BY PeriodTables
<1>3. q.cur < new
  <2>1. period[q.cur] \in B!Dates
    BY <1>2 DEF Rosters
  <2>2. ~ (period[q.cur] < q.cur)
    BY <1>2 DEF Upright, B!Rows, B!Inverted
  <2> QED BY <2>1, <2>2, EndsDiffer
<1>4. f \in PeriodReq /\ f.pc = "failed"
  BY IdleFine DEF PeriodReq
<1>5. SoundReq(f) /\ Kept(f, period) /\ Exact(f, period)
  <2> HIDE DEF f
  <2> QED BY <1>4 DEF SoundReq, Kept, Exact
<1>6. SoundReq(n) /\ Kept(n, period) /\ (~ stale => Exact(n, period))
  <2>1. CASE new \in B!Dates /\ r[new] = B!Open
    <3>1. stale
      <4>1. new \in Nat /\ q.cur \in Nat
        BY <2>1, EndsDiffer
      <4> QED BY <1>3, <2>1, <4>1
    <3> HIDE DEF f, q, new
    <3>2. n = B!NextStep(q, new, r)
      BY <2>1
    <3>3. ~ q.gone
      BY DEF q
    <3> QED BY <1>2, <3>1, <3>2, <3>3, NextStepFine
  <2>2. CASE ~ (new \in B!Dates /\ r[new] = B!Open)
    BY <1>5, <2>2
  <2> QED BY <2>1, <2>2
<1> HIDE DEF n
<1> QED BY <1>1, <1>2, <1>6, TablesStay

LEMMA CloseStepKeeps ==
    ASSUME PeriodInv, NEW p \in Requests, B!CloseStep(p)
    PROVE  PeriodInv'
<1> DEFINE q == req[p]
<1>1. q.pc = "lock" /\ UNCHANGED <<cycleDay, today, wipes>>
  BY DEF B!CloseStep
<1>2. /\ q \in PeriodReq /\ q.cur \in B!Dates /\ Kept(q, period) /\ q.snap \in Rosters
      /\ q.date \in Int /\ period \in Rosters
  BY <1>1, PeriodTables DEF SoundReq, PeriodReq
<1>3. /\ ~ q.gone => Succeeds(q.snap, period)
      /\ ~ stale => Exact(q, period)
  BY <1>1, <1>2 DEF Kept, PeriodInv
<1>4. CASE req' = B!Done(p) /\ UNCHANGED <<period, budget, stale>>
  BY <1>1, <1>4, EndKeeps
<1>5. CASE B!LockPeriod(q) \notin {B!None, B!Open} /\ B!AdoptRacer(p, q.snap)
  <2>1. ~ q.gone /\ period[q.cur] \notin {B!None, B!Open}
    BY <1>5 DEF B!LockPeriod
  <2>2. ~ stale => \A t \in B!Dates : q.snap[t] = B!Open => t <= q.cur
    BY <1>1, <1>3 DEF Exact
  <2> QED BY <1>1, <1>2, <1>3, <1>5, <2>1, <2>2, AdoptRacerKeeps
<1>6. CASE B!LockPeriod(q) = B!Open /\ q.date >= q.cur /\ B!ApplyClose(p, q.snap)
  <2>1. ~ q.gone /\ period[q.cur] = B!Open
    BY <1>6, EndsDiffer DEF B!LockPeriod
  <2>2. ~ stale => /\ q.snap = period
                   /\ \A t \in B!Dates : period[t] = B!Open => t <= q.cur
    BY <1>1, <1>3, <2>1 DEF Exact
  <2>3. Closing(p, q.snap)
    BY <1>2, <1>3, <1>6, <2>1, <2>2 DEF Closing
  <2> QED BY <1>1, <1>6, <2>3, ApplyCloseKeeps
<1> QED BY <1>4, <1>5, <1>6 DEF B!CloseStep

LEMMA RetryCloseKeeps ==
    ASSUME PeriodInv, NEW p \in Requests, B!RetryClose(p)
    PROVE  PeriodInv'
<1> DEFINE q == req[p]
<1>1. q.pc = "retry" /\ UNCHANGED <<cycleDay, today, wipes>>
  BY DEF B!RetryClose
<1>2. /\ q \in PeriodReq /\ q.cur \in B!Dates /\ q.date >= q.cur
      /\ period \in Rosters /\ Succeeds(period, period)
      /\ ~ stale => q.gone
  BY <1>1, PeriodTables, SucceedsSelf DEF SoundReq, PeriodInv, Exact
<1>3. CASE req' = B!Done(p) /\ UNCHANGED <<period, budget, stale>>
  BY <1>1, <1>3, EndKeeps
<1>4. CASE B!LockPeriod(q) \notin {B!None, B!Open} /\ B!AdoptRacer(p, period)
  <2>1. ~ q.gone /\ period[q.cur] \notin {B!None, B!Open}
    BY <1>4 DEF B!LockPeriod
  <2> QED BY <1>1, <1>2, <1>4, <2>1, AdoptRacerKeeps
<1>5. CASE B!LockPeriod(q) = B!Open /\ B!ApplyClose(p, period)
  <2>1. ~ q.gone /\ period[q.cur] = B!Open
    BY <1>5, EndsDiffer DEF B!LockPeriod
  <2>2. Closing(p, period)
    BY <1>2, <2>1 DEF Closing
  <2> QED BY <1>1, <1>5, <2>2, ApplyCloseKeeps
<1> QED BY <1>3, <1>4, <1>5 DEF B!RetryClose

LEMMA RequestFailsKeeps ==
    ASSUME PeriodInv, NEW p \in Requests, B!RequestFails(p)
    PROVE  PeriodInv'
  BY EndKeeps DEF B!RequestFails

LEMMA PeriodsBegin ==
    ASSUME B!PeriodsInit
    PROVE  PeriodInv
<1>1. /\ period = B!NoRoster /\ budget = B!NoRoster /\ cycleDay \in CycleDays
      /\ today = MonthStart[2] /\ req = [p \in Requests |-> B!Idle]
      /\ stale = FALSE /\ wipes = 0
  BY DEF B!PeriodsInit
<1>2. \A s \in B!Dates : period[s] = B!None /\ budget[s] = B!None
  BY <1>1 DEF B!NoRoster
<1>3. today \in B!Dates
  <2>1. MonthStart[2] \in Nat /\ MonthStart[Len(MonthStart)] \in Nat
        /\ MonthStart[1] < MonthStart[2] /\ MonthStart[2] < MonthStart[Len(MonthStart)]
    BY CalendarFacts
  <2> QED BY <1>1, <2>1, CalendarFacts
<1>4. B!PeriodsTypeOK
  <2>1. /\ period \in [B!Dates -> B!Dates \cup {B!None, B!Open}]
        /\ budget \in [B!Dates -> B!Dates \cup {B!None, B!Open}]
    BY <1>1 DEF B!NoRoster
  <2>2. \A s \in B!Rows(period) : ~ B!Inverted(period, s)
    BY <1>2 DEF B!Rows
  <2>3. wipes \in 0 .. MaxWipes
    BY <1>1, PlanningAssumption DEF B!PeriodsAssumption
  <2> QED BY <1>1, <1>3, <2>1, <2>2, <2>3 DEF B!PeriodsTypeOK
<1>5. \A p \in Requests : SoundReq(req[p]) /\ Kept(req[p], period) /\ Exact(req[p], period)
  BY <1>1, IdleFine
<1>6. NoDouble(period) /\ Follows(budget, period)
  BY <1>2 DEF NoDouble, Follows
<1> QED BY <1>4, <1>5, <1>6 DEF PeriodInv

LEMMA PeriodsKeep ==
    ASSUME PeriodInv, B!PeriodsNext
    PROVE  PeriodInv'
<1>1. ASSUME NEW p \in Requests,
             \/ B!OpenCurrent(p)
             \/ B!EnsureFuturePeriods(p)
             \/ B!InsertPlanned(p)
             \/ \E w \in HandMade : B!CreatePeriod(p, w.start, w.end)
             \/ B!InsertPeriod(p)
      PROVE  PeriodInv'
  BY <1>1, OpenCurrentKeeps, EnsureKeeps, InsertPlannedKeeps, CreatePeriodKeeps,
     InsertPeriodKeeps
<1>2. ASSUME NEW p \in Requests,
             \/ \E d \in CloseDates : B!ClosePeriod(p, d)
             \/ B!BillingCloseJob(p)
             \/ B!CloseStep(p)
             \/ B!RetryClose(p)
      PROVE  PeriodInv'
  BY <1>2, ClosePeriodKeeps, JobKeeps, CloseStepKeeps, RetryCloseKeeps
<1>3. ASSUME NEW p \in Requests,
             \/ \E s \in B!Dates : B!CreateBudget(p, s)
             \/ B!InsertBudget(p)
             \/ B!RequestFails(p)
      PROVE  PeriodInv'
  BY <1>3, CreateBudgetKeeps, InsertBudgetKeeps, RequestFailsKeeps
<1>4. ASSUME NEW day \in CycleDays, B!UpdateBillingCycle(day)
      PROVE  PeriodInv'
  BY <1>4, UpdateBillingCycleKeeps
<1>5. ASSUME NEW s \in B!Dates, B!DeleteBudget(s)
      PROVE  PeriodInv'
  BY <1>5, DeleteBudgetKeeps
<1> QED BY <1>1, <1>2, <1>3, <1>4, <1>5, DayPassesKeeps, WipeKeeps DEF B!PeriodsNext

LEMMA PeriodsHold ==
    ASSUME PeriodInv
    PROVE  B!PeriodsTypeOK /\ B!NoDoubleDay /\ B!BudgetEndFollows /\ B!AnomaliesExact
<1>1. B!PeriodsTypeOK /\ B!AnomaliesExact
  BY AnomaliesAreExact DEF PeriodInv
<1>2. B!NoDoubleDay
  BY DEF PeriodInv, B!NoDoubleDay, NoDouble, B!Rows
<1>3. B!BudgetEndFollows
  BY DEF PeriodInv, B!BudgetEndFollows, Follows
<1> QED BY <1>1, <1>2, <1>3

LEMMA PeriodsStay ==
    ASSUME PeriodInv, UNCHANGED periodsVars
    PROVE  PeriodInv'
<1>1. /\ period' = period /\ budget' = budget /\ cycleDay' = cycleDay /\ today' = today
      /\ req' = req /\ stale' = stale /\ wipes' = wipes
  BY DEF periodsVars
<1>2. B!PeriodsTypeOK'
  BY <1>1 DEF PeriodInv, B!PeriodsTypeOK, B!Rows, B!Inverted
<1> QED BY <1>1, <1>2 DEF PeriodInv

-----------------------------------------------------------------------------
(* Periods: a close hands over. *)

HandsOver(c, a) ==
    \A s \in B!Dates : c[s] = B!Open /\ a[s] \notin {B!Open, B!None} =>
        /\ a[a[s] + 1] # B!None
        /\ B!OpenPeriods(a) # {}

\* Rows that are there are not touched.
RowsStay(c, a) == \A s \in B!Dates : c[s] # B!None => a[s] = c[s]

LEMMA StayingHandsOver ==
    ASSUME NEW c, NEW a, RowsStay(c, a)
    PROVE  HandsOver(c, a)
  BY EndsDiffer DEF RowsStay, HandsOver

LEMMA ApplyCloseHandsOver ==
    ASSUME PeriodInv, NEW p \in Requests, NEW r \in Rosters, Succeeds(r, period),
           ~ req[p].gone, req[p].cur \in B!Dates, period[req[p].cur] = B!Open,
           req[p].date >= req[p].cur, B!ApplyClose(p, r)
    PROVE  HandsOver(period, period')
<1> DEFINE q == req[p]
           cur == q.cur
           e == B!ResolvedEnd(r, cur, q.date)
           a == Closed(period, r, cur, e)
<1>1. period \in Rosters /\ q.date \in Int
  BY PeriodTables DEF PeriodReq
<1>2. e + 1 \in B!Dates /\ (UNCHANGED period \/ period' = a)
  BY DEF B!ApplyClose, Closed
<1>3. CASE UNCHANGED period
  BY <1>3, StayingHandsOver DEF RowsStay
<1>4. CASE period' = a
  <2>1. /\ e \in B!Dates /\ a \in Rosters /\ a[cur] = e /\ a[e + 1] # B!None
        /\ a[e + 1] = IF r[e + 1] = B!Open THEN period[e + 1] ELSE B!Open
        /\ \A s \in B!Dates : s # cur /\ s # e + 1 => a[s] = period[s]
    BY <1>1, <1>2, ClosedIs
  <2>2. \E t \in B!Dates : a[t] = B!Open
    BY <1>1, <1>2, ClosedSucceeds
  <2> HIDE DEF a, e
  <2>3. ASSUME NEW s \in B!Dates, period[s] = B!Open, a[s] \notin {B!Open, B!None}
        PROVE  s = cur
    BY <2>1, <2>3
  <2>4. B!OpenPeriods(a) # {}
    BY <2>2 DEF B!OpenPeriods
  <2>5. HandsOver(period, a)
    BY <2>1, <2>3, <2>4 DEF HandsOver
  <2> QED BY <1>4, <2>5
<1> QED BY <1>2, <1>3, <1>4

LEMMA ClosersHandOver ==
    ASSUME PeriodInv, NEW p \in Requests, B!CloseStep(p) \/ B!RetryClose(p)
    PROVE  HandsOver(period, period')
<1> DEFINE q == req[p]
<1>0. period \in Rosters /\ q \in PeriodReq /\ SoundReq(q) /\ Kept(q, period)
  BY PeriodTables
<1>1. CASE UNCHANGED period
  BY <1>1, StayingHandsOver DEF RowsStay
<1>2. CASE B!CloseStep(p) /\ ~ UNCHANGED period
  <2>1. q.pc = "lock" /\ B!LockPeriod(q) = B!Open /\ q.date >= q.cur /\ B!ApplyClose(p, q.snap)
    BY <1>2 DEF B!CloseStep, B!AdoptRacer
  <2>2. ~ q.gone /\ period[q.cur] = B!Open
    BY <2>1, EndsDiffer DEF B!LockPeriod
  <2>3. q.cur \in B!Dates /\ q.snap \in Rosters /\ Succeeds(q.snap, period)
    BY <1>0, <2>1, <2>2 DEF SoundReq, Kept, PeriodReq
  <2> QED BY <2>1, <2>2, <2>3, ApplyCloseHandsOver
<1>3. CASE B!RetryClose(p) /\ ~ UNCHANGED period
  <2>1. q.pc = "retry" /\ B!LockPeriod(q) = B!Open /\ B!ApplyClose(p, period)
    BY <1>3 DEF B!RetryClose, B!AdoptRacer
  <2>2. ~ q.gone /\ period[q.cur] = B!Open
    BY <2>1, EndsDiffer DEF B!LockPeriod
  <2>3. q.cur \in B!Dates /\ q.date >= q.cur
    BY <1>0, <2>1 DEF SoundReq
  <2> QED BY <1>0, <2>1, <2>2, <2>3, SucceedsSelf, ApplyCloseHandsOver
<1> QED BY <1>1, <1>2, <1>3

\* Every other step inserts rows, or deletes them all.
LEMMA OthersHandOver ==
    ASSUME PeriodInv, B!PeriodsNext, \A p \in Requests : ~ B!CloseStep(p) /\ ~ B!RetryClose(p)
    PROVE  HandsOver(period, period')
<1>0. period \in Rosters
  BY PeriodTables
<1>1. CASE UNCHANGED period
  BY <1>1, StayingHandsOver DEF RowsStay
<1>2. ASSUME NEW p \in Requests, B!OpenCurrent(p)
      PROVE  RowsStay(period, period')
  BY <1>0, <1>2 DEF B!OpenCurrent, RowsStay, Rosters
<1>3. ASSUME NEW p \in Requests, B!InsertPeriod(p)
      PROVE  RowsStay(period, period')
  BY <1>0, <1>3 DEF B!InsertPeriod, RowsStay, Rosters
<1>4. ASSUME NEW p \in Requests, B!InsertPlanned(p)
      PROVE  RowsStay(period, period')
  <2> DEFINE Q == B!PlanFuturePeriods(req[p].snap, req[p].cur)
  <2>1. CASE UNCHANGED period
    BY <2>1 DEF RowsStay
  <2>2. CASE ~ UNCHANGED period
    <3>1. (\A w \in Q : period[w.start] = B!None) /\ period' = Filled(period, Q)
      BY <1>4, <2>2 DEF B!InsertPlanned, Filled
    <3> HIDE DEF Q
    <3> QED BY <3>1 DEF RowsStay, Filled
  <2> QED BY <2>1, <2>2
<1>5. ASSUME NEW day \in CycleDays, B!UpdateBillingCycle(day)
      PROVE  RowsStay(period, period')
  BY <1>0, <1>5 DEF B!UpdateBillingCycle, RowsStay, Rosters
<1>6. CASE B!WipeOrgData
  BY <1>6 DEF B!WipeOrgData, HandsOver, B!NoRoster
<1>7. \/ \E p \in Requests : B!OpenCurrent(p) \/ B!InsertPeriod(p) \/ B!InsertPlanned(p)
      \/ \E day \in CycleDays : B!UpdateBillingCycle(day)
      \/ B!WipeOrgData
      \/ UNCHANGED period
  BY DEF B!PeriodsNext, B!EnsureFuturePeriods, B!CreatePeriod, B!ClosePeriod, B!BillingCloseJob,
         B!CreateBudget, B!InsertBudget, B!RequestFails, B!DeleteBudget, B!DayPasses
<1> QED BY <1>1, <1>2, <1>3, <1>4, <1>5, <1>6, <1>7, StayingHandsOver

LEMMA PeriodsHandOver ==
    ASSUME PeriodInv, B!PeriodsNext
    PROVE  B!CloseHandsOver
<1>1. HandsOver(period, period')
  BY ClosersHandOver, OthersHandOver
<1> QED BY <1>1 DEF HandsOver, B!CloseHandsOver

-----------------------------------------------------------------------------
(* Budgets: the cents that are left over. *)

\* R orders D: irreflexive, transitive and total.
Orders(R, D) ==
    /\ \A b, c \in D : <<b, c>> \in R => <<c, b>> \notin R
    /\ \A a, b, c \in D : <<a, b>> \in R /\ <<b, c>> \in R => <<a, c>> \in R
    /\ \A b, c \in D : b # c => <<b, c>> \in R \/ <<c, b>> \in R

Below(R, D, c) == {b \in D : <<b, c>> \in R}

\* The places of an order are 0, 1, 2 ...
LEMMA PlacesAre ==
    ASSUME NEW D, IsFiniteSet(D), NEW R, Orders(R, D)
    PROVE  LET f == [c \in D |-> Cardinality(Below(R, D, c))]
               I == 0 .. (Cardinality(D) - 1)
           IN  /\ f \in [D -> I]
               /\ \A b, c \in D : f[b] = f[c] => b = c
               /\ \A i \in I : \E c \in D : f[c] = i
<1> DEFINE f == [c \in D |-> Cardinality(Below(R, D, c))]
           I == 0 .. (Cardinality(D) - 1)
<1>1. Cardinality(D) \in Nat
  BY FS_CardinalityType
<1>2. ASSUME NEW c \in D
      PROVE  /\ IsFiniteSet(Below(R, D, c)) /\ f[c] \in I /\ f[c] \in Nat
  <2>1. Below(R, D, c) \subseteq D \ {c}
    BY DEF Below, Orders
  <2>2. IsFiniteSet(D \ {c}) /\ Cardinality(D \ {c}) = Cardinality(D) - 1
    BY FS_RemoveElement
  <2>3. IsFiniteSet(Below(R, D, c)) /\ Cardinality(Below(R, D, c)) <= Cardinality(D) - 1
    BY <2>1, <2>2, FS_Subset
  <2>4. Cardinality(Below(R, D, c)) \in Nat
    BY <2>3, FS_CardinalityType
  <2> QED BY <1>1, <2>3, <2>4
<1>3. ASSUME NEW b \in D, NEW c \in D, <<b, c>> \in R
      PROVE  f[b] < f[c]
  <2>1. b \in Below(R, D, c) /\ Below(R, D, b) \subseteq Below(R, D, c) \ {b}
    BY <1>3 DEF Below, Orders
  <2>2. /\ IsFiniteSet(Below(R, D, c) \ {b})
        /\ Cardinality(Below(R, D, c) \ {b}) = Cardinality(Below(R, D, c)) - 1
    BY <1>2, <2>1, FS_RemoveElement
  <2>3. Cardinality(Below(R, D, b)) <= Cardinality(Below(R, D, c) \ {b})
    BY <2>1, <2>2, FS_Subset
  <2>4. f[b] \in Nat /\ f[c] \in Nat /\ f[b] <= f[c] - 1
    BY <1>2, <2>2, <2>3
  <2> QED BY <2>4
<1>4. ASSUME NEW b \in D, NEW c \in D, f[b] = f[c]
      PROVE  b = c
  <2>1. ~ (<<b, c>> \in R) /\ ~ (<<c, b>> \in R)
    BY <1>2, <1>3, <1>4
  <2> QED BY <2>1 DEF Orders
<1>5. f \in [D -> I]
  BY <1>2
<1> HIDE DEF f
<1>6. f \in Injection(D, I)
  BY <1>4, <1>5 DEF Injection, IsInjective
<1>7. IsFiniteSet(I) /\ Cardinality(I) = Cardinality(D)
  BY <1>1, FS_Interval
<1>8. f \in Surjection(D, I)
  BY <1>6, <1>7, FS_Injection
<1>9. \A i \in I : \E c \in D : f[c] = i
  BY <1>8 DEF Surjection
<1> QED BY <1>4, <1>5, <1>9 DEF f

\* As many as k have fewer than k before them.
LEMMA FirstK ==
    ASSUME NEW D, IsFiniteSet(D), NEW R, Orders(R, D), NEW k \in 0 .. Cardinality(D)
    PROVE  Cardinality({c \in D : Cardinality(Below(R, D, c)) < k}) = k
<1> DEFINE f == [c \in D |-> Cardinality(Below(R, D, c))]
           n == Cardinality(D)
           X == {c \in D : Cardinality(Below(R, D, c)) < k}
           g == [c \in X |-> f[c]]
           K == 0 .. (k - 1)
<1>1. n \in Nat /\ k \in Nat /\ k <= n
  BY FS_CardinalityType
<1>2. /\ \A c \in D : f[c] \in 0 .. (n - 1)
      /\ \A b, c \in D : f[b] = f[c] => b = c
      /\ \A i \in 0 .. (n - 1) : \E c \in D : f[c] = i
  BY PlacesAre
<1>3. X = {c \in D : f[c] < k}
  OBVIOUS
<1> HIDE DEF f, n, X
<1>4. \A c \in X : g[c] \in K /\ c \in D
  BY <1>1, <1>2, <1>3
<1>5. g \in Injection(X, K)
  <2>1. g \in [X -> K]
    BY <1>4
  <2>2. \A b, c \in X : g[b] = g[c] => b = c
    BY <1>2, <1>4
  <2> HIDE DEF g
  <2> QED BY <2>1, <2>2 DEF Injection, IsInjective
<1>6. g \in Surjection(X, K)
  <2>1. ASSUME NEW i \in K
        PROVE  \E c \in X : g[c] = i
    <3>1. i \in 0 .. (n - 1) /\ i < k
      BY <1>1
    <3>2. PICK c \in D : f[c] = i
      BY <1>2, <3>1
    <3>3. c \in X
      BY <1>3, <3>1, <3>2
    <3> QED BY <3>2, <3>3
  <2>2. g \in [X -> K]
    BY <1>4
  <2> QED BY <2>1, <2>2 DEF Surjection
<1>7. IsFiniteSet(K) /\ Cardinality(K) = k
  BY <1>1, FS_Interval
<1>8. Cardinality(X) = Cardinality(K)
  BY <1>5, <1>6, <1>7, FS_Injection
<1> QED BY <1>7, <1>8 DEF X

-----------------------------------------------------------------------------
(* Budgets: what the donors give. *)

Amount == [Budgeted -> Nat]

LEMMA BudgetedFacts == IsFiniteSet(Budgeted) /\ \A c \in Budgeted : c \in Nat
<1>1. P!IsFiniteSet(Budgeted) /\ Budgeted \subseteq Nat \ {0}
  BY PlanningAssumption DEF P!PlansAssumption
<1> QED BY <1>1 DEF P!IsFiniteSet, IsFiniteSet

LEMMA CountIs ==
    ASSUME NEW S
    PROVE  P!Cardinality(S) = Cardinality(S)
  BY DEF P!Cardinality, Cardinality, P!IsFiniteSet, IsFiniteSet

LEMMA TotalIs ==
    ASSUME NEW f, NEW S, f = [c \in S |-> f[c]]
    PROVE  P!Total(f) = Sum(f, S)
<1>1. DOMAIN f = S
  OBVIOUS
<1>2. P!Total(f) = P!MapThenSumSet(LAMBDA c : f[c], S)
  BY <1>1 DEF P!Total
<1>3. P!MapThenSumSet(LAMBDA c : f[c], S) = MapThenSumSet(LAMBDA x : f[x], S)
  BY DEF P!MapThenSumSet, MapThenSumSet, P!MapThenFoldSet, MapThenFoldSet
<1> QED BY <1>2, <1>3 DEF Sum

LEMMA TotalNatural ==
    ASSUME NEW f \in Amount
    PROVE  P!Total(f) = Sum(f, Budgeted) /\ P!Total(f) \in Nat
  BY TotalIs, SumNatural, BudgetedFacts DEF Amount

LEMMA DividedIs ==
    ASSUME NEW x \in Nat, NEW t \in Nat, t > 0
    PROVE  x \div t \in Nat /\ x % t \in Nat /\ x % t < t /\ x = t * (x \div t) + (x % t)
  OBVIOUS

Whole(h, m) == [c \in Budgeted |-> IF P!Total(h) = 0 THEN 0 ELSE (m * h[c]) \div P!Total(h)]
Rest(h, m)  == [c \in Budgeted |-> IF P!Total(h) = 0 THEN 0 ELSE (m * h[c]) % P!Total(h)]
Donors(h)   == {c \in Budgeted : h[c] > 0}
Turn(h, m)  ==
    {bc \in Donors(h) \X Donors(h) :
        \/ Rest(h, m)[bc[1]] > Rest(h, m)[bc[2]]
        \/ Rest(h, m)[bc[1]] = Rest(h, m)[bc[2]] /\ bc[1] < bc[2]}
LeftOver(h, m) == m - P!Total(Whole(h, m))
Lucky(h, m) ==
    {c \in Donors(h) : Cardinality(Below(Turn(h, m), Donors(h), c)) < LeftOver(h, m)}
Share(h, m) ==
    [c \in Budgeted |-> IF c \in Lucky(h, m) THEN Whole(h, m)[c] + 1 ELSE Whole(h, m)[c]]

LEMMA GivenIs ==
    ASSUME NEW a, NEW proj
    PROVE  P!Given(a, proj) = Share(P!Headroom(a, proj), P!Movable(a, proj))
<1> DEFINE h == P!Headroom(a, proj)
           m == P!Movable(a, proj)
           W == Whole(h, m)
           G == Rest(h, m)
           D == Donors(h)
           bef(b, c) == G[b] > G[c] \/ (G[b] = G[c] /\ b < c)
<1>1. P!Given(a, proj) =
        [c \in Budgeted |->
            IF c \in D /\ P!Cardinality({b \in D : bef(b, c)}) < m - P!Total(W)
            THEN W[c] + 1 ELSE W[c]]
  BY DEF P!Given, Whole, Rest, Donors
<1> HIDE DEF W, G, D, h, m
<1>2. ASSUME NEW c \in D
      PROVE  P!Cardinality({b \in D : bef(b, c)}) = Cardinality(Below(Turn(h, m), D, c))
  <2>1. {b \in D : bef(b, c)} = Below(Turn(h, m), D, c)
    BY DEF Below, Turn, D, G
  <2> QED BY <2>1, CountIs
<1>3. \A c \in Budgeted :
        (c \in D /\ P!Cardinality({b \in D : bef(b, c)}) < m - P!Total(W)) <=> c \in Lucky(h, m)
  BY <1>2 DEF Lucky, LeftOver, D, W
<1>4. P!Given(a, proj) = [c \in Budgeted |-> IF c \in Lucky(h, m) THEN W[c] + 1 ELSE W[c]]
  BY <1>1, <1>3
<1> QED BY <1>4 DEF Share, W, h, m

\* The movable amount is given away to the cent, and nobody gives more than it has.
LEMMA SharesAdd ==
    ASSUME NEW h \in Amount, NEW m \in Nat, m <= P!Total(h)
    PROVE  /\ Share(h, m) \in Amount
           /\ \A c \in Budgeted : Share(h, m)[c] <= h[c]
           /\ Sum(Share(h, m), Budgeted) = m
<1> DEFINE th == P!Total(h)
           W == Whole(h, m)
           G == Rest(h, m)
           D == Donors(h)
           k == m - P!Total(W)
           L == Lucky(h, m)
           S == Share(h, m)
<1>1. th = Sum(h, Budgeted) /\ th \in Nat /\ \A c \in Budgeted : h[c] \in Nat /\ h[c] <= th
  BY TotalNatural, SumNatural, BudgetedFacts DEF Amount
<1>2. D \subseteq Budgeted /\ IsFiniteSet(D) /\ \A c \in Budgeted \ D : h[c] = 0
  BY <1>1, BudgetedFacts, FS_Subset DEF Donors
<1>3. CASE th = 0
  <2>1. \A c \in Budgeted : h[c] = 0 /\ W[c] = 0
    BY <1>1, <1>3 DEF Whole
  <2>2. D = {}
    BY <2>1 DEF Donors
  <2>3. \A c \in Budgeted : S[c] = 0
    BY <2>1, <2>2 DEF Share, Lucky
  <2>4. S \in Amount
    BY <2>3 DEF Share, Amount
  <2>5. Sum(S, Budgeted) = 0
    BY <2>3, SumZero, BudgetedFacts
  <2> QED BY <1>1, <1>3, <2>1, <2>3, <2>4, <2>5
<1>4. CASE th # 0
  <2> DEFINE mh == [c \in Budgeted |-> m * h[c]]
             tw == [c \in Budgeted |-> th * W[c]]
             one == [c \in Budgeted |-> IF c \in L THEN 1 ELSE 0]
             cap == [c \in Budgeted |-> IF c \in D THEN 1 ELSE 0]
             tcap == [c \in Budgeted |-> th * cap[c]]
  <2>1. ASSUME NEW c \in Budgeted
        PROVE  /\ W[c] \in Nat /\ G[c] \in Nat /\ G[c] < th /\ m * h[c] = th * W[c] + G[c]
               /\ m * h[c] \in Nat
    <3>1. m * h[c] \in Nat
      BY <1>1
    <3>2. W[c] = (m * h[c]) \div th /\ G[c] = (m * h[c]) % th
      BY <1>4 DEF Whole, Rest
    <3> HIDE DEF th, W, G
    <3> QED BY <1>1, <1>4, <3>1, <3>2, DividedIs
  <2>2. W \in Amount /\ P!Total(W) = Sum(W, Budgeted) /\ P!Total(W) \in Nat
    <3>1. W \in Amount
      BY <2>1 DEF Whole, Amount
    <3> QED BY <3>1, TotalNatural
  <2>3. G \in Amount
    BY <2>1 DEF Rest, Amount
  <2> HIDE DEF th, W, G
  <2>4. th * k = Sum(G, Budgeted) /\ Sum(G, Budgeted) \in Nat
    <3>1. Sum(mh, Budgeted) = m * th
      BY <1>1, <2>1, SumTimes, BudgetedFacts
    <3>2. Sum(tw, Budgeted) = th * Sum(W, Budgeted)
      <4>1. \A c \in Budgeted : W[c] \in Int
        BY <2>1
      <4> QED BY <1>1, <4>1, SumTimes, BudgetedFacts
    <3>3. \A c \in Budgeted : tw[c] \in Int /\ G[c] \in Int /\ mh[c] = tw[c] + G[c]
      BY <1>1, <2>1
    <3> HIDE DEF mh, tw
    <3>4. Sum(mh, Budgeted) = Sum(tw, Budgeted) + Sum(G, Budgeted)
      BY <3>3, SumPlus, BudgetedFacts
    <3>5. Sum(G, Budgeted) \in Nat
      BY <2>1, SumNatural, BudgetedFacts
    <3> DEFINE w == P!Total(W)
               g == Sum(G, Budgeted)
    <3>6. m * th = th * w + g /\ w \in Nat /\ g \in Nat
      BY <2>2, <3>1, <3>2, <3>4, <3>5
    <3> HIDE DEF w, g
    <3>7. th * (m - w) = g
      BY <1>1, <3>6
    <3> QED BY <3>5, <3>7 DEF w, g
  <2>5. \A c \in Budgeted : h[c] = 0 => G[c] = 0 /\ W[c] = 0
    <3> TAKE c \in Budgeted
    <3> HAVE h[c] = 0
    <3> DEFINE w == W[c]
               g == G[c]
    <3>1. w \in Nat /\ g \in Nat /\ th * w + g = 0 /\ th \in Nat /\ th > 0
      BY <1>1, <1>4, <2>1 DEF th
    <3> HIDE DEF w, g
    <3>2. th * w \in Nat
      BY <3>1
    <3>3. g = 0 /\ th * w = 0
      BY <3>1, <3>2
    <3>4. w = 0
      BY <3>1, <3>3
    <3> QED BY <3>3, <3>4 DEF w, g
  <2>6. Cardinality(D) \in Nat /\ Sum(cap, Budgeted) = Cardinality(D)
    <3>1. \A c \in Budgeted : cap[c] \in Int
      OBVIOUS
    <3>2. \A c \in D : cap[c] = 1
      BY <1>2
    <3>3. \A c \in Budgeted \ D : cap[c] = 0
      OBVIOUS
    <3> HIDE DEF cap, D
    <3> QED BY <1>2, <3>1, <3>2, <3>3, SumExtend, SumOnes, FS_CardinalityType, BudgetedFacts
  <2>7. Sum(G, Budgeted) <= th * Cardinality(D)
    <3>1. \A c \in Budgeted : cap[c] \in Int /\ tcap[c] = th * cap[c] /\ tcap[c] \in Int
      BY <1>1
    <3>2. \A c \in Budgeted : G[c] \in Int /\ G[c] <= tcap[c]
      BY <1>1, <1>2, <2>1, <2>5
    <3> HIDE DEF cap, tcap
    <3>3. Sum(tcap, Budgeted) = th * Sum(cap, Budgeted)
      BY <1>1, <3>1, SumTimes, BudgetedFacts
    <3>4. Sum(G, Budgeted) <= Sum(tcap, Budgeted)
      BY <3>1, <3>2, SumMonotone, BudgetedFacts
    <3> QED BY <2>6, <3>3, <3>4
  <2>8. k \in 0 .. Cardinality(D)
    <3> DEFINE n == Cardinality(D)
               g == Sum(G, Budgeted)
    <3>1. k \in Int /\ th * k = g /\ g \in Nat /\ g <= th * n /\ n \in Nat /\ th \in Nat /\ th > 0
      BY <1>1, <1>4, <2>2, <2>4, <2>6, <2>7
    <3> HIDE DEF n, g, k
    <3>2. 0 <= k
      BY <3>1
    <3>3. k <= n
      <4>1. ASSUME k >= n + 1 PROVE FALSE
        <5>1. th * k >= th * (n + 1)
          BY <3>1, <4>1
        <5> QED BY <3>1, <5>1
      <4> QED BY <3>1, <4>1
    <3> QED BY <3>1, <3>2, <3>3 DEF n
  <2>9. Orders(Turn(h, m), D)
    <3>1. \A b, c \in D :
             <<b, c>> \in Turn(h, m) <=> G[b] > G[c] \/ (G[b] = G[c] /\ b < c)
      BY DEF Turn, G
    <3>2. \A c \in D : c \in Nat /\ G[c] \in Nat
      BY <1>2, <2>1, BudgetedFacts
    <3> HIDE DEF D
    <3> QED BY <3>1, <3>2 DEF Orders
  <2>10. L \subseteq D /\ IsFiniteSet(L) /\ Cardinality(L) = k
    <3>1. L = {c \in D : Cardinality(Below(Turn(h, m), D, c)) < k}
      BY DEF Lucky, LeftOver, W
    <3> HIDE DEF L, D, k
    <3> QED BY <1>2, <2>8, <2>9, <3>1, FirstK, FS_Subset
  <2>11. S = [c \in Budgeted |-> IF c \in L THEN W[c] + 1 ELSE W[c]]
    BY DEF Share, W
  <2> HIDE DEF L, D, S
  <2>12. Sum(one, Budgeted) = k
    <3>1. L \in SUBSET Budgeted /\ \A c \in Budgeted : one[c] \in Int
      BY <1>2, <2>10
    <3>2. (\A c \in L : one[c] = 1) /\ \A c \in Budgeted \ L : one[c] = 0
      BY <3>1
    <3> HIDE DEF one
    <3> QED BY <2>10, <3>1, <3>2, SumExtend, SumOnes, BudgetedFacts
  <2>13. Sum(S, Budgeted) = m
    <3>1. \A c \in Budgeted : one[c] \in Int /\ W[c] \in Int /\ S[c] = W[c] + one[c]
      BY <2>1, <2>11
    <3> HIDE DEF one
    <3>2. Sum(S, Budgeted) = Sum(W, Budgeted) + Sum(one, Budgeted)
      BY <3>1, SumPlus, BudgetedFacts
    <3> QED BY <2>2, <2>12, <3>2
  <2>14. ASSUME NEW c \in Budgeted
         PROVE  S[c] \in Nat /\ S[c] <= h[c]
    <3>0. /\ W[c] \in Nat /\ G[c] \in Nat /\ G[c] < th /\ m * h[c] = th * W[c] + G[c]
          /\ h[c] \in Nat /\ h[c] <= th /\ th \in Nat /\ th > 0 /\ m <= th
      BY <1>1, <1>4, <2>1 DEF th
    <3> DEFINE w == W[c]
               g == G[c]
               hc == h[c]
    <3>1. w \in Nat /\ g \in Nat /\ g < th /\ m * hc = th * w + g /\ hc \in Nat
          /\ th \in Nat /\ th > 0 /\ m <= th
      BY <3>0
    <3>2. S[c] = IF c \in L THEN w + 1 ELSE w
      BY <2>11
    <3> HIDE DEF w, g, hc
    <3>3. m * hc <= th * hc
      BY <3>1
    <3>4. w <= hc
      <4>1. ASSUME w >= hc + 1 PROVE FALSE
        <5>1. th * w >= th * (hc + 1)
          BY <3>1, <4>1
        <5> QED BY <3>1, <3>3, <5>1
      <4> QED BY <3>1, <4>1
    <3>5. ASSUME c \in L
          PROVE  w + 1 <= hc
      <4>1. hc > 0
        BY <2>10, <3>5 DEF D, Donors, hc
      <4>2. m < th
        <5>1. ASSUME m = th
              PROVE  FALSE
          <6>1. \A b \in Budgeted : G[b] = 0
            <7> TAKE b \in Budgeted
            <7>1. W[b] \in Nat /\ G[b] \in Nat /\ G[b] < th /\ th * h[b] = th * W[b] + G[b]
                  /\ h[b] \in Nat
              BY <1>1, <2>1, <5>1
            <7> DEFINE wb == W[b]
                       gb == G[b]
                       hb == h[b]
            <7>2. wb \in Nat /\ gb \in Nat /\ gb < th /\ th * hb = th * wb + gb /\ hb \in Nat
              BY <7>1
            <7> HIDE DEF wb, gb, hb
            <7>3. gb = th * (hb - wb)
              BY <3>1, <7>2
            <7>4. ~ (hb - wb >= 1)
              BY <3>1, <7>2, <7>3
            <7>5. ~ (hb - wb <= -1)
              BY <3>1, <7>2, <7>3
            <7>6. hb - wb = 0
              BY <7>2, <7>4, <7>5
            <7> QED BY <3>1, <7>3, <7>6 DEF gb
          <6>2. Sum(G, Budgeted) = 0
            BY <6>1, SumZero, BudgetedFacts
          <6>3. k = 0
            BY <2>2, <2>4, <2>8, <3>1, <6>2
          <6>4. L = {}
            BY <2>10, <6>3, FS_EmptySet
          <6> QED BY <3>5, <6>4
        <5> QED BY <3>1, <5>1
      <4>3. m * hc < th * hc
        BY <3>1, <4>1, <4>2
      <4>4. ASSUME w >= hc PROVE FALSE
        <5>1. th * w >= th * hc
          BY <3>1, <4>4
        <5> QED BY <3>1, <4>3, <5>1
      <4> QED BY <3>1, <4>4
    <3>6. S[c] \in Nat /\ S[c] <= hc
      BY <3>1, <3>2, <3>4, <3>5
    <3> QED BY <3>6 DEF hc
  <2>15. S \in Amount
    BY <2>11, <2>14 DEF Amount
  <2> QED BY <2>13, <2>14, <2>15 DEF S
<1> QED BY <1>3, <1>4

-----------------------------------------------------------------------------
(* Budgets: what the categories in deficit receive, by rank. *)

Served(rank, n) == {c \in Budgeted : rank[c] < n}

\* At most n of it, at least none.
Capped(n, room) == IF n < 0 THEN 0 ELSE IF n < room THEN n ELSE room

Serve(d, m, rank) == [c \in Budgeted |-> Capped(m - Sum(d, Served(rank, rank[c])), d[c])]

LEMMA ReceivedIs ==
    ASSUME NEW a, NEW proj, NEW rank, NEW d \in Amount, d = P!Deficit(a, proj),
           NEW m \in Int, m = P!Movable(a, proj)
    PROVE  P!Received(a, proj, rank) = Serve(d, m, rank)
<1> DEFINE ahead(c) == P!MapThenSumSet(LAMBDA b : d[b], {b \in Budgeted : rank[b] < rank[c]})
           left(c) == P!Positive(m - ahead(c))
<1>1. P!Received(a, proj, rank) = [c \in Budgeted |-> IF left(c) < d[c] THEN left(c) ELSE d[c]]
  BY DEF P!Received
<1>2. \A c \in Budgeted : ahead(c) = Sum(d, Served(rank, rank[c]))
  BY DEF Sum, Served, P!MapThenSumSet, MapThenSumSet, P!MapThenFoldSet, MapThenFoldSet
<1>3. ASSUME NEW c \in Budgeted
      PROVE  (IF left(c) < d[c] THEN left(c) ELSE d[c]) = Capped(m - ahead(c), d[c])
  <2>1. ahead(c) \in Int
    <3>1. Served(rank, rank[c]) \in SUBSET Budgeted /\ \A b \in Budgeted : d[b] \in Int
      BY DEF Served, Amount
    <3>2. Sum(d, Served(rank, rank[c])) \in Int
      BY <3>1, SumOfPart, BudgetedFacts
    <3>3. ahead(c) = Sum(d, Served(rank, rank[c]))
      BY <1>2
    <3> HIDE DEF ahead
    <3> QED BY <3>2, <3>3
  <2> DEFINE n == m - ahead(c)
  <2>2. n \in Int /\ d[c] \in Nat /\ left(c) = P!Positive(n)
    BY <2>1 DEF Amount
  <2> HIDE DEF n, left
  <2>3. (IF left(c) < d[c] THEN left(c) ELSE d[c]) = Capped(n, d[c])
    BY <2>2 DEF P!Positive, Capped
  <2> QED BY <2>3 DEF n
<1> HIDE DEF ahead, left
<1> QED BY <1>1, <1>2, <1>3 DEF Serve

\* Served in turn, the categories receive the movable amount to the cent.
LEMMA ServedAdd ==
    ASSUME NEW d \in Amount, NEW m \in Nat, m <= P!Total(d), NEW rank \in P!Ranks
    PROVE  /\ Serve(d, m, rank) \in Amount
           /\ \A c \in Budgeted : Serve(d, m, rank)[c] <= d[c]
           /\ Sum(Serve(d, m, rank), Budgeted) = m
<1> DEFINE s == Serve(d, m, rank)
           U(n) == Served(rank, n)
           A(n) == Sum(d, U(n))
           T == {n \in Nat : Sum(s, U(n)) = IF m < A(n) THEN m ELSE A(n)}
<1>1. /\ \A c \in Budgeted : rank[c] \in Nat /\ 1 <= rank[c] /\ rank[c] <= P!Cardinality(Budgeted)
      /\ \A b, c \in Budgeted : rank[b] = rank[c] => b = c
      /\ P!Cardinality(Budgeted) = Cardinality(Budgeted) /\ Cardinality(Budgeted) \in Nat
  BY CountIs, FS_CardinalityType, BudgetedFacts DEF P!Ranks
<1>2. \A n : U(n) \in SUBSET Budgeted /\ IsFiniteSet(U(n))
  BY FS_Subset, BudgetedFacts DEF Served
<1>3. \A n : A(n) \in Nat
  <2> TAKE n
  <2>1. \A c \in U(n) : d[c] \in Nat
    BY <1>2 DEF Amount
  <2> QED BY <1>2, <2>1, SumNatural
<1>4. ASSUME NEW c \in Budgeted
      PROVE  /\ s[c] = Capped(m - A(rank[c]), d[c]) /\ d[c] \in Nat
             /\ s[c] \in Nat /\ s[c] <= d[c]
  <2>1. s[c] = Capped(m - A(rank[c]), d[c])
    BY DEF Serve
  <2>2. A(rank[c]) \in Nat /\ d[c] \in Nat
    BY <1>3 DEF Amount
  <2> HIDE DEF A, s
  <2> QED BY <2>1, <2>2 DEF Capped
<1>5. s \in Amount
  BY <1>4 DEF Serve, Amount
<1>6. 0 \in T
  <2>1. U(0) = {}
    BY <1>1 DEF Served
  <2>2. Sum(s, {}) = 0 /\ Sum(d, {}) = 0
    BY SumEmpty
  <2> QED BY <2>1, <2>2
<1> HIDE DEF s
<1>7. ASSUME NEW n \in Nat, n \in T
      PROVE  n + 1 \in T
  <2>1. CASE \A c \in Budgeted : rank[c] # n
    <3>1. U(n + 1) = U(n)
      BY <1>1, <2>1 DEF Served
    <3>2. n + 1 \in Nat
      OBVIOUS
    <3> HIDE DEF U
    <3> QED BY <1>7, <3>1, <3>2
  <2>2. CASE \E c \in Budgeted : rank[c] = n
    <3>1. PICK c \in Budgeted : rank[c] = n
      BY <2>2
    <3>2. c \in U(n + 1) /\ U(n + 1) \ {c} = U(n)
      BY <1>1, <3>1 DEF Served
    <3>3. /\ \A b \in U(n + 1) : s[b] \in Int
          /\ \A b \in U(n + 1) : d[b] \in Int
      BY <1>2, <1>4
    <3>4. Sum(s, U(n + 1)) = s[c] + Sum(s, U(n))
      BY <1>2, <3>2, <3>3, SumRemove
    <3>5. A(n + 1) = d[c] + A(n)
      BY <1>2, <3>2, <3>3, SumRemove
    <3>6. /\ s[c] = Capped(m - A(n), d[c]) /\ d[c] \in Nat /\ A(n) \in Nat
          /\ Sum(s, U(n)) = IF m < A(n) THEN m ELSE A(n)
      BY <1>3, <1>4, <1>7, <3>1
    <3> HIDE DEF A
    <3>7. s[c] + Sum(s, U(n)) = IF m < d[c] + A(n) THEN m ELSE d[c] + A(n)
      BY <3>6 DEF Capped
    <3>8. Sum(s, U(n + 1)) = IF m < A(n + 1) THEN m ELSE A(n + 1)
      BY <3>4, <3>5, <3>7
    <3>9. n + 1 \in Nat
      OBVIOUS
    <3> HIDE DEF U
    <3> QED BY <3>8, <3>9
  <2> QED BY <2>1, <2>2
<1>8. Sum(s, Budgeted) = m
  <2> DEFINE n == Cardinality(Budgeted) + 1
  <2>1. n \in Nat /\ n \in T
    <3> HIDE DEF T
    <3> QED BY <1>1, <1>6, <1>7, SizeInduction
  <2>2. U(n) = Budgeted
    BY <1>1 DEF Served
  <2>3. A(n) = P!Total(d) /\ A(n) \in Nat
    BY <1>3, <2>2, TotalNatural
  <2> HIDE DEF A, U
  <2>4. Sum(s, U(n)) = m
    BY <2>1, <2>3
  <2> QED BY <2>2, <2>4
<1> QED BY <1>4, <1>5, <1>8 DEF s

-----------------------------------------------------------------------------
(* Budgets: a suggestion. *)

\* What SuggestionSound says of the amounts, what was projected and the new ones.
Sound(old, proj, new) ==
    /\ P!Total(new) = P!Total(old)
    /\ \A c \in Budgeted :
          IF old[c] >= proj[c] THEN new[c] >= proj[c] /\ new[c] <= old[c]
          ELSE new[c] >= old[c] /\ new[c] <= proj[c]
    /\ \/ \A c \in Budgeted : new[c] >= proj[c]
       \/ \A c \in Budgeted : new[c] <= proj[c]

\* Who takes no more than there is and all of it together takes each all.
LEMMA AllTaken ==
    ASSUME NEW f \in Amount, NEW g \in Amount, \A c \in Budgeted : f[c] <= g[c],
           Sum(f, Budgeted) = P!Total(g)
    PROVE  \A c \in Budgeted : f[c] = g[c]
<1> DEFINE left == [c \in Budgeted |-> g[c] - f[c]]
<1>1. \A c \in Budgeted : /\ f[c] \in Nat /\ g[c] \in Nat /\ left[c] = g[c] - f[c]
                          /\ left[c] \in Nat
  BY DEF Amount
<1>2. left \in Amount
  BY <1>1 DEF Amount
<1> HIDE DEF left
<1>3. \A c \in Budgeted : f[c] \in Int /\ left[c] \in Int /\ g[c] = f[c] + left[c]
  BY <1>1
<1>4. Sum(g, Budgeted) = Sum(f, Budgeted) + Sum(left, Budgeted)
  BY <1>3, SumPlus, BudgetedFacts
<1>5. Sum(g, Budgeted) = P!Total(g) /\ Sum(g, Budgeted) \in Nat
  BY TotalNatural
<1>6. Sum(left, Budgeted) = 0
  BY <1>2, <1>4, <1>5, TotalNatural
<1>7. \A c \in Budgeted : left[c] <= Sum(left, Budgeted)
  BY <1>1, SumNatural, BudgetedFacts
<1> QED BY <1>1, <1>6, <1>7

LEMMA RebalanceIsSound ==
    ASSUME NEW a \in Amount, NEW proj \in Amount, NEW rank \in P!Ranks,
           NEW new, new = P!AllocateRebalance(a, proj, rank)
    PROVE  new \in Amount /\ Sound(a, proj, new)
<1> DEFINE h == P!Headroom(a, proj)
           d == P!Deficit(a, proj)
           m == P!Movable(a, proj)
           give == Share(h, m)
           take == Serve(d, m, rank)
<1>1. ASSUME NEW c \in Budgeted
      PROVE  /\ a[c] \in Nat /\ proj[c] \in Nat
             /\ h[c] = (IF a[c] > proj[c] THEN a[c] - proj[c] ELSE 0) /\ h[c] \in Nat
             /\ d[c] = (IF proj[c] > a[c] THEN proj[c] - a[c] ELSE 0) /\ d[c] \in Nat
  <2>1. a[c] \in Nat /\ proj[c] \in Nat
    BY DEF Amount
  <2>2. h[c] = P!Positive(a[c] - proj[c]) /\ d[c] = P!Positive(proj[c] - a[c])
    BY DEF P!Headroom, P!Deficit
  <2> HIDE DEF h, d
  <2> QED BY <2>1, <2>2 DEF P!Positive
<1>2. h \in Amount /\ d \in Amount
  BY <1>1 DEF P!Headroom, P!Deficit, Amount
<1>3. /\ m \in Nat /\ m <= P!Total(h) /\ m <= P!Total(d)
      /\ m = P!Total(h) \/ m = P!Total(d)
  <2>1. P!Total(h) \in Nat /\ P!Total(d) \in Nat
    BY <1>2, TotalNatural
  <2>2. m = IF P!Total(h) < P!Total(d) THEN P!Total(h) ELSE P!Total(d)
    BY DEF P!Movable
  <2> HIDE DEF h, d, m
  <2> QED BY <2>1, <2>2
<1>4. P!Given(a, proj) = give /\ P!Received(a, proj, rank) = take
  <2>1. P!Given(a, proj) = give
    BY GivenIs
  <2>2. m \in Int
    BY <1>3
  <2>3. P!Received(a, proj, rank) = take
    BY <1>2, <2>2, ReceivedIs
  <2> QED BY <2>1, <2>3
<1>5. new = [c \in Budgeted |-> a[c] - give[c] + take[c]]
  BY <1>4 DEF P!AllocateRebalance
<1> HIDE DEF h, d, m
<1>6. /\ give \in Amount /\ \A c \in Budgeted : give[c] <= h[c]
      /\ Sum(give, Budgeted) = m
  BY <1>2, <1>3, SharesAdd
<1>7. /\ take \in Amount /\ \A c \in Budgeted : take[c] <= d[c]
      /\ Sum(take, Budgeted) = m
  BY <1>2, <1>3, ServedAdd
<1> HIDE DEF give, take
<1>8. ASSUME NEW c \in Budgeted
      PROVE  /\ new[c] \in Nat
             /\ IF a[c] >= proj[c] THEN new[c] >= proj[c] /\ new[c] <= a[c]
                ELSE new[c] >= a[c] /\ new[c] <= proj[c]
             /\ new[c] + give[c] = a[c] + take[c]
             /\ a[c] \in Int /\ give[c] \in Int /\ take[c] \in Int
  <2>1. new[c] = a[c] - give[c] + take[c]
    BY <1>5
  <2>2. give[c] \in Nat /\ give[c] <= h[c] /\ take[c] \in Nat /\ take[c] <= d[c]
    BY <1>6, <1>7 DEF Amount
  <2> QED BY <1>1, <2>1, <2>2
<1>9. new \in Amount
  BY <1>5, <1>8 DEF Amount
<1>10. Sum(new, Budgeted) = Sum(a, Budgeted)
  <2> DEFINE both == [c \in Budgeted |-> a[c] + take[c]]
  <2>1. \A c \in Budgeted : /\ a[c] \in Int /\ take[c] \in Int /\ new[c] \in Int /\ give[c] \in Int
                            /\ both[c] = a[c] + take[c] /\ both[c] = new[c] + give[c]
    BY <1>8
  <2> HIDE DEF both
  <2>2. Sum(both, Budgeted) = Sum(a, Budgeted) + Sum(take, Budgeted)
    BY <2>1, SumPlus, BudgetedFacts
  <2>3. Sum(both, Budgeted) = Sum(new, Budgeted) + Sum(give, Budgeted)
    BY <2>1, SumPlus, BudgetedFacts
  <2>4. Sum(new, Budgeted) \in Nat /\ Sum(a, Budgeted) \in Nat
    BY <1>9, TotalNatural
  <2> QED BY <1>3, <1>6, <1>7, <2>2, <2>3, <2>4
<1>11. P!Total(new) = P!Total(a)
  BY <1>9, <1>10, TotalNatural
<1>12. \/ \A c \in Budgeted : new[c] >= proj[c]
       \/ \A c \in Budgeted : new[c] <= proj[c]
  <2>1. CASE m = P!Total(d)
    <3>1. \A c \in Budgeted : take[c] = d[c]
      BY <1>2, <1>7, <2>1, AllTaken
    <3>2. ASSUME NEW c \in Budgeted
          PROVE  new[c] >= proj[c]
      <4>1. give[c] \in Nat /\ give[c] <= h[c]
        BY <1>6 DEF Amount
      <4> QED BY <1>1, <1>8, <3>1, <4>1
    <3> QED BY <3>2
  <2>2. CASE m = P!Total(h)
    <3>1. \A c \in Budgeted : give[c] = h[c]
      BY <1>2, <1>6, <2>2, AllTaken
    <3>2. ASSUME NEW c \in Budgeted
          PROVE  new[c] <= proj[c]
      <4>1. take[c] \in Nat /\ take[c] <= d[c]
        BY <1>7 DEF Amount
      <4> QED BY <1>1, <1>8, <3>1, <4>1
    <3> QED BY <3>2
  <2> QED BY <1>3, <2>1, <2>2
<1> QED BY <1>8, <1>9, <1>11, <1>12 DEF Sound

-----------------------------------------------------------------------------
(* Plans: families of a master and its subcategories. *)

Items == [Cats -> {"none", "manual", "auto"}]

LEMMA FamilyFacts ==
    /\ \A c \in Cats : ParentOf[c] \in Cats /\ ParentOf[c] \in P!Masters
    /\ \A it, x : x \in P!SubPairs(it) <=>
                    \E c \in Cats : c \notin P!Masters /\ it[c] # "none" /\ x = ParentOf[c]
<1>1. \A c \in Cats : ParentOf[c] \in Cats /\ ParentOf[ParentOf[c]] = ParentOf[c]
  BY PlanningAssumption DEF P!PlansAssumption
<1> QED BY <1>1 DEF P!Masters, P!SubPairs, P!ItemsOf

-----------------------------------------------------------------------------
(* Plans and budgets: steps. *)

Statuses == {"none", "draft", "active"}
EditRecord ==
    [kind : {"idle", "hand", "populate", "refresh", "copy"}, period : PlanPeriods \cup {"none"},
     seen : Items, gone : SUBSET Cats, inserts : SUBSET Cats, changes : SUBSET Cats,
     drops : SUBSET Cats, keys : SUBSET Cats, mode : {"none", "master", "subcategory"},
     paired : SUBSET Cats, row : Statuses, status : Statuses]

\* What an edit q may have decided to write after it read the items it.
Fits(q, it) ==
    /\ q.drops \subseteq P!ItemsOf(it)
    /\ q.kind # "hand" => q.changes = {}
    /\ q.kind \in {"populate", "refresh"} => q.mode \in {"master", "subcategory"}
    /\ q.kind = "populate" =>
          /\ q.drops = {}
          /\ q.mode = "master" => q.inserts \subseteq P!Masters
          /\ \A c \in q.inserts : ~ P!WouldConflict(it, c, q.mode, P!SubPairs(it))
    /\ q.kind = "refresh" =>
          /\ q.drops = {c \in Cats : it[c] = "auto"}
          /\ q.mode = "master" => q.keys \subseteq P!Masters
    /\ q.kind = "copy" =>
          /\ q.drops = {}
          /\ \A c \in q.inserts :
                IF c \in P!Masters THEN c \notin P!SubPairs(it)
                ELSE it[ParentOf[c]] # "none" => ParentOf[c] \in P!SubPairs(it)
          /\ \A c \in q.inserts :
                c \notin P!Masters /\ ParentOf[c] \in q.inserts => ParentOf[c] \in q.paired

\* An edit that is about to commit has read a plan that is still there, or
\* creates the draft it writes to.
GoodEdit(q) ==
    \/ q = P!NoEdit
    \/ /\ q \in EditRecord /\ q.kind # "idle" /\ q.period \in PlanPeriods
       /\ q.status # "none"
       /\ q.row # "none" => plan[q.period] # "none"
       /\ Fits(q, q.seen)

\* The suggestion on the screen is sound for the amounts it was computed from.
GoodProposal ==
    proposal # P!NoProposal =>
        /\ proposal.new \in Amount /\ proposal.expected \in Amount
        /\ Sound(proposal.expected, proposal.proj, proposal.new)

\* The inductive invariant of plans and budgets.
PlanInv ==
    /\ plan \in [PlanPeriods -> Statuses]
    /\ item \in [PlanPeriods -> Items]
    /\ \A k \in PlanPeriods : plan[k] = "none" => item[k] = P!NoItems
    /\ granularity \in {"master", "subcategory"}
    /\ planEdit = [p \in Requests |-> planEdit[p]]
    /\ \A p \in Requests : GoodEdit(planEdit[p])
    /\ amount \in Amount
    /\ GoodProposal

LEMMA PlansBegin ==
    ASSUME P!PlansInit
    PROVE  PlanInv
<1>1. P!NoItems \in Items
  BY DEF P!NoItems, Items
<1> QED BY <1>1 DEF P!PlansInit, PlanInv, GoodEdit, GoodProposal, Amount, Statuses

LEMMA PlansHold ==
    ASSUME PlanInv
    PROVE  P!PlansTypeOK /\ P!SuggestionSound
<1>1. P!PlansTypeOK
  BY DEF PlanInv, P!PlansTypeOK, Items, Amount, Statuses
<1>2. P!SuggestionSound
  BY DEF PlanInv, GoodProposal, Sound, P!SuggestionSound
<1> QED BY <1>1, <1>2

\* No edit, and an edit by hand, of any categories.
LEMMA NoEditIs ==
    /\ P!NoEdit \in EditRecord /\ P!NoEdit.kind = "idle"
    /\ P!NoItems \in Items
<1>1. P!NoItems \in Items
  BY DEF P!NoItems, Items
<1> QED BY <1>1 DEF P!NoEdit, EditRecord, Statuses

LEMMA BeginEditKeeps ==
    ASSUME PlanInv, NEW p \in Requests, NEW k \in PlanPeriods, NEW q \in EditRecord,
           q.kind # "idle", q.status # "none", Fits(q, item[k]), P!BeginEdit(p, k, q)
    PROVE  PlanInv'
<1> DEFINE e == [q EXCEPT !.period = k, !.seen = item[k], !.row = plan[k]]
<1>1. /\ planEdit' = [planEdit EXCEPT ![p] = e]
      /\ UNCHANGED <<plan, item, granularity, amount, proposal>>
  BY DEF P!BeginEdit
<1>2. item[k] \in Items /\ plan[k] \in Statuses
  BY DEF PlanInv
<1>3. /\ e \in EditRecord /\ e.kind = q.kind /\ e.period = k /\ e.seen = item[k]
      /\ e.row = plan[k] /\ e.status = q.status /\ e.drops = q.drops /\ e.mode = q.mode
      /\ e.changes = q.changes /\ e.inserts = q.inserts /\ e.keys = q.keys
      /\ e.paired = q.paired
  BY <1>2 DEF EditRecord
<1> HIDE DEF e
<1>4. Fits(e, e.seen)
  BY <1>3 DEF Fits
<1>5. GoodEdit(e)
  BY <1>3, <1>4 DEF GoodEdit
<1>6. /\ planEdit' = [o \in Requests |-> planEdit'[o]]
      /\ \A o \in Requests : planEdit'[o] = IF o = p THEN e ELSE planEdit[o]
  BY <1>1 DEF PlanInv
<1>7. \A o \in Requests : GoodEdit(planEdit'[o])
  BY <1>5, <1>6 DEF PlanInv
<1>8. (\A o \in Requests : GoodEdit(planEdit[o]))'
  BY <1>1, <1>7 DEF GoodEdit
<1>9. GoodProposal'
  BY <1>1 DEF PlanInv, GoodProposal
<1> QED BY <1>1, <1>6, <1>8, <1>9 DEF PlanInv

\* The steps that begin an edit.
Begins(p, k) ==
    \/ P!GetOrCreatePlan(p, k)
    \/ \E S \in P!Sources : P!PopulateFromSources(p, k, S)
    \/ \E S \in P!Sources : P!RefreshFromSources(p, k, S)
    \/ \E from \in PlanPeriods : P!CopyFromPeriod(p, k, from)
    \/ \E C \in SUBSET Cats \ {{}} : P!UpsertItems(p, k, C)
    \/ \E c \in Cats : P!UpdateItem(p, k, c)
    \/ \E c \in Cats : P!DeleteItem(p, k, c)
    \/ P!DiscardPlan(p, k)
    \/ P!ActivatePlan(p, k)
    \/ P!RevertToDraft(p, k)

\* What is written by hand fits whatever was read.
LEMMA ByHandFits ==
    ASSUME NEW it, NEW ins \in SUBSET Cats, NEW chg \in SUBSET Cats,
           NEW del \in SUBSET P!ItemsOf(it), NEW status \in {"draft", "active"}
    PROVE  LET q == P!ByHand(ins, chg, del, status)
           IN  q \in EditRecord /\ q.kind # "idle" /\ q.status # "none" /\ Fits(q, it)
<1> DEFINE q == P!ByHand(ins, chg, del, status)
<1>1. /\ q \in EditRecord /\ q.kind = "hand" /\ q.status = status /\ q.drops = del
  BY NoEditIs DEF P!ByHand, EditRecord, P!ItemsOf, Statuses
<1> HIDE DEF q
<1> QED BY <1>1 DEF Fits, q

LEMMA KeysAre ==
    ASSUME NEW S \in P!Sources, granularity \in {"master", "subcategory"}
    PROVE  /\ P!GroupKeys(S) \in SUBSET Cats
           /\ granularity = "master" => P!GroupKeys(S) \subseteq P!Masters
  BY FamilyFacts DEF P!GroupKeys, P!Sources

\* What the fills write fits what they read.
LEMMA FillsFit ==
    ASSUME PlanInv, NEW p \in Requests, NEW k \in PlanPeriods,
           \/ \E S \in P!Sources : P!PopulateFromSources(p, k, S)
           \/ \E S \in P!Sources : P!RefreshFromSources(p, k, S)
           \/ \E from \in PlanPeriods : P!CopyFromPeriod(p, k, from)
    PROVE  \E q \in EditRecord : /\ q.kind # "idle" /\ q.status # "none"
                                 /\ Fits(q, item[k]) /\ P!BeginEdit(p, k, q)
<1> DEFINE it == item[k]
<1>0. granularity \in {"master", "subcategory"} /\ \A j \in PlanPeriods : item[j] \in Items
  BY DEF PlanInv
<1>1. ASSUME NEW S \in P!Sources, P!PopulateFromSources(p, k, S)
      PROVE  \E q \in EditRecord : /\ q.kind # "idle" /\ q.status # "none"
                                   /\ Fits(q, it) /\ P!BeginEdit(p, k, q)
  <2> DEFINE ins == P!Populate(it, P!GroupKeys(S), granularity, P!SubPairs(it))
             q == [P!NoEdit EXCEPT !.kind = "populate", !.mode = granularity,
                                   !.status = "draft", !.inserts = ins]
  <2>1. /\ ins \in SUBSET Cats /\ ins \subseteq P!GroupKeys(S)
        /\ \A c \in ins : ~ P!WouldConflict(it, c, granularity, P!SubPairs(it))
    BY <1>0, KeysAre DEF P!Populate
  <2>2. P!BeginEdit(p, k, q)
    BY <1>1 DEF P!PopulateFromSources
  <2> HIDE DEF ins
  <2>3. /\ q \in EditRecord /\ q.kind = "populate" /\ q.status = "draft" /\ q.drops = {}
        /\ q.changes = {} /\ q.inserts = ins /\ q.mode = granularity
    BY <1>0, <2>1, NoEditIs DEF P!NoEdit, EditRecord, Statuses
  <2> HIDE DEF q, it
  <2>4. Fits(q, it)
    BY <1>0, <2>1, <2>3, KeysAre DEF Fits
  <2> QED BY <2>2, <2>3, <2>4
<1>2. ASSUME NEW S \in P!Sources, P!RefreshFromSources(p, k, S)
      PROVE  \E q \in EditRecord : /\ q.kind # "idle" /\ q.status # "none"
                                   /\ Fits(q, it) /\ P!BeginEdit(p, k, q)
  <2> DEFINE auto == {c \in Cats : it[c] = "auto"}
             q == [P!NoEdit EXCEPT !.kind = "refresh", !.mode = granularity,
                      !.status = "draft", !.keys = P!GroupKeys(S), !.drops = auto]
  <2>1. auto \in SUBSET Cats /\ auto \subseteq P!ItemsOf(it)
    BY DEF P!ItemsOf
  <2>2. P!BeginEdit(p, k, q)
    BY <1>2 DEF P!RefreshFromSources
  <2>3. /\ q \in EditRecord /\ q.kind = "refresh" /\ q.status = "draft" /\ q.drops = auto
        /\ q.changes = {} /\ q.keys = P!GroupKeys(S) /\ q.mode = granularity
    BY <1>0, <2>1, KeysAre, NoEditIs DEF P!NoEdit, EditRecord, Statuses
  <2> HIDE DEF q, it
  <2>4. Fits(q, it)
    BY <1>0, <2>1, <2>3, KeysAre DEF Fits
  <2> QED BY <2>2, <2>3, <2>4
<1>3. ASSUME NEW from \in PlanPeriods, P!CopyFromPeriod(p, k, from)
      PROVE  \E q \in EditRecord : /\ q.kind # "idle" /\ q.status # "none"
                                   /\ Fits(q, it) /\ P!BeginEdit(p, k, q)
  <2> DEFINE src == item[from]
             ins == {c \in P!ItemsOf(src) : P!Copyable(src, it, c)}
             q == [P!NoEdit EXCEPT !.kind = "copy", !.status = "draft",
                      !.paired = P!Mixed(src), !.inserts = ins]
  <2>1. /\ ins \in SUBSET Cats /\ P!Mixed(src) \in SUBSET Cats
        /\ \A c \in ins : P!Copyable(src, it, c) /\ src[c] # "none"
    BY DEF P!ItemsOf, P!Mixed
  <2>2. P!BeginEdit(p, k, q)
    BY <1>3 DEF P!CopyFromPeriod
  <2>3. ASSUME NEW c \in ins, c \notin P!Masters, ParentOf[c] \in ins
        PROVE  ParentOf[c] \in P!Mixed(src)
    <3>1. c \in Cats /\ src[c] # "none" /\ src[ParentOf[c]] # "none"
      BY <2>1, <2>3
    <3>2. ParentOf[c] \in P!SubPairs(src) /\ ParentOf[c] \in P!Masters /\ ParentOf[c] \in Cats
      BY <2>3, <3>1, FamilyFacts
    <3> QED BY <3>1, <3>2 DEF P!Mixed, P!ItemsOf
  <2> HIDE DEF ins, src
  <2>4. /\ q \in EditRecord /\ q.kind = "copy" /\ q.status = "draft" /\ q.drops = {}
        /\ q.changes = {} /\ q.inserts = ins /\ q.paired = P!Mixed(src)
    BY <2>1, NoEditIs DEF P!NoEdit, EditRecord, Statuses
  <2> HIDE DEF q, it
  <2>5. Fits(q, it)
    BY <2>1, <2>3, <2>4 DEF Fits, P!Copyable
  <2> QED BY <2>2, <2>4, <2>5
<1> QED BY <1>1, <1>2, <1>3

\* Every edit begins with what fits the items it reads.
LEMMA EditsKeep ==
    ASSUME PlanInv, NEW p \in Requests, NEW k \in PlanPeriods, Begins(p, k)
    PROVE  PlanInv'
<1>1. CASE \/ \E S \in P!Sources : P!PopulateFromSources(p, k, S) \/ P!RefreshFromSources(p, k, S)
           \/ \E from \in PlanPeriods : P!CopyFromPeriod(p, k, from)
  BY <1>1, FillsFit, BeginEditKeeps
<1>2. ASSUME NEW ins \in SUBSET Cats, NEW chg \in SUBSET Cats,
             NEW del \in SUBSET P!ItemsOf(item[k]), NEW status \in {"draft", "active"},
             P!BeginEdit(p, k, P!ByHand(ins, chg, del, status))
      PROVE  PlanInv'
  BY <1>2, ByHandFits, BeginEditKeeps
<1>3. P!ItemsOf(item[k]) \in SUBSET Cats /\ {} \in SUBSET Cats /\ {} \in SUBSET P!ItemsOf(item[k])
  BY DEF P!ItemsOf
<1>4. CASE P!GetOrCreatePlan(p, k) \/ P!DiscardPlan(p, k) \/ P!ActivatePlan(p, k) \/ P!RevertToDraft(p, k)
  BY <1>2, <1>3, <1>4 DEF P!GetOrCreatePlan, P!DiscardPlan, P!ActivatePlan, P!RevertToDraft
<1>5. CASE \E C \in SUBSET Cats \ {{}} : P!UpsertItems(p, k, C)
  <2>1. PICK C \in SUBSET Cats : P!UpsertItems(p, k, C)
    BY <1>5
  <2>2. C \ P!ItemsOf(item[k]) \in SUBSET Cats /\ C \cap P!ItemsOf(item[k]) \in SUBSET Cats
    OBVIOUS
  <2> QED BY <1>2, <1>3, <2>1, <2>2 DEF P!UpsertItems
<1>6. CASE \E c \in Cats : P!UpdateItem(p, k, c) \/ P!DeleteItem(p, k, c)
  <2>1. PICK c \in Cats : P!UpdateItem(p, k, c) \/ P!DeleteItem(p, k, c)
    BY <1>6
  <2>2. {c} \in SUBSET Cats /\ (item[k][c] # "none" => {c} \in SUBSET P!ItemsOf(item[k]))
    BY DEF P!ItemsOf
  <2> QED BY <1>2, <1>3, <2>1, <2>2 DEF P!UpdateItem, P!DeleteItem
<1> QED BY <1>1, <1>4, <1>5, <1>6 DEF Begins

\* A commit, or a rollback.
LEMMA CommitIs ==
    ASSUME PlanInv, NEW p \in Requests, P!CommitEdit(p)
    PROVE  LET q == planEdit[p]
           IN  /\ q \in EditRecord /\ q.kind # "idle" /\ q.period \in PlanPeriods
               /\ q.status # "none" /\ (q.row # "none" => plan[q.period] # "none")
               /\ Fits(q, q.seen) /\ P!Written(q) \in Items
               /\ UNCHANGED <<granularity, amount, proposal>>
               /\ planEdit' = [o \in Requests |-> planEdit'[o]]
               /\ planEdit'[p] = P!NoEdit
               /\ \A o \in Requests : \/ planEdit'[o] = planEdit[o]
                                      \/ planEdit'[o] = P!Overtaken(planEdit[o], q)
                                      \/ o = p
               /\ \/ UNCHANGED <<item, plan>>
                  \/ /\ P!Commits(q)
                     /\ item' = [item EXCEPT ![q.period] = P!Written(q)]
                     /\ plan' = IF q.status = q.row THEN plan
                                ELSE [plan EXCEPT ![q.period] = q.status]
<1> DEFINE q == planEdit[p]
<1>1. q.kind # "idle" /\ UNCHANGED <<granularity, amount, proposal>>
  BY DEF P!CommitEdit
<1>2. /\ q \in EditRecord /\ q.period \in PlanPeriods /\ q.status # "none"
      /\ (q.row # "none" => plan[q.period] # "none") /\ Fits(q, q.seen)
  BY <1>1, NoEditIs DEF PlanInv, GoodEdit
<1>3. P!Written(q) \in Items
  BY <1>2 DEF P!Written, P!InsertedAs, Items, PlanInv
<1>4. /\ planEdit' = [o \in Requests |-> planEdit'[o]] /\ planEdit'[p] = P!NoEdit
      /\ \A o \in Requests : planEdit'[o] = planEdit[o] \/ planEdit'[o] = P!Overtaken(planEdit[o], q) \/ o = p
  <2>1. CASE P!Commits(q)
    BY <2>1 DEF P!CommitEdit
  <2>2. CASE ~ P!Commits(q)
    BY <2>2 DEF P!CommitEdit, PlanInv
  <2> QED BY <2>1, <2>2
<1>5. \/ UNCHANGED <<item, plan>>
      \/ /\ P!Commits(q)
         /\ item' = [item EXCEPT ![q.period] = P!Written(q)]
         /\ plan' = IF q.status = q.row THEN plan ELSE [plan EXCEPT ![q.period] = q.status]
  BY DEF P!CommitEdit
<1> QED BY <1>1, <1>2, <1>3, <1>4, <1>5

\* An edit that was overtaken is what it was but for the rows that are gone.
LEMMA OvertakenIs ==
    ASSUME NEW e \in EditRecord, NEW q
    PROVE  LET f == P!Overtaken(e, q)
           IN  /\ f \in EditRecord /\ f.kind = e.kind /\ f.period = e.period
               /\ f.seen = e.seen /\ f.row = e.row /\ f.status = e.status
               /\ f.drops = e.drops /\ f.mode = e.mode /\ f.changes = e.changes
               /\ f.inserts = e.inserts /\ f.keys = e.keys /\ f.paired = e.paired
               /\ e = P!NoEdit => f = P!NoEdit
<1> DEFINE g == e.gone \cup (P!Dropped(q) \cap P!ItemsOf(e.seen))
<1>1. g \in SUBSET Cats
  BY DEF EditRecord, P!ItemsOf
<1>2. P!Overtaken(e, q) = IF e.period = q.period THEN [e EXCEPT !.gone = g] ELSE e
  BY DEF P!Overtaken, EditRecord
<1>3. e = P!NoEdit => g = {} /\ e.gone = {}
  BY DEF P!NoEdit, P!NoItems, P!ItemsOf
<1>4. e = P!NoEdit => [e EXCEPT !.gone = {}] = P!NoEdit
  BY <1>3 DEF EditRecord
<1> HIDE DEF g
<1>5. e = P!NoEdit => P!Overtaken(e, q) = P!NoEdit
  BY <1>2, <1>3, <1>4
<1> QED BY <1>1, <1>2, <1>5 DEF EditRecord

LEMMA CommitEditKeeps ==
    ASSUME PlanInv, NEW p \in Requests, P!CommitEdit(p)
    PROVE  PlanInv'
<1> DEFINE q == planEdit[p]
           k == q.period
<1>1. /\ k \in PlanPeriods /\ q.status \in {"draft", "active"} /\ q \in EditRecord
      /\ (q.row # "none" => plan[k] # "none") /\ P!Written(q) \in Items
      /\ UNCHANGED <<granularity, amount, proposal>>
      /\ planEdit' = [o \in Requests |-> planEdit'[o]]
      /\ \/ UNCHANGED <<item, plan>>
         \/ /\ item' = [item EXCEPT ![k] = P!Written(q)]
            /\ plan' = IF q.status = q.row THEN plan ELSE [plan EXCEPT ![k] = q.status]
  BY CommitIs DEF EditRecord, Statuses
<1>2. \A o \in Requests : \/ planEdit'[o] = P!NoEdit \/ planEdit'[o] = planEdit[o]
                          \/ planEdit'[o] = P!Overtaken(planEdit[o], q)
  BY CommitIs
<1> HIDE DEF q, k
<1>3. /\ plan' \in [PlanPeriods -> Statuses]
      /\ item' \in [PlanPeriods -> Items]
      /\ \A j \in PlanPeriods : plan'[j] = "none" => item'[j] = P!NoItems
      /\ \A j \in PlanPeriods : plan[j] # "none" => plan'[j] # "none"
  BY <1>1 DEF PlanInv, Statuses
<1>4. ASSUME NEW o \in Requests
      PROVE  GoodEdit(planEdit[o])'
  <2> DEFINE e == planEdit[o]
             f == planEdit'[o]
  <2>1. GoodEdit(e) /\ P!NoEdit \in EditRecord /\ P!NoEdit.kind = "idle"
    BY NoEditIs DEF PlanInv
  <2>2. CASE f = P!NoEdit
    BY <2>2 DEF GoodEdit
  <2>3. CASE f = e
    BY <1>3, <2>1, <2>3 DEF GoodEdit
  <2>4. CASE f = P!Overtaken(e, q) /\ f # e
    <3>1. e # P!NoEdit
      BY <2>1, <2>4, OvertakenIs
    <3>2. e \in EditRecord /\ Fits(e, e.seen)
      BY <2>1, <3>1 DEF GoodEdit
    <3>3. Fits(f, f.seen)
      BY <2>4, <3>2, OvertakenIs DEF Fits
    <3> QED BY <1>3, <2>1, <2>4, <3>1, <3>2, <3>3, OvertakenIs DEF GoodEdit
  <2> QED BY <1>2, <2>2, <2>3, <2>4
<1>5. GoodProposal'
  BY <1>1 DEF PlanInv, GoodProposal
<1> QED BY <1>1, <1>3, <1>4, <1>5 DEF PlanInv

LEMMA PlansKeep ==
    ASSUME PlanInv, P!PlanNext
    PROVE  PlanInv'
<1>1. ASSUME P!SetGranularity
      PROVE  PlanInv'
  BY <1>1 DEF P!SetGranularity, PlanInv, GoodEdit, GoodProposal
<1> QED BY <1>1, EditsKeep, CommitEditKeeps DEF P!PlanNext, Begins

LEMMA BudgetsKeep ==
    ASSUME PlanInv, P!BudgetNext
    PROVE  PlanInv'
<1>0. \A n \in BudgetAmounts : n \in Nat
  BY PlanningAssumption DEF P!PlansAssumption
<1>1. UNCHANGED <<plan, item, granularity, planEdit>>
  BY DEF P!BudgetNext, P!SuggestRebalance, P!RebalanceBudgets, P!UpdateBudget
<1>2. (\A p \in Requests : GoodEdit(planEdit[p]))'
  BY <1>1 DEF PlanInv, GoodEdit
<1>3. amount' \in Amount /\ GoodProposal'
  <2>1. ASSUME NEW proj \in [Budgeted -> BudgetAmounts], NEW rank \in P!Ranks,
               P!SuggestRebalance(proj, rank)
        PROVE  amount' \in Amount /\ GoodProposal'
    <3> DEFINE new == P!AllocateRebalance(amount, proj, rank)
    <3>1. proj \in Amount /\ amount \in Amount
      BY <1>0 DEF Amount, PlanInv
    <3>2. new \in Amount /\ Sound(amount, proj, new)
      BY <3>1, RebalanceIsSound
    <3>3. amount' = amount /\ proposal' = [expected |-> amount, proj |-> proj, new |-> new]
      BY <2>1 DEF P!SuggestRebalance
    <3> HIDE DEF new
    <3>4. proposal'.new = new /\ proposal'.expected = amount /\ proposal'.proj = proj
      BY <3>3
    <3> QED BY <3>1, <3>2, <3>3, <3>4 DEF GoodProposal, Sound
  <2>2. ASSUME P!RebalanceBudgets
        PROVE  amount' \in Amount /\ GoodProposal'
    BY <2>2 DEF P!RebalanceBudgets, PlanInv, GoodProposal, Amount
  <2>3. ASSUME NEW c \in Budgeted, NEW n \in BudgetAmounts, P!UpdateBudget(c, n)
        PROVE  amount' \in Amount /\ GoodProposal'
    BY <1>0, <2>3 DEF P!UpdateBudget, PlanInv, GoodProposal, Amount
  <2> QED BY <2>1, <2>2, <2>3 DEF P!BudgetNext
<1> QED BY <1>1, <1>2, <1>3 DEF PlanInv

LEMMA PlansStay ==
    ASSUME PlanInv, UNCHANGED plansVars
    PROVE  PlanInv'
  BY DEF PlanInv, plansVars, GoodEdit, GoodProposal

\* The step that ends an edit is its commit or its rollback.
LEMMA EndIsCommit ==
    ASSUME PlanInv, P!PlanNext, NEW p \in Requests, P!Ends(p)
    PROVE  P!CommitEdit(p)
<1>1. planEdit[p] # P!NoEdit /\ planEdit'[p] = P!NoEdit /\ GoodEdit(planEdit[p])
  BY DEF P!Ends, PlanInv
<1>2. planEdit[p].kind # "idle" /\ planEdit[p] \in EditRecord
  BY <1>1 DEF GoodEdit
<1>3. ASSUME NEW o \in Requests, NEW k \in PlanPeriods, Begins(o, k)
      PROVE  FALSE
  <2>1. PICK q : P!BeginEdit(o, k, q)
    BY <1>3 DEF Begins, P!GetOrCreatePlan, P!PopulateFromSources, P!RefreshFromSources,
         P!CopyFromPeriod, P!UpsertItems, P!UpdateItem, P!DeleteItem, P!DiscardPlan,
         P!ActivatePlan, P!RevertToDraft
  <2>2. o # p
    BY <1>2, <2>1 DEF P!BeginEdit
  <2>3. planEdit'[p] = planEdit[p]
    BY <2>1, <2>2 DEF P!BeginEdit, PlanInv
  <2> QED BY <1>1, <2>3
<1>4. ASSUME NEW o \in Requests, o # p, P!CommitEdit(o)
      PROVE  FALSE
  <2>1. planEdit'[p] = planEdit[p] \/ planEdit'[p] = P!Overtaken(planEdit[p], planEdit[o])
    BY <1>4, CommitIs
  <2>2. P!Overtaken(planEdit[p], planEdit[o]).kind # "idle"
    BY <1>2, OvertakenIs
  <2> QED BY <1>1, <2>1, <2>2, NoEditIs
<1>5. ASSUME P!SetGranularity
      PROVE  FALSE
  BY <1>1, <1>5 DEF P!SetGranularity
<1> QED BY <1>3, <1>4, <1>5 DEF P!PlanNext, Begins

\* Only a commit changes items.
LEMMA ItemsByCommit ==
    ASSUME PlanInv, P!PlanNext, item' # item
    PROVE  \E p \in Requests : P!CommitEdit(p)
<1>1. ASSUME NEW p \in Requests, NEW k \in PlanPeriods, Begins(p, k)
      PROVE  item' = item
  <2>1. PICK q : P!BeginEdit(p, k, q)
    BY <1>1 DEF Begins, P!GetOrCreatePlan, P!PopulateFromSources, P!RefreshFromSources,
         P!CopyFromPeriod, P!UpsertItems, P!UpdateItem, P!DeleteItem, P!DiscardPlan,
         P!ActivatePlan, P!RevertToDraft
  <2> QED BY <2>1 DEF P!BeginEdit
<1>2. P!SetGranularity => item' = item
  BY DEF P!SetGranularity
<1> QED BY <1>1, <1>2 DEF P!PlanNext, Begins

LEMMA ManualIsKept ==
    ASSUME PlanInv, P!PlanNext
    PROVE  P!ManualKept
<1> SUFFICES ASSUME NEW k \in PlanPeriods, NEW c \in Cats,
                    item[k][c] = "manual", item'[k][c] # "manual"
             PROVE  \E p \in Requests :
                      LET q == planEdit[p]
                      IN  /\ P!Ends(p) /\ q.period = k
                          /\ q.seen[c] # "none" /\ c \notin q.gone
                          /\ q.kind = "hand" \/ (q.kind = "refresh" /\ q.seen[c] = "auto")
  BY DEF P!ManualKept
<1>1. PICK p \in Requests : P!CommitEdit(p)
  BY ItemsByCommit
<1> DEFINE q == planEdit[p]
<1>2. /\ q \in EditRecord /\ q.kind # "idle" /\ Fits(q, q.seen) /\ planEdit'[p] = P!NoEdit
      /\ P!Commits(q) /\ item' = [item EXCEPT ![q.period] = P!Written(q)]
      /\ q.period \in PlanPeriods /\ item \in [PlanPeriods -> Items]
  BY <1>1, CommitIs DEF PlanInv
<1>3. P!Ends(p)
  BY <1>2, NoEditIs DEF P!Ends
<1> HIDE DEF q
<1>4. q.period = k /\ item'[k] = P!Written(q)
  BY <1>2
<1>5. c \in P!Dropped(q)
  <2>1. CASE c \in P!Inserts(q)
    BY <1>2, <1>4, <2>1 DEF P!Commits
  <2>2. CASE c \notin P!Inserts(q)
    BY <1>4, <2>2 DEF P!Written
  <2> QED BY <2>1, <2>2
<1>6. c \in q.drops /\ c \notin q.gone
  BY <1>5 DEF P!Dropped
<1>7. q.kind \in {"hand", "refresh"} /\ q.seen[c] # "none" /\ (q.kind = "refresh" => q.seen[c] = "auto")
  BY <1>2, <1>6 DEF Fits, EditRecord, P!ItemsOf
<1> QED BY <1>3, <1>4, <1>6, <1>7 DEF q

LEMMA RefreshIsReturned ==
    ASSUME PlanInv, P!PlanNext
    PROVE  P!RefreshReturns
<1> SUFFICES ASSUME NEW p \in Requests, NEW c \in Cats, P!Ends(p),
                    planEdit[p].kind = "refresh",
                    item[planEdit[p].period][c] # "none", item'[planEdit[p].period][c] = "none"
             PROVE  c \notin planEdit[p].keys \/ c \in P!SubPairs(P!Kept(planEdit[p]))
  BY DEF P!RefreshReturns
<1> DEFINE q == planEdit[p]
<1>1. /\ q \in EditRecord /\ Fits(q, q.seen) /\ item' = [item EXCEPT ![q.period] = P!Written(q)]
      /\ q.period \in PlanPeriods /\ item \in [PlanPeriods -> Items]
  BY EndIsCommit, CommitIs DEF PlanInv
<1>2. P!Written(q)[c] = "none" /\ q.kind = "refresh" /\ item[q.period][c] # "none"
  BY <1>1
<1> HIDE DEF q
<1>3. c \notin P!Inserts(q) /\ c \in P!Dropped(q)
  BY <1>2 DEF P!Written, P!InsertedAs
<1>4. P!Kept(q)[c] = "none" /\ q.seen[c] # "none"
  BY <1>1, <1>3 DEF P!Kept, P!Dropped, Fits, P!ItemsOf
<1>5. c \notin q.keys \/ P!WouldConflict(P!Kept(q), c, q.mode, P!SubPairs(q.seen))
  BY <1>2, <1>3, <1>4 DEF P!Inserts, P!Populate, P!PairsBefore
<1>6. CASE q.mode = "subcategory" /\ c \in q.keys
  <2>1. c \notin P!Masters /\ ParentOf[c] \notin P!SubPairs(q.seen)
    BY <1>5, <1>6 DEF P!WouldConflict
  <2> QED BY <1>4, <2>1, FamilyFacts
<1>7. CASE q.mode # "subcategory"
  BY <1>5, <1>7 DEF P!WouldConflict, q
<1> QED BY <1>5, <1>6, <1>7 DEF q

\* A fill q of the items now, none of which came or went since they were read.
LEMMA FillIsOnce ==
    ASSUME PlanInv, NEW q \in EditRecord, Fits(q, q.seen), q.period \in PlanPeriods,
           P!Commits(q), q.kind \in {"populate", "refresh", "copy"}, NEW m \in P!Masters,
           m \in P!Mixed(P!Written(q)),
           \A c \in Cats : ParentOf[c] = m => (item[q.period][c] = "none" <=> q.seen[c] = "none")
    PROVE  \/ m \in P!Mixed(q.seen) \cup q.paired
           \/ /\ q.mode = "subcategory" /\ P!Written(q)[m] = "auto"
              /\ item[q.period][m] = "none" \/ m \in P!Dropped(q)
<1> DEFINE now == item[q.period]
           ins == P!Inserts(q)
           view == P!Kept(q)
<1>1. m \in Cats /\ ParentOf[m] = m /\ now \in Items
  BY DEF P!Masters, PlanInv
<1>2. P!Written(q)[m] # "none" /\ m \in P!SubPairs(P!Written(q))
  BY DEF P!Mixed, P!ItemsOf
<1>3. PICK c \in Cats : c \notin P!Masters /\ P!Written(q)[c] # "none" /\ m = ParentOf[c]
  BY <1>2, FamilyFacts
<1>4. \A x \in Cats : P!Written(q)[x] = IF x \in ins THEN P!InsertedAs(q)
                                        ELSE IF x \in P!Dropped(q) THEN "none" ELSE now[x]
  BY DEF Fits, P!Written
<1>5. \A x \in Cats : view[x] = IF x \in P!Dropped(q) THEN "none" ELSE q.seen[x]
  BY DEF P!Kept
<1>6. \A x \in ins : now[x] = "none" \/ x \in P!Dropped(q)
  BY DEF P!Commits
<1>7. P!SubPairs(q.seen) = {ParentOf[x] : x \in P!ItemsOf(q.seen) \ P!Masters}
  BY DEF P!SubPairs
<1>8. q.kind \in {"populate", "refresh"} => q.mode \in {"master", "subcategory"}
  BY DEF Fits
\* What a populate or a refresh inserts, it has found no conflict for.
<1>9. ASSUME q.kind \in {"populate", "refresh"}, NEW x \in ins
      PROVE  /\ ~ P!WouldConflict(view, x, q.mode, P!SubPairs(q.seen))
             /\ q.mode = "master" => x \in P!Masters
  <2>1. CASE q.kind = "populate"
    <3>1. P!Dropped(q) = {} /\ q.seen \in Items
      BY <2>1 DEF Fits, P!Dropped, EditRecord
    <3>2. view = q.seen
      BY <1>5, <3>1 DEF P!Kept, Items
    <3> QED BY <2>1, <3>2 DEF Fits, P!Inserts
  <2>2. CASE q.kind = "refresh"
    BY <2>2 DEF Fits, P!Inserts, P!Populate, P!PairsBefore
  <2> QED BY <1>9, <2>1, <2>2
<1> HIDE DEF now, ins, view
<1>10. CASE m \notin ins /\ c \notin ins
  <2>1. q.seen[m] # "none" /\ q.seen[c] # "none"
    BY <1>1, <1>2, <1>3, <1>4, <1>10 DEF now
  <2> QED BY <1>1, <1>3, <2>1, FamilyFacts DEF P!Mixed, P!ItemsOf
<1>11. CASE m \notin ins /\ c \in ins
  <2>1. q.seen[m] # "none" /\ view[m] = q.seen[m]
    BY <1>1, <1>2, <1>4, <1>5, <1>11 DEF now
  <2>2. CASE q.kind \in {"populate", "refresh"}
    <3>1. q.mode = "subcategory" /\ ~ P!WouldConflict(view, c, q.mode, P!SubPairs(q.seen))
      BY <1>3, <1>8, <1>9, <1>11, <2>2
    <3>2. m \in P!SubPairs(q.seen)
      BY <1>3, <2>1, <3>1 DEF P!WouldConflict
    <3> QED BY <1>1, <2>1, <3>2 DEF P!Mixed, P!ItemsOf
  <2>3. CASE q.kind = "copy"
    <3>1. m \in P!SubPairs(q.seen)
      BY <1>3, <1>11, <2>1, <2>3 DEF Fits, P!Inserts, ins
    <3> QED BY <1>1, <2>1, <3>1 DEF P!Mixed, P!ItemsOf
  <2> QED BY <2>2, <2>3
<1>12. CASE m \in ins /\ q.kind \in {"populate", "refresh"}
  <2>1. CASE q.mode = "subcategory"
    BY <1>1, <1>4, <1>6, <1>12, <2>1 DEF P!InsertedAs, now
  <2>2. CASE q.mode = "master"
    <3>1. c \notin ins /\ m \notin P!SubPairs(view)
      BY <1>3, <1>9, <1>12, <2>2 DEF P!WouldConflict
    <3>2. view[c] # "none"
      BY <1>3, <1>4, <1>5, <3>1 DEF now
    <3> QED BY <1>3, <3>1, <3>2, FamilyFacts
  <2> QED BY <1>8, <1>12, <2>1, <2>2
<1>13. CASE m \in ins /\ q.kind = "copy"
  <2>1. m \notin P!SubPairs(q.seen) /\ P!Dropped(q) = {}
    BY <1>13 DEF Fits, P!Inserts, ins, P!Dropped
  <2>2. q.seen[c] = "none"
    BY <1>3, <2>1, FamilyFacts
  <2>3. c \in ins
    BY <1>3, <1>4, <2>2 DEF now
  <2> QED BY <1>3, <1>13, <2>3 DEF Fits, P!Inserts, ins
<1> QED BY <1>10, <1>11, <1>12, <1>13

LEMMA FillsAreOnce ==
    ASSUME PlanInv, P!PlanNext
    PROVE  P!FillsCountOnce
<1> SUFFICES ASSUME NEW p \in Requests, NEW m \in P!Masters, P!Ends(p),
                    planEdit[p].kind \in {"populate", "refresh", "copy"},
                    m \in P!Mixed(item'[planEdit[p].period]),
                    \A c \in Cats : ParentOf[c] = m =>
                        (item[planEdit[p].period][c] = "none" <=> planEdit[p].seen[c] = "none")
             PROVE  LET q == planEdit[p]
                        k == q.period
                    IN  \/ m \in P!Mixed(q.seen) \cup q.paired
                        \/ /\ q.mode = "subcategory" /\ item'[k][m] = "auto"
                           /\ item[k][m] = "none" \/ m \in P!Dropped(q)
  BY DEF P!FillsCountOnce
<1> DEFINE q == planEdit[p]
<1>1. /\ q \in EditRecord /\ Fits(q, q.seen) /\ q.period \in PlanPeriods
      /\ \/ item' = item
         \/ P!Commits(q) /\ item' = [item EXCEPT ![q.period] = P!Written(q)]
      /\ item \in [PlanPeriods -> Items]
  BY EndIsCommit, CommitIs DEF PlanInv
<1> HIDE DEF q
<1>2. CASE item' = item
  <2>1. m \in P!Mixed(item[q.period]) /\ m \in P!Masters /\ m \in Cats /\ ParentOf[m] = m
    BY <1>2 DEF q, P!Masters
  <2>2. item[q.period][m] # "none" /\ m \in P!SubPairs(item[q.period])
    BY <2>1 DEF P!Mixed, P!ItemsOf
  <2>3. PICK c \in Cats : c \notin P!Masters /\ item[q.period][c] # "none" /\ m = ParentOf[c]
    BY <2>2, FamilyFacts
  <2>4. q.seen[m] # "none" /\ q.seen[c] # "none"
    BY <2>1, <2>2, <2>3 DEF q
  <2>5. m \in P!Mixed(q.seen)
    BY <2>1, <2>3, <2>4, FamilyFacts DEF P!Mixed, P!ItemsOf
  <2> QED BY <2>5 DEF q
<1>3. CASE P!Commits(q) /\ item' = [item EXCEPT ![q.period] = P!Written(q)]
  <2>1. item'[q.period] = P!Written(q)
    BY <1>1, <1>3
  <2> QED BY <1>1, <1>3, <2>1, FillIsOnce DEF q
<1> QED BY <1>1, <1>2, <1>3

LEMMA EditsAreKept ==
    ASSUME PlanInv, P!PlanNext
    PROVE  P!ManualKept /\ P!RefreshReturns /\ P!FillsCountOnce
  BY ManualIsKept, RefreshIsReturned, FillsAreOnce

\* The budgets that are sent are written over the amounts they were computed from
\* and the others do not move, so all of them together change as the sent ones do.
LEMMA RebalanceKeeps ==
    ASSUME PlanInv
    PROVE  P!RebalanceKeepsTotal
<1> SUFFICES ASSUME P!RebalanceBudgets
             PROVE  P!Total(amount') = P!Total(amount)
  BY DEF P!RebalanceKeepsTotal
<1> DEFINE new == proposal.new
           old == proposal.expected
<1>1. new \in Amount /\ old \in Amount /\ amount \in Amount
  BY DEF P!RebalanceBudgets, PlanInv, GoodProposal
<1>2. CASE amount' = amount
  BY <1>2
<1>3. CASE amount' # amount
  <2>1. /\ \A c \in P!Sent : amount[c] = old[c]
        /\ P!Total(new) = P!Total(old)
        /\ amount' = [c \in Budgeted |-> IF c \in P!Sent THEN new[c] ELSE amount[c]]
        /\ \A c \in Budgeted : c \notin P!Sent => new[c] = old[c]
    BY <1>3 DEF P!RebalanceBudgets, P!AmountsAsSeen, P!Sent
  <2>2. amount' \in Amount
    BY <1>1, <2>1 DEF Amount
  <2> HIDE DEF new, old
  <2> DEFINE after == amount'
             both == [c \in Budgeted |-> after[c] + old[c]]
  <2>3. \A c \in Budgeted : /\ after[c] \in Int /\ old[c] \in Int /\ amount[c] \in Int
                            /\ new[c] \in Int /\ both[c] = after[c] + old[c]
                            /\ both[c] = amount[c] + new[c]
    BY <1>1, <2>1, <2>2 DEF Amount
  <2> HIDE DEF both
  <2>4. Sum(both, Budgeted) = Sum(after, Budgeted) + Sum(old, Budgeted)
    BY <2>3, SumPlus, BudgetedFacts
  <2>5. Sum(both, Budgeted) = Sum(amount, Budgeted) + Sum(new, Budgeted)
    BY <2>3, SumPlus, BudgetedFacts
  <2>6. /\ P!Total(after) = Sum(after, Budgeted) /\ P!Total(after) \in Nat
        /\ P!Total(amount) = Sum(amount, Budgeted) /\ P!Total(amount) \in Nat
        /\ P!Total(new) = Sum(new, Budgeted) /\ P!Total(new) \in Nat
        /\ P!Total(old) = Sum(old, Budgeted) /\ P!Total(old) \in Nat
    BY <1>1, <2>2, TotalNatural
  <2>7. P!Total(after) + P!Total(old) = P!Total(amount) + P!Total(new)
    BY <2>4, <2>5, <2>6
  <2> HIDE DEF after
  <2>8. P!Total(after) = P!Total(amount)
    BY <2>1, <2>6, <2>7
  <2> QED BY <2>8 DEF after
<1> QED BY <1>2, <1>3

-----------------------------------------------------------------------------
(* Scenarios: occurrences of a series are counted by a segment of numbers.    *)

LEMMA SimFacts ==
    /\ IsFiniteSet(Accounts) /\ Month \in Nat \ {0} /\ MaxCompared \in Nat
    /\ Horizons \subseteq Nat \ {0} /\ \A t \in ScenarioTypes : HorizonMax[t] \in Nat \ {0}
    /\ \A w \in FirstBooks : BooksOk(w)
    /\ \A s \in Scenarios : s.type \in ScenarioTypes /\ ScenarioOk(s)
  BY PlanningAssumption DEF SimulationAssumption

\* A set of numbers that has every number below each of its own.
LEMMA SegmentIs ==
    ASSUME NEW D, IsFiniteSet(D), D \subseteq Nat,
           \A n \in D : \A k \in Nat : k < n => k \in D
    PROVE  Cardinality(D) \in Nat /\ D = 0 .. Cardinality(D) - 1
<1>1. Nat \ D # {}
  <2> SUFFICES ASSUME Nat \subseteq D
               PROVE  FALSE
    OBVIOUS
  <2>1. Cardinality(D) \in Nat
    BY FS_CardinalityType
  <2>2. 0 .. Cardinality(D) \subseteq D
    BY <2>1
  <2>3. Cardinality(0 .. Cardinality(D)) = Cardinality(D) + 1
    BY <2>1, FS_Interval
  <2>4. Cardinality(0 .. Cardinality(D)) <= Cardinality(D)
    BY <2>2, FS_Subset
  <2>5. QED
    BY <2>1, <2>3, <2>4
<1>2. PICK n \in Nat \ D : \A k \in Nat \ D : n <= k
  BY <1>1, Least
<1>3. D = 0 .. n - 1
  <2>1. ASSUME NEW k \in D
        PROVE  k \in 0 .. n - 1
    <3>1. k \in Nat /\ k # n
      BY <2>1, <1>2
    <3>2. ~ (n < k)
      BY <2>1, <1>2
    <3>3. QED
      BY <3>1, <3>2
  <2>2. ASSUME NEW k \in 0 .. n - 1
        PROVE  k \in D
    <3>1. k \in Nat /\ ~ (n <= k)
      BY <1>2
    <3>2. QED
      BY <1>2, <3>1
  <2>3. QED
    BY <2>1, <2>2
<1>4. Cardinality(D) = n
  <2>1. Cardinality(0 .. n - 1) = n
    BY <1>2, FS_Interval
  <2>2. QED
    BY <1>3, <2>1
<1>5. QED
  BY <1>2, <1>3, <1>4

\* Two numbers with the same numbers below them.
LEMMA SameBelow ==
    ASSUME NEW x \in Nat, NEW y \in Nat, \A n \in Nat : n < x <=> n < y
    PROVE  x = y
  OBVIOUS

LEMMA Product ==
    ASSUME NEW x \in Int, NEW y \in Int
    PROVE  /\ x * y \in Int /\ (x + 1) * y = x * y + y
           /\ x \in Nat /\ y \in Nat => x * y \in Nat
           /\ x \in Nat /\ y \in Nat \ {0} => x <= x * y
           /\ \A z \in Int : (x + z) * y = x * y + z * y /\ (x - z) * y = x * y - z * y
           /\ \A z \in Int : x <= z /\ y \in Nat => x * y <= z * y
  OBVIOUS

-----------------------------------------------------------------------------
\* The numbers of the occurrences before month m.
InTime(r, n) == r.left < 0 \/ n < r.left
Passed(r, m) == {n \in 0 .. (Month * m - r.due) : InTime(r, n) /\ r.due + n * r.freq < Month * m}
Count(r, m) == Cardinality(Passed(r, m))
\* How many of them the queue has gone past, and what is left of the series.
Gone(r, m) == IF m = 0 THEN 0 ELSE Count(r, m)
AfterMonths(r, m) ==
    [r EXCEPT !.due = @ + Gone(r, m) * r.freq, !.left = IF @ < 0 THEN @ ELSE @ - Gone(r, m)]

LEMMA RecurrenceIs ==
    ASSUME NEW r \in Recurrence
    PROVE  r.due \in Int /\ r.freq \in Nat \ {0} /\ r.left \in Int /\ r.left >= -1 /\ r.amt \in Int
           /\ r.kind \in {"income", "expense", "transfer"}
  BY DEF Recurrence

\* A series with another frontier and other instalments.
Placed(r, due, left) ==
    [id |-> r.id, kind |-> r.kind, acct |-> r.acct, to |-> r.to, amt |-> r.amt,
     freq |-> r.freq, due |-> due, left |-> left, cat |-> r.cat]

LEMMA PlacedIs ==
    ASSUME NEW r \in Recurrence, NEW due, NEW left
    PROVE  [r EXCEPT !.due = due, !.left = left] = Placed(r, due, left)
<1>1. [r EXCEPT !.due = due] = Placed(r, due, r.left)
  BY DEF Recurrence, Placed
<1>2. [Placed(r, due, r.left) EXCEPT !.left = left] = Placed(r, due, left)
  BY DEF Placed
<1>3. [r EXCEPT !.due = due, !.left = left] = [[r EXCEPT !.due = due] EXCEPT !.left = left]
  OBVIOUS
<1>4. QED
  BY <1>1, <1>2, <1>3

LEMMA MonthsAre ==
    ASSUME NEW m \in Nat
    PROVE  Month * m \in Nat /\ Month * (m + 1) = Month * m + Month /\ Month \in Nat \ {0}
  BY SimFacts

LEMMA CountIsPassed ==
    ASSUME NEW r \in Recurrence, NEW m \in Nat
    PROVE  /\ Count(r, m) \in Nat
           /\ \A n \in Nat : n < Count(r, m) <=> InTime(r, n) /\ r.due + n * r.freq < Month * m
           /\ IsFiniteSet(Passed(r, m)) /\ Passed(r, m) = 0 .. Count(r, m) - 1
<1> DEFINE D == Passed(r, m)
<1>1. r.due \in Int /\ r.freq \in Nat \ {0} /\ r.left \in Int /\ Month * m \in Nat
  BY RecurrenceIs, MonthsAre
<1>2. ASSUME NEW n \in Nat
      PROVE  n \in D <=> InTime(r, n) /\ r.due + n * r.freq < Month * m
  <2>1. n <= n * r.freq /\ n * r.freq \in Int
    BY <1>1, Product
  <2>2. QED
    BY <1>1, <2>1 DEF Passed
<1>3. IsFiniteSet(D) /\ D \subseteq Nat
  <2>1. Month * m - r.due \in Int
    BY <1>1
  <2>4. IsFiniteSet(0 .. (Month * m - r.due))
    BY <2>1, FS_Interval
  <2>2. D \subseteq 0 .. (Month * m - r.due)
    BY DEF Passed
  <2> HIDE DEF D
  <2>3. IsFiniteSet(D)
    BY <2>4, <2>2, FS_Subset
  <2>5. QED
    BY <2>1, <2>2, <2>3
<1>4. ASSUME NEW n \in D, NEW k \in Nat, k < n
      PROVE  k \in D
  <2>1. n \in Nat /\ InTime(r, n) /\ r.due + n * r.freq < Month * m
    BY <1>2, <1>3
  <2>2. k * r.freq <= n * r.freq /\ k * r.freq \in Int /\ n * r.freq \in Int
    BY <1>1, <1>4, <2>1, Product
  <2>3. QED
    BY <1>1, <1>2, <1>4, <2>1, <2>2 DEF InTime
<1>5. Count(r, m) \in Nat /\ D = 0 .. Count(r, m) - 1
  <2> HIDE DEF D
  <2>1. Cardinality(D) \in Nat /\ D = 0 .. Cardinality(D) - 1
    BY <1>3, <1>4, SegmentIs
  <2>2. QED
    BY <2>1 DEF Count, D
<1>6. ASSUME NEW n \in Nat
      PROVE  n < Count(r, m) <=> n \in D
  BY <1>5
<1>7. QED
  BY <1>2, <1>3, <1>5, <1>6

LEMMA ReachedIsCount ==
    ASSUME NEW r \in Recurrence, NEW m \in Nat
    PROVE  Reached(r, m) = Count(r, m + 1)
<1> DEFINE D == Falls(r, m)
           c == Cardinality(D)
<1>1. /\ r.due \in Int /\ r.freq \in Nat \ {0} /\ r.left \in Int /\ r.left >= -1
      /\ Month * (m + 1) \in Nat /\ m + 1 \in Nat
  BY RecurrenceIs, MonthsAre
<1>2. ASSUME NEW n \in Nat
      PROVE  n \in D <=> r.due + n * r.freq < Month * (m + 1)
  <2>1. n <= n * r.freq /\ n * r.freq \in Int
    BY <1>1, Product
  <2>2. QED
    BY <1>1, <2>1 DEF Falls
<1>3. IsFiniteSet(D) /\ D \subseteq Nat
  <2>1. Month * (m + 1) - r.due \in Int
    BY <1>1
  <2>4. IsFiniteSet(0 .. (Month * (m + 1) - r.due))
    BY <2>1, FS_Interval
  <2>2. D \subseteq 0 .. (Month * (m + 1) - r.due)
    BY DEF Falls
  <2> HIDE DEF D
  <2>3. IsFiniteSet(D)
    BY <2>4, <2>2, FS_Subset
  <2>5. QED
    BY <2>1, <2>2, <2>3
<1>4. ASSUME NEW n \in D, NEW k \in Nat, k < n
      PROVE  k \in D
  <2>1. n \in Nat /\ r.due + n * r.freq < Month * (m + 1)
    BY <1>2, <1>3
  <2>2. k * r.freq <= n * r.freq /\ k * r.freq \in Int /\ n * r.freq \in Int
    BY <1>1, <1>4, <2>1, Product
  <2>3. QED
    BY <1>1, <1>2, <1>4, <2>1, <2>2
<1>5. c \in Nat /\ D = 0 .. c - 1
  <2> HIDE DEF D
  <2>1. QED
    BY <1>3, <1>4, SegmentIs
<1>6. \A n \in Nat : n < c <=> r.due + n * r.freq < Month * (m + 1)
  <2> HIDE DEF D, c
  <2>1. \A n \in Nat : n < c <=> n \in D
    BY <1>5
  <2>2. QED
    BY <1>2, <2>1
<1> HIDE DEF c
<1>7. Reached(r, m) \in Nat /\ \A n \in Nat : n < Reached(r, m) <=> InTime(r, n) /\ n < c
  <2>1. CASE r.left < 0
    BY <1>5, <2>1 DEF Reached, InTime, c
  <2>2. CASE ~ (r.left < 0)
    <3>1. Min({r.left, c}) \in {r.left, c} /\ Min({r.left, c}) <= r.left /\ Min({r.left, c}) <= c
      BY <1>1, <1>5 DEF Min
    <3>2. Reached(r, m) = Min({r.left, c})
      BY <2>2 DEF Reached, c
    <3>3. r.left \in Nat
      BY <1>1, <2>2
    <3>4. Reached(r, m) \in Nat /\ \A n \in Nat : n < Reached(r, m) <=> n < r.left /\ n < c
      <4> HIDE DEF D
      <4> QED BY <1>5, <3>1, <3>2, <3>3, SMTT(40)
    <3>5. QED
      BY <2>2, <3>4 DEF InTime
  <2>3. QED
    BY <2>1, <2>2
<1>8. \A n \in Nat : n < Reached(r, m) <=> n < Count(r, m + 1)
  BY <1>1, <1>6, <1>7, CountIsPassed
<1>9. QED
  BY <1>1, <1>7, <1>8, CountIsPassed, SameBelow

\* A month takes the queue from one count to the next.
LEMMA QueueAdvances ==
    ASSUME NEW r \in Recurrence, NEW m \in Nat
    PROVE  /\ AfterMonths(r, m) \in Recurrence
           /\ Gone(r, m) \in Nat /\ Gone(r, m) <= Count(r, m) /\ Count(r, m) <= Count(r, m + 1)
           /\ Reached(AfterMonths(r, m), m) = Count(r, m + 1) - Gone(r, m)
           /\ \A s : Advanced(s, AfterMonths(r, m), m) = AfterMonths(r, m + 1)
<1> DEFINE q == AfterMonths(r, m)
           c == Gone(r, m)
           e == Count(r, m + 1)
<1>1. /\ r.due \in Int /\ r.freq \in Nat \ {0} /\ r.left \in Int /\ r.left >= -1 /\ m + 1 \in Nat
      /\ Month * m \in Nat /\ Month * (m + 1) = Month * m + Month /\ Month \in Nat \ {0}
  BY RecurrenceIs, MonthsAre
<1>2. Count(r, m) \in Nat /\ e \in Nat /\ c \in Nat /\ c <= Count(r, m)
  <2>1. Count(r, m) \in Nat
    BY CountIsPassed
  <2>2. Count(r, m + 1) \in Nat
    BY <1>1, CountIsPassed
  <2>3. QED
    BY <2>1, <2>2 DEF Gone
<1>3. /\ \A n \in Nat : n < Count(r, m) <=> InTime(r, n) /\ r.due + n * r.freq < Month * m
      /\ \A n \in Nat : n < e <=> InTime(r, n) /\ r.due + n * r.freq < Month * (m + 1)
  BY <1>1, CountIsPassed
<1>4. Count(r, m) <= e
  <2> SUFFICES ASSUME e < Count(r, m)
               PROVE  FALSE
    BY <1>2
  <2>1. e * r.freq \in Int
    BY <1>1, <1>2, Product
  <2>2. InTime(r, e) /\ r.due + e * r.freq < Month * m
    BY <1>2, <1>3
  <2>3. e < e
    BY <1>1, <1>2, <1>3, <2>1, <2>2
  <2>4. QED
    BY <1>2, <2>3
<1> HIDE DEF c, e
<1>5. /\ q = [r EXCEPT !.due = r.due + c * r.freq, !.left = IF r.left < 0 THEN r.left ELSE r.left - c]
      /\ c * r.freq \in Int
  <2>1. c * r.freq \in Int
    BY <1>1, <1>2, Product
  <2>2. q = [r EXCEPT !.due = r.due + c * r.freq, !.left = IF r.left < 0 THEN r.left ELSE r.left - c]
    BY DEF AfterMonths, c, Recurrence
  <2>3. QED
    BY <2>1, <2>2
<1>6. r.left < 0 \/ c <= r.left
  <2> SUFFICES ASSUME r.left >= 0, c > r.left
               PROVE  FALSE
    BY <1>1, <1>2
  <2>1. c - 1 \in Nat /\ c - 1 < Count(r, m) /\ c - 1 >= r.left
    BY <1>1, <1>2
  <2>2. InTime(r, c - 1)
    BY <1>3, <2>1
  <2>3. QED
    BY <1>1, <1>2, <2>1, <2>2 DEF InTime
<1>7. q \in Recurrence
  <2>1. r.due + c * r.freq \in Int
    BY <1>1, <1>5
  <2>2. (IF r.left < 0 THEN r.left ELSE r.left - c) \in Nat \union {-1}
    BY <1>1, <1>2, <1>6
  <2>3. QED
    BY <1>5, <2>1, <2>2 DEF Recurrence
<1>8. /\ q.due = r.due + c * r.freq /\ q.freq = r.freq
      /\ q.left = IF r.left < 0 THEN r.left ELSE r.left - c
  BY <1>5 DEF Recurrence
<1> HIDE DEF q
<1>9. Reached(q, m) \in Nat /\ \A k \in Nat : k < Reached(q, m) <=> InTime(q, k) /\ q.due + k * q.freq < Month * (m + 1)
  BY <1>1, <1>7, ReachedIsCount, CountIsPassed
<1>10. ASSUME NEW k \in Nat
       PROVE  k < Reached(q, m) <=> c + k < e
  <2>1. c + k \in Nat /\ (c + k) * r.freq = c * r.freq + k * r.freq /\ k * r.freq \in Int
    BY <1>1, <1>2, Product
  <2>2. InTime(q, k) <=> InTime(r, c + k)
    BY <1>1, <1>2, <1>6, <1>8 DEF InTime
  <2>3. q.due + k * q.freq = r.due + (c + k) * r.freq
    BY <1>1, <1>5, <1>8, <2>1
  <2>4. c + k < e <=> InTime(r, c + k) /\ r.due + (c + k) * r.freq < Month * (m + 1)
    BY <1>3, <2>1
  <2>5. QED
    BY <1>9, <2>2, <2>3, <2>4
<1>11. Reached(q, m) = e - c
  <2>1. e - c \in Nat
    BY <1>2, <1>4
  <2>2. \A k \in Nat : k < Reached(q, m) <=> k < e - c
    BY <1>2, <1>10
  <2>3. QED
    BY <1>9, <2>1, <2>2, SameBelow
<1>12. ASSUME NEW s
       PROVE  Advanced(s, q, m) = AfterMonths(r, m + 1)
  <2>1. Gone(r, m + 1) = e
    BY <1>1 DEF Gone, e
  <2>2. AfterMonths(r, m + 1) = [r EXCEPT !.due = r.due + e * r.freq, !.left = IF r.left < 0 THEN r.left ELSE r.left - e]
    BY <2>1 DEF AfterMonths
  <2>3. Advanced(s, q, m) =
            [q EXCEPT !.due = q.due + (e - c) * r.freq, !.left = IF q.left < 0 THEN q.left ELSE q.left - (e - c)]
    BY <1>8, <1>11 DEF Advanced, Spends
  <2>4. q.due + (e - c) * r.freq = r.due + e * r.freq
    <3>1. (e - c) * r.freq = e * r.freq - c * r.freq /\ e * r.freq \in Int
      BY <1>1, <1>2, Product
    <3>2. QED
      BY <1>1, <1>5, <1>8, <3>1
  <2>5. (IF q.left < 0 THEN q.left ELSE q.left - (e - c)) = IF r.left < 0 THEN r.left ELSE r.left - e
    BY <1>1, <1>2, <1>6, <1>8
  <2>6. QED
    <3> DEFINE at == r.due + e * r.freq
               rest == IF r.left < 0 THEN r.left ELSE r.left - e
    <3>1. AfterMonths(r, m + 1) = Placed(r, at, rest)
      BY <2>2, PlacedIs
    <3>2. Advanced(s, q, m) = Placed(q, at, rest)
      <4>1. Advanced(s, q, m) = [q EXCEPT !.due = at, !.left = rest]
        BY <2>3, <2>4, <2>5
      <4>2. QED
        BY <1>7, <4>1, PlacedIs
    <3>3. q = Placed(r, q.due, q.left)
      <4>1. q = [r EXCEPT !.due = q.due, !.left = q.left]
        BY <1>5, <1>8
      <4>2. QED
        BY <4>1, PlacedIs
    <3>4. QED
      BY <3>1, <3>2, <3>3 DEF Placed
<1>13. QED
  BY <1>2, <1>4, <1>7, <1>11, <1>12 DEF q, c, e

LEMMA InItsMonth ==
    ASSUME NEW d \in Int, NEW t \in Nat \ {0}, NEW m \in Nat, t * m <= d, d < t * m + t
    PROVE  d \div t = m
<1> DEFINE x == d \div t
<1>1. x \in Int /\ t * x <= d /\ d < t * x + t
  BY SMT
<1> HIDE DEF x
<1>2. x <= m
  <2> SUFFICES ASSUME m + 1 <= x
               PROVE  FALSE
    BY <1>1
  <2>1. t * (m + 1) <= t * x
    BY <1>1
  <2>2. QED
    BY <1>1, <2>1
<1>3. m <= x
  <2> SUFFICES ASSUME x + 1 <= m
               PROVE  FALSE
    BY <1>1
  <2>1. t * (x + 1) <= t * m
    BY <1>1
  <2>2. QED
    BY <1>1, <2>1
<1>4. QED
  BY <1>1, <1>2, <1>3 DEF x

\* In month m the queue posts the occurrences from the one count to the next.
LEMMA MonthPosts ==
    ASSUME NEW r \in Recurrence, NEW m \in Nat
    PROVE  Cardinality(InMonth(AfterMonths(r, m), m)) = Count(r, m + 1) - Count(r, m)
<1> DEFINE q == AfterMonths(r, m)
           c == Gone(r, m)
           e == Count(r, m)
           f == Count(r, m + 1)
<1>1. /\ r.due \in Int /\ r.freq \in Nat \ {0} /\ r.left \in Int /\ m + 1 \in Nat /\ Month * m \in Nat
      /\ Month * (m + 1) = Month * m + Month /\ Month \in Nat \ {0}
  BY RecurrenceIs, MonthsAre
<1>2. c \in Nat /\ c <= e /\ e <= f /\ Reached(q, m) = f - c
  BY QueueAdvances
<1>3. e \in Nat /\ \A n \in Nat : n < e <=> InTime(r, n) /\ r.due + n * r.freq < Month * m
  BY CountIsPassed
<1>4. f \in Nat /\ \A n \in Nat : n < f <=> InTime(r, n) /\ r.due + n * r.freq < Month * (m + 1)
  BY <1>1, CountIsPassed
<1>5. q.due = r.due + c * r.freq /\ q.freq = r.freq /\ c * r.freq \in Int
  <2>1. c * r.freq \in Int
    BY <1>1, <1>2, Product
  <2>2. q = Placed(r, r.due + c * r.freq, IF r.left < 0 THEN r.left ELSE r.left - c)
    <3>1. q = [r EXCEPT !.due = r.due + c * r.freq, !.left = IF r.left < 0 THEN r.left ELSE r.left - c]
      BY DEF AfterMonths, Recurrence
    <3>2. QED
      BY <3>1, PlacedIs
  <2>3. QED
    BY <2>1, <2>2 DEF Placed
<1> HIDE DEF q, c, e, f
<1>6. InMonth(q, m) = e - c .. f - c - 1
  <2>1. \A k : k \in InMonth(q, m) <=> k \in 0 .. (f - c) - 1 /\ q.due + k * q.freq >= Month * m
    BY <1>2 DEF InMonth
  <2>2. ASSUME NEW k \in 0 .. (f - c) - 1
        PROVE  q.due + k * q.freq >= Month * m <=> c + k >= e
    <3>1. k \in Nat /\ c + k \in Nat /\ c + k < f /\ (c + k) * r.freq = c * r.freq + k * r.freq /\ k * r.freq \in Int
      BY <1>1, <1>2, <1>4, Product
    <3>2. q.due + k * q.freq = r.due + (c + k) * r.freq
      BY <1>1, <1>5, <3>1
    <3>3. InTime(r, c + k)
      BY <1>4, <3>1
    <3>4. c + k < e <=> r.due + (c + k) * r.freq < Month * m
      BY <1>3, <3>1, <3>3
    <3>5. r.due + (c + k) * r.freq \in Int
      BY <1>1, <1>5, <3>1
    <3>6. QED
      BY <1>1, <1>3, <3>1, <3>2, <3>4, <3>5
  <2>3. \A k : k \in e - c .. f - c - 1 <=> k \in 0 .. (f - c) - 1 /\ c + k >= e
    BY <1>2, <1>3, <1>4
  <2>4. QED
    BY <2>1, <2>2, <2>3
<1>7. Cardinality(e - c .. f - c - 1) = f - e
  <2>1. e - c \in Int /\ f - c - 1 \in Int
    BY <1>2, <1>3, <1>4
  <2>2. Cardinality(e - c .. f - c - 1) = IF e - c > f - c - 1 THEN 0 ELSE (f - c - 1) - (e - c) + 1
    BY <2>1, FS_Interval
  <2>3. QED
    BY <1>2, <1>3, <1>4, <2>2
<1>8. QED
  BY <1>6, <1>7 DEF q, e, f

\* The occurrences that a scenario lets happen, up to a month and in one.
Happen(r, s, m) == {n \in 0 .. (Month * m - r.due) : Occurs(r, s, n, m)}

LEMMA HappenGrows ==
    ASSUME NEW r \in Recurrence, NEW s, NEW m \in Nat
    PROVE  /\ IsFiniteSet(Happen(r, s, m)) /\ Cardinality(Happen(r, s, m)) \in Nat
           /\ Cardinality(Happen(r, s, m + 1)) =
                Cardinality(Happen(r, s, m)) + IF Silenced(s, r, m) THEN 0 ELSE Count(r, m + 1) - Count(r, m)
           /\ Happen(r, s, 0) = {}
<1> DEFINE e == Count(r, m)
           f == Count(r, m + 1)
           new == IF Silenced(s, r, m) THEN {} ELSE e .. f - 1
           old == Happen(r, s, m)
<1>1. /\ r.due \in Int /\ r.freq \in Nat \ {0} /\ r.left \in Int /\ m + 1 \in Nat /\ Month * m \in Nat
      /\ Month * (m + 1) = Month * m + Month /\ Month \in Nat \ {0}
  BY RecurrenceIs, MonthsAre
<1>2. e \in Nat /\ f \in Nat /\ e <= f
  BY <1>1, CountIsPassed, QueueAdvances
<1>3. \A n \in Nat : n < e <=> InTime(r, n) /\ r.due + n * r.freq < Month * m
  BY CountIsPassed
<1>4. \A n \in Nat : n < f <=> InTime(r, n) /\ r.due + n * r.freq < Month * (m + 1)
  BY <1>1, CountIsPassed
<1>5. IsFiniteSet(old) /\ Cardinality(old) \in Nat
  <2>1. Month * m - r.due \in Int
    BY <1>1
  <2>2. IsFiniteSet(0 .. (Month * m - r.due))
    BY <2>1, FS_Interval
  <2>3. old \subseteq 0 .. (Month * m - r.due)
    BY DEF Happen
  <2> HIDE DEF old
  <2>4. QED
    BY <2>2, <2>3, FS_Subset, FS_CardinalityType
<1>6. \A n \in Nat : n * r.freq \in Nat /\ n <= n * r.freq
  BY <1>1, Product
<1> HIDE DEF e, f
<1>7. \A n \in old : n \in Nat /\ r.due + n * r.freq < Month * m /\ n < e
  BY <1>1, <1>3 DEF Happen, Occurs, InTime
<1>8. Happen(r, s, m + 1) = old \cup new
  <2>1. ASSUME NEW n \in Happen(r, s, m + 1)
        PROVE  n \in old \cup new
    <3> DEFINE d == r.due + n * r.freq
    <3>1. n \in Nat /\ Occurs(r, s, n, m + 1)
      BY <1>1 DEF Happen
    <3>2. /\ InTime(r, n) /\ 0 <= d /\ d < Month * (m + 1) /\ ~ Silenced(s, r, d \div Month)
          /\ d \in Int
      BY <1>1, <1>6, <3>1 DEF Occurs, InTime
    <3>3. CASE d < Month * m
      <4>1. Occurs(r, s, n, m)
        BY <3>2, <3>3 DEF Occurs, InTime
      <4>2. n \in 0 .. (Month * m - r.due)
        BY <1>1, <1>6, <3>1, <3>3
      <4>3. QED
        BY <4>1, <4>2 DEF Happen
    <3>4. CASE ~ (d < Month * m)
      <4>1. d \div Month = m
        BY <1>1, <3>2, <3>4, InItsMonth
      <4>2. n < f /\ ~ (n < e)
        BY <1>3, <1>4, <3>1, <3>2, <3>4
      <4>3. QED
        BY <1>2, <3>1, <3>2, <4>1, <4>2
    <3>5. QED
      BY <3>3, <3>4
  <2>2. ASSUME NEW n \in old
        PROVE  n \in Happen(r, s, m + 1)
    <3>1. n \in Nat /\ r.due + n * r.freq < Month * m /\ Occurs(r, s, n, m)
      BY <1>7 DEF Happen
    <3>2. r.due + n * r.freq < Month * (m + 1)
      BY <1>1, <1>6, <3>1
    <3>3. n \in 0 .. (Month * (m + 1) - r.due)
      BY <1>1, <1>6, <3>1, <3>2
    <3>4. QED
      BY <3>1, <3>2, <3>3 DEF Happen, Occurs
  <2>3. ASSUME NEW n \in new
        PROVE  n \in Happen(r, s, m + 1)
    <3> DEFINE d == r.due + n * r.freq
    <3>1. n \in Nat /\ n < f /\ ~ (n < e) /\ ~ Silenced(s, r, m)
      BY <1>2, <2>3
    <3>2. InTime(r, n) /\ d < Month * (m + 1) /\ ~ (d < Month * m) /\ d \in Int
      BY <1>1, <1>3, <1>4, <1>6, <3>1
    <3>3. d \div Month = m
      BY <1>1, <3>2, InItsMonth
    <3>4. Occurs(r, s, n, m + 1)
      BY <1>1, <3>1, <3>2, <3>3 DEF Occurs, InTime
    <3>5. n \in 0 .. (Month * (m + 1) - r.due)
      BY <1>1, <1>6, <3>1, <3>2
    <3>6. QED
      BY <3>4, <3>5 DEF Happen
  <2>4. QED
    BY <2>1, <2>2, <2>3
<1>9. /\ IsFiniteSet(new) /\ old \cap new = {}
      /\ Cardinality(new) = IF Silenced(s, r, m) THEN 0 ELSE f - e
  <2>1. IsFiniteSet(e .. f - 1) /\ Cardinality(e .. f - 1) = IF e > f - 1 THEN 0 ELSE (f - 1) - e + 1
    BY <1>2, FS_Interval
  <2>2. Cardinality(e .. f - 1) = f - e
    BY <1>2, <2>1
  <2>3. IsFiniteSet(new) /\ Cardinality(new) = IF Silenced(s, r, m) THEN 0 ELSE f - e
    BY <2>1, <2>2, FS_EmptySet
  <2>4. old \cap new = {}
    BY <1>2, <1>7
  <2>5. QED
    BY <2>3, <2>4
<1>10. Cardinality(old \cup new) = Cardinality(old) + Cardinality(new)
  <2> HIDE DEF old, new
  <2>1. Cardinality(old \cup new) = Cardinality(old) + Cardinality(new) - Cardinality(old \cap new)
    BY <1>5, <1>9, FS_Union
  <2>2. Cardinality(new) \in Nat
    BY <1>9, FS_CardinalityType
  <2>3. Cardinality(old \cap new) = 0
    BY <1>9, FS_EmptySet
  <2>4. QED
    BY <1>5, <2>1, <2>2, <2>3
<1>11. Happen(r, s, 0) = {}
  <2>1. Month * 0 = 0
    BY <1>1
  <2>2. ASSUME NEW n \in Nat
        PROVE  ~ Occurs(r, s, n, 0)
    BY <1>1, <1>6, <2>1 DEF Occurs
  <2>3. QED
    BY <2>1, <2>2 DEF Happen
<1>12. QED
  BY <1>5, <1>8, <1>9, <1>10, <1>11 DEF e, f

-----------------------------------------------------------------------------
(* Sums.                                                                      *)

LEMMA SumOverIs ==
    ASSUME NEW f
    PROVE  SumOver(f) = Sum(f, DOMAIN f)
  BY DEF SumOver, Sum

LEMMA SumOverInt ==
    ASSUME NEW f, IsFiniteSet(DOMAIN f), \A x \in DOMAIN f : f[x] \in Int
    PROVE  SumOver(f) \in Int
  BY SumOverIs, SumOfPart

LEMMA SumOverNone ==
    ASSUME NEW f, DOMAIN f = {}
    PROVE  SumOver(f) = 0
  BY SumOverIs, SumEmpty

LEMMA SumOverOne ==
    ASSUME NEW f, NEW x, DOMAIN f = {x}, f[x] \in Int
    PROVE  SumOver(f) = f[x]
<1>1. IsFiniteSet({x})
  BY FS_Singleton
<1>2. Sum(f, {x}) = f[x] + Sum(f, {x} \ {x})
  BY <1>1, SumRemove
<1>3. Sum(f, {x} \ {x}) = 0
  <2>1. {x} \ {x} = {}
    OBVIOUS
  <2>2. QED
    BY <2>1, SumEmpty
<1>4. QED
  BY <1>2, <1>3, SumOverIs

LEMMA SumOverTwo ==
    ASSUME NEW f, NEW x, NEW y, x # y, DOMAIN f = {x, y}, f[x] \in Int, f[y] \in Int
    PROVE  SumOver(f) = f[x] + f[y]
<1>1. IsFiniteSet({x, y})
  <2>1. IsFiniteSet({x} \cup {y}) /\ {x} \cup {y} = {x, y}
    BY FS_Singleton, FS_AddElement
  <2>2. QED
    BY <2>1
<1>2. Sum(f, {x, y}) = f[x] + Sum(f, {x, y} \ {x})
  BY <1>1, SumRemove
<1>3. {x, y} \ {x} = {y} /\ IsFiniteSet({y}) /\ {y} \ {y} = {}
  BY FS_Singleton
<1>4. Sum(f, {y}) = f[y] + Sum(f, {y} \ {y})
  BY <1>3, SumRemove
<1>5. Sum(f, {}) = 0
  BY SumEmpty
<1>6. SumOver(f) = f[x] + Sum(f, {y}) /\ Sum(f, {y}) = f[y] + 0
  BY <1>2, <1>3, <1>4, <1>5, SumOverIs
<1>7. QED
  BY <1>6

\* What the legs of a series post to an account.
LEMMA PostedIsWeight ==
    ASSUME NEW r \in Recurrence, NEW a
    PROVE  Posted(a, LegsOf(r)) = Weight(r, a) /\ Weight(r, a) \in Int
<1> DEFINE mine == {l \in LegsOf(r) : l.acct = a}
           f == [e \in mine |-> e.amt]
           one == Entry(r.acct, -r.amt)
           two == Entry(r.to, r.amt)
           in == Entry(r.acct, r.amt)
<1>1. r.amt \in Int /\ -r.amt \in Int /\ r.kind \in {"income", "expense", "transfer"}
  BY RecurrenceIs
<1>2. Posted(a, LegsOf(r)) = SumOver(f) /\ DOMAIN f = mine /\ \A e \in mine : f[e] = e.amt
  BY DEF Posted
<1>3. /\ one.acct = r.acct /\ one.amt = -r.amt /\ two.acct = r.to /\ two.amt = r.amt
      /\ in.acct = r.acct /\ in.amt = r.amt
  BY DEF Entry
<1>4. Weight(r, a) \in Int
  BY <1>1 DEF Weight
<1> HIDE DEF f, one, two, in, mine
<1>9. ASSUME NEW e, mine = {e}, e.amt \in Int
      PROVE  SumOver(f) = e.amt
  <2>1. DOMAIN f = {e} /\ f[e] = e.amt
    BY <1>2, <1>9
  <2>2. QED
    BY <1>9, <2>1, SumOverOne
<1>10. ASSUME mine = {}
       PROVE  SumOver(f) = 0
  BY <1>2, <1>10, SumOverNone
<1>5. CASE r.kind = "income"
  <2>1. mine = IF r.acct = a THEN {in} ELSE {}
    BY <1>3, <1>5 DEF LegsOf, in, mine
  <2>2. SumOver(f) = IF r.acct = a THEN r.amt ELSE 0
    BY <1>1, <1>3, <1>9, <1>10, <2>1
  <2>3. QED
    BY <1>1, <1>2, <1>4, <1>5, <2>2 DEF Weight
<1>6. CASE r.kind = "expense"
  <2>1. mine = IF r.acct = a THEN {one} ELSE {}
    BY <1>3, <1>6 DEF LegsOf, one, mine
  <2>2. SumOver(f) = IF r.acct = a THEN -r.amt ELSE 0
    BY <1>1, <1>3, <1>9, <1>10, <2>1
  <2>3. QED
    BY <1>1, <1>2, <1>4, <1>6, <2>2 DEF Weight
<1>7. CASE r.kind = "transfer"
  <2>1. mine = (IF r.acct = a THEN {one} ELSE {}) \cup (IF r.to = a THEN {two} ELSE {})
    BY <1>3, <1>7 DEF LegsOf, one, two, mine
  <2>2. Weight(r, a) = (IF r.acct = a THEN -r.amt ELSE 0) + (IF r.to = a THEN r.amt ELSE 0)
    BY <1>1, <1>7 DEF Weight
  <2>3. SumOver(f) = (IF r.acct = a THEN -r.amt ELSE 0) + (IF r.to = a THEN r.amt ELSE 0)
    <3>1. CASE r.acct = a /\ r.to = a
      <4>1. CASE one = two
        <5>1. r.amt = -r.amt /\ mine = {one}
          BY <1>3, <2>1, <3>1, <4>1
        <5>2. SumOver(f) = -r.amt
          BY <1>1, <1>3, <1>9, <5>1
        <5>3. QED
          BY <1>1, <3>1, <5>1, <5>2
      <4>2. CASE one # two
        <5>1. mine = {one, two}
          BY <2>1, <3>1
        <5>2. SumOver(f) = f[one] + f[two]
          BY <1>1, <1>2, <1>3, <4>2, <5>1, SumOverTwo
        <5>3. QED
          BY <1>1, <1>2, <1>3, <3>1, <5>1, <5>2
      <4>3. QED
        BY <4>1, <4>2
    <3>2. CASE r.acct = a /\ r.to # a
      <4>1. mine = {one}
        BY <2>1, <3>2
      <4>2. QED
        BY <1>1, <1>3, <1>9, <3>2, <4>1
    <3>3. CASE r.acct # a /\ r.to = a
      <4>1. mine = {two}
        BY <2>1, <3>3
      <4>2. QED
        BY <1>1, <1>3, <1>9, <3>3, <4>1
    <3>4. CASE r.acct # a /\ r.to # a
      <4>1. mine = {}
        BY <2>1, <3>4
      <4>2. QED
        BY <1>1, <1>10, <3>4, <4>1
    <3>5. QED
      BY <3>1, <3>2, <3>3, <3>4
  <2>4. QED
    BY <1>2, <1>4, <2>2, <2>3
<1>8. QED
  BY <1>1, <1>5, <1>6, <1>7

\* A sum over what a table names, each name once.
LEMMA SumRenamed ==
    ASSUME NEW R, IsFiniteSet(R), NEW f, \A x \in R : f[x] \in Int,
           NEW to, \A x, y \in R : to[x] = to[y] => x = y,
           NEW g, \A x \in R : g[to[x]] = f[x]
    PROVE  Sum(g, {to[x] : x \in R}) = Sum(f, R)
<1> DEFINE im(s) == {to[x] : x \in s}
           T == {n \in Nat : \A s \in Small(R, n) : IsFiniteSet(im(s)) /\ Sum(g, im(s)) = Sum(f, s)}
<1>1. 0 \in T
  <2>1. \A s \in Small(R, 0) : s = {}
    BY SmallZero
  <2>2. im({}) = {} /\ IsFiniteSet({})
    BY FS_EmptySet
  <2>3. Sum(g, {}) = 0 /\ Sum(f, {}) = 0
    BY SumEmpty
  <2>4. QED
    BY <2>1, <2>2, <2>3
<1>2. ASSUME NEW n \in Nat, n \in T
      PROVE  n + 1 \in T
  <2>1. ASSUME NEW s \in Small(R, n + 1), s # {}
        PROVE  IsFiniteSet(im(s)) /\ Sum(g, im(s)) = Sum(f, s)
    <3> DEFINE z == Pick(s)
               rest == s \ {z}
    <3>1. /\ z \in s /\ z \in R /\ rest \in Small(R, n)
          /\ Sum(f, s) = f[z] + Sum(f, rest) /\ f[z] \in Int /\ Sum(f, rest) \in Int
      BY <2>1, SumRest, ZenonT(40)
    <3>2. IsFiniteSet(im(rest)) /\ Sum(g, im(rest)) = Sum(f, rest)
      BY <1>2, <3>1
    <3>3. s \subseteq R
      BY DEF Small
    <3> HIDE DEF z
    <3>4. im(s) = im(rest) \cup {to[z]} /\ to[z] \notin im(rest)
      BY <3>1, <3>3
    <3>5. IsFiniteSet(im(s)) /\ to[z] \in im(s) /\ im(s) \ {to[z]} = im(rest)
      <4>1. IsFiniteSet(im(rest) \cup {to[z]})
        BY <3>2, FS_AddElement
      <4>2. QED
        BY <3>4, <4>1
    <3>6. \A y \in im(s) : g[y] \in Int
      BY <3>3
    <3>7. Sum(g, im(s)) = g[to[z]] + Sum(g, im(s) \ {to[z]})
      <4> HIDE DEF im
      <4> QED BY <3>5, <3>6, SumRemove
    <3>8. QED
      BY <3>1, <3>2, <3>5, <3>7
  <2>2. ASSUME NEW s \in Small(R, n + 1), s = {}
        PROVE  IsFiniteSet(im(s)) /\ Sum(g, im(s)) = Sum(f, s)
    <3>1. im(s) = {} /\ IsFiniteSet({}) /\ Sum(g, {}) = 0 /\ Sum(f, {}) = 0
      BY <2>2, FS_EmptySet, SumEmpty
    <3>2. QED
      BY <2>2, <3>1
  <2>3. QED
    BY <2>1, <2>2
<1> HIDE DEF T
<1>3. Cardinality(R) \in T
  BY <1>1, <1>2, SizeInduction, FS_CardinalityType
<1>4. R \in Small(R, Cardinality(R))
  BY WholeIsSmall
<1>5. QED
  BY <1>3, <1>4 DEF T

-----------------------------------------------------------------------------
(* One month of a simulation.                                                 *)

Queue(w, m) == {AfterMonths(r, m) : r \in w.series}
Recurred(w, s, a, m) == SumOver([r \in w.series |-> Cardinality(Happen(r, s, m)) * Weight(r, a)])
Happened(s, a, m) == SumOver([k \in 0 .. m - 1 |-> EventsOf(Events(s, k), a)])

LEMMA BooksAre ==
    ASSUME NEW w, BooksOk(w)
    PROVE  /\ w.bal \in [Accounts -> Int] /\ w.history \in [Accounts -> Seq(Int)]
           /\ w.series \subseteq Recurrence /\ IsFiniteSet(w.series)
           /\ \A r, q \in w.series : r.id = q.id => r = q
  BY DEF BooksOk, Books

LEMMA SameSeries ==
    ASSUME NEW r \in Recurrence, NEW m \in Nat
    PROVE  LET q == AfterMonths(r, m)
           IN  /\ q \in Recurrence /\ q.id = r.id /\ q.kind = r.kind /\ q.cat = r.cat
               /\ \A a : Weight(q, a) = Weight(r, a)
               /\ \A s : Silenced(s, q, m) = Silenced(s, r, m)
<1> DEFINE q == AfterMonths(r, m)
           due == r.due + Gone(r, m) * r.freq
           left == IF r.left < 0 THEN r.left ELSE r.left - Gone(r, m)
<1>1. q = [r EXCEPT !.due = due, !.left = left]
  BY DEF AfterMonths, Recurrence
<1>2. q = Placed(r, due, left)
  BY <1>1, PlacedIs
<1>3. q \in Recurrence
  BY QueueAdvances
<1> HIDE DEF q, due, left
<1>4. q.id = r.id /\ q.kind = r.kind /\ q.acct = r.acct /\ q.to = r.to /\ q.amt = r.amt /\ q.cat = r.cat
  BY <1>2 DEF Placed
<1>5. \A a : Weight(q, a) = Weight(r, a)
  BY <1>4 DEF Weight
<1>6. \A s : Silenced(s, q, m) = Silenced(s, r, m)
  BY <1>4 DEF Silenced
<1>7. QED
  BY <1>3, <1>4, <1>5, <1>6 DEF q

LEMMA QueueSteps ==
    ASSUME NEW w, BooksOk(w), NEW m \in Nat, NEW s
    PROVE  {Advanced(s, r, m) : r \in Queue(w, m)} = Queue(w, m + 1)
<1>1. \A r \in w.series : Advanced(s, AfterMonths(r, m), m) = AfterMonths(r, m + 1)
  BY BooksAre, QueueAdvances
<1>2. QED
  BY <1>1 DEF Queue

LEMMA QueueBegins ==
    ASSUME NEW w, BooksOk(w)
    PROVE  Queue(w, 0) = w.series
<1>1. ASSUME NEW r \in w.series
      PROVE  AfterMonths(r, 0) = r
  <2>1. r \in Recurrence /\ r.due \in Int /\ r.freq \in Int /\ r.left \in Int
    BY BooksAre, RecurrenceIs
  <2>2. AfterMonths(r, 0) = [r EXCEPT !.due = r.due, !.left = r.left]
    <3>1. Gone(r, 0) = 0
      BY DEF Gone
    <3>2. r.due + 0 * r.freq = r.due /\ (IF r.left < 0 THEN r.left ELSE r.left - 0) = r.left
      BY <2>1
    <3>3. AfterMonths(r, 0) = [r EXCEPT !.due = r.due + 0 * r.freq, !.left = IF r.left < 0 THEN r.left ELSE r.left - 0]
      BY <2>1, <3>1 DEF AfterMonths, Recurrence
    <3>4. QED
      BY <3>2, <3>3
  <2>3. [r EXCEPT !.due = r.due, !.left = r.left] = r
    BY <2>1 DEF Recurrence
  <2>4. QED
    BY <2>2, <2>3
<1>2. QED
  BY <1>1 DEF Queue

LEMMA RecurredInt ==
    ASSUME NEW w, BooksOk(w), NEW m \in Nat, NEW s, NEW a
    PROVE  Recurred(w, s, a, m) \in Int
<1> DEFINE f == [r \in w.series |-> Cardinality(Happen(r, s, m)) * Weight(r, a)]
<1>1. ASSUME NEW r \in w.series
      PROVE  f[r] \in Int
  <2>1. r \in Recurrence
    BY BooksAre
  <2>2. Cardinality(Happen(r, s, m)) \in Nat /\ Weight(r, a) \in Int
    BY <2>1, HappenGrows, PostedIsWeight
  <2>3. Cardinality(Happen(r, s, m)) * Weight(r, a) \in Int
    BY <2>2, Product
  <2>4. QED
    BY <2>3
<1>2. IsFiniteSet(DOMAIN f) /\ \A r \in DOMAIN f : f[r] \in Int
  BY <1>1, BooksAre
<1> HIDE DEF f
<1>3. SumOver(f) \in Int
  BY <1>2, SumOverInt
<1>4. QED
  BY <1>3 DEF f, Recurred

LEMMA RecurringAdds ==
    ASSUME NEW w, BooksOk(w), NEW m \in Nat, NEW s, NEW a
    PROVE  /\ Recurring(s, Queue(w, m), m, a) \in Int
           /\ Recurred(w, s, a, m + 1) = Recurred(w, s, a, m) + Recurring(s, Queue(w, m), m, a)
<1> DEFINE R == w.series
           to == [r \in R |-> AfterMonths(r, m)]
           few(r) == IF Silenced(s, r, m) THEN 0 ELSE Count(r, m + 1) - Count(r, m)
           f == [r \in R |-> few(r) * Weight(r, a)]
           old == [r \in R |-> Cardinality(Happen(r, s, m)) * Weight(r, a)]
           new == [r \in R |-> Cardinality(Happen(r, s, m + 1)) * Weight(r, a)]
           g == [q \in Queue(w, m) |->
                    IF Silenced(s, q, m) THEN 0 ELSE Cardinality(InMonth(q, m)) * Posted(a, LegsOf(q))]
<1>1. R \subseteq Recurrence /\ IsFiniteSet(R) /\ \A r, q \in R : r.id = q.id => r = q
  BY BooksAre
<1>2. ASSUME NEW r \in R
      PROVE  /\ to[r] \in Queue(w, m) /\ to[r].id = r.id
             /\ g[to[r]] = f[r] /\ f[r] \in Int /\ old[r] \in Int /\ new[r] = old[r] + f[r]
  <2> DEFINE q == AfterMonths(r, m)
             wt == Weight(r, a)
             n == Cardinality(Happen(r, s, m))
  <2>1. r \in Recurrence
    BY <1>1
  <2>2. /\ q \in Recurrence /\ q.id = r.id /\ Weight(q, a) = wt
        /\ Silenced(s, q, m) = Silenced(s, r, m)
    BY <2>1, SameSeries
  <2>3. Posted(a, LegsOf(q)) = wt /\ wt \in Int
    BY <2>1, <2>2, PostedIsWeight
  <2>4. Cardinality(InMonth(q, m)) = Count(r, m + 1) - Count(r, m)
    BY <2>1, MonthPosts
  <2>5. n \in Nat /\ Cardinality(Happen(r, s, m + 1)) = n + few(r)
    BY <2>1, HappenGrows
  <2>6. few(r) \in Int
    <3>0. m + 1 \in Nat
      OBVIOUS
    <3>1. Count(r, m) \in Nat /\ Count(r, m + 1) \in Nat
      BY <2>1, <3>0, CountIsPassed
    <3>2. QED
      BY <3>1
  <2>7. q \in Queue(w, m) /\ to[r] = q
    BY DEF Queue
  <2> HIDE DEF q, wt, n
  <2>8. g[q] = IF Silenced(s, r, m) THEN 0 ELSE (Count(r, m + 1) - Count(r, m)) * wt
    BY <2>2, <2>3, <2>4, <2>7
  <2>9. g[q] = few(r) * wt
    BY <2>3, <2>8
  <2> HIDE DEF few, g
  <2>10. few(r) * wt \in Int /\ n * wt \in Int /\ (n + few(r)) * wt = n * wt + few(r) * wt
    BY <2>3, <2>5, <2>6, Product
  <2>11. f[r] = few(r) * wt /\ old[r] = n * wt /\ new[r] = (n + few(r)) * wt
    BY <2>5 DEF wt, n
  <2>12. to[r].id = r.id /\ to[r] \in Queue(w, m) /\ g[to[r]] = g[q]
    BY <2>2, <2>7
  <2>13. QED
    BY <2>9, <2>10, <2>11, <2>12
<1>3. Queue(w, m) = {to[r] : r \in R} /\ DOMAIN g = Queue(w, m)
  BY DEF Queue
<1>4. ASSUME NEW r \in R, NEW q \in R, to[r] = to[q]
      PROVE  r = q
  <2>1. to[r].id = r.id /\ to[q].id = q.id
    BY <1>2
  <2> HIDE DEF to
  <2>2. r.id = q.id
    BY <1>4, <2>1
  <2>3. QED
    BY <1>1, <2>2
<1>5. DOMAIN old = R /\ DOMAIN new = R
  OBVIOUS
<1>6. /\ Recurred(w, s, a, m) = SumOver(old) /\ Recurred(w, s, a, m + 1) = SumOver(new)
      /\ Recurring(s, Queue(w, m), m, a) = SumOver(g)
  BY DEF Recurred, Recurring
<1> HIDE DEF R, to, f, old, new, g
<1>7. Sum(g, {to[r] : r \in R}) = Sum(f, R)
  BY <1>1, <1>2, <1>4, SumRenamed
<1>8. Sum(new, R) = Sum(old, R) + Sum(f, R)
  BY <1>1, <1>2, SumPlus
<1>9. Sum(f, R) \in Int
  BY <1>1, <1>2, SumOfPart
<1>10. SumOver(g) = Sum(f, R) /\ SumOver(old) = Sum(old, R) /\ SumOver(new) = Sum(new, R)
  BY <1>3, <1>5, <1>7, SumOverIs
<1>11. QED
  BY <1>6, <1>8, <1>9, <1>10

\* The events of a month are amounts, whatever their accounts.
Amounted(evs) == IsFiniteSet(DOMAIN evs) /\ \A i \in DOMAIN evs : evs[i].amt \in Int

LEMMA EventsOfInt ==
    ASSUME NEW evs, Amounted(evs), NEW a
    PROVE  EventsOf(evs, a) \in Int
<1> DEFINE mine == {j \in DOMAIN evs : evs[j].acct = a}
           f == [i \in mine |-> evs[i].amt]
<1>1. IsFiniteSet(mine)
  <2>1. mine \in SUBSET (DOMAIN evs)
    OBVIOUS
  <2> HIDE DEF mine
  <2>2. QED
    BY <2>1, FS_Subset DEF Amounted
<1>2. \A i \in mine : f[i] \in Int
  BY DEF Amounted
<1>3. DOMAIN f = mine
  OBVIOUS
<1>4. EventsOf(evs, a) = SumOver(f)
  BY DEF EventsOf
<1> HIDE DEF f, mine
<1>5. QED
  BY <1>1, <1>2, <1>3, <1>4, SumOverInt

LEMMA OneEvent ==
    ASSUME NEW x, NEW amt \in Int
    PROVE  Amounted(<<Entry(x, amt)>>)
<1>1. DOMAIN <<Entry(x, amt)>> = 1 .. 1 /\ <<Entry(x, amt)>>[1] = Entry(x, amt)
  OBVIOUS
<1>2. Entry(x, amt).amt = amt
  BY DEF Entry
<1>3. IsFiniteSet(1 .. 1) /\ \A i \in 1 .. 1 : i = 1
  <2>1. 1 \in Int /\ \A i \in 1 .. 1 : i = 1
    OBVIOUS
  <2>2. QED
    BY <2>1, FS_Interval
<1>4. QED
  BY <1>1, <1>2, <1>3 DEF Amounted

LEMMA PairOf ==
    ASSUME NEW x, NEW y
    PROVE  LET t == <<x>> \o <<y>>
           IN  DOMAIN t = 1 .. 2 /\ t[1] = x /\ t[2] = y
<1>1. <<x>> \in Seq({x, y}) /\ <<y>> \in Seq({x, y}) /\ Len(<<x>>) = 1 /\ Len(<<y>>) = 1
  OBVIOUS
<1> DEFINE t == <<x>> \o <<y>>
<1>2. /\ t \in Seq({x, y}) /\ Len(t) = 2
      /\ \A i \in 1 .. 2 : t[i] = IF i <= 1 THEN <<x>>[i] ELSE <<y>>[i - 1]
  BY <1>1, ConcatProperties
<1> HIDE DEF t
<1>3. DOMAIN t = 1 .. 2
  BY <1>2, LenProperties
<1>4. t[1] = x /\ t[2] = y
  BY <1>2
<1>5. QED
  BY <1>3, <1>4 DEF t

LEMMA TwoEvents ==
    ASSUME NEW x, NEW y, NEW u \in Int, NEW v \in Int
    PROVE  Amounted(<<Entry(x, u)>> \o <<Entry(y, v)>>)
<1>1. Entry(x, u).amt = u /\ Entry(y, v).amt = v
  BY DEF Entry
<1>2. IsFiniteSet(1 .. 2) /\ \A i \in 1 .. 2 : i = 1 \/ i = 2
  <2>1. 1 \in Int /\ 2 \in Int /\ \A i \in 1 .. 2 : i = 1 \/ i = 2
    OBVIOUS
  <2>2. QED
    BY <2>1, FS_Interval
<1>3. QED
  BY <1>1, <1>2, PairOf DEF Amounted

LEMMA NoEvent == Amounted(<<>>)
<1>1. DOMAIN <<>> = {}
  OBVIOUS
<1>2. QED
  BY <1>1, FS_EmptySet DEF Amounted

LEMMA EventsAmounted ==
    ASSUME NEW s \in Scenarios, NEW m
    PROVE  Amounted(Events(s, m))
<1>1. s.type \in {"trip", "purchase", "retirement", "custom"} /\ ScenarioOk(s)
  BY SimFacts DEF ScenarioTypes
<1>2. CASE s.type = "trip"
  <2>1. -s.lump \in Int
    BY <1>1, <1>2 DEF ScenarioOk
  <2>2. Events(s, m) = <<Entry(s.acct, -s.lump)>> \/ Events(s, m) = <<>>
    BY <1>2 DEF Events
  <2>3. QED
    BY <2>1, <2>2, OneEvent, NoEvent
<1>3. CASE s.type = "purchase"
  <2> DEFINE price == IF s.financed THEN -s.down ELSE -s.price
             first == IF ~ When(s.day, m) THEN <<>> ELSE <<Entry(s.acct, price)>>
             later == IF s.financed /\ s.first \div Month <= m /\ m < s.first \div Month + s.term
                      THEN <<Entry(s.payer, -Amortised(s))>> ELSE <<>>
  <2>1. price \in Int /\ (s.financed => -Amortised(s) \in Int)
    BY <1>1, <1>3 DEF ScenarioOk
  <2>2. Events(s, m) = first \o later
    BY <1>3 DEF Events
  <2>3. first = <<>> \/ first = <<Entry(s.acct, price)>>
    OBVIOUS
  <2>4. later = <<>> \/ (later = <<Entry(s.payer, -Amortised(s))>> /\ -Amortised(s) \in Int)
    BY <2>1
  <2> HIDE DEF price, first, later
  <2>5. /\ <<>> \o <<>> = <<>>
        /\ \A x : <<x>> \o <<>> = <<x>> /\ <<>> \o <<x>> = <<x>>
    OBVIOUS
  <2>6. Amounted(first \o later)
    BY <2>1, <2>3, <2>4, <2>5, OneEvent, TwoEvents, NoEvent
  <2>7. QED
    BY <2>2, <2>6
<1>4. CASE s.type = "retirement"
  <2>1. Events(s, m) = <<>>
    BY <1>4 DEF Events
  <2>2. QED
    BY <2>1, NoEvent
<1>5. CASE s.type = "custom"
  <2> DEFINE due == {i \in DOMAIN s.events : s.events[i].month = m}
  <2>1. Events(s, m) = [k \in due |-> Entry(s.events[k].acct, s.events[k].amt)]
    BY <1>5 DEF Events, OneOffs
  <2>2. s.events \in Seq([month : Nat, acct : {s.events[k].acct : k \in DOMAIN s.events}, amt : Int])
    BY <1>1, <1>5 DEF ScenarioOk
  <2>3. DOMAIN s.events = 1 .. Len(s.events) /\ Len(s.events) \in Nat /\ \A k \in DOMAIN s.events : s.events[k].amt \in Int
    <3> DEFINE names == {s.events[k].acct : k \in DOMAIN s.events}
               evs == s.events
    <3>1. evs \in Seq([month : Nat, acct : names, amt : Int])
      BY <2>2
    <3> HIDE DEF names, evs
    <3>2. DOMAIN evs = 1 .. Len(evs) /\ Len(evs) \in Nat /\ \A k \in DOMAIN evs : evs[k] \in [month : Nat, acct : names, amt : Int]
      BY <3>1, LenProperties, ElementOfSeq
    <3>3. QED
      BY <3>2 DEF evs
  <2>4. IsFiniteSet(DOMAIN s.events)
    BY <2>3, FS_Interval
  <2>5. due \in SUBSET (DOMAIN s.events)
    OBVIOUS
  <2>6. IsFiniteSet(due)
    <3> HIDE DEF due
    <3> QED BY <2>4, <2>5, FS_Subset
  <2>7. \A k \in due : Entry(s.events[k].acct, s.events[k].amt).amt \in Int
    BY <2>3 DEF Entry
  <2> HIDE DEF due
  <2>8. QED
    BY <2>1, <2>6, <2>7 DEF Amounted
<1>6. QED
  BY <1>1, <1>2, <1>3, <1>4, <1>5

LEMMA HappenedAdds ==
    ASSUME NEW s \in Scenarios, NEW a, NEW m \in Nat
    PROVE  /\ Happened(s, a, m) \in Int /\ EventsOf(Events(s, m), a) \in Int
           /\ Happened(s, a, m + 1) = Happened(s, a, m) + EventsOf(Events(s, m), a)
           /\ Happened(s, a, 0) = 0
<1> DEFINE f == [k \in 0 .. m - 1 |-> EventsOf(Events(s, k), a)]
           g == [k \in 0 .. (m + 1) - 1 |-> EventsOf(Events(s, k), a)]
           none == [k \in 0 .. 0 - 1 |-> EventsOf(Events(s, k), a)]
<1>1. \A k : EventsOf(Events(s, k), a) \in Int
  BY EventsAmounted, EventsOfInt
<1>2. /\ DOMAIN f = 0 .. m - 1 /\ DOMAIN g = 0 .. m /\ DOMAIN none = {}
      /\ \A k \in 0 .. m - 1 : f[k] \in Int /\ f[k] = g[k]
      /\ \A k \in 0 .. m : g[k] \in Int
      /\ g[m] = EventsOf(Events(s, m), a)
  BY <1>1
<1>3. Happened(s, a, m) = SumOver(f) /\ Happened(s, a, m + 1) = SumOver(g) /\ Happened(s, a, 0) = SumOver(none)
  BY DEF Happened
<1> HIDE DEF f, g, none
<1>4. IsFiniteSet(0 .. m - 1) /\ IsFiniteSet(0 .. m) /\ (0 .. m) \ {m} = 0 .. m - 1 /\ m \in 0 .. m
  <2>1. 0 \in Int /\ m \in Int /\ m - 1 \in Int
    OBVIOUS
  <2>2. IsFiniteSet(0 .. m - 1) /\ IsFiniteSet(0 .. m)
    BY <2>1, FS_Interval
  <2>3. QED
    BY <2>2
<1>5. Sum(g, 0 .. m) = g[m] + Sum(g, 0 .. m - 1)
  BY <1>2, <1>4, SumRemove
<1>6. Sum(f, 0 .. m - 1) = Sum(g, 0 .. m - 1) /\ Sum(f, 0 .. m - 1) \in Int
  BY <1>2, <1>4, SumEqual
<1>7. SumOver(f) = Sum(f, 0 .. m - 1) /\ SumOver(g) = Sum(g, 0 .. m) /\ SumOver(none) = 0
  BY <1>2, SumOverIs, SumOverNone
<1>8. QED
  BY <1>1, <1>2, <1>3, <1>5, <1>6, <1>7

LEMMA SlopeInt ==
    ASSUME NEW y \in Seq(Int)
    PROVE  Slope(y) \in Int
<1> DEFINE n == Len(y)
           f == [i \in 1 .. n |-> (2 * i - n - 1) * y[i]]
<1>1. n \in Nat /\ \A i \in 1 .. n : y[i] \in Int
  OBVIOUS
<1>2. IsFiniteSet(1 .. n)
  BY <1>1, FS_Interval
<1>3. Slope(y) = IF n < 2 THEN 0 ELSE (6 * SumOver(f)) \div (n * (n * n - 1))
  BY DEF Slope
<1> HIDE DEF n
<1>4. \A i \in 1 .. n : f[i] \in Int
  <2>1. ASSUME NEW i \in 1 .. n
        PROVE  (2 * i - n - 1) * y[i] \in Int
    BY <1>1, Product
  <2>2. QED
    BY <2>1
<1>5. DOMAIN f = 1 .. n
  OBVIOUS
<1> HIDE DEF f
<1>6. SumOver(f) \in Int
  BY <1>2, <1>4, <1>5, SumOverInt
<1>7. CASE n < 2
  BY <1>3, <1>7
<1>8. CASE ~ (n < 2)
  <2>1. n * n \in Int /\ n <= n * n
    BY <1>1, <1>8, Product
  <2>2. n * n - 1 \in Nat \ {0}
    BY <1>1, <1>8, <2>1
  <2>3. n * (n * n - 1) \in Nat /\ n <= n * (n * n - 1)
    BY <1>1, <2>2, Product
  <2>4. n * (n * n - 1) \in Nat \ {0}
    BY <1>1, <1>8, <2>3
  <2>5. \A x \in Int, t \in Nat \ {0} : x \div t \in Int
    OBVIOUS
  <2>6. 6 * SumOver(f) \in Int
    BY <1>6
  <2>7. QED
    BY <1>3, <1>8, <2>4, <2>5, <2>6
<1>9. QED
  BY <1>7, <1>8

LEMMA LargestPlace ==
    ASSUME NEW D, D \subseteq Nat, D # {}, NEW n \in Nat, \A k \in D : k <= n
    PROVE  Max(D) \in D
<1> DEFINE T == {x \in Nat : \E k \in D : k + x = n}
<1>1. PICK k \in D : TRUE
  OBVIOUS
<1>2. n - k \in T
  BY <1>1
<1>3. PICK x \in T : \A y \in T : x <= y
  BY <1>2, Least
<1>4. PICK d \in D : d + x = n
  BY <1>3
<1>5. \A y \in D : y <= d
  <2> SUFFICES ASSUME NEW y \in D
               PROVE  y <= d
    OBVIOUS
  <2>1. n - y \in T
    OBVIOUS
  <2>2. x <= n - y /\ x \in Nat /\ y \in Nat /\ d \in Nat
    BY <1>3, <1>4, <2>1
  <2>3. QED
    BY <1>4, <2>2
<1>6. \E x1 \in D : \A y \in D : x1 >= y
  BY <1>5
<1>7. QED
  BY <1>6 DEF Max

LEMMA ContributionInt ==
    ASSUME NEW s \in Scenarios, s.type = "retirement", NEW m
    PROVE  Contribution(s, m) \in Int /\ s.return \in Int
<1> DEFINE due == {k \in DOMAIN s.curve : s.curve[k].day <= m * Month}
<1>1. s.monthly \in Int /\ s.return \in Int /\ s.curve \in Seq([day : Int, monthly : Int])
  BY SimFacts DEF ScenarioOk
<1>2. /\ DOMAIN s.curve = 1 .. Len(s.curve) /\ Len(s.curve) \in Nat
      /\ \A k \in DOMAIN s.curve : s.curve[k].monthly \in Int
  <2> DEFINE curve == s.curve
  <2> HIDE DEF curve
  <2>1. curve \in Seq([day : Int, monthly : Int])
    BY <1>1 DEF curve
  <2>2. DOMAIN curve = 1 .. Len(curve) /\ Len(curve) \in Nat /\ \A k \in DOMAIN curve : curve[k] \in [day : Int, monthly : Int]
    BY <2>1, LenProperties, ElementOfSeq
  <2>3. QED
    BY <2>2 DEF curve
<1>3. due \subseteq Nat /\ \A k \in due : k <= Len(s.curve) /\ k \in DOMAIN s.curve
  BY <1>2
<1>4. Contribution(s, m) = IF due = {} THEN s.monthly ELSE s.curve[Max(due)].monthly
  BY DEF Contribution
<1> HIDE DEF due
<1>5. due # {} => Max(due) \in due
  BY <1>2, <1>3, LargestPlace
<1>6. QED
  BY <1>1, <1>2, <1>3, <1>4, <1>5

-----------------------------------------------------------------------------
\* What a run knows after its months: typed points, the streaks below zero that
\* the points show, the queue and the balances counted from the books.
RunTyped(run) ==
    /\ run.m \in Nat /\ run.bal \in [Accounts -> Int]
    /\ run.points \in Seq([Accounts -> Int]) /\ Len(run.points) = run.m
    /\ run.alerts \subseteq [acct : Accounts, m : Nat]
    /\ run.streak \in [Accounts -> Nat] /\ run.longest \in [Accounts -> Nat]
Negative(run, k, a) == run.points[k][a] < 0
RunShows(run, a) ==
    /\ run.m > 0 => run.bal[a] = run.points[run.m][a]
    /\ run.streak[a] > 0 <=> run.m > 0 /\ Negative(run, run.m, a)
    /\ run.longest[a] > 1 <=> \E k \in 1 .. run.m - 1 : Negative(run, k, a) /\ Negative(run, k + 1, a)
    /\ a \in run.dipped <=> \E k \in 1 .. run.m : Negative(run, k, a)
Saves(s, a) == s.type = "retirement" /\ s.acct = a
RunCounts(s, w, smooth, run) ==
    /\ run.queue = Queue(w, run.m)
    /\ \A a \in Accounts : ~ Saves(s, a) => run.bal[a] = CountedTo(s, w, smooth, a, run.m)
RunOk(s, w, smooth, run) ==
    /\ RunTyped(run) /\ run.dipped \subseteq Accounts
    /\ \A a \in Accounts : RunShows(run, a)
    /\ RunCounts(s, w, smooth, run)

LEMMA CountedIs ==
    ASSUME NEW w, BooksOk(w), NEW s, NEW smooth \in BOOLEAN, NEW a \in Accounts, NEW m \in Nat
    PROVE  CountedTo(s, w, smooth, a, m) =
               w.bal[a] + Recurred(w, s, a, m) + Happened(s, a, m)
               + (IF smooth THEN m * Slope(w.history[a]) ELSE 0)
  BY DEF CountedTo, Recurred, Happened, Happen

\* What a month adds is what the count adds.
LEMMA CountedAdds ==
    ASSUME NEW s \in Scenarios, NEW w, BooksOk(w), NEW smooth \in BOOLEAN, NEW a \in Accounts, NEW m \in Nat
    PROVE  /\ CountedTo(s, w, smooth, a, m) \in Int
           /\ CountedTo(s, w, smooth, a, m + 1) =
                CountedTo(s, w, smooth, a, m) + Recurring(s, Queue(w, m), m, a) + EventsOf(Events(s, m), a)
                + (IF smooth THEN Slope(w.history[a]) ELSE 0)
           /\ CountedTo(s, w, smooth, a, 0) = w.bal[a]
<1> DEFINE slope == Slope(w.history[a])
           due == Recurring(s, Queue(w, m), m, a)
           event == EventsOf(Events(s, m), a)
<1>1. w.bal[a] \in Int /\ slope \in Int
  BY BooksAre, SlopeInt
<1>2. /\ due \in Int /\ Recurred(w, s, a, m) \in Int
      /\ Recurred(w, s, a, m + 1) = Recurred(w, s, a, m) + due
  BY RecurringAdds, RecurredInt
<1>3. /\ Happened(s, a, m) \in Int /\ event \in Int
      /\ Happened(s, a, m + 1) = Happened(s, a, m) + event /\ Happened(s, a, 0) = 0
  BY HappenedAdds
<1>4. m * slope \in Int /\ (m + 1) * slope = m * slope + slope /\ 0 * slope = 0
  BY <1>1, Product
<1>5. Recurred(w, s, a, 0) = 0
  <2> DEFINE f == [r \in w.series |-> Cardinality(Happen(r, s, 0)) * Weight(r, a)]
  <2>1. ASSUME NEW r \in w.series
        PROVE  f[r] = 0
    <3>1. r \in Recurrence
      BY BooksAre
    <3>2. Happen(r, s, 0) = {} /\ Weight(r, a) \in Int
      BY <3>1, HappenGrows, PostedIsWeight
    <3>3. Cardinality(Happen(r, s, 0)) = 0
      BY <3>2, FS_EmptySet
    <3>4. QED
      BY <3>2, <3>3
  <2>2. DOMAIN f = w.series /\ IsFiniteSet(w.series)
    BY BooksAre
  <2>3. Recurred(w, s, a, 0) = SumOver(f)
    BY DEF Recurred
  <2> HIDE DEF f
  <2>4. QED
    BY <2>1, <2>2, <2>3, SumOverIs, SumZero
<1>6. m + 1 \in Nat /\ 0 \in Nat
  OBVIOUS
<1>7. /\ CountedTo(s, w, smooth, a, m) =
             w.bal[a] + Recurred(w, s, a, m) + Happened(s, a, m) + (IF smooth THEN m * slope ELSE 0)
      /\ CountedTo(s, w, smooth, a, m + 1) =
             w.bal[a] + Recurred(w, s, a, m + 1) + Happened(s, a, m + 1)
             + (IF smooth THEN (m + 1) * slope ELSE 0)
      /\ CountedTo(s, w, smooth, a, 0) =
             w.bal[a] + Recurred(w, s, a, 0) + Happened(s, a, 0) + (IF smooth THEN 0 * slope ELSE 0)
  BY <1>6, CountedIs
<1> DEFINE before == IF smooth THEN m * slope ELSE 0
           more == IF smooth THEN slope ELSE 0
<1>8. /\ before \in Int /\ more \in Int
      /\ (IF smooth THEN (m + 1) * slope ELSE 0) = before + more
      /\ (IF smooth THEN 0 * slope ELSE 0) = 0
  <2> HIDE DEF slope
  <2> QED BY <1>1, <1>4
<1> HIDE DEF slope, due, event, before, more
<1>9. /\ CountedTo(s, w, smooth, a, m) = w.bal[a] + Recurred(w, s, a, m) + Happened(s, a, m) + before
      /\ CountedTo(s, w, smooth, a, m + 1) =
             w.bal[a] + Recurred(w, s, a, m + 1) + Happened(s, a, m + 1) + (before + more)
      /\ CountedTo(s, w, smooth, a, 0) = w.bal[a] + Recurred(w, s, a, 0) + Happened(s, a, 0) + 0
  BY <1>7, <1>8 DEF slope, before
<1>10. /\ CountedTo(s, w, smooth, a, m) \in Int
       /\ CountedTo(s, w, smooth, a, m + 1) = CountedTo(s, w, smooth, a, m) + due + event + more
       /\ CountedTo(s, w, smooth, a, 0) = w.bal[a]
  BY <1>1, <1>2, <1>3, <1>5, <1>8, <1>9
<1>11. QED
  BY <1>10 DEF due, event, more, slope

LEMMA MonthKeeps ==
    ASSUME NEW s \in Scenarios, NEW w, BooksOk(w), NEW smooth \in BOOLEAN, NEW run, RunOk(s, w, smooth, run)
    PROVE  RunOk(s, w, smooth, MonthOf(s, run, w, smooth)) /\ MonthOf(s, run, w, smooth).m = run.m + 1
<1> DEFINE m == run.m
           evs == Events(s, m)
           base == [a \in Accounts |-> run.bal[a] + Recurring(s, run.queue, m, a)]
           after == [a \in Accounts |-> base[a] + EventsOf(evs, a)]
           grown == [a \in Accounts |-> IF Saves(s, a) THEN ((after[a] + Contribution(s, m)) * (10 + s.return)) \div 10 ELSE after[a]]
           bal == [a \in Accounts |-> grown[a] + (IF smooth THEN Slope(w.history[a]) ELSE 0)]
           streak == [a \in Accounts |-> Streak(run.streak[a], bal[a])]
           longest == [a \in Accounts |-> Max({run.longest[a], streak[a]})]
           new == MonthOf(s, run, w, smooth)
<1>1. /\ new.m = m + 1 /\ new.bal = bal /\ new.queue = {Advanced(s, r, m) : r \in run.queue}
      /\ new.points = Append(run.points, bal) /\ new.streak = streak
      /\ new.longest = longest
      /\ new.dipped = run.dipped \union {a \in Accounts : bal[a] < 0}
      /\ new.alerts = run.alerts \union
                    {[acct |-> a, m |-> m] : a \in {b \in Accounts : \E i \in DOMAIN evs :
                        evs[i].acct = b /\ base[b] + EventsOf(UpTo(evs, i), b) < 0}}
  BY DEF MonthOf, Saves
<1>2. /\ m \in Nat /\ run.bal \in [Accounts -> Int] /\ run.points \in Seq([Accounts -> Int])
      /\ Len(run.points) = m /\ run.queue = Queue(w, m) /\ run.alerts \subseteq [acct : Accounts, m : Nat]
      /\ run.streak \in [Accounts -> Nat] /\ run.longest \in [Accounts -> Nat] /\ run.dipped \subseteq Accounts
  BY DEF RunOk, RunTyped, RunCounts
<1>3. ASSUME NEW a \in Accounts
      PROVE  /\ after[a] \in Int /\ after[a] = run.bal[a] + Recurring(s, Queue(w, m), m, a) + EventsOf(evs, a)
             /\ Slope(w.history[a]) \in Int
  <2>1. /\ Recurring(s, Queue(w, m), m, a) \in Int /\ EventsOf(evs, a) \in Int
        /\ Slope(w.history[a]) \in Int /\ run.bal[a] \in Int
    BY <1>2, RecurringAdds, HappenedAdds, SlopeInt, BooksAre
  <2>2. base[a] = run.bal[a] + Recurring(s, Queue(w, m), m, a)
    BY <1>2
  <2> HIDE DEF base, evs, m
  <2>3. after[a] = base[a] + EventsOf(evs, a)
    OBVIOUS
  <2>4. QED
    BY <2>1, <2>2, <2>3
<1> HIDE DEF base, after
<1>4. ASSUME NEW a \in Accounts
      PROVE  grown[a] \in Int /\ (~ Saves(s, a) => grown[a] = after[a])
  <2>1. CASE Saves(s, a)
    <3>1. Contribution(s, m) \in Int /\ s.return \in Int
      BY <2>1, ContributionInt DEF Saves
    <3> DEFINE x == after[a] + Contribution(s, m)
               y == 10 + s.return
    <3>2. x \in Int /\ y \in Int
      BY <1>3, <3>1
    <3>3. grown[a] = (x * y) \div 10
      BY <2>1
    <3> HIDE DEF x, y, grown
    <3>4. (x * y) \div 10 \in Int
      <4>1. x * y \in Int
        BY <3>2, Product
      <4>2. \A z \in Int : z \div 10 \in Int
        OBVIOUS
      <4>3. QED
        BY <4>1, <4>2
    <3>5. QED
      BY <2>1, <3>3, <3>4
  <2>2. CASE ~ Saves(s, a)
    BY <1>3, <2>2
  <2>3. QED
    BY <2>1, <2>2
<1>5. ASSUME NEW a \in Accounts
      PROVE  /\ bal[a] \in Int
             /\ ~ Saves(s, a) => bal[a] = after[a] + (IF smooth THEN Slope(w.history[a]) ELSE 0)
  <2> HIDE DEF grown
  <2>1. bal[a] = grown[a] + (IF smooth THEN Slope(w.history[a]) ELSE 0)
    OBVIOUS
  <2>2. QED
    BY <1>3, <1>4, <2>1
<1>6. bal \in [Accounts -> Int]
  BY <1>5
<1> HIDE DEF grown, bal
<1>7. ASSUME NEW a \in Accounts
      PROVE  /\ streak[a] = IF bal[a] < 0 THEN run.streak[a] + 1 ELSE 0
             /\ streak[a] \in Nat /\ longest[a] \in Nat
             /\ longest[a] > 1 <=> run.longest[a] > 1 \/ streak[a] > 1
  <2>1. streak[a] = IF bal[a] < 0 THEN run.streak[a] + 1 ELSE 0
    BY DEF Streak
  <2>2. run.streak[a] \in Nat /\ run.longest[a] \in Nat /\ streak[a] \in Nat
    BY <1>2, <2>1
  <2> DEFINE x == run.longest[a]
             y == streak[a]
  <2>3. longest[a] = Max({x, y})
    OBVIOUS
  <2> HIDE DEF x, y
  <2>4. x \in Nat /\ y \in Nat
    BY <2>2 DEF x, y
  <2>5. Max({x, y}) \in {x, y} /\ Max({x, y}) >= x /\ Max({x, y}) >= y
    BY <2>4 DEF Max
  <2>6. longest[a] \in Nat /\ (longest[a] > 1 <=> x > 1 \/ y > 1)
    BY <2>3, <2>4, <2>5
  <2>7. QED
    BY <2>1, <2>2, <2>6 DEF x, y
<1> HIDE DEF streak, longest
<1>8. /\ new.points \in Seq([Accounts -> Int]) /\ Len(new.points) = m + 1
      /\ \A k \in 1 .. m : new.points[k] = run.points[k]
      /\ new.points[m + 1] = bal
  BY <1>1, <1>2, <1>6, AppendProperties
<1>9. RunTyped(new)
  <2>1. new.alerts \subseteq [acct : Accounts, m : Nat]
    <3>1. \A a \in Accounts : [acct |-> a, m |-> m] \in [acct : Accounts, m : Nat]
      BY <1>2
    <3>2. QED
      BY <1>1, <1>2, <3>1
  <2>2. new.streak \in [Accounts -> Nat] /\ new.longest \in [Accounts -> Nat]
    <3>1. streak \in [Accounts -> Nat] /\ longest \in [Accounts -> Nat]
      BY <1>7 DEF streak, longest
    <3>2. QED
      BY <1>1, <3>1
  <2>3. new.m \in Nat /\ new.bal \in [Accounts -> Int] /\ Len(new.points) = new.m
    BY <1>1, <1>2, <1>6, <1>8
  <2>4. QED
    BY <1>8, <2>1, <2>2, <2>3 DEF RunTyped
<1> HIDE DEF new
<1>10. ASSUME NEW a \in Accounts
       PROVE  RunShows(new, a)
  <2>1. RunShows(run, a)
    BY DEF RunOk
  <2>2. /\ Negative(new, m + 1, a) <=> bal[a] < 0
        /\ \A k \in 1 .. m : Negative(new, k, a) <=> Negative(run, k, a)
    BY <1>2, <1>8 DEF Negative
  <2>3. new.bal[a] = new.points[new.m][a]
    BY <1>1, <1>8
  <2>4. new.streak[a] > 0 <=> Negative(new, new.m, a)
    <3>1. run.streak[a] \in Nat
      BY <1>2
    <3>2. QED
      BY <1>1, <1>7, <2>2, <3>1
  <2>5. new.longest[a] > 1 <=> \E k \in 1 .. new.m - 1 : Negative(new, k, a) /\ Negative(new, k + 1, a)
    <3>1. run.streak[a] \in Nat /\ run.longest[a] \in Nat
      BY <1>2
    <3>2. streak[a] > 1 <=> bal[a] < 0 /\ run.streak[a] > 0
      BY <1>7, <3>1
    <3>3. streak[a] > 1 <=> m > 0 /\ Negative(new, m, a) /\ Negative(new, m + 1, a)
      <4>1. run.streak[a] > 0 <=> m > 0 /\ Negative(run, m, a)
        BY <2>1 DEF RunShows
      <4>2. m > 0 => m \in 1 .. m
        BY <1>2
      <4>3. QED
        BY <2>2, <3>2, <4>1, <4>2
    <3>4. run.longest[a] > 1 <=> \E k \in 1 .. m - 1 : Negative(new, k, a) /\ Negative(new, k + 1, a)
      <4>1. run.longest[a] > 1 <=> \E k \in 1 .. m - 1 : Negative(run, k, a) /\ Negative(run, k + 1, a)
        BY <2>1 DEF RunShows
      <4>2. \A k \in 1 .. m - 1 : k \in 1 .. m /\ k + 1 \in 1 .. m
        BY <1>2
      <4>3. QED
        BY <2>2, <4>1, <4>2
    <3>5. new.longest[a] > 1 <=> run.longest[a] > 1 \/ streak[a] > 1
      BY <1>1, <1>7
    <3>6. (\E k \in 1 .. m : Negative(new, k, a) /\ Negative(new, k + 1, a)) <=>
              \/ \E k \in 1 .. m - 1 : Negative(new, k, a) /\ Negative(new, k + 1, a)
              \/ m > 0 /\ Negative(new, m, a) /\ Negative(new, m + 1, a)
      <4>1. \A k : k \in 1 .. m <=> k \in 1 .. m - 1 \/ (m > 0 /\ k = m)
        BY <1>2
      <4>2. QED
        BY <4>1
    <3>7. new.m - 1 = m
      BY <1>1, <1>2
    <3>8. QED
      BY <3>3, <3>4, <3>5, <3>6, <3>7
  <2>6. a \in new.dipped <=> \E k \in 1 .. new.m : Negative(new, k, a)
    <3>1. a \in new.dipped <=> a \in run.dipped \/ bal[a] < 0
      BY <1>1
    <3>2. a \in run.dipped <=> \E k \in 1 .. m : Negative(run, k, a)
      BY <2>1 DEF RunShows
    <3>3. \A k : k \in 1 .. m + 1 <=> k \in 1 .. m \/ k = m + 1
      BY <1>2
    <3>4. QED
      BY <1>1, <2>2, <3>1, <3>2, <3>3
  <2>7. new.m > 0
    BY <1>1, <1>2
  <2>8. QED
    BY <2>3, <2>4, <2>5, <2>6, <2>7 DEF RunShows
<1>11. RunCounts(s, w, smooth, new)
  <2>1. new.queue = Queue(w, m + 1)
    <3>1. m \in Nat /\ run.queue = Queue(w, m) /\ new.queue = {Advanced(s, r, m) : r \in run.queue}
      BY <1>1, <1>2
    <3> HIDE DEF m, new
    <3>2. {Advanced(s, r, m) : r \in Queue(w, m)} = Queue(w, m + 1)
      BY <3>1, QueueSteps, Zenon
    <3>3. QED
      BY <3>1, <3>2
  <2>2. ASSUME NEW a \in Accounts, ~ Saves(s, a)
        PROVE  new.bal[a] = CountedTo(s, w, smooth, a, m + 1)
    <3>1. run.bal[a] = CountedTo(s, w, smooth, a, m)
      BY <2>2 DEF RunOk, RunCounts
    <3>2. CountedTo(s, w, smooth, a, m + 1) =
             CountedTo(s, w, smooth, a, m) + Recurring(s, Queue(w, m), m, a) + EventsOf(Events(s, m), a)
             + (IF smooth THEN Slope(w.history[a]) ELSE 0)
      <4>1. m \in Nat
        BY <1>2
      <4> HIDE DEF m
      <4>2. QED
        BY <4>1, CountedAdds
    <3>3. new.bal[a] = after[a] + (IF smooth THEN Slope(w.history[a]) ELSE 0)
      BY <1>1, <1>5, <2>2
    <3>4. QED
      BY <1>3, <3>1, <3>2, <3>3
  <2>3. QED
    BY <1>1, <2>1, <2>2 DEF RunCounts
<1>12. new.dipped \subseteq Accounts
  BY <1>1, <1>2
<1>13. QED
  BY <1>1, <1>9, <1>10, <1>11, <1>12 DEF RunOk, new

LEMMA FreshOk ==
    ASSUME NEW s \in Scenarios, NEW w, BooksOk(w), NEW smooth \in BOOLEAN, NEW last
    PROVE  RunOk(s, w, smooth, Fresh(w, last)) /\ Fresh(w, last).m = 0
<1> DEFINE run == Fresh(w, last)
<1>1. /\ run.m = 0 /\ run.bal = w.bal /\ run.queue = w.series /\ run.points = <<>> /\ run.alerts = {}
      /\ run.streak = [a \in Accounts |-> 0] /\ run.longest = [a \in Accounts |-> 0] /\ run.dipped = {}
  BY DEF Fresh
<1> HIDE DEF run
<1>2. RunTyped(run)
  <2>1. w.bal \in [Accounts -> Int]
    BY BooksAre
  <2>2. <<>> \in Seq([Accounts -> Int]) /\ Len(<<>>) = 0
    OBVIOUS
  <2>3. QED
    BY <1>1, <2>1, <2>2 DEF RunTyped
<1>3. ASSUME NEW a \in Accounts
      PROVE  RunShows(run, a)
  BY <1>1 DEF RunShows
<1>4. RunCounts(s, w, smooth, run)
  <2>1. Queue(w, 0) = w.series
    BY QueueBegins
  <2>2. \A a \in Accounts : CountedTo(s, w, smooth, a, 0) = w.bal[a]
    BY CountedAdds
  <2>3. QED
    BY <1>1, <2>1, <2>2 DEF RunCounts
<1>5. QED
  BY <1>1, <1>2, <1>3, <1>4 DEF RunOk, run

LEMMA VerdictIsColour ==
    ASSUME NEW s, NEW w, NEW run
    PROVE  Verdict(s, w, run) \in {"green", "yellow", "red"}
<1>1. GeneralVerdict(w, run) \in {"green", "yellow", "red"}
  BY Zenon DEF GeneralVerdict
<1>2. RetirementVerdict(s, run) \in {"green", "yellow", "red"}
  BY Zenon DEF RetirementVerdict
<1>3. QED
  BY <1>1, <1>2 DEF Verdict

LEMMA ResultTyped ==
    ASSUME NEW task, NEW run, RunTyped(run), NEW w
    PROVE  Result(task, run, w) \in ProjectionResult
<1> DEFINE colour == Verdict(task.params, w, run)
           hint == Suggestion(task.params, colour, run)
<1>1. colour \in {"green", "yellow", "red"}
  BY VerdictIsColour
<1>2. hint \in {"none", "later_or_cheaper", "larger_down_or_longer", "save_more"}
  <2> HIDE DEF colour
  <2> QED BY Zenon DEF Suggestion
<1>3. Result(task, run, w) =
        [type |-> "result", points |-> run.points, verdict |-> colour, alerts |-> run.alerts, suggestion |-> hint]
  BY DEF Result
<1> HIDE DEF colour, hint
<1>4. QED
  BY <1>1, <1>2, <1>3 DEF RunTyped, ProjectionResult

\* The verdict of a finished run is what its points show.
LEMMA VerdictShown ==
    ASSUME NEW s, NEW w, BooksOk(w), NEW smooth, NEW run, RunOk(s, w, smooth, run), run.m > 0
    PROVE  LET pts == run.points
               Neg(k, a) == pts[k][a] < 0
               Extended == \E a \in Accounts, k \in 1 .. Len(pts) - 1 : Neg(k, a) /\ Neg(k + 1, a)
               Some == \E a \in Accounts, k \in DOMAIN pts : Neg(k, a)
               Left(percent) == SumOver(w.bal) <= 0 \/ 100 * SumOver(pts[Len(pts)]) >= percent * SumOver(w.bal)
           IN  GeneralVerdict(w, run) =
                 (IF Extended \/ ~ Left(50) THEN "red" ELSE IF Some \/ ~ Left(80) THEN "yellow" ELSE "green")
<1> DEFINE pts == run.points
           Neg(k, a) == pts[k][a] < 0
           Extended == \E a \in Accounts, k \in 1 .. Len(pts) - 1 : Neg(k, a) /\ Neg(k + 1, a)
           Some == \E a \in Accounts, k \in DOMAIN pts : Neg(k, a)
           first == SumOver(w.bal)
           now == SumOver(run.bal)
           Under(percent) == first > 0 /\ 100 * now < percent * first
           Left(percent) == first <= 0 \/ 100 * SumOver(pts[Len(pts)]) >= percent * first
<1>1. /\ RunTyped(run) /\ run.dipped \subseteq Accounts /\ \A a \in Accounts : RunShows(run, a)
      /\ run.m \in Nat /\ Len(pts) = run.m /\ pts \in Seq([Accounts -> Int]) /\ run.bal \in [Accounts -> Int]
  BY DEF RunOk, RunTyped
<1>2. DOMAIN pts = 1 .. run.m /\ \A k \in 1 .. run.m : pts[k] \in [Accounts -> Int]
  BY <1>1, LenProperties, ElementOfSeq
<1>3. pts[Len(pts)] = run.bal
  <2>1. run.m \in 1 .. run.m
    BY <1>1
  <2>2. pts[run.m] \in [Accounts -> Int] /\ \A a \in Accounts : run.bal[a] = pts[run.m][a]
    BY <1>1, <1>2, <2>1 DEF RunShows
  <2>3. QED
    BY <1>1, <2>2
<1>4. Extended <=> \E a \in Accounts : run.longest[a] > 1
  BY <1>1 DEF RunShows, Negative
<1>5. Some <=> run.dipped # {}
  <2>1. \A a \in Accounts : a \in run.dipped <=> \E k \in 1 .. run.m : Neg(k, a)
    BY <1>1 DEF RunShows, Negative
  <2>2. QED
    BY <1>1, <1>2, <2>1
<1>6. first \in Int /\ now \in Int
  <2>1. \A f \in [Accounts -> Int] : DOMAIN f = Accounts /\ \A a \in Accounts : f[a] \in Int
    OBVIOUS
  <2>2. w.bal \in [Accounts -> Int] /\ IsFiniteSet(Accounts)
    BY BooksAre, SimFacts
  <2>3. QED
    BY <1>1, <2>1, <2>2, SumOverInt
<1>7. Under(50) <=> ~ Left(50)
  <2> HIDE DEF first, now
  <2>1. SumOver(pts[Len(pts)]) = now
    BY <1>3 DEF now
  <2>2. QED
    BY <1>6, <2>1
<1>8. Under(80) <=> ~ Left(80)
  <2> HIDE DEF first, now
  <2>1. SumOver(pts[Len(pts)]) = now
    BY <1>3 DEF now
  <2>2. QED
    BY <1>6, <2>1
<1> DEFINE red == (\E a \in Accounts : run.longest[a] > 1) \/ Under(50)
           yellow == run.dipped # {} \/ Under(80)
<1>9. (Extended \/ ~ Left(50) <=> red) /\ (Some \/ ~ Left(80) <=> yellow)
  BY <1>4, <1>5, <1>7, <1>8
<1>10. GeneralVerdict(w, run) = IF red THEN "red" ELSE IF yellow THEN "yellow" ELSE "green"
  BY DEF GeneralVerdict
<1> HIDE DEF red, yellow, Extended, Some, Left
<1>11. GeneralVerdict(w, run) =
         (IF Extended \/ ~ Left(50) THEN "red" ELSE IF Some \/ ~ Left(80) THEN "yellow" ELSE "green")
  BY <1>9, <1>10
<1>12. QED
  BY <1>11 DEF Extended, Some, Left
-----------------------------------------------------------------------------
(* Scenarios: steps.                                                          *)

\* A saved plan is within the horizon of its type, a running job works on
\* scenarios from books as they were and its run is what those books say.
PlanOk(q) ==
    \/ q = Absent
    \/ /\ q \in [type : ScenarioTypes, params : Scenarios, horizon : Nat \ {0}]
       /\ q.type = q.params.type /\ Within(q.params, q.horizon)
Tasks == [plan : Plans, params : Scenarios, horizon : Nat \ {0}]
JobOk(j) ==
    \/ j = Idle
    \/ /\ j = [todo |-> j.todo, save |-> j.save, smooth |-> j.smooth,
               world |-> j.world, run |-> j.run, done |-> j.done]
       /\ j.todo \in Seq(Tasks) /\ j.todo # <<>> /\ j.smooth \in BOOLEAN /\ BooksOk(j.world)
       /\ RunOk(Head(j.todo).params, j.world, j.smooth, j.run)
       /\ j.run.m <= Head(j.todo).horizon

\* The inductive invariant of scenarios.
SimInv ==
    /\ BooksOk(books)
    /\ plans = [p \in Plans |-> plans[p]] /\ \A p \in Plans : PlanOk(plans[p])
    /\ shown = [p \in Plans |-> shown[p]]
    /\ \A p \in Plans : shown[p] = Absent \/ shown[p] \in ProjectionResult
    /\ JobOk(job)

LEMMA HeadOfTasks ==
    ASSUME NEW todo \in Seq(Tasks), todo # <<>>
    PROVE  /\ Head(todo) \in Tasks /\ Head(todo).plan \in Plans
           /\ Head(todo).params \in Scenarios /\ Head(todo).horizon \in Nat \ {0}
<1>1. Head(todo) \in Tasks
  BY HeadTailProperties
<1>2. QED
  BY <1>1 DEF Tasks

LEMMA SavedIs ==
    ASSUME NEW q, PlanOk(q), q # Absent
    PROVE  q.type \in ScenarioTypes /\ q.params \in Scenarios /\ q.horizon \in Nat \ {0}
           /\ q = [type |-> q.type, params |-> q.params, horizon |-> q.horizon]
           /\ q.type = q.params.type /\ Within(q.params, q.horizon)
  BY DEF PlanOk

LEMMA SavedMade ==
    ASSUME NEW s \in Scenarios, NEW h \in Nat \ {0}, Within(s, h)
    PROVE  PlanOk([type |-> s.type, params |-> s, horizon |-> h])
<1>1. s.type \in ScenarioTypes
  BY SimFacts
<1>2. QED
  BY <1>1 DEF PlanOk

LEMMA SimBegins ==
    ASSUME Init
    PROVE  SimInv
<1>1. BooksOk(books) /\ JobOk(job)
  BY SimFacts DEF Init, JobOk
<1>2. PICK s \in Scenarios :
        plans = [p \in Plans |-> IF p # First THEN Absent
                                 ELSE [type |-> s.type, params |-> s, horizon |-> HorizonMax[s.type]]]
  BY DEF Init
<1>3. PlanOk([type |-> s.type, params |-> s, horizon |-> HorizonMax[s.type]])
  <2>1. HorizonMax[s.type] \in Nat \ {0}
    BY SimFacts
  <2>2. Within(s, HorizonMax[s.type])
    BY <2>1 DEF Within
  <2>3. QED
    BY <2>1, <2>2, SavedMade
<1>4. PlanOk(Absent)
  BY DEF PlanOk
<1>5. plans = [p \in Plans |-> plans[p]] /\ \A p \in Plans : PlanOk(plans[p])
  BY <1>2, <1>3, <1>4
<1>6. shown = [p \in Plans |-> shown[p]] /\ \A p \in Plans : shown[p] = Absent
  BY DEF Init
<1>7. QED
  BY <1>1, <1>5, <1>6 DEF SimInv

LEMMA SimHolds ==
    ASSUME SimInv
    PROVE  SimTypeOK /\ EndsAsCounted /\ VerdictFollowsPoints
<1>1. \A r \in books.series : r.left >= -1
  BY BooksAre, RecurrenceIs DEF SimInv
<1>2. \A p \in Plans : shown[p] = Absent \/ shown[p] \in ProjectionResult
  BY DEF SimInv
<1>3. \A p \in Plans : plans[p] # Absent => Within(plans[p].params, plans[p].horizon)
  BY SavedIs DEF SimInv
<1>4. CASE job.todo = <<>>
  BY <1>1, <1>2, <1>3, <1>4 DEF SimTypeOK, EndsAsCounted, VerdictFollowsPoints
<1>5. CASE job.todo # <<>>
  <2> DEFINE s == Head(job.todo).params
             w == job.world
             run == job.run
             h == Head(job.todo).horizon
  <2>1. /\ job.todo \in Seq(Tasks) /\ job.smooth \in BOOLEAN /\ BooksOk(w)
        /\ RunOk(s, w, job.smooth, run) /\ run.m <= h
    BY <1>5 DEF SimInv, JobOk, Idle
  <2>2. s \in Scenarios /\ h \in Nat \ {0}
    BY <1>5, <2>1, HeadOfTasks
  <2>3. run.m \in Nat /\ Len(run.points) = run.m /\ run.queue = Queue(w, run.m)
        /\ \A a \in Accounts : ~ Saves(s, a) => run.bal[a] = CountedTo(s, w, job.smooth, a, run.m)
    BY <2>1 DEF RunOk, RunTyped, RunCounts
  <2>4. \A r \in run.queue : r.left >= -1
    BY <2>1, <2>3, BooksAre, SameSeries, RecurrenceIs DEF Queue
  <2>5. SimTypeOK
    BY <1>1, <1>2, <1>3, <2>1, <2>3, <2>4 DEF SimTypeOK
  <2>6. EndsAsCounted
    BY <2>3 DEF EndsAsCounted, Saves
  <2>7. VerdictFollowsPoints
    <3>1. SUFFICES ASSUME run.m = h
                   PROVE  VerdictFollowsPoints
      BY DEF VerdictFollowsPoints
    <3>2. run.m > 0
      BY <2>2, <3>1
    <3>3. QED
      BY <2>1, <3>2, VerdictShown DEF VerdictFollowsPoints
  <2>8. QED
    BY <2>5, <2>6, <2>7
<1>6. QED
  BY <1>4, <1>5

LEMMA CreateKeeps ==
    ASSUME SimInv, NEW p \in Plans, Create(p)
    PROVE  SimInv'
<1>1. PICK s \in Scenarios, h \in Horizons :
        Within(s, h) /\ plans' = [plans EXCEPT ![p] = [type |-> s.type, params |-> s, horizon |-> h]]
  BY DEF Create
<1>2. shown' = [shown EXCEPT ![p] = Absent] /\ books' = books /\ job' = job
  BY DEF Create
<1>3. PlanOk([type |-> s.type, params |-> s, horizon |-> h])
  BY <1>1, SimFacts, SavedMade
<1>4. plans' = [q \in Plans |-> plans'[q]] /\ \A q \in Plans : PlanOk(plans'[q])
  BY <1>1, <1>3 DEF SimInv
<1>5. shown' = [q \in Plans |-> shown'[q]] /\ \A q \in Plans : shown'[q] = Absent \/ shown'[q] \in ProjectionResult
  BY <1>2 DEF SimInv
<1>6. QED
  BY <1>2, <1>4, <1>5 DEF SimInv

LEMMA UpdateKeeps ==
    ASSUME SimInv, NEW p \in Plans, Update(p)
    PROVE  SimInv'
<1>1. PICK h \in Horizons, s \in Scenarios \union {plans[p].params} :
        /\ Within(plans[p].params, h)
        /\ s # plans[p].params => s.type = plans[p].type
        /\ plans' = [plans EXCEPT ![p].params = s, ![p].horizon = h]
  BY DEF Update
<1>2. plans[p] # Absent /\ shown' = shown /\ books' = books /\ job' = job
  BY DEF Update
<1>3. /\ plans[p] = [type |-> plans[p].type, params |-> plans[p].params, horizon |-> plans[p].horizon]
      /\ plans[p].params \in Scenarios /\ plans[p].type = plans[p].params.type /\ PlanOk(plans[p])
  BY <1>2, SavedIs DEF SimInv
<1>4. s \in Scenarios /\ s.type = plans[p].type /\ h \in Nat \ {0}
  BY <1>1, <1>3, SimFacts
<1>5. PlanOk([type |-> s.type, params |-> s, horizon |-> h])
  BY <1>1, <1>3, <1>4, SavedMade DEF Within
<1>6. [plans[p] EXCEPT !.params = s, !.horizon = h] = [type |-> s.type, params |-> s, horizon |-> h]
  <2> DEFINE one == [plans[p] EXCEPT !.params = s]
  <2>1. one = [type |-> s.type, params |-> s, horizon |-> plans[p].horizon]
    BY <1>3, <1>4
  <2>2. [plans[p] EXCEPT !.params = s, !.horizon = h] = [one EXCEPT !.horizon = h]
    OBVIOUS
  <2> HIDE DEF one
  <2>3. [one EXCEPT !.horizon = h] = [type |-> s.type, params |-> s, horizon |-> h]
    BY <2>1
  <2>4. QED
    BY <2>2, <2>3
<1>7. \A q \in Plans : plans'[q] = IF q = p THEN [type |-> s.type, params |-> s, horizon |-> h] ELSE plans[q]
  BY <1>1, <1>6 DEF SimInv
<1>8. plans' = [q \in Plans |-> plans'[q]]
  BY <1>1 DEF SimInv
<1>9. \A q \in Plans : PlanOk(plans'[q])
  BY <1>5, <1>7 DEF SimInv
<1>10. QED
  BY <1>2, <1>8, <1>9 DEF SimInv

LEMMA DeleteKeeps ==
    ASSUME SimInv, NEW p \in Plans, Delete(p)
    PROVE  SimInv'
<1>1. /\ plans' = [plans EXCEPT ![p] = Absent] /\ shown' = [shown EXCEPT ![p] = Absent]
      /\ books' = books /\ job' = job
  BY DEF Delete
<1>2. plans' = [q \in Plans |-> plans'[q]] /\ \A q \in Plans : PlanOk(plans'[q])
  BY <1>1 DEF SimInv, PlanOk
<1>3. shown' = [q \in Plans |-> shown'[q]] /\ \A q \in Plans : shown'[q] = Absent \/ shown'[q] \in ProjectionResult
  BY <1>1 DEF SimInv
<1>4. QED
  BY <1>1, <1>2, <1>3 DEF SimInv

LEMMA GenerateKeeps ==
    ASSUME SimInv, NEW r \in books.series, Generate(r)
    PROVE  SimInv'
<1> DEFINE left == IF r.left < 0 THEN r.left ELSE r.left - 1
           q == Placed(r, r.due + r.freq, left)
<1>1. /\ r.left # 0 /\ plans' = plans /\ shown' = shown /\ job' = job
      /\ books' = [books EXCEPT !.series = (@ \ {r}) \union
                      {[r EXCEPT !.due = @ + r.freq, !.left = IF @ < 0 THEN @ ELSE @ - 1]},
                    !.bal = [a \in Accounts |-> @[a] + Posted(a, LegsOf(r))]]
  BY DEF Generate
<1>2. BooksOk(books) /\ r \in Recurrence
  BY BooksAre DEF SimInv
<1>3. r.due \in Int /\ r.freq \in Nat \ {0} /\ r.left \in Int /\ r.left >= -1
  BY <1>2, RecurrenceIs
<1>4. [r EXCEPT !.due = @ + r.freq, !.left = IF @ < 0 THEN @ ELSE @ - 1] = q
  <2>1. [r EXCEPT !.due = @ + r.freq, !.left = IF @ < 0 THEN @ ELSE @ - 1] =
        [r EXCEPT !.due = r.due + r.freq, !.left = left]
    BY <1>2 DEF Recurrence
  <2>2. QED
    BY <1>2, <2>1, PlacedIs
<1>5. q \in Recurrence /\ q.id = r.id
  <2>1. r.due + r.freq \in Int /\ left \in Nat \union {-1}
    BY <1>1, <1>3
  <2> HIDE DEF left
  <2>2. QED
    BY <1>2, <2>1 DEF Placed, Recurrence
<1>6. books'.series = (books.series \ {r}) \union {q}
      /\ books'.bal = [a \in Accounts |-> books.bal[a] + Posted(a, LegsOf(r))]
      /\ books' \in [bal : {books'.bal}, series : {books'.series}, history : {books.history}]
  <2> HIDE DEF q
  <2>1. books = [bal |-> books.bal, series |-> books.series, history |-> books.history]
    BY <1>2 DEF BooksOk, Books
  <2>2. books' = [bal |-> [a \in Accounts |-> books.bal[a] + Posted(a, LegsOf(r))],
                  series |-> (books.series \ {r}) \union {q}, history |-> books.history]
    BY <1>1, <1>4, <2>1
  <2>3. QED
    BY <2>2
<1> HIDE DEF q
<1>7. books'.bal \in [Accounts -> Int]
  <2>1. \A a : Posted(a, LegsOf(r)) \in Int
    BY <1>2, PostedIsWeight
  <2>2. QED
    BY <1>2, <1>6, <2>1, BooksAre
<1>8. books' \in Books
  <2>1. books'.series \subseteq Recurrence
    BY <1>2, <1>5, <1>6, BooksAre
  <2>2. books.history \in [Accounts -> Seq(Int)]
    BY <1>2, BooksAre
  <2>3. QED
    BY <1>6, <1>7, <2>1, <2>2 DEF Books
<1>9. IsFiniteSet(books'.series)
  <2>1. IsFiniteSet(books.series \ {r})
    BY <1>2, BooksAre, FS_Difference
  <2>2. QED
    BY <1>6, <2>1, FS_AddElement
<1>10. \A x, y \in books'.series : x.id = y.id => x = y
  BY <1>2, <1>5, <1>6, BooksAre
<1>11. BooksOk(books')
  BY <1>8, <1>9, <1>10 DEF BooksOk
<1>12. QED
  BY <1>1, <1>11 DEF SimInv

LEMMA StartedOk ==
    ASSUME SimInv, NEW tasks \in Seq(Tasks), tasks # <<>>, NEW save, NEW smooth \in BOOLEAN
    PROVE  JobOk(Started(tasks, save, smooth))
<1> DEFINE w == WorldState
           last == [queue |-> w.series]
           run == Fresh(w, last)
           j == Started(tasks, save, smooth)
<1>1. w = books /\ BooksOk(w)
  BY DEF SimInv, BooksOk, Books, WorldState
<1>2. Head(tasks).params \in Scenarios /\ Head(tasks).horizon \in Nat \ {0}
  BY HeadOfTasks
<1>3. RunOk(Head(tasks).params, w, smooth, run) /\ run.m = 0
  BY <1>1, <1>2, FreshOk
<1>4. j = [todo |-> tasks, save |-> save, smooth |-> smooth, world |-> w, run |-> run, done |-> <<>>]
  BY DEF Started
<1> HIDE DEF w, run, j
<1>5. j.todo = tasks /\ j.smooth = smooth /\ j.world = w /\ j.run = run /\ j.save = save /\ j.done = <<>>
  BY <1>4
<1>6. QED
  BY <1>1, <1>2, <1>3, <1>4, <1>5 DEF JobOk, j

LEMMA SimulateKeeps ==
    ASSUME SimInv, NEW p \in Plans, Simulate(p)
    PROVE  SimInv'
<1>1. PICK h \in Horizons \union {plans[p].horizon}, smooth \in BOOLEAN :
        job' = Started(<<Task(p, h)>>, TRUE, smooth)
  BY DEF Simulate
<1>2. plans[p] # Absent /\ books' = books /\ plans' = plans /\ shown' = shown
  BY DEF Simulate
<1>3. Task(p, h) \in Tasks
  BY <1>2, SavedIs, SimFacts DEF SimInv, Task, Tasks
<1>4. <<Task(p, h)>> \in Seq(Tasks) /\ <<Task(p, h)>> # <<>>
  BY <1>3
<1>5. JobOk(job')
  BY <1>1, <1>4, StartedOk
<1>6. QED
  BY <1>2, <1>5 DEF SimInv

LEMMA CompareKeeps ==
    ASSUME SimInv, Compare
    PROVE  SimInv'
<1>1. PICK n \in 1 .. MaxCompared : \E ids \in [1 .. n -> {p \in Plans : plans[p] # Absent}],
                                     h \in Horizons, smooth \in BOOLEAN :
        job' = Started([k \in 1 .. n |-> Task(ids[k], h)], FALSE, smooth)
  BY DEF Compare
<1>2. PICK ids \in [1 .. n -> {p \in Plans : plans[p] # Absent}], h \in Horizons, smooth \in BOOLEAN :
        job' = Started([k \in 1 .. n |-> Task(ids[k], h)], FALSE, smooth)
  BY <1>1
<1>3. books' = books /\ plans' = plans /\ shown' = shown
  BY DEF Compare
<1> DEFINE tasks == [k \in 1 .. n |-> Task(ids[k], h)]
<1>4. n \in Nat /\ n >= 1
  BY SimFacts
<1>5. \A k \in 1 .. n : Task(ids[k], h) \in Tasks
  BY SavedIs, SimFacts DEF SimInv, Task, Tasks
<1>6. tasks \in [1 .. n -> Tasks]
  BY <1>5
<1> HIDE DEF tasks
<1>7. tasks \in Seq(Tasks) /\ Len(tasks) = n
  BY <1>4, <1>6, SeqDef, LenProperties
<1>8. tasks # <<>>
  BY <1>4, <1>7
<1>9. JobOk(job')
  BY <1>2, <1>7, <1>8, StartedOk DEF tasks
<1>10. QED
  BY <1>3, <1>9 DEF SimInv

LEMMA NextMonthKeeps ==
    ASSUME SimInv, NextMonth
    PROVE  SimInv'
<1> DEFINE s == Head(job.todo).params
           run == MonthOf(s, job.run, job.world, job.smooth)
<1>1. /\ job.todo # <<>> /\ job.run.m < Head(job.todo).horizon
      /\ job' = [job EXCEPT !.run = run] /\ books' = books /\ plans' = plans /\ shown' = shown
  BY DEF NextMonth
<1>2. /\ job = [todo |-> job.todo, save |-> job.save, smooth |-> job.smooth,
                world |-> job.world, run |-> job.run, done |-> job.done]
      /\ job.todo \in Seq(Tasks) /\ job.smooth \in BOOLEAN /\ BooksOk(job.world)
      /\ RunOk(s, job.world, job.smooth, job.run)
  BY <1>1 DEF SimInv, JobOk, Idle
<1>3. s \in Scenarios /\ Head(job.todo).horizon \in Nat \ {0}
  BY <1>1, <1>2, HeadOfTasks
<1>4. RunOk(s, job.world, job.smooth, run) /\ run.m = job.run.m + 1
  BY <1>2, <1>3, MonthKeeps
<1>5. job.run.m \in Nat
  BY <1>2 DEF RunOk, RunTyped
<1> HIDE DEF run
<1>6. job' = [todo |-> job.todo, save |-> job.save, smooth |-> job.smooth,
              world |-> job.world, run |-> run, done |-> job.done]
  BY <1>1, <1>2
<1>7. /\ job'.todo = job.todo /\ job'.save = job.save /\ job'.smooth = job.smooth
      /\ job'.world = job.world /\ job'.run = run /\ job'.done = job.done
  BY <1>6
<1>8. JobOk(job')
  BY <1>1, <1>2, <1>3, <1>4, <1>5, <1>6, <1>7 DEF JobOk
<1>9. QED
  BY <1>1, <1>8 DEF SimInv

LEMMA FinishKeeps ==
    ASSUME SimInv, Finish
    PROVE  SimInv'
<1> DEFINE task == Head(job.todo)
           w == job.world
           run == Fresh(w, job.run)
           rest == Tail(job.todo)
<1>1. /\ job.todo # <<>> /\ books' = books /\ plans' = plans
      /\ shown' = IF job.save /\ plans[task.plan] # Absent
                  THEN [shown EXCEPT ![task.plan] = Result(task, job.run, w)] ELSE shown
      /\ job' = IF Len(job.todo) = 1 THEN Idle
                ELSE [job EXCEPT !.todo = rest, !.run = run, !.done = Append(@, task.plan)]
  BY DEF Finish
<1>2. /\ job = [todo |-> job.todo, save |-> job.save, smooth |-> job.smooth,
                world |-> w, run |-> job.run, done |-> job.done]
      /\ job.todo \in Seq(Tasks) /\ job.smooth \in BOOLEAN /\ BooksOk(w)
      /\ RunOk(task.params, w, job.smooth, job.run)
  BY <1>1 DEF SimInv, JobOk, Idle
<1>3. task.plan \in Plans
  BY <1>1, <1>2, HeadOfTasks
<1>4. shown' = [q \in Plans |-> shown'[q]] /\ \A q \in Plans : shown'[q] = Absent \/ shown'[q] \in ProjectionResult
  <2>1. Result(task, job.run, w) \in ProjectionResult
    BY <1>2, ResultTyped DEF RunOk
  <2>2. QED
    BY <1>1, <1>3, <2>1 DEF SimInv
<1>5. JobOk(job')
  <2>1. CASE Len(job.todo) = 1
    BY <1>1, <2>1 DEF JobOk
  <2>2. CASE Len(job.todo) # 1
    <3>1. rest \in Seq(Tasks) /\ rest # <<>>
      <4>1. rest \in Seq(Tasks) /\ Len(rest) = Len(job.todo) - 1
        BY <1>1, <1>2, HeadTailProperties
      <4>2. Len(job.todo) \in Nat /\ Len(job.todo) # 0
        BY <1>1, <1>2, EmptySeq, LenProperties
      <4> HIDE DEF rest
      <4>3. Len(rest) # 0
        BY <2>2, <4>1, <4>2
      <4>4. QED
        BY <4>1, <4>3, EmptySeq
    <3>2. Head(rest).params \in Scenarios /\ Head(rest).horizon \in Nat \ {0}
      BY <3>1, HeadOfTasks
    <3>3. RunOk(Head(rest).params, w, job.smooth, run) /\ run.m = 0
      BY <1>2, <3>2, FreshOk
    <3> HIDE DEF run, rest
    <3>4. job' = [todo |-> rest, save |-> job.save, smooth |-> job.smooth,
                  world |-> w, run |-> run, done |-> Append(job.done, task.plan)]
      BY <1>1, <1>2, <2>2
    <3>5. /\ job'.todo = rest /\ job'.save = job.save /\ job'.smooth = job.smooth /\ job'.world = w
          /\ job'.run = run /\ job'.done = Append(job.done, task.plan)
      BY <3>4
    <3>6. QED
      BY <1>2, <3>1, <3>2, <3>3, <3>4, <3>5 DEF JobOk
  <2>3. QED
    BY <2>1, <2>2
<1>6. QED
  BY <1>1, <1>4, <1>5 DEF SimInv

LEMMA SimKeeps ==
    ASSUME SimInv, SimNext
    PROVE  SimInv'
  BY CreateKeeps, UpdateKeeps, DeleteKeeps, GenerateKeeps, SimulateKeeps, CompareKeeps,
     NextMonthKeeps, FinishKeeps DEF SimNext

LEMMA SimStays ==
    ASSUME SimInv, UNCHANGED simVars
    PROVE  SimInv'
  BY DEF SimInv, simVars

-----------------------------------------------------------------------------
(* Projections: entries and their amounts.                                    *)

\* Entries of days and whole amounts.
Entries(S) == IsFiniteSet(S) /\ \A e \in S : e.day \in Int /\ e.amt \in Int

LEMMA AmountsIs ==
    ASSUME NEW S
    PROVE  F!Amounts(S) = Sum([e \in S |-> e.amt], S)
<1> DEFINE f == [e \in S |-> e.amt]
<1>1. F!Amounts(S) = F!MapThenSumSet(LAMBDA e : f[e], S)
  BY DEF F!Amounts
<1> HIDE DEF f
<1>2. F!MapThenSumSet(LAMBDA e : f[e], S) = MapThenSumSet(LAMBDA x : f[x], S)
  BY DEF F!MapThenSumSet, MapThenSumSet, F!MapThenFoldSet, MapThenFoldSet
<1>3. QED
  BY <1>1, <1>2 DEF Sum, f

LEMMA AmountsPart ==
    ASSUME NEW S, Entries(S), NEW U \in SUBSET S
    PROVE  Entries(U) /\ F!Amounts(U) = Sum([e \in S |-> e.amt], U) /\ F!Amounts(U) \in Int
<1> DEFINE f == [e \in S |-> e.amt]
           g == [e \in U |-> e.amt]
<1>1. IsFiniteSet(U) /\ \A e \in U : g[e] \in Int /\ g[e] = f[e]
  BY FS_Subset DEF Entries
<1>2. F!Amounts(U) = Sum(g, U)
  BY AmountsIs
<1> HIDE DEF f, g
<1>3. Sum(g, U) = Sum(f, U) /\ Sum(g, U) \in Int
  BY <1>1, SumEqual
<1>4. Entries(U)
  BY <1>1 DEF Entries
<1>5. QED
  BY <1>2, <1>3, <1>4 DEF f

LEMMA AmountsInt ==
    ASSUME NEW S, Entries(S)
    PROVE  F!Amounts(S) \in Int
  BY AmountsPart

LEMMA AmountsNone == F!Amounts({}) = 0
  BY AmountsIs, SumEmpty

LEMMA AmountsOne ==
    ASSUME NEW e, e.day \in Int, e.amt \in Int
    PROVE  Entries({e}) /\ F!Amounts({e}) = e.amt
<1> DEFINE f == [x \in {e} |-> x.amt]
<1>1. Entries({e})
  BY FS_Singleton DEF Entries
<1>2. IsFiniteSet({e}) /\ e \in {e} /\ (\A x \in {e} : f[x] \in Int) /\ f[e] = e.amt
  BY <1>1 DEF Entries
<1>3. F!Amounts({e}) = Sum(f, {e})
  BY <1>1, AmountsPart
<1> HIDE DEF f
<1>4. Sum(f, {e}) = f[e] + Sum(f, {e} \ {e})
  BY <1>2, SumRemove
<1>5. {e} \ {e} = {}
  OBVIOUS
<1>6. Sum(f, {e}) = f[e] + 0
  BY <1>4, <1>5, SumEmpty
<1>7. QED
  BY <1>1, <1>2, <1>3, <1>6

LEMMA AmountsUnion ==
    ASSUME NEW S, Entries(S), NEW T, Entries(T), S \cap T = {}
    PROVE  Entries(S \union T) /\ F!Amounts(S \union T) = F!Amounts(S) + F!Amounts(T)
<1> DEFINE U == S \union T
           f == [e \in U |-> e.amt]
           g == [e \in U |-> IF e \in S THEN e.amt ELSE 0]
           h == [e \in U |-> IF e \in T THEN e.amt ELSE 0]
<1>1. Entries(U)
  BY FS_Union DEF Entries
<1>2. /\ IsFiniteSet(U) /\ S \in SUBSET U /\ T \in SUBSET U /\ U \in SUBSET U
      /\ \A e \in U : f[e] \in Int /\ g[e] \in Int /\ h[e] \in Int /\ f[e] = g[e] + h[e]
      /\ \A e \in U \ S : g[e] = 0
      /\ \A e \in U \ T : h[e] = 0
      /\ \A e \in S : f[e] = g[e]
      /\ \A e \in T : f[e] = h[e]
  BY <1>1 DEF Entries
<1>3. F!Amounts(U) = Sum(f, U) /\ F!Amounts(S) = Sum(f, S) /\ F!Amounts(T) = Sum(f, T)
  BY <1>1, <1>2, AmountsPart
<1>4. IsFiniteSet(S) /\ IsFiniteSet(T)
  BY DEF Entries
<1> HIDE DEF f, g, h, U
<1>5. Sum(f, U) = Sum(g, U) + Sum(h, U)
  BY <1>2, SumPlus
<1>6. Sum(g, U) = Sum(g, S) /\ Sum(h, U) = Sum(h, T)
  BY <1>2, SumExtend
<1>7. Sum(f, S) = Sum(g, S) /\ Sum(f, T) = Sum(h, T)
  BY <1>2, <1>4, SumEqual
<1>8. QED
  BY <1>1, <1>3, <1>5, <1>6, <1>7 DEF U

LEMMA AmountsNatural ==
    ASSUME NEW S, Entries(S), \A e \in S : e.amt >= 0
    PROVE  F!Amounts(S) \in Nat
<1> DEFINE f == [e \in S |-> e.amt]
<1>1. IsFiniteSet(S) /\ \A e \in S : f[e] \in Nat
  BY DEF Entries
<1>2. F!Amounts(S) = Sum(f, S)
  BY AmountsPart
<1> HIDE DEF f
<1>3. QED
  BY <1>1, <1>2, SumNatural

\* One more entry.
LEMMA AmountsAdd ==
    ASSUME NEW S, Entries(S), NEW e, e.day \in Int, e.amt \in Int, e \notin S
    PROVE  Entries(S \union {e}) /\ F!Amounts(S \union {e}) = F!Amounts(S) + e.amt
<1>1. Entries({e}) /\ F!Amounts({e}) = e.amt
  BY AmountsOne
<1>2. S \cap {e} = {}
  OBVIOUS
<1>3. QED
  BY <1>1, <1>2, AmountsUnion

\* What is booked until a day, and from the next one until another.
LEMMA AmountsUntil ==
    ASSUME NEW S, Entries(S), NEW a \in Int, NEW b \in Int, a <= b + 1
    PROVE  /\ F!Amounts(F!Until(b, S)) = F!Amounts(F!Until(a - 1, S)) + F!Amounts(F!Within(a, b, S))
           /\ F!Amounts(F!Until(a - 1, S)) \in Int /\ F!Amounts(F!Within(a, b, S)) \in Int
<1> DEFINE U == F!Until(a - 1, S)
           V == F!Within(a, b, S)
<1>1. U \in SUBSET S /\ V \in SUBSET S
  BY DEF F!Until, F!Within
<1>2. Entries(U) /\ Entries(V) /\ F!Amounts(U) \in Int /\ F!Amounts(V) \in Int
  BY <1>1, AmountsPart
<1>3. U \cap V = {} /\ F!Until(b, S) = U \union V
  BY DEF F!Until, F!Within, Entries
<1>4. QED
  BY <1>2, <1>3, AmountsUnion

-----------------------------------------------------------------------------
(* Projections: the loan, period by period.                                   *)

LEMMA SameNotions ==
    ASSUME NEW S
    PROVE  (F!IsFiniteSet(S) <=> IsFiniteSet(S)) /\ F!Cardinality(S) = Cardinality(S)
  BY DEF F!IsFiniteSet, IsFiniteSet, F!Cardinality, Cardinality

LEMMA BookFacts ==
    /\ BookMonth \in Nat \ {0} /\ LastDay \in Nat /\ Start \in Int /\ FirstEnd \in Int /\ Start <= FirstEnd
    /\ CloseDay \in Int /\ PayDelay \in Nat \ {0}
    /\ LoanDay \in Int /\ Term \in Nat /\ Payment \in Nat /\ Rate \in Nat
    /\ \A S \in FirstRows : F!RowsOk(S)
    /\ \A S \in FirstTemplates : IsFiniteSet(S) /\ \A s \in S : F!TemplateOk(s)
    /\ FirstOpenings \subseteq [F!AccountNames -> Int]
    /\ FirstCards \subseteq [fixed : Int, cycle : Int, amount : Int, payable : BOOLEAN]
<1>1. F!ProjectionAssumption
  BY PlanningAssumption
<1>2. \A S \in FirstTemplates : IsFiniteSet(S) /\ \A s \in S : F!TemplateOk(s)
  BY <1>1, SameNotions, Zenon DEF F!ProjectionAssumption
<1>3. /\ \A S \in FirstRows : F!RowsOk(S)
      /\ FirstOpenings \subseteq [F!AccountNames -> Int]
      /\ FirstCards \subseteq [fixed : Int, cycle : Int, amount : Int, payable : BOOLEAN]
  BY <1>1, Zenon DEF F!ProjectionAssumption
<1>4. QED
  BY <1>1, <1>2, <1>3 DEF F!ProjectionAssumption

\* Periods follow each other.
LEMMA PeriodsFollow ==
    /\ F!LastPeriod \in Nat
    /\ F!From(0) = Start /\ F!From(0) <= F!From(1)
    /\ \A p \in Nat : /\ F!From(p) \in Int /\ F!To(p) \in Int
                      /\ F!From(p) <= F!From(p + 1) /\ F!To(p) < F!From(p + 1)
    /\ \A p \in Nat, q \in Nat : q < p => F!To(q) < F!From(p)
<1>1. \A p \in Nat : BookMonth * p \in Nat
  BY BookFacts
<1>2. F!LastPeriod \in Nat
  <2>1. \A x \in Int : x \div BookMonth \in Int
    BY BookFacts
  <2>2. LastDay - FirstEnd + BookMonth - 1 \in Int
    BY BookFacts
  <2>3. QED
    BY <2>1, <2>2 DEF F!LastPeriod, F!Larger
<1>3. \A p \in Nat : F!To(p) \in Int /\ F!To(p) <= FirstEnd + p * BookMonth
  BY BookFacts DEF F!To, F!Smaller
<1>4. \A p \in Nat : F!From(p + 1) = FirstEnd + p * BookMonth + 1
  BY BookFacts DEF F!From
<1>5. F!From(0) = Start
  BY DEF F!From
<1>6. \A p \in Nat : F!From(p) \in Int /\ F!From(p) <= F!From(p + 1)
  <2>1. ASSUME NEW p \in Nat
        PROVE  F!From(p) \in Int /\ F!From(p) <= F!From(p + 1)
    <3>1. CASE p = 0
      BY <1>4, <1>5, <3>1, BookFacts
    <3>2. CASE p # 0
      <4>1. F!From(p) = FirstEnd + (p - 1) * BookMonth + 1
        BY <3>2 DEF F!From
      <4>2. QED
        BY <1>4, <4>1, BookFacts
    <3>3. QED
      BY <3>1, <3>2
  <2>2. QED
    BY <2>1
<1>7. \A p \in Nat : F!To(p) < F!From(p + 1)
  BY <1>3, <1>4, BookFacts
<1>8. ASSUME NEW p \in Nat, NEW q \in Nat, q < p
      PROVE  F!To(q) < F!From(p)
  <2>1. F!From(p) = FirstEnd + (p - 1) * BookMonth + 1
    BY <1>8 DEF F!From
  <2>2. q * BookMonth <= (p - 1) * BookMonth
    BY <1>8, BookFacts
  <2>3. q * BookMonth \in Int /\ (p - 1) * BookMonth \in Int
    BY BookFacts
  <2>4. QED
    BY <1>3, <2>1, <2>2, <2>3, BookFacts
<1>9. F!From(0) <= F!From(1)
  <2>1. F!From(0) <= F!From(0 + 1) /\ 0 + 1 = 1
    BY <1>6
  <2>2. QED
    BY <2>1
<1>10. QED
  BY <1>2, <1>3, <1>5, <1>6, <1>7, <1>8, <1>9

\* A payment is on the first day of the schedule in its period.
LEMMA EarliestIs ==
    ASSUME NEW p \in Nat, F!DueIn(p) # {}
    PROVE  LET d == F!Earliest(F!DueIn(p)) IN d \in Int /\ F!From(p) <= d /\ d <= F!To(p)
<1> DEFINE T == F!DueIn(p)
           N == {d - F!From(p) : d \in T}
<1>1. F!From(p) \in Int /\ F!To(p) \in Int
  BY PeriodsFollow
<1>2. \A d \in T : d \in Int /\ F!From(p) <= d /\ d <= F!To(p)
  <2>1. \A k \in 0 .. (Term - 1) : LoanDay + k * BookMonth \in Int
    BY BookFacts
  <2>2. QED
    BY <2>1 DEF F!DueIn
<1> HIDE DEF T
<1>3. N \subseteq Nat /\ N # {}
  BY <1>1, <1>2 DEF T
<1>4. PICK x \in N : \A y \in N : x <= y
  BY <1>3, Least
<1>5. PICK d \in T : x = d - F!From(p)
  BY <1>4
<1>6. \A e \in T : d <= e
  BY <1>1, <1>2, <1>4, <1>5
<1>7. F!Earliest(T) \in T
  BY <1>6 DEF F!Earliest
<1>8. QED
  BY <1>2, <1>7 DEF T

LEMMA InterestNatural ==
    ASSUME NEW balance \in Int, NEW p
    PROVE  /\ F!Interest(balance, p) \in Nat
           /\ F!Interest(balance, p) > 0 => F!DueIn(p) # {}
<1>1. CASE p > 0 /\ F!DueIn(p) # {} /\ balance < 0
  <2> DEFINE x == -balance * Rate + 50
  <2>1. -balance \in Nat /\ Rate \in Nat
    BY <1>1, BookFacts
  <2>2. \A a, b \in Nat : a * b \in Nat
    OBVIOUS
  <2>3. x \in Nat
    BY <2>1, <2>2
  <2>4. F!Interest(balance, p) = x \div 100
    BY <1>1 DEF F!Interest
  <2> HIDE DEF x
  <2>5. \A y \in Nat : y \div 100 \in Nat
    OBVIOUS
  <2>6. QED
    BY <1>1, <2>3, <2>4, <2>5
<1>2. CASE ~ (p > 0 /\ F!DueIn(p) # {} /\ balance < 0)
  BY <1>2 DEF F!Interest
<1>3. QED
  BY <1>1, <1>2

\* After a period the balance is what was owed at first, the legs before it, the
\* payments and the interest; and every period that has a payment ends in debt
\* or at zero.
Passed0(p) == IF p = -1 THEN Start - 1 ELSE F!From(p) - 1
Ends(q, b, legs, w) ==
    b + F!Amounts(F!Until(F!To(q), legs)) + F!Amounts(F!Until(F!To(q), w.pays))
      - F!Amounts(F!Until(F!To(q), w.interest))
PaysIn(q, w) == \E e \in w.pays : F!From(q) <= e.day /\ e.day <= F!To(q)
LoanOk(p, b, legs, w) ==
    /\ w.balance \in Int /\ Entries(w.pays) /\ Entries(w.interest)
    /\ \A e \in w.pays : e.amt > 0
    /\ \A e \in w.pays \union w.interest : e.day < F!From(p + 1)
    /\ w.balance = b + F!Amounts(F!Until(Passed0(p), legs)) + F!Amounts(w.pays) - F!Amounts(w.interest)
    /\ \A q \in 0 .. p : PaysIn(q, w) => Ends(q, b, legs, w) <= 0

\* What is owed when a period begins.
LEMMA BasisIs ==
    ASSUME NEW b \in Int, NEW legs, Entries(legs), NEW p \in Nat, NEW w, LoanOk(p - 1, b, legs, w)
    PROVE  /\ w.balance + F!LegsBefore(p, legs) \in Int
           /\ w.balance + F!LegsBefore(p, legs) =
                b + F!Amounts(F!Until(F!From(p) - 1, legs)) + F!Amounts(w.pays) - F!Amounts(w.interest)
<1>1. /\ w.balance \in Int /\ F!Amounts(w.pays) \in Int /\ F!Amounts(w.interest) \in Int
      /\ w.balance = b + F!Amounts(F!Until(Passed0(p - 1), legs)) + F!Amounts(w.pays) - F!Amounts(w.interest)
  BY AmountsInt DEF LoanOk
<1>2. CASE p = 0
  <2>1. F!LegsBefore(p, legs) = 0
    BY <1>2 DEF F!LegsBefore
  <2>2. Passed0(p - 1) = F!From(p) - 1
    BY <1>2, PeriodsFollow DEF Passed0
  <2>3. QED
    BY <1>1, <2>1, <2>2
<1>3. CASE p # 0
  <2> DEFINE a == F!From(p - 1)
             z == F!From(p) - 1
  <2>1. p - 1 \in Nat /\ (p - 1) + 1 = p
    BY <1>3
  <2>2. a \in Int /\ z \in Int /\ a <= z + 1
    BY <2>1, PeriodsFollow
  <2>3. F!LegsBefore(p, legs) = F!Amounts(F!Within(a, z, legs))
    BY <1>3 DEF F!LegsBefore
  <2>4. Passed0(p - 1) = a - 1
    BY <2>1 DEF Passed0
  <2> HIDE DEF a, z
  <2>5. /\ F!Amounts(F!Until(z, legs)) = F!Amounts(F!Until(a - 1, legs)) + F!Amounts(F!Within(a, z, legs))
        /\ F!Amounts(F!Until(a - 1, legs)) \in Int /\ F!Amounts(F!Within(a, z, legs)) \in Int
    BY <2>2, AmountsUntil
  <2>6. QED
    BY <1>1, <2>3, <2>4, <2>5 DEF z
<1>4. QED
  BY <1>2, <1>3

\* Old entries with at most one of this period.
OneMoreIn(p, S, amt, T) ==
    /\ Entries(T) /\ F!Amounts(T) = F!Amounts(S) + amt
    /\ \A e \in T : e.day < F!From(p + 1)
    /\ amt > 0 => F!Until(F!To(p), T) = T
    /\ \A q \in Nat : q < p => F!Until(F!To(q), T) = F!Until(F!To(q), S)
    /\ \A q \in Nat : q <= p => \A e \in T : F!From(q) <= e.day /\ e.day <= F!To(q) => e \in S \/ (q = p /\ amt > 0)

LEMMA OneMore ==
    ASSUME NEW p \in Nat, NEW S, Entries(S), \A e \in S : e.day < F!From(p),
           NEW d, NEW amt \in Nat, amt > 0 => d \in Int /\ F!From(p) <= d /\ d <= F!To(p),
           NEW T, T = S \union (IF amt > 0 THEN {[day |-> d, amt |-> amt]} ELSE {})
    PROVE  OneMoreIn(p, S, amt, T)
<1>1. /\ F!From(p) \in Int /\ F!To(p) \in Int /\ F!From(p) <= F!From(p + 1) /\ F!To(p) < F!From(p + 1)
      /\ F!From(p + 1) \in Int
      /\ \A q \in Nat : F!To(q) \in Int /\ F!From(q) \in Int /\ (q < p => F!To(q) < F!From(p))
  BY PeriodsFollow
<1>2. \A e \in S : e.day \in Int
  BY DEF Entries
<1>3. CASE amt = 0
  <2>1. T = S /\ F!Amounts(S) \in Int
    BY <1>3, AmountsInt
  <2>2. QED
    BY <1>1, <1>2, <1>3, <2>1 DEF OneMoreIn
<1>4. CASE amt > 0
  <2> DEFINE x == [day |-> d, amt |-> amt]
  <2>1. x.day = d /\ x.amt = amt /\ d \in Int /\ F!From(p) <= d /\ d <= F!To(p) /\ T = S \union {x}
    BY <1>4
  <2> HIDE DEF x
  <2>2. x \notin S
    BY <1>1, <1>2, <2>1
  <2>3. Entries(T) /\ F!Amounts(T) = F!Amounts(S) + amt
    BY <2>1, <2>2, AmountsAdd
  <2>4. F!Until(F!To(p), T) = T
    BY <1>1, <1>2, <2>1 DEF F!Until
  <2>5. \A q \in Nat : q < p => F!Until(F!To(q), T) = F!Until(F!To(q), S)
    BY <1>1, <1>2, <2>1 DEF F!Until
  <2>6. \A e \in T : e.day < F!From(p + 1)
    BY <1>1, <1>2, <2>1
  <2>7. \A q \in Nat : q <= p => \A e \in T : F!From(q) <= e.day /\ e.day <= F!To(q) => e \in S \/ (q = p /\ amt > 0)
    BY <1>1, <1>4, <2>1
  <2>8. QED
    BY <2>3, <2>4, <2>5, <2>6, <2>7 DEF OneMoreIn
<1>5. amt = 0 \/ amt > 0
  OBVIOUS
<1>6. QED
  BY <1>3, <1>4, <1>5, Zenon

LEMMA LoanPeriodKeeps ==
    ASSUME NEW b \in Int, NEW legs, Entries(legs), NEW into, NEW p \in Nat, NEW w, LoanOk(p - 1, b, legs, w)
    PROVE  LoanOk(p, b, legs, F!LoanPeriod(p, w, legs, into))
<1> DEFINE basis == w.balance + F!LegsBefore(p, legs)
           accrued == F!Interest(basis, p)
           within == F!Amounts(F!Within(F!From(p), F!To(p), legs))
           sofar == F!Amounts(F!Until(F!From(p) - 1, legs))
           owed == F!Larger(0, -(basis - accrued + within))
           pay == IF F!PaidIn(p, into) \/ F!DueIn(p) = {} THEN 0 ELSE F!Smaller(Payment, owed)
           d == F!Earliest(F!DueIn(p))
           On(amt) == IF amt > 0 THEN {[day |-> d, amt |-> amt]} ELSE {}
           pays == w.pays \union On(pay)
           interest == w.interest \union On(accrued)
           new == [balance |-> basis - accrued + pay, pays |-> pays, interest |-> interest]
<1>1. F!LoanPeriod(p, w, legs, into) = new
  BY DEF F!LoanPeriod
<1>2. basis \in Int /\ basis = b + sofar + F!Amounts(w.pays) - F!Amounts(w.interest)
  BY BasisIs
<1>3. /\ Entries(w.pays) /\ Entries(w.interest) /\ \A e \in w.pays : e.amt > 0
      /\ F!Amounts(w.pays) \in Int /\ F!Amounts(w.interest) \in Int
      /\ \A e \in w.pays \union w.interest : e.day < F!From(p)
      /\ \A q \in 0 .. p - 1 : PaysIn(q, w) => Ends(q, b, legs, w) <= 0
  <2>1. (p - 1) + 1 = p
    OBVIOUS
  <2>2. QED
    BY <2>1, AmountsInt DEF LoanOk
<1>4. /\ sofar \in Int /\ within \in Int
      /\ F!DueIn(p) # {} => F!Amounts(F!Until(F!To(p), legs)) = sofar + within
  <2>1. F!From(p) \in Int /\ F!To(p) \in Int
    BY PeriodsFollow
  <2>2. sofar \in Int /\ within \in Int
    <3>1. F!Until(F!From(p) - 1, legs) \in SUBSET legs /\ F!Within(F!From(p), F!To(p), legs) \in SUBSET legs
      BY DEF F!Until, F!Within
    <3>2. QED
      BY <3>1, AmountsPart
  <2>3. F!DueIn(p) # {} => F!From(p) <= F!To(p) + 1
    BY <2>1, EarliestIs
  <2>4. QED
    BY <2>1, <2>2, <2>3, AmountsUntil
<1> HIDE DEF basis
<1>5. accrued \in Nat /\ (accrued > 0 => F!DueIn(p) # {})
  BY <1>2, InterestNatural
<1> HIDE DEF accrued, within, sofar
<1>6. owed \in Nat /\ (owed > 0 => owed = -(basis - accrued + within))
  BY <1>2, <1>4, <1>5 DEF F!Larger
<1> HIDE DEF owed
<1>7. pay \in Nat /\ pay <= owed /\ (pay > 0 => F!DueIn(p) # {})
  BY <1>6, BookFacts DEF F!Smaller
<1> HIDE DEF pay
<1>8. F!DueIn(p) # {} => d \in Int /\ F!From(p) <= d /\ d <= F!To(p)
  BY EarliestIs
<1> HIDE DEF d
<1>9. /\ Entries(pays) /\ F!Amounts(pays) = F!Amounts(w.pays) + pay
      /\ \A e \in pays : e.day < F!From(p + 1)
      /\ pay > 0 => F!Until(F!To(p), pays) = pays
      /\ \A q \in Nat : q < p => F!Until(F!To(q), pays) = F!Until(F!To(q), w.pays)
      /\ \A q \in Nat : q <= p => \A e \in pays : F!From(q) <= e.day /\ e.day <= F!To(q) => e \in w.pays \/ (q = p /\ pay > 0)
  <2>1. \A e \in w.pays : e.day < F!From(p)
    BY <1>3
  <2>2. pay > 0 => d \in Int /\ F!From(p) <= d /\ d <= F!To(p)
    BY <1>7, <1>8
  <2>3. pays = w.pays \union (IF pay > 0 THEN {[day |-> d, amt |-> pay]} ELSE {})
    OBVIOUS
  <2> HIDE DEF pays
  <2>4. OneMoreIn(p, w.pays, pay, pays)
    BY <1>3, <1>7, <2>1, <2>2, <2>3, OneMore, Zenon
  <2>5. QED
    BY <2>4, Zenon DEF OneMoreIn
<1>10. /\ Entries(interest) /\ F!Amounts(interest) = F!Amounts(w.interest) + accrued
       /\ \A e \in interest : e.day < F!From(p + 1)
       /\ \A q \in Nat : q < p => F!Until(F!To(q), interest) = F!Until(F!To(q), w.interest)
       /\ accrued > 0 => F!Until(F!To(p), interest) = interest
  <2>1. \A e \in w.interest : e.day < F!From(p)
    BY <1>3
  <2>2. accrued > 0 => d \in Int /\ F!From(p) <= d /\ d <= F!To(p)
    BY <1>5, <1>8
  <2>3. interest = w.interest \union (IF accrued > 0 THEN {[day |-> d, amt |-> accrued]} ELSE {})
    OBVIOUS
  <2> HIDE DEF interest
  <2>4. OneMoreIn(p, w.interest, accrued, interest)
    BY <1>3, <1>5, <2>1, <2>2, <2>3, OneMore, Zenon
  <2>5. QED
    BY <2>4, Zenon DEF OneMoreIn
<1>11. F!DueIn(p) # {} => F!Until(F!To(p), interest) = interest
  <2>1. \A e \in interest : F!DueIn(p) # {} => e.day <= F!To(p)
    <3>1. \A e \in interest : e \in w.interest \/ e.day = d
      BY DEF On
    <3>2. \A e \in w.interest : e.day \in Int /\ e.day < F!From(p)
      BY <1>3 DEF Entries
    <3>3. F!From(p) \in Int /\ F!To(p) \in Int
      BY PeriodsFollow
    <3>4. QED
      BY <1>8, <3>1, <3>2, <3>3
  <2>2. QED
    BY <2>1 DEF F!Until
<1>17. \A e \in pays : e.amt > 0
  BY <1>3
<1> HIDE DEF pays, interest
<1>12. new.balance = basis - accrued + pay /\ new.pays = pays /\ new.interest = interest
  OBVIOUS
<1> HIDE DEF new
<1>13. new.balance \in Int /\ new.balance = b + F!Amounts(F!Until(Passed0(p), legs)) + F!Amounts(new.pays) - F!Amounts(new.interest)
  <2>1. Passed0(p) = F!From(p) - 1
    BY DEF Passed0
  <2>2. QED
    BY <1>2, <1>3, <1>4, <1>5, <1>7, <1>9, <1>10, <1>12, <2>1 DEF sofar
<1>14. ASSUME NEW q \in 0 .. p, PaysIn(q, new)
       PROVE  Ends(q, b, legs, new) <= 0
  <2>1. PICK e \in pays : F!From(q) <= e.day /\ e.day <= F!To(q)
    BY <1>12, <1>14 DEF PaysIn
  <2>2. e \in w.pays \/ (q = p /\ pay > 0)
    BY <1>9, <2>1
  <2>3. CASE q < p
    <3>1. PaysIn(q, w)
      BY <2>1, <2>2, <2>3 DEF PaysIn
    <3>2. Ends(q, b, legs, new) = Ends(q, b, legs, w)
      BY <1>9, <1>10, <1>12, <2>3 DEF Ends
    <3>3. QED
      BY <1>3, <2>3, <3>1, <3>2
  <2>4. CASE q = p
    <3>1. pay > 0
      <4>1. \A x \in w.pays : x.day \in Int /\ x.day < F!From(p)
        BY <1>3 DEF Entries
      <4>2. F!From(p) \in Int
        BY PeriodsFollow
      <4>3. e \notin w.pays
        BY <2>1, <2>4, <4>1, <4>2
      <4>4. QED
        BY <2>2, <4>3
    <3>2. F!Until(F!To(p), pays) = pays /\ F!Until(F!To(p), interest) = interest
      BY <1>7, <1>9, <1>11, <3>1
    <3>3. Ends(q, b, legs, new) = b + (sofar + within) + F!Amounts(pays) - F!Amounts(interest)
      BY <1>4, <1>7, <1>12, <2>4, <3>1, <3>2 DEF Ends
    <3>4. Ends(q, b, legs, new) = basis - accrued + within + pay
      BY <1>2, <1>3, <1>4, <1>5, <1>7, <1>9, <1>10, <3>3
    <3>5. owed = -(basis - accrued + within)
      BY <1>6, <1>7, <3>1
    <3>6. QED
      BY <1>2, <1>4, <1>5, <1>6, <1>7, <3>4, <3>5
  <2>5. QED
    BY <2>3, <2>4
<1>15. LoanOk(p, b, legs, new)
  BY <1>9, <1>10, <1>12, <1>13, <1>14, <1>17 DEF LoanOk
<1>16. QED
  BY <1>1, <1>15 DEF new, pays, interest

\* The walk over the periods of the horizon.
LoanSteps(b, legs, into, n, f) ==
    f = [p \in -1 .. n |-> IF p = -1 THEN [balance |-> b, pays |-> {}, interest |-> {}]
                           ELSE F!LoanPeriod(p, f[p - 1], legs, into)]

LEMMA LoanStepsExist ==
    ASSUME NEW b, NEW legs, NEW into, NEW n \in Nat
    PROVE  \E f : LoanSteps(b, legs, into, n, f)
<1> DEFINE Is(m, f) == f = [p \in -1 .. m |->
                              IF p = -1 THEN [balance |-> b, pays |-> {}, interest |-> {}]
                              ELSE F!LoanPeriod(p, f[p - 1], legs, into)]
           T == {m \in Nat : \E f : Is(m - 1, f)}
<1>1. 0 \in T
  <2> DEFINE f == [p \in -1 .. -1 |-> [balance |-> b, pays |-> {}, interest |-> {}]]
  <2>1. \A p \in -1 .. -1 : p = -1
    OBVIOUS
  <2>2. Is(-1, f)
    BY <2>1
  <2>3. 0 - 1 = -1
    OBVIOUS
  <2> HIDE DEF f, Is
  <2>4. QED
    BY <2>2, <2>3
<1>2. ASSUME NEW m \in Nat, m \in T
      PROVE  m + 1 \in T
  <2>1. PICK f : Is(m - 1, f)
    BY <1>2
  <2> DEFINE g == [p \in -1 .. m |-> IF p = m THEN F!LoanPeriod(m, f[m - 1], legs, into) ELSE f[p]]
  <2>2. /\ \A p \in -1 .. m : p # m => p \in -1 .. m - 1
        /\ \A p \in -1 .. m : p # -1 => p - 1 \in -1 .. m /\ p - 1 # m
        /\ m # -1 /\ m \in -1 .. m
    OBVIOUS
  <2>3. ASSUME NEW p \in -1 .. m
        PROVE  g[p] = IF p = -1 THEN [balance |-> b, pays |-> {}, interest |-> {}]
                      ELSE F!LoanPeriod(p, g[p - 1], legs, into)
    <3>1. p # -1 => g[p - 1] = f[p - 1]
      BY <2>2
    <3>2. CASE p = m
      BY <2>2, <3>1, <3>2
    <3>3. CASE p # m
      <4>1. g[p] = f[p] /\ p \in -1 .. m - 1
        BY <2>2, <3>3
      <4>2. f[p] = IF p = -1 THEN [balance |-> b, pays |-> {}, interest |-> {}]
                   ELSE F!LoanPeriod(p, f[p - 1], legs, into)
        BY <2>1, <4>1
      <4>3. QED
        BY <3>1, <4>1, <4>2
    <3>4. QED
      BY <3>2, <3>3
  <2>4. Is(m, g)
    BY <2>3
  <2>5. (m + 1) - 1 = m
    OBVIOUS
  <2> HIDE DEF g, Is
  <2>6. QED
    BY <2>4, <2>5
<1>3. n + 1 \in T
  <2> HIDE DEF T
  <2>1. Nat \subseteq T
    BY <1>1, <1>2, SizeInduction
  <2>2. QED
    BY <2>1
<1>4. (n + 1) - 1 = n
  OBVIOUS
<1>5. \E f : Is(n, f)
  BY <1>3, <1>4
<1>6. QED
  BY <1>5 DEF LoanSteps

LEMMA LoanWalkOk ==
    ASSUME NEW up, F!Balance("loan") \in Int, Entries(F!LoanLegs(up)),
           \A e \in F!LoanLegs(up) : e.day >= Start
    PROVE  LoanOk(F!LastPeriod, F!Balance("loan"), F!LoanLegs(up), F!LoanWalk(up))
<1> DEFINE b == F!Balance("loan")
           legs == F!LoanLegs(up)
           into == {r \in F!Of("loan", rows) : r.in} \union {[series |-> e.id[2], id |-> e.id, acct |-> e.acct, day |-> e.day, amt |-> e.amt] : e \in {x \in F!Of("loan", up) : x.in}}
           n == F!LastPeriod
           walk == CHOOSE f : LoanSteps(b, legs, into, n, f)
<1>1. F!LoanWalk(up) = walk[n]
  BY DEF F!LoanWalk, LoanSteps
<1>2. n \in Nat
  BY PeriodsFollow
<1> HIDE DEF into, legs, b, n
<1>3. LoanSteps(b, legs, into, n, walk)
  <2>1. \E f : LoanSteps(b, legs, into, n, f)
    BY <1>2, LoanStepsExist
  <2>2. QED
    BY <2>1
<1> HIDE DEF walk
<1> DEFINE T == {m \in Nat : m <= n + 1 => LoanOk(m - 1, b, legs, walk[m - 1])}
<1>4. 0 \in T
  <2> DEFINE w == [balance |-> b, pays |-> {}, interest |-> {}]
  <2>1. walk[-1] = w
    BY <1>2, <1>3 DEF LoanSteps
  <2>2. w.balance = b /\ w.pays = {} /\ w.interest = {}
    OBVIOUS
  <2> HIDE DEF w
  <2>3. Entries({})
    BY FS_EmptySet DEF Entries
  <2>4. F!Until(Passed0(-1), legs) = {}
    <3>1. \A e \in legs : e.day \in Int /\ e.day >= Start
      BY DEF legs, Entries
    <3>2. QED
      BY <3>1, BookFacts DEF F!Until, Passed0
  <2>5. b \in Int
    BY DEF b
  <2>6. \A q \in 0 .. -1 : FALSE
    OBVIOUS
  <2>7. LoanOk(-1, b, legs, w)
    <3>1. w.balance = b + F!Amounts(F!Until(Passed0(-1), legs)) + F!Amounts(w.pays) - F!Amounts(w.interest)
      <4>1. F!Amounts(F!Until(Passed0(-1), legs)) = 0 /\ F!Amounts(w.pays) = 0 /\ F!Amounts(w.interest) = 0
        BY <2>2, <2>4, AmountsNone
      <4>2. QED
        BY <2>2, <2>5, <4>1
    <3>2. w.balance \in Int /\ Entries(w.pays) /\ Entries(w.interest)
      BY <2>2, <2>3, <2>5
    <3>3. /\ \A e \in w.pays \union w.interest : e.day < F!From(-1 + 1)
          /\ \A e \in w.pays : e.amt > 0
      BY <2>2
    <3>4. \A q \in 0 .. -1 : PaysIn(q, w) => Ends(q, b, legs, w) <= 0
      BY <2>6
    <3>5. QED
      BY <3>1, <3>2, <3>3, <3>4, Zenon DEF LoanOk
  <2>8. 0 - 1 = -1
    OBVIOUS
  <2>9. QED
    BY <2>1, <2>7, <2>8
<1>5. ASSUME NEW m \in Nat, m \in T
      PROVE  m + 1 \in T
  <2>1. SUFFICES ASSUME m + 1 <= n + 1
                 PROVE  LoanOk((m + 1) - 1, b, legs, walk[(m + 1) - 1])
    OBVIOUS
  <2>2. (m + 1) - 1 = m /\ m \in -1 .. n /\ m # -1 /\ m <= n + 1
    BY <1>2, <2>1
  <2>3. LoanOk(m - 1, b, legs, walk[m - 1])
    BY <1>5, <2>2
  <2>4. walk[m] = F!LoanPeriod(m, walk[m - 1], legs, into)
    BY <1>3, <2>2 DEF LoanSteps
  <2>5. b \in Int /\ Entries(legs)
    BY DEF b, legs
  <2>6. LoanOk(m, b, legs, walk[m])
    BY <2>3, <2>4, <2>5, LoanPeriodKeeps
  <2>7. QED
    BY <2>2, <2>6
<1>6. n + 1 \in T
  <2> HIDE DEF T
  <2>1. Nat \subseteq T
    BY <1>4, <1>5, SizeInduction
  <2>2. QED
    BY <1>2, <2>1
<1>7. (n + 1) - 1 = n
  BY <1>2
<1>8. LoanOk(n, b, legs, walk[n])
  BY <1>2, <1>6, <1>7
<1>9. QED
  BY <1>1, <1>8 DEF b, legs, n

-----------------------------------------------------------------------------
(* Projections: the card, cycle by cycle.                                     *)

LEMMA CyclesFollow ==
    /\ F!LastCycle \in Nat
    /\ \A k \in Nat : F!Pay(k) \in Int /\ F!Close(k) \in Int
    /\ \A j \in Nat, k \in Nat : j < k => F!Pay(j) < F!Pay(k)
<1>1. F!LastCycle \in Nat
  <2>1. \A x \in Nat : x \div BookMonth \in Nat
    BY BookFacts
  <2>2. QED
    BY <2>1, BookFacts DEF F!LastCycle
<1>2. \A k \in Nat : k * BookMonth \in Nat
  BY BookFacts
<1>3. \A j \in Nat, k \in Nat : j < k => j * BookMonth < k * BookMonth
  BY BookFacts
<1>4. QED
  BY <1>1, <1>2, <1>3, BookFacts DEF F!Pay, F!Close

\* The payments until a cycle's are what the walk counted as paid before, and no
\* more than the cycle owed.
CardOk(k, w, ledger, charges) ==
    /\ Entries(w.pays) /\ w.before = F!Amounts(w.pays)
    /\ \A e \in w.pays : e.amt > 0 /\ \E j \in F!CyclesDue : j <= k /\ e.day = F!Pay(j)
    /\ \A j \in F!CyclesDue : (\E e \in w.pays : e.day = F!Pay(j)) =>
          F!Amounts(F!Until(F!Pay(j), w.pays)) <= F!OwedAt(j, ledger, charges)

LEMMA OwedNatural ==
    ASSUME NEW ledger, Entries(ledger), NEW charges, Entries(charges), NEW k, opening["card"] \in Int
    PROVE  F!OwedAt(k, ledger, charges) \in Nat
<1>1. F!Until(F!Close(k), ledger) \in SUBSET ledger /\ F!Until(F!Close(k), charges) \in SUBSET charges
  BY DEF F!Until
<1>2. F!Amounts(F!Until(F!Close(k), ledger)) \in Int /\ F!Amounts(F!Until(F!Close(k), charges)) \in Int
  BY <1>1, AmountsPart
<1>3. QED
  BY <1>2 DEF F!OwedAt, F!Larger

LEMMA CardCycleKeeps ==
    ASSUME NEW ledger, Entries(ledger), \A e \in ledger : e.in => e.amt >= 0,
           NEW charges, Entries(charges), opening["card"] \in Int,
           card \in [fixed : Int, cycle : Int, amount : Int, payable : BOOLEAN],
           NEW k \in Nat, NEW w, CardOk(k - 1, w, ledger, charges)
    PROVE  CardOk(k, F!CardCycle(k, w, ledger, charges), ledger, charges)
<1> DEFINE owed == F!OwedAt(k, ledger, charges)
           credit == {e \in ledger : e.in /\ e.id \notin w.used /\ F!Close(k) < e.day /\ e.day <= F!Pay(k)}
           target == F!Target(k, owed)
           out == F!Larger(0, F!Capped(target, owed, w.before) - F!Amounts(credit))
           pays == IF out > 0 THEN w.pays \union {[day |-> F!Pay(k), amt |-> out]} ELSE w.pays
           new == [before |-> w.before + out, used |-> w.used \union {e.id : e \in credit}, pays |-> pays]
<1>1. F!CardCycle(k, w, ledger, charges) = IF k \notin F!CyclesDue THEN w ELSE new
  BY DEF F!CardCycle
<1>2. /\ Entries(w.pays) /\ w.before = F!Amounts(w.pays) /\ w.before \in Int
      /\ \A e \in w.pays : e.amt > 0 /\ \E j \in F!CyclesDue : j <= k - 1 /\ e.day = F!Pay(j)
      /\ \A j \in F!CyclesDue : (\E e \in w.pays : e.day = F!Pay(j)) =>
            F!Amounts(F!Until(F!Pay(j), w.pays)) <= F!OwedAt(j, ledger, charges)
  BY AmountsInt DEF CardOk
<1>3. F!CyclesDue \subseteq Nat
  BY DEF F!CyclesDue
<1>4. CASE k \notin F!CyclesDue
  <2>1. \A e \in w.pays : e.amt > 0 /\ \E j \in F!CyclesDue : j <= k /\ e.day = F!Pay(j)
    BY <1>2, <1>3
  <2>2. CardOk(k, w, ledger, charges)
    BY <1>2, <2>1 DEF CardOk
  <2>3. QED
    BY <1>1, <1>4, <2>2
<1>5. CASE k \in F!CyclesDue
  <2>1. owed \in Nat
    BY OwedNatural
  <2>2. F!Amounts(credit) \in Nat
    <3>1. credit \in SUBSET ledger
      OBVIOUS
    <3>2. Entries(credit) /\ \A e \in credit : e.amt >= 0
      BY <3>1, AmountsPart
    <3> HIDE DEF credit
    <3>3. QED
      BY <3>2, AmountsNatural
  <2> HIDE DEF owed, credit
  <2>3. target \in Int
    BY <2>1 DEF F!Target
  <2> HIDE DEF target
  <2>4. out \in Nat /\ (out > 0 => w.before + out <= owed)
    BY <1>2, <2>1, <2>2, <2>3 DEF F!Larger, F!Smaller, F!Capped
  <2> HIDE DEF out
  <2>5. F!Pay(k) \in Int /\ \A j \in Nat : F!Pay(j) \in Int /\ (j < k => F!Pay(j) < F!Pay(k))
    BY CyclesFollow
  <2>6. \A e \in w.pays : e.day \in Int /\ e.day < F!Pay(k)
    <3>1. SUFFICES ASSUME NEW e \in w.pays
                   PROVE  e.day \in Int /\ e.day < F!Pay(k)
      OBVIOUS
    <3>2. PICK j \in F!CyclesDue : j <= k - 1 /\ e.day = F!Pay(j)
      BY <1>2
    <3>3. j \in Nat /\ j < k
      BY <1>3, <3>2
    <3>4. QED
      BY <2>5, <3>2, <3>3
  <2> DEFINE x == [day |-> F!Pay(k), amt |-> out]
  <2>7. x.day = F!Pay(k) /\ x.amt = out
    OBVIOUS
  <2>8. pays = IF out > 0 THEN w.pays \union {x} ELSE w.pays
    OBVIOUS
  <2>9. new.before = w.before + out /\ new.pays = pays
    OBVIOUS
  <2> HIDE DEF x, pays, new
  <2>10. Entries(pays) /\ F!Amounts(pays) = w.before + out
    <3>1. CASE out > 0
      <4>1. x \notin w.pays
        BY <2>5, <2>6, <2>7
      <4>2. QED
        BY <1>2, <2>4, <2>5, <2>7, <2>8, <3>1, <4>1, AmountsAdd
    <3>2. CASE ~ (out > 0)
      <4>1. out = 0
        BY <2>4, <3>2
      <4>2. QED
        BY <1>2, <2>8, <3>2, <4>1
    <3>3. QED
      BY <3>1, <3>2
  <2>11. \A e \in pays : e.amt > 0 /\ \E j \in F!CyclesDue : j <= k /\ e.day = F!Pay(j)
    <3>1. SUFFICES ASSUME NEW e \in pays
                   PROVE  e.amt > 0 /\ \E j \in F!CyclesDue : j <= k /\ e.day = F!Pay(j)
      OBVIOUS
    <3>2. e \in w.pays \/ (e = x /\ out > 0)
      BY <2>8
    <3>3. CASE e \in w.pays
      BY <1>2, <1>3, <3>3
    <3>4. CASE e = x /\ out > 0
      BY <1>5, <2>7, <3>4
    <3>5. QED
      BY <3>2, <3>3, <3>4
  <2>12. ASSUME NEW j \in F!CyclesDue, NEW e \in pays, e.day = F!Pay(j)
         PROVE  F!Amounts(F!Until(F!Pay(j), pays)) <= F!OwedAt(j, ledger, charges)
    <3>1. e \in w.pays \/ (e = x /\ out > 0)
      BY <2>8
    <3>2. CASE e \in w.pays
      <4>1. F!Pay(j) < F!Pay(k)
        BY <2>6, <2>12, <3>2
      <4>2. F!Pay(j) \in Int
        BY <1>3, <2>5
      <4>3. F!Until(F!Pay(j), pays) = F!Until(F!Pay(j), w.pays)
        BY <2>5, <2>7, <2>8, <4>1, <4>2 DEF F!Until
      <4>4. QED
        BY <1>2, <2>12, <3>2, <4>3
    <3>3. CASE e = x /\ out > 0
      <4>1. F!Pay(j) = F!Pay(k)
        BY <2>7, <2>12, <3>3
      <4>2. j = k
        <5>1. j \in Nat /\ k \in Nat
          BY <1>3
        <5>2. ~ (j < k) /\ ~ (k < j)
          BY <4>1, <5>1, CyclesFollow
        <5>3. QED
          BY <5>1, <5>2
      <4>3. F!Until(F!Pay(k), pays) = pays
        BY <2>5, <2>6, <2>7, <2>8 DEF F!Until
      <4>4. QED
        BY <2>4, <2>10, <3>3, <4>2, <4>3 DEF owed
    <3>4. QED
      BY <3>1, <3>2, <3>3
  <2>13. CardOk(k, new, ledger, charges)
    BY <2>9, <2>10, <2>11, <2>12 DEF CardOk
  <2>14. QED
    BY <1>1, <1>5, <2>13
<1>6. QED
  BY <1>4, <1>5

\* The walk over the cycles of the horizon.
CardSteps(ledger, charges, n, f) ==
    f = [k \in -1 .. n |-> IF k = -1 THEN [before |-> 0, used |-> {}, pays |-> {}]
                           ELSE F!CardCycle(k, f[k - 1], ledger, charges)]

LEMMA CardStepsExist ==
    ASSUME NEW ledger, NEW charges, NEW n \in Nat
    PROVE  \E f : CardSteps(ledger, charges, n, f)
<1> DEFINE Is(m, f) == f = [k \in -1 .. m |->
                              IF k = -1 THEN [before |-> 0, used |-> {}, pays |-> {}]
                              ELSE F!CardCycle(k, f[k - 1], ledger, charges)]
           T == {m \in Nat : \E f : Is(m - 1, f)}
<1>1. 0 \in T
  <2> DEFINE f == [k \in -1 .. -1 |-> [before |-> 0, used |-> {}, pays |-> {}]]
  <2>1. \A k \in -1 .. -1 : k = -1
    OBVIOUS
  <2>2. Is(-1, f)
    BY <2>1
  <2>3. 0 - 1 = -1
    OBVIOUS
  <2> HIDE DEF f, Is
  <2>4. QED
    BY <2>2, <2>3
<1>2. ASSUME NEW m \in Nat, m \in T
      PROVE  m + 1 \in T
  <2>1. PICK f : Is(m - 1, f)
    BY <1>2
  <2> DEFINE g == [k \in -1 .. m |-> IF k = m THEN F!CardCycle(m, f[m - 1], ledger, charges) ELSE f[k]]
  <2>2. /\ \A k \in -1 .. m : k # m => k \in -1 .. m - 1
        /\ \A k \in -1 .. m : k # -1 => k - 1 \in -1 .. m /\ k - 1 # m
        /\ m # -1 /\ m \in -1 .. m
    OBVIOUS
  <2>3. ASSUME NEW k \in -1 .. m
        PROVE  g[k] = IF k = -1 THEN [before |-> 0, used |-> {}, pays |-> {}]
                      ELSE F!CardCycle(k, g[k - 1], ledger, charges)
    <3>1. k # -1 => g[k - 1] = f[k - 1]
      BY <2>2
    <3>2. CASE k = m
      BY <2>2, <3>1, <3>2
    <3>3. CASE k # m
      <4>1. g[k] = f[k] /\ k \in -1 .. m - 1
        BY <2>2, <3>3
      <4>2. f[k] = IF k = -1 THEN [before |-> 0, used |-> {}, pays |-> {}]
                   ELSE F!CardCycle(k, f[k - 1], ledger, charges)
        BY <2>1, <4>1
      <4>3. QED
        BY <3>1, <4>1, <4>2
    <3>4. QED
      BY <3>2, <3>3
  <2>4. Is(m, g)
    BY <2>3
  <2>5. (m + 1) - 1 = m
    OBVIOUS
  <2> HIDE DEF g, Is
  <2>6. QED
    BY <2>4, <2>5
<1>3. n + 1 \in T
  <2> HIDE DEF T
  <2>1. Nat \subseteq T
    BY <1>1, <1>2, SizeInduction
  <2>2. QED
    BY <2>1
<1>4. (n + 1) - 1 = n
  OBVIOUS
<1>5. \E f : Is(n, f)
  BY <1>3, <1>4
<1>6. QED
  BY <1>5 DEF CardSteps

\* What the card pays in all.
LEMMA CardPaysOk ==
    ASSUME NEW ledger, Entries(ledger), \A e \in ledger : e.in => e.amt >= 0,
           NEW charges, Entries(charges), opening["card"] \in Int,
           card \in [fixed : Int, cycle : Int, amount : Int, payable : BOOLEAN]
    PROVE  LET pays == F!CardPays(ledger, charges) IN
           /\ Entries(pays)
           /\ \A e \in pays : e.amt > 0
           /\ \A j \in F!CyclesDue : (\E e \in pays : e.day = F!Pay(j)) =>
                  F!Amounts(F!Until(F!Pay(j), pays)) <= F!OwedAt(j, ledger, charges)
<1> DEFINE n == F!LastCycle
           walk == CHOOSE f : CardSteps(ledger, charges, n, f)
           pays == F!CardPays(ledger, charges)
<1>1. pays = IF card.payable THEN walk[n].pays ELSE {}
  BY DEF F!CardPays, CardSteps
<1>2. n \in Nat
  BY CyclesFollow
<1> HIDE DEF n, pays
<1>3. CardSteps(ledger, charges, n, walk)
  <2>1. \E f : CardSteps(ledger, charges, n, f)
    BY <1>2, CardStepsExist
  <2>2. QED
    BY <2>1
<1> HIDE DEF walk
<1>4. Entries({})
  BY FS_EmptySet DEF Entries
<1> DEFINE T == {m \in Nat : m <= n + 1 => CardOk(m - 1, walk[m - 1], ledger, charges)}
<1>5. 0 \in T
  <2> DEFINE w == [before |-> 0, used |-> {}, pays |-> {}]
  <2>1. walk[-1] = w
    BY <1>2, <1>3 DEF CardSteps
  <2>2. w.before = 0 /\ w.pays = {}
    OBVIOUS
  <2> HIDE DEF w
  <2>3. CardOk(-1, w, ledger, charges)
    BY <1>4, <2>2, AmountsNone DEF CardOk
  <2>4. 0 - 1 = -1
    OBVIOUS
  <2>5. QED
    BY <2>1, <2>3, <2>4
<1>6. ASSUME NEW m \in Nat, m \in T
      PROVE  m + 1 \in T
  <2>1. SUFFICES ASSUME m + 1 <= n + 1
                 PROVE  CardOk((m + 1) - 1, walk[(m + 1) - 1], ledger, charges)
    OBVIOUS
  <2>2. (m + 1) - 1 = m /\ m \in -1 .. n /\ m # -1 /\ m <= n + 1
    BY <1>2, <2>1
  <2>3. CardOk(m - 1, walk[m - 1], ledger, charges)
    BY <1>6, <2>2
  <2>4. walk[m] = F!CardCycle(m, walk[m - 1], ledger, charges)
    BY <1>3, <2>2 DEF CardSteps
  <2>5. CardOk(m, walk[m], ledger, charges)
    BY <2>3, <2>4, CardCycleKeeps
  <2>6. QED
    BY <2>2, <2>5
<1>7. n + 1 \in T
  <2> HIDE DEF T
  <2>1. Nat \subseteq T
    BY <1>5, <1>6, SizeInduction
  <2>2. QED
    BY <1>2, <2>1
<1>8. (n + 1) - 1 = n
  BY <1>2
<1>9. CardOk(n, walk[n], ledger, charges)
  BY <1>2, <1>7, <1>8
<1>10. CASE card.payable
  BY <1>1, <1>9, <1>10 DEF CardOk, pays
<1>11. CASE ~ card.payable
  BY <1>1, <1>4, <1>11 DEF pays
<1>12. QED
  BY <1>10, <1>11

-----------------------------------------------------------------------------
(* Projections: the books.                                                    *)

\* The books are typed, a row's number is no larger than how many there are, and
\* what is received is not negative.
BookInv ==
    /\ F!RowsOk(rows)
    /\ IsFiniteSet(series) /\ \A s \in series : F!TemplateOk(s)
    /\ opening \in [F!AccountNames -> Int]
    /\ card \in [fixed : Int, cycle : Int, amount : Int, payable : BOOLEAN]
    /\ DOMAIN seen = F!AccountNames

\* Entries of which those received are not negative.
Ledgered(S) == Entries(S) /\ \A e \in S : e.in => e.amt >= 0

LEMMA LedgeredUnion ==
    ASSUME NEW S, NEW T, Ledgered(S), Ledgered(T)
    PROVE  Ledgered(S \union T)
  BY FS_Union DEF Ledgered, Entries

LEMMA LedgeredPart ==
    ASSUME NEW S, Ledgered(S), NEW T \in SUBSET S
    PROVE  Ledgered(T)
  BY FS_Subset DEF Ledgered, Entries

LEMMA RowsLedgered ==
    ASSUME BookInv
    PROVE  Ledgered(rows)
  BY SameNotions DEF BookInv, F!RowsOk, F!RowOk, Ledgered, Entries

LEMMA ImageFinite ==
    ASSUME NEW S, IsFiniteSet(S), NEW f, S = DOMAIN f
    PROVE  IsFiniteSet({f[x] : x \in S})
<1> DEFINE T == {f[x] : x \in S}
           g == [x \in S |-> f[x]]
<1>1. g \in Surjection(S, T)
  BY DEF Surjection
<1>2. QED
  BY <1>1, FS_Surjection

LEMMA OccurrencesOk ==
    ASSUME NEW s, F!TemplateOk(s)
    PROVE  IsFiniteSet(F!OccurrencesIn(s)) /\ \A d \in F!OccurrencesIn(s) : d \in Start .. LastDay
<1>1. s.due \in Int /\ s.freq \in Nat \ {0}
  BY DEF F!TemplateOk, F!Templates
<1>2. \A k \in Int : s.due + k * s.freq \in Int
  BY <1>1
<1>3. F!OccurrencesIn(s) \in SUBSET (Start .. LastDay)
  BY <1>2, BookFacts DEF F!OccurrencesIn
<1>4. IsFiniteSet(Start .. LastDay)
  BY FS_Interval, BookFacts
<1>5. QED
  BY <1>3, <1>4, FS_Subset

LEMMA LegsOk ==
    ASSUME NEW s, F!TemplateOk(s), NEW d \in Int
    PROVE  /\ IsFiniteSet(F!LegsOf(s, d))
           /\ \A l \in F!LegsOf(s, d) :
                /\ l.acct \in F!AccountNames /\ l.day = d /\ l.amt \in Int /\ l.in \in BOOLEAN
                /\ l.in => l.amt >= 0
           /\ \A l, m \in F!LegsOf(s, d) : l.acct = m.acct => l = m
<1>1. /\ s.from \in F!AccountNames /\ s.amt \in Int
      /\ s.to # "none" => s.to \in F!AccountNames /\ s.amt >= 0 /\ s.from # s.to
  BY DEF F!TemplateOk, F!Templates
<1> DEFINE out == F!Leg(s, d, s.from, -s.amt, FALSE)
           in == F!Leg(s, d, s.to, s.amt, TRUE)
           one == F!Leg(s, d, s.from, s.amt, FALSE)
<1>2. /\ out.acct = s.from /\ out.day = d /\ out.amt = -s.amt /\ out.in = FALSE
      /\ in.acct = s.to /\ in.day = d /\ in.amt = s.amt /\ in.in = TRUE
      /\ one.acct = s.from /\ one.day = d /\ one.amt = s.amt /\ one.in = FALSE
  BY DEF F!Leg
<1>3. F!LegsOf(s, d) = IF s.to = "none" THEN {one} ELSE {out, in}
  BY DEF F!LegsOf
<1> HIDE DEF out, in, one
<1>4. IsFiniteSet({one}) /\ IsFiniteSet({out, in})
  <2>1. {out, in} = {out} \union {in}
    OBVIOUS
  <2>2. IsFiniteSet({one}) /\ IsFiniteSet({out}) /\ IsFiniteSet({in})
    BY FS_Singleton, Zenon
  <2>3. IsFiniteSet({out} \union {in})
    BY <2>2, FS_Union
  <2>4. QED
    BY <2>1, <2>2, <2>3
<1>5. CASE s.to = "none"
  BY <1>1, <1>2, <1>3, <1>4, <1>5
<1>6. CASE s.to # "none"
  <2>1. F!LegsOf(s, d) = {out, in} /\ s.from # s.to /\ s.to \in F!AccountNames /\ s.amt >= 0
    BY <1>1, <1>3, <1>6
  <2>2. ASSUME NEW l \in {out, in}
        PROVE  /\ l.acct \in F!AccountNames /\ l.day = d /\ l.amt \in Int /\ l.in \in BOOLEAN
               /\ l.in => l.amt >= 0
    <3>1. CASE l = out
      <4>1. l.amt \in Int
        BY <1>1, <1>2, <3>1
      <4>2. ~ l.in /\ l.in \in BOOLEAN /\ l.acct \in F!AccountNames /\ l.day = d
        BY <1>1, <1>2, <3>1, Zenon
      <4>3. QED
        BY <4>1, <4>2
    <3>2. CASE l = in
      BY <1>1, <1>2, <2>1, <3>2
    <3>3. QED
      BY <3>1, <3>2
  <2>3. out.acct # in.acct
    BY <1>2, <2>1
  <2>4. QED
    BY <1>4, <2>1, <2>2, <2>3
<1>7. QED
  BY <1>5, <1>6

LEMMA UpcomingOk ==
    ASSUME BookInv
    PROVE  /\ Ledgered(F!Upcoming)
           /\ \A e \in F!Upcoming : e.day >= Start
<1> DEFINE D(s) == {d \in F!OccurrencesIn(s) : F!Unwritten(s, d)}
           U(s) == UNION {F!LegsOf(s, d) : d \in D(s)}
<1>1. F!Upcoming = UNION {U(s) : s \in series}
  BY DEF F!Upcoming
<1>2. IsFiniteSet(series) /\ \A s \in series : F!TemplateOk(s)
  BY DEF BookInv
<1>3. ASSUME NEW s \in series
      PROVE  IsFiniteSet(D(s)) /\ \A d \in D(s) : d \in Start .. LastDay
  <2>1. D(s) \in SUBSET F!OccurrencesIn(s)
    OBVIOUS
  <2>2. QED
    BY <1>2, <2>1, OccurrencesOk, FS_Subset
<1> HIDE DEF D
<1>4. ASSUME NEW s \in series
      PROVE  IsFiniteSet(U(s))
  <2> DEFINE f == [d \in D(s) |-> F!LegsOf(s, d)]
             T == {f[d] : d \in D(s)}
  <2>1. U(s) = UNION T
    OBVIOUS
  <2>2. \A d \in D(s) : IsFiniteSet(f[d])
    BY <1>2, <1>3, LegsOk, BookFacts
  <2>3. IsFiniteSet(D(s)) /\ D(s) = DOMAIN f
    BY <1>3
  <2> HIDE DEF f
  <2>4. IsFiniteSet(T)
    BY <2>3, ImageFinite
  <2>5. QED
    BY <2>1, <2>2, <2>4, FS_UNION
<1>5. ASSUME NEW s \in series, NEW e \in U(s)
      PROVE  e.day \in Int /\ e.day >= Start /\ e.amt \in Int /\ (e.in => e.amt >= 0)
  <2>1. PICK d \in D(s) : e \in F!LegsOf(s, d)
    OBVIOUS
  <2>2. d \in Int /\ d >= Start
    BY <1>3, BookFacts
  <2>3. QED
    BY <1>2, <2>1, <2>2, LegsOk
<1> HIDE DEF U
<1>6. IsFiniteSet(F!Upcoming)
  <2> DEFINE f == [s \in series |-> U(s)]
             T == {f[s] : s \in series}
  <2>1. F!Upcoming = UNION T
    BY <1>1
  <2>2. \A s \in series : IsFiniteSet(f[s])
    BY <1>4
  <2>3. series = DOMAIN f
    OBVIOUS
  <2> HIDE DEF f
  <2>4. IsFiniteSet(T)
    BY <1>2, <2>3, ImageFinite
  <2>5. QED
    BY <2>1, <2>2, <2>4, FS_UNION
<1>7. \A e \in F!Upcoming : \E s \in series : e \in U(s)
  BY <1>1
<1>8. QED
  BY <1>5, <1>6, <1>7 DEF Ledgered, Entries

LEMMA BookLedgers ==
    ASSUME BookInv
    PROVE  /\ Ledgered(F!CardLedger(F!Upcoming)) /\ Ledgered(F!Charges(F!Upcoming))
           /\ Ledgered(F!LoanLegs(F!Upcoming)) /\ \A e \in F!LoanLegs(F!Upcoming) : e.day >= Start
           /\ F!Balance("loan") \in Int /\ opening["card"] \in Int
           /\ card \in [fixed : Int, cycle : Int, amount : Int, payable : BOOLEAN]
<1> DEFINE up == F!Upcoming
           legs == F!LoanLegs(up)
           ledger == F!CardLedger(up)
           charges == F!Charges(up)
<1>1. Ledgered(up) /\ Ledgered(rows) /\ \A e \in up : e.day >= Start
  BY UpcomingOk, RowsLedgered
<1> HIDE DEF up
<1>2. Ledgered(ledger) /\ Ledgered(charges)
  <2>1. ledger \in SUBSET (rows \union up) /\ charges \in SUBSET up
    BY DEF F!CardLedger, F!Charges, F!Of
  <2>2. QED
    BY <1>1, <2>1, LedgeredUnion, LedgeredPart
<1>3. Ledgered(legs) /\ \A e \in legs : e.day >= Start
  <2>1. legs \in SUBSET (rows \union up)
    BY DEF F!LoanLegs, F!Pending, F!Within, F!Of
  <2>2. \A e \in legs : e \in up \/ e.day >= Start
    BY DEF F!LoanLegs, F!Pending, F!Within, F!Of
  <2>3. QED
    BY <1>1, <2>1, <2>2, LedgeredUnion, LedgeredPart
<1>4. opening["card"] \in Int /\ opening["loan"] \in Int
      /\ card \in [fixed : Int, cycle : Int, amount : Int, payable : BOOLEAN]
  BY DEF BookInv, F!AccountNames
<1>5. F!Balance("loan") \in Int
  <2> DEFINE S == {r \in F!Of("loan", rows) : r.st = "settled"}
  <2>1. S \in SUBSET rows
    BY DEF F!Of
  <2>2. Entries(rows)
    BY <1>1 DEF Ledgered
  <2>3. F!Amounts(S) \in Int
    BY <2>1, <2>2, AmountsPart
  <2>4. QED
    BY <1>4, <2>3 DEF F!Balance
<1>6. QED
  BY <1>2, <1>3, <1>4, <1>5 DEF up

\* What the two walks pay.
LEMMA BookWalks ==
    ASSUME BookInv
    PROVE  /\ LoanOk(F!LastPeriod, F!Balance("loan"), F!LoanLegs(F!Upcoming), F!LoanWalk(F!Upcoming))
           /\ LET ledger == F!CardLedger(F!Upcoming)
                  charges == F!Charges(F!Upcoming)
                  pays == F!CardPays(ledger, charges)
              IN  /\ Entries(pays) /\ \A e \in pays : e.amt > 0
                  /\ \A j \in F!CyclesDue : (\E e \in pays : e.day = F!Pay(j)) =>
                        F!Amounts(F!Until(F!Pay(j), pays)) <= F!OwedAt(j, ledger, charges)
<1> DEFINE ledger == F!CardLedger(F!Upcoming)
           charges == F!Charges(F!Upcoming)
<1>1. LoanOk(F!LastPeriod, F!Balance("loan"), F!LoanLegs(F!Upcoming), F!LoanWalk(F!Upcoming))
  BY BookLedgers, LoanWalkOk DEF Ledgered
<1>2. /\ Entries(ledger) /\ Entries(charges) /\ \A e \in ledger : e.in => e.amt >= 0
      /\ opening["card"] \in Int
      /\ card \in [fixed : Int, cycle : Int, amount : Int, payable : BOOLEAN]
  BY BookLedgers DEF Ledgered
<1> HIDE DEF ledger, charges
<1>3. LET pays == F!CardPays(ledger, charges)
      IN  /\ Entries(pays) /\ \A e \in pays : e.amt > 0
          /\ \A j \in F!CyclesDue : (\E e \in pays : e.day = F!Pay(j)) =>
                F!Amounts(F!Until(F!Pay(j), pays)) <= F!OwedAt(j, ledger, charges)
  BY <1>2, CardPaysOk
<1>4. QED
  BY <1>1, <1>3 DEF ledger, charges

\* No projected payment turns a debt into a credit.
LEMMA BookKeepsDebt ==
    ASSUME BookInv
    PROVE  F!NeverIntoCredit
<1> DEFINE up == F!Upcoming
           legs == F!LoanLegs(up)
           loan == F!LoanWalk(up)
           ledger == F!CardLedger(up)
           charges == F!Charges(up)
           pays == F!CardPays(ledger, charges)
<1>1. LoanOk(F!LastPeriod, F!Balance("loan"), legs, loan)
  BY BookWalks
<1>2. \A j \in F!CyclesDue : (\E e \in pays : e.day = F!Pay(j)) =>
         F!Amounts(F!Until(F!Pay(j), pays)) <= F!OwedAt(j, ledger, charges)
  BY BookWalks
<1> HIDE DEF legs, loan, ledger, charges, pays
<1>3. \A p \in 0 .. F!LastPeriod :
        (\E e \in loan.pays : F!From(p) <= e.day /\ e.day <= F!To(p)) =>
            F!Balance("loan") + F!Amounts(F!Until(F!To(p), legs)) + F!Amounts(F!Until(F!To(p), loan.pays))
              - F!Amounts(F!Until(F!To(p), loan.interest)) <= 0
  BY <1>1 DEF LoanOk, PaysIn, Ends
<1>4. \A p \in pays : \A k \in F!CyclesDue :
        F!Pay(k) = p.day => F!Amounts(F!Until(p.day, pays)) <= F!OwedAt(k, ledger, charges)
  <2>1. SUFFICES ASSUME NEW p \in pays, NEW k \in F!CyclesDue, F!Pay(k) = p.day
                 PROVE  F!Amounts(F!Until(p.day, pays)) <= F!OwedAt(k, ledger, charges)
    OBVIOUS
  <2>2. F!Amounts(F!Until(F!Pay(k), pays)) <= F!OwedAt(k, ledger, charges)
    BY <1>2, <2>1
  <2>3. QED
    BY <2>1, <2>2
<1>5. QED
  BY <1>3, <1>4 DEF F!NeverIntoCredit, up, legs, loan, ledger, charges, pays

\* New rows take the next number, one for each account.
LEMMA RowsAdd ==
    ASSUME F!RowsOk(rows), NEW T, IsFiniteSet(T),
           \A t \in T : F!RowOk(t) /\ t.id[2] = F!NewId,
           \A t, q \in T : t.id = q.id => t = q
    PROVE  F!RowsOk(rows \union T)
<1> DEFINE S == rows \union T
           n == Cardinality(rows)
<1>1. /\ IsFiniteSet(rows) /\ n \in Nat /\ F!NewId = n + 1
      /\ \A r \in rows : F!RowOk(r) /\ r.id[2] <= n
      /\ \A r, q \in rows : r.id = q.id => r = q
  BY SameNotions, FS_CardinalityType DEF F!RowsOk, F!NewId
<1>2. IsFiniteSet(S) /\ Cardinality(S) \in Nat
  BY <1>1, FS_Union, FS_CardinalityType
<1>3. n <= Cardinality(S)
  <2>1. rows \in SUBSET S
    OBVIOUS
  <2>2. QED
    BY <1>2, <2>1, FS_Subset
<1>4. \A r \in S : r.id[2] \in Nat
  BY <1>1 DEF F!RowOk
<1>5. \A r \in rows, t \in T : r.id # t.id
  BY <1>1, <1>4
<1>6. T # {} => n + 1 <= Cardinality(S)
  <2>1. SUFFICES ASSUME NEW t \in T
                 PROVE  n + 1 <= Cardinality(S)
    OBVIOUS
  <2>2. t \notin rows
    BY <1>5
  <2>3. Cardinality(rows \union {t}) = n + 1 /\ IsFiniteSet(rows \union {t})
    BY <1>1, <2>2, FS_AddElement
  <2>4. rows \union {t} \in SUBSET S
    OBVIOUS
  <2>5. Cardinality(rows \union {t}) <= Cardinality(S)
    BY <1>2, <2>4, FS_Subset
  <2>6. QED
    BY <2>3, <2>5
<1>7. \A r \in S : F!RowOk(r) /\ r.id[2] <= Cardinality(S)
  <2>1. SUFFICES ASSUME NEW r \in S
                 PROVE  F!RowOk(r) /\ r.id[2] <= Cardinality(S)
    OBVIOUS
  <2>2. CASE r \in rows
    BY <1>1, <1>2, <1>3, <1>4, <2>2
  <2>3. CASE r \in T
    BY <1>1, <1>2, <1>6, <2>3
  <2>4. QED
    BY <2>2, <2>3
<1>8. \A r, q \in S : r.id = q.id => r = q
  BY <1>1, <1>5
<1> HIDE DEF S
<1>9. F!RowsOk(S)
  BY <1>2, <1>7, <1>8, SameNotions DEF F!RowsOk
<1>10. QED
  BY <1>9 DEF S

LEMMA RowIs ==
    ASSUME NEW a \in F!AccountNames, NEW d \in Int, NEW amt \in Int, NEW st \in {"pending", "settled"},
           NEW of \in Nat, NEW in \in BOOLEAN, in => amt >= 0, IsFiniteSet(rows)
    PROVE  LET r == F!Row(<<a, F!NewId>>, a, d, amt, st, of, in) IN
           F!RowOk(r) /\ r.id = <<a, F!NewId>> /\ r.id[2] = F!NewId
<1> DEFINE n == F!NewId
           r == F!Row(<<a, n>>, a, d, amt, st, of, in)
<1>1. n \in Nat
  BY SameNotions, FS_CardinalityType DEF F!NewId
<1> HIDE DEF n
<1>2. /\ r.id = <<a, n>> /\ r.in = in /\ r.amt = amt
      /\ r = [id |-> <<a, n>>, acct |-> a, day |-> d, date |-> d, amt |-> amt, st |-> st, series |-> of, in |-> in]
  BY DEF F!Row
<1>3. r \in [id : F!AccountNames \X Nat, acct : F!AccountNames, day : Int, date : Int, amt : Int,
             st : {"pending", "settled"}, series : Nat, in : BOOLEAN]
  BY <1>1, <1>2
<1>4. r.in => r.amt >= 0
  BY <1>2
<1>5. F!RowOk(r)
  BY <1>3, <1>4 DEF F!RowOk
<1>6. QED
  BY <1>2, <1>5 DEF n

LEMMA BookGenerate ==
    ASSUME BookInv, NEW s \in series, F!Generate(s)
    PROVE  BookInv'
<1> DEFINE Made(l) == F!Row(<<l.acct, F!NewId>>, l.acct, l.day, l.amt, "pending", s.id, l.in)
           legs == F!LegsOf(s, s.due)
           T == IF F!Unwritten(s, s.due) THEN {Made(l) : l \in legs} ELSE {}
           later == [s EXCEPT !.due = @ + s.freq, !.left = IF @ > 0 THEN @ - 1 ELSE @]
<1>1. /\ rows' = rows \union T
      /\ series' = (series \ {s}) \union {later}
      /\ opening' = opening /\ card' = card /\ seen' = seen /\ s.left # 0
  BY DEF F!Generate
<1>2. /\ F!RowsOk(rows) /\ IsFiniteSet(rows) /\ IsFiniteSet(series)
      /\ \A t \in series : F!TemplateOk(t)
  BY SameNotions DEF BookInv, F!RowsOk
<1>3. s \in F!Templates /\ s.due \in Int /\ s.id \in Nat
  BY <1>2 DEF F!TemplateOk, F!Templates
<1>4. /\ IsFiniteSet(legs)
      /\ \A l \in legs : /\ l.acct \in F!AccountNames /\ l.day \in Int /\ l.amt \in Int /\ l.in \in BOOLEAN
                         /\ l.in => l.amt >= 0
      /\ \A l, m \in legs : l.acct = m.acct => l = m
  BY <1>2, <1>3, LegsOk
<1> HIDE DEF legs
<1>5. ASSUME NEW l \in legs
      PROVE  F!RowOk(Made(l)) /\ Made(l).id = <<l.acct, F!NewId>> /\ Made(l).id[2] = F!NewId
  <2>1. /\ l.acct \in F!AccountNames /\ l.day \in Int /\ l.amt \in Int /\ l.in \in BOOLEAN
        /\ l.in => l.amt >= 0
        /\ "pending" \in {"pending", "settled"} /\ s.id \in Nat /\ IsFiniteSet(rows)
    BY <1>2, <1>3, <1>4
  <2>2. LET r == F!Row(<<l.acct, F!NewId>>, l.acct, l.day, l.amt, "pending", s.id, l.in) IN
        F!RowOk(r) /\ r.id = <<l.acct, F!NewId>> /\ r.id[2] = F!NewId
    <3> DEFINE a == l.acct
               d == l.day
               amt == l.amt
               in == l.in
               of == s.id
    <3>1. /\ a \in F!AccountNames /\ d \in Int /\ amt \in Int /\ in \in BOOLEAN
          /\ in => amt >= 0
          /\ "pending" \in {"pending", "settled"} /\ of \in Nat /\ IsFiniteSet(rows)
      BY <2>1
    <3> HIDE DEF a, d, amt, in, of, Made
    <3>2. LET r == F!Row(<<a, F!NewId>>, a, d, amt, "pending", of, in) IN
          F!RowOk(r) /\ r.id = <<a, F!NewId>> /\ r.id[2] = F!NewId
      BY <3>1, RowIs
    <3>3. QED
      BY <3>2 DEF a, d, amt, in, of
  <2>3. QED
    BY <2>2
<1>6. IsFiniteSet(T)
  <2> DEFINE f == [l \in legs |-> Made(l)]
  <2>1. legs = DOMAIN f /\ {f[l] : l \in legs} = {Made(l) : l \in legs}
    OBVIOUS
  <2> HIDE DEF f, Made
  <2>2. IsFiniteSet({Made(l) : l \in legs})
    BY <1>4, <2>1, ImageFinite
  <2>3. QED
    BY <2>2, FS_EmptySet
<1> HIDE DEF Made
<1>7. \A t \in T : F!RowOk(t) /\ t.id[2] = F!NewId
  BY <1>5
<1>8. \A t, q \in T : t.id = q.id => t = q
  <2>1. SUFFICES ASSUME NEW t \in T, NEW q \in T, t.id = q.id
                 PROVE  t = q
    OBVIOUS
  <2>2. PICK l \in legs : t = Made(l)
    OBVIOUS
  <2>3. PICK m \in legs : q = Made(m)
    OBVIOUS
  <2>4. <<l.acct, F!NewId>> = <<m.acct, F!NewId>>
    BY <1>5, <2>1, <2>2, <2>3
  <2>5. l.acct = m.acct
    BY <2>4
  <2>6. QED
    BY <1>4, <2>2, <2>3, <2>5
<1> HIDE DEF T
<1>9. F!RowsOk(rows')
  BY <1>1, <1>2, <1>6, <1>7, <1>8, RowsAdd
<1>10. F!TemplateOk(later)
  <2>1. s \in [id : Nat \ {0}, from : F!AccountNames, to : F!AccountNames \union {"none"}, amt : Int,
               freq : Nat \ {0}, due : Int, left : Nat \union {-1}]
    BY <1>3 DEF F!Templates
  <2>2. s.due + s.freq \in Int /\ (IF s.left > 0 THEN s.left - 1 ELSE s.left) \in Nat \union {-1}
    BY <2>1
  <2>3. later \in F!Templates
    BY <2>1, <2>2 DEF F!Templates
  <2>4. later.to = s.to /\ later.amt = s.amt /\ later.from = s.from
    BY <2>1
  <2>5. s.to # "none" => s.amt >= 0 /\ s.from # s.to
    BY <1>2 DEF F!TemplateOk
  <2> HIDE DEF later
  <2>6. QED
    BY <2>3, <2>4, <2>5 DEF F!TemplateOk
<1> HIDE DEF later
<1>11. IsFiniteSet(series') /\ \A t \in series' : F!TemplateOk(t)
  BY <1>1, <1>2, <1>10, FS_RemoveElement, FS_AddElement
<1>12. QED
  BY <1>1, <1>9, <1>11 DEF BookInv

LEMMA BookSettle ==
    ASSUME BookInv, NEW r \in rows, F!Settle(r)
    PROVE  BookInv'
<1> DEFINE done == [r EXCEPT !.st = "settled"]
           S == (rows \ {r}) \union {done}
           n == Cardinality(rows)
<1>1. rows' = S /\ series' = series /\ opening' = opening /\ card' = card /\ seen' = seen
  BY DEF F!Settle
<1>2. /\ F!RowsOk(rows) /\ IsFiniteSet(rows) /\ n \in Nat
      /\ \A q \in rows : F!RowOk(q) /\ q.id[2] <= n
      /\ \A q, t \in rows : q.id = t.id => q = t
  BY SameNotions, FS_CardinalityType DEF BookInv, F!RowsOk
<1>3. r \in [id : F!AccountNames \X Nat, acct : F!AccountNames, day : Int, date : Int, amt : Int,
             st : {"pending", "settled"}, series : Nat, in : BOOLEAN]
      /\ (r.in => r.amt >= 0)
  BY <1>2 DEF F!RowOk
<1>4. done.id = r.id /\ F!RowOk(done)
  <2>1. /\ done \in [id : F!AccountNames \X Nat, acct : F!AccountNames, day : Int, date : Int, amt : Int,
                     st : {"pending", "settled"}, series : Nat, in : BOOLEAN]
        /\ done.id = r.id /\ done.in = r.in /\ done.amt = r.amt
    BY <1>3
  <2> HIDE DEF done
  <2>2. QED
    BY <1>3, <2>1 DEF F!RowOk
<1> HIDE DEF done
<1>5. IsFiniteSet(rows \ {r}) /\ Cardinality(rows \ {r}) = n - 1
  BY <1>2, FS_RemoveElement
<1>6. done \notin rows \ {r}
  BY <1>2, <1>4
<1>7. IsFiniteSet(S) /\ Cardinality(S) = n
  <2>1. Cardinality(S) = (n - 1) + 1 /\ IsFiniteSet(S)
    BY <1>5, <1>6, FS_AddElement
  <2>2. QED
    BY <1>2, <2>1
<1>8. /\ \A q \in S : F!RowOk(q) /\ q.id[2] <= n
      /\ \A q, t \in S : q.id = t.id => q = t
  BY <1>2, <1>4
<1> HIDE DEF S
<1>9. F!RowsOk(S)
  BY <1>7, <1>8, SameNotions DEF F!RowsOk
<1>10. QED
  BY <1>1, <1>9 DEF BookInv

LEMMA BookRecord ==
    ASSUME BookInv, NEW a \in {"card", "loan"}, NEW p, p.day \in Int, p.amt \in Int, p.amt > 0,
           F!RecordPayment(a, p)
    PROVE  BookInv'
<1>1. /\ F!RowsOk(rows) /\ IsFiniteSet(rows)
      /\ series' = series /\ opening' = opening /\ card' = card /\ seen' = seen
  BY SameNotions DEF BookInv, F!RowsOk, F!RecordPayment
<1>2. PICK st \in {"pending", "settled"} :
        rows' = rows \union {F!Row(<<"cash", F!NewId>>, "cash", p.day, -p.amt, st, 0, FALSE),
                             F!Row(<<a, F!NewId>>, a, p.day, p.amt, st, 0, TRUE)}
  BY DEF F!RecordPayment
<1> DEFINE paid == F!Row(<<"cash", F!NewId>>, "cash", p.day, -p.amt, st, 0, FALSE)
           got == F!Row(<<a, F!NewId>>, a, p.day, p.amt, st, 0, TRUE)
           T == {paid, got}
<1>3. "cash" \in F!AccountNames /\ a \in F!AccountNames /\ a # "cash" /\ -p.amt \in Int
  BY DEF F!AccountNames
<1>4. F!RowOk(paid) /\ paid.id = <<"cash", F!NewId>> /\ paid.id[2] = F!NewId
  <2>1. /\ "cash" \in F!AccountNames /\ p.day \in Int /\ -p.amt \in Int /\ 0 \in Nat
        /\ FALSE \in BOOLEAN /\ (FALSE => -p.amt >= 0) /\ IsFiniteSet(rows)
    BY <1>1, <1>3
  <2>2. QED
    BY <2>1, RowIs, ZenonT(60)
<1>5. F!RowOk(got) /\ got.id = <<a, F!NewId>> /\ got.id[2] = F!NewId
  <2>1. /\ a \in F!AccountNames /\ p.day \in Int /\ p.amt \in Int /\ 0 \in Nat
        /\ TRUE \in BOOLEAN /\ (TRUE => p.amt >= 0) /\ IsFiniteSet(rows)
    BY <1>1, <1>3
  <2>2. QED
    BY <2>1, RowIs, ZenonT(60)
<1>6. rows' = rows \union T
  BY <1>2
<1> HIDE DEF paid, got
<1>7. IsFiniteSet(T)
  <2>1. IsFiniteSet({paid}) /\ IsFiniteSet({got})
    BY FS_Singleton, Zenon
  <2>2. IsFiniteSet({paid} \union {got})
    BY <2>1, FS_Union
  <2>3. T = {paid} \union {got}
    OBVIOUS
  <2>4. QED
    BY <2>2, <2>3
<1>8. paid.id # got.id
  BY <1>3, <1>4, <1>5
<1>9. F!RowsOk(rows')
  BY <1>1, <1>4, <1>5, <1>6, <1>7, <1>8, RowsAdd
<1>10. QED
  BY <1>1, <1>9 DEF BookInv

LEMMA BookNextKeeps ==
    ASSUME BookInv, F!BookNext
    PROVE  BookInv'
<1>1. CASE \E s \in series : F!Generate(s)
  BY <1>1, BookGenerate
<1>2. CASE \E r \in rows : F!Settle(r)
  BY <1>2, BookSettle
<1>3. CASE \E p \in F!CardPayments : F!RecordPayment("card", p)
  <2>1. PICK p \in F!CardPayments : F!RecordPayment("card", p)
    BY <1>3
  <2>2. p.day \in Int /\ p.amt \in Int /\ p.amt > 0
    BY <2>1, BookWalks DEF F!CardPayments, Entries
  <2>3. QED
    BY <2>1, <2>2, BookRecord
<1>4. CASE \E p \in F!LoanPayments : F!RecordPayment("loan", p)
  <2>1. PICK p \in F!LoanPayments : F!RecordPayment("loan", p)
    BY <1>4
  <2>2. p.day \in Int /\ p.amt \in Int /\ p.amt > 0
    BY <2>1, BookWalks DEF F!LoanPayments, Entries, LoanOk
  <2>3. QED
    BY <2>1, <2>2, BookRecord
<1>5. CASE F!Ask
  <2>1. rows' = rows /\ series' = series /\ opening' = opening /\ card' = card /\ seen' = F!Points
    BY <1>5 DEF F!Ask
  <2>2. DOMAIN F!Points = F!AccountNames
    BY DEF F!Points, F!Projected
  <2>3. QED
    BY <2>1, <2>2 DEF BookInv
<1>6. QED
  BY <1>1, <1>2, <1>3, <1>4, <1>5 DEF F!BookNext

LEMMA BookStays ==
    ASSUME BookInv, UNCHANGED bookVars
    PROVE  BookInv'
<1>1. rows' = rows /\ series' = series /\ opening' = opening /\ card' = card /\ seen' = seen
  BY DEF bookVars
<1>2. QED
  BY <1>1 DEF BookInv, F!RowsOk, F!RowOk, F!TemplateOk

LEMMA BookBegins ==
    ASSUME F!BookInit
    PROVE  BookInv
<1>1. /\ rows \in FirstRows /\ series \in FirstTemplates /\ opening \in FirstOpenings
      /\ card \in FirstCards /\ seen = F!Points
  BY DEF F!BookInit
<1>2. DOMAIN F!Points = F!AccountNames
  BY DEF F!Points, F!Projected
<1>3. /\ F!RowsOk(rows)
      /\ IsFiniteSet(series) /\ \A s \in series : F!TemplateOk(s)
      /\ opening \in [F!AccountNames -> Int]
      /\ card \in [fixed : Int, cycle : Int, amount : Int, payable : BOOLEAN]
  BY <1>1, BookFacts
<1>4. QED
  BY <1>1, <1>2, <1>3 DEF BookInv

LEMMA BookSafe ==
    ASSUME BookInv
    PROVE  F!BookTypeOK /\ F!NeverIntoCredit
<1>1. /\ \A r \in rows : F!RowOk(r)
      /\ \A r, q \in rows : r.id = q.id => r = q
      /\ DOMAIN seen = F!AccountNames
  BY DEF BookInv, F!RowsOk
<1>2. F!BookTypeOK
  BY <1>1 DEF F!BookTypeOK, F!RowOk
<1>3. QED
  BY <1>2, BookKeepsDebt

-----------------------------------------------------------------------------
(* The planning specification. *)

\* The part that is exercised has its invariant.
PlanningInv ==
    /\ focus \in {"plans", "budgets"} => PlanInv
    /\ focus = "periods" => PeriodInv
    /\ focus = "projection" => BookInv
    /\ focus = "scenarios" => SimInv

LEMMA PlanningBegins ==
    ASSUME PlanningInit
    PROVE  PlanningInv
  BY PlansBegin, PeriodsBegin, BookBegins, SimBegins DEF PlanningInit, PlanningInv

LEMMA PlanningKeeps ==
    ASSUME PlanningInv, [PlanningNext]_planningVars
    PROVE  PlanningInv'
<1>1. focus' = focus
  BY DEF PlanningNext, PlanStep, BudgetStep, PeriodStep, ProjectionStep, ScenarioStep,
         OthersThanPlans, planningVars
<1>2. \/ focus = "plans" /\ P!PlanNext
      \/ focus = "budgets" /\ P!BudgetNext
      \/ UNCHANGED plansVars
  BY DEF PlanningNext, PlanStep, BudgetStep, PeriodStep, ProjectionStep, ScenarioStep,
         planningVars
<1>3. \/ focus = "periods" /\ B!PeriodsNext
      \/ UNCHANGED periodsVars
  BY DEF PlanningNext, PlanStep, BudgetStep, PeriodStep, ProjectionStep, ScenarioStep,
         OthersThanPlans, planningVars
<1>4. ASSUME focus \in {"plans", "budgets"}
      PROVE  PlanInv'
  BY <1>2, <1>4, PlansKeep, BudgetsKeep, PlansStay DEF PlanningInv
<1>5. ASSUME focus = "periods"
      PROVE  PeriodInv'
  BY <1>3, <1>5, PeriodsKeep, PeriodsStay DEF PlanningInv
<1>6. \/ focus = "scenarios" /\ SimNext
      \/ UNCHANGED simVars
  BY DEF PlanningNext, PlanStep, BudgetStep, PeriodStep, ProjectionStep, ScenarioStep,
         OthersThanPlans, planningVars
<1>7. ASSUME focus = "scenarios"
      PROVE  SimInv'
  BY <1>6, <1>7, SimKeeps, SimStays DEF PlanningInv
<1>8. \/ focus = "projection" /\ F!BookNext
      \/ UNCHANGED bookVars
  BY DEF PlanningNext, PlanStep, BudgetStep, PeriodStep, ProjectionStep, ScenarioStep,
         OthersThanPlans, planningVars
<1>9. ASSUME focus = "projection"
      PROVE  BookInv'
  BY <1>8, <1>9, BookNextKeeps, BookStays DEF PlanningInv
<1> QED BY <1>1, <1>4, <1>5, <1>7, <1>9 DEF PlanningInv

\* The edits of a plan leave items only on plans that exist, and a suggested
\* rebalance moves whole cents from headroom to deficits until nobody is short or
\* nobody has anything to give, and makes none, for every set of budgets, amounts
\* and order of advice (budget_rebalance_service).
THEOREM PlansCorrect == PlanningSpec => []PlansSafe
<1>1. PlanningInv => PlansSafe
  BY PlansHold DEF PlanningInv, PlansSafe
<1> QED BY <1>1, PlanningBegins, PlanningKeeps, PTL DEF PlanningSpec

\* For any categories, plans, sources and number of requests, the commit of an edit
\* that overlapped others overwrites an item by hand only as a refresh that read
\* it when it was generated, a refresh brings back what the sources still give,
\* and no fill counts a family twice that was not edited since it was read
\* (forecast_plan_service).
THEOREM PlansKeptCorrect == PlanningSpec => PlansKept
<1> DEFINE Holds == focus = "plans" => P!ManualKept /\ P!RefreshReturns /\ P!FillsCountOnce
<1>1. ASSUME PlanningInv, [PlanningNext]_planningVars
      PROVE  [Holds]_planningVars
  <2>1. ASSUME PlanningNext, focus = "plans"
        PROVE  PlanInv /\ P!PlanNext
    BY <1>1, <2>1
       DEF PlanningInv, PlanningNext, PlanStep, BudgetStep, PeriodStep, ProjectionStep, ScenarioStep
  <2>2. PlanningNext => Holds
    BY <2>1, EditsAreKept
  <2> HIDE DEF Holds
  <2> QED BY <1>1, <2>2
<1>2. PlansKept <=> [][Holds]_planningVars
  BY DEF PlansKept
<1> QED BY <1>1, <1>2, PlanningBegins, PlanningKeeps, PTL DEF PlanningSpec

\* Any number of closers, jobs and planners of any calendar put no day into two
\* closed periods and leave no budget behind, unless an insert raced; and the
\* report of gaps and overlaps is exact for every roster they can leave
\* (billing_service).
THEOREM PeriodsCorrect == PlanningSpec => []PeriodsSafe
<1>1. PlanningInv => PeriodsSafe
  BY PeriodsHold DEF PlanningInv, PeriodsSafe
<1> QED BY <1>1, PlanningBegins, PlanningKeeps, PTL DEF PlanningSpec

\* No projected payment turns a debt into a credit, for all books, cards, loans
\* and horizons: the loan is not above zero at the end of a period that has a
\* payment, and the payments up to a card cycle's are no more than what was owed
\* at its close (projection_kernel, cc_forecast_service, loan_forecast_service).
THEOREM ProjectionCorrect == PlanningSpec => []ProjectionSafe
<1>1. PlanningInv => ProjectionSafe
  BY BookSafe DEF PlanningInv, ProjectionSafe
<1> QED BY <1>1, PlanningBegins, PlanningKeeps, PTL DEF PlanningSpec

\* Every balance of a running simulation is the snapshot's balance and the
\* occurrences, events and drift of the months so far, counted one by one, and
\* the verdict agrees with the points: for all books, plans, horizons and
\* comparisons, whatever is posted or edited meanwhile (scenario_engine).
THEOREM ScenariosCorrect == PlanningSpec => []ScenariosSafe
<1>1. PlanningInv => ScenariosSafe
  BY SimHolds DEF PlanningInv, ScenariosSafe
<1> QED BY <1>1, PlanningBegins, PlanningKeeps, PTL DEF PlanningSpec

\* A rebalance is applied to the amounts it was computed from or not at all, and
\* every close leaves a period on the next day and an open one, also when it
\* lost a race (budget_rebalance_service, billing_service._apply_close_step).
THEOREM TotalsAndDaysCorrect == PlanningSpec => TotalsAndDaysKept
<1> DEFINE Keeps == /\ focus = "budgets" => P!RebalanceKeepsTotal
                    /\ focus = "periods" => B!CloseHandsOver
<1>1. ASSUME PlanningInv, [PlanningNext]_planningVars
      PROVE  [Keeps]_planningVars
  <2>1. ASSUME PlanningNext
        PROVE  Keeps
    <3>1. CASE focus = "periods" /\ PeriodStep
      <4>1. PeriodInv /\ B!PeriodsNext
        BY <1>1, <3>1 DEF PeriodStep, PlanningInv
      <4>2. B!CloseHandsOver
        BY <4>1, PeriodsHandOver
      <4> QED BY <3>1, <4>2
    <3>2. CASE focus # "periods" \/ ~ PeriodStep
      <4>1. focus = "budgets" => P!RebalanceKeepsTotal
        BY <1>1, RebalanceKeeps DEF PlanningInv
      <4> QED BY <2>1, <3>2, <4>1
         DEF PlanningNext, PlanStep, BudgetStep, ProjectionStep, ScenarioStep
    <3> QED BY <3>1, <3>2
  <2> HIDE DEF Keeps
  <2> QED BY <1>1, <2>1
<1>2. TotalsAndDaysKept <=> [][Keeps]_planningVars
  BY DEF TotalsAndDaysKept
<1> QED BY <1>1, <1>2, PlanningBegins, PlanningKeeps, PTL DEF PlanningSpec
=============================================================================
