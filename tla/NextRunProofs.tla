---------------------------- MODULE NextRunProofs ----------------------------
(***************************************************************************)
(* Proofs about the search for the next occurrence (NextRun): for any      *)
(* length of the day, the week and the year, any zones whose clocks change *)
(* once, any leap years, any times of the sun and any schedules.           *)
(***************************************************************************)
EXTENDS NextRun, FiniteSetTheorems, WellFoundedInduction, TLAPS

-----------------------------------------------------------------------------
(* Numbers *)

LEMMA Division ==
    ASSUME NEW w \in Nat, NEW n \in Nat \ {0}
    PROVE  /\ w \div n \in Nat /\ n * (w \div n) <= w /\ w < n * (w \div n) + n
           /\ w % n \in 0..(n - 1) /\ w = n * (w \div n) + (w % n)
OBVIOUS

LEMMA Multiples ==
    ASSUME NEW d \in Int, NEW e \in Int, NEW n \in Nat, e >= d + 1
    PROVE  d * n \in Int /\ e * n \in Int /\ e * n >= d * n + n
OBVIOUS

LEMMA Remainder ==
    ASSUME NEW n \in Nat \ {0}, NEW x \in Int, NEW y \in Int, NEW r \in 0..(n - 1), NEW q \in 0..(n - 1),
           n * x + r = n * y + q
    PROVE  r = q
<1>1. ~ (x >= y + 1)
    <2>1. ASSUME x >= y + 1 PROVE FALSE
        <3>1. n * x >= n * y + n
            BY <2>1
        <3>. QED BY <3>1
    <2>. QED BY <2>1
<1>2. ~ (y >= x + 1)
    <2>1. ASSUME y >= x + 1 PROVE FALSE
        <3>1. n * y >= n * x + n
            BY <2>1
        <3>. QED BY <3>1
    <2>. QED BY <2>1
<1>. QED BY <1>1, <1>2

\* The same day of the week, not later, in any week that begins before it.
LEMMA SameWeekday ==
    ASSUME NEW n \in Nat \ {0}, NEW a \in Nat, NEW d \in Nat, d >= a
    PROVE  \E e \in a..(a + n - 1) : e <= d /\ e % n = d % n
<1>1. d - a \in Nat
    OBVIOUS
<1>2. PICK q \in Nat, r \in 0..(n - 1) : d - a = n * q + r
    <2>1. (d - a) \div n \in Nat /\ (d - a) % n \in 0..(n - 1) /\ d - a = n * ((d - a) \div n) + ((d - a) % n)
        BY <1>1, Division
    <2>. QED BY <2>1
<1>3. n * q \in Nat
    OBVIOUS
<1>4. PICK e \in Nat : e = a + r
    OBVIOUS
<1>5. e \in a..(a + n - 1) /\ d = e + n * q /\ e <= d
    BY <1>2, <1>3, <1>4
<1>6. PICK x \in Nat, k \in 0..(n - 1) : k = e % n /\ e = n * x + k
    <2>1. e \div n \in Nat /\ e % n \in 0..(n - 1) /\ e = n * (e \div n) + (e % n)
        BY Division
    <2>. QED BY <2>1
<1>7. PICK y \in Nat, l \in 0..(n - 1) : l = d % n /\ d = n * y + l
    <2>1. d \div n \in Nat /\ d % n \in 0..(n - 1) /\ d = n * (d \div n) + (d % n)
        BY Division
    <2>. QED BY <2>1
<1>8. n * (x + q) + k = n * y + l
    <2>1. n * (x + q) = n * x + n * q /\ n * x \in Int
        OBVIOUS
    <2>. QED BY <1>3, <1>5, <1>6, <1>7, <2>1
<1>9. k = l
    BY <1>8, Remainder
<1>. QED BY <1>5, <1>6, <1>7, <1>9

LEMMA MaxOfTwo == ASSUME NEW a \in Int, NEW b \in Int PROVE Max({a, b}) = IF a >= b THEN a ELSE b
<1>1. \A m, k \in {a, b} : (\A y \in {a, b} : m >= y) /\ (\A y \in {a, b} : k >= y) => m = k
    OBVIOUS
<1>2. LET m == IF a >= b THEN a ELSE b IN m \in {a, b} /\ \A y \in {a, b} : m >= y
    OBVIOUS
<1>. QED BY <1>1, <1>2 DEF Max

LEMMA LeastNatural == \A S \in SUBSET Nat : S # {} => Min(S) \in S /\ \A m \in S : Min(S) <= m
<1>. SUFFICES ASSUME NEW S \in SUBSET Nat, S # {} PROVE \E n \in S : \A m \in S : n <= m
    BY DEF Min
<1>. DEFINE R == OpToRel(<, Nat)
<1>1. IsWellFoundedOn(R, Nat)
    BY NatLessThanWellFounded
<1>2. \A a, b \in Nat : <<a, b>> \in R <=> a < b
    BY DEF OpToRel
<1>. HIDE DEF R
<1>3. \E n \in S : \A m \in S : ~ (<<m, n>> \in R)
    BY <1>1, WFMin
<1>4. PICK n \in S : \A m \in S : ~ (<<m, n>> \in R)
    BY <1>3
<1>5. \A m \in S : ~ (m < n)
    BY <1>2, <1>4
<1>. QED BY <1>5

-----------------------------------------------------------------------------
(* Zones *)

LEMMA Zones ==
    ASSUME NEW z \in ClockChanges
    PROVE  /\ z.change \in Nat /\ z.before \in Nat /\ z.after \in Nat /\ z.before <= z.change + z.after
BY InputAssumption

LEMMA WallIs ==
    ASSUME NEW z \in ClockChanges, NEW t \in Int
    PROVE  Wall(z, t) = (IF t < z.change THEN t + z.before ELSE t + z.after) /\ Wall(z, t) \in Int /\ Wall(z, t) >= t
BY Zones DEF Wall

LEMMA InstantIs ==
    ASSUME NEW z \in ClockChanges, NEW w \in Int
    PROVE  /\ InstantOf(z, w) \in Int
           /\ InstantOf(z, w) = IF w < z.change + (IF z.before >= z.after THEN z.before ELSE z.after)
                                THEN w - z.before ELSE w - z.after
<1>1. Max({z.before, z.after}) = IF z.before >= z.after THEN z.before ELSE z.after
    BY Zones, MaxOfTwo
<1>. QED BY <1>1, Zones DEF InstantOf

\* What the clock shows later is later, but for the second pass of a repeated hour.
LEMMA LaterOnTheClock ==
    ASSUME NEW z \in ClockChanges, NEW t \in Nat, NEW w \in Int, w > Wall(z, t)
    PROVE  /\ InstantOf(z, w) \in Nat
           /\ \/ InstantOf(z, w) > t
              \/ /\ t \in z.change..(z.change + (z.before - z.after) - 1)
                 /\ InstantOf(z, w) \in (z.change - (z.before - z.after))..(z.change - 1)
<1>. DEFINE c == z.change
            b == z.before
            a == z.after
            i == InstantOf(z, w)
<1>1. c \in Nat /\ b \in Nat /\ a \in Nat /\ b <= c + a
    BY Zones
<1>2. w > IF t < c THEN t + b ELSE t + a
    BY WallIs
<1>3. i = IF w < c + (IF b >= a THEN b ELSE a) THEN w - b ELSE w - a
    BY InstantIs
<1>. HIDE DEF a, b, c, i
<1>4. i \in Nat /\ (i > t \/ (t \in c..(c + (b - a) - 1) /\ i \in (c - (b - a))..(c - 1)))
    BY <1>1, <1>2, <1>3
<1>. QED BY <1>4 DEF a, b, c, i

\* The order of wall-clock times, and of their instants, but for a skipped hour.
LEMMA InOrder ==
    ASSUME NEW z \in ClockChanges, NEW v \in Int, NEW w \in Int, v <= w, w - v >= z.after - z.before
    PROVE  InstantOf(z, v) <= InstantOf(z, w)
BY Zones, InstantIs

\* What an occurrence's instant shows on the clock: itself, or it was skipped.
LEMMA WallOfInstant ==
    ASSUME NEW z \in ClockChanges, NEW w \in Int, NEW t, t = InstantOf(z, w)
    PROVE  /\ ~ (t \in z.change..(z.change + z.before - z.after - 1))
           /\ \/ Wall(z, t) = w
              \/ /\ Wall(z, t) = w + z.after - z.before /\ z.before < z.after
                 /\ w \in (z.change + z.before)..(z.change + z.after - 1)
<1>. DEFINE c == z.change
            b == z.before
            a == z.after
            v == Wall(z, t)
<1>1. c \in Nat /\ b \in Nat /\ a \in Nat /\ b <= c + a
    BY Zones
<1>2. t \in Int /\ t = IF w < c + (IF b >= a THEN b ELSE a) THEN w - b ELSE w - a
    BY InstantIs
<1>3. v = IF t < c THEN t + b ELSE t + a
    BY <1>2, WallIs
<1>. HIDE DEF a, b, c, v
<1>4. /\ ~ (t \in c..(c + b - a - 1))
      /\ v = w \/ (v = w + a - b /\ b < a /\ w \in (c + b)..(c + a - 1))
    BY <1>1, <1>2, <1>3
<1>. QED BY <1>4 DEF a, b, c, v

-----------------------------------------------------------------------------
(* Schedules and their candidates *)

LEMMA Calendar ==
    /\ DayLength \in Nat \ {0} /\ WeekLength \in Nat \ {0} /\ LongestYear \in Nat
    /\ MaxTime \in Nat /\ MaxLate \in Nat /\ Dates \subseteq Nat /\ NULL \notin Nat
    /\ \A d \in Dates : YearDay[d] \in 1..LongestYear /\ SunTime[d] \in Nat
BY CalendarAssumption

LEMMA Fields ==
    ASSUME NEW s \in Inputs
    PROVE  /\ s.sun \in BOOLEAN /\ s.at \in Int /\ s.repeat_annually \in BOOLEAN
           /\ s.start_date # NULL => s.start_date \in Dates
           /\ s.end_date # NULL => s.end_date \in Dates
           /\ s.repeat_annually => s.start_date # NULL /\ s.end_date # NULL
           /\ IF s.sun THEN 2 * s.at \in -DayLength..DayLength ELSE s.at \in 0..(DayLength - 1)
BY InputAssumption DEF Trigger, Valid

\* The event of the sun on a date, by the clock, and its distance to others.
LEMMA SunIs ==
    ASSUME NEW d \in Dates, NEW z \in ClockChanges, NEW e, e = d * DayLength + SunTime[d]
    PROVE  /\ e \in Int /\ d * DayLength \in Int /\ e >= d * DayLength
           /\ e + z.before < d * DayLength + DayLength /\ e + z.after < d * DayLength + DayLength
<1>1. SunTime[d] + z.before < DayLength /\ SunTime[d] + z.after < DayLength
    BY SunAssumption
<1>2. d \in Nat /\ SunTime[d] \in Nat /\ d * DayLength \in Int
    BY Calendar
<1>. QED BY <1>1, <1>2, Zones, Calendar

LEMMA CandidateIs ==
    ASSUME NEW s \in Inputs, NEW z \in ClockChanges, NEW d \in Dates
    PROVE  /\ Candidate(s, z, d) \in Int /\ d * DayLength \in Int
           /\ s.sun => Candidate(s, z, d) = Wall(z, d * DayLength + SunTime[d]) + s.at
           /\ ~ s.sun => Candidate(s, z, d) = d * DayLength + s.at
<1>1. d * DayLength \in Int /\ d * DayLength + SunTime[d] \in Int
    BY Calendar
<1>2. Wall(z, d * DayLength + SunTime[d]) \in Int
    BY <1>1, WallIs
<1>. QED BY <1>1, <1>2, Fields DEF Candidate

\* A candidate is less than two days after the start of its date, however it is
\* shifted by a skipped hour, and not more than half a day before.
LEMMA NearItsDate ==
    ASSUME NEW s \in Inputs, NEW z \in ClockChanges, NEW d \in Dates
    PROVE  /\ 2 * Candidate(s, z, d) >= 2 * (d * DayLength) - DayLength
           /\ Candidate(s, z, d) < d * DayLength + 2 * DayLength
           /\ Candidate(s, z, d) < z.change + z.after =>
                 Candidate(s, z, d) + z.after - z.before < d * DayLength + 2 * DayLength
<1>. DEFINE D == d * DayLength
            e == D + SunTime[d]
            w == Candidate(s, z, d)
            c == z.change
            b == z.before
            a == z.after
            at == s.at
            v == Wall(z, e)
            N == DayLength
<1>1. /\ e \in Int /\ D \in Int /\ e >= D /\ e + b < D + N /\ e + a < D + N
      /\ N \in Nat \ {0} /\ a \in Nat /\ b \in Nat /\ c \in Nat /\ at \in Int /\ w \in Int
    BY SunIs, Calendar, Zones, Fields, CandidateIs
<1>2. v = (IF e < c THEN e + b ELSE e + a) /\ v \in Int /\ v >= e
    BY <1>1, WallIs
<1>3. CASE s.sun
    <2>1. w = v + at /\ 2 * at \in -N..N
        BY <1>3, CandidateIs, Fields
    <2>. HIDE DEF D, e, w, c, b, a, at, v, N
    <2>2. 2 * w >= 2 * D - N /\ w < D + 2 * N
        BY <1>1, <1>2, <2>1
    <2>3. ASSUME w < c + a PROVE w + a - b < D + 2 * N
        BY <1>1, <1>2, <2>1, <2>3
    <2>. QED BY <2>2, <2>3 DEF D, w, c, b, a, N
<1>4. CASE ~ s.sun
    <2>1. w = D + at /\ at \in 0..(N - 1)
        BY <1>4, CandidateIs, Fields
    <2>. HIDE DEF D, e, w, c, b, a, at, v, N
    <2>2. 2 * w >= 2 * D - N /\ w < D + 2 * N /\ w + a - b < D + 2 * N
        BY <1>1, <2>1
    <2>. QED BY <2>2 DEF D, w, c, b, a, N
<1>. QED BY <1>3, <1>4

\* Of two dates the later has the later candidate, by more than a skipped hour.
LEMMA Separated ==
    ASSUME NEW s \in Inputs, NEW z \in ClockChanges, NEW d \in Dates, NEW e \in Dates, d < e
    PROVE  /\ Candidate(s, z, d) < Candidate(s, z, e)
           /\ Candidate(s, z, e) - Candidate(s, z, d) > z.after - z.before
           /\ InstantOf(z, Candidate(s, z, d)) <= InstantOf(z, Candidate(s, z, e))
<1>. DEFINE D == d * DayLength
            E == e * DayLength
            x == D + SunTime[d]
            y == E + SunTime[e]
            v == Candidate(s, z, d)
            w == Candidate(s, z, e)
            c == z.change
            b == z.before
            a == z.after
            N == DayLength
<1>1. /\ x \in Int /\ D \in Int /\ x >= D /\ x + b < D + N /\ x + a < D + N
      /\ y \in Int /\ E \in Int /\ y >= E
      /\ N \in Nat \ {0} /\ a \in Nat /\ b \in Nat /\ c \in Nat /\ s.at \in Int /\ v \in Int /\ w \in Int
    BY SunIs, Calendar, Zones, Fields, CandidateIs
<1>2. E >= D + N
    <2>1. d \in Int /\ e \in Int /\ e >= d + 1 /\ N \in Nat
        BY Calendar
    <2>. QED BY <2>1, Multiples
<1>3. ASSUME s.sun PROVE v < w /\ w - v > a - b
    <2>1. v = (IF x < c THEN x + b ELSE x + a) + s.at /\ w = (IF y < c THEN y + b ELSE y + a) + s.at
        BY <1>1, <1>3, CandidateIs, WallIs
    <2>. HIDE DEF D, E, x, y, v, w, c, b, a, N
    <2>2. v < w /\ w - v > a - b
        BY <1>1, <1>2, <2>1
    <2>. QED BY <2>2 DEF v, w, a, b
<1>4. ASSUME ~ s.sun PROVE v < w /\ w - v > a - b
    <2>1. v = D + s.at /\ w = E + s.at
        BY <1>4, CandidateIs
    <2>. HIDE DEF D, E, x, y, v, w, c, b, a, N
    <2>2. v < w /\ w - v > a - b
        BY <1>1, <1>2, <2>1
    <2>. QED BY <2>2 DEF v, w, a, b
<1>5. v < w /\ w - v > a - b
    BY <1>3, <1>4
<1>6. InstantOf(z, v) <= InstantOf(z, w)
    <2>1. v \in Int /\ w \in Int /\ v <= w /\ w - v >= a - b
        BY <1>1, <1>5
    <2>. QED BY <2>1, InOrder
<1>. QED BY <1>5, <1>6

\* From the day after tomorrow on, no candidate is past.
LEMMA AfterTomorrow ==
    ASSUME NEW s \in Inputs, NEW z \in ClockChanges, NEW t \in Nat, NEW d \in Dates,
           d >= Date(Wall(z, t)) + 2
    PROVE  Candidate(s, z, d) > Wall(z, t)
<1>. DEFINE w == Wall(z, t)
            today == w \div DayLength
            N == DayLength
            D == d * N
            T == today * N
<1>1. w \in Nat /\ N \in Nat \ {0}
    BY WallIs, Calendar
<1>2. today \in Nat /\ N * today <= w /\ w < N * today + N
    BY <1>1, Division
<1>3. d >= today + 2 /\ d \in Nat
    BY Calendar DEF Date
<1>4. Candidate(s, z, d) \in Int /\ 2 * Candidate(s, z, d) >= 2 * D - N
    BY CandidateIs, NearItsDate
<1>. HIDE DEF w, today, N
<1>5. T \in Int /\ N * today = T /\ (today + 1) * N >= T + N /\ (today + 1) * N \in Int
    BY <1>1, <1>2
<1>6. D \in Int /\ D >= (today + 1) * N + N
    BY <1>1, <1>2, <1>3, Multiples
<1>. HIDE DEF D, T
<1>7. Candidate(s, z, d) > w
    BY <1>1, <1>2, <1>4, <1>5, <1>6
<1>. QED BY <1>7 DEF w

-----------------------------------------------------------------------------
(* The search *)

Today(z, t) == Date(Wall(z, t))

Hits(s, z, t) == {d \in SearchStart(s, z, t)..SearchEnd(s, z, t) : Hit(s, z, t, d)}

LEMMA TodayIs ==
    ASSUME NEW z \in ClockChanges, NEW t \in Nat
    PROVE  Today(z, t) \in Nat
<1>1. Wall(z, t) \in Nat /\ DayLength \in Nat \ {0}
    BY WallIs, Calendar
<1>. QED BY <1>1, Division DEF Today, Date

\* Where the search begins and ends.
LEMMA RangeIs ==
    ASSUME NEW s \in Inputs, NEW z \in ClockChanges, NEW t \in 0..MaxTime
    PROVE  /\ SearchStart(s, z, t) \in Nat /\ SearchEnd(s, z, t) \in Nat
           /\ SearchStart(s, z, t) >= Today(z, t)
           /\ \/ SearchStart(s, z, t) = Today(z, t)
              \/ ~ s.repeat_annually /\ s.start_date # NULL /\ SearchStart(s, z, t) = s.start_date
           /\ ~ s.repeat_annually /\ s.start_date # NULL => SearchStart(s, z, t) >= s.start_date
           /\ s.repeat_annually => /\ SearchStart(s, z, t) = Today(z, t)
                                   /\ SearchEnd(s, z, t) = Today(z, t) + _ANNUAL_LOOKAHEAD_DAYS
           /\ ~ s.repeat_annually /\ s.end_date # NULL => SearchEnd(s, z, t) = s.end_date
           /\ ~ s.repeat_annually /\ s.end_date = NULL =>
                 SearchEnd(s, z, t) = SearchStart(s, z, t) + WeekLength + 1
<1>1. Today(z, t) \in Nat /\ Date(Wall(z, t)) = Today(z, t)
    BY TodayIs, Calendar DEF Today
<1>2. /\ s.repeat_annually \in BOOLEAN
      /\ s.start_date # NULL => s.start_date \in Nat
      /\ s.end_date # NULL => s.end_date \in Nat
    BY Fields, Calendar
<1>3. WeekLength \in Nat /\ _LOOKAHEAD_DAYS = WeekLength + 1 /\ _ANNUAL_LOOKAHEAD_DAYS \in Nat
    BY Calendar DEF _LOOKAHEAD_DAYS, _ANNUAL_LOOKAHEAD_DAYS
<1>4. /\ SearchStart(s, z, t) \in Nat /\ SearchStart(s, z, t) >= Today(z, t)
      /\ \/ SearchStart(s, z, t) = Today(z, t)
         \/ ~ s.repeat_annually /\ s.start_date # NULL /\ SearchStart(s, z, t) = s.start_date
      /\ ~ s.repeat_annually /\ s.start_date # NULL => SearchStart(s, z, t) >= s.start_date
      /\ s.repeat_annually => SearchStart(s, z, t) = Today(z, t)
    BY <1>1, <1>2 DEF SearchStart
<1>5. CASE s.repeat_annually
    BY <1>3, <1>4, <1>5 DEF SearchEnd
<1>6. CASE ~ s.repeat_annually /\ s.end_date # NULL
    BY <1>2, <1>4, <1>6 DEF SearchEnd
<1>7. CASE ~ s.repeat_annually /\ s.end_date = NULL
    BY <1>3, <1>4, <1>7 DEF SearchEnd
<1>. QED BY <1>2, <1>5, <1>6, <1>7

LEMMA HitsAreDates ==
    ASSUME NEW s \in Inputs, NEW z \in ClockChanges, NEW t \in 0..MaxTime
    PROVE  /\ Hits(s, z, t) \subseteq Dates
           /\ Hits(s, z, t) # {} => Min(Hits(s, z, t)) \in Hits(s, z, t)
           /\ \A d \in Hits(s, z, t) : Min(Hits(s, z, t)) <= d
<1>1. Hits(s, z, t) \subseteq Dates
    BY ReachAssumption DEF Hits
<1>2. Hits(s, z, t) \in SUBSET Nat
    BY <1>1, Calendar
<1>. QED BY <1>1, <1>2, LeastNatural

LEMMA Computed ==
    ASSUME NEW s \in Inputs, NEW z \in ClockChanges, NEW t \in 0..MaxTime
    PROVE  /\ Hits(s, z, t) = {} => compute_next_run_at(s, z, t) = NULL
           /\ Hits(s, z, t) # {} =>
                 compute_next_run_at(s, z, t) = InstantOf(z, Candidate(s, z, Min(Hits(s, z, t))))
BY DEF compute_next_run_at, Hits

\* A hit is a date that the schedule asks for.
LEMMA HitsAreWanted ==
    ASSUME NEW s \in Inputs, NEW z \in ClockChanges, NEW t \in 0..MaxTime, NEW d \in Hits(s, z, t)
    PROVE  d \in Wanted(s) /\ Candidate(s, z, d) > Wall(z, t)
<1>1. d \in Dates /\ d \in SearchStart(s, z, t)..SearchEnd(s, z, t)
    BY HitsAreDates DEF Hits
<1>2. Hit(s, z, t, d) /\ d % WeekLength \in s.days /\ Candidate(s, z, d) > Wall(z, t)
    BY DEF Hits, Hit
<1>3. CASE s.repeat_annually
    <2>1. _in_annual_window(d, s) /\ s.start_date \in Dates /\ s.end_date \in Dates
        BY <1>2, <1>3, Fields DEF Hit
    <2>2. /\ YearDay[d] \in 1..LongestYear /\ YearDay[s.start_date] \in 1..LongestYear
          /\ YearDay[s.end_date] \in 1..LongestYear /\ LongestYear \in Nat
        BY <1>1, <2>1, Calendar
    <2>3. YearDay[d] \in Window(YearDay[s.start_date], YearDay[s.end_date])
        BY <2>1, <2>2 DEF _in_annual_window, Window
    <2>. QED BY <1>1, <1>2, <1>3, <2>3 DEF Wanted
<1>4. CASE ~ s.repeat_annually
    <2>. DEFINE from == SearchStart(s, z, t)
                to == SearchEnd(s, z, t)
    <2>1. /\ s.start_date # NULL => d >= s.start_date
          /\ s.end_date # NULL => d <= s.end_date
        <3>1. /\ from \in Nat /\ to \in Nat
              /\ s.start_date # NULL => from >= s.start_date
              /\ s.end_date # NULL => to = s.end_date
            BY <1>4, RangeIs
        <3>2. /\ s.start_date # NULL => s.start_date \in Nat
              /\ s.end_date # NULL => s.end_date \in Nat
            BY Fields, Calendar
        <3>3. d \in from..to
            BY <1>1
        <3>. HIDE DEF from, to
        <3>. QED BY <3>1, <3>2, <3>3
    <2>. QED BY <1>1, <1>2, <1>4, <2>1 DEF Wanted
<1>. QED BY <1>2, <1>3, <1>4

Unseen(s, z, t, d) ==
    \/ d < Today(z, t)
    \/ Candidate(s, z, d) <= Wall(z, t)
    \/ s.repeat_annually /\ d > Today(z, t) + _ANNUAL_LOOKAHEAD_DAYS

\* Whatever is wanted and in sight, the search finds it or something before it:
\* what lies past the lookahead has a date of its weekday within, the day after
\* tomorrow or later.
LEMMA SearchFinds ==
    ASSUME NEW s \in Inputs, NEW z \in ClockChanges, NEW t \in 0..MaxTime,
           NEW d \in Wanted(s), ~ Unseen(s, z, t, d)
    PROVE  \E e \in Hits(s, z, t) : e <= d
<1>. DEFINE from == SearchStart(s, z, t)
            to == SearchEnd(s, z, t)
<1>1. d \in Dates /\ d \in Nat /\ d % WeekLength \in s.days
    BY Calendar DEF Wanted
<1>2. /\ d >= Today(z, t) /\ Candidate(s, z, d) > Wall(z, t)
      /\ s.repeat_annually => d <= Today(z, t) + _ANNUAL_LOOKAHEAD_DAYS
    <2>1. /\ Today(z, t) \in Nat /\ Candidate(s, z, d) \in Int /\ Wall(z, t) \in Int
          /\ _ANNUAL_LOOKAHEAD_DAYS \in Nat
        BY <1>1, TodayIs, CandidateIs, WallIs, Calendar DEF _ANNUAL_LOOKAHEAD_DAYS, _LOOKAHEAD_DAYS
    <2>. QED BY <1>1, <2>1 DEF Unseen
<1>3. from \in Nat /\ to \in Nat /\ d >= from
    <2>1. ~ s.repeat_annually /\ s.start_date # NULL => d >= s.start_date
        BY DEF Wanted
    <2>2. from \in Nat /\ to \in Nat /\ (from = Today(z, t) \/ (~ s.repeat_annually /\ s.start_date # NULL /\ from = s.start_date))
        BY RangeIs
    <2>. QED BY <1>2, <2>1, <2>2
<1>4. s.repeat_annually => _in_annual_window(d, s)
    <2>1. ASSUME s.repeat_annually PROVE _in_annual_window(d, s)
        <3>1. YearDay[d] \in Window(YearDay[s.start_date], YearDay[s.end_date])
            BY <2>1 DEF Wanted
        <3>2. /\ YearDay[d] \in 1..LongestYear /\ YearDay[s.start_date] \in 1..LongestYear
              /\ YearDay[s.end_date] \in 1..LongestYear /\ LongestYear \in Nat
            BY <1>1, <2>1, Fields, Calendar
        <3>. QED BY <3>1, <3>2 DEF _in_annual_window, Window
    <2>. QED BY <2>1
<1>5. CASE d <= to
    <2>1. d \in Hits(s, z, t)
        BY <1>1, <1>2, <1>3, <1>4, <1>5 DEF Hits, Hit
    <2>. QED BY <1>1, <2>1
<1>6. CASE d > to
    <2>1. ~ s.repeat_annually /\ s.end_date = NULL
        <3>1. s.repeat_annually => to = Today(z, t) + _ANNUAL_LOOKAHEAD_DAYS
            BY RangeIs
        <3>2. ~ s.repeat_annually /\ s.end_date # NULL => to = s.end_date /\ d <= s.end_date
            BY RangeIs DEF Wanted
        <3>. QED BY <1>1, <1>2, <1>3, <1>6, <3>1, <3>2
    <2>2. to = from + WeekLength + 1 /\ WeekLength \in Nat \ {0} /\ from >= Today(z, t)
        BY <2>1, RangeIs, Calendar
    <2>3. PICK e \in (from + 2)..(from + 2 + WeekLength - 1) : e <= d /\ e % WeekLength = d % WeekLength
        <3>1. from + 2 \in Nat /\ d >= from + 2
            BY <1>1, <1>3, <1>6, <2>2
        <3>. QED BY <1>1, <2>2, <3>1, SameWeekday
    <2>4. e \in from..to
        BY <1>3, <2>2, <2>3
    <2>5. e \in Dates
        BY <2>4, ReachAssumption
    <2>6. Candidate(s, z, e) > Wall(z, t)
        <3>1. e >= Date(Wall(z, t)) + 2
            BY <1>3, <2>2, <2>3, TodayIs, Calendar DEF Today
        <3>2. t \in Nat
            BY Calendar
        <3>. QED BY <2>5, <3>1, <3>2, AfterTomorrow
    <2>7. e \in Hits(s, z, t)
        BY <1>1, <2>1, <2>3, <2>4, <2>6 DEF Hits, Hit
    <2>. QED BY <2>3, <2>7
<1>. QED BY <1>1, <1>3, <1>5, <1>6
-----------------------------------------------------------------------------
(* The loop *)

\* The answer stored is that of the last computation.
SearchInv ==
    /\ zone \in ClockChanges /\ schedule \in Inputs /\ now \in 0..MaxTime
    /\ next_run_at = compute_next_run_at(schedule, zone, now)

LEMMA SearchInit == Init => SearchInv
BY DEF Init, SearchInv

LEMMA SearchStep == SearchInv /\ [Next]_vars => SearchInv'
<1>. SUFFICES ASSUME SearchInv, [Next]_vars PROVE SearchInv'
    OBVIOUS
<1>1. ASSUME NEW t \in 0..MaxTime, Settle(t) PROVE SearchInv'
    BY <1>1 DEF SearchInv, Settle
<1>2. CASE UNCHANGED vars
    BY <1>2 DEF SearchInv, vars
<1>. QED BY <1>1, <1>2 DEF Next

LEMMA SearchAlways == Spec => []SearchInv
BY SearchInit, SearchStep, PTL DEF Spec

\* An answer is the instant of the first hit.
LEMMA AnswerIs ==
    ASSUME NEW s \in Inputs, NEW z \in ClockChanges, NEW t \in 0..MaxTime,
           compute_next_run_at(s, z, t) # NULL
    PROVE  \E m \in Hits(s, z, t) :
              /\ m \in Wanted(s) /\ m \in Dates /\ Candidate(s, z, m) \in Int
              /\ Candidate(s, z, m) > Wall(z, t)
              /\ compute_next_run_at(s, z, t) = InstantOf(z, Candidate(s, z, m))
              /\ \A e \in Hits(s, z, t) : m <= e
<1>. DEFINE m == Min(Hits(s, z, t))
<1>1. Hits(s, z, t) # {}
    BY Computed
<1>2. m \in Hits(s, z, t) /\ m \in Dates /\ \A e \in Hits(s, z, t) : m <= e
    BY <1>1, HitsAreDates
<1>3. m \in Wanted(s) /\ Candidate(s, z, m) > Wall(z, t) /\ Candidate(s, z, m) \in Int
    BY <1>2, HitsAreWanted, CandidateIs
<1>4. compute_next_run_at(s, z, t) = InstantOf(z, Candidate(s, z, m))
    BY <1>1, Computed
<1>. QED BY <1>2, <1>3, <1>4

\* No wanted date in sight is before the answer.
LEMMA AnswerIsFirst ==
    ASSUME NEW s \in Inputs, NEW z \in ClockChanges, NEW t \in 0..MaxTime,
           NEW d \in Wanted(s), ~ Unseen(s, z, t, d)
    PROVE  /\ compute_next_run_at(s, z, t) # NULL
           /\ compute_next_run_at(s, z, t) <= InstantOf(z, Candidate(s, z, d))
<1>1. PICK e \in Hits(s, z, t) : e <= d
    BY SearchFinds
<1>. DEFINE m == Min(Hits(s, z, t))
<1>2. m \in Hits(s, z, t) /\ m \in Dates /\ m <= e /\ e \in Dates /\ d \in Dates
    BY <1>1, HitsAreDates DEF Wanted
<1>3. m <= d /\ m \in Nat /\ d \in Nat
    <2>1. m \in Nat /\ e \in Nat /\ d \in Nat
        BY <1>2, Calendar
    <2>. HIDE DEF m
    <2>. QED BY <1>1, <1>2, <2>1
<1>4. compute_next_run_at(s, z, t) = InstantOf(z, Candidate(s, z, m))
    BY <1>1, Computed
<1>5. /\ Candidate(s, z, m) \in Int /\ Candidate(s, z, m) > Wall(z, t)
      /\ Candidate(s, z, d) \in Int
    BY <1>2, HitsAreWanted, CandidateIs
<1>6. InstantOf(z, Candidate(s, z, m)) \in Nat /\ InstantOf(z, Candidate(s, z, d)) \in Int
    <2>1. t \in Nat
        BY Calendar
    <2>. QED BY <1>5, <2>1, LaterOnTheClock, InstantIs
<1>7. InstantOf(z, Candidate(s, z, m)) <= InstantOf(z, Candidate(s, z, d))
    <2>1. CASE m = d
        BY <1>6, <2>1
    <2>2. CASE m < d
        BY <1>2, <2>2, Separated
    <2>. HIDE DEF m
    <2>. QED BY <1>3, <2>1, <2>2
<1>. QED BY <1>4, <1>6, <1>7, Calendar

\* The stored answer is an instant, or nothing.
LEMMA SearchTyped == SearchInv => TypeOK
<1>. SUFFICES ASSUME SearchInv, next_run_at # NULL PROVE next_run_at \in Nat
    BY DEF SearchInv, TypeOK
<1>1. PICK m \in Hits(schedule, zone, now) :
         /\ Candidate(schedule, zone, m) \in Int /\ Candidate(schedule, zone, m) > Wall(zone, now)
         /\ next_run_at = InstantOf(zone, Candidate(schedule, zone, m))
    BY AnswerIs DEF SearchInv
<1>2. now \in Nat /\ zone \in ClockChanges
    BY Calendar DEF SearchInv
<1>. QED BY <1>1, <1>2, LaterOnTheClock

\* The rows of the loop stay typed: settling stores an instant since the epoch,
\* or nothing, whatever the zone does to the clock (compute_next_run_at).
THEOREM SearchTypeCorrect == Spec => []TypeOK
BY SearchAlways, SearchTyped, PTL

LEMMA FirstAhead == SearchInv => NextIsFirstAhead
<1>. SUFFICES ASSUME SearchInv PROVE NextIsFirstAhead
    OBVIOUS
<1>1. /\ zone \in ClockChanges /\ schedule \in Inputs /\ now \in 0..MaxTime /\ now \in Nat
      /\ next_run_at = compute_next_run_at(schedule, zone, now)
    BY Calendar DEF SearchInv
<1>2. ASSUME next_run_at # NULL
      PROVE  /\ \E d \in Wanted(schedule) : next_run_at = Occurs(d)
             /\ next_run_at > now \/ (now \in SecondPass /\ next_run_at \in FirstPass)
    <2>1. PICK m \in Hits(schedule, zone, now) :
             /\ m \in Wanted(schedule)
             /\ Candidate(schedule, zone, m) \in Int /\ Candidate(schedule, zone, m) > Wall(zone, now)
             /\ next_run_at = InstantOf(zone, Candidate(schedule, zone, m))
        BY <1>1, <1>2, AnswerIs
    <2>2. next_run_at > now \/ (now \in SecondPass /\ next_run_at \in FirstPass)
        BY <1>1, <2>1, LaterOnTheClock DEF FirstPass, SecondPass
    <2>. QED BY <2>1, <2>2 DEF Occurs
<1>3. ASSUME NEW d \in Wanted(schedule), ~ OutOfSight(d)
      PROVE  next_run_at # NULL /\ next_run_at <= Occurs(d)
    <2>1. ~ Unseen(schedule, zone, now, d)
        BY <1>3 DEF OutOfSight, Unseen, Today
    <2>. QED BY <1>1, <2>1, AnswerIsFirst DEF Occurs
<1>. QED BY <1>2, <1>3 DEF NextIsFirstAhead

\* The answer is the first occurrence in sight after the time it was computed
\* at, or in the first pass of the hour the clock repeats: neither the end of
\* the lookahead nor a change of the clocks makes the search pass one over.
THEOREM FirstAheadIsFound == Spec => []NextIsFirstAhead
BY SearchAlways, FirstAhead, PTL

\* A loop that settles on time loses nothing: the clock shows the answer, or
\* passes over it with the skipped hour, and every other candidate is further
\* from it than that hour.
LEMMA OnTime ==
    ASSUME NEW s \in Inputs, NEW z \in ClockChanges, NEW t \in 0..MaxTime, NEW r \in 0..MaxTime,
           r = compute_next_run_at(s, z, t), NEW d \in Wanted(s),
           InstantOf(z, Candidate(s, z, d)) > r
    PROVE  d >= Today(z, r) /\ Candidate(s, z, d) > Wall(z, r)
<1>. DEFINE O(x) == InstantOf(z, Candidate(s, z, x))
<1>1. PICK m \in Hits(s, z, t) :
         m \in Dates /\ Candidate(s, z, m) \in Int /\ r = InstantOf(z, Candidate(s, z, m))
    <2>1. r # NULL
        BY Calendar
    <2>. QED BY <2>1, AnswerIs
<1>. DEFINE w == Candidate(s, z, m)
            k == Candidate(s, z, d)
            v == Wall(z, r)
            N == DayLength
            M == m * N
<1>2. m \in Nat /\ d \in Nat /\ d \in Dates /\ N \in Nat \ {0} /\ r \in Nat /\ M \in Int
    BY <1>1, Calendar DEF Wanted
<1>3. m < d
    <2>1. ASSUME d = m PROVE FALSE
        BY <1>1, <1>2, <2>1
    <2>2. ASSUME d < m PROVE FALSE
        <3>1. O(d) <= r
            BY <1>1, <1>2, <2>2, Separated
        <3>2. O(d) \in Int
            BY <1>2, CandidateIs, InstantIs
        <3>. QED BY <1>2, <3>1, <3>2
    <2>. QED BY <1>2, <2>1, <2>2
<1>4. w < k /\ k - w > z.after - z.before /\ k \in Int /\ w \in Int
    BY <1>1, <1>2, <1>3, Separated, CandidateIs
<1>5. \/ v = w
      \/ /\ v = w + z.after - z.before /\ z.before < z.after
         /\ w \in (z.change + z.before)..(z.change + z.after - 1)
    BY <1>1, <1>4, WallOfInstant
<1>6. v \in Nat /\ z.after \in Nat /\ z.before \in Nat /\ z.change \in Nat
    BY <1>2, WallIs, Zones
<1>7. k > v
    <2>. HIDE DEF k, v, w
    <2>. QED BY <1>4, <1>5, <1>6
<1>8. v < M + 2 * N
    <2>1. w < M + 2 * N /\ (w < z.change + z.after => w + z.after - z.before < M + 2 * N)
        BY <1>1, NearItsDate
    <2>. HIDE DEF k, v, w, M, N
    <2>. QED BY <1>2, <1>4, <1>5, <1>6, <2>1
<1>9. v \div N <= m + 1
    <2>. DEFINE q == v \div N
                Q == N * q
    <2>1. q \in Nat /\ Q <= v
        BY <1>2, <1>6, Division
    <2>2. ASSUME q >= m + 2 PROVE FALSE
        <3>1. q * N >= (m + 1) * N + N /\ (m + 1) * N >= m * N + N
            BY <1>2, <2>1, <2>2, Multiples
        <3>2. q * N = Q /\ (m + 1) * N \in Int /\ Q \in Int
            BY <1>2, <2>1
        <3>. HIDE DEF v, N, q, Q
        <3>. QED BY <1>2, <1>6, <1>8, <2>1, <3>1, <3>2 DEF M
    <2>. QED BY <1>2, <2>1, <2>2
<1>10. Today(z, r) <= m + 1 /\ Today(z, r) \in Nat
    BY <1>2, <1>9, TodayIs DEF Today, Date
<1>. QED BY <1>2, <1>3, <1>7, <1>10

LEMMA OnTimeStep == SearchInv /\ SearchInv' /\ [Next]_vars =>
    ((now' = next_run_at /\ now < next_run_at) =>
          /\ next_run_at' # NULL => next_run_at' > now'
          /\ \A d \in Wanted(schedule) :
                /\ Occurs(d) > now'
                /\ next_run_at' = NULL \/ Occurs(d) < next_run_at'
                => /\ schedule.repeat_annually
                   /\ d > Date(Wall(zone, now')) + _ANNUAL_LOOKAHEAD_DAYS)
<1>. SUFFICES ASSUME SearchInv, SearchInv', [Next]_vars, now' = next_run_at, now < next_run_at
     PROVE  /\ next_run_at' # NULL => next_run_at' > now'
            /\ \A d \in Wanted(schedule) :
                  /\ Occurs(d) > now'
                  /\ next_run_at' = NULL \/ Occurs(d) < next_run_at'
                  => /\ schedule.repeat_annually
                     /\ d > Date(Wall(zone, now')) + _ANNUAL_LOOKAHEAD_DAYS
    OBVIOUS
<1>1. /\ zone \in ClockChanges /\ schedule \in Inputs /\ now \in 0..MaxTime /\ now' \in 0..MaxTime
      /\ now \in Nat /\ now' \in Nat /\ now < now'
      /\ now' = compute_next_run_at(schedule, zone, now)
    BY Calendar DEF SearchInv
<1>2. zone' = zone /\ schedule' = schedule
    BY DEF Next, Settle, vars
<1>3. next_run_at' = compute_next_run_at(schedule, zone, now')
    BY <1>2 DEF SearchInv
<1>4. ASSUME next_run_at' # NULL PROVE next_run_at' > now'
    <2>1. PICK m \in Hits(schedule, zone, now') :
             /\ Candidate(schedule, zone, m) \in Int /\ Candidate(schedule, zone, m) > Wall(zone, now')
             /\ next_run_at' = InstantOf(zone, Candidate(schedule, zone, m))
        BY <1>1, <1>3, <1>4, AnswerIs
    <2>2. ~ (now' \in zone.change..(zone.change + (zone.before - zone.after) - 1))
        <3>1. PICK l \in Hits(schedule, zone, now) :
                 /\ Candidate(schedule, zone, l) \in Int
                 /\ now' = InstantOf(zone, Candidate(schedule, zone, l))
            <4>1. compute_next_run_at(schedule, zone, now) # NULL
                BY <1>1, Calendar
            <4>. QED BY <1>1, <4>1, AnswerIs
        <3>. QED BY <1>1, <3>1, WallOfInstant
    <2>. QED BY <1>1, <2>1, <2>2, LaterOnTheClock
<1>5. ASSUME NEW d \in Wanted(schedule), Occurs(d) > now',
             next_run_at' = NULL \/ Occurs(d) < next_run_at'
      PROVE  /\ schedule.repeat_annually
             /\ d > Date(Wall(zone, now')) + _ANNUAL_LOOKAHEAD_DAYS
    <2>1. d >= Today(zone, now') /\ Candidate(schedule, zone, d) > Wall(zone, now')
        BY <1>1, <1>5, OnTime DEF Occurs
    <2>2. ASSUME ~ Unseen(schedule, zone, now', d) PROVE FALSE
        <3>1. next_run_at' # NULL /\ next_run_at' <= Occurs(d)
            BY <1>1, <1>3, <2>2, AnswerIsFirst DEF Occurs
        <3>2. Occurs(d) \in Int /\ next_run_at' \in Int
            BY <1>1, <1>3, <1>5, <3>1, AnswerIs, CandidateIs, InstantIs DEF Occurs, Wanted
        <3>. QED BY <1>5, <3>1, <3>2
    <2>3. /\ Today(zone, now') \in Int /\ Candidate(schedule, zone, d) \in Int
          /\ Wall(zone, now') \in Int /\ d \in Nat
        BY <1>1, <1>5, TodayIs, CandidateIs, WallIs, Calendar DEF Wanted
    <2>4. schedule.repeat_annually /\ d > Today(zone, now') + _ANNUAL_LOOKAHEAD_DAYS
        <3>1. Unseen(schedule, zone, now', d)
            BY <2>2
        <3>. QED BY <2>1, <2>3, <3>1 DEF Unseen
    <2>. QED BY <2>4 DEF Today
<1>. QED BY <1>4, <1>5

\* An occurrence settled at its own time is followed by a later one, and none
\* that is still ahead is skipped, whatever the offsets of the sun and the
\* changes of the clock: _advance computes from the time it runs at, and only
\* the end of the annual lookahead keeps a date from it.
THEOREM OnTimeIsEnough == Spec => OnTimeLosesNothing
<1>1. SearchInv /\ SearchInv' /\ [Next]_vars =>
        [(now' = next_run_at /\ now < next_run_at) =>
          /\ next_run_at' # NULL => next_run_at' > now'
          /\ \A d \in Wanted(schedule) :
                /\ Occurs(d) > now'
                /\ next_run_at' = NULL \/ Occurs(d) < next_run_at'
                => /\ schedule.repeat_annually
                   /\ d > Date(Wall(zone, now')) + _ANNUAL_LOOKAHEAD_DAYS]_vars
    BY OnTimeStep
<1>. QED BY <1>1, SearchAlways, PTL DEF Spec, OnTimeLosesNothing

-----------------------------------------------------------------------------
(* The year *)

\* How far into the window a place is, walking forward from its first.
Walked(from, p) == IF p >= from THEN p - from ELSE p - from + LongestYear

LEMMA YearIs ==
    /\ LongestYear \in Nat /\ LeapDay \in 2..(LongestYear - 1)
    /\ \A from, p \in 1..LongestYear : Walked(from, p) \in 0..(LongestYear - 1)
BY Calendar, YearAssumption DEF Walked

LEMMA InWindow ==
    ASSUME NEW from \in 1..LongestYear, NEW to \in 1..LongestYear, NEW p \in 1..LongestYear
    PROVE  p \in Window(from, to) <=> Walked(from, p) <= Walked(from, to)
BY YearIs DEF Window, Walked

\* The window has a place for each step, of which the leap day is not counted.
LEMMA WindowSize ==
    ASSUME NEW from \in 1..LongestYear, NEW to \in 1..LongestYear
    PROVE  /\ Cardinality(Window(from, to) \ {LeapDay}) \in Nat
           /\ Cardinality(Window(from, to) \ {LeapDay}) =
                 IF Walked(from, LeapDay) <= Walked(from, to)
                 THEN Walked(from, to) ELSE Walked(from, to) + 1
<1>. DEFINE L == LongestYear
            W == Window(from, to)
<1>1. IsFiniteSet(W) /\ Cardinality(W) = Walked(from, to) + 1
    <2>1. CASE from <= to
        <3>1. W = from..to
            BY <2>1, YearIs DEF Window
        <3>2. IsFiniteSet(from..to) /\ Cardinality(from..to) = to - from + 1
            BY <2>1, YearIs, FS_Interval
        <3>. QED BY <2>1, <3>1, <3>2, YearIs DEF Walked
    <2>2. CASE from > to
        <3>1. W = (1..L) \ ((to + 1)..(from - 1))
            BY <2>2, YearIs DEF Window
        <3>2. IsFiniteSet(1..L) /\ Cardinality(1..L) = L
            <4>1. 1 \in Int /\ L \in Int /\ L >= 1
                BY YearIs
            <4>. QED BY <4>1, FS_Interval
        <3>3. (1..L) \cap ((to + 1)..(from - 1)) = (to + 1)..(from - 1)
            BY YearIs
        <3>4. Cardinality((to + 1)..(from - 1)) = from - 1 - to
            <4>1. to + 1 \in Int /\ from - 1 \in Int
                BY YearIs
            <4>2. Cardinality((to + 1)..(from - 1)) =
                     IF to + 1 > from - 1 THEN 0 ELSE (from - 1) - (to + 1) + 1
                BY <4>1, FS_Interval
            <4>. QED BY <2>2, <4>2, YearIs
        <3>5. IsFiniteSet(W) /\ Cardinality(W) = L - (from - 1 - to)
            <4>. DEFINE Y == 1..L
                        Rest == (to + 1)..(from - 1)
            <4>1. W = Y \ Rest /\ Y \cap Rest = Rest /\ Cardinality(Rest) = from - 1 - to
                  /\ IsFiniteSet(Y) /\ Cardinality(Y) = L
                BY <3>1, <3>2, <3>3, <3>4
            <4>. HIDE DEF Y, Rest, W
            <4>2. IsFiniteSet(Y \ Rest) /\ Cardinality(Y \ Rest) = Cardinality(Y) - Cardinality(Y \cap Rest)
                BY <4>1, FS_Difference
            <4>. QED BY <4>1, <4>2
        <3>. QED BY <2>2, <3>5, YearIs DEF Walked
    <2>. QED BY <2>1, <2>2, YearIs
<1>2. LeapDay \in 1..L
    BY YearIs
<1>3. LeapDay \in W <=> Walked(from, LeapDay) <= Walked(from, to)
    BY <1>2, InWindow
<1>4. Cardinality(W \ {LeapDay}) = IF LeapDay \in W THEN Cardinality(W) - 1 ELSE Cardinality(W)
    BY <1>1, FS_RemoveElement
<1>5. Walked(from, to) \in Nat
    BY YearIs
<1>. HIDE DEF W
<1>. QED BY <1>1, <1>3, <1>4, <1>5 DEF W

\* A day is a step, or two over the leap day, or it begins the next turn.
LEMMA DayAfter ==
    ASSUME NEW from \in 1..LongestYear, NEW p \in 1..LongestYear, NEW q \in 1..LongestYear, Follows(p, q)
    PROVE  \/ Walked(from, q) = Walked(from, p) + 1
           \/ Walked(from, q) = Walked(from, p) + 2 /\ Walked(from, LeapDay) = Walked(from, p) + 1
           \/ Walked(from, q) = 0 /\ Walked(from, p) = LongestYear - 1
           \/ /\ Walked(from, q) = 0 /\ Walked(from, p) = LongestYear - 2
              /\ Walked(from, LeapDay) = LongestYear - 1
           \/ Walked(from, q) = 1 /\ Walked(from, p) = LongestYear - 1 /\ from = LeapDay
<1>1. LongestYear \in Nat /\ LeapDay \in 2..(LongestYear - 1)
    BY YearIs
<1>2. CASE q = p + 1
    BY <1>1, <1>2 DEF Walked
<1>3. CASE p + 1 = LeapDay /\ q = p + 2
    BY <1>1, <1>3 DEF Walked
<1>4. CASE p = LongestYear /\ q = 1
    BY <1>1, <1>4 DEF Walked
<1>. QED BY <1>2, <1>3, <1>4 DEF Follows

Opens(from, p) == Walked(from, p) = 0 \/ (Walked(from, p) = 1 /\ from = LeapDay)

\* Within a year the window opens.
LEMMA OpensWithinAYear ==
    ASSUME NEW from \in 1..LongestYear, NEW x \in Nat, x..(x + LongestYear - 1) \subseteq Dates
    PROVE  \E y \in x..(x + LongestYear - 1) : Opens(from, YearDay[y])
<1>. DEFINE L == LongestYear
            W(k) == Walked(from, YearDay[x + k])
            Behind == {k \in 0..(L - 1) : W(k) <= k}
<1>1. L \in Nat /\ L > 1
    BY YearIs
<1>2. ASSUME NEW k \in 0..(L - 1)
      PROVE  x + k \in x..(x + L - 1) /\ x + k \in Dates /\ YearDay[x + k] \in 1..L /\ W(k) \in 0..(L - 1)
    <2>1. x + k \in x..(x + L - 1)
        BY <1>1
    <2>2. x + k \in Dates
        BY <2>1
    <2>3. YearDay[x + k] \in 1..L
        BY <2>2, Calendar
    <2>. QED BY <2>1, <2>2, <2>3, YearIs
<1>. SUFFICES ASSUME \A y \in x..(x + L - 1) : ~ Opens(from, YearDay[y]) PROVE FALSE
    OBVIOUS
<1>3. Behind \in SUBSET Nat /\ Behind # {}
    <2>1. L - 1 \in 0..(L - 1)
        BY <1>1
    <2>2. W(L - 1) <= L - 1
        BY <1>1, <1>2, <2>1
    <2>. QED BY <1>1, <2>1, <2>2
<1>4. PICK k \in Behind : \A j \in Behind : k <= j
    <2>1. Min(Behind) \in Behind /\ \A j \in Behind : Min(Behind) <= j
        BY <1>3, LeastNatural
    <2>. HIDE DEF Behind
    <2>. QED BY <2>1
<1>5. k \in 0..(L - 1) /\ k \in Nat /\ W(k) <= k /\ W(k) \in 0..(L - 1) /\ ~ Opens(from, YearDay[x + k])
    BY <1>1, <1>2, <1>4
<1>6. k # 0
    BY <1>5 DEF Opens
<1>7. k - 1 \in 0..(L - 1) /\ k - 1 \notin Behind
    BY <1>1, <1>4, <1>5, <1>6
<1>8. W(k - 1) \in 0..(L - 1) /\ W(k - 1) > k - 1 /\ YearDay[x + (k - 1)] \in 1..L /\ x + (k - 1) \in Dates
    <2>1. W(k - 1) \in 0..(L - 1) /\ YearDay[x + (k - 1)] \in 1..L /\ x + (k - 1) \in Dates
        BY <1>2, <1>7
    <2>. QED BY <1>1, <1>5, <1>7, <2>1
<1>9. Follows(YearDay[x + (k - 1)], YearDay[x + k]) /\ YearDay[x + k] \in 1..L
    <2>1. x + (k - 1) \in Dates /\ (x + (k - 1)) + 1 = x + k /\ x + k \in Dates
        BY <1>2, <1>5, <1>8
    <2>. QED BY <1>2, <1>5, <2>1, YearAssumption
<1>10. \/ W(k) = W(k - 1) + 1
       \/ W(k) = W(k - 1) + 2
       \/ W(k) = 0
       \/ W(k) = 1 /\ from = LeapDay
    BY <1>8, <1>9, DayAfter
<1>11. W(k) # 0 /\ ~ (W(k) = 1 /\ from = LeapDay)
    BY <1>5 DEF Opens
<1>. HIDE DEF W
<1>. QED BY <1>1, <1>5, <1>8, <1>10, <1>11

\* Once open, a window with a week of days is open for a week.
LEMMA OpenForAWeek ==
    ASSUME NEW from \in 1..LongestYear, NEW to \in 1..LongestYear, NEW y \in Nat,
           y..(y + WeekLength - 1) \subseteq Dates, Opens(from, YearDay[y]),
           Cardinality(Window(from, to) \ {LeapDay}) >= WeekLength
    PROVE  \A e \in y..(y + WeekLength - 1) : YearDay[e] \in Window(from, to)
<1>. DEFINE L == LongestYear
            N == WeekLength
            W(k) == Walked(from, YearDay[y + k])
            leap == Walked(from, LeapDay)
            last == Walked(from, to)
            InStep(k) == W(k) = k \/ (W(k) = k + 1 /\ leap <= k)
            Strays == {k \in 0..(N - 1) : ~ InStep(k)}
<1>1. L \in Nat /\ N \in Nat \ {0} /\ leap \in 0..(L - 1) /\ last \in 0..(L - 1)
    BY YearIs, Calendar
<1>2. N <= IF leap <= last THEN last ELSE last + 1
    BY WindowSize, <1>1
<1>3. ASSUME NEW k \in 0..(N - 1)
      PROVE  y + k \in y..(y + N - 1) /\ y + k \in Dates /\ YearDay[y + k] \in 1..L /\ W(k) \in 0..(L - 1)
    <2>1. y + k \in y..(y + N - 1)
        BY <1>1
    <2>2. y + k \in Dates
        BY <2>1
    <2>3. YearDay[y + k] \in 1..L
        BY <2>2, Calendar
    <2>. QED BY <2>1, <2>2, <2>3, YearIs
<1>4. Strays = {}
    <2>. SUFFICES ASSUME Strays # {} PROVE FALSE
        OBVIOUS
    <2>1. Strays \in SUBSET Nat
        BY <1>1
    <2>2. PICK k \in Strays : \A j \in Strays : k <= j
        <3>1. Min(Strays) \in Strays /\ \A j \in Strays : Min(Strays) <= j
            BY <2>1, LeastNatural
        <3>. HIDE DEF Strays
        <3>. QED BY <3>1
    <2>3. k \in 0..(N - 1) /\ k \in Nat /\ ~ InStep(k)
        BY <1>1, <2>2
    <2>4. k # 0
        <3>1. InStep(0)
            <4>1. y + 0 = y
                OBVIOUS
            <4>2. W(0) = 0 \/ (W(0) = 1 /\ from = LeapDay)
                BY <4>1 DEF Opens
            <4>3. from = LeapDay => leap = 0
                BY YearIs DEF Walked
            <4>. QED BY <4>2, <4>3
        <3>. HIDE DEF InStep
        <3>. QED BY <2>3, <3>1
    <2>5. k - 1 \in 0..(N - 1) /\ k - 1 \notin Strays
        BY <1>1, <2>2, <2>3, <2>4
    <2>6. InStep(k - 1)
        BY <2>5
    <2>7. W(k - 1) \in 0..(L - 1) /\ YearDay[y + (k - 1)] \in 1..L /\ y + (k - 1) \in Dates
        BY <1>3, <2>5
    <2>8. Follows(YearDay[y + (k - 1)], YearDay[y + k]) /\ YearDay[y + k] \in 1..L /\ W(k) \in 0..(L - 1)
        <3>1. y + (k - 1) \in Dates /\ (y + (k - 1)) + 1 = y + k /\ y + k \in Dates
            BY <1>3, <2>3, <2>7
        <3>. QED BY <1>3, <2>3, <3>1, YearAssumption
    <2>9. \/ W(k) = W(k - 1) + 1
          \/ W(k) = W(k - 1) + 2 /\ leap = W(k - 1) + 1
          \/ W(k - 1) = L - 1
          \/ W(k - 1) = L - 2 /\ leap = L - 1
        BY <2>7, <2>8, DayAfter
    <2>10. \/ W(k - 1) = k - 1
           \/ W(k - 1) = k /\ leap <= k - 1
        BY <2>3, <2>6
    <2>11. ~ (W(k) = k) /\ ~ (W(k) = k + 1 /\ leap <= k)
        BY <2>3
    <2>. HIDE DEF W, leap, last, N, L
    <2>. QED BY <1>1, <1>2, <2>3, <2>7, <2>8, <2>9, <2>10, <2>11
<1>5. ASSUME NEW k \in 0..(N - 1) PROVE YearDay[y + k] \in Window(from, to)
    <2>1. W(k) = k \/ (W(k) = k + 1 /\ leap <= k)
        BY <1>4, <1>5
    <2>2. W(k) <= last
        <3>. HIDE DEF W, leap, last, N
        <3>. QED BY <1>1, <1>2, <1>5, <2>1
    <2>. QED BY <1>3, <1>5, <2>2, InWindow
<1>6. ASSUME NEW e \in y..(y + N - 1) PROVE YearDay[e] \in Window(from, to)
    <2>1. e - y \in 0..(N - 1) /\ y + (e - y) = e
        BY <1>1
    <2>2. YearDay[y + (e - y)] \in Window(from, to)
        BY <1>5, <2>1
    <2>. QED BY <2>1, <2>2
<1>. QED BY <1>6

\* So an annual search with such a window finds something.
LEMMA AnnualFinds ==
    ASSUME NEW s \in Inputs, NEW z \in ClockChanges, NEW t \in 0..MaxTime,
           s.repeat_annually, s.days # {},
           Cardinality(Window(YearDay[s.start_date], YearDay[s.end_date]) \ {LeapDay}) >= WeekLength
    PROVE  Hits(s, z, t) # {}
<1>. DEFINE from == YearDay[s.start_date]
            to == YearDay[s.end_date]
            today == Today(z, t)
            N == WeekLength
            L == LongestYear
<1>1. /\ today \in Nat /\ N \in Nat \ {0} /\ L \in Nat /\ t \in Nat
      /\ from \in 1..L /\ to \in 1..L
    <2>1. s.start_date \in Dates /\ s.end_date \in Dates
        BY Fields
    <2>2. from \in 1..L /\ to \in 1..L
        BY <2>1, Calendar
    <2>3. t \in Nat
        BY Calendar
    <2>4. today \in Nat
        BY <2>3, TodayIs
    <2>. QED BY <2>2, <2>3, <2>4, Calendar
<1>2. /\ SearchStart(s, z, t) = today /\ SearchEnd(s, z, t) = today + (L + (N + 1))
      /\ today..(today + (L + (N + 1))) \subseteq Dates
    <2>1. SearchStart(s, z, t) = today /\ SearchEnd(s, z, t) = today + (L + (N + 1))
        BY RangeIs DEF _ANNUAL_LOOKAHEAD_DAYS, _LOOKAHEAD_DAYS
    <2>. QED BY <2>1, ReachAssumption
<1>. HIDE DEF today, from, to
<1>3. PICK y \in (today + 2)..(today + 2 + L - 1) : Opens(from, YearDay[y])
    <2>1. (today + 2)..(today + 2 + L - 1) \subseteq Dates /\ today + 2 \in Nat
        BY <1>1, <1>2
    <2>. QED BY <1>1, <2>1, OpensWithinAYear
<1>4. y \in Nat /\ y..(y + N - 1) \subseteq today..(today + (L + (N + 1)))
    BY <1>1, <1>3
<1>5. \A e \in y..(y + N - 1) : YearDay[e] \in Window(from, to)
    <2>1. y..(y + N - 1) \subseteq Dates
        BY <1>2, <1>4
    <2>. QED BY <1>1, <1>3, <1>4, <2>1, OpenForAWeek DEF from, to
<1>6. PICK r \in s.days : r \in 0..(N - 1)
    BY InputAssumption DEF Trigger, Weekdays
<1>7. PICK e \in y..(y + N - 1) : e % N = r
    <2>1. PICK d \in Nat : d = N * y + r /\ d >= y
        <3>1. N * y + r \in Nat /\ N * y >= y
            BY <1>1, <1>4, <1>6
        <3>. QED BY <1>1, <1>4, <1>6, <3>1
    <2>2. d % N = r
        <3>1. d \div N \in Nat /\ d % N \in 0..(N - 1) /\ d = N * (d \div N) + (d % N)
            BY <1>1, Division
        <3>2. PICK x \in Nat, q \in 0..(N - 1) : q = d % N /\ d = N * x + q
            BY <3>1
        <3>3. N * x + q = N * y + r
            BY <2>1, <3>2
        <3>4. q = r
            BY <1>1, <1>4, <1>6, <3>3, Remainder
        <3>. QED BY <3>2, <3>4
    <2>3. \E e \in y..(y + N - 1) : e <= d /\ e % N = d % N
        BY <1>1, <1>4, <2>1, SameWeekday
    <2>. QED BY <2>2, <2>3
<1>8. e \in Dates /\ e \in SearchStart(s, z, t)..SearchEnd(s, z, t)
    BY <1>2, <1>4, <1>7
<1>9. Candidate(s, z, e) > Wall(z, t)
    <2>1. e >= today + 2
        BY <1>1, <1>3, <1>4, <1>7
    <2>. QED BY <1>1, <1>8, <2>1, AfterTomorrow DEF today, Today
<1>10. _in_annual_window(e, s)
    <2>1. YearDay[e] \in Window(from, to) /\ YearDay[e] \in 1..L
        BY <1>5, <1>7, <1>8, Calendar
    <2>. QED BY <1>1, <2>1 DEF _in_annual_window, Window, from, to
<1>11. e \in Hits(s, z, t)
    BY <1>6, <1>7, <1>8, <1>9, <1>10 DEF Hits, Hit
<1>. QED BY <1>11

LEMMA AnnualGoesOnNow == SearchInv => AnnualNeverEnds
<1>. SUFFICES ASSUME SearchInv, schedule.repeat_annually, schedule.days # {},
                     Cardinality(Window(YearDay[schedule.start_date], YearDay[schedule.end_date])
                                    \ {LeapDay}) >= WeekLength
     PROVE  next_run_at # NULL
    BY DEF AnnualNeverEnds
<1>1. zone \in ClockChanges /\ schedule \in Inputs /\ now \in 0..MaxTime
    BY DEF SearchInv
<1>. DEFINE m == Min(Hits(schedule, zone, now))
            w == Candidate(schedule, zone, m)
<1>2. Hits(schedule, zone, now) # {}
    BY <1>1, AnnualFinds
<1>3. m \in Hits(schedule, zone, now) /\ m \in Dates
    BY <1>1, <1>2, HitsAreDates
<1>4. w \in Int /\ w > Wall(zone, now) /\ now \in Nat
    BY <1>1, <1>3, HitsAreWanted, CandidateIs, Calendar
<1>5. InstantOf(zone, w) \in Nat
    BY <1>1, <1>4, LaterOnTheClock
<1>6. next_run_at = InstantOf(zone, w)
    BY <1>1, <1>2, Computed DEF SearchInv
<1>. QED BY <1>5, <1>6, Calendar

\* An annual schedule with a window of a week or more, not counting the leap
\* day, always has a next run: a year and the lookahead of a week are enough.
THEOREM AnnualGoesOn == Spec => []AnnualNeverEnds
BY SearchAlways, AnnualGoesOnNow, PTL
=============================================================================
