-------------------------- MODULE StaticImport_proofs -------------------------
(* What the date arithmetic of the schedule code gives for all zones,      *)
(* times and calendars, and lemmas about numbers, ranks and the rows that  *)
(* win, for the requests that read the tables.                             *)
EXTENDS StaticImport, FiniteSetTheorems, SequenceTheorems, WellFoundedInduction, TLAPS

(* The local date of an instant is the one whose day it falls in.          *)
LEMMA LocalDateBounds ==
  ASSUME NEW zone \in Zones, NEW t \in Int
  PROVE  /\ LocalDate(zone, t) \in Int
         /\ LocalDate(zone, t) * Day <= t + Ahead(zone, t)
         /\ t + Ahead(zone, t) < (LocalDate(zone, t) + 1) * Day
  BY DEF LocalDate, Ahead, Zones, Day, Hour

(* The two offsets of a zone, and what they differ by.                     *)
LEMMA ZoneBounds ==
  ASSUME NEW zone \in Zones
  PROVE  /\ zone.before \in Int /\ zone.after \in Int /\ zone.at \in Int
         /\ Shift(zone) \in Int /\ 0 <= Shift(zone) /\ Shift(zone) <= Hour
         /\ zone.before - zone.after <= Shift(zone)
         /\ zone.after - zone.before <= Shift(zone)
<1>1. zone \in [before : Int, after : Int, at : Int]
  BY DEF Zones
<1>2. zone.after - zone.before <= Hour /\ zone.before - zone.after <= Hour
  BY DEF Zones
<1>3. Hour \in Int
  BY DEF Hour
<1> QED
  BY <1>1, <1>2, <1>3 DEF Shift

(* The day of a change is at most an hour off.                             *)
LEMMA MidnightBounds ==
  ASSUME NEW zone \in Zones, NEW date \in Int, NEW t \in Int
  PROVE  /\ Midnight(zone, date) \in Int
         /\ Ahead(zone, t) \in Int
         /\ date * Day - Shift(zone) <= Midnight(zone, date) + Ahead(zone, t)
         /\ Midnight(zone, date) + Ahead(zone, t) <= date * Day + Shift(zone)
<1> DEFINE b == zone.before
           a == zone.after
<1>1. /\ b \in Int /\ a \in Int /\ Shift(zone) \in Int
      /\ b - a <= Shift(zone) /\ a - b <= Shift(zone) /\ 0 <= Shift(zone)
  BY ZoneBounds
<1>2. Day \in Int /\ Hour \in Int /\ date * Day \in Int
  BY DEF Day, Hour
<1>3. Midnight(zone, date) \in {date * Day - b, date * Day - a}
  BY <1>1, <1>2 DEF Midnight, Noon
<1>4. Ahead(zone, t) \in {b, a}
  BY DEF Ahead
<1> HIDE DEF b, a
<1> QED
  BY <1>1, <1>2, <1>3, <1>4

(* find_service_ranges looks at the service date of every departure in the *)
(* window, if the trip starts less than two days after its midnight and    *)
(* the look-ahead beyond the window covers what the offset of the last row *)
(* exceeds that of the departure, both up to the change of the clock.      *)
THEOREM EveryDateIsChecked ==
  ASSUME NEW zone \in Zones, NEW date \in Int, NEW time \in Int,
         NEW offset \in Int, NEW lookback \in Int, NEW input \in Int,
         NEW window \in Int, NEW forward \in Int,
         Examined(zone, time, offset, lookback, forward - window),
         Midnight(zone, date) + time \in input..(input + window)
  PROVE  date \in DatesToCheck(zone, offset, lookback, input, Day, forward)
<1> DEFINE x == input - Day - offset - lookback
           y == input + forward - offset
<1> USE DEF Examined
<1>1. x \in Int /\ y \in Int /\ Day \in Int
  BY DEF Day, Hour
<1>2. /\ LocalDate(zone, x) \in Int
      /\ LocalDate(zone, x) * Day <= x + Ahead(zone, x)
  BY <1>1, LocalDateBounds
<1>3. /\ LocalDate(zone, y) \in Int
      /\ y + Ahead(zone, y) < (LocalDate(zone, y) + 1) * Day
  BY <1>1, LocalDateBounds
<1>4. /\ Midnight(zone, date) \in Int
      /\ Shift(zone) \in Int
      /\ Ahead(zone, x) \in Int /\ Ahead(zone, y) \in Int
      /\ date * Day \in Int
  <2>1. \A t \in Int : Midnight(zone, date) \in Int /\ Ahead(zone, t) \in Int
    BY MidnightBounds
  <2>2. Shift(zone) \in Int
    BY ZoneBounds
  <2> QED
    BY <1>1, <2>1, <2>2
<1>5. Midnight(zone, date) + Ahead(zone, x) <= date * Day + Shift(zone)
  BY <1>1, MidnightBounds
<1>6. date * Day - Shift(zone) <= Midnight(zone, date) + Ahead(zone, y)
  BY <1>1, MidnightBounds
<1>7. /\ x = input - Day - offset - lookback
      /\ y = input + forward - offset
  OBVIOUS
<1>8. /\ input <= Midnight(zone, date) + time
      /\ Midnight(zone, date) + time <= input + window
  BY <1>4
<1> HIDE DEF x, y
<1>9. LocalDate(zone, x) <= date
  <2>1. x + Ahead(zone, x) < date * Day + Day
    BY <1>1, <1>4, <1>5, <1>7, <1>8
  <2>2. LocalDate(zone, x) * Day < (date + 1) * Day
    BY <1>1, <1>2, <1>4, <2>1 DEF Day, Hour
  <2> QED
    BY <1>2, <2>2 DEF Day, Hour
<1>10. date <= LocalDate(zone, y)
  <2>1. date * Day <= y + Ahead(zone, y)
    BY <1>1, <1>4, <1>6, <1>7, <1>8
  <2>2. date * Day < (LocalDate(zone, y) + 1) * Day
    BY <1>1, <1>3, <1>4, <2>1 DEF Day, Hour
  <2> QED
    BY <1>3, <2>2 DEF Day, Hour
<1> QED
  BY <1>2, <1>3, <1>9, <1>10 DEF DatesToCheck, x, y

(* Midnights are ordered as dates are, and nearly a day apart.             *)
LEMMA MidnightsAscend ==
  ASSUME NEW zone \in Zones, NEW d \in Int, NEW e \in Int, d < e
  PROVE  Midnight(zone, d) < Midnight(zone, e)
<1>1. /\ Midnight(zone, d) \in Int /\ Midnight(zone, e) \in Int
      /\ Ahead(zone, 0) \in Int /\ Shift(zone) \in Int /\ Hour \in Int
      /\ d * Day \in Int /\ e * Day \in Int
      /\ Shift(zone) <= Hour
  BY MidnightBounds, ZoneBounds DEF Day, Hour
<1>2. /\ Midnight(zone, d) + Ahead(zone, 0) <= d * Day + Shift(zone)
      /\ e * Day - Shift(zone) <= Midnight(zone, e) + Ahead(zone, 0)
  BY MidnightBounds
<1>3. d * Day + 24 * Hour <= e * Day /\ 2 * Hour < 24 * Hour
  BY DEF Day, Hour
<1> QED
  BY <1>1, <1>2, <1>3

(* estimate_service_date guesses the date of a run, and that one only, if  *)
(* its service is in force, its midnight is on its own date, and its first *)
(* time without the offset of the stop is on that date too.                *)
THEOREM EstimateIsRight ==
  ASSUME NEW zone \in Zones, NEW service, NEW run \in Int, NEW date \in Int,
         NEW least \in Int, NEW offset \in Int,
         Guessable(service, zone, least, offset, run)
  PROVE  Estimates(service, zone, least, offset, date) <=> date = run
<1> DEFINE served == {d \in (run - 2)..run : DatetimeInService(service, d)}
           Off(d) == Distance(least, Midnight(zone, d))
<1>1. run \in served
  BY DEF Guessable
<1>2. ASSUME NEW d \in served, d # run
      PROVE  Off(run) < Off(d)
  <2>1. d \in Int /\ d < run
    BY <1>2
  <2>2. Midnight(zone, d) < Midnight(zone, run)
    BY <2>1, MidnightsAscend
  <2>3. Midnight(zone, d) \in Int /\ Midnight(zone, run) \in Int
    BY <2>1, MidnightBounds
  <2>4. Midnight(zone, run) <= least
    BY DEF Guessable
  <2> QED
    BY <2>2, <2>3, <2>4 DEF Distance
<1>3. \A d \in served : Off(d) \in Int
  <2> TAKE d \in served
  <2>1. Midnight(zone, d) \in Int
    BY MidnightBounds
  <2> QED
    BY <2>1 DEF Distance
<1>4. LocalDate(zone, least - offset) = run /\ LocalDate(zone, Midnight(zone, run)) = run
  BY DEF Guessable
<1>5. Estimates(service, zone, least, offset, date)
        <=> \E best \in served :
              /\ \A d \in served : \/ Off(best) < Off(d)
                                   \/ Off(best) = Off(d) /\ best <= d
              /\ LocalDate(zone, Midnight(zone, best)) = date
  BY <1>4 DEF Estimates
<1> HIDE DEF served, Off
<1>6. \A d \in served : \/ Off(run) < Off(d)
                        \/ Off(run) = Off(d) /\ run <= d
  BY <1>2
<1>7. ASSUME date = run
      PROVE  Estimates(service, zone, least, offset, date)
  BY <1>1, <1>4, <1>5, <1>6, <1>7
<1>8. ASSUME Estimates(service, zone, least, offset, date)
      PROVE  date = run
  <2>1. PICK best \in served :
          /\ \A d \in served : \/ Off(best) < Off(d)
                               \/ Off(best) = Off(d) /\ best <= d
          /\ LocalDate(zone, Midnight(zone, best)) = date
    BY <1>5, <1>8
  <2>2. best = run
    BY <1>1, <1>2, <1>3, <2>1
  <2> QED
    BY <1>4, <2>1, <2>2
<1> QED
  BY <1>7, <1>8

--------------------------------------------------------------------------------
(* Sets of numbers, and the rows that win.                                 *)

LEMMA LeastNatural ==
  ASSUME NEW T \in SUBSET Nat, T # {}
  PROVE  \E n \in T : \A m \in T : n <= m
<1> DEFINE R == OpToRel(<, Nat)
<1>1. IsWellFoundedOn(R, Nat)
  BY NatLessThanWellFounded
<1>2. \A m, n \in Nat : m < n => <<m, n>> \in R
  BY DEF OpToRel
<1> HIDE DEF R
<1>3. PICK n \in T : \A m \in T : ~ (<<m, n>> \in R)
  BY <1>1, WFMin
<1>4. \A m \in T : ~ (m < n)
  BY <1>2, <1>3
<1> QED
  BY <1>4

(* A finite set of numbers has a greatest one: the smallest that had none  *)
(* would have none without one of its members, either.                     *)
LEMMA GreatestOfFinite ==
  ASSUME NEW S \in SUBSET Int, IsFiniteSet(S), S # {}
  PROVE  \E x \in S : \A y \in S : x >= y
<1> DEFINE Bad(X) == /\ IsFiniteSet(X) /\ X # {}
                     /\ ~ \E x \in X : \A y \in X : x >= y
           T == {n \in Nat : \E X \in SUBSET Int : Bad(X) /\ Cardinality(X) = n}
<1> SUFFICES ASSUME Bad(S)
             PROVE  FALSE
  OBVIOUS
<1>1. Cardinality(S) \in T
  BY FS_CardinalityType
<1>2. PICK n \in T : \A m \in T : n <= m
  <2>1. T \in SUBSET Nat /\ T # {}
    BY <1>1
  <2> HIDE DEF T
  <2> QED
    BY <2>1, LeastNatural
<1>3. PICK X \in SUBSET Int : Bad(X) /\ Cardinality(X) = n
  OBVIOUS
<1>4. PICK z \in X : TRUE
  BY <1>3
<1>5. IsFiniteSet(X \ {z}) /\ Cardinality(X \ {z}) = n - 1
  BY <1>3, <1>4, FS_RemoveElement
<1>6. n - 1 \in Nat
  BY <1>5, FS_CardinalityType
<1>7. ~ Bad(X \ {z})
  <2>1. n \in Nat /\ X \ {z} \in SUBSET Int
    OBVIOUS
  <2>2. n - 1 \notin T
    <3> HIDE DEF T
    <3> QED
      BY <1>2, <2>1
  <2> HIDE DEF Bad
  <2> QED
    BY <1>5, <1>6, <2>1, <2>2
<1>8. CASE X \ {z} = {}
  BY <1>3, <1>4, <1>8
<1>9. CASE X \ {z} # {}
  <2>1. PICK x \in X \ {z} : \A y \in X \ {z} : x >= y
    BY <1>5, <1>7, <1>9
  <2>2. x \in Int /\ z \in Int /\ X \in SUBSET Int
    BY <1>4
  <2>3. \A y \in X : (IF x >= z THEN x ELSE z) >= y
    BY <2>1, <2>2
  <2> QED
    BY <1>3, <1>4, <2>1, <2>3
<1> QED
  BY <1>8, <1>9

LEMMA MaxOfFinite ==
  ASSUME NEW S \in SUBSET Int, IsFiniteSet(S), S # {}
  PROVE  Max(S) \in S /\ \A y \in S : Max(S) >= y
BY GreatestOfFinite DEF Max

LEMMA MinOfFinite ==
  ASSUME NEW S \in SUBSET Nat, S # {}
  PROVE  Min(S) \in S /\ \A y \in S : Min(S) <= y
BY LeastNatural DEF Min

LEMMA SelectedIsThere ==
  ASSUME NEW n \in Nat, NEW I \in SUBSET (1..n),
         NEW i, i = (IF I # {} THEN Min(I) ELSE 0)
  PROVE  /\ i = 0 <=> I = {}
         /\ i # 0 => i \in I
<1>1. I \in SUBSET Nat /\ 0 \notin I
  OBVIOUS
<1>2. I # {} => Min(I) \in I
  BY <1>1, MinOfFinite
<1> QED
  BY <1>1, <1>2

(* Of attempts in the order of their rows one of those asked for wins.     *)
LEMMA WinnerIsOne ==
  ASSUME NEW G \in SUBSET {"old", "new"}, NEW o \in SetToSeqs(G),
         NEW S \in SUBSET G, S # {}
  PROVE  /\ Winner(o, S) \in S
         /\ Range(o) = G
<1>1. /\ Cardinality({"old", "new"}) = 2 /\ Cardinality({"old"}) = 1 /\ Cardinality({"new"}) = 1
  <2>1. Cardinality({"old"}) = 1 /\ Cardinality({"new"}) = 1 /\ IsFiniteSet({"old"})
    BY FS_Singleton
  <2>2. Cardinality({"old"} \cup {"new"}) = Cardinality({"old"}) + 1
    BY <2>1, FS_AddElement
  <2>3. {"old"} \cup {"new"} = {"old", "new"}
    OBVIOUS
  <2> QED
    BY <2>1, <2>2, <2>3
<1>2. G = {"old", "new"} \/ \E x : G = {x}
  <2>1. CASE "old" \in G /\ "new" \in G
    BY <2>1
  <2>2. CASE "old" \notin G
    <3>1. G = {"new"}
      BY <2>2
    <3> QED
      BY <3>1
  <2>3. CASE "new" \notin G
    <3>1. G = {"old"}
      BY <2>3
    <3> QED
      BY <3>1
  <2> QED
    BY <2>1, <2>2, <2>3
<1>3. /\ o \in [1..Cardinality(G) -> G]
      /\ \A i, j \in 1..Cardinality(G) : i # j => o[i] # o[j]
  BY DEF SetToSeqs
<1>4. Cardinality(G) \in {1, 2} /\ \A x \in G : \E i \in DOMAIN o : o[i] = x
  <2>1. CASE G = {"old", "new"}
    <3>1. Cardinality(G) = 2
      BY <1>1, <2>1
    <3>2. /\ DOMAIN o = 1..2 /\ 1 \in 1..2 /\ 2 \in 1..2
      BY <1>3, <3>1
    <3>3. o[1] \in {"old", "new"} /\ o[2] \in {"old", "new"} /\ o[1] # o[2]
      BY <1>3, <2>1, <3>1
    <3> QED
      BY <2>1, <3>1, <3>2, <3>3
  <2>2. CASE \E x : G = {x}
    <3>1. PICK x : G = {x}
      BY <2>2
    <3>2. Cardinality(G) = 1
      BY <3>1, FS_Singleton
    <3>3. DOMAIN o = 1..1 /\ 1 \in 1..1 /\ o[1] \in {x}
      BY <1>3, <3>1, <3>2
    <3> QED
      BY <3>1, <3>2, <3>3
  <2> QED
    BY <1>2, <2>1, <2>2
<1> DEFINE C == 1..Cardinality(G)
<1>5. DOMAIN o = C /\ \A i \in C : o[i] \in G
  <2>1. o \in [C -> G]
    BY <1>3
  <2> HIDE DEF C
  <2> QED
    BY <2>1
<1>6. Range(o) = G
  <2> HIDE DEF C
  <2> QED
    BY <1>4, <1>5 DEF Range
<1> DEFINE I == {i \in DOMAIN o : o[i] \in S}
<1>7. I # {} /\ I \subseteq C
  <2> HIDE DEF C
  <2> QED
    BY <1>4, <1>5
<1>8. I \in SUBSET Int /\ IsFiniteSet(I)
  <2>1. IsFiniteSet(1..Cardinality(G)) /\ 1..Cardinality(G) \subseteq Int
    BY <1>4, FS_Interval
  <2>2. I \in SUBSET (1..Cardinality(G))
    BY <1>7
  <2> HIDE DEF I
  <2>3. IsFiniteSet(I)
    BY <2>1, <2>2, FS_Subset
  <2> QED
    BY <2>1, <2>2, <2>3
<1>9. Max(I) \in I
  <2> HIDE DEF I
  <2> QED
    BY <1>7, <1>8, MaxOfFinite
<1> QED
  BY <1>6, <1>9 DEF Winner

\* The ranks of the members of a set of numbers differ, and count up to how many there are.
LEMMA RanksAre ==
  ASSUME NEW S \in SUBSET Int, IsFiniteSet(S)
  PROVE  /\ Cardinality(S) \in Nat
         /\ \A k \in S : Rank(S, k) \in 1..Cardinality(S)
         /\ \A j, k \in S : Rank(S, j) = Rank(S, k) => j = k
<1> DEFINE Upto(k) == {j \in S : j <= k}
<1>1. IsFiniteSet(S)
  OBVIOUS
<1>2. Cardinality(S) \in Nat
  BY <1>1, FS_CardinalityType
<1>3. ASSUME NEW k \in S
      PROVE  Rank(S, k) \in 1..Cardinality(S)
  <2>1. Upto(k) \in SUBSET S /\ k \in Upto(k)
    OBVIOUS
  <2> HIDE DEF Upto
  <2>2. /\ IsFiniteSet(Upto(k)) /\ Cardinality(Upto(k)) <= Cardinality(S)
        /\ Cardinality(Upto(k)) \in Nat
    BY <1>1, <2>1, FS_Subset, FS_CardinalityType
  <2>3. Cardinality(Upto(k)) # 0
    BY <2>1, <2>2, FS_EmptySet
  <2> QED
    BY <1>2, <2>2, <2>3 DEF Rank, Upto
<1>4. ASSUME NEW j \in S, NEW k \in S, j < k
      PROVE  Rank(S, j) # Rank(S, k)
  <2>1. Upto(j) \in SUBSET Upto(k) /\ k \in Upto(k) /\ k \notin Upto(j) /\ Upto(k) \in SUBSET S
    <3>1. \A i \in S : i \in Int
      OBVIOUS
    <3>2. \A i \in S : i <= j => i <= k
      BY <1>4, <3>1
    <3>3. ~ (k <= j) /\ k <= k
      BY <1>4, <3>1
    <3> QED
      BY <3>2, <3>3
  <2> HIDE DEF Upto
  <2>2. IsFiniteSet(Upto(k))
    BY <1>1, <2>1, FS_Subset
  <2>3. Cardinality(Upto(k)) # Cardinality(Upto(j))
    BY <2>1, <2>2, FS_Subset
  <2> QED
    BY <2>3 DEF Rank, Upto
<1>5. ASSUME NEW j \in S, NEW k \in S, Rank(S, j) = Rank(S, k)
      PROVE  j = k
  <2>1. j < k \/ k < j \/ j = k
    OBVIOUS
  <2> QED
    BY <1>4, <1>5, <2>1
<1> QED
  BY <1>2, <1>3, <1>5

--------------------------------------------------------------------------------
(* Folds: the values of a fold on the first elements of a list are found   *)
(* by counting up, on all sets of numbers at once.                         *)

(* What holds of 0, and of each number up to n if it does of the one       *)
(* before, holds of n.                                                     *)
LEMMA CountUp ==
  ASSUME NEW n \in Nat, NEW T, 0 \in T, \A m \in 1..n : m - 1 \in T => m \in T
  PROVE  n \in T
<1> DEFINE U == {m \in 0..n : m \notin T}
<1> SUFFICES ASSUME U # {}
             PROVE  FALSE
  OBVIOUS
<1>1. U \in SUBSET Nat
  OBVIOUS
<1>2. PICK m \in U : \A k \in U : m <= k
  <2> HIDE DEF U
  <2> QED
    BY <1>1, LeastNatural
<1>3. m \in 1..n /\ m - 1 \in 0..n /\ m - 1 < m
  OBVIOUS
<1>4. m - 1 \notin U
  <2> HIDE DEF U
  <2> QED
    BY <1>2, <1>3
<1> QED
  BY <1>3, <1>4

LEMMA MaxUpTo ==
  ASSUME NEW m \in Nat, NEW s \in SUBSET (1..m), m \in s
  PROVE  Max(s) = m
<1>1. \A y \in s : m >= y
  OBVIOUS
<1>2. \A x \in s : (\A y \in s : x >= y) => x = m
  OBVIOUS
<1> QED
  BY <1>1, <1>2 DEF Max

LEMMA FirstNumbers ==
  ASSUME NEW n \in Nat, NEW m \in 1..n
  PROVE  /\ Max(1..m) = m /\ (1..m) \ {m} = 1..(m - 1)
         /\ 1..m \in SUBSET (1..n) /\ 1..m # {}
<1>1. m \in Nat /\ m \in 1..m /\ 1..m \in SUBSET (1..n)
  OBVIOUS
<1>2. Max(1..m) = m
  <2>1. 1..m \in SUBSET (1..m)
    OBVIOUS
  <2> QED
    BY <1>1, <2>1, MaxUpTo
<1>3. (1..m) \ {m} = 1..(m - 1)
  <2>1. \A k \in Int : k \in (1..m) \ {m} <=> k \in 1..(m - 1)
    BY <1>1
  <2>2. (1..m) \ {m} \subseteq Int /\ 1..(m - 1) \subseteq Int
    OBVIOUS
  <2> QED
    BY <2>1, <2>2
<1>4. 1..m # {}
  BY <1>1
<1> QED
  BY <1>1, <1>2, <1>3, <1>4, Zenon

\* A function on the sets of numbers below m, with the values v on those with m.
Continues(h, g, v, m) ==
    /\ h = [s \in SUBSET (1..m) |-> h[s]]
    /\ h[{}] = g[{}]
    /\ \A s \in SUBSET (1..m) : s # {} =>
          /\ s \ {Max(s)} \in SUBSET (1..(m - 1))
          /\ h[s \ {Max(s)}] = g[s \ {Max(s)}]
          /\ \/ Max(s) = m /\ h[s] = v[s \ {Max(s)}]
             \/ s \in SUBSET (1..(m - 1)) /\ h[s] = g[s]

LEMMA Continued ==
  ASSUME NEW n \in Nat, NEW m \in 1..n, NEW g, NEW v
  PROVE  \E h : Continues(h, g, v, m)
<1> DEFINE h == [s \in SUBSET (1..m) |-> IF m \in s THEN v[s \ {m}] ELSE g[s]]
           k == m - 1
<1>1. m \in Nat /\ k \in Nat /\ m \in Int
  OBVIOUS
<1>2. ASSUME NEW s \in SUBSET (1..k)
      PROVE  h[s] = g[s]
  <2>1. s \in SUBSET (1..m) /\ m \notin s
    BY <1>1
  <2> QED
    BY <2>1
<1>3. ASSUME NEW s \in SUBSET (1..m), m \in s
      PROVE  h[s] = v[s \ {m}] /\ Max(s) = m /\ s \ {m} \in SUBSET (1..k)
  <2>1. Max(s) = m
    <3> HIDE DEF h, k
    <3> QED
      BY <1>1, <1>3, MaxUpTo
  <2>2. s \ {m} \in SUBSET (1..k)
    BY <1>1
  <2> QED
    BY <1>3, <2>1, <2>2
<1>4. h = [s \in SUBSET (1..m) |-> h[s]]
  OBVIOUS
<1>5. \A s \in SUBSET (1..m) : m \notin s => s \in SUBSET (1..k)
  BY <1>1
<1>6. {} \in SUBSET (1..k)
  OBVIOUS
<1> HIDE DEF h
<1>7. ASSUME NEW s \in SUBSET (1..m), s # {}
      PROVE  /\ s \ {Max(s)} \in SUBSET (1..k)
             /\ h[s \ {Max(s)}] = g[s \ {Max(s)}]
             /\ \/ Max(s) = m /\ h[s] = v[s \ {Max(s)}]
                \/ s \in SUBSET (1..k) /\ h[s] = g[s]
  <2>1. CASE m \in s
    BY <1>2, <1>3, <2>1
  <2>2. CASE m \notin s
    <3>1. s \in SUBSET (1..k)
      BY <1>5, <2>2
    <3>2. s \ {Max(s)} \in SUBSET (1..k)
      BY <3>1
    <3> QED
      BY <1>2, <3>1, <3>2
  <2> QED
    BY <2>1, <2>2
<1>8. h[{}] = g[{}]
  BY <1>2, <1>6
<1>9. Continues(h, g, v, m)
  BY <1>4, <1>7, <1>8 DEF Continues
<1> QED
  BY <1>9


--------------------------------------------------------------------------------
(* What an import has written so far, for all feeds and in every step.     *)

FeedsInv ==
    /\ world \in Cases
    /\ reduced = [a \in Attempts |-> Reduce(MinimumDayFilter(world.feeds[a], world.day))]

RowsType ==
    /\ rows \in [Tables -> SUBSET Attempts]
    /\ importer \in [does : {"insert", "delete", "rest"}, attempt : {"old", "new"}, at : 1..8]
    /\ importer.does = "insert" => importer.at <= 6 /\ importer.attempt = "new"
    /\ importer.does # "rest" => importer.attempt \in Attempts

\* An attempt has rows in a table only if it has rows in those that come before.
InOrder(a) ==
    /\ a \in rows["routes"] => a \in rows["trips_compressed"]
    /\ a \in rows["trips_compressed"] => a \in rows["itinerary_pattern"]
    /\ a \in rows["itinerary_pattern"] <=> a \in rows["itinerary_pattern_meta"]
    /\ a \in rows["itinerary_pattern"] => a \in rows["direction_pattern"]
    /\ a \in rows["direction_pattern"] <=> a \in rows["direction_pattern_meta"]
    /\ a \in rows["direction_pattern"] => a \in rows["calendar_dates"]
    /\ a \in rows["calendar_dates"] => a \in rows["calendar"]

\* What is inserted has come to the step the importer is at.
InsertInv ==
    importer.does = "insert" =>
        /\ "new" \in rows["calendar"] <=> importer.at > 1
        /\ "new" \in rows["calendar_dates"] <=> importer.at > 2
        /\ "new" \in rows["direction_pattern"] <=> importer.at > 3
        /\ "new" \in rows["direction_pattern_meta"] <=> importer.at > 3
        /\ "new" \in rows["itinerary_pattern"] <=> importer.at > 4
        /\ "new" \in rows["itinerary_pattern_meta"] <=> importer.at > 4
        /\ "new" \in rows["trips_compressed"] <=> importer.at > 5
        /\ "new" \notin rows["routes"]

\* What is deleted is gone from the tables before the step the importer is at, and
\* the deletion is known; other attempts are left as they were.
DeleteInv ==
    importer.does = "delete" =>
        /\ \A i \in 1..(importer.at - 1) : \A t \in DeleteOrder[i] : importer.attempt \notin rows[t]
        /\ importer.at > 1 => "deletion" \in harm
        /\ \A a \in Attempts : a # importer.attempt => InOrder(a)

\* The old attempt is whole or gone unless a deletion of it is known.
RowsInv ==
    /\ importer.does = "insert" => "deletion" \notin harm
    /\ "deletion" \notin harm => \A a \in Attempts : InOrder(a)
    /\ (\/ "deletion" \notin harm
        \/ importer.does = "delete" /\ importer.attempt = "new") =>
           \A t, u \in Tables : "old" \in rows[t] => "old" \in rows[u]

\* The routes of the old attempt go once those of the new one are there.
RoutesInv ==
    "old" \in Attempts =>
        /\ (importer.does = "insert" \/ (importer.does = "delete" /\ importer.attempt = "new")) =>
              "old" \in rows["routes"]
        /\ (importer.does = "delete" /\ importer.attempt = "old") => "new" \in rows["routes"]
        /\ "deletion" \notin harm => "old" \in rows["routes"] \/ "new" \in rows["routes"]

TablesInv == FeedsInv /\ RowsType /\ InsertInv /\ DeleteInv /\ RowsInv /\ RoutesInv

\* A step of a deletion, whoever reads: the last one may leave no trace.
Deletes ==
    /\ importer.does = "delete"
    /\ rows' = [t \in Tables |-> IF t \in DeleteOrder[importer.at]
                                 THEN rows[t] \ {importer.attempt} ELSE rows[t]]
    /\ importer' = IF importer.at = Len(DeleteOrder) THEN [importer EXCEPT !.does = "rest"]
                   ELSE [importer EXCEPT !.at = @ + 1]
    /\ \/ harm' = harm \cup {"deletion"}
       \/ harm' = harm \ {"deletion"} /\ importer.at = Len(DeleteOrder)
    /\ UNCHANGED <<world, reduced>>

LEMMA TablesAre ==
  Tables = {"calendar", "calendar_dates", "direction_pattern", "direction_pattern_meta",
            "itinerary_pattern", "itinerary_pattern_meta", "trips_compressed", "routes"}
BY DEF Tables, Range, DeleteOrder

LEMMA OrdersAre ==
  /\ Len(InsertOrder) = 6 /\ Len(DeleteOrder) = 8
  /\ InsertOrder[1] = {"calendar"}
  /\ InsertOrder[2] = {"calendar_dates"}
  /\ InsertOrder[3] = {"direction_pattern_meta", "direction_pattern"}
  /\ InsertOrder[4] = {"itinerary_pattern_meta", "itinerary_pattern"}
  /\ InsertOrder[5] = {"trips_compressed"}
  /\ InsertOrder[6] = {"routes"}
  /\ DeleteOrder[1] = {"calendar_dates"}
  /\ DeleteOrder[2] = {"calendar"}
  /\ DeleteOrder[3] = {"routes"}
  /\ DeleteOrder[4] = {"itinerary_pattern_meta"}
  /\ DeleteOrder[5] = {"itinerary_pattern"}
  /\ DeleteOrder[6] = {"trips_compressed"}
  /\ DeleteOrder[7] = {"direction_pattern"}
  /\ DeleteOrder[8] = {"direction_pattern_meta"}
BY DEF InsertOrder, DeleteOrder

LEMMA AttemptsAre ==
  ASSUME FeedsInv
  PROVE  Attempts \subseteq {"old", "new"}
BY FeedsAssumption DEF FeedsInv, Attempts

\* The attempts and what is made of them do not change.
LEMMA FeedsStay ==
  ASSUME UNCHANGED <<world, reduced>>
  PROVE  /\ Attempts' = Attempts
         /\ FeedsInv => FeedsInv'
<1>1. Attempts' = Attempts
  BY DEF Attempts
<1> QED
  BY <1>1 DEF FeedsInv

LEMMA TablesAtFirst ==
  ASSUME ImportInit
  PROVE  TablesInv
<1> USE DEF ImportInit
<1>1. FeedsInv
  BY DEF FeedsInv
<1>2. RowsType
  BY <1>1, AttemptsAre, TablesAre DEF RowsType
<1>3. InsertInv /\ DeleteInv /\ RowsInv /\ RoutesInv
  BY <1>1, AttemptsAre, TablesAre DEF InsertInv, DeleteInv, RowsInv, RoutesInv, InOrder
<1> QED
  BY <1>1, <1>2, <1>3 DEF TablesInv

LEMMA InsertKeeps ==
  ASSUME TablesInv, Insert
  PROVE  TablesInv'
<1> USE DEF TablesInv
<1>1. UNCHANGED <<world, reduced, harm>>
  BY DEF Insert
<1>2. FeedsInv' /\ Attempts' = Attempts /\ Attempts \subseteq {"old", "new"}
  BY <1>1, FeedsStay, AttemptsAre
<1>3. importer.does = "insert" /\ importer.at \in 1..6 /\ importer.attempt = "new" /\ "new" \in Attempts
  BY DEF Insert, RowsType
<1>4. \A t \in Tables : rows[t] \subseteq rows'[t] /\ rows'[t] \subseteq rows[t] \cup {"new"}
  BY DEF Insert
<1>5. rows' \in [Tables -> SUBSET Attempts]
  BY <1>3 DEF Insert, RowsType
<1>6. \/ importer' = [importer EXCEPT !.at = @ + 1] /\ importer.at < 6
      \/ importer' = [does |-> "delete", attempt |-> "old", at |-> 1] /\ "old" \in Attempts /\ importer.at = 6
      \/ importer' = [importer EXCEPT !.does = "rest"] /\ importer.at = 6
  BY <1>3, OrdersAre DEF Insert, ToDelete
<1>7. RowsType'
  BY <1>1, <1>2, <1>3, <1>5, <1>6 DEF RowsType
<1>8. /\ "new" \in rows'["calendar"]
      /\ "new" \in rows'["calendar_dates"] <=> importer.at > 1
      /\ "new" \in rows'["direction_pattern"] <=> importer.at > 2
      /\ "new" \in rows'["direction_pattern_meta"] <=> importer.at > 2
      /\ "new" \in rows'["itinerary_pattern"] <=> importer.at > 3
      /\ "new" \in rows'["itinerary_pattern_meta"] <=> importer.at > 3
      /\ "new" \in rows'["trips_compressed"] <=> importer.at > 4
      /\ "new" \in rows'["routes"] <=> importer.at > 5
  <2>1. CASE importer.at = 1
    BY <1>3, <2>1, OrdersAre, TablesAre DEF Insert, InsertInv
  <2>2. CASE importer.at = 2
    BY <1>3, <2>2, OrdersAre, TablesAre DEF Insert, InsertInv
  <2>3. CASE importer.at = 3
    BY <1>3, <2>3, OrdersAre, TablesAre DEF Insert, InsertInv
  <2>4. CASE importer.at = 4
    BY <1>3, <2>4, OrdersAre, TablesAre DEF Insert, InsertInv
  <2>5. CASE importer.at = 5
    BY <1>3, <2>5, OrdersAre, TablesAre DEF Insert, InsertInv
  <2>6. CASE importer.at = 6
    BY <1>3, <2>6, OrdersAre, TablesAre DEF Insert, InsertInv
  <2> QED
    BY <1>3, <2>1, <2>2, <2>3, <2>4, <2>5, <2>6
<1>9. InsertInv'
  BY <1>3, <1>6, <1>8 DEF InsertInv, RowsType
<1>10. "deletion" \notin harm
  BY <1>3 DEF RowsInv
<1>11. \A a \in Attempts : InOrder(a)'
  <2>1. ASSUME NEW a \in Attempts, a = "old"
        PROVE  InOrder(a)'
    <3>1. InOrder(a)
      BY <1>10, <2>1 DEF RowsInv
    <3> QED
      BY <1>4, <2>1, <3>1, TablesAre DEF InOrder
  <2>2. ASSUME NEW a \in Attempts, a = "new"
        PROVE  InOrder(a)'
    BY <1>3, <1>8, <2>2 DEF InOrder
  <2> QED
    BY <1>2, <2>1, <2>2
<1>12. DeleteInv'
  BY <1>1, <1>2, <1>3, <1>6, <1>11 DEF DeleteInv, RowsType
<1>13. RowsInv'
  BY <1>1, <1>2, <1>3, <1>4, <1>6, <1>10, <1>11 DEF RowsInv
<1>14. RoutesInv'
  <2>1. "old" \in Attempts => "old" \in rows'["routes"]
    BY <1>3, <1>4, TablesAre DEF RoutesInv
  <2>2. importer'.does = "delete" => "new" \in rows'["routes"]
    BY <1>3, <1>6, <1>8 DEF RowsType
  <2> QED
    BY <1>2, <2>1, <2>2 DEF RoutesInv
<1> QED
  BY <1>2, <1>7, <1>9, <1>12, <1>13, <1>14

LEMMA FailsKeeps ==
  ASSUME TablesInv, InsertFails \/ Stop
  PROVE  TablesInv'
<1> USE DEF TablesInv
<1>1. UNCHANGED <<world, reduced, rows, harm>> /\ importer.does # "rest"
  BY DEF InsertFails, Stop
<1>2. FeedsInv' /\ Attempts' = Attempts /\ Attempts \subseteq {"old", "new"}
  BY <1>1, FeedsStay, AttemptsAre
<1>3. \/ /\ importer.does = "insert" /\ "new" \in Attempts
         /\ importer' = [does |-> "delete", attempt |-> "new", at |-> 1]
      \/ importer' = [importer EXCEPT !.does = "rest"]
  BY DEF InsertFails, Stop, ToDelete, RowsType
<1>4. RowsType'
  BY <1>1, <1>2, <1>3 DEF RowsType
<1>5. InsertInv'
  BY <1>3 DEF InsertInv, RowsType
<1>6. \A a \in Attempts : InOrder(a)' <=> InOrder(a)
  BY <1>1 DEF InOrder
<1>7. DeleteInv'
  BY <1>1, <1>2, <1>3, <1>6 DEF DeleteInv, RowsInv, RowsType
<1>8. RowsInv'
  BY <1>1, <1>2, <1>3, <1>6 DEF RowsInv, RowsType
<1>9. RoutesInv'
  BY <1>1, <1>2, <1>3 DEF RoutesInv, RowsType
<1> QED
  BY <1>2, <1>4, <1>5, <1>7, <1>8, <1>9

LEMMA DeleteKeeps ==
  ASSUME TablesInv, Deletes
  PROVE  TablesInv'
<1> USE DEF TablesInv
<1>1. UNCHANGED <<world, reduced>>
  BY DEF Deletes
<1>2. FeedsInv' /\ Attempts' = Attempts /\ Attempts \subseteq {"old", "new"}
  BY <1>1, FeedsStay, AttemptsAre
<1>3. importer.does = "delete" /\ importer.at \in 1..8 /\ importer.attempt \in Attempts
  BY DEF Deletes, RowsType
<1>4. \A t \in Tables : rows[t] \ {importer.attempt} \subseteq rows'[t] /\ rows'[t] \subseteq rows[t]
  BY DEF Deletes
<1>5. rows' \in [Tables -> SUBSET Attempts]
  BY DEF Deletes, RowsType
<1>6. \/ importer' = [importer EXCEPT !.at = @ + 1] /\ importer.at < 8
      \/ importer' = [importer EXCEPT !.does = "rest"] /\ importer.at = 8
  BY <1>3, OrdersAre DEF Deletes
<1>7. \/ harm' = harm \cup {"deletion"}
      \/ harm' = harm \ {"deletion"} /\ importer.at = 8
  BY <1>3, OrdersAre DEF Deletes
<1>8. RowsType'
  BY <1>1, <1>2, <1>3, <1>5, <1>6 DEF RowsType
<1>9. InsertInv'
  BY <1>3, <1>6 DEF InsertInv, RowsType
<1>10. \A i \in 1..importer.at : \A t \in DeleteOrder[i] : t \in Tables /\ importer.attempt \notin rows'[t]
  <2> SUFFICES ASSUME NEW i \in 1..importer.at, NEW t \in DeleteOrder[i]
               PROVE  t \in Tables /\ importer.attempt \notin rows'[t]
    OBVIOUS
  <2>1. t \in Tables
    BY <1>3, OrdersAre, TablesAre
  <2>2. CASE i = importer.at
    BY <2>1, <2>2 DEF Deletes
  <2>3. CASE i # importer.at
    BY <1>3, <1>4, <2>1, <2>3 DEF DeleteInv
  <2> QED
    BY <2>1, <2>2, <2>3
<1>11. ASSUME NEW a \in Attempts, a # importer.attempt
       PROVE  InOrder(a)'
  <2>1. InOrder(a)
    BY <1>3, <1>11 DEF DeleteInv
  <2> QED
    BY <1>4, <1>11, <2>1, TablesAre DEF InOrder
<1>12. DeleteInv'
  BY <1>2, <1>3, <1>6, <1>7, <1>10, <1>11 DEF DeleteInv, RowsType
<1>13. ASSUME importer.at = 8, NEW a \in Attempts, a = importer.attempt
       PROVE  InOrder(a)' /\ \A t \in Tables : a \notin rows'[t]
  <2>1. \A t \in Tables : a \notin rows'[t]
    BY <1>10, <1>13, OrdersAre, TablesAre
  <2> QED
    BY <2>1, TablesAre DEF InOrder
<1>14. RowsInv'
  <2>1. importer'.does # "insert" /\ importer'.attempt = importer.attempt
    BY <1>3, <1>6 DEF RowsType
  <2>2. ASSUME "deletion" \notin harm', NEW a \in Attempts
        PROVE  InOrder(a)'
    BY <1>7, <1>11, <1>13, <2>2
  <2>3. ASSUME \/ "deletion" \notin harm'
               \/ importer'.does = "delete" /\ importer'.attempt = "new",
               NEW t \in Tables, NEW u \in Tables, "old" \in rows'[t]
        PROVE  "old" \in rows'[u]
    <3>1. importer.attempt # "old"
      BY <1>3, <1>6, <1>7, <1>13, <2>1, <2>3 DEF RowsType
    <3>2. importer.attempt = "new"
      BY <1>2, <1>3, <3>1
    <3> QED
      BY <1>3, <1>4, <2>3, <3>2 DEF RowsInv
  <2> QED
    BY <1>2, <2>1, <2>2, <2>3 DEF RowsInv
<1>15. RoutesInv'
  <2>1. importer'.attempt = importer.attempt /\ importer'.does \in {"delete", "rest"}
    BY <1>3, <1>6 DEF RowsType
  <2>2. ASSUME "old" \in Attempts
        PROVE  /\ importer.attempt = "new" => "old" \in rows'["routes"]
               /\ importer.attempt = "old" => "new" \in rows'["routes"]
    BY <1>3, <1>4, <2>2, TablesAre DEF RoutesInv
  <2>3. importer.attempt \in {"old", "new"}
    BY <1>2, <1>3
  <2> QED
    BY <1>2, <2>1, <2>2, <2>3 DEF RoutesInv
<1> QED
  BY <1>2, <1>8, <1>9, <1>12, <1>14, <1>15

\* A step of an import: of attempts that are there and not deleted all rows stay.
LEMMA TablesKept ==
  ASSUME TablesInv, Insert \/ InsertFails \/ Stop \/ Deletes
  PROVE  /\ TablesInv'
         /\ UNCHANGED <<world, reduced>> /\ Attempts' = Attempts
         /\ \/ /\ harm' = harm
               /\ \A t \in Tables : rows[t] \subseteq rows'[t] /\ rows'[t] \subseteq rows[t] \cup {"new"}
            \/ Deletes
<1>1. TablesInv'
  BY InsertKeeps, FailsKeeps, DeleteKeeps
<1>2. UNCHANGED <<world, reduced>> /\ Attempts' = Attempts
  BY FeedsStay DEF Insert, InsertFails, Stop, Deletes
<1>3. Insert => harm' = harm /\ \A t \in Tables : rows[t] \subseteq rows'[t] /\ rows'[t] \subseteq rows[t] \cup {"new"}
  BY DEF Insert
<1> QED
  BY <1>1, <1>2, <1>3 DEF InsertFails, Stop

\* A step that leaves the tables alone, and may fail.
LEMMA TablesLeft ==
  ASSUME TablesInv, UNCHANGED <<world, reduced, rows, importer>>,
         harm' \in {harm, harm \cup {"failure"}}
  PROVE  TablesInv' /\ Attempts' = Attempts
<1>1. FeedsInv' /\ Attempts' = Attempts
  BY FeedsStay DEF TablesInv
<1>2. \A a : InOrder(a)' <=> InOrder(a)
  BY DEF InOrder
<1>3. "deletion" \in harm' <=> "deletion" \in harm
  OBVIOUS
<1> QED
  BY <1>1, <1>2, <1>3 DEF TablesInv, RowsType, InsertInv, DeleteInv, RowsInv, RoutesInv

--------------------------------------------------------------------------------
(* What Maple keeps of a feed.                                             *)

\* A service that the filter by days leaves as it is.
IsKept(feed, s, day) == \/ s \notin DOMAIN feed.general \cup DOMAIN feed.exceptions
                        \/ IsActive(Service(feed, s), day)

\* The filter by days keeps a trip if it keeps its service, and then as they are.
LEMMA FilterKeeps ==
  ASSUME NEW T, NEW G, NEW E, NEW day, NEW feed,
         feed = [trips |-> T, general |-> G, exceptions |-> E],
         NEW f, f = MinimumDayFilter(feed, day)
  PROVE  /\ DOMAIN f.trips = {t \in DOMAIN feed.trips : IsKept(feed, feed.trips[t].service, day)}
         /\ \A t \in DOMAIN f.trips : f.trips[t] = feed.trips[t]
         /\ \A s : IsKept(feed, s, day) => Service(f, s) = Service(feed, s)
<1> DEFINE Kept(S) == {s \in S : IsActive(Service(feed, s), day)}
           trips == {t \in DOMAIN feed.trips : \/ feed.trips[t].service \notin DOMAIN G \cup DOMAIN E
                                               \/ Kept({feed.trips[t].service}) # {}}
<1>1. f = [trips |-> Restrict(T, trips), general |-> Restrict(G, Kept(DOMAIN G)),
           exceptions |-> Restrict(E, Kept(DOMAIN E))]
  BY DEF MinimumDayFilter
<1>2. trips = {t \in DOMAIN feed.trips : IsKept(feed, feed.trips[t].service, day)}
  BY DEF IsKept
<1>3. DOMAIN f.trips = trips /\ \A t \in trips : f.trips[t] = T[t]
  <2> HIDE DEF trips
  <2> QED
    BY <1>1 DEF Restrict
<1>4. ASSUME NEW s, IsKept(feed, s, day)
      PROVE  Service(f, s) = Service(feed, s)
  <2>1. DOMAIN f.general = Kept(DOMAIN G) /\ \A x \in Kept(DOMAIN G) : f.general[x] = G[x]
    <3> HIDE DEF Kept
    <3> QED
      BY <1>1 DEF Restrict
  <2>2. DOMAIN f.exceptions = Kept(DOMAIN E) /\ \A x \in Kept(DOMAIN E) : f.exceptions[x] = E[x]
    <3> HIDE DEF Kept
    <3> QED
      BY <1>1 DEF Restrict
  <2>3. CASE s \notin DOMAIN G \cup DOMAIN E
    BY <2>1, <2>2, <2>3 DEF Service
  <2>4. CASE IsActive(Service(feed, s), day)
    <3>1. s \in Kept(DOMAIN G) <=> s \in DOMAIN G
      BY <2>4
    <3>2. s \in Kept(DOMAIN E) <=> s \in DOMAIN E
      BY <2>4
    <3> HIDE DEF Kept
    <3> QED
      BY <2>1, <2>2, <3>1, <3>2 DEF Service
  <2> QED
    BY <1>4, <2>3, <2>4 DEF IsKept
<1> QED
  BY <1>2, <1>3, <1>4

(* A trip that runs on a day to come is kept with its service.             *)
LEMMA ServedIsActive ==
  ASSUME NEW service, NEW day \in Int, NEW d \in Int, d >= day, DatetimeInService(service, d)
  PROVE  IsActive(service, day)
BY DEF DatetimeInService, InGeneral, IsActive

LEMMA FeedIs ==
  ASSUME FeedsInv
  PROVE  /\ world.zone \in Zones /\ world.day \in Int
         /\ \A a \in Attempts :
               /\ world.feeds[a] = [trips |-> world.feeds[a].trips, general |-> world.feeds[a].general,
                                    exceptions |-> world.feeds[a].exceptions]
               /\ \A t \in DOMAIN world.feeds[a].trips : IsTrip(world.feeds[a].trips[t])
BY FeedsAssumption DEF FeedsInv, Attempts

\* What is written of an attempt: trips of its feed with their itineraries, and every
\* trip that runs on a day to come.
LEMMA ReducedOf ==
  ASSUME FeedsInv, NEW a \in Attempts
  PROVE  /\ \A t \in DOMAIN reduced[a].covers :
               /\ t \in ValidTrips(world.feeds[a])
               /\ reduced[a].trips[t] = world.feeds[a].trips[t]
               /\ reduced[a].covers[t] = ItineraryCover(world.feeds[a].trips[t])
               /\ Service(reduced[a], world.feeds[a].trips[t].service) = Service(world.feeds[a], world.feeds[a].trips[t].service)
         /\ \A t \in ValidTrips(world.feeds[a]), d \in Int :
               d >= world.day /\ DatetimeInService(Service(world.feeds[a], world.feeds[a].trips[t].service), d) => t \in DOMAIN reduced[a].covers
<1> DEFINE feed == world.feeds[a]
           f == MinimumDayFilter(feed, world.day)
<1>1. reduced[a] = Reduce(f)
  BY DEF FeedsInv
<1>2. /\ reduced[a].trips = f.trips
      /\ DOMAIN reduced[a].covers = ValidTrips(f)
      /\ \A t \in ValidTrips(f) : reduced[a].covers[t] = ItineraryCover(f.trips[t])
      /\ \A s : Service(reduced[a], s) = Service(f, s)
  BY <1>1 DEF Reduce, Service
<1>3. feed = [trips |-> feed.trips, general |-> feed.general, exceptions |-> feed.exceptions]
  BY FeedIs
<1>4. /\ DOMAIN f.trips = {t \in DOMAIN feed.trips : IsKept(feed, feed.trips[t].service, world.day)}
      /\ \A t \in DOMAIN f.trips : f.trips[t] = feed.trips[t]
      /\ \A s : IsKept(feed, s, world.day) => Service(f, s) = Service(feed, s)
  BY <1>3, FilterKeeps
<1>5. \A t : t \in ValidTrips(f) <=> /\ t \in ValidTrips(feed)
                                     /\ IsKept(feed, feed.trips[t].service, world.day)
  <2> HIDE DEF f, feed
  <2> QED
    BY <1>4 DEF ValidTrips
<1>6. ASSUME NEW t \in DOMAIN reduced[a].covers
      PROVE  /\ t \in ValidTrips(world.feeds[a])
             /\ reduced[a].trips[t] = feed.trips[t]
             /\ reduced[a].covers[t] = ItineraryCover(feed.trips[t])
             /\ Service(reduced[a], feed.trips[t].service) = Service(feed, feed.trips[t].service)
  <2>1. t \in ValidTrips(f) /\ t \in DOMAIN f.trips
    BY <1>2 DEF ValidTrips
  <2>2. f.trips[t] = feed.trips[t]
    BY <1>4, <2>1
  <2>3. Service(f, feed.trips[t].service) = Service(feed, feed.trips[t].service)
    BY <1>4, <1>5, <2>1
  <2> QED
    BY <1>2, <1>5, <2>1, <2>2, <2>3
<1>7. ASSUME NEW t \in ValidTrips(feed), NEW d \in Int,
             d >= world.day, DatetimeInService(Service(feed, feed.trips[t].service), d)
      PROVE  t \in DOMAIN reduced[a].covers
  <2>1. IsActive(Service(feed, feed.trips[t].service), world.day)
    BY <1>7, FeedIs, ServedIsActive
  <2> QED
    BY <1>2, <1>5, <2>1 DEF IsKept
<1> QED
  BY <1>6, <1>7

--------------------------------------------------------------------------------
(* Calendars of several attempts that agree on a service.                  *)

\* The calendar made of several attempts' rows has the dates they all have.
LEMMA UnifiedIs ==
  ASSUME NEW s, NEW service,
         NEW C \in SUBSET {"old", "new"}, NEW D \in SUBSET {"old", "new"}, C # {}, D # {},
         NEW calendars \in SetToSeqs(C), NEW dates \in SetToSeqs(D),
         \A a \in C \cup D : Service(reduced[a], s) = service,
         NEW d
  PROVE  DatetimeInService(CalendarUnified(s, calendars, dates), d) <=> DatetimeInService(service, d)
<1> DEFINE general == {a \in C : s \in DOMAIN reduced[a].general}
           dated == {a \in D : s \in DOMAIN reduced[a].exceptions}
           On(a) == DOMAIN reduced[a].exceptions[s]
           unified == CalendarUnified(s, calendars, dates)
<1>1. Range(calendars) = C /\ Range(dates) = D
  BY WinnerIsOne
<1>2. unified = [general |-> IF general = {} THEN NoGeneral
                             ELSE reduced[Winner(calendars, general)].general[s],
                 exceptions |-> [x \in UNION {On(a) : a \in dated} |->
                     reduced[Winner(dates, {a \in dated : x \in On(a)})].exceptions[s][x]]]
  BY <1>1 DEF CalendarUnified
<1>3. unified.general = service.general
  <2>1. general = {} \/ Winner(calendars, general) \in general
    <3>1. general \in SUBSET C
      OBVIOUS
    <3> HIDE DEF general
    <3> QED
      BY <3>1, WinnerIsOne
  <2>2. ASSUME NEW a \in general
        PROVE  reduced[a].general[s] = service.general
    <3>1. a \in C /\ s \in DOMAIN reduced[a].general
      OBVIOUS
    <3> HIDE DEF general, dated, On, unified
    <3>2. Service(reduced[a], s) = service
      BY <3>1
    <3> QED
      BY <3>1, <3>2 DEF Service
  <2>3. ASSUME general = {}
        PROVE  service.general = NoGeneral
    <3>1. PICK a \in C : s \notin DOMAIN reduced[a].general
      BY <2>3
    <3> HIDE DEF general, dated, On, unified
    <3>2. Service(reduced[a], s) = service
      OBVIOUS
    <3> QED
      BY <3>1, <3>2 DEF Service
  <2> HIDE DEF general
  <2> QED
    BY <1>2, <2>1, <2>2, <2>3
<1>4. ASSUME NEW a \in dated
      PROVE  reduced[a].exceptions[s] = service.exceptions
  <2>1. a \in D /\ s \in DOMAIN reduced[a].exceptions
    OBVIOUS
  <2> HIDE DEF general, dated, On, unified
  <2>2. Service(reduced[a], s) = service
    BY <2>1
  <2> QED
    BY <2>1, <2>2 DEF Service
<1>5. ASSUME dated = {}
      PROVE  service.exceptions = <<>>
  <2>1. PICK a \in D : s \notin DOMAIN reduced[a].exceptions
    BY <1>5
  <2> HIDE DEF general, dated, On, unified
  <2>2. Service(reduced[a], s) = service
    OBVIOUS
  <2> QED
    BY <2>1, <2>2 DEF Service
<1>6. d \in DOMAIN unified.exceptions <=> d \in DOMAIN service.exceptions
  <2>1. DOMAIN unified.exceptions = UNION {On(a) : a \in dated}
    <3> HIDE DEF unified, dated, On, general
    <3> QED
      BY <1>2
  <2>2. CASE dated = {}
    BY <1>5, <2>1, <2>2
  <2>3. CASE dated # {}
    <3>1. \A a \in dated : On(a) = DOMAIN service.exceptions
      BY <1>4
    <3> HIDE DEF dated, On, unified
    <3> QED
      BY <2>1, <2>3, <3>1
  <2> QED
    BY <2>2, <2>3
<1>7. ASSUME d \in DOMAIN unified.exceptions
      PROVE  unified.exceptions[d] = service.exceptions[d]
  <2> DEFINE W == {a \in dated : d \in On(a)}
  <2>1. d \in UNION {On(a) : a \in dated}
    <3> HIDE DEF unified, dated, On, general
    <3> QED
      BY <1>2, <1>7
  <2>2. unified.exceptions[d] = reduced[Winner(dates, W)].exceptions[s][d]
    <3> HIDE DEF unified, dated, On, general
    <3> QED
      BY <1>2, <2>1
  <2>3. W \in SUBSET D /\ W # {}
    BY <2>1
  <2>4. Winner(dates, W) \in W
    <3> HIDE DEF W
    <3> QED
      BY <2>3, WinnerIsOne
  <2>5. Winner(dates, W) \in dated
    BY <2>4
  <2> HIDE DEF W, dated
  <2> QED
    BY <1>4, <2>2, <2>5
<1> QED
  BY <1>3, <1>6, <1>7 DEF DatetimeInService

--------------------------------------------------------------------------------
(* Trips and their itineraries.                                            *)

\* A row of an itinerary is that of the visit, timed from the start.
IsCovered(trip, k, cover) ==
    /\ StartTime(trip) \in Int
    /\ trip.stops[k].arrival \in Int /\ trip.stops[k].departure \in Int
    /\ cover.stops[k].stop = trip.stops[k].stop
    /\ cover.stops[k].sequence = trip.stops[k].sequence
    /\ cover.stops[k].arrival = IF trip.stops[k].arrival = NoTime THEN NoTime
                                ELSE trip.stops[k].arrival - StartTime(trip)
    /\ cover.stops[k].departure = IF trip.stops[k].departure = NoTime THEN NoTime
                                  ELSE trip.stops[k].departure - StartTime(trip)
    /\ cover.stops[k].arrival \in Int /\ cover.stops[k].departure \in Int
    /\ cover.stops[k].arrival = NoTime <=> trip.stops[k].arrival = NoTime
    /\ cover.stops[k].departure = NoTime <=> trip.stops[k].departure = NoTime

\* Times of an itinerary count from the start of the trip.
LEMMA CoverIs ==
  ASSUME NEW trip, IsTrip(trip), NEW cover, cover = ItineraryCover(trip),
         NEW k \in DOMAIN trip.stops,
         trip.stops[1].arrival # NoTime, 1 \in DOMAIN trip.stops
  PROVE  IsCovered(trip, k, cover)
<1> DEFINE Since(time) == IF time = NoTime THEN NoTime ELSE time - StartTime(trip)
           s == trip.stops[k]
<1>1. cover.stops[k] = [s EXCEPT !.arrival = Since(@), !.departure = Since(@)]
  BY DEF ItineraryCover
<1>2. /\ s \in [stop : {s.stop}, arrival : Int, departure : Int, sequence : Int, headsign : {s.headsign}]
      /\ \A time \in {s.arrival, s.departure} : time = NoTime \/ time >= trip.stops[1].arrival
  BY DEF IsTrip
<1>3. trip.stops[1].arrival \in Int
  BY DEF IsTrip
<1>4. /\ cover.stops[k].stop = s.stop /\ cover.stops[k].sequence = s.sequence
      /\ cover.stops[k].arrival = Since(s.arrival)
      /\ cover.stops[k].departure = Since(s.departure)
  BY <1>1, <1>2
<1>5. \A time \in {s.arrival, s.departure} :
         time \in Int /\ Since(time) \in Int /\ (Since(time) = NoTime <=> time = NoTime)
  BY <1>2, <1>3 DEF StartTime, NoTime
<1>6. StartTime(trip) \in Int
  BY <1>3 DEF StartTime
<1> QED
  BY <1>4, <1>5, <1>6 DEF IsCovered

LEMMA ValidTripStarts ==
  ASSUME NEW feed, NEW t \in ValidTrips(feed), IsTrip(feed.trips[t])
  PROVE  /\ t \in DOMAIN feed.trips
         /\ Len(feed.trips[t].stops) \in Nat /\ Len(feed.trips[t].stops) >= 2
         /\ DOMAIN feed.trips[t].stops = 1..Len(feed.trips[t].stops)
         /\ feed.trips[t].stops[1].arrival # NoTime
         /\ DOMAIN ItineraryCover(feed.trips[t]).stops = DOMAIN feed.trips[t].stops
         /\ Len(ItineraryCover(feed.trips[t]).stops) = Len(feed.trips[t].stops)
<1>1. feed.trips[t].stops \in Seq(Range(feed.trips[t].stops))
  BY DEF IsTrip
<1>2. /\ Len(feed.trips[t].stops) \in Nat
      /\ DOMAIN feed.trips[t].stops = 1..Len(feed.trips[t].stops)
  BY <1>1, LenProperties
<1>3. DOMAIN ItineraryCover(feed.trips[t]).stops = DOMAIN feed.trips[t].stops
  BY DEF ItineraryCover
<1> QED
  BY <1>2, <1>3 DEF ValidTrips

================================================================================
