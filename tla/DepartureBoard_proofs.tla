------------------------- MODULE DepartureBoard_proofs -------------------------
(* The departures of a stop, for all timetables, calendars, zones and      *)
(* requests that satisfy CasesAssumption.                                  *)
EXTENDS DepartureBoard, StaticImport_proofs

--------------------------------------------------------------------------------
(* The invariant: what an import has written so far, what a request that   *)
(* nothing has harmed has read of it, and where an answer comes from.      *)

WorldInv ==
    /\ FeedsInv
    /\ \A a \in Attempts : picks[a] \in Picks(reduced[a])

GotType ==
    /\ DOMAIN got \subseteq BoardTables
    /\ \A t \in DOMAIN got : got[t] \subseteq Attempts
    /\ \A t \in DOMAIN got : t \in DOMAIN KeysFrom => KeysFrom[t] \in DOMAIN got

\* A request that nothing has harmed has read what is still there, in the order it
\* was written in.
ReadInv ==
    harm = {} =>
        /\ \A t \in DOMAIN got : got[t] \subseteq rows[t]
        /\ \A t \in DOMAIN got : "old" \in rows[t] => "old" \in got[t]
        /\ \A t \in DOMAIN got \cap (BoardTables \ {"trips_compressed"}) :
              got["itinerary_pattern"] \subseteq got[t]
        /\ \A t \in DOMAIN got \cap {"calendar", "calendar_dates"} :
              got["trips_compressed"] \subseteq got[t]

\* A request that has an answer has read all tables, or failed.
AnswerInv ==
    \/ answer = NoAnswer
    \/ answer.state = "sent" /\ DOMAIN got = BoardTables
    \/ answer.state = "panic" /\ ("failure" \in harm \/ (harm # {} /\ DOMAIN got = BoardTables))

ImportInv == WorldInv /\ TablesInv /\ GotType /\ ReadInv

--------------------------------------------------------------------------------
(* The tables and the orders they are written and read in.                 *)

LEMMA BoardTablesAre ==
  /\ BoardTables = {"calendar", "calendar_dates", "direction_pattern", "direction_pattern_meta",
                    "itinerary_pattern", "itinerary_pattern_meta", "trips_compressed"}
  /\ BoardTables \subseteq Tables
BY TablesAre DEF BoardTables

LEMMA KeysAre ==
  /\ DOMAIN KeysFrom = BoardTables \ {"itinerary_pattern"}
  /\ KeysFrom["itinerary_pattern_meta"] = "itinerary_pattern"
  /\ KeysFrom["direction_pattern_meta"] = "itinerary_pattern_meta"
  /\ KeysFrom["direction_pattern"] = "itinerary_pattern_meta"
  /\ KeysFrom["trips_compressed"] = "itinerary_pattern"
  /\ KeysFrom["calendar"] = "trips_compressed"
  /\ KeysFrom["calendar_dates"] = "calendar"
BY BoardTablesAre DEF KeysFrom

--------------------------------------------------------------------------------
(* The invariant holds at first, and every step of an import keeps it.     *)

LEMMA InitInv ==
  ASSUME Init
  PROVE  ImportInv /\ AnswerInv
<1>1. TablesInv
  BY TablesAtFirst DEF Init
<1>2. WorldInv /\ GotType
  BY <1>1 DEF Init, TablesInv, WorldInv, GotType
<1>3. ReadInv /\ AnswerInv
  BY DEF Init, ReadInv, AnswerInv, NoAnswer
<1> QED
  BY <1>1, <1>2, <1>3 DEF ImportInv

LEMMA ImportKeeps ==
  ASSUME ImportInv, Import(DOMAIN got # {}), UNCHANGED <<picks, got, answer>>
  PROVE  ImportInv'
<1> USE DEF ImportInv
<1>1. Insert \/ InsertFails \/ Stop \/ Deletes
  BY DEF Import, Delete, Deletes
<1>2. TablesInv' /\ UNCHANGED <<world, reduced>> /\ Attempts' = Attempts
  BY <1>1, TablesKept
<1>3. WorldInv' /\ GotType'
  BY <1>2 DEF WorldInv, FeedsInv, GotType
<1>4. ReadInv'
  <2>1. CASE Insert
    <3>1. \A t \in Tables : rows[t] \subseteq rows'[t] /\ rows'[t] \subseteq rows[t] \cup {"new"}
      BY <2>1 DEF Insert
    <3> QED
      BY <2>1, <3>1, BoardTablesAre DEF Insert, ReadInv, GotType
  <2>2. CASE InsertFails \/ Stop
    BY <2>2 DEF InsertFails, Stop, ReadInv
  <2>3. CASE Delete(DOMAIN got # {})
    BY <2>3 DEF Delete, ReadInv
  <2> QED
    BY <2>1, <2>2, <2>3 DEF Import
<1> QED
  BY <1>2, <1>3, <1>4

(* What is remembered as harm to a request stays, once it has read.        *)
LEMMA HarmStays ==
  ASSUME ImportInv, Import(DOMAIN got # {})
  PROVE  /\ "failure" \in harm => "failure" \in harm'
         /\ DOMAIN got # {} => harm \subseteq harm'
BY DEF Import, Insert, InsertFails, Delete, Stop

--------------------------------------------------------------------------------
(* Every query of a request keeps it.                                      *)

(* A query takes its keys from what was read.                              *)
LEMMA KeysRead ==
  ASSUME GotType, NEW t \in BoardTables, CanRead(t)
  PROVE  /\ t \notin DOMAIN got
         /\ t # "itinerary_pattern" => "itinerary_pattern" \in DOMAIN got
         /\ t \in {"calendar", "calendar_dates"} => "trips_compressed" \in DOMAIN got
         /\ t = "itinerary_pattern" => DOMAIN got = {}
         /\ t = "trips_compressed" => DOMAIN got \cap {"calendar", "calendar_dates"} = {}
<1>1. /\ t \notin DOMAIN got /\ DOMAIN got \subseteq BoardTables
      /\ t \in DOMAIN KeysFrom => KeysFrom[t] \in DOMAIN got
  BY DEF GotType, CanRead
<1>2. /\ "itinerary_pattern_meta" \in DOMAIN got => "itinerary_pattern" \in DOMAIN got
      /\ "direction_pattern_meta" \in DOMAIN got => "itinerary_pattern_meta" \in DOMAIN got
      /\ "direction_pattern" \in DOMAIN got => "itinerary_pattern_meta" \in DOMAIN got
      /\ "trips_compressed" \in DOMAIN got => "itinerary_pattern" \in DOMAIN got
      /\ "calendar" \in DOMAIN got => "trips_compressed" \in DOMAIN got
      /\ "calendar_dates" \in DOMAIN got => "calendar" \in DOMAIN got
  <2>1. \A u \in DOMAIN got : u \in DOMAIN KeysFrom => KeysFrom[u] \in DOMAIN got
    BY DEF GotType
  <2> QED
    BY <2>1, BoardTablesAre, KeysAre
<1>3. t # "itinerary_pattern" => "itinerary_pattern" \in DOMAIN got
  BY <1>1, <1>2, BoardTablesAre, KeysAre
<1>4. t \in {"calendar", "calendar_dates"} => "trips_compressed" \in DOMAIN got
  BY <1>1, <1>2, BoardTablesAre, KeysAre
<1>5. t = "itinerary_pattern" => DOMAIN got = {}
  BY <1>1, <1>2, BoardTablesAre
<1> QED
  BY <1>1, <1>2, <1>3, <1>4, <1>5

\* Tables are read against the order they are written in.
LEMMA ReadKeeps ==
  ASSUME ImportInv, NEW t \in BoardTables, CanRead(t),
         NEW attempts \in SUBSET Attempts,
         got' = GotToo(t, attempts), UNCHANGED <<world, reduced, picks, rows, importer>>,
         \/ attempts = rows[t] /\ harm' = harm
         \/ harm' = harm \cup {"failure"}
  PROVE  ImportInv'
<1> USE DEF ImportInv
<1>1. TablesInv' /\ Attempts' = Attempts /\ UNCHANGED reduced
  BY TablesLeft
<1>2. /\ DOMAIN got' = DOMAIN got \cup {t}
      /\ got'[t] = attempts
      /\ \A u \in DOMAIN got : got'[u] = got[u]
  BY KeysRead DEF GotToo
<1>3. GotType'
  BY <1>1, <1>2 DEF GotType, CanRead
<1>4. WorldInv'
  BY <1>1 DEF WorldInv, TablesInv
<1>6. ReadInv'
  <2> SUFFICES ASSUME harm' = {}
               PROVE  /\ \A u \in DOMAIN got' : got'[u] \subseteq rows[u]
                      /\ \A u \in DOMAIN got' : "old" \in rows[u] => "old" \in got'[u]
                      /\ \A u \in DOMAIN got' \cap (BoardTables \ {"trips_compressed"}) :
                            got'["itinerary_pattern"] \subseteq got'[u]
                      /\ \A u \in DOMAIN got' \cap {"calendar", "calendar_dates"} :
                            got'["trips_compressed"] \subseteq got'[u]
    BY DEF ReadInv
  <2>1. attempts = rows[t] /\ harm = {}
    OBVIOUS
  <2>2. /\ \A u \in DOMAIN got : got[u] \subseteq rows[u]
        /\ \A u \in DOMAIN got : "old" \in rows[u] => "old" \in got[u]
        /\ \A u \in DOMAIN got \cap (BoardTables \ {"trips_compressed"}) :
              got["itinerary_pattern"] \subseteq got[u]
        /\ \A u \in DOMAIN got \cap {"calendar", "calendar_dates"} :
              got["trips_compressed"] \subseteq got[u]
    BY <2>1 DEF ReadInv
  <2>3. \A a \in Attempts : InOrder(a)
    BY <2>1 DEF TablesInv, RowsInv
  <2>4. \A a \in Attempts : /\ a \in rows["itinerary_pattern"] =>
                                  \A u \in BoardTables \ {"trips_compressed"} : a \in rows[u]
                            /\ a \in rows["trips_compressed"] =>
                                  a \in rows["calendar"] /\ a \in rows["calendar_dates"]
    BY <2>3, BoardTablesAre DEF InOrder
  <2>5. \A u \in DOMAIN got' : got'[u] \subseteq rows[u] /\ got'[u] \subseteq Attempts
    BY <1>2, <2>1, <2>2 DEF GotType
  <2>6. \A u \in DOMAIN got' : "old" \in rows[u] => "old" \in got'[u]
    BY <1>2, <2>1, <2>2
  <2>7. ASSUME NEW u \in DOMAIN got' \cap (BoardTables \ {"trips_compressed"})
        PROVE  got'["itinerary_pattern"] \subseteq got'[u]
    <3>1. CASE u = t /\ t # "itinerary_pattern"
      BY <1>2, <2>1, <2>4, <2>5, <3>1, KeysRead
    <3>2. CASE u = "itinerary_pattern"
      BY <3>2
    <3>3. CASE u # t /\ u # "itinerary_pattern"
      <4>1. t # "itinerary_pattern"
        BY <1>2, <3>3, KeysRead
      <4> QED
        BY <1>2, <2>2, <3>3, <4>1, KeysRead
    <3> QED
      BY <3>1, <3>2, <3>3
  <2>8. ASSUME NEW u \in DOMAIN got' \cap {"calendar", "calendar_dates"}
        PROVE  got'["trips_compressed"] \subseteq got'[u]
    <3>1. CASE u = t
      BY <1>2, <2>1, <2>4, <2>5, <3>1, KeysRead
    <3>2. CASE u # t
      <4>1. t # "trips_compressed"
        BY <1>2, <3>2, KeysRead
      <4>2. "trips_compressed" \in DOMAIN got
        BY <1>2, <3>2, KeysAre, BoardTablesAre DEF GotType
      <4> QED
        BY <1>2, <2>2, <3>2, <4>1, <4>2
    <3> QED
      BY <3>1, <3>2
  <2> QED
    BY <2>5, <2>6, <2>7, <2>8
<1> QED
  BY <1>1, <1>3, <1>4, <1>6

LEMMA QueryKeeps ==
  ASSUME ImportInv, NEW t \in BoardTables, Read(t) \/ ReadFails(t) \/ NoConnection(t)
  PROVE  ImportInv'
<1>1. CASE Read(t)
  <2>1. rows[t] \in SUBSET Attempts
    BY BoardTablesAre DEF ImportInv, TablesInv, RowsType
  <2> QED
    BY <1>1, <2>1, ReadKeeps DEF Read
<1>2. CASE ReadFails(t)
  BY <1>2, ReadKeeps DEF ReadFails
<1>3. CASE NoConnection(t)
  <2>1. UNCHANGED <<world, reduced, picks, rows, importer, got>> /\ harm' = harm \cup {"failure"}
    BY <1>3 DEF NoConnection
  <2>2. TablesInv' /\ Attempts' = Attempts
    BY <2>1, TablesLeft DEF ImportInv
  <2> QED
    BY <2>1, <2>2 DEF ImportInv, WorldInv, TablesInv, GotType, ReadInv
<1> QED
  BY <1>1, <1>2, <1>3

LEMMA AnswerKeeps ==
  ASSUME ImportInv, Answer \/ UNCHANGED vars
  PROVE  ImportInv'
<1>1. UNCHANGED <<world, reduced, picks, rows, importer, got, harm>>
  BY DEF Answer, vars
<1>2. TablesInv' /\ Attempts' = Attempts
  BY <1>1, TablesLeft DEF ImportInv
<1> QED
  BY <1>1, <1>2 DEF ImportInv, WorldInv, TablesInv, GotType, ReadInv

LEMMA ImportInvKept ==
  ASSUME ImportInv, [Next]_vars
  PROVE  ImportInv'
BY ImportKeeps, QueryKeeps, AnswerKeeps DEF Next, Request

--------------------------------------------------------------------------------
(* Trips and their itineraries.                                            *)

LEMMA CaseOfWorld ==
  ASSUME WorldInv
  PROVE  /\ world.zone \in Zones
         /\ world.from \in Int /\ world.to \in Int /\ world.day \in Int
         /\ world.from <= world.to
         /\ \A a \in Attempts :
               /\ world.feeds[a] = [trips |-> world.feeds[a].trips, general |-> world.feeds[a].general,
                                    exceptions |-> world.feeds[a].exceptions]
               /\ \A t \in DOMAIN world.feeds[a].trips : IsTrip(TripOf(a, t))
BY FeedIs, CasesAssumption DEF WorldInv, FeedsInv, TripOf

\* What is written of an attempt: trips of its feed with their itineraries, and every
\* trip that runs on a day to come.
LEMMA ReducedIs ==
  ASSUME WorldInv, NEW a \in Attempts
  PROVE  /\ \A t \in DOMAIN reduced[a].covers :
               /\ t \in ValidTrips(world.feeds[a])
               /\ reduced[a].trips[t] = TripOf(a, t)
               /\ reduced[a].covers[t] = ItineraryCover(TripOf(a, t))
               /\ Service(reduced[a], TripOf(a, t).service) = ServiceOf(a, t)
         /\ \A t \in ValidTrips(world.feeds[a]), d \in Int :
               d >= world.day /\ DatetimeInService(ServiceOf(a, t), d) => t \in DOMAIN reduced[a].covers
BY ReducedOf DEF WorldInv, TripOf, ServiceOf

\* The interpolation of a time finds timed stops around it.
LEMMA OffsetIsInt ==
  ASSUME NEW trip, IsTrip(trip), NEW cover, cover = ItineraryCover(trip),
         NEW n \in Nat, DOMAIN trip.stops = 1..n, n >= 1, Len(cover.stops) = n,
         trip.stops[1].arrival # NoTime, NEW k \in 1..n
  PROVE  Offset(cover, k) \in Int
<1>1. \A i \in 1..n : cover.stops[i].arrival \in Int /\ cover.stops[i].departure \in Int
  BY CoverIs DEF IsCovered
<1>2. \A i \in 1..n : /\ Or(cover.stops[i].arrival, cover.stops[i].departure) \in Int
                      /\ Or(cover.stops[i].departure, cover.stops[i].arrival) \in Int
  BY <1>1 DEF Or
<1> DEFINE Timed(i) == Or(cover.stops[i].arrival, cover.stops[i].departure) # NoTime
           before == {i \in 1..(k - 1) : Timed(i)}
           behind == {i \in (k + 1)..n : Timed(i)}
<1>3. ASSUME before # {}, behind # {}
      PROVE  Max(before) \in 1..(k - 1) /\ Min(behind) \in (k + 1)..n
  <2>1. before \in SUBSET (1..(k - 1)) /\ IsFiniteSet(1..(k - 1))
    BY FS_Interval
  <2>2. behind \in SUBSET ((k + 1)..n) /\ behind \in SUBSET Nat
    OBVIOUS
  <2> HIDE DEF before, behind
  <2>3. IsFiniteSet(before)
    BY <2>1, FS_Subset
  <2>4. before \in SUBSET Int
    BY <2>1
  <2>5. Max(before) \in before
    BY <1>3, <2>3, <2>4, MaxOfFinite
  <2>6. Min(behind) \in behind
    BY <1>3, <2>2, MinOfFinite
  <2> QED
    BY <2>1, <2>2, <2>5, <2>6
<1>4. InterpolatedTime(cover, k) \in Int
  <2>1. InterpolatedTime(cover, k) =
          IF Timed(k) \/ before = {} \/ behind = {} THEN NoTime
          ELSE LET i == Max(before)
                   j == Min(behind)
                   from == Or(cover.stops[i].departure, cover.stops[i].arrival)
                   to == Or(cover.stops[j].arrival, cover.stops[j].departure)
               IN  from + ((to - from) \div (j - i - 1)) * (k - i)
    BY DEF InterpolatedTime
  <2>2. CASE Timed(k) \/ before = {} \/ behind = {}
    <3>1. InterpolatedTime(cover, k) = NoTime
      BY <2>1, <2>2
    <3> QED
      BY <3>1 DEF NoTime
  <2>3. CASE ~ (Timed(k) \/ before = {} \/ behind = {})
    <3> DEFINE i == Max(before)
               j == Min(behind)
               from == Or(cover.stops[i].departure, cover.stops[i].arrival)
               to == Or(cover.stops[j].arrival, cover.stops[j].departure)
    <3>1. i \in 1..(k - 1) /\ j \in (k + 1)..n
      BY <1>3, <2>3
    <3>2. from \in Int /\ to \in Int
      <4> HIDE DEF i, j
      <4>1. i \in 1..n /\ j \in 1..n
        BY <3>1
      <4> QED
        BY <1>2, <4>1
    <3>3. InterpolatedTime(cover, k) = from + ((to - from) \div (j - i - 1)) * (k - i)
      BY <2>1, <2>3
    <3> HIDE DEF i, j, from, to
    <3>4. j - i - 1 \in Int /\ j - i - 1 > 0 /\ k - i \in Int /\ to - from \in Int
      BY <3>1, <3>2
    <3>5. (to - from) \div (j - i - 1) \in Int
      BY <3>4
    <3> QED
      BY <3>2, <3>3, <3>4, <3>5
  <2> QED
    BY <2>2, <2>3
<1> QED
  BY <1>2, <1>4 DEF Offset, Or

LEMMA LookBackIsInt ==
  ASSUME NEW trip, IsTrip(trip)
  PROVE  LookBack(trip) \in Int
<1>1. CASE trip.every = {}
  BY <1>1 DEF LookBack, IsRepeated
<1>2. CASE trip.every # {}
  <2> DEFINE S == {e.last : e \in trip.every}
             f == [e \in trip.every |-> e.last]
  <2>1. f \in Surjection(trip.every, S)
    BY DEF Surjection
  <2>2. IsFiniteSet(trip.every) /\ S \in SUBSET Int /\ S # {}
    BY <1>2 DEF IsTrip
  <2> HIDE DEF f
  <2>3. IsFiniteSet(S)
    BY <2>1, <2>2, FS_Surjection
  <2>4. LookBack(trip) = Max(S)
    BY <1>2 DEF LookBack, IsRepeated
  <2> HIDE DEF S
  <2> QED
    BY <2>2, <2>3, <2>4, MaxOfFinite
<1> QED
  BY <1>1, <1>2

\* What is looked ahead beyond the window.
Spare == Lesser(Greater(12 * Hour - (world.to - world.from), 300), 5 * Day - (world.to - world.from))

LEMMA LookAheadIs ==
  ASSUME WorldInv
  PROVE  LookAhead \in Int /\ LookAhead - (world.to - world.from) = Spare
BY CaseOfWorld DEF LookAhead, Spare, Lesser, Greater, Hour, Day

\* The visit that stands for an itinerary.
Standing(cover) == IF world.last THEN Max(Options(cover)) ELSE Min(Options(cover))

LEMMA StandingIs ==
  ASSUME NEW cover, NEW n \in Nat, DOMAIN cover.stops = 1..n, Options(cover) # {}
  PROVE  Standing(cover) \in Options(cover) /\ Options(cover) \subseteq 1..n
<1>1. Options(cover) \in SUBSET (1..n) /\ IsFiniteSet(1..n)
  BY FS_Interval DEF Options
<1>2. IsFiniteSet(Options(cover))
  BY <1>1, FS_Subset
<1>3. Options(cover) \in SUBSET Int /\ Options(cover) \in SUBSET Nat
  BY <1>1
<1>4. Max(Options(cover)) \in Options(cover) /\ Min(Options(cover)) \in Options(cover)
  BY <1>2, <1>3, MaxOfFinite, MinOfFinite
<1> QED
  BY <1>1, <1>4 DEF Standing

(* The stops of an itinerary are those of each trip it is of.              *)
LEMMA TripFacts ==
  ASSUME WorldInv, NEW a \in Attempts, NEW t \in ValidTrips(world.feeds[a]),
         NEW cover, cover = ItineraryCover(TripOf(a, t))
  PROVE  /\ IsTrip(TripOf(a, t))
         /\ Options(cover) = VisitsOf(a, t)
         /\ Options(cover) # {} => Standing(cover) \in VisitsOf(a, t)
         /\ \A k \in VisitsOf(a, t) : Offset(cover, k) \in Int
         /\ StartTime(TripOf(a, t)) \in Int
         /\ \A k \in VisitsOf(a, t) :
               /\ cover.stops[k].arrival = IF TripOf(a, t).stops[k].arrival = NoTime THEN NoTime
                                           ELSE TripOf(a, t).stops[k].arrival - StartTime(TripOf(a, t))
               /\ cover.stops[k].departure = IF TripOf(a, t).stops[k].departure = NoTime THEN NoTime
                                             ELSE TripOf(a, t).stops[k].departure - StartTime(TripOf(a, t))
               /\ cover.stops[k].arrival = NoTime <=> TripOf(a, t).stops[k].arrival = NoTime
               /\ cover.stops[k].departure = NoTime <=> TripOf(a, t).stops[k].departure = NoTime
               /\ TripOf(a, t).stops[k].arrival \in Int /\ TripOf(a, t).stops[k].departure \in Int
<1> DEFINE trip == TripOf(a, t)
           n == Len(trip.stops)
<1>1. trip = world.feeds[a].trips[t]
  BY DEF TripOf
<1>2. IsTrip(trip)
  BY CaseOfWorld DEF ValidTrips
<1>3. /\ n \in Nat /\ n >= 2 /\ DOMAIN trip.stops = 1..n
      /\ trip.stops[1].arrival # NoTime
      /\ DOMAIN cover.stops = 1..n /\ Len(cover.stops) = n
  BY <1>1, <1>2, ValidTripStarts
<1> HIDE DEF trip, n
<1>4. 1 \in DOMAIN trip.stops
  BY <1>3
<1>5. \A k \in 1..n :
         /\ StartTime(trip) \in Int
         /\ trip.stops[k].arrival \in Int /\ trip.stops[k].departure \in Int
         /\ cover.stops[k].stop = trip.stops[k].stop
         /\ cover.stops[k].arrival = IF trip.stops[k].arrival = NoTime THEN NoTime
                                     ELSE trip.stops[k].arrival - StartTime(trip)
         /\ cover.stops[k].departure = IF trip.stops[k].departure = NoTime THEN NoTime
                                       ELSE trip.stops[k].departure - StartTime(trip)
         /\ cover.stops[k].arrival = NoTime <=> trip.stops[k].arrival = NoTime
         /\ cover.stops[k].departure = NoTime <=> trip.stops[k].departure = NoTime
  <2> TAKE k \in 1..n
  <2> QED
    BY <1>2, <1>3, <1>4, CoverIs DEF IsCovered, trip
<1>6. Options(cover) = VisitsOf(a, t) /\ VisitsOf(a, t) \subseteq 1..n
  BY <1>3, <1>5 DEF Options, VisitsOf, trip
<1>7. Options(cover) # {} => Standing(cover) \in VisitsOf(a, t)
  BY <1>3, <1>6, StandingIs
<1>8. \A k \in 1..n : Offset(cover, k) \in Int
  <2> TAKE k \in 1..n
  <2> QED
    BY <1>2, <1>3, OffsetIsInt DEF trip
<1>9. StartTime(trip) \in Int
  BY <1>3, <1>4, <1>5
<1> USE DEF trip
<1> QED
  BY <1>2, <1>5, <1>6, <1>7, <1>8, <1>9

LEMMA StartsAreInts ==
  ASSUME NEW trip, IsTrip(trip), StartTime(trip) \in Int, NEW start \in Starts(trip)
  PROVE  start \in Int
<1>1. CASE ~ IsRepeated(trip)
  BY <1>1 DEF Starts
<1>2. CASE IsRepeated(trip)
  <2>1. PICK e \in trip.every : \E n \in 0..((e.last - e.first) \div e.headway) :
          start = e.first + n * e.headway
    BY <1>2 DEF Starts
  <2>2. e.first \in Int /\ e.headway \in Int
    BY DEF IsTrip
  <2>3. PICK n \in 0..((e.last - e.first) \div e.headway) : start = e.first + n * e.headway
    BY <2>1
  <2>4. n \in Int
    OBVIOUS
  <2>5. n * e.headway \in Int
    BY <2>2, <2>4
  <2> QED
    BY <2>2, <2>3, <2>5
<1> QED
  BY <1>1, <1>2

--------------------------------------------------------------------------------
(* Calls and the runs that are looked for.                                 *)

\* The date of a time in the window is looked at: EveryDateIsChecked, for the request.
LEMMA TimeIsLooked ==
  ASSUME WorldInv, NEW date \in Int, NEW time \in Int, NEW offset \in Int, NEW lookback \in Int,
         Examined(world.zone, time, offset, lookback, Spare),
         Midnight(world.zone, date) + time \in world.from..world.to
  PROVE  date \in DatesToCheck(world.zone, offset, lookback, world.from, Day, LookAhead)
<1>1. /\ world.zone \in Zones /\ world.from \in Int /\ world.to \in Int
      /\ LookAhead \in Int /\ LookAhead - (world.to - world.from) = Spare
  BY CaseOfWorld, LookAheadIs
<1> DEFINE window == world.to - world.from
<1>2. window \in Int /\ world.from + window = world.to /\ LookAhead - window = Spare
  BY <1>1
<1> HIDE DEF window
<1> QED
  BY <1>1, <1>2, EveryDateIsChecked

\* A call that is due is on a date the request looks at.
LEMMA CallFacts ==
  ASSUME WorldInv, NEW a \in Attempts, NEW c \in CallsDue(a),
         NEW trip, trip = TripOf(a, c.trip), NEW cover, cover = ItineraryCover(trip)
  PROVE  /\ IsCall(a, c) /\ c.date \in Int /\ c.date >= world.day
         /\ c.start \in Int
         /\ c.date \in DatesToCheck(world.zone, Offset(cover, Standing(cover)), LookBack(trip),
                                    world.from, Day, LookAhead)
         /\ InWindow(ScheduledAt(a, c).arrival) \/ InWindow(ScheduledAt(a, c).departure)
<1> DEFINE Looked(time) ==
             time # NoTime => \A k \in VisitsOf(a, c.trip) :
                 Examined(world.zone, TimeOn(a, c.trip, c.start, time), Offset(cover, k), LookBack(trip), Spare)
           s == trip.stops[c.visit]
           at == ScheduledAt(a, c)
<1>1. /\ IsCall(a, c) /\ c.date >= world.day
      /\ c.date \in (LocalDate(world.zone, world.from) - 4)..(LocalDate(world.zone, world.to) + 1)
      /\ \/ InWindow(at.arrival) /\ Looked(s.arrival)
         \/ InWindow(at.departure) /\ Looked(s.departure)
  BY DEF CallsDue, Spare
<1>2. c.date \in Int
  BY <1>1
<1>3. /\ c.trip \in ValidTrips(world.feeds[a])
      /\ c.start \in Starts(trip) /\ c.visit \in VisitsOf(a, c.trip)
  BY <1>1 DEF IsCall
<1>4. /\ IsTrip(trip)
      /\ Options(cover) = VisitsOf(a, c.trip)
      /\ Standing(cover) \in VisitsOf(a, c.trip)
      /\ Offset(cover, Standing(cover)) \in Int
      /\ StartTime(trip) \in Int /\ s.arrival \in Int /\ s.departure \in Int
  BY <1>3, TripFacts
<1>5. c.start \in Int /\ LookBack(trip) \in Int
  BY <1>3, <1>4, StartsAreInts, LookBackIsInt
<1>6. ASSUME NEW time \in Int, Looked(time),
             InWindow(IF time = NoTime THEN NoTime
                      ELSE Midnight(world.zone, c.date) + TimeOn(a, c.trip, c.start, time))
      PROVE  c.date \in DatesToCheck(world.zone, Offset(cover, Standing(cover)), LookBack(trip),
                                     world.from, Day, LookAhead)
  <2>1. time # NoTime /\ Midnight(world.zone, c.date) + TimeOn(a, c.trip, c.start, time) \in world.from..world.to
    BY <1>6 DEF InWindow
  <2>2. TimeOn(a, c.trip, c.start, time) \in Int
    BY <1>4, <1>5 DEF TimeOn
  <2>3. Examined(world.zone, TimeOn(a, c.trip, c.start, time), Offset(cover, Standing(cover)), LookBack(trip), Spare)
    BY <1>4, <1>6, <2>1
  <2> HIDE DEF Looked
  <2> QED
    BY <1>2, <1>4, <1>5, <2>1, <2>2, <2>3, TimeIsLooked
<1>7. /\ at.arrival = IF s.arrival = NoTime THEN NoTime
                      ELSE Midnight(world.zone, c.date) + TimeOn(a, c.trip, c.start, s.arrival)
      /\ at.departure = IF s.departure = NoTime THEN NoTime
                        ELSE Midnight(world.zone, c.date) + TimeOn(a, c.trip, c.start, s.departure)
  BY DEF ScheduledAt
<1> HIDE DEF Looked, s, at
<1>8. c.date \in DatesToCheck(world.zone, Offset(cover, Standing(cover)), LookBack(trip),
                              world.from, Day, LookAhead)
  BY <1>1, <1>4, <1>6, <1>7
<1> USE DEF at
<1> QED
  BY <1>1, <1>2, <1>5, <1>8

--------------------------------------------------------------------------------
(* The runs and events of a request that has read all tables.              *)

\* The attempt that wins the rows of a trip.
Taken(t, order) == Winner(order["trips_compressed"], OwnersOfTrip(t))

\* What the calendars that were read say of the service of a trip is what the
\* timetable of an attempt says.
Agrees(a, t, order) ==
    \A d : DatetimeInService(CalendarOf(TripOf(a, t).service, order), d)
               <=> DatetimeInService(ServiceOf(a, t), d)

LEMMA OrdersRead ==
  ASSUME NEW order \in Orders, NEW t \in KeyTables
  PROVE  order[t] \in SetToSeqs(got[t])
BY DEF Orders

\* A trip with rows is taken from an attempt that has them.
LEMMA TakenIsOwner ==
  ASSUME ImportInv, DOMAIN got = BoardTables, NEW order \in Orders, NEW t, OwnersOfTrip(t) # {}
  PROVE  /\ Taken(t, order) \in OwnersOfTrip(t)
         /\ Taken(t, order) \in Attempts
         /\ Taken(t, order) \in got["itinerary_pattern"]
         /\ Taken(t, order) \in got["trips_compressed"]
         /\ t \in DOMAIN reduced[Taken(t, order)].covers
         /\ Options(reduced[Taken(t, order)].covers[t]) # {}
<1>1. got["trips_compressed"] \subseteq Attempts /\ Attempts \subseteq {"old", "new"}
  BY BoardTablesAre, AttemptsAre DEF ImportInv, WorldInv, GotType
<1>2. order["trips_compressed"] \in SetToSeqs(got["trips_compressed"])
  BY OrdersRead DEF KeyTables
<1>3. OwnersOfTrip(t) \in SUBSET got["trips_compressed"]
  BY DEF OwnersOfTrip
<1>4. Taken(t, order) \in OwnersOfTrip(t)
  BY <1>1, <1>2, <1>3, WinnerIsOne DEF Taken
<1> QED
  BY <1>1, <1>3, <1>4 DEF OwnersOfTrip

\* A run is of the attempt that wins its trip, and on a date of the calendar read.
LEMMA RunFacts ==
  ASSUME ImportInv, DOMAIN got = BoardTables, NEW order \in Orders, NEW r \in Runs(order)
  PROVE  /\ r = [id |-> r.id, attempt |-> Taken(r.id, order), date |-> r.date]
         /\ OwnersOfTrip(r.id) # {}
         /\ DatetimeInService(CalendarOf(reduced[r.attempt].trips[r.id].service, order), r.date)
         /\ r.date \in Int
<1>1. PICK t \in TripsSeen : r \in RunsOf(t, order)
  BY DEF Runs
<1>2. OwnersOfTrip(t) # {}
  BY DEF TripsSeen
<1> DEFINE a == Taken(t, order)
           cover == reduced[a].covers[t]
           trip == reduced[a].trips[t]
           dates == FindServiceRanges(CalendarOf(trip.service, order), world.zone,
                                      Offset(cover, Standing(cover)), LookBack(trip), world.from, Day, LookAhead)
<1>3. r \in {[id |-> t, attempt |-> a, date |-> d] : d \in dates}
  BY <1>1 DEF RunsOf, Taken, Standing
<1> HIDE DEF dates, a
<1>4. PICK d \in dates : r = [id |-> t, attempt |-> a, date |-> d]
  BY <1>3
<1>5. r.id = t /\ r.attempt = a /\ r.date = d
  BY <1>4
<1>6. DatetimeInService(CalendarOf(trip.service, order), d) /\ d \in Int
  BY DEF dates, FindServiceRanges, DatesToCheck
<1> QED
  BY <1>2, <1>4, <1>5, <1>6 DEF a

(* A call of the attempt that wins is among the runs.                      *)
LEMMA CallHasRun ==
  ASSUME ImportInv, DOMAIN got = BoardTables, NEW order \in Orders,
         got["itinerary_pattern"] \subseteq got["itinerary_pattern_meta"],
         got["itinerary_pattern"] \subseteq got["direction_pattern_meta"],
         NEW a \in Attempts, NEW c \in CallsDue(a),
         OwnersOfTrip(c.trip) # {}, a = Taken(c.trip, order), Agrees(a, c.trip, order)
  PROVE  [id |-> c.trip, attempt |-> a, date |-> c.date] \in Runs(order)
<1> USE DEF ImportInv
<1> DEFINE t == c.trip
           trip == TripOf(a, t)
           cover == ItineraryCover(trip)
           service == CalendarOf(trip.service, order)
           dates == FindServiceRanges(service, world.zone, Offset(cover, Standing(cover)),
                                      LookBack(trip), world.from, Day, LookAhead)
<1>1. /\ IsCall(a, c) /\ c.date \in Int /\ c.date >= world.day
      /\ c.date \in DatesToCheck(world.zone, Offset(cover, Standing(cover)), LookBack(trip),
                                 world.from, Day, LookAhead)
  BY CallFacts
<1>2. t \in DOMAIN reduced[a].covers
  BY TakenIsOwner
<1>3. reduced[a].trips[t] = trip /\ reduced[a].covers[t] = cover
  BY <1>2, ReducedIs
<1>4. c.date \in dates
  BY <1>1 DEF IsCall, Agrees, FindServiceRanges
<1>5. a \in got["itinerary_pattern_meta"]
  BY TakenIsOwner
<1>6. OwnersOfPattern(Pattern(cover), "direction_pattern_meta") # {}
  <2>1. a \in got["direction_pattern_meta"]
    BY TakenIsOwner
  <2>2. picks[a] \in Picks(reduced[a])
    BY DEF WorldInv
  <2>3. DOMAIN picks[a] = Patterns(reduced[a])
    BY <2>2 DEF Picks
  <2>4. cover \in Covers(reduced[a])
    BY <1>2, <1>3 DEF Covers, Range
  <2>5. Pattern(cover) \in DOMAIN picks[a]
    BY <2>3, <2>4 DEF Patterns
  <2> QED
    BY <2>1, <2>5 DEF OwnersOfPattern
<1>7. t \in TripsSeen
  <2>1. t \in DOMAIN world.feeds[a].trips
    BY <1>1 DEF IsCall, ValidTrips
  <2> QED
    BY <2>1 DEF TripsSeen
<1>8. RunsOf(t, order) = {[id |-> t, attempt |-> a, date |-> d] : d \in dates}
  BY <1>3, <1>5, <1>6 DEF RunsOf, Taken, Standing
<1> HIDE DEF dates, t
<1>9. [id |-> t, attempt |-> a, date |-> c.date] \in RunsOf(t, order)
  BY <1>4, <1>8
<1> QED
  BY <1>7, <1>9 DEF Runs, t

(* Where nothing was harmed the rows of a pattern are there.               *)
LEMMA NothingCrashes ==
  ASSUME ImportInv, harm = {}, DOMAIN got = BoardTables, NEW order \in Orders, NEW r \in Runs(order)
  PROVE  ~ Crashes(r)
<1> USE DEF ImportInv
<1> DEFINE a == r.attempt
           cover == reduced[a].covers[r.id]
<1>1. /\ a = Taken(r.id, order) /\ OwnersOfTrip(r.id) # {}
  <2>1. r = [id |-> r.id, attempt |-> Taken(r.id, order), date |-> r.date] /\ OwnersOfTrip(r.id) # {}
    BY RunFacts
  <2> QED
    BY <2>1
<1>2. a \in Attempts /\ a \in got["itinerary_pattern"] /\ r.id \in DOMAIN reduced[a].covers
  BY <1>1, TakenIsOwner
<1>3. a \in got["direction_pattern"]
  BY <1>2, BoardTablesAre DEF ReadInv
<1>4. picks[a] \in Picks(reduced[a])
  BY <1>2 DEF WorldInv
<1>5. DOMAIN picks[a] = Patterns(reduced[a])
  BY <1>4 DEF Picks
<1>6. cover \in Covers(reduced[a])
  BY <1>2 DEF Covers, Range
<1>7. Pattern(cover) \in DOMAIN picks[a]
  BY <1>5, <1>6 DEF Patterns
<1> QED
  BY <1>3, <1>7 DEF Crashes, OwnersOfPattern

\* What a run shows of the updates that were heard is one like it, or none is.
IsHeard(u, run, start, k, heard, order) ==
    LET updates == world.updates[run.id]
    IN  \/ /\ u = NoUpdate
           /\ heard = world.updates /\ run.id \in DOMAIN world.updates =>
                 \A v \in Range(updates) : ~ MatchesRun(run, start, k, v, updates, order)
        \/ /\ heard = world.updates /\ run.id \in DOMAIN world.updates
           /\ u \in Range(updates)
           /\ MatchesRun(run, start, k, u, updates, order)

LEMMA UpdateIsHeard ==
  ASSUME WorldInv, NEW run, NEW start, NEW k, NEW order,
         NEW heard \in {world.updates, <<>>}
  PROVE  IsHeard(UpdateFor(run, start, k, heard, order), run, start, k, heard, order)
<1> DEFINE u == UpdateFor(run, start, k, heard, order)
<1>1. CASE run.id \notin DOMAIN heard \/ heard[run.id] = <<>>
  <2>1. u = NoUpdate
    BY <1>1 DEF UpdateFor
  <2>2. Range(<<>>) = {}
    BY DEF Range
  <2> QED
    BY <1>1, <2>1, <2>2 DEF IsHeard
<1>2. CASE run.id \in DOMAIN heard /\ heard[run.id] # <<>>
  <2>1. heard = world.updates
    BY <1>2
  <2> DEFINE updates == world.updates[run.id]
             I == {i \in 1..Len(updates) : MatchesRun(run, start, k, updates[i], updates, order)}
             i == IF I # {} THEN Min(I) ELSE 0
  <2>2. updates \in Seq(Range(updates))
    BY <1>2, <2>1, CasesAssumption DEF WorldInv, FeedsInv
  <2>3. Len(updates) \in Nat /\ DOMAIN updates = 1..Len(updates)
    BY <2>2, LenProperties
  <2>4. u = IF i = 0 THEN NoUpdate ELSE updates[i]
    BY <1>2, <2>1 DEF UpdateFor, SelectInSeq
  <2>5. (i = 0 <=> I = {}) /\ (i # 0 => i \in I)
    <3>1. I \in SUBSET (1..Len(updates))
      OBVIOUS
    <3> HIDE DEF I
    <3> QED
      BY <2>3, <3>1, SelectedIsThere
  <2>6. i # 0 => /\ updates[i] \in Range(updates)
                 /\ MatchesRun(run, start, k, updates[i], updates, order)
    <3> HIDE DEF i
    <3> QED
      BY <2>3, <2>5 DEF Range
  <2>7. i = 0 => \A v \in Range(updates) : ~ MatchesRun(run, start, k, v, updates, order)
    <3> HIDE DEF i
    <3> QED
      BY <2>3, <2>5 DEF Range
  <2> HIDE DEF i
  <2> QED
    BY <1>2, <2>1, <2>4, <2>6, <2>7 DEF IsHeard
<1> QED
  BY <1>1, <1>2

\* What an event says of its run, and what of its update.
LEMMA EventIs ==
  ASSUME NEW run, NEW start, NEW k, NEW heard, NEW suspended, NEW order,
         NEW e, e = EventOf(run, start, k, heard, suspended, order)
  PROVE  /\ e.trip = run.id /\ e.date = run.date /\ e.start = start /\ e.visit = k
         /\ e.about = UpdateFor(run, start, k, heard, order).run
         /\ e.deleted = (UpdateFor(run, start, k, heard, order).status = "deleted")
BY DEF EventOf

LEMMA EventTimes ==
  ASSUME NEW run, NEW start, NEW k, NEW heard, NEW suspended, NEW order,
         NEW cover, cover = reduced[run.attempt].covers[run.id],
         NEW e, e = EventOf(run, start, k, heard, suspended, order)
  PROVE  e.scheduled =
               [arrival |-> IF cover.stops[k].arrival = NoTime THEN NoTime
                            ELSE Midnight(world.zone, run.date) + start + cover.stops[k].arrival,
                departure |-> IF cover.stops[k].departure = NoTime THEN NoTime
                              ELSE Midnight(world.zone, run.date) + start + cover.stops[k].departure]
BY DEF EventOf

\* The times of an event are those of the timetable.
LEMMA EventIsScheduled ==
  ASSUME WorldInv, NEW run, run.attempt \in Attempts, run.id \in DOMAIN reduced[run.attempt].covers,
         run.date \in Int,
         NEW start \in Starts(TripOf(run.attempt, run.id)),
         NEW k \in Options(reduced[run.attempt].covers[run.id]),
         NEW heard, NEW suspended, NEW order,
         NEW e, e = EventOf(run, start, k, heard, suspended, order),
         NEW c, c.trip = run.id, c.date = run.date, c.start = start, c.visit = k
  PROVE  e.scheduled = ScheduledAt(run.attempt, c)
<1> DEFINE a == run.attempt
           t == run.id
           trip == TripOf(a, t)
           cover == ItineraryCover(trip)
           base == Midnight(world.zone, run.date)
<1>1. t \in ValidTrips(world.feeds[a]) /\ reduced[a].covers[t] = cover
  BY ReducedIs
<1>2. k \in VisitsOf(a, t)
  BY <1>1, TripFacts
<1>3. /\ cover.stops[k].arrival = IF trip.stops[k].arrival = NoTime THEN NoTime
                                  ELSE trip.stops[k].arrival - StartTime(trip)
      /\ cover.stops[k].departure = IF trip.stops[k].departure = NoTime THEN NoTime
                                    ELSE trip.stops[k].departure - StartTime(trip)
      /\ cover.stops[k].arrival = NoTime <=> trip.stops[k].arrival = NoTime
      /\ cover.stops[k].departure = NoTime <=> trip.stops[k].departure = NoTime
      /\ trip.stops[k].arrival \in Int /\ trip.stops[k].departure \in Int
      /\ IsTrip(trip) /\ StartTime(trip) \in Int
  BY <1>1, <1>2, TripFacts
<1>4. base \in Int /\ start \in Int
  <2>1. world.zone \in Zones
    BY CaseOfWorld
  <2>2. base \in Int
    BY <2>1, MidnightBounds
  <2> QED
    BY <1>3, <2>2, StartsAreInts
<1>5. e.scheduled = [arrival |-> IF cover.stops[k].arrival = NoTime THEN NoTime
                                 ELSE base + start + cover.stops[k].arrival,
                     departure |-> IF cover.stops[k].departure = NoTime THEN NoTime
                                   ELSE base + start + cover.stops[k].departure]
  BY <1>1, EventTimes
<1>6. ScheduledAt(a, c) = [arrival |-> IF trip.stops[k].arrival = NoTime THEN NoTime
                                       ELSE base + TimeOn(a, t, start, trip.stops[k].arrival),
                           departure |-> IF trip.stops[k].departure = NoTime THEN NoTime
                                         ELSE base + TimeOn(a, t, start, trip.stops[k].departure)]
  BY DEF ScheduledAt
<1>7. \A time \in Int : time # NoTime =>
         base + start + (time - StartTime(trip)) = base + TimeOn(a, t, start, time)
  <2> HIDE DEF base
  <2> QED
    BY <1>3, <1>4 DEF TimeOn
<1> HIDE DEF base, trip, cover, a
<1> QED
  BY <1>3, <1>5, <1>6, <1>7 DEF a

LEMMA BoardIs ==
  ASSUME NEW heard, NEW suspended, NEW order, NEW b, b = Board(heard, suspended, order)
  PROVE  \/ b = Panic /\ \E r \in Runs(order) : Crashes(r)
         \/ /\ b.state = "sent"
            /\ b.heard <=> DOMAIN heard # {}
            /\ \A e : e \in b.events <=> \E r \in Runs(order) : e \in EventsOf(r, heard, suspended, order)
<1>1. CASE \E r \in Runs(order) : Crashes(r)
  BY <1>1 DEF Board
<1>2. CASE ~ \E r \in Runs(order) : Crashes(r)
  <2>1. /\ b.state = "sent"
        /\ b.heard = (DOMAIN heard # {})
        /\ b.events = UNION {EventsOf(r, heard, suspended, order) : r \in Runs(order)}
    BY <1>2 DEF Board
  <2> QED
    BY <2>1
<1> QED
  BY <1>1, <1>2

LEMMA EventsAre ==
  ASSUME NEW run, NEW heard, NEW suspended, NEW order, NEW e
  PROVE  e \in EventsOf(run, heard, suspended, order) <=>
            /\ \E start \in Starts(reduced[run.attempt].trips[run.id]),
                  k \in Options(reduced[run.attempt].covers[run.id]) :
                  e = EventOf(run, start, k, heard, suspended, order)
            /\ IsListed(e)
            /\ ~ (IsRepeated(reduced[run.attempt].trips[run.id]) /\ e.deleted)
BY DEF EventsOf

\* The call is on the board, or is of a frequency that an update may delete.
IsOn(b, a, c) ==
    \/ /\ IsRepeated(TripOf(a, c.trip)) /\ b.heard
       /\ c.trip \in DOMAIN world.updates
       /\ \E u \in Range(world.updates[c.trip]) : u.status = "deleted"
    \/ \E e \in b.events :
          /\ e.trip = c.trip /\ e.date = c.date /\ e.start = c.start /\ e.visit = c.visit
          /\ e.scheduled = ScheduledAt(a, c)

(* A call of the attempt that wins is listed, unless it is of a frequency  *)
(* and an update deletes it.                                               *)
LEMMA CallIsListed ==
  ASSUME ImportInv, DOMAIN got = BoardTables, NEW order \in Orders,
         NEW heard \in {world.updates, <<>>}, NEW suspended,
         got["itinerary_pattern"] \subseteq got["itinerary_pattern_meta"],
         got["itinerary_pattern"] \subseteq got["direction_pattern_meta"],
         NEW a \in Attempts, NEW c \in CallsDue(a),
         OwnersOfTrip(c.trip) # {}, a = Taken(c.trip, order), Agrees(a, c.trip, order),
         NEW b, b = Board(heard, suspended, order), b.state = "sent"
  PROVE  IsOn(b, a, c)
<1> USE DEF ImportInv
<1> DEFINE r == [id |-> c.trip, attempt |-> a, date |-> c.date]
           t == c.trip
           trip == TripOf(a, t)
           e == EventOf(r, c.start, c.visit, heard, suspended, order)
           u == UpdateFor(r, c.start, c.visit, heard, order)
<1>1. r \in Runs(order)
  BY CallHasRun
<1>2. /\ IsCall(a, c) /\ c.date \in Int
      /\ InWindow(ScheduledAt(a, c).arrival) \/ InWindow(ScheduledAt(a, c).departure)
  BY CallFacts
<1>3. /\ t \in ValidTrips(world.feeds[a]) /\ c.start \in Starts(trip) /\ c.visit \in VisitsOf(a, t)
  BY <1>2 DEF IsCall
<1>4. /\ t \in DOMAIN reduced[a].covers
      /\ reduced[a].trips[t] = trip
      /\ reduced[a].covers[t] = ItineraryCover(trip)
  BY TakenIsOwner, ReducedIs
<1>5. c.visit \in Options(reduced[a].covers[t])
  BY <1>3, <1>4, TripFacts
<1>6. r.id = t /\ r.attempt = a /\ r.date = c.date
  OBVIOUS
<1> HIDE DEF r, e, u
<1>7. /\ e.trip = t /\ e.date = c.date /\ e.start = c.start /\ e.visit = c.visit
      /\ e.deleted <=> u.status = "deleted"
  <2>1. /\ e.trip = r.id /\ e.date = r.date /\ e.start = c.start /\ e.visit = c.visit
        /\ e.deleted = (u.status = "deleted")
    BY EventIs DEF e, u
  <2> QED
    BY <1>6, <2>1
<1>8. e.scheduled = ScheduledAt(a, c)
  BY <1>2, <1>3, <1>4, <1>5, <1>6, EventIsScheduled DEF e
<1>9. IsListed(e)
  BY <1>2, <1>8 DEF IsListed
<1>10. /\ b.heard <=> DOMAIN heard # {}
       /\ \A x : x \in b.events <=> \E run \in Runs(order) : x \in EventsOf(run, heard, suspended, order)
  BY BoardIs DEF Panic
<1>11. CASE ~ (IsRepeated(trip) /\ e.deleted)
  <2>1. e \in EventsOf(r, heard, suspended, order)
    BY <1>3, <1>4, <1>5, <1>6, <1>9, <1>11, EventsAre DEF e
  <2>2. e \in b.events
    BY <1>1, <1>10, <2>1
  <2> QED
    BY <1>7, <1>8, <2>2 DEF IsOn
<1>12. CASE IsRepeated(trip) /\ e.deleted
  <2>1. u.status = "deleted"
    BY <1>7, <1>12
  <2>2. u # NoUpdate
    BY <2>1 DEF NoUpdate
  <2>3. heard = world.updates /\ t \in DOMAIN world.updates /\ u \in Range(world.updates[t])
    BY <1>6, <2>2, UpdateIsHeard DEF u, IsHeard
  <2> QED
    BY <1>10, <1>12, <2>1, <2>3 DEF IsOn
<1> QED
  BY <1>11, <1>12

(* An event is of a run of the attempt that wins, and is a call of its     *)
(* timetable.                                                              *)
LEMMA EventIsCall ==
  ASSUME ImportInv, DOMAIN got = BoardTables, NEW order \in Orders,
         NEW heard, NEW suspended, NEW b, b = Board(heard, suspended, order), b.state = "sent",
         NEW e \in b.events,
         NEW a \in Attempts, a = Taken(e.trip, order), Agrees(a, e.trip, order)
  PROVE  /\ IsCall(a, e) /\ e.scheduled = ScheduledAt(a, e)
         /\ \E run \in Runs(order) :
               /\ run.id = e.trip /\ run.attempt = a /\ run.date = e.date
               /\ e.about = UpdateFor(run, e.start, e.visit, heard, order).run
<1> USE DEF ImportInv
<1>1. PICK r \in Runs(order) : e \in EventsOf(r, heard, suspended, order)
  BY BoardIs DEF Panic
<1>2. PICK start \in Starts(reduced[r.attempt].trips[r.id]),
           k \in Options(reduced[r.attempt].covers[r.id]) :
              e = EventOf(r, start, k, heard, suspended, order)
  BY <1>1, EventsAre
<1>3. /\ e.trip = r.id /\ e.date = r.date /\ e.start = start /\ e.visit = k
      /\ e.about = UpdateFor(r, start, k, heard, order).run
  BY <1>2, EventIs
<1>4. /\ r = [id |-> r.id, attempt |-> Taken(r.id, order), date |-> r.date]
      /\ OwnersOfTrip(r.id) # {}
      /\ DatetimeInService(CalendarOf(reduced[r.attempt].trips[r.id].service, order), r.date)
      /\ r.date \in Int
  BY RunFacts
<1>5. r.attempt = a
  BY <1>3, <1>4
<1>6. r.id \in DOMAIN reduced[a].covers
  BY <1>4, <1>5, <1>3, TakenIsOwner
<1>7. /\ r.id \in ValidTrips(world.feeds[a])
      /\ reduced[a].trips[r.id] = TripOf(a, r.id)
      /\ reduced[a].covers[r.id] = ItineraryCover(TripOf(a, r.id))
  BY <1>6, ReducedIs
<1>8. k \in VisitsOf(a, r.id)
  BY <1>5, <1>7, TripFacts
<1>9. DatetimeInService(ServiceOf(a, r.id), r.date)
  BY <1>3, <1>4, <1>5, <1>7 DEF Agrees
<1>10. start \in Starts(TripOf(a, r.id))
  BY <1>5, <1>7
<1>11. IsCall(a, e)
  BY <1>3, <1>7, <1>8, <1>9, <1>10 DEF IsCall
<1>12. e.scheduled = ScheduledAt(a, e)
  BY <1>2, <1>3, <1>4, <1>5, <1>6, <1>10, EventIsScheduled
<1> QED
  BY <1>3, <1>5, <1>11, <1>12

(* Calendars agree if all attempts that were read do.                      *)
LEMMA CalendarsAgree ==
  ASSUME ImportInv, DOMAIN got = BoardTables, NEW order \in Orders, NEW t, NEW a \in Attempts,
         NEW s, s = TripOf(a, t).service,
         got["calendar"] # {}, got["calendar_dates"] # {},
         \A x \in got["calendar"] \cup got["calendar_dates"] : Service(reduced[x], s) = ServiceOf(a, t)
  PROVE  Agrees(a, t, order)
<1>1. got["calendar"] \in SUBSET {"old", "new"} /\ got["calendar_dates"] \in SUBSET {"old", "new"}
  BY BoardTablesAre, AttemptsAre DEF ImportInv, WorldInv, GotType
<1>2. /\ order["calendar"] \in SetToSeqs(got["calendar"])
      /\ order["calendar_dates"] \in SetToSeqs(got["calendar_dates"])
  BY OrdersRead DEF KeyTables
<1>3. ASSUME NEW d
      PROVE  DatetimeInService(CalendarOf(s, order), d) <=> DatetimeInService(ServiceOf(a, t), d)
  BY <1>1, <1>2, UnifiedIs DEF CalendarOf
<1> QED
  BY <1>3 DEF Agrees

--------------------------------------------------------------------------------
(* What a board says of the attempts it was read from.                     *)

(* A call is of a trip that its attempt has rows of.                       *)
LEMMA CallIsOwned ==
  ASSUME WorldInv, NEW a \in Attempts, NEW c \in CallsDue(a)
  PROVE  /\ c.trip \in DOMAIN reduced[a].covers
         /\ Service(reduced[a], TripOf(a, c.trip).service) = ServiceOf(a, c.trip)
         /\ a \in got["trips_compressed"] /\ a \in got["itinerary_pattern"] => a \in OwnersOfTrip(c.trip)
<1> DEFINE t == c.trip
           cover == ItineraryCover(TripOf(a, t))
<1>1. IsCall(a, c) /\ c.date \in Int /\ c.date >= world.day
  BY CallFacts
<1>2. t \in DOMAIN reduced[a].covers
  BY <1>1, ReducedIs DEF IsCall
<1>3. /\ Service(reduced[a], TripOf(a, t).service) = ServiceOf(a, t)
      /\ reduced[a].covers[t] = cover
      /\ t \in ValidTrips(world.feeds[a])
  BY <1>2, ReducedIs
<1>4. Options(cover) = VisitsOf(a, t) /\ c.visit \in VisitsOf(a, t)
  BY <1>1, <1>3, TripFacts DEF IsCall
<1> QED
  BY <1>2, <1>3, <1>4 DEF OwnersOfTrip

\* An event is of a trip with rows.
LEMMA EventIsOwned ==
  ASSUME ImportInv, DOMAIN got = BoardTables, NEW order \in Orders,
         NEW heard, NEW suspended, NEW b, b = Board(heard, suspended, order), b.state = "sent",
         NEW e \in b.events
  PROVE  OwnersOfTrip(e.trip) # {}
<1>1. PICK r \in Runs(order) : e \in EventsOf(r, heard, suspended, order)
  BY BoardIs DEF Panic
<1>2. PICK start \in Starts(reduced[r.attempt].trips[r.id]),
           k \in Options(reduced[r.attempt].covers[r.id]) :
              e = EventOf(r, start, k, heard, suspended, order)
  BY <1>1, EventsAre
<1>3. e.trip = r.id
  BY <1>2, EventIs
<1>4. OwnersOfTrip(r.id) # {}
  BY RunFacts
<1> QED
  BY <1>3, <1>4

(* A board of one attempt.                                                 *)
LEMMA OneAttempt ==
  ASSUME ImportInv, DOMAIN got = BoardTables, NEW order \in Orders, NEW a \in Attempts, SawOnly(a),
         NEW t, OwnersOfTrip(t) # {}
  PROVE  /\ a = Taken(t, order) /\ Agrees(a, t, order)
         /\ t \in DOMAIN reduced[a].covers
<1>1. \A u \in BoardTables : got[u] = {a}
  BY DEF SawOnly
<1>2. a = Taken(t, order) /\ t \in DOMAIN reduced[a].covers
  BY <1>1, BoardTablesAre, TakenIsOwner
<1>3. Service(reduced[a], TripOf(a, t).service) = ServiceOf(a, t)
  BY <1>2, ReducedIs DEF ImportInv
<1>4. got["calendar"] = {a} /\ got["calendar_dates"] = {a}
  BY <1>1, BoardTablesAre
<1>5. Agrees(a, t, order)
  BY <1>3, <1>4, CalendarsAgree
<1> QED
  BY <1>2, <1>5

LEMMA BoardOfOne ==
  ASSUME ImportInv, DOMAIN got = BoardTables, NEW order \in Orders,
         NEW heard \in {world.updates, <<>>}, NEW suspended,
         NEW b, b = Board(heard, suspended, order), b.state = "sent",
         NEW a \in Attempts, SawOnly(a)
  PROVE  /\ \A c \in CallsDue(a) : IsOn(b, a, c)
         /\ \A e \in b.events : IsCall(a, e) /\ e.scheduled = ScheduledAt(a, e)
<1>1. \A u \in BoardTables : got[u] = {a}
  BY DEF SawOnly
<1>2. /\ got["itinerary_pattern"] \subseteq got["itinerary_pattern_meta"]
      /\ got["itinerary_pattern"] \subseteq got["direction_pattern_meta"]
      /\ a \in got["trips_compressed"] /\ a \in got["itinerary_pattern"]
  BY <1>1, BoardTablesAre
<1>3. ASSUME NEW c \in CallsDue(a)
      PROVE  IsOn(b, a, c)
  <2>1. OwnersOfTrip(c.trip) # {}
    BY <1>2, CallIsOwned DEF ImportInv
  <2>2. a = Taken(c.trip, order) /\ Agrees(a, c.trip, order)
    BY <2>1, OneAttempt
  <2> QED
    BY <1>2, <2>1, <2>2, CallIsListed
<1>4. ASSUME NEW e \in b.events
      PROVE  IsCall(a, e) /\ e.scheduled = ScheduledAt(a, e)
  <2>1. OwnersOfTrip(e.trip) # {}
    BY EventIsOwned
  <2>2. a = Taken(e.trip, order) /\ Agrees(a, e.trip, order)
    BY <2>1, OneAttempt
  <2> QED
    BY <2>2, EventIsCall
<1> QED
  BY <1>3, <1>4

(* A board of two attempts, of which one is being inserted.                *)
LEMMA TwoAttempts ==
  ASSUME ImportInv, harm = {}, DOMAIN got = BoardTables, Seen = Attempts, Cardinality(Seen) > 1
  PROVE  /\ Attempts = {"old", "new"}
         /\ \A t \in BoardTables : "old" \in got[t]
<1> USE DEF ImportInv
<1>1. Attempts = {"old", "new"}
  <2>1. Cardinality({}) = 0 /\ Cardinality({"old"}) = 1 /\ Cardinality({"new"}) = 1
    BY FS_EmptySet, FS_Singleton
  <2>2. Attempts \in {{}, {"old"}, {"new"}, {"old", "new"}}
    BY AttemptsAre DEF WorldInv
  <2> QED
    BY <2>1, <2>2
<1>2. PICK t \in BoardTables : "old" \in got[t]
  BY <1>1 DEF Seen, Range
<1>3. "old" \in rows[t]
  BY <1>2 DEF ReadInv
<1>4. \A u \in Tables : "old" \in rows[u]
  BY <1>3, BoardTablesAre DEF TablesInv, RowsInv
<1> QED
  BY <1>1, <1>4, BoardTablesAre DEF ReadInv

LEMMA BoardOfTwo ==
  ASSUME ImportInv, harm = {}, DOMAIN got = BoardTables, NEW order \in Orders,
         NEW heard \in {world.updates, <<>>}, NEW suspended,
         NEW b, b = Board(heard, suspended, order), b.state = "sent",
         Seen = Attempts, Cardinality(Seen) > 1,
         NEW c \in CallsDue("old") \cap CallsDue("new"),
         TripOf("old", c.trip).service = TripOf("new", c.trip).service,
         ServiceOf("old", c.trip) = ServiceOf("new", c.trip)
  PROVE  \E a \in Attempts : IsOn(b, a, c)
<1> DEFINE a == Taken(c.trip, order)
<1>1. Attempts = {"old", "new"} /\ \A t \in BoardTables : "old" \in got[t]
  BY TwoAttempts
<1>2. "old" \in OwnersOfTrip(c.trip)
  BY <1>1, BoardTablesAre, CallIsOwned DEF ImportInv
<1>3. a \in Attempts
  BY <1>2, TakenIsOwner
<1>4. /\ got["itinerary_pattern"] \subseteq got["itinerary_pattern_meta"]
      /\ got["itinerary_pattern"] \subseteq got["direction_pattern_meta"]
      /\ got["calendar"] # {} /\ got["calendar_dates"] # {}
      /\ got["calendar"] \cup got["calendar_dates"] \subseteq Attempts
  BY <1>1, BoardTablesAre DEF ImportInv, ReadInv, GotType
<1>5. \A x \in Attempts : Service(reduced[x], TripOf(x, c.trip).service) = ServiceOf(x, c.trip)
  BY <1>1, CallIsOwned DEF ImportInv
<1> HIDE DEF a
<1>6. \A x \in Attempts : /\ Service(reduced[x], TripOf(a, c.trip).service) = ServiceOf(a, c.trip)
  BY <1>1, <1>3, <1>5
<1>7. Agrees(a, c.trip, order)
  BY <1>3, <1>4, <1>6, CalendarsAgree
<1>8. c \in CallsDue(a)
  BY <1>1, <1>3
<1> QED
  BY <1>2, <1>3, <1>4, <1>7, <1>8, CallIsListed DEF a

--------------------------------------------------------------------------------
(* Which update is about which run.                                        *)

\* The updates of a trip all give their dates, or each can be guessed.
Told(a, id) ==
    \/ \A u \in Range(world.updates[id]) : u.date # NoTime
    \/ \A u \in Range(world.updates[id]), k \in VisitsOf(a, id) :
          /\ u.date = NoTime /\ FirstTimes(u) # {}
          /\ Guessable(ServiceOf(a, id), world.zone, Min(FirstTimes(u)),
                       Offset(ItineraryCover(TripOf(a, id)), k), u.run.date)

LEMMA UpdateFacts ==
  ASSUME WorldInv, NEW id \in DOMAIN world.updates, NEW u \in Range(world.updates[id])
  PROVE  /\ u.run.date \in Int
         /\ u.date \in {NoTime, u.run.date}
         /\ u.start = u.run.start
         /\ FirstTimes(u) \subseteq Nat
         /\ world.updates[id][1] \in Range(world.updates[id])
<1>1. world.updates[id] \in Seq(Range(world.updates[id])) /\ IsUpdate(u)
  BY CasesAssumption DEF WorldInv, FeedsInv
<1>2. FirstTimes(u) \subseteq Nat
  BY <1>1 DEF FirstTimes, IsUpdate
<1>3. 1 \in DOMAIN world.updates[id]
  <2>1. /\ Len(world.updates[id]) \in Nat
        /\ DOMAIN world.updates[id] = 1..Len(world.updates[id])
    BY <1>1, LenProperties
  <2>2. PICK i \in DOMAIN world.updates[id] : TRUE
    BY DEF Range
  <2> QED
    BY <2>1, <2>2
<1> QED
  BY <1>1, <1>2, <1>3 DEF Range, IsUpdate

(* The guess of a date is right in a calendar that agrees.                 *)
LEMMA GuessIsRight ==
  ASSUME WorldInv, NEW a \in Attempts, NEW id, NEW order, Agrees(a, id, order),
         NEW least \in Int, NEW offset \in Int, NEW own \in Int, NEW date \in Int,
         Guessable(ServiceOf(a, id), world.zone, least, offset, own)
  PROVE  Estimates(CalendarOf(TripOf(a, id).service, order), world.zone, least, offset, date)
            <=> date = own
<1> DEFINE service == CalendarOf(TripOf(a, id).service, order)
<1>1. DatetimeInService(service, own) <=> DatetimeInService(ServiceOf(a, id), own)
  BY DEF Agrees
<1>2. Guessable(service, world.zone, least, offset, own)
  BY <1>1 DEF Guessable
<1>3. world.zone \in Zones
  BY CaseOfWorld
<1> HIDE DEF service
<1>4. Estimates(service, world.zone, least, offset, date) <=> date = own
  BY <1>2, <1>3, EstimateIsRight
<1> QED
  BY <1>4 DEF service

\* The update is about the run that starts then.
OfRun(u, run, start) ==
    u.run.date = run.date /\ (IsRepeated(TripOf(run.attempt, run.id)) => u.run.start = start)

\* An update matches a run if it is about it.
LEMMA MatchIs ==
  ASSUME WorldInv, NEW run, run.attempt \in Attempts, run.id \in DOMAIN reduced[run.attempt].covers,
         NEW order, Agrees(run.attempt, run.id, order),
         run.id \in DOMAIN world.updates, Told(run.attempt, run.id), run.date \in Int,
         NEW k \in VisitsOf(run.attempt, run.id), NEW start, NEW u \in Range(world.updates[run.id])
  PROVE  MatchesRun(run, start, k, u, world.updates[run.id], order) <=> OfRun(u, run, start)
<1> DEFINE a == run.attempt
           id == run.id
           trip == TripOf(a, id)
           updates == world.updates[id]
           offset == Offset(ItineraryCover(trip), k)
<1>1. /\ id \in ValidTrips(world.feeds[a])
      /\ reduced[a].trips[id] = trip
      /\ reduced[a].covers[id] = ItineraryCover(trip)
  BY ReducedIs
<1>2. offset \in Int
  BY <1>1, TripFacts
<1>3. /\ u.run.date \in Int /\ u.date \in {NoTime, u.run.date} /\ u.start = u.run.start
      /\ FirstTimes(u) \subseteq Nat
      /\ updates[1] \in Range(updates)
  BY UpdateFacts
<1>4. CASE \A v \in Range(updates) : v.date # NoTime
  <2>1. UsesDates(updates) /\ u.date = u.run.date
    BY <1>3, <1>4 DEF UsesDates
  <2> QED
    BY <1>1, <1>3, <2>1 DEF MatchesRun, OfRun
<1>5. CASE \A v \in Range(updates), j \in VisitsOf(a, id) :
             /\ v.date = NoTime /\ FirstTimes(v) # {}
             /\ Guessable(ServiceOf(a, id), world.zone, Min(FirstTimes(v)),
                          Offset(ItineraryCover(trip), j), v.run.date)
  <2>1. ~ UsesDates(updates)
    BY <1>3, <1>5 DEF UsesDates
  <2>2. /\ FirstTimes(u) # {}
        /\ Guessable(ServiceOf(a, id), world.zone, Min(FirstTimes(u)), offset, u.run.date)
    BY <1>5
  <2>3. Min(FirstTimes(u)) \in Int
    BY <1>3, <2>2, MinOfFinite
  <2> HIDE DEF offset
  <2>4. Estimates(CalendarOf(trip.service, order), world.zone, Min(FirstTimes(u)), offset, run.date)
           <=> run.date = u.run.date
    BY <1>2, <1>3, <2>2, <2>3, GuessIsRight
  <2> USE DEF offset
  <2>5. EstimateServiceDate(run, k, u, order) <=> run.date = u.run.date
    BY <1>1, <2>2, <2>4 DEF EstimateServiceDate
  <2> QED
    BY <1>1, <1>3, <2>1, <2>5 DEF MatchesRun, OfRun
<1> QED
  BY <1>4, <1>5 DEF Told

\* The update that a run shows is about it, and there is none otherwise.
IsOwn(u, run, start, heard) ==
    \/ u.run = NoRun /\ (heard = world.updates =>
                             \A v \in Range(world.updates[run.id]) : ~ OfRun(v, run, start))
    \/ heard = world.updates /\ u \in Range(world.updates[run.id]) /\ OfRun(u, run, start)

LEMMA UpdateIsOfRun ==
  ASSUME WorldInv, NEW run, run.attempt \in Attempts, run.id \in DOMAIN reduced[run.attempt].covers,
         NEW order, Agrees(run.attempt, run.id, order),
         run.id \in DOMAIN world.updates, Told(run.attempt, run.id), run.date \in Int,
         NEW k \in VisitsOf(run.attempt, run.id), NEW start, NEW heard \in {world.updates, <<>>}
  PROVE  IsOwn(UpdateFor(run, start, k, heard, order), run, start, heard)
<1> DEFINE u == UpdateFor(run, start, k, heard, order)
           updates == world.updates[run.id]
<1>1. \A v \in Range(updates) :
         MatchesRun(run, start, k, v, updates, order) <=> OfRun(v, run, start)
  BY MatchIs
<1>2. IsHeard(u, run, start, k, heard, order)
  BY UpdateIsHeard
<1>3. NoUpdate.run = NoRun
  BY DEF NoUpdate
<1> HIDE DEF u, updates
<1>4. ASSUME heard = world.updates, u \in Range(updates), MatchesRun(run, start, k, u, updates, order)
      PROVE  IsOwn(u, run, start, heard)
  BY <1>1, <1>4 DEF IsOwn, updates
<1>5. ASSUME u = NoUpdate,
             heard = world.updates => \A v \in Range(updates) : ~ MatchesRun(run, start, k, v, updates, order)
      PROVE  IsOwn(u, run, start, heard)
  BY <1>1, <1>3, <1>5 DEF IsOwn, updates
<1>6. IsOwn(u, run, start, heard)
  BY <1>2, <1>4, <1>5 DEF IsHeard, updates
<1> QED
  BY <1>6 DEF u

\* What an event of a trip says of the updates of it is so.
IsAbout(b, a, id, e) ==
    LET own == {u \in Range(world.updates[id]) : IsOfRun(u, e, TripOf(a, id))}
    IN  IF b.heard /\ own # {} THEN \E u \in own : e.about = u.run ELSE e.about = NoRun

\* An event shows the update about its run, if one was heard.
LEMMA EventIsAbout ==
  ASSUME ImportInv, DOMAIN got = BoardTables, NEW order \in Orders,
         NEW heard \in {world.updates, <<>>}, NEW suspended,
         NEW b, b = Board(heard, suspended, order), b.state = "sent",
         NEW e \in b.events, e.trip \in DOMAIN world.updates,
         NEW a \in Attempts, e.trip \in DOMAIN reduced[a].covers,
         a = Taken(e.trip, order), Agrees(a, e.trip, order), Told(a, e.trip)
  PROVE  IsAbout(b, a, e.trip, e)
<1>1. IsCall(a, e)
  BY EventIsCall
<1>2. \E run \in Runs(order) :
         /\ run.id = e.trip /\ run.attempt = a /\ run.date = e.date
         /\ e.about = UpdateFor(run, e.start, e.visit, heard, order).run
  BY EventIsCall
<1>3. PICK run : /\ run.id = e.trip /\ run.attempt = a /\ run.date = e.date /\ run.date \in Int
                 /\ e.about = UpdateFor(run, e.start, e.visit, heard, order).run
  BY <1>2, RunFacts
<1>4. WorldInv /\ e.visit \in VisitsOf(a, e.trip)
  BY <1>1 DEF ImportInv, IsCall
<1> DEFINE own == {u \in Range(world.updates[e.trip]) : IsOfRun(u, e, TripOf(a, e.trip))}
<1>5. \/ e.about = NoRun /\ (heard = world.updates => own = {})
      \/ heard = world.updates /\ \E u \in own : e.about = u.run
  <2> DEFINE u == UpdateFor(run, e.start, e.visit, heard, order)
  <2>1. IsOwn(u, run, e.start, heard)
    <3>1. /\ run.attempt \in Attempts /\ run.id \in DOMAIN reduced[run.attempt].covers
          /\ Agrees(run.attempt, run.id, order) /\ Told(run.attempt, run.id)
          /\ run.id \in DOMAIN world.updates /\ e.visit \in VisitsOf(run.attempt, run.id)
      BY <1>3, <1>4
    <3> QED
      BY <1>3, <1>4, <3>1, UpdateIsOfRun
  <2>2. \A v : OfRun(v, run, e.start) <=> IsOfRun(v, e, TripOf(a, e.trip))
    BY <1>3 DEF OfRun, IsOfRun
  <2>3. e.about = u.run
    BY <1>3
  <2> HIDE DEF u
  <2> QED
    BY <1>3, <2>1, <2>2, <2>3 DEF IsOwn
<1>6. b.heard <=> DOMAIN heard # {}
  BY BoardIs DEF Panic
<1>7. b.heard <=> heard = world.updates
  BY <1>6
<1> HIDE DEF own
<1>8. IF b.heard /\ own # {} THEN \E u \in own : e.about = u.run ELSE e.about = NoRun
  BY <1>5, <1>7
<1> QED
  BY <1>8 DEF IsAbout, own

--------------------------------------------------------------------------------
(* How a visit is described.                                               *)

(* The list of the headsigns of a trip has each of them, and is empty if   *)
(* there are none.                                                         *)
LEMMA HeadsignsAre ==
  ASSUME NEW trip, NEW n \in Nat, DOMAIN trip.stops = 1..n
  PROVE  LET list == StopHeadsigns(trip)
         IN  /\ Len(list) \in Nat /\ DOMAIN list = 1..Len(list)
             /\ \A k \in 1..n : trip.stops[k].headsign # NoText =>
                   \E m \in 1..Len(list) : list[m] = trip.stops[k].headsign
             /\ (\A k \in 1..n : trip.stops[k].headsign = NoText) => list = <<>>
<1> DEFINE first == FirstHeadsigns(trip)
           list == StopHeadsigns(trip)
           Sign(k) == trip.stops[k].headsign
<1>1. first \in SUBSET (1..n)
  BY DEF FirstHeadsigns
<1>2. /\ IsFiniteSet(first) /\ Cardinality(first) \in Nat
      /\ \A k \in first : Rank(first, k) \in 1..Cardinality(first)
      /\ \A j, k \in first : Rank(first, j) = Rank(first, k) => j = k
  <2> HIDE DEF first
  <2>1. IsFiniteSet(1..n) /\ 1..n \in SUBSET Int
    BY FS_Interval
  <2>2. IsFiniteSet(first) /\ first \in SUBSET Int
    BY <1>1, <2>1, FS_Subset
  <2> QED
    BY <2>2, RanksAre
<1>3. list = [m \in 1..Cardinality(first) |-> Sign(CHOOSE k \in first : Rank(first, k) = m)]
  BY DEF StopHeadsigns
<1>4. Len(list) = Cardinality(first) /\ DOMAIN list = 1..Len(list)
  <2> HIDE DEF first, list, Sign
  <2> QED
    BY <1>2, <1>3
<1>5. ASSUME NEW k \in first
      PROVE  list[Rank(first, k)] = Sign(k)
  <2>1. (CHOOSE j \in first : Rank(first, j) = Rank(first, k)) = k
    BY <1>2, <1>5
  <2> HIDE DEF first, list, Sign
  <2> QED
    BY <1>2, <1>3, <2>1
<1>6. ASSUME NEW k \in 1..n, Sign(k) # NoText
      PROVE  \E m \in 1..Len(list) : list[m] = Sign(k)
  <2> DEFINE T == {j \in 1..n : Sign(j) = Sign(k)}
  <2>1. T \in SUBSET Nat /\ k \in T
    OBVIOUS
  <2>2. PICK j \in T : \A i \in T : j <= i
    <3> HIDE DEF T
    <3> QED
      BY <2>1, LeastNatural
  <2>3. j \in first
    <3>1. j \in 1..n /\ Sign(j) = Sign(k)
      OBVIOUS
    <3>2. \A i \in 1..(j - 1) : Sign(i) # Sign(j)
      BY <2>2, <3>1
    <3> QED
      BY <1>6, <3>1, <3>2 DEF FirstHeadsigns
  <2> HIDE DEF first, list
  <2>4. list[Rank(first, j)] = Sign(k) /\ Rank(first, j) \in 1..Len(list)
    BY <1>2, <1>4, <1>5, <2>3
  <2> QED
    BY <2>4
<1>7. ASSUME \A k \in 1..n : Sign(k) = NoText
      PROVE  list = <<>>
  <2>1. first = {}
    BY <1>7 DEF FirstHeadsigns
  <2>2. Len(list) = 0
    BY <1>4, <2>1, FS_EmptySet
  <2>3. list \in Seq({NoText})
    <3>1. DOMAIN list = {}
      BY <1>4, <2>2
    <3>2. list = [m \in 1..0 |-> NoText]
      BY <1>3, <2>1, FS_EmptySet
    <3> QED
      BY <3>2, IsASeq
  <2> QED
    BY <2>2, <2>3, EmptySeq
<1> HIDE DEF first
<1> QED
  BY <1>2, <1>4, <1>6, <1>7

\* A row of an itinerary has the stop, number and headsign of the trip's.
LEMMA RowIs ==
  ASSUME NEW trip, IsTrip(trip), NEW k \in DOMAIN trip.stops
  PROVE  /\ ItineraryCover(trip).stops[k].stop = trip.stops[k].stop
         /\ ItineraryCover(trip).stops[k].sequence = trip.stops[k].sequence
         /\ ItineraryCover(trip).stops[k].headsign = trip.stops[k].headsign
<1> DEFINE Since(time) == IF time = NoTime THEN NoTime ELSE time - StartTime(trip)
           s == trip.stops[k]
<1>1. ItineraryCover(trip).stops[k] = [s EXCEPT !.arrival = Since(@), !.departure = Since(@)]
  BY DEF ItineraryCover
<1>2. s \in [stop : {s.stop}, arrival : Int, departure : Int, sequence : Int, headsign : {s.headsign}]
  BY DEF IsTrip
<1> QED
  BY <1>1, <1>2

\* The itineraries a pattern is described by have its stops.
LEMMA PickIs ==
  ASSUME WorldInv, NEW a \in Attempts, NEW cover \in Covers(reduced[a]),
         NEW n \in Nat, DOMAIN cover.stops = 1..n,
         NEW i \in {1, 2}
  PROVE  /\ Pattern(cover) \in DOMAIN picks[a]
         /\ picks[a][Pattern(cover)][i] \in Covers(reduced[a])
         /\ Pattern(picks[a][Pattern(cover)][i]) = Pattern(cover)
         /\ DOMAIN picks[a][Pattern(cover)][i].stops = 1..n
         /\ \A k \in 1..n : picks[a][Pattern(cover)][i].stops[k].stop = cover.stops[k].stop
<1> DEFINE p == Pattern(cover)
           pick == picks[a][p]
           C == Covers(reduced[a])
<1>1. picks[a] \in Picks(reduced[a])
  BY DEF WorldInv
<1>2. p \in Patterns(reduced[a])
  BY DEF Patterns
<1>3. /\ picks[a] \in [Patterns(reduced[a]) -> C \X C]
      /\ \A q \in DOMAIN picks[a] : Pattern(picks[a][q][1]) = q /\ Pattern(picks[a][q][2]) = q
  BY <1>1 DEF Picks
<1>4. p \in DOMAIN picks[a] /\ pick \in C \X C /\ Pattern(pick[1]) = p /\ Pattern(pick[2]) = p
  <2> HIDE DEF p, C
  <2> QED
    BY <1>2, <1>3
<1>5. pick[i] \in C /\ Pattern(pick[i]) = p
  BY <1>4
<1> DEFINE c == pick[i]
<1>6. [k \in DOMAIN c.stops |-> c.stops[k].stop] = [k \in DOMAIN cover.stops |-> cover.stops[k].stop]
  <2> HIDE DEF c
  <2> QED
    BY <1>5 DEF Pattern, c
<1>7. DOMAIN c.stops = 1..n /\ \A k \in 1..n : c.stops[k].stop = cover.stops[k].stop
  <2> HIDE DEF c
  <2>1. DOMAIN c.stops = DOMAIN cover.stops
    BY <1>6
  <2>2. \A k \in DOMAIN cover.stops : c.stops[k].stop = cover.stops[k].stop
    BY <1>6, <2>1
  <2> QED
    BY <2>1, <2>2
<1> QED
  BY <1>4, <1>5, <1>7

\* The rows of a pattern are its stops, counted from 0.
LEMMA RowsAre ==
  ASSUME NEW pick, NEW n \in Nat, DOMAIN pick[2].stops = 1..n
  PROVE  /\ DOMAIN DirectionRows(pick) = 1..n /\ Len(DirectionRows(pick)) = n
         /\ \A k \in 1..n :
               /\ DirectionRows(pick)[k].stop = pick[2].stops[k].stop
               /\ DirectionRows(pick)[k].sequence = k - 1
               /\ DirectionRows(pick)[k].index = Position(pick[1].list, pick[2].stops[k].headsign)
BY DEF DirectionRows

(* The last visit is found, by its stop or by its number.                  *)
LEMMA LastIs ==
  ASSUME WorldInv, NEW a \in Attempts, SawOnly(a), DOMAIN got = BoardTables,
         NEW trip, IsTrip(trip), NEW cover \in Covers(reduced[a]), cover = ItineraryCover(trip),
         NEW n \in Nat, n >= 1, DOMAIN trip.stops = 1..n, Len(trip.stops) = n,
         NEW k \in Options(cover),
         CountsFromZero(trip) \/ IsOnce(trip, Last(trip.stops).stop)
  PROVE  IsLastStop(cover, k) <=> k = n
<1> DEFINE p == Pattern(cover)
           rowsOf == DirectionRows(picks[a][p])
           final == Last(rowsOf)
           Same == {j \in Options(cover) : cover.stops[j].stop = final.stop}
<1>1. DOMAIN cover.stops = 1..n
  BY DEF ItineraryCover
<1>2. /\ p \in DOMAIN picks[a]
      /\ DOMAIN picks[a][p][2].stops = 1..n
      /\ \A j \in 1..n : picks[a][p][2].stops[j].stop = cover.stops[j].stop
  BY <1>1, PickIs
<1>3. final.stop = cover.stops[n].stop /\ final.sequence = n - 1
  <2>1. /\ Len(rowsOf) = n
        /\ rowsOf[n].stop = picks[a][p][2].stops[n].stop
        /\ rowsOf[n].sequence = n - 1
    BY <1>2, RowsAre
  <2>2. final = rowsOf[n]
    BY <2>1 DEF Last
  <2> HIDE DEF rowsOf, final, p
  <2> QED
    BY <1>2, <2>1, <2>2
<1>4. (CHOOSE x \in OwnersOfPattern(p, "direction_pattern") : TRUE) = a
  <2>1. OwnersOfPattern(p, "direction_pattern") = {a}
    BY <1>2, BoardTablesAre DEF OwnersOfPattern, SawOnly
  <2> QED
    BY <2>1
<1>5. IsLastStop(cover, k) <=> IF Cardinality(Same) > 1 THEN cover.stops[k].sequence = final.sequence
                                                      ELSE cover.stops[k].stop = final.stop
  BY <1>4 DEF IsLastStop
<1> HIDE DEF final
<1>6. Same \in SUBSET (1..n) /\ k \in 1..n
  BY <1>1 DEF Options
<1>7. IsFiniteSet(1..n)
  BY FS_Interval
<1>8. IsFiniteSet(Same) /\ Cardinality(Same) \in Nat
  <2> HIDE DEF Same
  <2> QED
    BY <1>6, <1>7, FS_Subset, FS_CardinalityType
<1>9. \A j \in 1..n : cover.stops[j].stop = trip.stops[j].stop /\ cover.stops[j].sequence = trip.stops[j].sequence
  BY RowIs
<1>10. CASE Cardinality(Same) > 1
  <2> DEFINE There == {j \in DOMAIN trip.stops : trip.stops[j].stop = Last(trip.stops).stop}
  <2>1. Last(trip.stops) = trip.stops[n]
    BY DEF Last
  <2>2. Same \in SUBSET There /\ There \in SUBSET (1..n)
    BY <1>3, <1>6, <1>9, <2>1
  <2>3. IsFiniteSet(There) /\ Cardinality(Same) <= Cardinality(There) /\ Cardinality(There) \in Nat
    <3> HIDE DEF Same, There
    <3> QED
      BY <1>7, <2>2, FS_Subset, FS_CardinalityType
  <2>4. ~ IsOnce(trip, Last(trip.stops).stop)
    <3>1. Cardinality(There) # 1
      BY <1>8, <1>10, <2>3
    <3> QED
      BY <3>1 DEF IsOnce
  <2>5. CountsFromZero(trip)
    BY <2>4
  <2>6. cover.stops[k].sequence = k - 1
    BY <1>6, <1>9, <2>5 DEF CountsFromZero
  <2> QED
    BY <1>3, <1>5, <1>6, <1>10, <2>6
<1>11. CASE ~ (Cardinality(Same) > 1)
  <2>1. ASSUME cover.stops[k].stop = final.stop
        PROVE  k = n
    <3>1. k \in Same /\ n \in Same
      BY <1>1, <1>3, <2>1 DEF Options
    <3>2. Cardinality(Same) # 0
      BY <1>8, <3>1, FS_EmptySet
    <3>3. PICK x : Same = {x}
      <4>1. Cardinality(Same) = 1
        BY <1>8, <1>11, <3>2
      <4> QED
        BY <1>8, <4>1, FS_Singleton
    <3> QED
      BY <3>1, <3>3
  <2> QED
    BY <1>3, <1>5, <1>11, <2>1
<1> QED
  BY <1>10, <1>11

\* The row of a visit is the only one at its stop, or the one with its number.
MatchingRows(cover, k) ==
    LET p == Pattern(cover)
        rowsAt == {x \in OwnersOfPattern(p, "direction_pattern") \X DOMAIN cover.stops :
                      p[2][x[2]] = cover.stops[k].stop}
    IN  IF Cardinality(rowsAt) < 2 THEN rowsAt
        ELSE {x \in rowsAt : DirectionRows(picks[x[1]][p])[x[2]].sequence = cover.stops[k].sequence}

LEMMA RowMatches ==
  ASSUME WorldInv, NEW a \in Attempts, SawOnly(a),
         NEW trip, IsTrip(trip), NEW cover \in Covers(reduced[a]), cover = ItineraryCover(trip),
         NEW n \in Nat, DOMAIN trip.stops = 1..n, NEW k \in 1..n,
         CountsFromZero(trip) \/ IsOnce(trip, trip.stops[k].stop)
  PROVE  MatchingRows(cover, k) = {<<a, k>>}
<1> DEFINE p == Pattern(cover)
           RowsAt == {x \in {a} \X (1..n) : cover.stops[x[2]].stop = cover.stops[k].stop}
<1>1. DOMAIN cover.stops = 1..n
  BY DEF ItineraryCover
<1>2. /\ p \in DOMAIN picks[a]
      /\ DOMAIN picks[a][p][2].stops = 1..n
  BY <1>1, PickIs
<1>3. OwnersOfPattern(p, "direction_pattern") = {a}
  BY <1>2, BoardTablesAre DEF OwnersOfPattern, SawOnly
<1>4. \A j \in 1..n : p[2][j] = cover.stops[j].stop
  BY <1>1 DEF Pattern
<1>5. RowsAt = {x \in OwnersOfPattern(p, "direction_pattern") \X DOMAIN cover.stops :
                   p[2][x[2]] = cover.stops[k].stop}
  <2> HIDE DEF p
  <2> QED
    BY <1>1, <1>3, <1>4
<1>6. \A x \in RowsAt : x = <<a, x[2]>> /\ x[2] \in 1..n
  OBVIOUS
<1>7. <<a, k>> \in RowsAt
  OBVIOUS
<1>8. \A j \in 1..n : cover.stops[j].stop = trip.stops[j].stop /\ cover.stops[j].sequence = trip.stops[j].sequence
  BY RowIs
<1>9. MatchingRows(cover, k) =
        IF Cardinality(RowsAt) < 2 THEN RowsAt
        ELSE {x \in RowsAt : DirectionRows(picks[x[1]][p])[x[2]].sequence = cover.stops[k].sequence}
  BY <1>5 DEF MatchingRows
<1>10. IsFiniteSet(RowsAt) /\ Cardinality(RowsAt) \in Nat
  <2>1. IsFiniteSet({a} \X (1..n))
    <3>1. IsFiniteSet(1..n)
      BY FS_Interval
    <3>2. IsFiniteSet({a})
      BY FS_Singleton
    <3> QED
      BY <3>1, <3>2, FS_Product
  <2>2. RowsAt \in SUBSET ({a} \X (1..n))
    OBVIOUS
  <2> HIDE DEF RowsAt
  <2> QED
    BY <2>1, <2>2, FS_Subset, FS_CardinalityType
<1>11. \A x \in RowsAt : DirectionRows(picks[x[1]][p])[x[2]].sequence = x[2] - 1
  <2>1. \A j \in 1..n : DirectionRows(picks[a][p])[j].sequence = j - 1
    BY <1>2, RowsAre
  <2> QED
    BY <1>6, <2>1
<1>12. CASE Cardinality(RowsAt) < 2
  <2> HIDE DEF RowsAt
  <2>1. Cardinality(RowsAt) = 1
    BY <1>7, <1>10, <1>12, FS_EmptySet
  <2>2. PICK x : RowsAt = {x}
    BY <1>10, <2>1, FS_Singleton
  <2> QED
    BY <1>7, <1>9, <1>12, <2>2
<1>13. CASE ~ (Cardinality(RowsAt) < 2)
  <2> DEFINE There == {j \in DOMAIN trip.stops : trip.stops[j].stop = trip.stops[k].stop}
  <2>1. CountsFromZero(trip)
    <3> SUFFICES ASSUME IsOnce(trip, trip.stops[k].stop)
                 PROVE  FALSE
      OBVIOUS
    <3>1. There \in SUBSET (1..n) /\ k \in There
      OBVIOUS
    <3>2. IsFiniteSet(There)
      <4>1. IsFiniteSet(1..n)
        BY 1 \in Int, n \in Int, FS_Interval
      <4> HIDE DEF There
      <4> QED
        BY <3>1, <4>1, FS_Subset
    <3>3. Cardinality(There) = 1
      BY DEF IsOnce
    <3>4. There = {k}
      <4> HIDE DEF There
      <4> QED
        BY <3>1, <3>2, <3>3, FS_Singleton
    <3>5. \A x \in RowsAt : x[2] \in There
      BY <1>6, <1>8
    <3>6. RowsAt = {<<a, k>>}
      <4> HIDE DEF RowsAt, There
      <4> QED
        BY <1>6, <1>7, <3>4, <3>5
    <3>7. Cardinality(RowsAt) = 1
      <4>1. Cardinality({<<a, k>>}) = 1
        BY FS_Singleton
      <4> QED
        BY <3>6, <4>1
    <3> HIDE DEF RowsAt
    <3> QED
      BY <1>13, <3>7
  <2>2. cover.stops[k].sequence = k - 1
    BY <1>8, <2>1 DEF CountsFromZero
  <2> HIDE DEF RowsAt
  <2>3. \A x \in RowsAt :
           DirectionRows(picks[x[1]][p])[x[2]].sequence = cover.stops[k].sequence <=> x[2] = k
    BY <1>6, <1>11, <2>2
  <2> QED
    BY <1>6, <1>7, <1>9, <1>13, <2>3
<1> QED
  BY <1>12, <1>13

(* A visit has the headsign its row refers to, or the one of its pattern.  *)
Referred(cover, i) ==
    IF cover.list = <<>> THEN cover.headsign
    ELSE IF i \in DOMAIN cover.list THEN <<cover.list[i]>> ELSE <<>>

LEMMA HeadsignIs ==
  ASSUME WorldInv, NEW a \in Attempts, SawOnly(a), NEW order \in Orders,
         NEW trip, IsTrip(trip), NEW cover \in Covers(reduced[a]), cover = ItineraryCover(trip),
         NEW n \in Nat, DOMAIN trip.stops = 1..n, NEW k \in 1..n,
         CountsFromZero(trip) \/ IsOnce(trip, trip.stops[k].stop),
         HeadsignsAgree(a, cover),
         NEW i, i = Position(cover.list, trip.stops[k].headsign)
  PROVE  Headsign(cover, k, order) = Referred(cover, i)
<1> DEFINE p == Pattern(cover)
           pick == picks[a][p]
<1>1. DOMAIN cover.stops = 1..n
  BY DEF ItineraryCover
<1>2. /\ p \in DOMAIN picks[a]
      /\ DOMAIN pick[2].stops = 1..n
      /\ \A m \in {1, 2} : pick[m] \in Covers(reduced[a]) /\ Pattern(pick[m]) = p
  BY <1>1, PickIs
<1>3. \A m \in {1, 2} : /\ pick[m].headsign = cover.headsign /\ pick[m].list = cover.list
                        /\ \A j \in DOMAIN pick[m].stops : pick[m].stops[j].headsign = cover.stops[j].headsign
  <2> HIDE DEF pick
  <2> QED
    BY <1>2 DEF HeadsignsAgree
<1>4. Winner(order["direction_pattern_meta"], OwnersOfPattern(p, "direction_pattern_meta")) = a
  <2>1. OwnersOfPattern(p, "direction_pattern_meta") = {a} /\ got["direction_pattern_meta"] = {a}
    BY <1>2, BoardTablesAre DEF OwnersOfPattern, SawOnly
  <2>2. order["direction_pattern_meta"] \in SetToSeqs({a})
    BY <2>1, OrdersRead DEF KeyTables
  <2>3. {a} \in SUBSET {"old", "new"} /\ {a} \in SUBSET {a}
    BY AttemptsAre DEF WorldInv
  <2> QED
    BY <2>1, <2>2, <2>3, WinnerIsOne
<1>5. DirectionMeta(pick).headsign = cover.headsign /\ DirectionMeta(pick).list = cover.list
  BY <1>3 DEF DirectionMeta
<1>6. DirectionRows(pick)[k].index = i
  <2>1. DirectionRows(pick)[k].index = Position(pick[1].list, pick[2].stops[k].headsign)
    BY <1>2, RowsAre
  <2>2. pick[2].stops[k].headsign = cover.stops[k].headsign /\ pick[1].list = cover.list
    <3> HIDE DEF pick
    <3> QED
      BY <1>2, <1>3
  <2>3. cover.stops[k].headsign = trip.stops[k].headsign
    BY RowIs
  <2> HIDE DEF pick
  <2> QED
    BY <2>1, <2>2, <2>3
<1>7. MatchingRows(cover, k) = {<<a, k>>}
  BY RowMatches
<1> DEFINE matching == MatchingRows(cover, k)
           index == {DirectionRows(picks[x[1]][p])[x[2]].index : x \in matching}
           meta == DirectionMeta(pick)
<1>8. Headsign(cover, k, order) =
        IF meta.list = <<>> THEN meta.headsign
        ELSE IF Cardinality(matching) = 1 /\ index \subseteq DOMAIN meta.list
        THEN <<meta.list[CHOOSE x \in index : TRUE]>> ELSE <<>>
  <2> DEFINE w == Winner(order["direction_pattern_meta"], OwnersOfPattern(p, "direction_pattern_meta"))
             told == DirectionMeta(picks[w][p])
  <2>1. Headsign(cover, k, order) =
          IF told.list = <<>> THEN told.headsign
          ELSE IF Cardinality(matching) = 1 /\ index \subseteq DOMAIN told.list
          THEN <<told.list[CHOOSE x \in index : TRUE]>> ELSE <<>>
    BY DEF Headsign, MatchingRows
  <2>2. told = meta
    BY <1>4
  <2> HIDE DEF told, meta, index, matching
  <2> QED
    BY <2>1, <2>2
<1>9. index = {i} /\ Cardinality(matching) = 1
  <2>1. Cardinality(matching) = 1
    BY <1>7, FS_Singleton
  <2>2. index = {DirectionRows(picks[a][p])[k].index}
    <3> HIDE DEF p
    <3> QED
      BY <1>7
  <2> QED
    BY <1>6, <2>1, <2>2
<1> HIDE DEF index, matching, meta
<1>10. (CHOOSE x \in index : TRUE) = i
  BY <1>9
<1> QED
  BY <1>5, <1>8, <1>9, <1>10 DEF meta, Referred

\* The headsign of a visit and of its trip, where their pattern has them.
IsSigned(trip, k, signs, cover, i) ==
    /\ (trip.stops[k].headsign # NoText /\ Cardinality(signs \ {NoText}) > 1) =>
          cover.list # <<>> /\ i \in DOMAIN cover.list /\ cover.list[i] = trip.stops[k].headsign
    /\ signs = {NoText} =>
          /\ cover.list = <<>>
          /\ cover.headsign = <<IF trip.headsign # NoText THEN trip.headsign ELSE Last(trip.stops).stop>>

LEMMA SignsAre ==
  ASSUME NEW trip, IsTrip(trip), NEW n \in Nat, DOMAIN trip.stops = 1..n, NEW k \in 1..n,
         NEW signs, signs = {s.headsign : s \in Range(trip.stops)},
         NEW cover, cover = ItineraryCover(trip),
         NEW i, i = Position(cover.list, trip.stops[k].headsign)
  PROVE  IsSigned(trip, k, signs, cover, i)
<1> DEFINE list == StopHeadsigns(trip)
           own == trip.stops[k].headsign
<1>1. /\ Len(list) \in Nat /\ DOMAIN list = 1..Len(list)
      /\ \A j \in 1..n : trip.stops[j].headsign # NoText =>
            \E m \in 1..Len(list) : list[m] = trip.stops[j].headsign
      /\ (\A j \in 1..n : trip.stops[j].headsign = NoText) => list = <<>>
  BY HeadsignsAre
<1>2. \A x : x \in signs <=> \E j \in 1..n : x = trip.stops[j].headsign
  BY DEF Range
<1>3. /\ cover.list = IF Len(list) < 2 THEN <<>> ELSE list
      /\ cover.headsign = IF trip.headsign # NoText THEN <<trip.headsign>>
                          ELSE IF list = <<>> THEN <<Last(trip.stops).stop>> ELSE list
  BY DEF ItineraryCover
<1> HIDE DEF list
<1>4. ASSUME own # NoText, Cardinality(signs \ {NoText}) > 1
      PROVE  cover.list # <<>> /\ i \in DOMAIN cover.list /\ cover.list[i] = own
  <2>1. Len(list) >= 2
    <3> SUFFICES ASSUME Len(list) < 2
                 PROVE  FALSE
      BY <1>1
    <3> DEFINE rest == signs \ {NoText}
    <3>1. rest \in SUBSET {list[1]}
      <4>1. \A m \in 1..Len(list) : m = 1
        BY <1>1
      <4>2. ASSUME NEW x \in rest
            PROVE  x = list[1]
        <5>1. PICK j \in 1..n : x = trip.stops[j].headsign
          BY <1>2
        <5>2. PICK m \in 1..Len(list) : list[m] = x
          BY <1>1, <5>1
        <5> QED
          BY <4>1, <5>2
      <4> QED
        BY <4>2
    <3>2. IsFiniteSet({list[1]}) /\ Cardinality({list[1]}) = 1
      BY FS_Singleton
    <3>3. Cardinality(rest) > 1
      BY <1>4
    <3> HIDE DEF rest
    <3>4. IsFiniteSet(rest) /\ Cardinality(rest) <= 1
      BY <3>1, <3>2, FS_Subset
    <3> QED
      BY <3>3, <3>4, FS_CardinalityType
  <2>2. cover.list = list /\ list # <<>>
    <3>1. Len(<<>>) = 0
      OBVIOUS
    <3> QED
      BY <1>3, <2>1, <3>1
  <2> DEFINE I == {m \in 1..Len(list) : list[m] = own}
  <2>3. I # {} /\ I \in SUBSET (1..Len(list))
    BY <1>1, <1>4
  <2>4. i = IF I # {} THEN Min(I) ELSE 0
    BY <2>2 DEF Position, SelectInSeq
  <2>5. i \in I
    <3> HIDE DEF I
    <3> QED
      BY <1>1, <2>3, <2>4, SelectedIsThere
  <2> QED
    BY <1>1, <2>2, <2>5
<1>5. ASSUME signs = {NoText}
      PROVE  /\ cover.list = <<>>
             /\ cover.headsign = <<IF trip.headsign # NoText THEN trip.headsign ELSE Last(trip.stops).stop>>
  <2>1. list = <<>>
    BY <1>1, <1>2, <1>5
  <2>2. Len(list) < 2
    BY <2>1
  <2> QED
    BY <1>3, <2>1, <2>2
<1> QED
  BY <1>4, <1>5 DEF IsSigned

LEMMA EventShows ==
  ASSUME NEW run, NEW start, NEW k, NEW heard, NEW suspended, NEW order,
         NEW cover, cover = reduced[run.attempt].covers[run.id],
         NEW e, e = EventOf(run, start, k, heard, suspended, order)
  PROVE  /\ e.stop = cover.stops[k].stop
         /\ e.last <=> IsLastStop(cover, k)
         /\ e.headsign = Headsign(cover, k, order)
BY DEF EventOf

(* A visit on the board of one attempt is described as it should be.       *)
LEMMA EventIsDescribed ==
  ASSUME ImportInv, DOMAIN got = BoardTables, NEW order \in Orders,
         NEW heard, NEW suspended, NEW b, b = Board(heard, suspended, order), b.state = "sent",
         NEW a \in Attempts, SawOnly(a),
         NEW e \in b.events
  PROVE  IsDescribed(a, e)
<1> USE DEF ImportInv
<1>1. PICK r \in Runs(order) : e \in EventsOf(r, heard, suspended, order)
  BY BoardIs DEF Panic
<1>2. PICK start \in Starts(reduced[r.attempt].trips[r.id]),
           k \in Options(reduced[r.attempt].covers[r.id]) :
              e = EventOf(r, start, k, heard, suspended, order)
  BY <1>1, EventsAre
<1>3. e.trip = r.id /\ e.visit = k
  BY <1>2, EventIs
<1>4. r.attempt = a /\ r.id \in DOMAIN reduced[a].covers
  <2>1. r = [id |-> r.id, attempt |-> Taken(r.id, order), date |-> r.date] /\ OwnersOfTrip(r.id) # {}
    BY RunFacts
  <2>2. a = Taken(r.id, order) /\ r.id \in DOMAIN reduced[a].covers
    BY <2>1, OneAttempt
  <2> QED
    BY <2>1, <2>2
<1> DEFINE trip == TripOf(a, r.id)
           cover == ItineraryCover(trip)
           n == Len(trip.stops)
           own == trip.stops[k].headsign
           signs == {s.headsign : s \in Range(trip.stops)}
           i == Position(cover.list, own)
<1>5. r.id \in ValidTrips(world.feeds[a]) /\ reduced[a].covers[r.id] = cover
  BY <1>4, ReducedIs
<1>6. IsTrip(trip)
  BY <1>5, TripFacts
<1>7. n \in Nat /\ n >= 1 /\ DOMAIN trip.stops = 1..n
  <2>1. trip = world.feeds[a].trips[r.id]
    BY DEF TripOf
  <2>2. n = Len(trip.stops)
    OBVIOUS
  <2>3. r.id \in ValidTrips(world.feeds[a]) /\ IsTrip(world.feeds[a].trips[r.id])
    BY <1>5, <1>6, <2>1
  <2> HIDE DEF trip, cover, n, own, signs, i
  <2>4. LET stops == world.feeds[a].trips[r.id].stops
        IN  Len(stops) \in Nat /\ Len(stops) >= 2 /\ DOMAIN stops = 1..Len(stops)
    BY <2>3, ValidTripStarts
  <2> QED
    BY <2>1, <2>2, <2>4
<1>8. cover \in Covers(reduced[a])
  BY <1>4, <1>5 DEF Covers, Range
<1>9. k \in Options(cover) /\ k \in 1..n
  <2>1. DOMAIN cover.stops = DOMAIN trip.stops
    BY DEF ItineraryCover
  <2> QED
    BY <1>2, <1>4, <1>5, <1>7, <2>1 DEF Options
<1>10. /\ e.stop = trip.stops[k].stop
       /\ e.last <=> IsLastStop(cover, k)
       /\ e.headsign = Headsign(cover, k, order)
  <2>1. cover.stops[k].stop = trip.stops[k].stop
    BY <1>6, <1>7, <1>9, RowIs
  <2> QED
    BY <1>2, <1>4, <1>5, <2>1, EventShows
<1>11. /\ cover = ItineraryCover(trip) /\ n = Len(trip.stops)
      /\ own = trip.stops[k].headsign
      /\ i = Position(cover.list, trip.stops[k].headsign)
      /\ signs = {s.headsign : s \in Range(trip.stops)}
  OBVIOUS
<1> HIDE DEF trip, cover, n, own, signs, i
<1>12. CountsFromZero(trip) \/ IsOnce(trip, Last(trip.stops).stop) => (e.last <=> k = n)
  BY <1>6, <1>7, <1>8, <1>9, <1>10, LastIs, <1>11
<1>13. ASSUME CountsFromZero(trip) \/ IsOnce(trip, e.stop), HeadsignsAgree(a, cover)
       PROVE  /\ own # NoText /\ Cardinality(signs \ {NoText}) > 1 => e.headsign = <<own>>
              /\ signs = {NoText} =>
                    e.headsign = <<IF trip.headsign # NoText THEN trip.headsign ELSE Last(trip.stops).stop>>
  <2>1. Headsign(cover, k, order) = Referred(cover, i)
    <3>1. CountsFromZero(trip) \/ IsOnce(trip, trip.stops[k].stop)
      BY <1>10, <1>13
    <3> QED
      BY <1>11, <1>6, <1>7, <1>8, <1>9, <1>13, <3>1, HeadsignIs
  <2>2. IsSigned(trip, k, signs, cover, i)
    BY <1>11, <1>6, <1>7, <1>9, SignsAre
  <2> QED
    BY <1>11, <1>10, <2>1, <2>2 DEF Referred, IsSigned
<1> QED
  BY <1>3, <1>12, <1>13 DEF IsDescribed, trip, cover, n, own, signs

--------------------------------------------------------------------------------
(* The properties, of any board.                                           *)

\* A board of one attempt: the calls of its timetable, and no others.
Exact(b, a) ==
    /\ \A c \in CallsDue(a) : IsOn(b, a, c)
    /\ \A e \in b.events : IsCall(a, e) /\ e.scheduled = ScheduledAt(a, e)

\* A board of one attempt: the updates of its runs.
About(b, a) ==
    \A id \in DOMAIN world.updates :
        (id \in DOMAIN world.feeds[a].trips /\ Told(a, id)) =>
            \A e \in b.events : e.trip = id => IsAbout(b, a, id, e)

\* A board of one attempt: the last stops and the headsigns.
Described(b, a) == \A e \in b.events : IsDescribed(a, e)

\* A board of two attempts: the calls both timetables have.
Common(b) ==
    \A c \in CallsDue("old") \cap CallsDue("new") :
        (/\ ScheduledAt("old", c) = ScheduledAt("new", c)
         /\ TripOf("old", c.trip).service = TripOf("new", c.trip).service
         /\ ServiceOf("old", c.trip) = ServiceOf("new", c.trip)) => \E a \in Attempts : IsOn(b, a, c)

BoardInv ==
    Unharmed =>
        /\ \A a \in Attempts : SawOnly(a) => Exact(answer, a) /\ About(answer, a) /\ Described(answer, a)
        /\ Seen = Attempts /\ Cardinality(Seen) > 1 => Common(answer)

(* The invariant says what the properties do.                              *)
LEMMA BoardInvIs ==
  ASSUME BoardInv
  PROVE  BoardIsExact /\ CommonStaysListed /\ RealtimeIsOfTheRun /\ VisitIsDescribed
<1>1. \A a, c : Lists(a, c) <=> IsOn(answer, a, c)
  BY DEF Lists, MayBeDeleted, IsOn
<1>2. BoardIsExact
  BY <1>1 DEF BoardInv, Exact, BoardIsExact
<1>3. CommonStaysListed
  BY <1>1 DEF BoardInv, Common, CommonStaysListed
<1>4. RealtimeIsOfTheRun
  BY DEF BoardInv, About, Told, IsAbout, RealtimeIsOfTheRun
<1>5. VisitIsDescribed
  BY DEF BoardInv, Described, VisitIsDescribed
<1> QED
  BY <1>2, <1>3, <1>4, <1>5

(* What the timetables say stays.                                          *)
LEMMA TimetableStays ==
  ASSUME world' = world, NEW a
  PROVE  /\ \A id : /\ TripOf(a, id)' = TripOf(a, id)
                    /\ VisitsOf(a, id)' = VisitsOf(a, id)
                    /\ ServiceOf(a, id)' = ServiceOf(a, id)
         /\ CallsDue(a)' = CallsDue(a)
         /\ \A c : /\ ScheduledAt(a, c)' = ScheduledAt(a, c)
                   /\ IsCall(a, c)' <=> IsCall(a, c)
         /\ \A id : Told(a, id)' <=> Told(a, id)
<1>1. ASSUME NEW id
      PROVE  /\ TripOf(a, id)' = TripOf(a, id)
             /\ VisitsOf(a, id)' = VisitsOf(a, id)
             /\ ServiceOf(a, id)' = ServiceOf(a, id)
  BY DEF TripOf, VisitsOf, ServiceOf
<1>2. CallsDue(a)' = CallsDue(a)
  BY DEF CallsDue, InWindow, ScheduledAt, TimeOn, IsCall, TripOf, VisitsOf, ServiceOf
<1>3. ASSUME NEW c
      PROVE  /\ ScheduledAt(a, c)' = ScheduledAt(a, c)
             /\ IsCall(a, c)' <=> IsCall(a, c)
  BY DEF ScheduledAt, TimeOn, IsCall, TripOf, VisitsOf, ServiceOf
<1>4. ASSUME NEW id
      PROVE  Told(a, id)' <=> Told(a, id)
  BY <1>1 DEF Told
<1> QED
  BY <1>1, <1>2, <1>3, <1>4

LEMMA SaidStays ==
  ASSUME world' = world, reduced' = reduced, NEW a
  PROVE  /\ Exact(answer, a)' <=> Exact(answer', a)
         /\ About(answer, a)' <=> About(answer', a)
         /\ Described(answer, a)' <=> Described(answer', a)
         /\ Common(answer)' <=> Common(answer')
<1>1. ASSUME NEW x, NEW c
      PROVE  IsOn(answer, x, c)' <=> IsOn(answer', x, c)
  BY TimetableStays DEF IsOn
<1>2. ASSUME NEW id, NEW e
      PROVE  IsAbout(answer, a, id, e)' <=> IsAbout(answer', a, id, e)
  BY TimetableStays DEF IsAbout
<1>3. Exact(answer, a)' <=> Exact(answer', a)
  BY <1>1, TimetableStays DEF Exact
<1>4. About(answer, a)' <=> About(answer', a)
  BY <1>2, TimetableStays DEF About
<1>5. Common(answer)' <=> Common(answer')
  BY <1>1, FeedsStay, TimetableStays DEF Common
<1>6. ASSUME NEW e
      PROVE  IsDescribed(a, e)' <=> IsDescribed(a, e)
  BY DEF IsDescribed, HeadsignsAgree, TripOf
<1>7. Described(answer, a)' <=> Described(answer', a)
  BY <1>6 DEF Described
<1> QED
  BY <1>3, <1>4, <1>5, <1>7

--------------------------------------------------------------------------------
(* Every step keeps what a request says of itself.                         *)

\* No step gives an answer that failed for no reason.
LEMMA AnswerInvKept ==
  ASSUME ImportInv, AnswerInv, [Next]_vars
  PROVE  AnswerInv'
<1>1. CASE Import(DOMAIN got # {}) /\ UNCHANGED <<picks, got, answer>>
  <2>1. /\ "failure" \in harm => "failure" \in harm'
        /\ DOMAIN got # {} => harm \subseteq harm'
    BY <1>1, HarmStays
  <2>2. BoardTables # {}
    BY BoardTablesAre
  <2> QED
    BY <1>1, <2>1, <2>2 DEF AnswerInv
<1>2. CASE \E t \in BoardTables : Read(t) \/ ReadFails(t)
  BY <1>2 DEF Read, ReadFails, CanRead, AnswerInv
<1>3. CASE \E t \in BoardTables : NoConnection(t)
  <2>1. answer' = Panic /\ "failure" \in harm'
    BY <1>3 DEF NoConnection
  <2>2. Panic.state = "panic"
    BY DEF Panic
  <2> QED
    BY <2>1, <2>2 DEF AnswerInv
<1>4. CASE Answer
  <2>1. UNCHANGED <<got, harm>> /\ DOMAIN got = BoardTables
    BY <1>4 DEF Answer
  <2>2. PICK order \in Orders, heard \in {world.updates, <<>>}, suspended \in {world.suspended, {}} :
           answer' = Board(heard, suspended, order)
    BY <1>4 DEF Answer
  <2>3. answer'.state = "sent" \/ (answer'.state = "panic" /\ \E r \in Runs(order) : Crashes(r))
    <3> DEFINE b == Board(heard, suspended, order)
    <3>1. \/ b = Panic /\ \E r \in Runs(order) : Crashes(r)
          \/ b.state = "sent"
      BY BoardIs
    <3>2. Panic.state = "panic"
      BY DEF Panic
    <3> HIDE DEF b
    <3> QED
      BY <2>2, <3>1, <3>2 DEF b
  <2>4. (\E r \in Runs(order) : Crashes(r)) => harm # {}
    BY <2>1, NothingCrashes
  <2> QED
    BY <2>1, <2>3, <2>4 DEF AnswerInv
<1>5. CASE UNCHANGED vars
  BY <1>5 DEF vars, AnswerInv
<1> QED
  BY <1>1, <1>2, <1>3, <1>4, <1>5 DEF Next, Request

\* The answer is as the properties say,
LEMMA AnswerSays ==
  ASSUME ImportInv, Answer
  PROVE  BoardInv'
<1>1. /\ UNCHANGED <<world, reduced, got, harm>> /\ DOMAIN got = BoardTables
      /\ Attempts' = Attempts /\ Seen' = Seen
      /\ \A a : SawOnly(a)' <=> SawOnly(a)
  BY FeedsStay DEF Answer, Seen, SawOnly
<1>2. PICK order \in Orders, heard \in {world.updates, <<>>}, suspended \in {world.suspended, {}} :
         answer' = Board(heard, suspended, order)
  BY DEF Answer
<1>3. SUFFICES ASSUME answer'.state = "sent", harm = {}
               PROVE  /\ \A a \in Attempts : SawOnly(a) => Exact(answer', a) /\ About(answer', a) /\ Described(answer', a)
                      /\ Seen = Attempts /\ Cardinality(Seen) > 1 => Common(answer')
  BY <1>1, SaidStays DEF BoardInv, Unharmed
<1>4. ASSUME NEW a \in Attempts, SawOnly(a)
      PROVE  Exact(answer', a) /\ About(answer', a) /\ Described(answer', a)
  <2>1. Exact(answer', a)
    BY <1>1, <1>2, <1>3, <1>4, BoardOfOne DEF Exact
  <2>2. ASSUME NEW e \in answer'.events, e.trip \in DOMAIN world.updates, Told(a, e.trip)
        PROVE  IsAbout(answer', a, e.trip, e)
    <3>1. OwnersOfTrip(e.trip) # {}
      BY <1>1, <1>2, <1>3, EventIsOwned
    <3>2. a = Taken(e.trip, order) /\ Agrees(a, e.trip, order) /\ e.trip \in DOMAIN reduced[a].covers
      BY <1>1, <1>4, <3>1, OneAttempt
    <3> QED
      BY <1>1, <1>2, <1>3, <2>2, <3>2, EventIsAbout
  <2>3. About(answer', a)
    BY <2>2 DEF About
  <2>4. ASSUME NEW e \in answer'.events
        PROVE  IsDescribed(a, e)
    BY <1>1, <1>2, <1>3, <1>4, <2>4, EventIsDescribed
  <2> QED
    BY <2>1, <2>3, <2>4 DEF Described
<1>5. ASSUME Seen = Attempts, Cardinality(Seen) > 1
      PROVE  Common(answer')
  BY <1>1, <1>2, <1>3, <1>5, BoardOfTwo DEF Common
<1> QED
  BY <1>4, <1>5

\* and stays so.
LEMMA BoardInvKept ==
  ASSUME ImportInv, AnswerInv, BoardInv, [Next]_vars
  PROVE  BoardInv'
<1>1. CASE Answer
  BY <1>1, AnswerSays
<1>2. CASE \E t \in BoardTables : Read(t) \/ ReadFails(t) \/ NoConnection(t)
  BY <1>2 DEF Read, ReadFails, NoConnection, CanRead, BoardInv, Unharmed, NoAnswer, Panic
<1>3. CASE \/ Import(DOMAIN got # {}) /\ UNCHANGED <<picks, got, answer>>
           \/ UNCHANGED vars
  <2>1. UNCHANGED <<world, reduced, got, answer>>
    BY <1>3 DEF vars, Import, Insert, InsertFails, Delete, Stop
  <2>2. /\ Attempts' = Attempts /\ Seen' = Seen
        /\ \A a : SawOnly(a)' <=> SawOnly(a)
    BY <2>1, FeedsStay DEF Seen, SawOnly
  <2>3. answer.state = "sent" => DOMAIN got # {}
    BY BoardTablesAre DEF AnswerInv, NoAnswer
  <2>4. DOMAIN got # {} => harm \subseteq harm'
    BY <1>3, HarmStays DEF vars
  <2>5. \A a : /\ Exact(answer, a)' <=> Exact(answer, a)
               /\ About(answer, a)' <=> About(answer, a)
               /\ Described(answer, a)' <=> Described(answer, a)
    BY <2>1, SaidStays
  <2>6. Common(answer)' <=> Common(answer)
    BY <2>1, SaidStays
  <2> QED
    BY <2>1, <2>2, <2>3, <2>4, <2>5, <2>6 DEF BoardInv, Unharmed
<1> QED
  BY <1>1, <1>2, <1>3 DEF Next, Request

--------------------------------------------------------------------------------
(* The theorems.                                                           *)

IInv == ImportInv /\ AnswerInv /\ BoardInv

LEMMA Invariance == Spec => []IInv
<1>1. Init => IInv
  BY InitInv DEF IInv, Init, BoardInv, Unharmed, NoAnswer
<1>2. IInv /\ [Next]_vars => IInv'
  BY ImportInvKept, AnswerInvKept, BoardInvKept DEF IInv
<1> QED
  BY <1>1, <1>2, PTL DEF Spec

(* A request fails only when rows were deleted under it, or a query        *)
(* failed: an import writes the tables in an order, and the request reads  *)
(* them in one, in which a pattern it has read has its rows.               *)
THEOREM FailsCorrect == Spec => []FailsOnlyWhenHarmed
<1>1. IInv => FailsOnlyWhenHarmed
  BY DEF IInv, AnswerInv, NoAnswer, FailsOnlyWhenHarmed
<1> QED
  BY <1>1, Invariance, PTL

(* A board read from one attempt lists every call of its timetable in the  *)
(* window, and lists no other.                                             *)
THEOREM ExactCorrect == Spec => []BoardIsExact
<1>1. IInv => BoardIsExact
  BY BoardInvIs DEF IInv
<1> QED
  BY <1>1, Invariance, PTL

(* A call that two attempts have stays on the board while one of them is   *)
(* inserted, in whatever order tables and rows are read.                   *)
THEOREM CommonCorrect == Spec => []CommonStaysListed
<1>1. IInv => CommonStaysListed
  BY BoardInvIs DEF IInv
<1> QED
  BY <1>1, Invariance, PTL

(* A run shows the update that is about it and no other, if dates are      *)
(* given by all updates of its trip, or can be guessed.                    *)
THEOREM RealtimeCorrect == Spec => []RealtimeIsOfTheRun
<1>1. IInv => RealtimeIsOfTheRun
  BY BoardInvIs DEF IInv
<1> QED
  BY <1>1, Invariance, PTL

(* A visit is marked as the last one if it is, and has its headsign, though *)
(* both are kept by pattern and found by the stop.                         *)
THEOREM DescribedCorrect == Spec => []VisitIsDescribed
<1>1. IInv => VisitIsDescribed
  BY BoardInvIs DEF IInv
<1> QED
  BY <1>1, Invariance, PTL

================================================================================
