------------------------------- MODULE Timetable -------------------------------
(* What Maple makes of the timetable of a feed before and while it writes  *)
(* it to Postgres: minimum_day_filter, reduce (maple_syrup), and the rows  *)
(* of patterns and trips. Pure operators.                                  *)
(*                                                                         *)
(* A feed is trips, general calendars and exceptions, each a function from *)
(* its ids. A trip is a route, a service, a headsign, the ways it is       *)
(* repeated ("every": first and last start, headway) and its stop times in *)
(* the order of their sequence numbers. Names of stops are their ids, and  *)
(* a headsign joined from several texts is the sequence of them. Shapes,   *)
(* directions, pickup rules, platforms and the wording of particular       *)
(* agencies are left out.                                                  *)
EXTENDS Calendars, SequencesExt

NoTime == -1
NoText == ""

(* A trip: its stops in a list, and no time before that of its first stop. *)
IsTrip(trip) ==
    /\ trip.stops \in Seq(Range(trip.stops))
    /\ IsFiniteSet(trip.every)
    /\ \A e \in trip.every : {e.first, e.last, e.headway} \subseteq Int
    /\ \A k \in DOMAIN trip.stops :
          LET s == trip.stops[k]
          IN  /\ s \in [stop : {s.stop}, arrival : Int, departure : Int,
                        sequence : Int, headsign : {s.headsign}]
              /\ \A time \in {s.arrival, s.departure} : time = NoTime \/ time >= trip.stops[1].arrival

Service(feed, s) ==
    [general |-> IF s \in DOMAIN feed.general THEN feed.general[s] ELSE NoGeneral,
     exceptions |-> IF s \in DOMAIN feed.exceptions THEN feed.exceptions[s] ELSE <<>>]

(* A service is active if a date from "day" on is added, or scheduled and  *)
(* not removed.                                                            *)
IsActive(service, day) ==
    \/ \E d \in DOMAIN service.exceptions : d >= day /\ service.exceptions[d] = "added"
    \/ \E d \in service.general.first..service.general.last :
          d >= day /\ DatetimeInService(service, d)

MinimumDayFilter(feed, day) ==
    LET Kept(S) == {s \in S : IsActive(Service(feed, s), day)}
        listed == DOMAIN feed.general \cup DOMAIN feed.exceptions
        trips == {t \in DOMAIN feed.trips : \/ feed.trips[t].service \notin listed
                                            \/ Kept({feed.trips[t].service}) # {}}
    IN  [feed EXCEPT !.trips = Restrict(@, trips),
                     !.general = Restrict(@, Kept(DOMAIN @)),
                     !.exceptions = Restrict(@, Kept(DOMAIN @))]

--------------------------------------------------------------------------------

(* reduce takes trips of two stops or more that say when they start and    *)
(* when they leave their last stop.                                        *)
ValidTrips(feed) ==
    {t \in DOMAIN feed.trips :
        LET stops == feed.trips[t].stops
        IN  Len(stops) >= 2 /\ stops[1].arrival # NoTime /\ Last(stops).departure # NoTime}

StartTime(trip) == trip.stops[1].arrival

Position(list, text) == SelectInSeq(list, LAMBDA x : x = text)

(* The headsigns of the stops of a trip, each once, as they come.          *)
FirstHeadsigns(trip) ==
    {k \in DOMAIN trip.stops :
        /\ trip.stops[k].headsign # NoText
        /\ \A j \in 1..(k - 1) : trip.stops[j].headsign # trip.stops[k].headsign}

Rank(S, k) == Cardinality({j \in S : j <= k})

StopHeadsigns(trip) ==
    LET first == FirstHeadsigns(trip)
    IN  [n \in 1..Cardinality(first) |->
            trip.stops[CHOOSE k \in first : Rank(first, k) = n].headsign]

(* An itinerary is a trip without its start and its service: trips whose   *)
(* covers are equal share it.                                              *)
ItineraryCover(trip) ==
    LET Since(time) == IF time = NoTime THEN NoTime ELSE time - StartTime(trip)
        list == StopHeadsigns(trip)
    IN  [route |-> trip.route,
         headsign |-> IF trip.headsign # NoText THEN <<trip.headsign>>
                      ELSE IF list = <<>> THEN <<Last(trip.stops).stop>> ELSE list,
         list |-> IF Len(list) < 2 THEN <<>> ELSE list,
         stops |-> [k \in DOMAIN trip.stops |->
                       [trip.stops[k] EXCEPT !.arrival = Since(@), !.departure = Since(@)]]]

(* The feed with the cover of each trip that is taken.                     *)
Reduce(feed) ==
    [trips |-> feed.trips, general |-> feed.general, exceptions |-> feed.exceptions,
     covers |-> [t \in ValidTrips(feed) |-> ItineraryCover(feed.trips[t])]]

Or(a, b) == IF a # NoTime THEN a ELSE b

(* The time of a stop without any: as far between the timed stops around   *)
(* it as it has untimed ones before it.                                    *)
InterpolatedTime(cover, k) ==
    LET Timed(i) == Or(cover.stops[i].arrival, cover.stops[i].departure) # NoTime
        before == {i \in 1..(k - 1) : Timed(i)}
        behind == {i \in (k + 1)..Len(cover.stops) : Timed(i)}
        i == Max(before)
        j == Min(behind)
        from == Or(cover.stops[i].departure, cover.stops[i].arrival)
        to == Or(cover.stops[j].arrival, cover.stops[j].departure)
    IN  IF Timed(k) \/ before = {} \/ behind = {} THEN NoTime
        ELSE from + ((to - from) \div (j - i - 1)) * (k - i)

(* When a trip leaves a stop, from its start, as far as its rows say.      *)
Offset(cover, k) ==
    LET told == Or(Or(cover.stops[k].departure, cover.stops[k].arrival), InterpolatedTime(cover, k))
    IN  IF told = NoTime THEN 0 ELSE told

IsRepeated(trip) == trip.every # {}

\* The starts of a trip on one day; the last of a frequency counts.
Starts(trip) ==
    IF ~IsRepeated(trip) THEN {StartTime(trip)}
    ELSE UNION {{e.first + n * e.headway : n \in 0..((e.last - e.first) \div e.headway)} : e \in trip.every}

(* The time of an arrival or a departure in a realtime message is Absent   *)
(* when the event is, NoTime when the event has none.                      *)
Absent == -2

Known(time) == IF time = Absent THEN NoTime ELSE time

--------------------------------------------------------------------------------

(* A direction pattern is a route with its stops: its id is their hash, so *)
(* it is the same in every attempt, unlike the id of an itinerary.         *)
Pattern(cover) == <<cover.route, [k \in DOMAIN cover.stops |-> cover.stops[k].stop]>>

Covers(reduced) == Range(reduced.covers)
Patterns(reduced) == {Pattern(c) : c \in Covers(reduced)}

(* What a pattern says of its itineraries comes from two of them, the one  *)
(* that is last in the pass of reduce over a hash map and the one that is  *)
(* first in the hash set of the pattern: which, nothing says.              *)
Picks(reduced) ==
    {f \in [Patterns(reduced) -> Covers(reduced) \X Covers(reduced)] :
        \A p \in DOMAIN f : Pattern(f[p][1]) = p /\ Pattern(f[p][2]) = p}

(* direction_pattern_meta: the headsign of one, the list of the other.     *)
DirectionMeta(pick) == [headsign |-> pick[1].headsign, list |-> pick[2].list]

DirectionRowsMut(pick) ==
    [k \in DOMAIN pick[2].stops |->
        [stop |-> pick[2].stops[k].stop,
         sequence |-> k,
         index |-> Position(pick[1].list, pick[2].stops[k].headsign)]]

(* direction_pattern: the stops of one, counted from 0, with the place of  *)
(* their headsigns in the list of the other, 0 for none.                   *)
DirectionRows(pick) ==
    [k \in DOMAIN pick[2].stops |->
        [stop |-> pick[2].stops[k].stop,
         sequence |-> k - 1,
         index |-> Position(pick[1].list, pick[2].stops[k].headsign)]]

================================================================================
