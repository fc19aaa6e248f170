----------------------------- MODULE DepartureBoard ----------------------------
(***************************************************************************)
(* The departures of a stop (Birch), read from the tables of attempts that *)
(* Maple inserts and deletes meanwhile, with the trip updates of Aspen.    *)
(*                                                                         *)
(* A request reads seven tables of its chateau, in two tasks and without a *)
(* transaction, while attempts come and go. From what it has read it works *)
(* out on which dates each trip runs, and which update is about which run. *)
(*                                                                         *)
(* Left out: the choice of stops, routes, agencies, shapes, platforms,     *)
(* vehicles, and trips Aspen knows without a schedule.                     *)
(***************************************************************************)
EXTENDS StaticImport

\* What an update says of its run is so.
IsUpdate(u) ==
    /\ u.run.date \in Int
    /\ u.date \in {NoTime, u.run.date}
    /\ u.start = u.run.start
    /\ \A s \in Range(u.stops) : {s.arrival, s.departure} \subseteq Nat \cup {NoTime, Absent}

ASSUME CasesAssumption ==
    \A w \in Cases :
        /\ {w.from, w.to} \subseteq Int
        /\ w.from <= w.to
        /\ \A id \in DOMAIN w.updates :
              /\ w.updates[id] \in Seq(Range(w.updates[id]))
              /\ \A u \in Range(w.updates[id]) : IsUpdate(u)

VARIABLES
    picks,     \* Picks of each attempt
    got,       \* got[t]: attempts whose rows the request read from a table
    answer

vars == <<world, reduced, picks, rows, importer, got, answer, harm>>

\* The table whose rows a query of the request takes its keys from.
KeysFrom == [itinerary_pattern_meta |-> "itinerary_pattern",
             direction_pattern_meta |-> "itinerary_pattern_meta",
             direction_pattern |-> "itinerary_pattern_meta",
             trips_compressed |-> "itinerary_pattern",
             calendar |-> "trips_compressed",
             calendar_dates |-> "calendar"]

\* The routes are read as well, for their names only.
BoardTables == Tables \ {"routes"}

\* The tables that were read, with one more.
GotToo(t, attempts) == [u \in DOMAIN got \cup {t} |-> IF u = t THEN attempts ELSE got[u]]

NoAnswer == [state |-> "none", heard |-> FALSE, events |-> {}]
Panic == [state |-> "panic", heard |-> FALSE, events |-> {}]

Init == /\ ImportInit
        /\ picks \in {p \in [Attempts -> UNION {Picks(reduced[a]) : a \in Attempts}] :
                         \A a \in Attempts : p[a] \in Picks(reduced[a])}
        /\ got = <<>>
        /\ answer = NoAnswer

--------------------------------------------------------------------------------
(* Birch: the queries of fetch_stop_data_for_chateau. *)

CanRead(t) == /\ answer = NoAnswer
              /\ t \in BoardTables \ DOMAIN got
              /\ t \in DOMAIN KeysFrom => KeysFrom[t] \in DOMAIN got

Read(t) == /\ CanRead(t)
           /\ got' = GotToo(t, rows[t])
           /\ UNCHANGED <<world, reduced, picks, rows, importer, answer, harm>>

ReadFails(t) == /\ CanRead(t)
                /\ world.faults
                /\ "failure" \notin harm
                /\ got' = GotToo(t, {})
                /\ harm' = harm \cup {"failure"}
                /\ UNCHANGED <<world, reduced, picks, rows, importer, answer>>

(* Without a connection of the pool the handler panics; two of the queries *)
(* go on with the connection of the one before.                            *)
NoConnection(t) == /\ CanRead(t)
                   /\ t \notin {"itinerary_pattern_meta", "calendar_dates"}
                   /\ world.faults
                   /\ answer' = Panic
                   /\ harm' = harm \cup {"failure"}
                   /\ UNCHANGED <<world, reduced, picks, rows, importer, got>>

--------------------------------------------------------------------------------
(* Birch: what the request has read. Of attempts with one key in a table   *)
(* the last in the order of its rows stays; world.last says which of an    *)
(* itinerary's rows is read last.                                          *)

KeyTables == {"trips_compressed", "calendar", "calendar_dates", "direction_pattern_meta"}

Orders == {o \in [KeyTables -> UNION {SetToSeqs(got[t]) : t \in KeyTables}] :
              \A t \in KeyTables : o[t] \in SetToSeqs(got[t])}

\* itins_btreemap: the rows of an itinerary at the stops of the request.
Options(cover) == {k \in DOMAIN cover.stops : cover.stops[k].stop \in world.stops}

OwnersOfTrip(t) == {a \in got["trips_compressed"] \cap got["itinerary_pattern"] :
                       t \in DOMAIN reduced[a].covers /\ Options(reduced[a].covers[t]) # {}}
OwnersOfPattern(p, table) == {a \in got[table] : p \in DOMAIN picks[a]}

CalendarOf(s, order) == CalendarUnified(s, order["calendar"], order["calendar_dates"])

--------------------------------------------------------------------------------
(* Birch: the runs of trips. *)

Lesser(a, b) == IF a < b THEN a ELSE b
Greater(a, b) == IF a < b THEN b ELSE a

LookAheadMut == world.to - world.from

LookAhead == Lesser(Greater(world.to - world.from + 300, 12 * Hour), 5 * Day)

LookBack(trip) == IF IsRepeated(trip) THEN Max({e.last : e \in trip.every}) ELSE 0

\* A run of a trip: the trip of an attempt on a date. Trips whose metas were not
\* read are passed over.
RunsOf(t, order) ==
    LET a == Winner(order["trips_compressed"], OwnersOfTrip(t))
        cover == reduced[a].covers[t]
        trip == reduced[a].trips[t]
        last == IF world.last THEN Max(Options(cover)) ELSE Min(Options(cover))
        dates == FindServiceRanges(CalendarOf(trip.service, order), world.zone,
                                   Offset(cover, last), LookBack(trip), world.from, Day, LookAhead)
    IN  IF /\ a \in got["itinerary_pattern_meta"]
           /\ OwnersOfPattern(Pattern(cover), "direction_pattern_meta") # {}
        THEN {[id |-> t, attempt |-> a, date |-> d] : d \in dates} ELSE {}

TripsSeen == {t \in UNION {DOMAIN world.feeds[a].trips : a \in Attempts} : OwnersOfTrip(t) # {}}

Runs(order) == UNION {RunsOf(t, order) : t \in TripsSeen}

--------------------------------------------------------------------------------
(* Birch: realtime. An update is a date, a start, a status and the times   *)
(* of stops. Its "run" is what it is about, which the code cannot see.     *)

FirstTimes(u) ==
    {x \in {IF s.departure # Absent THEN s.departure ELSE s.arrival : s \in Range(u.stops)} :
        x # Absent /\ x # NoTime}

EstimateServiceDate(run, k, u, order) ==
    LET trip == reduced[run.attempt].trips[run.id]
    IN  /\ FirstTimes(u) # {}
        /\ Estimates(CalendarOf(trip.service, order), world.zone, Min(FirstTimes(u)),
                     Offset(reduced[run.attempt].covers[run.id], k), run.date)

UsesDatesMut(updates) == FALSE

\* Whether the updates of a trip give dates is asked of the first of them.
UsesDates(updates) == updates[1].date # NoTime

MatchesRun(run, start, k, u, updates, order) ==
    /\ IsRepeated(reduced[run.attempt].trips[run.id]) => u.start = start
    /\ IF UsesDates(updates) THEN u.date = run.date ELSE EstimateServiceDate(run, k, u, order)

NoRun == [date |-> NoTime, start |-> NoTime]
NoUpdate == [run |-> NoRun, date |-> NoTime, start |-> NoTime, status |-> "scheduled", stops |-> <<>>]

UpdateFor(run, start, k, heard, order) ==
    IF run.id \notin DOMAIN heard \/ heard[run.id] = <<>> THEN NoUpdate
    ELSE LET updates == heard[run.id]
             i == SelectInSeq(updates, LAMBDA u : MatchesRun(run, start, k, u, updates, order))
         IN  IF i = 0 THEN NoUpdate ELSE updates[i]

\* The times of the first entry for the stop. Without frequencies an arrival alone
\* is shown as the departure.
RealtimeOf(u, stop, repeated) ==
    LET i == SelectInSeq(u.stops, LAMBDA s : s.stop = stop)
        s == u.stops[i]
    IN  IF i = 0 \/ u.status # "scheduled" THEN [arrival |-> NoTime, departure |-> NoTime, skipped |-> FALSE]
        ELSE IF repeated \/ s.departure # Absent
        THEN [arrival |-> Known(s.arrival), departure |-> Known(s.departure), skipped |-> repeated /\ s.skipped]
        ELSE [arrival |-> NoTime, departure |-> Known(s.arrival), skipped |-> FALSE]

--------------------------------------------------------------------------------
(* Birch: the events of a run. *)

\* The final row of the pattern is found by its stop; where the itinerary has that
\* stop more than once, by comparing a sequence number of the feed with its index.
IsLastStop(cover, k) ==
    LET p == Pattern(cover)
        final == Last(DirectionRows(picks[CHOOSE a \in OwnersOfPattern(p, "direction_pattern") : TRUE][p]))
        twice == Cardinality({j \in Options(cover) : cover.stops[j].stop = final.stop}) > 1
    IN  IF twice THEN cover.stops[k].sequence = final.sequence
                 ELSE cover.stops[k].stop = final.stop

\* With a list of headsigns, that of the row of the stop, of which two attempts have
\* one each: then, too, the sequence numbers decide, and none may be found.
Headsign(cover, k, order) ==
    LET p == Pattern(cover)
        a == Winner(order["direction_pattern_meta"], OwnersOfPattern(p, "direction_pattern_meta"))
        meta == DirectionMeta(picks[a][p])
        rowsAt == {x \in OwnersOfPattern(p, "direction_pattern") \X DOMAIN cover.stops :
                      p[2][x[2]] = cover.stops[k].stop}
        Row(x) == DirectionRows(picks[x[1]][p])[x[2]]
        matching == IF Cardinality(rowsAt) < 2 THEN rowsAt
                    ELSE {x \in rowsAt : Row(x).sequence = cover.stops[k].sequence}
        index == {Row(x).index : x \in matching}
    IN  IF meta.list = <<>> THEN meta.headsign
        ELSE IF Cardinality(matching) = 1 /\ index \subseteq DOMAIN meta.list
        THEN <<meta.list[CHOOSE i \in index : TRUE]>> ELSE <<>>

IsSuspended(run, time, suspended) ==
    \E s \in suspended : run.id \in s.trips /\ time \in s.from..s.to

EventOf(run, start, k, heard, suspended, order) ==
    LET trip == reduced[run.attempt].trips[run.id]
        cover == reduced[run.attempt].covers[run.id]
        s == cover.stops[k]
        base == Midnight(world.zone, run.date) + start
        u == UpdateFor(run, start, k, heard, order)
        At(offset) == IF offset = NoTime THEN NoTime ELSE base + offset
        leaves == base + IF s.departure = NoTime THEN 0 ELSE s.departure
    IN  [trip |-> run.id, date |-> run.date, start |-> start, visit |-> k, stop |-> s.stop,
         about |-> u.run,
         scheduled |-> [arrival |-> At(s.arrival), departure |-> At(s.departure)],
         realtime |-> RealtimeOf(u, s.stop, IsRepeated(trip)),
         cancelled |-> u.status = "cancelled" \/ IsSuspended(run, leaves, suspended),
         deleted |-> u.status = "deleted",
         last |-> IsLastStop(cover, k),
         headsign |-> Headsign(cover, k, order)]

InWindow(time) == time # NoTime /\ time \in world.from..world.to

IsListed(e) == \/ InWindow(e.scheduled.arrival) \/ InWindow(e.scheduled.departure)
               \/ InWindow(e.realtime.arrival) \/ InWindow(e.realtime.departure)

EventsOf(run, heard, suspended, order) ==
    LET trip == reduced[run.attempt].trips[run.id]
        all == {EventOf(run, start, k, heard, suspended, order) :
                   start \in Starts(trip), k \in Options(reduced[run.attempt].covers[run.id])}
    IN  {e \in all : IsListed(e) /\ ~(IsRepeated(trip) /\ e.deleted)}

\* The rows of a pattern are taken for granted where its meta was read.
Crashes(run) ==
    OwnersOfPattern(Pattern(reduced[run.attempt].covers[run.id]), "direction_pattern") = {}

Board(heard, suspended, order) ==
    LET runs == Runs(order)
    IN  IF \E r \in runs : Crashes(r) THEN Panic
        ELSE [state |-> "sent", heard |-> DOMAIN heard # {},
              events |-> UNION {EventsOf(r, heard, suspended, order) : r \in runs}]

(* Aspen is asked twice, for trip updates and for alerts. The board goes   *)
(* without what it does not get.                                           *)
Answer == /\ answer = NoAnswer
          /\ DOMAIN got = BoardTables
          /\ \E order \in Orders, heard \in {world.updates, <<>>}, suspended \in {world.suspended, {}} :
                answer' = Board(heard, suspended, order)
          /\ UNCHANGED <<world, reduced, picks, rows, importer, got, harm>>

Request == \/ \E t \in BoardTables : Read(t) \/ ReadFails(t) \/ NoConnection(t)
           \/ Answer

Next == \/ Import(DOMAIN got # {}) /\ UNCHANGED <<picks, got, answer>>
        \/ Request

Spec == Init /\ [][Next]_vars

--------------------------------------------------------------------------------

(* What the timetable of a feed itself says, for the properties: a call is *)
(* a visit of a run at a stop of the request.                              *)

TripOf(a, id) == world.feeds[a].trips[id]
VisitsOf(a, id) == {k \in DOMAIN TripOf(a, id).stops : TripOf(a, id).stops[k].stop \in world.stops}
ServiceOf(a, id) == Service(world.feeds[a], TripOf(a, id).service)

\* Seconds from the midnight of the date to a time of a stop, on the run from "start".
TimeOn(a, id, start, time) ==
    IF time = NoTime THEN NoTime ELSE start + time - StartTime(TripOf(a, id))

ScheduledAt(a, c) ==
    LET s == TripOf(a, c.trip).stops[c.visit]
        At(time) == IF time = NoTime THEN NoTime
                    ELSE Midnight(world.zone, c.date) + TimeOn(a, c.trip, c.start, time)
    IN  [arrival |-> At(s.arrival), departure |-> At(s.departure)]

IsCall(a, c) ==
    /\ c.trip \in ValidTrips(world.feeds[a])
    /\ DatetimeInService(ServiceOf(a, c.trip), c.date)
    /\ c.start \in Starts(TripOf(a, c.trip))
    /\ c.visit \in VisitsOf(a, c.trip)

\* Calls that should be found whichever row of an itinerary is read last: it is
\* looked ahead 5 minutes, 12 hours at least, and no more than 5 days in all.
CallsDue(a) ==
    LET dates == (LocalDate(world.zone, world.from) - 4)..(LocalDate(world.zone, world.to) + 1)
        length == world.to - world.from
        spare == Lesser(Greater(12 * Hour - length, 300), 5 * Day - length)
        Looked(c, time) ==
            LET trip == TripOf(a, c.trip)
            IN  time # NoTime =>
                    \A k \in VisitsOf(a, c.trip) :
                        Examined(world.zone, TimeOn(a, c.trip, c.start, time),
                                 Offset(ItineraryCover(trip), k), LookBack(trip), spare)
    IN  UNION {{c \in [trip : {id}, date : dates, start : Starts(TripOf(a, id)), visit : VisitsOf(a, id)] :
                   LET s == TripOf(a, id).stops[c.visit]
                       at == ScheduledAt(a, c)
                   IN  /\ IsCall(a, c)
                       /\ c.date >= world.day
                       /\ \/ InWindow(at.arrival) /\ Looked(c, s.arrival)
                          \/ InWindow(at.departure) /\ Looked(c, s.departure)} :
               id \in ValidTrips(world.feeds[a])}

\* Runs of frequencies that an update deletes are not listed.
MayBeDeleted(a, id) ==
    /\ IsRepeated(TripOf(a, id))
    /\ answer.heard /\ id \in DOMAIN world.updates
    /\ \E u \in Range(world.updates[id]) : u.status = "deleted"

Lists(a, c) == \/ MayBeDeleted(a, c.trip)
               \/ \E e \in answer.events :
                     /\ e.trip = c.trip /\ e.date = c.date /\ e.start = c.start /\ e.visit = c.visit
                     /\ e.scheduled = ScheduledAt(a, c)

Unharmed == answer.state = "sent" /\ harm = {}
Seen == UNION Range(got)
SawOnly(a) == \A t \in BoardTables : got[t] = {a}

(* A board read from one attempt lists every call of its timetable in the  *)
(* window, and lists no other: after the filter by days, the compression   *)
(* to itineraries, the calendars with their exceptions, and the dates      *)
(* looked at without knowing when a trip starts. The theorem               *)
(* EveryDateIsChecked says when a date is looked at.                       *)
BoardIsExact ==
    Unharmed => \A a \in Attempts :
        SawOnly(a) => /\ \A c \in CallsDue(a) : Lists(a, c)
                      /\ \A e \in answer.events : IsCall(a, e) /\ e.scheduled = ScheduledAt(a, e)

(* While another attempt is inserted, a call both timetables have stays on *)
(* the board: no half of the new one hides it, in whatever order tables    *)
(* are read and rows of both come. It needs a service of the same name and *)
(* dates in both: the dates of the new calendars come before their         *)
(* exceptions.                                                             *)
CommonStaysListed ==
    (Unharmed /\ Seen = Attempts /\ Cardinality(Seen) > 1) =>
        \A c \in CallsDue("old") \cap CallsDue("new") :
            (/\ ScheduledAt("old", c) = ScheduledAt("new", c)
             /\ TripOf("old", c.trip).service = TripOf("new", c.trip).service
             /\ ServiceOf("old", c.trip) = ServiceOf("new", c.trip)) => \E a \in Attempts : Lists(a, c)

(* A request fails only when rows were deleted under it, or a query        *)
(* failed: that one of seven tables has rows and another not yet is no     *)
(* reason (unwrap on the rows of a pattern, departures_at_stop.rs).        *)
FailsOnlyWhenHarmed == answer.state = "panic" => harm # {}

\* A trip without frequencies has one run on a date.
IsOfRun(u, e, trip) == u.run.date = e.date /\ (IsRepeated(trip) => u.run.start = e.start)

(* A run shows the update that is about it and no other, if the updates of *)
(* its trip all give their dates, or all give none and each can be guessed *)
(* from every stop of the request (theorem EstimateIsRight).               *)
RealtimeIsOfTheRun ==
    Unharmed => \A a \in Attempts : \A id \in DOMAIN world.updates :
        LET updates == Range(world.updates[id])
            Guessed(u, k) ==
                /\ u.date = NoTime /\ FirstTimes(u) # {}
                /\ Guessable(ServiceOf(a, id), world.zone, Min(FirstTimes(u)),
                             Offset(ItineraryCover(TripOf(a, id)), k), u.run.date)
        IN  (/\ SawOnly(a) /\ id \in DOMAIN world.feeds[a].trips
             /\ \/ \A u \in updates : u.date # NoTime
                \/ \A u \in updates, k \in VisitsOf(a, id) : Guessed(u, k))
            => \A e \in answer.events :
                  e.trip = id =>
                      LET own == {u \in updates : IsOfRun(u, e, TripOf(a, id))}
                      IN  IF answer.heard /\ own # {} THEN \E u \in own : e.about = u.run ELSE e.about = NoRun

IsOnce(trip, stop) == Cardinality({k \in DOMAIN trip.stops : trip.stops[k].stop = stop}) = 1
CountsFromZero(trip) == \A k \in DOMAIN trip.stops : trip.stops[k].sequence = k - 1

\* Itineraries of a pattern that have the same headsigns.
HeadsignsAgree(a, cover) ==
    \A c \in Covers(reduced[a]) : Pattern(c) = Pattern(cover) =>
        /\ c.headsign = cover.headsign /\ c.list = cover.list
        /\ \A k \in DOMAIN c.stops : c.stops[k].headsign = cover.stops[k].headsign

IsDescribed(a, e) ==
    LET trip == TripOf(a, e.trip)
        own == trip.stops[e.visit].headsign
        signs == {s.headsign : s \in Range(trip.stops)}
        last == Last(trip.stops).stop
    IN  /\ CountsFromZero(trip) \/ IsOnce(trip, last) => (e.last <=> e.visit = Len(trip.stops))
        /\ (/\ CountsFromZero(trip) \/ IsOnce(trip, e.stop)
            /\ HeadsignsAgree(a, ItineraryCover(trip))) =>
               /\ own # NoText /\ Cardinality(signs \ {NoText}) > 1 => e.headsign = <<own>>
               /\ signs = {NoText} =>
                     e.headsign = <<IF trip.headsign # NoText THEN trip.headsign ELSE last>>

(* A visit is marked as the last of its trip if it is, and has the         *)
(* headsign of its stop, or else of its trip: though both come from        *)
(* another itinerary of the pattern, found by the stop or, when the trip   *)
(* comes there twice, by a number that counts from 0. It needs itineraries *)
(* that agree, and stops that come once or are numbered from 0.            *)
VisitIsDescribed ==
    Unharmed => \A a \in Attempts : SawOnly(a) => \A e \in answer.events : IsDescribed(a, e)

================================================================================
