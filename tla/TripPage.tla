-------------------------------- MODULE TripPage -------------------------------
(***************************************************************************)
(* The page of a trip (Birch): get_trip_init reads the tables while        *)
(* attempts are imported, works out which date is asked for, and puts what *)
(* Aspen knows of the run on the schedule: the update, a modification, and *)
(* the alerts. Each is a query of its own, and messages come between them. *)
(*                                                                         *)
(* Left out: the rows of stops, shapes and agencies, platforms,            *)
(* connections, and the lookup of the Aspen worker (BirchLive).            *)
(***************************************************************************)
EXTENDS AspenData

ASSUME QueriesAssumption ==
    \A w \in Cases : w.query.date \in Int /\ w.query.start \in Int

VARIABLES page   \* the request: its step, and what it has read and made

vars == <<world, reduced, rows, importer, harm, current, young, task, draft, served, page>>

Query == world.query

\* "asked" is history: the messages behind the updates it was given.
NewPage == [step |-> IF Query.trip = NoText THEN "sent" ELSE "open", status |-> 0,
            attempt |-> NoText, got |-> <<>>, now |-> 0, date |-> NoTime, stops |-> <<>>,
            shown |-> {}, mods |-> {}, dropped |-> <<>>,
            alerts |-> <<>>, cancelled |-> FALSE, deleted |-> FALSE,
            asked |-> [f \in RtFeeds |-> 0]]

Init == /\ ImportInit
        /\ DataInit
        /\ page = NewPage

End(p, status) == [p EXCEPT !.step = "sent", !.status = status]
Panicked(p) == End(p, 500)

IsScheduled == page.attempt # NoText

--------------------------------------------------------------------------------
(* The tables. *)

\* Of attempts with a row of the trip any may be the first.
Open == /\ page.step = "open"
        /\ LET owners == {a \in rows["trips_compressed"] : Query.trip \in DOMAIN reduced[a].covers}
           IN  \/ \E a \in owners : page' = [page EXCEPT !.step = "join", !.attempt = a]
               \/ owners = {} /\ page' = [page EXCEPT !.step = "updates"]
        /\ UNCHANGED harm

\* With the route: without a row of it there is no page.
PageTables == JoinTables \cup {"routes"}

RoutesOf(a) == {trip.route : trip \in Range(world.feeds[a].trips)}
HasRoute(attempts, route) == \E a \in attempts : route \in RoutesOf(a)

JoinPage(t) == /\ page.step = "join"
               /\ MayRead(PageTables, page.got, t)
               /\ page' = [page EXCEPT !.got = Put(@, t, rows[t])]
               /\ UNCHANGED harm

Cover == reduced[page.attempt].covers[Query.trip]
Service1 == reduced[page.attempt].trips[Query.trip].service

\* The last calendar that holds the date counts, and the first exception on it.
ServiceActive(s, date, calendars, dates) ==
    LET holding == {a \in Range(calendars) :
                       /\ s \in DOMAIN reduced[a].general
                       /\ date \in reduced[a].general[s].first..reduced[a].general[s].last}
        excepting == {k \in DOMAIN dates : /\ s \in DOMAIN reduced[dates[k]].exceptions
                                          /\ date \in DOMAIN reduced[dates[k]].exceptions[s]}
    IN  IF excepting # {} THEN reduced[dates[Min(excepting)]].exceptions[s][date] = "added"
        ELSE holding # {} /\ date % 7 \in reduced[Winner(calendars, holding)].general[s].days

\* The start of the run: as asked for, or that of the trip.
PageStart == IF Query.start # NoTime THEN Query.start
             ELSE StartTime(reduced[page.attempt].trips[Query.trip])

StartOn(date) == Midnight(world.zone, date) + PageStart

\* Without a date in the query, of the dates of service around now the one whose
\* start is nearest, the earlier of equals.
DatesMeant(calendars, dates) ==
    LET active == {d \in (LocalDate(world.zone, Now) - 10)..(LocalDate(world.zone, Now) + 9) :
                      ServiceActive(Service1, d, calendars, dates)}
        Off(d) == Distance(StartOn(d), Now)
    IN  IF Query.date # NoTime THEN {Query.date}
        ELSE IF active = {} THEN {}
        ELSE {Min({d \in active : \A e \in active : Off(d) <= Off(e)})}

NoEvent == [arrival |-> Absent, departure |-> Absent]

ScheduledStops(date) ==
    LET On(time) == IF time = NoTime THEN NoTime ELSE StartOn(date) + time
    IN  [k \in DOMAIN Cover.stops |->
            [stop |-> Cover.stops[k].stop, sequence |-> Cover.stops[k].sequence,
             arrival |-> On(Cover.stops[k].arrival), departure |-> On(Cover.stops[k].departure),
             realtime |-> NoEvent, skipped |-> FALSE]]

\* The rows are those of the attempt of the meta, or none.
Schedule ==
    /\ page.step = "join"
    /\ DOMAIN page.got = PageTables
    /\ IF \/ ~HasRoute(page.got["routes"], Cover.route)
          \/ page.attempt \notin page.got["itinerary_pattern_meta"] THEN page' = End(page, 404)
       ELSE \E calendars \in SetToSeqs(page.got["calendar"]), dates \in SetToSeqs(page.got["calendar_dates"]) :
                LET meant == DatesMeant(calendars, dates)
                IN  \/ meant = {} /\ page' = End([page EXCEPT !.now = Now], 404)
                    \/ \E date \in meant :
                          page' = [page EXCEPT !.step = "updates", !.now = Now, !.date = date,
                                       !.stops = IF page.attempt \in page.got["itinerary_pattern"]
                                                 THEN ScheduledStops(date) ELSE <<>>]
    /\ UNCHANGED harm

--------------------------------------------------------------------------------
(* The update. *)

MatchesUpdateMut(u) == Query.start # NoTime => u.start = Query.start

\* An update without a date matches no date.
MatchesUpdate(u) == /\ Query.start # NoTime => u.start = Query.start
                    /\ u.date = page.date

(* A single update is taken as it is; and the first if none matches.       *)
UpdateShown(updates) ==
    LET i == SelectInSeq(updates, MatchesUpdate)
    IN  IF Len(updates) = 1 \/ i = 0 THEN updates[1] ELSE updates[i]

\* A page of a trip without a schedule shows the first update of it.
RealtimeStops(u) ==
    [k \in DOMAIN u.stops |->
        [stop |-> u.stops[k].stop, sequence |-> u.stops[k].sequence, arrival |-> NoTime, departure |-> NoTime,
         realtime |-> [arrival |-> u.stops[k].arrival, departure |-> u.stops[k].departure],
         skipped |-> u.stops[k].skipped]]

AskUpdates ==
    /\ page.step = "updates"
    /\ LET updates == UpdatesOf(Query.trip)
           asked == [page EXCEPT !.asked = served.made]
       IN  page' = IF IsScheduled
                   THEN IF updates = <<>> THEN [asked EXCEPT !.step = "routeAlerts"]
                        ELSE LET u == UpdateShown(updates)
                             IN  [asked EXCEPT !.step = "modification", !.shown = {u},
                                               !.cancelled = u.status = "cancelled",
                                               !.deleted = u.status = "deleted"]
                   ELSE IF updates = <<>> THEN End(page, 404)
                        ELSE [asked EXCEPT !.step = "routeAlerts", !.shown = {updates[1]},
                                           !.stops = RealtimeStops(updates[1])]
    /\ UNCHANGED harm

--------------------------------------------------------------------------------
(* The modification. A change is the first stop it replaces, the last, and *)
(* the delay behind it.                                                    *)

PositionOf(selector, stops) ==
    SelectInSeq(stops, LAMBDA x : /\ selector.stop # NoText \/ selector.sequence # NoTime
                                  /\ selector.stop \in {NoText, x.stop}
                                  /\ selector.sequence \in {NoTime, x.sequence})

Later(s, delay) == [s EXCEPT !.arrival = IF @ = NoTime THEN @ ELSE @ + delay,
                             !.departure = IF @ = NoTime THEN @ ELSE @ + delay]

\* The stops that are put in their place are worked out and not shown. Without an end
\* the first stop goes with no other; the stop before it must have a time, and a slice
\* that ends before it starts is a panic.
Modify(p, change) ==
    LET i == PositionOf(change.from, p.stops)
        j == PositionOf(change.to, p.stops)
        reference == p.stops[IF i = 1 THEN 1 ELSE i - 1]
        behind == SubSeq(p.stops, (IF j = 0 THEN i ELSE j) + 1, Len(p.stops))
    IN  IF p.step = "sent" \/ i = 0 THEN p
        ELSE IF j \in 1..(i - 2) \/ Or(reference.arrival, reference.departure) = NoTime THEN Panicked(p)
        ELSE [p EXCEPT !.stops = SubSeq(@, 1, i - 1) \o [k \in DOMAIN behind |-> Later(behind[k], change.delay)],
                       !.dropped = @ \o IF j = 0 THEN <<>> ELSE SubSeq(p.stops, i, j)]

\* The first stop an entry of the update is about.
UpdateStop(stops, s) ==
    LET i == PositionOf(s, stops)
        Event(field) == IF s[field] = Absent THEN stops[i].realtime[field] ELSE s[field]
    IN  IF i = 0 THEN stops
        ELSE [stops EXCEPT ![i].realtime = [arrival |-> Event("arrival"), departure |-> Event("departure")],
                           ![i].skipped = s.skipped]

ChangesOf(mods) == (CHOOSE m \in mods : TRUE).changes

\* By the id the update gives, or else by trip and date.
AskModification ==
    /\ page.step = "modification"
    /\ \E u \in page.shown :
          LET mods == IF u.mod = 0 THEN ModificationOf(Query.trip, page.date) ELSE Modification(u.mod)
              asked == [page EXCEPT !.mods = mods]
              modified == IF mods = {} THEN asked ELSE FoldLeft(Modify, asked, ChangesOf(mods))
          IN  page' = IF modified.step = "sent" THEN modified
                      ELSE [modified EXCEPT !.step = "routeAlerts",
                                            !.stops = FoldLeft(UpdateStop, @, u.stops)]
    /\ UNCHANGED harm

--------------------------------------------------------------------------------
(* The alerts. *)

PageRoute == IF IsScheduled THEN Cover.route ELSE (CHOOSE u \in page.shown : TRUE).route

IsAbout(entity) == entity.route = PageRoute \/ entity.trip = Query.trip

WithAlerts(alerts) == alerts @@ page.alerts

AskRouteAlerts == /\ page.step = "routeAlerts"
                  /\ page' = [page EXCEPT !.step = "tripAlerts", !.alerts = WithAlerts(AlertsOfRoute(PageRoute))]
                  /\ UNCHANGED harm

(* A run is cancelled by an alert of no service about the whole trip or    *)
(* route, if a period of it holds the run: a missing time counts as inside.*)
NoService(alert) ==
    /\ alert.effect = "no service"
    /\ \E e \in alert.entities : IsAbout(e) /\ e.stop = NoText
    /\ \E x \in alert.periods :
          /\ Head(page.stops).arrival # NoTime => Head(page.stops).arrival >= x.from
          /\ Last(page.stops).arrival <= x.to

\* The page ends here: alerts of no service are looked at until the run is cancelled,
\* and with no stop to look at it panics.
Finish(alerts) ==
    LET p == [page EXCEPT !.alerts = alerts]
        asks == {i \in DOMAIN alerts : /\ alerts[i].effect = "no service"
                                       /\ alerts[i].periods # {}
                                       /\ \E e \in alerts[i].entities : IsAbout(e)}
    IN  IF ~IsScheduled THEN [p EXCEPT !.step = "route"]
        ELSE IF page.cancelled \/ asks = {} THEN End(p, 200)
        ELSE IF page.stops = <<>> THEN Panicked(p)
        ELSE End([p EXCEPT !.cancelled = \E i \in asks : NoService(alerts[i])], 200)

AskTripAlerts == /\ page.step = "tripAlerts"
                 /\ page' = Finish(WithAlerts(AlertsOfTrip(Query.trip)))
                 /\ UNCHANGED harm

\* The route of a trip without a schedule is the one its update names.
AskRoute == /\ page.step = "route"
            /\ page' = End(page, IF HasRoute(rows["routes"], PageRoute) THEN 200 ELSE 404)
            /\ UNCHANGED harm

--------------------------------------------------------------------------------

(* A query of the tables that fails ends the page. One of Aspen is gone    *)
(* without, but the page of a trip without a schedule has nothing to show. *)
QueryFails ==
    /\ page.step # "sent"
    /\ world.faults
    /\ harm' = harm \cup {"failure"}
    /\ \/ page.step \in {"open", "join", "route"} /\ page' = End(page, 500)
       \/ page.step = "updates" /\ IsScheduled /\ page' \in {[page EXCEPT !.step = "routeAlerts"], End(page, 200)}
       \/ page.step = "updates" /\ ~IsScheduled /\ page' \in {End(page, 404), End(page, 500)}
       \/ /\ page.step = "modification"
          /\ page' = [page EXCEPT !.step = "routeAlerts",
                                  !.stops = FoldLeft(UpdateStop, @, (CHOOSE u \in page.shown : TRUE).stops)]
       \/ page.step = "routeAlerts" /\ page' = [page EXCEPT !.step = "tripAlerts"]
       \/ page.step = "tripAlerts" /\ page' = Finish(page.alerts)

Request == \/ Open
           \/ \E t \in PageTables : JoinPage(t)
           \/ Schedule
           \/ AskUpdates
           \/ AskModification
           \/ AskRouteAlerts
           \/ AskTripAlerts
           \/ AskRoute
           \/ QueryFails

\* Whether there is something that was read from the tables.
Reading == \/ task.step # "idle" \/ served.trips # <<>>
           \/ Query.trip # NoText /\ page.step # "open"

Next == \/ Import(Reading) /\ UNCHANGED <<dataVars, page>>
        \/ Data /\ UNCHANGED <<world, reduced, rows, importer, harm, page>>
        \/ Request /\ UNCHANGED <<world, reduced, rows, importer, dataVars>>

Spec == Init /\ [][Next]_vars

--------------------------------------------------------------------------------
(* The page that is sent, and what it should say. *)

IsSent == page.step = "sent" /\ IsScheduled /\ harm = {}
IsShown == IsSent /\ page.status = 200

PageTrip == TripIn(page.attempt, Query.trip)
Visits == PageTrip.stops

RunOfPage == [date |-> page.date, start |-> PageStart]

\* The instant the times of the trip count from.
Origin == StartOn(page.date) - StartTime(PageTrip)

OnRun(time) == IF time = NoTime THEN NoTime ELSE Origin + time

\* The visits a change replaces, by the timetable.
Replaced(change, visits) ==
    LET i == PositionOf(change.from, visits)
        j == PositionOf(change.to, visits)
    IN  IF i = 0 \/ j = 0 THEN {} ELSE i..j

\* Changes with an end, one behind the other.
AreOrderly(changes, visits) ==
    /\ \A n \in DOMAIN changes : Replaced(changes[n], visits) # {}
    /\ \A m, n \in DOMAIN changes :
          m < n => Max(Replaced(changes[m], visits)) < Min(Replaced(changes[n], visits))

\* How late the first n changes make the visit k.
DelayBehind(changes, visits, k) ==
    LET sum[n \in 0..Len(changes)] ==
            IF n = 0 THEN 0
            ELSE sum[n - 1] + IF Max(Replaced(changes[n], visits)) < k THEN changes[n].delay ELSE 0
    IN  sum

\* No change brings a time to before the epoch: time is unsigned.
AreAfterEpoch(changes, visits, origin) ==
    \A k \in DOMAIN visits, n \in 0..Len(changes) :
        \A time \in {visits[k].arrival, visits[k].departure} \ {NoTime} :
            origin + time + DelayBehind(changes, visits, k)[n] >= 0

\* A row of the page is about a visit, which is late by the delay.
IsVisit(x, visit, origin, delay) ==
    LET On(time) == IF time = NoTime THEN NoTime ELSE origin + time + delay
    IN  /\ x.stop = visit.stop /\ x.sequence = visit.sequence
        /\ x.arrival = On(visit.arrival) /\ x.departure = On(visit.departure)

\* Each visit is shown, or dropped if a change takes it; and nothing else is.
ShowsAll(stops, dropped, changes, visits, origin) ==
    LET Taken(k) == \E n \in DOMAIN changes : k \in Replaced(changes[n], visits)
        Late(k) == DelayBehind(changes, visits, k)[Len(changes)]
    IN  /\ \A k \in DOMAIN visits :
              \E x \in Range(IF Taken(k) THEN dropped ELSE stops) : IsVisit(x, visits[k], origin, Late(k))
        /\ Len(stops) + Len(dropped) = Len(visits)

(* A page shows every visit of the trip, at its time on the date that was  *)
(* asked for or on a date of service, though the tables are written while  *)
(* they are read: or, with a modification, shows those it leaves, later by *)
(* its delays, and lists those it takes. It is not found only if the trip  *)
(* has no date, or if its route is one the attempt before did not have:    *)
(* the routes are inserted behind the trips. And it panics only over a     *)
(* modification.                                                           *)
PageIsWhole ==
    IsSent =>
        LET changes == IF page.mods = {} THEN <<>> ELSE ChangesOf(page.mods)
            around == (LocalDate(world.zone, page.now) - 10)..(LocalDate(world.zone, page.now) + 9)
            OfService(date) == DatetimeInService(ServiceIn(page.attempt, Query.trip), date)
            ofNewRoute == /\ page.attempt = "new" /\ "new" \notin page.got["routes"]
                          /\ "old" \in Attempts => PageTrip.route \notin RoutesOf("old")
        IN  /\ page.status = 404 =>
                  \/ ofNewRoute
                  \/ Query.date = NoTime /\ (SameService(Query.trip) => \A d \in around : ~OfService(d))
            /\ page.status = 500 => page.mods # {}
            /\ (/\ page.status = 200
                /\ page.mods = {} \/ (AreOrderly(changes, Visits) /\ AreAfterEpoch(changes, Visits, Origin))) =>
                  ShowsAll(page.stops, page.dropped, changes, Visits, Origin)
            /\ page.status = 200 =>
                  IF Query.date # NoTime THEN page.date = Query.date
                  ELSE SameService(Query.trip) => OfService(page.date)

\* The updates of the messages the page was made from, and of all until now.
AskedOf == UNION {Range(world.messages[f][page.asked[f]].updates) : f \in {f \in RtFeeds : page.asked[f] # 0}}
HeardOf == UNION {Range(world.messages[x[1]][x[2]].updates) :
                     x \in {x \in RtFeeds \X (1..Max({1} \cup Range(current))) : x[2] <= current[x[1]]}}

(* A page shows the update of its own run if there is one with a date, and *)
(* the times of a stop are those some message gave for the run of the      *)
(* update: not those of another day, another start, or another stop. And   *)
(* without a date in the query it shows the run that is under way.         *)
RunIsShown ==
    IsShown =>
        /\ (IsRepeated(PageTrip) => Query.start # NoTime) =>
              \A u \in AskedOf :
                 (/\ u.trip = Query.trip /\ u.run = RunOfPage /\ u.date = page.date
                  /\ Query.start \in {NoTime, u.start})
                 => \E v \in page.shown : v.run = u.run
        /\ \A u \in page.shown :
              LET alike == {v \in HeardOf : Descriptor(v) = Descriptor(u)}
                  Entries(stop) == UNION {{s \in Range(v.stops) : s.stop = stop} : v \in alike}
              IN  (AreStamped /\ \A v \in alike : v.run = u.run) =>
                  \A x \in Range(page.stops), field \in {"arrival", "departure"} :
                     (/\ \A j, k \in DOMAIN Visits : Visits[j].stop = x.stop /\ Visits[k].stop = x.stop => j = k
                      /\ Known(x.realtime[field]) # NoTime)
                     => \E s \in Entries(x.stop) : s[field] = x.realtime[field]
        /\ (Query.date = NoTime /\ SameService(Query.trip)) =>
              \A d \in (LocalDate(world.zone, page.now) - 5)..(LocalDate(world.zone, page.now) + 5) :
                 LET length == Last(Visits).departure - StartTime(PageTrip)
                 IN  (/\ DatetimeInService(ServiceIn(page.attempt, Query.trip), d)
                      /\ length < 11 * Hour
                      /\ page.now - StartOn(d) \in 0..length) => page.date = d

\* An alert of no service about the whole trip or route, with a period around the run.
Cancels(alert) ==
    /\ alert.effect = "no service"
    /\ \E e \in alert.entities : (e.route = PageTrip.route \/ e.trip = Query.trip) /\ e.stop = NoText
    /\ \E x \in alert.periods : /\ OnRun(Visits[1].arrival) >= x.from
                                /\ OnRun(Last(Visits).arrival) <= x.to

AlertsIn(made) == UNION {Range(world.messages[f][made[f]].alerts) : f \in {f \in RtFeeds : made[f] # 0}}
AlertsHeard == UNION {Range(world.messages[x[1]][x[2]].alerts) :
                         x \in {x \in RtFeeds \X (1..Max({1} \cup Range(current))) : x[2] <= current[x[1]]}}

\* Alerts that are joined through a third.
AreChained(alerts) ==
    \E x, y, z \in alerts :
        /\ x.effect = y.effect /\ y.effect = z.effect /\ x.text = y.text /\ y.text = z.text
        /\ x.periods = y.periods /\ x.entities # y.entities
        /\ y.entities = z.entities /\ y.periods # z.periods

(* A run is cancelled on its page if and only if its update says so, or an *)
(* alert of no service about the trip or its route has a period around the *)
(* run: though alerts are joined before they are asked for, and asked for  *)
(* by route and by trip, with messages between.                            *)
CancelledIsSaid ==
    (IsShown /\ page.mods = {}) =>
        LET said == \E u \in page.shown : u.status = "cancelled"
        IN  /\ (page.cancelled /\ ~AreChained(AlertsHeard)) => said \/ \E x \in AlertsHeard : Cancels(x)
            /\ said => page.cancelled
            /\ (page.asked = current /\ \E x \in AlertsIn(current) : Cancels(x)) => page.cancelled

================================================================================
