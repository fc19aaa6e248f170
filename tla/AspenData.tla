-------------------------------- MODULE AspenData ------------------------------
(***************************************************************************)
(* What Aspen makes of the realtime messages of a chateau: new_rt_data     *)
(* with calculate_delay and the alerts, and the lookups it answers.        *)
(*                                                                         *)
(* One chateau with realtime feeds; the three messages of a feed (trips,   *)
(* vehicles, alerts) come together. One task at a time, and the raw        *)
(* messages as they are stored: both are the subject of AspenIngest, with  *)
(* errors of the network, crashes and the data on disk. The task reads the *)
(* tables while attempts are imported (StaticImport).                      *)
(*                                                                         *)
(* Ids of entities are taken to differ between the feeds of the chateau:   *)
(* where two are the same the one read last is kept.                       *)
(*                                                                         *)
(* Left out: routes, stops, headsigns, shapes, positions, and what is done *)
(* for particular agencies.                                                *)
(***************************************************************************)
EXTENDS StaticImport

VARIABLES
    current,  \* current[f]: how many messages of a realtime feed have come
    young,    \* whether the process is in its grace period
    task,     \* the task of the chateau: its step, and what it has read
    draft,    \* what it has made so far
    served    \* authoritative_data_store: what it made last

dataVars == <<current, young, task, draft, served>>

IsList(list) == list \in Seq(Range(list))

UpdateFields == {"id", "trip", "alias", "affected", "mod", "route", "date", "start", "status", "delay",
                 "stops"}
EntryFields == {"stop", "sequence", "skipped", "arrival", "departure"}

(* Messages are lists of entities in lists; ids are numbers that sort as   *)
(* they do.                                                                *)
ASSUME MessagesAssumption ==
    \A w \in Cases :
        /\ w.order \in Seq(DOMAIN w.messages)
        /\ w.start \in Int
        /\ \A f \in DOMAIN w.messages :
              /\ IsList(w.messages[f])
              /\ \A message \in Range(w.messages[f]) :
                    /\ message.heard \in Int
                    /\ IsList(message.updates) /\ IsList(message.mods)
                    /\ \A mod \in Range(message.mods) :
                          IsList(mod.changes) /\ \A c \in Range(mod.changes) : c.delay \in Int
                    /\ \A u \in Range(message.updates) :
                          /\ UpdateFields \subseteq DOMAIN u
                          /\ u.id \in Int
                          /\ IsList(u.stops)
                          /\ \A s \in Range(u.stops) : EntryFields \subseteq DOMAIN s

JoinTables == {"calendar", "calendar_dates", "itinerary_pattern_meta", "itinerary_pattern"}

RtFeeds == Range(world.order)

\* Lists of ids by trip, in the order they were pushed. "made" is history: the
\* messages the data comes from.
NoData == [updates |-> <<>>, byTrip |-> <<>>, unscheduled |-> {}, vehicles |-> <<>>,
           mods |-> <<>>, modsByTrip |-> <<>>,
           alerts |-> <<>>, alertsOfRoute |-> {}, alertsOfTrip |-> {},
           patterns |-> <<>>, trips |-> <<>>, made |-> [f \in RtFeeds |-> 0]]

Idle == [step |-> "idle", pass |-> 1, ids |-> {}, trips |-> <<>>, got |-> <<>>, now |-> 0]

DataInit == /\ current = [f \in RtFeeds |-> 0]
            /\ young = TRUE
            /\ task = Idle
            /\ draft = NoData
            /\ served = NoData

Message(f) == world.messages[f][current[f]]

Told(f) == current[f] # 0

(* The clock moves when a message comes.                                   *)
Now == Max({world.start} \cup {Message(f).heard : f \in {f \in RtFeeds : Told(f)}})

--------------------------------------------------------------------------------
(* Values of messages. *)

TimeEpoch == 65536
TimeRange == 16777216

\* A time is kept in 24 bits, from the stamp of the message rounded down; that of a
\* message without one is 0.
CompactTime(time, stamp) ==
    LET reference == (stamp \div TimeEpoch) * TimeEpoch
        diff == ((time - reference + TimeRange \div 2) % TimeRange) - TimeRange \div 2
    IN  IF time \in {Absent, NoTime} THEN time
        ELSE IF reference + diff <= 0 THEN NoTime ELSE reference + diff

Put(index, key, value) == [k \in DOMAIN index \cup {key} |-> IF k = key THEN value ELSE index[k]]

At(index, key) == IF key \in DOMAIN index THEN index[key] ELSE <<>>

Push(index, key, id) ==
    IF key = NoText THEN index ELSE Put(index, key, Append(At(index, key), id))

\* The ids of an entry, sorted and each once.
Sorted(S) == [n \in 1..Cardinality(S) |-> CHOOSE k \in S : Rank(S, k) = n]

ById(entities) == FoldLeft(LAMBDA f, e : Put(f, e.id, e), <<>>, entities)

StopIds(stops) == {s.stop : s \in Range(stops)} \ {NoText}

--------------------------------------------------------------------------------
(* calculate_delay. A delay is the set of its value, empty for none. *)

StopsToCome(stops, cover, now) ==
    SelectSeq(stops, LAMBDA s : /\ s.stop \in StopIds(cover.stops)
                                /\ Or(Known(s.departure), Known(s.arrival)) >= now)

\* The rows of an itinerary count from 0.
RowsOf(cover, s) ==
    LET there == {k \in DOMAIN cover.stops : cover.stops[k].stop = s.stop}
    IN  IF Cardinality(there) = 1 THEN there ELSE {k \in there : s.sequence = k - 1}

GuessDateNowMut(trip, row, s, calendar, now) ==
    LET dates == {d \in (LocalDate(world.zone, now) - 5)..(LocalDate(world.zone, now) + 4) :
                     DatetimeInService(calendar, d)}
        Off(d) == Distance(now, Midnight(world.zone, d) + StartTime(trip))
    IN  IF dates = {} THEN NoTime ELSE Min({d \in dates : \A e \in dates : Off(d) <= Off(e)})

\* Of the dates of service around now the one on which the row is nearest to the
\* time told, the earlier of equals.
GuessDate(trip, row, s, calendar, now) ==
    LET offset == Or(row.arrival, row.departure)
        time == Or(Known(s.arrival), Known(s.departure))
        dates == {d \in (LocalDate(world.zone, now) - 5)..(LocalDate(world.zone, now) + 4) :
                     DatetimeInService(calendar, d)}
        Off(d) == Distance(time, Midnight(world.zone, d) + offset + StartTime(trip))
    IN  IF offset = NoTime \/ dates = {} THEN NoTime
        ELSE Min({d \in dates : \A e \in dates : Off(d) <= Off(e)})

(* More than six hours early is taken for late on the day before.          *)
NotEarly(delay) == IF delay < -6 * Hour /\ delay + Day > 0 THEN delay + Day ELSE delay

DelayAt(trip, row, s, date) ==
    LET start == Midnight(world.zone, date) + StartTime(trip)
        arrives == Or(row.arrival, row.departure)
        leaves == Or(row.departure, row.arrival)
    IN  IF arrives = NoTime THEN {}
        ELSE IF Known(s.arrival) # NoTime THEN {NotEarly(s.arrival - start - arrives)}
        ELSE {NotEarly(s.departure - start - leaves)}

HasPattern(trips, patterns, t) ==
    /\ t \in DOMAIN trips
    /\ <<trips[t], reduced[trips[t]].covers[t]>> \in DOMAIN patterns
    /\ patterns[<<trips[t], reduced[trips[t]].covers[t]>>]

CalculateDelay(u, stops, patterns, calendars, dates) ==
    IF u.delay # {} THEN u.delay
    ELSE IF ~HasPattern(task.trips, patterns, u.trip) THEN {}
    ELSE LET a == task.trips[u.trip]
             trip == reduced[a].trips[u.trip]
             cover == reduced[a].covers[u.trip]
             next == StopsToCome(stops, cover, task.now)
             calendar == CalendarUnified(trip.service, calendars, dates)
         IN  IF next = <<>> THEN {}
             ELSE UNION {LET row == cover.stops[k]
                             date == IF u.date # NoTime THEN u.date
                                     ELSE GuessDate(trip, row, next[1], calendar, task.now)
                         IN  IF date = NoTime THEN {} ELSE DelayAt(trip, row, next[1], date) :
                         k \in RowsOf(cover, next[1])}

--------------------------------------------------------------------------------
(* The updates, vehicles and modifications of a message. *)

Descriptor(u) == <<u.trip, u.route, u.date, u.start, u.status, u.mod, u.affected>>

\* Where the updates of the run stand among those of its trip.
OfTheRun(u) == {k \in DOMAIN At(served.byTrip, u.trip) :
                   Descriptor(served.updates[At(served.byTrip, u.trip)[k]]) = Descriptor(u)}

StopsBefore(u) ==
    IF \E k \in OfTheRun(u) : OfTheRun(u) = {k}
    THEN served.updates[At(served.byTrip, u.trip)[CHOOSE k \in OfTheRun(u) : TRUE]].stops ELSE <<>>

OldStopsMut(u, new) ==
    LET before == StopsBefore(u)
        gone == Sorted({k \in DOMAIN before : /\ before[k].stop # NoText /\ ~before[k].old
                                              /\ before[k].stop \notin StopIds(new)})
    IN  [n \in DOMAIN gone |-> [before[gone[n]] EXCEPT !.old = TRUE]]

(* Stops that the update of the same run had before and has no more, for a *)
(* vehicle has passed them: if just one of the trip has its descriptor.    *)
OldStops(u, new) ==
    LET before == StopsBefore(u)
        gone == Sorted({k \in DOMAIN before : before[k].stop # NoText /\ before[k].stop \notin StopIds(new)})
    IN  [n \in DOMAIN gone |-> [before[gone[n]] EXCEPT !.old = TRUE]]

NewStops(u, stamp) ==
    [k \in DOMAIN u.stops |->
        LET s == u.stops[k]
        IN  [stop |-> s.stop, sequence |-> s.sequence, skipped |-> s.skipped, old |-> FALSE,
             arrival |-> CompactTime(s.arrival, stamp), departure |-> CompactTime(s.departure, stamp)]]

AddUpdate(d, u, stamp, calendars, dates) ==
    LET new == NewStops(u, stamp)
        stops == OldStops(u, new) \o new
        known == u.trip \in DOMAIN task.trips
        made == [u EXCEPT !.stops = stops,
                          !.delay = CalculateDelay(u, stops, d.patterns, calendars, dates)]
    IN  [d EXCEPT !.updates = Put(@, u.id, Put(made, "found", known)),
                  !.byTrip = Push(Push(Push(@, u.alias, u.id), u.affected, u.id), u.trip, u.id),
                  !.unscheduled = @ \cup IF known THEN {} ELSE StopIds(u.stops) \X {u.id}]

AddMod(d, mod) ==
    [d EXCEPT !.mods = Put(@, mod.id, mod),
              !.modsByTrip = [t \in DOMAIN @ \cup mod.trips |->
                                 IF t \in mod.trips THEN Append(At(@, t), mod.id) ELSE @[t]]]

AddMessage(d, message, calendars, dates) ==
    LET updated == FoldLeft(LAMBDA e, u : AddUpdate(e, u, message.stamp, calendars, dates),
                            d, message.updates)
        modified == FoldLeft(AddMod, updated, message.mods)
    IN  [modified EXCEPT !.vehicles = ById(message.vehicles) @@ @,
                         !.alerts = ById(message.alerts) @@ @]

--------------------------------------------------------------------------------
(* Alerts: an effect, a text, periods and entities (route, trip, stop). *)

LinkedMut(x, y) == /\ x.effect = y.effect /\ x.text = y.text

Linked(x, y) == /\ x.effect = y.effect /\ x.text = y.text
                /\ x.periods = y.periods \/ x.entities = y.entities

(* Alerts that differ in their periods or in their entities are made one,  *)
(* under the least id; and alerts linked by others, too.                   *)
Deduplicate(alerts) ==
    LET Closed(S) == \A i \in S, j \in DOMAIN alerts : Linked(alerts[i], alerts[j]) => j \in S
        Component(i) == {j \in DOMAIN alerts : \A S \in SUBSET DOMAIN alerts : i \in S /\ Closed(S) => j \in S}
        All(i, field) == UNION {alerts[j][field] : j \in Component(i)}
    IN  [i \in {i \in DOMAIN alerts : i = Min(Component(i))} |->
            [alerts[i] EXCEPT !.periods = All(i, "periods"), !.entities = All(i, "entities")]]

(* How often an id is listed is left out.                                  *)
IndexAlerts(d) ==
    LET alerts == Deduplicate(d.alerts)
        Index(field) == UNION {{<<e[field], i>> : e \in {e \in alerts[i].entities : e[field] # NoText}} :
                                  i \in DOMAIN alerts}
    IN  [d EXCEPT !.alerts = alerts,
                  !.alertsOfRoute = @ \cup Index("route"),
                  !.alertsOfTrip = @ \cup Index("trip")]

--------------------------------------------------------------------------------
(* The task: a pass for each feed, which looks up the trips of that feed   *)
(* and of those before it, and then reads the messages of all feeds.       *)

Receive(f) == /\ current[f] < Len(world.messages[f])
              /\ current' = [current EXCEPT ![f] = @ + 1]
              /\ task' = IF task.step = "idle" THEN [Idle EXCEPT !.step = "lookup", !.trips = served.trips]
                         ELSE task
              /\ UNCHANGED <<young, draft, served>>

Mentioned(message) ==
    UNION ({{u.trip, u.alias} : u \in Range(message.updates)}
           \cup {{v.trip} : v \in Range(message.vehicles)}
           \cup {{e.trip : e \in x.entities} : x \in Range(message.alerts)}) \ {NoText}

\* Trips that are in the cache are not read again. Of attempts with rows of a trip
\* any may be the last.
LookUp == /\ task.step = "lookup"
          /\ LET f == world.order[task.pass]
                 ids == task.ids \cup IF Told(f) THEN Mentioned(Message(f)) ELSE {}
                 cached == Restrict(task.trips, ids \cap DOMAIN task.trips)
                 Owners(t) == {a \in rows["trips_compressed"] : t \in DOMAIN reduced[a].covers}
                 found == {t \in ids \ DOMAIN cached : Owners(t) # {}}
             IN  \E trips \in [found -> Attempts] :
                    /\ \A t \in found : trips[t] \in Owners(t)
                    /\ task' = [task EXCEPT !.step = "join", !.ids = ids, !.trips = trips @@ cached,
                                            !.got = <<>>, !.now = Now]
          /\ UNCHANGED <<current, young, draft, served>>

(* Queries that run side by side: while no import is under way their order *)
(* makes no difference, and one order stands for all.                      *)
MayRead(tables, got, t) ==
    /\ t \in tables \ DOMAIN got
    /\ importer.does = "rest" => t = CHOOSE x \in tables \ DOMAIN got : TRUE

Join(t) == /\ task.step = "join"
           /\ MayRead(JoinTables, task.got, t)
           /\ task' = [task EXCEPT !.got = Put(@, t, rows[t])]
           /\ UNCHANGED <<current, young, draft, served>>

(* An error ends the task without a result, and nothing queues it again.   *)
TaskFails == /\ task.step # "idle"
             /\ world.faults
             /\ task' = Idle
             /\ draft' = NoData
             /\ UNCHANGED <<current, young, served>>

\* An itinerary belongs to one attempt. Its rows are taken in the pass its meta was
\* found in.
Accumulated ==
    LET itineraries == {<<task.trips[t], reduced[task.trips[t]].covers[t]>> : t \in DOMAIN task.trips}
        known == {p \in itineraries : p[1] \in task.got["itinerary_pattern_meta"]}
    IN  draft.patterns @@ [p \in known |-> p[1] \in task.got["itinerary_pattern"]]

AllMessages(calendars, dates) ==
    IndexAlerts(FoldLeft(LAMBDA d, f : IF Told(f) THEN AddMessage(d, Message(f), calendars, dates) ELSE d,
                         [draft EXCEPT !.patterns = Accumulated], world.order))

\* One of several updates of a trip must have the date and the start of the vehicle;
\* and an update is in the list once for each pass.
VehicleDelay(d, v) ==
    LET ids == At(d.byTrip, v.trip)
        same == SelectInSeq(ids, LAMBDA id : d.updates[id].date = v.date /\ d.updates[id].start = v.start)
    IN  IF Len(ids) = 1 THEN d.updates[ids[1]].delay
        ELSE IF same = 0 THEN {} ELSE d.updates[ids[same]].delay

Finished(d) ==
    [d EXCEPT !.vehicles = [i \in DOMAIN @ |-> [@[i] EXCEPT !.delay = VehicleDelay(d, d.vehicles[i])]],
              !.byTrip = [t \in DOMAIN @ |-> Sorted(Range(@[t]))],
              !.trips = task.trips,
              !.made = current]

\* The updates that are gone, kept in the order of a hash map.
Kept(d) == IF young THEN DOMAIN served.updates \ DOMAIN d.updates ELSE {}

Keep(d, id) ==
    LET u == served.updates[id]
    IN  [d EXCEPT !.updates = Put(@, id, u),
                  !.byTrip = Push(Push(Push(@, u.trip, id), u.alias, id), u.affected, id),
                  !.unscheduled = @ \cup IF u.found THEN {} ELSE StopIds(u.stops) \X {id}]

(* All that is read of other tasks is the raw messages: what comes between *)
(* the reads of two feeds might have come before or after them.            *)
Pass == /\ task.step = "join"
        /\ DOMAIN task.got = JoinTables
        /\ \E calendars \in SetToSeqs(task.got["calendar"]), dates \in SetToSeqs(task.got["calendar_dates"]) :
              LET d == AllMessages(calendars, dates)
              IN  IF task.pass < Len(world.order)
                  THEN /\ draft' = d
                       /\ task' = [task EXCEPT !.step = "lookup", !.pass = @ + 1]
                       /\ UNCHANGED served
                  ELSE /\ \E order \in SetToSeqs(Kept(d)) : served' = FoldLeft(Keep, Finished(d), order)
                       /\ draft' = NoData
                       /\ task' = Idle
        /\ UNCHANGED <<current, young>>

(* The grace period is looked at when a task ends.                         *)
GrowOld == /\ young
           /\ world.ages
           /\ task.step = "idle"
           /\ young' = FALSE
           /\ UNCHANGED <<current, task, draft, served>>

Data == \/ \E f \in RtFeeds : Receive(f)
        \/ LookUp
        \/ \E t \in JoinTables : Join(t)
        \/ TaskFails
        \/ Pass
        \/ GrowOld

--------------------------------------------------------------------------------
(* The lookups of other programs. *)

UpdatesOf(trip) == [k \in DOMAIN At(served.byTrip, trip) |-> served.updates[At(served.byTrip, trip)[k]]]

\* The first of the modifications of a trip with the date, as a set.
ModificationOf(trip, date) ==
    LET ids == At(served.modsByTrip, trip)
        k == SelectInSeq(ids, LAMBDA id : date \in served.mods[id].dates)
    IN  IF k = 0 THEN {} ELSE {served.mods[ids[k]]}

Modification(id) == IF id \in DOMAIN served.mods THEN {served.mods[id]} ELSE {}

Listed(index, key) == Restrict(served.alerts, {i \in DOMAIN served.alerts : <<key, i>> \in index})
AlertsOfRoute(route) == Listed(served.alertsOfRoute, route)
AlertsOfTrip(trip) == Listed(served.alertsOfTrip, trip)

--------------------------------------------------------------------------------
(* What the messages and the timetable themselves say, for the properties. *)

TripIn(a, id) == world.feeds[a].trips[id]
ServiceIn(a, id) == Service(world.feeds[a], TripIn(a, id).service)
AttemptsWith(id) == {a \in Attempts : id \in ValidTrips(world.feeds[a])}

\* Attempts that have the service of the trip have it alike, with the trip or without.
SameService(id) ==
    \A a \in AttemptsWith(id), b \in Attempts :
        LET s == TripIn(a, id).service
        IN  s \in DOMAIN world.feeds[b].general \cup DOMAIN world.feeds[b].exceptions =>
                Service(world.feeds[b], s) = ServiceIn(a, id)

\* The updates of the messages that were read.
Latest == UNION {Range(world.messages[f][served.made[f]].updates) : f \in {f \in RtFeeds : served.made[f] # 0}}
Past == UNION {Range(world.messages[x[1]][x[2]].updates) : x \in
                  {x \in RtFeeds \X (1..Max({1} \cup Range(served.made))) : x[2] <= served.made[x[1]]}}

AreStamped == \A f \in RtFeeds : \A m \in DOMAIN world.messages[f] : world.messages[f][m].stamp # 0

IsTold(s) == Known(s.arrival) # NoTime \/ Known(s.departure) # NoTime

\* The visits an entry may be about, and how late it is there.
VisitsFor(a, u, s) ==
    LET stops == TripIn(a, u.trip).stops
    IN  {k \in DOMAIN stops : /\ stops[k].stop = s.stop
                              /\ s.sequence \in {NoTime, stops[k].sequence}
                              /\ Or(stops[k].arrival, stops[k].departure) # NoTime}

TrueDelay(a, u, s, k) ==
    LET x == TripIn(a, u.trip).stops[k]
        start == Midnight(world.zone, u.run.date) + u.run.start - StartTime(TripIn(a, u.trip))
    IN  IF Known(s.arrival) # NoTime THEN s.arrival - start - Or(x.arrival, x.departure)
        ELSE s.departure - start - Or(x.departure, x.arrival)

\* Updates about one run: all alike are, it runs once a day, no stop comes twice
\* unless they are numbered from 0, and it is not six hours early. Without its date,
\* it is one of the dates of service around now, and not half a day late.
IsOfOneRun(u) ==
    LET alike == {v \in Past : Descriptor(v) = Descriptor(u)}
    IN  /\ u.date \in {NoTime, u.run.date}
        /\ \A v \in alike : v.run = u.run
        /\ \A a \in AttemptsWith(u.trip) :
              LET trip == TripIn(a, u.trip)
              IN  /\ ~IsRepeated(trip)
                  /\ u.run.start = StartTime(trip)
                  /\ \A k \in DOMAIN trip.stops :
                        \/ trip.stops[k].sequence = k - 1
                        \/ \A j \in DOMAIN trip.stops : trip.stops[j].stop = trip.stops[k].stop => j = k
                  /\ u.date = NoTime =>
                        /\ DatetimeInService(ServiceIn(a, u.trip), u.run.date)
                        /\ u.run.date - LocalDate(world.zone, Now) \in -4..4
                  /\ \A v \in alike : \A s \in Range(v.stops) : IsTold(s) =>
                        \A k \in VisitsFor(a, v, s) :
                            /\ TrueDelay(a, v, s, k) >= -6 * Hour
                            /\ u.date = NoTime => TrueDelay(a, v, s, k) < 11 * Hour
        /\ u.date = NoTime => harm = {} /\ SameService(u.trip)

(* The delay Aspen works out of an update is how late the run it is about  *)
(* is at some stop told: though the date may have to be guessed, on clocks *)
(* that change, from stops that may be past midnight; the stop is found by *)
(* its id and number in another table; and attempts change underneath. And *)
(* there is one, where a stop to come is told and the timetable is found.  *)
DelayIsOfTheRun ==
    AreStamped =>
    \A u \in Latest :
        (u.delay = {} /\ IsOfOneRun(u)) =>
            LET alike == {v \in Past : Descriptor(v) = Descriptor(u)}
                made == served.updates[u.id]
                Timed(a, s) == \E k \in VisitsFor(a, u, s) : \A j \in VisitsFor(a, u, s) : j = k
            IN  /\ \A delay \in made.delay :
                      \E a \in AttemptsWith(u.trip), v \in alike : \E s \in Range(v.stops) :
                          IsTold(s) /\ \E k \in VisitsFor(a, v, s) : delay = TrueDelay(a, v, s, k)
                /\ (/\ made.found /\ task.step = "idle" /\ served.made = current
                    /\ Cardinality(Attempts) = 1
                    /\ \A a \in Attempts, v \in alike : \A s \in Range(v.stops) : Timed(a, s)
                    /\ \E s \in Range(u.stops) : Or(Known(s.departure), Known(s.arrival)) >= Now)
                   => made.delay # {}

\* The only update of its trip with its descriptor.
IsOnlyOne(id) == \E k \in OfTheRun(served.updates[id]) :
    /\ OfTheRun(served.updates[id]) = {k}
    /\ At(served.byTrip, served.updates[id].trip)[k] = id

(* Stops a run has passed stay in its update, though the agency drops them *)
(* from its messages, one after another, and though the data is made anew  *)
(* from each. And in the grace period of a process no update vanishes.     *)
PastStopsStay ==
    [][ /\ \A id \in DOMAIN served.updates \cap DOMAIN served'.updates :
              (Descriptor(served.updates[id]) = Descriptor(served'.updates[id]) /\ IsOnlyOne(id)) =>
                  StopIds(served.updates[id].stops) \subseteq StopIds(served'.updates[id].stops)
        /\ young => \A id \in DOMAIN served.updates :
              /\ id \in DOMAIN served'.updates
              /\ served'.updates[id].trip # NoText =>
                    id \in Range(At(served'.byTrip, served'.updates[id].trip)) ]_served

================================================================================
