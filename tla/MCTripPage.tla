------------------------------- MODULE MCTripPage ------------------------------
(* Families of cases: dates and clocks; several updates and queries; messages *)
(* one after another; imports; alerts; modifications; and two feeds.          *)
EXTENDS TripPage

D == 240           \* the day most is about
Always == [before |-> Hour, after |-> Hour, at |-> 0]
Spring == [before |-> Hour, after |-> 2 * Hour, at |-> D * Day + Hour]
Autumn == [before |-> 2 * Hour, after |-> Hour, at |-> D * Day + Hour]
West == [before |-> -8 * Hour, after |-> -7 * Hour, at |-> D * Day + 10 * Hour]

Call(stop, arrival, departure, sequence) ==
    [stop |-> stop, arrival |-> arrival, departure |-> departure, sequence |-> sequence, headsign |-> ""]
Trip(stops, every) ==
    [route |-> "r", service |-> "s", headsign |-> "h", stops |-> stops, every |-> every]

\* From A to C, past B, which has no times; and stops ten minutes apart.
Line(start, long) == <<Call("A", start, start + 60, 1), Call("B", NoTime, NoTime, 2),
                       Call("C", start + long, start + long, 3)>>
Path(stops, first, start) ==
    [k \in DOMAIN stops |-> Call(stops[k], start + (k - 1) * 600, start + (k - 1) * 600, first + k - 1)]

Daily == "s" :> [days |-> 0..6, first |-> D - 30, last |-> D + 30]
Feed(trip, general, exceptions) == [trips |-> "t" :> trip, general |-> general, exceptions |-> exceptions]
Removed == "s" :> ((D - 1) :> "removed")
Added == "s" :> (D :> "added" @@ (D + 1) :> "added")
FeedOf(trip) == Feed(trip, Daily, <<>>)

Query1(trip, date, start) == [trip |-> trip, date |-> date, start |-> start]
NoPage == Query1(NoText, NoTime, NoTime)
Anyday == Query1("t", NoTime, NoTime)
Today == Query1("t", D, NoTime)

Entry(stop, sequence, arrival, departure) ==
    [stop |-> stop, sequence |-> sequence, arrival |-> arrival, departure |-> departure, skipped |-> FALSE]

Update(id, date, start, dated, stops) ==
    [id |-> id, trip |-> "t", alias |-> NoText, affected |-> NoText, mod |-> 0, route |-> "r",
     date |-> IF dated THEN date ELSE NoTime, start |-> start, status |-> "scheduled", delay |-> {},
     stops |-> stops, run |-> [date |-> date, start |-> start]]

MessageOf(stamp, heard, updates) ==
    [stamp |-> stamp, heard |-> heard, updates |-> updates, vehicles |-> <<>>, mods |-> <<>>, alerts |-> <<>>]

CaseOf(zone, feeds, messages, query) ==
    [zone |-> zone, feeds |-> feeds, day |-> D - 20, start |-> (D - 1) * Day, order |-> <<"f">>,
     messages |-> "f" :> messages, ages |-> FALSE, query |-> query, faults |-> FALSE]
Case1(feed, messages, query) == CaseOf(Always, "old" :> feed, messages, query)

--------------------------------------------------------------------------------

\* A run of D, told the day before or while it is under way.
DateCases ==
    UNION {LET base == Midnight(z, D) + start
               trip == Trip(Line(start, long), {})
               heard == base + IF before THEN -14 * Hour ELSE 1800
               u == Update(1, D, start, dated,
                           <<Entry("A", 1, base + late, base + late + 60), Entry("B", 2, Absent, NoTime),
                             Entry("C", 3, base + long + late, Absent)>>)
           IN  {CaseOf(z, "old" :> Feed(trip, IF c = Added THEN <<>> ELSE Daily, c),
                       <<MessageOf(heard, heard, <<u>>)>>, query) :
                   query \in IF long = Hour THEN {Anyday, Today} ELSE {Anyday},
                   c \in IF long = Hour THEN {<<>>} ELSE {Added, Removed}} :
           z \in {Always, Spring, Autumn, West}, start \in {2 * Hour, 8 * Hour, 25 * Hour}, long \in {Hour, 9 * Hour},
           dated \in BOOLEAN, before \in BOOLEAN, late \in {-Hour, 120, 8 * Hour}}

\* A loop, numbered from 0 or from 1; and a delay the agency gives, or a message
\* without a stamp.
LoopCases ==
    {LET start == 8 * Hour
         base == Midnight(Always, D) + start
         u == [Update(1, D, start, dated, <<Entry("B", NoTime, base + 660, Absent),
                                            Entry("A", number, base + 1260, base + 1320)>>) EXCEPT !.delay = delay]
     IN  Case1(FeedOf(Trip(Path(<<"A", "B", "A">>, first, start), {})),
               <<MessageOf(stamp, heard, <<u>>)>>, Today) :
        first \in {0, 1}, number \in {NoTime, 2, 3}, dated \in BOOLEAN, delay \in {{}, {90}},
        heard \in {D * Day + 7 * Hour, D * Day + 7 * Hour + 900}, stamp \in {0, D * Day}}

--------------------------------------------------------------------------------

Start == 8 * Hour
Base(date) == Midnight(Always, date) + Start
Heard == Base(D) - 600
Full(base) == <<Entry("A", 1, base + 60, base + 90), Entry("C", 3, base + Hour + 60, base + Hour + 60)>>
Tail1(base) == <<Entry("C", 3, base + Hour + 120, Absent)>>
U(id, date, dated) == Update(id, date, Start, dated, Full(Base(date)))
Simple == FeedOf(Trip(Line(Start, Hour), {}))

Several ==
    {<<U(1, D, TRUE), U(2, D + 1, TRUE)>>, <<U(1, D + 1, TRUE), U(2, D, TRUE)>>,
     <<U(1, D, FALSE), U(2, D + 1, TRUE)>>, <<U(1, D + 1, TRUE)>>,
     <<[U(1, D, TRUE) EXCEPT !.status = "cancelled", !.stops = <<>>], U(2, D + 1, TRUE)>>,
     <<[U(1, D + 1, TRUE) EXCEPT !.status = "deleted"], [U(2, D, TRUE) EXCEPT !.status = "cancelled"]>>,
     <<[U(1, D, TRUE) EXCEPT !.trip = "x", !.alias = "t"], U(2, D, TRUE)>>,
     <<[U(1, D + 1, TRUE) EXCEPT !.trip = "x", !.affected = "t"], U(2, D, TRUE)>>}

SeveralCases ==
    {Case1(Simple, <<MessageOf(Heard, Heard, us)>>, q) : us \in Several, q \in {Anyday, Today, Query1("t", D + 1, NoTime)}}

Hourly == {[first |-> 6 * Hour, last |-> 8 * Hour, headway |-> Hour]}
Repeated ==
    {Case1(FeedOf(Trip(Line(Start, 1800), Hourly)),
           <<MessageOf(Heard, Heard, [n \in 1..2 |-> LET start == IF n = first THEN 7 * Hour ELSE 6 * Hour
                                                     IN  Update(n, D, start, dated, Full(Midnight(Always, D) + start))])>>, q) :
        first \in {1, 2}, dated \in BOOLEAN,
        q \in {Today, Query1("t", D, 7 * Hour), Query1("t", D, 6 * Hour), Query1("t", NoTime, 7 * Hour)}}

--------------------------------------------------------------------------------

\* A run along its way: what the agency says first, then, and at last.
Passing(u) == {<<[u EXCEPT !.stops = Full(Base(D))]>>, <<[u EXCEPT !.stops = Tail1(Base(D))]>>,
               <<[u EXCEPT !.stops = <<>>]>>, <<>>}
Vehicle(date) == [id |-> 1, trip |-> "t", date |-> date, start |-> Start, delay |-> {}]

Sequence(a, b, c) ==
    <<MessageOf(Heard, Heard, a), MessageOf(Heard + 60, Heard + 60, b), MessageOf(Heard + 3 * Hour, Heard + 3 * Hour, c)>>

PassingCases ==
    {Case1(Simple, Sequence(<<U(1, D, dated)>>, b, c), Today) :
        dated \in BOOLEAN, b \in Passing(U(1, D, TRUE)), c \in Passing(U(1, D, TRUE))}
    \cup {[Case1(Simple, Sequence(<<U(1, D, TRUE)>>, b, c), NoPage) EXCEPT !.ages = TRUE] :
             b \in Passing(U(1, D, TRUE)) \cup Passing(U(2, D, TRUE))
                   \cup {<<[U(2, D, TRUE) EXCEPT !.trip = NoText]>>},
             c \in Passing(U(1, D, TRUE)) \cup {<<U(2, D + 1, TRUE), U(1, D, TRUE)>>}}

VehicleCases ==
    {Case1(Simple, <<[MessageOf(Heard, Heard, us) EXCEPT !.vehicles = <<Vehicle(date)>>]>>, NoPage) :
        us \in Several, date \in {NoTime, D, D + 1}}

--------------------------------------------------------------------------------

NewFeeds ==
    {Simple,
     FeedOf(Trip(Line(Start + 600, Hour), {})),
     [Simple EXCEPT !.exceptions = "s" :> (D :> "removed")],
     [Simple EXCEPT !.general = "s" :> [Daily["s"] EXCEPT !.last = D - 1], !.exceptions = "s" :> (D :> "added")],
     [Simple EXCEPT !.trips["t"].service = "v", !.general = "v" :> Daily["s"]],
     [Simple EXCEPT !.trips["t"].route = "q"],
     [Simple EXCEPT !.trips = "w" :> Simple.trips["t"]]}

ImportOf(feed, messages, query) == CaseOf(Always, "old" :> Simple @@ "new" :> feed, messages, query)

Undated == MessageOf(Heard, Heard, <<U(1, D, FALSE)>>)
Dated == MessageOf(Heard, Heard, <<U(1, D, TRUE)>>)

ImportCases ==
    {ImportOf(n, <<>>, q) : n \in NewFeeds, q \in {Anyday, Today}}
    \cup {ImportOf(n, <<m>>, NoPage) : n \in NewFeeds, m \in {Undated, Dated}}
    \cup {CaseOf(Always, "old" :> [Simple EXCEPT !.general = "s" :> [Daily["s"] EXCEPT !.last = D - 2]]
                         @@ "new" :> [Simple EXCEPT !.trips = "w" :> Simple.trips["t"]], m, q) :
             <<m, q>> \in {<<<<>>, Anyday>>, <<<<Undated>>, NoPage>>}}
    \cup {CaseOf(Always, "new" :> Simple, <<Undated>>, Anyday)}
    \cup {Case1(Feed(Trip(Line(Start, Hour), {}), "s" :> [days |-> 0..6, first |-> D - 30, last |-> last], <<>>),
                <<Undated>>, q) : last \in {D - 25, D - 15, D - 8}, q \in {Anyday, Today}}
    \cup {[ImportOf(Simple, <<>>, Today) EXCEPT !.faults = TRUE], [Case1(Simple, <<Dated>>, Today) EXCEPT !.faults = TRUE],
          [ImportOf(Simple, <<Dated>>, NoPage) EXCEPT !.faults = TRUE]}

--------------------------------------------------------------------------------

Alert(id, effect, text, periods, entities) ==
    [id |-> id, effect |-> effect, text |-> text, periods |-> periods, entities |-> entities]
Period(from, to) == [from |-> Midnight(Always, D) + from, to |-> Midnight(Always, D) + to]
About(route, trip, stop) == [route |-> route, trip |-> trip, stop |-> stop]

AroundRun == Period(0, Day)
Part == Period(Start + 60, Day)
Tomorrow == Period(Day, 2 * Day)
TheTrip == About(NoText, "t", NoText)
TheRoute == About("r", NoText, NoText)
OneStop == About("r", "t", "A")
Other == About("q", NoText, NoText)

Periods == {{}, {AroundRun}, {Part}, {Tomorrow}, {Part, AroundRun}}
Entities == {{TheTrip}, {TheRoute}, {OneStop}, {Other}, {Other, TheTrip}}

WithAlerts1(messages, n, alerts) == [messages EXCEPT ![n].alerts = alerts]
Calm == MessageOf(Heard, Heard, <<>>)

AlertCases ==
    {Case1(Simple, WithAlerts1(<<Calm>>, 1, <<Alert(1, effect, "x", p, e)>>), Today) :
        effect \in {"no service", "detour"}, p \in Periods, e \in Entities}
    \cup {Case1(Simple, WithAlerts1(<<Calm>>, 1, <<Alert(1, "no service", "x", p[1], e[1]),
                                                   Alert(2, "no service", y, p[2], e[2])>>), Today) :
             y \in {"x", "y"}, p \in {<<{Tomorrow}, {AroundRun}>>, <<{AroundRun}, {AroundRun}>>},
             e \in {<<{TheTrip}, {TheTrip}>>, <<{TheTrip}, {Other}>>, <<{Other}, {TheRoute}>>, <<{TheTrip}, {OneStop}>>}}
    \cup {Case1(Simple, WithAlerts1(WithAlerts1(<<Calm, Calm>>, 1, a), 2, b), Today) :
             a \in {<<>>, <<Alert(1, "no service", "x", {AroundRun}, {TheTrip})>>},
             b \in {<<Alert(1, "no service", "x", {AroundRun}, {TheRoute})>>,
                    <<Alert(2, "no service", "x", {Tomorrow}, {TheTrip}), Alert(1, "no service", "x", {AroundRun}, {Other}),
                      Alert(3, "no service", "x", {Tomorrow}, {Other})>>}}

--------------------------------------------------------------------------------

Stops5 == <<"A", "B", "C", "D", "A">>
Long == FeedOf(Trip(Path(Stops5, 0, Start), {}))
At1(stop, sequence) == [stop |-> stop, sequence |-> sequence]
Change(from, to, delay) == [from |-> from, to |-> to, delay |-> delay]
Change1 == Change(At1("B", NoTime), At1("C", NoTime), 120)
Nowhere == At1(NoText, NoTime)

Changes ==
    {<<Change1>>, <<Change(At1("A", 0), At1("B", NoTime), 60)>>, <<Change(At1(NoText, 3), At1("A", 4), 60)>>,
     <<Change(At1("A", 4), At1("A", 4), 0)>>, <<Change(At1("B", NoTime), Nowhere, 60)>>,
     <<Change(At1("B", NoTime), At1("B", NoTime), 60), Change(At1("D", NoTime), At1("D", NoTime), 30)>>,
     <<Change(At1("D", NoTime), At1("D", NoTime), 60), Change(At1("B", NoTime), At1("B", NoTime), 30)>>,
     <<Change(At1("D", NoTime), At1("B", NoTime), 60)>>, <<Change(At1("E", NoTime), At1("B", NoTime), 60)>>,
     <<Change(At1("A", NoTime), At1("A", 4), 60)>>}

ModCases ==
    {Case1(Long,
           <<[MessageOf(Heard, Heard, <<[Update(1, D, Start, TRUE, <<Entry("D", 3, Base(D) + 1900, Absent)>>) EXCEPT !.mod = id]>>)
              EXCEPT !.mods = <<[id |-> 1, trips |-> {"t"}, dates |-> {D + 1}, changes |-> <<Change1>>],
                                [id |-> 2, trips |-> {"t"}, dates |-> {D}, changes |-> changes]>>]>>, q) :
        id \in {0, 2}, changes \in Changes, q \in {Today}}
    \cup {Case1(Long, <<[MessageOf(Heard, Heard, us) EXCEPT
                          !.mods = <<[id |-> 1, trips |-> {"t"}, dates |-> {D}, changes |-> <<Change1>>]>>]>>, Today) :
             us \in {<<>>, <<U(1, D + 1, TRUE)>>, <<[U(1, D, TRUE) EXCEPT !.mod = 3]>>}}

--------------------------------------------------------------------------------

\* The trips in one feed, vehicles and alerts in another, in either order; and a trip
\* no timetable has.
TwoFeeds ==
    {[Case1(Simple, <<>>, Today) EXCEPT
        !.order = order, !.ages = q = NoPage, !.query = q,
        !.messages = "f" :> <<MessageOf(Heard, Heard, <<U(1, D, TRUE)>>), MessageOf(Heard, Heard, <<>>)>>
                     @@ "g" :> <<[MessageOf(Heard, Heard, us) EXCEPT
                                    !.vehicles = <<Vehicle(D)>>,
                                    !.alerts = <<Alert(1, "no service", "x", {AroundRun}, {TheTrip})>>]>>] :
        order \in {<<"f", "g">>, <<"g", "f">>}, q \in {NoPage, Today},
        us \in {<<>>, <<[U(2, D, TRUE) EXCEPT !.trip = "x"]>>}}

ExtraCases ==
    {[Case1(Simple, <<MessageOf(Heard, Heard, us), MessageOf(Heard, Heard, <<>>)>>, Query1("x", d, NoTime))
      EXCEPT !.ages = TRUE, !.faults = us # <<>>] :
        d \in {D, NoTime},
        us \in {<<>>, <<[U(1, D, TRUE) EXCEPT !.trip = "x"]>>, <<[U(1, D, TRUE) EXCEPT !.trip = "x", !.route = "q"]>>}}

MCCases == DateCases \cup LoopCases \cup SeveralCases \cup Repeated \cup PassingCases \cup VehicleCases
           \cup ImportCases \cup AlertCases \cup ModCases \cup TwoFeeds \cup ExtraCases
================================================================================
