---------------------------- MODULE MCDepartureBoard ---------------------------
(* Four families of cases: calendars, clocks and windows; updates; headsigns  *)
(* and stops that come twice; and imports.                                    *)
EXTENDS DepartureBoard

D == 100           \* the day of the requests
Always == [before |-> Hour, after |-> Hour, at |-> 0]
Spring == [before |-> Hour, after |-> 2 * Hour, at |-> D * Day + Hour]
Autumn == [before |-> 2 * Hour, after |-> Hour, at |-> D * Day + Hour]
West == [before |-> -8 * Hour, after |-> -7 * Hour, at |-> D * Day + 10 * Hour]

Call(stop, arrival, departure, sequence, headsign) ==
    [stop |-> stop, arrival |-> arrival, departure |-> departure,
     sequence |-> sequence, headsign |-> headsign]
Trip(service, headsign, stops, every) ==
    [route |-> "r", service |-> service, headsign |-> headsign, stops |-> stops, every |-> every]

\* From A to C, past B, which has no times unless the trip is short.
Line(start, long) ==
    <<Call("A", start, start + 60, 1, ""),
      Call("B", NoTime, IF long > Hour THEN NoTime ELSE start + 600, 2, ""),
      Call("C", start + long, start + long, 3, "")>>

Daily == [days |-> 0..6, first |-> D - 30, last |-> D + 30]
Weekly == [days |-> {D % 7, (D + 1) % 7}, first |-> D - 30, last |-> D]
Feed(trips, general, exceptions) ==
    [trips |-> trips, general |-> general, exceptions |-> exceptions]
Removed == "s" :> ((D - 1) :> "removed")
Added == "s" :> (D :> "added" @@ (D + 1) :> "added" @@ (D - 2) :> "added" @@ (D + 2) :> "removed")

CaseOf(zone, feeds, stops, from, length, last, updates, suspended, faults) ==
    [zone |-> zone, feeds |-> feeds, day |-> D - 20, stops |-> stops,
     from |-> from, to |-> from + length, last |-> last,
     updates |-> updates, suspended |-> suspended, faults |-> faults]
Board1(zone, feed, stops, from, length, last, updates, suspended) ==
    CaseOf(zone, "old" :> feed, stops, from, length, last, updates, suspended, FALSE)

Hourly == {[first |-> 6 * Hour, last |-> 8 * Hour, headway |-> Hour]}

Calendars1 ==
    {"s" :> Daily @@ "gone" :> [days |-> 0..6, first |-> D - 60, last |-> D - 30], "s" :> Weekly, <<>>}
Windows == {<<-Hour, 25 * Hour>>, <<7 * Hour, Hour>>, <<-20 * Hour, 4 * Day>>}

ExactCases ==
    {Board1(z, Feed("t" :> Trip("s", "h", Line(start, long), every) @@ "g" :> Trip("gone", "h", Line(start, long), {}),
                    c, IF c = <<>> THEN Added ELSE Removed),
            stops, D * Day + w[1], w[2], last, <<>>, {}) :
        z \in {Always, Spring, Autumn, West}, start \in {8 * Hour, 25 * Hour + 1800, 47 * Hour},
        long \in {Hour, 14 * Hour}, every \in {{}, Hourly}, c \in Calendars1,
        stops \in {{"A"}, {"B"}, {"A", "C"}}, w \in Windows, last \in {TRUE}}
    \cup
    {Board1(z, Feed("t" :> Trip("s", "h", Line(8 * Hour, 14 * Hour), {}), "s" :> Daily, <<>>),
            {"A", "C"}, D * Day + w[1], w[2], FALSE, <<>>, {}) :
        z \in {Always, Autumn}, w \in Windows}

--------------------------------------------------------------------------------

Late == 120
Entry(stop, arrival, departure) == [stop |-> stop, arrival |-> arrival, departure |-> departure, skipped |-> stop = "B"]
Update(zone, date, start, dated, status, entries) ==
    LET base == Midnight(zone, date) + start
    IN  [run |-> [date |-> date, start |-> start], date |-> IF dated THEN date ELSE NoTime,
         start |-> start, status |-> status,
         stops |-> CASE entries = "all" -> <<Entry("A", base, base + Late), Entry("B", Absent, NoTime),
                                             Entry("C", base + Hour + Late, base + Hour + Late)>>
                     [] entries = "tail" -> <<Entry("C", base + Hour + Late, Absent)>>
                     [] OTHER -> <<>>]

UpdatesOf(z, start) ==
    LET U(date, dated, status, entries) == Update(z, date, start, dated, status, entries)
    IN  {<<U(D, TRUE, "scheduled", "all")>>,
         <<U(D + 1, TRUE, "cancelled", "none"), U(D, TRUE, "scheduled", "tail")>>,
         <<U(D, TRUE, "deleted", "none"), U(D + 1, TRUE, "scheduled", "all")>>,
         <<U(D, FALSE, "scheduled", "all"), U(D + 1, FALSE, "cancelled", "tail")>>,
         <<U(D - 1, FALSE, "scheduled", "tail"), U(D, FALSE, "scheduled", "tail")>>,
         <<U(D, FALSE, "scheduled", "none")>>,
         <<U(D, TRUE, "scheduled", "all"), U(D + 1, FALSE, "scheduled", "all")>>}

RealtimeCases ==
    UNION {{Board1(z, Feed("t" :> Trip("s", "h", Line(start, Hour), every), "s" :> Daily, <<>>),
                   stops, D * Day - Hour, 2 * Day, TRUE, "t" :> u, suspended) :
               u \in UpdatesOf(z, IF every = {} THEN start ELSE 7 * Hour)} :
           z \in {Always, Spring, Autumn, West}, start \in {2 * Hour, 8 * Hour, 25 * Hour}, every \in {{}, Hourly},
           stops \in {{"A"}, {"A", "C"}},
           suspended \in {{}, {[trips |-> {"t"}, from |-> D * Day, to |-> D * Day + 6 * Hour]}}}

--------------------------------------------------------------------------------

\* A loop or a line, numbered from 0 or from 1, with headsigns at its stops.
Loop(stops, first, signs, start) ==
    [k \in DOMAIN stops |-> Call(stops[k], start + k * 600, start + k * 600, first + k - 1, signs[k])]
Signs == {<<"", "", "">>, <<"x", "x", "y">>, <<"x", "y", "">>}

SignCases ==
    {Board1(Always, Feed("t" :> Trip("s", h, Loop(<<"A", "B", final>>, first, a, 8 * Hour), {})
                         @@ "u" :> Trip("s", "k", Loop(<<"A", "B", final>>, first, b, 9 * Hour), {}),
                         "s" :> Daily, <<>>),
            {"A", "C"}, D * Day, Day, TRUE, <<>>, {}) :
        h \in {"", "k"}, final \in {"A", "C"}, first \in {0, 1}, a \in Signs, b \in Signs}

--------------------------------------------------------------------------------

OldFeed == Feed("t" :> Trip("s", "h", Line(8 * Hour, Hour), {})
                @@ "u" :> Trip("s", "", Loop(<<"A", "B", "D">>, 0, <<"x", "x", "y">>, 9 * Hour), {}),
                "s" :> Daily, Removed)
NewFeeds ==
    {OldFeed,
     [OldFeed EXCEPT !.trips["t"].stops = Line(8 * Hour + 600, Hour)],
     [OldFeed EXCEPT !.exceptions = "s" :> (D :> "removed")],
     [OldFeed EXCEPT !.trips["t"].stops = Line(8 * Hour, 14 * Hour)],
     [OldFeed EXCEPT !.general = "s" :> [Daily EXCEPT !.last = D - 1], !.exceptions = "s" :> (D :> "added")],
     [OldFeed EXCEPT !.trips["t"].service = "v", !.general = @ @@ "v" :> Weekly],
     Feed("t" :> OldFeed.trips["t"] @@ "w" :> Trip("s", "h", Loop(<<"A", "E">>, 1, <<"", "">>, 10 * Hour), {}),
          "s" :> Daily, Removed)}

ImportCases ==
    {CaseOf(Always, "old" :> OldFeed @@ "new" :> n, stops, D * Day, Day, TRUE, <<>>, {}, FALSE) :
        n \in NewFeeds, stops \in {{"A"}, {"A", "C"}}}
    \cup {CaseOf(Always, "old" :> OldFeed @@ "new" :> n, {"A"}, D * Day, Day, TRUE, <<>>, {}, TRUE) :
              n \in NewFeeds}
    \cup {CaseOf(Always, "new" :> OldFeed, {"A"}, D * Day, Day, TRUE, <<>>, {}, FALSE)}

MCCases == ExactCases \cup RealtimeCases \cup SignCases \cup ImportCases
================================================================================
