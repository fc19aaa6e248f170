------------------------------ MODULE StaticImport -----------------------------
(* Maple inserts and deletes the attempts of a feed in Postgres, under the *)
(* queries of Birch and Aspen. None of these names an attempt: rows of the *)
(* one in production, of one that is being inserted and of one that is     *)
(* being deleted come together.                                            *)
(*                                                                         *)
(* One chateau with one feed. The attempt "old" is there first, "new" is   *)
(* imported if the feed has another timetable; the production flags these  *)
(* queries do not read.                                                    *)
EXTENDS Timetable

CONSTANTS Cases    \* timetables, calendars, messages and requests

\* The feeds are those of the attempts, and the filter by days knows the day.
ASSUME FeedsAssumption ==
    \A w \in Cases :
        /\ DOMAIN w.feeds \subseteq {"old", "new"}
        /\ w.zone \in Zones
        /\ w.day \in Int
        /\ \A a \in DOMAIN w.feeds :
              LET feed == w.feeds[a]
              IN  /\ feed \in [trips : {feed.trips}, general : {feed.general}, exceptions : {feed.exceptions}]
                  /\ \A t \in DOMAIN feed.trips : IsTrip(feed.trips[t])

VARIABLES
    world,     \* the case: what the feed, the agency and the client say
    reduced,   \* what Maple makes of each attempt's timetable
    rows,      \* rows[t]: attempts with rows in a table
    importer,  \* what Maple does: to which attempt, and the next step of it
    harm       \* history: "deletion" touched an attempt a reader may have
               \* seen, or a query of it ended in "failure"

InsertOrderMetaMut == <<{"calendar"}, {"calendar_dates"}, {"direction_pattern_meta", "direction_pattern"},
                        {"itinerary_pattern"}, {"trips_compressed"}, {"itinerary_pattern_meta"}, {"routes"}>>

InsertOrderTripsMut == <<{"trips_compressed"}, {"calendar"}, {"calendar_dates"},
                         {"direction_pattern_meta", "direction_pattern"},
                         {"itinerary_pattern_meta", "itinerary_pattern"}, {"routes"}>>

InsertOrderMut == <<{"calendar"}, {"calendar_dates"}, {"direction_pattern_meta"},
                    {"itinerary_pattern_meta", "itinerary_pattern"}, {"trips_compressed"},
                    {"direction_pattern"}, {"routes"}>>

\* One statement or one transaction at a time, of a feed that needs one of each.
InsertOrder == <<{"calendar"}, {"calendar_dates"}, {"direction_pattern_meta", "direction_pattern"},
                 {"itinerary_pattern_meta", "itinerary_pattern"}, {"trips_compressed"}, {"routes"}>>
DeleteOrder == <<{"calendar_dates"}, {"calendar"}, {"routes"}, {"itinerary_pattern_meta"}, {"itinerary_pattern"},
                 {"trips_compressed"}, {"direction_pattern"}, {"direction_pattern_meta"}>>

Tables == UNION Range(DeleteOrder)

Attempts == DOMAIN world.feeds

ImportInit ==
    /\ world \in Cases
    /\ reduced = [a \in Attempts |-> Reduce(MinimumDayFilter(world.feeds[a], world.day))]
    /\ rows = [t \in Tables |-> Attempts \cap {"old"}]
    /\ importer = [does |-> IF "new" \in Attempts THEN "insert" ELSE "rest",
                   attempt |-> "new", at |-> 1]
    /\ harm = {}

ToDelete(a) == IF a \in Attempts THEN [does |-> "delete", attempt |-> a, at |-> 1]
                                 ELSE [importer EXCEPT !.does = "rest"]

Insert == /\ importer.does = "insert"
          /\ rows' = [t \in Tables |-> IF t \in InsertOrder[importer.at]
                                       THEN rows[t] \cup {"new"} ELSE rows[t]]
          /\ importer' = IF importer.at = Len(InsertOrder) THEN ToDelete("old")
                         ELSE [importer EXCEPT !.at = @ + 1]
          /\ UNCHANGED <<world, reduced, harm>>

(* A failed statement ends the import, and its rows are deleted again.     *)
InsertFails == /\ importer.does = "insert"
               /\ world.faults
               /\ importer' = ToDelete("new")
               /\ UNCHANGED <<world, reduced, rows, harm>>

(* Deleting leaves no trace for a reader that begins after its last step.  *)
Delete(reading) ==
    /\ importer.does = "delete"
    /\ rows' = [t \in Tables |-> IF t \in DeleteOrder[importer.at]
                                 THEN rows[t] \ {importer.attempt} ELSE rows[t]]
    /\ LET over == importer.at = Len(DeleteOrder)
       IN  /\ importer' = IF over THEN [importer EXCEPT !.does = "rest"]
                          ELSE [importer EXCEPT !.at = @ + 1]
           /\ harm' = IF over /\ ~reading THEN harm \ {"deletion"} ELSE harm \cup {"deletion"}
    /\ UNCHANGED <<world, reduced>>

(* A failed deletion is not taken up again, and a process may die.         *)
Stop == /\ importer.does # "rest"
        /\ world.faults
        /\ importer' = [importer EXCEPT !.does = "rest"]
        /\ UNCHANGED <<world, reduced, rows, harm>>

Import(reading) == Insert \/ InsertFails \/ Delete(reading) \/ Stop

--------------------------------------------------------------------------------

(* Of attempts with one key in a table the last in the order of its rows   *)
(* stays.                                                                  *)
Winner(sequence, S) ==
    sequence[Max({i \in DOMAIN sequence : sequence[i] \in S})]

\* make_calendar_structure_from_pg: a general calendar from one attempt, each
\* exception from one; the attempts whose rows were read, in the order of these.
CalendarUnified(s, calendars, dates) ==
    LET general == {a \in Range(calendars) : s \in DOMAIN reduced[a].general}
        dated == {a \in Range(dates) : s \in DOMAIN reduced[a].exceptions}
        On(a) == DOMAIN reduced[a].exceptions[s]
    IN  [general |-> IF general = {} THEN NoGeneral ELSE reduced[Winner(calendars, general)].general[s],
         exceptions |-> [d \in UNION {On(a) : a \in dated} |->
                            reduced[Winner(dates, {a \in dated : d \in On(a)})].exceptions[s][d]]]

================================================================================
