------------------------------- MODULE Calendars -------------------------------
(* Service dates and local time, as the schedule code computes them        *)
(* (lib.rs, birch/departures_shared.rs). Instants are seconds, dates count *)
(* days, and a time zone is its offset before and after one change. Pure   *)
(* operators: Timetable and StaticImport use them, StaticImport_proofs     *)
(* says what they give for all values.                                     *)
EXTENDS Integers

Hour == 3600
Day == 24 * Hour

(* A zone: seconds ahead of UTC before and from the instant "at" on. The   *)
(* change is an hour at most.                                              *)
Zones == {z \in [before : Int, after : Int, at : Int] :
            /\ z.after - z.before <= Hour
            /\ z.before - z.after <= Hour}

Shift(zone) == IF zone.after < zone.before THEN zone.before - zone.after
                                           ELSE zone.after - zone.before

Ahead(zone, t) == IF t < zone.at THEN zone.before ELSE zone.after

LocalDate(zone, t) == (t + Ahead(zone, t)) \div Day

(* Noon is never skipped or repeated: changes are made at night.           *)
Noon(zone, date) ==
    LET early == date * Day + 12 * Hour - zone.before
    IN  IF early < zone.at THEN early ELSE date * Day + 12 * Hour - zone.after

(* Where the times of a service date count from: 12 hours before noon,     *)
(* which is another hour than midnight on the day of a change.             *)
Midnight(zone, date) == Noon(zone, date) - 12 * Hour

--------------------------------------------------------------------------------

(* A service is a general calendar (no days when there is none) and its    *)
(* exceptions: a function from dates to "added" or "removed".              *)
NoGeneral == [days |-> {}, first |-> 0, last |-> 0]

InGeneral(general, date) == /\ date % 7 \in general.days
                            /\ date \in general.first..general.last

DatetimeInService(service, date) ==
    IF date \in DOMAIN service.exceptions
    THEN service.exceptions[date] = "added"
    ELSE InGeneral(service.general, date)

(* The dates find_service_ranges looks at, for a trip whose last stop row  *)
(* is "offset" after its start: neither end knows when the trip starts.    *)
DatesToCheck(zone, offset, lookback, input, back, forward) ==
    LocalDate(zone, input - back - offset - lookback)
        .. LocalDate(zone, input + forward - offset)

FindServiceRanges(service, zone, offset, lookback, input, back, forward) ==
    {d \in DatesToCheck(zone, offset, lookback, input, back, forward) :
        DatetimeInService(service, d)}

(* When the dates looked at hold that of a departure "time" after the      *)
(* midnight of its service date, with "spare" looked ahead beyond the      *)
(* window: theorem EveryDateIsChecked.                                     *)
Examined(zone, time, offset, lookback, spare) ==
    /\ time - offset - lookback < 2 * Day - Shift(zone)
    /\ offset - time + Shift(zone) <= spare

Distance(a, b) == IF a < b THEN b - a ELSE a - b

(* estimate_service_date: does an update that gives no date, whose first   *)
(* time is "least", belong to the run of "date"? The date is guessed: of   *)
(* the dates of service up to the one of "least" without the offset of the *)
(* stop, the one whose midnight is nearest, the earlier of two.            *)
Estimates(service, zone, least, offset, date) ==
    LET approx == LocalDate(zone, least - offset)
        served == {d \in (approx - 2)..approx : DatetimeInService(service, d)}
        Off(d) == Distance(least, Midnight(zone, d))
    IN  \E best \in served :
          /\ \A d \in served : \/ Off(best) < Off(d)
                               \/ Off(best) = Off(d) /\ best <= d
          /\ LocalDate(zone, Midnight(zone, best)) = date

(* When that guess finds the date of a run: theorem EstimateIsRight.       *)
Guessable(service, zone, least, offset, run) ==
    /\ DatetimeInService(service, run)
    /\ LocalDate(zone, Midnight(zone, run)) = run
    /\ LocalDate(zone, least - offset) = run
    /\ Midnight(zone, run) <= least

================================================================================
