------------------------------ MODULE TripBased ------------------------------
(***************************************************************************)
(* Gentian's trip-based routing: the journeys within a partition.          *)
(*                                                                         *)
(* Transfers between trips are computed once, in three passes that each    *)
(* throw some away: a transfer goes when riding on brings the traveller    *)
(* nowhere sooner, and when it turns back the way the trip came.  A query  *)
(* then starts from a stop at a time, labels each trip it can board with   *)
(* the first stop to board it at, transfer after transfer, and reads off   *)
(* the arrivals and the edges of the optimal journeys.  Two callers share  *)
(* the scratch space from query to query: `local` asks at fixed times from *)
(* every hub and collects edges, `profile` asks at every departure from a  *)
(* stop, the last first, and keeps the arrivals that are worth it.         *)
(*                                                                         *)
(* A trip is the pair of its pattern and its place there.  All trips of a  *)
(* pattern take the same time, as update_gtfs builds them, and stand in    *)
(* the order Postgres returned them in.  Changing at a stop takes no time: *)
(* that is the self-loop rebuild_partition gives every stop, so tau_c      *)
(* equals tau_a and one tau stands for both.  Durations of edges are left  *)
(* out, and so are wheelchairs, bicycles and days of service, which this   *)
(* code does not look at.                                                  *)
(***************************************************************************)
EXTENDS Integers, FiniteSets, SequencesExt

CONSTANTS
    Stops,          \* stop indices of the partition
    Timetables,     \* partitions: patterns, walks between stops, hubs
    Times,          \* start times of the local job
    MaxTransfers,
    Infinity        \* u32::MAX

ASSUME ConstantsAssumption ==
    /\ Stops \subseteq Nat /\ IsFiniteSet(Stops)
    /\ MaxTransfers \in Nat /\ Infinity \in Nat
    /\ \A tt \in Timetables :
          /\ DOMAIN tt.walk \subseteq Stops \X Stops /\ tt.hubs \subseteq Stops
          /\ \A p \in DOMAIN tt.patterns :
                /\ DOMAIN tt.patterns[p].travel = DOMAIN tt.patterns[p].stops
                /\ DOMAIN tt.patterns[p].dwell = DOMAIN tt.patterns[p].stops

VARIABLES
    tt,             \* the partition
    job,            \* "local" or "profile"
    pc,
    transfers,      \* transfers between trips, by trip and stop
    turned,         \* history: a transfer was removed as a U-turn
    sources,        \* hubs the local job still has to start from
    source,
    starts,         \* start times still to be asked for
    now,            \* the start time of this query
    labels,         \* r_labels: where a trip is boarded after n transfers
    seeds,
    stack,
    walks,          \* scratch.used_initial_walks
    edges,          \* scratch.result_edges
    dedup,          \* scratch.dedup_map
    arrivals,       \* the arrivals a query returns
    dag,            \* local_dag
    profile         \* pareto_results: departures with their arrivals

input == <<tt, job>>
prepared == <<transfers, turned>>
caller == <<sources, source, starts>>
search == <<labels, seeds, stack>>
scratch == <<walks, edges, dedup>>
results == <<arrivals, dag, profile>>
vars == <<input, pc, prepared, caller, now, search, scratch, results>>

-------------------------------------------------------------------------------
(* The timetable. *)

Sum(s) == FoldLeft(LAMBDA a, b : a + b, 0, s)

Calls(u) == tt.patterns[u[1]].stops
StopAt(u, k) == Calls(u)[k]

\* get_arrival_time and get_departure_time.
Arrive(u, k) ==
    LET p == tt.patterns[u[1]]
    IN  p.starts[u[2]] + Sum(SubSeq(p.travel, 2, k)) + Sum(SubSeq(p.dwell, 1, k - 1))
Depart(u, k) == Arrive(u, k) + tt.patterns[u[1]].dwell[k]

\* All trips, in the order of their flat ids.
TripSeq ==
    FlattenSeq([p \in DOMAIN tt.patterns |->
                   [t \in DOMAIN tt.patterns[p].starts |-> <<p, t>>]])
Trips == Range(TripSeq)

\* build_stop_to_patterns: patterns that call at stop q, with the place.
PatternsAt(q) ==
    FlattenSeq([p \in DOMAIN tt.patterns |->
        SelectSeq([k \in DOMAIN tt.patterns[p].stops |-> [pattern |-> p, on |-> k]],
                  LAMBDA c : tt.patterns[c.pattern].stops[c.on] = q)])

\* Where one can walk from s, in the order of internal_transfers.
Neighbours(s) ==
    LET N == {q \in Stops : <<s, q>> \in DOMAIN tt.walk}
        order == SetToSortSeq(N, <)
    IN  [k \in DOMAIN order |-> [stop |-> order[k], time |-> tt.walk[<<s, order[k]>>]]]
Stay(s) == <<[stop |-> s, time |-> 0]>>

\* The binary search for the first trip of pattern p that leaves its place k
\* at time x or later: its place in the pattern, or one more than there are.
RECURSIVE Bisect(_, _, _, _, _)
Bisect(p, k, x, lo, hi) ==
    IF lo = hi THEN lo + 1
    ELSE LET mid == (lo + hi) \div 2
         IN  IF Depart(<<p, mid + 1>>, k) < x THEN Bisect(p, k, x, mid + 1, hi)
             ELSE Bisect(p, k, x, lo, mid)

EarliestTripMut(p, k, x) == Bisect(p, k, x + 1, 0, Len(tt.patterns[p].starts))
EarliestTrip(p, k, x) == Bisect(p, k, x, 0, Len(tt.patterns[p].starts))

-------------------------------------------------------------------------------
(* Transfers. *)

\* Boarding trip t of pattern p at place k is no transfer when it is not there,
\* when it ends there, or when it is this trip or a later one further on.
CanTransfer(u, i, p, t, k) ==
    /\ t <= Len(tt.patterns[p].starts) /\ k # Len(tt.patterns[p].stops)
    /\ p = u[1] => t < u[2] \/ k < i

\* Transfers from the i-th stop of trip u to the patterns at stop f.stop.
TransfersTo(u, i, f) ==
    LET trip(c) == EarliestTrip(c.pattern, c.on, Arrive(u, i) + f.time)
        fits == SelectSeq(PatternsAt(f.stop),
                          LAMBDA c : CanTransfer(u, i, c.pattern, trip(c), c.on))
    IN  [n \in DOMAIN fits |-> [from |-> u, at |-> i, to |-> <<fits[n].pattern, trip(fits[n])>>,
                                on |-> fits[n].on]]

\* The candidates of trip u: none from its first stop.
Candidates(u) ==
    LET from(i) == LET feet == Neighbours(StopAt(u, i)) \o Stay(StopAt(u, i))
                   IN  FlattenSeq([f \in DOMAIN feet |-> TransfersTo(u, i, feet[f])])
    IN  FlattenSeq([i \in 1..(Len(Calls(u)) - 1) |-> from(i + 1)])

\* Stop s is reached at time x by a trip, and others from there on foot.
Reach(tau, s, x) ==
    IF x >= tau[s] THEN tau
    ELSE [q \in Stops |->
             IF q = s THEN x
             ELSE IF <<s, q>> \in DOMAIN tt.walk /\ x + tt.walk[<<s, q>>] < tau[q]
                  THEN x + tt.walk[<<s, q>>] ELSE tau[q]]

\* Trip u is ridden from its place k on.
Ride(tau, u, k) ==
    FoldLeft(LAMBDA a, j : Reach(a, StopAt(u, j), Arrive(u, j)), tau,
             [j \in 1..(Len(Calls(u)) - k) |-> k + j])

\* A transfer is kept when it improves an arrival.
Improve(acc, tr) ==
    LET tau == Ride(acc.tau, tr.to, tr.on)
    IN  IF tau = acc.tau THEN acc ELSE [tau |-> tau, kept |-> acc.kept \cup {tr}]

\* The transfers of trip u that are kept, from the last stop to the first, and
\* at a stop in the order given.
Kept(u, order) ==
    LET atStop(acc, i) ==
            FoldLeft(Improve, [acc EXCEPT !.tau = Reach(@, StopAt(u, i), Arrive(u, i))],
                     SelectSeq(order, LAMBDA tr : tr.at = i))
        none == [tau |-> [s \in Stops |-> Infinity], kept |-> {}]
    IN  FoldLeft(atStop, none, Reverse([i \in DOMAIN Calls(u) |-> i])).kept

RefinedTrip(u, trs, order) == LET kept == Kept(u, order) IN SelectSeq(trs, LAMBDA tr : tr \in kept)

\* A transfer that goes back to the stop before, when one could change there.
UTurn(tr) ==
    /\ tr.at > 1 /\ tr.on < Len(Calls(tr.to))
    /\ StopAt(tr.from, tr.at - 1) = StopAt(tr.to, tr.on + 1)
    /\ Arrive(tr.from, tr.at - 1) <= Depart(tr.to, tr.on + 1)

\* The first refinement takes the last transfer of a stop first.
ComputeInitialTransfers ==
    /\ pc = "initial"
    /\ transfers' = FlattenSeq([n \in DOMAIN TripSeq |->
                        LET trs == Candidates(TripSeq[n]) IN RefinedTrip(TripSeq[n], trs, Reverse(trs))])
    /\ pc' = "uturn"
    /\ UNCHANGED <<input, turned, caller, now, search, scratch, results>>

RemoveUTurnTransfers ==
    /\ pc = "uturn"
    /\ transfers' = SelectSeq(transfers, LAMBDA tr : ~UTurn(tr))
    /\ turned' = (transfers' # transfers)
    /\ pc' = "refine"
    /\ UNCHANGED <<input, caller, now, search, scratch, results>>

\* The second refinement takes the transfers of a stop in their order.
RefineTransfers ==
    /\ pc = "refine"
    /\ transfers' = FlattenSeq([n \in DOMAIN TripSeq |->
                        LET trs == SelectSeq(transfers, LAMBDA tr : tr.from = TripSeq[n])
                        IN  RefinedTrip(TripSeq[n], trs, trs)])
    /\ pc' = "source"
    /\ UNCHANGED <<input, turned, caller, now, search, scratch, results>>

-------------------------------------------------------------------------------
(* A query: labels. *)

NoLabel == [at |-> Infinity, off |-> FALSE]
NoLabels == [n \in 0..MaxTransfers |-> [u \in Trips |-> NoLabel]]

InitialWalks(s) == Stay(s) \o Neighbours(s)

\* min_dep: when someone who leaves at this time and walks w can board.
MinDepMut(time, w) == time
MinDep(time, w) == time + w.time

\* The first trip of every pattern at every stop in reach, the last departure
\* from the source first.
Seeds(s, time) ==
    LET trip(c, w) == EarliestTrip(c.pattern, c.on, MinDep(time, w))
        runs(c, w) == trip(c, w) <= Len(tt.patterns[c.pattern].starts)
        seed(c, w) == LET u == <<c.pattern, trip(c, w)>>
                      IN  [trip |-> u, on |-> c.on, stop |-> w.stop,
                           leave |-> Depart(u, c.on) - w.time]
        at(w) == LET cs == SelectSeq(PatternsAt(w.stop), LAMBDA c : runs(c, w))
                 IN  [n \in DOMAIN cs |-> seed(cs[n], w)]
        all == FlattenSeq([n \in DOMAIN InitialWalks(s) |-> at(InitialWalks(s)[n])])
        order == SetToSortSeq(DOMAIN all, LAMBDA a, b :
                     \/ all[a].leave > all[b].leave
                     \/ all[a].leave = all[b].leave /\ a < b)
    IN  [n \in DOMAIN order |-> all[order[n]]]

StartQuery ==
    /\ pc = "query" /\ starts # <<>>
    /\ now' = Head(starts) /\ starts' = Tail(starts)
    /\ labels' = NoLabels /\ stack' = <<>>
    /\ seeds' = Seeds(source, Head(starts))
    /\ pc' = "search"
    /\ UNCHANGED <<input, prepared, sources, source, scratch, results>>

\* A seed labels its trip and is propagated, if it boards the trip earlier.
TakeSeed ==
    /\ pc = "search" /\ stack = <<>> /\ seeds # <<>>
    /\ LET s == Head(seeds)
           old == labels[0][s.trip]
       IN  IF s.on < old.at
           THEN /\ labels' = [labels EXCEPT ![0][s.trip] = [at |-> s.on, off |-> FALSE]]
                /\ stack' = <<[n |-> 0, trip |-> s.trip, at |-> s.on, off |-> FALSE,
                               limit |-> old.at]>>
           ELSE UNCHANGED <<labels, stack>>
    /\ seeds' = Tail(seeds)
    /\ UNCHANGED <<input, pc, prepared, caller, now, scratch, results>>

\* Labels past a transfer at a hub are inactive, unless the source is a hub of
\* the local job.
CutsAt(s) == job = "profile" /\ s \in tt.hubs /\ s # source

\* The transfer tr is taken from the entry e of the stack.
Take(e, acc, tr) ==
    LET old == acc.labels[e.n + 1][tr.to]
        off == e.off \/ CutsAt(StopAt(e.trip, tr.at))
    IN  IF tr.on < old.at
        THEN [labels |-> [acc.labels EXCEPT ![e.n + 1][tr.to] = [at |-> tr.on, off |-> off]],
              stack |-> Append(acc.stack, [n |-> e.n + 1, trip |-> tr.to, at |-> tr.on,
                                           off |-> off, limit |-> old.at])]
        ELSE acc

\* The transfers between the stop of the entry and where it was scanned before.
Open(e) == SelectSeq(transfers, LAMBDA tr :
               tr.from = e.trip /\ e.at <= tr.at /\ tr.at < e.limit)

\* The last entry of the stack is propagated; when no active entry is left
\* besides it, an inactive one ends the propagation of the seed.
Propagate ==
    /\ pc = "search" /\ stack # <<>>
    /\ LET e == Last(stack)
           rest == Front(stack)
           taken == IF e.n = MaxTransfers THEN [labels |-> labels, stack |-> rest]
                    ELSE FoldLeft(LAMBDA acc, tr : Take(e, acc, tr),
                                  [labels |-> labels, stack |-> rest], Open(e))
       IN  IF e.off /\ \A d \in Range(rest) : d.off
           THEN stack' = <<>> /\ UNCHANGED labels
           ELSE stack' = taken.stack /\ labels' = taken.labels
    /\ UNCHANGED <<input, pc, prepared, caller, now, seeds, scratch, results>>

-------------------------------------------------------------------------------
(* A query: what the labels say. *)

\* Trip u, boarded after n transfers, calls at its place k with this arrival,
\* inactive past a hub.
Call(n, u, k) ==
    LET l == labels[n][u]
        hub(s) == s \in tt.hubs /\ (job = "profile" \/ s # source)
    IN  [n |-> n, time |-> Arrive(u, k),
         off |-> l.off \/ \E i \in l.at..(k - 1) : hub(StopAt(u, i))]

LongestPattern == Max({Len(tt.patterns[p].stops) : p \in DOMAIN tt.patterns})

Dominates(a, b) == a # b /\ a.n <= b.n /\ a.time <= b.time /\ (~a.off \/ b.off)

\* The calls at stop s of trips that are boarded there or before.
CallsAt(s) == {c \in [n : 0..MaxTransfers, trip : Trips, k : 1..LongestPattern] :
                  /\ c.k \in DOMAIN Calls(c.trip) /\ StopAt(c.trip, c.k) = s
                  /\ labels[c.n][c.trip].at <= c.k}

\* best_arrivals: the Pareto frontier of transfers and arrivals at stop s.
Frontier(s) ==
    LET A == {Call(c.n, c.trip, c.k) : c \in CallsAt(s)}
    IN  {a \in A : \A b \in A : ~Dominates(b, a)}

Frontiers == [s \in Stops |-> Frontier(s)]

UsesMut(tr, n) == labels[n][tr.to].at >= tr.on /\ labels[n - 1][tr.from].at < tr.at

\* The transfer tr is how trip tr.to came to be boarded after n transfers.
Uses(tr, n) == labels[n][tr.to].at = tr.on /\ labels[n - 1][tr.from].at <= tr.at

\* useful_trips, by the number of transfers: the last place of each trip that an
\* optimal active journey rides to, or 0; F are the frontiers.
Useful(F) ==
    LET optimal(n, u) == {k \in DOMAIN Calls(u) :
            /\ labels[n][u].at <= k /\ ~Call(n, u, k).off
            /\ Call(n, u, k) \in F[StopAt(u, k)]}
        useful[n \in 0..MaxTransfers] ==
            IF n = MaxTransfers THEN [u \in Trips |-> Max(optimal(n, u) \cup {0})]
            ELSE LET later == useful[n + 1]
                 IN  [u \in Trips |-> Max(optimal(n, u) \cup {0} \cup
                         {tr.at : tr \in {t \in Range(transfers) :
                             t.from = u /\ later[t.to] # 0 /\ Uses(t, n + 1)}})]
    IN  useful

UsedTransfers(useful) ==
    {tr \in Range(transfers) : \E n \in 1..MaxTransfers : useful[n][tr.to] # 0 /\ Uses(tr, n)}

\* The stops the optimal journeys walk to first.
UsedWalks(useful) ==
    {s.stop : s \in {d \in Range(Seeds(source, now)) :
                        useful[0][d.trip] # 0 /\ labels[0][d.trip].at = d.on}}

Walk(a, b) == [kind |-> "walk", from |-> a, to |-> b]

\* The places at which the journeys board, leave or change trip u, from the one
\* where it is boarded after n transfers to the place `last`.
Places(n, u, last, used, F) ==
    {labels[n][u].at}
    \cup {k \in labels[n][u].at..last :
             \E off \in BOOLEAN : [n |-> n, time |-> Arrive(u, k), off |-> off] \in F[StopAt(u, k)]}
    \cup {tr.at : tr \in {t \in used : t.from = u /\ t.at \in labels[n][u].at..last}}

Rides(u, places) ==
    {[kind |-> "ride", from |-> StopAt(u, a), to |-> StopAt(u, b), pattern |-> u[1],
      first |-> a, last |-> b] : <<a, b>> \in
        {<<i, j>> \in places \X places : i < j /\ \A k \in places : k <= i \/ k >= j}}

\* The edges of the optimal journeys, and the stops walked to first.
QueryEdges(F, useful, first) ==
    LET used == UsedTransfers(useful)
        ridden == {<<n, u>> \in (0..MaxTransfers) \X Trips : useful[n][u] # 0}
    IN  {Walk(source, s) : s \in first}
        \cup UNION {Rides(l[2], Places(l[1], l[2], useful[l[1]][l[2]], used, F)) : l \in ridden}
        \cup {Walk(StopAt(tr.from, tr.at), StopAt(tr.to, tr.on)) : tr \in used}

\* The earliest arrival at stop s: on foot, or by an active label's trip.
Earliest(s) ==
    LET onFoot == {now + w.time : w \in {v \in Range(InitialWalks(source)) : v.stop = s}}
        riding == {Arrive(c.trip, c.k) : c \in {d \in CallsAt(s) :
                      labels[d.n][d.trip].at < d.k /\ ~labels[d.n][d.trip].off}}
    IN  Min(onFoot \cup riding \cup {Infinity})

\* The edges leave through result_edges: dedup_map is drained.
ReadOff ==
    /\ pc = "search" /\ stack = <<>> /\ seeds = <<>>
    /\ LET F == Frontiers
           useful == Useful(F)
           first == walks \cup UsedWalks(useful)
       IN  walks' = first /\ edges' = QueryEdges(F, useful, first)
    /\ dedup' = {}
    /\ arrivals' = [s \in Stops |-> Earliest(s)]
    /\ pc' = "answer"
    /\ UNCHANGED <<input, prepared, caller, now, search, dag, profile>>

-------------------------------------------------------------------------------
(* The two callers. *)

\* An arrival is worth keeping when no later departure arrives as early.
Worth(s) ==
    /\ arrivals[s] # Infinity
    /\ profile[s] = <<>> \/ arrivals[s] < Last(profile[s]).arrive

Answer ==
    /\ pc = "answer"
    /\ profile' = IF job = "local" THEN profile
                  ELSE [s \in Stops |->
                           IF Worth(s) THEN Append(profile[s], [leave |-> now, arrive |-> arrivals[s]])
                           ELSE profile[s]]
    /\ pc' = "query"
    /\ UNCHANGED <<input, prepared, caller, now, search, scratch, arrivals, dag>>

\* The departures of all trips from stop s, the last first.
Departures(s) ==
    LET D == UNION {{Depart(u, k) : k \in {i \in DOMAIN Calls(u) : StopAt(u, i) = s}} : u \in Trips}
    IN  SetToSortSeq(D, >)

\* compute_local_patterns_for_partition starts from each hub with all scratch
\* reset, run_trip_based_profile from the one stop it is called for.
NextSource ==
    /\ pc = "source" /\ sources # <<>>
    /\ source' = Head(sources) /\ sources' = Tail(sources)
    /\ starts' = IF job = "local" THEN Times ELSE Departures(Head(sources))
    /\ walks' = {} /\ edges' = {} /\ dedup' = {}
    /\ pc' = "query"
    /\ UNCHANGED <<input, prepared, now, search, results>>

\* The edges of a source are collected from dedup_map.
EndSource ==
    /\ pc = "query" /\ starts = <<>>
    /\ dag' = IF job = "local" THEN dag \cup dedup ELSE dag
    /\ pc' = "source"
    /\ UNCHANGED <<input, prepared, caller, now, search, scratch, arrivals, profile>>

Init ==
    /\ tt \in Timetables /\ job \in {"local", "profile"}
    /\ pc = "initial" /\ transfers = <<>> /\ turned = FALSE
    /\ \/ job = "local" /\ sources = SetToSortSeq(tt.hubs, <)
       \/ job = "profile" /\ sources \in {<<s>> : s \in Stops}
    /\ source = 0 /\ starts = <<>> /\ now = 0
    /\ labels = NoLabels /\ seeds = <<>> /\ stack = <<>>
    /\ walks = {} /\ edges = {} /\ dedup = {}
    /\ arrivals = [s \in Stops |-> Infinity] /\ dag = {} /\ profile = [s \in Stops |-> <<>>]

Done == pc = "source" /\ sources = <<>>

Next ==
    \/ ComputeInitialTransfers \/ RemoveUTurnTransfers \/ RefineTransfers
    \/ NextSource \/ StartQuery \/ TakeSeed \/ Propagate \/ ReadOff \/ Answer \/ EndSource
    \/ Done /\ UNCHANGED vars

Spec == Init /\ [][Next]_vars

-------------------------------------------------------------------------------
(* Journeys, by their definition. *)

WalkTime(a, b) ==
    IF a = b THEN 0 ELSE IF <<a, b>> \in DOMAIN tt.walk THEN tt.walk[<<a, b>>] ELSE Infinity

\* Where each trip can be boarded after n transfers by someone who is at stop s
\* at this time, and the earliest arrival at stop q so, with a walk at the end.
Boardable(s, time) ==
    LET all == {<<u, k>> \in Trips \X (1..LongestPattern) : k \in DOMAIN Calls(u)}
        board[n \in 0..MaxTransfers] ==
            IF n = 0 THEN {b \in all : time + WalkTime(s, StopAt(b[1], b[2])) <= Depart(b[1], b[2])}
            ELSE LET before == board[n - 1]
                 IN  {b \in all : \E a \in before : \E i \in a[2]..Len(Calls(a[1])) :
                         Arrive(a[1], i) + WalkTime(StopAt(a[1], i), StopAt(b[1], b[2]))
                            <= Depart(b[1], b[2])}
    IN  board

Journey(board, s, time, q) ==
    Min({time + WalkTime(s, q), Infinity} \cup
        UNION {{Arrive(b[1], i) + WalkTime(StopAt(b[1], i), q) : i \in (b[2] + 1)..Len(Calls(b[1]))} :
               b \in UNION {board[n] : n \in 0..MaxTransfers}})

\* No trip waits at a stop.
NoWaiting == \A p \in DOMAIN tt.patterns : \A k \in DOMAIN tt.patterns[p].dwell : tt.patterns[p].dwell[k] = 0

\* The trips of every pattern stand in the order of their times.
InOrder ==
    \A p \in DOMAIN tt.patterns : \A t \in 2..Len(tt.patterns[p].starts) :
        tt.patterns[p].starts[t - 1] <= tt.patterns[p].starts[t]

\* Two walks are never shorter than one.
WalksClosed ==
    \A a, b, c \in Stops :
        WalkTime(a, b) + WalkTime(b, c) < Infinity => WalkTime(a, c) <= WalkTime(a, b) + WalkTime(b, c)

-------------------------------------------------------------------------------
\* A label is a stop where the trip can really be boarded after so many
\* transfers, by someone who leaves the source at the time asked for or later,
\* when no trip waits at a stop.
LabelsAreReal ==
    pc \in {"search", "answer"} /\ NoWaiting =>
        LET board == Boardable(source, now)
        IN  \A n \in 0..MaxTransfers, u \in Trips :
               labels[n][u] # NoLabel => <<u, labels[n][u].at>> \in board[n]

\* The arrivals of a query, and a walk at the end, are as early as any journey's,
\* though three passes threw transfers away, when trips stand in order and do not
\* wait, walks are closed, no transfer was taken for a U-turn and no hub cuts.
ArrivalsAreEarliest ==
    pc = "answer" /\ NoWaiting /\ InOrder /\ WalksClosed /\ ~turned /\ (job = "local" \/ tt.hubs = {}) =>
        LET board == Boardable(source, now)
        IN  \A q \in Stops :
               Min({arrivals[s] + WalkTime(s, q) : s \in Stops} \cup {Infinity})
                  = Journey(board, source, now, q)

\* The edges a query returns lead from the source to every stop at which an
\* optimal active journey ends.
EdgesLead ==
    pc = "answer" =>
        LET lead[n \in 0..(2 * Cardinality(Stops))] ==
                IF n = 0 THEN {source}
                ELSE LET before == lead[n - 1]
                     IN  before \cup {e.to : e \in {d \in edges : d.from \in before}}
        IN  {s \in Stops : \E a \in Frontier(s) : ~a.off} \subseteq lead[2 * Cardinality(Stops)]

\* What a query finds from a hub is collected for the local transfer patterns.
EdgesAreCollected == pc = "source" /\ job = "local" => edges \subseteq dag
===============================================================================
