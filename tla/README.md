# Formal model of catenary-backend

TLA+ modules that model the distributed core of catenary-backend, TLC runs that
check them on small instances, and theorems about them that TLAPS proves for
every instance. Line numbers refer to the repository; Rust files are under
`src/src/` here (`src/` being the root of the repository).

## 1. The system

Catenary Backend serves transit schedules and realtime data. Its processes share
state through Postgres, etcd and RPC (tarpc):

    agencies --HTTP--> Maple ----------> Postgres <------- Birch (HTTP API)
    agencies --HTTP--> Alpenrose --RPC--> Aspen <---RPC--- Birch, Spruce
                          |                |
                          +----- etcd -----+---- aspenleader

| Component | State it keeps | Operations | Modelled by |
|---|---|---|---|
| Aspen worker (`aspen/main.rs`, `async_threads_alpenrose.rs`, `import_alpenrose.rs`, `persistence.rs`) | header timestamps, raw messages per feed and type, queue of chateaux and the set of marked ones, datasets, START_TIME, LAST_SAVE_TIME, files on disk, an etcd lease | `from_alpenrose_compressed`, processing tasks (`new_rt_data`), save, load at start, lease renewer, lookups over RPC | `AspenIngest`; what `new_rt_data` computes and the lookups in `AspenData`; registration in `AspenAssign` |
| aspenleader (`leader_thread.rs`, `aspen_assignment.rs`, `spawn_leader.rs`) | a lease, an election key, caches of workers and chateaux | election, assignment rounds | `AspenAssign`, `AspenDirectory` |
| Alpenrose (`alpenrose/main.rs`, `leader_job.rs`) | a lease, election key, local assignments, hashes of the last deal | main loop, election, leader job, refresh | `AlpenroseAssign` |
| Alpenrose fetching (`single_fetch_time.rs`) | last fetch times, 429 log, response hashes | fetch, lookup, send | `AlpenroseFetch`, `Relay` |
| Maple (`maple/`) | Postgres tables of attempts, production flags, objects, chateaux | download, ingest, assignment of production tables, cleanup, change of chateau | `Maple`; what it computes of a timetable in `Timetable`, the order it is written in in `StaticImport` |
| Birch (`birch/`) | none between requests | endpoints; the realtime map looks up a worker in etcd and asks it; the departures of a stop and the page of a trip join tables of Postgres and updates of Aspen | `BirchLive`, `Relay`: the realtime map; `DepartureBoard`: the departures; `TripPage`: the page of a trip |
| Gentian (`gentian/`) | files of partitions; transfers and scratch space of a job | partitions, trip-based queries, transfer patterns | `TripBased`: routing in a partition |
| Harebell (`harebell/`) | the graph of lines, orders settled, results | load, untangle, cut, contract, order, draw | `LineGraph`, `LineOrder`, `Harebell` |
| Spruce, Edelweiss, Avens, Globeflower, Linnaea, OSM import, utilities | mostly read-only or batch | see `PROJECT.json` for each | not modelled, section 9 |

What is hard in this code, and what the properties are for:

* Request handlers and processing tasks of Aspen are tokio tasks that share
  concurrent maps without a common lock. Timestamps, raw messages and queue are
  updated at different awaits, and tarpc may drop a handler at any of them.
* A leader's round or job is a long series of etcd requests. Leases of workers
  and of the leader itself end in the middle of it, and nothing fences the writes
  of a leader that has lost its lease.
* Nothing but the end of a lease deletes a key; a failed put is printed and
  forgotten; the hashes that decide whether to deal again are saved first.
* `campaign` blocks, and the only renewals of a lease are in the loop it blocks.
* Maple deletes and marks rows in several steps that may fail separately, and two
  of its processes may work on one feed.
* Birch leaves out of an answer what the client already has, by a stamp and the
  tiles the client names, while the chateau moves between workers.
* A request for departures reads seven tables in two tasks, without a transaction and
  without naming an attempt, while Maple inserts and deletes attempts; service dates
  are reckoned without the start of a trip, and guessed for updates without one.
* Aspen makes a dataset anew from the last messages, and takes from the one before what
  the messages no longer say (stops passed; updates in the grace period). Delays need a
  service date that may have to be guessed, on clocks that change.
* The page of a trip reads its attempt first and the itinerary, calendars and route after it,
  which an import writes one by one. It picks one of several updates, applies modifications one after
  another, and is cancelled by alerts that were joined over all feeds; each is a query
  of its own, with messages and imports in between.
* Gentian removes transfers in three passes, each correct on its own terms, and
  shares scratch space between queries.
* Harebell rewrites one graph by eight rules and three passes, whose adjacency and indexes
  the next rule has to find right; a greedy pass, a climb and an integer program count
  the same crossings in three ways, on edges that run in either direction.

`PROJECT.json` lists these as hazards, at their lines, with the properties that
would catch each going wrong. What makes each component correct:

* Aspen worker: one task per chateau; marks mean work; what is served follows
  what was received, never backwards; a marked chateau is processed.
* Aspen assignment: whoever looks up a worker finds a live one; one elected
  leader deals at a time; the keys end up as dealt.
* Alpenrose: nothing outlives its lease; one elected worker deals; each feed ends
  up fetched by the worker it is dealt to.
* Alpenrose fetching: the Aspen worker a chateau ends up with is given every
  feed's last message.
* Birch: the client's map is of one dataset, and ends up showing the last messages.
* Departures: the calls of the timetable and no other; the update of a run and of no
  other; an import neither hides what stays nor makes requests fail.
* Aspen's dataset: the delay of an update is that of its run; stops passed stay.
* Page of a trip: every stop at its time; the update of its own run; cancelled if and
  only if the update or an alert says so.
* Maple: one whole attempt per feed is on the map and stays there while it is
  replaced; what is marked ingested was shown; rows of dropped attempts go; the
  tables end up as files and repository say.
* Gentian: labels are journeys; arrivals are the earliest; the edges lead there.
* Harebell: lines keep their stretches and go on where they did, until they are strokes of
  the map; no edge alone can be ordered with fewer crossings; the strokes of a route are
  joined at its nodes.

## 2. Modules

| Module | What it is |
|---|---|
| `AspenIngest` | one Aspen worker from request to served dataset |
| `AspenDirectory` | abstract: what readers of the assignment keys rely on |
| `AspenAssign` | etcd, Aspen workers and aspenleaders; implements `AspenDirectory` |
| `AlpenroseAssign` | etcd and Alpenrose workers |
| `Maple` | Postgres, one run of Maple after the other, `delete-stale-attempts` |
| `AlpenroseFetch` | the rounds of Alpenrose workers that fetch and send |
| `BirchLive` | the realtime map of Birch and its client |
| `Relay` | `AlpenroseFetch`, `AspenDirectory` and `BirchLive` around Aspen workers |
| `Calendars`, `Timetable` | operators: service dates and local time; what Maple makes of a timetable |
| `StaticImport` | the tables of a feed while Maple inserts and deletes attempts; EXTENDS both |
| `DepartureBoard` | the departures of a stop in Birch, while Maple imports; EXTENDS `StaticImport` |
| `AspenData` | what Aspen makes of the messages of a chateau, and its lookups; EXTENDS `StaticImport` |
| `TripPage` | the page of a trip in Birch, over the tables and Aspen; EXTENDS `AspenData` |
| `TripBased` | Gentian's trip-based routing in a partition |
| `LineGraph`, `LineOrder` | operators: the rules that take Harebell's graph apart; how the lines of an edge are ordered |
| `Harebell` | the loader, optimizer and drawing of the map of lines; EXTENDS both |
| `MCAspenIngest`, `MCAspenAssign`, `MCAlpenroseAssign`, `MCMaple`, `MCRelay`, `MCDepartureBoard`, `MCTripPage`, `MCTripBased`, `MCHarebell` | values of the constants for TLC |
| `AspenIngest_proofs`, `AspenAssign_proofs`, `AlpenroseAssign_proofs`, `Relay_proofs`, `Maple_proofs` | theorems |
| `StaticImport_proofs` | theorems about dates, lemmas about numbers, ranks, folds and the rows that win |
| `DepartureBoard_proofs`, `TripPage_proofs` | theorems; both EXTEND `StaticImport_proofs` |

Operators named `...Mut` are plausible bugs of the operator that follows them.
They belong to no specification; each property has one that violates it.

### AspenIngest

`timestamps`, `store`, `data` and `disk` are functions of (feed, type): the
concurrent maps of `AspenServer` and the files. A message is the version of the
feed it carries, 0 for none; its header timestamp is that version, except for the
feeds of `AlwaysNew`, which have none or contain "unwire" (for those only the
outcome "new data" matters, so `timestamps` is not tracked). `AlwaysWritten` and
`AlwaysQueued` are the chateaux the code names (Dallas, Fort Worth; those and
Santa Cruz). Metadata of a task other than its chateau is left out: it does not
change what is read.

* Handler: `Receive`, then for each type that is there `Compare` and `Stamp`
  (`contains_new_data`, `save_timestamps`), `StoreRaw` for each, `Enqueue` under the
  lock of the set, or the end when nothing is new. `Cancel` is tarpc dropping the
  handler at one of its awaits, which are those of the raw store and of the lock.
* Task: `Steal`, `Begin` (START_TIME, previous data), `ReadRaw` for each key,
  `Serve` (the grace merge and the replacement), `Save`, `Clear`. `Fail` is an error
  of Postgres, `Panic` a panic after which the task is respawned. `new_rt_data` goes
  over the feeds several times; the pass that decides what is served is modelled.
* `Crash` starts a new process that loads `disk` and nothing else.
* `lostWake` is a history variable: chateaux for which data came and no task was
  queued, or a task gave up, since the last one began.

### AspenAssign and AspenDirectory

etcd is four sets or functions: `lease`, `registered`, `chateauKey`, `feedKey`, and
`candidates` with `ahead`, the election keys older than one's own. External
behaviour of etcd used: a key goes with its lease; a put or campaign with an unknown
lease fails; `campaign` returns when no older key is left; `leader` with no
candidate answers an error, which the code treats as a failed request, so the
branch with an empty answer is the same step. The renewal of a lease that is gone
is an error.

A worker: `WorkerGrant` and `WorkerRegister` at its start; later, when its renewal
is refused (`WorkerRegrant`) or fails (`RenewalFails`), the renewer grants the
same id and puts the key again. It does so once: a put that is lost
(`RegisterFails`) leaves a live worker without a key until a renewal fails again.
`WorkerCrash` ends it. A leader goes through `Grant`, `AskLeader` (or `AskFails`),
then `Campaign` and `CampaignReturns`, or a round, then `KeepAlive`; every request
of a round is a step: `ReadCatalog`, `ReadWorkers`, `ReadChateauKeys`,
`ReadFeedKeys`, one `Put` per differing key in the code's order, `Finish`, then
`Renew`, whose error ends the process. `Abort` is an error in a round. The last
renewal of the loop and the compaction at the end of a round only print or return
their errors.
The end of a lease is `WorkerLeaseExpires`/`LeaderLeaseExpires` where nobody renews it
and `...Lapses`, a bounded fault, elsewhere.

`AspenDirectory` says only: workers join and leave, an entry is given to a live
worker, and goes only with its worker. `ImplementsDirectory` is
`INSTANCE AspenDirectory WITH live <- lease`; the other variables have the same names.

### AlpenroseAssign

The same election; one process is worker and candidate. `stamp` is the time stamp
key of a worker as the worker sees it: absent, known, or new. Hashes are the values
hashed. The loop: `Register`, `AskLeader`, `Campaign`..`AskAgain` or the leader job,
`Refresh`, `ReadAssignments`, `Fetch`. The job: `ReadMetadata`, `DealChanged` /
`DealAnyway` (one time in ten) / `SkipDeal`, `ReadExisting`, `PutAssignment`, `PutStamp`,
`FinishDeal`. A failed put is passed over. `Exit` is every `?` of `main` and every
crash, `GoOffline` the revocation. The feeds of one worker are put in any order
(a HashMap), the workers in order (a BTreeMap).

### Maple

Tables are groups (`agencies`, `shapes`, ... `feed_info`) in the order
`gtfs_process_feed` inserts into them; the rows an attempt has in a group are one
value, the chateau in them. `ingested` is `static_download_attempts`, `order` is
`ingested_static` (the undeleted attempts of a feed, oldest first), `shown` are
the attempts with `allowed_spatial_query`.

* A run: `StartRun`, downloads per feed (`DownloadFeed`, `CopyCached`,
  `DownloadNothing`), `LogDownloads`, `RefreshChateaux` and `MoveFeed`, `Unpack`, one
  task per feed under the semaphore, the end of the feeds that are gone (`WipeGone`),
  a second refresh.
* A task: `ContentsExist`, `SkipFeed` or `WipeBefore`/`KeepBefore`, one `Insert...` per
  group, `MarkDownload`, `RecordAttempt`, `AssignProduction` (the one transaction),
  `DropAttempt`, or `MarkFailed` and `DeleteFailedAttempt`.
* `StaleStart`..`StaleDelete` are the other process; `Crash` ends the run; a statement
  may fail wherever the code has a query.
* History: `showed` (zips once in production), `parted` (zips marked whose task was cut
  off before that, or whose contents another feed had), `torn` (attempts reached by
  a wipe or by `delete-stale-attempts`), `swung` (feeds given another chateau when half
  moved).

### AlpenroseFetch, BirchLive and Relay

`AlpenroseFetch`: `todo` are the feeds of a round that have not started, `task` what
each started one does: `Fetch`, `Respond`, `LookUp`, `Send`, each an await. A clock is
what it is compared with: `due`, and `log` (no 429, one within ten seconds, an older
one). `Hashed` is the table of response hashes as `cleanup_response` keeps it: replaced
where there is one, never put.

`BirchLive`: a request goes from `Ask` (client) to `LookUpChateau` (etcd), `AskAspen` and
`Apply` (client). `kind` is the protocol: `TilesAnswer` is `bulk_realtime_fetch_v3`,
`WholeAnswer` is `get_realtime_locations`. A dataset is the message of each feed with a
stamp; `Vehicles` and `Routes` say which part of it a tile and the routes are. The
client is external and does with an answer what its fields say: `replaces_all` clears
the map, a tile in the answer replaces that tile. Stamps are taken to differ: they
are wall-clock milliseconds of the worker.

`Relay` has both and, of Aspen, what `AspenIngest` shows: a message that differs from
the last is stored and queues the chateau (`AlpenroseFetch!Receive`), and some time
later a dataset is built from what is stored (`Process`). The keys are those of
`AspenDirectory`; `Deal` is a leader that goes on until the chateau and its feeds are
with one worker (`EventuallyBalanced` of `AspenAssign`), `MoveKeys`, `Stop`, `Reassign` and
`Fault` are events. A worker that comes back serves the dataset of its disk; a crash
before the save is in `AspenIngest` only.

### Calendars, Timetable, StaticImport and DepartureBoard

`Calendars`: instants are seconds, dates count days, a zone is its offset before and
after one change of an hour at most, made at night. `Midnight` is 12 hours before noon,
as `find_service_ranges` has it. `Examined` and `Guessable` are not code: they say which
departures the dates looked at are sure to hold, and which undated updates can be
guessed; the theorems prove both, and the properties use them as their conditions.

`Timetable`: `MinimumDayFilter` drops services and their trips, `Reduce` makes an
itinerary of each trip (its stops relative to its start), `Pattern` its stops and route.
The meta and the rows of a pattern come from two of its itineraries that hash maps
pick; `Picks` are all choices. Names of stops are their ids, joined headsigns the
sequence of their parts.

`StaticImport` starts with a case: feeds of up to two attempts and a zone; the modules that
extend it add to the case what they read. `Insert` and `Delete` go through the tables in the
code's order (`InsertOrder`, `DeleteOrder`), the routes after the trips that run on them; `InsertFails` and `Stop` end an import or a
deletion early. In `DepartureBoard` a case also has a
request and the updates and suspensions of Aspen. A request is one `Read` per table, in any order `KeysFrom` allows,
`ReadFails` where a failed query counts as no rows, `NoConnection` where the pool's error
is unwrapped, and `Answer`, with or without each answer of Aspen. The routes are not among its tables
(`BoardTables`): the board takes names and the zone of an agency from them. A table is the set of
attempts with rows in it; where rows of two attempts have one key, `Orders` and `Winner`
say that any of them may stay. `Runs` are trips on dates, `EventOf` a call: times,
update, last stop, headsign. `harm` is a history variable: rows were deleted while
the request ran, or one of its queries failed. An itinerary's id is a hash with keys of
the process, other in each attempt; the id of a pattern is the same in all.
`FeedsAssumption` says what feeds are: trips are lists of stops whose times do not go back behind their start
(`IsTrip`), and the day of the filter is a number. `CasesAssumption` adds what `DepartureBoard` reads: a
window ends after it begins, and what an update says of its run (start, and date if it gives one) is so.

### AspenData and TripPage

`AspenData`: `Receive` is a message of a feed in the raw store, which starts a task. A task
makes a pass per feed: `LookUp` (trips mentioned by the feeds up to this one, of which
those in the cache are not read again), a `Join` per table, `Pass`, which reads the messages
of all feeds, adds them to `draft`, and in the last pass works out the delays of vehicles,
merges the grace period and puts the dataset in place (`served`). `TaskFails` is an error of
Postgres, `GrowOld` the end of the grace period. A delay is a set with at most one value.
`CompactTime` keeps 24 bits of a time as `CompactDelayTime` does. `made` is history: the
messages a dataset comes from; and a `run` in an update is the run the agency means,
which no code reads. The stops an update keeps are those before (`StopsBefore`, if one update of the
trip has the descriptor: `OfTheRun`) that the new ones do not name, then the new ones.
`MessagesAssumption` says that messages are lists of entities with their fields, and no more;
`QueriesAssumption` of `TripPage` that dates and starts asked for are numbers.

`TripPage`: `Open` (the compressed trip), a `JoinPage` per table (`PageTables`: itinerary, calendars,
routes), `Schedule` (not found without a row of the route or of the meta; date meant,
stops at their times), `AskUpdates`, `AskModification` with `Modify` for each change and
`UpdateStop` for each entry of the update, `AskRouteAlerts`, `AskTripAlerts`, `Finish`. A trip
that is in no table goes from `Open` to its updates, as `fetch_realtime_only_trip` does, and from
its alerts to `AskRoute`, for the route its update names.
`QueryFails` is a query that fails, of the tables or of Aspen. Stops that replace others
are worked out in the code and then dropped (the response uses a vector nothing is ever
put into), so that they are not modelled. While no import is under way the queries that run side by side are
read in one order, which makes no difference.

### TripBased

A timetable is a record: patterns (stops, travel times, dwell times, and the start
of each trip in the order Postgres returned them), walks between stops, hubs. The
three passes are one action each, sequential as in the code: `ComputeInitialTransfers`
with the refinement within it (`Kept`), `RemoveUTurnTransfers`, `RefineTransfers`. A query
is `StartQuery` (labels, seeds), then one step per seed and per stack entry (`TakeSeed`,
`Propagate`) and `ReadOff` (arrivals, edges). `NextSource` and `EndSource` are
the local job of `connectivity.rs`, `Answer` and `Departures` the profile search. The
reference is `Boardable` and `Journey`: all trips that can be boarded after n changes,
without any transfers computed beforehand.

### LineGraph, LineOrder and Harebell

A graph has edges (id, ends, points, lines) and nodes (points on a grid). A line is a
chateau and a colour (`LineId`), of which an edge may have several routes, while slots of the map go by
colour alone; `Collapsed` bundles those that run
together into a super-line, and `Unbundled` undoes it. Each rule of `optimizer.rs` is an
operator with the graphs it may make of one (a set where the code walks a hash map):
`DoubleStump`, `OuterStump`, `InnerStump`, `FullX`, `FullY`, `PartialY`, `DogBone`,
`PartialDogBone`, `CutSingleLines`, `Detached`, `Contracted`. `Harebell` runs them in rounds: `Untangle` is the
first rule that applies, `Cut`, `Detach` and `Contract` the passes, `EndRound`. Then
`FindComponents`, `NextComponent`, `Settle` (greedy), `Climb` and `EndClimb`, or `Solve`, and
`Apply`. `Solutions` are the optima of the integer program by its objective: the solver is
external, and any optimum may be returned. `Strokes` and `Connections` are what
`tile_gen.rs` draws. Angles are compared on the grid, points are exact. `harm` is history:
"mixed" when a rule moved a leg with lines of its own, "flipped" when a Y kept its points reversed; so is
`shared`, the edges that are in several parts of a split component. `Shown` is what the map shows
of an edge: before `Apply` its lines and those of its super-lines, at the end its strokes.

## 3. Runs

| Run | Checks | States |
|---|---|---|
| `IngestSafety` | `MarkIsALock`, `FreshUnlessLost` | 1.8 M |
| `IngestServed` | `ServedMonotone`, `GraceKeepsTrips`, `MarkedIsServed`, `UntimedFeedsConverge` | 480 k |
| `AssignSafety` | `KeysHaveLiveLease`, `OneElectedRound`, `ImplementsDirectory` | 1.7 M |
| `AssignLive` | `EventuallyBalanced`, `EventuallyRegistered` | 840 k |
| `Alpenrose` | `NothingWithoutLease`, `OneElectedJob`, `EventuallyFetched` | 480 k |
| `Maple` | `OneOnTheMap`, `MapIsComplete`, `MarkedWasShown`, `NoOrphans`, `StaysOnTheMap`, `EventuallyMarked`, `ChateauxSettle` | 640 k |
| `TripBased` | `LabelsAreReal`, `ArrivalsAreEarliest`, `EdgesLead` | 150 k |
| `TripBasedEdges` | `EdgesAreCollected`, violated | 89 k |
| `DepartureBoard` | `BoardIsExact`, `CommonStaysListed`, `FailsOnlyWhenHarmed`, `RealtimeIsOfTheRun`, `VisitIsDescribed` | 1.1 M |
| `Trips` | `PageIsWhole`, `RunIsShown`, `DelayIsOfTheRun`, `CancelledIsSaid`, `PastStopsStay` | 530 k |
| `Harebell` | `LinesAreKept`, `NoNeedlessCrossing`, `TurnsAreDrawn` | 24 k |
| `Relay` | `MapIsOneDataset`, `OwnerIsFed`, `EventuallyShown` | 440 k |

`CHECK_DEADLOCK FALSE` stands where all processes may end: `AssignSafety` (both
leaders and workers crash) and `Alpenrose` (every worker may exit), and in `DepartureBoard`, `Trips`
and `Harebell`, which end with their request, messages and import, or with the map. Types are
proved (section 7).

What the runs show beyond "it holds":

* Served data lags behind received data only where `lostWake` says so: a message
  that arrives while its chateau is being processed does not queue another task. A
  feed with timestamps that then falls silent stays stale; a feed without them is
  healed by its next fetch (`UntimedFeedsConverge`).
* `ServedMonotone` needs one request per feed at a time (`Overlap = FALSE`). Alpenrose
  waits for the answer of a feed before it fetches again, so this is the normal
  case; two Alpenrose workers with one feed (next section) break it.
* `EventuallyRegistered` needs the one put of the renewer to get through
  (`AssignLive` has no lost requests): the renewals of a worker whose put was lost
  succeed, and nothing puts its key again.
* `MarkedIsServed` needs no panics (`IngestServed` has crashes and dropped handlers only): one panic leaves the chateau marked for ever,
  which the second half of `MarkIsALock` states.
* `MapIsComplete` and `StaysOnTheMap` except attempts that `delete-stale-attempts`
  reached: it reads the attempts to keep, and takes rows of one that an ingest
  records later. `MarkedWasShown` excepts zips whose task was cut off between mark
  and production: the next run takes them for done. It also excepts a feed whose
  contents another feed has already: the task skips it and marks it.
* `ChateauxSettle` excepts a feed that is given another chateau when half moved: given
  back to the first one, nothing looks wrong in `static_feeds`, and its rows stay mixed.
* `OwnerIsFed` holds because no hash is ever kept. If responses were hashed as
  `alpenrose/README.md` says, a worker that takes over a chateau would not get what did
  not change since (the mutant `HashedMut`).
* `BoardIsExact` is stated for departures that are `Examined`: a trip is looked up on
  dates reckoned from its last row at the stops, so one that serves two stops of a
  request many hours apart may lose a date. A loop or a line within a day is safe.
* `CommonStaysListed` needs a service with the same name and dates in both attempts (of two
  services, one may end up with the calendar of the other, and be in neither of its own). Its
  calendar is put together from rows of both, and the exceptions of the new one are
  inserted after its days: in between, calls of a service that changes may be missing,
  though both timetables have them.
* `FailsOnlyWhenHarmed` rests on the meta and the rows of a pattern being written by one
  transaction before the trips (the mutant `InsertOrderMut`). While an attempt is
  deleted, requests do fail: rows of patterns go before their metas.
* `RealtimeIsOfTheRun` excepts trips of which some updates give a date and some do not:
  the first one decides for all, and the others are matched to another run or none. A trip
  that does not repeat has one run on a date, whatever start the update gives.
* `VisitIsDescribed` needs stops that come once, or sequence numbers that count from
  0: with numbers from 1, a loop shows its last stop as one before, or no headsign. A
  headsign comes from another itinerary of the pattern, so it also needs that they
  agree. A stop without a headsign of its own, in a trip that has several, shows none;
  the only headsign of all stops is not shown where the trip has one.
* `DelayIsOfTheRun` needs messages with a stamp: times are kept relative to it, and without
  one a stop time is lost or garbled. An update without a date needs a run that is less
  than half a day late; one with a date may be six hours early at most. A trip that repeats
  is reckoned from its first start and is left out.
* `PastStopsStay` needs one update of the trip with the descriptor. When the id of its
  entity changes in the grace period, both stay under one descriptor and the stops passed
  are lost. An update without a trip is kept and listed nowhere.
* `SameService`, on which guessed dates rest, is about all attempts that have the service of the
  trip, with the trip or without: calendars are read by service, so the days of an attempt that has
  lost the trip count, and may hide every date it has in the other.
* `RunIsShown` says nothing where no update is of the run: the page then shows the only
  update of the trip, or the first, on whichever date was asked for, and takes its status.
* `CancelledIsSaid` excepts alerts joined through a third: the joined alert has all periods
  and all entities, and so cancels runs that none of them cancels. It is stated for pages
  without a modification, which changes the first and last stop the period is compared to.
* `PageIsWhole` excepts a trip on a route that the attempt before did not have: the trips of an import are
  committed before its routes (`gtfs_process.rs:1612`, `1866`), so that a page in between is "Route not found"
  though the trip has a date. Where the old attempt has the route, its row serves.
  It also needs changes with an end, one behind the other. Without an end the stop a
  change starts at is gone and not listed; an end two stops or more before the start
  makes the handler panic, and so does a stop before it without times. Nor may the delays bring a
  time to before 1970 (`AreAfterEpoch`): `get_vehicle_trip_information.rs:1783` adds a delay
  cast to `u64` to an unsigned time, which wraps.
* The comment at `maple_syrup/mod.rs:104` wants arrival times at the first and last
  stop; the code asks for the departure at the last one.
* `ArrivalsAreEarliest` holds under five conditions, each of which is needed (without
  any one of them TLC finds a later arrival): no trip waits at a stop, because a
  traveller who boards a waiting trip can change as if at its arrival, before they came; trips of a pattern stand in
  order, because `compute_initial_transfers` searches them by halves; walks are closed;
  no U-turn was removed, because the change one stop earlier that justifies it may
  have gone in an earlier pass; and for `profile`, no hubs, which end a label.
* `LinesAreKept` follows lines from the loader to the strokes of the map. No line loses a stretch or
  gains one; a Y whose stem runs towards its fork may be drawn twice. Lines go on where they did
  only until a rule moves a leg whose other lines go on elsewhere: rules 4 to 7 do not look at
  those and tear them. And a super-line that is alone on its edge keeps one stroke, in the
  colour of its first line: only edges with two lines are ordered, and only those that were are
  un-bundled (`optimizer.rs:86-92`, `285-303`). Two lines that share their whole path, with no
  third, are such a case: one of them is not drawn (`Shown`).
* `NoNeedlessCrossing` counts on the drawn map, on the strokes: two lines that both go on from an edge to
  another cross if they are the same way round on both, seen from the node. That is the same whether
  the first line is drawn left or right, so the property does not depend on which of the two the
  optimizer means. It says that no other order of one edge has fewer of them, with two exceptions:
  members of a bundle, which come in one order on every edge and do cross where edges run opposite
  ways, against the comment at `optimizer.rs:292` ("they don't cross each other"); and edges beside one that
  is in several parts of a split component, of which the part ordered last decides
  (`global_results.extend`), while the others were ordered against what it was before.
* Where two lines part, sides do matter, and no property is about it, for the code disagrees with
  itself: the comments at `optimizer.rs:705-714` take the first line for the left one ("A is Left/Low Index"), the
  oracle variable is 1 for the opposite of what they say (`387-405`), so that solver and greedy pass agree on the
  first line at the right, and the tiles draw it at the left (`tile_gen.rs:205-209`). Forks come out
  mirrored: the lines cross just before they part.
* `TurnsAreDrawn` excepts two turns that are lost: one to a slot behind another that matches as well,
  because only the first match is drawn (`tile_gen.rs:719-748`), as where two chateaux of one colour share a
  slot on one edge and not on the next; and one between a super-line alone on its edge and its
  lines where they were un-bundled, whose names differ. Each exception of these three is needed:
  without any one of them TLC finds a map that violates the property.

Seen while modelling, and no property is about them: `alpenrose/README.md:45` says assignments
need no cleanup because of leases, but a feed dealt to another worker stays under the live worker
that had it, which keeps fetching it; the keys of chateaux and feeds removed
from Postgres stay while their worker lives (`aspen_assignment.rs:165`); a second 429 of a
feed does not start a new pause, as `insert_async` keeps the first (`single_fetch_time.rs:329`,
`Log429`); attempts are recorded without the dates the choice between them reads
(`maple/main.rs:844`).

Also seen, of the campaign: the loser of a start-up race of Alpenrose waits in `campaign` for as
long as the winner lives, without renewing its lease (`alpenrose/main.rs:270-282`). Of Aspen's
datasets: trips in the cache are those of an attempt that may have been deleted since; the
scheduled trips of a later feed are unscheduled in the passes of the feeds before it
(`import_alpenrose.rs:1171-1182`); with several feeds, an update is in the index by trip once
for each pass, so that a vehicle needs equal date and start; an update kept in the grace
period whose trip is also its affected trip is listed twice; two feeds of a chateau with the
same entity id overwrite each other. Of the page of a trip: modifications are asked for only
when an update was found; replacement stops are never shown
(`get_vehicle_trip_information.rs:1605-1816`); the page of a trip without a schedule never says
it is cancelled and reads dates as `%Y%md%d` (line 872). Of Harebell:
restrictions are keyed by edge indexes that are reused after the graph has changed.

## 4. Findings

* `TripBasedEdges`: the comment at `gentian/connectivity.rs:928` says "scratch.dedup_map
  contains the edges", but the query has drained that map into `result_edges`
  (`trip_based.rs:1448-1451`): the local job collects no edge.

## 5. Bounds

* Ingest: one chateau, one feed, two versions, one fault of each kind, two tasks;
  two handlers with one type (`IngestSafety`) or one handler with two types
  (`IngestServed`). Two handlers and two tasks are enough for every pair of steps the
  properties speak of; two versions for old against new; two types for the order
  within a message and for the trip updates of the grace period.
* Assign: two leaders, two workers, two chateaux of which one has a feed and the
  other may be missing: the fewest with which a round robin moves a chateau.
  `AssignSafety` takes one fault of every kind but changes of Postgres, `AssignLive` one lapse of a worker, one
  of a leader and one change of Postgres.
* Alpenrose: two workers, two feeds of which one may be missing or have other
  instructions, one fault of each kind (ending, lapse, lost request, change).
* Maple: two feeds (apart, with one URL, or one gone), three zips of which one is
  broken, three attempts of a feed at a time, two threads; each kind of event
  happens once, and any two kinds in one behaviour (`Together`; a crash only with a
  change of the repository, which gives a feed another zip and another chateau). Two feeds are enough for equal contents and
  for the limit of threads; a third attempt exists only while one is dropped.
  `StaleTables` makes `delete-stale-attempts` delete from five groups at a step, so that
  an ingest meets it between two steps and not between nine.
* DepartureBoard: one feed, one request, one import. Four families of cases, about 2000
  in all: two trips in four zones (no change, an hour forward, back, and west of UTC on
  the day), starting at 8:00, 25:30 or 47:00, of 1 or 14 hours, repeated or not, with
  three calendars, three windows (2 hours to 4 days) and three sets of stops; updates with
  and without dates, of one or two runs, cancelled, deleted, partial; loops and lines
  with and without headsigns, numbered from 0 or 1; and imports of seven timetables over
  an old one, with and without faults. Two attempts are the most a feed has rows of
  without an earlier fault; two trips of one pattern are enough for a wrong pick.
* Trips: one trip, one or two realtime feeds, up to three messages, one page, one import.
  About 950 cases in eleven families: runs at 2:00, 8:00 and 25:00 of 1 or 9 hours in four
  zones, early, late or eight hours late, told before or under way, with and without dates;
  loops numbered from 0 or 1; two updates of two dates, in either order, cancelled, deleted,
  or under another trip; repeated trips; series of messages that lose stops or the update,
  with the grace period ending in between; vehicles; imports of seven timetables over the old
  one, among them one that gives the trip a new route; alerts with five sets of periods and of entities, alone, in pairs and threes;
  modifications with ten lists of changes; two feeds; trips of no timetable.
* TripBased: 810 timetables of four stops and up to three patterns of up to three
  stops and two trips, with and without walks, dwell times, trips out of order and
  hubs; up to two transfers; both callers.
* Harebell: 714 networks of two shapes (two forks end to end; three in a row), three or
  four routes, edges stored either way, doubled routes, one colour for two routes of one chateau or of two, forbidden turns:
  the smallest on which each rule and each way to order applies. `MaxRounds` and `MaxPasses` (10) are
  never reached; `SplitSize`, `SmallSpace`, `LargeSpace` and `LargeComponent` are scaled to graphs of
  seven edges so that components are split, climbed and solved.
* Relay: one chateau with one feed, two messages, two fetchers, two Aspen workers,
  three tiles of which the client sees two, and one event (move, restart, lost
  request, reassignment); `MapIsOneDataset` is proved for any number of each.
* `MaxVersion`, `MaxEvents` and `MaxFaults` bound what would be unbounded; both are guards.
* Symmetry is used only in runs without liveness, on handlers and tasks or leaders.

## 6. Fairness

* Ingest: weak fairness of every handler and task (tokio polls what is ready; the
  tasks spin on the queue), of publication up to the bound, and strong fairness
  of receiving a feed (Alpenrose sends every feed on every round of its loop; a free
  handler recurs). Faults, and the end of the grace period, have none.
* Assign: weak fairness of processes and of the expiry of leases nobody renews.
* Alpenrose: the same, and strong fairness of `DealAnyway`: an event of probability
  one tenth in every job recurs in every long run. `EventuallyFetched` depends on it.
* Maple: weak fairness of a run and its tasks once started, and of starting one: an
  operator's timer starts Maple again and again; of `delete-stale-attempts` once it
  runs. Faults have none.
* Relay: weak fairness of fetchers, their clocks, Aspen workers, their return, the
  leader, and the client with Birch (a client asks again and again). Events have none.
* DepartureBoard, Trips, TripBased and Harebell: none; their properties are safety properties.

## 7. Proofs

All with TLAPS, for any constants that satisfy `ConstantsAssumption`, those about calendars for
any zone, dates and times, and those about departures and pages for any cases that satisfy
`FeedsAssumption`, and `CasesAssumption` or `MessagesAssumption` and `QueriesAssumption`: any timetables, windows,
updates, messages, requests and choices of itineraries.

| Theorem | States |
|---|---|
| `AspenIngest_proofs!TypeCorrect` | `Spec => []TypeOK` |
| `AspenIngest_proofs!MarkIsALockCorrect` | `Spec => []MarkIsALock` |
| `AspenIngest_proofs!GraceCorrect` | `Spec => GraceKeepsTrips` |
| `AspenIngest_proofs!ServedCorrect` | without `Overlap`: `Spec => ServedMonotone` |
| `AspenIngest_proofs!FreshCorrect` | `Spec => []FreshUnlessLost` |
| `AspenAssign_proofs!TypeCorrect` | `Spec => []TypeOK` |
| `AspenAssign_proofs!KeysCorrect` | `Spec => []KeysHaveLiveLease` |
| `AspenAssign_proofs!DirectoryCorrect` | `Spec => ImplementsDirectory` |
| `AspenAssign_proofs!OneRoundCorrect` | `Spec => []OneElectedRound` |
| `AlpenroseAssign_proofs!LeaseCorrect` | `Spec => []NothingWithoutLease` |
| `AlpenroseAssign_proofs!OneJobCorrect` | `Spec => []OneElectedJob` |
| `Relay_proofs!TypeCorrect` | `Spec => []TypeOK` |
| `Relay_proofs!MapCorrect` | `Spec => []MapIsOneDataset` |
| `Maple_proofs!OneOnTheMapCorrect` | `Spec => []OneOnTheMap` |
| `Maple_proofs!MapIsCompleteCorrect` | `Spec => []MapIsComplete` |
| `Maple_proofs!NoOrphansCorrect` | `Spec => []NoOrphans` |
| `Maple_proofs!MarkedCorrect` | `Spec => []MarkedWasShown` |
| `Maple_proofs!StaysCorrect` | `Spec => StaysOnTheMap` |
| `StaticImport_proofs!EveryDateIsChecked` | `Examined` departures in a window have their date among `DatesToCheck` |
| `StaticImport_proofs!EstimateIsRight` | for a `Guessable` update, `Estimates` is true of the date of its run and of no other |
| `DepartureBoard_proofs!FailsCorrect` | `Spec => []FailsOnlyWhenHarmed` |
| `DepartureBoard_proofs!ExactCorrect` | `Spec => []BoardIsExact` |
| `DepartureBoard_proofs!CommonCorrect` | `Spec => []CommonStaysListed` |
| `DepartureBoard_proofs!RealtimeCorrect` | `Spec => []RealtimeIsOfTheRun` |
| `DepartureBoard_proofs!DescribedCorrect` | `Spec => []VisitIsDescribed` |
| `TripPage_proofs!DataIsWhole` | `Spec => []DataInv`: what is served and drafted is whole and listed |
| `TripPage_proofs!PastStopsAreKept` | `Spec => PastStopsStay` |
| `TripPage_proofs!PageCorrect` | `Spec => []PageIsWhole` |

The arguments:

* One task per chateau: inductive together with types, "what waits or is worked on
  is marked" and "a task has a chateau exactly when it is busy". A push needs an
  unmarked chateau, hence one that neither waits nor is worked on; a steal moves the
  head of a queue without duplicates to one task.
* Live leases: a put is conditional on the lease, and the end of a lease takes the
  keys with it; the refinement follows step by step, a round's put being
  `AssignChateau` or `AssignFeed` and everything else of a leader a stutter.
* One elected round: strengthened with "of two candidates one is ahead of the
  other" and "who is in a round and still a candidate has nobody ahead". A key is put behind all others, and keys ahead of it
  only go. The same invariant carries over to the jobs of Alpenrose.
* One dataset on the map: every worker serves a dataset of the history under its
  stamp; each tile of the client shows nothing or the dataset of the client's stamp;
  a request names what the client has, and an answer brings whatever the client
  lacks of the dataset it names.

* Dates: a service midnight is within the change of the offset of the local midnight
  (`MidnightBounds`), and local dates ascend with instants, so the window minus a day and
  the offset ends before the date, and the look-ahead after it. Midnights ascend, so of
  the dates up to that of the update the nearest midnight is the last before it.

* Served data: the grace merge needs only that the previous data a task works with are those
  served (`PrevInv`), as there is one task per chateau. Monotony follows from `OrderInv`: a feed
  has one request (`OneRequest`), nothing is stored that was not published, the message in flight
  is the newest, the raw store is never behind what is read or served, and what a task has read
  lies between the two. With two requests of one feed (`Overlap`) an older message may be stored last.
* Freshness: `FreshInv` follows a message through the handler and the task. As long as no
  wake-up was lost and no handler is about to store, an unmarked chateau serves what is stored,
  a task that saves has served it, and one that reads has read what is stored.
* Maple: an attempt is recorded only when all its tables are written (`Complete`), and only the
  transaction that shows one clears the others of the feed (`ShownOnce`). Of what deletes
  rows, only wipes and `delete-stale-attempts` aim at attempts that are recorded, and those are
  `torn`. Rows have an attempt, a task or a deletion that owns them (`Owned`). A zip is marked between
  its last insert and the transaction, by a task that ends with it shown or parted.
* Departures: tables are written in one order and read in the reverse one (`InOrder`), so a
  request without harm that has read a pattern finds its rows, its meta and its
  calendars (`ReadInv`), and cannot panic. Listed dates are those of the service by
  `EveryDateIsChecked`; times come from the start and the itinerary of the trip; where rows of two
  attempts agree, it does not matter which wins, and a calendar put together from both is
  that of each (`UnifiedIs`). The update shown is of the run by `EstimateIsRight`. The rows of a
  pattern are its stops counted from 0 (`RowsAre`), so a visit finds the row of its own stop when its
  stop comes once or its number counts from 0 (`RowMatches`); the list a row's headsign refers to holds every
  headsign of the stops, and is empty if they have none (`HeadsignsAre`, from `RanksAre`: ranks in a finite set are
  distinct and at most its size). The answer, once given, stays right because `harm` only grows.

* Past stops: `DataInv` says that the updates served, and those in the draft of a task, have ids and
  stops, that each is listed under its trip, and that the draft misses no stop of an update of
  which there was one (`CarriesOn`): a task makes a pass per feed, so what it has made so far must carry
  on as well. A message is a fold over its updates, a pass one over the messages, and the grace
  period one over the updates that are gone. Each fold has a row of its results (`RowOfUpdates`,
  `RowOfFeeds`, `RowOfKept`), found by counting up, for the induction theorems of the library take an
  operator; one step of it (`UpdateAdds`, `FeedAdds`, `KeepAdds`) then carries over to the row. Stops are
  not lost in `OldStops \o new` because ranks number a finite set (`SortedHas`, from `RanksAre`).
* The page of a trip: `PageInv` follows a request through its steps, on top of `TablesInv` (rows are written
  and read in order) and `DataInv` (updates, modifications and their changes are lists of what they should be).
  While nothing harms it, the attempt it opened has the trip in all tables until they are read (`IsRead`), but
  for the routes: those of the new attempt may be missing, while those of the old one are there (`RoutesInv`:
  the old ones are deleted when all that is new is in), so that a route the old attempt has is found. Its
  date is the one asked for or one of service (`IsDated`), and its stops are the schedule, one row per
  visit (`IsScheduleOf`); with no date to be found the search has gone through all twenty days. A
  modification is followed change by change (`IsShifted`): what stands behind the changes made so far is
  the rest of the visits, as many places ahead as stops were dropped and as late as the delays summed up,
  so that the next change of an orderly list finds its ends where they were, shifted (`PositionShifts`), and takes what it
  takes by the timetable. The entries of the update then touch realtime times only (`AreAlike`). As in `DataInv`, folds
  have rows of their results. Since that follows a time below 0 nowhere, the proof needs `AreAfterEpoch`.

The attempts to prove `CommonStaysListed` and `RealtimeIsOfTheRun` changed both: see the names of
services and the runs of trips that do not repeat in section 3. So did `PastStopsStay` (updates
without a trip) and `PageIsWhole`, which gave `SameService` the attempts that lost the trip, and itself
the condition on times before 1970.

Not proved, only model-checked:

* liveness (out of the prover's reach): `MarkedIsServed`, `UntimedFeedsConverge`, `EventuallyBalanced`,
  `EventuallyRegistered`, `EventuallyFetched`, `EventuallyMarked`, `ChateauxSettle`, `OwnerIsFed`,
  `EventuallyShown`;
* `RunIsShown`, `DelayIsOfTheRun` and `CancelledIsSaid`: they rest on which updates of all messages so far
  reach a dataset, on 24-bit times and on the closure that joins alerts, each an induction of its own over the
  history of the messages;
* what `TripBased` and Harebell compute, with recursive operators.

## 8. Plan

1. Done: the modules of section 2, their runs and theorems.
2. Open: departures nearby (`nearby_departuresv2.rs`), which join the same tables and updates
   over several chateaux; the algorithm of rough hashes; the patterns between partitions of Gentian.
3. Proofs: `RunIsShown`, with an invariant that says which updates of the history a dataset holds; it is
   the next in reach, as `DataInv` already follows each update to the list of its trip.

## 9. Not modelled

* Read-only RPCs of Aspen other than `get_vehicle_locations` and the lookups by trip,
  modification and route; the endpoints of Birch other than the realtime map, the departures
  of a stop and the page of a trip (also its refresh and the vehicles): single requests that
  change nothing and are made of the same queries and calls. Of the departures:
  unscheduled trips, alerts other than suspensions, platforms, vehicles, shapes, routes
  and agencies, the choice of stops (the stop, its children and its equals nearby), and
  the headsigns of two agencies the code names. Spruce's
  websocket server answers a message with itself.
* Of realtime data: headsigns, stops and routes, shapes, positions, platforms and what is done
  for particular agencies. Alerts of stops are shown on the page of a trip and cancel
  nothing.
* The choice of production attempts by dates: `ingested_static` is written without
  dates, so that the newest attempt always claims all time.
* Batch programs over geometry and floating-point data: Avens, Globeflower,
  OSM import, Linnaea, and the tiles of Harebell beyond their strokes; Edelweiss, a sequential search over large data
  with no shared state; Gentian's partitioning.
* The one-shot downloads of static helper feeds in `alpenrose/main.rs` and the custom
  feeds: proprietary APIs.
* Lease times: an expiry is possible whenever nobody renews, a lapse at any time as a
  bounded fault; there are no clocks.
