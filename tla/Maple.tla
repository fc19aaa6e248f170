--------------------------------- MODULE Maple ---------------------------------
(***************************************************************************)
(* Maple brings the timetables of agencies into Postgres.                  *)
(*                                                                         *)
(* A run reads which feeds exist (the DMFR repository), downloads their    *)
(* zip files, inserts each new one as an attempt, table by table, and then *)
(* puts the newest attempt of the feed in production: the rows of its      *)
(* shapes and stops get allowed_spatial_query, those of older attempts are *)
(* deleted.  Nothing but that last step is a transaction, every statement  *)
(* may fail, the process may die anywhere, and what the next run does      *)
(* depends on the rows that are left.  `maple delete-stale-attempts` is    *)
(* another process that may run at the same time.                          *)
(*                                                                         *)
(* Two zip files are equal exactly when their hashes are, and so are their *)
(* contents.  An attempt is one of a few slots of its feed that are used   *)
(* again once nothing is left of the attempt.  The dates of attempts are   *)
(* left out: a run records none (main.rs 844), with which the newest       *)
(* attempt claims all time.                                                *)
(***************************************************************************)
EXTENDS Integers, Sequences, FiniteSets, Functions

CONSTANTS
    Feeds,          \* static feed ids
    Zips,           \* zip files that may be published
    Broken,         \* zip files that cannot be read as GTFS
    Urls,
    Chateaux,
    Slots,          \* bound: attempts of a feed with something left of them
    Threads,        \* THREADS_GTFS
    Repositories,   \* what the DMFR repository may hold
    Modes,          \* environment variables an operator may start a run with
    None,
    StaleTables,    \* tables delete-stale-attempts deletes from in one step
    MaxFaults,      \* bound: how often each kind of event happens
    Together        \* bound: the sets of kinds that happen in one behaviour

FaultKinds == {"crash", "request", "http", "operator", "stale", "publish", "dmfr"}

\* Groups of tables, in the order gtfs_process_feed inserts into them, in that
\* of the three deletions of cleanup.rs, and in that of a change of chateau.
InsertOrder == <<"agencies", "shapes", "calendar", "stops", "directions",
                 "itineraries", "trips", "routes", "feed_info">>
DeleteOrder == <<"agencies", "calendar", "routes", "shapes", "stops",
                 "feed_info", "itineraries", "trips", "directions">>
MoveOrderMut == <<"agencies", "routes", "shapes", "stops", "calendar",
                  "feed_info", "trips", "itineraries">>
MoveOrder == <<"agencies", "routes", "shapes", "stops", "calendar",
               "feed_info", "trips", "itineraries", "directions">>
Tables == Range(InsertOrder)

ASSUME ConstantsAssumption ==
    /\ Broken \subseteq Zips /\ None \notin Zips /\ None \notin Chateaux /\ None \notin Feeds /\ None \notin Slots
    /\ IsFiniteSet(Feeds) /\ IsFiniteSet(Slots) /\ Slots \subseteq Nat
    /\ Threads \in Nat \ {0} /\ StaleTables \in 1..Len(DeleteOrder)
    /\ \A r \in Repositories :
          /\ r.listed \subseteq Feeds /\ r.discarded \subseteq Feeds
          /\ r.url \in [Feeds -> Urls] /\ r.chateau \in [Feeds -> Chateaux]
    /\ Modes \subseteq [force : BOOLEAN, wipe : BOOLEAN, girolle : BOOLEAN, only : SUBSET Feeds]
    /\ MaxFaults \in [FaultKinds -> Nat] /\ Together \subseteq SUBSET FaultKinds

VARIABLES
    dmfr,           \* the DMFR repository (and the lists compiled into Maple)
    published,      \* the zip file at each URL
    ingested,       \* static_download_attempts: zips of a feed marked ingested
    order,          \* ingested_static: a feed's undeleted attempts, oldest first
    rows,           \* the chateau in an attempt's rows of each table, or None
    shown,          \* attempts whose rows have allowed_spatial_query
    static,         \* static_feeds: the chateau of a feed, or None
    chateaux,       \* the chateaus table
    main,           \* where the run is
    repo,           \* the repository this run read
    mode,           \* how this run was started
    todo,           \* feeds this stage of the run still has to handle
    fetched,        \* zips this run downloaded and wants to ingest
    cached,         \* URLs this run wrote a zip for, with that zip
    logged,         \* feeds whose download of this run is in the table
    task,           \* where the task of each feed is
    slot,           \* the attempt of each task
    drop,           \* attempts the task still has to delete
    stale,          \* delete-stale-attempts: feed, attempts kept, next table
    faults,
    showed,         \* history: zips of a feed that were once in production
    parted,         \* history: zips marked ingested that never got there
    torn,           \* history: attempts a wipe or delete-stale-attempts reached
    swung           \* history: feeds reassigned when their rows were half moved

tables == <<ingested, order, rows, shown, static, chateaux>>
run == <<main, repo, mode, todo, fetched, cached, logged>>
tasks == <<task, slot, drop>>
history == <<showed, parted, torn, swung>>
vars == <<dmfr, published, tables, run, tasks, stale, faults, history>>

Plain == [force |-> FALSE, wipe |-> FALSE, girolle |-> FALSE, only |-> Feeds]
NoRows == [t \in Tables |-> None]
NoStale == [feed |-> None, keep |-> {}, next |-> 1]

Init ==
    /\ dmfr \in Repositories /\ published \in [Urls -> Zips]
    /\ ingested = {}
    /\ order = [f \in Feeds |-> <<>>]
    /\ rows = [f \in Feeds |-> [a \in Slots |-> NoRows]]
    /\ shown = [f \in Feeds |-> {}]
    /\ static = [f \in Feeds |-> None]
    /\ chateaux = {}
    /\ main = "idle" /\ repo = None /\ mode = Plain /\ todo = {}
    /\ fetched = [f \in Feeds |-> None] /\ cached = [u \in Urls |-> None] /\ logged = {}
    /\ task = [f \in Feeds |-> "none"] /\ slot = [f \in Feeds |-> None]
    /\ drop = [f \in Feeds |-> {}]
    /\ stale = NoStale
    /\ faults = [k \in FaultKinds |-> 0]
    /\ showed = {} /\ parted = {} /\ torn = [f \in Feeds |-> {}] /\ swung = {}

\* An event of kind k happens, within the bounds.
Fault(k) ==
    /\ faults[k] < MaxFaults[k]
    /\ {j \in FaultKinds : faults[j] > 0} \cup {k} \in Together
    /\ faults' = [faults EXCEPT ![k] = @ + 1]

-------------------------------------------------------------------------------
(* The tables. *)

\* The rows r of an attempt after the steps m to n of a deletion.
Deleted(r, m, n) ==
    [t \in Tables |-> IF \E i \in (m..n) \cap DOMAIN DeleteOrder : DeleteOrder[i] = t
                      THEN None ELSE r[t]]

\* The rows r of an attempt after the first n steps of a move to chateau c.
Moved(r, c, n) ==
    [t \in Tables |-> IF r[t] # None /\ \E i \in 1..n : MoveOrder[i] = t THEN c ELSE r[t]]

\* Those attempts of S that the map still finds, when the rows are rs.
OnMap(S, rs) == {a \in S : rs[a]["shapes"] # None \/ rs[a]["stops"] # None}

Visible(f) == OnMap(shown[f], rows[f])
Recorded(f) == {at.id : at \in Range(order[f])}

\* The rows of feed f become rs; what was deleted is no longer shown.
SetRows(f, rs) ==
    /\ rows' = [rows EXCEPT ![f] = rs]
    /\ shown' = [shown EXCEPT ![f] = OnMap(@, rs)]

\* wipe_whole_feed deletes the rows of every attempt, and then marks them all
\* as deleted; or a statement fails on the way.
WipeDone(f) ==
    /\ SetRows(f, [a \in Slots |-> NoRows])
    /\ order' = [order EXCEPT ![f] = <<>>]
    /\ torn' = [torn EXCEPT ![f] = Slots]
    /\ UNCHANGED faults

WipeFailed(f) ==
    /\ Fault("request")
    /\ \E n \in 0..Len(DeleteOrder) : SetRows(f, [a \in Slots |-> Deleted(rows[f][a], 1, n)])
    /\ torn' = [torn EXCEPT ![f] = Slots]
    /\ UNCHANGED order

\* The attempts of feed f without attempt a: the update touches the rows with its id.
EntriesWithout(f, a) ==
    IF a \in Recorded(f) THEN SelectSeq(order[f], LAMBDA at : at.id # a) ELSE order[f]

DeleteDoneMut(f, a) ==
    /\ SetRows(f, [b \in Slots |-> NoRows])
    /\ order' = [order EXCEPT ![f] = EntriesWithout(f, a)]
    /\ UNCHANGED faults

\* delete_attempt_objects does the same to one attempt.
DeleteDone(f, a) ==
    /\ SetRows(f, [rows[f] EXCEPT ![a] = NoRows])
    /\ order' = [order EXCEPT ![f] = EntriesWithout(f, a)]
    /\ UNCHANGED faults

DeleteFailed(f, a) ==
    /\ Fault("request")
    /\ \E n \in 0..Len(DeleteOrder) : SetRows(f, [rows[f] EXCEPT ![a] = Deleted(@, 1, n)])
    /\ UNCHANGED order

-------------------------------------------------------------------------------
(* Outside the run: publication, the repository, delete-stale-attempts. *)

Publish(u) ==
    /\ Fault("publish")
    /\ \E z \in Zips \ {published[u]} : published' = [published EXCEPT ![u] = z]
    /\ UNCHANGED <<dmfr, tables, run, tasks, stale, history>>

\* Rows of feed f are not in the chateau that static_feeds says.
HalfMoved(f) == \E a \in Recorded(f), t \in Tables : rows[f][a][t] \notin {None, static[f]}

ChangeRepository ==
    /\ Fault("dmfr")
    /\ dmfr' \in Repositories \ {dmfr}
    /\ swung' = swung \cup {f \in Feeds : HalfMoved(f)}
    /\ UNCHANGED <<published, tables, run, tasks, stale, showed, parted, torn>>

\* The attempts of feed f that are not deleted are read,
StaleStart(f) ==
    /\ stale.feed = None /\ Fault("stale")
    /\ stale' = [feed |-> f, keep |-> Recorded(f), next |-> 1]
    /\ UNCHANGED <<dmfr, published, tables, run, tasks, history>>

StaleNext ==
    IF stale.next + StaleTables > Len(DeleteOrder) THEN NoStale
    ELSE [stale EXCEPT !.next = @ + StaleTables]

\* and then the rows of all others are deleted, StaleTables tables at a time,
StaleDelete ==
    /\ stale.feed # None
    /\ LET f == stale.feed
           others == Slots \ stale.keep
       IN  /\ SetRows(f, [a \in Slots |-> IF a \in others
                                           THEN Deleted(rows[f][a], stale.next, stale.next + StaleTables - 1)
                                           ELSE rows[f][a]])
           /\ torn' = [torn EXCEPT ![f] = @ \cup others]
    /\ stale' = StaleNext
    /\ UNCHANGED <<dmfr, published, ingested, order, static, chateaux, run, tasks,
                   faults, showed, parted, swung>>

\* unless a statement fails.
StaleFailed ==
    /\ stale.feed # None /\ Fault("request")
    /\ stale' = NoStale
    /\ UNCHANGED <<dmfr, published, tables, run, tasks, history>>

-------------------------------------------------------------------------------
(* A run up to its tasks. *)

\* Nothing is left of a run in memory.
Idle ==
    /\ main' = "idle" /\ repo' = None /\ mode' = Plain /\ todo' = {}
    /\ fetched' = [f \in Feeds |-> None] /\ cached' = [u \in Urls |-> None]
    /\ logged' = {}

\* The run goes on to a stage that handles the feeds F.
Stage(name, F) == main' = name /\ todo' = F

Eligible == (repo.listed \ repo.discarded) \cap mode.only

\* A run starts, by schedule or with an operator's environment, and reads the
\* repository; one that looks too small is not used.
StartRun(m) ==
    /\ main = "idle"
    /\ IF m = Plain THEN UNCHANGED faults ELSE Fault("operator")
    /\ dmfr.listed # {}
    /\ repo' = dmfr /\ mode' = m
    /\ Stage("download", (dmfr.listed \ dmfr.discarded) \cap m.only)
    /\ UNCHANGED <<dmfr, published, tables, fetched, cached, logged, tasks, stale, history>>

WantedMut(f, z) ==
    mode.force \/ mode.only # Feeds \/ (<<f, z>> \notin ingested /\ order[f] = <<>>)

\* A zip is ingested unless the feed has a download with its hash that was.
Wanted(f, z) == mode.force \/ mode.only # Feeds \/ <<f, z>> \notin ingested

DownloadFeed(f) ==
    /\ main = "download" /\ f \in todo
    /\ LET u == repo.url[f]
           z == published[u]
       IN  IF Wanted(f, z)
           THEN /\ fetched' = [fetched EXCEPT ![f] = z]
                /\ cached' = [cached EXCEPT ![u] = z]
           ELSE UNCHANGED <<fetched, cached>>
    /\ todo' = todo \ {f}
    /\ UNCHANGED <<dmfr, published, tables, main, repo, mode, logged, tasks, stale,
                   faults, history>>

\* A feed whose URL was already written for another takes that file, and
\* ingests it whatever the table of downloads says.
CopyCached(f) ==
    /\ main = "download" /\ f \in todo
    /\ cached[repo.url[f]] # None
    /\ fetched' = [fetched EXCEPT ![f] = cached[repo.url[f]]]
    /\ todo' = todo \ {f}
    /\ UNCHANGED <<dmfr, published, tables, main, repo, mode, cached, logged, tasks,
                   stale, faults, history>>

\* The server or the lookup in Postgres fails, or Girolle's list names a zip of
\* the feed that was ingested: the feed is not ingested in this run.
DownloadNothing(f) ==
    /\ main = "download" /\ f \in todo
    /\ \/ Fault("http")
       \/ mode.girolle /\ (\E z \in Zips : <<f, z>> \in ingested) /\ UNCHANGED faults
    /\ todo' = todo \ {f}
    /\ UNCHANGED <<dmfr, published, tables, main, repo, mode, fetched, cached, logged,
                   tasks, stale, history>>

DownloadsEnd ==
    /\ main = "download" /\ todo = {}
    /\ Stage("discard", repo.discarded)
    /\ UNCHANGED <<dmfr, published, tables, repo, mode, fetched, cached, logged, tasks,
                   stale, faults, history>>

\* Every discarded feed is wiped in every run; a failure ends the run.
DiscardFeed(f) ==
    /\ main = "discard" /\ f \in todo
    /\ \/ WipeDone(f) /\ todo' = todo \ {f}
                      /\ UNCHANGED <<main, repo, mode, fetched, cached, logged>>
       \/ WipeFailed(f) /\ Idle
    /\ UNCHANGED <<dmfr, published, ingested, static, chateaux, tasks, stale,
                   showed, parted, swung>>

\* The downloads go into static_download_attempts; a row may fail to.
LogDownloads ==
    /\ main = "discard" /\ todo = {}
    /\ \/ logged' = Eligible /\ UNCHANGED faults
       \/ Fault("request") /\ \E f \in Eligible : logged' = Eligible \ {f}
    /\ Stage("meta", {})
    /\ UNCHANGED <<dmfr, published, tables, repo, mode, fetched, cached, tasks, stale,
                   history>>

-------------------------------------------------------------------------------
(* refresh_metadata_assignments, before and after the tasks. *)

\* The first refresh hides its errors; that of the second ends the run.
RefreshEnds ==
    IF main \in {"meta", "move"}
    THEN Stage("unpack", {}) /\ UNCHANGED <<repo, mode, fetched, cached, logged>>
    ELSE Idle

RefreshChateaux ==
    /\ main \in {"meta", "meta again"}
    /\ LET new == {repo.chateau[f] : f \in repo.listed}
       IN  \/ /\ chateaux' = new
              /\ Stage(IF main = "meta" THEN "move" ELSE "move again",
                       {f \in repo.listed : static[f] \notin {None, repo.chateau[f]}})
              /\ UNCHANGED <<repo, mode, fetched, cached, logged, faults>>
           \/ /\ Fault("request")
              /\ \E done \in SUBSET (chateaux \cup new) :
                    chateaux \cap new \subseteq done /\ chateaux' = done
              /\ RefreshEnds
    /\ UNCHANGED <<dmfr, published, ingested, order, rows, shown, static, tasks, stale,
                   history>>

\* All rows of a feed go to its new chateau, table by table, and static_feeds
\* last; a failure ends the refresh.
MoveFeed(f) ==
    /\ main \in {"move", "move again"} /\ f \in todo
    /\ LET move(n) == [a \in Slots |-> Moved(rows[f][a], repo.chateau[f], n)]
       IN  \/ /\ rows' = [rows EXCEPT ![f] = move(Len(MoveOrder))]
              /\ static' = [static EXCEPT ![f] = repo.chateau[f]]
              /\ todo' = todo \ {f}
              /\ UNCHANGED <<main, repo, mode, fetched, cached, logged, faults>>
           \/ /\ Fault("request")
              /\ \E n \in 0..Len(MoveOrder) : rows' = [rows EXCEPT ![f] = move(n)]
              /\ RefreshEnds
              /\ UNCHANGED static
    /\ UNCHANGED <<dmfr, published, ingested, order, shown, chateaux, tasks, stale, history>>

RefreshDone ==
    /\ main \in {"move", "move again"} /\ todo = {}
    /\ RefreshEnds
    /\ UNCHANGED <<dmfr, published, tables, tasks, stale, faults, history>>

-------------------------------------------------------------------------------
(* The tasks of a run, one for each feed with a new zip. *)

\* Zips are unpacked; one that is broken may be found out here or later.
Unpack ==
    /\ main = "unpack"
    /\ \E bad \in SUBSET {f \in Feeds : fetched[f] \in Broken} :
          task' = [f \in Feeds |-> IF fetched[f] = None \/ f \in bad THEN "none" ELSE "queued"]
    /\ Stage("tasks", {})
    /\ UNCHANGED <<dmfr, published, tables, repo, mode, fetched, cached, logged, slot, drop,
                   stale, faults, history>>

Running == {f \in Feeds : task[f] \notin {"none", "queued"}}

StartTask(f) ==
    /\ task[f] = "queued" /\ Cardinality(Running) < Threads
    /\ task' = [task EXCEPT ![f] = "check"]
    /\ UNCHANGED <<dmfr, published, tables, run, slot, drop, stale, faults, history>>

\* Some feed has these contents as an attempt.
ContentsExist(z) == \E g \in Feeds : \E at \in Range(order[g]) : at.zip = z

EndTask(f) ==
    /\ task' = [task EXCEPT ![f] = "none"]
    /\ slot' = [slot EXCEPT ![f] = None]
    /\ drop' = [drop EXCEPT ![f] = {}]

\* The download of this run is marked, when there is a row of it.
MarkIngested(f) ==
    \/ /\ ingested' = IF f \in logged THEN ingested \cup {<<f, fetched[f]>>} ELSE ingested
       /\ UNCHANGED faults
    \/ Fault("request") /\ UNCHANGED ingested

\* Contents that are an attempt of any feed are marked ingested and left.
SkipFeed(f) ==
    /\ task[f] = "check"
    /\ ContentsExist(fetched[f]) /\ ~mode.force
    /\ MarkIngested(f)
    /\ parted' = parted \cup ({<<f, fetched[f]>>} \ showed)
    /\ EndTask(f)
    /\ UNCHANGED <<dmfr, published, order, rows, shown, static, chateaux, run, stale,
                   showed, torn, swung>>

\* DELETE_BEFORE_INGEST wipes the feed first, and goes on if that fails.
WipeBefore(f) ==
    /\ task[f] = "check" /\ mode.wipe
    /\ ~ContentsExist(fetched[f]) \/ mode.force
    /\ WipeDone(f) \/ WipeFailed(f)
    /\ task' = [task EXCEPT ![f] = "parse"]
    /\ UNCHANGED <<dmfr, published, ingested, static, chateaux, run, slot, drop, stale,
                   showed, parted, swung>>

KeepBefore(f) ==
    /\ task[f] = "check" /\ ~mode.wipe
    /\ ~ContentsExist(fetched[f]) \/ mode.force
    /\ task' = [task EXCEPT ![f] = "parse"]
    /\ UNCHANGED <<dmfr, published, tables, run, slot, drop, stale, faults, history>>

\* Nothing but waiting on a connection or the query can panic the task.
TaskPanics(f) ==
    /\ task[f] = "check" /\ Fault("request")
    /\ EndTask(f)
    /\ UNCHANGED <<dmfr, published, tables, run, stale, history>>

FreeSlots(f) == {a \in Slots \ Recorded(f) : rows[f][a] = NoRows}

\* gtfs_process_feed repairs and reads the files, under a new attempt id.
ReadFeed(f) ==
    /\ task[f] = "parse"
    /\ \E a \in FreeSlots(f) :
          /\ \A b \in FreeSlots(f) : a <= b
          /\ slot' = [slot EXCEPT ![f] = a]
          /\ torn' = [torn EXCEPT ![f] = @ \ {a}]
    /\ task' = [task EXCEPT ![f] = IF fetched[f] \in Broken THEN "failed" ELSE InsertOrder[1]]
    /\ UNCHANGED <<dmfr, published, tables, run, drop, stale, faults, showed, parted, swung>>

\* Rows of table t are inserted for the attempt, not yet on the map; then the
\* task goes to the step next.  A failure fails the attempt.
Insert(f, t, next) ==
    /\ task[f] = t
    /\ \/ /\ rows' = [rows EXCEPT ![f][slot[f]][t] = repo.chateau[f]]
          /\ task' = [task EXCEPT ![f] = next]
          /\ UNCHANGED faults
       \/ /\ Fault("request")
          /\ task' = [task EXCEPT ![f] = "failed"]
          /\ UNCHANGED rows
    /\ UNCHANGED <<dmfr, published, ingested, order, shown, static, chateaux, run, slot,
                   drop, stale, history>>

InsertAgencies(f) == Insert(f, "agencies", "shapes")
InsertShapes(f) == Insert(f, "shapes", "calendar")
InsertCalendar(f) == Insert(f, "calendar", "stops")
InsertStops(f) == Insert(f, "stops", "directions")
InsertDirections(f) == Insert(f, "directions", "itineraries")
InsertItinerariesMut(f) == Insert(f, "itineraries", "routes")
InsertItineraries(f) == Insert(f, "itineraries", "trips")
InsertTrips(f) == Insert(f, "trips", "routes")
InsertRoutes(f) == Insert(f, "routes", "feed_info")
InsertFeedInfo(f) == Insert(f, "feed_info", "static")

\* The entry of static_feeds is created; one that exists keeps its chateau.
UpsertStaticFeed(f) ==
    /\ task[f] = "static"
    /\ \/ /\ static' = [static EXCEPT ![f] = IF @ = None THEN repo.chateau[f] ELSE @]
          /\ task' = [task EXCEPT ![f] = "mark"]
          /\ UNCHANGED faults
       \/ /\ Fault("request")
          /\ task' = [task EXCEPT ![f] = "failed"]
          /\ UNCHANGED static
    /\ UNCHANGED <<dmfr, published, ingested, order, rows, shown, chateaux, run, slot, drop,
                   stale, history>>

\* After success the download is marked first,
MarkDownload(f) ==
    /\ task[f] = "mark"
    /\ MarkIngested(f)
    /\ task' = [task EXCEPT ![f] = "record"]
    /\ UNCHANGED <<dmfr, published, order, rows, shown, static, chateaux, run, slot, drop,
                   stale, history>>

\* The task of f ends before its attempt is in production.
Part(f) == parted' = parted \cup ({<<f, fetched[f]>>} \ showed)

\* then the attempt goes into ingested_static,
RecordAttempt(f) ==
    /\ task[f] = "record"
    /\ \/ /\ order' = [order EXCEPT ![f] = Append(@, [id |-> slot[f], zip |-> fetched[f]])]
          /\ task' = [task EXCEPT ![f] = "assign"]
          /\ UNCHANGED <<slot, drop, faults, parted>>
       \/ Fault("request") /\ EndTask(f) /\ Part(f) /\ UNCHANGED order
    /\ UNCHANGED <<dmfr, published, ingested, rows, shown, static, chateaux, run, stale,
                   showed, torn, swung>>

ClearedMut(f, dropped) ==
    [a \in Slots |-> IF a \in dropped THEN [rows[f][a] EXCEPT !["shapes"] = None] ELSE rows[f][a]]

\* The rows of feed f without the shapes and stops of the dropped attempts.
Cleared(f, dropped) ==
    [a \in Slots |-> IF a \in dropped
                     THEN [rows[f][a] EXCEPT !["shapes"] = None, !["stops"] = None]
                     ELSE rows[f][a]]

\* and assign_production_tables puts the newest attempt on the map and, in the
\* same transaction, takes the rows of shapes and stops of the others away.
AssignProduction(f) ==
    /\ task[f] = "assign"
    /\ LET newest == order[f][Len(order[f])]
           dropped == Recorded(f) \ {newest.id}
       IN  \/ /\ rows' = [rows EXCEPT ![f] = Cleared(f, dropped)]
              /\ shown' = [shown EXCEPT ![f] = OnMap(@ \cup {newest.id}, Cleared(f, dropped))]
              /\ order' = [order EXCEPT ![f] = <<newest>>]
              /\ drop' = [drop EXCEPT ![f] = dropped]
              /\ task' = [task EXCEPT ![f] = "drop"]
              /\ showed' = showed \cup {<<f, newest.zip>>}
              /\ UNCHANGED <<slot, faults, parted>>
           \/ /\ Fault("request") /\ EndTask(f) /\ Part(f)
              /\ UNCHANGED <<rows, shown, order, showed>>
    /\ UNCHANGED <<dmfr, published, ingested, static, chateaux, run, stale, torn, swung>>

\* What is left of the dropped attempts is deleted; errors are ignored.
DropAttempt(f) ==
    /\ task[f] = "drop"
    /\ \E a \in drop[f] :
          /\ DeleteDone(f, a) \/ DeleteFailed(f, a)
          /\ drop' = [drop EXCEPT ![f] = @ \ {a}]
    /\ UNCHANGED <<dmfr, published, ingested, static, chateaux, run, task, slot, stale, history>>

TaskDoneMut(f) ==
    /\ task[f] = "drop"
    /\ EndTask(f)
    /\ UNCHANGED <<dmfr, published, tables, run, stale, faults, history>>

TaskDone(f) ==
    /\ task[f] = "drop" /\ drop[f] = {}
    /\ EndTask(f)
    /\ UNCHANGED <<dmfr, published, tables, run, stale, faults, history>>

MarkFailedMut(f) == ingested' = ingested \cup {<<f, fetched[f]>>}

\* The download is marked as failed, which no lookup asks for.
MarkFailed(f) == UNCHANGED ingested

\* A failed attempt is deleted, if its download could be marked.
DeleteFailedAttempt(f) ==
    /\ task[f] = "failed"
    /\ \/ MarkFailed(f) /\ (DeleteDone(f, slot[f]) \/ DeleteFailed(f, slot[f]))
       \/ Fault("request") /\ UNCHANGED <<ingested, rows, shown, order>>
    /\ EndTask(f)
    /\ UNCHANGED <<dmfr, published, static, chateaux, run, stale, history>>

-------------------------------------------------------------------------------
(* The end of a run. *)

TasksEnd ==
    /\ main = "tasks" /\ \A f \in Feeds : task[f] = "none"
    /\ Stage("gone", {f \in Feeds \ repo.listed : static[f] # None})
    /\ UNCHANGED <<dmfr, published, tables, repo, mode, fetched, cached, logged, tasks,
                   stale, faults, history>>

\* A feed that is listed no more is wiped, and leaves static_feeds.
WipeGone(f) ==
    /\ main = "gone" /\ f \in todo
    /\ \/ WipeDone(f) /\ static' = [static EXCEPT ![f] = None]
       \/ WipeFailed(f) /\ UNCHANGED static
    /\ todo' = todo \ {f}
    /\ UNCHANGED <<dmfr, published, ingested, chateaux, main, repo, mode, fetched, cached,
                   logged, tasks, stale, showed, parted, swung>>

GoneEnd ==
    /\ main = "gone" /\ todo = {}
    /\ Stage("meta again", {})
    /\ UNCHANGED <<dmfr, published, tables, repo, mode, fetched, cached, logged, tasks,
                   stale, faults, history>>

\* The process dies anywhere.
Crash ==
    /\ main # "idle" /\ Fault("crash")
    /\ Idle
    /\ task' = [f \in Feeds |-> "none"] /\ slot' = [f \in Feeds |-> None]
    /\ drop' = [f \in Feeds |-> {}]
    /\ parted' = parted \cup ({<<f, fetched[f]>> : f \in {g \in Feeds :
                                    task[g] \in {"record", "assign"}}} \ showed)
    /\ UNCHANGED <<dmfr, published, tables, stale, showed, torn, swung>>

-------------------------------------------------------------------------------
FeedStep(f) ==
    \/ DownloadFeed(f) \/ CopyCached(f) \/ DownloadNothing(f) \/ DiscardFeed(f)
    \/ MoveFeed(f) \/ WipeGone(f)

TaskStep(f) ==
    \/ StartTask(f) \/ SkipFeed(f) \/ WipeBefore(f) \/ KeepBefore(f) \/ TaskPanics(f)
    \/ ReadFeed(f) \/ InsertAgencies(f) \/ InsertShapes(f) \/ InsertCalendar(f)
    \/ InsertStops(f) \/ InsertDirections(f) \/ InsertItineraries(f) \/ InsertTrips(f)
    \/ InsertRoutes(f) \/ InsertFeedInfo(f) \/ UpsertStaticFeed(f) \/ MarkDownload(f)
    \/ RecordAttempt(f) \/ AssignProduction(f) \/ DropAttempt(f) \/ TaskDone(f)
    \/ DeleteFailedAttempt(f)

MainStep ==
    \/ DownloadsEnd \/ LogDownloads \/ RefreshChateaux \/ RefreshDone \/ Unpack
    \/ TasksEnd \/ GoneEnd

RunStep == MainStep \/ \E f \in Feeds : FeedStep(f) \/ TaskStep(f)

Next ==
    \/ \E u \in Urls : Publish(u)
    \/ ChangeRepository
    \/ \E f \in Feeds : StaleStart(f)
    \/ StaleDelete \/ StaleFailed
    \/ \E m \in Modes : StartRun(m)
    \/ RunStep \/ Crash

\* The operating system runs both processes, and runs are scheduled for ever.
Fairness == WF_vars(RunStep) /\ WF_vars(StartRun(Plain)) /\ WF_vars(StaleDelete)

Spec == Init /\ [][Next]_vars /\ Fairness

-------------------------------------------------------------------------------
\* At most one attempt of a feed is on the map, and only one that is recorded.
OneOnTheMap == \A f \in Feeds : Visible(f) \subseteq Recorded(f) /\ Cardinality(Visible(f)) <= 1

\* An attempt on the map has the rows of every table, unless a wipe or
\* delete-stale-attempts reached it.
MapIsComplete ==
    \A f \in Feeds : \A a \in Visible(f) \ torn[f] : \A t \in Tables : rows[f][a][t] # None

\* A zip is marked ingested only if it was put in production, except by the
\* task that is about to do that, and except when that task was cut off or
\* another feed had these contents.
MarkedWasShown ==
    \A m \in ingested :
       \/ m \in showed \cup parted
       \/ task[m[1]] \in {"record", "assign"} /\ fetched[m[1]] = m[2]

\* Rows outlive their attempt only after a failed statement or a crash.
NoOrphans ==
    faults["crash"] = 0 /\ faults["request"] = 0 =>
       \A f \in Feeds, a \in Slots : rows[f][a] # NoRows =>
          a \in Recorded(f) \cup {slot[f]} \cup drop[f]

\* A feed that is on the map stays there while its zip is replaced, unless a wipe
\* took it off or delete-stale-attempts reached the attempt that replaces it.
StaysOnTheMap ==
    [][\A f \in Feeds : Visible(f) # {} /\ Visible(f)' = {} =>
          \/ Visible(f) \subseteq torn'[f]
          \/ Recorded(f)' # {} /\ Recorded(f)' \subseteq torn'[f]]_vars

\* In the end the newest zip of every eligible feed is marked ingested.
EventuallyMarked ==
    <>[](\A f \in dmfr.listed \ dmfr.discarded :
            published[dmfr.url[f]] \notin Broken => <<f, published[dmfr.url[f]]>> \in ingested)

\* In the end every attempt of a listed feed and its entry in static_feeds have the
\* chateau the repository gives it, whatever failed on the way, unless the
\* repository changed again when the feed was half moved.
ChateauxSettle ==
    <>[](\A f \in dmfr.listed \ swung :
            static[f] # None => static[f] = dmfr.chateau[f] /\ ~HalfMoved(f))
================================================================================
