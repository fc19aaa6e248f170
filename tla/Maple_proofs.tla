------------------------------ MODULE Maple_proofs -----------------------------
(***************************************************************************)
(* Theorems about Maple for any feeds, zips, attempts, threads and faults. *)
(*                                                                         *)
(* What is on the map is safe for three reasons: an attempt is recorded    *)
(* only when all its tables are written (Complete), it is shown only by    *)
(* the transaction that clears all other recorded attempts (ShownOnce),    *)
(* and no deletion but a wipe or delete-stale-attempts is aimed at a       *)
(* recorded attempt (Attempts).                                            *)
(***************************************************************************)
EXTENDS Maple, FiniteSetTheorems, SequenceTheorems, TLAPS

Stages == {"idle", "download", "discard", "meta", "move", "unpack", "tasks", "gone",
           "meta again", "move again"}

\* Where a task is before it has an attempt,
Before == {"none", "queued", "check", "parse"}

\* while its attempt is not recorded, with the tables written by then,
Written ==
    [agencies |-> {},
     shapes |-> {"agencies"},
     calendar |-> {"agencies", "shapes"},
     stops |-> {"agencies", "shapes", "calendar"},
     directions |-> {"agencies", "shapes", "calendar", "stops"},
     itineraries |-> {"agencies", "shapes", "calendar", "stops", "directions"},
     trips |-> {"agencies", "shapes", "calendar", "stops", "directions", "itineraries"},
     routes |-> {"agencies", "shapes", "calendar", "stops", "directions", "itineraries",
                 "trips"},
     feed_info |-> Tables \ {"feed_info"},
     static |-> Tables, mark |-> Tables, record |-> Tables, failed |-> {}]
Unrecorded == DOMAIN Written

\* and after that.
Places == Before \cup Unrecorded \cup {"assign", "drop"}

TablesTypeOK ==
    /\ ingested \subseteq Feeds \X Zips
    /\ order \in [Feeds -> Seq([id : Slots, zip : Zips])]
    /\ rows \in [Feeds -> [Slots -> [Tables -> Chateaux \cup {None}]]]
    /\ shown \in [Feeds -> SUBSET Slots]
    /\ static \in [Feeds -> Chateaux \cup {None}]
    /\ chateaux \subseteq Chateaux

RunTypeOK ==
    /\ main \in Stages
    /\ main # "idle" => repo \in Repositories
    /\ mode \in Modes \cup {Plain}
    /\ todo \subseteq Feeds
    /\ fetched \in [Feeds -> Zips \cup {None}]
    /\ cached \in [Urls -> Zips \cup {None}]
    /\ logged \subseteq Feeds

TasksTypeOK ==
    /\ task \in [Feeds -> Places]
    /\ slot \in [Feeds -> Slots \cup {None}]
    /\ drop \in [Feeds -> SUBSET Slots]

OutsideTypeOK ==
    /\ dmfr \in Repositories
    /\ published \in [Urls -> Zips]
    /\ stale \in [feed : Feeds \cup {None}, keep : SUBSET Slots, next : Nat]
    /\ faults \in [FaultKinds -> Nat]
    /\ showed \subseteq Feeds \X Zips
    /\ parted \subseteq Feeds \X Zips
    /\ torn \in [Feeds -> SUBSET Slots]
    /\ swung \subseteq Feeds

\* Tasks are there only in their stage, and know their zip and their attempt.
PlacesOK ==
    \A f \in Feeds :
        /\ task[f] # "none" => main = "tasks" /\ fetched[f] \in Zips
        /\ slot[f] \in Slots <=> task[f] \notin Before
        /\ drop[f] # {} => task[f] = "drop"

TypeInv == TablesTypeOK /\ RunTypeOK /\ TasksTypeOK /\ OutsideTypeOK /\ PlacesOK

\* The attempt of a task is recorded by RecordAttempt, as the newest one, and
\* the attempts it drops are recorded no more.
Attempts(f) ==
    /\ task[f] \in Unrecorded => slot[f] \notin Recorded(f)
    /\ task[f] = "assign" =>
          /\ order[f] # <<>>
          /\ order[f][Len(order[f])] = [id |-> slot[f], zip |-> fetched[f]]
    /\ task[f] = "drop" => slot[f] \in Recorded(f) /\ drop[f] \cap Recorded(f) = {}

\* What is shown is recorded, and is one attempt.
ShownOnce(f) ==
    /\ shown[f] \subseteq Recorded(f)
    /\ \A a, b \in shown[f] : a = b

\* A recorded attempt has all tables, one on its way those written so far.
Complete(f) ==
    /\ \A a \in Recorded(f) \ torn[f] : \A t \in Tables : rows[f][a][t] # None
    /\ task[f] \in Unrecorded /\ slot[f] \notin torn[f] =>
          \A t \in Written[task[f]] : rows[f][slot[f]][t] # None

\* Rows belong to an attempt that is recorded, on its way or being dropped.
Owned(f) ==
    faults["crash"] = 0 /\ faults["request"] = 0 =>
        \A a \in Slots : rows[f][a] # NoRows => a \in Recorded(f) \cup {slot[f]} \cup drop[f]

FeedInv(f) == Attempts(f) /\ ShownOnce(f) /\ Complete(f) /\ Owned(f)

AttemptInv == \A f \in Feeds : Attempts(f)
MapInv == \A f \in Feeds : FeedInv(f)

-------------------------------------------------------------------------------
(* The operators. *)

LEMMA TablesAre ==
    /\ Tables = {"agencies", "shapes", "calendar", "stops", "directions",
                 "itineraries", "trips", "routes", "feed_info"}
    /\ Unrecorded = {"agencies", "shapes", "calendar", "stops", "directions", "itineraries",
                     "trips", "routes", "feed_info", "static", "mark", "record", "failed"}
BY DEF Tables, InsertOrder, Range, Unrecorded, Written

LEMMA NoRowsType == NoRows \in [Tables -> Chateaux \cup {None}]
BY DEF NoRows

LEMMA RepositoryType ==
    ASSUME NEW r \in Repositories
    PROVE  /\ r.listed \subseteq Feeds /\ r.discarded \subseteq Feeds
           /\ \A f \in Feeds : r.url[f] \in Urls /\ r.chateau[f] \in Chateaux
<1>1. r.url \in [Feeds -> Urls] /\ r.chateau \in [Feeds -> Chateaux]
  BY ConstantsAssumption
<1>2. QED
  BY <1>1, ConstantsAssumption

LEMMA RecordedType ==
    ASSUME TablesTypeOK, NEW f \in Feeds
    PROVE  Recorded(f) \subseteq Slots
<1>1. order[f] \in Seq([id : Slots, zip : Zips])
  BY DEF TablesTypeOK
<1>2. \A i \in 1..Len(order[f]) : order[f][i] \in [id : Slots, zip : Zips]
  BY <1>1, ElementOfSeq
<1>3. DOMAIN order[f] = 1..Len(order[f])
  BY <1>1
<1>4. QED
  BY <1>2, <1>3 DEF Recorded, Range

\* The attempt that is appended is recorded with those before it.
LEMMA AppendRecords ==
    ASSUME TablesTypeOK, NEW f \in Feeds, NEW e \in [id : Slots, zip : Zips],
           order' = [order EXCEPT ![f] = Append(@, e)]
    PROVE  /\ Recorded(f)' = Recorded(f) \cup {e.id}
           /\ order'[f] # <<>> /\ order'[f][Len(order'[f])] = e
           /\ \A g \in Feeds \ {f} : order'[g] = order[g] /\ Recorded(g)' = Recorded(g)
<1>1. order[f] \in Seq([id : Slots, zip : Zips]) /\ order'[f] = Append(order[f], e)
  BY DEF TablesTypeOK
<1>2. /\ DOMAIN order'[f] = 1..Len(order[f]) + 1
      /\ \A i \in 1..Len(order[f]) : order'[f][i] = order[f][i]
      /\ order'[f][Len(order[f]) + 1] = e /\ Len(order'[f]) = Len(order[f]) + 1
      /\ DOMAIN order[f] = 1..Len(order[f]) /\ Len(order[f]) \in Nat
  BY <1>1
<1>3. Range(order'[f]) = Range(order[f]) \cup {e}
  <2>1. ASSUME NEW x \in Range(order'[f])
        PROVE  x \in Range(order[f]) \cup {e}
    BY <1>2, <2>1 DEF Range
  <2>2. ASSUME NEW x \in Range(order[f])
        PROVE  x \in Range(order'[f])
    BY <1>2, <2>2 DEF Range
  <2>3. e \in Range(order'[f])
    BY <1>2 DEF Range
  <2>4. QED
    BY <2>1, <2>2, <2>3
<1>4. order'[f] # <<>>
  BY <1>1, <1>2
<1>5. \A g \in Feeds \ {f} : order'[g] = order[g]
  BY DEF TablesTypeOK
<1>6. QED
  BY <1>2, <1>3, <1>4, <1>5 DEF Recorded

\* The newest attempt alone is recorded when the feed has it as its only entry.
LEMMA OneRecords ==
    ASSUME NEW s, NEW e, s = <<e>>
    PROVE  Range(s) = {e}
BY DEF Range

\* No attempt but a recorded one has an entry to take away.
LEMMA EntriesStay ==
    ASSUME NEW f \in Feeds, NEW a, a \notin Recorded(f)
    PROVE  EntriesWithout(f, a) = order[f]
BY DEF EntriesWithout

LEMMA DeletedType ==
    ASSUME NEW r \in [Tables -> Chateaux \cup {None}], NEW m, NEW n
    PROVE  /\ Deleted(r, m, n) \in [Tables -> Chateaux \cup {None}]
           /\ \A t \in Tables : Deleted(r, m, n)[t] \in {None, r[t]}
BY DEF Deleted

\* A move leaves every row where it is, in another chateau.
LEMMA MovedType ==
    ASSUME NEW r \in [Tables -> Chateaux \cup {None}], NEW c \in Chateaux, NEW n
    PROVE  /\ Moved(r, c, n) \in [Tables -> Chateaux \cup {None}]
           /\ \A t \in Tables : Moved(r, c, n)[t] = None <=> r[t] = None
BY ConstantsAssumption DEF Moved

\* What a deletion of rows of the attempts A of feed f does, however far it gets.
Removes(f, A) ==
    /\ rows' \in [Feeds -> [Slots -> [Tables -> Chateaux \cup {None}]]]
    /\ shown' \in [Feeds -> SUBSET Slots]
    /\ \A g \in Feeds \ {f} : rows'[g] = rows[g] /\ shown'[g] = shown[g]
    /\ shown'[f] = OnMap(shown[f], rows'[f])
    /\ \A a \in Slots :
          /\ \A t \in Tables : rows'[f][a][t] \in {None, rows[f][a][t]}
          /\ a \notin A => rows'[f][a] = rows[f][a]

LEMMA SetRowsRemoves ==
    ASSUME TablesTypeOK, NEW f \in Feeds, NEW A,
           NEW rs \in [Slots -> [Tables -> Chateaux \cup {None}]], SetRows(f, rs),
           \A a \in Slots : /\ \A t \in Tables : rs[a][t] \in {None, rows[f][a][t]}
                            /\ a \notin A => rs[a] = rows[f][a]
    PROVE  Removes(f, A)
<1>1. rows'[f] = rs /\ shown'[f] = OnMap(shown[f], rs)
  BY DEF SetRows, TablesTypeOK
<1>2. OnMap(shown[f], rs) \subseteq Slots
  BY DEF OnMap, TablesTypeOK
<1>3. /\ rows' \in [Feeds -> [Slots -> [Tables -> Chateaux \cup {None}]]]
      /\ shown' \in [Feeds -> SUBSET Slots]
      /\ \A g \in Feeds \ {f} : rows'[g] = rows[g] /\ shown'[g] = shown[g]
  BY <1>2 DEF SetRows, TablesTypeOK
<1>4. QED
  BY <1>1, <1>3 DEF Removes

LEMMA WipeRemoves ==
    ASSUME TablesTypeOK, NEW f \in Feeds, WipeDone(f) \/ WipeFailed(f)
    PROVE  /\ Removes(f, Slots)
           /\ order' = order \/ order' = [order EXCEPT ![f] = <<>>]
           /\ torn' = [torn EXCEPT ![f] = Slots]
<1>1. CASE WipeDone(f)
  <2>1. [a \in Slots |-> NoRows] \in [Slots -> [Tables -> Chateaux \cup {None}]]
    BY NoRowsType
  <2>2. SetRows(f, [a \in Slots |-> NoRows])
    BY <1>1 DEF WipeDone
  <2>3. QED
    BY <1>1, <2>1, <2>2, SetRowsRemoves DEF WipeDone, NoRows
<1>2. CASE WipeFailed(f)
  <2>1. PICK n \in 0..Len(DeleteOrder) : SetRows(f, [a \in Slots |-> Deleted(rows[f][a], 1, n)])
    BY <1>2 DEF WipeFailed
  <2>2. \A a \in Slots : rows[f][a] \in [Tables -> Chateaux \cup {None}]
    BY DEF TablesTypeOK
  <2>3. QED
    BY <1>2, <2>1, <2>2, SetRowsRemoves, DeletedType DEF WipeFailed
<1>3. QED
  BY <1>1, <1>2

LEMMA DeleteRemoves ==
    ASSUME TablesTypeOK, NEW f \in Feeds, NEW a \in Slots \ Recorded(f),
           DeleteDone(f, a) \/ DeleteFailed(f, a)
    PROVE  Removes(f, {a}) /\ order' = order
<1>1. CASE DeleteDone(f, a)
  <2>1. [rows[f] EXCEPT ![a] = NoRows] \in [Slots -> [Tables -> Chateaux \cup {None}]]
    BY NoRowsType DEF TablesTypeOK
  <2>2. SetRows(f, [rows[f] EXCEPT ![a] = NoRows])
    BY <1>1 DEF DeleteDone
  <2>3. order' = order
    BY <1>1, EntriesStay DEF DeleteDone, TablesTypeOK
  <2>4. \A b \in Slots :
            /\ \A t \in Tables : [rows[f] EXCEPT ![a] = NoRows][b][t] \in {None, rows[f][b][t]}
            /\ b # a => [rows[f] EXCEPT ![a] = NoRows][b] = rows[f][b]
    BY DEF NoRows, TablesTypeOK
  <2>5. QED
    BY <2>1, <2>2, <2>3, <2>4, SetRowsRemoves
<1>2. CASE DeleteFailed(f, a)
  <2>1. PICK n \in 0..Len(DeleteOrder) :
            SetRows(f, [rows[f] EXCEPT ![a] = Deleted(rows[f][a], 1, n)])
    BY <1>2 DEF DeleteFailed, TablesTypeOK
  <2>2. rows[f] \in [Slots -> [Tables -> Chateaux \cup {None}]]
    BY DEF TablesTypeOK
  <2>3. /\ Deleted(rows[f][a], 1, n) \in [Tables -> Chateaux \cup {None}]
        /\ \A t \in Tables : Deleted(rows[f][a], 1, n)[t] \in {None, rows[f][a][t]}
    BY <2>2, DeletedType
  <2>4. QED
    BY <1>2, <2>1, <2>2, <2>3, SetRowsRemoves DEF DeleteFailed
<1>3. QED
  BY <1>1, <1>2

LEMMA StaleRemoves ==
    ASSUME TablesTypeOK, StaleDelete, stale.feed \in Feeds
    PROVE  /\ Removes(stale.feed, Slots \ stale.keep)
           /\ torn' = [torn EXCEPT ![stale.feed] = @ \cup (Slots \ stale.keep)]
<1> DEFINE f == stale.feed
           rs == [a \in Slots |-> IF a \in Slots \ stale.keep
                                  THEN Deleted(rows[f][a], stale.next, stale.next + StaleTables - 1)
                                  ELSE rows[f][a]]
<1>1. \A a \in Slots : rows[f][a] \in [Tables -> Chateaux \cup {None}]
  BY DEF TablesTypeOK
<1>2. SetRows(f, rs) /\ torn' = [torn EXCEPT ![f] = @ \cup (Slots \ stale.keep)]
  BY DEF StaleDelete
<1>3. /\ rs \in [Slots -> [Tables -> Chateaux \cup {None}]]
      /\ \A a \in Slots : /\ \A t \in Tables : rs[a][t] \in {None, rows[f][a][t]}
                          /\ a \in stale.keep => rs[a] = rows[f][a]
  BY <1>1, DeletedType
<1> HIDE DEF rs
<1>4. QED
  BY <1>2, <1>3, SetRowsRemoves

-------------------------------------------------------------------------------
(* Types: for each group of variables, one step per action that writes it.   *)

LEMMA InitTypeInv == Init => TypeInv
<1> SUFFICES ASSUME Init PROVE TypeInv
  OBVIOUS
<1>1. TablesTypeOK
  BY NoRowsType DEF Init, TablesTypeOK
<1>2. RunTypeOK /\ TasksTypeOK /\ OutsideTypeOK /\ PlacesOK
  BY ConstantsAssumption
  DEF Init, RunTypeOK, TasksTypeOK, OutsideTypeOK, PlacesOK, Stages, Places, Before,
      NoStale, FaultKinds
<1>3. QED
  BY <1>1, <1>2 DEF TypeInv

LEMMA NoRun ==
    ASSUME Idle
    PROVE  RunTypeOK' /\ fetched' = [f \in Feeds |-> None] /\ main' = "idle"
BY DEF Idle, RunTypeOK, Stages

LEMMA RefreshEndsType ==
    ASSUME TypeInv, RefreshEnds
    PROVE  RunTypeOK' /\ main' # "tasks"
BY NoRun DEF RefreshEnds, Stage, TypeInv, RunTypeOK, Stages

LEMMA NextRunType ==
    ASSUME TypeInv, [Next]_vars
    PROVE  RunTypeOK'
<1> USE ConstantsAssumption DEF TypeInv, RunTypeOK, Stages, Stage
<1>1. CASE UNCHANGED run
  BY <1>1 DEF run
<1>2. ASSUME NEW m \in Modes, StartRun(m)
      PROVE  RunTypeOK'
  BY <1>2 DEF StartRun, OutsideTypeOK
<1>3. ASSUME NEW f \in Feeds, FeedStep(f)
      PROVE  RunTypeOK'
  <2>1. CASE DownloadFeed(f)
    <3>1. repo.url[f] \in Urls /\ published[repo.url[f]] \in Zips
      BY <2>1 DEF DownloadFeed, OutsideTypeOK
    <3>2. QED
      BY <2>1, <3>1 DEF DownloadFeed
  <2>2. CASE CopyCached(f)
    <3>1. repo.url[f] \in Urls
      BY <2>2 DEF CopyCached
    <3>2. QED
      BY <2>2, <3>1 DEF CopyCached
  <2>3. CASE DownloadNothing(f)
    BY <2>3 DEF DownloadNothing
  <2>4. CASE DiscardFeed(f)
    BY <2>4, NoRun DEF DiscardFeed
  <2>5. CASE MoveFeed(f)
    BY <2>5, RefreshEndsType DEF MoveFeed
  <2>6. CASE WipeGone(f)
    BY <2>6 DEF WipeGone
  <2>7. QED
    BY <1>3, <2>1, <2>2, <2>3, <2>4, <2>5, <2>6 DEF FeedStep
<1>4. CASE MainStep
  <2>1. CASE DownloadsEnd
    BY <2>1 DEF DownloadsEnd
  <2>2. CASE LogDownloads
    BY <2>2 DEF LogDownloads, Eligible
  <2>3. CASE RefreshChateaux
    BY <2>3, RefreshEndsType DEF RefreshChateaux
  <2>4. CASE RefreshDone
    BY <2>4, RefreshEndsType DEF RefreshDone
  <2>5. CASE Unpack
    BY <2>5 DEF Unpack
  <2>6. CASE TasksEnd \/ GoneEnd
    BY <2>6 DEF TasksEnd, GoneEnd
  <2>7. QED
    BY <1>4, <2>1, <2>2, <2>3, <2>4, <2>5, <2>6 DEF MainStep
<1>5. CASE Crash
  BY <1>5, NoRun DEF Crash
<1>6. ASSUME NEW f \in Feeds, TaskStep(f)
      PROVE  UNCHANGED run
  BY <1>6
  DEF TaskStep, StartTask, SkipFeed, WipeBefore, KeepBefore, TaskPanics, ReadFeed,
      InsertAgencies, InsertShapes, InsertCalendar, InsertStops, InsertDirections,
      InsertItineraries, InsertTrips, InsertRoutes, InsertFeedInfo, Insert,
      UpsertStaticFeed, MarkDownload, RecordAttempt, AssignProduction, DropAttempt,
      TaskDone, DeleteFailedAttempt
<1>7. ASSUME \/ \E u \in Urls : Publish(u)
             \/ ChangeRepository \/ StaleDelete \/ StaleFailed
             \/ \E f \in Feeds : StaleStart(f)
             \/ UNCHANGED vars
      PROVE  UNCHANGED run
  BY <1>7 DEF Publish, ChangeRepository, StaleDelete, StaleFailed, StaleStart, vars
<1>8. QED
  BY <1>1, <1>2, <1>3, <1>4, <1>5, <1>6, <1>7 DEF Next, RunStep

InsertStep(f) ==
    \/ InsertAgencies(f) \/ InsertShapes(f) \/ InsertCalendar(f) \/ InsertStops(f)
    \/ InsertDirections(f) \/ InsertItineraries(f) \/ InsertTrips(f) \/ InsertRoutes(f)
    \/ InsertFeedInfo(f)

\* Each table is inserted after all those written before it.
LEMMA InsertsInOrder ==
    ASSUME NEW f \in Feeds, InsertStep(f)
    PROVE  \E t \in Tables, next \in Unrecorded :
              Insert(f, t, next) /\ Written[next] \subseteq Written[t] \cup {t}
<1>1. /\ Written["agencies"] = {} /\ Written["shapes"] = {"agencies"}
      /\ Written["calendar"] = {"agencies", "shapes"}
      /\ Written["stops"] = {"agencies", "shapes", "calendar"}
      /\ Written["directions"] = {"agencies", "shapes", "calendar", "stops"}
      /\ Written["itineraries"] = {"agencies", "shapes", "calendar", "stops", "directions"}
      /\ Written["trips"] = {"agencies", "shapes", "calendar", "stops", "directions",
                             "itineraries"}
      /\ Written["routes"] = {"agencies", "shapes", "calendar", "stops", "directions",
                              "itineraries", "trips"}
      /\ Written["feed_info"] = Tables \ {"feed_info"}
      /\ Written["static"] = Tables
  BY DEF Written
<1>2. CASE InsertAgencies(f)
  BY <1>1, <1>2, TablesAre DEF InsertAgencies
<1>3. CASE InsertShapes(f)
  BY <1>1, <1>3, TablesAre DEF InsertShapes
<1>4. CASE InsertCalendar(f)
  BY <1>1, <1>4, TablesAre DEF InsertCalendar
<1>5. CASE InsertStops(f)
  BY <1>1, <1>5, TablesAre DEF InsertStops
<1>6. CASE InsertDirections(f)
  BY <1>1, <1>6, TablesAre DEF InsertDirections
<1>7. CASE InsertItineraries(f)
  BY <1>1, <1>7, TablesAre DEF InsertItineraries
<1>8. CASE InsertTrips(f)
  BY <1>1, <1>8, TablesAre DEF InsertTrips
<1>9. CASE InsertRoutes(f)
  BY <1>1, <1>9, TablesAre DEF InsertRoutes
<1>10. CASE InsertFeedInfo(f)
  BY <1>1, <1>10, TablesAre DEF InsertFeedInfo
<1>11. QED
  BY <1>2, <1>3, <1>4, <1>5, <1>6, <1>7, <1>8, <1>9, <1>10 DEF InsertStep

\* An insert writes the rows of one table of one attempt, or fails.
LEMMA InsertWrites ==
    ASSUME TypeInv, NEW f \in Feeds, NEW t \in Tables, NEW next \in Unrecorded,
           Insert(f, t, next)
    PROVE  /\ task[f] = t /\ slot[f] \in Slots
           /\ UNCHANGED <<ingested, order, shown, static, chateaux, slot, drop, torn, run>>
           /\ rows' \in [Feeds -> [Slots -> [Tables -> Chateaux \cup {None}]]]
           /\ \/ Fault("request") /\ task'[f] = "failed" /\ rows' = rows
              \/ /\ task'[f] = next /\ faults' = faults
                 /\ \A b \in Slots \ {slot[f]} : rows'[f][b] = rows[f][b]
                 /\ \A u \in Tables : IF u = t THEN rows'[f][slot[f]][u] # None
                                      ELSE rows'[f][slot[f]][u] = rows[f][slot[f]][u]
<1> DEFINE a == slot[f]
           c == repo.chateau[f]
           r == [rows[f][a] EXCEPT ![t] = c]
           rs == [rows[f] EXCEPT ![a] = r]
<1>1. /\ task[f] = t /\ a \in Slots /\ main = "tasks"
      /\ UNCHANGED <<ingested, order, shown, static, chateaux, slot, drop, torn, run>>
  BY TablesAre DEF Insert, TypeInv, PlacesOK, Before, history
<1>2. c \in Chateaux
  BY <1>1, RepositoryType DEF TypeInv, RunTypeOK
<1>3. rows[f] \in [Slots -> [Tables -> Chateaux \cup {None}]]
  BY DEF TypeInv, TablesTypeOK
<1>4. rows[f][a] \in [Tables -> Chateaux \cup {None}]
  BY <1>1, <1>3
<1>5. /\ r \in [Tables -> Chateaux \cup {None}]
      /\ \A u \in Tables : IF u = t THEN r[u] # None ELSE r[u] = rows[f][a][u]
  BY <1>2, <1>4, ConstantsAssumption
<1>6. CASE Fault("request") /\ task' = [task EXCEPT ![f] = "failed"] /\ rows' = rows
  BY <1>1, <1>6 DEF TypeInv, TasksTypeOK, TablesTypeOK
<1>7. CASE /\ rows' = [rows EXCEPT ![f][slot[f]][t] = repo.chateau[f]]
           /\ task' = [task EXCEPT ![f] = next] /\ faults' = faults
  <2>1. rows' = [rows EXCEPT ![f] = rs]
    BY <1>7
  <2> HIDE DEF r
  <2>2. /\ rs \in [Slots -> [Tables -> Chateaux \cup {None}]]
        /\ rs[a] = r /\ \A b \in Slots \ {a} : rs[b] = rows[f][b]
    BY <1>1, <1>3, <1>5
  <2> HIDE DEF rs
  <2>3. /\ rows' \in [Feeds -> [Slots -> [Tables -> Chateaux \cup {None}]]]
        /\ rows'[f] = rs
    BY <2>1, <2>2 DEF TypeInv, TablesTypeOK
  <2>4. task'[f] = next
    BY <1>7 DEF TypeInv, TasksTypeOK
  <2>5. QED
    BY <1>1, <1>5, <1>7, <2>2, <2>3, <2>4
<1>8. QED
  BY <1>6, <1>7 DEF Insert

\* The actions of no task, by what they leave alone.
Elsewhere ==
    \/ \E u \in Urls : Publish(u)
    \/ ChangeRepository \/ StaleDelete \/ StaleFailed
    \/ \E f \in Feeds : StaleStart(f)
    \/ \E m \in Modes : StartRun(m)
    \/ DownloadsEnd \/ LogDownloads \/ RefreshChateaux \/ RefreshDone \/ TasksEnd \/ GoneEnd
    \/ \E f \in Feeds : FeedStep(f)
    \/ UNCHANGED vars

LEMMA ElsewhereTasks == Elsewhere => UNCHANGED tasks
BY DEF Elsewhere, Publish, ChangeRepository, StaleDelete, StaleFailed, StaleStart, StartRun,
   DownloadsEnd, LogDownloads, RefreshChateaux, RefreshDone, TasksEnd, GoneEnd, FeedStep,
   DownloadFeed, CopyCached, DownloadNothing, DiscardFeed, MoveFeed, WipeGone, vars

LEMMA NextCases ==
    ASSUME [Next]_vars
    PROVE  Elsewhere \/ Unpack \/ Crash \/ \E f \in Feeds : TaskStep(f)
BY DEF Next, RunStep, MainStep, Elsewhere

LEMMA NextTasksType ==
    ASSUME TypeInv, [Next]_vars
    PROVE  TasksTypeOK'
<1> USE TablesAre DEF TypeInv, TasksTypeOK, Places, Before
<1>1. CASE Elsewhere
  BY <1>1, ElsewhereTasks DEF tasks
<1>2. CASE Unpack
  BY <1>2 DEF Unpack
<1>3. CASE Crash
  BY <1>3 DEF Crash
<1>4. ASSUME NEW f \in Feeds, TaskStep(f)
      PROVE  TasksTypeOK'
  <2>1. CASE EndTask(f)
    BY <2>1 DEF EndTask
  <2>2. CASE InsertStep(f)
    <3>1. PICK t \in Tables, next \in Unrecorded : Insert(f, t, next)
      BY <2>2, InsertsInOrder
    <3>2. next \in Places /\ "failed" \in Places
      BY DEF Unrecorded
    <3>3. /\ task' = [task EXCEPT ![f] = next] \/ task' = [task EXCEPT ![f] = "failed"]
          /\ UNCHANGED <<slot, drop>>
      BY <3>1 DEF Insert
    <3> HIDE DEF Places
    <3>4. QED
      BY <3>2, <3>3
  <2>3. CASE ReadFeed(f)
    BY <2>3 DEF ReadFeed, FreeSlots, InsertOrder
  <2>4. CASE StartTask(f) \/ WipeBefore(f) \/ KeepBefore(f) \/ UpsertStaticFeed(f)
             \/ MarkDownload(f) \/ RecordAttempt(f)
    BY <2>1, <2>4 DEF StartTask, WipeBefore, KeepBefore, UpsertStaticFeed, MarkDownload,
       RecordAttempt
  <2>5. CASE AssignProduction(f)
    BY <2>1, <2>5, RecordedType DEF AssignProduction
  <2>6. CASE DropAttempt(f)
    BY <2>6 DEF DropAttempt
  <2>7. CASE SkipFeed(f) \/ TaskPanics(f) \/ TaskDone(f) \/ DeleteFailedAttempt(f)
    BY <2>1, <2>7 DEF SkipFeed, TaskPanics, TaskDone, DeleteFailedAttempt
  <2>8. QED
    BY <1>4, <2>2, <2>3, <2>4, <2>5, <2>6, <2>7 DEF TaskStep, InsertStep
<1>5. QED
  BY <1>1, <1>2, <1>3, <1>4, NextCases

\* The transaction of assign_production_tables, when it commits.
Assigns(f) ==
    /\ order'[f] = <<[id |-> slot[f], zip |-> fetched[f]]>>
    /\ rows' \in [Feeds -> [Slots -> [Tables -> Chateaux \cup {None}]]]
    /\ shown'[f] = OnMap(shown[f] \cup {slot[f]}, rows'[f])
    /\ \A g \in Feeds \ {f} :
          order'[g] = order[g] /\ rows'[g] = rows[g] /\ shown'[g] = shown[g]
    /\ \A a \in Slots :
          IF a \in Recorded(f) \ {slot[f]}
          THEN rows'[f][a]["shapes"] = None /\ rows'[f][a]["stops"] = None
          ELSE rows'[f][a] = rows[f][a]
    /\ order' \in [Feeds -> Seq([id : Slots, zip : Zips])]
    /\ shown' \in [Feeds -> SUBSET Slots]
    /\ task' = [task EXCEPT ![f] = "drop"]
    /\ drop' = [drop EXCEPT ![f] = Recorded(f) \ {slot[f]}]
    /\ showed' = showed \cup {<<f, fetched[f]>>}
    /\ UNCHANGED <<slot, faults, parted>>

LEMMA AssignEffect ==
    ASSUME TypeInv, AttemptInv, NEW f \in Feeds, AssignProduction(f)
    PROVE  \/ Assigns(f)
           \/ Fault("request") /\ EndTask(f) /\ Part(f) /\ UNCHANGED <<rows, shown, order, showed>>
<1> DEFINE newest == [id |-> slot[f], zip |-> fetched[f]]
           rs == Cleared(f, Recorded(f) \ {slot[f]})
<1>1. /\ order[f][Len(order[f])] = newest /\ newest.id = slot[f] /\ newest.zip = fetched[f]
      /\ slot[f] \in Slots /\ fetched[f] \in Zips
  BY DEF AssignProduction, AttemptInv, Attempts, TypeInv, PlacesOK, Before
<1>2. ASSUME rows' = [rows EXCEPT ![f] = rs],
             shown' = [shown EXCEPT ![f] = OnMap(@ \cup {slot[f]}, rs)],
             order' = [order EXCEPT ![f] = <<newest>>],
             drop' = [drop EXCEPT ![f] = Recorded(f) \ {slot[f]}],
             task' = [task EXCEPT ![f] = "drop"],
             showed' = showed \cup {<<f, fetched[f]>>},
             UNCHANGED <<slot, faults, parted>>
      PROVE  Assigns(f)
  <2>1. /\ rs \in [Slots -> [Tables -> Chateaux \cup {None}]]
        /\ \A a \in Slots :
              IF a \in Recorded(f) \ {slot[f]}
              THEN rs[a]["shapes"] = None /\ rs[a]["stops"] = None
              ELSE rs[a] = rows[f][a]
    <3>1. \A a \in Slots : rows[f][a] \in [Tables -> Chateaux \cup {None}]
      BY DEF TypeInv, TablesTypeOK
    <3>2. "shapes" \in Tables /\ "stops" \in Tables
      BY TablesAre
    <3>3. QED
      BY <3>1, <3>2 DEF Cleared
  <2>2. OnMap(shown[f] \cup {slot[f]}, rs) \in SUBSET Slots
    BY <1>1 DEF OnMap, TypeInv, TablesTypeOK
  <2>3. <<newest>> \in Seq([id : Slots, zip : Zips])
    BY <1>1
  <2> HIDE DEF rs
  <2>4. /\ rows'[f] = rs
        /\ rows' \in [Feeds -> [Slots -> [Tables -> Chateaux \cup {None}]]]
        /\ \A g \in Feeds \ {f} : rows'[g] = rows[g]
    BY <1>2, <2>1 DEF TypeInv, TablesTypeOK
  <2>5. /\ shown'[f] = OnMap(shown[f] \cup {slot[f]}, rs)
        /\ shown' \in [Feeds -> SUBSET Slots]
        /\ \A g \in Feeds \ {f} : shown'[g] = shown[g]
    BY <1>2, <2>2 DEF TypeInv, TablesTypeOK
  <2>6. /\ order'[f] = <<newest>>
        /\ order' \in [Feeds -> Seq([id : Slots, zip : Zips])]
        /\ \A g \in Feeds \ {f} : order'[g] = order[g]
    BY <1>2, <2>3 DEF TypeInv, TablesTypeOK
  <2>7. QED
    BY <1>2, <2>1, <2>4, <2>5, <2>6 DEF Assigns
<1> HIDE DEF rs, newest
<1>3. QED
  BY <1>1, <1>2 DEF AssignProduction, rs

LEMMA NextTablesType ==
    ASSUME TypeInv, AttemptInv, [Next]_vars
    PROVE  TablesTypeOK'
<1>1. CASE UNCHANGED tables
  BY <1>1 DEF tables, TypeInv, TablesTypeOK
<1>2. ASSUME NEW f \in Feeds, WipeDone(f) \/ WipeFailed(f),
             ingested' = ingested, chateaux' = chateaux,
             static' = static \/ static' = [static EXCEPT ![f] = None]
      PROVE  TablesTypeOK'
  <2>1. <<>> \in Seq([id : Slots, zip : Zips])
    OBVIOUS
  <2>2. QED
    <3>1. /\ Removes(f, Slots)
          /\ order' = order \/ order' = [order EXCEPT ![f] = <<>>]
      BY <1>2, WipeRemoves DEF TypeInv
    <3>2. order' \in [Feeds -> Seq([id : Slots, zip : Zips])]
      BY <2>1, <3>1 DEF TypeInv, TablesTypeOK
    <3>3. static' \in [Feeds -> Chateaux \cup {None}]
      BY <1>2 DEF TypeInv, TablesTypeOK
    <3>4. QED
      BY <1>2, <3>1, <3>2, <3>3 DEF TypeInv, TablesTypeOK, Removes
<1>3. ASSUME NEW f \in Feeds, NEW a \in Slots \ Recorded(f),
             DeleteDone(f, a) \/ DeleteFailed(f, a), UNCHANGED <<ingested, static, chateaux>>
      PROVE  TablesTypeOK'
  BY <1>3, DeleteRemoves DEF TypeInv, TablesTypeOK, Removes
<1>4. CASE StaleDelete
  <2>1. stale.feed \in Feeds
    BY <1>4 DEF StaleDelete, TypeInv, OutsideTypeOK
  <2>2. QED
    BY <1>4, <2>1, StaleRemoves DEF StaleDelete, TypeInv, TablesTypeOK, Removes
<1>5. ASSUME NEW f \in Feeds, FeedStep(f)
      PROVE  TablesTypeOK'
  <2>1. CASE DownloadFeed(f) \/ CopyCached(f) \/ DownloadNothing(f)
    BY <1>1, <2>1 DEF DownloadFeed, CopyCached, DownloadNothing
  <2>2. CASE DiscardFeed(f) \/ WipeGone(f)
    BY <1>2, <2>2 DEF DiscardFeed, WipeGone
  <2>3. CASE MoveFeed(f)
    <3>1. repo.chateau[f] \in Chateaux
      BY <2>3, RepositoryType DEF MoveFeed, TypeInv, RunTypeOK
    <3>2. ASSUME NEW n
          PROVE  [a \in Slots |-> Moved(rows[f][a], repo.chateau[f], n)]
                    \in [Slots -> [Tables -> Chateaux \cup {None}]]
      <4>1. \A a \in Slots : rows[f][a] \in [Tables -> Chateaux \cup {None}]
        BY DEF TypeInv, TablesTypeOK
      <4>2. QED
        BY <3>1, <4>1, MovedType
    <3>3. PICK n : rows' = [rows EXCEPT ![f] = [a \in Slots |-> Moved(rows[f][a], repo.chateau[f], n)]]
      BY <2>3 DEF MoveFeed
    <3>4. rows' \in [Feeds -> [Slots -> [Tables -> Chateaux \cup {None}]]]
      BY <3>2, <3>3 DEF TypeInv, TablesTypeOK
    <3>5. QED
      BY <2>3, <3>1, <3>4 DEF MoveFeed, TypeInv, TablesTypeOK
  <2>4. QED
    BY <1>5, <2>1, <2>2, <2>3 DEF FeedStep
<1>6. CASE RefreshChateaux
  <2>1. {repo.chateau[f] : f \in repo.listed} \subseteq Chateaux
    BY <1>6, RepositoryType DEF RefreshChateaux, TypeInv, RunTypeOK
  <2>2. chateaux' \subseteq Chateaux
    BY <1>6, <2>1 DEF RefreshChateaux, TypeInv, TablesTypeOK
  <2>3. QED
    BY <1>6, <2>2 DEF RefreshChateaux, TypeInv, TablesTypeOK
<1>7. ASSUME NEW f \in Feeds, TaskStep(f)
      PROVE  TablesTypeOK'
  <2>1. CASE StartTask(f) \/ KeepBefore(f) \/ TaskPanics(f) \/ ReadFeed(f) \/ TaskDone(f)
    BY <1>1, <2>1 DEF StartTask, KeepBefore, TaskPanics, ReadFeed, TaskDone
  <2>2. ASSUME MarkIngested(f), fetched[f] \in Zips, UNCHANGED <<order, rows, shown, static, chateaux>>
        PROVE  TablesTypeOK'
    <3>1. <<f, fetched[f]>> \in Feeds \X Zips
      BY <2>2
    <3>2. ingested' \subseteq Feeds \X Zips
      BY <2>2, <3>1 DEF MarkIngested, TypeInv, TablesTypeOK
    <3>3. QED
      BY <2>2, <3>2 DEF TypeInv, TablesTypeOK
  <2>3. CASE SkipFeed(f) \/ MarkDownload(f)
    BY <2>2, <2>3 DEF SkipFeed, MarkDownload, TypeInv, PlacesOK
  <2>4. CASE WipeBefore(f)
    BY <1>2, <2>4 DEF WipeBefore
  <2>5. ASSUME task[f] # "none"
        PROVE  repo.chateau[f] \in Chateaux
    BY <2>5, RepositoryType DEF TypeInv, PlacesOK, RunTypeOK
  <2>6. CASE InsertStep(f)
    BY <2>6, InsertsInOrder, InsertWrites DEF TypeInv, TablesTypeOK
  <2>7. CASE UpsertStaticFeed(f)
    BY <2>5, <2>7 DEF UpsertStaticFeed, TypeInv, TablesTypeOK
  <2>8. CASE RecordAttempt(f)
    <3>1. slot[f] \in Slots /\ fetched[f] \in Zips
      BY <2>8 DEF RecordAttempt, TypeInv, PlacesOK, Before
    <3>2. Append(order[f], [id |-> slot[f], zip |-> fetched[f]]) \in Seq([id : Slots, zip : Zips])
      <4>1. order[f] \in Seq([id : Slots, zip : Zips])
        BY DEF TypeInv, TablesTypeOK
      <4>2. [id |-> slot[f], zip |-> fetched[f]] \in [id : Slots, zip : Zips]
        BY <3>1
      <4>3. QED
        BY <4>1, <4>2, AppendProperties
    <3>3. QED
      BY <2>8, <3>2 DEF RecordAttempt, TypeInv, TablesTypeOK
  <2>9. CASE AssignProduction(f)
    BY <1>1, <2>9, AssignEffect DEF AssignProduction, Assigns, TypeInv, TablesTypeOK, tables
  <2>10. CASE DropAttempt(f)
    BY <1>3, <2>10 DEF DropAttempt, TypeInv, TasksTypeOK, AttemptInv, Attempts
  <2>11. CASE DeleteFailedAttempt(f)
    <3>1. slot[f] \in Slots \ Recorded(f)
      BY <2>11, TablesAre DEF DeleteFailedAttempt, TypeInv, PlacesOK, AttemptInv, Attempts, Before
    <3>2. QED
      BY <1>1, <1>3, <2>11, <3>1 DEF DeleteFailedAttempt, MarkFailed, tables
  <2>12. QED
    BY <1>7, <2>1, <2>3, <2>4, <2>6, <2>7, <2>8, <2>9, <2>10, <2>11 DEF TaskStep, InsertStep
<1>8. ASSUME \/ Unpack \/ Crash \/ \E u \in Urls : Publish(u)
             \/ ChangeRepository \/ StaleFailed
             \/ \E f \in Feeds : StaleStart(f)
             \/ \E m \in Modes : StartRun(m)
             \/ DownloadsEnd \/ LogDownloads \/ RefreshDone \/ TasksEnd \/ GoneEnd
             \/ UNCHANGED vars
      PROVE  UNCHANGED tables
  BY <1>8 DEF Unpack, Crash, Publish, ChangeRepository, StaleFailed, StaleStart, StartRun,
     DownloadsEnd, LogDownloads, RefreshDone, TasksEnd, GoneEnd, vars
<1>9. QED
  BY <1>1, <1>4, <1>5, <1>6, <1>7, <1>8 DEF Next, RunStep, MainStep

\* Every event of the environment is counted, and only that.
LEMMA FaultsAreCounted ==
    ASSUME [Next]_vars
    PROVE  faults' = faults \/ \E k \in FaultKinds : Fault(k)
<1> USE DEF FaultKinds
<1>1. ASSUME \/ \E u \in Urls : Publish(u)
             \/ ChangeRepository \/ StaleDelete \/ StaleFailed
             \/ \E f \in Feeds : StaleStart(f)
             \/ \E m \in Modes : StartRun(m)
             \/ Crash \/ UNCHANGED vars
      PROVE  faults' = faults \/ \E k \in FaultKinds : Fault(k)
  BY <1>1 DEF Publish, ChangeRepository, StaleDelete, StaleFailed, StaleStart, StartRun,
     Crash, vars
<1>2. ASSUME MainStep
      PROVE  faults' = faults \/ Fault("request")
  BY <1>2 DEF MainStep, DownloadsEnd, LogDownloads, RefreshChateaux, RefreshDone, Unpack,
     TasksEnd, GoneEnd
<1>3. ASSUME NEW f \in Feeds, FeedStep(f)
      PROVE  faults' = faults \/ Fault("request") \/ Fault("http")
  BY <1>3 DEF FeedStep, DownloadFeed, CopyCached, DownloadNothing, DiscardFeed, MoveFeed,
     WipeGone, WipeDone, WipeFailed
<1>4. ASSUME NEW f \in Feeds, TaskStep(f)
      PROVE  faults' = faults \/ Fault("request")
  <2>1. CASE InsertStep(f)
    BY <2>1, InsertsInOrder DEF Insert
  <2>2. CASE StartTask(f) \/ SkipFeed(f) \/ WipeBefore(f) \/ KeepBefore(f) \/ TaskPanics(f)
             \/ ReadFeed(f) \/ UpsertStaticFeed(f) \/ MarkDownload(f)
    BY <2>2 DEF StartTask, SkipFeed, MarkIngested, WipeBefore, WipeDone, WipeFailed,
       KeepBefore, TaskPanics, ReadFeed, UpsertStaticFeed, MarkDownload
  <2>3. CASE RecordAttempt(f) \/ AssignProduction(f) \/ DropAttempt(f) \/ TaskDone(f)
             \/ DeleteFailedAttempt(f)
    BY <2>3 DEF RecordAttempt, AssignProduction, DropAttempt, TaskDone,
       DeleteFailedAttempt, DeleteDone, DeleteFailed
  <2>4. QED
    BY <1>4, <2>1, <2>2, <2>3 DEF TaskStep, InsertStep
<1>5. QED
  BY <1>1, <1>2, <1>3, <1>4 DEF Next, RunStep

LEMMA FaultsType ==
    ASSUME OutsideTypeOK, [Next]_vars
    PROVE  /\ faults' \in [FaultKinds -> Nat]
           /\ \A k \in FaultKinds : faults'[k] >= faults[k]
           /\ \A k \in FaultKinds : Fault(k) => faults'[k] > 0
<1>1. ASSUME NEW k \in FaultKinds, Fault(k)
      PROVE  /\ faults' \in [FaultKinds -> Nat]
             /\ \A j \in FaultKinds : faults'[j] >= faults[j]
             /\ faults'[k] > 0
  BY <1>1 DEF Fault, OutsideTypeOK
<1>2. QED
  BY <1>1, FaultsAreCounted DEF OutsideTypeOK

LEMMA EndTaskEffect ==
    ASSUME TasksTypeOK, NEW f \in Feeds, EndTask(f)
    PROVE  /\ task'[f] = "none" /\ slot'[f] = None /\ drop'[f] = {}
           /\ \A g \in Feeds \ {f} : task'[g] = task[g] /\ slot'[g] = slot[g] /\ drop'[g] = drop[g]
BY DEF EndTask, TasksTypeOK

\* A step of the task of feed f is none of the run or of another task.
LEMMA TaskStepEffect ==
    ASSUME TypeInv, AttemptInv, NEW f \in Feeds, TaskStep(f)
    PROVE  /\ task[f] # "none" /\ UNCHANGED <<run, dmfr, published, stale, swung>>
           /\ \A g \in Feeds \ {f} : task'[g] = task[g] /\ slot'[g] = slot[g] /\ drop'[g] = drop[g]
<1> USE DEF TypeInv, TasksTypeOK
<1>1. ASSUME EndTask(f)
      PROVE  \A g \in Feeds \ {f} : task'[g] = task[g] /\ slot'[g] = slot[g] /\ drop'[g] = drop[g]
  BY <1>1, EndTaskEffect
<1>2. CASE InsertStep(f)
  <2>1. PICK t \in Tables, next \in Unrecorded : Insert(f, t, next)
    BY <1>2, InsertsInOrder
  <2>2. QED
    BY <2>1, TablesAre DEF Insert, run, tasks, history
<1>3. CASE StartTask(f) \/ KeepBefore(f) \/ WipeBefore(f) \/ ReadFeed(f)
  BY <1>3 DEF StartTask, KeepBefore, WipeBefore, ReadFeed, run, tasks, history
<1>4. CASE UpsertStaticFeed(f) \/ MarkDownload(f) \/ RecordAttempt(f) \/ DropAttempt(f)
  BY <1>1, <1>4 DEF UpsertStaticFeed, MarkDownload, RecordAttempt, DropAttempt, run, tasks, history
<1>5. CASE AssignProduction(f)
  <2>1. EndTask(f) \/ Assigns(f)
    BY <1>5, AssignEffect
  <2>2. QED
    BY <1>1, <1>5, <2>1 DEF AssignProduction, Assigns
<1>6. CASE SkipFeed(f) \/ TaskPanics(f) \/ TaskDone(f) \/ DeleteFailedAttempt(f)
  BY <1>1, <1>6 DEF SkipFeed, TaskPanics, TaskDone, DeleteFailedAttempt, run, tasks, history
<1>7. QED
  BY <1>2, <1>3, <1>4, <1>5, <1>6 DEF TaskStep, InsertStep

LEMMA NextOutsideType ==
    ASSUME TypeInv, AttemptInv, [Next]_vars
    PROVE  OutsideTypeOK'
<1> USE DEF TypeInv, OutsideTypeOK, TasksTypeOK
<1>1. faults' \in [FaultKinds -> Nat]
  BY FaultsType
<1>2. CASE Elsewhere
  <2>1. dmfr' \in Repositories /\ published' \in [Urls -> Zips]
    BY <1>2 DEF Elsewhere, Publish, ChangeRepository, StaleDelete, StaleFailed, StaleStart,
       StartRun, DownloadsEnd, LogDownloads, RefreshChateaux, RefreshDone, TasksEnd, GoneEnd,
       FeedStep, DownloadFeed, CopyCached, DownloadNothing, DiscardFeed, MoveFeed, WipeGone,
       vars
  <2>2. CASE StaleDelete
    <3>1. stale.feed \in Feeds
      BY <2>2 DEF StaleDelete
    <3>2. torn' \in [Feeds -> SUBSET Slots]
      BY <2>2, <3>1, StaleRemoves
    <3>3. stale' \in [feed : Feeds \cup {None}, keep : SUBSET Slots, next : Nat]
      BY <2>2, ConstantsAssumption DEF StaleDelete, StaleNext, NoStale, DeleteOrder
    <3>4. QED
      BY <1>1, <2>1, <2>2, <3>2, <3>3 DEF StaleDelete
  <2>3. ASSUME NEW f \in Feeds, StaleStart(f)
        PROVE  OutsideTypeOK'
    BY <1>1, <2>1, <2>3, RecordedType DEF StaleStart, history
  <2>4. CASE StaleFailed \/ ChangeRepository
    BY <1>1, <2>1, <2>4 DEF StaleFailed, ChangeRepository, NoStale, history
  <2>5. ASSUME NEW f \in Feeds, DiscardFeed(f) \/ WipeGone(f)
        PROVE  OutsideTypeOK'
    BY <1>1, <2>1, <2>5, WipeRemoves DEF DiscardFeed, WipeGone
  <2>6. ASSUME \/ \E u \in Urls : Publish(u)
               \/ \E m \in Modes : StartRun(m)
               \/ DownloadsEnd \/ LogDownloads \/ RefreshChateaux \/ RefreshDone
               \/ TasksEnd \/ GoneEnd \/ UNCHANGED vars
               \/ \E f \in Feeds : DownloadFeed(f) \/ CopyCached(f) \/ DownloadNothing(f)
                                   \/ MoveFeed(f)
        PROVE  UNCHANGED <<stale, history>>
    BY <2>6 DEF Publish, StartRun, DownloadsEnd, LogDownloads, RefreshChateaux, RefreshDone,
       TasksEnd, GoneEnd, DownloadFeed, CopyCached, DownloadNothing, MoveFeed, vars
  <2>7. ASSUME UNCHANGED <<stale, history>>
        PROVE  OutsideTypeOK'
    BY <1>1, <2>1, <2>7 DEF history
  <2>8. QED
    BY <1>2, <2>2, <2>3, <2>4, <2>5, <2>6, <2>7 DEF Elsewhere, FeedStep
<1>3. CASE Unpack
  BY <1>1, <1>3 DEF Unpack, history
<1>4. CASE Crash
  <2>1. \A f \in Feeds : task[f] # "none" => <<f, fetched[f]>> \in Feeds \X Zips
    BY DEF PlacesOK
  <2>2. {<<f, fetched[f]>> : f \in {g \in Feeds : task[g] \in {"record", "assign"}}}
           \subseteq Feeds \X Zips
    BY <2>1
  <2>3. QED
    BY <1>1, <1>4, <2>2 DEF Crash, tables
<1>5. ASSUME NEW f \in Feeds, TaskStep(f)
      PROVE  OutsideTypeOK'
  <2>1. task[f] # "none" /\ UNCHANGED <<dmfr, published, stale, swung>>
    BY <1>5, TaskStepEffect
  <2>2. <<f, fetched[f]>> \in Feeds \X Zips
    BY <2>1 DEF PlacesOK
  <2>3. CASE SkipFeed(f)
    BY <1>1, <2>1, <2>2, <2>3 DEF SkipFeed
  <2>4. CASE WipeBefore(f)
    BY <1>1, <2>1, <2>4, WipeRemoves DEF WipeBefore
  <2>5. CASE ReadFeed(f)
    BY <1>1, <2>1, <2>5 DEF ReadFeed
  <2>6. CASE RecordAttempt(f)
    BY <1>1, <2>1, <2>2, <2>6 DEF RecordAttempt, Part
  <2>7. CASE AssignProduction(f)
    <3>1. /\ showed' = showed \/ showed' = showed \cup {<<f, fetched[f]>>}
          /\ parted' = parted \/ Part(f)
      BY <2>7, AssignEffect DEF Assigns
    <3>2. QED
      BY <1>1, <2>1, <2>2, <2>7, <3>1 DEF AssignProduction, Part
  <2>8. ASSUME \/ StartTask(f) \/ KeepBefore(f) \/ TaskPanics(f) \/ InsertStep(f)
               \/ UpsertStaticFeed(f) \/ MarkDownload(f) \/ DropAttempt(f) \/ TaskDone(f)
               \/ DeleteFailedAttempt(f)
        PROVE  UNCHANGED history
    BY <2>8, InsertsInOrder DEF StartTask, KeepBefore, TaskPanics, Insert, UpsertStaticFeed,
       MarkDownload, DropAttempt, TaskDone, DeleteFailedAttempt
  <2>9. QED
    BY <1>1, <1>5, <2>1, <2>3, <2>4, <2>5, <2>6, <2>7, <2>8 DEF TaskStep, InsertStep, history
<1>6. QED
  BY <1>2, <1>3, <1>4, <1>5, NextCases

LEMMA ElsewherePlaces ==
    ASSUME TypeInv, Elsewhere, NEW f \in Feeds, task[f] # "none"
    PROVE  UNCHANGED <<main, fetched>>
<1>1. main = "tasks"
  BY DEF TypeInv, PlacesOK
<1>2. QED
  BY <1>1
  DEF Elsewhere, Publish, ChangeRepository, StaleDelete, StaleFailed, StaleStart, StartRun,
      DownloadsEnd, LogDownloads, RefreshChateaux, RefreshDone, TasksEnd, GoneEnd, FeedStep,
      DownloadFeed, CopyCached, DownloadNothing, DiscardFeed, MoveFeed, WipeGone, vars, run

LEMMA NextPlaces ==
    ASSUME TypeInv, AttemptInv, [Next]_vars, RunTypeOK', TasksTypeOK'
    PROVE  PlacesOK'
<1> USE TablesAre DEF Before
<1>1. CASE Elsewhere
  <2>1. UNCHANGED tasks
    BY <1>1, ElsewhereTasks
  <2>2. QED
    BY <1>1, <2>1, ElsewherePlaces DEF TypeInv, PlacesOK, tasks
<1>2. CASE Unpack
  <2>1. \A f \in Feeds : task[f] = "none"
    BY <1>2 DEF Unpack, TypeInv, PlacesOK
  <2>2. \A f \in Feeds : slot[f] \notin Slots /\ drop[f] = {}
    BY <2>1 DEF TypeInv, PlacesOK
  <2>3. \A f \in Feeds : task'[f] = "none" \/ (task'[f] = "queued" /\ fetched[f] # None)
    BY <1>2 DEF Unpack
  <2>4. main' = "tasks" /\ fetched' = fetched /\ slot' = slot /\ drop' = drop
    BY <1>2 DEF Unpack, Stage
  <2>5. QED
    BY <2>2, <2>3, <2>4 DEF TypeInv, RunTypeOK, PlacesOK
<1>3. CASE Crash
  BY <1>3, ConstantsAssumption DEF Crash, PlacesOK
<1>4. ASSUME NEW f \in Feeds, TaskStep(f)
      PROVE  PlacesOK'
  <2>1. /\ task[f] # "none" /\ main' = main /\ fetched' = fetched
        /\ \A g \in Feeds \ {f} : task'[g] = task[g] /\ slot'[g] = slot[g] /\ drop'[g] = drop[g]
    BY <1>4, TaskStepEffect DEF run
  <2>2. /\ slot'[f] \in Slots <=> task'[f] \notin Before
        /\ drop'[f] # {} => task'[f] = "drop"
    <3> USE DEF TypeInv, PlacesOK, TasksTypeOK
    <3>1. CASE EndTask(f)
      BY <3>1, EndTaskEffect, ConstantsAssumption
    <3>2. CASE InsertStep(f)
      <4>1. PICK t \in Tables, next \in Unrecorded : Insert(f, t, next)
        BY <3>2, InsertsInOrder
      <4>2. task[f] = t /\ task'[f] \in {next, "failed"} /\ UNCHANGED <<slot, drop>>
        BY <4>1 DEF Insert
      <4>3. QED
        BY <4>2
    <3>3. CASE StartTask(f) \/ KeepBefore(f) \/ WipeBefore(f)
      BY <3>3 DEF StartTask, KeepBefore, WipeBefore
    <3>4. CASE ReadFeed(f)
      BY <3>4 DEF ReadFeed, FreeSlots, InsertOrder
    <3>5. CASE UpsertStaticFeed(f) \/ MarkDownload(f) \/ RecordAttempt(f) \/ DropAttempt(f)
      BY <3>1, <3>5 DEF UpsertStaticFeed, MarkDownload, RecordAttempt, DropAttempt
    <3>6. CASE AssignProduction(f)
      <4>1. task[f] = "assign"
        BY <3>6 DEF AssignProduction
      <4>2. CASE Assigns(f)
        BY <4>1, <4>2 DEF Assigns
      <4>3. QED
        BY <3>1, <3>6, <4>2, AssignEffect
    <3>7. CASE SkipFeed(f) \/ TaskPanics(f) \/ TaskDone(f) \/ DeleteFailedAttempt(f)
      BY <3>1, <3>7 DEF SkipFeed, TaskPanics, TaskDone, DeleteFailedAttempt
    <3>8. QED
      BY <1>4, <3>2, <3>3, <3>4, <3>5, <3>6, <3>7 DEF TaskStep, InsertStep
  <2>3. QED
    BY <2>1, <2>2 DEF TypeInv, PlacesOK
<1>5. QED
  BY <1>1, <1>2, <1>3, <1>4, NextCases

LEMMA NextTypeInv ==
    ASSUME TypeInv, AttemptInv, [Next]_vars
    PROVE  TypeInv'
BY NextRunType, NextTasksType, NextTablesType, NextOutsideType, NextPlaces DEF TypeInv

-------------------------------------------------------------------------------
(* The attempts of a feed: its invariant is kept by what does not touch the   *)
(* feed, and by each step that does.                                          *)

\* A crash or a failed statement is not forgotten.
LEMMA FaultsStay ==
    ASSUME TypeInv, [Next]_vars, faults'["crash"] = 0 /\ faults'["request"] = 0
    PROVE  faults["crash"] = 0 /\ faults["request"] = 0 /\ ~Fault("crash") /\ ~Fault("request")
<1>1. /\ "crash" \in FaultKinds /\ "request" \in FaultKinds
      /\ faults["crash"] \in Nat /\ faults["request"] \in Nat
  BY DEF TypeInv, OutsideTypeOK, FaultKinds
<1>2. QED
  BY <1>1, FaultsType DEF TypeInv

LEMMA SameFeed ==
    ASSUME TypeInv, [Next]_vars, NEW f \in Feeds, FeedInv(f),
           order'[f] = order[f], rows'[f] = rows[f], shown'[f] = shown[f], torn'[f] = torn[f],
           task'[f] = task[f], slot'[f] = slot[f], drop'[f] = drop[f], fetched'[f] = fetched[f]
    PROVE  FeedInv(f)'
<1>1. Recorded(f)' = Recorded(f)
  BY DEF Recorded
<1>2. QED
  BY <1>1, FaultsStay DEF FeedInv, Attempts, ShownOnce, Complete, Owned

\* Rows of attempts that no task owns are gone, and the feed has the old entries or none.
LEMMA WipedFeed ==
    ASSUME TypeInv, [Next]_vars, NEW f \in Feeds, FeedInv(f), WipeDone(f) \/ WipeFailed(f),
           task'[f] \in Before, slot'[f] = slot[f], drop'[f] = drop[f]
    PROVE  FeedInv(f)'
<1>1. /\ Removes(f, Slots) /\ order'[f] \in {order[f], <<>>} /\ torn'[f] = Slots
  BY WipeRemoves DEF TypeInv, TablesTypeOK, OutsideTypeOK
<1>2. /\ Recorded(f) \subseteq Slots /\ Recorded(f)' \subseteq Recorded(f)
  BY <1>1, RecordedType DEF Recorded, Range, TypeInv
<1>3. Attempts(f)'
  BY TablesAre DEF Attempts, Before
<1>4. ShownOnce(f)'
  <2>1. CASE WipeDone(f)
    <3>1. shown'[f] = {}
      BY <2>1, TablesAre DEF WipeDone, SetRows, OnMap, NoRows, TypeInv, TablesTypeOK
    <3>2. QED
      BY <3>1 DEF ShownOnce
  <2>2. CASE WipeFailed(f)
    <3>1. order' = order
      BY <2>2 DEF WipeFailed
    <3>2. QED
      BY <1>1, <3>1 DEF ShownOnce, FeedInv, Removes, OnMap, Recorded
  <2>3. QED
    BY <2>1, <2>2
<1>5. Complete(f)'
  BY <1>1, <1>2, TablesAre DEF Complete, Before
<1>6. Owned(f)'
  <2>1. CASE WipeDone(f)
    <3>1. \A a \in Slots : rows'[f][a] = NoRows
      BY <2>1 DEF WipeDone, SetRows, TypeInv, TablesTypeOK
    <3>2. QED
      BY <3>1 DEF Owned, NoRows
  <2>2. CASE WipeFailed(f)
    BY <2>2, FaultsStay DEF WipeFailed, Owned
  <2>3. QED
    BY <2>1, <2>2
<1>7. QED
  BY <1>3, <1>4, <1>5, <1>6 DEF FeedInv

LEMMA MovedFeed ==
    ASSUME TypeInv, [Next]_vars, NEW f \in Feeds, FeedInv(f), MoveFeed(f)
    PROVE  FeedInv(f)' /\ \A a \in Slots, t \in Tables : rows'[f][a][t] = None <=> rows[f][a][t] = None
<1>1. repo.chateau[f] \in Chateaux
  BY RepositoryType DEF MoveFeed, TypeInv, RunTypeOK
<1>2. \A a \in Slots : rows[f][a] \in [Tables -> Chateaux \cup {None}]
  BY DEF TypeInv, TablesTypeOK
<1>3. PICK n : rows' = [rows EXCEPT ![f] = [a \in Slots |-> Moved(rows[f][a], repo.chateau[f], n)]]
  BY DEF MoveFeed
<1>4. \A a \in Slots : rows'[f][a] = Moved(rows[f][a], repo.chateau[f], n)
  BY <1>3 DEF TypeInv, TablesTypeOK
<1>5. /\ \A a \in Slots : rows'[f][a] \in [Tables -> Chateaux \cup {None}]
      /\ \A a \in Slots, t \in Tables : rows'[f][a][t] = None <=> rows[f][a][t] = None
  BY <1>1, <1>2, <1>4, MovedType
<1>6. \A a \in Slots : rows'[f][a] # NoRows => rows[f][a] # NoRows
  BY <1>2, <1>5 DEF NoRows
<1>7. /\ UNCHANGED <<order, shown, torn, task, slot, drop>> /\ task[f] = "none"
      /\ Recorded(f)' = Recorded(f) /\ Recorded(f) \subseteq Slots
  BY RecordedType DEF MoveFeed, TypeInv, PlacesOK, tasks, history, Recorded
<1>8. Attempts(f)' /\ ShownOnce(f)'
  BY <1>7, TablesAre DEF FeedInv, Attempts, ShownOnce
<1>9. Complete(f)' /\ Owned(f)'
  BY <1>5, <1>6, <1>7, FaultsStay, TablesAre DEF FeedInv, Complete, Owned
<1>10. QED
  BY <1>5, <1>8, <1>9 DEF FeedInv

LEMMA StaleFeed ==
    ASSUME TypeInv, [Next]_vars, NEW f \in Feeds, stale.feed = f, StaleDelete, FeedInv(f)
    PROVE  FeedInv(f)'
<1>1. Removes(f, Slots \ stale.keep) /\ torn'[f] = torn[f] \cup (Slots \ stale.keep)
  BY StaleRemoves DEF TypeInv, OutsideTypeOK
<1>2. /\ UNCHANGED <<order, task, slot, drop, fetched>>
      /\ Recorded(f)' = Recorded(f) /\ Recorded(f) \subseteq Slots
  BY RecordedType DEF StaleDelete, TypeInv, tasks, run, Recorded
<1>3. \A a \in Slots : rows'[f][a] # NoRows => rows[f][a] # NoRows
  BY <1>1 DEF Removes, NoRows, TypeInv, TablesTypeOK
<1>4. Attempts(f)'
  BY <1>2 DEF FeedInv, Attempts
<1>5. ShownOnce(f)'
  BY <1>1, <1>2 DEF FeedInv, ShownOnce, Removes, OnMap
<1>6. Complete(f)'
  <2>1. \A a \in Slots \ torn'[f] : a \notin torn[f] /\ rows'[f][a] = rows[f][a]
    BY <1>1 DEF Removes
  <2>2. task[f] \in Unrecorded => slot[f] \in Slots
    BY TablesAre DEF TypeInv, PlacesOK, Before
  <2>3. QED
    BY <1>2, <2>1, <2>2 DEF FeedInv, Complete
<1>7. Owned(f)'
  BY <1>2, <1>3, FaultsStay DEF FeedInv, Owned
<1>8. QED
  BY <1>4, <1>5, <1>6, <1>7 DEF FeedInv

\* A task that ends early leaves an attempt behind only after a failed statement.
LEMMA EndedFeed ==
    ASSUME TypeInv, [Next]_vars, NEW f \in Feeds, FeedInv(f), EndTask(f),
           order'[f] = order[f], rows'[f] = rows[f], shown'[f] = shown[f], torn'[f] = torn[f],
           task[f] \in Before \/ Fault("request") \/ (task[f] = "drop" /\ drop[f] = {})
    PROVE  FeedInv(f)'
<1>1. task'[f] = "none" /\ slot'[f] = None /\ drop'[f] = {} /\ Recorded(f)' = Recorded(f)
  BY EndTaskEffect DEF TypeInv, Recorded
<1>2. Attempts(f)' /\ ShownOnce(f)' /\ Complete(f)'
  BY <1>1, TablesAre DEF FeedInv, Attempts, ShownOnce, Complete
<1>3. Owned(f)'
  <2>1. CASE Fault("request")
    BY <2>1, FaultsStay DEF Owned
  <2>2. CASE task[f] \in Before
    BY <1>1, <2>2, FaultsStay DEF Owned, FeedInv, TypeInv, PlacesOK, Before
  <2>3. CASE task[f] = "drop" /\ drop[f] = {}
    BY <1>1, <2>3, FaultsStay DEF Owned, FeedInv, Attempts
  <2>4. QED
    BY <2>1, <2>2, <2>3
<1>4. QED
  BY <1>2, <1>3 DEF FeedInv

\* An attempt that is not recorded is deleted, by the task that knows it.
LEMMA DeletedFeed ==
    ASSUME TypeInv, [Next]_vars, NEW f \in Feeds, FeedInv(f), NEW a \in Slots \ Recorded(f),
           DeleteDone(f, a) \/ DeleteFailed(f, a), torn'[f] = torn[f],
           task'[f] \in {"none", "drop"},
           task'[f] = "drop" => task[f] = "drop" /\ slot'[f] = slot[f],
           drop'[f] = drop[f] \ {a},
           slot'[f] \in {slot[f], None}, slot[f] \in Recorded(f) \cup {a}
    PROVE  FeedInv(f)'
<1>1. Removes(f, {a}) /\ Recorded(f)' = Recorded(f) /\ Recorded(f) \subseteq Slots
  BY DeleteRemoves, RecordedType DEF TypeInv, Recorded
<1>2. Attempts(f)'
  BY <1>1, TablesAre DEF FeedInv, Attempts
<1>3. ShownOnce(f)'
  BY <1>1 DEF FeedInv, ShownOnce, Removes, OnMap
<1>4. Complete(f)'
  BY <1>1, TablesAre DEF FeedInv, Complete, Removes
<1>5. Owned(f)'
  <2>1. CASE DeleteFailed(f, a)
    BY <2>1, FaultsStay DEF DeleteFailed, Owned
  <2>2. CASE DeleteDone(f, a)
    <3>1. rows'[f][a] = NoRows
      BY <2>2 DEF DeleteDone, SetRows, TypeInv, TablesTypeOK
    <3>2. \A b \in Slots \ {a} : rows'[f][b] = rows[f][b]
      BY <1>1 DEF Removes
    <3>3. QED
      BY <1>1, <3>1, <3>2, FaultsStay DEF Owned, FeedInv, NoRows
  <2>3. QED
    BY <2>1, <2>2
<1>6. QED
  BY <1>2, <1>3, <1>4, <1>5 DEF FeedInv

LEMMA ReadNext ==
    ASSUME TypeInv, [Next]_vars, NEW f \in Feeds, FeedInv(f), ReadFeed(f)
    PROVE  FeedInv(f)'
<1>1. PICK a \in FreeSlots(f) : slot' = [slot EXCEPT ![f] = a] /\ torn' = [torn EXCEPT ![f] = @ \ {a}]
  BY DEF ReadFeed
<1>2. a \in Slots \ Recorded(f) /\ rows[f][a] = NoRows /\ slot'[f] = a /\ torn'[f] = torn[f] \ {a}
  BY <1>1 DEF FreeSlots, TypeInv, TasksTypeOK, OutsideTypeOK
<1>3. /\ UNCHANGED <<order, rows, shown, drop, faults>> /\ task[f] = "parse"
      /\ task'[f] \in {"failed", "agencies"} /\ Recorded(f)' = Recorded(f)
  BY DEF ReadFeed, InsertOrder, tables, Recorded, TypeInv, TasksTypeOK
<1>4. Written["failed"] = {} /\ Written["agencies"] = {}
  BY DEF Written
<1>5. Attempts(f)' /\ ShownOnce(f)'
  BY <1>2, <1>3 DEF FeedInv, Attempts, ShownOnce
<1>6. Complete(f)'
  BY <1>2, <1>3, <1>4 DEF FeedInv, Complete
<1>7. Owned(f)'
  BY <1>2, <1>3, FaultsStay DEF FeedInv, Owned, TypeInv, PlacesOK, Before
<1>8. QED
  BY <1>5, <1>6, <1>7 DEF FeedInv

LEMMA InsertNext ==
    ASSUME TypeInv, [Next]_vars, NEW f \in Feeds, FeedInv(f), InsertStep(f)
    PROVE  FeedInv(f)'
<1>1. PICK t \in Tables, next \in Unrecorded :
           Insert(f, t, next) /\ Written[next] \subseteq Written[t] \cup {t}
  BY InsertsInOrder
<1>2. /\ task[f] = t /\ t \in Unrecorded /\ slot[f] \in Slots
      /\ UNCHANGED <<order, shown, torn, slot, drop>> /\ Recorded(f)' = Recorded(f)
  BY <1>1, TablesAre, InsertWrites DEF Recorded
<1>3. slot[f] \notin Recorded(f)
  BY <1>2 DEF FeedInv, Attempts
<1>4. CASE Fault("request") /\ task'[f] = "failed" /\ rows' = rows
  <2>1. Written["failed"] = {}
    BY DEF Written
  <2>2. Attempts(f)' /\ ShownOnce(f)'
    BY <1>2, <1>3, <1>4, TablesAre DEF FeedInv, Attempts, ShownOnce
  <2>3. Complete(f)'
    BY <1>2, <1>4, <2>1 DEF FeedInv, Complete
  <2>4. Owned(f)'
    BY <1>4, FaultsStay DEF Owned
  <2>5. QED
    BY <2>2, <2>3, <2>4 DEF FeedInv
<1>5. CASE /\ task'[f] = next /\ faults' = faults
           /\ \A b \in Slots \ {slot[f]} : rows'[f][b] = rows[f][b]
           /\ \A u \in Tables : IF u = t THEN rows'[f][slot[f]][u] # None
                                ELSE rows'[f][slot[f]][u] = rows[f][slot[f]][u]
  <2>1. Attempts(f)' /\ ShownOnce(f)'
    BY <1>2, <1>3, <1>5, TablesAre DEF FeedInv, Attempts, ShownOnce
  <2>2. Complete(f)'
    <3>1. Written[t] \subseteq Tables
      BY TablesAre DEF Written
    <3>2. \A a \in Recorded(f)' \ torn'[f] : \A u \in Tables : rows'[f][a][u] # None
      BY <1>2, <1>3, <1>5, RecordedType DEF FeedInv, Complete, TypeInv
    <3>3. slot[f] \notin torn[f] => \A u \in Written[next] : rows'[f][slot[f]][u] # None
      BY <1>1, <1>2, <1>5, <3>1 DEF FeedInv, Complete
    <3>4. QED
      BY <1>2, <1>5, <3>2, <3>3 DEF Complete
  <2>3. Owned(f)'
    BY <1>2, <1>5 DEF FeedInv, Owned
  <2>4. QED
    BY <2>1, <2>2, <2>3 DEF FeedInv
<1>6. QED
  BY <1>1, <1>4, <1>5, InsertWrites

LEMMA RecordNext ==
    ASSUME TypeInv, [Next]_vars, NEW f \in Feeds, FeedInv(f), RecordAttempt(f)
    PROVE  FeedInv(f)'
<1>1. CASE Fault("request") /\ EndTask(f) /\ order' = order
  BY <1>1, EndedFeed DEF RecordAttempt
<1>2. CASE /\ order' = [order EXCEPT ![f] = Append(@, [id |-> slot[f], zip |-> fetched[f]])]
           /\ task' = [task EXCEPT ![f] = "assign"] /\ UNCHANGED <<slot, drop, faults>>
  <2>1. /\ task[f] = "record" /\ slot[f] \in Slots /\ fetched[f] \in Zips
        /\ UNCHANGED <<rows, shown, torn, fetched>>
    BY DEF RecordAttempt, TypeInv, PlacesOK, Before, run
  <2>2. /\ Recorded(f)' = Recorded(f) \cup {slot[f]} /\ order'[f] # <<>>
        /\ order'[f][Len(order'[f])] = [id |-> slot[f], zip |-> fetched[f]]
    <3>1. [id |-> slot[f], zip |-> fetched[f]] \in [id : Slots, zip : Zips]
      BY <2>1
    <3>2. QED
      BY <1>2, <3>1, AppendRecords DEF TypeInv
  <2>3. task'[f] = "assign" /\ "assign" \notin Unrecorded /\ "record" \in Unrecorded
    BY <1>2, TablesAre DEF TypeInv, TasksTypeOK
  <2>4. Written["record"] = Tables
    BY DEF Written
  <2>5. Attempts(f)' /\ ShownOnce(f)'
    BY <1>2, <2>1, <2>2, <2>3 DEF FeedInv, Attempts, ShownOnce
  <2>6. Complete(f)' /\ Owned(f)'
    BY <1>2, <2>1, <2>2, <2>3, <2>4 DEF FeedInv, Complete, Owned
  <2>7. QED
    BY <2>5, <2>6 DEF FeedInv
<1>3. QED
  BY <1>1, <1>2 DEF RecordAttempt

LEMMA AssignNext ==
    ASSUME TypeInv, AttemptInv, [Next]_vars, NEW f \in Feeds, FeedInv(f), AssignProduction(f)
    PROVE  FeedInv(f)'
<1>1. CASE Fault("request") /\ EndTask(f) /\ UNCHANGED <<rows, shown, order>>
  BY <1>1, EndedFeed DEF AssignProduction
<1>2. CASE Assigns(f)
  <2>1. /\ task[f] = "assign" /\ slot[f] \in Slots /\ slot'[f] = slot[f]
        /\ torn' = torn /\ faults' = faults
    <3>1. task[f] = "assign" /\ torn' = torn
      BY DEF AssignProduction
    <3>2. QED
      BY <1>2, <3>1 DEF Assigns, TypeInv, PlacesOK, Before
  <2>2. Recorded(f)' = {slot[f]}
    <3>1. Range(order'[f]) = {[id |-> slot[f], zip |-> fetched[f]]}
      BY <1>2, OneRecords DEF Assigns
    <3>2. QED
      BY <3>1 DEF Recorded
  <2>3. slot[f] \in Recorded(f)
    <3>1. Len(order[f]) \in DOMAIN order[f]
      BY <2>1, LenProperties DEF FeedInv, Attempts, TypeInv, TablesTypeOK
    <3>2. QED
      BY <2>1, <3>1 DEF FeedInv, Attempts, Recorded, Range
  <2>4. task'[f] = "drop" /\ drop'[f] = Recorded(f) \ {slot[f]} /\ "drop" \notin Unrecorded
    BY <1>2, TablesAre DEF Assigns, TypeInv, TasksTypeOK
  <2>5. Attempts(f)'
    BY <2>1, <2>2, <2>4 DEF Attempts
  <2>6. shown'[f] \subseteq {slot[f]}
    BY <1>2, RecordedType DEF Assigns, OnMap, FeedInv, ShownOnce, TypeInv
  <2>7. Complete(f)'
    <3>1. rows'[f][slot[f]] = rows[f][slot[f]]
      BY <1>2, <2>1 DEF Assigns
    <3>2. QED
      BY <2>1, <2>2, <2>3, <2>4, <3>1 DEF FeedInv, Complete
  <2>8. Owned(f)'
    <3>1. drop[f] = {}
      BY <2>1 DEF TypeInv, PlacesOK
    <3>2. QED
      BY <1>2, <2>1, <2>2, <2>4, <3>1 DEF Assigns, FeedInv, Owned
  <2>9. QED
    BY <2>2, <2>5, <2>6, <2>7, <2>8 DEF FeedInv, ShownOnce
<1>3. QED
  BY <1>1, <1>2, AssignEffect

\* A step of feed g leaves the attempts of the others alone.
LEMMA OtherFeeds ==
    ASSUME TypeInv, AttemptInv, NEW g \in Feeds, FeedStep(g) \/ TaskStep(g), NEW f \in Feeds \ {g}
    PROVE  order'[f] = order[f] /\ rows'[f] = rows[f] /\ shown'[f] = shown[f] /\ torn'[f] = torn[f]
<1>1. ASSUME WipeDone(g) \/ WipeFailed(g)
      PROVE  order'[f] = order[f] /\ rows'[f] = rows[f] /\ shown'[f] = shown[f] /\ torn'[f] = torn[f]
  <2>1. /\ Removes(g, Slots)
        /\ order' = order \/ order' = [order EXCEPT ![g] = <<>>]
        /\ torn' = [torn EXCEPT ![g] = Slots]
    BY <1>1, WipeRemoves DEF TypeInv
  <2>2. DOMAIN order = Feeds /\ DOMAIN torn = Feeds
    BY DEF TypeInv, TablesTypeOK, OutsideTypeOK
  <2>3. QED
    BY <2>1, <2>2 DEF Removes
<1>2. ASSUME NEW a \in Slots \ Recorded(g), DeleteDone(g, a) \/ DeleteFailed(g, a)
      PROVE  order'[f] = order[f] /\ rows'[f] = rows[f] /\ shown'[f] = shown[f]
  BY <1>2, DeleteRemoves DEF Removes, TypeInv
<1>3. CASE FeedStep(g)
  <2>1. CASE DownloadFeed(g) \/ CopyCached(g) \/ DownloadNothing(g)
    BY <2>1 DEF DownloadFeed, CopyCached, DownloadNothing, tables, history
  <2>2. CASE DiscardFeed(g) \/ WipeGone(g)
    BY <1>1, <2>2 DEF DiscardFeed, WipeGone
  <2>3. CASE MoveFeed(g)
    BY <2>3 DEF MoveFeed, history, TypeInv, TablesTypeOK
  <2>4. QED
    BY <1>3, <2>1, <2>2, <2>3 DEF FeedStep
<1>4. CASE TaskStep(g)
  <2>1. CASE StartTask(g) \/ KeepBefore(g) \/ TaskPanics(g) \/ SkipFeed(g)
    BY <2>1 DEF StartTask, KeepBefore, TaskPanics, SkipFeed, tables, history
  <2>2. CASE WipeBefore(g)
    BY <1>1, <2>2 DEF WipeBefore
  <2>3. CASE ReadFeed(g)
    BY <2>3 DEF ReadFeed, tables, TypeInv, OutsideTypeOK
  <2>4. CASE InsertStep(g)
    <3>1. PICK t \in Tables, next \in Unrecorded : Insert(g, t, next)
      BY <2>4, InsertsInOrder
    <3>2. /\ UNCHANGED <<order, shown, history>>
          /\ rows' = rows \/ rows' = [rows EXCEPT ![g][slot[g]][t] = repo.chateau[g]]
      BY <3>1 DEF Insert
    <3>3. QED
      BY <3>2 DEF history, TypeInv, TablesTypeOK
  <2>5. CASE UpsertStaticFeed(g) \/ MarkDownload(g) \/ TaskDone(g)
    BY <2>5 DEF UpsertStaticFeed, MarkDownload, TaskDone, tables, history
  <2>6. CASE RecordAttempt(g)
    BY <2>6 DEF RecordAttempt, TypeInv, TablesTypeOK
  <2>7. CASE AssignProduction(g)
    BY <2>7, AssignEffect DEF AssignProduction, Assigns
  <2>8. CASE DropAttempt(g)
    BY <1>2, <2>8 DEF DropAttempt, history, AttemptInv, Attempts, TypeInv, TasksTypeOK
  <2>9. CASE DeleteFailedAttempt(g)
    <3>1. slot[g] \in Slots \ Recorded(g)
      BY <2>9, TablesAre DEF DeleteFailedAttempt, TypeInv, PlacesOK, AttemptInv, Attempts, Before
    <3>2. QED
      BY <1>2, <2>9, <3>1 DEF DeleteFailedAttempt, history
  <2>10. QED
    BY <1>4, <2>1, <2>2, <2>3, <2>4, <2>5, <2>6, <2>7, <2>8, <2>9 DEF TaskStep, InsertStep
<1>5. QED
  BY <1>3, <1>4

\* Each step of the task of feed f keeps the invariant of f.
LEMMA TaskKeepsFeed ==
    ASSUME TypeInv, AttemptInv, [Next]_vars, NEW f \in Feeds, FeedInv(f), TaskStep(f)
    PROVE  FeedInv(f)'
<1>1. CASE StartTask(f) \/ KeepBefore(f)
  <2>1. /\ UNCHANGED <<order, rows, shown, torn, slot, drop>> /\ Recorded(f)' = Recorded(f)
        /\ task[f] \in Before /\ task'[f] \in Before
    BY <1>1 DEF StartTask, KeepBefore, tables, history, Recorded, TypeInv, TasksTypeOK, Before
  <2>2. QED
    BY <2>1, FaultsStay, TablesAre DEF FeedInv, Attempts, ShownOnce, Complete, Owned, Before
<1>2. CASE TaskPanics(f) \/ SkipFeed(f)
  <2>1. UNCHANGED <<order, rows, shown, torn>> /\ task[f] \in Before /\ EndTask(f)
    BY <1>2 DEF TaskPanics, SkipFeed, tables, history, Before
  <2>2. QED
    BY <2>1, EndedFeed
<1>3. CASE WipeBefore(f)
  <2>1. /\ task'[f] \in Before /\ UNCHANGED <<slot, drop>>
        /\ WipeDone(f) \/ WipeFailed(f)
    BY <1>3 DEF WipeBefore, TypeInv, TasksTypeOK, Before
  <2>2. QED
    BY <2>1, WipedFeed
<1>4. CASE UpsertStaticFeed(f) \/ MarkDownload(f)
  <2>1. /\ UNCHANGED <<order, rows, shown, torn, slot, drop>> /\ Recorded(f)' = Recorded(f)
        /\ task[f] \in {"static", "mark"} /\ task'[f] \in {"mark", "record", "failed"}
    BY <1>4 DEF UpsertStaticFeed, MarkDownload, history, Recorded, TypeInv, TasksTypeOK
  <2>2. /\ Written["static"] = Tables /\ Written["mark"] = Tables
        /\ Written["record"] = Tables /\ Written["failed"] = {}
    BY DEF Written
  <2>3. Attempts(f)' /\ ShownOnce(f)'
    BY <2>1, TablesAre DEF FeedInv, Attempts, ShownOnce
  <2>4. Complete(f)'
    BY <2>1, <2>2, TablesAre DEF FeedInv, Complete
  <2>5. Owned(f)'
    BY <2>1, FaultsStay DEF FeedInv, Owned
  <2>6. QED
    BY <2>3, <2>4, <2>5 DEF FeedInv
<1>5. CASE DropAttempt(f)
  <2>1. PICK a \in drop[f] : /\ DeleteDone(f, a) \/ DeleteFailed(f, a)
                             /\ drop' = [drop EXCEPT ![f] = @ \ {a}]
    BY <1>5 DEF DropAttempt
  <2>2. task[f] = "drop" /\ UNCHANGED <<task, slot, torn>>
    BY <1>5 DEF DropAttempt, history
  <2>3. a \in Slots \ Recorded(f) /\ slot[f] \in Recorded(f) /\ drop'[f] = drop[f] \ {a}
    BY <2>1, <2>2 DEF FeedInv, Attempts, TypeInv, TasksTypeOK
  <2>4. QED
    BY <2>1, <2>2, <2>3, DeletedFeed
<1>6. CASE TaskDone(f)
  <2>1. /\ UNCHANGED <<order, rows, shown, torn>> /\ EndTask(f)
        /\ task[f] = "drop" /\ drop[f] = {}
    BY <1>6 DEF TaskDone, tables, history
  <2>2. QED
    BY <2>1, EndedFeed
<1>7. CASE DeleteFailedAttempt(f)
  <2>1. /\ slot[f] \in Slots \ Recorded(f) /\ drop[f] = {}
    BY <1>7, TablesAre DEF DeleteFailedAttempt, TypeInv, PlacesOK, FeedInv, Attempts, Before
  <2>2. /\ EndTask(f) /\ torn' = torn
        /\ task'[f] = "none" /\ slot'[f] = None /\ drop'[f] = {}
    BY <1>7, EndTaskEffect DEF DeleteFailedAttempt, history, TypeInv
  <2>3. CASE DeleteDone(f, slot[f]) \/ DeleteFailed(f, slot[f])
    BY <2>1, <2>2, <2>3, DeletedFeed
  <2>4. CASE Fault("request") /\ UNCHANGED <<rows, shown, order>>
    BY <2>2, <2>4, EndedFeed
  <2>5. QED
    BY <1>7, <2>3, <2>4 DEF DeleteFailedAttempt
<1>8. QED
  BY <1>1, <1>2, <1>3, <1>4, <1>5, <1>6, <1>7, ReadNext, InsertNext, RecordNext, AssignNext
  DEF TaskStep, InsertStep

LEMMA NextMapInv ==
    ASSUME TypeInv, MapInv, [Next]_vars
    PROVE  MapInv'
<1> SUFFICES ASSUME NEW f \in Feeds PROVE FeedInv(f)'
  BY DEF MapInv
<1>1. FeedInv(f) /\ AttemptInv
  BY DEF MapInv, AttemptInv, FeedInv
<1>2. CASE Elsewhere
  <2>1. task'[f] = task[f] /\ slot'[f] = slot[f] /\ drop'[f] = drop[f]
    BY <1>2, ElsewhereTasks DEF tasks
  <2>2. fetched'[f] = fetched[f] \/ task[f] = "none"
    BY <1>2, ElsewherePlaces
  <2>3. ASSUME order'[f] = order[f], rows'[f] = rows[f], shown'[f] = shown[f], torn'[f] = torn[f]
        PROVE  FeedInv(f)'
    <3>1. Recorded(f)' = Recorded(f)
      BY <2>3 DEF Recorded
    <3>2. QED
      BY <1>1, <2>1, <2>2, <2>3, <3>1, FaultsStay DEF FeedInv, Attempts, ShownOnce, Complete, Owned
  <2>4. CASE StaleDelete
    <3>1. CASE stale.feed = f
      BY <1>1, <2>4, <3>1, StaleFeed
    <3>2. CASE stale.feed # f
      <4>1. stale.feed \in Feeds /\ order' = order
        BY <2>4 DEF StaleDelete, TypeInv, OutsideTypeOK
      <4>2. rows'[f] = rows[f] /\ shown'[f] = shown[f] /\ torn'[f] = torn[f]
        BY <2>4, <3>2, <4>1, StaleRemoves DEF Removes, TypeInv, OutsideTypeOK
      <4>3. QED
        BY <2>3, <4>1, <4>2
    <3>3. QED
      BY <3>1, <3>2
  <2>5. ASSUME NEW g \in Feeds, FeedStep(g)
        PROVE  FeedInv(f)'
    <3>1. CASE g # f
      BY <1>1, <2>3, <2>5, <3>1, OtherFeeds
    <3>2. CASE g = f
      <4>1. CASE MoveFeed(f)
        BY <1>1, <4>1, MovedFeed
      <4>2. CASE DiscardFeed(f) \/ WipeGone(f)
        <5>1. (WipeDone(f) \/ WipeFailed(f)) /\ main \in {"discard", "gone"}
          BY <4>2 DEF DiscardFeed, WipeGone
        <5>2. task[f] = "none"
          BY <5>1 DEF TypeInv, PlacesOK
        <5>3. QED
          BY <1>1, <2>1, <5>1, <5>2, WipedFeed DEF Before
      <4>3. CASE DownloadFeed(f) \/ CopyCached(f) \/ DownloadNothing(f)
        BY <2>3, <4>3 DEF DownloadFeed, CopyCached, DownloadNothing, tables, history
      <4>4. QED
        BY <2>5, <3>2, <4>1, <4>2, <4>3 DEF FeedStep
    <3>3. QED
      BY <3>1, <3>2
  <2>6. ASSUME \/ \E u \in Urls : Publish(u)
               \/ ChangeRepository \/ StaleFailed
               \/ \E g \in Feeds : StaleStart(g)
               \/ \E m \in Modes : StartRun(m)
               \/ DownloadsEnd \/ LogDownloads \/ RefreshChateaux \/ RefreshDone
               \/ TasksEnd \/ GoneEnd \/ UNCHANGED vars
        PROVE  UNCHANGED <<order, rows, shown, torn>>
    BY <2>6 DEF Publish, ChangeRepository, StaleFailed, StaleStart, StartRun, DownloadsEnd,
       LogDownloads, RefreshChateaux, RefreshDone, TasksEnd, GoneEnd, vars, tables, history
  <2>7. QED
    BY <1>2, <2>3, <2>4, <2>5, <2>6 DEF Elsewhere
<1>3. CASE Unpack
  <2>1. task[f] = "none" /\ task'[f] \in Before
    BY <1>3 DEF Unpack, TypeInv, PlacesOK, Before
  <2>2. UNCHANGED <<order, rows, shown, torn, slot, drop>> /\ Recorded(f)' = Recorded(f)
    BY <1>3 DEF Unpack, tables, history, Recorded
  <2>3. QED
    BY <1>1, <2>1, <2>2, FaultsStay, TablesAre
    DEF FeedInv, Attempts, ShownOnce, Complete, Owned, Before
<1>4. CASE Crash
  <2>1. task'[f] = "none" /\ UNCHANGED <<order, rows, shown, torn>> /\ Recorded(f)' = Recorded(f)
    BY <1>4 DEF Crash, tables, Recorded
  <2>2. Fault("crash")
    BY <1>4 DEF Crash
  <2>3. Owned(f)'
    BY <2>2, FaultsStay DEF Owned
  <2>4. QED
    BY <1>1, <2>1, <2>3, TablesAre DEF FeedInv, Attempts, ShownOnce, Complete
<1>5. ASSUME NEW g \in Feeds, TaskStep(g)
      PROVE  FeedInv(f)'
  <2>1. CASE g = f
    BY <1>1, <1>5, <2>1, TaskKeepsFeed
  <2>2. CASE g # f
    BY <1>1, <1>5, <2>2, OtherFeeds, TaskStepEffect, SameFeed DEF run
  <2>3. QED
    BY <2>1, <2>2
<1>6. QED
  BY <1>2, <1>3, <1>4, <1>5, NextCases

LEMMA InitMapInv == Init => MapInv
<1> SUFFICES ASSUME Init, NEW f \in Feeds PROVE FeedInv(f)
  BY DEF MapInv
<1>1. /\ order[f] = <<>> /\ shown[f] = {} /\ task[f] = "none"
      /\ \A a \in Slots : rows[f][a] = NoRows
  BY DEF Init
<1>2. Recorded(f) = {}
  BY <1>1 DEF Recorded, Range
<1>3. QED
  BY <1>1, <1>2, TablesAre DEF FeedInv, Attempts, ShownOnce, Complete, Owned

LEMMA InvariantHolds == Spec => [](TypeInv /\ MapInv)
<1>1. Init => TypeInv /\ MapInv
  BY InitTypeInv, InitMapInv
<1>2. TypeInv /\ MapInv /\ [Next]_vars => TypeInv' /\ MapInv'
  BY NextTypeInv, NextMapInv DEF MapInv, FeedInv, AttemptInv
<1>3. QED
  BY <1>1, <1>2, PTL DEF Spec

-------------------------------------------------------------------------------
(* What is on the map. *)

\* However many feeds, attempts and tasks there are and whatever fails, at most one
\* attempt of a feed is on the map, and it is recorded in ingested_static.
THEOREM OneOnTheMapCorrect == Spec => []OneOnTheMap
<1>1. TypeInv /\ MapInv => OneOnTheMap
  <2> SUFFICES ASSUME MapInv, NEW f \in Feeds
               PROVE  Visible(f) \subseteq Recorded(f) /\ Cardinality(Visible(f)) <= 1
    BY DEF OneOnTheMap
  <2>1. /\ Visible(f) \subseteq shown[f] /\ shown[f] \subseteq Recorded(f)
        /\ \A a, b \in shown[f] : a = b
    BY DEF MapInv, FeedInv, ShownOnce, Visible, OnMap
  <2>2. CASE Visible(f) = {}
    BY <2>2, FS_EmptySet
  <2>3. ASSUME NEW a \in Visible(f)
        PROVE  Cardinality(Visible(f)) = 1
    <3>1. Visible(f) = {a}
      BY <2>1, <2>3
    <3>2. QED
      BY <3>1, FS_Singleton
  <2>4. QED
    BY <2>1, <2>2, <2>3, FS_EmptySet
<1>2. QED
  BY <1>1, InvariantHolds, PTL

\* An attempt on the map has rows in every table, unless a wipe or
\* delete-stale-attempts reached it.
THEOREM MapIsCompleteCorrect == Spec => []MapIsComplete
<1>1. TypeInv /\ MapInv => MapIsComplete
  BY DEF MapIsComplete, MapInv, FeedInv, ShownOnce, Complete, Visible, OnMap
<1>2. QED
  BY <1>1, InvariantHolds, PTL

\* Unless a statement failed or the process died, every row belongs to an attempt that is
\* recorded, on its way or being dropped.
THEOREM NoOrphansCorrect == Spec => []NoOrphans
<1>1. TypeInv /\ MapInv => NoOrphans
  BY DEF NoOrphans, MapInv, FeedInv, Owned
<1>2. QED
  BY <1>1, InvariantHolds, PTL

LEMMA SameVisible ==
    ASSUME NEW f \in Feeds, shown'[f] = shown[f],
           \A a \in shown[f] : /\ rows'[f][a]["shapes"] = None <=> rows[f][a]["shapes"] = None
                               /\ rows'[f][a]["stops"] = None <=> rows[f][a]["stops"] = None
    PROVE  Visible(f)' = Visible(f)
BY DEF Visible, OnMap

\* What is not among the attempts a deletion is aimed at stays on the map.
LEMMA RemovesVisible ==
    ASSUME TypeInv, NEW f \in Feeds, NEW A, Removes(f, A)
    PROVE  Visible(f) \ A \subseteq Visible(f)'
<1> SUFFICES ASSUME NEW a \in Visible(f) \ A PROVE a \in Visible(f)'
  OBVIOUS
<1>1. a \in shown[f] /\ a \in Slots
  BY DEF Visible, OnMap, TypeInv, TablesTypeOK
<1>2. rows'[f][a] = rows[f][a]
  BY <1>1 DEF Removes
<1>3. a \in OnMap(shown[f], rows'[f])
  BY <1>1, <1>2 DEF Visible, OnMap
<1>4. shown'[f] = OnMap(shown[f], rows'[f])
  BY DEF Removes
<1>5. QED
  BY <1>3, <1>4 DEF Visible, OnMap

LEMMA NextStays ==
    ASSUME TypeInv, MapInv, [Next]_vars, NEW f \in Feeds, Visible(f) # {}, Visible(f)' = {}
    PROVE  \/ Visible(f) \subseteq torn'[f]
           \/ Recorded(f)' # {} /\ Recorded(f)' \subseteq torn'[f]
<1>1. FeedInv(f) /\ AttemptInv
  BY DEF MapInv, AttemptInv, FeedInv
<1>2. Visible(f) \subseteq Recorded(f) /\ Visible(f) \subseteq shown[f] /\ Visible(f) \subseteq Slots
  BY <1>1 DEF FeedInv, ShownOnce, Visible, OnMap, TypeInv, TablesTypeOK
<1>3. ~(shown'[f] = shown[f] /\ rows'[f] = rows[f])
  BY SameVisible
<1>4. ASSUME WipeDone(f) \/ WipeFailed(f)
      PROVE  Visible(f) \subseteq torn'[f]
  BY <1>2, <1>4, WipeRemoves DEF TypeInv, OutsideTypeOK
<1>5. ASSUME NEW a \in Slots \ Recorded(f), DeleteDone(f, a) \/ DeleteFailed(f, a)
      PROVE  FALSE
  <2>1. Removes(f, {a})
    BY <1>5, DeleteRemoves DEF TypeInv
  <2>2. QED
    BY <1>2, <2>1, RemovesVisible
<1>6. CASE StaleDelete
  <2>1. stale.feed \in Feeds
    BY <1>6 DEF StaleDelete, TypeInv, OutsideTypeOK
  <2>2. /\ Removes(stale.feed, Slots \ stale.keep)
        /\ torn' = [torn EXCEPT ![stale.feed] = @ \cup (Slots \ stale.keep)]
    BY <1>6, <2>1, StaleRemoves DEF TypeInv
  <2>3. stale.feed = f
    BY <1>3, <2>2 DEF Removes
  <2>4. Visible(f) \subseteq Slots \ stale.keep
    BY <1>2, <2>2, <2>3, RemovesVisible
  <2>5. QED
    BY <2>2, <2>3, <2>4 DEF TypeInv, OutsideTypeOK
<1>7. ASSUME NEW g \in Feeds, FeedStep(g) \/ TaskStep(g)
      PROVE  g = f
  BY <1>1, <1>3, <1>7, OtherFeeds
<1>8. CASE FeedStep(f)
  <2>1. CASE MoveFeed(f)
    <3>1. \A a \in Slots, t \in Tables : rows'[f][a][t] = None <=> rows[f][a][t] = None
      BY <1>1, <2>1, MovedFeed
    <3>2. shown'[f] = shown[f] /\ shown[f] \subseteq Slots
      BY <2>1 DEF MoveFeed, TypeInv, TablesTypeOK
    <3>3. QED
      BY <3>1, <3>2, SameVisible, TablesAre
  <2>2. CASE DiscardFeed(f) \/ WipeGone(f)
    BY <1>4, <2>2 DEF DiscardFeed, WipeGone
  <2>3. CASE DownloadFeed(f) \/ CopyCached(f) \/ DownloadNothing(f)
    BY <1>3, <2>3 DEF DownloadFeed, CopyCached, DownloadNothing, tables
  <2>4. QED
    BY <1>8, <2>1, <2>2, <2>3 DEF FeedStep
<1>9. CASE TaskStep(f)
  <2>1. CASE WipeBefore(f)
    BY <1>4, <2>1 DEF WipeBefore
  <2>2. CASE InsertStep(f)
    <3>1. PICK t \in Tables, next \in Unrecorded : Insert(f, t, next)
      BY <2>2, InsertsInOrder
    <3>2. slot[f] \notin Recorded(f)
      BY <1>1, <3>1, TablesAre DEF Insert, FeedInv, Attempts
    <3>3. \A a \in shown[f] : a \in Slots \ {slot[f]}
      BY <1>1, <3>2 DEF FeedInv, ShownOnce, TypeInv, TablesTypeOK
    <3>4. shown'[f] = shown[f] /\ \A a \in Slots \ {slot[f]} : rows'[f][a] = rows[f][a]
      BY <3>1, InsertWrites
    <3>5. QED
      BY <3>3, <3>4, SameVisible
  <2>3. CASE AssignProduction(f)
    <3>1. Assigns(f) /\ torn' = torn /\ task[f] = "assign"
      BY <1>1, <1>3, <2>3, AssignEffect DEF AssignProduction
    <3>2. Recorded(f)' = {slot[f]} /\ slot[f] \in Slots
      <4>1. Range(order'[f]) = {[id |-> slot[f], zip |-> fetched[f]]}
        BY <3>1, OneRecords DEF Assigns
      <4>2. QED
        BY <3>1, <4>1 DEF Recorded, TypeInv, PlacesOK, Before
    <3>3. slot[f] \notin torn'[f] => slot[f] \in Visible(f)'
      <4>1. FeedInv(f)'
        BY <1>1, <2>3, AssignNext
      <4>2. ASSUME slot[f] \notin torn'[f]
            PROVE  rows'[f][slot[f]]["shapes"] # None
        BY <3>2, <4>1, <4>2, TablesAre DEF FeedInv, Complete
      <4>3. shown'[f] = OnMap(shown[f] \cup {slot[f]}, rows'[f])
        BY <3>1 DEF Assigns
      <4>4. QED
        BY <4>2, <4>3 DEF Visible, OnMap
    <3>4. QED
      BY <3>2, <3>3
  <2>4. CASE DropAttempt(f)
    <3>1. PICK a \in drop[f] : DeleteDone(f, a) \/ DeleteFailed(f, a)
      BY <2>4 DEF DropAttempt
    <3>2. a \in Slots \ Recorded(f)
      BY <1>1, <2>4, <3>1 DEF DropAttempt, FeedInv, Attempts, TypeInv, TasksTypeOK
    <3>3. QED
      BY <1>5, <3>1, <3>2
  <2>5. CASE DeleteFailedAttempt(f)
    <3>1. slot[f] \in Slots \ Recorded(f)
      BY <1>1, <2>5, TablesAre DEF DeleteFailedAttempt, TypeInv, PlacesOK, FeedInv, Attempts, Before
    <3>2. QED
      BY <1>3, <1>5, <2>5, <3>1 DEF DeleteFailedAttempt
  <2>6. CASE \/ StartTask(f) \/ SkipFeed(f) \/ KeepBefore(f) \/ TaskPanics(f) \/ ReadFeed(f)
             \/ UpsertStaticFeed(f) \/ MarkDownload(f) \/ RecordAttempt(f) \/ TaskDone(f)
    BY <1>3, <2>6 DEF StartTask, SkipFeed, KeepBefore, TaskPanics, ReadFeed,
       UpsertStaticFeed, MarkDownload, RecordAttempt, TaskDone, tables
  <2>7. QED
    BY <1>9, <2>1, <2>2, <2>3, <2>4, <2>5, <2>6 DEF TaskStep, InsertStep
<1>10. ASSUME \/ \E u \in Urls : Publish(u)
              \/ ChangeRepository \/ StaleFailed
              \/ \E g \in Feeds : StaleStart(g)
              \/ \E m \in Modes : StartRun(m)
              \/ DownloadsEnd \/ LogDownloads \/ RefreshChateaux \/ RefreshDone
              \/ TasksEnd \/ GoneEnd \/ Unpack \/ Crash \/ UNCHANGED vars
       PROVE  FALSE
  BY <1>3, <1>10 DEF Publish, ChangeRepository, StaleFailed, StaleStart, StartRun, DownloadsEnd,
     LogDownloads, RefreshChateaux, RefreshDone, TasksEnd, GoneEnd, Unpack, Crash, vars, tables
<1>11. QED
  BY <1>6, <1>7, <1>8, <1>9, <1>10, NextCases DEF Elsewhere

\* A feed on the map does not leave it when its zip is replaced, in any interleaving of
\* tasks, failed statements, crashes and delete-stale-attempts: only a wipe takes it off,
\* or delete-stale-attempts when it reached the attempt that was to replace it.
THEOREM StaysCorrect == Spec => StaysOnTheMap
<1>1. TypeInv /\ MapInv /\ [Next]_vars =>
         [\A f \in Feeds : Visible(f) # {} /\ Visible(f)' = {} =>
             \/ Visible(f) \subseteq torn'[f]
             \/ Recorded(f)' # {} /\ Recorded(f)' \subseteq torn'[f]]_vars
  BY NextStays
<1>2. QED
  BY <1>1, InvariantHolds, PTL DEF Spec, StaysOnTheMap

-------------------------------------------------------------------------------
(* What is marked ingested. *)

LEMMA HistoryGrows ==
    ASSUME TypeInv, AttemptInv, [Next]_vars
    PROVE  showed \subseteq showed' /\ parted \subseteq parted'
<1>1. ASSUME Elsewhere \/ Unpack
      PROVE  UNCHANGED <<showed, parted>>
  BY <1>1 DEF Elsewhere, Publish, ChangeRepository, StaleDelete, StaleFailed, StaleStart,
     StartRun, DownloadsEnd, LogDownloads, RefreshChateaux, RefreshDone, TasksEnd, GoneEnd,
     FeedStep, DownloadFeed, CopyCached, DownloadNothing, DiscardFeed, MoveFeed, WipeGone,
     Unpack, vars, history
<1>2. CASE Crash
  BY <1>2 DEF Crash
<1>3. ASSUME NEW f \in Feeds, TaskStep(f)
      PROVE  showed \subseteq showed' /\ parted \subseteq parted'
  <2>1. CASE InsertStep(f)
    BY <2>1, InsertsInOrder DEF Insert, history
  <2>2. CASE RecordAttempt(f)
    BY <2>2 DEF RecordAttempt, Part
  <2>3. CASE AssignProduction(f)
    BY <2>3, AssignEffect DEF Assigns, Part
  <2>4. CASE \/ StartTask(f) \/ SkipFeed(f) \/ WipeBefore(f) \/ KeepBefore(f) \/ TaskPanics(f)
             \/ ReadFeed(f) \/ UpsertStaticFeed(f) \/ MarkDownload(f) \/ DropAttempt(f)
             \/ TaskDone(f) \/ DeleteFailedAttempt(f)
    BY <2>4 DEF StartTask, SkipFeed, WipeBefore, KeepBefore, TaskPanics, ReadFeed,
       UpsertStaticFeed, MarkDownload, DropAttempt, TaskDone, DeleteFailedAttempt, history
  <2>5. QED
    BY <1>3, <2>1, <2>2, <2>3, <2>4 DEF TaskStep, InsertStep
<1>4. QED
  BY <1>1, <1>2, <1>3, NextCases

\* The two places that mark a download.
LEMMA OnlyTwoMark ==
    ASSUME TypeInv, AttemptInv, [Next]_vars
    PROVE  \/ ingested' \subseteq ingested
           \/ \E f \in Feeds : /\ SkipFeed(f) \/ MarkDownload(f)
                               /\ ingested' \subseteq ingested \cup {<<f, fetched[f]>>}
<1>1. ASSUME Elsewhere \/ Unpack \/ Crash
      PROVE  ingested' = ingested
  BY <1>1 DEF Elsewhere, Publish, ChangeRepository, StaleDelete, StaleFailed, StaleStart,
     StartRun, DownloadsEnd, LogDownloads, RefreshChateaux, RefreshDone, TasksEnd, GoneEnd,
     FeedStep, DownloadFeed, CopyCached, DownloadNothing, DiscardFeed, MoveFeed, WipeGone,
     Unpack, Crash, vars, tables
<1>2. ASSUME NEW f \in Feeds, TaskStep(f)
      PROVE  \/ ingested' \subseteq ingested
             \/ /\ SkipFeed(f) \/ MarkDownload(f)
                /\ ingested' \subseteq ingested \cup {<<f, fetched[f]>>}
  <2>1. CASE InsertStep(f)
    BY <2>1, InsertsInOrder, InsertWrites
  <2>2. CASE SkipFeed(f) \/ MarkDownload(f)
    BY <2>2 DEF SkipFeed, MarkDownload, MarkIngested
  <2>3. CASE \/ StartTask(f) \/ WipeBefore(f) \/ KeepBefore(f) \/ TaskPanics(f)
             \/ ReadFeed(f) \/ UpsertStaticFeed(f) \/ RecordAttempt(f) \/ AssignProduction(f)
             \/ DropAttempt(f) \/ TaskDone(f) \/ DeleteFailedAttempt(f)
    BY <2>3 DEF StartTask, WipeBefore, KeepBefore, TaskPanics, ReadFeed, UpsertStaticFeed,
       RecordAttempt, AssignProduction, DropAttempt, TaskDone, DeleteFailedAttempt,
       MarkFailed, tables
  <2>4. QED
    BY <1>2, <2>1, <2>2, <2>3 DEF TaskStep, InsertStep
<1>3. QED
  BY <1>1, <1>2, NextCases

\* Who has marked a download keeps at it until the attempt is in production or the
\* task is cut off.
LEMMA MarkedGoOn ==
    ASSUME TypeInv, AttemptInv, [Next]_vars, NEW f \in Feeds, task[f] \in {"record", "assign"}
    PROVE  \/ <<f, fetched[f]>> \in showed' \cup parted'
           \/ task'[f] \in {"record", "assign"} /\ fetched'[f] = fetched[f]
<1>1. CASE Elsewhere
  BY <1>1, ElsewhereTasks, ElsewherePlaces DEF tasks
<1>2. CASE Unpack
  BY <1>2 DEF Unpack, TypeInv, PlacesOK
<1>3. CASE Crash
  BY <1>3 DEF Crash
<1>4. ASSUME NEW g \in Feeds, TaskStep(g)
      PROVE  \/ <<f, fetched[f]>> \in showed' \cup parted'
             \/ task'[f] \in {"record", "assign"} /\ fetched'[f] = fetched[f]
  <2>1. fetched' = fetched
    BY <1>4, TaskStepEffect DEF run
  <2>2. CASE g # f
    BY <1>4, <2>1, <2>2, TaskStepEffect
  <2>3. CASE g = f
    <3>1. RecordAttempt(f) \/ AssignProduction(f)
      BY <1>4, <2>3 DEF TaskStep, StartTask, SkipFeed, WipeBefore, KeepBefore, TaskPanics,
         ReadFeed, InsertAgencies, InsertShapes, InsertCalendar, InsertStops,
         InsertDirections, InsertItineraries, InsertTrips, InsertRoutes, InsertFeedInfo,
         Insert, UpsertStaticFeed, MarkDownload, DropAttempt, TaskDone, DeleteFailedAttempt
    <3>2. CASE RecordAttempt(f)
      BY <2>1, <3>2 DEF RecordAttempt, Part, TypeInv, TasksTypeOK
    <3>3. CASE AssignProduction(f)
      BY <3>3, AssignEffect DEF Assigns, Part
    <3>4. QED
      BY <3>1, <3>2, <3>3
  <2>4. QED
    BY <2>2, <2>3
<1>5. QED
  BY <1>1, <1>2, <1>3, <1>4, NextCases

LEMMA NextMarked ==
    ASSUME TypeInv, AttemptInv, MarkedWasShown, [Next]_vars
    PROVE  MarkedWasShown'
<1> SUFFICES ASSUME NEW m \in ingested'
             PROVE  \/ m \in showed' \cup parted'
                    \/ task'[m[1]] \in {"record", "assign"} /\ fetched'[m[1]] = m[2]
  BY DEF MarkedWasShown
<1>1. CASE m \in ingested
  <2>1. m[1] \in Feeds /\ m = <<m[1], m[2]>>
    BY <1>1 DEF TypeInv, TablesTypeOK
  <2>2. CASE m \in showed \cup parted
    BY <2>2, HistoryGrows
  <2>3. CASE task[m[1]] \in {"record", "assign"} /\ fetched[m[1]] = m[2]
    BY <2>1, <2>3, MarkedGoOn
  <2>4. QED
    BY <1>1, <2>2, <2>3 DEF MarkedWasShown
<1>2. CASE m \notin ingested
  <2>1. PICK f \in Feeds : (SkipFeed(f) \/ MarkDownload(f)) /\ m = <<f, fetched[f]>>
    BY <1>2, OnlyTwoMark
  <2>2. CASE SkipFeed(f)
    BY <2>1, <2>2, HistoryGrows DEF SkipFeed
  <2>3. CASE MarkDownload(f)
    <3>1. task'[f] = "record" /\ fetched' = fetched
      BY <2>3 DEF MarkDownload, run, TypeInv, TasksTypeOK
    <3>2. QED
      BY <2>1, <3>1
  <2>4. QED
    BY <2>1, <2>2, <2>3
<1>3. QED
  BY <1>1, <1>2

\* Maple takes a download for ingested, and never asks for that zip again, only if it was
\* in production once, is about to be, its task was cut off right before, or its contents
\* were another attempt.
THEOREM MarkedCorrect == Spec => []MarkedWasShown
<1>1. Init => MarkedWasShown
  BY DEF Init, MarkedWasShown
<1>2. TypeInv /\ MapInv /\ MarkedWasShown /\ [Next]_vars => MarkedWasShown'
  BY NextMarked DEF MapInv, FeedInv, AttemptInv
<1>3. QED
  BY <1>1, <1>2, InvariantHolds, PTL DEF Spec
================================================================================
