------------------------------ MODULE AspenIngest ------------------------------
(***************************************************************************)
(* One Aspen worker: how a GTFS-realtime message sent by Alpenrose becomes *)
(* the dataset that Birch reads.                                           *)
(*                                                                         *)
(* An RPC handler (from_alpenrose_compressed, a tokio task per request)    *)
(* compares header timestamps, writes the raw message of each type into    *)
(* authoritative_gtfs_rt_store, and puts the chateau on the queue unless   *)
(* it is already marked in alpenrose_to_process_queue_chateaux.  The       *)
(* processing tasks steal a chateau, rebuild its dataset from the raw      *)
(* store, publish it, save it to disk and clear the mark.  Every point     *)
(* where the code awaits, and every separate access to a concurrent map,   *)
(* is a step of its own.                                                   *)
(*                                                                         *)
(* A message is abstracted to the version of the feed it carries; 0 stands *)
(* for "no message of this type".  The header timestamp of a message is    *)
(* its version, except for the feeds in AlwaysNew, which carry none.       *)
(***************************************************************************)
EXTENDS Naturals, Sequences, FiniteSets

CONSTANTS
    Chateaux,       \* chateau ids
    Feeds,          \* realtime feed ids
    ChateauOf,      \* the chateau each feed is sent for
    Types,          \* GtfsRtType: 1 VehiclePositions, 2 TripUpdates, 3 Alerts
    Handlers,       \* slots for RPC requests in progress
    Threads,        \* processing tasks (ALPENROSETHREADCOUNT of them)
    None,           \* no feed, no chateau
    AlwaysNew,      \* feeds without a header timestamp, and the "unwire" feeds
    AlwaysWritten,  \* chateaux whose messages count as changed: dallas, fort worth
    AlwaysQueued,   \* those and santacruzmetro
    Overlap,        \* may two requests for one feed be in progress at once?
    MaxVersion,     \* bound: versions a feed publishes
    MaxFaults       \* bound: how often each kind of fault happens

FaultKinds == {"cancel", "fail", "panic", "io", "crash"}
TripUpdates == 2

ASSUME ConstantsAssumption ==
    /\ ChateauOf \in [Feeds -> Chateaux]
    /\ Types \subseteq 1..3
    /\ None \notin Feeds \cup Chateaux
    /\ AlwaysNew \subseteq Feeds
    /\ AlwaysWritten \subseteq AlwaysQueued
    /\ AlwaysQueued \subseteq Chateaux
    /\ Overlap \in BOOLEAN
    /\ MaxVersion \in Nat
    /\ MaxFaults \in [FaultKinds -> Nat]

Versions == 0..MaxVersion
Keys == Feeds \X Types
KeysOf(c) == {k \in Keys : ChateauOf[k[1]] = c}
NoMessage == [t \in Types |-> 0]
NoKeys == [k \in Keys |-> 0]

VARIABLES
    published,      \* newest version of each feed, at its agency
    hpc, hfeed, hmsg, htodo, hnew,          \* the RPC handlers
    timestamps,     \* timestamps_of_gtfs_rt
    store,          \* authoritative_gtfs_rt_store
    queue,          \* alpenrose_to_process_queue
    marked,         \* alpenrose_to_process_queue_chateaux
    data,           \* authoritative_data_store: the version served for each key
    grace,          \* START_TIME of a chateau: unset, within or past 60 s
    saved,          \* chateaux with a LAST_SAVE_TIME
    tpc, tchateau, ttodo, tsnap, tprev,     \* the processing tasks
    disk,           \* data/aspen_data/<chateau>.bin.zlib
    faults,         \* faults so far, by kind
    lostWake        \* history: chateaux stored to since their last processing
                    \* began, for which no task was queued or processing failed

handlerVars == <<hpc, hfeed, hmsg, htodo, hnew>>
threadVars == <<tpc, tchateau, ttodo, tsnap, tprev>>
workerVars == <<timestamps, store, queue, marked, data, grace, saved>>
vars == <<published, handlerVars, threadVars, workerVars, disk, faults, lostWake>>

Init ==
    /\ published = [f \in Feeds |-> 0]
    /\ hpc = [h \in Handlers |-> "idle"]
    /\ hfeed = [h \in Handlers |-> None]
    /\ hmsg = [h \in Handlers |-> NoMessage]
    /\ htodo = [h \in Handlers |-> {}]
    /\ hnew = [h \in Handlers |-> FALSE]
    /\ timestamps = NoKeys
    /\ store = NoKeys
    /\ queue = <<>>
    /\ marked = {}
    /\ data = NoKeys
    /\ grace = [c \in Chateaux |-> "unset"]
    /\ saved = {}
    /\ tpc = [p \in Threads |-> "idle"]
    /\ tchateau = [p \in Threads |-> None]
    /\ ttodo = [p \in Threads |-> {}]
    /\ tsnap = [p \in Threads |-> NoKeys]
    /\ tprev = [p \in Threads |-> NoKeys]
    /\ disk = NoKeys
    /\ faults = [k \in FaultKinds |-> 0]
    /\ lostWake = {}

\* A fault of kind k happens, within its bound.
Fault(k) ==
    /\ faults[k] < MaxFaults[k]
    /\ faults' = [faults EXCEPT ![k] = @ + 1]

--------------------------------------------------------------------------------
(* The agency, and the request Alpenrose makes of what it fetched.         *)

\* The agency publishes the next version of a feed.
Publish(f) ==
    /\ published[f] < MaxVersion
    /\ published' = [published EXCEPT ![f] = @ + 1]
    /\ UNCHANGED <<handlerVars, threadVars, workerVars, disk, faults, lostWake>>

\* A request arrives with the types whose fetch answered 200 and parsed.
Receive(h, f, present) ==
    /\ hpc[h] = "idle"
    /\ published[f] > 0
    /\ present # {}
    /\ Overlap \/ \A g \in Handlers : hfeed[g] # f
    /\ hpc' = [hpc EXCEPT ![h] = "compare"]
    /\ hfeed' = [hfeed EXCEPT ![h] = f]
    /\ hmsg' = [hmsg EXCEPT ![h] =
                    [t \in Types |-> IF t \in present THEN published[f] ELSE 0]]
    /\ htodo' = [htodo EXCEPT ![h] = present]
    /\ hnew' = [hnew EXCEPT ![h] = FALSE]
    /\ UNCHANGED <<published, threadVars, workerVars, disk, faults, lostWake>>

--------------------------------------------------------------------------------
(* The RPC handler from_alpenrose_compressed.                              *)

\* The types are treated in the order vehicles, trips, alerts.
IsNext(h, t) == t \in htodo[h] /\ \A u \in htodo[h] : t <= u
Present(h) == {t \in Types : hmsg[h][t] # 0}

ToIdle(h) ==
    /\ hpc' = [hpc EXCEPT ![h] = "idle"]
    /\ hfeed' = [hfeed EXCEPT ![h] = None]
    /\ hmsg' = [hmsg EXCEPT ![h] = NoMessage]
    /\ htodo' = [htodo EXCEPT ![h] = {}]
    /\ hnew' = [hnew EXCEPT ![h] = FALSE]

\* Mutant: a missing timestamp is not taken for new data.
ContainsNewDataMut(f, t, version) ==
    f \notin AlwaysNew /\ timestamps[<<f, t>>] # version

\* contains_new_data: no timestamp, or one that differs from the stored one.
ContainsNewData(f, t, version) ==
    f \in AlwaysNew \/ timestamps[<<f, t>>] # version

\* Compare the timestamp of the next type; skipped once new_data is set.
Compare(h) ==
    /\ hpc[h] = "compare"
    /\ \E t \in Types :
          /\ IsNext(h, t)
          /\ hnew' = [hnew EXCEPT ![h] =
                          @ \/ ContainsNewData(hfeed[h], t, hmsg[h][t])]
    /\ hpc' = [hpc EXCEPT ![h] = "stamp"]
    /\ UNCHANGED <<published, hfeed, hmsg, htodo, threadVars, workerVars, disk,
                   faults, lostWake>>

StoresRaw(h) == hnew[h] \/ ChateauOf[hfeed[h]] \in AlwaysWritten
Enqueues(h) == hnew[h] \/ ChateauOf[hfeed[h]] \in AlwaysQueued

\* save_timestamps, then on to the next type, or to the raw store, the queue or
\* the end of the request.
StampType(h, t) ==
    LET f == hfeed[h]
        rest == htodo[h] \ {t}
    IN
    /\ timestamps' = IF f \in AlwaysNew THEN timestamps
                     ELSE [timestamps EXCEPT ![<<f, t>>] = hmsg[h][t]]
    /\ \/ /\ rest # {}
          /\ hpc' = [hpc EXCEPT ![h] = "compare"]
          /\ htodo' = [htodo EXCEPT ![h] = rest]
          /\ UNCHANGED <<hfeed, hmsg, hnew>>
       \/ /\ rest = {} /\ StoresRaw(h)
          /\ hpc' = [hpc EXCEPT ![h] = "store"]
          /\ htodo' = [htodo EXCEPT ![h] = Present(h)]
          /\ UNCHANGED <<hfeed, hmsg, hnew>>
       \/ /\ rest = {} /\ ~StoresRaw(h) /\ Enqueues(h)
          /\ hpc' = [hpc EXCEPT ![h] = "enqueue"]
          /\ htodo' = [htodo EXCEPT ![h] = {}]
          /\ UNCHANGED <<hfeed, hmsg, hnew>>
       \/ /\ rest = {} /\ ~StoresRaw(h) /\ ~Enqueues(h)
          /\ ToIdle(h)
    /\ UNCHANGED <<published, threadVars, store, queue, marked, data, grace, saved,
                   disk, faults, lostWake>>

Stamp(h) == hpc[h] = "stamp" /\ \E t \in Types : IsNext(h, t) /\ StampType(h, t)

\* Overwrite the raw message of the next type.
StoreRaw(h) ==
    /\ hpc[h] = "store"
    /\ \E t \in Types :
          /\ IsNext(h, t)
          /\ store' = [store EXCEPT ![<<hfeed[h], t>>] = hmsg[h][t]]
          /\ hpc' = [hpc EXCEPT ![h] = IF htodo[h] = {t} THEN "enqueue" ELSE "store"]
          /\ htodo' = [htodo EXCEPT ![h] = @ \ {t}]
    /\ UNCHANGED <<published, hfeed, hmsg, hnew, threadVars, timestamps, queue,
                   marked, data, grace, saved, disk, faults, lostWake>>

\* Mutant: a task is pushed without looking whether the chateau is marked.
EnqueueMut(h) ==
    LET c == ChateauOf[hfeed[h]] IN
    /\ hpc[h] = "enqueue"
    /\ queue' = Append(queue, c)
    /\ marked' = marked \cup {c}
    /\ ToIdle(h)
    /\ UNCHANGED <<published, threadVars, timestamps, store, data, grace, saved,
                   disk, faults, lostWake>>

\* Under the lock of the set: a task is pushed unless the chateau is marked.
Enqueue(h) ==
    LET c == ChateauOf[hfeed[h]] IN
    /\ hpc[h] = "enqueue"
    /\ IF c \in marked
       THEN /\ lostWake' = lostWake \cup {c}
            /\ UNCHANGED <<queue, marked>>
       ELSE /\ queue' = Append(queue, c)
            /\ marked' = marked \cup {c}
            /\ UNCHANGED lostWake
    /\ ToIdle(h)
    /\ UNCHANGED <<published, threadVars, timestamps, store, data, grace, saved,
                   disk, faults>>

\* tarpc drops the handler at an await: deadline passed or client gone.
Cancel(h) ==
    /\ hpc[h] \in {"store", "enqueue"}
    /\ Fault("cancel")
    /\ ToIdle(h)
    /\ lostWake' = lostWake \cup {ChateauOf[hfeed[h]]}
    /\ UNCHANGED <<published, threadVars, workerVars, disk>>

--------------------------------------------------------------------------------
(* The processing tasks, and new_rt_data.                                  *)

ThreadToIdle(p) ==
    /\ tpc' = [tpc EXCEPT ![p] = "idle"]
    /\ tchateau' = [tchateau EXCEPT ![p] = None]
    /\ ttodo' = [ttodo EXCEPT ![p] = {}]
    /\ tsnap' = [tsnap EXCEPT ![p] = NoKeys]
    /\ tprev' = [tprev EXCEPT ![p] = NoKeys]

\* Take the oldest task.
Steal(p) ==
    /\ tpc[p] = "idle"
    /\ queue # <<>>
    /\ tpc' = [tpc EXCEPT ![p] = "begin"]
    /\ tchateau' = [tchateau EXCEPT ![p] = Head(queue)]
    /\ queue' = Tail(queue)
    /\ lostWake' = lostWake \ {Head(queue)}
    /\ UNCHANGED <<published, handlerVars, ttodo, tsnap, tprev, timestamps, store,
                   marked, data, grace, saved, disk, faults>>

\* START_TIME is set once per chateau and process; the previous data is cloned.
Begin(p) ==
    LET c == tchateau[p] IN
    /\ tpc[p] = "begin"
    /\ tpc' = [tpc EXCEPT ![p] = "read"]
    /\ grace' = IF grace[c] = "unset" THEN [grace EXCEPT ![c] = "within"] ELSE grace
    /\ tprev' = [tprev EXCEPT ![p] =
                    [k \in Keys |-> IF k \in KeysOf(c) THEN data[k] ELSE 0]]
    /\ ttodo' = [ttodo EXCEPT ![p] = KeysOf(c)]
    /\ UNCHANGED <<published, handlerVars, tchateau, tsnap, timestamps, store, queue,
                   marked, data, saved, disk, faults, lostWake>>

\* Sixty seconds pass since START_TIME.
GraceEnds(c) ==
    /\ grace[c] = "within"
    /\ grace' = [grace EXCEPT ![c] = "past"]
    /\ UNCHANGED <<published, handlerVars, threadVars, timestamps, store, queue,
                   marked, data, saved, disk, faults, lostWake>>

\* Read the raw message of one feed and type.  The code passes over the feeds
\* several times; the last pass decides what is served, and is the one modelled.
ReadRaw(p) ==
    LET k == CHOOSE k \in ttodo[p] : TRUE IN
    /\ tpc[p] = "read"
    /\ ttodo[p] # {}
    /\ tsnap' = [tsnap EXCEPT ![p][k] = store[k]]
    /\ ttodo' = [ttodo EXCEPT ![p] = @ \ {k}]
    /\ UNCHANGED <<published, handlerVars, tpc, tchateau, tprev, workerVars, disk,
                   faults, lostWake>>

\* A Postgres error ends new_rt_data early, with Ok(false) or Err.
Fail(p) ==
    /\ tpc[p] = "read"
    /\ Fault("fail")
    /\ tpc' = [tpc EXCEPT ![p] = "clear"]
    /\ lostWake' = lostWake \cup {tchateau[p]}
    /\ UNCHANGED <<published, handlerVars, tchateau, ttodo, tsnap, tprev, workerVars,
                   disk>>

\* Mutant: previous data is preferred to the new messages.
MergedKeepMut(p) ==
    [k \in Keys |-> IF tprev[p][k] # 0 THEN tprev[p][k] ELSE tsnap[p][k]]

\* Mutant: no grace period.
MergedDropMut(p) == tsnap[p]

\* Within the grace period the previous trip updates absent from the new
\* messages are kept.
Merged(p) ==
    [k \in Keys |->
        IF tsnap[p][k] = 0 /\ k[2] = TripUpdates /\ grace[tchateau[p]] = "within"
        THEN tprev[p][k]
        ELSE tsnap[p][k]]

\* Replace the dataset of the chateau.
Serve(p) ==
    LET new == Merged(p) IN
    /\ tpc[p] = "read"
    /\ ttodo[p] = {}
    /\ data' = [k \in Keys |-> IF k \in KeysOf(tchateau[p]) THEN new[k] ELSE data[k]]
    /\ tsnap' = [tsnap EXCEPT ![p] = new]
    /\ tpc' = [tpc EXCEPT ![p] = "save"]
    /\ UNCHANGED <<published, handlerVars, tchateau, ttodo, tprev, timestamps, store,
                   queue, marked, grace, saved, disk, faults, lostWake>>

\* save_chateau_data: written to a temporary file and renamed, or an error is
\* printed; skipped when the last save is recent.
Save(p) ==
    LET c == tchateau[p] IN
    /\ tpc[p] = "save"
    /\ tpc' = [tpc EXCEPT ![p] = "clear"]
    /\ \/ /\ disk' = [k \in Keys |-> IF k \in KeysOf(c) THEN tsnap[p][k] ELSE disk[k]]
          /\ saved' = saved \cup {c}
          /\ UNCHANGED faults
       \/ c \in saved /\ UNCHANGED <<disk, saved, faults>>
       \/ Fault("io") /\ UNCHANGED <<disk, saved>>
    /\ UNCHANGED <<published, handlerVars, tchateau, ttodo, tsnap, tprev, timestamps,
                   store, queue, marked, data, grace, lostWake>>

\* Mutant: the chateau stays marked.
ClearMut(p) ==
    /\ tpc[p] = "clear"
    /\ ThreadToIdle(p)
    /\ UNCHANGED <<published, handlerVars, workerVars, disk, faults, lostWake>>

\* After new_rt_data, whatever it returned, the chateau is unmarked.
Clear(p) ==
    /\ tpc[p] = "clear"
    /\ marked' = marked \ {tchateau[p]}
    /\ ThreadToIdle(p)
    /\ UNCHANGED <<published, handlerVars, timestamps, store, queue, data, grace,
                   saved, disk, faults, lostWake>>

\* new_rt_data panics: the task is respawned, the chateau stays marked.
Panic(p) ==
    /\ tpc[p] \in {"begin", "read"}
    /\ Fault("panic")
    /\ ThreadToIdle(p)
    /\ UNCHANGED <<published, handlerVars, workerVars, disk, lostWake>>

--------------------------------------------------------------------------------

\* The process dies and a new one starts: it loads what was persisted.
Crash ==
    /\ Fault("crash")
    /\ hpc' = [h \in Handlers |-> "idle"]
    /\ hfeed' = [h \in Handlers |-> None]
    /\ hmsg' = [h \in Handlers |-> NoMessage]
    /\ htodo' = [h \in Handlers |-> {}]
    /\ hnew' = [h \in Handlers |-> FALSE]
    /\ tpc' = [p \in Threads |-> "idle"]
    /\ tchateau' = [p \in Threads |-> None]
    /\ ttodo' = [p \in Threads |-> {}]
    /\ tsnap' = [p \in Threads |-> NoKeys]
    /\ tprev' = [p \in Threads |-> NoKeys]
    /\ timestamps' = NoKeys
    /\ store' = NoKeys
    /\ queue' = <<>>
    /\ marked' = {}
    /\ data' = disk
    /\ grace' = [c \in Chateaux |-> "unset"]
    /\ saved' = {}
    /\ lostWake' = {}
    /\ UNCHANGED <<published, disk>>

HandlerStep(h) == Compare(h) \/ Stamp(h) \/ StoreRaw(h) \/ Enqueue(h)
ThreadStep(p) == Steal(p) \/ Begin(p) \/ ReadRaw(p) \/ Serve(p) \/ Save(p) \/ Clear(p)

Next ==
    \/ \E f \in Feeds : Publish(f)
    \/ \E h \in Handlers, f \in Feeds, present \in SUBSET Types : Receive(h, f, present)
    \/ \E h \in Handlers : HandlerStep(h) \/ Cancel(h)
    \/ \E p \in Threads : ThreadStep(p) \/ Fail(p) \/ Panic(p)
    \/ \E c \in Chateaux : GraceEnds(c)
    \/ Crash

Spec == Init /\ [][Next]_vars

\* Tokio runs every task that can run, and Alpenrose sends every feed again on
\* every round.
Fairness ==
    /\ \A h \in Handlers : WF_vars(HandlerStep(h))
    /\ \A p \in Threads : WF_vars(ThreadStep(p))
    /\ \A f \in Feeds : WF_vars(Publish(f))
    /\ \A f \in Feeds : SF_vars(\E h \in Handlers : Receive(h, f, Types))

FairSpec == Spec /\ Fairness

--------------------------------------------------------------------------------
(* Properties.                                                             *)

Waiting == {queue[i] : i \in DOMAIN queue}
InWork == {tchateau[p] : p \in Threads} \ {None}

HandlersTypeOK ==
    /\ hpc \in [Handlers -> {"idle", "compare", "stamp", "store", "enqueue"}]
    /\ hfeed \in [Handlers -> Feeds \cup {None}]
    /\ hmsg \in [Handlers -> [Types -> Versions]]
    /\ htodo \in [Handlers -> SUBSET Types]
    /\ hnew \in [Handlers -> BOOLEAN]

ThreadsTypeOK ==
    /\ tpc \in [Threads -> {"idle", "begin", "read", "save", "clear"}]
    /\ tchateau \in [Threads -> Chateaux \cup {None}]
    /\ ttodo \in [Threads -> SUBSET Keys]
    /\ tsnap \in [Threads -> [Keys -> Versions]]
    /\ tprev \in [Threads -> [Keys -> Versions]]

StoresTypeOK ==
    /\ published \in [Feeds -> Versions]
    /\ timestamps \in [Keys -> Versions]
    /\ store \in [Keys -> Versions]
    /\ data \in [Keys -> Versions]
    /\ disk \in [Keys -> Versions]

QueueTypeOK ==
    /\ queue \in Seq(Chateaux)
    /\ marked \subseteq Chateaux
    /\ grace \in [Chateaux -> {"unset", "within", "past"}]
    /\ saved \subseteq Chateaux
    /\ faults \in [FaultKinds -> Nat]
    /\ lostWake \subseteq Chateaux

\* Every variable of the worker stays within the values the code gives it.
TypeOK == HandlersTypeOK /\ ThreadsTypeOK /\ StoresTypeOK /\ QueueTypeOK

\* The chateau set works as a lock: however requests, tasks, errors, panics and
\* restarts interleave, a chateau is on the queue once or in the hands of one
\* task, never both, so no two tasks rebuild one dataset at the same time.
OneTaskPerChateau ==
    /\ \A i, j \in DOMAIN queue : queue[i] = queue[j] => i = j
    /\ \A p, q \in Threads : tchateau[p] = tchateau[q] /\ tchateau[p] # None => p = q
    /\ Waiting \cap InWork = {}

\* A chateau is marked exactly while it waits or is worked on; only a panic in
\* new_rt_data leaves a mark without a task behind it, and then no later
\* message of that chateau is ever processed by this process.
MarkedIsWork ==
    /\ Waiting \cup InWork \subseteq marked
    /\ faults["panic"] = 0 => marked \subseteq Waiting \cup InWork

\* Both together: the mark is a lock with one holder, and is only lost by a panic.
MarkIsALock == OneTaskPerChateau /\ MarkedIsWork

Storing(c) == \E h \in Handlers :
    hpc[h] \in {"store", "enqueue"} /\ ChateauOf[hfeed[h]] = c

\* Between requests and tasks the served data is the raw data, unless a wake-up
\* was lost: a handler found the chateau marked after the running task began,
\* the handler was dropped before the queue, or new_rt_data gave up.
FreshUnlessLost ==
    \A c \in Chateaux \ (marked \cup lostWake) :
        ~Storing(c) => \A k \in KeysOf(c) : store[k] # 0 => data[k] = store[k]

\* With one request per feed at a time, what is served never goes back to an
\* older version while the process lives; after a restart a key may vanish
\* until its feed is sent again, because the raw store is not persisted.
ServedMonotone ==
    [][\A k \in Keys :
          \/ data'[k] >= data[k]
          \/ faults'["crash"] > 0 /\ data'[k] = 0
          \/ faults'["crash"] > faults["crash"]]_vars

\* The grace period does what its comment says after a restart: while it lasts,
\* trip updates loaded from disk stay served although their feed has not been
\* received yet.
GraceKeepsTrips ==
    [][\A k \in Keys :
          k[2] = TripUpdates /\ data[k] # 0 /\ data'[k] = 0 =>
              \/ grace[ChateauOf[k[1]]] = "past"
              \/ faults'["crash"] > faults["crash"]]_vars

\* A marked chateau is always processed and unmarked (where nothing panics).
MarkedIsServed == \A c \in Chateaux : c \in marked ~> c \notin marked

\* A feed without header timestamps is sent to processing on every fetch, so
\* its last version ends up served whatever wake-ups are lost on the way.
UntimedFeedsConverge ==
    \A k \in AlwaysNew \X Types : <>[](data[k] = MaxVersion)

================================================================================
