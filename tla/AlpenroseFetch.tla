---------------------------- MODULE AlpenroseFetch -----------------------------
(***************************************************************************)
(* An Alpenrose worker fetches its feeds and sends them to Aspen           *)
(* (single_fetch_time).                                                    *)
(*                                                                         *)
(* A round starts a task for each assigned feed and ends when all tasks    *)
(* have ended.  A task leaves at once when the interval of its feed is not *)
(* over or the agency said 429 a moment ago; else it asks the agency,      *)
(* looks up the Aspen worker of the feed in etcd, and sends the answer     *)
(* there.  Everything is awaited, so that each step may find another world *)
(* than the one before.                                                    *)
(*                                                                         *)
(* A message is its version.  The three requests of a feed (positions,     *)
(* trips, alerts) are one, and a clock is what it has been compared with:  *)
(* the interval is over or not, a 429 is recent or old.                    *)
(***************************************************************************)
EXTENDS Integers, FiniteSets

CONSTANTS
    Fetchers,       \* Alpenrose workers
    Feeds,
    None

VARIABLES
    published,      \* the message of each feed that its agency answers with
    feedKey,        \* etcd: Aspen worker and chateau of each feed
    up,             \* Aspen workers that answer
    raw,            \* the last message of each feed at each Aspen worker
    queued,         \* Aspen workers with a chateau to process
    assigned,       \* feeds of each fetcher
    todo,           \* feeds of the round that are not started
    task,           \* what each fetcher does for each feed
    due,            \* the interval since last_fetch_per_feed is over
    log,            \* too_many_requests_log: "none", "recent" or "old"
    hashes          \* hashes_of_data

own == <<todo, task, due, log, hashes>>
world == <<published, feedKey, up, assigned>>

Idle == [at |-> "idle"]

FetchInit ==
    /\ todo = [a \in Fetchers |-> {}]
    /\ task = [a \in Fetchers |-> [f \in Feeds |-> Idle]]
    /\ due = [a \in Fetchers |-> [f \in Feeds |-> TRUE]]
    /\ log = [a \in Fetchers |-> [f \in Feeds |-> "none"]]
    /\ hashes = [a \in Fetchers |-> [f \in Feeds |-> None]]

\* No task of the fetcher is running.
Resting(a) == todo[a] = {} /\ \A f \in Feeds : task[a][f] = Idle

StartRound(a) ==
    /\ Resting(a) /\ assigned[a] # {}
    /\ todo' = [todo EXCEPT ![a] = assigned[a]]
    /\ UNCHANGED <<world, raw, queued, task, due, log, hashes>>

SparedMut(a, f) == ~due[a][f] \/ log[a][f] # "none"

\* Skipped: the interval is not over, or a 429 is recent.
Spared(a, f) == ~due[a][f] \/ log[a][f] = "recent"

Skip(a, f) ==
    /\ f \in todo[a] /\ Spared(a, f)
    /\ todo' = [todo EXCEPT ![a] = @ \ {f}]
    /\ UNCHANGED <<world, raw, queued, task, due, log, hashes>>

Fetch(a, f) ==
    /\ f \in todo[a] /\ ~Spared(a, f)
    /\ todo' = [todo EXCEPT ![a] = @ \ {f}]
    /\ due' = [due EXCEPT ![a][f] = FALSE]
    /\ task' = [task EXCEPT ![a][f] = [at |-> "requested"]]
    /\ UNCHANGED <<world, raw, queued, log, hashes>>

Respond(a, f) ==
    /\ task[a][f].at = "requested"
    /\ task' = [task EXCEPT ![a][f] = [at |-> "answered", body |-> published[f]]]
    /\ UNCHANGED <<world, raw, queued, todo, due, log, hashes>>

\* insert_async keeps the time of an earlier 429.
Log429(a, f) == IF log[a][f] = "none" THEN [log EXCEPT ![a][f] = "recent"] ELSE log

\* The agency says 429, another status, or nothing; no body is sent then.
RespondBadly(a, f) ==
    /\ task[a][f].at = "requested"
    /\ task' = [task EXCEPT ![a][f] = [at |-> "answered", body |-> None]]
    /\ log' \in {log, Log429(a, f)}
    /\ UNCHANGED <<world, raw, queued, todo, due, hashes>>

\* The Aspen worker of the feed: without one, and without a good answer, the
\* task ends.
LookUp(a, f) ==
    /\ task[a][f].at = "answered"
    /\ LET found == feedKey[f] # None /\ task[a][f].body # None
       IN  task' = [task EXCEPT ![a][f] =
                       IF found THEN [at |-> "found", body |-> @.body, worker |-> feedKey[f][1]]
                       ELSE Idle]
    /\ UNCHANGED <<world, raw, queued, todo, due, log, hashes>>

LookUpFails(a, f) ==
    /\ task[a][f].at = "answered"
    /\ task' = [task EXCEPT ![a][f] = Idle]
    /\ UNCHANGED <<world, raw, queued, todo, due, log, hashes>>

\* cleanup_response: unchanged data is not sent, as far as the hash is known;
\* a hash is replaced, never put where there was none.
ToSend(a, f, v) == IF hashes[a][f] = v THEN None ELSE v

HashedMut(a, f, v) == [hashes EXCEPT ![a][f] = v]
Hashed(a, f, v) == IF hashes[a][f] = None THEN hashes ELSE [hashes EXCEPT ![a][f] = v]

\* Aspen takes a message whose timestamp differs from the last one's, and
\* queues its chateau.
Receive(w, f, v) ==
    LET new == v # None /\ raw[w][f] # v
    IN  /\ raw' = IF new THEN [raw EXCEPT ![w][f] = v] ELSE raw
        /\ queued' = IF new THEN queued \cup {w} ELSE queued

\* A worker that is gone: no connection, or a call that fails on one made
\* before in this round.
Send(a, f) ==
    /\ task[a][f].at = "found"
    /\ LET v == task[a][f].body
           w == task[a][f].worker
       IN  IF w \in up
           THEN Receive(w, f, ToSend(a, f, v)) /\ hashes' = Hashed(a, f, v)
           ELSE UNCHANGED <<raw, queued>> /\ hashes' \in {hashes, Hashed(a, f, v)}
    /\ task' = [task EXCEPT ![a][f] = Idle]
    /\ UNCHANGED <<world, todo, due, log>>

\* The call fails after the response was cleaned up.
SendFails(a, f) ==
    /\ task[a][f].at = "found"
    /\ hashes' = Hashed(a, f, task[a][f].body)
    /\ task' = [task EXCEPT ![a][f] = Idle]
    /\ UNCHANGED <<world, raw, queued, todo, due, log>>

IntervalEnds(a, f) ==
    /\ ~due[a][f]
    /\ due' = [due EXCEPT ![a][f] = TRUE]
    /\ UNCHANGED <<world, raw, queued, todo, task, log, hashes>>

PauseEnds(a, f) ==
    /\ log[a][f] = "recent"
    /\ log' = [log EXCEPT ![a][f] = "old"]
    /\ UNCHANGED <<world, raw, queued, todo, task, due, hashes>>

\* What a fetcher does, what its clock does, and what can go wrong.
FetchStep(a) ==
    \/ StartRound(a)
    \/ \E f \in Feeds : Skip(a, f) \/ Fetch(a, f) \/ Respond(a, f) \/ LookUp(a, f) \/ Send(a, f)

Tick(a, f) == IntervalEnds(a, f) \/ PauseEnds(a, f)

FetchFault(a) == \E f \in Feeds : RespondBadly(a, f) \/ LookUpFails(a, f) \/ SendFails(a, f)

FetchTypeOK ==
    /\ todo \in [Fetchers -> SUBSET Feeds]
    /\ \A a \in Fetchers, f \in Feeds :
          /\ task[a][f].at \in {"idle", "requested", "answered", "found"}
          /\ log[a][f] \in {"none", "recent", "old"}
          /\ f \in todo[a] => task[a][f] = Idle
    /\ due \in [Fetchers -> [Feeds -> BOOLEAN]]
================================================================================
