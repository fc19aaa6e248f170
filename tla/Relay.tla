--------------------------------- MODULE Relay ---------------------------------
(***************************************************************************)
(* From an agency to a rider's map: Alpenrose, Aspen and Birch around the  *)
(* directory of Aspen workers in etcd.                                     *)
(*                                                                         *)
(* Aspen is what AspenIngest shows of it: a worker takes a message that    *)
(* differs from the last, and some time later builds a new dataset from    *)
(* the messages it has, with a new stamp.  The directory is AspenDirectory *)
(* with one chateau, and settles as AspenAssign shows: once workers and    *)
(* keys have stopped moving, the chateau and its feeds are with one live   *)
(* worker.  A worker that restarts has lost its messages and serves the    *)
(* dataset from its disk.                                                  *)
(***************************************************************************)
EXTENDS Integers, FiniteSets, Sequences

CONSTANTS
    Fetchers, Workers, Feeds, Chateau, Tiles, Views, None,
    MaxVersion,     \* messages an agency publishes
    MaxEvents       \* moves of keys and feeds, lost requests, restarts

ASSUME ConstantsAssumption ==
    /\ Fetchers # {} /\ Workers # {} /\ None \notin Workers
    /\ Tiles \subseteq Int /\ Views \subseteq SUBSET Tiles
    /\ MaxVersion \in Nat /\ MaxEvents \in Nat

VARIABLES
    published, live, chateauKey, feedKey, up, raw, queued, served, clock,
    assigned, todo, task, due, log, hashes,
    kind, request, stamp, prev, shown, routes,
    datasets,       \* history: the messages of the dataset with each stamp
    events          \* how many of those events there were

fetch == <<todo, task, due, log, hashes>>
client == <<kind, request, stamp, prev, shown, routes>>
directory == <<live, chateauKey, feedKey>>
memory == <<raw, queued>>
data == <<served, clock, datasets>>
vars == <<published, directory, up, memory, data, assigned, fetch, client, events>>

Directory == INSTANCE AspenDirectory WITH Chateaux <- {Chateau}
Alpenrose == INSTANCE AlpenroseFetch
Birch == INSTANCE BirchLive

\* The first deal is over; its choices are alike.
Init ==
    /\ live = Workers
    /\ LET first == CHOOSE w \in Workers : TRUE
       IN  /\ chateauKey = [c \in {Chateau} |-> first]
           /\ feedKey = [f \in Feeds |-> <<first, Chateau>>]
    /\ Alpenrose!FetchInit /\ Birch!LiveInit
    /\ published = [f \in Feeds |-> 0] /\ up = Workers
    /\ raw = [w \in Workers |-> [f \in Feeds |-> None]] /\ queued = {}
    /\ served = [w \in Workers |-> None] /\ clock = 0 /\ datasets = <<>>
    /\ assigned = [a \in Fetchers |-> IF a = CHOOSE b \in Fetchers : TRUE THEN Feeds ELSE {}]
    /\ events = 0

Event == events < MaxEvents /\ events' = events + 1

Publish(f) ==
    /\ published[f] < MaxVersion
    /\ published' = [published EXCEPT ![f] = @ + 1]
    /\ UNCHANGED <<directory, up, memory, data, assigned, fetch, client, events>>

\* new_rt_data of a queued chateau.
Process(w) ==
    /\ w \in queued /\ w \in up
    /\ clock' = clock + 1
    /\ served' = [served EXCEPT ![w] = [stamp |-> clock + 1, data |-> raw[w]]]
    /\ datasets' = Append(datasets, raw[w])
    /\ queued' = queued \ {w}
    /\ UNCHANGED <<published, directory, up, raw, assigned, fetch, client, events>>

\* The chateau and its feeds are with one worker.
Settled ==
    /\ chateauKey[Chateau] # None
    /\ \A f \in Feeds : feedKey[f] = <<chateauKey[Chateau], Chateau>>

\* The leader assigns what is not where it belongs.
Deal ==
    /\ ~Settled
    /\ \/ \E w \in live : chateauKey[Chateau] = None /\ Directory!AssignChateau(Chateau, w)
       \/ \E f \in Feeds : /\ chateauKey[Chateau] # None
                           /\ feedKey[f] # <<chateauKey[Chateau], Chateau>>
                           /\ Directory!AssignFeed(f, Chateau, chateauKey[Chateau])
    /\ UNCHANGED <<published, up, memory, data, assigned, fetch, client, events>>

Register(w) ==
    /\ w \in up /\ Directory!Join(w)
    /\ UNCHANGED <<published, up, memory, data, assigned, fetch, client, events>>

\* The leader moves the chateau, a worker's lease lapses.
MoveKeys ==
    /\ Event
    /\ \/ \E w \in live : w # chateauKey[Chateau] /\ Directory!AssignChateau(Chateau, w)
       \/ \E w \in live : Directory!Leave(w)
    /\ UNCHANGED <<published, up, memory, data, assigned, fetch, client>>

\* A feed goes to other fetchers, which take it over when they rest.
Reassign(a) ==
    /\ Event
    /\ Alpenrose!Resting(a)
    /\ assigned' = [assigned EXCEPT ![a] = Feeds \ @]
    /\ \A f \in Feeds : \E b \in Fetchers : f \in assigned'[b]
    /\ UNCHANGED <<published, directory, up, memory, data, fetch, client>>

Stop(w) ==
    /\ Event
    /\ w \in live /\ Directory!Leave(w)
    /\ up' = up \ {w}
    /\ raw' = [raw EXCEPT ![w] = [f \in Feeds |-> None]] /\ queued' = queued \ {w}
    /\ UNCHANGED <<published, data, assigned, fetch, client>>

Start(w) ==
    /\ w \notin up
    /\ up' = up \cup {w}
    /\ UNCHANGED <<published, directory, memory, data, assigned, fetch, client, events>>

FetchStep(a) ==
    /\ Alpenrose!FetchStep(a)
    /\ UNCHANGED <<live, chateauKey, data, client, events>>

Tick(a, f) ==
    /\ Alpenrose!Tick(a, f)
    /\ UNCHANGED <<live, chateauKey, data, client, events>>

LiveStep ==
    /\ Birch!LiveStep
    /\ UNCHANGED <<published, live, feedKey, memory, clock, datasets, assigned, fetch, events>>

Fault ==
    /\ Event
    /\ \/ /\ \E a \in Fetchers : Alpenrose!FetchFault(a)
          /\ UNCHANGED <<live, chateauKey, data, client>>
       \/ /\ Birch!RequestFails
          /\ UNCHANGED <<published, live, feedKey, memory, clock, datasets, assigned, fetch>>

Next ==
    \/ \E f \in Feeds : Publish(f)
    \/ \E w \in Workers : Process(w) \/ Register(w) \/ Stop(w) \/ Start(w)
    \/ \E a \in Fetchers : FetchStep(a) \/ Reassign(a) \/ \E f \in Feeds : Tick(a, f)
    \/ Deal \/ MoveKeys \/ LiveStep \/ Fault

\* Processes and clocks go on, workers come back and register, and the leader deals.
Fairness ==
    /\ \A w \in Workers : WF_vars(Process(w)) /\ WF_vars(Register(w)) /\ WF_vars(Start(w))
    /\ \A a \in Fetchers : WF_vars(FetchStep(a)) /\ \A f \in Feeds : WF_vars(Tick(a, f))
    /\ WF_vars(Deal) /\ WF_vars(LiveStep)

Spec == Init /\ [][Next]_vars /\ Fairness

-------------------------------------------------------------------------------
TypeOK ==
    /\ published \in [Feeds -> 0..MaxVersion] /\ live \subseteq up /\ up \subseteq Workers
    /\ chateauKey[Chateau] \in live \cup {None}
    /\ raw \in [Workers -> [Feeds -> (0..MaxVersion) \cup {None}]] /\ queued \subseteq up
    /\ assigned \in [Fetchers -> SUBSET Feeds]
    /\ Alpenrose!FetchTypeOK /\ Birch!LiveTypeOK

\* Whatever moves between two requests (the chateau to another worker with
\* another dataset, the client's view, a fetcher), the client's map is never a
\* mixture: all tiles it asked for last, and its routes, are of the dataset that
\* its stamp names.
MapIsOneDataset == stamp # 0 => Birch!Shows(datasets[stamp])

\* The Aspen worker a chateau ends up with is given the last message of every
\* feed, also when the agency said nothing new since the chateau moved there:
\* each response is sent again, as no hash of one is ever kept.
OwnerIsFed == <>[](Settled /\ raw[chateauKey[Chateau]] = published)

\* The client ends up with the last messages, whatever moved and failed before.
EventuallyShown == <>[](prev # {} /\ Birch!Shows(published))
================================================================================
