------------------------------ MODULE Relay_proofs -----------------------------
(***************************************************************************)
(* Theorems about Relay for any number of fetchers, Aspen workers, feeds,  *)
(* tiles, messages and events.                                             *)
(***************************************************************************)
EXTENDS Relay, TLAPS

\* What a fetcher holds, an Aspen worker stores, and nothing.
Message == (0..MaxVersion) \cup {None}

WorldInv ==
    /\ published \in [Feeds -> 0..MaxVersion]
    /\ live \subseteq up /\ up \subseteq Workers
    /\ chateauKey \in [{Chateau} -> live \cup {None}]
    /\ feedKey \in [Feeds -> (live \X {Chateau}) \cup {None}]
    /\ raw \in [Workers -> [Feeds -> Message]] /\ queued \subseteq up
    /\ assigned \in [Fetchers -> SUBSET Feeds]

TaskInv(a, f) ==
    /\ task[a][f].at \in {"idle", "requested", "answered", "found"}
    /\ task[a][f].at = "idle" => task[a][f] = Alpenrose!Idle
    /\ task[a][f].at = "answered" => task[a][f].body \in Message
    /\ task[a][f].at = "found" => /\ task[a][f].body \in 0..MaxVersion
                                  /\ task[a][f].worker \in Workers
    /\ f \in todo[a] => task[a][f] = Alpenrose!Idle

FetchInv ==
    /\ todo \in [Fetchers -> SUBSET Feeds]
    /\ DOMAIN task = Fetchers /\ \A a \in Fetchers : DOMAIN task[a] = Feeds
    /\ \A a \in Fetchers, f \in Feeds : TaskInv(a, f)
    /\ due \in [Fetchers -> [Feeds -> BOOLEAN]]
    /\ log \in [Fetchers -> [Feeds -> {"none", "recent", "old"}]]
    /\ hashes \in [Fetchers -> [Feeds -> Message]]

\* Each worker serves a dataset of the history, under its stamp.
DataInv ==
    /\ clock \in Nat /\ datasets \in Seq([Feeds -> Message]) /\ Len(datasets) = clock
    /\ DOMAIN served = Workers
    /\ \A w \in Workers : served[w] # None =>
          served[w].stamp \in 1..clock /\ served[w].data = datasets[served[w].stamp]

\* What the client shows of a tile is of its dataset or nothing, and on the tiles
\* it asked for last it is not nothing unless the dataset has nothing there.
ClientInv ==
    /\ kind \in {"tiles", "whole"} /\ prev \subseteq Tiles /\ stamp \in 0..clock
    /\ DOMAIN shown = Tiles
    /\ kind = "whole" => \A r, q \in routes : r = q
    /\ stamp # 0 =>
          /\ \A t \in Tiles : shown[t] # {} => shown[t] = Birch!Vehicles(datasets[stamp], t)
          /\ Birch!Shows(datasets[stamp])

\* A request names what the client has.
AskedInv ==
    /\ request.stamp = stamp /\ request.prev = prev /\ request.routes = routes
    /\ request.at = "found" => request.worker \in Workers

\* An answer brings the client from what it has to what the dataset shows.
AnswerInv ==
    /\ request.stamp \in 1..clock /\ DOMAIN request.tiles \subseteq Tiles
    /\ \A t \in DOMAIN request.tiles :
          request.tiles[t] = Birch!Vehicles(datasets[request.stamp], t)
    /\ \A t \in request.view \ (IF request.all THEN {} ELSE prev) :
          t \notin DOMAIN request.tiles => Birch!Vehicles(datasets[request.stamp], t) = {}
    /\ ~request.all => request.stamp = stamp
    /\ kind = "whole" =>
          \/ request.routes = {Birch!Routes(datasets[request.stamp])}
          \/ request.routes = {} /\ routes = {Birch!Routes(datasets[request.stamp])}

RequestInv ==
    request # None =>
       /\ request.at \in {"lookup", "found", "answered"} /\ request.view \subseteq Tiles
       /\ request.at # "answered" => AskedInv
       /\ request.at = "answered" => AnswerInv

Inv == WorldInv /\ FetchInv /\ DataInv /\ ClientInv /\ RequestInv

--------------------------------------------------------------------------------
\* Initially all parts hold.
LEMMA InitInv == Init => Inv
<1> SUFFICES ASSUME Init PROVE Inv
  OBVIOUS
<1> USE ConstantsAssumption DEF Init, Message
<1>1. WorldInv
  BY DEF WorldInv
<1>2. FetchInv
  BY DEF FetchInv, TaskInv, Alpenrose!FetchInit, Alpenrose!Idle
<1>3. DataInv
  BY DEF DataInv
<1>4. ClientInv /\ RequestInv
  BY <1>3 DEF DataInv, ClientInv, RequestInv, Birch!LiveInit
<1>5. QED
  BY <1>1, <1>2, <1>3, <1>4 DEF Inv
--------------------------------------------------------------------------------
(* What a step leaves alone keeps its part of the invariant. *)

LEMMA WorldSame ==
    ASSUME WorldInv, UNCHANGED <<published, directory, up, memory, assigned>>
    PROVE  WorldInv'
BY DEF WorldInv, directory, memory, Message

LEMMA FetchSame ==
    ASSUME FetchInv, UNCHANGED fetch
    PROVE  FetchInv'
BY DEF FetchInv, TaskInv, fetch, Message

LEMMA DataSame ==
    ASSUME DataInv, UNCHANGED data
    PROVE  DataInv'
BY DEF DataInv, data, Message

LEMMA ClientSame ==
    ASSUME ClientInv, RequestInv, UNCHANGED <<data, client>>
    PROVE  ClientInv' /\ RequestInv'
BY DEF ClientInv, RequestInv, AskedInv, AnswerInv, data, client, Birch!Shows

--------------------------------------------------------------------------------
(* The world. *)

LEMMA PublishInv ==
    ASSUME Inv, NEW f \in Feeds, Publish(f)
    PROVE  Inv'
<1>1. WorldInv'
  BY ConstantsAssumption DEF Inv, WorldInv, Publish, directory, memory, Message
<1>2. QED
  BY <1>1, FetchSame, DataSame, ClientSame DEF Inv, Publish

\* A worker that joins or leaves the directory, and is up or not.
LEMMA RegisterInv ==
    ASSUME Inv, NEW w \in Workers, Register(w)
    PROVE  Inv'
<1>1. WorldInv'
  BY DEF Inv, WorldInv, Register, Directory!Join, memory, Message
<1>2. QED
  BY <1>1, FetchSame, DataSame, ClientSame DEF Inv, Register

LEMMA LeaveKeys ==
    ASSUME WorldInv, NEW w \in live, Directory!Leave(w)
    PROVE  /\ live' = live \ {w}
           /\ chateauKey' \in [{Chateau} -> live' \cup {None}]
           /\ feedKey' \in [Feeds -> (live' \X {Chateau}) \cup {None}]
BY DEF WorldInv, Directory!Leave

LEMMA AssignKeys ==
    ASSUME WorldInv, NEW w \in live,
           \/ Directory!AssignChateau(Chateau, w)
           \/ \E f \in Feeds : Directory!AssignFeed(f, Chateau, w)
    PROVE  /\ live' = live
           /\ chateauKey' \in [{Chateau} -> live' \cup {None}]
           /\ feedKey' \in [Feeds -> (live' \X {Chateau}) \cup {None}]
BY DEF WorldInv, Directory!AssignChateau, Directory!AssignFeed

LEMMA StopInv ==
    ASSUME Inv, NEW w \in Workers, Stop(w)
    PROVE  Inv'
<1>1. WorldInv'
  BY LeaveKeys DEF Inv, WorldInv, Stop, Message
<1>2. QED
  BY <1>1, FetchSame, DataSame, ClientSame DEF Inv, Stop

LEMMA StartInv ==
    ASSUME Inv, NEW w \in Workers, Start(w)
    PROVE  Inv'
<1>1. WorldInv'
  BY DEF Inv, WorldInv, Start, directory, memory, Message
<1>2. QED
  BY <1>1, FetchSame, DataSame, ClientSame DEF Inv, Start

LEMMA ReassignInv ==
    ASSUME Inv, NEW a \in Fetchers, Reassign(a)
    PROVE  Inv'
<1>1. WorldInv'
  BY DEF Inv, WorldInv, Reassign, directory, memory, Message
<1>2. QED
  BY <1>1, FetchSame, DataSame, ClientSame DEF Inv, Reassign

LEMMA DealInv ==
    ASSUME Inv, Deal
    PROVE  Inv'
<1>1. PICK w \in live : \/ Directory!AssignChateau(Chateau, w)
                        \/ \E f \in Feeds : Directory!AssignFeed(f, Chateau, w)
  BY ConstantsAssumption DEF Inv, WorldInv, Deal, Directory!AssignFeed
<1>2. WorldInv'
  BY <1>1, AssignKeys DEF Inv, WorldInv, Deal, memory, Message
<1>3. QED
  BY <1>2, FetchSame, DataSame, ClientSame DEF Inv, Deal

LEMMA MoveKeysInv ==
    ASSUME Inv, MoveKeys
    PROVE  Inv'
<1>1. /\ live' \subseteq live
      /\ chateauKey' \in [{Chateau} -> live' \cup {None}]
      /\ feedKey' \in [Feeds -> (live' \X {Chateau}) \cup {None}]
  BY AssignKeys, LeaveKeys DEF Inv, MoveKeys
<1>2. WorldInv'
  BY <1>1 DEF Inv, WorldInv, MoveKeys, memory, Message
<1>3. QED
  BY <1>2, FetchSame, DataSame, ClientSame DEF Inv, MoveKeys

--------------------------------------------------------------------------------
(* A new dataset goes to the end of the history. *)

LEMMA ProcessInv ==
    ASSUME Inv, NEW w \in Workers, Process(w)
    PROVE  Inv'
<1>1. /\ raw[w] \in [Feeds -> Message] /\ clock \in Nat /\ Len(datasets) = clock
      /\ datasets \in Seq([Feeds -> Message])
  BY DEF Inv, WorldInv, DataInv
<1>2. /\ datasets' \in Seq([Feeds -> Message]) /\ Len(datasets') = clock'
      /\ clock' = clock + 1
      /\ \A n \in 1..clock : datasets'[n] = datasets[n]
      /\ datasets'[clock'] = raw[w]
  BY <1>1 DEF Process
<1>3. WorldInv'
  BY DEF Inv, WorldInv, Process, directory, Message
<1>4. DataInv'
  <2>1. ASSUME NEW v \in Workers, served'[v] # None
        PROVE  /\ served'[v].stamp \in 1..clock'
               /\ served'[v].data = datasets'[served'[v].stamp]
    <3>1. CASE v = w
      BY <1>1, <1>2, <3>1 DEF Process, Inv, DataInv
    <3>2. CASE v # w
      <4>1. served'[v] = served[v]
        BY <3>2 DEF Process, Inv, DataInv
      <4>2. served[v].stamp \in 1..clock /\ served[v].data = datasets[served[v].stamp]
        BY <2>1, <4>1 DEF Inv, DataInv
      <4>3. QED
        BY <1>1, <1>2, <4>1, <4>2
    <3>3. QED
      BY <3>1, <3>2
  <2>2. DOMAIN served' = Workers
    BY DEF Process, Inv, DataInv
  <2>3. QED
    BY <1>1, <1>2, <2>1, <2>2 DEF DataInv
<1>5. ClientInv'
  <2>1. CASE stamp = 0
    BY <1>1, <1>2, <2>1 DEF Inv, ClientInv, Process, client
  <2>2. CASE stamp # 0
    <3>1. stamp \in 1..clock /\ datasets'[stamp] = datasets[stamp]
      BY <1>1, <1>2, <2>2 DEF Inv, ClientInv
    <3>2. QED
      BY <1>1, <1>2, <2>2, <3>1 DEF Inv, ClientInv, Process, client, Birch!Shows
  <2>3. QED
    BY <2>1, <2>2
<1>6. RequestInv'
  <2>1. AskedInv => AskedInv'
    BY DEF Process, client, AskedInv
  <2>2. AnswerInv => AnswerInv'
    <3> SUFFICES ASSUME AnswerInv PROVE AnswerInv'
      OBVIOUS
    <3>1. request.stamp \in 1..clock /\ datasets'[request.stamp] = datasets[request.stamp]
      BY <1>1, <1>2 DEF AnswerInv
    <3>2. QED
      BY <1>1, <1>2, <3>1 DEF Process, client, AnswerInv
  <2>3. QED
    BY <2>1, <2>2 DEF Inv, RequestInv, Process, client
<1>7. QED
  BY <1>3, <1>4, <1>5, <1>6, FetchSame DEF Inv, Process

--------------------------------------------------------------------------------
(* The fetchers. *)

\* A task of a fetcher moves on.
LEMMA TaskMoves ==
    ASSUME FetchInv, NEW a \in Fetchers, NEW f \in Feeds,
           NEW new, task' = [task EXCEPT ![a][f] = new],
           todo' \in {todo, [todo EXCEPT ![a] = @ \ {f}]},
           f \notin todo'[a],
           new.at \in {"idle", "requested", "answered", "found"},
           new.at = "idle" => new = Alpenrose!Idle,
           new.at = "answered" => new.body \in Message,
           new.at = "found" => new.body \in 0..MaxVersion /\ new.worker \in Workers
    PROVE  /\ todo' \in [Fetchers -> SUBSET Feeds]
           /\ DOMAIN task' = Fetchers /\ \A b \in Fetchers : DOMAIN task'[b] = Feeds
           /\ \A b \in Fetchers, g \in Feeds : TaskInv(b, g)'
<1>1. todo' \in [Fetchers -> SUBSET Feeds]
  BY DEF FetchInv
<1>2. DOMAIN task' = Fetchers /\ \A b \in Fetchers : DOMAIN task'[b] = Feeds
  BY DEF FetchInv
<1>3. ASSUME NEW b \in Fetchers, NEW g \in Feeds
      PROVE  TaskInv(b, g)'
  <2>1. CASE b = a /\ g = f
    BY <2>1 DEF FetchInv, TaskInv
  <2>2. CASE ~(b = a /\ g = f)
    <3>1. task'[b][g] = task[b][g] /\ (g \in todo'[b] => g \in todo[b])
      BY <2>2 DEF FetchInv
    <3>2. QED
      BY <3>1 DEF FetchInv, TaskInv, Message
  <2>3. QED
    BY <2>1, <2>2
<1>4. QED
  BY <1>1, <1>2, <1>3

\* Changing one entry of a table of fetchers and feeds.
LEMMA EntryType ==
    ASSUME NEW S, NEW t \in [Fetchers -> [Feeds -> S]],
           NEW a \in Fetchers, NEW f \in Feeds, NEW v \in S
    PROVE  [t EXCEPT ![a][f] = v] \in [Fetchers -> [Feeds -> S]]
OBVIOUS

LEMMA HashedType ==
    ASSUME FetchInv, NEW a \in Fetchers, NEW f \in Feeds, NEW v \in Message
    PROVE  Alpenrose!Hashed(a, f, v) \in [Fetchers -> [Feeds -> Message]]
BY DEF FetchInv, Alpenrose!Hashed

\* What a step of a fetcher, of its clocks or of its bad luck does to the world.
LEMMA ReceiveType ==
    ASSUME WorldInv, NEW w \in up, NEW f \in Feeds, NEW v \in Message,
           Alpenrose!Receive(w, f, v), UNCHANGED <<published, directory, up, assigned>>
    PROVE  WorldInv'
<1>1. raw' \in [Workers -> [Feeds -> Message]] /\ queued' \subseteq up
  BY DEF WorldInv, Alpenrose!Receive
<1>2. QED
  BY <1>1 DEF WorldInv, directory

LEMMA FetchStepInv ==
    ASSUME WorldInv, FetchInv, UNCHANGED <<live, chateauKey>>,
           NEW a \in Fetchers,
           \/ Alpenrose!FetchStep(a)
           \/ \E f \in Feeds : Alpenrose!Tick(a, f)
           \/ Alpenrose!FetchFault(a)
    PROVE  WorldInv' /\ FetchInv'
<1> USE DEF Alpenrose!world, directory, memory
<1>a. /\ due \in [Fetchers -> [Feeds -> BOOLEAN]]
      /\ log \in [Fetchers -> [Feeds -> {"none", "recent", "old"}]]
      /\ hashes \in [Fetchers -> [Feeds -> Message]]
      /\ \A b \in Fetchers, f \in Feeds : TaskInv(b, f)
  BY DEF FetchInv
<1>1. ASSUME Alpenrose!StartRound(a)
      PROVE  WorldInv' /\ FetchInv'
  <2>1. WorldInv'
    BY <1>1, WorldSame DEF Alpenrose!StartRound
  <2>2. assigned[a] \subseteq Feeds
    BY DEF WorldInv
  <2>3. ASSUME NEW b \in Fetchers, NEW f \in Feeds
        PROVE  TaskInv(b, f)'
    BY <1>1, <2>2, <2>3 DEF Alpenrose!StartRound, Alpenrose!Resting, FetchInv, TaskInv, Message
  <2>4. QED
    BY <1>1, <2>1, <2>2, <2>3 DEF Alpenrose!StartRound, FetchInv, Message
<1>2. ASSUME NEW f \in Feeds, Alpenrose!Skip(a, f)
      PROVE  WorldInv' /\ FetchInv'
  <2>1. WorldInv'
    BY <1>2, WorldSame DEF Alpenrose!Skip
  <2>2. ASSUME NEW b \in Fetchers, NEW g \in Feeds
        PROVE  TaskInv(b, g)'
    BY <1>2, <2>2 DEF Alpenrose!Skip, FetchInv, TaskInv, Message
  <2>3. QED
    BY <1>2, <2>1, <2>2 DEF Alpenrose!Skip, FetchInv, Message
<1>3. ASSUME NEW f \in Feeds, Alpenrose!Fetch(a, f)
      PROVE  WorldInv' /\ FetchInv'
  <2>1. WorldInv'
    BY <1>3, WorldSame DEF Alpenrose!Fetch
  <2>2. due' \in [Fetchers -> [Feeds -> BOOLEAN]]
    BY <1>3, <1>a DEF Alpenrose!Fetch
  <2>3. /\ task' = [task EXCEPT ![a][f] = [at |-> "requested"]]
        /\ todo' = [todo EXCEPT ![a] = @ \ {f}] /\ f \notin todo'[a]
    BY <1>3 DEF Alpenrose!Fetch, FetchInv
  <2>4. /\ todo' \in [Fetchers -> SUBSET Feeds]
        /\ DOMAIN task' = Fetchers /\ \A b \in Fetchers : DOMAIN task'[b] = Feeds
        /\ \A b \in Fetchers, g \in Feeds : TaskInv(b, g)'
    <3> DEFINE new == [at |-> "requested"]
    <3>1. new.at = "requested" /\ task' = [task EXCEPT ![a][f] = new]
      BY <2>3
    <3> HIDE DEF new
    <3>2. QED
      BY <2>3, <3>1, TaskMoves
  <2>5. QED
    BY <1>3, <1>a, <2>1, <2>2, <2>4 DEF Alpenrose!Fetch, FetchInv, Message
<1>4. ASSUME NEW f \in Feeds, Alpenrose!Respond(a, f)
      PROVE  WorldInv' /\ FetchInv'
  <2>1. WorldInv'
    BY <1>4, WorldSame DEF Alpenrose!Respond
  <2>2. published[f] \in Message /\ f \notin todo[a]
    BY <1>4 DEF WorldInv, Message, FetchInv, TaskInv, Alpenrose!Respond, Alpenrose!Idle
  <2>3. /\ todo' \in [Fetchers -> SUBSET Feeds]
        /\ DOMAIN task' = Fetchers /\ \A b \in Fetchers : DOMAIN task'[b] = Feeds
        /\ \A b \in Fetchers, g \in Feeds : TaskInv(b, g)'
    <3> DEFINE new == [at |-> "answered", body |-> published[f]]
    <3>1. /\ new.at = "answered" /\ new.body = published[f]
          /\ task' = [task EXCEPT ![a][f] = new] /\ todo' = todo
      BY <1>4 DEF Alpenrose!Respond
    <3> HIDE DEF new
    <3>2. QED
      BY <2>2, <3>1, TaskMoves
  <2>4. QED
    BY <1>4, <1>a, <2>1, <2>3 DEF Alpenrose!Respond, FetchInv, Message
<1>5. ASSUME NEW f \in Feeds, Alpenrose!RespondBadly(a, f)
      PROVE  WorldInv' /\ FetchInv'
  <2>1. WorldInv'
    BY <1>5, WorldSame DEF Alpenrose!RespondBadly
  <2>2. f \notin todo[a] /\ None \in Message
    BY <1>5 DEF Message, FetchInv, TaskInv, Alpenrose!RespondBadly, Alpenrose!Idle
  <2>3. log' \in [Fetchers -> [Feeds -> {"none", "recent", "old"}]]
    <3>1. [log EXCEPT ![a][f] = "recent"] \in [Fetchers -> [Feeds -> {"none", "recent", "old"}]]
      BY <1>a
    <3>2. QED
      BY <1>5, <1>a, <3>1 DEF Alpenrose!RespondBadly, Alpenrose!Log429
  <2>4. /\ todo' \in [Fetchers -> SUBSET Feeds]
        /\ DOMAIN task' = Fetchers /\ \A b \in Fetchers : DOMAIN task'[b] = Feeds
        /\ \A b \in Fetchers, g \in Feeds : TaskInv(b, g)'
    <3> DEFINE new == [at |-> "answered", body |-> None]
    <3>1. /\ new.at = "answered" /\ new.body = None
          /\ task' = [task EXCEPT ![a][f] = new] /\ todo' = todo
      BY <1>5 DEF Alpenrose!RespondBadly
    <3> HIDE DEF new
    <3>2. QED
      BY <2>2, <3>1, TaskMoves
  <2>5. QED
    BY <1>5, <1>a, <2>1, <2>3, <2>4 DEF Alpenrose!RespondBadly, FetchInv, Message
<1>6. ASSUME NEW f \in Feeds, Alpenrose!LookUp(a, f)
      PROVE  WorldInv' /\ FetchInv'
  <2>1. WorldInv'
    BY <1>6, WorldSame DEF Alpenrose!LookUp
  <2>2. f \notin todo[a] /\ task[a][f].body \in Message
    BY <1>6 DEF FetchInv, TaskInv, Alpenrose!LookUp, Alpenrose!Idle
  <2>3. feedKey[f] # None => feedKey[f][1] \in Workers
    BY DEF WorldInv
  <2>4. QED
    BY <1>6, <2>1, <2>2, <2>3, TaskMoves DEF Alpenrose!LookUp, Alpenrose!Idle, FetchInv, Message
<1>7. ASSUME NEW f \in Feeds, Alpenrose!LookUpFails(a, f)
      PROVE  WorldInv' /\ FetchInv'
  <2>1. WorldInv'
    BY <1>7, WorldSame DEF Alpenrose!LookUpFails
  <2>2. f \notin todo[a]
    BY <1>7 DEF FetchInv, TaskInv, Alpenrose!LookUpFails, Alpenrose!Idle
  <2>3. QED
    BY <1>7, <2>1, <2>2, TaskMoves DEF Alpenrose!LookUpFails, Alpenrose!Idle, FetchInv, Message
<1>8. ASSUME NEW f \in Feeds, Alpenrose!Send(a, f) \/ Alpenrose!SendFails(a, f)
      PROVE  WorldInv' /\ FetchInv'
  <2>1. /\ f \notin todo[a] /\ task[a][f].body \in Message
        /\ task[a][f].worker \in Workers
    BY <1>8 DEF FetchInv, TaskInv, Alpenrose!Send, Alpenrose!SendFails, Alpenrose!Idle, Message
  <2>2. Alpenrose!ToSend(a, f, task[a][f].body) \in Message
    BY <2>1 DEF Alpenrose!ToSend, Message
  <2>3. hashes' \in [Fetchers -> [Feeds -> Message]]
    <3>1. Alpenrose!Hashed(a, f, task[a][f].body) \in [Fetchers -> [Feeds -> Message]]
      BY <2>1, HashedType
    <3>2. hashes' \in {hashes, Alpenrose!Hashed(a, f, task[a][f].body)}
      BY <1>8 DEF Alpenrose!Send, Alpenrose!SendFails
    <3>3. QED
      BY <1>a, <3>1, <3>2
  <2>4. WorldInv'
    BY <1>8, <2>1, <2>2, ReceiveType, WorldSame DEF Alpenrose!Send, Alpenrose!SendFails
  <2>5. QED
    BY <1>8, <2>1, <2>3, <2>4, TaskMoves
    DEF Alpenrose!Send, Alpenrose!SendFails, Alpenrose!Idle, FetchInv
<1>9. ASSUME NEW f \in Feeds, Alpenrose!Tick(a, f)
      PROVE  WorldInv' /\ FetchInv'
  <2>1. WorldInv'
    BY <1>9, WorldSame DEF Alpenrose!Tick, Alpenrose!IntervalEnds, Alpenrose!PauseEnds
  <2>2. /\ due' \in [Fetchers -> [Feeds -> BOOLEAN]]
        /\ log' \in [Fetchers -> [Feeds -> {"none", "recent", "old"}]]
    <3>1. /\ [due EXCEPT ![a][f] = TRUE] \in [Fetchers -> [Feeds -> BOOLEAN]]
          /\ [log EXCEPT ![a][f] = "old"] \in [Fetchers -> [Feeds -> {"none", "recent", "old"}]]
      BY <1>a
    <3>2. due' \in {due, [due EXCEPT ![a][f] = TRUE]} /\ log' \in {log, [log EXCEPT ![a][f] = "old"]}
      BY <1>9 DEF Alpenrose!Tick, Alpenrose!IntervalEnds, Alpenrose!PauseEnds
    <3>3. QED
      BY <1>a, <3>1, <3>2
  <2>3. QED
    BY <1>9, <2>1, <2>2
    DEF FetchInv, TaskInv, Message, Alpenrose!Tick, Alpenrose!IntervalEnds, Alpenrose!PauseEnds
<1>10. QED
  BY <1>1, <1>2, <1>3, <1>4, <1>5, <1>6, <1>7, <1>8, <1>9
  DEF Alpenrose!FetchStep, Alpenrose!FetchFault

--------------------------------------------------------------------------------
(* Birch and its client. *)

LEMMA AskInv ==
    ASSUME DataInv, ClientInv, RequestInv, Birch!Ask, UNCHANGED datasets, UNCHANGED clock
    PROVE  DataInv' /\ ClientInv' /\ RequestInv'
<1> USE DEF Birch!Ask, Birch!aspen, Birch!client
<1>1. DataInv' /\ ClientInv'
  BY DEF DataInv, ClientInv, Birch!Shows, Message
<1>2. PICK v \in (IF kind = "tiles" THEN Views ELSE {Tiles}) :
         request' = [at |-> "lookup", view |-> v, stamp |-> stamp, prev |-> prev, routes |-> routes]
  OBVIOUS
<1>3. v \subseteq Tiles
  BY ConstantsAssumption
<1>4. QED
  BY <1>1, <1>2, <1>3 DEF RequestInv, AskedInv

LEMMA LookUpInv ==
    ASSUME WorldInv, DataInv, ClientInv, RequestInv, Birch!LookUpChateau,
           UNCHANGED datasets, UNCHANGED clock
    PROVE  DataInv' /\ ClientInv' /\ RequestInv'
<1> USE DEF Birch!LookUpChateau, Birch!aspen, Birch!client
<1>1. DataInv' /\ ClientInv'
  BY DEF DataInv, ClientInv, Birch!Shows, Message
<1>2. chateauKey[Chateau] # None => chateauKey[Chateau] \in Workers
  BY DEF WorldInv
<1>3. QED
  BY <1>1, <1>2 DEF RequestInv, AskedInv

LEMMA RequestFailsInv ==
    ASSUME DataInv, ClientInv, Birch!RequestFails, UNCHANGED datasets, UNCHANGED clock
    PROVE  DataInv' /\ ClientInv' /\ RequestInv'
BY DEF Birch!RequestFails, Birch!aspen, Birch!client, DataInv, ClientInv, RequestInv,
   Birch!Shows, Message

\* An answer of Aspen's dataset brings what the client lacks of it.
LEMMA AnswersInv ==
    ASSUME DataInv, ClientInv, RequestInv, Birch!AskAspen, UNCHANGED datasets, UNCHANGED clock
    PROVE  DataInv' /\ ClientInv' /\ RequestInv'
<1> USE DEF Birch!aspen, Birch!client
<1> DEFINE d == served[request.worker]
<1>1. DataInv' /\ ClientInv'
  BY DEF Birch!AskAspen, DataInv, ClientInv, Birch!Shows, Message
<1>2. /\ request # None /\ request.at = "found" /\ request.view \subseteq Tiles
      /\ request.stamp = stamp /\ request.prev = prev /\ request.routes = routes
      /\ request.worker \in Workers
  BY DEF Birch!AskAspen, RequestInv, AskedInv
<1>3. d # None => d.stamp \in 1..clock /\ d.data = datasets[d.stamp]
  BY <1>2 DEF DataInv
<1>4. CASE request' = None
  BY <1>1, <1>4 DEF RequestInv
<1>5. CASE d # None /\ request' = Birch!TilesAnswer(d) /\ kind = "tiles"
  <2>1. /\ request'.at = "answered" /\ request'.view = request.view
        /\ request'.stamp = d.stamp /\ request'.all = Birch!ReplaceAll(d)
        /\ request'.tiles =
             LET sent == IF Birch!ReplaceAll(d) THEN request.view ELSE request.view \ request.prev
             IN  [t \in {q \in sent : Birch!Vehicles(d.data, q) # {}} |-> Birch!Vehicles(d.data, t)]
    BY <1>5 DEF Birch!TilesAnswer
  <2>2. ~Birch!ReplaceAll(d) => d.stamp = stamp /\ request.prev = prev
    BY <1>2 DEF Birch!ReplaceAll
  <2>3. UNCHANGED <<prev, routes, kind, stamp>>
    BY DEF Birch!AskAspen
  <2>4. request'.stamp \in 1..clock /\ datasets[request'.stamp] = d.data
    BY <1>3, <1>5, <2>1
  <2>5. /\ DOMAIN request'.tiles \subseteq Tiles
        /\ \A t \in DOMAIN request'.tiles : request'.tiles[t] = Birch!Vehicles(d.data, t)
    BY <1>2, <2>1
  <2>6. \A t \in request'.view \ (IF request'.all THEN {} ELSE prev) :
           t \notin DOMAIN request'.tiles => Birch!Vehicles(d.data, t) = {}
    BY <2>1, <2>2
  <2>7. AnswerInv'
    BY <1>5, <2>1, <2>2, <2>3, <2>4, <2>5, <2>6 DEF AnswerInv
  <2>8. QED
    BY <1>1, <1>2, <2>1, <2>7 DEF RequestInv
<1>6. CASE d # None /\ request' = Birch!WholeAnswer(d) /\ request' # None /\ kind = "whole"
  <2>1. /\ request'.at = "answered" /\ request'.view = request.view
        /\ request'.stamp = d.stamp /\ request'.all = TRUE
        /\ request'.tiles = [t \in {q \in Tiles : Birch!Vehicles(d.data, q) # {}} |->
                               Birch!Vehicles(d.data, t)]
        /\ request'.routes = {Birch!Routes(d.data)} \ request.routes
    BY <1>6 DEF Birch!WholeAnswer
  <2>2. \/ request'.routes = {Birch!Routes(d.data)}
        \/ request'.routes = {} /\ routes = {Birch!Routes(d.data)}
    BY <1>2, <1>6, <2>1 DEF ClientInv
  <2>3. UNCHANGED <<prev, routes, kind, stamp>>
    BY DEF Birch!AskAspen
  <2>4. /\ request'.stamp \in 1..clock /\ datasets[request'.stamp] = d.data
        /\ DOMAIN request'.tiles \subseteq Tiles
    BY <1>3, <1>6, <2>1
  <2>5. \A t \in DOMAIN request'.tiles : request'.tiles[t] = Birch!Vehicles(d.data, t)
    BY <2>1
  <2>6. \A t \in request'.view : t \notin DOMAIN request'.tiles => Birch!Vehicles(d.data, t) = {}
    BY <1>2, <2>1
  <2>7. AnswerInv'
    BY <2>1, <2>2, <2>3, <2>4, <2>5, <2>6 DEF AnswerInv
  <2>8. QED
    BY <1>1, <1>2, <2>1, <2>7 DEF RequestInv
<1>7. QED
  BY <1>4, <1>5, <1>6 DEF Birch!AskAspen, ClientInv

LEMMA ApplyInv ==
    ASSUME DataInv, ClientInv, RequestInv, Birch!Apply, UNCHANGED datasets, UNCHANGED clock
    PROVE  DataInv' /\ ClientInv' /\ RequestInv'
<1> USE DEF Birch!aspen
<1> DEFINE s == request.stamp
           V(t) == Birch!Vehicles(datasets[s], t)
<1>1. DataInv'
  BY DEF Birch!Apply, DataInv, Message
<1>2. RequestInv'
  BY DEF Birch!Apply, RequestInv
<1>3. request # None /\ request.view \subseteq Tiles /\ AnswerInv
  BY DEF Birch!Apply, RequestInv
<1>4. /\ stamp' = s /\ s \in 1..clock /\ prev' = request.view
      /\ shown' = [t \in Tiles |->
                      IF t \in DOMAIN request.tiles THEN request.tiles[t]
                      ELSE IF request.all THEN {} ELSE shown[t]]
      /\ routes' = IF request.routes = {} THEN routes ELSE request.routes
  BY <1>3 DEF Birch!Apply, AnswerInv
<1>5. ASSUME NEW t \in Tiles
      PROVE  shown'[t] # {} => shown'[t] = V(t)
  BY <1>3, <1>4 DEF AnswerInv, ClientInv
<1>6. ASSUME NEW t \in request.view
      PROVE  shown'[t] = V(t)
  <2>1. CASE t \in DOMAIN request.tiles
    BY <1>3, <1>4, <2>1 DEF AnswerInv
  <2>2. CASE t \notin DOMAIN request.tiles /\ (request.all \/ t \notin prev)
    BY <1>3, <1>4, <1>5, <2>2 DEF AnswerInv
  <2>3. CASE t \notin DOMAIN request.tiles /\ ~request.all /\ t \in prev
    BY <1>3, <1>4, <2>3 DEF AnswerInv, ClientInv, Birch!Shows
  <2>4. QED
    BY <2>1, <2>2, <2>3
<1>7. kind = "whole" => routes' = {Birch!Routes(datasets[s])}
  BY <1>3, <1>4 DEF AnswerInv
<1>8. kind' = kind /\ clock' = clock /\ datasets' = datasets
  BY DEF Birch!Apply
<1>9. ClientInv'
  BY <1>3, <1>4, <1>5, <1>6, <1>7, <1>8 DEF ClientInv, Birch!Shows
<1>10. QED
  BY <1>1, <1>2, <1>9

--------------------------------------------------------------------------------
LEMMA NextInv ==
    ASSUME Inv, [Next]_vars
    PROVE  Inv'
<1>1. ASSUME NEW a \in Fetchers,
             \/ FetchStep(a)
             \/ \E f \in Feeds : Tick(a, f)
             \/ Fault /\ Alpenrose!FetchFault(a) /\ UNCHANGED <<live, chateauKey, data, client>>
      PROVE  Inv'
  BY <1>1, FetchStepInv, DataSame, ClientSame DEF Inv, FetchStep, Tick
<1>2. ASSUME LiveStep
      PROVE  Inv'
  <2>1. WorldInv' /\ FetchInv' /\ UNCHANGED datasets /\ UNCHANGED clock
    BY <1>2, WorldSame, FetchSame
    DEF Inv, LiveStep, Birch!LiveStep, Birch!Ask, Birch!LookUpChateau, Birch!AskAspen,
        Birch!Apply, Birch!aspen, directory
  <2>2. QED
    BY <1>2, <2>1, AskInv, LookUpInv, AnswersInv, ApplyInv DEF Inv, LiveStep, Birch!LiveStep
<1>3. ASSUME Birch!RequestFails,
             UNCHANGED <<published, live, feedKey, memory, clock, datasets, assigned, fetch>>
      PROVE  Inv'
  <2>1. WorldInv' /\ FetchInv'
    BY <1>3, WorldSame, FetchSame DEF Inv, Birch!RequestFails, Birch!aspen, directory
  <2>2. QED
    BY <1>3, <2>1, RequestFailsInv DEF Inv
<1>4. ASSUME UNCHANGED vars
      PROVE  Inv'
  BY <1>4, WorldSame, FetchSame, DataSame, ClientSame DEF Inv, vars
<1>5. QED
  BY <1>1, <1>2, <1>3, <1>4, PublishInv, ProcessInv, RegisterInv, StopInv, StartInv,
     ReassignInv, DealInv, MoveKeysInv
  DEF Next, Fault

\* Every variable of the composed model keeps its type.
THEOREM TypeCorrect == Spec => []TypeOK
<1>1. Inv => TypeOK
  BY DEF Inv, WorldInv, FetchInv, TaskInv, DataInv, ClientInv, RequestInv, TypeOK, Message,
     Alpenrose!FetchTypeOK, Birch!LiveTypeOK
<1>2. QED
  BY InitInv, NextInv, <1>1, PTL DEF Spec

\* The client's map is never a mixture: whatever tiles were left out of answers,
\* whichever workers gave them, it is the dataset its stamp names.
THEOREM MapCorrect == Spec => []MapIsOneDataset
<1>1. Inv => MapIsOneDataset
  BY DEF Inv, ClientInv, MapIsOneDataset
<1>2. QED
  BY InitInv, NextInv, <1>1, PTL DEF Spec
================================================================================
