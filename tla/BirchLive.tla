------------------------------- MODULE BirchLive -------------------------------
(***************************************************************************)
(* Birch answers a client that keeps a map of vehicles                     *)
(* (bulk_realtime_fetch_v3, get_realtime_locations).                       *)
(*                                                                         *)
(* A request names what the client has: the stamp of the dataset it shows, *)
(* and the tiles it asked for the last time.  Birch looks up the Aspen     *)
(* worker of the chateau, asks it for its dataset and answers with what is *)
(* new: all tiles in view when the stamp is another or nothing was asked   *)
(* for before, else only the tiles that came into view.  In the other      *)
(* protocol ("whole") it answers with everything or with "no content", and *)
(* leaves out the routes when their hash is the client's.                  *)
(*                                                                         *)
(* Birch keeps nothing between requests.  The client is external: it asks  *)
(* again when it has its answer, and does with an answer what its fields   *)
(* say.  One chateau and one category stand for all, which are answered    *)
(* independently of each other.                                            *)
(***************************************************************************)
EXTENDS Integers, FiniteSets

CONSTANTS
    Chateau,
    Tiles,          \* tile numbers of the zoom level
    Views,          \* sets of tiles that a client can look at
    None

VARIABLES
    chateauKey,     \* etcd: the Aspen worker of each chateau
    up,             \* Aspen workers that answer
    served,         \* the dataset of each Aspen worker: its stamp and its messages
    kind,           \* "tiles" or "whole"
    request,        \* the request on its way, or None
    stamp,          \* last_updated_time_ms of what the client shows, or 0
    prev,           \* prev_user_min_x .. prev_user_max_y: tiles asked for before
    shown,          \* vehicles on each tile of the client's map
    routes          \* the client's routes and their hash: {}, or the set of them

client == <<kind, stamp, prev, shown, routes>>
aspen == <<chateauKey, up, served>>

\* A message puts its vehicle on every other tile, and each pair of messages
\* of a feed belongs to one set of routes.
Vehicles(data, t) == {<<f, data[f]>> : f \in {g \in DOMAIN data : data[g] # None /\ (data[g] + t) % 2 = 1}}
Routes(data) == {<<f, (data[f] + 1) \div 2>> : f \in {g \in DOMAIN data : data[g] # None}}

LiveInit ==
    /\ kind \in {"tiles", "whole"}
    /\ request = None /\ stamp = 0 /\ prev = {} /\ routes = {}
    /\ shown = [t \in Tiles |-> {}]

\* The client has moved to any view since the last time.
Ask ==
    /\ request = None
    /\ \E v \in IF kind = "tiles" THEN Views ELSE {Tiles} :
          request' = [at |-> "lookup", view |-> v, stamp |-> stamp, prev |-> prev, routes |-> routes]
    /\ UNCHANGED <<aspen, client>>

\* Without an Aspen worker the chateau is missing from the answer.
LookUpChateau ==
    /\ request # None /\ request.at = "lookup"
    /\ request' = IF chateauKey[Chateau] = None THEN None
                  ELSE [at |-> "found", view |-> request.view, stamp |-> request.stamp,
                        prev |-> request.prev, routes |-> request.routes, worker |-> chateauKey[Chateau]]
    /\ UNCHANGED <<aspen, client>>

\* An error of etcd or of the call to Aspen.
RequestFails ==
    /\ request # None /\ request.at # "answered"
    /\ request' = None
    /\ UNCHANGED <<aspen, client>>

ReplaceAllMut(d) == request.prev = {}

\* replace_all_tiles: mismatched_times or no_previous_tiles.
ReplaceAll(d) == d.stamp # request.stamp \/ request.prev = {}

TilesAnswer(d) ==
    LET all == ReplaceAll(d)
        sent == IF all THEN request.view ELSE request.view \ request.prev
    IN  [at |-> "answered", view |-> request.view, stamp |-> d.stamp, all |-> all,
         tiles |-> [t \in {q \in sent : Vehicles(d.data, q) # {}} |-> Vehicles(d.data, t)],
         routes |-> {}]

\* No content when the client's stamp is the dataset's.
WholeAnswer(d) ==
    IF d.stamp = request.stamp THEN None
    ELSE [at |-> "answered", view |-> request.view, stamp |-> d.stamp, all |-> TRUE,
          tiles |-> [t \in {q \in Tiles : Vehicles(d.data, q) # {}} |-> Vehicles(d.data, t)],
          routes |-> {Routes(d.data)} \ request.routes]

\* The dataset of the worker found before, if it has one and can be reached.
AskAspen ==
    /\ request # None /\ request.at = "found"
    /\ LET d == served[request.worker]
       IN  request' = IF request.worker \notin up \/ d = None THEN None
                      ELSE IF kind = "tiles" THEN TilesAnswer(d) ELSE WholeAnswer(d)
    /\ UNCHANGED <<aspen, client>>

\* The client applies the answer.
Apply ==
    /\ request # None /\ request.at = "answered"
    /\ LET kept == IF request.all THEN [t \in Tiles |-> {}] ELSE shown
       IN  shown' = [t \in Tiles |-> IF t \in DOMAIN request.tiles THEN request.tiles[t] ELSE kept[t]]
    /\ stamp' = request.stamp /\ prev' = request.view
    /\ routes' = IF request.routes = {} THEN routes ELSE request.routes
    /\ request' = None
    /\ UNCHANGED <<aspen, kind>>

LiveStep == Ask \/ LookUpChateau \/ AskAspen \/ Apply

LiveTypeOK ==
    /\ prev \subseteq Tiles /\ stamp \in Nat
    /\ request # None => request.at \in {"lookup", "found", "answered"} /\ request.view \subseteq Tiles
    /\ DOMAIN shown = Tiles

\* What the client shows of the tiles it asked for last, and its routes, are
\* those of this dataset.
Shows(data) ==
    /\ \A t \in prev : shown[t] = Vehicles(data, t)
    /\ kind = "whole" => routes = {Routes(data)}
================================================================================
