---------------------------- MODULE AspenDirectory -----------------------------
(***************************************************************************)
(* What the readers of etcd, Birch and Alpenrose, rely on when they look   *)
(* up the Aspen worker of a chateau or of a realtime feed: entries name    *)
(* live workers only, an entry is given to one worker at a time, and the   *)
(* only way an entry goes without being overwritten is that its worker     *)
(* leaves, with which all entries of that worker go at once.               *)
(*                                                                         *)
(* Nothing is said of leaders, rounds or leases.  AspenAssign implements   *)
(* this specification.                                                     *)
(***************************************************************************)
CONSTANTS Workers, Chateaux, Feeds, None

VARIABLES
    live,           \* workers that can be looked up
    chateauKey,     \* the worker of each chateau
    feedKey         \* worker and chateau of each realtime feed

vars == <<live, chateauKey, feedKey>>

Init ==
    /\ live = {}
    /\ chateauKey = [c \in Chateaux |-> None]
    /\ feedKey = [f \in Feeds |-> None]

Join(w) ==
    /\ w \notin live
    /\ live' = live \cup {w}
    /\ UNCHANGED <<chateauKey, feedKey>>

Leave(w) ==
    /\ w \in live
    /\ live' = live \ {w}
    /\ chateauKey' = [c \in Chateaux |->
                        IF chateauKey[c] = w THEN None ELSE chateauKey[c]]
    /\ feedKey' = [f \in Feeds |->
                        IF feedKey[f] # None /\ feedKey[f][1] = w THEN None ELSE feedKey[f]]

AssignChateau(c, w) ==
    /\ w \in live
    /\ chateauKey' = [chateauKey EXCEPT ![c] = w]
    /\ UNCHANGED <<live, feedKey>>

AssignFeed(f, c, w) ==
    /\ w \in live
    /\ feedKey' = [feedKey EXCEPT ![f] = <<w, c>>]
    /\ UNCHANGED <<live, chateauKey>>

Next ==
    \E w \in Workers :
        \/ Join(w) \/ Leave(w)
        \/ \E c \in Chateaux : AssignChateau(c, w) \/ \E f \in Feeds : AssignFeed(f, c, w)

Spec == Init /\ [][Next]_vars

================================================================================
