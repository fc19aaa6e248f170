------------------------------ MODULE AspenAssign ------------------------------
(***************************************************************************)
(* How chateaux and their realtime feeds are given to Aspen workers.       *)
(*                                                                         *)
(* Every Aspen worker holds an etcd lease and registers under              *)
(* /aspen_workers with it.  Separate aspenleader processes elect a leader; *)
(* the leader deals the chateaux of Postgres round robin over the          *)
(* registered workers and writes, with the lease of the worker chosen,     *)
(* /aspen_assigned_chateaux/C and /aspen_assigned_realtime_feed_ids/F.     *)
(* Birch and Alpenrose look the worker up under these keys.  A round reads *)
(* and writes etcd in many requests and nothing fences a leader whose      *)
(* lease lapsed in the middle of one.                                      *)
(*                                                                         *)
(* etcd is modelled by what the code relies on: a key attached to a lease  *)
(* goes when the lease goes; a put with an unknown lease fails; an         *)
(* election orders its keys by creation, the oldest being the leader's;    *)
(* campaign returns when no older key is left, and keeps no lease alive.   *)
(***************************************************************************)
EXTENDS Integers, FiniteSets

CONSTANTS
    Leaders,        \* aspenleader processes
    Workers,        \* aspen worker ids, ordered as their strings are
    Chateaux,       \* chateau ids, ordered as in the BTreeMap
    Feeds,          \* realtime feed ids
    Catalogs,       \* what Postgres may hold: chateaux with their feeds
    None,           \* no value under a key
    MaxFaults       \* bound: how often each kind of fault happens

FaultKinds == {"workerCrash", "workerLapse", "leaderCrash", "leaderLapse",
               "request", "catalog"}

ASSUME ConstantsAssumption ==
    /\ Workers \subseteq Nat /\ Chateaux \subseteq Nat /\ Feeds \subseteq Nat \ {0}
    /\ IsFiniteSet(Workers) /\ IsFiniteSet(Chateaux)
    /\ None \notin Workers \cup (Workers \X Chateaux)
    /\ \A cat \in Catalogs :
          DOMAIN cat \subseteq Chateaux /\ \A c \in DOMAIN cat : cat[c] \subseteq Feeds
    /\ MaxFaults \in [FaultKinds -> Nat]

VARIABLES
    catalog,        \* the chateaux table of Postgres
    wstatus,        \* each worker process: new, starting, up, again or down
    lease,          \* workers whose lease etcd holds
    registered,     \* keys under /aspen_workers
    chateauKey,     \* /aspen_assigned_chateaux/C: the worker
    feedKey,        \* /aspen_assigned_realtime_feed_ids/F: worker and chateau
    llease,         \* leader processes whose lease etcd holds
    candidates,     \* leader processes with a key under /aspen_leader
    lpc,            \* where each leader process is in its loop
    ahead,          \* the keys under /aspen_leader older than that of each
    lcat,           \* chateaux read in this round
    lworkers,       \* workers read in this round
    ltodo,          \* keys this round still has to write
    faults          \* faults so far, by kind

etcdVars == <<lease, registered, chateauKey, feedKey>>
electVars == <<llease, candidates, ahead>>
roundVars == <<lcat, lworkers, ltodo>>
vars == <<catalog, wstatus, etcdVars, electVars, lpc, roundVars, faults>>

NoCatalog == [c \in {} |-> {}]

Init ==
    /\ catalog \in Catalogs
    /\ wstatus = [w \in Workers |-> "new"]
    /\ lease = {}
    /\ registered = {}
    /\ chateauKey = [c \in Chateaux |-> None]
    /\ feedKey = [f \in Feeds |-> None]
    /\ llease = {}
    /\ candidates = {}
    /\ lpc = [l \in Leaders |-> "grant"]
    /\ ahead = [l \in Leaders |-> {}]
    /\ lcat = [l \in Leaders |-> NoCatalog]
    /\ lworkers = [l \in Leaders |-> {}]
    /\ ltodo = [l \in Leaders |-> {}]
    /\ faults = [k \in FaultKinds |-> 0]

\* A fault of kind k happens, within its bound.
Fault(k) ==
    /\ faults[k] < MaxFaults[k]
    /\ faults' = [faults EXCEPT ![k] = @ + 1]

\* Postgres gets other chateaux or feeds.
ChangeCatalog ==
    /\ Fault("catalog")
    /\ catalog' \in Catalogs \ {catalog}
    /\ UNCHANGED <<wstatus, etcdVars, electVars, lpc, roundVars>>

--------------------------------------------------------------------------------
(* Workers.                                                                *)

Alive(w) == wstatus[w] \notin {"new", "down"}

\* A worker process grants itself a lease.
WorkerGrant(w) ==
    /\ wstatus[w] = "new"
    /\ wstatus' = [wstatus EXCEPT ![w] = "starting"]
    /\ lease' = lease \cup {w}
    /\ UNCHANGED <<catalog, registered, chateauKey, feedKey, electVars, lpc, roundVars,
                   faults>>

\* Mutant: the worker key is not put again.
WorkerRegrantMut(w) ==
    /\ wstatus[w] = "up"
    /\ w \notin lease
    /\ lease' = lease \cup {w}
    /\ UNCHANGED <<catalog, wstatus, registered, chateauKey, feedKey, electVars, lpc,
                   roundVars, faults>>

\* The renewer finds its lease gone: the same lease id is granted again.  The
\* assignments that went with the lease are not put again.
WorkerRegrant(w) ==
    /\ wstatus[w] = "up"
    /\ w \notin lease
    /\ wstatus' = [wstatus EXCEPT ![w] = "again"]
    /\ lease' = lease \cup {w}
    /\ UNCHANGED <<catalog, registered, chateauKey, feedKey, electVars, lpc, roundVars,
                   faults>>

\* A renewal fails though the lease is there: the grant is refused, and passed over.
RenewalFails(w) ==
    /\ wstatus[w] = "up"
    /\ w \in lease
    /\ Fault("request")
    /\ wstatus' = [wstatus EXCEPT ![w] = "again"]
    /\ UNCHANGED <<catalog, etcdVars, electVars, lpc, roundVars>>

\* The worker key is put.  An error ends a process that starts; the renewer drops it
\* and goes on renewing, without a key.
WorkerRegister(w) ==
    /\ wstatus[w] \in {"starting", "again"}
    /\ \/ /\ w \in lease
          /\ registered' = registered \cup {w}
          /\ wstatus' = [wstatus EXCEPT ![w] = "up"]
       \/ /\ w \notin lease
          /\ wstatus' = [wstatus EXCEPT ![w] = IF @ = "starting" THEN "down" ELSE "up"]
          /\ UNCHANGED registered
    /\ UNCHANGED <<catalog, lease, chateauKey, feedKey, electVars, lpc, roundVars,
                   faults>>

RegisterFails(w) ==
    /\ wstatus[w] = "again"
    /\ Fault("request")
    /\ wstatus' = [wstatus EXCEPT ![w] = "up"]
    /\ UNCHANGED <<catalog, etcdVars, electVars, lpc, roundVars>>

WorkerCrash(w) ==
    /\ Alive(w)
    /\ Fault("workerCrash")
    /\ wstatus' = [wstatus EXCEPT ![w] = "down"]
    /\ UNCHANGED <<catalog, etcdVars, electVars, lpc, roundVars>>

\* etcd drops the lease of a worker and every key attached to it.
DropWorkerLease(w) ==
    /\ w \in lease
    /\ lease' = lease \ {w}
    /\ registered' = registered \ {w}
    /\ chateauKey' = [c \in Chateaux |->
                        IF chateauKey[c] = w THEN None ELSE chateauKey[c]]
    /\ feedKey' = [f \in Feeds |->
                        IF feedKey[f] # None /\ feedKey[f][1] = w THEN None ELSE feedKey[f]]
    /\ UNCHANGED <<catalog, wstatus, electVars, lpc, roundVars>>

\* The lease of a dead worker runs out; that of a live one may, when its
\* renewals do not get through in time.
WorkerLeaseExpires(w) ==
    /\ wstatus[w] = "down"
    /\ DropWorkerLease(w)
    /\ UNCHANGED faults

WorkerLeaseLapses(w) ==
    /\ Alive(w)
    /\ Fault("workerLapse")
    /\ DropWorkerLease(w)

--------------------------------------------------------------------------------
(* The loop of a leader process, and the election.                         *)

Goto(l, place) == lpc' = [lpc EXCEPT ![l] = place]

\* lease_grant; an error status (the lease exists) is printed and passed over.
Grant(l) ==
    /\ lpc[l] = "grant"
    /\ llease' = llease \cup {l}
    /\ Goto(l, "leader")
    /\ UNCHANGED <<catalog, wstatus, etcdVars, candidates, ahead, roundVars, faults>>

\* The election key of l is the oldest there is.
Leads(l) == l \in candidates /\ ahead[l] = {}

\* Ask who leads: a round of its own, a campaign if nobody does, else wait.
AskLeader(l) ==
    /\ lpc[l] = "leader"
    /\ \/ candidates = {} /\ Goto(l, "campaign")
       \/ Leads(l) /\ Goto(l, "catalog")
       \/ candidates # {} /\ ~Leads(l) /\ Goto(l, "keepalive")
    /\ UNCHANGED <<catalog, wstatus, etcdVars, electVars, roundVars, faults>>

\* A request that fails is taken for nobody leading.
AskFails(l) ==
    /\ lpc[l] = "leader"
    /\ Fault("request")
    /\ Goto(l, "campaign")
    /\ UNCHANGED <<catalog, wstatus, etcdVars, electVars, roundVars>>

\* Mutant: the campaign is taken for won as soon as its key is put.
CampaignMut(l) ==
    /\ lpc[l] = "campaign"
    /\ l \in llease
    /\ candidates' = candidates \cup {l}
    /\ ahead' = [ahead EXCEPT ![l] = IF l \in candidates THEN @ ELSE candidates]
    /\ Goto(l, "catalog")
    /\ UNCHANGED <<catalog, wstatus, etcdVars, llease, roundVars, faults>>

\* The campaign puts an election key, unless the process has one; it fails when the
\* lease has gone.
Campaign(l) ==
    /\ lpc[l] = "campaign"
    /\ \/ /\ l \in llease
          /\ candidates' = candidates \cup {l}
          /\ ahead' = [ahead EXCEPT ![l] = IF l \in candidates THEN @ ELSE candidates]
          /\ Goto(l, "blocked")
       \/ /\ l \notin llease
          /\ Goto(l, "keepalive")
          /\ UNCHANGED <<candidates, ahead>>
    /\ UNCHANGED <<catalog, wstatus, etcdVars, llease, roundVars, faults>>

\* The campaign returns once no older key is left.
CampaignReturns(l) ==
    /\ lpc[l] = "blocked"
    /\ ahead[l] = {}
    /\ Goto(l, "keepalive")
    /\ UNCHANGED <<catalog, wstatus, etcdVars, electVars, roundVars, faults>>

\* The last renewal of the loop: its error is only printed.
KeepAlive(l) ==
    /\ lpc[l] = "keepalive"
    /\ Goto(l, "grant")
    /\ UNCHANGED <<catalog, wstatus, etcdVars, electVars, roundVars, faults>>

\* The renewal after a round: its error ends the process.
Renew(l) ==
    /\ lpc[l] = "renew"
    /\ Goto(l, IF l \in llease THEN "keepalive" ELSE "exited")
    /\ UNCHANGED <<catalog, wstatus, etcdVars, electVars, roundVars, faults>>

EndRound(l) ==
    /\ lcat' = [lcat EXCEPT ![l] = NoCatalog]
    /\ lworkers' = [lworkers EXCEPT ![l] = {}]
    /\ ltodo' = [ltodo EXCEPT ![l] = {}]

LeaderCrash(l) ==
    /\ lpc[l] # "exited"
    /\ Fault("leaderCrash")
    /\ Goto(l, "exited")
    /\ EndRound(l)
    /\ UNCHANGED <<catalog, wstatus, etcdVars, electVars>>

\* etcd drops the lease of a leader process, and its election key.
DropLeaderLease(l) ==
    /\ l \in llease
    /\ llease' = llease \ {l}
    /\ candidates' = candidates \ {l}
    /\ ahead' = [m \in Leaders |-> ahead[m] \ {l}]
    /\ UNCHANGED <<catalog, wstatus, etcdVars, lpc, roundVars>>

\* Nobody renews the lease of a dead process, or of one that waits in a campaign
\* for an older key to go.
Unattended(l) == lpc[l] = "exited" \/ (lpc[l] = "blocked" /\ ahead[l] # {})

LeaderLeaseExpires(l) ==
    /\ Unattended(l)
    /\ DropLeaderLease(l)
    /\ UNCHANGED faults

\* Elsewhere it may run out, above all during a slow round: ten seconds without
\* a renewal.
LeaderLeaseLapses(l) ==
    /\ ~Unattended(l)
    /\ Fault("leaderLapse")
    /\ DropLeaderLease(l)

--------------------------------------------------------------------------------
(* A round of the leader: assign_chateaus.                                 *)

\* The element of S with i smaller ones: S sorted, at index i.
Nth(S, i) == CHOOSE x \in S : Cardinality({y \in S : y < x}) = i

\* Round robin: workers[index % workers.len()], the chateaux in their order.
Dealt(cat, ws, c) ==
    Nth(ws, Cardinality({d \in DOMAIN cat : d < c}) % Cardinality(ws))

\* A key a round may write: the one of a chateau (feed 0) or of a feed of it.
Entry == [chateau : Chateaux, feed : Feeds \cup {0}]

Value(entry, w) == IF entry.feed = 0 THEN w ELSE <<w, entry.chateau>>

\* Errors of Postgres or etcd end the round; they are printed, the loop goes on.
Abort(l) ==
    /\ lpc[l] \in {"catalog", "workers", "chateaux", "feeds", "put"}
    /\ Fault("request")
    /\ Goto(l, "renew")
    /\ EndRound(l)
    /\ UNCHANGED <<catalog, wstatus, etcdVars, electVars>>

ReadCatalog(l) ==
    /\ lpc[l] = "catalog"
    /\ lcat' = [lcat EXCEPT ![l] = catalog]
    /\ Goto(l, "workers")
    /\ UNCHANGED <<catalog, wstatus, etcdVars, electVars, lworkers, ltodo, faults>>

\* With no worker registered the round ends here.
ReadWorkers(l) ==
    /\ lpc[l] = "workers"
    /\ \/ /\ registered # {}
          /\ lworkers' = [lworkers EXCEPT ![l] = registered]
          /\ Goto(l, "chateaux")
          /\ UNCHANGED <<lcat, ltodo>>
       \/ /\ registered = {}
          /\ Goto(l, "renew")
          /\ EndRound(l)
    /\ UNCHANGED <<catalog, wstatus, etcdVars, electVars, faults>>

\* Mutant: a chateau that has a worker is left where it is.
ReadChateauKeysMut(l) ==
    /\ lpc[l] = "chateaux"
    /\ ltodo' = [ltodo EXCEPT ![l] =
            {e \in Entry :
                /\ e.feed = 0 /\ e.chateau \in DOMAIN lcat[l]
                /\ chateauKey[e.chateau] = None}]
    /\ Goto(l, "feeds")
    /\ UNCHANGED <<catalog, wstatus, etcdVars, electVars, lcat, lworkers, faults>>

\* Read the chateau keys: those that differ from the deal are to be written.
ReadChateauKeys(l) ==
    /\ lpc[l] = "chateaux"
    /\ ltodo' = [ltodo EXCEPT ![l] =
            {e \in Entry :
                /\ e.feed = 0 /\ e.chateau \in DOMAIN lcat[l]
                /\ chateauKey[e.chateau] # Dealt(lcat[l], lworkers[l], e.chateau)}]
    /\ Goto(l, "feeds")
    /\ UNCHANGED <<catalog, wstatus, etcdVars, electVars, lcat, lworkers, faults>>

\* Read the feed keys, likewise.
ReadFeedKeys(l) ==
    /\ lpc[l] = "feeds"
    /\ ltodo' = [ltodo EXCEPT ![l] = @ \cup
            {e \in Entry :
                /\ e.chateau \in DOMAIN lcat[l] /\ e.feed \in lcat[l][e.chateau]
                /\ feedKey[e.feed] #
                     Value(e, Dealt(lcat[l], lworkers[l], e.chateau))}]
    /\ Goto(l, "put")
    /\ UNCHANGED <<catalog, wstatus, etcdVars, electVars, lcat, lworkers, faults>>

\* Chateau by chateau, the chateau's own key before those of its feeds.
Before(a, b) ==
    a.chateau < b.chateau \/ (a.chateau = b.chateau /\ a.feed < b.feed)

\* Mutant: the key is put without the lease of its worker.
PutEntryMut(l, e, w) ==
    /\ IF e.feed = 0
       THEN /\ chateauKey' = [chateauKey EXCEPT ![e.chateau] = Value(e, w)]
            /\ UNCHANGED feedKey
       ELSE /\ feedKey' = [feedKey EXCEPT ![e.feed] = Value(e, w)]
            /\ UNCHANGED chateauKey
    /\ ltodo' = [ltodo EXCEPT ![l] = @ \ {e}]
    /\ UNCHANGED <<catalog, wstatus, lease, registered, electVars, lpc, lcat, lworkers,
                   faults>>

\* Write a key with the lease of its worker; if that lease is gone the put fails
\* and the round ends.
PutEntry(l, e, w) ==
    /\ \/ /\ w \in lease
          /\ IF e.feed = 0
             THEN /\ chateauKey' = [chateauKey EXCEPT ![e.chateau] = Value(e, w)]
                  /\ UNCHANGED feedKey
             ELSE /\ feedKey' = [feedKey EXCEPT ![e.feed] = Value(e, w)]
                  /\ UNCHANGED chateauKey
          /\ ltodo' = [ltodo EXCEPT ![l] = @ \ {e}]
          /\ UNCHANGED <<lpc, lcat, lworkers>>
       \/ /\ w \notin lease
          /\ Goto(l, "renew")
          /\ EndRound(l)
          /\ UNCHANGED <<chateauKey, feedKey>>
    /\ UNCHANGED <<catalog, wstatus, lease, registered, electVars, faults>>

\* Write the next key.
Put(l) ==
    /\ lpc[l] = "put"
    /\ \E e \in ltodo[l] :
          /\ \A d \in ltodo[l] \ {e} : Before(e, d)
          /\ PutEntry(l, e, Dealt(lcat[l], lworkers[l], e.chateau))

\* Everything written: compact the history of etcd, and end the round.
Finish(l) ==
    /\ lpc[l] = "put"
    /\ ltodo[l] = {}
    /\ Goto(l, "renew")
    /\ EndRound(l)
    /\ UNCHANGED <<catalog, wstatus, etcdVars, electVars, faults>>

--------------------------------------------------------------------------------

WorkerStep(w) == WorkerGrant(w) \/ WorkerRegrant(w) \/ WorkerRegister(w)
RoundStep(l) ==
    \/ ReadCatalog(l) \/ ReadWorkers(l) \/ ReadChateauKeys(l) \/ ReadFeedKeys(l)
    \/ Put(l) \/ Finish(l)
LeaderStep(l) ==
    \/ Grant(l) \/ AskLeader(l) \/ Campaign(l) \/ CampaignReturns(l)
    \/ KeepAlive(l) \/ Renew(l) \/ RoundStep(l)

Next ==
    \/ ChangeCatalog
    \/ \E w \in Workers :
          \/ WorkerStep(w) \/ RenewalFails(w) \/ RegisterFails(w) \/ WorkerCrash(w)
          \/ WorkerLeaseExpires(w) \/ WorkerLeaseLapses(w)
    \/ \E l \in Leaders :
          \/ LeaderStep(l) \/ AskFails(l) \/ Abort(l) \/ LeaderCrash(l)
          \/ LeaderLeaseExpires(l) \/ LeaderLeaseLapses(l)

Spec == Init /\ [][Next]_vars

\* Processes run, and etcd ends every lease nobody renews.
Fairness ==
    /\ \A w \in Workers : WF_vars(WorkerStep(w)) /\ WF_vars(WorkerLeaseExpires(w))
    /\ \A l \in Leaders : WF_vars(LeaderStep(l)) /\ WF_vars(LeaderLeaseExpires(l))

FairSpec == Spec /\ Fairness

--------------------------------------------------------------------------------
(* Properties.                                                             *)

RoundPlaces == {"catalog", "workers", "chateaux", "feeds", "put", "renew"}
Places == RoundPlaces \cup
    {"grant", "leader", "campaign", "blocked", "keepalive", "exited"}

EtcdTypeOK ==
    /\ lease \subseteq Workers
    /\ registered \subseteq Workers
    /\ chateauKey \in [Chateaux -> Workers \cup {None}]
    /\ feedKey \in [Feeds -> (Workers \X Chateaux) \cup {None}]

ElectTypeOK ==
    /\ llease \subseteq Leaders
    /\ candidates \subseteq Leaders
    /\ ahead \in [Leaders -> SUBSET Leaders]

RoundTypeOK ==
    /\ lpc \in [Leaders -> Places]
    /\ lcat \in [Leaders -> Catalogs \cup {NoCatalog}]
    /\ lworkers \in [Leaders -> SUBSET Workers]
    /\ ltodo \in [Leaders -> SUBSET Entry]

\* Every variable stays within the values the code and etcd give it.
TypeOK ==
    /\ catalog \in Catalogs
    /\ wstatus \in [Workers -> {"new", "starting", "up", "again", "down"}]
    /\ EtcdTypeOK
    /\ ElectTypeOK
    /\ RoundTypeOK
    /\ faults \in [FaultKinds -> Nat]

\* Whoever looks a chateau or a feed up is sent to a worker whose lease etcd
\* still holds: no interleaving of expiries, regrants and the writes of late
\* leaders leaves a key behind that names a worker without a lease.
KeysHaveLiveLease ==
    /\ registered \subseteq lease
    /\ \A c \in Chateaux : chateauKey[c] # None => chateauKey[c] \in lease
    /\ \A f \in Feeds : feedKey[f] # None => feedKey[f][1] \in lease

Directory == INSTANCE AspenDirectory WITH live <- lease

\* For those who look workers up, all of this is a directory: whatever becomes of
\* leaders and their rounds, an entry is only ever given to a live worker, and
\* only goes together with its worker.
ImplementsDirectory == Directory!Spec

InRound(l) == lpc[l] \in RoundPlaces

\* At most one process that is in a round still holds its election key: a
\* second round at the same time is always that of a process whose lease has
\* run out, which ends with its renewal.
OneElectedRound ==
    \A l, m \in Leaders :
        InRound(l) /\ InRound(m) /\ l \in candidates /\ m \in candidates => l = m

Dealer == \E l \in Leaders : lpc[l] # "exited"

\* Every chateau of Postgres and every feed of it is under the worker the round
\* robin over the registered workers gives it.
Balanced ==
    \A c \in DOMAIN catalog :
        LET w == Dealt(catalog, registered, c) IN
        /\ chateauKey[c] = w
        /\ \A f \in catalog[c] : feedKey[f] = <<w, c>>

\* Once crashes, lapses, failed rounds and changes of Postgres stop, the keys
\* end up as the round robin deals them and stay so, as long as a leader
\* process and a worker are left: what late or broken rounds wrote is repaired.
EventuallyBalanced == <>[](Dealer /\ registered # {} => Balanced)

\* A worker whose lease lapsed is in the end among those the leader deals to, whatever
\* lapses hit it while it starts or registers again (but see RegisterFails: where
\* the one put of the renewer is lost, it is not).
EventuallyRegistered ==
    \A w \in Workers : <>[](Alive(w) => w \in registered)

================================================================================
