---------------------------- MODULE AlpenroseAssign ----------------------------
(***************************************************************************)
(* How the realtime feeds are shared out among Alpenrose workers.          *)
(*                                                                         *)
(* Every worker runs one loop: renew its lease, register under             *)
(* /alpenrose_workers, ask who leads, deal the feeds if it leads, refresh  *)
(* its own assignments, fetch.  The leader writes the feeds of a worker    *)
(* under /alpenrose_assignments/W/F with the lease of that worker, then    *)
(* /alpenrose_assignments_last_updated/W; a worker reads its prefix only   *)
(* when that time stamp differs from the one it knows.  Nothing deletes an *)
(* assignment but the end of the lease.                                    *)
(*                                                                         *)
(* Time stamps are only compared for inequality, so the key of a worker is *)
(* "absent", "known" to the worker, or "new" to it.  The hashes of the     *)
(* worker list and of the feeds are the values hashed.                     *)
(***************************************************************************)
EXTENDS Integers, FiniteSets

CONSTANTS
    Workers,        \* alpenrose worker ids, ordered as their strings are
    Feeds,          \* realtime feed ids, ordered as in the BTreeMap
    Instructions,   \* fetch instructions (RealtimeFeedFetch)
    Catalogs,       \* what Postgres may hold: feeds with their instructions
    None,           \* no value
    MaxFaults       \* bound: how often each kind of fault happens

FaultKinds == {"exit", "lapse", "request", "catalog"}

ASSUME ConstantsAssumption ==
    /\ Workers \subseteq Nat /\ Feeds \subseteq Nat
    /\ IsFiniteSet(Workers) /\ IsFiniteSet(Feeds)
    /\ None \notin Instructions
    /\ \A cat \in Catalogs :
          DOMAIN cat \subseteq Feeds /\ \A f \in DOMAIN cat : cat[f] \in Instructions
    /\ MaxFaults \in [FaultKinds -> Nat]

VARIABLES
    catalog,        \* feeds and passwords in Postgres
    lease,          \* workers whose lease etcd holds
    registered,     \* keys under /alpenrose_workers
    assigned,       \* /alpenrose_assignments/W/F
    stamp,          \* /alpenrose_assignments_last_updated/W, as W sees it
    candidates,     \* workers with a key under /alpenrose_leader
    pc,             \* where each worker is in its loop
    ahead,          \* the keys under /alpenrose_leader older than that of each
    local,          \* assignments_for_this_worker
    knownWorkers,   \* last_set_of_active_nodes_hash
    knownFeeds,     \* last_updated_feeds_hash
    rcat,           \* feeds read by this leader job
    rworkers,       \* workers read by this leader job
    rput,           \* assignments this job still has to put
    rstamp,         \* workers this job has not finished
    faults          \* faults so far, by kind

etcdVars == <<lease, registered, assigned, stamp>>
electVars == <<candidates, ahead>>
jobVars == <<rcat, rworkers, rput, rstamp>>
knownVars == <<knownWorkers, knownFeeds>>
vars == <<catalog, etcdVars, electVars, pc, local, knownVars, jobVars, faults>>

NoFeeds == [f \in {} |-> None]
NoAssignment == [f \in Feeds |-> None]

\* Every worker has connected and been granted its lease.
Init ==
    /\ catalog \in Catalogs
    /\ lease = Workers
    /\ registered = {}
    /\ assigned = [w \in Workers |-> NoAssignment]
    /\ stamp = [w \in Workers |-> "absent"]
    /\ candidates = {}
    /\ pc = [w \in Workers |-> "register"]
    /\ ahead = [w \in Workers |-> {}]
    /\ local = [w \in Workers |-> NoAssignment]
    /\ knownWorkers = [w \in Workers |-> None]
    /\ knownFeeds = [w \in Workers |-> None]
    /\ rcat = [w \in Workers |-> NoFeeds]
    /\ rworkers = [w \in Workers |-> {}]
    /\ rput = [w \in Workers |-> {}]
    /\ rstamp = [w \in Workers |-> {}]
    /\ faults = [k \in FaultKinds |-> 0]

\* A fault of kind k happens, within its bound.
Fault(k) ==
    /\ faults[k] < MaxFaults[k]
    /\ faults' = [faults EXCEPT ![k] = @ + 1]

Goto(w, place) == pc' = [pc EXCEPT ![w] = place]

\* Postgres gets other feeds or other instructions.
ChangeCatalog ==
    /\ Fault("catalog")
    /\ catalog' \in Catalogs \ {catalog}
    /\ UNCHANGED <<etcdVars, electVars, pc, local, knownVars, jobVars>>

--------------------------------------------------------------------------------
(* Leases, and the ends of a worker.                                       *)

\* etcd drops the lease of a worker and every key attached to it.
DropLease(w) ==
    /\ lease' = lease \ {w}
    /\ registered' = registered \ {w}
    /\ assigned' = [assigned EXCEPT ![w] = NoAssignment]
    /\ stamp' = [stamp EXCEPT ![w] = "absent"]
    /\ candidates' = candidates \ {w}
    /\ ahead' = [v \in Workers |-> ahead[v] \ {w}]

\* A dead worker renews nothing, and neither does one that waits in a campaign.
Unattended(w) == pc[w] = "down" \/ (pc[w] = "blocked" /\ ahead[w] # {})

LeaseExpires(w) ==
    /\ w \in lease
    /\ Unattended(w)
    /\ DropLease(w)
    /\ UNCHANGED <<catalog, pc, local, knownVars, jobVars, faults>>

\* Twenty seconds pass without a renewal getting through.
LeaseLapses(w) ==
    /\ w \in lease
    /\ ~Unattended(w)
    /\ Fault("lapse")
    /\ DropLease(w)
    /\ UNCHANGED <<catalog, pc, local, knownVars, jobVars>>

\* What the process held is gone.
ProcessEnds(w) ==
    /\ Goto(w, "down")
    /\ local' = [local EXCEPT ![w] = NoAssignment]
    /\ knownWorkers' = [knownWorkers EXCEPT ![w] = None]
    /\ knownFeeds' = [knownFeeds EXCEPT ![w] = None]
    /\ rcat' = [rcat EXCEPT ![w] = NoFeeds]
    /\ rworkers' = [rworkers EXCEPT ![w] = {}]
    /\ rput' = [rput EXCEPT ![w] = {}]
    /\ rstamp' = [rstamp EXCEPT ![w] = {}]

\* An error of Postgres or etcd that main passes on with `?`, or a crash.
Exit(w) ==
    /\ pc[w] # "down"
    /\ Fault("exit")
    /\ ProcessEnds(w)
    /\ UNCHANGED <<catalog, etcdVars, electVars>>

\* The loop finds no internet: it revokes the lease and ends.
GoOffline(w) ==
    /\ pc[w] = "register"
    /\ w \in lease
    /\ Fault("exit")
    /\ DropLease(w)
    /\ ProcessEnds(w)
    /\ UNCHANGED catalog

--------------------------------------------------------------------------------
(* The loop of a worker, and the election.                                 *)

\* lease_keep_alive and the put of the worker key: either error ends the process.
Register(w) ==
    /\ pc[w] = "register"
    /\ \/ /\ w \in lease
          /\ registered' = registered \cup {w}
          /\ Goto(w, "leader")
          /\ UNCHANGED <<local, knownVars, jobVars>>
       \/ /\ w \notin lease
          /\ ProcessEnds(w)
          /\ UNCHANGED registered
    /\ UNCHANGED <<catalog, lease, assigned, stamp, electVars, faults>>

\* The election key of w is the oldest there is.
Leads(w) == w \in candidates /\ ahead[w] = {}

\* Ask who leads; when nobody does, campaign.
AskLeader(w) ==
    /\ pc[w] = "leader"
    /\ \/ candidates = {} /\ Goto(w, "campaign")
       \/ Leads(w) /\ Goto(w, "metadata")
       \/ candidates # {} /\ ~Leads(w) /\ Goto(w, "refresh")
    /\ UNCHANGED <<catalog, etcdVars, electVars, local, knownVars, jobVars, faults>>

\* A request that fails is taken for nobody leading.
AskFails(w) ==
    /\ pc[w] = "leader"
    /\ Fault("request")
    /\ Goto(w, "campaign")
    /\ UNCHANGED <<catalog, etcdVars, electVars, local, knownVars, jobVars>>

\* Mutant: the campaign is taken for won as soon as its key is put.
CampaignMut(w) ==
    /\ pc[w] = "campaign"
    /\ w \in lease
    /\ candidates' = candidates \cup {w}
    /\ ahead' = [ahead EXCEPT ![w] = IF w \in candidates THEN @ ELSE candidates]
    /\ Goto(w, "metadata")
    /\ UNCHANGED <<catalog, etcdVars, local, knownVars, jobVars, faults>>

\* The campaign puts an election key, unless the worker has one; it fails when the
\* lease has gone.
Campaign(w) ==
    /\ pc[w] = "campaign"
    /\ \/ /\ w \in lease
          /\ candidates' = candidates \cup {w}
          /\ ahead' = [ahead EXCEPT ![w] = IF w \in candidates THEN @ ELSE candidates]
          /\ Goto(w, "blocked")
       \/ /\ w \notin lease
          /\ Goto(w, "again")
          /\ UNCHANGED electVars
    /\ UNCHANGED <<catalog, etcdVars, local, knownVars, jobVars, faults>>

\* The campaign returns once no older key is left.
CampaignReturns(w) ==
    /\ pc[w] = "blocked"
    /\ ahead[w] = {}
    /\ Goto(w, "again")
    /\ UNCHANGED <<catalog, etcdVars, electVars, local, knownVars, jobVars, faults>>

\* Fetch the leader again and see if it is this worker.
AskAgain(w) ==
    /\ pc[w] = "again"
    /\ Goto(w, IF Leads(w) THEN "metadata" ELSE "refresh")
    /\ UNCHANGED <<catalog, etcdVars, electVars, local, knownVars, jobVars, faults>>

\* Read the time stamp; the one read is from now on the one known.
Refresh(w) ==
    /\ pc[w] = "refresh"
    /\ \/ /\ stamp[w] = "new"
          /\ stamp' = [stamp EXCEPT ![w] = "known"]
          /\ Goto(w, "assignments")
       \/ /\ stamp[w] # "new"
          /\ Goto(w, "fetch")
          /\ UNCHANGED stamp
    /\ UNCHANGED <<catalog, lease, registered, assigned, electVars, local, knownVars,
                   jobVars, faults>>

\* Replace the local assignments by what is under the prefix of the worker.
ReadAssignments(w) ==
    /\ pc[w] = "assignments"
    /\ local' = [local EXCEPT ![w] = assigned[w]]
    /\ Goto(w, "fetch")
    /\ UNCHANGED <<catalog, etcdVars, electVars, knownVars, jobVars, faults>>

\* single_fetch_time over the local assignments, then round the loop.
Fetch(w) ==
    /\ pc[w] = "fetch"
    /\ Goto(w, "register")
    /\ UNCHANGED <<catalog, etcdVars, electVars, local, knownVars, jobVars, faults>>

--------------------------------------------------------------------------------
(* The leader job: perform_leader_job.                                     *)

\* The element of S with i smaller ones: S sorted, at index i.
Nth(S, i) == CHOOSE x \in S : Cardinality({y \in S : y < x}) = i

\* Round robin: workers_list[index % workers_list.len()], the feeds in order.
Dealt(cat, ws, f) ==
    Nth(ws, Cardinality({g \in DOMAIN cat : g < f}) % Cardinality(ws))

EndJob(w) ==
    /\ Goto(w, "refresh")
    /\ rcat' = [rcat EXCEPT ![w] = NoFeeds]
    /\ rworkers' = [rworkers EXCEPT ![w] = {}]
    /\ rput' = [rput EXCEPT ![w] = {}]
    /\ rstamp' = [rstamp EXCEPT ![w] = {}]

ReadMetadata(w) ==
    /\ pc[w] = "metadata"
    /\ rcat' = [rcat EXCEPT ![w] = catalog]
    /\ Goto(w, "workers")
    /\ UNCHANGED <<catalog, etcdVars, electVars, local, knownVars, rworkers, rput,
                   rstamp, faults>>

Changed(w) == knownWorkers[w] # registered \/ knownFeeds[w] # rcat[w]

\* The job goes on: the hashes are saved before anything is written.  With feeds
\* to deal and no worker to deal them to, the remainder panics.
StartDeal(w) ==
    /\ pc[w] = "workers"
    /\ \/ /\ registered # {} \/ DOMAIN rcat[w] = {}
          /\ knownWorkers' = [knownWorkers EXCEPT ![w] = registered]
          /\ knownFeeds' = [knownFeeds EXCEPT ![w] = rcat[w]]
          /\ rworkers' = [rworkers EXCEPT ![w] = registered]
          /\ Goto(w, "existing")
          /\ UNCHANGED <<local, rcat, rput, rstamp>>
       \/ /\ registered = {} /\ DOMAIN rcat[w] # {}
          /\ ProcessEnds(w)
    /\ UNCHANGED <<catalog, etcdVars, electVars, faults>>

DealChanged(w) == Changed(w) /\ StartDeal(w)

\* One time in ten the deal is made although nothing changed.
DealAnyway(w) == ~Changed(w) /\ StartDeal(w)

SkipDeal(w) ==
    /\ pc[w] = "workers"
    /\ ~Changed(w)
    /\ EndJob(w)
    /\ UNCHANGED <<catalog, etcdVars, electVars, local, knownVars, faults>>

\* Mutant: only workers that get something put are told to read.
ReadExistingMut(w) ==
    LET dealt == [f \in DOMAIN rcat[w] |-> Dealt(rcat[w], rworkers[w], f)]
        wrong == {f \in DOMAIN dealt : assigned[dealt[f]][f] # rcat[w][f]}
    IN
    /\ pc[w] = "existing"
    /\ rput' = [rput EXCEPT ![w] = {<<dealt[f], f>> : f \in wrong}]
    /\ rstamp' = [rstamp EXCEPT ![w] = {dealt[f] : f \in wrong}]
    /\ Goto(w, "put")
    /\ UNCHANGED <<catalog, etcdVars, electVars, local, knownVars, rcat, rworkers,
                   faults>>

\* Read what is assigned; what equals the deal is not put again.
ReadExisting(w) ==
    LET dealt == [f \in DOMAIN rcat[w] |-> Dealt(rcat[w], rworkers[w], f)] IN
    /\ pc[w] = "existing"
    /\ rput' = [rput EXCEPT ![w] =
            {<<dealt[f], f>> : f \in {g \in DOMAIN dealt :
                                         assigned[dealt[g]][g] # rcat[w][g]}}]
    /\ rstamp' = [rstamp EXCEPT ![w] = {dealt[f] : f \in DOMAIN dealt}]
    /\ Goto(w, "put")
    /\ UNCHANGED <<catalog, etcdVars, electVars, local, knownVars, rcat, rworkers,
                   faults>>

\* The workers are served in order, the feeds of one in any order.
NextWorker(w) == CHOOSE v \in rstamp[w] : \A u \in rstamp[w] : v <= u

\* Put one assignment of the current worker; an error is printed and passed over.
PutAssignment(w) ==
    LET v == NextWorker(w) IN
    /\ pc[w] = "put"
    /\ rstamp[w] # {}
    /\ \E f \in Feeds :
          /\ <<v, f>> \in rput[w]
          /\ rput' = [rput EXCEPT ![w] = @ \ {<<v, f>>}]
          /\ \/ /\ v \in lease
                /\ assigned' = [assigned EXCEPT ![v][f] = rcat[w][f]]
                /\ UNCHANGED faults
             \/ v \notin lease /\ UNCHANGED <<assigned, faults>>
             \/ v \in lease /\ Fault("request") /\ UNCHANGED assigned
    /\ UNCHANGED <<catalog, lease, registered, stamp, electVars, pc, local, knownVars,
                   rcat, rworkers, rstamp>>

\* Mutant: the time stamp is put without the lease of its worker.
PutStampMut(w) ==
    LET v == NextWorker(w) IN
    /\ pc[w] = "put"
    /\ rstamp[w] # {}
    /\ \A f \in Feeds : <<v, f>> \notin rput[w]
    /\ rstamp' = [rstamp EXCEPT ![w] = @ \ {v}]
    /\ stamp' = [stamp EXCEPT ![v] = "new"]
    /\ UNCHANGED <<catalog, lease, registered, assigned, electVars, pc, local, knownVars,
                   rcat, rworkers, rput, faults>>

\* All its assignments put, the worker gets a new time stamp.
PutStamp(w) ==
    LET v == NextWorker(w) IN
    /\ pc[w] = "put"
    /\ rstamp[w] # {}
    /\ \A f \in Feeds : <<v, f>> \notin rput[w]
    /\ rstamp' = [rstamp EXCEPT ![w] = @ \ {v}]
    /\ \/ /\ v \in lease
          /\ stamp' = [stamp EXCEPT ![v] = "new"]
          /\ UNCHANGED faults
       \/ v \notin lease /\ UNCHANGED <<stamp, faults>>
       \/ v \in lease /\ Fault("request") /\ UNCHANGED stamp
    /\ UNCHANGED <<catalog, lease, registered, assigned, electVars, pc, local, knownVars,
                   rcat, rworkers, rput>>

FinishDeal(w) ==
    /\ pc[w] = "put"
    /\ rstamp[w] = {}
    /\ EndJob(w)
    /\ UNCHANGED <<catalog, etcdVars, electVars, local, knownVars, faults>>

--------------------------------------------------------------------------------

JobStep(w) ==
    \/ ReadMetadata(w) \/ DealChanged(w) \/ DealAnyway(w) \/ SkipDeal(w)
    \/ ReadExisting(w) \/ PutAssignment(w) \/ PutStamp(w) \/ FinishDeal(w)
WorkerStep(w) ==
    \/ Register(w) \/ AskLeader(w) \/ Campaign(w) \/ CampaignReturns(w) \/ AskAgain(w)
    \/ Refresh(w) \/ ReadAssignments(w) \/ Fetch(w) \/ JobStep(w)

Next ==
    \/ ChangeCatalog
    \/ \E w \in Workers :
          \/ WorkerStep(w) \/ LeaseExpires(w) \/ LeaseLapses(w)
          \/ Exit(w) \/ GoOffline(w) \/ AskFails(w)

Spec == Init /\ [][Next]_vars

\* Workers run, etcd ends every lease nobody renews, and a coin that comes up
\* one time in ten comes up again and again.
Fairness ==
    \A w \in Workers :
        WF_vars(WorkerStep(w)) /\ WF_vars(LeaseExpires(w)) /\ SF_vars(DealAnyway(w))

FairSpec == Spec /\ Fairness

--------------------------------------------------------------------------------
(* Properties.                                                             *)

JobPlaces == {"metadata", "workers", "existing", "put"}
Places == JobPlaces \cup
    {"register", "leader", "campaign", "blocked", "again", "refresh", "assignments",
     "fetch", "down"}

\* The election's part of the state (proved with OneElectedJob).
ElectTypeOK ==
    /\ candidates \subseteq Workers
    /\ ahead \in [Workers -> SUBSET Workers]
    /\ pc \in [Workers -> Places]

\* Whatever a late leader writes, nothing is left under a worker without a
\* lease: neither its registration, nor assignments, nor a time stamp, nor a
\* candidacy.
NothingWithoutLease ==
    /\ registered \subseteq lease
    /\ candidates \subseteq lease
    /\ \A w \in Workers \ lease : assigned[w] = NoAssignment /\ stamp[w] = "absent"

\* Of the workers in a leader job at most one still holds its election key.
OneElectedJob ==
    \A v, w \in Workers :
        /\ pc[v] \in JobPlaces /\ pc[w] \in JobPlaces
        /\ v \in candidates /\ w \in candidates
        => v = w

\* Each feed of Postgres is fetched, with its present instructions, by the
\* worker the round robin gives it.
EveryFeedFetched ==
    \A f \in DOMAIN catalog :
        local[Dealt(catalog, registered, f)][f] = catalog[f]

\* Once faults and changes stop, every feed ends up fetched by the worker it is
\* dealt to, although the hashes are saved before the puts and a failed put is
\* not repeated: the tenth deal that is made anyway repairs it.
EventuallyFetched == <>[](registered # {} => EveryFeedFetched)

================================================================================
