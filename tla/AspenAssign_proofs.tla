--------------------------- MODULE AspenAssign_proofs --------------------------
(***************************************************************************)
(* Theorems about AspenAssign for any number of workers, leader processes, *)
(* chateaux and feeds, and any number of faults.                           *)
(***************************************************************************)
EXTENDS AspenAssign, TLAPS

LEMMA InitType == Init => TypeOK
BY ConstantsAssumption
DEF Init, TypeOK, EtcdTypeOK, ElectTypeOK, RoundTypeOK, Places, FaultKinds

\* Every step preserves the types.
LEMMA NextType ==
    ASSUME TypeOK, [Next]_vars
    PROVE  TypeOK'
<1> USE ConstantsAssumption DEF TypeOK
<1>1. ASSUME ChangeCatalog
      PROVE  TypeOK'
  BY <1>1 DEF ChangeCatalog, Fault, EtcdTypeOK, ElectTypeOK, RoundTypeOK, etcdVars,
     electVars, roundVars, FaultKinds
<1>2. ASSUME NEW w \in Workers, WorkerGrant(w)
      PROVE  TypeOK'
  <2>1. EtcdTypeOK'
    BY <1>2 DEF WorkerGrant, EtcdTypeOK, electVars, roundVars
  <2>2. QED
    BY <1>2, <2>1 DEF WorkerGrant, ElectTypeOK, RoundTypeOK, electVars, roundVars
<1>3. ASSUME NEW w \in Workers, WorkerRegrant(w)
      PROVE  TypeOK'
  <2>1. EtcdTypeOK'
    BY <1>3 DEF WorkerRegrant, EtcdTypeOK, electVars, roundVars
  <2>2. QED
    BY <1>3, <2>1 DEF WorkerRegrant, ElectTypeOK, RoundTypeOK, electVars, roundVars
<1>4. ASSUME NEW w \in Workers, WorkerCrash(w)
      PROVE  TypeOK'
  BY <1>4 DEF WorkerCrash, Fault, EtcdTypeOK, ElectTypeOK, RoundTypeOK, etcdVars,
     electVars, roundVars, FaultKinds
<1>5. ASSUME NEW w \in Workers, WorkerLeaseExpires(w)
      PROVE  TypeOK'
  <2>1. EtcdTypeOK'
    BY <1>5 DEF WorkerLeaseExpires, DropWorkerLease, EtcdTypeOK, electVars, roundVars
  <2>2. QED
    BY <1>5, <2>1 DEF WorkerLeaseExpires, DropWorkerLease, ElectTypeOK, RoundTypeOK,
       electVars, roundVars
<1>6. ASSUME NEW w \in Workers, WorkerLeaseLapses(w)
      PROVE  TypeOK'
  <2>1. EtcdTypeOK'
    BY <1>6 DEF WorkerLeaseLapses, DropWorkerLease, Fault, EtcdTypeOK, electVars,
       roundVars
  <2>2. QED
    BY <1>6, <2>1 DEF WorkerLeaseLapses, DropWorkerLease, Fault, ElectTypeOK,
       RoundTypeOK, electVars, roundVars, FaultKinds
<1>7. ASSUME NEW l \in Leaders, Grant(l)
      PROVE  TypeOK'
  <2>1. ElectTypeOK'
    BY <1>7 DEF Grant, Goto, ElectTypeOK, etcdVars
  <2>2. RoundTypeOK'
    BY <1>7 DEF Grant, Goto, RoundTypeOK, Places, RoundPlaces, roundVars, etcdVars
  <2>3. QED
    BY <1>7, <2>1, <2>2 DEF Grant, Goto, EtcdTypeOK, etcdVars
<1>8. ASSUME NEW l \in Leaders, AskLeader(l)
      PROVE  TypeOK'
  <2>1. RoundTypeOK'
    BY <1>8 DEF AskLeader, Goto, RoundTypeOK, Places, RoundPlaces, roundVars,
       etcdVars, electVars
  <2>2. QED
    BY <1>8, <2>1 DEF AskLeader, Goto, EtcdTypeOK, ElectTypeOK, etcdVars, electVars
<1>9. ASSUME NEW l \in Leaders, Campaign(l)
      PROVE  TypeOK'
  <2>1. ElectTypeOK'
    BY <1>9 DEF Campaign, Goto, ElectTypeOK, etcdVars
  <2>2. RoundTypeOK'
    BY <1>9 DEF Campaign, Goto, RoundTypeOK, Places, RoundPlaces, roundVars, etcdVars
  <2>3. QED
    BY <1>9, <2>1, <2>2 DEF Campaign, Goto, EtcdTypeOK, etcdVars
<1>10. ASSUME NEW l \in Leaders, CampaignReturns(l)
       PROVE  TypeOK'
  <2>1. RoundTypeOK'
    BY <1>10 DEF CampaignReturns, Goto, RoundTypeOK, Places, RoundPlaces, roundVars,
       etcdVars, electVars
  <2>2. QED
    BY <1>10, <2>1 DEF CampaignReturns, Goto, EtcdTypeOK, ElectTypeOK, etcdVars,
       electVars
<1>11. ASSUME NEW l \in Leaders, KeepAlive(l)
       PROVE  TypeOK'
  <2>1. RoundTypeOK'
    BY <1>11 DEF KeepAlive, Goto, RoundTypeOK, Places, RoundPlaces, roundVars,
       etcdVars, electVars
  <2>2. QED
    BY <1>11, <2>1 DEF KeepAlive, Goto, EtcdTypeOK, ElectTypeOK, etcdVars, electVars
<1>12. ASSUME NEW l \in Leaders, Renew(l)
       PROVE  TypeOK'
  <2>1. RoundTypeOK'
    BY <1>12 DEF Renew, Goto, RoundTypeOK, Places, RoundPlaces, roundVars, etcdVars,
       electVars
  <2>2. QED
    BY <1>12, <2>1 DEF Renew, Goto, EtcdTypeOK, ElectTypeOK, etcdVars, electVars
<1>13. ASSUME NEW l \in Leaders, ReadCatalog(l)
       PROVE  TypeOK'
  <2>1. RoundTypeOK'
    BY <1>13 DEF ReadCatalog, Goto, RoundTypeOK, Places, RoundPlaces, etcdVars,
       electVars
  <2>2. QED
    BY <1>13, <2>1 DEF ReadCatalog, Goto, EtcdTypeOK, ElectTypeOK, etcdVars, electVars
<1>14. ASSUME NEW l \in Leaders, ReadWorkers(l)
       PROVE  TypeOK'
  <2>1. RoundTypeOK'
    BY <1>14 DEF ReadWorkers, Goto, EndRound, RoundTypeOK, Places, RoundPlaces,
       EtcdTypeOK, etcdVars, electVars
  <2>2. QED
    BY <1>14, <2>1 DEF ReadWorkers, Goto, EndRound, EtcdTypeOK, ElectTypeOK, etcdVars,
       electVars
<1>15. ASSUME NEW l \in Leaders, ReadChateauKeys(l)
       PROVE  TypeOK'
  <2>1. RoundTypeOK'
    BY <1>15 DEF ReadChateauKeys, Goto, RoundTypeOK, Places, RoundPlaces, etcdVars,
       electVars
  <2>2. QED
    BY <1>15, <2>1 DEF ReadChateauKeys, Goto, EtcdTypeOK, ElectTypeOK, etcdVars,
       electVars
<1>16. ASSUME NEW l \in Leaders, ReadFeedKeys(l)
       PROVE  TypeOK'
  <2>1. RoundTypeOK'
    BY <1>16 DEF ReadFeedKeys, Goto, RoundTypeOK, Places, RoundPlaces, etcdVars,
       electVars
  <2>2. QED
    BY <1>16, <2>1 DEF ReadFeedKeys, Goto, EtcdTypeOK, ElectTypeOK, etcdVars,
       electVars
<1>17. ASSUME NEW l \in Leaders, Put(l)
       PROVE  TypeOK'
  <2>1. EtcdTypeOK'
    BY <1>17 DEF Put, PutEntry, Goto, EndRound, EtcdTypeOK, RoundTypeOK, Entry, Value,
       electVars
  <2>2. RoundTypeOK'
    BY <1>17 DEF Put, PutEntry, Goto, EndRound, RoundTypeOK, Places, RoundPlaces,
       electVars
  <2>3. QED
    BY <1>17, <2>1, <2>2 DEF Put, PutEntry, Goto, EndRound, ElectTypeOK, electVars
<1>18. ASSUME NEW l \in Leaders, Finish(l)
       PROVE  TypeOK'
  <2>1. RoundTypeOK'
    BY <1>18 DEF Finish, Goto, EndRound, RoundTypeOK, Places, RoundPlaces, etcdVars,
       electVars
  <2>2. QED
    BY <1>18, <2>1 DEF Finish, Goto, EndRound, EtcdTypeOK, ElectTypeOK, etcdVars,
       electVars
<1>19. ASSUME NEW l \in Leaders, Abort(l)
       PROVE  TypeOK'
  <2>1. RoundTypeOK'
    BY <1>19 DEF Abort, Fault, Goto, EndRound, RoundTypeOK, Places, RoundPlaces,
       etcdVars, electVars
  <2>2. QED
    BY <1>19, <2>1 DEF Abort, Fault, Goto, EndRound, EtcdTypeOK, ElectTypeOK,
       etcdVars, electVars, FaultKinds
<1>20. ASSUME NEW l \in Leaders, LeaderCrash(l)
       PROVE  TypeOK'
  <2>1. RoundTypeOK'
    BY <1>20 DEF LeaderCrash, Fault, Goto, EndRound, RoundTypeOK, Places, RoundPlaces,
       etcdVars, electVars
  <2>2. QED
    BY <1>20, <2>1 DEF LeaderCrash, Fault, Goto, EndRound, EtcdTypeOK, ElectTypeOK,
       etcdVars, electVars, FaultKinds
<1>21. ASSUME NEW l \in Leaders, LeaderLeaseExpires(l)
       PROVE  TypeOK'
  <2>1. ElectTypeOK'
    BY <1>21 DEF LeaderLeaseExpires, DropLeaderLease, ElectTypeOK, etcdVars, roundVars
  <2>2. QED
    BY <1>21, <2>1 DEF LeaderLeaseExpires, DropLeaderLease, EtcdTypeOK, RoundTypeOK,
       etcdVars, roundVars
<1>22. ASSUME NEW l \in Leaders, LeaderLeaseLapses(l)
       PROVE  TypeOK'
  <2>1. ElectTypeOK'
    BY <1>22 DEF LeaderLeaseLapses, DropLeaderLease, Fault, ElectTypeOK, etcdVars,
       roundVars
  <2>2. QED
    BY <1>22, <2>1 DEF LeaderLeaseLapses, DropLeaderLease, Fault, EtcdTypeOK,
       RoundTypeOK, etcdVars, roundVars, FaultKinds
<1>23. ASSUME UNCHANGED vars
       PROVE  TypeOK'
  BY <1>23 DEF vars, EtcdTypeOK, ElectTypeOK, RoundTypeOK, etcdVars, electVars,
     roundVars
<1>24. ASSUME NEW l \in Leaders, AskFails(l)
       PROVE  TypeOK'
  <2>1. RoundTypeOK'
    BY <1>24 DEF AskFails, Goto, RoundTypeOK, Places, RoundPlaces, roundVars
  <2>2. QED
    BY <1>24, <2>1 DEF AskFails, Fault, EtcdTypeOK, ElectTypeOK, etcdVars, electVars,
       FaultKinds
<1>25. ASSUME NEW w \in Workers, WorkerRegister(w)
       PROVE  TypeOK'
  <2>1. EtcdTypeOK'
    BY <1>25 DEF WorkerRegister, EtcdTypeOK, electVars, roundVars
  <2>2. QED
    BY <1>25, <2>1 DEF WorkerRegister, ElectTypeOK, RoundTypeOK, electVars, roundVars
<1>26. ASSUME NEW w \in Workers, RenewalFails(w)
       PROVE  TypeOK'
  BY <1>26 DEF RenewalFails, Fault, EtcdTypeOK, ElectTypeOK, RoundTypeOK, etcdVars,
     electVars, roundVars, FaultKinds
<1>27. ASSUME NEW w \in Workers, RegisterFails(w)
       PROVE  TypeOK'
  BY <1>27 DEF RegisterFails, Fault, EtcdTypeOK, ElectTypeOK, RoundTypeOK, etcdVars,
     electVars, roundVars, FaultKinds
<1>28. QED
  BY <1>1, <1>2, <1>3, <1>4, <1>5, <1>6, <1>7, <1>8, <1>9, <1>10, <1>11, <1>12, <1>13,
     <1>14, <1>15, <1>16, <1>17, <1>18, <1>19, <1>20, <1>21, <1>22, <1>23, <1>24, <1>25,
     <1>26, <1>27
  DEF Next, WorkerStep, LeaderStep, RoundStep

\* TypeOK holds in every reachable state: whatever leader wrote it, a key names a
\* worker, and a feed's key a worker with a chateau.
THEOREM TypeCorrect == Spec => []TypeOK
<1>1. TypeOK /\ [Next]_vars => TypeOK'
  BY NextType
<1>2. QED
  BY InitType, <1>1, PTL DEF Spec

--------------------------------------------------------------------------------
(* What is under the keys of etcd.                                         *)

\* Steps that leave lease, registrations and assignments alone.
LEMMA EtcdUntouched ==
    ASSUME \/ ChangeCatalog
           \/ \E w \in Workers : WorkerCrash(w) \/ RenewalFails(w) \/ RegisterFails(w)
           \/ \E l \in Leaders :
                 \/ Grant(l) \/ AskLeader(l) \/ AskFails(l) \/ Campaign(l)
                 \/ CampaignReturns(l) \/ KeepAlive(l) \/ Renew(l) \/ ReadCatalog(l) \/ ReadWorkers(l)
                 \/ ReadChateauKeys(l) \/ ReadFeedKeys(l) \/ Finish(l)
                 \/ Abort(l) \/ LeaderCrash(l)
                 \/ LeaderLeaseExpires(l) \/ LeaderLeaseLapses(l)
           \/ UNCHANGED vars
    PROVE  UNCHANGED etcdVars
BY DEF ChangeCatalog, WorkerCrash, RenewalFails, RegisterFails, Grant, AskLeader,
       AskFails, Campaign, CampaignReturns, KeepAlive, Renew, ReadCatalog, ReadWorkers, ReadChateauKeys, ReadFeedKeys, Finish, Abort,
       LeaderCrash, LeaderLeaseExpires, LeaderLeaseLapses, DropLeaderLease, vars

\* A write of a round: the key of a chateau or of a feed, to a worker with a lease.
LEMMA PutWrites ==
    ASSUME TypeOK, NEW l \in Leaders, Put(l)
    PROVE  \/ UNCHANGED etcdVars
           \/ \E w \in lease, c \in Chateaux :
                 /\ chateauKey' = [chateauKey EXCEPT ![c] = w]
                 /\ UNCHANGED <<lease, registered, feedKey>>
           \/ \E w \in lease, c \in Chateaux, f \in Feeds :
                 /\ feedKey' = [feedKey EXCEPT ![f] = <<w, c>>]
                 /\ UNCHANGED <<lease, registered, chateauKey>>
<1>1. PICK e \in ltodo[l] : PutEntry(l, e, Dealt(lcat[l], lworkers[l], e.chateau))
  BY DEF Put
<1> DEFINE w == Dealt(lcat[l], lworkers[l], e.chateau)
<1> HIDE DEF w
<1>2. PutEntry(l, e, w)
  BY <1>1 DEF w
<1>3. e.chateau \in Chateaux /\ e.feed \in Feeds \cup {0}
  BY DEF TypeOK, RoundTypeOK, Entry
<1>4. CASE w \notin lease
  BY <1>2, <1>4 DEF PutEntry, etcdVars
<1>5. CASE w \in lease /\ e.feed = 0
  BY <1>2, <1>3, <1>5 DEF PutEntry, Value
<1>6. CASE w \in lease /\ e.feed # 0
  BY <1>2, <1>3, <1>6 DEF PutEntry, Value
<1>7. QED
  BY <1>4, <1>5, <1>6

LEMMA NextKeys ==
    ASSUME TypeOK, KeysHaveLiveLease, [Next]_vars
    PROVE  KeysHaveLiveLease'
<1> USE ConstantsAssumption DEF KeysHaveLiveLease, TypeOK, EtcdTypeOK
<1>1. ASSUME UNCHANGED etcdVars
      PROVE  KeysHaveLiveLease'
  BY <1>1 DEF etcdVars
<1>2. ASSUME NEW w \in Workers, WorkerGrant(w) \/ WorkerRegrant(w) \/ WorkerRegister(w)
      PROVE  KeysHaveLiveLease'
  BY <1>2 DEF WorkerGrant, WorkerRegrant, WorkerRegister
<1>3. ASSUME NEW w \in Workers, DropWorkerLease(w)
      PROVE  KeysHaveLiveLease'
  BY <1>3 DEF DropWorkerLease
<1>4. ASSUME NEW l \in Leaders, Put(l)
      PROVE  KeysHaveLiveLease'
  <2>1. ASSUME NEW w \in lease, NEW c \in Chateaux,
               chateauKey' = [chateauKey EXCEPT ![c] = w],
               UNCHANGED <<lease, registered, feedKey>>
        PROVE  KeysHaveLiveLease'
    BY <2>1
  <2>2. ASSUME NEW w \in lease, NEW c \in Chateaux, NEW f \in Feeds,
               feedKey' = [feedKey EXCEPT ![f] = <<w, c>>],
               UNCHANGED <<lease, registered, chateauKey>>
        PROVE  KeysHaveLiveLease'
    BY <2>2
  <2> HIDE DEF KeysHaveLiveLease
  <2>3. QED
    BY <1>1, <1>4, <2>1, <2>2, PutWrites
<1>5. QED
  BY <1>1, <1>2, <1>3, <1>4, EtcdUntouched
  DEF Next, WorkerStep, LeaderStep, RoundStep, WorkerLeaseExpires, WorkerLeaseLapses

\* Whoever looks a chateau or a feed up finds a worker whose lease etcd holds.
THEOREM KeysCorrect == Spec => []KeysHaveLiveLease
<1>1. Init => KeysHaveLiveLease
  BY DEF Init, KeysHaveLiveLease
<1>2. TypeOK /\ KeysHaveLiveLease /\ [Next]_vars => (TypeOK /\ KeysHaveLiveLease)'
  BY NextType, NextKeys
<1>3. QED
  BY InitType, <1>1, <1>2, PTL DEF Spec

\* AspenAssign implements the directory its readers rely on: every step is a
\* worker joining, a worker leaving with all its entries, the assignment of one
\* entry to a live worker, or nothing to the reader.
THEOREM DirectoryCorrect == Spec => ImplementsDirectory
<1>1. Init => Directory!Init
  BY DEF Init, Directory!Init
<1>2. TypeOK /\ [Next]_vars => [Directory!Next]_(Directory!vars)
  <2> SUFFICES ASSUME TypeOK, [Next]_vars
               PROVE  Directory!Next \/ UNCHANGED <<lease, chateauKey, feedKey>>
    BY DEF Directory!vars
  <2>1. ASSUME UNCHANGED etcdVars
        PROVE  UNCHANGED <<lease, chateauKey, feedKey>>
    BY <2>1 DEF etcdVars
  <2>2. ASSUME NEW w \in Workers, WorkerGrant(w) \/ WorkerRegrant(w) \/ WorkerRegister(w)
        PROVE  Directory!Next \/ UNCHANGED <<lease, chateauKey, feedKey>>
    <3>1. CASE w \in lease
      BY <2>2, <3>1 DEF WorkerGrant, WorkerRegrant, WorkerRegister
    <3>2. CASE w \notin lease
      BY <2>2, <3>2
      DEF WorkerGrant, WorkerRegrant, WorkerRegister, Directory!Next, Directory!Join
    <3>3. QED
      BY <3>1, <3>2
  <2>3. ASSUME NEW w \in Workers, DropWorkerLease(w)
        PROVE  Directory!Next
    BY <2>3 DEF DropWorkerLease, Directory!Next, Directory!Leave
  <2>4. ASSUME NEW l \in Leaders, Put(l)
        PROVE  Directory!Next \/ UNCHANGED <<lease, chateauKey, feedKey>>
    BY <2>4, PutWrites
    DEF Directory!Next, Directory!AssignChateau, Directory!AssignFeed, etcdVars, TypeOK,
        EtcdTypeOK
  <2>5. QED
    BY <2>1, <2>2, <2>3, <2>4, EtcdUntouched
    DEF Next, WorkerStep, LeaderStep, RoundStep, WorkerLeaseExpires, WorkerLeaseLapses
<1>3. QED
  BY InitType, NextType, <1>1, <1>2, PTL DEF Spec, ImplementsDirectory, Directory!Spec

--------------------------------------------------------------------------------
(* The election.                                                           *)

\* The election keys are in one order, and a process in a round whose key still
\* exists has no older key ahead of it.
ElectInv ==
    /\ \A l, m \in candidates : l # m => l \in ahead[m] \/ m \in ahead[l]
    /\ \A l \in candidates : InRound(l) => ahead[l] = {}

LEMMA InitElect == Init => ElectInv
BY DEF Init, ElectInv

\* A step that leaves the election alone and starts no round.
LEMMA SameElection ==
    ASSUME ElectInv, UNCHANGED <<candidates, ahead>>,
           \A l \in candidates : InRound(l)' => InRound(l)
    PROVE  ElectInv'
BY DEF ElectInv

LEMMA NextElect ==
    ASSUME TypeOK, ElectInv, [Next]_vars
    PROVE  ElectInv'
<1> USE DEF TypeOK, ElectTypeOK, RoundTypeOK
<1>1. ASSUME NEW l \in Leaders, AskLeader(l)
      PROVE  ElectInv'
  BY <1>1 DEF AskLeader, Leads, Goto, ElectInv, InRound, RoundPlaces, electVars
<1>2. ASSUME NEW l \in Leaders, Campaign(l)
      PROVE  ElectInv'
  <2>1. CASE l \notin llease
    BY <1>2, <2>1 DEF Campaign, Goto, ElectInv, InRound, RoundPlaces
  <2>2. CASE l \in llease
    <3>1. /\ candidates' = candidates \cup {l}
          /\ ahead' = [ahead EXCEPT ![l] = IF l \in candidates THEN @ ELSE candidates]
          /\ lpc' = [lpc EXCEPT ![l] = "blocked"]
      BY <1>2, <2>2 DEF Campaign, Goto
    <3>2. QED
      BY <3>1 DEF ElectInv, InRound, RoundPlaces
  <2>3. QED
    BY <2>1, <2>2
<1>3. ASSUME NEW l \in Leaders, DropLeaderLease(l)
      PROVE  ElectInv'
  BY <1>3 DEF DropLeaderLease, ElectInv, InRound
<1>4. ASSUME NEW l \in Leaders,
             \/ AskFails(l) \/ Grant(l) \/ CampaignReturns(l) \/ KeepAlive(l) \/ Renew(l)
             \/ ReadCatalog(l) \/ ReadWorkers(l) \/ ReadChateauKeys(l)
             \/ ReadFeedKeys(l) \/ Put(l) \/ Finish(l) \/ Abort(l) \/ LeaderCrash(l)
      PROVE  ElectInv'
  <2>1. UNCHANGED <<candidates, ahead>>
    BY <1>4
    DEF AskFails, Grant, CampaignReturns, KeepAlive, Renew, ReadCatalog, ReadWorkers,
        ReadChateauKeys, ReadFeedKeys, Put, PutEntry, Finish, Abort, LeaderCrash, electVars
  <2>2. \E place \in Places :
           /\ lpc' = [lpc EXCEPT ![l] = place]
           /\ place \in RoundPlaces => InRound(l)
    BY <1>4
    DEF AskFails, Grant, CampaignReturns, KeepAlive, Renew, ReadCatalog, ReadWorkers,
        ReadChateauKeys, ReadFeedKeys, Put, PutEntry, Finish, Abort, LeaderCrash, Goto,
        InRound, Places, RoundPlaces
  <2>3. QED
    BY <2>1, <2>2, SameElection DEF InRound
<1>5. ASSUME UNCHANGED <<candidates, ahead, lpc>>
      PROVE  ElectInv'
  BY <1>5, SameElection DEF InRound
<1>6. ASSUME \/ ChangeCatalog
             \/ \E w \in Workers :
                   \/ WorkerGrant(w) \/ WorkerRegrant(w) \/ WorkerRegister(w)
                   \/ RenewalFails(w) \/ RegisterFails(w) \/ WorkerCrash(w)
                   \/ WorkerLeaseExpires(w) \/ WorkerLeaseLapses(w)
             \/ UNCHANGED vars
      PROVE  UNCHANGED <<candidates, ahead, lpc>>
  BY <1>6
  DEF ChangeCatalog, WorkerGrant, WorkerRegrant, WorkerRegister, RenewalFails,
      RegisterFails, WorkerCrash, WorkerLeaseExpires, WorkerLeaseLapses, DropWorkerLease,
      electVars, vars
<1>7. QED
  BY <1>1, <1>2, <1>3, <1>4, <1>5, <1>6
  DEF Next, WorkerStep, LeaderStep, RoundStep, LeaderLeaseExpires, LeaderLeaseLapses

\* Of the processes in a round at most one holds an election key, however many run
\* and however their leases lapse.
THEOREM OneRoundCorrect == Spec => []OneElectedRound
<1>1. TypeOK /\ ElectInv /\ [Next]_vars => (TypeOK /\ ElectInv)'
  BY NextType, NextElect
<1>2. ElectInv => OneElectedRound
  BY DEF ElectInv, OneElectedRound
<1>3. QED
  BY InitType, InitElect, <1>1, <1>2, PTL DEF Spec

================================================================================
