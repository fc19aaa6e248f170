------------------------ MODULE AlpenroseAssign_proofs -------------------------
(***************************************************************************)
(* Theorems about AlpenroseAssign for any number of workers and feeds, and *)
(* any number of faults: what the leases and the election guarantee        *)
(* whatever a leader job, late or not, writes.                             *)
(***************************************************************************)
EXTENDS AlpenroseAssign, TLAPS

\* The part of the types these theorems need.  What a leader job deals is left out.
Shape ==
    /\ lease \subseteq Workers
    /\ DOMAIN assigned = Workers
    /\ stamp \in [Workers -> {"absent", "known", "new"}]
    /\ ElectTypeOK

\* The election keys are in one order, and a worker in a leader job whose key still
\* exists has no older key ahead of it.
ElectInv ==
    /\ \A v, w \in candidates : v # w => v \in ahead[w] \/ w \in ahead[v]
    /\ \A w \in candidates : pc[w] \in JobPlaces => ahead[w] = {}

IInv == Shape /\ NothingWithoutLease /\ ElectInv

LEMMA InitIInv == Init => IInv
BY DEF Init, IInv, Shape, ElectTypeOK, NothingWithoutLease, ElectInv, Places

\* The loss of a lease.
LEMMA DropIInv ==
    ASSUME IInv, NEW w \in Workers, DropLease(w),
           pc' = pc \/ pc' = [pc EXCEPT ![w] = "down"]
    PROVE  IInv'
<1> USE DEF IInv, Shape, ElectTypeOK, DropLease
<1>1. Shape'
  BY DEF Places
<1>2. NothingWithoutLease'
  BY DEF NothingWithoutLease
<1>3. ElectInv'
  BY DEF ElectInv, JobPlaces
<1>4. QED
  BY <1>1, <1>2, <1>3

\* A step of w that leaves leases and election alone, writes at most under a lease
\* etcd holds, and starts no leader job unless w leads.
WritesUnderLease(w) ==
    /\ UNCHANGED <<lease, candidates, ahead>>
    /\ registered' = registered \/ (registered' = registered \cup {w} /\ w \in lease)
    /\ DOMAIN assigned' = Workers
    /\ stamp' \in [Workers -> {"absent", "known", "new"}]
    /\ \A v \in Workers \ lease : assigned'[v] = assigned[v] /\ stamp'[v] = stamp[v]

GoesTo(w, place) ==
    /\ pc' = [pc EXCEPT ![w] = place]
    /\ place \in Places
    /\ place \in JobPlaces => pc[w] \in JobPlaces \/ Leads(w)

LEMMA SmallIInv ==
    ASSUME IInv, NEW w \in Workers, WritesUnderLease(w), NEW place, GoesTo(w, place)
    PROVE  IInv'
<1> USE DEF IInv, Shape, ElectTypeOK, WritesUnderLease, GoesTo
<1>1. Shape'
  OBVIOUS
<1>2. NothingWithoutLease'
  BY DEF NothingWithoutLease
<1>3. ElectInv'
  BY DEF ElectInv, Leads
<1>4. QED
  BY <1>1, <1>2, <1>3

\* The writes of a leader job, whose puts fail for a worker without a lease.
LEMMA WriteIInv ==
    ASSUME IInv, NEW w \in Workers, PutAssignment(w) \/ PutStamp(w)
    PROVE  IInv'
<1> USE DEF IInv, Shape
<1>1. CASE PutAssignment(w)
  <2>1. /\ UNCHANGED <<lease, registered, stamp, electVars, pc>> /\ pc[w] = "put"
        /\ \/ UNCHANGED assigned
           \/ \E v \in lease, f \in Feeds :
                 assigned' = [assigned EXCEPT ![v][f] = rcat[w][f]]
    BY <1>1 DEF PutAssignment
  <2>2. DOMAIN assigned' = Workers
    BY <2>1
  <2>3. \A v \in Workers \ lease : assigned'[v] = assigned[v]
    BY <2>1
  <2>4. WritesUnderLease(w)
    BY <2>1, <2>2, <2>3 DEF WritesUnderLease, electVars
  <2>5. GoesTo(w, "put")
    BY <2>1 DEF GoesTo, ElectTypeOK, Places, JobPlaces
  <2> HIDE DEF IInv
  <2>6. QED
    BY <2>4, <2>5, SmallIInv
<1>2. CASE PutStamp(w)
  <2>1. /\ UNCHANGED <<lease, registered, assigned, electVars, pc>> /\ pc[w] = "put"
        /\ \/ UNCHANGED stamp
           \/ \E v \in lease : stamp' = [stamp EXCEPT ![v] = "new"]
    BY <1>2 DEF PutStamp
  <2>2. stamp' \in [Workers -> {"absent", "known", "new"}]
    BY <2>1
  <2>3. \A v \in Workers \ lease : stamp'[v] = stamp[v]
    BY <2>1
  <2>4. WritesUnderLease(w)
    BY <2>1, <2>2, <2>3 DEF WritesUnderLease, electVars
  <2>5. GoesTo(w, "put")
    BY <2>1 DEF GoesTo, ElectTypeOK, Places, JobPlaces
  <2> HIDE DEF IInv
  <2>6. QED
    BY <2>4, <2>5, SmallIInv
<1>3. QED
  BY <1>1, <1>2

\* The worker reads its time stamp: known from now on, where there is one.
LEMMA RefreshIInv ==
    ASSUME IInv, NEW w \in Workers, Refresh(w)
    PROVE  IInv'
<1> USE DEF IInv, Shape
<1>1. CASE stamp[w] = "new"
  <2>1. /\ stamp' = [stamp EXCEPT ![w] = "known"]
        /\ pc' = [pc EXCEPT ![w] = "assignments"]
        /\ UNCHANGED <<lease, registered, assigned, electVars>>
    BY <1>1 DEF Refresh, Goto
  <2>2. w \in lease
    BY <1>1 DEF NothingWithoutLease
  <2>3. \A v \in Workers \ lease : stamp'[v] = stamp[v]
    BY <2>1, <2>2
  <2>4. WritesUnderLease(w) /\ GoesTo(w, "assignments")
    BY <2>1, <2>3 DEF WritesUnderLease, GoesTo, electVars, Places, JobPlaces
  <2> HIDE DEF IInv
  <2>5. QED
    BY <2>4, SmallIInv
<1>2. CASE stamp[w] # "new"
  <2>1. /\ pc' = [pc EXCEPT ![w] = "fetch"]
        /\ UNCHANGED <<stamp, lease, registered, assigned, electVars>>
    BY <1>2 DEF Refresh, Goto
  <2>2. WritesUnderLease(w) /\ GoesTo(w, "fetch")
    BY <2>1 DEF WritesUnderLease, GoesTo, electVars, Places, JobPlaces
  <2> HIDE DEF IInv
  <2>3. QED
    BY <2>2, SmallIInv
<1>3. QED
  BY <1>1, <1>2

LEMMA NextIInv ==
    ASSUME IInv, [Next]_vars
    PROVE  IInv'
<1>1. ASSUME NEW w \in Workers, DropLease(w),
             pc' = pc \/ pc' = [pc EXCEPT ![w] = "down"]
      PROVE  IInv'
  BY <1>1, DropIInv
<1>2. ASSUME NEW w \in Workers, Register(w)
      PROVE  IInv'
  <2>1. CASE w \in lease
    <3>1. WritesUnderLease(w) /\ GoesTo(w, "leader")
      BY <1>2, <2>1
      DEF Register, Goto, WritesUnderLease, GoesTo, electVars, Places, JobPlaces, IInv, Shape
    <3>2. QED
      BY <3>1, SmallIInv
  <2>2. CASE w \notin lease
    <3>1. WritesUnderLease(w) /\ GoesTo(w, "down")
      BY <1>2, <2>2
      DEF Register, ProcessEnds, Goto, WritesUnderLease, GoesTo, electVars, Places,
          JobPlaces, IInv, Shape
    <3>2. QED
      BY <3>1, SmallIInv
  <2>3. QED
    BY <2>1, <2>2
<1>3. ASSUME NEW w \in Workers, Campaign(w)
      PROVE  IInv'
  <2> USE DEF IInv, Shape, ElectTypeOK
  <2>1. CASE w \in lease
    <3>1. /\ pc[w] = "campaign"
          /\ candidates' = candidates \cup {w}
          /\ ahead' = [ahead EXCEPT ![w] = IF w \in candidates THEN @ ELSE candidates]
          /\ pc' = [pc EXCEPT ![w] = "blocked"]
          /\ UNCHANGED etcdVars
      BY <1>3, <2>1 DEF Campaign, Goto
    <3>2. Shape' /\ NothingWithoutLease'
      BY <2>1, <3>1 DEF etcdVars, NothingWithoutLease, Places
    <3>3. ElectInv'
      BY <3>1 DEF ElectInv, JobPlaces
    <3>4. QED
      BY <3>2, <3>3
  <2>2. CASE w \notin lease
    <3>1. WritesUnderLease(w) /\ GoesTo(w, "again")
      BY <1>3, <2>2
      DEF Campaign, Goto, WritesUnderLease, GoesTo, etcdVars, electVars, Places, JobPlaces
    <3> HIDE DEF IInv
    <3>2. QED
      BY <3>1, SmallIInv
  <2>3. QED
    BY <2>1, <2>2
<1>4. ASSUME NEW w \in Workers, AskLeader(w)
      PROVE  IInv'
  <2>1. WritesUnderLease(w)
    BY <1>4 DEF AskLeader, WritesUnderLease, etcdVars, electVars, IInv, Shape
  <2>2. \E place \in {"campaign", "metadata", "refresh"} : GoesTo(w, place)
    BY <1>4 DEF AskLeader, Goto, GoesTo, Places, JobPlaces
  <2>3. QED
    BY <2>1, <2>2, SmallIInv
<1>5. ASSUME NEW w \in Workers,
             \/ Exit(w) \/ AskFails(w) \/ CampaignReturns(w) \/ AskAgain(w) \/ ReadAssignments(w)
             \/ Fetch(w) \/ ReadMetadata(w) \/ StartDeal(w) \/ SkipDeal(w)
             \/ ReadExisting(w) \/ FinishDeal(w)
      PROVE  IInv'
  <2>1. UNCHANGED <<etcdVars, electVars>>
    BY <1>5
    DEF Exit, AskFails, CampaignReturns, AskAgain, ReadAssignments, Fetch, ReadMetadata, StartDeal,
        SkipDeal, ReadExisting, FinishDeal
  <2>2. WritesUnderLease(w)
    BY <2>1 DEF WritesUnderLease, etcdVars, electVars, IInv, Shape
  <2>3. \E place \in Places : GoesTo(w, place)
    BY <1>5
    DEF Exit, AskFails, CampaignReturns, AskAgain, ReadAssignments, Fetch, ReadMetadata, StartDeal,
        SkipDeal, ReadExisting, FinishDeal, EndJob, ProcessEnds, Goto, GoesTo, Places,
        JobPlaces
  <2>4. QED
    BY <2>2, <2>3, SmallIInv
<1>6. ASSUME ChangeCatalog \/ UNCHANGED vars
      PROVE  IInv'
  BY <1>6
  DEF ChangeCatalog, vars, etcdVars, electVars, IInv, Shape, ElectTypeOK,
      NothingWithoutLease, ElectInv
<1>7. ASSUME NEW w \in Workers, LeaseExpires(w) \/ LeaseLapses(w) \/ GoOffline(w)
      PROVE  DropLease(w) /\ (pc' = pc \/ pc' = [pc EXCEPT ![w] = "down"])
  BY <1>7 DEF LeaseExpires, LeaseLapses, GoOffline, ProcessEnds, Goto
<1>8. QED
  BY <1>1, <1>2, <1>3, <1>4, <1>5, <1>6, <1>7, WriteIInv, RefreshIInv
  DEF Next, WorkerStep, JobStep, DealChanged, DealAnyway

\* Nothing is left in etcd under a worker without a lease, whatever late leaders write.
THEOREM LeaseCorrect == Spec => []NothingWithoutLease
<1>1. IInv /\ [Next]_vars => IInv'
  BY NextIInv
<1>2. IInv => NothingWithoutLease
  BY DEF IInv
<1>3. QED
  BY InitIInv, <1>1, <1>2, PTL DEF Spec

\* Of the workers in a leader job at most one holds an election key.
THEOREM OneJobCorrect == Spec => []OneElectedJob
<1>1. IInv /\ [Next]_vars => IInv'
  BY NextIInv
<1>2. IInv => OneElectedJob
  BY DEF IInv, ElectInv, OneElectedJob
<1>3. QED
  BY InitIInv, <1>1, <1>2, PTL DEF Spec

================================================================================
