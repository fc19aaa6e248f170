-------------------------- MODULE AspenIngest_proofs ---------------------------
(***************************************************************************)
(* Theorems about AspenIngest for any number of feeds, chateaux, handlers  *)
(* and processing tasks.  The second invariant needs the first: TypeOK is  *)
(* inductive together with BusyOK, and OneTaskPerChateau together with     *)
(* MarkedIsWork on top of them.  What a worker serves rests on that lock:  *)
(* the dataset of a chateau is in the hands of one task.                   *)
(***************************************************************************)
EXTENDS AspenIngest, TLAPS

\* A handler at work has a feed, a task at work has a chateau.
BusyOK ==
    /\ \A h \in Handlers : hpc[h] # "idle" => hfeed[h] \in Feeds
    /\ \A p \in Threads : tpc[p] # "idle" <=> tchateau[p] \in Chateaux

TypeInv == TypeOK /\ BusyOK

LEMMA NoMessageType ==
    /\ 0 \in Versions
    /\ NoMessage \in [Types -> Versions]
    /\ NoKeys \in [Keys -> Versions]
<1>1. 0 \in Versions
  BY ConstantsAssumption DEF Versions
<1>2. QED
  BY <1>1 DEF NoMessage, NoKeys

LEMMA InitTypeInv == Init => TypeInv
BY ConstantsAssumption, NoMessageType
DEF Init, TypeInv, TypeOK, HandlersTypeOK, ThreadsTypeOK, StoresTypeOK, QueueTypeOK,
    BusyOK, FaultKinds

\* Every step preserves the types: one step of the proof per action, and under
\* it one per group of variables the action writes.
LEMMA NextTypeInv ==
    ASSUME TypeInv, [Next]_vars
    PROVE  TypeInv'
<1> USE ConstantsAssumption, NoMessageType DEF TypeInv, TypeOK
<1>1. ASSUME NEW f \in Feeds, Publish(f)
      PROVE  TypeInv'
  <2>1. StoresTypeOK'
    BY <1>1, ConstantsAssumption DEF Publish, StoresTypeOK, Versions, workerVars
  <2>2. QED
    BY <1>1, <2>1 DEF Publish, HandlersTypeOK, ThreadsTypeOK, QueueTypeOK, BusyOK,
       handlerVars, threadVars, workerVars
<1>2. ASSUME NEW h \in Handlers, NEW f \in Feeds, NEW present \in SUBSET Types,
             Receive(h, f, present)
      PROVE  TypeInv'
  <2>1. HandlersTypeOK'
    BY <1>2 DEF Receive, HandlersTypeOK, StoresTypeOK
  <2>2. BusyOK'
    BY <1>2 DEF Receive, BusyOK, HandlersTypeOK, ThreadsTypeOK, threadVars, workerVars
  <2>3. QED
    BY <1>2, <2>1, <2>2 DEF Receive, ThreadsTypeOK, StoresTypeOK, QueueTypeOK,
       threadVars, workerVars
<1>3. ASSUME NEW h \in Handlers, Compare(h)
      PROVE  TypeInv'
  <2>1. HandlersTypeOK'
    BY <1>3 DEF Compare, ContainsNewData, HandlersTypeOK
  <2>2. BusyOK'
    BY <1>3 DEF Compare, ContainsNewData, BusyOK, HandlersTypeOK, ThreadsTypeOK,
       threadVars, workerVars
  <2>3. QED
    BY <1>3, <2>1, <2>2 DEF Compare, ContainsNewData, ThreadsTypeOK, StoresTypeOK,
       QueueTypeOK, threadVars, workerVars
<1>4. ASSUME NEW h \in Handlers, Stamp(h)
      PROVE  TypeInv'
  <2>1. HandlersTypeOK'
    <3>1. PICK t \in Types : IsNext(h, t) /\ StampType(h, t)
      BY <1>4 DEF Stamp
    <3>2. htodo[h] \ {t} \in SUBSET Types /\ Present(h) \in SUBSET Types
      BY DEF HandlersTypeOK, Present
    <3>3. CASE UNCHANGED <<hfeed, hmsg, hnew>>
      <4>1. hpc' \in [Handlers -> {"idle", "compare", "stamp", "store", "enqueue"}]
        BY <3>1, <3>3 DEF StampType, ToIdle, HandlersTypeOK
      <4>2. htodo' \in [Handlers -> SUBSET Types]
        BY <3>1, <3>2, <3>3 DEF StampType, ToIdle, HandlersTypeOK
      <4>3. QED
        BY <3>3, <4>1, <4>2 DEF HandlersTypeOK
    <3>4. CASE ToIdle(h)
      BY <3>4 DEF ToIdle, HandlersTypeOK
    <3>5. QED
      BY <3>1, <3>3, <3>4 DEF StampType
  <2>2. StoresTypeOK'
    <3>1. PICK t \in Types : IsNext(h, t) /\ StampType(h, t)
      BY <1>4 DEF Stamp
    <3>2. <<hfeed[h], t>> \in Keys /\ hmsg[h][t] \in Versions
      BY <1>4 DEF Stamp, HandlersTypeOK, BusyOK, Keys
    <3>3. QED
      BY <3>1, <3>2 DEF StampType, StoresTypeOK
  <2>3. BusyOK'
    <3>1. hpc[h] = "stamp" /\ UNCHANGED <<tpc, tchateau>>
      BY <1>4 DEF Stamp, StampType, threadVars
    <3>2. PICK t \in Types : StampType(h, t)
      BY <1>4 DEF Stamp
    <3>3. \/ hfeed' = hfeed /\ \E place : hpc' = [hpc EXCEPT ![h] = place]
          \/ ToIdle(h)
      BY <3>2 DEF StampType
    <3>4. \A i \in Handlers : hpc'[i] # "idle" => hpc[i] # "idle" /\ hfeed'[i] = hfeed[i]
      BY <3>1, <3>3 DEF ToIdle, HandlersTypeOK
    <3>5. QED
      BY <3>1, <3>4 DEF BusyOK
  <2>4. QED
    BY <1>4, <2>1, <2>2, <2>3 DEF Stamp, StampType, IsNext, ToIdle, Present,
       ThreadsTypeOK, QueueTypeOK, threadVars, workerVars
<1>5. ASSUME NEW h \in Handlers, StoreRaw(h)
      PROVE  TypeInv'
  <2>1. HandlersTypeOK'
    BY <1>5 DEF StoreRaw, IsNext, HandlersTypeOK
  <2>2. StoresTypeOK'
    <3>1. hfeed[h] \in Feeds
      BY <1>5 DEF StoreRaw, BusyOK
    <3>2. \A t \in Types : <<hfeed[h], t>> \in Keys /\ hmsg[h][t] \in Versions
      BY <3>1 DEF HandlersTypeOK, Keys
    <3>3. QED
      BY <1>5, <3>2 DEF StoreRaw, StoresTypeOK
  <2>3. BusyOK'
    BY <1>5 DEF StoreRaw, IsNext, BusyOK, HandlersTypeOK, ThreadsTypeOK, threadVars,
       workerVars
  <2>4. QED
    BY <1>5, <2>1, <2>2, <2>3 DEF StoreRaw, IsNext, ThreadsTypeOK, QueueTypeOK,
       threadVars, workerVars
<1>6. ASSUME NEW h \in Handlers, Enqueue(h)
      PROVE  TypeInv'
  <2>1. HandlersTypeOK'
    BY <1>6 DEF Enqueue, ToIdle, HandlersTypeOK, BusyOK
  <2>2. QueueTypeOK'
    <3>1. ChateauOf[hfeed[h]] \in Chateaux
      BY <1>6, ConstantsAssumption DEF Enqueue, BusyOK
    <3>2. queue' \in Seq(Chateaux)
      <4>1. Append(queue, ChateauOf[hfeed[h]]) \in Seq(Chateaux)
        BY <3>1 DEF QueueTypeOK
      <4>2. QED
        BY <1>6, <4>1 DEF Enqueue, QueueTypeOK
    <3>3. marked' \subseteq Chateaux /\ lostWake' \subseteq Chateaux
      BY <1>6, <3>1 DEF Enqueue, QueueTypeOK
    <3>4. QED
      BY <1>6, <3>2, <3>3 DEF Enqueue, QueueTypeOK
  <2>3. BusyOK'
    BY <1>6 DEF Enqueue, ToIdle, BusyOK, HandlersTypeOK, ThreadsTypeOK, threadVars,
       workerVars
  <2>4. QED
    BY <1>6, <2>1, <2>2, <2>3 DEF Enqueue, ToIdle, ThreadsTypeOK, StoresTypeOK,
       threadVars, workerVars
<1>7. ASSUME NEW h \in Handlers, Cancel(h)
      PROVE  TypeInv'
  <2>1. HandlersTypeOK'
    BY <1>7 DEF Cancel, Fault, FaultKinds, ToIdle, HandlersTypeOK, BusyOK
  <2>2. QueueTypeOK'
    BY <1>7 DEF Cancel, Fault, FaultKinds, ToIdle, QueueTypeOK, BusyOK, workerVars
  <2>3. BusyOK'
    BY <1>7 DEF Cancel, Fault, FaultKinds, ToIdle, BusyOK, HandlersTypeOK,
       ThreadsTypeOK, threadVars, workerVars
  <2>4. QED
    BY <1>7, <2>1, <2>2, <2>3 DEF Cancel, Fault, FaultKinds, ToIdle, ThreadsTypeOK,
       StoresTypeOK, threadVars, workerVars
<1>8. ASSUME NEW p \in Threads, Steal(p)
      PROVE  TypeInv'
  <2>1. ThreadsTypeOK'
    BY <1>8 DEF Steal, ThreadsTypeOK, QueueTypeOK
  <2>2. QueueTypeOK'
    BY <1>8 DEF Steal, QueueTypeOK
  <2>3. BusyOK'
    BY <1>8 DEF Steal, BusyOK, HandlersTypeOK, ThreadsTypeOK, QueueTypeOK,
       handlerVars, workerVars
  <2>4. QED
    BY <1>8, <2>1, <2>2, <2>3 DEF Steal, HandlersTypeOK, StoresTypeOK, handlerVars,
       workerVars
<1>9. ASSUME NEW p \in Threads, Begin(p)
      PROVE  TypeInv'
  <2>1. ThreadsTypeOK'
    BY <1>9 DEF Begin, KeysOf, ThreadsTypeOK, StoresTypeOK, BusyOK
  <2>2. QueueTypeOK'
    BY <1>9 DEF Begin, KeysOf, QueueTypeOK, ThreadsTypeOK, StoresTypeOK, BusyOK
  <2>3. BusyOK'
    BY <1>9 DEF Begin, KeysOf, BusyOK, HandlersTypeOK, ThreadsTypeOK, handlerVars,
       workerVars
  <2>4. QED
    BY <1>9, <2>1, <2>2, <2>3 DEF Begin, KeysOf, HandlersTypeOK, StoresTypeOK,
       handlerVars, workerVars
<1>10. ASSUME NEW p \in Threads, ReadRaw(p)
       PROVE  TypeInv'
  <2>1. ThreadsTypeOK'
    BY <1>10 DEF ReadRaw, ThreadsTypeOK, StoresTypeOK
  <2>2. BusyOK'
    BY <1>10 DEF ReadRaw, BusyOK, HandlersTypeOK, ThreadsTypeOK, handlerVars,
       workerVars
  <2>3. QED
    BY <1>10, <2>1, <2>2 DEF ReadRaw, HandlersTypeOK, StoresTypeOK, QueueTypeOK,
       handlerVars, workerVars
<1>11. ASSUME NEW p \in Threads, Serve(p)
       PROVE  TypeInv'
  <2>1. ThreadsTypeOK'
    BY <1>11 DEF Serve, Merged, ThreadsTypeOK, StoresTypeOK
  <2>2. StoresTypeOK'
    BY <1>11 DEF Serve, Merged, StoresTypeOK, ThreadsTypeOK
  <2>3. BusyOK'
    BY <1>11 DEF Serve, Merged, BusyOK, HandlersTypeOK, ThreadsTypeOK, handlerVars,
       workerVars
  <2>4. QED
    BY <1>11, <2>1, <2>2, <2>3 DEF Serve, Merged, HandlersTypeOK, QueueTypeOK,
       handlerVars, workerVars
<1>12. ASSUME NEW p \in Threads, Save(p)
       PROVE  TypeInv'
  <2>1. ThreadsTypeOK'
    BY <1>12 DEF Save, Fault, FaultKinds, ThreadsTypeOK, QueueTypeOK, BusyOK
  <2>2. StoresTypeOK'
    <3>1. tsnap[p] \in [Keys -> Versions]
      BY DEF ThreadsTypeOK
    <3>2. disk' \in [Keys -> Versions]
      BY <1>12, <3>1 DEF Save, StoresTypeOK
    <3>3. QED
      BY <1>12, <3>2 DEF Save, StoresTypeOK
  <2>3. QueueTypeOK'
    BY <1>12 DEF Save, Fault, FaultKinds, QueueTypeOK, ThreadsTypeOK, BusyOK
  <2>4. BusyOK'
    BY <1>12 DEF Save, Fault, FaultKinds, BusyOK, HandlersTypeOK, ThreadsTypeOK,
       handlerVars
  <2>5. QED
    BY <1>12, <2>1, <2>2, <2>3, <2>4 DEF Save, Fault, FaultKinds, HandlersTypeOK,
       handlerVars
<1>13. ASSUME NEW p \in Threads, Clear(p)
       PROVE  TypeInv'
  <2>1. ThreadsTypeOK'
    BY <1>13 DEF Clear, ThreadToIdle, ThreadsTypeOK
  <2>2. QueueTypeOK'
    BY <1>13 DEF Clear, ThreadToIdle, QueueTypeOK
  <2>3. BusyOK'
    BY <1>13 DEF Clear, ThreadToIdle, BusyOK, HandlersTypeOK, ThreadsTypeOK,
       handlerVars, workerVars
  <2>4. QED
    BY <1>13, <2>1, <2>2, <2>3 DEF Clear, ThreadToIdle, HandlersTypeOK, StoresTypeOK,
       handlerVars, workerVars
<1>14. ASSUME NEW p \in Threads, Fail(p)
       PROVE  TypeInv'
  <2>1. ThreadsTypeOK'
    BY <1>14 DEF Fail, Fault, FaultKinds, ThreadsTypeOK, BusyOK
  <2>2. QueueTypeOK'
    BY <1>14 DEF Fail, Fault, FaultKinds, QueueTypeOK, BusyOK, workerVars
  <2>3. BusyOK'
    BY <1>14 DEF Fail, Fault, FaultKinds, BusyOK, HandlersTypeOK, ThreadsTypeOK,
       handlerVars, workerVars
  <2>4. QED
    BY <1>14, <2>1, <2>2, <2>3 DEF Fail, Fault, FaultKinds, HandlersTypeOK,
       StoresTypeOK, handlerVars, workerVars
<1>15. ASSUME NEW p \in Threads, Panic(p)
       PROVE  TypeInv'
  <2>1. ThreadsTypeOK'
    BY <1>15 DEF Panic, Fault, FaultKinds, ThreadToIdle, ThreadsTypeOK
  <2>2. QueueTypeOK'
    BY <1>15 DEF Panic, Fault, FaultKinds, ThreadToIdle, QueueTypeOK, workerVars
  <2>3. BusyOK'
    BY <1>15 DEF Panic, Fault, FaultKinds, ThreadToIdle, BusyOK, HandlersTypeOK,
       ThreadsTypeOK, handlerVars, workerVars
  <2>4. QED
    BY <1>15, <2>1, <2>2, <2>3 DEF Panic, Fault, FaultKinds, ThreadToIdle,
       HandlersTypeOK, StoresTypeOK, handlerVars, workerVars
<1>16. ASSUME NEW c \in Chateaux, GraceEnds(c)
       PROVE  TypeInv'
  <2>1. QueueTypeOK'
    BY <1>16 DEF GraceEnds, QueueTypeOK
  <2>2. QED
    BY <1>16, <2>1 DEF GraceEnds, HandlersTypeOK, ThreadsTypeOK, StoresTypeOK, BusyOK,
       handlerVars, threadVars, workerVars
<1>17. ASSUME Crash
       PROVE  TypeInv'
  <2>1. HandlersTypeOK'
    BY <1>17 DEF Crash, Fault, FaultKinds, HandlersTypeOK
  <2>2. ThreadsTypeOK'
    BY <1>17 DEF Crash, Fault, FaultKinds, ThreadsTypeOK
  <2>3. StoresTypeOK'
    BY <1>17 DEF Crash, Fault, FaultKinds, StoresTypeOK
  <2>4. QueueTypeOK'
    BY <1>17 DEF Crash, Fault, FaultKinds, QueueTypeOK
  <2>5. BusyOK'
    BY <1>17 DEF Crash, Fault, FaultKinds, BusyOK, HandlersTypeOK, ThreadsTypeOK
  <2>6. QED
    BY <2>1, <2>2, <2>3, <2>4, <2>5
<1>18. ASSUME UNCHANGED vars
       PROVE  TypeInv'
  BY <1>18 DEF vars, HandlersTypeOK, ThreadsTypeOK, StoresTypeOK, QueueTypeOK, BusyOK,
     handlerVars, threadVars, workerVars
<1>19. QED
  BY <1>1, <1>2, <1>3, <1>4, <1>5, <1>6, <1>7, <1>8, <1>9, <1>10, <1>11, <1>12, <1>13,
     <1>14, <1>15, <1>16, <1>17, <1>18
  DEF Next, HandlerStep, ThreadStep

\* TypeOK holds in every reachable state: the worker never holds a handler without
\* its feed or a task without its chateau, and no version is made up.
THEOREM TypeCorrect == Spec => []TypeOK
<1>1. TypeInv /\ [Next]_vars => TypeInv'
  BY NextTypeInv
<1>2. TypeInv => TypeOK
  BY DEF TypeInv
<1>3. QED
  BY InitTypeInv, <1>1, <1>2, PTL DEF Spec

--------------------------------------------------------------------------------
(* The chateau set as a lock.                                              *)

LockInv == OneTaskPerChateau /\ MarkedIsWork

LEMMA InitLockInv == Init => LockInv
BY DEF Init, LockInv, OneTaskPerChateau, MarkedIsWork, Waiting, InWork

\* What leaves the queue, the tasks' chateaux and the marks alone.
LEMMA SameLock ==
    ASSUME LockInv, UNCHANGED <<queue, tchateau, marked>>,
           faults'["panic"] = 0 => faults["panic"] = 0
    PROVE  LockInv'
BY DEF LockInv, OneTaskPerChateau, MarkedIsWork, Waiting, InWork

\* The elements of a queue after a push, and after taking its head.
LEMMA Pushed ==
    ASSUME NEW S, NEW q \in Seq(S), NEW c \in S
    PROVE  LET r == Append(q, c) IN
           /\ {r[i] : i \in DOMAIN r} = {q[i] : i \in DOMAIN q} \cup {c}
           /\ (\A i, j \in DOMAIN q : q[i] = q[j] => i = j) /\ c \notin {q[i] : i \in DOMAIN q}
                => \A i, j \in DOMAIN r : r[i] = r[j] => i = j
OBVIOUS

LEMMA PushedWaits ==
    ASSUME queue \in Seq(Chateaux), NEW c \in Chateaux, queue' = Append(queue, c)
    PROVE  /\ Waiting' = Waiting \cup {c}
           /\ (\A i, j \in DOMAIN queue : queue[i] = queue[j] => i = j) /\ c \notin Waiting
                => \A i, j \in DOMAIN queue' : queue'[i] = queue'[j] => i = j
BY Pushed DEF Waiting

LEMMA Taken ==
    ASSUME NEW S, NEW q \in Seq(S), q # <<>>,
           \A i, j \in DOMAIN q : q[i] = q[j] => i = j
    PROVE  LET r == Tail(q) IN
           /\ {r[i] : i \in DOMAIN r} = {q[i] : i \in DOMAIN q} \ {Head(q)}
           /\ Head(q) \in {q[i] : i \in DOMAIN q}
           /\ \A i, j \in DOMAIN r : r[i] = r[j] => i = j
<1> DEFINE r == Tail(q)
<1>1. DOMAIN q = 1..Len(q) /\ DOMAIN r = 1..(Len(q) - 1) /\ Len(q) \in Nat /\ Len(q) > 0
  OBVIOUS
<1>2. \A i \in DOMAIN r : r[i] = q[i + 1]
  OBVIOUS
<1>3. Head(q) = q[1]
  OBVIOUS
<1>4. \A i \in DOMAIN q : i # 1 => i - 1 \in DOMAIN r /\ q[i] = r[i - 1]
  BY <1>1, <1>2
<1>5. \A i \in DOMAIN r : i + 1 \in DOMAIN q /\ i + 1 # 1
  BY <1>1
<1> HIDE DEF r
<1>6. {r[i] : i \in DOMAIN r} = {q[i] : i \in DOMAIN q} \ {q[1]}
  <2>1. ASSUME NEW i \in DOMAIN r
        PROVE  r[i] \in {q[j] : j \in DOMAIN q} \ {q[1]}
    BY <1>1, <1>2, <1>5
  <2>2. ASSUME NEW i \in DOMAIN q, q[i] # q[1]
        PROVE  q[i] \in {r[j] : j \in DOMAIN r}
    BY <1>1, <1>4, <2>2
  <2>3. QED
    BY <2>1, <2>2
<1>7. \A i, j \in DOMAIN r : r[i] = r[j] => i = j
  BY <1>1, <1>2, <1>5
<1>8. q[1] \in {q[i] : i \in DOMAIN q}
  BY <1>1
<1>9. QED
  BY <1>3, <1>6, <1>7, <1>8 DEF r

\* Only a push, a steal, an unmarking, a panic and a restart touch the lock.
LEMMA NextLockInv ==
    ASSUME TypeInv, LockInv, [Next]_vars
    PROVE  LockInv'
<1> USE DEF TypeInv, TypeOK, QueueTypeOK
<1>1. ASSUME NEW h \in Handlers, Enqueue(h)
      PROVE  LockInv'
  <2> DEFINE c == ChateauOf[hfeed[h]]
  <2>1. CASE c \in marked
    BY <1>1, <2>1, SameLock DEF Enqueue, threadVars
  <2>2. CASE c \notin marked
    <3>1. c \in Chateaux
      BY <1>1, ConstantsAssumption DEF Enqueue, BusyOK
    <3>2. /\ queue' = Append(queue, c)
          /\ marked' = marked \cup {c}
          /\ UNCHANGED <<tchateau, faults>>
      BY <1>1, <2>2 DEF Enqueue, threadVars
    <3>3. c \notin Waiting /\ c \notin InWork
      BY <2>2 DEF LockInv, MarkedIsWork
    <3> HIDE DEF c
    <3>4. queue \in Seq(Chateaux) /\ \A i, j \in DOMAIN queue : queue[i] = queue[j] => i = j
      BY DEF LockInv, OneTaskPerChateau
    <3>5. /\ Waiting' = Waiting \cup {c}
          /\ \A i, j \in DOMAIN queue' : queue'[i] = queue'[j] => i = j
      BY <3>1, <3>2, <3>3, <3>4, PushedWaits
    <3>6. InWork' = InWork
      BY <3>2 DEF InWork
    <3>7. OneTaskPerChateau'
      BY <3>2, <3>3, <3>4, <3>5, <3>6 DEF LockInv, OneTaskPerChateau
    <3>8. MarkedIsWork'
      BY <3>2, <3>5, <3>6 DEF LockInv, MarkedIsWork
    <3>9. QED
      BY <3>7, <3>8 DEF LockInv
  <2>3. QED
    BY <2>1, <2>2
<1>2. ASSUME NEW p \in Threads, Steal(p)
      PROVE  LockInv'
  <2> DEFINE c == Head(queue)
  <2>1. /\ queue # <<>>
        /\ queue' = Tail(queue)
        /\ tchateau' = [tchateau EXCEPT ![p] = c]
        /\ UNCHANGED <<marked, faults>>
    BY <1>2 DEF Steal
  <2>2. c \in Chateaux /\ c # None
    BY <2>1, ConstantsAssumption
  <2>3. tchateau[p] = None
    BY <1>2 DEF Steal, BusyOK, ThreadsTypeOK
  <2>4. /\ Waiting' = Waiting \ {c}
        /\ c \in Waiting
        /\ \A i, j \in DOMAIN queue' : queue'[i] = queue'[j] => i = j
    <3>1. \A i, j \in DOMAIN queue : queue[i] = queue[j] => i = j
      BY DEF LockInv, OneTaskPerChateau
    <3>2. LET r == Tail(queue) IN
          /\ {r[i] : i \in DOMAIN r} = {queue[i] : i \in DOMAIN queue} \ {Head(queue)}
          /\ Head(queue) \in {queue[i] : i \in DOMAIN queue}
          /\ \A i, j \in DOMAIN r : r[i] = r[j] => i = j
      BY <2>1, <3>1, Taken
    <3>3. QED
      BY <2>1, <3>2, Zenon DEF Waiting
  <2>5. InWork' = InWork \cup {c}
    BY <2>1, <2>2, <2>3 DEF InWork, ThreadsTypeOK
  <2> HIDE DEF c
  <2>6. \A q \in Threads : tchateau[q] # c
    BY <2>2, <2>4 DEF LockInv, OneTaskPerChateau, InWork
  <2>7. \A q, r \in Threads : tchateau'[q] = tchateau'[r] /\ tchateau'[q] # None => q = r
    BY <2>1, <2>6 DEF ThreadsTypeOK, LockInv, OneTaskPerChateau
  <2>8. OneTaskPerChateau'
    BY <2>4, <2>5, <2>7 DEF LockInv, OneTaskPerChateau
  <2>9. MarkedIsWork'
    BY <2>1, <2>4, <2>5 DEF LockInv, MarkedIsWork
  <2>10. QED
    BY <2>8, <2>9 DEF LockInv
<1>3. ASSUME NEW p \in Threads, Clear(p)
      PROVE  LockInv'
  <2> DEFINE c == tchateau[p]
  <2>1. /\ tchateau' = [tchateau EXCEPT ![p] = None]
        /\ marked' = marked \ {c}
        /\ UNCHANGED <<queue, faults>>
    BY <1>3 DEF Clear, ThreadToIdle
  <2>2. c \in InWork /\ c # None
    BY <1>3, ConstantsAssumption DEF Clear, BusyOK, InWork
  <2>3. InWork' = InWork \ {c}
    BY <2>1, <2>2 DEF InWork, ThreadsTypeOK, LockInv, OneTaskPerChateau
  <2>4. Waiting' = Waiting /\ c \notin Waiting
    BY <2>1, <2>2 DEF Waiting, LockInv, OneTaskPerChateau
  <2>5. OneTaskPerChateau'
    BY <2>1, <2>3, <2>4 DEF LockInv, OneTaskPerChateau, ThreadsTypeOK
  <2>6. MarkedIsWork'
    BY <2>1, <2>3, <2>4 DEF LockInv, MarkedIsWork
  <2>7. QED
    BY <2>5, <2>6 DEF LockInv
<1>4. ASSUME NEW p \in Threads, Panic(p)
      PROVE  LockInv'
  <2>1. /\ tchateau' = [tchateau EXCEPT ![p] = None]
        /\ faults'["panic"] = faults["panic"] + 1
        /\ UNCHANGED <<queue, marked>>
    BY <1>4 DEF Panic, Fault, FaultKinds, ThreadToIdle, workerVars
  <2>2. faults'["panic"] # 0
    BY <2>1 DEF FaultKinds
  <2>3. Waiting' = Waiting /\ InWork' \subseteq InWork
    BY <2>1 DEF Waiting, InWork, ThreadsTypeOK
  <2>4. OneTaskPerChateau'
    BY <2>1, <2>3 DEF LockInv, OneTaskPerChateau, ThreadsTypeOK
  <2>5. MarkedIsWork'
    BY <2>1, <2>2, <2>3 DEF LockInv, MarkedIsWork
  <2>6. QED
    BY <2>4, <2>5 DEF LockInv
<1>5. ASSUME Crash
      PROVE  LockInv'
  BY <1>5 DEF Crash, LockInv, OneTaskPerChateau, MarkedIsWork, Waiting, InWork
<1>6. ASSUME UNCHANGED <<queue, tchateau, marked>>,
             faults'["panic"] = faults["panic"]
      PROVE  LockInv'
  BY <1>6, SameLock
<1>7. ASSUME \/ \E f \in Feeds : Publish(f)
             \/ \E h \in Handlers, f \in Feeds, present \in SUBSET Types :
                    Receive(h, f, present)
             \/ \E h \in Handlers : Compare(h) \/ Stamp(h) \/ StoreRaw(h) \/ Cancel(h)
             \/ \E p \in Threads :
                    Begin(p) \/ ReadRaw(p) \/ Fail(p) \/ Serve(p) \/ Save(p)
             \/ \E c \in Chateaux : GraceEnds(c)
             \/ UNCHANGED vars
      PROVE  UNCHANGED <<queue, tchateau, marked>> /\ faults'["panic"] = faults["panic"]
  BY <1>7
  DEF Publish, Receive, Compare, Stamp, StampType, StoreRaw, Cancel, Begin, ReadRaw, Fail,
      Serve, Save, GraceEnds, Fault, FaultKinds, vars, handlerVars, threadVars, workerVars
<1>8. QED
  BY <1>1, <1>2, <1>3, <1>4, <1>5, <1>6, <1>7 DEF Next, HandlerStep, ThreadStep

\* The chateau set works as a lock for any number of handlers and tasks: a chateau
\* is queued once or in the hands of one task, never both; and without a panic in
\* new_rt_data the marks are exactly the chateaux that wait or are worked on: none
\* is blocked for good, none worked on unmarked.
THEOREM MarkIsALockCorrect == Spec => []MarkIsALock
<1>1. TypeInv /\ LockInv /\ [Next]_vars => (TypeInv /\ LockInv)'
  BY NextTypeInv, NextLockInv
<1>2. LockInv => MarkIsALock
  BY DEF LockInv, MarkIsALock
<1>3. QED
  BY InitTypeInv, InitLockInv, <1>1, <1>2, PTL DEF Spec

--------------------------------------------------------------------------------
(* What is served: how the dataset follows the raw store, that it never    *)
(* goes back, and what the grace period keeps.                             *)

\* A task that reads has started the clock of its chateau, and the data it took
\* over at its start is still served: nobody else replaces it.
PrevInv ==
    \A p \in Threads : tpc[p] = "read" =>
        /\ grace[tchateau[p]] # "unset"
        /\ \A k \in KeysOf(tchateau[p]) : tprev[p][k] = data[k]

Base == TypeInv /\ LockInv

\* Tasks at work have different chateaux, and so different keys.
LEMMA Apart ==
    ASSUME Base, NEW p \in Threads, NEW q \in Threads, p # q,
           tchateau[p] \in Chateaux, NEW k \in KeysOf(tchateau[p])
    PROVE  k \notin KeysOf(tchateau[q])
BY ConstantsAssumption DEF Base, LockInv, OneTaskPerChateau, KeysOf

LEMMA BusyTask ==
    ASSUME Base, NEW p \in Threads, tpc[p] # "idle"
    PROVE  tchateau[p] \in Chateaux /\ tchateau[p] # None
BY ConstantsAssumption DEF Base, TypeInv, BusyOK

LEMMA InitPrevInv == Init => PrevInv
BY DEF Init, PrevInv

\* What leaves the tasks, the datasets and the clocks alone, or ends a task.
LEMMA NextPrevInv ==
    ASSUME Base, PrevInv, [Next]_vars
    PROVE  PrevInv'
<1> USE DEF Base, TypeInv, TypeOK, ThreadsTypeOK
<1>1. ASSUME NEW p \in Threads, Begin(p)
      PROVE  PrevInv'
  <2> DEFINE c == tchateau[p]
  <2>1. c \in Chateaux
    BY <1>1, BusyTask DEF Begin
  <2>2. /\ tpc' = [tpc EXCEPT ![p] = "read"]
        /\ tprev' = [tprev EXCEPT ![p] = [k \in Keys |-> IF k \in KeysOf(c) THEN data[k] ELSE 0]]
        /\ grace' = IF grace[c] = "unset" THEN [grace EXCEPT ![c] = "within"] ELSE grace
        /\ UNCHANGED <<tchateau, data>>
    BY <1>1 DEF Begin
  <2>3. \A d \in Chateaux : grace[d] # "unset" => grace'[d] # "unset"
    BY <2>1, <2>2 DEF QueueTypeOK
  <2>4. grace'[c] # "unset"
    BY <2>1, <2>2 DEF QueueTypeOK
  <2>5. \A k \in KeysOf(c) : tprev'[p][k] = data[k]
    BY <2>2 DEF KeysOf
  <2> HIDE DEF c
  <2>6. ASSUME NEW q \in Threads, tpc'[q] = "read", q # p
        PROVE  /\ grace'[tchateau[q]] # "unset"
               /\ \A k \in KeysOf(tchateau[q]) : tprev'[q][k] = data[k]
    <3>1. tpc[q] = "read" /\ tprev'[q] = tprev[q]
      BY <2>2, <2>6
    <3>2. tchateau[q] \in Chateaux
      BY <3>1, BusyTask
    <3>3. QED
      BY <2>3, <3>1, <3>2 DEF PrevInv
  <2>7. QED
    BY <2>2, <2>4, <2>5, <2>6 DEF PrevInv, KeysOf, c
<1>2. ASSUME NEW p \in Threads, Serve(p)
      PROVE  PrevInv'
  <2>1. /\ tpc' = [tpc EXCEPT ![p] = "save"]
        /\ \A k \in Keys : k \notin KeysOf(tchateau[p]) => data'[k] = data[k]
        /\ UNCHANGED <<tchateau, tprev, grace>>
    BY <1>2 DEF Serve
  <2>2. ASSUME NEW q \in Threads, tpc'[q] = "read"
        PROVE  /\ grace[tchateau[q]] # "unset"
               /\ \A k \in KeysOf(tchateau[q]) : tprev[q][k] = data'[k]
    <3>1. tpc[q] = "read" /\ q # p
      BY <2>1, <2>2
    <3>2. \A k \in KeysOf(tchateau[q]) : k \in Keys /\ k \notin KeysOf(tchateau[p])
      BY <3>1, Apart, BusyTask DEF KeysOf
    <3>3. QED
      BY <2>1, <3>1, <3>2 DEF PrevInv
  <2>3. QED
    BY <2>1, <2>2 DEF PrevInv, KeysOf
<1>3. ASSUME Crash
      PROVE  PrevInv'
  BY <1>3 DEF Crash, PrevInv
<1>4. ASSUME NEW c \in Chateaux, GraceEnds(c)
      PROVE  PrevInv'
  BY <1>4, BusyTask DEF GraceEnds, PrevInv, QueueTypeOK, threadVars, KeysOf
<1>5. ASSUME NEW p \in Threads, Steal(p) \/ ReadRaw(p) \/ Fail(p) \/ Save(p) \/ Clear(p) \/ Panic(p)
      PROVE  PrevInv'
  <2>1. UNCHANGED <<data, grace>>
    BY <1>5 DEF Steal, ReadRaw, Fail, Save, Clear, Panic, workerVars
  <2>2. \A q \in Threads : tpc'[q] = "read" =>
            tpc[q] = "read" /\ tchateau'[q] = tchateau[q] /\ tprev'[q] = tprev[q]
    BY <1>5 DEF Steal, ReadRaw, Fail, Save, Clear, Panic, ThreadToIdle
  <2>3. QED
    BY <2>1, <2>2 DEF PrevInv, KeysOf
<1>6. ASSUME UNCHANGED <<tpc, tchateau, tprev, data, grace>>
      PROVE  PrevInv'
  BY <1>6 DEF PrevInv, KeysOf
<1>7. ASSUME \/ \E f \in Feeds : Publish(f)
             \/ \E h \in Handlers, f \in Feeds, present \in SUBSET Types :
                    Receive(h, f, present)
             \/ \E h \in Handlers : HandlerStep(h) \/ Cancel(h)
             \/ UNCHANGED vars
      PROVE  UNCHANGED <<tpc, tchateau, tprev, data, grace>>
  BY <1>7 DEF Publish, Receive, HandlerStep, Compare, Stamp, StampType, StoreRaw, Enqueue,
     Cancel, vars, threadVars, workerVars
<1>8. QED
  BY <1>1, <1>2, <1>3, <1>4, <1>5, <1>6, <1>7 DEF Next, ThreadStep

\* Only a task that serves, or a restart, changes a dataset.
LEMMA OnlyServed ==
    ASSUME [Next]_vars
    PROVE  (\E p \in Threads : Serve(p)) \/ Crash \/ data' = data
BY DEF Next, HandlerStep, ThreadStep, Publish, Receive, Compare, Stamp, StampType, StoreRaw,
   Enqueue, Cancel, Steal, Begin, ReadRaw, Save, Clear, Fail, Panic, GraceEnds, vars, workerVars

\* A step that takes a trip update out of what is served is a restart, or comes when
\* the grace period is past.
LEMMA StepKeepsTrips ==
    ASSUME Base, PrevInv, [Next]_vars, NEW k \in Keys,
           k[2] = TripUpdates, data[k] # 0, data'[k] = 0
    PROVE  \/ grace[ChateauOf[k[1]]] = "past"
           \/ faults'["crash"] > faults["crash"]
<1> USE DEF Base, TypeInv, TypeOK
<1>1. ASSUME NEW p \in Threads, Serve(p)
      PROVE  grace[ChateauOf[k[1]]] = "past"
  <2>1. k \in KeysOf(tchateau[p]) /\ Merged(p)[k] = 0
    BY <1>1 DEF Serve
  <2>2. tpc[p] = "read"
    BY <1>1 DEF Serve
  <2>3. tprev[p][k] = data[k] /\ grace[tchateau[p]] # "unset"
    BY <2>1, <2>2 DEF PrevInv
  <2>4. grace[tchateau[p]] # "within"
    BY <2>1, <2>3 DEF Merged
  <2>5. tchateau[p] \in Chateaux /\ ChateauOf[k[1]] = tchateau[p]
    BY <2>1, <2>2, BusyTask DEF KeysOf
  <2>6. QED
    BY <2>3, <2>4, <2>5 DEF QueueTypeOK
<1>2. ASSUME Crash
      PROVE  faults'["crash"] > faults["crash"]
  BY <1>2 DEF Crash, Fault, QueueTypeOK, FaultKinds
<1>3. QED
  BY <1>1, <1>2, OnlyServed

\* The grace period does what its comment says, for any number of feeds, requests and
\* tasks: trip updates that are served stay so until it is past or the process dies.
THEOREM GraceCorrect == Spec => GraceKeepsTrips
<1> DEFINE Keeps == \A k \in Keys : k[2] = TripUpdates /\ data[k] # 0 /\ data'[k] = 0 =>
                        \/ grace[ChateauOf[k[1]]] = "past"
                        \/ faults'["crash"] > faults["crash"]
<1>1. Init => Base /\ PrevInv
  BY InitTypeInv, InitLockInv, InitPrevInv DEF Base
<1>2. Base /\ PrevInv /\ [Next]_vars => (Base /\ PrevInv)'
  BY NextTypeInv, NextLockInv, NextPrevInv DEF Base
<1>3. Base /\ PrevInv /\ [Next]_vars => [Keeps]_vars
  BY StepKeepsTrips
<1>4. QED
  BY <1>1, <1>2, <1>3, PTL DEF Spec, GraceKeepsTrips

--------------------------------------------------------------------------------
(* What is served is never older than what was.                            *)

\* A version v takes the place of d without going back; after a restart it may be that
\* there is none any more.
Covers(v, d) == d <= v \/ (v = 0 /\ faults["crash"] > 0)

\* One request per feed at a time, which stores the types it came with.
OneRequest ==
    /\ \A g, h \in Handlers : hfeed[g] = hfeed[h] /\ hfeed[g] # None => g = h
    /\ \A h \in Handlers : hpc[h] = "store" => htodo[h] \subseteq Present(h)

\* Nothing is newer than what is published,
NotInvented ==
    \A k \in Keys :
        /\ store[k] <= published[k[1]]
        /\ data[k] <= published[k[1]]
        /\ disk[k] <= published[k[1]]
        /\ \A p \in Threads : tsnap[p][k] <= published[k[1]] /\ tprev[p][k] <= published[k[1]]

\* nor than a message on its way to the store;
InFlightIsNewest ==
    \A h \in Handlers, f \in Feeds, t \in Types : hfeed[h] = f /\ hmsg[h][t] # 0 =>
        /\ hmsg[h][t] <= published[f]
        /\ store[<<f, t>>] <= hmsg[h][t]
        /\ data[<<f, t>>] <= hmsg[h][t]

\* the store is ahead of the dataset,
StoreLeads == \A k \in Keys : Covers(store[k], data[k])

\* and what a task has read lies between them.
ReadBetween ==
    \A p \in Threads : tpc[p] = "read" =>
        \A k \in KeysOf(tchateau[p]) : k \notin ttodo[p] =>
            tsnap[p][k] <= store[k] /\ Covers(tsnap[p][k], data[k])

OrderInv == OneRequest /\ NotInvented /\ InFlightIsNewest /\ StoreLeads /\ ReadBetween

LEMMA InitOrderInv == Init => OrderInv
<1> SUFFICES ASSUME Init PROVE OrderInv
  OBVIOUS
<1>1. OneRequest
  BY DEF Init, OneRequest
<1>2. NotInvented
  BY DEF Init, NotInvented, NoKeys, Keys
<1>3. InFlightIsNewest
  BY DEF Init, InFlightIsNewest, NoMessage
<1>4. StoreLeads
  BY DEF Init, StoreLeads, Covers, NoKeys
<1>5. ReadBetween
  BY DEF Init, ReadBetween
<1>6. QED
  BY <1>1, <1>2, <1>3, <1>4, <1>5 DEF OrderInv

\* The new dataset of a task that has read everything: no key of it goes back, none
\* gets ahead of the store.
LEMMA MergedCovers ==
    ASSUME Base, PrevInv, OrderInv, NEW p \in Threads, tpc[p] = "read", ttodo[p] = {},
           NEW k \in KeysOf(tchateau[p])
    PROVE  /\ Merged(p)[k] \in Nat
           /\ Covers(Merged(p)[k], data[k])
           /\ Covers(store[k], Merged(p)[k])
           /\ Merged(p)[k] = data[k] \/ Merged(p)[k] <= store[k]
<1>1. k \in Keys /\ tsnap[p][k] \in Nat /\ store[k] \in Nat /\ data[k] \in Nat
  BY ConstantsAssumption
  DEF KeysOf, Base, TypeInv, TypeOK, ThreadsTypeOK, StoresTypeOK, Versions
<1>2. tprev[p][k] = data[k]
  BY DEF PrevInv
<1>3. tsnap[p][k] <= store[k] /\ Covers(tsnap[p][k], data[k])
  BY DEF OrderInv, ReadBetween
<1>4. Covers(store[k], data[k])
  BY <1>1 DEF OrderInv, StoreLeads
<1>5. Merged(p)[k] = tsnap[p][k] \/ Merged(p)[k] = data[k]
  BY <1>1, <1>2 DEF Merged
<1>6. QED
  BY <1>1, <1>3, <1>4, <1>5 DEF Covers

\* Where messages, stores, datasets and what tasks have read stay, so does the order.
LEMMA SameOrder ==
    ASSUME OrderInv,
           UNCHANGED <<hfeed, hmsg, published, store, data, disk, tsnap, tprev, tchateau, ttodo>>,
           faults'["crash"] = faults["crash"],
           \A h \in Handlers : hpc'[h] = "store" =>
               htodo'[h] \subseteq Present(h),
           \A p \in Threads : tpc'[p] = "read" => tpc[p] = "read"
    PROVE  OrderInv'
<1>1. OneRequest'
  BY DEF OrderInv, OneRequest, Present
<1>2. NotInvented'
  BY DEF OrderInv, NotInvented, Keys
<1>3. InFlightIsNewest'
  BY DEF OrderInv, InFlightIsNewest
<1>4. StoreLeads'
  BY DEF OrderInv, StoreLeads, Covers
<1>5. ReadBetween'
  BY DEF OrderInv, ReadBetween, Covers, KeysOf
<1>6. QED
  BY <1>1, <1>2, <1>3, <1>4, <1>5 DEF OrderInv

\* With one request per feed at a time every step keeps the order.
LEMMA NextOrderInv ==
    ASSUME ~Overlap, Base, PrevInv, OrderInv, [Next]_vars
    PROVE  OrderInv'
<1> USE DEF Base, TypeInv, TypeOK
<1>1. ASSUME NEW f \in Feeds, Publish(f)
      PROVE  OrderInv'
  <2>1. /\ \A g \in Feeds : published[g] \in Nat /\ published'[g] \in Nat /\ published[g] <= published'[g]
        /\ UNCHANGED <<hpc, hfeed, hmsg, htodo, store, data, disk, tsnap, tprev, tchateau, ttodo, tpc, faults>>
    BY <1>1, ConstantsAssumption
    DEF Publish, StoresTypeOK, Versions, handlerVars, threadVars, workerVars
  <2>2. NotInvented'
    <3> SUFFICES ASSUME NEW k \in Keys
                 PROVE  /\ store[k] <= published'[k[1]]
                        /\ data[k] <= published'[k[1]]
                        /\ disk[k] <= published'[k[1]]
                        /\ \A p \in Threads : tsnap[p][k] <= published'[k[1]] /\ tprev[p][k] <= published'[k[1]]
      BY <2>1 DEF NotInvented, Keys
    <3>1. k[1] \in Feeds /\ store[k] \in Nat /\ data[k] \in Nat /\ disk[k] \in Nat
      BY ConstantsAssumption DEF Keys, StoresTypeOK, Versions
    <3>2. \A p \in Threads : tsnap[p][k] \in Nat /\ tprev[p][k] \in Nat
      BY ConstantsAssumption DEF ThreadsTypeOK, Versions
    <3>3. /\ store[k] <= published[k[1]] /\ data[k] <= published[k[1]]
          /\ disk[k] <= published[k[1]]
          /\ \A p \in Threads : tsnap[p][k] <= published[k[1]] /\ tprev[p][k] <= published[k[1]]
      BY DEF OrderInv, NotInvented
    <3>4. QED
      BY <2>1, <3>1, <3>2, <3>3
  <2>3. InFlightIsNewest'
    <3> SUFFICES ASSUME NEW h \in Handlers, NEW g \in Feeds, NEW t \in Types,
                        hfeed[h] = g, hmsg[h][t] # 0
                 PROVE  /\ hmsg[h][t] <= published'[g]
                        /\ store[<<g, t>>] <= hmsg[h][t]
                        /\ data[<<g, t>>] <= hmsg[h][t]
      BY <2>1 DEF InFlightIsNewest
    <3>1. hmsg[h][t] \in Nat
      BY ConstantsAssumption DEF HandlersTypeOK, Versions
    <3>2. QED
      BY <2>1, <3>1 DEF OrderInv, InFlightIsNewest
  <2>4. OneRequest' /\ StoreLeads' /\ ReadBetween'
    BY <2>1 DEF OrderInv, OneRequest, Present, StoreLeads, ReadBetween, Covers, KeysOf
  <2>5. QED
    BY <2>2, <2>3, <2>4 DEF OrderInv
<1>2. ASSUME NEW h \in Handlers, NEW f \in Feeds, NEW present \in SUBSET Types,
             Receive(h, f, present)
      PROVE  OrderInv'
  <2>1. /\ hfeed' = [hfeed EXCEPT ![h] = f]
        /\ hmsg' = [hmsg EXCEPT ![h] = [t \in Types |-> IF t \in present THEN published[f] ELSE 0]]
        /\ hpc' = [hpc EXCEPT ![h] = "compare"]
        /\ htodo' = [htodo EXCEPT ![h] = present]
        /\ \A g \in Handlers : hfeed[g] # f
        /\ UNCHANGED <<published, store, data, disk, tsnap, tprev, tchateau, ttodo, tpc, faults>>
    BY <1>2 DEF Receive, threadVars, workerVars
  <2>2. OneRequest'
    BY <2>1 DEF OrderInv, OneRequest, Present, HandlersTypeOK
  <2>3. InFlightIsNewest'
    <3> SUFFICES ASSUME NEW g \in Handlers, NEW e \in Feeds, NEW t \in Types,
                        hfeed'[g] = e, hmsg'[g][t] # 0
                 PROVE  /\ hmsg'[g][t] <= published[e]
                        /\ store[<<e, t>>] <= hmsg'[g][t]
                        /\ data[<<e, t>>] <= hmsg'[g][t]
      BY <2>1 DEF InFlightIsNewest
    <3>1. CASE g = h
      <4>1. e = f /\ hmsg'[g][t] = published[f] /\ published[f] \in Nat
        BY <2>1, <3>1, ConstantsAssumption DEF HandlersTypeOK, StoresTypeOK, Versions
      <4>2. <<f, t>> \in Keys
        BY DEF Keys
      <4>3. QED
        BY <4>1, <4>2 DEF OrderInv, NotInvented
    <3>2. CASE g # h
      BY <2>1, <3>2 DEF OrderInv, InFlightIsNewest, HandlersTypeOK
    <3>3. QED
      BY <3>1, <3>2
  <2>4. NotInvented' /\ StoreLeads' /\ ReadBetween'
    BY <2>1 DEF OrderInv, NotInvented, StoreLeads, ReadBetween, Covers, KeysOf, Keys
  <2>5. QED
    BY <2>2, <2>3, <2>4 DEF OrderInv
<1>3. ASSUME NEW h \in Handlers, Compare(h)
      PROVE  OrderInv'
  BY <1>3, SameOrder
  DEF Compare, HandlersTypeOK, OrderInv, OneRequest, threadVars, workerVars
<1>4. ASSUME NEW h \in Handlers, ToIdle(h), h \in Handlers,
             UNCHANGED <<published, store, data, disk, tsnap, tprev, tchateau, ttodo, tpc>>,
             faults'["crash"] = faults["crash"]
      PROVE  OrderInv'
  <2>1. OneRequest'
    BY <1>4 DEF ToIdle, OrderInv, OneRequest, Present, HandlersTypeOK
  <2>2. InFlightIsNewest'
    <3> SUFFICES ASSUME NEW g \in Handlers, NEW e \in Feeds, NEW t \in Types,
                        hfeed'[g] = e, hmsg'[g][t] # 0
                 PROVE  g # h
      BY <1>4 DEF ToIdle, OrderInv, InFlightIsNewest, HandlersTypeOK
    <3>1. QED
      BY <1>4, ConstantsAssumption DEF ToIdle, HandlersTypeOK
  <2>3. NotInvented' /\ StoreLeads' /\ ReadBetween'
    BY <1>4 DEF OrderInv, NotInvented, StoreLeads, ReadBetween, Covers, KeysOf, Keys
  <2>4. QED
    BY <2>1, <2>2, <2>3 DEF OrderInv
<1>5. ASSUME NEW h \in Handlers, Stamp(h)
      PROVE  OrderInv'
  <2>1. PICK t \in Types : IsNext(h, t) /\ StampType(h, t)
    BY <1>5 DEF Stamp
  <2>2. UNCHANGED <<published, store, data, disk, tsnap, tprev, tchateau, ttodo, tpc, faults>>
    BY <2>1 DEF StampType, threadVars
  <2>3. CASE ToIdle(h)
    BY <1>4, <2>2, <2>3
  <2>4. CASE UNCHANGED <<hfeed, hmsg, hnew>> /\ ~ToIdle(h)
    <3>1. \A g \in Handlers : g # h => hpc'[g] = hpc[g] /\ htodo'[g] = htodo[g]
      BY <2>1, <2>4 DEF StampType, HandlersTypeOK
    <3>2. hpc'[h] = "store" => htodo'[h] = Present(h)
      BY <2>1, <2>4 DEF StampType, HandlersTypeOK
    <3>3. \A g \in Handlers : hpc'[g] = "store" => htodo'[g] \subseteq Present(g)
      BY <3>1, <3>2 DEF OrderInv, OneRequest
    <3>4. QED
      BY <2>2, <2>4, <3>3, SameOrder
  <2>5. QED
    BY <2>1, <2>3, <2>4 DEF StampType
<1>6. ASSUME NEW h \in Handlers, StoreRaw(h)
      PROVE  OrderInv'
  <2> DEFINE f == hfeed[h]
  <2>1. f \in Feeds
    BY <1>6 DEF StoreRaw, BusyOK
  <2>2. PICK t \in Types :
            /\ t \in htodo[h]
            /\ store' = [store EXCEPT ![<<f, t>>] = hmsg[h][t]]
            /\ hpc' = [hpc EXCEPT ![h] = IF htodo[h] = {t} THEN "enqueue" ELSE "store"]
            /\ htodo' = [htodo EXCEPT ![h] = @ \ {t}]
    BY <1>6 DEF StoreRaw, IsNext
  <2>3. UNCHANGED <<published, hfeed, hmsg, data, disk, tsnap, tprev, tchateau, ttodo, tpc, faults>>
    BY <1>6 DEF StoreRaw, threadVars
  <2>4. hmsg[h][t] # 0 /\ hmsg[h][t] \in Nat
    BY <1>6, <2>2, ConstantsAssumption
    DEF StoreRaw, OrderInv, OneRequest, Present, HandlersTypeOK, Versions
  <2>5. <<f, t>> \in Keys
    BY <2>1 DEF Keys
  <2> HIDE DEF f
  <2>6. /\ hmsg[h][t] <= published[f]
        /\ store[<<f, t>>] <= hmsg[h][t]
        /\ data[<<f, t>>] <= hmsg[h][t]
    BY <2>1, <2>4 DEF OrderInv, InFlightIsNewest, f
  <2>7. /\ store'[<<f, t>>] = hmsg[h][t]
        /\ \A k \in Keys : k # <<f, t>> => store'[k] = store[k]
    BY <2>2, <2>5 DEF StoresTypeOK
  <2>8. OneRequest'
    BY <1>6, <2>2, <2>3 DEF StoreRaw, OrderInv, OneRequest, Present, HandlersTypeOK
  <2>9. NotInvented'
    BY <2>3, <2>6, <2>7 DEF OrderInv, NotInvented, Keys
  <2>10. InFlightIsNewest'
    <3> SUFFICES ASSUME NEW g \in Handlers, NEW e \in Feeds, NEW u \in Types,
                        hfeed[g] = e, hmsg[g][u] # 0
                 PROVE  /\ hmsg[g][u] <= published[e]
                        /\ store'[<<e, u>>] <= hmsg[g][u]
                        /\ data[<<e, u>>] <= hmsg[g][u]
      BY <2>3 DEF InFlightIsNewest
    <3>1. CASE <<e, u>> = <<f, t>>
      <4>1. g = h /\ u = t /\ e = f
        BY <2>1, <3>1, ConstantsAssumption DEF OrderInv, OneRequest, f
      <4>2. QED
        BY <2>4, <2>6, <2>7, <4>1
    <3>2. CASE <<e, u>> # <<f, t>>
      BY <2>7, <3>2 DEF OrderInv, InFlightIsNewest, Keys
    <3>3. QED
      BY <3>1, <3>2
  <2>11. StoreLeads'
    BY <2>3, <2>6, <2>7 DEF OrderInv, StoreLeads, Covers
  <2>12. ReadBetween'
    <3> SUFFICES ASSUME NEW p \in Threads, tpc[p] = "read",
                        NEW k \in KeysOf(tchateau[p]), k \notin ttodo[p]
                 PROVE  tsnap[p][k] <= store'[k] /\ Covers(tsnap[p][k], data[k])
      BY <2>3 DEF ReadBetween, Covers, KeysOf
    <3>1. /\ k \in Keys /\ tsnap[p][k] \in Nat /\ store[k] \in Nat
      BY ConstantsAssumption DEF KeysOf, ThreadsTypeOK, StoresTypeOK, Versions
    <3>2. tsnap[p][k] <= store[k] /\ Covers(tsnap[p][k], data[k])
      BY DEF OrderInv, ReadBetween
    <3>3. QED
      BY <2>4, <2>6, <2>7, <3>1, <3>2
  <2>13. QED
    BY <2>8, <2>9, <2>10, <2>11, <2>12 DEF OrderInv
<1>7. ASSUME NEW h \in Handlers, Enqueue(h) \/ Cancel(h)
      PROVE  OrderInv'
  <2>1. /\ ToIdle(h) /\ faults'["crash"] = faults["crash"]
        /\ UNCHANGED <<published, store, data, disk, tsnap, tprev, tchateau, ttodo, tpc>>
    BY <1>7 DEF Enqueue, Cancel, Fault, FaultKinds, QueueTypeOK, threadVars, workerVars
  <2>2. QED
    BY <1>4, <2>1
<1>8. ASSUME NEW p \in Threads, Steal(p) \/ Fail(p) \/ Clear(p) \/ Panic(p)
      PROVE  OrderInv'
  <2>1. /\ UNCHANGED <<hpc, hfeed, hmsg, htodo, published, store, data, disk>>
        /\ faults'["crash"] = faults["crash"]
    BY <1>8 DEF Steal, Fail, Clear, Panic, Fault, FaultKinds, QueueTypeOK, handlerVars, workerVars
  <2>2. \A q \in Threads : tpc'[q] = "read" =>
            /\ tpc[q] = "read" /\ tchateau'[q] = tchateau[q]
            /\ ttodo'[q] = ttodo[q] /\ tsnap'[q] = tsnap[q]
    BY <1>8 DEF Steal, Fail, Clear, Panic, ThreadToIdle, ThreadsTypeOK
  <2>3. \A q \in Threads : /\ tsnap'[q] = tsnap[q] \/ tsnap'[q] = NoKeys
                           /\ tprev'[q] = tprev[q] \/ tprev'[q] = NoKeys
    BY <1>8 DEF Steal, Fail, Clear, Panic, ThreadToIdle, ThreadsTypeOK
  <2>4. NotInvented'
    <3>1. \A k \in Keys : NoKeys[k] <= published[k[1]]
      BY ConstantsAssumption DEF NoKeys, Keys, StoresTypeOK, Versions
    <3>2. ASSUME NEW q \in Threads, NEW k \in Keys
          PROVE  tsnap'[q][k] <= published[k[1]] /\ tprev'[q][k] <= published[k[1]]
      BY <2>3, <3>1 DEF OrderInv, NotInvented
    <3>3. QED
      BY <2>1, <3>2 DEF OrderInv, NotInvented, Keys
  <2>5. ReadBetween'
    BY <2>1, <2>2 DEF OrderInv, ReadBetween, Covers, KeysOf
  <2>6. OneRequest' /\ InFlightIsNewest' /\ StoreLeads'
    BY <2>1 DEF OrderInv, OneRequest, Present, InFlightIsNewest, StoreLeads, Covers
  <2>7. QED
    BY <2>4, <2>5, <2>6 DEF OrderInv
<1>9. ASSUME NEW p \in Threads, Begin(p)
      PROVE  OrderInv'
  <2>1. /\ UNCHANGED <<hpc, hfeed, hmsg, htodo, published, store, data, disk, tsnap, tchateau, faults>>
        /\ ttodo' = [ttodo EXCEPT ![p] = KeysOf(tchateau[p])]
        /\ tpc' = [tpc EXCEPT ![p] = "read"]
        /\ \A q \in Threads, k \in Keys : tprev'[q][k] \in {tprev[q][k], data[k], 0}
    BY <1>9 DEF Begin, handlerVars, ThreadsTypeOK
  <2>2. ReadBetween'
    BY <2>1 DEF OrderInv, ReadBetween, Covers, KeysOf, ThreadsTypeOK
  <2>3. NotInvented'
    <3>1. \A k \in Keys : 0 <= published[k[1]]
      BY ConstantsAssumption DEF Keys, StoresTypeOK, Versions
    <3>2. QED
      BY <2>1, <3>1 DEF OrderInv, NotInvented, Keys
  <2>4. OneRequest' /\ InFlightIsNewest' /\ StoreLeads'
    BY <2>1 DEF OrderInv, OneRequest, Present, InFlightIsNewest, StoreLeads, Covers
  <2>5. QED
    BY <2>2, <2>3, <2>4 DEF OrderInv
<1>10. ASSUME NEW p \in Threads, ReadRaw(p)
       PROVE  OrderInv'
  <2> DEFINE r == CHOOSE k \in ttodo[p] : TRUE
  <2>1. r \in ttodo[p] /\ r \in Keys
    BY <1>10 DEF ReadRaw, ThreadsTypeOK
  <2>2. /\ tsnap' = [tsnap EXCEPT ![p][r] = store[r]]
        /\ ttodo' = [ttodo EXCEPT ![p] = @ \ {r}]
        /\ UNCHANGED <<hpc, hfeed, hmsg, htodo, published, store, data, disk, tprev, tpc, tchateau, faults>>
    BY <1>10 DEF ReadRaw, handlerVars, workerVars
  <2> HIDE DEF r
  <2>3. /\ tsnap'[p][r] = store[r]
        /\ \A q \in Threads, k \in Keys : q # p \/ k # r => tsnap'[q][k] = tsnap[q][k]
    BY <2>1, <2>2 DEF ThreadsTypeOK
  <2>4. NotInvented'
    BY <2>2, <2>3 DEF OrderInv, NotInvented, Keys
  <2>5. ReadBetween'
    <3> SUFFICES ASSUME NEW q \in Threads, tpc[q] = "read",
                        NEW k \in KeysOf(tchateau[q]), k \notin ttodo'[q]
                 PROVE  tsnap'[q][k] <= store[k] /\ Covers(tsnap'[q][k], data[k])
      BY <2>2 DEF ReadBetween, Covers, KeysOf
    <3>1. k \in Keys /\ store[k] \in Nat
      BY ConstantsAssumption DEF KeysOf, StoresTypeOK, Versions
    <3>2. CASE q = p /\ k = r
      BY <2>3, <3>1, <3>2 DEF OrderInv, StoreLeads
    <3>3. CASE q # p \/ k # r
      <4>1. k \notin ttodo[q]
        BY <2>2, <3>3 DEF ThreadsTypeOK
      <4>2. QED
        BY <2>3, <3>1, <3>3, <4>1 DEF OrderInv, ReadBetween
    <3>4. QED
      BY <3>2, <3>3
  <2>6. OneRequest' /\ InFlightIsNewest' /\ StoreLeads'
    BY <2>2 DEF OrderInv, OneRequest, Present, InFlightIsNewest, StoreLeads, Covers
  <2>7. QED
    BY <2>4, <2>5, <2>6 DEF OrderInv
<1>11. ASSUME NEW p \in Threads, Serve(p)
       PROVE  OrderInv'
  <2>1. /\ tpc[p] = "read" /\ ttodo[p] = {}
        /\ tsnap' = [tsnap EXCEPT ![p] = Merged(p)]
        /\ tpc' = [tpc EXCEPT ![p] = "save"]
        /\ UNCHANGED <<hpc, hfeed, hmsg, htodo, published, store, disk, tprev, tchateau, ttodo, faults>>
    BY <1>11 DEF Serve, handlerVars
  <2>2. /\ \A k \in KeysOf(tchateau[p]) : data'[k] = Merged(p)[k]
        /\ \A k \in Keys : k \notin KeysOf(tchateau[p]) => data'[k] = data[k]
    BY <1>11 DEF Serve, KeysOf
  <2>3. \A k \in KeysOf(tchateau[p]) :
            /\ Merged(p)[k] \in Nat
            /\ Covers(store[k], Merged(p)[k])
            /\ Merged(p)[k] = data[k] \/ Merged(p)[k] <= store[k]
    BY <2>1, MergedCovers
  <2>4. \A k \in Keys : Merged(p)[k] = tsnap[p][k] \/ Merged(p)[k] = tprev[p][k]
    BY DEF Merged
  <2>5. \A k \in Keys : /\ store[k] \in Nat /\ data[k] \in Nat /\ published[k[1]] \in Nat
                        /\ k[1] \in Feeds
    BY ConstantsAssumption DEF StoresTypeOK, Versions, Keys
  <2>6. NotInvented'
    <3> SUFFICES ASSUME NEW k \in Keys
                 PROVE  /\ store[k] <= published[k[1]]
                        /\ data'[k] <= published[k[1]]
                        /\ disk[k] <= published[k[1]]
                        /\ \A q \in Threads : tsnap'[q][k] <= published[k[1]] /\ tprev[q][k] <= published[k[1]]
      BY <2>1 DEF NotInvented
    <3>1. /\ store[k] <= published[k[1]] /\ data[k] <= published[k[1]] /\ disk[k] <= published[k[1]]
          /\ \A q \in Threads : tsnap[q][k] <= published[k[1]] /\ tprev[q][k] <= published[k[1]]
      BY DEF OrderInv, NotInvented
    <3>2. data'[k] <= published[k[1]]
      BY <2>2, <2>3, <2>5, <3>1
    <3>3. \A q \in Threads : tsnap'[q][k] <= published[k[1]]
      BY <2>1, <2>4, <3>1 DEF ThreadsTypeOK
    <3>4. QED
      BY <3>1, <3>2, <3>3
  <2>7. InFlightIsNewest'
    <3> SUFFICES ASSUME NEW h \in Handlers, NEW f \in Feeds, NEW t \in Types,
                        hfeed[h] = f, hmsg[h][t] # 0
                 PROVE  data'[<<f, t>>] <= hmsg[h][t]
      BY <2>1 DEF OrderInv, InFlightIsNewest
    <3>1. <<f, t>> \in Keys /\ hmsg[h][t] \in Nat
      BY ConstantsAssumption DEF Keys, HandlersTypeOK, Versions
    <3>2. store[<<f, t>>] <= hmsg[h][t] /\ data[<<f, t>>] <= hmsg[h][t]
      BY DEF OrderInv, InFlightIsNewest
    <3>3. QED
      BY <2>2, <2>3, <2>5, <3>1, <3>2
  <2>8. StoreLeads'
    <3> SUFFICES ASSUME NEW k \in Keys
                 PROVE  Covers(store[k], data'[k])
      BY <2>1 DEF StoreLeads, Covers
    <3>1. QED
      BY <2>2, <2>3 DEF OrderInv, StoreLeads
  <2>9. ReadBetween'
    <3> SUFFICES ASSUME NEW q \in Threads, tpc'[q] = "read",
                        NEW k \in KeysOf(tchateau[q]), k \notin ttodo[q]
                 PROVE  tsnap'[q][k] <= store[k] /\ Covers(tsnap'[q][k], data'[k])
      BY <2>1 DEF ReadBetween, Covers, KeysOf
    <3>1. q # p /\ tpc[q] = "read" /\ tsnap'[q] = tsnap[q]
      BY <2>1 DEF ThreadsTypeOK
    <3>2. k \in Keys /\ k \notin KeysOf(tchateau[p])
      BY <3>1, Apart, BusyTask DEF KeysOf
    <3>3. QED
      BY <2>2, <3>1, <3>2 DEF OrderInv, ReadBetween
  <2>10. OneRequest'
    BY <2>1 DEF OrderInv, OneRequest, Present
  <2>11. QED
    BY <2>6, <2>7, <2>8, <2>9, <2>10 DEF OrderInv
<1>12. ASSUME NEW p \in Threads, Save(p)
       PROVE  OrderInv'
  <2>1. /\ UNCHANGED <<hpc, hfeed, hmsg, htodo, published, store, data, tsnap, tprev, tchateau, ttodo>>
        /\ tpc' = [tpc EXCEPT ![p] = "clear"]
        /\ faults'["crash"] = faults["crash"]
        /\ \A k \in Keys : disk'[k] \in {disk[k], tsnap[p][k]}
    BY <1>12 DEF Save, Fault, FaultKinds, QueueTypeOK, StoresTypeOK, handlerVars
  <2>2. NotInvented'
    BY <2>1 DEF OrderInv, NotInvented, Keys
  <2>3. ReadBetween'
    BY <2>1 DEF OrderInv, ReadBetween, Covers, KeysOf, ThreadsTypeOK
  <2>4. OneRequest' /\ InFlightIsNewest' /\ StoreLeads'
    BY <2>1 DEF OrderInv, OneRequest, Present, InFlightIsNewest, StoreLeads, Covers
  <2>5. QED
    BY <2>2, <2>3, <2>4 DEF OrderInv
<1>13. ASSUME NEW c \in Chateaux, GraceEnds(c)
       PROVE  OrderInv'
  BY <1>13, SameOrder DEF GraceEnds, handlerVars, threadVars, OrderInv, OneRequest
<1>14. ASSUME Crash
       PROVE  OrderInv'
  <2>1. faults'["crash"] > 0
    BY <1>14 DEF Crash, Fault, FaultKinds, QueueTypeOK
  <2>2. \A k \in Keys : NoKeys[k] = 0 /\ 0 <= published[k[1]]
    BY ConstantsAssumption DEF NoKeys, Keys, StoresTypeOK, Versions
  <2>3. NotInvented'
    BY <1>14, <2>2 DEF Crash, OrderInv, NotInvented, Keys
  <2>4. StoreLeads'
    BY <1>14, <2>1, <2>2 DEF Crash, StoreLeads, Covers
  <2>5. InFlightIsNewest'
    BY <1>14, ConstantsAssumption DEF Crash, InFlightIsNewest
  <2>6. OneRequest' /\ ReadBetween'
    BY <1>14 DEF Crash, OneRequest, ReadBetween
  <2>7. QED
    BY <2>3, <2>4, <2>5, <2>6 DEF OrderInv
<1>15. ASSUME UNCHANGED vars
       PROVE  OrderInv'
  BY <1>15, SameOrder
  DEF vars, handlerVars, threadVars, workerVars, OrderInv, OneRequest
<1>16. QED
  BY <1>1, <1>2, <1>3, <1>5, <1>6, <1>7, <1>8, <1>9, <1>10, <1>11, <1>12, <1>13, <1>14, <1>15
  DEF Next, HandlerStep, ThreadStep

\* A step that replaces a dataset does not go back; a restart may.
LEMMA StepServesNewer ==
    ASSUME Base, PrevInv, OrderInv, [Next]_vars, NEW k \in Keys
    PROVE  \/ data'[k] >= data[k]
           \/ faults'["crash"] > 0 /\ data'[k] = 0
           \/ faults'["crash"] > faults["crash"]
<1> USE DEF Base, TypeInv, TypeOK
<1>1. data[k] \in Nat
  BY ConstantsAssumption DEF StoresTypeOK, Versions
<1>2. ASSUME NEW p \in Threads, Serve(p)
      PROVE  data'[k] >= data[k] \/ (faults'["crash"] > 0 /\ data'[k] = 0)
  <2>1. tpc[p] = "read" /\ ttodo[p] = {} /\ faults' = faults
    BY <1>2 DEF Serve
  <2>2. CASE k \in KeysOf(tchateau[p])
    <3>1. data'[k] = Merged(p)[k]
      BY <1>2, <2>2 DEF Serve
    <3>2. Merged(p)[k] \in Nat /\ Covers(Merged(p)[k], data[k])
      BY <2>1, <2>2, MergedCovers
    <3>3. QED
      BY <1>1, <2>1, <3>1, <3>2 DEF Covers
  <2>3. CASE k \notin KeysOf(tchateau[p])
    <3>1. data'[k] = data[k]
      BY <1>2, <2>3 DEF Serve
    <3>2. QED
      BY <1>1, <3>1
  <2>4. QED
    BY <2>2, <2>3
<1>3. ASSUME Crash
      PROVE  faults'["crash"] > faults["crash"]
  BY <1>3 DEF Crash, Fault, QueueTypeOK, FaultKinds
<1>4. QED
  BY <1>1, <1>2, <1>3, OnlyServed

\* With one request per feed at a time, which is how Alpenrose sends them, what is
\* served never goes back while the process lives, for any number of feeds, tasks and
\* messages, whatever is dropped, fails or panics in between.
THEOREM ServedCorrect == ASSUME ~Overlap PROVE Spec => ServedMonotone
<1> DEFINE Newer == \A k \in Keys : \/ data'[k] >= data[k]
                                    \/ faults'["crash"] > 0 /\ data'[k] = 0
                                    \/ faults'["crash"] > faults["crash"]
<1>1. Init => Base /\ PrevInv /\ OrderInv
  BY InitTypeInv, InitLockInv, InitPrevInv, InitOrderInv DEF Base
<1>2. Base /\ PrevInv /\ OrderInv /\ [Next]_vars => (Base /\ PrevInv /\ OrderInv)'
  BY NextTypeInv, NextLockInv, NextPrevInv, NextOrderInv DEF Base
<1>3. Base /\ PrevInv /\ OrderInv /\ [Next]_vars => [Newer]_vars
  BY StepServesNewer
<1>4. QED
  BY <1>1, <1>2, <1>3, PTL DEF Spec, ServedMonotone

--------------------------------------------------------------------------------
(* What is served is what is stored.                                       *)

\* Of a chateau to which nothing is being stored and whose last wake-up was not lost:
\* the dataset is that of the store when nothing is under way or it was just replaced,
\* and a task that reads has what the store has.
FreshInv ==
    \A c \in Chateaux : c \notin lostWake /\ ~Storing(c) =>
        \A k \in KeysOf(c) : store[k] # 0 =>
            /\ c \notin marked => data[k] = store[k]
            /\ \A p \in Threads : tchateau[p] = c =>
                  /\ tpc[p] \in {"save", "clear"} => data[k] = store[k]
                  /\ tpc[p] = "read" /\ k \notin ttodo[p] => tsnap[p][k] = store[k]

LEMMA InitFreshInv == Init => FreshInv
BY DEF Init, FreshInv, NoKeys, KeysOf

\* What leaves the stores, the marks and the tasks alone, and ends no storing but of
\* chateaux whose wake-up is lost.
LEMMA SameFresh ==
    ASSUME FreshInv, UNCHANGED <<store, data, marked, tpc, tchateau, ttodo, tsnap>>,
           lostWake \subseteq lostWake',
           \A c \in Chateaux : c \notin lostWake' /\ Storing(c) => Storing(c)'
    PROVE  FreshInv'
BY DEF FreshInv, KeysOf

LEMMA NextFreshInv ==
    ASSUME Base, FreshInv, [Next]_vars
    PROVE  FreshInv'
<1> USE DEF Base, TypeInv, TypeOK
<1>1. ASSUME NEW h \in Handlers, StoreRaw(h)
      PROVE  FreshInv'
  <2> DEFINE c == ChateauOf[hfeed[h]]
  <2>1. /\ hfeed[h] \in Feeds
        /\ hpc'[h] \in {"store", "enqueue"}
        /\ hfeed' = hfeed
        /\ \A g \in Handlers : g # h => hpc'[g] = hpc[g]
        /\ UNCHANGED <<data, marked, tpc, tchateau, ttodo, tsnap, lostWake>>
    BY <1>1 DEF StoreRaw, BusyOK, HandlersTypeOK, threadVars
  <2>2. \A k \in Keys : k \notin KeysOf(c) => store'[k] = store[k]
    BY <1>1, <2>1 DEF StoreRaw, KeysOf, Keys, StoresTypeOK
  <2>3. \E g \in Handlers : hpc'[g] \in {"store", "enqueue"} /\ ChateauOf[hfeed'[g]] = c
    BY <2>1
  <2> HIDE DEF c
  <2>4. ASSUME NEW d \in Chateaux, ~Storing(d)'
        PROVE  d # c /\ ~Storing(d) /\ \A k \in KeysOf(d) : store'[k] = store[k]
    <3>1. d # c
      BY <2>3, <2>4 DEF Storing
    <3>2. ~Storing(d)
      BY <1>1, <2>1, <2>4, <3>1 DEF Storing, StoreRaw, c
    <3>3. \A k \in KeysOf(d) : k \in Keys /\ k \notin KeysOf(c)
      BY <3>1 DEF KeysOf
    <3>4. QED
      BY <2>2, <3>1, <3>2, <3>3
  <2>5. QED
    BY <2>1, <2>4 DEF FreshInv, KeysOf
<1>2. ASSUME NEW h \in Handlers, Enqueue(h)
      PROVE  FreshInv'
  <2> DEFINE c == ChateauOf[hfeed[h]]
  <2>1. /\ UNCHANGED <<store, data, tpc, tchateau, ttodo, tsnap>>
        /\ \A g \in Handlers : g # h => hpc'[g] = hpc[g] /\ hfeed'[g] = hfeed[g]
    BY <1>2 DEF Enqueue, ToIdle, HandlersTypeOK, threadVars
  <2>2. ASSUME NEW d \in Chateaux, d # c, Storing(d)
        PROVE  Storing(d)'
    BY <2>1, <2>2 DEF Storing
  <2>3. CASE c \in marked
    <3>1. lostWake' = lostWake \cup {c} /\ marked' = marked
      BY <1>2, <2>3 DEF Enqueue
    <3> HIDE DEF c
    <3>2. QED
      BY <2>1, <2>2, <3>1, SameFresh
  <2>4. CASE c \notin marked
    <3>1. lostWake' = lostWake /\ marked' = marked \cup {c}
      BY <1>2, <2>4 DEF Enqueue
    <3>2. c \in Chateaux /\ c # None /\ \A p \in Threads : tchateau[p] # c
      <4>1. c \in Chateaux
        BY <1>2, ConstantsAssumption DEF Enqueue, BusyOK
      <4>2. c # None /\ c \notin InWork
        BY <2>4, <4>1, ConstantsAssumption DEF LockInv, MarkedIsWork
      <4>3. QED
        BY <4>1, <4>2 DEF InWork
    <3> HIDE DEF c
    <3>3. ASSUME NEW d \in Chateaux, d # c, d \notin lostWake', ~Storing(d)'
          PROVE  d \notin lostWake /\ ~Storing(d)
      BY <2>2, <3>1, <3>3
    <3>4. QED
      BY <2>1, <3>1, <3>2, <3>3 DEF FreshInv, KeysOf
  <2>5. QED
    BY <2>3, <2>4
<1>3. ASSUME NEW h \in Handlers, Cancel(h)
      PROVE  FreshInv'
  <2>1. /\ UNCHANGED <<store, data, marked, tpc, tchateau, ttodo, tsnap>>
        /\ \A g \in Handlers : g # h => hpc'[g] = hpc[g] /\ hfeed'[g] = hfeed[g]
        /\ lostWake' = lostWake \cup {ChateauOf[hfeed[h]]}
    BY <1>3 DEF Cancel, ToIdle, HandlersTypeOK, threadVars, workerVars
  <2>2. \A d \in Chateaux : d \notin lostWake' /\ Storing(d) => Storing(d)'
    BY <2>1 DEF Storing
  <2>3. QED
    BY <2>1, <2>2, SameFresh
<1>4. ASSUME NEW h \in Handlers,
             Compare(h) \/ Stamp(h) \/ \E f \in Feeds, present \in SUBSET Types : Receive(h, f, present)
      PROVE  FreshInv'
  <2>1. /\ UNCHANGED <<store, data, marked, tpc, tchateau, ttodo, tsnap, lostWake>>
        /\ hpc[h] \notin {"store", "enqueue"}
        /\ \A g \in Handlers : g # h => hpc'[g] = hpc[g] /\ hfeed'[g] = hfeed[g]
    BY <1>4 DEF Compare, Stamp, StampType, Receive, ToIdle, HandlersTypeOK, threadVars, workerVars
  <2>2. \A d \in Chateaux : Storing(d) => Storing(d)'
    BY <2>1 DEF Storing
  <2>3. QED
    BY <2>1, <2>2, SameFresh
<1>5. ASSUME NEW p \in Threads, Steal(p)
      PROVE  FreshInv'
  <2> DEFINE c == Head(queue)
  <2>1. /\ UNCHANGED <<hpc, hfeed, store, data, marked, ttodo, tsnap>>
        /\ tpc' = [tpc EXCEPT ![p] = "begin"]
        /\ tchateau' = [tchateau EXCEPT ![p] = c]
        /\ lostWake' = lostWake \ {c}
        /\ queue # <<>>
    BY <1>5 DEF Steal, handlerVars
  <2>2. c \in Waiting /\ c \in marked
    <3>1. c \in Waiting
      BY <2>1 DEF QueueTypeOK, Waiting
    <3>2. QED
      BY <3>1 DEF LockInv, MarkedIsWork
  <2>3. c \in Chateaux /\ \A q \in Threads : tchateau[q] # c
    <3>1. c \in Chateaux
      BY <2>1 DEF QueueTypeOK
    <3>2. QED
      BY <2>2, <3>1, ConstantsAssumption DEF LockInv, OneTaskPerChateau, InWork
  <2> HIDE DEF c
  <2>4. \A d \in Chateaux : Storing(d)' <=> Storing(d)
    BY <2>1 DEF Storing
  <2>5. ASSUME NEW d \in Chateaux, d \notin lostWake', ~Storing(d)', d # c
        PROVE  d \notin lostWake /\ ~Storing(d)
    BY <2>1, <2>4, <2>5
  <2>6. \A q \in Threads : q # p => tpc'[q] = tpc[q] /\ tchateau'[q] = tchateau[q]
    BY <2>1 DEF ThreadsTypeOK
  <2>7. tpc'[p] = "begin" /\ tchateau'[p] = c
    BY <2>1 DEF ThreadsTypeOK
  <2>8. QED
    BY <2>1, <2>2, <2>3, <2>5, <2>6, <2>7 DEF FreshInv, KeysOf
<1>6. ASSUME NEW p \in Threads, Begin(p) \/ ReadRaw(p) \/ Fail(p) \/ Save(p) \/ Panic(p)
      PROVE  FreshInv'
  <2>1. /\ UNCHANGED <<hpc, hfeed, store, data, marked>> /\ lostWake \subseteq lostWake'
        /\ \A q \in Threads : q # p =>
              tpc'[q] = tpc[q] /\ tchateau'[q] = tchateau[q] /\ ttodo'[q] = ttodo[q] /\ tsnap'[q] = tsnap[q]
        /\ tchateau'[p] \in {tchateau[p], None}
    BY <1>6 DEF Begin, ReadRaw, Fail, Save, Panic, ThreadToIdle, ThreadsTypeOK, handlerVars, workerVars
  <2>2. \A d \in Chateaux : Storing(d)' <=> Storing(d)
    BY <2>1 DEF Storing
  <2>3. ASSUME NEW d \in Chateaux, d \notin lostWake', ~Storing(d), NEW k \in KeysOf(d), store[k] # 0,
               tchateau'[p] = d
        PROVE  /\ tpc'[p] \in {"save", "clear"} => data[k] = store[k]
               /\ tpc'[p] = "read" /\ k \notin ttodo'[p] => tsnap'[p][k] = store[k]
    <3>1. /\ tchateau[p] = d /\ d \notin lostWake /\ d # None
      BY <2>1, <2>3, ConstantsAssumption
    <3>2. /\ tpc[p] \in {"save", "clear"} => data[k] = store[k]
          /\ tpc[p] = "read" /\ k \notin ttodo[p] => tsnap[p][k] = store[k]
      BY <2>3, <3>1 DEF FreshInv
    <3>3. CASE Begin(p)
      BY <3>1, <3>3, <2>3 DEF Begin, ThreadsTypeOK
    <3>4. CASE ReadRaw(p)
      <4> DEFINE r == CHOOSE k1 \in ttodo[p] : TRUE
      <4>1. /\ tpc' = tpc /\ tpc[p] = "read"
            /\ tsnap' = [tsnap EXCEPT ![p][r] = store[r]]
            /\ ttodo' = [ttodo EXCEPT ![p] = @ \ {r}]
        BY <3>4 DEF ReadRaw
      <4>2. k \in Keys
        BY DEF KeysOf
      <4> HIDE DEF r
      <4>3. tsnap'[p][k] = IF k = r THEN store[r] ELSE tsnap[p][k]
        BY <4>1, <4>2 DEF ThreadsTypeOK
      <4>4. QED
        BY <3>2, <4>1, <4>3 DEF ThreadsTypeOK
    <3>5. CASE Fail(p)
      BY <2>3, <3>1, <3>5 DEF Fail
    <3>6. CASE Save(p)
      BY <3>2, <3>6 DEF Save, ThreadsTypeOK
    <3>7. CASE Panic(p)
      BY <3>7 DEF Panic, ThreadToIdle, ThreadsTypeOK
    <3>8. QED
      BY <1>6, <3>3, <3>4, <3>5, <3>6, <3>7
  <2>4. QED
    BY <2>1, <2>2, <2>3 DEF FreshInv, KeysOf
<1>7. ASSUME NEW p \in Threads, Serve(p)
      PROVE  FreshInv'
  <2> DEFINE c == tchateau[p]
  <2>1. /\ UNCHANGED <<hpc, hfeed, store, marked, lostWake, tchateau, ttodo>>
        /\ tpc[p] = "read" /\ ttodo[p] = {}
        /\ tpc' = [tpc EXCEPT ![p] = "save"]
        /\ \A q \in Threads : q # p => tsnap'[q] = tsnap[q]
        /\ \A k \in KeysOf(c) : data'[k] = Merged(p)[k]
        /\ \A k \in Keys : k \notin KeysOf(c) => data'[k] = data[k]
    BY <1>7 DEF Serve, handlerVars, ThreadsTypeOK, KeysOf
  <2>2. c \in Chateaux /\ c # None /\ c \in marked
    BY <2>1, BusyTask DEF LockInv, MarkedIsWork, InWork
  <2>3. \A q \in Threads : tchateau[q] = c => q = p
    BY <2>2 DEF LockInv, OneTaskPerChateau
  <2>4. ASSUME NEW k \in KeysOf(c), tsnap[p][k] = store[k], store[k] # 0
        PROVE  data'[k] = store[k]
    BY <2>1, <2>4 DEF Merged, KeysOf
  <2>5. \A d \in Chateaux : d # c => \A k \in KeysOf(d) : data'[k] = data[k]
    BY <2>1 DEF KeysOf
  <2>6. \A d \in Chateaux : Storing(d)' <=> Storing(d)
    BY <2>1 DEF Storing
  <2> HIDE DEF c
  <2>7. ASSUME NEW d \in Chateaux, d \notin lostWake, ~Storing(d), NEW k \in KeysOf(d), store[k] # 0
        PROVE  /\ d \notin marked => data'[k] = store[k]
               /\ \A q \in Threads : tchateau[q] = d =>
                     /\ tpc'[q] \in {"save", "clear"} => data'[k] = store[k]
                     /\ tpc'[q] = "read" /\ k \notin ttodo[q] => tsnap'[q][k] = store[k]
    <3>1. CASE d = c
      <4>1. tsnap[p][k] = store[k]
        BY <2>1, <2>7, <3>1 DEF FreshInv, c
      <4>2. data'[k] = store[k]
        BY <2>4, <2>7, <3>1, <4>1
      <4>3. QED
        BY <2>1, <2>2, <2>3, <3>1, <4>2 DEF ThreadsTypeOK
    <3>2. CASE d # c
      <4>1. \A q \in Threads : tchateau[q] = d => q # p
        BY <3>2 DEF c
      <4>2. data'[k] = data[k]
        BY <2>5, <3>2
      <4>3. QED
        BY <2>1, <2>7, <4>1, <4>2 DEF FreshInv, ThreadsTypeOK
    <3>3. QED
      BY <3>1, <3>2
  <2>8. QED
    BY <2>1, <2>6, <2>7 DEF FreshInv, KeysOf
<1>8. ASSUME NEW p \in Threads, Clear(p)
      PROVE  FreshInv'
  <2> DEFINE c == tchateau[p]
  <2>1. /\ UNCHANGED <<hpc, hfeed, store, data, lostWake>>
        /\ tpc[p] = "clear" /\ marked' = marked \ {c}
        /\ tchateau'[p] = None
        /\ \A q \in Threads : q # p =>
              tpc'[q] = tpc[q] /\ tchateau'[q] = tchateau[q] /\ ttodo'[q] = ttodo[q] /\ tsnap'[q] = tsnap[q]
    BY <1>8 DEF Clear, ThreadToIdle, ThreadsTypeOK, handlerVars
  <2>2. \A d \in Chateaux : (Storing(d)' <=> Storing(d)) /\ d # None
    BY <2>1, ConstantsAssumption DEF Storing
  <2>3. QED
    BY <2>1, <2>2 DEF FreshInv, KeysOf
<1>9. ASSUME Crash
      PROVE  FreshInv'
  BY <1>9 DEF Crash, FreshInv, KeysOf, NoKeys
<1>10. ASSUME (\E f \in Feeds : Publish(f)) \/ (\E c \in Chateaux : GraceEnds(c)) \/ UNCHANGED vars
       PROVE  FreshInv'
  <2>1. UNCHANGED <<hpc, hfeed, store, data, marked, tpc, tchateau, ttodo, tsnap, lostWake>>
    BY <1>10 DEF Publish, GraceEnds, vars, handlerVars, threadVars, workerVars
  <2>2. \A d \in Chateaux : Storing(d) => Storing(d)'
    BY <2>1 DEF Storing
  <2>3. QED
    BY <2>1, <2>2, SameFresh
<1>11. QED
  BY <1>1, <1>2, <1>3, <1>4, <1>5, <1>6, <1>7, <1>8, <1>9, <1>10
  DEF Next, HandlerStep, ThreadStep

\* Between requests and tasks the served data is the raw data unless a wake-up was lost,
\* for any number of feeds, requests at once and tasks: the three ways to lose one are all
\* there are.
THEOREM FreshCorrect == Spec => []FreshUnlessLost
<1>1. Init => Base /\ FreshInv
  BY InitTypeInv, InitLockInv, InitFreshInv DEF Base
<1>2. Base /\ FreshInv /\ [Next]_vars => (Base /\ FreshInv)'
  BY NextTypeInv, NextLockInv, NextFreshInv DEF Base
<1>3. FreshInv => FreshUnlessLost
  BY DEF FreshInv, FreshUnlessLost
<1>4. QED
  BY <1>1, <1>2, <1>3, PTL DEF Spec

================================================================================
