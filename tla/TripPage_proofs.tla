----------------------------- MODULE TripPage_proofs ---------------------------
(* What Aspen makes of the messages and Birch of a request, for all cases  *)
(* that satisfy the assumptions: the updates served are whole and listed   *)
(* under their trips, none loses a stop it has passed, and a page shows    *)
(* every visit of its trip.                                                *)
EXTENDS TripPage, StaticImport_proofs

--------------------------------------------------------------------------------
(* The folds of AspenData, each as the row of its results.                 *)

AddUpdates(d, list, stamp, calendars, dates) ==
    FoldLeft(LAMBDA e, u : AddUpdate(e, u, stamp, calendars, dates), d, list)

AddMods(d, list) == FoldLeft(AddMod, d, list)

\* What a pass makes of a feed.
AddFeed(d, f, calendars, dates) == IF Told(f) THEN AddMessage(d, Message(f), calendars, dates) ELSE d

AddFeeds(d, list, calendars, dates) ==
    FoldLeft(LAMBDA e, f : IF Told(f) THEN AddMessage(e, Message(f), calendars, dates) ELSE e, d, list)

KeepAll(d, list) == FoldLeft(Keep, d, list)

\* f[m] is the result of a fold on the first m elements of its list.
IsRowOfUpdates(f, d, list, stamp, calendars, dates) ==
    /\ f[0] = d /\ f[Len(list)] = AddUpdates(d, list, stamp, calendars, dates)
    /\ \A m \in 1..Len(list) : f[m] = AddUpdate(f[m - 1], list[m], stamp, calendars, dates)

IsRowOfMods(f, d, list) ==
    /\ f[0] = d /\ f[Len(list)] = AddMods(d, list)
    /\ \A m \in 1..Len(list) : f[m] = AddMod(f[m - 1], list[m])

IsRowOfFeeds(f, d, list, calendars, dates) ==
    /\ f[0] = d /\ f[Len(list)] = AddFeeds(d, list, calendars, dates)
    /\ \A m \in 1..Len(list) : f[m] = AddFeed(f[m - 1], list[m], calendars, dates)

IsRowOfKept(f, d, list) ==
    /\ f[0] = d /\ f[Len(list)] = KeepAll(d, list)
    /\ \A m \in 1..Len(list) : f[m] = Keep(f[m - 1], list[m])

(* Such a row there is: FoldLeft counts down the list, so the row is found *)
(* by counting up.                                                         *)
LEMMA RowOfUpdates ==
  ASSUME NEW d, NEW list, NEW stamp, NEW calendars, NEW dates, IsList(list)
  PROVE  \E f : IsRowOfUpdates(f, d, list, stamp, calendars, dates)
<1> DEFINE n == Len(list)
           Body(g, s) == IF s = {} THEN d ELSE AddUpdate(g[s \ {Max(s)}], list[Max(s)], stamp, calendars, dates)
           Is(g, m) == g = [s \in SUBSET (1..m) |-> Body(g, s)]
           iter == CHOOSE g : g = [s \in SUBSET DOMAIN list |-> Body(g, s)]
           T == {m \in 0..n : \E g : Is(g, m)}
           f == [m \in 0..n |-> iter[1..m]]
<1>1. n \in Nat /\ DOMAIN list = 1..n
  BY DEF IsList
<1>2. 0 \in T
  <2>1. SUBSET (1..0) = {{}}
    OBVIOUS
  <2>2. Is([s \in {{}} |-> d], 0)
    BY <2>1
  <2> HIDE DEF Is
  <2> QED
    BY <1>1, <2>2
<1>3. ASSUME NEW m \in 1..n, m - 1 \in T
      PROVE  m \in T
  <2>1. PICK g : Is(g, m - 1)
    BY <1>3
  <2> DEFINE v == [s \in SUBSET (1..(m - 1)) |-> AddUpdate(g[s], list[m], stamp, calendars, dates)]
  <2>2. PICK h : Continues(h, g, v, m)
    <3> HIDE DEF n, v
    <3> QED
      BY <1>1, Continued
  <2>3. {} \in SUBSET (1..(m - 1))
    OBVIOUS
  <2>4. \A s \in SUBSET (1..(m - 1)) : g[s] = Body(g, s)
    BY <2>1
  <2>5. ASSUME NEW s \in SUBSET (1..m)
        PROVE  h[s] = Body(h, s)
    BY <2>2, <2>3, <2>4 DEF Continues
  <2>6. Is(h, m)
    BY <2>2, <2>5 DEF Continues
  <2> HIDE DEF Is
  <2> QED
    BY <1>1, <2>6
<1>4. n \in T
  <2> HIDE DEF T, n
  <2> QED
    BY <1>1, <1>2, <1>3, CountUp
<1>5. \A s \in SUBSET (1..n) : iter[s] = Body(iter, s)
  <2>1. Is(iter, n)
    BY <1>1, <1>4
  <2> HIDE DEF iter
  <2> QED
    BY <2>1
<1>6. f[n] = AddUpdates(d, list, stamp, calendars, dates)
  BY <1>1 DEF AddUpdates, FoldLeft, MapThenFoldSet
<1>7. f[0] = d
  <2>1. 1..0 = {} /\ 0 \in 0..n
    BY <1>1
  <2> HIDE DEF iter
  <2> QED
    BY <1>5, <2>1
<1>8. ASSUME NEW m \in 1..n
      PROVE  f[m] = AddUpdate(f[m - 1], list[m], stamp, calendars, dates)
  <2>1. f[m] = iter[1..m] /\ f[m - 1] = iter[1..(m - 1)]
    BY <1>1
  <2>2. /\ Max(1..m) = m /\ (1..m) \ {m} = 1..(m - 1)
        /\ 1..m \in SUBSET (1..n) /\ 1..m # {}
    <3> HIDE DEF n
    <3> QED
      BY <1>1, FirstNumbers, Zenon
  <2> HIDE DEF iter, f, n
  <2> QED
    BY <1>5, <2>1, <2>2
<1> HIDE DEF f
<1> QED
  BY <1>6, <1>7, <1>8 DEF IsRowOfUpdates

(* The same, of the modifications of a message.                            *)
LEMMA RowOfMods ==
  ASSUME NEW d, NEW list, IsList(list)
  PROVE  \E f : IsRowOfMods(f, d, list)
<1> DEFINE n == Len(list)
           Body(g, s) == IF s = {} THEN d ELSE AddMod(g[s \ {Max(s)}], list[Max(s)])
           Is(g, m) == g = [s \in SUBSET (1..m) |-> Body(g, s)]
           iter == CHOOSE g : g = [s \in SUBSET DOMAIN list |-> Body(g, s)]
           T == {m \in 0..n : \E g : Is(g, m)}
           f == [m \in 0..n |-> iter[1..m]]
<1>1. n \in Nat /\ DOMAIN list = 1..n
  BY DEF IsList
<1>2. 0 \in T
  <2>1. SUBSET (1..0) = {{}}
    OBVIOUS
  <2>2. Is([s \in {{}} |-> d], 0)
    BY <2>1
  <2> HIDE DEF Is
  <2> QED
    BY <1>1, <2>2
<1>3. ASSUME NEW m \in 1..n, m - 1 \in T
      PROVE  m \in T
  <2>1. PICK g : Is(g, m - 1)
    BY <1>3
  <2> DEFINE v == [s \in SUBSET (1..(m - 1)) |-> AddMod(g[s], list[m])]
  <2>2. PICK h : Continues(h, g, v, m)
    <3> HIDE DEF n, v
    <3> QED
      BY <1>1, Continued
  <2>3. {} \in SUBSET (1..(m - 1))
    OBVIOUS
  <2>4. \A s \in SUBSET (1..(m - 1)) : g[s] = Body(g, s)
    BY <2>1
  <2>5. ASSUME NEW s \in SUBSET (1..m)
        PROVE  h[s] = Body(h, s)
    BY <2>2, <2>3, <2>4 DEF Continues
  <2>6. Is(h, m)
    BY <2>2, <2>5 DEF Continues
  <2> HIDE DEF Is
  <2> QED
    BY <1>1, <2>6
<1>4. n \in T
  <2> HIDE DEF T, n
  <2> QED
    BY <1>1, <1>2, <1>3, CountUp
<1>5. \A s \in SUBSET (1..n) : iter[s] = Body(iter, s)
  <2>1. Is(iter, n)
    BY <1>1, <1>4
  <2> HIDE DEF iter
  <2> QED
    BY <2>1
<1>6. f[n] = AddMods(d, list)
  BY <1>1 DEF AddMods, FoldLeft, MapThenFoldSet
<1>7. f[0] = d
  <2>1. 1..0 = {} /\ 0 \in 0..n
    BY <1>1
  <2> HIDE DEF iter
  <2> QED
    BY <1>5, <2>1
<1>8. ASSUME NEW m \in 1..n
      PROVE  f[m] = AddMod(f[m - 1], list[m])
  <2>1. f[m] = iter[1..m] /\ f[m - 1] = iter[1..(m - 1)]
    BY <1>1
  <2>2. /\ Max(1..m) = m /\ (1..m) \ {m} = 1..(m - 1)
        /\ 1..m \in SUBSET (1..n) /\ 1..m # {}
    <3> HIDE DEF n
    <3> QED
      BY <1>1, FirstNumbers, Zenon
  <2> HIDE DEF iter, f, n
  <2> QED
    BY <1>5, <2>1, <2>2
<1> HIDE DEF f
<1> QED
  BY <1>6, <1>7, <1>8 DEF IsRowOfMods

(* The same, of the messages of the feeds.                                 *)
LEMMA RowOfFeeds ==
  ASSUME NEW d, NEW list, NEW calendars, NEW dates, IsList(list)
  PROVE  \E f : IsRowOfFeeds(f, d, list, calendars, dates)
<1> DEFINE n == Len(list)
           Body(g, s) == IF s = {} THEN d ELSE AddFeed(g[s \ {Max(s)}], list[Max(s)], calendars, dates)
           Is(g, m) == g = [s \in SUBSET (1..m) |-> Body(g, s)]
           iter == CHOOSE g : g = [s \in SUBSET DOMAIN list |-> Body(g, s)]
           T == {m \in 0..n : \E g : Is(g, m)}
           f == [m \in 0..n |-> iter[1..m]]
<1>1. n \in Nat /\ DOMAIN list = 1..n
  BY DEF IsList
<1>2. 0 \in T
  <2>1. SUBSET (1..0) = {{}}
    OBVIOUS
  <2>2. Is([s \in {{}} |-> d], 0)
    BY <2>1
  <2> HIDE DEF Is
  <2> QED
    BY <1>1, <2>2
<1>3. ASSUME NEW m \in 1..n, m - 1 \in T
      PROVE  m \in T
  <2>1. PICK g : Is(g, m - 1)
    BY <1>3
  <2> DEFINE v == [s \in SUBSET (1..(m - 1)) |-> AddFeed(g[s], list[m], calendars, dates)]
  <2>2. PICK h : Continues(h, g, v, m)
    <3> HIDE DEF n, v
    <3> QED
      BY <1>1, Continued
  <2>3. {} \in SUBSET (1..(m - 1))
    OBVIOUS
  <2>4. \A s \in SUBSET (1..(m - 1)) : g[s] = Body(g, s)
    BY <2>1
  <2>5. ASSUME NEW s \in SUBSET (1..m)
        PROVE  h[s] = Body(h, s)
    BY <2>2, <2>3, <2>4 DEF Continues
  <2>6. Is(h, m)
    BY <2>2, <2>5 DEF Continues
  <2> HIDE DEF Is
  <2> QED
    BY <1>1, <2>6
<1>4. n \in T
  <2> HIDE DEF T, n
  <2> QED
    BY <1>1, <1>2, <1>3, CountUp
<1>5. \A s \in SUBSET (1..n) : iter[s] = Body(iter, s)
  <2>1. Is(iter, n)
    BY <1>1, <1>4
  <2> HIDE DEF iter
  <2> QED
    BY <2>1
<1>6. f[n] = AddFeeds(d, list, calendars, dates)
  BY <1>1 DEF AddFeeds, AddFeed, FoldLeft, MapThenFoldSet
<1>7. f[0] = d
  <2>1. 1..0 = {} /\ 0 \in 0..n
    BY <1>1
  <2> HIDE DEF iter
  <2> QED
    BY <1>5, <2>1
<1>8. ASSUME NEW m \in 1..n
      PROVE  f[m] = AddFeed(f[m - 1], list[m], calendars, dates)
  <2>1. f[m] = iter[1..m] /\ f[m - 1] = iter[1..(m - 1)]
    BY <1>1
  <2>2. /\ Max(1..m) = m /\ (1..m) \ {m} = 1..(m - 1)
        /\ 1..m \in SUBSET (1..n) /\ 1..m # {}
    <3> HIDE DEF n
    <3> QED
      BY <1>1, FirstNumbers, Zenon
  <2> HIDE DEF iter, f, n
  <2> QED
    BY <1>5, <2>1, <2>2
<1> HIDE DEF f
<1> QED
  BY <1>6, <1>7, <1>8 DEF IsRowOfFeeds

(* The same, of the updates that are kept.                                 *)
LEMMA RowOfKept ==
  ASSUME NEW d, NEW list, IsList(list)
  PROVE  \E f : IsRowOfKept(f, d, list)
<1> DEFINE n == Len(list)
           Body(g, s) == IF s = {} THEN d ELSE Keep(g[s \ {Max(s)}], list[Max(s)])
           Is(g, m) == g = [s \in SUBSET (1..m) |-> Body(g, s)]
           iter == CHOOSE g : g = [s \in SUBSET DOMAIN list |-> Body(g, s)]
           T == {m \in 0..n : \E g : Is(g, m)}
           f == [m \in 0..n |-> iter[1..m]]
<1>1. n \in Nat /\ DOMAIN list = 1..n
  BY DEF IsList
<1>2. 0 \in T
  <2>1. SUBSET (1..0) = {{}}
    OBVIOUS
  <2>2. Is([s \in {{}} |-> d], 0)
    BY <2>1
  <2> HIDE DEF Is
  <2> QED
    BY <1>1, <2>2
<1>3. ASSUME NEW m \in 1..n, m - 1 \in T
      PROVE  m \in T
  <2>1. PICK g : Is(g, m - 1)
    BY <1>3
  <2> DEFINE v == [s \in SUBSET (1..(m - 1)) |-> Keep(g[s], list[m])]
  <2>2. PICK h : Continues(h, g, v, m)
    <3> HIDE DEF n, v
    <3> QED
      BY <1>1, Continued
  <2>3. {} \in SUBSET (1..(m - 1))
    OBVIOUS
  <2>4. \A s \in SUBSET (1..(m - 1)) : g[s] = Body(g, s)
    BY <2>1
  <2>5. ASSUME NEW s \in SUBSET (1..m)
        PROVE  h[s] = Body(h, s)
    BY <2>2, <2>3, <2>4 DEF Continues
  <2>6. Is(h, m)
    BY <2>2, <2>5 DEF Continues
  <2> HIDE DEF Is
  <2> QED
    BY <1>1, <2>6
<1>4. n \in T
  <2> HIDE DEF T, n
  <2> QED
    BY <1>1, <1>2, <1>3, CountUp
<1>5. \A s \in SUBSET (1..n) : iter[s] = Body(iter, s)
  <2>1. Is(iter, n)
    BY <1>1, <1>4
  <2> HIDE DEF iter
  <2> QED
    BY <2>1
<1>6. f[n] = KeepAll(d, list)
  BY <1>1 DEF KeepAll, FoldLeft, MapThenFoldSet
<1>7. f[0] = d
  <2>1. 1..0 = {} /\ 0 \in 0..n
    BY <1>1
  <2> HIDE DEF iter
  <2> QED
    BY <1>5, <2>1
<1>8. ASSUME NEW m \in 1..n
      PROVE  f[m] = Keep(f[m - 1], list[m])
  <2>1. f[m] = iter[1..m] /\ f[m - 1] = iter[1..(m - 1)]
    BY <1>1
  <2>2. /\ Max(1..m) = m /\ (1..m) \ {m} = 1..(m - 1)
        /\ 1..m \in SUBSET (1..n) /\ 1..m # {}
    <3> HIDE DEF n
    <3> QED
      BY <1>1, FirstNumbers, Zenon
  <2> HIDE DEF iter, f, n
  <2> QED
    BY <1>5, <2>1, <2>2
<1> HIDE DEF f
<1> QED
  BY <1>6, <1>7, <1>8 DEF IsRowOfKept

--------------------------------------------------------------------------------
(* Lists and indexes.                                                      *)

(* Sorting takes no number away: the one at n is that of rank n.           *)
LEMMA SortedHas ==
  ASSUME NEW S \in SUBSET Int, IsFiniteSet(S)
  PROVE  Sorted(S) \in Seq(S) /\ Range(Sorted(S)) = S
<1> DEFINE C == 1..Cardinality(S)
           rank == [k \in S |-> Rank(S, k)]
           at == [n \in C |-> CHOOSE k \in S : Rank(S, k) = n]
<1>1. Cardinality(S) \in Nat /\ rank \in Injection(S, C)
  <2> HIDE DEF C
  <2>1. /\ Cardinality(S) \in Nat
        /\ \A k \in S : Rank(S, k) \in C
        /\ \A j, k \in S : Rank(S, j) = Rank(S, k) => j = k
    BY RanksAre DEF C
  <2> QED
    BY <2>1 DEF Injection, IsInjective
<1>2. IsFiniteSet(C) /\ Cardinality(C) = Cardinality(S)
  BY <1>1, FS_Interval
<1>3. rank \in Surjection(S, C)
  <2> HIDE DEF C, rank
  <2> QED
    BY <1>1, <1>2, FS_Injection
<1>4. \A n \in C : \E k \in S : Rank(S, k) = n
  BY <1>3 DEF Surjection
<1>5. \A n \in C : at[n] \in S /\ Rank(S, at[n]) = n
  BY <1>4
<1>6. \A k \in S : Rank(S, k) \in C /\ at[Rank(S, k)] = k
  <2> HIDE DEF at, C
  <2>1. \A k \in S : rank[k] \in C /\ rank[k] = Rank(S, k)
    BY <1>1 DEF Injection
  <2>2. \A j, k \in S : Rank(S, j) = Rank(S, k) => j = k
    BY RanksAre
  <2> QED
    BY <1>5, <2>1, <2>2
<1>7. Sorted(S) = at /\ DOMAIN at = C /\ at = [n \in C |-> at[n]]
  BY DEF Sorted
<1> HIDE DEF at
<1>8. at \in Seq(S)
  <2>1. at \in [C -> S]
    <3> HIDE DEF C
    <3> QED
      BY <1>5, <1>7
  <2> QED
    BY <1>1, <2>1
<1> QED
  BY <1>5, <1>6, <1>7, <1>8 DEF Range

(* What two lists hold one behind the other.                               *)
LEMMA RangeOfBoth ==
  ASSUME NEW a, NEW b, IsList(a), IsList(b)
  PROVE  IsList(a \o b) /\ Range(a \o b) = Range(a) \cup Range(b)
<1> DEFINE S == Range(a) \cup Range(b)
           c == a \o b
<1>1. a \in Seq(S) /\ b \in Seq(S)
  BY SeqMonotonic DEF IsList
<1>2. /\ c \in Seq(S) /\ Len(c) = Len(a) + Len(b)
      /\ \A i \in 1..(Len(a) + Len(b)) : c[i] = IF i <= Len(a) THEN a[i] ELSE b[i - Len(a)]
  <2> HIDE DEF S
  <2> QED
    BY <1>1, ConcatProperties
<1>3. /\ Len(a) \in Nat /\ Len(b) \in Nat
      /\ DOMAIN a = 1..Len(a) /\ DOMAIN b = 1..Len(b)
  BY <1>1
<1>4. DOMAIN c = 1..Len(c) /\ Len(c) \in Nat
  BY <1>2
<1> HIDE DEF c
<1>5. \A i \in 1..Len(a) : i \in DOMAIN c /\ c[i] = a[i]
  BY <1>2, <1>3, <1>4
<1>6. ASSUME NEW i \in 1..Len(b)
      PROVE  i + Len(a) \in DOMAIN c /\ c[i + Len(a)] = b[i]
  <2>1. /\ i + Len(a) \in 1..(Len(a) + Len(b)) /\ ~(i + Len(a) <= Len(a))
        /\ (i + Len(a)) - Len(a) = i
    BY <1>3
  <2> QED
    BY <1>2, <1>4, <2>1
<1>7. \A i \in DOMAIN c : c[i] \in S
  BY <1>2, <1>4
<1>8. \A x \in S : \E i \in DOMAIN c : c[i] = x
  BY <1>3, <1>5, <1>6 DEF Range
<1>9. Range(c) = S
  BY <1>7, <1>8 DEF Range
<1> QED
  BY <1>2, <1>9 DEF IsList, c

\* The ids of an index are numbers that some update has.
IsIndex(index, ids) ==
    \A t \in DOMAIN index : index[t] \in Seq(Int) /\ Range(index[t]) \subseteq ids

(* A pushed id is listed under its key, with all that was listed before.   *)
LEMMA PushIs ==
  ASSUME NEW index, NEW ids, IsIndex(index, ids), NEW key, NEW id \in Int, id \in ids
  PROVE  /\ IsIndex(Push(index, key, id), ids)
         /\ \A t : Range(At(index, t)) \subseteq Range(At(Push(index, key, id), t))
         /\ key # NoText => id \in Range(At(Push(index, key, id), key))
<1> DEFINE list == At(index, key)
           longer == Append(list, id)
           new == Push(index, key, id)
<1>1. list \in Seq(Int) /\ Range(list) \subseteq ids
  <2>1. CASE key \in DOMAIN index
    BY <2>1 DEF At, IsIndex
  <2>2. CASE key \notin DOMAIN index
    <3>1. list = <<>> /\ list \in Seq(Int) /\ DOMAIN list = {}
      BY <2>2 DEF At
    <3> HIDE DEF list
    <3> QED
      BY <3>1 DEF Range
  <2> QED
    BY <2>1, <2>2
<1>2. longer \in Seq(Int) /\ Range(longer) = Range(list) \cup {id}
  <2> HIDE DEF list
  <2>1. longer \in Seq(Int) /\ Len(longer) = Len(list) + 1 /\ Len(list) \in Nat
    BY <1>1
  <2>2. \A k \in 1..Len(longer) : longer[k] = IF k = Len(longer) THEN id ELSE list[k]
    BY <1>1, <2>1
  <2>3. DOMAIN longer = 1..Len(longer) /\ DOMAIN list = 1..Len(list)
    BY <1>1, <2>1
  <2> HIDE DEF longer
  <2> QED
    BY <2>1, <2>2, <2>3 DEF Range
<1>3. CASE key = NoText
  BY <1>3 DEF Push
<1>4. CASE key # NoText
  <2> HIDE DEF longer, list
  <2>1. new = Put(index, key, longer)
    BY <1>4 DEF Push, longer, list
  <2>2. /\ DOMAIN new = DOMAIN index \cup {key}
        /\ \A t \in DOMAIN new : new[t] = IF t = key THEN longer ELSE index[t]
    BY <2>1 DEF Put
  <2> HIDE DEF new
  <2>3. \A t : At(new, t) = IF t = key THEN longer ELSE At(index, t)
    BY <2>2 DEF At
  <2>4. IsIndex(new, ids)
    BY <1>1, <1>2, <2>2 DEF IsIndex
  <2> QED
    BY <1>2, <2>3, <2>4 DEF list, new
<1> QED
  BY <1>3, <1>4

(* An update is pushed under its trip and two others.                      *)
LEMMA PushedThrice ==
  ASSUME NEW index, NEW ids, IsIndex(index, ids), NEW a, NEW b, NEW c, NEW id \in Int, id \in ids
  PROVE  LET new == Push(Push(Push(index, a, id), b, id), c, id)
         IN  /\ IsIndex(new, ids)
             /\ \A t : Range(At(index, t)) \subseteq Range(At(new, t))
             /\ \A t \in {a, b, c} : t # NoText => id \in Range(At(new, t))
<1> DEFINE one == Push(index, a, id)
           two == Push(one, b, id)
           new == Push(two, c, id)
<1>1. /\ IsIndex(one, ids) /\ \A t : Range(At(index, t)) \subseteq Range(At(one, t))
      /\ a # NoText => id \in Range(At(one, a))
  <2> HIDE DEF one
  <2> QED
    BY PushIs DEF one
<1>2. /\ IsIndex(two, ids) /\ \A t : Range(At(one, t)) \subseteq Range(At(two, t))
      /\ b # NoText => id \in Range(At(two, b))
  <2> HIDE DEF one
  <2> QED
    BY <1>1, PushIs
<1>3. /\ IsIndex(new, ids) /\ \A t : Range(At(two, t)) \subseteq Range(At(new, t))
      /\ c # NoText => id \in Range(At(new, c))
  <2> HIDE DEF two
  <2> QED
    BY <1>2, PushIs
<1> HIDE DEF one, two, new
<1>4. /\ IsIndex(new, ids)
      /\ \A t : Range(At(index, t)) \subseteq Range(At(new, t))
      /\ \A t \in {a, b, c} : t # NoText => id \in Range(At(new, t))
  BY <1>1, <1>2, <1>3
<1> QED
  BY <1>4 DEF one, two, new

--------------------------------------------------------------------------------
(* Datasets.                                                               *)

\* Each update with a trip is listed under it.
IsListed(d) ==
    \A id \in DOMAIN d.updates :
        d.updates[id].trip # NoText => id \in Range(At(d.byTrip, d.updates[id].trip))

AreStops(stops) == IsList(stops) /\ \A s \in Range(stops) : "stop" \in DOMAIN s

\* Modifications with their changes, and lists of their ids.
IsMod(mod) == IsList(mod.changes) /\ \A c \in Range(mod.changes) : c.delay \in Int

AreMods(mods, index) ==
    /\ \A id \in DOMAIN mods : IsMod(mods[id])
    /\ \A trip \in DOMAIN index : index[trip] \in Seq(DOMAIN mods)

MadeFields == {"updates", "byTrip", "mods", "modsByTrip"}

IsMade(d) ==
    /\ MadeFields \subseteq DOMAIN d
    /\ AreMods(d.mods, d.modsByTrip)
    /\ IsFiniteSet(DOMAIN d.updates) /\ DOMAIN d.updates \subseteq Int
    /\ \A id \in DOMAIN d.updates : AreStops(d.updates[id].stops)
    /\ IsIndex(d.byTrip, DOMAIN d.updates)
    /\ IsListed(d)

\* No stop is lost of an update of which there was one.
CarriesOn(d) ==
    \A id \in DOMAIN served.updates \cap DOMAIN d.updates :
        (Descriptor(served.updates[id]) = Descriptor(d.updates[id]) /\ IsOnlyOne(id)) =>
            StopIds(served.updates[id].stops) \subseteq StopIds(d.updates[id].stops)

\* A list of the messages as the code reads them.
IsUpdate(u) == UpdateFields \subseteq DOMAIN u /\ u.id \in Int /\ AreStops(u.stops)

(* The stops of the update before that are not in the new one are put      *)
(* before its stops, so none is missing.                                   *)
LEMMA StopsStay ==
  ASSUME IsMade(served), NEW u, NEW new, AreStops(new)
  PROVE  /\ AreStops(OldStops(u, new) \o new)
         /\ StopIds(StopsBefore(u)) \subseteq StopIds(OldStops(u, new) \o new)
<1> DEFINE before == StopsBefore(u)
           left == {k \in DOMAIN before : before[k].stop # NoText /\ before[k].stop \notin StopIds(new)}
           gone == Sorted(left)
           old == OldStops(u, new)
           stops == old \o new
<1>1. IsList(before) /\ \A k \in DOMAIN before : "stop" \in DOMAIN before[k]
  <2> DEFINE ids == At(served.byTrip, u.trip)
  <2>1. CASE \E k \in OfTheRun(u) : OfTheRun(u) = {k}
    <3>1. PICK k \in OfTheRun(u) : k = CHOOSE j \in OfTheRun(u) : TRUE
      BY <2>1
    <3>2. k \in DOMAIN ids /\ before = served.updates[ids[k]].stops
      BY <2>1, <3>1 DEF OfTheRun, StopsBefore
    <3>3. ids[k] \in DOMAIN served.updates
      <4>1. CASE u.trip \in DOMAIN served.byTrip
        BY <3>2, <4>1 DEF IsMade, IsIndex, At, Range
      <4>2. CASE u.trip \notin DOMAIN served.byTrip
        <5>1. ids = <<>> /\ DOMAIN ids = {}
          BY <4>2 DEF At
        <5> QED
          BY <3>2, <5>1
      <4> QED
        BY <4>1, <4>2
    <3> QED
      BY <3>2, <3>3 DEF IsMade, AreStops, Range
  <2>2. CASE ~ \E k \in OfTheRun(u) : OfTheRun(u) = {k}
    <3>1. before = <<>> /\ DOMAIN before = {}
      BY <2>2 DEF StopsBefore
    <3> HIDE DEF before
    <3> QED
      BY <3>1 DEF IsList
  <2> QED
    BY <2>1, <2>2
<1>2. left \in SUBSET Int /\ IsFiniteSet(left)
  <2> HIDE DEF before
  <2>1. Len(before) \in Nat /\ DOMAIN before = 1..Len(before)
    BY <1>1 DEF IsList
  <2>2. IsFiniteSet(1..Len(before)) /\ left \in SUBSET (1..Len(before)) /\ left \in SUBSET Int
    BY <2>1, FS_Interval
  <2> HIDE DEF left
  <2> QED
    BY <2>2, FS_Subset
<1>3. gone \in Seq(left) /\ Range(gone) = left
  <2> HIDE DEF left
  <2> QED
    BY <1>2, SortedHas
<1>4. old = [n \in DOMAIN gone |-> [before[gone[n]] EXCEPT !.old = TRUE]]
  BY DEF OldStops
<1> HIDE DEF gone, old
<1>5. Len(gone) \in Nat /\ DOMAIN gone = 1..Len(gone)
  BY <1>3
<1>6. IsList(old) /\ DOMAIN old = 1..Len(gone)
  <2>1. DOMAIN old = 1..Len(gone) /\ \A n \in 1..Len(gone) : old[n] \in Range(old)
    BY <1>4, <1>5 DEF Range
  <2>2. old = [n \in 1..Len(gone) |-> old[n]]
    BY <1>4, <2>1
  <2> QED
    BY <1>5, <2>1, <2>2 DEF IsList
<1>7. /\ \A n \in DOMAIN gone : gone[n] \in left
      /\ \A k \in left : \E n \in DOMAIN gone : gone[n] = k
  BY <1>3, <1>5 DEF Range
<1>8. \A n \in DOMAIN old : old[n].stop = before[gone[n]].stop /\ "stop" \in DOMAIN old[n]
  <2> HIDE DEF before
  <2>1. \A n \in DOMAIN gone : gone[n] \in DOMAIN before
    BY <1>7
  <2> QED
    BY <1>1, <1>4, <1>5, <1>6, <2>1
<1>9. /\ IsList(stops)
      /\ Range(stops) = Range(old) \cup Range(new)
  BY <1>6, RangeOfBoth DEF AreStops
<1>10. ASSUME NEW k \in DOMAIN before, before[k].stop # NoText
       PROVE  before[k].stop \in StopIds(stops)
  <2>1. CASE before[k].stop \in StopIds(new)
    BY <1>9, <2>1 DEF StopIds
  <2>2. CASE before[k].stop \notin StopIds(new)
    <3>1. PICK n \in DOMAIN gone : gone[n] = k
      BY <1>7, <1>10, <2>2
    <3>2. old[n] \in Range(old) /\ old[n].stop = before[k].stop
      BY <1>5, <1>6, <1>8, <3>1 DEF Range
    <3> HIDE DEF stops, before
    <3> QED
      BY <1>9, <1>10, <3>2 DEF StopIds
  <2> QED
    BY <2>1, <2>2
<1>11. StopIds(before) \subseteq StopIds(stops)
  <2> HIDE DEF before, stops
  <2> QED
    BY <1>10 DEF StopIds, Range
<1>12. AreStops(stops)
  <2>1. \A s \in Range(old) : "stop" \in DOMAIN s
    BY <1>8 DEF Range
  <2> HIDE DEF stops
  <2> QED
    BY <1>9, <2>1 DEF AreStops
<1> QED
  BY <1>11, <1>12 DEF old

\* An update as it is kept.
IsMadeOf(made, u, stops) ==
    Descriptor(made) = Descriptor(u) /\ made.stops = stops /\ made.trip = u.trip

(* A descriptor names nothing that is worked out.                          *)
LEMMA DescriptorsStay ==
  ASSUME NEW u, UpdateFields \subseteq DOMAIN u, NEW stops, NEW delay, NEW known
  PROVE  IsMadeOf(Put([u EXCEPT !.stops = stops, !.delay = delay], "found", known), u, stops)
<1> DEFINE one == [u EXCEPT !.stops = stops, !.delay = delay]
           made == Put(one, "found", known)
<1>1. /\ DOMAIN one = DOMAIN u /\ one.stops = stops
      /\ \A x \in UpdateFields \ {"stops", "delay"} : one[x] = u[x]
  BY DEF UpdateFields
<1> HIDE DEF one
<1>2. \A x \in UpdateFields : x # "found" /\ x \in DOMAIN one
  BY <1>1 DEF UpdateFields
<1>3. \A x \in UpdateFields : made[x] = one[x]
  BY <1>2 DEF Put
<1> HIDE DEF made
<1>4. /\ made.trip = u.trip /\ made.route = u.route /\ made.date = u.date /\ made.start = u.start
      /\ made.status = u.status /\ made.mod = u.mod /\ made.affected = u.affected /\ made.stops = stops
  BY <1>1, <1>3 DEF UpdateFields
<1>5. Descriptor(made) = Descriptor(u)
  BY <1>4 DEF Descriptor
<1> QED
  BY <1>4, <1>5 DEF made, one, IsMadeOf

(* The stops of an update as they are kept.                                *)
LEMMA NewStopsAre ==
  ASSUME NEW u, IsUpdate(u), NEW stamp
  PROVE  AreStops(NewStops(u, stamp))
<1> DEFINE new == NewStops(u, stamp)
<1>1. Len(u.stops) \in Nat /\ DOMAIN u.stops = 1..Len(u.stops)
  BY DEF IsUpdate, AreStops, IsList
<1>2. /\ DOMAIN new = 1..Len(u.stops) /\ new = [k \in 1..Len(u.stops) |-> new[k]]
      /\ \A k \in DOMAIN new : "stop" \in DOMAIN new[k]
  BY <1>1 DEF NewStops
<1> HIDE DEF new
<1>3. IsList(new)
  <2>1. \A k \in 1..Len(u.stops) : new[k] \in Range(new)
    BY <1>2 DEF Range
  <2> QED
    BY <1>1, <1>2, <2>1 DEF IsList
<1>4. AreStops(new)
  BY <1>2, <1>3 DEF AreStops, Range
<1> QED
  BY <1>4 DEF new

(* An update takes its place in the dataset, and its stops of before with  *)
(* it.                                                                     *)
LEMMA UpdateAdds ==
  ASSUME IsMade(served), NEW d, IsMade(d), CarriesOn(d),
         NEW u, IsUpdate(u), NEW stamp, NEW calendars, NEW dates
  PROVE  LET e == AddUpdate(d, u, stamp, calendars, dates)
         IN  IsMade(e) /\ CarriesOn(e)
<1> DEFINE new == NewStops(u, stamp)
           stops == OldStops(u, new) \o new
           delay == CalculateDelay(u, stops, d.patterns, calendars, dates)
           known == u.trip \in DOMAIN task.trips
           made == Put([u EXCEPT !.stops = stops, !.delay = delay], "found", known)
           index == Push(Push(Push(d.byTrip, u.alias, u.id), u.affected, u.id), u.trip, u.id)
           e == AddUpdate(d, u, stamp, calendars, dates)
           ids == DOMAIN d.updates \cup {u.id}
<1>1. Descriptor(made) = Descriptor(u) /\ made.stops = stops /\ made.trip = u.trip
  <2>1. IsMadeOf(made, u, stops)
    <3> HIDE DEF stops, delay, known
    <3> QED
      BY DescriptorsStay, Zenon DEF IsUpdate
  <2> QED
    BY <2>1 DEF IsMadeOf
<1>2. AreStops(stops) /\ StopIds(StopsBefore(u)) \subseteq StopIds(stops)
  <2>1. AreStops(new)
    BY NewStopsAre
  <2> HIDE DEF new
  <2> QED
    BY <2>1, StopsStay
<1>3. /\ e.updates = Put(d.updates, u.id, made) /\ e.byTrip = index
      /\ e.mods = d.mods /\ e.modsByTrip = d.modsByTrip /\ MadeFields \subseteq DOMAIN e
  <2> HIDE DEF new, stops, delay, known, index
  <2> QED
    BY DEF AddUpdate, IsMade, MadeFields, new, stops, delay, known, index
<1>4. /\ IsIndex(index, ids)
      /\ \A t : Range(At(d.byTrip, t)) \subseteq Range(At(index, t))
      /\ u.trip # NoText => u.id \in Range(At(index, u.trip))
  <2>1. IsIndex(d.byTrip, ids) /\ u.id \in ids /\ u.id \in Int
    BY DEF IsMade, IsIndex, IsUpdate
  <2> HIDE DEF ids
  <2> QED
    BY <2>1, PushedThrice
<1> HIDE DEF e, index, made, stops
<1>5. /\ DOMAIN e.updates = ids
      /\ \A id \in ids : e.updates[id] = IF id = u.id THEN made ELSE d.updates[id]
  BY <1>3 DEF Put
<1>6. IsFiniteSet(ids) /\ ids \subseteq Int
  BY FS_AddElement DEF IsMade, IsUpdate
<1> HIDE DEF ids
<1>7. IsListed(e)
  BY <1>1, <1>3, <1>4, <1>5 DEF IsListed, IsMade, ids
<1>8. IsMade(e)
  BY <1>1, <1>2, <1>3, <1>4, <1>5, <1>6, <1>7 DEF IsMade, ids
<1>9. CarriesOn(e)
  <2> SUFFICES ASSUME NEW id \in DOMAIN served.updates \cap DOMAIN e.updates,
                      Descriptor(served.updates[id]) = Descriptor(e.updates[id]), IsOnlyOne(id)
               PROVE  StopIds(served.updates[id].stops) \subseteq StopIds(e.updates[id].stops)
    BY DEF CarriesOn
  <2>1. CASE id # u.id
    BY <1>5, <2>1 DEF CarriesOn, ids
  <2>2. CASE id = u.id
    <3> DEFINE old == served.updates[id]
    <3>1. Descriptor(old) = Descriptor(u) /\ e.updates[id].stops = stops
      BY <1>1, <1>5, <2>2
    <3>2. old.trip = u.trip
      BY <3>1 DEF Descriptor
    <3>3. OfTheRun(old) = OfTheRun(u)
      <4> HIDE DEF old
      <4> QED
        BY <3>1, <3>2 DEF OfTheRun
    <3>4. PICK k \in OfTheRun(u) : OfTheRun(u) = {k} /\ At(served.byTrip, u.trip)[k] = id
      BY <3>2, <3>3 DEF IsOnlyOne
    <3>5. StopsBefore(u) = old.stops
      BY <3>4 DEF StopsBefore
    <3> QED
      BY <1>2, <3>1, <3>5
  <2> QED
    BY <2>1, <2>2
<1> QED
  BY <1>8, <1>9 DEF e

(* The updates of a message, one after another.                            *)
LEMMA UpdatesAdd ==
  ASSUME IsMade(served), NEW d, IsMade(d), CarriesOn(d),
         NEW list, IsList(list), \A u \in Range(list) : IsUpdate(u),
         NEW stamp, NEW calendars, NEW dates
  PROVE  LET e == AddUpdates(d, list, stamp, calendars, dates)
         IN  IsMade(e) /\ CarriesOn(e)
<1>1. PICK f : IsRowOfUpdates(f, d, list, stamp, calendars, dates)
  BY RowOfUpdates
<1> DEFINE T == {m \in 0..Len(list) : IsMade(f[m]) /\ CarriesOn(f[m])}
<1>2. Len(list) \in Nat /\ \A m \in 1..Len(list) : IsUpdate(list[m])
  BY DEF IsList, Range
<1>3. 0 \in T
  BY <1>1, <1>2 DEF IsRowOfUpdates
<1>4. ASSUME NEW m \in 1..Len(list), m - 1 \in T
      PROVE  m \in T
  <2>1. IsMade(f[m - 1]) /\ CarriesOn(f[m - 1]) /\ m \in 0..Len(list)
    BY <1>2, <1>4
  <2>2. IsMade(f[m]) /\ CarriesOn(f[m])
    BY <1>1, <1>2, <2>1, UpdateAdds DEF IsRowOfUpdates
  <2> QED
    BY <2>1, <2>2
<1>5. Len(list) \in T
  <2> HIDE DEF T
  <2> QED
    BY <1>2, <1>3, <1>4, CountUp
<1> QED
  BY <1>1, <1>5 DEF IsRowOfUpdates

(* A modification is put in its place and listed under its trips, and the  *)
(* updates are left alone.                                                 *)
LEMMA ModAdds ==
  ASSUME NEW d, MadeFields \subseteq DOMAIN d, AreMods(d.mods, d.modsByTrip), NEW mod, IsMod(mod)
  PROVE  LET e == AddMod(d, mod)
         IN  /\ e.updates = d.updates /\ e.byTrip = d.byTrip /\ MadeFields \subseteq DOMAIN e
             /\ AreMods(e.mods, e.modsByTrip)
<1> DEFINE e == AddMod(d, mod)
           ids == DOMAIN d.mods \cup {mod.id}
<1>1. /\ e.updates = d.updates /\ e.byTrip = d.byTrip /\ MadeFields \subseteq DOMAIN e
      /\ e.mods = Put(d.mods, mod.id, mod)
      /\ e.modsByTrip = [t \in DOMAIN d.modsByTrip \cup mod.trips |->
                            IF t \in mod.trips THEN Append(At(d.modsByTrip, t), mod.id) ELSE d.modsByTrip[t]]
  BY DEF AddMod, MadeFields
<1> HIDE DEF e
<1>2. DOMAIN e.mods = ids /\ \A id \in ids : IsMod(e.mods[id])
  BY <1>1 DEF Put, AreMods
<1>3. ASSUME NEW t \in DOMAIN e.modsByTrip
      PROVE  e.modsByTrip[t] \in Seq(ids)
  <2>1. mod.id \in ids /\ \A x \in DOMAIN d.modsByTrip : d.modsByTrip[x] \in Seq(ids)
    BY DEF AreMods
  <2> HIDE DEF ids
  <2>2. At(d.modsByTrip, t) \in Seq(ids)
    BY <2>1 DEF At
  <2>3. Append(At(d.modsByTrip, t), mod.id) \in Seq(ids)
    BY <2>1, <2>2
  <2> QED
    BY <1>1, <1>3, <2>1, <2>3
<1> HIDE DEF ids
<1>4. AreMods(e.mods, e.modsByTrip)
  BY <1>2, <1>3 DEF AreMods
<1> QED
  BY <1>1, <1>4 DEF e

LEMMA ModsAdd ==
  ASSUME NEW d, IsMade(d), CarriesOn(d), NEW list, IsList(list), \A mod \in Range(list) : IsMod(mod)
  PROVE  LET e == AddMods(d, list)
         IN  IsMade(e) /\ CarriesOn(e)
<1>1. PICK f : IsRowOfMods(f, d, list)
  BY RowOfMods
<1> DEFINE Same(e) == /\ e.updates = d.updates /\ e.byTrip = d.byTrip /\ MadeFields \subseteq DOMAIN e
                      /\ AreMods(e.mods, e.modsByTrip)
           T == {m \in 0..Len(list) : Same(f[m])}
<1>2. Len(list) \in Nat /\ \A m \in 1..Len(list) : IsMod(list[m])
  <2>1. Len(list) \in Nat /\ DOMAIN list = 1..Len(list)
    BY DEF IsList
  <2> QED
    BY <2>1 DEF Range
<1>3. 0 \in T
  BY <1>1, <1>2 DEF IsMade, IsRowOfMods
<1>4. ASSUME NEW m \in 1..Len(list), m - 1 \in T
      PROVE  m \in T
  <2>1. Same(f[m - 1]) /\ m \in 0..Len(list) /\ f[m] = AddMod(f[m - 1], list[m])
    BY <1>1, <1>2, <1>4 DEF IsRowOfMods
  <2>2. IsMod(list[m])
    BY <1>2
  <2> DEFINE before == f[m - 1]
             after == AddMod(before, list[m])
  <2>3. /\ after.updates = before.updates /\ after.byTrip = before.byTrip
        /\ MadeFields \subseteq DOMAIN after /\ AreMods(after.mods, after.modsByTrip)
    <3>1. MadeFields \subseteq DOMAIN before /\ AreMods(before.mods, before.modsByTrip)
      BY <2>1
    <3> HIDE DEF before
    <3> QED
      BY <2>2, <3>1, ModAdds
  <2> QED
    BY <2>1, <2>3
<1>5. Len(list) \in T
  <2> HIDE DEF T
  <2> QED
    BY <1>2, <1>3, <1>4, CountUp
<1> DEFINE e == AddMods(d, list)
<1>6. Same(e)
  BY <1>1, <1>5 DEF IsRowOfMods
<1> HIDE DEF e
<1>7. IsMade(e) /\ CarriesOn(e)
  BY <1>6 DEF IsMade, CarriesOn, IsListed
<1> QED
  BY <1>7 DEF e

\* What the messages of the realtime feeds are.
AreMessages ==
    /\ IsList(world.order)
    /\ \A f \in RtFeeds : Told(f) =>
          /\ IsList(Message(f).updates) /\ IsList(Message(f).mods)
          /\ \A mod \in Range(Message(f).mods) : IsMod(mod)
          /\ \A u \in Range(Message(f).updates) : IsUpdate(u)

(* A message of a feed, and a feed without one.                            *)
LEMMA FeedAdds ==
  ASSUME IsMade(served), AreMessages, NEW d, IsMade(d), CarriesOn(d), NEW f \in RtFeeds,
         NEW calendars, NEW dates
  PROVE  LET e == AddFeed(d, f, calendars, dates)
         IN  IsMade(e) /\ CarriesOn(e)
<1> DEFINE message == Message(f)
           updated == AddUpdates(d, message.updates, message.stamp, calendars, dates)
           modified == AddMods(updated, message.mods)
           e == AddMessage(d, message, calendars, dates)
<1>1. CASE ~Told(f)
  BY <1>1 DEF AddFeed
<1>2. CASE Told(f)
  <2>1. /\ IsList(message.updates) /\ IsList(message.mods)
        /\ \A mod \in Range(message.mods) : IsMod(mod)
        /\ \A u \in Range(message.updates) : IsUpdate(u)
    BY <1>2 DEF AreMessages
  <2>2. e = [modified EXCEPT !.vehicles = ById(message.vehicles) @@ @,
                             !.alerts = ById(message.alerts) @@ @]
    BY DEF AddMessage, AddUpdates, AddMods
  <2> HIDE DEF message
  <2>3. IsMade(updated) /\ CarriesOn(updated)
    BY <2>1, UpdatesAdd
  <2> HIDE DEF updated
  <2>4. IsMade(modified) /\ CarriesOn(modified)
    BY <2>1, <2>3, ModsAdd
  <2> HIDE DEF modified, e
  <2>5. /\ e.updates = modified.updates /\ e.byTrip = modified.byTrip
        /\ e.mods = modified.mods /\ e.modsByTrip = modified.modsByTrip /\ MadeFields \subseteq DOMAIN e
    BY <2>2, <2>4 DEF IsMade, MadeFields
  <2>6. IsMade(e) /\ CarriesOn(e)
    BY <2>4, <2>5 DEF IsMade, CarriesOn, IsListed
  <2> QED
    BY <1>2, <2>6 DEF AddFeed, e, message
<1> QED
  BY <1>1, <1>2

(* All feeds of the chateau, in their order.                               *)
LEMMA FeedsAdd ==
  ASSUME IsMade(served), AreMessages, NEW d, IsMade(d), CarriesOn(d), NEW calendars, NEW dates
  PROVE  LET e == AddFeeds(d, world.order, calendars, dates)
         IN  IsMade(e) /\ CarriesOn(e)
<1> DEFINE list == world.order
<1>1. IsList(list) /\ Len(list) \in Nat /\ \A m \in 1..Len(list) : list[m] \in RtFeeds
  BY DEF AreMessages, IsList, RtFeeds, Range
<1> HIDE DEF list
<1>2. PICK f : IsRowOfFeeds(f, d, list, calendars, dates)
  BY <1>1, RowOfFeeds
<1> DEFINE T == {m \in 0..Len(list) : IsMade(f[m]) /\ CarriesOn(f[m])}
<1>3. 0 \in T
  BY <1>1, <1>2 DEF IsRowOfFeeds
<1>4. ASSUME NEW m \in 1..Len(list), m - 1 \in T
      PROVE  m \in T
  <2>1. IsMade(f[m - 1]) /\ CarriesOn(f[m - 1]) /\ m \in 0..Len(list)
    BY <1>1, <1>4
  <2>2. IsMade(f[m]) /\ CarriesOn(f[m])
    BY <1>1, <1>2, <2>1, FeedAdds DEF IsRowOfFeeds
  <2> QED
    BY <2>1, <2>2
<1>5. Len(list) \in T
  <2> HIDE DEF T
  <2> QED
    BY <1>1, <1>3, <1>4, CountUp
<1> QED
  BY <1>2, <1>5 DEF list, IsRowOfFeeds

(* What a pass adds to the draft, which it began with or a pass before it. *)
LEMMA MessagesAdd ==
  ASSUME IsMade(served), AreMessages, IsMade(draft), CarriesOn(draft), NEW calendars, NEW dates
  PROVE  LET e == AllMessages(calendars, dates)
         IN  IsMade(e) /\ CarriesOn(e)
<1> DEFINE base == [draft EXCEPT !.patterns = Accumulated]
           all == AddFeeds(base, world.order, calendars, dates)
           e == AllMessages(calendars, dates)
<1>1. /\ base.updates = draft.updates /\ base.byTrip = draft.byTrip
      /\ base.mods = draft.mods /\ base.modsByTrip = draft.modsByTrip /\ MadeFields \subseteq DOMAIN base
  BY DEF IsMade, MadeFields
<1>2. e = IndexAlerts(all)
  BY DEF AllMessages, AddFeeds
<1> HIDE DEF base
<1>3. IsMade(base) /\ CarriesOn(base)
  BY <1>1 DEF IsMade, CarriesOn, IsListed
<1>4. IsMade(all) /\ CarriesOn(all)
  BY <1>3, FeedsAdd
<1> HIDE DEF all, e
<1>5. /\ e.updates = all.updates /\ e.byTrip = all.byTrip
      /\ e.mods = all.mods /\ e.modsByTrip = all.modsByTrip /\ MadeFields \subseteq DOMAIN e
  BY <1>2, <1>4 DEF IndexAlerts, IsMade, MadeFields
<1>6. IsMade(e) /\ CarriesOn(e)
  BY <1>4, <1>5 DEF IsMade, CarriesOn, IsListed
<1> QED
  BY <1>6 DEF e

(* Sorting the ids of the trips takes none away.                           *)
LEMMA FinishedIs ==
  ASSUME NEW d, IsMade(d), CarriesOn(d)
  PROVE  LET e == Finished(d)
         IN  IsMade(e) /\ CarriesOn(e) /\ DOMAIN e.updates = DOMAIN d.updates
<1> DEFINE e == Finished(d)
<1>1. /\ e.updates = d.updates /\ e.mods = d.mods /\ e.modsByTrip = d.modsByTrip
      /\ MadeFields \subseteq DOMAIN e
      /\ e.byTrip = [t \in DOMAIN d.byTrip |-> Sorted(Range(d.byTrip[t]))]
  BY DEF Finished, IsMade, MadeFields
<1> HIDE DEF e
<1>2. ASSUME NEW t \in DOMAIN d.byTrip
      PROVE  e.byTrip[t] \in Seq(Int) /\ Range(e.byTrip[t]) = Range(d.byTrip[t])
  <2> DEFINE S == Range(d.byTrip[t])
  <2>1. S \in SUBSET (DOMAIN d.updates) /\ S \in SUBSET Int /\ IsFiniteSet(DOMAIN d.updates)
    BY DEF IsMade, IsIndex
  <2> HIDE DEF S
  <2>2. IsFiniteSet(S)
    BY <2>1, FS_Subset
  <2>3. Sorted(S) \in Seq(S) /\ Range(Sorted(S)) = S
    BY <2>1, <2>2, SortedHas
  <2>4. Sorted(S) \in Seq(Int)
    BY <2>1, <2>3, SeqMonotonic
  <2> QED
    BY <1>1, <2>3, <2>4 DEF S
<1>3. DOMAIN e.byTrip = DOMAIN d.byTrip
  BY <1>1
<1>4. \A t : Range(At(e.byTrip, t)) = Range(At(d.byTrip, t))
  BY <1>2, <1>3 DEF At
<1>5. IsIndex(e.byTrip, DOMAIN e.updates)
  BY <1>1, <1>2, <1>3 DEF IsMade, IsIndex
<1>6. IsListed(e)
  BY <1>1, <1>4 DEF IsMade, IsListed
<1>7. IsMade(e) /\ CarriesOn(e)
  BY <1>1, <1>5, <1>6 DEF IsMade, CarriesOn
<1> QED
  BY <1>1, <1>7 DEF e

\* The data, and of the updates before those in the set.
IsKeptWith(e, d, ids) ==
    /\ IsMade(e)
    /\ DOMAIN e.updates = DOMAIN d.updates \cup ids
    /\ \A id \in DOMAIN d.updates : e.updates[id] = d.updates[id]
    /\ \A id \in ids : e.updates[id] = served.updates[id]

(* An update that is kept is as it was, and listed.                        *)
LEMMA KeepAdds ==
  ASSUME IsMade(served), NEW d, NEW ids, NEW e, IsKeptWith(e, d, ids),
         NEW id \in DOMAIN served.updates \ DOMAIN d.updates
  PROVE  IsKeptWith(Keep(e, id), d, ids \cup {id})
<1> DEFINE u == served.updates[id]
           index == Push(Push(Push(e.byTrip, u.trip, id), u.alias, id), u.affected, id)
           all == DOMAIN e.updates \cup {id}
           new == Keep(e, id)
<1>1. /\ new.updates = Put(e.updates, id, u) /\ new.byTrip = index
      /\ new.mods = e.mods /\ new.modsByTrip = e.modsByTrip /\ MadeFields \subseteq DOMAIN new
  <2> HIDE DEF index
  <2> QED
    BY DEF Keep, IsKeptWith, IsMade, MadeFields, index, u
<1>2. id \in Int /\ AreStops(u.stops)
  BY DEF IsMade
<1> HIDE DEF u
<1>3. /\ IsIndex(index, all)
      /\ \A t : Range(At(e.byTrip, t)) \subseteq Range(At(index, t))
      /\ u.trip # NoText => id \in Range(At(index, u.trip))
  <2>1. IsIndex(e.byTrip, all) /\ id \in all
    BY DEF IsKeptWith, IsMade, IsIndex
  <2> HIDE DEF all
  <2> QED
    BY <1>2, <2>1, PushedThrice
<1> HIDE DEF new, index
<1>4. /\ DOMAIN new.updates = all
      /\ \A k \in all : new.updates[k] = IF k = id THEN u ELSE e.updates[k]
  BY <1>1 DEF Put
<1>5. IsFiniteSet(all) /\ all \subseteq Int
  BY <1>2, FS_AddElement DEF IsKeptWith, IsMade
<1> HIDE DEF all
<1>6. IsListed(new)
  BY <1>1, <1>3, <1>4 DEF IsListed, IsKeptWith, IsMade, all
<1>7. IsMade(new)
  BY <1>1, <1>2, <1>3, <1>4, <1>5, <1>6 DEF IsKeptWith, IsMade, all
<1>8. IsKeptWith(new, d, ids \cup {id})
  BY <1>4, <1>7 DEF IsKeptWith, all, u
<1> QED
  BY <1>8 DEF new

(* All that are to be kept are, whatever the order.                        *)
LEMMA AllAreKept ==
  ASSUME IsMade(served), NEW d, IsMade(d),
         NEW S \in SUBSET (DOMAIN served.updates \ DOMAIN d.updates), NEW order \in SetToSeqs(S)
  PROVE  IsKeptWith(KeepAll(d, order), d, S)
<1> DEFINE n == Cardinality(S)
<1>1. IsFiniteSet(S) /\ n \in Nat
  BY FS_Subset, FS_CardinalityType DEF IsMade
<1>2. order \in [1..n -> S] /\ \A i, j \in 1..n : i # j => order[i] # order[j]
  BY DEF SetToSeqs
<1>3. Range(order) = S
  <2> DEFINE D == 1..n
  <2>1. IsFiniteSet(D) /\ Cardinality(D) = n
    BY <1>1, FS_Interval
  <2> HIDE DEF D
  <2>2. order \in Injection(D, S)
    BY <1>2 DEF Injection, IsInjective, D
  <2>3. order \in Surjection(D, S)
    BY <1>1, <2>1, <2>2, FS_Injection
  <2>4. \A k \in S : \E i \in D : order[i] = k
    BY <2>3 DEF Surjection
  <2> QED
    BY <1>2, <2>4 DEF Range, D
<1> HIDE DEF n
<1>4. IsList(order) /\ Len(order) = n /\ DOMAIN order = 1..n
  BY <1>1, <1>2, <1>3 DEF IsList
<1> DEFINE Before(m) == {order[j] : j \in 1..m}
<1>5. PICK f : IsRowOfKept(f, d, order)
  BY <1>4, RowOfKept
<1> DEFINE T == {m \in 0..n : IsKeptWith(f[m], d, Before(m))}
<1>6. 0 \in T
  <2>1. Before(0) = {}
    OBVIOUS
  <2> HIDE DEF Before
  <2> QED
    BY <1>1, <1>5, <2>1 DEF IsKeptWith, IsRowOfKept
<1>7. ASSUME NEW m \in 1..n, m - 1 \in T
      PROVE  m \in T
  <2>1. m - 1 \in Nat /\ 1..m = 1..(m - 1) \cup {m} /\ m \in 0..n
    BY <1>1
  <2>2. Before(m) = Before(m - 1) \cup {order[m]}
    BY <2>1
  <2> HIDE DEF Before
  <2>3. IsKeptWith(f[m - 1], d, Before(m - 1)) /\ f[m] = Keep(f[m - 1], order[m])
    BY <1>4, <1>5, <1>7 DEF IsRowOfKept
  <2>4. order[m] \in DOMAIN served.updates \ DOMAIN d.updates
    BY <1>2
  <2>5. IsKeptWith(f[m], d, Before(m))
    BY <2>2, <2>3, <2>4, KeepAdds
  <2> QED
    BY <2>1, <2>5
<1>8. n \in T
  <2> HIDE DEF T
  <2> QED
    BY <1>1, <1>6, <1>7, CountUp
<1>9. Before(n) = S
  BY <1>3, <1>4 DEF Range
<1> QED
  BY <1>4, <1>5, <1>8, <1>9 DEF IsRowOfKept

--------------------------------------------------------------------------------
(* The data, along the steps of the task.                                  *)

\* Each message that counts has come; the data served is whole, and so is what the
\* task has made so far, which misses nothing of the data served.
DataInv ==
    /\ world \in Cases
    /\ \A f \in RtFeeds : current[f] \in 0..Len(world.messages[f])
    /\ DOMAIN current = RtFeeds
    /\ IsMade(served)
    /\ IsMade(draft) /\ CarriesOn(draft)

(* The messages a task reads are some that came.                           *)
LEMMA MessagesAre ==
  ASSUME DataInv
  PROVE  AreMessages
<1>1. IsList(world.order) /\ RtFeeds \subseteq DOMAIN world.messages
  <2>1. world.order \in Seq(DOMAIN world.messages)
    BY MessagesAssumption DEF DataInv
  <2> QED
    BY <2>1 DEF RtFeeds, IsList, Range
<1>2. ASSUME NEW f \in RtFeeds, Told(f)
      PROVE  /\ IsList(Message(f).updates) /\ IsList(Message(f).mods)
             /\ \A mod \in Range(Message(f).mods) : IsMod(mod)
             /\ \A u \in Range(Message(f).updates) : IsUpdate(u)
  <2>1. IsList(world.messages[f]) /\ f \in DOMAIN world.messages
    BY <1>1, MessagesAssumption DEF DataInv
  <2>2. current[f] \in DOMAIN world.messages[f]
    BY <1>2, <2>1 DEF DataInv, Told, IsList
  <2>3. Message(f) \in Range(world.messages[f])
    BY <2>2 DEF Message, Range
  <2>4. /\ IsList(Message(f).updates) /\ IsList(Message(f).mods)
        /\ \A mod \in Range(Message(f).mods) : IsMod(mod)
        /\ \A u \in Range(Message(f).updates) :
              /\ UpdateFields \subseteq DOMAIN u /\ u.id \in Int /\ IsList(u.stops)
              /\ \A s \in Range(u.stops) : EntryFields \subseteq DOMAIN s
    BY <2>1, <2>3, MessagesAssumption DEF DataInv, IsMod
  <2> QED
    BY <2>4 DEF IsUpdate, AreStops, EntryFields
<1> QED
  BY <1>1, <1>2 DEF AreMessages

(* A process starts with nothing, and so does each task.                   *)
LEMMA NoDataIs == IsMade(NoData) /\ CarriesOn(NoData)
<1>1. /\ NoData.updates = <<>> /\ NoData.byTrip = <<>> /\ NoData.mods = <<>> /\ NoData.modsByTrip = <<>>
      /\ MadeFields \subseteq DOMAIN NoData
  BY DEF NoData, MadeFields
<1>2. /\ DOMAIN NoData.updates = {} /\ DOMAIN NoData.byTrip = {}
      /\ DOMAIN NoData.mods = {} /\ DOMAIN NoData.modsByTrip = {}
  BY <1>1
<1>3. IsMade(NoData)
  BY <1>1, <1>2, FS_EmptySet DEF IsMade, AreMods, IsIndex, IsListed
<1>4. CarriesOn(NoData)
  BY <1>2 DEF CarriesOn
<1> QED
  BY <1>3, <1>4

(* What the last pass serves.                                              *)
LEMMA PassServes ==
  ASSUME DataInv, NEW calendars, NEW dates,
         NEW order \in SetToSeqs(Kept(AllMessages(calendars, dates)))
  PROVE  LET d == Finished(AllMessages(calendars, dates))
         IN  /\ IsMade(d) /\ CarriesOn(d)
             /\ IsKeptWith(KeepAll(d, order), d, Kept(AllMessages(calendars, dates)))
             /\ young => DOMAIN served.updates \subseteq DOMAIN KeepAll(d, order).updates
<1> DEFINE all == AllMessages(calendars, dates)
           d == Finished(all)
           e == KeepAll(d, order)
<1>1. IsMade(all) /\ CarriesOn(all)
  BY MessagesAre, MessagesAdd DEF DataInv
<1> HIDE DEF all
<1>2. IsMade(d) /\ CarriesOn(d) /\ DOMAIN d.updates = DOMAIN all.updates
  BY <1>1, FinishedIs
<1> HIDE DEF d
<1>3. Kept(all) \in SUBSET (DOMAIN served.updates \ DOMAIN d.updates) /\ order \in SetToSeqs(Kept(all))
  BY <1>2 DEF Kept, all
<1>4. IsKeptWith(e, d, Kept(all))
  BY <1>2, <1>3, AllAreKept DEF DataInv
<1>5. young => DOMAIN served.updates \subseteq DOMAIN e.updates
  BY <1>2, <1>4 DEF IsKeptWith, Kept
<1> QED
  BY <1>2, <1>4, <1>5 DEF d, all

(* While the data served stays, what a pass has made is whole after it.    *)
LEMMA DraftGrows ==
  ASSUME NEW d, IsMade(d), CarriesOn(d), draft' = d, served' = served
  PROVE  IsMade(draft)' /\ CarriesOn(draft)'
<1>1. IsMade(draft)'
  BY DEF IsMade, AreMods, IsMod, IsListed, IsIndex, AreStops, IsList, At
<1>2. ASSUME NEW id
      PROVE  IsOnlyOne(id)' <=> IsOnlyOne(id)
  BY DEF IsOnlyOne, OfTheRun
<1>3. CarriesOn(draft)'
  BY <1>2 DEF CarriesOn
<1> QED
  BY <1>1, <1>3

(* The draft of a task that ended.                                         *)
LEMMA DraftEmpties ==
  ASSUME draft' = NoData
  PROVE  IsMade(draft)' /\ CarriesOn(draft)'
<1>1. (NoData).updates = <<>> /\ DOMAIN draft'.updates = {}
  BY DEF NoData
<1>2. IsMade(draft)'
  BY NoDataIs DEF IsMade, AreMods, IsMod, IsListed, IsIndex, AreStops, IsList, At
<1>3. CarriesOn(draft)'
  BY <1>1 DEF CarriesOn
<1> QED
  BY <1>2, <1>3

(* A pass on the way, and the last, after which the data is served.        *)
LEMMA PassKeeps ==
  ASSUME DataInv, Pass, world' = world
  PROVE  DataInv'
<1>1. PICK calendars \in SetToSeqs(task.got["calendar"]), dates \in SetToSeqs(task.got["calendar_dates"]) :
         LET d == AllMessages(calendars, dates)
         IN  IF task.pass < Len(world.order)
             THEN draft' = d /\ served' = served
             ELSE /\ \E order \in SetToSeqs(Kept(d)) : served' = KeepAll(Finished(d), order)
                  /\ draft' = NoData
  BY DEF Pass, KeepAll
<1> DEFINE d == AllMessages(calendars, dates)
<1>2. IsMade(d) /\ CarriesOn(d)
  BY MessagesAre, MessagesAdd DEF DataInv
<1>3. IsMade(served)' /\ IsMade(draft)' /\ CarriesOn(draft)'
  <2>1. CASE task.pass < Len(world.order)
    <3> HIDE DEF d
    <3>1. draft' = d /\ served' = served
      BY <1>1, <2>1 DEF d
    <3>2. IsMade(served)'
      BY <3>1 DEF DataInv, IsMade, AreMods, IsMod, IsListed, IsIndex, AreStops, IsList, At
    <3> QED
      BY <1>2, <3>1, <3>2, DraftGrows
  <2>2. CASE ~(task.pass < Len(world.order))
    <3>1. PICK order \in SetToSeqs(Kept(d)) : served' = KeepAll(Finished(d), order)
      BY <1>1, <2>2
    <3>2. IsMade(KeepAll(Finished(d), order))
      BY <3>1, PassServes DEF IsKeptWith
    <3>3. IsMade(served)'
      BY <3>1, <3>2 DEF IsMade, AreMods, IsMod, IsListed, IsIndex, AreStops, IsList, At
    <3>4. draft' = NoData
      BY <1>1, <2>2
    <3> QED
      BY <3>3, <3>4, DraftEmpties
  <2> QED
    BY <2>1, <2>2
<1>4. current' = current /\ RtFeeds' = RtFeeds
  BY DEF Pass, RtFeeds
<1> QED
  BY <1>3, <1>4 DEF DataInv

(* The updates a task has served or made so far have ids and stops, and    *)
(* each is listed under its trip: whatever the messages hold, in whatever  *)
(* order their feeds are read, and though tasks fail in between.           *)
THEOREM DataIsWhole == Spec => []DataInv
<1>1. Init => DataInv
  <2> SUFFICES ASSUME Init
               PROVE  DataInv
    OBVIOUS
  <2>1. world \in Cases /\ served = NoData /\ draft = NoData /\ current = [f \in RtFeeds |-> 0]
    BY DEF Init, ImportInit, DataInit
  <2>2. \A f \in RtFeeds : Len(world.messages[f]) \in Nat
    BY <2>1, MessagesAssumption DEF RtFeeds, IsList, Range
  <2> QED
    BY <2>1, <2>2, NoDataIs DEF DataInv
<1>2. DataInv /\ [Next]_vars => DataInv'
  <2> SUFFICES ASSUME DataInv, [Next]_vars
               PROVE  DataInv'
    OBVIOUS
  <2>1. world' = world /\ RtFeeds' = RtFeeds
    BY DEF Next, vars, Import, Insert, InsertFails, Delete, Stop, RtFeeds
  <2>2. ASSUME UNCHANGED <<draft, served>>, \A f \in RtFeeds : current'[f] \in 0..Len(world.messages[f]),
               DOMAIN current' = RtFeeds
        PROVE  DataInv'
    <3>1. IsMade(draft)' /\ CarriesOn(draft)' /\ IsMade(served)'
      <4>1. IsMade(served)'
        BY <2>2 DEF DataInv, IsMade, AreMods, IsMod, IsListed, IsIndex, AreStops, IsList, At
      <4> QED
        BY <2>2, <4>1, DraftGrows DEF DataInv
    <3> QED
      BY <2>1, <2>2, <3>1 DEF DataInv
  <2>3. CASE UNCHANGED <<current, draft, served>>
    BY <2>2, <2>3 DEF DataInv
  <2>4. ASSUME NEW f \in RtFeeds, Receive(f)
        PROVE  DataInv'
    <3>1. \A g \in RtFeeds : Len(world.messages[g]) \in Nat
      BY MessagesAssumption DEF DataInv, RtFeeds, IsList, Range
    <3>2. \A g \in RtFeeds : current'[g] \in 0..Len(world.messages[g])
      BY <2>4, <3>1 DEF Receive, DataInv
    <3> QED
      BY <2>2, <2>4, <3>2 DEF Receive, DataInv
  <2>5. CASE TaskFails
    <3>1. draft' = NoData /\ served' = served /\ current' = current
      BY <2>5 DEF TaskFails
    <3>2. IsMade(served)'
      BY <3>1 DEF DataInv, IsMade, AreMods, IsMod, IsListed, IsIndex, AreStops, IsList, At
    <3> QED
      BY <2>1, <3>1, <3>2, DraftEmpties DEF DataInv
  <2>6. CASE Pass
    BY <2>1, <2>6, PassKeeps
  <2>7. CASE LookUp \/ (\E t \in JoinTables : Join(t)) \/ GrowOld
    BY <2>3, <2>7 DEF LookUp, Join, GrowOld
  <2>8. CASE Import(Reading) /\ UNCHANGED <<dataVars, page>>
    BY <2>3, <2>8 DEF dataVars
  <2>9. CASE Request /\ UNCHANGED <<world, reduced, rows, importer, dataVars>>
    BY <2>3, <2>9 DEF dataVars
  <2>10. CASE UNCHANGED vars
    BY <2>3, <2>10 DEF vars
  <2> QED
    BY <2>4, <2>5, <2>6, <2>7, <2>8, <2>9, <2>10 DEF Next, Data
<1> QED
  BY <1>1, <1>2, PTL DEF Spec

(* PastStopsStay: stops a run has passed stay in its update, though the    *)
(* agency drops them and the data is made anew of each message, and in the *)
(* grace period of a process no update vanishes.                           *)
THEOREM PastStopsAreKept == Spec => PastStopsStay
<1> DEFINE Stays ==
        /\ \A id \in DOMAIN served.updates \cap DOMAIN served'.updates :
              (Descriptor(served.updates[id]) = Descriptor(served'.updates[id]) /\ IsOnlyOne(id)) =>
                  StopIds(served.updates[id].stops) \subseteq StopIds(served'.updates[id].stops)
        /\ young => \A id \in DOMAIN served.updates :
              /\ id \in DOMAIN served'.updates
              /\ served'.updates[id].trip # NoText =>
                    id \in Range(At(served'.byTrip, served'.updates[id].trip))
<1>1. DataInv /\ [Next]_vars => [Stays]_served
  <2> SUFFICES ASSUME DataInv, [Next]_vars, served' # served
               PROVE  Stays
    BY Zenon
  <2>1. Pass
    BY DEF Next, vars, dataVars, Data, Receive, LookUp, Join, TaskFails, GrowOld
  <2>2. PICK calendars \in SetToSeqs(task.got["calendar"]), dates \in SetToSeqs(task.got["calendar_dates"]) :
           LET d == AllMessages(calendars, dates)
           IN  \E order \in SetToSeqs(Kept(d)) : served' = KeepAll(Finished(d), order)
    BY <2>1 DEF Pass, KeepAll
  <2> DEFINE d == AllMessages(calendars, dates)
             done == Finished(d)
  <2>3. PICK order \in SetToSeqs(Kept(d)) : served' = KeepAll(done, order)
    BY <2>2
  <2>4. /\ CarriesOn(done) /\ IsKeptWith(KeepAll(done, order), done, Kept(d))
        /\ young => DOMAIN served.updates \subseteq DOMAIN KeepAll(done, order).updates
    BY <2>3, PassServes
  <2> HIDE DEF d, done
  <2> DEFINE e == KeepAll(done, order)
  <2>5. served' = e /\ CarriesOn(done) /\ IsKeptWith(e, done, Kept(d))
    BY <2>3, <2>4
  <2> HIDE DEF e
  <2>6. ASSUME NEW id \in DOMAIN served.updates \cap DOMAIN e.updates,
               Descriptor(served.updates[id]) = Descriptor(e.updates[id]), IsOnlyOne(id)
        PROVE  StopIds(served.updates[id].stops) \subseteq StopIds(e.updates[id].stops)
    <3>1. CASE id \in DOMAIN done.updates
      BY <2>5, <2>6, <3>1 DEF IsKeptWith, CarriesOn
    <3>2. CASE id \in Kept(d)
      BY <2>5, <3>2 DEF IsKeptWith
    <3> QED
      BY <2>5, <3>1, <3>2 DEF IsKeptWith
  <2>7. IsListed(e) /\ (young => DOMAIN served.updates \subseteq DOMAIN e.updates)
    BY <2>4, <2>5 DEF IsKeptWith, IsMade, e
  <2> QED
    BY <2>5, <2>6, <2>7 DEF IsListed
<1>2. [][Stays]_served => PastStopsStay
  BY DEF PastStopsStay
<1> HIDE DEF Stays
<1> QED
  BY <1>1, <1>2, DataIsWhole, PTL DEF Spec


--------------------------------------------------------------------------------
(* The folds of the page.                                                  *)

ModifyAll(p, list) == FoldLeft(Modify, p, list)
UpdateAll(stops, list) == FoldLeft(UpdateStop, stops, list)

IsRowOfChanges(f, d, list) ==
    /\ f[0] = d /\ f[Len(list)] = ModifyAll(d, list)
    /\ \A m \in 1..Len(list) : f[m] = Modify(f[m - 1], list[m])

IsRowOfEntries(f, d, list) ==
    /\ f[0] = d /\ f[Len(list)] = UpdateAll(d, list)
    /\ \A m \in 1..Len(list) : f[m] = UpdateStop(f[m - 1], list[m])

(* The same, of the changes of a modification.                             *)
LEMMA RowOfChanges ==
  ASSUME NEW d, NEW list, IsList(list)
  PROVE  \E f : IsRowOfChanges(f, d, list)
<1> DEFINE n == Len(list)
           Body(g, s) == IF s = {} THEN d ELSE Modify(g[s \ {Max(s)}], list[Max(s)])
           Is(g, m) == g = [s \in SUBSET (1..m) |-> Body(g, s)]
           iter == CHOOSE g : g = [s \in SUBSET DOMAIN list |-> Body(g, s)]
           T == {m \in 0..n : \E g : Is(g, m)}
           f == [m \in 0..n |-> iter[1..m]]
<1>1. n \in Nat /\ DOMAIN list = 1..n
  BY DEF IsList
<1>2. 0 \in T
  <2>1. SUBSET (1..0) = {{}}
    OBVIOUS
  <2>2. Is([s \in {{}} |-> d], 0)
    BY <2>1
  <2> HIDE DEF Is
  <2> QED
    BY <1>1, <2>2
<1>3. ASSUME NEW m \in 1..n, m - 1 \in T
      PROVE  m \in T
  <2>1. PICK g : Is(g, m - 1)
    BY <1>3
  <2> DEFINE v == [s \in SUBSET (1..(m - 1)) |-> Modify(g[s], list[m])]
  <2>2. PICK h : Continues(h, g, v, m)
    <3> HIDE DEF n, v
    <3> QED
      BY <1>1, Continued
  <2>3. {} \in SUBSET (1..(m - 1))
    OBVIOUS
  <2>4. \A s \in SUBSET (1..(m - 1)) : g[s] = Body(g, s)
    BY <2>1
  <2>5. ASSUME NEW s \in SUBSET (1..m)
        PROVE  h[s] = Body(h, s)
    BY <2>2, <2>3, <2>4 DEF Continues
  <2>6. Is(h, m)
    BY <2>2, <2>5 DEF Continues
  <2> HIDE DEF Is
  <2> QED
    BY <1>1, <2>6
<1>4. n \in T
  <2> HIDE DEF T, n
  <2> QED
    BY <1>1, <1>2, <1>3, CountUp
<1>5. \A s \in SUBSET (1..n) : iter[s] = Body(iter, s)
  <2>1. Is(iter, n)
    BY <1>1, <1>4
  <2> HIDE DEF iter
  <2> QED
    BY <2>1
<1>6. f[n] = ModifyAll(d, list)
  BY <1>1 DEF ModifyAll, FoldLeft, MapThenFoldSet
<1>7. f[0] = d
  <2>1. 1..0 = {} /\ 0 \in 0..n
    BY <1>1
  <2> HIDE DEF iter
  <2> QED
    BY <1>5, <2>1
<1>8. ASSUME NEW m \in 1..n
      PROVE  f[m] = Modify(f[m - 1], list[m])
  <2>1. f[m] = iter[1..m] /\ f[m - 1] = iter[1..(m - 1)]
    BY <1>1
  <2>2. /\ Max(1..m) = m /\ (1..m) \ {m} = 1..(m - 1)
        /\ 1..m \in SUBSET (1..n) /\ 1..m # {}
    <3> HIDE DEF n
    <3> QED
      BY <1>1, FirstNumbers, Zenon
  <2> HIDE DEF iter, f, n
  <2> QED
    BY <1>5, <2>1, <2>2
<1> HIDE DEF f
<1> QED
  BY <1>6, <1>7, <1>8 DEF IsRowOfChanges

(* The same, of the stops of an update.                                    *)
LEMMA RowOfEntries ==
  ASSUME NEW d, NEW list, IsList(list)
  PROVE  \E f : IsRowOfEntries(f, d, list)
<1> DEFINE n == Len(list)
           Body(g, s) == IF s = {} THEN d ELSE UpdateStop(g[s \ {Max(s)}], list[Max(s)])
           Is(g, m) == g = [s \in SUBSET (1..m) |-> Body(g, s)]
           iter == CHOOSE g : g = [s \in SUBSET DOMAIN list |-> Body(g, s)]
           T == {m \in 0..n : \E g : Is(g, m)}
           f == [m \in 0..n |-> iter[1..m]]
<1>1. n \in Nat /\ DOMAIN list = 1..n
  BY DEF IsList
<1>2. 0 \in T
  <2>1. SUBSET (1..0) = {{}}
    OBVIOUS
  <2>2. Is([s \in {{}} |-> d], 0)
    BY <2>1
  <2> HIDE DEF Is
  <2> QED
    BY <1>1, <2>2
<1>3. ASSUME NEW m \in 1..n, m - 1 \in T
      PROVE  m \in T
  <2>1. PICK g : Is(g, m - 1)
    BY <1>3
  <2> DEFINE v == [s \in SUBSET (1..(m - 1)) |-> UpdateStop(g[s], list[m])]
  <2>2. PICK h : Continues(h, g, v, m)
    <3> HIDE DEF n, v
    <3> QED
      BY <1>1, Continued
  <2>3. {} \in SUBSET (1..(m - 1))
    OBVIOUS
  <2>4. \A s \in SUBSET (1..(m - 1)) : g[s] = Body(g, s)
    BY <2>1
  <2>5. ASSUME NEW s \in SUBSET (1..m)
        PROVE  h[s] = Body(h, s)
    BY <2>2, <2>3, <2>4 DEF Continues
  <2>6. Is(h, m)
    BY <2>2, <2>5 DEF Continues
  <2> HIDE DEF Is
  <2> QED
    BY <1>1, <2>6
<1>4. n \in T
  <2> HIDE DEF T, n
  <2> QED
    BY <1>1, <1>2, <1>3, CountUp
<1>5. \A s \in SUBSET (1..n) : iter[s] = Body(iter, s)
  <2>1. Is(iter, n)
    BY <1>1, <1>4
  <2> HIDE DEF iter
  <2> QED
    BY <2>1
<1>6. f[n] = UpdateAll(d, list)
  BY <1>1 DEF UpdateAll, FoldLeft, MapThenFoldSet
<1>7. f[0] = d
  <2>1. 1..0 = {} /\ 0 \in 0..n
    BY <1>1
  <2> HIDE DEF iter
  <2> QED
    BY <1>5, <2>1
<1>8. ASSUME NEW m \in 1..n
      PROVE  f[m] = UpdateStop(f[m - 1], list[m])
  <2>1. f[m] = iter[1..m] /\ f[m - 1] = iter[1..(m - 1)]
    BY <1>1
  <2>2. /\ Max(1..m) = m /\ (1..m) \ {m} = 1..(m - 1)
        /\ 1..m \in SUBSET (1..n) /\ 1..m # {}
    <3> HIDE DEF n
    <3> QED
      BY <1>1, FirstNumbers, Zenon
  <2> HIDE DEF iter, f, n
  <2> QED
    BY <1>5, <2>1, <2>2
<1> HIDE DEF f
<1> QED
  BY <1>6, <1>7, <1>8 DEF IsRowOfEntries

--------------------------------------------------------------------------------
(* Positions and delays.                                                   *)

\* What a selector looks for.
Selects(selector, x) ==
    /\ selector.stop # NoText \/ selector.sequence # NoTime
    /\ selector.stop \in {NoText, x.stop}
    /\ selector.sequence \in {NoTime, x.sequence}

(* It finds the first stop there is, or none.                              *)
LEMMA PositionIs ==
  ASSUME NEW selector, NEW list, IsList(list), NEW i, i = PositionOf(selector, list)
  PROVE  /\ i \in 0..Len(list) /\ Len(list) \in Nat
         /\ i = 0 => \A k \in 1..Len(list) : ~Selects(selector, list[k])
         /\ i # 0 => /\ Selects(selector, list[i])
                     /\ \A k \in 1..(i - 1) : ~Selects(selector, list[k])
<1> DEFINE I == {k \in 1..Len(list) : Selects(selector, list[k])}
<1>1. Len(list) \in Nat
  BY DEF IsList
<1>2. i = IF I # {} THEN Min(I) ELSE 0
  BY DEF PositionOf, SelectInSeq, Selects
<1>3. I \in SUBSET Nat /\ I \in SUBSET (1..Len(list))
  BY <1>1
<1>4. I # {} => Min(I) \in I /\ \A k \in I : Min(I) <= k
  <2> HIDE DEF I
  <2> QED
    BY <1>3, MinOfFinite
<1>5. CASE I = {}
  BY <1>1, <1>2, <1>5
<1>6. CASE I # {}
  <2>1. i \in I /\ \A k \in I : i <= k
    <3> HIDE DEF I
    <3> QED
      BY <1>2, <1>4, <1>6
  <2>2. \A k \in 1..(i - 1) : k \in 1..Len(list) /\ ~(i <= k)
    BY <1>1, <2>1
  <2> QED
    BY <1>1, <2>1, <2>2
<1> QED
  BY <1>5, <1>6

\* A list of the visits of which s before the one at M are gone.
IsMoved(list, visits, M, s) ==
    /\ IsList(visits) /\ IsList(list)
    /\ M \in Nat /\ s \in Nat /\ s <= M /\ M <= Len(visits) /\ Len(list) + s = Len(visits)
    /\ \A k \in (M + 1)..Len(visits) :
          list[k - s].stop = visits[k].stop /\ list[k - s].sequence = visits[k].sequence
    /\ \A i \in 1..(M - s) : \E k \in 1..M :
          list[i].stop = visits[k].stop /\ list[i].sequence = visits[k].sequence

(* What is found behind those is found in its new place.                   *)
LEMMA PositionShifts ==
  ASSUME NEW visits, NEW list, NEW s, NEW M, IsMoved(list, visits, M, s),
         NEW selector, PositionOf(selector, visits) > M
  PROVE  PositionOf(selector, list) = PositionOf(selector, visits) - s
<1> USE DEF IsMoved
<1> DEFINE n == Len(visits)
           i == PositionOf(selector, visits)
           r == PositionOf(selector, list)
<1>1. /\ i \in 0..n /\ n \in Nat
      /\ i # 0 => Selects(selector, visits[i]) /\ \A k \in 1..(i - 1) : ~Selects(selector, visits[k])
  BY PositionIs
<1>2. /\ r \in 0..Len(list) /\ Len(list) \in Nat
      /\ r = 0 => \A k \in 1..Len(list) : ~Selects(selector, list[k])
      /\ r # 0 => Selects(selector, list[r]) /\ \A k \in 1..(r - 1) : ~Selects(selector, list[k])
  BY PositionIs
<1> HIDE DEF i, r
<1>3. i > M /\ i # 0 /\ i \in (M + 1)..n /\ i - s \in 1..Len(list)
  BY <1>1, <1>2 DEF i
<1> HIDE DEF n
<1>4. Selects(selector, list[i - s])
  BY <1>1, <1>3 DEF Selects, n
<1>5. r # 0 /\ r <= i - s
  <2>1. r # 0
    BY <1>2, <1>3, <1>4
  <2>2. ASSUME r > i - s
        PROVE  FALSE
    <3>1. i - s \in 1..(r - 1)
      BY <1>2, <1>3, <2>2
    <3> QED
      BY <1>2, <1>4, <2>1, <3>1
  <2> QED
    BY <1>1, <1>2, <2>1, <2>2
<1>6. ASSUME r < i - s
      PROVE  FALSE
  <2>1. Selects(selector, list[r])
    BY <1>2, <1>5
  <2>2. CASE r <= M - s
    <3>1. r \in 1..(M - s)
      BY <1>2, <1>5, <2>2
    <3>2. PICK k \in 1..M : list[r].stop = visits[k].stop /\ list[r].sequence = visits[k].sequence
      BY <3>1
    <3>3. Selects(selector, visits[k]) /\ k \in 1..(i - 1)
      BY <1>1, <1>3, <2>1, <3>2 DEF Selects
    <3> QED
      BY <1>1, <1>3, <3>3
  <2>3. CASE ~(r <= M - s)
    <3>1. r + s \in (M + 1)..n /\ r + s \in 1..(i - 1) /\ (r + s) - s = r
      BY <1>1, <1>2, <1>3, <1>5, <1>6, <2>3
    <3>2. Selects(selector, visits[r + s])
      BY <2>1, <3>1 DEF Selects, n
    <3> QED
      BY <1>1, <1>3, <3>1, <3>2
  <2> QED
    BY <2>2, <2>3
<1>7. r = i - s
  BY <1>1, <1>2, <1>5, <1>6
<1> QED
  BY <1>7 DEF i, r

(* The delay behind the first changes, by counting up.                     *)
LEMMA DelaysAre ==
  ASSUME NEW changes, IsList(changes), \A n \in 1..Len(changes) : changes[n].delay \in Int,
         NEW visits, NEW k
  PROVE  LET sum == DelayBehind(changes, visits, k)
         IN  /\ sum[0] = 0
             /\ \A n \in 1..Len(changes) :
                   sum[n] = sum[n - 1] + IF Max(Replaced(changes[n], visits)) < k THEN changes[n].delay ELSE 0
             /\ \A n \in 0..Len(changes) : sum[n] \in Int
<1> DEFINE n == Len(changes)
           Adds(m) == IF Max(Replaced(changes[m], visits)) < k THEN changes[m].delay ELSE 0
           Body(g, m) == IF m = 0 THEN 0 ELSE g[m - 1] + Adds(m)
           Is(g, m) == g = [x \in 0..m |-> Body(g, x)]
           T == {m \in 0..n : \E g : Is(g, m)}
           sum == DelayBehind(changes, visits, k)
<1>1. n \in Nat
  BY DEF IsList
<1>2. sum = CHOOSE g : Is(g, n)
  BY DEF DelayBehind
<1>3. \A m \in 1..n : Adds(m) \in Int
  OBVIOUS
<1> HIDE DEF n, Adds, sum
<1>4. 0 \in T
  <2>1. Is([x \in 0..0 |-> 0], 0)
    OBVIOUS
  <2> HIDE DEF Is
  <2> QED
    BY <1>1, <2>1
<1>5. ASSUME NEW m \in 1..n, m - 1 \in T
      PROVE  m \in T
  <2>1. PICK g : Is(g, m - 1)
    BY <1>5
  <2> DEFINE h == [x \in 0..m |-> IF x = m THEN g[m - 1] + Adds(m) ELSE g[x]]
  <2>2. \A x \in 0..(m - 1) : g[x] = Body(g, x)
    BY <2>1
  <2>3. ASSUME NEW x \in 0..m
        PROVE  h[x] = Body(h, x)
    <3>1. CASE x = m
      BY <1>1, <3>1
    <3>2. CASE x # m
      <4>1. x \in 0..(m - 1) /\ (x # 0 => x - 1 \in 0..(m - 1) /\ x - 1 # m /\ x - 1 \in 0..m)
        BY <1>1, <3>2
      <4>2. h[x] = g[x] /\ (x # 0 => h[x - 1] = g[x - 1])
        BY <3>2, <4>1
      <4> HIDE DEF h
      <4> QED
        BY <2>2, <4>1, <4>2
    <3> QED
      BY <3>1, <3>2
  <2>4. h = [x \in 0..m |-> h[x]]
    OBVIOUS
  <2> HIDE DEF h
  <2>5. Is(h, m)
    BY <2>3, <2>4
  <2> HIDE DEF Is
  <2> QED
    BY <1>1, <2>5
<1>6. n \in T
  <2> HIDE DEF T
  <2> QED
    BY <1>1, <1>4, <1>5, CountUp
<1>7. Is(sum, n)
  <2>1. \E g : Is(g, n)
    BY <1>6
  <2> HIDE DEF Is
  <2> QED
    BY <1>2, <2>1
<1>8. \A m \in 0..n : sum[m] = Body(sum, m)
  BY <1>7
<1>9. sum[0] = 0 /\ \A m \in 1..n : sum[m] = sum[m - 1] + Adds(m)
  BY <1>1, <1>8
<1> DEFINE U == {m \in 0..n : sum[m] \in Int}
<1>10. \A m \in 0..n : sum[m] \in Int
  <2>1. ASSUME NEW m \in 0..n
        PROVE  m \in U
    <3> DEFINE W == {x \in 0..m : x \in U}
    <3>1. 0 \in W
      BY <1>1, <1>9
    <3>2. ASSUME NEW x \in 1..m, x - 1 \in W
          PROVE  x \in W
      <4>1. x \in 1..n /\ x \in 0..m
        BY <1>1
      <4> QED
        BY <1>1, <1>3, <1>9, <3>2, <4>1
    <3>3. m \in Nat
      BY <1>1
    <3> HIDE DEF W
    <3>4. m \in W
      BY <3>1, <3>2, <3>3, CountUp
    <3> QED
      BY <3>4 DEF W
  <2> QED
    BY <2>1
<1> QED
  BY <1>9, <1>10 DEF n, Adds, sum

--------------------------------------------------------------------------------
(* What a change does to a page.                                           *)

PageFields == {"step", "status", "attempt", "got", "now", "date", "stops", "shown", "mods", "dropped",
               "alerts", "cancelled", "deleted", "asked"}

\* A page after changes: it panicked, or only its stops are others.
IsModified(q, p) ==
    /\ DOMAIN q = PageFields
    /\ \A field \in PageFields \ {"step", "status", "stops", "dropped"} : q[field] = p[field]
    /\ \/ q.step = p.step
       \/ q.step = "sent" /\ q.status = 500

(* The end of a request changes the answer only.                           *)
LEMMA EndIs ==
  ASSUME NEW p, DOMAIN p = PageFields, NEW status
  PROVE  /\ DOMAIN End(p, status) = PageFields
         /\ End(p, status).step = "sent" /\ End(p, status).status = status
         /\ \A field \in PageFields \ {"step", "status"} : End(p, status)[field] = p[field]
<1>1. "step" \in PageFields /\ "status" \in PageFields
  BY DEF PageFields
<1> QED
  BY <1>1 DEF End

LEMMA ModifyKeeps ==
  ASSUME NEW p, NEW q, IsModified(q, p), NEW change
  PROVE  IsModified(Modify(q, change), p)
<1> DEFINE new == Modify(q, change)
<1>1. PICK stops, dropped :
         \/ new = q
         \/ new = Panicked(q)
         \/ new = [q EXCEPT !.stops = stops, !.dropped = dropped]
  BY DEF Modify
<1> HIDE DEF new
<1>2. ASSUME new = q
      PROVE  IsModified(new, p)
  BY <1>2
<1>3. ASSUME new = Panicked(q)
      PROVE  IsModified(new, p)
  BY <1>3, EndIs DEF Panicked, IsModified
<1>4. ASSUME new = [q EXCEPT !.stops = stops, !.dropped = dropped]
      PROVE  IsModified(new, p)
  <2>1. {"step", "status", "stops", "dropped"} \subseteq PageFields
    BY DEF PageFields
  <2>2. DOMAIN q = PageFields /\ DOMAIN new = PageFields
    BY <1>4 DEF IsModified
  <2>3. \A field \in PageFields \ {"stops", "dropped"} : new[field] = q[field]
    BY <1>4, <2>2
  <2>4. new.step = q.step /\ new.status = q.status
    BY <2>1, <2>3
  <2> QED
    BY <2>2, <2>3, <2>4 DEF IsModified
<1>5. IsModified(new, p)
  BY <1>1, <1>2, <1>3, <1>4
<1> QED
  BY <1>5 DEF new

LEMMA ModifyAllKeeps ==
  ASSUME NEW p, DOMAIN p = PageFields, NEW list, IsList(list)
  PROVE  IsModified(ModifyAll(p, list), p)
<1> DEFINE n == Len(list)
<1>1. n \in Nat
  BY DEF IsList
<1>2. PICK f : IsRowOfChanges(f, p, list)
  BY RowOfChanges
<1> DEFINE T == {m \in 0..n : IsModified(f[m], p)}
<1>3. 0 \in T
  BY <1>1, <1>2 DEF IsRowOfChanges, IsModified
<1>4. ASSUME NEW m \in 1..n, m - 1 \in T
      PROVE  m \in T
  <2>1. f[m] = Modify(f[m - 1], list[m]) /\ IsModified(f[m - 1], p)
    BY <1>2, <1>4 DEF IsRowOfChanges
  <2>2. IsModified(f[m], p)
    BY <2>1, ModifyKeeps
  <2> QED
    BY <1>1, <2>2
<1>5. n \in T
  <2> HIDE DEF T
  <2> QED
    BY <1>1, <1>3, <1>4, CountUp
<1> QED
  BY <1>2, <1>5 DEF IsRowOfChanges

(* A list of rows from the one at a to the one at b.                       *)
LEMMA PartOf ==
  ASSUME NEW list, IsList(list), NEW a \in Int, NEW b \in Int, 1 <= a, b <= Len(list), a <= b + 1
  PROVE  /\ IsList(SubSeq(list, a, b)) /\ Len(SubSeq(list, a, b)) = b - a + 1
         /\ \A k \in 1..(b - a + 1) : SubSeq(list, a, b)[k] = list[a + k - 1]
         /\ \A k \in a..b : list[k] \in Range(SubSeq(list, a, b))
<1> DEFINE part == SubSeq(list, a, b)
<1>1. /\ Len(list) \in Nat /\ list \in Seq(Range(list)) /\ DOMAIN list = 1..Len(list)
      /\ \A k \in a..b : list[k] \in Range(list)
  BY DEF IsList, Range
<1>2. /\ part \in Seq(Range(list))
      /\ Len(part) = IF a <= b THEN b - a + 1 ELSE 0
      /\ \A k \in 1..(b - a + 1) : part[k] = list[a + k - 1]
  BY <1>1, SubSeqProperties
<1> HIDE DEF part
<1>3. Len(part) = b - a + 1 /\ DOMAIN part = 1..Len(part)
  BY <1>2
<1>4. part \in Seq(Range(part))
  <2>1. part \in [1..Len(part) -> Range(list)]
    BY <1>2, LenProperties
  <2>2. part \in [1..Len(part) -> Range(part)]
    BY <1>3, <2>1 DEF Range
  <2>3. Len(part) \in Nat
    BY <1>2, LenProperties
  <2> QED
    BY <2>2, <2>3
<1>5. ASSUME NEW k \in a..b
      PROVE  list[k] \in Range(part)
  <2>1. k - a + 1 \in 1..(b - a + 1) /\ a + (k - a + 1) - 1 = k
    OBVIOUS
  <2>2. k - a + 1 \in DOMAIN part /\ part[k - a + 1] = list[k]
    BY <1>2, <1>3, <2>1
  <2> QED
    BY <2>2 DEF Range
<1> QED
  BY <1>2, <1>3, <1>4, <1>5 DEF IsList, part

(* Two lists one behind the other.                                         *)
LEMMA BothOf ==
  ASSUME NEW a, NEW b, IsList(a), IsList(b)
  PROVE  /\ IsList(a \o b) /\ Len(a \o b) = Len(a) + Len(b)
         /\ Len(a) \in Nat /\ Len(b) \in Nat
         /\ \A i \in 1..(Len(a) + Len(b)) : (a \o b)[i] = IF i <= Len(a) THEN a[i] ELSE b[i - Len(a)]
         /\ Range(a \o b) = Range(a) \cup Range(b)
<1> DEFINE S == Range(a) \cup Range(b)
<1>1. a \in Seq(S) /\ b \in Seq(S)
  BY SeqMonotonic DEF IsList
<1>2. /\ Len(a \o b) = Len(a) + Len(b)
      /\ \A i \in 1..(Len(a) + Len(b)) : (a \o b)[i] = IF i <= Len(a) THEN a[i] ELSE b[i - Len(a)]
  <2> HIDE DEF S
  <2> QED
    BY <1>1, ConcatProperties
<1>3. Len(a) \in Nat /\ Len(b) \in Nat
  BY DEF IsList
<1>4. IsList(a \o b) /\ Range(a \o b) = Range(a) \cup Range(b)
  BY RangeOfBoth
<1> QED
  BY <1>2, <1>3, <1>4

\* p after the change of the rows from i to j of q.
IsReplaced(p, q, i, j, delay) ==
    LET gone == j - i + 1
    IN  /\ IsList(p.stops) /\ IsList(p.dropped)
        /\ Len(p.stops) = Len(q.stops) - gone
        /\ \A k \in 1..(i - 1) : p.stops[k] = q.stops[k]
        /\ \A k \in (j + 1)..Len(q.stops) : p.stops[k - gone] = Later(q.stops[k], delay)
        /\ Len(p.dropped) = Len(q.dropped) + gone
        /\ Range(q.dropped) \subseteq Range(p.dropped)
        /\ \A k \in i..j : q.stops[k] \in Range(p.dropped)

(* A change with an end replaces rows, and moves those behind; or the page *)
(* panics.                                                                 *)
LEMMA ModifyReplaces ==
  ASSUME NEW q, DOMAIN q = PageFields, IsList(q.stops), IsList(q.dropped), q.step # "sent", NEW change,
         NEW i, i = PositionOf(change.from, q.stops), NEW j, j = PositionOf(change.to, q.stops),
         1 <= i, i <= j, NEW p, p = Modify(q, change)
  PROVE  p.step = "sent" \/ (p.step = q.step /\ IsReplaced(p, q, i, j, change.delay))
<1> DEFINE n == Len(q.stops)
           gone == j - i + 1
           front == SubSeq(q.stops, 1, i - 1)
           taken == SubSeq(q.stops, i, j)
           behind == SubSeq(q.stops, j + 1, n)
           moved == [k \in DOMAIN behind |-> Later(behind[k], change.delay)]
           reference == q.stops[IF i = 1 THEN 1 ELSE i - 1]
<1>1. n \in Nat /\ i \in 1..n /\ j \in 1..n
  BY PositionIs
<1>2. \/ p = Panicked(q)
      \/ p = [q EXCEPT !.stops = front \o moved, !.dropped = @ \o taken]
  <2>1. i # 0 /\ j # 0 /\ ~(j \in 1..(i - 2))
    BY <1>1
  <2>2. \/ p = Panicked(q)
        \/ p = [q EXCEPT !.stops = SubSeq(@, 1, i - 1) \o [k \in DOMAIN behind |-> Later(behind[k], change.delay)],
                         !.dropped = @ \o taken]
    <3> HIDE DEF taken
    <3>1. behind = SubSeq(q.stops, (IF j = 0 THEN i ELSE j) + 1, Len(q.stops))
      BY <2>1
    <3> HIDE DEF behind
    <3> QED
      BY <2>1, <3>1 DEF Modify, taken
  <2> HIDE DEF behind, taken
  <2> QED
    BY <2>2
<1>3. CASE p = Panicked(q)
  BY <1>3 DEF Panicked, End, PageFields
<1>4. CASE p = [q EXCEPT !.stops = front \o moved, !.dropped = @ \o taken]
  <2>1. p.stops = front \o moved /\ p.dropped = q.dropped \o taken /\ p.step = q.step
    <3> HIDE DEF front, moved, taken
    <3> QED
      BY <1>4 DEF PageFields
  <2>2. /\ IsList(front) /\ Len(front) = i - 1
        /\ \A k \in 1..(i - 1) : front[k] = q.stops[k]
    <3>1. 1 \in Int /\ i - 1 \in Int /\ i - 1 <= n /\ 1 <= (i - 1) + 1 /\ (i - 1) - 1 + 1 = i - 1
      BY <1>1
    <3> HIDE DEF front
    <3>2. /\ IsList(front) /\ Len(front) = (i - 1) - 1 + 1
          /\ \A k \in 1..((i - 1) - 1 + 1) : front[k] = q.stops[1 + k - 1]
      BY <3>1, PartOf DEF n, front
    <3> QED
      BY <1>1, <3>1, <3>2
  <2>3. /\ IsList(taken) /\ Len(taken) = gone
        /\ \A k \in i..j : q.stops[k] \in Range(taken)
    <3>1. i \in Int /\ j \in Int /\ j <= n /\ i <= j + 1
      BY <1>1
    <3> HIDE DEF taken
    <3> QED
      BY <3>1, PartOf DEF taken
  <2>4. /\ IsList(behind) /\ Len(behind) = n - j
        /\ \A k \in 1..(n - j) : behind[k] = q.stops[j + k]
    <3>1. j + 1 \in Int /\ n <= Len(q.stops) /\ 1 <= j + 1 /\ j + 1 <= n + 1 /\ n - (j + 1) + 1 = n - j
      BY <1>1
    <3>2. /\ IsList(behind) /\ Len(behind) = n - (j + 1) + 1
          /\ \A k \in 1..(n - (j + 1) + 1) : behind[k] = q.stops[(j + 1) + k - 1]
      <4> HIDE DEF behind
      <4>1. n \in Int
        BY <1>1
      <4> QED
        BY <3>1, <4>1, PartOf DEF behind
    <3>3. \A k \in 1..(n - j) : (j + 1) + k - 1 = j + k
      BY <1>1
    <3> HIDE DEF behind, n
    <3> QED
      BY <3>1, <3>2, <3>3
  <2> HIDE DEF front, taken, behind
  <2>5. /\ IsList(moved) /\ Len(moved) = n - j
        /\ \A k \in 1..(n - j) : moved[k] = Later(q.stops[j + k], change.delay)
    <3>1. DOMAIN behind = 1..(n - j) /\ n - j \in Nat
      BY <1>1, <2>4 DEF IsList
    <3>2. /\ DOMAIN moved = 1..(n - j)
          /\ \A k \in 1..(n - j) : moved[k] = Later(q.stops[j + k], change.delay)
          /\ moved = [k \in DOMAIN moved |-> moved[k]]
      <4>1. DOMAIN moved = 1..(n - j)
        BY <3>1
      <4>2. ASSUME NEW k \in 1..(n - j)
            PROVE  moved[k] = Later(q.stops[j + k], change.delay)
        <5>1. behind[k] = q.stops[j + k] /\ k \in DOMAIN behind
          BY <2>4, <3>1
        <5>2. moved[k] = Later(behind[k], change.delay)
          BY <5>1
        <5> HIDE DEF moved
        <5> QED
          BY <5>1, <5>2
      <4>3. moved = [k \in DOMAIN moved |-> moved[k]]
        OBVIOUS
      <4> HIDE DEF moved
      <4> QED
        BY <4>1, <4>2, <4>3
    <3> HIDE DEF moved
    <3>3. moved \in [1..(n - j) -> Range(moved)]
      BY <3>2 DEF Range
    <3>4. moved \in Seq(Range(moved)) /\ Len(moved) = n - j
      BY <3>1, <3>2, <3>3
    <3> QED
      BY <3>2, <3>4 DEF IsList
  <2> HIDE DEF moved
  <2>6. /\ IsList(p.stops) /\ Len(p.stops) = (i - 1) + (n - j)
        /\ \A k \in 1..((i - 1) + (n - j)) : p.stops[k] = IF k <= i - 1 THEN front[k] ELSE moved[k - (i - 1)]
    <3> DEFINE both == front \o moved
    <3>1. /\ IsList(both) /\ Len(both) = Len(front) + Len(moved)
          /\ \A k \in 1..(Len(front) + Len(moved)) :
                both[k] = IF k <= Len(front) THEN front[k] ELSE moved[k - Len(front)]
      BY <2>2, <2>5, BothOf
    <3> HIDE DEF both
    <3>2. p.stops = both
      BY <2>1 DEF both
    <3> QED
      BY <2>2, <2>5, <3>1, <3>2
  <2>7. /\ IsList(p.dropped) /\ Len(p.dropped) = Len(q.dropped) + gone
        /\ Range(p.dropped) = Range(q.dropped) \cup Range(taken)
    <3> DEFINE both == q.dropped \o taken
    <3>1. /\ IsList(both) /\ Len(both) = Len(q.dropped) + Len(taken)
          /\ Range(both) = Range(q.dropped) \cup Range(taken)
      BY <2>3, BothOf
    <3> HIDE DEF both
    <3>2. p.dropped = both
      BY <2>1 DEF both
    <3> QED
      BY <2>3, <3>1, <3>2
  <2>8. \A k \in 1..(i - 1) : p.stops[k] = q.stops[k]
    <3>1. \A k \in 1..(i - 1) : k \in 1..((i - 1) + (n - j)) /\ k <= i - 1
      BY <1>1
    <3> QED
      BY <2>2, <2>6, <3>1
  <2>9. ASSUME NEW k \in (j + 1)..n
        PROVE  p.stops[k - gone] = Later(q.stops[k], change.delay)
    <3>1. /\ k - gone \in 1..((i - 1) + (n - j)) /\ ~(k - gone <= i - 1)
          /\ (k - gone) - (i - 1) = k - j /\ k - j \in 1..(n - j) /\ j + (k - j) = k
      <4>1. k \in Int /\ j < k /\ k <= n /\ i \in Int /\ j \in Int /\ n \in Int
        BY <1>1
      <4>2. k - gone = (k - j) + (i - 1)
        BY <4>1
      <4> HIDE DEF n, gone
      <4> QED
        BY <1>1, <4>1, <4>2
    <3>2. p.stops[k - gone] = moved[(k - gone) - (i - 1)]
      BY <2>6, <3>1
    <3> QED
      BY <2>5, <3>1, <3>2
  <2>10. Len(p.stops) = n - gone
    BY <1>1, <2>6
  <2> QED
    BY <2>1, <2>3, <2>6, <2>7, <2>8, <2>9, <2>10 DEF IsReplaced
<1> QED
  BY <1>2, <1>3, <1>4

(* The visits a change replaces, if it has an end behind its start.        *)
LEMMA ReplacedIs ==
  ASSUME NEW change, NEW visits, IsList(visits), Replaced(change, visits) # {},
         NEW i, i = PositionOf(change.from, visits), NEW j, j = PositionOf(change.to, visits)
  PROVE  /\ i \in 1..Len(visits) /\ j \in 1..Len(visits) /\ i <= j
         /\ Replaced(change, visits) = i..j
         /\ Min(Replaced(change, visits)) = i /\ Max(Replaced(change, visits)) = j
<1>1. i \in 0..Len(visits) /\ j \in 0..Len(visits) /\ Len(visits) \in Nat
  BY PositionIs
<1>2. Replaced(change, visits) = IF i = 0 \/ j = 0 THEN {} ELSE i..j
  BY DEF Replaced
<1>3. i # 0 /\ j # 0 /\ Replaced(change, visits) = i..j /\ i..j # {}
  BY <1>2
<1>4. i \in 1..Len(visits) /\ j \in 1..Len(visits) /\ i <= j
  BY <1>1, <1>3
<1>5. Min(i..j) = i
  <2>1. i \in i..j /\ \A y \in i..j : i <= y
    BY <1>4
  <2>2. \A x \in i..j : (\A y \in i..j : x <= y) => x = i
    BY <1>4, <2>1
  <2> QED
    BY <2>1, <2>2 DEF Min
<1>6. Max(i..j) = j
  <2>1. j \in i..j /\ \A y \in i..j : j >= y
    BY <1>4
  <2>2. \A x \in i..j : (\A y \in i..j : x >= y) => x = j
    BY <1>4, <2>1
  <2> QED
    BY <2>1, <2>2 DEF Max
<1> QED
  BY <1>3, <1>4, <1>5, <1>6

\* The last visit the first m changes reach.
Reached(m, changes, visits) == IF m = 0 THEN 0 ELSE Max(Replaced(changes[m], visits))

TakenBy(m, k, changes, visits) == \E n \in 1..m : k \in Replaced(changes[n], visits)

RowFields == {"stop", "sequence", "arrival", "departure"}

AreRows(stops) == IsList(stops) /\ \A k \in 1..Len(stops) : RowFields \subseteq DOMAIN stops[k]

\* A list of rows after m changes: s are gone, those behind the last change stand by
\* their number in the trip, and those before it are about visits before it.
IsShifted(stops, dropped, m, changes, visits, origin) ==
    LET M == Reached(m, changes, visits)
        s == Len(dropped)
        Late(k) == DelayBehind(changes, visits, k)[m]
    IN  /\ AreRows(stops) /\ IsList(dropped)
        /\ s <= M /\ M \in 0..Len(visits)
        /\ Len(stops) + s = Len(visits)
        /\ \A k \in (M + 1)..Len(visits) : IsVisit(stops[k - s], visits[k], origin, Late(k))
        /\ \A k \in 1..M :
              IF TakenBy(m, k, changes, visits)
              THEN \E x \in Range(dropped) : IsVisit(x, visits[k], origin, Late(k))
              ELSE \E i \in 1..(M - s) : IsVisit(stops[i], visits[k], origin, Late(k))
        /\ \A i \in 1..(M - s) : \E k \in 1..M :
              stops[i].stop = visits[k].stop /\ stops[i].sequence = visits[k].sequence

\* Visits of a trip, with their times.
AreVisits(visits) ==
    /\ IsList(visits)
    /\ \A k \in 1..Len(visits) : visits[k].arrival \in Int /\ visits[k].departure \in Int

\* Changes that come one behind the other, with numbers for delays.
AreChanges(changes, visits, origin) ==
    /\ IsList(changes)
    /\ \A n \in 1..Len(changes) : changes[n].delay \in Int
    /\ AreOrderly(changes, visits)
    /\ AreAfterEpoch(changes, visits, origin)

(* A row that is made later, of a visit at or after the epoch.             *)
LEMMA LaterIs ==
  ASSUME NEW x, RowFields \subseteq DOMAIN x, NEW visit, visit.arrival \in Int, visit.departure \in Int,
         NEW origin \in Int, NEW late \in Int, NEW delay \in Int, IsVisit(x, visit, origin, late),
         \A time \in {visit.arrival, visit.departure} \ {NoTime} : origin + time + late >= 0
  PROVE  RowFields \subseteq DOMAIN Later(x, delay) /\ IsVisit(Later(x, delay), visit, origin, late + delay)
<1> DEFINE y == Later(x, delay)
<1>1. y = [x EXCEPT !.arrival = IF x.arrival = NoTime THEN x.arrival ELSE x.arrival + delay,
                    !.departure = IF x.departure = NoTime THEN x.departure ELSE x.departure + delay]
  BY DEF Later
<1> HIDE DEF y
<1>2. /\ DOMAIN y = DOMAIN x /\ y.stop = x.stop /\ y.sequence = x.sequence
      /\ y.arrival = IF x.arrival = NoTime THEN x.arrival ELSE x.arrival + delay
      /\ y.departure = IF x.departure = NoTime THEN x.departure ELSE x.departure + delay
  BY <1>1 DEF RowFields
<1>3. /\ visit.arrival # NoTime => origin + visit.arrival + late >= 0
      /\ visit.departure # NoTime => origin + visit.departure + late >= 0
  OBVIOUS
<1>4. y.arrival = IF visit.arrival = NoTime THEN NoTime ELSE origin + visit.arrival + (late + delay)
  BY <1>2, <1>3 DEF IsVisit, NoTime
<1>5. y.departure = IF visit.departure = NoTime THEN NoTime ELSE origin + visit.departure + (late + delay)
  BY <1>2, <1>3 DEF IsVisit, NoTime
<1>6. RowFields \subseteq DOMAIN y /\ IsVisit(y, visit, origin, late + delay)
  BY <1>2, <1>4, <1>5 DEF IsVisit
<1> QED
  BY <1>6 DEF y

(* The next change of an orderly list starts behind what the ones before   *)
(* have reached.                                                           *)
LEMMA NextIsBehind ==
  ASSUME NEW visits, IsList(visits), NEW changes, IsList(changes), AreOrderly(changes, visits),
         NEW m \in 1..Len(changes)
  PROVE  LET i == PositionOf(changes[m].from, visits)
             j == PositionOf(changes[m].to, visits)
         IN  /\ i \in 1..Len(visits) /\ j \in 1..Len(visits) /\ i <= j /\ Len(visits) \in Nat
             /\ Replaced(changes[m], visits) = i..j
             /\ Reached(m, changes, visits) = j
             /\ Reached(m - 1, changes, visits) < i /\ Reached(m - 1, changes, visits) \in Nat
             /\ \A k \in 1..Len(visits) : TakenBy(m - 1, k, changes, visits) => k <= Reached(m - 1, changes, visits)
<1> DEFINE i == PositionOf(changes[m].from, visits)
           j == PositionOf(changes[m].to, visits)
           From(n) == PositionOf(changes[n].from, visits)
           To(n) == PositionOf(changes[n].to, visits)
<1>1. DOMAIN changes = 1..Len(changes) /\ Len(changes) \in Nat /\ Len(visits) \in Nat
  BY DEF IsList
<1>2. \A n \in 1..Len(changes) :
         /\ From(n) \in 1..Len(visits) /\ To(n) \in 1..Len(visits) /\ From(n) <= To(n)
         /\ Replaced(changes[n], visits) = From(n)..To(n)
         /\ Min(Replaced(changes[n], visits)) = From(n) /\ Max(Replaced(changes[n], visits)) = To(n)
  <2> SUFFICES ASSUME NEW n \in 1..Len(changes)
               PROVE  /\ From(n) \in 1..Len(visits) /\ To(n) \in 1..Len(visits) /\ From(n) <= To(n)
                      /\ Replaced(changes[n], visits) = From(n)..To(n)
                      /\ Min(Replaced(changes[n], visits)) = From(n)
                      /\ Max(Replaced(changes[n], visits)) = To(n)
    OBVIOUS
  <2>1. Replaced(changes[n], visits) # {}
    BY <1>1 DEF AreOrderly
  <2> QED
    BY <2>1, ReplacedIs
<1>3. \A a, b \in 1..Len(changes) : a < b => To(a) < From(b)
  <2>1. \A a, b \in 1..Len(changes) :
           a < b => Max(Replaced(changes[a], visits)) < Min(Replaced(changes[b], visits))
    BY <1>1 DEF AreOrderly
  <2> HIDE DEF From, To
  <2> QED
    BY <1>2, <2>1
<1> HIDE DEF From, To
<1>4. Reached(m, changes, visits) = To(m)
  BY <1>1, <1>2 DEF Reached
<1>5. CASE m = 1
  <2>1. Reached(m - 1, changes, visits) = 0 /\ 1..(m - 1) = {}
    BY <1>5 DEF Reached
  <2>2. \A k : ~TakenBy(m - 1, k, changes, visits)
    BY <2>1 DEF TakenBy
  <2> QED
    BY <1>1, <1>2, <1>4, <2>1, <2>2 DEF From, To
<1>6. CASE m # 1
  <2>1. m - 1 \in 1..Len(changes) /\ m - 1 < m /\ m - 1 # 0
    BY <1>1, <1>6
  <2>2. Reached(m - 1, changes, visits) = To(m - 1)
    BY <1>2, <2>1 DEF Reached
  <2>3. To(m - 1) < From(m) /\ To(m - 1) \in Nat
    BY <1>1, <1>2, <1>3, <2>1
  <2>4. ASSUME NEW k \in 1..Len(visits), TakenBy(m - 1, k, changes, visits)
        PROVE  k <= To(m - 1)
    <3>1. PICK n \in 1..(m - 1) : k \in Replaced(changes[n], visits)
      BY <2>4 DEF TakenBy
    <3>2. n \in 1..Len(changes) /\ (n = m - 1 \/ n < m - 1)
      BY <1>1, <3>1
    <3>3. k \in From(n)..To(n) /\ From(n) \in Int /\ To(n) \in Int
      BY <1>1, <1>2, <3>1, <3>2
    <3>4. To(n) <= To(m - 1)
      <4>1. CASE n = m - 1
        BY <3>3, <4>1
      <4>2. CASE n < m - 1
        <5>1. To(n) < From(m - 1) /\ From(m - 1) <= To(m - 1) /\ From(m - 1) \in Int /\ To(m - 1) \in Int
          BY <1>1, <1>2, <1>3, <2>1, <3>2, <4>2
        <5> QED
          BY <3>3, <5>1
      <4> QED
        BY <3>2, <4>1, <4>2
    <3>5. To(m - 1) \in Int /\ k \in Int
      BY <1>1, <1>2, <2>1
    <3> QED
      BY <3>3, <3>4, <3>5
  <2> QED
    BY <1>1, <1>2, <1>4, <2>2, <2>3, <2>4 DEF From, To
<1> QED
  BY <1>5, <1>6

(* A change of an orderly list, on a page that those before it have left   *)
(* shifted: its ends are where the stops of its visits have moved to.      *)
LEMMA ShiftedNext ==
  ASSUME NEW visits, AreVisits(visits), NEW origin \in Int,
         NEW changes, AreChanges(changes, visits, origin), NEW m \in 1..Len(changes),
         NEW q, DOMAIN q = PageFields, q.step # "sent",
         IsShifted(q.stops, q.dropped, m - 1, changes, visits, origin),
         NEW p, p = Modify(q, changes[m])
  PROVE  p.step = "sent" \/ (p.step = q.step /\ IsShifted(p.stops, p.dropped, m, changes, visits, origin))
<1> DEFINE n == Len(visits)
           from == PositionOf(changes[m].from, visits)
           to == PositionOf(changes[m].to, visits)
           M == Reached(m - 1, changes, visits)
           s == Len(q.dropped)
           gone == to - from + 1
           delay == changes[m].delay
           Before(k) == DelayBehind(changes, visits, k)[m - 1]
           After(k) == DelayBehind(changes, visits, k)[m]
           Took(k) == TakenBy(m - 1, k, changes, visits)
           Takes(k) == TakenBy(m, k, changes, visits)
<1>1. /\ from \in 1..n /\ to \in 1..n /\ from <= to /\ n \in Nat
      /\ Replaced(changes[m], visits) = from..to /\ Reached(m, changes, visits) = to
      /\ M < from /\ M \in Nat
      /\ \A k \in 1..n : Took(k) => k <= M
  BY NextIsBehind DEF AreVisits, AreChanges
<1>2. /\ IsList(q.stops) /\ IsList(q.dropped) /\ s <= M /\ Len(q.stops) + s = n
      /\ \A k \in 1..Len(q.stops) : RowFields \subseteq DOMAIN q.stops[k]
      /\ \A k \in (M + 1)..n : IsVisit(q.stops[k - s], visits[k], origin, Before(k))
      /\ \A k \in 1..M :
            IF Took(k) THEN \E x \in Range(q.dropped) : IsVisit(x, visits[k], origin, Before(k))
            ELSE \E i \in 1..(M - s) : IsVisit(q.stops[i], visits[k], origin, Before(k))
      /\ \A i \in 1..(M - s) : \E k \in 1..M :
            q.stops[i].stop = visits[k].stop /\ q.stops[i].sequence = visits[k].sequence
  BY DEF IsShifted, AreRows
<1>3. Len(q.stops) \in Nat /\ s \in Nat /\ Len(changes) \in Nat /\ delay \in Int
  BY DEF IsShifted, AreRows, IsList, AreChanges
<1>4. \A k : After(k) = Before(k) + (IF to < k THEN delay ELSE 0) /\ Before(k) \in Int
  <2> SUFFICES ASSUME NEW k
               PROVE  After(k) = Before(k) + (IF to < k THEN delay ELSE 0) /\ Before(k) \in Int
    OBVIOUS
  <2>1. Max(Replaced(changes[m], visits)) = to
    BY <1>1, <1>3 DEF Reached
  <2>2. m - 1 \in 0..Len(changes)
    BY <1>3
  <2> QED
    BY <2>1, <2>2, DelaysAre DEF AreChanges
<1>5. \A k \in 1..n : Takes(k) <=> (Took(k) \/ k \in from..to)
  <2>1. 1..m = 1..(m - 1) \cup {m}
    BY <1>3
  <2> QED
    BY <1>1, <2>1 DEF TakenBy
<1>6. \A k \in 1..n : \A time \in {visits[k].arrival, visits[k].departure} \ {NoTime} :
         origin + time + Before(k) >= 0
  <2>1. m - 1 \in 0..Len(changes) /\ DOMAIN visits = 1..n
    BY <1>3 DEF AreVisits, IsList
  <2> QED
    BY <2>1 DEF AreChanges, AreAfterEpoch
<1> HIDE DEF Before, After, Took, Takes, n, M, delay, from, to, s
<1>7. /\ PositionOf(changes[m].from, q.stops) = from - s
      /\ PositionOf(changes[m].to, q.stops) = to - s
  <2>1. IsMoved(q.stops, visits, M, s)
    <3>1. /\ IsList(visits) /\ M <= n /\ M \in Nat /\ s \in Nat
          /\ \A k \in (M + 1)..n :
                q.stops[k - s].stop = visits[k].stop /\ q.stops[k - s].sequence = visits[k].sequence
      BY <1>1, <1>2, <1>3 DEF IsVisit, AreVisits
    <3> QED
      BY <1>2, <3>1 DEF IsMoved, n
  <2>2. from > M /\ to > M
    BY <1>1
  <2> QED
    BY <2>1, <2>2, PositionShifts DEF from, to
<1> DEFINE l == Len(q.stops)
<1>8. /\ n \in Nat /\ M \in Nat /\ from \in Nat /\ to \in Nat /\ s \in Nat /\ l \in Nat
      /\ from <= to /\ to <= n /\ M < from /\ s <= M /\ l + s = n
  <2> HIDE DEF l
  <2>1. from \in Nat /\ to \in Nat /\ to <= n
    BY <1>1
  <2> QED
    BY <1>1, <1>2, <1>3, <2>1 DEF l
<1>9. CASE p.step = "sent"
  BY <1>9
<1>10. CASE p.step # "sent"
  <2> DEFINE i == from - s
             j == to - s
  <2>1. /\ i \in Int /\ j \in Int /\ 1 <= i /\ i <= j /\ gone = j - i + 1 /\ gone \in Nat
        /\ M - s <= i - 1 /\ (M - s) \in Nat
    BY <1>8
  <2>2. p.step = q.step /\ IsReplaced(p, q, i, j, changes[m].delay)
    BY <1>2, <1>3, <1>7, <1>10, <2>1, ModifyReplaces
  <2> DEFINE t == Len(p.dropped)
  <2>3. /\ IsList(p.stops) /\ IsList(p.dropped)
        /\ Len(p.stops) = Len(q.stops) - gone
        /\ \A k \in 1..(i - 1) : p.stops[k] = q.stops[k]
        /\ \A k \in (j + 1)..Len(q.stops) : p.stops[k - gone] = Later(q.stops[k], delay)
        /\ t = s + gone
        /\ Range(q.dropped) \subseteq Range(p.dropped)
        /\ \A k \in i..j : q.stops[k] \in Range(p.dropped)
    BY <2>1, <2>2 DEF IsReplaced, delay, s
  <2>4. t <= to /\ to \in 0..n /\ Len(p.stops) + t = n /\ to - t = i - 1
    <3>1. Len(p.stops) = l - gone /\ t = s + gone
      BY <2>3
    <3> HIDE DEF l, t
    <3> QED
      BY <1>8, <2>1, <3>1
  <2>5. ASSUME NEW k \in (to + 1)..n
        PROVE  IsVisit(p.stops[k - t], visits[k], origin, After(k))
    <3>1. k - s \in (j + 1)..Len(q.stops) /\ (k - s) - gone = k - t /\ k \in (M + 1)..n /\ k \in 1..n /\ to < k
      <4>1. k \in Int /\ to < k /\ k <= n /\ t = s + gone /\ t \in Int /\ j + s = to
        BY <1>8, <2>1, <2>3
      <4>2. k - s \in (j + 1)..l /\ k \in (M + 1)..n /\ k \in 1..n
        BY <1>8, <2>1, <4>1
      <4>3. (k - s) - gone = k - t
        BY <1>8, <2>1, <4>1
      <4> QED
        BY <4>1, <4>2, <4>3
    <3>2. p.stops[k - t] = Later(q.stops[k - s], delay)
      BY <2>3, <3>1
    <3>3. RowFields \subseteq DOMAIN q.stops[k - s] /\ IsVisit(q.stops[k - s], visits[k], origin, Before(k))
      <4>1. k - s \in 1..Len(q.stops)
        BY <1>8, <3>1
      <4> QED
        BY <1>2, <3>1, <4>1
    <3>4. Before(k) \in Int /\ After(k) = Before(k) + delay
      BY <1>4, <3>1
    <3>5. visits[k].arrival \in Int /\ visits[k].departure \in Int
      BY <3>1 DEF AreVisits, n
    <3>6. IsVisit(Later(q.stops[k - s], delay), visits[k], origin, Before(k) + delay)
      BY <1>3, <1>6, <3>1, <3>3, <3>4, <3>5, LaterIs
    <3> QED
      BY <3>2, <3>4, <3>6
  <2>6. ASSUME NEW k \in 1..to
        PROVE  IF Takes(k) THEN \E x \in Range(p.dropped) : IsVisit(x, visits[k], origin, After(k))
               ELSE \E x \in 1..(to - t) : IsVisit(p.stops[x], visits[k], origin, After(k))
    <3>1. k \in 1..n /\ After(k) = Before(k)
      BY <1>1, <1>4
    <3>2. CASE k <= M
      <4>1. k \in 1..M /\ ~(k \in from..to) /\ (Takes(k) <=> Took(k))
        BY <1>1, <1>5, <3>1, <3>2
      <4>2. CASE Took(k)
        BY <1>2, <2>3, <3>1, <4>1, <4>2
      <4>3. CASE ~Took(k)
        <5>1. PICK x \in 1..(M - s) : IsVisit(q.stops[x], visits[k], origin, Before(k))
          BY <1>2, <4>1, <4>3
        <5>2. x \in 1..(i - 1) /\ x \in 1..(to - t)
          BY <2>1, <2>4, <5>1
        <5> QED
          BY <2>3, <3>1, <4>1, <4>3, <5>1, <5>2
      <4> QED
        BY <4>2, <4>3
    <3>3. CASE ~(k <= M)
      <4>1. k \in (M + 1)..n /\ ~Took(k) /\ IsVisit(q.stops[k - s], visits[k], origin, After(k))
        BY <1>1, <1>2, <1>3, <3>1, <3>3
      <4>2. CASE k < from
        <5>1. ~(k \in from..to) /\ ~Takes(k) /\ k - s \in 1..(i - 1) /\ k - s \in 1..(to - t)
          BY <1>1, <1>2, <1>3, <1>5, <2>1, <2>4, <3>1, <4>1, <4>2
        <5> QED
          BY <2>3, <4>1, <5>1
      <4>3. CASE ~(k < from)
        <5>1. k \in from..to /\ Takes(k) /\ k - s \in i..j
          BY <1>1, <1>2, <1>3, <1>5, <3>1, <4>3
        <5> QED
          BY <2>3, <4>1, <5>1
      <4> QED
        BY <4>2, <4>3
    <3> QED
      BY <3>2, <3>3
  <2>7. ASSUME NEW x \in 1..(to - t)
        PROVE  \E k \in 1..to : p.stops[x].stop = visits[k].stop /\ p.stops[x].sequence = visits[k].sequence
    <3>1. x \in 1..(i - 1) /\ p.stops[x] = q.stops[x]
      BY <2>3, <2>4
    <3>2. CASE x <= M - s
      <4>1. x \in 1..(M - s)
        BY <2>1, <3>1, <3>2
      <4>2. PICK k \in 1..M : q.stops[x].stop = visits[k].stop /\ q.stops[x].sequence = visits[k].sequence
        BY <1>2, <4>1
      <4>3. k \in 1..to
        BY <1>1
      <4> QED
        BY <3>1, <4>2, <4>3
    <3>3. CASE ~(x <= M - s)
      <4>1. x + s \in (M + 1)..n /\ (x + s) - s = x /\ x + s \in 1..to
        <5>1. x \in Nat /\ x <= from - s - 1 /\ x > M - s
          BY <1>8, <3>1, <3>3
        <5> QED
          BY <1>8, <5>1
      <4>2. IsVisit(q.stops[x], visits[x + s], origin, Before(x + s))
        BY <1>2, <4>1
      <4> QED
        BY <3>1, <4>1, <4>2 DEF IsVisit
    <3> QED
      BY <3>2, <3>3
  <2>8. ASSUME NEW k \in 1..Len(p.stops)
        PROVE  RowFields \subseteq DOMAIN p.stops[k]
    <3>1. CASE k <= i - 1
      <4>1. k \in 1..(i - 1) /\ k \in 1..Len(q.stops)
        BY <1>8, <3>1
      <4> QED
        BY <1>2, <2>3, <4>1
    <3>2. CASE ~(k <= i - 1)
      <4>1. k + gone \in (j + 1)..Len(q.stops) /\ (k + gone) - gone = k /\ k + gone \in 1..Len(q.stops)
        <5>1. Len(p.stops) = l - gone
          BY <2>3
        <5>2. k \in Int /\ k >= 1 /\ k <= l - gone
          BY <1>8, <5>1
        <5> QED
          BY <1>8, <3>2, <5>2
      <4>2. RowFields \subseteq DOMAIN q.stops[k + gone] /\ p.stops[k] = Later(q.stops[k + gone], delay)
        BY <1>2, <2>3, <4>1
      <4> QED
        BY <4>2 DEF Later
    <3> QED
      BY <3>1, <3>2
  <2>9. IsShifted(p.stops, p.dropped, m, changes, visits, origin)
    BY <1>1, <2>3, <2>4, <2>5, <2>6, <2>7, <2>8 DEF AreRows, IsShifted, n, After, Takes, s
  <2> QED
    BY <2>2, <2>9
<1> QED
  BY <1>9, <1>10

\* The rows of the visits as they are scheduled.
IsScheduleOf(stops, visits, origin) ==
    /\ AreRows(stops) /\ Len(stops) = Len(visits)
    /\ \A k \in 1..Len(visits) : IsVisit(stops[k], visits[k], origin, 0)

LEMMA ShiftedAtFirst ==
  ASSUME NEW visits, IsList(visits), NEW origin, NEW stops, IsScheduleOf(stops, visits, origin),
         NEW changes, IsList(changes), \A n \in 1..Len(changes) : changes[n].delay \in Int
  PROVE  IsShifted(stops, <<>>, 0, changes, visits, origin)
<1>1. Reached(0, changes, visits) = 0
  BY DEF Reached
<1>2. IsList(<<>>) /\ Len(<<>>) = 0
  BY DEF IsList, Range
<1>3. \A k : DelayBehind(changes, visits, k)[0] = 0
  <2> SUFFICES ASSUME NEW k
               PROVE  DelayBehind(changes, visits, k)[0] = 0
    OBVIOUS
  <2> QED
    BY DelaysAre
<1>4. Len(visits) \in Nat
  BY DEF IsList
<1>5. /\ AreRows(stops) /\ Len(stops) + 0 = Len(visits) /\ 0 \in 0..Len(visits)
      /\ \A k \in (0 + 1)..Len(visits) : IsVisit(stops[k - 0], visits[k], origin, 0)
  BY <1>4 DEF IsScheduleOf, AreRows, IsList
<1> QED
  BY <1>1, <1>2, <1>3, <1>5 DEF IsShifted

(* What all changes leave.                                                 *)
LEMMA ShiftedShows ==
  ASSUME NEW visits, AreVisits(visits), NEW origin \in Int,
         NEW changes, IsList(changes), changes = <<>> \/ AreOrderly(changes, visits),
         NEW stops, NEW dropped, IsShifted(stops, dropped, Len(changes), changes, visits, origin)
  PROVE  AreRows(stops) /\ ShowsAll(stops, dropped, changes, visits, origin)
<1> DEFINE c == Len(changes)
           n == Len(visits)
           M == Reached(c, changes, visits)
           s == Len(dropped)
           Late(k) == DelayBehind(changes, visits, k)[c]
           Takes(k) == TakenBy(c, k, changes, visits)
<1>1. c \in Nat /\ DOMAIN changes = 1..c /\ n \in Nat /\ DOMAIN visits = 1..n /\ IsList(visits)
  BY DEF IsList, AreVisits
<1>2. \A k \in 1..n : Takes(k) => k <= M
  <2>1. CASE c = 0
    <3>1. 1..c = {}
      BY <2>1
    <3> QED
      BY <3>1 DEF TakenBy
  <2>2. CASE c # 0
    <3> DEFINE i == PositionOf(changes[c].from, visits)
               j == PositionOf(changes[c].to, visits)
    <3>1. c \in 1..c /\ changes # <<>>
      BY <1>1, <2>2
    <3>2. /\ i \in 1..n /\ j \in 1..n /\ i <= j
          /\ Replaced(changes[c], visits) = i..j /\ M = j
          /\ Reached(c - 1, changes, visits) < i /\ Reached(c - 1, changes, visits) \in Nat
          /\ \A k \in 1..n : TakenBy(c - 1, k, changes, visits) => k <= Reached(c - 1, changes, visits)
      BY <1>1, <3>1, NextIsBehind
    <3> HIDE DEF i, j, M
    <3>3. ASSUME NEW k \in 1..n, Takes(k)
          PROVE  k <= M
      <4>1. PICK x \in 1..c : k \in Replaced(changes[x], visits)
        BY <3>3 DEF TakenBy
      <4>2. CASE x = c
        BY <1>1, <3>2, <4>1, <4>2
      <4>3. CASE x # c
        <5>1. x \in 1..(c - 1)
          <6>1. x \in Int /\ 1 <= x /\ x <= c /\ c \in Nat
            BY <1>1, <4>1
          <6> HIDE DEF c
          <6> QED
            BY <4>3, <6>1
        <5>2. TakenBy(c - 1, k, changes, visits)
          BY <4>1, <5>1 DEF TakenBy
        <5> QED
          BY <1>1, <3>2, <5>2
      <4> QED
        BY <4>2, <4>3
    <3> QED
      BY <3>3
  <2> QED
    BY <2>1, <2>2
<1>3. /\ AreRows(stops) /\ IsList(dropped) /\ s <= M /\ M \in 0..n /\ Len(stops) + s = n
      /\ \A k \in (M + 1)..n : IsVisit(stops[k - s], visits[k], origin, Late(k))
      /\ \A k \in 1..M :
            IF Takes(k) THEN \E x \in Range(dropped) : IsVisit(x, visits[k], origin, Late(k))
            ELSE \E i \in 1..(M - s) : IsVisit(stops[i], visits[k], origin, Late(k))
  BY DEF IsShifted
<1>4. s \in Nat /\ Len(stops) \in Nat /\ DOMAIN stops = 1..Len(stops)
  BY <1>3 DEF AreRows, IsList
<1>5. \A k : Takes(k) <=> \E x \in DOMAIN changes : k \in Replaced(changes[x], visits)
  BY <1>1 DEF TakenBy
<1> HIDE DEF c, n, M, s, Late, Takes
<1>6. ASSUME NEW k \in 1..n
      PROVE  \E x \in Range(IF Takes(k) THEN dropped ELSE stops) : IsVisit(x, visits[k], origin, Late(k))
  <2>1. CASE k <= M /\ Takes(k)
    <3>1. k \in 1..M
      BY <1>1, <1>3, <2>1
    <3> QED
      BY <1>3, <2>1, <3>1
  <2>2. CASE k <= M /\ ~Takes(k)
    <3>1. k \in 1..M
      BY <1>1, <1>3, <2>2
    <3>2. PICK i \in 1..(M - s) : IsVisit(stops[i], visits[k], origin, Late(k))
      BY <1>3, <2>2, <3>1
    <3>3. i \in DOMAIN stops
      BY <1>1, <1>3, <1>4
    <3> QED
      BY <2>2, <3>2, <3>3 DEF Range
  <2>3. CASE ~(k <= M)
    <3>1. k \in (M + 1)..n /\ ~Takes(k)
      BY <1>1, <1>2, <1>3, <2>3
    <3>2. k - s \in DOMAIN stops
      BY <1>1, <1>3, <1>4, <3>1
    <3> QED
      BY <1>3, <3>1, <3>2 DEF Range
  <2> QED
    BY <2>1, <2>2, <2>3
<1>7. ShowsAll(stops, dropped, changes, visits, origin)
  <2>1. Len(stops) + Len(dropped) = Len(visits)
    BY <1>3 DEF n, s
  <2>2. \A k \in DOMAIN visits :
           \E x \in Range(IF \E y \in DOMAIN changes : k \in Replaced(changes[y], visits) THEN dropped ELSE stops) :
              IsVisit(x, visits[k], origin, DelayBehind(changes, visits, k)[Len(changes)])
    BY <1>1, <1>5, <1>6 DEF Late, c
  <2> QED
    BY <2>1, <2>2 DEF ShowsAll
<1> QED
  BY <1>3, <1>7

(* A page after all changes of a modification: each visit is shown or      *)
(* listed as taken, at its time with the delays behind the changes before, *)
(* though each change finds its ends among stops that have moved.          *)
LEMMA ModifiedShows ==
  ASSUME NEW visits, AreVisits(visits), NEW origin \in Int,
         NEW changes, AreChanges(changes, visits, origin),
         NEW p, DOMAIN p = PageFields, p.step # "sent", p.dropped = <<>>,
         IsScheduleOf(p.stops, visits, origin),
         NEW q, q = ModifyAll(p, changes)
  PROVE  q.step = "sent" \/ (AreRows(q.stops) /\ ShowsAll(q.stops, q.dropped, changes, visits, origin))
<1> DEFINE n == Len(changes)
           Good(x, m) == /\ DOMAIN x = PageFields
                         /\ x.step = "sent" \/ IsShifted(x.stops, x.dropped, m, changes, visits, origin)
<1>1. n \in Nat /\ IsList(changes)
  BY DEF AreChanges, IsList
<1>2. PICK f : IsRowOfChanges(f, p, changes)
  BY <1>1, RowOfChanges
<1>3. f[0] = p /\ f[n] = q /\ \A m \in 1..n : f[m] = Modify(f[m - 1], changes[m])
  BY <1>2 DEF IsRowOfChanges
<1> DEFINE T == {m \in 0..n : Good(f[m], m)}
<1>4. 0 \in T
  <2>1. IsShifted(p.stops, <<>>, 0, changes, visits, origin)
    BY <1>1, ShiftedAtFirst DEF AreChanges, AreVisits
  <2> QED
    BY <1>1, <1>3, <2>1
<1>5. ASSUME NEW m \in 1..n, m - 1 \in T
      PROVE  m \in T
  <2>1. DOMAIN f[m] = PageFields
    <3>1. IsModified(f[m - 1], f[m - 1])
      BY <1>5 DEF IsModified
    <3> QED
      BY <1>3, <3>1, ModifyKeeps DEF IsModified
  <2>2. CASE f[m - 1].step = "sent"
    <3>1. f[m] = f[m - 1]
      BY <1>3, <2>2 DEF Modify
    <3> QED
      BY <1>1, <2>1, <2>2, <3>1
  <2>3. CASE f[m - 1].step # "sent"
    <3>1. IsShifted(f[m - 1].stops, f[m - 1].dropped, m - 1, changes, visits, origin)
      BY <1>5, <2>3
    <3>2. f[m].step = "sent" \/ IsShifted(f[m].stops, f[m].dropped, m, changes, visits, origin)
      <4>1. m \in 1..Len(changes) /\ f[m] = Modify(f[m - 1], changes[m]) /\ DOMAIN f[m - 1] = PageFields
        BY <1>3, <1>5
      <4> HIDE DEF n, T
      <4> QED
        BY <2>3, <3>1, <4>1, ShiftedNext
    <3>3. Good(f[m], m)
      BY <2>1, <3>2
    <3> HIDE DEF Good
    <3> QED
      BY <1>1, <3>3
  <2> QED
    BY <2>2, <2>3
<1>6. n \in T
  <2> HIDE DEF T
  <2> QED
    BY <1>1, <1>4, <1>5, CountUp
<1>7. q.step = "sent" \/ IsShifted(q.stops, q.dropped, n, changes, visits, origin)
  BY <1>3, <1>6
<1> QED
  BY <1>1, <1>7, ShiftedShows DEF AreChanges


--------------------------------------------------------------------------------
(* What the entries of an update do to a page.                             *)

\* Rows about the same visits, at the same times of the schedule.
AreAlike(new, stops) ==
    /\ AreRows(new) /\ Len(new) = Len(stops)
    /\ \A k \in 1..Len(stops) : \A field \in RowFields : new[k][field] = stops[k][field]

LEMMA EntryKeeps ==
  ASSUME NEW stops, NEW new, AreAlike(new, stops), NEW entry
  PROVE  AreAlike(UpdateStop(new, entry), stops)
<1> DEFINE n == Len(new)
<1>1. IsList(new) /\ n \in Nat /\ DOMAIN new = 1..n /\ n = Len(stops)
  BY DEF AreAlike, AreRows, IsList
<1>2. ASSUME NEW i, NEW realtime, NEW skipped
      PROVE  AreAlike([new EXCEPT ![i].realtime = realtime, ![i].skipped = skipped], stops)
  <2> DEFINE s == [new EXCEPT ![i].realtime = realtime, ![i].skipped = skipped]
  <2>1. DOMAIN s = 1..n /\ s = [k \in 1..n |-> s[k]]
    BY <1>1
  <2>2. ASSUME NEW k \in 1..n
        PROVE  RowFields \subseteq DOMAIN s[k] /\ \A field \in RowFields : s[k][field] = stops[k][field]
    <3>1. RowFields \subseteq DOMAIN new[k] /\ \A field \in RowFields : new[k][field] = stops[k][field]
      BY <1>1 DEF AreAlike, AreRows
    <3>2. s[k] = new[k] \/ s[k] = [new[k] EXCEPT !.realtime = realtime, !.skipped = skipped]
      BY <1>1
    <3> HIDE DEF s
    <3> QED
      BY <3>1, <3>2 DEF RowFields
  <2> HIDE DEF s
  <2>3. s \in [1..n -> Range(s)]
    BY <2>1 DEF Range
  <2>4. s \in Seq(Range(s)) /\ Len(s) = n
    BY <1>1, <2>1, <2>3
  <2>5. AreAlike(s, stops)
    BY <1>1, <2>2, <2>4 DEF AreAlike, AreRows, IsList
  <2> QED
    BY <2>5 DEF s
<1>3. PICK i, realtime, skipped :
         \/ UpdateStop(new, entry) = new
         \/ UpdateStop(new, entry) = [new EXCEPT ![i].realtime = realtime, ![i].skipped = skipped]
  BY DEF UpdateStop
<1> QED
  BY <1>2, <1>3

LEMMA EntriesKeep ==
  ASSUME NEW stops, AreRows(stops), NEW list, IsList(list)
  PROVE  AreAlike(UpdateAll(stops, list), stops)
<1> DEFINE n == Len(list)
<1>1. n \in Nat
  BY DEF IsList
<1>2. PICK f : IsRowOfEntries(f, stops, list)
  BY RowOfEntries
<1> DEFINE T == {m \in 0..n : AreAlike(f[m], stops)}
<1>3. 0 \in T
  BY <1>1, <1>2 DEF IsRowOfEntries, AreAlike
<1>4. ASSUME NEW m \in 1..n, m - 1 \in T
      PROVE  m \in T
  <2>1. f[m] = UpdateStop(f[m - 1], list[m]) /\ AreAlike(f[m - 1], stops)
    BY <1>2, <1>4 DEF IsRowOfEntries
  <2>2. AreAlike(f[m], stops)
    BY <2>1, EntryKeeps
  <2> QED
    BY <1>1, <2>2
<1>5. n \in T
  <2> HIDE DEF T
  <2> QED
    BY <1>1, <1>3, <1>4, CountUp
<1> QED
  BY <1>2, <1>5 DEF IsRowOfEntries

(* So each visit is shown as it was.                                       *)
LEMMA EntriesShow ==
  ASSUME NEW stops, AreRows(stops), NEW new, AreAlike(new, stops),
         NEW dropped, NEW changes, NEW visits, NEW origin, ShowsAll(stops, dropped, changes, visits, origin)
  PROVE  ShowsAll(new, dropped, changes, visits, origin)
<1>1. DOMAIN new = 1..Len(new) /\ DOMAIN stops = 1..Len(stops) /\ Len(new) = Len(stops)
  BY DEF AreAlike, AreRows, IsList
<1>2. ASSUME NEW visit, NEW delay, NEW x \in Range(stops), IsVisit(x, visit, origin, delay)
      PROVE  \E y \in Range(new) : IsVisit(y, visit, origin, delay)
  <2>1. PICK k \in 1..Len(stops) : x = stops[k]
    BY <1>1 DEF Range
  <2>2. new[k] \in Range(new)
    BY <1>1 DEF Range
  <2>3. IsVisit(new[k], visit, origin, delay)
    BY <1>2, <2>1 DEF AreAlike, RowFields, IsVisit
  <2> QED
    BY <2>2, <2>3
<1>3. ASSUME NEW k \in DOMAIN visits
      PROVE  \E x \in Range(IF \E n \in DOMAIN changes : k \in Replaced(changes[n], visits) THEN dropped ELSE new) :
                IsVisit(x, visits[k], origin, DelayBehind(changes, visits, k)[Len(changes)])
  <2>1. PICK x \in Range(IF \E n \in DOMAIN changes : k \in Replaced(changes[n], visits) THEN dropped ELSE stops) :
           IsVisit(x, visits[k], origin, DelayBehind(changes, visits, k)[Len(changes)])
    BY DEF ShowsAll
  <2> QED
    BY <1>2, <2>1
<1> QED
  BY <1>1, <1>3 DEF ShowsAll

(* Without a modification the schedule shows each visit.                   *)
LEMMA ScheduleShows ==
  ASSUME NEW visits, AreVisits(visits), NEW origin \in Int, NEW stops, IsScheduleOf(stops, visits, origin)
  PROVE  ShowsAll(stops, <<>>, <<>>, visits, origin)
<1>1. IsList(<<>>) /\ Len(<<>>) = 0 /\ \A n \in 1..0 : FALSE
  BY DEF IsList, Range
<1>2. IsShifted(stops, <<>>, 0, <<>>, visits, origin)
  <2>1. IsList(visits) /\ \A n \in 1..Len(<<>>) : (<<>>)[n].delay \in Int
    BY <1>1 DEF AreVisits
  <2> QED
    BY <1>1, <2>1, ShiftedAtFirst
<1> QED
  BY <1>1, <1>2, ShiftedShows

--------------------------------------------------------------------------------
(* The dates of a page.                                                    *)

\* What is written of a feed's calendars is what they say.
LEMMA CalendarsOf ==
  ASSUME FeedsInv, NEW a \in Attempts, NEW s
  PROVE  /\ s \in DOMAIN reduced[a].general =>
               s \in DOMAIN world.feeds[a].general /\ reduced[a].general[s] = world.feeds[a].general[s]
         /\ s \in DOMAIN reduced[a].exceptions =>
               s \in DOMAIN world.feeds[a].exceptions /\ reduced[a].exceptions[s] = world.feeds[a].exceptions[s]
<1> DEFINE feed == world.feeds[a]
           f == MinimumDayFilter(feed, world.day)
           HeldOn(S) == {x \in S : IsActive(Service(feed, x), world.day)}
           trips == {t \in DOMAIN feed.trips :
                        \/ feed.trips[t].service \notin DOMAIN feed.general \cup DOMAIN feed.exceptions
                        \/ HeldOn({feed.trips[t].service}) # {}}
<1>1. reduced[a].general = f.general /\ reduced[a].exceptions = f.exceptions
  BY DEF FeedsInv, Reduce
<1>2. feed = [trips |-> feed.trips, general |-> feed.general, exceptions |-> feed.exceptions]
  BY FeedIs
<1>3. f = [feed EXCEPT !.trips = Restrict(@, trips), !.general = Restrict(@, HeldOn(DOMAIN @)),
                       !.exceptions = Restrict(@, HeldOn(DOMAIN @))]
  BY DEF MinimumDayFilter
<1>4. f.general = Restrict(feed.general, HeldOn(DOMAIN feed.general))
      /\ f.exceptions = Restrict(feed.exceptions, HeldOn(DOMAIN feed.exceptions))
  <2> HIDE DEF f, feed, trips, HeldOn
  <2> QED
    BY <1>2, <1>3
<1>5. /\ f.general = [x \in HeldOn(DOMAIN feed.general) |-> feed.general[x]]
      /\ f.exceptions = [x \in HeldOn(DOMAIN feed.exceptions) |-> feed.exceptions[x]]
  <2> HIDE DEF f, feed, trips, HeldOn
  <2> QED
    BY <1>4 DEF Restrict
<1>6. \A S : HeldOn(S) \subseteq S
  OBVIOUS
<1> HIDE DEF f, HeldOn
<1> QED
  BY <1>1, <1>5, <1>6

\* The dates of a trip, by the rows of attempts that agree on its service.
LEMMA PageServiceIs ==
  ASSUME FeedsInv, NEW a \in Attempts, NEW t \in DOMAIN reduced[a].covers, SameService(t),
         NEW C \in SUBSET Attempts, NEW D \in SUBSET Attempts, a \in C, a \in D,
         NEW calendars \in SetToSeqs(C), NEW dates \in SetToSeqs(D), NEW d
  PROVE  ServiceActive(reduced[a].trips[t].service, d, calendars, dates)
            <=> DatetimeInService(ServiceIn(a, t), d)
<1> DEFINE s == TripIn(a, t).service
           service == ServiceIn(a, t)
           holding == {b \in C : s \in DOMAIN reduced[b].general
                                 /\ d \in reduced[b].general[s].first..reduced[b].general[s].last}
           excepting == {k \in DOMAIN dates : s \in DOMAIN reduced[dates[k]].exceptions
                                              /\ d \in DOMAIN reduced[dates[k]].exceptions[s]}
<1>1. /\ t \in ValidTrips(world.feeds[a]) /\ reduced[a].trips[t].service = s
      /\ Service(reduced[a], s) = service
  BY ReducedOf DEF TripIn, ServiceIn
<1>2. C \in SUBSET {"old", "new"} /\ D \in SUBSET {"old", "new"} /\ Range(calendars) = C /\ Range(dates) = D
  BY AttemptsAre, WinnerIsOne
<1>3. ServiceActive(s, d, calendars, dates) <=>
         IF excepting # {} THEN reduced[dates[Min(excepting)]].exceptions[s][d] = "added"
         ELSE holding # {} /\ d % 7 \in reduced[Winner(calendars, holding)].general[s].days
  BY <1>2 DEF ServiceActive
<1> HIDE DEF s, service
<1>4. ASSUME NEW b \in Attempts
      PROVE  /\ s \in DOMAIN reduced[b].general => reduced[b].general[s] = service.general
             /\ s \in DOMAIN reduced[b].exceptions => reduced[b].exceptions[s] = service.exceptions
  <2>1. s \in DOMAIN world.feeds[b].general \cup DOMAIN world.feeds[b].exceptions =>
           Service(world.feeds[b], s) = service
    BY <1>1 DEF SameService, AttemptsWith, s, service
  <2>2. /\ s \in DOMAIN world.feeds[b].general => world.feeds[b].general[s] = service.general
        /\ s \in DOMAIN world.feeds[b].exceptions => world.feeds[b].exceptions[s] = service.exceptions
    BY <2>1 DEF Service
  <2> QED
    BY <2>2, CalendarsOf
<1>5. /\ s \notin DOMAIN reduced[a].general => service.general = NoGeneral
      /\ s \notin DOMAIN reduced[a].exceptions => service.exceptions = <<>>
  BY <1>1 DEF Service
<1>6. CASE excepting # {}
  <2> DEFINE k == Min(excepting)
  <2>1. k \in excepting
    <3>1. DOMAIN dates = 1..Cardinality(D)
      BY DEF SetToSeqs
    <3>2. Cardinality(D) \in Nat
      <4>1. IsFiniteSet({"old"})
        BY FS_Singleton
      <4>2. IsFiniteSet({"old"} \cup {"new"})
        BY <4>1, FS_AddElement
      <4>3. D \in SUBSET ({"old"} \cup {"new"})
        BY <1>2
      <4>4. IsFiniteSet(D)
        BY <4>2, <4>3, FS_Subset
      <4> QED
        BY <4>4, FS_CardinalityType
    <3>3. excepting \in SUBSET Nat
      BY <3>1, <3>2
    <3> HIDE DEF excepting
    <3> QED
      BY <1>6, <3>3, MinOfFinite
  <2>2. /\ k \in DOMAIN dates /\ s \in DOMAIN reduced[dates[k]].exceptions
        /\ d \in DOMAIN reduced[dates[k]].exceptions[s]
    <3> HIDE DEF k
    <3> QED
      BY <2>1
  <2>3. dates[k] \in Attempts
    <3> HIDE DEF k, excepting
    <3> QED
      BY <1>2, <2>2 DEF Range
  <2>4. reduced[dates[k]].exceptions[s] = service.exceptions
    <3> HIDE DEF k, excepting
    <3> QED
      BY <1>4, <2>2, <2>3
  <2>5. ServiceActive(s, d, calendars, dates) <=> reduced[dates[k]].exceptions[s][d] = "added"
    <3> HIDE DEF excepting, holding
    <3> QED
      BY <1>3, <1>6
  <2> HIDE DEF k, excepting
  <2> QED
    BY <1>1, <2>2, <2>4, <2>5 DEF DatetimeInService, service
<1>7. CASE excepting = {}
  <2>1. d \notin DOMAIN service.exceptions
    <3>1. PICK k \in DOMAIN dates : dates[k] = a
      BY <1>2 DEF Range
    <3>2. ~(s \in DOMAIN reduced[a].exceptions /\ d \in DOMAIN reduced[a].exceptions[s])
      BY <1>7, <3>1
    <3> QED
      BY <1>4, <1>5, <3>2
  <2>2. DatetimeInService(service, d) <=> d % 7 \in service.general.days
                                           /\ d \in service.general.first..service.general.last
    BY <2>1 DEF DatetimeInService, InGeneral
  <2>3. CASE holding # {}
    <3> DEFINE w == Winner(calendars, holding)
    <3>1. w \in holding
      <4>1. holding \in SUBSET C
        OBVIOUS
      <4> HIDE DEF holding
      <4> QED
        BY <1>2, <2>3, <4>1, WinnerIsOne
    <3>2. ServiceActive(s, d, calendars, dates) <=> d % 7 \in reduced[w].general[s].days
      <4> HIDE DEF excepting, holding
      <4> QED
        BY <1>3, <1>7, <2>3
    <3> HIDE DEF w
    <3>3. /\ w \in C /\ s \in DOMAIN reduced[w].general
          /\ d \in reduced[w].general[s].first..reduced[w].general[s].last
      BY <3>1
    <3>4. reduced[w].general[s] = service.general
      BY <1>4, <3>3
    <3> QED
      BY <1>1, <2>2, <3>2, <3>3, <3>4 DEF service
  <2>4. CASE holding = {}
    <3>1. ~(s \in DOMAIN reduced[a].general /\ d \in reduced[a].general[s].first..reduced[a].general[s].last)
      BY <2>4
    <3>2. ~DatetimeInService(service, d)
      BY <1>4, <1>5, <2>2, <3>1 DEF NoGeneral
    <3>3. ~ServiceActive(s, d, calendars, dates)
      <4> HIDE DEF excepting, holding
      <4> QED
        BY <1>3, <1>7, <2>4
    <3> QED
      BY <1>1, <3>2, <3>3 DEF service
  <2> QED
    BY <2>3, <2>4
<1> QED
  BY <1>6, <1>7

(* The clock shows a time.                                                 *)
LEMMA NowIsInt ==
  ASSUME DataInv
  PROVE  Now \in Int
<1> DEFINE told == {f \in RtFeeds : Told(f)}
           heard == {Message(f).heard : f \in told}
<1>1. world.order \in Seq(DOMAIN world.messages) /\ world.start \in Int
  BY MessagesAssumption DEF DataInv
<1>2. IsFiniteSet(RtFeeds)
  <2> DEFINE n == Len(world.order)
  <2>1. n \in Nat /\ DOMAIN world.order = 1..n /\ world.order \in [1..n -> DOMAIN world.messages]
    BY <1>1, LenProperties
  <2> HIDE DEF n
  <2>2. world.order \in Surjection(1..n, RtFeeds)
    <3>1. \A f \in RtFeeds : \E k \in 1..n : world.order[k] = f
      BY <2>1 DEF RtFeeds, Range
    <3>2. world.order \in [1..n -> RtFeeds]
      BY <2>1 DEF RtFeeds, Range
    <3> QED
      BY <3>1, <3>2 DEF Surjection
  <2>3. IsFiniteSet(1..n)
    <3>1. 1 \in Int /\ n \in Int
      BY <2>1
    <3> QED
      BY <3>1, FS_Interval
  <2> QED
    BY <2>2, <2>3, FS_Surjection
<1>3. IsFiniteSet(told)
  BY <1>2, FS_Subset
<1>4. IsFiniteSet(heard)
  <2> DEFINE g == [f \in told |-> Message(f).heard]
  <2>1. g \in Surjection(told, heard)
    BY DEF Surjection
  <2> HIDE DEF g, heard
  <2> QED
    BY <1>3, <2>1, FS_Surjection
<1>5. heard \in SUBSET Int
  <2> SUFFICES ASSUME NEW f \in RtFeeds, Told(f)
               PROVE  Message(f).heard \in Int
    OBVIOUS
  <2>1. f \in DOMAIN world.messages /\ world \in Cases
    BY <1>1 DEF DataInv, RtFeeds, Range
  <2>2. IsList(world.messages[f])
    BY <2>1, MessagesAssumption
  <2>3. current[f] \in DOMAIN world.messages[f]
    BY <2>2 DEF DataInv, Told, IsList
  <2>4. Message(f) \in Range(world.messages[f])
    BY <2>3 DEF Message, Range
  <2> QED
    BY <2>1, <2>4, MessagesAssumption DEF DataInv
<1>6. IsFiniteSet({world.start} \cup heard)
  BY <1>4, FS_Singleton, FS_Union
<1>7. {world.start} \cup heard \in SUBSET Int /\ {world.start} \cup heard # {}
  BY <1>1, <1>5
<1>8. Max({world.start} \cup heard) \in {world.start} \cup heard
  <2> HIDE DEF heard
  <2> QED
    BY <1>6, <1>7, MaxOfFinite
<1> QED
  BY <1>7, <1>8 DEF Now

\* The page of a trip that is in the tables.
HasTrip(p) == p.attempt \in Attempts /\ Query.trip \in DOMAIN reduced[p.attempt].covers

LEMMA PageTripIs ==
  ASSUME FeedsInv, NEW p, HasTrip(p)
  PROVE  /\ Query.trip \in ValidTrips(world.feeds[p.attempt])
         /\ IsTrip(TripIn(p.attempt, Query.trip))
         /\ reduced[p.attempt].trips[Query.trip] = TripIn(p.attempt, Query.trip)
         /\ reduced[p.attempt].covers[Query.trip] = ItineraryCover(TripIn(p.attempt, Query.trip))
         /\ StartTime(TripIn(p.attempt, Query.trip)) \in Int
         /\ AreVisits(TripIn(p.attempt, Query.trip).stops)
         /\ 1 \in DOMAIN TripIn(p.attempt, Query.trip).stops
<1> DEFINE trip == TripIn(p.attempt, Query.trip)
<1>1. /\ Query.trip \in ValidTrips(world.feeds[p.attempt])
      /\ reduced[p.attempt].trips[Query.trip] = trip
      /\ reduced[p.attempt].covers[Query.trip] = ItineraryCover(trip)
  BY ReducedOf DEF HasTrip, TripIn
<1>2. Query.trip \in DOMAIN world.feeds[p.attempt].trips
  BY <1>1 DEF ValidTrips
<1>3. IsTrip(trip)
  BY <1>2, FeedIs DEF HasTrip, TripIn
<1>4. /\ Len(trip.stops) \in Nat /\ Len(trip.stops) >= 2 /\ DOMAIN trip.stops = 1..Len(trip.stops)
      /\ trip.stops[1].arrival # NoTime
  BY <1>1, <1>3, ValidTripStarts DEF TripIn
<1>5. 1 \in DOMAIN trip.stops
  BY <1>4
<1>6. \A k \in DOMAIN trip.stops :
         StartTime(trip) \in Int /\ trip.stops[k].arrival \in Int /\ trip.stops[k].departure \in Int
  BY <1>3, <1>4, <1>5, CoverIs DEF IsCovered
<1>7. AreVisits(trip.stops)
  BY <1>3, <1>4, <1>6 DEF AreVisits, IsList, IsTrip
<1> QED
  BY <1>1, <1>3, <1>5, <1>6, <1>7

(* When a run starts.                                                      *)
LEMMA StartIsInt ==
  ASSUME FeedsInv, HasTrip(page), NEW d \in Int
  PROVE  StartOn(d) \in Int /\ PageStart \in Int
<1>1. Query.start \in Int
  BY QueriesAssumption DEF FeedsInv, Query
<1>2. PageStart \in Int
  BY <1>1, PageTripIs DEF PageStart
<1>3. world.zone \in Zones
  BY FeedIs
<1>4. Midnight(world.zone, d) \in Int
  BY <1>3, MidnightBounds DEF Midnight, Noon, Zones, Day, Hour
<1> QED
  BY <1>2, <1>4 DEF StartOn

\* A set of dates between two has a first one.
LEMMA MinOfDates ==
  ASSUME NEW a \in Int, NEW b \in Int, NEW S \in SUBSET (a..b), S # {}
  PROVE  Min(S) \in S
<1> DEFINE T == {d - a : d \in S}
<1>1. T \in SUBSET Nat /\ T # {}
  <2>1. \A d \in S : d \in Int /\ a <= d
    OBVIOUS
  <2>2. \A d \in S : d - a \in Nat
    BY <2>1
  <2> QED
    BY <2>2
<1>2. PICK n \in T : \A m \in T : n <= m
  <2> HIDE DEF T
  <2> QED
    BY <1>1, LeastNatural
<1>3. n + a \in S /\ \A d \in S : n + a <= d
  <2>1. PICK d \in S : n = d - a
    BY <1>2
  <2>2. \A e \in S : e \in Int /\ n <= e - a
    BY <1>2
  <2> QED
    BY <2>1, <2>2
<1> QED
  BY <1>3 DEF Min

(* The date of a page is the one of the query, or a date of service; and   *)
(* without either there is none around now.                                *)
LEMMA DatesMeantAre ==
  ASSUME FeedsInv, DataInv, HasTrip(page), NEW calendars, NEW dates
  PROVE  LET meant == DatesMeant(calendars, dates)
         IN  /\ meant = {} =>
                  /\ Query.date = NoTime
                  /\ \A d \in (LocalDate(world.zone, Now) - 10)..(LocalDate(world.zone, Now) + 9) :
                        ~ServiceActive(Service1, d, calendars, dates)
             /\ \A date \in meant :
                  /\ date \in Int
                  /\ IF Query.date # NoTime THEN date = Query.date
                     ELSE ServiceActive(Service1, date, calendars, dates)
<1> DEFINE L == LocalDate(world.zone, Now)
           active == {d \in (L - 10)..(L + 9) : ServiceActive(Service1, d, calendars, dates)}
           Off(d) == Distance(StartOn(d), Now)
           nearest == {d \in active : \A e \in active : Off(d) <= Off(e)}
           meant == DatesMeant(calendars, dates)
<1>1. Now \in Int
  BY NowIsInt
<1>2. L \in Int
  <2>1. world.zone \in Zones
    BY FeedIs
  <2>2. Ahead(world.zone, Now) \in Int
    BY <2>1 DEF Ahead, Zones
  <2>3. \A x \in Int : x \div Day \in Int
    BY DEF Day, Hour
  <2> QED
    BY <1>1, <2>2, <2>3 DEF LocalDate
<1>3. meant = IF Query.date # NoTime THEN {Query.date} ELSE IF active = {} THEN {} ELSE {Min(nearest)}
  BY DEF DatesMeant
<1> HIDE DEF L, meant
<1>4. \A d \in active : d \in Int /\ Off(d) \in Nat
  <2>1. \A d \in active : d \in Int
    BY <1>2
  <2>2. \A d \in Int : Off(d) \in Nat
    BY <1>1, StartIsInt DEF Distance
  <2> HIDE DEF active, Off
  <2> QED
    BY <2>1, <2>2
<1>5. active # {} => Min(nearest) \in nearest
  <2> SUFFICES ASSUME active # {}
               PROVE  Min(nearest) \in nearest
    OBVIOUS
  <2> DEFINE T == {Off(d) : d \in active}
  <2>1. T \in SUBSET Nat /\ T # {}
    <3> HIDE DEF active, Off
    <3> QED
      BY <1>4
  <2>2. PICK n \in T : \A m \in T : n <= m
    <3> HIDE DEF T
    <3> QED
      BY <2>1, LeastNatural
  <2>3. nearest # {}
    <3> HIDE DEF active, Off
    <3> QED
      BY <2>2
  <2>4. nearest \in SUBSET ((L - 10)..(L + 9)) /\ L - 10 \in Int /\ L + 9 \in Int
    BY <1>2
  <2> HIDE DEF nearest
  <2> QED
    BY <2>3, <2>4, MinOfDates
<1>6. Query.date \in Int
  BY QueriesAssumption DEF FeedsInv, Query
<1>7. active # {} => Min(nearest) \in active
  BY <1>5
<1>8. \A d \in active : d \in Int /\ ServiceActive(Service1, d, calendars, dates)
  BY <1>4
<1>9. \A d \in (L - 10)..(L + 9) : ServiceActive(Service1, d, calendars, dates) => d \in active
  OBVIOUS
<1> HIDE DEF active, nearest
<1> QED
  BY <1>3, <1>6, <1>7, <1>8, <1>9 DEF L, meant

(* The stops of a page before Aspen is asked.                              *)
LEMMA ScheduledStopsAre ==
  ASSUME FeedsInv, HasTrip(page), NEW d \in Int
  PROVE  IsScheduleOf(ScheduledStops(d), Visits, StartOn(d) - StartTime(PageTrip))
<1> DEFINE stops == ScheduledStops(d)
           n == Len(Visits)
           cover == ItineraryCover(PageTrip)
           start == StartTime(PageTrip)
           On(time) == IF time = NoTime THEN NoTime ELSE StartOn(d) + time
<1>1. /\ Cover = cover /\ IsTrip(PageTrip) /\ start \in Int /\ AreVisits(Visits) /\ 1 \in DOMAIN Visits
      /\ PageTrip = world.feeds[page.attempt].trips[Query.trip]
      /\ Query.trip \in ValidTrips(world.feeds[page.attempt])
  BY PageTripIs DEF Cover, PageTrip, Visits, TripIn
<1>2. StartOn(d) \in Int
  BY StartIsInt
<1>3. n \in Nat /\ DOMAIN Visits = 1..n /\ DOMAIN cover.stops = 1..n /\ Visits[1].arrival # NoTime
  BY <1>1, ValidTripStarts DEF Visits
<1>4. DOMAIN stops = 1..n /\ stops = [k \in 1..n |-> stops[k]]
      /\ \A k \in 1..n :
            /\ RowFields \subseteq DOMAIN stops[k]
            /\ stops[k].stop = cover.stops[k].stop /\ stops[k].sequence = cover.stops[k].sequence
            /\ stops[k].arrival = On(cover.stops[k].arrival)
            /\ stops[k].departure = On(cover.stops[k].departure)
  BY <1>1, <1>3 DEF ScheduledStops, RowFields
<1>5. \A k \in 1..n :
         /\ Visits[k].arrival \in Int /\ Visits[k].departure \in Int
         /\ cover.stops[k].stop = Visits[k].stop /\ cover.stops[k].sequence = Visits[k].sequence
         /\ cover.stops[k].arrival = IF Visits[k].arrival = NoTime THEN NoTime ELSE Visits[k].arrival - start
         /\ cover.stops[k].departure = IF Visits[k].departure = NoTime THEN NoTime ELSE Visits[k].departure - start
         /\ cover.stops[k].arrival \in Int /\ cover.stops[k].departure \in Int
         /\ cover.stops[k].arrival = NoTime <=> Visits[k].arrival = NoTime
         /\ cover.stops[k].departure = NoTime <=> Visits[k].departure = NoTime
  <2> SUFFICES ASSUME NEW k \in 1..n
               PROVE  /\ Visits[k].arrival \in Int /\ Visits[k].departure \in Int
                      /\ cover.stops[k].stop = Visits[k].stop /\ cover.stops[k].sequence = Visits[k].sequence
                      /\ cover.stops[k].arrival = IF Visits[k].arrival = NoTime THEN NoTime ELSE Visits[k].arrival - start
                      /\ cover.stops[k].departure = IF Visits[k].departure = NoTime THEN NoTime ELSE Visits[k].departure - start
                      /\ cover.stops[k].arrival \in Int /\ cover.stops[k].departure \in Int
                      /\ cover.stops[k].arrival = NoTime <=> Visits[k].arrival = NoTime
                      /\ cover.stops[k].departure = NoTime <=> Visits[k].departure = NoTime
    OBVIOUS
  <2>1. /\ k \in DOMAIN PageTrip.stops /\ 1 \in DOMAIN PageTrip.stops /\ PageTrip.stops[1].arrival # NoTime
        /\ cover = ItineraryCover(PageTrip) /\ start = StartTime(PageTrip) /\ IsTrip(PageTrip)
    BY <1>1, <1>3 DEF Visits
  <2> HIDE DEF cover, start
  <2>2. IsCovered(PageTrip, k, cover)
    BY <2>1, CoverIs
  <2> QED
    BY <2>1, <2>2 DEF IsCovered, Visits
<1> HIDE DEF stops, n, cover, start
<1>6. ASSUME NEW k \in 1..n
      PROVE  IsVisit(stops[k], Visits[k], StartOn(d) - start, 0)
  <2>1. stops[k].arrival = IF Visits[k].arrival = NoTime THEN NoTime ELSE (StartOn(d) - start) + Visits[k].arrival + 0
    <3>1. /\ stops[k].arrival = IF cover.stops[k].arrival = NoTime THEN NoTime ELSE StartOn(d) + cover.stops[k].arrival
          /\ Visits[k].arrival \in Int
          /\ cover.stops[k].arrival = IF Visits[k].arrival = NoTime THEN NoTime ELSE Visits[k].arrival - start
          /\ cover.stops[k].arrival = NoTime <=> Visits[k].arrival = NoTime
      BY <1>4, <1>5
    <3>2. start \in Int
      BY <1>1
    <3> QED
      BY <1>2, <3>1, <3>2
  <2>2. stops[k].departure = IF Visits[k].departure = NoTime THEN NoTime ELSE (StartOn(d) - start) + Visits[k].departure + 0
    <3>1. /\ stops[k].departure = IF cover.stops[k].departure = NoTime THEN NoTime ELSE StartOn(d) + cover.stops[k].departure
          /\ Visits[k].departure \in Int
          /\ cover.stops[k].departure = IF Visits[k].departure = NoTime THEN NoTime ELSE Visits[k].departure - start
          /\ cover.stops[k].departure = NoTime <=> Visits[k].departure = NoTime
      BY <1>4, <1>5
    <3>2. start \in Int
      BY <1>1
    <3> QED
      BY <1>2, <3>1, <3>2
  <2> QED
    BY <1>4, <1>5, <2>1, <2>2 DEF IsVisit
<1>7. stops \in Seq(Range(stops)) /\ Len(stops) = n
  <2>1. stops \in [1..n -> Range(stops)]
    BY <1>4 DEF Range
  <2> QED
    BY <1>3, <1>4, <2>1
<1>8. /\ AreRows(stops) /\ Len(stops) = Len(Visits)
      /\ \A k \in 1..Len(Visits) : IsVisit(stops[k], Visits[k], StartOn(d) - start, 0)
  BY <1>4, <1>6, <1>7 DEF AreRows, IsList, n
<1> QED
  BY <1>8 DEF IsScheduleOf, stops, start

--------------------------------------------------------------------------------
(* The page, along its steps.                                              *)

VisitsOf(p) == TripIn(p.attempt, Query.trip).stops

StartOf(p) == IF Query.start # NoTime THEN Query.start ELSE StartTime(reduced[p.attempt].trips[Query.trip])

OriginOf(p) == (Midnight(world.zone, p.date) + StartOf(p)) - StartTime(TripIn(p.attempt, Query.trip))

ChangesIn(p) == IF p.mods = {} THEN <<>> ELSE ChangesOf(p.mods)

RunsOn(p, date) == DatetimeInService(ServiceIn(p.attempt, Query.trip), date)

AreFollowed(p) == \/ p.mods = {}
                  \/ /\ AreOrderly(ChangesIn(p), VisitsOf(p))
                     /\ AreAfterEpoch(ChangesIn(p), VisitsOf(p), OriginOf(p))

IsPlaced(p) ==
    AreFollowed(p) => ShowsAll(p.stops, p.dropped, ChangesIn(p), VisitsOf(p), OriginOf(p))

IsDated(p) == IF Query.date # NoTime THEN p.date = Query.date
              ELSE SameService(Query.trip) => RunsOn(p, p.date)

\* Its route is not in the rows: only the new attempt has it.
IsOfNewRoute(p) ==
    /\ p.attempt = "new" /\ "new" \notin p.got["routes"]
    /\ "old" \in Attempts => TripIn(p.attempt, Query.trip).route \notin RoutesOf("old")

IsWhole(p) ==
    /\ p.status = 404 =>
          \/ IsOfNewRoute(p)
          \/ /\ Query.date = NoTime
             /\ SameService(Query.trip) =>
                   \A d \in (LocalDate(world.zone, p.now) - 10)..(LocalDate(world.zone, p.now) + 9) : ~RunsOn(p, d)
    /\ p.status = 500 => p.mods # {}
    /\ p.status = 200 => IsPlaced(p) /\ IsDated(p)

\* Rows of the attempt of the meta are among those that were read; of the routes, those
\* of another attempt while its own are not inserted.
IsRead(p) ==
    /\ \A t \in DOMAIN p.got : p.got[t] \subseteq Attempts
    /\ \A t \in DOMAIN p.got \cap JoinTables : p.attempt \in p.got[t]
    /\ "routes" \in DOMAIN p.got =>
          \/ p.attempt \in p.got["routes"]
          \/ p.attempt = "new" /\ ("old" \in Attempts => "old" \in p.got["routes"])

\* What is known of the page of a trip in the tables, step by step.
IsFine(p) ==
    /\ HasTrip(p)
    /\ p.step = "join" => IsRead(p)
    /\ p.step \in {"join", "updates", "modification"} => p.mods = {} /\ p.dropped = <<>>
    /\ p.step \in {"updates", "modification"} => IsScheduleOf(p.stops, VisitsOf(p), OriginOf(p))
    /\ p.step \in {"updates", "modification", "routeAlerts", "tripAlerts"} => p.date \in Int /\ IsDated(p)
    /\ p.step = "modification" => \A u \in p.shown : IsList(u.stops)
    /\ p.step \in {"routeAlerts", "tripAlerts"} => IsPlaced(p)
    /\ p.step = "sent" => IsWhole(p)
    /\ p.step # "route"

PageInv ==
    /\ DOMAIN page = PageFields
    /\ page.step = "open" => page = NewPage
    /\ IsScheduled => page.step # "open" /\ Query.trip # NoText
    /\ (IsScheduled /\ harm = {}) =>
          /\ IsFine(page)
          /\ page.step = "join" => \A t \in JoinTables : page.attempt \in rows[t]

\* It holds of the tables, not of who reads them.
LEMMA FineStays ==
  ASSUME UNCHANGED <<world, reduced>>
  PROVE  IsFine(page)' <=> IsFine(page')
<1> USE DEF Query
<1>1. /\ VisitsOf(page)' = VisitsOf(page') /\ StartOf(page)' = StartOf(page')
      /\ Attempts' = Attempts /\ ChangesIn(page)' = ChangesIn(page')
  BY DEF VisitsOf, StartOf, TripIn, Attempts, ChangesIn, ChangesOf
<1>2. OriginOf(page)' = OriginOf(page')
  BY <1>1 DEF OriginOf, TripIn
<1>3. (SameService(Query.trip))' <=> SameService(Query.trip)
  BY DEF SameService, AttemptsWith, TripIn, ServiceIn, Attempts
<1>4. ASSUME NEW d
      PROVE  RunsOn(page, d)' <=> RunsOn(page', d)
  BY DEF RunsOn, ServiceIn, TripIn
<1>5. IsDated(page)' <=> IsDated(page')
  <2>1. RunsOn(page, page.date)' <=> RunsOn(page', page'.date)
    BY DEF RunsOn, ServiceIn, TripIn
  <2> QED
    BY <1>3, <2>1 DEF IsDated
<1>6. IsPlaced(page)' <=> IsPlaced(page')
  BY <1>1, <1>2 DEF IsPlaced, AreFollowed
<1>7. IsRead(page)' <=> IsRead(page')
  BY <1>1 DEF IsRead
<1>7a. IsOfNewRoute(page)' <=> IsOfNewRoute(page')
  BY <1>1 DEF IsOfNewRoute, TripIn, RoutesOf
<1>8. IsWhole(page)' <=> IsWhole(page')
  <2>1. LocalDate(world'.zone, page'.now) = LocalDate(world.zone, page'.now) /\ world'.query.date = world.query.date
    OBVIOUS
  <2> HIDE DEF Query
  <2>2. Query' = Query
    BY DEF Query
  <2> QED
    BY <1>3, <1>4, <1>5, <1>6, <1>7a, <2>1, <2>2 DEF IsWhole
<1>9. IsScheduleOf(page.stops, VisitsOf(page), OriginOf(page))' <=>
         IsScheduleOf(page'.stops, VisitsOf(page'), OriginOf(page'))
  BY <1>1, <1>2 DEF IsScheduleOf
<1>10. HasTrip(page)' <=> HasTrip(page')
  BY DEF HasTrip, Attempts
<1> QED
  BY <1>5, <1>6, <1>7, <1>8, <1>9, <1>10 DEF IsFine

\* What is known of a page is known of one that differs elsewhere.
LEMMA SamePlace ==
  ASSUME NEW p, NEW q, q.attempt = p.attempt, q.date = p.date
  PROVE  /\ VisitsOf(q) = VisitsOf(p) /\ OriginOf(q) = OriginOf(p)
         /\ HasTrip(p) => HasTrip(q)
         /\ IsDated(p) => IsDated(q)
         /\ (q.mods = p.mods /\ q.dropped = p.dropped /\ q.stops = p.stops) => (IsPlaced(p) => IsPlaced(q))
<1>1. VisitsOf(q) = VisitsOf(p) /\ OriginOf(q) = OriginOf(p)
  BY DEF VisitsOf, OriginOf, StartOf
<1>2. HasTrip(p) => HasTrip(q)
  BY DEF HasTrip
<1>3. IsDated(p) => IsDated(q)
  BY DEF IsDated, RunsOn
<1>4. (q.mods = p.mods /\ q.dropped = p.dropped /\ q.stops = p.stops) => (IsPlaced(p) => IsPlaced(q))
  BY <1>1 DEF IsPlaced, AreFollowed, ChangesIn
<1> QED
  BY <1>1, <1>2, <1>3, <1>4

(* Whichever attempt the trip is found in, all its rows are there.         *)
LEMMA OpenFine ==
  ASSUME TablesInv, harm = {}, page = NewPage, Open, page'.attempt # NoText
  PROVE  IsFine(page') /\ \A t \in JoinTables : page'.attempt \in rows[t]
<1>1. /\ NewPage.got = <<>> /\ NewPage.mods = {} /\ NewPage.dropped = <<>> /\ NewPage.attempt = NoText
      /\ DOMAIN NewPage = PageFields
  BY DEF NewPage, PageFields
<1>2. PICK a \in rows["trips_compressed"] :
         Query.trip \in DOMAIN reduced[a].covers /\ page' = [page EXCEPT !.step = "join", !.attempt = a]
  BY <1>1 DEF Open, PageFields
<1>3. page'.attempt = a /\ page'.step = "join" /\ page'.got = <<>> /\ page'.mods = {} /\ page'.dropped = <<>>
  BY <1>1, <1>2 DEF PageFields
<1>4. a \in Attempts
  BY TablesAre DEF TablesInv, RowsType
<1>5. InOrder(a)
  BY <1>4 DEF TablesInv, RowsInv
<1>6. \A t \in JoinTables : a \in rows[t]
  BY <1>2, <1>5 DEF InOrder, JoinTables
<1>7. DOMAIN page'.got = {}
  BY <1>3
<1>8. IsFine(page')
  BY <1>2, <1>3, <1>4, <1>7 DEF IsFine, HasTrip, IsRead
<1> QED
  BY <1>3, <1>6, <1>8

LEMMA JoinFine ==
  ASSUME TablesInv, harm = {}, DOMAIN page = PageFields, IsFine(page),
         \A t \in JoinTables : page.attempt \in rows[t], NEW t, JoinPage(t)
  PROVE  IsFine(page') /\ page'.attempt = page.attempt
<1>1. page.step = "join" /\ t \in PageTables /\ page' = [page EXCEPT !.got = Put(@, t, rows[t])]
  BY DEF JoinPage, MayRead
<1>2. /\ page'.got = Put(page.got, t, rows[t]) /\ page'.step = "join" /\ page'.attempt = page.attempt
      /\ page'.mods = page.mods /\ page'.dropped = page.dropped /\ page'.date = page.date
  BY <1>1 DEF PageFields
<1>3. t \in Tables /\ (t \in JoinTables <=> t # "routes")
  BY <1>1, TablesAre DEF JoinTables, PageTables
<1>4. rows[t] \subseteq Attempts /\ (t # "routes" => page.attempt \in rows[t])
  BY <1>3 DEF TablesInv, RowsType
<1>4a. \/ page.attempt \in rows["routes"]
       \/ page.attempt = "new" /\ ("old" \in Attempts => "old" \in rows["routes"])
  <2>1. page.attempt \in {"old", "new"}
    BY AttemptsAre DEF TablesInv, IsFine, HasTrip
  <2>2. CASE page.attempt = "old"
    <3>1. "old" \in rows["calendar"]
      BY <2>2 DEF JoinTables
    <3> QED
      BY <2>2, <3>1, TablesAre DEF TablesInv, RowsInv
  <2>3. CASE page.attempt = "new"
    BY <2>3 DEF TablesInv, RoutesInv
  <2> QED
    BY <2>1, <2>2, <2>3
<1>5. IsRead(page')
  BY <1>1, <1>2, <1>3, <1>4, <1>4a DEF IsRead, IsFine, Put
<1>6. HasTrip(page')
  BY <1>2, SamePlace DEF IsFine
<1> QED
  BY <1>1, <1>2, <1>5, <1>6 DEF IsFine

(* Without a row of the route the page is one of a new route.              *)
LEMMA NoRouteFine ==
  ASSUME TablesInv, DOMAIN page = PageFields, IsFine(page), page.step = "join", DOMAIN page.got = PageTables,
         ~HasRoute(page.got["routes"], Cover.route), page' = End(page, 404)
  PROVE  IsFine(page')
<1> DEFINE a == page.attempt
           route == TripIn(a, Query.trip).route
<1>1. IsRead(page) /\ HasTrip(page)
  BY DEF IsFine
<1>2. /\ page'.step = "sent" /\ page'.status = 404 /\ page'.attempt = a /\ page'.got = page.got
  <2>1. {"attempt", "got"} \subseteq PageFields \ {"step", "status"}
    BY DEF PageFields
  <2> QED
    BY <2>1, EndIs
<1>3. Cover.route = route /\ route \in RoutesOf(a)
  <2>1. Cover = ItineraryCover(TripIn(a, Query.trip)) /\ Query.trip \in ValidTrips(world.feeds[a])
    BY <1>1, PageTripIs DEF Cover, TablesInv
  <2>2. TripIn(a, Query.trip) \in Range(world.feeds[a].trips)
    BY <2>1 DEF ValidTrips, TripIn, Range
  <2> QED
    BY <2>1, <2>2 DEF ItineraryCover, RoutesOf
<1>4. a \notin page.got["routes"] /\ ("old" \in page.got["routes"] => route \notin RoutesOf("old"))
  BY <1>3 DEF HasRoute
<1>5. a = "new" /\ ("old" \in Attempts => "old" \in page.got["routes"])
  BY <1>1, <1>4 DEF IsRead, PageTables
<1>6. IsOfNewRoute(page')
  BY <1>2, <1>4, <1>5 DEF IsOfNewRoute
<1>7. HasTrip(page')
  BY <1>1, <1>2 DEF HasTrip
<1> QED
  BY <1>2, <1>6, <1>7 DEF IsFine, IsWhole

(* The rows that were read give the date, and the stops.                   *)
LEMMA DatesFine ==
  ASSUME TablesInv, DataInv, DOMAIN page = PageFields, IsFine(page), Schedule,
         HasRoute(page.got["routes"], Cover.route)
  PROVE  IsFine(page')
<1> DEFINE C == page.got["calendar"]
           D == page.got["calendar_dates"]
           a == page.attempt
           t == Query.trip
<1>1. page.step = "join" /\ DOMAIN page.got = PageTables /\ IsRead(page) /\ HasTrip(page)
      /\ page.mods = {} /\ page.dropped = <<>>
  BY DEF Schedule, IsFine
<1>2. /\ C \in SUBSET Attempts /\ D \in SUBSET Attempts /\ a \in C /\ a \in D
      /\ a \in page.got["itinerary_pattern_meta"] /\ a \in page.got["itinerary_pattern"]
  BY <1>1 DEF IsRead, JoinTables, PageTables
<1>3. PICK calendars \in SetToSeqs(C), dates \in SetToSeqs(D) :
         \/ DatesMeant(calendars, dates) = {} /\ page' = End([page EXCEPT !.now = Now], 404)
         \/ \E date \in DatesMeant(calendars, dates) :
               page' = [page EXCEPT !.step = "updates", !.now = Now, !.date = date, !.stops = ScheduledStops(date)]
  BY <1>2 DEF Schedule
<1>4. FeedsInv
  BY DEF TablesInv
<1> DEFINE meant == DatesMeant(calendars, dates)
<1>5. /\ meant = {} =>
            /\ Query.date = NoTime
            /\ \A d \in (LocalDate(world.zone, Now) - 10)..(LocalDate(world.zone, Now) + 9) :
                  ~ServiceActive(Service1, d, calendars, dates)
      /\ \A date \in meant :
            /\ date \in Int
            /\ IF Query.date # NoTime THEN date = Query.date ELSE ServiceActive(Service1, date, calendars, dates)
  BY <1>1, <1>4, DatesMeantAre
<1>6. SameService(t) => \A d : ServiceActive(Service1, d, calendars, dates) <=> DatetimeInService(ServiceIn(a, t), d)
  <2> SUFFICES ASSUME SameService(t), NEW d
               PROVE  ServiceActive(Service1, d, calendars, dates) <=> DatetimeInService(ServiceIn(a, t), d)
    OBVIOUS
  <2>1. a \in Attempts /\ t \in DOMAIN reduced[a].covers
    BY <1>1 DEF HasTrip
  <2> HIDE DEF C, D, a, t
  <2>2. ServiceActive(reduced[a].trips[t].service, d, calendars, dates) <=> DatetimeInService(ServiceIn(a, t), d)
    BY <1>2, <1>4, <2>1, PageServiceIs
  <2> QED
    BY <2>2 DEF Service1, a, t
<1> HIDE DEF C, D, meant
<1>7. CASE meant = {} /\ page' = End([page EXCEPT !.now = Now], 404)
  <2>1. page'.step = "sent" /\ page'.status = 404 /\ page'.now = Now /\ page'.attempt = a /\ page'.date = page.date
    BY <1>7 DEF End, PageFields
  <2>2. \A d : RunsOn(page', d) <=> DatetimeInService(ServiceIn(a, t), d)
    BY <2>1 DEF RunsOn
  <2>3. IsWhole(page')
    BY <1>5, <1>6, <1>7, <2>1, <2>2 DEF IsWhole
  <2>4. HasTrip(page')
    BY <1>1, <2>1, SamePlace
  <2> QED
    BY <2>1, <2>3, <2>4 DEF IsFine
<1>8. ASSUME NEW date \in meant,
             page' = [page EXCEPT !.step = "updates", !.now = Now, !.date = date, !.stops = ScheduledStops(date)]
      PROVE  IsFine(page')
  <2>1. /\ page'.step = "updates" /\ page'.date = date /\ page'.stops = ScheduledStops(date) /\ page'.attempt = a
        /\ page'.mods = {} /\ page'.dropped = <<>>
    BY <1>1, <1>8 DEF PageFields
  <2>2. date \in Int
    BY <1>5
  <2>3. VisitsOf(page') = Visits /\ OriginOf(page') = StartOn(date) - StartTime(PageTrip)
    BY <2>1 DEF VisitsOf, Visits, PageTrip, OriginOf, StartOf, StartOn, PageStart
  <2>4. IsScheduleOf(page'.stops, VisitsOf(page'), OriginOf(page'))
    BY <1>1, <1>4, <2>1, <2>2, <2>3, ScheduledStopsAre
  <2>5. IsDated(page')
    BY <1>5, <1>6, <2>1 DEF IsDated, RunsOn
  <2>6. HasTrip(page')
    BY <1>1, <2>1 DEF HasTrip
  <2> QED
    BY <2>1, <2>2, <2>4, <2>5, <2>6 DEF IsFine
<1> QED
  BY <1>3, <1>7, <1>8 DEF meant

LEMMA ScheduleFine ==
  ASSUME TablesInv, DataInv, DOMAIN page = PageFields, IsFine(page), Schedule
  PROVE  IsFine(page')
<1>1. CASE HasRoute(page.got["routes"], Cover.route)
  BY <1>1, DatesFine
<1>2. CASE ~HasRoute(page.got["routes"], Cover.route)
  BY <1>2, NoRouteFine DEF Schedule
<1> QED
  BY <1>1, <1>2

(* The update that is shown is one of those that were served.              *)
LEMMA ShownIs ==
  ASSUME DataInv, UpdatesOf(Query.trip) # <<>>
  PROVE  IsList(UpdateShown(UpdatesOf(Query.trip)).stops)
<1> DEFINE ids == At(served.byTrip, Query.trip)
           updates == UpdatesOf(Query.trip)
           n == Len(ids)
           I == {k \in 1..Len(updates) : MatchesUpdate(updates[k])}
           i == SelectInSeq(updates, MatchesUpdate)
<1>1. ids \in Seq(Int) /\ Range(ids) \subseteq DOMAIN served.updates
  <2>1. IsIndex(served.byTrip, DOMAIN served.updates)
    BY DEF DataInv, IsMade
  <2>2. <<>> \in Seq(Int) /\ Range(<<>>) = {}
    BY DEF Range
  <2> QED
    BY <2>1, <2>2 DEF IsIndex, At
<1>2. n \in Nat /\ DOMAIN ids = 1..n /\ \A k \in 1..n : ids[k] \in DOMAIN served.updates
  BY <1>1 DEF Range
<1>3. updates = [k \in 1..n |-> served.updates[ids[k]]]
  BY <1>2 DEF UpdatesOf
<1> HIDE DEF ids, n
<1>4. \A k \in 1..n : IsList(updates[k].stops)
  <2>1. \A id \in DOMAIN served.updates : IsList(served.updates[id].stops)
    BY DEF DataInv, IsMade, AreStops
  <2> QED
    BY <1>2, <1>3, <2>1
<1>5. Len(updates) = n
  <2> HIDE DEF updates
  <2>1. updates \in [1..n -> Range(updates)]
    BY <1>3 DEF Range
  <2> QED
    BY <1>2, <1>3, <2>1
<1>6. 1 \in 1..n
  <2>1. CASE n = 0
    <3>1. 1..n = {}
      BY <2>1
    <3>2. updates = <<>>
      BY <1>3, <3>1
    <3> QED
      BY <3>2
  <2> QED
    BY <1>2, <2>1
<1>7. i = IF I # {} THEN Min(I) ELSE 0
  BY DEF SelectInSeq
<1>8. i # 0 => i \in 1..n
  <2>1. I \in SUBSET (1..n)
    BY <1>5
  <2> HIDE DEF I, i
  <2>2. i # 0 => i \in I
    BY <1>2, <1>7, <2>1, SelectedIsThere
  <2> QED
    BY <2>1, <2>2
<1>9. UpdateShown(updates) = updates[1] \/ (i # 0 /\ UpdateShown(updates) = updates[i])
  BY DEF UpdateShown
<1> HIDE DEF updates, i
<1> QED
  BY <1>4, <1>6, <1>8, <1>9 DEF updates

(* Before a modification is asked for the schedule stays as it is.         *)
LEMMA UpdatesFine ==
  ASSUME TablesInv, DataInv, DOMAIN page = PageFields, IsFine(page), page.attempt # NoText, AskUpdates
  PROVE  IsFine(page')
<1>1. /\ page.step = "updates" /\ page.mods = {} /\ page.dropped = <<>> /\ HasTrip(page)
      /\ page.date \in Int /\ IsDated(page) /\ IsScheduleOf(page.stops, VisitsOf(page), OriginOf(page))
  BY DEF AskUpdates, IsFine
<1> DEFINE asked == [page EXCEPT !.asked = served.made]
           u == UpdateShown(UpdatesOf(Query.trip))
<1>2. \/ page' = [asked EXCEPT !.step = "routeAlerts"]
      \/ /\ UpdatesOf(Query.trip) # <<>>
         /\ page' = [asked EXCEPT !.step = "modification", !.shown = {u},
                                  !.cancelled = u.status = "cancelled", !.deleted = u.status = "deleted"]
  BY DEF AskUpdates, IsScheduled
<1> HIDE DEF u
<1>3. /\ page'.attempt = page.attempt /\ page'.date = page.date /\ page'.stops = page.stops
      /\ page'.mods = page.mods /\ page'.dropped = page.dropped
      /\ page'.step \in {"routeAlerts", "modification"}
      /\ page'.step = "modification" => UpdatesOf(Query.trip) # <<>> /\ page'.shown = {u}
  BY <1>1, <1>2 DEF PageFields
<1>4. /\ HasTrip(page') /\ IsDated(page') /\ page'.date \in Int
      /\ VisitsOf(page') = VisitsOf(page) /\ OriginOf(page') = OriginOf(page)
  BY <1>1, <1>3, SamePlace
<1>5. IsScheduleOf(page'.stops, VisitsOf(page'), OriginOf(page'))
  BY <1>1, <1>3, <1>4
<1>6. page'.step = "modification" => \A v \in page'.shown : IsList(v.stops)
  BY <1>3, ShownIs DEF u
<1>7. AreVisits(VisitsOf(page)) /\ OriginOf(page) \in Int
  <2>1. FeedsInv
    BY DEF TablesInv
  <2>2. AreVisits(VisitsOf(page)) /\ StartTime(TripIn(page.attempt, Query.trip)) \in Int
    BY <1>1, <2>1, PageTripIs DEF VisitsOf
  <2>3. StartOn(page.date) \in Int
    BY <1>1, <2>1, StartIsInt
  <2>4. OriginOf(page) = StartOn(page.date) - StartTime(TripIn(page.attempt, Query.trip))
    BY DEF OriginOf, StartOf, StartOn, PageStart
  <2> QED
    BY <2>2, <2>3, <2>4
<1>8. IsPlaced(page')
  <2>1. ShowsAll(page.stops, <<>>, <<>>, VisitsOf(page), OriginOf(page))
    BY <1>1, <1>7, ScheduleShows
  <2> QED
    BY <1>1, <1>3, <1>4, <2>1 DEF IsPlaced, ChangesIn
<1> QED
  BY <1>1, <1>3, <1>4, <1>5, <1>6, <1>8 DEF IsFine

(* The modification that is asked for is one that was served.              *)
LEMMA ModificationIs ==
  ASSUME DataInv, NEW mods, NEW id, NEW trip, NEW date,
         mods = Modification(id) \/ mods = ModificationOf(trip, date), mods # {}
  PROVE  IsMod(CHOOSE m \in mods : TRUE)
<1> DEFINE ids == At(served.modsByTrip, trip)
           Test(x) == date \in served.mods[x].dates
           I == {i \in 1..Len(ids) : Test(ids[i])}
           k == SelectInSeq(ids, LAMBDA x : date \in served.mods[x].dates)
<1>1. AreMods(served.mods, served.modsByTrip)
  BY DEF DataInv, IsMade
<1>2. PICK x \in DOMAIN served.mods : mods = {served.mods[x]}
  <2>1. CASE mods = Modification(id)
    BY <2>1 DEF Modification
  <2>2. CASE mods = ModificationOf(trip, date)
    <3>1. ids \in Seq(DOMAIN served.mods)
      <4>1. <<>> \in Seq(DOMAIN served.mods)
        OBVIOUS
      <4> QED
        BY <1>1, <4>1 DEF AreMods, At
    <3>2. Len(ids) \in Nat /\ \A i \in 1..Len(ids) : ids[i] \in DOMAIN served.mods
      BY <3>1
    <3>3. mods = IF k = 0 THEN {} ELSE {served.mods[ids[k]]}
      BY <2>2 DEF ModificationOf
    <3>4. k = IF I # {} THEN Min(I) ELSE 0
      BY DEF SelectInSeq
    <3>5. I \in SUBSET (1..Len(ids))
      OBVIOUS
    <3> HIDE DEF ids, I, k
    <3>6. k # 0 => k \in I
      BY <3>2, <3>4, <3>5, SelectedIsThere
    <3> QED
      BY <3>2, <3>3, <3>5, <3>6
  <2> QED
    BY <2>1, <2>2
<1>3. IsMod(served.mods[x])
  BY <1>1 DEF AreMods
<1>4. (CHOOSE m \in mods : TRUE) = served.mods[x]
  BY <1>2
<1> QED
  BY <1>3, <1>4

(* With a modification or without, each visit is shown or taken.           *)
LEMMA ModificationFine ==
  ASSUME TablesInv, DataInv, DOMAIN page = PageFields, IsFine(page), AskModification
  PROVE  IsFine(page') /\ page'.step # "join"
<1>1. /\ page.step = "modification" /\ page.mods = {} /\ page.dropped = <<>> /\ HasTrip(page)
      /\ page.date \in Int /\ IsDated(page) /\ IsScheduleOf(page.stops, VisitsOf(page), OriginOf(page))
      /\ \A u \in page.shown : IsList(u.stops)
  BY DEF AskModification, IsFine
<1>2. AreVisits(VisitsOf(page)) /\ OriginOf(page) \in Int
  <2>1. FeedsInv
    BY DEF TablesInv
  <2>2. AreVisits(VisitsOf(page)) /\ StartTime(TripIn(page.attempt, Query.trip)) \in Int
    BY <1>1, <2>1, PageTripIs DEF VisitsOf
  <2>3. StartOn(page.date) \in Int
    BY <1>1, <2>1, StartIsInt
  <2>4. OriginOf(page) = StartOn(page.date) - StartTime(TripIn(page.attempt, Query.trip))
    BY DEF OriginOf, StartOf, StartOn, PageStart
  <2> QED
    BY <2>2, <2>3, <2>4
<1> DEFINE Mods(u) == IF u.mod = 0 THEN ModificationOf(Query.trip, page.date) ELSE Modification(u.mod)
           Asked(u) == [page EXCEPT !.mods = Mods(u)]
           Modified(u) == IF Mods(u) = {} THEN Asked(u) ELSE ModifyAll(Asked(u), ChangesOf(Mods(u)))
<1>3. PICK u \in page.shown :
         page' = IF Modified(u).step = "sent" THEN Modified(u)
                 ELSE [Modified(u) EXCEPT !.step = "routeAlerts", !.stops = UpdateAll(@, u.stops)]
  BY DEF AskModification, ModifyAll, UpdateAll
<1> DEFINE mods == Mods(u)
           asked == Asked(u)
           modified == Modified(u)
           changes == ChangesIn(asked)
<1>4. /\ asked.attempt = page.attempt /\ asked.date = page.date /\ asked.stops = page.stops
      /\ asked.dropped = <<>> /\ asked.mods = mods /\ asked.step = "modification" /\ DOMAIN asked = PageFields
  <2> HIDE DEF Mods
  <2> QED
    BY <1>1 DEF PageFields
<1>5. mods # {} => IsList(changes) /\ \A n \in 1..Len(changes) : changes[n].delay \in Int
  <2>1. mods # {} => IsMod(CHOOSE m \in mods : TRUE)
    BY ModificationIs
  <2>2. mods # {} => changes = (CHOOSE m \in mods : TRUE).changes
    BY <1>4 DEF ChangesIn, ChangesOf
  <2> HIDE DEF mods, changes, asked
  <2> QED
    <3> SUFFICES ASSUME mods # {}
                 PROVE  IsList(changes) /\ \A n \in 1..Len(changes) : changes[n].delay \in Int
      OBVIOUS
    <3>1. IsList(changes) /\ \A c \in Range(changes) : c.delay \in Int
      BY <2>1, <2>2 DEF IsMod
    <3>2. DOMAIN changes = 1..Len(changes)
      BY <3>1 DEF IsList
    <3> QED
      BY <3>1, <3>2 DEF Range
<1>6. modified = IF mods = {} THEN asked ELSE ModifyAll(asked, changes)
  <2>1. mods # {} => changes = ChangesOf(mods)
    BY <1>4 DEF ChangesIn
  <2> HIDE DEF changes
  <2> QED
    BY <2>1
<1>7. page' = IF modified.step = "sent" THEN modified
              ELSE [modified EXCEPT !.step = "routeAlerts", !.stops = UpdateAll(@, u.stops)]
  BY <1>3
<1> HIDE DEF mods, asked, modified, changes
<1>8. IsModified(modified, asked)
  <2>1. IsModified(asked, asked)
    BY <1>4 DEF IsModified
  <2> QED
    BY <1>4, <1>5, <1>6, <2>1, ModifyAllKeeps
<1>9. /\ DOMAIN modified = PageFields /\ modified.attempt = page.attempt /\ modified.date = page.date
      /\ modified.mods = mods
      /\ modified.step = "modification" \/ (modified.step = "sent" /\ modified.status = 500)
  BY <1>4, <1>8 DEF IsModified, PageFields
<1>10. CASE modified.step = "sent"
  <2>1. page' = modified /\ mods # {} /\ page'.status = 500 /\ page'.step = "sent"
    BY <1>4, <1>6, <1>7, <1>9, <1>10
  <2>2. IsWhole(page')
    BY <1>9, <2>1 DEF IsWhole
  <2>3. HasTrip(page')
    BY <1>1, <1>9, <2>1, SamePlace
  <2> QED
    BY <2>1, <2>2, <2>3 DEF IsFine
<1>11. CASE modified.step # "sent"
  <2>1. /\ page'.step = "routeAlerts" /\ page'.attempt = page.attempt /\ page'.date = page.date
        /\ page'.mods = mods /\ page'.dropped = modified.dropped
        /\ page'.stops = UpdateAll(modified.stops, u.stops)
    BY <1>7, <1>9, <1>11 DEF PageFields
  <2>2. /\ HasTrip(page') /\ IsDated(page') /\ page'.date \in Int
        /\ VisitsOf(page') = VisitsOf(page) /\ OriginOf(page') = OriginOf(page)
    BY <1>1, <2>1, SamePlace
  <2>3. ChangesIn(page') = changes /\ (mods = {} => changes = <<>>)
    BY <1>4, <2>1 DEF ChangesIn, changes
  <2>4. ASSUME AreFollowed(page')
        PROVE  /\ AreRows(modified.stops)
               /\ ShowsAll(modified.stops, modified.dropped, changes, VisitsOf(page), OriginOf(page))
    <3>1. CASE mods = {}
      <4>1. modified.stops = page.stops /\ modified.dropped = <<>>
        BY <1>4, <1>6, <3>1
      <4> QED
        BY <1>1, <1>2, <2>3, <3>1, <4>1, ScheduleShows DEF IsScheduleOf
    <3>2. CASE mods # {}
      <4>1. AreChanges(changes, VisitsOf(page), OriginOf(page))
        BY <1>5, <2>1, <2>2, <2>3, <2>4, <3>2 DEF AreFollowed, AreChanges
      <4>2. IsScheduleOf(asked.stops, VisitsOf(page), OriginOf(page)) /\ asked.step # "sent"
        BY <1>1, <1>4
      <4>3. modified = ModifyAll(asked, changes)
        BY <1>6, <3>2
      <4> QED
        BY <1>2, <1>4, <1>11, <4>1, <4>2, <4>3, ModifiedShows
    <3> QED
      BY <3>1, <3>2
  <2>5. IsPlaced(page')
    <3> SUFFICES ASSUME AreFollowed(page')
                 PROVE  ShowsAll(page'.stops, page'.dropped, ChangesIn(page'), VisitsOf(page'), OriginOf(page'))
      BY DEF IsPlaced
    <3>1. AreAlike(UpdateAll(modified.stops, u.stops), modified.stops)
      BY <1>1, <2>4, EntriesKeep
    <3>2. ShowsAll(page'.stops, modified.dropped, changes, VisitsOf(page), OriginOf(page))
      BY <2>1, <2>4, <3>1, EntriesShow
    <3> QED
      BY <2>1, <2>2, <2>3, <3>2
  <2> QED
    BY <2>1, <2>2, <2>5 DEF IsFine
<1> QED
  BY <1>10, <1>11

(* How a request ends once its alerts are known.                           *)
LEMMA FinishIs ==
  ASSUME DOMAIN page = PageFields, NEW alerts, NEW new, new = Finish(alerts)
  PROVE  /\ DOMAIN new = PageFields /\ new.step = IF IsScheduled THEN "sent" ELSE "route"
         /\ \A field \in PageFields \ {"step", "status", "alerts", "cancelled"} : new[field] = page[field]
         /\ \/ ~IsScheduled
            \/ new.status = 200
            \/ page.stops = <<>> /\ new.status = 500
<1> DEFINE p == [page EXCEPT !.alerts = alerts]
           asks == {i \in DOMAIN alerts : /\ alerts[i].effect = "no service"
                                          /\ alerts[i].periods # {}
                                          /\ \E e \in alerts[i].entities : IsAbout(e)}
           asked == [p EXCEPT !.cancelled = \E i \in asks : NoService(alerts[i])]
           Alike == PageFields \ {"step", "status", "alerts", "cancelled"}
<1>1. new = IF ~IsScheduled THEN [p EXCEPT !.step = "route"]
            ELSE IF page.cancelled \/ asks = {} THEN End(p, 200)
            ELSE IF page.stops = <<>> THEN Panicked(p)
            ELSE End(asked, 200)
  BY DEF Finish
<1>2. DOMAIN p = PageFields /\ \A field \in Alike : p[field] = page[field]
  <2> HIDE DEF PageFields
  <2> QED
    OBVIOUS
<1> HIDE DEF p
<1>3. DOMAIN asked = PageFields /\ \A field \in Alike : asked[field] = page[field]
  <2> HIDE DEF asks
  <2> QED
    BY <1>2
<1> HIDE DEF asked, asks
<1>4. ASSUME NEW end, DOMAIN end = PageFields, \A field \in Alike : end[field] = page[field],
             NEW status, new = End(end, status)
      PROVE  /\ DOMAIN new = PageFields /\ new.step = "sent" /\ new.status = status
             /\ \A field \in Alike : new[field] = page[field]
  BY <1>4, EndIs
<1>5. CASE ~IsScheduled
  BY <1>1, <1>2, <1>5 DEF PageFields
<1>6. CASE IsScheduled
  <2>1. new = End(p, 200) \/ (page.stops = <<>> /\ new = End(p, 500)) \/ new = End(asked, 200)
    BY <1>1, <1>6 DEF Panicked
  <2> HIDE DEF Alike
  <2>2. /\ DOMAIN new = PageFields /\ new.step = "sent"
        /\ new.status = 200 \/ (page.stops = <<>> /\ new.status = 500)
        /\ \A field \in Alike : new[field] = page[field]
    BY <1>2, <1>3, <1>4, <2>1
  <2> QED
    BY <1>6, <2>2 DEF Alike
<1> QED
  BY <1>5, <1>6

(* An alert takes nothing from the page, and it panics with no stop only.  *)
LEMMA FinishFine ==
  ASSUME TablesInv, DOMAIN page = PageFields, IsFine(page), page.attempt # NoText,
         page.step = "tripAlerts", NEW alerts, page' = Finish(alerts)
  PROVE  IsFine(page')
<1>1. HasTrip(page) /\ IsDated(page) /\ IsPlaced(page)
  BY DEF IsFine
<1>3. /\ page'.step = "sent" /\ page'.attempt = page.attempt /\ page'.date = page.date
      /\ page'.mods = page.mods /\ page'.dropped = page.dropped /\ page'.stops = page.stops
      /\ page'.status = 200 \/ (page'.status = 500 /\ page.stops = <<>>)
  <2>1. {"attempt", "date", "mods", "dropped", "stops"} \subseteq
            PageFields \ {"step", "status", "alerts", "cancelled"}
    BY DEF PageFields
  <2> DEFINE new == page'
  <2>2. new = Finish(alerts)
    OBVIOUS
  <2> HIDE DEF new
  <2>3. /\ new.step = "sent"
        /\ \A field \in PageFields \ {"step", "status", "alerts", "cancelled"} : new[field] = page[field]
        /\ new.status = 200 \/ (new.status = 500 /\ page.stops = <<>>)
    BY <2>2, FinishIs DEF IsScheduled
  <2>4. /\ new.attempt = page.attempt /\ new.date = page.date
        /\ new.mods = page.mods /\ new.dropped = page.dropped /\ new.stops = page.stops
    BY <2>1, <2>3
  <2> QED
    BY <2>3, <2>4 DEF new
<1>4. HasTrip(page') /\ IsDated(page') /\ IsPlaced(page')
  BY <1>1, <1>3, SamePlace
<1>5. page.stops = <<>> => page.mods # {}
  <2> SUFFICES ASSUME page.stops = <<>>, page.mods = {}
               PROVE  FALSE
    OBVIOUS
  <2>1. ShowsAll(<<>>, page.dropped, <<>>, VisitsOf(page), OriginOf(page))
    BY <1>1 DEF IsPlaced, AreFollowed, ChangesIn
  <2>2. 1 \in DOMAIN VisitsOf(page)
    BY <1>1, PageTripIs DEF TablesInv, VisitsOf
  <2>3. DOMAIN <<>> = {} /\ Range(<<>>) = {}
    BY DEF Range
  <2> QED
    BY <2>1, <2>2, <2>3 DEF ShowsAll
<1>6. IsWhole(page')
  BY <1>3, <1>4, <1>5 DEF IsWhole
<1> QED
  BY <1>3, <1>4, <1>6 DEF IsFine

\* Every step of a request goes on to another; only the first looks for an attempt.
LEMMA RequestGoesOn ==
  ASSUME DataInv, DOMAIN page = PageFields, Request
  PROVE  /\ DOMAIN page' = PageFields
         /\ page'.step # "open"
         /\ Open \/ page'.attempt = page.attempt
<1> DEFINE Goal == /\ DOMAIN page' = PageFields
                   /\ page'.step # "open"
                   /\ Open \/ page'.attempt = page.attempt
<1>0. /\ {"step", "status", "attempt", "asked", "alerts", "cancelled", "now"} \subseteq PageFields
      /\ "attempt" \notin {"step", "status"}
  BY DEF PageFields
<1>0a. ASSUME NEW p, DOMAIN p = PageFields, p.attempt = page.attempt, NEW status, page' = End(p, status)
       PROVE  Goal
  BY <1>0, <1>0a, EndIs
<1>1. ASSUME Open
      PROVE  Goal
  BY <1>1 DEF Open, PageFields
<1>2. ASSUME NEW t, JoinPage(t)
      PROVE  Goal
  BY <1>2 DEF JoinPage, PageFields
<1>3. ASSUME Schedule
      PROVE  Goal
  <2> DEFINE p == [page EXCEPT !.now = Now]
  <2>1. DOMAIN p = PageFields /\ p.attempt = page.attempt
    BY <1>0
  <2>2. ASSUME NEW now, NEW date, NEW stops,
               page' = [page EXCEPT !.step = "updates", !.now = now, !.date = date, !.stops = stops]
        PROVE  Goal
    BY <1>0, <2>2
  <2> HIDE DEF p, Goal
  <2>3. ASSUME page' = End(page, 404) \/ page' = End(p, 404)
        PROVE  Goal
    BY <1>0a, <2>1, <2>3
  <2>4. \/ page' = End(page, 404)
        \/ page' = End(p, 404)
        \/ \E date : page' = [page EXCEPT !.step = "updates", !.now = Now, !.date = date,
                                          !.stops = IF page.attempt \in page.got["itinerary_pattern"]
                                                    THEN ScheduledStops(date) ELSE <<>>]
    BY <1>3 DEF Schedule, p
  <2> QED
    BY <2>2, <2>3, <2>4
<1>4. ASSUME AskUpdates
      PROVE  Goal
  <2> DEFINE asked == [page EXCEPT !.asked = served.made]
  <2>1. DOMAIN asked = PageFields /\ asked.attempt = page.attempt
    BY <1>0
  <2> HIDE DEF asked
  <2>2. ASSUME NEW shown, NEW stops,
               page' = [asked EXCEPT !.step = "routeAlerts", !.shown = shown, !.stops = stops]
        PROVE  Goal
    BY <1>0, <2>1, <2>2
  <2> HIDE DEF Goal
  <2>3. ASSUME page' = End(page, 404)
        PROVE  Goal
    BY <1>0a, <2>3
  <2>4. CASE IsScheduled
    <3>1. \/ page' = [asked EXCEPT !.step = "routeAlerts"]
          \/ LET u == UpdateShown(UpdatesOf(Query.trip))
             IN  page' = [asked EXCEPT !.step = "modification", !.shown = {u},
                                      !.cancelled = u.status = "cancelled", !.deleted = u.status = "deleted"]
      BY <1>4, <2>4 DEF AskUpdates, asked
    <3> QED
      BY <1>0, <2>1, <3>1 DEF Goal
  <2>5. CASE ~IsScheduled
    <3>1. \/ page' = End(page, 404)
          \/ LET u == UpdatesOf(Query.trip)[1]
             IN  page' = [asked EXCEPT !.step = "routeAlerts", !.shown = {u}, !.stops = RealtimeStops(u)]
      BY <1>4, <2>5 DEF AskUpdates, asked
    <3> QED
      BY <2>2, <2>3, <3>1
  <2> QED
    BY <2>4, <2>5
<1>5. ASSUME AskModification
      PROVE  Goal
  <2>1. PICK u \in page.shown :
           LET mods == IF u.mod = 0 THEN ModificationOf(Query.trip, page.date) ELSE Modification(u.mod)
               asked == [page EXCEPT !.mods = mods]
               modified == IF mods = {} THEN asked ELSE ModifyAll(asked, ChangesOf(mods))
           IN  page' = IF modified.step = "sent" THEN modified
                       ELSE [modified EXCEPT !.step = "routeAlerts", !.stops = UpdateAll(@, u.stops)]
    BY <1>5 DEF AskModification, ModifyAll, UpdateAll
  <2> DEFINE mods == IF u.mod = 0 THEN ModificationOf(Query.trip, page.date) ELSE Modification(u.mod)
             asked == [page EXCEPT !.mods = mods]
             modified == IF mods = {} THEN asked ELSE ModifyAll(asked, ChangesOf(mods))
  <2>2. mods # {} => IsList(ChangesOf(mods))
    BY ModificationIs DEF ChangesOf, IsMod
  <2>3. page' = IF modified.step = "sent" THEN modified
                ELSE [modified EXCEPT !.step = "routeAlerts", !.stops = UpdateAll(@, u.stops)]
    BY <2>1
  <2>4. DOMAIN asked = PageFields /\ asked.attempt = page.attempt
    <3> HIDE DEF mods
    <3> QED
      BY DEF PageFields
  <2>5. modified = IF mods = {} THEN asked ELSE ModifyAll(asked, ChangesOf(mods))
    OBVIOUS
  <2> HIDE DEF mods, asked, modified
  <2>6. DOMAIN modified = PageFields /\ modified.attempt = page.attempt
    <3>1. mods # {} => IsModified(modified, asked)
      BY <2>2, <2>4, <2>5, ModifyAllKeeps
    <3> QED
      BY <2>4, <2>5, <3>1 DEF IsModified, PageFields
  <2> QED
    BY <2>3, <2>6 DEF PageFields
<1>6. ASSUME AskRouteAlerts
      PROVE  Goal
  BY <1>6 DEF AskRouteAlerts, PageFields
<1>7. ASSUME NEW alerts, page' = Finish(alerts)
      PROVE  Goal
  <2> DEFINE new == page'
  <2>1. new = Finish(alerts)
    BY <1>7
  <2> HIDE DEF new
  <2>2. DOMAIN new = PageFields /\ new.step \in {"sent", "route"} /\ new.attempt = page.attempt
    <3>1. "attempt" \in PageFields \ {"step", "status", "alerts", "cancelled"}
      BY DEF PageFields
    <3> QED
      BY <2>1, <3>1, FinishIs
  <2> QED
    BY <2>2 DEF new
<1>8. ASSUME AskTripAlerts
      PROVE  Goal
  <2> HIDE DEF Goal
  <2> QED
    BY <1>7, <1>8 DEF AskTripAlerts
<1>9. ASSUME QueryFails
      PROVE  Goal
  <2>1. CASE page' = Finish(page.alerts)
    <3> HIDE DEF Goal
    <3> QED
      BY <1>7, <2>1
  <2>2. CASE page' # Finish(page.alerts)
    <3>1. ASSUME NEW stops,
                 \/ page' = [page EXCEPT !.step = "routeAlerts"]
                 \/ page' = [page EXCEPT !.step = "tripAlerts"]
                 \/ page' = [page EXCEPT !.step = "routeAlerts", !.stops = stops]
          PROVE  Goal
      BY <1>0, <3>1
    <3> HIDE DEF Goal
    <3>2. ASSUME NEW status, page' = End(page, status)
          PROVE  Goal
      BY <1>0a, <3>2
    <3>3. \/ page' = End(page, 200) \/ page' = End(page, 404) \/ page' = End(page, 500)
          \/ page' = [page EXCEPT !.step = "routeAlerts"]
          \/ page' = [page EXCEPT !.step = "tripAlerts"]
          \/ \E stops : page' = [page EXCEPT !.step = "routeAlerts", !.stops = stops]
      <4>1. \/ page' = End(page, 500)
            \/ page' \in {[page EXCEPT !.step = "routeAlerts"], End(page, 200)}
            \/ page' \in {End(page, 404), End(page, 500)}
            \/ page' = [page EXCEPT !.step = "routeAlerts",
                                    !.stops = FoldLeft(UpdateStop, @, (CHOOSE u \in page.shown : TRUE).stops)]
            \/ page' = [page EXCEPT !.step = "tripAlerts"]
        BY <1>9, <2>2 DEF QueryFails
      <4> QED
        BY <4>1
    <3>4. CASE \/ page' = [page EXCEPT !.step = "routeAlerts"]
               \/ page' = [page EXCEPT !.step = "tripAlerts"]
               \/ \E stops : page' = [page EXCEPT !.step = "routeAlerts", !.stops = stops]
      BY <3>1, <3>4
    <3>5. CASE page' = End(page, 200) \/ page' = End(page, 404) \/ page' = End(page, 500)
      BY <3>2, <3>5
    <3> QED
      BY <3>3, <3>4, <3>5
  <2> QED
    BY <2>1, <2>2
<1>10. ASSUME AskRoute
       PROVE  Goal
  <2> HIDE DEF Goal
  <2>1. page' = End(page, 200) \/ page' = End(page, 404)
    BY <1>10 DEF AskRoute
  <2> QED
    BY <1>0a, <2>1
<1> HIDE DEF Goal
<1>11. Goal
  BY <1>1, <1>2, <1>3, <1>4, <1>5, <1>6, <1>8, <1>9, <1>10 DEF Request
<1> QED
  BY <1>11 DEF Goal

(* A step of the request itself.                                           *)
LEMMA RequestFine ==
  ASSUME TablesInv, DataInv, PageInv, Request, harm' = {}, page'.attempt # NoText
  PROVE  IsFine(page') /\ (page'.step = "join" => \A t \in JoinTables : page'.attempt \in rows[t])
<1>1. ~QueryFails /\ harm = {} /\ DOMAIN page = PageFields
  BY DEF PageInv, QueryFails, Request, Open, JoinPage, Schedule, AskUpdates, AskModification, AskRouteAlerts,
         AskTripAlerts, AskRoute
<1>2. CASE Open
  <2>1. page = NewPage
    BY <1>2 DEF Open, PageInv
  <2> QED
    BY <1>1, <1>2, <2>1, OpenFine
<1>3. CASE ~Open
  <2>1. page'.attempt = page.attempt /\ page.attempt # NoText
    BY <1>1, <1>3, RequestGoesOn
  <2>2. IsFine(page) /\ (page.step = "join" => \A t \in JoinTables : page.attempt \in rows[t])
    BY <1>1, <2>1 DEF PageInv, IsScheduled
  <2>3. ASSUME NEW t, JoinPage(t)
        PROVE  IsFine(page') /\ \A x \in JoinTables : page'.attempt \in rows[x]
    BY <1>1, <2>2, <2>3, JoinFine DEF JoinPage
  <2>4. CASE Schedule
    <3>1. page'.step # "join"
      <4> DEFINE p == [page EXCEPT !.now = Now]
      <4>1. "step" \in PageFields /\ DOMAIN p = PageFields
        BY <1>1 DEF PageFields
      <4>2. ASSUME NEW now, NEW date, NEW stops,
                   page' = [page EXCEPT !.step = "updates", !.now = now, !.date = date, !.stops = stops]
            PROVE  page'.step # "join"
        BY <1>1, <4>1, <4>2
      <4> HIDE DEF p
      <4>3. ASSUME page' = End(page, 404) \/ page' = End(p, 404)
            PROVE  page'.step # "join"
        BY <1>1, <4>1, <4>3, EndIs
      <4>4. \/ page' = End(page, 404)
            \/ page' = End(p, 404)
            \/ \E date : page' = [page EXCEPT !.step = "updates", !.now = Now, !.date = date,
                                              !.stops = IF page.attempt \in page.got["itinerary_pattern"]
                                                        THEN ScheduledStops(date) ELSE <<>>]
        BY <2>4 DEF Schedule, p
      <4> QED
        BY <4>2, <4>3, <4>4
    <3> QED
      BY <1>1, <2>2, <2>4, <3>1, ScheduleFine
  <2>5. CASE AskUpdates
    <3>1. IsFine(page')
      BY <1>1, <2>1, <2>2, <2>5, UpdatesFine
    <3>2. page'.step # "join"
      <4> DEFINE asked == [page EXCEPT !.asked = served.made]
      <4>1. PICK shown, cancelled, deleted :
               \/ page' = [asked EXCEPT !.step = "routeAlerts"]
               \/ page' = [asked EXCEPT !.step = "modification", !.shown = shown,
                                        !.cancelled = cancelled, !.deleted = deleted]
        BY <2>1, <2>5 DEF AskUpdates, IsScheduled
      <4> QED
        BY <1>1, <4>1 DEF PageFields
    <3> QED
      BY <3>1, <3>2
  <2>6. CASE AskModification
    BY <1>1, <2>2, <2>6, ModificationFine
  <2>7. CASE AskRouteAlerts
    <3>1. /\ page.step = "routeAlerts" /\ page'.step = "tripAlerts"
          /\ page'.attempt = page.attempt /\ page'.date = page.date
          /\ page'.mods = page.mods /\ page'.dropped = page.dropped /\ page'.stops = page.stops
      BY <1>1, <2>7 DEF AskRouteAlerts, PageFields
    <3>2. HasTrip(page) /\ page.date \in Int /\ IsDated(page) /\ IsPlaced(page)
      BY <2>2, <3>1 DEF IsFine
    <3>3. HasTrip(page') /\ page'.date \in Int /\ IsDated(page') /\ IsPlaced(page')
      BY <3>1, <3>2, SamePlace
    <3> QED
      BY <3>1, <3>3 DEF IsFine
  <2>8. CASE AskTripAlerts
    <3>1. page.step = "tripAlerts" /\ page' = Finish(WithAlerts(AlertsOfTrip(Query.trip)))
      BY <2>8 DEF AskTripAlerts
    <3>2. IsFine(page')
      BY <1>1, <2>1, <2>2, <3>1, FinishFine
    <3>3. page'.step = "sent"
      BY <1>1, <2>1, <3>1 DEF Finish, End, Panicked, PageFields, IsScheduled
    <3> QED
      BY <3>2, <3>3
  <2>9. ~AskRoute
    BY <2>2 DEF AskRoute, IsFine
  <2> QED
    BY <1>1, <1>3, <2>3, <2>4, <2>5, <2>6, <2>7, <2>8, <2>9 DEF Request
<1> QED
  BY <1>2, <1>3

LEMMA PageAtFirst ==
  ASSUME Init
  PROVE  PageInv
<1>1. page = NewPage /\ harm = {}
  BY DEF Init, ImportInit
<1>2. NewPage.attempt = NoText /\ DOMAIN NewPage = PageFields
  BY DEF NewPage, PageFields
<1> QED
  BY <1>1, <1>2 DEF PageInv, IsScheduled

\* Steps of others: while the tables keep the rows of the attempt.
LEMMA PageStays ==
  ASSUME PageInv, UNCHANGED <<world, reduced, page>>,
         (page.attempt # NoText /\ harm' = {}) =>
            harm = {} /\ \A t \in JoinTables : rows[t] \subseteq rows'[t]
  PROVE  PageInv'
<1>1. NewPage' = NewPage
  BY DEF NewPage, Query, RtFeeds
<1>2. /\ DOMAIN page' = PageFields
      /\ page'.step = "open" => page' = NewPage'
      /\ page'.attempt # NoText => page'.step # "open" /\ (Query.trip)' # NoText
  BY <1>1 DEF PageInv, IsScheduled, Query
<1>3. ASSUME page.attempt # NoText, harm' = {}
      PROVE  /\ IsFine(page)'
             /\ page'.step = "join" => \A t \in JoinTables : page'.attempt \in rows'[t]
  <2>1. IsFine(page) /\ (page.step = "join" => \A t \in JoinTables : page.attempt \in rows[t])
    BY <1>3 DEF PageInv, IsScheduled
  <2>2. IsFine(page')
    BY <2>1
  <2> QED
    BY <1>3, <2>1, <2>2, FineStays
<1> QED
  BY <1>2, <1>3 DEF PageInv, IsScheduled

\* An import that touches the attempt of a page leaves its mark while the page is made.
LEMMA ImportLeaves ==
  ASSUME PageInv, Import(Reading), UNCHANGED page
  PROVE  PageInv'
<1>1. UNCHANGED <<world, reduced>>
  BY DEF Import, Insert, InsertFails, Delete, Stop
<1>2. ASSUME page.attempt # NoText, harm' = {}
      PROVE  harm = {} /\ \A t \in JoinTables : rows[t] \subseteq rows'[t]
  <2>1. Reading
    BY <1>2 DEF PageInv, IsScheduled, Reading
  <2>2. ~Delete(Reading)
    BY <1>2, <2>1 DEF Delete
  <2>3. Insert \/ InsertFails \/ Stop
    BY <2>2 DEF Import
  <2> QED
    BY <1>2, <2>3, TablesAre DEF Insert, InsertFails, Stop, JoinTables
<1> QED
  BY <1>1, <1>2, PageStays

LEMMA RequestLeaves ==
  ASSUME TablesInv, DataInv, PageInv, Request, UNCHANGED <<world, reduced, rows>>
  PROVE  PageInv'
<1>1. DOMAIN page' = PageFields /\ page'.step # "open" /\ (Open \/ page'.attempt = page.attempt)
  BY RequestGoesOn DEF PageInv
<1>2. (Query.trip)' = Query.trip
  BY DEF Query
<1>3. page'.attempt # NoText => Query.trip # NoText
  <2>1. CASE Open
    <3>1. page = NewPage /\ page.step = "open"
      BY <2>1 DEF Open, PageInv
    <3> QED
      BY <3>1 DEF NewPage
  <2>2. CASE page'.attempt = page.attempt
    BY <2>2 DEF PageInv, IsScheduled
  <2> QED
    BY <1>1, <2>1, <2>2
<1>4. ASSUME page'.attempt # NoText, harm' = {}
      PROVE  /\ IsFine(page)'
             /\ page'.step = "join" => \A t \in JoinTables : page'.attempt \in rows'[t]
  <2>1. IsFine(page') /\ (page'.step = "join" => \A t \in JoinTables : page'.attempt \in rows[t])
    BY <1>4, RequestFine
  <2> QED
    BY <2>1, FineStays
<1> QED
  BY <1>1, <1>2, <1>3, <1>4 DEF PageInv, IsScheduled

(* PageIsWhole: a page shows every visit of its trip, at its time on the   *)
(* date asked for or on one of service, though the tables are written      *)
(* while they are read; with a modification it shows the stops that stay,  *)
(* later by the delays, and lists those that go. It is not found only if   *)
(* there is no date of service, or its route is new and not inserted yet;  *)
(* and it panics only over a modification.                                 *)
THEOREM PageCorrect == Spec => []PageIsWhole
<1>1. Init => TablesInv /\ PageInv
  BY TablesAtFirst, PageAtFirst DEF Init
<1>2. TablesInv /\ DataInv /\ PageInv /\ [Next]_vars => TablesInv' /\ PageInv'
  <2> SUFFICES ASSUME TablesInv, DataInv, PageInv, [Next]_vars
               PROVE  TablesInv' /\ PageInv'
    OBVIOUS
  <2>1. CASE Import(Reading) /\ UNCHANGED <<dataVars, page>>
    <3>1. Insert \/ InsertFails \/ Stop \/ Deletes
      BY <2>1 DEF Import, Delete, Deletes
    <3>2. TablesInv'
      BY <3>1, TablesKept
    <3> QED
      BY <2>1, <3>2, ImportLeaves
  <2>2. CASE UNCHANGED <<world, reduced, rows, importer, harm, page>>
    <3>1. TablesInv'
      BY <2>2, TablesLeft
    <3> QED
      BY <2>2, <3>1, PageStays DEF PageInv, IsScheduled
  <2>3. CASE Request /\ UNCHANGED <<world, reduced, rows, importer, dataVars>>
    <3>1. harm' \in {harm, harm \cup {"failure"}}
      BY <2>3 DEF Request, Open, JoinPage, Schedule, AskUpdates, AskModification, AskRouteAlerts,
                  AskTripAlerts, AskRoute, QueryFails
    <3>2. TablesInv'
      BY <2>3, <3>1, TablesLeft
    <3> QED
      BY <2>3, <3>2, RequestLeaves
  <2> QED
    BY <2>1, <2>2, <2>3 DEF Next, vars
<1>3. PageInv => PageIsWhole
  <2> SUFFICES ASSUME PageInv, IsSent
               PROVE  IsWhole(page) => PageIsWhole
    BY DEF PageInv, IsFine, IsSent, PageIsWhole
  <2> QED
    BY DEF IsWhole, IsOfNewRoute, IsPlaced, IsDated, AreFollowed, PageIsWhole, RunsOn, ChangesIn, VisitsOf, OriginOf, StartOf,
           Visits, Origin, StartOn, PageStart, PageTrip
<1> QED
  BY <1>1, <1>2, <1>3, DataIsWhole, PTL DEF Spec

================================================================================
