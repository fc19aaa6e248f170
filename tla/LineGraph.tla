------------------------------- MODULE LineGraph -------------------------------
(***************************************************************************)
(* The graph Harebell draws, and the rules by which its optimizer takes it *)
(* apart before it orders the lines: nodes with their positions, and a     *)
(* vector of edges, each with its lines and the points it runs through.    *)
(*                                                                         *)
(* A rule is an operator from graph to graph that returns the graph itself *)
(* where it does not apply. Where the code looks at edges in the order of  *)
(* the vector, or at the edges of a node in that order, so does the rule.  *)
(***************************************************************************)
EXTENDS Integers, FiniteSets, SequencesExt, FiniteSetsExt, TLC

LineIds(e) == {l.line : l \in Range(e.lines)}
Only(lines, ids) == SelectSeq(lines, LAMBDA l : l.line \in ids)
Without(lines, ids) == SelectSeq(lines, LAMBDA l : l.line \notin ids)

\* The same lines, each as often.
SameLines(e, f) ==
    LET Ids(x) == SortSeq([i \in DOMAIN x.lines |-> x.lines[i].line], <)
    IN  Ids(e) = Ids(f)

\* build_node_adjacency: the edges at a node; one from the node to itself comes twice.
At(g, v) ==
    FlattenSeq([i \in DOMAIN g.edges |-> (IF g.edges[i].from = v THEN <<i>> ELSE <<>>) \o
                                         (IF g.edges[i].to = v THEN <<i>> ELSE <<>>)])
Degree(g, v) == Len(At(g, v))
Legs(g, v, e) == SelectSeq(At(g, v), LAMBDA i : i # e)

OtherEnd(e, v) == IF e.from = v THEN e.to ELSE e.from

\* Whether a line of e is on another edge at v.
GoesOn(g, line, e, v) == \E leg \in Range(Legs(g, v, e)) : line \in LineIds(g.edges[leg])

MaxNode(g) == Max(DOMAIN g.nodes \cup {0})
MaxEdge(g) == Max({e.id : e \in Range(g.edges)} \cup {0})

\* Moves one end of an edge, or both.
Move(e, v, w) == IF e.from = v THEN [e EXCEPT !.from = w]
                 ELSE IF e.to = v THEN [e EXCEPT !.to = w] ELSE e
MoveBoth(e, v, w) == [e EXCEPT !.from = IF @ = v THEN w ELSE @, !.to = IF @ = v THEN w ELSE @]
MoveLeg(g, leg, v, w) == [g EXCEPT !.edges[leg] = Move(@, v, w)]

EdgeOrder(g) == [i \in DOMAIN g.edges |-> i]
NodeOrder(g) == SelectSeq([v \in 1..MaxNode(g) |-> v], LAMBDA v : v \in DOMAIN g.nodes)

\* The first of a sequence for which Test holds, 0 if there is none.
First(seq, Test(_)) == LET i == SelectInSeq(seq, Test) IN IF i = 0 THEN 0 ELSE seq[i]

\* The functions on S that choose one of the options of each.
OneOfEach(S, Options(_)) ==
    FoldSet(LAMBDA x, fs : {(x :> o) @@ f : o \in Options(x), f \in fs}, {<<>>}, S)

--------------------------------------------------------------------------------
(* Untangling rules. *)

\* Lines of e onto an edge of their own, between copies of the ends of e.
PeelOff(g, e, ids) ==
    LET old == g.edges[e]
        n == MaxNode(g)
    IN  [nodes |-> g.nodes @@ (n + 1 :> g.nodes[old.from]) @@ (n + 2 :> g.nodes[old.to]),
         edges |-> Append([g.edges EXCEPT ![e].lines = Without(@, ids)],
                          [old EXCEPT !.id = MaxEdge(g) + 1, !.from = n + 1, !.to = n + 2,
                                      !.lines = Only(@, ids)])]

\* Rule 8: lines that go on at neither end.
DoubleStumps(g, e) ==
    {l \in LineIds(g.edges[e]) : \A v \in {g.edges[e].from, g.edges[e].to} : ~GoesOn(g, l, e, v)}

DoubleStump(g) ==
    LET IsStump(e) == /\ DoubleStumps(g, e) # {}
                      /\ \/ DoubleStumps(g, e) # LineIds(g.edges[e])
                         \/ Degree(g, g.edges[e].from) > 1
                         \/ Degree(g, g.edges[e].to) > 1
    IN  FoldLeft(LAMBDA h, e : PeelOff(h, e, DoubleStumps(g, e)), g, SelectSeq(EdgeOrder(g), IsStump))

\* Rule 6: a leg at u all of whose lines come along e and end at v. An edge takes
\* part once as e, and is then no leg; a leg may still take its turn as e.
\* Mutant: lines that go on past the edge are taken for stumps.
StumpLegMut(g, e, u, v, taken) ==
    IF Degree(g, u) < 3 \/ Degree(g, v) < 2 THEN 0
    ELSE First(Legs(g, u, e), LAMBDA leg :
            /\ leg \notin taken
            /\ g.edges[leg].lines # <<>>
            /\ LineIds(g.edges[leg]) \subseteq LineIds(g.edges[e]))
StumpLeg(g, e, u, v, taken) ==
    IF Degree(g, u) < 3 \/ Degree(g, v) < 2 THEN 0
    ELSE First(Legs(g, u, e), LAMBDA leg :
            /\ leg \notin taken
            /\ g.edges[leg].lines # <<>>
            /\ \A l \in LineIds(g.edges[leg]) : l \in LineIds(g.edges[e]) /\ ~GoesOn(g, l, e, v))

OuterStumps(g) ==
    LET Find(found, e) ==
            LET edge == g.edges[e]
                taken == {a.e : a \in Range(found)} \cup {a.leg : a \in Range(found)}
                from == StumpLeg(g, e, edge.from, edge.to, taken)
                to == StumpLeg(g, e, edge.to, edge.from, taken)
            IN  CASE edge.lines = <<>> -> found
                  [] edge.lines # <<>> /\ from # 0 -> Append(found, [e |-> e, leg |-> from, atFrom |-> TRUE])
                  [] edge.lines # <<>> /\ from = 0 /\ to # 0 ->
                        Append(found, [e |-> e, leg |-> to, atFrom |-> FALSE])
                  [] OTHER -> found
    IN  FoldLeft(Find, <<>>, EdgeOrder(g))

OuterStump(g) ==
    LET Apply(h, a) ==
            LET n == MaxNode(h)
                peeled == PeelOff(h, a.e, LineIds(h.edges[a.leg]))
            IN  IF a.atFrom THEN MoveLeg(peeled, a.leg, h.edges[a.e].from, n + 1)
                ELSE MoveLeg(peeled, a.leg, h.edges[a.e].to, n + 2)
    IN  FoldLeft(Apply, g, OuterStumps(g))

\* Rule 7: lines of e that come from a leg at its start and end at its end; the legs
\* they come from move with them.
InnerStumps(g, e) ==
    {l \in LineIds(g.edges[e]) : GoesOn(g, l, e, g.edges[e].from) /\ ~GoesOn(g, l, e, g.edges[e].to)}

IsInnerStump(g, e) ==
    /\ Degree(g, g.edges[e].from) >= 3 /\ Degree(g, g.edges[e].to) >= 3
    /\ InnerStumps(g, e) \notin {{}, LineIds(g.edges[e])}

InnerStump(g) ==
    LET Apply(h, e) ==
            LET u == g.edges[e].from
                stump == InnerStumps(g, e)
                carriers == SelectSeq(Legs(g, u, e), LAMBDA leg : LineIds(h.edges[leg]) \cap stump # {})
            IN  FoldLeft(LAMBDA k, leg : MoveLeg(k, leg, u, MaxNode(h) + 1), PeelOff(h, e, stump), carriers)
    IN  FoldLeft(Apply, g, SelectSeq(EdgeOrder(g), LAMBDA e : IsInnerStump(g, e)))

\* Rule 1: two edges of a node with the same lines, which no other edge there has,
\* get a node of their own, and the rest another.
IsolatedPairs(g, v) ==
    LET at == At(g, v)
    IN  {p \in (DOMAIN at) \X (DOMAIN at) :
            /\ Len(at) >= 3 /\ p[1] < p[2]
            /\ g.edges[at[p[1]]].lines # <<>>
            /\ SameLines(g.edges[at[p[1]]], g.edges[at[p[2]]])
            /\ \A k \in DOMAIN at \ {p[1], p[2]} :
                  LineIds(g.edges[at[k]]) \cap LineIds(g.edges[at[p[1]]]) = {}}

FullX(g) ==
    LET v == First(NodeOrder(g), LAMBDA w : IsolatedPairs(g, w) # {})
        Earlier(p, q) == p[1] < q[1] \/ (p[1] = q[1] /\ p[2] < q[2])
        pair == CHOOSE p \in IsolatedPairs(g, v) : \A q \in IsolatedPairs(g, v) \ {p} : Earlier(p, q)
        at == At(g, v)
        isolated == {at[pair[1]], at[pair[2]]}
        n == MaxNode(g)
    IN  IF \A w \in DOMAIN g.nodes : IsolatedPairs(g, w) = {} THEN g
        ELSE [nodes |-> [w \in (DOMAIN g.nodes \ {v}) \cup {n + 1, n + 2} |->
                            IF w > n THEN g.nodes[v] ELSE g.nodes[w]],
              edges |-> [i \in DOMAIN g.edges |->
                            MoveBoth(g.edges[i], v, IF i \in isolated THEN n + 1 ELSE n + 2)]]

\* Rule 2: at a node of three edges the lines of one, which ends at the next node,
\* are those of the two others. It becomes two edges, the lines and the line objects
\* those of the others, and the last edge of the vector takes its place.
IsFullY(g, v, e) ==
    LET edge == g.edges[e]
        minors == Legs(g, v, e)
        one == LineIds(g.edges[minors[1]])
        two == LineIds(g.edges[minors[2]])
    IN  /\ Degree(g, v) = 3
        /\ Degree(g, OtherEnd(edge, v)) = 1
        /\ one \cup two \subseteq LineIds(edge)
        /\ one \cap two = {}
        /\ Cardinality(one) + Cardinality(two) = Len(edge.lines)

FullYs(g) ==
    {<<v, k>> \in (DOMAIN g.nodes) \X (1..3) : Degree(g, v) = 3 /\ IsFullY(g, v, At(g, v)[k])}

FullY(g) ==
    LET v == Min({y[1] : y \in FullYs(g)})
        e == At(g, v)[Min({y[2] : y \in {y \in FullYs(g) : y[1] = v}})]
        u == OtherEnd(g.edges[e], v)
        minors == Legs(g, v, e)
        n == MaxNode(g)
        Major(i) == [id |-> MaxEdge(g) + i, from |-> n + i, to |-> n + 2 + i,
                     lines |-> g.edges[minors[i]].lines, geometry |-> g.edges[e].geometry, dir |-> TRUE]
        moved == [i \in DOMAIN g.edges |->
                     CASE i = minors[1] -> MoveBoth(g.edges[i], v, n + 3)
                       [] i = minors[2] -> MoveBoth(g.edges[i], v, n + 4)
                       [] OTHER -> g.edges[i]]
        SwapRemove(seq, i) == Front([seq EXCEPT ![i] = Last(seq)])
    IN  IF FullYs(g) = {} THEN g
        ELSE [nodes |-> [w \in (DOMAIN g.nodes \ {u, v}) \cup (n + 1)..(n + 4) |->
                            CASE w \in {n + 1, n + 2} -> g.nodes[u]
                              [] w \in {n + 3, n + 4} -> g.nodes[v]
                              [] OTHER -> g.nodes[w]],
              edges |-> SwapRemove(moved \o <<Major(1), Major(2)>>, e)]

\* The legs at v that lines of e go on to. They are a partition if each line goes on
\* to one leg, and there are two legs.
LinesTo(g, e, leg) == LineIds(g.edges[e]) \cap LineIds(g.edges[leg])

IsPartitioned(g, e, v) ==
    LET legs == Legs(g, v, e)
    IN  /\ g.edges[e].lines # <<>>
        /\ \A l \in LineIds(g.edges[e]) :
              Cardinality({k \in DOMAIN legs : l \in LineIds(g.edges[legs[k]])}) = 1
        /\ Cardinality({LinesTo(g, e, leg) : leg \in Range(legs)} \ {{}}) > 1

\* Rule 3: an edge that ends at u is split there, one leg of the other end at a time;
\* the groups are in a hash map, so it may be any leg.
PartialYEnds(g, e) ==
    SelectSeq(<<g.edges[e].from, g.edges[e].to>>,
              LAMBDA u : Degree(g, u) = 1 /\ IsPartitioned(g, e, OtherEnd(g.edges[e], u)))

PartialY(g) ==
    LET e == First(EdgeOrder(g), LAMBDA i : PartialYEnds(g, i) # <<>>)
        u == PartialYEnds(g, e)[1]
        n == MaxNode(g)
        SplitFor(leg) ==
            [nodes |-> g.nodes @@ (n + 1 :> g.nodes[u]),
             edges |-> Append([g.edges EXCEPT ![e].lines = Without(@, LinesTo(g, e, leg))],
                              [MoveBoth(g.edges[e], u, n + 1) EXCEPT
                                  !.id = MaxEdge(g) + 1, !.lines = Only(@, LinesTo(g, e, leg))])]
    IN  IF e = 0 THEN {g}
        ELSE {SplitFor(leg) : leg \in {leg \in Range(Legs(g, OtherEnd(g.edges[e], u), e)) :
                                          LinesTo(g, e, leg) # {}}}

\* Rule 4: the legs at both ends part the lines of e alike. A group is peeled off with
\* a leg of each end; the leg at the end is found by how many of the lines it has,
\* and the first edge of the vector is taken if none is.
IsDogBone(g, e) ==
    LET u == g.edges[e].from
        v == g.edges[e].to
        Parts(w) == {LinesTo(g, e, leg) : leg \in Range(Legs(g, w, e))} \ {{}}
    IN  /\ Degree(g, u) >= 3 /\ Degree(g, v) >= 3
        /\ IsPartitioned(g, e, u) /\ IsPartitioned(g, e, v)
        /\ Parts(u) = Parts(v)

DogBone(g) ==
    LET e == First(EdgeOrder(g), LAMBDA i : IsDogBone(g, i))
        u == g.edges[e].from
        v == g.edges[e].to
        legU == First(Legs(g, u, e), LAMBDA leg : LinesTo(g, e, leg) # {})
        target == LinesTo(g, e, legU)
        Have(leg) == Len(Only(g.edges[leg].lines, target))
        legV == First(Legs(g, v, e), LAMBDA leg : Have(leg) = Have(legU))
        n == MaxNode(g)
    IN  IF e = 0 THEN g
        ELSE MoveLeg(MoveLeg(PeelOff(g, e, target), legU, u, n + 1), IF legV = 0 THEN 1 ELSE legV, v, n + 2)

\* Rule 5: the lines of e are all the lines of the legs at u, and go on to some but
\* not all legs at v: e and those legs get a node of their own.
Involved(g, e, v) == SelectSeq(Legs(g, v, e), LAMBDA leg : LinesTo(g, e, leg) # {})

IsPartialDogBone(g, e, u, v) ==
    LET ids == LineIds(g.edges[e])
    IN  /\ Degree(g, u) >= 3 /\ Degree(g, v) >= 3
        /\ ids = UNION {LineIds(g.edges[leg]) : leg \in Range(Legs(g, u, e))}
        /\ \A l \in ids : GoesOn(g, l, e, v)
        /\ Len(Involved(g, e, v)) < Degree(g, v) - 1

PartialDogBones(g) ==
    LET Find(found, e) ==
            LET edge == g.edges[e]
                touched == {a.u : a \in Range(found)} \cup {a.v : a \in Range(found)}
                Fits(u, v) == {u, v} \cap touched = {} /\ IsPartialDogBone(g, e, u, v)
            IN  CASE edge.lines = <<>> -> found
                  [] edge.lines # <<>> /\ Fits(edge.from, edge.to) ->
                        Append(found, [e |-> e, u |-> edge.from, v |-> edge.to])
                  [] edge.lines # <<>> /\ ~Fits(edge.from, edge.to) /\ Fits(edge.to, edge.from) ->
                        Append(found, [e |-> e, u |-> edge.to, v |-> edge.from])
                  [] OTHER -> found
    IN  FoldLeft(Find, <<>>, EdgeOrder(g))

PartialDogBone(g) ==
    LET Apply(h, a) ==
            LET n == MaxNode(h)
                cloned == [h EXCEPT !.nodes = @ @@ (n + 1 :> h.nodes[a.v])]
            IN  FoldLeft(LAMBDA k, leg : MoveLeg(k, leg, a.v, n + 1), cloned,
                         <<a.e>> \o Involved(g, a.e, a.v))
    IN  FoldLeft(Apply, g, PartialDogBones(g))

\* untangle_complex_repeatedly, one turn of its loop: the first rule that applies.
Untangled(g) ==
    LET stages == <<{DoubleStump(g)}, {OuterStump(g)}, {FullX(g)}, {FullY(g)}, PartialY(g),
                    {DogBone(g)}, {PartialDogBone(g)}, {InnerStump(g)}>>
        i == SelectInSeq(stages, LAMBDA s : s # {g})
    IN  IF i = 0 THEN {g} ELSE stages[i]

--------------------------------------------------------------------------------
(* Cutting and pruning rules. *)

\* An edge with one line between two others is cut at its middle point.
CutSingleLines(g) ==
    LET IsCut(e) == /\ Len(g.edges[e].lines) = 1
                    /\ Degree(g, g.edges[e].from) > 1 /\ Degree(g, g.edges[e].to) > 1
        cuts == SelectSeq(EdgeOrder(g), IsCut)
        n == MaxNode(g)
        Halves(k) ==
            LET e == g.edges[cuts[k]]
                points == Len(e.geometry)
                mid == points \div 2 + 1
                one == IF points >= 2 THEN SubSeq(e.geometry, 1, mid) ELSE e.geometry
                two == IF points >= 2 THEN SubSeq(e.geometry, mid, points) ELSE e.geometry
                id == MaxEdge(g) + 2 * k - 1
            IN  <<[e EXCEPT !.id = id, !.to = n + 2 * k - 1, !.geometry = one],
                  [e EXCEPT !.id = id + 1, !.from = n + 2 * k, !.geometry = two]>>
        halves == FlattenSeq([k \in DOMAIN cuts |-> Halves(k)])
        Middle(k) == Last(Halves(k)[1].geometry)
        kept == SelectSeq(EdgeOrder(g), LAMBDA e : ~IsCut(e))
    IN  IF cuts = <<>> THEN g
        ELSE [nodes |-> g.nodes @@ [w \in (n + 1)..(n + 2 * Len(cuts)) |-> Middle((w - n + 1) \div 2)],
              edges |-> [k \in DOMAIN kept |-> g.edges[kept[k]]] \o halves]

\* An edge is taken from a node with other edges if none of its lines goes on there.
Detached(g) ==
    LET Ends(e) == SelectSeq(<<g.edges[e].from, g.edges[e].to>>,
                       LAMBDA v : Degree(g, v) > 1 /\ \A l \in LineIds(g.edges[e]) : ~GoesOn(g, l, e, v))
        Detach(h, e) ==
            LET v == Ends(e)[1]
                n == MaxNode(h)
            IN  MoveLeg([h EXCEPT !.nodes = @ @@ (n + 1 :> h.nodes[v])], e, v, n + 1)
    IN  FoldLeft(Detach, g, SelectSeq(EdgeOrder(g), LAMBDA e : Ends(e) # <<>>))

\* prune_rule_1, one pass: two edges of a node with the same lines become one. The
\* points of an edge are taken to run from its start to its end.
Towards(e, v) == IF e.to = v THEN e.geometry ELSE Reverse(e.geometry)
AwayFrom(e, v) == IF e.from = v THEN e.geometry ELSE Reverse(e.geometry)

Contracted(g) ==
    LET Contract(acc, v) ==
            LET at == At(g, v)
                one == g.edges[at[1]]
                two == g.edges[at[2]]
                start == Towards(one, v)
                rest == AwayFrom(two, v)
                joined == start \o (IF Last(start) = rest[1] THEN Tail(rest) ELSE rest)
            IN  IF \/ Len(at) # 2
                   \/ at[1] \in acc.removed \/ at[2] \in acc.removed
                   \/ ~SameLines(one, two)
                   \/ OtherEnd(one, v) = OtherEnd(two, v)
                THEN acc
                ELSE [added |-> Append(acc.added,
                          [id |-> MaxEdge(g) + 1 + Len(acc.added), from |-> OtherEnd(one, v),
                           to |-> OtherEnd(two, v), lines |-> one.lines, geometry |-> joined,
                           dir |-> one.dir]),
                      removed |-> acc.removed \cup {at[1], at[2]},
                      gone |-> acc.gone \cup {v}]
        done == FoldLeft(Contract, [added |-> <<>>, removed |-> {}, gone |-> {}], NodeOrder(g))
        kept == SelectSeq(EdgeOrder(g), LAMBDA e : e \notin done.removed)
    IN  [nodes |-> [v \in DOMAIN g.nodes \ done.gone |-> g.nodes[v]],
         edges |-> [k \in DOMAIN kept |-> g.edges[kept[k]]] \o done.added]

\* prune_rule_2: lines on the same edges, two at least, travel as one. Its name comes
\* from whichever of them the hash map gives first.
PathOf(g, line) ==
    SortSeq(FlattenSeq([i \in DOMAIN g.edges |->
                [k \in DOMAIN Only(g.edges[i].lines, {line}) |-> g.edges[i].id]]), <)

Partners(g) ==
    LET lines == UNION {LineIds(e) : e \in Range(g.edges)}
        paths == {p \in {PathOf(g, l) : l \in lines} : Len(p) >= 2}
    IN  {group \in {{l \in lines : PathOf(g, l) = p} : p \in paths} : Cardinality(group) > 1}

\* "SUPER_" and the name of a line: before all names of lines, in their order.
SuperId(leader) == leader - 1000

SuperLine(lines, group, leader) ==
    LET members == Only(lines, group)
    IN  [members[1] EXCEPT !.line = SuperId(leader),
                           !.weight = FoldLeft(LAMBDA sum, l : sum + l.weight, 0, members)]

\* With a leader for each group; "collapsed" has the lines of the first edge.
Collapsed(g, leaders) ==
    LET groups == DOMAIN leaders
        Merge(lines) ==
            LET Place(acc, l) ==
                    LET group == CHOOSE gr \in groups : l.line \in gr
                    IN  IF l.line \notin UNION groups THEN Append(acc, l)
                        ELSE IF \E x \in Range(acc) : x.line = SuperId(leaders[group]) THEN acc
                        ELSE Append(acc, SuperLine(lines, group, leaders[group]))
            IN  FoldLeft(Place, <<>>, lines)
        Members(group) ==
            LET e == First(EdgeOrder(g), LAMBDA i : LineIds(g.edges[i]) \cap group # {})
            IN  Only(g.edges[e].lines, group)
    IN  [graph |-> [g EXCEPT !.edges = [i \in DOMAIN g.edges |->
                       [g.edges[i] EXCEPT !.lines = Merge(@)]]],
         collapsed |-> [s \in {SuperId(leaders[gr]) : gr \in groups} |->
                           Members(CHOOSE gr \in groups : SuperId(leaders[gr]) = s)]]

================================================================================
