------------------------------- MODULE LineOrder -------------------------------
(***************************************************************************)
(* How Harebell's optimizer orders the lines of the edges of a component:  *)
(* a greedy pass that settles one edge after another, hill climbing over   *)
(* swaps of two lines, and an integer program.                             *)
(*                                                                         *)
(* An order is the sequence of the lines of an edge; "cfg" has those that  *)
(* are settled. Costs are the weights of the code times one.               *)
(***************************************************************************)
EXTENDS LineGraph

Consistency == 40       \* two lines cross on their way from an edge to another
Split == 10             \* two lines part on the wrong sides

--------------------------------------------------------------------------------
(* The edges around a node. *)

\* The direction in which e leaves v, from its two points next to v.
Heading(e, v, default) ==
    LET n == Len(e.geometry)
        Point(k) == IF k \in DOMAIN e.geometry THEN e.geometry[k] ELSE default
        near == IF e.from = v THEN Point(1) ELSE Point(n)
        far == IF e.from = v THEN Point(2) ELSE Point(IF n > 1 THEN n - 1 ELSE 1)
    IN  <<far[1] - near[1], far[2] - near[2]>>

\* atan2 in 0..2*pi, of which only the order matters; that of no direction is 0.
AngleLess(a, b) ==
    LET Real(x) == IF x = <<0, 0>> THEN <<1, 0>> ELSE x
        Half(x) == IF x[2] > 0 \/ (x[2] = 0 /\ x[1] >= 0) THEN 0 ELSE 1
        p == Real(a)
        q == Real(b)
    IN  Half(p) < Half(q) \/ (Half(p) = Half(q) /\ p[1] * q[2] - p[2] * q[1] > 0)

\* Whether a turn from s counterclockwise meets a before b.
MeetsFirst(s, a, b) ==
    IF AngleLess(a, s) = AngleLess(b, s) THEN AngleLess(a, b) ELSE ~AngleLess(a, s)

\* clockwise_edges, which turns counterclockwise where y points up.
ClockwiseEdges(g, e, v) ==
    LET at == At(g, v)
        Angle(k) == Heading(g.edges[at[k]], v, g.nodes[v])
        Before(j, k) == \/ AngleLess(Angle(j), Angle(k))
                        \/ ~AngleLess(Angle(k), Angle(j)) /\ j < k
        sorted == LET o == SortSeq([k \in DOMAIN at |-> k], Before) IN [i \in DOMAIN o |-> at[o[i]]]
        noon == SelectInSeq(sorted, LAMBDA x : x = e)
        turned == SubSeq(sorted, noon + 1, Len(sorted)) \o SubSeq(sorted, 1, noon)
    IN  SelectSeq(IF Len(at) <= 1 THEN at ELSE turned, LAMBDA x : x # e)

\* Whether the lines of e are counted against the turn around v.
\* Mutant: whichever way e runs.
ReversedMut(e, v) == ~e.dir
Reversed(e, v) == (e.from # v) # e.dir

Place(lines, id) == SelectInSeq(lines, LAMBDA l : l.line = id)

--------------------------------------------------------------------------------
(* Greedy order. *)

\* smaller_than_at: the places of a and b on the edges around v, and what it costs to
\* go against them.
PlacesAround(g, cfg, a, b, e, v) ==
    LET Visit(acc, f) ==
            LET edge == g.edges[f]
                hasA == a \in LineIds(edge)
                hasB == b \in LineIds(edge)
                settled == hasA /\ hasB /\ f \in DOMAIN cfg
                At0(id) == IF Reversed(edge, v) THEN Place(cfg[f], id) - 1 ELSE Len(cfg[f]) - Place(cfg[f], id)
                Places(has, other, id) == CASE settled -> {acc.offset + At0(id)}
                                            [] has /\ ~other -> {acc.offset}
                                            [] OTHER -> {}
            IN  [offset |-> acc.offset + Len(edge.lines),
                 a |-> acc.a \cup Places(hasA, hasB, a),
                 b |-> acc.b \cup Places(hasB, hasA, b),
                 cost |-> acc.cost + CASE settled -> Consistency
                                       [] hasA # hasB -> Split
                                       [] OTHER -> 0]
    IN  FoldLeft(Visit, [offset |-> 0, a |-> {}, b |-> {}, cost |-> 0], ClockwiseEdges(g, e, v))

\* 1 if all places of a come first, -1 if all of b do, else 0.
Decision(seen) ==
    CASE seen.a = {} \/ seen.b = {} -> 0
      [] seen.a # {} /\ seen.b # {} /\ Max(seen.a) < Min(seen.b) -> 1
      [] seen.a # {} /\ seen.b # {} /\ Min(seen.a) > Max(seen.b) -> -1
      [] OTHER -> 0

\* guess_order, asked from an end of the edge: the other end is asked if it is silent.
GuessOrder(g, cfg, a, b, e, ref) ==
    LET Here(seen) == [decision |-> Decision(seen), cost |-> seen.cost, there |-> FALSE]
        There(told) ==
            IF told.decision # 0 THEN told
            ELSE [Here(PlacesAround(g, cfg, a, b, e, OtherEnd(g.edges[e], ref))) EXCEPT !.there = TRUE]
        Guess(told) ==
            IF told.decision = 0 THEN [less |-> a < b, cost |-> 0]
            ELSE [less |-> (told.there # ~g.edges[e].dir) = (told.decision = 1), cost |-> told.cost]
    IN  Guess(There(Here(PlacesAround(g, cfg, a, b, e, ref))))

Guesses(g, cfg, e, ref) ==
    [p \in {p \in LineIds(g.edges[e]) \X LineIds(g.edges[e]) : p[1] # p[2]} |->
        GuessOrder(g, cfg, p[1], p[2], e, ref)]

\* Insertion sort, since the guesses need not be transitive.
Sorted(lines, Before(_, _)) ==
    LET Insert(s, x) == InsertAt(s, Max({0} \cup {j \in DOMAIN s : ~Before(x, s[j])}) + 1, x)
    IN  FoldLeft(Insert, <<>>, lines)

\* Guesses from both ends; where they agree, each end pays what the other knows.
SortedBy(lines, left, right) ==
    LET Often(p) == Len(Only(lines, {p[1]})) * Len(Only(lines, {p[2]}))
        Pays(other) == MapThenSumSet(LAMBDA p : Often(p) * other[p].cost,
                                     {p \in DOMAIN left : left[p].less = right[p].less})
        By(useLeft) == Sorted(lines, LAMBDA x, y :
                           /\ x.line # y.line
                           /\ IF useLeft THEN left[<<x.line, y.line>>].less
                                         ELSE ~right[<<x.line, y.line>>].less)
    IN  By(Pays(right) < Pays(left))

GreedyOrder(g, cfg, e) ==
    SortedBy(g.edges[e].lines, Guesses(g, cfg, e, g.edges[e].from), Guesses(g, cfg, e, g.edges[e].to))

\* The edges the greedy pass may start from, and go on with: the hash set of settled
\* edges comes in any order.
InitialEdges(g, component) ==
    LET Width(e) == Len(g.edges[e].lines)
    IN  {e \in component : \A f \in component : Width(f) <= Width(e)}

NextEdges(g, settled, component) ==
    LET Open(v) == First(At(g, v), LAMBDA f : f \in component \ settled)
        Next(e) == IF Open(g.edges[e].from) # 0 THEN Open(g.edges[e].from) ELSE Open(g.edges[e].to)
    IN  {Next(e) : e \in settled} \ {0}

--------------------------------------------------------------------------------
(* Hill climbing. *)

Swapped(seq, i, j) == [seq EXCEPT ![i] = seq[j], ![j] = seq[i]]

\* Crossings of two edges at v: inversions of the shared lines, the last of a name
\* counting. They weigh more if all lines go on.
CrossingsOf(g, cfg, v, e, f) ==
    LET n == Len(cfg[e])
        sameDir == Reversed(g.edges[e], v) = Reversed(g.edges[f], v)
        LastPlace(id) == SelectLastInSeq(cfg[e], LAMBDA l : l.line = id)
        Position(id) == IF sameDir THEN n - LastPlace(id) ELSE LastPlace(id)
        shared == Only(cfg[f], {l.line : l \in Range(cfg[e])})
        inversions == {p \in (DOMAIN shared) \X (DOMAIN shared) :
                          p[1] < p[2] /\ Position(shared[p[1]].line) > Position(shared[p[2]].line)}
    IN  Cardinality(inversions) *
        (IF n = Len(cfg[f]) /\ Len(shared) = n THEN Consistency ELSE Split)

CrossingsAt(g, cfg, v) ==
    LET at == At(g, v)
        pairs == {p \in (DOMAIN at) \X (DOMAIN at) :
                     p[1] < p[2] /\ {at[p[1]], at[p[2]]} \subseteq DOMAIN cfg}
    IN  MapThenSumSet(LAMBDA p : CrossingsOf(g, cfg, v, at[p[1]], at[p[2]]), pairs)

EdgeScore(g, cfg, e) == CrossingsAt(g, cfg, g.edges[e].from) + CrossingsAt(g, cfg, g.edges[e].to)

\* Swaps that lower the score of their edge, each with what it gains.
Improvements(g, cfg, component) ==
    {s \in UNION {{[e |-> e, i |-> i, j |-> j,
                    gain |-> EdgeScore(g, cfg, e) - EdgeScore(g, [cfg EXCEPT ![e] = Swapped(@, i, j)], e)] :
                      i \in DOMAIN cfg[e], j \in DOMAIN cfg[e]} :
                  e \in {e \in component : Len(cfg[e]) >= 2}} :
        s.i < s.j /\ s.gain > 0}

\* The best of them: of an edge the first, of edges any.
BestSwaps(g, cfg, component) ==
    LET all == Improvements(g, cfg, component)
        best == {s \in all : \A t \in all : t.gain <= s.gain}
        Earlier(s, t) == s.i < t.i \/ (s.i = t.i /\ s.j < t.j)
    IN  {s \in best : \A t \in best : t.e = s.e /\ t # s => Earlier(s, t)}

--------------------------------------------------------------------------------
(* The integer program. *)

\* Orders of an edge that keep lines of a colour together, if there are three lines.
Feasible(lines) ==
    {o \in {[k \in DOMAIN lines |-> lines[p[k]]] : p \in Permutations(DOMAIN lines)} :
        Len(lines) >= 3 =>
            \A i, k, j \in DOMAIN o :
                i < k /\ k < j /\ o[i].colour = o[j].colour => o[k].colour = o[i].colour}

\* The oracle of two lines, tied to their places by
\*     m * oracle + sum(place of i <= p) - sum(place of j <= p) >= 0,
\* must be 1 where i comes after j. The comment calls it "line i is before line j", and
\* the costs of a split read it so: the line that leaves to the left is wanted last, as the
\* greedy pass has it too, where tiles draw the last line on the right. Forks are mirrored.
Oracle(order, i, j) == IF SelectInSeq(order, LAMBDA l : l = i) > SelectInSeq(order, LAMBDA l : l = j)
                       THEN 1 ELSE 0

FirstOf(lines, id) == lines[Place(lines, id)]

\* Pairs of a component's edges that meet, at each end of the first.
Meetings(g, component) ==
    UNION {{[e |-> e, v |-> IF end = 1 THEN g.edges[e].from ELSE g.edges[e].to, end |-> end, f |-> f] :
               end \in {end \in 1..2 : f \in Range(At(g, IF end = 1 THEN g.edges[e].from ELSE g.edges[e].to))}} :
           <<e, f>> \in {p \in component \X component : p[1] < p[2]}}

ConsistencyCost(g, order, m) ==
    LET one == g.edges[m.e]
        two == g.edges[m.f]
        shared == LineIds(one) \cap LineIds(two)
        pairs == {p \in shared \X shared : p[1] < p[2]}
        same == Reversed(one, m.v) = Reversed(two, m.v)
        AgreesWith(p) == Oracle(order[m.e], FirstOf(one.lines, p[1]), FirstOf(one.lines, p[2])) =
                         Oracle(order[m.f], FirstOf(two.lines, p[1]), FirstOf(two.lines, p[2]))
        Cost(p) == IF AgreesWith(p) = same
                   THEN Consistency * FirstOf(one.lines, p[1]).weight * FirstOf(one.lines, p[2]).weight
                   ELSE 0
    IN  MapThenSumSet(Cost, pairs)

\* The first other edge at v that a line may go on to.
Branch(g, restrictions, e, v, line) ==
    First(Legs(g, v, e), LAMBDA f :
        \E l \in Range(Only(g.edges[f].lines, {line})) :
            \A p \in {<<e, f>>, <<f, e>>} \cap DOMAIN restrictions : l.route \notin restrictions[p])

SplitCost(g, restrictions, order, e, v) ==
    LET lines == g.edges[e].lines
        Goes(i) == Branch(g, restrictions, e, v, lines[i].line)
        parting == {p \in (DOMAIN lines) \X (DOMAIN lines) :
                       p[1] < p[2] /\ Goes(p[1]) # 0 /\ Goes(p[2]) # 0 /\ Goes(p[1]) # Goes(p[2])}
        Angle(f) == Heading(g.edges[f], v, <<0, 0>>)
        isLeaving == (g.edges[e].from = v) = g.edges[e].dir
        PreferLeft(p) == MeetsFirst(Angle(e), Angle(Goes(p[1])), Angle(Goes(p[2]))) = isLeaving
        Penalty(p) == IF PreferLeft(p) THEN Oracle(order, lines[p[2]], lines[p[1]])
                                       ELSE Oracle(order, lines[p[1]], lines[p[2]])
    IN  Split * MapThenSumSet(Penalty, parting)

Objective(g, restrictions, component, orders) ==
    MapThenSumSet(LAMBDA m : ConsistencyCost(g, orders, m), Meetings(g, component)) +
    MapThenSumSet(LAMBDA e : SplitCost(g, restrictions, orders[e], e, g.edges[e].from) +
                             SplitCost(g, restrictions, orders[e], e, g.edges[e].to), component)

\* What the solver may return.
Solutions(g, restrictions, component) ==
    LET all == OneOfEach(component, LAMBDA e : Feasible(g.edges[e].lines))
        cost == [o \in all |-> Objective(g, restrictions, component, o)]
        least == Min(Range(cost))
    IN  {o \in all : cost[o] = least}

--------------------------------------------------------------------------------
(* Components. *)

\* Edges with several lines that share two lines at a node are ordered together. A
\* pair that shares a restricted line does not count it.
Coupled(g, restrictions, e, f) ==
    LET shared == SelectSeq(g.edges[e].lines, LAMBDA l :
                      /\ l.line \in LineIds(g.edges[f])
                      /\ \A p \in {<<e, f>>, <<f, e>>} \cap DOMAIN restrictions :
                            l.route \notin restrictions[p])
    IN  /\ {g.edges[e].from, g.edges[e].to} \cap {g.edges[f].from, g.edges[f].to} # {}
        /\ Len(shared) >= 2

Active(g) == {e \in DOMAIN g.edges : Len(g.edges[e].lines) >= 2}

\* What can be reached from an edge within "all" by links, pairs of edges.
Reach(linked, all, start) ==
    FoldLeft(LAMBDA seen, i : seen \cup {e \in all : \E d \in seen : <<d, e>> \in linked},
             {start}, [i \in 1..Cardinality(all) |-> i])

Parts(linked, all) == {Reach(linked, all, e) : e \in all}

\* split_by_articulation_points: at an edge without which the component falls apart,
\* one that leaves the smallest largest part. It comes with every part.
SplitAtArticulation(linked, component) ==
    LET Without1(e) == Parts(linked, component \ {e})
        cutting == {e \in component : Cardinality(Without1(e)) > 1}
        Size(e) == Max({Cardinality(p) : p \in Without1(e)})
        best == {e \in cutting : \A f \in cutting : Size(e) <= Size(f)}
    IN  IF Cardinality(component) < 5 \/ cutting = {} THEN {{component}}
        ELSE {{p \cup {e} : p \in Without1(e)} : e \in best}

================================================================================
