-------------------------------- MODULE Harebell --------------------------------
(***************************************************************************)
(* Harebell, which draws the map of lines: it loads a graph of stretches   *)
(* with their lines, takes the graph apart, orders the lines of each edge, *)
(* and draws each edge with its lines side by side, joined at the nodes.   *)
(*                                                                         *)
(* A network is what the loader makes of the exported graph and of the     *)
(* routes in Postgres: stretches [from, to, routes, points], the chateaux  *)
(* and colours of routes, and the turns between stretches that a route may *)
(* not take.                                                               *)
(***************************************************************************)
EXTENDS LineOrder

CONSTANTS
    Networks,           \* what may be loaded
    MaxRounds,          \* of simplification; 50 in the code
    MaxPasses,          \* of contraction; 100
    SplitSize,          \* edges of a component above which it is split; 40
    SmallSpace,         \* orders of a component below which it is not solved exactly; 500
    LargeSpace,         \* and above which it is not; 1e10
    LargeComponent      \* edges above which it is not; 30

ASSUME HarebellAssumption ==
    /\ Networks # {}
    /\ {MaxRounds, MaxPasses, SplitSize, SmallSpace, LargeSpace, LargeComponent} \subseteq Nat

VARIABLES
    net,
    graph,
    collapsed,          \* super-line -> its lines
    pc,
    round,
    dirty,              \* whether this round has changed the graph
    passes,             \* of the contraction that runs
    todo,               \* components that are not ordered yet
    component,          \* the one being ordered
    cfg,                \* the orders settled in it
    results,            \* edge -> order
    harm,               \* what has happened that spoils the map (ghost)
    shared              \* edges that are in several parts of a component (ghost)

rounds == <<round, dirty, passes>>
ordering == <<todo, component, cfg, results>>
ghosts == <<harm, shared>>
vars == <<net, graph, collapsed, pc, rounds, ordering, ghosts>>

--------------------------------------------------------------------------------
(* Loading. *)

\* A line is what the routes of one colour and one chateau share, so an edge may have it
\* several times; chateaux may share a colour. Lines are named chateau first.
LineId(chateau, colour) == 10 * chateau + colour

LineOf(n, route) ==
    [line |-> LineId(n.chateau[route], n.colour[route]), route |-> route, colour |-> n.colour[route], weight |-> 1]

Loaded(n) ==
    [edges |-> [i \in DOMAIN n.stretches |->
                   LET s == n.stretches[i]
                   IN  [id |-> i - 1, from |-> s.from, to |-> s.to, geometry |-> s.points, dir |-> TRUE,
                        lines |-> [k \in DOMAIN s.routes |-> LineOf(n, s.routes[k])]]],
     nodes |-> n.nodes]

Init ==
    /\ net \in Networks
    /\ graph = Loaded(net)
    /\ collapsed = <<>>
    /\ pc = "start"
    /\ round = 0 /\ dirty = FALSE /\ passes = 0
    /\ todo = {} /\ component = {} /\ cfg = <<>> /\ results = <<>>
    /\ harm = {} /\ shared = {}

--------------------------------------------------------------------------------
(* Simplification. *)

NewRound ==
    /\ round' = round + 1
    /\ dirty' = FALSE
    /\ pc' = IF round + 1 > MaxRounds THEN "components" ELSE "untangle"

\* Nothing to order: nothing is changed. Otherwise partners are collapsed, once.
Start ==
    /\ pc = "start"
    /\ IF Active(graph) = {} THEN pc' = "drawn" /\ UNCHANGED <<graph, collapsed, rounds>>
       ELSE /\ \E leaders \in OneOfEach(Partners(graph), LAMBDA group : group) :
                 LET c == Collapsed(graph, leaders)
                 IN  graph' = c.graph /\ collapsed' = c.collapsed
            /\ NewRound
            /\ UNCHANGED passes
    /\ UNCHANGED <<net, ordering, ghosts>>

\* A leg of an edge that also carries a line of its own on to another edge there:
\* the rules that move legs tear that line.
Mixed(g) ==
    \E e \in DOMAIN g.edges : \E v \in {g.edges[e].from, g.edges[e].to} :
        \E leg \in Range(Legs(g, v, e)) :
            /\ LinesTo(g, e, leg) # {}
            /\ \E l \in LineIds(g.edges[leg]) :
                  \E other \in Range(Legs(g, v, e)) \ {leg} : l \in LineIds(g.edges[other])

\* A Y whose stem runs towards its fork: the pieces keep its points and run away from it.
Flips(g, h) ==
    /\ h # g /\ FullYs(g) # {} /\ h = FullY(g)
    /\ LET v == Min({y[1] : y \in FullYs(g)})
           k == Min({y[2] : y \in {y \in FullYs(g) : y[1] = v}})
       IN  g.edges[At(g, v)[k]].from = v

Untangle ==
    /\ pc = "untangle"
    /\ \E h \in Untangled(graph) :
         /\ graph' = h
         /\ IF h = graph THEN pc' = "cut" /\ UNCHANGED <<dirty, harm>>
            ELSE /\ dirty' = TRUE
                 /\ harm' = harm \cup (IF Mixed(graph) THEN {"mixed"} ELSE {})
                                 \cup (IF Flips(graph, h) THEN {"flipped"} ELSE {})
                 /\ UNCHANGED pc
    /\ UNCHANGED <<net, collapsed, round, passes, ordering, shared>>

Cut ==
    /\ pc = "cut"
    /\ graph' = CutSingleLines(graph)
    /\ dirty' = (dirty \/ graph' # graph)
    /\ pc' = "detach"
    /\ UNCHANGED <<net, collapsed, round, passes, ordering, ghosts>>

Detach ==
    /\ pc = "detach"
    /\ graph' = Detached(graph)
    /\ dirty' = (dirty \/ graph' # graph)
    /\ pc' = IF graph' = graph THEN "contract" ELSE pc
    /\ passes' = 0
    /\ UNCHANGED <<net, collapsed, round, ordering, ghosts>>

Contract ==
    /\ pc = "contract"
    /\ Contracted(graph) # graph /\ passes < MaxPasses
    /\ graph' = Contracted(graph)
    /\ dirty' = TRUE
    /\ passes' = passes + 1
    /\ UNCHANGED <<net, collapsed, pc, round, ordering, ghosts>>

EndRound ==
    /\ pc = "contract"
    /\ Contracted(graph) = graph \/ passes = MaxPasses
    /\ IF dirty THEN NewRound ELSE pc' = "components" /\ UNCHANGED <<round, dirty>>
    /\ UNCHANGED <<net, graph, collapsed, passes, ordering, ghosts>>

--------------------------------------------------------------------------------
(* Ordering. *)

\* Large components are split where an edge holds them together; which of the edges
\* that serve equally well is up to the order of a hash map.
FindComponents ==
    /\ pc = "components"
    /\ LET active == Active(graph)
           linked == UNION {{p, <<p[2], p[1]>>} :
                         p \in {p \in active \X active : p[1] < p[2] /\ Coupled(graph, net.restricted, p[1], p[2])}}
           whole == Parts(linked, active)
           large == {c \in whole : Cardinality(c) > SplitSize}
           Ways(c) == SplitAtArticulation(linked, c)
       IN  \E split \in OneOfEach(large, Ways) :
               todo' = (whole \ large) \cup UNION Range(split)
    /\ shared' = UNION {c \cap d : <<c, d>> \in {p \in todo' \X todo' : p[1] # p[2]}}
    /\ pc' = "next"
    /\ UNCHANGED <<net, graph, collapsed, rounds, component, cfg, results, harm>>

Space(c) ==
    LET Factorial(n) == FoldLeft(LAMBDA x, i : x * i, 1, [i \in 1..n |-> i])
    IN  FoldSet(LAMBDA e, x : x * Factorial(Len(graph.edges[e].lines)), 1, c)

Overlapping == {c \in todo : \E d \in todo \ {c} : c \cap d # {}}

\* One after another; only the parts of one that was split share an edge, so only
\* their order matters. A single edge is ordered by the names of its lines.
NextComponent ==
    /\ pc = "next" /\ todo # {}
    /\ \E c \in (IF Overlapping # {} THEN Overlapping ELSE {CHOOSE c \in todo : TRUE}) :
         /\ todo' = todo \ {c}
         /\ component' = c
         /\ cfg' = <<>>
         /\ IF Cardinality(c) = 1
            THEN /\ results' = [e \in c |-> SortSeq(graph.edges[e].lines, LAMBDA l, m : l.line < m.line)] @@ results
                 /\ UNCHANGED pc
            ELSE /\ pc' = IF \/ Space(c) < SmallSpace
                             \/ Space(c) > LargeSpace
                             \/ Cardinality(c) > LargeComponent
                          THEN "greedy" ELSE "solve"
                 /\ UNCHANGED results
    /\ UNCHANGED <<net, graph, collapsed, rounds, ghosts>>

\* The solver finds a best order or, in its time, none.
Solve ==
    /\ pc = "solve"
    /\ \/ \E orders \in Solutions(graph, net.restricted, component) : results' = orders @@ results
       \/ UNCHANGED results
    /\ pc' = IF results' = results THEN "greedy" ELSE "next"
    /\ UNCHANGED <<net, graph, collapsed, rounds, todo, component, cfg, ghosts>>

\* Edges that cannot be reached from those settled keep their order.
Settle ==
    /\ pc = "greedy"
    /\ LET next == IF cfg = <<>> THEN InitialEdges(graph, component)
                   ELSE NextEdges(graph, DOMAIN cfg, component)
       IN  IF next # {}
           THEN \E e \in next : cfg' = (e :> GreedyOrder(graph, cfg, e)) @@ cfg /\ UNCHANGED pc
           ELSE /\ cfg' = cfg @@ [e \in component |-> graph.edges[e].lines]
                /\ pc' = "climb"
    /\ UNCHANGED <<net, graph, collapsed, rounds, todo, component, results, ghosts>>

Climb ==
    /\ pc = "climb"
    /\ \E s \in BestSwaps(graph, cfg, component) : cfg' = [cfg EXCEPT ![s.e] = Swapped(@, s.i, s.j)]
    /\ UNCHANGED <<net, graph, collapsed, pc, rounds, todo, component, results, ghosts>>

EndClimb ==
    /\ pc = "climb"
    /\ BestSwaps(graph, cfg, component) = {}
    /\ results' = cfg @@ results
    /\ pc' = "next"
    /\ UNCHANGED <<net, graph, collapsed, rounds, todo, component, cfg, ghosts>>

\* Super-lines become their lines again, on the edges that were ordered.
Unbundled(order) ==
    FlattenSeq([i \in DOMAIN order |->
        IF order[i].line \in DOMAIN collapsed THEN collapsed[order[i].line] ELSE <<order[i]>>])

Apply ==
    /\ pc = "next" /\ todo = {}
    /\ graph' = [graph EXCEPT !.edges = [e \in DOMAIN @ |->
                    IF e \in DOMAIN results THEN [@[e] EXCEPT !.lines = Unbundled(results[e])] ELSE @[e]]]
    /\ pc' = "drawn"
    /\ UNCHANGED <<net, collapsed, rounds, ordering, ghosts>>

Next ==
    \/ Start \/ Untangle \/ Cut \/ Detach \/ Contract \/ EndRound
    \/ FindComponents \/ NextComponent \/ Solve \/ Settle \/ Climb \/ EndClimb \/ Apply

Spec == Init /\ [][Next]_vars

--------------------------------------------------------------------------------
(* Drawing. *)

\* Lines of a colour next to each other share a slot.
Slots(e) ==
    LET Place1(slots, i) ==
            IF slots # <<>> /\ e.lines[Last(slots)[1]].colour = e.lines[i].colour
            THEN [slots EXCEPT ![Len(slots)] = Append(@, i)]
            ELSE Append(slots, <<i>>)
    IN  FoldLeft(Place1, <<>>, [i \in DOMAIN e.lines |-> i])

SlotLines(e, slot) == {e.lines[i] : i \in Range(Slots(e)[slot])}

\* How far to the right of the middle of its points a slot is drawn, in halves of the
\* spacing: the first one is the leftmost.
Shift(slot, slots) == 2 * slot - slots - 1

Strokes(e) ==
    IF Len(e.geometry) < 2 THEN {}
    ELSE UNION {{[line |-> l, shift |-> Shift(s, Len(Slots(e)))] : l \in SlotLines(e, s)} : s \in DOMAIN Slots(e)}

\* generate_node_connections: a slot of an edge is joined to the first slot of another
\* that has its colour, one of its lines, and a route that may take the turn.
MayTurn(e, f, route) == \A p \in {<<e, f>>, <<f, e>>} \cap DOMAIN net.restricted : route \notin net.restricted[p]

Joined(e, i, f, j) ==
    LET one == SlotLines(graph.edges[e], i)
        two == SlotLines(graph.edges[f], j)
    IN  /\ {l.colour : l \in one} = {l.colour : l \in two}
        /\ {l.line : l \in one} \cap {l.line : l \in two} # {}
        /\ \E r \in {l.route : l \in one} \cap {l.route : l \in two} : MayTurn(e, f, r)

\* Seen from the node; an edge that ends there has its slots the other way round.
\* Mutant: as they are stored, whichever way the edge runs.
SlotSeenMut(e, v, slot) == slot
SlotSeen(e, v, slot) == IF e.to = v THEN Len(Slots(e)) + 1 - slot ELSE slot

Connections(v) ==
    LET At2 == {e \in Range(At(graph, v)) : Len(graph.edges[e].geometry) >= 2}
        Match(e, i, f) == First([j \in DOMAIN Slots(graph.edges[f]) |-> j], LAMBDA j : Joined(e, i, f, j))
        End(e, i) == Shift(SlotSeen(graph.edges[e], v, i), Len(Slots(graph.edges[e])))
    IN  {[e |-> x[1], f |-> x[3], lines |-> SlotLines(graph.edges[x[1]], x[2]),
          from |-> End(x[1], x[2]), to |-> End(x[3], Match(x[1], x[2], x[3]))] :
            x \in {x \in UNION {{e} \X (DOMAIN Slots(graph.edges[e])) \X At2 : e \in At2} :
                      x[1] < x[3] /\ Match(x[1], x[2], x[3]) # 0}}

--------------------------------------------------------------------------------
(* What the map shows. *)

\* The lines an edge stands for, those of its super-lines among them.
Carried(e) ==
    UNION {IF l \in DOMAIN collapsed THEN {m.line : m \in Range(collapsed[l])} ELSE {l} : l \in LineIds(e)}

\* The lines it shows. On the drawn map these are its strokes. One exception: a super-line
\* alone on its edge. Only edges with two lines are ordered, and only those that were
\* ordered get their lines back, so that edge keeps one stroke, with the name and colour
\* of the first line; the others that run there are not drawn.
Shown(e) ==
    IF pc # "drawn" \/ (Len(e.lines) = 1 /\ LineIds(e) \subseteq DOMAIN collapsed) THEN Carried(e)
    ELSE {s.line.line : s \in Strokes(e)}

Piece(points, i) == {points[i], points[i + 1]}
Pieces(points) == {Piece(points, i) : i \in 1..(Len(points) - 1)}

\* How often the edges of g draw a line along a piece.
Times(g, line, piece) ==
    MapThenSumSet(LAMBDA e : Cardinality({i \in 1..(Len(g.edges[e].geometry) - 1) :
                                 Piece(g.edges[e].geometry, i) = piece}),
                  {e \in DOMAIN g.edges : line \in Shown(g.edges[e])})

Everywhere == UNION {Pieces(e.geometry) : e \in Range(graph.edges) \cup Range(Loaded(net).edges)}

\* Every line is drawn along every stretch it was loaded with, as often as it was, and
\* nowhere else, whatever rules have taken its edges apart and put them together.
EveryStretchIsDrawn ==
    \A line \in UNION {LineIds(e) : e \in Range(Loaded(net).edges)} : \A piece \in Everywhere :
        LET now == Times(graph, line, piece)
            then == Times(Loaded(net), line, piece)
        IN  IF "flipped" \in harm THEN now >= then ELSE now = then

\* Pieces a line joins: in a row on an edge, or at the ends of two edges of a node, or,
\* of a line that is alone on both, at ends that touch.
EndPiece(e, end) == IF end = 1 THEN Piece(e.geometry, 1) ELSE Piece(e.geometry, Len(e.geometry) - 1)
EndPoint(e, end) == IF end = 1 THEN e.geometry[1] ELSE Last(e.geometry)
EndNode(e, end) == IF end = 1 THEN e.from ELSE e.to

Joins(g, line) ==
    LET on == {e \in DOMAIN g.edges : line \in Shown(g.edges[e]) /\ Len(g.edges[e].geometry) >= 2}
        Meet(e, a, f, b) ==
            \/ EndNode(g.edges[e], a) = EndNode(g.edges[f], b)
            \/ /\ EndPoint(g.edges[e], a) = EndPoint(g.edges[f], b)
               /\ Len(g.edges[e].lines) = 1 /\ Len(g.edges[f].lines) = 1
    IN  UNION {{{Piece(g.edges[e].geometry, i), Piece(g.edges[e].geometry, i + 1)} :
                   i \in 1..(Len(g.edges[e].geometry) - 2)} : e \in on}
        \cup {{EndPiece(g.edges[x[1]], x[2]), EndPiece(g.edges[x[3]], x[4])} :
                 x \in {x \in on \X {1, 2} \X on \X {1, 2} : x[1] < x[3] /\ Meet(x[1], x[2], x[3], x[4])}}

\* A line that runs on from a stretch to the next when the graph is loaded still does,
\* unless a rule moved a leg that other lines needed.
LinesGoOn ==
    harm = {} =>
        \A line \in UNION {LineIds(e) : e \in Range(Loaded(net).edges)} :
            Joins(Loaded(net), line) \subseteq Joins(graph, line)

\* Eight untangling rules, the cuts, the contraction, the bundling of lines and its undoing
\* take the graph apart and put it together in every order they can: no line loses a
\* stretch, gets one it does not run on, or is torn where it went on, until it is a stroke
\* of the map. What the map does lose is said at Shown.
LinesAreKept == EveryStretchIsDrawn /\ LinesGoOn

\* How far right a route is drawn on e, seen from v.
Side(g, e, v, route) ==
    LET stroke == CHOOSE s \in Strokes(g.edges[e]) : s.line.route = route
    IN  IF g.edges[e].to = v THEN 0 - stroke.shift ELSE stroke.shift

RoutesOn(e) == {s.line.route : s \in Strokes(e)}

\* Routes of one line, or of lines that travel as one. The members of a super-line are
\* put back in the same order on every edge, also where two edges run against each other:
\* there they do cross, against the comment that says they do not.
Together(r, q) ==
    LET l == LineOf(net, r).line
        m == LineOf(net, q).line
    IN  l = m \/ \E s \in DOMAIN collapsed : {l, m} \subseteq {x.line : x \in Range(collapsed[s])}

\* Two lines that both go on from e to f cross at the node if they are the same way round
\* on both, seen from it. That does not depend on the side the first line is drawn on.
Crossed(g, v) ==
    LET Pairs(e, f) ==
            LET both == {r \in RoutesOn(g.edges[e]) \cap RoutesOn(g.edges[f]) : MayTurn(e, f, r)}
            IN  {<<e, f, p>> : p \in {p \in both \X both :
                    /\ ~Together(p[1], p[2])
                    /\ \A x \in {e, f} : Side(g, x, v, p[1]) < Side(g, x, v, p[2])}}
    IN  UNION {Pairs(p[1], p[2]) : p \in {p \in Range(At(g, v)) \X Range(At(g, v)) : p[1] < p[2]}}

CrossingsOn(g, e) ==
    MapThenSumSet(LAMBDA v : Cardinality(Crossed(g, v)), {g.edges[e].from, g.edges[e].to})

Orders(e) == {[k \in DOMAIN p |-> graph.edges[e].lines[p[k]]] : p \in Permutations(DOMAIN graph.edges[e].lines)}

Neighbours(e) == Range(At(graph, graph.edges[e].from)) \cup Range(At(graph, graph.edges[e].to))

\* Which way an edge runs is a matter of the file, and the greedy pass, the climb, the
\* solver and the tiles each turn it round in their own way. On the drawn map no other
\* order of one edge's lines has fewer crossings of lines that stay together, but beside an edge
\* of two parts of a split component: the part ordered last decides how its lines run,
\* the others were ordered against what it was then.
NoNeedlessCrossing ==
    pc = "drawn" =>
        \A e \in {e \in DOMAIN results : Neighbours(e) \cap shared = {}} :
            \A o \in Orders(e) :
                CrossingsOn(graph, e) <= CrossingsOn([graph EXCEPT !.edges[e].lines = o], e)

\* A route that goes on from an edge to another is drawn around the node, from stroke to
\* stroke, where it may take that turn; seen from the node, the strokes of an edge that
\* ends there are on the other side. Two turns are lost: one to a slot behind another of
\* the same colour that also matches, since only the first match is drawn, as where two
\* chateaux of one colour share a slot of e and not of f; and one between a super-line
\* alone on its edge and its lines on an edge that was ordered, whose names differ.
TurnsAreDrawn ==
    pc = "drawn" =>
        \A v \in DOMAIN graph.nodes : \A e, f \in Range(At(graph, v)) : e < f =>
            \A r \in RoutesOn(graph.edges[e]) \cap RoutesOn(graph.edges[f]) : MayTurn(e, f, r) =>
                LET Slot(x) == CHOOSE i \in DOMAIN Slots(graph.edges[x]) :
                                   \E l \in SlotLines(graph.edges[x], i) : l.route = r
                    Line(x) == CHOOSE l \in Range(graph.edges[x].lines) : l.route = r
                    behind == \E j \in 1..(Slot(f) - 1) : Joined(e, Slot(e), f, j)
                    renamed == Cardinality({Line(e).line, Line(f).line} \cap DOMAIN collapsed) = 1
                IN  behind \/ renamed \/
                    \E c \in Connections(v) : /\ c.e = e /\ c.f = f /\ Line(e) \in c.lines
                                              /\ c.from = Side(graph, e, v, r) /\ c.to = Side(graph, f, v, r)

================================================================================
