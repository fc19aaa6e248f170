------------------------------ MODULE MCHarebell ------------------------------
(* Harebell on small networks.                                             *)
EXTENDS Harebell

\* A shape: its nodes, and its stretches, each with a point in its middle.
Shape(nodes, stretches) ==
    [nodes |-> nodes, ends |-> stretches]

DoubleY == Shape(<< <<0, 4>>, <<0, 0>>, <<2, 2>>, <<6, 2>>, <<8, 4>>, <<8, 0>> >>,
                 << <<1, 3>>, <<2, 3>>, <<3, 4>>, <<4, 5>>, <<4, 6>> >>)

\* A network: for each route the stretches it runs on, and those that are stored the
\* other way round.
Network(shape, paths, flips) ==
    LET Ends(i) == IF i \in flips THEN Reverse(shape.ends[i]) ELSE shape.ends[i]
        Mid(a, b) == <<(a[1] + b[1]) \div 2, (a[2] + b[2]) \div 2>>
        Stretch(i) ==
            LET u == Ends(i)[1]
                v == Ends(i)[2]
            IN  [from |-> u, to |-> v, points |-> <<shape.nodes[u], Mid(shape.nodes[u], shape.nodes[v]), shape.nodes[v]>>,
                 routes |-> SelectSeq([r \in DOMAIN paths |-> r], LAMBDA r : i \in paths[r])]
        used == SelectSeq([i \in DOMAIN shape.ends |-> i], LAMBDA i : i \in UNION Range(paths))
    IN  [nodes |-> shape.nodes, stretches |-> [k \in DOMAIN used |-> Stretch(used[k])],
         chateau |-> [r \in DOMAIN paths |-> 1], colour |-> [r \in DOMAIN paths |-> r], restricted |-> <<>>]

Caterpillar == Shape(<< <<0, 4>>, <<0, 0>>, <<2, 2>>, <<6, 2>>, <<6, 6>>, <<10, 2>>, <<12, 4>>, <<12, 0>> >>,
                     << <<1, 3>>, <<2, 3>>, <<3, 4>>, <<4, 5>>, <<4, 6>>, <<6, 7>>, <<6, 8>> >>)

Short == {{1, 3, 4}, {1, 3, 5}, {2, 3, 4}, {2, 3, 5}, {3}, {4}, {1, 2}, {4, 5}, {1, 3}, {3, 5}}
Long == {{1, 3, 4}, {2, 3, 4}, {1, 3, 5, 6}, {2, 3, 5, 6}, {1, 3, 5, 7}, {2, 3, 5, 7}, {4, 5, 6}, {4, 5, 7}}

MCNetworks ==
    {Network(DoubleY, SetToSeq(paths), flips) : paths \in kSubset(3, Short), flips \in {{}, {3}, {1, 4}}} \cup
    {Network(DoubleY, SetToSeq(paths) \o <<p>>, flips) :
        paths \in kSubset(2, Short), p \in {{1, 3, 4}, {4, 5}}, flips \in {{}, {3}}} \cup
    {Network(DoubleY, <<{1, 3, 4}, {1, 3, 4}, {1, 3, 5}, {2, 3, 4}>>, flips) : flips \in SUBSET {1, 3, 4}} \cup
    {[Network(DoubleY, <<p, q, r>>, flips) EXCEPT !.colour = <<1, 1, 2>>, !.restricted = turns] :
        p \in {{1, 3, 4}, {2, 3, 5}}, q \in {{1, 3, 5}, {1, 3}}, r \in {{1, 3, 4}, {2, 3, 4}}, flips \in {{}, {3}},
        turns \in {<<>>, <<1, 3>> :> {1}, <<4, 3>> :> {1, 3}}} \cup
    {[Network(DoubleY, <<p, q, r>>, flips) EXCEPT !.chateau = <<1, 2, 1>>, !.colour = <<1, 1, 2>>] :
        p \in {{1, 3, 4}, {1, 3}}, q \in {{1, 3, 4}, {1, 3, 5}, {1, 2}}, r \in {{1, 3}, {2, 3, 4}, {3, 4}, {3}},
        flips \in {{}, {3}, {1, 4}}} \cup
    {Network(Caterpillar, SetToSeq(paths), {5}) : paths \in kSubset(4, Long)} \cup
    {Network(Caterpillar, <<p, p>> \o SetToSeq(paths), {5}) :
        p \in {{1, 3, 4}, {1, 3, 5, 6}}, paths \in kSubset(2, Long \ {{1, 3, 4}, {1, 3, 5, 6}})}

===============================================================================
