------------------------------ MODULE MCTripBased ------------------------------
\* Partitions of four stops: a line from 1 to 3, a second line that goes on to 4
\* from one of its stops, perhaps back the way it came, and perhaps a third.
EXTENDS TripBased

Line(calls, times, waits, leaving) ==
    [stops |-> calls, travel |-> times, dwell |-> waits, starts |-> leaving]

First == {Line(<<1, 2, 3>>, <<0, 1, 1>>, d, s) :
             d \in {<<0, 0, 0>>, <<0, 2, 0>>}, s \in {<<0>>, <<0, 3>>, <<3, 0>>}}
Second == {Line(c[1], c[2], [k \in DOMAIN c[1] |-> 0], s) :
              c \in {<<<<3, 2, 4>>, <<0, 1, 1>>>>, <<<<2, 4>>, <<0, 3>>>>, <<<<2, 3, 4>>, <<0, 2, 1>>>>},
              s \in {<<1>>, <<2>>, <<3, 4>>}}
Third == {<<>>} \cup {<<Line(c, [k \in DOMAIN c |-> 1], [k \in DOMAIN c |-> 0], <<2>>)>> :
                         c \in {<<3, 4>>, <<4, 1>>}}

Both(w) == [p \in DOMAIN w \cup {<<q[2], q[1]>> : q \in DOMAIN w} |->
               IF p \in DOMAIN w THEN w[p] ELSE w[<<p[2], p[1]>>]]
Walkways == {[p \in {} |-> 0], Both([p \in {<<2, 3>>} |-> 1]),
             Both([p \in {<<3, 4>>, <<2, 4>>} |-> 1])}

MCTimetables ==
    {[patterns |-> <<a, b>> \o c, walk |-> w, hubs |-> h] :
        a \in First, b \in Second, c \in Third, w \in Walkways, h \in {{}, {2}, {1, 4}}}
MCTimes == <<0, 2>>
===============================================================================
