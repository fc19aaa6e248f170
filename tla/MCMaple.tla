-------------------------------- MODULE MCMaple --------------------------------
(* Two feeds, apart at first and then with one URL and in another chateau, or  *)
(* with one of them discarded and the other gone; of three zips one is broken. *)
EXTENDS Maple

MCRepository(listed, discarded, url, chateau) ==
    [listed |-> listed, discarded |-> discarded,
     url |-> [f \in Feeds |-> IF f = "f1" THEN "u1" ELSE url],
     chateau |-> [f \in Feeds |-> chateau]]

MCRepositories ==
    {MCRepository(Feeds, {}, "u2", "c1"), MCRepository(Feeds, {}, "u1", "c2"),
     MCRepository({"f1"}, {"f1"}, "u2", "c1")}

MCModes == {Plain} \cup
    {[force |-> TRUE, wipe |-> TRUE, girolle |-> FALSE, only |-> Feeds],
     [force |-> FALSE, wipe |-> FALSE, girolle |-> TRUE, only |-> {"f1"}]}

MCMaxFaults == [k \in FaultKinds |-> 1]

\* Any two kinds of events, but a crash only with another repository, which gives a
\* feed another zip and another chateau as well.
MCTogether ==
    {S \in SUBSET FaultKinds :
        Cardinality(S) <= 2 /\ ("crash" \in S => S \subseteq {"crash", "dmfr"})}

MCInit == /\ Init
          /\ dmfr = MCRepository(Feeds, {}, "u2", "c1")
          /\ published = [u \in Urls |-> IF u = "u1" THEN 1 ELSE 2]
MCSpec == MCInit /\ [][Next]_vars /\ Fairness
================================================================================
