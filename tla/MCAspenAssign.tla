----------------------------- MODULE MCAspenAssign -----------------------------
(* AspenAssign on small instances.                                         *)
EXTENDS AspenAssign, TLC

CONSTANTS l1, l2

\* A chateau with a feed, and the same with a chateau without feeds before it.
One == 3 :> {1}
Two == 2 :> {} @@ 3 :> {1}
Grows == {One, Two}

NoFaults == [k \in FaultKinds |-> 0]
NoChange == [[k \in FaultKinds |-> 1] EXCEPT !["catalog"] = 0]
Lapses == [NoFaults EXCEPT !["workerLapse"] = 1, !["leaderLapse"] = 1,
                           !["catalog"] = 1]

Symmetry == Permutations({l1, l2})

================================================================================
