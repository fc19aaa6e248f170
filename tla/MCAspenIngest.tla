----------------------------- MODULE MCAspenIngest -----------------------------
(* AspenIngest on small instances.                                         *)
EXTENDS AspenIngest, TLC

CONSTANTS f1, c1, h1, h2, p1, p2

OneFeed == f1 :> c1

NoFaults == [k \in FaultKinds |-> 0]
EveryFault == [k \in FaultKinds |-> 1]
CancelAndCrash == [NoFaults EXCEPT !["cancel"] = 1, !["crash"] = 1]

HandlerSymmetry == Permutations({h1, h2}) \cup Permutations({p1, p2})

================================================================================
