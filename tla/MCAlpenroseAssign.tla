--------------------------- MODULE MCAlpenroseAssign ---------------------------
(* AlpenroseAssign on small instances.                                     *)
EXTENDS AlpenroseAssign, TLC

\* A feed; the same with other instructions and a feed before it.
One == 3 :> 1
Two == 2 :> 1 @@ 3 :> 2
Changing == {One, Two}

EveryFault == [k \in FaultKinds |-> 1]

================================================================================
