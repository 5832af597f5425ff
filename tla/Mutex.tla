------------------------------- MODULE Mutex --------------------------------
(***************************************************************************)
(* What a job lock promises: at most one run is inside.                    *)
(***************************************************************************)
CONSTANT Workers

VARIABLE inside   \* the runs between "acquired" and the end of their finally

Init == inside = {}

Enter(w) == inside = {} /\ inside' = {w}

Leave(w) == inside = {w} /\ inside' = {}

Next == \E w \in Workers : Enter(w) \/ Leave(w)

Spec == Init /\ [][Next]_inside
=============================================================================
