------------------------------- MODULE OneLane ------------------------------
(***************************************************************************)
(* What the VIP channel promises: a walkway that carries passengers in one *)
(* direction at a time.  Any number may walk in the same direction; nobody *)
(* enters while somebody walks the other way.                              *)
(***************************************************************************)
CONSTANT Passenger

VARIABLE lane           \* lane[p]: "off", or the direction p is walking in

Opposite(d) == IF d = "LR" THEN "RL" ELSE "LR"

Init == lane = [p \in Passenger |-> "off"]

Enter(p, d) ==
    /\ lane[p] = "off"
    /\ \A q \in Passenger : lane[q] # Opposite(d)
    /\ lane' = [lane EXCEPT ![p] = d]

Leave(p) ==
    /\ lane[p] # "off"
    /\ lane' = [lane EXCEPT ![p] = "off"]

Next == \E p \in Passenger : Leave(p) \/ \E d \in {"LR", "RL"} : Enter(p, d)

Spec == Init /\ [][Next]_lane
=============================================================================
