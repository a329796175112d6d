------------------------------ MODULE SlotPool ------------------------------
(***************************************************************************)
(* What a pool of slots promises to the passengers that use it: a          *)
(* passenger is given a slot that nobody else holds, keeps it while it is  *)
(* served, and gives it back.  The kiosks of check_in and the places on    *)
(* the belts of security_check both implement it.                          *)
(***************************************************************************)
EXTENDS Integers

CONSTANTS Passenger,    \* the customers of the pool
          Slots         \* the slots: a set of array indices

VARIABLE slot           \* slot[p]: the slot p holds, or NoSlot

NoSlot == -1

Init == slot = [p \in Passenger |-> NoSlot]

\* p is served by a slot that nobody holds.
Acquire(p) ==
    /\ slot[p] = NoSlot
    /\ \E s \in Slots :
         /\ \A q \in Passenger : slot[q] # s
         /\ slot' = [slot EXCEPT ![p] = s]

\* p has been served.
Release(p) ==
    /\ slot[p] # NoSlot
    /\ slot' = [slot EXCEPT ![p] = NoSlot]

Next == \E p \in Passenger : Acquire(p) \/ Release(p)

Spec == Init /\ [][Next]_slot
=============================================================================
