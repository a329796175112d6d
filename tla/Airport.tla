------------------------------- MODULE Airport ------------------------------
(***************************************************************************)
(* The airport simulation of offline_2/offline.cpp as a whole: main, which *)
(* creates the passenger threads, joins them and destroys what they used,  *)
(* and Passenger::simulate, the body of a thread, which calls the three    *)
(* components CheckIn, SecurityCheck and VIPChannel and two services of    *)
(* one mutex each, special_kiosk and board.                                *)
(*                                                                         *)
(* All the components share the program counter pc; their labels are       *)
(* disjoint.  A passenger's number is the id main gives it.                *)
(***************************************************************************)
EXTENDS Integers, FiniteSets

CONSTANTS M, N, P,          \* kiosks, belts, passengers per belt
          MaxId,            \* bound: main creates at most MaxId passengers
          MaxLosses         \* bound: a passenger loses its boarding pass at most so often

ASSUME AirportAssumption == MaxId \in Nat \ {0} /\ MaxLosses \in Nat

Passenger == 1 .. MaxId

VARIABLES pc,
          \* check_in
          check_in_empty, check_in_count_mutex, check_in_count, kiosks, assigned_kiosk,
          \* security_check
          belt_empty, sec_check_empty, belts_count_mutex, belts_count, belts, assigned_belt,
          \* the VIP channel
          VIP_waiting_mutex, VIP_priority_mutex, VIP_LR_mutex, VIP_RL_mutex,
          VIP_LR_waiting, VIP_LR_count, VIP_RL_count, reg,
          \* the other services
          special_kiosk_mutex, boarding_mutex,
          \* Passenger::VIP, Passenger::boarding_pass_lost, and how often it was lost
          VIP, boarding_pass_lost, losses,
          \* main: its phase, the next id, the next thread to join
          main, id, joining

CI == INSTANCE CheckIn
SC == INSTANCE SecurityCheck
VC == INSTANCE VIPChannel WITH WaitingBound <- 2 * MaxId * (MaxLosses + 1)

ci_pool  == <<check_in_empty, check_in_count_mutex, check_in_count, kiosks, assigned_kiosk>>
sc_pool  == <<belt_empty, sec_check_empty, belts_count_mutex, belts_count, belts, assigned_belt>>
channel  == <<VIP_waiting_mutex, VIP_priority_mutex, VIP_LR_mutex, VIP_RL_mutex,
              VIP_LR_waiting, VIP_LR_count, VIP_RL_count, reg>>
services == <<special_kiosk_mutex, boarding_mutex>>
person   == <<VIP, boarding_pass_lost, losses>>
control  == <<main, id, joining>>
vars     == <<pc, ci_pool, sc_pool, channel, services, person, control>>

Goto(p, from, to) == pc[p] = from /\ pc' = [pc EXCEPT ![p] = to]

OtherLabels == {"none", "failed", "draw", "sk_start", "sk_in", "bd_start", "bd_in", "exited"}
Labels == CI!Labels \cup SC!Labels \cup VC!LRLabels \cup VC!RLLabels \cup OtherLabels

Init ==
    /\ pc = [p \in Passenger |-> "none"]
    /\ CI!InitPool /\ SC!InitPool /\ VC!InitChannel
    /\ special_kiosk_mutex = FALSE /\ boarding_mutex = FALSE
    /\ VIP = [p \in Passenger |-> FALSE]
    /\ boarding_pass_lost = [p \in Passenger |-> FALSE]
    /\ losses = [p \in Passenger |-> 0]
    /\ main = "generate" /\ id = 1 /\ joining = 1

-----------------------------------------------------------------------------
\* Mutants: plausible slips in the code of this module.
SpecialKioskLeaveLocked(p) ==   \* no pthread_mutex_unlock(&special_kiosk_mutex)
    /\ Goto(p, "sk_in", "lr_start")
    /\ UNCHANGED services
BoardLeaveLocked(p) ==      \* no pthread_mutex_unlock(&boarding_mutex)
    /\ Goto(p, "bd_in", "exited")
    /\ UNCHANGED services
ChooseWayUntested(p) ==     \* no if(VIP): everyone takes the security check
    /\ Goto(p, "ci_done", "sc_start")
    /\ UNCHANGED person
JoinOneTooFew ==            \* the loop over the threads stops one short
    /\ main = "join"
    /\ IF joining >= id - 1
         THEN main' = "destroy" /\ UNCHANGED joining
         ELSE pc[joining] = "exited" /\ joining' = joining + 1 /\ UNCHANGED main
    /\ UNCHANGED <<pc, ci_pool, sc_pool, channel, services, person, id>>

-----------------------------------------------------------------------------
(* special_kiosk and board *)

SpecialKioskEnter(p) ==
    /\ Goto(p, "sk_start", "sk_in")
    /\ ~special_kiosk_mutex
    /\ special_kiosk_mutex' = TRUE
    /\ UNCHANGED boarding_mutex

SpecialKioskLeave(p) ==
    /\ Goto(p, "sk_in", "lr_start")
    /\ special_kiosk_mutex' = FALSE
    /\ UNCHANGED boarding_mutex

BoardEnter(p) ==
    /\ Goto(p, "bd_start", "bd_in")
    /\ ~boarding_mutex
    /\ boarding_mutex' = TRUE
    /\ UNCHANGED special_kiosk_mutex

\* pthread_mutex_unlock(&boarding_mutex), then pthread_exit
BoardLeave(p) ==
    /\ Goto(p, "bd_in", "exited")
    /\ boarding_mutex' = FALSE
    /\ UNCHANGED special_kiosk_mutex

-----------------------------------------------------------------------------
(* simulate: the calls and the choices between them *)

\* after check_in: VIPs take the VIP channel, the others the security check
ChooseWay(p) ==
    /\ Goto(p, "ci_done", IF VIP[p] THEN "lr_start" ELSE "sc_start")
    /\ UNCHANGED person

\* after security_check
Passed(p) ==
    /\ Goto(p, "sc_done", "draw")
    /\ UNCHANGED person

\* the random draw: the boarding pass is lost, or not (any more)
Draw(p) ==
    /\ pc[p] = "draw"
    /\ \E lost \in BOOLEAN :
         /\ lost => losses[p] < MaxLosses
         /\ boarding_pass_lost' = [boarding_pass_lost EXCEPT ![p] = lost]
         /\ losses' = [losses EXCEPT ![p] = @ + (IF lost THEN 1 ELSE 0)]
         /\ pc' = [pc EXCEPT ![p] = IF lost THEN "rl_start" ELSE "bd_start"]
    /\ UNCHANGED VIP

\* One step of the thread of passenger p.
simulate(p) ==
    /\ main # "crashed"
    /\ \/ CI!check_in(p) /\ UNCHANGED <<sc_pool, channel, services, person>>
       \/ SC!security_check(p) /\ UNCHANGED <<ci_pool, channel, services, person>>
       \/ VC!VIP_channel_LR(p, "draw") /\ UNCHANGED <<ci_pool, sc_pool, services, person>>
       \/ VC!VIP_channel_RL(p, "sk_start") /\ UNCHANGED <<ci_pool, sc_pool, services, person>>
       \/ /\ \/ SpecialKioskEnter(p) \/ SpecialKioskLeave(p)
             \/ BoardEnter(p) \/ BoardLeave(p)
          /\ UNCHANGED <<ci_pool, sc_pool, channel, person>>
       \/ /\ ChooseWay(p) \/ Passed(p) \/ Draw(p)
          /\ UNCHANGED <<ci_pool, sc_pool, channel, services>>
    /\ UNCHANGED control

-----------------------------------------------------------------------------
(* main *)

\* new Passenger, pthread_create.  A thread that could not be created leaves
\* its entry of thread_vector uninitialized.
Create ==
    /\ main = "generate" /\ id <= MaxId
    /\ \E vip \in BOOLEAN, start \in {"ci_start", "failed"} :
         /\ VIP' = [VIP EXCEPT ![id] = vip]
         /\ pc' = [pc EXCEPT ![id] = start]
    /\ id' = id + 1
    /\ UNCHANGED <<ci_pool, sc_pool, channel, services, boarding_pass_lost, losses,
                   main, joining>>

\* TOTAL_TIME has passed: the loop ends, after one passenger at least.
StopGenerating ==
    /\ main = "generate" /\ id > 1
    /\ main' = "join"
    /\ UNCHANGED <<pc, ci_pool, sc_pool, channel, services, person, id, joining>>

\* pthread_join in the order of creation; joining an uninitialized handle is
\* undefined: the call returns an error, or the process dies.
Join ==
    /\ main = "join"
    /\ \/ joining = id /\ main' = "destroy" /\ UNCHANGED joining
       \/ /\ joining < id /\ pc[joining] = "exited"
          /\ joining' = joining + 1 /\ UNCHANGED main
       \/ /\ joining < id /\ pc[joining] = "failed"
          /\ joining' = joining + 1 /\ main' \in {"join", "crashed"}
    /\ UNCHANGED <<pc, ci_pool, sc_pool, channel, services, person, id>>

\* sem_destroy and pthread_mutex_destroy, which refuses a locked mutex
Destroy ==
    /\ main = "destroy"
    /\ main' = IF \/ boarding_mutex \/ special_kiosk_mutex \/ check_in_count_mutex
                  \/ belts_count_mutex \/ VIP_LR_mutex \/ VIP_RL_mutex
                  \/ VIP_waiting_mutex \/ VIP_priority_mutex
               THEN "failed" ELSE "ended"
    /\ UNCHANGED <<pc, ci_pool, sc_pool, channel, services, person, id, joining>>

MainStep == Create \/ StopGenerating \/ Join \/ Destroy
PassengerStep == \E p \in Passenger : simulate(p)

Next == MainStep \/ PassengerStep

\* Every thread that can take a step eventually takes one.
Fairness == WF_vars(MainStep) /\ \A p \in Passenger : WF_vars(simulate(p))

Spec == Init /\ [][Next]_vars
FairSpec == Spec /\ Fairness

-----------------------------------------------------------------------------

\* main destroys semaphores and mutexes only when no thread can use them any
\* more: everyone it created has exited.
DestroyedUnused ==
    main \in {"destroy", "ended", "failed"} =>
        \A p \in Passenger : pc[p] \in {"none", "failed", "exited"}

\* The simulation as a whole implements each of its components: what a
\* component promises survives the calls around it.
Before == {"none", "failed"}
CheckInPart == INSTANCE CheckIn WITH
    pc <- [p \in Passenger |-> IF pc[p] \in CI!Labels THEN pc[p]
                               ELSE IF pc[p] \in Before THEN "ci_start" ELSE "ci_done"]
SecurityCheckPart == INSTANCE SecurityCheck WITH
    pc <- [p \in Passenger |-> IF pc[p] \in SC!Labels THEN pc[p]
                               ELSE IF VIP[p] \/ pc[p] \in Before \cup CI!Labels
                                    THEN "sc_start" ELSE "sc_done"]
VIPChannelPart == INSTANCE VIPChannel WITH
    WaitingBound <- 2 * MaxId * (MaxLosses + 1),
    pc <- [p \in Passenger |-> IF pc[p] \in VC!Labels THEN pc[p] ELSE "away"]
ImplementsComponents == CheckInPart!Spec /\ SecurityCheckPart!Spec /\ VIPChannelPart!Spec

\* When no passenger can take another step although some have not boarded,
\* the VIP channel is to blame: two passengers hold one of its mutexes each
\* and wait for the other one's, or the gate was left closed by passengers
\* that are gone, and everyone left waits for it.
Alive == {p \in Passenger : pc[p] \notin {"none", "failed", "exited"}}
StuckOnlyInChannel ==
    (main # "crashed" /\ Alive # {} /\ ~ENABLED PassengerStep) =>
        \/ \E p, q \in Passenger : pc[p] = "lr_block" /\ pc[q] = "rl_block"
        \/ VIP_priority_mutex /\ \A p \in Alive : pc[p] \in {"rl_start", "lr_close", "lr_start"}

\* Whatever happens in the VIP channel, passengers get through check-in and
\* the security check, those on the walkway leave it, and those at the
\* special kiosk or the gate are served.
ServicesProgress ==
    \A p \in Passenger :
        /\ pc[p] = "ci_start" ~> (pc[p] = "ci_done" \/ main = "crashed")
        /\ pc[p] = "sc_start" ~> (pc[p] = "sc_done" \/ main = "crashed")
        /\ pc[p] = "lr_cross" ~> (pc[p] = "draw" \/ main = "crashed")
        /\ pc[p] = "rl_cross" ~> (pc[p] = "sk_start" \/ main = "crashed")
        /\ pc[p] = "sk_start" ~> (pc[p] = "lr_start" \/ main = "crashed")
        /\ pc[p] = "bd_start" ~> (pc[p] = "exited" \/ main = "crashed")

\* "waiting until all the threads end": main gets past the joins.
SimulationEnds == <>(main \in {"ended", "failed", "crashed"})
=============================================================================
