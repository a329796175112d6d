----------------------------- MODULE VIPChannel -----------------------------
(***************************************************************************)
(* The VIP channel of the airport simulation: Passenger::VIP_channel_LR    *)
(* and Passenger::VIP_channel_RL of offline_2/offline.cpp.  Passengers     *)
(* walk from left to right (VIPs to the gate, and everyone coming back     *)
(* from the special kiosk) or from right to left (those that lost their    *)
(* boarding pass).  Each direction has a count and a mutex that protects   *)
(* it; the first passenger of a direction also locks the mutex of the      *)
(* OTHER direction, the last one unlocks it.  VIP_LR_waiting counts the    *)
(* passengers waiting to walk left to right; the first one closes a gate,  *)
(* VIP_priority_mutex, that passengers walking right to left go through.   *)
(*                                                                         *)
(* A mutex is a boolean, TRUE when locked: the program uses default        *)
(* mutexes and unlocks them from threads that did not lock them, which     *)
(* frees them whoever had locked them.                                     *)
(*                                                                         *)
(* VIP_LR_waiting is incremented under VIP_waiting_mutex but decremented   *)
(* under VIP_LR_mutex: a data race.  Each access is a load and a store of  *)
(* its own here, and the test that follows may use the value just stored   *)
(* (a register) or read the variable again, as the compiler pleases.       *)
(***************************************************************************)
EXTENDS Integers, FiniteSets, Helper

CONSTANTS Passenger,    \* the passenger threads
          WaitingBound  \* bound: nobody arrives while VIP_LR_waiting is further from 0

ASSUME VIPChannelAssumption == IsFiniteSet(Passenger) /\ WaitingBound \in Nat

VARIABLES pc,                   \* where each thread is
          VIP_waiting_mutex,    \* protects the increments of VIP_LR_waiting
          VIP_priority_mutex,   \* the gate of the right-to-left passengers
          VIP_LR_mutex,         \* protects VIP_LR_count
          VIP_RL_mutex,         \* protects VIP_RL_count
          VIP_LR_waiting,       \* passengers waiting to walk left to right
          VIP_LR_count,         \* passengers walking left to right
          VIP_RL_count,         \* passengers walking right to left
          reg                   \* reg[p]: p's copy of VIP_LR_waiting (0 when not in use)

mutexes == <<VIP_waiting_mutex, VIP_priority_mutex, VIP_LR_mutex, VIP_RL_mutex>>
counts  == <<VIP_LR_count, VIP_RL_count>>
race    == <<VIP_LR_waiting, reg>>
channel == <<mutexes, counts, race>>
vars    == <<pc, channel>>

LRLabels == {"lr_start", "lr_load", "lr_store", "lr_test", "lr_close", "lr_waiting",
             "lr_lock", "lr_dload", "lr_dstore", "lr_dtest", "lr_open", "lr_count",
             "lr_block", "lr_unlock", "lr_cross", "lr_leave", "lr_exit"}
RLLabels == {"rl_start", "rl_gate", "rl_lock", "rl_count", "rl_block", "rl_unlock",
             "rl_cross", "rl_leave", "rl_exit"}
Labels == {"away"} \cup LRLabels \cup RLLabels

Goto(p, from, to) == pc[p] = from /\ pc' = [pc EXCEPT ![p] = to]

\* pthread_mutex_lock and pthread_mutex_unlock on a default mutex
Lock(mutex)   == ~mutex /\ mutex' = TRUE
Unlock(mutex) == mutex' = FALSE

InitChannel ==
    /\ VIP_waiting_mutex = FALSE
    /\ VIP_priority_mutex = FALSE
    /\ VIP_LR_mutex = FALSE
    /\ VIP_RL_mutex = FALSE
    /\ VIP_LR_waiting = 0
    /\ VIP_LR_count = 0
    /\ VIP_RL_count = 0
    /\ reg = [p \in Passenger |-> 0]

Init == pc = [p \in Passenger |-> "away"] /\ InitChannel

-----------------------------------------------------------------------------
\* Mutants: plausible slips in the two functions.
LRBlockForgotten(p) ==      \* the first passenger does not lock VIP_RL_mutex
    /\ Goto(p, "lr_block", "lr_unlock")
    /\ UNCHANGED channel
RLCountOffByOne(p) ==       \* if(VIP_RL_count==2)
    /\ pc[p] = "rl_count"
    /\ VIP_RL_count' = VIP_RL_count + 1
    /\ pc' = [pc EXCEPT ![p] = IF VIP_RL_count' = 2 THEN "rl_block" ELSE "rl_unlock"]
    /\ UNCHANGED <<mutexes, VIP_LR_count, race>>

-----------------------------------------------------------------------------
(* VIP_channel_LR: announcing oneself *)

\* pthread_mutex_lock(&VIP_waiting_mutex)
LRStart(p) ==
    /\ Goto(p, "lr_start", "lr_load")
    /\ Lock(VIP_waiting_mutex)
    /\ UNCHANGED <<VIP_priority_mutex, VIP_LR_mutex, VIP_RL_mutex, counts, race>>

\* VIP_LR_waiting++, first half
LRLoad(p) ==
    /\ Goto(p, "lr_load", "lr_store")
    /\ reg' = [reg EXCEPT ![p] = VIP_LR_waiting]
    /\ UNCHANGED <<mutexes, counts, VIP_LR_waiting>>

\* VIP_LR_waiting++, second half
LRStore(p) ==
    /\ Goto(p, "lr_store", "lr_test")
    /\ VIP_LR_waiting' = reg[p] + 1
    /\ reg' = [reg EXCEPT ![p] = reg[p] + 1]
    /\ UNCHANGED <<mutexes, counts>>

\* if(VIP_LR_waiting == 1)
LRTest(p) ==
    /\ pc[p] = "lr_test"
    /\ \E seen \in {reg[p], VIP_LR_waiting} :
         pc' = [pc EXCEPT ![p] = IF seen = 1 THEN "lr_close" ELSE "lr_waiting"]
    /\ reg' = [reg EXCEPT ![p] = 0]
    /\ UNCHANGED <<mutexes, counts, VIP_LR_waiting>>

\* pthread_mutex_lock(&VIP_priority_mutex), with VIP_waiting_mutex held
LRClose(p) ==
    /\ Goto(p, "lr_close", "lr_waiting")
    /\ Lock(VIP_priority_mutex)
    /\ UNCHANGED <<VIP_waiting_mutex, VIP_LR_mutex, VIP_RL_mutex, counts, race>>

\* pthread_mutex_unlock(&VIP_waiting_mutex)
LRWaiting(p) ==
    /\ Goto(p, "lr_waiting", "lr_lock")
    /\ Unlock(VIP_waiting_mutex)
    /\ UNCHANGED <<VIP_priority_mutex, VIP_LR_mutex, VIP_RL_mutex, counts, race>>

(* VIP_channel_LR: entering *)

\* pthread_mutex_lock(&VIP_LR_mutex)
LRLock(p) ==
    /\ Goto(p, "lr_lock", "lr_dload")
    /\ Lock(VIP_LR_mutex)
    /\ UNCHANGED <<VIP_waiting_mutex, VIP_priority_mutex, VIP_RL_mutex, counts, race>>

\* VIP_LR_waiting--, first half
LRDownLoad(p) ==
    /\ Goto(p, "lr_dload", "lr_dstore")
    /\ reg' = [reg EXCEPT ![p] = VIP_LR_waiting]
    /\ UNCHANGED <<mutexes, counts, VIP_LR_waiting>>

\* VIP_LR_waiting--, second half
LRDownStore(p) ==
    /\ Goto(p, "lr_dstore", "lr_dtest")
    /\ VIP_LR_waiting' = reg[p] - 1
    /\ reg' = [reg EXCEPT ![p] = reg[p] - 1]
    /\ UNCHANGED <<mutexes, counts>>

\* if(VIP_LR_waiting == 0)
LRDownTest(p) ==
    /\ pc[p] = "lr_dtest"
    /\ \E seen \in {reg[p], VIP_LR_waiting} :
         pc' = [pc EXCEPT ![p] = IF seen = 0 THEN "lr_open" ELSE "lr_count"]
    /\ reg' = [reg EXCEPT ![p] = 0]
    /\ UNCHANGED <<mutexes, counts, VIP_LR_waiting>>

\* pthread_mutex_unlock(&VIP_priority_mutex)
LROpen(p) ==
    /\ Goto(p, "lr_open", "lr_count")
    /\ Unlock(VIP_priority_mutex)
    /\ UNCHANGED <<VIP_waiting_mutex, VIP_LR_mutex, VIP_RL_mutex, counts, race>>

\* VIP_LR_count++; if(VIP_LR_count == 1)
LRCount(p) ==
    /\ pc[p] = "lr_count"
    /\ VIP_LR_count' = VIP_LR_count + 1
    /\ pc' = [pc EXCEPT ![p] = IF VIP_LR_count' = 1 THEN "lr_block" ELSE "lr_unlock"]
    /\ UNCHANGED <<mutexes, VIP_RL_count, race>>

\* pthread_mutex_lock(&VIP_RL_mutex), with VIP_LR_mutex held
LRBlock(p) ==
    /\ Goto(p, "lr_block", "lr_unlock")
    /\ Lock(VIP_RL_mutex)
    /\ UNCHANGED <<VIP_waiting_mutex, VIP_priority_mutex, VIP_LR_mutex, counts, race>>

\* pthread_mutex_unlock(&VIP_LR_mutex)
LRUnlock(p) ==
    /\ Goto(p, "lr_unlock", "lr_cross")
    /\ Unlock(VIP_LR_mutex)
    /\ UNCHANGED <<VIP_waiting_mutex, VIP_priority_mutex, VIP_RL_mutex, counts, race>>

(* VIP_channel_LR: leaving *)

\* sleep(vip_channel_time) is over; pthread_mutex_lock(&VIP_LR_mutex)
LRCrossed(p) ==
    /\ Goto(p, "lr_cross", "lr_leave")
    /\ Lock(VIP_LR_mutex)
    /\ UNCHANGED <<VIP_waiting_mutex, VIP_priority_mutex, VIP_RL_mutex, counts, race>>

\* VIP_LR_count--; the last one unlocks VIP_RL_mutex
LRLeave(p) ==
    /\ Goto(p, "lr_leave", "lr_exit")
    /\ VIP_LR_count' = VIP_LR_count - 1
    /\ VIP_RL_mutex' = IF VIP_LR_count' = 0 THEN FALSE ELSE VIP_RL_mutex
    /\ UNCHANGED <<VIP_waiting_mutex, VIP_priority_mutex, VIP_LR_mutex, VIP_RL_count, race>>

\* pthread_mutex_unlock(&VIP_LR_mutex); the passenger is past the channel
LRExit(p, next) ==
    /\ Goto(p, "lr_exit", next)
    /\ Unlock(VIP_LR_mutex)
    /\ UNCHANGED <<VIP_waiting_mutex, VIP_priority_mutex, VIP_RL_mutex, counts, race>>

VIP_channel_LR(p, next) ==
    \/ LRStart(p) \/ LRLoad(p) \/ LRStore(p) \/ LRTest(p) \/ LRClose(p) \/ LRWaiting(p)
    \/ LRLock(p) \/ LRDownLoad(p) \/ LRDownStore(p) \/ LRDownTest(p) \/ LROpen(p)
    \/ LRCount(p) \/ LRBlock(p) \/ LRUnlock(p)
    \/ LRCrossed(p) \/ LRLeave(p) \/ LRExit(p, next)

-----------------------------------------------------------------------------
(* VIP_channel_RL *)

\* pthread_mutex_lock(&VIP_priority_mutex): wait until the gate is open
RLStart(p) ==
    /\ Goto(p, "rl_start", "rl_gate")
    /\ Lock(VIP_priority_mutex)
    /\ UNCHANGED <<VIP_waiting_mutex, VIP_LR_mutex, VIP_RL_mutex, counts, race>>

\* pthread_mutex_unlock(&VIP_priority_mutex): and leave it open
RLGate(p) ==
    /\ Goto(p, "rl_gate", "rl_lock")
    /\ Unlock(VIP_priority_mutex)
    /\ UNCHANGED <<VIP_waiting_mutex, VIP_LR_mutex, VIP_RL_mutex, counts, race>>

\* pthread_mutex_lock(&VIP_RL_mutex)
RLLock(p) ==
    /\ Goto(p, "rl_lock", "rl_count")
    /\ Lock(VIP_RL_mutex)
    /\ UNCHANGED <<VIP_waiting_mutex, VIP_priority_mutex, VIP_LR_mutex, counts, race>>

\* VIP_RL_count++; if(VIP_RL_count==1)
RLCount(p) ==
    /\ pc[p] = "rl_count"
    /\ VIP_RL_count' = VIP_RL_count + 1
    /\ pc' = [pc EXCEPT ![p] = IF VIP_RL_count' = 1 THEN "rl_block" ELSE "rl_unlock"]
    /\ UNCHANGED <<mutexes, VIP_LR_count, race>>

\* pthread_mutex_lock(&VIP_LR_mutex), with VIP_RL_mutex held
RLBlock(p) ==
    /\ Goto(p, "rl_block", "rl_unlock")
    /\ Lock(VIP_LR_mutex)
    /\ UNCHANGED <<VIP_waiting_mutex, VIP_priority_mutex, VIP_RL_mutex, counts, race>>

\* pthread_mutex_unlock(&VIP_RL_mutex)
RLUnlock(p) ==
    /\ Goto(p, "rl_unlock", "rl_cross")
    /\ Unlock(VIP_RL_mutex)
    /\ UNCHANGED <<VIP_waiting_mutex, VIP_priority_mutex, VIP_LR_mutex, counts, race>>

\* sleep(vip_channel_time) is over; pthread_mutex_lock(&VIP_RL_mutex)
RLCrossed(p) ==
    /\ Goto(p, "rl_cross", "rl_leave")
    /\ Lock(VIP_RL_mutex)
    /\ UNCHANGED <<VIP_waiting_mutex, VIP_priority_mutex, VIP_LR_mutex, counts, race>>

\* VIP_RL_count--; the last one unlocks VIP_LR_mutex
RLLeave(p) ==
    /\ Goto(p, "rl_leave", "rl_exit")
    /\ VIP_RL_count' = VIP_RL_count - 1
    /\ VIP_LR_mutex' = IF VIP_RL_count' = 0 THEN FALSE ELSE VIP_LR_mutex
    /\ UNCHANGED <<VIP_waiting_mutex, VIP_priority_mutex, VIP_RL_mutex, VIP_LR_count, race>>

\* pthread_mutex_unlock(&VIP_RL_mutex); the passenger is past the channel
RLExit(p, next) ==
    /\ Goto(p, "rl_exit", next)
    /\ Unlock(VIP_RL_mutex)
    /\ UNCHANGED <<VIP_waiting_mutex, VIP_priority_mutex, VIP_LR_mutex, counts, race>>

VIP_channel_RL(p, next) ==
    \/ RLStart(p) \/ RLGate(p) \/ RLLock(p) \/ RLCount(p) \/ RLBlock(p) \/ RLUnlock(p)
    \/ RLCrossed(p) \/ RLLeave(p) \/ RLExit(p, next)

-----------------------------------------------------------------------------

\* A passenger calls one of the two functions.  (Lost updates can make
\* VIP_LR_waiting drift without limit.)
Arrive(p) ==
    /\ VIP_LR_waiting \in -WaitingBound .. WaitingBound
    /\ \E start \in {"lr_start", "rl_start"} : Goto(p, "away", start)
    /\ UNCHANGED channel

Walk(p) == VIP_channel_LR(p, "away") \/ VIP_channel_RL(p, "away")

Next == \E p \in Passenger : Arrive(p) \/ Walk(p)

\* A thread that can take its next step eventually takes it; nobody has to
\* come to the channel.
Fairness == \A p \in Passenger : WF_vars(Walk(p))

Spec == Init /\ [][Next]_vars
FairSpec == Spec /\ Fairness

-----------------------------------------------------------------------------

At(labels) == ThreadsAt(Passenger, pc, labels)

\* Counted in VIP_LR_count or VIP_RL_count.
LRCountedLabels == {"lr_block", "lr_unlock", "lr_cross", "lr_leave"}
RLCountedLabels == {"rl_block", "rl_unlock", "rl_cross", "rl_leave"}

\* On the walkway: counted, and not waiting for the other direction's mutex.
LROn == At({"lr_unlock", "lr_cross", "lr_leave"})
RLOn == At({"rl_unlock", "rl_cross", "rl_leave"})

\* In a block that VIP_LR_mutex (VIP_RL_mutex) protects.
InLR == At({"lr_dload", "lr_dstore", "lr_dtest", "lr_open", "lr_count", "lr_block",
            "lr_unlock", "lr_leave", "lr_exit"})
InRL == At({"rl_count", "rl_block", "rl_unlock", "rl_leave", "rl_exit"})

\* Every variable holds a value of its C++ type.
TypeOK ==
    /\ pc \in [Passenger -> Labels]
    /\ VIP_waiting_mutex \in BOOLEAN /\ VIP_priority_mutex \in BOOLEAN
    /\ VIP_LR_mutex \in BOOLEAN /\ VIP_RL_mutex \in BOOLEAN
    /\ VIP_LR_waiting \in Int
    /\ VIP_LR_count \in Nat
    /\ VIP_RL_count \in Nat
    /\ reg \in [Passenger -> Int]

\* The walkway carries passengers in one direction at a time.
OneDirection == LROn = {} \/ RLOn = {}

\* The counts that decide who locks and who unlocks the other direction's
\* mutex are the numbers of passengers in each direction.
CountsExact ==
    /\ VIP_LR_count = Cardinality(At(LRCountedLabels))
    /\ VIP_RL_count = Cardinality(At(RLCountedLabels))

\* Each mutex is held by one thread inside a block it protects, or on behalf
\* of all the passengers of the opposite direction, never both, although it is
\* then unlocked by another thread than the one that locked it.
MutexOwners ==
    /\ VIP_LR_mutex <=> (InLR # {} \/ RLOn # {})
    /\ VIP_RL_mutex <=> (InRL # {} \/ LROn # {})
    /\ \A p, q \in InLR : p = q
    /\ \A p, q \in InRL : p = q
    /\ InLR = {} \/ RLOn = {}
    /\ InRL = {} \/ LROn = {}

\* The inductive invariant of the proofs in VIPChannelProofs.
IInv == TypeOK /\ CountsExact /\ MutexOwners /\ OneDirection

\* The channel implements the abstract walkway.
Lane == INSTANCE OneLane WITH
            lane <- [p \in Passenger |-> IF p \in LROn THEN "LR"
                                        ELSE IF p \in RLOn THEN "RL" ELSE "off"]
LaneSpec == Lane!Spec
=============================================================================
