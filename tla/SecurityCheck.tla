--------------------------- MODULE SecurityCheck ----------------------------
(***************************************************************************)
(* The security check of the airport simulation: Passenger::security_check *)
(* of offline_2/offline.cpp.  N belts serve P passengers each; the places  *)
(* on the belts are the N * P entries of the array belts, and place i is   *)
(* on belt i \div P.  The semaphore belt_empty counts free places, the     *)
(* semaphore sec_check_empty is taken and given back every P passengers,   *)
(* INSIDE the block that belts_count_mutex protects.                       *)
(***************************************************************************)
EXTENDS Integers, FiniteSets, Helper

CONSTANTS Passenger,    \* the passenger threads
          N,            \* the number of belts (params[1])
          P             \* passengers per belt (params[2])

ASSUME SecurityCheckAssumption ==
    IsFiniteSet(Passenger) /\ N \in Nat \ {0} /\ P \in Nat \ {0}

VARIABLES pc,                   \* where each thread is
          belt_empty,           \* semaphore: places not yet claimed
          sec_check_empty,      \* semaphore: "belts"
          belts_count_mutex,    \* protects the variables below
          belts_count,          \* number of occupied places
          belts,                \* belts[i]: place i is occupied
          assigned_belt         \* the local variable of each thread

pool == <<belt_empty, sec_check_empty, belts_count_mutex, belts_count, belts,
          assigned_belt>>
vars == <<pc, pool>>

Places == 0 .. N * P - 1

Labels == {"sc_start", "sc_lock", "sc_find", "sc_take", "sc_semwait", "sc_unlock",
           "sc_serve", "sc_vacate", "sc_sempost", "sc_post", "sc_done"}

Goto(p, from, to) == pc[p] = from /\ pc' = [pc EXCEPT ![p] = to]

\* sem_init, pthread_mutex_init and the loop that clears the array, in main.
InitPool ==
    /\ belt_empty = N * P
    /\ sec_check_empty = N
    /\ belts_count_mutex = FALSE
    /\ belts_count = 0
    /\ belts = [i \in Places |-> FALSE]
    /\ assigned_belt = [p \in Passenger |-> -1]

Init == pc = [p \in Passenger |-> "sc_start"] /\ InitPool

-----------------------------------------------------------------------------

\* Mutants: plausible slips in security_check that the properties must notice.
LockInUnlocked(p) ==        \* no pthread_mutex_lock on the way in
    /\ Goto(p, "sc_lock", "sc_find")
    /\ UNCHANGED pool
TakeOffByOne(p) ==          \* the belt is taken by its first passenger
    /\ pc[p] = "sc_take"
    /\ belts' = [belts EXCEPT ![assigned_belt[p]] = TRUE]
    /\ pc' = [pc EXCEPT ![p] = IF belts_count % P = 1 THEN "sc_semwait" ELSE "sc_unlock"]
    /\ UNCHANGED <<belt_empty, sec_check_empty, belts_count_mutex, belts_count, assigned_belt>>
GiveBackOffByOne(p) ==      \* tests the count after instead of before the decrement
    /\ pc[p] = "sc_sempost"
    /\ pc' = [pc EXCEPT ![p] = "sc_post"]
    /\ sec_check_empty' = sec_check_empty + (IF belts_count % P = 0 THEN 1 ELSE 0)
    /\ belts_count_mutex' = FALSE
    /\ UNCHANGED <<belt_empty, belts_count, belts, assigned_belt>>
GiveBackForgotten(p) ==     \* no sem_post(&sec_check_empty)
    /\ Goto(p, "sc_sempost", "sc_post")
    /\ belts_count_mutex' = FALSE
    /\ UNCHANGED <<belt_empty, sec_check_empty, belts_count, belts, assigned_belt>>

\* sem_wait(&belt_empty)
Claim(p) ==
    /\ Goto(p, "sc_start", "sc_lock")
    /\ belt_empty > 0
    /\ belt_empty' = belt_empty - 1
    /\ UNCHANGED <<sec_check_empty, belts_count_mutex, belts_count, belts, assigned_belt>>

\* pthread_mutex_lock(&belts_count_mutex), on the way in
LockIn(p) ==
    /\ Goto(p, "sc_lock", "sc_find")
    /\ ~belts_count_mutex
    /\ belts_count_mutex' = TRUE
    /\ UNCHANGED <<belt_empty, sec_check_empty, belts_count, belts, assigned_belt>>

\* belts_count++ and the search for a place
Find(p) ==
    /\ Goto(p, "sc_find", "sc_take")
    /\ belts_count' = belts_count + 1
    /\ assigned_belt' = [assigned_belt EXCEPT ![p] = get_idx(belts, N * P, FALSE)]
    /\ UNCHANGED <<belt_empty, sec_check_empty, belts_count_mutex, belts>>

\* belts[assigned_belt] = true; the test that decides on the second semaphore
Take(p) ==
    /\ pc[p] = "sc_take"
    /\ belts' = [belts EXCEPT ![assigned_belt[p]] = TRUE]
    /\ pc' = [pc EXCEPT ![p] = IF belts_count % P = 0 THEN "sc_semwait" ELSE "sc_unlock"]
    /\ UNCHANGED <<belt_empty, sec_check_empty, belts_count_mutex, belts_count, assigned_belt>>

\* sem_wait(&sec_check_empty), with the mutex held
TakeBelt(p) ==
    /\ Goto(p, "sc_semwait", "sc_unlock")
    /\ sec_check_empty > 0
    /\ sec_check_empty' = sec_check_empty - 1
    /\ UNCHANGED <<belt_empty, belts_count_mutex, belts_count, belts, assigned_belt>>

\* pthread_mutex_unlock, on the way in
UnlockIn(p) ==
    /\ Goto(p, "sc_unlock", "sc_serve")
    /\ belts_count_mutex' = FALSE
    /\ UNCHANGED <<belt_empty, sec_check_empty, belts_count, belts, assigned_belt>>

\* sleep(security_check_time) is over; pthread_mutex_lock, on the way out
LockOut(p) ==
    /\ Goto(p, "sc_serve", "sc_vacate")
    /\ ~belts_count_mutex
    /\ belts_count_mutex' = TRUE
    /\ UNCHANGED <<belt_empty, sec_check_empty, belts_count, belts, assigned_belt>>

\* belts_count--; belts[assigned_belt] = false
Vacate(p) ==
    /\ Goto(p, "sc_vacate", "sc_sempost")
    /\ belts_count' = belts_count - 1
    /\ belts' = [belts EXCEPT ![assigned_belt[p]] = FALSE]
    /\ UNCHANGED <<belt_empty, sec_check_empty, belts_count_mutex, assigned_belt>>

\* the conditional sem_post(&sec_check_empty); pthread_mutex_unlock
GiveBack(p) ==
    /\ Goto(p, "sc_sempost", "sc_post")
    /\ sec_check_empty' = sec_check_empty + (IF (belts_count + 1) % P = 0 THEN 1 ELSE 0)
    /\ belts_count_mutex' = FALSE
    /\ UNCHANGED <<belt_empty, belts_count, belts, assigned_belt>>

\* sem_post(&belt_empty)
Post(p) ==
    /\ Goto(p, "sc_post", "sc_done")
    /\ belt_empty' = belt_empty + 1
    /\ UNCHANGED <<sec_check_empty, belts_count_mutex, belts_count, belts, assigned_belt>>

security_check(p) ==
    \/ Claim(p) \/ LockIn(p) \/ Find(p) \/ Take(p) \/ TakeBelt(p) \/ UnlockIn(p)
    \/ LockOut(p) \/ Vacate(p) \/ GiveBack(p) \/ Post(p)

Next == \E p \in Passenger : security_check(p)

\* A thread that can take its next step eventually takes it.
Fairness == \A p \in Passenger : WF_vars(security_check(p))

Spec == Init /\ [][Next]_vars
FairSpec == Spec /\ Fairness

-----------------------------------------------------------------------------

\* Between sem_wait and sem_post on belt_empty; counted in belts_count.
InsideLabels  == {"sc_lock", "sc_find", "sc_take", "sc_semwait", "sc_unlock",
                  "sc_serve", "sc_vacate", "sc_sempost", "sc_post"}
CountedLabels == {"sc_take", "sc_semwait", "sc_unlock", "sc_serve", "sc_vacate"}

At(labels) == ThreadsAt(Passenger, pc, labels)
Inside  == At(InsideLabels)
Counted == At(CountedLabels)
LockedLabels == {"sc_find", "sc_take", "sc_semwait", "sc_unlock", "sc_vacate", "sc_sempost"}
Locked  == At(LockedLabels)
Served  == At({"sc_semwait", "sc_unlock", "sc_serve", "sc_vacate"})

\* Every variable holds a value of its C++ type; neither semaphore nor the
\* count ever exceeds the number of places or belts.
TypeOK ==
    /\ pc \in [Passenger -> Labels]
    /\ belt_empty \in 0 .. N * P
    /\ sec_check_empty \in 0 .. N
    /\ belts_count_mutex \in BOOLEAN
    /\ belts_count \in 0 .. N * P
    /\ belts \in [Places -> BOOLEAN]
    /\ assigned_belt \in [Passenger -> -1 .. N * P - 1]

\* security_check uses the result of get_idx as an index without testing it
\* for -1: whoever is about to occupy a place has found one, and it is free.
PlaceFound ==
    \A p \in At({"sc_take"}) :
        /\ assigned_belt[p] # -1
        /\ belts[assigned_belt[p]] = FALSE

\* The array tells the truth about who stands where.
PlacesMatchPassengers ==
    /\ \A i \in Places : belts[i] <=> \E p \in Served : assigned_belt[p] = i
    /\ \A p \in Served : assigned_belt[p] # -1
    /\ \A p, q \in Served : assigned_belt[p] = assigned_belt[q] => p = q

\* Every passenger the semaphore belt_empty admitted is inside, and
\* belts_count is the number of those that were counted.
CountersAgree ==
    /\ belt_empty + Cardinality(Inside) = N * P
    /\ belts_count = Cardinality(Counted)

\* The second semaphore is a function of the count: it is N less the number
\* of whole groups of P passengers, but for the thread that has counted
\* itself in, or out, and has yet to take, or give back, its belt.
Owed ==
    IF belts_count % P = 0 /\ At({"sc_take", "sc_semwait"}) # {}
    THEN 1
    ELSE IF (belts_count + 1) % P = 0 /\ At({"sc_sempost"}) # {} THEN -1 ELSE 0
BeltSemaphore == sec_check_empty = N - (belts_count \div P) + Owed

\* sem_wait(&sec_check_empty) is called with belts_count_mutex held, so a
\* passenger that had to wait there would wait for ever: those that could
\* post need the mutex.  It never has to wait.
NeverWaitsWithLock == At({"sc_semwait"}) # {} => sec_check_empty > 0

\* The mutex is locked exactly while one passenger is in a protected block,
\* and whoever is to take a belt is the last of a group of P.
MutexOK ==
    /\ belts_count_mutex <=> Locked # {}
    /\ \A p, q \in Locked : p = q
WaitDecided == At({"sc_semwait"}) # {} => belts_count % P = 0

\* The inductive invariant of the proofs in SecurityCheckProofs.
IInv ==
    /\ TypeOK /\ MutexOK /\ WaitDecided /\ PlaceFound /\ PlacesMatchPassengers
    /\ CountersAgree /\ BeltSemaphore

\* A passenger that has arrived eventually passes the security check.
EveryonePasses == \A p \in Passenger : <>(pc[p] = "sc_done")

\* security_check implements the abstract pool: p holds its place from the
\* moment it is marked occupied until it is marked free.
Pool == INSTANCE SlotPool WITH
            Slots <- Places,
            slot  <- [p \in Passenger |->
                        IF p \in Served THEN assigned_belt[p] ELSE -1]
PoolSpec == Pool!Spec
=============================================================================
