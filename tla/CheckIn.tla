------------------------------ MODULE CheckIn -------------------------------
(***************************************************************************)
(* The self-check-in kiosks of the airport simulation: Passenger::check_in *)
(* of offline_2/offline.cpp.  Every passenger is a thread.  The counting   *)
(* semaphore check_in_empty lets at most M passengers in, the mutex        *)
(* check_in_count_mutex protects the count and the array kiosks.  A mutex  *)
(* is a boolean (TRUE is locked), a semaphore a natural number, and pc[p]  *)
(* names the next call of passenger p's thread.                            *)
(***************************************************************************)
EXTENDS Integers, FiniteSets, Helper

CONSTANTS Passenger,    \* the passenger threads
          M             \* the number of kiosks (params[0])

ASSUME CheckInAssumption == IsFiniteSet(Passenger) /\ M \in Nat \ {0}

VARIABLES pc,                       \* where each thread is
          check_in_empty,           \* semaphore: the kiosks not yet claimed
          check_in_count_mutex,     \* protects the two variables below
          check_in_count,           \* number of occupied kiosks
          kiosks,                   \* kiosks[i]: kiosk i is occupied
          assigned_kiosk            \* the local variable of each thread

pool == <<check_in_empty, check_in_count_mutex, check_in_count, kiosks,
          assigned_kiosk>>
vars == <<pc, pool>>

Labels == {"ci_start", "ci_lock", "ci_find", "ci_take", "ci_serve",
           "ci_vacate", "ci_post", "ci_done"}

Goto(p, from, to) == pc[p] = from /\ pc' = [pc EXCEPT ![p] = to]

\* sem_init, pthread_mutex_init and the loop that clears the array, in main.
InitPool ==
    /\ check_in_empty = M
    /\ check_in_count_mutex = FALSE
    /\ check_in_count = 0
    /\ kiosks = [k \in 0 .. M - 1 |-> FALSE]
    /\ assigned_kiosk = [p \in Passenger |-> -1]

Init == pc = [p \in Passenger |-> "ci_start"] /\ InitPool

-----------------------------------------------------------------------------

\* Mutants: plausible slips in check_in that the properties must notice.
LockInUnlocked(p) ==        \* no pthread_mutex_lock on the way in
    /\ Goto(p, "ci_lock", "ci_find")
    /\ UNCHANGED pool
TakeNoUnlock(p) ==          \* no pthread_mutex_unlock on the way in
    /\ Goto(p, "ci_take", "ci_serve")
    /\ kiosks' = [kiosks EXCEPT ![assigned_kiosk[p]] = TRUE]
    /\ UNCHANGED <<check_in_empty, check_in_count_mutex, check_in_count, assigned_kiosk>>
PostForgotten(p) ==         \* no sem_post
    /\ Goto(p, "ci_post", "ci_done")
    /\ UNCHANGED pool

\* sem_wait(&check_in_empty)
Claim(p) ==
    /\ Goto(p, "ci_start", "ci_lock")
    /\ check_in_empty > 0
    /\ check_in_empty' = check_in_empty - 1
    /\ UNCHANGED <<check_in_count_mutex, check_in_count, kiosks, assigned_kiosk>>

\* pthread_mutex_lock(&check_in_count_mutex), on the way in
LockIn(p) ==
    /\ Goto(p, "ci_lock", "ci_find")
    /\ ~check_in_count_mutex
    /\ check_in_count_mutex' = TRUE
    /\ UNCHANGED <<check_in_empty, check_in_count, kiosks, assigned_kiosk>>

\* check_in_count++ and the search for a kiosk
Find(p) ==
    /\ Goto(p, "ci_find", "ci_take")
    /\ check_in_count' = check_in_count + 1
    /\ assigned_kiosk' = [assigned_kiosk EXCEPT ![p] = get_idx(kiosks, M, FALSE)]
    /\ UNCHANGED <<check_in_empty, check_in_count_mutex, kiosks>>

\* kiosks[assigned_kiosk] = true; pthread_mutex_unlock.  (A write at index -1
\* would fall outside the array and leave the function as it is.)
Take(p) ==
    /\ Goto(p, "ci_take", "ci_serve")
    /\ kiosks' = [kiosks EXCEPT ![assigned_kiosk[p]] = TRUE]
    /\ check_in_count_mutex' = FALSE
    /\ UNCHANGED <<check_in_empty, check_in_count, assigned_kiosk>>

\* sleep(check_in_time) is over; pthread_mutex_lock, on the way out
LockOut(p) ==
    /\ Goto(p, "ci_serve", "ci_vacate")
    /\ ~check_in_count_mutex
    /\ check_in_count_mutex' = TRUE
    /\ UNCHANGED <<check_in_empty, check_in_count, kiosks, assigned_kiosk>>

\* check_in_count--; kiosks[assigned_kiosk] = false; pthread_mutex_unlock
Vacate(p) ==
    /\ Goto(p, "ci_vacate", "ci_post")
    /\ check_in_count' = check_in_count - 1
    /\ kiosks' = [kiosks EXCEPT ![assigned_kiosk[p]] = FALSE]
    /\ check_in_count_mutex' = FALSE
    /\ UNCHANGED <<check_in_empty, assigned_kiosk>>

\* sem_post(&check_in_empty)
Post(p) ==
    /\ Goto(p, "ci_post", "ci_done")
    /\ check_in_empty' = check_in_empty + 1
    /\ UNCHANGED <<check_in_count_mutex, check_in_count, kiosks, assigned_kiosk>>

check_in(p) ==
    \/ Claim(p) \/ LockIn(p) \/ Find(p) \/ Take(p)
    \/ LockOut(p) \/ Vacate(p) \/ Post(p)

Next == \E p \in Passenger : check_in(p)

\* A thread that can take its next step eventually takes it.
Fairness == \A p \in Passenger : WF_vars(check_in(p))

Spec == Init /\ [][Next]_vars
FairSpec == Spec /\ Fairness

-----------------------------------------------------------------------------

\* Between sem_wait and sem_post; counted in check_in_count.
InsideLabels  == {"ci_lock", "ci_find", "ci_take", "ci_serve", "ci_vacate", "ci_post"}
CountedLabels == {"ci_take", "ci_serve", "ci_vacate"}

At(labels) == ThreadsAt(Passenger, pc, labels)
Inside  == At(InsideLabels)
Counted == At(CountedLabels)
Locked  == At({"ci_find", "ci_take", "ci_vacate"})      \* in a protected block
Served  == At({"ci_serve", "ci_vacate"})                \* occupying a kiosk

\* Every variable holds a value of its C++ type; the semaphore and the count
\* stay between 0 and M (the code never tests them).
TypeOK ==
    /\ pc \in [Passenger -> Labels]
    /\ check_in_empty \in 0 .. M
    /\ check_in_count_mutex \in BOOLEAN
    /\ check_in_count \in 0 .. M
    /\ kiosks \in [0 .. M - 1 -> BOOLEAN]
    /\ assigned_kiosk \in [Passenger -> -1 .. M - 1]

\* check_in uses the result of get_idx as an index without testing it for -1:
\* whoever is about to occupy a kiosk has found one, and it is free.
KioskFound ==
    \A p \in At({"ci_take"}) :
        /\ assigned_kiosk[p] # -1
        /\ kiosks[assigned_kiosk[p]] = FALSE

\* The array tells the truth: the occupied kiosks are exactly those of the
\* passengers being served, and no two of these share a kiosk.
KiosksMatchPassengers ==
    /\ \A k \in 0 .. M - 1 : kiosks[k] <=> \E p \in Served : assigned_kiosk[p] = k
    /\ \A p \in Served : assigned_kiosk[p] # -1
    /\ \A p, q \in Served : assigned_kiosk[p] = assigned_kiosk[q] => p = q

\* The two counters agree with each other although no common lock protects
\* them: every passenger the semaphore admitted is counted in check_in_count
\* or on its way in or out.
CountersAgree ==
    /\ check_in_empty + Cardinality(Inside) = M
    /\ check_in_count = Cardinality(Counted)

\* The mutex is locked exactly while one passenger is in a protected block.
MutexOK ==
    /\ check_in_count_mutex <=> Locked # {}
    /\ \A p, q \in Locked : p = q

\* The inductive invariant of the proofs in CheckInProofs.
IInv == TypeOK /\ MutexOK /\ KioskFound /\ KiosksMatchPassengers /\ CountersAgree

\* A passenger that has arrived is eventually checked in.
EveryoneChecksIn == \A p \in Passenger : <>(pc[p] = "ci_done")

\* check_in implements the abstract pool: p holds its kiosk from the moment it
\* is marked occupied until it is marked free.
Pool == INSTANCE SlotPool WITH
            Slots <- 0 .. M - 1,
            slot  <- [p \in Passenger |->
                        IF p \in Served THEN assigned_kiosk[p] ELSE -1]
PoolSpec == Pool!Spec
=============================================================================
