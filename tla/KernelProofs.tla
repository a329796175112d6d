---------------------------- MODULE KernelProofs ----------------------------
(***************************************************************************)
(* Proofs about three parts of the xv6 kernel.                             *)
(*                                                                         *)
(* LotteryScheduler: the process table, for every size of the table, every *)
(* number of CPUs, any system calls and any number of ticks and processes. *)
(*                                                                         *)
(* Blocks: the buffer cache, the sleep locks and both disk drivers.  The   *)
(* inductive invariant is CacheInv.  NoLostUpdate alone is not inductive:  *)
(* that the buffer a process changes is the only copy rests on exact       *)
(* reference counts (Refs: a buffer in use is never recycled) and on the   *)
(* sleep locks (LockWords: two processes never change one buffer), and     *)
(* that the disk has what a clean buffer has rests on the disk queue       *)
(* (Queue: a queued buffer belongs to its sleeping holder, and is there    *)
(* once) and on what idestart has already handed over (Values).            *)
(*                                                                         *)
(* Console: the ring buffer implements the line editor (InRing: it never   *)
(* holds more than its size, so what is stored never reaches a cell that   *)
(* is still to be read), nobody sleeps beside input (Readers), a modifier  *)
(* is on only while its key is down (ModifiersInv), and the cursor stays   *)
(* on the screen.                                                          *)
(***************************************************************************)
EXTENDS LotteryScheduler, Blocks, Console, HelperTheorems, FiniteSetTheorems, SequenceTheorems, TLAPS

-----------------------------------------------------------------------------
(* The process table and the lottery scheduler. *)

\* The field of each slot the proofs speak of, and where its process is.
State(s) == ptable[s].state
Pc(s) == frame[s].pc
Forking(s) == Pc(s) \in {"fork_copy", "fork_ready"}
Dispatched(c) == cpu[c].pc \in {"stamp", "proc", "account"}

\* A CPU between select and the end of its slice has a process; around the
\* switches, and while the process scans the table in wait(), it has
\* ptable.lock and takes no interrupts.
CPUState ==
    /\ \A c \in CPUs : Dispatched(c) <=> cpu[c].proc # Nobody
    /\ \A c \in CPUs : cpu[c].pc \in {"stamp", "account"} => ptlock = c
    /\ \A c \in CPUs : cpu[c].pc = "proc" /\ Pc(cpu[c].proc) = "wait_scan" => ptlock = c
    /\ \A c \in CPUs : ptlock = c => cpu[c].irq = "no"
    /\ \A c \in CPUs : cpu[c].irq = "yield" => cpu[c].pc = "proc"
    /\ \A c \in CPUs : cpu[c].irq = "wake" => tickslock = c

\* A process in fork has a slot of its own for the child; one that does not
\* exist yet or any more is not in a system call.
ForkState ==
    /\ \A s \in Slots : Forking(s) =>
          /\ State(s) \in {"RUNNABLE", "RUNNING"}
          /\ frame[s].np \in Slots /\ State(frame[s].np) = "EMBRYO"
    /\ \A s, q \in Slots : Forking(s) /\ Forking(q) /\ frame[s].np = frame[q].np => s = q
    /\ \A s \in Slots : State(s) \in {"UNUSED", "EMBRYO", "ZOMBIE"} => Pc(s) \in {"user", "exit"}

\* init is never gone, and a child belongs to a process that is fully alive.
Parents ==
    /\ State(initproc) \in {"SLEEPING", "RUNNABLE", "RUNNING"} /\ ptable[initproc].parent = Nobody
    /\ \A s \in Slots : ptable[s].parent # s
    /\ \A s \in Slots : Pc(s) = "fork_ready" => ptable[frame[s].np].parent = s
    /\ \A s \in InState(PState \ {"UNUSED", "EMBRYO"}) \ {initproc} :
          ptable[s].parent \in InState({"SLEEPING", "RUNNABLE", "RUNNING"})

\* Identifiers are handed out in ascending order.
Pids ==
    /\ \A s \in Slots : ptable[s].pid < nextpid
    /\ \A s, q \in InState(PState \ {"UNUSED"}) : ptable[s].pid = ptable[q].pid => s = q

\* A process in the loop of sys_sleep is on a CPU that holds tickslock and
\* takes no interrupts.
SleepLoop ==
    \A s \in Slots : Pc(s) \in {"sleep_check", "sleep"} =>
        \E c \in CPUs : cpu[c].pc = "proc" /\ cpu[c].proc = s /\ cpu[c].irq = "no" /\ tickslock = c

\* No zombie has a parent asleep in wait(); on one CPU nobody killed sleeps, nor is
\* about to.
Sleepers ==
    /\ NobodyOversleeps
    /\ NCPU = 1 => \A s \in Slots : Pc(s) = "sleep" => ~ptable[s].killed

\* Nobody is charged for more than has passed.
Charges ==
    /\ \A s \in Slots : ptable[s].ticks <= ticks /\ ptable[s].init_ticks <= ticks
    /\ \A c \in CPUs : cpu[c].pc \in {"proc", "account"} => ptable[cpu[c].proc].ticks <= ptable[cpu[c].proc].init_ticks

\* The inductive invariant.
TableInv ==
    /\ TypeOK /\ CPUState /\ RunningOnOneCPU /\ ForkState /\ Parents /\ Pids
    /\ SleepLoop /\ Sleepers /\ Charges

-----------------------------------------------------------------------------
\* The values that stand for no slot, no channel and no CPU.
LEMMA SlotFacts ==
    /\ initproc \in Slots /\ Nobody \notin Slots /\ NoChan \notin Slots /\ TicksChan \notin Slots
    /\ Free \notin CPUs
    /\ NCPU = 1 => \A c, d \in CPUs : c = d
  BY LotteryAssumption DEF Slots, CPUs, Nobody, Free, NoChan, TicksChan, initproc

\* The loops over the table stop at the first slot that fits.
LEMMA LeastFirst ==
    ASSUME NEW S \in SUBSET Slots, S # {}
    PROVE  Least(S) \in S /\ \A i \in S : Least(S) <= i
<1>1. S \subseteq Nat
  BY LotteryAssumption DEF Slots
<1>2. PICK i \in S : \A j \in S : <<j, i>> \notin OpToRel(<, Nat)
  BY <1>1, WFMin, NatLessThanWellFounded
<1>3. ASSUME NEW j \in S PROVE i <= j
  <2>1. i \in Nat /\ j \in Nat
    BY <1>1
  <2>2. ~(j < i)
    BY <2>1, <1>2, Zenon DEF OpToRel
  <2> QED BY <2>1, <2>2
<1> QED BY <1>3 DEF Least

\* The tickets of some of the processes are finitely many.
LEMMA TicketsFinite ==
    ASSUME TypeOK, NEW S \in SUBSET Slots
    PROVE  IsFiniteSet(TicketSet(S)) /\ Cardinality(TicketSet(S)) \in Nat
<1> DEFINE R == S \cap Runnable
           of == [s \in R |-> {s} \X (1 .. ptable[s].tickets)]
           T == {{s} \X (1 .. ptable[s].tickets) : s \in R}
<1>1. IsFiniteSet(R)
  <2>1. IsFiniteSet(Slots)
    BY LotteryAssumption, FS_Interval DEF Slots
  <2> QED BY <2>1, FS_Subset
<1>2. of \in Surjection(R, T)
  BY DEF Surjection
<1>3. IsFiniteSet(T)
  BY <1>1, <1>2, FS_Surjection
<1>4. ASSUME NEW t \in T PROVE IsFiniteSet(t)
  <2>1. PICK s \in R : t = {s} \X (1 .. ptable[s].tickets)
    OBVIOUS
  <2>2. ptable[s].tickets \in Nat
    BY DEF TypeOK, Proc
  <2>3. IsFiniteSet({s})
    BY FS_Singleton
  <2>4. IsFiniteSet(1 .. ptable[s].tickets)
    BY <2>2, FS_Interval
  <2> QED BY <2>1, <2>3, <2>4, FS_Product
<1>5. IsFiniteSet(UNION T)
  BY <1>3, <1>4, FS_UNION
<1> QED BY <1>5, FS_CardinalityType DEF TicketSet

\* An overflowing int is an int.
LEMMA WrapInt ==
    ASSUME NEW i \in Int
    PROVE  Wrap(i) \in Int
  BY LotteryAssumption DEF Wrap

\* What changing the state of one process leaves alone.
SameBut(q, state) ==
    /\ ptable'[q].state = state
    /\ ptable'[q].pid = ptable[q].pid /\ ptable'[q].parent = ptable[q].parent
    /\ ptable'[q].chan = ptable[q].chan /\ ptable'[q].killed = ptable[q].killed
    /\ ptable'[q].ticks = ptable[q].ticks /\ ptable'[q].init_ticks = ptable[q].init_ticks
\* Changing the state of slot n alone.
LEMMA StateUpdate ==
    ASSUME TypeOK, NEW n \in Slots, NEW v, ptable' = [ptable EXCEPT ![n].state = v]
    PROVE  \A q \in Slots : SameBut(q, IF q = n THEN v ELSE ptable[q].state)
<1> TAKE q \in Slots
<1>1. CASE q = n
  BY <1>1 DEF TypeOK, Proc, SameBut
<1>2. CASE q # n
  BY <1>2 DEF TypeOK, Proc, SameBut
<1> QED BY <1>1, <1>2

\* sched() takes the CPU back to the scheduler.
Scheds(c, d) ==
    /\ cpu'[d].pc = IF d = c THEN "account" ELSE cpu[d].pc
    /\ cpu'[d].irq = IF d = c THEN "no" ELSE cpu[d].irq
    /\ cpu'[d].proc = cpu[d].proc
\* sched() on CPU c: back to the scheduler, which will account for the slice.
LEMMA SchedUpdate ==
    ASSUME TypeOK, NEW c \in CPUs, sched(c)
    PROVE  cpu' \in [CPUs -> Cpu] /\ ptlock' = c /\ \A d \in CPUs : Scheds(c, d)
<1>1. cpu[c] \in Cpu
  BY DEF TypeOK
<1>2. [cpu[c] EXCEPT !.pc = "account", !.irq = "no"] \in Cpu
  BY <1>1 DEF Cpu
<1>3. ptlock' = c /\ cpu' = [cpu EXCEPT ![c] = [cpu[c] EXCEPT !.pc = "account", !.irq = "no"]]
  BY DEF sched
<1>4. cpu' \in [CPUs -> Cpu]
  BY <1>2, <1>3 DEF TypeOK
<1>5. \A d \in CPUs : cpu'[d] = IF d = c THEN [cpu[c] EXCEPT !.pc = "account", !.irq = "no"] ELSE cpu[d]
  BY <1>3 DEF TypeOK
<1> QED BY <1>1, <1>3, <1>4, <1>5 DEF Cpu, Scheds

-----------------------------------------------------------------------------
\* The passes of the scheduler that dispatch nobody touch only its own locals.
LEMMA LoopKeeps ==
    ASSUME TableInv, NEW c \in CPUs, cpu[c].pc \in {"count", "draw", "select"},
           (cpu \in [CPUs -> Cpu])', cpu'[c].pc \in {"count", "draw", "select"},
           cpu'[c].irq = cpu[c].irq, cpu'[c].proc = cpu[c].proc,
           \A d \in CPUs \ {c} : cpu'[d] = cpu[d],
           panicked' \in {"no", "trap"},
           UNCHANGED <<ptable, nextpid, frame, ptlock, tickslock, ticks, stat>>
    PROVE  TableInv'
<1> USE SlotFacts DEF TableInv
<1>1. TypeOK'
  BY DEF TypeOK
<1>2. CPUState'
  BY DEF CPUState, Dispatched, Pc
<1>3. RunningOnOneCPU'
  BY DEF RunningOnOneCPU, Executes, CPUState, Dispatched
<1>4. ForkState'
  BY DEF ForkState, Forking, State, Pc
<1>5. Parents'
  BY DEF Parents, State, Pc, InState, PState
<1>6. Pids'
  BY DEF Pids, InState, PState
<1>7. SleepLoop'
  BY DEF SleepLoop, Pc
<1>8. Sleepers'
  BY DEF Sleepers, NobodyOversleeps, Zombies, Children, InState, Pc
<1>9. Charges'
  BY DEF Charges, CPUState, Dispatched
<1> QED BY <1>1, <1>2, <1>3, <1>4, <1>5, <1>6, <1>7, <1>8, <1>9

\* select has found a winner and holds ptable.lock.
LEMMA DispatchKeeps ==
    ASSUME TableInv, NEW c \in CPUs, cpu[c].pc = "select", cpu[c].irq = "no", ptlock = Free,
           NEW n \in Slots, ptable[n].state = "RUNNABLE",
           (cpu \in [CPUs -> Cpu])', cpu'[c].pc = "stamp", cpu'[c].irq = "no", cpu'[c].proc = n,
           \A d \in CPUs \ {c} : cpu'[d] = cpu[d],
           ptable' = [ptable EXCEPT ![n].state = "RUNNING"], ptlock' = c,
           UNCHANGED <<nextpid, frame, tickslock, ticks, panicked, stat>>
    PROVE  TableInv'
<1> USE SlotFacts DEF TableInv
<1>t. \A q \in Slots : SameBut(q, IF q = n THEN "RUNNING" ELSE ptable[q].state)
  BY StateUpdate, Zenon
<1> USE <1>t DEF SameBut
<1>1. TypeOK'
  <2>1. (ptable \in [Slots -> Proc])'
    <3>1. ptable[n] \in Proc
      BY SlotFacts DEF TypeOK
    <3>2. [ptable[n] EXCEPT !.state = "RUNNING"] \in Proc
      BY <3>1 DEF TypeOK, Proc, PState
    <3> QED BY <3>2 DEF TypeOK
  <2>2. (frame \in [Slots -> Frame])'
    BY DEF TypeOK, Frame, Pcs
  <2>3. (cpu \in [CPUs -> Cpu])'
    OBVIOUS
  <2> QED BY <2>1, <2>2, <2>3 DEF TypeOK
<1>2. CPUState'
  BY DEF CPUState, Dispatched, Pc
<1>3. RunningOnOneCPU'
  BY DEF RunningOnOneCPU, Executes, CPUState, Dispatched
<1>4. ForkState'
  BY DEF ForkState, Forking, State, Pc
<1>5. Parents'
  BY DEF Parents, State, Pc, InState, PState
<1>6. Pids'
  BY DEF Pids, InState, PState
<1>7. SleepLoop'
  BY DEF SleepLoop, Pc
<1>8. Sleepers'
  BY DEF Sleepers, NobodyOversleeps, Zombies, Children, InState, Pc
<1>9. Charges'
  BY DEF Charges, CPUState, Dispatched
<1> QED BY <1>1, <1>2, <1>3, <1>4, <1>5, <1>6, <1>7, <1>8, <1>9

\* Noting the time of a dispatch.
LEMMA StampKeeps ==
    ASSUME TableInv, NEW c \in CPUs, Stamp(c)
    PROVE  TableInv'
<1> USE SlotFacts DEF TableInv, Stamp, SchedAt, locks
<1>1. TypeOK'
  <2>1. (ptable \in [Slots -> Proc])'
    <3>1. cpu[c].proc \in Slots
      BY DEF CPUState, Dispatched, TypeOK, Cpu
    <3>2. ptable[cpu[c].proc] \in Proc
      BY <3>1, SlotFacts DEF TypeOK
    <3>3. [ptable[cpu[c].proc] EXCEPT !.init_ticks = ticks, !.chan = NoChan] \in Proc
      BY <3>2 DEF TypeOK, Proc
    <3> QED BY <3>3 DEF TypeOK
  <2>2. (frame \in [Slots -> Frame])'
    BY DEF TypeOK, Frame, Pcs
  <2>3. (cpu \in [CPUs -> Cpu])'
    BY DEF TypeOK, Cpu
  <2> QED BY <2>1, <2>2, <2>3 DEF TypeOK
<1>2. CPUState'
  BY DEF TypeOK, Frame, Cpu, CPUState, Pc, Dispatched, RunningOnOneCPU
<1>3. RunningOnOneCPU'
  BY DEF TypeOK, Proc, Cpu, CPUState, RunningOnOneCPU, Executes, Dispatched, ForkState,
     Forking, Pc, State
<1>4. ForkState'
  BY DEF TypeOK, Proc, Frame, Cpu, ForkState, State, Pc, Forking, RunningOnOneCPU, Executes
<1>5. Parents'
  BY DEF TypeOK, Proc, Frame, Cpu, Parents, ForkState, State, Pc, Forking, InState, PState,
     RunningOnOneCPU, Executes
<1>6. Pids'
  BY DEF TypeOK, Proc, Frame, Pids, InState, PState, ForkState, State, Pc, Forking
<1>7. SleepLoop'
  BY DEF TypeOK, Proc, Frame, Cpu, SleepLoop, Pc, CPUState, RunningOnOneCPU
<1>8. Sleepers'
  BY DEF TypeOK, Proc, Frame, Cpu, Sleepers, NobodyOversleeps, Pc, InState, Zombies, Children,
     ForkState, State, Forking
<1>9. Charges'
  BY DEF TypeOK, Proc, Cpu, Charges, CPUState, Dispatched, RunningOnOneCPU
<1> QED BY <1>1, <1>2, <1>3, <1>4, <1>5, <1>6, <1>7, <1>8, <1>9

\* Charging a slice.
LEMMA AccountKeeps ==
    ASSUME TableInv, NEW c \in CPUs, Account(c)
    PROVE  TableInv'
<1> USE SlotFacts DEF TableInv, Account, SchedAt, locks
<1>1. TypeOK'
  <2>1. (ptable \in [Slots -> Proc])'
    <3>1. cpu[c].proc \in Slots
      BY DEF CPUState, Dispatched, TypeOK, Cpu
    <3>2. ptable[cpu[c].proc].ticks + ticks - ptable[cpu[c].proc].init_ticks \in 0 .. MaxTicks
      BY <3>1, LotteryAssumption DEF Charges, TypeOK, Proc
    <3>3. ptable[cpu[c].proc] \in Proc
      BY <3>1, SlotFacts DEF TypeOK
    <3>4. [ptable[cpu[c].proc] EXCEPT !.ticks = @ + ticks - ptable[cpu[c].proc].init_ticks] \in Proc
      BY <3>2, <3>3 DEF TypeOK, Proc
    <3> QED BY <3>4 DEF TypeOK
  <2>2. (frame \in [Slots -> Frame])'
    BY DEF TypeOK, Frame, Pcs
  <2>3. (cpu \in [CPUs -> Cpu])'
    <3>1. cpu[c] \in Cpu
      BY SlotFacts DEF TypeOK
    <3>2. [cpu[c] EXCEPT !.pc = "count", !.proc = Nobody] \in Cpu
      BY <3>1 DEF TypeOK, Cpu
    <3> QED BY <3>2 DEF TypeOK
  <2> QED BY <2>1, <2>2, <2>3 DEF TypeOK
<1>2. CPUState'
  BY DEF TypeOK, Frame, Cpu, CPUState, Pc, Dispatched, RunningOnOneCPU
<1>3. RunningOnOneCPU'
  BY DEF TypeOK, Proc, Cpu, CPUState, RunningOnOneCPU, Executes, Dispatched, ForkState,
     Forking, Pc, State
<1>4. ForkState'
  BY DEF TypeOK, Proc, Frame, Cpu, ForkState, State, Pc, Forking, RunningOnOneCPU, Executes
<1>5. Parents'
  BY DEF TypeOK, Proc, Frame, Cpu, Parents, ForkState, State, Pc, Forking, InState, PState,
     RunningOnOneCPU, Executes
<1>6. Pids'
  BY DEF TypeOK, Proc, Frame, Pids, InState, PState, ForkState, State, Pc, Forking
<1>7. SleepLoop'
  BY DEF TypeOK, Proc, Frame, Cpu, SleepLoop, Pc, CPUState, RunningOnOneCPU
<1>8. Sleepers'
  BY DEF TypeOK, Proc, Frame, Cpu, Sleepers, NobodyOversleeps, Pc, InState, Zombies, Children,
     ForkState, State, Forking
<1>9. Charges'
  BY DEF TypeOK, Proc, Cpu, Charges, CPUState, Dispatched, RunningOnOneCPU
<1> QED BY <1>1, <1>2, <1>3, <1>4, <1>5, <1>6, <1>7, <1>8, <1>9

\* A system call that changes nothing but the user's struct pstat.
LEMMA ReturnKeeps ==
    ASSUME TableInv, NEW c \in CPUs, NEW s \in Slots, Runs(c, s, "user"), Goto(s, "sysret"),
           stat' \in [Slots -> {0, 1}],
           UNCHANGED <<ptable, nextpid, cpu, ptlock, tickslock, ticks, panicked>>
    PROVE  TableInv'
<1> USE SlotFacts DEF TableInv, Runs, Goto
<1>1. TypeOK'
  <2>1. (ptable \in [Slots -> Proc])'
    BY DEF TypeOK, Proc, PState
  <2>2. (frame \in [Slots -> Frame])'
    BY DEF TypeOK, Frame, Pcs
  <2>3. (cpu \in [CPUs -> Cpu])'
    BY DEF TypeOK, Cpu
  <2> QED BY <2>1, <2>2, <2>3 DEF TypeOK
<1>2. CPUState'
  BY DEF TypeOK, Frame, Cpu, CPUState, Pc, Dispatched, RunningOnOneCPU
<1>3. RunningOnOneCPU'
  BY DEF TypeOK, Proc, Cpu, CPUState, RunningOnOneCPU, Executes, Dispatched, ForkState,
     Forking, Pc, State
<1>4. ForkState'
  BY DEF TypeOK, Proc, Frame, Cpu, ForkState, State, Pc, Forking, RunningOnOneCPU, Executes
<1>5. Parents'
  BY DEF TypeOK, Proc, Frame, Cpu, Parents, ForkState, State, Pc, Forking, InState, PState,
     RunningOnOneCPU, Executes
<1>6. Pids'
  BY DEF TypeOK, Proc, Frame, Pids, InState, PState, ForkState, State, Pc, Forking
<1>7. SleepLoop'
  BY DEF TypeOK, Proc, Frame, Cpu, SleepLoop, Pc, CPUState, RunningOnOneCPU
<1>8. Sleepers'
  BY DEF TypeOK, Proc, Frame, Cpu, Sleepers, NobodyOversleeps, Pc, InState, Zombies, Children,
     ForkState, State, Forking
<1>9. Charges'
  BY DEF TypeOK, Proc, Cpu, Charges, CPUState, Dispatched, RunningOnOneCPU
<1> QED BY <1>1, <1>2, <1>3, <1>4, <1>5, <1>6, <1>7, <1>8, <1>9

\* allocproc has found the free slot n.
LEMMA AllocKeeps ==
    ASSUME TableInv, NEW c \in CPUs, NEW s \in Slots, Runs(c, s, "user"), nextpid <= MaxPid,
           NEW n \in Slots, ptable[n].state = "UNUSED",
           ptable' = [ptable EXCEPT ![n] = [@ EXCEPT !.state = "EMBRYO", !.pid = nextpid,
                                                     !.tickets = 1]],
           nextpid' = nextpid + 1,
           frame' = [frame EXCEPT ![s] = [@ EXCEPT !.pc = "fork_copy", !.np = n]],
           UNCHANGED <<cpu, ptlock, tickslock, ticks, panicked, stat>>
    PROVE  TableInv'
<1> USE SlotFacts DEF TableInv, Runs
<1>1. TypeOK'
  <2>1. (ptable \in [Slots -> Proc])'
    <3>1. nextpid \in 0 .. MaxPid
      BY LotteryAssumption DEF TypeOK
    <3>2. ptable[n] \in Proc
      BY SlotFacts DEF TypeOK
    <3>3. [ptable[n] EXCEPT !.state = "EMBRYO", !.pid = nextpid, !.tickets = 1] \in Proc
      BY <3>1, <3>2 DEF TypeOK, Proc, PState
    <3> QED BY <3>3 DEF TypeOK
  <2>2. (frame \in [Slots -> Frame])'
    <3>1. frame[s] \in Frame
      BY SlotFacts DEF TypeOK
    <3>2. [frame[s] EXCEPT !.pc = "fork_copy", !.np = n] \in Frame
      BY <3>1 DEF TypeOK, Frame, Pcs
    <3> QED BY <3>2 DEF TypeOK
  <2>3. (cpu \in [CPUs -> Cpu])'
    BY DEF TypeOK, Cpu
  <2> QED BY <2>1, <2>2, <2>3, LotteryAssumption DEF TypeOK
<1>2. CPUState'
  BY DEF TypeOK, Frame, Cpu, CPUState, Pc, Dispatched, RunningOnOneCPU
<1>3. RunningOnOneCPU'
  BY DEF TypeOK, Proc, Cpu, CPUState, RunningOnOneCPU, Executes, Dispatched, ForkState,
     Forking, Pc, State
<1>4. ForkState'
  BY DEF TypeOK, Proc, Frame, Cpu, ForkState, State, Pc, Forking, RunningOnOneCPU, Executes
<1>5. Parents'
  BY DEF TypeOK, Proc, Frame, Cpu, Parents, ForkState, State, Pc, Forking, InState, PState,
     RunningOnOneCPU, Executes
<1>6. Pids'
  BY DEF TypeOK, Proc, Frame, Pids, InState, PState, ForkState, State, Pc, Forking
<1>7. SleepLoop'
  BY DEF TypeOK, Proc, Frame, Cpu, SleepLoop, Pc, CPUState, RunningOnOneCPU
<1>8. Sleepers'
  BY DEF TypeOK, Proc, Frame, Cpu, Sleepers, NobodyOversleeps, Pc, InState, Zombies, Children,
     ForkState, State, Forking
<1>9. Charges'
  BY DEF TypeOK, Proc, Cpu, Charges, CPUState, Dispatched, RunningOnOneCPU
<1> QED BY <1>1, <1>2, <1>3, <1>4, <1>5, <1>6, <1>7, <1>8, <1>9

\* fork gives the slot back.
LEMMA ForkFailsKeeps ==
    ASSUME TableInv, NEW c \in CPUs, NEW s \in Slots, ForkFails(c, s)
    PROVE  TableInv'
<1> USE SlotFacts DEF TableInv, ForkFails, Runs, Goto, locks
<1>1. TypeOK'
  <2>1. (ptable \in [Slots -> Proc])'
    <3>1. frame[s].np \in Slots
      BY DEF ForkState, Forking, Pc
    <3>2. ptable[frame[s].np] \in Proc
      BY <3>1, SlotFacts DEF TypeOK
    <3>3. [ptable[frame[s].np] EXCEPT !.state = "UNUSED"] \in Proc
      BY <3>2 DEF TypeOK, Proc, PState
    <3> QED BY <3>3 DEF TypeOK
  <2>2. (frame \in [Slots -> Frame])'
    BY DEF TypeOK, Frame, Pcs
  <2>3. (cpu \in [CPUs -> Cpu])'
    BY DEF TypeOK, Cpu
  <2> QED BY <2>1, <2>2, <2>3 DEF TypeOK
<1>2. CPUState'
  BY DEF TypeOK, Frame, Cpu, CPUState, Pc, Dispatched, RunningOnOneCPU
<1>3. RunningOnOneCPU'
  BY DEF TypeOK, Proc, Cpu, CPUState, RunningOnOneCPU, Executes, Dispatched, ForkState,
     Forking, Pc, State
<1>4. ForkState'
  BY DEF TypeOK, Proc, Frame, Cpu, ForkState, State, Pc, Forking, RunningOnOneCPU, Executes
<1>5. Parents'
  BY DEF TypeOK, Proc, Frame, Cpu, Parents, ForkState, State, Pc, Forking, InState, PState,
     RunningOnOneCPU, Executes
<1>6. Pids'
  BY DEF TypeOK, Proc, Frame, Pids, InState, PState, ForkState, State, Pc, Forking
<1>7. SleepLoop'
  BY DEF TypeOK, Proc, Frame, Cpu, SleepLoop, Pc, CPUState, RunningOnOneCPU
<1>8. Sleepers'
  BY DEF TypeOK, Proc, Frame, Cpu, Sleepers, NobodyOversleeps, Pc, InState, Zombies, Children,
     ForkState, State, Forking
<1>9. Charges'
  BY DEF TypeOK, Proc, Cpu, Charges, CPUState, Dispatched, RunningOnOneCPU
<1> QED BY <1>1, <1>2, <1>3, <1>4, <1>5, <1>6, <1>7, <1>8, <1>9

\* fork makes the child a child of its parent.
LEMMA ForkCopyKeeps ==
    ASSUME TableInv, NEW c \in CPUs, NEW s \in Slots, ForkCopy(c, s)
    PROVE  TableInv'
<1> USE SlotFacts DEF TableInv, ForkCopy, Runs, EmptyFrame, locks
<1>1. TypeOK'
  <2>1. (ptable \in [Slots -> Proc])'
    <3>1. frame[s].np \in Slots
      BY DEF ForkState, Forking, Pc
    <3>2. ptable[frame[s].np] \in Proc
      BY <3>1, SlotFacts DEF TypeOK
    <3>3. [ptable[frame[s].np] EXCEPT !.parent = s, !.tickets = ptable[s].tickets] \in Proc
      BY <3>2 DEF TypeOK, Proc
    <3> QED BY <3>3 DEF TypeOK
  <2>2. (frame \in [Slots -> Frame])'
    <3>1. frame[s].np \in Slots
      BY DEF ForkState, Forking, Pc
    <3>2. EmptyFrame \in Frame
      BY LotteryAssumption DEF Frame, Pcs
    <3>3. [frame EXCEPT ![frame[s].np] = EmptyFrame] \in [Slots -> Frame]
      BY <3>2 DEF TypeOK
    <3> QED BY <3>3 DEF Frame, Pcs
  <2>3. (cpu \in [CPUs -> Cpu])'
    BY DEF TypeOK, Cpu
  <2> QED BY <2>1, <2>2, <2>3 DEF TypeOK
<1>2. CPUState'
  BY DEF TypeOK, Frame, Cpu, CPUState, Pc, Dispatched, RunningOnOneCPU
<1>3. RunningOnOneCPU'
  BY DEF TypeOK, Proc, Cpu, CPUState, RunningOnOneCPU, Executes, Dispatched, ForkState,
     Forking, Pc, State
<1>4. ForkState'
  BY SMTT(60) DEF TypeOK, Proc, Frame, Cpu, ForkState, State, Pc, Forking, RunningOnOneCPU, Executes
<1>5. Parents'
  BY DEF TypeOK, Proc, Frame, Cpu, Parents, ForkState, State, Pc, Forking, InState, PState,
     RunningOnOneCPU, Executes
<1>6. Pids'
  BY DEF TypeOK, Proc, Frame, Pids, InState, PState, ForkState, State, Pc, Forking
<1>7. SleepLoop'
  BY DEF TypeOK, Proc, Frame, Cpu, SleepLoop, Pc, CPUState, RunningOnOneCPU
<1>8. Sleepers'
  BY DEF TypeOK, Proc, Frame, Cpu, Sleepers, NobodyOversleeps, Pc, InState, Zombies, Children,
     ForkState, State, Forking
<1>9. Charges'
  BY DEF TypeOK, Proc, Cpu, Charges, CPUState, Dispatched, RunningOnOneCPU
<1> QED BY <1>1, <1>2, <1>3, <1>4, <1>5, <1>6, <1>7, <1>8, <1>9

\* fork lets the child run.
LEMMA ForkReadyKeeps ==
    ASSUME TableInv, NEW c \in CPUs, NEW s \in Slots, ForkReady(c, s)
    PROVE  TableInv'
<1> USE SlotFacts DEF TableInv, ForkReady, Runs, Goto, locks
<1>1. TypeOK'
  <2>1. (ptable \in [Slots -> Proc])'
    <3>1. frame[s].np \in Slots
      BY DEF ForkState, Forking, Pc
    <3>2. ptable[frame[s].np] \in Proc
      BY <3>1, SlotFacts DEF TypeOK
    <3>3. [ptable[frame[s].np] EXCEPT !.state = "RUNNABLE"] \in Proc
      BY <3>2 DEF TypeOK, Proc, PState
    <3> QED BY <3>3 DEF TypeOK
  <2>2. (frame \in [Slots -> Frame])'
    BY DEF TypeOK, Frame, Pcs
  <2>3. (cpu \in [CPUs -> Cpu])'
    BY DEF TypeOK, Cpu
  <2> QED BY <2>1, <2>2, <2>3 DEF TypeOK
<1>2. CPUState'
  BY DEF TypeOK, Frame, Cpu, CPUState, Pc, Dispatched, RunningOnOneCPU
<1>3. RunningOnOneCPU'
  BY DEF TypeOK, Proc, Cpu, CPUState, RunningOnOneCPU, Executes, Dispatched, ForkState,
     Forking, Pc, State
<1>4. ForkState'
  BY DEF TypeOK, Proc, Frame, Cpu, ForkState, State, Pc, Forking, RunningOnOneCPU, Executes
<1>5. Parents'
  BY DEF TypeOK, Proc, Frame, Cpu, Parents, ForkState, State, Pc, Forking, InState, PState,
     RunningOnOneCPU, Executes
<1>6. Pids'
  BY DEF TypeOK, Proc, Frame, Pids, InState, PState, ForkState, State, Pc, Forking
<1>7. SleepLoop'
  BY DEF TypeOK, Proc, Frame, Cpu, SleepLoop, Pc, CPUState, RunningOnOneCPU
<1>8. Sleepers'
  BY DEF TypeOK, Proc, Frame, Cpu, Sleepers, NobodyOversleeps, Pc, InState, Zombies, Children,
     ForkState, State, Forking
<1>9. Charges'
  BY DEF TypeOK, Proc, Cpu, Charges, CPUState, Dispatched, RunningOnOneCPU
<1> QED BY <1>1, <1>2, <1>3, <1>4, <1>5, <1>6, <1>7, <1>8, <1>9

\* A process on its way into exit(), or at the end of a system call.
LEMMA LeaveKeeps ==
    ASSUME TableInv, NEW c \in CPUs, NEW s \in Slots, cpu[c].pc = "proc", cpu[c].proc = s,
           Pc(s) \in {"user", "sysret"}, (frame \in [Slots -> Frame])', Pc(s)' \in {"user", "exit"},
           \A q \in Slots \ {s} : frame'[q] = frame[q],
           UNCHANGED <<ptable, nextpid, cpu, ptlock, tickslock, ticks, panicked, stat>>
    PROVE  TableInv'
<1> USE SlotFacts DEF TableInv
<1>1. TypeOK'
  BY DEF TypeOK
<1>2. CPUState'
  <2>1. ASSUME NEW d \in CPUs, cpu[d].pc = "proc", Pc(cpu[d].proc)' = "wait_scan" PROVE ptlock = d
    <3>1. cpu[d].proc \in Slots
      BY <2>1 DEF CPUState, Dispatched, TypeOK, Cpu
    <3>2. cpu[d].proc # s
      BY <2>1
    <3>3. Pc(cpu[d].proc) = "wait_scan"
      BY <2>1, <3>1, <3>2 DEF Pc
    <3> QED BY <2>1, <3>3 DEF CPUState
  <2> QED BY <2>1 DEF CPUState, Dispatched, Pc
<1>3. RunningOnOneCPU'
  BY DEF RunningOnOneCPU, Executes
<1>4. ForkState'
  BY DEF ForkState, Forking, State, Pc
<1>5. Parents'
  BY DEF Parents, State, Pc, InState, PState
<1>6. Pids'
  BY DEF Pids, InState, PState
<1>7. SleepLoop'
  BY DEF SleepLoop, Pc
<1>8. Sleepers'
  BY DEF Sleepers, NobodyOversleeps, Zombies, Children, InState, Pc
<1>9. Charges'
  BY DEF Charges, CPUState, Dispatched
<1> QED BY <1>1, <1>2, <1>3, <1>4, <1>5, <1>6, <1>7, <1>8, <1>9

\* wait() takes ptable.lock.
LEMMA WaitLockKeeps ==
    ASSUME TableInv, NEW c \in CPUs, NEW s \in Slots, WaitLock(c, s)
    PROVE  TableInv'
<1> USE SlotFacts DEF TableInv, WaitLock, Calling, Runs, Goto, locks
<1>1. TypeOK'
  <2>1. (ptable \in [Slots -> Proc])'
    BY DEF TypeOK, Proc, PState
  <2>2. (frame \in [Slots -> Frame])'
    BY DEF TypeOK, Frame, Pcs
  <2>3. (cpu \in [CPUs -> Cpu])'
    BY DEF TypeOK, Cpu
  <2> QED BY <2>1, <2>2, <2>3 DEF TypeOK
<1>2. CPUState'
  BY DEF TypeOK, Frame, Cpu, CPUState, Pc, Dispatched, RunningOnOneCPU
<1>3. RunningOnOneCPU'
  BY DEF TypeOK, Proc, Cpu, CPUState, RunningOnOneCPU, Executes, Dispatched, ForkState,
     Forking, Pc, State
<1>4. ForkState'
  BY DEF TypeOK, Proc, Frame, Cpu, ForkState, State, Pc, Forking, RunningOnOneCPU, Executes
<1>5. Parents'
  BY DEF TypeOK, Proc, Frame, Cpu, Parents, ForkState, State, Pc, Forking, InState, PState,
     RunningOnOneCPU, Executes
<1>6. Pids'
  BY DEF TypeOK, Proc, Frame, Pids, InState, PState, ForkState, State, Pc, Forking
<1>7. SleepLoop'
  BY DEF TypeOK, Proc, Frame, Cpu, SleepLoop, Pc, CPUState, RunningOnOneCPU
<1>8. Sleepers'
  BY DEF TypeOK, Proc, Frame, Cpu, Sleepers, NobodyOversleeps, Pc, InState, Zombies, Children,
     ForkState, State, Forking
<1>9. Charges'
  BY DEF TypeOK, Proc, Cpu, Charges, CPUState, Dispatched, RunningOnOneCPU
<1> QED BY <1>1, <1>2, <1>3, <1>4, <1>5, <1>6, <1>7, <1>8, <1>9

\* wait() gives up.
LEMMA WaitFailsKeeps ==
    ASSUME TableInv, NEW c \in CPUs, NEW s \in Slots, WaitFails(c, s)
    PROVE  TableInv'
<1> USE SlotFacts DEF TableInv, WaitFails, Runs, Goto, locks
<1>1. TypeOK'
  <2>1. (ptable \in [Slots -> Proc])'
    BY DEF TypeOK, Proc, PState
  <2>2. (frame \in [Slots -> Frame])'
    BY DEF TypeOK, Frame, Pcs
  <2>3. (cpu \in [CPUs -> Cpu])'
    BY DEF TypeOK, Cpu
  <2> QED BY <2>1, <2>2, <2>3 DEF TypeOK
<1>2. CPUState'
  BY DEF TypeOK, Frame, Cpu, CPUState, Pc, Dispatched, RunningOnOneCPU
<1>3. RunningOnOneCPU'
  BY DEF TypeOK, Proc, Cpu, CPUState, RunningOnOneCPU, Executes, Dispatched, ForkState,
     Forking, Pc, State
<1>4. ForkState'
  BY DEF TypeOK, Proc, Frame, Cpu, ForkState, State, Pc, Forking, RunningOnOneCPU, Executes
<1>5. Parents'
  BY DEF TypeOK, Proc, Frame, Cpu, Parents, ForkState, State, Pc, Forking, InState, PState,
     RunningOnOneCPU, Executes
<1>6. Pids'
  BY DEF TypeOK, Proc, Frame, Pids, InState, PState, ForkState, State, Pc, Forking
<1>7. SleepLoop'
  BY DEF TypeOK, Proc, Frame, Cpu, SleepLoop, Pc, CPUState, RunningOnOneCPU
<1>8. Sleepers'
  BY DEF TypeOK, Proc, Frame, Cpu, Sleepers, NobodyOversleeps, Pc, InState, Zombies, Children,
     ForkState, State, Forking
<1>9. Charges'
  BY DEF TypeOK, Proc, Cpu, Charges, CPUState, Dispatched, RunningOnOneCPU
<1> QED BY <1>1, <1>2, <1>3, <1>4, <1>5, <1>6, <1>7, <1>8, <1>9

\* wait() sleeps: no child is a zombie, and the process was not killed.
LEMMA WaitSleepKeeps ==
    ASSUME TableInv, NEW c \in CPUs, NEW s \in Slots, WaitSleep(c, s)
    PROVE  TableInv'
<1> USE SlotFacts DEF TableInv, WaitSleep, Runs, sched, locks
<1>1. TypeOK'
  <2>1. (ptable \in [Slots -> Proc])'
    <3>1. ptable[s] \in Proc
      BY SlotFacts DEF TypeOK
    <3>2. [ptable[s] EXCEPT !.state = "SLEEPING", !.chan = s] \in Proc
      BY <3>1 DEF TypeOK, Proc, PState
    <3> QED BY <3>2 DEF TypeOK
  <2>2. (frame \in [Slots -> Frame])'
    BY DEF TypeOK, Frame, Pcs
  <2>3. (cpu \in [CPUs -> Cpu])'
    <3>1. cpu[c] \in Cpu
      BY SlotFacts DEF TypeOK
    <3>2. [cpu[c] EXCEPT !.pc = "account", !.irq = "no"] \in Cpu
      BY <3>1 DEF TypeOK, Cpu
    <3> QED BY <3>2 DEF TypeOK
  <2> QED BY <2>1, <2>2, <2>3 DEF TypeOK
<1>2. CPUState'
  BY DEF TypeOK, Frame, Cpu, CPUState, Pc, Dispatched, RunningOnOneCPU
<1>3. RunningOnOneCPU'
  BY DEF TypeOK, Proc, Cpu, CPUState, RunningOnOneCPU, Executes, Dispatched, ForkState,
     Forking, Pc, State
<1>4. ForkState'
  BY DEF TypeOK, Proc, Frame, Cpu, ForkState, State, Pc, Forking, RunningOnOneCPU, Executes
<1>5. Parents'
  BY DEF TypeOK, Proc, Frame, Cpu, Parents, ForkState, State, Pc, Forking, InState, PState,
     RunningOnOneCPU, Executes
<1>6. Pids'
  BY DEF TypeOK, Proc, Frame, Pids, InState, PState, ForkState, State, Pc, Forking
<1>7. SleepLoop'
  BY DEF TypeOK, Proc, Frame, Cpu, SleepLoop, Pc, CPUState, RunningOnOneCPU
<1>8. Sleepers'
  BY DEF TypeOK, Proc, Frame, Cpu, Sleepers, NobodyOversleeps, Pc, InState, Zombies, Children,
     ForkState, State, Forking
<1>9. Charges'
  BY DEF TypeOK, Proc, Cpu, Charges, CPUState, Dispatched, RunningOnOneCPU
<1> QED BY <1>1, <1>2, <1>3, <1>4, <1>5, <1>6, <1>7, <1>8, <1>9

\* sys_sleep takes tickslock.
LEMMA SleepStartKeeps ==
    ASSUME TableInv, NEW c \in CPUs, NEW s \in Slots, SleepStart(c, s)
    PROVE  TableInv'
<1> USE SlotFacts DEF TableInv, SleepStart, Calling, Runs, locks
<1>1. TypeOK'
  <2>1. (ptable \in [Slots -> Proc])'
    BY DEF TypeOK, Proc, PState
  <2>2. (frame \in [Slots -> Frame])'
    <3>1. ticks + 1 \in 0 .. MaxTicks + 1
      BY LotteryAssumption DEF TypeOK
    <3>2. frame[s] \in Frame
      BY SlotFacts DEF TypeOK
    <3>3. [frame[s] EXCEPT !.pc = "sleep_check", !.until = ticks + 1] \in Frame
      BY <3>1, <3>2 DEF TypeOK, Frame, Pcs
    <3> QED BY <3>3 DEF TypeOK
  <2>3. (cpu \in [CPUs -> Cpu])'
    BY DEF TypeOK, Cpu
  <2> QED BY <2>1, <2>2, <2>3 DEF TypeOK
<1>2. CPUState'
  BY DEF TypeOK, Frame, Cpu, CPUState, Pc, Dispatched, RunningOnOneCPU
<1>3. RunningOnOneCPU'
  BY DEF TypeOK, Proc, Cpu, CPUState, RunningOnOneCPU, Executes, Dispatched, ForkState,
     Forking, Pc, State
<1>4. ForkState'
  BY DEF TypeOK, Proc, Frame, Cpu, ForkState, State, Pc, Forking, RunningOnOneCPU, Executes
<1>5. Parents'
  BY DEF TypeOK, Proc, Frame, Cpu, Parents, ForkState, State, Pc, Forking, InState, PState,
     RunningOnOneCPU, Executes
<1>6. Pids'
  BY DEF TypeOK, Proc, Frame, Pids, InState, PState, ForkState, State, Pc, Forking
<1>7. SleepLoop'
  BY DEF TypeOK, Proc, Frame, Cpu, SleepLoop, Pc, CPUState, RunningOnOneCPU
<1>8. Sleepers'
  BY DEF TypeOK, Proc, Frame, Cpu, Sleepers, NobodyOversleeps, Pc, InState, Zombies, Children,
     ForkState, State, Forking
<1>9. Charges'
  BY DEF TypeOK, Proc, Cpu, Charges, CPUState, Dispatched, RunningOnOneCPU
<1> QED BY <1>1, <1>2, <1>3, <1>4, <1>5, <1>6, <1>7, <1>8, <1>9

\* sys_sleep takes tickslock again.
LEMMA SleepAgainKeeps ==
    ASSUME TableInv, NEW c \in CPUs, NEW s \in Slots, SleepAgain(c, s)
    PROVE  TableInv'
<1> USE SlotFacts DEF TableInv, SleepAgain, Runs, Goto, locks
<1>1. TypeOK'
  <2>1. (ptable \in [Slots -> Proc])'
    BY DEF TypeOK, Proc, PState
  <2>2. (frame \in [Slots -> Frame])'
    BY DEF TypeOK, Frame, Pcs
  <2>3. (cpu \in [CPUs -> Cpu])'
    BY DEF TypeOK, Cpu
  <2> QED BY <2>1, <2>2, <2>3 DEF TypeOK
<1>2. CPUState'
  BY DEF TypeOK, Frame, Cpu, CPUState, Pc, Dispatched, RunningOnOneCPU
<1>3. RunningOnOneCPU'
  BY DEF TypeOK, Proc, Cpu, CPUState, RunningOnOneCPU, Executes, Dispatched, ForkState,
     Forking, Pc, State
<1>4. ForkState'
  BY DEF TypeOK, Proc, Frame, Cpu, ForkState, State, Pc, Forking, RunningOnOneCPU, Executes
<1>5. Parents'
  BY DEF TypeOK, Proc, Frame, Cpu, Parents, ForkState, State, Pc, Forking, InState, PState,
     RunningOnOneCPU, Executes
<1>6. Pids'
  BY DEF TypeOK, Proc, Frame, Pids, InState, PState, ForkState, State, Pc, Forking
<1>7. SleepLoop'
  BY DEF TypeOK, Proc, Frame, Cpu, SleepLoop, Pc, CPUState, RunningOnOneCPU
<1>8. Sleepers'
  BY DEF TypeOK, Proc, Frame, Cpu, Sleepers, NobodyOversleeps, Pc, InState, Zombies, Children,
     ForkState, State, Forking
<1>9. Charges'
  BY DEF TypeOK, Proc, Cpu, Charges, CPUState, Dispatched, RunningOnOneCPU
<1> QED BY <1>1, <1>2, <1>3, <1>4, <1>5, <1>6, <1>7, <1>8, <1>9

\* The loop of sys_sleep ends.
LEMMA SleepEndsKeeps ==
    ASSUME TableInv, NEW c \in CPUs, NEW s \in Slots, Runs(c, s, "sleep_check"),
           Goto(s, "sysret"), tickslock' = Free,
           UNCHANGED <<ptable, nextpid, cpu, ptlock, ticks, panicked, stat>>
    PROVE  TableInv'
<1> USE SlotFacts DEF TableInv, Runs, Goto
<1>1. TypeOK'
  <2>1. (ptable \in [Slots -> Proc])'
    BY DEF TypeOK, Proc, PState
  <2>2. (frame \in [Slots -> Frame])'
    BY DEF TypeOK, Frame, Pcs
  <2>3. (cpu \in [CPUs -> Cpu])'
    BY DEF TypeOK, Cpu
  <2> QED BY <2>1, <2>2, <2>3 DEF TypeOK
<1>2. CPUState'
  BY DEF TypeOK, Frame, Cpu, CPUState, Pc, Dispatched, RunningOnOneCPU, SleepLoop
<1>3. RunningOnOneCPU'
  BY DEF TypeOK, Proc, Cpu, CPUState, RunningOnOneCPU, Executes, Dispatched, ForkState,
     Forking, Pc, State
<1>4. ForkState'
  BY DEF TypeOK, Proc, Frame, Cpu, ForkState, State, Pc, Forking, RunningOnOneCPU, Executes
<1>5. Parents'
  BY DEF TypeOK, Proc, Frame, Cpu, Parents, ForkState, State, Pc, Forking, InState, PState,
     RunningOnOneCPU, Executes
<1>6. Pids'
  BY DEF TypeOK, Proc, Frame, Pids, InState, PState, ForkState, State, Pc, Forking
<1>7. SleepLoop'
  BY DEF TypeOK, Proc, Frame, Cpu, SleepLoop, Pc, CPUState, RunningOnOneCPU
<1>8. Sleepers'
  BY DEF TypeOK, Proc, Frame, Cpu, Sleepers, NobodyOversleeps, Pc, InState, Zombies, Children,
     ForkState, State, Forking
<1>9. Charges'
  BY DEF TypeOK, Proc, Cpu, Charges, CPUState, Dispatched, RunningOnOneCPU
<1> QED BY <1>1, <1>2, <1>3, <1>4, <1>5, <1>6, <1>7, <1>8, <1>9

\* The loop of sys_sleep goes on to sleep.
LEMMA SleepOnKeeps ==
    ASSUME TableInv, NEW c \in CPUs, NEW s \in Slots, Runs(c, s, "sleep_check"),
           ~ptable[s].killed, Goto(s, "sleep"),
           UNCHANGED <<ptable, nextpid, cpu, ptlock, tickslock, ticks, panicked, stat>>
    PROVE  TableInv'
<1> USE SlotFacts DEF TableInv, Runs, Goto
<1>1. TypeOK'
  <2>1. (ptable \in [Slots -> Proc])'
    BY DEF TypeOK, Proc, PState
  <2>2. (frame \in [Slots -> Frame])'
    BY DEF TypeOK, Frame, Pcs
  <2>3. (cpu \in [CPUs -> Cpu])'
    BY DEF TypeOK, Cpu
  <2> QED BY <2>1, <2>2, <2>3 DEF TypeOK
<1>2. CPUState'
  BY DEF TypeOK, Frame, Cpu, CPUState, Pc, Dispatched, RunningOnOneCPU
<1>3. RunningOnOneCPU'
  BY DEF TypeOK, Proc, Cpu, CPUState, RunningOnOneCPU, Executes, Dispatched, ForkState,
     Forking, Pc, State
<1>4. ForkState'
  BY DEF TypeOK, Proc, Frame, Cpu, ForkState, State, Pc, Forking, RunningOnOneCPU, Executes
<1>5. Parents'
  BY DEF TypeOK, Proc, Frame, Cpu, Parents, ForkState, State, Pc, Forking, InState, PState,
     RunningOnOneCPU, Executes
<1>6. Pids'
  BY DEF TypeOK, Proc, Frame, Pids, InState, PState, ForkState, State, Pc, Forking
<1>7. SleepLoop'
  BY DEF TypeOK, Proc, Frame, Cpu, SleepLoop, Pc, CPUState, RunningOnOneCPU
<1>8. Sleepers'
  BY DEF TypeOK, Proc, Frame, Cpu, Sleepers, NobodyOversleeps, Pc, InState, Zombies, Children,
     ForkState, State, Forking
<1>9. Charges'
  BY DEF TypeOK, Proc, Cpu, Charges, CPUState, Dispatched, RunningOnOneCPU
<1> QED BY <1>1, <1>2, <1>3, <1>4, <1>5, <1>6, <1>7, <1>8, <1>9

\* sleep() on the ticks.
LEMMA SleepKeeps ==
    ASSUME TableInv, NEW c \in CPUs, NEW s \in Slots, Sleep(c, s)
    PROVE  TableInv'
<1> USE SlotFacts DEF TableInv, Sleep, Runs, Goto, sched, locks
<1>1. TypeOK'
  <2>1. (ptable \in [Slots -> Proc])'
    <3>1. ptable[s] \in Proc
      BY SlotFacts DEF TypeOK
    <3>2. [ptable[s] EXCEPT !.state = "SLEEPING", !.chan = TicksChan] \in Proc
      BY <3>1 DEF TypeOK, Proc, PState
    <3> QED BY <3>2 DEF TypeOK
  <2>2. (frame \in [Slots -> Frame])'
    BY DEF TypeOK, Frame, Pcs
  <2>3. (cpu \in [CPUs -> Cpu])'
    <3>1. cpu[c] \in Cpu
      BY SlotFacts DEF TypeOK
    <3>2. [cpu[c] EXCEPT !.pc = "account", !.irq = "no"] \in Cpu
      BY <3>1 DEF TypeOK, Cpu
    <3> QED BY <3>2 DEF TypeOK
  <2> QED BY <2>1, <2>2, <2>3 DEF TypeOK
<1>2. CPUState'
  BY DEF TypeOK, Frame, Cpu, CPUState, Pc, Dispatched, RunningOnOneCPU, SleepLoop
<1>3. RunningOnOneCPU'
  BY DEF TypeOK, Proc, Cpu, CPUState, RunningOnOneCPU, Executes, Dispatched, ForkState,
     Forking, Pc, State
<1>4. ForkState'
  BY DEF TypeOK, Proc, Frame, Cpu, ForkState, State, Pc, Forking, RunningOnOneCPU, Executes
<1>5. Parents'
  BY DEF TypeOK, Proc, Frame, Cpu, Parents, ForkState, State, Pc, Forking, InState, PState,
     RunningOnOneCPU, Executes
<1>6. Pids'
  BY DEF TypeOK, Proc, Frame, Pids, InState, PState, ForkState, State, Pc, Forking
<1>7. SleepLoop'
  BY DEF TypeOK, Proc, Frame, Cpu, SleepLoop, Pc, CPUState, RunningOnOneCPU
<1>8. Sleepers'
  BY DEF TypeOK, Proc, Frame, Cpu, Sleepers, NobodyOversleeps, Pc, InState, Zombies, Children,
     ForkState, State, Forking
<1>9. Charges'
  BY DEF TypeOK, Proc, Cpu, Charges, CPUState, Dispatched, RunningOnOneCPU
<1> QED BY <1>1, <1>2, <1>3, <1>4, <1>5, <1>6, <1>7, <1>8, <1>9

\* kill has found its victim.
LEMMA DoomKeeps ==
    ASSUME TableInv, NEW c \in CPUs, NEW s \in Slots, Runs(c, s, "user"), NEW n \in Slots,
           ptable' = [ptable EXCEPT ![n] =
                        [@ EXCEPT !.killed = TRUE,
                                  !.state = IF ptable[n].state = "SLEEPING" THEN "RUNNABLE"
                                            ELSE ptable[n].state]],
           Goto(s, "sysret"),
           UNCHANGED <<nextpid, cpu, ptlock, tickslock, ticks, panicked, stat>>
    PROVE  TableInv'
<1> USE SlotFacts DEF TableInv, Runs, Goto
<1>1. TypeOK'
  <2>1. (ptable \in [Slots -> Proc])'
    <3>1. ptable[n] \in Proc
      BY SlotFacts DEF TypeOK
    <3>2. [ptable[n] EXCEPT !.killed = TRUE, !.state = IF ptable[n].state = "SLEEPING" THEN "RUNNABLE" ELSE ptable[n].state] \in Proc
      BY <3>1 DEF TypeOK, Proc, PState
    <3> QED BY <3>2 DEF TypeOK
  <2>2. (frame \in [Slots -> Frame])'
    BY DEF TypeOK, Frame, Pcs
  <2>3. (cpu \in [CPUs -> Cpu])'
    BY DEF TypeOK, Cpu
  <2> QED BY <2>1, <2>2, <2>3 DEF TypeOK
<1>2. CPUState'
  BY DEF TypeOK, Frame, Cpu, CPUState, Pc, Dispatched, RunningOnOneCPU
<1>3. RunningOnOneCPU'
  BY DEF TypeOK, Proc, Cpu, CPUState, RunningOnOneCPU, Executes, Dispatched, ForkState,
     Forking, Pc, State
<1>4. ForkState'
  BY DEF TypeOK, Proc, Frame, Cpu, ForkState, State, Pc, Forking, RunningOnOneCPU, Executes
<1>5. Parents'
  BY DEF TypeOK, Proc, Frame, Cpu, Parents, ForkState, State, Pc, Forking, InState, PState,
     RunningOnOneCPU, Executes
<1>6. Pids'
  BY DEF TypeOK, Proc, Frame, Pids, InState, PState, ForkState, State, Pc, Forking
<1>7. SleepLoop'
  BY DEF TypeOK, Proc, Frame, Cpu, SleepLoop, Pc, CPUState, RunningOnOneCPU
<1>8. Sleepers'
  BY DEF TypeOK, Proc, Frame, Cpu, Sleepers, NobodyOversleeps, Pc, InState, Zombies, Children,
     ForkState, State, Forking, SleepLoop
<1>9. Charges'
  BY DEF TypeOK, Proc, Cpu, Charges, CPUState, Dispatched, RunningOnOneCPU
<1> QED BY <1>1, <1>2, <1>3, <1>4, <1>5, <1>6, <1>7, <1>8, <1>9

\* settickets has found its process.
LEMMA AssignKeeps ==
    ASSUME TableInv, NEW c \in CPUs, NEW s \in Slots, Runs(c, s, "user"), NEW n \in Slots,
           NEW t \in Nat, ptable' = [ptable EXCEPT ![n].tickets = t], Goto(s, "sysret"),
           UNCHANGED <<nextpid, cpu, ptlock, tickslock, ticks, panicked, stat>>
    PROVE  TableInv'
<1> USE SlotFacts DEF TableInv, Runs, Goto
<1>1. TypeOK'
  <2>1. (ptable \in [Slots -> Proc])'
    BY DEF TypeOK, Proc, PState
  <2>2. (frame \in [Slots -> Frame])'
    BY DEF TypeOK, Frame, Pcs
  <2>3. (cpu \in [CPUs -> Cpu])'
    BY DEF TypeOK, Cpu
  <2> QED BY <2>1, <2>2, <2>3 DEF TypeOK
<1>2. CPUState'
  BY DEF TypeOK, Frame, Cpu, CPUState, Pc, Dispatched, RunningOnOneCPU
<1>3. RunningOnOneCPU'
  BY DEF TypeOK, Proc, Cpu, CPUState, RunningOnOneCPU, Executes, Dispatched, ForkState,
     Forking, Pc, State
<1>4. ForkState'
  BY DEF TypeOK, Proc, Frame, Cpu, ForkState, State, Pc, Forking, RunningOnOneCPU, Executes
<1>5. Parents'
  BY DEF TypeOK, Proc, Frame, Cpu, Parents, ForkState, State, Pc, Forking, InState, PState,
     RunningOnOneCPU, Executes
<1>6. Pids'
  BY DEF TypeOK, Proc, Frame, Pids, InState, PState, ForkState, State, Pc, Forking
<1>7. SleepLoop'
  BY DEF TypeOK, Proc, Frame, Cpu, SleepLoop, Pc, CPUState, RunningOnOneCPU
<1>8. Sleepers'
  BY DEF TypeOK, Proc, Frame, Cpu, Sleepers, NobodyOversleeps, Pc, InState, Zombies, Children,
     ForkState, State, Forking
<1>9. Charges'
  BY DEF TypeOK, Proc, Cpu, Charges, CPUState, Dispatched, RunningOnOneCPU
<1> QED BY <1>1, <1>2, <1>3, <1>4, <1>5, <1>6, <1>7, <1>8, <1>9

\* wait() frees the zombie n.
LEMMA ReapKeeps ==
    ASSUME TableInv, NEW c \in CPUs, NEW s \in Slots, Runs(c, s, "wait_scan"),
           NEW n \in Slots, ptable[n].state = "ZOMBIE",
           ptable' = [ptable EXCEPT ![n] = [@ EXCEPT !.pid = 0, !.parent = Nobody,
                                                     !.killed = FALSE, !.state = "UNUSED"]],
           ptlock' = Free, Goto(s, "sysret"),
           UNCHANGED <<nextpid, cpu, tickslock, ticks, panicked, stat>>
    PROVE  TableInv'
<1> USE SlotFacts DEF TableInv, Runs, Goto
<1>1. TypeOK'
  <2>1. (ptable \in [Slots -> Proc])'
    <3>1. 0 \in 0 .. MaxPid
      BY LotteryAssumption
    <3>2. ptable[n] \in Proc
      BY SlotFacts DEF TypeOK
    <3>3. [ptable[n] EXCEPT !.pid = 0, !.parent = Nobody, !.killed = FALSE, !.state = "UNUSED"] \in Proc
      BY <3>1, <3>2 DEF TypeOK, Proc, PState
    <3> QED BY <3>3 DEF TypeOK
  <2>2. (frame \in [Slots -> Frame])'
    BY DEF TypeOK, Frame, Pcs
  <2>3. (cpu \in [CPUs -> Cpu])'
    BY DEF TypeOK, Cpu
  <2> QED BY <2>1, <2>2, <2>3 DEF TypeOK
<1>2. CPUState'
  BY DEF TypeOK, Frame, Cpu, CPUState, Pc, Dispatched, RunningOnOneCPU
<1>3. RunningOnOneCPU'
  BY DEF TypeOK, Proc, Cpu, CPUState, RunningOnOneCPU, Executes, Dispatched, ForkState,
     Forking, Pc, State
<1>4. ForkState'
  BY DEF TypeOK, Proc, Frame, Cpu, ForkState, State, Pc, Forking, RunningOnOneCPU, Executes
<1>5. Parents'
  BY DEF TypeOK, Proc, Frame, Cpu, Parents, ForkState, State, Pc, Forking, InState, PState,
     RunningOnOneCPU, Executes
<1>6. Pids'
  BY DEF TypeOK, Proc, Frame, Pids, InState, PState, ForkState, State, Pc, Forking
<1>7. SleepLoop'
  BY DEF TypeOK, Proc, Frame, Cpu, SleepLoop, Pc, CPUState, RunningOnOneCPU
<1>8. Sleepers'
  BY DEF TypeOK, Proc, Frame, Cpu, Sleepers, NobodyOversleeps, Pc, InState, Zombies, Children,
     ForkState, State, Forking
<1>9. Charges'
  BY DEF TypeOK, Proc, Cpu, Charges, CPUState, Dispatched, RunningOnOneCPU
<1> QED BY <1>1, <1>2, <1>3, <1>4, <1>5, <1>6, <1>7, <1>8, <1>9

\* A tick is counted.
LEMMA TimerTickKeeps ==
    ASSUME TableInv, NEW c \in CPUs, TimerTick(c)
    PROVE  TableInv'
<1> USE SlotFacts DEF TableInv, TimerTick, Interruptible, locks
<1>1. TypeOK'
  <2>1. (ptable \in [Slots -> Proc])'
    BY DEF TypeOK, Proc, PState
  <2>2. (frame \in [Slots -> Frame])'
    BY DEF TypeOK, Frame, Pcs
  <2>3. (cpu \in [CPUs -> Cpu])'
    BY SMTT(60) DEF TypeOK, Cpu
  <2> QED BY <2>1, <2>2, <2>3, LotteryAssumption DEF TypeOK
<1>2. CPUState'
  BY DEF TypeOK, Frame, Cpu, CPUState, Pc, Dispatched, RunningOnOneCPU
<1>3. RunningOnOneCPU'
  BY DEF TypeOK, Proc, Cpu, CPUState, RunningOnOneCPU, Executes, Dispatched, ForkState,
     Forking, Pc, State
<1>4. ForkState'
  BY DEF TypeOK, Proc, Frame, Cpu, ForkState, State, Pc, Forking, RunningOnOneCPU, Executes
<1>5. Parents'
  BY DEF TypeOK, Proc, Frame, Cpu, Parents, ForkState, State, Pc, Forking, InState, PState,
     RunningOnOneCPU, Executes
<1>6. Pids'
  BY DEF TypeOK, Proc, Frame, Pids, InState, PState, ForkState, State, Pc, Forking
<1>7. SleepLoop'
  BY DEF TypeOK, Proc, Frame, Cpu, SleepLoop, Pc, CPUState, RunningOnOneCPU
<1>8. Sleepers'
  BY DEF TypeOK, Proc, Frame, Cpu, Sleepers, NobodyOversleeps, Pc, InState, Zombies, Children,
     ForkState, State, Forking
<1>9. Charges'
  BY DEF TypeOK, Proc, Cpu, Charges, CPUState, Dispatched, RunningOnOneCPU
<1> QED BY <1>1, <1>2, <1>3, <1>4, <1>5, <1>6, <1>7, <1>8, <1>9

\* A tick on another CPU.
LEMMA TimerElsewhereKeeps ==
    ASSUME TableInv, NEW c \in CPUs, TimerElsewhere(c)
    PROVE  TableInv'
<1> USE SlotFacts DEF TableInv, TimerElsewhere, Interruptible, locks
<1>1. TypeOK'
  <2>1. (ptable \in [Slots -> Proc])'
    BY DEF TypeOK, Proc, PState
  <2>2. (frame \in [Slots -> Frame])'
    BY DEF TypeOK, Frame, Pcs
  <2>3. (cpu \in [CPUs -> Cpu])'
    BY DEF TypeOK, Cpu
  <2> QED BY <2>1, <2>2, <2>3 DEF TypeOK
<1>2. CPUState'
  BY DEF TypeOK, Frame, Cpu, CPUState, Pc, Dispatched, RunningOnOneCPU
<1>3. RunningOnOneCPU'
  BY DEF TypeOK, Proc, Cpu, CPUState, RunningOnOneCPU, Executes, Dispatched, ForkState,
     Forking, Pc, State
<1>4. ForkState'
  BY DEF TypeOK, Proc, Frame, Cpu, ForkState, State, Pc, Forking, RunningOnOneCPU, Executes
<1>5. Parents'
  BY DEF TypeOK, Proc, Frame, Cpu, Parents, ForkState, State, Pc, Forking, InState, PState,
     RunningOnOneCPU, Executes
<1>6. Pids'
  BY DEF TypeOK, Proc, Frame, Pids, InState, PState, ForkState, State, Pc, Forking
<1>7. SleepLoop'
  BY DEF TypeOK, Proc, Frame, Cpu, SleepLoop, Pc, CPUState, RunningOnOneCPU
<1>8. Sleepers'
  BY DEF TypeOK, Proc, Frame, Cpu, Sleepers, NobodyOversleeps, Pc, InState, Zombies, Children,
     ForkState, State, Forking
<1>9. Charges'
  BY DEF TypeOK, Proc, Cpu, Charges, CPUState, Dispatched, RunningOnOneCPU
<1> QED BY <1>1, <1>2, <1>3, <1>4, <1>5, <1>6, <1>7, <1>8, <1>9

\* The timer wakes the sleepers.
LEMMA TimerWakeKeeps ==
    ASSUME TableInv, NEW c \in CPUs, TimerWake(c)
    PROVE  TableInv'
<1> USE SlotFacts DEF TableInv, TimerWake, wakeup1, locks
<1>1. TypeOK'
  <2>1. (ptable \in [Slots -> Proc])'
    BY DEF TypeOK, Proc, PState
  <2>2. (frame \in [Slots -> Frame])'
    BY DEF TypeOK, Frame, Pcs
  <2>3. (cpu \in [CPUs -> Cpu])'
    BY DEF TypeOK, Cpu
  <2> QED BY <2>1, <2>2, <2>3 DEF TypeOK
<1>2. CPUState'
  BY DEF TypeOK, Frame, Cpu, CPUState, Pc, Dispatched, RunningOnOneCPU
<1>3. RunningOnOneCPU'
  BY DEF TypeOK, Proc, Cpu, CPUState, RunningOnOneCPU, Executes, Dispatched, ForkState,
     Forking, Pc, State
<1>4. ForkState'
  BY DEF TypeOK, Proc, Frame, Cpu, ForkState, State, Pc, Forking, RunningOnOneCPU, Executes
<1>5. Parents'
  BY DEF TypeOK, Proc, Frame, Cpu, Parents, ForkState, State, Pc, Forking, InState, PState,
     RunningOnOneCPU, Executes
<1>6. Pids'
  BY DEF TypeOK, Proc, Frame, Pids, InState, PState, ForkState, State, Pc, Forking
<1>7. SleepLoop'
  BY DEF TypeOK, Proc, Frame, Cpu, SleepLoop, Pc, CPUState, RunningOnOneCPU
<1>8. Sleepers'
  BY DEF TypeOK, Proc, Frame, Cpu, Sleepers, NobodyOversleeps, Pc, InState, Zombies, Children,
     ForkState, State, Forking
<1>9. Charges'
  BY DEF TypeOK, Proc, Cpu, Charges, CPUState, Dispatched, RunningOnOneCPU
<1> QED BY <1>1, <1>2, <1>3, <1>4, <1>5, <1>6, <1>7, <1>8, <1>9

\* The timer ends a killed process.
LEMMA TimerExitKeeps ==
    ASSUME TableInv, NEW c \in CPUs, TimerExit(c)
    PROVE  TableInv'
<1> USE SlotFacts DEF TableInv, TimerExit, Goto, locks
<1>1. TypeOK'
  <2>1. (ptable \in [Slots -> Proc])'
    BY DEF TypeOK, Proc, PState
  <2>2. (frame \in [Slots -> Frame])'
    BY DEF TypeOK, Frame, Pcs, CPUState, Dispatched, Cpu
  <2>3. (cpu \in [CPUs -> Cpu])'
    BY DEF TypeOK, Cpu
  <2> QED BY <2>1, <2>2, <2>3 DEF TypeOK
<1>2. CPUState'
  BY DEF TypeOK, Frame, Cpu, CPUState, Pc, Dispatched, RunningOnOneCPU
<1>3. RunningOnOneCPU'
  BY DEF TypeOK, Proc, Cpu, CPUState, RunningOnOneCPU, Executes, Dispatched, ForkState,
     Forking, Pc, State
<1>4. ForkState'
  BY DEF TypeOK, Proc, Frame, Cpu, ForkState, State, Pc, Forking, RunningOnOneCPU, Executes
<1>5. Parents'
  BY DEF TypeOK, Proc, Frame, Cpu, Parents, ForkState, State, Pc, Forking, InState, PState,
     RunningOnOneCPU, Executes
<1>6. Pids'
  BY DEF TypeOK, Proc, Frame, Pids, InState, PState, ForkState, State, Pc, Forking
<1>7. SleepLoop'
  BY DEF TypeOK, Proc, Frame, Cpu, SleepLoop, Pc, CPUState, RunningOnOneCPU
<1>8. Sleepers'
  BY DEF TypeOK, Proc, Frame, Cpu, Sleepers, NobodyOversleeps, Pc, InState, Zombies, Children,
     ForkState, State, Forking
<1>9. Charges'
  BY DEF TypeOK, Proc, Cpu, Charges, CPUState, Dispatched, RunningOnOneCPU
<1> QED BY <1>1, <1>2, <1>3, <1>4, <1>5, <1>6, <1>7, <1>8, <1>9

\* The timer takes the CPU from its process s.
LEMMA PreemptKeeps ==
    ASSUME TableInv, NEW c \in CPUs, NEW s \in Slots, cpu[c].pc = "proc", cpu[c].irq = "yield",
           cpu[c].proc = s, ptlock = Free, ptable' = [ptable EXCEPT ![s].state = "RUNNABLE"],
           sched(c), UNCHANGED <<nextpid, frame, tickslock, ticks, panicked, stat>>
    PROVE  TableInv'
<1> USE SlotFacts DEF TableInv
<1>t. \A q \in Slots : SameBut(q, IF q = s THEN "RUNNABLE" ELSE ptable[q].state)
  BY StateUpdate, Zenon
<1>u. cpu' \in [CPUs -> Cpu] /\ \A d \in CPUs : Scheds(c, d)
  BY SchedUpdate
<1>v. ptable[s].state = "RUNNING"
  BY DEF RunningOnOneCPU, Executes
<1>w. ptlock' = c
  BY DEF sched
<1> USE <1>t, <1>u, <1>v, <1>w DEF SameBut, Scheds
<1>1. TypeOK'
  <2>1. (ptable \in [Slots -> Proc])'
    <3>1. ptable[s] \in Proc
      BY SlotFacts DEF TypeOK
    <3>2. [ptable[s] EXCEPT !.state = "RUNNABLE"] \in Proc
      BY <3>1 DEF TypeOK, Proc, PState
    <3> QED BY <3>2 DEF TypeOK
  <2>2. (frame \in [Slots -> Frame])'
    BY DEF TypeOK, Frame, Pcs
  <2>3. (cpu \in [CPUs -> Cpu])'
    OBVIOUS
  <2> QED BY <2>1, <2>2, <2>3 DEF TypeOK
<1>2. CPUState'
  BY DEF CPUState, Dispatched, Pc
<1>3. RunningOnOneCPU'
  BY DEF RunningOnOneCPU, Executes, CPUState, Dispatched
<1>4. ForkState'
  BY DEF ForkState, Forking, State, Pc
<1>5. Parents'
  BY DEF Parents, State, Pc, InState, PState
<1>6. Pids'
  BY DEF Pids, InState, PState
<1>7. SleepLoop'
  BY DEF SleepLoop, Pc
<1>8. Sleepers'
  BY DEF Sleepers, NobodyOversleeps, Zombies, Children, InState, Pc
<1>9. Charges'
  BY DEF Charges, CPUState, Dispatched
<1> QED BY <1>1, <1>2, <1>3, <1>4, <1>5, <1>6, <1>7, <1>8, <1>9

\* wakeup1 changes nothing but the state of those that sleep on the channel.
Alike(p, q) ==
    /\ p.pid = q.pid /\ p.chan = q.chan /\ p.killed = q.killed
    /\ p.ticks = q.ticks /\ p.init_ticks = q.init_ticks /\ p.tickets = q.tickets
Wakes(p, chan) == IF p.state = "SLEEPING" /\ p.chan = chan THEN "RUNNABLE" ELSE p.state
\* wakeup1 makes the sleepers on its channel runnable and touches nothing else.
LEMMA WakeupUpdate ==
    ASSUME NEW tab \in [Slots -> Proc], NEW chan, NEW new, new = wakeup1(tab, chan)
    PROVE  /\ new \in [Slots -> Proc]
           /\ \A q \in Slots : /\ Alike(new[q], tab[q]) /\ new[q].parent = tab[q].parent
                               /\ new[q].state = Wakes(tab[q], chan)
<1>1. ASSUME NEW q \in Slots
      PROVE  /\ new[q] \in Proc
             /\ Alike(new[q], tab[q]) /\ new[q].parent = tab[q].parent
             /\ new[q].state = Wakes(tab[q], chan)
  <2>1. CASE tab[q].state = "SLEEPING" /\ tab[q].chan = chan
    <3>1. new[q] = [tab[q] EXCEPT !.state = "RUNNABLE"]
      BY <2>1 DEF wakeup1
    <3> QED BY <2>1, <3>1 DEF Proc, PState, Alike, Wakes
  <2>2. CASE ~(tab[q].state = "SLEEPING" /\ tab[q].chan = chan)
    <3>1. new[q] = tab[q]
      BY <2>2 DEF wakeup1
    <3> QED BY <2>2, <3>1 DEF Alike, Wakes
  <2> QED BY <2>1, <2>2
<1>2. new = [q \in Slots |-> new[q]]
  BY DEF wakeup1
<1> QED BY <1>1, <1>2

\* What exit() does to the table: the children go to init, the parent is
\* woken, and so is init if it inherits a zombie.
Bequeaths(s, q) ==
    /\ Alike(ptable'[q], ptable[q])
    /\ ptable'[q].parent = IF ptable[q].parent = s THEN initproc ELSE ptable[q].parent
    /\ q = s => ptable'[q].state = "ZOMBIE"
    /\ q # s => ptable'[q].state \in {ptable[q].state, "RUNNABLE"}
    /\ q # s /\ ptable'[q].state # ptable[q].state => ptable[q].state = "SLEEPING"
    /\ q # s /\ ptable'[q].state = "SLEEPING" =>
          ptable[q].chan # ptable[s].parent /\ (ptable[q].chan = initproc => Zombies(s) = {})
\* What exit() does to the table.
LEMMA ExitTable ==
    ASSUME TypeOK, NEW c \in CPUs, NEW s \in Slots, Exit(c, s)
    PROVE  ptable' \in [Slots -> Proc] /\ \A q \in Slots : Bequeaths(s, q)
<1> DEFINE woken   == wakeup1(ptable, ptable[s].parent)
           adopted == [q \in Slots |-> IF q \in Children(s)
                                       THEN [woken[q] EXCEPT !.parent = initproc]
                                       ELSE woken[q]]
           told    == IF Zombies(s) # {} THEN wakeup1(adopted, initproc) ELSE adopted
<1>1. ptable' = [told EXCEPT ![s].state = "ZOMBIE"]
  BY DEF Exit, Zombies
<1>2. woken = wakeup1(ptable, ptable[s].parent) /\ ptable \in [Slots -> Proc]
  BY DEF TypeOK
<1> HIDE DEF woken
<1>w. /\ woken \in [Slots -> Proc]
      /\ \A q \in Slots : /\ Alike(woken[q], ptable[q]) /\ woken[q].parent = ptable[q].parent
                          /\ woken[q].state = Wakes(ptable[q], ptable[s].parent)
  BY <1>2, WakeupUpdate
<1>3. ASSUME NEW q \in Slots
      PROVE  /\ adopted[q] \in Proc /\ Alike(adopted[q], woken[q]) /\ adopted[q].state = woken[q].state
             /\ adopted[q].parent = IF ptable[q].parent = s THEN initproc ELSE ptable[q].parent
  <2>1. CASE ptable[q].parent = s
    <3>1. adopted[q] = [woken[q] EXCEPT !.parent = initproc]
      BY <2>1 DEF Children
    <3>2. woken[q] \in Proc
      BY <1>w
    <3> QED BY <2>1, <3>1, <3>2, SlotFacts DEF Proc, Alike
  <2>2. CASE ptable[q].parent # s
    <3>1. adopted[q] = woken[q]
      BY <2>2 DEF Children
    <3> QED BY <2>2, <3>1, <1>w DEF Alike
  <2> QED BY <2>1, <2>2
<1>4. adopted \in [Slots -> Proc]
  BY <1>3
<1> HIDE DEF adopted
<1>5. told \in [Slots -> Proc]
      /\ \A q \in Slots : /\ Alike(told[q], adopted[q]) /\ told[q].parent = adopted[q].parent
                          /\ told[q].state = IF Zombies(s) # {} THEN Wakes(adopted[q], initproc)
                                             ELSE adopted[q].state
  <2>1. CASE Zombies(s) # {}
    <3>1. told = wakeup1(adopted, initproc)
      BY <2>1
    <3> HIDE DEF told
    <3> QED BY <2>1, <3>1, <1>4, WakeupUpdate
  <2>2. CASE Zombies(s) = {}
    <3>1. told = adopted
      BY <2>2
    <3> HIDE DEF told
    <3> QED BY <2>2, <3>1, <1>4 DEF Alike
  <2> QED BY <2>1, <2>2
<1> HIDE DEF told
<1>6. ASSUME NEW q \in Slots
      PROVE  /\ ptable'[q] \in Proc /\ Alike(ptable'[q], told[q]) /\ ptable'[q].parent = told[q].parent
             /\ ptable'[q].state = IF q = s THEN "ZOMBIE" ELSE told[q].state
  <2>1. told[q] \in Proc
    BY <1>5
  <2>2. CASE q = s
    <3>1. ptable'[q] = [told[q] EXCEPT !.state = "ZOMBIE"]
      BY <2>2, <1>1, <1>5
    <3> QED BY <2>1, <2>2, <3>1 DEF Proc, PState, Alike
  <2>3. CASE q # s
    <3>1. ptable'[q] = told[q]
      BY <2>3, <1>1, <1>5
    <3> QED BY <2>1, <2>3, <3>1 DEF Alike
  <2> QED BY <2>2, <2>3
<1>7. ptable' \in [Slots -> Proc]
  BY <1>1, <1>5, <1>6
<1>8. ASSUME NEW q \in Slots PROVE Bequeaths(s, q)
  BY <1>w, <1>3, <1>5, <1>6 DEF Bequeaths, Alike, Wakes
<1> QED BY <1>7, <1>8

\* exit() leaves no child without a parent and no parent asleep beside a zombie.
LEMMA ExitKeeps ==
    ASSUME TableInv, NEW c \in CPUs, NEW s \in Slots, Exit(c, s)
    PROVE  TableInv'
<1>r. /\ cpu[c].pc = "proc" /\ cpu[c].proc = s /\ Pc(s) = "exit" /\ s # initproc /\ ptlock = Free
      /\ ptable[s].state = "RUNNING" /\ cpu[c].irq = "no"
      /\ UNCHANGED <<nextpid, frame, tickslock, ticks, panicked, stat>>
  BY DEF Exit, Runs, Pc, TableInv, RunningOnOneCPU, Executes
<1>t. ptable' \in [Slots -> Proc] /\ \A q \in Slots : Bequeaths(s, q)
  BY ExitTable DEF TableInv
<1>u. cpu' \in [CPUs -> Cpu] /\ ptlock' = c /\ \A d \in CPUs : Scheds(c, d)
  BY SchedUpdate DEF Exit, TableInv
<1> USE <1>r, <1>t, <1>u, SlotFacts DEF TableInv
<1>1. TypeOK'
  BY DEF TypeOK
<1>2. CPUState'
  BY DEF CPUState, Dispatched, Pc, Scheds
<1>3. RunningOnOneCPU'
  BY DEF RunningOnOneCPU, Executes, CPUState, Dispatched, Scheds, Bequeaths
<1>4. ForkState'
  BY DEF ForkState, Forking, State, Pc, Bequeaths
<1>5. Parents'
  BY DEF Parents, State, Pc, InState, PState, Bequeaths, ForkState, Forking
<1>6. Pids'
  BY DEF Pids, InState, PState, Bequeaths, Alike
<1>7. SleepLoop'
  BY DEF SleepLoop, Pc, Scheds
<1>8. Sleepers'
  <2>1. ASSUME NEW q \in Slots, ptable'[q].state = "SLEEPING", ptable'[q].chan = q,
               NEW z \in Slots, ptable'[z].parent = q, ptable'[z].state = "ZOMBIE"
        PROVE  FALSE
    <3>1. q # s /\ ptable[q].state = "SLEEPING" /\ ptable[q].chan = q
      BY <2>1 DEF Bequeaths, Alike
    <3>2. CASE z = s
      BY <2>1, <3>1, <3>2 DEF Bequeaths, Parents
    <3>3. CASE z # s
      <4>1. ptable[z].state = "ZOMBIE"
        BY <2>1, <3>3 DEF Bequeaths
      <4>2. CASE ptable[z].parent = s
        BY <2>1, <3>1, <4>1, <4>2 DEF Bequeaths, Zombies, Children, InState
      <4>3. CASE ptable[z].parent # s
        BY <2>1, <3>1, <4>1, <4>3 DEF Bequeaths, Sleepers, NobodyOversleeps, Zombies, Children, InState
      <4> QED BY <4>2, <4>3
    <3> QED BY <3>2, <3>3
  <2>2. ASSUME NCPU = 1, NEW q \in Slots, ptable'[q].state = "SLEEPING" PROVE ~ptable'[q].killed
    BY <2>2 DEF Bequeaths, Alike, Sleepers, NobodyOversleeps, InState
  <2>3. ASSUME NCPU = 1, NEW q \in Slots, Pc(q)' = "sleep" PROVE ~ptable'[q].killed
    BY <2>3 DEF Bequeaths, Alike, Sleepers, Pc
  <2> QED BY <2>1, <2>2, <2>3 DEF Sleepers, NobodyOversleeps, InState, Zombies, Children, Pc
<1>9. Charges'
  <2>1. \A q \in Slots : ptable'[q].ticks = ptable[q].ticks /\ ptable'[q].init_ticks = ptable[q].init_ticks
    BY DEF Bequeaths, Alike
  <2>2. \A d \in CPUs : cpu'[d].pc \in {"proc", "account"} =>
            cpu[d].pc \in {"proc", "account"} /\ cpu[d].proc \in Slots /\ cpu'[d].proc = cpu[d].proc
    BY DEF CPUState, Dispatched, Scheds, TypeOK, Cpu
  <2> QED BY <2>1, <2>2 DEF Charges
<1> QED BY <1>1, <1>2, <1>3, <1>4, <1>5, <1>6, <1>7, <1>8, <1>9

\* The actions, one by one.  Counting the tickets.
LEMMA CountKeeps ==
    ASSUME TableInv, NEW c \in CPUs, Count(c)
    PROVE  TableInv'
<1> DEFINE n == TicketsOf(Slots)
           r == [cpu[c] EXCEPT !.pc = "draw", !.total = n]
<1>1. n \in Int
  BY TicketsFinite, WrapInt DEF TicketsOf, TableInv
<1>2. cpu' = [cpu EXCEPT ![c] = r]
  BY DEF Count
<1>3. cpu[c] \in Cpu /\ cpu[c].pc = "count"
  BY DEF Count, SchedAt, TableInv, TypeOK
<1> HIDE DEF n
<1>4. r \in Cpu /\ r.pc = "draw" /\ r.irq = cpu[c].irq /\ r.proc = cpu[c].proc
  BY <1>1, <1>3 DEF Cpu
<1> HIDE DEF r
<1>5. cpu' \in [CPUs -> Cpu] /\ cpu'[c] = r /\ \A d \in CPUs \ {c} : cpu'[d] = cpu[d]
  BY <1>2, <1>4 DEF TableInv, TypeOK
<1> QED BY <1>3, <1>4, <1>5, LoopKeeps DEF Count, SchedAt, locks

\* Drawing the ticket, or the trap of the division.
LEMMA DrawKeeps ==
    ASSUME TableInv, NEW c \in CPUs, Draw(c)
    PROVE  TableInv'
<1>1. cpu[c] \in Cpu /\ cpu[c].pc = "draw" /\ cpu \in [CPUs -> Cpu]
  BY DEF Draw, SchedAt, TableInv, TypeOK
<1>2. UNCHANGED <<ptable, nextpid, frame, ptlock, tickslock, ticks, stat>> /\ panicked' \in {"no", "trap"}
  BY DEF Draw, SchedAt, locks
<1>3. CASE cpu' = cpu
  BY <1>1, <1>2, <1>3, LoopKeeps
<1>4. CASE cpu' # cpu
  <2>1. PICK i \in 0 .. ticks - 1 : cpu' = [cpu EXCEPT ![c] = [@ EXCEPT !.pc = "select", !.winning = Wrap(i % Divisor(c))]]
    BY <1>4 DEF Draw
  <2>2. Divisor(c) # 0
    BY <1>4 DEF Draw
  <2>3. Divisor(c) \in Nat
    BY <1>1, LotteryAssumption DEF Divisor, Cpu
  <2>4. i % Divisor(c) \in Int
    BY <2>2, <2>3
  <2> DEFINE w == Wrap(i % Divisor(c))
             r == [cpu[c] EXCEPT !.pc = "select", !.winning = w]
  <2>5. w \in Int
    BY <2>4, WrapInt
  <2>6. cpu' = [cpu EXCEPT ![c] = r]
    BY <2>1
  <2> HIDE DEF w
  <2>7. r \in Cpu /\ r.pc = "select" /\ r.irq = cpu[c].irq /\ r.proc = cpu[c].proc
    BY <1>1, <2>5 DEF Cpu
  <2> HIDE DEF r
  <2>8. cpu' \in [CPUs -> Cpu] /\ cpu'[c] = r /\ \A d \in CPUs \ {c} : cpu'[d] = cpu[d]
    BY <1>1, <2>6, <2>7
  <2> QED BY <1>1, <1>2, <2>7, <2>8, LoopKeeps
<1> QED BY <1>3, <1>4

\* Finding the winner and dispatching it, or finding nobody.
LEMMA SelectKeeps ==
    ASSUME TableInv, NEW c \in CPUs, Select(c)
    PROVE  TableInv'
<1>1. cpu[c] \in Cpu /\ cpu[c].pc = "select" /\ cpu[c].irq = "no" /\ cpu \in [CPUs -> Cpu] /\ ptlock = Free
  BY DEF Select, SchedAt, TableInv, TypeOK
<1>2. UNCHANGED <<nextpid, frame, tickslock, ticks, panicked, stat>> /\ panicked' \in {"no", "trap"}
  BY DEF Select, SchedAt
<1>3. CASE Winners(c) = {}
  <2> DEFINE r == [cpu[c] EXCEPT !.pc = "count", !.total = 0, !.winning = 0]
  <2>1. cpu' = [cpu EXCEPT ![c] = r] /\ UNCHANGED <<ptable, ptlock>>
    BY <1>3 DEF Select
  <2>2. r \in Cpu /\ r.pc = "count" /\ r.irq = cpu[c].irq /\ r.proc = cpu[c].proc
    <3>1. PICK z \in Int : z = 0
      OBVIOUS
    <3>2. [cpu[c] EXCEPT !.pc = "count", !.total = z, !.winning = z] \in Cpu
      BY <1>1 DEF Cpu
    <3>3. r \in Cpu
      BY <3>1, <3>2
    <3> QED BY <1>1, <3>3 DEF Cpu
  <2> HIDE DEF r
  <2>3. cpu' \in [CPUs -> Cpu] /\ cpu'[c] = r /\ \A d \in CPUs \ {c} : cpu'[d] = cpu[d]
    BY <1>1, <2>1, <2>2
  <2> QED BY <1>1, <1>2, <2>1, <2>2, <2>3, LoopKeeps
<1>4. CASE Winners(c) # {}
  <2> DEFINE n == Least(Winners(c))
             r == [cpu[c] EXCEPT !.pc = "stamp", !.proc = n, !.total = 0, !.winning = 0]
  <2>1. n \in Slots /\ ptable[n].state = "RUNNABLE"
    <3>1. n \in Winners(c) /\ Winners(c) \in SUBSET Slots
      BY <1>4, LeastFirst DEF Winners, Runnable, InState
    <3> QED BY <3>1 DEF Winners, Runnable, InState
  <2>2. /\ cpu' = [cpu EXCEPT ![c] = r] /\ ptable' = [ptable EXCEPT ![n].state = "RUNNING"]
        /\ ptlock' = c
    BY <1>4 DEF Select
  <2> HIDE DEF n
  <2>3. r \in Cpu /\ r.pc = "stamp" /\ r.irq = cpu[c].irq /\ r.proc = n
    <3>1. PICK z \in Int : z = 0
      OBVIOUS
    <3>2. [cpu[c] EXCEPT !.pc = "stamp", !.proc = n, !.total = z, !.winning = z] \in Cpu
      BY <1>1, <2>1 DEF Cpu
    <3>3. r \in Cpu
      BY <3>1, <3>2
    <3> QED BY <1>1, <3>3 DEF Cpu
  <2> HIDE DEF r
  <2>4. cpu' \in [CPUs -> Cpu] /\ cpu'[c] = r /\ \A d \in CPUs \ {c} : cpu'[d] = cpu[d]
    BY <1>1, <2>2, <2>3
  <2> QED BY <1>1, <1>2, <2>1, <2>2, <2>3, <2>4, DispatchKeeps
<1> QED BY <1>3, <1>4

\* fork with and without a free slot.
LEMMA ForkAllocKeeps ==
    ASSUME TableInv, NEW c \in CPUs, NEW s \in Slots, ForkAlloc(c, s)
    PROVE  TableInv'
<1>1. Runs(c, s, "user") /\ UNCHANGED <<cpu, ptlock, tickslock, ticks, panicked, stat>>
  BY DEF ForkAlloc, Calling, locks
<1>2. CASE InState({"UNUSED"}) = {}
  <2>1. stat' \in [Slots -> {0, 1}]
    BY <1>1 DEF TableInv, TypeOK
  <2> QED BY <1>1, <1>2, <2>1, ReturnKeeps DEF ForkAlloc
<1>3. CASE InState({"UNUSED"}) # {}
  <2> DEFINE n == Least(InState({"UNUSED"}))
  <2>1. n \in Slots /\ ptable[n].state = "UNUSED"
    <3>1. n \in InState({"UNUSED"})
      BY <1>3, LeastFirst DEF InState
    <3> QED BY <3>1 DEF InState
  <2>2. /\ nextpid <= MaxPid
        /\ ptable' = [ptable EXCEPT ![n] = [@ EXCEPT !.state = "EMBRYO", !.pid = nextpid,
                                                     !.tickets = 1]]
        /\ nextpid' = nextpid + 1
        /\ frame' = [frame EXCEPT ![s] = [@ EXCEPT !.pc = "fork_copy", !.np = n]]
    BY <1>3 DEF ForkAlloc
  <2> HIDE DEF n
  <2> QED BY <1>1, <2>1, <2>2, AllocKeeps
<1> QED BY <1>2, <1>3

\* A process at user level enters exit().
LEMMA ExitStartKeeps ==
    ASSUME TableInv, NEW c \in CPUs, NEW s \in Slots, ExitStart(c, s)
    PROVE  TableInv'
<1>1. /\ cpu[c].pc = "proc" /\ cpu[c].proc = s /\ Pc(s) = "user" /\ Goto(s, "exit")
      /\ UNCHANGED <<ptable, nextpid, cpu, ptlock, tickslock, ticks, panicked, stat>>
  BY DEF ExitStart, Calling, Runs, Pc, locks
<1>2. frame \in [Slots -> Frame]
  BY DEF TableInv, TypeOK
<1>3. frame' \in [Slots -> Frame] /\ Pc(s)' = "exit" /\ \A q \in Slots \ {s} : frame'[q] = frame[q]
  BY <1>1, <1>2 DEF Goto, Frame, Pcs, Pc
<1> QED BY <1>1, <1>3, LeaveKeeps

\* The end of a system call.
LEMMA SysReturnKeeps ==
    ASSUME TableInv, NEW c \in CPUs, NEW s \in Slots, SysReturn(c, s)
    PROVE  TableInv'
<1> DEFINE k == IF ptable[s].killed THEN "exit" ELSE "user"
           r == [EmptyFrame EXCEPT !.pc = k]
<1>1. /\ cpu[c].pc = "proc" /\ cpu[c].proc = s /\ Pc(s) = "sysret"
      /\ UNCHANGED <<ptable, nextpid, cpu, ptlock, tickslock, ticks, panicked, stat>>
  BY DEF SysReturn, Runs, Pc, locks
<1>2. frame \in [Slots -> Frame] /\ frame' = [frame EXCEPT ![s] = r]
  BY DEF TableInv, TypeOK, SysReturn
<1>3. k \in {"exit", "user"}
  OBVIOUS
<1> HIDE DEF k
<1>4. r \in Frame /\ r.pc = k
  BY <1>3, LotteryAssumption DEF EmptyFrame, Frame, Pcs
<1> HIDE DEF r
<1>5. frame' \in [Slots -> Frame] /\ Pc(s)' = k /\ \A q \in Slots \ {s} : frame'[q] = frame[q]
  BY <1>2, <1>4 DEF Pc
<1> QED BY <1>1, <1>3, <1>5, LeaveKeeps

\* A step of nobody, or one that only stops the kernel.
LEMMA HaltKeeps ==
    ASSUME TableInv, panicked' \in {"no", "trap", "init exiting"},
           UNCHANGED <<ptable, nextpid, frame, cpu, ptlock, tickslock, ticks, stat>>
    PROVE TableInv'
<1>1. TypeOK'
  BY DEF TableInv, TypeOK
<1>2. CPUState'
  BY DEF TableInv, CPUState, Dispatched, Pc
<1>3. RunningOnOneCPU'
  BY DEF TableInv, RunningOnOneCPU, Executes
<1>4. ForkState'
  BY DEF TableInv, ForkState, Forking, State, Pc
<1>5. Parents' /\ Pids'
  BY DEF TableInv, Parents, Pids, State, Pc, InState
<1>6. SleepLoop' /\ Charges'
  BY ZenonT(60) DEF TableInv, SleepLoop, Pc, Charges
<1>7. Sleepers'
  BY DEF TableInv, Sleepers, NobodyOversleeps, Zombies, Children, InState, Pc
<1> QED BY <1>1, <1>2, <1>3, <1>4, <1>5, <1>6, <1>7 DEF TableInv

\* wait() with a zombie child.
LEMMA WaitReapKeeps ==
    ASSUME TableInv, NEW c \in CPUs, NEW s \in Slots, WaitReap(c, s)
    PROVE  TableInv'
<1> DEFINE n == Least(Zombies(s))
<1>1. n \in Slots /\ ptable[n].state = "ZOMBIE"
  <2>1. n \in Zombies(s)
    BY LeastFirst DEF WaitReap, Zombies, Children, InState
  <2> QED BY <2>1 DEF Zombies, Children, InState
<1>2. /\ Runs(c, s, "wait_scan") /\ ptlock' = Free /\ Goto(s, "sysret")
      /\ ptable' = [ptable EXCEPT ![n] = [@ EXCEPT !.pid = 0, !.parent = Nobody,
                                                   !.killed = FALSE, !.state = "UNUSED"]]
      /\ UNCHANGED <<nextpid, cpu, tickslock, ticks, panicked, stat>>
  BY DEF WaitReap
<1> HIDE DEF n
<1> QED BY <1>1, <1>2, ReapKeeps

\* The test of the loop of sys_sleep.
LEMMA SleepCheckKeeps ==
    ASSUME TableInv, NEW c \in CPUs, NEW s \in Slots, SleepCheck(c, s)
    PROVE  TableInv'
<1>1. Runs(c, s, "sleep_check") /\ UNCHANGED <<ptable, nextpid, cpu, ptlock, ticks, panicked, stat>>
  BY DEF SleepCheck
<1>2. CASE ticks >= frame[s].until \/ ptable[s].killed
  BY <1>1, <1>2, SleepEndsKeeps DEF SleepCheck
<1>3. CASE ~(ticks >= frame[s].until \/ ptable[s].killed)
  BY <1>1, <1>3, SleepOnKeeps DEF SleepCheck
<1> QED BY <1>2, <1>3

\* kill with and without a process of that pid.
LEMMA KillKeeps ==
    ASSUME TableInv, NEW c \in CPUs, NEW s \in Slots, NEW pid, Kill(c, s, pid)
    PROVE  TableInv'
<1>1. /\ Runs(c, s, "user") /\ Goto(s, "sysret")
      /\ UNCHANGED <<nextpid, cpu, ptlock, tickslock, ticks, panicked, stat>>
  BY DEF Kill, Calling, locks
<1>2. CASE SlotsWithPid(pid) = {}
  <2>1. ptable' = ptable
    BY <1>2 DEF Kill
  <2>2. stat' \in [Slots -> {0, 1}]
    BY <1>1 DEF TableInv, TypeOK
  <2> QED BY <1>1, <2>1, <2>2, ReturnKeeps
<1>3. CASE SlotsWithPid(pid) # {}
  <2> DEFINE n == Least(SlotsWithPid(pid))
  <2>1. n \in Slots
    BY <1>3, LeastFirst DEF SlotsWithPid
  <2>2. ptable' = [ptable EXCEPT ![n] =
                     [@ EXCEPT !.killed = TRUE,
                               !.state = IF ptable[n].state = "SLEEPING" THEN "RUNNABLE"
                                         ELSE ptable[n].state]]
    BY <1>3 DEF Kill
  <2> HIDE DEF n
  <2> QED BY <1>1, <2>1, <2>2, DoomKeeps
<1> QED BY <1>2, <1>3

\* settickets with a valid number and an invalid one.
LEMMA SetTicketsKeeps ==
    ASSUME TableInv, NEW c \in CPUs, NEW s \in Slots, NEW pid, NEW tickets \in TicketArgs,
           sys_settickets(c, s, pid, tickets)
    PROVE  TableInv'
<1>1. /\ Runs(c, s, "user") /\ Goto(s, "sysret")
      /\ UNCHANGED <<nextpid, cpu, ptlock, tickslock, ticks, panicked, stat>>
  BY DEF sys_settickets, Calling, locks
<1>2. CASE pid < 0 \/ tickets < 0 \/ SlotsWithPid(pid) = {}
  <2>1. ptable' = ptable
    BY <1>2 DEF sys_settickets
  <2>2. stat' \in [Slots -> {0, 1}]
    BY <1>1 DEF TableInv, TypeOK
  <2> QED BY <1>1, <2>1, <2>2, ReturnKeeps
<1>3. CASE ~(pid < 0 \/ tickets < 0 \/ SlotsWithPid(pid) = {})
  <2> DEFINE n == Least(SlotsWithPid(pid))
  <2>1. n \in Slots
    BY <1>3, LeastFirst DEF SlotsWithPid
  <2>2. tickets \in Nat
    BY <1>3, LotteryAssumption
  <2>3. ptable' = [ptable EXCEPT ![n].tickets = tickets]
    BY <1>3 DEF sys_settickets
  <2> HIDE DEF n
  <2> QED BY <1>1, <2>1, <2>2, <2>3, AssignKeeps
<1> QED BY <1>2, <1>3

\* getpinfo fills in the user's struct pstat.
LEMMA GetPInfoKeeps ==
    ASSUME TableInv, NEW c \in CPUs, NEW s \in Slots, sys_getpinfo(c, s)
    PROVE  TableInv'
<1>1. /\ Runs(c, s, "user") /\ Goto(s, "sysret")
      /\ UNCHANGED <<ptable, nextpid, cpu, ptlock, tickslock, ticks, panicked>>
  BY DEF sys_getpinfo, Calling, locks
<1>2. stat' \in [Slots -> {0, 1}]
  BY DEF sys_getpinfo, TableInv, TypeOK
<1> QED BY <1>1, <1>2, ReturnKeeps

\* yield, on the way out of a timer interrupt.
LEMMA YieldKeeps ==
    ASSUME TableInv, NEW c \in CPUs, yield(c)
    PROVE  TableInv'
<1> DEFINE s == cpu[c].proc
<1>1. cpu[c].pc = "proc" /\ cpu[c].irq = "yield" /\ s \in Slots
  BY DEF yield, TableInv, CPUState, Dispatched, TypeOK, Cpu
<1>2. /\ ptlock = Free /\ ptable' = [ptable EXCEPT ![s].state = "RUNNABLE"] /\ sched(c)
      /\ UNCHANGED <<nextpid, frame, tickslock, ticks, panicked, stat>>
  BY DEF yield
<1>3. s = cpu[c].proc
  OBVIOUS
<1> HIDE DEF s
<1> QED BY <1>1, <1>2, <1>3, PreemptKeeps

-----------------------------------------------------------------------------
\* The invariant holds when every CPU enters scheduler().
LEMMA InitTable == Init => TableInv
<1> SUFFICES ASSUME Init PROVE TableInv
  OBVIOUS
<1> USE LotteryAssumption, SlotFacts
<1>1. \A q \in Slots : /\ ptable[q].state = IF q = initproc THEN "RUNNABLE" ELSE "UNUSED"
                       /\ ptable[q].pid = IF q = initproc THEN 1 ELSE 0
                       /\ ptable[q].parent = Nobody /\ ptable[q].chan = NoChan
                       /\ ptable[q].killed = FALSE
                       /\ ptable[q].ticks = 0 /\ ptable[q].init_ticks = 0
  BY DEF Init, EmptySlot
<1>2. \A q \in Slots : frame[q].pc = "user"
  BY DEF Init, EmptyFrame
<1>3. \A c \in CPUs : cpu[c].pc = "count" /\ cpu[c].irq = "no" /\ cpu[c].proc = Nobody
  BY DEF Init
<1>4. ptlock = Free /\ tickslock = Free /\ nextpid = 2 /\ ticks = 0
  BY DEF Init
<1>5. TypeOK
  <2>1. EmptySlot \in Proc /\ [EmptySlot EXCEPT !.state = "RUNNABLE", !.pid = 1, !.tickets = 1] \in Proc
    <3>1. PICK i \in 0 .. MaxPid, t \in Nat : i = 1 /\ t = 1
      OBVIOUS
    <3>2. EmptySlot \in Proc
      BY DEF EmptySlot, Proc, PState
    <3>3. [EmptySlot EXCEPT !.state = "RUNNABLE", !.pid = i, !.tickets = t] \in Proc
      BY <3>2 DEF Proc, PState
    <3> QED BY <3>1, <3>2, <3>3
  <2>2. EmptyFrame \in Frame
    BY DEF EmptyFrame, Frame, Pcs
  <2>3. [pc |-> "count", irq |-> "no", proc |-> Nobody, total |-> 0, winning |-> 0] \in Cpu
    BY DEF Cpu
  <2> QED BY <2>1, <2>2, <2>3 DEF Init, TypeOK
<1>6. CPUState /\ RunningOnOneCPU /\ ForkState
  BY <1>1, <1>2, <1>3, <1>4 DEF CPUState, Dispatched, RunningOnOneCPU, Executes, ForkState, Forking, State, Pc
<1>7. Parents /\ Pids /\ SleepLoop
  BY <1>1, <1>2, <1>4 DEF Parents, Pids, SleepLoop, State, Pc, InState, PState
<1>8. Sleepers
  BY <1>1, <1>2 DEF Sleepers, NobodyOversleeps, InState, Pc
<1>9. Charges
  BY <1>1, <1>3, <1>4 DEF Charges
<1> QED BY <1>5, <1>6, <1>7, <1>8, <1>9 DEF TableInv

\* Every step of the kernel keeps it.
LEMMA NextKeeps == TableInv /\ [Next]_vars => TableInv'
<1> SUFFICES ASSUME TableInv, [Next]_vars PROVE TableInv'
  OBVIOUS
<1>1. CASE UNCHANGED vars
  BY <1>1, HaltKeeps DEF vars, TableInv, TypeOK
<1>2. CASE Next
  <2>1. PICK c \in CPUs :
            \/ scheduler(c) \/ trap(c) \/ TimerTick(c) \/ TimerElsewhere(c)
            \/ \E s \in Slots : UserCall(c, s) \/ KernelStep(c, s)
    BY <1>2 DEF Next
  <2>2. CASE scheduler(c)
    BY <2>2, CountKeeps, DrawKeeps, SelectKeeps, StampKeeps, AccountKeeps DEF scheduler
  <2>3. CASE trap(c)
    BY <2>3, TimerWakeKeeps, TimerExitKeeps, YieldKeeps DEF trap
  <2>4. CASE TimerTick(c) \/ TimerElsewhere(c)
    BY <2>4, TimerTickKeeps, TimerElsewhereKeeps
  <2>5. ASSUME NEW s \in Slots, UserCall(c, s) PROVE TableInv'
    <3>1. ASSUME NEW pid, NEW tickets \in TicketArgs, sys_settickets(c, s, pid, tickets) PROVE TableInv'
      BY <3>1, SetTicketsKeeps
    <3>2. ASSUME NEW pid, Kill(c, s, pid) PROVE TableInv'
      BY <3>2, KillKeeps
    <3> QED BY <2>5, <3>1, <3>2, ForkAllocKeeps, ExitStartKeeps, WaitLockKeeps, SleepStartKeeps, GetPInfoKeeps
            DEF UserCall
  <2>6. ASSUME NEW s \in Slots, KernelStep(c, s) PROVE TableInv'
    <3>1. CASE ForkFails(c, s) \/ ForkCopy(c, s) \/ ForkReady(c, s)
      BY <3>1, ForkFailsKeeps, ForkCopyKeeps, ForkReadyKeeps
    <3>2. CASE SysReturn(c, s) \/ ExitPanics(c, s) \/ Exit(c, s)
      BY <3>2, SysReturnKeeps, HaltKeeps, ExitKeeps DEF ExitPanics, locks
    <3>3. CASE WaitReap(c, s) \/ WaitFails(c, s) \/ WaitSleep(c, s)
      BY <3>3, WaitReapKeeps, WaitFailsKeeps, WaitSleepKeeps
    <3>4. CASE SleepAgain(c, s) \/ SleepCheck(c, s) \/ Sleep(c, s)
      BY <3>4, SleepAgainKeeps, SleepCheckKeeps, SleepKeeps
    <3> QED BY <2>6, <3>1, <3>2, <3>3, <3>4 DEF KernelStep
  <2> QED BY <2>1, <2>2, <2>3, <2>4, <2>5, <2>6
<1> QED BY <1>1, <1>2

\* The process table's invariant holds in every execution: any number of CPUs,
\* any program, any order of calls, interrupts and exits.
THEOREM TableInvariance == Spec => []TableInv
<1>1. Init => TableInv
  BY InitTable
<1>2. TableInv /\ [Next]_vars => TableInv'
  BY NextKeeps
<1> QED BY <1>1, <1>2, PTL DEF Spec

\* A process is RUNNING exactly when one CPU has it as its process, and no two
\* CPUs ever run the same one: what scheduler() dispatches under ptable.lock
\* stays its own until sched().
THEOREM AlwaysRunningOnOneCPU == Spec => []RunningOnOneCPU
<1>1. TableInv => RunningOnOneCPU
  BY DEF TableInv
<1> QED BY <1>1, TableInvariance, PTL

\* Types are kept, identifiers of processes stay distinct, and whoever exits in
\* whatever order, every process but init has a parent that is alive and can
\* still wait for it.
THEOREM AlwaysFamilyTree == Spec => []FamilyTree
<1>1. TableInv => FamilyTree
  BY DEF TableInv, FamilyTree, Pids, Parents, Alive, InState
<1> QED BY <1>1, TableInvariance, PTL

\* No wakeup is lost between exit() and wait(); on one CPU kill() leaves no
\* victim asleep.
THEOREM AlwaysNobodyOversleeps == Spec => []NobodyOversleeps
<1>1. TableInv => NobodyOversleeps
  BY DEF TableInv, Sleepers
<1> QED BY <1>1, TableInvariance, PTL

-----------------------------------------------------------------------------
\* The time processes are charged for.

\* Nothing is charged and nobody gets the CPU.
Quiet ==
    /\ ticks' = ticks
    /\ \A q \in Slots : ptable'[q].ticks = ptable[q].ticks /\ ptable'[q].init_ticks = ptable[q].init_ticks
    /\ \A d \in CPUs : cpu'[d].pc \in {"proc", "account"} =>
                          cpu[d].pc \in {"proc", "account"} /\ cpu'[d].proc = cpu[d].proc

\* The times charged and under way are finite sets.
LEMMA TimesFinite ==
    ASSUME TypeOK
    PROVE  /\ IsFiniteSet(Charged) /\ Cardinality(Charged) \in Nat
           /\ IsFiniteSet(UnderWay) /\ Cardinality(UnderWay) \in Nat
<1>1. IsFiniteSet(Slots) /\ IsFiniteSet(CPUs) /\ IsFiniteSet(1 .. MaxTicks)
  BY LotteryAssumption, FS_Interval DEF Slots, CPUs
<1>2. IsFiniteSet(Slots \X (1 .. MaxTicks)) /\ IsFiniteSet(CPUs \X (1 .. MaxTicks))
  BY <1>1, FS_Product
<1>3. Charged \in SUBSET (Slots \X (1 .. MaxTicks)) /\ UnderWay \in SUBSET (CPUs \X (1 .. MaxTicks))
  BY DEF Charged, UnderWay
<1> QED BY <1>2, <1>3, FS_Subset, FS_CardinalityType

\* The process of a CPU that is dispatched is a slot.
LEMMA ProcIsSlot ==
    ASSUME TableInv, NEW c \in CPUs, cpu[c].pc \in {"stamp", "proc", "account"}
    PROVE  cpu[c].proc \in Slots
  BY DEF TableInv, CPUState, Dispatched, TypeOK, Cpu

\* It is enough that the sum does not grow while the clock stands still.
LEMMA NoMoreConserves ==
    ASSUME TableInv, TicksConserved, ticks' = ticks,
           Cardinality(Charged') \in Nat, Cardinality(UnderWay') \in Nat,
           Cardinality(Charged') + Cardinality(UnderWay') <= Cardinality(Charged) + Cardinality(UnderWay)
    PROVE  TicksConserved'
<1> DEFINE n == NCPU * ticks
<1>1. ticks \in Nat /\ NCPU \in Nat
  <2>1. ticks \in 0 .. MaxTicks
    BY DEF TableInv, TypeOK
  <2> QED BY <2>1, LotteryAssumption
<1>2. n \in Nat
  BY <1>1
<1>3. Cardinality(Charged) + Cardinality(UnderWay) <= n
  BY DEF TicksConserved
<1>4. Cardinality(Charged) \in Nat /\ Cardinality(UnderWay) \in Nat
  BY TimesFinite DEF TableInv
<1>5. Cardinality(Charged)' = Cardinality(Charged') /\ Cardinality(UnderWay)' = Cardinality(UnderWay')
  OBVIOUS
<1>6. n' = n
  OBVIOUS
<1> HIDE DEF n
<1>7. Cardinality(Charged') + Cardinality(UnderWay') <= n
  BY <1>2, <1>3, <1>4
<1> QED BY <1>5, <1>6, <1>7 DEF TicksConserved, n

\* A step that charges nobody and can only end slices under way conserves the time.
LEMMA LessConserves ==
    ASSUME TableInv, TicksConserved, ticks' = ticks, Charged' = Charged, UnderWay' \subseteq UnderWay
    PROVE  TicksConserved'
<1>1. /\ IsFiniteSet(Charged) /\ Cardinality(Charged) \in Nat
      /\ IsFiniteSet(UnderWay) /\ Cardinality(UnderWay) \in Nat
  BY TimesFinite DEF TableInv
<1>2. IsFiniteSet(UnderWay') /\ Cardinality(UnderWay') <= Cardinality(UnderWay)
  BY <1>1, FS_Subset
<1>3. Cardinality(UnderWay') \in Nat
  BY <1>2, FS_CardinalityType
<1>4. Cardinality(Charged') = Cardinality(Charged)
  OBVIOUS
<1>5. Cardinality(Charged') + Cardinality(UnderWay') <= Cardinality(Charged) + Cardinality(UnderWay)
  BY <1>1, <1>2, <1>3, <1>4
<1> QED BY <1>1, <1>3, <1>4, <1>5, NoMoreConserves

\* A step that charges nobody and starts no slice conserves the time.
LEMMA QuietConserves ==
    ASSUME TableInv, TicksConserved, Quiet
    PROVE  TicksConserved'
<1>1. Charged' = Charged
  BY DEF Quiet, Charged
<1>2. UnderWay' \subseteq UnderWay
  <2>1. ASSUME NEW x \in UnderWay' PROVE x \in UnderWay
    <3>1. /\ x \in CPUs \X (1 .. MaxTicks) /\ cpu'[x[1]].pc \in {"proc", "account"}
          /\ x[2] <= ticks' - ptable'[cpu'[x[1]].proc].init_ticks
      BY <2>1 DEF UnderWay
    <3>2. x[1] \in CPUs
      BY <3>1
    <3>3. cpu[x[1]].pc \in {"proc", "account"} /\ cpu'[x[1]].proc = cpu[x[1]].proc
      BY <3>1, <3>2 DEF Quiet
    <3>4. cpu[x[1]].proc \in Slots
      BY <3>2, <3>3, ProcIsSlot
    <3> QED BY <3>1, <3>3, <3>4 DEF Quiet, UnderWay
  <2> QED BY <2>1
<1> QED BY <1>1, <1>2, LessConserves DEF Quiet

\* A slice begins with nothing to charge.
LEMMA StampConserves ==
    ASSUME TableInv, TicksConserved, NEW c \in CPUs, Stamp(c)
    PROVE  TicksConserved'
<1> DEFINE s == cpu[c].proc
<1>1. s \in Slots /\ cpu[c].pc = "stamp" /\ ticks \in Int /\ ticks' = ticks
  BY ProcIsSlot DEF Stamp, SchedAt, TableInv, TypeOK
<1>2. \A q \in Slots : /\ ptable'[q].ticks = ptable[q].ticks
                       /\ ptable'[q].init_ticks = IF q = s THEN ticks ELSE ptable[q].init_ticks
  BY <1>1 DEF Stamp, TableInv, TypeOK, Proc
<1>3. \A d \in CPUs : cpu'[d].proc = cpu[d].proc /\ cpu'[d].pc = IF d = c THEN "proc" ELSE cpu[d].pc
  BY DEF Stamp, TableInv, TypeOK, Cpu
<1>4. \A d \in CPUs \ {c} : cpu[d].proc # s
  BY <1>1, SlotFacts DEF TableInv, RunningOnOneCPU
<1> HIDE DEF s
<1>5. Charged' = Charged
  BY <1>2 DEF Charged
<1>6. ASSUME NEW x \in CPUs \X (1 .. MaxTicks) PROVE x \in UnderWay' => x \in UnderWay
  <2>1. x[1] \in CPUs /\ x[2] \in Int /\ x[2] > 0
    OBVIOUS
  <2>2. CASE x[1] = c
    <3>1. cpu'[x[1]].proc = s /\ ptable'[s].init_ticks = ticks
      BY <1>1, <1>2, <1>3, <2>2 DEF s
    <3>2. ~(x[2] <= ticks' - ptable'[cpu'[x[1]].proc].init_ticks)
      BY <1>1, <2>1, <3>1
    <3> QED BY <3>2 DEF UnderWay
  <2>3. CASE x[1] # c
    <3>1. cpu'[x[1]].proc = cpu[x[1]].proc /\ cpu'[x[1]].pc = cpu[x[1]].pc
      BY <1>3, <2>1, <2>3
    <3>2. CASE cpu[x[1]].pc \in {"proc", "account"}
      <4>1. cpu[x[1]].proc \in Slots \ {s}
        BY <1>4, <2>1, <2>3, <3>2, ProcIsSlot
      <4> QED BY <1>1, <1>2, <3>1, <4>1 DEF UnderWay
    <3>3. CASE cpu[x[1]].pc \notin {"proc", "account"}
      BY <3>1, <3>3 DEF UnderWay
    <3> QED BY <3>2, <3>3
  <2> QED BY <2>2, <2>3
<1>7. UnderWay' \subseteq UnderWay
  BY <1>6 DEF UnderWay
<1> QED BY <1>1, <1>5, <1>7, LessConserves

\* The end of a slice moves its ticks from the slices under way to the process.
LEMMA AccountConserves ==
    ASSUME TableInv, TicksConserved, NEW c \in CPUs, Account(c)
    PROVE  TicksConserved'
<1> DEFINE s == cpu[c].proc
           k == ptable[s].ticks
           d == ticks - ptable[s].init_ticks
           old == {c} \X (1 .. d)
           new == {s} \X (k + 1 .. k + d)
<1>1. s \in Slots /\ cpu[c].pc = "account" /\ ticks' = ticks
  BY ProcIsSlot DEF Account, SchedAt
<1>2. ptable[s] \in Proc /\ ticks \in 0 .. MaxTicks
  BY <1>1 DEF TableInv, TypeOK
<1>3. k \in Nat /\ d \in Nat /\ k + d <= MaxTicks
  <2>1. ptable[s].ticks \in Nat /\ ptable[s].init_ticks \in Nat /\ ticks \in Nat /\ MaxTicks \in Nat
    BY <1>2, LotteryAssumption DEF Proc
  <2>2. ptable[s].init_ticks <= ticks /\ ptable[s].ticks <= ptable[s].init_ticks
    BY <1>1 DEF TableInv, Charges
  <2> QED BY <1>2, <2>1, <2>2
<1>4. \A q \in Slots : /\ ptable'[q].ticks = IF q = s THEN k + d ELSE ptable[q].ticks
                       /\ ptable'[q].init_ticks = ptable[q].init_ticks
  <2>1. ptable' = [ptable EXCEPT ![s].ticks = ptable[s].ticks + ticks - ptable[s].init_ticks]
    BY DEF Account
  <2>2. ptable[s].ticks + ticks - ptable[s].init_ticks = k + d
    BY <1>2, LotteryAssumption DEF Proc
  <2> HIDE DEF k, d, s
  <2> QED BY <1>1, <2>1, <2>2 DEF TableInv, TypeOK, Proc
<1>5. \A e \in CPUs : IF e = c THEN cpu'[e].pc = "count" ELSE cpu'[e] = cpu[e]
  BY DEF Account, TableInv, TypeOK, Cpu
<1>6. old \subseteq UnderWay
  <2>1. ASSUME NEW i \in 1 .. d PROVE <<c, i>> \in UnderWay
    <3>1. i \in 1 .. MaxTicks /\ i <= ticks - ptable[cpu[c].proc].init_ticks
      <4>1. d = ticks - ptable[cpu[c].proc].init_ticks
        OBVIOUS
      <4> HIDE DEF d, k
      <4> QED BY <1>3, <4>1, LotteryAssumption
    <3> QED BY <1>1, <3>1 DEF UnderWay
  <2> QED BY <2>1
<1>7. UnderWay' \subseteq UnderWay \ old
  <2>1. ASSUME NEW x \in CPUs \X (1 .. MaxTicks), x \in UnderWay' PROVE x \in UnderWay \ old
    <3>1. x[1] # c
      BY <1>5, <2>1 DEF UnderWay
    <3>2. x[1] \in CPUs /\ cpu'[x[1]] = cpu[x[1]]
      BY <1>5, <3>1
    <3>3. cpu[x[1]].pc \in {"proc", "account"}
      BY <2>1, <3>2 DEF UnderWay
    <3>4. cpu[x[1]].proc \in Slots
      BY <3>2, <3>3, ProcIsSlot
    <3>5. x \in UnderWay
      BY <1>1, <1>4, <2>1, <3>2, <3>4 DEF UnderWay
    <3> QED BY <3>1, <3>5
  <2> QED BY <2>1 DEF UnderWay
<1>8. Charged' \subseteq Charged \cup new
  <2>1. ASSUME NEW x \in Slots \X (1 .. MaxTicks), x[2] <= ptable'[x[1]].ticks
        PROVE  x \in Charged \cup new
    <3>1. CASE x[1] = s
      <4>1. x = <<s, x[2]>> /\ x[2] \in Int /\ x[2] <= k + d
        BY <1>1, <1>4, <2>1, <3>1
      <4>2. CASE x[2] <= k
        BY <3>1, <4>2 DEF Charged
      <4>3. CASE ~(x[2] <= k)
        BY <1>3, <4>1, <4>3
      <4> QED BY <4>2, <4>3
    <3>2. CASE x[1] # s
      <4>1. x[1] \in Slots
        OBVIOUS
      <4>2. x[2] <= ptable[x[1]].ticks
        BY <1>4, <2>1, <3>2, <4>1
      <4> QED BY <4>2 DEF Charged
    <3> QED BY <3>1, <3>2
  <2> QED BY <2>1 DEF Charged
<1>9. IsFiniteSet(old) /\ Cardinality(old) = d
  <2> HIDE DEF d
  <2>1. IsFiniteSet({c}) /\ Cardinality({c}) = 1
    BY FS_Singleton
  <2>2. IsFiniteSet(1 .. d) /\ Cardinality(1 .. d) = d
    <3>1. 1 \in Int /\ d \in Int
      BY <1>3
    <3>2. IsFiniteSet(1 .. d) /\ Cardinality(1 .. d) = IF 1 > d THEN 0 ELSE d - 1 + 1
      BY Zenon, <3>1, FS_Interval
    <3> QED BY <1>3, <3>2
  <2>3. IsFiniteSet(old) /\ Cardinality(old) = Cardinality({c}) * Cardinality(1 .. d)
    BY <2>1, <2>2, FS_Product
  <2> QED BY <1>3, <2>1, <2>2, <2>3
<1>10. IsFiniteSet(new) /\ Cardinality(new) = d
  <2> HIDE DEF d, k, s
  <2>1. IsFiniteSet({s}) /\ Cardinality({s}) = 1
    BY FS_Singleton
  <2>2. k + 1 \in Int /\ k + d \in Int /\ (k + 1 > k + d => d = 0)
    BY <1>3
  <2>3. IsFiniteSet(k + 1 .. k + d) /\ Cardinality(k + 1 .. k + d) = d
    BY <1>3, <2>2, FS_Interval
  <2>4. IsFiniteSet(new) /\ Cardinality(new) = Cardinality({s}) * Cardinality(k + 1 .. k + d)
    BY <2>1, <2>3, FS_Product
  <2> QED BY <1>3, <2>1, <2>3, <2>4
<1> HIDE DEF old, new, s, k, d
<1>11. /\ IsFiniteSet(Charged) /\ Cardinality(Charged) \in Nat
       /\ IsFiniteSet(UnderWay) /\ Cardinality(UnderWay) \in Nat
  BY TimesFinite DEF TableInv
<1>12. IsFiniteSet(UnderWay \ old) /\ Cardinality(UnderWay \ old) = Cardinality(UnderWay) - d
  <2>1. UnderWay \cap old = old
    BY <1>6
  <2> QED BY ZenonT(60), <1>9, <1>11, <2>1, FS_Difference
<1>13. IsFiniteSet(UnderWay') /\ Cardinality(UnderWay') \in Nat /\ Cardinality(UnderWay') <= Cardinality(UnderWay) - d
  BY <1>7, <1>12, FS_Subset, FS_CardinalityType
<1>14. /\ IsFiniteSet(Charged \cup new) /\ IsFiniteSet(Charged \cap new)
       /\ Cardinality(Charged \cup new) = Cardinality(Charged) + d - Cardinality(Charged \cap new)
  BY <1>10, <1>11, FS_Union, FS_Intersection
<1>15. Cardinality(Charged \cap new) \in Nat
  BY <1>14, FS_CardinalityType
<1>16. IsFiniteSet(Charged') /\ Cardinality(Charged') \in Nat /\ Cardinality(Charged') <= Cardinality(Charged \cup new)
  BY <1>8, <1>14, FS_Subset, FS_CardinalityType
<1>17. Cardinality(Charged') + Cardinality(UnderWay') <= Cardinality(Charged) + Cardinality(UnderWay)
  BY <1>3, <1>11, <1>13, <1>14, <1>15, <1>16
<1> QED BY <1>1, <1>11, <1>13, <1>16, <1>17, NoMoreConserves

\* A tick adds at most one to each CPU's slice.
LEMMA TickConserves ==
    ASSUME TableInv, TicksConserved, NEW c \in CPUs, TimerTick(c)
    PROVE  TicksConserved'
<1> DEFINE late(d) == ticks + 1 - ptable[cpu[d].proc].init_ticks
           new == {x \in CPUs \X (1 .. MaxTicks) : x[2] = late(x[1])}
<1>1. ticks \in Nat /\ ticks' = ticks + 1 /\ ptable' = ptable /\ NCPU \in Nat
  <2>1. ticks \in 0 .. MaxTicks
    BY DEF TableInv, TypeOK
  <2> QED BY <2>1, LotteryAssumption DEF TimerTick
<1>2. \A d \in CPUs : cpu'[d].pc = cpu[d].pc /\ cpu'[d].proc = cpu[d].proc
  BY DEF TimerTick, TableInv, TypeOK, Cpu
<1>3. Charged' = Charged
  BY <1>1 DEF Charged
<1>4. UnderWay' \subseteq UnderWay \cup new
  <2>1. ASSUME NEW x \in CPUs \X (1 .. MaxTicks), x \in UnderWay' PROVE x \in UnderWay \cup new
    <3>1. x[1] \in CPUs /\ x[2] \in Int
      OBVIOUS
    <3>2. cpu[x[1]].pc \in {"proc", "account"} /\ x[2] <= ticks' - ptable[cpu[x[1]].proc].init_ticks
      <4>1. cpu'[x[1]].pc \in {"proc", "account"} /\ x[2] <= ticks' - ptable'[cpu'[x[1]].proc].init_ticks
        BY <2>1 DEF UnderWay
      <4>2. cpu'[x[1]].pc = cpu[x[1]].pc /\ cpu'[x[1]].proc = cpu[x[1]].proc
        BY <1>2, <3>1
      <4> QED BY <1>1, <4>1, <4>2
    <3>3. cpu[x[1]].proc \in Slots
      BY <3>1, <3>2, ProcIsSlot
    <3>4. ptable[cpu[x[1]].proc].init_ticks \in Int
      <4>1. ptable[cpu[x[1]].proc] \in Proc
        BY <3>3 DEF TableInv, TypeOK
      <4> QED BY <4>1, LotteryAssumption DEF Proc
    <3>5. CASE x[2] = late(x[1])
      BY <3>5
    <3>6. CASE x[2] # late(x[1])
      BY <1>1, <3>1, <3>2, <3>4, <3>6 DEF UnderWay
    <3> QED BY <3>5, <3>6
  <2> QED BY <2>1 DEF UnderWay
<1>5. IsFiniteSet(CPUs) /\ Cardinality(CPUs) = NCPU
  <2>1. NCPU \in Nat \ {0}
    BY LotteryAssumption
  <2> QED BY <2>1, FS_Interval DEF CPUs
<1>6. IsFiniteSet(new) /\ Cardinality(new) <= NCPU
  <2> DEFINE at == [x \in new |-> x[1]]
  <2>1. \A x, y \in new : x[1] = y[1] => x = y
    OBVIOUS
  <2>2. at \in Injection(new, CPUs)
    BY <2>1 DEF Injection, IsInjective
  <2> HIDE DEF new, at
  <2> QED BY <1>5, <2>2, FS_Injection
<1> HIDE DEF new
<1>7. /\ IsFiniteSet(Charged) /\ Cardinality(Charged) \in Nat
      /\ IsFiniteSet(UnderWay) /\ Cardinality(UnderWay) \in Nat
  BY TimesFinite DEF TableInv
<1>8. /\ IsFiniteSet(UnderWay \cup new) /\ IsFiniteSet(UnderWay \cap new)
      /\ Cardinality(UnderWay \cup new) = Cardinality(UnderWay) + Cardinality(new) - Cardinality(UnderWay \cap new)
  BY <1>6, <1>7, FS_Union, FS_Intersection
<1>9. Cardinality(UnderWay \cap new) \in Nat /\ Cardinality(new) \in Nat
  BY <1>6, <1>8, FS_CardinalityType
<1>10. IsFiniteSet(UnderWay') /\ Cardinality(UnderWay') <= Cardinality(UnderWay \cup new)
  BY <1>4, <1>8, FS_Subset
<1>11. Cardinality(UnderWay') \in Nat
  BY <1>10, FS_CardinalityType
<1> DEFINE n == NCPU * ticks
<1>12. n \in Nat /\ NCPU * ticks' = n + NCPU
  BY <1>1
<1>13. Cardinality(Charged) + Cardinality(UnderWay) <= n
  BY DEF TicksConserved
<1> HIDE DEF n
<1>14. Cardinality(Charged) + Cardinality(UnderWay') <= n + NCPU
  BY <1>1, <1>6, <1>7, <1>8, <1>9, <1>10, <1>11, <1>12, <1>13
<1> QED BY <1>3, <1>12, <1>14 DEF TicksConserved

\* All other steps are quiet.
LEMMA OthersQuiet ==
    ASSUME TableInv, NEW c \in CPUs,
           \/ Count(c) \/ Draw(c) \/ Select(c) \/ trap(c) \/ TimerElsewhere(c)
           \/ \E s \in Slots : UserCall(c, s) \/ KernelStep(c, s)
    PROVE  Quiet
<1> USE DEF TableInv, Quiet
<1>a. TypeOK /\ ptable \in [Slots -> Proc] /\ cpu \in [CPUs -> Cpu]
  BY DEF TypeOK
<1> DEFINE Timeless == \A q \in Slots : /\ ptable'[q].ticks = ptable[q].ticks
                                        /\ ptable'[q].init_ticks = ptable[q].init_ticks
           Stays == \A d \in CPUs : cpu'[d].pc \in {"proc", "account"} =>
                          cpu[d].pc \in {"proc", "account"} /\ cpu'[d].proc = cpu[d].proc
<1>1. CASE Count(c)
  BY <1>1, <1>a DEF Count, Cpu
<1>2. CASE Draw(c)
  BY <1>2, <1>a DEF Draw, Cpu
<1>3. CASE Select(c)
  <2> DEFINE n == Least(Winners(c))
  <2>1. ticks' = ticks
    BY <1>3 DEF Select
  <2>2. Timeless
    <3>1. ptable' = ptable \/ ptable' = [ptable EXCEPT ![n].state = "RUNNING"]
      BY <1>3 DEF Select
    <3> HIDE DEF n
    <3> QED BY <1>a, <3>1 DEF Proc
  <2>3. Stays
    <3>1. \A d \in CPUs \ {c} : cpu'[d] = cpu[d]
      BY <1>3, <1>a DEF Select
    <3>2. cpu'[c].pc \in {"count", "stamp"}
      <4>1. cpu[c] \in Cpu
        BY <1>a
      <4>2. \/ cpu'[c] = [cpu[c] EXCEPT !.pc = "count", !.total = 0, !.winning = 0]
            \/ cpu'[c] = [cpu[c] EXCEPT !.pc = "stamp", !.proc = n, !.total = 0, !.winning = 0]
        BY <1>3, <1>a DEF Select
      <4> HIDE DEF n
      <4> QED BY <4>1, <4>2 DEF Cpu
    <3> QED BY <3>1, <3>2
  <2> QED BY <2>1, <2>2, <2>3
<1>4. ASSUME NEW s \in Slots, Runs(c, s, "user") \/ Runs(c, s, "wait_scan") \/ Runs(c, s, "sleep") \/ Runs(c, s, "exit"), sched(c) PROVE Stays
  BY <1>4, <1>a, SchedUpdate DEF Runs, Scheds
<1>5. CASE trap(c)
  <2>1. CASE TimerWake(c)
    <3>1. Timeless
      BY <1>a, <2>1, WakeupUpdate DEF TimerWake, Alike
    <3>2. Stays
      BY <1>a, <2>1 DEF TimerWake, Cpu
    <3> QED BY <2>1, <3>1, <3>2 DEF TimerWake
  <2>2. CASE TimerExit(c)
    BY <1>a, <2>2 DEF TimerExit, Cpu
  <2>3. CASE yield(c)
    <3>1. cpu[c].pc = "proc"
      BY <2>3 DEF yield, CPUState
    <3>2. Stays
      BY <1>a, <2>3, <3>1, SchedUpdate DEF yield, Scheds
    <3>3. Timeless
      BY <1>a, <2>3 DEF yield, Proc
    <3> QED BY <2>3, <3>2, <3>3 DEF yield
  <2> QED BY <1>5, <2>1, <2>2, <2>3 DEF trap
<1>6. CASE TimerElsewhere(c)
  BY <1>6, <1>a DEF TimerElsewhere, Cpu
<1>7. ASSUME NEW s \in Slots, UserCall(c, s) PROVE Quiet
  <2>1. ticks' = ticks /\ cpu' = cpu
    BY <1>7 DEF UserCall, ForkAlloc, ExitStart, WaitLock, SleepStart, Kill, sys_settickets, sys_getpinfo
  <2>2. CASE ForkAlloc(c, s)
    <3> DEFINE n == Least(InState({"UNUSED"}))
    <3>1. \/ ptable' = ptable
          \/ ptable' = [ptable EXCEPT ![n] = [@ EXCEPT !.state = "EMBRYO", !.pid = nextpid, !.tickets = 1]]
      BY <2>2 DEF ForkAlloc
    <3>2. ptable' # ptable => n \in Slots
      BY <2>2, LeastFirst DEF ForkAlloc, InState
    <3> HIDE DEF n
    <3>3. Timeless
      <4>1. CASE n \in Slots
        <5>1. ptable[n] \in Proc
          BY <1>a, <4>1
        <5> DEFINE r == [ptable[n] EXCEPT !.state = "EMBRYO", !.pid = nextpid, !.tickets = 1]
        <5>2. r.ticks = ptable[n].ticks /\ r.init_ticks = ptable[n].init_ticks
          BY <5>1 DEF Proc
        <5>3. ptable' = ptable \/ ptable' = [ptable EXCEPT ![n] = r]
          BY <3>1
        <5> HIDE DEF r
        <5> QED BY <1>a, <4>1, <5>2, <5>3
      <4> QED BY <3>2, <4>1
    <3> QED BY <2>1, <3>3
  <2>3. ASSUME NEW pid, Kill(c, s, pid) PROVE Timeless
    <3> DEFINE n == Least(SlotsWithPid(pid))
               k == IF ptable[n].state = "SLEEPING" THEN "RUNNABLE" ELSE ptable[n].state
    <3>1. ptable' = ptable \/ ptable' = [ptable EXCEPT ![n] = [@ EXCEPT !.killed = TRUE, !.state = k]]
      BY <2>3 DEF Kill
    <3>2. ptable' # ptable => n \in Slots
      BY <2>3, LeastFirst DEF Kill, SlotsWithPid
    <3> HIDE DEF n, k
    <3>3. CASE n \in Slots
      <4>1. ptable[n] \in Proc
        BY <1>a, <3>3
      <4> DEFINE r == [ptable[n] EXCEPT !.killed = TRUE, !.state = k]
      <4>2. r.ticks = ptable[n].ticks /\ r.init_ticks = ptable[n].init_ticks
        BY <4>1 DEF Proc
      <4>3. ptable' = ptable \/ ptable' = [ptable EXCEPT ![n] = r]
        BY <3>1
      <4> HIDE DEF r
      <4> QED BY <1>a, <3>3, <4>2, <4>3
    <3> QED BY <3>2, <3>3
  <2>4. ASSUME NEW pid, NEW tickets, sys_settickets(c, s, pid, tickets) PROVE Timeless
    BY <1>a, <2>4 DEF sys_settickets, Proc
  <2>5. CASE ExitStart(c, s) \/ WaitLock(c, s) \/ SleepStart(c, s) \/ sys_getpinfo(c, s)
    BY <2>1, <2>5 DEF ExitStart, WaitLock, SleepStart, sys_getpinfo
  <2> QED BY <1>7, <2>1, <2>2, <2>3, <2>4, <2>5 DEF UserCall
<1>8. ASSUME NEW s \in Slots, KernelStep(c, s) PROVE Quiet
  <2>1. CASE ForkFails(c, s)
    BY <1>a, <2>1 DEF ForkFails, Proc
  <2>2. CASE ForkCopy(c, s)
    BY <1>a, <2>2 DEF ForkCopy, Proc
  <2>3. CASE ForkReady(c, s)
    BY <1>a, <2>3 DEF ForkReady, Proc
  <2>4. CASE SysReturn(c, s) \/ ExitPanics(c, s) \/ WaitFails(c, s) \/ SleepAgain(c, s) \/ SleepCheck(c, s)
    BY <2>4 DEF SysReturn, ExitPanics, WaitFails, SleepAgain, SleepCheck
  <2>5. CASE Exit(c, s)
    <3>1. Timeless
      BY <1>a, <2>5, ExitTable DEF Bequeaths, Alike
    <3>2. Stays
      BY <2>5, <1>4 DEF Exit
    <3> QED BY <2>5, <3>1, <3>2 DEF Exit
  <2>6. CASE WaitReap(c, s)
    BY <1>a, <2>6 DEF WaitReap, Proc
  <2>7. CASE WaitSleep(c, s)
    <3>1. Timeless
      BY <1>a, <2>7 DEF WaitSleep, Proc
    <3>2. Stays
      BY <2>7, <1>4 DEF WaitSleep
    <3> QED BY <2>7, <3>1, <3>2 DEF WaitSleep
  <2>8. CASE Sleep(c, s)
    <3>1. Timeless
      BY <1>a, <2>8 DEF Sleep, Proc
    <3>2. Stays
      BY <2>8, <1>4 DEF Sleep
    <3> QED BY <2>8, <3>1, <3>2 DEF Sleep
  <2> QED BY <1>8, <2>1, <2>2, <2>3, <2>4, <2>5, <2>6, <2>7, <2>8 DEF KernelStep
<1> QED BY <1>1, <1>2, <1>3, <1>5, <1>6, <1>7, <1>8

\* What the processes have been charged for and the slices under way never
\* exceed the CPU time that has passed, whoever runs where.
THEOREM AlwaysTicksConserved == Spec => []TicksConserved
<1>1. Init => TicksConserved
  <2> SUFFICES ASSUME Init PROVE TicksConserved
    OBVIOUS
  <2>1. ticks = 0 /\ \A q \in Slots : ptable[q].ticks = 0
    BY DEF Init, EmptySlot
  <2>2. \A c \in CPUs : cpu[c].pc = "count"
    BY DEF Init
  <2>3. Charged = {}
    BY <2>1 DEF Charged
  <2>4. UnderWay = {}
    BY <2>2 DEF UnderWay
  <2>5. NCPU * ticks = 0
    BY <2>1, LotteryAssumption
  <2> QED BY <2>3, <2>4, <2>5, FS_EmptySet DEF TicksConserved
<1>2. TableInv /\ TicksConserved /\ [Next]_vars => TicksConserved'
  <2> SUFFICES ASSUME TableInv, TicksConserved, [Next]_vars PROVE TicksConserved'
    OBVIOUS
  <2>1. CASE UNCHANGED vars
    BY <2>1, QuietConserves DEF vars, Quiet
  <2>2. CASE Next
    <3>1. PICK c \in CPUs :
              \/ scheduler(c) \/ trap(c) \/ TimerTick(c) \/ TimerElsewhere(c)
              \/ \E s \in Slots : UserCall(c, s) \/ KernelStep(c, s)
      BY <2>2 DEF Next
    <3>2. CASE Stamp(c) \/ Account(c) \/ TimerTick(c)
      BY <3>2, StampConserves, AccountConserves, TickConserves
    <3>3. CASE ~(Stamp(c) \/ Account(c) \/ TimerTick(c))
      BY <3>1, <3>3, OthersQuiet, QuietConserves DEF scheduler
    <3> QED BY <3>2, <3>3
  <2> QED BY <2>1, <2>2
<1> QED BY <1>1, <1>2, TableInvariance, PTL DEF Spec

-----------------------------------------------------------------------------
\* The lottery on one CPU.

\* A small number is its own remainder.
LEMMA ModSmall ==
    ASSUME NEW x \in Nat, NEW m \in Nat, x < m
    PROVE  x % m = x
  OBVIOUS

\* A remainder is below the divisor.
LEMMA ModRange ==
    ASSUME NEW x \in Nat, NEW m \in Nat \ {0}
    PROVE  x % m \in 0 .. m - 1
  OBVIOUS

\* An int is not changed as long as it does not overflow.
LEMMA HalfWord == Word \div 2 \in Nat /\ Word = 2 * (Word \div 2) /\ Word \div 2 > 1
  BY LotteryAssumption

\* An int that does not overflow is itself.
LEMMA WrapSmall ==
    ASSUME NEW i \in Nat, i < Word \div 2
    PROVE  Wrap(i) = i
<1> DEFINE h == Word \div 2
<1>1. h \in Nat /\ Word = 2 * h
  BY HalfWord
<1>2. Word \in Nat
  BY LotteryAssumption
<1> HIDE DEF h
<1>3. i + h \in Nat /\ i + h < Word
  BY <1>1 DEF h
<1>4. (i + h) % Word = i + h
  BY <1>2, <1>3, ModSmall
<1> QED BY <1>1, <1>4 DEF Wrap, h

\* The cumulated tickets reach their total at the last runnable process.
LEMMA LastSlot ==
    ASSUME NEW S \in SUBSET Slots, S # {}
    PROVE  \E m \in S : \A i \in S : i <= m
<1> DEFINE T == {NPROC - 1 - i : i \in S}
<1>1. T \in SUBSET Slots /\ T # {}
  <2>1. ASSUME NEW i \in S PROVE NPROC - 1 - i \in Slots
    BY LotteryAssumption DEF Slots
  <2> QED BY <2>1
<1>2. Least(T) \in T /\ \A i \in T : Least(T) <= i
  BY <1>1, LeastFirst
<1>3. PICK m \in S : Least(T) = NPROC - 1 - m
  BY <1>2
<1>4. ASSUME NEW i \in S PROVE i <= m
  <2>1. NPROC - 1 - m <= NPROC - 1 - i
    BY <1>2, <1>3
  <2>2. m \in Int /\ i \in Int /\ NPROC \in Int
    BY LotteryAssumption DEF Slots
  <2> QED BY <2>1, <2>2
<1> QED BY <1>4

\* The runnable processes' tickets fit into an int.
NoOverflow == Cardinality(TicketSet(Slots)) < Word \div 2

\* What the scheduler has counted and drawn is still covered by the table.
LotteryInv ==
    \A c \in CPUs :
        /\ cpu[c].pc = "draw" => cpu[c].total \in Nat /\ cpu[c].total <= Cardinality(TicketSet(Slots))
        /\ cpu[c].pc = "select" => cpu[c].winning \in Nat /\ cpu[c].winning <= Cardinality(TicketSet(Slots))

\* The ticket of a lottery in progress is covered when the last runnable process is reached.
LEMMA WinnerFound ==
    ASSUME TableInv, NoOverflow, LotteryInv
    PROVE  LotteryHasWinner
<1> SUFFICES ASSUME NEW c \in CPUs, cpu[c].pc = "select", Runnable # {}
             PROVE  Winners(c) # {}
  BY DEF LotteryHasWinner
<1>1. Runnable \in SUBSET Slots
  BY DEF Runnable, InState
<1>2. PICK m \in Runnable : \A i \in Runnable : i <= m
  BY <1>1, LastSlot
<1>3. (0 .. m) \cap Runnable = Slots \cap Runnable
  BY <1>1, <1>2, LotteryAssumption DEF Slots
<1>4. TicketSet(0 .. m) = TicketSet(Slots)
  BY <1>3 DEF TicketSet
<1>5. Cardinality(TicketSet(Slots)) \in Nat
  BY TicketsFinite DEF TableInv
<1>6. TicketsOf(0 .. m) = Cardinality(TicketSet(Slots))
  BY <1>4, <1>5, WrapSmall DEF NoOverflow, TicketsOf
<1>7. TicketsOf(0 .. m) >= cpu[c].winning
  BY <1>5, <1>6 DEF LotteryInv
<1> QED BY <1>7 DEF Winners

\* The tickets are finitely many after a step as well.
LEMMA TicketsFiniteNext ==
    (TypeOK => IsFiniteSet(TicketSet(Slots)) /\ Cardinality(TicketSet(Slots)) \in Nat)'
<1>1. TypeOK => IsFiniteSet(TicketSet(Slots)) /\ Cardinality(TicketSet(Slots)) \in Nat
  BY TicketsFinite
<1> QED BY <1>1, PTL

\* Steps that leave the lottery alone on the only CPU.
LEMMA LotteryOver ==
    ASSUME NCPU = 1, NEW c \in CPUs, cpu'[c].pc \notin {"draw", "select"}
    PROVE  LotteryInv'
  BY SlotFacts DEF LotteryInv

\* The drawn ticket stays good when the table gains tickets under the lottery.
LEMMA LotteryGrows ==
    ASSUME TableInv, TableInv', LotteryInv, TicketSet(Slots) \subseteq TicketSet(Slots)',
           \A d \in CPUs : /\ cpu'[d].pc = cpu[d].pc
                           /\ cpu'[d].total = cpu[d].total /\ cpu'[d].winning = cpu[d].winning
    PROVE  LotteryInv'
<1> DEFINE T == TicketSet(Slots)
<1>1. IsFiniteSet(T) /\ Cardinality(T) \in Nat
  BY TicketsFinite DEF TableInv
<1>2. IsFiniteSet(T') /\ Cardinality(T') \in Nat
  BY TicketsFiniteNext DEF TableInv
<1>3. Cardinality(T) <= Cardinality(T')
  BY <1>2, FS_Subset
<1> HIDE DEF T
<1>4. ASSUME NEW d \in CPUs, cpu'[d].pc = "draw"
      PROVE  cpu'[d].total \in Nat /\ cpu'[d].total <= Cardinality(T')
  <2>1. cpu[d].total \in Nat /\ cpu[d].total <= Cardinality(T) /\ cpu'[d].total = cpu[d].total
    BY <1>4 DEF LotteryInv, T
  <2> QED BY <1>1, <1>2, <1>3, <2>1
<1>5. ASSUME NEW d \in CPUs, cpu'[d].pc = "select"
      PROVE  cpu'[d].winning \in Nat /\ cpu'[d].winning <= Cardinality(T')
  <2>1. cpu[d].winning \in Nat /\ cpu[d].winning <= Cardinality(T) /\ cpu'[d].winning = cpu[d].winning
    BY <1>5 DEF LotteryInv, T
  <2> QED BY <1>1, <1>2, <1>3, <2>1
<1> QED BY <1>4, <1>5 DEF LotteryInv, T

\* A step that leaves the table alone keeps the set of tickets.
LEMMA SameTickets ==
    ASSUME ptable' = ptable
    PROVE  TicketSet(Slots)' = TicketSet(Slots)
  BY DEF TicketSet, Runnable, InState

\* The count is exact.
LEMMA CountLottery ==
    ASSUME NCPU = 1, TableInv, NoOverflow, NEW c \in CPUs, Count(c)
    PROVE  LotteryInv'
<1> DEFINE n == TicketsOf(Slots)
<1>1. cpu[c] \in Cpu /\ cpu \in [CPUs -> Cpu]
  BY DEF TableInv, TypeOK
<1>2. n = Cardinality(TicketSet(Slots)) /\ n \in Nat
  <2>1. Cardinality(TicketSet(Slots)) \in Nat
    BY TicketsFinite DEF TableInv
  <2> QED BY <2>1, WrapSmall DEF NoOverflow, TicketsOf
<1>3. cpu'[c] = [cpu[c] EXCEPT !.pc = "draw", !.total = n] /\ ptable' = ptable
  BY <1>1 DEF Count
<1> HIDE DEF n
<1>4. cpu'[c].pc = "draw" /\ cpu'[c].total = n
  BY <1>1, <1>3 DEF Cpu
<1>5. TicketSet(Slots)' = TicketSet(Slots)
  BY <1>3, SameTickets
<1>6. \A d \in CPUs : d = c
  BY SlotFacts
<1>7. n <= Cardinality(TicketSet(Slots))'
  BY <1>2, <1>5
<1> QED BY <1>2, <1>4, <1>6, <1>7 DEF LotteryInv

\* The draw is a ticket that was counted (or no ticket, the number 0).
LEMMA DrawLottery ==
    ASSUME NCPU = 1, TableInv, NoOverflow, LotteryInv, NEW c \in CPUs, Draw(c)
    PROVE  LotteryInv'
<1> DEFINE T == TicketSet(Slots)
           t == cpu[c].total
<1>1. cpu[c] \in Cpu /\ cpu \in [CPUs -> Cpu] /\ cpu[c].pc = "draw"
  BY DEF TableInv, TypeOK, Draw, SchedAt
<1>2. Cardinality(T) \in Nat
  BY TicketsFinite DEF TableInv
<1>3. t \in Nat /\ t <= Cardinality(T) /\ t < Word \div 2
  BY <1>1, <1>2, HalfWord DEF LotteryInv, NoOverflow
<1>4. T' = T
  BY SameTickets DEF Draw
<1>5. \A d \in CPUs : d = c
  BY SlotFacts
<1> HIDE DEF T, t
<1>6. CASE cpu' = cpu
  <2>1. cpu'[c].pc = "draw" /\ cpu'[c].total = t
    BY <1>1, <1>6 DEF t
  <2>2. t <= Cardinality(T')
    BY <1>3, <1>4
  <2> QED BY <1>3, <1>5, <2>1, <2>2 DEF LotteryInv, T
<1>7. CASE cpu' # cpu
  <2>1. PICK i \in 0 .. ticks - 1 : cpu' = [cpu EXCEPT ![c] = [@ EXCEPT !.pc = "select", !.winning = Wrap(i % Divisor(c))]]
    BY <1>7 DEF Draw
  <2>2. Divisor(c) = t + 1
    <3>1. t + 1 \in Nat /\ t + 1 < Word /\ Word \in Nat
      BY <1>3, HalfWord, LotteryAssumption
    <3>2. (t + 1) % Word = t + 1
      BY <3>1, ModSmall
    <3> QED BY <3>2 DEF Divisor, t
  <2>3. i \in Nat
    OBVIOUS
  <2> DEFINE w == i % (t + 1)
  <2>4. w \in 0 .. t
    <3>1. t + 1 \in Nat \ {0}
      BY <1>3
    <3>2. i % (t + 1) \in 0 .. (t + 1) - 1
      BY <2>3, <3>1, ModRange
    <3>3. (t + 1) - 1 = t
      BY <1>3
    <3> QED BY <3>2, <3>3
  <2>5. Wrap(i % Divisor(c)) = w
    <3>1. w \in Nat /\ w < Word \div 2
      <4> HIDE DEF w
      <4> QED BY <1>3, <2>4, HalfWord
    <3>2. i % Divisor(c) = w
      BY <2>2
    <3> HIDE DEF w
    <3> QED BY <3>1, <3>2, WrapSmall
  <2> HIDE DEF w
  <2>6. cpu'[c] = [cpu[c] EXCEPT !.pc = "select", !.winning = w]
    BY <1>1, <2>1, <2>5
  <2>7. cpu'[c].pc = "select" /\ cpu'[c].winning = w
    BY <1>1, <2>6 DEF Cpu
  <2>8. w \in Nat /\ w <= Cardinality(T')
    BY <1>2, <1>3, <1>4, <2>4
  <2> QED BY <1>5, <2>7, <2>8 DEF LotteryInv, T
<1> QED BY <1>6, <1>7

\* The timer only adds runnable processes.
LEMMA TimerLottery ==
    ASSUME NCPU = 1, TableInv, TableInv', LotteryInv, NEW c \in CPUs, TimerTick(c) \/ TimerWake(c)
    PROVE  LotteryInv'
<1>1. \A d \in CPUs : /\ cpu'[d].pc = cpu[d].pc
                      /\ cpu'[d].total = cpu[d].total /\ cpu'[d].winning = cpu[d].winning
  <2> DEFINE v == IF cpu[c].pc = "proc" THEN "yield" ELSE "no"
  <2>1. cpu' = [cpu EXCEPT ![c].irq = v] \/ TimerTick(c)
    BY DEF TimerWake
  <2>2. TimerTick(c) => cpu' = [cpu EXCEPT ![c].irq = "wake"]
    BY DEF TimerTick
  <2>3. PICK i : cpu' = [cpu EXCEPT ![c].irq = i]
    BY <2>1, <2>2
  <2>4. cpu \in [CPUs -> Cpu]
    BY DEF TableInv, TypeOK
  <2> QED BY <2>3, <2>4 DEF Cpu
<1>2. CASE TimerTick(c)
  BY <1>1, <1>2, SameTickets, LotteryGrows DEF TimerTick
<1>3. CASE TimerWake(c)
  <2>1. ptable \in [Slots -> Proc] /\ ptable' = wakeup1(ptable, TicksChan)
    BY <1>3 DEF TimerWake, TableInv, TypeOK
  <2>2. \A q \in Slots : ptable'[q].tickets = ptable[q].tickets /\ ptable'[q].state = Wakes(ptable[q], TicksChan)
    BY <2>1, WakeupUpdate DEF Alike
  <2>3. Runnable \subseteq Runnable'
    BY <2>2 DEF Runnable, InState, Wakes
  <2>4. TicketSet(Slots) \subseteq TicketSet(Slots)'
    <3>1. ASSUME NEW x \in TicketSet(Slots) PROVE x \in TicketSet(Slots)'
      <4>1. PICK q \in Slots \cap Runnable : x \in {q} \X (1 .. ptable[q].tickets)
        BY DEF TicketSet
      <4>2. q \in Slots \cap Runnable' /\ x \in {q} \X (1 .. ptable'[q].tickets)
        BY <2>2, <2>3, <4>1
      <4> QED BY <4>2 DEF TicketSet
    <3> QED BY <3>1
  <2> QED BY <1>1, <2>4, LotteryGrows
<1> QED BY <1>2, <1>3

\* All other steps are taken outside the lottery or end it.
LEMMA OtherLottery ==
    ASSUME NCPU = 1, TableInv, NEW c \in CPUs,
           \/ Select(c) \/ Stamp(c) \/ Account(c) \/ TimerExit(c) \/ yield(c) \/ TimerElsewhere(c)
           \/ \E s \in Slots : UserCall(c, s) \/ KernelStep(c, s)
    PROVE  LotteryInv'
<1>1. cpu[c] \in Cpu /\ cpu \in [CPUs -> Cpu] /\ TypeOK
  BY DEF TableInv, TypeOK
<1>2. CASE Select(c)
  <2> DEFINE n == Least(Winners(c))
  <2>1. \/ cpu'[c] = [cpu[c] EXCEPT !.pc = "count", !.total = 0, !.winning = 0]
        \/ cpu'[c] = [cpu[c] EXCEPT !.pc = "stamp", !.proc = n, !.total = 0, !.winning = 0]
    BY <1>1, <1>2 DEF Select
  <2> HIDE DEF n
  <2>2. cpu'[c].pc \in {"count", "stamp"}
    BY <1>1, <2>1 DEF Cpu
  <2> QED BY <2>2, LotteryOver
<1>3. CASE Stamp(c) \/ Account(c)
  <2>1. cpu'[c].pc \in {"proc", "count"}
    BY ZenonT(60), <1>1, <1>3 DEF Stamp, Account, Cpu
  <2> QED BY <2>1, LotteryOver
<1>4. CASE TimerExit(c) \/ TimerElsewhere(c)
  <2>1. cpu[c].pc = "proc"
    BY <1>4 DEF TimerExit, TimerElsewhere, TableInv, CPUState
  <2>2. cpu'[c].pc = "proc"
    BY <1>1, <1>4, <2>1 DEF TimerExit, TimerElsewhere, Cpu
  <2> QED BY <2>2, LotteryOver
<1>5. ASSUME sched(c) PROVE LotteryInv'
  <2>1. cpu'[c].pc = "account"
    BY <1>1, <1>5, SchedUpdate DEF Scheds
  <2> QED BY <2>1, LotteryOver
<1>6. ASSUME cpu[c].pc = "proc", cpu' = cpu PROVE LotteryInv'
  BY <1>6, LotteryOver
<1>7. CASE yield(c)
  BY <1>5, <1>7 DEF yield
<1>8. ASSUME NEW s \in Slots, UserCall(c, s) PROVE LotteryInv'
  <2>1. cpu[c].pc = "proc"
    BY <1>8 DEF UserCall, ForkAlloc, ExitStart, WaitLock, SleepStart, Kill, sys_settickets, sys_getpinfo,
                Calling, Runs
  <2>2. cpu' = cpu
    BY <1>8 DEF UserCall, ForkAlloc, ExitStart, WaitLock, SleepStart, Kill, sys_settickets, sys_getpinfo
  <2> QED BY <1>6, <2>1, <2>2
<1>9. ASSUME NEW s \in Slots, KernelStep(c, s) PROVE LotteryInv'
  <2>1. CASE Exit(c, s) \/ WaitSleep(c, s) \/ Sleep(c, s)
    BY <1>5, <2>1 DEF Exit, WaitSleep, Sleep
  <2>2. CASE ~(Exit(c, s) \/ WaitSleep(c, s) \/ Sleep(c, s))
    <3>1. cpu[c].pc = "proc"
      BY <1>9, <2>2 DEF KernelStep, ForkFails, ForkCopy, ForkReady, SysReturn, ExitPanics, WaitReap,
                        WaitFails, SleepAgain, SleepCheck, Runs
    <3>2. cpu' = cpu
      BY <1>9, <2>2 DEF KernelStep, ForkFails, ForkCopy, ForkReady, SysReturn, ExitPanics, WaitReap,
                        WaitFails, SleepAgain, SleepCheck
    <3> QED BY <1>6, <3>1, <3>2
  <2> QED BY <2>1, <2>2
<1> QED BY <1>2, <1>3, <1>4, <1>7, <1>8, <1>9

\* On one CPU, as long as the tickets of the runnable processes fit into an
\* int, the scheduler's selection never comes up empty while there is a process
\* to run, although interrupts change the table between count, draw and select.
THEOREM LotteryAlwaysHasWinner ==
    ASSUME NCPU = 1
    PROVE  Spec /\ []NoOverflow => []LotteryHasWinner
<1>1. Init => LotteryInv
  BY DEF Init, LotteryInv
<1>2. TableInv /\ TableInv' /\ NoOverflow /\ LotteryInv /\ [Next]_vars => LotteryInv'
  <2> SUFFICES ASSUME TableInv, TableInv', NoOverflow, LotteryInv, [Next]_vars PROVE LotteryInv'
    OBVIOUS
  <2>1. CASE UNCHANGED vars
    <3>1. TicketSet(Slots)' = TicketSet(Slots)
      BY <2>1, SameTickets DEF vars
    <3> QED BY <2>1, <3>1, LotteryGrows DEF vars
  <2>2. CASE Next
    <3>1. PICK c \in CPUs :
              \/ scheduler(c) \/ trap(c) \/ TimerTick(c) \/ TimerElsewhere(c)
              \/ \E s \in Slots : UserCall(c, s) \/ KernelStep(c, s)
      BY <2>2 DEF Next
    <3>2. CASE Count(c) \/ Draw(c)
      BY <3>2, CountLottery, DrawLottery
    <3>3. CASE TimerTick(c) \/ TimerWake(c)
      BY <3>3, TimerLottery
    <3>4. CASE ~(Count(c) \/ Draw(c) \/ TimerTick(c) \/ TimerWake(c))
      BY <3>1, <3>4, OtherLottery DEF scheduler, trap
    <3> QED BY <3>2, <3>3, <3>4
  <2> QED BY <2>1, <2>2
<1>3. TableInv /\ NoOverflow /\ LotteryInv => LotteryHasWinner
  BY WinnerFound
<1> QED BY <1>1, <1>2, <1>3, TableInvariance, PTL DEF Spec

-----------------------------------------------------------------------------
(* The buffer cache, the sleep locks and the disk driver. *)

\* Where a process is in bread, bwrite and brelse; in HoldPcs it has the lock of its buffer.
HoldPcs == {"locked", "reading", "have", "writing", "release"}
BufPcs == {"idle", "lock", "drop"} \cup HoldPcs
Ops == {"none", "read", "write", "log", "install"}
Buffer == [blk : Block \cup {NoBlock}, ref : Nat, valid : BOOLEAN, dirty : BOOLEAN, data : Nat, holder : User \cup {0}]
Task == [pc : BufPcs, op : Ops, blk : Block \cup {NoBlock}, b : Buf \cup {0}, asleep : BOOLEAN]
BTypes ==
    /\ buf \in [Buf -> Buffer] /\ user \in [User -> Task]
    /\ idequeue \in Seq(Buf) /\ disk \in [Block -> Nat] /\ sum \in [Block -> Nat]

\* The list holds every buffer.
Listed == lru \in [Buf -> Buf] /\ \A b \in Buf : \E k \in Buf : lru[k] = b

\* A process in a call has a reference to the buffer of its block, and the
\* count of a buffer is exact.
Users(b) == {p \in User : user[p].b = b}
Refs ==
    /\ \A p \in User : user[p].pc = "idle" <=> user[p].b = 0
    /\ \A p \in User : user[p].b # 0 => user[p].blk \in Block /\ buf[user[p].b].blk = user[p].blk
    /\ \A b \in Buf : buf[b].ref = Cardinality(Users(b))
OneBuffer == \A b, c \in Buf : buf[b].blk = buf[c].blk /\ b # c => buf[b].blk = NoBlock

\* The sleep lock of a buffer is held by the process that works on it, and who
\* sleeps for it sleeps while it is held.
Waits(p) == user[p].pc \in {"reading", "writing"} /\ user[p].asleep
HasLock(p) == user[p].pc \in HoldPcs => buf[user[p].b].holder = p
HeldBy(b) == buf[b].holder # 0 => user[buf[b].holder].b = b /\ user[buf[b].holder].pc \in HoldPcs
Sleeps(p) == user[p].asleep => Waits(p) \/ (user[p].pc = "lock" /\ buf[user[p].b].holder # 0)
LockWords ==
    /\ \A p \in User : HasLock(p) /\ Sleeps(p)
    /\ \A b \in Buf : HeldBy(b)

\* A buffer is queued once, while its holder sleeps for it.
Queued(b) == \E k \in 1 .. Len(idequeue) : idequeue[k] = b
Queue ==
    /\ \A i, j \in 1 .. Len(idequeue) : idequeue[i] = idequeue[j] => i = j
    /\ \A p \in User : Waits(p) => Queued(user[p].b)
    /\ \A b \in Buf : Queued(b) => \E p \in User : user[p].b = b /\ Waits(p)

\* A dirty buffer is valid, and so is one that has been read or written.
Transferred(p) ==
    /\ user[p].pc = "have" => buf[user[p].b].valid
    /\ user[p].pc \in {"reading", "writing"} /\ ~user[p].asleep => buf[user[p].b].valid /\ ~buf[user[p].b].dirty
Flags ==
    /\ \A b \in Buf : buf[b].dirty => buf[b].valid
    /\ \A p \in User : Transferred(p)

\* A valid buffer has all additions to its block, and so has the disk when the
\* block has no dirty buffer, unless a read of the block has failed; the first of
\* the queue is on its way to the disk.
Known == Block \ misread
Values ==
    /\ \A b \in Buf : buf[b].blk \in Known /\ buf[b].valid => buf[b].data = sum[buf[b].blk]
    /\ \A k \in Known : (\A b \in Buf : buf[b].blk = k => ~buf[b].dirty) => disk[k] = sum[k]
    /\ idequeue # <<>> /\ buf[Head(idequeue)].dirty => disk[buf[Head(idequeue)].blk] = buf[Head(idequeue)].data

CacheInv ==
    /\ BTypes /\ Listed /\ Refs /\ OneBuffer /\ LockWords /\ Queue /\ Flags /\ Values
    /\ bpanic # "iderw: nothing to do"

-----------------------------------------------------------------------------
\* The searches of bget find the first and the last that fits.
LEMMA MinMax ==
    ASSUME NEW S \in SUBSET Buf, S # {}
    PROVE  Min(S) \in S /\ Max(S) \in S
<1>1. NBUF \in Nat /\ \A i \in Buf : i \in Nat /\ NBUF - i \in Nat
  BY BlocksAssumption DEF Buf
<1>2. S \subseteq Nat
  BY <1>1
<1>3. \E i \in S : \A j \in S : i <= j
  <2>1. PICK i \in S : \A j \in S : <<j, i>> \notin OpToRel(<, Nat)
    BY Zenon, <1>2, WFMin, NatLessThanWellFounded
  <2>2. ASSUME NEW j \in S PROVE i <= j
    <3>1. i \in Nat /\ j \in Nat
      BY <1>2
    <3>2. ~(j < i)
      BY <2>1, <3>1, Zenon DEF OpToRel
    <3> QED BY <3>1, <3>2
  <2> QED BY <2>2
<1>4. \E i \in S : \A j \in S : i >= j
  <2> DEFINE T == {NBUF - i : i \in S}
  <2>1. T \subseteq Nat /\ T # {}
    BY <1>1
  <2>2. PICK m \in T : \A j \in T : <<j, m>> \notin OpToRel(<, Nat)
    BY Zenon, <2>1, WFMin, NatLessThanWellFounded
  <2>3. PICK i \in S : m = NBUF - i
    BY Zenon, <2>2
  <2>4. ASSUME NEW j \in S PROVE i >= j
    <3>1. NBUF - j \in T /\ NBUF - j \in Nat /\ m \in Nat
      BY <1>1, <2>1
    <3>2. ~(NBUF - j < m)
      <4> DEFINE d == NBUF - j
      <4>1. d \in T /\ d \in Nat
        BY <3>1
      <4> HIDE DEF d, T
      <4>2. ~(d < m)
        BY <4>1, <2>2, <3>1, Zenon DEF OpToRel
      <4> QED BY <4>2 DEF d
    <3>3. i \in Nat /\ j \in Nat
      BY <1>2
    <3> QED BY <1>1, <2>3, <3>2, <3>3
  <2> QED BY <2>4
<1> QED BY <1>3, <1>4 DEF Min, Max

\* Nobody uses buffer number 0, and no process is number 0.
LEMMA Zeros == 0 \notin Buf /\ 0 \notin User /\ NoBlock = 0 /\ NoBlock \notin Block
BY BlocksAssumption DEF Buf, NoBlock

\* The processes of a buffer are finitely many.
LEMMA UsersFinite ==
    ASSUME NEW b
    PROVE  IsFiniteSet(Users(b)) /\ Cardinality(Users(b)) \in Nat
<1>1. Users(b) \in SUBSET User
  BY DEF Users
<1> QED BY <1>1, BlocksAssumption, FS_Subset, FS_CardinalityType

\* A buffer without references has no users; one with a user has references.
LEMMA RefsCount ==
    ASSUME BTypes, Refs
    PROVE  /\ \A b \in Buf : buf[b].ref = 0 => \A p \in User : user[p].b # b
           /\ \A p \in User : user[p].b # 0 => buf[user[p].b].ref > 0 /\ user[p].b \in Buf
<1>1. ASSUME NEW b \in Buf, buf[b].ref = 0, NEW p \in User, user[p].b = b
      PROVE  FALSE
  <2>1. Cardinality(Users(b)) = 0
    BY <1>1 DEF Refs
  <2>2. Users(b) = {}
    BY <2>1, UsersFinite, FS_EmptySet
  <2> QED BY <1>1, <2>2 DEF Users
<1>2. ASSUME NEW p \in User, user[p].b # 0
      PROVE  buf[user[p].b].ref > 0 /\ user[p].b \in Buf
  <2>1. user[p].b \in Buf
    BY <1>2 DEF BTypes, Task
  <2>2. buf[user[p].b].ref \in Nat
    BY <2>1 DEF BTypes, Buffer
  <2> QED BY <1>1, <2>1, <2>2
<1> QED BY <1>1, <1>2

\* What bget finds: the buffer of the block, or one that is free and clean.
Cached(blk) == {k \in DOMAIN lru : buf[lru[k]].blk = blk}
Found(blk) == IF Cached(blk) # {} THEN lru[Min(Cached(blk))] ELSE Victim
LEMMA FoundBuffer ==
    ASSUME CacheInv, NEW blk \in Block
    PROVE  /\ Cached(blk) # {} => Found(blk) \in Buf /\ buf[Found(blk)].blk = blk
           /\ Cached(blk) = {} => \A b \in Buf : buf[b].blk # blk
           /\ Cached(blk) = {} /\ Found(blk) # 0 =>
                 Found(blk) \in Buf /\ buf[Found(blk)].ref = 0 /\ ~buf[Found(blk)].dirty
<1>1. lru \in [Buf -> Buf] /\ DOMAIN lru = Buf /\ \A b \in Buf : \E k \in Buf : lru[k] = b
  BY Zenon DEF CacheInv, Listed
<1>2. Cached(blk) \in SUBSET Buf
  BY <1>1 DEF Cached
<1>3. ASSUME Cached(blk) # {}
      PROVE  Found(blk) \in Buf /\ buf[Found(blk)].blk = blk
  <2> DEFINE m == Min(Cached(blk))
  <2>1. m \in Cached(blk)
    BY <1>2, <1>3, MinMax
  <2>2. Found(blk) = lru[m]
    BY <1>3 DEF Found
  <2> HIDE DEF m
  <2> QED BY <1>1, <2>1, <2>2 DEF Cached
<1>4. ASSUME Cached(blk) = {}, NEW b \in Buf, buf[b].blk = blk
      PROVE  FALSE
  BY <1>1, <1>4 DEF Cached
<1>5. ASSUME Cached(blk) = {}, Found(blk) # 0
      PROVE  Found(blk) \in Buf /\ buf[Found(blk)].ref = 0 /\ ~buf[Found(blk)].dirty
  <2> DEFINE ks == {k \in DOMAIN lru : buf[lru[k]].ref = 0 /\ ~buf[lru[k]].dirty}
             m == Max(ks)
  <2>1. Found(blk) = (IF ks = {} THEN 0 ELSE lru[m])
    BY <1>5 DEF Found, Victim
  <2>2. ks # {} /\ ks \in SUBSET Buf
    BY <1>1, <1>5, <2>1
  <2>3. m \in ks
    BY <2>2, MinMax
  <2>4. Found(blk) = lru[m]
    BY <2>1, <2>2
  <2> HIDE DEF m
  <2> QED BY <1>1, <2>3, <2>4
<1> QED BY <1>3, <1>4, <1>5

-----------------------------------------------------------------------------
\* What a step may leave as it was, of a process and of a buffer.
SameUse(q) == user'[q].b = user[q].b /\ user'[q].blk = user[q].blk /\ (user'[q].pc = "idle" <=> user[q].pc = "idle")
SameFlags(c) == (buf'[c].valid <=> buf[c].valid) /\ (buf'[c].dirty <=> buf[c].dirty)
SameData(c) == buf'[c].blk = buf[c].blk /\ buf'[c].data = buf[c].data /\ SameFlags(c)

\* A process in a call has a buffer.
LEMMA HasBuffer ==
    ASSUME CacheInv, NEW p \in User
    PROVE  /\ user[p] \in Task /\ (user[p].pc # "idle" => user[p].b \in Buf /\ buf[user[p].b] \in Buffer)
           /\ HasLock(p) /\ Sleeps(p) /\ Transferred(p)
<1>1. user[p] \in Task /\ (user[p].b # 0 => user[p].b \in Buf)
  BY Zenon DEF CacheInv, BTypes, Task
<1>2. user[p].pc # "idle" => user[p].b # 0
  BY Zenon DEF CacheInv, Refs
<1>3. user[p].b \in Buf => buf[user[p].b] \in Buffer
  BY Zenon DEF CacheInv, BTypes
<1>4. HasLock(p) /\ Sleeps(p) /\ Transferred(p)
  BY Zenon DEF CacheInv, LockWords, Flags
<1> QED BY <1>1, <1>2, <1>3, <1>4

\* References stay exact when nobody looks up or drops a buffer.
LEMMA RefsKept ==
    ASSUME CacheInv, \A q \in User : SameUse(q),
           \A c \in Buf : buf'[c].blk = buf[c].blk /\ buf'[c].ref = buf[c].ref
    PROVE  Refs' /\ OneBuffer'
<1>0. BTypes /\ Refs /\ OneBuffer
  BY Zenon DEF CacheInv
<1>1. \A c \in Buf : Users(c)' = Users(c)
  BY DEF Users, SameUse
<1>2. \A q \in User : user[q].b # 0 => user[q].b \in Buf
  BY <1>0 DEF BTypes, Task
<1>3. \A q \in User : user'[q].pc = "idle" <=> user'[q].b = 0
  BY <1>0 DEF Refs, SameUse
<1>4. \A q \in User : user'[q].b # 0 => user'[q].blk \in Block /\ buf'[user'[q].b].blk = user'[q].blk
  BY <1>0, <1>2 DEF Refs, SameUse
<1>5. \A c \in Buf : buf'[c].ref = Cardinality(Users(c)')
  BY <1>0, <1>1 DEF Refs
<1>6. OneBuffer'
  BY <1>0 DEF OneBuffer
<1> QED BY <1>3, <1>4, <1>5, <1>6 DEF Refs

\* The first request of the queue.
LEMMA QueueHead ==
    ASSUME CacheInv, idequeue # <<>>
    PROVE  /\ Head(idequeue) = idequeue[1] /\ 1 \in 1 .. Len(idequeue) /\ idequeue[1] \in Buf
           /\ Queued(idequeue[1])
<1>1. idequeue \in Seq(Buf)
  BY Zenon DEF CacheInv, BTypes
<1>2. Head(idequeue) = idequeue[1] /\ 1 \in 1 .. Len(idequeue)
  BY <1>1
<1>3. idequeue[1] \in Buf
  BY <1>1, <1>2
<1> QED BY <1>2, <1>3 DEF Queued

\* The parts of the invariant that are about the data of the buffers.
LEMMA DataKept ==
    ASSUME CacheInv, UNCHANGED misread, \A c \in Buf : SameData(c), UNCHANGED <<idequeue, disk, sum>>
    PROVE  Values' /\ \A c \in Buf : buf'[c].dirty => buf'[c].valid
<1>0. Values /\ Flags
  BY Zenon DEF CacheInv
<1>1. idequeue # <<>> /\ buf'[Head(idequeue)].dirty =>
            disk[buf'[Head(idequeue)].blk] = buf'[Head(idequeue)].data
  <2> SUFFICES ASSUME idequeue # <<>>, buf'[Head(idequeue)].dirty
               PROVE  disk[buf'[Head(idequeue)].blk] = buf'[Head(idequeue)].data
    OBVIOUS
  <2> DEFINE h == Head(idequeue)
  <2>1. h \in Buf
    BY QueueHead
  <2>2. buf[h].dirty => disk[buf[h].blk] = buf[h].data
    BY <1>0 DEF Values
  <2> HIDE DEF h
  <2>3. buf'[h].dirty => disk[buf'[h].blk] = buf'[h].data
    BY <2>1, <2>2 DEF SameData, SameFlags
  <2> QED BY <2>3 DEF h
<1>2. \A b \in Buf : buf'[b].blk \in Known /\ buf'[b].valid => buf'[b].data = sum[buf'[b].blk]
  BY <1>0 DEF Values, SameData, SameFlags
<1>3. \A k \in Known : (\A b \in Buf : buf'[b].blk = k => ~buf'[b].dirty) => disk[k] = sum[k]
  BY <1>0 DEF Values, SameData, SameFlags
<1>4. \A c \in Buf : buf'[c].dirty => buf'[c].valid
  BY <1>0 DEF Flags, SameData, SameFlags
<1>5. Known' = Known
  BY DEF Known
<1> QED BY <1>1, <1>2, <1>3, <1>4, <1>5 DEF Values

\* The queue stays as it is when nobody starts or ends waiting for the disk.
LEMMA QueueKept ==
    ASSUME CacheInv, \A q \in User : Waits(q)' <=> Waits(q), \A q \in User : Waits(q) => user'[q].b = user[q].b,
           idequeue' = idequeue
    PROVE  Queue'
<1>0. Queue
  BY Zenon DEF CacheInv
<1>1. \A c : Queued(c)' <=> Queued(c)
  BY DEF Queued
<1>2. \A q \in User : Waits(q)' => Queued(user[q].b)'
  BY <1>0 DEF Queue, Queued
<1>3. \A b \in Buf : Queued(b)' => \E q \in User : user'[q].b = b /\ Waits(q)'
  BY <1>0, <1>1 DEF Queue
<1>4. \A i, j \in 1 .. Len(idequeue) : idequeue[i] = idequeue[j] => i = j
  BY <1>0 DEF Queue
<1> QED BY <1>2, <1>3, <1>4 DEF Queue, Queued

\* A process moves on with its buffer, or goes to sleep for its lock.
LEMMA MoveKeeps ==
    ASSUME CacheInv, UNCHANGED misread, NEW p \in User, NEW r \in Task, user' = [user EXCEPT ![p] = r],
           r.b = user[p].b, r.blk = user[p].blk, user[p].pc # "idle", r.pc # "idle",
           r.pc \in HoldPcs <=> user[p].pc \in HoldPcs, ~Waits(p),
           r.asleep => r.pc = "lock" /\ buf[r.b].holder # 0,
           r.pc = "have" => buf[r.b].valid,
           r.pc \in {"reading", "writing"} => buf[r.b].valid /\ ~buf[r.b].dirty,
           UNCHANGED <<buf, lru, idequeue, disk, sum>>, bpanic' # "iderw: nothing to do"
    PROVE  CacheInv'
<1>0. BTypes /\ Listed /\ LockWords /\ Flags
  BY Zenon DEF CacheInv
<1>1. user \in [User -> Task]
  BY Zenon, <1>0 DEF BTypes
<1>2. user' \in [User -> Task] /\ user'[p] = r /\ \A q \in User : q # p => user'[q] = user[q]
  BY Zenon, <1>1
<1>3. BTypes' /\ Listed'
  BY Zenon, <1>0, <1>2 DEF BTypes, Listed
<1>4. \A q \in User : SameUse(q)
  BY Zenon, <1>2 DEF SameUse
<1>5. Refs' /\ OneBuffer'
  BY Zenon, <1>4, RefsKept
<1>6. LockWords'
  <2>1. \A q \in User : HasLock(q)'
    BY Zenon, <1>0, <1>2 DEF LockWords, HasLock
  <2>2. \A q \in User : Sleeps(q)'
    <3> TAKE q \in User
    <3>1. CASE q = p
      BY Zenon, <1>2, <3>1 DEF Sleeps
    <3>2. CASE q # p
      <4>1. Sleeps(q)
        BY Zenon, <1>0 DEF LockWords
      <4> QED BY Zenon, <1>2, <3>2, <4>1 DEF Sleeps, Waits
    <3> QED BY Zenon, <3>1, <3>2
  <2>3. \A b \in Buf : HeldBy(b)'
    <3> TAKE b \in Buf
    <3>1. HeldBy(b) /\ buf[b].holder \in User \cup {0}
      BY Zenon, <1>0 DEF LockWords, BTypes, Buffer
    <3> QED BY Zenon, <1>2, <3>1 DEF HeldBy
  <2> QED BY Zenon, <2>1, <2>2, <2>3 DEF LockWords
<1>7. Queue'
  <2>1. \A q \in User : Waits(q)' <=> Waits(q)
    <3> TAKE q \in User
    <3>1. CASE q = p
      <4>1. ~(r.pc \in {"reading", "writing"} /\ r.asleep)
        BY Zenon
      <4> QED BY Zenon, <1>2, <3>1, <4>1 DEF Waits
    <3>2. CASE q # p
      BY Zenon, <1>2, <3>2 DEF Waits
    <3> QED BY Zenon, <3>1, <3>2
  <2> QED BY Zenon, <1>4, <2>1, QueueKept DEF SameUse
<1>8. Flags'
  BY Zenon, <1>0, <1>2 DEF Flags, Transferred
<1>9. Values'
  BY Zenon DEF CacheInv, Values, Known
<1> QED BY Zenon, <1>3, <1>5, <1>6, <1>7, <1>8, <1>9 DEF CacheInv

\* A step on the lock of buffer b: what has to be shown of it.
LEMMA LockStep ==
    ASSUME CacheInv, UNCHANGED misread, buf' \in [Buf -> Buffer], user' \in [User -> Task],
           \A c \in Buf : SameData(c) /\ buf'[c].ref = buf[c].ref,
           \A q \in User : SameUse(q), \A q \in User : Waits(q)' <=> Waits(q),
           \A q \in User : HasLock(q)' /\ Sleeps(q)' /\ Transferred(q)', \A c \in Buf : HeldBy(c)',
           UNCHANGED <<lru, idequeue, disk, sum, bpanic>>
    PROVE  CacheInv'
<1>1. Values' /\ \A c \in Buf : buf'[c].dirty => buf'[c].valid
  BY DataKept
<1>2. Refs' /\ OneBuffer'
  BY RefsKept DEF SameData
<1>3. Queue'
  BY QueueKept DEF SameUse
<1>4. BTypes' /\ Listed'
  BY Zenon DEF CacheInv, BTypes, Listed
<1> QED BY Zenon, <1>1, <1>2, <1>3, <1>4 DEF CacheInv, LockWords, Flags

\* A process takes the sleep lock of its buffer.
LEMMA LockKeeps ==
    ASSUME CacheInv, UNCHANGED misread, NEW p \in User, acquiresleep(p), buf[user[p].b].holder = 0
    PROVE  CacheInv'
<1> DEFINE b == user[p].b
<1>1. user[p].pc = "lock" /\ ~user[p].asleep
  BY Zenon DEF acquiresleep, Ready
<1>2. user[p] \in Task /\ b \in Buf /\ buf[b] \in Buffer
  BY <1>1, HasBuffer
<1>3. /\ buf' = [buf EXCEPT ![b].holder = p] /\ user' = [user EXCEPT ![p].pc = "locked"]
      /\ UNCHANGED <<lru, idequeue, disk, sum, bpanic>>
  BY DEF acquiresleep, Move, Mine
<1>4. buf \in [Buf -> Buffer] /\ user \in [User -> Task]
  BY Zenon DEF CacheInv, BTypes
<1>5. [buf[b] EXCEPT !.holder = p] \in Buffer /\ [user[p] EXCEPT !.pc = "locked"] \in Task
  BY <1>2 DEF Buffer, Task, BufPcs, HoldPcs
<1>6. buf' \in [Buf -> Buffer] /\ user' \in [User -> Task]
  BY <1>3, <1>4, <1>5
<1>7. \A c \in Buf : SameData(c) /\ buf'[c].ref = buf[c].ref /\ buf'[c].holder = IF c = b THEN p ELSE buf[c].holder
  BY <1>2, <1>3, <1>4 DEF SameData, SameFlags, Buffer
<1>8. \A q \in User : SameUse(q) /\ (user'[q].asleep <=> user[q].asleep) /\ user'[q].pc = IF q = p THEN "locked" ELSE user[q].pc
  BY <1>1, <1>3, <1>4 DEF SameUse, Task
<1>9. buf[b].holder = 0 /\ b = user[p].b
  OBVIOUS
<1>10. \A c \in Buf : buf[c].holder \in User \cup {0}
  BY <1>4 DEF Buffer
<1> HIDE DEF b
<1>11. \A q \in User : Waits(q)' <=> Waits(q)
  BY <1>1, <1>8 DEF Waits
<1>12. ASSUME NEW q \in User PROVE HasLock(q)' /\ Sleeps(q)' /\ Transferred(q)'
  <2>1. HasLock(q) /\ Sleeps(q) /\ Transferred(q) /\ (user[q].pc # "idle" => user[q].b \in Buf)
    BY HasBuffer
  <2>2. HasLock(q)'
    <3>1. CASE q = p
      BY <1>2, <1>7, <1>8, <1>9, <3>1 DEF HasLock, SameUse
    <3>2. CASE q # p
      BY <1>7, <1>8, <1>9, <2>1, <3>2, Zeros DEF HasLock, HoldPcs, SameUse
    <3> QED BY <3>1, <3>2
  <2>3. Sleeps(q)'
    <3>1. CASE q = p
      BY <1>1, <1>8, <3>1 DEF Sleeps
    <3>2. CASE q # p
      BY <1>7, <1>8, <1>11, <2>1, <3>2, Zeros DEF Sleeps, SameUse
    <3> QED BY <3>1, <3>2
  <2>4. Transferred(q)'
    BY <1>7, <1>8, <2>1 DEF Transferred, SameData, SameFlags, SameUse
  <2> QED BY <2>2, <2>3, <2>4
<1>13. ASSUME NEW c \in Buf PROVE HeldBy(c)'
  <2>1. HeldBy(c)
    BY Zenon DEF CacheInv, LockWords
  <2>2. CASE c = b
    BY <1>7, <1>8, <1>9, <2>2 DEF HeldBy, SameUse, HoldPcs
  <2>3. CASE c # b
    BY <1>1, <1>7, <1>8, <1>10, <2>1, <2>3 DEF HeldBy, SameUse, HoldPcs
  <2> QED BY <2>2, <2>3
<1> QED BY <1>3, <1>6, <1>7, <1>8, <1>11, <1>12, <1>13, LockStep

\* releasesleep frees the lock and wakes those who sleep for it.
LEMMA ReleaseKeeps ==
    ASSUME CacheInv, UNCHANGED misread, NEW p \in User, releasesleep(p)
    PROVE  CacheInv'
<1> DEFINE b == user[p].b
           W == Woken(user, {"lock"}, b)
<1>1. user[p].pc = "release" /\ ~user[p].asleep
  BY Zenon DEF releasesleep, Ready
<1>2. user[p] \in Task /\ b \in Buf /\ buf[b] \in Buffer
  BY <1>1, HasBuffer
<1>3. /\ buf' = [buf EXCEPT ![b].holder = 0] /\ user' = [W EXCEPT ![p].pc = "drop"]
      /\ UNCHANGED <<lru, idequeue, disk, sum, bpanic>>
  BY DEF releasesleep
<1>4. buf \in [Buf -> Buffer] /\ user \in [User -> Task]
  BY Zenon DEF CacheInv, BTypes
<1>5. buf[b].holder = p
  BY <1>1, HasBuffer DEF HasLock, HoldPcs
<1>6. buf' \in [Buf -> Buffer]
  <2>1. [buf[b] EXCEPT !.holder = 0] \in Buffer
    BY <1>2 DEF Buffer
  <2> QED BY <1>3, <1>4, <2>1
<1>7. \A c \in Buf : SameData(c) /\ buf'[c].ref = buf[c].ref /\ buf'[c].holder = IF c = b THEN 0 ELSE buf[c].holder
  BY <1>2, <1>3, <1>4 DEF SameData, SameFlags, Buffer
<1>8. /\ W \in [User -> Task] /\ W[p] = user[p]
      /\ \A q \in User : /\ W[q].pc = user[q].pc /\ W[q].b = user[q].b /\ W[q].blk = user[q].blk
                         /\ W[q].asleep <=> user[q].asleep /\ ~(user[q].pc = "lock" /\ user[q].b = b)
  <2>1. \A q \in User : user[q] \in Task /\ [user[q] EXCEPT !.asleep = FALSE] \in Task
    BY <1>4 DEF Task
  <2>2. W = [q \in User |-> IF user[q].pc \in {"lock"} /\ user[q].b = b THEN [user[q] EXCEPT !.asleep = FALSE] ELSE user[q]]
    BY DEF Woken
  <2> HIDE DEF W
  <2>3. W \in [User -> Task] /\ W[p] = user[p]
    BY <1>1, <2>1, <2>2
  <2>4. ASSUME NEW q \in User
        PROVE  /\ W[q].pc = user[q].pc /\ W[q].b = user[q].b /\ W[q].blk = user[q].blk
               /\ W[q].asleep <=> user[q].asleep /\ ~(user[q].pc = "lock" /\ user[q].b = b)
    <3>1. user[q] \in Task
      BY <1>4
    <3>2. CASE user[q].pc = "lock" /\ user[q].b = b
      <4>1. W[q] = [user[q] EXCEPT !.asleep = FALSE]
        BY <2>2, <3>2
      <4> QED BY <3>1, <3>2, <4>1 DEF Task
    <3>3. CASE ~(user[q].pc = "lock" /\ user[q].b = b)
      <4>1. W[q] = user[q]
        BY <2>2, <3>3
      <4> QED BY <3>1, <3>3, <4>1
    <3> QED BY <3>2, <3>3
  <2> QED BY <2>3, <2>4
<1> HIDE DEF b, W
<1>9. user' \in [User -> Task]
  <2>1. [W[p] EXCEPT !.pc = "drop"] \in Task
    BY <1>2, <1>8 DEF Task, BufPcs
  <2> QED BY <1>3, <1>8, <2>1
<1>10. \A q \in User : /\ SameUse(q) /\ user'[q].pc = IF q = p THEN "drop" ELSE user[q].pc
                       /\ user'[q].asleep <=> user[q].asleep /\ ~(user[q].pc = "lock" /\ user[q].b = b)
  <2> TAKE q \in User
  <2>1. CASE q = p
    <3>1. user'[q] = [W[p] EXCEPT !.pc = "drop"]
      BY <1>3, <1>8, <2>1
    <3> QED BY <1>1, <1>2, <1>8, <2>1, <3>1 DEF SameUse, Task
  <2>2. CASE q # p
    <3>1. user'[q] = W[q]
      BY <1>3, <1>8, <2>2
    <3> QED BY <1>8, <2>2, <3>1 DEF SameUse
  <2> QED BY <2>1, <2>2
<1>11. \A q \in User : Waits(q)' <=> Waits(q)
  <2> TAKE q \in User
  <2>1. CASE q = p
    BY <1>1, <1>10, <2>1 DEF Waits
  <2>2. CASE q # p
    BY <1>10, <2>2 DEF Waits
  <2> QED BY <2>1, <2>2
<1>12. b = user[p].b /\ \A c \in Buf : buf[c].holder \in User \cup {0}
  BY <1>4 DEF b, Buffer
<1>13. ASSUME NEW q \in User PROVE HasLock(q)' /\ Sleeps(q)' /\ Transferred(q)'
  <2>1. HasLock(q) /\ Sleeps(q) /\ Transferred(q) /\ (user[q].pc # "idle" => user[q].b \in Buf)
    BY HasBuffer
  <2>2. HasLock(q)'
    <3>1. CASE q = p
      BY <1>10, <3>1 DEF HasLock, HoldPcs
    <3>2. CASE q # p
      <4>1. SUFFICES ASSUME user'[q].pc \in HoldPcs PROVE buf'[user'[q].b].holder = q
        BY DEF HasLock
      <4>2. user[q].pc \in HoldPcs /\ user'[q].b = user[q].b
        BY <1>10, <3>2, <4>1 DEF SameUse
      <4>3. buf[user[q].b].holder = q /\ user[q].b \in Buf
        BY <2>1, <4>2 DEF HasLock, HoldPcs
      <4>4. user[q].b # b
        BY <1>5, <3>2, <4>3
      <4> QED BY <1>7, <4>2, <4>3, <4>4
    <3> QED BY <3>1, <3>2
  <2>3. Sleeps(q)'
    <3>1. SUFFICES ASSUME user'[q].asleep, ~Waits(q)' PROVE user'[q].pc = "lock" /\ buf'[user'[q].b].holder # 0
      BY DEF Sleeps
    <3>2. user[q].asleep /\ ~(user[q].pc = "lock" /\ user[q].b = b) /\ q # p /\ ~Waits(q) /\ user'[q].b = user[q].b
      BY <1>1, <1>10, <1>11, <3>1 DEF SameUse
    <3>3. user[q].pc = "lock" /\ buf[user[q].b].holder # 0 /\ user[q].b \in Buf
      BY <2>1, <3>2 DEF Sleeps
    <3> QED BY <1>7, <1>10, <3>2, <3>3
  <2>4. Transferred(q)'
    <3>1. CASE q = p
      BY <1>10, <3>1 DEF Transferred
    <3>2. CASE q # p
      BY <1>7, <1>10, <2>1, <3>2 DEF Transferred, SameData, SameFlags, SameUse
    <3> QED BY <3>1, <3>2
  <2> QED BY <2>2, <2>3, <2>4
<1>14. ASSUME NEW c \in Buf PROVE HeldBy(c)'
  <2>1. HeldBy(c)
    BY Zenon DEF CacheInv, LockWords
  <2>2. CASE c = b
    BY <1>7, <2>2 DEF HeldBy
  <2>3. CASE c # b
    BY <1>1, <1>7, <1>10, <1>12, <2>1, <2>3 DEF HeldBy, SameUse, HoldPcs
  <2> QED BY <2>2, <2>3
<1> QED BY <1>3, <1>6, <1>7, <1>9, <1>10, <1>11, <1>13, <1>14, LockStep

-----------------------------------------------------------------------------
\* The values of the blocks when buffer b gets new data or new flags; the disk
\* may change under a dirty buffer.
Fresh ==
    /\ \A b \in Buf : buf[b].blk \in Known /\ buf[b].valid => buf[b].data = sum[buf[b].blk]
    /\ \A k \in Known : (\A b \in Buf : buf[b].blk = k => ~buf[b].dirty) => disk[k] = sum[k]
    /\ \A b \in Buf : buf[b].dirty => buf[b].valid
LEMMA FreshKept ==
    ASSUME CacheInv, NEW b \in Buf, NEW k \in Block, buf[b].blk = k, buf'[b].blk = k,
           \A c \in Buf : c # b => buf'[c] = buf[c],
           buf'[b].dirty => buf'[b].valid, Known' \subseteq Known,
           k \in Known' /\ buf'[b].valid => buf'[b].data = sum'[k],
           k \in Known' /\ ~buf'[b].dirty => disk'[k] = sum'[k],
           \A j \in Block : j # k => sum'[j] = sum[j],
           \A j \in Block : j # k => disk'[j] = disk[j] \/ \E c \in Buf : buf[c].blk = j /\ buf[c].dirty
    PROVE  Fresh'
<1>0. Values /\ Flags /\ OneBuffer
  BY Zenon DEF CacheInv
<1>1. \A c \in Buf : c # b => buf[c].blk # k
  BY <1>0, Zeros DEF OneBuffer
<1>2. ASSUME NEW c \in Buf, buf'[c].blk \in Known', buf'[c].valid
      PROVE  buf'[c].data = sum'[buf'[c].blk]
  <2>1. CASE c = b
    BY <1>2, <2>1
  <2>2. CASE c # b
    <3>1. buf[c].data = sum[buf[c].blk] /\ buf[c].blk # k /\ buf'[c] = buf[c]
      BY <1>0, <1>1, <1>2, <2>2 DEF Values
    <3>2. buf[c].blk \in Block
      BY <1>2, <3>1 DEF Known
    <3> QED BY <1>2, <3>1, <3>2
  <2> QED BY <2>1, <2>2
<1>3. ASSUME NEW j \in Known', \A c \in Buf : buf'[c].blk = j => ~buf'[c].dirty
      PROVE  disk'[j] = sum'[j]
  <2>0. j \in Block /\ j \in Known
    BY DEF Known
  <2>1. CASE j = k
    BY <1>3, <2>1
  <2>2. CASE j # k
    <3>1. \A c \in Buf : buf[c].blk = j => ~buf[c].dirty
      BY <1>3, <2>2
    <3>2. disk[j] = sum[j]
      BY <1>0, <2>0, <3>1 DEF Values
    <3> QED BY <2>0, <2>2, <3>1, <3>2
  <2> QED BY <2>1, <2>2
<1>4. \A c \in Buf : buf'[c].dirty => buf'[c].valid
  BY <1>0 DEF Flags
<1> QED BY <1>2, <1>3, <1>4 DEF Fresh

\* A queued buffer is the one of a block, and its holder sleeps for it.
LEMMA QueuedHeld ==
    ASSUME CacheInv, NEW c \in Buf, Queued(c)
    PROVE  /\ buf[c].blk \in Block
           /\ buf[c].holder \in User /\ user[buf[c].holder].b = c /\ Waits(buf[c].holder)
<1>0. PICK q \in User : user[q].b = c /\ Waits(q)
  BY Zenon DEF CacheInv, Queue
<1>1. buf[c].holder = q
  BY <1>0, HasBuffer DEF HasLock, HoldPcs, Waits
<1>2. buf[c].blk \in Block
  BY Zenon, <1>0, Zeros DEF CacheInv, Refs
<1> QED BY <1>0, <1>1, <1>2

\* What the holder of a buffer leaves as it is when it works on the buffer.
LEMMA HolderKeeps ==
    ASSUME CacheInv, NEW p \in User, NEW r \in Task, NEW b \in Buf, NEW s \in Buffer,
           user' = [user EXCEPT ![p] = r], buf' = [buf EXCEPT ![b] = s],
           b = user[p].b, r.b = b, r.blk = user[p].blk, user[p].pc \in HoldPcs, r.pc \in HoldPcs,
           s.blk = buf[b].blk, s.ref = buf[b].ref, s.holder = buf[b].holder,
           r.asleep => r.pc \in {"reading", "writing"},
           r.pc = "have" => s.valid,
           r.pc \in {"reading", "writing"} /\ ~r.asleep => s.valid /\ ~s.dirty
    PROVE  /\ user' \in [User -> Task] /\ user'[p] = r /\ \A q \in User : q # p => user'[q] = user[q]
           /\ buf' \in [Buf -> Buffer] /\ buf'[b] = s /\ \A c \in Buf : c # b => buf'[c] = buf[c]
           /\ Refs' /\ OneBuffer' /\ LockWords' /\ \A q \in User : Transferred(q)'
<1>0. buf \in [Buf -> Buffer] /\ user \in [User -> Task] /\ LockWords
  BY Zenon DEF CacheInv, BTypes
<1>1. user' \in [User -> Task] /\ user'[p] = r /\ \A q \in User : q # p => user'[q] = user[q]
  BY <1>0
<1>2. buf' \in [Buf -> Buffer] /\ buf'[b] = s /\ \A c \in Buf : c # b => buf'[c] = buf[c]
  BY <1>0
<1>3. \A q \in User : SameUse(q)
  BY <1>1 DEF SameUse, HoldPcs
<1>4. \A c \in Buf : buf'[c].blk = buf[c].blk /\ buf'[c].ref = buf[c].ref /\ buf'[c].holder = buf[c].holder
  BY <1>2
<1>5. Refs' /\ OneBuffer'
  BY <1>3, <1>4, RefsKept
<1>6. \A q \in User : HasLock(q)'
  <2> TAKE q \in User
  <2>1. HasLock(q) /\ (user[q].pc # "idle" => user[q].b \in Buf)
    BY HasBuffer
  <2>2. CASE q = p
    BY <1>1, <1>4, <2>1, <2>2 DEF HasLock
  <2>3. CASE q # p
    BY <1>1, <1>4, <2>1, <2>3 DEF HasLock, HoldPcs
  <2> QED BY <2>2, <2>3
<1>7. \A q \in User : Sleeps(q)'
  <2> TAKE q \in User
  <2>1. Sleeps(q) /\ (user[q].pc # "idle" => user[q].b \in Buf)
    BY HasBuffer
  <2>2. CASE q = p
    BY <1>1, <2>2 DEF Sleeps, Waits
  <2>3. CASE q # p
    BY <1>1, <1>4, <2>1, <2>3 DEF Sleeps, Waits
  <2> QED BY <2>2, <2>3
<1>8. \A c \in Buf : HeldBy(c)'
  <2> TAKE c \in Buf
  <2>1. HeldBy(c) /\ buf[c].holder \in User \cup {0}
    BY <1>0 DEF LockWords, Buffer
  <2> QED BY <1>1, <1>4, <2>1 DEF HeldBy
<1>9. \A q \in User : Transferred(q)'
  <2> TAKE q \in User
  <2>1. Transferred(q) /\ HasLock(q) /\ (user[q].pc # "idle" => user[q].b \in Buf) /\ HasLock(p)
    BY HasBuffer
  <2>2. CASE q = p
    BY <1>1, <1>2, <2>2 DEF Transferred
  <2>3. CASE q # p
    <3>1. user[q].pc \in HoldPcs => user[q].b # b
      BY <2>1, <2>3 DEF HasLock
    <3> QED BY <1>1, <1>2, <2>1, <2>3, <3>1 DEF Transferred, HoldPcs
  <2> QED BY <2>2, <2>3
<1> QED BY <1>1, <1>2, <1>5, <1>6, <1>7, <1>8, <1>9 DEF LockWords

\* A request appended to the queue, and the queue without its first request.
LEMMA Appended ==
    ASSUME NEW s \in Seq(Buf), NEW x \in Buf
    PROVE  /\ Append(s, x) \in Seq(Buf) /\ Append(s, x) # <<>> /\ Len(s) \in Nat
           /\ Len(Append(s, x)) = Len(s) + 1 /\ Append(s, x)[Len(s) + 1] = x
           /\ \A i \in 1 .. Len(s) : Append(s, x)[i] = s[i]
           /\ s = <<>> => Head(Append(s, x)) = x
           /\ s # <<>> => Head(Append(s, x)) = Head(s)
BY SMTT(60)
LEMMA Shortened ==
    ASSUME NEW s \in Seq(Buf), s # <<>>
    PROVE  /\ Tail(s) \in Seq(Buf) /\ Len(s) \in Nat /\ Len(s) >= 1 /\ Len(Tail(s)) = Len(s) - 1
           /\ Head(s) = s[1] /\ s[1] \in Buf
           /\ \A i \in 1 .. Len(s) - 1 : Tail(s)[i] = s[i + 1]
           /\ Tail(s) # <<>> => Len(s) >= 2 /\ Head(Tail(s)) = s[2] /\ s[2] \in Buf
OBVIOUS

\* A process queues its buffer and sleeps for it.
LEMMA QueueGrows ==
    ASSUME CacheInv, NEW p \in User, NEW b \in Buf, user[p].b = b, ~Queued(b), idequeue' = Append(idequeue, b),
           \A q \in User : (Waits(q)' <=> Waits(q) \/ q = p) /\ user'[q].b = user[q].b
    PROVE  Queue'
<1>0. Queue /\ idequeue \in Seq(Buf)
  BY Zenon DEF CacheInv, BTypes
<1> DEFINE n == Len(idequeue)
<1>1. /\ n \in Nat /\ Len(idequeue') = n + 1 /\ idequeue'[n + 1] = b
      /\ \A i \in 1 .. n : idequeue'[i] = idequeue[i]
  BY <1>0, Appended
<1>2. \A i \in 1 .. n : idequeue[i] # b
  BY DEF Queued
<1>3. \A i, j \in 1 .. n : idequeue[i] = idequeue[j] => i = j
  BY <1>0 DEF Queue
<1>4. \A c : Queued(c)' <=> \E i \in 1 .. (n + 1) : idequeue'[i] = c
  BY <1>1 DEF Queued
<1>5. \A c : Queued(c) <=> \E i \in 1 .. n : idequeue[i] = c
  BY DEF Queued
<1> HIDE DEF n
<1>6. 1 .. (n + 1) = (1 .. n) \cup {n + 1}
  BY <1>1
<1>7. \A c : Queued(c)' <=> Queued(c) \/ c = b
  BY <1>1, <1>4, <1>5, <1>6
<1>8. \A i, j \in 1 .. (n + 1) : idequeue'[i] = idequeue'[j] => i = j
  BY <1>1, <1>2, <1>3, <1>6
<1>9. \A q \in User : Waits(q)' => Queued(user[q].b)'
  <2>1. \A q \in User : Waits(q)' => \E i \in 1 .. (n + 1) : idequeue'[i] = user'[q].b
    <3> TAKE q \in User
    <3> HAVE Waits(q)'
    <3>1. CASE q = p
      BY <1>1, <1>6, <3>1
    <3>2. CASE q # p
      <4>1. Queued(user[q].b) /\ user'[q].b = user[q].b
        BY <1>0, <3>2 DEF Queue
      <4> QED BY <1>1, <1>5, <1>6, <4>1
    <3> QED BY <3>1, <3>2
  <2> QED BY <1>1, <2>1 DEF Queued
<1>10. \A c \in Buf : Queued(c)' => \E q \in User : user'[q].b = c /\ Waits(q)'
  <2> TAKE c \in Buf
  <2> HAVE Queued(c)'
  <2>1. CASE c = b
    BY <2>1
  <2>2. CASE c # b
    <3>1. PICK q \in User : user[q].b = c /\ Waits(q)
      BY <1>0, <1>7, <2>2 DEF Queue
    <3> QED BY <3>1
  <2> QED BY <2>1, <2>2
<1> QED BY <1>1, <1>8, <1>9, <1>10 DEF Queue

\* The first request stays on its way to the disk.
HeadSent == idequeue # <<>> /\ buf[Head(idequeue)].dirty => disk[buf[Head(idequeue)].blk] = buf[Head(idequeue)].data
LEMMA HeadKept ==
    ASSUME CacheInv, NEW b \in Buf, NEW k \in Block, buf[b].blk = k, ~Queued(b), idequeue # <<>>,
           idequeue' \in {idequeue, Append(idequeue, b)}, \A c \in Buf : c # b => buf'[c] = buf[c],
           \A j \in Block : j # k => disk'[j] = disk[j]
    PROVE  HeadSent'
<1>0. Values /\ OneBuffer /\ idequeue \in Seq(Buf)
  BY Zenon DEF CacheInv, BTypes
<1> DEFINE h == Head(idequeue)
<1>1. h \in Buf /\ Queued(h)
  BY QueueHead
<1>2. buf[h].dirty => disk[buf[h].blk] = buf[h].data
  BY <1>0 DEF Values
<1>3. Head(idequeue') = h
  BY <1>0, Appended
<1> HIDE DEF h
<1>4. h # b /\ buf[h].blk \in Block
  BY <1>1, QueuedHeld
<1>5. buf[h].blk # k
  BY <1>0, <1>1, <1>4, Zeros DEF OneBuffer
<1>6. buf'[h] = buf[h]
  BY <1>1, <1>4
<1> QED BY <1>2, <1>3, <1>4, <1>5, <1>6 DEF HeadSent

\* The holder works on its buffer: it marks it, or the disk serves it at once,
\* or it queues it and sleeps.
LEMMA HolderStep ==
    ASSUME CacheInv, UNCHANGED misread, NEW p \in User, NEW r \in Task, NEW b \in Buf, NEW s \in Buffer, NEW k \in Block,
           user' = [user EXCEPT ![p] = r], buf' = [buf EXCEPT ![b] = s],
           b = user[p].b, r.b = b, r.blk = user[p].blk, user[p].pc \in {"locked", "have"}, r.pc \in HoldPcs,
           buf[b].blk = k, s.blk = k, s.ref = buf[b].ref, s.holder = buf[b].holder,
           r.asleep => r.pc \in {"reading", "writing"},
           r.pc = "have" => s.valid,
           r.pc \in {"reading", "writing"} /\ ~r.asleep => s.valid /\ ~s.dirty,
           s.dirty => s.valid,
           k \in Known /\ s.valid => s.data = sum'[k], k \in Known /\ ~s.dirty => disk'[k] = sum'[k],
           disk' \in [Block -> Nat], sum' \in [Block -> Nat],
           \A j \in Block : j # k => sum'[j] = sum[j] /\ disk'[j] = disk[j],
           idequeue' = IF r.asleep THEN Append(idequeue, b) ELSE idequeue,
           idequeue = <<>> /\ r.asleep /\ s.dirty => disk'[k] = s.data,
           UNCHANGED lru, bpanic' # "iderw: nothing to do"
    PROVE  CacheInv'
<1>0. BTypes /\ Listed /\ Queue /\ Values /\ OneBuffer
  BY Zenon DEF CacheInv
<1>1. user[p].pc \in HoldPcs /\ ~Waits(p)
  BY Zenon DEF HoldPcs, Waits
<1>2. /\ user' \in [User -> Task] /\ user'[p] = r /\ \A q \in User : q # p => user'[q] = user[q]
      /\ buf' \in [Buf -> Buffer] /\ buf'[b] = s /\ \A c \in Buf : c # b => buf'[c] = buf[c]
      /\ Refs' /\ OneBuffer' /\ LockWords' /\ \A q \in User : Transferred(q)'
  BY Zenon, <1>1, HolderKeeps
<1>3. Fresh'
  <2>0. Known' = Known
    BY DEF Known
  <2>1. /\ buf'[b].blk = k /\ (buf'[b].dirty => buf'[b].valid)
        /\ k \in Known' /\ buf'[b].valid => buf'[b].data = sum'[k]
        /\ k \in Known' /\ ~buf'[b].dirty => disk'[k] = sum'[k]
    BY Zenon, <1>2, <2>0
  <2>2. \A c \in Buf : c # b => buf'[c] = buf[c]
    BY Zenon, <1>2
  <2>3. /\ \A j \in Block : j # k => sum'[j] = sum[j]
        /\ \A j \in Block : j # k => disk'[j] = disk[j] \/ \E c \in Buf : buf[c].blk = j /\ buf[c].dirty
    BY Zenon
  <2> QED BY Zenon, <2>0, <2>1, <2>2, <2>3, FreshKept
<1>4. ~Queued(b)
  BY ZenonT(60), <1>1, QueuedHeld, HasBuffer DEF HasLock
<1>5. idequeue \in Seq(Buf)
  BY Zenon, <1>0 DEF BTypes
<1>6. idequeue' \in Seq(Buf)
  BY Zenon, <1>5, Appended
<1>7. BTypes' /\ Listed'
  BY Zenon, <1>0, <1>2, <1>6 DEF BTypes, Listed
<1>8. Queue'
  <2>1. CASE ~r.asleep
    <3>1. \A q \in User : Waits(q)' <=> Waits(q)
      BY Zenon, <1>1, <1>2, <2>1 DEF Waits
    <3>2. \A q \in User : user'[q].b = user[q].b
      BY Zenon, <1>2
    <3>3. idequeue' = idequeue
      BY Zenon, <2>1
    <3> QED BY Zenon, <3>1, <3>2, <3>3, QueueKept
  <2>2. CASE r.asleep
    <3>1. \A q \in User : (Waits(q)' <=> Waits(q) \/ q = p) /\ user'[q].b = user[q].b
      BY Zenon, <1>2, <2>2 DEF Waits
    <3>2. idequeue' = Append(idequeue, b)
      BY Zenon, <2>2
    <3> QED BY Zenon, <1>4, <3>1, <3>2, QueueGrows
  <2> QED BY Zenon, <2>1, <2>2
<1>9. HeadSent'
  <2>1. CASE idequeue # <<>>
    <3>1. idequeue' \in {idequeue, Append(idequeue, b)}
      BY Zenon
    <3>2. \A c \in Buf : c # b => buf'[c] = buf[c]
      BY Zenon, <1>2
    <3> QED BY Zenon, <1>4, <2>1, <3>1, <3>2, HeadKept
  <2>2. CASE idequeue = <<>>
    <3>1. CASE ~r.asleep
      BY Zenon, <2>2, <3>1 DEF HeadSent
    <3>2. CASE r.asleep
      <4>1. idequeue' = Append(idequeue, b)
        BY Zenon, <3>2
      <4>2. Head(idequeue') = b
        <5>1. idequeue = <<>> => Head(Append(idequeue, b)) = b
          BY <1>5, Appended, Zenon
        <5> QED BY <2>2, <4>1, <5>1, Zenon
      <4>3. buf'[b] = s /\ (s.dirty => disk'[k] = s.data)
        BY Zenon, <1>2, <2>2, <3>2
      <4> QED BY ZenonT(60), <4>2, <4>3 DEF HeadSent
    <3> QED BY Zenon, <3>1, <3>2
  <2> QED BY Zenon, <2>1, <2>2
<1> QED BY Zenon, <1>2, <1>3, <1>7, <1>8, <1>9 DEF CacheInv, Flags, Values, Fresh, HeadSent

-----------------------------------------------------------------------------
\* A process finds its buffer locked and sleeps.
LEMMA WaitKeeps ==
    ASSUME CacheInv, UNCHANGED misread, NEW p \in User, acquiresleep(p), buf[user[p].b].holder # 0
    PROVE  CacheInv'
<1>1. user[p].pc = "lock" /\ ~user[p].asleep /\ user[p] \in Task
  BY Zenon, HasBuffer DEF acquiresleep, Ready
<1>2. user' = [user EXCEPT ![p].asleep = TRUE] /\ UNCHANGED <<buf, lru, idequeue, disk, sum, bpanic>>
  BY DEF acquiresleep, Mine
<1> DEFINE r == [user[p] EXCEPT !.asleep = TRUE]
<1>3. /\ r \in Task /\ r.b = user[p].b /\ r.blk = user[p].blk /\ r.pc = "lock" /\ ~Waits(p)
      /\ user' = [user EXCEPT ![p] = r]
  BY Zenon, <1>1, <1>2 DEF Task, Waits, CacheInv, BTypes
<1>4. bpanic' # "iderw: nothing to do"
  BY Zenon, <1>2 DEF CacheInv
<1> HIDE DEF r
<1>5. r.pc \notin HoldPcs /\ user[p].pc \notin HoldPcs /\ r.pc # "idle"
  BY <1>1, <1>3 DEF HoldPcs
<1> QED BY Zenon, <1>1, <1>2, <1>3, <1>4, <1>5, MoveKeeps

\* A process that has the lock goes on with a valid buffer.
LEMMA GoOnKeeps ==
    ASSUME CacheInv, UNCHANGED misread, NEW p \in User, NEW pc \in {"have", "release"}, user[p].pc \in HoldPcs, ~user[p].asleep,
           user' = [user EXCEPT ![p].pc = pc], pc = "have" => buf[user[p].b].valid,
           UNCHANGED <<buf, lru, idequeue, disk, sum, bpanic>>
    PROVE  CacheInv'
<1> DEFINE r == [user[p] EXCEPT !.pc = pc]
<1>1. user[p] \in Task
  BY HasBuffer
<1>2. /\ r \in Task /\ r.b = user[p].b /\ r.blk = user[p].blk /\ r.pc = pc /\ ~r.asleep /\ ~Waits(p)
      /\ user' = [user EXCEPT ![p] = r]
  BY Zenon, <1>1 DEF Task, Waits, CacheInv, BTypes, BufPcs, HoldPcs
<1>3. bpanic' # "iderw: nothing to do"
  BY Zenon DEF CacheInv
<1> HIDE DEF r
<1>4. r.pc \in HoldPcs /\ r.pc # "idle" /\ r.pc \notin {"reading", "writing"} /\ user[p].pc # "idle"
  BY <1>2 DEF HoldPcs
<1> QED BY Zenon, <1>2, <1>3, <1>4, MoveKeeps

\* A process wakes in iderw: its buffer has been served.
LEMMA WakeKeeps ==
    ASSUME CacheInv, UNCHANGED misread, NEW p \in User, iderwWakes(p)
    PROVE  CacheInv'
<1>1. user[p].pc \in {"reading", "writing"} /\ ~user[p].asleep
  BY Zenon DEF iderwWakes, Ready
<1>2. buf[user[p].b].valid /\ ~buf[user[p].b].dirty
  BY <1>1, HasBuffer DEF Transferred
<1>3. PICK pc \in {"have", "release"} : user' = [user EXCEPT ![p].pc = pc]
  BY <1>2 DEF iderwWakes, Move, Mine
<1>4. UNCHANGED <<buf, lru, idequeue, disk, sum, bpanic>>
  BY DEF iderwWakes
<1> QED BY <1>1, <1>2, <1>3, <1>4, GoOnKeeps DEF HoldPcs

\* iderw on the buffer of a process: one that is invalid, or that is valid and
\* dirty and has all additions.
LEMMA SubmitKeeps ==
    ASSUME CacheInv, UNCHANGED misread, NEW p \in User, NEW b \in Buf, NEW k \in Block, NEW t \in Buffer, NEW bs,
           NEW after \in {"reading", "writing"}, bs = [buf EXCEPT ![b] = t],
           b = user[p].b, user[p].pc \in {"locked", "have"}, ~user[p].asleep,
           buf[b].blk = k, t.blk = k, t.ref = buf[b].ref, t.holder = buf[b].holder,
           t.valid <=> t.dirty,
           k \in Known /\ t.valid => t.data = sum'[k], k \in Known /\ ~t.dirty => disk[k] = sum'[k],
           sum' \in [Block -> Nat], \A j \in Block : j # k => sum'[j] = sum[j],
           iderw(p, bs, b, after), UNCHANGED lru
    PROVE  CacheInv'
<1>0. /\ buf \in [Buf -> Buffer] /\ user \in [User -> Task] /\ disk \in [Block -> Nat]
      /\ bpanic # "iderw: nothing to do" /\ user[p] \in Task
  BY Zenon DEF CacheInv, BTypes
<1>1. bs[b] = t /\ bs \in [Buf -> Buffer]
  BY Zenon, <1>0
<1>2. /\ t.valid \in BOOLEAN /\ t.dirty \in BOOLEAN /\ t.data \in Nat
  BY DEF Buffer
<1>3. UNCHANGED bpanic /\ ~(bs[b].valid /\ ~bs[b].dirty)
  BY Zenon, <1>1, <1>2 DEF iderw
<1>4. idestart(disk, bs, b) = IF t.dirty THEN [disk EXCEPT ![k] = t.data] ELSE disk
  BY <1>1 DEF idestart
<1> DEFINE dk == idestart(disk, bs, b)
<1>5. /\ dk \in [Block -> Nat] /\ \A j \in Block : j # k => dk[j] = disk[j]
      /\ t.dirty => dk[k] = t.data
      /\ ~t.dirty => dk = disk
  BY Zenon, <1>0, <1>2, <1>4
<1>6. CASE driver = "ide"
  <2> DEFINE r == [user[p] EXCEPT !.pc = after, !.asleep = TRUE]
  <2>1. /\ idequeue' = Append(idequeue, b) /\ disk' = (IF idequeue = <<>> THEN dk ELSE disk) /\ buf' = bs
        /\ user' = [user EXCEPT ![p] = r]
    BY Zenon, <1>3, <1>6 DEF iderw
  <2> HIDE DEF dk
  <2>2. r \in Task /\ r.b = user[p].b /\ r.blk = user[p].blk /\ r.pc = after /\ r.asleep = TRUE
    BY Zenon, <1>0 DEF Task, BufPcs, HoldPcs
  <2> HIDE DEF r
  <2>3. r.pc \in HoldPcs /\ r.asleep /\ r.pc \in {"reading", "writing"} /\ r.pc # "have"
    BY <2>2 DEF HoldPcs
  <2>4. /\ disk' \in [Block -> Nat] /\ \A j \in Block : j # k => disk'[j] = disk[j]
        /\ k \in Known /\ ~t.dirty => disk'[k] = sum'[k]
        /\ idequeue = <<>> /\ t.dirty => disk'[k] = t.data
    BY Zenon, <1>0, <1>5, <2>1
  <2>5. \A j \in Block : j # k => sum'[j] = sum[j] /\ disk'[j] = disk[j]
    BY <2>4
  <2>6. idequeue' = IF r.asleep THEN Append(idequeue, b) ELSE idequeue
    BY <2>1, <2>3
  <2>7. buf' = [buf EXCEPT ![b] = t] /\ bpanic' # "iderw: nothing to do"
    BY Zenon, <1>0, <1>3, <2>1
  <2> QED BY ZenonT(60), <2>1, <2>2, <2>3, <2>4, <2>5, <2>6, <2>7, HolderStep
<1>7. CASE driver # "ide"
  <2> DEFINE r == [user[p] EXCEPT !.pc = after]
             s == [t EXCEPT !.valid = TRUE, !.dirty = FALSE, !.data = IF t.dirty THEN t.data ELSE disk[k]]
  <2>1. /\ idequeue' = idequeue /\ disk' = dk /\ buf' = Served(bs, disk, b, TRUE)
        /\ user' = [user EXCEPT ![p] = r]
    BY Zenon, <1>0, <1>3, <1>7 DEF iderw, Move
  <2> HIDE DEF dk
  <2>2. r \in Task /\ r.b = user[p].b /\ r.blk = user[p].blk /\ r.pc = after /\ ~r.asleep
    BY Zenon, <1>0 DEF Task, BufPcs, HoldPcs
  <2>3. /\ s \in Buffer /\ s.blk = t.blk /\ s.ref = t.ref /\ s.holder = t.holder /\ s.valid = TRUE /\ s.dirty = FALSE
        /\ s.data = IF t.dirty THEN t.data ELSE disk[k]
    BY Zenon, <1>0, <1>2 DEF Buffer
  <2>4. Served(bs, disk, b, TRUE) = [buf EXCEPT ![b] = s]
    BY Zenon, <1>0, <1>1 DEF Served
  <2> HIDE DEF r, s
  <2>5. k \in Known => s.data = sum'[k] /\ disk'[k] = sum'[k]
    BY <1>2, <1>5, <2>1, <2>3
  <2>6. disk' \in [Block -> Nat] /\ \A j \in Block : j # k => sum'[j] = sum[j] /\ disk'[j] = disk[j]
    BY <1>5, <2>1
  <2>7. r.pc \in HoldPcs /\ r.pc # "have"
    BY <2>2 DEF HoldPcs
  <2>8. idequeue' = IF r.asleep THEN Append(idequeue, b) ELSE idequeue
    BY <2>1, <2>2
  <2>9. buf' = [buf EXCEPT ![b] = s] /\ bpanic' # "iderw: nothing to do"
    BY Zenon, <1>0, <1>3, <2>1, <2>4
  <2>10. /\ s.blk = k /\ s.ref = buf[b].ref /\ s.holder = buf[b].holder /\ s.valid /\ ~s.dirty /\ s \in Buffer
         /\ user' = [user EXCEPT ![p] = r] /\ r.b = b
    BY <2>1, <2>2, <2>3
  <2> QED BY Zenon, <2>2, <2>5, <2>6, <2>7, <2>8, <2>9, <2>10, HolderStep
<1> QED BY <1>6, <1>7

\* bread: the buffer is valid already, or the disk is asked for it.
LEMMA ReadKeeps ==
    ASSUME CacheInv, UNCHANGED misread, NEW p \in User, bread(p)
    PROVE  CacheInv'
<1> DEFINE b == user[p].b
           k == buf[b].blk
<1>1. user[p].pc = "locked" /\ ~user[p].asleep /\ UNCHANGED <<lru, sum>>
  BY Zenon DEF bread, Ready
<1>2. b \in Buf /\ buf[b] \in Buffer
  BY <1>1, HasBuffer
<1>3. CASE buf[b].valid
  <2>1. user' = [user EXCEPT ![p].pc = "have"] /\ UNCHANGED <<buf, idequeue, disk, bpanic>>
    BY <1>3 DEF bread, Move, Mine
  <2> QED BY <1>1, <1>3, <2>1, GoOnKeeps DEF HoldPcs
<1>4. CASE ~buf[b].valid
  <2>1. iderw(p, buf, b, "reading")
    BY <1>4 DEF bread, Mine
  <2>2. k \in Block
    BY Zenon, <1>1, <1>2, Zeros DEF CacheInv, Refs
  <2>3. ~buf[b].dirty
    BY Zenon, <1>2, <1>4 DEF CacheInv, Flags
  <2>4. k \in Known => disk[k] = sum[k]
    <3>1. \A c \in Buf : buf[c].blk = k => c = b
      BY Zenon, <1>2, <2>2, Zeros DEF CacheInv, OneBuffer
    <3>2. \A c \in Buf : buf[c].blk = k => ~buf[c].dirty
      BY <2>3, <3>1
    <3> QED BY Zenon, <2>2, <3>2 DEF CacheInv, Values
  <2>5. buf = [buf EXCEPT ![b] = buf[b]] /\ sum \in [Block -> Nat]
    BY Zenon DEF CacheInv, BTypes
  <2>6. b = user[p].b /\ buf[b].blk = k /\ ~buf[b].valid
    BY <1>4
  <2>7. sum' \in [Block -> Nat] /\ sum' = sum
    BY <1>1, <2>5
  <2> HIDE DEF b, k
  <2> QED BY <1>1, <1>2, <2>1, <2>2, <2>3, <2>4, <2>5, <2>6, <2>7, SubmitKeeps
<1> QED BY <1>3, <1>4

\* With the buffer locked and valid: read it, add to it for the log, or submit it.
LEMMA UseKeeps ==
    ASSUME CacheInv, UNCHANGED misread, NEW p \in User, use(p)
    PROVE  CacheInv'
<1> DEFINE b == user[p].b
           k == user[p].blk
           a == [buf[b] EXCEPT !.data = @ + 1, !.dirty = TRUE]
           more == [sum EXCEPT ![k] = @ + 1]
<1>1. user[p].pc = "have" /\ ~user[p].asleep /\ UNCHANGED lru /\ user[p].pc \in HoldPcs
  BY Zenon DEF use, Ready, HoldPcs
<1>2. user[p] \in Task /\ b \in Buf /\ buf[b] \in Buffer /\ buf[b].valid
  BY <1>1, HasBuffer DEF Transferred
<1>3. k \in Block /\ buf[b].blk = k
  BY Zenon, <1>2, Zeros DEF CacheInv, Refs
<1>4. buf \in [Buf -> Buffer] /\ sum \in [Block -> Nat] /\ disk \in [Block -> Nat] /\ bpanic # "iderw: nothing to do"
  BY Zenon DEF CacheInv, BTypes
<1>5. /\ k \in Known => buf[b].data = sum[k]
      /\ sum[k] \in Nat /\ buf[b].data \in Nat
  BY Zenon, <1>2, <1>3, <1>4 DEF CacheInv, Values, Buffer
<1>6. /\ more \in [Block -> Nat] /\ more[k] = sum[k] + 1
      /\ \A j \in Block : j # k => more[j] = sum[j]
  <2> HIDE DEF k
  <2>1. sum[k] + 1 \in Nat
    BY <1>5
  <2> QED BY Zenon, <1>3, <1>4, <2>1
<1>7. /\ a \in Buffer /\ a.blk = k /\ a.ref = buf[b].ref /\ a.holder = buf[b].holder
      /\ a.valid /\ a.dirty /\ (k \in Known => a.data = sum[k] + 1)
  <2>1. PICK d \in Nat : d = buf[b].data + 1
    BY <1>5
  <2>2. a = [buf[b] EXCEPT !.data = d, !.dirty = TRUE] /\ (k \in Known => d = sum[k] + 1)
    BY <1>5, <2>1
  <2> HIDE DEF a, b, k
  <2> QED BY <1>2, <1>3, <2>2 DEF Buffer
<1>8. \/ user[p].op = "read" /\ Move(p, "release") /\ UNCHANGED <<buf, idequeue, disk, sum, bpanic>>
      \/ Move(p, "release") /\ buf' = [buf EXCEPT ![b] = a] /\ sum' = more /\ UNCHANGED <<idequeue, disk, bpanic>>
      \/ sum' = more /\ bwrite(p, [buf EXCEPT ![b] = a], b)
      \/ UNCHANGED sum /\ bwrite(p, buf, b)
  BY Zenon DEF use
<1>9. b = user[p].b /\ k = user[p].blk
  OBVIOUS
<1>10. ASSUME user[p].op = "read", Move(p, "release"), UNCHANGED <<buf, idequeue, disk, sum, bpanic>>
       PROVE  CacheInv'
  BY <1>1, <1>10, GoOnKeeps DEF Move
<1>11. ASSUME Move(p, "release"), buf' = [buf EXCEPT ![b] = a], sum' = more, UNCHANGED <<idequeue, disk, bpanic>>
       PROVE  CacheInv'
  <2> DEFINE r == [user[p] EXCEPT !.pc = "release"]
  <2>1. user' = [user EXCEPT ![p] = r]
    BY Zenon, <1>11 DEF Move, CacheInv, BTypes
  <2>2. /\ r \in Task /\ r.b = b /\ r.blk = user[p].blk /\ r.pc = "release" /\ ~r.asleep
    BY <1>1, <1>2 DEF Task, BufPcs, HoldPcs
  <2> HIDE DEF r, a, more, b, k
  <2>3. r.pc \in HoldPcs /\ r.pc # "have" /\ r.pc \notin {"reading", "writing"} /\ user[p].pc \in {"locked", "have"}
    BY <1>1, <2>2 DEF HoldPcs
  <2>4. /\ a.dirty => a.valid
        /\ k \in Known /\ a.valid => a.data = sum'[k]
        /\ k \in Known /\ ~a.dirty => disk'[k] = sum'[k]
        /\ disk' \in [Block -> Nat] /\ sum' \in [Block -> Nat]
        /\ \A j \in Block : j # k => sum'[j] = sum[j] /\ disk'[j] = disk[j]
        /\ idequeue' = IF r.asleep THEN Append(idequeue, b) ELSE idequeue
        /\ UNCHANGED lru /\ bpanic' # "iderw: nothing to do"
    BY Zenon, <1>1, <1>4, <1>6, <1>7, <1>11, <2>2
  <2> QED BY Zenon, <1>2, <1>3, <1>7, <1>9, <1>11, <2>1, <2>2, <2>3, <2>4, HolderStep
<1>12. ASSUME sum' = more, bwrite(p, [buf EXCEPT ![b] = a], b)
       PROVE  CacheInv'
  <2> HIDE DEF a, more, b, k
  <2>1. [[buf EXCEPT ![b] = a] EXCEPT ![b].dirty = TRUE] = [buf EXCEPT ![b] = a]
    <3>1. [a EXCEPT !.dirty = TRUE] = a
      BY <1>7 DEF Buffer
    <3> QED BY Zenon, <1>2, <1>4, <3>1
  <2>2. iderw(p, [buf EXCEPT ![b] = a], b, "writing")
    BY <1>12, <2>1 DEF bwrite
  <2>3. /\ a.valid <=> a.dirty
        /\ k \in Known /\ a.valid => a.data = sum'[k]
        /\ k \in Known /\ ~a.dirty => disk[k] = sum'[k]
        /\ sum' \in [Block -> Nat] /\ \A j \in Block : j # k => sum'[j] = sum[j]
        /\ user[p].pc \in {"locked", "have"}
    BY <1>1, <1>6, <1>7, <1>12
  <2> QED BY <1>1, <1>2, <1>3, <1>7, <1>9, <2>2, <2>3, SubmitKeeps
<1>13. ASSUME UNCHANGED sum, bwrite(p, buf, b)
       PROVE  CacheInv'
  <2> DEFINE t == [buf[b] EXCEPT !.dirty = TRUE]
  <2> HIDE DEF a, more, k
  <2>1. /\ t \in Buffer /\ t.blk = k /\ t.ref = buf[b].ref /\ t.holder = buf[b].holder
        /\ t.valid /\ t.dirty /\ (k \in Known => t.data = sum[k])
    BY <1>2, <1>3, <1>5 DEF Buffer
  <2>2. iderw(p, [buf EXCEPT ![b] = t], b, "writing")
    BY <1>13 DEF bwrite
  <2> HIDE DEF b, t
  <2>3. /\ t.valid <=> t.dirty
        /\ k \in Known /\ t.valid => t.data = sum'[k]
        /\ k \in Known /\ ~t.dirty => disk[k] = sum'[k]
        /\ sum' \in [Block -> Nat] /\ \A j \in Block : j # k => sum'[j] = sum[j]
        /\ user[p].pc \in {"locked", "have"}
    BY Zenon, <1>1, <1>4, <1>13, <2>1
  <2> QED BY <1>1, <1>2, <1>3, <1>9, <2>1, <2>2, <2>3, SubmitKeeps
<1> HIDE DEF a, more, b, k
<1> QED BY <1>8, <1>10, <1>11, <1>12, <1>13

-----------------------------------------------------------------------------
\* The first request leaves the queue and its process, q, no longer waits.
LEMMA QueueShrinks ==
    ASSUME CacheInv, idequeue # <<>>, NEW q \in User, Waits(q), user[q].b = Head(idequeue),
           idequeue' = Tail(idequeue),
           \A u \in User : (Waits(u)' <=> Waits(u) /\ u # q) /\ user'[u].b = user[u].b
    PROVE  Queue'
<1>0. Queue /\ idequeue \in Seq(Buf)
  BY Zenon DEF CacheInv, BTypes
<1> DEFINE n == Len(idequeue)
           h == Head(idequeue)
<1>1. /\ n \in Nat /\ n >= 1 /\ Len(idequeue') = n - 1 /\ h = idequeue[1]
      /\ \A i \in 1 .. n - 1 : idequeue'[i] = idequeue[i + 1]
  BY <1>0, Shortened
<1>2. \A i, j \in 1 .. n : idequeue[i] = idequeue[j] => i = j
  BY <1>0 DEF Queue
<1>3. \A c : Queued(c)' <=> \E i \in 1 .. n - 1 : idequeue'[i] = c
  BY <1>1 DEF Queued
<1>4. \A c : Queued(c) <=> \E i \in 1 .. n : idequeue[i] = c
  BY DEF Queued
<1>5. user[q].b = h
  OBVIOUS
<1> HIDE DEF n, h
<1>6. /\ \A i \in 1 .. n - 1 : i + 1 \in 1 .. n /\ i + 1 # 1
      /\ \A i \in 1 .. n : i # 1 => i - 1 \in 1 .. n - 1 /\ (i - 1) + 1 = i
      /\ 1 \in 1 .. n
  BY <1>1
<1>7. \A c : Queued(c)' => Queued(c) /\ c # h
  BY <1>1, <1>2, <1>3, <1>4, <1>6
<1>8. ASSUME NEW c, Queued(c), c # h PROVE \E i \in 1 .. n - 1 : idequeue'[i] = c
  <2>1. PICK i \in 1 .. n : idequeue[i] = c
    BY <1>4, <1>8
  <2>2. i # 1 /\ i - 1 \in 1 .. n - 1 /\ (i - 1) + 1 = i
    BY <1>1, <1>6, <1>8, <2>1
  <2>3. idequeue'[i - 1] = c
    BY <1>1, <2>1, <2>2
  <2> QED BY <2>2, <2>3
<1>9. \A i, j \in 1 .. n - 1 : idequeue'[i] = idequeue'[j] => i = j
  <2> TAKE i, j \in 1 .. n - 1
  <2> HAVE idequeue'[i] = idequeue'[j]
  <2>1. i + 1 = j + 1
    BY <1>1, <1>2, <1>6
  <2> QED BY <1>1, <2>1
<1>10. \A u \in User : Waits(u)' => Queued(user[u].b)'
  <2>1. \A u \in User : Waits(u)' => \E i \in 1 .. n - 1 : idequeue'[i] = user'[u].b
    <3> TAKE u \in User
    <3> HAVE Waits(u)'
    <3>1. Waits(u) /\ u # q /\ user'[u].b = user[u].b
      OBVIOUS
    <3>2. Queued(user[u].b)
      BY <1>0, <3>1 DEF Queue
    <3>3. HasLock(u) /\ HasLock(q)
      BY HasBuffer
    <3>4. user[u].b # h
      BY <1>5, <3>1, <3>3 DEF HasLock, Waits, HoldPcs
    <3> QED BY <1>8, <3>1, <3>2, <3>4
  <2> QED BY <1>1, <2>1 DEF Queued
<1>11. \A c \in Buf : Queued(c)' => \E u \in User : user'[u].b = c /\ Waits(u)'
  <2> TAKE c \in Buf
  <2> HAVE Queued(c)'
  <2>1. Queued(c) /\ c # h
    BY <1>7
  <2>2. PICK u \in User : user[u].b = c /\ Waits(u)
    BY <1>0, <2>1 DEF Queue
  <2> QED BY <1>5, <2>1, <2>2
<1> QED BY <1>1, <1>9, <1>10, <1>11 DEF Queue

\* The disk when the request after the first is started.
LEMMA NextStarted ==
    ASSUME CacheInv, NEW ok \in BOOLEAN, ideintr(ok), NEW b \in Buf, b = Head(idequeue), NEW k \in Block, k = buf[b].blk,
           \A c \in Buf : c # b => buf'[c] = buf[c]
    PROVE  /\ disk' \in [Block -> Nat] /\ disk'[k] = disk[k] /\ HeadSent'
           /\ \A j \in Block : j # k => disk'[j] = disk[j] \/ \E c \in Buf : buf[c].blk = j /\ buf[c].dirty
<1>0. /\ idequeue \in Seq(Buf) /\ disk \in [Block -> Nat] /\ buf \in [Buf -> Buffer] /\ OneBuffer /\ Queue
      /\ idequeue # <<>> /\ idequeue' = Tail(idequeue) /\ buf' = Served(buf, disk, b, ok)
      /\ disk' = IF Tail(idequeue) = <<>> THEN disk ELSE idestart(disk, buf', Head(Tail(idequeue)))
  BY Zenon DEF CacheInv, BTypes, ideintr
<1>1. CASE Tail(idequeue) = <<>>
  BY <1>0, <1>1 DEF HeadSent
<1>2. CASE Tail(idequeue) # <<>>
  <2> DEFINE n == Head(Tail(idequeue))
  <2>1. n = idequeue[2] /\ n \in Buf /\ Len(idequeue) >= 2 /\ b = idequeue[1] /\ Len(idequeue) \in Nat
    BY <1>0, <1>2, Shortened
  <2>2. 1 \in 1 .. Len(idequeue) /\ 2 \in 1 .. Len(idequeue)
    BY <2>1
  <2>3. disk' = idestart(disk, buf', n) /\ Head(idequeue') = n
    BY <1>0, <1>2
  <2> HIDE DEF n
  <2>4. n # b /\ Queued(n)
    BY <1>0, <2>1, <2>2 DEF Queue, Queued
  <2>5. buf[n].blk \in Block /\ buf'[n] = buf[n] /\ buf[n].data \in Nat
    BY <1>0, <2>1, <2>4, QueuedHeld DEF Buffer
  <2>6. buf[n].blk # k
    BY <1>0, <2>1, <2>4, <2>5, Zeros DEF OneBuffer
  <2>7. CASE buf[n].dirty
    <3>1. disk' = [disk EXCEPT ![buf[n].blk] = buf[n].data]
      BY <2>3, <2>5, <2>7 DEF idestart
    <3>2. disk' \in [Block -> Nat] /\ disk'[k] = disk[k] /\ disk'[buf[n].blk] = buf[n].data
      BY <1>0, <2>5, <2>6, <3>1
    <3>3. HeadSent'
      BY <2>3, <2>5, <3>2 DEF HeadSent
    <3>4. \A j \in Block : j # buf[n].blk => disk'[j] = disk[j]
      BY <1>0, <3>1
    <3> QED BY <2>1, <2>7, <3>2, <3>3, <3>4
  <2>8. CASE ~buf[n].dirty
    <3>1. disk' = disk
      BY <2>3, <2>5, <2>8 DEF idestart
    <3>2. HeadSent'
      BY <2>3, <2>5, <2>8 DEF HeadSent
    <3> QED BY <1>0, <3>1, <3>2
  <2> QED BY <2>7, <2>8
<1> QED BY <1>1, <1>2

\* The disk interrupt: the first request has been served and its process wakes.
LEMMA InterruptKeeps ==
    ASSUME CacheInv, NEW ok \in BOOLEAN, ideintr(ok)
    PROVE  CacheInv'
<1> DEFINE b == Head(idequeue)
           q == buf[b].holder
           k == buf[b].blk
           r == [user[q] EXCEPT !.asleep = FALSE]
           s == [buf[b] EXCEPT !.valid = TRUE, !.dirty = FALSE, !.data = IF buf[b].dirty \/ ~ok THEN buf[b].data ELSE disk[k]]
<1>0. /\ BTypes /\ Listed /\ Values /\ OneBuffer /\ buf \in [Buf -> Buffer] /\ user \in [User -> Task]
      /\ disk \in [Block -> Nat] /\ sum \in [Block -> Nat] /\ idequeue \in Seq(Buf)
      /\ bpanic # "iderw: nothing to do"
  BY Zenon DEF CacheInv, BTypes
<1>1. /\ idequeue # <<>> /\ idequeue' = Tail(idequeue) /\ UNCHANGED <<lru, sum, bpanic>>
      /\ ok \/ ~buf[b].dirty
      /\ misread' = IF ok THEN misread ELSE misread \cup {k}
      /\ buf' = Served(buf, disk, b, ok) /\ user' = Woken(user, {"reading", "writing"}, b)
  BY Zenon DEF ideintr
<1>2. b \in Buf /\ Queued(b)
  BY <1>1, QueueHead
<1>3. k \in Block /\ q \in User /\ user[q].b = b /\ Waits(q)
  BY <1>2, QueuedHeld
<1>4. buf[b] \in Buffer /\ user[q] \in Task /\ buf[b].data \in Nat /\ disk[k] \in Nat
  BY Zenon, <1>0, <1>2, <1>3 DEF Buffer
<1>5. buf' = [buf EXCEPT ![b] = s]
  BY <1>1 DEF Served
<1>6. /\ s \in Buffer /\ s.blk = k /\ s.ref = buf[b].ref /\ s.holder = buf[b].holder /\ s.valid /\ ~s.dirty
      /\ s.data = IF buf[b].dirty \/ ~ok THEN buf[b].data ELSE disk[k]
  <2>1. PICK d \in Nat : d = IF buf[b].dirty \/ ~ok THEN buf[b].data ELSE disk[k]
    BY <1>4
  <2>2. s = [buf[b] EXCEPT !.valid = TRUE, !.dirty = FALSE, !.data = d]
    BY <2>1
  <2> HIDE DEF s
  <2> QED BY <1>4, <2>1, <2>2 DEF Buffer
<1>7. user' = [user EXCEPT ![q] = r]
  <2>1. \A u \in User : user[u].pc \in {"reading", "writing"} /\ user[u].b = b <=> u = q
    <3> TAKE u \in User
    <3>1. HasLock(u)
      BY HasBuffer
    <3> HIDE DEF b
    <3> QED BY <1>3, <3>1 DEF HasLock, HoldPcs, Waits
  <2>2. user' = [u \in User |-> IF user[u].pc \in {"reading", "writing"} /\ user[u].b = b
                                THEN [user[u] EXCEPT !.asleep = FALSE] ELSE user[u]]
    BY <1>1 DEF Woken
  <2> HIDE DEF b, q
  <2>3. user' = [u \in User |-> IF u = q THEN [user[u] EXCEPT !.asleep = FALSE] ELSE user[u]]
    BY <2>1, <2>2
  <2> QED BY Zenon, <1>0, <1>3, <2>3
<1>8. r \in Task /\ r.b = user[q].b /\ r.blk = user[q].blk /\ r.pc = user[q].pc /\ ~r.asleep
  <2> HIDE DEF q
  <2> QED BY <1>4 DEF Task
<1>9. q = buf[b].holder /\ k = buf[b].blk /\ b = Head(idequeue)
  OBVIOUS
<1> HIDE DEF b, q, k, r, s
<1>10. user[q].pc \in {"reading", "writing"} /\ user[q].asleep /\ user[q].pc \in HoldPcs
  BY <1>3 DEF Waits, HoldPcs
<1>11. /\ user' \in [User -> Task] /\ user'[q] = r /\ \A u \in User : u # q => user'[u] = user[u]
       /\ buf' \in [Buf -> Buffer] /\ buf'[b] = s /\ \A c \in Buf : c # b => buf'[c] = buf[c]
       /\ Refs' /\ OneBuffer' /\ LockWords' /\ \A u \in User : Transferred(u)'
  BY <1>2, <1>3, <1>5, <1>6, <1>7, <1>8, <1>9, <1>10, HolderKeeps
<1>12. Queue'
  <2>1. \A u \in User : (Waits(u)' <=> Waits(u) /\ u # q) /\ user'[u].b = user[u].b
    BY <1>8, <1>11 DEF Waits
  <2> QED BY <1>1, <1>3, <1>9, <2>1, QueueShrinks
<1>13. /\ disk' \in [Block -> Nat] /\ disk'[k] = disk[k] /\ HeadSent'
       /\ \A j \in Block : j # k => disk'[j] = disk[j] \/ \E c \in Buf : buf[c].blk = j /\ buf[c].dirty
  BY <1>2, <1>3, <1>9, <1>11, NextStarted
<1>14. ASSUME k \in Known' PROVE disk[k] = sum[k] /\ s.data = sum[k]
  <2>0. ok /\ k \in Known
    BY <1>1, <1>14 DEF Known
  <2>1. CASE buf[b].dirty
    <3>1. buf[b].valid
      BY Zenon, <1>2, <2>1 DEF CacheInv, Flags
    <3>2. buf[b].data = sum[k] /\ disk[k] = buf[b].data
      BY Zenon, <1>0, <1>1, <1>2, <1>9, <2>0, <2>1, <3>1 DEF Values
    <3> QED BY <1>6, <2>1, <3>2
  <2>2. CASE ~buf[b].dirty
    <3>1. \A c \in Buf : buf[c].blk = k => c = b
      BY Zenon, <1>0, <1>2, <1>3, <1>9, Zeros DEF OneBuffer
    <3>2. \A c \in Buf : buf[c].blk = k => ~buf[c].dirty
      BY <2>2, <3>1
    <3>3. disk[k] = sum[k]
      BY Zenon, <1>0, <2>0, <3>2 DEF Values
    <3> QED BY <1>6, <2>0, <2>2, <3>3
  <2> QED BY <2>1, <2>2
<1>15. Fresh'
  <2>1. /\ buf[b].blk = k /\ buf'[b].blk = k /\ buf'[b].valid /\ ~buf'[b].dirty
        /\ k \in Known' => buf'[b].data = sum'[k] /\ disk'[k] = sum'[k]
    BY <1>1, <1>6, <1>9, <1>11, <1>13, <1>14
  <2>2. \A j \in Block : j # k => sum'[j] = sum[j]
    BY <1>1
  <2>3. \A c \in Buf : c # b => buf'[c] = buf[c]
    BY <1>11
  <2>4. Known' \subseteq Known
    BY <1>1 DEF Known
  <2> QED BY <1>2, <1>3, <1>13, <2>1, <2>2, <2>3, <2>4, FreshKept
<1>16. BTypes' /\ Listed'
  BY Zenon, <1>0, <1>1, <1>11, <1>13, Shortened DEF BTypes, Listed
<1> QED BY Zenon, <1>0, <1>1, <1>11, <1>12, <1>13, <1>15, <1>16 DEF CacheInv, Flags, Values, Fresh, HeadSent

-----------------------------------------------------------------------------
\* A process enters bget or leaves brelse: the locks and the queue stay.
LEMMA OutsideKeeps ==
    ASSUME CacheInv, NEW p \in User, NEW r \in Task, user' = [user EXCEPT ![p] = r],
           user[p].pc \in {"idle", "drop"}, r.pc \in {"idle", "lock"}, ~r.asleep,
           \A c \in Buf : buf'[c].holder = buf[c].holder,
           \A q \in User : q # p /\ user[q].b # 0 => SameFlags(user[q].b), idequeue' = idequeue
    PROVE  user' \in [User -> Task] /\ LockWords' /\ Queue' /\ \A q \in User : Transferred(q)'
<1>0. buf \in [Buf -> Buffer] /\ user \in [User -> Task] /\ LockWords
  BY Zenon DEF CacheInv, BTypes
<1>1. user' \in [User -> Task] /\ user'[p] = r /\ \A q \in User : q # p => user'[q] = user[q]
  BY <1>0
<1>2. \A q \in User : Waits(q)' <=> Waits(q)
  BY <1>1 DEF Waits
<1>3. \A q \in User : Waits(q) => user'[q].b = user[q].b
  BY <1>1 DEF Waits
<1>4. Queue'
  BY <1>2, <1>3, QueueKept
<1>5. ASSUME NEW q \in User PROVE HasLock(q)' /\ Sleeps(q)' /\ Transferred(q)'
  <2>1. HasLock(q) /\ Sleeps(q) /\ Transferred(q) /\ (user[q].pc # "idle" => user[q].b \in Buf)
    BY HasBuffer
  <2>2. CASE q = p
    BY <1>1, <2>2 DEF HasLock, HoldPcs, Sleeps, Transferred
  <2>3. CASE q # p
    <3>1. user'[q] = user[q]
      BY <1>1, <2>3
    <3>2. HasLock(q)'
      BY <2>1, <3>1 DEF HasLock, HoldPcs
    <3>3. Sleeps(q)'
      BY <2>1, <3>1 DEF Sleeps, Waits
    <3>4. Transferred(q)'
      <4>1. user[q].pc # "idle" => SameFlags(user[q].b)
        BY <2>1, <2>3, Zeros
      <4> QED BY <2>1, <3>1, <4>1 DEF Transferred, SameFlags
    <3> QED BY <3>2, <3>3, <3>4
  <2> QED BY <2>2, <2>3
<1>6. \A c \in Buf : HeldBy(c)'
  <2> TAKE c \in Buf
  <2>1. HeldBy(c) /\ buf[c].holder \in User \cup {0}
    BY <1>0 DEF LockWords, Buffer
  <2> QED BY <1>1, <2>1 DEF HeldBy, HoldPcs
<1> QED BY <1>1, <1>4, <1>5, <1>6 DEF LockWords

\* The references stay exact when a process takes or drops one.
LEMMA CountKept ==
    ASSUME CacheInv, NEW p \in User, NEW b \in Buf, user' \in [User -> Task],
           \A q \in User : q # p => user'[q] = user[q],
           \/ user[p].b = 0 /\ user'[p].b = b /\ buf'[b].ref = buf[b].ref + 1
           \/ user[p].b = b /\ user'[p].b = 0 /\ buf'[b].ref = buf[b].ref - 1,
           \A c \in Buf : c # b => buf'[c].ref = buf[c].ref
    PROVE  \A c \in Buf : buf'[c].ref = Cardinality(Users(c)') /\ buf'[c].ref \in Nat
<1>0. \A c \in Buf : buf[c].ref = Cardinality(Users(c)) /\ IsFiniteSet(Users(c)) /\ Cardinality(Users(c)) \in Nat
  BY Zenon, UsersFinite DEF CacheInv, Refs
<1>1. ASSUME NEW c \in Buf, c # b PROVE Users(c)' = Users(c)
  BY <1>1, Zeros DEF Users
<1>2. ASSUME user[p].b = 0, user'[p].b = b PROVE Cardinality(Users(b)') = Cardinality(Users(b)) + 1
  <2>1. p \notin Users(b) /\ Users(b)' = Users(b) \cup {p}
    BY <1>2, Zeros DEF Users
  <2>2. Cardinality(Users(b) \cup {p}) = Cardinality(Users(b)) + 1
    BY <1>0, <2>1, FS_AddElement
  <2> QED BY <2>1, <2>2
<1>3. ASSUME user[p].b = b, user'[p].b = 0 PROVE Cardinality(Users(b)') = Cardinality(Users(b)) - 1
  <2>1. p \in Users(b) /\ Users(b)' = Users(b) \ {p}
    BY <1>3, Zeros DEF Users
  <2> QED BY <1>0, <2>1, FS_RemoveElement
<1>4. IsFiniteSet(Users(b)') /\ Cardinality(Users(b)') \in Nat
  <2>1. Users(b)' \in SUBSET User
    BY DEF Users
  <2> QED BY <2>1, BlocksAssumption, FS_Subset, FS_CardinalityType
<1>5. buf'[b].ref = Cardinality(Users(b)')
  BY <1>0, <1>2, <1>3
<1> QED BY <1>0, <1>1, <1>4, <1>5

\* Moving a buffer to the front keeps every buffer in the list.
LEMMA ToFrontKeeps ==
    ASSUME Listed, NEW b \in Buf, lru' = ToFront(b)
    PROVE  Listed'
<1>1. NBUF \in Nat \ {0} /\ Buf = 1 .. NBUF
  BY BlocksAssumption DEF Buf
<1> DEFINE pos == CHOOSE k \in Buf : lru[k] = b
<1>2. pos \in Buf /\ lru[pos] = b
  BY DEF Listed
<1>3. lru' = [k \in Buf |-> IF k = 1 THEN b ELSE IF k <= pos THEN lru[k - 1] ELSE lru[k]]
  BY DEF ToFront
<1> HIDE DEF pos
<1>4. lru' \in [Buf -> Buf]
  <2>1. lru \in [Buf -> Buf]
    BY DEF Listed
  <2>2. \A k \in Buf : k # 1 => k - 1 \in Buf
    BY <1>1
  <2>3. \A k \in Buf : (IF k = 1 THEN b ELSE IF k <= pos THEN lru[k - 1] ELSE lru[k]) \in Buf
    BY <2>1, <2>2
  <2> QED BY <1>3, <2>3
<1>5. ASSUME NEW c \in Buf PROVE \E k \in Buf : lru'[k] = c
  <2>1. PICK k \in Buf : lru[k] = c
    BY DEF Listed
  <2>2. CASE k < pos
    <3>1. k + 1 \in Buf /\ k + 1 # 1 /\ k + 1 <= pos /\ (k + 1) - 1 = k
      BY <1>1, <1>2, <2>2
    <3> QED BY <1>3, <2>1, <3>1
  <2>3. CASE k = pos
    <3>1. 1 \in Buf
      BY <1>1
    <3> QED BY <1>2, <1>3, <2>1, <2>3, <3>1
  <2>4. CASE k > pos
    <3>1. k # 1 /\ ~(k <= pos)
      BY <1>1, <1>2, <2>4
    <3> QED BY <1>3, <2>1, <3>1
  <2> QED BY <1>1, <1>2, <2>2, <2>3, <2>4
<1> QED BY <1>4, <1>5 DEF Listed

\* brelse drops the reference; the last one moves the buffer to the front.
LEMMA DropKeeps ==
    ASSUME CacheInv, UNCHANGED misread, NEW p \in User, brelse(p)
    PROVE  CacheInv'
<1> DEFINE b == user[p].b
<1>0. buf \in [Buf -> Buffer] /\ user \in [User -> Task] /\ BTypes /\ Refs /\ Listed /\ OneBuffer
  BY Zenon DEF CacheInv, BTypes
<1>1. user[p].pc = "drop"
  BY Zenon DEF brelse, Ready
<1>2. b \in Buf /\ buf[b] \in Buffer /\ b # 0 /\ buf[b].ref > 0
  BY <1>0, <1>1, HasBuffer, RefsCount, Zeros
<1>3. /\ buf' = [buf EXCEPT ![b].ref = @ - 1] /\ user' = [user EXCEPT ![p] = Resting]
      /\ lru' \in {lru, ToFront(b)}
      /\ UNCHANGED <<idequeue, disk, sum, bpanic>>
  BY DEF brelse
<1>4. b = user[p].b
  OBVIOUS
<1> HIDE DEF b
<1>5. /\ Resting \in Task /\ Resting.pc = "idle" /\ ~Resting.asleep /\ Resting.b = 0
  BY DEF Resting, Task, BufPcs, Ops
<1>6. buf' \in [Buf -> Buffer]
  <2>1. buf[b].ref - 1 \in Nat
    BY <1>2 DEF Buffer
  <2>2. [buf[b] EXCEPT !.ref = @ - 1] \in Buffer
    BY <1>2, <2>1 DEF Buffer
  <2> QED BY <1>0, <1>3, <2>2
<1>7. /\ \A c \in Buf : SameData(c) /\ buf'[c].holder = buf[c].holder
      /\ \A c \in Buf : c # b => buf'[c].ref = buf[c].ref
      /\ buf'[b].ref = buf[b].ref - 1
  BY <1>0, <1>2, <1>3 DEF SameData, SameFlags, Buffer
<1>8. \A q \in User : user[q].b # 0 => SameFlags(user[q].b)
  BY <1>0, <1>7, RefsCount DEF SameData
<1>9. user' \in [User -> Task] /\ LockWords' /\ Queue' /\ \A q \in User : Transferred(q)'
  BY <1>1, <1>3, <1>5, <1>7, <1>8, OutsideKeeps
<1>10. Values' /\ \A c \in Buf : buf'[c].dirty => buf'[c].valid
  BY <1>3, <1>7, DataKept
<1>11. Listed'
  BY <1>0, <1>2, <1>3, ToFrontKeeps DEF Listed
<1>12. user'[p] = Resting /\ \A q \in User : q # p => user'[q] = user[q]
  BY <1>0, <1>3
<1>13. \A c \in Buf : buf'[c].ref = Cardinality(Users(c)')
  BY <1>2, <1>4, <1>5, <1>7, <1>9, <1>12, CountKept
<1>14. OneBuffer'
  BY <1>0, <1>7 DEF OneBuffer, SameData
<1>15. \A q \in User : user'[q].pc = "idle" <=> user'[q].b = 0
  BY <1>0, <1>5, <1>12 DEF Refs
<1>16. \A q \in User : user'[q].b # 0 => user'[q].blk \in Block /\ buf'[user'[q].b].blk = user'[q].blk
  <2> TAKE q \in User
  <2>1. CASE q = p
    BY <1>5, <1>12, <2>1
  <2>2. CASE q # p
    <3>1. user[q].b # 0 => user[q].b \in Buf /\ user[q].blk \in Block /\ buf[user[q].b].blk = user[q].blk
      BY <1>0, RefsCount DEF Refs
    <3> QED BY <1>7, <1>12, <2>2, <3>1 DEF SameData
  <2> QED BY <2>1, <2>2
<1>17. Refs'
  BY <1>13, <1>15, <1>16 DEF Refs
<1>18. BTypes'
  BY <1>0, <1>3, <1>6, <1>9 DEF BTypes
<1> QED BY Zenon, <1>3, <1>9, <1>10, <1>11, <1>14, <1>17, <1>18 DEF CacheInv, Flags

\* bget finds the buffer of the block: one more reference.
LEMMA HitKeeps ==
    ASSUME CacheInv, UNCHANGED misread, NEW p \in User, NEW b \in Buf, NEW k \in Block, NEW r \in Task, NEW s \in Buffer,
           user[p].pc = "idle", r.pc = "lock", ~r.asleep, r.b = b, r.blk = k, user' = [user EXCEPT ![p] = r],
           buf[b].blk = k, s = [buf[b] EXCEPT !.ref = @ + 1], buf' = [buf EXCEPT ![b] = s],
           UNCHANGED <<lru, idequeue, disk, sum, bpanic>>
    PROVE  CacheInv'
<1>0. buf \in [Buf -> Buffer] /\ user \in [User -> Task] /\ BTypes /\ Refs /\ Listed /\ OneBuffer
  BY Zenon DEF CacheInv, BTypes
<1>1. buf[b] \in Buffer /\ user[p].b = 0
  BY <1>0 DEF Refs
<1>2. /\ s.ref = buf[b].ref + 1 /\ s.blk = k /\ s.data = buf[b].data /\ s.holder = buf[b].holder
      /\ (s.valid <=> buf[b].valid) /\ (s.dirty <=> buf[b].dirty)
  BY <1>1 DEF Buffer
<1>3. buf' \in [Buf -> Buffer] /\ buf'[b] = s /\ \A c \in Buf : c # b => buf'[c] = buf[c]
  BY <1>0
<1>4. /\ \A c \in Buf : SameData(c) /\ buf'[c].holder = buf[c].holder
      /\ \A c \in Buf : c # b => buf'[c].ref = buf[c].ref
      /\ buf'[b].ref = buf[b].ref + 1
  BY <1>2, <1>3 DEF SameData, SameFlags
<1>5. \A q \in User : user[q].b # 0 => SameFlags(user[q].b)
  BY <1>0, <1>4, RefsCount DEF SameData
<1>6. user' \in [User -> Task] /\ LockWords' /\ Queue' /\ \A q \in User : Transferred(q)'
  BY <1>4, <1>5, OutsideKeeps
<1>7. Values' /\ \A c \in Buf : buf'[c].dirty => buf'[c].valid
  BY <1>4, DataKept
<1>8. user'[p] = r /\ \A q \in User : q # p => user'[q] = user[q]
  BY <1>0
<1>9. \A c \in Buf : buf'[c].ref = Cardinality(Users(c)')
  BY <1>1, <1>2, <1>4, <1>6, <1>8, CountKept
<1>10. OneBuffer'
  BY <1>0, <1>4 DEF OneBuffer, SameData
<1>11. \A q \in User : user'[q].pc = "idle" <=> user'[q].b = 0
  BY <1>0, <1>2, <1>8, Zeros DEF Refs
<1>12. \A q \in User : user'[q].b # 0 => user'[q].blk \in Block /\ buf'[user'[q].b].blk = user'[q].blk
  <2> TAKE q \in User
  <2>1. CASE q = p
    BY <1>2, <1>4, <1>8, <2>1 DEF SameData
  <2>2. CASE q # p
    <3>1. user[q].b # 0 => user[q].b \in Buf /\ user[q].blk \in Block /\ buf[user[q].b].blk = user[q].blk
      BY <1>0, RefsCount DEF Refs
    <3> QED BY <1>4, <1>8, <2>2, <3>1 DEF SameData
  <2> QED BY <2>1, <2>2
<1>13. Refs'
  BY <1>9, <1>11, <1>12 DEF Refs
<1>14. BTypes' /\ Listed'
  BY <1>0, <1>3, <1>6 DEF BTypes, Listed
<1> QED BY Zenon, <1>6, <1>7, <1>10, <1>13, <1>14 DEF CacheInv, Flags

\* bget recycles a buffer that nobody uses and that is not dirty.
LEMMA RecycleKeeps ==
    ASSUME CacheInv, UNCHANGED misread, NEW p \in User, NEW b \in Buf, NEW k \in Block, NEW r \in Task, NEW s \in Buffer,
           user[p].pc = "idle", r.pc = "lock", ~r.asleep, r.b = b, r.blk = k, user' = [user EXCEPT ![p] = r],
           \A c \in Buf : buf[c].blk # k, buf[b].ref = 0, ~buf[b].dirty, buf' = [buf EXCEPT ![b] = s],
           s.blk = k, s.ref = 1, ~s.valid, ~s.dirty, s.holder = buf[b].holder,
           UNCHANGED <<lru, idequeue, disk, sum, bpanic>>
    PROVE  CacheInv'
<1>0. /\ buf \in [Buf -> Buffer] /\ user \in [User -> Task] /\ BTypes /\ Refs /\ Listed /\ OneBuffer
      /\ Values /\ Flags /\ bpanic # "iderw: nothing to do"
  BY Zenon DEF CacheInv, BTypes
<1>1. buf[b] \in Buffer /\ user[p].b = 0 /\ \A q \in User : user[q].b # b
  BY Zenon, <1>0, RefsCount DEF Refs
<1>4. buf' \in [Buf -> Buffer] /\ buf'[b] = s /\ \A c \in Buf : c # b => buf'[c] = buf[c]
  BY Zenon, <1>0
<1>5. \A c \in Buf : buf'[c].holder = buf[c].holder
  BY <1>4
<1>6. \A q \in User : user[q].b # 0 => SameFlags(user[q].b)
  BY Zenon, <1>0, <1>1, <1>4, RefsCount DEF SameFlags
<1>7. user' \in [User -> Task] /\ LockWords' /\ Queue' /\ \A q \in User : Transferred(q)'
  BY <1>5, <1>6, OutsideKeeps
<1>8. user'[p] = r /\ \A q \in User : q # p => user'[q] = user[q]
  BY Zenon, <1>0
<1>9. \A c \in Buf : buf'[c].ref = Cardinality(Users(c)')
  <2>1. buf'[b].ref = buf[b].ref + 1
    BY <1>4
  <2>2. \A c \in Buf : c # b => buf'[c].ref = buf[c].ref
    BY <1>4
  <2> QED BY <1>1, <1>7, <1>8, <2>1, <2>2, CountKept
<1>10. OneBuffer'
  <2> SUFFICES ASSUME NEW c \in Buf, NEW d \in Buf, buf'[c].blk = buf'[d].blk, c # d PROVE buf'[c].blk = NoBlock
    BY DEF OneBuffer
  <2>1. c # b /\ d # b
    BY <1>4
  <2> QED BY Zenon, <1>0, <1>4, <2>1 DEF OneBuffer
<1>11. \A q \in User : user'[q].pc = "idle" <=> user'[q].b = 0
  BY Zenon, <1>0, <1>8, Zeros DEF Refs
<1>12. \A q \in User : user'[q].b # 0 => user'[q].blk \in Block /\ buf'[user'[q].b].blk = user'[q].blk
  <2> TAKE q \in User
  <2>1. CASE q = p
    BY <1>4, <1>8, <2>1
  <2>2. CASE q # p
    <3>1. user[q].b # 0 => user[q].b \in Buf /\ user[q].blk \in Block /\ buf[user[q].b].blk = user[q].blk
      BY Zenon, <1>0, RefsCount DEF Refs
    <3> QED BY <1>1, <1>4, <1>8, <2>2, <3>1
  <2> QED BY <2>1, <2>2
<1>13. Refs'
  BY <1>9, <1>11, <1>12 DEF Refs
<1>14. BTypes' /\ Listed'
  BY Zenon, <1>0, <1>4, <1>7 DEF BTypes, Listed
<1>15. \A c \in Buf : buf'[c].dirty => buf'[c].valid
  BY Zenon, <1>0, <1>4 DEF Flags
<1>16. ASSUME NEW c \in Buf, buf'[c].blk \in Known, buf'[c].valid
       PROVE  buf'[c].data = sum[buf'[c].blk]
  <2>1. c # b /\ buf'[c] = buf[c]
    BY <1>4, <1>16
  <2> QED BY Zenon, <1>0, <1>16, <2>1 DEF Values
<1>17. ASSUME NEW j \in Known, \A c \in Buf : buf'[c].blk = j => ~buf'[c].dirty
       PROVE  disk[j] = sum[j]
  <2>1. \A c \in Buf : buf[c].blk = j => ~buf[c].dirty
    BY <1>4, <1>17
  <2> QED BY Zenon, <1>0, <2>1 DEF Values
<1>18. HeadSent'
  <2>1. CASE idequeue = <<>>
    BY <2>1 DEF HeadSent
  <2>2. CASE idequeue # <<>>
    <3> DEFINE h == Head(idequeue)
    <3>1. h \in Buf /\ Queued(h)
      BY <2>2, QueueHead
    <3>2. buf[h].dirty => disk[buf[h].blk] = buf[h].data
      BY Zenon, <1>0, <2>2 DEF Values
    <3>3. Head(idequeue') = h
      OBVIOUS
    <3> HIDE DEF h
    <3>4. h # b
      BY <1>1, <3>1, QueuedHeld
    <3>5. buf'[h] = buf[h]
      BY <1>4, <3>1, <3>4
    <3> QED BY <3>2, <3>3, <3>5 DEF HeadSent
  <2> QED BY <2>1, <2>2
<1>19. Values'
  <2>1. Known' = Known
    BY DEF Known
  <2> QED BY <1>16, <1>17, <1>18, <2>1 DEF Values, HeadSent
<1> QED BY Zenon, <1>0, <1>7, <1>10, <1>13, <1>14, <1>15, <1>19 DEF CacheInv, Flags

\* A step that changes none of this.
LEMMA StutterKeeps ==
    ASSUME CacheInv, UNCHANGED misread, UNCHANGED <<buf, lru, idequeue, disk, user, sum>>, bpanic' # "iderw: nothing to do"
    PROVE  CacheInv'
<1>1. BTypes' /\ Listed' /\ OneBuffer'
  BY Zenon DEF CacheInv, BTypes, Listed, OneBuffer
<1>2. Refs'
  BY Zenon DEF CacheInv, Refs, Users
<1>3. LockWords'
  BY Zenon DEF CacheInv, LockWords, HasLock, Sleeps, HeldBy, Waits
<1>4. Queue'
  BY Zenon, QueueKept DEF Waits
<1>5. Flags'
  BY Zenon DEF CacheInv, Flags, Transferred
<1>6. Values'
  BY Zenon DEF CacheInv, Values, Known
<1> QED BY Zenon, <1>1, <1>2, <1>3, <1>4, <1>5, <1>6 DEF CacheInv

\* bget: found, recycled, or no buffer left.
LEMMA GetKeeps ==
    ASSUME CacheInv, UNCHANGED misread, NEW p \in User, NEW op \in {"read", "write", "log", "install"}, NEW k \in Block, bget(p, op, k)
    PROVE  CacheInv'
<1> DEFINE b == Found(k)
<1>1. /\ user[p].pc = "idle" /\ UNCHANGED <<lru, idequeue, disk, sum>> /\ op \in Ops
      /\ IF b = 0 THEN bpanic' = "bget: no buffers" /\ UNCHANGED <<buf, user>>
         ELSE /\ buf' = [buf EXCEPT ![b] = IF Cached(k) # {} THEN [buf[b] EXCEPT !.ref = @ + 1]
                                           ELSE [buf[b] EXCEPT !.blk = k, !.ref = 1, !.valid = FALSE]]
              /\ user' = [user EXCEPT ![p] = [pc |-> "lock", op |-> op, blk |-> k, b |-> b, asleep |-> FALSE]]
              /\ UNCHANGED bpanic
  BY Zenon DEF bget, Ready, Ops, Found, Cached
<1>2. /\ Cached(k) # {} => b \in Buf /\ buf[b].blk = k
      /\ Cached(k) = {} => \A c \in Buf : buf[c].blk # k
      /\ Cached(k) = {} /\ b # 0 => b \in Buf /\ buf[b].ref = 0 /\ ~buf[b].dirty
  BY FoundBuffer
<1> HIDE DEF b
<1>3. CASE b = 0
  <2>1. bpanic' = "bget: no buffers" /\ UNCHANGED <<buf, user>>
    BY Zenon, <1>1, <1>3
  <2> QED BY Zenon, <1>1, <2>1, StutterKeeps
<1>4. CASE b # 0 /\ Cached(k) # {}
  <2> DEFINE s == [buf[b] EXCEPT !.ref = @ + 1]
             r == [pc |-> "lock", op |-> op, blk |-> k, b |-> b, asleep |-> FALSE]
  <2>1. buf' = [buf EXCEPT ![b] = s] /\ UNCHANGED bpanic /\ user' = [user EXCEPT ![p] = r]
    BY <1>1, <1>4
  <2>2. r \in Task /\ r.pc = "lock" /\ ~r.asleep /\ r.b = b /\ r.blk = k
    BY <1>1, <1>2, <1>4 DEF Task, BufPcs
  <2>3. s \in Buffer
    <3>1. buf[b] \in Buffer
      BY Zenon, <1>2, <1>4 DEF CacheInv, BTypes
    <3>2. buf[b].ref + 1 \in Nat
      BY <3>1 DEF Buffer
    <3> QED BY <3>1, <3>2 DEF Buffer
  <2>4. s = [buf[b] EXCEPT !.ref = @ + 1]
    OBVIOUS
  <2> HIDE DEF r, s
  <2> QED BY <1>1, <1>2, <1>4, <2>1, <2>2, <2>3, <2>4, HitKeeps
<1>5. CASE b # 0 /\ Cached(k) = {}
  <2> DEFINE s == [buf[b] EXCEPT !.blk = k, !.ref = 1, !.valid = FALSE]
             r == [pc |-> "lock", op |-> op, blk |-> k, b |-> b, asleep |-> FALSE]
  <2>1. buf' = [buf EXCEPT ![b] = s] /\ UNCHANGED bpanic /\ user' = [user EXCEPT ![p] = r]
    BY <1>1, <1>5
  <2>2. r \in Task /\ r.pc = "lock" /\ ~r.asleep /\ r.b = b /\ r.blk = k
    BY <1>1, <1>2, <1>5 DEF Task, BufPcs
  <2>3. buf[b] \in Buffer /\ b \in Buf /\ buf[b].ref = 0 /\ ~buf[b].dirty
    BY Zenon, <1>2, <1>5 DEF CacheInv, BTypes
  <2>4. PICK one \in Nat : one = 1
    OBVIOUS
  <2>5. s = [buf[b] EXCEPT !.blk = k, !.ref = one, !.valid = FALSE]
    BY <2>4
  <2> HIDE DEF r, s
  <2>6. s \in Buffer /\ s.blk = k /\ s.ref = 1 /\ ~s.valid /\ ~s.dirty /\ s.holder = buf[b].holder
    BY <2>3, <2>4, <2>5 DEF Buffer
  <2> QED BY <1>1, <1>2, <1>5, <2>1, <2>2, <2>3, <2>6, RecycleKeeps
<1> QED BY <1>3, <1>4, <1>5

-----------------------------------------------------------------------------
\* The empty cache that binit makes.
LEMMA BInitCache == BInit => CacheInv
<1> SUFFICES ASSUME BInit PROVE CacheInv
  OBVIOUS
<1>1. /\ buf = [b \in Buf |-> [blk |-> NoBlock, ref |-> 0, valid |-> FALSE, dirty |-> FALSE, data |-> 0, holder |-> 0]]
      /\ user = [p \in User |-> Resting] /\ idequeue = <<>> /\ bpanic = ""
      /\ lru = [k \in Buf |-> NBUF + 1 - k] /\ disk = [k \in Block |-> 0] /\ sum = [k \in Block |-> 0]
  BY Zenon DEF BInit
<1>2. Resting \in Task /\ Resting.pc = "idle" /\ Resting.b = 0 /\ ~Resting.asleep
  BY DEF Resting, Task, BufPcs, Ops
<1>3. \A p \in User : user[p] \in Task /\ user[p].pc = "idle" /\ user[p].b = 0 /\ ~user[p].asleep
  BY Zenon, <1>1, <1>2
<1>4. \A b \in Buf : /\ buf[b] \in Buffer /\ buf[b].blk = NoBlock /\ buf[b].ref = 0 /\ ~buf[b].valid /\ ~buf[b].dirty
                     /\ buf[b].holder = 0
  BY Zenon, <1>1 DEF Buffer
<1>5. BTypes
  <2>1. buf \in [Buf -> Buffer]
    BY Zenon, <1>1, <1>4
  <2>2. user \in [User -> Task]
    BY Zenon, <1>1, <1>2
  <2>3. idequeue \in Seq(Buf) /\ disk \in [Block -> Nat] /\ sum \in [Block -> Nat]
    <3>1. <<>> \in Seq(Buf)
      OBVIOUS
    <3>2. disk \in [Block -> Nat] /\ sum \in [Block -> Nat]
      BY Zenon, <1>1
    <3> QED BY Zenon, <1>1, <3>1, <3>2
  <2> QED BY <2>1, <2>2, <2>3 DEF BTypes
<1>6. Listed
  <2>1. \A k \in Buf : NBUF + 1 - k \in Buf /\ NBUF + 1 - (NBUF + 1 - k) = k
    BY BlocksAssumption DEF Buf
  <2>2. lru \in [Buf -> Buf]
    BY Zenon, <1>1, <2>1
  <2>3. \A b \in Buf : lru[NBUF + 1 - b] = b
    BY Zenon, <1>1, <2>1
  <2> QED BY <2>1, <2>2, <2>3 DEF Listed
<1>7. Refs
  <2>1. ASSUME NEW b \in Buf PROVE buf[b].ref = Cardinality(Users(b))
    <3>1. Users(b) = {}
      BY <1>3, Zeros DEF Users
    <3>2. Cardinality({}) = 0
      BY FS_EmptySet
    <3> QED BY <1>4, <3>1, <3>2
  <2> QED BY <1>3, <2>1 DEF Refs
<1>8. OneBuffer
  BY <1>4 DEF OneBuffer
<1>9. LockWords
  BY <1>3, <1>4 DEF LockWords, HasLock, HoldPcs, Sleeps, HeldBy
<1>10. Queue
  <2>1. Len(idequeue) = 0 /\ 1 .. 0 = {}
    <3>1. Len(<<>>) = 0 /\ 1 .. 0 = {}
      OBVIOUS
    <3> QED BY Zenon, <1>1, <3>1
  <2> QED BY <1>3, <2>1 DEF Queue, Queued, Waits
<1>11. Flags
  BY <1>3, <1>4 DEF Flags, Transferred
<1>12. Values
  <2>1. \A k \in Block : disk[k] = sum[k]
    BY Zenon, <1>1
  <2> QED BY Zenon, <1>1, <1>4, <2>1 DEF Values, Known
<1> QED BY Zenon, <1>1, <1>5, <1>6, <1>7, <1>8, <1>9, <1>10, <1>11, <1>12 DEF CacheInv

\* Every operation of the cache, the locks and the driver keeps the invariant.
LEMMA BNextCache == CacheInv /\ [BNext]_blockVars => CacheInv'
<1> SUFFICES ASSUME CacheInv, [BNext]_blockVars PROVE CacheInv'
  OBVIOUS
<1>1. ASSUME NEW ok \in BOOLEAN, ideintr(ok) PROVE CacheInv'
  BY <1>1, InterruptKeeps
<1>2. ASSUME NEW p \in User, NEW op \in {"read", "write", "log", "install"}, NEW blk \in Block, bget(p, op, blk), UNCHANGED misread
      PROVE  CacheInv'
  BY <1>2, GetKeeps
<1>3. ASSUME NEW p \in User, acquiresleep(p), UNCHANGED misread PROVE CacheInv'
  BY <1>3, LockKeeps, WaitKeeps
<1>4. ASSUME NEW p \in User, bread(p), UNCHANGED misread PROVE CacheInv'
  BY <1>4, ReadKeeps
<1>5. ASSUME NEW p \in User, iderwWakes(p), UNCHANGED misread PROVE CacheInv'
  BY <1>5, WakeKeeps
<1>6. ASSUME NEW p \in User, use(p), UNCHANGED misread PROVE CacheInv'
  BY <1>6, UseKeeps
<1>7. ASSUME NEW p \in User, releasesleep(p), UNCHANGED misread PROVE CacheInv'
  BY <1>7, ReleaseKeeps
<1>8. ASSUME NEW p \in User, brelse(p), UNCHANGED misread PROVE CacheInv'
  BY <1>8, DropKeeps
<1>9. CASE UNCHANGED blockVars
  <2>1. UNCHANGED <<buf, lru, idequeue, disk, user, sum, misread>> /\ bpanic' # "iderw: nothing to do"
    BY Zenon, <1>9 DEF blockVars, CacheInv
  <2> QED BY Zenon, <2>1, StutterKeeps
<1> QED BY <1>1, <1>2, <1>3, <1>4, <1>5, <1>6, <1>7, <1>8, <1>9 DEF BNext, UserStep

\* The invariant of the buffer cache: the list holds every buffer, reference
\* counts are exact, a block has one buffer, the sleep lock of a buffer is held by
\* the process that works on it, and the disk queue holds exactly the buffers whose
\* holders sleep for the disk (bio.c, sleeplock.c, ide.c, memide.c).
THEOREM CacheInvariance == BSpec => []CacheInv
BY BInitCache, BNextCache, PTL DEF BSpec

\* For any number of processes, buffers, blocks and operations: bget never makes
\* a second buffer for a block, iderw is never called with nothing to do, and no
\* addition to a block is lost, whether bwrite or the log carries it, unless the
\* disk has failed to read that block.
THEOREM AlwaysNoLostUpdate == BSpec => []NoLostUpdate
<1>1. CacheInv => NoLostUpdate
  <2> SUFFICES ASSUME CacheInv PROVE NoLostUpdate
    OBVIOUS
  <2>0. BTypes /\ Refs /\ OneBuffer /\ Flags /\ Values /\ bpanic # "iderw: nothing to do"
    BY Zenon DEF CacheInv
  <2>1. OneBufferPerBlock
    <3>1. \A p \in User : user[p].b # 0 => Mine(p).blk = user[p].blk /\ Mine(p).ref > 0
      BY Zenon, <2>0, RefsCount DEF Mine, Refs
    <3> QED BY Zenon, <2>0, <3>1 DEF OneBufferPerBlock, OneBuffer
  <2>2. ASSUME NEW k \in Known, ~\E b \in Buf : buf[b].blk = k /\ (buf[b].valid \/ buf[b].dirty)
        PROVE  disk[k] = sum[k]
    BY Zenon, <2>0, <2>2 DEF Values
  <2>3. ASSUME NEW k \in Known, NEW b \in Buf, buf[b].blk = k, buf[b].valid \/ buf[b].dirty
        PROVE  buf[b].data = sum[k]
    <3>1. buf[b].valid
      BY Zenon, <2>0, <2>3 DEF Flags
    <3> QED BY Zenon, <2>0, <2>3, <3>1 DEF Values
  <2> QED BY <2>1, <2>2, <2>3 DEF NoLostUpdate, Known
<1> QED BY <1>1, CacheInvariance, PTL

\* For any number of processes, buffers, blocks and operations: who sleeps in
\* iderw has its buffer in the disk queue, and who sleeps in acquiresleep sleeps
\* while the lock is held, so the interrupt or releasesleep will wake it.
THEOREM AlwaysSleepersHaveWaker == BSpec => []SleepersHaveWaker
<1>1. CacheInv => SleepersHaveWaker
  <2> SUFFICES ASSUME CacheInv, NEW p \in User, user[p].asleep
               PROVE  IF user[p].pc = "lock" THEN Mine(p).holder # 0
                      ELSE \E k \in DOMAIN idequeue : idequeue[k] = user[p].b
    BY DEF SleepersHaveWaker
  <2>1. Sleeps(p)
    BY HasBuffer
  <2>2. CASE user[p].pc = "lock"
    BY <2>1, <2>2 DEF Sleeps, Waits, Mine
  <2>3. CASE user[p].pc # "lock"
    <3>1. Queued(user[p].b)
      BY Zenon, <2>1, <2>3 DEF Sleeps, CacheInv, Queue
    <3>2. DOMAIN idequeue = 1 .. Len(idequeue)
      <4>1. idequeue \in Seq(Buf)
        BY Zenon DEF CacheInv, BTypes
      <4> QED BY <4>1
    <3> QED BY <2>3, <3>1, <3>2 DEF Queued
  <2> QED BY <2>2, <2>3
<1> QED BY <1>1, CacheInvariance, PTL

-----------------------------------------------------------------------------
(* The console: remainders and indices that wrap. *)

\* Quotient and remainder.
LEMMA DivMod == ASSUME NEW x \in Int, NEW n \in Nat \ {0}
    PROVE x % n \in 0 .. n - 1 /\ x \div n \in Int /\ x = n * (x \div n) + (x % n)
BY SMT

\* A positive multiple of n is at least n.
LEMMA Mult == ASSUME NEW n \in Nat \ {0}, NEW d \in Int, d > 0 PROVE n * d >= n
BY SMT

\* Quotient and remainder are unique.
LEMMA Unique == ASSUME NEW n \in Nat \ {0}, NEW a \in Int, NEW b \in Int, NEW s \in 0 .. n - 1,
                       NEW t \in 0 .. n - 1, n * a + s = n * b + t
    PROVE a = b /\ s = t
<1>1. n * (a - b) = t - s /\ n * (b - a) = s - t
  BY SMT
<1>2. a - b \in Int /\ b - a \in Int
  OBVIOUS
<1>3. ~(a - b > 0) /\ ~(b - a > 0)
  BY <1>1, <1>2, Mult
<1>4. a = b
  BY <1>3
<1> QED
  BY <1>4
\* A number n * k + t has the remainder t.
LEMMA ModIs == ASSUME NEW n \in Nat \ {0}, NEW x \in Int, NEW k \in Int, NEW t \in 0 .. n - 1, x = (n * k) + t
    PROVE x % n = t
<1> DEFINE a == x \div n s == x % n
<1>1. s \in 0 .. n - 1 /\ a \in Int /\ x = (n * a) + s
  BY DivMod
<1> HIDE DEF a, s
<1>2. s = t
  BY <1>1, Unique
<1> QED
  BY <1>2 DEF s

\* a number less than n away has another remainder
LEMMA Near == ASSUME NEW n \in Nat \ {0}, NEW x \in Int, NEW y \in Int, x < y, y - x < n
    PROVE x % n # y % n
<1> SUFFICES ASSUME x % n = y % n PROVE FALSE
  OBVIOUS
<1> DEFINE a == x \div n b == y \div n s == x % n t == y % n
<1>1. s \in 0 .. n - 1 /\ a \in Int /\ x = (n * a) + s
  BY DivMod
<1>2. t \in 0 .. n - 1 /\ b \in Int /\ y = (n * b) + t
  BY DivMod
<1> HIDE DEF a, b, s, t
<1>3. n * (b - a) = y - x
  BY <1>1, <1>2 DEF s, t
<1>4. b - a \in Int
  BY <1>1, <1>2
<1>5. CASE b - a > 0
  BY <1>3, <1>4, <1>5, Mult
<1>6. CASE ~(b - a > 0)
  <2>1. n * (b - a) <= 0
    BY <1>4, <1>6
  <2> QED
    BY <1>3, <2>1
<1> QED
  BY <1>5, <1>6

\* Adding a multiple of n keeps the remainder.
LEMMA Multiple == ASSUME NEW n \in Nat \ {0}, NEW w \in Nat, w % n = 0, NEW x \in Int
    PROVE (x + w) % n = x % n
<1>1. w % n \in 0 .. n - 1 /\ w \div n \in Int /\ w = (n * (w \div n)) + (w % n)
  BY DivMod
<1>2. x % n \in 0 .. n - 1 /\ x \div n \in Int /\ x = (n * (x \div n)) + (x % n)
  BY DivMod
<1> DEFINE a == w \div n b == x \div n t == x % n
<1>3. a \in Int /\ b \in Int /\ t \in 0 .. n - 1 /\ w = n * a /\ x = (n * b) + t
  BY <1>1, <1>2
<1> HIDE DEF a, b, t
<1>4. x + w = (n * (a + b)) + t
  BY <1>3
<1>5. a + b \in Int /\ x + w \in Int
  BY <1>3
<1>6. (x + w) % n = t
  BY <1>3, <1>4, <1>5, ModIs
<1> QED
  BY <1>6 DEF t

\* A number that has wrapped once at most.
LEMMA Wraps == ASSUME NEW w \in Nat \ {0}, NEW x \in Int, -w <= x, x < 2 * w
    PROVE x % w = IF x < 0 THEN x + w ELSE IF x >= w THEN x - w ELSE x
<1>1. CASE x < 0
  <2>1. x + w \in 0 .. w - 1 /\ x = (w * (-1)) + (x + w) /\ -1 \in Int
    BY <1>1
  <2> QED
    BY <1>1, <2>1, ModIs
<1>2. CASE 0 <= x /\ x < w
  <2>1. x \in 0 .. w - 1 /\ x = (w * 0) + x /\ 0 \in Int
    BY <1>2
  <2> QED
    BY <1>2, <2>1, ModIs
<1>3. CASE x >= w
  <2>1. x - w \in 0 .. w - 1 /\ x = (w * 1) + (x - w) /\ 1 \in Int
    BY <1>3
  <2> QED
    BY <1>3, <2>1, ModIs
<1> QED
  BY <1>1, <1>2, <1>3

\* Indices into the ring are kept modulo CWord, a multiple of its size.
Position == 0 .. CWord - 1
Unread(i, j) == (j - i) % CWord
Cell(i) == i % INPUT_BUF
Char == Characters \cup {"nul"}
Ring == [buf : [0 .. INPUT_BUF - 1 -> Char], r : Position, w : Position, e : Position]

\* The sizes of the ring.
LEMMA Sizes == /\ INPUT_BUF \in Nat \ {0} /\ CWord \in Nat \ {0} /\ INPUT_BUF < CWord /\ CWord % INPUT_BUF = 0
               /\ First \in Position
<1>1. INPUT_BUF \in Nat \ {0} /\ CWord \in Nat /\ INPUT_BUF < CWord /\ CWord % INPUT_BUF = 0
      /\ First \in Position
  BY ConsoleAssumption DEF Position
<1>2. CWord # 0
  BY <1>1
<1> QED
  BY <1>1, <1>2

\* How far one index is from another.
LEMMA CountIs ==
    ASSUME NEW i \in Position, NEW j \in Position
    PROVE  /\ Unread(i, j) \in Position
           /\ Unread(i, j) = IF j >= i THEN j - i ELSE (j - i) + CWord
<1>1. CWord \in Nat \ {0} /\ i \in 0 .. CWord - 1 /\ j \in 0 .. CWord - 1
  BY Sizes DEF Position
<1>2. j - i \in Int /\ -CWord <= j - i /\ j - i < 2 * CWord
  BY <1>1
<1>3. (j - i) % CWord = IF j - i < 0 THEN (j - i) + CWord ELSE IF j - i >= CWord THEN (j - i) - CWord ELSE j - i
  BY <1>1, <1>2, Wraps
<1> DEFINE k == (j - i) % CWord
<1> HIDE DEF k
<1>4. k = IF j >= i THEN j - i ELSE (j - i) + CWord
  BY <1>1, <1>3 DEF k
<1>5. k \in Position
  BY <1>1, <1>4 DEF Position
<1> QED
  BY <1>4, <1>5 DEF Unread, k

\* The next index and the one before.
LEMMA StepIs ==
    ASSUME NEW i \in Position
    PROVE  /\ inc(i) \in Position /\ inc(i) = IF i + 1 = CWord THEN 0 ELSE i + 1
           /\ dec(i) \in Position /\ dec(i) = IF i = 0 THEN CWord - 1 ELSE i - 1
<1>1. CWord \in Nat \ {0} /\ i \in 0 .. CWord - 1
  BY Sizes DEF Position
<1>2. i + 1 \in Int /\ -CWord <= i + 1 /\ i + 1 < 2 * CWord /\ i - 1 \in Int /\ -CWord <= i - 1
      /\ i - 1 < 2 * CWord
  BY <1>1
<1> DEFINE x == (i + 1) % CWord
           y == (i - 1) % CWord
<1>3. x = IF i + 1 < 0 THEN (i + 1) + CWord ELSE IF i + 1 >= CWord THEN (i + 1) - CWord ELSE i + 1
  BY <1>1, <1>2, Wraps
<1>4. y = IF i - 1 < 0 THEN (i - 1) + CWord ELSE IF i - 1 >= CWord THEN (i - 1) - CWord ELSE i - 1
  BY <1>1, <1>2, Wraps
<1> HIDE DEF x, y
<1>5. x = IF i + 1 = CWord THEN 0 ELSE i + 1
  BY <1>1, <1>3
<1>6. y = IF i = 0 THEN CWord - 1 ELSE i - 1
  BY <1>1, <1>4
<1>7. x \in Position /\ y \in Position
  BY <1>1, <1>5, <1>6 DEF Position
<1> QED
  BY <1>5, <1>6, <1>7 DEF inc, dec, x, y

\* The cell of an index, and of one that has wrapped.
LEMMA CellIs ==
    ASSUME NEW i \in Int
    PROVE  Cell(i) \in 0 .. INPUT_BUF - 1 /\ Cell(i + CWord) = Cell(i)
<1>1. i % INPUT_BUF \in 0 .. INPUT_BUF - 1
  BY Sizes, DivMod
<1>2. (i + CWord) % INPUT_BUF = i % INPUT_BUF
  BY Sizes, Multiple
<1> QED
  BY <1>1, <1>2 DEF Cell

\* From an index that is Unread(i, j) further on, one reaches the same cells.
LEMMA CellFrom ==
    ASSUME NEW i \in Position, NEW j \in Position, NEW x \in Int
    PROVE  Cell(j + x) = Cell(i + Unread(i, j) + x)
<1> DEFINE k == Unread(i, j)
<1>1. CWord \in Nat /\ i \in Int /\ j \in Int
  BY Sizes DEF Position
<1>2. k \in Int /\ k = IF j >= i THEN j - i ELSE (j - i) + CWord
  BY <1>1, CountIs DEF Position
<1> HIDE DEF k
<1>3. i + k + x = j + x \/ i + k + x = (j + x) + CWord
  BY <1>1, <1>2
<1>4. j + x \in Int
  BY <1>1
<1> QED
  BY <1>3, <1>4, CellIs DEF k

\* The cell of j, counted from i.
LEMMA CellAt ==
    ASSUME NEW i \in Position, NEW j \in Position
    PROVE  Cell(j) = Cell(i + Unread(i, j))
<1> DEFINE k == Unread(i, j)
<1>1. CWord \in Nat /\ i \in Int /\ j \in Int
  BY Sizes DEF Position
<1>2. k \in Int /\ k = IF j >= i THEN j - i ELSE (j - i) + CWord
  BY <1>1, CountIs DEF Position
<1> HIDE DEF k
<1>3. i + k = j \/ i + k = j + CWord
  BY <1>1, <1>2
<1> QED
  BY <1>1, <1>3, CellIs DEF k

\* Two cells fewer than INPUT_BUF apart are different.
LEMMA CellsApart ==
    ASSUME NEW i \in Int, NEW j \in Int, i < j, j - i < INPUT_BUF
    PROVE  Cell(i) # Cell(j)
BY Sizes, Near DEF Cell

-----------------------------------------------------------------------------
(* The characters between two indices. *)

\* A slice, its length and its characters.
LEMMA SliceIs ==
    ASSUME NEW in \in Ring, NEW i \in Position, NEW j \in Position
    PROVE  /\ Slice(in, i, j) \in Seq(Char) /\ Len(Slice(in, i, j)) = Unread(i, j) /\ Unread(i, j) \in Nat
           /\ \A k \in 1 .. Unread(i, j) : Slice(in, i, j)[k] = in.buf[Cell(i + k - 1)]
<1> DEFINE n == Unread(i, j)
           s == [k \in 1 .. n |-> in.buf[Cell(i + k - 1)]]
<1>1. n \in Nat /\ i \in Int
  BY CountIs DEF Position
<1>2. Slice(in, i, j) = s
  BY DEF Slice, CharAt, Cell, Unread
<1>3. in.buf \in [0 .. INPUT_BUF - 1 -> Char]
  BY DEF Ring
<1> HIDE DEF n
<1>4. \A k \in 1 .. n : in.buf[Cell(i + k - 1)] \in Char
  <2> SUFFICES ASSUME NEW k \in 1 .. n PROVE in.buf[Cell(i + k - 1)] \in Char
    OBVIOUS
  <2>1. i + k - 1 \in Int
    BY <1>1
  <2>2. Cell(i + k - 1) \in 0 .. INPUT_BUF - 1
    BY <2>1, CellIs
  <2> QED
    BY <1>3, <2>2
<1>5. s \in [1 .. n -> Char] /\ \A k \in 1 .. n : s[k] = in.buf[Cell(i + k - 1)]
  BY <1>4
<1> HIDE DEF s
<1>6. s \in Seq(Char) /\ Len(s) = n
  BY <1>1, <1>5
<1> QED
  BY <1>1, <1>2, <1>5, <1>6 DEF n

\* An empty slice, and slices end to end.
LEMMA SliceEmpty ==
    ASSUME NEW in \in Ring, NEW i \in Position, NEW j \in Position
    PROVE  Slice(in, i, j) = <<>> <=> i = j
<1> DEFINE s == Slice(in, i, j)
<1>1. s \in Seq(Char) /\ Len(s) = Unread(i, j)
  BY SliceIs
<1>2. Unread(i, j) = 0 <=> i = j
  <2>1. CWord \in Nat /\ i \in 0 .. CWord - 1 /\ j \in 0 .. CWord - 1
        /\ Unread(i, j) = IF j >= i THEN j - i ELSE (j - i) + CWord
    BY Sizes, CountIs DEF Position
  <2> QED
    BY <2>1
<1> HIDE DEF s
<1>3. s = <<>> <=> Len(s) = 0
  BY <1>1, EmptySeq
<1> QED
  BY <1>1, <1>2, <1>3 DEF s

\* Distances add up while they do not wrap.
LEMMA CountSum ==
    ASSUME NEW i \in Position, NEW j \in Position, NEW l \in Position, Unread(i, j) + Unread(j, l) < CWord
    PROVE  Unread(i, l) = Unread(i, j) + Unread(j, l)
<1>1. CWord \in Nat /\ i \in 0 .. CWord - 1 /\ j \in 0 .. CWord - 1 /\ l \in 0 .. CWord - 1
  BY Sizes DEF Position
<1>2. /\ Unread(i, j) = IF j >= i THEN j - i ELSE (j - i) + CWord
      /\ Unread(j, l) = IF l >= j THEN l - j ELSE (l - j) + CWord
      /\ Unread(i, l) = IF l >= i THEN l - i ELSE (l - i) + CWord
  BY CountIs
<1> QED
  BY <1>1, <1>2

\* Slices end to end.
LEMMA SliceJoined ==
    ASSUME NEW in \in Ring, NEW i \in Position, NEW j \in Position, NEW l \in Position,
           Unread(i, j) + Unread(j, l) < CWord
    PROVE  Slice(in, i, l) = Slice(in, i, j) \o Slice(in, j, l)
<1> DEFINE s == Slice(in, i, j)
           t == Slice(in, j, l)
           u == Slice(in, i, l)
           n == Unread(i, j)
           mm == Unread(j, l)
<1>1. /\ s \in Seq(Char) /\ Len(s) = n /\ n \in Nat
      /\ \A k \in 1 .. n : s[k] = in.buf[Cell(i + k - 1)]
  BY SliceIs
<1>2. /\ t \in Seq(Char) /\ Len(t) = mm /\ mm \in Nat
      /\ \A k \in 1 .. mm : t[k] = in.buf[Cell(j + k - 1)]
  BY SliceIs
<1>3. Unread(i, l) = n + mm
  BY CountSum
<1>4. /\ u \in Seq(Char) /\ Len(u) = n + mm
      /\ \A k \in 1 .. n + mm : u[k] = in.buf[Cell(i + k - 1)]
  BY <1>3, SliceIs
<1>5. i \in Int /\ j \in Int
  BY DEF Position
<1>6. \A k \in 1 .. mm : Cell(j + k - 1) = Cell(i + (n + k) - 1)
  <2> SUFFICES ASSUME NEW k \in 1 .. mm PROVE Cell(j + k - 1) = Cell(i + (n + k) - 1)
    OBVIOUS
  <2>1. Cell(j + (k - 1)) = Cell(i + n + (k - 1))
    BY CellFrom
  <2> HIDE DEF n, mm
  <2>2. j + (k - 1) = j + k - 1 /\ i + n + (k - 1) = i + (n + k) - 1
    BY <1>1, <1>2, <1>5
  <2> QED
    BY <2>1, <2>2
<1> HIDE DEF s, t, u, n, mm
<1>7. /\ s \o t \in Seq(Char) /\ Len(s \o t) = n + mm
      /\ \A k \in 1 .. n + mm : (s \o t)[k] = IF k <= n THEN s[k] ELSE t[k - n]
  BY <1>1, <1>2, ConcatProperties
<1>8. ASSUME NEW k \in 1 .. n + mm PROVE (s \o t)[k] = u[k]
  <2>1. CASE k <= n
    <3>1. k \in 1 .. n
      BY <1>1, <1>2, <2>1
    <3> QED
      BY <1>1, <1>4, <1>7, <2>1, <3>1
  <2>2. CASE ~(k <= n)
    <3>1. k - n \in 1 .. mm /\ n + (k - n) = k
      BY <1>1, <1>2, <2>2
    <3>2. t[k - n] = in.buf[Cell(i + k - 1)]
      BY <1>2, <1>6, <3>1
    <3> QED
      BY <1>4, <1>7, <2>2, <3>2
  <2> QED
    BY <2>1, <2>2
<1>9. s \o t = u
  BY <1>4, <1>7, <1>8, SeqEqual
<1> QED
  BY <1>9 DEF s, t, u

-----------------------------------------------------------------------------
(* What the operations do to the characters between two indices. *)

\* nx is the ring in with the character k stored at e.
Stores(in, nx, k) == nx.buf = [in.buf EXCEPT ![Cell(in.e)] = k]

\* A character before the end, at least one and less than a ring away, stays.
LEMMA Untouched ==
    ASSUME NEW in \in Ring, NEW nx \in Ring, NEW c, Stores(in, nx, c), NEW x \in Int,
           NEW n \in 1 .. INPUT_BUF - 1,
           Cell(in.e) = Cell(x + n)
    PROVE  nx.buf[Cell(x)] = in.buf[Cell(x)]
<1>1. INPUT_BUF \in Nat
  BY Sizes
<1>2. x < x + n /\ (x + n) - x < INPUT_BUF /\ x + n \in Int
  BY <1>1
<1>3. Cell(x) # Cell(in.e)
  BY <1>2, CellsApart
<1>4. Cell(x) \in 0 .. INPUT_BUF - 1 /\ in.buf \in [0 .. INPUT_BUF - 1 -> Char]
  BY CellIs DEF Ring
<1> QED
  BY <1>3, <1>4 DEF Stores

\* Storing one more character keeps the slices before it.
LEMMA SliceKept ==
    ASSUME NEW in \in Ring, NEW nx \in Ring, NEW c, Stores(in, nx, c),
           NEW i \in Position, NEW j \in Position, Unread(i, j) + Unread(j, in.e) < INPUT_BUF
    PROVE  Slice(nx, i, j) = Slice(in, i, j)
<1> DEFINE s == Slice(in, i, j)
           t == Slice(nx, i, j)
           n == Unread(i, j)
           mm == Unread(j, in.e)
<1>1. /\ s \in Seq(Char) /\ Len(s) = n /\ n \in Nat
      /\ \A k \in 1 .. n : s[k] = in.buf[Cell(i + k - 1)]
  BY SliceIs
<1>2. /\ t \in Seq(Char) /\ Len(t) = n
      /\ \A k \in 1 .. n : t[k] = nx.buf[Cell(i + k - 1)]
  BY SliceIs
<1>3. in.e \in Position /\ mm \in Nat /\ i \in Int /\ INPUT_BUF \in Nat
  BY CountIs, Sizes DEF Ring, Position
<1>4. Unread(i, in.e) = n + mm
  <2>1. n + mm < CWord
    <3>1. INPUT_BUF < CWord /\ CWord \in Nat
      BY Sizes
    <3> HIDE DEF n, mm
    <3> QED
      BY <1>1, <1>3, <3>1 DEF n, mm
  <2> QED
    BY <1>3, <2>1, CountSum
<1>5. Cell(in.e) = Cell(i + (n + mm))
  BY <1>3, <1>4, CellAt
<1> HIDE DEF s, t, n, mm
<1>6. ASSUME NEW k \in 1 .. n PROVE t[k] = s[k]
  <2>1. i + k - 1 \in Int /\ (n + mm + 1) - k \in 1 .. INPUT_BUF - 1
    BY <1>1, <1>3 DEF n, mm
  <2>2. i + (n + mm) = (i + k - 1) + ((n + mm + 1) - k)
    BY <1>1, <1>3 DEF Position
  <2>3. nx.buf[Cell(i + k - 1)] = in.buf[Cell(i + k - 1)]
    BY <1>5, <2>1, <2>2, Untouched
  <2> QED
    BY <1>1, <1>2, <2>3
<1>7. t = s
  BY <1>1, <1>2, <1>6, SeqEqual
<1> QED
  BY <1>7 DEF s, t

\* A character is stored, and the end is one further on.
LEMMA SliceExtended ==
    ASSUME NEW in \in Ring, NEW nx \in Ring, NEW c \in Char, Stores(in, nx, c), nx.e = inc(in.e),
           NEW i \in Position, Unread(i, in.e) < INPUT_BUF
    PROVE  Slice(nx, i, nx.e) = Append(Slice(in, i, in.e), c) /\ Unread(i, nx.e) = Unread(i, in.e) + 1
<1> DEFINE s == Slice(in, i, in.e)
           t == Slice(nx, i, nx.e)
           n == Unread(i, in.e)
<1>1. in.e \in Position /\ nx.e \in Position /\ INPUT_BUF \in Nat /\ CWord \in Nat /\ INPUT_BUF < CWord
      /\ i \in Int
  BY Sizes DEF Ring, Position
<1>2. /\ s \in Seq(Char) /\ Len(s) = n /\ n \in Nat
      /\ \A k \in 1 .. n : s[k] = in.buf[Cell(i + k - 1)]
  BY <1>1, SliceIs
<1>3. Unread(i, nx.e) = n + 1
  <2>1. /\ n = IF in.e >= i THEN in.e - i ELSE (in.e - i) + CWord
        /\ Unread(i, nx.e) = IF nx.e >= i THEN nx.e - i ELSE (nx.e - i) + CWord
    BY <1>1, CountIs
  <2>2. nx.e = IF in.e + 1 = CWord THEN 0 ELSE in.e + 1
    BY <1>1, StepIs
  <2>3. in.e \in 0 .. CWord - 1 /\ i \in 0 .. CWord - 1
    BY <1>1 DEF Position
  <2>4. n < INPUT_BUF
    OBVIOUS
  <2> DEFINE x == in.e
             y == nx.e
             mm == Unread(i, y)
  <2>5. /\ n = IF x >= i THEN x - i ELSE (x - i) + CWord
        /\ y = IF x + 1 = CWord THEN 0 ELSE x + 1
        /\ x \in 0 .. CWord - 1 /\ i \in 0 .. CWord - 1
        /\ n \in Nat /\ CWord \in Nat /\ INPUT_BUF \in Nat /\ n < INPUT_BUF /\ INPUT_BUF < CWord
    BY <1>1, <1>2, <2>1, <2>2, <2>3, <2>4
  <2>5a. mm = IF y >= i THEN y - i ELSE (y - i) + CWord
    BY <2>1
  <2> HIDE DEF n, x, y, mm
  <2>6. mm = n + 1
    BY <2>5, <2>5a
  <2> QED
    BY <2>6 DEF mm, y
<1>4. /\ t \in Seq(Char) /\ Len(t) = n + 1
      /\ \A k \in 1 .. n + 1 : t[k] = nx.buf[Cell(i + k - 1)]
  <2>1. /\ t \in Seq(Char) /\ Len(t) = Unread(i, nx.e)
        /\ \A k \in 1 .. Unread(i, nx.e) : t[k] = nx.buf[Cell(i + k - 1)]
    BY <1>1, SliceIs
  <2> HIDE DEF t, n
  <2> QED
    BY <1>3, <2>1
<1>5. Cell(in.e) = Cell(i + n)
  BY <1>1, CellAt
<1>6. n < INPUT_BUF
  OBVIOUS
<1> HIDE DEF s, t, n
<1>7. n + 1 \in 1 .. n + 1 /\ i + (n + 1) - 1 = i + n
  BY <1>1, <1>2 DEF Position
<1>8. t[n + 1] = c
  <2>0. in.e \in Int
    BY <1>1 DEF Position
  <2>1. Cell(in.e) \in 0 .. INPUT_BUF - 1 /\ in.buf \in [0 .. INPUT_BUF - 1 -> Char]
    BY <2>0, CellIs DEF Ring
  <2>2. nx.buf[Cell(in.e)] = c
    BY <2>1 DEF Stores
  <2> QED
    BY <1>4, <1>5, <1>7, <2>2
<1>9. ASSUME NEW k \in 1 .. n PROVE t[k] = s[k]
  <2>1. i + k - 1 \in Int /\ (n + 1) - k \in 1 .. INPUT_BUF - 1 /\ k \in 1 .. n + 1
    BY <1>1, <1>2, <1>6
  <2>2. i + n = (i + k - 1) + ((n + 1) - k)
    BY <1>1, <1>2
  <2>3. nx.buf[Cell(i + k - 1)] = in.buf[Cell(i + k - 1)]
    BY <1>5, <1>7, <2>1, <2>2, Untouched
  <2> QED
    BY <1>2, <1>4, <2>1, <2>3
<1> DEFINE a == Append(s, c)
<1>10. /\ a \in Seq(Char) /\ Len(a) = n + 1 /\ a[n + 1] = c
       /\ \A k \in 1 .. n : a[k] = s[k]
  BY <1>2, AppendProperties
<1> HIDE DEF a
<1>11. \A k \in 1 .. n + 1 : t[k] = a[k]
  <2>1. \A k \in 1 .. n + 1 : k \in 1 .. n \/ k = n + 1
    BY <1>2
  <2> QED
    BY <1>8, <1>9, <1>10, <2>1
<1>12. t = a
  BY <1>4, <1>10, <1>11, SeqEqual
<1> QED
  BY <1>3, <1>12 DEF s, t, n, a

\* The last character is erased.
LEMMA SliceShortened ==
    ASSUME NEW in \in Ring, NEW i \in Position, NEW j \in Position, i # j
    PROVE  Slice(in, i, dec(j)) = Front(Slice(in, i, j)) /\ Unread(i, dec(j)) = Unread(i, j) - 1
<1> DEFINE s == Slice(in, i, j)
           t == Slice(in, i, dec(j))
           n == Unread(i, j)
<1>1. dec(j) \in Position /\ CWord \in Nat /\ i \in Int
  BY Sizes, StepIs DEF Position
<1>2. /\ s \in Seq(Char) /\ Len(s) = n /\ n \in Nat
      /\ \A k \in 1 .. n : s[k] = in.buf[Cell(i + k - 1)]
  BY <1>1, SliceIs
<1>3. Unread(i, dec(j)) = n - 1 /\ n > 0
  <2>1. /\ n = IF j >= i THEN j - i ELSE (j - i) + CWord
        /\ Unread(i, dec(j)) = IF dec(j) >= i THEN dec(j) - i ELSE (dec(j) - i) + CWord
    BY <1>1, CountIs
  <2>2. dec(j) = IF j = 0 THEN CWord - 1 ELSE j - 1
    BY <1>1, StepIs
  <2>3. j \in 0 .. CWord - 1 /\ i \in 0 .. CWord - 1
    BY <1>1 DEF Position
  <2> HIDE DEF n
  <2> QED
    BY <1>1, <1>2, <2>1, <2>2, <2>3
<1>4. /\ t \in Seq(Char) /\ Len(t) = n - 1
      /\ \A k \in 1 .. n - 1 : t[k] = in.buf[Cell(i + k - 1)]
  <2>1. /\ t \in Seq(Char) /\ Len(t) = Unread(i, dec(j))
        /\ \A k \in 1 .. Unread(i, dec(j)) : t[k] = in.buf[Cell(i + k - 1)]
    BY <1>1, SliceIs
  <2> HIDE DEF t, n
  <2> QED
    BY <1>3, <2>1
<1> HIDE DEF s, t, n
<1>5. n \in Nat /\ n > 0 /\ n - 1 \in Nat /\ 1 .. n - 1 \subseteq 1 .. n
  BY <1>2, <1>3
<1> DEFINE u == SubSeq(s, 1, n - 1)
<1>6. /\ u \in Seq(Char) /\ Len(u) = n - 1
      /\ \A k \in 1 .. n - 1 : u[k] = s[k]
  <2>1. \A k \in 1 .. n - 1 : s[k] \in Char
    BY <1>2, <1>5, ElementOfSeq
  <2>2. /\ u \in Seq(Char) /\ Len(u) = IF 1 <= n - 1 THEN (n - 1) - 1 + 1 ELSE 0
        /\ \A k \in 1 .. (n - 1) - 1 + 1 : u[k] = s[1 + k - 1]
    BY <1>5, <2>1, SubSeqProperties
  <2>3. (n - 1) - 1 + 1 = n - 1 /\ \A k \in 1 .. n - 1 : 1 + k - 1 = k
    BY <1>5
  <2>4. ~(1 <= n - 1) => n - 1 = 0
    BY <1>5
  <2> QED
    BY <2>2, <2>3, <2>4
<1>7. Front(s) = u
  BY <1>2 DEF Front
<1> HIDE DEF u
<1>8. \A k \in 1 .. n - 1 : t[k] = u[k]
  BY <1>2, <1>4, <1>5, <1>6
<1>9. t = u
  BY <1>4, <1>6, <1>8, SeqEqual
<1> QED
  BY <1>3, <1>7, <1>9 DEF s, t, n

\* The first character is taken.
LEMMA SliceTaken ==
    ASSUME NEW in \in Ring, NEW i \in Position, NEW j \in Position, i # j
    PROVE  Slice(in, inc(i), j) = Tail(Slice(in, i, j)) /\ Unread(inc(i), j) = Unread(i, j) - 1
<1> DEFINE s == Slice(in, i, j)
           t == Slice(in, inc(i), j)
           n == Unread(i, j)
<1>1. inc(i) \in Position /\ CWord \in Nat /\ i \in Int
  BY Sizes, StepIs DEF Position
<1>2. /\ s \in Seq(Char) /\ Len(s) = n /\ n \in Nat
      /\ \A k \in 1 .. n : s[k] = in.buf[Cell(i + k - 1)]
  BY <1>1, SliceIs
<1>3. Unread(inc(i), j) = n - 1 /\ n > 0 /\ Unread(i, inc(i)) + (n - 1) < CWord /\ Unread(i, inc(i)) = 1
  <2> DEFINE next == inc(i)
             rest == Unread(next, j)
             one == Unread(i, next)
  <2>1. /\ n = IF j >= i THEN j - i ELSE (j - i) + CWord
        /\ rest = IF j >= next THEN j - next ELSE (j - next) + CWord
        /\ one = IF next >= i THEN next - i ELSE (next - i) + CWord
    BY <1>1, CountIs
  <2>2. next = IF i + 1 = CWord THEN 0 ELSE i + 1
    BY <1>1, StepIs
  <2>3. j \in 0 .. CWord - 1 /\ i \in 0 .. CWord - 1
    BY <1>1 DEF Position
  <2>4. CWord > 1
    BY Sizes
  <2> HIDE DEF n, next, rest, one
  <2>5. rest = n - 1 /\ n > 0 /\ one + (n - 1) < CWord /\ one = 1
    BY <1>1, <1>2, <2>1, <2>2, <2>3, <2>4
  <2> QED
    BY <2>5 DEF next, rest, one
<1>4. /\ t \in Seq(Char) /\ Len(t) = n - 1
      /\ \A k \in 1 .. n - 1 : t[k] = in.buf[Cell(inc(i) + k - 1)]
  BY ZenonT(60), <1>1, <1>3, SliceIs
<1>5. \A k \in 1 .. n - 1 : Cell(inc(i) + k - 1) = Cell(i + (k + 1) - 1)
  <2> SUFFICES ASSUME NEW k \in 1 .. n - 1 PROVE Cell(inc(i) + k - 1) = Cell(i + (k + 1) - 1)
    OBVIOUS
  <2>0. k \in Int
    <3> HIDE DEF n
    <3> QED
      BY <1>2
  <2>a. \A x \in Int : Cell(inc(i) + x) = Cell(i + Unread(i, inc(i)) + x)
    BY <1>1, CellFrom
  <2>b. k - 1 \in Int
    BY <2>0
  <2>c. Cell(inc(i) + (k - 1)) = Cell(i + Unread(i, inc(i)) + (k - 1))
    BY <2>a, <2>b, Zenon
  <2>1. Cell(inc(i) + (k - 1)) = Cell(i + 1 + (k - 1))
    BY <1>3, <2>c, Zenon
  <2> HIDE DEF n
  <2>2. inc(i) + (k - 1) = inc(i) + k - 1 /\ i + 1 + (k - 1) = i + (k + 1) - 1
    BY <1>1, <2>0 DEF Position
  <2> QED
    BY <2>1, <2>2
<1> HIDE DEF s, t, n
<1>6. n \in Nat /\ n > 0 /\ \A k \in 1 .. n - 1 : k + 1 \in 1 .. n
  BY <1>2, <1>3
<1>7. s # <<>>
  BY <1>2, <1>6, EmptySeq
<1> DEFINE u == Tail(s)
<1>8. u \in Seq(Char) /\ Len(u) = n - 1 /\ \A k \in 1 .. n - 1 : u[k] = s[k + 1]
  BY <1>2, <1>7, HeadTailProperties
<1> HIDE DEF u
<1>9. \A k \in 1 .. n - 1 : t[k] = u[k]
  BY <1>2, <1>4, <1>5, <1>6, <1>8
<1>10. t = u
  BY <1>4, <1>8, <1>9, SeqEqual
<1> QED
  BY <1>3, <1>10 DEF s, t, n, u

-----------------------------------------------------------------------------
(* The invariant of the ring and its steps. *)

\* queue and line fit into the ring, and the line that is edited has no end yet.
InRing(in) ==
    /\ in \in Ring
    /\ Unread(in.r, in.w) + Unread(in.w, in.e) <= INPUT_BUF
    /\ \A k \in 1 .. Unread(in.w, in.e) : Slice(in, in.w, in.e)[k] \notin {"nl", "^D"}

Finished(in) == Slice(in, in.r, in.w)
Line(in) == Slice(in, in.w, in.e)

\* The indices of a ring, and how much lies between them.
LEMMA RingIs ==
    ASSUME NEW in \in Ring, Unread(in.r, in.w) + Unread(in.w, in.e) <= INPUT_BUF
    PROVE  /\ in.r \in Position /\ in.w \in Position /\ in.e \in Position
           /\ Finished(in) \in Seq(Char) /\ Len(Finished(in)) = Unread(in.r, in.w)
           /\ Line(in) \in Seq(Char) /\ Len(Line(in)) = Unread(in.w, in.e)
           /\ Unread(in.r, in.w) \in Nat /\ Unread(in.w, in.e) \in Nat
           /\ Unread(in.r, in.e) = Unread(in.r, in.w) + Unread(in.w, in.e)
           /\ Finished(in) \o Line(in) = Slice(in, in.r, in.e)
           /\ HasRoom(in) <=> Unread(in.r, in.w) + Unread(in.w, in.e) < INPUT_BUF
<1>1. in.r \in Position /\ in.w \in Position /\ in.e \in Position
  BY DEF Ring
<1>2. Finished(in) \in Seq(Char) /\ Len(Finished(in)) = Unread(in.r, in.w) /\ Unread(in.r, in.w) \in Nat
  BY <1>1, SliceIs DEF Finished
<1>3. Line(in) \in Seq(Char) /\ Len(Line(in)) = Unread(in.w, in.e) /\ Unread(in.w, in.e) \in Nat
  BY <1>1, SliceIs DEF Line
<1>4. Unread(in.r, in.w) + Unread(in.w, in.e) < CWord
  BY <1>2, <1>3, Sizes
<1>5. Unread(in.r, in.e) = Unread(in.r, in.w) + Unread(in.w, in.e)
  BY <1>1, <1>4, CountSum
<1>6. Finished(in) \o Line(in) = Slice(in, in.r, in.e)
  BY <1>1, <1>4, SliceJoined DEF Finished, Line
<1>7. HasRoom(in) <=> Unread(in.r, in.e) < INPUT_BUF
  BY DEF HasRoom, Unread
<1> QED
  BY <1>1, <1>2, <1>3, <1>5, <1>6, <1>7

\* The test of consoleintr for the last character that fits.
LEMMA FullIs ==
    ASSUME NEW i \in Position, NEW j \in Position, Unread(i, j) <= INPUT_BUF
    PROVE  j = (i + INPUT_BUF) % CWord <=> Unread(i, j) = INPUT_BUF
<1> DEFINE n == Unread(i, j)
           x == (i + INPUT_BUF) % CWord
<1>1. /\ CWord \in Nat \ {0} /\ INPUT_BUF \in Nat \ {0} /\ INPUT_BUF < CWord
      /\ i \in 0 .. CWord - 1 /\ j \in 0 .. CWord - 1
      /\ n = IF j >= i THEN j - i ELSE (j - i) + CWord
  BY Sizes, CountIs DEF Position
<1>2. i + INPUT_BUF \in Int /\ -CWord <= i + INPUT_BUF /\ i + INPUT_BUF < 2 * CWord
  BY <1>1
<1>3. x = IF i + INPUT_BUF < 0 THEN (i + INPUT_BUF) + CWord
          ELSE IF i + INPUT_BUF >= CWord THEN (i + INPUT_BUF) - CWord ELSE i + INPUT_BUF
  BY <1>1, <1>2, Wraps
<1> HIDE DEF n, x
<1>4. j = x <=> n = INPUT_BUF
  BY <1>1, <1>3
<1> QED
  BY <1>4 DEF n, x

\* A character is stored at the end of the line.
LEMMA Stored ==
    ASSUME NEW in \in Ring, Unread(in.r, in.w) + Unread(in.w, in.e) < INPUT_BUF,
           NEW c \in Char, NEW nx \in Ring, Stores(in, nx, c), nx.e = inc(in.e)
    PROVE  /\ Slice(nx, in.r, in.w) = Finished(in)
           /\ Slice(nx, in.w, nx.e) = Append(Line(in), c)
           /\ Slice(nx, in.r, nx.e) = Finished(in) \o Append(Line(in), c)
           /\ Unread(in.w, nx.e) = Unread(in.w, in.e) + 1
           /\ nx.e = (in.r + INPUT_BUF) % CWord <=> Unread(in.r, in.w) + Unread(in.w, in.e) + 1 = INPUT_BUF
<1> DEFINE q == Unread(in.r, in.w)
           mm == Unread(in.w, in.e)
<1>1. INPUT_BUF \in Nat \ {0}
  BY Sizes
<1>2. q \in Nat /\ mm \in Nat
  BY CountIs DEF Ring, Position
<1>3. q + mm <= INPUT_BUF /\ mm < INPUT_BUF /\ q + mm < INPUT_BUF
  <2>1. q + mm < INPUT_BUF
    OBVIOUS
  <2> HIDE DEF q, mm
  <2> QED
    BY <1>1, <1>2, <2>1
<1>4. /\ in.r \in Position /\ in.w \in Position /\ in.e \in Position
      /\ Finished(in) \in Seq(Char) /\ Line(in) \in Seq(Char)
      /\ Unread(in.r, in.e) = q + mm
      /\ Finished(in) \o Line(in) = Slice(in, in.r, in.e)
  BY <1>3, RingIs
<1>5. Slice(nx, in.r, in.w) = Finished(in)
  BY <1>3, <1>4, SliceKept DEF Finished
<1>6. Slice(nx, in.w, nx.e) = Append(Line(in), c) /\ Unread(in.w, nx.e) = mm + 1
  BY <1>3, <1>4, SliceExtended DEF Line
<1>7. Unread(in.r, in.e) < INPUT_BUF
  BY <1>3, <1>4
<1>8. Slice(nx, in.r, nx.e) = Append(Finished(in) \o Line(in), c) /\ Unread(in.r, nx.e) = q + mm + 1
  BY <1>4, <1>7, SliceExtended
<1>9. Append(Finished(in) \o Line(in), c) = Finished(in) \o Append(Line(in), c)
  <2>1. Append(Line(in), c) = Line(in) \o <<c>> /\ <<c>> \in Seq(Char)
    BY <1>4, AppendIsConcat
  <2>2. Finished(in) \o Line(in) \in Seq(Char)
    BY <1>4, ConcatProperties
  <2>3. Append(Finished(in) \o Line(in), c) = (Finished(in) \o Line(in)) \o <<c>>
    BY <2>2, AppendIsConcat
  <2>4. (Finished(in) \o Line(in)) \o <<c>> = Finished(in) \o (Line(in) \o <<c>>)
    <3> DEFINE f == Finished(in)
               l == Line(in)
               o == <<c>>
    <3>1. f \in Seq(Char) /\ l \in Seq(Char) /\ o \in Seq(Char)
      BY <1>4, <2>1
    <3> HIDE DEF f, l, o
    <3>2. (f \o l) \o o = f \o (l \o o)
      BY <3>1, ConcatAssociative
    <3> QED
      BY <3>2 DEF f, l, o
  <2> QED
    BY <2>1, <2>3, <2>4
<1>10. nx.e \in Position /\ Unread(in.r, nx.e) <= INPUT_BUF
  <2>1. nx.e \in Position
    BY DEF Ring
  <2> HIDE DEF q, mm
  <2>2. q + mm + 1 <= INPUT_BUF
    BY <1>1, <1>2, <1>3
  <2> QED
    BY <1>8, <2>1, <2>2
<1>11. nx.e = (in.r + INPUT_BUF) % CWord <=> Unread(in.r, nx.e) = INPUT_BUF
  BY <1>4, <1>10, FullIs
<1> QED
  BY <1>5, <1>6, <1>8, <1>9, <1>11

\* What the devices can bring.
Received == SerialChars \cup {"nul", "d", "D", "u", "U", "^D", "^U"}

\* An accepted character.
LEMMA TypeStep ==
    ASSUME InRing(input), HasRoom(input), NEW c \in Characters,
           NEW s, s = [input EXCEPT !.buf = [@ EXCEPT ![input.e % INPUT_BUF] = c], !.e = inc(input.e)],
           input' = IF c \in {"nl", "^D"} \/ inc(input.e) = (input.r + INPUT_BUF) % CWord
                    THEN [s EXCEPT !.w = inc(input.e)] ELSE s
    PROVE  InRing(input') /\ Editor!Type(c)
<1> DEFINE in == input
           e == inc(in.e)
           b == [in.buf EXCEPT ![Cell(in.e)] = c]
           q == Unread(in.r, in.w)
           mm == Unread(in.w, in.e)
<1>1. in \in Ring /\ q + mm <= INPUT_BUF /\ (\A k \in 1 .. mm : Line(in)[k] \notin {"nl", "^D"})
  BY DEF InRing, Line
<1>2. /\ in.r \in Position /\ in.w \in Position /\ in.e \in Position
      /\ Line(in) \in Seq(Char) /\ Len(Line(in)) = mm /\ Len(Finished(in)) = q
      /\ q \in Nat /\ mm \in Nat /\ q + mm < INPUT_BUF
  BY <1>1, RingIs
<1>3. c \in Char /\ e \in Position
  BY <1>2, StepIs DEF Char
<1>4. b \in [0 .. INPUT_BUF - 1 -> Char]
  BY <1>1, <1>3 DEF Ring
<1>5. s \in Ring /\ s.r = in.r /\ s.w = in.w /\ s.e = e /\ s.buf = b
  <2>1. s = [in EXCEPT !.buf = b, !.e = e]
    BY DEF Cell
  <2> HIDE DEF b, e
  <2> QED
    BY <1>1, <1>3, <1>4, <2>1 DEF Ring
<1>6. Stores(in, s, c)
  BY <1>5 DEF Stores
<1>7. /\ Slice(s, in.r, in.w) = Finished(in)
      /\ Slice(s, in.w, e) = Append(Line(in), c)
      /\ Slice(s, in.r, e) = Finished(in) \o Append(Line(in), c)
      /\ Unread(in.w, e) = mm + 1
      /\ e = (in.r + INPUT_BUF) % CWord <=> q + mm + 1 = INPUT_BUF
  <2>1. Unread(in.r, in.w) + Unread(in.w, in.e) < INPUT_BUF /\ s.e = inc(in.e) /\ in \in Ring /\ s \in Ring
    BY <1>1, <1>2, <1>5
  <2>2. /\ Slice(s, in.r, in.w) = Finished(in)
        /\ Slice(s, in.w, s.e) = Append(Line(in), c)
        /\ Slice(s, in.r, s.e) = Finished(in) \o Append(Line(in), c)
        /\ Unread(in.w, s.e) = Unread(in.w, in.e) + 1
        /\ s.e = (in.r + INPUT_BUF) % CWord <=> Unread(in.r, in.w) + Unread(in.w, in.e) + 1 = INPUT_BUF
    <3> HIDE DEF in, e, b, q, mm
    <3> QED
      BY <1>3, <1>6, <2>1, Stored
  <2> QED
    BY <1>5, <2>2
<1> DEFINE whole == c \in {"nl", "^D"} \/ q + mm + 1 = INPUT_BUF
<1>8. input' = IF whole THEN [s EXCEPT !.w = e] ELSE s
  BY <1>7
<1>9. CASE whole
  <2>1. input' \in Ring /\ input'.r = in.r /\ input'.w = e /\ input'.e = e /\ input'.buf = s.buf
    BY <1>3, <1>5, <1>8, <1>9 DEF Ring
  <2>2. Slice(input', input'.r, input'.w) = Finished(in) \o Append(Line(in), c)
    <3> HIDE DEF in, e, b, q, mm
    <3>1. Slice(input', in.r, e) = Slice(s, in.r, e)
      BY <2>1 DEF Slice, CharAt
    <3> QED
      BY <1>7, <2>1, <3>1
  <2>3. Slice(input', input'.w, input'.e) = <<>> /\ Unread(input'.w, input'.e) = 0
    <3>1. Unread(e, e) = 0
      BY <1>3, CountIs DEF Position
    <3> QED
      BY <1>3, <2>1, <3>1, SliceEmpty
  <2>4. Unread(input'.r, input'.w) <= INPUT_BUF
    <3>1. Unread(in.r, e) <= INPUT_BUF
      <4>1. Unread(in.w, e) = mm + 1 /\ q + (mm + 1) < CWord
        <5> HIDE DEF q, mm, e
        <5> QED
          BY <1>2, <1>7, Sizes
      <4>2. Unread(in.r, e) = q + (mm + 1)
        BY <1>2, <1>3, <4>1, CountSum
      <4> HIDE DEF q, mm, e
      <4> QED
        BY <1>2, <4>2, Sizes
    <3> QED
      BY <2>1, <3>1
  <2>5. InRing(input')
    <3>1. Unread(input'.r, input'.w) \in Nat
      <4>1. input'.r \in Position /\ input'.w \in Position
        BY <1>2, <1>3, <2>1
      <4> QED
        BY <4>1, CountIs DEF Position
    <3>2. Unread(input'.r, input'.w) + Unread(input'.w, input'.e) <= INPUT_BUF
      BY <2>3, <2>4, <3>1
    <3> QED
      BY <2>1, <2>3, <3>2 DEF InRing
  <2>6. Editor!Type(c)
    <3>1. Len(Finished(in)) + Len(Line(in)) < INPUT_BUF
      BY <1>2
    <3>2. c \in {"nl", "^D"} \/ Len(Finished(in)) + Len(Line(in)) + 1 = INPUT_BUF
      BY <1>2, <1>9
    <3> HIDE DEF q, mm, e, whole
    <3> QED
      BY <2>2, <2>3, <3>1, <3>2 DEF Editor!Type, Editor!Kept, Finished, Line, in
  <2> QED
    BY <2>5, <2>6
<1>10. CASE ~whole
  <2>1. input' = s
    BY <1>8, <1>10
  <2>2. /\ Slice(input', input'.r, input'.w) = Finished(in)
        /\ Slice(input', input'.w, input'.e) = Append(Line(in), c)
        /\ Unread(input'.w, input'.e) = mm + 1 /\ Unread(input'.r, input'.w) = q
    BY <1>5, <1>7, <2>1
  <2>3. InRing(input')
    <3>1. q + (mm + 1) <= INPUT_BUF
      <4> HIDE DEF q, mm
      <4> QED
        BY <1>2, Sizes
    <3>2. /\ \A k \in 1 .. mm : Append(Line(in), c)[k] = Line(in)[k]
          /\ Append(Line(in), c)[mm + 1] = c
      BY <1>2, <1>3, AppendProperties
    <3>3. \A k \in 1 .. mm + 1 : k \in 1 .. mm \/ k = mm + 1
      <4> HIDE DEF mm
      <4> QED
        BY <1>2
    <3>4. \A k \in 1 .. mm + 1 : Append(Line(in), c)[k] \notin {"nl", "^D"}
      BY <1>1, <1>10, <3>2, <3>3
    <3> QED
      BY <1>5, <2>1, <2>2, <3>1, <3>4 DEF InRing
  <2>4. Editor!Type(c)
    <3>1. Len(Finished(in)) + Len(Line(in)) < INPUT_BUF
      BY <1>2
    <3>2. ~(c \in {"nl", "^D"} \/ Len(Finished(in)) + Len(Line(in)) + 1 = INPUT_BUF)
      BY <1>2, <1>10
    <3> HIDE DEF q, mm, e, whole
    <3> QED
      BY <2>2, <3>1, <3>2 DEF Editor!Type, Editor!Kept, Finished, Line, in
  <2> QED
    BY <2>3, <2>4
<1> QED
  BY <1>9, <1>10

\* The last character of the line is erased.
LEMMA EraseStep ==
    ASSUME InRing(input), input.e # input.w, input' = [input EXCEPT !.e = dec(@)]
    PROVE  InRing(input') /\ Editor!Erase
<1> DEFINE in == input
           e == dec(in.e)
           q == Unread(in.r, in.w)
           mm == Unread(in.w, in.e)
<1>1. in \in Ring /\ q + mm <= INPUT_BUF /\ (\A k \in 1 .. mm : Line(in)[k] \notin {"nl", "^D"})
  BY DEF InRing, Line
<1>2. /\ in.r \in Position /\ in.w \in Position /\ in.e \in Position
      /\ Line(in) \in Seq(Char) /\ Len(Line(in)) = mm /\ q \in Nat /\ mm \in Nat
  BY <1>1, RingIs
<1>3. e \in Position /\ input' = [in EXCEPT !.e = e]
  BY <1>2, StepIs
<1> HIDE DEF e
<1>4. input' \in Ring /\ input'.r = in.r /\ input'.w = in.w /\ input'.e = e /\ input'.buf = in.buf
  BY <1>1, <1>3 DEF Ring
<1>5. Slice(in, in.w, e) = Front(Line(in)) /\ Unread(in.w, e) = mm - 1
  BY <1>1, <1>2, SliceShortened DEF Line, e
<1>6. Line(in) # <<>>
  BY <1>1, <1>2, SliceEmpty DEF Line
<1> HIDE DEF in
<1>7. Slice(input', in.w, e) = Slice(in, in.w, e) /\ Slice(input', in.r, in.w) = Slice(in, in.r, in.w)
  BY <1>4 DEF Slice, CharAt
<1>8. InRing(input')
  <2> HIDE DEF q, mm
  <2>1. mm > 0 /\ q + (mm - 1) <= INPUT_BUF /\ mm - 1 \in Nat
    <3>1. Line(in) # <<>> => Len(Line(in)) # 0
      BY <1>2, EmptySeq
    <3>2. mm # 0
      BY <1>2, <1>6, <3>1
    <3> QED
      BY <1>1, <1>2, <3>2, Sizes
  <2>2. \A k \in 1 .. mm - 1 : k \in 1 .. mm /\ Front(Line(in))[k] = Line(in)[k]
    <3>1. \A k \in 1 .. mm - 1 : k \in 1 .. mm
      BY <1>2
    <3>2. \A k \in 1 .. mm - 1 : SubSeq(Line(in), 1, mm - 1)[k] = Line(in)[k]
      BY <1>2, <2>1, <3>1
    <3> QED
      BY <1>2, <3>1, <3>2 DEF Front
  <2>3. Unread(input'.r, input'.w) = q /\ Unread(input'.w, input'.e) = mm - 1
    BY <1>4, <1>5 DEF q
  <2>4. Slice(input', input'.w, input'.e) = Front(Line(in))
    BY <1>4, <1>5, <1>7
  <2> QED
    BY <1>1, <1>4, <2>1, <2>2, <2>3, <2>4 DEF InRing
<1>9. Editor!Erase
  <2>1. Slice(input', input'.w, input'.e) = Front(Slice(input, input.w, input.e))
    BY <1>4, <1>5, <1>7 DEF Line, in
  <2>2. Slice(input', input'.r, input'.w) = Slice(input, input.r, input.w)
    BY <1>4, <1>7 DEF in
  <2>3. Slice(input, input.w, input.e) # <<>>
    BY <1>6 DEF Line, in
  <2> QED
    BY <2>1, <2>2, <2>3 DEF Editor!Erase, Editor!Front, Front
<1> QED
  BY <1>8, <1>9

\* No end lies in the line, so that ^U erases as far as w.
LEMMA LineErased ==
    ASSUME InRing(input)
    PROVE  /\ \A k \in 1 .. Unread(input.w, input.e) : CharAt(input, input.e - k) # "nl"
           /\ (input.e - Unread(input.w, input.e)) % CWord = input.w
<1> DEFINE in == input
           n == Unread(in.w, in.e)
<1>1. in \in Ring /\ Unread(in.r, in.w) + n <= INPUT_BUF /\ (\A k \in 1 .. n : Line(in)[k] \notin {"nl", "^D"})
  BY DEF InRing, Line
<1>2. /\ in.r \in Position /\ in.w \in Position /\ in.e \in Position
      /\ Unread(in.r, in.w) \in Nat /\ n \in Nat
  BY <1>1, RingIs
<1>3. \A k \in 1 .. n : CharAt(in, in.e - k) # "nl"
  <2> SUFFICES ASSUME NEW k \in 1 .. n PROVE CharAt(in, in.e - k) # "nl"
    OBVIOUS
  <2>1. -k \in Int /\ (n + 1) - k \in 1 .. n
    <3> HIDE DEF n
    <3> QED
      BY <1>2
  <2>2. \A x \in Int : Cell(in.e + x) = Cell(in.w + n + x)
    BY <1>2, CellFrom
  <2>3. Cell(in.e + (-k)) = Cell(in.w + n + (-k))
    BY <2>1, <2>2, Zenon
  <2>a. \A j \in 1 .. n : Line(in)[j] = in.buf[Cell(in.w + j - 1)]
    BY <1>1, <1>2, SliceIs DEF Line
  <2>4. Line(in)[(n + 1) - k] = in.buf[Cell(in.w + ((n + 1) - k) - 1)]
    BY <2>1, <2>a, Zenon
  <2> HIDE DEF n
  <2>5. in.e + (-k) = in.e - k /\ in.w + n + (-k) = in.w + ((n + 1) - k) - 1
    <3>1. in.e \in Int /\ in.w \in Int /\ k \in Int
      BY <1>2, Sizes DEF Position
    <3>2. n \in Int
      BY <1>2
    <3> DEFINE x == in.e
               y == in.w
    <3>3. x \in Int /\ y \in Int
      BY <3>1
    <3> HIDE DEF in, x, y
    <3>4. x + (-k) = x - k
      BY <3>1, <3>3
    <3>5. y + n + (-k) = y + ((n + 1) - k) - 1
      BY <3>1, <3>2, <3>3
    <3> QED
      BY <3>4, <3>5 DEF x, y
  <2>6. CharAt(in, in.e - k) = in.buf[Cell(in.e - k)]
    BY DEF CharAt, Cell
  <2>7. Line(in)[(n + 1) - k] # "nl"
    BY <1>1, <2>1
  <2> QED
    BY <2>3, <2>4, <2>5, <2>6, <2>7
<1>4. (in.e - n) % CWord = in.w
  <2>1. /\ CWord \in Nat \ {0} /\ in.w \in 0 .. CWord - 1 /\ in.e \in 0 .. CWord - 1
        /\ n = IF in.e >= in.w THEN in.e - in.w ELSE (in.e - in.w) + CWord
    BY <1>2, Sizes, CountIs DEF Position
  <2> HIDE DEF n, in
  <2>2. in.e - n \in Int /\ -CWord <= in.e - n /\ in.e - n < 2 * CWord
    BY <2>1
  <2>3. (in.e - n) % CWord = IF in.e - n < 0 THEN (in.e - n) + CWord
                             ELSE IF in.e - n >= CWord THEN (in.e - n) - CWord ELSE in.e - n
    BY <2>1, <2>2, Wraps
  <2>4. in.e - n = in.w \/ in.e - n = in.w - CWord
    BY <2>1
  <2> DEFINE x == (in.e - n) % CWord
  <2> HIDE DEF x
  <2>5. x = in.w
    BY <2>1, <2>3, <2>4 DEF x
  <2> QED
    BY <2>5 DEF x
<1> QED
  BY <1>3, <1>4

\* The whole line is erased.
LEMMA EraseLineStep ==
    ASSUME InRing(input), input' = [input EXCEPT !.e = input.w]
    PROVE  InRing(input') /\ Editor!EraseLine
<1> DEFINE in == input
           n == Unread(in.w, in.e)
<1>1. in \in Ring /\ Unread(in.r, in.w) + n <= INPUT_BUF
  BY DEF InRing
<1>2. in.r \in Position /\ in.w \in Position /\ in.e \in Position /\ Unread(in.r, in.w) \in Nat /\ n \in Nat
  BY <1>1, RingIs
<1>8. input' \in Ring /\ input'.r = in.r /\ input'.w = in.w /\ input'.e = in.w /\ input'.buf = in.buf
  BY <1>1, <1>2 DEF Ring
<1> HIDE DEF in
<1>9. Slice(input', in.r, in.w) = Slice(in, in.r, in.w)
  BY <1>8 DEF Slice, CharAt
<1>10. Slice(input', in.w, in.w) = <<>> /\ Unread(in.w, in.w) = 0
  <2>1. Unread(in.w, in.w) = 0
    BY <1>2, CountIs DEF Position
  <2>2. \A i, j \in Position : Slice(input', i, j) = <<>> <=> i = j
    BY <1>8, SliceEmpty
  <2> QED
    BY <1>2, <2>1, <2>2
<1>11. InRing(input')
  <2> HIDE DEF n
  <2>1. Unread(in.r, in.w) + 0 <= INPUT_BUF
    BY <1>1, <1>2, Sizes
  <2>2. Unread(input'.r, input'.w) + Unread(input'.w, input'.e) <= INPUT_BUF /\ Unread(input'.w, input'.e) = 0
    BY <1>8, <1>10, <2>1
  <2> QED
    BY <1>8, <2>2 DEF InRing
<1>12. Editor!EraseLine
  BY <1>8, <1>9, <1>10 DEF Editor!EraseLine, in
<1> QED
  BY <1>11, <1>12

\* A reader takes the first character of the queue.
LEMMA TakeStep ==
    ASSUME InRing(input), input.r # input.w, input' = [input EXCEPT !.r = inc(@)]
    PROVE  InRing(input') /\ Editor!Take
<1> DEFINE in == input
           r == inc(in.r)
           q == Unread(in.r, in.w)
           mm == Unread(in.w, in.e)
<1>1. in \in Ring /\ q + mm <= INPUT_BUF /\ (\A k \in 1 .. mm : Line(in)[k] \notin {"nl", "^D"})
  BY DEF InRing, Line
<1>2. /\ in.r \in Position /\ in.w \in Position /\ in.e \in Position
      /\ q \in Nat /\ mm \in Nat
  BY <1>1, RingIs
<1>3. r \in Position /\ input' = [in EXCEPT !.r = r]
  BY <1>2, StepIs
<1>4. Slice(in, r, in.w) = Tail(Finished(in)) /\ Unread(r, in.w) = q - 1
  BY <1>1, <1>2, SliceTaken DEF Finished
<1> HIDE DEF r
<1>5. input' \in Ring /\ input'.r = r /\ input'.w = in.w /\ input'.e = in.e /\ input'.buf = in.buf
  BY <1>1, <1>3 DEF Ring
<1>6. Finished(in) # <<>>
  BY <1>1, <1>2, SliceEmpty DEF Finished
<1> HIDE DEF in
<1>7. Slice(input', r, in.w) = Slice(in, r, in.w) /\ Slice(input', in.w, in.e) = Slice(in, in.w, in.e)
  BY <1>5 DEF Slice, CharAt
<1>8. InRing(input')
  <2>1. Unread(input'.r, input'.w) = q - 1 /\ Unread(input'.w, input'.e) = mm
    BY <1>4, <1>5
  <2>2. Slice(input', input'.w, input'.e) = Line(in)
    BY <1>5, <1>7 DEF Line
  <2> HIDE DEF q, mm
  <2>3. (q - 1) + mm <= INPUT_BUF
    BY <1>1, <1>2, Sizes
  <2> QED
    BY <1>1, <1>5, <2>1, <2>2, <2>3 DEF InRing
<1>9. Editor!Take
  BY <1>4, <1>5, <1>6, <1>7 DEF Editor!Take, Finished, in
<1> QED
  BY <1>8, <1>9

\* A character from a device is typed, erases, or does nothing.
LEMMA intrStep ==
    ASSUME InRing(input), NEW c \in Received, consoleintr(c)
    PROVE  InRing(input') /\ (Editor!EditNext \/ input' = input)
<1>1. CASE c \in {"nul", "^P"}
  <2>1. input' = input
    BY <1>1 DEF consoleintr
  <2> QED
    BY <2>1
<1>2. CASE c = "^U"
  <2> DEFINE n == (input.e - input.w) % CWord
             stop == {k \in 1..n : CharAt(input, input.e - k) = "nl"}
             erased == IF stop = {} THEN n ELSE (CHOOSE k \in stop : \A j \in stop : k <= j) - 1
  <2>1. input' = [input EXCEPT !.e = (input.e - erased) % CWord]
    BY <1>2 DEF consoleintr
  <2>2. (\A k \in 1..n : CharAt(input, input.e - k) # "nl") /\ (input.e - n) % CWord = input.w
    BY LineErased DEF Unread
  <2> HIDE DEF n
  <2>3. stop = {}
    BY <2>2
  <2> HIDE DEF stop
  <2>4. erased = n
    BY <2>3
  <2> HIDE DEF erased
  <2>5. input' = [input EXCEPT !.e = input.w]
    BY <2>1, <2>2, <2>4
  <2> QED
    BY <2>5, EraseLineStep DEF Editor!EditNext
<1>3. CASE c = "^H"
  <2>1. input' = IF input.e # input.w THEN [input EXCEPT !.e = dec(@)] ELSE input
    BY <1>3 DEF consoleintr
  <2> QED
    BY <2>1, EraseStep DEF Editor!EditNext
<1>4. CASE c \notin {"nul", "^P", "^U", "^H"}
  <2> DEFINE k == IF c = "cr" THEN "nl" ELSE c
             s == [input EXCEPT !.buf = [@ EXCEPT ![input.e % INPUT_BUF] = k], !.e = inc(input.e)]
             whole == k \in {"nl", "^D"} \/ inc(input.e) = (input.r + INPUT_BUF) % CWord
  <2>1. \/ HasRoom(input) /\ input' = IF whole THEN [s EXCEPT !.w = inc(input.e)] ELSE s
        \/ input' = input
    BY <1>4 DEF consoleintr
  <2>2. k \in Characters
    BY <1>4 DEF Received, Characters
  <2> HIDE DEF k
  <2>3. CASE HasRoom(input) /\ input' = IF whole THEN [s EXCEPT !.w = inc(input.e)] ELSE s
    <3>1. InRing(input') /\ Editor!Type(k)
      BY Zenon, <2>2, <2>3, TypeStep
    <3> QED
      BY <2>2, <3>1 DEF Editor!EditNext
  <2>4. CASE input' = input
    BY <2>4
  <2> QED
    BY <2>1, <2>3, <2>4
<1> QED
  BY <1>1, <1>2, <1>3, <1>4

\* What the keyboard brings.
LEMMA KeysBring ==
    ASSUME NEW sh, NEW k
    PROVE  kbdUp(sh, k).c \in Received /\ kbdDown(sh, k).c \in Received
<1>1. \A mods, key : charcode(mods, key) \in {"nul", "d", "D", "u", "U", "^D", "^U"}
  BY DEF charcode
<1>2. \A ch \in {"nul", "d", "D", "u", "U", "^D", "^U"} :
        swapcase(ch) \in {"nul", "d", "D", "u", "U", "^D", "^U"}
  BY DEF swapcase
<1>3. kbdUp(sh, k).c = "nul"
  BY DEF kbdUp
<1>4. kbdDown(sh, k).c \in {"nul", "d", "D", "u", "U", "^D", "^U"}
  BY <1>1, <1>2 DEF kbdDown
<1> QED
  BY <1>3, <1>4 DEF Received

\* A key is a character for consoleintr.
LEMMA kbdintrBrings ==
    ASSUME NEW k, kbdintr(k)
    PROVE  \E c \in Received : consoleintr(c)
<1> DEFINE code == IF k = "RCTL" THEN "LCTL" ELSE k
           sh == IF k = "RCTL" THEN kbdE0(shift).shift ELSE shift
           g == IF k \in held THEN kbdUp(sh, code) ELSE kbdDown(sh, code)
<1>1. consoleintr(g.c)
  BY DEF kbdintr
<1> HIDE DEF code, sh
<1>2. g.c \in Received
  BY KeysBring
<1> HIDE DEF g
<1> QED
  BY <1>1, <1>2

\* The ring starts empty.
LEMMA RingStarts ==
    ASSUME ConsoleInit
    PROVE  InRing(input) /\ Editor!Start
<1>1. First \in Position /\ INPUT_BUF \in Nat
  BY Sizes
<1>2. input \in Ring /\ input.r = First /\ input.w = First /\ input.e = First
  BY <1>1 DEF ConsoleInit, Ring, Char
<1>3. Unread(First, First) = 0
  BY <1>1, CountIs DEF Position
<1>4. Slice(input, First, First) = <<>>
  BY <1>1, <1>2, SliceEmpty
<1>5. 0 + 0 <= INPUT_BUF
  BY <1>1, Sizes
<1>6. Unread(input.r, input.w) + Unread(input.w, input.e) <= INPUT_BUF /\ Unread(input.w, input.e) = 0
  BY <1>2, <1>3, <1>5
<1>7. InRing(input)
  BY <1>2, <1>6 DEF InRing
<1>8. Editor!Start
  BY <1>2, <1>4 DEF Editor!Start
<1> QED
  BY <1>7, <1>8

\* Every step keeps the ring in order and is one of the line editor, or stutters.
LEMMA ConsoleStep ==
    ASSUME InRing(input), ConsoleNext
    PROVE  InRing(input') /\ (Editor!EditNext \/ input' = input)
<1>1. CASE uartintr
  <2>1. PICK c \in SerialChars : consoleintr(c)
    BY <1>1 DEF uartintr
  <2>2. c \in Received
    BY DEF Received
  <2> QED
    BY <2>1, <2>2, intrStep
<1>2. CASE \E k \in Keys : kbdintr(k)
  <2> PICK k \in Keys : kbdintr(k)
    BY <1>2
  <2> QED
    BY kbdintrBrings, intrStep
<1>3. CASE \E p \in Reader : readChar(p)
  <2> PICK p \in Reader : readChar(p)
    BY <1>3
  <2>1. input' = input \/ (input.r # input.w /\ input' = [input EXCEPT !.r = inc(@)])
    <3>1. CASE input.r = input.w
      BY <3>1 DEF readChar
    <3>2. CASE input.r # input.w /\ CharAt(input, input.r) = "^D"
      BY <3>2 DEF readChar
    <3>3. CASE input.r # input.w /\ CharAt(input, input.r) # "^D"
      BY <3>3 DEF readChar
    <3> QED
      BY <3>1, <3>2, <3>3
  <2>2. CASE input' = input
    BY <2>2
  <2>3. CASE input.r # input.w /\ input' = [input EXCEPT !.r = inc(@)]
    BY <2>3, TakeStep DEF Editor!EditNext
  <2> QED
    BY <2>1, <2>2, <2>3
<1>4. CASE consolewrite(<<"x", "nl">>) \/ \E p \in Reader : (\E n \in ReadSizes : consoleread(p, n))
           \/ killReader(p)
  <2>1. input' = input
    BY Zenon, <1>4 DEF consolewrite, consoleread, killReader
  <2> QED
    BY <2>1
<1> QED
  BY <1>1, <1>2, <1>3, <1>4 DEF ConsoleNext

\* The ring buffer is a line editor with a queue: what is typed comes out once,
\* in order and edited, also when the indices wrap and when the ring is full.
THEOREM ConsoleEditsLines == ConsoleSpec => EditsLines
<1>1. ConsoleInit => InRing(input) /\ Editor!Start
  BY RingStarts
<1>2. InRing(input) /\ [ConsoleNext]_consoleVars => InRing(input)'
  <2>1. ASSUME InRing(input), UNCHANGED consoleVars PROVE InRing(input)'
    <3>1. input' = input
      BY <2>1 DEF consoleVars
    <3> QED
      BY <2>1, <3>1
  <2> QED
    BY <2>1, ConsoleStep
<1>3. InRing(input) /\ [ConsoleNext]_consoleVars
        => [Editor!EditNext]_<<Slice(input, input.r, input.w), Slice(input, input.w, input.e)>>
  <2>1. ASSUME InRing(input), UNCHANGED consoleVars PROVE input' = input
    BY <2>1 DEF consoleVars
  <2>2. input' = input => UNCHANGED <<Slice(input, input.r, input.w), Slice(input, input.w, input.e)>>
    OBVIOUS
  <2> QED
    BY <2>1, <2>2, ConsoleStep
<1> QED
  BY <1>1, <1>2, <1>3, PTL DEF ConsoleSpec, EditsLines, Editor!Edit

\* The readers, and that the sleeping ones have nothing to read.
ReaderType == [step : {"idle", "read"}, n : Int, got : Seq(Char), asleep : BOOLEAN, killed : BOOLEAN, ret : Int]
Readers == rd \in [Reader -> ReaderType] /\ ReadersWoken

\* A device that moves w wakes everybody.
LEMMA intrWakes ==
    ASSUME InRing(input), Readers, NEW c \in Received, consoleintr(c)
    PROVE  Readers'
<1>1. rd \in [Reader -> ReaderType]
  BY DEF Readers
<1>2. input \in Ring
  BY DEF InRing
<1>3. CASE rd' = Wakeup(rd)
  <2>1. \A p \in Reader : [rd[p] EXCEPT !.asleep = FALSE] \in ReaderType
        /\ [rd[p] EXCEPT !.asleep = FALSE].asleep = FALSE
    BY <1>1 DEF ReaderType
  <2>2. rd' \in [Reader -> ReaderType] /\ \A p \in Reader : rd'[p].asleep = FALSE
    BY <1>3, <2>1 DEF Wakeup
  <2> QED
    BY <2>2 DEF Readers, ReadersWoken
<1>4. CASE rd' = rd /\ input'.r = input.r /\ input'.w = input.w
  <2>1. \A p \in Reader : rd[p].asleep => input.r = input.w /\ ~rd[p].killed
    BY DEF Readers, ReadersWoken
  <2>2. \A p \in Reader : rd'[p].asleep => input'.r = input'.w /\ ~rd'[p].killed
    BY <1>4, <2>1
  <2> QED
    BY <1>1, <1>4, <2>2 DEF Readers, ReadersWoken
<1>5. rd' = Wakeup(rd) \/ (rd' = rd /\ input'.r = input.r /\ input'.w = input.w)
  <2>1. CASE c \in {"nul", "^P"}
    BY <2>1 DEF consoleintr
  <2>2. CASE c = "^U"
    <3>1. \E x : input' = [input EXCEPT !.e = x]
      BY <2>2 DEF consoleintr
    <3>2. input'.r = input.r /\ input'.w = input.w
      BY <1>2, <3>1 DEF Ring
    <3>3. rd' = rd
      BY <2>2 DEF consoleintr
    <3> QED
      BY <3>2, <3>3
  <2>3. CASE c = "^H"
    <3>1. input' = [input EXCEPT !.e = dec(@)] \/ input' = input
      BY <2>3 DEF consoleintr
    <3>2. input'.r = input.r /\ input'.w = input.w
      BY <1>2, <3>1 DEF Ring
    <3>3. rd' = rd
      BY <2>3 DEF consoleintr
    <3> QED
      BY <3>2, <3>3
  <2>4. CASE c \notin {"nul", "^P", "^U", "^H"}
    <3> DEFINE k == IF c = "cr" THEN "nl" ELSE c
               s == [input EXCEPT !.buf = [@ EXCEPT ![input.e % INPUT_BUF] = k], !.e = inc(input.e)]
               whole == k \in {"nl", "^D"} \/ inc(input.e) = (input.r + INPUT_BUF) % CWord
    <3>1. \/ input' = (IF whole THEN [s EXCEPT !.w = inc(input.e)] ELSE s)
             /\ rd' = IF whole THEN Wakeup(rd) ELSE rd
          \/ input' = input /\ rd' = rd
      BY <2>4 DEF consoleintr
    <3>2. s.r = input.r /\ s.w = input.w
      BY <1>2 DEF Ring
    <3> HIDE DEF s, whole
    <3> QED
      BY <3>1, <3>2
  <2> QED
    BY <2>1, <2>2, <2>3, <2>4
<1> QED
  BY <1>3, <1>4, <1>5

\* A reader's own steps.
LEMMA readerKeeps ==
    ASSUME InRing(input), Readers, NEW p \in Reader,
           (\E n \in ReadSizes : consoleread(p, n)) \/ readChar(p) \/ killReader(p)
    PROVE  Readers'
<1>1. rd \in [Reader -> ReaderType] /\ \A q \in Reader : rd[q].asleep => input.r = input.w /\ ~rd[q].killed
  BY DEF Readers, ReadersWoken
<1>2. rd[p] \in ReaderType
  BY <1>1
<1>3. ASSUME NEW t \in ReaderType, rd' = [rd EXCEPT ![p] = t],
             t.asleep => input'.r = input'.w /\ ~t.killed,
             \A q \in Reader \ {p} : rd[q].asleep => input'.r = input'.w
      PROVE  Readers'
  BY <1>1, <1>3 DEF Readers, ReadersWoken
<1>4. CASE \E n \in ReadSizes : consoleread(p, n)
  <2> PICK n \in ReadSizes : consoleread(p, n)
    BY <1>4
  <2> DEFINE t == [rd[p] EXCEPT !.step = "read", !.n = n, !.got = <<>>]
  <2>1. n \in Int /\ <<>> \in Seq(Char)
    BY ConsoleAssumption
  <2>2. t \in ReaderType /\ t.asleep = rd[p].asleep /\ t.killed = rd[p].killed
    BY <1>2, <2>1 DEF ReaderType
  <2>3. rd' = [rd EXCEPT ![p] = t] /\ input' = input
    BY Zenon DEF consoleread
  <2> HIDE DEF t
  <2> QED
    BY <1>1, <1>3, <2>2, <2>3
<1>5. CASE killReader(p)
  <2> DEFINE t == [rd[p] EXCEPT !.killed = TRUE, !.asleep = FALSE]
  <2>1. t \in ReaderType /\ t.asleep = FALSE
    BY <1>2 DEF ReaderType
  <2>2. rd' = [rd EXCEPT ![p] = t] /\ input' = input
    BY <1>5 DEF killReader
  <2> HIDE DEF t
  <2> QED
    BY <1>1, <1>3, <2>1, <2>2
<1>6. CASE readChar(p)
  <2> DEFINE me == rd[p]
             c == CharAt(input, input.r)
             return == [me EXCEPT !.step = "idle", !.got = <<>>, !.n = 0]
             more == [me EXCEPT !.got = Append(me.got, c), !.n = me.n - 1]
  <2>1. me \in ReaderType /\ me.asleep = FALSE
    <3>1. me \in ReaderType /\ ~me.asleep
      BY <1>2, <1>6 DEF readChar
    <3> QED
      BY <3>1 DEF ReaderType
  <2>2. return \in ReaderType /\ return.asleep = FALSE /\ return.killed = me.killed
    <3>1. <<>> \in Seq(Char) /\ 0 \in Int
      OBVIOUS
    <3> HIDE DEF me
    <3> QED
      BY <2>1, <3>1 DEF ReaderType
  <2>3. CASE input.r = input.w
    <3> DEFINE t == IF me.killed THEN [return EXCEPT !.ret = -1] ELSE [me EXCEPT !.asleep = TRUE]
    <3>1. rd' = [rd EXCEPT ![p] = t] /\ input' = input
      BY <1>6, <2>3 DEF readChar
    <3> HIDE DEF return
    <3>2. [return EXCEPT !.ret = -1] \in ReaderType /\ [return EXCEPT !.ret = -1].asleep = FALSE
      <4>1. -1 \in Int
        OBVIOUS
      <4> QED
        BY <2>2, <4>1 DEF ReaderType
    <3>3. [me EXCEPT !.asleep = TRUE] \in ReaderType /\ [me EXCEPT !.asleep = TRUE].killed = me.killed
      BY <2>1 DEF ReaderType
    <3>4. t \in ReaderType /\ (t.asleep => ~t.killed)
      BY <3>2, <3>3
    <3> HIDE DEF t
    <3> QED
      BY <1>1, <1>3, <2>3, <3>1, <3>4
  <2>4. CASE input.r # input.w
    <3>1. \A q \in Reader : ~rd[q].asleep
      BY <1>1, <2>4
    <3>2. c \in Char
      <4>1. input \in Ring /\ input.r \in Position
        BY DEF InRing, Ring
      <4>2. input.r \in Int
        BY <4>1, Sizes DEF Position
      <4>3. Cell(input.r) \in 0 .. INPUT_BUF - 1
        BY <4>2, CellIs
      <4> QED
        BY <4>1, <4>3 DEF CharAt, Cell, Ring
    <3> HIDE DEF c
    <3>3. more \in ReaderType /\ more.asleep = FALSE
      <4>1. Append(me.got, c) \in Seq(Char) /\ me.n - 1 \in Int
        BY <2>1, <3>2 DEF ReaderType
      <4> QED
        BY <2>1, <4>1 DEF ReaderType
    <3>4. rd' = [rd EXCEPT ![p] = return] \/ rd' = [rd EXCEPT ![p] = more]
      <4>1. CASE c = "^D"
        BY <1>6, <2>4, <4>1 DEF readChar, c
      <4>2. CASE c # "^D"
        BY <1>6, <2>4, <4>2 DEF readChar, c
      <4> QED
        BY <4>1, <4>2
    <3> HIDE DEF return, more
    <3> QED
      BY <1>3, <2>2, <3>1, <3>3, <3>4
  <2> QED
    BY <2>3, <2>4
<1> QED
  BY <1>4, <1>5, <1>6

\* A reader sleeps only while there is nothing to read and nobody killed it.
THEOREM ReadersAlwaysWoken == ConsoleSpec => []ReadersWoken
<1>1. ConsoleInit => InRing(input) /\ Readers
  <2>1. ASSUME ConsoleInit PROVE Readers
    <3>1. [step |-> "idle", n |-> 0, got |-> <<>>, asleep |-> FALSE, killed |-> FALSE, ret |-> 0] \in ReaderType
      <4>1. <<>> \in Seq(Char) /\ 0 \in Int
        OBVIOUS
      <4> QED
        BY <4>1 DEF ReaderType
    <3> QED
      BY <2>1, <3>1 DEF ConsoleInit, Readers, ReadersWoken
  <2> QED
    BY <2>1, RingStarts
<1>2. InRing(input) /\ Readers /\ [ConsoleNext]_consoleVars => InRing(input)' /\ Readers'
  <2> SUFFICES ASSUME InRing(input), Readers, [ConsoleNext]_consoleVars PROVE InRing(input)' /\ Readers'
    OBVIOUS
  <2>1. CASE UNCHANGED consoleVars
    BY <2>1 DEF consoleVars, Readers, ReadersWoken
  <2>2. CASE ConsoleNext
    <3>1. ASSUME uartintr PROVE Readers'
      <4>1. PICK c \in SerialChars : consoleintr(c)
        BY <3>1 DEF uartintr
      <4> QED
        BY <4>1, intrWakes DEF Received
    <3>2. ASSUME \E k \in Keys : kbdintr(k) PROVE Readers'
      <4> PICK k \in Keys : kbdintr(k)
        BY <3>2
      <4> QED
        BY kbdintrBrings, intrWakes
    <3>3. ASSUME \E p \in Reader : (\E n \in ReadSizes : consoleread(p, n)) \/ readChar(p) \/ killReader(p)
          PROVE  Readers'
      BY <3>3, readerKeeps
    <3>4. ASSUME consolewrite(<<"x", "nl">>) PROVE Readers'
      BY <3>4 DEF consolewrite, Readers, ReadersWoken
    <3>5. Readers'
      BY <2>2, <3>1, <3>2, <3>3, <3>4 DEF ConsoleNext
    <3> QED
      BY <2>2, <3>5, ConsoleStep
  <2> QED
    BY <2>1, <2>2
<1>3. Readers => ReadersWoken
  BY DEF Readers
<1> QED
  BY <1>1, <1>2, <1>3, PTL DEF ConsoleSpec

\* A modifier is on only while a key for it is down, and no E0 is left over.
ModifiersInv == "E0ESC" \notin shift /\ ModifiersHeld

\* A modifier stays on only while a key for it is down, whatever order the keys
\* are pressed and released in: an E0 byte never outlives its key.
THEOREM ModifiersAlwaysHeld == ConsoleSpec => []ModifiersHeld
<1>1. ConsoleInit => ModifiersInv
  BY DEF ConsoleInit, ModifiersInv, ModifiersHeld
<1>2. ModifiersInv /\ [ConsoleNext]_consoleVars => ModifiersInv'
  <2> SUFFICES ASSUME ModifiersInv, [ConsoleNext]_consoleVars PROVE ModifiersInv'
    OBVIOUS
  <2>1. CASE UNCHANGED <<shift, held>>
    BY <2>1 DEF ModifiersInv, ModifiersHeld
  <2>2. ASSUME NEW k \in Keys, kbdintr(k) PROVE ModifiersInv'
    <3> DEFINE code == IF k = "RCTL" THEN "LCTL" ELSE k
               sh == IF k = "RCTL" THEN shift \cup {"E0ESC"} ELSE shift
               key == IF "E0ESC" \in sh THEN Extended(code) ELSE code
    <3>1. /\ held' = Xor(held, {k})
          /\ shift' = IF k \in held THEN kbdUp(sh, code).shift ELSE kbdDown(sh, code).shift
      BY <2>2 DEF kbdintr, kbdE0
    <3>2. key = k
      BY DEF ModifiersInv, Extended
    <3>3. sh \ {"E0ESC"} = shift
      BY DEF ModifiersInv
    <3>4. \A mm : mm \in shift => mm = "CAPSLOCK" \/ \E j \in held : mm \in shiftcode(j)
      BY DEF ModifiersInv, ModifiersHeld
    <3>5. "E0ESC" \notin shift /\ "E0ESC" \notin shiftcode(k) /\ togglecode(k) \subseteq {"CAPSLOCK"}
      BY DEF ModifiersInv, shiftcode, togglecode
    <3>6. CASE k \in held
      <4>1. shift' = shift \ shiftcode(k)
        <5>1. shift' = sh \ (shiftcode(key) \cup {"E0ESC"})
          BY <3>1, <3>6 DEF kbdUp
        <5> HIDE DEF sh, key
        <5> QED
          BY <3>2, <3>3, <5>1
      <4>2. held' = held \ {k}
        BY <3>1, <3>6 DEF Xor
      <4>3. \A mm \in shift' : mm = "CAPSLOCK" \/ \E j \in held' : mm \in shiftcode(j)
        BY <3>4, <4>1, <4>2
      <4>4. "E0ESC" \notin shift'
        BY <3>5, <4>1
      <4> QED
        BY <4>3, <4>4 DEF ModifiersInv, ModifiersHeld
    <3>7. CASE k \notin held
      <4>1. shift' = Xor(shift \cup shiftcode(k), togglecode(k))
        <5>1. shift' = Xor((sh \ {"E0ESC"}) \cup shiftcode(key), togglecode(key))
          BY <3>1, <3>7 DEF kbdDown
        <5> HIDE DEF sh, key
        <5> QED
          BY <3>2, <3>3, <5>1
      <4>2. held' = held \cup {k}
        BY <3>1, <3>7 DEF Xor
      <4>3. \A mm \in shift' : mm = "CAPSLOCK" \/ \E j \in held' : mm \in shiftcode(j)
        BY <3>4, <3>5, <4>1, <4>2 DEF Xor
      <4>4. "E0ESC" \notin shift'
        BY <3>5, <4>1 DEF Xor
      <4> QED
        BY <4>3, <4>4 DEF ModifiersInv, ModifiersHeld
    <3> QED
      BY <3>6, <3>7
  <2>3. CASE UNCHANGED consoleVars
    BY <2>1, <2>3 DEF consoleVars
  <2>4. CASE ConsoleNext
    <3>1. UNCHANGED <<shift, held>> \/ \E k \in Keys : kbdintr(k)
      BY Zenon, <2>4 DEF ConsoleNext, uartintr, consoleread, readChar, killReader, consolewrite
    <3> QED
      BY <2>1, <2>2, <3>1
  <2> QED
    BY <2>3, <2>4
<1>3. ModifiersInv => ModifiersHeld
  BY DEF ModifiersInv
<1> QED
  BY <1>1, <1>2, <1>3, PTL DEF ConsoleSpec

-----------------------------------------------------------------------------
(* The cursor. *)

\* The positions on the screen, above its last row.
Screen == 0 .. ((ROWS - 1) * COLS) - 1

\* Products with the width of the screen keep the order.
LEMMA RowsInOrder ==
    ASSUME NEW n \in Nat \ {0}, NEW a \in Int, NEW b \in Int
    PROVE  /\ a < b => n * a < n * b
           /\ n * a < n * b => a < b
<1>1. ASSUME NEW x \in Int, NEW y \in Int, x < y PROVE n * x < n * y
  <2>1. y - x \in Int /\ y - x > 0
    BY <1>1
  <2>2. n * (y - x) >= n
    BY <2>1, Mult
  <2>3. n * (y - x) = (n * y) - (n * x)
    OBVIOUS
  <2>4. n * x \in Int /\ n * y \in Int
    OBVIOUS
  <2> QED
    BY <2>2, <2>3, <2>4
<1>2. a < b => n * a < n * b
  BY <1>1
<1>3. b < a => n * b < n * a
  BY <1>1
<1>4. n * a \in Int /\ n * b \in Int /\ (a = b => n * a = n * b)
  OBVIOUS
<1>5. a < b \/ b < a \/ a = b
  OBVIOUS
<1> QED
  BY <1>2, <1>3, <1>4, <1>5

\* cgaputc stays on the screen: it scrolls when it comes to the last row.
LEMMA cgaputcStays ==
    ASSUME NEW pos \in Screen, NEW c
    PROVE  cgaputc(pos, c) \in Screen
<1> DEFINE w == COLS
           h == ROWS - 1
           q == pos \div COLS
           r == pos % COLS
           end == w * h
<1>1. w \in Nat \ {0} /\ h \in Nat \ {0}
  BY ConsoleAssumption
<1>2. end \in Int /\ (ROWS - 1) * COLS = end
  BY <1>1
<1>3. pos \in 0 .. end - 1
  BY <1>2 DEF Screen
<1>4. q \in Int /\ r \in 0 .. w - 1 /\ pos = (w * q) + r
  <2>1. pos \in Int
    <3> HIDE DEF end
    <3> QED
      BY <1>2, <1>3
  <2> QED
    BY <1>1, <2>1, DivMod
<1> DEFINE moved == CASE c = "nl" -> pos + COLS - (pos % COLS)
                      [] c = "BACKSPACE" -> IF pos > 0 THEN pos - 1 ELSE pos
                      [] OTHER -> pos + 1
           row == moved \div COLS
<1>5. cgaputc(pos, c) = IF row >= h THEN moved - w ELSE moved
  BY DEF cgaputc
<1>6. w * q < w * h
  <2> HIDE DEF q, r, w, h
  <2>1. w * q \in Int /\ w * h = end
    BY <1>1, <1>4
  <2> HIDE DEF end
  <2> QED
    BY <1>1, <1>2, <1>3, <1>4, <2>1
<1>7. q < h
  BY <1>1, <1>4, <1>6, RowsInOrder
<1>8. w * (q + 1) <= end
  <2>1. q + 1 < h \/ q + 1 = h
    BY <1>1, <1>4, <1>7
  <2>2. q + 1 \in Int
    BY <1>4
  <2>3. q + 1 < h => w * (q + 1) < w * h
    BY <1>1, <2>2, RowsInOrder
  <2>4. w * (q + 1) \in Int
    BY <1>1, <2>2
  <2> HIDE DEF q, w, h
  <2>5. CASE q + 1 < h
    BY <1>1, <1>2, <2>3, <2>4, <2>5 DEF end
  <2>6. CASE q + 1 = h
    BY <1>1, <1>2, <2>6 DEF end
  <2> QED
    BY <2>1, <2>5, <2>6
<1>9. moved \in 0 .. end
  <2>1. pos - r = w * q /\ pos + w - r = w * (q + 1)
    <3> HIDE DEF q, r, w
    <3> QED
      BY <1>1, <1>3, <1>4
  <2>2. c = "nl" => moved = pos + w - r
    OBVIOUS
  <2>3. c # "nl" => (moved = pos - 1 /\ pos > 0) \/ moved = pos \/ moved = pos + 1
    OBVIOUS
  <2>4. w * (q + 1) >= 0
    <3> HIDE DEF q, r, w
    <3> QED
      BY <1>1, <1>3, <1>4, <2>1
  <2>5. w * (q + 1) \in Int
    BY <1>1, <1>4
  <2> HIDE DEF moved, q, r, w, h, end
  <2>6. pos - 1 \in Int /\ pos \in Int /\ pos >= 0 /\ pos + 1 <= end
    BY <1>2, <1>3
  <2> QED
    BY <1>2, <1>8, <2>1, <2>2, <2>3, <2>4, <2>5, <2>6
<1> HIDE DEF moved
<1>10. row \in Int /\ moved % w \in 0 .. w - 1 /\ moved = (w * row) + (moved % w)
  <2>1. moved \in Int
    BY <1>9
  <2> QED
    BY <1>1, <2>1, DivMod
<1> DEFINE s == moved % w
<1> HIDE DEF q, r, row, s
<1>11. s \in 0 .. w - 1 /\ moved = (w * row) + s /\ w * row \in Int /\ moved \in Int
  BY <1>1, <1>9, <1>10 DEF s
<1>12. CASE row >= h
  <2>1. ~(w * row < w * h)
    BY <1>1, <1>10, <1>12, RowsInOrder
  <2>2. w * h = end
    OBVIOUS
  <2>3. end >= w
    <3> HIDE DEF w, h
    <3>1. h \in Int /\ h > 0
      BY <1>1
    <3> QED
      BY Zenon, <1>1, <3>1, Mult
  <2> HIDE DEF w, h, end
  <2>4. moved = end
    BY <1>1, <1>2, <1>9, <1>11, <2>1, <2>2
  <2>5. moved - w \in 0 .. end - 1
    BY <1>1, <1>2, <2>3, <2>4
  <2> QED
    BY <1>2, <1>5, <1>12, <2>5 DEF Screen
<1>13. CASE ~(row >= h)
  <2>1. moved # end
    <3> SUFFICES ASSUME moved = end PROVE FALSE
      OBVIOUS
    <3>1. w * row = w * h /\ s = 0
      <4>1. 0 \in 0 .. w - 1 /\ (w * h) + 0 = (w * row) + s
        BY <1>1, <1>11
      <4> QED
        BY <1>1, <1>10, <1>11, <4>1, Unique
    <3>2. row < h
      BY <1>1, <1>10, <1>13
    <3>3. w * row < w * h
      <4>1. h \in Int
        BY <1>1
      <4> HIDE DEF w, h
      <4> QED
        BY Zenon, <1>1, <1>10, <3>2, <4>1, RowsInOrder
    <3>4. w * row \in Int /\ w * h \in Int
      BY <1>11, <1>1
    <3> HIDE DEF w, h
    <3> QED
      BY <3>1, <3>3, <3>4
  <2>2. moved \in 0 .. end - 1
    <3> HIDE DEF end
    <3> QED
      BY <1>2, <1>9, <2>1
  <2> QED
    BY <1>2, <1>5, <1>13, <2>2 DEF Screen
<1> QED
  BY <1>12, <1>13

\* g is the table of the positions after each of the first n characters of cs.
Places(g, pos, cs, n) == g = [k \in 0 .. n |-> IF k = 0 THEN pos ELSE cgaputc(g[k - 1], cs[k])]

\* What is printed from a place on the screen ends on the screen.
LEMMA consputcStays ==
    ASSUME NEW pos \in Screen, NEW cs, Len(cs) \in Nat
    PROVE  consputc(pos, cs) \in Screen
<1> DEFINE n == Len(cs)
<1>1. n \in Nat
  OBVIOUS
<1> HIDE DEF n
<1>2. \E g : Places(g, pos, cs, n)
  <2> DEFINE S == {j \in Nat : j <= n /\ ~\E g : Places(g, pos, cs, j)}
  <2>1. SUFFICES S = {}
    BY <1>1
  <2> SUFFICES ASSUME S # {} PROVE FALSE
    OBVIOUS
  <2>2. PICK i \in S : \A j \in S : i <= j
    BY LeastElement
  <2>3. i \in Nat /\ i <= n /\ ~\E g : Places(g, pos, cs, i)
    OBVIOUS
  <2>4. CASE i = 0
    <3> DEFINE g == [k \in 0 .. 0 |-> pos]
    <3>1. \A k \in 0 .. 0 : k = 0
      OBVIOUS
    <3>2. g = [k \in 0 .. 0 |-> IF k = 0 THEN pos ELSE cgaputc(g[k - 1], cs[k])]
      BY <3>1
    <3> QED
      BY <2>3, <2>4, <3>2 DEF Places
  <2>5. CASE i # 0
    <3>1. i - 1 \in Nat /\ i - 1 <= n /\ ~(i <= i - 1)
      BY <1>1, <2>3, <2>5
    <3>2. i - 1 \notin S
      BY <2>2, <3>1
    <3>3. PICK g : Places(g, pos, cs, i - 1)
      BY <3>1, <3>2
    <3> DEFINE h == [k \in 0 .. i |-> IF k = i THEN cgaputc(g[i - 1], cs[i]) ELSE g[k]]
    <3>4. \A k \in 0 .. i - 1 : g[k] = IF k = 0 THEN pos ELSE cgaputc(g[k - 1], cs[k])
      BY <3>3 DEF Places
    <3>5. ASSUME NEW k \in 0 .. i PROVE h[k] = IF k = 0 THEN pos ELSE cgaputc(h[k - 1], cs[k])
      <4>1. CASE k = i
        <5>1. i - 1 \in 0 .. i /\ i - 1 # i /\ h[i - 1] = g[i - 1] /\ h[k] = cgaputc(g[i - 1], cs[i])
          BY <3>1, <2>3, <4>1
        <5> QED
          BY <2>5, <4>1, <5>1
      <4>2. CASE k # i
        <5>1. k \in 0 .. i - 1 /\ h[k] = g[k]
          BY <2>3, <4>2
        <5>2. k # 0 => k - 1 \in 0 .. i /\ k - 1 # i
          BY <2>3, <4>2
        <5>3. k # 0 => h[k - 1] = g[k - 1]
          BY <5>2
        <5> QED
          BY <3>4, <5>1, <5>3
      <4> QED
        BY <4>1, <4>2
    <3>6. h = [k \in 0 .. i |-> h[k]]
      OBVIOUS
    <3> HIDE DEF h
    <3>7. Places(h, pos, cs, i)
      BY <3>5, <3>6 DEF Places
    <3> QED
      BY <2>3, <3>7
  <2> QED
    BY <2>4, <2>5
<1>3. ASSUME NEW g, Places(g, pos, cs, n), NEW k \in 0 .. n PROVE g[k] \in Screen
  <2> DEFINE S == {j \in Nat : j <= n /\ g[j] \notin Screen}
  <2>1. SUFFICES S = {}
    BY <1>1
  <2> SUFFICES ASSUME S # {} PROVE FALSE
    OBVIOUS
  <2>2. PICK i \in S : \A j \in S : i <= j
    BY LeastElement
  <2>3. i \in Nat /\ i <= n /\ g[i] \notin Screen /\ i \in 0 .. n
    BY <1>1
  <2>4. g[i] = IF i = 0 THEN pos ELSE cgaputc(g[i - 1], cs[i])
    BY <1>3, <2>3 DEF Places
  <2>5. i # 0
    BY <2>3, <2>4
  <2>6. i - 1 \in Nat /\ i - 1 <= n /\ ~(i <= i - 1)
    BY <1>1, <2>3, <2>5
  <2>7. g[i - 1] \in Screen
    BY <2>2, <2>6
  <2> QED
    BY <2>3, <2>4, <2>5, <2>7, cgaputcStays
<1> DEFINE reached == CHOOSE g : g = [k \in 0 .. n |-> IF k = 0 THEN pos ELSE cgaputc(g[k - 1], cs[k])]
<1>4. Places(reached, pos, cs, n)
  BY <1>2 DEF Places
<1>5. consputc(pos, cs) = reached[n]
  BY DEF consputc, n
<1>6. n \in 0 .. n
  BY <1>1
<1> HIDE DEF reached
<1> QED
  BY <1>3, <1>4, <1>5, <1>6

\* A character that arrives leaves the cursor on the screen.
LEMMA intrCursor ==
    ASSUME InRing(input), cursor \in Screen, NEW c, consoleintr(c)
    PROVE  cursor' \in Screen
<1>1. ASSUME NEW k PROVE consputc(cursor, <<k>>) \in Screen
  <2>1. Len(<<k>>) = 1 /\ 1 \in Nat
    OBVIOUS
  <2> QED
    BY <2>1, consputcStays
<1>2. CASE c \in {"nul", "^P"}
  BY <1>2 DEF consoleintr
<1>3. CASE c = "^U"
  <2> DEFINE n == Unread(input.w, input.e)
             cs == [k \in 1 .. n |-> "BACKSPACE"]
  <2>1. n \in Nat /\ {k \in 1 .. n : CharAt(input, input.e - k) = "nl"} = {}
    <3>1. n \in Nat
      BY CountIs DEF InRing, Ring, Position
    <3>2. \A k \in 1 .. n : CharAt(input, input.e - k) # "nl"
      BY LineErased
    <3> QED
      BY <3>1, <3>2
  <2>2. cursor' = consputc(cursor, cs)
    BY <1>3, <2>1 DEF consoleintr, Unread
  <2> HIDE DEF n
  <2>3. cs \in Seq({"BACKSPACE"}) /\ Len(cs) = n
    BY <2>1
  <2> HIDE DEF cs
  <2>4. Len(cs) \in Nat
    BY <2>1, <2>3
  <2> QED
    BY <2>2, <2>4, consputcStays
<1>4. CASE c = "^H"
  BY <1>1, <1>4 DEF consoleintr
<1>5. CASE c \notin {"nul", "^P", "^U", "^H"}
  <2>1. cursor' = cursor \/ \E k : cursor' = consputc(cursor, <<k>>)
    BY <1>5 DEF consoleintr
  <2> QED
    BY <1>1, <2>1
<1> QED
  BY <1>2, <1>3, <1>4, <1>5

\* Every step leaves the cursor on the screen.
LEMMA CursorStays ==
    ASSUME InRing(input), cursor \in Screen, ConsoleNext
    PROVE  cursor' \in Screen
<1>1. CASE \E c : consoleintr(c)
  BY <1>1, intrCursor
<1>2. CASE consolewrite(<<"x", "nl">>)
  <2>1. Len(<<"x", "nl">>) = 2 /\ 2 \in Nat
    OBVIOUS
  <2>2. consputc(cursor, <<"x", "nl">>) \in Screen
    BY <2>1, consputcStays
  <2> QED
    BY <1>2, <2>2 DEF consolewrite
<1>3. (\E c : consoleintr(c)) \/ consolewrite(<<"x", "nl">>) \/ cursor' = cursor
  BY DEF ConsoleNext, uartintr, kbdintr, consoleread, readChar, killReader
<1> QED
  BY <1>1, <1>2, <1>3

\* Whatever is typed, erased and printed, the cursor stays above the last row.
THEOREM CursorAlwaysOnScreen == ConsoleSpec => [](cursor \in Screen)
<1>1. ConsoleInit => InRing(input) /\ cursor \in Screen
  <2>1. 0 \in Screen
    <3> DEFINE h == ROWS - 1
    <3>1. h \in Nat \ {0} /\ COLS \in Nat \ {0} /\ h * COLS = COLS * h
      BY ConsoleAssumption
    <3> HIDE DEF h
    <3>2. h \in Int /\ h > 0
      BY <3>1
    <3>3. COLS * h >= COLS
      BY Zenon, <3>1, <3>2, Mult
    <3>4. COLS * h \in Int
      BY <3>1
    <3>5. 0 \in 0 .. (h * COLS) - 1
      BY <3>1, <3>3, <3>4
    <3> QED
      BY <3>5 DEF Screen, h
  <2> QED
    BY <2>1, RingStarts DEF ConsoleInit
<1>2. InRing(input) /\ cursor \in Screen /\ [ConsoleNext]_consoleVars => InRing(input)' /\ (cursor \in Screen)'
  <2>1. ASSUME InRing(input), cursor \in Screen, ConsoleNext
        PROVE  InRing(input)' /\ (cursor \in Screen)'
    <3>1. cursor' \in Screen /\ InRing(input')
      BY <2>1, CursorStays, ConsoleStep
    <3> QED
      BY <3>1
  <2>2. ASSUME InRing(input), cursor \in Screen, UNCHANGED consoleVars
        PROVE  InRing(input)' /\ (cursor \in Screen)'
    BY <2>2 DEF consoleVars
  <2> QED
    BY <2>1, <2>2
<1> QED
  BY <1>1, <1>2, PTL DEF ConsoleSpec

\* Both: the modifiers follow the keys, and the cursor is on the screen.
THEOREM KeysAndCursorAlways == ConsoleSpec => []KeysAndCursor
<1>1. ModifiersHeld /\ cursor \in Screen => KeysAndCursor
  BY DEF KeysAndCursor, Screen
<1> QED
  BY <1>1, ModifiersAlwaysHeld, CursorAlwaysOnScreen, PTL
=============================================================================
