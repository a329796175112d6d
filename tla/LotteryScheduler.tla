-------------------------- MODULE LotteryScheduler --------------------------
(***************************************************************************)
(* The process table of the xv6 kernel of offline_3 and its lottery        *)
(* scheduler: proc.c (allocproc, fork, exit, wait, scheduler, yield, sleep,*)
(* wakeup, kill), sysproc.c (sleep, getpinfo, settickets) and the timer    *)
(* and system call paths of trap.c.                                        *)
(*                                                                         *)
(* A step is what a CPU does between two acquisitions of ptable.lock or    *)
(* tickslock.  A process is a slot of the table; its kernel stack is       *)
(* frame[s], and frame[s].pc = "user" means it runs user code.  Locks are  *)
(* only spun on with interrupts off, so a timer interrupt strikes a CPU    *)
(* that holds no lock; CPU 0 counts the ticks.                             *)
(***************************************************************************)
EXTENDS Integers, FiniteSets

CONSTANTS NPROC,        \* size of the process table
          NCPU,         \* number of CPUs (CPUS of the Makefile)
          Word,         \* number of values of an int (2^32 in the kernel)
          Calls,        \* the system calls user programs make
          TicketArgs,   \* the numbers they pass to settickets
          MaxTicks,     \* bound: timer interrupts counted
          MaxPid        \* bound: process identifiers handed out

ASSUME LotteryAssumption ==
    /\ NPROC \in Nat \ {0} /\ NCPU \in Nat \ {0}
    /\ Word \in Nat /\ Word % 2 = 0 /\ Word > 2
    /\ Calls \subseteq {"fork", "exit", "wait", "sleep", "kill", "settickets", "getpinfo"}
    /\ TicketArgs \subseteq -1 .. Word \div 2 - 1
    /\ MaxTicks \in Nat /\ MaxPid \in Nat \ {0}

VARIABLES ptable,       \* the process table
          nextpid,      \* next process identifier
          frame,        \* each process's kernel stack: program counter and locals
          cpu,          \* each CPU: where it is, its process, its lottery
          ptlock,       \* CPU that holds ptable.lock
          tickslock,    \* CPU that holds tickslock
          ticks,        \* timer interrupts since boot
          panicked,     \* the message the kernel stopped with
          stat          \* the inuse array of the user's struct pstat

vars == <<ptable, nextpid, frame, cpu, ptlock, tickslock, ticks, panicked, stat>>
locks == <<ptlock, tickslock>>

Slots == 0 .. NPROC - 1
CPUs == 0 .. NCPU - 1
Free == -1              \* nobody holds the lock
Nobody == -1            \* the null pointer to a process
initproc == 0           \* userinit's process gets the first slot
NoChan == -1            \* a process that waits for its children sleeps on its own slot
TicksChan == NPROC      \* the channel &ticks

PState == {"UNUSED", "EMBRYO", "SLEEPING", "RUNNABLE", "RUNNING", "ZOMBIE"}
InState(S) == {s \in Slots : ptable[s].state \in S}
Runnable == InState({"RUNNABLE"})

\* The value of an int after an operation that may overflow.
Wrap(i) == ((i + Word \div 2) % Word) - Word \div 2

Least(S) == CHOOSE i \in S : \A j \in S : i <= j

EmptySlot ==
    [state |-> "UNUSED", pid |-> 0, parent |-> Nobody, chan |-> NoChan, killed |-> FALSE,
     tickets |-> 0, ticks |-> 0, init_ticks |-> 0]
EmptyFrame == [pc |-> "user", np |-> Nobody, until |-> 0]

\* userinit is done and every CPU enters scheduler().
Init ==
    /\ ptable = [s \in Slots |->
                    IF s = initproc
                    THEN [EmptySlot EXCEPT !.state = "RUNNABLE", !.pid = 1, !.tickets = 1]
                    ELSE EmptySlot]
    /\ nextpid = 2
    /\ frame = [s \in Slots |-> EmptyFrame]
    /\ cpu = [c \in CPUs |-> [pc |-> "count", irq |-> "no", proc |-> Nobody,
                              total |-> 0, winning |-> 0]]
    /\ ptlock = Free /\ tickslock = Free
    /\ ticks = 0
    /\ panicked = "no"
    /\ stat = [s \in Slots |-> 0]

-----------------------------------------------------------------------------
\* The scheduler of CPU c.

SchedAt(c, pc) == panicked = "no" /\ cpu[c].pc = pc /\ cpu[c].irq = "no"

\* The tickets of the runnable processes of S, and how many the kernel counts:
\* settickets lets no process have a negative number of them.
TicketSet(S) == UNION {{s} \X (1 .. ptable[s].tickets) : s \in S \cap Runnable}
TicketsOf(S) == Wrap(Cardinality(TicketSet(S)))

\* count total how many tickets the processes are holding
Count(c) ==
    /\ SchedAt(c, "count") /\ ptlock = Free
    /\ cpu' = [cpu EXCEPT ![c] = [@ EXCEPT !.pc = "draw", !.total = TicketsOf(Slots)]]
    /\ UNCHANGED <<ptable, nextpid, frame, locks, ticks, panicked, stat>>

\* Mutant: draws from one ticket too many.
DrawOneTooMany(c) ==
    /\ SchedAt(c, "draw") /\ tickslock = Free
    /\ IF ticks = 0
       THEN panicked' = "trap" /\ UNCHANGED cpu
       ELSE /\ \E r \in 0 .. ticks - 1 :
                  cpu' = [cpu EXCEPT ![c] = [@ EXCEPT !.pc = "select", !.winning = r % (cpu[c].total + 2)]]
            /\ UNCHANGED panicked
    /\ UNCHANGED <<ptable, nextpid, frame, locks, ticks, stat>>

\* random(ticks) % (total_tickets+1), in unsigned arithmetic.  random divides
\* by its argument and so returns a number below it (module Random).  Dividing
\* by zero is a trap in the kernel, and trap() panics.
Divisor(c) == (cpu[c].total + 1) % Word
Draw(c) ==
    /\ SchedAt(c, "draw") /\ tickslock = Free
    /\ IF ticks = 0 \/ Divisor(c) = 0
       THEN panicked' = "trap" /\ UNCHANGED cpu
       ELSE /\ \E r \in 0 .. ticks - 1 :
                  cpu' = [cpu EXCEPT ![c] = [@ EXCEPT !.pc = "select", !.winning = Wrap(r % Divisor(c))]]
            /\ UNCHANGED panicked
    /\ UNCHANGED <<ptable, nextpid, frame, locks, ticks, stat>>

\* The processes at which the cumulated tickets reach the winning ticket; the
\* first of them is dispatched, with ptable.lock still locked.  The locals of
\* the pass are dead then and go back to 0.
Winners(c) == {s \in Runnable : TicketsOf(0 .. s) >= cpu[c].winning}
SelectStaysRunnable(c) ==   \* mutant: no p->state = RUNNING
    /\ SchedAt(c, "select") /\ ptlock = Free
    /\ IF Winners(c) = {}
       THEN cpu' = [cpu EXCEPT ![c].pc = "count"] /\ UNCHANGED ptlock
       ELSE /\ cpu' = [cpu EXCEPT ![c] = [@ EXCEPT !.pc = "stamp", !.proc = Least(Winners(c))]]
            /\ ptlock' = c
    /\ UNCHANGED <<ptable, nextpid, frame, tickslock, ticks, panicked, stat>>
Select(c) ==
    /\ SchedAt(c, "select") /\ ptlock = Free
    /\ IF Winners(c) = {}
       THEN /\ cpu' = [cpu EXCEPT ![c] = [@ EXCEPT !.pc = "count", !.total = 0, !.winning = 0]]
            /\ UNCHANGED <<ptable, ptlock>>
       ELSE LET s == Least(Winners(c))
            IN  /\ cpu' = [cpu EXCEPT ![c] = [@ EXCEPT !.pc = "stamp", !.proc = s,
                                                      !.total = 0, !.winning = 0]]
                /\ ptable' = [ptable EXCEPT ![s].state = "RUNNING"]
                /\ ptlock' = c
    /\ UNCHANGED <<nextpid, frame, tickslock, ticks, panicked, stat>>

\* Mutant: the time is not noted.
StampForgotten(c) ==
    /\ SchedAt(c, "stamp")
    /\ ptable' = [ptable EXCEPT ![cpu[c].proc].chan = NoChan]
    /\ ptlock' = IF frame[cpu[c].proc].pc = "wait_scan" THEN c ELSE Free
    /\ cpu' = [cpu EXCEPT ![c].pc = "proc"]
    /\ UNCHANGED <<nextpid, frame, tickslock, ticks, panicked, stat>>

\* Note the time and switch to the process, which comes out of forkret, yield
\* or sleep, forgets its channel and releases ptable.lock -- unless it slept
\* in wait(), which scans the table again before that.
Stamp(c) ==
    /\ SchedAt(c, "stamp") /\ tickslock = Free
    /\ LET s == cpu[c].proc
       IN  /\ ptable' = [ptable EXCEPT ![s] = [@ EXCEPT !.init_ticks = ticks, !.chan = NoChan]]
           /\ ptlock' = IF frame[s].pc = "wait_scan" THEN c ELSE Free
    /\ cpu' = [cpu EXCEPT ![c].pc = "proc"]
    /\ UNCHANGED <<nextpid, frame, tickslock, ticks, panicked, stat>>

\* Mutant: keep ptable.lock.
AccountKeepsLock(c) ==
    /\ SchedAt(c, "account") /\ tickslock = Free
    /\ ptable' = [ptable EXCEPT ![cpu[c].proc].ticks = @ + ticks - ptable[cpu[c].proc].init_ticks]
    /\ cpu' = [cpu EXCEPT ![c] = [@ EXCEPT !.pc = "count", !.proc = Nobody]]
    /\ UNCHANGED <<nextpid, frame, locks, ticks, panicked, stat>>

\* The process has called sched(): charge it for its slice.
Account(c) ==
    /\ SchedAt(c, "account") /\ tickslock = Free
    /\ LET s == cpu[c].proc
       IN  ptable' = [ptable EXCEPT ![s].ticks = @ + ticks - ptable[s].init_ticks]
    /\ cpu' = [cpu EXCEPT ![c] = [@ EXCEPT !.pc = "count", !.proc = Nobody]]
    /\ ptlock' = Free
    /\ UNCHANGED <<nextpid, frame, tickslock, ticks, panicked, stat>>

scheduler(c) == Count(c) \/ Draw(c) \/ Select(c) \/ Stamp(c) \/ Account(c)

-----------------------------------------------------------------------------
\* What a process does while CPU c runs it.

Runs(c, s, pc) ==
    /\ panicked = "no" /\ cpu[c].pc = "proc" /\ cpu[c].irq = "no"
    /\ cpu[c].proc = s /\ frame[s].pc = pc

\* trap() lets a process that was killed make no system call.
Calling(c, s, call) ==
    Runs(c, s, "user") /\ call \in Calls /\ ~ptable[s].killed

Goto(s, pc) == frame' = [frame EXCEPT ![s].pc = pc]

\* sched(): back to the scheduler with ptable.lock held
sched(c) ==
    /\ ptlock' = c
    /\ cpu' = [cpu EXCEPT ![c] = [@ EXCEPT !.pc = "account", !.irq = "no"]]

\* All of tab that sleep on chan become runnable.
wakeup1(tab, chan) ==
    [q \in Slots |-> IF tab[q].state = "SLEEPING" /\ tab[q].chan = chan
                     THEN [tab[q] EXCEPT !.state = "RUNNABLE"]
                     ELSE tab[q]]

\* fork, up to allocproc's release of ptable.lock
ForkAlloc(c, s) ==
    /\ Calling(c, s, "fork") /\ ptlock = Free
    /\ IF InState({"UNUSED"}) = {}
       THEN Goto(s, "sysret") /\ UNCHANGED <<ptable, nextpid>>
       ELSE LET n == Least(InState({"UNUSED"}))
            IN  /\ nextpid <= MaxPid
                /\ ptable' = [ptable EXCEPT ![n] = [@ EXCEPT !.state = "EMBRYO", !.pid = nextpid,
                                                           !.tickets = 1]]
                /\ nextpid' = nextpid + 1
                /\ frame' = [frame EXCEPT ![s] = [@ EXCEPT !.pc = "fork_copy", !.np = n]]
    /\ UNCHANGED <<cpu, locks, ticks, panicked, stat>>

\* kalloc() or copyuvm() found no memory: give the slot back, without the lock
ForkFails(c, s) ==
    /\ Runs(c, s, "fork_copy")
    /\ ptable' = [ptable EXCEPT ![frame[s].np].state = "UNUSED"]
    /\ Goto(s, "sysret")
    /\ UNCHANGED <<nextpid, cpu, locks, ticks, panicked, stat>>

\* the child gets its kernel stack, its parent and the parent's tickets
ForkCopy(c, s) ==
    /\ Runs(c, s, "fork_copy")
    /\ LET n == frame[s].np
       IN  /\ ptable' = [ptable EXCEPT ![n] = [@ EXCEPT !.parent = s, !.tickets = ptable[s].tickets]]
           /\ frame' = [[frame EXCEPT ![n] = EmptyFrame] EXCEPT ![s].pc = "fork_ready"]
    /\ UNCHANGED <<nextpid, cpu, locks, ticks, panicked, stat>>

ForkReady(c, s) ==
    /\ Runs(c, s, "fork_ready") /\ ptlock = Free
    /\ ptable' = [ptable EXCEPT ![frame[s].np].state = "RUNNABLE"]
    /\ Goto(s, "sysret")
    /\ UNCHANGED <<nextpid, cpu, locks, ticks, panicked, stat>>

\* exit, by the system call or because trap() finds that the process was killed
ExitStart(c, s) ==
    /\ \/ Calling(c, s, "exit")
       \/ Runs(c, s, "user") /\ ptable[s].killed
    /\ Goto(s, "exit")
    /\ UNCHANGED <<ptable, nextpid, cpu, locks, ticks, panicked, stat>>

\* The end of a system call, where its locals die and trap() looks at killed.
SysReturn(c, s) ==
    /\ Runs(c, s, "sysret")
    /\ frame' = [frame EXCEPT ![s] =
                    [EmptyFrame EXCEPT !.pc = IF ptable[s].killed THEN "exit" ELSE "user"]]
    /\ UNCHANGED <<ptable, nextpid, cpu, locks, ticks, panicked, stat>>

\* exit(): init may not; others wake their parent, pass their children to init
\* (and wake it if one is a zombie), and become zombies.
ExitPanics(c, s) ==
    /\ Runs(c, s, "exit") /\ s = initproc
    /\ panicked' = "init exiting"
    /\ UNCHANGED <<ptable, nextpid, frame, cpu, locks, ticks, stat>>
Children(s) == {q \in Slots : ptable[q].parent = s}
ExitKeepsChildren(c, s) ==  \* mutant: the children are not passed to init
    /\ Runs(c, s, "exit") /\ s # initproc /\ ptlock = Free
    /\ ptable' = [wakeup1(ptable, ptable[s].parent) EXCEPT ![s].state = "ZOMBIE"]
    /\ sched(c)
    /\ UNCHANGED <<nextpid, frame, tickslock, ticks, panicked, stat>>
ExitInitNotTold(c, s) ==    \* mutant: init is not woken for a zombie it inherits
    /\ Runs(c, s, "exit") /\ s # initproc /\ ptlock = Free
    /\ LET woken == wakeup1(ptable, ptable[s].parent)
       IN  ptable' = [q \in Slots |->
                        [woken[q] EXCEPT !.parent = IF q \in Children(s) THEN initproc ELSE @,
                                         !.state  = IF q = s THEN "ZOMBIE" ELSE @]]
    /\ sched(c)
    /\ UNCHANGED <<nextpid, frame, tickslock, ticks, panicked, stat>>
Exit(c, s) ==
    /\ Runs(c, s, "exit") /\ s # initproc /\ ptlock = Free
    /\ LET woken   == wakeup1(ptable, ptable[s].parent)
           adopted == [q \in Slots |-> IF q \in Children(s)
                                       THEN [woken[q] EXCEPT !.parent = initproc]
                                       ELSE woken[q]]
           told    == IF Children(s) \cap InState({"ZOMBIE"}) # {}
                      THEN wakeup1(adopted, initproc) ELSE adopted
       IN  ptable' = [told EXCEPT ![s].state = "ZOMBIE"]
    /\ sched(c)
    /\ UNCHANGED <<nextpid, frame, tickslock, ticks, panicked, stat>>

\* wait(): take the lock ...
WaitLock(c, s) ==
    /\ Calling(c, s, "wait") /\ ptlock = Free
    /\ ptlock' = c
    /\ Goto(s, "wait_scan")
    /\ UNCHANGED <<ptable, nextpid, cpu, tickslock, ticks, panicked, stat>>

\* ... free the first child that is a zombie, ...
Zombies(s) == Children(s) \cap InState({"ZOMBIE"})
WaitReap(c, s) ==
    /\ Runs(c, s, "wait_scan") /\ Zombies(s) # {}
    /\ ptable' = [ptable EXCEPT ![Least(Zombies(s))] =
                    [@ EXCEPT !.pid = 0, !.parent = Nobody, !.killed = FALSE, !.state = "UNUSED"]]
    /\ ptlock' = Free
    /\ Goto(s, "sysret")
    /\ UNCHANGED <<nextpid, cpu, tickslock, ticks, panicked, stat>>

\* ... or give up, ...
WaitFails(c, s) ==
    /\ Runs(c, s, "wait_scan") /\ Zombies(s) = {}
    /\ Children(s) = {} \/ ptable[s].killed
    /\ ptlock' = Free
    /\ Goto(s, "sysret")
    /\ UNCHANGED <<ptable, nextpid, cpu, tickslock, ticks, panicked, stat>>

\* ... or sleep, on its own slot, and scan again when it wakes.
WaitSleep(c, s) ==
    /\ Runs(c, s, "wait_scan") /\ Zombies(s) = {}
    /\ Children(s) # {} /\ ~ptable[s].killed
    /\ ptable' = [ptable EXCEPT ![s] = [@ EXCEPT !.state = "SLEEPING", !.chan = s]]
    /\ sched(c)
    /\ UNCHANGED <<nextpid, frame, tickslock, ticks, panicked, stat>>

\* sys_sleep(1): take tickslock, on entry and again after each sleep
SleepStart(c, s) ==
    /\ Calling(c, s, "sleep") /\ tickslock = Free
    /\ frame' = [frame EXCEPT ![s] = [@ EXCEPT !.pc = "sleep_check", !.until = ticks + 1]]
    /\ tickslock' = c
    /\ UNCHANGED <<ptable, nextpid, cpu, ptlock, ticks, panicked, stat>>
SleepAgain(c, s) ==
    /\ Runs(c, s, "sleep_lock") /\ tickslock = Free
    /\ Goto(s, "sleep_check")
    /\ tickslock' = c
    /\ UNCHANGED <<ptable, nextpid, cpu, ptlock, ticks, panicked, stat>>

\* the condition of its loop, and the test of killed
SleepCheck(c, s) ==
    /\ Runs(c, s, "sleep_check")
    /\ IF ticks >= frame[s].until \/ ptable[s].killed
       THEN Goto(s, "sysret") /\ tickslock' = Free
       ELSE Goto(s, "sleep") /\ UNCHANGED tickslock
    /\ UNCHANGED <<ptable, nextpid, cpu, ptlock, ticks, panicked, stat>>

\* sleep(&ticks, &tickslock): ptable.lock is taken before tickslock is released
Sleep(c, s) ==
    /\ Runs(c, s, "sleep") /\ ptlock = Free
    /\ tickslock' = Free
    /\ ptable' = [ptable EXCEPT ![s] = [@ EXCEPT !.state = "SLEEPING", !.chan = TicksChan]]
    /\ Goto(s, "sleep_lock")
    /\ sched(c)
    /\ UNCHANGED <<nextpid, ticks, panicked, stat>>

\* kill and settickets act on the first slot with this pid, whatever its state.
SlotsWithPid(pid) == {q \in Slots : ptable[q].pid = pid}
Kill(c, s, pid) ==
    /\ Calling(c, s, "kill") /\ ptlock = Free
    /\ IF SlotsWithPid(pid) = {}
       THEN UNCHANGED ptable
       ELSE LET q == Least(SlotsWithPid(pid))
            IN  ptable' = [ptable EXCEPT ![q] =
                           [@ EXCEPT !.killed = TRUE,
                                     !.state = IF ptable[q].state = "SLEEPING" THEN "RUNNABLE"
                                               ELSE ptable[q].state]]
    /\ Goto(s, "sysret")
    /\ UNCHANGED <<nextpid, cpu, locks, ticks, panicked, stat>>

sys_settickets(c, s, pid, tickets) ==
    /\ Calling(c, s, "settickets") /\ ptlock = Free
    /\ IF pid < 0 \/ tickets < 0 \/ SlotsWithPid(pid) = {}
       THEN UNCHANGED ptable
       ELSE ptable' = [ptable EXCEPT ![Least(SlotsWithPid(pid))].tickets = tickets]
    /\ Goto(s, "sysret")
    /\ UNCHANGED <<nextpid, cpu, locks, ticks, panicked, stat>>

\* getpinfo fills in the entries of the slots in use
sys_getpinfo(c, s) ==
    /\ Calling(c, s, "getpinfo") /\ ptlock = Free
    /\ stat' = [q \in Slots |-> IF ptable[q].state # "UNUSED" THEN 1 ELSE stat[q]]
    /\ Goto(s, "sysret")
    /\ UNCHANGED <<ptable, nextpid, cpu, locks, ticks, panicked>>

UserCall(c, s) ==
    \/ ForkAlloc(c, s) \/ ExitStart(c, s) \/ WaitLock(c, s)
    \/ SleepStart(c, s)
    \/ \E pid \in 0 .. MaxPid : Kill(c, s, pid)
    \/ \E pid \in -1 .. MaxPid, tickets \in TicketArgs : sys_settickets(c, s, pid, tickets)
    \/ sys_getpinfo(c, s)

KernelStep(c, s) ==
    \/ ForkFails(c, s) \/ ForkCopy(c, s) \/ ForkReady(c, s)
    \/ SysReturn(c, s) \/ ExitPanics(c, s) \/ Exit(c, s)
    \/ WaitReap(c, s) \/ WaitFails(c, s) \/ WaitSleep(c, s)
    \/ SleepAgain(c, s) \/ SleepCheck(c, s) \/ Sleep(c, s)

-----------------------------------------------------------------------------
\* The timer interrupt.

\* Interrupts are on: no lock is held and no handler is running.
Interruptible(c) ==
    /\ panicked = "no" /\ cpu[c].irq = "no" /\ cpu[c].pc \notin {"stamp", "account"}
    /\ ptlock # c /\ tickslock # c

\* CPU 0 counts the tick, the others go on to the end of trap().
TimerTick(c) ==
    /\ c = 0 /\ Interruptible(c) /\ tickslock = Free /\ ticks < MaxTicks
    /\ ticks' = ticks + 1
    /\ tickslock' = c
    /\ cpu' = [cpu EXCEPT ![c].irq = "wake"]
    /\ UNCHANGED <<ptable, nextpid, frame, ptlock, panicked, stat>>
TimerElsewhere(c) ==
    /\ c # 0 /\ Interruptible(c) /\ cpu[c].pc = "proc"
    /\ cpu' = [cpu EXCEPT ![c].irq = "yield"]
    /\ UNCHANGED <<ptable, nextpid, frame, locks, ticks, panicked, stat>>

\* wakeup(&ticks), with tickslock held
TimerWake(c) ==
    /\ panicked = "no" /\ cpu[c].irq = "wake" /\ ptlock = Free
    /\ ptable' = wakeup1(ptable, TicksChan)
    /\ tickslock' = Free
    /\ cpu' = [cpu EXCEPT ![c].irq = IF cpu[c].pc = "proc" THEN "yield" ELSE "no"]
    /\ UNCHANGED <<nextpid, frame, ptlock, ticks, panicked, stat>>

\* the interrupted process, if it has been killed in user space, exits ...
TimerExit(c) ==
    /\ panicked = "no" /\ cpu[c].irq = "yield"
    /\ ptable[cpu[c].proc].killed /\ frame[cpu[c].proc].pc = "user"
    /\ Goto(cpu[c].proc, "exit")
    /\ cpu' = [cpu EXCEPT ![c].irq = "no"]
    /\ UNCHANGED <<ptable, nextpid, locks, ticks, panicked, stat>>

\* ... and otherwise gives up the CPU.
yield(c) ==
    /\ panicked = "no" /\ cpu[c].irq = "yield" /\ ptlock = Free
    /\ ~(ptable[cpu[c].proc].killed /\ frame[cpu[c].proc].pc = "user")
    /\ ptable' = [ptable EXCEPT ![cpu[c].proc].state = "RUNNABLE"]
    /\ sched(c)
    /\ UNCHANGED <<nextpid, frame, tickslock, ticks, panicked, stat>>

trap(c) == TimerWake(c) \/ TimerExit(c) \/ yield(c)

-----------------------------------------------------------------------------

Next ==
    \E c \in CPUs :
        \/ scheduler(c) \/ trap(c) \/ TimerTick(c) \/ TimerElsewhere(c)
        \/ \E s \in Slots : UserCall(c, s) \/ KernelStep(c, s)

\* A CPU never stops executing the kernel; user programs and the timer may do
\* nothing for ever.
Fairness ==
    \A c \in CPUs :
        /\ WF_vars(scheduler(c))
        /\ WF_vars(trap(c))
        /\ WF_vars(\E s \in Slots : KernelStep(c, s))

Spec == Init /\ [][Next]_vars
FairSpec == Spec /\ Fairness

-----------------------------------------------------------------------------

Pcs == {"user", "sysret", "fork_copy", "fork_ready", "exit", "wait_scan",
        "sleep_check", "sleep", "sleep_lock"}

\* Every field holds a value of its C type, and no process has been charged
\* for more ticks than there were.
Proc == [state : PState, pid : 0 .. MaxPid, parent : Slots \cup {Nobody},
         chan : Slots \cup {NoChan, TicksChan}, killed : BOOLEAN,
         tickets : Nat, ticks : 0 .. MaxTicks, init_ticks : 0 .. MaxTicks]
Frame == [pc : Pcs, np : Slots \cup {Nobody}, until : 0 .. MaxTicks + 1]
Cpu == [pc : {"count", "draw", "select", "stamp", "proc", "account"},
        irq : {"no", "wake", "yield"}, proc : Slots \cup {Nobody}, total : Int, winning : Int]
TypeOK ==
    /\ ptable \in [Slots -> Proc] /\ frame \in [Slots -> Frame] /\ cpu \in [CPUs -> Cpu]
    /\ nextpid \in 2 .. MaxPid + 1
    /\ ptlock \in CPUs \cup {Free} /\ tickslock \in CPUs \cup {Free}
    /\ ticks \in 0 .. MaxTicks
    /\ panicked \in {"no", "trap", "init exiting"}
    /\ stat \in [Slots -> {0, 1}]

\* A process is RUNNING exactly when one CPU has it as its process, and no two
\* CPUs have the same: between select and sched() a slot belongs to its CPU.
Executes(c, s) == cpu[c].pc \in {"stamp", "proc"} /\ cpu[c].proc = s
RunningOnOneCPU ==
    /\ \A s \in Slots : ptable[s].state = "RUNNING" <=> \E c \in CPUs : Executes(c, s)
    /\ \A c, d \in CPUs : cpu[c].proc = cpu[d].proc /\ cpu[c].proc # Nobody => c = d

\* Types are kept, and the family tree: identifiers of processes are distinct, and every process
\* but init has a parent that is alive and can still wait for it, whoever
\* exits in whatever order.
Alive == InState({"EMBRYO", "SLEEPING", "RUNNABLE", "RUNNING"})
FamilyTree ==
    /\ TypeOK
    /\ \A s, q \in InState(PState \ {"UNUSED"}) : ptable[s].pid = ptable[q].pid => s = q
    /\ \A s \in InState(PState \ {"UNUSED", "EMBRYO"}) \ {initproc} :
          ptable[s].parent \in Alive

\* Nobody is left asleep: no wakeup is lost between wait() and exit(), so a
\* process asleep in wait() has no child that is a zombie; and on one CPU kill()
\* never leaves its victim asleep, because neither the test of killed and the
\* sleep after it, nor kill's own two steps, can be separated.
NobodyOversleeps ==
    \A s \in InState({"SLEEPING"}) :
        /\ ptable[s].chan = s => Zombies(s) = {}
        /\ NCPU = 1 => ~ptable[s].killed

\* The processes together are charged for no more time than has passed: what
\* they have accumulated and the slices under way fit into the ticks so far.
Charged == {x \in Slots \X (1 .. MaxTicks) : x[2] <= ptable[x[1]].ticks}
UnderWay == {x \in CPUs \X (1 .. MaxTicks) :
                /\ cpu[x[1]].pc \in {"proc", "account"}
                /\ x[2] <= ticks - ptable[cpu[x[1]].proc].init_ticks}
TicksConserved == Cardinality(Charged) + Cardinality(UnderWay) <= NCPU * ticks

\* On one CPU, and as long as the tickets do not overflow an int, the lottery
\* always has a winner when there is a process to run, although the table may
\* change between the count, the draw and the selection.
LotteryHasWinner ==
    \A c \in CPUs : cpu[c].pc = "select" /\ Runnable # {} => Winners(c) # {}

\* The scheduler does not idle: while some process is runnable some process
\* will run (or the kernel has panicked).
NeverIdle == Runnable # {} ~> InState({"RUNNING"}) # {} \/ panicked # "no"

-----------------------------------------------------------------------------

\* What the documentation says and the code does not do: a process gets the CPU
\* "if picked up ticket lies in the range of the tickets of this process"
\* (proc.c), so never one without tickets before one that has some.
WinnerHasTickets ==
    \A c \in CPUs :
        cpu[c].pc = "stamp" /\ (\E s \in Runnable : ptable[s].tickets > 0)
            => ptable[cpu[c].proc].tickets > 0
=============================================================================
