------------------------------ MODULE Spinlock ------------------------------
(***************************************************************************)
(* Spin locks and interrupts (spinlock.c): acquire and release in their    *)
(* single steps, pushcli and popcli, and handlers that take locks too.     *)
(* A processor runs a kernel thread; an interrupt runs the handler on top  *)
(* of it, with interrupts off, and returns to it.  Variables:              *)
(*   lk    the locks: locked, and the processor in the cpu field (0: none) *)
(*   cpu   the processors: interrupt flag, ncli, intena, and the stack of  *)
(*         activities, each with the operations left, its step and the     *)
(*         flags it read                                                   *)
(*   rounds how often each processor has run its thread and taken an       *)
(*         interrupt;  spanic  the message of a panic, or ""               *)
(***************************************************************************)
EXTENDS Integers, FiniteSets, Sequences, SequencesExt

CONSTANTS CPU,               \* processors, positive numbers
          ThreadLocks, HandlerLocks,  \* locks that threads and handlers take, in order
          MaxRounds

\* No activity takes a lock it already holds: acquire would panic.
ASSUME SpinlockAssumption ==
    /\ CPU \subseteq Nat \ {0} /\ MaxRounds \in Nat
    /\ \A s \in {ThreadLocks, HandlerLocks} : s \in Seq(Range(s)) /\ IsInjective(s)

VARIABLES lk, cpu, rounds, spanic
spinVars == <<lk, cpu, rounds, spanic>>

Locks == Range(ThreadLocks) \cup Range(HandlerLocks)
\* Take the locks in order and release them in the opposite order.
Use(locks) == [i \in 1..Len(locks) |-> <<"acquire", locks[i]>>]
              \o [i \in 1..Len(locks) |-> <<"release", locks[Len(locks) + 1 - i]>>]
FirstStep(ops) == IF ops = <<>> THEN "end" ELSE IF Head(ops)[1] = "acquire" THEN "readeflags" ELSE "holding"
\* handler: the activity is an interrupt handler, on top of what it interrupted.
Activity(ops, handler) == [ops |-> ops, step |-> FirstStep(ops), eflags |-> FALSE, handler |-> handler]

SpinInit ==
    /\ lk = [l \in Locks |-> [locked |-> FALSE, cpu |-> 0]]
    /\ cpu = [c \in CPU |-> [FL_IF |-> TRUE, ncli |-> 0, intena |-> FALSE, stack |-> <<>>]]
    /\ rounds = [c \in CPU |-> 0]
    /\ spanic = ""

Current(c) == Head(cpu[c].stack)
Does(c, op, step) == spanic = "" /\ cpu[c].stack # <<>> /\ Current(c).step = step /\ Head(Current(c).ops)[1] = op
LockOf(c) == Head(Current(c).ops)[2]
\* Processor c with a as its current activity; that activity at another step,
\* and at its next operation.
With(c, a) == [cpu[c] EXCEPT !.stack = [@ EXCEPT ![1] = a]]
At(c, step) == [Current(c) EXCEPT !.step = step]
NextOp(c) == LET ops == Tail(Current(c).ops) IN [Current(c) EXCEPT !.ops = ops, !.step = FirstStep(ops)]
GoTo(c, step) == [cpu EXCEPT ![c] = With(c, At(c, step))]
holding(c, l) == lk[l].locked /\ lk[l].cpu = c
-----------------------------------------------------------------------------
\* pushcli reads the flags before it turns interrupts off.
readeflags(c) ==
    /\ Does(c, "acquire", "readeflags")
    /\ cpu' = [cpu EXCEPT ![c] = With(c, [At(c, "cli") EXCEPT !.eflags = cpu[c].FL_IF])]
    /\ UNCHANGED <<lk, rounds, spanic>>

\* Mutant: the flags are kept as they are once interrupts are off.
pushcliLate(c) ==
    /\ Does(c, "acquire", "cli")
    /\ cpu' = [cpu EXCEPT ![c] = [With(c, At(c, "check")) EXCEPT
                    !.FL_IF = FALSE, !.ncli = @ + 1, !.intena = IF cpu[c].ncli = 0 THEN FALSE ELSE @]]
    /\ UNCHANGED <<lk, rounds, spanic>>
pushcli(c) ==
    /\ Does(c, "acquire", "cli")
    /\ cpu' = [cpu EXCEPT ![c] = [With(c, At(c, "check")) EXCEPT
                    !.FL_IF = FALSE, !.ncli = @ + 1, !.intena = IF cpu[c].ncli = 0 THEN Current(c).eflags ELSE @]]
    /\ UNCHANGED <<lk, rounds, spanic>>

acquireCheck(c) ==
    /\ Does(c, "acquire", "check")
    /\ spanic' = IF holding(c, LockOf(c)) THEN "acquire" ELSE ""
    /\ cpu' = GoTo(c, "xchg")
    /\ UNCHANGED <<lk, rounds>>

\* The loop around xchg ends when the lock was free.
xchg(c) ==
    /\ Does(c, "acquire", "xchg") /\ ~lk[LockOf(c)].locked
    /\ lk' = [lk EXCEPT ![LockOf(c)].locked = TRUE]
    /\ cpu' = GoTo(c, "own")
    /\ UNCHANGED <<rounds, spanic>>

acquired(c) ==
    /\ Does(c, "acquire", "own")
    /\ lk' = [lk EXCEPT ![LockOf(c)].cpu = c]
    /\ cpu' = [cpu EXCEPT ![c] = With(c, NextOp(c))]
    /\ UNCHANGED <<rounds, spanic>>
-----------------------------------------------------------------------------
releaseCheck(c) ==
    /\ Does(c, "release", "holding")
    /\ spanic' = IF holding(c, LockOf(c)) THEN "" ELSE "release"
    /\ cpu' = GoTo(c, "clear")
    /\ UNCHANGED <<lk, rounds>>

releaseClear(c) ==
    /\ Does(c, "release", "clear")
    /\ lk' = [lk EXCEPT ![LockOf(c)].cpu = 0]
    /\ cpu' = GoTo(c, "unlock")
    /\ UNCHANGED <<rounds, spanic>>

releaseUnlock(c) ==
    /\ Does(c, "release", "unlock")
    /\ lk' = [lk EXCEPT ![LockOf(c)].locked = FALSE]
    /\ cpu' = GoTo(c, "popcli")
    /\ UNCHANGED <<rounds, spanic>>

popcli(c) ==
    /\ Does(c, "release", "popcli")
    /\ spanic' = CASE cpu[c].FL_IF -> "popcli - interruptible" [] cpu[c].ncli < 1 -> "popcli" [] OTHER -> ""
    /\ cpu' = [cpu EXCEPT ![c] = [With(c, NextOp(c)) EXCEPT
                    !.ncli = @ - 1, !.FL_IF = cpu[c].ncli = 1 /\ cpu[c].intena]]
    /\ UNCHANGED <<lk, rounds>>
-----------------------------------------------------------------------------
thread(c) ==
    /\ cpu[c].stack = <<>> /\ rounds[c] < MaxRounds /\ spanic = ""
    /\ rounds' = [rounds EXCEPT ![c] = @ + 1]
    /\ cpu' = [cpu EXCEPT ![c].stack = <<Activity(Use(ThreadLocks), FALSE)>>]
    /\ UNCHANGED <<lk, spanic>>

\* The gate of an interrupt turns interrupts off, and its return on again.
interrupt(c) ==
    /\ cpu[c].FL_IF /\ rounds[c] < MaxRounds /\ spanic = ""
    /\ rounds' = [rounds EXCEPT ![c] = @ + 1]
    /\ cpu' = [cpu EXCEPT ![c] = [cpu[c] EXCEPT
                    !.FL_IF = FALSE, !.stack = <<Activity(Use(HandlerLocks), TRUE)>> \o cpu[c].stack]]
    /\ UNCHANGED <<lk, spanic>>

\* The thread ends, or the handler returns to what it interrupted.
iret(c) ==
    /\ cpu[c].stack # <<>> /\ Current(c).step = "end" /\ spanic = ""
    /\ cpu' = [cpu EXCEPT ![c] = [cpu[c] EXCEPT
                    !.stack = Tail(cpu[c].stack), !.FL_IF = Current(c).handler \/ cpu[c].FL_IF]]
    /\ UNCHANGED <<lk, rounds, spanic>>

SpinNext ==
    \E c \in CPU : \/ readeflags(c) \/ pushcli(c) \/ acquireCheck(c) \/ xchg(c) \/ acquired(c)
                   \/ releaseCheck(c) \/ releaseClear(c) \/ releaseUnlock(c) \/ popcli(c)
                   \/ thread(c) \/ interrupt(c) \/ iret(c)
SpinSpec == SpinInit /\ [][SpinNext]_spinVars
-----------------------------------------------------------------------------
\* Activity a has the lock l: it is past its xchg and not past the store that
\* gives the lock back.
Holds(a, l) ==
    LET Ahead(op) == \E i \in DOMAIN a.ops : a.ops[i] = <<op, l>>
        AtHead(op, step) == a.ops # <<>> /\ Head(a.ops) = <<op, l>> /\ a.step = step IN
    /\ Ahead("release") /\ ~AtHead("release", "popcli")
    /\ Ahead("acquire") => AtHead("acquire", "own")
Holders(l) == {h \in {<<c, i>> : c \in CPU, i \in 1..2} : h[2] <= Len(cpu[h[1]].stack) /\ Holds(cpu[h[1]].stack[h[2]], l)}

\* However threads, handlers and processors interleave in the single steps of
\* acquire and release, a lock has one holder exactly when its word says locked,
\* no processor spins on a lock that the thread it interrupted holds, none of the
\* checks in acquire, release and popcli panics, and interrupts are on again,
\* with no pushcli left over, when a processor has released everything.
NoSelfDeadlock ==
    /\ spanic = ""
    /\ \A l \in Locks : Cardinality(Holders(l)) = IF lk[l].locked THEN 1 ELSE 0
    /\ \A c \in CPU : cpu[c].stack # <<>> /\ Current(c).step = "xchg" =>
         \A i \in 2..Len(cpu[c].stack) : <<c, i>> \notin Holders(LockOf(c))
    /\ \A c \in CPU : cpu[c].stack = <<>> => cpu[c].FL_IF /\ cpu[c].ncli = 0
=============================================================================
