-------------------------------- MODULE Boot --------------------------------
(***************************************************************************)
(* Starting the machine (main.c, mp.c, lapic.c, ioapic.c, kalloc.c): the   *)
(* boot processor reads the table of processors, starts the others one by  *)
(* one through three words below their entry code, completes the page      *)
(* allocator and makes the first process.  Processors are APIC IDs.        *)
(*   mptab   entries of the MP table still to be read                      *)
(*   cpus    the processors of the table, in order (at most NCPU)          *)
(*   main    the boot processor's place in main;  nextc  loop of startothers *)
(*   word    the words at code-4 and code-12: stack and page directory     *)
(*   ap      per processor: where it is, its page directory and stack      *)
(*   bstarted the started flags;  irq  routes of the device interrupts     *)
(*   pages   the free list, as a sequence;  uselock  kmem.use_lock         *)
(*   alloc   processors inside kalloc or kfree;  owned  pages in use       *)
(*   bootpanic a panic's message, or ""                                    *)
(***************************************************************************)
EXTENDS Integers, Sequences, SequencesExt

CONSTANTS Tables,          \* MP tables: sequences of entries <<kind, id>>
          Machine, Bsp,    \* APIC IDs of the processors, and the boot processor's
          NCPU,            \* length of cpus[]
          LowPages, Pages  \* pages 1..LowPages lie in the 4 MB that entrypgdir maps

Kinds == {"proc", "ioapic", "bus", "unknown"}
\* A table lists no processor twice.  The low memory has a page for the kernel's
\* page table and a stack for every processor, and it is not all there is.
ASSUME BootAssumption ==
    /\ Bsp \in Machine /\ Machine \subseteq Nat
    /\ NCPU \in Nat /\ LowPages \in Nat /\ Pages \in Nat /\ NCPU < LowPages /\ LowPages < Pages
    /\ \A t \in Tables :
         /\ t \in Seq(Kinds \X Machine)
         /\ \A i, j \in DOMAIN t : t[i][1] = "proc" /\ t[j] = t[i] => j = i

VARIABLES mptab, cpus, main, nextc, word, ap, bstarted, irq, pages, uselock, alloc, owned, bootpanic
bootVars == <<mptab, cpus, main, nextc, word, ap, bstarted, irq, pages, uselock, alloc, owned, bootpanic>>

BootInit ==
    /\ mptab \in Tables /\ cpus = <<>> /\ main = "kinit1" /\ nextc = 1
    /\ word = [stack |-> 0, pgdir |-> "none"]
    /\ ap = [c \in Machine |-> [pc |-> IF c = Bsp THEN "main" ELSE "halted", pgdir |-> "entrypgdir", stack |-> 0]]
    /\ bstarted = {} /\ irq = <<>> /\ pages = <<>> /\ uselock = FALSE /\ alloc = {} /\ owned = {} /\ bootpanic = ""

MainAt(step) == main = step /\ bootpanic = ""
\* mycpu finds the processor's entry by its APIC ID, or panics.
mycpuPanic(c) == IF \E i \in DOMAIN cpus : cpus[i] = c THEN "" ELSE "unknown apicid"
\* freerange frees the pages from a to b: the last one is the first to be taken.
freerange(a, b) == [i \in 1..(b - a + 1) |-> b + 1 - i] \o pages
-----------------------------------------------------------------------------
kinit1 ==
    /\ MainAt("kinit1") /\ main' = "kvmalloc"
    /\ pages' = freerange(1, LowPages) /\ uselock' = FALSE
    /\ UNCHANGED <<mptab, cpus, nextc, word, ap, bstarted, irq, alloc, owned, bootpanic>>

\* The kernel's page table, in a page of its own; it maps all of memory.
kvmalloc ==
    /\ MainAt("kvmalloc") /\ main' = "mpinit"
    /\ pages' = Tail(pages) /\ owned' = owned \cup {Head(pages)}
    /\ ap' = [ap EXCEPT ![Bsp].pgdir = "kpgdir"]
    /\ UNCHANGED <<mptab, cpus, nextc, word, bstarted, irq, uselock, alloc, bootpanic>>

\* One round of mpinit's loop.  An entry of unknown kind is not skipped: the
\* break leaves the switch only, and the loop looks at it again for ever.
mpinit ==
    /\ MainAt("mpinit") /\ mptab # <<>> /\ Head(mptab)[1] # "unknown"
    /\ mptab' = Tail(mptab)
    /\ cpus' = IF Head(mptab)[1] = "proc" /\ Len(cpus) < NCPU THEN Append(cpus, Head(mptab)[2]) ELSE cpus
    /\ UNCHANGED <<main, nextc, word, ap, bstarted, irq, pages, uselock, alloc, owned, bootpanic>>

\* seginit looks up its processor; the devices' interrupts are enabled:
\* keyboard and serial line at APIC 0, the disk at the number of the last cpu.
devices ==
    /\ MainAt("mpinit") /\ mptab = <<>> /\ main' = "startothers"
    /\ bootpanic' = mycpuPanic(Bsp)
    /\ irq' = <<0, 0, Len(cpus) - 1>>
    /\ UNCHANGED <<mptab, cpus, nextc, word, ap, bstarted, pages, uselock, alloc, owned>>
-----------------------------------------------------------------------------
\* The loop of startothers: write the words, send the STARTUP, wait.
startSkip ==
    /\ MainAt("startothers") /\ nextc \in DOMAIN cpus /\ cpus[nextc] = Bsp
    /\ nextc' = nextc + 1
    /\ UNCHANGED <<mptab, cpus, main, word, ap, bstarted, irq, pages, uselock, alloc, owned, bootpanic>>
startWords ==
    /\ MainAt("startothers") /\ nextc \in DOMAIN cpus /\ cpus[nextc] # Bsp
    /\ pages' = Tail(pages) /\ owned' = owned \cup {Head(pages)}
    /\ word' = [stack |-> Head(pages), pgdir |-> "entrypgdir"]
    /\ main' = "lapicstartap"
    /\ UNCHANGED <<mptab, cpus, nextc, ap, bstarted, irq, uselock, alloc, bootpanic>>
\* The second STARTUP finds the processor running and is ignored.
lapicstartap ==
    /\ MainAt("lapicstartap") /\ main' = "wait"
    /\ ap' = [ap EXCEPT ![cpus[nextc]].pc = IF ap[cpus[nextc]].pc = "halted" THEN "start" ELSE @]
    /\ UNCHANGED <<mptab, cpus, nextc, word, bstarted, irq, pages, uselock, alloc, owned, bootpanic>>
\* Mutant: the next processor is started without waiting for this one.
waitStartedNot ==
    /\ MainAt("wait")
    /\ main' = "startothers" /\ nextc' = nextc + 1
    /\ UNCHANGED <<mptab, cpus, word, ap, bstarted, irq, pages, uselock, alloc, owned, bootpanic>>
waitStarted ==
    /\ MainAt("wait") /\ cpus[nextc] \in bstarted
    /\ main' = "startothers" /\ nextc' = nextc + 1
    /\ UNCHANGED <<mptab, cpus, word, ap, bstarted, irq, pages, uselock, alloc, owned, bootpanic>>

\* kinit2 frees the rest of memory without the lock and then turns it on.
kinit2 ==
    /\ MainAt("startothers") /\ nextc \notin DOMAIN cpus /\ main' = "use_lock"
    /\ pages' = freerange(LowPages + 1, Pages)
    /\ UNCHANGED <<mptab, cpus, nextc, word, ap, bstarted, irq, uselock, alloc, owned, bootpanic>>
kinit2Lock ==
    /\ MainAt("use_lock") /\ main' = "userinit" /\ uselock' = TRUE
    /\ UNCHANGED <<mptab, cpus, nextc, word, ap, bstarted, irq, pages, alloc, owned, bootpanic>>
userinit ==
    /\ MainAt("userinit") /\ main' = "mpmain"
    /\ pages' = Tail(pages) /\ owned' = owned \cup {Head(pages)}
    /\ UNCHANGED <<mptab, cpus, nextc, word, ap, bstarted, irq, uselock, alloc, bootpanic>>
\* mpmain on the boot processor: it schedules like the others from here on.
bspMpmain ==
    /\ MainAt("mpmain") /\ main' = "scheduler"
    /\ bstarted' = bstarted \cup {Bsp} /\ ap' = [ap EXCEPT ![Bsp].pc = "scheduler"]
    /\ UNCHANGED <<mptab, cpus, nextc, word, irq, pages, uselock, alloc, owned, bootpanic>>
-----------------------------------------------------------------------------
Ap(c, from, to) == bootpanic = "" /\ ap[c].pc = from /\ ap' = [ap EXCEPT ![c].pc = to]
\* entryother.S: the page directory first, then the stack, then mpenter.
start32(c) ==
    /\ bootpanic = "" /\ ap[c].pc = "start"
    /\ ap' = [ap EXCEPT ![c] = [pc |-> "esp", pgdir |-> word.pgdir, stack |-> 0]]
    /\ UNCHANGED <<mptab, cpus, main, nextc, word, bstarted, irq, pages, uselock, alloc, owned, bootpanic>>
loadStack(c) ==
    /\ bootpanic = "" /\ ap[c].pc = "esp"
    /\ ap' = [ap EXCEPT ![c] = [pc |-> "mpenter", pgdir |-> ap[c].pgdir, stack |-> word.stack]]
    /\ UNCHANGED <<mptab, cpus, main, nextc, word, bstarted, irq, pages, uselock, alloc, owned, bootpanic>>
mpenter(c) ==
    /\ bootpanic = "" /\ ap[c].pc = "mpenter"
    /\ ap' = [ap EXCEPT ![c] = [pc |-> "mpmain", pgdir |-> "kpgdir", stack |-> ap[c].stack]]
    /\ bootpanic' = mycpuPanic(c)
    /\ UNCHANGED <<mptab, cpus, main, nextc, word, bstarted, irq, pages, uselock, alloc, owned>>
mpmain(c) ==
    /\ Ap(c, "mpmain", "scheduler")
    /\ bstarted' = bstarted \cup {c}
    /\ UNCHANGED <<mptab, cpus, main, nextc, word, irq, pages, uselock, alloc, owned, bootpanic>>

\* Once there is a process, a processor may run it, and it may allocate.
kallocIn(c) ==
    /\ Ap(c, "scheduler", "kalloc") /\ main \in {"mpmain", "scheduler"}
    /\ pages # <<>> /\ (uselock => alloc = {})
    /\ alloc' = alloc \cup {c}
    /\ UNCHANGED <<mptab, cpus, main, nextc, word, bstarted, irq, pages, uselock, owned, bootpanic>>
kallocOut(c) ==
    /\ Ap(c, "kalloc", "scheduler")
    /\ pages' = Tail(pages) /\ owned' = owned \cup {Head(pages)} /\ alloc' = alloc \ {c}
    /\ UNCHANGED <<mptab, cpus, main, nextc, word, bstarted, irq, uselock, bootpanic>>

BootNext ==
    \/ kinit1 \/ kvmalloc \/ mpinit \/ devices \/ startSkip \/ startWords \/ lapicstartap \/ waitStarted
    \/ kinit2 \/ kinit2Lock \/ userinit \/ bspMpmain
    \/ \E c \in Machine : start32(c) \/ loadStack(c) \/ mpenter(c) \/ mpmain(c) \/ kallocIn(c) \/ kallocOut(c)
BootSpec == BootInit /\ [][BootNext]_bootVars
-----------------------------------------------------------------------------
\* Whatever the table lists and however the started processors proceed, each
\* runs on a stack of its own, which nothing else uses and which it can reach
\* with the page directory it has; no two are in the allocator at once; a panic
\* means that the boot processor is missing from the first NCPU entries; and with
\* APIC IDs counted from 0 every device interrupt goes to a processor that runs.
EachOnItsOwnStack ==
    /\ \A c \in Machine : ap[c].stack # 0 =>
         /\ ap[c].stack \in owned \ Range(pages)
         /\ ap[c].pgdir = "kpgdir" \/ ap[c].stack <= LowPages
         /\ \A d \in Machine \ {c} : ap[d].stack # ap[c].stack
    /\ \A c, d \in alloc : c = d
    /\ bootpanic # "" => Bsp \notin Range(cpus) /\ main = "startothers"
    /\ irq # <<>> /\ bootpanic = "" /\ Range(cpus) = 0..(Len(cpus) - 1) => Range(irq) \subseteq Range(cpus)
    /\ main = "scheduler" => Range(cpus) = bstarted
=============================================================================
