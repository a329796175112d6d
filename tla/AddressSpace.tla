---------------------------- MODULE AddressSpace ----------------------------
(***************************************************************************)
(* Physical pages and address spaces without paging: kalloc.c, vm.c, the   *)
(* memory side of fork, exec, growproc, exit and wait.  A step ends at     *)
(* each kalloc, so processes compete for the last pages in any order; the  *)
(* pages that one deallocuvm or freevm gives back go together.  Sizes and  *)
(* addresses are in words and computed modulo 2^32, here Word.  Variables: *)
(*   kmem   the free pages (which of them kalloc returns is immaterial)    *)
(*   page   what each physical page holds                                  *)
(*   ps     the processes: state, parent, kernel stack, page directory,    *)
(*          size, the call under way and what it is building               *)
(*   image  what each process should find in its memory, page by page      *)
(*   vpanic the message of a panic, or ""                                  *)
(***************************************************************************)
EXTENDS Integers, Sequences, SequencesExt, FiniteSets, FiniteSetsExt

CONSTANTS VProc,            \* process slots 1..n; slot 1 is the first process
          NFRAME, SMALL,    \* physical pages; pages of a small machine
          PGSIZE,           \* words of a page
          NPTENTRIES,       \* entries of a page table
          NKTAB,            \* page tables of the kernel half
          KERNBASE,         \* first kernel address, in words
          Word,             \* size of the address space
          MAXARG,
          ExecImages,       \* the files that exec may be given
          ArgLists,         \* argument lists, as sequences of lengths
          Amounts,          \* sbrk arguments
          MaxCalls          \* calls that a process with a free choice makes

ASSUME AddressSpaceAssumption ==
    /\ {NFRAME, SMALL, PGSIZE, NPTENTRIES, NKTAB, MAXARG} \subseteq Nat \ {0} /\ VProc \subseteq Nat \ {0}
    /\ KERNBASE % (PGSIZE * NPTENTRIES) = 0 /\ 2 * KERNBASE = Word

VARIABLES kmem, page, ps, image, vpanic
spaceVars == <<kmem, page, ps, image, vpanic>>

Frames == 1..NFRAME
Pages == 0 .. (KERNBASE \div PGSIZE) - 1
Tables == 0 .. (KERNBASE \div (PGSIZE * NPTENTRIES)) - 1
PDX(v) == v \div NPTENTRIES
PGROUNDUP(n) == (n + PGSIZE - 1) \div PGSIZE       \* as a number of pages

\* A page directory: its own page (0: none), the kernel's page tables, the
\* page tables of the user half, the mapped pages, and those without PTE_U.
NoDir == [dir |-> 0, ktab |-> {}, tab |-> [t \in Tables |-> 0], pte |-> [v \in Pages |-> 0], guard |-> {}]
NoCall == [op |-> "none", step |-> "user", pd |-> NoDir, child |-> 0, a |-> 0, old |-> 0, to |-> 0, mem |-> 0,
           file |-> 0, seg |-> 0, args |-> <<>>, ret |-> 0]
Unused == [state |-> "UNUSED", parent |-> 0, kstack |-> 0, pgdir |-> NoDir, sz |-> 0, calls |-> 0, k |-> NoCall]

kalloc == CHOOSE f \in kmem : TRUE
NoMemory == kmem = {}
\* kfree of a set of pages: each is filled with junk.
kfree(set) ==
    /\ kmem' = kmem \cup set
    /\ page' = [f \in Frames |-> IF f \in set THEN "junk" ELSE page[f]]
\* Take the page kalloc gives and fill it.
Take(what) == kmem' = kmem \ {kalloc} /\ page' = [page EXCEPT ![kalloc] = what]

InRange(oldsz, newsz) == {v \in Pages : PGROUNDUP(newsz) <= v /\ v * PGSIZE < oldsz}
\* deallocuvm keeps page tables; what it frees, and the directory it leaves.
Freed(pd, oldsz, newsz) == {pd.pte[v] : v \in InRange(oldsz, newsz)} \ {0}
deallocuvm(pd, oldsz, newsz) ==
    [pd EXCEPT !.pte = [v \in Pages |-> IF v \in InRange(oldsz, newsz) THEN 0 ELSE @[v]]]
\* Mutant: the page tables of the user half are forgotten.
freevmNoTables(pd) == ({pd.pte[v] : v \in Pages} \cup pd.ktab \cup {pd.dir}) \ {0}
\* All that freevm frees.
freevm(pd) == ({pd.pte[v] : v \in Pages} \cup {pd.tab[t] : t \in Tables} \cup pd.ktab \cup {pd.dir}) \ {0}

Running(p) == vpanic = "" /\ ps[p].state = "RUNNING"
At(p, step) == Running(p) /\ ps[p].k.step = step
Own(p) == ps[p].k.op = "sbrk"     \* the call changes the process's own directory
PD(p) == IF Own(p) THEN ps[p].pgdir ELSE ps[p].k.pd
WithPD(p, pd) == IF Own(p) THEN [ps EXCEPT ![p].pgdir = pd] ELSE [ps EXCEPT ![p].k.pd = pd]
\* Back in user mode with result r.
Return(table, p, r) == [table EXCEPT ![p].k = [NoCall EXCEPT !.op = ps[p].k.op, !.ret = r]]
Begin(p, op) == [ps EXCEPT ![p].calls = @ + 1, ![p].k = [NoCall EXCEPT !.op = op]]
MayCall(p) == At(p, "user")
Zeros(n) == [i \in 1..n |-> "zero"]

\* userinit: setupkvm and inituvm; the machine has pages 1..n.
SpaceInit(n) ==
    LET first == [NoDir EXCEPT !.dir = 1, !.ktab = 2..(NKTAB + 1), !.tab = [t \in Tables |-> IF t = 0 THEN NKTAB + 2 ELSE 0],
                               !.pte = [v \in Pages |-> IF v = 0 THEN NKTAB + 3 ELSE 0]] IN
    /\ ps = [p \in VProc |-> IF p = 1 THEN [Unused EXCEPT !.state = "RUNNING", !.kstack = NKTAB + 4, !.pgdir = first, !.sz = PGSIZE]
                             ELSE Unused]
    /\ kmem = (NKTAB + 5)..n
    /\ page = [f \in Frames |-> IF f = NKTAB + 3 THEN "initcode" ELSE IF f <= NKTAB + 4 THEN "kernel" ELSE IF f <= n THEN "junk" ELSE "absent"]
    /\ image = [p \in VProc |-> IF p = 1 THEN <<"initcode">> ELSE <<>>]
    /\ vpanic = ""
-----------------------------------------------------------------------------
\* A failed kalloc or mappages: allocuvm takes back what it mapped; then sbrk
\* fails, exec frees the new directory, fork also the child's stack and slot.
bad(p) ==
    LET k == ps[p].k
        mem == {k.mem} \ {0} IN
    CASE k.op = "sbrk" ->
           /\ kfree(mem \cup Freed(PD(p), k.to, k.old))
           /\ ps' = Return(WithPD(p, deallocuvm(PD(p), k.to, k.old)), p, -1)
           /\ UNCHANGED <<image, vpanic>>
      [] k.op = "exec" -> kfree(mem \cup freevm(k.pd)) /\ ps' = Return(ps, p, -1) /\ UNCHANGED <<image, vpanic>>
      [] k.op = "fork" -> /\ kfree(mem \cup freevm(k.pd) \cup {ps[k.child].kstack})
                          /\ ps' = [Return(ps, p, -1) EXCEPT ![k.child] = Unused]
                          /\ UNCHANGED <<image, vpanic>>

\* sbrk, through growproc: growth is a loop of allocuvm, shrinking one step.
\* deallocuvm's result 0 is taken for a failure, after the pages are gone.
growproc(p, n) ==
    LET sz == ps[p].sz
        newsz == (sz + n) % Word IN
    /\ MayCall(p)
    /\ CASE n > 0 /\ newsz >= KERNBASE -> ps' = Return(Begin(p, "sbrk"), p, -1) /\ UNCHANGED <<kmem, page, image>>
         [] n > 0 /\ newsz < KERNBASE ->
              /\ ps' = [Begin(p, "sbrk") EXCEPT ![p].k.step = "page", ![p].k.a = PGROUNDUP(sz), ![p].k.old = sz, ![p].k.to = newsz]
              /\ UNCHANGED <<kmem, page, image>>
         [] n = 0 \/ (n < 0 /\ newsz >= sz) -> ps' = Return(Begin(p, "sbrk"), p, sz) /\ UNCHANGED <<kmem, page, image>>
         [] n < 0 /\ newsz < sz ->
              /\ kfree(Freed(ps[p].pgdir, sz, newsz))
              /\ ps' = [Return(Begin(p, "sbrk"), p, IF newsz = 0 THEN -1 ELSE sz)
                         EXCEPT ![p].pgdir = deallocuvm(@, sz, newsz), ![p].sz = IF newsz = 0 THEN @ ELSE newsz]
              /\ image' = [image EXCEPT ![p] = SubSeq(@, 1, Min({Len(@), PGROUNDUP(newsz)}))]
    /\ UNCHANGED vpanic

\* allocproc takes a slot and a page for the kernel stack.
fork(p) ==
    LET slots == {q \in VProc : ps[q].state = "UNUSED"}
        np == Min(slots) IN
    /\ MayCall(p)
    /\ IF slots = {} \/ NoMemory THEN ps' = Return(Begin(p, "fork"), p, -1) /\ UNCHANGED <<kmem, page>>
       ELSE /\ Take("kernel")
            /\ ps' = [Begin(p, "fork") EXCEPT ![np].state = "EMBRYO", ![np].kstack = kalloc, ![np].calls = ps[p].calls,
                                             ![p].k.child = np, ![p].k.step = "setupkvm"]
    /\ UNCHANGED <<image, vpanic>>

\* exec reads the ELF header before it allocates anything.
exec(p, file, args) ==
    /\ MayCall(p)
    /\ ps' = IF ExecImages[file].elf
             THEN [Begin(p, "exec") EXCEPT ![p].k.step = "setupkvm", ![p].k.file = file, ![p].k.args = args]
             ELSE Return(Begin(p, "exec"), p, -1)
    /\ UNCHANGED <<kmem, page, image, vpanic>>

\* setupkvm: the directory, then the kernel's page tables; then exec goes on
\* with the segments, copyuvm with the first page.
setupkvm(p) ==
    LET pd == ps[p].k.pd
        more == IF pd.dir = 0 THEN [pd EXCEPT !.dir = kalloc] ELSE [pd EXCEPT !.ktab = @ \cup {kalloc}] IN
    /\ At(p, "setupkvm")
    /\ IF NoMemory THEN bad(p)
       ELSE /\ Take("kernel")
            /\ ps' = [ps EXCEPT ![p].k.pd = more,
                                ![p].k.step = IF Cardinality(more.ktab) < NKTAB THEN @
                                              ELSE IF ps[p].k.op = "exec" THEN "segment" ELSE "page",
                                ![p].k.to = IF ps[p].k.op = "fork" THEN ps[p].sz ELSE 0]
            /\ UNCHANGED <<image, vpanic>>

\* Where the loop of allocuvm or copyuvm ends.
LoopEnd(p) ==
    LET k == ps[p].k IN
    CASE k.op = "sbrk" ->
           /\ ps' = [Return(ps, p, k.old) EXCEPT ![p].sz = k.to]
           /\ image' = [image EXCEPT ![p] = @ \o Zeros(PGROUNDUP(k.to) - PGROUNDUP(k.old))]
      [] k.op = "fork" ->
           /\ ps' = [Return(ps, p, k.child) EXCEPT
                       ![k.child] = [@ EXCEPT !.state = "RUNNING", !.parent = p, !.pgdir = k.pd, !.sz = ps[p].sz]]
           /\ image' = [image EXCEPT ![k.child] = image[p]]
      [] k.op = "exec" -> ps' = [ps EXCEPT ![p].k.step = IF k.seg > Len(ExecImages[k.file].segs) THEN "args" ELSE "load"] /\ UNCHANGED image

\* One page: kalloc (zeroed by allocuvm, filled from the parent by copyuvm).
allocPage(p) ==
    LET k == ps[p].k
        src == ps[p].pgdir.pte[k.a] IN
    /\ At(p, "page")
    /\ CASE k.a * PGSIZE >= k.to -> LoopEnd(p) /\ UNCHANGED <<kmem, page, vpanic>>
         [] k.a * PGSIZE < k.to /\ k.op = "fork" /\ src = 0 ->
              vpanic' = "copyuvm: page not present" /\ UNCHANGED <<kmem, page, ps, image>>
         [] k.a * PGSIZE < k.to /\ ~(k.op = "fork" /\ src = 0) ->
              IF NoMemory THEN bad(p)
              ELSE /\ Take(IF k.op = "fork" THEN page[src] ELSE "zero")
                   /\ ps' = [ps EXCEPT ![p].k.mem = kalloc, ![p].k.step = "map"]
                   /\ UNCHANGED <<image, vpanic>>

\* mappages, with the page table that walkpgdir may have to add.
mappages(p) ==
    LET k == ps[p].k
        pd == PD(p)
        t == PDX(k.a)
        mapped(d) == [d EXCEPT !.pte[k.a] = k.mem,
                               !.guard = IF k.op = "fork" /\ k.a \in ps[p].pgdir.guard THEN @ \cup {k.a} ELSE @]
        done(d) == [WithPD(p, d) EXCEPT ![p].k.mem = 0, ![p].k.a = @ + 1, ![p].k.step = "page"] IN
    /\ At(p, "map")
    /\ CASE pd.pte[k.a] # 0 -> vpanic' = "remap" /\ UNCHANGED <<kmem, page, ps, image>>
         [] pd.pte[k.a] = 0 /\ pd.tab[t] # 0 -> ps' = done(mapped(pd)) /\ UNCHANGED <<kmem, page, image, vpanic>>
         [] pd.pte[k.a] = 0 /\ pd.tab[t] = 0 ->
              IF NoMemory THEN bad(p)
              ELSE /\ Take("kernel")
                   /\ ps' = done(mapped([pd EXCEPT !.tab[t] = kalloc]))
                   /\ UNCHANGED <<image, vpanic>>

\* The next program header: its checks, then allocuvm up to its end; after the
\* last one, allocuvm of a guard page and a stack page.
segment(p) ==
    LET k == ps[p].k
        segs == ExecImages[k.file].segs
        ph == segs[k.seg + 1]
        end == (ph.vaddr + ph.memsz) % Word
        grow(to) == [ps EXCEPT ![p].k.step = "page", ![p].k.a = PGROUNDUP(k.to), ![p].k.old = k.to, ![p].k.to = Max({to, k.to})] IN
    /\ At(p, "segment")
    /\ IF k.seg = Len(segs)
       THEN LET sz == PGROUNDUP(k.to) * PGSIZE IN
            IF sz + 2 * PGSIZE >= KERNBASE THEN bad(p)
            ELSE ps' = [grow(sz + 2 * PGSIZE) EXCEPT ![p].k.seg = @ + 1] /\ UNCHANGED <<kmem, page, image, vpanic>>
       ELSE IF ph.memsz < ph.filesz \/ end < ph.vaddr \/ end >= KERNBASE \/ Max({end, k.to}) = 0 THEN bad(p)
       ELSE ps' = grow(end) /\ UNCHANGED <<kmem, page, image, vpanic>>

\* loaduvm, after the check that the segment starts on a page.
loaduvm(p) ==
    LET k == ps[p].k
        f == ExecImages[k.file]
        ph == f.segs[k.seg + 1]
        vs == {v \in Pages : ph.vaddr <= v * PGSIZE /\ v * PGSIZE < ph.vaddr + ph.filesz} IN
    /\ At(p, "load")
    /\ IF ph.vaddr % PGSIZE # 0 \/ ph.filesz > f.len THEN bad(p)
       ELSE IF \E v \in vs : k.pd.tab[PDX(v)] = 0
       THEN vpanic' = "loaduvm: address should exist" /\ UNCHANGED <<kmem, page, ps, image>>
       ELSE /\ page' = [x \in Frames |-> IF \E v \in vs : k.pd.pte[v] = x THEN f.name ELSE page[x]]
            /\ ps' = [ps EXCEPT ![p].k.seg = @ + 1, ![p].k.step = "segment"]
            /\ UNCHANGED <<kmem, image, vpanic>>

\* copyout writes user pages only: not the guard page below the stack, and not
\* the kernel half, where an address below 0 ends.
copyout(pd, va, len) ==
    /\ va >= 0
    /\ \A v \in (va \div PGSIZE)..((va + len - 1) \div PGSIZE) : pd.pte[v] # 0 /\ v \notin pd.guard

\* The image a program file describes: its segments, a guard page and a stack.
Described(f) ==
    LET end == Max({0} \cup {s.vaddr + s.memsz : s \in Range(f.segs)})
        loaded(v) == \E s \in Range(f.segs) : s.vaddr <= v * PGSIZE /\ v * PGSIZE < s.vaddr + s.filesz IN
    [i \in 1..PGROUNDUP(end) |-> IF loaded(i - 1) THEN f.name ELSE "zero"] \o <<"zero", "args">>

\* The arguments go on the stack, each below the last, then their addresses;
\* then exec commits to the new image and frees the old one.
execArgs(p) ==
    LET k == ps[p].k
        pd == [k.pd EXCEPT !.guard = {(k.to \div PGSIZE) - 2}]
        argc == Len(k.args)
        sp(i) == FoldLeft(LAMBDA a, n : a - n, k.to, SubSeq(k.args, 1, i))
        stack == pd.pte[(k.to \div PGSIZE) - 1]
        fits == /\ argc <= MAXARG
                /\ \A i \in 1..argc : copyout(pd, sp(i), k.args[i])
                /\ copyout(pd, sp(argc) - (argc + 4), argc + 4) IN
    /\ At(p, "args")
    /\ IF ~fits THEN bad(p)
       ELSE /\ kmem' = kmem \cup freevm(ps[p].pgdir)
            /\ page' = [f \in Frames |-> IF f \in freevm(ps[p].pgdir) THEN "junk" ELSE IF f = stack THEN "args" ELSE page[f]]
            /\ ps' = [Return(ps, p, 0) EXCEPT ![p].pgdir = pd, ![p].sz = k.to]
            /\ image' = [image EXCEPT ![p] = Described(ExecImages[k.file])]
            /\ UNCHANGED vpanic

Mark(p) == ToString(p)
\* A user instruction that writes to one of its pages.
store(p, v) ==
    LET f == ps[p].pgdir.pte[v] IN
    /\ At(p, "user") /\ v * PGSIZE < ps[p].sz /\ f # 0 /\ v \notin ps[p].pgdir.guard
    /\ page[f] # Mark(p) /\ page' = [page EXCEPT ![f] = Mark(p)]
    /\ image' = IF v < Len(image[p]) THEN [image EXCEPT ![p][v + 1] = Mark(p)] ELSE image
    /\ UNCHANGED <<kmem, ps, vpanic>>

exit(p) ==
    /\ At(p, "user") /\ p # 1
    /\ ps' = [q \in VProc |-> IF q = p THEN [ps[p] EXCEPT !.state = "ZOMBIE"]
                              ELSE IF ps[q].parent = p THEN [ps[q] EXCEPT !.parent = 1] ELSE ps[q]]
    /\ UNCHANGED <<kmem, page, image, vpanic>>

\* wait frees a zombie's stack and address space.
wait(p) ==
    \E q \in VProc :
      /\ At(p, "user") /\ ps[q].state = "ZOMBIE" /\ ps[q].parent = p
      /\ kfree(freevm(ps[q].pgdir) \cup {ps[q].kstack})
      /\ ps' = [ps EXCEPT ![q] = Unused]
      /\ image' = [image EXCEPT ![q] = <<>>]
      /\ UNCHANGED vpanic

Call(p) ==
    \/ /\ ps[p].calls < MaxCalls
       /\ \/ \E n \in Amounts : growproc(p, n)
          \/ fork(p)
          \/ \E f \in DOMAIN ExecImages, args \in ArgLists : exec(p, f, args)
    \/ exit(p) \/ wait(p)
    \/ \E v \in Pages : store(p, v)

KernelStep(p) == setupkvm(p) \/ allocPage(p) \/ mappages(p) \/ segment(p) \/ loaduvm(p) \/ execArgs(p)
-----------------------------------------------------------------------------
\* Where a physical page is in use.
Places(f) ==
    LET InDir(pd) == {<<"dir">> : x \in {pd.dir} \cap {f}} \cup {<<"ktab">> : x \in pd.ktab \cap {f}}
                     \cup {<<"tab", t>> : t \in {u \in Tables : pd.tab[u] = f}}
                     \cup {<<"pte", v>> : v \in {w \in Pages : pd.pte[w] = f}} IN
    {<<"free">> : x \in kmem \cap {f}}
    \cup UNION {{<<p, "kstack">> : x \in {ps[p].kstack} \cap {f}} \cup {<<p, "mem">> : x \in {ps[p].k.mem} \cap {f}}
                \cup {<<p, "now", x>> : x \in InDir(ps[p].pgdir)} \cup {<<p, "next", x>> : x \in InDir(ps[p].k.pd)} : p \in VProc}

\* Every physical page is on the free list or in exactly one use, at every
\* kalloc of every fork, exec and sbrk, whichever of them runs out of memory:
\* nothing leaks on a failure path and nothing is freed twice.
PageOwnedOnce == \A f \in Frames : page[f] # "absent" => Cardinality(Places(f)) = 1

\* A process whose sbrk(-size) "failed": its pages are gone, its size is not.
Hollow(p) == ps[p].sz > 0 /\ ps[p].pgdir.pte[0] = 0

\* A process in user mode has exactly the pages below its size and finds in
\* them what it put there or its parent had at the fork; new pages are zero;
\* failed calls change nothing; other processes' stores are never seen.
PrivateMemory ==
    \A p \in VProc : ps[p].state = "RUNNING" /\ ps[p].k.step = "user" /\ ~Hollow(p) =>
      /\ Len(image[p]) = PGROUNDUP(ps[p].sz)
      /\ \A v \in Pages : IF v < Len(image[p]) THEN page[ps[p].pgdir.pte[v]] = image[p][v + 1]
                          ELSE ps[p].pgdir.pte[v] = 0

\* No address space operation panics, but for the fork of a process that
\* shrank to size zero.
PanicsOnlyWhenHollow ==
    vpanic # "" => vpanic = "copyuvm: page not present" /\ \E p \in VProc : Hollow(p) /\ ps[p].k.op = "fork"
=============================================================================
