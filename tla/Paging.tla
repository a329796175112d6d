------------------------------- MODULE Paging -------------------------------
(***************************************************************************)
(* Demand paging of offline_4/xv6: the page tables of a process and of the *)
(* child it may fork, the FIFO queues of their pages in physical memory,   *)
(* their swap files, and the free frames.  The first process starts as     *)
(* exec leaves it; processes grow and shrink with sbrk, read and write     *)
(* their pages, call exec, and exit.  An access to a page in the swap file *)
(* faults and is retried when the handler returns.                         *)
(*                                                                         *)
(* The queue is linked through the entries of pagesInPhyMem; a pointer is  *)
(* <<process, index>>, because after a fork it may lead into the array of  *)
(* the other process.  A system call or a fault is one step.  A page holds *)
(* one value; nPagesInSwapFile, which the code only prints, is left out.   *)
(*                                                                         *)
(* The code never flushes the TLB when a page leaves memory.  A context    *)
(* switch does, hence every write of the swap file that sleeps; after one  *)
(* that does not (a memory disk, or another process in a transaction), the *)
(* process can go on using the frame of a page that is gone.               *)
(***************************************************************************)
EXTENDS Integers, Sequences, FiniteSets, SequencesExt

CONSTANTS MAX_PSYC_PAGES,   \* length of the queue and of the swap file, in pages
          NPages,           \* bound: pages of the address space
          Image,            \* pages of the program that runs first
          Images,           \* pages of the programs that exec may load
          MaxGrow,          \* bound: pages of one sbrk
          MaxUndo,          \* bound: how often pages are given back or exec is called; exec once more
          MaxAfterFork,     \* bound: steps after a fork
          NFrames,          \* physical pages that kalloc can hand out
          Value,            \* what a page may hold
          Zero              \* a page that was cleared

ASSUME PagingAssumption ==
    /\ MAX_PSYC_PAGES \in Nat \ {0} /\ NPages \in Nat /\ MaxGrow \in Nat /\ MaxUndo \in Nat /\ MaxAfterFork \in Nat
    /\ Image \in 1 .. MAX_PSYC_PAGES /\ Image <= NPages /\ Images \subseteq 1 .. NPages
    /\ NFrames \in Nat /\ 3 * NPages <= NFrames
    /\ Zero \in Value

VARIABLES
    m,          \* page tables, paging fields of struct proc and memory: see TypeOK
    tlb,        \* <<p, a, f>>: p may still reach frame f as page a, which has left it
    image,      \* pages of the program the first process runs
    sz,         \* sz[p]: p->sz, in pages
    state,      \* state[p]: "unused", "user", "dead"
    panicked,   \* the kernel has panicked, or its list of free frames is overwritten
    wrote,      \* wrote[p][a]: what process p last wrote to page a
    undone,     \* how often pages were taken away from a process, or exec called
    history,    \* what the processes have done: "shrunk", "execfailed", "forked", "stale" (a
                \* write to a page that was gone)
    after       \* steps since the fork

vars == <<m, tlb, image, sz, state, panicked, wrote, undone, history, after>>

Parent == 1
Child == 2
Procs == {Parent, Child}
Page == 0 .. NPages - 1
Slots == 1 .. MAX_PSYC_PAGES
Frame == 1 .. NFrames
Low == 0                    \* the physical page at address 0, which kalloc never hands out
Physical == Frame \cup {Low}
Null == <<>>                \* a null pointer
Junk == "junk"              \* what kfree leaves in a page

\* An entry of the page table: [p |-> PTE_P, pg |-> PTE_PG, f |-> PTE_ADDR].  An
\* entry without an address has address 0.
NoPte == [p |-> FALSE, pg |-> FALSE, f |-> Low]
Present(f) == [p |-> TRUE, pg |-> FALSE, f |-> f]
Swapped == [p |-> FALSE, pg |-> TRUE, f |-> Low]

FreeEntry == [address |-> 0, next |-> Null, in_use |-> FALSE]
FreeSlot == [in_use |-> FALSE, address |-> 0]
NoTable == [a \in Page |-> NoPte]
\* The metadata that allocproc and exec clear, and an empty swap file.
NoMeta == [pte |-> NoTable, ent |-> [i \in Slots |-> FreeEntry], head |-> Null, nPagesInPhyMemory |-> 0,
           slot |-> [i \in Slots |-> FreeSlot], file |-> [i \in Slots |-> Zero]]
-----------------------------------------------------------------------------
Panic(s) == [s EXCEPT !.panic = TRUE]

\* The entries of a queue, from its head to its tail.
Steps == 1 .. 2 * MAX_PSYC_PAGES
Follow(s, e) == IF e = Null THEN Null ELSE s.proc[e[1]].ent[e[2]].next
Queue(s, p) ==
    LET entry[k \in Steps] == IF k = 1 THEN s.proc[p].head ELSE Follow(s, entry[k - 1])
    IN  [k \in 1 .. Cardinality({j \in Steps : entry[j] # Null}) |-> entry[k]]

\* Appends a page at the tail of the queue, in the first entry of the process's
\* own array that is free; without one the page is left out.
FreeEntries(s, p) == {i \in Slots : ~s.proc[p].ent[i].in_use}
Linked(s, p, e) ==
    IF s.proc[p].head = Null THEN [s EXCEPT !.proc[p].head = e]
    ELSE LET tail == Last(Queue(s, p)) IN [s EXCEPT !.proc[tail[1]].ent[tail[2]].next = e]
Filled(s, p, i, a) ==
    [s EXCEPT !.proc[p] = [@ EXCEPT !.ent[i] = [address |-> a, next |-> Null, in_use |-> TRUE],
                                    !.nPagesInPhyMemory = s.proc[p].nPagesInPhyMemory + 1]]
enqueueFIFO(s, p, a) ==
    IF FreeEntries(s, p) = {} THEN s
    ELSE LET i == Min(FreeEntries(s, p)) IN Filled(Linked(s, p, <<p, i>>), p, i, a)

\* Takes the page at the head of the queue.  It is not uncounted here.  The queue
\* is printed before and after: printQueue does not test the head, and on an
\* empty queue reads through a null pointer.
Released(s, e) == [s EXCEPT !.proc[e[1]].ent[e[2]] = [@ EXCEPT !.address = 0, !.in_use = FALSE]]
dequeueFIFO(s, p) ==
    LET e == s.proc[p].head
        next == Follow(s, e)
        t == Released(s, e)
    IN  [t EXCEPT !.proc[p].head = next, !.null = s.null \/ next = Null]
FrontAddress(s, p) == LET e == s.proc[p].head IN s.proc[e[1]].ent[e[2]].address

\* kfree fills the page with junk.
kfree(s, fs) == [s EXCEPT !.free = s.free \cup fs, !.ram = [f \in Physical |-> IF f \in fs THEN Junk ELSE s.ram[f]]]

\* Writes page a to the first free slot of the swap file, if there is one, and
\* frees its frame.  The page at address 0 cannot be freed: kfree panics.
FreeSlots(s, p) == {i \in Slots : ~s.proc[p].slot[i].in_use}
toSlot(s, p, a) ==
    IF FreeSlots(s, p) = {} THEN s
    ELSE LET i == Min(FreeSlots(s, p))
         IN  [s EXCEPT !.proc[p] = [@ EXCEPT !.slot[i] = [in_use |-> TRUE, address |-> a],
                                             !.file[i] = s.ram[s.proc[p].pte[a].f]]]
setPte(s, p, a, pte) == [s EXCEPT !.proc[p].pte[a] = pte]
Uncount(s, p) == [s EXCEPT !.proc[p].nPagesInPhyMemory = @ - 1]
\* Mutant: the frame is not freed.
moveToSwapFileLeaks(s, p, a) ==
    LET pte == s.proc[p].pte[a] IN
    IF pte = NoPte \/ pte = Present(Low) THEN Panic(s)
    ELSE IF pte.p THEN Uncount(setPte(toSlot(s, p, a), p, a, Swapped), p)
    ELSE Uncount(toSlot(s, p, a), p)
moveToSwapFile(s, p, a) ==
    LET pte == s.proc[p].pte[a] IN
    IF pte = NoPte \/ pte = Present(Low) THEN Panic(s)
    ELSE IF pte.p THEN Uncount(kfree(setPte(toSlot(s, p, a), p, a, Swapped), {pte.f}), p)
    ELSE Uncount(toSlot(s, p, a), p)

\* On an empty queue dequeueFIFO returns -1, and moveToSwapFile ends in a panic
\* over the page at the top of the kernel's address space.
swapPageOut(s, p) ==
    IF s.proc[p].head = Null THEN Panic(s) ELSE moveToSwapFile(dequeueFIFO(s, p), p, FrontAddress(s, p))

Exchange(s, p, a, r, i) ==
    LET frame == s.proc[p].pte[r].f
        pte1  == [s.proc[p].pte EXCEPT ![a] = Present(frame)]
    IN  [s EXCEPT !.proc[p] = [@ EXCEPT !.slot[i].address = r,
                                        !.file[i] = s.ram[pte1[r].f],
                                        !.pte = [pte1 EXCEPT ![r] = Swapped]],
                  !.ram[frame] = s.proc[p].file[i]]
HasAddress(s, p, a) == {i \in Slots : s.proc[p].slot[i].address = a}
swapPageIn(s, p, a) ==
    IF s.panic \/ HasAddress(s, p, a) = {} THEN s
    ELSE IF s.proc[p].head = Null \/ s.proc[p].pte[a] = NoPte \/ s.proc[p].pte[FrontAddress(s, p)] = NoPte THEN Panic(s)
    ELSE enqueueFIFO(Exchange(dequeueFIFO(s, p), p, a, FrontAddress(s, p), Min(HasAddress(s, p, a))), p, a)

\* Frees the pages in memory from page from on, and leaves the queue, the counts
\* and the swap file alone.
deallocuvm(s, p, from, to) ==
    LET gone == {a \in from .. to - 1 : s.proc[p].pte[a].p}
    IN  IF \E a \in gone : s.proc[p].pte[a].f = Low THEN Panic(s)
        ELSE kfree([s EXCEPT !.proc[p].pte = [a \in Page |-> IF a \in gone THEN NoPte ELSE s.proc[p].pte[a]]],
                   {s.proc[p].pte[a].f : a \in gone})

\* A new page is cleared, mapped and queued; mappages panics if the page is in
\* memory already.  Which free frame kalloc hands out does not matter.
mapPage(s, p, a) ==
    LET f == Min(s.free)
    IN  IF s.proc[p].pte[a].p THEN Panic(s)
        ELSE enqueueFIFO([s EXCEPT !.proc[p].pte[a] = Present(f), !.free = s.free \ {f}, !.ram[f] = Zero], p, a)

\* Mutant: one page more than the limit.
makeRoomLate(s, p) == IF s.proc[p].nPagesInPhyMemory > MAX_PSYC_PAGES THEN swapPageOut(s, p) ELSE s
makeRoom(s, p) == IF s.proc[p].nPagesInPhyMemory >= MAX_PSYC_PAGES THEN swapPageOut(s, p) ELSE s

\* One page after the other is added, as long as kalloc finds a frame for it: up
\* to page end.  If that is not all, the pages of this call are freed again.
allocuvm(s, p, from, to, end) ==
    LET grown[a \in from .. end] ==
            IF a = from THEN s
            ELSE LET t == IF grown[a - 1].panic THEN grown[a - 1] ELSE makeRoom(grown[a - 1], p)
                 IN  IF t.panic THEN t ELSE mapPage(t, p, a - 1)
        last == grown[end]
    IN  IF last.panic \/ end = to THEN last
        ELSE LET t == makeRoom(last, p) IN IF t.panic THEN t ELSE deallocuvm(t, p, from, to)

\* exec clears the metadata, and makes a new table of k pages, which it queues.
\* Where the limit makes allocuvm move a page out, that is the page with this
\* number in the old table, which the process still has.
Cleared(s, p) == [s EXCEPT !.proc[p] = [NoMeta EXCEPT !.pte = s.proc[p].pte, !.file = s.proc[p].file]]
\* A new page of the table new, in frame f.
newPage(t, new, p, a, f) ==
    [mem |-> enqueueFIFO([t EXCEPT !.free = t.free \ {f}, !.ram[f] = Zero], p, a), new |-> [new EXCEPT ![a] = Present(f)]]
loadPage(x, p, a) ==
    LET t == makeRoom(x.mem, p)
    IN  IF t.panic THEN [x EXCEPT !.mem = t] ELSE newPage(t, x.new, p, a, Min(t.free))
Load(s, p, k) ==
    LET x[a \in 0 .. k] == IF a = 0 THEN [mem |-> Cleared(s, p), new |-> NoTable]
                           ELSE IF x[a - 1].mem.panic THEN x[a - 1] ELSE loadPage(x[a - 1], p, a - 1)
    IN  x[k]
FramesOf(table) == {table[a].f : a \in {x \in Page : table[x].p}}
-----------------------------------------------------------------------------
Init ==
    /\ \E content \in [0 .. Image - 1 -> Value] :
        /\ m = LET x == Load([proc |-> [p \in Procs |-> NoMeta], free |-> Frame, ram |-> [f \in Physical |-> Junk],
                              panic |-> FALSE, null |-> FALSE], Parent, Image)
               IN  [x.mem EXCEPT !.proc[Parent].pte = x.new,
                                 !.ram = [f \in Physical |-> IF f \in 1 .. Image THEN content[f - 1] ELSE x.mem.ram[f]]]
        /\ wrote = [p \in Procs |-> [a \in Page |-> IF p = Parent /\ a < Image THEN content[a] ELSE Zero]]
    /\ sz = [p \in Procs |-> IF p = Parent THEN Image ELSE 0]
    /\ state = [p \in Procs |-> IF p = Parent THEN "user" ELSE "unused"]
    /\ tlb = {} /\ image = Image
    /\ panicked = FALSE /\ undone = 0 /\ history = {} /\ after = 0

\* A process runs; the steps after a fork are bounded.
Runs(p) ==
    /\ ~panicked /\ state[p] = "user" /\ after < MaxAfterFork
    /\ after' = IF "forked" \in history THEN after + 1 ELSE after
\* The kernel ends in state s.  Where it read through a null pointer, it may have
\* found the end of a list or a bad address.
Becomes(s) ==
    /\ m' = [s EXCEPT !.null = FALSE]
    /\ panicked' \in (IF s.panic THEN {TRUE} ELSE {FALSE, s.null})
GivesBack(what) == undone < MaxUndo /\ undone' = undone + 1 /\ history' = history \cup {what}

\* The TLB after a step of p that ends in s: empty, if the processor was given
\* away on the way, or with the frames of pages that have gone.
MayFlush(p, s) ==
    LET was == m.proc[p].pte  gone == {a \in Page : was[a].p /\ s.proc[p].pte[a] # was[a]} IN
    tlb' \in {{}, {e \in tlb : e[1] = p} \cup {<<p, a, was[a].f>> : a \in gone}}

\* growproc with n > 0: memory suffices for k more pages.  switchuvm at the end
\* loads the page table anew.
Grow(p, n, k) ==
    LET s == allocuvm(m, p, sz[p], sz[p] + n, sz[p] + k) IN
    /\ Runs(p) /\ sz[p] + n <= NPages
    /\ IF k < n THEN GivesBack("shrunk") ELSE UNCHANGED <<undone, history>>
    /\ Becomes(s)
    /\ IF k = n THEN tlb' = {} ELSE MayFlush(p, s)
    /\ sz' = IF k = n THEN [sz EXCEPT ![p] = @ + n] ELSE sz
    /\ wrote' = [wrote EXCEPT ![p] = [a \in Page |-> IF a \in sz[p] .. sz[p] + n - 1 THEN Zero ELSE @[a]]]
    /\ UNCHANGED <<state, image>>

\* growproc with n < 0; a new size of 0 is taken for a failure
Shrink(p, n) ==
    LET s == deallocuvm(m, p, sz[p] - n, sz[p]) IN
    /\ Runs(p) /\ n <= sz[p] /\ GivesBack("shrunk")
    /\ Becomes(s)
    /\ IF n = sz[p] THEN MayFlush(p, s) ELSE tlb' = {}
    /\ sz' = IF n = sz[p] THEN sz ELSE [sz EXCEPT ![p] = @ - n]
    /\ UNCHANGED <<state, image, wrote>>

\* The process writes page a: in memory, or where it was in memory.  A free frame
\* holds a link of the list of free frames.
Write(p, a, v) ==
    /\ Runs(p)
    /\ \E f \in Physical :
        /\ \/ m.proc[p].pte[a] = Present(f) /\ UNCHANGED <<undone, history>>
           \/ <<p, a, f>> \in tlb /\ GivesBack("stale")
        /\ m' = [m EXCEPT !.ram[f] = v]
        /\ panicked' = (f \in m.free)
    /\ wrote' = [wrote EXCEPT ![p][a] = v]
    /\ tlb' = {e \in tlb : e[1] = p}
    /\ UNCHANGED <<image, sz, state>>

\* An access to a page that is not in memory: trap makes room and exchanges the
\* page with another: two pages leave and one comes in.
PageFault(p, a) ==
    LET s == swapPageIn(swapPageOut(m, p), p, a) IN
    /\ Runs(p) /\ m.proc[p].pte[a].pg
    /\ Becomes(s) /\ MayFlush(p, s)
    /\ UNCHANGED <<image, sz, state, wrote, undone, history>>

\* fork: copyuvm copies the pages into new frames, and panics over a page that is
\* not in memory; the child's metadata and swap file are copies of the parent's,
\* pointers included.  A fork that finds no memory changes nothing.
copyuvm(s, n) ==
    LET new == [a \in 0 .. n - 1 |-> CHOOSE f \in s.free : Cardinality({g \in s.free : g < f}) = a]
        from(f) == CHOOSE a \in 0 .. n - 1 : new[a] = f
        pte == [a \in Page |-> IF a < n THEN Present(new[a]) ELSE NoPte]
    IN  [s EXCEPT !.proc[Child] = [s.proc[Parent] EXCEPT !.pte = pte],
                  !.free = s.free \ Range(new),
                  !.ram = [f \in Physical |-> IF f \in Range(new) THEN s.ram[s.proc[Parent].pte[from(f)].f] ELSE s.ram[f]]]
fork ==
    /\ Runs(Parent) /\ state[Child] = "unused"
    /\ IF \A a \in 0 .. sz[Parent] - 1 : m.proc[Parent].pte[a].p
       THEN Becomes(copyuvm(m, sz[Parent])) ELSE m' = m /\ panicked' = TRUE
    /\ sz' = [sz EXCEPT ![Child] = sz[Parent]] /\ state' = [state EXCEPT ![Child] = "user"]
    /\ wrote' = [wrote EXCEPT ![Child] = wrote[Parent]]
    /\ tlb' = {e \in tlb : e[1] = Parent}
    /\ history' = history \cup {"forked"} /\ UNCHANGED <<image, undone>>

\* exec loads a new image of n pages, takes over its table and frees the old one.
exec(p, n) ==
    LET x == Load(m, p, n)
        t == x.mem
        old == FramesOf(t.proc[p].pte) IN
    /\ Runs(p) /\ undone <= MaxUndo /\ undone' = undone + 1
    /\ IF t.panic THEN Becomes(t) /\ UNCHANGED <<image, sz, wrote, history>>
       ELSE /\ \E v \in Value :
                /\ LET u == [t EXCEPT !.proc[p].pte = x.new,
                                      !.ram = [f \in Physical |-> IF f \in FramesOf(x.new) THEN v ELSE t.ram[f]]]
                   IN  Becomes(IF Low \in old THEN Panic(u) ELSE kfree(u, old))
                /\ wrote' = [wrote EXCEPT ![p] = [a \in Page |-> IF a < n THEN v ELSE Zero]]
            /\ sz' = [sz EXCEPT ![p] = n] /\ image' = (IF p = Parent THEN n ELSE image)
            /\ history' = history \cap {"forked"}
    /\ tlb' = {} /\ UNCHANGED state

\* exec fails after k pages (for want of a frame, when room has been made already):
\* their frames are freed, the old table stays, with the metadata of the image
\* that is gone.
execFails(p, k) ==
    /\ Runs(p) /\ GivesBack("execfailed")
    /\ LET x == Load(m, p, k) IN
       \E t \in {x.mem, IF x.mem.panic THEN x.mem ELSE makeRoom(x.mem, p)} :
          LET s == IF t.panic THEN t ELSE kfree(t, FramesOf(x.new)) IN Becomes(s) /\ MayFlush(p, s)
    /\ UNCHANGED <<image, sz, state, wrote>>

\* exit, or an access to a page without an entry: its memory is freed.
exit(p) ==
    /\ Runs(p) /\ state' = [state EXCEPT ![p] = "dead"]
    /\ Becomes(deallocuvm(m, p, 0, NPages))
    /\ tlb' = {}
    /\ UNCHANGED <<image, sz, wrote, undone, history>>

Next ==
    \/ \E p \in Procs :
        \/ \E n \in 1 .. MaxGrow : Shrink(p, n) \/ \E k \in 0 .. n : Grow(p, n, k)
        \/ \E a \in Page : PageFault(p, a) \/ \E v \in Value : Write(p, a, v)
        \/ \E n \in Images : exec(p, n) \/ \E k \in 0 .. n : execFails(p, k)
        \/ exit(p)
    \/ fork

Spec == Init /\ [][Next]_vars
-----------------------------------------------------------------------------
Resident(p) == {a \in Page : m.proc[p].pte[a].p}
\* The addresses in a process's queue.
Queued(p) == LET q == Queue(m, p) IN [i \in DOMAIN q |-> m.proc[q[i][1]].ent[q[i][2]].address]

Pointer == {Null} \cup (Procs \X Slots)
TypeOK ==
    /\ m.free \subseteq Frame /\ m.ram \in [Physical -> Value \cup {Junk}]
    /\ \A p \in Procs :
        m.proc[p] \in [pte  : [Page -> [p : BOOLEAN, pg : BOOLEAN, f : Physical]],
                       ent  : [Slots -> [address : Page, next : Pointer, in_use : BOOLEAN]],
                       head : Pointer, nPagesInPhyMemory : Int,
                       slot : [Slots -> [in_use : BOOLEAN, address : Page]], file : [Slots -> Value \cup {Junk}]]
    /\ tlb \subseteq Procs \X Page \X Physical /\ image \in 1 .. NPages
    /\ sz \in [Procs -> 0 .. NPages] /\ state \in [Procs -> {"unused", "user", "dead"}]

\* The pages that have frame f.
Owners(f) == {x \in Procs \X Page : m.proc[x[1]].pte[x[2]].p /\ m.proc[x[1]].pte[x[2]].f = f}

\* Every frame is free or belongs to exactly one page of one process, after forks
\* and failed execs too: what leaves memory gives its frame back once, what
\* comes in takes one over, until the kernel panics.
FramesOwned ==
    ~panicked => \A f \in Frame : Cardinality(Owners(f)) = (IF f \in m.free THEN 0 ELSE 1)

\* The limit the mechanism is there for: a process that has not forked and whose
\* execs have not failed never has more than MAX_PSYC_PAGES pages in memory, or those of
\* a larger program that exec has loaded (where the limit moves out pages of the old
\* table), whatever it allocates, gives back and touches.
ResidentSetBounded ==
    history \subseteq {"shrunk", "stale"} => Cardinality(Resident(Parent)) <= Max({MAX_PSYC_PAGES, image})

\* A process of up to MAX_PSYC_PAGES + 1 pages, whose program fits in MAX_PSYC_PAGES,
\* that gives no page back and writes to none that is gone has in each page what it last
\* wrote there: in the frame of a page in memory, which is in the queue once,
\* or in the one slot of a page in the swap file.  That ends when the kernel
\* panics: each fault leaves one page less in memory, until the queue is empty.
InMemory(p, a) ==
    /\ m.proc[p].pte[a].p /\ m.ram[m.proc[p].pte[a].f] = wrote[p][a]
    /\ Cardinality({i \in DOMAIN Queued(p) : Queued(p)[i] = a}) = 1
    /\ \A i \in Slots : m.proc[p].slot[i].in_use => m.proc[p].slot[i].address # a
InSwapFile(p, a) ==
    /\ m.proc[p].pte[a] = Swapped
    /\ a \notin Range(Queued(p))
    /\ \E i \in Slots : /\ m.proc[p].slot[i] = [in_use |-> TRUE, address |-> a]
                        /\ m.proc[p].file[i] = wrote[p][a]
                        /\ \A j \in Slots \ {i} : m.proc[p].slot[j].in_use => m.proc[p].slot[j].address # a
NoPageLost ==
    history = {} /\ image <= MAX_PSYC_PAGES =>
        /\ ~panicked /\ state[Parent] = "user" /\ sz[Parent] <= MAX_PSYC_PAGES + 1 =>
              \A a \in 0 .. sz[Parent] - 1 : InMemory(Parent, a) \/ InSwapFile(Parent, a)
        /\ panicked => Cardinality(Resident(Parent)) <= 1
=============================================================================
