------------------------------ MODULE Umalloc ------------------------------
(***************************************************************************)
(* The user-level allocator (umalloc.c): a circular list of free blocks in *)
(* address order, searched from where the last search ended.  Addresses    *)
(* and sizes are in headers; the list's base lies below the heap, at 0.    *)
(*   hdr   the headers: next free block (ptr) and size                     *)
(*   freep where the next search starts (-1 before the first malloc)       *)
(*   brk   end of the heap;  area  the pieces the allocator got from sbrk  *)
(*   busy  blocks handed out, with their sizes;  ops  calls so far         *)
(***************************************************************************)
EXTENDS Integers, FiniteSets, TLC

CONSTANTS HeapMax,      \* sbrk fails beyond this address
          NALLOC,       \* least number of headers morecore asks for
          Units,        \* sizes of the requests, header included
          MaxMallocs    \* bound on the calls

ASSUME UmallocAssumption == HeapMax \in Nat /\ NALLOC \in Nat \ {0} /\ Units \subseteq Nat \ {0} /\ MaxMallocs \in Nat

VARIABLES hdr, freep, brk, area, busy, ops
heapVars == <<hdr, freep, brk, area, busy, ops>>

base == 0
HeapInit ==
    /\ hdr = [a \in 0..HeapMax |-> [ptr |-> 0, size |-> 0]]
    /\ freep = -1 /\ brk = 1 /\ area = {} /\ busy = {} /\ ops = 0

\* What malloc and free pass on: the headers, freep, the heap.
Heap == [hdr |-> hdr, freep |-> freep, brk |-> brk, area |-> area]

\* The block after which bp belongs, looking from p on.
RECURSIVE Place(_, _, _)
Place(h, bp, p) ==
    LET next == h[p].ptr IN
    IF (bp > p /\ bp < next) \/ (p >= next /\ (bp > p \/ bp < next)) THEN p ELSE Place(h, bp, next)

\* Mutant: a block is not joined with the free block before it.
freeNoJoin(s, bp) ==
    LET p == Place(s.hdr, bp, s.freep)
        next == s.hdr[p].ptr
        joined == IF bp + s.hdr[bp].size = next
                  THEN [s.hdr EXCEPT ![bp] = [ptr |-> s.hdr[next].ptr, size |-> @.size + s.hdr[next].size]]
                  ELSE [s.hdr EXCEPT ![bp].ptr = next] IN
    [s EXCEPT !.freep = p, !.hdr = [joined EXCEPT ![p].ptr = bp]]
\* free: join bp with the block after it and with the block before it.
free(s, bp) ==
    LET p == Place(s.hdr, bp, s.freep)
        next == s.hdr[p].ptr
        up == IF bp + s.hdr[bp].size = next
              THEN [s.hdr EXCEPT ![bp] = [ptr |-> s.hdr[next].ptr, size |-> @.size + s.hdr[next].size]]
              ELSE [s.hdr EXCEPT ![bp].ptr = next] IN
    [s EXCEPT !.freep = p,
              !.hdr = IF p + up[p].size = bp
                      THEN [up EXCEPT ![p] = [ptr |-> up[bp].ptr, size |-> @.size + up[bp].size]]
                      ELSE [up EXCEPT ![p].ptr = bp]]

\* morecore: at least NALLOC headers from sbrk, given to the free list.
SbrkFails(s, nu) == s.brk + (IF nu < NALLOC THEN NALLOC ELSE nu) > HeapMax + 1
morecore(s, nu) ==
    LET n == IF nu < NALLOC THEN NALLOC ELSE nu
        more == [s EXCEPT !.brk = @ + n, !.area = @ \cup {[at |-> s.brk, size |-> n]}, !.hdr[s.brk].size = n] IN
    free(more, s.brk)

\* The search of malloc from block p with predecessor prevp: first fit, the
\* tail of a larger block; at is 0 when sbrk fails.
RECURSIVE Search(_, _, _, _)
Search(s, n, prevp, p) ==
    LET size == s.hdr[p].size IN
    CASE size = n -> [s EXCEPT !.hdr[prevp].ptr = s.hdr[p].ptr, !.freep = prevp] @@ [at |-> p]
      [] size > n -> LET q == p + size - n IN
                     [s EXCEPT !.hdr = [@ EXCEPT ![p].size = size - n, ![q].size = n], !.freep = prevp] @@ [at |-> q]
      [] size < n /\ p = s.freep ->
           IF SbrkFails(s, n) THEN s @@ [at |-> 0]
           ELSE LET m == morecore(s, n) IN Search(m, n, m.freep, m.hdr[m.freep].ptr)
      [] OTHER -> Search(s, n, p, s.hdr[p].ptr)

malloc(n) ==
    LET start == IF freep # -1 THEN Heap ELSE [Heap EXCEPT !.freep = base, !.hdr[base] = [ptr |-> base, size |-> 0]]
        r == Search(start, n, start.freep, start.hdr[start.freep].ptr) IN
    /\ ops < MaxMallocs /\ ops' = ops + 1
    /\ hdr' = r.hdr /\ freep' = r.freep /\ brk' = r.brk /\ area' = r.area
    /\ busy' = IF r.at = 0 THEN busy ELSE busy \cup {[at |-> r.at, size |-> n]}

release(b) ==
    LET r == free(Heap, b.at) IN
    /\ hdr' = r.hdr /\ freep' = r.freep /\ busy' = busy \ {b}
    /\ UNCHANGED <<brk, area, ops>>

\* The program calls sbrk itself: the next piece of the heap is not adjacent.
otherSbrk ==
    /\ ops < MaxMallocs /\ ops' = ops + 1
    /\ brk < HeapMax /\ brk' = brk + 1
    /\ UNCHANGED <<hdr, freep, area, busy>>

HeapNext == (\E n \in Units : malloc(n)) \/ (\E b \in busy : release(b)) \/ otherSbrk
-----------------------------------------------------------------------------
\* The blocks on the free list, base aside.
RECURSIVE ListFrom(_)
ListFrom(p) == IF p = base THEN {} ELSE {[at |-> p, size |-> hdr[p].size]} \cup ListFrom(hdr[p].ptr)
FreeBlocks == IF freep = -1 THEN {} ELSE ListFrom(hdr[base].ptr)
Cells(bs) == UNION {b.at..(b.at + b.size - 1) : b \in bs}
RECURSIVE Total(_)
Total(bs) == IF bs = {} THEN 0 ELSE LET b == CHOOSE x \in bs : TRUE IN b.size + Total(bs \ {b})

\* Whatever is allocated and freed in whatever order, the blocks in use and the
\* free blocks are disjoint and together are all the memory got from sbrk, and
\* no two free blocks are adjacent: what was freed can be had again in one piece.
HeapTiled ==
    /\ Cells(busy \cup FreeBlocks) = Cells(area)
    /\ Total(busy) + Total(FreeBlocks) = Cardinality(Cells(area))
    /\ \A b, c \in FreeBlocks : b.at + b.size # c.at
=============================================================================
