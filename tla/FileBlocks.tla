----------------------------- MODULE FileBlocks -----------------------------
(***************************************************************************)
(* The blocks of files: the bitmap (balloc, bfree), the direct blocks and  *)
(* the indirect block of an inode (bmap, itrunc), readi and writei block   *)
(* by block, and filewrite, which cuts a write into transactions.  Files   *)
(* are written by one process each, with the inode locked, and share the   *)
(* bitmap.  Variables:                                                     *)
(*   used    the bitmap, as the set of blocks in use                       *)
(*   data    what each block holds: BSIZE units, or NINDIRECT addresses    *)
(*   addrs   the addresses in each inode;  size  its size in units         *)
(*   job     what the writer of each file is doing                         *)
(*   logged  the blocks its transaction has written                        *)
(*   writes  calls of filewrite so far                                     *)
(*   wanted  what each file should hold                                    *)
(*   fpanic  the message of a panic, or ""                                 *)
(***************************************************************************)
EXTENDS Integers, Sequences, SequencesExt, FiniteSets, FiniteSetsExt

CONSTANTS File,                  \* inodes, positive numbers
          NDIRECT, NINDIRECT, BSIZE,
          NBlocks,               \* data blocks
          BPB,                   \* blocks per block of the bitmap
          MAXOPBLOCKS,
          Offsets, Lengths,      \* where and how much a process writes
          MaxWrites              \* calls of one process

ASSUME FileBlocksAssumption ==
    {NDIRECT, NINDIRECT, BSIZE, NBlocks, BPB, MAXOPBLOCKS} \subseteq Nat \ {0}

VARIABLES used, data, addrs, size, job, logged, writes, wanted, fpanic
blockMapVars == <<used, data, addrs, size, job, logged, writes, wanted, fpanic>>

DataBlock == 1..NBlocks
MaxSize == (NDIRECT + NINDIRECT) * BSIZE
NoJob == [step |-> "idle", off |-> 0, left |-> 0, n1 |-> 0, unit |-> 0]
Least(a, b) == IF a < b THEN a ELSE b
\* The other blocks of a transaction: part of the bitmap, part of the inodes.
BBLOCK(b) == <<"bitmap", b \div BPB>>
IBLOCK(f) == <<"inode", f>>
DBLOCK(b) == <<"data", b>>

BlockMapInit ==
    /\ used = {} /\ data = [b \in DataBlock |-> <<>>]
    /\ addrs = [f \in File |-> [i \in 0..NDIRECT |-> 0]]
    /\ size = [f \in File |-> 0]
    /\ job = [f \in File |-> NoJob]
    /\ logged = [f \in File |-> {}]
    /\ writes = [f \in File |-> 0]
    /\ wanted = [f \in File |-> <<>>]
    /\ fpanic = ""
-----------------------------------------------------------------------------
\* The disk as bmap passes it on: bitmap, contents, addresses of the inode,
\* blocks written.
Disk(f) == [used |-> used, data |-> data, addrs |-> addrs[f], logged |-> logged[f], b |-> 0]

bzero(d, b, zero) == [d EXCEPT !.data[b] = zero, !.logged = @ \cup {DBLOCK(b)}]
\* balloc marks the first free block and clears it; b is the block.
balloc(d, zero) ==
    LET b == Min(DataBlock \ d.used) IN
    bzero([d EXCEPT !.used = @ \cup {b}, !.logged = @ \cup {BBLOCK(b)}, !.b = b], b, zero)

NoAddresses == [k \in 0..(NINDIRECT - 1) |-> 0]
NoUnits == [k \in 1..BSIZE |-> 0]
\* Blocks bmap has to allocate for block bn of a file.
Missing(d, bn) ==
    IF bn < NDIRECT THEN (IF d.addrs[bn] = 0 THEN 1 ELSE 0)
    ELSE IF d.addrs[NDIRECT] = 0 THEN 2 ELSE IF d.data[d.addrs[NDIRECT]][bn - NDIRECT] = 0 THEN 1 ELSE 0

\* The block of bn in field b, allocated if need be.
bmap(d, bn) ==
    IF bn < NDIRECT
    THEN IF d.addrs[bn] # 0 THEN [d EXCEPT !.b = d.addrs[bn]]
         ELSE LET n == balloc(d, NoUnits) IN [n EXCEPT !.addrs[bn] = n.b]
    ELSE LET n == balloc(d, NoAddresses)
             i == IF d.addrs[NDIRECT] # 0 THEN d ELSE [n EXCEPT !.addrs[NDIRECT] = n.b]
             at == i.addrs[NDIRECT]
             m == balloc(i, NoUnits) IN
         IF i.data[at][bn - NDIRECT] # 0 THEN [i EXCEPT !.b = i.data[at][bn - NDIRECT]]
         ELSE [m EXCEPT !.data[at][bn - NDIRECT] = m.b, !.logged = @ \cup {DBLOCK(at)}]

Address(f, bn) ==
    IF bn < NDIRECT THEN addrs[f][bn]
    ELSE IF addrs[f][NDIRECT] = 0 THEN 0 ELSE data[addrs[f][NDIRECT]][bn - NDIRECT]

\* readi of the whole file.
readi(f) == [i \in 1..size[f] |-> data[Address(f, (i - 1) \div BSIZE)][((i - 1) % BSIZE) + 1]]
-----------------------------------------------------------------------------
\* The most that filewrite puts into one transaction.
MaxChunk == ((MAXOPBLOCKS - 1 - 1 - 2) \div 2) * BSIZE
\* filewrite of n units at off: what a process writes is named by the call.
filewrite(f, off, n) ==
    /\ job[f].step = "idle" /\ writes[f] < MaxWrites /\ fpanic = ""
    /\ off <= size[f]           \* f->off is never past the end
    /\ writes' = [writes EXCEPT ![f] = @ + 1]
    /\ job' = [job EXCEPT ![f] = [step |-> "chunk", off |-> off, left |-> n, n1 |-> 0, unit |-> 10 * f + writes[f] + 1]]
    /\ UNCHANGED <<used, data, addrs, size, logged, wanted, fpanic>>

\* begin_op, ilock, and the checks of writei on the next chunk.
chunk(f) ==
    LET n1 == Least(job[f].left, MaxChunk) IN
    /\ job[f].step = "chunk" /\ fpanic = ""
    /\ IF job[f].left = 0 \/ job[f].off + n1 > MaxSize
       THEN job' = [job EXCEPT ![f] = NoJob] /\ UNCHANGED logged
       ELSE job' = [job EXCEPT ![f].step = "write", ![f].n1 = n1] /\ logged' = [logged EXCEPT ![f] = {}]
    /\ UNCHANGED <<used, data, addrs, size, writes, wanted, fpanic>>

\* One block of writei's loop.
writei(f) ==
    LET j == job[f]
        bn == j.off \div BSIZE
        m == Least(j.n1, BSIZE - (j.off % BSIZE))
        d == bmap(Disk(f), bn)
        from == j.off % BSIZE
        put == [k \in 1..BSIZE |-> IF k > from /\ k <= from + m THEN j.unit ELSE d.data[d.b][k]]
        grown == [k \in 1..Max({Len(wanted[f]), j.off + m}) |->
                    IF k > j.off /\ k <= j.off + m THEN j.unit ELSE wanted[f][k]] IN
    /\ j.step = "write" /\ j.n1 > 0 /\ fpanic = ""
    /\ IF Cardinality(DataBlock \ used) < Missing(Disk(f), bn)
       THEN fpanic' = "balloc: out of blocks" /\ UNCHANGED <<used, data, addrs, job, logged, wanted>>
       ELSE /\ used' = d.used
            /\ data' = [d.data EXCEPT ![d.b] = put]
            /\ addrs' = [addrs EXCEPT ![f] = d.addrs]
            /\ logged' = [logged EXCEPT ![f] = d.logged \cup {DBLOCK(d.b)}]
            /\ job' = [job EXCEPT ![f].off = @ + m, ![f].left = @ - m, ![f].n1 = @ - m]
            /\ wanted' = [wanted EXCEPT ![f] = grown]
            /\ UNCHANGED fpanic
    /\ UNCHANGED <<size, writes>>

\* The end of writei and of the transaction: the size, if the file grew.
iupdate(f) ==
    /\ job[f].step = "write" /\ job[f].n1 = 0 /\ fpanic = ""
    /\ size' = [size EXCEPT ![f] = Max({@, job[f].off})]
    /\ logged' = IF job[f].off > size[f] THEN [logged EXCEPT ![f] = @ \cup {IBLOCK(f)}] ELSE logged
    /\ job' = [job EXCEPT ![f].step = "chunk"]
    /\ UNCHANGED <<used, data, addrs, writes, wanted, fpanic>>

\* What itrunc frees: direct blocks, blocks listed in the indirect block, and
\* the indirect block itself.
Direct(f) == {addrs[f][i] : i \in 0..(NDIRECT - 1)} \ {0}
Indirect(f) == {addrs[f][NDIRECT]} \ {0}
Listed(f) == UNION {Range([k \in 1..NINDIRECT |-> data[b][k - 1]]) : b \in Indirect(f)} \ {0}
\* Mutant: the blocks in the indirect block are forgotten.
itruncDirect(f) == Direct(f) \cup Indirect(f)
itruncFrees(f) == Direct(f) \cup Listed(f) \cup Indirect(f)

\* iput of an unlinked file.
itrunc(f) ==
    /\ job[f].step = "idle" /\ size[f] > 0 /\ fpanic = ""
    /\ fpanic' = IF itruncFrees(f) \subseteq used THEN "" ELSE "freeing free block"
    /\ used' = used \ itruncFrees(f)
    /\ addrs' = [addrs EXCEPT ![f] = [i \in 0..NDIRECT |-> 0]]
    /\ size' = [size EXCEPT ![f] = 0]
    /\ wanted' = [wanted EXCEPT ![f] = <<>>]
    /\ data' = [b \in DataBlock |-> IF b \in itruncFrees(f) THEN <<>> ELSE data[b]]
    /\ UNCHANGED <<job, logged, writes>>

BlockMapNext ==
    \E f \in File : \/ \E off \in Offsets, n \in Lengths : filewrite(f, off, n)
                    \/ chunk(f) \/ writei(f) \/ iupdate(f) \/ itrunc(f)
-----------------------------------------------------------------------------
\* A transaction of filewrite fits the log whatever the offset and length and
\* however the blocks of the bitmap fall: the reckoning in filewrite ("i-node,
\* indirect block, allocation blocks, and 2 blocks of slop") is enough.
TransactionsFit == \A f \in File : Cardinality(logged[f]) <= MAXOPBLOCKS

\* The bitmap is right: a block is in use exactly if one inode has it in one
\* place, whatever order two files grow and go in; no block is freed twice.
BlocksOwnedOnce ==
    LET places(b) == {<<f, i>> \in File \X (0..NDIRECT) : addrs[f][i] = b}
                     \cup {<<f, NDIRECT + 1 + k>> : <<f, k>> \in {<<g, j>> \in File \X (0..(NINDIRECT - 1)) :
                                                       addrs[g][NDIRECT] # 0 /\ data[addrs[g][NDIRECT]][j] = b}} IN
    /\ \A b \in DataBlock : Cardinality(places(b)) = IF b \in used THEN 1 ELSE 0
    /\ fpanic # "freeing free block"

\* A file reads back as what was written to it, across the border between the
\* direct blocks and the indirect one and for writes that are not aligned, and
\* the bitmap agrees with the inodes.
ReadsBackWritten == BlocksOwnedOnce /\ \A f \in File : readi(f) = SubSeq(wanted[f], 1, size[f])
=============================================================================
