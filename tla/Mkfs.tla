-------------------------------- MODULE Mkfs --------------------------------
(***************************************************************************)
(* mkfs.c: the program that writes the first file system image.  Blocks    *)
(* and inodes are handed out in order; each file is appended piece by      *)
(* piece as the host's read returns it.  Byte k of the file with inode i   *)
(* is written as <<i, k>>, 0 is a byte never written.  Variables:          *)
(*   img    the image: inodes, sectors, and the counters freeblock and     *)
(*          freeinode; bitmap, the blocks marked as used                   *)
(*   cur    inode of the file that is being copied, 0 between files        *)
(*   left   files still to come;  mkstep  where main is                    *)
(***************************************************************************)
EXTENDS Integers, Sequences, FiniteSets, SequencesExt

CONSTANTS SECTOR, DIRENT,     \* sizes of a block and of a directory entry
          MNDIRECT, MNINDIRECT, \* addresses in an inode and in an indirect block
          NMETA,              \* blocks before the first data block
          BITS,               \* blocks that one bitmap block can mark
          Files, MaxFile      \* number of files, longest file in bytes

ASSUME MkfsAssumption == SECTOR % DIRENT = 0 /\ {SECTOR, DIRENT, MNDIRECT, NMETA, BITS} \subseteq Nat \ {0}

VARIABLES img, cur, left, mkstep
mkVars == <<img, cur, left, mkstep>>

ROOTINO == 1
Inums == 1..(Files + 1)
Free == [type |-> "none", size |-> 0, addrs |-> [i \in 0..MNDIRECT |-> 0]]
Zeroes == [i \in 0..(SECTOR - 1) |-> 0]
\* Sectors that the files can need; the host's file grows past FSSIZE if it must.
Sectors == NMETA..(NMETA + (Files + 1) * (MNDIRECT + 1 + MNINDIRECT))

\* wsect and rsect, winode and rinode.
wsect(s, sec, buf) == [s EXCEPT !.sect[sec] = buf]
rsect(s, sec) == s.sect[sec]
winode(s, inum, din) == [s EXCEPT !.inode[inum] = din]
rinode(s, inum) == s.inode[inum]

ialloc(s, type) == winode([s EXCEPT !.freeinode = @ + 1], s.freeinode, [Free EXCEPT !.type = type])

\* The next block of the image.
Grab(s) == [s EXCEPT !.freeblock = @ + 1]
\* The block of file block fbn, allocated when the inode has none yet; indirect
\* addresses are the contents of the block addrs[MNDIRECT].
Direct(s, inum, i) == IF rinode(s, inum).addrs[i] # 0 THEN s ELSE [Grab(s) EXCEPT !.inode[inum].addrs[i] = s.freeblock]
Block(s, inum, fbn) ==
    IF fbn < MNDIRECT THEN LET d == Direct(s, inum, fbn) IN [img |-> d, x |-> rinode(d, inum).addrs[fbn]]
    ELSE LET d == Direct(s, inum, MNDIRECT)
             ind == rinode(d, inum).addrs[MNDIRECT]
             old == rsect(d, ind)[fbn - MNDIRECT] IN
         IF old # 0 THEN [img |-> d, x |-> old]
         ELSE [img |-> wsect(Grab(d), ind, [rsect(d, ind) EXCEPT ![fbn - MNDIRECT] = d.freeblock]), x |-> d.freeblock]

\* Mutant: each piece starts a block of its own.
PieceEndsAligned(off, n) == IF n < SECTOR THEN n ELSE SECTOR
\* The bytes of a piece of n that go into the block that holds offset off.
PieceEnds(off, n) == LET room == ((off \div SECTOR) + 1) * SECTOR - off IN IF n < room THEN n ELSE room

\* iappend: n more bytes at the end of the inode's file.
RECURSIVE iappend(_, _, _)
iappend(s, inum, n) ==
    IF n = 0 THEN s
    ELSE LET off == rinode(s, inum).size
             fbn == off \div SECTOR
             n1 == PieceEnds(off, n)
             b == Block(s, inum, fbn)
             buf == rsect(b.img, b.x)
             at == off - fbn * SECTOR
             full == [i \in 0..(SECTOR - 1) |-> IF i \in at..(at + n1 - 1) THEN <<inum, off + i - at>> ELSE buf[i]] IN
         iappend([wsect(b.img, b.x, full) EXCEPT !.inode[inum].size = off + n1], inum, n - n1)
\* The assertion in iappend's loop.
TooLong(s, inum, n) == (rinode(s, inum).size + n - 1) \div SECTOR >= MNDIRECT + MNINDIRECT
-----------------------------------------------------------------------------
MkfsInit ==
    /\ img = [inode |-> [i \in Inums |-> Free], sect |-> [x \in Sectors |-> Zeroes],
              freeblock |-> NMETA, freeinode |-> ROOTINO, bitmap |-> {}]
    /\ cur = 0 /\ left = Files /\ mkstep = "root"

\* The root directory with its entries . and ..
makeRoot ==
    /\ mkstep = "root" /\ mkstep' = "files"
    /\ img' = iappend(iappend(ialloc(img, "T_DIR"), ROOTINO, DIRENT), ROOTINO, DIRENT)
    /\ UNCHANGED <<cur, left>>
\* Open the next file: an inode and an entry in the root directory.
addFile ==
    /\ mkstep = "files" /\ cur = 0 /\ left > 0
    /\ cur' = img.freeinode /\ left' = left - 1
    /\ img' = iappend(ialloc(img, "T_FILE"), ROOTINO, DIRENT)
    /\ mkstep' = IF TooLong(img, ROOTINO, DIRENT) THEN "abort" ELSE mkstep
copyPiece(n) ==
    /\ mkstep = "files" /\ cur # 0 /\ rinode(img, cur).size + n <= MaxFile
    /\ IF TooLong(img, cur, n) THEN mkstep' = "abort" /\ img' = img ELSE mkstep' = mkstep /\ img' = iappend(img, cur, n)
    /\ UNCHANGED <<cur, left>>
closeFile ==
    /\ mkstep = "files" /\ cur # 0 /\ cur' = 0
    /\ UNCHANGED <<img, left, mkstep>>
\* The size of the root directory is rounded up, and the bitmap written.
finish ==
    /\ mkstep = "files" /\ cur = 0
    /\ LET off == rinode(img, ROOTINO).size IN
       img' = [winode(img, ROOTINO, [rinode(img, ROOTINO) EXCEPT !.size = ((off \div SECTOR) + 1) * SECTOR])
               EXCEPT !.bitmap = IF img.freeblock < BITS THEN 0..(img.freeblock - 1) ELSE {}]
    /\ mkstep' = IF img.freeblock < BITS THEN "done" ELSE "abort"
    /\ UNCHANGED <<cur, left>>

MkfsNext == makeRoot \/ addFile \/ (\E n \in 1..SECTOR : copyPiece(n)) \/ closeFile \/ finish
-----------------------------------------------------------------------------
\* The block that the kernel's bmap finds for block fbn of an inode, 0 if none.
Bmap(inum, fbn) ==
    LET a == img.inode[inum].addrs IN
    IF fbn < MNDIRECT THEN a[fbn] ELSE IF a[MNDIRECT] = 0 THEN 0 ELSE img.sect[a[MNDIRECT]][fbn - MNDIRECT]
FileBlocksOf(inum) == {fbn \in 0..(MNDIRECT + MNINDIRECT - 1) : Bmap(inum, fbn) # 0}
\* The blocks an inode uses, with what for.
Uses == {<<i, fbn>> : i \in Inums, fbn \in 0..(MNDIRECT + MNINDIRECT - 1)} \cup {<<i, -1>> : i \in Inums}
BlockOf(u) == IF u[2] = -1 THEN img.inode[u[1]].addrs[MNDIRECT] ELSE Bmap(u[1], u[2])
Entries == Files - left + 2

\* At every point the kernel would read back each file byte by byte as it was
\* copied, however the host cut it into pieces; every data block below freeblock
\* has exactly one use; when the image is done the bitmap marks exactly the blocks
\* below freeblock; and the root directory covers all its entries and only blocks
\* that exist, but for a last block that is missing exactly when the entries fill
\* their blocks: the kernel will allocate it on the first lookup that reads on.
ImageConsistent ==
    /\ mkstep # "abort" => \A i \in Inums : \A k \in 0..(img.inode[i].size - 1) :
         i # ROOTINO \/ k < Entries * DIRENT =>
           Bmap(i, k \div SECTOR) # 0 /\ img.sect[Bmap(i, k \div SECTOR)][k % SECTOR] = <<i, k>>
    /\ \A b \in NMETA..(img.freeblock - 1) : Cardinality({u \in Uses : BlockOf(u) = b}) = 1
    /\ \A u \in Uses : BlockOf(u) = 0 \/ BlockOf(u) \in NMETA..(img.freeblock - 1)
    /\ mkstep = "done" =>
         /\ img.bitmap = 0..(img.freeblock - 1)
         /\ LET size == img.inode[ROOTINO].size
                last == size \div SECTOR - 1 IN
            /\ size > Entries * DIRENT
            /\ FileBlocksOf(ROOTINO) = IF (Entries * DIRENT) % SECTOR = 0 THEN 0..(last - 1) ELSE 0..last
=============================================================================
