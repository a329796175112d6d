------------------------------- MODULE Inodes -------------------------------
(***************************************************************************)
(* The content of inodes and directories (fs.c), as operators on the table *)
(* I of inodes.  A file's data is a sequence of values, one per unit that  *)
(* the calls read and write; a directory's data is the sequence of its     *)
(* entries [name, inum], where inum 0 marks an unused slot.  The cache is  *)
(* write-through (every change of an ip-> field is followed by iupdate     *)
(* under the inode's lock), so one table stands for the inode on disk and  *)
(* for its cached copy.                                                    *)
(***************************************************************************)
EXTENDS Integers, Sequences, SequencesExt, FiniteSetsExt

CONSTANTS NINODES,      \* number of inodes on the disk; inode 1 is the root
          MAXFILE,      \* units of data a file can hold
          LongName      \* names longer than DIRSIZ, mapped to their first DIRSIZ characters

ASSUME InodesAssumption == NINODES \in Nat \ {0} /\ MAXFILE \in Nat

Inum    == 1..NINODES
ROOTINO == 1
NoInode == [type |-> "free", nlink |-> 0, data |-> <<>>]

\* A path is absolute or relative to the current directory, and has elements.
skipelem(name) == IF name \in DOMAIN LongName THEN LongName[name] ELSE name

\* What read returns from offset off: <<>> at the end of the file.
readi(I, ip, off, n) == SubSeq(I[ip].data, off + 1, Min({off + n, Len(I[ip].data)}))

CanWrite(I, ip, off, n) == off <= Len(I[ip].data) /\ off + n <= MAXFILE

writei(I, ip, off, vs) ==
    [I EXCEPT ![ip].data = SubSeq(@, 1, off) \o vs \o SubSeq(@, off + Len(vs) + 1, Len(@))]

\* What a scan from the first slot on finds of these slots; 0 if there is none.
FirstOf(slots) == IF slots = {} THEN 0 ELSE Min(slots)

\* The slot of the first entry of dp with this name; 0 if there is none.
DirSlot(I, dp, name) == FirstOf({k \in DOMAIN I[dp].data : I[dp].data[k].inum # 0 /\ I[dp].data[k].name = name})

dirlookup(I, dp, name) ==
    LET k == DirSlot(I, dp, name) IN IF k = 0 THEN 0 ELSE I[dp].data[k].inum

\* The new entry takes the first unused slot, or extends the directory.
dirlink(I, dp, name, inum) ==
    LET k == FirstOf({j \in DOMAIN I[dp].data : I[dp].data[j].inum = 0})
    IN  writei(I, dp, IF k = 0 THEN Len(I[dp].data) ELSE k - 1, <<[name |-> name, inum |-> inum]>>)

\* unlink overwrites the entry with zeroes: the slot stays.
ClearEntry(I, dp, name) ==
    writei(I, dp, DirSlot(I, dp, name) - 1, <<[name |-> "", inum |-> 0]>>)

\* A mutant: the first entry after "." and ".." is not looked at.
isdiremptySkipsOne(I, dp) == \A k \in 4..Len(I[dp].data) : I[dp].data[k].inum = 0

isdirempty(I, dp) == \A k \in 3..Len(I[dp].data) : I[dp].data[k].inum = 0

\* The first free inode; 0 when ialloc would panic.
ialloc(I) == FirstOf({i \in Inum : I[i].type = "free"})

\* The table after create has made inode ip of this type as dp/name.
MakeNode(I, dp, name, ip, type) ==
    LET new == [I EXCEPT ![ip] = [type |-> type, nlink |-> 1, data |-> <<>>]]
        dots == dirlink(dirlink([new EXCEPT ![dp].nlink = @ + 1], ip, ".", ip), ip, "..", dp)
    IN  dirlink(IF type = "dir" THEN dots ELSE new, dp, name, ip)

\* Entries of I that name inode i, "." and ".." aside, as <<directory, slot>>.
Entries(I, i) ==
    UNION {{<<d, k>> : k \in {s \in 3..Len(I[d].data) : I[d].data[s].inum = i}} :
           d \in {e \in Inum : I[e].type = "dir"}}
=============================================================================
