----------------------------- MODULE MCStorage -----------------------------
(* Model checking the buffer cache and disk driver, the blocks of files, and *)
(* memory.  The parts share no state: part says which one moves, the others  *)
(* stay in one of their initial states.                                      *)
EXTENDS Blocks, FileBlocks, MemTests

CONSTANT Parts
VARIABLE part

SInit ==
    /\ part \in Parts
    /\ BInit /\ BlockMapInit /\ MemInit
    /\ part # "blocks" => driver = "ide"
    /\ part # "memory" => mtest = "bsstest"

SNext ==
    /\ \/ part = "blocks" /\ BNext /\ UNCHANGED <<blockMapVars, memVars>>
       \/ part = "files" /\ BlockMapNext /\ UNCHANGED <<blockVars, memVars>>
       \/ part = "memory" /\ MemNext /\ UNCHANGED <<blockVars, blockMapVars>>
    /\ UNCHANGED part

SSpec == SInit /\ [][SNext]_<<part, blockVars, blockMapVars, memVars>>

\* Two programs: two segments with zeroed data; one whose file is too short.
MCImages ==
    <<[name |-> "A", elf |-> TRUE, len |-> 12, segs |-> <<[vaddr |-> 0, filesz |-> 5, memsz |-> 6], [vaddr |-> 8, filesz |-> 4, memsz |-> 9]>>],
      [name |-> "B", elf |-> TRUE, len |-> 4, segs |-> <<[vaddr |-> 0, filesz |-> 8, memsz |-> 8]>>]>>
MCArgs == {<<3, 4>>}
MCAmounts == {13, -8}
\* The buffer cache treats all blocks alike.
BlocksAlike == Permutations(Block)
-----------------------------------------------------------------------------
\* The properties of the parts, each asked while its part moves; those of the
\* buffer cache, NoLostUpdate and SleepersHaveWaker, always.

\* filewrite, bmap, writei, itrunc: no transaction has more blocks than the log
\* reserves for one call, and files read back as written, with one owner for
\* every block.
FilesSound == part = "files" => TransactionsFit /\ ReadsBackWritten
\* kalloc, fork, exec, sbrk, wait: no page leaks, none has two uses, and processes
\* find their own data in their memory and nothing else.  The memory tests of
\* usertests.c pass, and panics have one cause.
MemorySound == part = "memory" => PageOwnedOnce /\ PrivateMemory /\ MemTestsPass
=============================================================================
