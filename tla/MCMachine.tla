----------------------------- MODULE MCMachine -----------------------------
(* Model checking the console, spin locks, the start of the machine, the     *)
(* paging of a process, and programs: the user-level allocator, the library  *)
(* functions, grep and mkfs.  The parts share no state: part says which one  *)
(* moves, the others stay in one of their initial states.                    *)
EXTENDS Console, Spinlock, Boot, Paging, Umalloc, Library, Grep, Mkfs

CONSTANTS Parts, v0, v1
VARIABLE part

MInit ==
    /\ part \in Parts
    /\ ConsoleInit /\ SpinInit /\ BootInit /\ Init /\ HeapInit /\ LibraryInit /\ GrepInit /\ MkfsInit
    /\ part # "boot" => mptab = <<>>
    /\ part # "paging" => \A a \in Page : wrote[Parent][a] = Zero
    /\ part # "grep" => pattern = <<>> /\ source = <<>>

MNext ==
    /\ \/ /\ part = "console" /\ ConsoleNext
          /\ UNCHANGED <<spinVars, bootVars, vars, heapVars, call, grepVars, mkVars>>
       \/ /\ part = "spinlock" /\ SpinNext
          /\ UNCHANGED <<consoleVars, bootVars, vars, heapVars, call, grepVars, mkVars>>
       \/ /\ part = "boot" /\ BootNext
          /\ UNCHANGED <<consoleVars, spinVars, vars, heapVars, call, grepVars, mkVars>>
       \/ /\ part = "paging" /\ Next
          /\ UNCHANGED <<consoleVars, spinVars, bootVars, heapVars, call, grepVars, mkVars>>
       \/ /\ part = "malloc" /\ HeapNext
          /\ UNCHANGED <<consoleVars, spinVars, bootVars, vars, call, grepVars, mkVars>>
       \/ /\ part = "library" /\ LibraryNext
          /\ UNCHANGED <<consoleVars, spinVars, bootVars, vars, heapVars, grepVars, mkVars>>
       \/ /\ part = "grep" /\ GrepNext
          /\ UNCHANGED <<consoleVars, spinVars, bootVars, vars, heapVars, call, mkVars>>
       \/ /\ part = "mkfs" /\ MkfsNext
          /\ UNCHANGED <<consoleVars, spinVars, bootVars, vars, heapVars, call, grepVars>>
    /\ UNCHANGED part

MSpec == MInit /\ [][MNext]_<<part, consoleVars, spinVars, bootVars, vars, heapVars, call, grepVars, mkVars>>
-----------------------------------------------------------------------------
\* Threads take two locks, the handlers the second of them.
MCThreadLocks == <<"a", "b">>
MCHandlerLocks == <<"b">>
P(i) == <<"proc", i>>
\* Four processors for a table of three; APIC IDs in and out of order; the boot
\* processor beyond the end; an entry of unknown kind; the table that is idle.
MCTables == { <<P(0), P(1), <<"ioapic", 0>>, P(2), <<"bus", 0>> >>, <<P(1), P(0)>>, <<P(1), P(2), P(3), P(0)>>,
              <<P(0), <<"unknown", 0>>, P(1)>>, <<P(3), P(0), P(2), P(1)>>, <<>> }
MCValue == {v0, v1}
MCStrings == UNION {[1..n -> {97, 98}] : n \in 0..3}
MCPaths == UNION {[1..n -> {97, Slash}] : n \in 0..7}
MCFormats == UNION {[1..n -> {Percent, 97, 99, 100, 115, 120}] : n \in 0..4}
MCArgs == {<<5, 0>>, <<60, 31>>, <<0>>, <<32, 11, 2>>}
MCPatterns == UNION {[1..n -> {"a", ".", "*", "^", "$"}] : n \in 0..3}
              \cup {<<"a", "*", "b", "$">>, <<"^", "a", ".", "*", "b">>, <<".", "*", "a", "b">>}
MCInputs == {<<>>, <<"a", "b", NL, "b", "a", NL>>, <<"a", "a", "b", NL, NL, "b">>, <<"b", NL, "a", "a", NL, "a", "*", NL>>}
-----------------------------------------------------------------------------
\* The properties of the parts.  Those of Console (EditsLines, ReadersWoken,
\* KeysAndCursor), Spinlock (NoSelfDeadlock), Boot (EachOnItsOwnStack) and Paging
\* (FramesOwned, ResidentSetBounded) are asked of all of them, the others while
\* their part moves.

\* malloc and free: the heap stays tiled and coalesced.
HeapSound == part = "malloc" => HeapTiled
\* The library functions on memory, strings, paths and numbers do what they are
\* for, and system call arguments that are accepted lie within the process; grep
\* prints the matching lines, or what read leaves of them; and mkfs writes an image
\* that the kernel can read back.
ProgramsSound ==
    /\ part = "library" => TextIntact /\ NumbersPrinted /\ ArgumentsInside
    /\ part = "grep" => GrepExact
    /\ part = "mkfs" => ImageConsistent
=============================================================================
