-------------------------------- MODULE Log ---------------------------------
(***************************************************************************)
(* The redo log of the xv6 file system (log.c), over the buffer cache that *)
(* pins the blocks it has modified (bio.c), with crashes at every point    *)
(* and recovery at the next boot.                                          *)
(*                                                                         *)
(* A step of begin_op, end_op and log_write is a critical section of       *)
(* log.lock; a step of commit() and recover_from_log() is one bwrite, which*)
(* returns when the block is on the disk.  A block holds one value.        *)
(***************************************************************************)
EXTENDS Integers, Sequences, FiniteSets, SequencesExt

CONSTANTS Block,        \* blocks of the file system
          Value,        \* what a block may hold
          Proc,         \* processes that make file system calls
          MAXOPBLOCKS,  \* blocks begin_op reserves for a call
          OpBlocks,     \* blocks a call really writes, at most
          LOGSIZE,      \* blocks a transaction may hold
          NLOG,         \* log.size: blocks of the log on the disk, its header included
          Beyond,       \* the block of the file system that follows the log
          Zero,         \* what mkfs leaves in the blocks of the log
          NoValue,      \* no buffer
          NoBlock,      \* no block
          MaxCrashes    \* bound: number of crashes

ASSUME LogAssumption ==
    /\ MAXOPBLOCKS \in Nat \ {0} /\ LOGSIZE \in Nat /\ NLOG \in Nat /\ MaxCrashes \in Nat
    /\ MAXOPBLOCKS <= LOGSIZE /\ OpBlocks \in 1 .. MAXOPBLOCKS
    /\ IsFiniteSet(Proc)
    /\ Beyond \in Block /\ Zero \in Value /\ NoValue \notin Value /\ NoBlock \notin Block

VARIABLES
    \* the disk
    home,           \* home[b]: block b at its home location
    logblock,       \* logblock[i]: the i-th block of the log after its header
    head,           \* the header of the log: the blocks of the committed transaction
    \* memory
    cache,          \* cache[b]: the buffer of block b, if it has one
    dirty,          \* the blocks whose buffer has B_DIRTY
    lh,             \* log.lh: the blocks of the current transaction
    outstanding,    \* log.outstanding
    committing,     \* log.committing
    phase, tail,    \* where commit() or recover_from_log() is
    panicked,       \* a call of panic()
    \* processes
    pc, blk,        \* where each one is, and the block it has locked
    written,        \* the blocks its system call has written
    crashes

disk == <<home, logblock, head>>
memory == <<cache, dirty, lh, outstanding, committing, phase, tail, panicked>>
procs == <<pc, blk, written>>
vars == <<disk, memory, procs, crashes>>

\* What bread returns: the buffer, read from the home location if there is none.
Contents(b) == IF cache[b] = NoValue THEN home[b] ELSE cache[b]

Init ==
    /\ home \in [Block -> Value]
    /\ logblock = [i \in 1 .. NLOG - 1 |-> Zero]
    /\ head = <<>>
    /\ cache = [b \in Block |-> NoValue] /\ dirty = {}
    /\ lh = <<>> /\ outstanding = 0 /\ committing = FALSE
    /\ phase = "read_head" /\ tail = 1
    /\ panicked = FALSE
    /\ pc = [p \in Proc |-> "idle"] /\ blk = [p \in Proc |-> NoBlock]
    /\ written = [p \in Proc |-> {}]
    /\ crashes = 0

Up == ~panicked /\ phase # "read_head" /\ (committing \/ phase = "none")
At(p, label) == Up /\ pc[p] = label

-----------------------------------------------------------------------------
(* begin_op, log_write, end_op *)

\* wakeup(&log), applied to the program counters
Woken(pcs) == [p \in Proc |-> IF pcs[p] = "asleep" THEN "begin" ELSE pcs[p]]

Call(p) ==
    /\ At(p, "idle")
    /\ pc' = [pc EXCEPT ![p] = "begin"]
    /\ UNCHANGED <<disk, memory, blk, written, crashes>>

\* Mutant: reserves nothing for the calls under way.
begin_opUnreserved(p) ==
    /\ At(p, "begin")
    /\ IF committing \/ Len(lh) + MAXOPBLOCKS > LOGSIZE
       THEN /\ pc' = [pc EXCEPT ![p] = "asleep"]
            /\ UNCHANGED outstanding
       ELSE /\ outstanding' = outstanding + 1
            /\ pc' = [pc EXCEPT ![p] = "op"]
    /\ UNCHANGED <<disk, cache, dirty, lh, committing, phase, tail, panicked, blk, written, crashes>>

MustWait == committing \/ Len(lh) + (outstanding + 1) * MAXOPBLOCKS > LOGSIZE
begin_op(p) ==
    /\ At(p, "begin")
    /\ IF MustWait
       THEN /\ pc' = [pc EXCEPT ![p] = "asleep"]
            /\ UNCHANGED outstanding
       ELSE /\ outstanding' = outstanding + 1
            /\ pc' = [pc EXCEPT ![p] = "op"]
    /\ UNCHANGED <<disk, cache, dirty, lh, committing, phase, tail, panicked, blk, written, crashes>>

\* bread(b), a change to its data, and the tests of log_write, made before it
\* takes log.lock.  The buffer stays locked until brelse.
Modify(p, b, v) ==
    /\ At(p, "op")
    /\ \A q \in Proc : blk[q] # b
    /\ Cardinality(written[p] \cup {b}) <= OpBlocks
    /\ cache' = [cache EXCEPT ![b] = v]
    /\ IF Len(lh) >= LOGSIZE \/ Len(lh) >= NLOG - 1 \/ outstanding < 1
       THEN panicked' = TRUE /\ UNCHANGED <<pc, blk>>
       ELSE /\ pc' = [pc EXCEPT ![p] = "log"] /\ blk' = [blk EXCEPT ![p] = b]
            /\ UNCHANGED panicked
    /\ UNCHANGED <<disk, dirty, lh, outstanding, committing, phase, tail, written, crashes>>

\* Mutant: b->flags |= B_DIRTY is missing.
log_writeUnpinned(p) ==
    /\ At(p, "log")
    /\ lh' = IF blk[p] \in ToSet(lh) THEN lh ELSE Append(lh, blk[p])
    /\ written' = [written EXCEPT ![p] = @ \cup {blk[p]}]
    /\ pc' = [pc EXCEPT ![p] = "op"] /\ blk' = [blk EXCEPT ![p] = NoBlock]
    /\ UNCHANGED <<disk, cache, dirty, outstanding, committing, phase, tail, panicked, crashes>>

\* the rest of log_write, and brelse
log_write(p) ==
    /\ At(p, "log")
    /\ lh' = IF blk[p] \in ToSet(lh) THEN lh ELSE Append(lh, blk[p])
    /\ dirty' = dirty \cup {blk[p]}
    /\ written' = [written EXCEPT ![p] = @ \cup {blk[p]}]
    /\ pc' = [pc EXCEPT ![p] = "op"] /\ blk' = [blk EXCEPT ![p] = NoBlock]
    /\ UNCHANGED <<disk, cache, outstanding, committing, phase, tail, panicked, crashes>>

\* bread(b) for a block that is only read; a buffer that is neither locked nor
\* dirty may be given to another block
bread(p, b) ==
    /\ At(p, "op") /\ cache[b] = NoValue
    /\ cache' = [cache EXCEPT ![b] = home[b]]
    /\ UNCHANGED <<disk, dirty, lh, outstanding, committing, phase, tail, panicked, procs, crashes>>
Recycle(b) ==
    /\ Up /\ cache[b] # NoValue /\ b \notin dirty /\ \A q \in Proc : blk[q] # b
    /\ cache' = [cache EXCEPT ![b] = NoValue]
    /\ UNCHANGED <<disk, dirty, lh, outstanding, committing, phase, tail, panicked, procs, crashes>>

end_op(p) ==
    /\ At(p, "op")
    /\ outstanding' = outstanding - 1
    /\ written' = [written EXCEPT ![p] = {}]
    /\ IF committing
       THEN panicked' = TRUE /\ UNCHANGED <<committing, phase, tail, pc>>
       ELSE /\ IF outstanding' = 0
               THEN /\ committing' = TRUE
                    /\ phase' = IF lh = <<>> THEN "done" ELSE "write_log"
                    /\ tail' = 1
                    /\ pc' = [pc EXCEPT ![p] = "commit"]
               ELSE /\ pc' = Woken([pc EXCEPT ![p] = "idle"])
                    /\ UNCHANGED <<committing, phase, tail>>
            /\ UNCHANGED panicked
    /\ UNCHANGED <<disk, cache, dirty, lh, blk, crashes>>

-----------------------------------------------------------------------------
(* commit and recover_from_log: one at a time, one bwrite a step *)

During(ph) == ~panicked /\ phase = ph

Advance(nextphase) ==
    IF tail < Len(lh) THEN tail' = tail + 1 /\ UNCHANGED phase
    ELSE tail' = 1 /\ phase' = nextphase

\* Block number tail of the log is the buffer of another block if the
\* transaction is longer than the log.
write_log ==
    /\ During("write_log")
    /\ IF tail < NLOG
       THEN /\ logblock' = [logblock EXCEPT ![tail] = Contents(lh[tail])]
            /\ UNCHANGED <<home, cache, dirty>>
       ELSE /\ home' = [home EXCEPT ![Beyond] = Contents(lh[tail])]
            /\ cache' = [cache EXCEPT ![Beyond] = Contents(lh[tail])]
            /\ dirty' = dirty \ {Beyond}
            /\ UNCHANGED logblock
    /\ Advance("write_head")
    /\ UNCHANGED <<head, lh, outstanding, committing, panicked, procs, crashes>>

\* "the real commit"
write_head ==
    /\ During("write_head")
    /\ head' = lh
    /\ phase' = "install"
    /\ UNCHANGED <<home, logblock, cache, dirty, lh, outstanding, committing, tail, panicked, procs, crashes>>

\* copies a block from the log to its buffer and home location, which clears B_DIRTY
LogContents(i) == IF i < NLOG THEN logblock[i] ELSE Contents(Beyond)
install_trans ==
    /\ During("install")
    /\ home' = [home EXCEPT ![lh[tail]] = LogContents(tail)]
    /\ cache' = [cache EXCEPT ![lh[tail]] = LogContents(tail)]
    /\ dirty' = dirty \ {lh[tail]}
    /\ Advance("erase")
    /\ UNCHANGED <<logblock, head, lh, outstanding, committing, panicked, procs, crashes>>

\* log.lh.n = 0; write_head
erase ==
    /\ During("erase")
    /\ lh' = <<>> /\ head' = <<>>
    /\ phase' = IF committing THEN "done" ELSE "none"
    /\ UNCHANGED <<home, logblock, cache, dirty, outstanding, committing, tail, panicked, procs, crashes>>

\* Mutant: no wakeup(&log) after the commit.
FinishSilently(p) ==
    /\ During("done") /\ pc[p] = "commit"
    /\ committing' = FALSE
    /\ phase' = "none"
    /\ pc' = [pc EXCEPT ![p] = "idle"]
    /\ UNCHANGED <<disk, cache, dirty, lh, outstanding, tail, panicked, blk, written, crashes>>

\* the end of end_op
Finish(p) ==
    /\ During("done") /\ pc[p] = "commit"
    /\ committing' = FALSE
    /\ phase' = "none"
    /\ pc' = Woken([pc EXCEPT ![p] = "idle"])
    /\ UNCHANGED <<disk, cache, dirty, lh, outstanding, tail, panicked, blk, written, crashes>>

\* initlog at boot
read_head ==
    /\ During("read_head")
    /\ lh' = head /\ tail' = 1
    /\ phase' = IF head = <<>> THEN "erase" ELSE "install"
    /\ UNCHANGED <<disk, cache, dirty, outstanding, committing, panicked, procs, crashes>>

\* The machine stops between two writes and boots again.
Crash ==
    /\ crashes < MaxCrashes
    /\ crashes' = crashes + 1
    /\ cache' = [b \in Block |-> NoValue] /\ dirty' = {}
    /\ lh' = <<>> /\ outstanding' = 0 /\ committing' = FALSE
    /\ phase' = "read_head" /\ tail' = 1
    /\ panicked' = FALSE
    /\ pc' = [p \in Proc |-> "idle"] /\ blk' = [p \in Proc |-> NoBlock]
    /\ written' = [p \in Proc |-> {}]
    /\ UNCHANGED disk

-----------------------------------------------------------------------------

ProcStep(p) ==
    \/ begin_op(p) \/ log_write(p) \/ end_op(p) \/ Finish(p)
LogStep == write_log \/ write_head \/ install_trans \/ erase \/ read_head

Next ==
    \/ \E p \in Proc :
          \/ Call(p) \/ ProcStep(p)
          \/ \E b \in Block : bread(p, b) \/ \E v \in Value : Modify(p, b, v)
    \/ \E b \in Block : Recycle(b)
    \/ LogStep \/ Crash

Spec == Init /\ [][Next]_vars

-----------------------------------------------------------------------------

\* Every variable has a value of its type; the transaction fits in log.lh.
TypeOK ==
    /\ home \in [Block -> Value] /\ logblock \in [1 .. NLOG - 1 -> Value]
    /\ head \in Seq(Block) /\ lh \in Seq(Block) /\ Len(lh) <= LOGSIZE
    /\ cache \in [Block -> Value \cup {NoValue}] /\ dirty \subseteq Block
    /\ outstanding \in 0 .. Cardinality(Proc) /\ committing \in BOOLEAN
    /\ phase \in {"none", "write_log", "write_head", "install", "erase", "done", "read_head"}
    /\ tail \in 1 .. LOGSIZE /\ panicked \in BOOLEAN
    /\ pc \in [Proc -> {"idle", "begin", "asleep", "op", "log", "commit"}]
    /\ blk \in [Proc -> Block \cup {NoBlock}] /\ written \in [Proc -> SUBSET Block]
    /\ crashes \in 0 .. MaxCrashes

Active == {p \in Proc : pc[p] \in {"op", "log"}}

\* The blocks that the calls under way may still write, one element for each.
Reserved == {x \in Active \X (1 .. MAXOPBLOCKS) : x[2] > Cardinality(written[x[1]])}

\* Types are kept and the space that begin_op reserves is enough: what is logged
\* already and what the calls under way may still write fit into a transaction,
\* although the calls log in any order and absorb each other's blocks; the
\* transaction fits into the log on the disk, one block smaller than LOGSIZE as
\* mkfs makes it; and log_write, which tests that before it takes log.lock, and
\* end_op never panic.
SpaceReserved ==
    /\ TypeOK
    /\ outstanding = Cardinality(Active)
    /\ Len(lh) + Cardinality(Reserved) <= LOGSIZE
    /\ Len(lh) < NLOG
    /\ ~panicked

\* No wakeup is lost: whoever sleeps in begin_op has somebody who will wake it,
\* a call under way or a commit.
SleepersWillBeWoken == (\E p \in Proc : pc[p] = "asleep") => committing \/ outstanding > 0

\* The contents a crash leaves: the home locations, overlaid by the committed
\* transaction if the header of the log names one.
Durable ==
    [b \in Block |-> IF \E i \in 1 .. Len(head) : head[i] = b
                     THEN logblock[CHOOSE i \in 1 .. Len(head) : head[i] = b]
                     ELSE home[b]]

\* What system calls see: the buffers, or before recovery is over what
\* recovery will make of the disk.
Current == IF Up \/ panicked THEN [b \in Block |-> Contents(b)] ELSE Durable

\* The log implements a disk with atomic, durable transactions: a crash at any
\* point, during recovery too, leaves all of a system call's updates or none.
Disk == INSTANCE AtomicDisk WITH
    durable <- Durable,
    current <- Current,
    active <- Active
DiskSpec == Disk!Spec
=============================================================================
