------------------------------- MODULE Blocks -------------------------------
(***************************************************************************)
(* The buffer cache (bio.c) over sleep locks (sleeplock.c) and the disk    *)
(* driver: ide.c with its request queue and interrupt, or memide.c, which  *)
(* copies at once.  Processes read a block, or add 1 to it and write it    *)
(* (bwrite), or add 1 and leave it to the log (log_write marks the buffer  *)
(* dirty; a later bwrite installs it).  Variables:                         *)
(*   driver   "ide" or "memide"                                            *)
(*   buf      the buffers: block, reference count, flags, data, lock       *)
(*   lru      the buffers, most recently used first                        *)
(*   idequeue the buffers queued for the disk; the first is being served   *)
(*   disk     the content of each block                                    *)
(*   user     what each process is doing: step, request, buffer, asleep    *)
(*   left     operations each process may still start                      *)
(*   sum      the number of additions made to each block                   *)
(*   bpanic   the message of a panic, or ""                                *)
(*   misread  history: blocks of which a read has failed                   *)
(***************************************************************************)
EXTENDS Integers, Sequences, FiniteSets, FiniteSetsExt

CONSTANTS User,     \* processes, positive numbers
          Block, NBUF, \* blocks, number of buffers
          MaxOps,   \* operations of one process
          MaxMisread \* bound: blocks of which a read may fail

ASSUME BlocksAssumption ==
    /\ User \subseteq Nat \ {0} /\ IsFiniteSet(User)
    /\ NBUF \in Nat \ {0} /\ MaxOps \in Nat /\ MaxMisread \in Nat /\ 0 \notin Block

VARIABLES driver, buf, lru, idequeue, disk, user, left, sum, bpanic, misread
blockVars == <<driver, buf, lru, idequeue, disk, user, left, sum, bpanic, misread>>

Buf == 1..NBUF
NoBlock == 0
Resting == [pc |-> "idle", op |-> "none", blk |-> NoBlock, b |-> 0, asleep |-> FALSE]

BInit ==
    /\ driver \in {"ide", "memide"}
    /\ buf = [b \in Buf |-> [blk |-> NoBlock, ref |-> 0, valid |-> FALSE, dirty |-> FALSE, data |-> 0, holder |-> 0]]
    /\ lru = [k \in Buf |-> NBUF + 1 - k]
    /\ idequeue = <<>>
    /\ disk = [k \in Block |-> 0]
    /\ user = [p \in User |-> Resting]
    /\ left = [p \in User |-> MaxOps]
    /\ sum = [k \in Block |-> 0]
    /\ bpanic = "" /\ misread = {}
-----------------------------------------------------------------------------
Ready(p, pc) == user[p].pc = pc /\ ~user[p].asleep /\ bpanic = ""
Move(p, pc) == user' = [user EXCEPT ![p].pc = pc]
Mine(p) == buf[user[p].b]
\* wakeup: the processes in one of the steps pcs on buffer b.
Woken(us, pcs, b) == [q \in User |-> IF us[q].pc \in pcs /\ us[q].b = b THEN [us[q] EXCEPT !.asleep = FALSE] ELSE us[q]]

\* Mutant: a buffer that the log has left dirty is recycled too.
VictimDirty == LET ks == {k \in DOMAIN lru : buf[lru[k]].ref = 0} IN IF ks = {} THEN 0 ELSE lru[Max(ks)]
\* The least recently used buffer that nobody uses and that the log has not
\* left dirty; 0 if there is none.
Victim ==
    LET ks == {k \in DOMAIN lru : buf[lru[k]].ref = 0 /\ ~buf[lru[k]].dirty} IN IF ks = {} THEN 0 ELSE lru[Max(ks)]

bget(p, op, blk) ==
    LET cached == {k \in DOMAIN lru : buf[lru[k]].blk = blk}
        b == IF cached # {} THEN lru[Min(cached)] ELSE Victim IN
    /\ Ready(p, "idle") /\ left[p] > 0
    /\ op = "install" => \E c \in Buf : buf[c].blk = blk /\ buf[c].dirty
    /\ left' = [left EXCEPT ![p] = @ - 1]
    /\ IF b = 0 THEN bpanic' = "bget: no buffers" /\ UNCHANGED <<buf, user>>
       ELSE /\ buf' = [buf EXCEPT ![b] = IF cached # {} THEN [buf[b] EXCEPT !.ref = @ + 1]
                                         ELSE [buf[b] EXCEPT !.blk = blk, !.ref = 1, !.valid = FALSE]]
            /\ user' = [user EXCEPT ![p] = [pc |-> "lock", op |-> op, blk |-> blk, b |-> b, asleep |-> FALSE]]
            /\ UNCHANGED bpanic
    /\ UNCHANGED <<driver, lru, idequeue, disk, sum>>

acquiresleep(p) ==
    /\ Ready(p, "lock")
    /\ IF Mine(p).holder # 0
       THEN user' = [user EXCEPT ![p].asleep = TRUE] /\ UNCHANGED buf
       ELSE buf' = [buf EXCEPT ![user[p].b].holder = p] /\ Move(p, "locked")
    /\ UNCHANGED <<driver, lru, idequeue, disk, left, sum, bpanic>>

\* idestart hands the data of a dirty buffer to the disk.
idestart(dk, bs, b) == IF bs[b].dirty THEN [dk EXCEPT ![bs[b].blk] = bs[b].data] ELSE dk

\* The disk has served buffer b: a dirty one has been written, another one has
\* been read, if there was no error.  After an error the data stay as they were
\* in memory, and the buffer counts as valid all the same.
Served(bs, dk, b, ok) ==
    [bs EXCEPT ![b] = [@ EXCEPT !.valid = TRUE, !.dirty = FALSE,
                                !.data = IF bs[b].dirty \/ ~ok THEN bs[b].data ELSE dk[bs[b].blk]]]

\* iderw on buffer b of the table bs: queue it, or copy at once.
iderw(p, bs, b, after) ==
    IF bs[b].valid /\ ~bs[b].dirty
    THEN bpanic' = "iderw: nothing to do" /\ buf' = bs /\ UNCHANGED <<idequeue, disk, user>>
    ELSE /\ IF driver = "ide"
            THEN /\ idequeue' = Append(idequeue, b)
                 /\ disk' = IF idequeue = <<>> THEN idestart(disk, bs, b) ELSE disk
                 /\ buf' = bs
                 /\ user' = [user EXCEPT ![p] = [@ EXCEPT !.pc = after, !.asleep = TRUE]]
            ELSE /\ disk' = idestart(disk, bs, b)
                 /\ buf' = Served(bs, disk, b, TRUE)
                 /\ Move(p, after)
                 /\ UNCHANGED idequeue
         /\ UNCHANGED bpanic

bread(p) ==
    /\ Ready(p, "locked")
    /\ IF Mine(p).valid THEN Move(p, "have") /\ UNCHANGED <<buf, idequeue, disk, bpanic>>
       ELSE iderw(p, buf, user[p].b, "reading")
    /\ UNCHANGED <<driver, lru, left, sum>>

\* Back from iderw: the loop looks at the flags again.
iderwWakes(p) ==
    /\ Ready(p, "reading") \/ Ready(p, "writing")
    /\ IF ~Mine(p).valid \/ Mine(p).dirty THEN user' = [user EXCEPT ![p].asleep = TRUE]
       ELSE Move(p, IF user[p].pc = "writing" THEN "release" ELSE "have")
    /\ UNCHANGED <<driver, buf, lru, idequeue, disk, left, sum, bpanic>>

\* The disk interrupts when the first request is finished; idewait tells whether
\* a read has failed (ok is FALSE).
ideintr(ok) ==
    LET b == Head(idequeue)
        served == Served(buf, disk, b, ok) IN
    /\ idequeue # <<>> /\ bpanic = ""
    /\ ok \/ ~buf[b].dirty
    /\ misread' = IF ok THEN misread ELSE misread \cup {buf[b].blk}
    /\ Cardinality(misread') <= MaxMisread
    /\ buf' = served
    /\ idequeue' = Tail(idequeue)
    /\ user' = Woken(user, {"reading", "writing"}, b)
    /\ disk' = IF Tail(idequeue) = <<>> THEN disk ELSE idestart(disk, served, Head(Tail(idequeue)))
    /\ UNCHANGED <<driver, lru, left, sum, bpanic>>

\* bwrite marks the buffer dirty and writes it.
bwrite(p, bs, b) == iderw(p, [bs EXCEPT ![b].dirty = TRUE], b, "writing")

\* With the buffer locked and valid: read it; add to it and bwrite it; add to
\* it and log_write it; or bwrite what the log left dirty.
use(p) ==
    LET b == user[p].b  op == user[p].op
        added == [buf EXCEPT ![b] = [buf[b] EXCEPT !.data = @ + 1, !.dirty = TRUE]] IN
    /\ Ready(p, "have")
    /\ \/ op = "read" /\ Move(p, "release") /\ UNCHANGED <<buf, idequeue, disk, sum, bpanic>>
       \/ /\ op = "log" /\ Move(p, "release") /\ buf' = added
          /\ sum' = [sum EXCEPT ![user[p].blk] = @ + 1]
          /\ UNCHANGED <<idequeue, disk, bpanic>>
       \/ op = "write" /\ sum' = [sum EXCEPT ![user[p].blk] = @ + 1] /\ bwrite(p, added, b)
       \/ op = "install" /\ UNCHANGED sum /\ bwrite(p, buf, b)
    /\ UNCHANGED <<driver, lru, left>>

\* Mutant: the waiting processes are not woken.
releasesleepSilent(p) ==
    /\ Ready(p, "release")
    /\ buf' = [buf EXCEPT ![user[p].b].holder = 0]
    /\ user' = [user EXCEPT ![p].pc = "drop"]
    /\ UNCHANGED <<driver, lru, idequeue, disk, left, sum, bpanic>>
\* brelse: unlock and wake, then drop the reference.
releasesleep(p) ==
    LET b == user[p].b IN
    /\ Ready(p, "release")
    /\ buf' = [buf EXCEPT ![b].holder = 0]
    /\ user' = [Woken(user, {"lock"}, b) EXCEPT ![p].pc = "drop"]
    /\ UNCHANGED <<driver, lru, idequeue, disk, left, sum, bpanic>>

\* The list with buffer b moved to its front.
ToFront(b) ==
    LET pos == CHOOSE k \in Buf : lru[k] = b IN
    [k \in Buf |-> IF k = 1 THEN b ELSE IF k <= pos THEN lru[k - 1] ELSE lru[k]]

brelse(p) ==
    LET b == user[p].b IN
    /\ Ready(p, "drop")
    /\ buf' = [buf EXCEPT ![b].ref = @ - 1]
    /\ lru' = IF Mine(p).ref = 1 THEN ToFront(b) ELSE lru
    /\ user' = [user EXCEPT ![p] = Resting]
    /\ UNCHANGED <<driver, idequeue, disk, left, sum, bpanic>>

UserStep(p) ==
    /\ \/ \E op \in {"read", "write", "log", "install"}, blk \in Block : bget(p, op, blk)
       \/ acquiresleep(p) \/ bread(p) \/ iderwWakes(p) \/ use(p) \/ releasesleep(p) \/ brelse(p)
    /\ UNCHANGED misread

BNext == (\E ok \in BOOLEAN : ideintr(ok)) \/ \E p \in User : UserStep(p)

BSpec == BInit /\ [][BNext]_blockVars
-----------------------------------------------------------------------------
\* A block has at most one buffer, whoever looks it up, recycles a buffer or
\* waits for its lock in the meantime, and nobody panics for want of I/O.
OneBufferPerBlock ==
    /\ \A b, c \in Buf : buf[b].blk = buf[c].blk /\ b # c => buf[b].blk = NoBlock
    /\ \A p \in User : user[p].b # 0 => Mine(p).blk = user[p].blk /\ Mine(p).ref > 0
    /\ bpanic # "iderw: nothing to do"

\* No addition to a block is lost: there is one buffer for a block, and the value
\* of the block (its buffer while that is valid or dirty, else the disk) counts
\* them all, also while the only copy is a buffer that the log has left dirty
\* and nobody references.  The exception is a block of which a read has failed:
\* the driver hands on what the buffer held before, of another block, as valid.
NoLostUpdate ==
    /\ OneBufferPerBlock
    /\ \A k \in Block \ misread :
         LET cached == {b \in Buf : buf[b].blk = k /\ (buf[b].valid \/ buf[b].dirty)} IN
         IF cached = {} THEN disk[k] = sum[k] ELSE \A b \in cached : buf[b].data = sum[k]

\* A process sleeps on a buffer only while it is queued for the disk, and on a
\* lock only while the lock is held: no completion and no release is missed.
SleepersHaveWaker ==
    \A p \in User : user[p].asleep =>
      IF user[p].pc = "lock" THEN Mine(p).holder # 0
      ELSE \E k \in DOMAIN idequeue : idequeue[k] = user[p].b
=============================================================================
