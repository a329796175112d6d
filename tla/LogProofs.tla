----------------------------- MODULE LogProofs ------------------------------
(***************************************************************************)
(* Proofs about the log, for every finite set of processes, every set of   *)
(* blocks, every size of the log and any number of crashes: no wakeup is   *)
(* lost in begin_op, the space it reserves is enough, and commit and       *)
(* recovery make a transaction durable in one step.                        *)
(***************************************************************************)
EXTENDS Log, FiniteSetTheorems, TLAPS

Labels == {"idle", "begin", "asleep", "op", "log", "commit"}

\* The calls under way are counted.
OutstandingCounts == outstanding = Cardinality(Active)

\* Nobody is inside a call while a transaction commits.
CommitAlone == committing => Active = {}

\* Before recovery is over no process has made a call.
QuietRecovery == ~committing /\ phase # "none" => \A p \in Proc : pc[p] = "idle"

\* The transaction is empty once it has been installed, and until a call writes.
EmptyBetween ==
    /\ phase = "done" => committing /\ lh = <<>>
    /\ phase = "none" /\ Active = {} => lh = <<>>

\* The inductive invariant: that a sleeper has somebody who will wake it, with
\* what end_op relies on to be the one.
WakeInv ==
    /\ pc \in [Proc -> Labels] /\ committing \in BOOLEAN
    /\ OutstandingCounts /\ CommitAlone /\ QuietRecovery /\ EmptyBetween
    /\ SleepersWillBeWoken

-----------------------------------------------------------------------------
\* The calls under way are finitely many, and outstanding is 0 exactly when
\* there is none.
LEMMA ActiveFinite ==
    ASSUME OutstandingCounts
    PROVE  /\ IsFiniteSet(Active) /\ outstanding \in Nat
           /\ outstanding = 0 <=> Active = {}
<1>1. Active \in SUBSET Proc /\ IsFiniteSet(Proc)
  BY LogAssumption DEF Active
<1>2. IsFiniteSet(Active)
  BY <1>1, FS_Subset
<1> QED
  BY <1>2, FS_CardinalityType, FS_EmptySet DEF OutstandingCounts

\* A process that enters or leaves a call is added to those under way or
\* removed; outstanding follows.
LEMMA CountFollows ==
    ASSUME OutstandingCounts, NEW p \in Proc
    PROVE  /\ p \notin Active /\ Active' = Active \cup {p} /\ outstanding' = outstanding + 1 => OutstandingCounts'
           /\ p \in Active /\ Active' = Active \ {p} /\ outstanding' = outstanding - 1 => OutstandingCounts'
           /\ Active' = Active /\ outstanding' = outstanding => OutstandingCounts'
<1>1. IsFiniteSet(Active)
  BY ActiveFinite
<1>2. /\ p \notin Active => Cardinality(Active \cup {p}) = Cardinality(Active) + 1
      /\ p \in Active => Cardinality(Active \ {p}) = Cardinality(Active) - 1
  BY <1>1, FS_AddElement, FS_RemoveElement
<1> QED
  BY <1>2 DEF OutstandingCounts

\* The invariant is untouched by a step that changes none of its variables.
LEMMA WakeUnchanged ==
    ASSUME WakeInv, UNCHANGED <<pc, committing, outstanding, phase, lh>>
    PROVE  WakeInv'
BY DEF WakeInv, OutstandingCounts, CommitAlone, QuietRecovery, EmptyBetween, SleepersWillBeWoken, Active

\* At boot and after a crash nobody sleeps and nobody is in a call.
LEMMA WakeBoot ==
    ASSUME pc = [p \in Proc |-> "idle"], outstanding = 0, committing = FALSE, lh = <<>>, phase = "read_head"
    PROVE  WakeInv
<1>1. Active = {}
  BY DEF Active
<1>2. OutstandingCounts
  BY <1>1, FS_EmptySet DEF OutstandingCounts
<1> QED
  BY <1>1, <1>2 DEF WakeInv, Labels, CommitAlone, QuietRecovery, EmptyBetween, SleepersWillBeWoken

LEMMA WakeCall ==
    ASSUME WakeInv, NEW p \in Proc, Call(p)
    PROVE  WakeInv'
<1>1. pc[p] = "idle" /\ pc' = [pc EXCEPT ![p] = "begin"] /\ (committing \/ phase = "none")
  BY DEF Call, At, Up
<1>2. UNCHANGED <<committing, outstanding, phase, lh>>
  BY DEF Call, memory
<1>3. pc \in [Proc -> Labels]
  BY DEF WakeInv
<1>4. Active' = Active /\ pc' \in [Proc -> Labels] /\ \A q \in Proc : pc'[q] = "asleep" => pc[q] = "asleep"
  BY <1>1, <1>3 DEF Active, Labels
<1>5. OutstandingCounts'
  BY <1>2, <1>4 DEF WakeInv, OutstandingCounts
<1> QED
  BY <1>1, <1>2, <1>4, <1>5 DEF WakeInv, CommitAlone, QuietRecovery, EmptyBetween, SleepersWillBeWoken

\* begin_op sleeps only for a commit or for a call under way: with neither the
\* transaction is empty and there is space for one call.
LEMMA WakeBegin ==
    ASSUME WakeInv, NEW p \in Proc, begin_op(p)
    PROVE  WakeInv'
<1>1. pc[p] = "begin" /\ (committing \/ phase = "none") /\ UNCHANGED <<committing, phase, lh>>
  BY DEF begin_op, At, Up
<1>2. pc \in [Proc -> Labels] /\ OutstandingCounts
  BY DEF WakeInv
<1>3. outstanding \in Nat /\ (outstanding = 0 <=> Active = {})
  BY <1>2, ActiveFinite
<1>4. p \notin Active
  BY <1>1 DEF Active
<1>5. CASE MustWait
  <2>1. pc' = [pc EXCEPT ![p] = "asleep"] /\ outstanding' = outstanding
    BY <1>5 DEF begin_op
  <2>2. Active' = Active /\ pc' \in [Proc -> Labels]
    BY <1>1, <1>2, <2>1 DEF Active, Labels
  <2>3. OutstandingCounts'
    BY <1>2, <2>1, <2>2 DEF OutstandingCounts
  <2>4. committing \/ outstanding > 0
    <3>1. SUFFICES ASSUME ~committing, outstanding = 0
                   PROVE  FALSE
      BY <1>3
    <3>2. lh = <<>>
      BY <1>1, <1>3, <3>1 DEF WakeInv, EmptyBetween
    <3>3. Len(lh) = 0
      BY <3>2
    <3> QED
      BY <1>5, <3>1, <3>3, LogAssumption DEF MustWait
  <2> QED
    BY <1>1, <2>1, <2>2, <2>3, <2>4 DEF WakeInv, CommitAlone, QuietRecovery, EmptyBetween, SleepersWillBeWoken
<1>6. CASE ~MustWait
  <2>1. pc' = [pc EXCEPT ![p] = "op"] /\ outstanding' = outstanding + 1 /\ ~committing
    BY <1>6 DEF begin_op, MustWait
  <2>2. Active' = Active \cup {p} /\ pc' \in [Proc -> Labels]
    BY <1>1, <1>2, <2>1 DEF Active, Labels
  <2>3. OutstandingCounts'
    BY <1>2, <1>4, <2>1, <2>2, CountFollows
  <2>4. outstanding' > 0
    BY <1>3, <2>1
  <2> QED
    BY <1>1, <2>1, <2>2, <2>3, <2>4 DEF WakeInv, CommitAlone, QuietRecovery, EmptyBetween, SleepersWillBeWoken
<1> QED
  BY <1>5, <1>6

\* A process inside a call: no commit is under way and recovery is over.
LEMMA InsideCall ==
    ASSUME WakeInv, NEW p \in Proc, pc[p] \in {"op", "log"}
    PROVE  p \in Active /\ ~committing /\ phase = "none"
BY DEF WakeInv, CommitAlone, QuietRecovery, Active

\* Modify and log_write move a process within its call.
LEMMA WakeWithin ==
    ASSUME WakeInv, NEW p \in Proc, pc[p] \in {"op", "log"}, NEW to \in {"op", "log"},
           pc' = [pc EXCEPT ![p] = to], UNCHANGED <<committing, outstanding, phase>>
    PROVE  WakeInv'
<1>1. p \in Active /\ ~committing /\ phase = "none"
  BY InsideCall
<1>2. pc \in [Proc -> Labels] /\ OutstandingCounts
  BY DEF WakeInv
<1>3. Active' = Active /\ pc' \in [Proc -> Labels] /\ \A q \in Proc : pc'[q] = "asleep" => pc[q] = "asleep"
  BY <1>2 DEF Active, Labels
<1>4. OutstandingCounts'
  BY <1>2, <1>3 DEF OutstandingCounts
<1> QED
  BY <1>1, <1>3, <1>4 DEF WakeInv, CommitAlone, QuietRecovery, EmptyBetween, SleepersWillBeWoken

LEMMA WakeModify ==
    ASSUME WakeInv, NEW p \in Proc, NEW b \in Block, NEW v \in Value, Modify(p, b, v)
    PROVE  WakeInv'
<1>1. pc[p] = "op" /\ UNCHANGED <<committing, outstanding, phase, lh>>
  BY DEF Modify, At
<1>2. pc' = pc \/ pc' = [pc EXCEPT ![p] = "log"]
  BY DEF Modify
<1>3. CASE pc' = pc
  BY <1>1, <1>3, WakeUnchanged
<1>4. CASE pc' = [pc EXCEPT ![p] = "log"]
  BY <1>1, <1>4, WakeWithin
<1> QED
  BY <1>2, <1>3, <1>4

LEMMA WakeLogWrite ==
    ASSUME WakeInv, NEW p \in Proc, log_write(p)
    PROVE  WakeInv'
<1>1. pc[p] = "log" /\ pc' = [pc EXCEPT ![p] = "op"] /\ UNCHANGED <<committing, outstanding, phase>>
  BY DEF log_write, At
<1> QED
  BY <1>1, WakeWithin

\* end_op commits when it was the last call, and else wakes the sleepers.
LEMMA WakeEnd ==
    ASSUME WakeInv, NEW p \in Proc, end_op(p)
    PROVE  WakeInv'
<1>1. pc[p] = "op" /\ outstanding' = outstanding - 1 /\ lh' = lh
  BY DEF end_op, At
<1>2. p \in Active /\ ~committing /\ phase = "none"
  BY <1>1, InsideCall
<1>3. pc \in [Proc -> Labels] /\ OutstandingCounts
  BY DEF WakeInv
<1>4. CASE outstanding' = 0
  <2>1. /\ committing' = TRUE /\ phase' = (IF lh = <<>> THEN "done" ELSE "write_log")
        /\ pc' = [pc EXCEPT ![p] = "commit"]
    BY <1>2, <1>4 DEF end_op
  <2>2. Active' = Active \ {p} /\ pc' \in [Proc -> Labels]
    BY <1>1, <1>3, <2>1 DEF Active, Labels
  <2>3. OutstandingCounts'
    BY <1>1, <1>2, <1>3, <2>2, CountFollows
  <2>4. Active' = {}
    <3>1. IsFiniteSet(Active)
      BY <1>3, ActiveFinite
    <3>2. IsFiniteSet(Active \ {p}) /\ Cardinality(Active \ {p}) = 0
      BY <1>4, <2>2, <2>3, <3>1, FS_RemoveElement DEF OutstandingCounts
    <3> QED
      BY <2>2, <3>2, FS_EmptySet
  <2> QED
    BY <1>1, <2>1, <2>2, <2>3, <2>4 DEF WakeInv, CommitAlone, QuietRecovery, EmptyBetween, SleepersWillBeWoken
<1>5. CASE outstanding' # 0
  <2>1. UNCHANGED <<committing, phase>> /\ pc' = Woken([pc EXCEPT ![p] = "idle"])
    BY <1>2, <1>5 DEF end_op
  <2>2. Active' = Active \ {p} /\ pc' \in [Proc -> Labels] /\ \A q \in Proc : pc'[q] # "asleep"
    BY <1>1, <1>3, <2>1 DEF Active, Labels, Woken
  <2>3. OutstandingCounts'
    BY <1>1, <1>2, <1>3, <2>2, CountFollows
  <2>4. Active' # {}
    BY <1>5, <2>3, FS_EmptySet DEF OutstandingCounts
  <2> QED
    BY <1>1, <1>2, <2>1, <2>2, <2>3, <2>4 DEF WakeInv, CommitAlone, QuietRecovery, EmptyBetween, SleepersWillBeWoken
<1> QED
  BY <1>4, <1>5

\* The end of the commit wakes the sleepers.
LEMMA WakeFinish ==
    ASSUME WakeInv, NEW p \in Proc, Finish(p)
    PROVE  WakeInv'
<1>1. /\ phase = "done" /\ pc[p] = "commit" /\ committing' = FALSE /\ phase' = "none"
      /\ pc' = Woken([pc EXCEPT ![p] = "idle"]) /\ UNCHANGED <<lh, outstanding>>
  BY DEF Finish, During
<1>2. pc \in [Proc -> Labels] /\ OutstandingCounts /\ lh = <<>>
  BY <1>1 DEF WakeInv, EmptyBetween
<1>3. Active' = Active /\ pc' \in [Proc -> Labels] /\ \A q \in Proc : pc'[q] # "asleep"
  BY <1>1, <1>2 DEF Active, Labels, Woken
<1>4. OutstandingCounts'
  BY <1>1, <1>2, <1>3 DEF OutstandingCounts
<1> QED
  BY <1>1, <1>2, <1>3, <1>4 DEF WakeInv, CommitAlone, QuietRecovery, EmptyBetween, SleepersWillBeWoken

\* Commit and recovery go through their phases; the last one empties the
\* transaction.
LEMMA WakeLogStep ==
    ASSUME WakeInv, LogStep
    PROVE  WakeInv'
<1>1. /\ UNCHANGED <<pc, committing, outstanding>>
      /\ phase \notin {"none", "done"}
      /\ \/ phase' \notin {"none", "done"}
         \/ lh' = <<>> /\ phase' = IF committing THEN "done" ELSE "none"
  <2>1. CASE write_log
    BY <2>1 DEF write_log, During, Advance, procs
  <2>2. CASE write_head
    BY <2>2 DEF write_head, During, procs
  <2>3. CASE install_trans
    BY <2>3 DEF install_trans, During, Advance, procs
  <2>4. CASE erase
    BY <2>4 DEF erase, During, procs
  <2>5. CASE read_head
    BY <2>5 DEF read_head, During, procs
  <2> QED
    BY <2>1, <2>2, <2>3, <2>4, <2>5 DEF LogStep
<1>2. Active' = Active
  BY <1>1 DEF Active
<1>3. OutstandingCounts'
  BY <1>1, <1>2 DEF WakeInv, OutstandingCounts
<1> QED
  BY <1>1, <1>2, <1>3 DEF WakeInv, CommitAlone, QuietRecovery, EmptyBetween, SleepersWillBeWoken

-----------------------------------------------------------------------------
\* The invariant holds in every reachable state of begin_op, log_write, end_op,
\* commit and recovery, crashes included.
THEOREM WakeInvariance == Spec => []WakeInv
<1>1. Init => WakeInv
  BY WakeBoot DEF Init
<1>2. WakeInv /\ [Next]_vars => WakeInv'
  <2> SUFFICES ASSUME WakeInv, [Next]_vars
               PROVE  WakeInv'
    OBVIOUS
  <2>1. CASE UNCHANGED vars
    BY <2>1, WakeUnchanged DEF vars, memory, procs
  <2>2. CASE Crash
    <3>1. /\ pc' = [p \in Proc |-> "idle"] /\ outstanding' = 0 /\ committing' = FALSE
          /\ lh' = <<>> /\ phase' = "read_head"
      BY <2>2 DEF Crash
    <3>2. Active' = {}
      BY <3>1 DEF Active
    <3>3. OutstandingCounts'
      BY <3>1, <3>2, FS_EmptySet DEF OutstandingCounts
    <3> QED
      BY <3>1, <3>2, <3>3 DEF WakeInv, Labels, CommitAlone, QuietRecovery, EmptyBetween, SleepersWillBeWoken
  <2>3. CASE LogStep
    BY <2>3, WakeLogStep
  <2>4. ASSUME NEW b \in Block, Recycle(b)
        PROVE  WakeInv'
    BY <2>4, WakeUnchanged DEF Recycle, procs
  <2>5. ASSUME NEW p \in Proc, Call(p) \/ ProcStep(p)
        PROVE  WakeInv'
    BY <2>5, WakeCall, WakeBegin, WakeLogWrite, WakeEnd, WakeFinish DEF ProcStep
  <2>6. ASSUME NEW p \in Proc, NEW b \in Block, bread(p, b)
        PROVE  WakeInv'
    BY <2>6, WakeUnchanged DEF bread, procs
  <2>7. ASSUME NEW p \in Proc, NEW b \in Block, NEW v \in Value, Modify(p, b, v)
        PROVE  WakeInv'
    BY <2>7, WakeModify
  <2> QED
    BY <2>1, <2>2, <2>3, <2>4, <2>5, <2>6, <2>7 DEF Next
<1> QED
  BY <1>1, <1>2, PTL DEF Spec

\* No wakeup(&log) is lost: at no time does a process sleep in begin_op with
\* neither a call under way nor a commit that will wake it.
THEOREM AlwaysWoken == Spec => []SleepersWillBeWoken
<1>1. WakeInv => SleepersWillBeWoken
  BY DEF WakeInv
<1> QED
  BY <1>1, WakeInvariance, PTL

\* end_op never meets log.committing: while a transaction commits no process
\* is between begin_op and end_op, before and after crashes.
THEOREM AlwaysCommitAlone == Spec => []CommitAlone
<1>1. WakeInv => CommitAlone
  BY DEF WakeInv
<1> QED
  BY <1>1, WakeInvariance, PTL

-----------------------------------------------------------------------------
(* The reservation of begin_op *)

\* What the variables range over, but for the counters.
Shapes ==
    /\ home \in [Block -> Value] /\ logblock \in [1 .. NLOG - 1 -> Value]
    /\ head \in Seq(Block) /\ lh \in Seq(Block)
    /\ cache \in [Block -> Value \cup {NoValue}] /\ dirty \subseteq Block
    /\ committing \in BOOLEAN
    /\ phase \in {"none", "write_log", "write_head", "install", "erase", "done", "read_head"}
    /\ panicked \in BOOLEAN
    /\ pc \in [Proc -> Labels]
    /\ blk \in [Proc -> Block \cup {NoBlock}] /\ written \in [Proc -> SUBSET Block]
    /\ crashes \in 0 .. MaxCrashes

\* The loops of commit() and recovery stay inside the transaction.
TailInside ==
    /\ tail \in 1 .. LOGSIZE
    /\ phase \in {"write_log", "install"} => tail <= Len(lh)
    /\ phase = "write_head" => tail = 1 /\ lh # <<>>
    /\ Len(head) <= LOGSIZE

\* A call has logged what it has written, and its next block is within its share.
Share(p) ==
    /\ p \notin Active => written[p] = {}
    /\ IsFiniteSet(written[p]) /\ Cardinality(written[p]) <= OpBlocks
    /\ \A b \in written[p] : \E i \in 1 .. Len(lh) : lh[i] = b
    /\ pc[p] = "log" => blk[p] \in Block /\ Cardinality(written[p] \cup {blk[p]}) <= OpBlocks
Shares == \A p \in Proc : Share(p)

Fits == Len(lh) + Cardinality(Reserved) <= LOGSIZE

\* The inductive invariant of the reservation of begin_op.
SpaceInv == Shapes /\ TailInside /\ Shares /\ Fits

\* What may still be written is finite, and nothing when no call is under way.
LEMMA ReservedFinite ==
    IsFiniteSet(Reserved) /\ Cardinality(Reserved) \in Nat /\ (Active = {} => Cardinality(Reserved) = 0)
<1>1. IsFiniteSet(Active) /\ IsFiniteSet(1 .. MAXOPBLOCKS)
  BY LogAssumption, FS_Subset, FS_Interval DEF Active
<1>2. IsFiniteSet(Active \X (1 .. MAXOPBLOCKS))
  BY <1>1, FS_Product
<1>3. Reserved \in SUBSET (Active \X (1 .. MAXOPBLOCKS))
  BY DEF Reserved
<1>4. IsFiniteSet(Reserved)
  BY <1>2, <1>3, FS_Subset
<1>5. Active = {} => Reserved = {}
  BY DEF Reserved
<1> QED BY <1>4, <1>5, FS_CardinalityType, FS_EmptySet

\* The same of the next state.
LEMMA ReservedFiniteNext ==
    (IsFiniteSet(Reserved) /\ Cardinality(Reserved) \in Nat /\ (Active = {} => Cardinality(Reserved) = 0))'
<1>1. IsFiniteSet(Reserved) /\ Cardinality(Reserved) \in Nat /\ (Active = {} => Cardinality(Reserved) = 0)
  BY ReservedFinite
<1> QED BY <1>1, PTL

\* A transaction within LOGSIZE is all it takes when no call is under way.
LEMMA FitsAlone ==
    ASSUME Active' = {}, Len(lh') <= LOGSIZE, lh' \in Seq(Block)
    PROVE  Fits'
<1>1. Cardinality(Reserved') = 0
  BY ReservedFiniteNext
<1>2. Len(lh') \in Nat
  OBVIOUS
<1> QED BY <1>1, <1>2 DEF Fits

\* Space is kept by a step that logs nothing and begins no call.
LEMMA FitsLess ==
    ASSUME Fits, lh \in Seq(Block), lh' = lh, Active' \subseteq Active,
           \A p \in Active' : written'[p] = written[p]
    PROVE  Fits'
<1>1. Reserved' \in SUBSET Reserved
  BY DEF Reserved
<1>2. Cardinality(Reserved') <= Cardinality(Reserved)
  BY <1>1, ReservedFinite, FS_Subset
<1>3. Cardinality(Reserved') \in Nat /\ Cardinality(Reserved) \in Nat /\ Len(lh) \in Nat
  BY ReservedFinite, ReservedFiniteNext
<1> QED BY <1>2, <1>3, LogAssumption DEF Fits

\* begin_op reserves MAXOPBLOCKS for each call, itself included.
LEMMA FitsBegin ==
    ASSUME WakeInv, WakeInv', lh \in Seq(Block), lh' = lh,
           outstanding' = outstanding + 1, Len(lh) + (outstanding + 1) * MAXOPBLOCKS <= LOGSIZE
    PROVE  Fits'
<1> DEFINE room == Active' \X (1 .. MAXOPBLOCKS)
<1>1. outstanding' = Cardinality(Active') /\ IsFiniteSet(Active')
  BY LogAssumption, FS_Subset DEF WakeInv, OutstandingCounts, Active
<1>2. IsFiniteSet(1 .. MAXOPBLOCKS) /\ Cardinality(1 .. MAXOPBLOCKS) = MAXOPBLOCKS
  BY LogAssumption, FS_Interval
<1>3. IsFiniteSet(room) /\ Cardinality(room) = Cardinality(Active') * MAXOPBLOCKS
  <2>1. /\ IsFiniteSet(Active' \X (1 .. MAXOPBLOCKS))
        /\ Cardinality(Active' \X (1 .. MAXOPBLOCKS)) = Cardinality(Active') * Cardinality(1 .. MAXOPBLOCKS)
    BY <1>1, <1>2, FS_Product
  <2> QED BY <2>1, <1>2
<1>4. Reserved' \in SUBSET room
  BY DEF Reserved
<1>5. Cardinality(Reserved') <= Cardinality(Active') * MAXOPBLOCKS
  BY <1>3, <1>4, FS_Subset
<1>6. Cardinality(Reserved') \in Nat /\ Len(lh) \in Nat
  BY ReservedFiniteNext
<1>7. Cardinality(Active') * MAXOPBLOCKS = (outstanding + 1) * MAXOPBLOCKS
  BY <1>1
<1>8. outstanding \in Nat
  BY ActiveFinite DEF WakeInv
<1>9. (outstanding + 1) * MAXOPBLOCKS \in Nat
  BY <1>8, LogAssumption
<1> HIDE DEF room
<1> QED BY <1>5, <1>6, <1>7, <1>9, LogAssumption DEF Fits

\* The invariant is untouched by a step that changes none of its variables.
LEMMA SpaceUnchanged ==
    ASSUME SpaceInv, Shapes', UNCHANGED <<lh, head, phase, tail, pc, blk, written>>
    PROVE  SpaceInv'
BY DEF SpaceInv, TailInside, Shares, Share, Fits, Reserved, Active

\* The buffers hold values, whoever reads them.
LEMMA ContentsValue ==
    ASSUME Shapes, NEW b \in Block
    PROVE  Contents(b) \in Value
BY DEF Shapes, Contents

\* bread fills a buffer and bget recycles one.
LEMMA SpaceBuffers ==
    ASSUME SpaceInv, NEW b \in Block,
           \/ Recycle(b)
           \/ \E p \in Proc : bread(p, b)
    PROVE  SpaceInv'
<1>1. /\ cache' \in [Block -> Value \cup {NoValue}]
      /\ UNCHANGED <<home, logblock, head, dirty, lh, committing, phase, tail, panicked, pc, blk, written, crashes>>
  BY DEF SpaceInv, Shapes, Recycle, bread, disk, procs
<1>2. Shapes'
  BY <1>1 DEF SpaceInv, Shapes
<1> QED BY <1>1, <1>2, SpaceUnchanged

\* A system call starts, or sleeps for space: nothing is reserved.
LEMMA SpaceOutside ==
    ASSUME SpaceInv, NEW p \in Proc, pc[p] \notin {"op", "log"}, NEW to \in Labels \ {"op", "log"},
           pc' = [pc EXCEPT ![p] = to] \/ pc' = Woken([pc EXCEPT ![p] = to]),
           committing' \in BOOLEAN, phase' = phase \/ phase' = "none",
           UNCHANGED <<home, logblock, head, cache, dirty, lh, tail, panicked, blk, written, crashes>>
    PROVE  SpaceInv'
<1>1. pc \in [Proc -> Labels]
  BY DEF SpaceInv, Shapes
<1>2. /\ pc' \in [Proc -> Labels] /\ Active' = Active
      /\ \A q \in Proc : pc'[q] = "log" => pc[q] = "log"
  BY <1>1 DEF Active, Labels, Woken
<1>3. Shapes'
  BY <1>2 DEF SpaceInv, Shapes
<1>4. TailInside'
  BY DEF SpaceInv, TailInside
<1>5. Shares'
  BY <1>2 DEF SpaceInv, Shares, Share
<1>6. Fits'
  BY <1>2, FitsLess DEF SpaceInv, Shapes
<1> QED BY <1>3, <1>4, <1>5, <1>6 DEF SpaceInv

\* begin_op counts the call only when its blocks fit.
LEMMA SpaceBegin ==
    ASSUME SpaceInv, WakeInv, WakeInv', NEW p \in Proc, begin_op(p)
    PROVE  SpaceInv'
<1>1. /\ pc[p] = "begin"
      /\ UNCHANGED <<home, logblock, head, cache, dirty, lh, committing, phase, tail, panicked, blk, written, crashes>>
  BY DEF begin_op, At, disk
<1>2. committing \in BOOLEAN /\ pc \in [Proc -> Labels] /\ lh \in Seq(Block)
  BY DEF SpaceInv, Shapes
<1>3. CASE MustWait
  <2>1. pc' = [pc EXCEPT ![p] = "asleep"]
    BY <1>3 DEF begin_op
  <2> QED BY <1>1, <1>2, <2>1, SpaceOutside DEF Labels
<1>4. CASE ~MustWait
  <2>1. pc' = [pc EXCEPT ![p] = "op"] /\ outstanding' = outstanding + 1
    BY <1>4 DEF begin_op
  <2>2. Len(lh) + (outstanding + 1) * MAXOPBLOCKS <= LOGSIZE
    <3>1. outstanding \in Nat /\ Len(lh) \in Nat
      BY <1>2, ActiveFinite DEF WakeInv
    <3>2. (outstanding + 1) * MAXOPBLOCKS \in Nat
      BY <3>1, LogAssumption
    <3> QED BY <1>4, <3>1, <3>2, LogAssumption DEF MustWait
  <2>3. Fits'
    BY <1>1, <1>2, <2>1, <2>2, FitsBegin
  <2>4. pc' \in [Proc -> Labels] /\ Active' = Active \cup {p} /\ \A q \in Proc : pc'[q] = "log" => pc[q] = "log"
    BY <1>1, <1>2, <2>1 DEF Active, Labels
  <2>5. Shapes' /\ TailInside'
    BY <1>1, <2>4 DEF SpaceInv, Shapes, TailInside
  <2>6. Shares'
    BY <1>1, <2>4 DEF SpaceInv, Shares, Share
  <2> QED BY <2>3, <2>5, <2>6 DEF SpaceInv
<1> QED BY <1>3, <1>4

\* A call changes a buffer: the block is within its share.
LEMMA SpaceModify ==
    ASSUME SpaceInv, NEW p \in Proc, NEW b \in Block, NEW v \in Value, Modify(p, b, v)
    PROVE  SpaceInv'
<1>1. /\ pc[p] = "op" /\ Cardinality(written[p] \cup {b}) <= OpBlocks
      /\ cache' = [cache EXCEPT ![b] = v]
      /\ UNCHANGED <<home, logblock, head, dirty, lh, committing, phase, tail, written, crashes>>
      /\ \/ panicked' = TRUE /\ UNCHANGED <<pc, blk>>
         \/ pc' = [pc EXCEPT ![p] = "log"] /\ blk' = [blk EXCEPT ![p] = b] /\ UNCHANGED panicked
  BY DEF Modify, At, disk
<1>2. pc \in [Proc -> Labels] /\ blk \in [Proc -> Block \cup {NoBlock}] /\ lh \in Seq(Block)
  BY DEF SpaceInv, Shapes
<1>3. /\ pc' \in [Proc -> Labels] /\ blk' \in [Proc -> Block \cup {NoBlock}] /\ Active' = Active
      /\ \A q \in Proc : pc'[q] = "log" => (pc[q] = "log" /\ blk'[q] = blk[q]) \/ (q = p /\ blk'[q] = b)
  BY <1>1, <1>2 DEF Active, Labels
<1>4. Shapes'
  BY <1>1, <1>3 DEF SpaceInv, Shapes
<1>5. TailInside'
  BY <1>1 DEF SpaceInv, TailInside
<1>6. Shares'
  BY <1>1, <1>3 DEF SpaceInv, Shares, Share
<1>7. Fits'
  BY <1>1, <1>2, <1>3, FitsLess DEF SpaceInv
<1> QED BY <1>4, <1>5, <1>6, <1>7 DEF SpaceInv

\* What log_write does to log.lh: the block is there, whether it was absorbed or appended.
LEMMA LogGrows ==
    ASSUME lh \in Seq(Block), NEW b \in Block,
           lh' = IF b \in ToSet(lh) THEN lh ELSE Append(lh, b)
    PROVE  /\ lh' \in Seq(Block) /\ Len(lh) \in Nat /\ Len(lh') \in {Len(lh), Len(lh) + 1}
           /\ \A i \in 1 .. Len(lh) : i \in 1 .. Len(lh') /\ lh'[i] = lh[i]
           /\ \E i \in 1 .. Len(lh') : lh'[i] = b
           /\ (\E i \in 1 .. Len(lh) : lh[i] = b) => lh' = lh
           /\ (\A i \in 1 .. Len(lh) : lh[i] # b) => lh' = Append(lh, b)
<1>1. b \in ToSet(lh) <=> \E i \in 1 .. Len(lh) : lh[i] = b
  BY DEF ToSet
<1>2. CASE b \in ToSet(lh)
  BY <1>1, <1>2
<1>3. CASE b \notin ToSet(lh)
  <2>1. lh' = Append(lh, b)
    BY <1>3
  <2>2. Len(lh') = Len(lh) + 1 /\ lh'[Len(lh) + 1] = b /\ Len(lh) + 1 \in 1 .. Len(lh')
    BY <2>1
  <2> QED BY <1>1, <1>3, <2>1, <2>2
<1> QED BY <1>2, <1>3

\* A block logged for the first time by its call takes one of its reserved places.
LEMMA LogWriteUses ==
    ASSUME SpaceInv, NEW p \in Proc, pc[p] = "log", log_write(p)
    PROVE  Len(lh') + Cardinality(Reserved') <= Len(lh) + Cardinality(Reserved)
<1> DEFINE b == blk[p]
           n == Cardinality(written[p])
<1>1. /\ written' = [written EXCEPT ![p] = @ \cup {b}] /\ pc' = [pc EXCEPT ![p] = "op"]
      /\ lh' = IF b \in ToSet(lh) THEN lh ELSE Append(lh, b)
  BY DEF log_write
<1>2. /\ lh \in Seq(Block) /\ pc \in [Proc -> Labels] /\ written \in [Proc -> SUBSET Block]
      /\ Share(p)
  BY DEF SpaceInv, Shapes, Shares
<1>3. /\ b \in Block /\ Cardinality(written[p] \cup {b}) <= OpBlocks
      /\ IsFiniteSet(written[p]) /\ \A c \in written[p] : \E i \in 1 .. Len(lh) : lh[i] = c
  BY <1>2 DEF Share
<1>4. Active' = Active /\ p \in Active
  BY <1>1, <1>2 DEF Active
<1>5. Len(lh) \in Nat /\ Len(lh') \in {Len(lh), Len(lh) + 1} /\ ((\E i \in 1 .. Len(lh) : lh[i] = b) => lh' = lh)
  BY <1>1, <1>2, <1>3, LogGrows
<1>6. CASE b \in written[p]
  <2>1. lh' = lh
    BY <1>3, <1>5, <1>6
  <2>2. written' = written
    BY <1>1, <1>2, <1>6
  <2>3. Reserved' = Reserved
    BY <1>4, <2>2 DEF Reserved
  <2> QED BY <1>5, <2>1, <2>3, ReservedFinite
<1>7. CASE b \notin written[p]
  <2>1. n \in Nat /\ Cardinality(written[p] \cup {b}) = n + 1
    BY <1>3, <1>7, FS_AddElement, FS_CardinalityType
  <2>2. n + 1 \in 1 .. MAXOPBLOCKS
    BY <1>3, <2>1, LogAssumption
  <2>3. Cardinality(written'[p]) = n + 1 /\ \A q \in Proc \ {p} : written'[q] = written[q]
    BY <1>1, <1>2, <2>1
  <2>4. <<p, n + 1>> \in Reserved
    BY <1>4, <2>1, <2>2 DEF Reserved
  <2>5. Reserved' = Reserved \ {<<p, n + 1>>}
    <3>1. ASSUME NEW x \in Active \X (1 .. MAXOPBLOCKS)
          PROVE  x[2] > Cardinality(written'[x[1]]) <=> x[2] > Cardinality(written[x[1]]) /\ x # <<p, n + 1>>
      <4>1. x[1] \in Proc /\ x[2] \in 1 .. MAXOPBLOCKS /\ x = <<x[1], x[2]>>
        BY DEF Active
      <4>2. x[2] \in Int /\ n \in Int
        BY <4>1, <2>1
      <4>3. CASE x[1] = p
        BY <4>1, <4>2, <4>3, <2>1, <2>3
      <4>4. CASE x[1] # p
        BY <4>1, <4>4, <2>3
      <4> QED BY <4>3, <4>4
    <3> QED BY <3>1, <1>4 DEF Reserved
  <2>6. Cardinality(Reserved') = Cardinality(Reserved) - 1
    BY <2>4, <2>5, ReservedFinite, FS_RemoveElement
  <2>7. Cardinality(Reserved) \in Nat
    BY ReservedFinite
  <2> QED BY <1>5, <2>6, <2>7
<1> QED BY <1>6, <1>7

\* log_write.
LEMMA SpaceLogWrite ==
    ASSUME SpaceInv, WakeInv, NEW p \in Proc, log_write(p)
    PROVE  SpaceInv'
<1> DEFINE b == blk[p]
<1>1. /\ pc[p] = "log" /\ pc' = [pc EXCEPT ![p] = "op"] /\ blk' = [blk EXCEPT ![p] = NoBlock]
      /\ written' = [written EXCEPT ![p] = @ \cup {b}] /\ dirty' = dirty \cup {b}
      /\ lh' = IF b \in ToSet(lh) THEN lh ELSE Append(lh, b)
      /\ UNCHANGED <<home, logblock, head, cache, committing, phase, tail, panicked, crashes>>
  BY DEF log_write, At, disk
<1>2. /\ lh \in Seq(Block) /\ pc \in [Proc -> Labels] /\ written \in [Proc -> SUBSET Block]
      /\ blk \in [Proc -> Block \cup {NoBlock}] /\ \A q \in Proc : Share(q)
  BY DEF SpaceInv, Shapes, Shares
<1>3. b \in Block /\ Cardinality(written[p] \cup {b}) <= OpBlocks /\ IsFiniteSet(written[p])
  BY <1>1, <1>2 DEF Share
<1>4. /\ lh' \in Seq(Block)
      /\ \A i \in 1 .. Len(lh) : i \in 1 .. Len(lh') /\ lh'[i] = lh[i]
      /\ \E i \in 1 .. Len(lh') : lh'[i] = b
  BY <1>1, <1>2, <1>3, LogGrows
<1>5. Active' = Active /\ p \in Active
  BY <1>1, <1>2 DEF Active
<1>6. Fits'
  <2>1. Len(lh') + Cardinality(Reserved') <= Len(lh) + Cardinality(Reserved)
    BY <1>1, LogWriteUses
  <2>2. /\ Len(lh) + Cardinality(Reserved) <= LOGSIZE
        /\ Len(lh) \in Nat /\ Len(lh') \in Nat /\ Cardinality(Reserved) \in Nat /\ Cardinality(Reserved') \in Nat
    BY <1>2, <1>4, ReservedFinite, ReservedFiniteNext DEF SpaceInv, Fits
  <2> QED BY <2>1, <2>2, LogAssumption DEF Fits
<1>7. Shapes'
  <2>1. /\ pc' \in [Proc -> Labels] /\ blk' \in [Proc -> Block \cup {NoBlock}]
        /\ written' \in [Proc -> SUBSET Block]
    BY <1>1, <1>2, <1>3 DEF Labels
  <2> QED BY <1>1, <1>3, <1>4, <2>1 DEF SpaceInv, Shapes
<1>8. TailInside'
  <2>1. phase = "none"
    BY <1>1, InsideCall
  <2> QED BY <1>1, <2>1 DEF SpaceInv, TailInside
<1>9. Shares'
  <2>1. ASSUME NEW q \in Proc \ {p} PROVE Share(q)'
    <3>1. pc'[q] = pc[q] /\ blk'[q] = blk[q] /\ written'[q] = written[q]
      BY <1>1, <1>2
    <3>2. ASSUME NEW c \in written[q] PROVE \E i \in 1 .. Len(lh') : lh'[i] = c
      <4>1. PICK i \in 1 .. Len(lh) : lh[i] = c
        BY <1>2, <3>2 DEF Share
      <4> QED BY <4>1, <1>4
    <3> QED BY <1>2, <1>5, <3>1, <3>2 DEF Share
  <2>2. Share(p)'
    <3>1. pc'[p] = "op" /\ written'[p] = written[p] \cup {b}
      BY <1>1, <1>2
    <3>2. IsFiniteSet(written'[p]) /\ Cardinality(written'[p]) <= OpBlocks
      BY <1>3, <3>1, FS_AddElement
    <3>3. ASSUME NEW c \in written'[p] PROVE \E i \in 1 .. Len(lh') : lh'[i] = c
      <4>1. CASE c = b
        BY <4>1, <1>4
      <4>2. CASE c \in written[p]
        <5>1. PICK i \in 1 .. Len(lh) : lh[i] = c
          BY <1>2, <4>2 DEF Share
        <5> QED BY <5>1, <1>4
      <4> QED BY <3>1, <4>1, <4>2
    <3> QED BY <1>5, <3>1, <3>2, <3>3 DEF Share
  <2> QED BY <2>1, <2>2 DEF Shares
<1> QED BY <1>6, <1>7, <1>8, <1>9 DEF SpaceInv

\* end_op gives back what its call has not used.
LEMMA SpaceEnd ==
    ASSUME SpaceInv, WakeInv, NEW p \in Proc, end_op(p)
    PROVE  SpaceInv'
<1>1. /\ pc[p] = "op" /\ written' = [written EXCEPT ![p] = {}]
      /\ UNCHANGED <<home, logblock, head, cache, dirty, lh, blk, crashes>>
  BY DEF end_op, At, disk
<1>2. ~committing /\ phase = "none"
  BY <1>1, InsideCall
<1>3. /\ panicked' = panicked
      /\ \/ /\ committing' = TRUE /\ phase' = (IF lh = <<>> THEN "done" ELSE "write_log") /\ tail' = 1
            /\ pc' = [pc EXCEPT ![p] = "commit"]
         \/ UNCHANGED <<committing, phase, tail>> /\ pc' = Woken([pc EXCEPT ![p] = "idle"])
  BY <1>2 DEF end_op
<1>4. /\ lh \in Seq(Block) /\ pc \in [Proc -> Labels] /\ written \in [Proc -> SUBSET Block]
      /\ \A q \in Proc : Share(q)
  BY DEF SpaceInv, Shapes, Shares
<1>5. /\ pc' \in [Proc -> Labels] /\ Active' = Active \ {p}
      /\ \A q \in Proc : pc'[q] = "log" => pc[q] = "log"
  BY <1>1, <1>3, <1>4 DEF Active, Labels, Woken
<1>6. written' \in [Proc -> SUBSET Block] /\ written'[p] = {} /\ \A q \in Proc \ {p} : written'[q] = written[q]
  BY <1>1, <1>4
<1>7. Fits'
  BY <1>1, <1>4, <1>5, <1>6, FitsLess DEF SpaceInv, Active
<1>8. Shapes'
  BY <1>1, <1>3, <1>5, <1>6 DEF SpaceInv, Shapes
<1>9. TailInside'
  <2>1. Len(lh) \in Nat /\ (lh # <<>> => Len(lh) >= 1)
    BY <1>4
  <2> QED BY <1>1, <1>2, <1>3, <2>1, LogAssumption DEF SpaceInv, TailInside
<1>10. Shares'
  <2>1. Share(p)'
    <3>1. pc'[p] # "log"
      BY <1>1, <1>3, <1>4 DEF Woken
    <3> QED BY <1>6, <3>1, FS_EmptySet, LogAssumption DEF Share
  <2>2. ASSUME NEW q \in Proc \ {p} PROVE Share(q)'
    BY <1>1, <1>4, <1>5, <1>6 DEF Share
  <2> QED BY <2>1, <2>2 DEF Shares
<1> QED BY <1>7, <1>8, <1>9, <1>10 DEF SpaceInv

\* While the log is written, installed or read back, no call is under way.
LEMMA AloneInPhase ==
    ASSUME WakeInv, phase \notin {"none", "done"} \/ committing
    PROVE  Active = {}
BY DEF WakeInv, CommitAlone, QuietRecovery, Active

\* Nothing is reserved then, whatever log.lh becomes.
LEMMA SharesAlone ==
    ASSUME Shares, Active = {}, UNCHANGED <<pc, blk, written>>
    PROVE  Shares' /\ Active' = {}
BY DEF Shares, Share, Active

\* One block of write_log.
LEMMA SpaceWriteLog ==
    ASSUME SpaceInv, WakeInv, write_log
    PROVE  SpaceInv'
<1>1. phase = "write_log" /\ UNCHANGED <<head, lh, committing, panicked, pc, blk, written, crashes>>
  BY DEF write_log, During, procs
<1>2. lh \in Seq(Block) /\ Len(lh) \in Nat /\ tail \in 1 .. Len(lh) /\ Len(lh) <= LOGSIZE
  BY <1>1, ReservedFinite, LogAssumption DEF SpaceInv, Shapes, TailInside, Fits
<1>3. lh[tail] \in Block
  BY <1>2
<1>4. Contents(lh[tail]) \in Value
  BY <1>3, ContentsValue DEF SpaceInv
<1>5. \/ logblock' = [logblock EXCEPT ![tail] = Contents(lh[tail])] /\ UNCHANGED <<home, cache, dirty>>
      \/ /\ home' = [home EXCEPT ![Beyond] = Contents(lh[tail])]
         /\ cache' = [cache EXCEPT ![Beyond] = Contents(lh[tail])]
         /\ dirty' = dirty \ {Beyond} /\ UNCHANGED logblock
  BY DEF write_log
<1>6. \/ tail < Len(lh) /\ tail' = tail + 1 /\ phase' = phase
      \/ tail' = 1 /\ phase' = "write_head"
  BY DEF write_log, Advance
<1>7. /\ home' \in [Block -> Value] /\ logblock' \in [1 .. NLOG - 1 -> Value]
      /\ cache' \in [Block -> Value \cup {NoValue}] /\ dirty' \subseteq Block
  <2> DEFINE v == Contents(lh[tail])
  <2>1. v \in Value /\ Beyond \in Block
    BY <1>4, LogAssumption
  <2>2. /\ home \in [Block -> Value] /\ logblock \in [1 .. NLOG - 1 -> Value]
        /\ cache \in [Block -> Value \cup {NoValue}] /\ dirty \subseteq Block
    BY DEF SpaceInv, Shapes
  <2>3. \/ logblock' = [logblock EXCEPT ![tail] = v] /\ UNCHANGED <<home, cache, dirty>>
        \/ /\ home' = [home EXCEPT ![Beyond] = v] /\ cache' = [cache EXCEPT ![Beyond] = v]
           /\ dirty' = dirty \ {Beyond} /\ UNCHANGED logblock
    BY <1>5
  <2> HIDE DEF v
  <2> QED BY <2>1, <2>2, <2>3
<1>8. Shapes'
  BY <1>1, <1>6, <1>7 DEF SpaceInv, Shapes
<1>9. TailInside'
  BY <1>1, <1>2, <1>6, LogAssumption DEF SpaceInv, TailInside
<1>10. Active = {}
  BY <1>1, AloneInPhase
<1>11. Shares' /\ Active' = {}
  BY <1>1, <1>10, SharesAlone DEF SpaceInv
<1>12. Fits'
  BY <1>1, <1>2, <1>11, FitsAlone
<1> QED BY <1>8, <1>9, <1>11, <1>12 DEF SpaceInv

\* One block of install_trans.
LEMMA SpaceInstall ==
    ASSUME SpaceInv, WakeInv, install_trans
    PROVE  SpaceInv'
<1>1. phase = "install" /\ UNCHANGED <<logblock, head, lh, committing, panicked, pc, blk, written, crashes>>
  BY DEF install_trans, During, procs
<1>2. lh \in Seq(Block) /\ Len(lh) \in Nat /\ tail \in 1 .. Len(lh) /\ Len(lh) <= LOGSIZE
  BY <1>1, ReservedFinite, LogAssumption DEF SpaceInv, Shapes, TailInside, Fits
<1>3. lh[tail] \in Block
  BY <1>2
<1>4. LogContents(tail) \in Value
  <2>1. Contents(Beyond) \in Value
    BY ContentsValue, LogAssumption DEF SpaceInv
  <2>2. tail < NLOG => tail \in 1 .. NLOG - 1
    BY <1>2, LogAssumption
  <2> QED BY <2>1, <2>2 DEF LogContents, SpaceInv, Shapes
<1>5. /\ home' = [home EXCEPT ![lh[tail]] = LogContents(tail)]
      /\ cache' = [cache EXCEPT ![lh[tail]] = LogContents(tail)]
      /\ dirty' = dirty \ {lh[tail]}
  BY DEF install_trans
<1>6. \/ tail < Len(lh) /\ tail' = tail + 1 /\ phase' = phase
      \/ tail' = 1 /\ phase' = "erase"
  BY DEF install_trans, Advance
<1>7. /\ home' \in [Block -> Value] /\ cache' \in [Block -> Value \cup {NoValue}] /\ dirty' \subseteq Block
  BY <1>4, <1>5 DEF SpaceInv, Shapes
<1>8. Shapes'
  BY <1>1, <1>6, <1>7 DEF SpaceInv, Shapes
<1>9. TailInside'
  BY <1>1, <1>2, <1>6, LogAssumption DEF SpaceInv, TailInside
<1>10. Active = {}
  BY <1>1, AloneInPhase
<1>11. Shares' /\ Active' = {}
  BY <1>1, <1>10, SharesAlone DEF SpaceInv
<1>12. Fits'
  BY <1>1, <1>2, <1>11, FitsAlone
<1> QED BY <1>8, <1>9, <1>11, <1>12 DEF SpaceInv

\* The header is written, erased or read back.
LEMMA SpaceHeader ==
    ASSUME SpaceInv, WakeInv, write_head \/ erase \/ read_head
    PROVE  SpaceInv'
<1>1. /\ phase \in {"write_head", "erase", "read_head"}
      /\ UNCHANGED <<home, logblock, cache, dirty, committing, panicked, pc, blk, written, crashes>>
  BY DEF write_head, erase, read_head, During, procs, disk
<1>2. /\ lh \in Seq(Block) /\ Len(lh) \in Nat /\ Len(lh) <= LOGSIZE
      /\ head \in Seq(Block) /\ Len(head) \in Nat /\ Len(head) <= LOGSIZE
      /\ <<>> \in Seq(Block) /\ Len(<<>>) = 0
      /\ (lh # <<>> => Len(lh) >= 1) /\ (head # <<>> => Len(head) >= 1)
  BY ReservedFinite, LogAssumption DEF SpaceInv, Shapes, TailInside, Fits
<1>3. /\ head' \in Seq(Block) /\ lh' \in Seq(Block) /\ Len(lh') <= LOGSIZE /\ Len(head') <= LOGSIZE
      /\ phase' \in {"install", "erase", "done", "none"}
      /\ tail' \in 1 .. LOGSIZE /\ (phase' = "install" => tail' <= Len(lh'))
  <2>1. CASE write_head
    <3>1. head' = lh /\ phase' = "install" /\ UNCHANGED <<lh, tail>> /\ tail = 1 /\ lh # <<>>
      BY <2>1 DEF write_head, During, SpaceInv, TailInside
    <3> QED BY <1>2, <3>1, LogAssumption
  <2>2. CASE erase
    BY <2>2, <1>2, LogAssumption DEF erase, SpaceInv, TailInside
  <2>3. CASE read_head
    <3>1. lh' = head /\ tail' = 1 /\ phase' = (IF head = <<>> THEN "erase" ELSE "install") /\ head' = head
      BY <2>3 DEF read_head, disk
    <3> QED BY <1>2, <3>1, LogAssumption
  <2> QED BY <2>1, <2>2, <2>3
<1>4. Shapes'
  BY <1>1, <1>3 DEF SpaceInv, Shapes
<1>5. TailInside'
  BY <1>3 DEF TailInside
<1>6. Active = {}
  BY <1>1, AloneInPhase
<1>7. Shares' /\ Active' = {}
  BY <1>1, <1>6, SharesAlone DEF SpaceInv
<1>8. Fits'
  BY <1>3, <1>7, FitsAlone
<1> QED BY <1>4, <1>5, <1>7, <1>8 DEF SpaceInv

\* At boot the log is as the disk has it, and memory is empty.
Boot ==
    /\ home \in [Block -> Value] /\ logblock \in [1 .. NLOG - 1 -> Value] /\ head \in Seq(Block) /\ Len(head) <= LOGSIZE
    /\ cache = [b \in Block |-> NoValue] /\ dirty = {} /\ lh = <<>> /\ committing = FALSE
    /\ phase = "read_head" /\ tail = 1 /\ panicked = FALSE
    /\ pc = [p \in Proc |-> "idle"] /\ blk = [p \in Proc |-> NoBlock] /\ written = [p \in Proc |-> {}]
    /\ crashes \in 0 .. MaxCrashes

\* Nothing is reserved at boot.
LEMMA SpaceBoot == Boot => SpaceInv
<1> SUFFICES ASSUME Boot PROVE SpaceInv
  OBVIOUS
<1>1. Shapes
  <2>1. lh \in Seq(Block)
    BY DEF Boot
  <2>2. pc \in [Proc -> Labels] /\ blk \in [Proc -> Block \cup {NoBlock}] /\ written \in [Proc -> SUBSET Block]
    BY DEF Boot, Labels
  <2>3. cache \in [Block -> Value \cup {NoValue}]
    BY DEF Boot
  <2> QED BY <2>1, <2>2, <2>3 DEF Boot, Shapes
<1>2. TailInside
  BY LogAssumption DEF Boot, TailInside
<1>3. Active = {}
  BY DEF Boot, Active
<1>4. Shares
  BY <1>3, FS_EmptySet, LogAssumption DEF Boot, Shares, Share
<1>5. Cardinality(Reserved) = 0 /\ Len(lh) = 0
  BY <1>3, ReservedFinite DEF Boot
<1> QED BY <1>1, <1>2, <1>4, <1>5, LogAssumption DEF SpaceInv, Fits

\* The same after a crash.
LEMMA SpaceBootNext == Boot' => SpaceInv'
BY SpaceBoot, PTL

\* The space that begin_op reserves is enough, with everything this rests on,
\* in every execution.
THEOREM SpaceInvariance == Spec => []SpaceInv
<1>1. Init => SpaceInv
  <2> SUFFICES ASSUME Init PROVE SpaceInv
    OBVIOUS
  <2>1. /\ logblock \in [1 .. NLOG - 1 -> Value] /\ head \in Seq(Block) /\ Len(head) <= LOGSIZE
        /\ crashes \in 0 .. MaxCrashes
    BY LogAssumption DEF Init
  <2>2. Boot
    BY <2>1 DEF Init, Boot
  <2> QED BY <2>2, SpaceBoot
<1>2. SpaceInv /\ WakeInv /\ WakeInv' /\ [Next]_vars => SpaceInv'
  <2> SUFFICES ASSUME SpaceInv, WakeInv, WakeInv', [Next]_vars
               PROVE  SpaceInv'
    OBVIOUS
  <2>1. CASE UNCHANGED vars
    <3>1. UNCHANGED <<home, logblock, head, cache, dirty, lh, committing, phase, tail, panicked, pc, blk, written, crashes>>
      BY <2>1 DEF vars, disk, memory, procs
    <3>2. Shapes'
      BY <3>1 DEF SpaceInv, Shapes
    <3> QED BY <3>1, <3>2, SpaceUnchanged
  <2>2. CASE Crash
    <3>1. /\ UNCHANGED <<home, logblock, head>> /\ crashes' \in 0 .. MaxCrashes
          /\ cache' = [b \in Block |-> NoValue] /\ dirty' = {} /\ lh' = <<>> /\ committing' = FALSE
          /\ phase' = "read_head" /\ tail' = 1 /\ panicked' = FALSE
          /\ pc' = [p \in Proc |-> "idle"] /\ blk' = [p \in Proc |-> NoBlock] /\ written' = [p \in Proc |-> {}]
      BY <2>2, LogAssumption DEF Crash, disk, SpaceInv, Shapes
    <3>2. /\ home' \in [Block -> Value] /\ logblock' \in [1 .. NLOG - 1 -> Value]
          /\ head' \in Seq(Block) /\ Len(head') <= LOGSIZE
      BY <3>1 DEF SpaceInv, Shapes, TailInside
    <3>3. Boot'
      BY <3>1, <3>2 DEF Boot
    <3> QED BY <3>3, SpaceBootNext
  <2>3. CASE LogStep
    BY <2>3, SpaceWriteLog, SpaceInstall, SpaceHeader DEF LogStep
  <2>4. ASSUME NEW b \in Block, Recycle(b)
        PROVE  SpaceInv'
    BY <2>4, SpaceBuffers
  <2>5. ASSUME NEW p \in Proc, Call(p)
        PROVE  SpaceInv'
    <3>1. /\ pc[p] = "idle" /\ pc' = [pc EXCEPT ![p] = "begin"]
          /\ UNCHANGED <<home, logblock, head, cache, dirty, lh, committing, phase, tail, panicked, blk, written, crashes>>
      BY <2>5 DEF Call, At, disk, memory
    <3>2. committing \in BOOLEAN
      BY DEF SpaceInv, Shapes
    <3> QED BY <3>1, <3>2, SpaceOutside DEF Labels
  <2>6. ASSUME NEW p \in Proc, Finish(p)
        PROVE  SpaceInv'
    <3>1. /\ pc[p] = "commit" /\ pc' = Woken([pc EXCEPT ![p] = "idle"]) /\ committing' = FALSE /\ phase' = "none"
          /\ UNCHANGED <<home, logblock, head, cache, dirty, lh, tail, panicked, blk, written, crashes>>
      BY <2>6 DEF Finish, disk
    <3> QED BY <3>1, SpaceOutside DEF Labels
  <2>7. ASSUME NEW p \in Proc, begin_op(p) \/ log_write(p) \/ end_op(p)
        PROVE  SpaceInv'
    BY <2>7, SpaceBegin, SpaceLogWrite, SpaceEnd
  <2>8. ASSUME NEW p \in Proc, NEW b \in Block, bread(p, b)
        PROVE  SpaceInv'
    BY <2>8, SpaceBuffers
  <2>9. ASSUME NEW p \in Proc, NEW b \in Block, NEW v \in Value, Modify(p, b, v)
        PROVE  SpaceInv'
    BY <2>9, SpaceModify
  <2> QED BY <2>1, <2>2, <2>3, <2>4, <2>5, <2>6, <2>7, <2>8, <2>9 DEF Next, ProcStep
<1> QED BY <1>1, <1>2, WakeInvariance, PTL DEF Spec

-----------------------------------------------------------------------------
(* The log on the disk holds one block less than LOGSIZE *)

\* What param.h and mkfs make of the sizes, and that every call writes fewer
\* blocks than begin_op reserves for it.
Sizes == LOGSIZE <= NLOG /\ MAXOPBLOCKS < LOGSIZE /\ OpBlocks < MAXOPBLOCKS

\* Each call under way keeps a block of its share that it will not use, so
\* there is room for what log_write asserts; a call that is alone has had the
\* log to itself, or the block of a call that is over.
RoomInv ==
    /\ Len(lh) < LOGSIZE /\ Len(head) < LOGSIZE
    /\ \A p \in Proc : Active = {p} => Len(lh) + Cardinality(Reserved) < LOGSIZE
    /\ ~panicked

\* What the calls under way will not use is reserved all the same.
LEMMA ShareLeft ==
    ASSUME Sizes, SpaceInv, NEW p \in Active
    PROVE  <<p, MAXOPBLOCKS>> \in Reserved
<1>1. /\ IsFiniteSet(written[p]) /\ Cardinality(written[p]) <= OpBlocks /\ OpBlocks < MAXOPBLOCKS
      /\ MAXOPBLOCKS \in Nat \ {0} /\ OpBlocks \in Nat
  <2>1. p \in Proc
    BY DEF Active
  <2>2. Share(p)
    BY <2>1 DEF SpaceInv, Shares
  <2>3. IsFiniteSet(written[p]) /\ Cardinality(written[p]) <= OpBlocks
    BY <2>2 DEF Share
  <2> QED BY <2>3, LogAssumption DEF Sizes
<1>2. Cardinality(written[p]) \in Nat
  BY <1>1, FS_CardinalityType
<1>3. MAXOPBLOCKS \in 1 .. MAXOPBLOCKS /\ MAXOPBLOCKS > Cardinality(written[p])
  BY <1>1, <1>2
<1> QED BY <1>3 DEF Reserved

\* The same of the next state.
LEMMA ShareLeftNext ==
    ASSUME Sizes, SpaceInv', NEW p \in Active'
    PROVE  <<p, MAXOPBLOCKS>> \in Reserved'
<1>1. /\ IsFiniteSet(written'[p]) /\ Cardinality(written'[p]) <= OpBlocks /\ OpBlocks < MAXOPBLOCKS
      /\ MAXOPBLOCKS \in Nat \ {0} /\ OpBlocks \in Nat
  <2>1. p \in Proc
    BY DEF Active
  <2>2. Share(p)'
    BY <2>1 DEF SpaceInv, Shares
  <2>3. IsFiniteSet(written'[p]) /\ Cardinality(written'[p]) <= OpBlocks
    BY <2>2 DEF Share
  <2> QED BY <2>3, LogAssumption DEF Sizes
<1>2. Cardinality(written'[p]) \in Nat
  BY <1>1, FS_CardinalityType
<1>3. MAXOPBLOCKS \in 1 .. MAXOPBLOCKS /\ MAXOPBLOCKS > Cardinality(written'[p])
  BY <1>1, <1>2
<1> QED BY <1>3 DEF Reserved

\* While a call is under way, the test of log_write finds two blocks free.
LEMMA TwoFree ==
    ASSUME Sizes, SpaceInv, RoomInv, NEW p \in Active
    PROVE  Len(lh) + 2 <= LOGSIZE
<1>1. Len(lh) \in Nat /\ LOGSIZE \in Nat /\ p \in Proc /\ IsFiniteSet(Reserved) /\ Cardinality(Reserved) \in Nat
  BY ReservedFinite, LogAssumption DEF SpaceInv, Shapes, Active
<1>2. CASE Active = {p}
  <2>1. {<<p, MAXOPBLOCKS>>} \in SUBSET Reserved
    BY ShareLeft
  <2>2. 1 <= Cardinality(Reserved)
    <3>1. Cardinality({<<p, MAXOPBLOCKS>>}) <= Cardinality(Reserved)
      BY <1>1, <2>1, FS_Subset
    <3> QED BY <3>1, FS_Singleton
  <2>3. Len(lh) + Cardinality(Reserved) < LOGSIZE
    BY <1>1, <1>2 DEF RoomInv
  <2> QED BY <1>1, <2>2, <2>3
<1>3. CASE Active # {p}
  <2>1. PICK q \in Active : q # p
    BY <1>3
  <2> DEFINE two == {<<p, MAXOPBLOCKS>>} \cup {<<q, MAXOPBLOCKS>>}
  <2>2. two \in SUBSET Reserved
    BY ShareLeft
  <2>3. Cardinality(two) = 2
    <3>1. Cardinality({<<p, MAXOPBLOCKS>>}) = 1 /\ IsFiniteSet({<<p, MAXOPBLOCKS>>})
      BY FS_Singleton
    <3>2. <<q, MAXOPBLOCKS>> \notin {<<p, MAXOPBLOCKS>>}
      BY <2>1
    <3>3. Cardinality({<<p, MAXOPBLOCKS>>} \cup {<<q, MAXOPBLOCKS>>}) = Cardinality({<<p, MAXOPBLOCKS>>}) + 1
      BY <3>1, <3>2, FS_AddElement
    <3> QED BY <3>1, <3>3
  <2>4. Cardinality(two) <= Cardinality(Reserved)
    BY <1>1, <2>2, FS_Subset
  <2>5. Len(lh) + Cardinality(Reserved) <= LOGSIZE
    BY DEF SpaceInv, Fits
  <2> HIDE DEF two
  <2> QED BY <1>1, <2>3, <2>4, <2>5
<1> QED BY <1>2, <1>3

\* The room is untouched by a step that logs nothing, begins no call and leaves
\* the calls under way or ends them all.
LEMMA RoomUnchanged ==
    ASSUME SpaceInv, RoomInv, lh' = lh, head' \in {head, lh}, panicked' = panicked,
           \/ Active' = Active /\ written' = written
           \/ Active' = {}
    PROVE  RoomInv'
<1>1. CASE Active' = Active /\ written' = written
  <2>1. Reserved' = Reserved
    BY <1>1 DEF Reserved
  <2> QED BY <1>1, <2>1 DEF RoomInv
<1>2. CASE Active' = {}
  BY <1>2 DEF RoomInv
<1> QED BY <1>1, <1>2

\* A call that begins alone finds the log empty; two have a block each.
LEMMA RoomBegin ==
    ASSUME Sizes, SpaceInv, WakeInv, WakeInv', RoomInv, NEW p \in Proc, begin_op(p)
    PROVE  RoomInv'
<1>1. /\ pc[p] = "begin" /\ Up
      /\ UNCHANGED <<head, lh, panicked, written, committing, phase>>
  BY DEF begin_op, At, disk
<1>2. pc \in [Proc -> Labels] /\ lh \in Seq(Block)
  BY DEF SpaceInv, Shapes
<1>3. CASE MustWait
  <2>1. pc' = [pc EXCEPT ![p] = "asleep"]
    BY <1>3 DEF begin_op
  <2>2. Active' = Active
    BY <1>1, <1>2, <2>1 DEF Active
  <2> QED BY <1>1, <2>2, RoomUnchanged
<1>4. CASE ~MustWait
  <2>1. pc' = [pc EXCEPT ![p] = "op"] /\ outstanding' = outstanding + 1 /\ ~committing
    BY <1>4 DEF begin_op, MustWait
  <2>2. Active' = Active \cup {p} /\ p \notin Active
    BY <1>1, <1>2, <2>1 DEF Active
  <2>3. ASSUME NEW q \in Proc, Active' = {q}
        PROVE  Len(lh') + Cardinality(Reserved') < LOGSIZE
    <3>1. Active = {} /\ q = p
      BY <2>2, <2>3
    <3>2. phase = "none"
      BY <1>1, <2>1 DEF Up
    <3>3. lh = <<>>
      BY <3>1, <3>2 DEF WakeInv, EmptyBetween
    <3>4. Cardinality(Reserved') <= MAXOPBLOCKS
      <4> DEFINE room == {p} \X (1 .. MAXOPBLOCKS)
      <4>1. IsFiniteSet({p}) /\ Cardinality({p}) = 1
        BY FS_Singleton
      <4>2. IsFiniteSet(1 .. MAXOPBLOCKS) /\ Cardinality(1 .. MAXOPBLOCKS) = MAXOPBLOCKS
        BY LogAssumption, FS_Interval
      <4>3. IsFiniteSet(room) /\ Cardinality(room) = 1 * MAXOPBLOCKS
        <5>1. IsFiniteSet(room) /\ Cardinality(room) = Cardinality({p}) * Cardinality(1 .. MAXOPBLOCKS)
          BY <4>1, <4>2, FS_Product
        <5> QED BY <4>1, <4>2, <5>1
      <4>4. Reserved' \in SUBSET room
        BY <2>3, <3>1 DEF Reserved
      <4>5. Cardinality(Reserved') <= Cardinality(room)
        BY <4>3, <4>4, FS_Subset
      <4>6. 1 * MAXOPBLOCKS = MAXOPBLOCKS
        BY LogAssumption
      <4> HIDE DEF room
      <4> QED BY <4>3, <4>5, <4>6
    <3>5. Len(lh') = 0
      BY <1>1, <3>3
    <3> QED BY <3>4, <3>5, ReservedFiniteNext, LogAssumption DEF Sizes
  <2> QED BY <1>1, <2>3 DEF RoomInv
<1> QED BY <1>3, <1>4

\* log_write's assertions hold, so its caller goes on.
LEMMA RoomModify ==
    ASSUME Sizes, SpaceInv, WakeInv, RoomInv, NEW p \in Proc, NEW b \in Block, NEW v \in Value, Modify(p, b, v)
    PROVE  RoomInv'
<1>1. pc[p] = "op" /\ UNCHANGED <<lh, head, written>>
  BY DEF Modify, At, disk
<1>2. pc \in [Proc -> Labels]
  BY DEF SpaceInv, Shapes
<1>3. p \in Active
  BY <1>1 DEF Active
<1>4. Len(lh) + 2 <= LOGSIZE
  BY <1>3, TwoFree
<1>5. outstanding >= 1
  BY <1>3, ActiveFinite DEF WakeInv
<1>6. ~(Len(lh) >= LOGSIZE \/ Len(lh) >= NLOG - 1 \/ outstanding < 1)
  <2>1. Len(lh) \in Nat /\ outstanding \in Nat
    BY ActiveFinite DEF SpaceInv, Shapes, WakeInv
  <2> QED BY <1>4, <1>5, <2>1, LogAssumption DEF Sizes
<1>7. pc' = [pc EXCEPT ![p] = "log"] /\ panicked' = panicked
  BY <1>6 DEF Modify
<1>8. Active' = Active
  BY <1>1, <1>2, <1>7 DEF Active
<1> QED BY <1>1, <1>7, <1>8, RoomUnchanged

\* A block that is logged was reserved, and its call keeps one more.
LEMMA RoomLogWrite ==
    ASSUME Sizes, SpaceInv, SpaceInv', RoomInv, NEW p \in Proc, log_write(p)
    PROVE  RoomInv'
<1>1. pc[p] = "log" /\ pc' = [pc EXCEPT ![p] = "op"] /\ UNCHANGED <<head, panicked>>
  BY DEF log_write, At, disk
<1>2. pc \in [Proc -> Labels] /\ lh \in Seq(Block) /\ lh' \in Seq(Block)
  BY DEF SpaceInv, Shapes
<1>3. Active' = Active /\ p \in Active'
  BY <1>1, <1>2 DEF Active
<1>4. Len(lh') + Cardinality(Reserved') <= Len(lh) + Cardinality(Reserved)
  BY <1>1, LogWriteUses
<1>5. /\ Len(lh) \in Nat /\ Len(lh') \in Nat /\ Cardinality(Reserved) \in Nat /\ Cardinality(Reserved') \in Nat
      /\ LOGSIZE \in Nat
  BY <1>2, ReservedFinite, ReservedFiniteNext, LogAssumption
<1>6. Len(lh') < LOGSIZE
  <2>1. {<<p, MAXOPBLOCKS>>} \in SUBSET Reserved'
    BY <1>3, ShareLeftNext
  <2>2. Cardinality({<<p, MAXOPBLOCKS>>}) <= Cardinality(Reserved')
    BY <2>1, ReservedFiniteNext, FS_Subset
  <2>3. Cardinality({<<p, MAXOPBLOCKS>>}) = 1
    BY FS_Singleton
  <2>4. Len(lh') + Cardinality(Reserved') <= LOGSIZE
    BY DEF SpaceInv, Fits
  <2> QED BY <1>5, <2>2, <2>3, <2>4
<1>7. ASSUME NEW q \in Proc, Active' = {q}
      PROVE  Len(lh') + Cardinality(Reserved') < LOGSIZE
  <2>1. Len(lh) + Cardinality(Reserved) < LOGSIZE
    BY <1>3, <1>7 DEF RoomInv
  <2> QED BY <1>4, <1>5, <2>1
<1> QED BY <1>1, <1>6, <1>7 DEF RoomInv

\* A call that ends gives back a block at least.
LEMMA RoomEnd ==
    ASSUME Sizes, SpaceInv, WakeInv, RoomInv, NEW p \in Proc, end_op(p)
    PROVE  RoomInv'
<1>1. pc[p] = "op" /\ written' = [written EXCEPT ![p] = {}] /\ UNCHANGED <<lh, head>>
  BY DEF end_op, At, disk
<1>2. ~committing
  BY <1>1, InsideCall
<1>3. panicked' = panicked /\ (pc' = [pc EXCEPT ![p] = "commit"] \/ pc' = Woken([pc EXCEPT ![p] = "idle"]))
  BY <1>2 DEF end_op
<1>4. pc \in [Proc -> Labels] /\ written \in [Proc -> SUBSET Block] /\ lh \in Seq(Block)
  BY DEF SpaceInv, Shapes
<1>5. Active' = Active \ {p} /\ p \in Active
  BY <1>1, <1>3, <1>4 DEF Active, Woken
<1>6. <<p, MAXOPBLOCKS>> \in Reserved
  BY <1>5, ShareLeft
<1>7. Reserved' \in SUBSET (Reserved \ {<<p, MAXOPBLOCKS>>})
  BY <1>1, <1>4, <1>5 DEF Reserved, Active
<1>8. Cardinality(Reserved') <= Cardinality(Reserved) - 1
  <2>1. IsFiniteSet(Reserved \ {<<p, MAXOPBLOCKS>>})
    BY ReservedFinite, FS_Subset
  <2>2. Cardinality(Reserved \ {<<p, MAXOPBLOCKS>>}) = Cardinality(Reserved) - 1
    BY <1>6, ReservedFinite, FS_RemoveElement
  <2>3. Cardinality(Reserved') <= Cardinality(Reserved \ {<<p, MAXOPBLOCKS>>})
    BY <1>7, <2>1, FS_Subset
  <2> QED BY <2>2, <2>3
<1>9. Len(lh') + Cardinality(Reserved') < LOGSIZE
  <2>1. /\ Len(lh) \in Nat /\ Cardinality(Reserved) \in Nat /\ Cardinality(Reserved') \in Nat /\ LOGSIZE \in Nat
        /\ Len(lh) + Cardinality(Reserved) <= LOGSIZE
    BY <1>4, ReservedFinite, ReservedFiniteNext, LogAssumption DEF SpaceInv, Fits
  <2> QED BY <1>1, <1>8, <2>1
<1> QED BY <1>1, <1>3, <1>9 DEF RoomInv

\* Commit and recovery leave the room as it is, or empty the log.
LEMMA RoomLogStep ==
    ASSUME Sizes, SpaceInv, WakeInv, RoomInv, LogStep
    PROVE  RoomInv'
<1>1. phase \notin {"none", "done"} /\ UNCHANGED <<panicked, pc, written>>
  BY DEF LogStep, write_log, write_head, install_trans, erase, read_head, During, procs
<1>2. Active' = {}
  <2>1. Active = {}
    BY <1>1, AloneInPhase
  <2> QED BY <1>1, <2>1 DEF Active
<1>3. Len(<<>>) = 0 /\ 0 < LOGSIZE
  BY LogAssumption DEF Sizes
<1>4. Len(lh') < LOGSIZE /\ Len(head') < LOGSIZE
  <2>1. CASE write_log \/ install_trans
    BY <2>1 DEF write_log, install_trans, RoomInv
  <2>2. CASE write_head
    BY <2>2 DEF write_head, RoomInv
  <2>3. CASE erase
    BY <2>3, <1>3 DEF erase
  <2>4. CASE read_head
    BY <2>4 DEF read_head, disk, RoomInv
  <2> QED BY <2>1, <2>2, <2>3, <2>4 DEF LogStep
<1> QED BY <1>1, <1>2, <1>4 DEF RoomInv

\* With the sizes of param.h and mkfs there is room in the log on the disk, in
\* every execution: the inductive invariant.
THEOREM RoomInvariance ==
    ASSUME Sizes
    PROVE  Spec => []RoomInv
<1>1. Init => RoomInv
  <2> SUFFICES ASSUME Init PROVE RoomInv
    OBVIOUS
  <2>1. lh = <<>> /\ head = <<>> /\ panicked = FALSE /\ Active = {}
    BY DEF Init, Active
  <2>2. 0 < LOGSIZE
    BY LogAssumption DEF Sizes
  <2> QED BY <2>1, <2>2 DEF RoomInv
<1>2. SpaceInv /\ SpaceInv' /\ WakeInv /\ WakeInv' /\ RoomInv /\ [Next]_vars => RoomInv'
  <2> SUFFICES ASSUME SpaceInv, SpaceInv', WakeInv, WakeInv', RoomInv, [Next]_vars
               PROVE  RoomInv'
    OBVIOUS
  <2>1. CASE UNCHANGED vars
    <3>1. UNCHANGED <<lh, head, panicked, pc, written>>
      BY <2>1 DEF vars, disk, memory, procs
    <3> QED BY <3>1, RoomUnchanged DEF Active
  <2>2. CASE Crash
    <3>1. lh' = <<>> /\ head' = head /\ panicked' = FALSE /\ pc' = [p \in Proc |-> "idle"]
      BY <2>2 DEF Crash, disk
    <3>2. Active' = {}
      BY <3>1 DEF Active
    <3>3. 0 < LOGSIZE
      BY LogAssumption DEF Sizes
    <3> QED BY <3>1, <3>2, <3>3 DEF RoomInv
  <2>3. CASE LogStep
    BY <2>3, RoomLogStep
  <2>4. ASSUME NEW b \in Block, Recycle(b)
        PROVE  RoomInv'
    <3>1. UNCHANGED <<lh, head, panicked, pc, written>>
      BY <2>4 DEF Recycle, disk, procs
    <3> QED BY <3>1, RoomUnchanged DEF Active
  <2>5. ASSUME NEW p \in Proc, Call(p)
        PROVE  RoomInv'
    <3>1. pc[p] = "idle" /\ pc' = [pc EXCEPT ![p] = "begin"] /\ UNCHANGED <<lh, head, panicked, written>>
      BY <2>5 DEF Call, At, disk, memory
    <3>2. Active' = Active
      BY <3>1 DEF Active, SpaceInv, Shapes
    <3> QED BY <3>1, <3>2, RoomUnchanged
  <2>6. ASSUME NEW p \in Proc, Finish(p)
        PROVE  RoomInv'
    <3>1. pc[p] = "commit" /\ pc' = Woken([pc EXCEPT ![p] = "idle"]) /\ UNCHANGED <<lh, head, panicked, written>>
      BY <2>6 DEF Finish, disk
    <3>2. Active' = Active
      BY <3>1 DEF Active, Woken, SpaceInv, Shapes
    <3> QED BY <3>1, <3>2, RoomUnchanged
  <2>7. ASSUME NEW p \in Proc, begin_op(p) \/ log_write(p) \/ end_op(p)
        PROVE  RoomInv'
    BY <2>7, RoomBegin, RoomLogWrite, RoomEnd
  <2>8. ASSUME NEW p \in Proc, NEW b \in Block, bread(p, b)
        PROVE  RoomInv'
    <3>1. UNCHANGED <<lh, head, panicked, pc, written>>
      BY <2>8 DEF bread, disk, procs
    <3> QED BY <3>1, RoomUnchanged DEF Active
  <2>9. ASSUME NEW p \in Proc, NEW b \in Block, NEW v \in Value, Modify(p, b, v)
        PROVE  RoomInv'
    BY <2>9, RoomModify
  <2> QED BY <2>1, <2>2, <2>3, <2>4, <2>5, <2>6, <2>7, <2>8, <2>9 DEF Next, ProcStep
<1> QED BY <1>1, <1>2, SpaceInvariance, WakeInvariance, PTL DEF Spec

\* Types are kept and a transaction never outgrows the log on the disk: what
\* the calls under way may still write is reserved, for any number of processes
\* that log in any order and absorb each other's blocks, before and after
\* crashes, and neither log_write nor end_op panics.
THEOREM AlwaysSpaceReserved ==
    ASSUME Sizes
    PROVE  Spec => []SpaceReserved
<1>1. SpaceInv /\ WakeInv /\ RoomInv => SpaceReserved
  <2> SUFFICES ASSUME SpaceInv, WakeInv, RoomInv PROVE SpaceReserved
    OBVIOUS
  <2>1. outstanding = Cardinality(Active) /\ outstanding \in Nat
    BY ActiveFinite DEF WakeInv, OutstandingCounts
  <2>2. Cardinality(Active) <= Cardinality(Proc) /\ Cardinality(Proc) \in Nat
    BY LogAssumption, FS_Subset, FS_CardinalityType DEF Active
  <2>3. Len(lh) + Cardinality(Reserved) <= LOGSIZE /\ Len(lh) <= LOGSIZE
    BY ReservedFinite, LogAssumption DEF SpaceInv, Fits, Shapes
  <2>4. TypeOK
    BY <2>1, <2>2, <2>3 DEF SpaceInv, Shapes, TailInside, TypeOK, Labels
  <2>5. Len(lh) < NLOG /\ ~panicked
    BY LogAssumption DEF RoomInv, Sizes, SpaceInv, Shapes
  <2> QED BY <2>1, <2>3, <2>4, <2>5 DEF SpaceReserved
<1> QED BY <1>1, RoomInvariance, SpaceInvariance, WakeInvariance, PTL

-----------------------------------------------------------------------------
(* Atomic, durable transactions *)

\* The transaction fits into the blocks of the log after its header.
LogFits == Len(lh) < NLOG

\* No block is logged twice in a transaction.
Distinct(s) == \A i, j \in 1 .. Len(s) : s[i] = s[j] => i = j

\* A buffer that is neither dirty nor locked is as its block on the disk; one
\* that is has not been recycled.
OnDisk(b) == cache[b] = NoValue \/ cache[b] = home[b]
Locked(b) == \E q \in Proc : blk[q] = b
Pinned ==
    /\ \A q \in Proc : blk[q] # NoBlock => pc[q] = "log"
    /\ \A b \in Block : b \in dirty \/ Locked(b) => cache[b] # NoValue
    /\ \A b \in Block : b \in dirty \/ Locked(b) \/ OnDisk(b)

\* The dirty buffers are those of the transaction, until they are installed.
DirtyLogged ==
    /\ \A b \in dirty : \E i \in 1 .. Len(lh) : lh[i] = b
    /\ phase \in {"none", "write_log", "write_head"} => \A i \in 1 .. Len(lh) : lh[i] \in dirty

\* The header names a transaction from the commit to the erasing.
Header ==
    /\ phase \in {"none", "write_log", "write_head", "done"} => head = <<>>
    /\ phase \in {"install", "erase"} => head = lh
    /\ phase \in {"read_head", "done"} => lh = <<>>
    /\ committing => phase \notin {"none", "read_head"}
    /\ ~committing => phase \in {"none", "read_head", "install", "erase"}
    /\ ~committing /\ phase # "none" => dirty = {}

\* What has been copied to the log, and from the log to the home locations.
Copied ==
    /\ phase = "write_log" => \A i \in 1 .. Len(lh) : i < tail => logblock[i] = cache[lh[i]]
    /\ phase = "write_head" => \A i \in 1 .. Len(lh) : logblock[i] = cache[lh[i]]
    /\ phase = "install" => \A i \in 1 .. Len(lh) : i < tail => lh[i] \notin dirty /\ home[lh[i]] = logblock[i]
    /\ phase = "install" /\ committing => \A i \in 1 .. Len(lh) : logblock[i] = Contents(lh[i])
    /\ phase = "erase" => \A i \in 1 .. Len(lh) : lh[i] \notin dirty /\ home[lh[i]] = logblock[i]

\* The invariant of commit and recovery; a kernel that has panicked can only be
\* restarted.
CommitInv ==
    /\ Distinct(lh) /\ Distinct(head)
    /\ ~panicked => Pinned /\ DirtyLogged /\ Header /\ Copied
RefInv == WakeInv /\ SpaceInv /\ CommitInv

\* What a crash leaves of each block.
Overlay ==
    /\ \A i \in 1 .. Len(head) : head[i] \in Block => Durable[head[i]] = logblock[i]
    /\ \A b \in Block : (\A i \in 1 .. Len(head) : head[i] # b) => Durable[b] = home[b]
    /\ Durable = [b \in Block |-> Durable[b]]

\* It is the block of the log that the header names, or the home location.
LEMMA DurableAt == Distinct(head) => Overlay
<1> SUFFICES ASSUME Distinct(head) PROVE Overlay
  OBVIOUS
<1>1. ASSUME NEW i \in 1 .. Len(head), head[i] \in Block
      PROVE  Durable[head[i]] = logblock[i]
  <2> DEFINE k == CHOOSE j \in 1 .. Len(head) : head[j] = head[i]
  <2>1. k \in 1 .. Len(head) /\ head[k] = head[i]
    OBVIOUS
  <2>2. k = i
    BY <2>1 DEF Distinct
  <2>3. Durable[head[i]] = logblock[k]
    BY <1>1 DEF Durable
  <2> QED BY <2>2, <2>3
<1>2. ASSUME NEW b \in Block, \A i \in 1 .. Len(head) : head[i] # b
      PROVE  Durable[b] = home[b]
  BY <1>2 DEF Durable
<1>3. Durable = [b \in Block |-> Durable[b]]
  BY DEF Durable
<1> QED BY <1>1, <1>2, <1>3 DEF Overlay

\* The same of the next state.
LEMMA DurableAtNext == Distinct(head)' => Overlay'
BY DurableAt, PTL

\* With an erased header a crash leaves the home locations.
LEMMA DurableErased ==
    /\ head = <<>> => Durable = [b \in Block |-> home[b]]
    /\ head' = <<>> => Durable' = [b \in Block |-> home'[b]]
<1>1. ASSUME head = <<>> PROVE Durable = [b \in Block |-> home[b]]
  <2>1. 1 .. Len(head) = {}
    BY <1>1
  <2> QED BY <2>1 DEF Durable
<1>2. ASSUME head' = <<>> PROVE Durable' = [b \in Block |-> home'[b]]
  <2>1. 1 .. Len(head') = {}
    BY <1>2
  <2> QED BY <2>1 DEF Durable
<1> QED BY <1>1, <1>2

\* A step that moves no data is seen by nobody.
LEMMA SameView ==
    ASSUME UNCHANGED <<home, logblock, head, cache, phase, committing, panicked>>
    PROVE  Durable' = Durable /\ Current' = Current
BY DEF Durable, Current, Contents, Up

\* Nor is one that leaves every block's contents as they are.
LEMMA SameContents ==
    ASSUME Up, Up', \A b \in Block : Contents(b)' = Contents(b)
    PROVE  Current' = Current
BY DEF Current

\* Steps of processes that move no data: a call begins, sleeps or ends.
LEMMA CommitSame ==
    ASSUME CommitInv, UNCHANGED <<home, logblock, head, cache, dirty, lh, phase, tail, committing, panicked, blk>>,
           \A q \in Proc : pc[q] = "log" => pc'[q] = "log"
    PROVE  CommitInv' /\ Durable' = Durable /\ Current' = Current
<1>1. Durable' = Durable /\ Current' = Current
  BY SameView
<1>2. \A i : Contents(lh[i])' = Contents(lh[i])
  BY DEF Contents
<1>3. Pinned => Pinned'
  BY DEF Pinned, Locked, OnDisk
<1>4. (DirtyLogged => DirtyLogged') /\ (Header => Header')
  BY DEF DirtyLogged, Header
<1>5. Copied => Copied'
  BY <1>2 DEF Copied
<1>6. (Distinct(lh) => Distinct(lh)') /\ (Distinct(head) => Distinct(head)')
  BY DEF Distinct
<1> QED BY <1>1, <1>3, <1>4, <1>5, <1>6 DEF CommitInv

\* A buffer is filled from the disk or recycled.
LEMMA CommitBuffers ==
    ASSUME RefInv, NEW b \in Block,
           \/ Recycle(b)
           \/ \E p \in Proc : bread(p, b)
    PROVE  CommitInv' /\ Durable' = Durable /\ Current' = Current
<1>1. /\ Up /\ UNCHANGED <<home, logblock, head, dirty, lh, committing, phase, tail, panicked, pc, blk>>
      /\ \/ cache[b] # NoValue /\ b \notin dirty /\ (\A q \in Proc : blk[q] # b)
            /\ cache' = [cache EXCEPT ![b] = NoValue]
         \/ cache[b] = NoValue /\ cache' = [cache EXCEPT ![b] = home[b]]
  BY DEF Recycle, bread, At, disk, procs
<1>2. ~panicked /\ Up'
  BY <1>1 DEF Up
<1>3. /\ cache \in [Block -> Value \cup {NoValue}] /\ home \in [Block -> Value] /\ lh \in Seq(Block)
      /\ Pinned /\ DirtyLogged /\ Header /\ Copied /\ NoValue \notin Value
  BY <1>2, LogAssumption DEF RefInv, SpaceInv, Shapes, CommitInv
<1>4. /\ \A c \in Block \ {b} : cache'[c] = cache[c]
      /\ OnDisk(b) /\ OnDisk(b)'
  BY <1>1, <1>3 DEF Pinned, Locked, OnDisk
<1>5. \A c \in Block : Contents(c)' = Contents(c)
  BY <1>1, <1>3, <1>4 DEF Contents, OnDisk
<1>6. Current' = Current
  BY <1>1, <1>2, <1>5, SameContents
<1>7. Durable' = Durable
  BY <1>1 DEF Durable
<1>8. Pinned'
  <2>1. \A c \in Block : Locked(c)' <=> Locked(c)
    BY <1>1 DEF Locked
  <2>2. b \in dirty \/ Locked(b) => cache'[b] # NoValue
    BY <1>1, <1>3 DEF Locked, Pinned
  <2> QED BY <1>1, <1>3, <1>4, <2>1, <2>2 DEF Pinned, OnDisk
<1>9. DirtyLogged' /\ Header'
  BY <1>1, <1>3 DEF DirtyLogged, Header
<1>10. Copied'
  <2>1. \A i \in 1 .. Len(lh) : lh[i] \in Block /\ Contents(lh[i])' = Contents(lh[i])
    BY <1>1, <1>3, <1>5 DEF Contents
  <2>2. phase \in {"write_log", "write_head"} => \A i \in 1 .. Len(lh) : cache'[lh[i]] = cache[lh[i]]
    <3>1. SUFFICES ASSUME phase \in {"write_log", "write_head"}, NEW i \in 1 .. Len(lh)
                   PROVE  cache'[lh[i]] = cache[lh[i]]
      OBVIOUS
    <3>2. lh[i] \in dirty
      BY <1>3, <3>1 DEF DirtyLogged
    <3>3. lh[i] # b
      BY <1>1, <1>3, <3>2, <2>1 DEF Pinned
    <3> QED BY <1>4, <2>1, <3>3
  <2> QED BY <1>1, <1>3, <2>1, <2>2 DEF Copied, Contents
<1>11. Distinct(lh)' /\ Distinct(head)'
  BY <1>1 DEF RefInv, CommitInv, Distinct
<1> QED BY <1>6, <1>7, <1>8, <1>9, <1>10, <1>11 DEF CommitInv

\* A call changes a buffer that nobody else has locked.
LEMMA CommitModify ==
    ASSUME RefInv, NEW p \in Proc, NEW b \in Block, NEW v \in Value, Modify(p, b, v)
    PROVE  CommitInv' /\ Durable' = Durable /\ Current' = [Current EXCEPT ![b] = v]
<1>1. /\ Up /\ pc[p] = "op" /\ (\A q \in Proc : blk[q] # b) /\ cache' = [cache EXCEPT ![b] = v]
      /\ UNCHANGED <<home, logblock, head, dirty, lh, committing, phase, tail>>
      /\ \/ panicked' = TRUE /\ UNCHANGED <<pc, blk>>
         \/ pc' = [pc EXCEPT ![p] = "log"] /\ blk' = [blk EXCEPT ![p] = b] /\ UNCHANGED panicked
  BY DEF Modify, At, disk
<1>2. ~panicked /\ (Up' \/ panicked') /\ ~committing /\ phase = "none"
  BY <1>1, InsideCall DEF RefInv, Up
<1>3. /\ cache \in [Block -> Value \cup {NoValue}] /\ pc \in [Proc -> Labels] /\ blk \in [Proc -> Block \cup {NoBlock}]
      /\ Pinned /\ DirtyLogged /\ Header /\ Copied /\ NoValue \notin Value
  BY <1>2, LogAssumption DEF RefInv, SpaceInv, Shapes, CommitInv
<1>4. cache'[b] = v /\ v # NoValue /\ \A c \in Block \ {b} : cache'[c] = cache[c]
  BY <1>1, <1>3
<1>5. Current' = [Current EXCEPT ![b] = v]
  <2>1. Contents(b)' = v /\ \A c \in Block \ {b} : Contents(c)' = Contents(c)
    BY <1>1, <1>4 DEF Contents
  <2>2. Current = [c \in Block |-> Contents(c)] /\ Current' = [c \in Block |-> Contents(c)']
    BY <1>1, <1>2 DEF Current
  <2> QED BY <2>1, <2>2
<1>6. Durable' = Durable
  BY <1>1 DEF Durable
<1>7. Distinct(lh)' /\ Distinct(head)'
  BY <1>1 DEF RefInv, CommitInv, Distinct
<1>8. CASE panicked'
  BY <1>5, <1>6, <1>7, <1>8 DEF CommitInv
<1>9. CASE pc' = [pc EXCEPT ![p] = "log"] /\ blk' = [blk EXCEPT ![p] = b]
  <2>1. /\ \A q \in Proc : blk'[q] # NoBlock => pc'[q] = "log"
        /\ \A c \in Block : Locked(c)' <=> c = b \/ Locked(c)
    <3>1. blk[p] = NoBlock
      BY <1>1, <1>3 DEF Pinned
    <3>2. b # NoBlock /\ NoBlock \notin Block
      BY LogAssumption
    <3>3. \A q \in Proc : /\ blk'[q] = IF q = p THEN b ELSE blk[q]
                          /\ pc'[q] = IF q = p THEN "log" ELSE pc[q]
      BY <1>3, <1>9
    <3> QED BY <1>3, <3>1, <3>2, <3>3 DEF Pinned, Locked
  <2>2. Pinned'
    BY <1>1, <1>3, <1>4, <2>1 DEF Pinned, OnDisk
  <2>3. DirtyLogged' /\ Header' /\ Copied'
    BY <1>1, <1>2, <1>3 DEF DirtyLogged, Header, Copied
  <2> QED BY <1>5, <1>6, <1>7, <2>2, <2>3 DEF CommitInv
<1> QED BY <1>1, <1>8, <1>9

\* log_write pins the buffer before it unlocks it.
LEMMA CommitLogWrite ==
    ASSUME RefInv, NEW p \in Proc, log_write(p)
    PROVE  CommitInv' /\ Durable' = Durable /\ Current' = Current
<1> DEFINE b == blk[p]
<1>1. /\ Up /\ pc[p] = "log" /\ pc' = [pc EXCEPT ![p] = "op"] /\ blk' = [blk EXCEPT ![p] = NoBlock]
      /\ dirty' = dirty \cup {b} /\ lh' = IF b \in ToSet(lh) THEN lh ELSE Append(lh, b)
      /\ UNCHANGED <<home, logblock, head, cache, committing, phase, tail, panicked>>
  BY DEF log_write, At, disk
<1>2. ~panicked /\ ~committing /\ phase = "none"
  BY <1>1, InsideCall DEF RefInv, Up
<1>3. /\ lh \in Seq(Block) /\ pc \in [Proc -> Labels] /\ blk \in [Proc -> Block \cup {NoBlock}] /\ b \in Block
      /\ Pinned /\ DirtyLogged /\ Header /\ Copied
  BY <1>1, <1>2 DEF RefInv, SpaceInv, Shapes, Shares, Share, CommitInv
<1>4. Durable' = Durable /\ Current' = Current
  BY <1>1, SameView
<1>5. /\ \A i \in 1 .. Len(lh) : i \in 1 .. Len(lh') /\ lh'[i] = lh[i]
      /\ \E i \in 1 .. Len(lh') : lh'[i] = b
      /\ (\E i \in 1 .. Len(lh) : lh[i] = b) => lh' = lh
      /\ (\A i \in 1 .. Len(lh) : lh[i] # b) => lh' = Append(lh, b)
  BY <1>1, <1>3, LogGrows
<1>6. \A i \in 1 .. Len(lh') : i \in 1 .. Len(lh) \/ lh'[i] = b
  BY <1>3, <1>5
<1>7. Distinct(lh)'
  <2>1. Distinct(lh)
    BY DEF RefInv, CommitInv
  <2>2. CASE lh' = lh
    BY <2>1, <2>2 DEF Distinct
  <2>3. CASE lh' # lh
    <3>1. lh' = Append(lh, b) /\ \A i \in 1 .. Len(lh) : lh[i] # b
      BY <1>5, <2>3
    <3> QED BY <1>3, <3>1, <2>1 DEF Distinct
  <2> QED BY <2>2, <2>3
<1>8. Distinct(head)'
  BY <1>1 DEF RefInv, CommitInv, Distinct
<1>9. Pinned'
  <2>1. NoBlock \notin Block
    BY LogAssumption
  <2>2. \A q \in Proc : /\ blk'[q] = IF q = p THEN NoBlock ELSE blk[q]
                        /\ pc'[q] = IF q = p THEN "op" ELSE pc[q]
    BY <1>1, <1>3
  <2>3. \A c \in Block : (Locked(c)' => Locked(c)) /\ (Locked(c) => Locked(c)' \/ c = b)
    BY <2>1, <2>2 DEF Locked
  <2>4. Locked(b)
    BY DEF Locked
  <2>5. \A q \in Proc : blk'[q] # NoBlock => pc'[q] = "log"
    BY <1>3, <2>2 DEF Pinned
  <2> QED BY <1>1, <1>3, <2>3, <2>4, <2>5 DEF Pinned, OnDisk
<1>10. DirtyLogged'
  <2>1. \A c \in dirty' : \E i \in 1 .. Len(lh') : lh'[i] = c
    BY <1>1, <1>3, <1>5 DEF DirtyLogged
  <2>2. \A i \in 1 .. Len(lh') : lh'[i] \in dirty'
    BY <1>1, <1>2, <1>3, <1>5, <1>6 DEF DirtyLogged
  <2> QED BY <2>1, <2>2 DEF DirtyLogged
<1>11. Header' /\ Copied'
  BY <1>1, <1>2, <1>3 DEF Header, Copied
<1> QED BY <1>4, <1>7, <1>8, <1>9, <1>10, <1>11 DEF CommitInv

\* The last end_op starts the commit: the transaction has been pinned.
LEMMA CommitEnd ==
    ASSUME RefInv, NEW p \in Proc, end_op(p)
    PROVE  CommitInv' /\ Durable' = Durable /\ Current' = Current
<1>1. /\ Up /\ pc[p] = "op" /\ UNCHANGED <<home, logblock, head, cache, dirty, lh, blk>>
  BY DEF end_op, At, disk
<1>2. ~panicked /\ ~committing /\ phase = "none"
  BY <1>1, InsideCall DEF RefInv, Up
<1>3. /\ panicked' = panicked
      /\ \/ /\ committing' = TRUE /\ phase' = (IF lh = <<>> THEN "done" ELSE "write_log") /\ tail' = 1
            /\ pc' = [pc EXCEPT ![p] = "commit"]
         \/ UNCHANGED <<committing, phase, tail>> /\ pc' = Woken([pc EXCEPT ![p] = "idle"])
  BY <1>2 DEF end_op
<1>4. pc \in [Proc -> Labels] /\ lh \in Seq(Block) /\ Pinned /\ DirtyLogged /\ Header /\ Copied
  BY <1>2 DEF RefInv, SpaceInv, Shapes, CommitInv
<1>5. \A q \in Proc : pc[q] = "log" => pc'[q] = "log"
  BY <1>1, <1>3, <1>4 DEF Woken
<1>6. Durable' = Durable
  BY <1>1 DEF Durable
<1>7. Up'
  BY <1>1, <1>2, <1>3 DEF Up
<1>8. Current' = Current
  BY <1>1, <1>7 DEF Current, Contents
<1>9. Pinned'
  BY <1>1, <1>4, <1>5 DEF Pinned, Locked, OnDisk
<1>10. DirtyLogged'
  BY <1>1, <1>2, <1>4 DEF DirtyLogged
<1>11. Header'
  BY <1>1, <1>2, <1>3, <1>4 DEF Header
<1>12. Copied'
  <2>1. \A i \in 1 .. Len(lh) : ~(i < 1)
    OBVIOUS
  <2> QED BY <1>1, <1>2, <1>3, <2>1 DEF Copied
<1>13. Distinct(lh)' /\ Distinct(head)'
  BY <1>1 DEF RefInv, CommitInv, Distinct
<1> QED BY <1>6, <1>8, <1>9, <1>10, <1>11, <1>12, <1>13 DEF CommitInv

\* What holds while commit() or recovery is at work: no buffer is locked.
LEMMA AtWork ==
    ASSUME RefInv, ~panicked, phase # "none"
    PROVE  /\ home \in [Block -> Value] /\ logblock \in [1 .. NLOG - 1 -> Value]
           /\ cache \in [Block -> Value \cup {NoValue}] /\ dirty \subseteq Block
           /\ lh \in Seq(Block) /\ head \in Seq(Block) /\ Len(lh) \in Nat /\ committing \in BOOLEAN
           /\ \A q \in Proc : blk[q] = NoBlock
           /\ \A b \in Block : ~Locked(b) /\ (b \in dirty => cache[b] # NoValue) /\ (b \in dirty \/ OnDisk(b))
           /\ Distinct(lh) /\ Distinct(head) /\ DirtyLogged /\ Header /\ Copied
           /\ NoValue \notin Value
<1>1. Shapes /\ Distinct(lh) /\ Distinct(head) /\ Pinned /\ DirtyLogged /\ Header /\ Copied
  BY DEF RefInv, SpaceInv, CommitInv
<1>2. Active = {}
  BY <1>1, AloneInPhase DEF RefInv, Header
<1>3. \A q \in Proc : pc[q] # "log"
  BY <1>2 DEF Active
<1>4. \A q \in Proc : blk[q] = NoBlock
  BY <1>1, <1>3 DEF Pinned
<1>5. \A b \in Block : ~Locked(b)
  BY <1>4, LogAssumption DEF Locked
<1> QED BY <1>1, <1>4, <1>5, LogAssumption DEF Shapes, Pinned

\* A block goes to the log.
LEMMA CommitWriteLog ==
    ASSUME RefInv, LogFits, write_log
    PROVE  CommitInv' /\ Durable' = Durable /\ Current' = Current
<1>1. /\ phase = "write_log" /\ ~panicked
      /\ UNCHANGED <<head, lh, committing, panicked, pc, blk>>
  BY DEF write_log, During, procs
<1>2. tail \in 1 .. Len(lh)
  BY <1>1 DEF RefInv, SpaceInv, TailInside
<1>3. tail < NLOG /\ tail \in 1 .. NLOG - 1
  BY <1>1, <1>2, AtWork, LogAssumption DEF LogFits
<1>4. logblock' = [logblock EXCEPT ![tail] = Contents(lh[tail])] /\ UNCHANGED <<home, cache, dirty>>
  BY <1>3 DEF write_log
<1>5. \/ tail < Len(lh) /\ tail' = tail + 1 /\ phase' = phase
      \/ ~(tail < Len(lh)) /\ tail' = 1 /\ phase' = "write_head"
  BY DEF write_log, Advance
<1>6. /\ head = <<>> /\ committing /\ DirtyLogged /\ Header /\ Copied /\ lh \in Seq(Block)
      /\ \A i \in 1 .. Len(lh) : lh[i] \in dirty /\ lh[i] \in Block /\ cache[lh[i]] # NoValue
  BY <1>1, AtWork DEF Header, DirtyLogged
<1>7. Durable' = Durable
  BY <1>1, <1>4, <1>6, DurableErased
<1>8. Current' = Current
  BY <1>1, <1>4, <1>5, <1>6 DEF Current, Contents, Up
<1>9. Pinned'
  BY <1>1, <1>4 DEF RefInv, CommitInv, Pinned, Locked, OnDisk
<1>10. DirtyLogged' /\ Header'
  BY <1>1, <1>4, <1>5, <1>6 DEF DirtyLogged, Header
<1>11. Copied'
  <2>1. \A i \in 1 .. Len(lh) : i <= tail => logblock'[i] = cache[lh[i]]
    <3> TAKE i \in 1 .. Len(lh)
    <3>1. CASE i = tail
      <4>1. logblock'[i] = Contents(lh[i])
        BY <1>1, <1>3, <1>4, <3>1, AtWork
      <4> QED BY <4>1, <1>6 DEF Contents
    <3>2. CASE i < tail
      <4>1. logblock[i] = cache[lh[i]]
        BY <1>1, <1>6, <3>2 DEF Copied
      <4>2. i \in 1 .. NLOG - 1 /\ i # tail
        BY <1>3, <3>2, LogAssumption
      <4> QED BY <1>1, <1>4, <4>1, <4>2, AtWork
    <3> QED BY <1>2, <3>1, <3>2
  <2>2. \A i \in 1 .. Len(lh) : (i < tail + 1 => i <= tail) /\ (~(tail < Len(lh)) => i <= tail)
    BY <1>2
  <2> QED BY <1>1, <1>4, <1>5, <2>1, <2>2 DEF Copied
<1>12. Distinct(lh)' /\ Distinct(head)'
  BY <1>1 DEF RefInv, CommitInv, Distinct
<1> QED BY <1>7, <1>8, <1>9, <1>10, <1>11, <1>12 DEF CommitInv

\* The commit: one write makes the whole transaction durable.
LEMMA CommitWriteHead ==
    ASSUME RefInv, write_head
    PROVE  CommitInv' /\ Durable' = Current /\ Current' = Current
<1>1. /\ phase = "write_head" /\ ~panicked /\ head' = lh /\ phase' = "install"
      /\ UNCHANGED <<home, logblock, cache, dirty, lh, committing, tail, panicked, pc, blk>>
  BY DEF write_head, During, procs
<1>2. /\ committing /\ DirtyLogged /\ Header /\ Copied /\ Distinct(lh) /\ lh \in Seq(Block)
      /\ \A i \in 1 .. Len(lh) : lh[i] \in dirty /\ lh[i] \in Block /\ cache[lh[i]] # NoValue
      /\ \A b \in Block : b \in dirty \/ OnDisk(b)
  BY <1>1, AtWork DEF Header, DirtyLogged
<1>3. \A i \in 1 .. Len(lh) : logblock[i] = Contents(lh[i])
  BY <1>1, <1>2 DEF Copied, Contents
<1>4. Current = [b \in Block |-> Contents(b)] /\ Current' = Current
  BY <1>1, <1>2 DEF Current, Up, Contents
<1>5. Distinct(head)' /\ Distinct(lh)'
  BY <1>1, <1>2 DEF Distinct
<1>6. Overlay'
  BY <1>5, DurableAtNext
<1>7. Durable' = Current
  <2>1. ASSUME NEW b \in Block PROVE Durable'[b] = Contents(b)
    <3>1. CASE \E i \in 1 .. Len(lh) : lh[i] = b
      <4>1. PICK i \in 1 .. Len(lh) : lh[i] = b
        BY <3>1
      <4>2. Durable'[b] = logblock[i]
        BY <1>1, <1>6, <4>1 DEF Overlay
      <4> QED BY <1>3, <4>1, <4>2
    <3>2. CASE \A i \in 1 .. Len(lh) : lh[i] # b
      <4>1. Durable'[b] = home[b]
        BY <1>1, <1>6, <3>2 DEF Overlay
      <4>2. OnDisk(b)
        BY <1>2, <3>2 DEF DirtyLogged
      <4> QED BY <4>1, <4>2 DEF OnDisk, Contents
    <3> QED BY <3>1, <3>2
  <2>2. Durable' = [b \in Block |-> Durable'[b]]
    BY <1>6 DEF Overlay
  <2> QED BY <1>4, <2>1, <2>2
<1>8. Pinned'
  BY <1>1 DEF RefInv, CommitInv, Pinned, Locked, OnDisk
<1>9. DirtyLogged' /\ Header'
  BY <1>1, <1>2 DEF DirtyLogged, Header
<1>10. Copied'
  <2>1. tail = 1
    BY <1>1 DEF RefInv, SpaceInv, TailInside
  <2>2. \A i \in 1 .. Len(lh) : ~(i < tail) /\ Contents(lh[i])' = Contents(lh[i])
    BY <1>1, <2>1 DEF Contents
  <2> QED BY <1>1, <1>3, <2>2 DEF Copied
<1> QED BY <1>4, <1>5, <1>7, <1>8, <1>9, <1>10 DEF CommitInv

\* A block goes from the log to its home location: what a crash leaves and
\* what calls read is the same before and after.
LEMMA CommitInstall ==
    ASSUME RefInv, LogFits, install_trans
    PROVE  CommitInv' /\ Durable' = Durable /\ Current' = Current
<1> DEFINE b == lh[tail]
           v == logblock[tail]
<1>1. /\ phase = "install" /\ ~panicked
      /\ UNCHANGED <<logblock, head, lh, committing, panicked, pc, blk>>
  BY DEF install_trans, During, procs
<1>2. tail \in 1 .. Len(lh)
  BY <1>1 DEF RefInv, SpaceInv, TailInside
<1>3. tail < NLOG /\ tail \in 1 .. NLOG - 1
  BY <1>1, <1>2, AtWork, LogAssumption DEF LogFits
<1>4. /\ home' = [home EXCEPT ![b] = v] /\ cache' = [cache EXCEPT ![b] = v] /\ dirty' = dirty \ {b}
  BY <1>3 DEF install_trans, LogContents
<1>5. \/ tail < Len(lh) /\ tail' = tail + 1 /\ phase' = phase
      \/ ~(tail < Len(lh)) /\ tail' = 1 /\ phase' = "erase"
  BY DEF install_trans, Advance
<1>6. /\ home \in [Block -> Value] /\ cache \in [Block -> Value \cup {NoValue}]
      /\ lh \in Seq(Block) /\ Len(lh) \in Nat /\ committing \in BOOLEAN /\ NoValue \notin Value
      /\ \A c \in Block : ~Locked(c) /\ (c \in dirty => cache[c] # NoValue) /\ (c \in dirty \/ OnDisk(c))
      /\ \A q \in Proc : blk[q] = NoBlock
      /\ head = lh /\ Distinct(lh) /\ Distinct(head) /\ DirtyLogged /\ Header /\ Copied
  BY <1>1, AtWork DEF Header
<1>7. b \in Block /\ v \in Value
  <2>1. logblock \in [1 .. NLOG - 1 -> Value]
    BY <1>1, AtWork
  <2> QED BY <1>2, <1>3, <1>6, <2>1
<1> HIDE DEF b, v
<1>8. /\ home'[b] = v /\ cache'[b] = v
      /\ \A c \in Block \ {b} : home'[c] = home[c] /\ cache'[c] = cache[c]
  BY <1>4, <1>6, <1>7
<1>9. Distinct(lh)' /\ Distinct(head)'
  BY <1>1, <1>6 DEF Distinct
<1>10. Durable' = Durable
  <2>1. Overlay /\ Overlay'
    BY <1>6, <1>9, DurableAt, DurableAtNext
  <2>2. ASSUME NEW c \in Block PROVE Durable'[c] = Durable[c]
    <3>1. CASE \E i \in 1 .. Len(head) : head[i] = c
      BY <1>1, <2>1, <3>1 DEF Overlay
    <3>2. CASE \A i \in 1 .. Len(head) : head[i] # c
      <4>1. c # b
        BY <1>2, <1>6, <3>2 DEF b
      <4> QED BY <1>1, <1>8, <2>1, <3>2, <4>1 DEF Overlay
    <3> QED BY <3>1, <3>2
  <2> QED BY <2>1, <2>2 DEF Overlay
<1>11. committing => \A c \in Block : Contents(c)' = Contents(c)
  <2> SUFFICES ASSUME committing, NEW c \in Block
               PROVE  Contents(c)' = Contents(c)
    OBVIOUS
  <2>1. CASE c = b
    <3>1. Contents(c) = v
      BY <1>1, <1>2, <1>6, <2>1 DEF Copied, b, v
    <3>2. cache'[c] = v /\ v # NoValue
      BY <1>6, <1>7, <1>8, <2>1
    <3> QED BY <3>1, <3>2 DEF Contents
  <2>2. CASE c # b
    BY <1>8, <2>2 DEF Contents
  <2> QED BY <2>1, <2>2
<1>12. Current' = Current
  <2>1. CASE committing
    <3>1. Up /\ Up'
      BY <1>1, <1>5, <2>1 DEF Up
    <3> QED BY <1>11, <2>1, <3>1, SameContents
  <2>2. CASE ~committing
    <3>1. ~Up /\ ~Up' /\ ~panicked'
      BY <1>1, <1>5, <2>2 DEF Up
    <3> QED BY <1>1, <1>10, <3>1 DEF Current
  <2> QED BY <2>1, <2>2
<1>13. Pinned'
  <2>1. \A c \in Block : c \in dirty' => cache'[c] # NoValue
    BY <1>4, <1>6, <1>8
  <2>2. \A c \in Block : c \in dirty' \/ OnDisk(c)'
    BY <1>4, <1>6, <1>8 DEF OnDisk
  <2>3. \A c \in Block : ~Locked(c)'
    BY <1>1, <1>6 DEF Locked
  <2> QED BY <1>1, <1>6, <2>1, <2>2, <2>3 DEF Pinned
<1>14. DirtyLogged'
  BY <1>1, <1>4, <1>5, <1>6 DEF DirtyLogged
<1>15. Header'
  BY <1>1, <1>4, <1>5, <1>6 DEF Header
<1>16. Copied'
  <2>1. \A i \in 1 .. Len(lh) : i <= tail => lh[i] \notin dirty' /\ home'[lh[i]] = logblock[i]
    <3> TAKE i \in 1 .. Len(lh)
    <3>1. CASE i = tail
      BY <1>4, <1>8, <3>1 DEF b, v
    <3>2. CASE i < tail
      <4>1. lh[i] \notin dirty /\ home[lh[i]] = logblock[i]
        BY <1>1, <1>6, <3>2 DEF Copied
      <4>2. lh[i] # b /\ lh[i] \in Block
        BY <1>2, <1>6, <3>2 DEF Distinct, b
      <4> QED BY <1>4, <1>8, <4>1, <4>2
    <3> QED BY <1>2, <3>1, <3>2
  <2>2. \A i \in 1 .. Len(lh) : (i < tail + 1 => i <= tail) /\ (~(tail < Len(lh)) => i <= tail)
    BY <1>2
  <2>3. committing => \A i \in 1 .. Len(lh) : logblock[i] = Contents(lh[i])'
    <3>1. \A i \in 1 .. Len(lh) : lh[i] \in Block
      BY <1>6
    <3>2. committing => \A i \in 1 .. Len(lh) : logblock[i] = Contents(lh[i])
      BY <1>1, <1>6 DEF Copied
    <3> QED BY <1>1, <1>11, <3>1, <3>2 DEF Contents
  <2> QED BY <1>1, <1>5, <2>1, <2>2, <2>3 DEF Copied
<1> QED BY <1>9, <1>10, <1>12, <1>13, <1>14, <1>15, <1>16 DEF CommitInv

\* The transaction is home, and its header is erased.
LEMMA CommitErase ==
    ASSUME RefInv, erase
    PROVE  CommitInv' /\ Durable' = Durable /\ Current' = Current
<1>1. /\ phase = "erase" /\ ~panicked /\ lh' = <<>> /\ head' = <<>>
      /\ phase' = IF committing THEN "done" ELSE "none"
      /\ UNCHANGED <<home, logblock, cache, dirty, committing, panicked, pc, blk>>
  BY DEF erase, During, procs
<1>2. /\ lh \in Seq(Block) /\ dirty \subseteq Block /\ head = lh /\ Distinct(head) /\ committing \in BOOLEAN
      /\ \A b \in Block : b \in dirty \/ OnDisk(b)
      /\ \A q \in Proc : blk[q] = NoBlock
      /\ DirtyLogged /\ Header /\ Copied
  BY <1>1, AtWork DEF Header
<1>3. dirty = {}
  BY <1>1, <1>2 DEF DirtyLogged, Copied
<1>4. \A b \in Block : Contents(b) = home[b]
  BY <1>2, <1>3 DEF OnDisk, Contents
<1>5. Durable = [b \in Block |-> home[b]]
  <2>1. Overlay
    BY <1>2, DurableAt
  <2>2. ASSUME NEW b \in Block PROVE Durable[b] = home[b]
    <3>1. CASE \E i \in 1 .. Len(head) : head[i] = b
      BY <1>1, <1>2, <2>1, <3>1 DEF Overlay, Copied
    <3>2. CASE \A i \in 1 .. Len(head) : head[i] # b
      BY <2>1, <3>2 DEF Overlay
    <3> QED BY <3>1, <3>2
  <2> QED BY <2>1, <2>2 DEF Overlay
<1>6. Durable' = Durable
  BY <1>1, <1>5, DurableErased
<1>7. Up'
  BY <1>1, <1>2 DEF Up
<1>8. Current' = Current
  <2>1. Current' = [b \in Block |-> home[b]]
    BY <1>1, <1>4, <1>7 DEF Current, Contents
  <2>2. Current = [b \in Block |-> home[b]]
    BY <1>4, <1>5 DEF Current
  <2> QED BY <2>1, <2>2
<1>9. Pinned'
  BY <1>1 DEF RefInv, CommitInv, Pinned, Locked, OnDisk
<1>10. 1 .. Len(lh') = {} /\ 1 .. Len(head') = {}
  BY <1>1
<1>11. DirtyLogged' /\ Header'
  BY <1>1, <1>2, <1>3, <1>10 DEF DirtyLogged, Header
<1>12. Copied'
  BY <1>1, <1>2 DEF Copied
<1>13. Distinct(lh)' /\ Distinct(head)'
  BY <1>10 DEF Distinct
<1> QED BY <1>6, <1>8, <1>9, <1>11, <1>12, <1>13 DEF CommitInv

\* Recovery reads the header back.
LEMMA CommitReadHead ==
    ASSUME RefInv, read_head
    PROVE  CommitInv' /\ Durable' = Durable /\ Current' = Current
<1>1. /\ phase = "read_head" /\ ~panicked /\ lh' = head /\ tail' = 1
      /\ phase' = IF head = <<>> THEN "erase" ELSE "install"
      /\ UNCHANGED <<home, logblock, head, cache, dirty, committing, panicked, pc, blk>>
  BY DEF read_head, During, procs, disk
<1>2. /\ head \in Seq(Block) /\ Distinct(head) /\ ~committing /\ dirty = {} /\ Header /\ Copied
  BY <1>1, AtWork DEF Header
<1>3. Durable' = Durable
  BY <1>1 DEF Durable
<1>4. ~Up /\ ~Up' /\ ~panicked'
  BY <1>1, <1>2 DEF Up
<1>5. Current' = Current
  BY <1>1, <1>3, <1>4 DEF Current
<1>6. Pinned'
  BY <1>1 DEF RefInv, CommitInv, Pinned, Locked, OnDisk
<1>7. DirtyLogged' /\ Header'
  BY <1>1, <1>2 DEF DirtyLogged, Header
<1>8. Copied'
  <2>1. \A i \in 1 .. Len(head) : ~(i < 1)
    OBVIOUS
  <2>2. head = <<>> => 1 .. Len(head) = {}
    OBVIOUS
  <2> QED BY <1>1, <1>2, <2>1, <2>2 DEF Copied
<1>9. Distinct(lh)' /\ Distinct(head)'
  BY <1>1, <1>2 DEF Distinct
<1> QED BY <1>3, <1>5, <1>6, <1>7, <1>8, <1>9 DEF CommitInv

\* The end of a commit.
LEMMA CommitFinish ==
    ASSUME RefInv, NEW p \in Proc, Finish(p)
    PROVE  CommitInv' /\ Durable' = Durable /\ Current' = Current
<1>1. /\ phase = "done" /\ ~panicked /\ pc[p] = "commit" /\ committing' = FALSE /\ phase' = "none"
      /\ pc' = Woken([pc EXCEPT ![p] = "idle"])
      /\ UNCHANGED <<home, logblock, head, cache, dirty, lh, tail, panicked, blk>>
  BY DEF Finish, During, disk
<1>2. /\ lh = <<>> /\ head = <<>> /\ committing /\ DirtyLogged /\ Header
      /\ \A q \in Proc : blk[q] = NoBlock
  BY <1>1, AtWork DEF Header
<1>3. Durable' = Durable
  BY <1>1 DEF Durable
<1>4. Up /\ Up'
  BY <1>1, <1>2 DEF Up
<1>5. Current' = Current
  BY <1>1, <1>4 DEF Current, Contents
<1>6. Pinned'
  BY <1>1, <1>2 DEF RefInv, CommitInv, Pinned, Locked, OnDisk
<1>7. 1 .. Len(lh) = {}
  BY <1>2
<1>8. DirtyLogged' /\ Header' /\ Copied'
  BY <1>1, <1>2, <1>7 DEF DirtyLogged, Header, Copied
<1>9. Distinct(lh)' /\ Distinct(head)'
  BY <1>1 DEF RefInv, CommitInv, Distinct
<1> QED BY <1>3, <1>5, <1>6, <1>8, <1>9 DEF CommitInv

\* Nothing is locked, dirty or in memory at boot.
LEMMA CommitBoot == Boot /\ Distinct(head) => CommitInv /\ ~Up /\ ~panicked /\ Active = {}
<1> SUFFICES ASSUME Boot, Distinct(head) PROVE CommitInv /\ ~Up /\ ~panicked /\ Active = {}
  OBVIOUS
<1>1. ~Up /\ ~panicked /\ Active = {} /\ lh = <<>>
  BY DEF Boot, Up, Active
<1>2. 1 .. Len(lh) = {}
  BY <1>1
<1>3. \A q \in Proc : blk[q] = NoBlock
  BY DEF Boot
<1>4. \A b \in Block : cache[b] = NoValue /\ ~Locked(b)
  BY <1>3, LogAssumption DEF Boot, Locked
<1>5. Pinned
  BY <1>3, <1>4 DEF Boot, Pinned, OnDisk
<1>6. DirtyLogged /\ Header /\ Copied
  BY <1>2 DEF Boot, DirtyLogged, Header, Copied
<1>7. Distinct(lh)
  BY <1>2 DEF Distinct
<1> QED BY <1>1, <1>5, <1>6, <1>7 DEF CommitInv

\* The same after a crash.
LEMMA CommitBootNext == (Boot /\ Distinct(head) => CommitInv /\ ~Up /\ ~panicked /\ Active = {})'
BY CommitBoot, PTL

\* A crash leaves what was durable.
LEMMA CommitCrash ==
    ASSUME RefInv, Crash
    PROVE  CommitInv' /\ Durable' = Durable /\ Current' = Durable /\ Active' = {}
<1>1. /\ UNCHANGED <<home, logblock, head>> /\ crashes' \in 0 .. MaxCrashes
      /\ cache' = [b \in Block |-> NoValue] /\ dirty' = {} /\ lh' = <<>> /\ committing' = FALSE
      /\ phase' = "read_head" /\ tail' = 1 /\ panicked' = FALSE
      /\ pc' = [p \in Proc |-> "idle"] /\ blk' = [p \in Proc |-> NoBlock] /\ written' = [p \in Proc |-> {}]
  BY LogAssumption DEF Crash, disk, RefInv, SpaceInv, Shapes
<1>2. Boot'
  BY <1>1 DEF Boot, RefInv, SpaceInv, Shapes, TailInside
<1>3. Distinct(head)'
  BY <1>1 DEF RefInv, CommitInv, Distinct
<1>4. CommitInv' /\ ~Up' /\ ~panicked' /\ Active' = {}
  BY <1>2, <1>3, CommitBootNext
<1>5. Durable' = Durable
  BY <1>1 DEF Durable
<1> QED BY <1>4, <1>5 DEF Current

\* Every step of the log is a step of the atomic disk, or is not seen.
LEMMA NextRefines ==
    ASSUME RefInv, LogFits, [Next]_vars
    PROVE  CommitInv' /\ [Disk!Next]_<<Durable, Current, Active>>
<1>1. CASE UNCHANGED vars
  <2>1. UNCHANGED <<home, logblock, head, cache, dirty, lh, phase, tail, committing, panicked, pc, blk>>
    BY <1>1 DEF vars, disk, memory, procs
  <2>2. CommitInv' /\ Durable' = Durable /\ Current' = Current
    BY <2>1, CommitSame DEF RefInv
  <2> QED BY <2>1, <2>2 DEF Active
<1>2. CASE Crash
  <2>1. Disk!Crash
    BY <1>2, CommitCrash DEF Disk!Crash
  <2> QED BY <1>2, <2>1, CommitCrash DEF Disk!Next
<1>3. CASE LogStep
  <2>1. Active' = Active
    BY <1>3 DEF LogStep, write_log, write_head, install_trans, erase, read_head, procs, Active
  <2>2. CASE write_head
    <3>1. Active = {}
      BY <2>2, AloneInPhase DEF write_head, During, RefInv
    <3>2. Disk!Commit
      BY <2>1, <2>2, <3>1, CommitWriteHead DEF Disk!Commit
    <3> QED BY <2>2, <3>2, CommitWriteHead DEF Disk!Next
  <2>3. CASE ~write_head
    BY <1>3, <2>1, <2>3, CommitWriteLog, CommitInstall, CommitErase, CommitReadHead DEF LogStep
  <2> QED BY <2>2, <2>3
<1>4. ASSUME NEW b \in Block, Recycle(b) \/ \E p \in Proc : bread(p, b)
      PROVE  CommitInv' /\ [Disk!Next]_<<Durable, Current, Active>>
  <2>1. Active' = Active
    BY <1>4 DEF Recycle, bread, procs, Active
  <2> QED BY <1>4, <2>1, CommitBuffers
<1>5. ASSUME NEW p \in Proc, Call(p) \/ begin_op(p)
      PROVE  CommitInv' /\ [Disk!Next]_<<Durable, Current, Active>>
  <2>1. /\ UNCHANGED <<home, logblock, head, cache, dirty, lh, phase, tail, committing, panicked, blk>>
        /\ pc[p] \in {"idle", "begin"} /\ pc \in [Proc -> Labels]
        /\ \E to \in {"begin", "asleep", "op"} : pc' = [pc EXCEPT ![p] = to]
    BY <1>5 DEF Call, begin_op, At, disk, memory, RefInv, WakeInv
  <2>2. /\ \A q \in Proc : pc[q] = "log" => pc'[q] = "log"
        /\ p \notin Active /\ (Active' = Active \/ Active' = Active \cup {p})
    BY <2>1 DEF Active
  <2>3. CommitInv' /\ Durable' = Durable /\ Current' = Current
    BY <2>1, <2>2, CommitSame DEF RefInv
  <2>4. Active' = Active \cup {p} => Disk!Begin(p)
    BY <2>2, <2>3 DEF Disk!Begin
  <2> QED BY <2>2, <2>3, <2>4 DEF Disk!Next
<1>6. ASSUME NEW p \in Proc, log_write(p) \/ Finish(p)
      PROVE  CommitInv' /\ [Disk!Next]_<<Durable, Current, Active>>
  <2>1. pc \in [Proc -> Labels]
    BY DEF RefInv, WakeInv
  <2>2. Active' = Active
    BY <1>6, <2>1 DEF log_write, Finish, At, Woken, Active
  <2> QED BY <1>6, <2>2, CommitLogWrite, CommitFinish
<1>7. ASSUME NEW p \in Proc, end_op(p)
      PROVE  CommitInv' /\ [Disk!Next]_<<Durable, Current, Active>>
  <2>1. pc \in [Proc -> Labels] /\ pc[p] = "op" /\ ~committing
    BY <1>7, InsideCall DEF RefInv, WakeInv, end_op, At
  <2>2. p \in Active /\ Active' = Active \ {p}
    BY <1>7, <2>1 DEF end_op, Woken, Active
  <2>3. Disk!End(p)
    BY <1>7, <2>2, CommitEnd DEF Disk!End
  <2> QED BY <1>7, <2>3, CommitEnd DEF Disk!Next
<1>8. ASSUME NEW p \in Proc, NEW b \in Block, NEW v \in Value, Modify(p, b, v)
      PROVE  CommitInv' /\ [Disk!Next]_<<Durable, Current, Active>>
  <2>1. pc \in [Proc -> Labels]
    BY DEF RefInv, WakeInv
  <2>2. p \in Active /\ Active' = Active
    BY <1>8, <2>1 DEF Modify, At, Active
  <2>3. Disk!Write(p, b, v)
    BY <1>8, <2>2, CommitModify DEF Disk!Write
  <2> QED BY <1>8, <2>3, CommitModify DEF Disk!Next
<1> QED BY <1>1, <1>2, <1>3, <1>4, <1>5, <1>6, <1>7, <1>8 DEF Next, ProcStep

\* The log implements a disk with atomic, durable transactions as long as no
\* transaction is longer than the log on the disk: a crash between any two
\* writes, of a commit or of a recovery, leaves every transaction complete or
\* undone, and the calls read what was written last.
THEOREM LogImplementsDisk == Spec /\ []LogFits => DiskSpec
<1>1. Init => CommitInv /\ Disk!Init
  <2> SUFFICES ASSUME Init PROVE CommitInv /\ Disk!Init
    OBVIOUS
  <2>1. Boot /\ Distinct(head)
    BY LogAssumption DEF Init, Boot, Distinct
  <2>2. CommitInv /\ ~Up /\ ~panicked /\ Active = {}
    BY <2>1, CommitBoot
  <2>3. Durable = [b \in Block |-> home[b]] /\ home \in [Block -> Value]
    BY DurableErased DEF Init
  <2>4. Durable \in [Block -> Value]
    BY <2>3
  <2> QED BY <2>2, <2>4 DEF Disk!Init, Current
<1>2. CommitInv /\ WakeInv /\ SpaceInv /\ LogFits /\ [Next]_vars => CommitInv' /\ [Disk!Next]_<<Durable, Current, Active>>
  BY NextRefines DEF RefInv
<1>3. Spec /\ []LogFits => []CommitInv /\ Disk!Init /\ [][Disk!Next]_<<Durable, Current, Active>>
  BY <1>1, <1>2, WakeInvariance, SpaceInvariance, PTL DEF Spec
<1> QED BY <1>3, PTL DEF DiskSpec, Disk!Spec

\* With the sizes of param.h and mkfs, and calls that write fewer blocks than
\* begin_op reserves, that is in every execution: log_write tests the length
\* before it takes log.lock, and the reservation makes the test good enough.
THEOREM LogAlwaysImplementsDisk ==
    ASSUME Sizes
    PROVE  Spec => DiskSpec
<1>1. SpaceInv /\ RoomInv => LogFits
  BY LogAssumption DEF RoomInv, Sizes, SpaceInv, Shapes, LogFits
<1> QED BY <1>1, LogImplementsDisk, RoomInvariance, SpaceInvariance, PTL
=============================================================================
