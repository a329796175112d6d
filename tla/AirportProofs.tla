---------------------------- MODULE AirportProofs ---------------------------
(***************************************************************************)
(* Proofs about the airport simulation as a whole (module Airport), for    *)
(* every number of passengers, kiosks, belts and lost boarding passes.     *)
(*                                                                         *)
(* Two results.  When main destroys its semaphores and mutexes no thread   *)
(* can use them any more: the invariant MainInv says what the joins have   *)
(* established so far.  And the simulation implements CheckIn,             *)
(* SecurityCheck and VIPChannel, each seen through its own program         *)
(* counter.  The last one lets passengers arrive only while VIP_LR_waiting *)
(* is near 0, and the code updates that variable without a common lock;    *)
(* WayInv and DriftInv bound the drift by the number of stores made, which *)
(* are counted as a set of pairs of a passenger and a number.              *)
(***************************************************************************)
EXTENDS Airport, FiniteSetTheorems, TLAPS

\* Where a thread that has been created and has not ended can be.
Live == Labels \ {"none", "failed", "exited"}

\* What main knows of the threads: those it has not created yet, and those it
\* has joined.  It destroys only after the last join.
MainInv ==
    /\ pc \in [Passenger -> Labels] /\ id \in 1 .. MaxId + 1 /\ joining \in 1 .. id
    /\ \A p \in Passenger : p >= id <=> pc[p] = "none"
    /\ \A p \in Passenger : p < joining => pc[p] \in {"failed", "exited"}
    /\ main \in {"destroy", "ended", "failed"} => joining = id

-----------------------------------------------------------------------------
\* A thread moves from label to label and touches nobody else's; it has been
\* created and has not ended.
LEMMA CheckInMoves ==
    ASSUME NEW p \in Passenger, CI!check_in(p)
    PROVE  pc[p] \in CI!Labels /\ \E to \in CI!Labels : pc' = [pc EXCEPT ![p] = to]
BY DEF CI!check_in, CI!Claim, CI!LockIn, CI!Find, CI!Take, CI!LockOut, CI!Vacate, CI!Post, CI!Goto,
   CI!Labels

\* The same for security_check.
LEMMA SecurityCheckMoves ==
    ASSUME NEW p \in Passenger, SC!security_check(p)
    PROVE  pc[p] \in SC!Labels /\ \E to \in SC!Labels : pc' = [pc EXCEPT ![p] = to]
BY DEF SC!security_check, SC!Claim, SC!LockIn, SC!Find, SC!Take, SC!TakeBelt, SC!UnlockIn, SC!LockOut,
   SC!Vacate, SC!GiveBack, SC!Post, SC!Goto, SC!Labels

\* The same for the VIP channel, which the simulation leaves to draw or to the
\* special kiosk.
LEMMA ChannelMoves ==
    ASSUME NEW p \in Passenger
    PROVE  /\ VC!VIP_channel_LR(p, "draw") =>
                pc[p] \in VC!LRLabels /\ \E to \in VC!LRLabels \cup {"draw"} : pc' = [pc EXCEPT ![p] = to]
           /\ VC!VIP_channel_RL(p, "sk_start") =>
                pc[p] \in VC!RLLabels /\ \E to \in VC!RLLabels \cup {"sk_start"} : pc' = [pc EXCEPT ![p] = to]
<1>1. ASSUME VC!VIP_channel_LR(p, "draw")
      PROVE  pc[p] \in VC!LRLabels /\ \E to \in VC!LRLabels \cup {"draw"} : pc' = [pc EXCEPT ![p] = to]
  BY <1>1 DEF VC!VIP_channel_LR, VC!LRStart, VC!LRLoad, VC!LRStore, VC!LRTest, VC!LRClose, VC!LRWaiting,
     VC!LRLock, VC!LRDownLoad, VC!LRDownStore, VC!LRDownTest, VC!LROpen, VC!LRCount, VC!LRBlock,
     VC!LRUnlock, VC!LRCrossed, VC!LRLeave, VC!LRExit, VC!Goto, VC!LRLabels
<1>2. ASSUME VC!VIP_channel_RL(p, "sk_start")
      PROVE  pc[p] \in VC!RLLabels /\ \E to \in VC!RLLabels \cup {"sk_start"} : pc' = [pc EXCEPT ![p] = to]
  BY <1>2 DEF VC!VIP_channel_RL, VC!RLStart, VC!RLGate, VC!RLLock, VC!RLCount, VC!RLBlock, VC!RLUnlock,
     VC!RLCrossed, VC!RLLeave, VC!RLExit, VC!Goto, VC!RLLabels
<1> QED BY <1>1, <1>2

\* A thread that takes a step has been created and has not ended, and leaves
\* main alone.
LEMMA ThreadMoves ==
    ASSUME NEW p \in Passenger, simulate(p)
    PROVE  /\ pc[p] \in Live /\ \E to \in Labels \ {"none", "failed"} : pc' = [pc EXCEPT ![p] = to]
           /\ UNCHANGED control
<1>1. UNCHANGED control
  BY DEF simulate
<1>2. /\ CI!Labels \subseteq Live /\ SC!Labels \subseteq Live
      /\ VC!LRLabels \subseteq Live /\ VC!RLLabels \subseteq Live
      /\ {"draw", "sk_start", "sk_in", "bd_start", "bd_in"} \subseteq Live
      /\ Live \subseteq Labels \ {"none", "failed"} /\ "exited" \in Labels \ {"none", "failed"}
  BY DEF Live, Labels, CI!Labels, SC!Labels, VC!LRLabels, VC!RLLabels, OtherLabels
<1>3. ASSUME SpecialKioskEnter(p) \/ SpecialKioskLeave(p) \/ BoardEnter(p) \/ BoardLeave(p)
             \/ ChooseWay(p) \/ Passed(p) \/ Draw(p)
      PROVE  pc[p] \in Live /\ \E to \in Live \cup {"exited"} : pc' = [pc EXCEPT ![p] = to]
  <2>1. /\ {"ci_done", "sc_done", "draw", "sk_start", "sk_in", "bd_start", "bd_in"} \subseteq Live
        /\ {"sk_in", "lr_start", "bd_in", "exited", "sc_start", "draw", "rl_start", "bd_start"}
             \subseteq Live \cup {"exited"}
    BY DEF Live, Labels, CI!Labels, SC!Labels, VC!LRLabels, VC!RLLabels, OtherLabels
  <2> QED BY <1>3, <2>1 DEF SpecialKioskEnter, SpecialKioskLeave, BoardEnter, BoardLeave, ChooseWay,
             Passed, Draw, Goto
<1>4. CASE CI!check_in(p)
  BY <1>1, <1>2, <1>4, CheckInMoves
<1>5. CASE SC!security_check(p)
  BY <1>1, <1>2, <1>5, SecurityCheckMoves
<1>6. CASE VC!VIP_channel_LR(p, "draw") \/ VC!VIP_channel_RL(p, "sk_start")
  BY <1>1, <1>2, <1>6, ChannelMoves
<1> QED BY <1>1, <1>2, <1>3, <1>4, <1>5, <1>6 DEF simulate

\* Nobody has been created and nobody joined when main starts.
LEMMA MainInit == Init => MainInv
BY AirportAssumption DEF Init, MainInv, Passenger, Labels, OtherLabels

\* Every step of main and of the threads keeps what main knows.
LEMMA MainNext == MainInv /\ [Next]_vars => MainInv'
<1> SUFFICES ASSUME MainInv, [Next]_vars PROVE MainInv'
  OBVIOUS
<1>0. /\ MaxId \in Nat \ {0} /\ Passenger = 1 .. MaxId /\ {"ci_start", "failed"} \subseteq Labels
  BY AirportAssumption DEF Passenger, Labels, OtherLabels, CI!Labels
<1>1. ASSUME NEW p \in Passenger, simulate(p) PROVE MainInv'
  <2>1. PICK to \in Labels \ {"none", "failed"} : pc' = [pc EXCEPT ![p] = to]
    BY <1>1, ThreadMoves
  <2>2. pc[p] \notin {"none", "failed", "exited"} /\ UNCHANGED control
    BY <1>1, ThreadMoves DEF Live
  <2> QED BY <2>1, <2>2 DEF MainInv, control
<1>2. CASE Create
  BY <1>0, <1>2 DEF Create, MainInv
<1>3. CASE StopGenerating
  BY <1>3 DEF StopGenerating, MainInv
<1>4. CASE Join
  BY <1>0, <1>4 DEF Join, MainInv
<1>5. CASE Destroy
  BY <1>5 DEF Destroy, MainInv
<1>6. CASE UNCHANGED vars
  BY <1>6 DEF vars, control, MainInv
<1> QED BY <1>1, <1>2, <1>3, <1>4, <1>5, <1>6 DEF Next, MainStep, PassengerStep

\* What main relies on when it joins and destroys.
THEOREM MainInvariance == Spec => []MainInv
BY MainInit, MainNext, PTL DEF Spec

\* Whatever the number of passengers, kiosks, belts and lost boarding passes:
\* when main destroys the semaphores and mutexes, every thread it has created
\* has exited (or could not be created).
THEOREM AlwaysDestroyedUnused == Spec => []DestroyedUnused
<1>1. MainInv => DestroyedUnused
  BY AirportAssumption DEF MainInv, DestroyedUnused, Passenger
<1> QED BY <1>1, MainInvariance, PTL

-----------------------------------------------------------------------------
(* The simulation implements its components.  Each sees the threads through  *)
(* its own program counter: what a thread does elsewhere is before or after. *)

CheckInPc ==
    [p \in Passenger |-> IF pc[p] \in CI!Labels THEN pc[p]
                         ELSE IF pc[p] \in Before THEN "ci_start" ELSE "ci_done"]
SecurityCheckPc ==
    [p \in Passenger |-> IF pc[p] \in SC!Labels THEN pc[p]
                         ELSE IF VIP[p] \/ pc[p] \in Before \cup CI!Labels THEN "sc_start" ELSE "sc_done"]
VIPChannelPc == [p \in Passenger |-> IF pc[p] \in VC!Labels THEN pc[p] ELSE "away"]

\* A jump between labels of check_in is a jump of the component.
LEMMA CheckInGoto ==
    ASSUME NEW p \in Passenger, NEW from \in CI!Labels, NEW to \in CI!Labels, CI!Goto(p, from, to),
           pc \in [Passenger -> Labels]
    PROVE  CheckInPart!Goto(p, from, to)
<1>1. pc[p] = from /\ pc' = [pc EXCEPT ![p] = to]
  BY DEF CI!Goto
<1>2. CheckInPc[p] = from
  BY <1>1 DEF CheckInPc
<1>3. CheckInPc' = [CheckInPc EXCEPT ![p] = to]
  BY <1>1 DEF CheckInPc
<1> QED BY <1>2, <1>3 DEF CheckInPart!Goto, CheckInPc

\* A step of check_in in the simulation is a step of the component.
LEMMA CheckInStep ==
    ASSUME NEW p \in Passenger, CI!check_in(p), pc \in [Passenger -> Labels]
    PROVE  CheckInPart!check_in(p)
<1>0. {"ci_start", "ci_lock", "ci_find", "ci_take", "ci_serve", "ci_vacate", "ci_post", "ci_done"}
        \subseteq CI!Labels
  BY DEF CI!Labels
<1>1. CASE CI!Claim(p)
  BY <1>0, <1>1, CheckInGoto DEF CI!Claim, CheckInPart!Claim, CheckInPart!check_in
<1>2. CASE CI!LockIn(p)
  BY <1>0, <1>2, CheckInGoto DEF CI!LockIn, CheckInPart!LockIn, CheckInPart!check_in
<1>3. CASE CI!Find(p)
  <2>1. CheckInPart!get_idx(kiosks, M, FALSE) = CI!get_idx(kiosks, M, FALSE)
    BY DEF CheckInPart!get_idx, CI!get_idx, CheckInPart!IndicesOf, CI!IndicesOf
  <2> QED BY <1>0, <1>3, <2>1, CheckInGoto DEF CI!Find, CheckInPart!Find, CheckInPart!check_in
<1>4. CASE CI!Take(p)
  BY <1>0, <1>4, CheckInGoto DEF CI!Take, CheckInPart!Take, CheckInPart!check_in
<1>5. CASE CI!LockOut(p)
  BY <1>0, <1>5, CheckInGoto DEF CI!LockOut, CheckInPart!LockOut, CheckInPart!check_in
<1>6. CASE CI!Vacate(p)
  BY <1>0, <1>6, CheckInGoto DEF CI!Vacate, CheckInPart!Vacate, CheckInPart!check_in
<1>7. CASE CI!Post(p)
  BY <1>0, <1>7, CheckInGoto DEF CI!Post, CheckInPart!Post, CheckInPart!check_in
<1> QED BY <1>1, <1>2, <1>3, <1>4, <1>5, <1>6, <1>7 DEF CI!check_in

\* A jump between labels of security_check is a jump of the component.
LEMMA SecurityCheckGoto ==
    ASSUME NEW p \in Passenger, NEW to \in SC!Labels, pc[p] \in SC!Labels, pc' = [pc EXCEPT ![p] = to], VIP' = VIP,
           pc \in [Passenger -> Labels]
    PROVE  SecurityCheckPc[p] = pc[p] /\ SecurityCheckPc' = [SecurityCheckPc EXCEPT ![p] = to]
BY DEF SecurityCheckPc

\* A step of security_check in the simulation is a step of the component.
LEMMA SecurityCheckStep ==
    ASSUME NEW p \in Passenger, SC!security_check(p), VIP' = VIP, pc \in [Passenger -> Labels]
    PROVE  SecurityCheckPart!security_check(p)
<1>0. {"sc_start", "sc_lock", "sc_find", "sc_take", "sc_semwait", "sc_unlock", "sc_serve", "sc_vacate", "sc_sempost",
       "sc_post", "sc_done"} \subseteq SC!Labels
  BY DEF SC!Labels
<1>g. ASSUME NEW from \in SC!Labels, NEW to \in SC!Labels, SC!Goto(p, from, to)
      PROVE  SecurityCheckPart!Goto(p, from, to)
  <2>1. pc[p] = from /\ pc' = [pc EXCEPT ![p] = to]
    BY <1>g DEF SC!Goto
  <2>2. SecurityCheckPc[p] = from /\ SecurityCheckPc' = [SecurityCheckPc EXCEPT ![p] = to]
    BY <2>1, SecurityCheckGoto
  <2> QED BY <2>2 DEF SecurityCheckPart!Goto, SecurityCheckPc
<1>1. CASE SC!Claim(p)
  BY <1>0, <1>g, <1>1 DEF SC!Claim, SecurityCheckPart!Claim, SecurityCheckPart!security_check
<1>2. CASE SC!LockIn(p)
  BY <1>0, <1>g, <1>2 DEF SC!LockIn, SecurityCheckPart!LockIn, SecurityCheckPart!security_check
<1>3. CASE SC!Find(p)
  <2>1. SecurityCheckPart!get_idx(belts, N * P, FALSE) = SC!get_idx(belts, N * P, FALSE)
    BY DEF SecurityCheckPart!get_idx, SC!get_idx, SecurityCheckPart!IndicesOf, SC!IndicesOf
  <2> QED BY <1>0, <1>g, <1>3, <2>1 DEF SC!Find, SecurityCheckPart!Find,
             SecurityCheckPart!security_check
<1>4. CASE SC!Take(p)
  <2> DEFINE to == IF belts_count % P = 0 THEN "sc_semwait" ELSE "sc_unlock"
  <2>1. pc[p] = "sc_take" /\ pc' = [pc EXCEPT ![p] = to] /\ to \in SC!Labels
    BY <1>0, <1>4 DEF SC!Take
  <2> HIDE DEF to
  <2>2. SecurityCheckPc[p] = "sc_take" /\ SecurityCheckPc' = [SecurityCheckPc EXCEPT ![p] = to]
    BY <1>0, <2>1, SecurityCheckGoto
  <2> QED BY <1>4, <2>2 DEF to, SecurityCheckPc, SC!Take, SecurityCheckPart!Take,
             SecurityCheckPart!security_check
<1>5. CASE SC!TakeBelt(p)
  BY <1>0, <1>g, <1>5 DEF SC!TakeBelt, SecurityCheckPart!TakeBelt, SecurityCheckPart!security_check
<1>6. CASE SC!UnlockIn(p)
  BY <1>0, <1>g, <1>6 DEF SC!UnlockIn, SecurityCheckPart!UnlockIn, SecurityCheckPart!security_check
<1>7. CASE SC!LockOut(p)
  BY <1>0, <1>g, <1>7 DEF SC!LockOut, SecurityCheckPart!LockOut, SecurityCheckPart!security_check
<1>8. CASE SC!Vacate(p)
  BY <1>0, <1>g, <1>8 DEF SC!Vacate, SecurityCheckPart!Vacate, SecurityCheckPart!security_check
<1>9. CASE SC!GiveBack(p)
  BY <1>0, <1>g, <1>9 DEF SC!GiveBack, SecurityCheckPart!GiveBack, SecurityCheckPart!security_check
<1>10. CASE SC!Post(p)
  BY <1>0, <1>g, <1>10 DEF SC!Post, SecurityCheckPart!Post, SecurityCheckPart!security_check
<1> QED BY <1>1, <1>2, <1>3, <1>4, <1>5, <1>6, <1>7, <1>8, <1>9, <1>10 DEF SC!security_check

\* A jump from a label of the channel is a jump of the component, out of it
\* when the target is none of its labels.
LEMMA ChannelGoto ==
    ASSUME NEW p \in Passenger, NEW to, pc[p] \in VC!Labels, pc' = [pc EXCEPT ![p] = to], pc \in [Passenger -> Labels]
    PROVE  /\ VIPChannelPc[p] = pc[p]
           /\ VIPChannelPc' = [VIPChannelPc EXCEPT ![p] = IF to \in VC!Labels THEN to ELSE "away"]
BY DEF VIPChannelPc

\* A step through the channel in the simulation is a step of the component.
LEMMA ChannelStep ==
    ASSUME NEW p \in Passenger, pc \in [Passenger -> Labels],
           VC!VIP_channel_LR(p, "draw") \/ VC!VIP_channel_RL(p, "sk_start")
    PROVE  VIPChannelPart!Walk(p)
<1>0. /\ VC!LRLabels \subseteq VC!Labels /\ VC!RLLabels \subseteq VC!Labels
      /\ "draw" \notin VC!Labels /\ "sk_start" \notin VC!Labels
  BY DEF VC!Labels, VC!LRLabels, VC!RLLabels
<1>1. VC!LRLabels = {"lr_start", "lr_load", "lr_store", "lr_test", "lr_close", "lr_waiting",
             "lr_lock", "lr_dload", "lr_dstore", "lr_dtest", "lr_open", "lr_count",
             "lr_block", "lr_unlock", "lr_cross", "lr_leave", "lr_exit"}
      /\ VC!RLLabels = {"rl_start", "rl_gate", "rl_lock", "rl_count", "rl_block", "rl_unlock",
             "rl_cross", "rl_leave", "rl_exit"}
  BY DEF VC!LRLabels, VC!RLLabels
<1>g. ASSUME NEW from \in VC!Labels, NEW to \in VC!Labels, VC!Goto(p, from, to)
      PROVE  VIPChannelPart!Goto(p, from, to)
  <2>1. pc[p] = from /\ pc' = [pc EXCEPT ![p] = to]
    BY <1>g DEF VC!Goto
  <2>2. VIPChannelPc[p] = from /\ VIPChannelPc' = [VIPChannelPc EXCEPT ![p] = to]
    BY <2>1, ChannelGoto
  <2> QED BY <2>2 DEF VIPChannelPart!Goto, VIPChannelPc
<1>l. ASSUME NEW from \in VC!Labels, NEW to \in {"draw", "sk_start"}, VC!Goto(p, from, to)
      PROVE  VIPChannelPart!Goto(p, from, "away")
  <2>1. pc[p] = from /\ pc' = [pc EXCEPT ![p] = to]
    BY <1>l DEF VC!Goto
  <2>2. VIPChannelPc[p] = from /\ VIPChannelPc' = [VIPChannelPc EXCEPT ![p] = "away"]
    BY <1>0, <2>1, ChannelGoto
  <2> QED BY <2>2 DEF VIPChannelPart!Goto, VIPChannelPc
<1>t. ASSUME NEW from \in VC!Labels, NEW to \in VC!Labels, pc[p] = from, pc' = [pc EXCEPT ![p] = to]
      PROVE  VIPChannelPc[p] = from /\ VIPChannelPc' = [VIPChannelPc EXCEPT ![p] = to]
  BY <1>t, ChannelGoto
<1>2. CASE VC!LRStart(p)
  BY <1>0, <1>1, <1>g, <1>2 DEF VC!LRStart, VIPChannelPart!LRStart, VIPChannelPart!VIP_channel_LR,
     VIPChannelPart!Walk, VC!mutexes, VIPChannelPart!mutexes, VC!counts, VIPChannelPart!counts, VC!race,
     VIPChannelPart!race, VC!Lock, VIPChannelPart!Lock
<1>3. CASE VC!LRLoad(p)
  BY <1>0, <1>1, <1>g, <1>3 DEF VC!LRLoad, VIPChannelPart!LRLoad, VIPChannelPart!VIP_channel_LR,
     VIPChannelPart!Walk, VC!mutexes, VIPChannelPart!mutexes, VC!counts, VIPChannelPart!counts, VC!race,
     VIPChannelPart!race
<1>4. CASE VC!LRStore(p)
  BY <1>0, <1>1, <1>g, <1>4 DEF VC!LRStore, VIPChannelPart!LRStore, VIPChannelPart!VIP_channel_LR,
     VIPChannelPart!Walk, VC!mutexes, VIPChannelPart!mutexes, VC!counts, VIPChannelPart!counts, VC!race,
     VIPChannelPart!race
<1>5. CASE VC!LRTest(p)
  BY <1>0, <1>1, <1>t, <1>5 DEF VC!LRTest, VIPChannelPart!LRTest, VIPChannelPart!VIP_channel_LR,
     VIPChannelPart!Walk, VC!mutexes, VIPChannelPart!mutexes, VC!counts, VIPChannelPart!counts, VC!race,
     VIPChannelPart!race, VIPChannelPc
<1>6. CASE VC!LRClose(p)
  BY <1>0, <1>1, <1>g, <1>6 DEF VC!LRClose, VIPChannelPart!LRClose, VIPChannelPart!VIP_channel_LR,
     VIPChannelPart!Walk, VC!mutexes, VIPChannelPart!mutexes, VC!counts, VIPChannelPart!counts, VC!race,
     VIPChannelPart!race, VC!Lock, VIPChannelPart!Lock
<1>7. CASE VC!LRWaiting(p)
  BY <1>0, <1>1, <1>g, <1>7 DEF VC!LRWaiting, VIPChannelPart!LRWaiting, VIPChannelPart!VIP_channel_LR,
     VIPChannelPart!Walk, VC!mutexes, VIPChannelPart!mutexes, VC!counts, VIPChannelPart!counts, VC!race,
     VIPChannelPart!race, VC!Unlock, VIPChannelPart!Unlock
<1>8. CASE VC!LRLock(p)
  BY <1>0, <1>1, <1>g, <1>8 DEF VC!LRLock, VIPChannelPart!LRLock, VIPChannelPart!VIP_channel_LR,
     VIPChannelPart!Walk, VC!mutexes, VIPChannelPart!mutexes, VC!counts, VIPChannelPart!counts, VC!race,
     VIPChannelPart!race, VC!Lock, VIPChannelPart!Lock
<1>9. CASE VC!LRDownLoad(p)
  BY <1>0, <1>1, <1>g, <1>9 DEF VC!LRDownLoad, VIPChannelPart!LRDownLoad, VIPChannelPart!VIP_channel_LR,
     VIPChannelPart!Walk, VC!mutexes, VIPChannelPart!mutexes, VC!counts, VIPChannelPart!counts, VC!race,
     VIPChannelPart!race
<1>10. CASE VC!LRDownStore(p)
  BY <1>0, <1>1, <1>g, <1>10 DEF VC!LRDownStore, VIPChannelPart!LRDownStore,
     VIPChannelPart!VIP_channel_LR, VIPChannelPart!Walk, VC!mutexes, VIPChannelPart!mutexes, VC!counts,
     VIPChannelPart!counts, VC!race, VIPChannelPart!race
<1>11. CASE VC!LRDownTest(p)
  BY <1>0, <1>1, <1>t, <1>11 DEF VC!LRDownTest, VIPChannelPart!LRDownTest,
     VIPChannelPart!VIP_channel_LR, VIPChannelPart!Walk, VC!mutexes, VIPChannelPart!mutexes, VC!counts,
     VIPChannelPart!counts, VC!race, VIPChannelPart!race, VIPChannelPc
<1>12. CASE VC!LROpen(p)
  BY <1>0, <1>1, <1>g, <1>12 DEF VC!LROpen, VIPChannelPart!LROpen, VIPChannelPart!VIP_channel_LR,
     VIPChannelPart!Walk, VC!mutexes, VIPChannelPart!mutexes, VC!counts, VIPChannelPart!counts, VC!race,
     VIPChannelPart!race, VC!Unlock, VIPChannelPart!Unlock
<1>13. CASE VC!LRCount(p)
  BY <1>0, <1>1, <1>t, <1>13 DEF VC!LRCount, VIPChannelPart!LRCount, VIPChannelPart!VIP_channel_LR,
     VIPChannelPart!Walk, VC!mutexes, VIPChannelPart!mutexes, VC!counts, VIPChannelPart!counts, VC!race,
     VIPChannelPart!race, VIPChannelPc
<1>14. CASE VC!LRBlock(p)
  BY <1>0, <1>1, <1>g, <1>14 DEF VC!LRBlock, VIPChannelPart!LRBlock, VIPChannelPart!VIP_channel_LR,
     VIPChannelPart!Walk, VC!mutexes, VIPChannelPart!mutexes, VC!counts, VIPChannelPart!counts, VC!race,
     VIPChannelPart!race, VC!Lock, VIPChannelPart!Lock
<1>15. CASE VC!LRUnlock(p)
  BY <1>0, <1>1, <1>g, <1>15 DEF VC!LRUnlock, VIPChannelPart!LRUnlock, VIPChannelPart!VIP_channel_LR,
     VIPChannelPart!Walk, VC!mutexes, VIPChannelPart!mutexes, VC!counts, VIPChannelPart!counts, VC!race,
     VIPChannelPart!race, VC!Unlock, VIPChannelPart!Unlock
<1>16. CASE VC!LRCrossed(p)
  BY <1>0, <1>1, <1>g, <1>16 DEF VC!LRCrossed, VIPChannelPart!LRCrossed, VIPChannelPart!VIP_channel_LR,
     VIPChannelPart!Walk, VC!mutexes, VIPChannelPart!mutexes, VC!counts, VIPChannelPart!counts, VC!race,
     VIPChannelPart!race, VC!Lock, VIPChannelPart!Lock
<1>17. CASE VC!LRLeave(p)
  BY <1>0, <1>1, <1>g, <1>17 DEF VC!LRLeave, VIPChannelPart!LRLeave, VIPChannelPart!VIP_channel_LR,
     VIPChannelPart!Walk, VC!mutexes, VIPChannelPart!mutexes, VC!counts, VIPChannelPart!counts, VC!race,
     VIPChannelPart!race
<1>18. CASE VC!RLStart(p)
  BY <1>0, <1>1, <1>g, <1>18 DEF VC!RLStart, VIPChannelPart!RLStart, VIPChannelPart!VIP_channel_RL,
     VIPChannelPart!Walk, VC!mutexes, VIPChannelPart!mutexes, VC!counts, VIPChannelPart!counts, VC!race,
     VIPChannelPart!race, VC!Lock, VIPChannelPart!Lock
<1>19. CASE VC!RLGate(p)
  BY <1>0, <1>1, <1>g, <1>19 DEF VC!RLGate, VIPChannelPart!RLGate, VIPChannelPart!VIP_channel_RL,
     VIPChannelPart!Walk, VC!mutexes, VIPChannelPart!mutexes, VC!counts, VIPChannelPart!counts, VC!race,
     VIPChannelPart!race, VC!Unlock, VIPChannelPart!Unlock
<1>20. CASE VC!RLLock(p)
  BY <1>0, <1>1, <1>g, <1>20 DEF VC!RLLock, VIPChannelPart!RLLock, VIPChannelPart!VIP_channel_RL,
     VIPChannelPart!Walk, VC!mutexes, VIPChannelPart!mutexes, VC!counts, VIPChannelPart!counts, VC!race,
     VIPChannelPart!race, VC!Lock, VIPChannelPart!Lock
<1>21. CASE VC!RLCount(p)
  BY <1>0, <1>1, <1>t, <1>21 DEF VC!RLCount, VIPChannelPart!RLCount, VIPChannelPart!VIP_channel_RL,
     VIPChannelPart!Walk, VC!mutexes, VIPChannelPart!mutexes, VC!counts, VIPChannelPart!counts, VC!race,
     VIPChannelPart!race, VIPChannelPc
<1>22. CASE VC!RLBlock(p)
  BY <1>0, <1>1, <1>g, <1>22 DEF VC!RLBlock, VIPChannelPart!RLBlock, VIPChannelPart!VIP_channel_RL,
     VIPChannelPart!Walk, VC!mutexes, VIPChannelPart!mutexes, VC!counts, VIPChannelPart!counts, VC!race,
     VIPChannelPart!race, VC!Lock, VIPChannelPart!Lock
<1>23. CASE VC!RLUnlock(p)
  BY <1>0, <1>1, <1>g, <1>23 DEF VC!RLUnlock, VIPChannelPart!RLUnlock, VIPChannelPart!VIP_channel_RL,
     VIPChannelPart!Walk, VC!mutexes, VIPChannelPart!mutexes, VC!counts, VIPChannelPart!counts, VC!race,
     VIPChannelPart!race, VC!Unlock, VIPChannelPart!Unlock
<1>24. CASE VC!RLCrossed(p)
  BY <1>0, <1>1, <1>g, <1>24 DEF VC!RLCrossed, VIPChannelPart!RLCrossed, VIPChannelPart!VIP_channel_RL,
     VIPChannelPart!Walk, VC!mutexes, VIPChannelPart!mutexes, VC!counts, VIPChannelPart!counts, VC!race,
     VIPChannelPart!race, VC!Lock, VIPChannelPart!Lock
<1>25. CASE VC!RLLeave(p)
  BY <1>0, <1>1, <1>g, <1>25 DEF VC!RLLeave, VIPChannelPart!RLLeave, VIPChannelPart!VIP_channel_RL,
     VIPChannelPart!Walk, VC!mutexes, VIPChannelPart!mutexes, VC!counts, VIPChannelPart!counts, VC!race,
     VIPChannelPart!race
<1>26. CASE VC!LRExit(p, "draw")
  BY <1>0, <1>1, <1>l, <1>26 DEF VC!LRExit, VIPChannelPart!LRExit, VIPChannelPart!VIP_channel_LR,
     VIPChannelPart!Walk, VC!counts, VIPChannelPart!counts, VC!race, VIPChannelPart!race, VC!Unlock,
     VIPChannelPart!Unlock
<1>27. CASE VC!RLExit(p, "sk_start")
  BY <1>0, <1>1, <1>l, <1>27 DEF VC!RLExit, VIPChannelPart!RLExit, VIPChannelPart!VIP_channel_RL,
     VIPChannelPart!Walk, VC!counts, VIPChannelPart!counts, VC!race, VIPChannelPart!race, VC!Unlock,
     VIPChannelPart!Unlock
<1> QED BY <1>2, <1>3, <1>4, <1>5, <1>6, <1>7, <1>8, <1>9, <1>10, <1>11, <1>12, <1>13, <1>14, <1>15,
           <1>16, <1>17, <1>18, <1>19, <1>20, <1>21, <1>22, <1>23, <1>24, <1>25, <1>26, <1>27
           DEF VC!VIP_channel_LR, VC!VIP_channel_RL

-----------------------------------------------------------------------------
(* The bound of VIP_LR_waiting.  Lost updates make it drift, but by 1 for    *)
(* each store at most; the stores are counted as a set of pairs.             *)

\* The walks from left to right that passenger p will have made at its next
\* draw, how many of their stores to VIP_LR_waiting are still to come, and how
\* many have been made.
Walks(p) == losses[p] + (IF VIP[p] THEN 1 ELSE 0)
TwoMissing == VC!RLLabels \cup {"sk_start", "sk_in", "lr_start", "lr_load", "lr_store"}
OneMissing == {"lr_test", "lr_close", "lr_waiting", "lr_lock", "lr_dload", "lr_dstore"}
Missing(p) ==
    IF pc[p] \in TwoMissing \/ (VIP[p] /\ pc[p] \in Before \cup CI!Labels) THEN 2
    ELSE IF pc[p] \in OneMissing THEN 1 ELSE 0
Stored(p) == 2 * Walks(p) - Missing(p)
Stores == {s \in Passenger \X (1 .. 2 * (MaxLosses + 1)) : s[2] <= Stored(s[1])}

\* On a walk, or between the two of someone who has lost the boarding pass.
Inside == VC!LRLabels \cup VC!RLLabels \cup {"sk_start", "sk_in"}

\* VIPs do not take the security check; boarding passes are lost only later,
\* and who is in the channel is a VIP or has lost one.
WayInv ==
    /\ pc \in [Passenger -> Labels] /\ VIP \in [Passenger -> BOOLEAN] /\ losses \in [Passenger -> 0 .. MaxLosses]
    /\ VIP_LR_waiting \in Int /\ reg \in [Passenger -> Int]
    /\ \A p \in Passenger : VIP[p] => pc[p] \notin SC!Labels
    /\ \A p \in Passenger : pc[p] \in Before \cup CI!Labels => losses[p] = 0
    /\ \A p \in Passenger : pc[p] \in Inside => VIP[p] \/ losses[p] > 0
Within(v) == -Cardinality(Stores) <= v /\ v <= Cardinality(Stores)
DriftInv == Within(VIP_LR_waiting) /\ \A p \in Passenger : Within(reg[p])

\* There are at most 2 * MaxId * (MaxLosses + 1) stores.
LEMMA StoresBounded ==
    /\ IsFiniteSet(Stores) /\ Cardinality(Stores) \in Nat
    /\ Cardinality(Stores) <= 2 * MaxId * (MaxLosses + 1)
<1> DEFINE K == 1 .. 2 * (MaxLosses + 1)
<1>0. MaxId \in Nat /\ MaxLosses \in Nat /\ 2 * (MaxLosses + 1) \in Nat \ {0} /\ Passenger = 1 .. MaxId /\ MaxId >= 1
  BY AirportAssumption DEF Passenger
<1>1. IsFiniteSet(K) /\ Cardinality(K) = 2 * (MaxLosses + 1)
  BY <1>0, FS_Interval
<1>2. IsFiniteSet(Passenger) /\ Cardinality(Passenger) = MaxId
  BY <1>0, FS_Interval
<1>3. IsFiniteSet(Passenger \X K) /\ Cardinality(Passenger \X K) = Cardinality(Passenger) * Cardinality(K)
  <2> HIDE DEF K
  <2> QED BY <1>1, <1>2, FS_Product
<1>4. Stores \in SUBSET (Passenger \X K)
  BY DEF Stores
<1>5. IsFiniteSet(Stores) /\ Cardinality(Stores) <= Cardinality(Passenger \X K)
  <2> HIDE DEF K
  <2> QED BY <1>3, <1>4, FS_Subset
<1>6. MaxId * (2 * (MaxLosses + 1)) = 2 * MaxId * (MaxLosses + 1)
  BY <1>0
<1>7. Cardinality(Stores) \in Nat
  BY <1>5, FS_CardinalityType
<1>8. Cardinality(Passenger \X K) = 2 * MaxId * (MaxLosses + 1)
  BY <1>1, <1>2, <1>3, <1>6
<1> QED BY <1>5, <1>7, <1>8

\* The same in the next state.
LEMMA StoresBoundedNext == (Cardinality(Stores) \in Nat)'
BY StoresBounded, PTL

\* The number of stores of a passenger.
LEMMA StoredRange ==
    ASSUME WayInv, NEW p \in Passenger
    PROVE  Stored(p) \in 0 .. 2 * (MaxLosses + 1)
<1>0. MaxLosses \in Nat /\ losses[p] \in 0 .. MaxLosses /\ VIP[p] \in BOOLEAN
  BY AirportAssumption DEF WayInv
<1>1. Missing(p) \in {0, 1, 2} /\ (Missing(p) # 0 => VIP[p] \/ losses[p] > 0)
  <2>1. pc[p] \in TwoMissing \cup OneMissing => pc[p] \in Inside
    BY DEF TwoMissing, OneMissing, Inside, VC!LRLabels
  <2>2. pc[p] \in TwoMissing \cup OneMissing => VIP[p] \/ losses[p] > 0
    BY <2>1 DEF WayInv
  <2> QED BY <2>2 DEF Missing
<1>2. /\ VIP[p] => Walks(p) = losses[p] + 1
      /\ ~VIP[p] => Walks(p) = losses[p]
  BY <1>0 DEF Walks
<1> QED BY <1>0, <1>1, <1>2 DEF Stored

\* The same in the next state.
LEMMA StoredRangeNext ==
    ASSUME NEW p \in Passenger
    PROVE  WayInv' => (Stored(p) \in 0 .. 2 * (MaxLosses + 1))'
<1>1. WayInv => Stored(p) \in 0 .. 2 * (MaxLosses + 1)
  BY StoredRange
<1> QED BY <1>1, PTL

\* Nobody stores: VIP_LR_waiting stays, and p may load it or clear its copy.
LEMMA DriftKept ==
    ASSUME WayInv, DriftInv, NEW p \in Passenger, \A q \in Passenger : Stored(q)' = Stored(q),
           VIP_LR_waiting' = VIP_LR_waiting,
           reg' = reg \/ \E v \in {0, VIP_LR_waiting} : reg' = [reg EXCEPT ![p] = v]
    PROVE  DriftInv'
<1>1. Stores' = Stores
  BY DEF Stores
<1>2. Within(0)
  BY StoresBounded DEF Within
<1>3. \A q \in Passenger : reg'[q] = reg[q] \/ reg'[q] = 0 \/ reg'[q] = VIP_LR_waiting
  BY DEF WayInv
<1> QED BY <1>1, <1>2, <1>3 DEF DriftInv, Within

\* p stores: one more store, and the value is 1 off p's copy.
LEMMA DriftGrows ==
    ASSUME WayInv, WayInv', DriftInv, NEW p \in Passenger, \A q \in Passenger : q # p => Stored(q)' = Stored(q),
           Stored(p)' = Stored(p) + 1, NEW v \in {reg[p] + 1, reg[p] - 1},
           VIP_LR_waiting' = v, reg' = [reg EXCEPT ![p] = v]
    PROVE  DriftInv'
<1> DEFINE C == Cardinality(Stores)
           new == <<p, Stored(p) + 1>>
<1>1. Stored(p) \in 0 .. 2 * (MaxLosses + 1) /\ MaxLosses \in Nat
  BY StoredRange, AirportAssumption
<1>2. Stored(p)' <= 2 * (MaxLosses + 1)
  <2>1. (Stored(p) \in 0 .. 2 * (MaxLosses + 1))'
    BY StoredRangeNext
  <2> QED BY <1>1, <2>1
<1>3. new \notin Stores
  BY <1>1 DEF Stores
<1>4. Stores' = Stores \cup {new}
  <2>1. \A q \in Passenger : q # p => (\A i \in 1 .. 2 * (MaxLosses + 1) : i <= Stored(q)' <=> i <= Stored(q))
    OBVIOUS
  <2>2. \A i \in 1 .. 2 * (MaxLosses + 1) : i <= Stored(p)' <=> i <= Stored(p) \/ i = Stored(p) + 1
    BY <1>1
  <2>3. Stored(p) + 1 \in 1 .. 2 * (MaxLosses + 1)
    BY <1>1, <1>2
  <2>4. Stores' = {s \in Passenger \X (1 .. 2 * (MaxLosses + 1)) : s[2] <= Stored(s[1])'}
    BY DEF Stores
  <2> QED BY <2>1, <2>2, <2>3, <2>4 DEF Stores
<1>5. Cardinality(Stores') = C + 1 /\ C \in Nat
  <2> HIDE DEF new
  <2> QED BY <1>3, <1>4, StoresBounded, FS_AddElement
<1>6. /\ -C <= VIP_LR_waiting /\ VIP_LR_waiting <= C
      /\ \A q \in Passenger : -C <= reg[q] /\ reg[q] <= C
  BY DEF DriftInv, Within
<1>7. VIP_LR_waiting \in Int /\ reg \in [Passenger -> Int]
  BY DEF WayInv
<1> HIDE DEF C
<1>8. -(C + 1) <= v /\ v <= C + 1
  BY <1>5, <1>6, <1>7
<1>9. \A q \in Passenger : -(C + 1) <= reg'[q] /\ reg'[q] <= C + 1
  BY <1>5, <1>6, <1>7, <1>8
<1> QED BY <1>5, <1>8, <1>9 DEF DriftInv, Within

\* A thread goes from one label to another: WayInv is kept, and the stores of
\* the others are.
LEMMA WayStep ==
    ASSUME WayInv, NEW p \in Passenger, NEW to \in Labels, pc' = [pc EXCEPT ![p] = to], UNCHANGED <<VIP, losses>>,
           VIP[p] => to \notin SC!Labels, to \in Before \cup CI!Labels => losses[p] = 0,
           to \in Inside => VIP[p] \/ losses[p] > 0,
           VIP_LR_waiting' \in Int, reg' \in [Passenger -> Int]
    PROVE  /\ WayInv' /\ \A q \in Passenger : q # p => Stored(q)' = Stored(q)
           /\ Missing(p)' = Missing(p) => Stored(p)' = Stored(p)
           /\ Missing(p)' = Missing(p) - 1 => Stored(p)' = Stored(p) + 1
<1>1. pc'[p] = to /\ \A q \in Passenger : q # p => pc'[q] = pc[q]
  BY DEF WayInv
<1>2. WayInv'
  BY <1>1 DEF WayInv, Inside
<1>3. \A q \in Passenger : Walks(q)' = Walks(q)
  BY DEF Walks
<1>4. \A q \in Passenger : q # p => Missing(q)' = Missing(q)
  BY <1>1 DEF Missing
<1>5. Walks(p) \in Int /\ Missing(p) \in Int
  BY AirportAssumption DEF Walks, Missing, WayInv
<1> QED BY <1>2, <1>3, <1>4, <1>5 DEF Stored

\* The labels of the components are different.
LEMMA LabelsApart ==
    /\ CI!Labels \cap (SC!Labels \cup Inside \cup Before \cup TwoMissing \cup OneMissing) = {}
    /\ SC!Labels \cap (Inside \cup Before \cup TwoMissing \cup OneMissing) = {}
    /\ Inside \cap Before = {}
    /\ TwoMissing \cup OneMissing \subseteq Inside /\ TwoMissing \cap OneMissing = {}
    /\ VC!RLLabels \subseteq TwoMissing /\ VC!LRLabels \cap VC!RLLabels = {}
BY DEF CI!Labels, SC!Labels, Inside, Before, TwoMissing, OneMissing, VC!LRLabels, VC!RLLabels

\* Steps that stay among the labels of one component, or between them, store nothing.
LEMMA QuietStep ==
    ASSUME WayInv, DriftInv, NEW p \in Passenger, NEW to \in Labels, pc' = [pc EXCEPT ![p] = to],
           UNCHANGED <<VIP, losses, VIP_LR_waiting>>,
           reg' = reg \/ \E v \in {0, VIP_LR_waiting} : reg' = [reg EXCEPT ![p] = v],
           VIP[p] => to \notin SC!Labels, to \in Before \cup CI!Labels => losses[p] = 0,
           to \in Inside => VIP[p] \/ losses[p] > 0, Missing(p)' = Missing(p)
    PROVE  WayInv' /\ DriftInv'
<1>1. VIP_LR_waiting' \in Int /\ reg' \in [Passenger -> Int]
  BY DEF WayInv
<1>2. WayInv' /\ \A q \in Passenger : Stored(q)' = Stored(q)
  BY <1>1, WayStep
<1> QED BY <1>2, DriftKept

\* Labels with as many stores to come.
Waitless == {"lr_dtest", "lr_open", "lr_count", "lr_block", "lr_unlock", "lr_cross", "lr_leave", "lr_exit", "draw",
             "sc_done", "bd_start", "bd_in", "exited"} \cup SC!Labels
SameKind(from, to) ==
    \/ from \in TwoMissing /\ to \in TwoMissing
    \/ from \in OneMissing /\ to \in OneMissing
    \/ from \in Waitless /\ to \in Waitless
    \/ from \in CI!Labels /\ to \in CI!Labels

\* With no store to come, a label belongs to no other kind.
LEMMA KindsApart == Waitless \cap (TwoMissing \cup OneMissing \cup Before \cup CI!Labels) = {}
BY DEF Waitless, TwoMissing, OneMissing, Before, CI!Labels, SC!Labels, VC!RLLabels

\* Moving between labels of one kind leaves the number of stores to come.
LEMMA SameMissing ==
    ASSUME NEW p \in Passenger, NEW to, pc'[p] = to, VIP' = VIP, SameKind(pc[p], to)
    PROVE  Missing(p)' = Missing(p)
<1>1. CASE pc[p] \in TwoMissing /\ to \in TwoMissing
  BY <1>1 DEF Missing
<1>2. CASE pc[p] \in OneMissing /\ to \in OneMissing
  BY <1>2, LabelsApart DEF Missing
<1>3. CASE pc[p] \in Waitless /\ to \in Waitless
  BY <1>3, KindsApart DEF Missing
<1>4. CASE pc[p] \in CI!Labels /\ to \in CI!Labels
  BY <1>4, LabelsApart DEF Missing
<1> QED BY <1>1, <1>2, <1>3, <1>4 DEF SameKind

\* What a step of the walk from left to right does to VIP_LR_waiting and to
\* the passenger's copy: the two stores, and the steps between them.
LEMMA WalkKinds ==
    ASSUME NEW p \in Passenger, VC!VIP_channel_LR(p, "draw")
    PROVE  \/ /\ pc[p] = "lr_store" /\ pc' = [pc EXCEPT ![p] = "lr_test"]
              /\ VIP_LR_waiting' = reg[p] + 1 /\ reg' = [reg EXCEPT ![p] = reg[p] + 1]
           \/ /\ pc[p] = "lr_dstore" /\ pc' = [pc EXCEPT ![p] = "lr_dtest"]
              /\ VIP_LR_waiting' = reg[p] - 1 /\ reg' = [reg EXCEPT ![p] = reg[p] - 1]
           \/ /\ \E to \in VC!LRLabels \cup {"draw"} : pc' = [pc EXCEPT ![p] = to] /\ SameKind(pc[p], to)
              /\ VIP_LR_waiting' = VIP_LR_waiting
              /\ reg' = reg \/ \E v \in {0, VIP_LR_waiting} : reg' = [reg EXCEPT ![p] = v]
<1> DEFINE two == {"lr_start", "lr_load", "lr_store"}
           none == {"lr_dtest", "lr_open", "lr_count", "lr_block", "lr_unlock", "lr_cross", "lr_leave",
                    "lr_exit", "draw"}
<1>0. /\ two \subseteq TwoMissing /\ none \subseteq Waitless
      /\ two \cup OneMissing \cup none \subseteq VC!LRLabels \cup {"draw"}
  BY DEF TwoMissing, OneMissing, Waitless, VC!LRLabels
<1>k. ASSUME NEW to, pc' = [pc EXCEPT ![p] = to],
             \/ pc[p] \in two /\ to \in two
             \/ pc[p] \in OneMissing /\ to \in OneMissing
             \/ pc[p] \in none /\ to \in none
      PROVE  \E t \in VC!LRLabels \cup {"draw"} : pc' = [pc EXCEPT ![p] = t] /\ SameKind(pc[p], t)
  <2> HIDE DEF two, none
  <2>1. to \in VC!LRLabels \cup {"draw"} /\ SameKind(pc[p], to)
    BY <1>0, <1>k DEF SameKind
  <2> QED BY <1>k, <2>1
<1>1. CASE VC!LRStart(p) \/ VC!LRLoad(p)
  <2>1. \E to \in two : pc[p] \in two /\ pc' = [pc EXCEPT ![p] = to]
    BY <1>1 DEF VC!LRStart, VC!LRLoad, VC!Goto
  <2>2. /\ VIP_LR_waiting' = VIP_LR_waiting
        /\ reg' = reg \/ \E v \in {0, VIP_LR_waiting} : reg' = [reg EXCEPT ![p] = v]
    BY <1>1 DEF VC!LRStart, VC!LRLoad, VC!race
  <2> QED BY <1>k, <2>1, <2>2
<1>2. CASE VC!LRStore(p)
  BY <1>2 DEF VC!LRStore, VC!Goto
<1>3. CASE VC!LRTest(p) \/ VC!LRClose(p) \/ VC!LRWaiting(p) \/ VC!LRLock(p) \/ VC!LRDownLoad(p)
  <2>1. \E to \in OneMissing : pc[p] \in OneMissing /\ pc' = [pc EXCEPT ![p] = to]
    BY <1>3 DEF VC!LRTest, VC!LRClose, VC!LRWaiting, VC!LRLock, VC!LRDownLoad, VC!Goto, OneMissing
  <2>2. /\ VIP_LR_waiting' = VIP_LR_waiting
        /\ reg' = reg \/ \E v \in {0, VIP_LR_waiting} : reg' = [reg EXCEPT ![p] = v]
    BY <1>3 DEF VC!LRTest, VC!LRClose, VC!LRWaiting, VC!LRLock, VC!LRDownLoad, VC!race
  <2> QED BY <1>k, <2>1, <2>2
<1>4. CASE VC!LRDownStore(p)
  BY <1>4 DEF VC!LRDownStore, VC!Goto
<1>5. CASE VC!LRDownTest(p) \/ VC!LROpen(p) \/ VC!LRCount(p) \/ VC!LRBlock(p) \/ VC!LRUnlock(p)
           \/ VC!LRCrossed(p) \/ VC!LRLeave(p) \/ VC!LRExit(p, "draw")
  <2>1. \E to \in none : pc[p] \in none /\ pc' = [pc EXCEPT ![p] = to]
    BY <1>5 DEF VC!LRDownTest, VC!LROpen, VC!LRCount, VC!LRBlock, VC!LRUnlock, VC!LRCrossed, VC!LRLeave,
       VC!LRExit, VC!Goto
  <2>2. /\ VIP_LR_waiting' = VIP_LR_waiting
        /\ reg' = reg \/ \E v \in {0, VIP_LR_waiting} : reg' = [reg EXCEPT ![p] = v]
    BY <1>5 DEF VC!LRDownTest, VC!LROpen, VC!LRCount, VC!LRBlock, VC!LRUnlock, VC!LRCrossed, VC!LRLeave,
       VC!LRExit, VC!race
  <2> QED BY <1>k, <2>1, <2>2
<1> HIDE DEF two, none
<1> QED BY <1>1, <1>2, <1>3, <1>4, <1>5 DEF VC!VIP_channel_LR

\* A step of VIP_channel_LR keeps the bound: its two stores move it by 1.
LEMMA WalkDrift ==
    ASSUME WayInv, DriftInv, NEW p \in Passenger, VC!VIP_channel_LR(p, "draw"), UNCHANGED <<VIP, losses>>
    PROVE  WayInv' /\ DriftInv'
<1>0. /\ pc[p] \in VC!LRLabels /\ pc \in [Passenger -> Labels] /\ reg[p] \in Int /\ reg \in [Passenger -> Int]
      /\ VIP[p] \/ losses[p] > 0
  BY ChannelMoves DEF WayInv, Inside
<1>1. ASSUME NEW to \in VC!LRLabels \cup {"draw"}
      PROVE  to \in Labels /\ to \notin SC!Labels /\ to \notin Before \cup CI!Labels
  BY DEF Labels, VC!LRLabels, SC!Labels, CI!Labels, Before, OtherLabels
<1>2. ASSUME NEW to \in {"lr_test", "lr_dtest"}, pc' = [pc EXCEPT ![p] = to], NEW v \in {reg[p] + 1, reg[p] - 1},
             VIP_LR_waiting' = v, reg' = [reg EXCEPT ![p] = v],
             \/ pc[p] = "lr_store" /\ to = "lr_test"
             \/ pc[p] = "lr_dstore" /\ to = "lr_dtest"
      PROVE  WayInv' /\ DriftInv'
  <2>1. to \in VC!LRLabels /\ v \in Int
    BY <1>0, <1>2 DEF VC!LRLabels
  <2>2. VIP_LR_waiting' \in Int /\ reg' \in [Passenger -> Int] /\ pc'[p] = to
    BY <1>0, <1>2, <2>1
  <2>3. Missing(p)' = Missing(p) - 1
    <3>1. CASE pc[p] = "lr_store" /\ to = "lr_test"
      <4>1. /\ "lr_store" \in TwoMissing /\ "lr_test" \in OneMissing /\ "lr_test" \notin TwoMissing
            /\ "lr_test" \notin Before \cup CI!Labels
        BY DEF TwoMissing, OneMissing, Before, CI!Labels, VC!RLLabels
      <4> QED BY <2>2, <3>1, <4>1 DEF Missing
    <3>2. CASE pc[p] = "lr_dstore" /\ to = "lr_dtest"
      <4>1. /\ "lr_dstore" \in OneMissing /\ "lr_dstore" \notin TwoMissing \cup Before \cup CI!Labels
            /\ "lr_dtest" \notin TwoMissing \cup OneMissing \cup Before \cup CI!Labels
        BY DEF TwoMissing, OneMissing, Before, CI!Labels, VC!RLLabels
      <4> QED BY <2>2, <3>2, <4>1 DEF Missing
    <3> QED BY <1>2, <3>1, <3>2
  <2>4. WayInv' /\ (\A q \in Passenger : q # p => Stored(q)' = Stored(q)) /\ Stored(p)' = Stored(p) + 1
    BY <1>0, <1>1, <1>2, <2>1, <2>2, <2>3, WayStep
  <2> QED BY <1>2, <2>4, DriftGrows
<1>3. ASSUME NEW to \in VC!LRLabels \cup {"draw"}, pc' = [pc EXCEPT ![p] = to], SameKind(pc[p], to),
             VIP_LR_waiting' = VIP_LR_waiting,
             reg' = reg \/ \E v \in {0, VIP_LR_waiting} : reg' = [reg EXCEPT ![p] = v]
      PROVE  WayInv' /\ DriftInv'
  <2>1. Missing(p)' = Missing(p)
    BY <1>0, <1>3, SameMissing
  <2> QED BY <1>0, <1>1, <1>3, <2>1, QuietStep
<1> QED BY <1>2, <1>3, WalkKinds

\* A step that touches neither VIP_LR_waiting nor a copy, between labels of one
\* kind, keeps the bound.
LEMMA QuietKind ==
    ASSUME WayInv, DriftInv, NEW p \in Passenger, NEW to \in Labels, pc' = [pc EXCEPT ![p] = to],
           UNCHANGED <<VIP, losses, VIP_LR_waiting, reg>>, SameKind(pc[p], to),
           VIP[p] => to \notin SC!Labels, to \in Before \cup CI!Labels => losses[p] = 0,
           to \in Inside => VIP[p] \/ losses[p] > 0
    PROVE  WayInv' /\ DriftInv'
<1>1. pc'[p] = to
  BY DEF WayInv
<1>2. Missing(p)' = Missing(p)
  BY <1>1, SameMissing
<1> QED BY <1>2, QuietStep

\* check_in keeps the bound.
LEMMA CheckInDrift ==
    ASSUME WayInv, DriftInv, NEW p \in Passenger, CI!check_in(p), UNCHANGED <<VIP, losses, VIP_LR_waiting, reg>>
    PROVE  WayInv' /\ DriftInv'
<1>1. PICK to \in CI!Labels : pc[p] \in CI!Labels /\ pc' = [pc EXCEPT ![p] = to]
  BY CheckInMoves
<1>2. to \in Labels /\ to \notin SC!Labels /\ to \notin Inside /\ losses[p] = 0 /\ SameKind(pc[p], to)
  BY <1>1, LabelsApart DEF WayInv, Labels, SameKind
<1> QED BY <1>1, <1>2, QuietKind

\* security_check keeps the bound.
LEMMA SecurityCheckDrift ==
    ASSUME WayInv, DriftInv, NEW p \in Passenger, SC!security_check(p), UNCHANGED <<VIP, losses, VIP_LR_waiting, reg>>
    PROVE  WayInv' /\ DriftInv'
<1>1. PICK to \in SC!Labels : pc[p] \in SC!Labels /\ pc' = [pc EXCEPT ![p] = to]
  BY SecurityCheckMoves
<1>2. to \in Labels /\ ~VIP[p] /\ to \notin Inside /\ to \notin Before \cup CI!Labels /\ SameKind(pc[p], to)
  BY <1>1, LabelsApart DEF WayInv, Labels, SameKind, Waitless
<1> QED BY <1>1, <1>2, QuietKind

\* VIP_channel_RL keeps the bound: it neither reads nor writes VIP_LR_waiting.
LEMMA ReturnDrift ==
    ASSUME WayInv, DriftInv, NEW p \in Passenger, VC!VIP_channel_RL(p, "sk_start"), UNCHANGED <<VIP, losses>>
    PROVE  WayInv' /\ DriftInv'
<1>1. PICK to \in VC!RLLabels \cup {"sk_start"} : pc[p] \in VC!RLLabels /\ pc' = [pc EXCEPT ![p] = to]
  BY ChannelMoves
<1>2. to \in Labels /\ to \in TwoMissing /\ pc[p] \in TwoMissing /\ pc[p] \in Inside
  BY <1>1 DEF Labels, OtherLabels, TwoMissing, Inside
<1>3. to \notin SC!Labels /\ to \notin Before \cup CI!Labels /\ SameKind(pc[p], to) /\ (VIP[p] \/ losses[p] > 0)
  BY <1>2, LabelsApart DEF WayInv, SameKind, Inside
<1>4. VIP_LR_waiting' = VIP_LR_waiting /\ reg' = reg
  BY DEF VC!VIP_channel_RL, VC!RLStart, VC!RLGate, VC!RLLock, VC!RLCount, VC!RLBlock, VC!RLUnlock,
     VC!RLCrossed, VC!RLLeave, VC!RLExit, VC!race
<1> QED BY <1>1, <1>2, <1>3, <1>4, QuietKind

\* special_kiosk and board keep the bound.
LEMMA ServiceDrift ==
    ASSUME WayInv, DriftInv, NEW p \in Passenger, UNCHANGED <<VIP, losses, VIP_LR_waiting, reg>>,
           SpecialKioskEnter(p) \/ SpecialKioskLeave(p) \/ BoardEnter(p) \/ BoardLeave(p)
    PROVE  WayInv' /\ DriftInv'
<1>1. CASE SpecialKioskEnter(p) \/ SpecialKioskLeave(p)
  <2>1. PICK to \in {"sk_in", "lr_start"} : pc[p] \in {"sk_start", "sk_in"} /\ pc' = [pc EXCEPT ![p] = to]
    BY <1>1 DEF SpecialKioskEnter, SpecialKioskLeave, Goto
  <2>2. to \in Labels /\ to \in TwoMissing /\ pc[p] \in TwoMissing /\ to \in Inside
    BY <2>1 DEF Labels, OtherLabels, TwoMissing, Inside, VC!LRLabels
  <2>3. to \notin SC!Labels /\ to \notin Before \cup CI!Labels /\ SameKind(pc[p], to) /\ (VIP[p] \/ losses[p] > 0)
    BY <2>1, <2>2, LabelsApart DEF WayInv, SameKind, Inside
  <2> QED BY <2>1, <2>2, <2>3, QuietKind
<1>2. CASE BoardEnter(p) \/ BoardLeave(p)
  <2>1. PICK to \in {"bd_in", "exited"} : pc[p] \in {"bd_start", "bd_in"} /\ pc' = [pc EXCEPT ![p] = to]
    BY <1>2 DEF BoardEnter, BoardLeave, Goto
  <2>2. /\ to \in Labels /\ SameKind(pc[p], to)
        /\ to \notin SC!Labels /\ to \notin Before \cup CI!Labels /\ to \notin Inside
    BY <2>1 DEF Labels, OtherLabels, Waitless, SameKind, SC!Labels, CI!Labels, Before, Inside,
       VC!LRLabels, VC!RLLabels
  <2> QED BY <2>1, <2>2, QuietKind
<1> QED BY <1>1, <1>2

\* The choice after check_in keeps the bound: a VIP's walk has been counted
\* since it was created.
LEMMA ChooseWayDrift ==
    ASSUME WayInv, DriftInv, NEW p \in Passenger, UNCHANGED <<VIP_LR_waiting, reg>>, ChooseWay(p) \/ Passed(p)
    PROVE  WayInv' /\ DriftInv'
<1>0. UNCHANGED <<VIP, losses>> /\ pc \in [Passenger -> Labels] /\ VIP[p] \in BOOLEAN
  BY DEF ChooseWay, Passed, person, WayInv
<1>1. CASE ChooseWay(p)
  <2>1. pc[p] = "ci_done" /\ pc' = [pc EXCEPT ![p] = IF VIP[p] THEN "lr_start" ELSE "sc_start"]
    BY <1>1 DEF ChooseWay, Goto
  <2>2. /\ "ci_done" \in CI!Labels /\ "ci_done" \notin TwoMissing \cup OneMissing
        /\ "lr_start" \in TwoMissing /\ "lr_start" \in Labels /\ "sc_start" \in Labels
        /\ "lr_start" \notin SC!Labels \cup Before \cup CI!Labels
        /\ "sc_start" \notin TwoMissing \cup OneMissing \cup Before \cup CI!Labels \cup Inside
    BY DEF CI!Labels, SC!Labels, TwoMissing, OneMissing, Labels, Before, Inside, VC!LRLabels,
       VC!RLLabels
  <2>3. CASE VIP[p]
    <3>1. pc' = [pc EXCEPT ![p] = "lr_start"] /\ pc'[p] = "lr_start" /\ VIP'[p]
      BY <1>0, <2>1, <2>3
    <3>2. Missing(p)' = Missing(p)
      BY <1>0, <2>1, <2>2, <2>3, <3>1 DEF Missing
    <3> QED BY <1>0, <2>2, <2>3, <3>1, <3>2, QuietStep
  <2>4. CASE ~VIP[p]
    <3>1. pc' = [pc EXCEPT ![p] = "sc_start"] /\ pc'[p] = "sc_start" /\ ~VIP'[p]
      BY <1>0, <2>1, <2>4
    <3>2. Missing(p)' = Missing(p)
      BY <1>0, <2>1, <2>2, <2>4, <3>1 DEF Missing
    <3> QED BY <1>0, <2>2, <2>4, <3>1, <3>2, QuietStep
  <2> QED BY <2>3, <2>4
<1>2. CASE Passed(p)
  <2>1. pc[p] = "sc_done" /\ pc' = [pc EXCEPT ![p] = "draw"]
    BY <1>2 DEF Passed, Goto
  <2>2. /\ "draw" \in Labels /\ SameKind("sc_done", "draw")
        /\ "draw" \notin SC!Labels \cup Before \cup CI!Labels \cup Inside
    BY DEF Labels, OtherLabels, Waitless, SameKind, SC!Labels, CI!Labels, Before, Inside, VC!LRLabels,
       VC!RLLabels
  <2> QED BY <1>0, <2>1, <2>2, QuietKind
<1> QED BY <1>1, <1>2

\* A boarding pass is lost: one more walk, with both its stores to come.
LEMMA DrawDrift ==
    ASSUME WayInv, DriftInv, NEW p \in Passenger, Draw(p), UNCHANGED <<VIP_LR_waiting, reg>>
    PROVE  WayInv' /\ DriftInv'
<1>0. /\ VIP' = VIP /\ pc \in [Passenger -> Labels] /\ losses \in [Passenger -> 0 .. MaxLosses]
      /\ pc[p] = "draw" /\ MaxLosses \in Nat /\ VIP[p] \in BOOLEAN
  BY AirportAssumption DEF Draw, WayInv
<1>1. PICK lost \in BOOLEAN :
        /\ lost => losses[p] < MaxLosses
        /\ losses' = [losses EXCEPT ![p] = @ + (IF lost THEN 1 ELSE 0)]
        /\ pc' = [pc EXCEPT ![p] = IF lost THEN "rl_start" ELSE "bd_start"]
  BY DEF Draw
<1>2. /\ "rl_start" \in TwoMissing /\ "rl_start" \in Labels /\ "bd_start" \in Labels
      /\ "rl_start" \notin SC!Labels \cup Before \cup CI!Labels
      /\ SameKind("draw", "bd_start") /\ "bd_start" \notin SC!Labels \cup Before \cup CI!Labels \cup Inside
      /\ "draw" \notin TwoMissing \cup OneMissing \cup Before \cup CI!Labels
  BY DEF CI!Labels, SC!Labels, TwoMissing, OneMissing, Labels, OtherLabels, Before, Inside, VC!LRLabels,
     VC!RLLabels, SameKind, Waitless
<1>3. CASE lost
  <2>1. /\ pc' = [pc EXCEPT ![p] = "rl_start"] /\ losses' = [losses EXCEPT ![p] = losses[p] + 1]
        /\ losses[p] + 1 \in 0 .. MaxLosses
    BY <1>0, <1>1, <1>3
  <2>2. /\ pc'[p] = "rl_start" /\ losses'[p] = losses[p] + 1 /\ losses' \in [Passenger -> 0 .. MaxLosses]
        /\ pc' \in [Passenger -> Labels]
        /\ \A q \in Passenger : q # p => pc'[q] = pc[q] /\ losses'[q] = losses[q]
    BY <1>0, <1>2, <2>1
  <2>3. WayInv'
    <3>1. \A q \in Passenger : VIP'[q] => pc'[q] \notin SC!Labels
      BY <1>0, <1>2, <2>2 DEF WayInv
    <3>2. \A q \in Passenger : pc'[q] \in Before \cup CI!Labels => losses'[q] = 0
      BY <1>0, <1>2, <2>2 DEF WayInv
    <3>3. \A q \in Passenger : pc'[q] \in Inside => VIP'[q] \/ losses'[q] > 0
      BY <1>0, <1>2, <2>2 DEF WayInv, Inside
    <3>4. VIP' \in [Passenger -> BOOLEAN] /\ VIP_LR_waiting' \in Int /\ reg' \in [Passenger -> Int]
      BY <1>0 DEF WayInv
    <3> QED BY <2>2, <3>1, <3>2, <3>3, <3>4 DEF WayInv, Inside
  <2>4. \A q \in Passenger : q # p => Stored(q)' = Stored(q)
    BY <1>0, <2>2 DEF Stored, Walks, Missing
  <2>5. Missing(p) = 0 /\ Missing(p)' = 2
    BY <1>0, <1>2, <2>2 DEF Missing
  <2>6. Walks(p) \in Nat /\ Walks(p)' = Walks(p) + 1
    BY <1>0, <2>2 DEF Walks
  <2>7. Stored(p)' = Stored(p)
    BY <2>5, <2>6 DEF Stored
  <2> QED BY <2>3, <2>4, <2>7, DriftKept
<1>4. CASE ~lost
  <2>1. pc' = [pc EXCEPT ![p] = "bd_start"] /\ losses' = losses
    BY <1>0, <1>1, <1>4
  <2> QED BY <1>0, <1>2, <2>1, QuietKind
<1> QED BY <1>3, <1>4

\* Everyone starts without a store.
LEMMA DriftInit == Init => WayInv /\ DriftInv
<1> SUFFICES ASSUME Init PROVE WayInv /\ DriftInv
  OBVIOUS
<1>0. /\ pc = [p \in Passenger |-> "none"] /\ VIP = [p \in Passenger |-> FALSE] /\ losses = [p \in Passenger |-> 0]
      /\ VIP_LR_waiting = 0 /\ reg = [p \in Passenger |-> 0] /\ MaxLosses \in Nat
  BY AirportAssumption DEF Init, VC!InitChannel
<1>1. "none" \in Labels /\ "none" \notin Inside
  BY DEF Labels, OtherLabels, Inside, VC!LRLabels, VC!RLLabels
<1>2. WayInv
  BY <1>0, <1>1 DEF WayInv, Inside
<1>3. DriftInv
  BY <1>0, StoresBounded DEF DriftInv, Within
<1> QED BY <1>2, <1>3

\* A new passenger has stored nothing, VIP or not.
LEMMA CreateDrift ==
    ASSUME MainInv, WayInv, DriftInv, Create
    PROVE  WayInv' /\ DriftInv'
<1>0. PICK n \in Passenger : n = id /\ pc[n] = "none" /\ pc \in [Passenger -> Labels]
                                /\ UNCHANGED <<losses, VIP_LR_waiting, reg>>
  BY AirportAssumption DEF Create, MainInv, Passenger, channel
<1>1. PICK vip \in BOOLEAN, start \in {"ci_start", "failed"} :
        VIP' = [VIP EXCEPT ![n] = vip] /\ pc' = [pc EXCEPT ![n] = start]
  BY <1>0 DEF Create
<1>2. start \in Before \cup CI!Labels /\ start \in Labels /\ "none" \in Before /\ losses[n] = 0
      /\ start \notin SC!Labels \cup Inside \cup TwoMissing \cup OneMissing
      /\ "none" \notin TwoMissing \cup OneMissing
  BY <1>0 DEF WayInv, Before, CI!Labels, SC!Labels, Labels, OtherLabels, Inside, TwoMissing, OneMissing,
     VC!LRLabels, VC!RLLabels
<1>3. /\ pc'[n] = start /\ VIP'[n] = vip /\ pc' \in [Passenger -> Labels] /\ VIP' \in [Passenger -> BOOLEAN]
      /\ \A q \in Passenger : q # n => pc'[q] = pc[q] /\ VIP'[q] = VIP[q]
  BY <1>0, <1>1, <1>2 DEF WayInv
<1>4. WayInv'
  <2>1. \A q \in Passenger : VIP'[q] => pc'[q] \notin SC!Labels
    BY <1>2, <1>3 DEF WayInv
  <2>2. \A q \in Passenger : pc'[q] \in Before \cup CI!Labels => losses'[q] = 0
    BY <1>0, <1>2, <1>3 DEF WayInv
  <2>3. \A q \in Passenger : pc'[q] \in Inside => VIP'[q] \/ losses'[q] > 0
    BY <1>0, <1>2, <1>3 DEF WayInv, Inside
  <2>4. losses' \in [Passenger -> 0 .. MaxLosses] /\ VIP_LR_waiting' \in Int /\ reg' \in [Passenger -> Int]
    BY <1>0 DEF WayInv
  <2> QED BY <1>3, <2>1, <2>2, <2>3, <2>4 DEF WayInv, Inside
<1>5. \A q \in Passenger : q # n => Stored(q)' = Stored(q)
  BY <1>0, <1>3 DEF Stored, Walks, Missing
<1>6. Stored(n) = 0 /\ Stored(n)' = 0
  <2>1. VIP[n] \in BOOLEAN /\ losses'[n] = 0
    BY <1>0, <1>2 DEF WayInv
  <2>2. Stored(n) = 0
    BY <1>0, <1>2, <2>1 DEF Stored, Walks, Missing
  <2>3. Stored(n)' = 0
    BY <1>0, <1>2, <1>3, <2>1 DEF Stored, Walks, Missing
  <2> QED BY <2>2, <2>3
<1> QED BY <1>0, <1>4, <1>5, <1>6, DriftKept

\* Every step of main and of the threads keeps the bound.
LEMMA DriftNext == MainInv /\ WayInv /\ DriftInv /\ [Next]_vars => WayInv' /\ DriftInv'
<1> SUFFICES ASSUME MainInv, WayInv, DriftInv, [Next]_vars PROVE WayInv' /\ DriftInv'
  OBVIOUS
<1>1. ASSUME NEW p \in Passenger, simulate(p) PROVE WayInv' /\ DriftInv'
  <2>1. CASE CI!check_in(p) /\ UNCHANGED <<sc_pool, channel, services, person>>
    BY <2>1, CheckInDrift DEF channel, person
  <2>2. CASE SC!security_check(p) /\ UNCHANGED <<ci_pool, channel, services, person>>
    BY <2>2, SecurityCheckDrift DEF channel, person
  <2>3. CASE VC!VIP_channel_LR(p, "draw") /\ UNCHANGED <<ci_pool, sc_pool, services, person>>
    BY <2>3, WalkDrift DEF person
  <2>4. CASE VC!VIP_channel_RL(p, "sk_start") /\ UNCHANGED <<ci_pool, sc_pool, services, person>>
    BY <2>4, ReturnDrift DEF person
  <2>5. CASE (SpecialKioskEnter(p) \/ SpecialKioskLeave(p) \/ BoardEnter(p) \/ BoardLeave(p))
             /\ UNCHANGED <<ci_pool, sc_pool, channel, person>>
    BY <2>5, ServiceDrift DEF channel, person
  <2>6. CASE (ChooseWay(p) \/ Passed(p) \/ Draw(p)) /\ UNCHANGED <<ci_pool, sc_pool, channel, services>>
    BY <2>6, ChooseWayDrift, DrawDrift DEF channel
  <2> QED BY <1>1, <2>1, <2>2, <2>3, <2>4, <2>5, <2>6 DEF simulate
<1>2. CASE Create
  BY <1>2, CreateDrift
<1>3. ASSUME UNCHANGED <<pc, VIP, losses, VIP_LR_waiting, reg>> PROVE WayInv' /\ DriftInv'
  <2>1. WayInv'
    BY <1>3 DEF WayInv
  <2>2. \A q \in Passenger : Stored(q)' = Stored(q)
    BY <1>3 DEF Stored, Walks, Missing
  <2>3. 1 \in Passenger
    BY AirportAssumption DEF Passenger
  <2> QED BY <1>3, <2>1, <2>2, <2>3, DriftKept
<1>4. CASE StopGenerating \/ Join \/ Destroy \/ UNCHANGED vars
  BY <1>3, <1>4 DEF StopGenerating, Join, Destroy, vars, channel, person
<1> QED BY <1>1, <1>2, <1>4 DEF Next, MainStep, PassengerStep

\* However the unprotected accesses of VIP_LR_waiting interleave, it stays within
\* the number of stores made so far, and so does every copy a thread works with;
\* VIPs never take the security check.
THEOREM DriftInvariance == Spec => [](MainInv /\ WayInv /\ DriftInv)
<1>1. Init => MainInv /\ WayInv /\ DriftInv
  BY MainInit, DriftInit
<1>2. MainInv /\ WayInv /\ DriftInv /\ [Next]_vars => (MainInv /\ WayInv /\ DriftInv)'
  BY MainNext, DriftNext
<1> QED BY <1>1, <1>2, PTL DEF Spec

-----------------------------------------------------------------------------
(* What the steps of the others look like to a component.                   *)

\* Where a thread is after the call of check_in.
Checked == Labels \ (CI!Labels \cup Before)

\* The moves of passenger p between two components.
Hops(p) == {<<"sk_start", "sk_in">>, <<"sk_in", "lr_start">>, <<"bd_start", "bd_in">>, <<"bd_in", "exited">>,
            <<"ci_done", IF VIP[p] THEN "lr_start" ELSE "sc_start">>, <<"sc_done", "draw">>,
            <<"draw", "rl_start">>, <<"draw", "bd_start">>}

\* A step of a thread is one of a component or one between two of them.
LEMMA Between ==
    ASSUME NEW p \in Passenger, simulate(p)
    PROVE  \/ CI!check_in(p) /\ UNCHANGED <<sc_pool, channel, person>>
           \/ SC!security_check(p) /\ UNCHANGED <<ci_pool, channel, person>>
           \/ /\ VC!VIP_channel_LR(p, "draw") \/ VC!VIP_channel_RL(p, "sk_start")
              /\ UNCHANGED <<ci_pool, sc_pool, person>>
           \/ \E from \in Labels, to \in Labels :
                 /\ pc[p] = from /\ pc' = [pc EXCEPT ![p] = to] /\ VIP' = VIP
                 /\ UNCHANGED <<ci_pool, sc_pool, channel>>
                 /\ <<from, to>> \in Hops(p)
<1>0. {"sk_start", "sk_in", "lr_start", "bd_start", "bd_in", "exited", "ci_done", "sc_start", "sc_done", "draw",
       "rl_start"} \subseteq Labels
  BY DEF Labels, OtherLabels, CI!Labels, SC!Labels, VC!LRLabels, VC!RLLabels
<1>1. CASE CI!check_in(p) /\ UNCHANGED <<sc_pool, channel, services, person>>
  BY <1>1
<1>2. CASE SC!security_check(p) /\ UNCHANGED <<ci_pool, channel, services, person>>
  BY <1>2
<1>3. CASE VC!VIP_channel_LR(p, "draw") /\ UNCHANGED <<ci_pool, sc_pool, services, person>>
  BY <1>3
<1>4. CASE VC!VIP_channel_RL(p, "sk_start") /\ UNCHANGED <<ci_pool, sc_pool, services, person>>
  BY <1>4
<1>5. CASE (SpecialKioskEnter(p) \/ SpecialKioskLeave(p) \/ BoardEnter(p) \/ BoardLeave(p))
           /\ UNCHANGED <<ci_pool, sc_pool, channel, person>>
  BY <1>0, <1>5 DEF Hops, SpecialKioskEnter, SpecialKioskLeave, BoardEnter, BoardLeave, Goto, person
<1>6. CASE (ChooseWay(p) \/ Passed(p) \/ Draw(p)) /\ UNCHANGED <<ci_pool, sc_pool, channel, services>>
  <2>1. CASE ChooseWay(p)
    BY <1>0, <1>6, <2>1 DEF Hops, ChooseWay, Goto, person
  <2>2. CASE Passed(p)
    BY <1>0, <1>6, <2>2 DEF Hops, Passed, Goto, person
  <2>3. CASE Draw(p)
    BY <1>0, <1>6, <2>3 DEF Hops, Draw
  <2> QED BY <1>6, <2>1, <2>2, <2>3
<1> QED BY <1>1, <1>2, <1>3, <1>4, <1>5, <1>6 DEF simulate

\* main's steps move nobody, but for the creation of a thread.
LEMMA MainMoves ==
    ASSUME MainInv, [Next]_vars
    PROVE  \/ \E p \in Passenger : simulate(p)
           \/ /\ \E p \in Passenger, start \in {"ci_start", "failed"}, vip \in BOOLEAN :
                    /\ pc[p] = "none" /\ pc' = [pc EXCEPT ![p] = start] /\ VIP' = [VIP EXCEPT ![p] = vip]
              /\ UNCHANGED <<ci_pool, sc_pool, channel>>
           \/ UNCHANGED <<pc, VIP, ci_pool, sc_pool, channel>>
<1>1. CASE Create
  <2>1. id \in Passenger /\ pc[id] = "none"
    BY <1>1, AirportAssumption DEF Create, MainInv, Passenger
  <2> QED BY <1>1, <2>1 DEF Create
<1>2. CASE StopGenerating \/ Join \/ Destroy \/ UNCHANGED vars
  BY <1>2 DEF StopGenerating, Join, Destroy, vars, person
<1> QED BY <1>1, <1>2 DEF Next, MainStep, PassengerStep

\* A thread that is elsewhere stays where it is for a component.
LEMMA CheckInSame ==
    ASSUME pc \in [Passenger -> Labels], NEW p \in Passenger, NEW to, pc' = [pc EXCEPT ![p] = to],
           UNCHANGED ci_pool,
           \/ pc[p] = "none" /\ to \in {"ci_start", "failed"}
           \/ pc[p] \in Checked \cup {"ci_done"} /\ to \in Checked
    PROVE  UNCHANGED CheckInPart!vars
<1>1. "ci_start" \in CI!Labels /\ "ci_done" \in CI!Labels /\ "none" \notin CI!Labels /\ "failed" \notin CI!Labels
  BY DEF CI!Labels
<1>2. \A q \in Passenger : CheckInPc'[q] = CheckInPc[q]
  BY <1>1 DEF CheckInPc, Checked, Before
<1>3. CheckInPc' = CheckInPc
  BY <1>2 DEF CheckInPc
<1> QED BY <1>3 DEF CheckInPart!vars, CheckInPart!pool, CheckInPc, ci_pool

\* Every step of the simulation is a step of check_in or leaves it alone.
LEMMA CheckInSim ==
    ASSUME MainInv, [Next]_vars
    PROVE  [CheckInPart!Next]_(CheckInPart!vars)
<1>0. pc \in [Passenger -> Labels]
  BY DEF MainInv
<1>1. ASSUME NEW p \in Passenger, simulate(p) PROVE [CheckInPart!Next]_(CheckInPart!vars)
  <2>1. CASE CI!check_in(p)
    <3>1. CheckInPart!check_in(p)
      BY <1>0, <2>1, CheckInStep
    <3> QED BY <3>1 DEF CheckInPart!Next
  <2>2. ASSUME NEW to \in Checked, pc' = [pc EXCEPT ![p] = to], pc[p] \in Checked \cup {"ci_done"}, UNCHANGED ci_pool
        PROVE  [CheckInPart!Next]_(CheckInPart!vars)
    BY <1>0, <2>2, CheckInSame
  <2>3. /\ SC!Labels \subseteq Checked /\ VC!LRLabels \subseteq Checked /\ VC!RLLabels \subseteq Checked
        /\ {"draw", "sk_start", "sk_in", "bd_start", "bd_in", "exited", "lr_start", "rl_start", "sc_start", "sc_done"}
             \subseteq Checked
    BY DEF Checked, Before, Labels, OtherLabels, CI!Labels, SC!Labels, VC!LRLabels, VC!RLLabels
  <2>4. CASE SC!security_check(p) /\ UNCHANGED ci_pool
    BY <2>2, <2>3, <2>4, SecurityCheckMoves
  <2>5. CASE (VC!VIP_channel_LR(p, "draw") \/ VC!VIP_channel_RL(p, "sk_start")) /\ UNCHANGED ci_pool
    BY <2>2, <2>3, <2>5, ChannelMoves
  <2>6. ASSUME UNCHANGED ci_pool, NEW from, NEW to, pc[p] = from, pc' = [pc EXCEPT ![p] = to],
               <<from, to>> \in Hops(p)
        PROVE  [CheckInPart!Next]_(CheckInPart!vars)
    <3>1. to \in Checked /\ pc[p] \in Checked \cup {"ci_done"}
      BY <2>3, <2>6 DEF Hops
    <3> QED BY <2>2, <2>6, <3>1
  <2> QED BY <1>1, <2>1, <2>4, <2>5, <2>6, Between
<1>2. ASSUME NEW p \in Passenger, NEW start \in {"ci_start", "failed"}, pc[p] = "none", pc' = [pc EXCEPT ![p] = start],
             UNCHANGED ci_pool
      PROVE  [CheckInPart!Next]_(CheckInPart!vars)
  BY <1>0, <1>2, CheckInSame
<1>3. CASE UNCHANGED <<pc, ci_pool>>
  BY <1>3 DEF CheckInPart!vars, CheckInPart!pool, ci_pool
<1> QED BY <1>1, <1>2, <1>3, MainMoves

\* main starts the component in its initial state.
LEMMA CheckInInit == Init => CheckInPart!Init
<1> SUFFICES ASSUME Init PROVE CheckInPart!Init
  OBVIOUS
<1>1. CheckInPc = [p \in Passenger |-> "ci_start"]
  <2>1. "none" \notin CI!Labels /\ "none" \in Before
    BY DEF CI!Labels, Before
  <2> QED BY <2>1 DEF Init, CheckInPc
<1>2. CheckInPart!InitPool
  BY DEF Init, CI!InitPool, CheckInPart!InitPool
<1> QED BY <1>1, <1>2 DEF CheckInPart!Init, CheckInPc

\* The simulation implements the check-in component, for every number of kiosks
\* and passengers: main and the other calls never touch its variables, and a
\* thread calls check_in once.
THEOREM ImplementsCheckIn == Spec => CheckInPart!Spec
<1>1. MainInv /\ [Next]_vars => [CheckInPart!Next]_(CheckInPart!vars)
  BY CheckInSim
<1> QED BY <1>1, CheckInInit, MainInvariance, PTL DEF Spec, CheckInPart!Spec

\* A thread that is elsewhere stays before or after the security check; a VIP
\* stays before it for ever.
LEMMA SecurityCheckSame ==
    ASSUME pc \in [Passenger -> Labels], VIP \in [Passenger -> BOOLEAN], NEW p \in Passenger, NEW to,
           NEW vip \in BOOLEAN, pc' = [pc EXCEPT ![p] = to], VIP' = [VIP EXCEPT ![p] = vip], UNCHANGED sc_pool,
           \/ /\ pc[p] \in Before \cup CI!Labels
              /\ to \in Before \cup CI!Labels \cup {"sc_start"} \/ (VIP[p] /\ vip /\ to \notin SC!Labels)
           \/ /\ vip = VIP[p] /\ pc[p] \notin Before \cup CI!Labels \cup SC!Labels
              /\ to \notin Before \cup CI!Labels \cup SC!Labels
           \/ ~VIP[p] /\ ~vip /\ pc[p] = "sc_done" /\ to = "draw"
    PROVE  UNCHANGED SecurityCheckPart!vars
<1>1. /\ "sc_start" \in SC!Labels /\ "sc_done" \in SC!Labels /\ "draw" \notin SC!Labels \cup Before \cup CI!Labels
      /\ (Before \cup CI!Labels) \cap SC!Labels = {}
  BY DEF SC!Labels, CI!Labels, Before
<1>2. \A q \in Passenger : q # p => SecurityCheckPc'[q] = SecurityCheckPc[q]
  BY DEF SecurityCheckPc
<1>3. SecurityCheckPc'[p] = SecurityCheckPc[p]
  <2>1. pc'[p] = to /\ VIP'[p] = vip
    OBVIOUS
  <2>2. SecurityCheckPc[p] = IF pc[p] \in SC!Labels THEN pc[p]
                             ELSE IF VIP[p] \/ pc[p] \in Before \cup CI!Labels THEN "sc_start" ELSE "sc_done"
    BY DEF SecurityCheckPc
  <2>3. SecurityCheckPc'[p] = IF to \in SC!Labels THEN to
                              ELSE IF vip \/ to \in Before \cup CI!Labels THEN "sc_start" ELSE "sc_done"
    BY <2>1 DEF SecurityCheckPc
  <2> QED BY <1>1, <2>2, <2>3
<1>4. SecurityCheckPc' = SecurityCheckPc
  BY <1>2, <1>3 DEF SecurityCheckPc
<1> QED BY <1>4 DEF SecurityCheckPart!vars, SecurityCheckPart!pool, SecurityCheckPc, sc_pool

\* Every step of the simulation is one of security_check or leaves it alone.
LEMMA SecurityCheckSim ==
    ASSUME MainInv, WayInv, [Next]_vars
    PROVE  [SecurityCheckPart!Next]_(SecurityCheckPart!vars)
<1>0. pc \in [Passenger -> Labels] /\ VIP \in [Passenger -> BOOLEAN]
  BY DEF WayInv
<1>1. ASSUME NEW p \in Passenger, simulate(p) PROVE [SecurityCheckPart!Next]_(SecurityCheckPart!vars)
  <2>0. VIP[p] \in BOOLEAN /\ (VIP' = VIP => VIP' = [VIP EXCEPT ![p] = VIP[p]])
    BY <1>0
  <2>1. CASE SC!security_check(p) /\ VIP' = VIP
    <3>1. SecurityCheckPart!security_check(p)
      BY <1>0, <2>1, SecurityCheckStep
    <3> QED BY <3>1 DEF SecurityCheckPart!Next
  <2>2. CASE CI!check_in(p) /\ UNCHANGED <<sc_pool, VIP>>
    <3>1. PICK to \in CI!Labels : pc[p] \in CI!Labels /\ pc' = [pc EXCEPT ![p] = to]
      BY <2>2, CheckInMoves
    <3> QED BY <1>0, <2>0, <2>2, <3>1, SecurityCheckSame
  <2>3. ASSUME NEW to, pc' = [pc EXCEPT ![p] = to], UNCHANGED <<sc_pool, VIP>>,
               pc[p] \notin Before \cup CI!Labels \cup SC!Labels, to \notin Before \cup CI!Labels \cup SC!Labels
        PROVE  [SecurityCheckPart!Next]_(SecurityCheckPart!vars)
    BY <1>0, <2>0, <2>3, SecurityCheckSame
  <2>4. /\ VC!LRLabels \cap (Before \cup CI!Labels \cup SC!Labels) = {}
        /\ VC!RLLabels \cap (Before \cup CI!Labels \cup SC!Labels) = {}
        /\ {"draw", "sk_start", "sk_in", "bd_start", "bd_in", "exited", "lr_start", "rl_start"}
             \cap (Before \cup CI!Labels \cup SC!Labels) = {}
        /\ "ci_done" \in CI!Labels
    BY DEF Before, CI!Labels, SC!Labels, VC!LRLabels, VC!RLLabels
  <2>5. CASE (VC!VIP_channel_LR(p, "draw") \/ VC!VIP_channel_RL(p, "sk_start")) /\ UNCHANGED <<sc_pool, VIP>>
    BY <2>3, <2>4, <2>5, ChannelMoves
  <2>6. ASSUME UNCHANGED <<sc_pool, VIP>>, NEW from, NEW to, pc[p] = from, pc' = [pc EXCEPT ![p] = to],
               <<from, to>> \in Hops(p)
        PROVE  [SecurityCheckPart!Next]_(SecurityCheckPart!vars)
    <3>1. CASE from = "ci_done"
      <4>1. to = IF VIP[p] THEN "lr_start" ELSE "sc_start"
        BY <2>6, <3>1 DEF Hops
      <4>2. CASE VIP[p]
        <5>1. pc[p] \in Before \cup CI!Labels /\ to \notin SC!Labels /\ pc' = [pc EXCEPT ![p] = to] /\ UNCHANGED sc_pool
              /\ VIP' = [VIP EXCEPT ![p] = TRUE]
          BY <2>0, <2>4, <2>6, <3>1, <4>1, <4>2
        <5> QED BY <1>0, <4>2, <5>1, SecurityCheckSame
      <4>3. CASE ~VIP[p]
        <5>1. pc[p] \in Before \cup CI!Labels /\ to = "sc_start" /\ pc' = [pc EXCEPT ![p] = to] /\ UNCHANGED sc_pool
              /\ VIP' = [VIP EXCEPT ![p] = FALSE]
          BY <2>0, <2>4, <2>6, <3>1, <4>1, <4>3
        <5> QED BY <1>0, <4>3, <5>1, SecurityCheckSame
      <4> QED BY <4>2, <4>3
    <3>2. CASE from = "sc_done"
      <4>1. to = "draw" /\ ~VIP[p]
        BY <2>6, <3>2 DEF Hops, WayInv, SC!Labels
      <4> QED BY <1>0, <2>0, <2>6, <3>2, <4>1, SecurityCheckSame
    <3>3. CASE from # "ci_done" /\ from # "sc_done"
      BY <2>3, <2>4, <2>6, <3>3 DEF Hops
    <3> QED BY <3>1, <3>2, <3>3
  <2> QED BY <1>1, <2>1, <2>2, <2>5, <2>6, Between DEF person
<1>2. ASSUME NEW p \in Passenger, NEW start \in {"ci_start", "failed"}, NEW vip \in BOOLEAN, pc[p] = "none",
             pc' = [pc EXCEPT ![p] = start], VIP' = [VIP EXCEPT ![p] = vip], UNCHANGED sc_pool
      PROVE  [SecurityCheckPart!Next]_(SecurityCheckPart!vars)
  <2>1. pc[p] \in Before /\ start \in Before \cup CI!Labels
    BY <1>2 DEF Before, CI!Labels
  <2> QED BY <1>0, <1>2, <2>1, SecurityCheckSame
<1>3. CASE UNCHANGED <<pc, VIP, sc_pool>>
  BY <1>3 DEF SecurityCheckPart!vars, SecurityCheckPart!pool, sc_pool
<1> QED BY <1>1, <1>2, <1>3, MainMoves

\* main starts the component in its initial state.
LEMMA SecurityCheckInit == Init => SecurityCheckPart!Init
<1> SUFFICES ASSUME Init PROVE SecurityCheckPart!Init
  OBVIOUS
<1>1. SecurityCheckPc = [p \in Passenger |-> "sc_start"]
  <2>1. "none" \notin SC!Labels /\ "none" \in Before
    BY DEF SC!Labels, Before
  <2> QED BY <2>1 DEF Init, SecurityCheckPc
<1>2. SecurityCheckPart!InitPool
  BY DEF Init, SC!InitPool, SecurityCheckPart!InitPool, SC!Places, SecurityCheckPart!Places
<1> QED BY <1>1, <1>2 DEF SecurityCheckPart!Init, SecurityCheckPc

\* The simulation implements the security check: only passengers that are no VIPs
\* call it, once each and after check-in.
THEOREM ImplementsSecurityCheck == Spec => SecurityCheckPart!Spec
<1>1. MainInv /\ WayInv /\ [Next]_vars => [SecurityCheckPart!Next]_(SecurityCheckPart!vars)
  BY SecurityCheckSim
<1> QED BY <1>1, SecurityCheckInit, DriftInvariance, PTL DEF Spec, SecurityCheckPart!Spec

\* VIP_LR_waiting never leaves the range in which the component lets passengers
\* arrive.
LEMMA WaitingBounded ==
    ASSUME WayInv, DriftInv
    PROVE  VIP_LR_waiting \in -(2 * MaxId * (MaxLosses + 1)) .. 2 * MaxId * (MaxLosses + 1)
<1>1. VIP_LR_waiting \in Int /\ -Cardinality(Stores) <= VIP_LR_waiting /\ VIP_LR_waiting <= Cardinality(Stores)
  BY DEF WayInv, DriftInv, Within
<1>2. Cardinality(Stores) \in Nat /\ Cardinality(Stores) <= 2 * MaxId * (MaxLosses + 1)
  BY StoresBounded
<1>3. 2 * MaxId * (MaxLosses + 1) \in Nat
  BY AirportAssumption
<1> QED BY <1>1, <1>2, <1>3

\* The counter of waiting passengers drifts by its lost updates, but never beyond
\* the number of increments and decrements the threads make in the whole
\* simulation.
WaitingInRange ==
    VIP_LR_waiting \in -(2 * MaxId * (MaxLosses + 1)) .. 2 * MaxId * (MaxLosses + 1)
THEOREM AlwaysWaitingInRange == Spec => []WaitingInRange
<1>1. WayInv /\ DriftInv => WaitingInRange
  BY WaitingBounded DEF WaitingInRange
<1> QED BY <1>1, DriftInvariance, PTL

\* A thread that is elsewhere stays away from the channel.
LEMMA ChannelSame ==
    ASSUME pc \in [Passenger -> Labels], NEW p \in Passenger, NEW to, pc' = [pc EXCEPT ![p] = to], UNCHANGED channel,
           pc[p] \notin VC!Labels, to \notin VC!Labels
    PROVE  UNCHANGED VIPChannelPart!vars
<1>1. \A q \in Passenger : VIPChannelPc'[q] = VIPChannelPc[q]
  BY DEF VIPChannelPc
<1>2. VIPChannelPc' = VIPChannelPc
  BY <1>1 DEF VIPChannelPc
<1> QED BY <1>2 DEF VIPChannelPart!vars, VIPChannelPart!channel, VIPChannelPart!mutexes,
           VIPChannelPart!counts, VIPChannelPart!race, VIPChannelPc, channel

\* A thread that calls one of the two functions arrives at the channel.
LEMMA ChannelArrive ==
    ASSUME pc \in [Passenger -> Labels], NEW p \in Passenger, NEW to \in {"lr_start", "rl_start"},
           pc' = [pc EXCEPT ![p] = to], UNCHANGED channel, pc[p] \notin VC!Labels,
           VIP_LR_waiting \in -(2 * MaxId * (MaxLosses + 1)) .. 2 * MaxId * (MaxLosses + 1)
    PROVE  VIPChannelPart!Arrive(p)
<1>1. VIPChannelPc[p] = "away"
  BY DEF VIPChannelPc
<1>2. VIPChannelPc' = [VIPChannelPc EXCEPT ![p] = to]
  <2>1. "lr_start" \in VC!Labels /\ "rl_start" \in VC!Labels
    BY DEF VC!Labels, VC!LRLabels, VC!RLLabels
  <2> QED BY <2>1 DEF VIPChannelPc
<1>3. VIPChannelPart!Goto(p, "away", to)
  BY <1>1, <1>2 DEF VIPChannelPart!Goto, VIPChannelPc
<1>4. UNCHANGED VIPChannelPart!channel
  BY DEF VIPChannelPart!channel, VIPChannelPart!mutexes, VIPChannelPart!counts, VIPChannelPart!race,
     channel
<1> QED BY <1>3, <1>4 DEF VIPChannelPart!Arrive

\* Every step of the simulation is one of the channel or leaves it alone.
LEMMA ChannelSim ==
    ASSUME MainInv, WayInv, DriftInv, [Next]_vars
    PROVE  [VIPChannelPart!Next]_(VIPChannelPart!vars)
<1>0. /\ pc \in [Passenger -> Labels]
      /\ VIP_LR_waiting \in -(2 * MaxId * (MaxLosses + 1)) .. 2 * MaxId * (MaxLosses + 1)
  BY WaitingBounded DEF WayInv
<1>1. ASSUME NEW p \in Passenger, simulate(p) PROVE [VIPChannelPart!Next]_(VIPChannelPart!vars)
  <2>1. CASE VC!VIP_channel_LR(p, "draw") \/ VC!VIP_channel_RL(p, "sk_start")
    <3>1. VIPChannelPart!Walk(p)
      BY <1>0, <2>1, ChannelStep
    <3> QED BY <3>1 DEF VIPChannelPart!Next
  <2>2. ASSUME NEW to, pc' = [pc EXCEPT ![p] = to], UNCHANGED channel, pc[p] \notin VC!Labels, to \notin VC!Labels
        PROVE  [VIPChannelPart!Next]_(VIPChannelPart!vars)
    BY <1>0, <2>2, ChannelSame
  <2>3. ASSUME NEW to \in {"lr_start", "rl_start"}, pc' = [pc EXCEPT ![p] = to], UNCHANGED channel, pc[p] \notin VC!Labels
        PROVE  [VIPChannelPart!Next]_(VIPChannelPart!vars)
    <3>1. VIPChannelPart!Arrive(p)
      BY <1>0, <2>3, ChannelArrive
    <3> QED BY <3>1 DEF VIPChannelPart!Next
  <2>4. /\ CI!Labels \cap VC!Labels = {} /\ SC!Labels \cap VC!Labels = {}
        /\ {"draw", "sk_start", "sk_in", "bd_start", "bd_in", "exited", "ci_done", "sc_start", "sc_done"}
             \cap VC!Labels = {}
    BY DEF CI!Labels, SC!Labels, VC!Labels, VC!LRLabels, VC!RLLabels
  <2>5. CASE CI!check_in(p) /\ UNCHANGED channel
    BY <2>2, <2>4, <2>5, CheckInMoves
  <2>6. CASE SC!security_check(p) /\ UNCHANGED channel
    BY <2>2, <2>4, <2>6, SecurityCheckMoves
  <2>7. ASSUME UNCHANGED channel, NEW from, NEW to, pc[p] = from, pc' = [pc EXCEPT ![p] = to],
               <<from, to>> \in Hops(p)
        PROVE  [VIPChannelPart!Next]_(VIPChannelPart!vars)
    <3>1. pc[p] \notin VC!Labels /\ (to \notin VC!Labels \/ to \in {"lr_start", "rl_start"})
      BY <2>4, <2>7 DEF Hops
    <3> QED BY <2>2, <2>3, <2>7, <3>1
  <2> QED BY <1>1, <2>1, <2>5, <2>6, <2>7, Between
<1>2. ASSUME NEW p \in Passenger, NEW start \in {"ci_start", "failed"}, pc[p] = "none", pc' = [pc EXCEPT ![p] = start],
             UNCHANGED channel
      PROVE  [VIPChannelPart!Next]_(VIPChannelPart!vars)
  <2>1. pc[p] \notin VC!Labels /\ start \notin VC!Labels
    BY <1>2 DEF VC!Labels, VC!LRLabels, VC!RLLabels
  <2> QED BY <1>0, <1>2, <2>1, ChannelSame
<1>3. CASE UNCHANGED <<pc, channel>>
  BY <1>3 DEF VIPChannelPart!vars, VIPChannelPart!channel, VIPChannelPart!mutexes,
     VIPChannelPart!counts, VIPChannelPart!race, channel
<1> QED BY <1>1, <1>2, <1>3, MainMoves

\* main starts the component in its initial state.
LEMMA ChannelInit == Init => VIPChannelPart!Init
<1> SUFFICES ASSUME Init PROVE VIPChannelPart!Init
  OBVIOUS
<1>1. VIPChannelPc = [p \in Passenger |-> "away"]
  <2>1. "none" \notin VC!Labels
    BY DEF VC!Labels, VC!LRLabels, VC!RLLabels
  <2> QED BY <2>1 DEF Init, VIPChannelPc
<1>2. VIPChannelPart!InitChannel
  BY DEF Init, VC!InitChannel, VIPChannelPart!InitChannel
<1> QED BY <1>1, <1>2 DEF VIPChannelPart!Init, VIPChannelPc

\* The simulation implements the VIP channel, which its threads enter in either
\* direction, again and again: VIP_LR_waiting stays where the component allows
\* arrivals, whatever updates were lost.
THEOREM ImplementsVIPChannel == Spec => VIPChannelPart!Spec
<1>1. MainInv /\ WayInv /\ DriftInv /\ [Next]_vars => [VIPChannelPart!Next]_(VIPChannelPart!vars)
  BY ChannelSim
<1> QED BY <1>1, ChannelInit, DriftInvariance, PTL DEF Spec, VIPChannelPart!Spec

\* The simulation as a whole implements each of its three components: everything
\* proved of them alone holds in it.
THEOREM AlwaysImplementsComponents == Spec => ImplementsComponents
BY ImplementsCheckIn, ImplementsSecurityCheck, ImplementsVIPChannel, PTL DEF ImplementsComponents
=============================================================================
