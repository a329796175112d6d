----------------------------- MODULE AtomicDisk -----------------------------
(***************************************************************************)
(* What the xv6 log promises to the file system: a disk on which the       *)
(* updates of a system call happen completely or not at all.  Concurrent   *)
(* calls share one transaction; it becomes durable in a single step, when  *)
(* none of them is under way, and a crash takes the disk back to the last  *)
(* such step.                                                              *)
(***************************************************************************)
CONSTANTS Block, Value, Proc

VARIABLES durable,      \* the contents that survive a crash
          current,      \* the contents that system calls read
          active        \* the processes inside a system call

Init ==
    /\ durable \in [Block -> Value] /\ current = durable
    /\ active = {}

Begin(p) ==
    /\ p \notin active /\ active' = active \cup {p}
    /\ UNCHANGED <<durable, current>>

Write(p, b, v) ==
    /\ p \in active
    /\ current' = [current EXCEPT ![b] = v]
    /\ UNCHANGED <<durable, active>>

End(p) ==
    /\ p \in active /\ active' = active \ {p}
    /\ UNCHANGED <<durable, current>>

Commit ==
    /\ active = {}
    /\ durable' = current
    /\ UNCHANGED <<current, active>>

Crash ==
    /\ current' = durable /\ active' = {}
    /\ UNCHANGED durable

Next ==
    \/ \E p \in Proc : Begin(p) \/ End(p) \/ \E b \in Block, v \in Value : Write(p, b, v)
    \/ Commit \/ Crash

Spec == Init /\ [][Next]_<<durable, current, active>>
=============================================================================
