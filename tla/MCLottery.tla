----------------------------- MODULE MCLottery ------------------------------
(* Model checking the lottery scheduler. *)
EXTENDS LotteryScheduler, Random

\* Arguments of settickets: rejected, accepted though it should not be, more
\* than the default.
SomeTickets == {-1, 0, 2}

\* A bound on user programs.  A zombie whose parent exits while init sleeps takes
\* a fourth process, and a third tick to draw another than the first runnable
\* process; these come only where nobody has used sleep, settickets or kill, and
\* a third process only where nobody has used settickets.
OneTicket == \A s \in Slots : ptable[s].state = "UNUSED" \/ ptable[s].tickets = 1
Plain ==
    \A s \in Slots :
        /\ ~ptable[s].killed /\ ptable[s].chan # TicksChan
        /\ frame[s].pc \notin {"sleep_check", "sleep", "sleep_lock"}
FamiliesPlain ==
    /\ ticks > 2 => nextpid > 4
    /\ nextpid > 4 \/ ptable[NPROC - 1].killed => Plain /\ OneTicket
    /\ nextpid > 3 => OneTicket

\* A bound on user programs of the run with two CPUs: the second tick comes only
\* while at most two processes exist.
SecondTickForTwo ==
    ticks > 1 => Cardinality({s \in Slots : ptable[s].state # "UNUSED"}) < 3
=============================================================================
