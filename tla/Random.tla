------------------------------- MODULE Random -------------------------------
(***************************************************************************)
(* The pseudo-random numbers of the lottery: random of offline_3/proc.c, a *)
(* linear congruential generator that is run for 500 rounds from its seed, *)
(* with the seed as modulus too.                                           *)
(***************************************************************************)
EXTENDS Integers

\* The numbers of values of an unsigned int; TLC's integers are no larger, and
\* the products of the seeds below stay under it.
UInt == 1073741824

Multiplier == 5
Increment == 11
Rounds == 500

\* The loop.  loop[n, xn] is the value of xn after n rounds; the rounds are taken
\* in two halves to keep the recursion shallow.
random(seed) ==
    LET loop[n \in 0 .. Rounds, xn \in 0 .. seed] ==
            IF n = 0 THEN xn
            ELSE IF n = 1 THEN ((Multiplier * xn + Increment) % UInt) % seed
            ELSE loop[n - n \div 2, loop[n \div 2, xn]]
    IN  loop[Rounds, seed]

\* 5^n modulo m
PowerOfFive(n, m) ==
    LET power[k \in 0 .. n] ==
            IF k = 0 THEN 1 % m
            ELSE LET half == power[k \div 2]
                 IN  (half * half * (IF k % 2 = 1 THEN 5 ELSE 1)) % m
    IN  power[n]

\* random returns a number below its seed, which is all that LotteryScheduler
\* assumes of it, and the one that the closed form of the recurrence gives:
\* 4xn + 11 is 11 * 5^i modulo 4 * seed after i rounds.  The number depends on the
\* seed alone, so every pass of the scheduler within one clock tick draws the same.
RandomCorrect(seed) ==
    /\ random(seed) \in 0 .. seed - 1
    /\ (4 * random(seed) + Increment) % (4 * seed)
            = (Increment * PowerOfFive(Rounds, 4 * seed)) % (4 * seed)

ASSUME RandomChecked == \A seed \in 1 .. 128 : RandomCorrect(seed)
=============================================================================
