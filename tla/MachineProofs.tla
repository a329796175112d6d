---------------------------- MODULE MachineProofs ---------------------------
(***************************************************************************)
(* Proofs about three parts of the xv6 kernel that are next to the         *)
(* machine, for every value of their constants.                            *)
(*                                                                         *)
(* Spinlock: the inductive invariant is SpinInv.  That a lock has one      *)
(* holder rests on what the holder's processor is doing (Words), and that  *)
(* release may turn interrupts on again rests on an exact count of the     *)
(* pushclis of the current activity and on what intena remembers           *)
(* (Matched: a thread that an interrupt found has pushed nothing).         *)
(*                                                                         *)
(* Boot: the inductive invariant is BootInv.  That each processor is alone *)
(* on its stack rests on there being one processor on its way at a time,   *)
(* the one startothers waits for (OnTheWay), and on the free list, which   *)
(* holds no page twice and none in use (PagesOnce), only low pages until   *)
(* kinit2 (LowOnly), and enough of them (Enough).                          *)
(*                                                                         *)
(* Paging: the inductive invariant is PagingInv.  That frames have one     *)
(* owner until the kernel panics (Owned) is followed through the parts of  *)
(* each system call with a set X of frames put aside, the old image's      *)
(* while exec loads the new one.  That the resident set stays bounded      *)
(* rests on ResidentInv: the entries of a page queue that are in use form  *)
(* one chain, len counts at least them, and every resident page has one.   *)
(***************************************************************************)
EXTENDS Spinlock, Boot, Paging, HelperTheorems,
        FiniteSetTheorems, SequenceTheorems, TLAPS
-----------------------------------------------------------------------------
(* Spin locks. *)

\* The steps of acquire and of release, and the lock order of an activity.
AcquireSteps == {"readeflags", "cli", "check", "xchg", "own"}
ReleaseSteps == {"holding", "clear", "unlock", "popcli"}
Opn == {"acquire", "release"} \X Locks
Act == [ops : Seq(Opn), step : AcquireSteps \cup ReleaseSteps \cup {"end"}, eflags : BOOLEAN, handler : BOOLEAN]
Processor == [FL_IF : BOOLEAN, ncli : Nat, intena : BOOLEAN, stack : Seq(Act)]
Word == [locked : BOOLEAN, cpu : CPU \cup {0}]
Order(a) == IF a.handler THEN HandlerLocks ELSE ThreadLocks

\* Activity a has done Place(a) operations of its program, of which the rest is
\* left, and its step is one of the operation it is at.
Place(a) == (2 * Len(Order(a))) - Len(a.ops)
Running(a) ==
    LET n == Len(Order(a)) IN
    /\ Place(a) \in 0 .. 2 * n
    /\ \A i \in 1 .. Len(a.ops) : a.ops[i] = Use(Order(a))[Place(a) + i]
    /\ Place(a) < n => a.step \in AcquireSteps
    /\ n <= Place(a) /\ Place(a) < 2 * n => a.step \in ReleaseSteps
    /\ Place(a) = 2 * n => a.step = "end"

\* The calls of pushcli that a has not undone yet.
Pushed(a) ==
    LET n == Len(Order(a)) IN
    IF Place(a) < n THEN Place(a) + (IF a.step \in {"check", "xchg", "own"} THEN 1 ELSE 0)
    ELSE (2 * n) - Place(a)

\* Processor p: ncli counts the pushes of its current activity; interrupts are
\* on exactly when that is a thread that has pushed nothing, and what an
\* interrupt finds below its handler is such a thread.
Free(a) == ~a.handler /\ Pushed(a) = 0 /\ (a.step = "cli" => a.eflags)
Matched(p) ==
    LET a == p.stack[1] IN
    /\ Len(p.stack) <= 2 /\ \A i \in 1 .. Len(p.stack) : Running(p.stack[i])
    /\ p.stack = <<>> => p.FL_IF /\ p.ncli = 0
    /\ p.stack # <<>> =>
         /\ p.ncli = Pushed(a)
         /\ p.FL_IF <=> p.ncli = 0 /\ ~a.handler
         /\ p.ncli > 0 => (p.intena <=> ~a.handler)
         /\ p.ncli = 0 /\ a.step = "cli" => (a.eflags <=> ~a.handler)
    /\ Len(p.stack) = 2 => a.handler /\ Free(p.stack[2])

\* Processor p has the lock l, and is at a step of an operation on l.
Owns(p, l) == p.stack # <<>> /\ Holds(p.stack[1], l)
AtStep(p, l, step) == p.stack # <<>> /\ p.stack[1].ops # <<>> /\ p.stack[1].ops[1][2] = l
                      /\ p.stack[1].step = step
\* The word w of the lock l, with the processors f.
WordOf(w, f, l) ==
    /\ w.locked <=> \E c \in CPU : Owns(f[c], l)
    /\ \A c, d \in CPU : Owns(f[c], l) /\ Owns(f[d], l) => c = d
    /\ w.cpu # 0 => Owns(f[w.cpu], l)
    /\ \A c \in CPU : Owns(f[c], l) /\ w.cpu # c => AtStep(f[c], l, "own") \/ AtStep(f[c], l, "unlock")
    /\ \A c \in CPU : AtStep(f[c], l, "unlock") => w.cpu = 0
Words == \A l \in Locks : WordOf(lk[l], cpu, l)

SpinTypes == lk \in [Locks -> Word] /\ cpu \in [CPU -> Processor] /\ rounds \in [CPU -> Nat]
SpinInv == SpinTypes /\ spanic = "" /\ (\A c \in CPU : Matched(cpu[c])) /\ Words

\* Activity a has the lock j of its order.
Has(a, j) ==
    LET n == Len(Order(a)) k == Place(a) IN
    /\ k < (2 * n) - j \/ (k = (2 * n) - j /\ a.step # "popcli")
    /\ k >= j \/ (k = j - 1 /\ a.step = "own")

\* An order names locks, each once.
LEMMA LocksInOrder ==
    ASSUME NEW s \in {ThreadLocks, HandlerLocks}
    PROVE  /\ Len(s) \in Nat /\ DOMAIN s = 1 .. Len(s)
           /\ \A i \in 1 .. Len(s) : s[i] \in Locks
           /\ \A i, j \in 1 .. Len(s) : s[i] = s[j] => i = j
<1>1. s \in Seq(Range(s)) /\ IsInjective(s)
  BY SpinlockAssumption
<1>2. Len(s) \in Nat /\ DOMAIN s = 1 .. Len(s)
  BY <1>1
<1>3. \A i \in 1 .. Len(s) : s[i] \in Range(s)
  BY <1>2 DEF Range
<1>4. Range(s) \subseteq Locks
  BY DEF Locks
<1> QED
  BY <1>1, <1>2, <1>3, <1>4 DEF IsInjective

\* The program of an activity: take the locks in order, give them back in the
\* opposite order.
LEMMA UseIs ==
    ASSUME NEW s \in {ThreadLocks, HandlerLocks}
    PROVE  /\ Use(s) \in Seq(Opn) /\ Len(Use(s)) = 2 * Len(s)
           /\ \A i \in 1 .. Len(s) : Use(s)[i] = <<"acquire", s[i]>>
           /\ \A i \in Len(s) + 1 .. 2 * Len(s) : Use(s)[i] = <<"release", s[(2 * Len(s)) + 1 - i]>>
<1> DEFINE n == Len(s)
           acq == [i \in 1 .. n |-> <<"acquire", s[i]>>]
           rel == [i \in 1 .. n |-> <<"release", s[n + 1 - i]>>]
<1>1. n \in Nat /\ \A i \in 1 .. n : s[i] \in Locks
  BY LocksInOrder
<1> HIDE DEF n
<1>2. acq \in [1 .. n -> Opn] /\ rel \in [1 .. n -> Opn]
  <2>1. \A i \in 1 .. n : n + 1 - i \in 1 .. n
    BY <1>1
  <2> QED
    BY <1>1, <2>1 DEF Opn
<1>3. acq \in Seq(Opn) /\ rel \in Seq(Opn) /\ Len(acq) = n /\ Len(rel) = n
  BY <1>1, <1>2
<1>3a. (\A i \in 1 .. n : acq[i] = <<"acquire", s[i]>>)
       /\ (\A i \in 1 .. n : rel[i] = <<"release", s[n + 1 - i]>>)
  OBVIOUS
<1>4. Use(s) = acq \o rel
  BY DEF Use, n
<1> HIDE DEF acq, rel
<1>5. acq \o rel \in Seq(Opn) /\ Len(acq \o rel) = n + n
  BY <1>1, <1>3
<1>6. \A i \in 1 .. n : (acq \o rel)[i] = acq[i]
  BY <1>1, <1>3
<1>7. \A i \in n + 1 .. 2 * n : (acq \o rel)[i] = rel[i - n]
  BY <1>1, <1>3
<1>8. \A i \in n + 1 .. 2 * n : i - n \in 1 .. n /\ n + 1 - (i - n) = (2 * n) + 1 - i
  BY <1>1
<1> QED
  <2>1. \A i \in n + 1 .. 2 * n : Use(s)[i] = <<"release", s[(2 * n) + 1 - i]>>
    BY <1>3a, <1>4, <1>7, <1>8
  <2>2. Use(s) \in Seq(Opn) /\ Len(Use(s)) = 2 * n
    BY <1>1, <1>4, <1>5
  <2>3. \A i \in 1 .. n : Use(s)[i] = <<"acquire", s[i]>>
    BY <1>3a, <1>4, <1>6
  <2> QED
    BY <2>1, <2>2, <2>3 DEF n

\* What an activity is at and what it still has to do, from its place.
LEMMA RunningIs ==
    ASSUME NEW a \in Act, Running(a)
    PROVE  LET s == Order(a)
               n == Len(s)
               k == Place(a) IN
           /\ s \in {ThreadLocks, HandlerLocks} /\ n \in Nat /\ k \in 0 .. 2 * n
           /\ Len(a.ops) = (2 * n) - k /\ DOMAIN a.ops = 1 .. (2 * n) - k
           /\ \A j \in 1 .. n : s[j] \in Locks
           /\ \A i, j \in 1 .. n : s[i] = s[j] => i = j
           /\ \A i \in 1 .. n - k : a.ops[i] = <<"acquire", s[k + i]>>
           /\ \A i \in 1 .. (2 * n) - k : k + i > n => a.ops[i] = <<"release", s[(2 * n) + 1 - k - i]>>
           /\ k < n <=> a.step \in AcquireSteps
           /\ n <= k /\ k < 2 * n <=> a.step \in ReleaseSteps
           /\ k = 2 * n <=> a.step = "end"
           /\ a.ops = <<>> <=> k = 2 * n
<1> DEFINE s == Order(a)
           n == Len(s)
           k == Place(a)
<1>1. s \in {ThreadLocks, HandlerLocks}
  BY DEF Order
<1>2. n \in Nat /\ (\A j \in 1 .. n : s[j] \in Locks) /\ \A i, j \in 1 .. n : s[i] = s[j] => i = j
  BY <1>1, LocksInOrder
<1>3. a.ops \in Seq(Opn) /\ Len(a.ops) \in Nat /\ DOMAIN a.ops = 1 .. Len(a.ops)
  BY DEF Act
<1>4. k = (2 * n) - Len(a.ops) /\ k \in 0 .. 2 * n
  BY DEF Place, Running
<1>5. \A i \in 1 .. Len(a.ops) : a.ops[i] = Use(s)[k + i]
  BY DEF Running
<1>6. /\ \A i \in 1 .. n : Use(s)[i] = <<"acquire", s[i]>>
      /\ \A i \in n + 1 .. 2 * n : Use(s)[i] = <<"release", s[(2 * n) + 1 - i]>>
  BY <1>1, UseIs
<1>7. /\ k < n => a.step \in AcquireSteps
      /\ n <= k /\ k < 2 * n => a.step \in ReleaseSteps
      /\ k = 2 * n => a.step = "end"
  BY DEF Running
<1>8. a.ops = <<>> <=> Len(a.ops) = 0
  BY <1>3
<1> HIDE DEF s, n, k
<1>8a. n \in Nat /\ k \in 0 .. 2 * n
  BY <1>2, <1>4
<1>9. Len(a.ops) = (2 * n) - k /\ DOMAIN a.ops = 1 .. (2 * n) - k
  BY <1>2, <1>3, <1>4
<1>10. \A i \in 1 .. n - k : a.ops[i] = <<"acquire", s[k + i]>>
  <2> SUFFICES ASSUME NEW i \in 1 .. n - k PROVE a.ops[i] = <<"acquire", s[k + i]>>
    OBVIOUS
  <2>1. i \in 1 .. Len(a.ops) /\ k + i \in 1 .. n
    BY <1>2, <1>4, <1>9
  <2> QED
    BY <2>1, <1>5, <1>6
<1>11. \A i \in 1 .. (2 * n) - k : k + i > n => a.ops[i] = <<"release", s[(2 * n) + 1 - k - i]>>
  <2> SUFFICES ASSUME NEW i \in 1 .. (2 * n) - k, k + i > n
               PROVE  a.ops[i] = <<"release", s[(2 * n) + 1 - k - i]>>
    OBVIOUS
  <2>1. i \in 1 .. Len(a.ops) /\ k + i \in n + 1 .. 2 * n /\ (2 * n) + 1 - (k + i) = (2 * n) + 1 - k - i
    BY <1>8a, <1>9
  <2> QED
    BY <2>1, <1>5, <1>6
<1>12. /\ k < n <=> a.step \in AcquireSteps
       /\ n <= k /\ k < 2 * n <=> a.step \in ReleaseSteps
       /\ k = 2 * n <=> a.step = "end"
  <2>1. \/ k < n /\ ~(n <= k) /\ k # 2 * n
        \/ ~(k < n) /\ n <= k /\ k < 2 * n /\ k # 2 * n
        \/ ~(k < n) /\ ~(k < 2 * n) /\ k = 2 * n
    BY <1>8a
  <2>2. /\ a.step \in AcquireSteps => a.step \notin ReleaseSteps /\ a.step # "end"
        /\ a.step \in ReleaseSteps => a.step # "end"
    BY DEF AcquireSteps, ReleaseSteps
  <2> QED
    BY <1>7, <2>1, <2>2
<1>13. a.ops = <<>> <=> k = 2 * n
  BY <1>8, <1>8a, <1>9
<1> QED
  BY <1>1, <1>2, <1>4, <1>9, <1>10, <1>11, <1>12, <1>13 DEF s, n, k

\* The lock at the head of an activity's program, by its place.
LEMMA HeadIs ==
    ASSUME NEW a \in Act, Running(a), a.ops # <<>>
    PROVE  LET s == Order(a)
               n == Len(s)
               k == Place(a) IN
           /\ k < 2 * n /\ Head(a.ops) = a.ops[1] /\ a.ops[1][2] \in Locks
           /\ k < n => a.ops[1] = <<"acquire", s[k + 1]>> /\ k + 1 \in 1 .. n
           /\ n <= k => a.ops[1] = <<"release", s[(2 * n) - k]>> /\ (2 * n) - k \in 1 .. n
<1> DEFINE s == Order(a)
           n == Len(s)
           k == Place(a)
<1>1. /\ n \in Nat /\ k \in 0 .. 2 * n
      /\ \A j \in 1 .. n : s[j] \in Locks
      /\ \A i \in 1 .. n - k : a.ops[i] = <<"acquire", s[k + i]>>
      /\ \A i \in 1 .. (2 * n) - k : k + i > n => a.ops[i] = <<"release", s[(2 * n) + 1 - k - i]>>
      /\ a.ops = <<>> <=> k = 2 * n
  BY RunningIs
<1>2. Head(a.ops) = a.ops[1]
  BY DEF Act
<1> HIDE DEF s, n, k
<1>3. n \in Nat /\ k \in 0 .. 2 * n /\ k < 2 * n
  BY <1>1
<1>4. CASE k < n
  <2>1. 1 \in 1 .. n - k /\ k + 1 \in 1 .. n
    BY <1>3, <1>4
  <2>2. a.ops[1] = <<"acquire", s[k + 1]>>
    BY <1>1, <2>1
  <2>3. a.ops[1][2] \in Locks
    BY <1>1, <2>1, <2>2
  <2> QED
    BY <1>2, <1>3, <1>4, <2>1, <2>2, <2>3 DEF s, n, k
<1>5. CASE n <= k
  <2>1. 1 \in 1 .. (2 * n) - k /\ k + 1 > n /\ (2 * n) - k \in 1 .. n /\ (2 * n) + 1 - k - 1 = (2 * n) - k
    BY <1>3, <1>5
  <2>2. a.ops[1] = <<"release", s[(2 * n) - k]>>
    BY <1>1, <2>1
  <2>3. a.ops[1][2] \in Locks
    BY <1>1, <2>1, <2>2
  <2>4. ~(k < n)
    BY <1>3, <1>5
  <2> QED
    BY <1>2, <1>3, <1>5, <2>1, <2>2, <2>3, <2>4 DEF s, n, k
<1> QED
  BY <1>3, <1>4, <1>5

\* What Holds says of a lock, in terms of the place.
LEMMA HoldsIff ==
    ASSUME NEW a \in Act, Running(a), NEW j \in 1 .. Len(Order(a))
    PROVE  Holds(a, Order(a)[j]) <=> Has(a, j)
<1> DEFINE s == Order(a)
           n == Len(s)
           k == Place(a)
           l == s[j]
<1>1. /\ n \in Nat /\ k \in 0 .. 2 * n
      /\ \A i, mm \in 1 .. n : s[i] = s[mm] => i = mm
      /\ \A i \in 1 .. n - k : a.ops[i] = <<"acquire", s[k + i]>>
      /\ \A i \in 1 .. (2 * n) - k : k + i > n => a.ops[i] = <<"release", s[(2 * n) + 1 - k - i]>>
      /\ DOMAIN a.ops = 1 .. (2 * n) - k
      /\ a.ops = <<>> <=> k = 2 * n
  BY RunningIs
<1>2. a.ops # <<>> => /\ Head(a.ops) = a.ops[1]
                      /\ k < n => a.ops[1] = <<"acquire", s[k + 1]>> /\ k + 1 \in 1 .. n
                      /\ n <= k => a.ops[1] = <<"release", s[(2 * n) - k]>> /\ (2 * n) - k \in 1 .. n
  BY HeadIs
<1>2a. /\ k < n <=> a.step \in AcquireSteps
       /\ n <= k /\ k < 2 * n <=> a.step \in ReleaseSteps
  BY RunningIs
<1> HIDE DEF s, n, k
<1>3. n \in Nat /\ k \in 0 .. 2 * n /\ j \in 1 .. n
  BY <1>1 DEF n, s
<1>4. (\E i \in DOMAIN a.ops : a.ops[i] = <<"release", l>>) <=> k <= (2 * n) - j
  <2>1. ASSUME NEW i \in DOMAIN a.ops, a.ops[i] = <<"release", l>>
        PROVE  k <= (2 * n) - j
    <3>1. i \in 1 .. (2 * n) - k
      BY <1>1
    <3>2. ~(k + i <= n)
      <4> SUFFICES ASSUME k + i <= n PROVE FALSE
        OBVIOUS
      <4>1. i \in 1 .. n - k
        BY <1>3, <3>1
      <4>2. a.ops[i] = <<"acquire", s[k + i]>>
        BY <1>1, <4>1
      <4> QED
        BY <2>1, <4>2
    <3>3. (2 * n) + 1 - k - i \in 1 .. n /\ k + i > n
      BY <1>3, <3>1, <3>2
    <3>4. a.ops[i] = <<"release", s[(2 * n) + 1 - k - i]>>
      BY <1>1, <3>1, <3>3
    <3>5. s[(2 * n) + 1 - k - i] = s[j]
      BY <2>1, <3>4
    <3>6. (2 * n) + 1 - k - i = j
      BY <1>1, <1>3, <3>3, <3>5
    <3> QED
      BY <1>3, <3>1, <3>6
  <2>2. ASSUME k <= (2 * n) - j
        PROVE  \E i \in DOMAIN a.ops : a.ops[i] = <<"release", l>>
    <3> DEFINE i == (2 * n) + 1 - k - j
    <3>1. i \in 1 .. (2 * n) - k /\ k + i > n /\ (2 * n) + 1 - k - i = j
      BY <1>3, <2>2
    <3> HIDE DEF i
    <3>2. a.ops[i] = <<"release", s[j]>> /\ i \in DOMAIN a.ops
      BY <1>1, <3>1
    <3> QED
      BY <3>2
  <2> QED
    BY <2>1, <2>2
<1>5. (\E i \in DOMAIN a.ops : a.ops[i] = <<"acquire", l>>) <=> k < j
  <2>1. ASSUME NEW i \in DOMAIN a.ops, a.ops[i] = <<"acquire", l>>
        PROVE  k < j
    <3>1. i \in 1 .. (2 * n) - k
      BY <1>1
    <3>2. ~(k + i > n)
      <4> SUFFICES ASSUME k + i > n PROVE FALSE
        OBVIOUS
      <4>2. a.ops[i] = <<"release", s[(2 * n) + 1 - k - i]>>
        BY <1>1, <3>1
      <4> QED
        BY <2>1, <4>2
    <3>3. i \in 1 .. n - k /\ k + i \in 1 .. n
      BY <1>3, <3>1, <3>2
    <3>4. a.ops[i] = <<"acquire", s[k + i]>>
      BY <1>1, <3>3
    <3>5. s[k + i] = s[j]
      BY <2>1, <3>4
    <3>6. k + i = j
      BY <1>1, <1>3, <3>3, <3>5
    <3> QED
      BY <1>3, <3>1, <3>6
  <2>2. ASSUME k < j
        PROVE  \E i \in DOMAIN a.ops : a.ops[i] = <<"acquire", l>>
    <3> DEFINE i == j - k
    <3>1. i \in 1 .. n - k /\ i \in 1 .. (2 * n) - k /\ k + i = j
      BY <1>3, <2>2
    <3> HIDE DEF i
    <3>2. a.ops[i] = <<"acquire", s[j]>> /\ i \in DOMAIN a.ops
      BY <1>1, <3>1
    <3> QED
      BY <3>2
  <2> QED
    BY <2>1, <2>2
<1>6. (a.ops # <<>> /\ Head(a.ops) = <<"release", l>> /\ a.step = "popcli")
      <=> (k = (2 * n) - j /\ a.step = "popcli")
  <2> SUFFICES ASSUME a.step = "popcli"
               PROVE  (a.ops # <<>> /\ Head(a.ops) = <<"release", l>>) <=> k = (2 * n) - j
    OBVIOUS
  <2>1. n <= k /\ k < 2 * n
    BY <1>2a DEF ReleaseSteps
  <2>2. a.ops # <<>> /\ Head(a.ops) = <<"release", s[(2 * n) - k]>> /\ (2 * n) - k \in 1 .. n
    BY <1>1, <1>2, <2>1
  <2>3. s[(2 * n) - k] = s[j] <=> (2 * n) - k = j
    BY <1>1, <1>3, <2>2
  <2>4. (2 * n) - k = j <=> k = (2 * n) - j
    BY <1>3
  <2> QED
    BY <2>2, <2>3, <2>4
<1>7. (a.ops # <<>> /\ Head(a.ops) = <<"acquire", l>> /\ a.step = "own")
      <=> (k = j - 1 /\ a.step = "own")
  <2> SUFFICES ASSUME a.step = "own"
               PROVE  (a.ops # <<>> /\ Head(a.ops) = <<"acquire", l>>) <=> k = j - 1
    OBVIOUS
  <2>1. k < n
    BY <1>2a DEF AcquireSteps
  <2>1a. k # 2 * n
    BY <1>3, <2>1
  <2>2. a.ops # <<>> /\ Head(a.ops) = <<"acquire", s[k + 1]>> /\ k + 1 \in 1 .. n
    BY <1>1, <1>2, <2>1, <2>1a
  <2>3. s[k + 1] = s[j] <=> k + 1 = j
    BY <1>1, <1>3, <2>2
  <2>4. k + 1 = j <=> k = j - 1
    BY <1>3
  <2> QED
    BY <2>2, <2>3, <2>4
<1>8. Holds(a, l) <=> /\ k <= (2 * n) - j /\ ~(k = (2 * n) - j /\ a.step = "popcli")
                      /\ k < j => (k = j - 1 /\ a.step = "own")
  BY <1>4, <1>5, <1>6, <1>7 DEF Holds
<1>9. (k <= (2 * n) - j <=> k < (2 * n) - j \/ k = (2 * n) - j) /\ ~(k < (2 * n) - j /\ k = (2 * n) - j)
      /\ (k >= j <=> ~(k < j))
  BY <1>3
<1>10. Has(a, j) <=> /\ k < (2 * n) - j \/ (k = (2 * n) - j /\ a.step # "popcli")
                     /\ k >= j \/ (k = j - 1 /\ a.step = "own")
  BY DEF Has, k, n, s
<1> QED
  BY <1>8, <1>9, <1>10 DEF s

\* An activity has only locks of its order.
LEMMA HoldsOnly ==
    ASSUME NEW a \in Act, Running(a), NEW l, Holds(a, l)
    PROVE  \E j \in 1 .. Len(Order(a)) : l = Order(a)[j] /\ Has(a, j)
<1> DEFINE s == Order(a)
           n == Len(s)
           k == Place(a)
<1>1. /\ n \in Nat /\ k \in 0 .. 2 * n
      /\ \A i \in 1 .. n - k : a.ops[i] = <<"acquire", s[k + i]>>
      /\ \A i \in 1 .. (2 * n) - k : k + i > n => a.ops[i] = <<"release", s[(2 * n) + 1 - k - i]>>
      /\ DOMAIN a.ops = 1 .. (2 * n) - k
  BY RunningIs
<1>2. PICK i \in DOMAIN a.ops : a.ops[i] = <<"release", l>>
  BY DEF Holds
<1>3. \E j \in 1 .. n : l = s[j]
  <2> HIDE DEF s, n, k
  <2>1. i \in 1 .. (2 * n) - k /\ n \in Nat /\ k \in 0 .. 2 * n
    BY <1>1
  <2>2. ~(k + i <= n)
    <3> SUFFICES ASSUME k + i <= n PROVE FALSE
      OBVIOUS
    <3>1. i \in 1 .. n - k
      BY <2>1
    <3> QED
      BY <1>1, <1>2, <3>1
  <2>3. (2 * n) + 1 - k - i \in 1 .. n /\ k + i > n
    BY <2>1, <2>2
  <2>4. a.ops[i] = <<"release", s[(2 * n) + 1 - k - i]>>
    BY <1>1, <2>1, <2>3
  <2> QED
    BY <1>2, <2>3, <2>4
<1> QED
  BY <1>3, HoldsIff

-----------------------------------------------------------------------------
(* One activity from step to step. *)

\* The current activity of a processor.
LEMMA TopIs ==
    ASSUME NEW p \in Processor, Matched(p), p.stack # <<>>
    PROVE  LET a == p.stack[1] IN
           /\ Head(p.stack) = a /\ a \in Act /\ Running(a) /\ Len(p.stack) \in 1 .. 2
           /\ p.ncli = Pushed(a)
           /\ p.FL_IF <=> p.ncli = 0 /\ ~a.handler
           /\ p.ncli > 0 => (p.intena <=> ~a.handler)
           /\ p.ncli = 0 /\ a.step = "cli" => (a.eflags <=> ~a.handler)
           /\ Len(p.stack) = 2 => a.handler /\ Free(p.stack[2])
<1>1. p.stack \in Seq(Act)
  BY DEF Processor
<1>2. Len(p.stack) \in Nat /\ Len(p.stack) # 0 /\ Len(p.stack) <= 2
  BY <1>1 DEF Matched
<1>3. 1 \in 1 .. Len(p.stack) /\ Len(p.stack) \in 1 .. 2
  <2>1. \A n \in Nat : n # 0 /\ n <= 2 => 1 \in 1 .. n /\ n \in 1 .. 2
    OBVIOUS
  <2> QED
    BY <1>2, <2>1
<1>4. Head(p.stack) = p.stack[1] /\ p.stack[1] \in Act
  BY <1>1, <1>3
<1>5. Running(p.stack[1])
  BY <1>3 DEF Matched
<1> QED
  BY <1>3, <1>4, <1>5 DEF Matched

\* A processor whose current activity goes on as b.
LEMMA TopReplaced ==
    ASSUME NEW p \in Processor, Matched(p), p.stack # <<>>, NEW b \in Act
    PROVE  LET s == p.stack t == [s EXCEPT ![1] = b] IN
           /\ t \in Seq(Act) /\ Len(t) = Len(s) /\ Len(s) \in 1 .. 2 /\ t[1] = b /\ t # <<>>
           /\ Len(s) = 2 => t[2] = s[2]
<1> DEFINE s == p.stack
           t == [s EXCEPT ![1] = b]
<1>1. s \in Seq(Act) /\ Len(s) \in 1 .. 2
  BY TopIs DEF Processor
<1>2. t \in Seq(Act) /\ Len(t) = Len(s) /\ t[1] = b /\ (Len(s) = 2 => t[2] = s[2])
  BY <1>1
<1> HIDE DEF s, t
<1>3. PICK mm \in 1 .. 2 : mm = Len(t)
  BY <1>1, <1>2
<1>4. mm # 0
  OBVIOUS
<1>5. t = <<>> => mm = 0
  BY <1>3
<1> QED
  BY <1>1, <1>2, <1>4, <1>5 DEF s, t

\* A processor whose current activity has become b, and whose state matches b.
LEMMA Replaced ==
    ASSUME NEW p \in Processor, Matched(p), p.stack # <<>>,
           NEW b \in Act, Running(b), b.handler = p.stack[1].handler,
           NEW q \in Processor,
           Len(q.stack) = Len(p.stack), q.stack[1] = b, Len(p.stack) = 2 => q.stack[2] = p.stack[2],
           q.ncli = Pushed(b), q.FL_IF <=> q.ncli = 0 /\ ~b.handler, q.ncli > 0 => (q.intena <=> ~b.handler),
           q.ncli = 0 /\ b.step = "cli" => (b.eflags <=> ~b.handler)
    PROVE  Matched(q) /\ q.stack # <<>>
<1> DEFINE s == p.stack
           t == q.stack
<1>1. Len(s) \in 1 .. 2 /\ s \in Seq(Act) /\ t \in Seq(Act)
  BY TopIs DEF Processor
<1>2. Len(s) = 2 => s[1].handler /\ Free(s[2]) /\ Running(s[2])
  BY <1>1 DEF Matched
<1>3. Len(t) = Len(s) /\ t[1] = b /\ (Len(s) = 2 => t[2] = s[2]) /\ b.handler = s[1].handler
  OBVIOUS
<1>4. t # <<>>
  BY <1>1, <1>3
<1> HIDE DEF t, s
<1>5. \A i \in 1 .. Len(t) : Running(t[i])
  <2>1. \A i \in 1 .. Len(t) : i = 1 \/ (i = 2 /\ Len(s) = 2)
    BY <1>1, <1>3
  <2> QED
    BY <1>2, <1>3, <2>1
<1>6. Len(t) <= 2
  BY <1>1, <1>3
<1>7. Len(t) = 2 => t[1].handler /\ Free(t[2])
  BY <1>2, <1>3
<1> QED
  BY <1>3, <1>4, <1>5, <1>6, <1>7 DEF Matched, t

\* A step inside an operation: only the step, and the flags read, change.
LEMMA StepWithin ==
    ASSUME NEW a \in Act, Running(a), NEW b \in Act,
           b.ops = a.ops, b.handler = a.handler,
           \/ a.step \in AcquireSteps /\ b.step \in AcquireSteps
           \/ a.step \in ReleaseSteps /\ b.step \in ReleaseSteps
    PROVE  /\ Running(b) /\ Place(b) = Place(a) /\ Order(b) = Order(a)
           /\ {a.step, b.step} \cap {"own", "popcli"} = {} => \A l : Holds(b, l) <=> Holds(a, l)
<1>1. Order(b) = Order(a) /\ Place(b) = Place(a)
  BY DEF Order, Place
<1>2. Running(b)
  BY <1>1, RunningIs DEF Running, AcquireSteps, ReleaseSteps
<1>3. ASSUME {a.step, b.step} \cap {"own", "popcli"} = {} PROVE \A l : Holds(b, l) <=> Holds(a, l)
  <2>1. a.step # "own" /\ a.step # "popcli" /\ b.step # "own" /\ b.step # "popcli"
    BY <1>3
  <2> QED
    BY <2>1 DEF Holds
<1> QED
  BY <1>1, <1>2, <1>3

\* The next operation, after acquire's last step or release's.
LEMMA StepNext ==
    ASSUME NEW a \in Act, Running(a), a.step \in {"own", "popcli"},
           NEW b, b = [a EXCEPT !.ops = Tail(a.ops), !.step = FirstStep(Tail(a.ops))]
    PROVE  /\ b \in Act /\ Running(b) /\ b.handler = a.handler
           /\ b.step \in {"readeflags", "holding", "end"}
           /\ Place(b) = Place(a) + 1 /\ Order(b) = Order(a)
           /\ \A l : Holds(b, l) <=> Holds(a, l)
<1> DEFINE s == Order(a)
           n == Len(s)
           k == Place(a)
           t == Tail(a.ops)
<1>1. /\ s \in {ThreadLocks, HandlerLocks} /\ n \in Nat /\ k \in 0 .. 2 * n
      /\ Len(a.ops) = (2 * n) - k
      /\ k < n <=> a.step \in AcquireSteps
      /\ n <= k /\ k < 2 * n <=> a.step \in ReleaseSteps
      /\ a.ops = <<>> <=> k = 2 * n
      /\ \A i \in 1 .. n - k : a.ops[i] = <<"acquire", s[k + i]>>
      /\ \A i \in 1 .. (2 * n) - k : k + i > n => a.ops[i] = <<"release", s[(2 * n) + 1 - k - i]>>
  BY RunningIs
<1>2. k < 2 * n /\ (a.step = "own" => k < n) /\ (a.step = "popcli" => n <= k)
  <2> HIDE DEF s, n, k
  <2> QED
    BY <1>1 DEF AcquireSteps, ReleaseSteps
<1>3. a.ops # <<>>
  BY <1>1, <1>2
<1>4. a.ops \in Seq(Opn)
  BY DEF Act
<1>5. t \in Seq(Opn) /\ Len(t) = Len(a.ops) - 1 /\ \A i \in 1 .. Len(t) : t[i] = a.ops[i + 1]
  BY <1>3, <1>4
<1>6. FirstStep(t) \in {"readeflags", "holding", "end"}
  BY DEF FirstStep
<1>7. b \in Act /\ b.handler = a.handler /\ b.step = FirstStep(t) /\ b.ops = t
  BY <1>5, <1>6 DEF Act, AcquireSteps, ReleaseSteps
<1>8. Order(b) = s /\ Place(b) = (2 * n) - Len(t)
  BY <1>7 DEF Order, Place
<1> HIDE DEF s, n, k, t
<1>9. n \in Nat /\ k \in 0 .. 2 * n /\ k + 1 \in 0 .. 2 * n /\ Len(t) = (2 * n) - (k + 1)
      /\ Len(a.ops) = (2 * n) - k
  BY <1>1, <1>2, <1>5
<1>10. Place(b) = k + 1
  BY <1>8, <1>9
<1>11. t = <<>> <=> k + 1 = 2 * n
  BY <1>5, <1>9
<1>12. k + 1 < n => Head(t) = <<"acquire", s[k + 2]>>
  <2> SUFFICES ASSUME k + 1 < n PROVE Head(t) = <<"acquire", s[k + 2]>>
    OBVIOUS
  <2>1. 1 \in 1 .. Len(t) /\ 2 \in 1 .. n - k /\ 1 + 1 = 2
    BY <1>9
  <2>2. Head(t) = t[1] /\ t[1] = a.ops[2]
    BY <1>5, <2>1
  <2> QED
    BY <1>1, <2>1, <2>2
<1>13. n <= k + 1 /\ k + 1 < 2 * n => Head(t)[1] = "release"
  <2> SUFFICES ASSUME n <= k + 1, k + 1 < 2 * n PROVE Head(t)[1] = "release"
    OBVIOUS
  <2>1. 1 \in 1 .. Len(t) /\ 2 \in 1 .. (2 * n) - k /\ 1 + 1 = 2 /\ k + 2 > n
    BY <1>9
  <2>2. Head(t) = t[1] /\ t[1] = a.ops[2]
    BY <1>5, <2>1
  <2>3. a.ops[2] = <<"release", s[(2 * n) + 1 - k - 2]>>
    BY <1>1, <2>1
  <2> QED
    BY <2>2, <2>3
<1>14. /\ k + 1 < n => b.step = "readeflags"
       /\ n <= k + 1 /\ k + 1 < 2 * n => b.step = "holding"
       /\ k + 1 = 2 * n => b.step = "end"
  <2>1. k + 1 < n => t # <<>>
    BY <1>9, <1>11
  <2>2. n <= k + 1 /\ k + 1 < 2 * n => t # <<>>
    BY <1>9, <1>11
  <2> QED
    BY <1>7, <1>11, <1>12, <1>13, <2>1, <2>2 DEF FirstStep
<1>15. Running(b)
  <2>1. \A i \in 1 .. Len(a.ops) : a.ops[i] = Use(s)[k + i]
    BY DEF Running, s, k
  <2>2. \A i \in 1 .. Len(t) : t[i] = Use(s)[k + 1 + i]
    <3> SUFFICES ASSUME NEW i \in 1 .. Len(t) PROVE t[i] = Use(s)[k + 1 + i]
      OBVIOUS
    <3>1. i \in Nat /\ i >= 1 /\ i <= (2 * n) - (k + 1)
      BY <1>9
    <3>1a. n \in Nat /\ k \in Nat
      BY <1>9
    <3>1b. k + (i + 1) = k + 1 + i
      BY <3>1, <3>1a
    <3>1c. i + 1 \in 1 .. (2 * n) - k
      BY <3>1, <3>1a
    <3>2. i + 1 \in 1 .. (2 * n) - k /\ k + (i + 1) = k + 1 + i
      BY <3>1b, <3>1c
    <3> QED
      BY <1>5, <1>9, <2>1, <3>2
  <2> QED
    BY <1>7, <1>8, <1>9, <1>10, <1>14, <2>2 DEF Running, AcquireSteps, ReleaseSteps, n
<1>16. \A j \in 1 .. n : Has(b, j) <=> Has(a, j)
  <2> SUFFICES ASSUME NEW j \in 1 .. n PROVE Has(b, j) <=> Has(a, j)
    OBVIOUS
  <2>1. Has(b, j) <=> /\ k + 1 < (2 * n) - j \/ (k + 1 = (2 * n) - j /\ b.step # "popcli")
                      /\ k + 1 >= j \/ (k + 1 = j - 1 /\ b.step = "own")
    BY <1>8, <1>10 DEF Has, n
  <2>2. Has(a, j) <=> /\ k < (2 * n) - j \/ (k = (2 * n) - j /\ a.step # "popcli")
                      /\ k >= j \/ (k = j - 1 /\ a.step = "own")
    BY DEF Has, n, s, k
  <2>3. b.step # "popcli" /\ b.step # "own"
    BY <1>6, <1>7
  <2>4. CASE a.step = "own"
    <3>1. k < n
      BY <1>2, <2>4
    <3>2. (k + 1 <= (2 * n) - j /\ k + 1 >= j) <=> (k <= (2 * n) - j /\ (k >= j \/ k = j - 1))
      BY <1>9, <3>1
    <3>3. (k + 1 < (2 * n) - j \/ k + 1 = (2 * n) - j <=> k + 1 <= (2 * n) - j)
          /\ (k < (2 * n) - j \/ k = (2 * n) - j <=> k <= (2 * n) - j)
      BY <1>9
    <3> QED
      BY <2>1, <2>2, <2>3, <2>4, <3>2, <3>3
  <2>5. CASE a.step = "popcli"
    <3>1. n <= k
      BY <1>2, <2>5
    <3>2. (k + 1 <= (2 * n) - j /\ k + 1 >= j) <=> (k < (2 * n) - j /\ k >= j)
      BY <1>9, <3>1
    <3>3. k + 1 < (2 * n) - j \/ k + 1 = (2 * n) - j <=> k + 1 <= (2 * n) - j
      BY <1>9
    <3> QED
      BY <2>1, <2>2, <2>3, <2>5, <3>2, <3>3
  <2> QED
    BY <2>4, <2>5
<1>17. \A l : Holds(b, l) <=> Holds(a, l)
  <2>1. ASSUME NEW l, Holds(a, l) PROVE Holds(b, l)
    <3>1. PICK j \in 1 .. n : l = s[j] /\ Has(a, j)
      BY <2>1, HoldsOnly DEF n, s
    <3> QED
      BY <1>7, <1>8, <1>15, <1>16, <3>1, HoldsIff DEF n
  <2>2. ASSUME NEW l, Holds(b, l) PROVE Holds(a, l)
    <3>1. PICK j \in 1 .. n : l = s[j] /\ Has(b, j)
      BY <2>2, <1>7, <1>8, <1>15, HoldsOnly DEF n
    <3> QED
      BY <1>16, <3>1, HoldsIff DEF n, s
  <2> QED
    BY <2>1, <2>2
<1> QED
  BY <1>6, <1>7, <1>8, <1>10, <1>15, <1>17 DEF s, k

-----------------------------------------------------------------------------
(* One processor from step to step. *)

\* A processor with another activity on top, and with other flags too.
LEMMA NewTop ==
    ASSUME NEW p \in Processor, Matched(p), p.stack # <<>>, NEW b \in Act
    PROVE  LET q == [p EXCEPT !.stack = [p.stack EXCEPT ![1] = b]] IN
           /\ q \in Processor /\ q.FL_IF = p.FL_IF /\ q.ncli = p.ncli /\ q.intena = p.intena
           /\ Len(q.stack) = Len(p.stack) /\ q.stack[1] = b /\ (Len(p.stack) = 2 => q.stack[2] = p.stack[2])
<1> DEFINE t == [p.stack EXCEPT ![1] = b]
           q == [p EXCEPT !.stack = t]
<1>1. t \in Seq(Act) /\ Len(t) = Len(p.stack) /\ t[1] = b /\ (Len(p.stack) = 2 => t[2] = p.stack[2])
  BY TopReplaced
<1> HIDE DEF t
<1>2. q \in Processor /\ q.FL_IF = p.FL_IF /\ q.ncli = p.ncli /\ q.intena = p.intena /\ q.stack = t
  BY <1>1 DEF Processor
<1> QED
  BY <1>1, <1>2 DEF t

\* Steps that leave the pushes as they are.
LEMMA StepOnly ==
    ASSUME NEW p \in Processor, Matched(p), p.stack # <<>>,
           NEW b \in Act, b.ops = p.stack[1].ops, b.handler = p.stack[1].handler,
           \/ /\ {p.stack[1].step, b.step} \subseteq {"readeflags", "cli"}
              /\ b.step = "cli" => (b.eflags <=> p.FL_IF)
           \/ {p.stack[1].step, b.step} \subseteq {"check", "xchg", "own"}
           \/ {p.stack[1].step, b.step} \subseteq ReleaseSteps
    PROVE  LET q == [p EXCEPT !.stack = [p.stack EXCEPT ![1] = b]] IN
           q \in Processor /\ Matched(q) /\ q.stack # <<>> /\ q.stack[1] = b /\ Running(b)
<1> DEFINE a == p.stack[1]
           q == [p EXCEPT !.stack = [p.stack EXCEPT ![1] = b]]
<1>1. /\ a \in Act /\ Running(a)
      /\ p.ncli = Pushed(a)
      /\ p.FL_IF <=> p.ncli = 0 /\ ~a.handler
      /\ p.ncli > 0 => (p.intena <=> ~a.handler)
  BY TopIs
<1>2. \/ a.step \in AcquireSteps /\ b.step \in AcquireSteps
      \/ a.step \in ReleaseSteps /\ b.step \in ReleaseSteps
  BY DEF AcquireSteps
<1>3. Running(b) /\ Place(b) = Place(a) /\ Order(b) = Order(a)
  BY <1>1, <1>2, StepWithin
<1>4. /\ Place(b) < Len(Order(b)) <=> b.step \in AcquireSteps
      /\ Place(a) < Len(Order(a)) <=> a.step \in AcquireSteps
  BY <1>1, <1>3, RunningIs
<1>5. Pushed(b) = Pushed(a)
  <2>1. CASE {a.step, b.step} \subseteq {"readeflags", "cli"}
             \/ {a.step, b.step} \subseteq {"check", "xchg", "own"}
    <3>1. a.step \in {"check", "xchg", "own"} <=> b.step \in {"check", "xchg", "own"}
      BY <2>1
    <3> QED
      BY <1>3, <3>1 DEF Pushed
  <2>2. CASE {a.step, b.step} \subseteq ReleaseSteps
    <3>1. a.step \notin AcquireSteps /\ b.step \notin AcquireSteps
      BY <2>2 DEF AcquireSteps, ReleaseSteps
    <3> QED
      BY <1>3, <1>4, <3>1 DEF Pushed
  <2> QED
    BY <2>1, <2>2
<1>6. p.FL_IF \in BOOLEAN /\ p.ncli \in Nat /\ p.intena \in BOOLEAN
  BY DEF Processor
<1>7. /\ q \in Processor /\ q.FL_IF = p.FL_IF /\ q.ncli = p.ncli /\ q.intena = p.intena
      /\ Len(q.stack) = Len(p.stack) /\ q.stack[1] = b /\ (Len(p.stack) = 2 => q.stack[2] = p.stack[2])
  BY NewTop
<1>8. b.step = "cli" => (b.eflags <=> p.FL_IF)
  BY DEF ReleaseSteps
<1> HIDE DEF a, q
<1>9. /\ q.ncli = Pushed(b) /\ (q.FL_IF <=> q.ncli = 0 /\ ~b.handler)
      /\ q.ncli > 0 => (q.intena <=> ~b.handler)
      /\ q.ncli = 0 /\ b.step = "cli" => (b.eflags <=> ~b.handler)
  BY <1>1, <1>5, <1>7, <1>8 DEF a
<1>10. b.handler = p.stack[1].handler
  OBVIOUS
<1>11. Matched(q) /\ q.stack # <<>>
  BY <1>3, <1>7, <1>9, <1>10, Replaced
<1> QED
  BY <1>3, <1>7, <1>11 DEF q

\* pushcli: the flags kept with the first push are those of the interrupted thread.
LEMMA StepPush ==
    ASSUME NEW p \in Processor, Matched(p), p.stack # <<>>, p.stack[1].step = "cli",
           NEW b \in Act, b.ops = p.stack[1].ops, b.handler = p.stack[1].handler, b.step = "check",
           NEW q \in Processor, Len(q.stack) = Len(p.stack), q.stack[1] = b,
           Len(p.stack) = 2 => q.stack[2] = p.stack[2],
           q.FL_IF = FALSE, q.ncli = p.ncli + 1, q.intena = IF p.ncli = 0 THEN p.stack[1].eflags ELSE p.intena
    PROVE  Matched(q) /\ q.stack # <<>> /\ Running(b)
<1> DEFINE a == p.stack[1]
<1>1. /\ a \in Act /\ Running(a)
      /\ p.ncli = Pushed(a)
      /\ p.ncli > 0 => (p.intena <=> ~a.handler)
      /\ p.ncli = 0 /\ a.step = "cli" => (a.eflags <=> ~a.handler)
  BY TopIs
<1>2. Running(b) /\ Place(b) = Place(a) /\ Order(b) = Order(a)
  BY <1>1, StepWithin DEF AcquireSteps
<1>3. Place(a) < Len(Order(a)) /\ Place(a) \in Nat
  BY <1>1, RunningIs DEF AcquireSteps
<1>4. Pushed(a) = Place(a) /\ Pushed(b) = Place(a) + 1
  BY <1>2, <1>3 DEF Pushed
<1>5. p.ncli \in Nat
  BY DEF Processor
<1>6. q.ncli = Pushed(b) /\ q.ncli # 0 /\ q.ncli > 0
  BY <1>1, <1>4, <1>5
<1>7. q.intena <=> ~b.handler
  <2>1. CASE p.ncli = 0
    BY <1>1, <2>1
  <2>2. CASE p.ncli # 0
    <3>1. p.ncli > 0
      BY <1>5, <2>2
    <3> QED
      BY <1>1, <2>2, <3>1
  <2> QED
    BY <2>1, <2>2
<1> HIDE DEF a
<1>8. /\ q.FL_IF <=> q.ncli = 0 /\ ~b.handler
      /\ q.ncli = 0 /\ b.step = "cli" => (b.eflags <=> ~b.handler)
  BY <1>6
<1> QED
  BY <1>2, <1>6, <1>7, <1>8, Replaced

\* acquire's last step: the pushes stay, the next operation is at hand.
LEMMA StepOwn ==
    ASSUME NEW p \in Processor, Matched(p), p.stack # <<>>, p.stack[1].step = "own",
           NEW b, b = [p.stack[1] EXCEPT !.ops = Tail(p.stack[1].ops), !.step = FirstStep(Tail(p.stack[1].ops))]
    PROVE  LET q == [p EXCEPT !.stack = [p.stack EXCEPT ![1] = b]] IN
           q \in Processor /\ Matched(q) /\ q.stack # <<>> /\ q.stack[1] = b
<1> DEFINE a == p.stack[1]
           q == [p EXCEPT !.stack = [p.stack EXCEPT ![1] = b]]
           n == Len(Order(a))
           k == Place(a)
<1>1. /\ a \in Act /\ Running(a)
      /\ p.ncli = Pushed(a)
      /\ p.FL_IF <=> p.ncli = 0 /\ ~a.handler
      /\ p.ncli > 0 => (p.intena <=> ~a.handler)
  BY TopIs
<1>2. /\ b \in Act /\ Running(b) /\ b.handler = a.handler
      /\ b.step \in {"readeflags", "holding", "end"}
      /\ Place(b) = k + 1 /\ Order(b) = Order(a)
  BY ZenonT(60), <1>1, StepNext
<1>3. k < n /\ k \in Nat /\ n \in Nat
  BY <1>1, RunningIs DEF AcquireSteps
<1>4. Pushed(a) = k + 1
  BY <1>3 DEF Pushed
<1>5. Pushed(b) = k + 1
  <2>1. Pushed(b) = IF k + 1 < n THEN (k + 1) + 0 ELSE (2 * n) - (k + 1)
    BY <1>2 DEF Pushed
  <2> HIDE DEF k, n
  <2> QED
    BY <1>3, <2>1
<1>6. p.FL_IF \in BOOLEAN /\ p.ncli \in Nat /\ p.intena \in BOOLEAN
  BY DEF Processor
<1>7. /\ q \in Processor /\ q.FL_IF = p.FL_IF /\ q.ncli = p.ncli /\ q.intena = p.intena
      /\ Len(q.stack) = Len(p.stack) /\ q.stack[1] = b /\ (Len(p.stack) = 2 => q.stack[2] = p.stack[2])
  BY <1>2, NewTop
<1>8. b.step # "cli"
  BY <1>2
<1> HIDE DEF a, q, k, n
<1>9. /\ q.ncli = Pushed(b) /\ (q.FL_IF <=> q.ncli = 0 /\ ~b.handler)
      /\ q.ncli > 0 => (q.intena <=> ~b.handler)
  BY <1>1, <1>2, <1>4, <1>5, <1>7
<1>10. b.handler = p.stack[1].handler
  BY <1>2 DEF a
<1>11. Matched(q) /\ q.stack # <<>>
  BY <1>2, <1>7, <1>8, <1>9, <1>10, Replaced
<1> QED
  BY <1>7, <1>11 DEF q

\* popcli neither panics nor turns interrupts on too early or too late.
LEMMA StepPop ==
    ASSUME NEW p \in Processor, Matched(p), p.stack # <<>>, p.stack[1].step = "popcli",
           NEW b \in Act, Running(b), b.handler = p.stack[1].handler,
           b.step \in {"readeflags", "holding", "end"},
           Place(b) = Place(p.stack[1]) + 1, Order(b) = Order(p.stack[1]),
           NEW q \in Processor, Len(q.stack) = Len(p.stack), q.stack[1] = b,
           Len(p.stack) = 2 => q.stack[2] = p.stack[2],
           q.FL_IF = (p.ncli = 1 /\ p.intena), q.ncli = p.ncli - 1, q.intena = p.intena
    PROVE  Matched(q) /\ q.stack # <<>> /\ ~p.FL_IF /\ ~(p.ncli < 1)
<1> DEFINE a == p.stack[1]
           n == Len(Order(a))
           k == Place(a)
<1>1. /\ a \in Act /\ Running(a)
      /\ p.ncli = Pushed(a)
      /\ p.FL_IF <=> p.ncli = 0 /\ ~a.handler
      /\ p.ncli > 0 => (p.intena <=> ~a.handler)
  BY TopIs
<1>2. n <= k /\ k < 2 * n /\ k \in Nat /\ n \in Nat
  BY <1>1, RunningIs DEF ReleaseSteps
<1>3. Pushed(a) = (2 * n) - k
  <2>1. Pushed(a) = IF k < n THEN k + (IF a.step \in {"check", "xchg", "own"} THEN 1 ELSE 0) ELSE (2 * n) - k
    BY DEF Pushed
  <2> HIDE DEF k, n
  <2>2. ~(k < n)
    BY <1>2
  <2> QED
    BY <2>1, <2>2
<1>4. Pushed(b) = (2 * n) - (k + 1)
  <2>1. Pushed(b) = IF k + 1 < n THEN (k + 1) + 0 ELSE (2 * n) - (k + 1)
    BY DEF Pushed
  <2> HIDE DEF k, n
  <2> QED
    BY <1>2, <2>1
<1>5. p.FL_IF \in BOOLEAN /\ p.ncli \in Nat /\ p.intena \in BOOLEAN
  BY DEF Processor
<1> HIDE DEF a, k, n
<1>6. q.ncli = Pushed(b) /\ p.ncli > 0 /\ (p.ncli = 1 <=> q.ncli = 0) /\ ~(p.ncli < 1) /\ p.ncli # 0
  BY <1>1, <1>2, <1>3, <1>4, <1>5
<1>7. p.intena <=> ~b.handler
  BY <1>1, <1>6 DEF a
<1>8. /\ q.FL_IF <=> q.ncli = 0 /\ ~b.handler
      /\ q.ncli > 0 => (q.intena <=> ~b.handler)
      /\ q.ncli = 0 /\ b.step = "cli" => (b.eflags <=> ~b.handler)
  BY <1>6, <1>7
<1>9. Matched(q) /\ q.stack # <<>>
  BY <1>6, <1>8, Replaced
<1> QED
  BY <1>1, <1>6, <1>9

-----------------------------------------------------------------------------
(* What a step does to the locks an activity has. *)

\* A step within an operation concerns the lock of that operation only.
LEMMA OthersKept ==
    ASSUME NEW a \in Act, Running(a), a.ops # <<>>, NEW b \in Act, b.ops = a.ops,
           \/ a.step \in AcquireSteps /\ b.step \in AcquireSteps
           \/ a.step \in ReleaseSteps /\ b.step \in ReleaseSteps
    PROVE  \A l : l # a.ops[1][2] => (Holds(b, l) <=> Holds(a, l))
<1> DEFINE n == Len(Order(a))
           k == Place(a)
<1>1. /\ Head(a.ops) = a.ops[1]
      /\ k < n => a.ops[1] = <<"acquire", Order(a)[k + 1]>>
      /\ n <= k => a.ops[1] = <<"release", Order(a)[(2 * n) - k]>>
      /\ n \in Nat /\ k \in 0 .. 2 * n
  BY HeadIs, RunningIs
<1> HIDE DEF n, k
<1>2. \E op, l0 : a.ops[1] = <<op, l0>>
  <2>1. k < n \/ n <= k
    BY <1>1
  <2> QED
    BY <1>1, <2>1
<1>3. PICK op, l0 : a.ops[1] = <<op, l0>>
  BY <1>2
<1>4. a.ops[1][2] = l0
  BY <1>3
<1> SUFFICES ASSUME NEW l, l # a.ops[1][2] PROVE Holds(b, l) <=> Holds(a, l)
  OBVIOUS
<1>5. \A x : Head(a.ops) # <<x, l>>
  BY <1>1, <1>3, <1>4
<1> QED
  BY <1>5 DEF Holds

\* The lock of the operation an activity is at is its own from the xchg of
\* acquire to the store of release.
LEMMA AtOperation ==
    ASSUME NEW a \in Act, Running(a), a.ops # <<>>
    PROVE  LET l == a.ops[1][2] IN
           /\ a.step \in {"own", "holding", "clear", "unlock"} => Holds(a, l)
           /\ a.step \in {"readeflags", "cli", "check", "xchg", "popcli"} => ~Holds(a, l)
<1> DEFINE s == Order(a)
           n == Len(s)
           k == Place(a)
           l == a.ops[1][2]
<1>1. /\ k < n => a.ops[1] = <<"acquire", s[k + 1]>> /\ k + 1 \in 1 .. n
      /\ n <= k => a.ops[1] = <<"release", s[(2 * n) - k]>> /\ (2 * n) - k \in 1 .. n
      /\ n \in Nat /\ k \in 0 .. 2 * n /\ k < 2 * n
  BY HeadIs, RunningIs
<1>2. /\ k < n <=> a.step \in AcquireSteps
      /\ n <= k /\ k < 2 * n <=> a.step \in ReleaseSteps
  BY RunningIs
<1>3. ASSUME k < n
      PROVE  Holds(a, l) <=> a.step = "own"
  <2>1. l = s[k + 1] /\ k + 1 \in 1 .. n
    BY <1>1, <1>3
  <2>2. Holds(a, l) <=> Has(a, k + 1)
    BY <2>1, HoldsIff
  <2>3. a.step # "popcli"
    BY <1>2, <1>3 DEF AcquireSteps
  <2>4. PICK j \in 1 .. n : j = k + 1
    BY <2>1
  <2>5. Has(a, j) <=> /\ k < (2 * n) - j \/ k = (2 * n) - j
                      /\ k >= j \/ (k = j - 1 /\ a.step = "own")
    BY <2>3 DEF Has
  <2> HIDE DEF s, n, k, l
  <2>6. (k < (2 * n) - j \/ k = (2 * n) - j) /\ ~(k >= j) /\ k = j - 1
    BY <1>1, <1>3, <2>4
  <2> QED
    BY <2>2, <2>4, <2>5, <2>6
<1>4. ASSUME n <= k
      PROVE  Holds(a, l) <=> a.step # "popcli"
  <2>1. l = s[(2 * n) - k] /\ (2 * n) - k \in 1 .. n
    BY <1>1, <1>4
  <2>2. Holds(a, l) <=> Has(a, (2 * n) - k)
    BY <2>1, HoldsIff
  <2>3. a.step # "own"
    BY <1>1, <1>2, <1>4 DEF ReleaseSteps
  <2>4. Has(a, (2 * n) - k) <=> /\ k < (2 * n) - ((2 * n) - k)
                                   \/ (k = (2 * n) - ((2 * n) - k) /\ a.step # "popcli")
                                /\ k >= (2 * n) - k
    BY <2>3 DEF Has
  <2> HIDE DEF s, n, k, l
  <2>5. ~(k < (2 * n) - ((2 * n) - k)) /\ k = (2 * n) - ((2 * n) - k) /\ k >= (2 * n) - k
    BY <1>1, <1>4
  <2> QED
    BY <2>2, <2>4, <2>5
<1>5. k < n \/ n <= k
  <2> HIDE DEF n, k
  <2> QED
    BY <1>1
<1> HIDE DEF n, k, l
<1> QED
  BY <1>1, <1>2, <1>3, <1>4, <1>5 DEF AcquireSteps, ReleaseSteps, l

\* An activity that has undone its pushes has no lock.
LEMMA NothingHeld ==
    ASSUME NEW a \in Act, Running(a), Pushed(a) = 0
    PROVE  (\A l : ~Holds(a, l)) /\ a.step \in {"readeflags", "cli", "end"}
<1> DEFINE n == Len(Order(a))
           k == Place(a)
<1>1. /\ n \in Nat /\ k \in 0 .. 2 * n
      /\ k < n <=> a.step \in AcquireSteps
      /\ k = 2 * n <=> a.step = "end"
  BY RunningIs
<1>2. IF k < n THEN k + (IF a.step \in {"check", "xchg", "own"} THEN 1 ELSE 0) = 0 ELSE (2 * n) - k = 0
  BY DEF Pushed
<1> HIDE DEF k, n
<1>3. \/ k = 0 /\ k < n /\ a.step \notin {"check", "xchg", "own"}
      \/ k = 2 * n
  BY <1>1, <1>2
<1>4. a.step \in {"readeflags", "cli", "end"}
  BY <1>1, <1>3 DEF AcquireSteps
<1>5. \A j \in 1 .. n : ~Has(a, j)
  <2> SUFFICES ASSUME NEW j \in 1 .. n, Has(a, j) PROVE FALSE
    OBVIOUS
  <2>1. /\ k < (2 * n) - j \/ k = (2 * n) - j
        /\ k >= j \/ a.step = "own"
    BY DEF Has, k, n
  <2>2. a.step # "own"
    BY <1>4
  <2> QED
    BY <1>1, <1>3, <2>1, <2>2
<1> QED
  BY <1>4, <1>5, HoldsOnly DEF n

-----------------------------------------------------------------------------
(* The word of a lock when processor c moves and the others do not. *)

\* A step that neither gives c the lock nor takes it away.
LEMMA WordSame ==
    ASSUME NEW f, NEW g, NEW c \in CPU, NEW l, NEW w \in Word, WordOf(w, f, l),
           \A d \in CPU \ {c} : g[d] = f[d],
           Owns(g[c], l) <=> Owns(f[c], l),
           ~AtStep(f[c], l, "own"), ~AtStep(f[c], l, "unlock"), ~AtStep(g[c], l, "unlock")
    PROVE  WordOf(w, g, l)
<1>1. \A d \in CPU : Owns(g[d], l) <=> Owns(f[d], l)
  OBVIOUS
<1>2. \A d \in CPU : AtStep(f[d], l, "own") \/ AtStep(f[d], l, "unlock")
                       => AtStep(g[d], l, "own") \/ AtStep(g[d], l, "unlock")
  OBVIOUS
<1>3. \A d \in CPU : AtStep(g[d], l, "unlock") => AtStep(f[d], l, "unlock")
  OBVIOUS
<1>4. w.cpu # 0 => Owns(g[w.cpu], l)
  <2> SUFFICES ASSUME w.cpu # 0 PROVE Owns(g[w.cpu], l)
    OBVIOUS
  <2>1. Owns(f[w.cpu], l)
    BY DEF WordOf
  <2>2. w.cpu \in CPU
    BY DEF Word
  <2> QED
    BY <1>1, <2>1, <2>2
<1> QED
  BY <1>1, <1>2, <1>3, <1>4 DEF WordOf

\* xchg found the lock free.
LEMMA WordTaken ==
    ASSUME NEW f, NEW g, NEW c \in CPU, NEW l, NEW w \in Word, WordOf(w, f, l), w.locked = FALSE,
           \A d \in CPU \ {c} : g[d] = f[d],
           Owns(g[c], l), AtStep(g[c], l, "own"), ~AtStep(g[c], l, "unlock"),
           NEW v \in Word, v.locked = TRUE, v.cpu = w.cpu
    PROVE  WordOf(v, g, l)
<1>1. \A d \in CPU : ~Owns(f[d], l)
  BY DEF WordOf
<1>2. w.cpu = 0
  <2>1. w.cpu # 0 => w.cpu \in CPU /\ Owns(f[w.cpu], l)
    BY DEF WordOf, Word
  <2> QED
    BY <1>1, <2>1
<1>3. \A d \in CPU : Owns(g[d], l) <=> d = c
  BY <1>1
<1> QED
  BY <1>2, <1>3 DEF WordOf

\* acquire has written the processor.
LEMMA WordOwned ==
    ASSUME NEW f, NEW g, NEW c \in CPU, NEW l, NEW w \in Word, WordOf(w, f, l),
           \A d \in CPU \ {c} : g[d] = f[d],
           Owns(f[c], l), Owns(g[c], l), ~AtStep(g[c], l, "unlock"),
           \A d \in CPU : AtStep(f[d], l, "unlock") => Owns(f[d], l),
           NEW v \in Word, v.locked = w.locked, v.cpu = c
    PROVE  WordOf(v, g, l)
<1>1. \A d \in CPU : Owns(f[d], l) <=> d = c
  BY DEF WordOf
<1>2. \A d \in CPU : Owns(g[d], l) <=> d = c
  BY <1>1
<1>3. w.locked
  BY <1>1 DEF WordOf
<1>4. \A d \in CPU : ~AtStep(g[d], l, "unlock")
  BY <1>1
<1> QED
  BY <1>2, <1>3, <1>4 DEF WordOf

\* release has cleared the processor.
LEMMA WordCleared ==
    ASSUME NEW f, NEW g, NEW c \in CPU, NEW l, NEW w \in Word, WordOf(w, f, l),
           \A d \in CPU \ {c} : g[d] = f[d],
           Owns(f[c], l), Owns(g[c], l), AtStep(g[c], l, "unlock"),
           NEW v \in Word, v.locked = w.locked, v.cpu = 0
    PROVE  WordOf(v, g, l)
<1>1. \A d \in CPU : Owns(f[d], l) <=> d = c
  BY DEF WordOf
<1>2. \A d \in CPU : Owns(g[d], l) <=> d = c
  BY <1>1
<1>3. w.locked
  BY <1>1 DEF WordOf
<1> QED
  BY <1>2, <1>3 DEF WordOf

\* release has given the lock back.
LEMMA WordFreed ==
    ASSUME NEW f, NEW g, NEW c \in CPU, NEW l, NEW w \in Word, WordOf(w, f, l),
           \A d \in CPU \ {c} : g[d] = f[d],
           Owns(f[c], l), ~Owns(g[c], l), AtStep(f[c], l, "unlock"), ~AtStep(g[c], l, "unlock"),
           NEW v \in Word, v.locked = FALSE, v.cpu = w.cpu
    PROVE  WordOf(v, g, l)
<1>1. \A d \in CPU : Owns(f[d], l) <=> d = c
  BY DEF WordOf
<1>2. \A d \in CPU : ~Owns(g[d], l)
  BY <1>1
<1>3. w.cpu = 0
  BY DEF WordOf
<1> QED
  BY <1>2, <1>3 DEF WordOf

-----------------------------------------------------------------------------
(* The steps keep the invariant. *)

\* A step that leaves one processor matched and every word true to its lock.
LEMMA Assembled ==
    ASSUME SpinInv, NEW c \in CPU, NEW q \in Processor, Matched(q), cpu' = [cpu EXCEPT ![c] = q],
           rounds' \in [CPU -> Nat], spanic' = "", lk' \in [Locks -> Word],
           \A l \in Locks : WordOf(lk'[l], cpu', l)
    PROVE  SpinInv'
<1>1. cpu \in [CPU -> Processor] /\ \A d \in CPU : Matched(cpu[d])
  BY Zenon DEF SpinInv, SpinTypes
<1>2. cpu' \in [CPU -> Processor] /\ \A d \in CPU : Matched(cpu'[d])
  BY Zenon, <1>1
<1> QED
  BY Zenon, <1>2 DEF SpinInv, SpinTypes, Words

\* Steps that give and take no lock.
LEMMA QuietKeeps ==
    ASSUME SpinInv, NEW c \in CPU, NEW q \in Processor, Matched(q), cpu' = [cpu EXCEPT ![c] = q],
           lk' = lk, rounds' \in [CPU -> Nat], spanic' = "",
           \A l : Owns(q, l) <=> Owns(cpu[c], l),
           \A l : ~AtStep(cpu[c], l, "own") /\ ~AtStep(cpu[c], l, "unlock") /\ ~AtStep(q, l, "unlock")
    PROVE  SpinInv'
<1>1. cpu \in [CPU -> Processor] /\ lk \in [Locks -> Word] /\ \A l \in Locks : WordOf(lk[l], cpu, l)
  BY Zenon DEF SpinInv, SpinTypes, Words
<1>2. cpu'[c] = q /\ \A d \in CPU \ {c} : cpu'[d] = cpu[d]
  BY Zenon, <1>1
<1>3. ASSUME NEW l \in Locks PROVE WordOf(lk'[l], cpu', l)
  <2>1. lk[l] \in Word /\ WordOf(lk[l], cpu, l) /\ lk'[l] = lk[l]
    BY Zenon, <1>1
  <2>2. WordOf(lk[l], cpu', l)
    <3>1. /\ Owns(cpu'[c], l) <=> Owns(cpu[c], l)
          /\ ~AtStep(cpu[c], l, "own") /\ ~AtStep(cpu[c], l, "unlock") /\ ~AtStep(cpu'[c], l, "unlock")
      BY Zenon, <1>2
    <3> QED
      BY Zenon, <1>2, <2>1, <3>1, WordSame
  <2> QED
    BY Zenon, <2>1, <2>2
<1>4. lk' \in [Locks -> Word]
  BY Zenon, <1>1
<1> QED
  BY Zenon, <1>3, <1>4, Assembled

\* The processor a step is about.
LEMMA Acting ==
    ASSUME SpinInv, NEW c \in CPU, cpu[c].stack # <<>>
    PROVE  LET p == cpu[c] a == p.stack[1] IN
           /\ p \in Processor /\ Matched(p) /\ Current(c) = a /\ a \in Act /\ Running(a)
           /\ a.step # "end" => a.ops # <<>> /\ Head(a.ops) = a.ops[1] /\ a.ops[1][2] \in Locks
           /\ \A l : Owns(p, l) <=> Holds(a, l)
           /\ \A l, step : AtStep(p, l, step) <=> a.ops # <<>> /\ a.ops[1][2] = l /\ a.step = step
<1>1. cpu[c] \in Processor /\ Matched(cpu[c])
  BY Zenon DEF SpinInv, SpinTypes
<1> DEFINE a == cpu[c].stack[1]
<1>2. Head(cpu[c].stack) = a /\ a \in Act /\ Running(a)
  BY <1>1, TopIs
<1>3. a.step # "end" => a.ops # <<>>
  BY <1>2, RunningIs
<1>4. a.ops # <<>> => Head(a.ops) = a.ops[1] /\ a.ops[1][2] \in Locks
  BY <1>2, HeadIs
<1> QED
  BY <1>1, <1>2, <1>3, <1>4 DEF Current, Owns, AtStep

\* A step within an operation that gives and takes no lock.
LEMMA QuietStep ==
    ASSUME SpinInv, NEW c \in CPU, cpu[c].stack # <<>>,
           NEW b \in Act, b.ops = cpu[c].stack[1].ops, Running(b),
           \/ {cpu[c].stack[1].step, b.step} \subseteq AcquireSteps \ {"own"}
           \/ {cpu[c].stack[1].step, b.step} \subseteq {"holding", "clear"},
           b.handler = cpu[c].stack[1].handler,
           NEW q \in Processor, Matched(q), q.stack # <<>>, q.stack[1] = b, cpu' = [cpu EXCEPT ![c] = q],
           lk' = lk, rounds' = rounds, spanic' = ""
    PROVE  SpinInv'
<1> DEFINE a == cpu[c].stack[1]
<1>1. /\ a \in Act /\ Running(a)
      /\ \A l : Owns(cpu[c], l) <=> Holds(a, l)
      /\ \A l, step : AtStep(cpu[c], l, step) <=> a.ops # <<>> /\ a.ops[1][2] = l /\ a.step = step
  BY Zenon, Acting
<1>2. /\ a.step \notin {"own", "unlock", "popcli"} /\ b.step \notin {"own", "unlock", "popcli"}
      /\ \/ a.step \in AcquireSteps /\ b.step \in AcquireSteps
         \/ a.step \in ReleaseSteps /\ b.step \in ReleaseSteps
  BY Zenon DEF AcquireSteps, ReleaseSteps
<1>3. \A l : Holds(b, l) <=> Holds(a, l)
  <2>1. a.step # "own" /\ a.step # "popcli" /\ b.step # "own" /\ b.step # "popcli"
    BY Zenon, <1>2
  <2>2. b.ops = a.ops
    BY Zenon
  <2> HIDE DEF a
  <2> QED
    BY Zenon, <2>1, <2>2 DEF Holds
<1>4. \A l : Owns(q, l) <=> Owns(cpu[c], l)
  BY Zenon, <1>1, <1>3 DEF Owns
<1>5. \A l : ~AtStep(cpu[c], l, "own") /\ ~AtStep(cpu[c], l, "unlock") /\ ~AtStep(q, l, "unlock")
  BY Zenon, <1>1, <1>2 DEF AtStep
<1>6. rounds' \in [CPU -> Nat]
  BY Zenon DEF SpinInv, SpinTypes
<1> QED
  BY Zenon, <1>4, <1>5, <1>6, QuietKeeps

\* pushcli reads eflags.
LEMMA readeflagsKeeps ==
    ASSUME SpinInv, NEW c \in CPU, readeflags(c)
    PROVE  SpinInv'
<1> DEFINE p == cpu[c]
           a == p.stack[1]
           b == [[a EXCEPT !.step = "cli"] EXCEPT !.eflags = p.FL_IF]
           q == [p EXCEPT !.stack = [p.stack EXCEPT ![1] = b]]
<1>1. p.stack # <<>> /\ Current(c).step = "readeflags" /\ spanic = ""
  BY Zenon DEF readeflags, Does
<1>2. p \in Processor /\ Matched(p) /\ Current(c) = a /\ a \in Act /\ Running(a)
  BY Zenon, <1>1, Acting
<1>3. a.step = "readeflags"
  BY Zenon, <1>1, <1>2
<1>4. cpu' = [cpu EXCEPT ![c] = q] /\ lk' = lk /\ rounds' = rounds /\ spanic' = ""
  BY Zenon, <1>1, <1>2 DEF readeflags, With, At
<1>5. b \in Act /\ b.ops = a.ops /\ b.handler = a.handler /\ b.step = "cli" /\ b.eflags = p.FL_IF
  BY <1>2 DEF Act, Processor, AcquireSteps
<1> HIDE DEF b
<1>6. q \in Processor /\ Matched(q) /\ q.stack # <<>> /\ q.stack[1] = b /\ Running(b)
  BY Zenon, <1>1, <1>2, <1>3, <1>5, StepOnly
<1> HIDE DEF q
<1>7. {a.step, b.step} \subseteq AcquireSteps \ {"own"}
  BY <1>3, <1>5 DEF AcquireSteps
<1> QED
  BY Zenon, <1>1, <1>4, <1>5, <1>6, <1>7, QuietStep

\* pushcli turns interrupts off and counts.
LEMMA pushcliKeeps ==
    ASSUME SpinInv, NEW c \in CPU, pushcli(c)
    PROVE  SpinInv'
<1> DEFINE p == cpu[c]
           a == p.stack[1]
           b == [a EXCEPT !.step = "check"]
           r == [p EXCEPT !.stack = [p.stack EXCEPT ![1] = b]]
           z == IF p.ncli = 0 THEN a.eflags ELSE p.intena
           q == [r EXCEPT !.FL_IF = FALSE, !.ncli = p.ncli + 1, !.intena = z]
<1>1. p.stack # <<>> /\ Current(c).step = "cli" /\ spanic = ""
  BY Zenon DEF pushcli, Does
<1>2. p \in Processor /\ Matched(p) /\ Current(c) = a /\ a \in Act /\ Running(a)
  BY Zenon, <1>1, Acting
<1>3. a.step = "cli"
  BY Zenon, <1>1, <1>2
<1>4. r.ncli = p.ncli /\ r.intena = p.intena
  BY <1>2 DEF Processor
<1>5. cpu' = [cpu EXCEPT ![c] = q] /\ lk' = lk /\ rounds' = rounds /\ spanic' = ""
  BY Zenon, <1>1, <1>2, <1>4 DEF pushcli, With, At
<1>6. b \in Act /\ b.ops = a.ops /\ b.handler = a.handler /\ b.step = "check"
  BY <1>2 DEF Act, AcquireSteps
<1>7. z \in BOOLEAN /\ p.ncli + 1 \in Nat
  BY <1>2 DEF Act, Processor
<1> HIDE DEF b
<1>8. /\ r \in Processor
      /\ Len(r.stack) = Len(p.stack) /\ r.stack[1] = b /\ (Len(p.stack) = 2 => r.stack[2] = p.stack[2])
  BY Zenon, <1>1, <1>2, <1>6, NewTop
<1> HIDE DEF r, z
<1>9. q \in Processor /\ q.FL_IF = FALSE /\ q.ncli = p.ncli + 1 /\ q.intena = z /\ q.stack = r.stack
  <2>1. FALSE \in BOOLEAN /\ r \in Processor
    BY <1>8
  <2> QED
    BY <1>7, <2>1 DEF Processor
<1>10. q.intena = IF p.ncli = 0 THEN p.stack[1].eflags ELSE p.intena
  BY <1>9 DEF z
<1> HIDE DEF q
<1>11. Len(q.stack) = Len(p.stack) /\ q.stack[1] = b /\ (Len(p.stack) = 2 => q.stack[2] = p.stack[2])
  BY <1>8, <1>9
<1>12. Matched(q) /\ q.stack # <<>> /\ Running(b)
  BY Zenon, <1>1, <1>2, <1>3, <1>6, <1>9, <1>10, <1>11, StepPush
<1>13. {a.step, b.step} \subseteq AcquireSteps \ {"own"}
  BY <1>3, <1>6 DEF AcquireSteps
<1> QED
  BY Zenon, <1>1, <1>5, <1>6, <1>9, <1>11, <1>12, <1>13, QuietStep

\* acquire finds that it does not hold the lock.
LEMMA acquireCheckKeeps ==
    ASSUME SpinInv, NEW c \in CPU, acquireCheck(c)
    PROVE  SpinInv'
<1> DEFINE p == cpu[c]
           a == p.stack[1]
           b == [a EXCEPT !.step = "xchg"]
           q == [p EXCEPT !.stack = [p.stack EXCEPT ![1] = b]]
<1>1. p.stack # <<>> /\ Current(c).step = "check" /\ spanic = ""
  BY Zenon DEF acquireCheck, Does
<1>2. /\ p \in Processor /\ Matched(p) /\ Current(c) = a /\ a \in Act /\ Running(a)
      /\ a.step # "end" => a.ops # <<>> /\ Head(a.ops) = a.ops[1] /\ a.ops[1][2] \in Locks
      /\ \A l : Owns(p, l) <=> Holds(a, l)
      /\ \A l, step : AtStep(p, l, step) <=> a.ops # <<>> /\ a.ops[1][2] = l /\ a.step = step
  BY Zenon, <1>1, Acting
<1>3. a.step = "check" /\ a.ops # <<>> /\ LockOf(c) = a.ops[1][2] /\ a.ops[1][2] \in Locks
  BY Zenon, <1>1, <1>2 DEF LockOf
<1>4. b \in Act /\ b.ops = a.ops /\ b.handler = a.handler /\ b.step = "xchg"
  BY <1>2 DEF Act, AcquireSteps, ReleaseSteps
<1>5. spanic' = ""
  <2>1. ~holding(c, LockOf(c))
    <3> SUFFICES ASSUME holding(c, LockOf(c)) PROVE FALSE
      OBVIOUS
    <3>1. lk[LockOf(c)].cpu = c /\ c # 0
      BY SpinlockAssumption DEF holding
    <3>2. Owns(p, LockOf(c))
      BY Zenon, <1>3, <3>1 DEF SpinInv, Words, WordOf
    <3>3. ~Holds(a, a.ops[1][2])
      BY <1>2, <1>3, AtOperation
    <3> QED
      BY <1>2, <1>3, <3>2, <3>3
  <2> QED
    BY Zenon, <2>1 DEF acquireCheck
<1>6. cpu' = [cpu EXCEPT ![c] = q] /\ lk' = lk /\ rounds' = rounds
  BY Zenon, <1>2 DEF acquireCheck, GoTo, With, At
<1> HIDE DEF b
<1>7. q \in Processor /\ Matched(q) /\ q.stack # <<>> /\ q.stack[1] = b /\ Running(b)
  BY Zenon, <1>1, <1>2, <1>3, <1>4, StepOnly
<1> HIDE DEF q
<1>8. {a.step, b.step} \subseteq AcquireSteps \ {"own"}
  BY <1>3, <1>4 DEF AcquireSteps
<1> QED
  BY Zenon, <1>1, <1>4, <1>5, <1>6, <1>7, <1>8, QuietStep

\* release finds that it holds the lock.
LEMMA releaseCheckKeeps ==
    ASSUME SpinInv, NEW c \in CPU, releaseCheck(c)
    PROVE  SpinInv'
<1> DEFINE p == cpu[c]
           a == p.stack[1]
           b == [a EXCEPT !.step = "clear"]
           q == [p EXCEPT !.stack = [p.stack EXCEPT ![1] = b]]
<1>1. p.stack # <<>> /\ Current(c).step = "holding" /\ spanic = ""
  BY Zenon DEF releaseCheck, Does
<1>2. /\ p \in Processor /\ Matched(p) /\ Current(c) = a /\ a \in Act /\ Running(a)
      /\ a.step # "end" => a.ops # <<>> /\ Head(a.ops) = a.ops[1] /\ a.ops[1][2] \in Locks
      /\ \A l : Owns(p, l) <=> Holds(a, l)
      /\ \A l, step : AtStep(p, l, step) <=> a.ops # <<>> /\ a.ops[1][2] = l /\ a.step = step
  BY Zenon, <1>1, Acting
<1>3. a.step = "holding" /\ a.ops # <<>> /\ LockOf(c) = a.ops[1][2] /\ a.ops[1][2] \in Locks
  BY Zenon, <1>1, <1>2 DEF LockOf
<1>4. b \in Act /\ b.ops = a.ops /\ b.handler = a.handler /\ b.step = "clear"
  BY <1>2 DEF Act, AcquireSteps, ReleaseSteps
<1>5. spanic' = ""
  <2>1. Holds(a, a.ops[1][2])
    BY <1>2, <1>3, AtOperation
  <2>2. Owns(p, LockOf(c))
    BY <1>2, <1>3, <2>1
  <2>3. ~AtStep(p, LockOf(c), "own") /\ ~AtStep(p, LockOf(c), "unlock")
    BY <1>2, <1>3
  <2>4. holding(c, LockOf(c))
    BY Zenon, <1>3, <2>2, <2>3 DEF SpinInv, Words, WordOf, holding
  <2> QED
    BY Zenon, <2>4 DEF releaseCheck
<1>6. cpu' = [cpu EXCEPT ![c] = q] /\ lk' = lk /\ rounds' = rounds
  BY Zenon, <1>2 DEF releaseCheck, GoTo, With, At
<1> HIDE DEF b
<1>7. q \in Processor /\ Matched(q) /\ q.stack # <<>> /\ q.stack[1] = b /\ Running(b)
  BY Zenon, <1>1, <1>2, <1>3, <1>4, StepOnly DEF ReleaseSteps
<1> HIDE DEF q
<1>8. {a.step, b.step} \subseteq {"holding", "clear"}
  BY <1>3, <1>4
<1> QED
  BY Zenon, <1>1, <1>4, <1>5, <1>6, <1>7, <1>8, QuietStep

\* A step that changes the word of the lock l its operation is on.
LEMMA WordStep ==
    ASSUME SpinInv, NEW c \in CPU, NEW l \in Locks,
           NEW q \in Processor, Matched(q), cpu' = [cpu EXCEPT ![c] = q],
           NEW v \in Word, lk' = [lk EXCEPT ![l] = v], rounds' = rounds, spanic' = "",
           \A mm : mm # l => /\ Owns(q, mm) <=> Owns(cpu[c], mm)
                          /\ ~AtStep(cpu[c], mm, "own") /\ ~AtStep(cpu[c], mm, "unlock")
                             /\ ~AtStep(q, mm, "unlock"),
           WordOf(v, cpu', l)
    PROVE  SpinInv'
<1>1. cpu \in [CPU -> Processor] /\ lk \in [Locks -> Word] /\ \A mm \in Locks : WordOf(lk[mm], cpu, mm)
  BY Zenon DEF SpinInv, SpinTypes, Words
<1>2. cpu'[c] = q /\ \A d \in CPU \ {c} : cpu'[d] = cpu[d]
  BY Zenon, <1>1
<1>3. ASSUME NEW mm \in Locks PROVE WordOf(lk'[mm], cpu', mm)
  <2>1. CASE mm = l
    <3>1. lk'[mm] = v
      BY Zenon, <1>1, <2>1
    <3> QED
      BY Zenon, <2>1, <3>1
  <2>2. CASE mm # l
    <3>1. lk[mm] \in Word /\ WordOf(lk[mm], cpu, mm) /\ lk'[mm] = lk[mm]
      BY Zenon, <1>1, <2>2
    <3>2. /\ Owns(cpu'[c], mm) <=> Owns(cpu[c], mm)
          /\ ~AtStep(cpu[c], mm, "own") /\ ~AtStep(cpu[c], mm, "unlock") /\ ~AtStep(cpu'[c], mm, "unlock")
      BY Zenon, <1>2, <2>2
    <3>3. WordOf(lk[mm], cpu', mm)
      BY Zenon, <1>2, <3>1, <3>2, WordSame
    <3> QED
      BY Zenon, <3>1, <3>3
  <2> QED
    BY Zenon, <2>1, <2>2
<1>4. lk' \in [Locks -> Word] /\ rounds' \in [CPU -> Nat]
  BY Zenon, <1>1 DEF SpinInv, SpinTypes
<1> QED
  BY Zenon, <1>3, <1>4, Assembled

\* xchg takes a free lock, and spins on a taken one.
LEMMA xchgKeeps ==
    ASSUME SpinInv, NEW c \in CPU, xchg(c)
    PROVE  SpinInv'
<1> DEFINE p == cpu[c]
           a == p.stack[1]
           l == a.ops[1][2]
           b == [a EXCEPT !.step = "own"]
           q == [p EXCEPT !.stack = [p.stack EXCEPT ![1] = b]]
<1>1. p.stack # <<>> /\ Current(c).step = "xchg" /\ spanic = ""
  BY Zenon DEF xchg, Does
<1>2. /\ p \in Processor /\ Matched(p) /\ Current(c) = a /\ a \in Act /\ Running(a)
      /\ a.step # "end" => a.ops # <<>> /\ Head(a.ops) = a.ops[1] /\ a.ops[1][2] \in Locks
      /\ \A mm : Owns(p, mm) <=> Holds(a, mm)
      /\ \A mm, step : AtStep(p, mm, step) <=> a.ops # <<>> /\ a.ops[1][2] = mm /\ a.step = step
  BY Zenon, <1>1, Acting
<1>3. a.step = "xchg" /\ a.ops # <<>> /\ LockOf(c) = l /\ l \in Locks
  BY Zenon, <1>1, <1>2 DEF LockOf
<1>4. b \in Act /\ b.ops = a.ops /\ b.handler = a.handler /\ b.step = "own"
  BY <1>2 DEF Act, AcquireSteps, ReleaseSteps
<1>5. lk \in [Locks -> Word] /\ cpu \in [CPU -> Processor] /\ lk[l] \in Word /\ WordOf(lk[l], cpu, l)
  BY Zenon, <1>3 DEF SpinInv, SpinTypes, Words
<1> DEFINE v == [lk[l] EXCEPT !.locked = TRUE]
<1>6. /\ cpu' = [cpu EXCEPT ![c] = q] /\ lk' = [lk EXCEPT ![l] = v] /\ rounds' = rounds /\ spanic' = ""
      /\ ~lk[l].locked
  BY Zenon, <1>1, <1>2, <1>3, <1>5 DEF xchg, GoTo, With, At
<1>7. v \in Word /\ v.locked = TRUE /\ v.cpu = lk[l].cpu
  BY Zenon, <1>5 DEF Word
<1> HIDE DEF b, v
<1>8. q \in Processor /\ Matched(q) /\ q.stack # <<>> /\ q.stack[1] = b /\ Running(b)
  BY Zenon, <1>1, <1>2, <1>3, <1>4, StepOnly
<1> HIDE DEF q
<1>9. cpu'[c] = q /\ \A d \in CPU \ {c} : cpu'[d] = cpu[d]
  BY Zenon, <1>5, <1>6
<1>10. a.step \in AcquireSteps /\ b.step \in AcquireSteps
  BY <1>3, <1>4 DEF AcquireSteps
<1>11. \A mm : mm # l => (Owns(q, mm) <=> Owns(p, mm))
  <2>1. \A mm : mm # l => (Holds(b, mm) <=> Holds(a, mm))
    BY <1>2, <1>3, <1>4, <1>10, OthersKept
  <2> QED
    BY <1>2, <1>8, <2>1 DEF Owns
<1>12. Owns(q, l) /\ AtStep(q, l, "own") /\ \A mm : ~AtStep(q, mm, "unlock")
  <2>1. Holds(b, l)
    BY <1>3, <1>4, <1>8, AtOperation
  <2> QED
    BY <1>3, <1>4, <1>8, <2>1 DEF Owns, AtStep
<1>13. \A mm : mm # l => ~AtStep(p, mm, "own") /\ ~AtStep(p, mm, "unlock")
  BY <1>2
<1>14. WordOf(v, cpu', l)
  <2>1. Owns(cpu'[c], l) /\ AtStep(cpu'[c], l, "own") /\ ~AtStep(cpu'[c], l, "unlock")
    BY <1>9, <1>12
  <2>2. lk[l] \in Word /\ v \in Word /\ WordOf(lk[l], cpu, l)
    BY Zenon, <1>5, <1>7
  <2>3. v.locked = TRUE /\ v.cpu = lk[l].cpu /\ ~lk[l].locked
    BY Zenon, <1>6, <1>7
  <2>5. lk[l].locked \in BOOLEAN
    BY Zenon, <2>2 DEF Word
  <2>6. lk[l].locked = FALSE
    BY <2>3, <2>5
  <2>4. \A d \in CPU \ {c} : cpu'[d] = cpu[d]
    BY <1>9
  <2> HIDE DEF l, p, a
  <2> QED
    BY <2>1, <2>2, <2>3, <2>4, <2>6, WordTaken
<1> HIDE DEF l, p, a
<1> QED
  BY Zenon, <1>3, <1>6, <1>7, <1>8, <1>11, <1>12, <1>13, <1>14, WordStep DEF p

\* At the store that gives a lock back, a processor still has it.
LEMMA UnlockOwns ==
    ASSUME SpinInv
    PROVE  \A d \in CPU : \A l : AtStep(cpu[d], l, "unlock") => Owns(cpu[d], l)
<1> SUFFICES ASSUME NEW d \in CPU, NEW l, AtStep(cpu[d], l, "unlock") PROVE Owns(cpu[d], l)
  OBVIOUS
<1> DEFINE a == cpu[d].stack[1]
<1>1. cpu[d].stack # <<>>
  BY DEF AtStep
<1>2. /\ a \in Act /\ Running(a)
      /\ \A mm : Owns(cpu[d], mm) <=> Holds(a, mm)
      /\ \A mm, step : AtStep(cpu[d], mm, step) <=> a.ops # <<>> /\ a.ops[1][2] = mm /\ a.step = step
  BY <1>1, Acting
<1>3. a.ops # <<>> /\ a.ops[1][2] = l /\ a.step = "unlock"
  BY <1>2
<1>4. Holds(a, l)
  BY <1>2, <1>3, AtOperation
<1> QED
  BY <1>2, <1>4

\* acquire records the processor.
LEMMA acquiredKeeps ==
    ASSUME SpinInv, NEW c \in CPU, acquired(c)
    PROVE  SpinInv'
<1> DEFINE p == cpu[c]
           a == p.stack[1]
           l == a.ops[1][2]
           b == [a EXCEPT !.ops = Tail(a.ops), !.step = FirstStep(Tail(a.ops))]
           q == [p EXCEPT !.stack = [p.stack EXCEPT ![1] = b]]
<1>1. p.stack # <<>> /\ Current(c).step = "own" /\ spanic = ""
  BY Zenon DEF acquired, Does
<1>2. /\ p \in Processor /\ Matched(p) /\ Current(c) = a /\ a \in Act /\ Running(a)
      /\ a.step # "end" => a.ops # <<>> /\ Head(a.ops) = a.ops[1] /\ a.ops[1][2] \in Locks
      /\ \A mm : Owns(p, mm) <=> Holds(a, mm)
      /\ \A mm, step : AtStep(p, mm, step) <=> a.ops # <<>> /\ a.ops[1][2] = mm /\ a.step = step
  BY Zenon, <1>1, Acting
<1>3. a.step = "own" /\ a.ops # <<>> /\ LockOf(c) = l /\ l \in Locks
  BY Zenon, <1>1, <1>2 DEF LockOf
<1>4. /\ b \in Act /\ Running(b) /\ b.handler = a.handler
      /\ b.step \in {"readeflags", "holding", "end"}
      /\ Place(b) = Place(a) + 1 /\ Order(b) = Order(a)
      /\ \A mm : Holds(b, mm) <=> Holds(a, mm)
  BY Zenon, <1>2, <1>3, StepNext
<1>5. lk \in [Locks -> Word] /\ cpu \in [CPU -> Processor] /\ lk[l] \in Word /\ WordOf(lk[l], cpu, l)
  BY Zenon, <1>3 DEF SpinInv, SpinTypes, Words
<1> DEFINE v == [lk[l] EXCEPT !.cpu = c]
<1>6. cpu' = [cpu EXCEPT ![c] = q] /\ lk' = [lk EXCEPT ![l] = v] /\ rounds' = rounds /\ spanic' = ""
  BY Zenon, <1>1, <1>2, <1>3, <1>5 DEF acquired, NextOp, With
<1>7. v \in Word /\ v.locked = lk[l].locked /\ v.cpu = c
  BY Zenon, <1>5 DEF Word
<1>8. q \in Processor /\ Matched(q) /\ q.stack # <<>> /\ q.stack[1] = b
  BY Zenon, <1>1, <1>2, <1>3, StepOwn
<1> HIDE DEF b, v, q
<1>9. cpu'[c] = q /\ \A d \in CPU \ {c} : cpu'[d] = cpu[d]
  BY Zenon, <1>5, <1>6
<1>11. \A mm : Owns(q, mm) <=> Owns(p, mm)
  BY <1>2, <1>4, <1>8 DEF Owns
<1>12. Owns(p, l) /\ \A mm : ~AtStep(q, mm, "unlock")
  <2>1. Holds(a, l)
    BY <1>2, <1>3, AtOperation
  <2> QED
    BY <1>2, <1>4, <1>8, <2>1 DEF AtStep
<1>13. \A mm : mm # l => ~AtStep(p, mm, "own") /\ ~AtStep(p, mm, "unlock")
  BY <1>2
<1>14. WordOf(v, cpu', l)
  <2>1. \A d \in CPU : AtStep(cpu[d], l, "unlock") => Owns(cpu[d], l)
    BY UnlockOwns
  <2>2. Owns(cpu[c], l) /\ Owns(cpu'[c], l) /\ ~AtStep(cpu'[c], l, "unlock")
    BY <1>9, <1>11, <1>12
  <2> QED
    BY Zenon, <1>5, <1>7, <1>9, <2>1, <2>2, WordOwned
<1> HIDE DEF l, p, a
<1> QED
  BY Zenon, <1>3, <1>6, <1>7, <1>8, <1>11, <1>12, <1>13, <1>14, WordStep DEF p

\* release clears the processor.
LEMMA releaseClearKeeps ==
    ASSUME SpinInv, NEW c \in CPU, releaseClear(c)
    PROVE  SpinInv'
<1> DEFINE p == cpu[c]
           a == p.stack[1]
           l == a.ops[1][2]
           b == [a EXCEPT !.step = "unlock"]
           q == [p EXCEPT !.stack = [p.stack EXCEPT ![1] = b]]
<1>1. p.stack # <<>> /\ Current(c).step = "clear" /\ spanic = ""
  BY Zenon DEF releaseClear, Does
<1>2. /\ p \in Processor /\ Matched(p) /\ Current(c) = a /\ a \in Act /\ Running(a)
      /\ a.step # "end" => a.ops # <<>> /\ Head(a.ops) = a.ops[1] /\ a.ops[1][2] \in Locks
      /\ \A mm : Owns(p, mm) <=> Holds(a, mm)
      /\ \A mm, step : AtStep(p, mm, step) <=> a.ops # <<>> /\ a.ops[1][2] = mm /\ a.step = step
  BY Zenon, <1>1, Acting
<1>3. a.step = "clear" /\ a.ops # <<>> /\ LockOf(c) = l /\ l \in Locks
  BY Zenon, <1>1, <1>2 DEF LockOf
<1>4. b \in Act /\ b.ops = a.ops /\ b.handler = a.handler /\ b.step = "unlock"
  BY <1>2 DEF Act, AcquireSteps, ReleaseSteps
<1>5. lk \in [Locks -> Word] /\ cpu \in [CPU -> Processor] /\ lk[l] \in Word /\ WordOf(lk[l], cpu, l)
  BY Zenon, <1>3 DEF SpinInv, SpinTypes, Words
<1> DEFINE v == [lk[l] EXCEPT !.cpu = 0]
<1>6. cpu' = [cpu EXCEPT ![c] = q] /\ lk' = [lk EXCEPT ![l] = v] /\ rounds' = rounds /\ spanic' = ""
  BY Zenon, <1>1, <1>2, <1>3, <1>5 DEF releaseClear, GoTo, With, At
<1>7. v \in Word /\ v.locked = lk[l].locked /\ v.cpu = 0
  BY Zenon, <1>5 DEF Word
<1>10. a.step \in ReleaseSteps /\ b.step \in ReleaseSteps
  BY <1>3, <1>4 DEF ReleaseSteps
<1> HIDE DEF b, v
<1>8. q \in Processor /\ Matched(q) /\ q.stack # <<>> /\ q.stack[1] = b /\ Running(b)
  BY ZenonT(60), <1>1, <1>2, <1>4, <1>10, StepOnly
<1> HIDE DEF q
<1>9. cpu'[c] = q /\ \A d \in CPU \ {c} : cpu'[d] = cpu[d]
  BY Zenon, <1>5, <1>6
<1>11. \A mm : mm # l => (Owns(q, mm) <=> Owns(p, mm))
  <2>1. \A mm : mm # l => (Holds(b, mm) <=> Holds(a, mm))
    BY <1>2, <1>3, <1>4, <1>10, OthersKept
  <2> QED
    BY <1>2, <1>8, <2>1 DEF Owns
<1>12. Owns(p, l) /\ Owns(q, l) /\ AtStep(q, l, "unlock")
  <2>1. Holds(b, l) /\ Holds(a, l)
    BY <1>2, <1>3, <1>4, <1>8, AtOperation
  <2> QED
    BY <1>2, <1>3, <1>4, <1>8, <2>1 DEF Owns, AtStep
<1>13. \A mm : mm # l => ~AtStep(p, mm, "own") /\ ~AtStep(p, mm, "unlock") /\ ~AtStep(q, mm, "unlock")
  BY <1>2, <1>4, <1>8 DEF AtStep
<1>14. WordOf(v, cpu', l)
  <2>1. Owns(cpu[c], l) /\ Owns(cpu'[c], l) /\ AtStep(cpu'[c], l, "unlock")
    BY <1>9, <1>12
  <2>2. lk[l] \in Word /\ v \in Word /\ WordOf(lk[l], cpu, l)
    BY Zenon, <1>5, <1>7
  <2>3. v.locked = lk[l].locked /\ v.cpu = 0
    BY Zenon, <1>6, <1>7
  <2>4. \A d \in CPU \ {c} : cpu'[d] = cpu[d]
    BY <1>9
  <2> HIDE DEF l, p, a
  <2> QED
    BY <2>1, <2>2, <2>3, <2>4, WordCleared
<1> HIDE DEF l, p, a
<1> QED
  BY Zenon, <1>3, <1>6, <1>7, <1>8, <1>11, <1>13, <1>14, WordStep DEF p

\* release frees the word.
LEMMA releaseUnlockKeeps ==
    ASSUME SpinInv, NEW c \in CPU, releaseUnlock(c)
    PROVE  SpinInv'
<1> DEFINE p == cpu[c]
           a == p.stack[1]
           l == a.ops[1][2]
           b == [a EXCEPT !.step = "popcli"]
           q == [p EXCEPT !.stack = [p.stack EXCEPT ![1] = b]]
<1>1. p.stack # <<>> /\ Current(c).step = "unlock" /\ spanic = ""
  BY Zenon DEF releaseUnlock, Does
<1>2. /\ p \in Processor /\ Matched(p) /\ Current(c) = a /\ a \in Act /\ Running(a)
      /\ a.step # "end" => a.ops # <<>> /\ Head(a.ops) = a.ops[1] /\ a.ops[1][2] \in Locks
      /\ \A mm : Owns(p, mm) <=> Holds(a, mm)
      /\ \A mm, step : AtStep(p, mm, step) <=> a.ops # <<>> /\ a.ops[1][2] = mm /\ a.step = step
  BY Zenon, <1>1, Acting
<1>3. a.step = "unlock" /\ a.ops # <<>> /\ LockOf(c) = l /\ l \in Locks
  BY Zenon, <1>1, <1>2 DEF LockOf
<1>4. b \in Act /\ b.ops = a.ops /\ b.handler = a.handler /\ b.step = "popcli"
  BY <1>2 DEF Act, AcquireSteps, ReleaseSteps
<1>5. lk \in [Locks -> Word] /\ cpu \in [CPU -> Processor] /\ lk[l] \in Word /\ WordOf(lk[l], cpu, l)
  BY Zenon, <1>3 DEF SpinInv, SpinTypes, Words
<1> DEFINE v == [lk[l] EXCEPT !.locked = FALSE]
<1>6. cpu' = [cpu EXCEPT ![c] = q] /\ lk' = [lk EXCEPT ![l] = v] /\ rounds' = rounds /\ spanic' = ""
  BY Zenon, <1>1, <1>2, <1>3, <1>5 DEF releaseUnlock, GoTo, With, At
<1>7. v \in Word /\ v.locked = FALSE /\ v.cpu = lk[l].cpu
  BY Zenon, <1>5 DEF Word
<1>10. a.step \in ReleaseSteps /\ b.step \in ReleaseSteps
  BY <1>3, <1>4 DEF ReleaseSteps
<1> HIDE DEF b, v
<1>8. q \in Processor /\ Matched(q) /\ q.stack # <<>> /\ q.stack[1] = b /\ Running(b)
  BY ZenonT(60), <1>1, <1>2, <1>4, <1>10, StepOnly
<1> HIDE DEF q
<1>9. cpu'[c] = q /\ \A d \in CPU \ {c} : cpu'[d] = cpu[d]
  BY Zenon, <1>5, <1>6
<1>11. \A mm : mm # l => (Owns(q, mm) <=> Owns(p, mm))
  <2>1. \A mm : mm # l => (Holds(b, mm) <=> Holds(a, mm))
    BY <1>2, <1>3, <1>4, <1>10, OthersKept
  <2> QED
    BY <1>2, <1>8, <2>1 DEF Owns
<1>12. Owns(p, l) /\ ~Owns(q, l) /\ AtStep(p, l, "unlock") /\ \A mm : ~AtStep(q, mm, "unlock")
  <2>1. ~Holds(b, l) /\ Holds(a, l)
    BY <1>2, <1>3, <1>4, <1>8, AtOperation
  <2> QED
    BY <1>2, <1>3, <1>4, <1>8, <2>1 DEF Owns, AtStep
<1>13. \A mm : mm # l => ~AtStep(p, mm, "own") /\ ~AtStep(p, mm, "unlock")
  BY <1>2
<1>14. WordOf(v, cpu', l)
  <2>1. Owns(cpu[c], l) /\ ~Owns(cpu'[c], l) /\ AtStep(cpu[c], l, "unlock") /\ ~AtStep(cpu'[c], l, "unlock")
    BY <1>9, <1>12
  <2>2. lk[l] \in Word /\ v \in Word /\ WordOf(lk[l], cpu, l)
    BY Zenon, <1>5, <1>7
  <2>3. v.locked = FALSE /\ v.cpu = lk[l].cpu
    BY Zenon, <1>6, <1>7
  <2>4. \A d \in CPU \ {c} : cpu'[d] = cpu[d]
    BY <1>9
  <2> HIDE DEF l, p, a
  <2> QED
    BY <2>1, <2>2, <2>3, <2>4, WordFreed
<1> HIDE DEF l, p, a
<1> QED
  BY Zenon, <1>3, <1>6, <1>7, <1>8, <1>11, <1>12, <1>13, <1>14, WordStep DEF p

\* popcli counts, and may turn interrupts on.
LEMMA popcliKeeps ==
    ASSUME SpinInv, NEW c \in CPU, popcli(c)
    PROVE  SpinInv'
<1> DEFINE p == cpu[c]
           a == p.stack[1]
           b == [a EXCEPT !.ops = Tail(a.ops), !.step = FirstStep(Tail(a.ops))]
           r == [p EXCEPT !.stack = [p.stack EXCEPT ![1] = b]]
           x == p.ncli = 1 /\ p.intena
           q == [r EXCEPT !.ncli = p.ncli - 1, !.FL_IF = x]
<1>1. p.stack # <<>> /\ Current(c).step = "popcli" /\ spanic = ""
  BY Zenon DEF popcli, Does
<1>2. /\ p \in Processor /\ Matched(p) /\ Current(c) = a /\ a \in Act /\ Running(a)
      /\ \A mm : Owns(p, mm) <=> Holds(a, mm)
      /\ \A mm, step : AtStep(p, mm, step) <=> a.ops # <<>> /\ a.ops[1][2] = mm /\ a.step = step
  BY Zenon, <1>1, Acting
<1>3. a.step = "popcli"
  BY Zenon, <1>1, <1>2
<1>4. /\ b \in Act /\ Running(b) /\ b.handler = a.handler
      /\ b.step \in {"readeflags", "holding", "end"}
      /\ Place(b) = Place(a) + 1 /\ Order(b) = Order(a)
      /\ \A mm : Holds(b, mm) <=> Holds(a, mm)
  BY Zenon, <1>2, <1>3, StepNext
<1>5. r.ncli = p.ncli /\ r.intena = p.intena
  BY <1>2 DEF Processor
<1>6. cpu' = [cpu EXCEPT ![c] = q] /\ lk' = lk /\ rounds' = rounds
  BY Zenon, <1>2, <1>5 DEF popcli, With, NextOp
<1> HIDE DEF b
<1>7. /\ r \in Processor
      /\ Len(r.stack) = Len(p.stack) /\ r.stack[1] = b /\ (Len(p.stack) = 2 => r.stack[2] = p.stack[2])
  BY Zenon, <1>1, <1>2, <1>4, NewTop
<1>8. x \in BOOLEAN /\ p.ncli \in Nat
  BY <1>2 DEF Processor
<1>9. p.ncli > 0
  <2>1. p.ncli = Pushed(a)
    BY Zenon, <1>1, <1>2, TopIs
  <2>2. Pushed(a) # 0
    BY <1>2, <1>3, NothingHeld
  <2> HIDE DEF p
  <2> QED
    BY <1>8, <2>1, <2>2
<1>10. p.ncli - 1 \in Nat
  BY <1>8, <1>9
<1> HIDE DEF r, x
<1>11. q \in Processor /\ q.FL_IF = x /\ q.ncli = p.ncli - 1 /\ q.intena = p.intena /\ q.stack = r.stack
  BY <1>5, <1>7, <1>8, <1>10 DEF Processor
<1>12. q.FL_IF = (p.ncli = 1 /\ p.intena)
  BY <1>11 DEF x
<1> HIDE DEF q
<1>13. Len(q.stack) = Len(p.stack) /\ q.stack[1] = b /\ (Len(p.stack) = 2 => q.stack[2] = p.stack[2])
  BY <1>7, <1>11
<1>14. Matched(q) /\ q.stack # <<>> /\ ~p.FL_IF /\ ~(p.ncli < 1)
  BY Zenon, <1>1, <1>2, <1>3, <1>4, <1>11, <1>12, <1>13, StepPop
<1>15. spanic' = ""
  BY Zenon, <1>14 DEF popcli
<1>16. \A mm : Owns(q, mm) <=> Owns(p, mm)
  BY <1>2, <1>4, <1>13, <1>14 DEF Owns
<1>17. \A mm : ~AtStep(p, mm, "own") /\ ~AtStep(p, mm, "unlock") /\ ~AtStep(q, mm, "unlock")
  BY <1>2, <1>3, <1>4, <1>13 DEF AtStep
<1>18. rounds' \in [CPU -> Nat]
  BY Zenon, <1>6 DEF SpinInv, SpinTypes
<1> QED
  BY Zenon, <1>6, <1>11, <1>14, <1>15, <1>16, <1>17, <1>18, QuietKeeps

\* A thread or a handler that begins.
LEMMA Begins ==
    ASSUME NEW h \in BOOLEAN
    PROVE  LET s == IF h THEN HandlerLocks ELSE ThreadLocks
               a == Activity(Use(s), h) IN
           /\ a \in Act /\ Running(a) /\ Pushed(a) = 0 /\ a.handler = h
           /\ a.step \in {"readeflags", "holding", "end"}
<1> DEFINE s == IF h THEN HandlerLocks ELSE ThreadLocks
           u == Use(s)
           n == Len(s)
           a == Activity(u, h)
<1>1. s \in {ThreadLocks, HandlerLocks}
  OBVIOUS
<1>2. /\ n \in Nat /\ u \in Seq(Opn) /\ Len(u) = 2 * n
      /\ \A i \in 1 .. n : u[i] = <<"acquire", s[i]>>
  BY <1>1, LocksInOrder, UseIs
<1>3. FirstStep(u) \in {"readeflags", "holding", "end"}
  BY DEF FirstStep
<1>4. a \in Act /\ a.ops = u /\ a.handler = h /\ a.step = FirstStep(u)
  BY <1>2, <1>3 DEF Activity, Act, AcquireSteps, ReleaseSteps
<1>5. Order(a) = s /\ Place(a) = (2 * n) - Len(u)
  BY <1>4 DEF Order, Place
<1>6. Use(Order(a)) = u
  BY <1>5
<1> HIDE DEF s, u, n, a
<1>7. Place(a) = 0
  BY <1>2, <1>5
<1>8. /\ 0 < n => a.step = "readeflags"
      /\ 0 = 2 * n => a.step = "end"
  <2>1. u = <<>> <=> Len(u) = 0
    BY <1>2
  <2>2. 0 < n => u # <<>> /\ Head(u) = <<"acquire", s[1]>>
    <3>1. 0 < n => 1 \in 1 .. n /\ 1 \in 1 .. Len(u)
      BY <1>2
    <3>2. 1 \in 1 .. Len(u) => Head(u) = u[1] /\ u # <<>>
      BY <1>2, <2>1
    <3> QED
      BY <1>2, <3>1, <3>2
  <2>3. 0 = 2 * n => u = <<>>
    BY <1>2, <2>1
  <2> QED
    BY <1>4, <2>2, <2>3 DEF FirstStep
<1>9. Running(a)
  <2>1. \A i \in 1 .. Len(u) : 0 + i = i
    BY <1>2
  <2>2. 0 \in 0 .. 2 * n /\ ~(n <= 0 /\ 0 < 2 * n)
    BY <1>2
  <2> QED
    BY <1>4, <1>5, <1>6, <1>7, <1>8, <2>1, <2>2 DEF Running, AcquireSteps, n
<1>10. Pushed(a) = 0
  <2>1. n = 0 \/ 0 < n
    BY <1>2
  <2> QED
    BY <1>2, <1>5, <1>7, <1>8, <2>1 DEF Pushed, n
<1> QED
  BY <1>3, <1>4, <1>9, <1>10 DEF s, u, a

\* The stack of a processor: empty, one activity, or a handler on a thread.
LEMMA StackIs ==
    ASSUME NEW p \in Processor, Matched(p)
    PROVE  /\ p.stack \in Seq(Act)
           /\ \/ p.stack = <<>> /\ Len(p.stack) = 0 /\ p.FL_IF /\ p.ncli = 0
              \/ p.stack # <<>> /\ Len(p.stack) = 1
              \/ p.stack # <<>> /\ Len(p.stack) = 2 /\ p.stack[2] \in Act /\ Running(p.stack[2])
                 /\ Free(p.stack[2])
<1>1. p.stack \in Seq(Act)
  BY DEF Processor
<1>2. p.stack = <<>> => p.FL_IF /\ p.ncli = 0 /\ Len(p.stack) = 0
  BY DEF Matched
<1>3. p.stack # <<>> => Len(p.stack) \in 1 .. 2 /\ (Len(p.stack) = 2 => Free(p.stack[2]))
  BY TopIs
<1>4. Len(p.stack) = 2 => p.stack[2] \in Act /\ Running(p.stack[2])
  BY <1>1 DEF Matched
<1>5. Len(p.stack) \in 1 .. 2 => Len(p.stack) = 1 \/ Len(p.stack) = 2
  OBVIOUS
<1> QED
  BY <1>1, <1>2, <1>3, <1>4, <1>5

\* A processor whose current activity has no lock, from here to there.
LEMMA Idle ==
    ASSUME NEW p \in Processor, Matched(p), p.stack # <<>> => Pushed(p.stack[1]) = 0
    PROVE  \A l : ~Owns(p, l) /\ ~AtStep(p, l, "own") /\ ~AtStep(p, l, "unlock")
<1>1. CASE p.stack = <<>>
  BY <1>1 DEF Owns, AtStep
<1>2. CASE p.stack # <<>>
  <2>1. p.stack[1] \in Act /\ Running(p.stack[1])
    BY <1>2, TopIs
  <2>2. (\A l : ~Holds(p.stack[1], l)) /\ p.stack[1].step \in {"readeflags", "cli", "end"}
    BY <1>2, <2>1, NothingHeld
  <2> QED
    BY <2>2 DEF Owns, AtStep
<1> QED
  BY <1>1, <1>2

\* An activity begins or ends, and neither the old nor the new has a lock.
LEMMA IdleStep ==
    ASSUME SpinInv, NEW c \in CPU, cpu[c].stack # <<>> => Pushed(cpu[c].stack[1]) = 0,
           NEW q \in Processor, Matched(q), q.stack # <<>> => Pushed(q.stack[1]) = 0,
           cpu' = [cpu EXCEPT ![c] = q], lk' = lk, rounds' \in [CPU -> Nat], spanic' = ""
    PROVE  SpinInv'
<1>1. cpu[c] \in Processor /\ Matched(cpu[c])
  BY Zenon DEF SpinInv, SpinTypes
<1>2. \A l : ~Owns(cpu[c], l) /\ ~AtStep(cpu[c], l, "own") /\ ~AtStep(cpu[c], l, "unlock")
  BY Zenon, <1>1, Idle
<1>3. \A l : ~Owns(q, l) /\ ~AtStep(q, l, "own") /\ ~AtStep(q, l, "unlock")
  BY Zenon, Idle
<1> QED
  BY Zenon, <1>2, <1>3, QuietKeeps

\* A thread starts or ends.
LEMMA threadKeeps ==
    ASSUME SpinInv, NEW c \in CPU, thread(c)
    PROVE  SpinInv'
<1> DEFINE p == cpu[c]
           a == Activity(Use(ThreadLocks), FALSE)
           t == <<a>>
           q == [p EXCEPT !.stack = t]
<1>1. p \in Processor /\ Matched(p) /\ p.stack = <<>>
  BY Zenon DEF SpinInv, SpinTypes, thread
<1>2. a \in Act /\ Running(a) /\ Pushed(a) = 0 /\ a.handler = FALSE
      /\ a.step \in {"readeflags", "holding", "end"}
  BY Begins
<1>3. cpu' = [cpu EXCEPT ![c] = q] /\ lk' = lk /\ spanic' = ""
  BY Zenon DEF thread
<1>4. rounds' \in [CPU -> Nat]
  <2>1. rounds \in [CPU -> Nat]
    BY Zenon DEF SpinInv, SpinTypes
  <2>2. rounds' = [rounds EXCEPT ![c] = rounds[c] + 1]
    BY Zenon DEF thread
  <2>3. rounds[c] + 1 \in Nat
    BY <2>1
  <2> QED
    BY <2>1, <2>2, <2>3
<1> HIDE DEF a
<1>5. t \in Seq(Act) /\ Len(t) = 1 /\ t[1] = a /\ t # <<>>
  BY <1>2
<1> HIDE DEF t
<1>6. q \in Processor /\ q.FL_IF = p.FL_IF /\ q.ncli = p.ncli /\ q.intena = p.intena /\ q.stack = t
  BY <1>1, <1>5 DEF Processor
<1>7. p.FL_IF /\ p.ncli = 0
  BY <1>1 DEF Matched
<1> HIDE DEF q, p
<1>8. Matched(q)
  <2>1. \A i \in 1 .. Len(t) : Running(t[i])
    BY <1>2, <1>5
  <2>2. Len(t) <= 2 /\ Len(t) # 2 /\ ~(q.ncli > 0)
    BY <1>5, <1>6, <1>7
  <2> QED
    BY <1>2, <1>5, <1>6, <1>7, <2>1, <2>2 DEF Matched
<1>9. q.stack # <<>> => Pushed(q.stack[1]) = 0
  BY <1>2, <1>5, <1>6
<1>10. cpu[c].stack = <<>>
  BY <1>1 DEF p
<1> QED
  BY Zenon, <1>3, <1>4, <1>6, <1>8, <1>9, <1>10, IdleStep

\* Activities on top of others.
LEMMA OnTop ==
    ASSUME NEW S, NEW n \in Nat, NEW mm \in Nat, NEW u \in Seq(S), Len(u) = n, NEW s \in Seq(S), Len(s) = mm
    PROVE  /\ Len(u \o s) = n + mm
           /\ \A i \in n + 1 .. n + mm : (u \o s)[i] = s[i - n]
BY SMT

\* A handler starts above a thread that has pushed nothing.
LEMMA interruptKeeps ==
    ASSUME SpinInv, NEW c \in CPU, interrupt(c)
    PROVE  SpinInv'
<1> DEFINE p == cpu[c]
           a == Activity(Use(HandlerLocks), TRUE)
           t == <<a>> \o p.stack
           q == [p EXCEPT !.FL_IF = FALSE, !.stack = t]
<1>1. p \in Processor /\ Matched(p) /\ p.FL_IF
  BY Zenon DEF SpinInv, SpinTypes, interrupt
<1>2. a \in Act /\ Running(a) /\ Pushed(a) = 0 /\ a.handler = TRUE
      /\ a.step \in {"readeflags", "holding", "end"}
  BY Begins
<1>3. cpu' = [cpu EXCEPT ![c] = q] /\ lk' = lk /\ spanic' = ""
  BY Zenon DEF interrupt
<1>4. rounds' \in [CPU -> Nat]
  <2>1. rounds \in [CPU -> Nat]
    BY Zenon DEF SpinInv, SpinTypes
  <2>2. rounds' = [rounds EXCEPT ![c] = rounds[c] + 1]
    BY Zenon DEF interrupt
  <2>3. rounds[c] + 1 \in Nat
    BY <2>1
  <2> QED
    BY <2>1, <2>2, <2>3
<1> HIDE DEF a
<1>5. p.stack \in Seq(Act)
  BY <1>1, StackIs
<1>6. p.stack # <<>> =>
        /\ p.stack[1] \in Act /\ Running(p.stack[1]) /\ Pushed(p.stack[1]) = 0 /\ p.ncli = 0
           /\ ~p.stack[1].handler
        /\ p.stack[1].step = "cli" => p.stack[1].eflags
  BY <1>1, TopIs
<1>7. p.ncli = 0
  BY <1>1, <1>6, StackIs
<1>8. p.stack = <<>> \/ (p.stack # <<>> /\ Len(p.stack) = 1)
  <2>1. p.stack # <<>> => (Len(p.stack) = 2 => p.stack[1].handler)
    BY <1>1, TopIs
  <2> QED
    BY <1>1, <1>6, <2>1, StackIs
<1>9. t \in Seq(Act) /\ t[1] = a /\ t # <<>>
  BY <1>2, <1>5
<1>10. \/ Len(t) = 1
       \/ Len(t) = 2 /\ Running(t[2]) /\ Free(t[2])
  <2>1. CASE p.stack = <<>>
    <3>1. Len(t) = 1
      BY <2>1
    <3> QED
      BY <3>1
  <2>2. CASE p.stack # <<>> /\ Len(p.stack) = 1
    <3>1. Len(t) = 2 /\ t[2] = p.stack[1]
      <4> HIDE DEF p
      <4> QED
        <5>1. <<a>> \in Seq(Act) /\ Len(<<a>>) = 1 /\ 1 \in Nat
          BY <1>2
        <5>2. /\ Len(t) = 1 + 1
              /\ \A i \in 1 + 1 .. 1 + 1 : t[i] = p.stack[i - 1]
          BY <1>5, <2>2, <5>1, OnTop
        <5>3. 2 \in 1 + 1 .. 1 + 1 /\ 2 - 1 = 1 /\ 1 + 1 = 2
          OBVIOUS
        <5>4. t[2] = p.stack[2 - 1]
          BY <5>2, <5>3
        <5> QED
          BY <5>2, <5>3, <5>4
    <3>2. Free(p.stack[1]) /\ Running(p.stack[1])
      BY <1>6, <2>2 DEF Free
    <3> QED
      BY <3>1, <3>2
  <2> QED
    BY <1>8, <2>1, <2>2
<1> HIDE DEF t
<1>11. q \in Processor /\ q.FL_IF = FALSE /\ q.ncli = p.ncli /\ q.stack = t
  BY <1>1, <1>9 DEF Processor
<1> HIDE DEF q, p
<1>12. Matched(q)
  <2>1. \A i \in 1 .. Len(t) : Running(t[i])
    BY <1>2, <1>9, <1>10
  <2>2. Len(t) <= 2
    <3>1. Len(t) = 1 \/ Len(t) = 2
      BY <1>10
    <3>2. 1 <= 2 /\ 2 <= 2
      OBVIOUS
    <3> HIDE DEF t
    <3> QED
      BY <3>1, <3>2
  <2>2a. q.ncli = 0 /\ ~(q.ncli > 0)
    BY <1>7, <1>11
  <2>3. Len(t) = 2 => Free(t[2])
    BY <1>10
  <2> QED
    BY <1>2, <1>7, <1>9, <1>11, <2>1, <2>2, <2>2a, <2>3 DEF Matched
<1>13. q.stack # <<>> => Pushed(q.stack[1]) = 0
  BY <1>2, <1>9, <1>11
<1>14. cpu[c].stack # <<>> => Pushed(cpu[c].stack[1]) = 0
  BY <1>6 DEF p
<1> QED
  BY Zenon, <1>3, <1>4, <1>11, <1>12, <1>13, <1>14, IdleStep

\* A handler returns to the thread.
LEMMA iretKeeps ==
    ASSUME SpinInv, NEW c \in CPU, iret(c)
    PROVE  SpinInv'
<1> DEFINE p == cpu[c]
           a == p.stack[1]
           t == Tail(p.stack)
           x == a.handler \/ p.FL_IF
           q == [p EXCEPT !.stack = t, !.FL_IF = x]
<1>1. p \in Processor /\ Matched(p) /\ p.stack # <<>> /\ Current(c) = a /\ a.step = "end"
  BY Zenon, Acting DEF iret
<1>2. /\ a \in Act /\ Running(a) /\ p.ncli = Pushed(a)
      /\ p.FL_IF <=> p.ncli = 0 /\ ~a.handler
      /\ p.stack \in Seq(Act)
  BY <1>1, TopIs, StackIs
<1>3. p.FL_IF \in BOOLEAN /\ a.handler \in BOOLEAN
  BY <1>1, <1>2 DEF Processor, Act
<1>4. cpu' = [cpu EXCEPT ![c] = q] /\ lk' = lk /\ rounds' = rounds /\ spanic' = ""
  BY Zenon, <1>1 DEF iret
<1>5. rounds' \in [CPU -> Nat]
  BY Zenon, <1>4 DEF SpinInv, SpinTypes
<1>6. Pushed(a) = 0
  <2> DEFINE n == Len(Order(a))
             k == Place(a)
  <2>1. /\ n \in Nat /\ k \in 0 .. 2 * n
        /\ k = 2 * n <=> a.step = "end"
    BY <1>2, RunningIs
  <2>2. Pushed(a) = IF k < n THEN k + (IF a.step \in {"check", "xchg", "own"} THEN 1 ELSE 0) ELSE (2 * n) - k
    BY DEF Pushed
  <2>3. k = 2 * n
    BY <1>1, <2>1
  <2> HIDE DEF n, k
  <2>4. ~(k < n) /\ (2 * n) - k = 0
    BY <2>1, <2>3
  <2> QED
    BY <2>2, <2>4
<1>7. x = TRUE /\ p.ncli = 0
  BY <1>2, <1>3, <1>6
<1>8. t \in Seq(Act)
  BY <1>1, <1>2
<1>9. \/ t = <<>>
      \/ t # <<>> /\ Len(t) = 1 /\ Running(t[1]) /\ Free(t[1])
  <2>1. CASE Len(p.stack) = 1
    <3>1. Len(t) = 0
      BY <1>1, <1>2, <2>1
    <3> QED
      BY <1>8, <3>1
  <2>2. CASE Len(p.stack) = 2 /\ Running(p.stack[2]) /\ Free(p.stack[2])
    <3>1. Len(t) = 1 /\ t[1] = p.stack[2]
      BY <1>1, <1>2, <2>2
    <3>2. t = <<>> => Len(t) = 0
      <4> HIDE DEF t
      <4> QED
        OBVIOUS
    <3> QED
      BY <2>2, <3>1, <3>2
  <2> QED
    BY <1>1, <2>1, <2>2, StackIs
<1> HIDE DEF t, x
<1>10. q \in Processor /\ q.FL_IF = TRUE /\ q.ncli = 0 /\ q.stack = t
  BY <1>1, <1>3, <1>7, <1>8 DEF Processor
<1> HIDE DEF q
<1>11. CASE t = <<>>
  <2>1. Len(t) = 0
    BY <1>11
  <2>2. Len(t) <= 2 /\ Len(t) # 2 /\ (\A i \in 1 .. Len(t) : Running(t[i]))
    BY <2>1
  <2>3. Matched(q)
    BY <1>10, <1>11, <2>2 DEF Matched
  <2>4. q.stack = <<>> /\ Pushed(cpu[c].stack[1]) = 0
    BY <1>6, <1>10, <1>11
  <2> QED
    BY Zenon, <1>4, <1>5, <1>10, <2>3, <2>4, IdleStep
<1>12. CASE t # <<>> /\ Len(t) = 1 /\ Running(t[1]) /\ Free(t[1])
  <2>1. Len(t) <= 2 /\ Len(t) # 2 /\ (\A i \in 1 .. Len(t) : Running(t[i])) /\ ~(q.ncli > 0)
    BY <1>10, <1>12
  <2>2. ~t[1].handler /\ Pushed(t[1]) = 0 /\ (t[1].step = "cli" => t[1].eflags)
    BY <1>12 DEF Free
  <2>3. Matched(q)
    BY <1>10, <1>12, <2>1, <2>2 DEF Matched
  <2>4. Pushed(q.stack[1]) = 0 /\ Pushed(cpu[c].stack[1]) = 0
    BY <1>6, <1>10, <2>2
  <2> QED
    BY Zenon, <1>4, <1>5, <1>10, <2>3, <2>4, IdleStep
<1> QED
  BY <1>9, <1>11, <1>12

\* Everything is free and off at first.
LEMMA SpinStarts ==
    ASSUME SpinInit
    PROVE  SpinInv
<1>1. SpinTypes
  <2>1. lk \in [Locks -> Word]
    BY Zenon DEF SpinInit, Word
  <2>2. cpu \in [CPU -> Processor]
    <3>1. <<>> \in Seq(Act) /\ 0 \in Nat
      OBVIOUS
    <3>2. [FL_IF |-> TRUE, ncli |-> 0, intena |-> FALSE, stack |-> <<>>] \in Processor
      BY <3>1 DEF Processor
    <3> QED
      BY Zenon, <3>2 DEF SpinInit
  <2> QED
    BY Zenon, <2>1, <2>2 DEF SpinInit, SpinTypes
<1>2. \A c \in CPU : cpu[c].stack = <<>> /\ cpu[c].FL_IF = TRUE /\ cpu[c].ncli = 0
  BY Zenon DEF SpinInit
<1>3. \A c \in CPU : Matched(cpu[c])
  <2>1. Len(<<>>) = 0 /\ Len(<<>>) <= 2 /\ Len(<<>>) # 2 /\ \A i \in 1 .. 0 : FALSE
    OBVIOUS
  <2> QED
    BY <1>2, <2>1 DEF Matched
<1>4. Words
  <2>1. \A c \in CPU : \A l : ~Owns(cpu[c], l) /\ ~AtStep(cpu[c], l, "unlock")
    BY <1>2 DEF Owns, AtStep
  <2>2. \A l \in Locks : lk[l].locked = FALSE /\ lk[l].cpu = 0
    BY Zenon DEF SpinInit
  <2> QED
    BY <2>1, <2>2 DEF Words, WordOf
<1> QED
  BY Zenon, <1>1, <1>3, <1>4 DEF SpinInv, SpinInit

\* Every step of a thread, of a handler and of an interrupt keeps it.
LEMMA SpinKeeps ==
    ASSUME SpinInv, SpinNext
    PROVE  SpinInv'
<1> PICK c \in CPU : \/ readeflags(c) \/ pushcli(c) \/ acquireCheck(c) \/ xchg(c) \/ acquired(c)
                     \/ releaseCheck(c) \/ releaseClear(c) \/ releaseUnlock(c) \/ popcli(c)
                     \/ thread(c) \/ interrupt(c) \/ iret(c)
  BY DEF SpinNext
<1>1. CASE readeflags(c) \/ pushcli(c) \/ acquireCheck(c) \/ releaseCheck(c) \/ popcli(c)
  BY <1>1, readeflagsKeeps, pushcliKeeps, acquireCheckKeeps, releaseCheckKeeps, popcliKeeps
<1>2. CASE xchg(c) \/ acquired(c) \/ releaseClear(c) \/ releaseUnlock(c)
  BY <1>2, xchgKeeps, acquiredKeeps, releaseClearKeeps, releaseUnlockKeeps
<1>3. CASE thread(c) \/ interrupt(c) \/ iret(c)
  BY <1>3, threadKeeps, interruptKeeps, iretKeeps
<1> QED
  BY <1>1, <1>2, <1>3

\* The invariant of the spin locks: see SpinInv.
THEOREM SpinInvariant == SpinSpec => []SpinInv
<1>1. SpinInit => SpinInv
  BY SpinStarts
<1>2. SpinInv /\ [SpinNext]_spinVars => SpinInv'
  <2>1. ASSUME SpinInv, UNCHANGED spinVars PROVE SpinInv'
    BY Zenon, <2>1 DEF spinVars, SpinInv, SpinTypes, Words
  <2> QED
    BY <2>1, SpinKeeps
<1> QED
  BY <1>1, <1>2, PTL DEF SpinSpec

\* Only current activities have locks: what an interrupt finds has none.
LEMMA HoldersAre ==
    ASSUME SpinInv, NEW l
    PROVE  \A h : h \in Holders(l) <=> \E c \in CPU : h = <<c, 1>> /\ Owns(cpu[c], l)
<1>1. ASSUME NEW c \in CPU
      PROVE  /\ 1 <= Len(cpu[c].stack) /\ Holds(cpu[c].stack[1], l) <=> Owns(cpu[c], l)
             /\ ~(2 <= Len(cpu[c].stack) /\ Holds(cpu[c].stack[2], l))
  <2> DEFINE p == cpu[c]
  <2>1. p \in Processor /\ Matched(p)
    BY Zenon DEF SpinInv, SpinTypes
  <2>2. /\ p.stack = <<>> <=> Len(p.stack) = 0
        /\ Len(p.stack) \in {0, 1, 2}
        /\ Len(p.stack) = 2 => p.stack[2] \in Act /\ Running(p.stack[2]) /\ Free(p.stack[2])
    BY <2>1, StackIs
  <2>3. Len(p.stack) = 2 => ~Holds(p.stack[2], l)
    BY <2>2, NothingHeld DEF Free
  <2> HIDE DEF p
  <2>n. PICK n \in 0 .. 2 : n = Len(p.stack)
    BY <2>2
  <2>mm. (1 <= n <=> n # 0) /\ (2 <= n <=> n = 2)
    OBVIOUS
  <2>4. /\ 1 <= Len(p.stack) <=> p.stack # <<>>
        /\ 2 <= Len(p.stack) <=> Len(p.stack) = 2
    BY <2>2, <2>n, <2>mm
  <2> QED
    BY <2>3, <2>4 DEF Owns, p
<1>2. \A h : h \in Holders(l) <=>
        \E c \in CPU : \E i \in 1 .. 2 : h = <<c, i>> /\ i <= Len(cpu[c].stack) /\ Holds(cpu[c].stack[i], l)
  BY DEF Holders
<1>3. \A i \in 1 .. 2 : i = 1 \/ i = 2
  OBVIOUS
<1>4. 1 \in 1 .. 2
  OBVIOUS
<1> QED
  BY <1>1, <1>2, <1>3, <1>4

\* However threads, handlers and processors interleave in acquire and release,
\* the word of a lock says whether it has its one holder, no processor spins on
\* a lock that the thread it interrupted holds, nothing panics, and interrupts
\* are on when everything has been released.
THEOREM NoSelfDeadlockAlways == SpinSpec => []NoSelfDeadlock
<1>1. ASSUME SpinInv PROVE NoSelfDeadlock
  <2> USE <1>1
  <2>1. spanic = ""
    BY Zenon DEF SpinInv
  <2>2. ASSUME NEW l \in Locks PROVE Cardinality(Holders(l)) = IF lk[l].locked THEN 1 ELSE 0
    <3>1. WordOf(lk[l], cpu, l)
      BY Zenon DEF SpinInv, Words
    <3>2. CASE lk[l].locked
      <4>1. PICK c \in CPU : Owns(cpu[c], l) /\ \A d \in CPU : Owns(cpu[d], l) => d = c
        BY <3>1, <3>2 DEF WordOf
      <4>2. Holders(l) = {<<c, 1>>}
        <5>1. \A h : h \in Holders(l) <=> h = <<c, 1>>
          BY <4>1, HoldersAre
        <5> QED
          BY <5>1
      <4>3. Cardinality(Holders(l)) = 1
        BY <4>2, FS_Singleton
      <4> QED
        BY <3>2, <4>3
    <3>3. CASE ~lk[l].locked
      <4>1. \A c \in CPU : ~Owns(cpu[c], l)
        BY <3>1, <3>3 DEF WordOf
      <4>2. \A h : h \notin Holders(l)
        BY <4>1, HoldersAre
      <4>3. Holders(l) = {}
        BY <4>2
      <4>4. Cardinality(Holders(l)) = 0
        BY <4>3, FS_EmptySet
      <4> QED
        BY <3>3, <4>4
    <3> QED
      BY <3>2, <3>3
  <2>3. ASSUME NEW c \in CPU, NEW i \in 2 .. Len(cpu[c].stack), NEW l PROVE <<c, i>> \notin Holders(l)
    <3>1. <<c, i>> \in Holders(l) => i = 1
      BY HoldersAre
    <3>2. i # 1
      OBVIOUS
    <3> QED
      BY <3>1, <3>2
  <2>4. \A c \in CPU : cpu[c].stack = <<>> => cpu[c].FL_IF /\ cpu[c].ncli = 0
    BY Zenon DEF SpinInv, Matched
  <2> QED
    BY Zenon, <2>1, <2>2, <2>3, <2>4 DEF NoSelfDeadlock
<1>2. SpinInv => NoSelfDeadlock
  BY <1>1
<1> QED
  BY <1>2, SpinInvariant, PTL

-----------------------------------------------------------------------------
(* The start of the processors. *)

\* The places of the boot processor before it starts the others, while it starts
\* one of them, and after it has started them all.
Before == {"kinit1", "kvmalloc", "mpinit"}
During == {"lapicstartap", "wait"}
Late == {"use_lock", "userinit", "mpmain", "scheduler"}
\* A processor on its way from the STARTUP to its started flag.
Early == {"start", "esp", "mpenter", "mpmain"}
Entry == [pc : Early \cup {"main", "halted", "scheduler", "kalloc"},
          pgdir : {"none", "entrypgdir", "kpgdir"}, stack : Nat]
Cpus == {cpus[i] : i \in 1 .. Len(cpus)}

BootTypes ==
    /\ mptab \in Seq(Kinds \X Machine) /\ cpus \in Seq(Machine) /\ Len(cpus) <= NCPU
    /\ main \in Before \cup {"startothers"} \cup During \cup Late
    /\ nextc \in Nat /\ word \in [stack : Nat, pgdir : {"none", "entrypgdir"}]
    /\ ap \in [Machine -> Entry]
    /\ bstarted \subseteq Machine /\ alloc \subseteq Machine /\ uselock \in BOOLEAN
    /\ pages \in Seq(1 .. Pages) /\ owned \subseteq 1 .. Pages

\* The free list has every page once and none that is in use.
PagesOnce ==
    /\ \A i, j \in 1 .. Len(pages) : pages[i] = pages[j] => i = j
    /\ \A i \in 1 .. Len(pages) : pages[i] \notin owned

\* Until kinit2 all pages are low ones.
LowOnly == main \notin Late => (\A i \in 1 .. Len(pages) : pages[i] <= LowPages) /\ (\A f \in owned : f <= LowPages)

\* There are enough of them for the stacks still to come.
Enough ==
    /\ main = "kinit1" => pages = <<>> /\ owned = {}
    /\ main = "kvmalloc" => Len(pages) >= LowPages
    /\ main = "mpinit" => Len(pages) >= LowPages - 1
    /\ main = "startothers" => Len(pages) >= LowPages - nextc
    /\ main \in During => Len(pages) >= LowPages - (nextc + 1)
    /\ main \in {"use_lock", "userinit"} => Len(pages) >= 1

\* startothers goes through the table once: those before nextc run.
Loop ==
    /\ nextc >= 1 /\ nextc <= Len(cpus) + 1
    /\ main \in Before => nextc = 1
    /\ main \in During => nextc <= Len(cpus) /\ cpus[nextc] # Bsp
    /\ main \in Late => nextc = Len(cpus) + 1
    /\ \A i \in 1 .. nextc - 1 : cpus[i] \in bstarted \cup {Bsp}

\* The started flags are set by processors of the table that have come to the scheduler.
Started ==
    /\ \A c \in Machine : c \in bstarted <=> ap[c].pc \in {"scheduler", "kalloc"}
    /\ bstarted \subseteq Cpus
    /\ main # "scheduler" => ap[Bsp].pc = "main"
    /\ main = "scheduler" => Bsp \in bstarted

\* Only the processor that the boot processor waits for is on its way.
OnTheWay == \A c \in Machine : ap[c].pc \in Early => main = "wait" /\ c = cpus[nextc]

\* The allocator is entered only with its lock on.
Allocator ==
    /\ \A c \in Machine : c \in alloc <=> ap[c].pc = "kalloc"
    /\ \A c, d \in alloc : c = d
    /\ alloc # {} => main \in {"mpmain", "scheduler"} /\ Len(pages) >= 1
    /\ main \in {"userinit", "mpmain", "scheduler"} => uselock = TRUE

\* Whoever has a stack is alone on it, and the stack in the word is for the next.
Stacks ==
    /\ \A c \in Machine : ap[c].stack # 0 =>
         /\ ap[c].stack \in owned
         /\ ap[c].pgdir = "kpgdir" \/ ap[c].stack <= LowPages
    /\ \A c, d \in Machine : ap[c].stack # 0 /\ ap[c].stack = ap[d].stack => c = d
    /\ main \in During =>
         /\ word.stack \in owned /\ word.stack <= LowPages
         /\ \A d \in Machine : ap[d].stack = word.stack => main = "wait" /\ d = cpus[nextc]

\* The boot processor panics exactly when the table does not have it.
Outcome ==
    /\ bootpanic # "" => Bsp \notin Cpus /\ main = "startothers"
    /\ main \notin Before /\ bootpanic = "" => Bsp \in Cpus
    /\ main \in Before => irq = <<>>
    /\ main \notin Before => irq = <<0, 0, Len(cpus) - 1>>

BootInv ==
    /\ BootTypes /\ PagesOnce /\ LowOnly /\ Enough /\ Loop /\ Started /\ OnTheWay /\ Allocator
    /\ Stacks /\ Outcome

\* A processor's place changes, the rest of ap does not.
LEMMA PlaceChanges ==
    ASSUME BootTypes, NEW c \in Machine, NEW to \in Early \cup {"main", "halted", "scheduler", "kalloc"},
           ap' = [ap EXCEPT ![c].pc = to]
    PROVE  /\ ap' \in [Machine -> Entry]
           /\ ap'[c].pc = to /\ ap'[c].stack = ap[c].stack /\ ap'[c].pgdir = ap[c].pgdir
           /\ \A d \in Machine : d # c => ap'[d] = ap[d]
  BY DEF BootTypes, Entry

\* A processor's entry changes.
LEMMA EntryChanges ==
    ASSUME BootTypes, NEW c \in Machine, NEW e \in Entry, ap' = [ap EXCEPT ![c] = e]
    PROVE  ap' \in [Machine -> Entry] /\ ap'[c] = e /\ \A d \in Machine : d # c => ap'[d] = ap[d]
  BY DEF BootTypes

\* What taking the first page of the free list does.
LEMMA PageTaken ==
    ASSUME BootTypes, PagesOnce, LowOnly, Len(pages) >= 1,
           pages' = Tail(pages), owned' = owned \cup {Head(pages)}
    PROVE  /\ pages' \in Seq(1 .. Pages) /\ owned' \subseteq 1 .. Pages /\ Len(pages') = Len(pages) - 1
           /\ Head(pages) \in 1 .. Pages /\ Head(pages) \notin owned /\ Len(pages) \in Nat
           /\ \A i, j \in 1 .. Len(pages') : pages'[i] = pages'[j] => i = j
           /\ \A i \in 1 .. Len(pages') : pages'[i] \notin owned'
           /\ main \notin Late => (\A i \in 1 .. Len(pages') : pages'[i] <= LowPages)
                                  /\ (\A f \in owned' : f <= LowPages) /\ Head(pages) <= LowPages
<1> DEFINE n == Len(pages)
<1>1. pages \in Seq(1 .. Pages) /\ n \in Nat /\ pages # <<>>
  BY DEF BootTypes
<1>2. pages' \in Seq(1 .. Pages) /\ Len(pages') = n - 1 /\ \A i \in 1 .. n - 1 : pages'[i] = pages[i + 1]
  BY <1>1
<1>3. Head(pages) = pages[1] /\ pages[1] \in 1 .. Pages
  <2>1. n >= 1 /\ 1 \in 1 .. n
    BY <1>1
  <2>2. pages[1] \in 1 .. Pages
    BY ONLY <1>1, <2>1, ElementOfSeq
  <2>3. Head(pages) = pages[1]
    BY <1>1
  <2> QED
    BY <2>2, <2>3
<1>4. /\ \A i, j \in 1 .. n : pages[i] = pages[j] => i = j
      /\ \A i \in 1 .. n : pages[i] \notin owned
      /\ main \notin Late => (\A i \in 1 .. n : pages[i] <= LowPages) /\ (\A f \in owned : f <= LowPages)
  BY DEF PagesOnce, LowOnly
<1>5. n >= 1 /\ 1 \in 1 .. n /\ \A i \in 1 .. n - 1 : i + 1 \in 1 .. n /\ i + 1 # 1
  BY <1>1
<1> HIDE DEF n
<1>6. \A i, j \in 1 .. n - 1 : pages'[i] = pages'[j] => i = j
  <2> SUFFICES ASSUME NEW i \in 1 .. n - 1, NEW j \in 1 .. n - 1, pages'[i] = pages'[j] PROVE i = j
    OBVIOUS
  <2>1. i + 1 = j + 1
    BY <1>2, <1>4, <1>5
  <2> QED
    BY <1>1, <2>1
<1>7. \A i \in 1 .. n - 1 : pages'[i] \notin owned'
  <2> SUFFICES ASSUME NEW i \in 1 .. n - 1 PROVE pages[i + 1] \notin owned /\ pages[i + 1] # pages[1]
    BY <1>2, <1>3
  <2> QED
    BY <1>4, <1>5
<1>8. owned' \subseteq 1 .. Pages
  BY <1>3 DEF BootTypes
<1>9. main \notin Late => (\A i \in 1 .. n - 1 : pages'[i] <= LowPages)
                           /\ (\A f \in owned' : f <= LowPages) /\ Head(pages) <= LowPages
  <2> SUFFICES ASSUME main \notin Late
                PROVE  (\A i \in 1 .. n - 1 : pages'[i] <= LowPages)
                       /\ (\A f \in owned' : f <= LowPages) /\ Head(pages) <= LowPages
    OBVIOUS
  <2>1. \A i \in 1 .. n - 1 : pages'[i] <= LowPages
    BY <1>2, <1>4, <1>5
  <2>2. \A f \in owned' : f <= LowPages
    BY <1>3, <1>4, <1>5
  <2>3. Head(pages) <= LowPages
    BY <1>3, <1>4, <1>5
  <2> QED
    BY <2>1, <2>2, <2>3
<1>10. Head(pages) \notin owned
  BY <1>3, <1>4, <1>5
<1>11. n = Len(pages)
  BY DEF n
<1> QED
  BY <1>1, <1>2, <1>3, <1>6, <1>7, <1>8, <1>9, <1>10, <1>11

\* What freerange adds to the free list: pages that were never in it.
LEMMA PagesFreed ==
    ASSUME BootTypes, PagesOnce, NEW a \in Nat, NEW b \in Nat, 1 <= a, a <= b + 1, b <= Pages,
           \A i \in 1 .. Len(pages) : pages[i] < a, \A f \in owned : f < a,
           pages' = freerange(a, b)
    PROVE  /\ pages' \in Seq(1 .. Pages) /\ Len(pages') = (b - a + 1) + Len(pages) /\ Len(pages) \in Nat
           /\ \A i, j \in 1 .. Len(pages') : pages'[i] = pages'[j] => i = j
           /\ \A i \in 1 .. Len(pages') : pages'[i] \notin owned
           /\ \A i \in 1 .. Len(pages') : pages'[i] <= b \/ pages'[i] < a
<1> DEFINE n == Len(pages)
           mm == b - a + 1
           new == [i \in 1 .. mm |-> b + 1 - i]
<1>1. pages \in Seq(1 .. Pages) /\ n \in Nat /\ mm \in Nat
  BY DEF BootTypes
<1>2. \A i \in 1 .. mm : b + 1 - i \in 1 .. Pages /\ b + 1 - i >= a /\ b + 1 - i <= b
  BY BootAssumption
<1>3. new \in Seq(1 .. Pages) /\ Len(new) = mm /\ \A i \in 1 .. mm : new[i] = b + 1 - i
  BY <1>1, <1>2
<1>4. pages' = new \o pages
  BY DEF freerange
<1>5. /\ \A i, j \in 1 .. n : pages[i] = pages[j] => i = j
      /\ \A i \in 1 .. n : pages[i] \notin owned
      /\ \A i \in 1 .. n : pages[i] < a /\ pages[i] \in 1 .. Pages
  <2>1. \A i \in 1 .. n : pages[i] \in 1 .. Pages
    BY Zenon, <1>1, ElementOfSeq
  <2> QED
    BY Zenon, <2>1 DEF PagesOnce
<1> HIDE DEF new
<1>a. /\ new \o pages \in Seq(1 .. Pages)
      /\ Len(new \o pages) = Len(new) + Len(pages)
      /\ \A i \in 1 .. Len(new) + Len(pages) :
           (new \o pages)[i] = IF i <= Len(new) THEN new[i] ELSE pages[i - Len(new)]
  BY Zenon, <1>1, <1>3, ConcatProperties
<1>b. Len(new) = mm /\ Len(pages) = n
  BY <1>3
<1>6. pages' \in Seq(1 .. Pages) /\ Len(pages') = mm + n
  BY Zenon, <1>a, <1>b, <1>4
<1>7. \A i \in 1 .. mm + n : pages'[i] = IF i <= mm THEN new[i] ELSE pages[i - mm]
  BY Zenon, <1>a, <1>b, <1>4
<1> HIDE DEF n, mm
<1>8. \A i \in 1 .. mm + n : \/ i \in 1 .. mm /\ pages'[i] = b + 1 - i /\ pages'[i] >= a /\ pages'[i] <= b
                            \/ /\ i \notin 1 .. mm /\ i - mm \in 1 .. n
                               /\ pages'[i] = pages[i - mm] /\ pages'[i] < a /\ pages'[i] \in Nat
  <2> TAKE i \in 1 .. mm + n
  <2>1. CASE i <= mm
    BY <1>1, <1>2, <1>3, <1>7, <2>1
  <2>2. CASE ~(i <= mm)
    <3>1. i - mm \in 1 .. n /\ i \notin 1 .. mm
      BY <1>1, <2>2
    <3> QED
      BY <1>5, <1>7, <2>2, <3>1
  <2> QED
    BY <2>1, <2>2
<1>9. \A i, j \in 1 .. mm + n : pages'[i] = pages'[j] => i = j
  <2> SUFFICES ASSUME NEW i \in 1 .. mm + n, NEW j \in 1 .. mm + n, pages'[i] = pages'[j] PROVE i = j
    OBVIOUS
  <2> DEFINE x == pages'[i]
             y == pages'[j]
  <2> HIDE DEF x, y
  <2>1. x = y /\ x \in Nat
    BY <1>8 DEF x, y
  <2>2. \/ i \in 1 .. mm /\ x = b + 1 - i /\ x >= a
        \/ i \notin 1 .. mm /\ i - mm \in 1 .. n /\ x = pages[i - mm] /\ x < a
    BY <1>8 DEF x
  <2>3. \/ j \in 1 .. mm /\ y = b + 1 - j /\ y >= a
        \/ j \notin 1 .. mm /\ j - mm \in 1 .. n /\ y = pages[j - mm] /\ y < a
    BY <1>8 DEF y
  <2>4. CASE x >= a
    BY <1>1, <2>1, <2>2, <2>3, <2>4
  <2>5. CASE x < a
    <3>1. i - mm \in 1 .. n /\ j - mm \in 1 .. n /\ pages[i - mm] = pages[j - mm]
      BY <2>1, <2>2, <2>3, <2>5
    <3>2. i - mm = j - mm
      BY <1>5, <3>1
    <3> QED
      BY <1>1, <3>2
  <2> QED
    BY <2>1, <2>4, <2>5
<1>10. \A i \in 1 .. mm + n : pages'[i] \notin owned
  <2> TAKE i \in 1 .. mm + n
  <2>1. CASE i \in 1 .. mm
    <3>1. pages'[i] >= a /\ pages'[i] \in Nat
      BY <1>8, <2>1
    <3> QED
      BY <3>1
  <2>2. CASE i \notin 1 .. mm
    BY <1>5, <1>8, <2>2
  <2> QED
    BY <2>1, <2>2
<1>11. \A i \in 1 .. mm + n : pages'[i] <= b \/ pages'[i] < a
  BY <1>8
<1>12. n = Len(pages) /\ mm = b - a + 1
  BY DEF n, mm
<1> QED
  BY <1>1, <1>6, <1>9, <1>10, <1>11, <1>12

\* Nobody's stack changes, and no word is waiting, or the same one.
LEMMA StacksKept ==
    ASSUME Stacks, owned \subseteq owned',
           \A d \in Machine : ap'[d].stack = ap[d].stack /\ (ap'[d].pgdir = ap[d].pgdir \/ ap'[d].pgdir = "kpgdir"),
           main' \notin During \/ (main' = main /\ word' = word /\ cpus' = cpus /\ nextc' = nextc)
    PROVE  Stacks'
<1>1. \A c \in Machine : ap'[c].stack # 0 =>
         /\ ap'[c].stack \in owned'
         /\ ap'[c].pgdir = "kpgdir" \/ ap'[c].stack <= LowPages
  BY DEF Stacks
<1>2. \A c, d \in Machine : ap'[c].stack # 0 /\ ap'[c].stack = ap'[d].stack => c = d
  BY DEF Stacks
<1>3. main' \in During =>
         /\ word'.stack \in owned' /\ word'.stack <= LowPages
         /\ \A d \in Machine : ap'[d].stack = word'.stack => main' = "wait" /\ d = cpus'[nextc']
  BY DEF Stacks
<1> QED
  BY <1>1, <1>2, <1>3 DEF Stacks

\* The flags follow the place of the one processor that moves.
LEMMA StartedKept ==
    ASSUME Started, cpus' = cpus, main' = main \/ "scheduler" \notin {main, main'}, NEW c \in Machine,
           \A d \in Machine : d # c => ap'[d].pc = ap[d].pc, ap[c].pc # "main",
           c \in bstarted' <=> ap'[c].pc \in {"scheduler", "kalloc"},
           bstarted' = bstarted \/ (bstarted' = bstarted \cup {c} /\ c \in Cpus)
    PROVE  Started'
<1>1. \A d \in Machine : d \in bstarted' <=> ap'[d].pc \in {"scheduler", "kalloc"}
  <2> TAKE d \in Machine
  <2>1. CASE d = c
    BY <2>1
  <2>2. CASE d # c
    BY <2>2 DEF Started
  <2> QED
    BY <2>1, <2>2
<1>2. bstarted' \subseteq Cpus'
  BY DEF Started, Cpus
<1>3. main' # "scheduler" => ap'[Bsp].pc = "main"
  BY BootAssumption DEF Started
<1>4. main' = "scheduler" => Bsp \in bstarted'
  BY DEF Started
<1> QED
  BY <1>1, <1>2, <1>3, <1>4 DEF Started

\* The processor on its way is one of the table.
LEMMA OnTheWayListed ==
    ASSUME BootTypes, Loop, OnTheWay, NEW c \in Machine, ap[c].pc \in Early
    PROVE  c \in Cpus /\ \E i \in DOMAIN cpus : cpus[i] = c
<1>1. main = "wait" /\ c = cpus[nextc]
  BY DEF OnTheWay
<1>2. cpus \in Seq(Machine) /\ nextc \in Nat /\ Len(cpus) \in Nat /\ DOMAIN cpus = 1 .. Len(cpus)
  BY DEF BootTypes
<1>3. nextc \in 1 .. Len(cpus)
  BY <1>1, <1>2 DEF Loop, During
<1> QED
  BY <1>1, <1>2, <1>3 DEF Cpus

\* kinit1 fills the free list with the low pages.
LEMMA kinit1Keeps ==
    ASSUME BootInv, kinit1
    PROVE  BootInv'
<1>1. /\ BootTypes /\ PagesOnce /\ LowOnly /\ Enough /\ Loop
      /\ Started /\ OnTheWay /\ Allocator /\ Stacks /\ Outcome
  BY DEF BootInv
<1>2. /\ mptab' = mptab /\ cpus' = cpus /\ nextc' = nextc /\ word' = word /\ ap' = ap /\ bstarted' = bstarted
      /\ irq' = irq /\ alloc' = alloc /\ owned' = owned /\ bootpanic' = bootpanic
  BY DEF kinit1
<1>3. main = "kinit1" /\ main' = "kvmalloc"
  BY <1>2 DEF kinit1, MainAt
<1>4. /\ Len(pages) \in Nat /\ Len(cpus) \in Nat /\ nextc \in Nat /\ LowPages \in Nat
      /\ Pages \in Nat /\ NCPU \in Nat
      /\ NCPU < LowPages /\ LowPages < Pages /\ Len(cpus) <= NCPU
  BY <1>1, BootAssumption DEF BootTypes
<1>5. pages' = freerange(1, LowPages)
  BY DEF kinit1
<1>6. /\ 1 \in Nat /\ LowPages \in Nat /\ 1 <= 1 /\ 1 <= LowPages + 1 /\ LowPages <= Pages
      /\ (\A i \in 1 .. Len(pages) : pages[i] < 1) /\ (\A f \in owned : f < 1)
  BY <1>1, <1>3, <1>4 DEF Enough
<1>7. /\ pages' \in Seq(1 .. Pages) /\ Len(pages') = (LowPages - 1 + 1) + Len(pages)
      /\ \A i, j \in 1 .. Len(pages') : pages'[i] = pages'[j] => i = j
      /\ \A i \in 1 .. Len(pages') : pages'[i] \notin owned
      /\ \A i \in 1 .. Len(pages') : pages'[i] <= LowPages \/ pages'[i] < 1
  BY <1>1, <1>6, <1>5, PagesFreed
<1>8. BootTypes'
  BY <1>1, <1>2, <1>3, <1>7 DEF BootTypes, Before, During, Late, kinit1
<1>9. PagesOnce'
  BY <1>2, <1>7 DEF PagesOnce
<1>10. LowOnly'
  <2>1. pages = <<>> /\ owned = {}
    BY <1>1, <1>3 DEF Enough
  <2>2. \A i \in 1 .. Len(pages') : pages'[i] <= LowPages
    <3>1. \A i \in 1 .. Len(pages') : pages'[i] \in 1 .. Pages
      BY Zenon, <1>7, ElementOfSeq
    <3> QED
      BY <1>7, <1>4, <3>1
  <2> QED
    BY <1>2, <2>1, <2>2 DEF LowOnly
<1>11. Enough'
  BY ONLY <1>1, <1>2, <1>3, <1>4, <1>7 DEF Enough, Loop, During, Late
<1>12. Loop'
  BY <1>1, <1>2, <1>3 DEF Loop, Before, During, Late
<1>13. Started'
  BY <1>1, <1>2, <1>3 DEF Started, Cpus
<1>14. OnTheWay'
  BY <1>1, <1>2, <1>3 DEF OnTheWay, Early
<1>15. Allocator'
  BY <1>1, <1>2, <1>3 DEF Allocator, kinit1
<1>16. Stacks'
  BY <1>1, <1>2, <1>3 DEF Stacks, During
<1>17. Outcome'
  BY <1>1, <1>2, <1>3 DEF Outcome, Before, Cpus
<1> QED
  BY <1>8, <1>9, <1>10, <1>11, <1>12, <1>13, <1>14, <1>15, <1>16, <1>17 DEF BootInv

\* kvmalloc takes one of them for the kernel's page table.
LEMMA kvmallocKeeps ==
    ASSUME BootInv, kvmalloc
    PROVE  BootInv'
<1>1. /\ BootTypes /\ PagesOnce /\ LowOnly /\ Enough /\ Loop
      /\ Started /\ OnTheWay /\ Allocator /\ Stacks /\ Outcome
  BY DEF BootInv
<1>2. /\ mptab' = mptab /\ cpus' = cpus /\ nextc' = nextc /\ word' = word /\ bstarted' = bstarted /\ irq' = irq
      /\ uselock' = uselock /\ alloc' = alloc /\ bootpanic' = bootpanic
  BY DEF kvmalloc
<1>3. main = "kvmalloc" /\ main' = "mpinit"
  BY <1>2 DEF kvmalloc, MainAt
<1>4. /\ Len(pages) \in Nat /\ Len(cpus) \in Nat /\ nextc \in Nat /\ LowPages \in Nat
      /\ Pages \in Nat /\ NCPU \in Nat
      /\ NCPU < LowPages /\ LowPages < Pages /\ Len(cpus) <= NCPU
  BY <1>1, BootAssumption DEF BootTypes
<1>5. Len(pages) >= 1
  BY <1>1, <1>3, <1>4 DEF Enough
<1>6. pages' = Tail(pages) /\ owned' = owned \cup {Head(pages)}
  BY DEF kvmalloc
<1>7. /\ pages' \in Seq(1 .. Pages) /\ owned' \subseteq 1 .. Pages /\ Len(pages') = Len(pages) - 1
      /\ Head(pages) \in 1 .. Pages /\ Head(pages) \notin owned
      /\ \A i, j \in 1 .. Len(pages') : pages'[i] = pages'[j] => i = j
      /\ \A i \in 1 .. Len(pages') : pages'[i] \notin owned'
      /\ main \notin Late => (\A i \in 1 .. Len(pages') : pages'[i] <= LowPages)
                             /\ (\A f \in owned' : f <= LowPages) /\ Head(pages) <= LowPages
  BY <1>1, <1>5, <1>6, PageTaken
<1>8. /\ ap' \in [Machine -> Entry]
      /\ \A d \in Machine : ap'[d].pc = ap[d].pc /\ ap'[d].stack = ap[d].stack
      /\ \A d \in Machine : ap'[d].pgdir = IF d = Bsp THEN "kpgdir" ELSE ap[d].pgdir
  <2>1. ap' = [ap EXCEPT ![Bsp].pgdir = "kpgdir"] /\ ap \in [Machine -> Entry] /\ Bsp \in Machine
    BY <1>1, BootAssumption DEF kvmalloc, BootTypes
  <2>2. ap' \in [Machine -> Entry]
    BY ONLY <2>1 DEF Entry
  <2>3. \A d \in Machine : ap'[d].pc = ap[d].pc /\ ap'[d].stack = ap[d].stack
    BY ONLY <2>1 DEF Entry
  <2>4. \A d \in Machine : ap'[d].pgdir = IF d = Bsp THEN "kpgdir" ELSE ap[d].pgdir
    BY ONLY <2>1 DEF Entry
  <2> QED
    BY <2>2, <2>3, <2>4
<1>9. BootTypes'
  BY <1>1, <1>2, <1>3, <1>7, <1>8 DEF BootTypes, Before, During, Late
<1>10. PagesOnce'
  BY <1>7 DEF PagesOnce
<1>11. LowOnly'
  BY <1>3, <1>7 DEF LowOnly, Late
<1>12. Enough'
  BY ONLY <1>1, <1>2, <1>3, <1>4, <1>7 DEF Enough, Loop, During, Late
<1>13. Loop'
  BY <1>1, <1>2, <1>3 DEF Loop, Before, During, Late
<1>14. Started'
  BY <1>1, <1>2, <1>3, <1>8, BootAssumption DEF Started, Cpus
<1>15. OnTheWay'
  BY <1>1, <1>2, <1>3, <1>8 DEF OnTheWay, Early
<1>16. Allocator'
  BY <1>1, <1>2, <1>3, <1>8 DEF Allocator
<1>17. Stacks'
  <2>1. \A d \in Machine : ap'[d].stack = ap[d].stack /\ (ap'[d].pgdir = ap[d].pgdir \/ ap'[d].pgdir = "kpgdir")
    BY <1>8
  <2>2. owned \subseteq owned' /\ (main' \notin During \/ main' = main)
    BY <1>2, <1>3, <1>6 DEF During
  <2> QED
    BY <1>1, <1>2, <2>1, <2>2, StacksKept
<1>18. Outcome'
  BY <1>1, <1>2, <1>3 DEF Outcome, Before, Cpus
<1> QED
  BY <1>9, <1>10, <1>11, <1>12, <1>13, <1>14, <1>15, <1>16, <1>17, <1>18 DEF BootInv

\* A round of mpinit adds a processor to the table or skips an entry.
LEMMA mpinitKeeps ==
    ASSUME BootInv, mpinit
    PROVE  BootInv'
<1>1. /\ BootTypes /\ PagesOnce /\ LowOnly /\ Enough /\ Loop
      /\ Started /\ OnTheWay /\ Allocator /\ Stacks /\ Outcome
  BY DEF BootInv
<1>2. /\ main' = main /\ nextc' = nextc /\ word' = word /\ ap' = ap /\ bstarted' = bstarted /\ irq' = irq
      /\ pages' = pages /\ uselock' = uselock /\ alloc' = alloc /\ owned' = owned /\ bootpanic' = bootpanic
  BY DEF mpinit
<1>3. main = "mpinit" /\ main' = "mpinit"
  BY <1>2 DEF mpinit, MainAt
<1>4. mptab \in Seq(Kinds \X Machine) /\ mptab # <<>> /\ mptab' = Tail(mptab)
  BY <1>1 DEF mpinit, BootTypes
<1>5. mptab' \in Seq(Kinds \X Machine) /\ Head(mptab)[2] \in Machine
  <2> DEFINE S == Kinds \X Machine
  <2>1. Head(mptab) \in S /\ Tail(mptab) \in Seq(S)
    <3> HIDE DEF S
    <3>1. mptab \in Seq(S) /\ mptab # <<>>
      BY <1>4 DEF S
    <3> QED
      BY Zenon, <3>1, HeadTailProperties
  <2> QED
    BY <1>4, <2>1
<1>6. cpus' \in Seq(Machine) /\ Len(cpus') <= NCPU
  <2>1. cpus \in Seq(Machine) /\ Len(cpus) \in Nat /\ NCPU \in Nat /\ Len(cpus) <= NCPU
    BY <1>1, BootAssumption DEF BootTypes
  <2>2. cpus' = cpus \/ (cpus' = Append(cpus, Head(mptab)[2]) /\ Len(cpus) < NCPU)
    BY DEF mpinit
  <2>3. Append(cpus, Head(mptab)[2]) \in Seq(Machine) /\ Len(Append(cpus, Head(mptab)[2])) = Len(cpus) + 1
    BY <2>1, <1>5, AppendProperties
  <2> QED
    BY <2>1, <2>2, <2>3
<1>7. BootTypes'
  BY <1>1, <1>2, <1>3, <1>5, <1>6 DEF BootTypes, Before
<1>8. PagesOnce'
  BY <1>1, <1>2, <1>3 DEF PagesOnce
<1>9. LowOnly'
  BY <1>1, <1>2, <1>3 DEF LowOnly, Late
<1>10. Enough'
  BY <1>1, <1>2, <1>3 DEF Enough, During
<1>11. Loop'
  BY <1>1, <1>2, <1>3 DEF Loop, Before, During, Late, mpinit
<1>12. Started'
  BY <1>1, <1>2, <1>3 DEF Started, Cpus, mpinit
<1>13. OnTheWay'
  BY <1>1, <1>2, <1>3 DEF OnTheWay, Early, mpinit
<1>14. Allocator'
  BY <1>1, <1>2, <1>3 DEF Allocator
<1>15. Stacks'
  BY <1>1, <1>2, <1>3 DEF Stacks, During, mpinit
<1>16. Outcome'
  BY <1>1, <1>2, <1>3 DEF Outcome, Before, Cpus, mpinit
<1> QED
  BY <1>7, <1>8, <1>9, <1>10, <1>11, <1>12, <1>13, <1>14, <1>15, <1>16 DEF BootInv

\* The devices are set up: the boot processor must be in the table.
LEMMA devicesKeeps ==
    ASSUME BootInv, devices
    PROVE  BootInv'
<1>1. /\ BootTypes /\ PagesOnce /\ LowOnly /\ Enough /\ Loop
      /\ Started /\ OnTheWay /\ Allocator /\ Stacks /\ Outcome
  BY DEF BootInv
<1>2. /\ mptab' = mptab /\ cpus' = cpus /\ nextc' = nextc /\ word' = word /\ ap' = ap /\ bstarted' = bstarted
      /\ pages' = pages /\ uselock' = uselock /\ alloc' = alloc /\ owned' = owned
  BY DEF devices
<1>3. main = "mpinit" /\ main' = "startothers"
  BY <1>2 DEF devices, MainAt
<1>4. /\ Len(pages) \in Nat /\ Len(cpus) \in Nat /\ nextc \in Nat /\ LowPages \in Nat
      /\ Pages \in Nat /\ NCPU \in Nat
      /\ NCPU < LowPages /\ LowPages < Pages /\ Len(cpus) <= NCPU
  BY <1>1, BootAssumption DEF BootTypes
<1>5. bootpanic' = mycpuPanic(Bsp) /\ irq' = <<0, 0, Len(cpus) - 1>> /\ DOMAIN cpus = 1 .. Len(cpus)
  BY <1>1 DEF devices, BootTypes
<1>6. bootpanic' = "" <=> Bsp \in Cpus
  BY <1>5 DEF mycpuPanic, Cpus
<1>7. BootTypes'
  BY <1>1, <1>2, <1>3 DEF devices, BootTypes, Before, During, Late
<1>8. PagesOnce'
  BY <1>1, <1>2, <1>3 DEF PagesOnce
<1>9. LowOnly'
  BY <1>1, <1>2, <1>3 DEF LowOnly, Late
<1>10. Enough'
  BY <1>1, <1>2, <1>3, <1>4 DEF Enough, Loop, Before, During, Late
<1>11. Loop'
  BY <1>1, <1>2, <1>3 DEF Loop, Before, During, Late
<1>12. Started'
  BY <1>1, <1>2, <1>3 DEF Started, Cpus
<1>13. OnTheWay'
  BY <1>1, <1>2, <1>3 DEF OnTheWay, Early
<1>14. Allocator'
  BY <1>1, <1>2, <1>3 DEF Allocator
<1>15. Stacks'
  BY <1>1, <1>2, <1>3 DEF Stacks, During
<1>16. Outcome'
  <2>1. Cpus' = Cpus
    BY <1>2 DEF Cpus
  <2> QED
    BY <1>1, <1>2, <1>3, <1>5, <1>6, <2>1 DEF Outcome, Before
<1> QED
  BY <1>7, <1>8, <1>9, <1>10, <1>11, <1>12, <1>13, <1>14, <1>15, <1>16 DEF BootInv

\* startothers skips the boot processor.
LEMMA startSkipKeeps ==
    ASSUME BootInv, startSkip
    PROVE  BootInv'
<1>1. /\ BootTypes /\ PagesOnce /\ LowOnly /\ Enough /\ Loop
      /\ Started /\ OnTheWay /\ Allocator /\ Stacks /\ Outcome
  BY DEF BootInv
<1>2. /\ mptab' = mptab /\ cpus' = cpus /\ main' = main /\ word' = word /\ ap' = ap /\ bstarted' = bstarted
      /\ irq' = irq /\ pages' = pages /\ uselock' = uselock /\ alloc' = alloc /\ owned' = owned
      /\ bootpanic' = bootpanic
  BY DEF startSkip
<1>3. main = "startothers" /\ main' = "startothers"
  BY <1>2 DEF startSkip, MainAt
<1>4. /\ Len(pages) \in Nat /\ Len(cpus) \in Nat /\ nextc \in Nat /\ LowPages \in Nat
      /\ Pages \in Nat /\ NCPU \in Nat
      /\ NCPU < LowPages /\ LowPages < Pages /\ Len(cpus) <= NCPU
  BY <1>1, BootAssumption DEF BootTypes
<1>5. nextc' = nextc + 1
  BY DEF startSkip
<1>6. BootTypes'
  BY <1>1, <1>2, <1>3 DEF startSkip, BootTypes, Before, During, Late
<1>7. PagesOnce'
  BY <1>1, <1>2, <1>3 DEF PagesOnce
<1>8. LowOnly'
  BY <1>1, <1>2, <1>3 DEF LowOnly, Late
<1>9. Enough'
  BY ONLY <1>1, <1>2, <1>3, <1>4, <1>5 DEF Enough, Loop, During, Late
<1>10. Loop'
  BY <1>1, <1>2, <1>3 DEF Loop, Before, During, Late, startSkip
<1>11. Started'
  BY <1>1, <1>2, <1>3 DEF Started, Cpus
<1>12. OnTheWay'
  BY <1>1, <1>2, <1>3 DEF OnTheWay, Early, startSkip
<1>13. Allocator'
  BY <1>1, <1>2, <1>3 DEF Allocator
<1>14. Stacks'
  BY <1>1, <1>2, <1>3 DEF Stacks, During, startSkip
<1>15. Outcome'
  BY <1>1, <1>2, <1>3 DEF Outcome, Before, Cpus
<1> QED
  BY <1>6, <1>7, <1>8, <1>9, <1>10, <1>11, <1>12, <1>13, <1>14, <1>15 DEF BootInv

\* startothers takes a page for the next stack: it is nobody's yet.
LEMMA startWordsKeeps ==
    ASSUME BootInv, startWords
    PROVE  BootInv'
<1>1. /\ BootTypes /\ PagesOnce /\ LowOnly /\ Enough /\ Loop
      /\ Started /\ OnTheWay /\ Allocator /\ Stacks /\ Outcome
  BY DEF BootInv
<1>2. /\ mptab' = mptab /\ cpus' = cpus /\ nextc' = nextc /\ ap' = ap /\ bstarted' = bstarted /\ irq' = irq
      /\ uselock' = uselock /\ alloc' = alloc /\ bootpanic' = bootpanic
  BY DEF startWords
<1>3. main = "startothers" /\ main' = "lapicstartap"
  BY <1>2 DEF startWords, MainAt
<1>4. /\ Len(pages) \in Nat /\ Len(cpus) \in Nat /\ nextc \in Nat /\ LowPages \in Nat
      /\ Pages \in Nat /\ NCPU \in Nat
      /\ NCPU < LowPages /\ LowPages < Pages /\ Len(cpus) <= NCPU
  BY <1>1, BootAssumption DEF BootTypes
<1>5. nextc \in 1 .. Len(cpus) /\ nextc <= Len(cpus)
  BY <1>1 DEF startWords, BootTypes
<1>6. Len(pages) >= 1
  BY <1>1, <1>3, <1>4, <1>5 DEF Enough
<1>7. pages' = Tail(pages) /\ owned' = owned \cup {Head(pages)}
  BY DEF startWords
<1>8. /\ pages' \in Seq(1 .. Pages) /\ owned' \subseteq 1 .. Pages /\ Len(pages') = Len(pages) - 1
      /\ Head(pages) \in 1 .. Pages /\ Head(pages) \notin owned
      /\ \A i, j \in 1 .. Len(pages') : pages'[i] = pages'[j] => i = j
      /\ \A i \in 1 .. Len(pages') : pages'[i] \notin owned'
      /\ main \notin Late => (\A i \in 1 .. Len(pages') : pages'[i] <= LowPages)
                             /\ (\A f \in owned' : f <= LowPages) /\ Head(pages) <= LowPages
  BY <1>1, <1>6, <1>7, PageTaken
<1>9. word' = [stack |-> Head(pages), pgdir |-> "entrypgdir"] /\ cpus[nextc] # Bsp
  BY DEF startWords
<1>10. bootpanic = ""
  BY DEF startWords, MainAt
<1>11. BootTypes'
  BY <1>1, <1>2, <1>3, <1>8, <1>9 DEF BootTypes, Before, During, Late
<1>12. PagesOnce'
  BY <1>8 DEF PagesOnce
<1>13. LowOnly'
  BY <1>3, <1>8 DEF LowOnly, Late
<1>14. Enough'
  BY ONLY <1>1, <1>2, <1>3, <1>4, <1>8 DEF Enough, Loop, During, Late
<1>15. Loop'
  BY <1>1, <1>2, <1>3, <1>4, <1>9, <1>5 DEF Loop, Before, During, Late
<1>16. Started'
  BY <1>1, <1>2, <1>3 DEF Started, Cpus
<1>17. OnTheWay'
  BY <1>1, <1>2, <1>3 DEF OnTheWay, Early
<1>18. Allocator'
  BY <1>1, <1>2, <1>3 DEF Allocator, startWords
<1>19. Stacks'
  BY <1>1, <1>2, <1>3, <1>7, <1>8, <1>9 DEF Stacks, During, Late
<1>20. Outcome'
  BY <1>1, <1>2, <1>3, <1>10 DEF Outcome, Before, Cpus
<1> QED
  BY <1>11, <1>12, <1>13, <1>14, <1>15, <1>16, <1>17, <1>18, <1>19, <1>20 DEF BootInv

\* The STARTUP sends one halted processor on its way.
LEMMA lapicstartapKeeps ==
    ASSUME BootInv, lapicstartap
    PROVE  BootInv'
<1>1. /\ BootTypes /\ PagesOnce /\ LowOnly /\ Enough /\ Loop
      /\ Started /\ OnTheWay /\ Allocator /\ Stacks /\ Outcome
  BY DEF BootInv
<1>2. /\ mptab' = mptab /\ cpus' = cpus /\ nextc' = nextc /\ word' = word /\ bstarted' = bstarted /\ irq' = irq
      /\ pages' = pages /\ uselock' = uselock /\ alloc' = alloc /\ owned' = owned /\ bootpanic' = bootpanic
  BY DEF lapicstartap
<1>3. main = "lapicstartap" /\ main' = "wait"
  BY <1>2 DEF lapicstartap, MainAt
<1>4. nextc \in 1 .. Len(cpus) /\ cpus[nextc] # Bsp /\ cpus \in Seq(Machine)
  BY <1>1, <1>3 DEF Loop, During, BootTypes
<1>5. PICK c \in Machine : c = cpus[nextc] /\ c # Bsp
  <2>1. cpus[nextc] \in Machine
    BY Zenon, <1>4, ElementOfSeq
  <2> QED
    BY <1>4, <2>1
<1>6. /\ ap' \in [Machine -> Entry]
      /\ ap'[c].pc = (IF ap[c].pc = "halted" THEN "start" ELSE ap[c].pc)
      /\ ap'[c].stack = ap[c].stack /\ ap'[c].pgdir = ap[c].pgdir
      /\ \A d \in Machine : d # c => ap'[d] = ap[d]
  <2> DEFINE to == IF ap[c].pc = "halted" THEN "start" ELSE ap[c].pc
  <2>1. ap' = [ap EXCEPT ![c].pc = to]
    BY <1>5 DEF lapicstartap
  <2>2. to \in Early \cup {"main", "halted", "scheduler", "kalloc"}
    BY <1>1 DEF BootTypes, Entry, Early
  <2>3. to = IF ap[c].pc = "halted" THEN "start" ELSE ap[c].pc
    OBVIOUS
  <2> HIDE DEF to
  <2> QED
    BY Zenon, <1>1, <2>1, <2>2, <2>3, PlaceChanges
<1>7. BootTypes'
  BY <1>1, <1>2, <1>3, <1>5, <1>6 DEF BootTypes, During
<1>8. PagesOnce'
  BY <1>1, <1>2, <1>3 DEF PagesOnce
<1>9. LowOnly'
  BY <1>1, <1>2, <1>3 DEF LowOnly, Late
<1>10. Enough'
  BY <1>1, <1>2, <1>3 DEF Enough, During
<1>11. Loop'
  BY <1>1, <1>2, <1>3 DEF Loop, Before, During, Late
<1>12. Started'
  <2>1. \A d \in Machine : d \in bstarted <=> ap'[d].pc \in {"scheduler", "kalloc"}
    <3> TAKE d \in Machine
    <3>1. CASE d = c
      BY <1>1, <1>6, <3>1 DEF Started
    <3>2. CASE d # c
      BY <1>1, <1>6, <3>2 DEF Started
    <3> QED
      BY <3>1, <3>2
  <2>2. ap'[Bsp].pc = "main"
    BY <1>1, <1>3, <1>5, <1>6, BootAssumption DEF Started
  <2>3. Cpus' = Cpus
    BY <1>2 DEF Cpus
  <2> QED
    BY <1>1, <1>2, <1>3, <2>1, <2>2, <2>3 DEF Started
<1>13. OnTheWay'
  BY <1>1, <1>2, <1>3, <1>5, <1>6 DEF OnTheWay, Early
<1>14. Allocator'
  BY <1>1, <1>2, <1>3, <1>5, <1>6 DEF Allocator, Early
<1>15. Stacks'
  BY <1>1, <1>2, <1>3, <1>5, <1>6 DEF Stacks, During
<1>16. Outcome'
  BY <1>1, <1>2, <1>3 DEF Outcome, Before, Cpus
<1> QED
  BY <1>7, <1>8, <1>9, <1>10, <1>11, <1>12, <1>13, <1>14, <1>15, <1>16 DEF BootInv

\* The one waited for has come to its scheduler: nobody is on the way.
LEMMA waitStartedKeeps ==
    ASSUME BootInv, waitStarted
    PROVE  BootInv'
<1>1. /\ BootTypes /\ PagesOnce /\ LowOnly /\ Enough /\ Loop
      /\ Started /\ OnTheWay /\ Allocator /\ Stacks /\ Outcome
  BY DEF BootInv
<1>2. /\ mptab' = mptab /\ cpus' = cpus /\ word' = word /\ ap' = ap /\ bstarted' = bstarted /\ irq' = irq
      /\ pages' = pages /\ uselock' = uselock /\ alloc' = alloc /\ owned' = owned /\ bootpanic' = bootpanic
  BY DEF waitStarted
<1>3. main = "wait" /\ main' = "startothers"
  BY <1>2 DEF waitStarted, MainAt
<1>4. /\ Len(pages) \in Nat /\ Len(cpus) \in Nat /\ nextc \in Nat /\ LowPages \in Nat
      /\ Pages \in Nat /\ NCPU \in Nat
      /\ NCPU < LowPages /\ LowPages < Pages /\ Len(cpus) <= NCPU
  BY <1>1, BootAssumption DEF BootTypes
<1>5. nextc' = nextc + 1 /\ cpus[nextc] \in bstarted
  BY DEF waitStarted
<1>6. BootTypes'
  BY <1>1, <1>2, <1>3 DEF waitStarted, BootTypes, Before, During, Late
<1>7. PagesOnce'
  BY <1>1, <1>2, <1>3 DEF PagesOnce
<1>8. LowOnly'
  BY <1>1, <1>2, <1>3 DEF LowOnly, Late
<1>9. Enough'
  BY ONLY <1>1, <1>2, <1>3, <1>4, <1>5 DEF Enough, Loop, During, Late
<1>10. Loop'
  BY <1>1, <1>2, <1>3, <1>4, <1>5 DEF Loop, Before, During, Late
<1>11. Started'
  BY <1>1, <1>2, <1>3 DEF Started, Cpus
<1>12. OnTheWay'
  BY <1>1, <1>2, <1>3, <1>5 DEF OnTheWay, Started, Early
<1>13. Allocator'
  BY <1>1, <1>2, <1>3 DEF Allocator
<1>14. Stacks'
  BY <1>1, <1>2, <1>3 DEF Stacks, During, waitStarted
<1>15. Outcome'
  BY <1>1, <1>2, <1>3 DEF Outcome, Before, Cpus
<1> QED
  BY <1>6, <1>7, <1>8, <1>9, <1>10, <1>11, <1>12, <1>13, <1>14, <1>15 DEF BootInv

\* kinit2 frees the high pages, none of which was free or in use.
LEMMA kinit2Keeps ==
    ASSUME BootInv, kinit2
    PROVE  BootInv'
<1>1. /\ BootTypes /\ PagesOnce /\ LowOnly /\ Enough /\ Loop
      /\ Started /\ OnTheWay /\ Allocator /\ Stacks /\ Outcome
  BY DEF BootInv
<1>2. /\ mptab' = mptab /\ cpus' = cpus /\ nextc' = nextc /\ word' = word /\ ap' = ap /\ bstarted' = bstarted
      /\ irq' = irq /\ uselock' = uselock /\ alloc' = alloc /\ owned' = owned /\ bootpanic' = bootpanic
  BY DEF kinit2
<1>3. main = "startothers" /\ main' = "use_lock"
  BY <1>2 DEF kinit2, MainAt
<1>4. nextc \notin 1 .. Len(cpus) /\ bootpanic = "" /\ nextc = Len(cpus) + 1
  <2>1. nextc \notin DOMAIN cpus /\ bootpanic = ""
    BY DEF kinit2, MainAt
  <2>2. cpus \in Seq(Machine) /\ nextc \in Nat
    BY <1>1 DEF BootTypes
  <2>3. DOMAIN cpus = 1 .. Len(cpus) /\ Len(cpus) \in Nat
    BY ONLY <2>2
  <2>4. nextc >= 1 /\ nextc <= Len(cpus) + 1
    BY <1>1 DEF Loop
  <2>5. nextc \notin 1 .. Len(cpus)
    BY Zenon, <2>1, <2>3
  <2> DEFINE n == Len(cpus)
  <2>6. n \in Nat /\ nextc \in Nat /\ nextc >= 1 /\ nextc <= n + 1 /\ nextc \notin 1 .. n
    BY <2>2, <2>3, <2>4, <2>5
  <2> HIDE DEF n
  <2>7. nextc = n + 1
    BY ONLY <2>6
  <2> QED
    BY <2>1, <2>5, <2>7 DEF n
<1>5. /\ Len(pages) \in Nat /\ Len(cpus) \in Nat /\ nextc \in Nat /\ LowPages \in Nat
      /\ Pages \in Nat /\ NCPU \in Nat
      /\ NCPU < LowPages /\ LowPages < Pages /\ Len(cpus) <= NCPU
  BY <1>1, BootAssumption DEF BootTypes
<1>6. pages' = freerange(LowPages + 1, Pages)
  BY DEF kinit2
<1>7. /\ (LowPages + 1) \in Nat /\ Pages \in Nat /\ 1 <= LowPages + 1 /\ LowPages + 1 <= Pages + 1
      /\ Pages <= Pages
      /\ (\A i \in 1 .. Len(pages) : pages[i] < LowPages + 1) /\ (\A f \in owned : f < LowPages + 1)
  <2>1. \A i \in 1 .. Len(pages) : pages[i] \in 1 .. Pages
    BY Zenon, <1>1, ElementOfSeq DEF BootTypes
  <2>2. \A f \in owned : f \in 1 .. Pages
    BY <1>1 DEF BootTypes
  <2> QED
    BY <1>1, <1>3, <1>5, <2>1, <2>2 DEF LowOnly, Late
<1>8. /\ pages' \in Seq(1 .. Pages) /\ Len(pages') = (Pages - (LowPages + 1) + 1) + Len(pages)
      /\ \A i, j \in 1 .. Len(pages') : pages'[i] = pages'[j] => i = j
      /\ \A i \in 1 .. Len(pages') : pages'[i] \notin owned
      /\ \A i \in 1 .. Len(pages') : pages'[i] <= Pages \/ pages'[i] < LowPages + 1
  BY <1>1, <1>7, <1>6, PagesFreed
<1>9. BootTypes'
  BY <1>1, <1>2, <1>3, <1>8 DEF BootTypes, Before, During, Late, kinit2
<1>10. PagesOnce'
  BY <1>2, <1>8 DEF PagesOnce
<1>11. LowOnly'
  BY <1>1, <1>2, <1>3 DEF LowOnly, Late, kinit2
<1>12. Enough'
  BY ONLY <1>1, <1>2, <1>3, <1>5, <1>8 DEF Enough, Loop, During, Late
<1>13. Loop'
  BY <1>1, <1>2, <1>3, <1>5, <1>4 DEF Loop, Before, During, Late
<1>14. Started'
  BY <1>1, <1>2, <1>3 DEF Started, Cpus
<1>15. OnTheWay'
  BY <1>1, <1>2, <1>3 DEF OnTheWay, Early
<1>16. Allocator'
  BY <1>1, <1>2, <1>3 DEF Allocator, kinit2
<1>17. Stacks'
  BY <1>1, <1>2, <1>3 DEF Stacks, During
<1>18. Outcome'
  BY <1>1, <1>2, <1>3, <1>4 DEF Outcome, Before, Cpus
<1> QED
  BY <1>9, <1>10, <1>11, <1>12, <1>13, <1>14, <1>15, <1>16, <1>17, <1>18 DEF BootInv

\* The allocator's lock is turned on.
LEMMA kinit2LockKeeps ==
    ASSUME BootInv, kinit2Lock
    PROVE  BootInv'
<1>1. /\ BootTypes /\ PagesOnce /\ LowOnly /\ Enough /\ Loop
      /\ Started /\ OnTheWay /\ Allocator /\ Stacks /\ Outcome
  BY DEF BootInv
<1>2. /\ mptab' = mptab /\ cpus' = cpus /\ nextc' = nextc /\ word' = word /\ ap' = ap /\ bstarted' = bstarted
      /\ irq' = irq /\ pages' = pages /\ alloc' = alloc /\ owned' = owned /\ bootpanic' = bootpanic
  BY DEF kinit2Lock
<1>3. main = "use_lock" /\ main' = "userinit"
  BY <1>2 DEF kinit2Lock, MainAt
<1>4. BootTypes'
  BY <1>1, <1>2, <1>3 DEF kinit2Lock, BootTypes, Before, During, Late
<1>5. PagesOnce'
  BY <1>1, <1>2, <1>3 DEF PagesOnce
<1>6. LowOnly'
  BY <1>1, <1>2, <1>3 DEF LowOnly, Late
<1>7. Enough'
  BY <1>1, <1>2, <1>3 DEF Enough, During
<1>8. Loop'
  BY <1>1, <1>2, <1>3 DEF Loop, Before, During, Late
<1>9. Started'
  BY <1>1, <1>2, <1>3 DEF Started, Cpus
<1>10. OnTheWay'
  BY <1>1, <1>2, <1>3 DEF OnTheWay, Early
<1>11. Allocator'
  BY <1>1, <1>2, <1>3 DEF Allocator, kinit2Lock
<1>12. Stacks'
  BY <1>1, <1>2, <1>3 DEF Stacks, During
<1>13. Outcome'
  BY <1>1, <1>2, <1>3 DEF Outcome, Before, Cpus
<1> QED
  BY <1>4, <1>5, <1>6, <1>7, <1>8, <1>9, <1>10, <1>11, <1>12, <1>13 DEF BootInv

\* The first process takes a page.
LEMMA userinitKeeps ==
    ASSUME BootInv, userinit
    PROVE  BootInv'
<1>1. /\ BootTypes /\ PagesOnce /\ LowOnly /\ Enough /\ Loop
      /\ Started /\ OnTheWay /\ Allocator /\ Stacks /\ Outcome
  BY DEF BootInv
<1>2. /\ mptab' = mptab /\ cpus' = cpus /\ nextc' = nextc /\ word' = word /\ ap' = ap /\ bstarted' = bstarted
      /\ irq' = irq /\ uselock' = uselock /\ alloc' = alloc /\ bootpanic' = bootpanic
  BY DEF userinit
<1>3. main = "userinit" /\ main' = "mpmain"
  BY <1>2 DEF userinit, MainAt
<1>4. /\ Len(pages) \in Nat /\ Len(cpus) \in Nat /\ nextc \in Nat /\ LowPages \in Nat
      /\ Pages \in Nat /\ NCPU \in Nat
      /\ NCPU < LowPages /\ LowPages < Pages /\ Len(cpus) <= NCPU
  BY <1>1, BootAssumption DEF BootTypes
<1>5. Len(pages) >= 1
  BY <1>1, <1>3 DEF Enough
<1>6. pages' = Tail(pages) /\ owned' = owned \cup {Head(pages)}
  BY DEF userinit
<1>7. /\ pages' \in Seq(1 .. Pages) /\ owned' \subseteq 1 .. Pages /\ Len(pages') = Len(pages) - 1
      /\ Head(pages) \in 1 .. Pages /\ Head(pages) \notin owned
      /\ \A i, j \in 1 .. Len(pages') : pages'[i] = pages'[j] => i = j
      /\ \A i \in 1 .. Len(pages') : pages'[i] \notin owned'
      /\ main \notin Late => (\A i \in 1 .. Len(pages') : pages'[i] <= LowPages)
                             /\ (\A f \in owned' : f <= LowPages) /\ Head(pages) <= LowPages
  BY <1>1, <1>5, <1>6, PageTaken
<1>8. BootTypes'
  BY <1>1, <1>2, <1>3, <1>7 DEF BootTypes, Before, During, Late
<1>9. PagesOnce'
  BY <1>7 DEF PagesOnce
<1>10. LowOnly'
  BY <1>3, <1>7 DEF LowOnly, Late
<1>11. Enough'
  BY ONLY <1>1, <1>2, <1>3, <1>4, <1>7 DEF Enough, Loop, During, Late
<1>12. Loop'
  BY <1>1, <1>2, <1>3 DEF Loop, Before, During, Late
<1>13. Started'
  BY <1>1, <1>2, <1>3 DEF Started, Cpus
<1>14. OnTheWay'
  BY <1>1, <1>2, <1>3 DEF OnTheWay, Early
<1>15. Allocator'
  BY <1>1, <1>2, <1>3 DEF Allocator, userinit
<1>16. Stacks'
  BY <1>1, <1>2, <1>3, <1>6 DEF Stacks, During
<1>17. Outcome'
  BY <1>1, <1>2, <1>3 DEF Outcome, Before, Cpus
<1> QED
  BY <1>8, <1>9, <1>10, <1>11, <1>12, <1>13, <1>14, <1>15, <1>16, <1>17 DEF BootInv

\* The boot processor schedules: all of the table run.
LEMMA bspMpmainKeeps ==
    ASSUME BootInv, bspMpmain
    PROVE  BootInv'
<1>1. /\ BootTypes /\ PagesOnce /\ LowOnly /\ Enough /\ Loop
      /\ Started /\ OnTheWay /\ Allocator /\ Stacks /\ Outcome
  BY DEF BootInv
<1>2. /\ mptab' = mptab /\ cpus' = cpus /\ nextc' = nextc /\ word' = word /\ irq' = irq /\ pages' = pages
      /\ uselock' = uselock /\ alloc' = alloc /\ owned' = owned /\ bootpanic' = bootpanic
  BY DEF bspMpmain
<1>3. main = "mpmain" /\ main' = "scheduler"
  BY <1>2 DEF bspMpmain, MainAt
<1>4. PICK c \in Machine : c = Bsp
  BY BootAssumption
<1>5. bootpanic = "" /\ bstarted' = bstarted \cup {Bsp}
  BY DEF bspMpmain, MainAt
<1>6. /\ ap' \in [Machine -> Entry]
      /\ ap'[c].pc = "scheduler" /\ ap'[c].stack = ap[c].stack /\ ap'[c].pgdir = ap[c].pgdir
      /\ \A d \in Machine : d # c => ap'[d] = ap[d]
  <2>1. ap' = [ap EXCEPT ![c].pc = "scheduler"]
    BY <1>4 DEF bspMpmain
  <2>2. "scheduler" \in Early \cup {"main", "halted", "scheduler", "kalloc"}
    OBVIOUS
  <2> QED
    BY Zenon, <1>1, <2>1, <2>2, PlaceChanges
<1>7. BootTypes'
  BY <1>1, <1>2, <1>3, <1>4, <1>6, <1>5 DEF BootTypes, Late
<1>8. PagesOnce'
  BY <1>1, <1>2, <1>3 DEF PagesOnce
<1>9. LowOnly'
  BY <1>1, <1>2, <1>3 DEF LowOnly, Late
<1>10. Enough'
  BY <1>1, <1>2, <1>3 DEF Enough, During
<1>11. Loop'
  BY <1>1, <1>2, <1>3 DEF Loop, Before, During, Late, bspMpmain
<1>12. Started'
  <2>1. Bsp \in Cpus /\ Cpus' = Cpus
    BY <1>1, <1>2, <1>3, <1>5 DEF Outcome, Before, Cpus
  <2>2. /\ \A d \in Machine : d \in bstarted <=> ap[d].pc \in {"scheduler", "kalloc"}
        /\ bstarted \subseteq Cpus
    BY <1>1 DEF Started
  <2>3. \A d \in Machine : d \in bstarted' <=> ap'[d].pc \in {"scheduler", "kalloc"}
    BY <1>4, <1>5, <1>6, <2>2
  <2>4. bstarted' \subseteq Cpus' /\ Bsp \in bstarted'
    BY <1>5, <2>1, <2>2
  <2> QED
    BY <1>3, <2>3, <2>4 DEF Started
<1>13. OnTheWay'
  BY <1>1, <1>2, <1>3, <1>4, <1>6 DEF OnTheWay, Early
<1>14. Allocator'
  BY <1>1, <1>2, <1>3, <1>4, <1>6 DEF Allocator, Started
<1>15. Stacks'
  <2>1. \A d \in Machine : ap'[d].stack = ap[d].stack /\ (ap'[d].pgdir = ap[d].pgdir \/ ap'[d].pgdir = "kpgdir")
    BY <1>6
  <2>2. owned \subseteq owned' /\ (main' \notin During \/ main' = main)
    BY <1>2, <1>3 DEF During
  <2> QED
    BY <1>1, <1>2, <2>1, <2>2, StacksKept
<1>16. Outcome'
  BY <1>1, <1>2, <1>3 DEF Outcome, Before, Cpus
<1> QED
  BY <1>7, <1>8, <1>9, <1>10, <1>11, <1>12, <1>13, <1>14, <1>15, <1>16 DEF BootInv

\* A processor loads the page directory, and has no stack.
LEMMA start32Keeps ==
    ASSUME BootInv, NEW c \in Machine, start32(c)
    PROVE  BootInv'
<1>1. /\ BootTypes /\ PagesOnce /\ LowOnly /\ Enough /\ Loop
      /\ Started /\ OnTheWay /\ Allocator /\ Stacks /\ Outcome
  BY DEF BootInv
<1>2. /\ mptab' = mptab /\ cpus' = cpus /\ main' = main /\ nextc' = nextc /\ word' = word
      /\ bstarted' = bstarted
      /\ irq' = irq /\ pages' = pages /\ uselock' = uselock /\ alloc' = alloc /\ owned' = owned
      /\ bootpanic' = bootpanic
  BY DEF start32, Ap
<1>3. main' = main
  BY <1>2
<1>4. bootpanic = "" /\ ap[c].pc = "start"
  BY DEF start32, Ap
<1>5. /\ ap \in [Machine -> Entry] /\ ap[c].pgdir \in {"none", "entrypgdir", "kpgdir"} /\ ap[c].stack \in Nat
      /\ word.stack \in Nat /\ word.pgdir \in {"none", "entrypgdir"}
  BY <1>1 DEF BootTypes, Entry
<1>6. [pc |-> "esp", pgdir |-> word.pgdir, stack |-> 0] \in Entry
  BY <1>5 DEF Entry, Early
<1>7. /\ ap' \in [Machine -> Entry]
      /\ ap'[c].pc = "esp" /\ ap'[c].stack = 0 /\ ap'[c].pgdir = word.pgdir
      /\ \A d \in Machine : d # c => ap'[d] = ap[d]
  <2>1. ap' = [ap EXCEPT ![c] = [pc |-> "esp", pgdir |-> word.pgdir, stack |-> 0]]
    BY DEF start32
  <2> QED
    BY <1>1, <1>6, <2>1, EntryChanges
<1>8. BootTypes'
  BY <1>1, <1>2, <1>3, <1>4, <1>7 DEF BootTypes
<1>9. PagesOnce'
  BY <1>1, <1>2, <1>3 DEF PagesOnce
<1>10. LowOnly'
  BY <1>1, <1>2, <1>3 DEF LowOnly, Late
<1>11. Enough'
  BY <1>1, <1>2, <1>3 DEF Enough, During
<1>12. Loop'
  BY <1>1, <1>2, <1>3 DEF Loop, Before, During, Late
<1>13. Started'
  <2>1. ap[c].pc # "main" /\ (c \in bstarted' <=> ap'[c].pc \in {"scheduler", "kalloc"})
    BY <1>1, <1>2, <1>4, <1>7 DEF Started
  <2>2. \A d \in Machine : d # c => ap'[d].pc = ap[d].pc
    BY <1>7
  <2> QED
    BY <1>1, <1>2, <1>3, <2>1, <2>2, StartedKept
<1>14. OnTheWay'
  BY <1>1, <1>2, <1>3, <1>4, <1>7, <1>5 DEF OnTheWay, Early
<1>15. Allocator'
  BY <1>1, <1>2, <1>3, <1>4, <1>7, <1>5 DEF Allocator, Early
<1>16. Stacks'
  <2>1. \A d \in Machine : ap'[d].stack # 0 =>
          d # c /\ ap'[d] = ap[d] /\ ap'[d].stack \in owned' /\ (ap'[d].pgdir = "kpgdir" \/ ap'[d].stack <= LowPages)
    BY <1>1, <1>2, <1>7 DEF Stacks
  <2>2. \A d, e \in Machine : ap'[d].stack # 0 /\ ap'[d].stack = ap'[e].stack => d = e
    BY <1>1, <2>1 DEF Stacks
  <2>3. main' \in During =>
         /\ word'.stack \in owned' /\ word'.stack <= LowPages
         /\ \A d \in Machine : ap'[d].stack = word'.stack => main' = "wait" /\ d = cpus'[nextc']
    <3> SUFFICES ASSUME main' \in During
                 PROVE  /\ word'.stack \in owned' /\ word'.stack <= LowPages
                        /\ \A d \in Machine : ap'[d].stack = word'.stack => main' = "wait" /\ d = cpus'[nextc']
      OBVIOUS
    <3>1. word.stack \in owned /\ word.stack <= LowPages /\ word.stack # 0
      BY <1>1, <1>3 DEF Stacks, BootTypes
    <3>2. \A d \in Machine : ap'[d].stack = word.stack => main = "wait" /\ d = cpus[nextc]
      BY <1>1, <1>3, <2>1, <3>1 DEF Stacks
    <3> QED
      BY <1>2, <3>1, <3>2
  <2> QED
    BY <2>1, <2>2, <2>3 DEF Stacks
<1>17. Outcome'
  BY <1>1, <1>2, <1>3 DEF Outcome, Before, Cpus
<1> QED
  BY <1>8, <1>9, <1>10, <1>11, <1>12, <1>13, <1>14, <1>15, <1>16, <1>17 DEF BootInv

\* It loads the stack of the word, which nobody else has.
LEMMA loadStackKeeps ==
    ASSUME BootInv, NEW c \in Machine, loadStack(c)
    PROVE  BootInv'
<1>1. /\ BootTypes /\ PagesOnce /\ LowOnly /\ Enough /\ Loop
      /\ Started /\ OnTheWay /\ Allocator /\ Stacks /\ Outcome
  BY DEF BootInv
<1>2. /\ mptab' = mptab /\ cpus' = cpus /\ main' = main /\ nextc' = nextc /\ word' = word
      /\ bstarted' = bstarted
      /\ irq' = irq /\ pages' = pages /\ uselock' = uselock /\ alloc' = alloc /\ owned' = owned
      /\ bootpanic' = bootpanic
  BY DEF loadStack, Ap
<1>3. main' = main
  BY <1>2
<1>4. bootpanic = "" /\ ap[c].pc = "esp"
  BY DEF loadStack, Ap
<1>5. /\ ap \in [Machine -> Entry] /\ ap[c].pgdir \in {"none", "entrypgdir", "kpgdir"} /\ ap[c].stack \in Nat
      /\ word.stack \in Nat /\ word.pgdir \in {"none", "entrypgdir"}
  BY <1>1 DEF BootTypes, Entry
<1>6. [pc |-> "mpenter", pgdir |-> ap[c].pgdir, stack |-> word.stack] \in Entry
  BY <1>5 DEF Entry, Early
<1>7. /\ ap' \in [Machine -> Entry]
      /\ ap'[c].pc = "mpenter" /\ ap'[c].stack = word.stack /\ ap'[c].pgdir = ap[c].pgdir
      /\ \A d \in Machine : d # c => ap'[d] = ap[d]
  <2>1. ap' = [ap EXCEPT ![c] = [pc |-> "mpenter", pgdir |-> ap[c].pgdir, stack |-> word.stack]]
    BY DEF loadStack
  <2> QED
    BY <1>1, <1>6, <2>1, EntryChanges
<1>8. BootTypes'
  BY <1>1, <1>2, <1>3, <1>4, <1>7 DEF BootTypes
<1>9. PagesOnce'
  BY <1>1, <1>2, <1>3 DEF PagesOnce
<1>10. LowOnly'
  BY <1>1, <1>2, <1>3 DEF LowOnly, Late
<1>11. Enough'
  BY <1>1, <1>2, <1>3 DEF Enough, During
<1>12. Loop'
  BY <1>1, <1>2, <1>3 DEF Loop, Before, During, Late
<1>13. Started'
  <2>1. ap[c].pc # "main" /\ (c \in bstarted' <=> ap'[c].pc \in {"scheduler", "kalloc"})
    BY <1>1, <1>2, <1>4, <1>7 DEF Started
  <2>2. \A d \in Machine : d # c => ap'[d].pc = ap[d].pc
    BY <1>7
  <2> QED
    BY <1>1, <1>2, <1>3, <2>1, <2>2, StartedKept
<1>14. OnTheWay'
  BY <1>1, <1>2, <1>3, <1>4, <1>7, <1>5 DEF OnTheWay, Early
<1>15. Allocator'
  BY <1>1, <1>2, <1>3, <1>4, <1>7, <1>5 DEF Allocator, Early
<1>16. Stacks'
  <2>1. main = "wait" /\ c = cpus[nextc] /\ main \in During
    BY <1>1, <1>4 DEF OnTheWay, Early, During
  <2>2. /\ word.stack \in owned /\ word.stack <= LowPages
        /\ \A d \in Machine : d # c => ap[d].stack # word.stack
    BY <1>1, <2>1 DEF Stacks
  <2>3. \A d \in Machine : ap'[d].stack # 0 =>
          ap'[d].stack \in owned' /\ (ap'[d].pgdir = "kpgdir" \/ ap'[d].stack <= LowPages)
    BY <1>1, <1>2, <1>7, <2>2 DEF Stacks
  <2>4. \A d, e \in Machine : ap'[d].stack # 0 /\ ap'[d].stack = ap'[e].stack => d = e
    BY <1>1, <1>7, <2>2 DEF Stacks
  <2>5. \A d \in Machine : ap'[d].stack = word'.stack => main' = "wait" /\ d = cpus'[nextc']
    BY <1>2, <1>7, <2>1, <2>2
  <2> QED
    BY <1>2, <2>2, <2>3, <2>4, <2>5 DEF Stacks
<1>17. Outcome'
  BY <1>1, <1>2, <1>3 DEF Outcome, Before, Cpus
<1> QED
  BY <1>8, <1>9, <1>10, <1>11, <1>12, <1>13, <1>14, <1>15, <1>16, <1>17 DEF BootInv

\* It changes to the kernel's page table, and finds itself in the table.
LEMMA mpenterKeeps ==
    ASSUME BootInv, NEW c \in Machine, mpenter(c)
    PROVE  BootInv'
<1>1. /\ BootTypes /\ PagesOnce /\ LowOnly /\ Enough /\ Loop
      /\ Started /\ OnTheWay /\ Allocator /\ Stacks /\ Outcome
  BY DEF BootInv
<1>2. /\ mptab' = mptab /\ cpus' = cpus /\ main' = main /\ nextc' = nextc /\ word' = word
      /\ bstarted' = bstarted
      /\ irq' = irq /\ pages' = pages /\ uselock' = uselock /\ alloc' = alloc /\ owned' = owned
  BY DEF mpenter, Ap
<1>3. main' = main
  BY <1>2
<1>4. bootpanic = "" /\ ap[c].pc = "mpenter"
  BY DEF mpenter, Ap
<1>5. /\ ap \in [Machine -> Entry] /\ ap[c].pgdir \in {"none", "entrypgdir", "kpgdir"} /\ ap[c].stack \in Nat
      /\ word.stack \in Nat /\ word.pgdir \in {"none", "entrypgdir"}
  BY <1>1 DEF BootTypes, Entry
<1>6. [pc |-> "mpmain", pgdir |-> "kpgdir", stack |-> ap[c].stack] \in Entry
  BY <1>5 DEF Entry, Early
<1>7. /\ ap' \in [Machine -> Entry]
      /\ ap'[c].pc = "mpmain" /\ ap'[c].stack = ap[c].stack /\ ap'[c].pgdir = "kpgdir"
      /\ \A d \in Machine : d # c => ap'[d] = ap[d]
  <2>1. ap' = [ap EXCEPT ![c] = [pc |-> "mpmain", pgdir |-> "kpgdir", stack |-> ap[c].stack]]
    BY DEF mpenter
  <2> QED
    BY <1>1, <1>6, <2>1, EntryChanges
<1>8. bootpanic' = ""
  <2>1. ap[c].pc \in Early
    BY <1>4 DEF Early
  <2>2. \E i \in DOMAIN cpus : cpus[i] = c
    BY <1>1, <2>1, OnTheWayListed
  <2>3. bootpanic' = mycpuPanic(c)
    BY DEF mpenter
  <2> QED
    BY <2>2, <2>3 DEF mycpuPanic
<1>9. BootTypes'
  BY <1>1, <1>2, <1>3, <1>4, <1>7 DEF BootTypes
<1>10. PagesOnce'
  BY <1>1, <1>2, <1>3 DEF PagesOnce
<1>11. LowOnly'
  BY <1>1, <1>2, <1>3 DEF LowOnly, Late
<1>12. Enough'
  BY <1>1, <1>2, <1>3 DEF Enough, During
<1>13. Loop'
  BY <1>1, <1>2, <1>3 DEF Loop, Before, During, Late
<1>14. Started'
  <2>1. ap[c].pc # "main" /\ (c \in bstarted' <=> ap'[c].pc \in {"scheduler", "kalloc"})
    BY <1>1, <1>2, <1>4, <1>7 DEF Started
  <2>2. \A d \in Machine : d # c => ap'[d].pc = ap[d].pc
    BY <1>7
  <2> QED
    BY <1>1, <1>2, <1>3, <2>1, <2>2, StartedKept
<1>15. OnTheWay'
  BY <1>1, <1>2, <1>3, <1>4, <1>7, <1>5 DEF OnTheWay, Early
<1>16. Allocator'
  BY <1>1, <1>2, <1>3, <1>4, <1>7, <1>5 DEF Allocator, Early
<1>17. Stacks'
  <2>1. \A d \in Machine : ap'[d].stack = ap[d].stack /\ (ap'[d].pgdir = ap[d].pgdir \/ ap'[d].pgdir = "kpgdir")
    BY <1>7
  <2>2. owned \subseteq owned' /\ (main' \notin During \/ main' = main)
    BY <1>2, <1>3 DEF During
  <2> QED
    BY <1>1, <1>2, <2>1, <2>2, StacksKept
<1>18. Outcome'
  BY <1>1, <1>2, <1>3, <1>4, <1>8 DEF Outcome, Before, Cpus
<1> QED
  BY <1>9, <1>10, <1>11, <1>12, <1>13, <1>14, <1>15, <1>16, <1>17, <1>18 DEF BootInv

\* It sets its flag.
LEMMA mpmainKeeps ==
    ASSUME BootInv, NEW c \in Machine, mpmain(c)
    PROVE  BootInv'
<1>1. /\ BootTypes /\ PagesOnce /\ LowOnly /\ Enough /\ Loop
      /\ Started /\ OnTheWay /\ Allocator /\ Stacks /\ Outcome
  BY DEF BootInv
<1>2. /\ mptab' = mptab /\ cpus' = cpus /\ main' = main /\ nextc' = nextc /\ word' = word /\ irq' = irq
      /\ pages' = pages /\ uselock' = uselock /\ alloc' = alloc /\ owned' = owned /\ bootpanic' = bootpanic
  BY DEF mpmain, Ap
<1>3. main' = main
  BY <1>2
<1>4. bootpanic = "" /\ ap[c].pc = "mpmain" /\ bstarted' = bstarted \cup {c}
  BY DEF mpmain, Ap
<1>5. /\ ap \in [Machine -> Entry] /\ ap[c].pgdir \in {"none", "entrypgdir", "kpgdir"} /\ ap[c].stack \in Nat
      /\ word.stack \in Nat /\ word.pgdir \in {"none", "entrypgdir"}
  BY <1>1 DEF BootTypes, Entry
<1>6. /\ ap' \in [Machine -> Entry]
      /\ ap'[c].pc = "scheduler" /\ ap'[c].stack = ap[c].stack /\ ap'[c].pgdir = ap[c].pgdir
      /\ \A d \in Machine : d # c => ap'[d] = ap[d]
  <2>1. ap' = [ap EXCEPT ![c].pc = "scheduler"]
    BY DEF mpmain, Ap
  <2>2. "scheduler" \in Early \cup {"main", "halted", "scheduler", "kalloc"}
    BY DEF Early
  <2> QED
    BY Zenon, <1>1, <2>1, <2>2, PlaceChanges
<1>7. BootTypes'
  BY <1>1, <1>2, <1>3, <1>4, <1>6 DEF BootTypes
<1>8. PagesOnce'
  BY <1>1, <1>2, <1>3 DEF PagesOnce
<1>9. LowOnly'
  BY <1>1, <1>2, <1>3 DEF LowOnly, Late
<1>10. Enough'
  BY <1>1, <1>2, <1>3 DEF Enough, During
<1>11. Loop'
  BY <1>1, <1>2, <1>3 DEF Loop, Before, During, Late, mpmain
<1>12. Started'
  <2>1. ap[c].pc # "main" /\ (c \in bstarted' <=> ap'[c].pc \in {"scheduler", "kalloc"})
    BY <1>1, <1>2, <1>4, <1>6 DEF Started
  <2>2. \A d \in Machine : d # c => ap'[d].pc = ap[d].pc
    BY <1>6
  <2>3. ap[c].pc \in Early
    BY <1>4 DEF Early
  <2>4. c \in Cpus /\ bstarted' = bstarted \cup {c}
    BY <1>1, <1>4, <2>3, OnTheWayListed
  <2> QED
    BY <1>1, <1>2, <1>3, <2>1, <2>2, <2>4, StartedKept
<1>13. OnTheWay'
  BY <1>1, <1>2, <1>3, <1>4, <1>6, <1>5 DEF OnTheWay, Early
<1>14. Allocator'
  BY <1>1, <1>2, <1>3, <1>4, <1>6, <1>5 DEF Allocator, Early
<1>15. Stacks'
  <2>1. \A d \in Machine : ap'[d].stack = ap[d].stack /\ (ap'[d].pgdir = ap[d].pgdir \/ ap'[d].pgdir = "kpgdir")
    BY <1>6
  <2>2. owned \subseteq owned' /\ (main' \notin During \/ main' = main)
    BY <1>2, <1>3 DEF During
  <2> QED
    BY <1>1, <1>2, <2>1, <2>2, StacksKept
<1>16. Outcome'
  BY <1>1, <1>2, <1>3 DEF Outcome, Before, Cpus
<1> QED
  BY <1>7, <1>8, <1>9, <1>10, <1>11, <1>12, <1>13, <1>14, <1>15, <1>16 DEF BootInv

\* A processor enters the allocator, alone: the lock is on.
LEMMA kallocInKeeps ==
    ASSUME BootInv, NEW c \in Machine, kallocIn(c)
    PROVE  BootInv'
<1>1. /\ BootTypes /\ PagesOnce /\ LowOnly /\ Enough /\ Loop
      /\ Started /\ OnTheWay /\ Allocator /\ Stacks /\ Outcome
  BY DEF BootInv
<1>2. /\ mptab' = mptab /\ cpus' = cpus /\ main' = main /\ nextc' = nextc /\ word' = word
      /\ bstarted' = bstarted
      /\ irq' = irq /\ pages' = pages /\ uselock' = uselock /\ owned' = owned /\ bootpanic' = bootpanic
  BY DEF kallocIn, Ap
<1>3. main' = main
  BY <1>2
<1>4. /\ bootpanic = "" /\ ap[c].pc = "scheduler" /\ alloc' = alloc \cup {c} /\ main \in {"mpmain", "scheduler"}
      /\ pages # <<>> /\ (uselock => alloc = {})
  BY DEF kallocIn, Ap
<1>5. /\ ap \in [Machine -> Entry] /\ ap[c].pgdir \in {"none", "entrypgdir", "kpgdir"} /\ ap[c].stack \in Nat
      /\ word.stack \in Nat /\ word.pgdir \in {"none", "entrypgdir"}
  BY <1>1 DEF BootTypes, Entry
<1>6. /\ ap' \in [Machine -> Entry]
      /\ ap'[c].pc = "kalloc" /\ ap'[c].stack = ap[c].stack /\ ap'[c].pgdir = ap[c].pgdir
      /\ \A d \in Machine : d # c => ap'[d] = ap[d]
  <2>1. ap' = [ap EXCEPT ![c].pc = "kalloc"]
    BY DEF kallocIn, Ap
  <2>2. "kalloc" \in Early \cup {"main", "halted", "scheduler", "kalloc"}
    BY DEF Early
  <2> QED
    BY Zenon, <1>1, <2>1, <2>2, PlaceChanges
<1>7. uselock = TRUE /\ alloc = {} /\ Len(pages) >= 1
  <2>1. uselock = TRUE
    BY <1>1, <1>4 DEF Allocator
  <2>2. pages \in Seq(1 .. Pages) /\ pages # <<>>
    BY <1>1, <1>4 DEF BootTypes
  <2>3. Len(pages) >= 1
    BY ONLY <2>2
  <2> QED
    BY <1>4, <2>1, <2>3
<1>8. BootTypes'
  BY <1>1, <1>2, <1>3, <1>4, <1>6 DEF BootTypes
<1>9. PagesOnce'
  BY <1>1, <1>2, <1>3 DEF PagesOnce
<1>10. LowOnly'
  BY <1>1, <1>2, <1>3 DEF LowOnly, Late
<1>11. Enough'
  BY <1>1, <1>2, <1>3 DEF Enough, During
<1>12. Loop'
  BY <1>1, <1>2, <1>3 DEF Loop, Before, During, Late
<1>13. Started'
  <2>1. ap[c].pc # "main" /\ (c \in bstarted' <=> ap'[c].pc \in {"scheduler", "kalloc"})
    BY <1>1, <1>2, <1>4, <1>6 DEF Started
  <2>2. \A d \in Machine : d # c => ap'[d].pc = ap[d].pc
    BY <1>6
  <2> QED
    BY <1>1, <1>2, <1>3, <2>1, <2>2, StartedKept
<1>14. OnTheWay'
  BY <1>1, <1>2, <1>3, <1>4, <1>6, <1>5 DEF OnTheWay, Early
<1>15. Allocator'
  BY <1>1, <1>2, <1>3, <1>4, <1>7, <1>6, <1>5 DEF Allocator, Early
<1>16. Stacks'
  <2>1. \A d \in Machine : ap'[d].stack = ap[d].stack /\ (ap'[d].pgdir = ap[d].pgdir \/ ap'[d].pgdir = "kpgdir")
    BY <1>6
  <2>2. owned \subseteq owned' /\ (main' \notin During \/ main' = main)
    BY <1>2, <1>3 DEF During
  <2> QED
    BY <1>1, <1>2, <2>1, <2>2, StacksKept
<1>17. Outcome'
  BY <1>1, <1>2, <1>3 DEF Outcome, Before, Cpus
<1> QED
  BY <1>8, <1>9, <1>10, <1>11, <1>12, <1>13, <1>14, <1>15, <1>16, <1>17 DEF BootInv

\* It leaves with a page.
LEMMA kallocOutKeeps ==
    ASSUME BootInv, NEW c \in Machine, kallocOut(c)
    PROVE  BootInv'
<1>1. /\ BootTypes /\ PagesOnce /\ LowOnly /\ Enough /\ Loop
      /\ Started /\ OnTheWay /\ Allocator /\ Stacks /\ Outcome
  BY DEF BootInv
<1>2. /\ mptab' = mptab /\ cpus' = cpus /\ main' = main /\ nextc' = nextc /\ word' = word
      /\ bstarted' = bstarted
      /\ irq' = irq /\ uselock' = uselock /\ bootpanic' = bootpanic
  BY DEF kallocOut, Ap
<1>3. main' = main
  BY <1>2
<1>4. /\ bootpanic = "" /\ ap[c].pc = "kalloc" /\ alloc' = alloc \ {c}
      /\ pages' = Tail(pages) /\ owned' = owned \cup {Head(pages)}
  BY DEF kallocOut, Ap
<1>5. /\ ap \in [Machine -> Entry] /\ ap[c].pgdir \in {"none", "entrypgdir", "kpgdir"} /\ ap[c].stack \in Nat
      /\ word.stack \in Nat /\ word.pgdir \in {"none", "entrypgdir"}
  BY <1>1 DEF BootTypes, Entry
<1>6. /\ ap' \in [Machine -> Entry]
      /\ ap'[c].pc = "scheduler" /\ ap'[c].stack = ap[c].stack /\ ap'[c].pgdir = ap[c].pgdir
      /\ \A d \in Machine : d # c => ap'[d] = ap[d]
  <2>1. ap' = [ap EXCEPT ![c].pc = "scheduler"]
    BY DEF kallocOut, Ap
  <2>2. "scheduler" \in Early \cup {"main", "halted", "scheduler", "kalloc"}
    BY DEF Early
  <2> QED
    BY Zenon, <1>1, <2>1, <2>2, PlaceChanges
<1>7. /\ Len(pages) \in Nat /\ Len(cpus) \in Nat /\ nextc \in Nat /\ LowPages \in Nat
      /\ Pages \in Nat /\ NCPU \in Nat
      /\ NCPU < LowPages /\ LowPages < Pages /\ Len(cpus) <= NCPU
  BY <1>1, BootAssumption DEF BootTypes
<1>8. Len(pages) >= 1
  <2>1. c \in alloc
    BY <1>1, <1>4 DEF Allocator
  <2> QED
    BY <1>1, <2>1 DEF Allocator
<1>9. pages' = Tail(pages) /\ owned' = owned \cup {Head(pages)}
  BY DEF kallocOut
<1>10. /\ pages' \in Seq(1 .. Pages) /\ owned' \subseteq 1 .. Pages /\ Len(pages') = Len(pages) - 1
       /\ Head(pages) \in 1 .. Pages /\ Head(pages) \notin owned
       /\ \A i, j \in 1 .. Len(pages') : pages'[i] = pages'[j] => i = j
       /\ \A i \in 1 .. Len(pages') : pages'[i] \notin owned'
       /\ main \notin Late => (\A i \in 1 .. Len(pages') : pages'[i] <= LowPages)
                              /\ (\A f \in owned' : f <= LowPages) /\ Head(pages) <= LowPages
  BY <1>1, <1>8, <1>9, PageTaken
<1>11. BootTypes'
  BY <1>1, <1>2, <1>3, <1>4, <1>6, <1>10 DEF BootTypes
<1>12. PagesOnce'
  BY <1>10 DEF PagesOnce
<1>13. LowOnly'
  <2>1. main' \in Late
    BY <1>1, <1>3, <1>4 DEF Allocator, Late
  <2> QED
    BY <2>1 DEF LowOnly
<1>14. Enough'
  <2>1. main' \in {"mpmain", "scheduler"}
    BY <1>1, <1>3, <1>4 DEF Allocator
  <2> QED
    BY <2>1 DEF Enough, During
<1>15. Loop'
  BY <1>1, <1>2, <1>3 DEF Loop, Before, During, Late
<1>16. Started'
  <2>1. ap[c].pc # "main" /\ (c \in bstarted' <=> ap'[c].pc \in {"scheduler", "kalloc"})
    BY <1>1, <1>2, <1>4, <1>6 DEF Started
  <2>2. \A d \in Machine : d # c => ap'[d].pc = ap[d].pc
    BY <1>6
  <2> QED
    BY <1>1, <1>2, <1>3, <2>1, <2>2, StartedKept
<1>17. OnTheWay'
  BY <1>1, <1>2, <1>3, <1>4, <1>6, <1>5 DEF OnTheWay, Early
<1>18. Allocator'
  <2>1. alloc' = {}
    BY <1>1, <1>4 DEF Allocator
  <2> QED
    BY <1>1, <1>2, <1>3, <1>4, <1>6, <2>1 DEF Allocator
<1>19. Stacks'
  <2>1. \A d \in Machine : ap'[d].stack = ap[d].stack /\ (ap'[d].pgdir = ap[d].pgdir \/ ap'[d].pgdir = "kpgdir")
    BY <1>6
  <2>2. owned \subseteq owned' /\ (main' \notin During \/ main' = main)
    BY <1>2, <1>3, <1>4 DEF During
  <2> QED
    BY <1>1, <1>2, <2>1, <2>2, StacksKept
<1>20. Outcome'
  BY <1>1, <1>2, <1>3 DEF Outcome, Before, Cpus
<1> QED
  BY <1>11, <1>12, <1>13, <1>14, <1>15, <1>16, <1>17, <1>18, <1>19, <1>20 DEF BootInv

\* Every step of the start keeps the invariant.
LEMMA BootStep ==
    ASSUME BootInv, BootNext
    PROVE  BootInv'
<1>1. CASE kinit1 \/ kvmalloc \/ mpinit \/ devices
  BY <1>1, kinit1Keeps, kvmallocKeeps, mpinitKeeps, devicesKeeps
<1>2. CASE startSkip \/ startWords \/ lapicstartap \/ waitStarted
  BY <1>2, startSkipKeeps, startWordsKeeps, lapicstartapKeeps, waitStartedKeeps
<1>3. CASE kinit2 \/ kinit2Lock \/ userinit \/ bspMpmain
  BY <1>3, kinit2Keeps, kinit2LockKeeps, userinitKeeps, bspMpmainKeeps
<1>4. ASSUME NEW c \in Machine,
             start32(c) \/ loadStack(c) \/ mpenter(c) \/ mpmain(c) \/ kallocIn(c) \/ kallocOut(c)
      PROVE  BootInv'
  BY <1>4, start32Keeps, loadStackKeeps, mpenterKeeps, mpmainKeeps, kallocInKeeps, kallocOutKeeps
<1> QED
  BY <1>1, <1>2, <1>3, <1>4 DEF BootNext

\* The invariant of the start of the processors: see BootInv.
THEOREM BootInvariant == BootSpec => []BootInv
<1>1. BootInit => BootInv
  <2> SUFFICES ASSUME BootInit PROVE BootInv
    OBVIOUS
  <2>1. /\ mptab \in Tables /\ cpus = <<>> /\ main = "kinit1" /\ nextc = 1 /\ bstarted = {} /\ irq = <<>>
        /\ word = [stack |-> 0, pgdir |-> "none"] /\ pages = <<>> /\ uselock = FALSE /\ alloc = {} /\ owned = {}
        /\ bootpanic = ""
        /\ ap = [c \in Machine |-> [pc |-> IF c = Bsp THEN "main" ELSE "halted", pgdir |-> "entrypgdir", stack |-> 0]]
    BY DEF BootInit
  <2>2. /\ mptab \in Seq(Kinds \X Machine) /\ cpus \in Seq(Machine) /\ pages \in Seq(1 .. Pages)
        /\ Len(cpus) = 0 /\ Len(pages) = 0 /\ NCPU \in Nat
    <3>1. mptab \in Seq(Kinds \X Machine) /\ NCPU \in Nat
      BY <2>1, BootAssumption
    <3>2. <<>> \in Seq(Machine) /\ <<>> \in Seq(1 .. Pages) /\ Len(<<>>) = 0
      BY EmptySeq
    <3> QED
      BY Zenon, <2>1, <3>1, <3>2
  <2>3. /\ ap \in [Machine -> Entry]
        /\ \A c \in Machine : ap[c].pc = (IF c = Bsp THEN "main" ELSE "halted") /\ ap[c].stack = 0
    BY <2>1 DEF Entry, Early
  <2>4. BootTypes
    <3>1. main \in Before /\ word \in [stack : Nat, pgdir : {"none", "entrypgdir"}] /\ nextc \in Nat
      BY ONLY <2>1 DEF Before
    <3>2. bstarted \subseteq Machine /\ alloc \subseteq Machine /\ uselock \in BOOLEAN /\ owned \subseteq 1 .. Pages
      BY ONLY <2>1
    <3>3. Len(cpus) <= NCPU
      BY ONLY <2>2
    <3> QED
      BY Zenon, <2>2, <2>3, <3>1, <3>2, <3>3 DEF BootTypes
  <2>5. PagesOnce /\ LowOnly /\ Enough
    <3>1. 1 .. Len(pages) = {}
      BY ONLY <2>2
    <3>2. PagesOnce
      BY Zenon, <3>1 DEF PagesOnce
    <3>3. LowOnly
      BY <2>1, <3>1 DEF LowOnly
    <3>4. Enough
      BY <2>1 DEF Enough, During
    <3> QED
      BY <3>2, <3>3, <3>4
  <2>6. Loop
    <3>0. nextc = 1 /\ Len(cpus) = 0
      BY <2>1, <2>2
    <3>1. 1 .. nextc - 1 = {} /\ nextc <= Len(cpus) + 1 /\ nextc >= 1
      BY ONLY <3>0
    <3> QED
      BY <2>1, <3>1 DEF Loop, Before, During, Late
  <2>7. Started /\ OnTheWay /\ Allocator
    BY <2>1, <2>3, BootAssumption DEF Started, OnTheWay, Allocator, Early
  <2>8. Stacks
    BY <2>1, <2>3 DEF Stacks, During
  <2>9. Outcome
    BY <2>1 DEF Outcome, Before
  <2> QED
    BY <2>4, <2>5, <2>6, <2>7, <2>8, <2>9 DEF BootInv
<1>2. BootInv /\ [BootNext]_bootVars => BootInv'
  <2>1. ASSUME BootInv, UNCHANGED bootVars PROVE BootInv'
    <3>1. /\ mptab' = mptab /\ cpus' = cpus /\ main' = main /\ nextc' = nextc /\ word' = word /\ ap' = ap
          /\ bstarted' = bstarted /\ irq' = irq /\ pages' = pages /\ uselock' = uselock /\ alloc' = alloc
          /\ owned' = owned /\ bootpanic' = bootpanic
      BY <2>1 DEF bootVars
    <3>2. BootTypes' /\ PagesOnce' /\ LowOnly' /\ Enough' /\ Loop'
      <4>1. BootTypes'
        BY <2>1, <3>1 DEF BootInv, BootTypes
      <4>2. PagesOnce' /\ LowOnly'
        BY <2>1, <3>1 DEF BootInv, PagesOnce, LowOnly
      <4>3. Enough' /\ Loop'
        BY <2>1, <3>1 DEF BootInv, Enough, Loop
      <4> QED
        BY <4>1, <4>2, <4>3
    <3>3. Started' /\ OnTheWay' /\ Allocator' /\ Stacks' /\ Outcome'
      BY <2>1, <3>1 DEF BootInv, Started, OnTheWay, Allocator, Stacks, Outcome, Cpus
    <3> QED
      BY <3>2, <3>3 DEF BootInv
  <2> QED
    BY <2>1, BootStep
<1> QED
  BY <1>1, <1>2, PTL DEF BootSpec

\* Each processor is alone on a stack that it can reach, the allocator serves one at
\* a time, only a table without the boot processor ends in a panic, the interrupts
\* of the devices go to processors that run, and all that are listed get to run.
THEOREM EachOnItsOwnStackAlways == BootSpec => []EachOnItsOwnStack
<1>1. BootInv => EachOnItsOwnStack
  <2> SUFFICES ASSUME BootInv PROVE EachOnItsOwnStack
    OBVIOUS
  <2>1. /\ BootTypes /\ PagesOnce /\ Loop /\ Started /\ Allocator /\ Stacks /\ Outcome
    BY DEF BootInv
  <2>2. DOMAIN pages = 1 .. Len(pages) /\ DOMAIN cpus = 1 .. Len(cpus) /\ Len(cpus) \in Nat
    <3>1. pages \in Seq(1 .. Pages) /\ cpus \in Seq(Machine)
      BY <2>1 DEF BootTypes
    <3> QED
      BY ONLY <3>1
  <2>3. Range(cpus) = Cpus
    BY Zenon, <2>2 DEF Range, Cpus
  <2>4. \A f \in Range(pages) : f \notin owned
    BY Zenon, <2>1, <2>2 DEF Range, PagesOnce
  <2>5. \A c \in Machine : ap[c].stack # 0 =>
          /\ ap[c].stack \in owned \ Range(pages)
          /\ ap[c].pgdir = "kpgdir" \/ ap[c].stack <= LowPages
          /\ \A d \in Machine \ {c} : ap[d].stack # ap[c].stack
    <3> SUFFICES ASSUME NEW c \in Machine, ap[c].stack # 0
                 PROVE  /\ ap[c].stack \in owned \ Range(pages)
                        /\ ap[c].pgdir = "kpgdir" \/ ap[c].stack <= LowPages
                        /\ \A d \in Machine \ {c} : ap[d].stack # ap[c].stack
      OBVIOUS
    <3>1. ap[c].stack \in owned /\ (ap[c].pgdir = "kpgdir" \/ ap[c].stack <= LowPages)
      BY <2>1 DEF Stacks
    <3>2. \A d \in Machine \ {c} : ap[d].stack # ap[c].stack
      BY <2>1 DEF Stacks
    <3> QED
      BY <2>4, <3>1, <3>2
  <2>6. \A c, d \in alloc : c = d
    BY <2>1 DEF Allocator
  <2>7. bootpanic # "" => Bsp \notin Range(cpus) /\ main = "startothers"
    BY <2>1, <2>3 DEF Outcome
  <2>8. ASSUME irq # <<>>, bootpanic = "", Range(cpus) = 0 .. (Len(cpus) - 1) PROVE Range(irq) \subseteq Range(cpus)
    <3>1. irq = <<0, 0, Len(cpus) - 1>> /\ Bsp \in Range(cpus)
      BY <2>1, <2>3, <2>8 DEF Outcome
    <3>2. Range(irq) = {0, Len(cpus) - 1}
      <4>1. DOMAIN irq = {1, 2, 3} /\ irq[1] = 0 /\ irq[2] = 0 /\ irq[3] = Len(cpus) - 1
        BY <3>1
      <4> QED
        BY <4>1 DEF Range
    <3> DEFINE n == Len(cpus)
    <3>3. n \in Nat /\ Bsp \in 0 .. (n - 1)
      BY <2>2, <2>8, <3>1
    <3> HIDE DEF n
    <3>4. 0 \in 0 .. (n - 1) /\ n - 1 \in 0 .. (n - 1)
      BY ONLY <3>3
    <3>5. n = Len(cpus)
      BY DEF n
    <3> QED
      BY <2>8, <3>2, <3>4, <3>5
  <2>9. main = "scheduler" => Range(cpus) = bstarted
    <3> SUFFICES ASSUME main = "scheduler" PROVE Cpus = bstarted
      BY <2>3
    <3>1. Bsp \in bstarted /\ bstarted \subseteq Cpus
      BY <2>1 DEF Started
    <3>2. nextc = Len(cpus) + 1
      BY <2>1 DEF Loop, Late
    <3>3. nextc - 1 = Len(cpus)
      BY <2>2, <3>2
    <3>4. \A i \in 1 .. Len(cpus) : cpus[i] \in bstarted \cup {Bsp}
      BY <2>1, <3>3 DEF Loop
    <3> QED
      BY <3>1, <3>4 DEF Cpus
  <2> QED
    BY <2>5, <2>6, <2>7, <2>8, <2>9 DEF EachOnItsOwnStack
<1> QED
  BY BootInvariant, <1>1, PTL

-----------------------------------------------------------------------------
(* Demand paging: what the kernel's memory consists of. *)

Pte == {NoPte, Swapped} \cup {Present(f) : f \in Physical}
Content == Value \cup {Junk}
ListEntry == [address : Page, next : Pointer, in_use : BOOLEAN]
SwapSlot == [in_use : BOOLEAN, address : Page]
PagedProc == [pte : [Page -> Pte], ent : [Slots -> ListEntry], head : Pointer, nPagesInPhyMemory : Int,
              slot : [Slots -> SwapSlot], file : [Slots -> Content]]
Memory == [proc : [Procs -> PagedProc], free : SUBSET Frame, ram : [Physical -> Content],
           panic : BOOLEAN, null : BOOLEAN]

\* From s to t no page table, no free frame and no panic changes.
SameTables(t, s) ==
    /\ \A q \in Procs : t.proc[q].pte = s.proc[q].pte
    /\ t.free = s.free /\ t.panic = s.panic
\* Only the process table of p, its free frames aside, changes.
OthersSame(t, s, p) == \A q \in Procs \ {p} : t.proc[q].pte = s.proc[q].pte

\* The least element of a set of slots is one of them.
LEMMA LeastSlot ==
    ASSUME NEW S \in SUBSET Slots, S # {}
    PROVE  Min(S) \in S
<1>1. S \in SUBSET Nat
  BY PagingAssumption DEF Slots
<1>2. \E i \in S : \A j \in S : i <= j
  BY <1>1, LeastElement
<1> QED
  BY <1>2 DEF Min

\* There are pages, and a pointer that is not null leads to an entry.
LEMMA PagingSorts ==
    /\ 0 \in Page /\ Parent \in Procs /\ Child \in Procs /\ Parent # Child
    /\ Slots \subseteq Nat /\ Frame \subseteq Nat /\ Low \notin Frame /\ Low \in Physical /\ Frame \subseteq Physical
    /\ Null \in Pointer /\ \A p \in Procs, i \in Slots : <<p, i>> \in Pointer
    /\ \A e \in Pointer : e # Null => e[1] \in Procs /\ e[2] \in Slots /\ e = <<e[1], e[2]>>
    /\ Zero \in Content /\ Junk \in Content
  BY PagingAssumption DEF Page, Parent, Child, Procs, Slots, Frame, Low, Physical, Pointer, Null, Content, Junk

\* One process changes.
LEMMA OneProcChanges ==
    ASSUME NEW s \in Memory, NEW p \in Procs, NEW r \in PagedProc
    PROVE  LET t == [s EXCEPT !.proc[p] = r]
           IN  /\ t \in Memory /\ t.proc[p] = r /\ \A q \in Procs \ {p} : t.proc[q] = s.proc[q]
               /\ t.free = s.free /\ t.ram = s.ram /\ t.panic = s.panic /\ t.null = s.null
  BY DEF Memory

\* An entry of a page table changes.
LEMMA setPteTypes ==
    ASSUME NEW s \in Memory, NEW p \in Procs, NEW a \in Page, NEW pte \in Pte
    PROVE  LET t == setPte(s, p, a, pte)
           IN  /\ t \in Memory /\ OthersSame(t, s, p) /\ t.proc[p].pte = [s.proc[p].pte EXCEPT ![a] = pte]
               /\ t.free = s.free /\ t.ram = s.ram /\ t.panic = s.panic /\ t.null = s.null
<1> DEFINE r == [s.proc[p] EXCEPT !.pte = [s.proc[p].pte EXCEPT ![a] = pte]]
<1>1. s.proc[p] \in PagedProc
  BY DEF Memory
<1>2. r \in PagedProc /\ r.pte = [s.proc[p].pte EXCEPT ![a] = pte]
  BY <1>1 DEF PagedProc
<1>3. setPte(s, p, a, pte) = [s EXCEPT !.proc[p] = r]
  BY DEF setPte
<1> HIDE DEF r
<1> QED
  BY <1>2, <1>3, OneProcChanges DEF OthersSame

\* Whatever entry is linked to another, or to none.
LEMMA NextChanges ==
    ASSUME NEW s \in Memory, NEW x, NEW e \in Pointer
    PROVE  LET t == [s EXCEPT !.proc[x[1]].ent[x[2]].next = e]
           IN  t \in Memory /\ SameTables(t, s) /\ t.ram = s.ram /\ t.null = s.null
<1> DEFINE t == [s EXCEPT !.proc[x[1]].ent[x[2]].next = e]
           r == [s.proc[x[1]] EXCEPT !.ent[x[2]].next = e]
<1>1. t = [s EXCEPT !.proc[x[1]] = r]
  OBVIOUS
<1> SUFFICES t \in Memory /\ SameTables(t, s) /\ t.ram = s.ram /\ t.null = s.null
  OBVIOUS
<1>2. CASE x[1] \notin Procs
  <2>1. t = s
    BY <1>2 DEF Memory
  <2> HIDE DEF t
  <2> QED
    BY <2>1 DEF SameTables
<1>3. CASE x[1] \in Procs
  <2>1. s.proc[x[1]] \in PagedProc
    BY <1>3 DEF Memory
  <2> DEFINE ent == [s.proc[x[1]].ent EXCEPT ![x[2]].next = e]
  <2>2. ent \in [Slots -> ListEntry]
    BY <2>1 DEF PagedProc, ListEntry
  <2>3. r = [s.proc[x[1]] EXCEPT !.ent = ent]
    OBVIOUS
  <2> HIDE DEF ent
  <2>4. r \in PagedProc /\ r.pte = s.proc[x[1]].pte
    BY <2>1, <2>2, <2>3 DEF PagedProc
  <2> HIDE DEF t, r
  <2> QED
    BY <1>1, <1>3, <2>4, OneProcChanges DEF SameTables
<1> QED
  BY <1>2, <1>3

\* The queue of a process is extended by an entry.
LEMMA LinkedTypes ==
    ASSUME NEW s \in Memory, NEW p \in Procs, NEW e \in Pointer
    PROVE  LET t == Linked(s, p, e)
           IN  t \in Memory /\ SameTables(t, s) /\ t.ram = s.ram /\ t.null = s.null
<1>1. CASE s.proc[p].head = Null
  <2> DEFINE r == [s.proc[p] EXCEPT !.head = e]
  <2>1. s.proc[p] \in PagedProc
    BY DEF Memory
  <2>2. r \in PagedProc /\ r.pte = s.proc[p].pte
    BY <2>1 DEF PagedProc
  <2>3. Linked(s, p, e) = [s EXCEPT !.proc[p] = r]
    BY <1>1 DEF Linked
  <2> HIDE DEF r
  <2> QED
    BY <2>2, <2>3, OneProcChanges DEF SameTables
<1>2. CASE s.proc[p].head # Null
  BY ZenonT(60), <1>2, NextChanges DEF Linked
<1> QED
  BY <1>1, <1>2

\* An entry of the array is filled.
LEMMA FilledTypes ==
    ASSUME NEW s \in Memory, NEW p \in Procs, NEW i \in Slots, NEW a \in Page
    PROVE  LET t == Filled(s, p, i, a)
           IN  t \in Memory /\ SameTables(t, s) /\ t.ram = s.ram /\ t.null = s.null
<1> DEFINE entry == [address |-> a, next |-> Null, in_use |-> TRUE]
           ent == [s.proc[p].ent EXCEPT ![i] = entry]
           r == [s.proc[p] EXCEPT !.ent[i] = entry, !.nPagesInPhyMemory = s.proc[p].nPagesInPhyMemory + 1]
<1>1. s.proc[p] \in PagedProc
  BY DEF Memory
<1>2. entry \in ListEntry
  BY PagingSorts DEF ListEntry
<1> HIDE DEF entry
<1>3. ent \in [Slots -> ListEntry] /\ s.proc[p].nPagesInPhyMemory + 1 \in Int
  BY <1>1, <1>2 DEF PagedProc
<1>4. r = [s.proc[p] EXCEPT !.ent = ent, !.nPagesInPhyMemory = s.proc[p].nPagesInPhyMemory + 1]
  OBVIOUS
<1> HIDE DEF ent
<1>5. r \in PagedProc /\ r.pte = s.proc[p].pte
  BY <1>1, <1>3, <1>4 DEF PagedProc
<1>6. Filled(s, p, i, a) = [s EXCEPT !.proc[p] = r]
  BY DEF Filled, entry
<1> HIDE DEF r
<1> QED
  BY <1>5, <1>6, OneProcChanges DEF SameTables

\* A page is queued, or left out.
LEMMA enqueueFIFOTypes ==
    ASSUME NEW s \in Memory, NEW p \in Procs, NEW a \in Page
    PROVE  LET t == enqueueFIFO(s, p, a)
           IN  t \in Memory /\ SameTables(t, s) /\ t.ram = s.ram /\ t.null = s.null
<1> DEFINE i == Min(FreeEntries(s, p))
           l == Linked(s, p, <<p, i>>)
<1>1. CASE FreeEntries(s, p) = {}
  BY <1>1 DEF enqueueFIFO, SameTables
<1>2. CASE FreeEntries(s, p) # {}
  <2>1. i \in Slots
    BY <1>2, LeastSlot DEF FreeEntries
  <2> HIDE DEF i
  <2>2. l \in Memory /\ SameTables(l, s) /\ l.ram = s.ram /\ l.null = s.null
    BY <2>1, PagingSorts, LinkedTypes
  <2>3. enqueueFIFO(s, p, a) = Filled(l, p, i, a)
    BY <1>2 DEF enqueueFIFO, i
  <2> HIDE DEF l
  <2> QED
    BY <2>1, <2>2, <2>3, FilledTypes DEF SameTables
<1> QED
  BY <1>1, <1>2

\* An entry is released.
LEMMA ReleasedTypes ==
    ASSUME NEW s \in Memory, NEW e \in Pointer, e # Null
    PROVE  LET t == Released(s, e)
           IN  t \in Memory /\ SameTables(t, s) /\ t.ram = s.ram /\ t.null = s.null
<1> DEFINE q == e[1]
           entry == [s.proc[q].ent[e[2]] EXCEPT !.address = 0, !.in_use = FALSE]
           ent == [s.proc[q].ent EXCEPT ![e[2]] = entry]
           r == [s.proc[q] EXCEPT !.ent = ent]
<1>1. q \in Procs /\ e[2] \in Slots
  BY PagingSorts
<1>2. s.proc[q] \in PagedProc
  BY <1>1 DEF Memory
<1>3. entry \in ListEntry
  <2>1. s.proc[q].ent[e[2]] \in ListEntry
    BY <1>1, <1>2 DEF PagedProc
  <2> HIDE DEF q
  <2> QED
    BY <2>1, PagingSorts DEF ListEntry
<1>4. Released(s, e) = [s EXCEPT !.proc[q] = r]
  BY DEF Released
<1> HIDE DEF entry
<1>5. ent \in [Slots -> ListEntry]
  BY <1>1, <1>2, <1>3 DEF PagedProc
<1> HIDE DEF ent
<1>6. r \in PagedProc /\ r.pte = s.proc[q].pte
  BY <1>2, <1>5 DEF PagedProc
<1> HIDE DEF r, q
<1> QED
  BY <1>1, <1>4, <1>6, OneProcChanges DEF SameTables

\* What the queue leads to has a page's address.
LEMMA FrontTypes ==
    ASSUME NEW s \in Memory, NEW p \in Procs, s.proc[p].head # Null
    PROVE  /\ s.proc[p].head \in Pointer /\ FrontAddress(s, p) \in Page
           /\ Follow(s, s.proc[p].head) \in Pointer
<1> DEFINE e == s.proc[p].head
<1>1. e \in Pointer
  BY DEF Memory, PagedProc
<1>2. e[1] \in Procs /\ e[2] \in Slots
  BY <1>1, PagingSorts
<1>3. s.proc[e[1]] \in PagedProc
  BY <1>2 DEF Memory
<1>4. s.proc[e[1]].ent[e[2]] \in ListEntry
  BY <1>2, <1>3 DEF PagedProc
<1> QED
  BY <1>1, <1>4 DEF FrontAddress, Follow, ListEntry

\* The page at the head of the queue is taken off it.
LEMMA dequeueFIFOTypes ==
    ASSUME NEW s \in Memory, NEW p \in Procs, s.proc[p].head # Null
    PROVE  LET t == dequeueFIFO(s, p) IN t \in Memory /\ SameTables(t, s) /\ t.ram = s.ram
<1> DEFINE next == Follow(s, s.proc[p].head)
           t == Released(s, s.proc[p].head)
           r == [t.proc[p] EXCEPT !.head = next]
           u == [t EXCEPT !.proc[p] = r]
           null == s.null \/ next = Null
<1>1. s.proc[p].head \in Pointer /\ next \in Pointer
  BY FrontTypes
<1>2. dequeueFIFO(s, p) = [t EXCEPT !.proc[p].head = next, !.null = null]
  BY DEF dequeueFIFO
<1>3. t \in Memory /\ SameTables(t, s) /\ t.ram = s.ram
  BY <1>1, ReleasedTypes
<1> HIDE DEF next, t
<1>4. t.proc[p] \in PagedProc
  BY <1>3 DEF Memory
<1>5. r \in PagedProc /\ r.pte = t.proc[p].pte
  BY <1>1, <1>4 DEF PagedProc
<1>6. [t EXCEPT !.proc[p].head = next, !.null = null] = [u EXCEPT !.null = null]
  BY <1>3 DEF Memory
<1> HIDE DEF r
<1>7. u \in Memory /\ SameTables(u, s) /\ u.ram = s.ram
  BY <1>3, <1>5, OneProcChanges DEF SameTables
<1>8. null \in BOOLEAN
  OBVIOUS
<1> HIDE DEF u, null
<1>9. LET v == [u EXCEPT !.null = null] IN v \in Memory /\ SameTables(v, s) /\ v.ram = s.ram
  BY <1>7, <1>8 DEF Memory, SameTables
<1> QED
  BY <1>2, <1>6, <1>9

\* Page a of p is in memory, and where.
HasFrame(s, p, a) == s.proc[p].pte[a].p
FrameOf(s, p, a) == s.proc[p].pte[a].f

\* Every frame is free, set aside in X, or the frame of one page; only address 0
\* may be that of several.
Owned(s, X) ==
    /\ \A p, q \in Procs, a, b \in Page :
          HasFrame(s, p, a) /\ HasFrame(s, q, b) /\ FrameOf(s, p, a) = FrameOf(s, q, b) /\ FrameOf(s, p, a) \in Frame
            => p = q /\ a = b
    /\ \A p \in Procs, a \in Page : HasFrame(s, p, a) => FrameOf(s, p, a) \notin s.free \cup X
    /\ \A f \in Frame :
          f \in s.free \cup X \/ \E p \in Procs, a \in Page : HasFrame(s, p, a) /\ FrameOf(s, p, a) = f
    /\ X \subseteq Frame /\ X \cap s.free = {}

\* What an entry may say of a page.
LEMMA PteSays ==
    /\ \A pte \in Pte : pte.p \in BOOLEAN /\ pte.f \in Physical /\ (pte.p => pte = Present(pte.f)) /\ (pte.pg => ~pte.p)
    /\ \A pte \in Pte : pte # NoPte /\ ~pte.p => pte = Swapped
    /\ NoPte \in Pte /\ Swapped \in Pte /\ \A f \in Physical : Present(f) \in Pte
    /\ ~NoPte.p /\ ~Swapped.p /\ ~NoPte.pg /\ Swapped.pg /\ NoPte.f = Low /\ Swapped.f = Low
    /\ \A f : Present(f).p /\ ~Present(f).pg /\ Present(f).f = f
<1>1. /\ NoPte \in Pte /\ Swapped \in Pte /\ \A f \in Physical : Present(f) \in Pte
      /\ \A pte \in Pte : pte = NoPte \/ pte = Swapped \/ \E f \in Physical : pte = Present(f)
  BY DEF Pte
<1>2. ~NoPte.p /\ ~Swapped.p /\ ~NoPte.pg /\ Swapped.pg /\ NoPte.f = Low /\ Swapped.f = Low
  BY DEF NoPte, Swapped
<1>3. \A f : Present(f).p /\ ~Present(f).pg /\ Present(f).f = f
  BY DEF Present
<1>4. NoPte.p \in BOOLEAN /\ Swapped.p \in BOOLEAN /\ \A f : Present(f).p \in BOOLEAN
  BY DEF NoPte, Swapped, Present
<1>5. ASSUME NEW pte \in Pte
      PROVE  pte.p \in BOOLEAN /\ pte.f \in Physical /\ (pte.p => pte = Present(pte.f)) /\ (pte.pg => ~pte.p)
  <2>1. CASE pte \in {NoPte, Swapped}
    BY <1>2, <1>4, <2>1, PagingSorts
  <2>2. CASE \E f \in Physical : pte = Present(f)
    BY <1>3, <1>4, <2>2
  <2> QED
    BY <1>1, <2>1, <2>2
<1>6. \A pte \in Pte : pte # NoPte /\ ~pte.p => pte = Swapped
  BY <1>1, <1>3
<1> QED
  BY <1>1, <1>2, <1>3, <1>5, <1>6

\* Every page has such an entry.
LEMMA HasTypes ==
    ASSUME NEW s \in Memory, NEW p \in Procs, NEW a \in Page
    PROVE  /\ s.proc[p].pte[a] \in Pte /\ HasFrame(s, p, a) \in BOOLEAN /\ FrameOf(s, p, a) \in Physical
           /\ s.free \subseteq Frame
<1>1. s.proc[p].pte[a] \in Pte /\ s.free \subseteq Frame
  BY DEF Memory, PagedProc
<1> QED
  BY <1>1, PteSays DEF HasFrame, FrameOf

\* Where page tables and free frames stay, so do the owners.
LEMMA OwnedSame ==
    ASSUME NEW s, NEW t, NEW X, SameTables(t, s), Owned(s, X)
    PROVE  Owned(t, X)
<1>1. \A p \in Procs, a \in Page : HasFrame(t, p, a) = HasFrame(s, p, a) /\ FrameOf(t, p, a) = FrameOf(s, p, a)
  BY DEF SameTables, HasFrame, FrameOf
<1>2. t.free = s.free
  BY DEF SameTables
<1> QED
  BY <1>1, <1>2 DEF Owned

\* Pages G of p leave memory, and their frames are freed.
GivesFrames(t, s, p, G) ==
    /\ \A a \in G : HasFrame(s, p, a) /\ FrameOf(s, p, a) \in Frame
    /\ \A q \in Procs, b \in Page : HasFrame(t, q, b) <=> HasFrame(s, q, b) /\ ~(q = p /\ b \in G)
    /\ \A q \in Procs, b \in Page : HasFrame(t, q, b) => FrameOf(t, q, b) = FrameOf(s, q, b)
    /\ t.free = s.free \cup {FrameOf(s, p, a) : a \in G}
LEMMA FramesGiven ==
    ASSUME NEW s, NEW t, NEW X, Owned(s, X), NEW p \in Procs, NEW G \in SUBSET Page, GivesFrames(t, s, p, G)
    PROVE  Owned(t, X)
<1>0. /\ \A a \in G : HasFrame(s, p, a) /\ FrameOf(s, p, a) \in Frame
      /\ \A q \in Procs, b \in Page : HasFrame(t, q, b) <=> HasFrame(s, q, b) /\ ~(q = p /\ b \in G)
      /\ \A q \in Procs, b \in Page : HasFrame(t, q, b) => FrameOf(t, q, b) = FrameOf(s, q, b)
      /\ t.free = s.free \cup {FrameOf(s, p, a) : a \in G}
  BY DEF GivesFrames
<1>1. ASSUME NEW q \in Procs, NEW r \in Procs, NEW a \in Page, NEW b \in Page,
             HasFrame(t, q, a), HasFrame(t, r, b), FrameOf(t, q, a) = FrameOf(t, r, b), FrameOf(t, q, a) \in Frame
      PROVE  q = r /\ a = b
  BY <1>0, <1>1 DEF Owned
<1>2. ASSUME NEW q \in Procs, NEW a \in Page, HasFrame(t, q, a)
      PROVE  FrameOf(t, q, a) \notin t.free \cup X
  <2>1. HasFrame(s, q, a) /\ FrameOf(t, q, a) = FrameOf(s, q, a) /\ ~(q = p /\ a \in G)
    BY <1>0, <1>2
  <2>2. FrameOf(s, q, a) \notin s.free \cup X
    BY <1>0, <2>1 DEF Owned
  <2>3. \A b \in G : FrameOf(s, p, b) # FrameOf(s, q, a)
    BY <1>0, <2>1 DEF Owned
  <2> QED
    BY <1>0, <2>1, <2>2, <2>3
<1>3. ASSUME NEW f \in Frame
      PROVE  f \in t.free \cup X \/ \E q \in Procs, a \in Page : HasFrame(t, q, a) /\ FrameOf(t, q, a) = f
  BY <1>0 DEF Owned
<1>4. X \subseteq Frame /\ X \cap t.free = {}
  <2>1. \A a \in G : FrameOf(s, p, a) \notin X
    BY <1>0 DEF Owned
  <2> QED
    BY <1>0, <2>1 DEF Owned
<1> QED
  BY <1>0, <1>1, <1>2, <1>3, <1>4 DEF Owned

\* Page a of p comes into memory, in the free frame f.
TakesFrame(t, s, p, a, f) ==
    /\ f \in s.free /\ ~HasFrame(s, p, a) /\ HasFrame(t, p, a) /\ FrameOf(t, p, a) = f
    /\ \A q \in Procs, b \in Page : ~(q = p /\ b = a) =>
          HasFrame(t, q, b) = HasFrame(s, q, b) /\ FrameOf(t, q, b) = FrameOf(s, q, b)
    /\ t.free = s.free \ {f}
LEMMA FrameTaken ==
    ASSUME NEW s, NEW t, NEW X, Owned(s, X), NEW p \in Procs, NEW a \in Page, NEW f \in Frame, TakesFrame(t, s, p, a, f)
    PROVE  Owned(t, X)
<1>0. /\ f \in s.free /\ ~HasFrame(s, p, a) /\ HasFrame(t, p, a) /\ FrameOf(t, p, a) = f
      /\ \A q \in Procs, b \in Page : ~(q = p /\ b = a) =>
            HasFrame(t, q, b) = HasFrame(s, q, b) /\ FrameOf(t, q, b) = FrameOf(s, q, b)
      /\ t.free = s.free \ {f}
  BY DEF TakesFrame
<1>1. ASSUME NEW q \in Procs, NEW b \in Page, HasFrame(t, q, b), FrameOf(t, q, b) = f
      PROVE  q = p /\ b = a
  BY <1>0, <1>1 DEF Owned
<1>2. ASSUME NEW q \in Procs, NEW r \in Procs, NEW b \in Page, NEW c \in Page,
             HasFrame(t, q, b), HasFrame(t, r, c), FrameOf(t, q, b) = FrameOf(t, r, c), FrameOf(t, q, b) \in Frame
      PROVE  q = r /\ b = c
  <2>1. CASE FrameOf(t, q, b) = f
    BY <1>0, <1>1, <1>2, <2>1
  <2>2. CASE FrameOf(t, q, b) # f
    <3>1. ~(q = p /\ b = a) /\ ~(r = p /\ c = a)
      BY <1>0, <1>2, <2>2
    <3> QED
      BY <1>0, <1>2, <3>1 DEF Owned
  <2> QED
    BY <1>0, <2>1, <2>2
<1>3. ASSUME NEW q \in Procs, NEW b \in Page, HasFrame(t, q, b)
      PROVE  FrameOf(t, q, b) \notin t.free \cup X
  <2>1. CASE q = p /\ b = a
    BY <1>0, <2>1 DEF Owned
  <2>2. CASE ~(q = p /\ b = a)
    BY <1>0, <1>3, <2>2 DEF Owned
  <2> QED
    BY <1>0, <2>1, <2>2
<1>4. ASSUME NEW g \in Frame
      PROVE  g \in t.free \cup X \/ \E q \in Procs, b \in Page : HasFrame(t, q, b) /\ FrameOf(t, q, b) = g
  <2>1. CASE g = f
    BY <1>0, <2>1
  <2>2. CASE g # f
    <3>1. CASE g \in s.free \cup X
      BY <1>0, <2>2, <3>1
    <3>2. CASE g \notin s.free \cup X
      <4>1. PICK q \in Procs, b \in Page : HasFrame(s, q, b) /\ FrameOf(s, q, b) = g
        BY <1>0, <3>2 DEF Owned
      <4>2. ~(q = p /\ b = a)
        BY <1>0, <4>1
      <4> QED
        BY <1>0, <4>1, <4>2
    <3> QED
      BY <1>0, <3>1, <3>2
  <2> QED
    BY <1>0, <2>1, <2>2
<1>5. X \subseteq Frame /\ X \cap t.free = {}
  BY <1>0 DEF Owned
<1> QED
  BY <1>0, <1>2, <1>3, <1>4, <1>5 DEF Owned

\* Page a of p comes into memory in the frame of page r, which leaves it.
HandsOver(t, s, p, a, r) ==
    /\ a # r /\ ~HasFrame(s, p, a) /\ HasFrame(t, p, a) /\ FrameOf(t, p, a) = FrameOf(s, p, r) /\ ~HasFrame(t, p, r)
    /\ HasFrame(s, p, r) \/ FrameOf(s, p, r) \notin Frame
    /\ \A q \in Procs, b \in Page : ~(q = p /\ b \in {a, r}) =>
          HasFrame(t, q, b) = HasFrame(s, q, b) /\ FrameOf(t, q, b) = FrameOf(s, q, b)
    /\ t.free = s.free
LEMMA FrameHandedOver ==
    ASSUME NEW s, NEW t, NEW X, Owned(s, X), NEW p \in Procs, NEW a \in Page, NEW r \in Page, s.free \subseteq Frame,
           HandsOver(t, s, p, a, r)
    PROVE  Owned(t, X)
<1>0. /\ a # r /\ ~HasFrame(s, p, a) /\ HasFrame(t, p, a) /\ FrameOf(t, p, a) = FrameOf(s, p, r) /\ ~HasFrame(t, p, r)
      /\ HasFrame(s, p, r) \/ FrameOf(s, p, r) \notin Frame
      /\ \A q \in Procs, b \in Page : ~(q = p /\ b \in {a, r}) =>
            HasFrame(t, q, b) = HasFrame(s, q, b) /\ FrameOf(t, q, b) = FrameOf(s, q, b)
      /\ t.free = s.free
  BY DEF HandsOver
<1>1. ASSUME NEW q \in Procs, NEW b \in Page, HasFrame(t, q, b)
      PROVE  \/ q = p /\ b = a
             \/ HasFrame(s, q, b) /\ FrameOf(t, q, b) = FrameOf(s, q, b) /\ ~(q = p /\ b \in {a, r})
  BY <1>0, <1>1
<1>2. ASSUME NEW q \in Procs, NEW b \in Page, HasFrame(t, q, b), FrameOf(t, q, b) = FrameOf(s, p, r),
             FrameOf(s, p, r) \in Frame
      PROVE  q = p /\ b = a
  BY <1>0, <1>1, <1>2 DEF Owned
<1>3. ASSUME NEW q \in Procs, NEW u \in Procs, NEW b \in Page, NEW c \in Page,
             HasFrame(t, q, b), HasFrame(t, u, c), FrameOf(t, q, b) = FrameOf(t, u, c), FrameOf(t, q, b) \in Frame
      PROVE  q = u /\ b = c
  <2>1. CASE FrameOf(t, q, b) = FrameOf(s, p, r)
    BY <1>0, <1>2, <1>3, <2>1
  <2>2. CASE FrameOf(t, q, b) # FrameOf(s, p, r)
    <3>1. ~(q = p /\ b = a) /\ ~(u = p /\ c = a)
      BY <1>0, <1>3, <2>2
    <3>2. /\ HasFrame(s, q, b) /\ FrameOf(t, q, b) = FrameOf(s, q, b)
          /\ HasFrame(s, u, c) /\ FrameOf(t, u, c) = FrameOf(s, u, c)
      BY <1>0, <1>1, <1>3, <3>1
    <3>3. FrameOf(s, q, b) = FrameOf(s, u, c) /\ FrameOf(s, q, b) \in Frame
      BY <1>0, <1>3, <3>2
    <3>4. \A k, l \in Procs, d, e \in Page :
             HasFrame(s, k, d) /\ HasFrame(s, l, e) /\ FrameOf(s, k, d) = FrameOf(s, l, e) /\ FrameOf(s, k, d) \in Frame
               => k = l /\ d = e
      BY <1>0 DEF Owned
    <3>5. HasFrame(s, q, b) /\ HasFrame(s, u, c) /\ FrameOf(s, q, b) = FrameOf(s, u, c) /\ FrameOf(s, q, b) \in Frame
            => q = u /\ b = c
      BY ONLY <3>4, q \in Procs, u \in Procs, b \in Page, c \in Page, Zenon
    <3> QED
      BY ONLY <3>2, <3>3, <3>5
  <2> QED
    BY <1>0, <2>1, <2>2
<1>4. ASSUME NEW q \in Procs, NEW b \in Page, HasFrame(t, q, b)
      PROVE  FrameOf(t, q, b) \notin t.free \cup X
  <2>1. CASE q = p /\ b = a
    BY <1>0, <2>1 DEF Owned
  <2>2. CASE ~(q = p /\ b = a)
    BY <1>0, <1>1, <1>4, <2>2 DEF Owned
  <2> QED
    BY <1>0, <2>1, <2>2
<1>5. ASSUME NEW g \in Frame
      PROVE  g \in t.free \cup X \/ \E q \in Procs, b \in Page : HasFrame(t, q, b) /\ FrameOf(t, q, b) = g
  <2>1. CASE g \in s.free \cup X
    BY <1>0, <2>1
  <2>2. CASE g \notin s.free \cup X
    <3>1. PICK q \in Procs, b \in Page : HasFrame(s, q, b) /\ FrameOf(s, q, b) = g
      BY <1>0, <2>2 DEF Owned
    <3>2. CASE q = p /\ b = r
      BY <1>0, <3>1, <3>2
    <3>3. CASE ~(q = p /\ b = r)
      <4>1. ~(q = p /\ b = a)
        BY <1>0, <3>1
      <4> QED
        BY <1>0, <3>1, <3>3, <4>1
    <3> QED
      BY <1>0, <3>2, <3>3
  <2> QED
    BY <1>0, <2>1, <2>2
<1>6. X \subseteq Frame /\ X \cap t.free = {}
  BY <1>0 DEF Owned
<1> QED
  BY <1>0, <1>3, <1>4, <1>5, <1>6 DEF Owned

\* A step of p that takes pages out of memory, or panics.
PagesLeave(t, s, p) ==
    /\ t \in Memory /\ OthersSame(t, s, p) /\ (s.panic => t.panic)
    /\ \A b \in Page : HasFrame(t, p, b) => HasFrame(s, p, b)
    /\ \A X : Owned(s, X) /\ t.panic = FALSE => Owned(t, X)

\* A step that changes no page table.
LEMMA SameLeave ==
    ASSUME NEW s, NEW t \in Memory, NEW p \in Procs, SameTables(t, s)
    PROVE  PagesLeave(t, s, p)
<1>1. OthersSame(t, s, p) /\ (s.panic => t.panic) /\ \A b \in Page : HasFrame(t, p, b) => HasFrame(s, p, b)
  BY DEF SameTables, OthersSame, HasFrame
<1> QED
  BY <1>1, OwnedSame DEF PagesLeave

\* Two steps after each other.
LEMMA LeaveTwice ==
    ASSUME NEW s, NEW t \in Memory, NEW u, NEW p \in Procs, PagesLeave(t, s, p), PagesLeave(u, t, p)
    PROVE  PagesLeave(u, s, p)
<1>1. u \in Memory /\ OthersSame(u, s, p) /\ (s.panic => u.panic) /\ \A b \in Page : HasFrame(u, p, b) => HasFrame(s, p, b)
  BY DEF PagesLeave, OthersSame
<1>2. ASSUME NEW X, Owned(s, X), u.panic = FALSE PROVE Owned(u, X)
  <2>1. t.panic = FALSE
    BY <1>2 DEF PagesLeave, Memory
  <2> QED
    BY <1>2, <2>1 DEF PagesLeave
<1> QED
  BY <1>1, <1>2 DEF PagesLeave

\* A panic leaves everything else as it is.
LEMMA PanicLeave ==
    ASSUME NEW s \in Memory, NEW p \in Procs
    PROVE  PagesLeave(Panic(s), s, p) /\ Panic(s).panic
<1>1. Panic(s) \in Memory /\ Panic(s).panic /\ Panic(s).proc = s.proc
  BY DEF Memory, Panic
<1> QED
  BY <1>1 DEF PagesLeave, OthersSame, HasFrame

\* A page is written to the swap file.
LEMMA toSlotTypes ==
    ASSUME NEW s \in Memory, NEW p \in Procs, NEW a \in Page
    PROVE  LET t == toSlot(s, p, a) IN t \in Memory /\ SameTables(t, s)
<1> DEFINE i == Min(FreeSlots(s, p))
           sl == [s.proc[p].slot EXCEPT ![i] = [in_use |-> TRUE, address |-> a]]
           fi == [s.proc[p].file EXCEPT ![i] = s.ram[s.proc[p].pte[a].f]]
           r == [s.proc[p] EXCEPT !.slot = sl, !.file = fi]
<1>1. CASE FreeSlots(s, p) = {}
  BY <1>1 DEF toSlot, SameTables
<1>2. CASE FreeSlots(s, p) # {}
  <2>1. i \in Slots
    BY <1>2, LeastSlot DEF FreeSlots
  <2>2. toSlot(s, p, a) = [s EXCEPT !.proc[p] = r]
    BY <1>2 DEF toSlot
  <2> HIDE DEF i
  <2>3. s.proc[p] \in PagedProc
    BY DEF Memory
  <2>4. s.ram[s.proc[p].pte[a].f] \in Content
    BY HasTypes DEF Memory, FrameOf
  <2>5. sl \in [Slots -> SwapSlot] /\ fi \in [Slots -> Content]
    BY <2>1, <2>3, <2>4 DEF PagedProc, SwapSlot
  <2> HIDE DEF sl, fi
  <2>6. r \in PagedProc /\ r.pte = s.proc[p].pte
    BY <2>3, <2>5 DEF PagedProc
  <2> HIDE DEF r
  <2> QED
    BY <2>2, <2>6, OneProcChanges DEF SameTables
<1> QED
  BY <1>1, <1>2

\* A page is uncounted.
LEMMA UncountTypes ==
    ASSUME NEW s \in Memory, NEW p \in Procs
    PROVE  LET t == Uncount(s, p) IN t \in Memory /\ SameTables(t, s)
<1> DEFINE r == [s.proc[p] EXCEPT !.nPagesInPhyMemory = s.proc[p].nPagesInPhyMemory - 1]
<1>1. s.proc[p] \in PagedProc
  BY DEF Memory
<1>2. s.proc[p].nPagesInPhyMemory - 1 \in Int
  BY <1>1 DEF PagedProc
<1>3. r \in PagedProc /\ r.pte = s.proc[p].pte
  BY <1>1, <1>2 DEF PagedProc
<1>4. Uncount(s, p) = [s EXCEPT !.proc[p] = r]
  BY DEF Uncount
<1> HIDE DEF r
<1> QED
  BY <1>3, <1>4, OneProcChanges DEF SameTables

\* Frames are freed.
LEMMA kfreeTypes ==
    ASSUME NEW s \in Memory, NEW fs \in SUBSET Frame
    PROVE  LET t == kfree(s, fs) IN t \in Memory /\ t.proc = s.proc /\ t.free = s.free \cup fs /\ t.panic = s.panic
<1> DEFINE ram == [f \in Physical |-> IF f \in fs THEN Junk ELSE s.ram[f]]
           free == s.free \cup fs
<1>1. ram \in [Physical -> Content] /\ free \in SUBSET Frame
  BY PagingSorts DEF Memory
<1>2. kfree(s, fs) = [s EXCEPT !.free = free, !.ram = ram]
  BY DEF kfree
<1> SUFFICES LET t == kfree(s, fs) IN t \in Memory /\ t.proc = s.proc /\ t.free = free /\ t.panic = s.panic
  OBVIOUS
<1> HIDE DEF ram, free
<1> QED
  BY <1>1, <1>2 DEF Memory

\* A page goes to the swap file.
LEMMA moveToSwapFileLeaves ==
    ASSUME NEW s \in Memory, NEW p \in Procs, NEW a \in Page
    PROVE  PagesLeave(moveToSwapFile(s, p, a), s, p)
<1> DEFINE pte == s.proc[p].pte[a]
           u == toSlot(s, p, a)
<1>1. pte \in Pte
  BY HasTypes
<1>2. u \in Memory /\ SameTables(u, s)
  BY toSlotTypes
<1>3. CASE pte = NoPte \/ pte = Present(Low)
  BY <1>3, PanicLeave DEF moveToSwapFile
<1>4. CASE pte # NoPte /\ pte # Present(Low) /\ ~pte.p
  <2>1. moveToSwapFile(s, p, a) = Uncount(u, p)
    BY <1>4 DEF moveToSwapFile
  <2> HIDE DEF u
  <2>2. Uncount(u, p) \in Memory /\ SameTables(Uncount(u, p), s)
    BY <1>2, UncountTypes DEF SameTables
  <2> QED
    BY <2>1, <2>2, SameLeave
<1>5. CASE pte # NoPte /\ pte # Present(Low) /\ pte.p
  <2> DEFINE f == pte.f
             v == setPte(u, p, a, Swapped)
             w == kfree(v, {f})
             t == Uncount(w, p)
  <2>1. moveToSwapFile(s, p, a) = t
    BY <1>5 DEF moveToSwapFile
  <2>2. f \in Frame
    BY <1>1, <1>5, PteSays DEF Physical
  <2>3. /\ v \in Memory /\ OthersSame(v, u, p) /\ v.proc[p].pte = [u.proc[p].pte EXCEPT ![a] = Swapped]
        /\ v.free = u.free /\ v.panic = u.panic
    BY <1>2, PteSays, setPteTypes
  <2>4. HasFrame(s, p, a) /\ FrameOf(s, p, a) = f
    BY <1>5 DEF HasFrame, FrameOf
  <2> HIDE DEF f, v
  <2>5. w \in Memory /\ w.proc = v.proc /\ w.free = v.free \cup {f} /\ w.panic = v.panic
    BY <2>2, <2>3, kfreeTypes
  <2> HIDE DEF w
  <2>6. t \in Memory /\ SameTables(t, w)
    BY <2>5, UncountTypes
  <2> HIDE DEF t
  <2>7. OthersSame(t, s, p) /\ t.panic = s.panic /\ t.free = s.free \cup {f}
    BY <1>2, <2>3, <2>5, <2>6 DEF SameTables, OthersSame
  <2>8. t.proc[p].pte = [s.proc[p].pte EXCEPT ![a] = Swapped]
    BY <1>2, <2>3, <2>5, <2>6 DEF SameTables
  <2>9. s.proc[p].pte \in [Page -> Pte]
    BY DEF Memory, PagedProc
  <2>10. \A q \in Procs, b \in Page : HasFrame(t, q, b) <=> HasFrame(s, q, b) /\ ~(q = p /\ b \in {a})
    BY <2>7, <2>8, <2>9, PteSays DEF HasFrame, OthersSame
  <2>11. \A q \in Procs, b \in Page : HasFrame(t, q, b) => FrameOf(t, q, b) = FrameOf(s, q, b)
    BY <2>7, <2>8, <2>9, PteSays DEF HasFrame, FrameOf, OthersSame
  <2>12. \A X : Owned(s, X) => Owned(t, X)
    <3>1. t.free = s.free \cup {FrameOf(s, p, b) : b \in {a}}
      BY <2>4, <2>7
    <3>2. \A b \in {a} : HasFrame(s, p, b) /\ FrameOf(s, p, b) \in Frame
      BY <2>2, <2>4
    <3>3. GivesFrames(t, s, p, {a})
      BY <2>10, <2>11, <3>1, <3>2 DEF GivesFrames
    <3> QED
      BY <3>3, FramesGiven
  <2> QED
    BY <2>1, <2>6, <2>7, <2>10, <2>12 DEF PagesLeave
<1> QED
  BY <1>3, <1>4, <1>5

\* The page at the head of the queue goes.
LEMMA swapPageOutLeaves ==
    ASSUME NEW s \in Memory, NEW p \in Procs
    PROVE  PagesLeave(swapPageOut(s, p), s, p)
<1>1. CASE s.proc[p].head = Null
  BY <1>1, PanicLeave DEF swapPageOut
<1>2. CASE s.proc[p].head # Null
  <2> DEFINE t == dequeueFIFO(s, p)
             a == FrontAddress(s, p)
  <2>1. a \in Page /\ t \in Memory /\ SameTables(t, s)
    BY <1>2, FrontTypes, dequeueFIFOTypes
  <2>2. swapPageOut(s, p) = moveToSwapFile(t, p, a)
    BY <1>2 DEF swapPageOut
  <2> HIDE DEF t, a
  <2>3. PagesLeave(t, s, p) /\ PagesLeave(moveToSwapFile(t, p, a), t, p)
    BY <2>1, SameLeave, moveToSwapFileLeaves
  <2> QED
    BY <2>1, <2>2, <2>3, LeaveTwice
<1> QED
  BY <1>1, <1>2

\* At the limit, a page goes.
LEMMA makeRoomLeaves ==
    ASSUME NEW s \in Memory, NEW p \in Procs
    PROVE  PagesLeave(makeRoom(s, p), s, p)
<1>1. SameTables(s, s)
  BY DEF SameTables
<1> QED
  BY <1>1, SameLeave, swapPageOutLeaves DEF makeRoom

\* Page a takes over the frame of the page at the head, which goes to a's slot.
LEMMA ExchangeTypes ==
    ASSUME NEW s \in Memory, NEW p \in Procs, NEW a \in Page, NEW r \in Page, NEW i \in Slots,
           ~HasFrame(s, p, a), s.proc[p].pte[r] # NoPte
    PROVE  LET t == Exchange(s, p, a, r, i)
           IN  /\ t \in Memory /\ OthersSame(t, s, p) /\ t.panic = s.panic
               /\ \A X : Owned(s, X) => Owned(t, X)
<1> DEFINE frame == s.proc[p].pte[r].f
           pte1 == [s.proc[p].pte EXCEPT ![a] = Present(frame)]
           was == s.ram[pte1[r].f]
           pte2 == [pte1 EXCEPT ![r] = Swapped]
           sl == [s.proc[p].slot EXCEPT ![i].address = r]
           fi == [s.proc[p].file EXCEPT ![i] = was]
           new == [s.proc[p] EXCEPT !.slot = sl, !.file = fi, !.pte = pte2]
           u == [s EXCEPT !.proc[p] = new]
           ram == [s.ram EXCEPT ![frame] = s.proc[p].file[i]]
           t == [u EXCEPT !.ram = ram]
<1>1. s.proc[p] \in PagedProc /\ s.ram \in [Physical -> Content]
  BY DEF Memory
<1>2. Exchange(s, p, a, r, i) = t
  BY <1>1 DEF Exchange, Memory
<1> SUFFICES /\ t \in Memory /\ OthersSame(t, s, p) /\ t.panic = s.panic
             /\ \A X : Owned(s, X) => Owned(t, X)
  BY <1>2
<1>3. /\ s.proc[p].pte \in [Page -> Pte] /\ s.proc[p].pte[r] \in Pte /\ s.proc[p].file[i] \in Content
      /\ s.proc[p].slot \in [Slots -> SwapSlot] /\ s.proc[p].file \in [Slots -> Content]
  BY <1>1 DEF PagedProc
<1>4. frame \in Physical
  BY <1>3, PteSays
<1>5. FrameOf(s, p, r) = frame /\ (HasFrame(s, p, r) \/ frame = Low)
  BY <1>3, PteSays DEF FrameOf, HasFrame
<1> HIDE DEF frame
<1>6. pte1 \in [Page -> Pte] /\ pte1[a] = Present(frame) /\ \A b \in Page : b # a => pte1[b] = s.proc[p].pte[b]
  BY <1>3, <1>4, PteSays
<1> HIDE DEF pte1
<1>7. pte2 \in [Page -> Pte] /\ pte2[r] = Swapped /\ \A b \in Page : b # r => pte2[b] = pte1[b]
  BY <1>6, PteSays
<1>8. was \in Content
  BY <1>1, <1>6, PteSays
<1> HIDE DEF pte2, was
<1>9. sl \in [Slots -> SwapSlot]
  BY <1>3 DEF SwapSlot
<1>10. fi \in [Slots -> Content]
  BY <1>3, <1>8
<1>11. ram \in [Physical -> Content]
  BY <1>1, <1>3, <1>4
<1> HIDE DEF sl, fi, ram
<1>12. new \in PagedProc /\ new.pte = pte2
  BY <1>1, <1>7, <1>9, <1>10 DEF PagedProc
<1> HIDE DEF new
<1>13. /\ u \in Memory /\ u.proc[p] = new /\ \A q \in Procs \ {p} : u.proc[q] = s.proc[q]
       /\ u.free = s.free /\ u.panic = s.panic
  BY <1>12, OneProcChanges
<1> HIDE DEF u
<1>14. t \in Memory /\ t.proc = u.proc /\ t.free = u.free /\ t.panic = u.panic
  BY <1>11, <1>13 DEF Memory
<1> HIDE DEF t
<1>15. OthersSame(t, s, p) /\ t.proc[p].pte = pte2
  BY <1>12, <1>13, <1>14 DEF OthersSame
<1>16. ASSUME NEW q \in Procs, NEW b \in Page, ~(q = p /\ b \in {a, r})
       PROVE  HasFrame(t, q, b) = HasFrame(s, q, b) /\ FrameOf(t, q, b) = FrameOf(s, q, b)
  BY <1>6, <1>7, <1>15, <1>16 DEF HasFrame, FrameOf, OthersSame
<1>17. ~HasFrame(t, p, r)
  BY <1>7, <1>15, PteSays DEF HasFrame
<1>18. ASSUME NEW X, Owned(s, X) PROVE Owned(t, X)
  <2>1. CASE a = r
    <3>1. \A q \in Procs, b \in Page : HasFrame(t, q, b) <=> HasFrame(s, q, b) /\ ~(q = p /\ b \in {})
      BY <1>16, <1>17, <2>1
    <3>2. \A q \in Procs, b \in Page : HasFrame(t, q, b) => FrameOf(t, q, b) = FrameOf(s, q, b)
      BY <1>16, <1>17, <2>1
    <3>3. t.free = s.free \cup {FrameOf(s, p, b) : b \in {}}
      BY <1>13, <1>14
    <3>4. GivesFrames(t, s, p, {})
      BY <3>1, <3>2, <3>3 DEF GivesFrames
    <3> QED
      BY <1>18, <3>4, FramesGiven
  <2>2. CASE a # r
    <3>1. HasFrame(t, p, a) /\ FrameOf(t, p, a) = FrameOf(s, p, r)
      BY <1>5, <1>6, <1>7, <1>15, <2>2, PteSays DEF HasFrame, FrameOf
    <3>2. HasFrame(s, p, r) \/ FrameOf(s, p, r) \notin Frame
      BY <1>5, PagingSorts
    <3>3. HandsOver(t, s, p, a, r)
      BY <1>13, <1>14, <1>16, <1>17, <2>2, <3>1, <3>2 DEF HandsOver
    <3>4. s.free \subseteq Frame
      BY DEF Memory
    <3> QED
      BY <1>18, <3>3, <3>4, FrameHandedOver
  <2> QED
    BY <2>1, <2>2
<1> QED
  BY <1>13, <1>14, <1>15, <1>18

\* A page that was swapped out comes in.
LEMMA swapPageInKeeps ==
    ASSUME NEW s \in Memory, NEW p \in Procs, NEW a \in Page, ~HasFrame(s, p, a)
    PROVE  LET t == swapPageIn(s, p, a)
           IN  /\ t \in Memory /\ OthersSame(t, s, p) /\ (s.panic => t.panic)
               /\ \A X : Owned(s, X) /\ t.panic = FALSE => Owned(t, X)
<1> DEFINE r == FrontAddress(s, p)
           i == Min(HasAddress(s, p, a))
           d == dequeueFIFO(s, p)
           x == Exchange(d, p, a, r, i)
           bad == s.proc[p].head = Null \/ s.proc[p].pte[a] = NoPte \/ s.proc[p].pte[r] = NoPte
<1>1. CASE s.panic \/ HasAddress(s, p, a) = {}
  BY <1>1 DEF swapPageIn, OthersSame
<1>2. CASE ~(s.panic \/ HasAddress(s, p, a) = {}) /\ bad
  <2>1. swapPageIn(s, p, a) = Panic(s)
    BY <1>2 DEF swapPageIn
  <2> DEFINE t == Panic(s)
  <2>2. /\ t \in Memory /\ OthersSame(t, s, p) /\ (s.panic => t.panic)
        /\ \A X : Owned(s, X) /\ t.panic = FALSE => Owned(t, X)
    BY PanicLeave DEF PagesLeave
  <2> QED
    BY <2>1, <2>2
<1>3. CASE ~(s.panic \/ HasAddress(s, p, a) = {}) /\ ~bad
  <2>1. swapPageIn(s, p, a) = enqueueFIFO(x, p, a)
    BY <1>3 DEF swapPageIn
  <2>2. i \in Slots
    BY <1>3, LeastSlot DEF HasAddress
  <2>3. r \in Page /\ d \in Memory /\ SameTables(d, s)
    BY <1>3, FrontTypes, dequeueFIFOTypes
  <2>4. ~HasFrame(d, p, a) /\ d.proc[p].pte[r] # NoPte
    BY <1>3, <2>3 DEF HasFrame, SameTables
  <2> HIDE DEF d, r, i
  <2>5. x \in Memory /\ OthersSame(x, d, p) /\ x.panic = d.panic /\ \A X : Owned(d, X) => Owned(x, X)
    BY <2>2, <2>3, <2>4, ExchangeTypes
  <2> HIDE DEF x
  <2> DEFINE t == enqueueFIFO(x, p, a)
  <2>6. t \in Memory /\ SameTables(t, x)
    BY <2>5, enqueueFIFOTypes
  <2> HIDE DEF t
  <2>7. OthersSame(t, s, p) /\ t.panic = s.panic
    BY <2>3, <2>5, <2>6 DEF SameTables, OthersSame
  <2>8. ASSUME NEW X, Owned(s, X) PROVE Owned(t, X)
    BY <2>3, <2>5, <2>6, <2>8, OwnedSame
  <2> QED
    BY <2>1, <2>6, <2>7, <2>8 DEF t
<1> QED
  BY <1>1, <1>2, <1>3

\* The pages of a range are freed.
LEMMA deallocuvmLeaves ==
    ASSUME NEW s \in Memory, NEW p \in Procs, NEW from \in Int, NEW to \in Int, from >= 0, to <= NPages
    PROVE  /\ PagesLeave(deallocuvm(s, p, from, to), s, p)
           /\ LET t == deallocuvm(s, p, from, to)
              IN  t.panic = FALSE => \A a \in Page : a \in from .. to - 1 => ~HasFrame(t, p, a)
<1> DEFINE gone == {a \in from .. to - 1 : s.proc[p].pte[a].p}
           pte == [a \in Page |-> IF a \in gone THEN NoPte ELSE s.proc[p].pte[a]]
           r == [s.proc[p] EXCEPT !.pte = pte]
           u == [s EXCEPT !.proc[p] = r]
           fs == {s.proc[p].pte[a].f : a \in gone}
           t == kfree(u, fs)
<1>1. gone \subseteq Page /\ \A a \in Page : a \in gone <=> a \in from .. to - 1 /\ HasFrame(s, p, a)
  BY PagingAssumption DEF Page, HasFrame
<1>2. CASE \E a \in gone : s.proc[p].pte[a].f = Low
  <2>1. deallocuvm(s, p, from, to) = Panic(s)
    BY <1>2 DEF deallocuvm
  <2> QED
    BY <2>1, PanicLeave
<1>3. CASE ~\E a \in gone : s.proc[p].pte[a].f = Low
  <2>1. deallocuvm(s, p, from, to) = t
    BY <1>3 DEF deallocuvm
  <2>2. \A a \in gone : HasFrame(s, p, a) /\ FrameOf(s, p, a) \in Frame
    BY <1>1, <1>3, HasTypes DEF FrameOf, Physical
  <2>3. fs = {FrameOf(s, p, a) : a \in gone}
    BY DEF FrameOf
  <2>4. fs \subseteq Frame
    BY <2>2, <2>3
  <2> HIDE DEF gone, fs
  <2>5. s.proc[p] \in PagedProc
    BY DEF Memory
  <2>6. pte \in [Page -> Pte]
    BY <2>5, PteSays DEF PagedProc
  <2>7. \A a \in Page : pte[a] = IF a \in gone THEN NoPte ELSE s.proc[p].pte[a]
    OBVIOUS
  <2> HIDE DEF pte
  <2>8. r \in PagedProc /\ r.pte = pte
    BY <2>5, <2>6 DEF PagedProc
  <2> HIDE DEF r
  <2>9. /\ u \in Memory /\ u.proc[p] = r /\ \A q \in Procs \ {p} : u.proc[q] = s.proc[q]
        /\ u.free = s.free /\ u.panic = s.panic
    BY <2>8, OneProcChanges
  <2> HIDE DEF u
  <2>10. t \in Memory /\ t.proc = u.proc /\ t.free = s.free \cup fs /\ t.panic = s.panic
    BY <2>4, <2>9, kfreeTypes
  <2> HIDE DEF t
  <2>11. OthersSame(t, s, p) /\ t.proc[p].pte = pte
    BY <2>8, <2>9, <2>10 DEF OthersSame
  <2>12. \A q \in Procs, b \in Page : HasFrame(t, q, b) <=> HasFrame(s, q, b) /\ ~(q = p /\ b \in gone)
    BY <2>7, <2>11, PteSays DEF HasFrame, OthersSame
  <2>13. \A q \in Procs, b \in Page : HasFrame(t, q, b) => FrameOf(t, q, b) = FrameOf(s, q, b)
    BY <2>7, <2>11, PteSays DEF HasFrame, FrameOf, OthersSame
  <2>14. GivesFrames(t, s, p, gone)
    BY <2>2, <2>3, <2>10, <2>12, <2>13 DEF GivesFrames
  <2>15. \A X : Owned(s, X) => Owned(t, X)
    BY <1>1, <2>14, FramesGiven
  <2>16. PagesLeave(t, s, p)
    BY <2>10, <2>11, <2>12, <2>15 DEF PagesLeave
  <2>17. \A a \in Page : a \in from .. to - 1 => ~HasFrame(t, p, a)
    BY <1>1, <2>12
  <2> QED
    BY <2>1, <2>16, <2>17
<1> QED
  BY <1>2, <1>3

\* The pages of p in memory, and their frames.
PagesOf(s, p) == {a \in Page : HasFrame(s, p, a)}
FramesIn(s, p) == {FrameOf(s, p, a) : a \in PagesOf(s, p)}

\* Pages have no more frames than there are pages.
LEMMA FramesInBounded ==
    ASSUME NEW s, NEW p
    PROVE  /\ IsFiniteSet(PagesOf(s, p)) /\ Cardinality(PagesOf(s, p)) \in Nat
           /\ Cardinality(PagesOf(s, p)) <= NPages
           /\ IsFiniteSet(FramesIn(s, p)) /\ Cardinality(FramesIn(s, p)) \in Nat
           /\ Cardinality(FramesIn(s, p)) <= Cardinality(PagesOf(s, p))
<1> DEFINE S == PagesOf(s, p)
           T == FramesIn(s, p)
           f == [a \in S |-> FrameOf(s, p, a)]
<1>1. IsFiniteSet(Page) /\ Cardinality(Page) = NPages
  <2>1. IsFiniteSet(0 .. NPages - 1) /\ Cardinality(0 .. NPages - 1) = IF 0 > NPages - 1 THEN 0 ELSE NPages - 1 - 0 + 1
    BY PagingAssumption, FS_Interval
  <2> QED
    BY <2>1, PagingAssumption DEF Page
<1>2. S \in SUBSET Page
  BY DEF PagesOf
<1>3. IsFiniteSet(S) /\ Cardinality(S) <= NPages
  BY <1>1, <1>2, FS_Subset
<1>4. f \in Surjection(S, T)
  BY DEF FramesIn, Surjection
<1> HIDE DEF S, T, f
<1>5. IsFiniteSet(T) /\ Cardinality(T) <= Cardinality(S)
  BY <1>3, <1>4, FS_Surjection
<1>6. Cardinality(S) \in Nat /\ Cardinality(T) \in Nat
  BY <1>3, <1>5, FS_CardinalityType
<1> QED
  BY <1>3, <1>5, <1>6 DEF S, T

\* What is not free is set aside or the frame of a page: so many are free.
LEMMA FreeFrames ==
    ASSUME NEW s \in Memory, NEW X, Owned(s, X)
    PROVE  /\ IsFiniteSet(s.free) /\ Cardinality(s.free) \in Nat /\ IsFiniteSet(X) /\ Cardinality(X) \in Nat
           /\ NFrames <= Cardinality(s.free) + Cardinality(X)
                         + Cardinality(PagesOf(s, Parent)) + Cardinality(PagesOf(s, Child))
<1> DEFINE A == FramesIn(s, Parent)
           B == FramesIn(s, Child)
           FX == s.free \cup X
           AB == A \cup B
           U == FX \cup AB
<1>1. IsFiniteSet(Frame) /\ Cardinality(Frame) = NFrames
  <2>1. IsFiniteSet(1 .. NFrames) /\ Cardinality(1 .. NFrames) = IF 1 > NFrames THEN 0 ELSE NFrames - 1 + 1
    BY PagingAssumption, FS_Interval
  <2> QED
    BY <2>1, PagingAssumption DEF Frame
<1>2. s.free \in SUBSET Frame /\ X \in SUBSET Frame
  BY DEF Memory, Owned
<1>3. IsFiniteSet(s.free) /\ IsFiniteSet(X)
  BY <1>1, <1>2, FS_Subset
<1>4. IsFiniteSet(A) /\ IsFiniteSet(B)
  BY FramesInBounded
<1>5. Frame \subseteq U
  <2>1. ASSUME NEW f \in Frame, f \notin FX PROVE f \in AB
    <3>1. PICK p \in Procs, a \in Page : HasFrame(s, p, a) /\ FrameOf(s, p, a) = f
      BY <2>1 DEF Owned
    <3>2. f \in FramesIn(s, p)
      BY <3>1 DEF FramesIn, PagesOf
    <3> QED
      BY <3>2 DEF Procs
  <2> QED
    BY <2>1
<1> HIDE DEF A, B
<1>6. /\ IsFiniteSet(FX)
      /\ Cardinality(FX) = Cardinality(s.free) + Cardinality(X) - Cardinality(s.free \cap X)
  BY <1>3, FS_Union
<1>7. IsFiniteSet(AB) /\ Cardinality(AB) = Cardinality(A) + Cardinality(B) - Cardinality(A \cap B)
  BY <1>4, FS_Union
<1> HIDE DEF FX, AB
<1>8. IsFiniteSet(U) /\ Cardinality(U) = Cardinality(FX) + Cardinality(AB) - Cardinality(FX \cap AB)
  BY <1>6, <1>7, FS_Union
<1> HIDE DEF U
<1>9. Cardinality(Frame) <= Cardinality(U)
  BY <1>5, <1>8, FS_Subset
<1>10. IsFiniteSet(s.free \cap X) /\ IsFiniteSet(A \cap B) /\ IsFiniteSet(FX \cap AB)
  <2>1. s.free \cap X \in SUBSET s.free /\ A \cap B \in SUBSET A /\ FX \cap AB \in SUBSET FX
    OBVIOUS
  <2> QED
    BY <1>3, <1>4, <1>6, <2>1, FS_Subset
<1>11. /\ Cardinality(s.free \cap X) \in Nat /\ Cardinality(A \cap B) \in Nat /\ Cardinality(FX \cap AB) \in Nat
       /\ Cardinality(s.free) \in Nat /\ Cardinality(X) \in Nat
       /\ Cardinality(FX) \in Nat /\ Cardinality(AB) \in Nat /\ Cardinality(U) \in Nat
       /\ Cardinality(A) \in Nat /\ Cardinality(B) \in Nat
  BY <1>3, <1>4, <1>6, <1>7, <1>8, <1>10, FS_CardinalityType
<1>12. /\ Cardinality(A) <= Cardinality(PagesOf(s, Parent)) /\ Cardinality(PagesOf(s, Parent)) \in Nat
       /\ Cardinality(B) <= Cardinality(PagesOf(s, Child)) /\ Cardinality(PagesOf(s, Child)) \in Nat
  BY FramesInBounded DEF A, B
<1>13. NFrames \in Nat
  BY PagingAssumption
<1>14. NFrames <= Cardinality(s.free) + Cardinality(X)
                  + Cardinality(PagesOf(s, Parent)) + Cardinality(PagesOf(s, Child))
  BY ONLY <1>1, <1>6, <1>7, <1>8, <1>9, <1>11, <1>12, <1>13
<1> QED
  BY <1>3, <1>11, <1>14

\* A frame is free as long as fewer than NPages are set aside.
LEMMA FrameLeft ==
    ASSUME NEW s \in Memory, NEW X, Owned(s, X), Cardinality(X) < NPages
    PROVE  s.free # {}
<1>1. /\ Cardinality(s.free) \in Nat /\ Cardinality(X) \in Nat
      /\ NFrames <= Cardinality(s.free) + Cardinality(X)
                    + Cardinality(PagesOf(s, Parent)) + Cardinality(PagesOf(s, Child))
  BY FreeFrames
<1>2. /\ Cardinality(PagesOf(s, Parent)) \in Nat /\ Cardinality(PagesOf(s, Parent)) <= NPages
      /\ Cardinality(PagesOf(s, Child)) \in Nat /\ Cardinality(PagesOf(s, Child)) <= NPages
  BY FramesInBounded
<1>3. 3 * NPages <= NFrames /\ NPages \in Nat /\ NFrames \in Nat
  BY PagingAssumption
<1>4. Cardinality(s.free) > 0
  BY <1>1, <1>2, <1>3
<1> QED
  BY <1>4, FS_EmptySet

\* With nothing set aside a frame is left for one page more.
LEMMA OneFrameLeft ==
    ASSUME NEW s \in Memory, Owned(s, {})
    PROVE  s.free # {}
<1>1. Cardinality({}) = 0
  BY FS_EmptySet
<1>2. Cardinality({}) < NPages
  BY <1>1, PagingAssumption
<1> QED
  BY <1>2, FrameLeft

\* One page more in memory.
LEMMA mapPageKeeps ==
    ASSUME NEW s \in Memory, NEW p \in Procs, NEW a \in Page, ~HasFrame(s, p, a), s.free # {}
    PROVE  LET t == mapPage(s, p, a)
           IN  /\ t \in Memory /\ OthersSame(t, s, p) /\ t.panic = s.panic
               /\ HasFrame(t, p, a) /\ FrameOf(t, p, a) \in Frame
               /\ \A b \in Page \ {a} : HasFrame(t, p, b) = HasFrame(s, p, b) /\ FrameOf(t, p, b) = FrameOf(s, p, b)
               /\ \A X : Owned(s, X) => Owned(t, X)
<1> DEFINE f == Min(s.free)
           r == [s.proc[p] EXCEPT !.pte[a] = Present(f)]
           u == [s EXCEPT !.proc[p] = r]
           v == [s EXCEPT !.proc[p].pte[a] = Present(f), !.free = s.free \ {f}, !.ram[f] = Zero]
           free == s.free \ {f}
           ram == [s.ram EXCEPT ![f] = Zero]
           w == [u EXCEPT !.free = free, !.ram = ram]
           t == enqueueFIFO(v, p, a)
<1>1. f \in s.free /\ f \in Frame
  <2>1. s.free \in SUBSET Nat /\ s.free \subseteq Frame
    BY PagingSorts, HasTypes
  <2>2. \E i \in s.free : \A j \in s.free : i <= j
    BY <2>1, LeastElement
  <2> QED
    BY <2>1, <2>2 DEF Min
<1>2. mapPage(s, p, a) = t
  BY DEF mapPage, HasFrame
<1>3. v = w
  BY DEF Memory
<1> HIDE DEF f
<1>4. s.proc[p] \in PagedProc /\ f \in Physical
  BY <1>1, PagingSorts DEF Memory
<1>5. /\ s.proc[p].pte \in [Page -> Pte] /\ r.pte = [s.proc[p].pte EXCEPT ![a] = Present(f)]
      /\ r.pte \in [Page -> Pte] /\ r \in PagedProc
  BY <1>4, PteSays DEF PagedProc
<1>6. \A b \in Page : r.pte[b] = IF b = a THEN Present(f) ELSE s.proc[p].pte[b]
  BY <1>5
<1> HIDE DEF r
<1>7. /\ u \in Memory /\ u.proc[p] = r /\ \A q \in Procs \ {p} : u.proc[q] = s.proc[q]
      /\ u.panic = s.panic
  BY <1>5, OneProcChanges
<1> HIDE DEF u
<1>8. ram \in [Physical -> Content] /\ free \in SUBSET Frame
  BY <1>4, PagingSorts DEF Memory
<1>9. free = s.free \ {f}
  OBVIOUS
<1> HIDE DEF ram, free
<1>10. w \in Memory /\ w.proc = u.proc /\ w.panic = s.panic /\ w.free = free
  BY <1>7, <1>8 DEF Memory
<1> HIDE DEF v, w
<1>11. t \in Memory /\ SameTables(t, v)
  BY <1>3, <1>10, enqueueFIFOTypes
<1> HIDE DEF t
<1>12. t.panic = s.panic /\ t.free = s.free \ {f} /\ OthersSame(t, s, p) /\ t.proc[p].pte = r.pte
  BY <1>3, <1>7, <1>9, <1>10, <1>11 DEF SameTables, OthersSame
<1>13. HasFrame(t, p, a) /\ FrameOf(t, p, a) = f
  BY <1>6, <1>12, PteSays DEF HasFrame, FrameOf
<1>14. \A q \in Procs, b \in Page : ~(q = p /\ b = a) =>
          HasFrame(t, q, b) = HasFrame(s, q, b) /\ FrameOf(t, q, b) = FrameOf(s, q, b)
  BY <1>6, <1>12 DEF HasFrame, FrameOf, OthersSame
<1>15. TakesFrame(t, s, p, a, f)
  BY <1>1, <1>12, <1>13, <1>14 DEF TakesFrame
<1>16. \A X : Owned(s, X) => Owned(t, X)
  BY <1>1, <1>15, FrameTaken
<1> QED
  BY <1>1, <1>2, <1>11, <1>12, <1>13, <1>14, <1>16

\* The memory of process p is as it may be in the course of a system call that
\* began in s, with the frames X set aside.
Underway(t, s, p, X) ==
    /\ t \in Memory /\ OthersSame(t, s, p) /\ (t.panic = FALSE => Owned(t, X))

\* g is the table of allocuvm up to page n.
Grown(g, s, p, from, n) ==
    g = [a \in from .. n |->
            IF a = from THEN s
            ELSE LET t == IF g[a - 1].panic THEN g[a - 1] ELSE makeRoom(g[a - 1], p)
                 IN  IF t.panic THEN t ELSE mapPage(t, p, a - 1)]
GrownStep(x, p, a) ==
    LET t == IF x.panic THEN x ELSE makeRoom(x, p) IN IF t.panic THEN t ELSE mapPage(t, p, a - 1)

\* One page is added.
LEMMA GrownStepKeeps ==
    ASSUME NEW s, NEW p \in Procs, NEW a \in Int, a - 1 \in Page, NEW x, Underway(x, s, p, {})
    PROVE  Underway(GrownStep(x, p, a), s, p, {})
<1> DEFINE t == IF x.panic THEN x ELSE makeRoom(x, p)
<1>1. Underway(t, s, p, {})
  <2>1. CASE x.panic
    BY <2>1
  <2>2. CASE ~x.panic
    <3>1. x \in Memory /\ x.panic = FALSE /\ Owned(x, {})
      BY <2>2 DEF Underway, Memory
    <3>2. PagesLeave(t, x, p)
      BY <2>2, <3>1, makeRoomLeaves
    <3> HIDE DEF t
    <3> QED
      BY <3>1, <3>2 DEF PagesLeave, Underway, OthersSame
  <2> QED
    BY <2>1, <2>2
<1>2. GrownStep(x, p, a) = IF t.panic THEN t ELSE mapPage(t, p, a - 1)
  BY DEF GrownStep
<1> HIDE DEF t
<1>3. CASE t.panic
  BY <1>1, <1>2, <1>3
<1>4. CASE ~t.panic
  <2>1. t \in Memory /\ t.panic = FALSE /\ Owned(t, {})
    BY <1>1, <1>4 DEF Underway, Memory
  <2> DEFINE u == mapPage(t, p, a - 1)
  <2>2. CASE HasFrame(t, p, a - 1)
    <3>1. u = Panic(t)
      BY <2>2 DEF mapPage, HasFrame
    <3>2. PagesLeave(u, t, p) /\ u.panic
      BY <2>1, <3>1, PanicLeave
    <3> HIDE DEF u
    <3>3. Underway(u, s, p, {})
      BY <1>1, <2>1, <3>2 DEF PagesLeave, Underway, OthersSame
    <3> QED
      BY <1>2, <1>4, <3>3 DEF u
  <2>3. CASE ~HasFrame(t, p, a - 1)
    <3>1. t.free # {}
      BY <2>1, OneFrameLeft
    <3>2. u \in Memory /\ OthersSame(u, t, p) /\ Owned(u, {})
      BY <2>1, <2>3, <3>1, mapPageKeeps
    <3> HIDE DEF u
    <3>3. Underway(u, s, p, {})
      BY <1>1, <3>2 DEF Underway, OthersSame
    <3> QED
      BY <1>2, <1>4, <3>3 DEF u
  <2> QED
    BY <2>2, <2>3
<1> QED
  BY <1>3, <1>4

\* There is such a table.
LEMMA GrownExists ==
    ASSUME NEW s, NEW p, NEW from \in Nat, NEW n \in Nat
    PROVE  \E g : Grown(g, s, p, from, from + n)
<1> DEFINE S == {j \in Nat : j <= n /\ ~\E g : Grown(g, s, p, from, from + j)}
<1>1. SUFFICES S = {}
  OBVIOUS
<1> SUFFICES ASSUME S # {} PROVE FALSE
  OBVIOUS
<1>2. PICK i \in S : \A j \in S : i <= j
  BY LeastElement
<1>3. i \in Nat /\ i <= n /\ ~\E g : Grown(g, s, p, from, from + i)
  OBVIOUS
<1>4. CASE i = 0
  <2> DEFINE g == [a \in from .. from + 0 |-> s]
  <2>1. \A a \in from .. from + 0 : a = from
    OBVIOUS
  <2>2. Grown(g, s, p, from, from + 0)
    BY <2>1 DEF Grown
  <2> QED
    BY <1>3, <1>4, <2>2
<1>5. CASE i # 0
  <2> DEFINE k == from + i
  <2>1. i - 1 \in Nat /\ i - 1 <= n /\ ~(i <= i - 1) /\ from + (i - 1) = k - 1
    BY <1>3, <1>5
  <2>2. i - 1 \notin S
    BY <1>2, <2>1
  <2>3. PICK g : Grown(g, s, p, from, k - 1)
    BY <2>1, <2>2
  <2>4. k \in Nat /\ k > from
    BY <1>3, <1>5
  <2> HIDE DEF k
  <2> DEFINE h == [a \in from .. k |-> IF a = k THEN GrownStep(g[k - 1], p, k) ELSE g[a]]
  <2>5. \A a \in from .. k - 1 : g[a] = IF a = from THEN s ELSE GrownStep(g[a - 1], p, a)
    BY <2>3 DEF Grown, GrownStep
  <2>6. ASSUME NEW a \in from .. k PROVE h[a] = IF a = from THEN s ELSE GrownStep(h[a - 1], p, a)
    <3>1. CASE a = k
      <4>1. k - 1 \in from .. k /\ k - 1 # k /\ h[k - 1] = g[k - 1] /\ h[a] = GrownStep(g[k - 1], p, k)
        BY <2>4, <3>1
      <4> QED
        BY <2>4, <3>1, <4>1
    <3>2. CASE a # k
      <4>1. a \in from .. k - 1 /\ h[a] = g[a]
        BY <2>4, <3>2
      <4>2. a # from => a - 1 \in from .. k /\ a - 1 # k
        BY <2>4, <3>2
      <4>3. a # from => h[a - 1] = g[a - 1]
        BY <4>2
      <4> QED
        BY <2>5, <4>1, <4>3
    <3> QED
      BY <3>1, <3>2
  <2>7. h = [a \in from .. k |-> h[a]]
    OBVIOUS
  <2> HIDE DEF h
  <2>8. h = [a \in from .. k |-> IF a = from THEN s ELSE GrownStep(h[a - 1], p, a)]
    BY <2>6, <2>7
  <2>9. Grown(h, s, p, from, k)
    BY <2>8 DEF Grown, GrownStep
  <2> QED
    BY <1>3, <2>9 DEF k
<1> QED
  BY <1>4, <1>5

\* What the table holds.
LEMMA GrownKeeps ==
    ASSUME NEW s, NEW p \in Procs, Underway(s, s, p, {}), NEW from \in Nat, NEW n \in Nat, from + n <= NPages,
           NEW g, Grown(g, s, p, from, from + n)
    PROVE  \A j \in 0 .. n : Underway(g[from + j], s, p, {})
<1> DEFINE S == {j \in Nat : j <= n /\ ~Underway(g[from + j], s, p, {})}
<1>1. SUFFICES S = {}
  OBVIOUS
<1> SUFFICES ASSUME S # {} PROVE FALSE
  OBVIOUS
<1>2. PICK i \in S : \A j \in S : i <= j
  BY LeastElement
<1>3. i \in Nat /\ i <= n /\ ~Underway(g[from + i], s, p, {})
  OBVIOUS
<1>4. \A a \in from .. from + n : g[a] = IF a = from THEN s ELSE GrownStep(g[a - 1], p, a)
  BY DEF Grown, GrownStep
<1> DEFINE k == from + i
<1>5. k \in from .. from + n /\ k \in Int
  BY <1>3
<1>6. g[k] = IF k = from THEN s ELSE GrownStep(g[k - 1], p, k)
  BY <1>4, <1>5
<1>7. k # from
  BY <1>3, <1>6
<1>8. i - 1 \in Nat /\ i - 1 <= n /\ ~(i <= i - 1) /\ from + (i - 1) = k - 1
  BY <1>3, <1>7
<1>9. i - 1 \notin S
  BY <1>2, <1>8
<1>10. Underway(g[k - 1], s, p, {})
  BY <1>8, <1>9
<1>11. k - 1 \in Page
  BY <1>3, <1>7, PagingAssumption DEF Page
<1> HIDE DEF k
<1>12. Underway(GrownStep(g[k - 1], p, k), s, p, {})
  BY <1>5, <1>10, <1>11, GrownStepKeeps
<1> QED
  BY <1>3, <1>6, <1>7, <1>12 DEF k

\* sbrk with n > 0, with memory for the pages up to end.
LEMMA allocuvmKeeps ==
    ASSUME NEW s \in Memory, s.panic = FALSE, Owned(s, {}), NEW p \in Procs,
           NEW from \in Nat, NEW to \in Nat, NEW end \in Nat, from <= end, end <= to, to <= NPages
    PROVE  Underway(allocuvm(s, p, from, to, end), s, p, {})
<1> DEFINE n == end - from
<1>1. n \in Nat /\ from + n = end /\ from + n <= NPages
  BY PagingAssumption
<1> HIDE DEF n
<1>2. \E g : Grown(g, s, p, from, end)
  BY <1>1, GrownExists
<1> DEFINE grown == CHOOSE g : Grown(g, s, p, from, end)
<1>3. Grown(grown, s, p, from, end)
  BY <1>2
<1>4. Underway(s, s, p, {})
  BY DEF Underway, OthersSame
<1> DEFINE last == grown[end]
<1>5. Underway(last, s, p, {})
  <2> HIDE DEF grown
  <2>1. n \in 0 .. n
    BY <1>1
  <2>2. \A j \in 0 .. n : Underway(grown[from + j], s, p, {})
    BY <1>1, <1>3, <1>4, GrownKeeps
  <2> QED
    BY <1>1, <2>1, <2>2
<1> DEFINE t == makeRoom(last, p)
<1>6. allocuvm(s, p, from, to, end) =
        IF last.panic \/ end = to THEN last ELSE IF t.panic THEN t ELSE deallocuvm(t, p, from, to)
  BY DEF allocuvm, Grown
<1> HIDE DEF grown, last
<1>7. CASE last.panic \/ end = to
  BY <1>5, <1>6, <1>7
<1>8. CASE ~(last.panic \/ end = to)
  <2>1. last \in Memory /\ last.panic = FALSE /\ Owned(last, {})
    BY <1>5, <1>8 DEF Underway, Memory
  <2>2. PagesLeave(t, last, p)
    BY <2>1, makeRoomLeaves
  <2> HIDE DEF t
  <2>3. Underway(t, s, p, {})
    BY <1>5, <2>1, <2>2 DEF PagesLeave, Underway, OthersSame
  <2>4. CASE t.panic
    BY <1>6, <1>8, <2>3, <2>4
  <2>5. CASE ~t.panic
    <3> DEFINE u == deallocuvm(t, p, from, to)
    <3>1. t \in Memory /\ t.panic = FALSE /\ Owned(t, {})
      BY <2>3, <2>5 DEF Underway, Memory
    <3>2. PagesLeave(u, t, p)
      <4>1. from \in Int /\ to \in Int /\ from >= 0 /\ to <= NPages
        OBVIOUS
      <4> QED
        BY <3>1, <4>1, deallocuvmLeaves
    <3>3. allocuvm(s, p, from, to, end) = u
      BY <1>6, <1>8, <2>5
    <3> HIDE DEF u
    <3> QED
      BY <2>3, <3>1, <3>2, <3>3 DEF PagesLeave, Underway, OthersSame
  <2> QED
    BY <2>4, <2>5
<1> QED
  BY <1>7, <1>8

\* While exec loads a pages, those pages of p are in memory, and no others.
\* Pages in a table that all lie below page a have at most a frames.
LEMMA TableFrames ==
    ASSUME NEW table, NEW a \in Nat, a <= NPages, \A b \in Page : table[b].p => b < a
    PROVE  IsFiniteSet(FramesOf(table)) /\ Cardinality(FramesOf(table)) \in Nat /\ Cardinality(FramesOf(table)) <= a
<1> DEFINE S == {x \in Page : table[x].p}
           T == FramesOf(table)
           f == [x \in S |-> table[x].f]
<1>1. IsFiniteSet(0 .. a - 1) /\ Cardinality(0 .. a - 1) = a
  <2>1. IsFiniteSet(0 .. a - 1) /\ Cardinality(0 .. a - 1) = IF 0 > a - 1 THEN 0 ELSE a - 1 - 0 + 1
    BY FS_Interval
  <2> QED
    BY <2>1
<1>2. S \subseteq 0 .. a - 1
  <2>1. \A b \in Page : b \in Nat
    BY DEF Page
  <2>2. \A b \in Nat : b < a => b \in 0 .. a - 1
    OBVIOUS
  <2> QED
    BY <2>1, <2>2
<1>3. IsFiniteSet(S) /\ Cardinality(S) <= a /\ Cardinality(S) \in Nat
  BY <1>1, <1>2, FS_Subset, FS_CardinalityType
<1>4. f \in Surjection(S, T)
  BY DEF FramesOf, Surjection
<1> HIDE DEF S, T, f
<1>5. IsFiniteSet(T) /\ Cardinality(T) <= Cardinality(S)
  BY <1>3, <1>4, FS_Surjection
<1>6. Cardinality(T) \in Nat
  BY <1>5, FS_CardinalityType
<1> QED
  BY <1>3, <1>5, <1>6 DEF T

\* Frame f is set aside.
LEMMA FrameSetAside ==
    ASSUME NEW s, NEW t, NEW X, Owned(s, X), NEW f \in Frame, f \in s.free,
           \A q \in Procs : t.proc[q].pte = s.proc[q].pte, t.free = s.free \ {f}
    PROVE  Owned(t, X \cup {f})
<1>1. \A q \in Procs, b \in Page : HasFrame(t, q, b) = HasFrame(s, q, b) /\ FrameOf(t, q, b) = FrameOf(s, q, b)
  BY DEF HasFrame, FrameOf
<1>2. t.free \cup (X \cup {f}) = s.free \cup X
  OBVIOUS
<1>3. (X \cup {f}) \cap t.free = {} /\ X \cup {f} \subseteq Frame
  BY DEF Owned
<1> QED
  BY <1>1, <1>2, <1>3 DEF Owned

\* A page of a new table is queued.
LEMMA newPageKeeps ==
    ASSUME NEW t \in Memory, NEW new \in [Page -> Pte], NEW p \in Procs, NEW a \in Page, t.free # {}
    PROVE  LET f == Min(t.free)
               x == newPage(t, new, p, a, f)
           IN  /\ f \in t.free /\ f \in Frame /\ x = [mem |-> x.mem, new |-> x.new]
               /\ x.mem \in Memory /\ x.mem.panic = t.panic /\ x.mem.free = t.free \ {f}
               /\ \A q \in Procs : x.mem.proc[q].pte = t.proc[q].pte
               /\ x.new \in [Page -> Pte] /\ x.new = [new EXCEPT ![a] = Present(f)]
<1> DEFINE f == Min(t.free)
           v == [t EXCEPT !.free = t.free \ {f}, !.ram[f] = Zero]
           free == t.free \ {f}
           ram == [t.ram EXCEPT ![f] = Zero]
           w == [t EXCEPT !.free = free, !.ram = ram]
           u == enqueueFIFO(v, p, a)
           table == [new EXCEPT ![a] = Present(f)]
           x == newPage(t, new, p, a, f)
<1>1. f \in t.free /\ f \in Frame
  <2>1. t.free \in SUBSET Nat /\ t.free \subseteq Frame
    BY PagingSorts, HasTypes
  <2>2. \E i \in t.free : \A j \in t.free : i <= j
    BY <2>1, LeastElement
  <2> QED
    BY <2>1, <2>2 DEF Min
<1>2. x = [mem |-> u, new |-> table]
  BY DEF newPage
<1>3. v = w
  BY DEF Memory
<1> HIDE DEF f
<1>4. f \in Physical
  BY <1>1, PagingSorts
<1>5. ram \in [Physical -> Content] /\ free \in SUBSET Frame
  BY <1>4, PagingSorts DEF Memory
<1>6. free = t.free \ {f}
  OBVIOUS
<1> HIDE DEF ram, free
<1>7. w \in Memory /\ w.proc = t.proc /\ w.panic = t.panic /\ w.free = free
  BY <1>5 DEF Memory
<1> HIDE DEF v, w
<1>8. u \in Memory /\ SameTables(u, v)
  BY <1>3, <1>7, enqueueFIFOTypes
<1>9. table \in [Page -> Pte]
  BY <1>4, PteSays
<1> HIDE DEF u, table, x
<1>10. x.mem = u /\ x.new = table
  BY <1>2
<1>11. u.panic = t.panic /\ u.free = t.free \ {f} /\ \A q \in Procs : u.proc[q].pte = t.proc[q].pte
  BY <1>3, <1>6, <1>7, <1>8 DEF SameTables
<1> QED
  BY <1>1, <1>2, <1>8, <1>9, <1>10, <1>11 DEF table, x, f

\* While exec loads pages up to page a: the process still has its old table, from which
\* pages may leave, and the frames of the new table are set aside.
Loading(x, s, p, a) ==
    /\ x = [mem |-> x.mem, new |-> x.new]
    /\ x.mem \in Memory /\ OthersSame(x.mem, s, p)
    /\ \A b \in Page : HasFrame(x.mem, p, b) => HasFrame(s, p, b)
    /\ x.new \in [Page -> Pte] /\ \A b \in Page : x.new[b].p => b < a /\ x.new[b].f \in Frame
    /\ \A b, c \in Page : x.new[b].p /\ x.new[c].p /\ x.new[b].f = x.new[c].f => b = c
    /\ x.mem.panic = FALSE => Owned(x.mem, FramesOf(x.new))
LoadStart(s, p) == [mem |-> Cleared(s, p), new |-> NoTable]
LoadNext(x, p, a) == IF x.mem.panic THEN x ELSE loadPage(x, p, a)
Loaded(g, s, p, n) == g = [a \in 0 .. n |-> IF a = 0 THEN LoadStart(s, p) ELSE LoadNext(g[a - 1], p, a - 1)]

\* exec clears the metadata, and keeps the table.
LEMMA ClearedTypes ==
    ASSUME NEW s \in Memory, NEW p \in Procs
    PROVE  LET t == Cleared(s, p)
           IN  /\ t \in Memory /\ SameTables(t, s) /\ t.proc[p].ent = [i \in Slots |-> FreeEntry]
               /\ t.proc[p].head = Null /\ t.proc[p].nPagesInPhyMemory = 0
<1> DEFINE r == [NoMeta EXCEPT !.pte = s.proc[p].pte, !.file = s.proc[p].file]
           t == Cleared(s, p)
<1>1. s.proc[p] \in PagedProc
  BY DEF Memory
<1>2. /\ NoTable \in [Page -> Pte] /\ [i \in Slots |-> FreeEntry] \in [Slots -> ListEntry] /\ Null \in Pointer
      /\ 0 \in Int /\ [i \in Slots |-> FreeSlot] \in [Slots -> SwapSlot]
  BY PteSays, PagingSorts DEF NoTable, FreeEntry, ListEntry, FreeSlot, SwapSlot
<1>3. /\ r \in PagedProc /\ r.pte = s.proc[p].pte /\ r.ent = [i \in Slots |-> FreeEntry] /\ r.head = Null
      /\ r.nPagesInPhyMemory = 0
  BY <1>1, <1>2 DEF PagedProc, NoMeta
<1>4. t = [s EXCEPT !.proc[p] = r]
  BY DEF Cleared
<1> HIDE DEF r, t
<1>5. /\ t \in Memory /\ t.proc[p] = r /\ (\A q \in Procs \ {p} : t.proc[q] = s.proc[q])
      /\ t.free = s.free /\ t.panic = s.panic
  BY <1>3, <1>4, OneProcChanges
<1>6. SameTables(t, s)
  BY <1>3, <1>5 DEF SameTables
<1> QED
  BY <1>3, <1>5, <1>6 DEF t

\* Nothing is loaded at first.
LEMMA LoadingStarts ==
    ASSUME NEW s \in Memory, NEW p \in Procs, Owned(s, {})
    PROVE  Loading(LoadStart(s, p), s, p, 0)
<1> DEFINE t == Cleared(s, p)
           x == LoadStart(s, p)
<1>1. t \in Memory /\ SameTables(t, s)
  BY ClearedTypes
<1>2. x = [mem |-> t, new |-> NoTable]
  BY DEF LoadStart
<1> HIDE DEF t, x
<1>3. x.mem = t /\ x.new = NoTable
  BY <1>2
<1>4. NoTable \in [Page -> Pte] /\ \A b \in Page : ~NoTable[b].p
  BY PteSays DEF NoTable
<1>5. FramesOf(NoTable) = {}
  BY <1>4 DEF FramesOf
<1>6. Owned(t, {})
  BY <1>1, OwnedSame
<1>7. OthersSame(t, s, p) /\ \A b \in Page : HasFrame(t, p, b) => HasFrame(s, p, b)
  BY <1>1 DEF SameTables, OthersSame, HasFrame
<1> QED
  BY <1>1, <1>2, <1>3, <1>4, <1>5, <1>6, <1>7 DEF Loading, x

\* There is such a table.
LEMMA LoadedExists ==
    ASSUME NEW s, NEW p, NEW n \in Nat
    PROVE  \E g : Loaded(g, s, p, n)
<1> DEFINE S == {j \in Nat : j <= n /\ ~\E g : Loaded(g, s, p, j)}
<1>1. SUFFICES S = {}
  OBVIOUS
<1> SUFFICES ASSUME S # {} PROVE FALSE
  OBVIOUS
<1>2. PICK i \in S : \A j \in S : i <= j
  BY LeastElement
<1>3. i \in Nat /\ i <= n /\ ~\E g : Loaded(g, s, p, i)
  OBVIOUS
<1>4. CASE i = 0
  <2> DEFINE g == [a \in 0 .. 0 |-> LoadStart(s, p)]
  <2>1. \A a \in 0 .. 0 : a = 0
    OBVIOUS
  <2>2. Loaded(g, s, p, 0)
    BY <2>1 DEF Loaded
  <2> QED
    BY <1>3, <1>4, <2>2
<1>5. CASE i # 0
  <2>1. i - 1 \in Nat /\ i - 1 <= n /\ ~(i <= i - 1)
    BY <1>3, <1>5
  <2>2. i - 1 \notin S
    BY <1>2, <2>1
  <2>3. PICK g : Loaded(g, s, p, i - 1)
    BY <2>1, <2>2
  <2> DEFINE h == [a \in 0 .. i |-> IF a = i THEN LoadNext(g[i - 1], p, i - 1) ELSE g[a]]
  <2>5. \A a \in 0 .. i - 1 : g[a] = IF a = 0 THEN LoadStart(s, p) ELSE LoadNext(g[a - 1], p, a - 1)
    BY <2>3 DEF Loaded
  <2>6. ASSUME NEW a \in 0 .. i PROVE h[a] = IF a = 0 THEN LoadStart(s, p) ELSE LoadNext(h[a - 1], p, a - 1)
    <3>1. CASE a = i
      <4>1. i - 1 \in 0 .. i /\ i - 1 # i /\ h[i - 1] = g[i - 1] /\ h[a] = LoadNext(g[i - 1], p, i - 1)
        BY <2>1, <3>1
      <4> QED
        BY <1>5, <3>1, <4>1
    <3>2. CASE a # i
      <4>1. a \in 0 .. i - 1 /\ h[a] = g[a]
        BY <1>3, <3>2
      <4>2. a # 0 => a - 1 \in 0 .. i /\ a - 1 # i
        BY <1>3, <3>2
      <4>3. a # 0 => h[a - 1] = g[a - 1]
        BY <4>2
      <4> QED
        BY <2>5, <4>1, <4>3
    <3> QED
      BY <3>1, <3>2
  <2>7. h = [a \in 0 .. i |-> h[a]]
    OBVIOUS
  <2> HIDE DEF h
  <2>8. Loaded(h, s, p, i)
    BY <2>6, <2>7 DEF Loaded
  <2> QED
    BY <1>3, <2>8
<1> QED
  BY <1>4, <1>5

\* Load is the last of such a table.
LEMMA LoadIs ==
    ASSUME NEW s, NEW p, NEW k \in Nat
    PROVE  \E g : Loaded(g, s, p, k) /\ Load(s, p, k) = g[k]
<1> DEFINE g == CHOOSE g : Loaded(g, s, p, k)
<1>1. Loaded(g, s, p, k)
  BY LoadedExists
<1>2. Load(s, p, k) = g[k]
  BY DEF Load, Loaded, LoadStart, LoadNext
<1> QED
  BY <1>1, <1>2

\* A page takes a frame from memory t, where room has been made, if it still runs.
LEMMA LoadingTakes ==
    ASSUME NEW s \in Memory, NEW p \in Procs, NEW a \in Page, NEW x, Loading(x, s, p, a), x.mem.panic = FALSE
    PROVE  LET t == makeRoom(x.mem, p)
               y == newPage(t, x.new, p, a, Min(t.free))
           IN  /\ t \in Memory /\ PagesLeave(t, x.mem, p)
               /\ t.panic = FALSE => t.free # {} /\ Loading(y, s, p, a + 1)
<1> DEFINE t == makeRoom(x.mem, p)
           f == Min(t.free)
           y == newPage(t, x.new, p, a, f)
<1>0. a \in Nat /\ a < NPages /\ \A b \in Page : b \in Nat
  BY PagingAssumption DEF Page
<1>1. x.mem \in Memory /\ x.new \in [Page -> Pte] /\ \A b \in Page : x.new[b].p => b < a
  BY DEF Loading
<1>2. t \in Memory /\ PagesLeave(t, x.mem, p)
  BY <1>1, makeRoomLeaves DEF PagesLeave
<1>a. ASSUME NEW b \in Page, b < a PROVE b < a + 1
  <2>1. a \in Nat /\ b \in Nat
    BY <1>0
  <2> QED
    BY <1>a, <2>1
<1> HIDE DEF t
<1>3. ASSUME t.panic = FALSE PROVE t.free # {} /\ Loading(y, s, p, a + 1)
  <2>1. Owned(t, FramesOf(x.new))
    BY <1>2, <1>3 DEF PagesLeave, Loading
  <2>2. t.free # {}
    <3> DEFINE table == x.new
    <3>0. a \in Nat /\ a <= NPages /\ \A b \in Page : table[b].p => b < a
      BY <1>0, <1>1, PagingAssumption
    <3> HIDE DEF table
    <3>a. Cardinality(FramesOf(table)) \in Nat /\ Cardinality(FramesOf(table)) <= a
      BY <3>0, TableFrames
    <3>1. Cardinality(FramesOf(x.new)) \in Nat /\ Cardinality(FramesOf(x.new)) <= a
      BY <3>a DEF table
    <3>2. Cardinality(FramesOf(x.new)) < NPages
      BY <1>0, <3>1, PagingAssumption
    <3> QED
      BY <1>2, <2>1, <3>2, FrameLeft
  <2>3. /\ f \in t.free /\ f \in Frame /\ y = [mem |-> y.mem, new |-> y.new]
        /\ y.mem \in Memory /\ y.mem.panic = t.panic /\ y.mem.free = t.free \ {f}
        /\ \A q \in Procs : y.mem.proc[q].pte = t.proc[q].pte
        /\ y.new \in [Page -> Pte] /\ y.new = [x.new EXCEPT ![a] = Present(f)]
    BY <1>1, <1>2, <2>2, newPageKeeps
  <2> HIDE DEF f, y
  <2>4. Owned(y.mem, FramesOf(x.new) \cup {f})
    BY <2>1, <2>3, FrameSetAside
  <2>5. /\ y.new[a].p /\ y.new[a].f = f /\ ~x.new[a].p
        /\ \A b \in Page : b # a => y.new[b] = x.new[b]
    BY <1>0, <1>1, <2>3, PteSays
  <2>6. FramesOf(y.new) = FramesOf(x.new) \cup {f}
    <3>1. ASSUME NEW e, e \in FramesOf(y.new) PROVE e \in FramesOf(x.new) \cup {f}
      <4>1. PICK b \in Page : y.new[b].p /\ e = y.new[b].f
        BY <3>1 DEF FramesOf
      <4> QED
        BY <2>5, <4>1 DEF FramesOf
    <3>2. ASSUME NEW e, e \in FramesOf(x.new) \cup {f} PROVE e \in FramesOf(y.new)
      <4>1. CASE e = f
        BY <2>5, <4>1 DEF FramesOf
      <4>2. CASE e \in FramesOf(x.new)
        <5>1. PICK b \in Page : x.new[b].p /\ e = x.new[b].f
          BY <4>2 DEF FramesOf
        <5>2. b # a
          BY <2>5, <5>1
        <5> QED
          BY <2>5, <5>1, <5>2 DEF FramesOf
      <4> QED
        BY <3>2, <4>1, <4>2
    <3> QED
      BY <3>1, <3>2
  <2>7. \A b \in Page : y.new[b].p => b < a + 1 /\ y.new[b].f \in Frame
    <3>1. ASSUME NEW b \in Page, y.new[b].p PROVE b < a + 1 /\ y.new[b].f \in Frame
      <4>1. CASE b = a
        BY <1>0, <2>3, <2>5, <4>1
      <4>2. CASE b # a
        <5>1. b < a /\ x.new[b].f \in Frame
          BY <2>5, <3>1, <4>2 DEF Loading
        <5>2. y.new[b].f = x.new[b].f
          BY <2>5, <4>2
        <5>3. b < a + 1
          BY <1>a, <5>1
        <5> QED
          BY <5>1, <5>2, <5>3
      <4> QED
        BY <4>1, <4>2
    <3> QED
      BY <3>1
  <2>8. \A b \in Page : x.new[b].p => x.new[b].f # f
    <3>1. f \notin FramesOf(x.new)
      BY <2>1, <2>3 DEF Owned
    <3> QED
      BY <3>1 DEF FramesOf
  <2>9. ASSUME NEW b \in Page, NEW c \in Page, y.new[b].p, y.new[c].p, y.new[b].f = y.new[c].f PROVE b = c
    <3>1. CASE b = a \/ c = a
      BY <2>5, <2>8, <2>9, <3>1
    <3>2. CASE b # a /\ c # a
      BY <2>5, <2>9, <3>2 DEF Loading
    <3> QED
      BY <3>1, <3>2
  <2>10. OthersSame(y.mem, s, p) /\ \A b \in Page : HasFrame(y.mem, p, b) => HasFrame(s, p, b)
    BY <1>2, <2>3 DEF Loading, PagesLeave, OthersSame, HasFrame
  <2>11. Loading(y, s, p, a + 1)
    BY <2>3, <2>4, <2>6, <2>7, <2>9, <2>10 DEF Loading
  <2> QED
    BY <2>2, <2>11
<1> QED
  BY <1>2, <1>3 DEF t

\* One page is loaded, unless the kernel panics.
LEMMA LoadingGoesOn ==
    ASSUME NEW s \in Memory, NEW p \in Procs, NEW a \in Page, NEW x, Loading(x, s, p, a)
    PROVE  Loading(LoadNext(x, p, a), s, p, a + 1)
<1>1. a \in Nat /\ \A b \in Page : b \in Nat
  BY DEF Page
<1>2. \A b \in Page : b < a => b < a + 1
  BY <1>1
<1>3. CASE x.mem.panic
  BY <1>2, <1>3 DEF LoadNext, Loading
<1>4. CASE ~x.mem.panic
  <2> DEFINE t == makeRoom(x.mem, p)
             y == newPage(t, x.new, p, a, Min(t.free))
  <2>1. x.mem.panic = FALSE
    BY <1>4 DEF Loading, Memory
  <2>2. /\ t \in Memory /\ PagesLeave(t, x.mem, p)
        /\ t.panic = FALSE => Loading(y, s, p, a + 1)
    BY <2>1, LoadingTakes
  <2>3. LoadNext(x, p, a) = IF t.panic THEN [x EXCEPT !.mem = t] ELSE y
    BY <1>4 DEF LoadNext, loadPage
  <2> HIDE DEF t, y
  <2>4. t.panic \in BOOLEAN
    BY <2>2 DEF Memory
  <2>5. CASE t.panic
    <3> DEFINE z == [mem |-> t, new |-> x.new]
    <3>1. [x EXCEPT !.mem = t] = z
      BY DEF Loading
    <3>2. z.mem = t /\ z.new = x.new /\ z = [mem |-> z.mem, new |-> z.new]
      OBVIOUS
    <3> HIDE DEF z
    <3>3. OthersSame(t, s, p) /\ \A b \in Page : HasFrame(t, p, b) => HasFrame(s, p, b)
      BY <2>2 DEF Loading, PagesLeave, OthersSame
    <3>4. Loading(z, s, p, a + 1)
      BY <1>2, <2>2, <2>5, <3>2, <3>3 DEF Loading
    <3> QED
      BY <2>3, <2>5, <3>1, <3>4
  <2>6. CASE ~t.panic
    BY <2>2, <2>3, <2>4, <2>6
  <2> QED
    BY <2>5, <2>6
<1> QED
  BY <1>3, <1>4

\* exec loads k pages.
LEMMA LoadKeeps ==
    ASSUME NEW s \in Memory, NEW p \in Procs, Owned(s, {}), NEW k \in Nat, k <= NPages
    PROVE  Loading(Load(s, p, k), s, p, k)
<1>1. PICK g : Loaded(g, s, p, k) /\ Load(s, p, k) = g[k]
  BY LoadIs
<1>2. \A a \in 0 .. k : g[a] = IF a = 0 THEN LoadStart(s, p) ELSE LoadNext(g[a - 1], p, a - 1)
  BY <1>1 DEF Loaded
<1> DEFINE S == {j \in Nat : j <= k /\ ~Loading(g[j], s, p, j)}
<1>3. S = {}
  <2> SUFFICES ASSUME S # {} PROVE FALSE
    OBVIOUS
  <2>1. PICK i \in S : \A j \in S : i <= j
    BY LeastElement
  <2>2. i \in Nat /\ i <= k /\ ~Loading(g[i], s, p, i)
    OBVIOUS
  <2>3. i # 0
    BY <1>2, <2>2, LoadingStarts
  <2>4. i - 1 \in Nat /\ i - 1 <= k /\ ~(i <= i - 1) /\ i \in 0 .. k
    BY <2>2, <2>3
  <2>5. i - 1 \notin S
    BY <2>1, <2>4
  <2>6. Loading(g[i - 1], s, p, i - 1)
    BY <2>4, <2>5
  <2>7. i - 1 \in Page /\ (i - 1) + 1 = i
    BY <2>2, <2>4, PagingAssumption DEF Page
  <2>8. Loading(LoadNext(g[i - 1], p, i - 1), s, p, i)
    <3>1. Loading(LoadNext(g[i - 1], p, i - 1), s, p, (i - 1) + 1)
      BY <2>6, <2>7, LoadingGoesOn
    <3> QED
      BY <2>7, <3>1
  <2>9. g[i] = LoadNext(g[i - 1], p, i - 1)
    BY <1>2, <2>3, <2>4
  <2> QED
    BY <2>2, <2>8, <2>9
<1> QED
  BY <1>1, <1>3

\* The frames a process has, address 0 aside.
OldFrames(s, p) == FramesIn(s, p) \ {Low}

\* The process takes over the new table, and memory ram is filled.
Taken(x, p, ram) == [x.mem EXCEPT !.proc[p].pte = x.new, !.ram = ram]
TakenProc(x, p) == [x.mem.proc[p] EXCEPT !.pte = x.new]

\* The frames of the old table are set aside then.
LEMMA TableTaken ==
    ASSUME NEW s \in Memory, NEW p \in Procs, NEW n, NEW x, Loading(x, s, p, n), x.mem.panic = FALSE,
           NEW ram \in [Physical -> Content]
    PROVE  LET u == Taken(x, p, ram)
           IN  /\ u \in Memory /\ OthersSame(u, s, p) /\ u.panic = FALSE /\ Owned(u, OldFrames(x.mem, p))
               /\ u.proc[p] = TakenProc(x, p)
<1> DEFINE t == x.mem
           N == FramesOf(x.new)
           X == OldFrames(t, p)
           r == [t.proc[p] EXCEPT !.pte = x.new]
           v == [t EXCEPT !.proc[p] = r]
           w == [v EXCEPT !.ram = ram]
           u == Taken(x, p, ram)
<1>1. t \in Memory /\ OthersSame(t, s, p) /\ t.panic = FALSE /\ Owned(t, N) /\ x.new \in [Page -> Pte]
  BY DEF Loading
<1>2. \A b \in Page : x.new[b].p => x.new[b].f \in Frame /\ x.new[b].f \in N
  BY DEF Loading, FramesOf
<1>3. \A b, c \in Page : x.new[b].p /\ x.new[c].p /\ x.new[b].f = x.new[c].f => b = c
  BY DEF Loading
<1>4. \A f \in N : \E b \in Page : x.new[b].p /\ x.new[b].f = f
  BY DEF FramesOf
<1> HIDE DEF t, N
<1>5. t.proc[p] \in PagedProc
  BY <1>1 DEF Memory
<1>6. r \in PagedProc /\ r.pte = x.new
  BY <1>1, <1>5 DEF PagedProc
<1>7. u = w
  BY <1>1 DEF Memory, Taken, t
<1>8. u.proc[p] = r
  BY <1>1, <1>7 DEF Memory
<1> HIDE DEF r, u
<1>9. v \in Memory /\ v.proc[p] = r /\ (\A q \in Procs \ {p} : v.proc[q] = t.proc[q]) /\ v.free = t.free /\ v.panic = FALSE
  BY <1>1, <1>6, OneProcChanges
<1> HIDE DEF v
<1>10. w \in Memory /\ w.proc = v.proc /\ w.free = v.free /\ w.panic = FALSE
  BY <1>9 DEF Memory
<1> HIDE DEF w
<1>11. u \in Memory /\ u.panic = FALSE /\ u.free = t.free /\ OthersSame(u, s, p)
  BY <1>1, <1>7, <1>9, <1>10 DEF OthersSame
<1>12. /\ \A b \in Page : HasFrame(u, p, b) = x.new[b].p /\ FrameOf(u, p, b) = x.new[b].f
       /\ \A q \in Procs \ {p}, b \in Page : HasFrame(u, q, b) = HasFrame(t, q, b) /\ FrameOf(u, q, b) = FrameOf(t, q, b)
  BY <1>6, <1>7, <1>9, <1>10 DEF HasFrame, FrameOf
<1>13. X \subseteq Frame /\ \A f \in X : \E a \in Page : HasFrame(t, p, a) /\ FrameOf(t, p, a) = f
  BY <1>1, HasTypes DEF OldFrames, FramesIn, PagesOf, Physical
<1>14. \A a \in Page : HasFrame(t, p, a) /\ FrameOf(t, p, a) \in Frame => FrameOf(t, p, a) \in X
  BY PagingSorts DEF OldFrames, FramesIn, PagesOf
<1> HIDE DEF X
<1>15. /\ \A q \in Procs, a \in Page : HasFrame(t, q, a) => FrameOf(t, q, a) \notin t.free /\ FrameOf(t, q, a) \notin N
       /\ N \cap t.free = {}
       /\ \A k, l \in Procs, d, e \in Page :
             HasFrame(t, k, d) /\ HasFrame(t, l, e) /\ FrameOf(t, k, d) = FrameOf(t, l, e) /\ FrameOf(t, k, d) \in Frame
               => k = l /\ d = e
  BY <1>1 DEF Owned
<1>16. ASSUME NEW q \in Procs, NEW k \in Procs, NEW a \in Page, NEW b \in Page,
              HasFrame(u, q, a), HasFrame(u, k, b), FrameOf(u, q, a) = FrameOf(u, k, b), FrameOf(u, q, a) \in Frame
       PROVE  q = k /\ a = b
  <2>1. CASE q = p /\ k = p
    BY <1>3, <1>12, <1>16, <2>1
  <2>2. CASE q = p /\ k # p
    BY <1>2, <1>12, <1>15, <1>16, <2>2
  <2>3. CASE q # p /\ k = p
    BY <1>2, <1>12, <1>15, <1>16, <2>3
  <2>4. CASE q # p /\ k # p
    <3>1. HasFrame(t, q, a) /\ HasFrame(t, k, b) /\ FrameOf(t, q, a) = FrameOf(t, k, b) /\ FrameOf(t, q, a) \in Frame
      BY <1>12, <1>16, <2>4
    <3> QED
      BY ONLY <1>15, <3>1, q \in Procs, k \in Procs, a \in Page, b \in Page, Zenon
  <2> QED
    BY <2>1, <2>2, <2>3, <2>4
<1>17. ASSUME NEW q \in Procs, NEW a \in Page, HasFrame(u, q, a)
       PROVE  FrameOf(u, q, a) \notin u.free \cup X
  <2>1. CASE q = p
    <3>1. FrameOf(u, q, a) \in N
      BY <1>2, <1>12, <1>17, <2>1
    <3>2. FrameOf(u, q, a) \notin X
      BY <1>13, <1>15, <3>1
    <3> QED
      BY <1>11, <1>15, <3>1, <3>2
  <2>2. CASE q # p
    <3>1. HasFrame(t, q, a) /\ FrameOf(u, q, a) = FrameOf(t, q, a)
      BY <1>12, <1>17, <2>2
    <3>2. FrameOf(t, q, a) \notin X
      <4> SUFFICES ASSUME FrameOf(t, q, a) \in X PROVE FALSE
        OBVIOUS
      <4>1. PICK b \in Page : HasFrame(t, p, b) /\ FrameOf(t, p, b) = FrameOf(t, q, a)
        BY <1>13
      <4>2. FrameOf(t, q, a) \in Frame
        BY <1>13
      <4> QED
        BY <1>15, <2>2, <3>1, <4>1, <4>2
    <3> QED
      BY <1>11, <1>15, <3>1, <3>2
  <2> QED
    BY <2>1, <2>2
<1>18. ASSUME NEW f \in Frame
       PROVE  f \in u.free \cup X \/ \E q \in Procs, a \in Page : HasFrame(u, q, a) /\ FrameOf(u, q, a) = f
  <2>1. f \in t.free \/ f \in N \/ \E q \in Procs, a \in Page : HasFrame(t, q, a) /\ FrameOf(t, q, a) = f
    BY <1>1 DEF Owned
  <2>2. CASE f \in t.free
    BY <1>11, <2>2
  <2>3. CASE f \in N
    BY <1>4, <1>12, <2>3
  <2>4. CASE \E q \in Procs, a \in Page : HasFrame(t, q, a) /\ FrameOf(t, q, a) = f
    <3>1. PICK q \in Procs, a \in Page : HasFrame(t, q, a) /\ FrameOf(t, q, a) = f
      BY <2>4
    <3>2. CASE q = p
      BY <1>14, <3>1, <3>2
    <3>3. CASE q # p
      BY <1>12, <3>1, <3>3
    <3> QED
      BY <3>2, <3>3
  <2> QED
    BY <2>1, <2>2, <2>3, <2>4
<1>19. X \subseteq Frame /\ X \cap u.free = {}
  BY <1>11, <1>13, <1>15
<1>20. Owned(u, X)
  BY <1>16, <1>17, <1>18, <1>19 DEF Owned
<1> QED
  BY <1>8, <1>11, <1>20 DEF u, X, t, r, TakenProc

-----------------------------------------------------------------------------
(* The queue of the pages in memory, of a process that has not forked. *)

EntryOf(s, i) == s.proc[Parent].ent[i]
InUse(s) == {i \in Slots : EntryOf(s, i).in_use}
\* A pointer that is null or leads to an entry of the process that is in use.
Live(s, e) == e = Null \/ \E i \in InUse(s) : e = <<Parent, i>>
\* The queue leads from an entry in use to the next one, and no two to the same.
Chained(s) ==
    /\ Live(s, s.proc[Parent].head)
    /\ \A i \in InUse(s) : /\ Live(s, EntryOf(s, i).next)
                           /\ EntryOf(s, i).next # Null => EntryOf(s, i).next # s.proc[Parent].head
    /\ \A i, j \in InUse(s) : EntryOf(s, i).next = EntryOf(s, j).next /\ EntryOf(s, i).next # Null => i = j
\* At least as many pages are counted as are queued.
Counted(s, n) == Cardinality(InUse(s)) <= n
\* A page in memory has an entry in use, unless it is one of U.
Covered(s, U) == \A a \in Page : HasFrame(s, Parent, a) => a \in U \/ \E i \in InUse(s) : EntryOf(s, i).address = a
QueueInv(s, U) == Chained(s) /\ Counted(s, s.proc[Parent].nPagesInPhyMemory) /\ Covered(s, U)
Few(s, U) == Cardinality(PagesOf(s, Parent)) <= MAX_PSYC_PAGES + Cardinality(U)

\* From s to t queue and count stay.
SameQueue(t, s) ==
    /\ t.proc[Parent].ent = s.proc[Parent].ent /\ t.proc[Parent].head = s.proc[Parent].head
    /\ t.proc[Parent].nPagesInPhyMemory = s.proc[Parent].nPagesInPhyMemory

\* The entries of a process, and how many there are.
LEMMA EntryTypes ==
    ASSUME NEW s \in Memory
    PROVE  /\ \A i \in Slots : EntryOf(s, i) \in ListEntry /\ EntryOf(s, i).in_use \in BOOLEAN
           /\ s.proc[Parent].ent \in [Slots -> ListEntry] /\ s.proc[Parent].head \in Pointer
           /\ s.proc[Parent].nPagesInPhyMemory \in Int
           /\ IsFiniteSet(InUse(s)) /\ Cardinality(InUse(s)) \in Nat /\ Cardinality(InUse(s)) <= MAX_PSYC_PAGES
<1>1. s.proc[Parent] \in PagedProc
  BY PagingSorts DEF Memory
<1>2. s.proc[Parent].ent \in [Slots -> ListEntry]
  BY <1>1 DEF PagedProc
<1>3. \A i \in Slots : EntryOf(s, i) \in ListEntry /\ EntryOf(s, i).in_use \in BOOLEAN
  BY <1>2 DEF EntryOf, ListEntry
<1>4. IsFiniteSet(Slots) /\ Cardinality(Slots) = MAX_PSYC_PAGES
  <2>1. MAX_PSYC_PAGES \in Nat /\ 1 <= MAX_PSYC_PAGES
    BY PagingAssumption
  <2> QED
    BY <2>1, FS_Interval DEF Slots
<1>5. InUse(s) \subseteq Slots
  BY DEF InUse
<1>6. IsFiniteSet(InUse(s)) /\ Cardinality(InUse(s)) <= Cardinality(Slots)
  BY <1>4, <1>5, FS_Subset
<1> QED
  BY <1>1, <1>2, <1>3, <1>4, <1>6, FS_CardinalityType DEF PagedProc

\* Any set of pages is finite.
LEMMA UncoveredFinite ==
    ASSUME NEW U \in SUBSET Page
    PROVE  IsFiniteSet(U) /\ Cardinality(U) \in Nat
<1>1. NPages \in Nat /\ 0 \in Int /\ NPages - 1 \in Int
  BY PagingAssumption
<1>2. IsFiniteSet(0 .. NPages - 1)
  BY <1>1, FS_Interval
<1>3. IsFiniteSet(U)
  BY <1>2, FS_Subset DEF Page
<1> QED
  BY <1>3, FS_CardinalityType

\* Fewer pages stay few.
LEMMA FewerPages ==
    ASSUME NEW U \in SUBSET Page, NEW s, NEW t, Few(s, U),
           \A b \in Page : HasFrame(t, Parent, b) => HasFrame(s, Parent, b)
    PROVE  Few(t, U)
<1>1. PagesOf(t, Parent) \subseteq PagesOf(s, Parent)
  BY DEF PagesOf
<1>2. IsFiniteSet(PagesOf(s, Parent)) /\ Cardinality(PagesOf(s, Parent)) \in Nat /\ Cardinality(PagesOf(t, Parent)) \in Nat
  BY FramesInBounded
<1>3. Cardinality(PagesOf(t, Parent)) <= Cardinality(PagesOf(s, Parent))
  BY <1>1, <1>2, FS_Subset
<1>4. Cardinality(U) \in Nat
  BY UncoveredFinite
<1> QED
  BY <1>2, <1>3, <1>4, PagingAssumption DEF Few

\* Pages with entries are few.
LEMMA CoveredFew ==
    ASSUME NEW U \in SUBSET Page, NEW s \in Memory, Covered(s, U)
    PROVE  Few(s, U)
<1> DEFINE address == [i \in InUse(s) |-> EntryOf(s, i).address]
           A == {address[i] : i \in InUse(s)}
<1>1. IsFiniteSet(InUse(s)) /\ Cardinality(InUse(s)) \in Nat /\ Cardinality(InUse(s)) <= MAX_PSYC_PAGES
  BY EntryTypes
<1>2. address \in Surjection(InUse(s), A)
  BY DEF Surjection
<1>3. IsFiniteSet(A) /\ Cardinality(A) <= Cardinality(InUse(s))
  BY <1>1, <1>2, FS_Surjection
<1>4. PagesOf(s, Parent) \subseteq A \cup U
  BY DEF PagesOf, Covered
<1>5. IsFiniteSet(U) /\ Cardinality(U) \in Nat
  BY UncoveredFinite
<1> HIDE DEF A
<1>6. IsFiniteSet(A \cup U) /\ Cardinality(A \cup U) = Cardinality(A) + Cardinality(U) - Cardinality(A \cap U)
  BY <1>3, <1>5, FS_Union
<1>7. Cardinality(PagesOf(s, Parent)) <= Cardinality(A \cup U) /\ Cardinality(PagesOf(s, Parent)) \in Nat
  BY <1>4, <1>6, FS_Subset, FramesInBounded
<1>8. Cardinality(A) \in Nat /\ Cardinality(A \cup U) \in Nat /\ Cardinality(A \cap U) \in Nat
  <2>1. A \cap U \subseteq U
    OBVIOUS
  <2>2. IsFiniteSet(A \cap U)
    BY <1>5, <2>1, FS_Subset
  <2> QED
    BY <1>3, <1>6, <2>2, FS_CardinalityType
<1> QED
  BY <1>1, <1>3, <1>5, <1>6, <1>7, <1>8, PagingAssumption DEF Few

\* Where queue and count stay, and no page comes into memory, all stays.
LEMMA SameQueueKeeps ==
    ASSUME NEW U \in SUBSET Page, NEW s, NEW t, SameQueue(t, s)
    PROVE  /\ Chained(s) => Chained(t)
           /\ \A n : Counted(s, n) => Counted(t, n)
           /\ QueueInv(s, U) /\ (\A b \in Page : HasFrame(t, Parent, b) => HasFrame(s, Parent, b)) => QueueInv(t, U)
           /\ InUse(t) = InUse(s) /\ \A i : EntryOf(t, i) = EntryOf(s, i)
<1>1. InUse(t) = InUse(s) /\ \A i : EntryOf(t, i) = EntryOf(s, i)
  BY DEF SameQueue, InUse, EntryOf
<1>2. t.proc[Parent].head = s.proc[Parent].head /\ t.proc[Parent].nPagesInPhyMemory = s.proc[Parent].nPagesInPhyMemory
  BY DEF SameQueue
<1>3. \A e : Live(t, e) = Live(s, e)
  BY <1>1 DEF Live
<1>4. Chained(s) => Chained(t)
  BY <1>1, <1>2, <1>3 DEF Chained
<1>5. \A n : Counted(s, n) => Counted(t, n)
  BY <1>1 DEF Counted
<1>6. QueueInv(s, U) /\ (\A b \in Page : HasFrame(t, Parent, b) => HasFrame(s, Parent, b)) => QueueInv(t, U)
  BY <1>1, <1>2, <1>4, <1>5 DEF QueueInv, Covered
<1> QED
  BY <1>1, <1>4, <1>5, <1>6

\* The links of entry k change, or of none.
Relinked(t, s, k, e) ==
    \A j \in Slots : EntryOf(t, j) = [address |-> EntryOf(s, j).address, in_use |-> EntryOf(s, j).in_use,
                                    next |-> IF j = k THEN e ELSE EntryOf(s, j).next]

\* The queue is extended by an entry: its head, or the next of one of its entries.
LEMMA LinkedChanges ==
    ASSUME NEW s \in Memory, NEW e \in Pointer
    PROVE  LET t == Linked(s, Parent, e)
           IN  /\ \E k : /\ Relinked(t, s, k, e)
                         /\ s.proc[Parent].head = Null => k \notin Slots
               /\ t.proc[Parent].head = (IF s.proc[Parent].head = Null THEN e ELSE s.proc[Parent].head)
               /\ t.proc[Parent].nPagesInPhyMemory = s.proc[Parent].nPagesInPhyMemory
<1>1. s.proc[Parent] \in PagedProc /\ s.proc[Parent].ent \in [Slots -> ListEntry]
  BY PagingSorts DEF Memory, PagedProc
<1>2. \A j \in Slots : EntryOf(s, j) = [address |-> EntryOf(s, j).address, in_use |-> EntryOf(s, j).in_use, next |-> EntryOf(s, j).next]
  BY <1>1 DEF EntryOf, ListEntry
<1>3. 0 \notin Slots
  BY PagingAssumption DEF Slots
<1>4. CASE s.proc[Parent].head = Null
  <2> DEFINE t == [s EXCEPT !.proc[Parent].head = e]
  <2>1. Linked(s, Parent, e) = t
    BY <1>4 DEF Linked
  <2>2. t.proc[Parent] = [s.proc[Parent] EXCEPT !.head = e]
    BY PagingSorts DEF Memory
  <2> HIDE DEF t
  <2>3. /\ t.proc[Parent].ent = s.proc[Parent].ent /\ t.proc[Parent].head = e
        /\ t.proc[Parent].nPagesInPhyMemory = s.proc[Parent].nPagesInPhyMemory
    BY <1>1, <2>2 DEF PagedProc
  <2>4. \A j \in Slots : EntryOf(t, j) = EntryOf(s, j)
    BY <2>3 DEF EntryOf
  <2>5. Relinked(t, s, 0, e)
    BY <1>2, <1>3, <2>4 DEF Relinked
  <2> QED
    BY <1>3, <1>4, <2>1, <2>3, <2>5
<1>5. CASE s.proc[Parent].head # Null
  <2> DEFINE x == Last(Queue(s, Parent))
             r == [s.proc[x[1]] EXCEPT !.ent[x[2]].next = e]
             t == [s EXCEPT !.proc[x[1]].ent[x[2]].next = e]
  <2>1. Linked(s, Parent, e) = t
    BY <1>5 DEF Linked
  <2>2. t = [s EXCEPT !.proc[x[1]] = r]
    OBVIOUS
  <2> HIDE DEF x, t
  <2>3. CASE x[1] # Parent
    <3>1. t.proc[Parent] = s.proc[Parent]
      BY <2>2, <2>3, PagingSorts DEF Memory
    <3>2. Relinked(t, s, 0, e)
      BY <1>2, <1>3, <3>1 DEF Relinked, EntryOf
    <3> QED
      BY <1>5, <2>1, <3>1, <3>2
  <2>4. CASE x[1] = Parent
    <3> DEFINE ent == [s.proc[Parent].ent EXCEPT ![x[2]].next = e]
    <3>1. t.proc[Parent] = [s.proc[Parent] EXCEPT !.ent = ent]
      BY <2>2, <2>4, PagingSorts DEF Memory
    <3>2. \A j \in Slots : ent[j] = IF j = x[2] THEN [s.proc[Parent].ent[j] EXCEPT !.next = e] ELSE s.proc[Parent].ent[j]
      BY <1>1
    <3> HIDE DEF ent
    <3>3. /\ t.proc[Parent].ent = ent /\ t.proc[Parent].head = s.proc[Parent].head
          /\ t.proc[Parent].nPagesInPhyMemory = s.proc[Parent].nPagesInPhyMemory
      BY <1>1, <3>1 DEF PagedProc
    <3>4. \A j \in Slots : EntryOf(t, j) = IF j = x[2] THEN [EntryOf(s, j) EXCEPT !.next = e] ELSE EntryOf(s, j)
      BY <3>2, <3>3 DEF EntryOf
    <3>5. \A j \in Slots : EntryOf(s, j) \in ListEntry
      BY EntryTypes
    <3>6. Relinked(t, s, x[2], e)
      BY <1>2, <3>4, <3>5 DEF Relinked, ListEntry
    <3> QED
      BY <1>5, <2>1, <3>3, <3>6
  <2> QED
    BY <2>3, <2>4
<1> QED
  BY <1>4, <1>5

\* An entry of the array is filled.
LEMMA FilledChanges ==
    ASSUME NEW s \in Memory, NEW i \in Slots, NEW a \in Page
    PROVE  LET t == Filled(s, Parent, i, a)
           IN  /\ \A j \in Slots : EntryOf(t, j) = IF j = i THEN [address |-> a, next |-> Null, in_use |-> TRUE] ELSE EntryOf(s, j)
               /\ t.proc[Parent].head = s.proc[Parent].head
               /\ t.proc[Parent].nPagesInPhyMemory = s.proc[Parent].nPagesInPhyMemory + 1
<1> DEFINE entry == [address |-> a, next |-> Null, in_use |-> TRUE]
           ent == [s.proc[Parent].ent EXCEPT ![i] = entry]
           n == s.proc[Parent].nPagesInPhyMemory + 1
           r == [s.proc[Parent] EXCEPT !.ent = ent, !.nPagesInPhyMemory = n]
           t == Filled(s, Parent, i, a)
<1>1. s.proc[Parent] \in PagedProc /\ s.proc[Parent].ent \in [Slots -> ListEntry]
  BY PagingSorts DEF Memory, PagedProc
<1>2. t.proc[Parent] = r
  BY PagingSorts DEF Filled, Memory
<1>3. \A j \in Slots : ent[j] = IF j = i THEN entry ELSE s.proc[Parent].ent[j]
  BY <1>1
<1> HIDE DEF ent, n, t
<1>4. t.proc[Parent].ent = ent /\ t.proc[Parent].head = s.proc[Parent].head /\ t.proc[Parent].nPagesInPhyMemory = n
  BY <1>1, <1>2 DEF PagedProc
<1> QED
  BY <1>3, <1>4 DEF EntryOf, n, t

\* EntryOf i, with page a, is new in the queue.
Enqueued(t, s, i, a) ==
    /\ i \in Slots \ InUse(s) /\ InUse(t) = InUse(s) \cup {i} /\ EntryOf(t, i).address = a
    /\ \A j \in InUse(s) : EntryOf(t, j).address = EntryOf(s, j).address
    /\ t.proc[Parent].nPagesInPhyMemory = s.proc[Parent].nPagesInPhyMemory + 1
LEMMA enqueueFIFOChains ==
    ASSUME NEW s \in Memory, Chained(s), InUse(s) # Slots, NEW a \in Page
    PROVE  LET t == enqueueFIFO(s, Parent, a) IN Chained(t) /\ \E i \in Slots : Enqueued(t, s, i, a)
<1> DEFINE i == Min(FreeEntries(s, Parent))
           e == <<Parent, i>>
           l == Linked(s, Parent, e)
           t == Filled(l, Parent, i, a)
<1>1. FreeEntries(s, Parent) = Slots \ InUse(s)
  BY DEF FreeEntries, InUse, EntryOf
<1>2. FreeEntries(s, Parent) # {}
  BY <1>1 DEF InUse
<1>3. i \in Slots \ InUse(s)
  BY <1>1, <1>2, LeastSlot
<1>4. enqueueFIFO(s, Parent, a) = t
  BY <1>2 DEF enqueueFIFO
<1> HIDE DEF i
<1>5. e \in Pointer /\ e # Null
  BY <1>3, PagingSorts DEF Null
<1>6. l \in Memory
  BY <1>5, PagingSorts, LinkedTypes
<1>7. PICK k : Relinked(l, s, k, e) /\ (s.proc[Parent].head = Null => k \notin Slots)
  BY <1>5, LinkedChanges
<1>8. /\ l.proc[Parent].head = (IF s.proc[Parent].head = Null THEN e ELSE s.proc[Parent].head)
      /\ l.proc[Parent].nPagesInPhyMemory = s.proc[Parent].nPagesInPhyMemory
  BY <1>5, LinkedChanges
<1> HIDE DEF l
<1>9. /\ \A j \in Slots : EntryOf(t, j) = IF j = i THEN [address |-> a, next |-> Null, in_use |-> TRUE] ELSE EntryOf(l, j)
      /\ t.proc[Parent].head = l.proc[Parent].head
      /\ t.proc[Parent].nPagesInPhyMemory = l.proc[Parent].nPagesInPhyMemory + 1
  BY <1>3, <1>6, FilledChanges
<1> HIDE DEF t
<1>10. \A j \in InUse(s) : j \in Slots /\ j # i
  BY <1>3 DEF InUse
<1>11. \A j \in Slots : j # i => /\ EntryOf(t, j).address = EntryOf(s, j).address /\ EntryOf(t, j).in_use = EntryOf(s, j).in_use
                                 /\ EntryOf(t, j).next = IF j = k THEN e ELSE EntryOf(s, j).next
  BY <1>7, <1>9 DEF Relinked
<1>12. EntryOf(t, i).address = a /\ EntryOf(t, i).in_use = TRUE /\ EntryOf(t, i).next = Null
  BY <1>3, <1>9
<1>13. InUse(t) = InUse(s) \cup {i}
  BY <1>3, <1>11, <1>12 DEF InUse
<1>14. Enqueued(t, s, i, a)
  BY <1>3, <1>8, <1>9, <1>10, <1>11, <1>12, <1>13 DEF Enqueued
<1>15. \A x : Live(s, x) => Live(t, x) /\ x # e
  BY <1>3, <1>5, <1>13 DEF Live
<1>16. Live(t, e) /\ Live(t, Null)
  BY <1>13 DEF Live
<1> HIDE DEF e
<1>17. Live(t, t.proc[Parent].head)
  BY <1>8, <1>9, <1>15, <1>16 DEF Chained
<1>18. ASSUME NEW j \in InUse(t)
       PROVE  Live(t, EntryOf(t, j).next) /\ (EntryOf(t, j).next # Null => EntryOf(t, j).next # t.proc[Parent].head)
  <2>1. CASE j = i
    BY <1>12, <1>16, <2>1
  <2>2. CASE j # i
    <3>1. j \in InUse(s) /\ j \in Slots
      BY <1>10, <1>13, <2>2
    <3>2. Live(s, EntryOf(s, j).next) /\ (EntryOf(s, j).next # Null => EntryOf(s, j).next # s.proc[Parent].head)
      BY <3>1 DEF Chained
    <3>3. Live(s, s.proc[Parent].head)
      BY DEF Chained
    <3>4. CASE j = k
      <4>1. EntryOf(t, j).next = e /\ s.proc[Parent].head # Null
        BY <1>7, <1>11, <2>2, <3>1, <3>4
      <4>2. t.proc[Parent].head = s.proc[Parent].head
        BY <1>8, <1>9, <4>1
      <4> QED
        BY <1>15, <1>16, <3>3, <4>1, <4>2
    <3>5. CASE j # k
      <4>1. EntryOf(t, j).next = EntryOf(s, j).next
        BY <1>11, <2>2, <3>1, <3>5
      <4> QED
        BY <1>8, <1>9, <1>15, <3>2, <4>1
    <3> QED
      BY <3>4, <3>5
  <2> QED
    BY <2>1, <2>2
<1>19. ASSUME NEW g \in InUse(t), NEW h \in InUse(t), EntryOf(t, g).next = EntryOf(t, h).next, EntryOf(t, g).next # Null
       PROVE  g = h
  <2>1. g # i /\ h # i
    BY <1>12, <1>19
  <2>2. g \in InUse(s) /\ h \in InUse(s) /\ g \in Slots /\ h \in Slots
    BY <1>10, <1>13, <2>1
  <2>3. Live(s, EntryOf(s, g).next) /\ Live(s, EntryOf(s, h).next)
    BY <2>2 DEF Chained
  <2>4. /\ EntryOf(t, g).next = IF g = k THEN e ELSE EntryOf(s, g).next
        /\ EntryOf(t, h).next = IF h = k THEN e ELSE EntryOf(s, h).next
    BY <1>11, <2>1, <2>2
  <2>5. EntryOf(s, g).next # e /\ EntryOf(s, h).next # e
    BY <1>15, <2>3
  <2>6. CASE g # k /\ h # k
    BY <1>19, <2>2, <2>4, <2>6 DEF Chained
  <2>7. CASE g = k \/ h = k
    BY <1>19, <2>4, <2>5, <2>7
  <2> QED
    BY <2>6, <2>7
<1>20. Chained(t)
  BY <1>17, <1>18, <1>19 DEF Chained
<1> QED
  BY <1>3, <1>4, <1>14, <1>20

\* EntryOf i, with page a, has left the queue; the page is not uncounted.
Dequeued(t, s, i, a) ==
    /\ i \in InUse(s) /\ InUse(t) = InUse(s) \ {i} /\ a = EntryOf(s, i).address
    /\ \A j \in Slots : j # i => EntryOf(t, j) = EntryOf(s, j)
    /\ t.proc[Parent].nPagesInPhyMemory = s.proc[Parent].nPagesInPhyMemory
LEMMA dequeueFIFOChains ==
    ASSUME NEW s \in Memory, Chained(s), s.proc[Parent].head # Null
    PROVE  LET t == dequeueFIFO(s, Parent)
           IN  Chained(t) /\ \E i \in Slots : Dequeued(t, s, i, FrontAddress(s, Parent))
<1>1. PICK i \in InUse(s) : s.proc[Parent].head = <<Parent, i>>
  BY DEF Chained, Live
<1> DEFINE e == s.proc[Parent].head
           next == Follow(s, e)
           u == Released(s, e)
           t == dequeueFIFO(s, Parent)
           null == s.null \/ next = Null
<1>2. s.proc[Parent] \in PagedProc /\ s.proc[Parent].ent \in [Slots -> ListEntry] /\ i \in Slots
  BY PagingSorts DEF Memory, PagedProc, InUse
<1>3. e[1] = Parent /\ e[2] = i /\ e \in Pointer
  BY <1>1, <1>2, PagingSorts
<1>4. next = EntryOf(s, i).next /\ FrontAddress(s, Parent) = EntryOf(s, i).address
  BY <1>3 DEF Follow, FrontAddress, EntryOf
<1> DEFINE ent == [s.proc[Parent].ent EXCEPT ![i] = [s.proc[Parent].ent[i] EXCEPT !.address = 0, !.in_use = FALSE]]
<1>5. u = [s EXCEPT !.proc[Parent] = [s.proc[Parent] EXCEPT !.ent = ent]]
  BY <1>3 DEF Released
<1>6. t = [u EXCEPT !.proc[Parent].head = next, !.null = null]
  BY DEF dequeueFIFO
<1>7. \A j \in Slots : /\ j # i => ent[j] = s.proc[Parent].ent[j]
                       /\ j = i => ent[j].in_use = FALSE
  <2>1. ent[i] = [s.proc[Parent].ent[i] EXCEPT !.address = 0, !.in_use = FALSE]
    BY <1>2
  <2>2. s.proc[Parent].ent[i] \in ListEntry
    BY <1>2
  <2>3. ent[i].in_use = FALSE
    BY <2>1, <2>2 DEF ListEntry
  <2>4. \A j \in Slots : j # i => ent[j] = s.proc[Parent].ent[j]
    BY <1>2
  <2> QED
    BY <2>3, <2>4
<1> HIDE DEF ent, next, null, t
<1>8. u.proc[Parent] = [s.proc[Parent] EXCEPT !.ent = ent]
  BY <1>5, PagingSorts DEF Memory
<1>9. u \in Memory
  BY <1>3, ReleasedTypes
<1> HIDE DEF u
<1>10. t.proc[Parent] = [u.proc[Parent] EXCEPT !.head = next]
  BY <1>6, <1>9, PagingSorts DEF Memory
<1>11. /\ t.proc[Parent].ent = ent /\ t.proc[Parent].head = next
       /\ t.proc[Parent].nPagesInPhyMemory = s.proc[Parent].nPagesInPhyMemory
  BY <1>2, <1>8, <1>10 DEF PagedProc
<1>12. \A j \in Slots : /\ j # i => EntryOf(t, j) = EntryOf(s, j)
                        /\ j = i => EntryOf(t, j).in_use = FALSE
  BY <1>7, <1>11 DEF EntryOf
<1>13. InUse(t) = InUse(s) \ {i}
  BY <1>12 DEF InUse
<1>14. Dequeued(t, s, i, FrontAddress(s, Parent))
  BY <1>4, <1>11, <1>12, <1>13 DEF Dequeued
<1>15. \A x : Live(s, x) /\ x # e => Live(t, x)
  BY <1>1, <1>13 DEF Live
<1>16. ASSUME NEW j \in InUse(t)
       PROVE  /\ j \in InUse(s) /\ j # i /\ EntryOf(t, j).next = EntryOf(s, j).next
              /\ Live(s, EntryOf(s, j).next) /\ (EntryOf(s, j).next # Null => EntryOf(s, j).next # e)
  <2>1. j \in InUse(s) /\ j # i /\ j \in Slots
    BY <1>13 DEF InUse
  <2> QED
    BY <1>12, <2>1 DEF Chained
<1>17. Live(s, next) /\ (next # Null => next # e)
  BY <1>4 DEF Chained
<1>18. Live(t, t.proc[Parent].head)
  BY <1>11, <1>15, <1>17
<1>19. ASSUME NEW j \in InUse(t)
       PROVE  Live(t, EntryOf(t, j).next) /\ (EntryOf(t, j).next # Null => EntryOf(t, j).next # t.proc[Parent].head)
  <2>1. /\ j \in InUse(s) /\ j # i /\ EntryOf(t, j).next = EntryOf(s, j).next
        /\ Live(s, EntryOf(s, j).next) /\ (EntryOf(s, j).next # Null => EntryOf(s, j).next # e)
    BY <1>16
  <2>2. e # Null
    OBVIOUS
  <2>3. Live(t, EntryOf(t, j).next)
    BY <1>15, <2>1, <2>2
  <2>4. EntryOf(s, j).next # Null => EntryOf(s, j).next # next
    BY <1>4, <2>1 DEF Chained
  <2> QED
    BY <1>11, <2>1, <2>3, <2>4
<1>20. \A g, h \in InUse(t) : EntryOf(t, g).next = EntryOf(t, h).next /\ EntryOf(t, g).next # Null => g = h
  <2>1. ASSUME NEW g \in InUse(t), NEW h \in InUse(t), EntryOf(t, g).next = EntryOf(t, h).next, EntryOf(t, g).next # Null
        PROVE  g = h
    <3>1. g \in InUse(s) /\ h \in InUse(s) /\ EntryOf(t, g).next = EntryOf(s, g).next /\ EntryOf(t, h).next = EntryOf(s, h).next
      BY <1>16
    <3> QED
      BY <2>1, <3>1 DEF Chained
  <2> QED
    BY <2>1
<1>21. Chained(t)
  BY <1>18, <1>19, <1>20 DEF Chained
<1> QED
  BY <1>2, <1>14, <1>21 DEF t

\* A page that joins the queue, or leaves it, is counted.
LEMMA EntriesCounted ==
    ASSUME NEW s \in Memory, NEW t, NEW i \in Slots, NEW a
    PROVE  /\ Enqueued(t, s, i, a) => Cardinality(InUse(t)) = Cardinality(InUse(s)) + 1
           /\ Dequeued(t, s, i, a) => Cardinality(InUse(t)) = Cardinality(InUse(s)) - 1
<1>1. IsFiniteSet(InUse(s)) /\ Cardinality(InUse(s)) \in Nat
  BY EntryTypes
<1>2. Enqueued(t, s, i, a) => Cardinality(InUse(t)) = Cardinality(InUse(s)) + 1
  BY <1>1, FS_AddElement DEF Enqueued
<1>3. Dequeued(t, s, i, a) => Cardinality(InUse(t)) = Cardinality(InUse(s)) - 1
  BY <1>1, FS_RemoveElement DEF Dequeued
<1> QED
  BY <1>2, <1>3

\* Below the limit an entry is free.
LEMMA RoomLeft ==
    ASSUME NEW s \in Memory, Cardinality(InUse(s)) < MAX_PSYC_PAGES
    PROVE  InUse(s) # Slots
<1>1. MAX_PSYC_PAGES \in Nat /\ 1 <= MAX_PSYC_PAGES
  BY PagingAssumption
<1>2. Cardinality(Slots) = MAX_PSYC_PAGES
  BY <1>1, FS_Interval DEF Slots
<1> QED
  BY <1>1, <1>2, EntryTypes

\* A page that goes to the swap file is uncounted, and is not in memory.
LEMMA moveToSwapFileUncounts ==
    ASSUME NEW s \in Memory, NEW a \in Page
    PROVE  LET t == moveToSwapFile(s, Parent, a)
           IN  \/ t.panic
               \/ /\ t.proc[Parent].ent = s.proc[Parent].ent /\ t.proc[Parent].head = s.proc[Parent].head
                  /\ t.proc[Parent].nPagesInPhyMemory = s.proc[Parent].nPagesInPhyMemory - 1
                  /\ ~HasFrame(t, Parent, a)
<1> DEFINE p == Parent
           pte == s.proc[p].pte[a]
           u == toSlot(s, p, a)
<1>0. p \in Procs /\ s.proc[p] \in PagedProc
  BY PagingSorts DEF Memory
<1>1. pte \in Pte
  BY <1>0, HasTypes
<1>2. u \in Memory /\ SameTables(u, s)
  BY <1>0, toSlotTypes
<1>3. SameQueue(u, s)
  <2>1. CASE FreeSlots(s, p) = {}
    BY <2>1 DEF toSlot, SameQueue
  <2>2. CASE FreeSlots(s, p) # {}
    <3> DEFINE i == Min(FreeSlots(s, p))
               sl == [s.proc[p].slot EXCEPT ![i] = [in_use |-> TRUE, address |-> a]]
               fi == [s.proc[p].file EXCEPT ![i] = s.ram[s.proc[p].pte[a].f]]
               r == [s.proc[p] EXCEPT !.slot = sl, !.file = fi]
    <3>1. u = [s EXCEPT !.proc[p] = r]
      BY <2>2 DEF toSlot
    <3> HIDE DEF i, u
    <3>2. u.proc[p] = r
      BY <1>0, <3>1 DEF Memory
    <3> HIDE DEF sl, fi
    <3> QED
      BY <1>0, <3>2 DEF PagedProc, SameQueue
  <2> QED
    BY <2>1, <2>2
<1>4. CASE pte = NoPte \/ pte = Present(Low)
  <2>1. moveToSwapFile(s, p, a) = Panic(s)
    BY <1>4 DEF moveToSwapFile
  <2>2. Panic(s).panic
    BY PagingSorts, PanicLeave
  <2> QED
    BY <2>1, <2>2
\* A page whose frame is back, or that had none, is uncounted.
<1>5. ASSUME NEW w \in Memory, SameQueue(w, s), ~HasFrame(w, p, a)
      PROVE  LET t == Uncount(w, p)
             IN  /\ t.proc[p].ent = s.proc[p].ent /\ t.proc[p].head = s.proc[p].head
                 /\ t.proc[p].nPagesInPhyMemory = s.proc[p].nPagesInPhyMemory - 1
                 /\ ~HasFrame(t, p, a)
  <2> DEFINE n == w.proc[p].nPagesInPhyMemory - 1
             t == Uncount(w, p)
  <2>1. w.proc[p] \in PagedProc
    BY <1>0, <1>5 DEF Memory
  <2>2. t.proc[p] = [w.proc[p] EXCEPT !.nPagesInPhyMemory = n]
    BY <1>0, <1>5 DEF Uncount, Memory
  <2> HIDE DEF t, n
  <2>3. /\ t.proc[p].ent = w.proc[p].ent /\ t.proc[p].head = w.proc[p].head /\ t.proc[p].pte = w.proc[p].pte
        /\ t.proc[p].nPagesInPhyMemory = n
    BY <2>1, <2>2 DEF PagedProc
  <2> QED
    BY <1>5, <2>3 DEF SameQueue, HasFrame, t, n
<1>6. CASE pte # NoPte /\ pte # Present(Low) /\ ~pte.p
  <2>1. moveToSwapFile(s, p, a) = Uncount(u, p)
    BY <1>6 DEF moveToSwapFile
  <2>2. ~HasFrame(u, p, a)
    BY <1>0, <1>2, <1>6 DEF SameTables, HasFrame
  <2> HIDE DEF u
  <2> QED
    BY <1>2, <1>3, <1>5, <2>1, <2>2
<1>7. CASE pte # NoPte /\ pte # Present(Low) /\ pte.p
  <2> DEFINE f == pte.f
             v == setPte(u, p, a, Swapped)
             w == kfree(v, {f})
  <2>1. moveToSwapFile(s, p, a) = Uncount(w, p)
    BY <1>7 DEF moveToSwapFile
  <2>2. f \in Frame
    BY <1>1, <1>7, PteSays DEF Physical
  <2> HIDE DEF f, u
  <2>3. u.proc[p] \in PagedProc
    BY <1>0, <1>2 DEF Memory
  <2>4. v \in Memory
    BY <1>0, <1>2, PteSays, setPteTypes
  <2>5. v.proc[p] = [u.proc[p] EXCEPT !.pte = [u.proc[p].pte EXCEPT ![a] = Swapped]]
    BY <1>0, <1>2 DEF setPte, Memory
  <2> HIDE DEF v
  <2>6. SameQueue(v, s) /\ ~HasFrame(v, p, a)
    <3>1. u.proc[p].pte \in [Page -> Pte]
      BY <2>3 DEF PagedProc
    <3> DEFINE tab == [u.proc[p].pte EXCEPT ![a] = Swapped]
    <3>2. ~tab[a].p
      BY <3>1, PteSays
    <3> HIDE DEF tab
    <3>3. /\ v.proc[p].pte = tab /\ v.proc[p].ent = u.proc[p].ent /\ v.proc[p].head = u.proc[p].head
          /\ v.proc[p].nPagesInPhyMemory = u.proc[p].nPagesInPhyMemory
      BY <2>3, <2>5 DEF PagedProc, tab
    <3> QED
      BY <1>3, <3>2, <3>3 DEF SameQueue, HasFrame
  <2>7. w \in Memory /\ w.proc = v.proc
    BY <2>2, <2>4, kfreeTypes
  <2> HIDE DEF w
  <2>8. SameQueue(w, s) /\ ~HasFrame(w, p, a)
    BY <2>6, <2>7 DEF SameQueue, HasFrame
  <2> QED
    BY <1>5, <2>1, <2>7, <2>8
<1> QED
  BY <1>4, <1>6, <1>7

\* s may go on: few pages are in memory, and while the kernel runs, each has an entry.
Within(s, U) == Few(s, U) /\ (s.panic \/ QueueInv(s, U))

\* A page goes, and its entry is free; the other pages keep their entries.
LEMMA swapPageOutQueues ==
    ASSUME NEW s \in Memory, Chained(s), Counted(s, s.proc[Parent].nPagesInPhyMemory)
    PROVE  LET t == swapPageOut(s, Parent)
           IN  \/ t.panic
               \/ /\ Chained(t) /\ Counted(t, t.proc[Parent].nPagesInPhyMemory) /\ InUse(t) # Slots
                  /\ t.proc[Parent].nPagesInPhyMemory = s.proc[Parent].nPagesInPhyMemory - 1
                  /\ \E a \in Page :
                        /\ ~HasFrame(t, Parent, a)
                        /\ \A j \in InUse(s) : EntryOf(s, j).address # a => j \in InUse(t) /\ EntryOf(t, j) = EntryOf(s, j)
<1> DEFINE t == swapPageOut(s, Parent)
           d == dequeueFIFO(s, Parent)
           a == FrontAddress(s, Parent)
           n == s.proc[Parent].nPagesInPhyMemory
<1>1. t \in Memory
  BY PagingSorts, swapPageOutLeaves DEF PagesLeave
<1>2. CASE s.proc[Parent].head = Null
  <2>1. t = Panic(s)
    BY <1>2 DEF swapPageOut
  <2> QED
    BY <2>1, PagingSorts, PanicLeave
<1>3. CASE s.proc[Parent].head # Null
  <2>1. t = moveToSwapFile(d, Parent, a)
    BY <1>3 DEF swapPageOut
  <2>2. a \in Page /\ d \in Memory /\ SameTables(d, s)
    BY <1>3, PagingSorts, FrontTypes, dequeueFIFOTypes
  <2>3. PICK i \in Slots : Chained(d) /\ Dequeued(d, s, i, a)
    BY <1>3, dequeueFIFOChains
  <2> HIDE DEF t, d, a
  <2>4. CASE ~t.panic
    <3>1. /\ t.proc[Parent].ent = d.proc[Parent].ent /\ t.proc[Parent].head = d.proc[Parent].head
          /\ t.proc[Parent].nPagesInPhyMemory = d.proc[Parent].nPagesInPhyMemory - 1
          /\ ~HasFrame(t, Parent, a)
      BY <2>1, <2>2, <2>4, moveToSwapFileUncounts
    <3>2. InUse(t) = InUse(d) /\ \A j : EntryOf(t, j) = EntryOf(d, j)
      BY <3>1 DEF InUse, EntryOf
    <3>3. Chained(t)
      BY <2>3, <3>1, <3>2 DEF Chained, Live
    <3>4. /\ Cardinality(InUse(s)) \in Nat /\ Cardinality(InUse(s)) <= MAX_PSYC_PAGES /\ n \in Int
          /\ Cardinality(InUse(t)) = Cardinality(InUse(s)) - 1
      BY <2>3, <3>2, EntryTypes, EntriesCounted
    <3>5. t.proc[Parent].nPagesInPhyMemory = n - 1
      BY <2>3, <3>1 DEF Dequeued
    <3>6. Counted(t, t.proc[Parent].nPagesInPhyMemory)
      BY <3>4, <3>5 DEF Counted
    <3>7. InUse(t) # Slots
      BY <1>1, <3>4, PagingAssumption, RoomLeft
    <3>8. ASSUME NEW j \in InUse(s), EntryOf(s, j).address # a PROVE j \in InUse(t) /\ EntryOf(t, j) = EntryOf(s, j)
      <4>1. j # i /\ j \in Slots
        BY <2>3, <3>8 DEF Dequeued, InUse
      <4> QED
        BY <2>3, <3>2, <4>1 DEF Dequeued
    <3> QED
      BY <2>2, <3>1, <3>3, <3>5, <3>6, <3>7, <3>8 DEF t
  <2> QED
    BY <2>4 DEF t
<1> QED
  BY <1>2, <1>3

\* A page goes, and its entry is free.
LEMMA swapPageOutWithin ==
    ASSUME NEW s \in Memory, s.panic = FALSE, NEW U \in SUBSET Page, QueueInv(s, U)
    PROVE  LET t == swapPageOut(s, Parent) IN Within(t, U) /\ (t.panic \/ InUse(t) # Slots)
<1> DEFINE t == swapPageOut(s, Parent)
<1> SUFFICES Within(t, U) /\ (t.panic \/ InUse(t) # Slots)
  OBVIOUS
<1>1. PagesLeave(t, s, Parent)
  BY PagingSorts, swapPageOutLeaves
<1>2. Few(t, U)
  BY <1>1, CoveredFew, FewerPages DEF PagesLeave, QueueInv
<1>3. CASE t.panic
  BY <1>2, <1>3 DEF Within
<1>4. CASE ~t.panic
  <2>1. PICK a \in Page :
           /\ Chained(t) /\ Counted(t, t.proc[Parent].nPagesInPhyMemory) /\ InUse(t) # Slots
           /\ ~HasFrame(t, Parent, a)
           /\ \A j \in InUse(s) : EntryOf(s, j).address # a => j \in InUse(t) /\ EntryOf(t, j) = EntryOf(s, j)
    BY <1>4, swapPageOutQueues DEF QueueInv
  <2> HIDE DEF t
  <2>2. Covered(t, U)
    <3>1. ASSUME NEW b \in Page, HasFrame(t, Parent, b), b \notin U PROVE \E j \in InUse(t) : EntryOf(t, j).address = b
      <4>1. HasFrame(s, Parent, b) /\ b # a
        BY <1>1, <2>1, <3>1 DEF PagesLeave
      <4>2. PICK j \in InUse(s) : EntryOf(s, j).address = b
        BY <3>1, <4>1 DEF QueueInv, Covered
      <4>3. j \in InUse(t) /\ EntryOf(t, j) = EntryOf(s, j)
        BY <2>1, <4>1, <4>2
      <4> QED
        BY <4>2, <4>3
    <3> QED
      BY <3>1 DEF Covered
  <2> QED
    BY <1>2, <2>1, <2>2 DEF Within, QueueInv
<1> QED
  BY <1>3, <1>4

\* Below the limit, or after a page has gone, an entry is free.
LEMMA makeRoomWithin ==
    ASSUME NEW U \in SUBSET Page, NEW s \in Memory, s.panic = FALSE, QueueInv(s, U)
    PROVE  LET t == makeRoom(s, Parent) IN Within(t, U) /\ (t.panic \/ InUse(t) # Slots)
<1>1. CASE s.proc[Parent].nPagesInPhyMemory >= MAX_PSYC_PAGES
  BY <1>1, swapPageOutWithin DEF makeRoom
<1>2. CASE ~(s.proc[Parent].nPagesInPhyMemory >= MAX_PSYC_PAGES)
  <2>1. Cardinality(InUse(s)) \in Nat /\ s.proc[Parent].nPagesInPhyMemory \in Int /\ MAX_PSYC_PAGES \in Nat
    BY EntryTypes, PagingAssumption
  <2>2. Cardinality(InUse(s)) < MAX_PSYC_PAGES
    BY <1>2, <2>1 DEF QueueInv, Counted
  <2>3. InUse(s) # Slots
    BY <2>2, RoomLeft
  <2>4. Few(s, U)
    BY CoveredFew DEF QueueInv
  <2> QED
    BY <1>2, <2>3, <2>4 DEF makeRoom, Within
<1> QED
  BY <1>1, <1>2

\* A page comes into memory and is queued.
LEMMA mapPageQueues ==
    ASSUME NEW U \in SUBSET Page, NEW s \in Memory, QueueInv(s, U), InUse(s) # Slots,
           NEW a \in Page, ~HasFrame(s, Parent, a), s.free # {}
    PROVE  LET t == mapPage(s, Parent, a)
           IN  QueueInv(t, U) /\ t.proc[Parent].nPagesInPhyMemory = s.proc[Parent].nPagesInPhyMemory + 1
<1> DEFINE f == Min(s.free)
           r == [s.proc[Parent] EXCEPT !.pte[a] = Present(f)]
           v == [s EXCEPT !.proc[Parent].pte[a] = Present(f), !.free = s.free \ {f}, !.ram[f] = Zero]
           t == mapPage(s, Parent, a)
           n == s.proc[Parent].nPagesInPhyMemory
<1> SUFFICES QueueInv(t, U) /\ t.proc[Parent].nPagesInPhyMemory = n + 1
  OBVIOUS
<1>1. f \in s.free /\ f \in Physical
  <2>1. s.free \in SUBSET Nat /\ s.free \subseteq Physical
    BY PagingSorts, HasTypes
  <2>2. \E i \in s.free : \A j \in s.free : i <= j
    BY <2>1, LeastElement
  <2> QED
    BY <2>1, <2>2 DEF Min
<1>2. t = enqueueFIFO(v, Parent, a)
  BY DEF mapPage, HasFrame
<1>3. \A b \in Page \ {a} : HasFrame(t, Parent, b) = HasFrame(s, Parent, b)
  BY PagingSorts, mapPageKeeps
<1> HIDE DEF f, t
<1>4. s.proc[Parent] \in PagedProc /\ Parent \in Procs
  BY PagingSorts DEF Memory
<1>5. r \in PagedProc /\ SameQueue([s EXCEPT !.proc[Parent] = r], s)
  <2>1. s.proc[Parent].pte \in [Page -> Pte] /\ Present(f) \in Pte
    BY <1>1, <1>4, PteSays DEF PagedProc
  <2>2. r = [s.proc[Parent] EXCEPT !.pte = [s.proc[Parent].pte EXCEPT ![a] = Present(f)]]
    OBVIOUS
  <2>3. /\ r \in PagedProc /\ r.ent = s.proc[Parent].ent /\ r.head = s.proc[Parent].head
        /\ r.nPagesInPhyMemory = s.proc[Parent].nPagesInPhyMemory
    BY <1>4, <2>1, <2>2 DEF PagedProc
  <2> HIDE DEF r
  <2>4. [s EXCEPT !.proc[Parent] = r].proc[Parent] = r
    BY <1>4 DEF Memory
  <2> QED
    BY <2>3, <2>4 DEF SameQueue
<1>6. v \in Memory /\ SameQueue(v, s)
  <2> DEFINE u == [s EXCEPT !.proc[Parent] = r]
             free == s.free \ {f}
             ram == [s.ram EXCEPT ![f] = Zero]
  <2>1. v = [u EXCEPT !.free = free, !.ram = ram]
    BY DEF Memory
  <2>2. ram \in [Physical -> Content] /\ free \in SUBSET Frame
    BY <1>1, PagingSorts DEF Memory
  <2>3. u \in Memory /\ SameQueue(u, s)
    BY <1>4, <1>5, OneProcChanges
  <2> HIDE DEF u, free, ram, v, r
  <2> QED
    BY <2>1, <2>2, <2>3 DEF Memory, SameQueue
<1> HIDE DEF v
<1>7. Chained(v) /\ InUse(v) = InUse(s) /\ \A i : EntryOf(v, i) = EntryOf(s, i)
  BY <1>6, SameQueueKeeps DEF QueueInv
<1>8. PICK i \in Slots : Chained(t) /\ Enqueued(t, v, i, a)
  BY <1>2, <1>6, <1>7, enqueueFIFOChains
<1>9. t.proc[Parent].nPagesInPhyMemory = n + 1
  BY <1>6, <1>8 DEF Enqueued, SameQueue
<1>10. Counted(t, t.proc[Parent].nPagesInPhyMemory)
  <2>1. Cardinality(InUse(s)) \in Nat /\ n \in Int
    BY EntryTypes
  <2>2. Cardinality(InUse(t)) = Cardinality(InUse(s)) + 1
    BY <1>6, <1>7, <1>8, EntriesCounted
  <2> QED
    BY <1>9, <2>1, <2>2 DEF QueueInv, Counted
<1>11. Covered(t, U)
  <2>1. ASSUME NEW b \in Page, HasFrame(t, Parent, b), b \notin U PROVE \E j \in InUse(t) : EntryOf(t, j).address = b
    <3>1. CASE b = a
      BY <1>8, <3>1 DEF Enqueued
    <3>2. CASE b # a
      <4>1. PICK j \in InUse(s) : EntryOf(s, j).address = b
        BY <1>3, <2>1, <3>2 DEF QueueInv, Covered
      <4> QED
        BY <1>7, <1>8, <4>1 DEF Enqueued
    <3> QED
      BY <3>1, <3>2
  <2> QED
    BY <2>1 DEF Covered
<1> QED
  BY <1>8, <1>9, <1>10, <1>11 DEF QueueInv

\* A page is added, or the kernel panics.
LEMMA mapPageWithin ==
    ASSUME NEW U \in SUBSET Page, NEW s \in Memory, QueueInv(s, U), InUse(s) # Slots, NEW a \in Page, s.free # {}
    PROVE  Within(mapPage(s, Parent, a), U)
<1>1. CASE HasFrame(s, Parent, a)
  <2>1. mapPage(s, Parent, a) = Panic(s)
    BY <1>1 DEF mapPage, HasFrame
  <2>2. Panic(s).panic /\ PagesLeave(Panic(s), s, Parent)
    BY PagingSorts, PanicLeave
  <2>3. Few(Panic(s), U)
    BY <2>2, CoveredFew, FewerPages DEF QueueInv, PagesLeave
  <2> QED
    BY <2>1, <2>2, <2>3 DEF Within
<1>2. CASE ~HasFrame(s, Parent, a)
  <2> DEFINE t == mapPage(s, Parent, a)
  <2>1. QueueInv(t, U) /\ t \in Memory
    BY <1>2, PagingSorts, mapPageQueues, mapPageKeeps
  <2> HIDE DEF t
  <2>2. Within(t, U)
    BY <2>1, CoveredFew DEF QueueInv, Within
  <2> QED
    BY <2>2 DEF t
<1> QED
  BY <1>1, <1>2

\* A page takes the place of another in the page table, and nothing else of the queue changes.
LEMMA ExchangeQueues ==
    ASSUME NEW s \in Memory, NEW a \in Page, NEW r \in Page, NEW i
    PROVE  LET t == Exchange(s, Parent, a, r, i)
           IN  /\ SameQueue(t, s) /\ ~HasFrame(t, Parent, r)
               /\ \A b \in Page : HasFrame(t, Parent, b) => b = a \/ HasFrame(s, Parent, b)
<1> DEFINE frame == s.proc[Parent].pte[r].f
           pte1 == [s.proc[Parent].pte EXCEPT ![a] = Present(frame)]
           pte2 == [pte1 EXCEPT ![r] = Swapped]
           sl == [s.proc[Parent].slot EXCEPT ![i].address = r]
           fi == [s.proc[Parent].file EXCEPT ![i] = s.ram[pte1[r].f]]
           new == [s.proc[Parent] EXCEPT !.slot = sl, !.file = fi, !.pte = pte2]
           ram == [s.ram EXCEPT ![frame] = s.proc[Parent].file[i]]
           t == Exchange(s, Parent, a, r, i)
<1>1. s.proc[Parent] \in PagedProc /\ Parent \in Procs /\ s.proc[Parent].pte \in [Page -> Pte]
  BY PagingSorts DEF Memory, PagedProc
<1>2. t = [s EXCEPT !.proc[Parent] = new, !.ram = ram]
  BY DEF Exchange
<1>3. pte2[r] = Swapped /\ \A b \in Page : pte2[b].p => b = a \/ s.proc[Parent].pte[b].p
  BY <1>1, PteSays
<1> HIDE DEF t, sl, fi, pte2, ram
<1>4. t.proc[Parent] = new
  BY <1>1, <1>2 DEF Memory
<1>5. /\ t.proc[Parent].pte = pte2 /\ t.proc[Parent].ent = s.proc[Parent].ent /\ t.proc[Parent].head = s.proc[Parent].head
      /\ t.proc[Parent].nPagesInPhyMemory = s.proc[Parent].nPagesInPhyMemory
  BY <1>1, <1>4 DEF PagedProc
<1> HIDE DEF new
<1> QED
  BY <1>3, <1>5, PteSays DEF SameQueue, HasFrame, t

\* The page at the head of the queue makes place for one that was swapped out.
LEMMA swapPageInWithin ==
    ASSUME NEW U \in SUBSET Page, NEW s \in Memory, Within(s, U), NEW a \in Page, ~HasFrame(s, Parent, a)
    PROVE  Within(swapPageIn(s, Parent, a), U)
<1> DEFINE r == FrontAddress(s, Parent)
           k == Min(HasAddress(s, Parent, a))
           d == dequeueFIFO(s, Parent)
           x == Exchange(d, Parent, a, r, k)
           t == swapPageIn(s, Parent, a)
           bad == s.proc[Parent].head = Null \/ s.proc[Parent].pte[a] = NoPte \/ s.proc[Parent].pte[r] = NoPte
<1>1. CASE s.panic \/ HasAddress(s, Parent, a) = {}
  BY <1>1 DEF swapPageIn
<1>2. CASE ~(s.panic \/ HasAddress(s, Parent, a) = {}) /\ bad
  <2>1. t = Panic(s)
    BY <1>2 DEF swapPageIn
  <2>2. Panic(s).panic /\ PagesLeave(Panic(s), s, Parent)
    BY PagingSorts, PanicLeave
  <2>3. Few(Panic(s), U)
    BY <2>2, FewerPages DEF Within, PagesLeave
  <2> QED
    BY <2>1, <2>2, <2>3 DEF Within
<1>3. CASE ~(s.panic \/ HasAddress(s, Parent, a) = {}) /\ ~bad
  <2>1. t = enqueueFIFO(x, Parent, a)
    BY <1>3 DEF swapPageIn
  <2>2. QueueInv(s, U)
    BY <1>3 DEF Within
  <2>3. k \in Slots
    BY <1>3, LeastSlot DEF HasAddress
  <2>4. r \in Page /\ d \in Memory /\ SameTables(d, s)
    BY <1>3, PagingSorts, FrontTypes, dequeueFIFOTypes
  <2>5. PICK i \in Slots : Chained(d) /\ Dequeued(d, s, i, r)
    BY <1>3, <2>2, dequeueFIFOChains DEF QueueInv
  <2>6. ~HasFrame(d, Parent, a) /\ d.proc[Parent].pte[r] # NoPte /\ \A b \in Page : HasFrame(d, Parent, b) = HasFrame(s, Parent, b)
    BY <1>3, <2>4, PagingSorts DEF HasFrame, SameTables
  <2> HIDE DEF t, d, r, k
  <2>7. x \in Memory
    BY <2>3, <2>4, <2>6, PagingSorts, ExchangeTypes
  <2>8. /\ SameQueue(x, d) /\ ~HasFrame(x, Parent, r)
        /\ \A b \in Page : HasFrame(x, Parent, b) => b = a \/ HasFrame(d, Parent, b)
    BY <2>4, ExchangeQueues
  <2> HIDE DEF x
  <2>9. Chained(x) /\ InUse(x) = InUse(d) /\ \A j : EntryOf(x, j) = EntryOf(d, j)
    BY <2>5, <2>8, SameQueueKeeps
  <2>10. /\ Cardinality(InUse(s)) \in Nat /\ Cardinality(InUse(s)) <= MAX_PSYC_PAGES
         /\ s.proc[Parent].nPagesInPhyMemory \in Int
         /\ Cardinality(InUse(x)) = Cardinality(InUse(s)) - 1
    BY <2>5, <2>9, EntryTypes, EntriesCounted
  <2>11. InUse(x) # Slots
    BY <2>7, <2>10, PagingAssumption, RoomLeft
  <2>12. PICK j \in Slots : Chained(t) /\ Enqueued(t, x, j, a)
    BY <2>1, <2>7, <2>9, <2>11, enqueueFIFOChains
  <2>13. t \in Memory /\ SameTables(t, x)
    BY <2>1, <2>7, PagingSorts, enqueueFIFOTypes
  <2>14. Counted(t, t.proc[Parent].nPagesInPhyMemory)
    <3>1. Cardinality(InUse(t)) = Cardinality(InUse(x)) + 1
      BY <2>7, <2>12, EntriesCounted
    <3>2. t.proc[Parent].nPagesInPhyMemory = s.proc[Parent].nPagesInPhyMemory + 1
      BY <2>5, <2>8, <2>12 DEF Enqueued, Dequeued, SameQueue
    <3> QED
      BY <2>2, <2>10, <3>1, <3>2 DEF QueueInv, Counted
  <2>15. Covered(t, U)
    <3>1. ASSUME NEW b \in Page, HasFrame(t, Parent, b), b \notin U PROVE \E h \in InUse(t) : EntryOf(t, h).address = b
      <4>1. CASE b = a
        BY <2>12, <4>1 DEF Enqueued
      <4>2. CASE b # a
        <5>1. HasFrame(x, Parent, b)
          BY <2>13, <3>1, PagingSorts DEF SameTables, HasFrame
        <5>2. HasFrame(s, Parent, b) /\ b # r
          BY <2>6, <2>8, <4>2, <5>1
        <5>3. PICK h \in InUse(s) : EntryOf(s, h).address = b
          BY <2>2, <3>1, <5>2 DEF QueueInv, Covered
        <5>4. h # i /\ h \in Slots
          BY <2>5, <5>2, <5>3 DEF Dequeued, InUse
        <5>5. h \in InUse(x) /\ EntryOf(x, h) = EntryOf(s, h)
          BY <2>5, <2>9, <5>3, <5>4 DEF Dequeued
        <5> QED
          BY <2>12, <5>3, <5>5 DEF Enqueued
      <4> QED
        BY <4>1, <4>2
    <3> QED
      BY <3>1 DEF Covered
  <2>16. Within(t, U)
    BY <2>12, <2>13, <2>14, <2>15, CoveredFew DEF QueueInv, Within
  <2> QED
    BY <2>16 DEF t
<1> QED
  BY <1>1, <1>2, <1>3

\* Pages are freed, and the queue stays.
LEMMA deallocuvmWithin ==
    ASSUME NEW U \in SUBSET Page, NEW s \in Memory, Within(s, U),
           NEW from \in Int, NEW to \in Int, from >= 0, to <= NPages
    PROVE  Within(deallocuvm(s, Parent, from, to), U)
<1> DEFINE gone == {a \in from .. to - 1 : s.proc[Parent].pte[a].p}
           pte == [a \in Page |-> IF a \in gone THEN NoPte ELSE s.proc[Parent].pte[a]]
           u == [s EXCEPT !.proc[Parent].pte = pte]
           fs == {s.proc[Parent].pte[a].f : a \in gone}
           t == deallocuvm(s, Parent, from, to)
<1>1. PagesLeave(t, s, Parent)
  BY PagingSorts, deallocuvmLeaves
<1>2. CASE \E a \in gone : s.proc[Parent].pte[a].f = Low
  <2>1. t = Panic(s)
    BY <1>2 DEF deallocuvm
  <2>2. Panic(s).panic
    BY PagingSorts, PanicLeave
  <2> QED
    BY <1>1, <2>1, <2>2, FewerPages DEF Within, PagesLeave
<1>3. CASE ~\E a \in gone : s.proc[Parent].pte[a].f = Low
  <2>1. t = kfree(u, fs)
    BY <1>3 DEF deallocuvm
  <2>2. s.proc[Parent] \in PagedProc
    BY PagingSorts DEF Memory
  <2> HIDE DEF pte, fs
  <2>3. u.proc[Parent] = [s.proc[Parent] EXCEPT !.pte = pte]
    BY PagingSorts DEF Memory
  <2>4. SameQueue(u, s)
    BY <2>2, <2>3 DEF PagedProc, SameQueue
  <2> HIDE DEF t, u
  <2>5. t.proc = u.proc
    BY <2>1, <1>1 DEF kfree, PagesLeave, Memory
  <2>6. SameQueue(t, s)
    BY <2>4, <2>5 DEF SameQueue
  <2> QED
    BY <1>1, <2>6, SameQueueKeeps, FewerPages DEF Within, PagesLeave, t
<1> QED
  BY <1>2, <1>3

\* One page is added, if the kernel still runs.
Going(t, s, U) == Underway(t, s, Parent, {}) /\ Within(t, U)
LEMMA GrownStepWithin ==
    ASSUME NEW U \in SUBSET Page, NEW s, NEW a \in Int, a - 1 \in Page, NEW x, Going(x, s, U)
    PROVE  Going(GrownStep(x, Parent, a), s, U)
<1> DEFINE t == IF x.panic THEN x ELSE makeRoom(x, Parent)
<1>1. Underway(GrownStep(x, Parent, a), s, Parent, {})
  BY PagingSorts, GrownStepKeeps DEF Going
<1>2. GrownStep(x, Parent, a) = IF t.panic THEN t ELSE mapPage(t, Parent, a - 1)
  BY DEF GrownStep
<1>3. CASE x.panic
  BY <1>1, <1>2, <1>3 DEF Going
<1>4. CASE ~x.panic
  <2>1. x \in Memory /\ x.panic = FALSE /\ Owned(x, {}) /\ QueueInv(x, U)
    BY <1>4 DEF Going, Underway, Within, Memory
  <2>2. t = makeRoom(x, Parent)
    BY <1>4
  <2> HIDE DEF t
  <2>3. Within(t, U) /\ (t.panic \/ InUse(t) # Slots)
    BY <2>1, <2>2, makeRoomWithin
  <2>4. PagesLeave(t, x, Parent)
    BY <2>1, <2>2, PagingSorts, makeRoomLeaves
  <2>5. CASE t.panic
    BY <1>1, <1>2, <2>3, <2>5 DEF Going
  <2>6. CASE ~t.panic
    <3>1. t \in Memory /\ t.panic = FALSE /\ QueueInv(t, U) /\ Owned(t, {})
      BY <2>1, <2>3, <2>4, <2>6 DEF Within, PagesLeave, Memory
    <3>2. t.free # {}
      BY <3>1, OneFrameLeft
    <3>3. Within(mapPage(t, Parent, a - 1), U)
      BY <2>3, <2>6, <3>1, <3>2, mapPageWithin
    <3> QED
      BY <1>1, <1>2, <2>6, <3>3 DEF Going
  <2> QED
    BY <2>5, <2>6
<1> QED
  BY <1>3, <1>4

\* What the table of allocuvm holds.
LEMMA GrownWithin ==
    ASSUME NEW U \in SUBSET Page, NEW s, Going(s, s, U),
           NEW from \in Nat, NEW n \in Nat, from + n <= NPages,
           NEW g, Grown(g, s, Parent, from, from + n)
    PROVE  Going(g[from + n], s, U)
<1> DEFINE S == {j \in Nat : j <= n /\ ~Going(g[from + j], s, U)}
<1>1. S = {}
  <2> SUFFICES ASSUME S # {} PROVE FALSE
    OBVIOUS
  <2>1. PICK i \in S : \A j \in S : i <= j
    BY LeastElement
  <2>2. i \in Nat /\ i <= n /\ ~Going(g[from + i], s, U)
    OBVIOUS
  <2>3. \A a \in from .. from + n : g[a] = IF a = from THEN s ELSE GrownStep(g[a - 1], Parent, a)
    BY DEF Grown, GrownStep
  <2> DEFINE k == from + i
  <2>4. k \in from .. from + n /\ k \in Int
    BY <2>2
  <2>5. g[k] = IF k = from THEN s ELSE GrownStep(g[k - 1], Parent, k)
    BY <2>3, <2>4
  <2>6. k # from
    BY <2>2, <2>5
  <2>7. i - 1 \in Nat /\ i - 1 <= n /\ ~(i <= i - 1) /\ from + (i - 1) = k - 1
    BY <2>2, <2>6
  <2>8. i - 1 \notin S
    BY <2>1, <2>7
  <2>9. Going(g[k - 1], s, U)
    BY <2>7, <2>8
  <2>10. k - 1 \in Page
    BY <2>2, <2>6, PagingAssumption DEF Page
  <2> HIDE DEF k
  <2>11. Going(GrownStep(g[k - 1], Parent, k), s, U)
    BY <2>4, <2>9, <2>10, GrownStepWithin
  <2> QED
    BY <2>2, <2>5, <2>6, <2>11 DEF k
<1>2. n \notin S
  BY <1>1
<1> QED
  BY <1>2

\* sbrk with n > 0.
LEMMA allocuvmWithin ==
    ASSUME NEW U \in SUBSET Page, NEW s \in Memory, s.panic = FALSE, Owned(s, {}), QueueInv(s, U),
           NEW from \in Nat, NEW to \in Nat, NEW end \in Nat, from <= end, end <= to, to <= NPages
    PROVE  Within(allocuvm(s, Parent, from, to, end), U)
<1> DEFINE n == end - from
<1>1. n \in Nat /\ from + n = end /\ from + n <= NPages
  BY PagingAssumption
<1> HIDE DEF n
<1>2. \E g : Grown(g, s, Parent, from, end)
  BY <1>1, PagingSorts, GrownExists
<1> DEFINE grown == CHOOSE g : Grown(g, s, Parent, from, end)
           last == grown[end]
           t == makeRoom(last, Parent)
<1>3. Grown(grown, s, Parent, from, end)
  BY <1>2
<1>4. allocuvm(s, Parent, from, to, end) =
        IF last.panic \/ end = to THEN last ELSE IF t.panic THEN t ELSE deallocuvm(t, Parent, from, to)
  BY DEF allocuvm, Grown
<1>5. Going(s, s, U)
  BY CoveredFew DEF Going, Underway, OthersSame, Within, QueueInv
<1> HIDE DEF grown
<1>6. Going(last, s, U)
  BY <1>1, <1>3, <1>5, GrownWithin
<1> HIDE DEF last
<1>7. CASE last.panic \/ end = to
  BY <1>4, <1>6, <1>7 DEF Going
<1>8. CASE ~(last.panic \/ end = to)
  <2>1. last \in Memory /\ last.panic = FALSE /\ QueueInv(last, U)
    BY <1>6, <1>8 DEF Going, Underway, Within, Memory
  <2>2. Within(t, U) /\ PagesLeave(t, last, Parent)
    BY <2>1, PagingSorts, makeRoomWithin, makeRoomLeaves
  <2> HIDE DEF t
  <2>3. from \in Int /\ to \in Int /\ from >= 0
    OBVIOUS
  <2>4. t \in Memory
    BY <2>2 DEF PagesLeave
  <2>5. Within(deallocuvm(t, Parent, from, to), U)
    BY <2>2, <2>3, <2>4, deallocuvmWithin
  <2> QED
    BY <1>4, <1>8, <2>2, <2>5
<1> QED
  BY <1>7, <1>8

\* While exec loads pages up to page j: the entries of the pages loaded, all but U of them,
\* are in the queue, and beyond the limit each page more has moved one out.
LoadedQueue(x, s, j) ==
    LET n == x.mem.proc[Parent].nPagesInPhyMemory IN
    /\ Loading(x, s, Parent, j)
    /\ j <= MAX_PSYC_PAGES => ~x.mem.panic
    /\ ~x.mem.panic =>
          /\ Chained(x.mem) /\ Counted(x.mem, n) /\ n <= j /\ n <= MAX_PSYC_PAGES /\ (n = j \/ n = MAX_PSYC_PAGES)
          /\ \E U \in SUBSET Page :
                /\ Cardinality(U) <= j - n
                /\ \A b \in Page : x.new[b].p => b \in U \/ \E i \in InUse(x.mem) : EntryOf(x.mem, i).address = b

\* Nothing is queued at first.
LEMMA LoadQueueStarts ==
    ASSUME NEW s \in Memory, s.panic = FALSE, Owned(s, {})
    PROVE  LoadedQueue(LoadStart(s, Parent), s, 0)
<1> DEFINE c == Cleared(s, Parent)
           x == LoadStart(s, Parent)
<1>1. Loading(x, s, Parent, 0)
  BY PagingSorts, LoadingStarts
<1>2. /\ c \in Memory /\ SameTables(c, s) /\ c.proc[Parent].ent = [i \in Slots |-> FreeEntry]
      /\ c.proc[Parent].head = Null /\ c.proc[Parent].nPagesInPhyMemory = 0
  BY PagingSorts, ClearedTypes
<1>3. x.mem = c /\ x.new = NoTable
  BY DEF LoadStart
<1> HIDE DEF c, x
<1>4. InUse(c) = {}
  BY <1>2 DEF InUse, EntryOf, FreeEntry
<1>5. Chained(c) /\ Counted(c, 0)
  BY <1>2, <1>4, FS_EmptySet DEF Chained, Live, Counted
<1>6. c.panic = FALSE
  BY <1>2 DEF SameTables
<1>7. \A b \in Page : ~NoTable[b].p
  BY PteSays DEF NoTable
<1>8. \E U \in SUBSET Page :
         /\ Cardinality(U) <= 0 - 0
         /\ \A b \in Page : x.new[b].p => b \in U \/ \E i \in InUse(c) : EntryOf(c, i).address = b
  <2>1. Cardinality({}) <= 0 - 0
    BY FS_EmptySet
  <2> QED
    BY <1>3, <1>7, <2>1
<1>9. MAX_PSYC_PAGES \in Nat /\ 0 <= MAX_PSYC_PAGES /\ 0 <= 0
  BY PagingAssumption
<1> QED
  BY <1>1, <1>2, <1>3, <1>5, <1>6, <1>8, <1>9 DEF LoadedQueue, x

\* One page more is queued.
LEMMA LoadQueueGoesOn ==
    ASSUME NEW s \in Memory, NEW j \in Page, NEW x, LoadedQueue(x, s, j)
    PROVE  LoadedQueue(LoadNext(x, Parent, j), s, j + 1)
<1> DEFINE M == MAX_PSYC_PAGES
           z == LoadNext(x, Parent, j)
           n == x.mem.proc[Parent].nPagesInPhyMemory
<1>1. j \in Nat /\ M \in Nat /\ M >= 1
  BY PagingAssumption DEF Page
<1>2. Loading(x, s, Parent, j) /\ Loading(z, s, Parent, j + 1)
  BY PagingSorts, LoadingGoesOn DEF LoadedQueue
<1>3. CASE x.mem.panic
  <2>1. z = x
    BY <1>3 DEF LoadNext
  <2>2. ~(j + 1 <= M)
    BY <1>1, <1>3 DEF LoadedQueue
  <2> HIDE DEF z
  <2> QED
    BY <1>2, <1>3, <2>1, <2>2 DEF LoadedQueue, z
<1>4. CASE ~x.mem.panic
  <2> DEFINE t == makeRoom(x.mem, Parent)
             k == t.proc[Parent].nPagesInPhyMemory
             f == Min(t.free)
             y == newPage(t, x.new, Parent, j, f)
  <2>1. x.mem \in Memory /\ x.mem.panic = FALSE /\ x.new \in [Page -> Pte] /\ x = [mem |-> x.mem, new |-> x.new]
    BY <1>2, <1>4 DEF Loading, Memory
  <2>2. Chained(x.mem) /\ Counted(x.mem, n) /\ n <= j /\ n <= M /\ (n = j \/ n = M) /\ n \in Int
    BY <1>4, <2>1, EntryTypes DEF LoadedQueue
  <2>3. PICK U \in SUBSET Page :
           /\ Cardinality(U) <= j - n
           /\ \A b \in Page : x.new[b].p => b \in U \/ \E i \in InUse(x.mem) : EntryOf(x.mem, i).address = b
    BY <1>4 DEF LoadedQueue
  <2>4. t \in Memory /\ (t.panic = FALSE => t.free # {} /\ Loading(y, s, Parent, j + 1))
    BY <1>2, <2>1, PagingSorts, LoadingTakes
  <2>5. z = IF t.panic THEN [x EXCEPT !.mem = t] ELSE y
    BY <1>4 DEF LoadNext, loadPage
  <2>6. IsFiniteSet(U) /\ Cardinality(U) \in Nat
    BY UncoveredFinite
  \* What the queue is once there is room.
  <2>7. \/ t.panic /\ n >= M
        \/ /\ ~t.panic /\ Chained(t) /\ Counted(t, k) /\ InUse(t) # Slots /\ k \in Int
           /\ k + 1 <= j + 1 /\ k + 1 <= M /\ (k + 1 = j + 1 \/ k + 1 = M)
           /\ \E V \in SUBSET Page :
                 /\ Cardinality(V) <= j - k
                 /\ \A b \in Page : x.new[b].p => b \in V \/ \E i \in InUse(t) : EntryOf(t, i).address = b
    <3>1. CASE ~(n >= M)
      <4>1. t = x.mem
        BY <3>1 DEF makeRoom
      <4>2. Cardinality(InUse(x.mem)) \in Nat /\ Cardinality(InUse(x.mem)) < M
        BY <1>1, <2>1, <2>2, <3>1, EntryTypes DEF Counted
      <4>3. InUse(x.mem) # Slots
        BY <2>1, <4>2, RoomLeft
      <4>4. n + 1 <= j + 1 /\ n + 1 <= M /\ n + 1 = j + 1
        BY <1>1, <2>2, <3>1
      <4> QED
        BY <1>4, <2>2, <2>3, <4>1, <4>3, <4>4
    <3>2. CASE n >= M
      <4>1. t = swapPageOut(x.mem, Parent)
        BY <3>2 DEF makeRoom
      <4>2. CASE t.panic
        BY <3>2, <4>2
      <4>3. CASE ~t.panic
        <5>1. PICK a \in Page :
                 /\ Chained(t) /\ Counted(t, k) /\ InUse(t) # Slots /\ k = n - 1
                 /\ \A i \in InUse(x.mem) : EntryOf(x.mem, i).address # a =>
                       i \in InUse(t) /\ EntryOf(t, i) = EntryOf(x.mem, i)
          BY <2>1, <2>2, <4>1, <4>3, swapPageOutQueues
        <5>2. n = M /\ M <= j
          BY <1>1, <2>2, <3>2
        <5>3. k \in Int /\ k + 1 <= j + 1 /\ k + 1 <= M /\ k + 1 = M
          BY <1>1, <2>2, <5>1, <5>2
        <5> DEFINE V == U \cup {a}
        <5>4. V \in SUBSET Page
          OBVIOUS
        <5>5. Cardinality(V) <= j - k
          <6>1. Cardinality(V) = Cardinality(U) \/ Cardinality(V) = Cardinality(U) + 1
            BY <2>6, FS_AddElement
          <6> HIDE DEF V
          <6> QED
            BY <1>1, <2>2, <2>3, <2>6, <5>1, <6>1
        <5>6. ASSUME NEW b \in Page, x.new[b].p, b \notin V PROVE \E i \in InUse(t) : EntryOf(t, i).address = b
          <6>1. b \notin U /\ b # a
            BY <5>6
          <6>2. PICK i \in InUse(x.mem) : EntryOf(x.mem, i).address = b
            BY <2>3, <5>6, <6>1
          <6>3. i \in InUse(t) /\ EntryOf(t, i) = EntryOf(x.mem, i)
            BY <5>1, <6>1, <6>2
          <6> QED
            BY <6>2, <6>3
        <5> HIDE DEF V, t
        <5> QED
          BY <4>3, <5>1, <5>3, <5>4, <5>5, <5>6
      <4> QED
        BY <4>2, <4>3
    <3> QED
      BY <3>1, <3>2
  <2>8. CASE t.panic
    <3>1. n >= M
      BY <2>7, <2>8
    <3>2. ~(j + 1 <= M)
      BY <1>1, <2>2, <3>1
    <3>3. z.mem = t
      BY <2>1, <2>5, <2>8
    <3> HIDE DEF z, t
    <3> QED
      BY <1>2, <2>8, <3>2, <3>3 DEF LoadedQueue, z
  <2>9. CASE ~t.panic
    <3> DEFINE v == [t EXCEPT !.free = t.free \ {f}, !.ram[f] = Zero]
               free == t.free \ {f}
               ram == [t.ram EXCEPT ![f] = Zero]
    <3>1. t.panic = FALSE /\ t.free # {} /\ z = y
      BY <2>4, <2>5, <2>9 DEF Memory
    <3>2. /\ f \in t.free /\ f \in Frame /\ y.mem.panic = t.panic
          /\ y.new = [x.new EXCEPT ![j] = Present(f)]
      <4> HIDE DEF t
      <4>1. t \in Memory /\ x.new \in [Page -> Pte] /\ Parent \in Procs /\ t.free # {}
        BY <2>1, <2>4, <3>1, PagingSorts
      <4>2. /\ f \in t.free /\ f \in Frame /\ y = [mem |-> y.mem, new |-> y.new]
            /\ y.mem \in Memory /\ y.mem.panic = t.panic /\ y.mem.free = t.free \ {f}
            /\ \A q \in Procs : y.mem.proc[q].pte = t.proc[q].pte
            /\ y.new \in [Page -> Pte] /\ y.new = [x.new EXCEPT ![j] = Present(f)]
        BY <4>1, newPageKeeps
      <4> QED
        BY <4>2
    <3>3. y.mem = enqueueFIFO(v, Parent, j)
      <4> DEFINE e == enqueueFIFO(v, Parent, j)
                 table == [x.new EXCEPT ![j] = Present(f)]
      <4>1. y = [mem |-> e, new |-> table]
        BY DEF newPage
      <4> HIDE DEF e, table, y
      <4>2. y.mem = e
        BY <4>1
      <4> QED
        BY <4>2 DEF e
    <3>4. v = [t EXCEPT !.free = free, !.ram = ram]
      BY <2>4 DEF Memory
    <3> HIDE DEF f, y, z, t
    <3>5. ram \in [Physical -> Content] /\ free \in SUBSET Frame
      BY <2>4, <3>2, PagingSorts DEF Memory
    <3> HIDE DEF ram, free, v
    <3>6. v \in Memory /\ SameQueue(v, t)
      BY <2>4, <3>4, <3>5 DEF Memory, SameQueue
    <3>7. /\ Chained(t) /\ Counted(t, k) /\ InUse(t) # Slots /\ k \in Int
          /\ k + 1 <= j + 1 /\ k + 1 <= M /\ (k + 1 = j + 1 \/ k + 1 = M)
      BY <2>7, <2>9
    <3>8. PICK V \in SUBSET Page :
             /\ Cardinality(V) <= j - k
             /\ \A b \in Page : x.new[b].p => b \in V \/ \E i \in InUse(t) : EntryOf(t, i).address = b
      BY <2>7, <2>9
    <3>9. Chained(v) /\ InUse(v) = InUse(t) /\ \A i : EntryOf(v, i) = EntryOf(t, i)
      BY <3>6, <3>7, SameQueueKeeps
    <3>10. PICK e \in Slots : Chained(y.mem) /\ Enqueued(y.mem, v, e, j)
      BY <3>3, <3>6, <3>7, <3>9, enqueueFIFOChains
    <3>11. y.mem.proc[Parent].nPagesInPhyMemory = k + 1
      BY <3>6, <3>10 DEF Enqueued, SameQueue
    <3>12. Counted(y.mem, k + 1)
      <4>1. Cardinality(InUse(y.mem)) = Cardinality(InUse(t)) + 1
        BY <3>6, <3>9, <3>10, EntriesCounted
      <4>2. Cardinality(InUse(t)) \in Nat
        BY <2>4, EntryTypes
      <4> QED
        BY <3>7, <4>1, <4>2 DEF Counted
    <3>13. ASSUME NEW b \in Page, y.new[b].p
           PROVE  b \in V \/ \E i \in InUse(y.mem) : EntryOf(y.mem, i).address = b
      <4>1. CASE b = j
        BY <3>10, <4>1 DEF Enqueued
      <4>2. CASE b # j /\ b \notin V
        <5>1. x.new[b].p
          BY <2>1, <3>2, <3>13, <4>2
        <5>2. PICK i \in InUse(t) : EntryOf(t, i).address = b
          BY <3>8, <4>2, <5>1
        <5> QED
          BY <3>9, <3>10, <5>2 DEF Enqueued
      <4> QED
        BY <4>1, <4>2
    <3>14. Cardinality(V) <= (j + 1) - (k + 1)
      <4>1. Cardinality(V) \in Nat
        BY UncoveredFinite
      <4> QED
        BY <1>1, <3>7, <3>8, <4>1
    <3> HIDE DEF k, M
    <3>15. LoadedQueue(y, s, j + 1)
      <4>1. Loading(y, s, Parent, j + 1) /\ ~y.mem.panic
        BY <2>4, <3>1, <3>2
      <4> QED
        BY <3>7, <3>10, <3>11, <3>12, <3>13, <3>14, <4>1 DEF LoadedQueue, M
    <3> QED
      BY <3>1, <3>15 DEF z
  <2> QED
    BY <2>8, <2>9
<1> QED
  BY <1>3, <1>4

\* An image is queued page by page.
LEMMA LoadQueues ==
    ASSUME NEW s \in Memory, s.panic = FALSE, Owned(s, {}), NEW k \in Nat, k <= NPages
    PROVE  LoadedQueue(Load(s, Parent, k), s, k)
<1>1. PICK g : Loaded(g, s, Parent, k) /\ Load(s, Parent, k) = g[k]
  BY LoadIs
<1>2. \A a \in 0 .. k : g[a] = IF a = 0 THEN LoadStart(s, Parent) ELSE LoadNext(g[a - 1], Parent, a - 1)
  BY <1>1 DEF Loaded
<1> DEFINE S == {j \in Nat : j <= k /\ ~LoadedQueue(g[j], s, j)}
<1>3. S = {}
  <2> SUFFICES ASSUME S # {} PROVE FALSE
    OBVIOUS
  <2>1. PICK i \in S : \A j \in S : i <= j
    BY LeastElement
  <2>2. i \in Nat /\ i <= k /\ ~LoadedQueue(g[i], s, i)
    OBVIOUS
  <2>3. i # 0
    <3>1. 0 \in 0 .. k
      OBVIOUS
    <3>2. g[0] = LoadStart(s, Parent)
      BY <1>2, <3>1
    <3>3. LoadedQueue(g[0], s, 0)
      BY <3>2, LoadQueueStarts
    <3> QED
      BY <2>2, <3>3
  <2>4. i - 1 \in Nat /\ i - 1 <= k /\ ~(i <= i - 1) /\ i \in 0 .. k
    BY <2>2, <2>3
  <2>5. i - 1 \notin S
    BY <2>1, <2>4
  <2>6. LoadedQueue(g[i - 1], s, i - 1)
    BY <2>4, <2>5
  <2>7. i - 1 \in Page /\ (i - 1) + 1 = i
    BY <2>2, <2>4, PagingAssumption DEF Page
  <2>8. LoadedQueue(LoadNext(g[i - 1], Parent, i - 1), s, i)
    <3>1. LoadedQueue(LoadNext(g[i - 1], Parent, i - 1), s, (i - 1) + 1)
      BY <2>6, <2>7, LoadQueueGoesOn
    <3> QED
      BY <2>7, <3>1
  <2>9. g[i] = LoadNext(g[i - 1], Parent, i - 1)
    BY <1>2, <2>3, <2>4
  <2> QED
    BY <2>2, <2>8, <2>9
<1> QED
  BY <1>1, <1>3

-----------------------------------------------------------------------------
\* Process p may still reach frame f as its page a.
Translations == Procs \X Page \X Physical
\* The memory has its type; until the kernel panics every frame has one owner;
\* and a process that was never started has no page.
PagingInv ==
    /\ m \in Memory /\ panicked \in BOOLEAN /\ tlb \subseteq Translations /\ image \in 1 .. NPages
    /\ sz \in [Procs -> 0 .. NPages] /\ state \in [Procs -> {"unused", "user", "dead"}]
    /\ panicked = FALSE => m.panic = FALSE /\ Owned(m, {})
    /\ panicked = FALSE /\ state[Child] = "unused" => \A a \in Page : ~HasFrame(m, Child, a)

\* What the processor may remember has the type of a translation.
LEMMA MayFlushTypes ==
    ASSUME PagingInv, NEW p \in Procs, NEW s, MayFlush(p, s)
    PROVE  tlb' \subseteq Translations
<1> DEFINE was == m.proc[p].pte
           gone == {a \in Page : was[a].p /\ s.proc[p].pte[a] # was[a]}
           left == {<<p, a, was[a].f>> : a \in gone}
           kept == {e \in tlb : e[1] = p}
<1>1. tlb' = {} \/ tlb' = kept \cup left
  BY DEF MayFlush
<1>2. \A a \in Page : was[a].f \in Physical
  BY HasTypes DEF PagingInv, FrameOf
<1>3. kept \subseteq Translations
  BY DEF PagingInv
<1>4. left \subseteq Translations
  <2>1. ASSUME NEW a \in gone PROVE <<p, a, was[a].f>> \in Translations
    <3>1. a \in Page /\ was[a].f \in Physical
      BY <1>2
    <3> HIDE DEF was
    <3> QED
      BY <3>1 DEF Translations
  <2> QED
    BY <2>1
<1> HIDE DEF kept, left
<1> QED
  BY <1>1, <1>3, <1>4

\* What follows from a state of the kernel at the end of a system call.
LEMMA BecomesKeeps ==
    ASSUME NEW t \in Memory, Becomes(t), t.panic = FALSE => Owned(t, {})
    PROVE  /\ m' \in Memory /\ panicked' \in BOOLEAN /\ SameTables(m', t)
           /\ panicked' = FALSE => m'.panic = FALSE /\ Owned(m', {})
<1>1. m' = [t EXCEPT !.null = FALSE]
  BY DEF Becomes
<1>2. m' \in Memory /\ SameTables(m', t)
  BY <1>1 DEF Memory, SameTables
<1>3. t.panic \in BOOLEAN /\ t.null \in BOOLEAN
  BY DEF Memory
<1>4. panicked' \in BOOLEAN /\ (panicked' = FALSE => t.panic = FALSE)
  BY <1>3 DEF Becomes
<1>5. panicked' = FALSE => m'.panic = FALSE /\ Owned(m', {})
  <2> SUFFICES ASSUME panicked' = FALSE PROVE m'.panic = FALSE /\ Owned(m', {})
    OBVIOUS
  <2>1. t.panic = FALSE /\ m'.panic = t.panic
    BY <1>2, <1>4 DEF SameTables
  <2> QED
    BY <1>2, <2>1, OwnedSame
<1> QED
  BY <1>2, <1>4, <1>5

\* A process that runs finds memory in order.
LEMMA RunsIn ==
    ASSUME PagingInv, NEW p \in Procs, Runs(p)
    PROVE  m \in Memory /\ m.panic = FALSE /\ Owned(m, {}) /\ panicked = FALSE /\ state[p] = "user"
<1>1. ~panicked /\ state[p] = "user"
  BY DEF Runs
<1>2. panicked = FALSE
  BY <1>1 DEF PagingInv
<1> QED
  BY <1>1, <1>2 DEF PagingInv

\* What a process does to its own memory.
LEMMA CallKeeps ==
    ASSUME PagingInv, NEW p \in Procs, Runs(p), NEW t, Underway(t, m, p, {}), Becomes(t),
           tlb' \subseteq Translations, image' \in 1 .. NPages,
           sz' \in [Procs -> 0 .. NPages], state' \in [Procs -> {"unused", "user", "dead"}],
           state'[Child] = "unused" => state[Child] = "unused"
    PROVE  PagingInv'
<1>1. t \in Memory /\ OthersSame(t, m, p) /\ (t.panic = FALSE => Owned(t, {}))
  BY DEF Underway
<1>2. /\ m' \in Memory /\ panicked' \in BOOLEAN /\ SameTables(m', t)
      /\ panicked' = FALSE => m'.panic = FALSE /\ Owned(m', {})
  BY <1>1, BecomesKeeps
<1>3. ASSUME state'[Child] = "unused", NEW a \in Page PROVE ~HasFrame(m', Child, a)
  <2>1. panicked = FALSE /\ p # Child
    BY <1>3, RunsIn
  <2>2. ~HasFrame(m, Child, a)
    BY <1>3, <2>1 DEF PagingInv
  <2>3. m'.proc[Child].pte = m.proc[Child].pte
    BY <1>1, <1>2, <2>1, PagingSorts DEF SameTables, OthersSame
  <2> QED
    BY <2>2, <2>3 DEF HasFrame
<1> QED
  BY <1>2, <1>3 DEF PagingInv

\* sbrk with n > 0.
LEMMA GrowKeeps ==
    ASSUME PagingInv, NEW p \in Procs, NEW n \in 1 .. MaxGrow, NEW k \in 0 .. n, Grow(p, n, k)
    PROVE  PagingInv'
<1> DEFINE from == sz[p]
           t == allocuvm(m, p, from, from + n, from + k)
<1>1. Runs(p) /\ from + n <= NPages /\ Becomes(t) /\ state' = state /\ image' = image /\ (tlb' = {} \/ MayFlush(p, t))
  BY DEF Grow
<1>2. m \in Memory /\ m.panic = FALSE /\ Owned(m, {})
  BY <1>1, RunsIn
<1>3. from \in 0 .. NPages /\ sz \in [Procs -> 0 .. NPages]
  BY DEF PagingInv
<1>4. from \in Nat /\ from + n \in Nat /\ from + k \in Nat /\ from <= from + k /\ from + k <= from + n
  BY <1>3, PagingAssumption
<1>5. Underway(t, m, p, {})
  BY <1>1, <1>2, <1>4, allocuvmKeeps
<1>6. sz' \in [Procs -> 0 .. NPages]
  <2>1. sz' = IF k = n THEN [sz EXCEPT ![p] = sz[p] + n] ELSE sz
    BY DEF Grow
  <2>2. from + n \in 0 .. NPages
    BY <1>1, <1>4, PagingAssumption
  <2> QED
    BY <1>3, <2>1, <2>2
<1> HIDE DEF t
<1>7. state' \in [Procs -> {"unused", "user", "dead"}] /\ image' \in 1 .. NPages /\ tlb' \subseteq Translations
  BY <1>1, MayFlushTypes DEF PagingInv
<1> QED
  BY <1>1, <1>5, <1>6, <1>7, CallKeeps

\* sbrk with n < 0.
LEMMA ShrinkKeeps ==
    ASSUME PagingInv, NEW p \in Procs, NEW n \in 1 .. MaxGrow, Shrink(p, n)
    PROVE  PagingInv'
<1> DEFINE t == deallocuvm(m, p, sz[p] - n, sz[p])
<1>1. Runs(p) /\ n <= sz[p] /\ Becomes(t) /\ state' = state /\ image' = image /\ (tlb' = {} \/ MayFlush(p, t))
  BY DEF Shrink
<1>2. m \in Memory /\ m.panic = FALSE /\ Owned(m, {})
  BY <1>1, RunsIn
<1>3. sz[p] \in 0 .. NPages /\ sz \in [Procs -> 0 .. NPages]
  BY DEF PagingInv
<1>4. sz[p] - n \in Int /\ sz[p] \in Int /\ sz[p] - n >= 0 /\ sz[p] <= NPages /\ sz[p] - n \in 0 .. NPages
  BY <1>1, <1>3, PagingAssumption
<1>5. PagesLeave(t, m, p)
  BY <1>2, <1>4, deallocuvmLeaves
<1>6. Underway(t, m, p, {})
  BY <1>2, <1>5 DEF PagesLeave, Underway
<1>7. sz' \in [Procs -> 0 .. NPages]
  <2>1. sz' = IF n = sz[p] THEN sz ELSE [sz EXCEPT ![p] = sz[p] - n]
    BY DEF Shrink
  <2> QED
    BY <1>3, <1>4, <2>1
<1> HIDE DEF t
<1>8. state' \in [Procs -> {"unused", "user", "dead"}] /\ image' \in 1 .. NPages /\ tlb' \subseteq Translations
  BY <1>1, MayFlushTypes DEF PagingInv
<1> QED
  BY <1>1, <1>6, <1>7, <1>8, CallKeeps

\* A store: to the page, or to a frame that the page has left.
LEMMA WriteKeeps ==
    ASSUME PagingInv, NEW p \in Procs, NEW a \in Page, NEW v \in Value, Write(p, a, v)
    PROVE  PagingInv'
<1>1. PICK f \in Physical : m' = [m EXCEPT !.ram[f] = v] /\ panicked' = (f \in m.free)
  BY DEF Write
<1>2. Runs(p) /\ image' = image /\ sz' = sz /\ state' = state /\ tlb' \subseteq tlb
  BY DEF Write
<1>3. m \in Memory /\ m.panic = FALSE /\ Owned(m, {}) /\ panicked = FALSE
  BY <1>2, RunsIn
<1>4. m' \in Memory /\ SameTables(m', m)
  BY <1>1, <1>3 DEF Memory, SameTables, Content
<1>5. m'.panic = FALSE /\ Owned(m', {})
  BY <1>3, <1>4, OwnedSame DEF SameTables
<1>6. \A b \in Page : HasFrame(m', Child, b) = HasFrame(m, Child, b)
  BY <1>4, PagingSorts DEF SameTables, HasFrame
<1>7. panicked' \in BOOLEAN
  BY <1>1
<1> QED
  BY <1>2, <1>3, <1>4, <1>5, <1>6, <1>7 DEF PagingInv

\* A fault.
LEMMA PageFaultKeeps ==
    ASSUME PagingInv, NEW p \in Procs, NEW a \in Page, PageFault(p, a)
    PROVE  PagingInv'
<1> DEFINE u == swapPageOut(m, p)
           t == swapPageIn(u, p, a)
<1>1. Runs(p) /\ m.proc[p].pte[a].pg /\ Becomes(t) /\ MayFlush(p, t) /\ state' = state /\ sz' = sz /\ image' = image
  BY DEF PageFault
<1>2. m \in Memory /\ m.panic = FALSE /\ Owned(m, {})
  BY <1>1, RunsIn
<1>3. ~HasFrame(m, p, a)
  BY <1>1, <1>2, HasTypes, PteSays DEF HasFrame
<1>4. PagesLeave(u, m, p)
  BY <1>2, swapPageOutLeaves
<1>5. u \in Memory /\ OthersSame(u, m, p) /\ ~HasFrame(u, p, a) /\ (u.panic = FALSE => Owned(u, {}))
  BY <1>2, <1>3, <1>4 DEF PagesLeave
<1> HIDE DEF u
<1>6. /\ t \in Memory /\ OthersSame(t, u, p) /\ (u.panic => t.panic)
      /\ \A X : Owned(u, X) /\ t.panic = FALSE => Owned(t, X)
  BY <1>5, swapPageInKeeps
<1> HIDE DEF t
<1>7. t.panic = FALSE => Owned(t, {})
  <2>1. u.panic \in BOOLEAN
    BY <1>5 DEF Memory
  <2> QED
    BY <1>5, <1>6, <2>1
<1>8. Underway(t, m, p, {})
  BY <1>5, <1>6, <1>7 DEF Underway, OthersSame
<1> QED
  <2>1. /\ sz' \in [Procs -> 0 .. NPages] /\ state' \in [Procs -> {"unused", "user", "dead"}] /\ image' \in 1 .. NPages
        /\ tlb' \subseteq Translations
    BY <1>1, MayFlushTypes DEF PagingInv
  <2> QED
    BY <1>1, <1>8, <2>1, CallKeeps

\* exit.
LEMMA exitKeeps ==
    ASSUME PagingInv, NEW p \in Procs, exit(p)
    PROVE  PagingInv'
<1> DEFINE t == deallocuvm(m, p, 0, NPages)
<1>1. Runs(p) /\ Becomes(t) /\ state' = [state EXCEPT ![p] = "dead"] /\ sz' = sz /\ image' = image /\ tlb' = {}
  BY DEF exit
<1>2. m \in Memory /\ m.panic = FALSE /\ Owned(m, {})
  BY <1>1, RunsIn
<1>3. 0 \in Int /\ NPages \in Int /\ 0 >= 0 /\ NPages <= NPages
  BY PagingAssumption
<1>4. PagesLeave(t, m, p)
  BY <1>2, <1>3, deallocuvmLeaves
<1>5. Underway(t, m, p, {})
  BY <1>2, <1>4 DEF PagesLeave, Underway
<1>6. /\ sz' \in [Procs -> 0 .. NPages] /\ state' \in [Procs -> {"unused", "user", "dead"}]
      /\ state'[Child] = "unused" => state[Child] = "unused"
      /\ image' \in 1 .. NPages /\ tlb' \subseteq Translations
  BY <1>1, PagingSorts DEF PagingInv
<1> QED
  BY <1>1, <1>5, <1>6, CallKeeps

\* What was set aside is freed.
LEMMA FramesReturned ==
    ASSUME NEW s, NEW t, NEW X, Owned(s, X), \A q \in Procs : t.proc[q].pte = s.proc[q].pte, t.free = s.free \cup X
    PROVE  Owned(t, {})
<1>1. \A q \in Procs, a \in Page : HasFrame(t, q, a) = HasFrame(s, q, a) /\ FrameOf(t, q, a) = FrameOf(s, q, a)
  BY DEF HasFrame, FrameOf
<1> QED
  BY <1>1 DEF Owned

\* exec: the new image is loaded, and the old one is freed.
LEMMA execKeeps ==
    ASSUME PagingInv, NEW p \in Procs, NEW n \in Images, exec(p, n)
    PROVE  PagingInv'
<1> DEFINE x == Load(m, p, n)
           t == x.mem
           old == FramesOf(t.proc[p].pte)
           X == OldFrames(t, p)
<1>1. Runs(p) /\ tlb' = {} /\ state' = state
  BY DEF exec
<1>2. m \in Memory /\ m.panic = FALSE /\ Owned(m, {})
  BY <1>1, RunsIn
<1>3. n \in Nat /\ n <= NPages /\ n \in 1 .. NPages /\ n \in 0 .. NPages
  BY PagingAssumption
<1>4. Loading(x, m, p, n)
  BY <1>2, <1>3, LoadKeeps
<1>5. old = FramesIn(t, p)
  BY DEF FramesOf, FramesIn, PagesOf, HasFrame, FrameOf
<1>6. t \in Memory /\ OthersSame(t, m, p)
  BY <1>4 DEF Loading
<1>7. state' \in [Procs -> {"unused", "user", "dead"}] /\ tlb' \subseteq Translations
  BY <1>1 DEF PagingInv
<1>8. CASE t.panic
  <2>1. Becomes(t) /\ image' = image /\ sz' = sz
    BY <1>8 DEF exec
  <2>2. Underway(t, m, p, {})
    BY <1>6, <1>8 DEF Underway
  <2>3. sz' \in [Procs -> 0 .. NPages] /\ image' \in 1 .. NPages
    BY <2>1 DEF PagingInv
  <2> HIDE DEF x, t
  <2> QED
    BY <1>1, <1>7, <2>1, <2>2, <2>3, CallKeeps
<1>9. CASE ~t.panic
  <2>1. PICK v \in Value :
           LET u == [t EXCEPT !.proc[p].pte = x.new,
                              !.ram = [f \in Physical |-> IF f \in FramesOf(x.new) THEN v ELSE t.ram[f]]]
           IN  Becomes(IF Low \in old THEN Panic(u) ELSE kfree(u, old))
    BY <1>9 DEF exec
  <2>2. sz' = [sz EXCEPT ![p] = n] /\ image' = (IF p = Parent THEN n ELSE image)
    BY <1>9 DEF exec
  <2> HIDE DEF x, old
  <2> DEFINE ram == [f \in Physical |-> IF f \in FramesOf(x.new) THEN v ELSE t.ram[f]]
             u == Taken(x, p, ram)
             z == IF Low \in old THEN Panic(u) ELSE kfree(u, old)
  <2>3. ram \in [Physical -> Content]
    BY <1>6 DEF Memory, Content
  <2>4. Becomes(z)
    BY <2>1 DEF Taken
  <2> HIDE DEF ram
  <2>5. t.panic = FALSE
    BY <1>6, <1>9 DEF Memory
  <2>6. u \in Memory /\ OthersSame(u, m, p) /\ u.panic = FALSE /\ Owned(u, X)
    BY <1>2, <1>4, <2>3, <2>5, TableTaken
  <2> HIDE DEF u, t
  <2>7. Underway(z, m, p, {})
    <3>1. CASE Low \in old
      <4>1. z = Panic(u)
        BY <3>1
      <4> HIDE DEF z
      <4>2. z \in Memory /\ OthersSame(z, u, p) /\ z.panic
        BY <2>6, <4>1, PanicLeave DEF PagesLeave
      <4> QED
        BY <2>6, <4>2 DEF Underway, OthersSame
    <3>2. CASE Low \notin old
      <4>1. z = kfree(u, old)
        BY <3>2
      <4>2. old = X
        BY <1>5, <3>2 DEF OldFrames
      <4>3. X \in SUBSET Frame
        BY <2>6 DEF Owned
      <4> HIDE DEF z, X
      <4>4. z \in Memory /\ z.proc = u.proc /\ z.free = u.free \cup X /\ z.panic = u.panic
        BY <2>6, <4>1, <4>2, <4>3, kfreeTypes
      <4>5. Owned(z, {})
        BY <2>6, <4>4, FramesReturned
      <4> QED
        BY <2>6, <4>4, <4>5 DEF Underway, OthersSame
    <3> QED
      BY <3>1, <3>2
  <2> HIDE DEF z
  <2>8. sz' \in [Procs -> 0 .. NPages] /\ image' \in 1 .. NPages
    BY <1>3, <2>2 DEF PagingInv
  <2> QED
    BY <1>1, <1>7, <2>4, <2>7, <2>8, CallKeeps
<1> QED
  BY <1>8, <1>9

\* exec fails after k pages: it gives back the frames it took, and no others.
LEMMA execFailsKeeps ==
    ASSUME PagingInv, NEW p \in Procs, NEW k \in 0 .. NPages, execFails(p, k)
    PROVE  PagingInv'
<1> DEFINE x == Load(m, p, k)
           N == FramesOf(x.new)
<1>1. /\ Runs(p) /\ sz' = sz /\ state' = state /\ image' = image
      /\ \E t \in {x.mem, IF x.mem.panic THEN x.mem ELSE makeRoom(x.mem, p)} :
            LET s == IF t.panic THEN t ELSE kfree(t, N) IN Becomes(s) /\ MayFlush(p, s)
  BY DEF execFails
<1>2. m \in Memory /\ m.panic = FALSE /\ Owned(m, {})
  BY <1>1, RunsIn
<1>3. k \in Nat /\ k <= NPages
  BY PagingAssumption
<1>4. Loading(x, m, p, k)
  BY <1>2, <1>3, LoadKeeps
<1> HIDE DEF x
<1>5. x.mem \in Memory /\ OthersSame(x.mem, m, p) /\ (x.mem.panic = FALSE => Owned(x.mem, N))
  BY <1>4 DEF Loading
<1>6. N \in SUBSET Frame
  BY <1>4 DEF Loading, FramesOf
<1> DEFINE w == IF x.mem.panic THEN x.mem ELSE makeRoom(x.mem, p)
<1>7. w \in Memory /\ OthersSame(w, m, p) /\ (w.panic = FALSE => Owned(w, N))
  <2>1. CASE x.mem.panic
    BY <1>5, <2>1
  <2>2. CASE ~x.mem.panic
    <3>1. PagesLeave(w, x.mem, p)
      BY <1>5, <2>2, makeRoomLeaves
    <3>2. x.mem.panic = FALSE
      BY <1>5, <2>2 DEF Memory
    <3> HIDE DEF w
    <3> QED
      BY <1>5, <3>1, <3>2 DEF PagesLeave, OthersSame
  <2> QED
    BY <2>1, <2>2
<1>8. PICK t \in {x.mem, w} :
         LET s == IF t.panic THEN t ELSE kfree(t, N) IN Becomes(s) /\ MayFlush(p, s)
  BY <1>1
<1> HIDE DEF w
<1>9. t \in Memory /\ OthersSame(t, m, p) /\ (t.panic = FALSE => Owned(t, N))
  BY <1>5, <1>7
<1> DEFINE s == IF t.panic THEN t ELSE kfree(t, N)
<1>10. Becomes(s) /\ MayFlush(p, s)
  BY <1>8
<1>11. Underway(s, m, p, {})
  <2>1. CASE t.panic
    BY <1>9, <2>1 DEF Underway
  <2>2. CASE ~t.panic
    <3>1. t.panic = FALSE /\ s = kfree(t, N)
      BY <1>9, <2>2 DEF Memory
    <3> HIDE DEF s, N
    <3>2. s \in Memory /\ s.proc = t.proc /\ s.free = t.free \cup N /\ s.panic = t.panic
      BY <1>6, <1>9, <3>1, kfreeTypes
    <3>3. Owned(s, {})
      BY <1>9, <3>1, <3>2, FramesReturned
    <3> QED
      BY <1>9, <3>2, <3>3 DEF Underway, OthersSame
  <2> QED
    BY <2>1, <2>2
<1> HIDE DEF s
<1>12. tlb' \subseteq Translations
  BY <1>10, MayFlushTypes
<1>13. sz' \in [Procs -> 0 .. NPages] /\ state' \in [Procs -> {"unused", "user", "dead"}] /\ image' \in 1 .. NPages
  BY <1>1 DEF PagingInv
<1> QED
  BY <1>1, <1>10, <1>11, <1>12, <1>13, CallKeeps

\* As many ranks as a set of numbers has elements.
LEMMA Ranks ==
    ASSUME NEW S \in SUBSET Nat, IsFiniteSet(S), NEW n \in Nat, n < Cardinality(S)
    PROVE  \E f \in S : Cardinality({g \in S : g < f}) = n
<1> DEFINE B == {j \in Nat : j < Cardinality(S) /\ ~\E f \in S : Cardinality({g \in S : g < f}) = j}
<1>1. SUFFICES B = {}
  OBVIOUS
<1> SUFFICES ASSUME B # {} PROVE FALSE
  OBVIOUS
<1>2. PICK i \in B : \A j \in B : i <= j
  BY LeastElement
<1>3. i \in Nat /\ i < Cardinality(S) /\ ~\E f \in S : Cardinality({g \in S : g < f}) = i
  OBVIOUS
<1>4. Cardinality(S) \in Nat
  BY FS_CardinalityType
\* the i elements below the one looked for
<1>5. \E T \in SUBSET S : Cardinality(T) = i /\ IsFiniteSet(T) /\ \A x \in T, y \in S \ T : x < y
  <2>1. CASE i = 0
    <3>1. Cardinality({}) = 0 /\ IsFiniteSet({})
      BY FS_EmptySet
    <3> QED
      BY <2>1, <3>1
  <2>2. CASE i # 0
    <3>1. i - 1 \in Nat /\ i - 1 < Cardinality(S) /\ ~(i <= i - 1)
      BY <1>3, <1>4, <2>2
    <3>2. i - 1 \notin B
      BY <1>2, <3>1
    <3>3. PICK f \in S : Cardinality({g \in S : g < f}) = i - 1
      BY <3>1, <3>2
    <3> DEFINE L == {g \in S : g < f}
               T == L \cup {f}
    <3>4. L \in SUBSET S /\ f \notin L
      OBVIOUS
    <3>5. IsFiniteSet(L)
      BY <3>4, FS_Subset
    <3>6. \A x \in T, y \in S \ T : x < y
      OBVIOUS
    <3>7. T \in SUBSET S /\ Cardinality(L) = i - 1
      BY <3>3
    <3> HIDE DEF L
    <3>8. IsFiniteSet(T) /\ Cardinality(T) = Cardinality(L) + 1
      BY <3>4, <3>5, FS_AddElement
    <3>9. Cardinality(T) = i
      BY <1>3, <3>7, <3>8
    <3> QED
      BY <3>6, <3>7, <3>8, <3>9
  <2> QED
    BY <2>1, <2>2
<1>6. PICK T \in SUBSET S : Cardinality(T) = i /\ IsFiniteSet(T) /\ \A x \in T, y \in S \ T : x < y
  BY <1>5
<1>7. S \ T # {}
  <2>1. T # S
    BY <1>3, <1>4, <1>6
  <2> QED
    BY <2>1
<1>8. PICK f \in S \ T : \A g \in S \ T : f <= g
  <2>1. S \ T \in SUBSET Nat
    OBVIOUS
  <2> QED
    BY <1>7, <2>1, LeastElement
<1>9. {g \in S : g < f} = T
  <2>1. ASSUME NEW g \in S PROVE g < f <=> g \in T
    <3>1. g \in Nat /\ f \in Nat
      OBVIOUS
    <3>2. CASE g \in T
      BY <1>6, <3>2
    <3>3. CASE g \notin T
      <4>1. f <= g
        BY <1>8, <3>3
      <4> QED
        BY <3>1, <3>3, <4>1
    <3> QED
      BY <3>2, <3>3
  <2> QED
    BY <2>1
<1> QED
  BY <1>3, <1>6, <1>9

\* fork: the pages of the parent are copied to as many free frames.
LEMMA copyuvmKeeps ==
    ASSUME NEW s \in Memory, Owned(s, {}), NEW n \in 0 .. NPages,
           \A a \in Page : ~HasFrame(s, Child, a)
    PROVE  LET t == copyuvm(s, n) IN t \in Memory /\ t.panic = s.panic /\ Owned(t, {})
<1> DEFINE A == 0 .. n - 1
           new == [a \in A |-> CHOOSE f \in s.free : Cardinality({g \in s.free : g < f}) = a]
           from(f) == CHOOSE a \in A : new[a] = f
           pte == [a \in Page |-> IF a < n THEN Present(new[a]) ELSE NoPte]
           r == [s.proc[Parent] EXCEPT !.pte = pte]
           R == Range(new)
           ram == [f \in Physical |-> IF f \in R THEN s.ram[s.proc[Parent].pte[from(f)].f] ELSE s.ram[f]]
           u == [s EXCEPT !.proc[Child] = r]
           free == s.free \ R
           t == [u EXCEPT !.free = free, !.ram = ram]
<1>1. copyuvm(s, n) = t
  BY DEF copyuvm, Memory
<1>2. A \subseteq Page /\ (\A a \in Page : a < n <=> a \in A) /\ n \in Nat /\ NPages \in Nat \ {0}
  BY PagingAssumption DEF Page
<1>3. s.free \in SUBSET Nat /\ s.free \subseteq Frame /\ IsFiniteSet(s.free) /\ n < Cardinality(s.free)
  <2>1. /\ IsFiniteSet(s.free) /\ Cardinality(s.free) \in Nat
        /\ NFrames <= Cardinality(s.free) + Cardinality({})
                      + Cardinality(PagesOf(s, Parent)) + Cardinality(PagesOf(s, Child))
    BY FreeFrames
  <2>2. PagesOf(s, Child) = {}
    BY DEF PagesOf
  <2>3. Cardinality({}) = 0
    BY FS_EmptySet
  <2>4. Cardinality(PagesOf(s, Parent)) \in Nat /\ Cardinality(PagesOf(s, Parent)) <= NPages
    BY FramesInBounded
  <2>5. 3 * NPages <= NFrames /\ NFrames \in Nat
    BY PagingAssumption
  <2>6. n < Cardinality(s.free)
    BY <1>2, <2>1, <2>2, <2>3, <2>4, <2>5
  <2> QED
    BY <2>1, <2>6, PagingSorts, HasTypes
<1>4. ASSUME NEW a \in A PROVE new[a] \in s.free /\ Cardinality({g \in s.free : g < new[a]}) = a
  <2>1. a \in Nat /\ a < Cardinality(s.free)
    <3>1. a \in Nat /\ a < n
      BY <1>2
    <3>2. Cardinality(s.free) \in Nat
      BY <1>3, FS_CardinalityType
    <3> QED
      BY <1>2, <1>3, <3>1, <3>2
  <2>2. \E f \in s.free : Cardinality({g \in s.free : g < f}) = a
    BY <1>3, <2>1, Ranks
  <2>3. new[a] = CHOOSE f \in s.free : Cardinality({g \in s.free : g < f}) = a
    OBVIOUS
  <2> HIDE DEF new
  <2> QED
    BY <2>2, <2>3
<1>5. \A a, b \in A : new[a] = new[b] => a = b
  <2> HIDE DEF new
  <2>1. ASSUME NEW a \in A, NEW b \in A, new[a] = new[b] PROVE a = b
    <3>1. Cardinality({g \in s.free : g < new[a]}) = a /\ Cardinality({g \in s.free : g < new[b]}) = b
      BY <1>4
    <3> QED
      BY <2>1, <3>1
  <2> QED
    BY <2>1
<1>6. \A f : f \in R <=> \E a \in A : new[a] = f
  BY DEF Range
<1> HIDE DEF new
<1>7. R \subseteq s.free
  BY <1>4, <1>6
<1>8. \A f \in R : from(f) \in A
  BY <1>6
<1> HIDE DEF R, from
<1>9. pte \in [Page -> Pte] /\ \A a \in Page : pte[a] = IF a \in A THEN Present(new[a]) ELSE NoPte
  BY <1>2, <1>3, <1>4, PteSays, PagingSorts
<1> HIDE DEF pte
<1>10. s.proc[Parent] \in PagedProc
  BY PagingSorts DEF Memory
<1>11. r \in PagedProc /\ r.pte = pte
  BY <1>9, <1>10 DEF PagedProc
<1> HIDE DEF r
<1>12. /\ u \in Memory /\ u.proc[Child] = r /\ \A q \in Procs \ {Child} : u.proc[q] = s.proc[q]
       /\ u.free = s.free /\ u.panic = s.panic
  BY <1>11, PagingSorts, OneProcChanges
<1> HIDE DEF u
<1>13. ram \in [Physical -> Content]
  <2>1. ASSUME NEW f \in R PROVE s.ram[s.proc[Parent].pte[from(f)].f] \in Content
    <3>1. from(f) \in Page
      BY <1>2, <1>8
    <3>2. s.proc[Parent].pte[from(f)].f \in Physical
      BY <3>1, PagingSorts, HasTypes DEF FrameOf
    <3> QED
      BY <3>2 DEF Memory
  <2>2. \A f \in Physical : s.ram[f] \in Content
    BY DEF Memory
  <2> QED
    BY <2>1, <2>2
<1>14. free \in SUBSET Frame /\ free = s.free \ R
  BY <1>3
<1> HIDE DEF ram, free
<1>15. t \in Memory /\ t.proc = u.proc /\ t.free = free /\ t.panic = s.panic
  BY <1>12, <1>13, <1>14 DEF Memory
<1> HIDE DEF t
<1>16. \A a \in Page : /\ HasFrame(t, Child, a) <=> a \in A
                       /\ a \in A => FrameOf(t, Child, a) = new[a]
  BY <1>9, <1>11, <1>12, <1>15, PteSays DEF HasFrame, FrameOf
<1>17. \A q \in Procs, a \in Page : q # Child => HasFrame(t, q, a) = HasFrame(s, q, a) /\ FrameOf(t, q, a) = FrameOf(s, q, a)
  BY <1>12, <1>15 DEF HasFrame, FrameOf
<1>18. Owned(t, {})
  <2>1. ASSUME NEW p \in Procs, NEW q \in Procs, NEW a \in Page, NEW b \in Page,
               HasFrame(t, p, a), HasFrame(t, q, b), FrameOf(t, p, a) = FrameOf(t, q, b), FrameOf(t, p, a) \in Frame
        PROVE  p = q /\ a = b
    <3>1. CASE p = Child /\ q = Child
      <4>1. a \in A /\ b \in A /\ new[a] = new[b]
        BY <1>16, <2>1, <3>1
      <4> QED
        BY <1>5, <3>1, <4>1
    <3>2. CASE p # Child /\ q # Child
      <4>1. HasFrame(s, p, a) /\ HasFrame(s, q, b) /\ FrameOf(s, p, a) = FrameOf(s, q, b) /\ FrameOf(s, p, a) \in Frame
        BY <1>17, <2>1, <3>2
      <4> QED
        BY <4>1 DEF Owned
    <3>3. CASE p = Child /\ q # Child
      <4>1. FrameOf(t, p, a) \in s.free
        BY <1>4, <1>16, <2>1, <3>3
      <4>2. FrameOf(t, q, b) \notin s.free
        BY <1>17, <2>1, <3>3 DEF Owned
      <4> QED
        BY <2>1, <4>1, <4>2
    <3>4. CASE p # Child /\ q = Child
      <4>1. FrameOf(t, q, b) \in s.free
        BY <1>4, <1>16, <2>1, <3>4
      <4>2. FrameOf(t, p, a) \notin s.free
        BY <1>17, <2>1, <3>4 DEF Owned
      <4> QED
        BY <2>1, <4>1, <4>2
    <3> QED
      BY <3>1, <3>2, <3>3, <3>4
  <2>2. ASSUME NEW p \in Procs, NEW a \in Page, HasFrame(t, p, a) PROVE FrameOf(t, p, a) \notin t.free \cup {}
    <3>1. CASE p = Child
      <4>1. a \in A /\ FrameOf(t, p, a) = new[a]
        BY <1>16, <2>2, <3>1
      <4> QED
        BY <1>6, <1>14, <1>15, <4>1
    <3>2. CASE p # Child
      <4>1. FrameOf(t, p, a) \notin s.free
        BY <1>17, <2>2, <3>2 DEF Owned
      <4> QED
        BY <1>14, <1>15, <4>1
    <3> QED
      BY <3>1, <3>2
  <2>3. ASSUME NEW f \in Frame
        PROVE  f \in t.free \cup {} \/ \E p \in Procs, a \in Page : HasFrame(t, p, a) /\ FrameOf(t, p, a) = f
    <3>1. CASE f \in R
      <4>1. PICK a \in A : new[a] = f
        BY <1>6, <3>1
      <4> QED
        BY <1>2, <1>16, <4>1, PagingSorts
    <3>2. CASE f \in s.free /\ f \notin R
      BY <1>14, <1>15, <3>2
    <3>3. CASE f \notin s.free
      <4>1. PICK p \in Procs, a \in Page : HasFrame(s, p, a) /\ FrameOf(s, p, a) = f
        BY <3>3 DEF Owned
      <4>2. p # Child
        BY <4>1
      <4> QED
        BY <1>17, <4>1, <4>2
    <3> QED
      BY <3>1, <3>2, <3>3
  <2> QED
    BY <2>1, <2>2, <2>3 DEF Owned
<1> QED
  BY <1>1, <1>15, <1>18

\* fork, and the panic over a page in the swap file.
LEMMA forkKeeps ==
    ASSUME PagingInv, fork
    PROVE  PagingInv'
<1> DEFINE n == sz[Parent]
           t == copyuvm(m, n)
<1>1. /\ Runs(Parent) /\ state[Child] = "unused"
      /\ sz' = [sz EXCEPT ![Child] = sz[Parent]] /\ state' = [state EXCEPT ![Child] = "user"]
      /\ Becomes(t) \/ (m' = m /\ panicked' = TRUE)
      /\ image' = image /\ tlb' \subseteq tlb
  BY DEF fork
<1>2. m \in Memory /\ m.panic = FALSE /\ Owned(m, {}) /\ panicked = FALSE
  BY <1>1, PagingSorts, RunsIn
<1>3. /\ sz' \in [Procs -> 0 .. NPages] /\ state' \in [Procs -> {"unused", "user", "dead"}]
      /\ n \in 0 .. NPages /\ state'[Child] = "user" /\ image' \in 1 .. NPages /\ tlb' \subseteq Translations
  BY <1>1, PagingSorts DEF PagingInv
<1>4. CASE m' = m /\ panicked' = TRUE
  BY <1>2, <1>3, <1>4 DEF PagingInv
<1>5. CASE Becomes(t)
  <2>1. \A a \in Page : ~HasFrame(m, Child, a)
    BY <1>1, <1>2 DEF PagingInv
  <2>2. t \in Memory /\ Owned(t, {})
    BY <1>2, <1>3, <2>1, copyuvmKeeps
  <2>3. /\ m' \in Memory /\ panicked' \in BOOLEAN
        /\ panicked' = FALSE => m'.panic = FALSE /\ Owned(m', {})
    BY <1>5, <2>2, BecomesKeeps
  <2> QED
    BY <1>3, <2>3 DEF PagingInv
<1> QED
  BY <1>1, <1>4, <1>5

\* Memory before the first process: all frames are free.
NoProcesses == [proc |-> [p \in Procs |-> NoMeta], free |-> Frame, ram |-> [f \in Physical |-> Junk],
                panic |-> FALSE, null |-> FALSE]
LEMMA NoProcessesOwned ==
    /\ NoProcesses \in Memory /\ NoProcesses.panic = FALSE /\ Owned(NoProcesses, {})
    /\ \A q \in Procs, a \in Page : ~HasFrame(NoProcesses, q, a)
<1> DEFINE s == NoProcesses
<1>1. /\ NoTable \in [Page -> Pte] /\ [i \in Slots |-> FreeEntry] \in [Slots -> ListEntry] /\ Null \in Pointer
      /\ 0 \in Int /\ [i \in Slots |-> FreeSlot] \in [Slots -> SwapSlot]
      /\ [i \in Slots |-> Zero] \in [Slots -> Content]
  BY PteSays, PagingSorts DEF NoTable, FreeEntry, ListEntry, FreeSlot, SwapSlot
<1>2. NoMeta \in PagedProc /\ NoMeta.pte = NoTable
  BY <1>1 DEF PagedProc, NoMeta
<1>3. s \in Memory /\ s.panic = FALSE /\ s.free = Frame /\ \A q \in Procs : s.proc[q].pte = NoTable
  BY <1>2, PagingSorts DEF NoProcesses, Memory
<1>4. \A q \in Procs, a \in Page : ~HasFrame(s, q, a)
  BY <1>3, PteSays DEF HasFrame, NoTable
<1>5. Owned(s, {})
  BY <1>3, <1>4 DEF Owned
<1> QED
  BY <1>3, <1>4, <1>5

\* The first process is loaded into memory that is free.
LEMMA PagingInit ==
    ASSUME Init
    PROVE  PagingInv
<1> DEFINE s == NoProcesses
           x == Load(s, Parent, Image)
<1>1. PICK content \in [0 .. Image - 1 -> Value] :
         m = [x.mem EXCEPT !.proc[Parent].pte = x.new,
                           !.ram = [f \in Physical |-> IF f \in 1 .. Image THEN content[f - 1] ELSE x.mem.ram[f]]]
  BY DEF Init, NoProcesses
<1>2. s \in Memory /\ s.panic = FALSE /\ Owned(s, {}) /\ \A q \in Procs, a \in Page : ~HasFrame(s, q, a)
  BY NoProcessesOwned
<1> HIDE DEF s
<1>3. Image \in Nat /\ Image <= NPages /\ Image <= MAX_PSYC_PAGES
  BY PagingAssumption
<1>4. Loading(x, s, Parent, Image) /\ ~x.mem.panic
  BY <1>2, <1>3, LoadQueues DEF LoadedQueue
<1> HIDE DEF x
<1>5. x.mem \in Memory /\ x.mem.panic = FALSE
  BY <1>4 DEF Loading, Memory
<1> DEFINE ram == [f \in Physical |-> IF f \in 1 .. Image THEN content[f - 1] ELSE x.mem.ram[f]]
<1>6. ram \in [Physical -> Content]
  <2>1. ASSUME NEW f \in Physical, f \in 1 .. Image PROVE content[f - 1] \in Value
    <3>1. f - 1 \in 0 .. Image - 1
      BY <2>1, PagingAssumption
    <3> QED
      BY <3>1
  <2>2. \A f \in Physical : x.mem.ram[f] \in Content
    BY <1>5 DEF Memory
  <2> QED
    BY <2>1, <2>2 DEF Content
<1>7. m = Taken(x, Parent, ram)
  BY <1>1 DEF Taken
<1> HIDE DEF ram
<1>8. m \in Memory /\ OthersSame(m, s, Parent) /\ m.panic = FALSE /\ Owned(m, OldFrames(x.mem, Parent))
  <2>1. Parent \in Procs
    BY PagingSorts
  <2> QED
    BY <1>2, <1>4, <1>5, <1>6, <1>7, <2>1, TableTaken
<1>9. OldFrames(x.mem, Parent) = {}
  BY <1>2, <1>4, PagingSorts DEF OldFrames, FramesIn, PagesOf, Loading
<1>10. \A a \in Page : ~HasFrame(m, Child, a)
  <2>1. m.proc[Child].pte = s.proc[Child].pte
    BY <1>8, PagingSorts DEF OthersSame
  <2> QED
    BY <1>2, <2>1, PagingSorts DEF HasFrame
<1>11. /\ panicked = FALSE /\ sz \in [Procs -> 0 .. NPages] /\ state \in [Procs -> {"unused", "user", "dead"}]
       /\ tlb = {} /\ image \in 1 .. NPages
  <2>1. Image \in 0 .. NPages /\ 0 \in 0 .. NPages /\ Image \in 1 .. NPages
    BY PagingAssumption
  <2> QED
    BY <2>1 DEF Init
<1> QED
  BY <1>8, <1>9, <1>10, <1>11 DEF PagingInv

\* The inductive invariant of demand paging.
THEOREM PagingInvariant == Spec => []PagingInv
<1>1. Init => PagingInv
  BY PagingInit
<1>2. PagingInv /\ [Next]_vars => PagingInv'
  <2> SUFFICES ASSUME PagingInv, [Next]_vars PROVE PagingInv'
    OBVIOUS
  <2>1. CASE UNCHANGED vars
    <3>1. m' = m /\ panicked' = panicked /\ sz' = sz /\ state' = state /\ tlb' = tlb /\ image' = image
      BY <2>1 DEF vars
    <3> QED
      BY <3>1 DEF PagingInv
  <2>2. ASSUME NEW p \in Procs, NEW n \in 1 .. MaxGrow, Shrink(p, n) PROVE PagingInv'
    BY <2>2, ShrinkKeeps
  <2>3. ASSUME NEW p \in Procs, NEW n \in 1 .. MaxGrow, NEW k \in 0 .. n, Grow(p, n, k) PROVE PagingInv'
    BY <2>3, GrowKeeps
  <2>4. ASSUME NEW p \in Procs, NEW a \in Page, PageFault(p, a) PROVE PagingInv'
    BY <2>4, PageFaultKeeps
  <2>5. ASSUME NEW p \in Procs, NEW a \in Page, NEW v \in Value, Write(p, a, v) PROVE PagingInv'
    BY <2>5, WriteKeeps
  <2>6. ASSUME NEW p \in Procs, NEW n \in Images, exec(p, n) PROVE PagingInv'
    BY <2>6, execKeeps
  <2>7. ASSUME NEW p \in Procs, NEW n \in Images, NEW k \in 0 .. n, execFails(p, k) PROVE PagingInv'
    <3>1. k \in 0 .. NPages
      BY PagingAssumption
    <3> QED
      BY <2>7, <3>1, execFailsKeeps
  <2>8. ASSUME NEW p \in Procs, exit(p) PROVE PagingInv'
    BY <2>8, exitKeeps
  <2>9. CASE fork
    BY <2>9, forkKeeps
  <2> QED
    BY <2>1, <2>2, <2>3, <2>4, <2>5, <2>6, <2>7, <2>8, <2>9 DEF Next
<1> QED
  BY <1>1, <1>2, PTL DEF Spec

\* Every frame is free or belongs to one page of one process until the kernel panics.
THEOREM FramesAlwaysOwned == Spec => []FramesOwned
<1>1. PagingInv => FramesOwned
  <2> SUFFICES ASSUME PagingInv, ~panicked, NEW f \in Frame
               PROVE  Cardinality(Owners(f)) = (IF f \in m.free THEN 0 ELSE 1)
    BY DEF FramesOwned
  <2>1. Owned(m, {})
    BY DEF PagingInv
  <2>2. \A x : x \in Owners(f) <=> x \in Procs \X Page /\ HasFrame(m, x[1], x[2]) /\ FrameOf(m, x[1], x[2]) = f
    BY DEF Owners, HasFrame, FrameOf
  <2>3. CASE f \in m.free
    <3>1. \A p \in Procs, a \in Page : HasFrame(m, p, a) => FrameOf(m, p, a) # f
      BY <2>1, <2>3 DEF Owned
    <3>2. Owners(f) = {}
      BY <2>2, <3>1
    <3> QED
      BY <2>3, <3>2, FS_EmptySet
  <2>4. CASE f \notin m.free
    <3>1. PICK p \in Procs, a \in Page : HasFrame(m, p, a) /\ FrameOf(m, p, a) = f
      BY <2>1, <2>4 DEF Owned
    <3>2. <<p, a>> \in Owners(f)
      BY <2>2, <3>1
    <3>3. ASSUME NEW x \in Owners(f) PROVE x = <<p, a>>
      <4>1. PICK q \in Procs, b \in Page : x = <<q, b>>
        BY <2>2
      <4>2. HasFrame(m, q, b) /\ FrameOf(m, q, b) = f
        BY <2>2, <4>1
      <4>3. q = p /\ b = a
        BY <2>1, <3>1, <4>2 DEF Owned
      <4> QED
        BY <4>1, <4>3
    <3>4. Owners(f) = {<<p, a>>}
      BY <3>2, <3>3
    <3> QED
      BY <2>4, <3>4, FS_Singleton
  <2> QED
    BY <2>3, <2>4
<1> QED
  BY <1>1, PagingInvariant, PTL

\* The page tables, the queues, the slots and memory have their types.
THEOREM PagingTypes == Spec => []TypeOK
<1>1. PagingInv => TypeOK
  <2> SUFFICES ASSUME PagingInv PROVE TypeOK
    OBVIOUS
  <2>1. /\ m \in Memory /\ sz \in [Procs -> 0 .. NPages] /\ state \in [Procs -> {"unused", "user", "dead"}]
        /\ tlb \subseteq Procs \X Page \X Physical /\ image \in 1 .. NPages
    BY DEF PagingInv, Translations
  <2>2. Pte \subseteq [p : BOOLEAN, pg : BOOLEAN, f : Physical]
    <3>1. ASSUME NEW pte \in Pte PROVE pte \in [p : BOOLEAN, pg : BOOLEAN, f : Physical]
      <4>1. pte = NoPte \/ pte = Swapped \/ \E f \in Physical : pte = Present(f)
        BY DEF Pte
      <4>2. NoPte \in [p : BOOLEAN, pg : BOOLEAN, f : Physical]
        BY PagingSorts DEF NoPte
      <4>3. Swapped \in [p : BOOLEAN, pg : BOOLEAN, f : Physical]
        BY PagingSorts DEF Swapped
      <4>4. \A f \in Physical : Present(f) \in [p : BOOLEAN, pg : BOOLEAN, f : Physical]
        BY DEF Present
      <4> QED
        BY <4>1, <4>2, <4>3, <4>4
    <3> QED
      BY <3>1
  <2>3. m.free \subseteq Frame /\ m.ram \in [Physical -> Value \cup {Junk}]
    BY <2>1 DEF Memory, Content
  <2>4. ASSUME NEW p \in Procs
        PROVE  m.proc[p] \in [pte  : [Page -> [p : BOOLEAN, pg : BOOLEAN, f : Physical]],
                              ent  : [Slots -> [address : Page, next : Pointer, in_use : BOOLEAN]],
                              head : Pointer, nPagesInPhyMemory : Int,
                              slot : [Slots -> [in_use : BOOLEAN, address : Page]],
                              file : [Slots -> Value \cup {Junk}]]
    <3>1. m.proc[p] \in PagedProc
      BY <2>1 DEF Memory
    <3>2. [Page -> Pte] \subseteq [Page -> [p : BOOLEAN, pg : BOOLEAN, f : Physical]]
      BY <2>2
    <3> QED
      BY <3>1, <3>2 DEF PagedProc, ListEntry, SwapSlot, Content
  <2> QED
    BY <2>1, <2>3, <2>4 DEF TypeOK
<1> QED
  BY <1>1, PagingInvariant, PTL

-----------------------------------------------------------------------------
(* The limit of the pages in memory, for a process that has not forked. *)

\* What a process may have done.
Tame == {"shrunk", "stale"}
\* There are no more pages in U than the program has beyond the limit.
Excess(U, k) == U = {} \/ Cardinality(U) + MAX_PSYC_PAGES <= k

\* The child has not been started before a fork; and until then, unless an exec has
\* failed, each page in memory has an entry in the queue while the kernel runs, except
\* those that the program had too many when it was loaded.
ResidentInv ==
    /\ "forked" \notin history => state[Child] = "unused"
    /\ history \subseteq Tame =>
          \E U \in SUBSET Page : Excess(U, image) /\ Few(m, U) /\ (panicked = FALSE => QueueInv(m, U))

\* Before a fork the process that runs is the first one.
LEMMA ParentRuns ==
    ASSUME PagingInv, ResidentInv, NEW p \in Procs, Runs(p), "forked" \notin history
    PROVE  p = Parent
<1>1. state[p] = "user" /\ state[Child] = "unused"
  BY RunsIn DEF ResidentInv
<1> QED
  BY <1>1 DEF Procs

\* After a fork nothing is claimed.
LEMMA ForkedKeeps ==
    ASSUME "forked" \in history'
    PROVE  ResidentInv'
  BY DEF ResidentInv, Tame

\* The state at the end of a system call or of a fault of the first process.
LEMMA CallWithin ==
    ASSUME PagingInv, ResidentInv, NEW p \in Procs, Runs(p), NEW t \in Memory, Becomes(t),
           "forked" \in history => "forked" \in history',
           \A q \in Procs \ {p} : state'[q] = state[q],
           p = Parent /\ history' \subseteq Tame => \E U \in SUBSET Page : Excess(U, image') /\ Within(t, U)
    PROVE  ResidentInv'
<1>1. CASE "forked" \in history
  BY <1>1, ForkedKeeps
<1>2. CASE "forked" \notin history
  <2>1. p = Parent /\ state'[Child] = "unused"
    BY <1>2, PagingSorts, ParentRuns DEF ResidentInv
  <2>2. m' = [t EXCEPT !.null = FALSE] /\ (panicked' = FALSE => t.panic = FALSE)
    <3>1. t.panic \in BOOLEAN
      BY DEF Memory
    <3> QED
      BY <3>1 DEF Becomes
  <2>3. SameQueue(m', t) /\ \A b \in Page : HasFrame(m', Parent, b) = HasFrame(t, Parent, b)
    BY <2>2 DEF Memory, SameQueue, HasFrame
  <2>4. ASSUME NEW U \in SUBSET Page, Within(t, U) PROVE Few(m', U) /\ (panicked' = FALSE => QueueInv(m', U))
    BY <2>2, <2>3, <2>4, FewerPages, SameQueueKeeps DEF Within
  <2> QED
    BY <2>1, <2>4 DEF ResidentInv
<1> QED
  BY <1>1, <1>2

\* What the first process finds: its queue in order.
LEMMA QueueInOrder ==
    ASSUME PagingInv, ResidentInv, NEW p \in Procs, Runs(p), history \subseteq Tame
    PROVE  /\ m \in Memory /\ m.panic = FALSE /\ Owned(m, {})
           /\ \E U \in SUBSET Page : Excess(U, image) /\ QueueInv(m, U) /\ Within(m, U)
<1>1. m \in Memory /\ m.panic = FALSE /\ Owned(m, {}) /\ panicked = FALSE
  BY RunsIn
<1> QED
  BY <1>1 DEF ResidentInv, Within

\* sbrk with n > 0.
LEMMA GrowWithin ==
    ASSUME PagingInv, ResidentInv, NEW p \in Procs, NEW n \in 1 .. MaxGrow, NEW k \in 0 .. n, Grow(p, n, k)
    PROVE  ResidentInv'
<1> DEFINE from == sz[p]
           t == allocuvm(m, p, from, from + n, from + k)
<1>1. /\ Runs(p) /\ from + n <= NPages /\ Becomes(t) /\ state' = state /\ image' = image
      /\ history' = history \/ history' = history \cup {"shrunk"}
  BY DEF Grow, GivesBack
<1>2. /\ from \in Nat /\ from + n \in Nat /\ from + k \in Nat
      /\ from <= from + k /\ from + k <= from + n
  <2>1. from \in 0 .. NPages /\ NPages \in Nat /\ MaxGrow \in Nat
    BY PagingAssumption DEF PagingInv
  <2> QED
    BY <2>1
<1>3. m \in Memory /\ m.panic = FALSE /\ Owned(m, {})
  BY <1>1, RunsIn
<1> HIDE DEF from
<1>4. t \in Memory
  BY <1>1, <1>2, <1>3, allocuvmKeeps DEF Underway
<1>5. ASSUME p = Parent, history' \subseteq Tame PROVE \E U \in SUBSET Page : Excess(U, image') /\ Within(t, U)
  <2>1. PICK U \in SUBSET Page : Excess(U, image) /\ QueueInv(m, U)
    BY <1>1, <1>5, QueueInOrder
  <2>2. Within(t, U)
    BY <1>1, <1>2, <1>3, <1>5, <2>1, allocuvmWithin
  <2> QED
    BY <1>1, <2>1, <2>2
<1> HIDE DEF t
<1> QED
  BY <1>1, <1>4, <1>5, CallWithin

\* sbrk with n < 0.
LEMMA ShrinkWithin ==
    ASSUME PagingInv, ResidentInv, NEW p \in Procs, NEW n \in 1 .. MaxGrow, Shrink(p, n)
    PROVE  ResidentInv'
<1> DEFINE from == sz[p] - n
           to == sz[p]
           t == deallocuvm(m, p, from, to)
<1>1. Runs(p) /\ n <= sz[p] /\ Becomes(t) /\ state' = state /\ image' = image /\ history' = history \cup {"shrunk"}
  BY DEF Shrink, GivesBack
<1>2. from \in Int /\ to \in Int /\ from >= 0 /\ to <= NPages
  <2>1. sz[p] \in 0 .. NPages /\ NPages \in Nat /\ MaxGrow \in Nat
    BY PagingAssumption DEF PagingInv
  <2> QED
    BY <1>1, <2>1
<1>3. m \in Memory
  BY DEF PagingInv
<1> HIDE DEF from, to
<1>4. t \in Memory
  BY <1>2, <1>3, deallocuvmLeaves DEF PagesLeave
<1>5. ASSUME p = Parent, history' \subseteq Tame PROVE \E U \in SUBSET Page : Excess(U, image') /\ Within(t, U)
  <2>1. PICK U \in SUBSET Page : Excess(U, image) /\ Within(m, U)
    BY <1>1, <1>5, QueueInOrder
  <2>2. Within(t, U)
    BY <1>2, <1>3, <1>5, <2>1, deallocuvmWithin
  <2> QED
    BY <1>1, <2>1, <2>2
<1> HIDE DEF t
<1> QED
  BY <1>1, <1>4, <1>5, CallWithin

\* The process writes to a page, or to the frame that a page has left.
LEMMA WriteWithin ==
    ASSUME PagingInv, ResidentInv, NEW p \in Procs, NEW a \in Page, NEW v \in Value, Write(p, a, v)
    PROVE  ResidentInv'
<1>1. PICK f \in Physical : m' = [m EXCEPT !.ram[f] = v]
  BY DEF Write
<1>2. /\ Runs(p) /\ state' = state /\ image' = image
      /\ history' = history \/ history' = history \cup {"stale"}
  BY DEF Write, GivesBack
<1>3. m \in Memory /\ panicked = FALSE
  BY <1>2, RunsIn
<1>4. SameQueue(m', m) /\ \A b \in Page : HasFrame(m', Parent, b) = HasFrame(m, Parent, b)
  BY <1>1, <1>3 DEF Memory, SameQueue, HasFrame
<1>5. \A U \in SUBSET Page : (Few(m, U) => Few(m', U)) /\ (QueueInv(m, U) => QueueInv(m', U))
  BY <1>4, FewerPages, SameQueueKeeps
<1>6. ASSUME history' \subseteq Tame
      PROVE  \E U \in SUBSET Page : Excess(U, image') /\ Few(m', U) /\ QueueInv(m', U)
  <2>1. PICK U \in SUBSET Page : Excess(U, image) /\ Few(m, U) /\ QueueInv(m, U)
    BY <1>2, <1>3, <1>6 DEF ResidentInv
  <2> QED
    BY <1>2, <1>5, <2>1
<1>7. "forked" \notin history' => "forked" \notin history
  BY <1>2
<1> QED
  BY <1>2, <1>6, <1>7 DEF ResidentInv

\* A page fault: one page leaves, and another exchanges its place with the one wanted.
LEMMA PageFaultWithin ==
    ASSUME PagingInv, ResidentInv, NEW p \in Procs, NEW a \in Page, PageFault(p, a)
    PROVE  ResidentInv'
<1> DEFINE u == swapPageOut(m, p)
           t == swapPageIn(u, p, a)
<1>1. Runs(p) /\ m.proc[p].pte[a].pg /\ Becomes(t) /\ state' = state /\ image' = image /\ history' = history
  BY DEF PageFault
<1>2. m \in Memory /\ m.panic = FALSE
  BY <1>1, RunsIn
<1>3. ~HasFrame(m, p, a)
  <2>1. m.proc[p].pte[a] \in Pte
    BY <1>2, HasTypes
  <2> QED
    BY <1>1, <2>1, PteSays DEF HasFrame
<1>4. PagesLeave(u, m, p)
  BY <1>2, swapPageOutLeaves
<1>5. ASSUME p = Parent, history \subseteq Tame PROVE \E U \in SUBSET Page : Excess(U, image) /\ Within(u, U)
  <2>1. PICK U \in SUBSET Page : Excess(U, image) /\ QueueInv(m, U)
    BY <1>1, <1>5, QueueInOrder
  <2>2. Within(u, U)
    BY <1>2, <1>5, <2>1, swapPageOutWithin
  <2> QED
    BY <2>1, <2>2
<1> HIDE DEF u
<1>6. u \in Memory /\ ~HasFrame(u, p, a)
  BY <1>3, <1>4 DEF PagesLeave
<1>7. t \in Memory
  BY <1>6, swapPageInKeeps
<1>8. ASSUME p = Parent, history' \subseteq Tame PROVE \E U \in SUBSET Page : Excess(U, image') /\ Within(t, U)
  <2>1. PICK U \in SUBSET Page : Excess(U, image) /\ Within(u, U)
    BY <1>1, <1>5, <1>8
  <2>2. Within(t, U)
    BY <1>6, <1>8, <2>1, swapPageInWithin
  <2> QED
    BY <1>1, <2>1, <2>2
<1> HIDE DEF t
<1> QED
  BY <1>1, <1>7, <1>8, CallWithin

\* exit frees all pages.
LEMMA exitWithin ==
    ASSUME PagingInv, ResidentInv, NEW p \in Procs, exit(p)
    PROVE  ResidentInv'
<1> DEFINE t == deallocuvm(m, p, 0, NPages)
<1>1. Runs(p) /\ Becomes(t) /\ state' = [state EXCEPT ![p] = "dead"] /\ image' = image /\ history' = history
  BY DEF exit
<1>2. m \in Memory /\ 0 \in Int /\ NPages \in Int /\ 0 >= 0 /\ NPages <= NPages
  BY PagingAssumption DEF PagingInv
<1>3. t \in Memory
  BY <1>2, deallocuvmLeaves DEF PagesLeave
<1>4. ASSUME p = Parent, history' \subseteq Tame PROVE \E U \in SUBSET Page : Excess(U, image') /\ Within(t, U)
  <2>1. PICK U \in SUBSET Page : Excess(U, image) /\ Within(m, U)
    BY <1>1, <1>4, QueueInOrder
  <2>2. Within(t, U)
    BY <1>2, <1>4, <2>1, deallocuvmWithin
  <2> QED
    BY <1>1, <2>1, <2>2
<1>5. \A q \in Procs \ {p} : state'[q] = state[q]
  BY <1>1 DEF PagingInv
<1> HIDE DEF t
<1> QED
  BY <1>1, <1>3, <1>4, <1>5, CallWithin

\* The new table as it is queued: what the queue leaves out is what the limit moved out of
\* the queue while the program was loaded.
LEMMA LoadedWithin ==
    ASSUME NEW s \in Memory, NEW n \in Nat, NEW x, LoadedQueue(x, s, n), ~x.mem.panic, NEW u \in Memory,
           u.proc[Parent] = TakenProc(x, Parent)
    PROVE  \E U \in SUBSET Page : Excess(U, n) /\ QueueInv(u, U) /\ Within(u, U)
<1> DEFINE t == x.mem
           c == t.proc[Parent].nPagesInPhyMemory
<1>1. t \in Memory
  BY DEF LoadedQueue, Loading
<1>2. Chained(t) /\ Counted(t, c) /\ (c = n \/ c = MAX_PSYC_PAGES)
  BY DEF LoadedQueue
<1>3. PICK U \in SUBSET Page :
         /\ Cardinality(U) <= n - c
         /\ \A b \in Page : x.new[b].p => b \in U \/ \E i \in InUse(t) : EntryOf(t, i).address = b
  BY DEF LoadedQueue
<1> HIDE DEF t
<1>4. t.proc[Parent] \in PagedProc
  BY <1>1, PagingSorts DEF Memory
<1>5. u.proc[Parent].pte = x.new /\ SameQueue(u, t)
  BY <1>4 DEF PagedProc, SameQueue, TakenProc, t
<1>6. Chained(u) /\ Counted(u, c) /\ InUse(u) = InUse(t) /\ \A i : EntryOf(u, i) = EntryOf(t, i)
  BY <1>2, <1>5, SameQueueKeeps
<1>7. Covered(u, U)
  <2>1. ASSUME NEW b \in Page, HasFrame(u, Parent, b), b \notin U PROVE \E i \in InUse(u) : EntryOf(u, i).address = b
    <3>1. x.new[b].p
      BY <1>5, <2>1 DEF HasFrame
    <3>2. PICK i \in InUse(t) : EntryOf(t, i).address = b
      BY <1>3, <2>1, <3>1
    <3> QED
      BY <1>6, <3>2
  <2> QED
    BY <2>1 DEF Covered
<1>8. QueueInv(u, U)
  BY <1>5, <1>6, <1>7 DEF QueueInv, SameQueue
<1>9. Within(u, U)
  BY <1>7, <1>8, CoveredFew DEF Within
<1>10. Excess(U, n)
  <2>1. IsFiniteSet(U) /\ Cardinality(U) \in Nat /\ MAX_PSYC_PAGES \in Nat
    BY UncoveredFinite, PagingAssumption
  <2>2. CASE c = n
    <3>1. Cardinality(U) = 0
      BY <1>3, <2>1, <2>2
    <3> QED
      BY <2>1, <3>1, FS_EmptySet DEF Excess
  <2>3. CASE c = MAX_PSYC_PAGES
    BY <1>3, <2>1, <2>3 DEF Excess
  <2> QED
    BY <1>2, <2>2, <2>3
<1> QED
  BY <1>8, <1>9, <1>10

\* exec: the queue is the new image's.
LEMMA execWithin ==
    ASSUME PagingInv, ResidentInv, NEW p \in Procs, NEW n \in Images, exec(p, n)
    PROVE  ResidentInv'
<1> DEFINE x == Load(m, p, n)
           t == x.mem
           old == FramesOf(t.proc[p].pte)
<1>1. Runs(p) /\ state' = state
  BY DEF exec
<1>2. m \in Memory /\ m.panic = FALSE /\ Owned(m, {})
  BY <1>1, RunsIn
<1>3. n \in Nat /\ n <= NPages
  BY PagingAssumption
<1>4. Loading(x, m, p, n)
  BY <1>2, <1>3, LoadKeeps
<1>5. t \in Memory
  BY <1>4 DEF Loading
<1>6. CASE t.panic
  <2>1. Becomes(t) /\ image' = image /\ history' = history
    BY <1>6 DEF exec
  <2> HIDE DEF x
  <2>2. ASSUME p = Parent, history' \subseteq Tame
        PROVE  \E U \in SUBSET Page : Excess(U, image') /\ Within(t, U)
    <3>1. PICK U \in SUBSET Page : Excess(U, image) /\ Within(m, U)
      BY <1>1, <2>1, <2>2, QueueInOrder
    <3>2. \A b \in Page : HasFrame(t, Parent, b) => HasFrame(m, Parent, b)
      BY <1>4, <2>2 DEF Loading
    <3>3. Few(t, U)
      BY <3>1, <3>2, FewerPages DEF Within
    <3> QED
      BY <1>6, <2>1, <3>1, <3>3 DEF Within
  <2> HIDE DEF t
  <2> QED
    BY <1>1, <1>5, <2>1, <2>2, CallWithin
<1>7. CASE ~t.panic
  <2>1. PICK v \in Value :
           LET u == [t EXCEPT !.proc[p].pte = x.new,
                              !.ram = [f \in Physical |-> IF f \in FramesOf(x.new) THEN v ELSE t.ram[f]]]
           IN  Becomes(IF Low \in old THEN Panic(u) ELSE kfree(u, old))
    BY <1>7 DEF exec
  <2>2. image' = (IF p = Parent THEN n ELSE image) /\ history' = history \cap {"forked"}
    BY <1>7 DEF exec
  <2>3. p = Parent => LoadedQueue(x, m, n)
    BY <1>2, <1>3, LoadQueues
  <2>4. \A a \in Page : t.proc[p].pte[a].f \in Physical
    BY <1>5, HasTypes DEF FrameOf
  <2>5. old \subseteq Physical
    BY <2>4 DEF FramesOf
  <2> HIDE DEF x, old
  <2> DEFINE ram == [f \in Physical |-> IF f \in FramesOf(x.new) THEN v ELSE t.ram[f]]
             u == Taken(x, p, ram)
             z == IF Low \in old THEN Panic(u) ELSE kfree(u, old)
  <2>6. ram \in [Physical -> Content]
    BY <1>5 DEF Memory, Content
  <2>7. Becomes(z)
    BY <2>1 DEF Taken
  <2> HIDE DEF ram
  <2>8. t.panic = FALSE
    BY <1>5, <1>7 DEF Memory
  <2>9. u \in Memory /\ u.proc[p] = TakenProc(x, p)
    BY <1>2, <1>4, <2>6, <2>8, TableTaken
  <2> HIDE DEF u
  <2>10. z \in Memory /\ z.proc = u.proc
    <3>1. CASE Low \in old
      BY <2>9, <3>1 DEF Panic, Memory
    <3>2. CASE Low \notin old
      <4>1. old \in SUBSET Frame
        BY <2>5, <3>2 DEF Physical
      <4> QED
        BY <2>9, <3>2, <4>1, kfreeTypes
    <3> QED
      BY <3>1, <3>2
  <2> HIDE DEF z
  <2>11. ASSUME p = Parent PROVE \E U \in SUBSET Page : Excess(U, image') /\ Within(z, U)
    <3>1. z.proc[Parent] = TakenProc(x, Parent)
      BY <2>9, <2>10, <2>11
    <3>2. LoadedQueue(x, m, n) /\ ~x.mem.panic
      BY <1>7, <2>3, <2>11
    <3>3. PICK U \in SUBSET Page : Excess(U, n) /\ Within(z, U)
      BY <1>2, <1>3, <2>10, <3>1, <3>2, LoadedWithin
    <3> QED
      BY <2>2, <2>11, <3>3
  <2> QED
    BY <1>1, <2>2, <2>7, <2>10, <2>11, CallWithin
<1> QED
  BY <1>6, <1>7

\* The first process is queued as exec leaves it.
LEMMA ResidentInit ==
    ASSUME Init
    PROVE  ResidentInv
<1> DEFINE s == NoProcesses
           x == Load(s, Parent, Image)
<1>1. PICK content \in [0 .. Image - 1 -> Value] :
         m = [x.mem EXCEPT !.proc[Parent].pte = x.new,
                           !.ram = [f \in Physical |-> IF f \in 1 .. Image THEN content[f - 1] ELSE x.mem.ram[f]]]
  BY DEF Init, NoProcesses
<1>2. s \in Memory /\ s.panic = FALSE /\ Owned(s, {})
  BY NoProcessesOwned
<1>3. Image \in Nat /\ Image <= NPages /\ Image <= MAX_PSYC_PAGES
  BY PagingAssumption
<1> HIDE DEF s
<1>4. LoadedQueue(x, s, Image) /\ ~x.mem.panic
  BY <1>2, <1>3, LoadQueues DEF LoadedQueue
<1> HIDE DEF x
<1>5. x.mem \in Memory
  BY <1>4 DEF LoadedQueue, Loading
<1>6. m \in Memory
  BY PagingInit DEF PagingInv
<1>7. m.proc[Parent] = TakenProc(x, Parent)
  BY <1>1, <1>5, PagingSorts DEF Memory, TakenProc
<1>8. PICK U \in SUBSET Page : Excess(U, Image) /\ QueueInv(m, U) /\ Within(m, U)
  BY <1>2, <1>3, <1>4, <1>6, <1>7, LoadedWithin
<1>9. state[Child] = "unused" /\ image = Image
  BY PagingSorts DEF Init
<1> QED
  BY <1>8, <1>9 DEF ResidentInv, Within

\* The greater of two numbers.
LEMMA GreaterOfTwo ==
    ASSUME NEW a \in Int, NEW b \in Int
    PROVE  Max({a, b}) \in Int /\ Max({a, b}) >= a /\ Max({a, b}) >= b
<1>1. \E c \in {a, b} : \A d \in {a, b} : c >= d
  OBVIOUS
<1>2. Max({a, b}) \in {a, b} /\ \A d \in {a, b} : Max({a, b}) >= d
  BY <1>1 DEF Max
<1> QED
  BY <1>2

\* A process that has not forked and whose execs have not failed never has more
\* than MAX_PSYC_PAGES pages in memory, or those of a larger program that it runs.
THEOREM ResidentSetAlwaysBounded == Spec => []ResidentSetBounded
<1>1. Init => ResidentInv
  BY ResidentInit
<1>2. PagingInv /\ ResidentInv /\ [Next]_vars => ResidentInv'
  <2> SUFFICES ASSUME PagingInv, ResidentInv, [Next]_vars PROVE ResidentInv'
    OBVIOUS
  <2>1. CASE UNCHANGED vars
    <3>1. m' = m /\ panicked' = panicked /\ state' = state /\ history' = history /\ image' = image
      BY <2>1 DEF vars
    <3> QED
      BY <3>1 DEF ResidentInv
  <2>2. ASSUME NEW p \in Procs, NEW n \in 1 .. MaxGrow, Shrink(p, n) PROVE ResidentInv'
    BY <2>2, ShrinkWithin
  <2>3. ASSUME NEW p \in Procs, NEW n \in 1 .. MaxGrow, NEW k \in 0 .. n, Grow(p, n, k) PROVE ResidentInv'
    BY <2>3, GrowWithin
  <2>4. ASSUME NEW p \in Procs, NEW a \in Page, PageFault(p, a) PROVE ResidentInv'
    BY <2>4, PageFaultWithin
  <2>5. ASSUME NEW p \in Procs, NEW a \in Page, NEW v \in Value, Write(p, a, v) PROVE ResidentInv'
    BY <2>5, WriteWithin
  <2>6. ASSUME NEW p \in Procs, NEW n \in Images, exec(p, n) PROVE ResidentInv'
    BY <2>6, execWithin
  <2>7. ASSUME NEW p \in Procs, NEW n \in Images, NEW k \in 0 .. n, execFails(p, k) PROVE ResidentInv'
    <3>1. history' = history \cup {"execfailed"} /\ state' = state
      BY <2>7 DEF execFails, GivesBack
    <3> QED
      BY <3>1 DEF ResidentInv, Tame
  <2>8. ASSUME NEW p \in Procs, exit(p) PROVE ResidentInv'
    BY <2>8, exitWithin
  <2>9. CASE fork
    <3>1. "forked" \in history'
      BY <2>9 DEF fork
    <3> QED
      BY <3>1, ForkedKeeps
  <2> QED
    BY <2>1, <2>2, <2>3, <2>4, <2>5, <2>6, <2>7, <2>8, <2>9 DEF Next
<1>3. PagingInv /\ ResidentInv => ResidentSetBounded
  <2> SUFFICES ASSUME PagingInv, ResidentInv, history \subseteq {"shrunk", "stale"}
               PROVE  Cardinality(Resident(Parent)) <= Max({MAX_PSYC_PAGES, image})
    BY DEF ResidentSetBounded
  <2>1. PICK U \in SUBSET Page : Excess(U, image) /\ Few(m, U)
    BY DEF ResidentInv, Tame
  <2>2. Resident(Parent) = PagesOf(m, Parent)
    BY DEF Resident, PagesOf, HasFrame
  <2>3. image \in Int /\ MAX_PSYC_PAGES \in Int
    BY PagingAssumption DEF PagingInv
  <2>4. /\ Max({MAX_PSYC_PAGES, image}) \in Int
        /\ Max({MAX_PSYC_PAGES, image}) >= MAX_PSYC_PAGES /\ Max({MAX_PSYC_PAGES, image}) >= image
    BY <2>3, GreaterOfTwo
  <2>5. Cardinality(U) \in Nat /\ Cardinality(PagesOf(m, Parent)) \in Nat
    BY UncoveredFinite, FramesInBounded
  <2>6. Cardinality(PagesOf(m, Parent)) <= MAX_PSYC_PAGES + Cardinality(U)
    BY <2>1 DEF Few
  <2>7. CASE U = {}
    <3>1. Cardinality(U) = 0
      BY <2>7, FS_EmptySet
    <3> QED
      BY <2>2, <2>3, <2>4, <2>5, <2>6, <3>1
  <2>8. CASE Cardinality(U) + MAX_PSYC_PAGES <= image
    BY <2>2, <2>3, <2>4, <2>5, <2>6, <2>8
  <2> QED
    BY <2>1, <2>7, <2>8 DEF Excess
<1> QED
  BY <1>1, <1>2, <1>3, PagingInvariant, PTL DEF Spec
=============================================================================
