------------------------------ MODULE MemTests ------------------------------
(***************************************************************************)
(* The memory tests of usertests.c (sbrktest, bsstest, bigargtest) as      *)
(* programs for AddressSpace: the calls each process makes and the results *)
(* the test accepts.  The first process has one page when a test starts;   *)
(* loops have fewer rounds than in the code.  "anycalls" makes any calls.  *)
(***************************************************************************)
EXTENDS AddressSpace

CONSTANTS MemTestNames, BIG     \* tests to run; the size sbrktest grows to

VARIABLES mtest, mpos           \* the test, and calls each process has started
memVars == <<spaceVars, mtest, mpos>>

\* One item of a program: a call, or a look at page v, and what is accepted.
Do(op, arg, accept) == <<[op |-> op, arg |-> arg, accept |-> accept]>>
sbrk(n, r)     == Do("sbrk", n, {r})
trysbrk(n)     == Do("sbrk", n, -1..KERNBASE)
forks(q)       == Do("fork", 0, {q})
runs(f, args, r) == Do("exec", <<f, args>>, {r})
stores(v)      == Do("store", v, {})
loads(v, what) == Do("load", v, what)
waits          == Do("wait", 0, {})
exits          == Do("exit", 0, {})
after(q, n)    == Do("after", <<q, n>>, {})    \* a byte in a pipe: q has made n calls
kills(q)       == Do("kill", q, {})
Times(n, s(_)) == FlattenSeq([i \in 1..n |-> s(i)])
-----------------------------------------------------------------------------
\* Grow by single words, across a fork; grow big, give the last page back and
\* take it again: it is zero; shrink; a child that reads kernel memory is
\* killed; children grow until memory is out, and the parent can still grow.
sbrktest ==
    LET old == PGSIZE
        words == PGSIZE + 1
        a == old + words
        last == (BIG - 1) \div PGSIZE
        kids == Cardinality(VProc) - 1
        small == Times(words, LAMBDA i : sbrk(1, old + i - 1)) IN
    <<sbrk(0, old) \o small \o forks(2) \o sbrk(1, a) \o sbrk(1, a + 1) \o waits \o
      sbrk(BIG - (a + 2), a + 2) \o stores(last) \o sbrk(-PGSIZE, BIG) \o sbrk(0, BIG - PGSIZE) \o
      sbrk(PGSIZE, BIG - PGSIZE) \o sbrk(0, BIG) \o loads(last, {"zero"}) \o sbrk(old - BIG, BIG) \o
      forks(2) \o waits \o
      Times(kids, LAMBDA i : forks(i + 1) \o after(i + 1, IF i = 1 THEN 5 ELSE 1)) \o sbrk(PGSIZE, old) \o
      Times(kids, LAMBDA i : kills(i + 1) \o waits) \o sbrk(0, old + PGSIZE) \o sbrk(-PGSIZE, old + PGSIZE)>>
    \o <<sbrk(1, a) \o sbrk(1, a + 1) \o exits \o exits \o trysbrk(BIG - old)>>
    \o [i \in 1..(kids - 1) |-> trysbrk(BIG - old)]

\* Data without initial value starts out zero: exec gives it fresh pages, also
\* when they come from a process that wrote to them.
bsstest == <<sbrk(2 * PGSIZE, PGSIZE) \o stores(1) \o stores(2) \o sbrk(-2 * PGSIZE, 3 * PGSIZE) \o
             runs(1, <<2>>, 0) \o loads(2, {"zero"})>>

\* Arguments that do not fit the stack page: exec fails and the caller goes on.
bigargtest == <<forks(2) \o waits, runs(1, <<PGSIZE, PGSIZE>>, -1) \o loads(0, {"initcode"}) \o exits>>

MemTest == [sbrktest |-> sbrktest, bsstest |-> bsstest, bigargtest |-> bigargtest]
MemProgram(p) == IF p <= Len(MemTest[mtest]) THEN MemTest[mtest][p] ELSE <<>>
-----------------------------------------------------------------------------
MemInit == mtest \in MemTestNames /\ SpaceInit(IF mtest = "anycalls" THEN SMALL ELSE NFRAME) /\ mpos = [p \in VProc |-> 0]

\* The call of an item; a load has no effect; kill ends a process that sleeps
\* in the kernel or runs.
Perform(p, item) ==
    CASE item.op = "sbrk" -> growproc(p, item.arg)
      [] item.op = "fork" -> fork(p)
      [] item.op = "exec" -> exec(p, item.arg[1], item.arg[2])
      [] item.op = "store" -> store(p, item.arg)
      [] item.op = "load" -> UNCHANGED spaceVars
      [] item.op = "after" -> mpos[item.arg[1]] >= item.arg[2] /\ At(item.arg[1], "user") /\ UNCHANGED spaceVars
      [] item.op = "kill" -> exit(item.arg)
      [] item.op = "exit" -> exit(p)
      [] item.op = "wait" -> wait(p)

RunTest(p) ==
    /\ mtest \in DOMAIN MemTest /\ mpos[p] < Len(MemProgram(p)) /\ At(p, "user")
    /\ Perform(p, MemProgram(p)[mpos[p] + 1])
    /\ mpos' = [mpos EXCEPT ![p] = @ + 1]

MemNext ==
    /\ \E p \in VProc : \/ RunTest(p)
                        \/ (mtest = "anycalls" /\ Call(p)) /\ UNCHANGED mpos
                        \/ KernelStep(p) /\ UNCHANGED mpos
    /\ UNCHANGED mtest

\* The memory tests pass: each call that has returned gave what the test
\* accepts, and each page looked at holds what the test expects; and neither the
\* tests nor any calls bring the kernel to a panic, but for the fork of a process
\* that shrank to size zero.
MemTestsPass ==
    /\ PanicsOnlyWhenHollow
    /\ mtest \in DOMAIN MemTest => \A p \in VProc : At(p, "user") /\ mpos[p] > 0 =>
         LET item == MemProgram(p)[mpos[p]] IN
         CASE item.op \in {"sbrk", "fork", "exec"} -> ps[p].k.ret \in item.accept
           [] item.op = "load" -> page[ps[p].pgdir.pte[item.arg]] \in item.accept
           [] OTHER -> TRUE
=============================================================================
