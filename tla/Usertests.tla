------------------------------ MODULE Usertests ------------------------------
(***************************************************************************)
(* The file tests of usertests.c as programs for the Files model.  A test  *)
(* gives each of its processes the calls it makes, in order, with the      *)
(* results the test accepts; a loop has fewer rounds than in the code      *)
(* (Rounds, Kids), a choice made at random is a set of calls.  Process 1   *)
(* is the parent; a child that is forked again goes on in its program      *)
(* after the exit of its last life.                                        *)
(***************************************************************************)
EXTENDS Files

CONSTANTS Rounds,      \* rounds of a loop of calls
          Kids,        \* children that run at the same time
          Others       \* programs besides those of main, by name

VARIABLES test,        \* the test
          pos,         \* calls each process has started
          stray,       \* history: inodes with a link from a removed directory that is freed
          missed       \* history: unlinked inodes of which two iputs have overlapped

rel(elems) == [abs |-> FALSE, elems |-> elems]
dot == rel(<<".">>)
root == [abs |-> TRUE, elems |-> <<>>]
\* The calls.
Open(path, mode) == [op |-> "open", path |-> path, mode |-> mode]
Mkdir(path)      == [op |-> "mkdir", path |-> path]
Mknod(path)      == [op |-> "mknod", path |-> path]
Unlink(path)     == [op |-> "unlink", path |-> path]
Chdir(path)      == [op |-> "chdir", path |-> path]
Exec(path)       == [op |-> "exec", path |-> path]
Link(old, new)   == [op |-> "link", path |-> old, new |-> new]
Read(fd, n)      == [op |-> "read", fd |-> fd, n |-> n]
Write(fd, data)  == [op |-> "write", fd |-> fd, data |-> data]
Kill(pid)        == [op |-> "kill", pid |-> pid]
On(op, fd)       == [op |-> op, fd |-> fd]
Op(op)           == [op |-> op]
O_RDONLY == {}
O_CREATE == {"CREATE"}
O_RDWR   == {"RDWR"}
O_NEW      == {"CREATE", "RDWR"}

\* What a test accepts of a call: a result, and what it looks at in the buffer;
\* and how many calls the program goes on by after a result above, at and below 0.
Straight == [above |-> 1, at |-> 1, below |-> 1]
Accept(q, ret, see, val) == [calls |-> {q}, ret |-> ret, see |-> see, val |-> val, next |-> Straight]
gives(q, r)  == <<Accept(q, {r}, "nothing", <<>>)>>
ok(q)        == <<Accept(q, 0..20, "nothing", <<>>)>>
fails(q)     == gives(q, -1)
any(q)       == <<Accept(q, -1..20, "nothing", <<>>)>>
oneof(qs)    == <<[any(Op("none"))[1] EXCEPT !.calls = qs]>>
goes(q, next) == <<[any(q)[1] EXCEPT !.next = next]>>
\* read until end of file
drains(fd, n) == goes(Read(fd, n), [Straight EXCEPT !.above = 0])
reads(fd, n, data) == <<Accept(Read(fd, n), {Len(data)}, "data", data)>>
close(fd)    == ok(On("close", fd))
exits        == ok(Op("exit"))
forks(child) == gives(Op("fork"), child)
waits        == ok(Op("wait"))
\* create or open a file and close it again
touch(name)  == ok(Open(rel(<<name>>), O_NEW)) \o close(0)
times(n, s)  == FlattenSeq([k \in 1..n |-> s])
each(n, s(_)) == FlattenSeq([k \in 1..n |-> s(k)])
alone(s)     == <<s>>
-----------------------------------------------------------------------------
iputtest == alone(ok(Mkdir(rel(<<"dir">>))) \o ok(Chdir(rel(<<"dir">>))) \o
                  ok(Unlink(rel(<<"..", "dir">>))) \o ok(Chdir(root)))

exitiputtest == <<forks(2) \o waits,
                  ok(Mkdir(rel(<<"dir">>))) \o ok(Chdir(rel(<<"dir">>))) \o
                  ok(Unlink(rel(<<"..", "dir">>))) \o exits>>

openiputtest == <<ok(Mkdir(rel(<<"dir">>))) \o forks(2) \o ok(Unlink(rel(<<"dir">>))) \o waits,
                  fails(Open(rel(<<"dir">>), O_RDWR)) \o exits>>

opentest == alone(ok(Open(rel(<<"echo">>), O_RDONLY)) \o close(0) \o
                  fails(Open(rel(<<"doesnotexist">>), O_RDONLY)))

writetest == alone(ok(Open(rel(<<"small">>), O_NEW)) \o
                   times(Rounds, gives(Write(0, <<"a">>), 1) \o gives(Write(0, <<"b">>), 1)) \o close(0) \o
                   ok(Open(rel(<<"small">>), O_RDONLY)) \o
                   reads(0, 2 * Rounds, times(Rounds, <<"a", "b">>)) \o close(0) \o
                   ok(Unlink(rel(<<"small">>))))

\* As many blocks as a file can hold, then read to the end.
writetest1 == alone(ok(Open(rel(<<"big">>), O_NEW)) \o
                    each(MAXFILE, LAMBDA k : gives(Write(0, <<k>>), 1)) \o close(0) \o
                    ok(Open(rel(<<"big">>), O_RDONLY)) \o
                    each(MAXFILE, LAMBDA k : reads(0, 1, <<k>>)) \o reads(0, 1, <<>>) \o close(0) \o
                    ok(Unlink(rel(<<"big">>))))

Numbered == <<"x0", "x1", "x2", "x3">>
createtest == alone(each(Rounds, LAMBDA k : touch(Numbered[k])) \o
                    each(Rounds, LAMBDA k : any(Unlink(rel(<<Numbered[k]>>)))))

dirtest == alone(ok(Mkdir(rel(<<"dir">>))) \o ok(Chdir(rel(<<"dir">>))) \o
                 ok(Chdir(rel(<<"..">>))) \o ok(Unlink(rel(<<"dir">>))))

exectest == alone(ok(Exec(rel(<<"echo">>))))

\* The writer closes the read end, writes more than the pipe holds and exits;
\* the reader gets every unit in order and then end of file.
pipe1 ==
    LET message(k) == <<<<k, 1>>, <<k, 2>>, <<k, 3>>>> IN
    <<ok(Op("pipe")) \o forks(2) \o close(1) \o
      each(Rounds, LAMBDA k : each(3, LAMBDA j : reads(0, 1, <<<<k, j>>>>))) \o gives(Read(0, 4), 0) \o close(0) \o waits,
      close(0) \o each(Rounds, LAMBDA k : gives(Write(1, message(k)), 3)) \o exits>>

\* Two children run on, the third writes to a pipe; all three are killed.
preempt ==
    <<forks(2) \o forks(3) \o ok(Op("pipe")) \o forks(4) \o close(1) \o reads(0, 4, <<"x">>) \o close(0) \o
      each(3, LAMBDA k : gives(Kill(k + 1), 0)) \o times(3, waits),
      <<>>, <<>>, close(0) \o gives(Write(1, <<"x">>), 1) \o close(1)>>

exitwait == <<times(Rounds, forks(2) \o gives(Op("wait"), 2)), times(Rounds, exits)>>

\* fork until the process table is full; every child exits at once.
forktest ==
    LET N == Cardinality(Proc) - 1 IN
    <<each(N, LAMBDA k : forks(k + 1)) \o fails(Op("fork")) \o times(N, waits) \o fails(Op("wait"))>>
    \o [k \in 1..N |-> exits]
-----------------------------------------------------------------------------
\* Parent and child write through one file structure: the offset is shared.
sharedfd ==
    LET writes(v) == times(Rounds, gives(Write(0, <<v>>), 1)) IN
    <<any(Unlink(rel(<<"f">>))) \o ok(Open(rel(<<"f">>), O_NEW)) \o forks(2) \o writes("p") \o waits \o close(0) \o
      ok(Open(rel(<<"f">>), O_RDONLY)) \o
      <<Accept(Read(0, 2 * Rounds), {2 * Rounds}, "counts", [c |-> Rounds, p |-> Rounds])>> \o
      close(0) \o any(Unlink(rel(<<"f">>))),
      writes("c") \o exits>>

fourfiles ==
    LET name(k) == <<"f0", "f1", "f2", "f3">>[k]
        child(k) == ok(Open(rel(<<name(k)>>), O_NEW)) \o times(Rounds, gives(Write(0, <<k, k>>), 2)) \o exits
        check(k) == ok(Open(rel(<<name(k)>>), O_RDONLY)) \o
                    reads(0, 2 * Rounds + 1, [j \in 1..(2 * Rounds) |-> k]) \o close(0) \o
                    any(Unlink(rel(<<name(k)>>))) IN
    <<each(Kids, LAMBDA k : any(Unlink(rel(<<name(k)>>))) \o forks(k + 1)) \o times(Kids, waits) \o each(Kids, check)>>
    \o [k \in 1..Kids |-> child(k)]

\* Each child creates N files of its own and removes file i/2 after file i.
createdelete ==
    LET N == 3
        name(k, i) == <<<<"p0", "p1", "p2">>, <<"q0", "q1", "q2">>>>[k][i + 1]
        child(k) == each(N, LAMBDA j : touch(name(k, j - 1)) \o
                        (IF j > 1 /\ j % 2 = 1 THEN ok(Unlink(rel(<<name(k, (j - 1) \div 2)>>))) ELSE <<>>)) \o exits
        look(k, i) == IF i = 0 \/ i >= (N + 1) \div 2
                      THEN ok(Open(rel(<<name(k, i)>>), O_RDONLY)) \o close(0)
                      ELSE fails(Open(rel(<<name(k, i)>>), O_RDONLY)) IN
    <<each(Kids, LAMBDA k : forks(k + 1)) \o times(Kids, waits) \o
      each(N, LAMBDA j : each(Kids, LAMBDA k : look(k, j - 1)))>>
    \o [k \in 1..Kids |-> child(k)]

\* An unlinked file stays readable and writable while it is open.
unlinkread ==
    LET f == rel(<<"f">>) IN
    alone(ok(Open(f, O_NEW)) \o any(Write(0, <<"h", "e">>)) \o close(0) \o ok(Open(f, O_RDWR)) \o ok(Unlink(f)) \o
          gives(Open(f, O_NEW), 1) \o any(Write(1, <<"y">>)) \o close(1) \o
          reads(0, 4, <<"h", "e">>) \o gives(Write(0, <<"h", "e", "h", "e">>), 4) \o close(0) \o any(Unlink(f)))

linktest ==
    LET f1 == rel(<<"lf1">>)  f2 == rel(<<"lf2">>) IN
    alone(any(Unlink(f1)) \o any(Unlink(f2)) \o ok(Open(f1, O_NEW)) \o gives(Write(0, <<"h", "i">>), 2) \o close(0) \o
          ok(Link(f1, f2)) \o any(Unlink(f1)) \o fails(Open(f1, O_RDONLY)) \o
          ok(Open(f2, O_RDONLY)) \o reads(0, 5, <<"h", "i">>) \o close(0) \o
          fails(Link(f2, f2)) \o any(Unlink(f2)) \o fails(Link(f2, f1)) \o fails(Link(dot, f1)))

\* Parent and child create or link the same name, the listing has every name
\* once, and then one of them opens the file while the other unlinks it.
concreate ==
    LET name(i) == <<"C0", "C1", "C2">>[i]
        made(i) == IF i = 2 THEN any(Link(rel(<<"C0">>), rel(<<name(i)>>))) ELSE touch(name(i))
        opens(i) == any(Open(rel(<<name(i)>>), O_RDONLY)) \o any(On("close", 0))
        removes(i) == times(2, any(Unlink(rel(<<name(i)>>)))) IN
    <<each(Rounds, LAMBDA i : any(Unlink(rel(<<name(i)>>))) \o forks(2) \o made(i) \o waits) \o
      ok(Open(dot, O_RDONLY)) \o
      <<Accept(Read(0, MAXFILE), 0..MAXFILE, "names", {name(i) : i \in 1..Rounds})>> \o close(0) \o
      each(Rounds, LAMBDA i : forks(2) \o (IF i % 3 = 2 THEN opens(i) ELSE removes(i)) \o waits),
      each(Rounds, LAMBDA i : made(i) \o exits) \o
      each(Rounds, LAMBDA i : (IF i % 3 = 1 THEN opens(i) ELSE removes(i)) \o exits)>>

\* Parent and child create, link and unlink one name, in any order.
linkunlink ==
    LET x == rel(<<"x">>)
        round == oneof({Open(x, O_NEW), Link(rel(<<"cat">>), x), Unlink(x)}) \o any(On("close", 0)) IN
    <<any(Unlink(x)) \o forks(2) \o times(Rounds, round) \o waits, times(Rounds, round) \o exits>>

bigdir == alone(any(Unlink(rel(<<"bd">>))) \o ok(Open(rel(<<"bd">>), O_CREATE)) \o close(0) \o
                each(4, LAMBDA k : ok(Link(rel(<<"bd">>), rel(<<Numbered[k]>>)))) \o any(Unlink(rel(<<"bd">>))) \o
                each(4, LAMBDA k : ok(Unlink(rel(<<Numbered[k]>>)))))

subdir ==
    LET dd == rel(<<"dd">>)  ddff == rel(<<"dd", "ff">>)  dddd == rel(<<"dd", "dd">>)
        deep(n) == rel(<<"dd", "dd", n>>)  below(n) == rel(<<"dd", n, "ff">>) IN
    alone(any(Unlink(rel(<<"ff">>))) \o ok(Mkdir(dd)) \o
          ok(Open(ddff, O_NEW)) \o any(Write(0, <<"f">>)) \o close(0) \o fails(Unlink(dd)) \o
          ok(Mkdir([dddd EXCEPT !.abs = TRUE])) \o
          ok(Open(deep("ff"), O_NEW)) \o any(Write(0, <<"F">>)) \o close(0) \o
          ok(Open(rel(<<"dd", "dd", "..", "ff">>), O_RDONLY)) \o reads(0, 4, <<"f">>) \o close(0) \o
          ok(Link(deep("ff"), deep("ffff"))) \o ok(Unlink(deep("ff"))) \o fails(Open(deep("ff"), O_RDONLY)) \o
          ok(Chdir(dd)) \o ok(Chdir(rel(<<"dd", "..", "..", "dd">>))) \o
          ok(Chdir(rel(<<"dd", "..", "..", "..", "dd">>))) \o ok(Chdir(rel(<<".", "..">>))) \o
          ok(Open(deep("ffff"), O_RDONLY)) \o reads(0, 4, <<"F">>) \o close(0) \o
          fails(Open(deep("ff"), O_RDONLY)) \o
          fails(Open(below("ff"), O_NEW)) \o fails(Open(below("xx"), O_NEW)) \o
          fails(Open(dd, O_CREATE)) \o fails(Open(dd, O_RDWR)) \o fails(Open(dd, {"WRONLY"})) \o
          fails(Link(below("ff"), deep("xx"))) \o fails(Link(below("xx"), deep("xx"))) \o
          fails(Link(ddff, deep("ffff"))) \o
          fails(Mkdir(below("ff"))) \o fails(Mkdir(below("xx"))) \o fails(Mkdir(deep("ffff"))) \o
          fails(Unlink(below("xx"))) \o fails(Unlink(below("ff"))) \o
          fails(Chdir(ddff)) \o fails(Chdir(rel(<<"dd", "xx">>))) \o
          ok(Unlink(deep("ffff"))) \o ok(Unlink(ddff)) \o fails(Unlink(dd)) \o ok(Unlink(dddd)) \o ok(Unlink(dd)))

\* Writes of several transactions.
bigwrite ==
    LET f == rel(<<"f">>)
        size(k) == ok(Open(f, O_NEW)) \o
                   times(2, gives(Write(0, [j \in 1..(MaxChunk + k) |-> k]), MaxChunk + k)) \o
                   close(0) \o any(Unlink(f)) IN
    alone(any(Unlink(f)) \o each(2, size))

bigfile ==
    LET f == rel(<<"f">>) IN
    alone(any(Unlink(f)) \o ok(Open(f, O_NEW)) \o each(Rounds, LAMBDA i : gives(Write(0, <<i, i>>), 2)) \o close(0) \o
          ok(Open(f, O_RDONLY)) \o each(2 * Rounds, LAMBDA i : reads(0, 1, <<(i + 1) \div 2>>)) \o
          reads(0, 1, <<>>) \o close(0) \o any(Unlink(f)))

\* Two names that agree in their first DIRSIZ characters are the same name.
fourteen ==
    LET n14 == "12345678901234"  n15 == "123456789012345" IN
    alone(ok(Mkdir(rel(<<n14>>))) \o ok(Mkdir(rel(<<n14, n15>>))) \o
          ok(Open(rel(<<n15, n15, n15>>), O_CREATE)) \o close(0) \o
          ok(Open(rel(<<n14, n14, n14>>), O_RDONLY)) \o close(0) \o
          fails(Mkdir(rel(<<n14, n14>>))) \o fails(Mkdir(rel(<<n15, n14>>))))

rmdot ==
    alone(ok(Mkdir(rel(<<"dir">>))) \o ok(Chdir(rel(<<"dir">>))) \o
          fails(Unlink(dot)) \o fails(Unlink(rel(<<"..">>))) \o ok(Chdir(root)) \o
          fails(Unlink(rel(<<"dir", ".">>))) \o fails(Unlink(rel(<<"dir", "..">>))) \o ok(Unlink(rel(<<"dir">>))))

dirfile ==
    LET f == rel(<<"f">>)  fxx == rel(<<"f", "xx">>) IN
    alone(ok(Open(f, O_CREATE)) \o close(0) \o fails(Chdir(f)) \o fails(Open(fxx, O_RDONLY)) \o
          fails(Open(fxx, O_CREATE)) \o fails(Mkdir(fxx)) \o fails(Unlink(fxx)) \o
          fails(Link(rel(<<"README">>), fxx)) \o ok(Unlink(f)) \o
          fails(Open(dot, O_RDWR)) \o ok(Open(dot, O_RDONLY)) \o fails(Write(0, <<"x">>)) \o close(0))

\* An empty path names no parent: nothing is made, and nothing stays referenced.
iref ==
    LET empty == rel(<<>>) IN
    alone(times(2, ok(Mkdir(rel(<<"dir">>))) \o ok(Chdir(rel(<<"dir">>))) \o
                   fails(Mkdir(empty)) \o fails(Link(rel(<<"README">>), empty)) \o fails(Open(empty, O_CREATE)) \o
                   touch("xx") \o any(Unlink(rel(<<"xx">>)))) \o
          ok(Chdir(root)))
-----------------------------------------------------------------------------
main ==
    [createdelete |-> createdelete, linkunlink |-> linkunlink, concreate |-> concreate, fourfiles |-> fourfiles,
     sharedfd |-> sharedfd, bigwrite |-> bigwrite, opentest |-> opentest, writetest |-> writetest,
     writetest1 |-> writetest1, createtest |-> createtest, openiputtest |-> openiputtest,
     exitiputtest |-> exitiputtest, iputtest |-> iputtest, pipe1 |-> pipe1, preempt |-> preempt, exitwait |-> exitwait,
     rmdot |-> rmdot, fourteen |-> fourteen, bigfile |-> bigfile, subdir |-> subdir, linktest |-> linktest,
     unlinkread |-> unlinkread, dirfile |-> dirfile, iref |-> iref, forktest |-> forktest, bigdir |-> bigdir,
     dirtest |-> dirtest, exectest |-> exectest]

Tests == main @@ Others
Program(p) == LET progs == Tests[test] IN IF p <= Len(progs) THEN progs[p] ELSE <<>>

\* mkfs gives the root "." and ".." and one file for each program.
FreshDisk ==
    LET names == <<"README", "echo", "cat">>
        entry(n, i) == [name |-> n, inum |-> i] IN
    [i \in Inum |->
       IF i = ROOTINO THEN [type |-> "dir", nlink |-> 1,
                            data |-> <<entry(".", 1), entry("..", 1)>> \o [k \in 1..3 |-> entry(names[k], k + 1)]]
       ELSE IF i <= 4 THEN [type |-> "file", nlink |-> 1, data |-> <<names[i - 1]>>] ELSE NoInode]

Init == InitFiles(FreshDisk) /\ test \in DOMAIN Tests /\ pos = [p \in Proc |-> 0] /\ stray = {} /\ missed = {}

\* The next call of p; copy writes what the last call read.
NextCall(p) ==
    IF pos[p] = 0 THEN 1
    ELSE LET next == Program(p)[pos[p]].next  r == call[p].ret IN
         pos[p] + (IF r > 0 THEN next.above ELSE IF r = 0 THEN next.at ELSE next.below)

Run(p) ==
    /\ NextCall(p) <= Len(Program(p))
    /\ \E q \in Program(p)[NextCall(p)].calls :
          Syscall(p, IF q.op = "copy" THEN Write(q.fd, call[p].buf) ELSE q)
    /\ pos' = [pos EXCEPT ![p] = NextCall(p)]
    /\ UNCHANGED test

\* A killed process makes no more calls of its program.
Killed(p) == KilledExit(p) /\ pos' = [pos EXCEPT ![p] = Len(Program(p))] /\ UNCHANGED test

\* The histories: the entries of a directory that is freed, and the inodes
\* without links that two processes are about to drop at once.
Remember ==
    LET gone == {d \in Inum : inode[d].type # "free" /\ inode'[d].type = "free"}
        named(d) == {inode[d].data[k].inum : k \in 3..Len(inode[d].data)} IN
    /\ stray' = {i \in stray \cup UNION {named(d) : d \in {e \in gone : inode[e].type = "dir"}} :
                   i # 0 /\ inode'[i].type # "free"}
    /\ missed' = {i \in Inum : inode'[i].type # "free" /\ inode'[i].nlink = 0 /\
                   (i \in missed \/ \E p, q \in Proc : p # q /\ \A r \in {p, q} :
                       call'[r].todo # <<>> /\ Head(call'[r].todo) = <<"drop", i>>)}

Next == /\ \E p \in Proc : Run(p) \/ Killed(p) \/ (Step(p) /\ UNCHANGED <<test, pos>>)
        /\ Remember

Spec == Init /\ [][Next]_<<vars, test, pos, stray, missed>>
-----------------------------------------------------------------------------
Count(s, v) == Cardinality({k \in DOMAIN s : s[k] = v})

\* What the test looks at in what it has read.
Sees(want, buf) ==
    CASE want.see = "nothing" -> TRUE
      [] want.see = "data" -> buf = want.val
      [] want.see = "counts" -> \A v \in DOMAIN want.val : Count(buf, v) = want.val[v]
      [] want.see = "names" -> \A n \in want.val :
            Cardinality({k \in DOMAIN buf : buf[k].inum # 0 /\ buf[k].name = n}) = 1

\* The tests of usertests.c pass: whatever the interleaving of a test's
\* processes, each call gives a result and data the test accepts.
TestsPass ==
    \A p \in Proc : Idle(p) /\ ~proc[p].killed /\ pos[p] > 0 /\ call[p].req.op # "none" =>
      LET want == Program(p)[pos[p]] IN call[p].ret \in want.ret /\ Sees(want, call[p].buf)

\* Links and references are counted: no interleaving of calls makes a count
\* differ from the entries, files and directories that rely on it, and no path
\* through a call leaves one behind, with two exceptions in the code.  A file made in a
\* directory that is removed but still in use keeps its link when the directory
\* is freed; and an inode without links and references is free unless two iputs
\* of it overlapped, which saw each other's reference.
CountsExact ==
    /\ \A i \in Inum : /\ Linked(i) <= inode[i].nlink
                       /\ i \notin stray => (Linked(i) = inode[i].nlink)
                       /\ (inode[i].nlink = 0 /\ ref[i] = 0) => (inode[i].type = "free" \/ i \in missed)
    /\ RefsCounted

\* Process p can go on: in a call that nothing holds up, or with the next call
\* of its program, or because it was killed.
CanGo(p) ==
    \/ call[p].todo # <<>> /\ ~HeldUp(p)
    \/ Idle(p) /\ (NextCall(p) <= Len(Program(p)) \/ proc[p].killed)

\* The system stops only with every program that was started at its end, in a panic, or with a
\* process that waits in iput for an inode lock while it holds another one:
\* create and unlink put the directory with the file's inode locked, against
\* the order directory, file in which unlink takes the two locks, and dirlink
\* puts the entry it found with the directory locked.
StopsOnlyAtEndOrInIput ==
    \/ \E p \in Proc : CanGo(p)
    \/ \A p \in Proc : pos[p] \in {0, Len(Program(p))} /\ call[p].todo = <<>>
    \/ panic # ""
    \/ \E p \in Proc : CrossedInIput(p)

=============================================================================
