-------------------------------- MODULE Shell --------------------------------
(***************************************************************************)
(* The shell (sh.c): the parser, on lines that are sequences of tokens     *)
(* (words and the symbols | ( ) ; & < > +, where + stands for >>), and     *)
(* runcmd, which turns a command into the calls of the processes it forks, *)
(* run on the Files model like the programs of Usertests.                  *)
(***************************************************************************)
EXTENDS Usertests

CONSTANT MAXARGS     \* entries of argv, the terminating 0 included

Symbol == {"|", "(", ")", ";", "&", "<", ">", "+"}
peek(ts, toks) == ts # <<>> /\ Head(ts) \in toks
\* gettoken on a token sequence: 'a' for a word, 0 at the end of the line.
gettoken(ts) == IF ts = <<>> THEN "0" ELSE IF Head(ts) \in Symbol THEN Head(ts) ELSE "a"

execcmd(argv) == [type |-> "EXEC", argv |-> argv]
redircmd(c, file, mode, fd) == [type |-> "REDIR", cmd |-> c, file |-> file, mode |-> mode, fd |-> fd]
pipecmd(l, r) == [type |-> "PIPE", left |-> l, right |-> r]
listcmd(l, r) == [type |-> "LIST", left |-> l, right |-> r]
backcmd(c) == [type |-> "BACK", cmd |-> c]

\* A parser returns the command and the tokens that are left; a panic has a
\* message and ends the parse.
Parsed(c, ts) == [cmd |-> c, rest |-> ts, panic |-> ""]
Panic(msg) == [cmd |-> execcmd(<<>>), rest |-> <<>>, panic |-> msg]

RECURSIVE parseline(_), parsepipe(_), parseexec(_), parseredirs(_, _), parseargs(_, _)

\* The redirections at the start of ts, applied to the command build(argv) so far.
parseredirs(c, ts) ==
    IF ~peek(ts, {"<", ">", "+"}) THEN Parsed(c, ts)
    ELSE IF gettoken(Tail(ts)) # "a" THEN Panic("missing file for redirection")
    ELSE parseredirs(IF Head(ts) = "<" THEN redircmd(c, ts[2], O_RDONLY, 0)
                     ELSE redircmd(c, ts[2], {"WRONLY", "CREATE"}, 1), SubSeq(ts, 3, Len(ts)))

\* The command has been wrapped in redirections before its arguments are
\* complete: they are stored in the EXEC at its core.
RECURSIVE SetArgs(_, _)
SetArgs(c, argv) == IF c.type = "EXEC" THEN execcmd(argv) ELSE [c EXCEPT !.cmd = SetArgs(c.cmd, argv)]

\* The loop over the arguments; r is what the redirections before them gave.
parseargs(r, argv) ==
    IF r.panic # "" THEN r
    ELSE IF peek(r.rest, {"|", ")", "&", ";"}) \/ r.rest = <<>> THEN Parsed(SetArgs(r.cmd, argv), r.rest)
    ELSE IF gettoken(r.rest) # "a" THEN Panic("syntax")
    ELSE IF Len(argv) + 1 >= MAXARGS THEN Panic("too many args")
    ELSE parseargs(parseredirs(r.cmd, Tail(r.rest)), Append(argv, Head(r.rest)))

\* A block, its line already parsed.
parseblock(line) ==
    CASE line.panic # "" -> line
      [] line.panic = "" /\ ~peek(line.rest, {")"}) -> Panic("syntax - missing )")
      [] OTHER -> parseredirs(line.cmd, Tail(line.rest))

parseexec(ts) ==
    IF peek(ts, {"("}) THEN parseblock(parseline(Tail(ts)))
    ELSE parseargs(parseredirs(execcmd(<<>>), ts), <<>>)

\* What follows the left side l of a pipe or a list.
pipeOf(l, r) == [r EXCEPT !.cmd = pipecmd(l.cmd, r.cmd)]
afterPipe(l) == IF l.panic # "" \/ ~peek(l.rest, {"|"}) THEN l ELSE pipeOf(l, parsepipe(Tail(l.rest)))
parsepipe(ts) == afterPipe(parseexec(ts))

RECURSIVE parseback(_)
parseback(l) == IF l.panic = "" /\ peek(l.rest, {"&"}) THEN parseback(Parsed(backcmd(l.cmd), Tail(l.rest))) ELSE l

listOf(l, r) == [r EXCEPT !.cmd = listcmd(l.cmd, r.cmd)]
afterList(l) == IF l.panic # "" \/ ~peek(l.rest, {";"}) THEN l ELSE listOf(l, parseline(Tail(l.rest)))
parseline(ts) == afterList(parseback(parsepipe(ts)))

wholeLine(l) == IF l.panic = "" /\ l.rest # <<>> THEN Panic("syntax") ELSE l
parsecmd(ts) == wholeLine(parseline(ts))
-----------------------------------------------------------------------------
\* The programs a shell line can name: what one does in its process (prog), and
\* the programs of the processes it forks, in the order of their numbers (kids).
\* What they print about failures is left out.
Runs(prog, kids) == [prog |-> prog, kids |-> kids]

echo == any(Write(1, <<"a", "b", "c">>)) \o exits        \* more than a pipe holds at once
wc   == drains(0, 2) \o any(Write(1, <<"n">>)) \o exits

\* read, write and round again; done steps on at the end of the file, a failed
\* write leads to the exit after the last call.
copies(fd, last) == goes(Read(fd, 2), [above |-> 1, at |-> 2, below |-> 2]) \o
                    goes([op |-> "copy", fd |-> 1], [above |-> -1, at |-> -1, below |-> last])
cat(argv) ==
    IF Len(argv) = 1 THEN copies(0, 1) \o exits
    ELSE goes(Open(rel(<<argv[2]>>), O_RDONLY), [Straight EXCEPT !.below = 4]) \o
         copies(2, 2) \o ok(On("close", 2)) \o exits

ln(argv) == IF Len(argv) # 3 THEN exits ELSE any(Link(rel(<<argv[2]>>), rel(<<argv[3]>>))) \o exits

\* One call for each argument, until one fails.
foreach(argv, call1(_)) ==
    [k \in 1..Len(argv) - 1 |->
        goes(call1(rel(<<argv[k + 1]>>)), [Straight EXCEPT !.below = Len(argv) - k])[1]] \o exits
mkdir(argv) == foreach(argv, Mkdir)
rm(argv)    == foreach(argv, Unlink)

\* The parent exits after the child, but the child is not waited for.
zombieproc == Runs(ok(Op("fork")) \o exits, <<exits>>)

\* A chain of Kids processes, each of which forks the next (the last does not), then
\* writes and reads a file of its own and waits.
stressfs ==
    LET f(i) == rel(<<Numbered[i + 1]>>)
        body(i) == any(Open(f(i), O_NEW)) \o any(Write(2, <<"a">>)) \o close(2) \o
                   ok(Open(f(i), O_RDONLY)) \o reads(2, 1, <<"a">>) \o close(2) \o any(Op("wait")) \o exits
        forked == ok(Op("fork")) IN
    Runs(forked \o body(0), [i \in 1..(Kids - 1) |-> IF i < Kids - 1 THEN forked \o body(i) ELSE body(i)])

Image(argv) ==
    CASE argv[1] = "echo" -> Runs(echo, <<>>)
      [] argv[1] = "wc" -> Runs(wc, <<>>)
      [] argv[1] = "cat" -> Runs(cat(argv), <<>>)
      [] argv[1] = "ln" -> Runs(ln(argv), <<>>)
      [] argv[1] = "mkdir" -> Runs(mkdir(argv), <<>>)
      [] argv[1] = "rm" -> Runs(rm(argv), <<>>)
      [] argv[1] = "zombie" -> zombieproc
      [] argv[1] = "stressfs" -> stressfs
Commands == {"echo", "wc", "cat", "ln", "mkdir", "rm", "zombie", "stressfs"}

\* The left side of a LIST has been waited for when the right side starts, so
\* their kids share slots.
Shared(a, b) == [k \in 1..Max({Len(a), Len(b)}) |->
                   (IF k <= Len(a) THEN a[k] ELSE <<>>) \o (IF k <= Len(b) THEN b[k] ELSE <<>>)]

RECURSIVE runcmd(_)
runcmd(c) ==
    CASE c.type = "EXEC" ->
           IF c.argv # <<>> /\ c.argv[1] \in Commands    \* one file stands for all of them
           THEN LET r == Image(c.argv) IN Runs(ok(Exec(rel(<<"echo">>))) \o r.prog, r.kids)
           ELSE Runs((IF c.argv = <<>> THEN <<>> ELSE fails(Exec(rel(<<c.argv[1]>>)))) \o exits, <<>>)
      [] c.type = "REDIR" ->
           LET r == runcmd(c.cmd) IN
           Runs(any(On("close", c.fd)) \o gives(Open(rel(<<c.file>>), c.mode), c.fd) \o r.prog, r.kids)
      [] c.type = "LIST" ->
           LET l == runcmd(c.left)  r == runcmd(c.right) IN
           Runs(ok(Op("fork")) \o any(Op("wait")) \o r.prog, Shared(<<l.prog>> \o l.kids, r.kids))
      [] c.type = "PIPE" ->
           LET l == runcmd(c.left)  r == runcmd(c.right)  closes == close(2) \o close(3)
               left == close(1) \o gives(On("dup", 3), 1) \o closes \o l.prog
               right == close(0) \o gives(On("dup", 2), 0) \o closes \o r.prog IN
           Runs(ok(Op("pipe")) \o ok(Op("fork")) \o ok(Op("fork")) \o closes \o any(Op("wait")) \o any(Op("wait")) \o exits,
                <<left, right>> \o l.kids \o r.kids)
      [] c.type = "BACK" ->
           LET r == runcmd(c.cmd) IN Runs(ok(Op("fork")) \o exits, <<r.prog>> \o r.kids)

\* init opens the console (making it the first time) and dups it for output.
init == fails(Open(rel(<<"console">>), O_RDWR)) \o ok(Mknod(rel(<<"console">>))) \o
        gives(Open(rel(<<"console">>), O_RDWR), 0) \o gives(On("dup", 0), 1)

\* The shell forks a process for the line and waits for it.
sh(ts) ==
    LET r == runcmd(parsecmd(ts).cmd) IN <<init \o ok(Op("fork")) \o any(Op("wait")), r.prog>> \o r.kids

\* cd is run by the shell itself.
cd(name) == <<init \o any(Mkdir(rel(<<name>>))) \o ok(Chdir(rel(<<name>>)))>>
=============================================================================
