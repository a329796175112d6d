-------------------------------- MODULE Files --------------------------------
(***************************************************************************)
(* The file system calls of xv6 (sysfile.c), over open files (file.c),     *)
(* pipes (pipe.c) and inodes with their cache, locks and paths (fs.c).     *)
(*                                                                         *)
(* Processes run concurrently; a step of a call is what happens between    *)
(* two points where the process can block or be overtaken: one inode lock  *)
(* section, one change of a reference count, one sleep.  What a process    *)
(* still has to do in its call is the sequence todo of labelled steps      *)
(* <<label, argument>>; a failing step replaces it.  The transaction       *)
(* around each call is the Log module's.  There is one processor, as the   *)
(* Makefile starts: no kill comes between a test of killed and the sleep   *)
(* after it.  After a panic nothing moves.  Variables:                     *)
(*   inode   the inodes, on disk and cached (Inodes)                       *)
(*   ref     references to the cache entry of each inode (icache)          *)
(*   valid   the inodes whose cache entry has been read from disk          *)
(*   lock    the process that holds the sleep lock of each inode, or 0     *)
(*   ftable  the open file structures                                      *)
(*   pipe    the pipes; cut is history: a killed writer has left data      *)
(*           without waking the readers                                    *)
(*   proc    state, parent, current directory, descriptors, killed         *)
(*   call    the call each process is in, and the result of its last one   *)
(*   panic   the message of a panic, or ""                                 *)
(***************************************************************************)
EXTENDS Inodes, FiniteSets, TLC

CONSTANTS Proc,      \* processes, positive numbers; 1 runs first
          NOFILE,    \* descriptors per process
          NFILE,     \* open file structures
          NINODE,    \* entries of the inode cache
          NPIPE,     \* pages kalloc can give to pipes
          PIPESIZE,  \* units a pipe holds
          MaxChunk   \* units filewrite writes in one transaction

ASSUME FilesAssumption == /\ Proc \subseteq Nat \ {0} /\ 1 \in Proc
                          /\ {NOFILE, NFILE, NINODE, NPIPE, PIPESIZE, MaxChunk} \subseteq Nat

VARIABLES inode, ref, valid, lock, ftable, pipe, proc, call, panic
vars == <<inode, ref, valid, lock, ftable, pipe, proc, call, panic>>
inodeVars == <<inode, ref, valid, lock>>
fileVars  == <<ftable, pipe, proc>>

NoFile == [ref |-> 0, type |-> "none", ip |-> 0, pipe |-> 0, off |-> 0,
           readable |-> FALSE, writable |-> FALSE]
NoPipe == [data |-> <<>>, readopen |-> FALSE, writeopen |-> FALSE, cut |-> FALSE]
NoCall == [req |-> [op |-> "none"], todo |-> <<>>, onfail |-> <<>>, rest |-> <<>>, par |-> FALSE,
           name |-> "", ip |-> 0, dp |-> 0, n |-> 0, chan |-> <<>>, ret |-> 0, buf |-> <<>>]
Unused == [state |-> "unused", killed |-> FALSE, parent |-> 0, cwd |-> 0, ofile |-> [d \in 1..NOFILE |-> 0]]

InitFiles(table) ==
    /\ inode = table
    /\ ref = [i \in Inum |-> IF i = ROOTINO THEN 1 ELSE 0]
    /\ valid = {}
    /\ lock = [i \in Inum |-> 0]
    /\ ftable = [f \in 1..NFILE |-> NoFile]
    /\ pipe = [k \in 1..NPIPE |-> NoPipe]
    /\ proc = [p \in Proc |-> IF p = 1 THEN [Unused EXCEPT !.state = "running", !.cwd = ROOTINO] ELSE Unused]
    /\ call = [p \in Proc |-> NoCall]
    /\ panic = ""
-----------------------------------------------------------------------------
Idle(p) == proc[p].state = "running" /\ call[p].todo = <<>>
At(p, label) == call[p].todo # <<>> /\ Head(call[p].todo)[1] = label /\ call[p].chan = <<>> /\ panic = ""
Arg(p) == Head(call[p].todo)[2]

\* Process p goes on with these fields of its call changed.
Go(p, fields) == call' = [call EXCEPT ![p] = fields @@ @]
\* iput(i): look at the link count under the lock, then drop the reference.
put(i) == <<<<"iput", i>>, <<"drop", i>>>>
Fail(p, steps) == Go(p, [todo |-> steps \o call[p].onfail, onfail |-> <<>>, ret |-> -1])
Done(p, r) == Go(p, [todo |-> <<>>, ret |-> r])

idup(i) == ref' = [ref EXCEPT ![i] = @ + 1]
\* iget panics when it has to take a new cache entry and there is none.
iget(i) ==
    IF ref[i] > 0 \/ Cardinality({j \in Inum : ref[j] > 0}) < NINODE THEN idup(i) /\ UNCHANGED panic
    ELSE panic' = "iget: no inodes" /\ UNCHANGED ref
CanLock(i) == lock[i] = 0 /\ inode[i].type # "free"
ilocked(i) == valid' = valid \cup {i}

\* The inode whose lock the next step of p takes, or 0.
Wants(p) ==
    IF call[p].todo = <<>> \/ (call[p].rest = <<>> /\ Head(call[p].todo)[1] = "namex") THEN 0
    ELSE LET step == Head(call[p].todo) IN
         CASE step[1] \in {"namex", "open", "createold", "chdir", "exec", "link", "unlink2"} -> call[p].ip
           [] step[1] \in {"create", "link2", "unlink"} -> call[p].dp
           [] step[1] \in {"iput", "linkbad", "fileread", "filewrite", "filestat"} -> step[2]
           [] OTHER -> 0

\* ilock panics when the inode read from disk is free.
ilockPanics(p) ==
    /\ Wants(p) # 0 /\ panic = "" /\ Head(call[p].todo)[1] # "iput"
    /\ lock[Wants(p)] = 0 /\ inode[Wants(p)].type = "free"
    /\ panic' = "ilock: no type"
    /\ UNCHANGED <<inodeVars, fileVars, call>>


\* iput: free the inode when it has no links and this is its only reference.
iput(p) ==
    LET i == Arg(p) IN
    /\ At(p, "iput") /\ lock[i] = 0
    /\ IF i \in valid /\ inode[i].nlink = 0 /\ ref[i] = 1
       THEN inode' = [inode EXCEPT ![i] = NoInode] /\ valid' = valid \ {i}
       ELSE UNCHANGED <<inode, valid>>
    /\ Go(p, [todo |-> Tail(call[p].todo)])
    /\ UNCHANGED <<ref, lock, fileVars, panic>>

iputDrop(p) ==
    LET i == Arg(p) IN
    /\ At(p, "drop")
    /\ ref' = [ref EXCEPT ![i] = @ - 1]
    /\ valid' = IF ref[i] = 1 THEN valid \ {i} ELSE valid   \* iget clears valid when it reuses the entry
    /\ Go(p, [todo |-> Tail(call[p].todo)])
    /\ UNCHANGED <<inode, lock, fileVars, panic>>

iunlock(p) ==
    /\ At(p, "iunlock")
    /\ lock' = [lock EXCEPT ![Arg(p)] = 0]
    /\ Go(p, [todo |-> Tail(call[p].todo)])
    /\ UNCHANGED <<inode, ref, valid, fileVars, panic>>
-----------------------------------------------------------------------------
\* Paths.  A call on a path starts with a reference to the root or to the
\* current directory, and goes down one element per step.
StartAt(p, path) == IF path.abs THEN ROOTINO ELSE proc[p].cwd

Enter(p, q, parent, next) ==
    /\ iget(StartAt(p, q.path))
    /\ Go(p, [req |-> q, rest |-> q.path.elems, par |-> parent, ip |-> StartAt(p, q.path), n |-> 0,
              todo |-> <<<<"namex", 0>>, <<next, 0>>>>, onfail |-> <<>>, ret |-> 0, buf |-> <<>>])
    /\ UNCHANGED <<inode, valid, lock, fileVars>>

namex(p) ==
    LET c == call[p]
        isdir == inode[c.ip].type = "dir"
        last == c.par /\ Len(c.rest) = 1
        name == skipelem(Head(c.rest))
        next == IF isdir THEN dirlookup(inode, c.ip, name) ELSE 0 IN
    /\ At(p, "namex")
    /\ IF c.rest = <<>>
       THEN /\ IF c.par THEN Fail(p, put(c.ip)) ELSE Go(p, [todo |-> Tail(c.todo)])
            /\ UNCHANGED <<ref, valid, panic>>
       ELSE /\ CanLock(c.ip) /\ ilocked(c.ip)
            /\ \/ isdir /\ last /\ Go(p, [todo |-> Tail(c.todo), dp |-> c.ip, name |-> name])
                  /\ UNCHANGED <<ref, panic>>
               \/ /\ ~last /\ next # 0 /\ iget(next)
                  /\ Go(p, [todo |-> put(c.ip) \o c.todo, ip |-> next, rest |-> Tail(c.rest)])
               \/ (~isdir \/ (~last /\ next = 0)) /\ Fail(p, put(c.ip)) /\ UNCHANGED <<ref, panic>>
    /\ UNCHANGED <<inode, lock, fileVars>>
-----------------------------------------------------------------------------
\* create finds the name, or makes the node and goes on with it locked.
create(p) ==
    LET c == call[p]  ip == dirlookup(inode, c.dp, c.name)  new == ialloc(inode)
        type == [open |-> "file", mkdir |-> "dir", mknod |-> "dev"][c.req.op] IN
    /\ At(p, "create") /\ CanLock(c.dp)
    /\ \/ /\ ip # 0 /\ iget(ip) /\ ilocked(c.dp)
          /\ Go(p, [todo |-> put(c.dp) \o <<<<"createold", 0>>>>, ip |-> ip])
          /\ UNCHANGED <<inode, lock>>
       \/ /\ ip = 0 /\ new # 0 /\ iget(new) /\ valid' = valid \cup {c.dp, new}
          /\ inode' = MakeNode(inode, c.dp, c.name, new, type)
          /\ lock' = [lock EXCEPT ![new] = p]
          /\ Go(p, [todo |-> put(c.dp) \o <<<<"created", 0>>>>, ip |-> new])
       \/ ip = 0 /\ new = 0 /\ panic' = "ialloc: no inodes" /\ UNCHANGED <<inodeVars, call>>
    /\ UNCHANGED fileVars

\* The first free descriptor (counted from 1), or 0.
freefd(p) == FirstOf({fd \in DOMAIN proc[p].ofile : proc[p].ofile[fd] = 0})

\* The end of sys_open, with the inode locked.
OpenFile(p) ==
    LET c == call[p]
        f == FirstOf({x \in DOMAIN ftable : ftable[x].ref = 0})  fd == freefd(p) IN
    /\ IF f = 0 \/ fd = 0
       THEN Fail(p, put(c.ip)) /\ UNCHANGED <<ftable, proc>>
       ELSE /\ ftable' = [ftable EXCEPT ![f] =
                   [ref |-> 1, type |-> "inode", ip |-> c.ip, pipe |-> 0, off |-> 0,
                    readable |-> "WRONLY" \notin c.req.mode,
                    writable |-> c.req.mode \cap {"WRONLY", "RDWR"} # {}]]
            /\ proc' = [proc EXCEPT ![p].ofile[fd] = f]
            /\ Done(p, fd - 1)
    /\ lock' = [lock EXCEPT ![c.ip] = 0]
    /\ UNCHANGED <<inode, ref, pipe, panic>>

\* create returned a new node, locked by p.
created(p) ==
    /\ At(p, "created")
    /\ UNCHANGED valid
    /\ IF call[p].req.op = "open" THEN OpenFile(p)
       ELSE /\ Go(p, [todo |-> put(call[p].ip), ret |-> 0])
            /\ lock' = [lock EXCEPT ![call[p].ip] = 0]
            /\ UNCHANGED <<inode, ref, fileVars, panic>>

\* The name existed: only open of a file goes on.
createold(p) ==
    /\ At(p, "createold") /\ CanLock(call[p].ip) /\ ilocked(call[p].ip)
    /\ IF call[p].req.op = "open" /\ inode[call[p].ip].type = "file" THEN OpenFile(p)
       ELSE Fail(p, put(call[p].ip)) /\ UNCHANGED <<inode, ref, lock, fileVars, panic>>

open(p) ==
    /\ At(p, "open") /\ CanLock(call[p].ip) /\ ilocked(call[p].ip)
    /\ IF inode[call[p].ip].type = "dir" /\ call[p].req.mode # {}
       THEN Fail(p, put(call[p].ip)) /\ UNCHANGED <<inode, ref, lock, fileVars, panic>>
       ELSE OpenFile(p)

\* chdir drops the old directory before it stores the new one.
chdir(p) ==
    LET c == call[p] IN
    /\ At(p, "chdir") /\ CanLock(c.ip) /\ ilocked(c.ip)
    /\ IF inode[c.ip].type = "dir" THEN Go(p, [todo |-> put(proc[p].cwd) \o <<<<"setcwd", 0>>>>])
       ELSE Fail(p, put(c.ip))
    /\ UNCHANGED <<inode, ref, lock, fileVars, panic>>

setcwd(p) ==
    /\ At(p, "setcwd")
    /\ proc' = [proc EXCEPT ![p].cwd = call[p].ip]
    /\ Done(p, 0)
    /\ UNCHANGED <<inodeVars, ftable, pipe, panic>>

\* exec reads the file under its lock and lets go of it.
exec(p) ==
    /\ At(p, "exec") /\ CanLock(call[p].ip) /\ ilocked(call[p].ip)
    /\ Go(p, [todo |-> put(call[p].ip), buf |-> inode[call[p].ip].data,
              ret |-> IF inode[call[p].ip].type = "file" THEN 0 ELSE -1])
    /\ UNCHANGED <<inode, ref, lock, fileVars, panic>>
-----------------------------------------------------------------------------
\* A mutant: the new link is not counted.
linkUncounted(p) ==
    LET c == call[p]  start == StartAt(p, c.req.new) IN
    /\ At(p, "link") /\ CanLock(c.ip) /\ ilocked(c.ip)
    /\ IF inode[c.ip].type = "dir" THEN Fail(p, put(c.ip)) /\ UNCHANGED <<ref, panic>>
       ELSE /\ iget(start)
            /\ Go(p, [ip |-> start, rest |-> c.req.new.elems, par |-> TRUE,
                      todo |-> <<<<"namex", 0>>, <<"link2", c.ip>>>>, onfail |-> <<<<"linkbad", c.ip>>>>])
    /\ UNCHANGED <<inode, lock, fileVars>>

\* link counts the new link first, and takes it back when it cannot be made.
link(p) ==
    LET c == call[p]  start == StartAt(p, c.req.new) IN
    /\ At(p, "link") /\ CanLock(c.ip) /\ ilocked(c.ip)
    /\ IF inode[c.ip].type = "dir" THEN Fail(p, put(c.ip)) /\ UNCHANGED <<inode, ref, panic>>
       ELSE /\ inode' = [inode EXCEPT ![c.ip].nlink = @ + 1]
            /\ iget(start)
            /\ Go(p, [ip |-> start, rest |-> c.req.new.elems, par |-> TRUE,
                      todo |-> <<<<"namex", 0>>, <<"link2", c.ip>>>>, onfail |-> <<<<"linkbad", c.ip>>>>])
    /\ UNCHANGED <<lock, fileVars>>

link2(p) ==
    LET c == call[p]  old == dirlookup(inode, c.dp, c.name) IN
    /\ At(p, "link2") /\ CanLock(c.dp) /\ ilocked(c.dp)
    /\ IF old # 0
       THEN /\ iget(old) /\ lock' = [lock EXCEPT ![c.dp] = p]   \* dirlink puts old with dp locked
            /\ Go(p, [todo |-> put(old) \o <<<<"iunlock", c.dp>>>> \o put(c.dp) \o c.onfail, ret |-> -1])
            /\ UNCHANGED inode
       ELSE /\ inode' = dirlink(inode, c.dp, c.name, Arg(p))
            /\ Go(p, [todo |-> put(c.dp) \o put(Arg(p)), ret |-> 0])
            /\ UNCHANGED <<ref, lock, panic>>
    /\ UNCHANGED fileVars

\* A mutant: the link that could not be made stays counted.
linkbadKeeps(p) ==
    /\ At(p, "linkbad") /\ lock[Arg(p)] = 0 /\ ilocked(Arg(p))
    /\ Go(p, [todo |-> put(Arg(p))])
    /\ UNCHANGED <<inode, ref, lock, fileVars, panic>>

linkbad(p) ==
    LET i == Arg(p) IN
    /\ At(p, "linkbad") /\ lock[i] = 0 /\ ilocked(i)
    /\ inode' = [inode EXCEPT ![i].nlink = @ - 1]
    /\ Go(p, [todo |-> put(i)])
    /\ UNCHANGED <<ref, lock, fileVars, panic>>

\* unlink holds the directory while it waits for the inode.
unlink(p) ==
    LET c == call[p]  ip == dirlookup(inode, c.dp, c.name) IN
    /\ At(p, "unlink") /\ CanLock(c.dp) /\ ilocked(c.dp)
    /\ IF c.name \in {".", ".."} \/ ip = 0
       THEN Fail(p, put(c.dp)) /\ UNCHANGED <<ref, lock, panic>>
       ELSE /\ iget(ip) /\ lock' = [lock EXCEPT ![c.dp] = p]
            /\ Go(p, [ip |-> ip, todo |-> <<<<"unlink2", 0>>>>])
    /\ UNCHANGED <<inode, fileVars>>

unlink2(p) ==
    LET c == call[p]  isdir == inode[c.ip].type = "dir" IN
    /\ At(p, "unlink2") /\ CanLock(c.ip) /\ ilocked(c.ip)
    /\ \/ inode[c.ip].nlink < 1 /\ panic' = "unlink: nlink < 1" /\ UNCHANGED <<inode, lock, call>>
       \/ /\ inode[c.ip].nlink > 0 /\ isdir /\ ~isdirempty(inode, c.ip)
          /\ Fail(p, put(c.ip) \o <<<<"iunlock", c.dp>>>> \o put(c.dp)) /\ UNCHANGED <<inode, lock, panic>>
       \/ /\ inode[c.ip].nlink > 0 /\ (isdir => isdirempty(inode, c.ip))
          /\ inode' = [ClearEntry(inode, c.dp, c.name) EXCEPT ![c.dp].nlink = IF isdir THEN @ - 1 ELSE @]
          /\ lock' = [lock EXCEPT ![c.dp] = 0, ![c.ip] = p]
          /\ Go(p, [todo |-> put(c.dp) \o <<<<"unlink3", 0>>>>])
          /\ UNCHANGED panic
    /\ UNCHANGED <<ref, fileVars>>

unlink3(p) ==
    LET ip == call[p].ip IN
    /\ At(p, "unlink3")
    /\ inode' = [inode EXCEPT ![ip].nlink = @ - 1]
    /\ lock' = [lock EXCEPT ![ip] = 0]
    /\ Go(p, [todo |-> put(ip), ret |-> 0])
    /\ UNCHANGED <<ref, valid, fileVars, panic>>
-----------------------------------------------------------------------------
\* Calls on descriptors.  argfd: the open file of descriptor fd, or 0.
argfd(p, fd) == IF fd + 1 \in DOMAIN proc[p].ofile THEN proc[p].ofile[fd + 1] ELSE 0

\* A call that ends at once with r.
Return(p, q, r) == Go(p, [req |-> q, ret |-> r, buf |-> <<>>]) /\ UNCHANGED <<inodeVars, panic>>
\* A call that goes on with one step, on its file or (wait) on the children.
OnFile(p, q, step, arg) ==
    /\ Go(p, [req |-> q, todo |-> <<<<step, arg>>>>, onfail |-> <<>>, n |-> 0, ret |-> 0, buf |-> <<>>])
    /\ UNCHANGED <<inodeVars, fileVars, panic>>

sys_dup(p, q) ==
    LET f == argfd(p, q.fd)  fd == freefd(p) IN
    IF f = 0 \/ fd = 0 THEN Return(p, q, -1) /\ UNCHANGED fileVars
    ELSE /\ ftable' = [ftable EXCEPT ![f].ref = @ + 1]
         /\ proc' = [proc EXCEPT ![p].ofile[fd] = f]
         /\ Return(p, q, fd - 1) /\ UNCHANGED pipe

sys_read(p, q) ==
    LET f == argfd(p, q.fd) IN
    IF f = 0 \/ ~ftable[f].readable THEN Return(p, q, -1) /\ UNCHANGED fileVars
    ELSE IF ftable[f].type = "pipe" THEN OnFile(p, q, "piperead", f)
    ELSE OnFile(p, q, "fileread", ftable[f].ip)

sys_write(p, q) ==
    LET f == argfd(p, q.fd) IN
    IF f = 0 \/ ~ftable[f].writable THEN Return(p, q, -1) /\ UNCHANGED fileVars
    ELSE IF ftable[f].type = "pipe" THEN OnFile(p, q, "pipewrite", f)
    ELSE OnFile(p, q, "filewrite", ftable[f].ip)

sys_fstat(p, q) ==
    LET f == argfd(p, q.fd) IN
    IF f = 0 \/ ftable[f].type # "inode" THEN Return(p, q, -1) /\ UNCHANGED fileVars
    ELSE OnFile(p, q, "filestat", ftable[f].ip)

sys_close(p, q) ==
    LET f == argfd(p, q.fd) IN
    IF f = 0 THEN Return(p, q, -1) /\ UNCHANGED fileVars
    ELSE /\ proc' = [proc EXCEPT ![p].ofile[q.fd + 1] = 0]
         /\ Go(p, [req |-> q, todo |-> <<<<"fileclose", f>>>>, ret |-> 0, buf |-> <<>>])
         /\ UNCHANGED <<inodeVars, ftable, pipe, panic>>

\* read moves the shared offset under the inode's lock.
fileread(p) ==
    LET f == argfd(p, call[p].req.fd)
        vs == readi(inode, Arg(p), ftable[f].off, call[p].req.n) IN
    /\ At(p, "fileread") /\ CanLock(Arg(p)) /\ ilocked(Arg(p))
    /\ IF inode[Arg(p)].type = "dev"            \* no line is typed on the console
       THEN proc[p].killed /\ Go(p, [todo |-> <<>>, ret |-> -1]) /\ UNCHANGED ftable
       ELSE /\ ftable' = [ftable EXCEPT ![f].off = @ + Len(vs)]
            /\ Go(p, [todo |-> <<>>, ret |-> Len(vs), buf |-> vs])
    /\ UNCHANGED <<inode, ref, lock, pipe, proc, panic>>

\* write puts MaxChunk units per transaction and gives up at the first that fails.
filewrite(p) ==
    LET c == call[p]  f == argfd(p, c.req.fd)  off == ftable[f].off
        end == Min({c.n + MaxChunk, Len(c.req.data)})
        chunk == SubSeq(c.req.data, c.n + 1, end) IN
    /\ At(p, "filewrite") /\ CanLock(Arg(p)) /\ ilocked(Arg(p))
    /\ IF inode[Arg(p)].type = "dev" \/ CanWrite(inode, Arg(p), off, Len(chunk))
       THEN /\ inode' = IF inode[Arg(p)].type = "dev" THEN inode ELSE writei(inode, Arg(p), off, chunk)
            /\ ftable' = [ftable EXCEPT ![f].off = @ + Len(chunk)]
            /\ IF end = Len(c.req.data) THEN Done(p, end) ELSE Go(p, [n |-> end])
       ELSE Fail(p, <<>>) /\ UNCHANGED <<inode, ftable>>
    /\ UNCHANGED <<ref, lock, pipe, proc, panic>>

filestat(p) ==
    LET i == Arg(p) IN
    /\ At(p, "filestat") /\ CanLock(i) /\ ilocked(i)
    /\ Go(p, [todo |-> <<>>, buf |-> <<[type |-> inode[i].type, ino |-> i, nlink |-> inode[i].nlink,
                                        size |-> Len(inode[i].data)]>>])
    /\ UNCHANGED <<inode, ref, lock, fileVars, panic>>
-----------------------------------------------------------------------------
\* Pipes.  chan is the counter of a pipe a process sleeps on.
Awake(c, ch) == [p \in Proc |-> IF c[p].chan = ch THEN [c[p] EXCEPT !.chan = <<>>] ELSE c[p]]

sys_pipe(p, q) ==
    LET free == {f \in 1..NFILE : ftable[f].ref = 0}
        k == FirstOf({x \in DOMAIN pipe : pipe[x] = NoPipe})
        fds == {d \in 1..NOFILE : proc[p].ofile[d] = 0} IN
    IF Cardinality(free) < 2 \/ k = 0 \/ Cardinality(fds) < 2 THEN Return(p, q, -1) /\ UNCHANGED fileVars
    ELSE LET f0 == Min(free)  f1 == Min(free \ {f0})  d0 == Min(fds)  d1 == Min(fds \ {d0})
             end(w) == [NoFile EXCEPT !.ref = 1, !.type = "pipe", !.pipe = k, !.readable = ~w, !.writable = w] IN
         /\ ftable' = [ftable EXCEPT ![f0] = end(FALSE), ![f1] = end(TRUE)]
         /\ pipe' = [pipe EXCEPT ![k] = [NoPipe EXCEPT !.readopen = TRUE, !.writeopen = TRUE]]
         /\ proc' = [proc EXCEPT ![p].ofile[d0] = f0, ![p].ofile[d1] = f1]
         /\ Go(p, [req |-> q, ret |-> 0, buf |-> <<d0 - 1, d1 - 1>>])
         /\ UNCHANGED <<inodeVars, panic>>

\* write until the pipe is full, then wake the readers and sleep; without
\* readers, or killed, give up, and wake nobody.
pipewrite(p) ==
    LET c == call[p]  k == ftable[Arg(p)].pipe
        end == Min({c.n + PIPESIZE - Len(pipe[k].data), Len(c.req.data)})
        givesup == end < Len(c.req.data) /\ (~pipe[k].readopen \/ proc[p].killed)
        woken == Awake(call, <<k, "nread">>) IN
    /\ At(p, "pipewrite")
    /\ pipe' = [pipe EXCEPT ![k] = [@ EXCEPT !.data = @ \o SubSeq(c.req.data, c.n + 1, end),
                                            !.cut = givesup /\ (proc[p].killed \/ pipe[k].cut)]]
    /\ IF givesup THEN Go(p, [todo |-> <<>>, ret |-> -1])
       ELSE IF end = Len(c.req.data) THEN call' = [woken EXCEPT ![p].todo = <<>>, ![p].ret = end]
       ELSE call' = [woken EXCEPT ![p].n = end, ![p].chan = <<k, "nwrite">>]
    /\ UNCHANGED <<inodeVars, ftable, proc, panic>>

\* A mutant: the reader does not wake the writers.
pipereadSilent(p) ==
    LET c == call[p]  k == ftable[Arg(p)].pipe  n == Min({c.req.n, Len(pipe[k].data)})
        waits == pipe[k].data = <<>> /\ pipe[k].writeopen IN
    /\ At(p, "piperead")
    /\ pipe' = IF waits THEN pipe ELSE [pipe EXCEPT ![k].data = SubSeq(@, n + 1, Len(@))]
    /\ \/ waits /\ proc[p].killed /\ Done(p, -1)
       \/ waits /\ ~proc[p].killed /\ Go(p, [chan |-> <<k, "nread">>])
       \/ ~waits /\ Go(p, [todo |-> <<>>, ret |-> n, buf |-> SubSeq(pipe[k].data, 1, n)])
    /\ UNCHANGED <<inodeVars, ftable, proc, panic>>

\* read sleeps while the pipe is empty, unless killed, and takes what there is.
piperead(p) ==
    LET c == call[p]  k == ftable[Arg(p)].pipe  n == Min({c.req.n, Len(pipe[k].data)})
        waits == pipe[k].data = <<>> /\ pipe[k].writeopen IN
    /\ At(p, "piperead")
    /\ pipe' = IF waits THEN pipe ELSE [pipe EXCEPT ![k].data = SubSeq(@, n + 1, Len(@))]
    /\ \/ waits /\ proc[p].killed /\ Done(p, -1)
       \/ waits /\ ~proc[p].killed /\ Go(p, [chan |-> <<k, "nread">>])
       \/ /\ ~waits
          /\ call' = [Awake(call, <<k, "nwrite">>) EXCEPT ![p].todo = <<>>, ![p].ret = n,
                                                        ![p].buf = SubSeq(pipe[k].data, 1, n)]
    /\ UNCHANGED <<inodeVars, ftable, proc, panic>>

\* The last close of a file closes its end of the pipe or puts its inode.
fileclose(p) ==
    LET f == Arg(p)  k == ftable[f].pipe  rest == Tail(call[p].todo)
        closed == IF ftable[f].writable THEN [pipe[k] EXCEPT !.writeopen = FALSE, !.cut = FALSE]
                                        ELSE [pipe[k] EXCEPT !.readopen = FALSE] IN
    /\ At(p, "fileclose")
    /\ ftable' = [ftable EXCEPT ![f] = IF @.ref = 1 THEN NoFile ELSE [@ EXCEPT !.ref = @ - 1]]
    /\ IF ftable[f].ref = 1 /\ ftable[f].type = "pipe"
       THEN /\ pipe' = [pipe EXCEPT ![k] = IF closed.readopen \/ closed.writeopen THEN closed ELSE NoPipe]
            /\ call' = [Awake(call, <<k, IF ftable[f].writable THEN "nread" ELSE "nwrite">>) EXCEPT ![p].todo = rest]
       ELSE /\ Go(p, [todo |-> IF ftable[f].ref = 1 THEN put(ftable[f].ip) \o rest ELSE rest])
            /\ UNCHANGED pipe
    /\ UNCHANGED <<inodeVars, proc, panic>>
-----------------------------------------------------------------------------
\* Processes: what fork, exit and wait do to files and directories.
fork(p, q) ==
    LET unused == {c \in Proc : proc[c].state = "unused"}  np == Min(unused)
        copied(f) == Cardinality({d \in 1..NOFILE : proc[p].ofile[d] = f}) IN
    IF unused = {} THEN Return(p, q, -1) /\ UNCHANGED fileVars
    ELSE /\ proc' = [proc EXCEPT ![np] = [proc[p] EXCEPT !.parent = p, !.killed = FALSE]]
         /\ ftable' = [f \in 1..NFILE |-> [ftable[f] EXCEPT !.ref = @ + copied(f)]]
         /\ idup(proc[p].cwd)
         /\ call' = [call EXCEPT ![p] = [req |-> q, ret |-> np] @@ @, ![np] = NoCall]
         /\ UNCHANGED <<inode, valid, lock, pipe, panic>>

exit(p, q) ==
    /\ Go(p, [req |-> q, todo |-> SelectSeq([d \in 1..NOFILE |-> <<"exitclose", d>>],
                                            LAMBDA x : proc[p].ofile[x[2]] # 0)
                                  \o put(proc[p].cwd) \o <<<<"zombie", 0>>>>])
    /\ UNCHANGED <<inodeVars, fileVars, panic>>

exitclose(p) ==
    LET d == Arg(p)  f == proc[p].ofile[d]  rest == Tail(call[p].todo) IN
    /\ At(p, "exitclose")
    /\ proc' = [proc EXCEPT ![p].ofile[d] = 0]
    /\ Go(p, [todo |-> <<<<"fileclose", f>>>> \o rest])
    /\ UNCHANGED <<inodeVars, ftable, pipe, panic>>

zombie(p) ==
    /\ At(p, "zombie")
    /\ proc' = [c \in Proc |-> IF c = p THEN [proc[p] EXCEPT !.state = "zombie", !.cwd = 0]
                               ELSE IF proc[c].parent = p THEN [proc[c] EXCEPT !.parent = 1] ELSE proc[c]]
    /\ Go(p, [todo |-> <<>>])
    /\ UNCHANGED <<inodeVars, ftable, pipe, panic>>

\* wait sleeps while all children run.
children(p) == {c \in Proc : proc[c].parent = p /\ proc[c].state # "unused"}
ChildrenRun(p) == children(p) # {} /\ \A c \in children(p) : proc[c].state = "running"

wait(p) ==
    LET zombies == {c \in children(p) : proc[c].state = "zombie"}  c == Min(zombies) IN
    /\ At(p, "wait")
    /\ \/ zombies # {} /\ proc' = [proc EXCEPT ![c] = Unused] /\ Done(p, c)
       \/ zombies = {} /\ (children(p) = {} \/ proc[p].killed) /\ Done(p, -1) /\ UNCHANGED proc
    /\ UNCHANGED <<inodeVars, ftable, pipe, panic>>

\* kill marks the process and wakes it wherever it sleeps; it exits where it
\* would go back to its program.
kill(p, q) ==
    IF proc[q.pid].state = "unused" THEN Return(p, q, -1) /\ UNCHANGED fileVars
    ELSE /\ proc' = [proc EXCEPT ![q.pid].killed = TRUE]
         /\ call' = [call EXCEPT ![q.pid].chan = <<>>, ![p] = [req |-> q, ret |-> 0, buf |-> <<>>] @@ @]
         /\ UNCHANGED <<inodeVars, ftable, pipe, panic>>

KilledExit(p) == Idle(p) /\ proc[p].killed /\ panic = "" /\ exit(p, [op |-> "exit"])
-----------------------------------------------------------------------------
\* Process p, between calls, makes the call q.
Syscall(p, q) ==
    /\ Idle(p) /\ ~proc[p].killed /\ panic = ""
    /\ \/ q.op = "open" /\ Enter(p, q, "CREATE" \in q.mode, IF "CREATE" \in q.mode THEN "create" ELSE "open")
       \/ q.op \in {"mkdir", "mknod"} /\ Enter(p, q, TRUE, "create")
       \/ q.op = "unlink" /\ Enter(p, q, TRUE, "unlink")
       \/ q.op \in {"link", "chdir", "exec"} /\ Enter(p, q, FALSE, q.op)
       \/ q.op = "dup" /\ sys_dup(p, q)
       \/ q.op = "read" /\ sys_read(p, q)
       \/ q.op = "write" /\ sys_write(p, q)
       \/ q.op = "fstat" /\ sys_fstat(p, q)
       \/ q.op = "close" /\ sys_close(p, q)
       \/ q.op = "pipe" /\ sys_pipe(p, q)
       \/ q.op = "fork" /\ fork(p, q)
       \/ q.op = "exit" /\ exit(p, q)
       \/ q.op = "wait" /\ OnFile(p, q, "wait", 0)
       \/ q.op = "kill" /\ kill(p, q)

Step(p) ==
    \/ ilockPanics(p) \/ iput(p) \/ iputDrop(p) \/ iunlock(p) \/ namex(p)
    \/ create(p) \/ created(p) \/ createold(p) \/ open(p) \/ chdir(p) \/ setcwd(p) \/ exec(p)
    \/ link(p) \/ link2(p) \/ linkbad(p) \/ unlink(p) \/ unlink2(p) \/ unlink3(p)
    \/ fileread(p) \/ filewrite(p) \/ filestat(p) \/ pipewrite(p) \/ piperead(p)
    \/ fileclose(p) \/ exitclose(p) \/ zombie(p) \/ wait(p)
-----------------------------------------------------------------------------
\* Links that are counted: the entries, ".." of each linked subdirectory, the
\* root, and the links which calls in progress have still to enter or to take back.
Linked(i) ==
    Cardinality(Entries(inode, i))
    + Cardinality({d \in Inum : inode[d].type = "dir" /\ inode[d].data[2].inum = i /\ Entries(inode, d) # {}})
    + Cardinality({p \in Proc : \E k \in DOMAIN call[p].todo :
            \/ call[p].todo[k] \in {<<"link2", i>>, <<"linkbad", i>>}
            \/ call[p].todo[k][1] = "unlink3" /\ call[p].ip = i})
    + (IF i = ROOTINO THEN 1 ELSE 0)

\* Every reference of the inode cache has a holder: open files and current
\* directories are counted at all times, and when no call is in progress
\* nothing else is (no path through a call leaks a reference or drops one
\* twice).  A file structure counts the descriptors that share it.
RefsCounted ==
    LET running == {p \in Proc : proc[p].state = "running"}
        holders(i) == Cardinality({f \in 1..NFILE : ftable[f].ip = i})
                      + Cardinality({p \in running : proc[p].cwd = i}) IN
    /\ (\A p \in running : call[p].todo = <<>>) => \A i \in Inum : ref[i] = holders(i)
    /\ \A f \in 1..NFILE : ftable[f].ref =
         Cardinality({x \in Proc \X (1..NOFILE) : proc[x[1]].ofile[x[2]] = f})
         + Cardinality({p \in Proc : call[p].todo # <<>> /\ Head(call[p].todo) = <<"fileclose", f>>})

\* A panic has one of three reasons: a path through the ".." of a directory
\* that is still in use after it was unlinked, which names an inode that may be
\* freed (ilock); NINODE inodes are referenced and one more is wanted (iget); all
\* inodes of the disk are allocated (ialloc).
PanicsKnown ==
    \/ panic = ""
    \/ /\ panic = "ilock: no type"
       /\ \E p \in Proc, d \in Inum : /\ Wants(p) # 0 /\ inode[Wants(p)].type = "free"
                                      /\ inode[d].type = "dir" /\ inode[d].nlink = 0
                                      /\ dirlookup(inode, d, "..") = Wants(p)
    \/ panic = "iget: no inodes" /\ Cardinality({i \in Inum : ref[i] > 0}) = NINODE
    \/ panic = "ialloc: no inodes" /\ \A i \in Inum : inode[i].type # "free"

\* A process sleeps in a pipe only while it has to: a reader while the pipe is
\* empty and can still be written, a writer while it is full and can still be
\* read, and neither when killed (every write, read, close and kill wakes whom
\* it concerns).  One wakeup is missing in the code: a writer that was killed
\* while it filled the pipe returns without waking the readers, who sleep beside
\* its data until the next write or close.
PipeSleepersBlocked ==
    \A p \in Proc : call[p].chan # <<>> =>
      LET k == call[p].chan[1] IN
      /\ ~proc[p].killed
      /\ IF call[p].chan[2] = "nread" THEN (pipe[k].data = <<>> \/ pipe[k].cut) /\ pipe[k].writeopen
         ELSE Len(pipe[k].data) = PIPESIZE /\ pipe[k].readopen

\* Process p sleeps on a pipe, for a child or for the console, or the lock it wants is held.
HeldUp(p) ==
    \/ call[p].chan # <<>>
    \/ Wants(p) # 0 /\ lock[Wants(p)] # 0
    \/ /\ ~proc[p].killed
       /\ \/ Head(call[p].todo)[1] = "wait" /\ ChildrenRun(p)
          \/ Head(call[p].todo)[1] = "fileread" /\ inode[Arg(p)].type = "dev"

\* Process p holds an inode lock while it waits for another one in iput, and
\* the holder of that one is p itself or waits for what p holds.
CrossedInIput(p) ==
    /\ call[p].todo # <<>> /\ Head(call[p].todo)[1] = "iput"
    /\ LET r == lock[Arg(p)] IN
       /\ r # 0
       /\ r = p \/ (Wants(r) # 0 /\ lock[Wants(r)] = p)
=============================================================================
