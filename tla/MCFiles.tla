------------------------------- MODULE MCFiles -------------------------------
(***************************************************************************)
(* The tests of usertests.c, and processes that make any calls, on a small *)
(* disk.                                                                   *)
(***************************************************************************)
EXTENDS Shell

MCLongName == [n \in {"123456789012345"} |-> "12345678901234"]

\* Parent and child make any two calls each on one directory and its file; the
\* child links nothing and stays where it is.
anycalls ==
    LET d == rel(<<"d">>)  x == rel(<<"d", "x">>)
        calls == {Mkdir(d), Unlink(d), Open(x, O_NEW), Unlink(x)} IN
    <<ok(Mkdir(d)) \o forks(2) \o times(2, oneof(calls \cup {Link(rel(<<"cat">>), x), Chdir(d)})),
      times(2, oneof(calls)) \o exits>>

\* A directory that stays in use after it and its parent were removed.
orphan ==
    LET a == rel(<<"a">>)  b == rel(<<"a", "b">>) IN
    <<ok(Mkdir(a)) \o ok(Mkdir(b)) \o forks(2) \o oneof({Unlink(b), Chdir(b)}) \o any(Unlink(a)) \o waits,
      oneof({Chdir(b), Open(b, O_RDONLY)}) \o oneof({Chdir(rel(<<"..">>)), Unlink([b EXCEPT !.abs = TRUE])}) \o
      oneof({Mkdir(rel(<<"c">>)), Chdir(rel(<<"..">>)), Mknod(rel(<<"..", "a">>))}) \o exits>>

\* The structures run out: descriptors, files, pages for pipes.
limits ==
    LET f == rel(<<"cat">>) IN
    <<forks(2) \o times(2, oneof({Open(f, O_RDONLY), Op("pipe")})) \o
      oneof({On("dup", 0), On("dup", 7), On("fstat", 0)}) \o any(Write(0, <<"w">>)) \o waits,
      oneof({Open(f, O_RDONLY), Op("pipe")}) \o oneof({On("dup", 0), On("fstat", 0), Write(1, <<"v">>)}) \o
      oneof({Op("pipe"), On("close", 0)}) \o exits>>

\* The disk and the inode cache run out of inodes.
inodes ==
    LET make(k) == any(Open(rel(<<Numbered[k]>>), O_NEW)) IN
    alone(oneof({Mkdir(rel(<<"d">>)), Open(rel(<<"README">>), O_RDONLY)}) \o
          any(Chdir(rel(<<"d">>))) \o each(4, make) \o
          oneof({Open([abs |-> TRUE, elems |-> <<"echo">>], O_RDONLY), On("close", 0)}) \o
          any(Mkdir(rel(<<"e">>))) \o any(Mkdir(rel(<<"g">>))))

\* Reader and writer of a pipe are killed.
killpipe ==
    <<ok(Op("pipe")) \o forks(2) \o forks(3) \o close(0) \o close(1) \o
      times(2, oneof({Kill(2), Kill(3)})) \o any(Kill(4)) \o waits \o waits,
      close(1) \o times(2, any(Read(0, 1))) \o exits,
      close(0) \o times(2, any(Write(1, <<"a", "b", "c">>))) \o exits>>

\* A process that waits for its child, and the child, at a pipe or at the console.
killwait ==
    <<ok(Mknod(rel(<<"console">>))) \o ok(Open(rel(<<"console">>), O_RDWR)) \o ok(Op("pipe")) \o forks(2) \o
      any(Kill(2)) \o gives(Op("wait"), 2) \o any(Kill(3)) \o any(Op("wait")),
      forks(3) \o any(Op("wait")) \o exits,
      oneof({Read(0, 1), Read(1, 1)}) \o exits>>

\* Lines for the shell.
Lines ==
    [redirect |-> <<"echo", ">", "f", ";", "wc", "<", "f", "<", "README">>,
     pipeline |-> <<"echo", "|", "wc">>, copy |-> <<"cat", "README", "|", "cat">>,
     broken |-> <<"echo", "|", "(", "nosuch", ")">>, empty |-> <<"nosuch", "|", "wc">>,
     unread |-> <<"cat", "nosuch", "|", "rm">>, background |-> <<"echo", "&", ";", "wc", "<", "cat">>,
     dirs |-> <<"mkdir", "d", "d", "e", ";", "rm", "e", "d">>, links |-> <<"ln", "cat", "f", ";", "cat", "f">>,
     stress |-> <<"stressfs">>, orphans |-> <<"zombie", ";", "zombie">>]
MCOthers == [anycalls |-> anycalls, orphan |-> orphan, limits |-> limits, inodes |-> inodes,
             killpipe |-> killpipe, killwait |-> killwait, cd |-> cd("d")]
            @@ [l \in DOMAIN Lines |-> sh(Lines[l])]
=============================================================================
