------------------------------ MODULE Library ------------------------------
(***************************************************************************)
(* The functions on memory, strings and numbers that kernel and programs   *)
(* share (string.c, ulib.c, printf.c, console.c, fs.c, syscall.c) and the  *)
(* airport's helper.h.  Characters are codes; a string is the sequence of  *)
(* its characters without the NUL; a buffer is a function from 0 on.       *)
(* The variable call is one call of a function: its arguments and result.  *)
(***************************************************************************)
EXTENDS Integers, Sequences, SequencesExt

CONSTANTS MEM,        \* bytes of the memory that memmove works on
          Strings,    \* strings handed to the string functions
          DIRSIZ,     \* length of a name field
          Paths,      \* paths, sequences over characters and Slash
          Half,       \* ints are -Half .. Half-1
          Formats, Args,  \* formats of printf and argument lists
          MAX,        \* size of the buffer that gets fills
          KERNBASE4   \* upper bound of a process's size, in words of 4 bytes

ASSUME LibraryAssumption == {MEM, DIRSIZ, Half, MAX, KERNBASE4} \subseteq Nat \ {0}

VARIABLE call

NUL == 0
Newline == 10
Return == 13
Percent == 37
Minus == 45
Slash == 47
Digit0 == 48
UWord == 2 * Half
Unsigned(x) == x % UWord
Signed(x) == IF Unsigned(x) < Half THEN Unsigned(x) ELSE Unsigned(x) - UWord
\* The character at offset i of the string s, NUL at its end.
CharOf(s, i) == IF i < Len(s) THEN s[i + 1] ELSE NUL
LesserOf(a, b) == IF a < b THEN a ELSE b
-----------------------------------------------------------------------------
\* Copy byte by byte, in the order of the given offsets.
CopyBytes(m, dst, src, offsets) == FoldLeft(LAMBDA mem, i : [mem EXCEPT ![dst + i] = mem[src + i]], m, offsets)
Upward(n) == [i \in 1..n |-> i - 1]
Downward(n) == [i \in 1..n |-> n - i]
\* Mutant: always upward, as the user library does.
memmoveUpward(m, dst, src, n) == CopyBytes(m, dst, src, Upward(n))
memmove(m, dst, src, n) ==
    IF src < dst /\ src + n > dst THEN CopyBytes(m, dst, src, Downward(n)) ELSE CopyBytes(m, dst, src, Upward(n))
\* The user library's memmove.
umemmove(m, dst, src, n) == CopyBytes(m, dst, src, Upward(n))
\* memset by words when address and length allow it, by bytes otherwise.
memset(m, dst, c, n) ==
    IF dst % 4 = 0 /\ n % 4 = 0
    THEN FoldLeft(LAMBDA mem, w : [a \in DOMAIN mem |-> IF a \div 4 = dst \div 4 + w THEN c ELSE mem[a]], m, Upward(n \div 4))
    ELSE [a \in DOMAIN m |-> IF a \in dst..(dst + n - 1) THEN c ELSE m[a]]
-----------------------------------------------------------------------------
\* The first offset at which p and q differ or end; n bounds it.
Stop(p, q, n) == CHOOSE i \in 0..n : /\ i = n \/ CharOf(p, i) = NUL \/ CharOf(p, i) # CharOf(q, i)
                                     /\ \A j \in 0..(i - 1) : CharOf(p, j) # NUL /\ CharOf(p, j) = CharOf(q, j)
strncmp(p, q, n) == LET i == Stop(p, q, n) IN IF i = n THEN 0 ELSE CharOf(p, i) - CharOf(q, i)
strcmp(p, q) == LET i == Stop(p, q, Len(p)) IN CharOf(p, i) - CharOf(q, i)
strncpy(t, n) == [i \in 0..(n - 1) |-> CharOf(t, i)]
safestrcpy(s, t, n) ==
    LET k == LesserOf(n - 1, Len(t)) IN
    IF n <= 0 THEN s ELSE [i \in DOMAIN s |-> IF i < k THEN t[i + 1] ELSE IF i = k THEN NUL ELSE s[i]]
\* The string that a buffer of n cells holds, reading at most to its end.
StringIn(b, n) == LET Ends(i) == i = n \/ b[i] = NUL
                      k == CHOOSE i \in 0..n : Ends(i) /\ \A j \in 0..(i - 1) : ~Ends(j) IN
                  [i \in 1..k |-> b[i - 1]]
\* The name field of a directory entry, as namecmp reads it: no NUL needed.
Field(b) == [i \in 1..DIRSIZ |-> b[i - 1]]
\* One call of gets: the line, and what is left of the input.
gets(in) ==
    LET ends == {i \in 1..Len(in) : i = MAX - 1 \/ in[i] \in {Newline, Return}}
        n == IF ends = {} THEN Len(in) ELSE CHOOSE i \in ends : \A j \in ends : i <= j IN
    [line |-> SubSeq(in, 1, n), rest |-> SubSeq(in, n + 1, Len(in))]
RECURSIVE Lines(_)
Lines(in) == IF in = <<>> THEN <<>> ELSE LET g == gets(in) IN <<g.line>> \o Lines(g.rest)
-----------------------------------------------------------------------------
\* The end of the element that begins at the head of path.
RECURSIVE AfterSlashes(_)
AfterSlashes(path) == IF path # <<>> /\ Head(path) = Slash THEN AfterSlashes(Tail(path)) ELSE path
RECURSIVE ElementLength(_)
ElementLength(path) == IF path = <<>> \/ Head(path) = Slash THEN 0 ELSE 1 + ElementLength(Tail(path))
skipelem(path) ==
    LET s == AfterSlashes(path)
        len == ElementLength(s) IN
    [found |-> s # <<>>, name |-> SubSeq(s, 1, LesserOf(len, DIRSIZ)), rest |-> AfterSlashes(SubSeq(s, len + 1, Len(s)))]
\* The loop of namex: the names it looks up, and whether each is the last one.
RECURSIVE Elements(_)
Elements(path) ==
    LET e == skipelem(path) IN
    IF ~e.found THEN <<>> ELSE <<[name |-> e.name, last |-> e.rest = <<>>]>> \o Elements(e.rest)
-----------------------------------------------------------------------------
RECURSIVE Digits(_, _)
Digits(x, base) == IF x < base THEN <<x>> ELSE Append(Digits(x \div base, base), x % base)
\* printint: the digits, -1 for the minus sign; x is unsigned, -xx may wrap.
DigitsPrinted(xx, base, sgn) ==
    IF sgn /\ xx < 0 THEN <<-1>> \o Digits(Unsigned(-xx), base) ELSE Digits(Unsigned(xx), base)
printint(xx, base, sgn, letter) ==
    LET d == DigitsPrinted(xx, base, sgn) IN
    [i \in DOMAIN d |-> IF d[i] = -1 THEN Minus ELSE IF d[i] < 10 THEN Digit0 + d[i] ELSE letter + d[i] - 10]
UpperA == 65
LowerA == 97
\* atoi reads digits up to the first other character.
RECURSIVE atoiFrom(_, _)
atoiFrom(s, n) == IF s = <<>> \/ Head(s) \notin Digit0..(Digit0 + 9) THEN n ELSE atoiFrom(Tail(s), Signed(n * 10 + Head(s) - Digit0))
atoi(s) == atoiFrom(s, 0)
\* itoa of the swap file's name, for the process numbers it is called with.
itoa(i) == LET d == Digits(i, 10) IN [k \in DOMAIN d |-> Digit0 + d[k]]
\* int_to_char: arr1 gets the digits from index 1 on, arr is its reverse; the
\* last cell that is written in either array is cell number digit, one too far.
RECURSIVE DigitCount(_)
DigitCount(m) == IF m = 0 THEN 0 ELSE 1 + DigitCount(m \div 10)
RECURSIVE arr1(_)
arr1(N) == IF N = 0 THEN <<>> ELSE <<(N % 10) + Digit0>> \o arr1(N \div 10)
int_to_char(N) ==
    LET index == Len(arr1(N)) IN
    [text |-> [i \in 1..index |-> arr1(N)[index + 1 - i]], size |-> DigitCount(N), lastCell |-> index]
-----------------------------------------------------------------------------
NullText == <<40, 110, 117, 108, 108, 41>>
\* The string at an address: the k-th argument string, none at 0.
Text(w) == IF w = 0 THEN NullText ELSE [i \in 1..(w % 3) |-> 97]
ArgAt(args, k) == IF k <= Len(args) THEN args[k] ELSE 0
\* printf as a machine over the format: state, arguments taken, output.
printfChar(p, c, args) ==
    LET Put(chars) == [p EXCEPT !.out = @ \o chars, !.state = 0]
        Arg(chars) == [p EXCEPT !.out = @ \o chars, !.state = 0, !.ap = @ + 1]
        a == ArgAt(args, p.ap) IN
    CASE p.state = 0 -> IF c = Percent THEN [p EXCEPT !.state = Percent] ELSE Put(<<c>>)
      [] p.state = Percent /\ c = 100 -> Arg(printint(Signed(a), 10, TRUE, UpperA))
      [] p.state = Percent /\ c \in {112, 120} -> Arg(printint(Signed(a), 16, FALSE, UpperA))
      [] p.state = Percent /\ c = 115 -> Arg(Text(a))
      [] p.state = Percent /\ c = 99 -> Arg(<<a>>)
      [] p.state = Percent /\ c = Percent -> Put(<<c>>)
      [] OTHER -> Put(<<Percent, c>>)
printf(fmt, args) == FoldLeft(LAMBDA p, c : printfChar(p, c, args), [state |-> 0, ap |-> 1, out |-> <<>>], fmt).out
\* cprintf looks at the character after the % at once; it knows no %c.
RECURSIVE cprintfFrom(_, _, _)
cprintfFrom(fmt, args, ap) ==
    IF fmt = <<>> \/ fmt = <<Percent>> THEN <<>>
    ELSE IF Head(fmt) # Percent THEN <<Head(fmt)>> \o cprintfFrom(Tail(fmt), args, ap)
    ELSE LET c == fmt[2]
             rest == SubSeq(fmt, 3, Len(fmt))
             a == ArgAt(args, ap) IN
         CASE c = 100 -> printint(Signed(a), 10, TRUE, LowerA) \o cprintfFrom(rest, args, ap + 1)
           [] c \in {112, 120} -> printint(Signed(a), 16, FALSE, LowerA) \o cprintfFrom(rest, args, ap + 1)
           [] c = 115 -> Text(a) \o cprintfFrom(rest, args, ap + 1)
           [] c = Percent -> <<Percent>> \o cprintfFrom(rest, args, ap)
           [] OTHER -> <<Percent, c>> \o cprintfFrom(rest, args, ap)
cprintf(fmt, args) == cprintfFrom(fmt, args, 1)
-----------------------------------------------------------------------------
\* System call arguments: stack pointer, size of the process and the word that
\* the argument holds; addresses are words of UWord bytes that wrap around.
fetchint(addr, sz) == ~(addr >= sz \/ Unsigned(addr + 4) > sz)
argint(n, esp, sz) == fetchint(Unsigned(esp + 4 + 4 * n), sz)
argptr(n, esp, sz, i, size) == argint(n, esp, sz) /\ ~(size < 0 \/ i >= sz \/ Unsigned(i + size) > sz)
\* fetchstr: the length of the string at addr, whose NULs are given, or -1.
fetchstr(addr, sz, nuls) ==
    LET at == {s \in nuls : addr <= s /\ s < sz} IN
    IF addr >= sz \/ at = {} THEN -1 ELSE (CHOOSE s \in at : \A t \in at : s <= t) - addr
argstr(n, esp, sz, i, nuls) == IF argint(n, esp, sz) THEN fetchstr(i, sz, nuls) ELSE -1
-----------------------------------------------------------------------------
Memory == [a \in 0..(MEM - 1) |-> a + 1]
Returns(fn, in, out) == call' = [fn |-> fn, in |-> in, out |-> out]
LibraryInit == call = [fn |-> "none", in |-> <<>>, out |-> <<>>]
callMove == \E dst, src \in DOMAIN Memory : \E n \in 0..LesserOf(MEM - dst, MEM - src) :
    Returns("memmove", <<dst, src, n>>, <<memmove(Memory, dst, src, n), umemmove(Memory, dst, src, n), memset(Memory, dst, 99, n)>>)
callStrings == \E s, t \in Strings : \E n \in 0..MAX :
    Returns("strings", <<s, t, n>>, <<strncmp(Field(strncpy(s, DIRSIZ)), t, DIRSIZ), safestrcpy(strncpy(s, MAX), t, n), strcmp(s, t)>>)
callGets == \E s, t \in Strings, end \in {Newline, Return} : LET in == s \o <<end>> \o t IN Returns("gets", in, Lines(in))
callPath == \E p \in Paths : Returns("path", p, Elements(p))
callNumber == \E v \in (-Half)..(Half - 1), base \in {4, 10, 16} :
    Returns("number", <<v, base>>, <<DigitsPrinted(v, base, TRUE), DigitsPrinted(v, base, FALSE)>>)
callDecimal == \E v \in 0..(Half - 1) : Returns("decimal", v, <<itoa(v), int_to_char(v), printint(v, 10, TRUE, UpperA)>>)
callPrintf == \E f \in Formats, a \in Args : Returns("printf", f, <<printf(f, a), cprintf(f, a)>>)
callArgs == \E i \in 0..(UWord - 1), w \in 1..KERNBASE4, size \in (-Half)..(Half - 1) : LET sz == 4 * w IN
  \E esp \in {0, sz - 8, sz - 4, UWord - 8} :
    Returns("args", <<i, sz, size, esp>>, <<argptr(0, esp, sz, i, size), argstr(0, esp, sz, i, {UWord - 1, i + 3})>>)
LibraryNext == call.fn = "none" /\ (callMove \/ callStrings \/ callGets \/ callPath \/ callNumber \/ callDecimal \/ callPrintf \/ callArgs)
-----------------------------------------------------------------------------
Called(fn) == call.fn = fn
\* Text is neither lost nor invented: memmove copies overlapping memory as if all
\* bytes moved at once (the user library's only when it does not move up into
\* itself) and memset fills its range and no more; names in a directory compare
\* equal exactly when their first DIRSIZ characters are equal, with or without a
\* NUL in the field; safestrcpy leaves a terminated prefix inside the buffer;
\* the lines of successive gets are the input, cut after each line end and where
\* the buffer is full; and the elements that namex gets
\* from skipelem are the maximal runs between slashes, only the last one last.
TextIntact ==
    /\ Called("memmove") =>
         LET dst == call.in[1]  src == call.in[2]  n == call.in[3]
             Filled(f(_)) == [a \in DOMAIN Memory |-> IF a \in dst..(dst + n - 1) THEN f(a) ELSE Memory[a]]
             Moved == Filled(LAMBDA a : Memory[a - dst + src]) IN
         /\ call.out[1] = Moved /\ call.out[3] = Filled(LAMBDA a : 99)
         /\ (call.out[2] = Moved) = ~(src < dst /\ dst < src + n)
    /\ Called("strings") =>
         LET s == call.in[1]  t == call.in[2]  n == call.in[3]
             Prefix(u) == SubSeq(u, 1, LesserOf(DIRSIZ, Len(u))) IN
         /\ (call.out[1] = 0) = (Prefix(s) = Prefix(t)) /\ (call.out[3] = 0) = (s = t)
         /\ n > 0 => StringIn(call.out[2], n) = SubSeq(t, 1, LesserOf(n - 1, Len(t)))
         /\ \A i \in n..(MAX - 1) : call.out[2][i] = CharOf(s, i)
    /\ Called("gets") =>
         /\ FlattenSeq(call.out) = call.in
         /\ \A i \in DOMAIN call.out :
              LET line == call.out[i] IN
              /\ Len(line) \in 1..(MAX - 1)
              /\ \A k \in DOMAIN line : line[k] \in {Newline, Return} => k = Len(line)
              /\ Len(line) = MAX - 1 \/ i = Len(call.out) \/ line[Len(line)] \in {Newline, Return}
    /\ Called("path") =>
         LET p == call.in
             starts == {i \in DOMAIN p : p[i] # Slash /\ (i = 1 \/ p[i - 1] = Slash)}
             End(i) == CHOOSE j \in i..Len(p) : (j = Len(p) \/ p[j + 1] = Slash) /\ \A k \in i..j : p[k] # Slash
             order == SetToSortSeq(starts, <) IN
         call.out = [k \in DOMAIN order |-> [name |-> SubSeq(p, order[k], LesserOf(End(order[k]), order[k] + DIRSIZ - 1)),
                                             last |-> k = Len(order)]]

\* The digits of d, as a number in the base.
ValueOf(d, base) == FoldLeft(LAMBDA v, x : v * base + x, 0, d)
FoldCase(s) == [i \in DOMAIN s |-> IF s[i] \in 65..70 THEN s[i] + 32 ELSE s[i]]
HasChar(f) == \E i \in 1..(Len(f) - 1) : f[i] = Percent /\ f[i + 1] = 99
\* Numbers survive their way to text and back: printint prints every int, the
\* least one included, as signed or unsigned number without leading zeros; itoa
\* and printint agree and atoi reads them back; int_to_char agrees with them for
\* all but 0, which becomes the empty string, and writes one cell past its
\* arrays; printf and cprintf print the same, case aside, unless %c occurs.
NumbersPrinted ==
    /\ Called("number") =>
         LET v == call.in[1]  base == call.in[2]
             Good(d, x) == ValueOf(d, base) = x /\ (Len(d) > 1 => d[1] # 0) /\ \A i \in DOMAIN d : d[i] \in 0..(base - 1) IN
         /\ IF v < 0 THEN call.out[1][1] = -1 /\ Good(Tail(call.out[1]), -v) ELSE Good(call.out[1], v)
         /\ Good(call.out[2], Unsigned(v))
    /\ Called("decimal") =>
         LET v == call.in  text == call.out[2].text IN
         /\ call.out[1] = call.out[3] /\ atoi(call.out[1]) = v
         /\ IF v = 0 THEN text = <<>> ELSE text = call.out[1]
         /\ call.out[2].lastCell = call.out[2].size
    /\ Called("printf") /\ ~HasChar(call.in) => FoldCase(call.out[1]) = call.out[2]

\* Whatever words a program passes, with addresses and sizes that wrap around:
\* a pointer that argptr accepts lies with all its bytes below the size of the
\* process, and a string that argstr accepts ends below it.
ArgumentsInside ==
    Called("args") =>
      LET i == call.in[1]  sz == call.in[2]  size == call.in[3]  esp == call.in[4] IN
      /\ call.out[1] => size >= 0 /\ i + size <= sz /\ esp + 8 <= sz
      /\ call.out[2] >= 0 => i + call.out[2] < sz /\ esp + 8 <= sz
=============================================================================
