------------------------------ MODULE Console ------------------------------
(***************************************************************************)
(* The console: keyboard (kbd.c) and serial line (uart.c) feed             *)
(* consoleintr, which edits a line in a ring buffer; readers take finished *)
(* lines (consoleread); echo and consolewrite go to the CGA screen.  A     *)
(* step is what runs with cons.lock held.  There is one processor, as the  *)
(* Makefile starts: kill takes ptable.lock and not cons.lock, so with two  *)
(* a kill may come between consoleread's test of killed and its sleep,     *)
(* and is missed until the next line.  Variables:                          *)
(*   input  the ring buffer and its indices r, w, e (modulo 2^32: CWord)   *)
(*   rd     the readers: step, characters wanted and got, asleep, killed   *)
(*   cursor the position on the screen                                     *)
(*   shift  the modifiers kbdgetc remembers;  held  the keys that are down *)
(*   typed  characters and key codes received                              *)
(***************************************************************************)
EXTENDS Integers, Sequences, SequencesExt, FiniteSets

CONSTANTS Reader, ReadSizes,    \* processes that read; sizes they ask for
          INPUT_BUF, CWord,     \* size of the ring; modulus of its indices
          First,                \* value of the indices at the start
          COLS, ROWS,           \* 80 and 25
          SerialChars,          \* what may come over the serial line
          Keys,                 \* keys that are used: LSHIFT, LCTL, RCTL, CAPS, D, U
          MaxTyped              \* bound on the characters received

ASSUME ConsoleAssumption ==
    /\ {INPUT_BUF, COLS, ROWS} \subseteq Nat \ {0} /\ INPUT_BUF < CWord
    /\ CWord \in Nat /\ First \in 0..(CWord - 1) /\ CWord % INPUT_BUF = 0
    /\ ReadSizes \subseteq Nat \ {0} /\ ROWS > 1

VARIABLES input, rd, cursor, shift, held, typed
consoleVars == <<input, rd, cursor, shift, held, typed>>

ConsoleInit ==
    /\ input = [buf |-> [i \in 0..(INPUT_BUF - 1) |-> "nul"], r |-> First, w |-> First, e |-> First]
    /\ rd = [p \in Reader |-> [step |-> "idle", n |-> 0, got |-> <<>>, asleep |-> FALSE, killed |-> FALSE, ret |-> 0]]
    /\ cursor = 0 /\ shift = {} /\ held = {} /\ typed = 0
-----------------------------------------------------------------------------
\* Mutant: the screen scrolls one row too late.
cgaputcLate(pos, c) ==
    LET moved == CASE c = "nl" -> pos + COLS - (pos % COLS)
                   [] c = "BACKSPACE" -> IF pos > 0 THEN pos - 1 ELSE pos
                   [] OTHER -> pos + 1 IN
    IF moved \div COLS > ROWS - 1 THEN moved - COLS ELSE moved
\* cgaputc: where the cursor is after c; the screen scrolls in its last row.
cgaputc(pos, c) ==
    LET moved == CASE c = "nl" -> pos + COLS - (pos % COLS)
                   [] c = "BACKSPACE" -> IF pos > 0 THEN pos - 1 ELSE pos
                   [] OTHER -> pos + 1 IN
    IF moved \div COLS >= ROWS - 1 THEN moved - COLS ELSE moved
consputc(pos, cs) ==
    LET after[k \in 0..Len(cs)] == IF k = 0 THEN pos ELSE cgaputc(after[k - 1], cs[k]) IN after[Len(cs)]
-----------------------------------------------------------------------------
inc(i) == (i + 1) % CWord
dec(i) == (i - 1) % CWord
CharAt(in, i) == in.buf[i % INPUT_BUF]
\* The characters from index i up to index j.
Slice(in, i, j) == [k \in 1..((j - i) % CWord) |-> CharAt(in, i + k - 1)]

\* Mutant: nobody is woken.
WakeupNobody(table) == table
\* wakeup(&input.r): the readers.
Wakeup(table) == [p \in Reader |-> [table[p] EXCEPT !.asleep = FALSE]]

\* Mutant: one character more than the ring holds.
HasRoomForOneMore(in) == (in.e - in.r) % CWord <= INPUT_BUF
HasRoom(in) == (in.e - in.r) % CWord < INPUT_BUF

\* One character from the keyboard or the serial line.
consoleintr(c) ==
    CASE c \in {"nul", "^P"} -> UNCHANGED <<input, rd, cursor>>
      [] c = "^U" ->
           LET n == (input.e - input.w) % CWord
               stop == {k \in 1..n : CharAt(input, input.e - k) = "nl"}
               erased == IF stop = {} THEN n ELSE (CHOOSE k \in stop : \A j \in stop : k <= j) - 1 IN
           /\ input' = [input EXCEPT !.e = (@ - erased) % CWord]
           /\ cursor' = consputc(cursor, [k \in 1..erased |-> "BACKSPACE"])
           /\ UNCHANGED rd
      [] c = "^H" ->
           /\ input' = IF input.e # input.w THEN [input EXCEPT !.e = dec(@)] ELSE input
           /\ cursor' = IF input.e # input.w THEN consputc(cursor, <<"BACKSPACE">>) ELSE cursor
           /\ UNCHANGED rd
      [] c \notin {"nul", "^P", "^U", "^H"} ->
           LET k == IF c = "cr" THEN "nl" ELSE c
               e == inc(input.e)
               stored == [input EXCEPT !.buf = [@ EXCEPT ![input.e % INPUT_BUF] = k], !.e = e]
               whole == k \in {"nl", "^D"} \/ e = (input.r + INPUT_BUF) % CWord IN
           IF HasRoom(input)
           THEN /\ input' = IF whole THEN [stored EXCEPT !.w = e] ELSE stored
                /\ cursor' = consputc(cursor, <<k>>)
                /\ rd' = IF whole THEN Wakeup(rd) ELSE rd
           ELSE UNCHANGED <<input, rd, cursor>>

Receive == typed < MaxTyped /\ typed' = typed + 1

uartintr ==
    \E c \in SerialChars : Receive /\ consoleintr(c) /\ UNCHANGED <<shift, held>>
-----------------------------------------------------------------------------
\* The keyboard: shiftcode, togglecode, and the three character maps, for the
\* keys shift, control (left, and right after an E0 byte), caps lock, D, U.
shiftcode(k) == CASE k = "LSHIFT" -> {"SHIFT"} [] k \in {"LCTL", "RCTL"} -> {"CTL"} [] OTHER -> {}
togglecode(k) == IF k = "CAPS" THEN {"CAPSLOCK"} ELSE {}
charcode(mods, k) ==
    CASE k \notin {"D", "U"} -> "nul"
      [] k = "D" -> IF "CTL" \in mods THEN "^D" ELSE IF "SHIFT" \in mods THEN "D" ELSE "d"
      [] k = "U" -> IF "CTL" \in mods THEN "^U" ELSE IF "SHIFT" \in mods THEN "U" ELSE "u"
swapcase(c) == CASE c = "d" -> "D" [] c = "D" -> "d" [] c = "u" -> "U" [] c = "U" -> "u" [] OTHER -> c

\* The key a code 0..127 stands for, alone and after an E0 byte.
Extended(k) == IF k = "LCTL" THEN "RCTL" ELSE "none"
Xor(a, b) == (a \ b) \cup (b \ a)

\* kbdgetc on an E0 byte, a release and a press: [shift, c].
kbdE0(sh) == [shift |-> sh \cup {"E0ESC"}, c |-> "nul"]
kbdUp(sh, k) ==
    LET key == IF "E0ESC" \in sh THEN Extended(k) ELSE k IN
    [shift |-> sh \ (shiftcode(key) \cup {"E0ESC"}), c |-> "nul"]
kbdDown(sh, k) ==
    LET key == IF "E0ESC" \in sh THEN Extended(k) ELSE k
        now == Xor((sh \ {"E0ESC"}) \cup shiftcode(key), togglecode(key))
        c == charcode(now, key) IN
    [shift |-> now, c |-> IF "CAPSLOCK" \in now THEN swapcase(c) ELSE c]

\* A key goes down or up (the right control key sends E0 first).
kbdintr(k) ==
    LET code == IF k = "RCTL" THEN "LCTL" ELSE k
        sh == IF k = "RCTL" THEN kbdE0(shift).shift ELSE shift
        g == IF k \in held THEN kbdUp(sh, code) ELSE kbdDown(sh, code) IN
    /\ Receive
    /\ held' = Xor(held, {k})
    /\ shift' = g.shift
    /\ consoleintr(g.c)
-----------------------------------------------------------------------------
consoleread(p, n) ==
    /\ rd[p].step = "idle" /\ rd[p].ret = 0 /\ ~rd[p].killed
    /\ rd' = [rd EXCEPT ![p] = [@ EXCEPT !.step = "read", !.n = n, !.got = <<>>]]
    /\ UNCHANGED <<input, cursor, shift, held, typed>>

\* One character, or sleep, or the end of the call.  A ^D ends the call; if the
\* caller already has characters it is put back, to end the next call at once.
readChar(p) ==
    LET me == rd[p]
        c == CharAt(input, input.r)
        return == [me EXCEPT !.step = "idle", !.got = <<>>, !.n = 0] IN
    /\ me.step = "read" /\ ~me.asleep
    /\ CASE input.r = input.w ->
              /\ rd' = [rd EXCEPT ![p] = IF me.killed THEN [return EXCEPT !.ret = -1] ELSE [me EXCEPT !.asleep = TRUE]]
              /\ UNCHANGED input
         [] input.r # input.w /\ c = "^D" ->
              /\ rd' = [rd EXCEPT ![p] = return]
              /\ input' = IF me.got # <<>> THEN input ELSE [input EXCEPT !.r = inc(@)]
         [] input.r # input.w /\ c # "^D" ->
              /\ input' = [input EXCEPT !.r = inc(@)]
              /\ rd' = [rd EXCEPT ![p] = IF me.n = 1 \/ c = "nl" THEN return
                                         ELSE [me EXCEPT !.got = Append(@, c), !.n = @ - 1]]
    /\ UNCHANGED <<cursor, shift, held, typed>>

killReader(p) ==
    /\ ~rd[p].killed /\ rd' = [rd EXCEPT ![p] = [@ EXCEPT !.killed = TRUE, !.asleep = FALSE]]
    /\ UNCHANGED <<input, cursor, shift, held, typed>>

\* A process or the kernel prints while input arrives.
consolewrite(cs) ==
    /\ cursor' = consputc(cursor, cs)
    /\ Receive
    /\ UNCHANGED <<input, rd, shift, held>>

ConsoleNext ==
    \/ uartintr
    \/ \E k \in Keys : kbdintr(k)
    \/ \E p \in Reader : (\E n \in ReadSizes : consoleread(p, n)) \/ readChar(p) \/ killReader(p)
    \/ consolewrite(<<"x", "nl">>)
ConsoleSpec == ConsoleInit /\ [][ConsoleNext]_consoleVars
-----------------------------------------------------------------------------
\* The characters a line may hold: the control keys act at once.
Characters == (SerialChars \cup {"nl", "^D", "d", "D", "u", "U"}) \ {"cr", "nul", "^P", "^U", "^H"}
\* The ring buffer is a line editor with a queue: what is typed comes out once,
\* in order, edited, also when the indices wrap and when the ring is full.
Editor == INSTANCE LineEditor WITH
    Limit <- INPUT_BUF, Ends <- {"nl", "^D"}, Chars <- Characters,
    queue <- Slice(input, input.r, input.w), line <- Slice(input, input.w, input.e)
EditsLines == Editor!Edit

\* A reader sleeps only while there is nothing to read and (on one processor)
\* nobody killed it.
ReadersWoken == \A p \in Reader : rd[p].asleep => input.r = input.w /\ ~rd[p].killed

\* A modifier is on only while a key for it is down; every echo and erase and
\* every line printed leaves the cursor on the screen.
ModifiersHeld == shift \ {"CAPSLOCK"} \subseteq UNION {shiftcode(k) : k \in held}
KeysAndCursor ==
    /\ ModifiersHeld
    /\ cursor \in 0..((ROWS - 1) * COLS - 1)
=============================================================================
