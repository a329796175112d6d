-------------------------------- MODULE Grep --------------------------------
(***************************************************************************)
(* The program grep: the matcher, and the loop that reads its source in     *)
(* pieces of whatever length read returns.  Variables:                     *)
(*   pattern  the regular expression                                       *)
(*   source   the file;  unread  what has not been read of it              *)
(*   kept     the first m bytes of buf;  printed  the lines written        *)
(*   lost     history: where a piece that read returned ended which had no   *)
(*            newline in it (the offsets in source)                        *)
(*   gdone    read has returned 0                                          *)
(***************************************************************************)
EXTENDS Integers, Sequences, SequencesExt

CONSTANTS Patterns, Inputs,  \* regular expressions and contents of files
          BUFSIZE            \* sizeof(buf)

ASSUME GrepAssumption == BUFSIZE \in Nat /\ BUFSIZE > 2

VARIABLES pattern, source, unread, kept, printed, lost, gdone
grepVars == <<pattern, source, unread, kept, printed, lost, gdone>>

NL == "n"
-----------------------------------------------------------------------------
RECURSIVE matchhere(_, _), matchstar(_, _, _), matchAny(_, _)
matchstar(c, re, text) ==
    \/ matchhere(re, text)
    \/ text # <<>> /\ (Head(text) = c \/ c = ".") /\ matchstar(c, re, Tail(text))
matchhere(re, text) ==
    CASE re = <<>> -> TRUE
      [] re # <<>> /\ Len(re) > 1 /\ re[2] = "*" -> matchstar(re[1], SubSeq(re, 3, Len(re)), text)
      [] re = <<"$">> -> text = <<>>
      [] OTHER -> text # <<>> /\ (re[1] = "." \/ re[1] = Head(text)) /\ matchhere(Tail(re), Tail(text))
matchAny(re, text) == matchhere(re, text) \/ (text # <<>> /\ matchAny(re, Tail(text)))
match(re, text) == IF re # <<>> /\ Head(re) = "^" THEN matchhere(Tail(re), text) ELSE matchAny(re, text)
-----------------------------------------------------------------------------
GrepInit ==
    /\ pattern \in Patterns /\ source \in Inputs /\ unread = source
    /\ kept = <<>> /\ printed = <<>> /\ lost = {} /\ gdone = FALSE

\* The lines of s that end in a newline, without it, and what follows them.
NewlinesIn(s) == {i \in DOMAIN s : s[i] = NL}
Before(s, i) == CHOOSE j \in {0} \cup NewlinesIn(s) : j < i /\ \A k \in NewlinesIn(s) : k <= j \/ k >= i
WholeLines(s) == LET ends == SetToSortSeq(NewlinesIn(s), <) IN [k \in DOMAIN ends |-> SubSeq(s, Before(s, ends[k]) + 1, ends[k] - 1)]
AfterLines(s) == SubSeq(s, Before(s, Len(s) + 1) + 1, Len(s))
Matching(re, lines) == SelectSeq(lines, LAMBDA l : match(re, l))

\* Mutant: what is left of the last line is not kept.
roundForgets(s) == <<>>
\* What one round of the loop keeps: the piece after the last newline; all is
\* dropped when there was no newline at all (p == buf).
round(s) == IF NewlinesIn(s) = {} THEN <<>> ELSE AfterLines(s)

\* read returns any positive number of the bytes that fit into the buffer.
readPiece(n) ==
    /\ ~gdone /\ n <= Len(unread) /\ Len(kept) + n <= BUFSIZE - 1
    /\ LET s == kept \o SubSeq(unread, 1, n) IN
       /\ printed' = printed \o Matching(pattern, WholeLines(s))
       /\ kept' = round(s)
    /\ lost' = IF NewlinesIn(SubSeq(unread, 1, n)) = {} THEN lost \cup {Len(source) - Len(unread) + n} ELSE lost
    /\ unread' = SubSeq(unread, n + 1, Len(unread))
    /\ UNCHANGED <<pattern, source, gdone>>
\* read returns 0: at the end of the file, or for a request of 0 bytes.
readNothing ==
    /\ ~gdone /\ (unread = <<>> \/ Len(kept) = BUFSIZE - 1)
    /\ gdone' = TRUE
    /\ UNCHANGED <<pattern, source, unread, kept, printed, lost>>

GrepNext == (\E n \in 1..(BUFSIZE - 1) : readPiece(n)) \/ readNothing
-----------------------------------------------------------------------------
\* A pattern as a sequence of items: a character with or without a star, or the
\* end of the line.  Positions: a star at the head of the rest is a character.
RECURSIVE Items(_)
Items(re) ==
    IF re = <<>> THEN <<>>
    ELSE IF Len(re) > 1 /\ re[2] = "*" THEN <<[c |-> re[1], kind |-> "star"]>> \o Items(SubSeq(re, 3, Len(re)))
    ELSE IF re = <<"$">> THEN <<[c |-> "$", kind |-> "end"]>>
    ELSE <<[c |-> re[1], kind |-> "one"]>> \o Items(Tail(re))
\* Item it stands for the part of the text from offset a to offset b.
Stands(it, text, a, b) ==
    /\ a <= b
    /\ \A i \in (a + 1)..b : it.c = "." \/ text[i] = it.c
    /\ CASE it.kind = "one" -> b = a + 1 [] it.kind = "star" -> TRUE [] it.kind = "end" -> a = b /\ b = Len(text)
\* Some division of a part of the text gives each item its own piece.
Denotes(re, text) ==
    LET anchored == re # <<>> /\ Head(re) = "^"
        items == Items(IF anchored THEN Tail(re) ELSE re) IN
    \E cut \in [0..Len(items) -> 0..Len(text)] :
        /\ anchored => cut[0] = 0
        /\ \A k \in 1..Len(items) : Stands(items[k], text, cut[k - 1], cut[k])

\* What is left of the line that ends at offset z: what was read after the last
\* piece without a newline, for such a piece takes with it all that was kept.
LeftOf(z) ==
    LET cuts == {0} \cup {c \in NewlinesIn(source) \cup lost : c < z}
        from == CHOOSE c \in cuts : \A d \in cuts : d <= c IN
    SubSeq(source, from + 1, z - 1)

\* What grep has printed is, in order, those of the lines it has read which the
\* pattern denotes (a reference definition without recursion over the text).  A
\* line is whole when no piece that read returned ended inside it without a
\* newline; otherwise grep sees its end only, as LeftOf says, and no more than
\* that is lost.  At the end nothing is unread; only an unterminated last line
\* is left out.
GrepExact ==
    LET done == Len(source) - Len(unread)
        ends == SetToSortSeq({z \in NewlinesIn(source) : z <= done}, <) IN
    /\ printed = SelectSeq([k \in DOMAIN ends |-> LeftOf(ends[k])], LAMBDA l : Denotes(pattern, l))
    /\ kept = LeftOf(done + 1)
    /\ gdone => unread = <<>>
=============================================================================
