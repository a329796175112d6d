----------------------------- MODULE LineEditor -----------------------------
(***************************************************************************)
(* What the console promises its readers: a queue of finished input that   *)
(* is read from the front, and one line that can still be edited.  At most *)
(* Limit characters are kept; what does not fit is dropped.                *)
(***************************************************************************)
EXTENDS Naturals, Sequences, SequencesExt

CONSTANTS Limit, Ends, Chars     \* Ends: the characters that finish a line

VARIABLES queue, line

Start == queue = <<>> /\ line = <<>>

Kept == Len(queue) + Len(line)
\* An accepted character finishes the line if it is an end or the last to fit.
Type(c) ==
    /\ Kept < Limit
    /\ IF c \in Ends \/ Kept + 1 = Limit
       THEN queue' = queue \o Append(line, c) /\ line' = <<>>
       ELSE line' = Append(line, c) /\ UNCHANGED queue
Erase == line # <<>> /\ line' = Front(line) /\ UNCHANGED queue
EraseLine == line' = <<>> /\ UNCHANGED queue
Take == queue # <<>> /\ queue' = Tail(queue) /\ UNCHANGED line

EditNext == (\E c \in Chars : Type(c)) \/ Erase \/ EraseLine \/ Take
Edit == Start /\ [][EditNext]_<<queue, line>>
=============================================================================
