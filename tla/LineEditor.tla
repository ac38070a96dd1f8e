----------------------------- MODULE LineEditor -----------------------------
(***************************************************************************)
(* What a console promises the program that reads from it: a line edited   *)
(* with a cursor, which Enter appends to a stream of bytes; reads take     *)
(* from the stream in order, up to the end of a line, and wait while it is *)
(* empty.                                                                  *)
(***************************************************************************)
EXTENDS Integers, Sequences, SequencesExt

CONSTANTS Chars,    \* what the keys type
          NUL,      \* ends a line in the stream
          Counts    \* how much a read may ask for

VARIABLES before, after,   \* the line, left and right of the cursor
          stream,          \* entered and not yet read
          waiting,         \* the counts of the reads that wait, a stack
          answer           \* what the last read was given

evars == <<before, after, stream, waiting, answer>>
line  == <<before, after>>
io    == <<stream, waiting, answer>>

EInit ==
  /\ before = <<>> /\ after = <<>> /\ stream = <<>>
  /\ waiting = <<>> /\ answer = <<>>

Type(ch) == before' = Append(before, ch) /\ UNCHANGED <<after, io>>

Backspace ==
  /\ before # <<>> /\ before' = Front(before) /\ UNCHANGED <<after, io>>

\* At the end of the line Delete is Backspace.
Delete ==
  IF after = <<>> THEN Backspace ELSE after' = Tail(after) /\ UNCHANGED <<before, io>>

\* Left, Right, Home and End.
Move ==
  /\ before' \o after' = before \o after
  /\ \/ Len(before') \in {Len(before) - 1, Len(before) + 1}
     \/ before' = <<>> \/ after' = <<>>
  /\ UNCHANGED io

\* The bytes that a read of count gets from s: at most count, of one line.
Gets(s, count) ==
  CHOOSE n \in 0..Len(s) :
    /\ n <= count
    /\ \A k \in 1..n : s[k] # NUL
    /\ n = count \/ s[n + 1] = NUL

\* The end of the line goes with its last bytes if count was not used up.
Serve(s, count) ==
  LET n == Gets(s, count)
  IN /\ answer' = SubSeq(s, 1, n)
     /\ stream' = SubSeq(s, IF n < count THEN n + 2 ELSE n + 1, Len(s))

Enter ==
  LET s == stream \o before \o after \o <<NUL>>
  IN /\ before' = <<>> /\ after' = <<>>
     /\ IF waiting = <<>>
        THEN stream' = s /\ UNCHANGED <<waiting, answer>>
        ELSE Serve(s, Last(waiting)) /\ waiting' = Front(waiting)

Read(count) ==
  /\ IF stream = <<>>
     THEN waiting' = Append(waiting, count) /\ UNCHANGED <<stream, answer>>
     ELSE Serve(stream, count) /\ UNCHANGED waiting
  /\ UNCHANGED line

ENext ==
  \/ \E ch \in Chars : Type(ch)
  \/ Backspace \/ Delete \/ Move \/ Enter
  \/ \E count \in Counts : Read(count)

ESpec == EInit /\ [][ENext]_evars
=============================================================================
