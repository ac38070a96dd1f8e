----------------------------- MODULE PlainFiles -----------------------------
(***************************************************************************)
(* What the block index of the file server promises: a file is a sequence  *)
(* of bytes.  A write cuts it at the offset and appends its bytes there, a *)
(* read returns what is at the offset, a directory loses an entry by       *)
(* having its last entry moved over it, and no operation on one file       *)
(* touches another.                                                        *)
(***************************************************************************)
EXTENDS Integers, Sequences

CONSTANTS Files,
          ENTRY        \* bytes of a directory entry

VARIABLES content,     \* per file: its bytes
          left,        \* the file being written and the bytes still to come
          answer       \* what the last read returned

fvars == <<content, left, answer>>

NoWrite  == [f |-> 0, offset |-> 0, rest |-> <<>>]
NoAnswer == [f |-> 0, offset |-> 0, len |-> 0, data |-> <<>>]

FInit ==
  /\ content = [f \in Files |-> <<>>]
  /\ left = NoWrite /\ answer = NoAnswer

\* Bytes first + 1 to last of a file, as far as there are any.
Part(c, first, last) == SubSeq(c, first + 1, IF last < Len(c) THEN last ELSE Len(c))

Write ==
  /\ left = NoWrite /\ answer = NoAnswer
  /\ left'.f \in Files /\ left'.rest # <<>>
  /\ content' = [content EXCEPT ![left'.f] = Part(@, 0, left'.offset)]
  /\ UNCHANGED answer

\* The bytes arrive in pieces.
Proceed ==
  LET n == left'.offset - left.offset
  IN /\ left.rest # <<>> /\ n > 0
     /\ content' = [content EXCEPT ![left.f] = @ \o Part(left.rest, 0, n)]
     /\ left' = [left EXCEPT !.offset = @ + n, !.rest = Part(@, n, Len(@))]
     /\ UNCHANGED answer

Complete ==
  /\ left # NoWrite /\ left.rest = <<>> /\ left' = NoWrite
  /\ UNCHANGED <<content, answer>>

Read ==
  /\ left = NoWrite /\ answer = NoAnswer /\ answer'.f \in Files
  /\ answer'.data = Part(content[answer'.f], answer'.offset, answer'.offset + answer'.len)
  /\ UNCHANGED <<content, left>>

Answer ==
  /\ answer' = NoAnswer
  /\ UNCHANGED <<content, left>>

\* Entry number pos of c is replaced by the last one.
Without(c, pos) ==
  LET n == Len(c) - ENTRY
  IN [k \in 1..n |-> IF (k - 1) \div ENTRY = pos THEN c[n + 1 + ((k - 1) % ENTRY)] ELSE c[k]]

Remove(f) ==
  /\ left = NoWrite /\ answer = NoAnswer
  /\ \E pos \in 0..(Len(content[f]) \div ENTRY - 1) :
       content' = [content EXCEPT ![f] = Without(@, pos)]
  /\ UNCHANGED <<left, answer>>

FNext == Write \/ Proceed \/ Complete \/ Read \/ Answer \/ \E f \in Files : Remove(f)

FSpec == FInit /\ [][FNext]_fvars
=============================================================================
