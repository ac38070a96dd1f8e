------------------------------- MODULE Lists -------------------------------
(***************************************************************************)
(* The doubly linked circular lists of include/adt/list.h, as sequences    *)
(* without repetition.  A list with a head is the sequence of its other    *)
(* nodes; the ready ring, whose head is the idle PCB itself, is kept with  *)
(* that head as its first element.                                         *)
(***************************************************************************)
EXTENDS Integers, Sequences, FiniteSets, SequencesExt

On(l, x) == \E i \in 1..Len(l) : l[i] = x

Distinct(l) == \A i, j \in 1..Len(l) : l[i] = l[j] => i = j

IndexOf(l, x) == CHOOSE i \in 1..Len(l) : l[i] = x

\* list_del(x)
Without(l, x) == RemoveAt(l, IndexOf(l, x))

\* list_add_before(x, p); before the head is at the end.
AddBefore(l, x, p) ==
  IF IndexOf(l, x) = 1 THEN Append(l, p) ELSE InsertAt(l, IndexOf(l, x), p)

NextOf(l, x) == IF IndexOf(l, x) = Len(l) THEN l[1] ELSE l[IndexOf(l, x) + 1]

PrevOf(l, x) == l[IndexOf(l, x) - 1]

\* How many elements of a message queue come from s.
Count(q, s) == Cardinality({i \in 1..Len(q) : q[i].src = s})
=============================================================================
