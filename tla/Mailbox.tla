------------------------------ MODULE Mailbox ------------------------------
(***************************************************************************)
(* What send() and receive() promise, without the scheduler and without    *)
(* semaphores: a box per thread that keeps messages in the order they were *)
(* sent; a receive takes, once, the oldest message that matches, and the   *)
(* thread waits for as long as there is none.                              *)
(***************************************************************************)
EXTENDS Integers, Sequences

CONSTANTS Threads, Sources, ANY, Body, Nobody

VARIABLES box,      \* per thread: the messages sent and not yet received
          asking    \* per thread: the source its receive waits for, or Nobody

mvars == <<box, asking>>

Matches(m, src) == src = ANY \/ m.src = src

MInit == /\ box = [t \in Threads |-> <<>>]
         /\ asking = [t \in Threads |-> Nobody]

Deposit(dest) ==
  /\ \E src \in Sources, body \in Body :
       box' = [box EXCEPT ![dest] = Append(@, [src |-> src, body |-> body])]
  /\ UNCHANGED asking

Ask(t) ==
  /\ asking[t] = Nobody
  /\ \E src \in Sources \cup {ANY} : asking' = [asking EXCEPT ![t] = src]
  /\ UNCHANGED box

Obtain(t) ==
  /\ asking[t] # Nobody
  /\ \E i \in 1..Len(box[t]) :
       /\ Matches(box[t][i], asking[t])
       /\ \A j \in 1..(i - 1) : ~Matches(box[t][j], asking[t])
       /\ box' = [box EXCEPT ![t] = [j \in 1..(Len(@) - 1) |->
                                        IF j < i THEN @[j] ELSE @[j + 1]]]
  /\ asking' = [asking EXCEPT ![t] = Nobody]

\* A new process, or a new program in an old one, starts with an empty box.
Renew(t) ==
  /\ box' = [box EXCEPT ![t] = <<>>]
  /\ asking' = [asking EXCEPT ![t] = Nobody]

MNext == \E t \in Threads : Deposit(t) \/ Ask(t) \/ Obtain(t) \/ Renew(t)

MSpec == MInit /\ [][MNext]_mvars
=============================================================================
