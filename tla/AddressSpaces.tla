--------------------------- MODULE AddressSpaces ----------------------------
(***************************************************************************)
(* What the memory manager promises to processes: each has a memory of its *)
(* own.  A program that is loaded finds the bytes of its file and zeros,   *)
(* fork() gives the child a copy, and what one process writes does not     *)
(* change the memory of another.  The pages of the stack are not cleared:  *)
(* a program that is loaded finds anything there, the bytes of processes   *)
(* that had the frames before it too.                                      *)
(***************************************************************************)
EXTENDS Integers

CONSTANTS Pcbs,        \* process control blocks
          PAGE_SIZE,
          StackPages,  \* the virtual pages of the stack
          Images,      \* what the programs ask for: functions from address to byte
          Written      \* the byte a process writes

VARIABLE mem           \* per PCB: a function from its virtual pages to their bytes

NoSpace == [v \in {} |-> 0]

AInit == mem = [p \in Pcbs |-> NoSpace]

\* Only the memory of p changes.
OnlyOf(p) == \A q \in Pcbs \ {p} : mem'[q] = mem[q]

Load(p) ==
  /\ OnlyOf(p)
  /\ mem[p] = NoSpace
  /\ \E im \in Images :
       /\ \A a \in DOMAIN im : a \div PAGE_SIZE \in DOMAIN mem'[p]
       /\ \A v \in DOMAIN mem'[p] \ StackPages, o \in 0..(PAGE_SIZE - 1) :
            LET a == v * PAGE_SIZE + o
            IN mem'[p][v][o] = IF a \in DOMAIN im THEN im[a] ELSE 0

Copy(p, c) ==
  /\ OnlyOf(c)
  /\ p # c /\ mem[p] # NoSpace /\ mem[c] = NoSpace
  /\ mem'[c] = mem[p]

Drop(p) ==
  /\ OnlyOf(p)
  /\ mem[p] # NoSpace
  /\ mem'[p] = NoSpace

Write(p) ==
  /\ OnlyOf(p)
  /\ \E v \in DOMAIN mem[p], o \in 0..(PAGE_SIZE - 1) :
       mem'[p] = [mem[p] EXCEPT ![v][o] = Written]

ANext == \E p \in Pcbs : Load(p) \/ Drop(p) \/ Write(p) \/ (\E c \in Pcbs : Copy(p, c))

ASpec == AInit /\ [][ANext]_mem
=============================================================================
