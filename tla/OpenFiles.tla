----------------------------- MODULE OpenFiles -----------------------------
(***************************************************************************)
(* What the file server promises its callers about open files: a file is a *)
(* sequence of bytes; a descriptor leads to an open file, which is a file  *)
(* and an offset in it (or a terminal) and is shared after fork(), dup()   *)
(* and dup2(); a file stays as it was last written when it is closed.  One *)
(* that is deleted while it is open lives until it is closed, and no file  *)
(* made in between is the same.                                            *)
(***************************************************************************)
EXTENDS Integers, Sequences

CONSTANTS Procs, Fds, Std, Ids,
          Numbers        \* names of files

VARIABLES names,         \* the files that exist
          content,       \* per file that exists or is open: its bytes
          open,          \* per process and descriptor: an open file, 0 if closed
          at             \* per open file: what it leads to

ovars == <<names, content, open, at>>

Nobody      == [tty |-> 0, file |-> 0, offset |-> 0]
Tty(v)      == [Nobody EXCEPT !.tty = v]
At(i, o)    == [Nobody EXCEPT !.file = i, !.offset = o]
IsFile(x)   == x # Nobody /\ x.tty = 0

Closed == [fd \in Fds |-> 0]

OInit ==
  /\ names = {} /\ content = <<>>
  /\ open = [p \in Procs |-> Closed]
  /\ at = [x \in Ids |-> Nobody]

\* An open file that no descriptor leads to is gone, and so is a file that
\* neither exists nor is open.
Used(a) == {a[x].file : x \in {x \in Ids : IsFile(a[x])}}
Keep(S) == content' = [i \in DOMAIN content \cap S |-> content[i]]

Drop(opn) ==
  LET left == [x \in Ids |-> IF \E p \in Procs, fd \in Fds : opn[p][fd] = x THEN at[x] ELSE Nobody]
  IN at' = left /\ Keep(names \cup Used(left)) /\ UNCHANGED names

\* The file i exists, empty, if it did not.
Make(i) ==
  /\ i \in names \/ i \notin DOMAIN content
  /\ names' = names \cup {i}
  /\ content' = [j \in DOMAIN content \cup {i} |->
                   IF j \in DOMAIN content THEN content[j] ELSE <<>>]

\* Open the file i at x, making it if there is none.
Open(p, fd, x, i) ==
  /\ open[p][fd] = 0 /\ at[x] = Nobody /\ Make(i)
  /\ open' = [open EXCEPT ![p][fd] = x]
  /\ at' = [at EXCEPT ![x] = At(i, 0)]

Close(p, fd) ==
  LET opn == [open EXCEPT ![p][fd] = 0]
  IN open[p][fd] # 0 /\ open' = opn /\ Drop(opn)

\* dup() and dup2().
Share(p, fd, new) ==
  /\ open[p][fd] # 0 /\ open[p][new] = 0
  /\ open' = [open EXCEPT ![p][new] = open[p][fd]]
  /\ UNCHANGED <<names, content, at>>

\* read() and lseek()
Move(x) ==
  /\ IsFile(at[x])
  /\ \E o \in 0..Len(content[at[x].file]) : at' = [at EXCEPT ![x].offset = o]
  /\ UNCHANGED <<names, content, open>>

\* A byte of process p replaces what is behind the offset.
Write(p, fd) ==
  LET x   == open[p][fd]
      i   == at[x].file
      new == Append(SubSeq(content[i], 1, at[x].offset), p)
  IN /\ x # 0 /\ IsFile(at[x]) /\ at[x].offset <= Len(content[i])
     /\ content' = [content EXCEPT ![i] = new]
     /\ at' = [at EXCEPT ![x].offset = Len(new)]
     /\ UNCHANGED <<names, open>>

\* create()
Create == (\E i \in Numbers \ names : Make(i)) /\ UNCHANGED <<open, at>>

\* delete_file(), rmdir()
Delete ==
  /\ \E S \in SUBSET names : names' = names \ S /\ Keep((names \ S) \cup Used(at))
  /\ UNCHANGED <<open, at>>

\* The first process: a terminal behind each of its first descriptors.
Begin(p) ==
  /\ \A q \in Procs : open[q] = Closed
  /\ \E f \in [Std -> Ids] :
       /\ \A fd, gd \in Std : f[fd] = f[gd] => fd = gd
       /\ open' = [open EXCEPT ![p] = [fd \in Fds |-> IF fd \in Std THEN f[fd] ELSE 0]]
       /\ at' = [x \in Ids |-> IF \E fd \in Std : f[fd] = x
                               THEN Tty(1 + CHOOSE fd \in Std : f[fd] = x) ELSE Nobody]
  /\ UNCHANGED <<names, content>>

Fork(p, c) ==
  /\ open[c] = Closed
  /\ open' = [open EXCEPT ![c] = open[p]]
  /\ UNCHANGED <<names, content, at>>

Exit(p) ==
  LET opn == [open EXCEPT ![p] = Closed]
  IN open' = opn /\ Drop(opn)

ONext ==
  \/ \E p \in Procs : Begin(p) \/ Exit(p) \/ \E c \in Procs : Fork(p, c)
  \/ \E p \in Procs, fd \in Fds :
       \/ Close(p, fd) \/ Write(p, fd)
       \/ \E new \in Fds : Share(p, fd, new)
       \/ \E x \in Ids, i \in Numbers : Open(p, fd, x, i)
  \/ \E x \in Ids : Move(x)
  \/ Create \/ Delete

OSpec == OInit /\ [][ONext]_ovars
=============================================================================
