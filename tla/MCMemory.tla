------------------------------ MODULE MCMemory ------------------------------
EXTENDS Memory

Seg(vaddr, memsz, filesz) == [vaddr |-> vaddr, memsz |-> memsz, filesz |-> filesz]

\* Two segments that share a page; one segment in two tables, with an empty one;
\* one that fills its page.
MCPrograms == << << Seg(17, 2, 1), Seg(19, 6, 2) >>, << Seg(28, 7, 5), Seg(0, 0, 0) >>,
                 << Seg(24, 8, 8) >> >>

\* In the first program a string that just fits in buf[], one byte too long once
\* the process has written behind it, and one that ends where the memory of the
\* program ends; in the second one that goes on in the next page; an address that
\* is never mapped.
MCArgAddrs == {19, 31, 40}

\* No frame is clear when the system starts; the second one of the kernel ends in
\* a '\0'.
MCBoot ==
  [f \in KernelFrames \cup PoolFrames |->
     [o \in Offsets |-> IF f = 1 /\ o = PAGE_SIZE - 1 THEN Zero
                        ELSE IF f \in KernelFrames THEN 1 ELSE Stored]]

MCWriteAddrs == {21}

\* A byte of the program, and one of the kernel at KOFFSET.
KernelWriteAddrs == {21, 73}
=============================================================================
