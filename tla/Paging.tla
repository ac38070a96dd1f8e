------------------------------- MODULE Paging -------------------------------
(***************************************************************************)
(* Two-level page tables (x86/memory.h, kernel/memory/util.c) and the walk *)
(* through them that physical_addr() of lib/kcpy.c does for a process.     *)
(*                                                                         *)
(* Addresses are numbers; virtual page v covers the addresses              *)
(* v * PAGE_SIZE .. v * PAGE_SIZE + PAGE_SIZE - 1.  A page directory maps  *)
(* an index to the frame that holds a page table, ptes[f] is the content   *)
(* of frame f read as a page table; None is an entry that is not present.  *)
(***************************************************************************)
EXTENDS Integers

CONSTANTS PAGE_SIZE,    \* bytes in a page
          NR_PTE,       \* entries of a page table
          NR_PDE        \* entries of a page directory

ASSUME PagingAssumption ==
  /\ PAGE_SIZE \in Nat \ {0} /\ NR_PTE \in Nat \ {0} /\ NR_PDE \in Nat \ {0}

None == -1              \* val = 0: not present

Entries == 0..(NR_PTE - 1)
Dirs    == 0..(NR_PDE - 1)
Offsets == 0..(PAGE_SIZE - 1)
VPages  == 0..(NR_PDE * NR_PTE - 1)
Addrs   == 0..(NR_PDE * NR_PTE * PAGE_SIZE - 1)

PageOf(a)   == a \div PAGE_SIZE
OffsetOf(a) == a % PAGE_SIZE
DirOf(v)    == v \div NR_PTE
EntryOf(v)  == v % NR_PTE

\* The frame of virtual page v, None where physical_addr() would assert.
Frame(pdir, ptes, v) ==
  IF pdir[DirOf(v)] = None THEN None ELSE ptes[pdir[DirOf(v)]][EntryOf(v)]
=============================================================================
