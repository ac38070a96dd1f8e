------------------------------- MODULE Memory -------------------------------
(***************************************************************************)
(* The memory manager (manager_server/memory_manager.c): the bitmap of     *)
(* page frames, the page tables of the processes, and its four requests.   *)
(*                                                                         *)
(* The process manager sends one request at a time and waits for the       *)
(* answer; the process concerned is asleep meanwhile (RequesterAsleep in   *)
(* System), the others run and write to their memory.  A request is the    *)
(* sequence todo of the steps still to do; each is at most one turn of a   *)
(* loop in the code.  exec() of pcb_manager.c is part of its request: it   *)
(* fetches the argument string from the old image before, and puts it on   *)
(* the stack of the new one after, with the copies of lib/kcpy.c.  Kernel  *)
(* threads run in an address space of their own, so these go page by page  *)
(* through the page tables of the process.                                 *)
(***************************************************************************)
EXTENDS Paging, SequencesExt

CONSTANTS Pcbs,
          NR_PAGES,      \* length of page_bitmap
          KERNEL_DIRS,   \* KERNEL_MEM / PD_SIZE
          NR_STACK,      \* pages of a stack
          Programs,      \* sequence of programs, each a sequence of segments
          ARG_BUF,       \* bytes of exec()'s buf[] behind the first four
          Boot,          \* the content of memory when the system starts
          ArgAddrs,      \* bound: what processes pass to exec() as the address of a string
          WriteAddrs,    \* bound: the addresses processes write to
          MaxRequests    \* bound: requests served

KernelFrames == 0..(KERNEL_DIRS * NR_PTE - 1)
KERNEL_MEM   == KERNEL_DIRS * NR_PTE            \* the first frame of the bitmap
PoolFrames   == KERNEL_MEM..(KERNEL_MEM + NR_PAGES - 1)
KOFFSET      == NR_PDE - KERNEL_DIRS            \* directory index of 0xc0000000
KernelDirs   == 0..(KERNEL_DIRS - 1)
UserDirs     == KERNEL_DIRS..(KOFFSET - 1)
StackTop     == KOFFSET * NR_PTE * PAGE_SIZE - 1

Segment == [vaddr : Addrs, memsz : Nat, filesz : Nat]

ASSUME MemoryAssumption ==
  /\ IsFiniteSet(Pcbs) /\ None \notin Pcbs /\ NR_PAGES \in Nat \ {0} /\ MaxRequests \in Nat
  /\ KERNEL_DIRS \in Nat \ {0} /\ 2 * KERNEL_DIRS + 2 <= NR_PDE
  /\ KERNEL_DIRS * NR_PTE >= 2 /\ PAGE_SIZE % 4 = 0
  /\ NR_STACK \in 1..NR_PTE /\ ARG_BUF \in Nat \ {0} /\ ARG_BUF + 5 <= NR_STACK * PAGE_SIZE

ASSUME AddressAssumption == ArgAddrs \subseteq Addrs /\ WriteAddrs \subseteq Addrs

\* The segments of a program as the linker lays them out: one above the other,
\* between the kernel and the table of the stack.
ASSUME ProgramAssumption ==
  /\ Programs \in Seq(Seq(Segment))
  /\ \A i \in DOMAIN Programs : \A k \in DOMAIN Programs[i] :
       LET ph == Programs[i][k]
       IN /\ ph.filesz <= ph.memsz
          /\ ph.memsz > 0 => /\ ph.vaddr >= KERNEL_MEM * PAGE_SIZE
                             /\ ph.vaddr + ph.memsz <= (KOFFSET - 1) * NR_PTE * PAGE_SIZE
                             /\ \A j \in 1..(k - 1) : LET lo == Programs[i][j]
                                  IN lo.memsz > 0 => lo.vaddr + lo.memsz <= ph.vaddr

Zero   == 0                     \* also '\0'
Stored == Len(Programs) + 1     \* what processes, and exec(), write
Bytes  == 0..Stored             \* i in between: a byte of the file of program i

ASSUME BootAssumption == Boot \in [KernelFrames \cup PoolFrames -> [Offsets -> Bytes]]

VARIABLES
  page_bitmap,  \* per frame of the pool: 1 if it is in use
  bitmap_idx,   \* where get_idle_page() looks first
  pdir,         \* per PCB: kpdir, from directory index to the frame of a table
  ptes,         \* per frame of the pool: its content as a page table
  data,         \* per frame: its content as bytes
  todo,         \* the steps of the request being served
  pcb,          \* the PCB it is about, None between requests
  spaces,       \* the PCBs whose page directory is in force
  temp,         \* exec(): the argument string in the kernel
  passed,       \* history: the string passed to exec() if it is in one page
  served,       \* requests so far
  halted        \* an assertion of physical_addr() failed, or buf[] was overrun

mvars == <<page_bitmap, bitmap_idx, pdir, ptes, data, todo, pcb, spaces,
           temp, passed, served, halted>>
-----------------------------------------------------------------------------
(* Frames. *)

Busy(bm) == {i \in 0..(NR_PAGES - 1) : bm[i] = 1}

\* get_idle_page(): the first idle index from idx on, around the end.
NextIdle(bm, idx) ==
  LET Turn(k) == (idx + k) % NR_PAGES
      steps == CHOOSE k \in 0..(NR_PAGES - 1) :
                 bm[Turn(k)] = 0 /\ \A j \in 0..(k - 1) : bm[Turn(j)] = 1
  IN Turn(steps)

\* n frames are idle; get_idle_page() spins for ever otherwise.
Idle(n) == Cardinality(Busy(page_bitmap)) + n <= NR_PAGES

\* Take one frame, or two one after the other.
First  == NextIdle(page_bitmap, bitmap_idx)
Second == NextIdle([page_bitmap EXCEPT ![First] = 1], First)

GetIdlePage ==
  /\ Idle(1)
  /\ page_bitmap' = [page_bitmap EXCEPT ![First] = 1]
  /\ bitmap_idx' = First

GetTwoIdlePages ==
  /\ Idle(2)
  /\ page_bitmap' = [page_bitmap EXCEPT ![First] = 1, ![Second] = 1]
  /\ bitmap_idx' = Second

NewFrame    == KERNEL_MEM + First
SecondFrame == KERNEL_MEM + Second

ZeroTable == [e \in Entries |-> None]
ZeroPage  == [o \in Offsets |-> Zero]
-----------------------------------------------------------------------------
(* Requests as steps. *)

\* create_kernel_dir(), create_stack_page()
KernelSteps == << <<"clear">>, <<"kernel", 0>> >>

StackSteps == << <<"table", KOFFSET - 1>>, <<"stack", PageOf(StackTop)>> >>

\* Mutant: the last page is forgotten when it is not full.
RestPagesDown(ph) ==
  LET room == PAGE_SIZE - OffsetOf(ph.vaddr)
      first_mem_len == IF room < ph.memsz THEN room ELSE ph.memsz
  IN (ph.memsz - first_mem_len) \div PAGE_SIZE

\* The turns of the loop in load_segment(): while (mem_rest_size > 0).
RestPages(ph) ==
  LET room == PAGE_SIZE - OffsetOf(ph.vaddr)
      first_mem_len == IF room < ph.memsz THEN room ELSE ph.memsz
  IN (ph.memsz - first_mem_len + PAGE_SIZE - 1) \div PAGE_SIZE

\* read_elf() of the segment ph of program i: the file server copies its bytes.
ReadElf(i, ph) == <<"from", ph.vaddr, [n \in 1..ph.filesz |-> i]>>

\* load_segment(): the first page, the others, the bytes of the file.
SegmentSteps(i, ph) ==
  << <<"first", PageOf(ph.vaddr)>>, <<"next", PageOf(ph.vaddr) + 1, RestPages(ph)>>, ReadElf(i, ph) >>

\* load_program(), copy_process()
LoadSteps(i) == KernelSteps \o StackSteps \o << <<"load", i, 1>> >>
CopySteps(p) == KernelSteps \o << <<"copy_table", p, KERNEL_DIRS>> >>

NoArgs == [str |-> <<>>, one_page |-> FALSE, opened |-> FALSE]

\* The process manager asks for something to be done to p on behalf of caller,
\* which sleeps until the answer.
Request(p, caller, steps, args) ==
  /\ pcb = None /\ served < MaxRequests /\ ~halted
  /\ pcb' = p /\ todo' = steps \o << <<"answer", caller>> >> /\ served' = served + 1
  /\ passed' = args
  /\ UNCHANGED <<page_bitmap, bitmap_idx, pdir, ptes, data, spaces, temp, halted>>

\* CREATE_SPACE: handle_pcb()
Create(p, i) == p \notin spaces /\ Request(p, p, LoadSteps(i), NoArgs)

\* CREATE_CHILD_SPACE: handle_child()
Fork(p, c) == p \in spaces /\ c \notin spaces /\ Request(c, p, CopySteps(p), NoArgs)

\* The frame physical_addr() finds for an address; the directory is invalid
\* behind the entries of the kernel, which are the last ones here.
Lookup(p, a) == IF a \in Addrs THEN Frame(pdir[p], ptes, PageOf(a)) ELSE None

\* The string of p at a, if there is a '\0' before the end of its page: where.
ByteAt(p, a) == data[Frame(pdir[p], ptes, PageOf(a))][OffsetOf(a)]
PageEnd(a)   == a - OffsetOf(a) + PAGE_SIZE - 1
Ends(p, a) ==
  {e \in a..PageEnd(a) : /\ Lookup(p, a) # None
                         /\ ByteAt(p, e) = Zero
                         /\ \A x \in a..(e - 1) : ByteAt(p, x) # Zero}
StringOf(p, a, e) == [n \in 1..(e - a) |-> ByteAt(p, a + n - 1)]
ArgsOf(p, a, opened) ==
  [str |-> IF Ends(p, a) = {} THEN <<>> ELSE StringOf(p, a, CHOOSE e \in Ends(p, a) : TRUE),
   one_page |-> Ends(p, a) # {}, opened |-> opened]

\* exec() with any address: the arguments, then EXEC_MEMORY, then the arguments
\* again.  The file name is fetched the same way and stands for the choice of a
\* program.
ExecArgs(p, a, steps) ==
  p \in spaces /\ Request(p, p, << <<"strlen", a, a, 0>> >> \o steps, ArgsOf(p, a, steps # <<>>))

\* EXEC_MEMORY: handle_exec() of a program that can be opened.
Exec(p, i, a) == ExecArgs(p, a, << <<"takeback">> >> \o LoadSteps(i) \o << <<"args">> >>)

\* EXEC_MEMORY: open_elf_file() answers -1.
ExecFails(p, a) == ExecArgs(p, a, <<>>)

\* EXIT_MEMORY: handle_exit()
Exit(p) == p \in spaces /\ Request(p, p, << <<"takeback">> >>, NoArgs)
-----------------------------------------------------------------------------
(* The steps. *)

Doing(op) == ~halted /\ todo # <<>> /\ Head(todo)[1] = op
Arg(n)    == Head(todo)[n]
Done      == todo' = Tail(todo)

Then(step) == todo' = <<step>> \o Tail(todo)

\* The end of a turn of a loop.
Loop(more, step) == IF more THEN Then(step) ELSE Done

Rest == <<pcb, temp, passed, served, halted>>
Maps == <<page_bitmap, bitmap_idx, pdir, ptes, spaces, pcb, passed, served>>

\* create_kernel_dir(): invalidate every entry of the directory.
Clear ==
  /\ Doing("clear") /\ Done
  /\ pdir' = [pdir EXCEPT ![pcb] = [d \in Dirs |-> None]]
  /\ spaces' = spaces \cup {pcb}
  /\ UNCHANGED <<page_bitmap, bitmap_idx, ptes, data, Rest>>

\* Mutant: the kernel is mapped low only.
KernelLowOnly ==
  /\ Doing("kernel") /\ Loop(Arg(2) + 1 < KERNEL_DIRS, <<"kernel", Arg(2) + 1>>)
  /\ GetIdlePage
  /\ ptes' = [ptes EXCEPT ![NewFrame] = [e \in Entries |-> Arg(2) * NR_PTE + e]]
  /\ pdir' = [pdir EXCEPT ![pcb][Arg(2)] = NewFrame]
  /\ UNCHANGED <<data, spaces, Rest>>

\* create_kernel_dir(): a table of kernel frames, mapped low and at KOFFSET.
Kernel ==
  /\ Doing("kernel") /\ Loop(Arg(2) + 1 < KERNEL_DIRS, <<"kernel", Arg(2) + 1>>)
  /\ GetIdlePage
  /\ ptes' = [ptes EXCEPT ![NewFrame] = [e \in Entries |-> Arg(2) * NR_PTE + e]]
  /\ pdir' = [pdir EXCEPT ![pcb][Arg(2)] = NewFrame, ![pcb][Arg(2) + KOFFSET] = NewFrame]
  /\ UNCHANGED <<data, spaces, Rest>>

\* create_stack_page(): the page table.
Table ==
  /\ Doing("table") /\ Done
  /\ GetIdlePage
  /\ ptes' = [ptes EXCEPT ![NewFrame] = ZeroTable]
  /\ pdir' = [pdir EXCEPT ![pcb][Arg(2)] = NewFrame]
  /\ UNCHANGED <<data, spaces, Rest>>

\* make_pte() for virtual page v.
SetPte(v, f) == ptes' = [ptes EXCEPT ![pdir[pcb][DirOf(v)]][EntryOf(v)] = f]

\* create_stack_page(): a page of the stack, not cleared.
Stack ==
  /\ Doing("stack") /\ Loop(Arg(2) > PageOf(StackTop) - NR_STACK + 1, <<"stack", Arg(2) - 1>>)
  /\ GetIdlePage
  /\ SetPte(Arg(2), NewFrame)
  /\ UNCHANGED <<pdir, data, spaces, Rest>>

\* Mutant: the page is not cleared.
ClearedNot(f) == data' = data

\* memset(pframe, 0, PAGE_SIZE)
Cleared(f) == data' = [data EXCEPT ![f] = ZeroPage]

\* load_segment(): the first page and its table, unless they are there already.
FirstPage ==
  /\ Doing("first") /\ Done
  /\ LET d == DirOf(Arg(2))
     IN CASE pdir[pcb][d] = None ->         \* a table, then a page in it
               /\ GetTwoIdlePages
               /\ pdir' = [pdir EXCEPT ![pcb][d] = NewFrame]
               /\ ptes' = [ptes EXCEPT ![NewFrame] =
                                         [ZeroTable EXCEPT ![EntryOf(Arg(2))] = SecondFrame]]
               /\ Cleared(SecondFrame)
          [] pdir[pcb][d] # None /\ Frame(pdir[pcb], ptes, Arg(2)) = None ->
               /\ GetIdlePage
               /\ SetPte(Arg(2), NewFrame)
               /\ Cleared(NewFrame)
               /\ UNCHANGED pdir
          [] OTHER -> UNCHANGED <<page_bitmap, bitmap_idx, pdir, ptes, data>>
  /\ UNCHANGED <<spaces, Rest>>

\* load_segment(): page Arg(2), of Arg(3) that are left, and the next table when
\* one is full.
NextPage ==
  /\ Doing("next") /\ Arg(3) > 0 /\ Then(<<"next", Arg(2) + 1, Arg(3) - 1>>)
  /\ IF EntryOf(Arg(2)) = 0
     THEN /\ GetTwoIdlePages
          /\ pdir' = [pdir EXCEPT ![pcb][DirOf(Arg(2))] = SecondFrame]
          /\ ptes' = [ptes EXCEPT ![SecondFrame] = [ZeroTable EXCEPT ![0] = NewFrame]]
     ELSE /\ GetIdlePage
          /\ SetPte(Arg(2), NewFrame)
          /\ UNCHANGED pdir
  /\ Cleared(NewFrame)
  /\ UNCHANGED <<spaces, Rest>>

LastPage ==
  /\ Doing("next") /\ Arg(3) = 0 /\ Done
  /\ UNCHANGED <<page_bitmap, bitmap_idx, pdir, ptes, data, spaces, Rest>>

\* load_program(): segment Arg(3) of program Arg(2), if there is one.
LoadSegment ==
  /\ Doing("load")
  /\ LET i == Arg(2)
         k == Arg(3)
     IN \/ k > Len(Programs[i]) /\ Done
        \/ k <= Len(Programs[i]) /\ Programs[i][k].memsz = 0 /\ Then(<<"load", i, k + 1>>)
        \/ /\ k <= Len(Programs[i]) /\ Programs[i][k].memsz > 0
           /\ todo' = SegmentSteps(i, Programs[i][k]) \o << <<"load", i, k + 1>> >> \o Tail(todo)
  /\ UNCHANGED <<page_bitmap, bitmap_idx, pdir, ptes, data, spaces, Rest>>

\* physical_addr() asserts that the page is there.
Absent == halted' = TRUE /\ UNCHANGED <<todo, data, temp>>

\* What is left of the page of address a, or len if that is less.
Chunk(a, len) ==
  IF PAGE_SIZE - OffsetOf(a) < len THEN PAGE_SIZE - OffsetOf(a) ELSE len

\* copy_from_kernel() to address Arg(2) of the process: look the page up, also
\* when nothing is left to copy, then one turn of the loop.
CopyFromKernel ==
  /\ Doing("from")
  /\ LET dest == Arg(2)
         src  == Arg(3)
         n    == Chunk(dest, Len(src))
         f    == Frame(pdir[pcb], ptes, PageOf(dest))
     IN \/ f = None /\ Absent
        \/ /\ f # None /\ src = <<>>
           /\ Done
           /\ UNCHANGED <<data, temp, halted>>
        \/ /\ f # None /\ src # <<>>
           /\ data' = [data EXCEPT ![f] = [o \in Offsets |->
                         IF o \in OffsetOf(dest)..(OffsetOf(dest) + n - 1)
                         THEN src[o - OffsetOf(dest) + 1] ELSE @[o]]]
           /\ Then(<<"from", dest + n, SubSeq(src, n + 1, Len(src))>>)
           /\ UNCHANGED <<temp, halted>>
  /\ UNCHANGED Maps

\* What lies behind buf[] on the stack of the process manager is overwritten, or
\* read: nothing is said of it, or of the kernel, from here on.
Overrun == halted' = TRUE /\ UNCHANGED <<todo, data, temp>>

\* exec(): args_len bytes of what was copied; when there is no '\0' among it
\* strlen() runs on into the rest of the array, which was never written.
TempEnds == {k \in DOMAIN temp : temp[k] = Zero}
ArgStrings ==
  IF TempEnds # {}
  THEN {SubSeq(temp, 1, (CHOOSE k \in TempEnds : \A j \in TempEnds : k <= j) - 1)}
  ELSE {temp \o [k \in 1..n |-> Stored] : n \in 0..(ARG_BUF - 1 - Len(temp))}

\* copy_to_kernel() of Arg(3) bytes from address Arg(2) to buf + 4, the same way,
\* then strlen(); nothing compares the length with the room in buf, and strlen()
\* may find no '\0' in all of it.
CopyToKernel ==
  /\ Doing("to")
  /\ LET src == Arg(2)
         len == Arg(3)
         n   == Chunk(src, len)
         f   == Lookup(pcb, src)
     IN \/ f = None /\ Absent
        \/ /\ f # None /\ len = 0
           /\ \/ temp' \in ArgStrings /\ Done /\ UNCHANGED <<data, halted>>
              \/ TempEnds = {} /\ Overrun
        \/ f # None /\ len > 0 /\ Len(temp) + n > ARG_BUF /\ Overrun
        \/ /\ f # None /\ len > 0 /\ Len(temp) + n <= ARG_BUF
           /\ temp' = temp \o [k \in 1..n |-> data[f][OffsetOf(src) + k - 1]]
           /\ Then(<<"to", src + n, len - n>>)
           /\ UNCHANGED <<data, halted>>
  /\ UNCHANGED Maps

\* A byte of physical memory; there are no '\0' behind its end.
Physical(x) ==
  IF x \div PAGE_SIZE \in DOMAIN data THEN data[x \div PAGE_SIZE][x % PAGE_SIZE] ELSE Stored

\* Mutant: the '\0' is not counted.
StrlenUserStringShort ==
  /\ Doing("strlen")
  /\ LET str == Arg(2)
         f   == Lookup(pcb, Arg(3))
         pa  == f * PAGE_SIZE + OffsetOf(Arg(3))
         page_end == IF Arg(4) = 0 THEN (f + 1) * PAGE_SIZE ELSE pa + PAGE_SIZE
         nuls == {x \in pa..(page_end - 1) : Physical(x) = Zero}
     IN IF f = None THEN Absent
        ELSE /\ \/ /\ nuls # {}
                   /\ Then(<<"to", str, Arg(4) + (CHOOSE x \in nuls : \A y \in nuls : x <= y) - pa>>)
                \/ /\ nuls = {}
                   /\ Then(<<"strlen", str, IF Arg(4) = 0 THEN OffsetOf(str) + PAGE_SIZE ELSE Arg(3) + PAGE_SIZE,
                             Arg(4) + page_end - pa>>)
             /\ UNCHANGED <<data, temp, halted>>
  /\ UNCHANGED Maps

\* strlen_user_string() of the string at Arg(2): one turn of the outer loop, in
\* the page of address Arg(3), with Arg(4) bytes counted.  The address of the
\* second page is made from the offset in the first, and a turn after the first
\* looks at PAGE_SIZE bytes from that offset on.
StrlenUserString ==
  /\ Doing("strlen")
  /\ LET str == Arg(2)
         f   == Lookup(pcb, Arg(3))
         pa  == f * PAGE_SIZE + OffsetOf(Arg(3))
         page_end == IF Arg(4) = 0 THEN (f + 1) * PAGE_SIZE ELSE pa + PAGE_SIZE
         nuls == {x \in pa..(page_end - 1) : Physical(x) = Zero}
     IN IF f = None THEN Absent
        ELSE /\ \/ /\ nuls # {}
                   /\ Then(<<"to", str, Arg(4) + (CHOOSE x \in nuls : \A y \in nuls : x <= y) - pa + 1>>)
                \/ /\ nuls = {}
                   /\ Then(<<"strlen", str, IF Arg(4) = 0 THEN OffsetOf(str) + PAGE_SIZE ELSE Arg(3) + PAGE_SIZE,
                             Arg(4) + page_end - pa>>)
             /\ UNCHANGED <<data, temp, halted>>
  /\ UNCHANGED Maps

\* copy_process(): the table of directory entry Arg(3) of the parent Arg(2).
CopyTable ==
  /\ Doing("copy_table")
  /\ LET p == Arg(2)
         d == Arg(3)
     IN \/ /\ d = KOFFSET /\ Done
           /\ UNCHANGED <<page_bitmap, bitmap_idx, pdir, ptes>>
        \/ /\ d < KOFFSET /\ pdir[p][d] = None /\ Then(<<"copy_table", p, d + 1>>)
           /\ UNCHANGED <<page_bitmap, bitmap_idx, pdir, ptes>>
        \/ /\ d < KOFFSET /\ pdir[p][d] # None /\ Then(<<"copy", p, d, 0>>)
           /\ GetIdlePage
           /\ ptes' = [ptes EXCEPT ![NewFrame] = ZeroTable]
           /\ pdir' = [pdir EXCEPT ![pcb][d] = NewFrame]
  /\ UNCHANGED <<data, spaces, Rest>>

\* The next entry of the table, or the next table.
NextEntry ==
  IF Arg(4) + 1 < NR_PTE THEN Then(<<"copy", Arg(2), Arg(3), Arg(4) + 1>>)
                         ELSE Then(<<"copy_table", Arg(2), Arg(3) + 1>>)

\* Mutant: the child gets the frame of the parent.
CopyPageShares ==
  /\ Doing("copy") /\ NextEntry
  /\ LET f == ptes[pdir[Arg(2)][Arg(3)]][Arg(4)]
     IN IF f = None
        THEN UNCHANGED <<page_bitmap, bitmap_idx, ptes, data>>
        ELSE /\ GetIdlePage
             /\ ptes' = [ptes EXCEPT ![pdir[pcb][Arg(3)]][Arg(4)] = f]
             /\ data' = [data EXCEPT ![NewFrame] = data[f]]
  /\ UNCHANGED <<pdir, spaces, Rest>>

\* copy_process(): entry Arg(4) of the table at Arg(3), a page of the parent.
CopyPage ==
  /\ Doing("copy") /\ NextEntry
  /\ LET f == ptes[pdir[Arg(2)][Arg(3)]][Arg(4)]
     IN IF f = None
        THEN UNCHANGED <<page_bitmap, bitmap_idx, ptes, data>>
        ELSE /\ GetIdlePage
             /\ ptes' = [ptes EXCEPT ![pdir[pcb][Arg(3)]][Arg(4)] = NewFrame]
             /\ data' = [data EXCEPT ![NewFrame] = data[f]]
  /\ UNCHANGED <<pdir, spaces, Rest>>

\* The frames the page directory of p leads to: kernel tables, user tables and
\* the pages in them.
KernelTables(p) == {pdir[p][d] : d \in KernelDirs}
UserTables(p)   == {pdir[p][d] : d \in UserDirs} \ {None}
UserFrames(p)   == {ptes[t][e] : t \in UserTables(p), e \in Entries} \ {None}
Owned(p)        == (KernelTables(p) \ {None}) \cup UserTables(p) \cup UserFrames(p)

SetPagesIdle(frames) ==
  page_bitmap' = [i \in DOMAIN page_bitmap |->
                    IF KERNEL_MEM + i \in frames THEN 0 ELSE page_bitmap[i]]

\* Mutant: the page tables of user space are forgotten.
TakebackLeaks ==
  /\ Doing("takeback") /\ Done
  /\ SetPagesIdle(KernelTables(pcb) \cup UserFrames(pcb))
  /\ ptes' = [t \in DOMAIN ptes |-> IF t \in UserTables(pcb) THEN ZeroTable ELSE ptes[t]]
  /\ pdir' = [pdir EXCEPT ![pcb] = [d \in Dirs |-> IF d \in UserDirs THEN None ELSE @[d]]]
  /\ spaces' = spaces \ {pcb}
  /\ UNCHANGED <<bitmap_idx, data, Rest>>

\* Mutant: the kernel tables are forgotten.
TakebackUserOnly ==
  /\ Doing("takeback") /\ Done
  /\ SetPagesIdle(UserTables(pcb) \cup UserFrames(pcb))
  /\ ptes' = [t \in DOMAIN ptes |-> IF t \in UserTables(pcb) THEN ZeroTable ELSE ptes[t]]
  /\ pdir' = [pdir EXCEPT ![pcb] = [d \in Dirs |-> IF d \in UserDirs THEN None ELSE @[d]]]
  /\ spaces' = spaces \ {pcb}
  /\ UNCHANGED <<bitmap_idx, data, Rest>>

\* takeback_page(): everything idle, user entries invalid; the entries of the
\* kernel tables stay in the directory.
Takeback ==
  /\ Doing("takeback") /\ Done
  /\ SetPagesIdle(KernelTables(pcb) \cup UserTables(pcb) \cup UserFrames(pcb))
  /\ ptes' = [t \in DOMAIN ptes |-> IF t \in UserTables(pcb) THEN ZeroTable ELSE ptes[t]]
  /\ pdir' = [pdir EXCEPT ![pcb] = [d \in Dirs |-> IF d \in UserDirs THEN None ELSE @[d]]]
  /\ spaces' = spaces \ {pcb}
  /\ UNCHANGED <<bitmap_idx, data, Rest>>

\* (stack_base - args_len) ^ 0x3
NewArgs(len) ==
  LET a == StackTop - len IN a - (a % 4) + (3 - (a % 4))

\* exec(): the address of the string, and the string above it, on the stack.
PlaceArgs ==
  /\ Doing("args")
  /\ Then(<<"from", NewArgs(Len(temp)) - 4, [k \in 1..4 |-> Stored] \o temp \o <<Zero>>>>)
  /\ UNCHANGED <<Maps, data, temp, halted>>

\* The answer, or for exec() wakeup() of the process.
Answer ==
  /\ Doing("answer") /\ Done
  /\ pcb' = None /\ temp' = <<>> /\ passed' = NoArgs
  /\ UNCHANGED <<page_bitmap, bitmap_idx, pdir, ptes, data, spaces, served, halted>>

Sleeping(p) == pcb # None /\ p \in {pcb, Last(todo)[2]}

\* A process that runs writes to its memory.  The low entries of the kernel are
\* for the supervisor; the ones at KOFFSET are as make_pde() leaves them, for all.
Write(p, a) ==
  /\ p \in spaces /\ ~Sleeping(p) /\ ~halted
  /\ DirOf(PageOf(a)) \notin KernelDirs
  /\ LET f == Frame(pdir[p], ptes, PageOf(a))
     IN f # None /\ data' = [data EXCEPT ![f][OffsetOf(a)] = Stored]
  /\ UNCHANGED <<page_bitmap, bitmap_idx, pdir, ptes, todo, spaces, Rest>>
-----------------------------------------------------------------------------
MInit ==
  /\ page_bitmap = [i \in 0..(NR_PAGES - 1) |-> 0] /\ bitmap_idx = 0
  /\ pdir = [p \in Pcbs |-> [d \in Dirs |-> None]]
  /\ ptes = [f \in PoolFrames |-> ZeroTable]
  /\ data = Boot
  /\ todo = <<>> /\ pcb = None /\ spaces = {} /\ temp = <<>> /\ passed = NoArgs
  /\ served = 0 /\ halted = FALSE

Requests ==
  \E p \in Pcbs :
    \/ \E i \in DOMAIN Programs : Create(p, i) \/ (\E a \in ArgAddrs : Exec(p, i, a))
    \/ Exit(p) \/ \E a \in ArgAddrs : ExecFails(p, a)
    \/ \E c \in Pcbs : Fork(p, c)

Steps ==
  \/ Clear \/ Kernel \/ Table \/ Stack \/ LoadSegment \/ FirstPage \/ NextPage \/ LastPage
  \/ CopyTable \/ CopyPage \/ Takeback
  \/ StrlenUserString \/ CopyToKernel \/ CopyFromKernel \/ PlaceArgs \/ Answer

MNext == Requests \/ Steps \/ \E p \in Pcbs, a \in WriteAddrs : Write(p, a)

MSpec == MInit /\ [][MNext]_mvars

\* The scheduler keeps running the memory manager's thread.
FairMSpec == MSpec /\ WF_mvars(Steps)
-----------------------------------------------------------------------------
(* Properties. *)

(* A frame is marked in page_bitmap exactly while the page tables of a process
   lead to it: exit() and exec() give back everything that create_kernel_dir(),
   create_stack_page(), load_segment() and copy_process() took, and nothing that
   is still mapped.  One frame lost per exec() would end in get_idle_page()
   spinning for ever. *)
PagesAccounted ==
  {KERNEL_MEM + i : i \in Busy(page_bitmap)} = UNION {Owned(p) : p \in spaces}

\* The places of p's page tables that hold a frame, and the frame.
Slots(p) ==
  {<<d>> : d \in {x \in KernelDirs \cup UserDirs : pdir[p][x] # None}}
    \cup {s \in UserDirs \X Entries : pdir[p][s[1]] # None /\ ptes[pdir[p][s[1]]][s[2]] # None}
FrameAt(p, s) == IF Len(s) = 1 THEN pdir[p][s[1]] ELSE ptes[pdir[p][s[1]]][s[2]]

(* No frame is in two places: not a page of two processes, not twice in one, not
   a page and a page table. *)
FramesNotShared ==
  \A p, q \in spaces : \A s \in Slots(p), t \in Slots(q) :
    FrameAt(p, s) = FrameAt(q, t) => p = q /\ s = t

(* Processes do not write to the kernel at KOFFSET, although they can: what the
   theorems about memory contents suppose, and KernelExposed.cfg does without. *)
UserWrites == \A a \in WriteAddrs : DirOf(PageOf(a)) \in UserDirs

(* The kernel is mapped, low and at KOFFSET, in every process that may run: the
   tables made by create_kernel_dir() are still that when a trap needs them.  Its
   memory is what it was, but for three bytes: exec() places a string whose
   length is 2 or 3 modulo 4 across the top of the stack, and its end at the
   beginning of physical memory. *)
KernelIntact ==
  /\ \A p \in spaces \ {pcb} : \A d \in KernelDirs :
       /\ pdir[p][d] # None /\ pdir[p][d + KOFFSET] = pdir[p][d]
       /\ ptes[pdir[p][d]] = [e \in Entries |-> d * NR_PTE + e]
  /\ \A f \in KernelFrames, o \in Offsets : data[f][o] # Boot[f][o] => f = 0 /\ o < 3

(* exec() aligns the new address of the string, and so the stack of the new
   program: "align to 4".  It does for one length in four. *)
ArgsAligned ==
  [][PlaceArgs => Head(todo')[2] % 4 = 0]_mvars

(* strlen_user_string() counts the bytes of the string with its '\0': all of
   them are there, and only the last one is '\0'. *)
StrlenExact ==
  Doing("to") /\ temp = <<>> =>
    \A k \in 1..Arg(3) : LET x == Arg(2) + k - 1
                         IN Lookup(pcb, x) # None /\ (ByteAt(pcb, x) = Zero <=> k = Arg(3))

(* Every request is answered: get_idle_page() finds a frame. *)
RequestsServed == pcb # None ~> (pcb = None \/ halted)

\* A string that exec() can handle: mapped, all in one page, not longer than buf[].
Fitting(args) == args.one_page /\ Len(args.str) < ARG_BUF

\* The copy stands behind its last byte, at the beginning of a page.
PastTheEnd(step) ==
  /\ step[1] \in {"from", "to"}
  /\ step[3] = IF step[1] = "from" THEN <<>> ELSE 0
  /\ OffsetOf(step[2]) = 0

(* With such strings an assertion of physical_addr() fails only after everything
   has been copied: the loops look up the byte behind the buffer, and that is in
   another page only for a buffer that ends where its page ends.  Any other
   string can stop the kernel only while it is fetched. *)
StopsOnlyPastTheEnd ==
  halted => \/ PastTheEnd(Head(todo))
            \/ ~Fitting(passed) /\ Head(todo)[1] \in {"strlen", "to"}

(* exec() hands the argument string over to the new image, through two address
   spaces and a buffer in between: when the process goes on, its old string, with
   its '\0', is at the new address. *)
ArgsArrive ==
  Fitting(passed) /\ passed.opened /\ Len(todo) = 1 =>
    LET s == passed.str \o <<Zero>>
        a == NewArgs(Len(passed.str))
    IN \A k \in DOMAIN s : ByteAt(pcb, a + k - 1) = s[k]

\* A program as the linker means it: file bytes, then zeros.
Image(i) ==
  [a \in UNION {ph.vaddr..(ph.vaddr + ph.memsz - 1) : ph \in Range(Programs[i])} |->
     IF \E ph \in Range(Programs[i]) : a \in ph.vaddr..(ph.vaddr + ph.filesz - 1) THEN i ELSE Zero]

\* What p sees in its pages; nothing until its space is complete.
Complete(p) ==
  p \in spaces /\ (p = pcb => Len(todo) = 1 \/ \E k \in DOMAIN todo : todo[k][1] \in {"takeback", "strlen", "to"})
UserPages(p) == {v \in VPages : DirOf(v) \in UserDirs /\ Frame(pdir[p], ptes, v) # None}
MemoryOf(p) ==
  [v \in IF Complete(p) THEN UserPages(p) ELSE {} |-> data[Frame(pdir[p], ptes, v)]]

\* The pages of the stack, and those that could be in the same table.
StackSpace == {v \in VPages : DirOf(v) = KOFFSET - 1}

Private == INSTANCE AddressSpaces
  WITH mem <- [p \in Pcbs |-> MemoryOf(p)],
       StackPages <- StackSpace,
       Images <- {Image(i) : i \in DOMAIN Programs}, Written <- Stored

(* Through frames, tables and the bitmap every process sees a memory of its own,
   as AddressSpaces describes it. *)
PrivateMemory == Private!ASpec
=============================================================================
