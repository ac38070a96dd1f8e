------------------------ MODULE AddressSpaceProofs --------------------------
(***************************************************************************)
(* Memory implements AddressSpaces: every process sees a memory of its     *)
(* own.  The invariant says what processes see while a request is served:  *)
(* its steps are in order; a page of a program holds what has been read of *)
(* its file, and zeros; a child has the pages of its parent up to the one  *)
(* in hand.                                                                *)
(***************************************************************************)
EXTENDS MemoryProofs

\* Steps that come before a memory is taken away or made, and before a program
\* is loaded.
Old(s) == s[1] \in {"takeback", "strlen", "to"}
Early == {"strlen", "to", "takeback", "clear", "kernel", "table", "stack"}

\* The steps ahead: a parent that is copied waits for the answer; a program is
\* loaded from its first segment on.
Planned(td, S, p) ==
  /\ \A k \in 1..Len(td) : td[k][1] \in {"copy_table", "copy"} =>
       td[k][2] = td[Len(td)][2] /\ td[k][2] \in S /\ td[k][2] # p
  /\ td[1][1] \in Early => \A k \in 1..Len(td) : td[k][1] = "load" => td[k][3] = 1

\* Address x is in a segment of program i in front of the k-th, and in what
\* the file has of it.
From(i, m)    == Programs[i][m].vaddr
MemEnd(i, m)  == Programs[i][m].vaddr + Programs[i][m].memsz
FileEnd(i, m) == Programs[i][m].vaddr + Programs[i][m].filesz
InMem(i, k, x)  == \E m \in 1..Len(Programs[i]) : m < k /\ From(i, m) <= x /\ x < MemEnd(i, m)
InFile(i, k, x) == \E m \in 1..Len(Programs[i]) : m < k /\ From(i, m) <= x /\ x < FileEnd(i, m)

\* The pages of programs hold the bytes of the file in front of address d, and
\* zeros; what is in front of address e has its page.
Filled(pd, pt, dt, p, i, k, d) ==
  \A x \in Nat : ProgramPage(PageOf(x)) /\ IsMapped(pd, pt, p, x) =>
    Byte(pd, pt, dt, p, x) = IF InFile(i, k, x) /\ x < d THEN i ELSE Zero
Reached(pd, pt, p, i, k, e) == \A x \in Nat : InMem(i, k, x) /\ x < e => IsMapped(pd, pt, p, x)

\* Step s copies what is left of the file.
Reads(s, i, k) ==
  /\ \A n \in 1..Len(s[3]) : s[3][n] = i
  /\ \A x \in Nat : InFile(i, k, x) /\ x >= s[2] <=> x >= s[2] /\ x < s[2] + Len(s[3])

\* No segment in front of the k-th goes beyond page v.
Within(i, k, v) == \A x \in Nat : InMem(i, k, x) => x < v * PAGE_SIZE

\* Program i is in the memory of p, and nothing else but the stack.
ImageAt(pd, pt, dt, p, i) ==
  LET k == Len(Programs[i]) + 1 IN Filled(pd, pt, dt, p, i, k, High) /\ Reached(pd, pt, p, i, k, High)

SegmentRead(pd, pt, dt, p, from, load, e) ==
  /\ load[1] = "load" /\ load[2] \in DOMAIN Programs /\ Reads(from, load[2], load[3])
  /\ Filled(pd, pt, dt, p, load[2], load[3], from[2]) /\ Reached(pd, pt, p, load[2], load[3], e)

Loading(td, pd, pt, dt, p) ==
  LET s == td[1]
  IN /\ s[1] = "load" => Filled(pd, pt, dt, p, s[2], s[3], High) /\ Reached(pd, pt, p, s[2], s[3], High)
     /\ s[1] = "first" => /\ SegmentRead(pd, pt, dt, p, td[3], td[4], td[3][2])
                          /\ Within(td[4][2], td[4][3], td[2][2] + td[2][3])
     /\ s[1] = "next" => /\ SegmentRead(pd, pt, dt, p, td[2], td[3], s[2] * PAGE_SIZE)
                         /\ Within(td[3][2], td[3][3], s[2] + s[3])
     /\ s[1] = "from" /\ td[2][1] = "load" => SegmentRead(pd, pt, dt, p, s, td[2], High)
     /\ s[1] = "args" \/ (s[1] = "from" /\ td[2][1] = "answer") =>
          \E i \in DOMAIN Programs : ImageAt(pd, pt, dt, p, i)
     /\ s[1] = "from" /\ td[2][1] = "answer" => s[2] >= High - NR_STACK * PAGE_SIZE

\* Page v of c is a copy of that of p.
PageCopied(pd, pt, dt, c, p, v) ==
  /\ Frame(pd[c], pt, v) = None <=> Frame(pd[p], pt, v) = None
  /\ Frame(pd[p], pt, v) # None => dt[Frame(pd[c], pt, v)] = dt[Frame(pd[p], pt, v)]

Copying(td, pd, pt, dt, p) ==
  LET s == td[1]
  IN /\ s[1] = "copy_table" =>
          \A v \in Nat : DirOf(v) \in UserDirs /\ DirOf(v) < s[3] => PageCopied(pd, pt, dt, p, s[2], v)
     /\ s[1] = "copy" =>
          /\ pd[s[2]][s[3]] # None
          /\ \A v \in Nat : DirOf(v) \in UserDirs /\ (DirOf(v) < s[3] \/ (DirOf(v) = s[3] /\ EntryOf(v) < s[4]))
                             => PageCopied(pd, pt, dt, p, s[2], v)

\* A memory that is complete has a stack.
HasStack(pd, pt, p) == Frame(pd[p], pt, PageOf(StackTop)) # None
Seen(td, S, p, q) == q \in S /\ (q = p => Old(td[1]) \/ td[1][1] = "answer")

ImageInv ==
  /\ pcb # None => /\ Planned(todo, spaces, pcb)
                   /\ Loading(todo, pdir, ptes, data, pcb)
                   /\ Copying(todo, pdir, ptes, data, pcb)
  /\ \A q \in Pcbs : Seen(todo, spaces, pcb, q) => HasStack(pdir, ptes, q)
-----------------------------------------------------------------------------
(* Who sees which frames. *)

\* Process q sees the same in its pages.
SameView(pd, pt, dt, pd2, pt2, dt2, q) ==
  \A v \in Nat : DirOf(v) \in UserDirs =>
    /\ Frame(pd2[q], pt2, v) = Frame(pd[q], pt, v)
    /\ Frame(pd[q], pt, v) # None => dt2[Frame(pd[q], pt, v)] = dt[Frame(pd[q], pt, v)]

\* Frame f is somewhere in the tables of q.
Holds(pd, pt, q, f) == \E d \in LowDirs : \E e \in Spots : Held(pd, pt, q, d, e) = f

(* A process sees the same when the frames it holds are left alone. *)
LEMMA ViewKept ==
  ASSUME NEW pd, NEW pt, NEW dt, NEW pd2, NEW pt2, NEW dt2, NEW q, pd2[q] = pd[q],
         \A f : f # None /\ Holds(pd, pt, q, f) => pt2[f] = pt[f] /\ dt2[f] = dt[f]
  PROVE  SameView(pd, pt, dt, pd2, pt2, dt2, q)
<1> SUFFICES ASSUME NEW v \in Nat, DirOf(v) \in UserDirs
             PROVE  /\ Frame(pd2[q], pt2, v) = Frame(pd[q], pt, v)
                    /\ Frame(pd[q], pt, v) # None => dt2[Frame(pd[q], pt, v)] = dt[Frame(pd[q], pt, v)]
  BY DEF SameView
<1> PICK d : d = DirOf(v)
  OBVIOUS
<1> PICK e : e = EntryOf(v)
  OBVIOUS
<1>1. d \in LowDirs /\ e \in Spots /\ None \in Spots /\ e # None
  BY NumberTypes, PlaceOfPage DEF Spots
<1> PICK t : t = pd[q][d]
  OBVIOUS
<1>2. CASE t = None
  BY <1>2 DEF Frame
<1>3. CASE t # None
  <2>1. Held(pd, pt, q, d, None) = t
    BY DEF Held
  <2>2. Holds(pd, pt, q, t)
    BY <1>1, <2>1 DEF Holds
  <2>3. pt2[t] = pt[t]
    BY <1>3, <2>2
  <2>4. Frame(pd[q], pt, v) = pt[t][e] /\ Frame(pd2[q], pt2, v) = pt2[t][e]
    BY <1>3 DEF Frame
  <2>5. Held(pd, pt, q, d, e) = pt[t][e]
    BY <1>1, <1>3 DEF Held
  <2>6. Holds(pd, pt, q, pt[t][e])
    BY <1>1, <2>5 DEF Holds
  <2> QED
    BY <2>3, <2>4, <2>6
<1> QED
  BY <1>2, <1>3

(* What one process holds is marked, and no other holds it. *)
LEMMA HeldByOne ==
  ASSUME MemoryInv, NEW q \in spaces, NEW f, f # None, Holds(pdir, ptes, q, f)
  PROVE  f \in Marked /\ \A p \in spaces : p # q => ~Holds(pdir, ptes, p, f)
<1>1. Exact(pdir, ptes, spaces, Marked)
  BY DEF MemoryInv
<1>2. PICK d \in LowDirs, e \in Spots : Held(pdir, ptes, q, d, e) = f
  BY DEF Holds
<1>3. f \in Marked
  BY <1>1, <1>2 DEF Exact
<1>4. ASSUME NEW p \in spaces, p # q, Holds(pdir, ptes, p, f)
      PROVE  FALSE
  <2>1. PICK c \in LowDirs, i \in Spots : Held(pdir, ptes, p, c, i) = f
    BY <1>4 DEF Holds
  <2>2. Held(pdir, ptes, p, c, i) = Held(pdir, ptes, q, d, e) /\ Held(pdir, ptes, p, c, i) # None
    BY <1>2, <2>1
  <2> QED
    BY ONLY <1>1, <1>4, <2>2, q \in spaces, c \in LowDirs, i \in Spots, d \in LowDirs, e \in Spots DEF Exact
<1> QED
  BY <1>3, <1>4

(* What is done to frames of p, and to idle ones, no other process sees. *)
LEMMA OthersView ==
  ASSUME MemoryInv, NEW q \in spaces, NEW p, p # q, pdir'[q] = pdir[q],
         \A f \in Marked : (ptes'[f] = ptes[f] /\ data'[f] = data[f]) \/ (p \in spaces /\ Holds(pdir, ptes, p, f))
  PROVE  SameView(pdir, ptes, data, pdir', ptes', data', q)
<1>1. ASSUME NEW f, f # None, Holds(pdir, ptes, q, f)
      PROVE  ptes'[f] = ptes[f] /\ data'[f] = data[f]
  BY <1>1, HeldByOne
<1> QED
  BY <1>1, ViewKept

(* The same, for every step of the memory manager. *)
LEMMA OthersSame ==
  ASSUME MemoryInv, CopyInv, Steps, NEW q \in spaces, q # pcb
  PROVE  q \in spaces' /\ SameView(pdir, ptes, data, pdir', ptes', data', q)
<1>1. pdir \in Pdirs /\ ptes \in Tables /\ spaces \in SUBSET Pcbs /\ q \in Pcbs
  BY DEF MemoryInv, MapType
<1>2. GetIdlePage => NewFrame \notin Marked
  BY OneFrame DEF MemoryInv, MapType
<1>3. GetTwoIdlePages => NewFrame \notin Marked /\ SecondFrame \notin Marked
  BY TwoFrames DEF MemoryInv, MapType
<1>4. ASSUME NEW d \in LowDirs
      PROVE  Holds(pdir, ptes, pcb, pdir[pcb][d])
  <2>1. None \in Spots /\ Held(pdir, ptes, pcb, d, None) = pdir[pcb][d]
    BY DEF Spots, Held
  <2> QED
    BY <2>1 DEF Holds
<1>5. ASSUME UNCHANGED <<pdir, ptes, data, spaces>>
      PROVE  q \in spaces' /\ SameView(pdir, ptes, data, pdir', ptes', data', q)
  <2>1. \A f : ptes'[f] = ptes[f] /\ data'[f] = data[f]
    BY <1>5
  <2> QED
    BY <1>5, <2>1, OthersView
<1>6. CASE Clear
  <2>1. pdir' = [pdir EXCEPT ![pcb] = [d \in Dirs |-> None]] /\ spaces' = spaces \cup {pcb} /\ UNCHANGED <<ptes, data>>
    BY <1>6 DEF Clear
  <2>2. pdir'[q] = pdir[q] /\ \A f : ptes'[f] = ptes[f] /\ data'[f] = data[f]
    BY <1>1, <2>1 DEF Pdirs
  <2> QED
    BY <2>1, <2>2, OthersView
<1>7. CASE Kernel
  <2>1. /\ pdir' = [pdir EXCEPT ![pcb][Arg(2)] = NewFrame, ![pcb][Arg(2) + KOFFSET] = NewFrame]
        /\ ptes' = [ptes EXCEPT ![NewFrame] = [e \in Entries |-> Arg(2) * NR_PTE + e]]
        /\ GetIdlePage /\ UNCHANGED <<data, spaces>>
    BY <1>7 DEF Kernel
  <2>2. pdir'[q] = pdir[q] /\ \A f : f # NewFrame => ptes'[f] = ptes[f] /\ data'[f] = data[f]
    BY <1>1, <2>1 DEF Pdirs, Tables
  <2> QED
    BY <1>2, <2>1, <2>2, OthersView
<1>8. CASE Table
  <2>1. /\ pdir' = [pdir EXCEPT ![pcb][Arg(2)] = NewFrame]
        /\ ptes' = [ptes EXCEPT ![NewFrame] = ZeroTable]
        /\ GetIdlePage /\ UNCHANGED <<data, spaces>>
    BY <1>8 DEF Table
  <2>2. pdir'[q] = pdir[q] /\ \A f : f # NewFrame => ptes'[f] = ptes[f] /\ data'[f] = data[f]
    BY <1>1, <2>1 DEF Pdirs, Tables
  <2> QED
    BY <1>2, <2>1, <2>2, OthersView
<1>9. CASE Stack
  <2>1. Doing("stack") /\ SetPte(Arg(2), NewFrame) /\ UNCHANGED <<pdir, data, spaces>>
    BY <1>9 DEF Stack
  <2>2. pcb \in spaces /\ StepOK(todo[1]) /\ Head(todo) = todo[1] /\ todo[1][1] = "stack"
    BY <2>1, InHand
  <2> PICK d : d = DirOf(Arg(2))
    OBVIOUS
  <2>3. d \in LowDirs
    BY <2>2, StackPages, NumberTypes DEF StepOK, Arg
  <2>4. \A f : f # pdir[pcb][d] => ptes'[f] = ptes[f]
    BY <1>1, <2>1 DEF Tables, SetPte
  <2>5. Holds(pdir, ptes, pcb, pdir[pcb][d])
    BY <1>4, <2>3
  <2>6. \A f \in Marked : (ptes'[f] = ptes[f] /\ data'[f] = data[f]) \/ (pcb \in spaces /\ Holds(pdir, ptes, pcb, f))
    BY <2>1, <2>2, <2>4, <2>5
  <2> QED
    BY <2>1, <2>6, OthersView
<1>10. CASE FirstPage
  <2>1. Doing("first") /\ UNCHANGED <<spaces>>
    BY <1>10 DEF FirstPage
  <2>2. pcb \in spaces /\ Ready(todo, pdir, ptes, spaces, pcb) /\ Head(todo) = todo[1] /\ todo[1][1] = "first"
    BY <2>1, InHand
  <2> PICK v : v = Arg(2)
    OBVIOUS
  <2> PICK d : d = DirOf(v)
    OBVIOUS
  <2>3. d \in LowDirs
    BY <2>2, ConstantTypes DEF Ready, ProgramPage, Arg, LowDirs
  <2>4. CASE /\ GetTwoIdlePages /\ pdir' = [pdir EXCEPT ![pcb][d] = NewFrame]
             /\ ptes' = [ptes EXCEPT ![NewFrame] = [ZeroTable EXCEPT ![EntryOf(v)] = SecondFrame]]
             /\ data' = [data EXCEPT ![SecondFrame] = ZeroPage]
    <3>1. pdir'[q] = pdir[q] /\ \A f : f \notin {NewFrame, SecondFrame} => ptes'[f] = ptes[f] /\ data'[f] = data[f]
      BY <1>1, <2>4 DEF Pdirs, Tables
    <3> QED
      BY <1>3, <2>1, <2>4, <3>1, OthersView
  <2>5. CASE /\ GetIdlePage /\ SetPte(v, NewFrame) /\ data' = [data EXCEPT ![NewFrame] = ZeroPage] /\ UNCHANGED pdir
    <3>1. \A f : f # pdir[pcb][d] => ptes'[f] = ptes[f]
      BY <1>1, <2>5 DEF Tables, SetPte
    <3>2. \A f : f # NewFrame => data'[f] = data[f]
      BY <2>5
    <3>3. Holds(pdir, ptes, pcb, pdir[pcb][d])
      BY <1>4, <2>3
    <3>4. \A f \in Marked : (ptes'[f] = ptes[f] /\ data'[f] = data[f]) \/ (pcb \in spaces /\ Holds(pdir, ptes, pcb, f))
      BY <1>2, <2>2, <2>5, <3>1, <3>2, <3>3
    <3> QED
      BY <2>1, <2>5, <3>4, OthersView
  <2>6. CASE UNCHANGED <<pdir, ptes, data>>
    BY <1>5, <2>1, <2>6
  <2> QED
    BY <1>10, <2>4, <2>5, <2>6 DEF FirstPage, Cleared
<1>11. CASE NextPage
  <2>1. Doing("next") /\ data' = [data EXCEPT ![NewFrame] = ZeroPage] /\ UNCHANGED <<spaces>>
    BY <1>11 DEF NextPage, Cleared
  <2>2. pcb \in spaces /\ Ready(todo, pdir, ptes, spaces, pcb) /\ Head(todo) = todo[1] /\ todo[1][1] = "next"
    BY <2>1, InHand
  <2> PICK v : v = Arg(2)
    OBVIOUS
  <2> PICK d : d = DirOf(v)
    OBVIOUS
  <2>3. CASE EntryOf(v) = 0
    <3>1. /\ GetTwoIdlePages /\ pdir' = [pdir EXCEPT ![pcb][d] = SecondFrame]
          /\ ptes' = [ptes EXCEPT ![SecondFrame] = [ZeroTable EXCEPT ![0] = NewFrame]]
      BY <1>11, <2>3 DEF NextPage
    <3>2. pdir'[q] = pdir[q] /\ \A f : f \notin {NewFrame, SecondFrame} => ptes'[f] = ptes[f] /\ data'[f] = data[f]
      BY <1>1, <2>1, <3>1 DEF Pdirs, Tables
    <3> QED
      BY <1>3, <2>1, <3>1, <3>2, OthersView
  <2>4. CASE EntryOf(v) # 0
    <3>0. /\ GetIdlePage /\ SetPte(v, NewFrame) /\ UNCHANGED pdir
      BY <1>11, <2>4 DEF NextPage
    <3>1. \A f : f # pdir[pcb][d] => ptes'[f] = ptes[f]
      BY <1>1, <3>0 DEF Tables, SetPte
    <3>2. \A f : f # NewFrame => data'[f] = data[f]
      BY <2>1
    <3>3. Holds(pdir, ptes, pcb, pdir[pcb][d])
      <4>1. PICK u : v = u + 1 /\ ProgramPage(u)
        BY <2>2 DEF Ready, Arg
      <4>2. d = DirOf(u)
        BY <2>4, <4>1, PlaceOfPage DEF ProgramPage
      <4>3. d \in LowDirs
        BY <4>1, <4>2, ConstantTypes DEF ProgramPage, LowDirs
      <4> QED
        BY <1>4, <4>3
    <3>4. \A f \in Marked : (ptes'[f] = ptes[f] /\ data'[f] = data[f]) \/ (pcb \in spaces /\ Holds(pdir, ptes, pcb, f))
      BY <1>2, <2>2, <3>0, <3>1, <3>2, <3>3
    <3> QED
      BY <2>1, <3>0, <3>4, OthersView
  <2> QED
    BY <2>3, <2>4
<1>12. CASE CopyTable
  <2>1. UNCHANGED <<data, spaces>>
    BY <1>12 DEF CopyTable
  <2>2. CASE UNCHANGED <<pdir, ptes>>
    BY <1>5, <2>1, <2>2
  <2>3. ASSUME NEW d, GetIdlePage, ptes' = [ptes EXCEPT ![NewFrame] = ZeroTable], pdir' = [pdir EXCEPT ![pcb][d] = NewFrame]
        PROVE  q \in spaces' /\ SameView(pdir, ptes, data, pdir', ptes', data', q)
    <3>1. pdir'[q] = pdir[q] /\ \A f : f # NewFrame => ptes'[f] = ptes[f] /\ data'[f] = data[f]
      BY <1>1, <2>1, <2>3 DEF Pdirs, Tables
    <3> QED
      BY <1>2, <2>1, <2>3, <3>1, OthersView
  <2> QED
    BY <1>12, <2>2, <2>3 DEF CopyTable
<1>13. CASE CopyPage
  <2>1. Doing("copy") /\ UNCHANGED <<pdir, spaces>>
    BY <1>13 DEF CopyPage
  <2>2. pcb \in spaces /\ StepOK(todo[1]) /\ Head(todo) = todo[1] /\ todo[1][1] = "copy"
    BY <2>1, InHand
  <2> PICK d : d = Arg(3)
    OBVIOUS
  <2>3. d \in LowDirs
    BY <2>2, NumberTypes DEF StepOK, Arg
  <2> PICK f : f = ptes[pdir[Arg(2)][Arg(3)]][Arg(4)]
    OBVIOUS
  <2>4. CASE f = None
    <3>1. UNCHANGED <<ptes, data>>
      BY <1>13, <2>4 DEF CopyPage
    <3> QED
      BY <1>5, <2>1, <3>1
  <2>5. CASE f # None
    <3>0. GetIdlePage /\ ptes' = [ptes EXCEPT ![pdir[pcb][d]][Arg(4)] = NewFrame] /\ data' = [data EXCEPT ![NewFrame] = data[f]]
      BY <1>13, <2>5 DEF CopyPage
    <3>1. \A g : g # pdir[pcb][d] => ptes'[g] = ptes[g]
      BY <1>1, <3>0 DEF Tables
    <3>2. \A g : g # NewFrame => data'[g] = data[g]
      BY <3>0
    <3>3. Holds(pdir, ptes, pcb, pdir[pcb][d])
      BY <1>4, <2>3
    <3>4. \A g \in Marked : (ptes'[g] = ptes[g] /\ data'[g] = data[g]) \/ (pcb \in spaces /\ Holds(pdir, ptes, pcb, g))
      BY <1>2, <2>2, <3>0, <3>1, <3>2, <3>3
    <3> QED
      BY <2>1, <3>4, OthersView
  <2> QED
    BY <2>4, <2>5
<1>14. CASE Takeback
  <2>1. /\ Doing("takeback") /\ spaces' = spaces \ {pcb} /\ UNCHANGED data
        /\ ptes' = [t \in DOMAIN ptes |-> IF t \in UserTables(pcb) THEN ZeroTable ELSE ptes[t]]
        /\ pdir' = [pdir EXCEPT ![pcb] = [d \in Dirs |-> IF d \in UserDirs THEN None ELSE @[d]]]
    BY <1>14 DEF Takeback
  <2>2. pcb \in spaces
    BY <2>1, InHand
  <2>3. pdir'[q] = pdir[q]
    BY <1>1, <2>1 DEF Pdirs
  <2>4. \A f \in Marked : f \notin UserTables(pcb) => ptes'[f] = ptes[f]
    <3>1. Marked \subseteq PoolFrames
      BY MarkedType
    <3> QED
      BY <1>1, <2>1, <3>1 DEF Tables
  <2>5. \A f \in UserTables(pcb) : Holds(pdir, ptes, pcb, f)
    <3>1. \A f \in UserTables(pcb) : \E d \in UserDirs : f = pdir[pcb][d]
      BY DEF UserTables
    <3> QED
      BY <1>4, <3>1, NumberTypes
  <2> QED
    BY <2>1, <2>2, <2>3, <2>4, <2>5, OthersView
<1>15. CASE CopyFromKernel
  <2>1. Doing("from") /\ UNCHANGED <<pdir, ptes, spaces>>
    BY <1>15 DEF CopyFromKernel, Maps
  <2>2. pcb \in spaces /\ pcb # None /\ Head(todo) = todo[1] /\ todo[1][1] = "from"
    BY <2>1, InHand
  <2>3. CASE data' = data
    BY <1>5, <2>1, <2>3
  <2>4. CASE data' # data
    <3> PICK a : a = Arg(2)
      OBVIOUS
    <3> PICK src : src = Arg(3)
      OBVIOUS
    <3> PICK f : f = Frame(pdir[pcb], ptes, PageOf(a))
      OBVIOUS
    <3> PICK c : c = Chunk(a, Len(src))
      OBVIOUS
    <3>0. f # None /\ src # <<>> /\ data' = [data EXCEPT ![f] = WithBytes(data[f], OffsetOf(a), c, src)]
      BY <1>15, <2>4 DEF CopyFromKernel, Absent, WithBytes
    <3>1. f # None /\ src # <<>> /\ \A g : g # f => data'[g] = data[g]
      BY <3>0
    <3>2. /\ a \in Nat /\ src \in Seq(ToSet(src)) /\ a >= KERNEL_MEM * PAGE_SIZE /\ a + Len(src) <= High + 3
      BY <2>2 DEF CopyInv, Prepared, Copies, Arg
    <3>3. Len(src) \in Nat /\ Len(src) > 0
      BY <3>1, <3>2
    <3>4. High \in Nat /\ a <= High + 2
      BY <3>2, <3>3, HighType
    <3>5. KernelUpTo(pdir, ptes, pcb, KERNEL_DIRS)
      BY <2>2, AllWhole
    <3>6. CASE a < High
      <4>1. PageOf(a) \in Nat /\ DirOf(PageOf(a)) \in UserDirs
        BY <3>2, <3>6, UserAddress
      <4>2. /\ f = Held(pdir, ptes, pcb, DirOf(PageOf(a)), EntryOf(PageOf(a)))
            /\ DirOf(PageOf(a)) \in LowDirs /\ EntryOf(PageOf(a)) \in Spots
        BY <2>2, <3>1, <4>1, UserPage
      <4>3. Holds(pdir, ptes, pcb, f)
        BY <4>2 DEF Holds
      <4> QED
        BY <2>1, <2>2, <3>1, <4>3, OthersView
    <3>7. CASE a >= High
      <4>1. f = 0
        BY <2>2, <3>2, <3>4, <3>5, <3>7, CopyTarget
      <4>2. 0 \notin Marked
        BY MarkedType, ConstantTypes DEF PoolFrames
      <4> QED
        BY <2>1, <3>1, <4>1, <4>2, OthersView, SMTT(60)
    <3> QED
      BY <3>2, <3>4, <3>6, <3>7
  <2> QED
    BY <2>3, <2>4
<1>16. CASE LoadSegment \/ LastPage \/ StrlenUserString \/ CopyToKernel \/ PlaceArgs \/ Answer
  <2>1. UNCHANGED <<pdir, ptes, data, spaces>>
    BY <1>16 DEF LoadSegment, LastPage, StrlenUserString, CopyToKernel, PlaceArgs, Answer, Maps, Absent, Overrun
  <2> QED
    BY <1>5, <2>1
<1> QED
  BY <1>6, <1>7, <1>8, <1>9, <1>10, <1>11, <1>12, <1>13, <1>14, <1>15, <1>16 DEF Steps
-----------------------------------------------------------------------------
(* The steps ahead. *)

(* The answer comes last. *)
LEMMA AnswerIsLast ==
  ASSUME NEW td, TodoOK(td)
  PROVE  Len(td) = 1 <=> td[1][1] = "answer"
<1>1. Len(td) \in Nat /\ Len(td) > 0 /\ td[Len(td)][1] = "answer"
  BY DEF TodoOK, Fits
<1>2. ASSUME td[1][1] = "answer", Len(td) # 1
      PROVE  FALSE
  <2> PICK n : n = Len(td)
    OBVIOUS
  <2>0. n \in Nat /\ n > 0 /\ n # 1
    BY <1>1, <1>2
  <2>1. 1 \in 1..(n - 1)
    BY ONLY <2>0
  <2>2. MayFollow("answer", td[2][1])
    BY <1>2, <2>1 DEF TodoOK, Fits
  <2> QED
    BY <2>2 DEF MayFollow
<1> QED
  BY <1>1, <1>2

(* Steps of the old memory come first. *)
LEMMA OldIsFirst ==
  ASSUME NEW td, TodoOK(td), NEW k \in 1..Len(td), Old(td[k])
  PROVE  Old(td[1])
<1>1. Len(td) \in Nat /\ \A j \in 1..(Len(td) - 1) : MayFollow(td[j][1], td[j + 1][1])
  BY DEF TodoOK, Fits
<1>2. CASE k = 1
  BY <1>2
<1>3. CASE k # 1
  <2> PICK j : j = k - 1
    OBVIOUS
  <2>1. j \in 1..(Len(td) - 1) /\ j + 1 = k
    BY <1>1, <1>3
  <2>2. MayFollow(td[j][1], td[k][1])
    BY <1>1, <2>1
  <2>3. td[j][1] \in {"strlen", "to"}
    BY <2>2 DEF MayFollow, Old
  <2>4. CASE j = 1
    BY <2>3, <2>4 DEF Old
  <2>5. CASE j # 1
    <3> PICK i : i = j - 1
      OBVIOUS
    <3>1. i \in 1..(Len(td) - 1) /\ i + 1 = j
      BY <1>1, <2>1, <2>5
    <3>2. MayFollow(td[i][1], td[j][1])
      BY <1>1, <3>1
    <3> QED
      BY <2>3, <3>2 DEF MayFollow
  <2> QED
    BY <2>4, <2>5
<1> QED
  BY <1>2, <1>3

(* A memory is complete while its old steps, or only the answer, are left. *)
LEMMA CompleteIs ==
  ASSUME MemoryInv, NEW q
  PROVE  Complete(q) <=> Seen(todo, spaces, pcb, q)
<1>1. spaces \in SUBSET Pcbs /\ None \notin Pcbs
  BY MemoryAssumption DEF MemoryInv, MapType
<1>2. CASE q \notin spaces \/ q # pcb
  BY <1>2 DEF Complete, Seen
<1>3. CASE q \in spaces /\ q = pcb
  <2>1. TodoOK(todo)
    BY <1>1, <1>3 DEF MemoryInv
  <2>2. Len(todo) \in Nat /\ Len(todo) > 0 /\ DOMAIN todo = 1..Len(todo)
    BY <2>1 DEF TodoOK, Fits
  <2>3. (\E k \in DOMAIN todo : todo[k][1] \in {"takeback", "strlen", "to"}) <=> Old(todo[1])
    <3>1. ASSUME NEW k \in DOMAIN todo, todo[k][1] \in {"takeback", "strlen", "to"}
          PROVE  Old(todo[1])
      BY <2>1, <2>2, <3>1, OldIsFirst DEF Old
    <3>2. Old(todo[1]) => \E k \in DOMAIN todo : todo[k][1] \in {"takeback", "strlen", "to"}
      BY <2>2 DEF Old
    <3> QED
      BY <3>1, <3>2
  <2> QED
    BY <1>3, <2>1, <2>3, AnswerIsLast DEF Complete, Seen
<1> QED
  BY <1>2, <1>3

\* Step s may take the place of a.
Continues(a, s) ==
  /\ s[1] \in Early => a[1] \in Early
  /\ s[1] \in {"copy_table", "copy"} => a[1] \in {"copy_table", "copy"} /\ s[2] = a[2]

(* Early steps come after early steps. *)
LEMMA EarlyBefore ==
  ASSUME NEW a, NEW b, MayFollow(a, b), b \in Early
  PROVE  a \in Early
BY DEF MayFollow, Early

(* The steps ahead stay in order. *)
LEMMA PlannedStep ==
  ASSUME MemoryInv, NEW op, Doing(op), op # "answer", Planned(todo, spaces, pcb), TodoOK(todo'),
         Done \/ \E s : Then(s) /\ Continues(todo[1], s), NEW S, spaces \ {pcb} \subseteq S
  PROVE  Planned(todo', S, pcb)
<1>0. /\ TodoOK(todo) /\ todo[1][1] = op /\ Len(todo) \in Nat /\ Len(todo) > 1 /\ MayFollow(op, todo[2][1])
  BY InHand, NextStep
<1> DEFINE Copy == {"copy_table", "copy"}
<1>1. \A k \in 1..Len(todo) : todo[k][1] \in Copy => todo[k][2] = todo[Len(todo)][2] /\ todo[k][2] \in S /\ todo[k][2] # pcb
  BY DEF Planned
<1>2. CASE Done
  <2>1. Len(todo') = Len(todo) - 1 /\ \A k \in 1..(Len(todo) - 1) : todo'[k] = todo[k + 1]
    BY <1>2, AfterDone
  <2>2. \A k \in 1..Len(todo') : todo'[k] = todo[k + 1] /\ k + 1 \in 1..Len(todo)
    BY <1>0, <2>1
  <2>3. todo'[Len(todo')] = todo[Len(todo)] /\ todo'[1] = todo[2]
    BY <1>0, <2>1
  <2>4. \A k \in 1..Len(todo') : todo'[k][1] \in Copy => todo'[k][2] = todo'[Len(todo')][2] /\ todo'[k][2] \in S /\ todo'[k][2] # pcb
    BY <1>1, <2>2, <2>3
  <2>5. todo'[1][1] \in Early => \A k \in 1..Len(todo') : todo'[k][1] = "load" => todo'[k][3] = 1
    <3>1. todo'[1][1] \in Early => todo[1][1] \in Early
      BY <1>0, <2>3, EarlyBefore
    <3> QED
      BY <2>2, <3>1 DEF Planned
  <2> QED
    BY <2>4, <2>5 DEF Planned
<1>3. ASSUME NEW s, Then(s), Continues(todo[1], s)
      PROVE  Planned(todo', S, pcb)
  <2>1. todo'[1] = s /\ Len(todo') = Len(todo) /\ \A k \in 2..Len(todo) : todo'[k] = todo[k]
    BY <1>3, ThenHead, ThenLength
  <2>2. \A k \in 1..Len(todo') : k \in 1..Len(todo) /\ (k = 1 \/ todo'[k] = todo[k])
    BY <1>0, <2>1
  <2>3. todo'[Len(todo')] = todo[Len(todo)]
    BY <1>0, <2>1
  <2>4. \A k \in 1..Len(todo') : todo'[k][1] \in Copy => todo'[k][2] = todo'[Len(todo')][2] /\ todo'[k][2] \in S /\ todo'[k][2] # pcb
    <3> SUFFICES ASSUME NEW k \in 1..Len(todo'), todo'[k][1] \in Copy
                 PROVE  todo'[k][2] = todo'[Len(todo')][2] /\ todo'[k][2] \in S /\ todo'[k][2] # pcb
      OBVIOUS
    <3>1. CASE k = 1
      <4>1. todo[1][1] \in Copy /\ s[2] = todo[1][2] /\ 1 \in 1..Len(todo)
        BY <1>0, <1>3, <2>1, <3>1 DEF Continues
      <4> QED
        BY <1>1, <2>1, <2>3, <3>1, <4>1
    <3>2. CASE k # 1
      BY <1>1, <2>2, <2>3, <3>2
    <3> QED
      BY <3>1, <3>2
  <2>5. todo'[1][1] \in Early => \A k \in 1..Len(todo') : todo'[k][1] = "load" => todo'[k][3] = 1
    <3> SUFFICES ASSUME s[1] \in Early, NEW k \in 1..Len(todo'), todo'[k][1] = "load"
                 PROVE  todo'[k][3] = 1
      BY <2>1
    <3>1. todo[1][1] \in Early /\ s[1] # "load"
      BY <1>3 DEF Continues, Early
    <3>2. k \in 1..Len(todo) /\ todo'[k] = todo[k]
      BY <2>1, <2>2, <3>1
    <3> QED
      BY <3>1, <3>2 DEF Planned
  <2> QED
    BY <2>4, <2>5 DEF Planned
<1> QED
  BY <1>2, <1>3

(* load_segment(): its steps come before those that are left. *)
LEMMA SegmentAhead ==
  ASSUME MemoryInv, Doing("load"), NEW i, NEW ph, NEW l, l[1] = "load",
         todo' = SegmentSteps(i, ph) \o <<l>> \o Tail(todo)
  PROVE  /\ todo'[1] = <<"first", PageOf(ph.vaddr)>> /\ todo'[2] = <<"next", PageOf(ph.vaddr) + 1, RestPages(ph)>>
         /\ todo'[3] = ReadElf(i, ph) /\ todo'[4] = l
         /\ Len(todo') = Len(todo) + 3 /\ \A k \in 5..Len(todo') : todo'[k] = todo[k - 3]
<1>1. TodoOK(todo) /\ todo \in Seq(ToSet(todo)) /\ Len(todo) \in Nat /\ Len(todo) > 1
  BY InHand, NextStep DEF TodoOK, Fits
<1> PICK r : r = Tail(todo)
  OBVIOUS
<1> PICK R : R = ToSet(todo)
  OBVIOUS
<1>2. r \in Seq(R) /\ Len(r) = Len(todo) - 1 /\ \A k \in 1..Len(r) : r[k] = todo[k + 1]
  BY <1>1
<1> PICK a : a = <<"first", PageOf(ph.vaddr)>>
  OBVIOUS
<1> PICK b : b = <<"next", PageOf(ph.vaddr) + 1, RestPages(ph)>>
  OBVIOUS
<1> PICK c : c = ReadElf(i, ph)
  OBVIOUS
<1> PICK u : u = todo'
  OBVIOUS
<1>3. u = <<a, b, c>> \o <<l>> \o r
  BY DEF SegmentSteps
<1>4. /\ u[1] = a /\ u[2] = b /\ u[3] = c /\ u[4] = l /\ Len(u) = 4 + Len(r)
      /\ \A k \in 5..Len(u) : u[k] = r[k - 4]
  <2>1. r \in Seq(R)
    BY <1>2
  <2> QED
    BY ONLY <1>3, <2>1
<1>5. Len(u) = Len(todo) + 3
  BY <1>1, <1>2, <1>4
<1>6. \A k \in 5..Len(u) : u[k] = todo[k - 3]
  <2> TAKE k \in 5..Len(u)
  <2>1. k - 4 \in 1..Len(r) /\ (k - 4) + 1 = k - 3
    BY <1>1, <1>2, <1>5
  <2> QED
    BY <1>2, <1>4, <2>1
<1> QED
  BY <1>4, <1>5, <1>6

(* load_program() keeps the order. *)
LEMMA LoadPlanned ==
  ASSUME MemoryInv, LoadSegment, Planned(todo, spaces, pcb)
  PROVE  Planned(todo', spaces, pcb)
<1> DEFINE i == todo[1][2]
           k == todo[1][3]
           l == <<"load", i, k + 1>>
<1>1. Doing("load")
  BY DEF LoadSegment
<1>2. TodoOK(todo) /\ todo[1][1] = "load" /\ Head(todo) = todo[1] /\ Len(todo) \in Nat /\ Len(todo) > 1
  BY <1>1, InHand, NextStep
<1>3. TodoOK(todo')
  <2>1. MemoryInv' /\ pcb' = pcb /\ pcb # None
    BY <1>1, InHand, LoadSegmentStep DEF LoadSegment, Rest
  <2> QED
    BY <2>1 DEF MemoryInv
<1>4. l[1] = "load"
  OBVIOUS
<1>5. \/ Done
      \/ Then(l)
      \/ todo' = SegmentSteps(i, Programs[i][k]) \o <<l>> \o Tail(todo)
  BY <1>2 DEF LoadSegment, Arg
<1> HIDE DEF i, k, l
<1>6. CASE Done \/ Then(l)
  <2>1. Continues(todo[1], l)
    BY <1>4 DEF Continues, Early
  <2> QED
    BY <1>1, <1>3, <1>6, <2>1, PlannedStep
<1>7. CASE todo' = SegmentSteps(i, Programs[i][k]) \o <<l>> \o Tail(todo)
  <2> PICK ph : ph = Programs[i][k]
    OBVIOUS
  <2>1. /\ todo'[1] = <<"first", PageOf(ph.vaddr)>> /\ todo'[2] = <<"next", PageOf(ph.vaddr) + 1, RestPages(ph)>>
        /\ todo'[3] = ReadElf(i, ph) /\ todo'[4] = l
        /\ Len(todo') = Len(todo) + 3 /\ \A j \in 5..Len(todo') : todo'[j] = todo[j - 3]
    <3>1. todo' = SegmentSteps(i, ph) \o <<l>> \o Tail(todo)
      BY <1>7
    <3> QED
      BY ONLY MemoryInv, <1>1, <1>4, <3>1, SegmentAhead
  <2>2. todo'[1][1] = "first" /\ todo'[2][1] = "next" /\ todo'[3][1] = "from" /\ todo'[4][1] = "load"
    BY <1>4, <2>1 DEF ReadElf
  <2>3. todo'[Len(todo')] = todo[Len(todo)]
    <3> PICK n : n = Len(todo)
      OBVIOUS
    <3>1. n \in Nat /\ n > 1 /\ Len(todo') = n + 3
      BY <1>2, <2>1
    <3>2. n + 3 \in 5..(n + 3) /\ (n + 3) - 3 = n
      BY ONLY <3>1
    <3> QED
      BY <2>1, <3>1, <3>2
  <2>4. ASSUME NEW j \in 1..Len(todo'), todo'[j][1] \in {"copy_table", "copy"}
        PROVE  todo'[j][2] = todo'[Len(todo')][2] /\ todo'[j][2] \in spaces /\ todo'[j][2] # pcb
    <3>1. j \notin {1, 2, 3, 4}
      BY <2>2, <2>4
    <3>2. j \in 5..Len(todo') /\ j - 3 \in 1..Len(todo)
      BY <1>2, <2>1, <3>1
    <3> QED
      BY <2>1, <2>3, <2>4, <3>2 DEF Planned
  <2>5. todo'[1][1] \notin Early
    BY <2>2 DEF Early
  <2> QED
    BY <2>4, <2>5 DEF Planned
<1> QED
  BY <1>5, <1>6, <1>7

(* What a request begins with. *)
LEMMA RequestPlanned ==
  ASSUME NEW p, NEW q, NEW steps, NEW args, Request(p, q, steps, args), NEW A, steps \in Seq(A),
         \A s \in A : /\ s[1] \in {"copy_table", "copy"} => s[2] = q /\ q \in spaces /\ q # p
                      /\ s[1] = "load" => s[3] = 1
  PROVE  Planned(todo', spaces', pcb')
<1> PICK a : a = <<"answer", q>>
  OBVIOUS
<1>0. a[1] = "answer" /\ a[2] = q
  OBVIOUS
<1> PICK B : B = A \cup {a}
  OBVIOUS
<1>1. todo' = steps \o <<a>> /\ spaces' = spaces /\ pcb' = p
  BY DEF Request
<1> PICK u : u = todo'
  OBVIOUS
<1>2. u \in Seq(B) /\ u[Len(u)] = a
  <2>1. steps \in Seq(B) /\ <<a>> \in Seq(B) /\ Len(<<a>>) = 1 /\ <<a>>[1] = a
    OBVIOUS
  <2> QED
    BY <1>1, <2>1, LastOfJoin
<1>3. \A k \in 1..Len(u) : u[k] \in B
  BY <1>2
<1>4. \A s \in B : /\ s[1] \in {"copy_table", "copy"} => s[2] = q /\ q \in spaces /\ q # p
                   /\ s[1] = "load" => s[3] = 1
  BY <1>0
<1> QED
  BY <1>0, <1>1, <1>2, <1>3, <1>4 DEF Planned

\* The steps of load_program().
LoadStepSet(i) ==
  {<<"clear">>, <<"kernel", 0>>, <<"table", KOFFSET - 1>>, <<"stack", PageOf(StackTop)>>, <<"load", i, 1>>}

(* load_program() begins with the first segment. *)
LEMMA LoadStepsAre ==
  ASSUME NEW i
  PROVE  /\ LoadSteps(i) \in Seq(LoadStepSet(i))
         /\ \A s \in LoadStepSet(i) : s[1] \notin {"copy_table", "copy"} /\ (s[1] = "load" => s[3] = 1)
<1> PICK A : A = LoadStepSet(i)
  OBVIOUS
<1> PICK a : a = <<"clear">>
  OBVIOUS
<1> PICK b : b = <<"kernel", 0>>
  OBVIOUS
<1> PICK c : c = <<"table", KOFFSET - 1>>
  OBVIOUS
<1> PICK d : d = <<"stack", PageOf(StackTop)>>
  OBVIOUS
<1> PICK e : e = <<"load", i, 1>>
  OBVIOUS
<1>1. a \in A /\ b \in A /\ c \in A /\ d \in A /\ e \in A
  BY DEF LoadStepSet
<1>2. <<a, b>> \in Seq(A) /\ <<c, d>> \in Seq(A) /\ <<e>> \in Seq(A)
  BY <1>1
<1>3. <<a, b>> \o <<c, d>> \o <<e>> \in Seq(A)
  BY <1>2
<1>4. \A s \in A : s[1] \notin {"copy_table", "copy"} /\ (s[1] = "load" => s[3] = 1)
  BY DEF LoadStepSet
<1> QED
  BY <1>3, <1>4 DEF LoadSteps, KernelSteps, StackSteps

(* The steps of every request are in order. *)
LEMMA RequestsPlanned == ASSUME MemoryInv, Requests PROVE Planned(todo', spaces', pcb')
<1>1. ASSUME NEW p \in Pcbs, NEW i \in DOMAIN Programs, Create(p, i)
      PROVE  Planned(todo', spaces', pcb')
  <2>1. Request(p, p, LoadSteps(i), NoArgs)
    BY <1>1 DEF Create
  <2> QED
    BY <2>1, LoadStepsAre, RequestPlanned
<1>2. ASSUME NEW p \in Pcbs, NEW c \in Pcbs, Fork(p, c)
      PROVE  Planned(todo', spaces', pcb')
  <2>1. Request(c, p, CopySteps(p), NoArgs) /\ p \in spaces /\ p # c
    BY <1>2 DEF Fork
  <2> DEFINE x == <<"clear">>
             y == <<"kernel", 0>>
             z == <<"copy_table", p, KERNEL_DIRS>>
  <2>2. x[1] = "clear" /\ y[1] = "kernel" /\ z[1] = "copy_table" /\ z[2] = p
    OBVIOUS
  <2>3. CopySteps(p) = <<x, y>> \o <<z>>
    BY DEF CopySteps, KernelSteps
  <2> HIDE DEF x, y, z
  <2> PICK A : A = {x, y, z}
    OBVIOUS
  <2>4. <<x, y>> \o <<z>> \in Seq(A)
    OBVIOUS
  <2>5. \A s \in A : /\ s[1] \in {"copy_table", "copy"} => s[2] = p /\ p \in spaces /\ p # c
                     /\ s[1] = "load" => s[3] = 1
    BY <2>1, <2>2
  <2> PICK steps : steps = CopySteps(p)
    OBVIOUS
  <2>6. steps \in Seq(A) /\ Request(c, p, steps, NoArgs)
    BY <2>1, <2>3, <2>4
  <2> QED
    BY ONLY <2>5, <2>6, RequestPlanned
<1>3. ASSUME NEW p \in Pcbs, NEW i \in DOMAIN Programs, NEW a \in ArgAddrs, Exec(p, i, a)
      PROVE  Planned(todo', spaces', pcb')
  <2> DEFINE h == <<"strlen", a, a, 0>>
             b == <<"takeback">>
             g == <<"args">>
  <2>1. h[1] = "strlen" /\ b[1] = "takeback" /\ g[1] = "args"
    OBVIOUS
  <2>2. \E args : Request(p, p, <<h>> \o (<<b>> \o LoadSteps(i) \o <<g>>), args)
    BY <1>3 DEF Exec, ExecArgs
  <2> HIDE DEF h, b, g
  <2> PICK A : A = LoadStepSet(i) \cup {h, b, g}
    OBVIOUS
  <2> PICK L : L = LoadSteps(i)
    OBVIOUS
  <2>3. L \in Seq(A)
    BY LoadStepsAre
  <2>4. <<h>> \o (<<b>> \o L \o <<g>>) \in Seq(A)
    <3>1. <<h>> \in Seq(A) /\ <<b>> \in Seq(A) /\ <<g>> \in Seq(A)
      OBVIOUS
    <3>2. <<b>> \o L \in Seq(A)
      BY ONLY <2>3, <3>1
    <3>3. <<b>> \o L \o <<g>> \in Seq(A)
      BY ONLY <3>1, <3>2
    <3> QED
      BY ONLY <3>1, <3>3
  <2>5. \A s \in A : s[1] \notin {"copy_table", "copy"} /\ (s[1] = "load" => s[3] = 1)
    BY <2>1, LoadStepsAre
  <2> QED
    BY <2>2, <2>4, <2>5, RequestPlanned, ZenonT(60)
<1>4. ASSUME NEW p, NEW h, h[1] \notin {"copy_table", "copy", "load"}, NEW args, Request(p, p, <<h>>, args)
      PROVE  Planned(todo', spaces', pcb')
  <2> PICK A : A = {h}
    OBVIOUS
  <2> PICK steps : steps = <<h>>
    OBVIOUS
  <2>1. steps \in Seq(A) /\ Request(p, p, steps, args)
    BY <1>4
  <2>2. \A s \in A : /\ s[1] \in {"copy_table", "copy"} => s[2] = p /\ p \in spaces /\ p # p
                     /\ s[1] = "load" => s[3] = 1
    BY <1>4
  <2> QED
    BY ONLY <2>1, <2>2, RequestPlanned
<1>5. ASSUME NEW p \in Pcbs, NEW a \in ArgAddrs, ExecFails(p, a)
      PROVE  Planned(todo', spaces', pcb')
  <2> DEFINE h == <<"strlen", a, a, 0>>
  <2>1. \E args : Request(p, p, <<h>> \o <<>>, args)
    BY <1>5 DEF ExecFails, ExecArgs
  <2>2. <<h>> \o <<>> = <<h>> /\ h[1] = "strlen"
    OBVIOUS
  <2> HIDE DEF h
  <2> QED
    BY <1>4, <2>1, <2>2
<1>6. ASSUME NEW p \in Pcbs, Exit(p)
      PROVE  Planned(todo', spaces', pcb')
  <2> DEFINE h == <<"takeback">>
  <2>1. Request(p, p, <<h>>, NoArgs) /\ h[1] = "takeback"
    BY <1>6 DEF Exit
  <2> HIDE DEF h
  <2> QED
    BY <1>4, <2>1
<1> QED
  BY <1>1, <1>2, <1>3, <1>5, <1>6 DEF Requests
-----------------------------------------------------------------------------
(* The segments of a program. *)

(* The segments are in order, and the file has no more than the memory. *)
LEMMA SegmentOrder ==
  ASSUME NEW i \in DOMAIN Programs
  PROVE  /\ Len(Programs[i]) \in Nat
         /\ \A m \in 1..Len(Programs[i]) :
              /\ From(i, m) \in Nat /\ MemEnd(i, m) \in Nat /\ FileEnd(i, m) \in Nat
              /\ From(i, m) <= FileEnd(i, m) /\ FileEnd(i, m) <= MemEnd(i, m)
              /\ From(i, m) < MemEnd(i, m) => /\ From(i, m) >= KERNEL_MEM * PAGE_SIZE
                                              /\ MemEnd(i, m) <= (KOFFSET - 1) * NR_PTE * PAGE_SIZE
         /\ \A m, n \in 1..Len(Programs[i]) :
              m < n /\ From(i, m) < MemEnd(i, m) /\ From(i, n) < MemEnd(i, n) => MemEnd(i, m) <= From(i, n)
<1>1. Programs \in Seq(Seq(Segment)) /\ Programs[i] \in Seq(Segment) /\ DOMAIN Programs[i] = 1..Len(Programs[i])
  BY ProgramAssumption
<1>2. ASSUME NEW m \in 1..Len(Programs[i]), NEW ph, ph = Programs[i][m]
      PROVE  ph.vaddr \in Nat /\ ph.memsz \in Nat /\ ph.filesz \in Nat
  <2>1. ph \in Segment
    BY <1>1, <1>2
  <2> QED
    BY <2>1, SegmentTypes
<1>3. ASSUME NEW m \in 1..Len(Programs[i])
      PROVE  /\ From(i, m) \in Nat /\ MemEnd(i, m) \in Nat /\ FileEnd(i, m) \in Nat
             /\ From(i, m) <= FileEnd(i, m) /\ FileEnd(i, m) <= MemEnd(i, m)
             /\ From(i, m) < MemEnd(i, m) => /\ From(i, m) >= KERNEL_MEM * PAGE_SIZE
                                             /\ MemEnd(i, m) <= (KOFFSET - 1) * NR_PTE * PAGE_SIZE
  <2> PICK ph : ph = Programs[i][m]
    OBVIOUS
  <2> PICK a : a = ph.vaddr
    OBVIOUS
  <2> PICK b : b = ph.memsz
    OBVIOUS
  <2> PICK c : c = ph.filesz
    OBVIOUS
  <2>1. a \in Nat /\ b \in Nat /\ c \in Nat
    BY <1>2
  <2>2. c <= b /\ (b > 0 => a >= KERNEL_MEM * PAGE_SIZE /\ a + b <= (KOFFSET - 1) * NR_PTE * PAGE_SIZE)
    BY <1>1, ProgramAssumption
  <2>3. From(i, m) = a /\ MemEnd(i, m) = a + b /\ FileEnd(i, m) = a + c
    BY DEF From, MemEnd, FileEnd
  <2> QED
    BY <2>1, <2>2, <2>3, SMTT(60)
<1>4. ASSUME NEW m \in 1..Len(Programs[i]), NEW n \in 1..Len(Programs[i]), m < n,
             From(i, m) < MemEnd(i, m), From(i, n) < MemEnd(i, n)
      PROVE  MemEnd(i, m) <= From(i, n)
  <2> PICK lo : lo = Programs[i][m]
    OBVIOUS
  <2> PICK hi : hi = Programs[i][n]
    OBVIOUS
  <2>1. lo.vaddr \in Nat /\ lo.memsz \in Nat /\ hi.vaddr \in Nat /\ hi.memsz \in Nat
    BY <1>2
  <2>2. lo.memsz > 0 /\ hi.memsz > 0
    BY <1>4, <2>1, SMTT(60) DEF From, MemEnd
  <2>3. m \in 1..(n - 1)
    BY <1>1, <1>4
  <2> QED
    BY <1>1, <2>2, <2>3, ProgramAssumption DEF From, MemEnd
<1>5. Len(Programs[i]) \in Nat
  BY <1>1
<1> QED
  BY <1>3, <1>4, <1>5

(* Where programs are. *)
LEMMA InMemIs ==
  ASSUME NEW i \in DOMAIN Programs, NEW k, NEW x \in Nat
  PROVE  /\ InFile(i, k, x) => InMem(i, k, x)
         /\ InMem(i, k, x) => ProgramPage(PageOf(x)) /\ x < High /\ Target(x)
<1>1. InFile(i, k, x) => InMem(i, k, x)
  <2> SUFFICES ASSUME NEW m \in 1..Len(Programs[i]), m < k, From(i, m) <= x, x < FileEnd(i, m)
               PROVE  x < MemEnd(i, m)
    BY DEF InFile, InMem
  <2> QED
    BY SegmentOrder
<1>2. ASSUME InMem(i, k, x)
      PROVE  ProgramPage(PageOf(x)) /\ x < High /\ Target(x)
  <2>1. PICK m \in 1..Len(Programs[i]) : m < k /\ From(i, m) <= x /\ x < MemEnd(i, m)
    BY <1>2 DEF InMem
  <2> PICK a : a = From(i, m)
    OBVIOUS
  <2> PICK b : b = MemEnd(i, m)
    OBVIOUS
  <2>2. a \in Nat /\ b \in Nat /\ a >= KERNEL_MEM * PAGE_SIZE /\ b <= (KOFFSET - 1) * NR_PTE * PAGE_SIZE
    <3>1. a \in Nat /\ b \in Nat /\ (a < b => a >= KERNEL_MEM * PAGE_SIZE /\ b <= (KOFFSET - 1) * NR_PTE * PAGE_SIZE)
      BY SegmentOrder
    <3> QED
      BY <2>1, <3>1
  <2> PICK T : T = (KOFFSET - 1) * NR_PTE * PAGE_SIZE
    OBVIOUS
  <2> PICK Z : Z = KERNEL_MEM * PAGE_SIZE
    OBVIOUS
  <2>3. T \in Int /\ Z \in Nat /\ T <= High /\ High \in Nat
    <3>1. PAGE_SIZE \in Nat /\ NR_PTE \in Nat /\ KOFFSET \in Nat
      BY ConstantTypes
    <3> PICK M : M = NR_PTE * PAGE_SIZE
      OBVIOUS
    <3>2. M \in Nat
      BY <3>1
    <3>3. T = (KOFFSET - 1) * M /\ High = KOFFSET * M
      BY <3>1 DEF High
    <3>4. (KOFFSET - 1) * M = KOFFSET * M - M
      BY <3>1, <3>2
    <3> QED
      BY <3>1, <3>2, <3>3, <3>4, HighType
  <2>4. x >= Z /\ x < T /\ x < High
    BY <2>1, <2>2, <2>3
  <2>5. ProgramPage(PageOf(x))
    BY <2>4, ProgramAddress
  <2>6. Target(x)
    BY <2>3, <2>4 DEF Target
  <2> QED
    BY <2>4, <2>5, <2>6
<1> QED
  BY <1>1, <1>2

(* One segment more. *)
LEMMA OneSegmentMore ==
  ASSUME NEW i \in DOMAIN Programs, NEW k \in 1..Len(Programs[i]), NEW x \in Nat
  PROVE  /\ InMem(i, k + 1, x) <=> InMem(i, k, x) \/ (From(i, k) <= x /\ x < MemEnd(i, k))
         /\ InFile(i, k + 1, x) <=> InFile(i, k, x) \/ (From(i, k) <= x /\ x < FileEnd(i, k))
         /\ From(i, k) < MemEnd(i, k) /\ InMem(i, k, x) => x < From(i, k)
<1>1. Len(Programs[i]) \in Nat
  BY SegmentOrder
<1>2. \A m \in 1..Len(Programs[i]) : m < k + 1 <=> m < k \/ m = k
  BY <1>1
<1>3. InMem(i, k + 1, x) <=> InMem(i, k, x) \/ (From(i, k) <= x /\ x < MemEnd(i, k))
  BY <1>2 DEF InMem
<1>4. InFile(i, k + 1, x) <=> InFile(i, k, x) \/ (From(i, k) <= x /\ x < FileEnd(i, k))
  BY <1>2 DEF InFile
<1>5. ASSUME From(i, k) < MemEnd(i, k), InMem(i, k, x)
      PROVE  x < From(i, k)
  <2>1. PICK m \in 1..Len(Programs[i]) : m < k /\ From(i, m) <= x /\ x < MemEnd(i, m)
    BY <1>5 DEF InMem
  <2>2. From(i, m) \in Nat /\ MemEnd(i, m) \in Nat /\ From(i, k) \in Nat
    BY SegmentOrder
  <2>3. From(i, m) < MemEnd(i, m)
    BY <2>1, <2>2
  <2>4. MemEnd(i, m) <= From(i, k)
    BY <1>5, <2>1, <2>3, SegmentOrder
  <2> QED
    BY <2>1, <2>2, <2>4
<1> QED
  BY <1>3, <1>4, <1>5

(* Behind the last segment there is none. *)
LEMMA AllSegments ==
  ASSUME NEW i \in DOMAIN Programs, NEW k \in Nat, k > Len(Programs[i]), NEW x
  PROVE  /\ InMem(i, k, x) <=> InMem(i, Len(Programs[i]) + 1, x)
         /\ InFile(i, k, x) <=> InFile(i, Len(Programs[i]) + 1, x)
<1>1. Len(Programs[i]) \in Nat
  BY SegmentOrder
<1>2. \A m \in 1..Len(Programs[i]) : m < k /\ m < Len(Programs[i]) + 1
  BY <1>1
<1> QED
  BY <1>2 DEF InMem, InFile

(* A segment that is to be loaded: nothing of it is there. *)
LEMMA SegmentBegins ==
  ASSUME NEW pd, NEW pt, NEW dt, NEW p, NEW i \in DOMAIN Programs, NEW k \in 1..Len(Programs[i]),
         From(i, k) < MemEnd(i, k), Filled(pd, pt, dt, p, i, k, High), Reached(pd, pt, p, i, k, High),
         NEW s, s = ReadElf(i, Programs[i][k]), NEW l, l[1] = "load", l[2] = i, l[3] = k + 1
  PROVE  SegmentRead(pd, pt, dt, p, s, l, s[2])
<1> PICK a : a = From(i, k)
  OBVIOUS
<1> PICK n : n = Programs[i][k].filesz
  OBVIOUS
<1>1. a \in Nat /\ n \in Nat /\ FileEnd(i, k) = a + n
  <2>1. Programs[i] \in Seq(Segment)
    BY ProgramAssumption
  <2>2. Programs[i][k] \in Segment
    BY <2>1
  <2> QED
    BY <2>2, SegmentTypes DEF From, FileEnd
<1>2. s[2] = a /\ s[3] = [m \in 1..n |-> i] /\ Len(s[3]) = n
  <2>1. s[2] = a /\ s[3] = [m \in 1..n |-> i]
    BY DEF ReadElf, From
  <2> QED
    BY <1>1, <2>1
<1>3. ASSUME NEW x \in Nat
      PROVE  /\ InFile(i, k + 1, x) /\ x >= a <=> x >= a /\ x < a + n
             /\ InFile(i, k + 1, x) /\ x < a <=> InFile(i, k, x) /\ x < High
             /\ InMem(i, k + 1, x) /\ x < a => InMem(i, k, x) /\ x < High
  <2>1. InMem(i, k, x) => x < a /\ x < High
    BY OneSegmentMore, InMemIs
  <2>2. InFile(i, k, x) => x < a /\ x < High
    BY <2>1, InMemIs
  <2>3. InFile(i, k + 1, x) <=> InFile(i, k, x) \/ (a <= x /\ x < a + n)
    BY <1>1, OneSegmentMore
  <2>4. InMem(i, k + 1, x) <=> InMem(i, k, x) \/ (a <= x /\ x < MemEnd(i, k))
    BY OneSegmentMore
  <2> QED
    BY <1>1, <2>1, <2>2, <2>3, <2>4
<1>4. Reads(s, i, k + 1)
  BY <1>2, <1>3 DEF Reads
<1>5. Filled(pd, pt, dt, p, i, k + 1, a)
  BY <1>3 DEF Filled
<1>6. Reached(pd, pt, p, i, k + 1, a)
  BY <1>3 DEF Reached
<1> QED
  BY <1>2, <1>4, <1>5, <1>6 DEF SegmentRead

(* The pages that load_segment() makes are enough. *)
LEMMA SegmentWithin ==
  ASSUME NEW i \in DOMAIN Programs, NEW k \in 1..Len(Programs[i]), From(i, k) < MemEnd(i, k)
  PROVE  Within(i, k + 1, (Start(i, k) + 1) + RestPages(Programs[i][k]))
<1> PICK ph : ph = Programs[i][k]
  OBVIOUS
<1>1. ph \in Segment
  <2>1. Programs[i] \in Seq(Segment)
    BY ProgramAssumption
  <2> QED
    BY <2>1
<1>2. ph.vaddr \in Nat /\ ph.memsz \in Nat /\ ph.memsz > 0 /\ From(i, k) = ph.vaddr /\ MemEnd(i, k) = ph.vaddr + ph.memsz
  <2>1. ph.vaddr \in Nat /\ ph.memsz \in Nat
    BY <1>1, SegmentTypes
  <2> QED
    BY <2>1 DEF From, MemEnd
<1> PICK b : b = ph.vaddr + ph.memsz - 1
  OBVIOUS
<1>3. b \in Nat /\ MemEnd(i, k) = b + 1 /\ From(i, k) <= b /\ From(i, k) \in Nat
  BY <1>2
<1> PICK v : v = Start(i, k)
  OBVIOUS
<1> PICK n : n = RestPages(ph)
  OBVIOUS
<1>4. n \in Nat /\ v \in Nat /\ v + n = PageOf(b)
  BY <1>1, <1>2, RestPagesProperties DEF Start
<1>5. (v + 1) + n \in Int /\ PageOf(b) < (v + 1) + n
  BY <1>4
<1>6. b < ((v + 1) + n) * PAGE_SIZE
  BY <1>3, <1>5, ConstantTypes, DivisionBounds DEF PageOf
<1> PICK T : T = ((v + 1) + n) * PAGE_SIZE
  OBVIOUS
<1>7. T \in Int /\ b < T
  BY <1>5, <1>6, ConstantTypes
<1>8. ASSUME NEW x \in Nat, InMem(i, k + 1, x)
      PROVE  x < T
  <2>1. InMem(i, k, x) \/ x < MemEnd(i, k)
    BY <1>8, OneSegmentMore
  <2>2. InMem(i, k, x) => x < From(i, k)
    BY OneSegmentMore
  <2> QED
    BY <1>3, <1>7, <2>1, <2>2
<1> QED
  BY <1>8 DEF Within

(* A program that is loaded is there. *)
LEMMA ImageThere ==
  ASSUME NEW pd, NEW pt, NEW dt, NEW p, NEW i \in DOMAIN Programs, NEW k \in Nat, k > Len(Programs[i]),
         Filled(pd, pt, dt, p, i, k, High), Reached(pd, pt, p, i, k, High)
  PROVE  ImageAt(pd, pt, dt, p, i)
<1>1. ASSUME NEW x \in Nat
      PROVE  /\ InMem(i, k, x) <=> InMem(i, Len(Programs[i]) + 1, x)
             /\ InFile(i, k, x) <=> InFile(i, Len(Programs[i]) + 1, x)
  BY AllSegments
<1> QED
  BY <1>1 DEF ImageAt, Filled, Reached

(* load_program(): the next segment, or the program is there. *)
LEMMA LoadSegmentImages ==
  ASSUME MemoryInv, LoadSegment, Loading(todo, pdir, ptes, data, pcb)
  PROVE  /\ Loading(todo', pdir, ptes, data, pcb)
         /\ todo'[1][1] = "answer" => \E i \in DOMAIN Programs : ImageAt(pdir, ptes, data, pcb, i)
         /\ todo'[1][1] \in {"args", "answer", "load", "first"}
<1> DEFINE i == todo[1][2]
           k == todo[1][3]
           l == <<"load", i, k + 1>>
<1>1. Doing("load")
  BY DEF LoadSegment
<1>2. todo[1][1] = "load" /\ Head(todo) = todo[1] /\ StepOK(todo[1])
  BY <1>1, InHand
<1>3. i \in DOMAIN Programs /\ k \in Nat \ {0} /\ Len(Programs[i]) \in Nat
  BY <1>2, ProgramAssumption DEF StepOK
<1>4. Filled(pdir, ptes, data, pcb, i, k, High) /\ Reached(pdir, ptes, pcb, i, k, High)
  BY <1>2, SMTT(60) DEF Loading
<1>5. \/ k > Len(Programs[i]) /\ Done
      \/ k <= Len(Programs[i]) /\ Programs[i][k].memsz = 0 /\ Then(l)
      \/ /\ k <= Len(Programs[i]) /\ Programs[i][k].memsz > 0
         /\ todo' = SegmentSteps(i, Programs[i][k]) \o <<l>> \o Tail(todo)
  BY <1>2 DEF LoadSegment, Arg
<1>6. l[1] = "load" /\ l[2] = i /\ l[3] = k + 1
  OBVIOUS
<1> HIDE DEF i, k, l
<1>7. CASE k > Len(Programs[i]) /\ Done
  <2>1. todo'[1] = todo[2] /\ todo[2][1] \in {"args", "answer"}
    BY <1>1, <1>7, AfterDone DEF MayFollow
  <2>2. ImageAt(pdir, ptes, data, pcb, i)
    BY <1>3, <1>4, <1>7, ImageThere
  <2> QED
    BY <1>3, <2>1, <2>2 DEF Loading
<1>8. CASE k <= Len(Programs[i]) /\ Programs[i][k].memsz = 0 /\ Then(l)
  <2>1. todo'[1] = l
    BY <1>1, <1>8, ThenHead
  <2>2. k \in 1..Len(Programs[i])
    BY <1>3, <1>8
  <2>3. From(i, k) \in Nat /\ MemEnd(i, k) = From(i, k) /\ FileEnd(i, k) <= From(i, k) /\ FileEnd(i, k) \in Nat
    <3>1. From(i, k) \in Nat /\ FileEnd(i, k) \in Nat /\ FileEnd(i, k) <= MemEnd(i, k)
      BY <1>3, <2>2, SegmentOrder
    <3>2. MemEnd(i, k) = From(i, k) + 0 /\ From(i, k) + 0 = From(i, k)
      BY <1>8, <3>1 DEF From, MemEnd
    <3> QED
      BY <3>1, <3>2
  <2>4. ASSUME NEW x \in Nat
        PROVE  /\ InMem(i, k + 1, x) <=> InMem(i, k, x)
               /\ InFile(i, k + 1, x) <=> InFile(i, k, x)
    <3>1. ~(From(i, k) <= x /\ x < MemEnd(i, k)) /\ ~(From(i, k) <= x /\ x < FileEnd(i, k))
      BY <2>3
    <3> QED
      BY <1>3, <2>2, <3>1, OneSegmentMore
  <2>5. Filled(pdir, ptes, data, pcb, i, k + 1, High) /\ Reached(pdir, ptes, pcb, i, k + 1, High)
    BY <1>4, <2>4 DEF Filled, Reached
  <2> QED
    BY <1>6, <2>1, <2>5 DEF Loading
<1>9. CASE /\ k <= Len(Programs[i]) /\ Programs[i][k].memsz > 0
           /\ todo' = SegmentSteps(i, Programs[i][k]) \o <<l>> \o Tail(todo)
  <2> PICK ph : ph = Programs[i][k]
    OBVIOUS
  <2>1. /\ todo'[1] = <<"first", PageOf(ph.vaddr)>> /\ todo'[2] = <<"next", PageOf(ph.vaddr) + 1, RestPages(ph)>>
        /\ todo'[3] = ReadElf(i, ph) /\ todo'[4] = l
    <3>1. todo' = SegmentSteps(i, ph) \o <<l>> \o Tail(todo) /\ l[1] = "load"
      BY <1>6, <1>9
    <3>2. /\ todo'[1] = <<"first", PageOf(ph.vaddr)>> /\ todo'[2] = <<"next", PageOf(ph.vaddr) + 1, RestPages(ph)>>
          /\ todo'[3] = ReadElf(i, ph) /\ todo'[4] = l
          /\ Len(todo') = Len(todo) + 3 /\ \A j \in 5..Len(todo') : todo'[j] = todo[j - 3]
      BY ONLY MemoryInv, <1>1, <3>1, SegmentAhead
    <3> QED
      BY ONLY <3>2
  <2>2. k \in 1..Len(Programs[i])
    BY <1>3, <1>9
  <2>3. From(i, k) < MemEnd(i, k)
    <3>1. ph \in Segment
      <4>1. Programs[i] \in Seq(Segment)
        BY <1>3, ProgramAssumption
      <4> QED
        BY <2>2, <4>1
    <3>2. ph.vaddr \in Nat /\ ph.memsz \in Nat
      BY <3>1, SegmentTypes
    <3> QED
      BY <1>9, <3>2 DEF From, MemEnd
  <2>4. SegmentRead(pdir, ptes, data, pcb, todo'[3], todo'[4], todo'[3][2])
    BY <1>3, <1>4, <1>6, <2>1, <2>2, <2>3, SegmentBegins
  <2>5. Within(i, k + 1, todo'[2][2] + todo'[2][3])
    <3>1. todo'[2][2] = Start(i, k) + 1 /\ todo'[2][3] = RestPages(ph)
      BY <2>1 DEF Start
    <3> QED
      BY <1>3, <2>2, <2>3, <3>1, SegmentWithin
  <2>6. todo'[1][1] = "first"
    BY <2>1
  <2> QED
    BY <1>6, <2>1, <2>4, <2>5, <2>6 DEF Loading
<1> QED
  BY <1>5, <1>7, <1>8, <1>9
-----------------------------------------------------------------------------
(* Pages made for a program. *)

\* Process p gets page v, filled with zeros, and sees the rest as before.
AddsPage(pd, pt, dt, pd2, pt2, dt2, p, v) ==
  /\ Frame(pd[p], pt, v) = None /\ Frame(pd2[p], pt2, v) # None /\ dt2[Frame(pd2[p], pt2, v)] = ZeroPage
  /\ \A u \in Nat : DirOf(u) \in UserDirs /\ u # v =>
       /\ Frame(pd2[p], pt2, u) = Frame(pd[p], pt, u)
       /\ Frame(pd[p], pt, u) # None => dt2[Frame(pd[p], pt, u)] = dt[Frame(pd[p], pt, u)]

(* A page in a frame that was idle. *)
LEMMA PageAdds ==
  ASSUME MemoryInv, DataOK(data), pcb \in spaces, NEW v \in Nat, NEW d \in UserDirs, d = DirOf(v), NEW e \in Entries, e = EntryOf(v),
         NEW g \in PoolFrames, g \notin Marked, data' = [data EXCEPT ![g] = ZeroPage], Frame(pdir[pcb], ptes, v) = None,
         pdir'[pcb][d] # None, ptes'[pdir'[pcb][d]][e] = g,
         \A i \in Entries : i # e => ptes'[pdir'[pcb][d]][i] = IF pdir[pcb][d] = None THEN None ELSE ptes[pdir[pcb][d]][i],
         \A c \in LowDirs : c # d => SameTable(pdir, ptes, pdir', ptes', pcb, c)
  PROVE  AddsPage(pdir, ptes, data, pdir', ptes', data', pcb, v)
<1>1. g # None /\ g \in AllFrames
  BY NumberTypes DEF AllFrames
<1>2. data'[g] = ZeroPage /\ \A f : f # g => data'[f] = data[f]
  BY <1>1 DEF DataOK
<1>3. Frame(pdir'[pcb], ptes', v) = g
  BY DEF Frame
<1>4. ASSUME NEW u \in Nat, DirOf(u) \in UserDirs, u # v
      PROVE  /\ Frame(pdir'[pcb], ptes', u) = Frame(pdir[pcb], ptes, u)
             /\ Frame(pdir[pcb], ptes, u) # None => data'[Frame(pdir[pcb], ptes, u)] = data[Frame(pdir[pcb], ptes, u)]
  <2>1. Frame(pdir'[pcb], ptes', u) = Frame(pdir[pcb], ptes, u)
    <3>1. CASE DirOf(u) = d
      <4>1. EntryOf(u) \in Entries /\ EntryOf(u) # e
        BY <1>4, <3>1, PlaceOfPage, PlaceTellsPages
      <4>2. Frame(pdir'[pcb], ptes', u) = ptes'[pdir'[pcb][d]][EntryOf(u)]
        BY <3>1 DEF Frame
      <4>3. Frame(pdir[pcb], ptes, u) = IF pdir[pcb][d] = None THEN None ELSE ptes[pdir[pcb][d]][EntryOf(u)]
        BY <3>1 DEF Frame
      <4> QED
        BY <4>1, <4>2, <4>3
    <3>2. CASE DirOf(u) # d
      <4> PICK c : c = DirOf(u)
        OBVIOUS
      <4>1. SameTable(pdir, ptes, pdir', ptes', pcb, c)
        BY <1>4, <3>2, NumberTypes
      <4> QED
        BY <4>1 DEF SameTable, Frame
    <3> QED
      BY <3>1, <3>2
  <2>2. Frame(pdir[pcb], ptes, u) # None => Frame(pdir[pcb], ptes, u) \in Marked
    BY <1>4, UserPage
  <2> QED
    BY <1>2, <2>1, <2>2
<1> QED
  BY <1>1, <1>2, <1>3, <1>4 DEF AddsPage

(* load_segment(): the first page, unless it is there. *)
LEMMA FirstPageAdds ==
  ASSUME MemoryInv, CopyInv, FirstPage, NEW v, v = todo[1][2]
  PROVE  \/ AddsPage(pdir, ptes, data, pdir', ptes', data', pcb, v)
         \/ UNCHANGED <<pdir, ptes, data>> /\ Frame(pdir[pcb], ptes, v) # None
<1>1. Doing("first") /\ UNCHANGED <<spaces, pcb>>
  BY DEF FirstPage, Rest
<1>2. /\ pcb \in Pcbs /\ pcb # None /\ Ready(todo, pdir, ptes, spaces, pcb)
      /\ todo[1][1] = "first" /\ Head(todo) = todo[1] /\ pcb \in spaces
  BY <1>1, InHand
<1>3. ProgramPage(v) /\ DataOK(data) /\ pdir \in Pdirs /\ ptes \in Tables
  BY <1>2 DEF Ready, CopyInv, DataOK, MemoryInv, MapType
<1>4. page_bitmap \in Bitmaps /\ bitmap_idx \in 0..(NR_PAGES - 1)
  BY DEF MemoryInv, MapType
<1> DEFINE d == DirOf(v)
           e == EntryOf(v)
<1>5. v \in Nat /\ d \in UserDirs /\ e \in Entries
  BY <1>3, PlaceOfPage, ConstantTypes DEF ProgramPage, UserDirs
<1>d. d = DirOf(v) /\ e = EntryOf(v) /\ d \in Dirs
  BY <1>5, NumberTypes
<1> HIDE DEF d, e
<1>6. CASE pdir[pcb][d] = None
  <2>1. /\ GetTwoIdlePages /\ pdir' = WithTable(pdir, pcb, d, NewFrame)
        /\ ptes' = [ptes EXCEPT ![NewFrame] = [ZeroTable EXCEPT ![e] = SecondFrame]]
        /\ data' = [data EXCEPT ![SecondFrame] = ZeroPage]
    BY <1>2, <1>6 DEF FirstPage, Arg, WithTable, Cleared, d, e
  <2>2. /\ pdir'[pcb][d] # None
        /\ \A i \in Entries : i # e => ptes'[pdir'[pcb][d]][i] = None
        /\ \A c \in LowDirs : c # d => SameTable(pdir, ptes, pdir', ptes', pcb, c)
    BY <1>1, <1>2, <1>5, <1>6, <2>1, StepMakesBoth
  <2>3. NewFrame \in PoolFrames /\ SecondFrame \in PoolFrames /\ SecondFrame \notin Marked
    BY <1>4, <2>1, TwoFrames
  <2>4. pdir'[pcb][d] = NewFrame
    BY <1>2, <1>3, <1>d, <2>1 DEF Pdirs, WithTable
  <2>5. ptes'[NewFrame][e] = SecondFrame
    BY <1>3, <1>5, <2>1, <2>3 DEF Tables, ZeroTable
  <2>6. Frame(pdir[pcb], ptes, v) = None
    BY <1>6, <1>d DEF Frame
  <2>7. \A i \in Entries : i # e => ptes'[pdir'[pcb][d]][i] = IF pdir[pcb][d] = None THEN None ELSE ptes[pdir[pcb][d]][i]
    BY <1>6, <2>2
  <2>8. ptes'[pdir'[pcb][d]][e] = SecondFrame
    BY <2>4, <2>5
  <2> PICK g : g = SecondFrame
    BY SMTT(60)
  <2>20. /\ MemoryInv /\ DataOK(data) /\ pcb \in spaces /\ v \in Nat /\ d \in UserDirs /\ d = DirOf(v) /\ e \in Entries
         /\ e = EntryOf(v) /\ g \in PoolFrames /\ g \notin Marked /\ data' = [data EXCEPT ![g] = ZeroPage]
         /\ Frame(pdir[pcb], ptes, v) = None /\ pdir'[pcb][d] # None /\ ptes'[pdir'[pcb][d]][e] = g
    BY <1>2, <1>3, <1>5, <1>d, <2>1, <2>2, <2>3, <2>6, <2>7, <2>8, SMTT(60)
  <2>21. \A i \in Entries : i # e => ptes'[pdir'[pcb][d]][i] = IF pdir[pcb][d] = None THEN None ELSE ptes[pdir[pcb][d]][i]
    BY <1>2, <1>3, <1>5, <1>d, <2>1, <2>2, <2>3, <2>6, <2>7, <2>8, SMTT(60)
  <2>22. \A c \in LowDirs : c # d => SameTable(pdir, ptes, pdir', ptes', pcb, c)
    BY <1>2, <1>3, <1>5, <1>d, <2>1, <2>2, <2>3, <2>6, <2>7, <2>8
  <2> QED
    BY ONLY <2>20, <2>21, <2>22, PageAdds
<1>7. CASE pdir[pcb][d] # None /\ Frame(pdir[pcb], ptes, v) = None
  <2>1. GetIdlePage /\ ptes' = WithPage(pdir, ptes, pcb, d, e, NewFrame) /\ pdir' = pdir
        /\ data' = [data EXCEPT ![NewFrame] = ZeroPage]
    BY <1>2, <1>7 DEF FirstPage, Arg, SetPte, WithPage, Cleared, d, e
  <2>2. ptes[pdir[pcb][d]][e] = None
    BY <1>7 DEF Frame, d, e
  <2>3. /\ \A i \in Entries : i # e => ptes'[pdir'[pcb][d]][i] = ptes[pdir[pcb][d]][i]
        /\ \A c \in LowDirs : c # d => SameTable(pdir, ptes, pdir', ptes', pcb, c)
    BY <1>1, <1>2, <1>5, <1>7, <2>1, <2>2, StepMakesPage
  <2>4. NewFrame \in PoolFrames /\ NewFrame \notin Marked
    BY <1>4, <2>1, OneFrame
  <2>5. pdir[pcb][d] \in PoolFrames
    BY <1>2, <1>3, <1>7, <1>d DEF Pdirs
  <2>6. ptes'[pdir'[pcb][d]][e] = NewFrame
    BY <1>3, <1>5, <2>1, <2>5 DEF Tables, WithPage
  <2>7. \A i \in Entries : i # e => ptes'[pdir'[pcb][d]][i] = IF pdir[pcb][d] = None THEN None ELSE ptes[pdir[pcb][d]][i]
    BY <1>7, <2>3
  <2>8. pdir'[pcb][d] # None
    BY <1>7, <2>1
  <2> PICK g : g = NewFrame
    OBVIOUS
  <2>20. /\ MemoryInv /\ DataOK(data) /\ pcb \in spaces /\ v \in Nat /\ d \in UserDirs /\ d = DirOf(v) /\ e \in Entries
         /\ e = EntryOf(v) /\ g \in PoolFrames /\ g \notin Marked /\ data' = [data EXCEPT ![g] = ZeroPage]
         /\ Frame(pdir[pcb], ptes, v) = None /\ pdir'[pcb][d] # None /\ ptes'[pdir'[pcb][d]][e] = g
    BY <1>2, <1>3, <1>5, <1>7, <1>d, <2>1, <2>3, <2>4, <2>6, <2>7, <2>8, SMTT(60)
  <2>21. \A i \in Entries : i # e => ptes'[pdir'[pcb][d]][i] = IF pdir[pcb][d] = None THEN None ELSE ptes[pdir[pcb][d]][i]
    BY <1>2, <1>3, <1>5, <1>7, <1>d, <2>1, <2>3, <2>4, <2>6, <2>7, <2>8, SMTT(60)
  <2>22. \A c \in LowDirs : c # d => SameTable(pdir, ptes, pdir', ptes', pcb, c)
    BY <1>2, <1>3, <1>5, <1>7, <1>d, <2>1, <2>3, <2>4, <2>6, <2>7, <2>8
  <2> QED
    BY ONLY <2>20, <2>21, <2>22, PageAdds
<1>8. CASE pdir[pcb][d] # None /\ Frame(pdir[pcb], ptes, v) # None
  <2>1. UNCHANGED <<pdir, ptes, data>>
    BY <1>2, <1>8 DEF FirstPage, Arg, d
  <2> QED
    BY <1>8, <2>1
<1> QED
  BY <1>6, <1>7, <1>8

(* load_segment(): and one page after the other. *)
LEMMA NextPageAdds ==
  ASSUME MemoryInv, CopyInv, NextPage, NEW w, w = todo[1][2]
  PROVE  AddsPage(pdir, ptes, data, pdir', ptes', data', pcb, w)
<1>1. Doing("next") /\ Arg(3) > 0 /\ UNCHANGED <<spaces, pcb>>
  BY DEF NextPage, Rest
<1>2. /\ pcb \in Pcbs /\ pcb # None /\ Ready(todo, pdir, ptes, spaces, pcb)
      /\ todo[1][1] = "next" /\ Head(todo) = todo[1] /\ StepOK(todo[1]) /\ pcb \in spaces
  BY <1>1, InHand
<1> PICK n : n = todo[1][3]
  OBVIOUS
<1>3. PICK v : /\ w = v + 1 /\ ProgramPage(v) /\ Above(pdir, ptes, pcb, v) /\ pdir[pcb][DirOf(v)] # None
               /\ ProgramPage(v + n)
  BY <1>2 DEF Ready
<1>4. v \in Nat /\ w \in Nat /\ n \in Nat /\ n > 0 /\ v + n \in Nat /\ v <= w /\ w <= v + n
  BY <1>1, <1>2, <1>3 DEF ProgramPage, StepOK, Arg
<1>5. /\ DirOf(v) \in KERNEL_DIRS..(KOFFSET - 2) /\ DirOf(v + n) \in KERNEL_DIRS..(KOFFSET - 2)
      /\ DirOf(w) \in Nat /\ EntryOf(w) \in Entries /\ EntryOf(v) \in Nat /\ KERNEL_DIRS \in Nat /\ KOFFSET \in Nat
      /\ DirOf(v) <= DirOf(w) /\ DirOf(w) <= DirOf(v + n)
  BY <1>3, <1>4, PlaceOfPage, OrderOfPages, ConstantTypes DEF ProgramPage
<1> DEFINE d == DirOf(w)
           e == EntryOf(w)
<1>6. d \in UserDirs /\ e \in Entries
  BY <1>5 DEF UserDirs
<1>d. d = DirOf(w) /\ e = EntryOf(w) /\ d \in Dirs
  BY <1>6, NumberTypes
<1> HIDE DEF d, e
<1>7. DataOK(data) /\ pdir \in Pdirs /\ ptes \in Tables /\ page_bitmap \in Bitmaps /\ bitmap_idx \in 0..(NR_PAGES - 1)
  BY DEF CopyInv, DataOK, MemoryInv, MapType
<1>8. data' = [data EXCEPT ![NewFrame] = ZeroPage]
  BY DEF NextPage, Cleared
<1>9. CASE e = 0
  <2>1. d = DirOf(v) + 1
    BY <1>3, <1>4, <1>9, PlaceOfPage DEF d, e
  <2>2. pdir[pcb][d] = None
    BY <1>3, <1>5, <2>1 DEF Above, d
  <2>3. /\ GetTwoIdlePages /\ pdir' = WithTable(pdir, pcb, d, SecondFrame)
        /\ ptes' = [ptes EXCEPT ![SecondFrame] = [ZeroTable EXCEPT ![e] = NewFrame]]
    BY <1>2, <1>9 DEF NextPage, Arg, WithTable, d, e
  <2>4. /\ pdir'[pcb][d] # None
        /\ \A i \in Entries : i # e => ptes'[pdir'[pcb][d]][i] = None
        /\ \A c \in LowDirs : c # d => SameTable(pdir, ptes, pdir', ptes', pcb, c)
    BY <1>1, <1>2, <1>6, <2>2, <2>3, StepMakesBoth
  <2>5. NewFrame \in PoolFrames /\ SecondFrame \in PoolFrames /\ NewFrame \notin Marked
    BY <1>7, <2>3, TwoFrames
  <2>6. pdir'[pcb][d] = SecondFrame
    BY <1>2, <1>7, <1>d, <2>3 DEF Pdirs, WithTable
  <2>7. ptes'[SecondFrame][e] = NewFrame
    BY <1>6, <1>7, <2>3, <2>5 DEF Tables, ZeroTable
  <2>8. Frame(pdir[pcb], ptes, w) = None
    BY <1>d, <2>2 DEF Frame
  <2>9. \A i \in Entries : i # e => ptes'[pdir'[pcb][d]][i] = IF pdir[pcb][d] = None THEN None ELSE ptes[pdir[pcb][d]][i]
    BY <2>2, <2>4
  <2>10. ptes'[pdir'[pcb][d]][e] = NewFrame
    BY <2>6, <2>7
  <2> PICK g : g = NewFrame
    OBVIOUS
  <2>20. /\ MemoryInv /\ DataOK(data) /\ pcb \in spaces /\ w \in Nat /\ d \in UserDirs /\ d = DirOf(w) /\ e \in Entries
         /\ e = EntryOf(w) /\ g \in PoolFrames /\ g \notin Marked /\ data' = [data EXCEPT ![g] = ZeroPage]
         /\ Frame(pdir[pcb], ptes, w) = None /\ pdir'[pcb][d] # None /\ ptes'[pdir'[pcb][d]][e] = g
    BY <1>2, <1>4, <1>6, <1>7, <1>8, <1>d, <2>4, <2>5, <2>8, <2>9, <2>10
  <2>21. \A i \in Entries : i # e => ptes'[pdir'[pcb][d]][i] = IF pdir[pcb][d] = None THEN None ELSE ptes[pdir[pcb][d]][i]
    BY <1>2, <1>4, <1>6, <1>7, <1>8, <1>d, <2>4, <2>5, <2>8, <2>9, <2>10
  <2>22. \A c \in LowDirs : c # d => SameTable(pdir, ptes, pdir', ptes', pcb, c)
    BY <1>2, <1>4, <1>6, <1>7, <1>8, <1>d, <2>4, <2>5, <2>8, <2>9, <2>10
  <2> QED
    BY ONLY <2>20, <2>21, <2>22, PageAdds
<1>10. CASE e # 0
  <2>1. d = DirOf(v) /\ e = EntryOf(v) + 1
    BY <1>3, <1>4, <1>10, PlaceOfPage DEF d, e
  <2>2. pdir[pcb][d] # None /\ ptes[pdir[pcb][d]][e] = None
    BY <1>3, <1>5, <1>6, <2>1 DEF Above
  <2>3. GetIdlePage /\ ptes' = WithPage(pdir, ptes, pcb, d, e, NewFrame) /\ pdir' = pdir
    BY <1>2, <1>10 DEF NextPage, Arg, SetPte, WithPage, d, e
  <2>4. /\ \A i \in Entries : i # e => ptes'[pdir'[pcb][d]][i] = ptes[pdir[pcb][d]][i]
        /\ \A c \in LowDirs : c # d => SameTable(pdir, ptes, pdir', ptes', pcb, c)
    BY <1>1, <1>2, <1>6, <2>2, <2>3, StepMakesPage
  <2>5. NewFrame \in PoolFrames /\ NewFrame \notin Marked
    BY <1>7, <2>3, OneFrame
  <2>6. pdir[pcb][d] \in PoolFrames
    BY <1>2, <1>7, <1>d, <2>2 DEF Pdirs
  <2>7. ptes'[pdir'[pcb][d]][e] = NewFrame
    BY <1>6, <1>7, <2>3, <2>6 DEF Tables, WithPage
  <2>8. \A i \in Entries : i # e => ptes'[pdir'[pcb][d]][i] = IF pdir[pcb][d] = None THEN None ELSE ptes[pdir[pcb][d]][i]
    BY <2>2, <2>4
  <2>9. pdir'[pcb][d] # None /\ Frame(pdir[pcb], ptes, w) = None
    BY <1>d, <2>2, <2>3 DEF Frame
  <2> PICK g : g = NewFrame
    OBVIOUS
  <2>20. /\ MemoryInv /\ DataOK(data) /\ pcb \in spaces /\ w \in Nat /\ d \in UserDirs /\ d = DirOf(w) /\ e \in Entries
         /\ e = EntryOf(w) /\ g \in PoolFrames /\ g \notin Marked /\ data' = [data EXCEPT ![g] = ZeroPage]
         /\ Frame(pdir[pcb], ptes, w) = None /\ pdir'[pcb][d] # None /\ ptes'[pdir'[pcb][d]][e] = g
    BY <1>2, <1>4, <1>6, <1>7, <1>8, <1>d, <2>4, <2>5, <2>7, <2>8, <2>9
  <2>21. \A i \in Entries : i # e => ptes'[pdir'[pcb][d]][i] = IF pdir[pcb][d] = None THEN None ELSE ptes[pdir[pcb][d]][i]
    BY <1>2, <1>4, <1>6, <1>7, <1>8, <1>d, <2>4, <2>5, <2>7, <2>8, <2>9
  <2>22. \A c \in LowDirs : c # d => SameTable(pdir, ptes, pdir', ptes', pcb, c)
    BY <1>2, <1>4, <1>6, <1>7, <1>8, <1>d, <2>4, <2>5, <2>7, <2>8, <2>9
  <2> QED
    BY ONLY <2>20, <2>21, <2>22, PageAdds
<1> QED
  BY <1>9, <1>10

(* A page of zeros where the file has no bytes yet. *)
LEMMA FilledMore ==
  ASSUME NEW pd, NEW pt, NEW dt, NEW pd2, NEW pt2, NEW dt2, NEW p, NEW v, AddsPage(pd, pt, dt, pd2, pt2, dt2, p, v),
         NEW i, NEW k, NEW d, Filled(pd, pt, dt, p, i, k, d),
         \A x \in Nat : InFile(i, k, x) /\ x < d => PageOf(x) # v
  PROVE  Filled(pd2, pt2, dt2, p, i, k, d)
<1> SUFFICES ASSUME NEW x \in Nat, ProgramPage(PageOf(x)), IsMapped(pd2, pt2, p, x)
             PROVE  Byte(pd2, pt2, dt2, p, x) = IF InFile(i, k, x) /\ x < d THEN i ELSE Zero
  BY DEF Filled
<1> PICK u : u = PageOf(x)
  OBVIOUS
<1>1. u \in Nat /\ DirOf(u) \in UserDirs
  BY ConstantTypes DEF ProgramPage, UserDirs
<1>2. CASE u = v
  <2>1. dt2[Frame(pd2[p], pt2, u)] = ZeroPage
    BY <1>2 DEF AddsPage
  <2>2. OffsetOf(x) \in Offsets
    <3>1. 0 \in Nat
      OBVIOUS
    <3> QED
      BY <3>1, SamePage
  <2>3. ZeroPage[OffsetOf(x)] = Zero
    BY <2>2 DEF ZeroPage
  <2> QED
    BY <1>2, <2>1, <2>3 DEF Byte
<1>3. CASE u # v
  <2>1. Frame(pd2[p], pt2, u) = Frame(pd[p], pt, u) /\ dt2[Frame(pd[p], pt, u)] = dt[Frame(pd[p], pt, u)]
    BY <1>1, <1>3 DEF AddsPage, IsMapped
  <2>2. IsMapped(pd, pt, p, x) /\ Byte(pd2, pt2, dt2, p, x) = Byte(pd, pt, dt, p, x)
    BY <2>1 DEF IsMapped, Byte
  <2> QED
    BY <2>2 DEF Filled
<1> QED
  BY <1>2, <1>3

(* ... and more of the program has its page. *)
LEMMA ReachedMore ==
  ASSUME NEW pd, NEW pt, NEW dt, NEW pd2, NEW pt2, NEW dt2, NEW p, NEW v, AddsPage(pd, pt, dt, pd2, pt2, dt2, p, v),
         NEW i \in DOMAIN Programs, NEW k, NEW e, NEW e2, Reached(pd, pt, p, i, k, e),
         \A x \in Nat : InMem(i, k, x) /\ x < e2 => x < e \/ PageOf(x) = v
  PROVE  Reached(pd2, pt2, p, i, k, e2)
<1> SUFFICES ASSUME NEW x \in Nat, InMem(i, k, x), x < e2
             PROVE  IsMapped(pd2, pt2, p, x)
  BY DEF Reached
<1> PICK u : u = PageOf(x)
  OBVIOUS
<1>1. u \in Nat /\ DirOf(u) \in UserDirs
  BY InMemIs, ConstantTypes DEF ProgramPage, UserDirs
<1>2. CASE u = v
  BY <1>2 DEF AddsPage, IsMapped
<1>3. CASE u # v
  <2>1. x < e
    BY <1>3
  <2>2. IsMapped(pd, pt, p, x)
    BY <2>1 DEF Reached
  <2> QED
    BY <1>1, <1>3, <2>2 DEF AddsPage, IsMapped
<1> QED
  BY <1>2, <1>3

(* Addresses and the end of a page. *)
LEMMA BeforeEndOf ==
  ASSUME NEW x \in Nat, NEW v \in Nat
  PROVE  /\ x < (v + 1) * PAGE_SIZE <=> PageOf(x) <= v
         /\ x < v * PAGE_SIZE <=> PageOf(x) < v
         /\ PageOf(x) \in Nat
<1>1. PageOf(x) \in Nat
  BY ConstantTypes, Division DEF PageOf
<1>2. v + 1 \in Int /\ v \in Int
  OBVIOUS
<1>3. x < (v + 1) * PAGE_SIZE <=> PageOf(x) < v + 1
  BY <1>2, ConstantTypes, DivisionBounds DEF PageOf
<1>4. x < v * PAGE_SIZE <=> PageOf(x) < v
  BY <1>2, ConstantTypes, DivisionBounds DEF PageOf
<1> QED
  BY <1>1, <1>3, <1>4

(* load_segment(): the first page. *)
LEMMA FirstPageImages ==
  ASSUME MemoryInv, CopyInv, FirstPage, Loading(todo, pdir, ptes, data, pcb)
  PROVE  Loading(todo', pdir', ptes', data', pcb) /\ todo'[1][1] = "next"
<1>1. Doing("first") /\ Done
  BY DEF FirstPage
<1>2. pcb # None /\ Ready(todo, pdir, ptes, spaces, pcb) /\ todo[1][1] = "first"
  BY <1>1, InHand
<1> PICK v : v = todo[1][2]
  OBVIOUS
<1> PICK s : s = todo[3]
  OBVIOUS
<1> PICK l : l = todo[4]
  OBVIOUS
<1>3. /\ ProgramPage(v) /\ v \in Nat /\ todo[2][2] = v + 1
  BY <1>2 DEF Ready, ProgramPage
<1>4. SegmentRead(pdir, ptes, data, pcb, s, l, s[2]) /\ Within(l[2], l[3], todo[2][2] + todo[2][3])
  BY <1>2 DEF Loading
<1>5. s[2] \in Nat /\ PageOf(s[2]) = v
  BY <1>2 DEF CopyInv, Prepared, Covers
<1>6. todo'[1] = todo[2] /\ todo[2][1] = "next" /\ todo'[2] = s /\ todo'[3] = l
  <2>1. Len(todo) \in Nat /\ \A k \in 1..(Len(todo) - 1) : todo'[k] = todo[k + 1]
    BY <1>1, AfterDone
  <2>2. todo[2][1] = "next" /\ Len(todo) > 2 /\ StepOK(todo[3]) /\ todo[3][1] = "from"
    BY <1>1, NextStep DEF MayFollow
  <2>3. Len(todo) # 3
    <3>1. todo[Len(todo)][1] = "answer"
      BY <1>2 DEF MemoryInv, TodoOK
    <3> QED
      BY <2>2, <3>1
  <2> PICK n : n = Len(todo)
    OBVIOUS
  <2>5. n \in Nat /\ n > 2 /\ n # 3
    BY <2>1, <2>2, <2>3
  <2>4. 1 \in 1..(n - 1) /\ 2 \in 1..(n - 1) /\ 3 \in 1..(n - 1)
    BY ONLY <2>5
  <2> QED
    BY <2>1, <2>2, <2>4
<1> PICK i : i = l[2]
  OBVIOUS
<1> PICK k : k = l[3]
  OBVIOUS
<1> PICK D : D = s[2]
  OBVIOUS
<1>7. /\ l[1] = "load" /\ i \in DOMAIN Programs /\ Reads(s, i, k) /\ Filled(pdir, ptes, data, pcb, i, k, D)
      /\ Reached(pdir, ptes, pcb, i, k, D)
  BY <1>4 DEF SegmentRead
<1> PICK E : E = (v + 1) * PAGE_SIZE
  OBVIOUS
<1>8. \A x \in Nat : InMem(i, k, x) /\ x < E => x < D \/ PageOf(x) = v
  <2> SUFFICES ASSUME NEW x \in Nat, x < E, ~(x < D)
               PROVE  PageOf(x) = v
    OBVIOUS
  <2>1. PageOf(x) <= v /\ PageOf(x) \in Nat
    BY <1>3, BeforeEndOf
  <2>2. D <= x
    BY <1>5
  <2>3. PageOf(D) <= PageOf(x)
    BY <1>5, <2>2, ConstantTypes, DivisionMonotone DEF PageOf
  <2> QED
    BY <1>3, <1>5, <2>1, <2>3
<1>9. Filled(pdir', ptes', data', pcb, i, k, D) /\ Reached(pdir', ptes', pcb, i, k, E)
  <2>1. CASE AddsPage(pdir, ptes, data, pdir', ptes', data', pcb, v)
    <3>1. \A x \in Nat : InFile(i, k, x) /\ x < D => PageOf(x) # v
      <4> SUFFICES ASSUME NEW x \in Nat, InFile(i, k, x), x < D
                   PROVE  PageOf(x) # v
        OBVIOUS
      <4>1. IsMapped(pdir, ptes, pcb, x)
        BY <1>7, InMemIs DEF Reached
      <4> QED
        BY <2>1, <4>1 DEF AddsPage, IsMapped
    <3> QED
      BY <1>7, <1>8, <2>1, <3>1, FilledMore, ReachedMore
  <2>2. CASE UNCHANGED <<pdir, ptes, data>> /\ Frame(pdir[pcb], ptes, v) # None
    <3>1. Reached(pdir, ptes, pcb, i, k, E)
      BY <1>7, <1>8, <2>2 DEF Reached, IsMapped
    <3> QED
      BY <1>7, <2>2, <3>1
  <2> QED
    BY <2>1, <2>2, FirstPageAdds
<1>10. SegmentRead(pdir', ptes', data', pcb, s, l, E)
  BY <1>7, <1>9 DEF SegmentRead
<1> QED
  BY <1>3, <1>4, <1>6, <1>10 DEF Loading

(* load_segment(): one page more. *)
LEMMA NextPageImages ==
  ASSUME MemoryInv, CopyInv, NextPage, Loading(todo, pdir, ptes, data, pcb)
  PROVE  Loading(todo', pdir', ptes', data', pcb) /\ todo'[1][1] = "next"
<1>1. Doing("next") /\ Arg(3) > 0 /\ Then(<<"next", Arg(2) + 1, Arg(3) - 1>>)
  BY DEF NextPage
<1>2. /\ pcb # None /\ Ready(todo, pdir, ptes, spaces, pcb) /\ todo[1][1] = "next" /\ Head(todo) = todo[1] /\ StepOK(todo[1])
  BY <1>1, InHand
<1> PICK w : w = todo[1][2]
  OBVIOUS
<1> PICK n : n = todo[1][3]
  OBVIOUS
<1> PICK s : s = todo[2]
  OBVIOUS
<1> PICK l : l = todo[3]
  OBVIOUS
<1>3. w \in Nat /\ w - 1 \in Nat /\ n \in Nat /\ n > 0
  <2>1. PICK v : w = v + 1 /\ ProgramPage(v)
    BY <1>2 DEF Ready
  <2> QED
    BY <1>1, <1>2, <2>1 DEF ProgramPage, StepOK, Arg
<1>4. SegmentRead(pdir, ptes, data, pcb, s, l, w * PAGE_SIZE) /\ Within(l[2], l[3], w + n)
  BY <1>2 DEF Loading
<1>5. s[2] \in Nat /\ PageOf(s[2]) <= w - 1
  BY <1>2 DEF CopyInv, Prepared, Covers
<1> DEFINE t == <<"next", w + 1, n - 1>>
<1>6. Then(t) /\ t[1] = "next" /\ t[2] = w + 1 /\ t[3] = n - 1
  BY <1>1, <1>2 DEF Arg
<1> HIDE DEF t
<1>7. todo'[1] = t /\ todo'[2] = s /\ todo'[3] = l
  <2>1. Len(todo) \in Nat /\ Len(todo) > 1 /\ todo[2][1] = "from"
    BY <1>1, NextStep DEF MayFollow
  <2>2. Len(todo) > 2
    BY <1>1, <2>1, NextStep
  <2>3. 2 \in 2..Len(todo) /\ 3 \in 2..Len(todo)
    BY <2>1, <2>2
  <2> QED
    BY <1>1, <1>6, <2>3, ThenHead
<1> PICK i : i = l[2]
  OBVIOUS
<1> PICK k : k = l[3]
  OBVIOUS
<1> PICK D : D = s[2]
  OBVIOUS
<1> PICK E : E = w * PAGE_SIZE
  OBVIOUS
<1>8. /\ l[1] = "load" /\ i \in DOMAIN Programs /\ Reads(s, i, k) /\ Filled(pdir, ptes, data, pcb, i, k, D)
      /\ Reached(pdir, ptes, pcb, i, k, E)
  BY <1>4 DEF SegmentRead
<1> PICK F : F = (w + 1) * PAGE_SIZE
  OBVIOUS
<1>9. \A x \in Nat : InMem(i, k, x) /\ x < F => x < E \/ PageOf(x) = w
  <2> SUFFICES ASSUME NEW x \in Nat, x < F
               PROVE  x < E \/ PageOf(x) = w
    OBVIOUS
  <2>1. PageOf(x) <= w /\ PageOf(x) \in Nat /\ (x < E <=> PageOf(x) < w)
    BY <1>3, BeforeEndOf
  <2> QED
    BY <1>3, <2>1
<1>10. \A x \in Nat : InFile(i, k, x) /\ x < D => PageOf(x) # w
  <2> SUFFICES ASSUME NEW x \in Nat, x < D
               PROVE  PageOf(x) # w
    OBVIOUS
  <2>1. x <= D
    BY <1>5
  <2>2. PageOf(x) <= PageOf(D) /\ PageOf(x) \in Nat /\ PageOf(D) \in Nat
    BY <1>5, <2>1, ConstantTypes, DivisionMonotone, Division DEF PageOf
  <2> QED
    BY <1>3, <1>5, <2>2
<1>11. AddsPage(pdir, ptes, data, pdir', ptes', data', pcb, w)
  BY NextPageAdds
<1>12. Filled(pdir', ptes', data', pcb, i, k, D)
  BY <1>8, <1>10, <1>11, FilledMore
<1>13. Reached(pdir', ptes', pcb, i, k, F)
  BY <1>8, <1>9, <1>11, ReachedMore
<1>14. SegmentRead(pdir', ptes', data', pcb, s, l, F)
  BY <1>8, <1>12, <1>13 DEF SegmentRead
<1>15. (w + 1) + (n - 1) = w + n
  BY <1>3
<1> QED
  BY <1>4, <1>6, <1>7, <1>14, <1>15 DEF Loading

(* load_segment(): every byte of the segment has its page. *)
LEMMA LastPageImages ==
  ASSUME MemoryInv, LastPage, Loading(todo, pdir, ptes, data, pcb)
  PROVE  Loading(todo', pdir, ptes, data, pcb) /\ todo'[1][1] = "from"
<1>1. Doing("next") /\ Arg(3) = 0 /\ Done
  BY DEF LastPage
<1>2. /\ todo[1][1] = "next" /\ Head(todo) = todo[1] /\ Ready(todo, pdir, ptes, spaces, pcb)
  BY <1>1, InHand
<1> PICK w : w = todo[1][2]
  OBVIOUS
<1> PICK s : s = todo[2]
  OBVIOUS
<1> PICK l : l = todo[3]
  OBVIOUS
<1>3. w \in Nat
  BY <1>2 DEF Ready, ProgramPage
<1>4. SegmentRead(pdir, ptes, data, pcb, s, l, w * PAGE_SIZE) /\ Within(l[2], l[3], w)
  <2>1. Within(l[2], l[3], w + 0) /\ w + 0 = w
    BY <1>1, <1>2, <1>3 DEF Loading, Arg
  <2> QED
    BY <1>2, <2>1 DEF Loading
<1>5. todo'[1] = s /\ s[1] = "from" /\ todo'[2] = l
  <2>1. Len(todo) \in Nat /\ \A k \in 1..(Len(todo) - 1) : todo'[k] = todo[k + 1]
    BY <1>1, AfterDone
  <2>2. todo[2][1] = "from" /\ Len(todo) > 2
    BY <1>1, NextStep DEF MayFollow
  <2>3. 1 \in 1..(Len(todo) - 1) /\ 2 \in 1..(Len(todo) - 1)
    BY <2>1, <2>2
  <2> QED
    BY <2>1, <2>2, <2>3
<1>6. SegmentRead(pdir, ptes, data, pcb, s, l, High) /\ l[1] = "load"
  BY <1>4 DEF SegmentRead, Reached, Within
<1> QED
  BY <1>5, <1>6 DEF Loading

(* create_stack_page(): before a program is loaded nothing of it is mapped. *)
LEMMA StackImages ==
  ASSUME MemoryInv, Stack, Planned(todo, spaces, pcb)
  PROVE  Loading(todo', pdir', ptes', data', pcb) /\ todo'[1][1] \in {"stack", "load"}
<1>1. Doing("stack") /\ pdir' = pdir /\ (Done \/ \E s : s[1] = "stack" /\ Then(s))
  <2> PICK s : s = <<"stack", Arg(2) - 1>>
    OBVIOUS
  <2>1. s[1] = "stack"
    OBVIOUS
  <2>2. Done \/ Then(s)
    BY DEF Stack, Loop
  <2> QED
    BY <2>1, <2>2 DEF Stack
<1>2. todo[1][1] = "stack" /\ Ready(todo, pdir, ptes, spaces, pcb)
  BY <1>1, InHand
<1>3. \A d \in KERNEL_DIRS..(KOFFSET - 2) : pdir'[pcb][d] = None
  BY <1>1, <1>2 DEF Ready
<1>4. CASE Done
  <2>1. todo'[1] = todo[2] /\ todo[2][1] = "load" /\ StepOK(todo[2])
    BY <1>1, <1>4, AfterDone DEF MayFollow
  <2>2. todo[2][3] = 1
    <3>1. Len(todo) \in Nat /\ Len(todo) > 1
      BY <1>1, NextStep
    <3>2. 2 \in 1..Len(todo)
      BY ONLY <3>1
    <3>3. todo[1][1] \in Early
      BY <1>2 DEF Early
    <3> QED
      BY <2>1, <3>2, <3>3 DEF Planned
  <2> PICK i : i = todo[2][2]
    OBVIOUS
  <2>3. \A x \in Nat : ProgramPage(PageOf(x)) => ~IsMapped(pdir', ptes', pcb, x)
    BY <1>3 DEF ProgramPage, IsMapped, Frame
  <2>4. Filled(pdir', ptes', data', pcb, i, 1, High)
    BY <2>3 DEF Filled
  <2>5. i \in DOMAIN Programs
    BY <2>1 DEF StepOK
  <2>6. \A x \in Nat : ~InMem(i, 1, x)
    <3>1. Len(Programs[i]) \in Nat
      BY <2>5, SegmentOrder
    <3>2. \A m \in 1..Len(Programs[i]) : ~(m < 1)
      BY ONLY <3>1
    <3> QED
      BY <3>2 DEF InMem
  <2>7. Reached(pdir', ptes', pcb, i, 1, High)
    BY <2>6 DEF Reached
  <2> QED
    BY <2>1, <2>2, <2>4, <2>7 DEF Loading
<1>5. ASSUME NEW s, s[1] = "stack", Then(s)
      PROVE  Loading(todo', pdir', ptes', data', pcb) /\ todo'[1][1] \in {"stack", "load"}
  <2>1. todo'[1] = s
    BY <1>1, <1>5, ThenHead
  <2> QED
    BY <1>5, <2>1 DEF Loading
<1> QED
  BY <1>1, <1>4, <1>5
-----------------------------------------------------------------------------
(* Bytes read from the file of a program. *)

(* A turn of copy_from_kernel(): what it does to any byte of user space. *)
LEMMA CopiedBytes ==
  ASSUME MemoryInv, DataOK(data), pcb \in spaces, KernelUpTo(pdir, ptes, pcb, KERNEL_DIRS),
         NEW d, Target(d), NEW f, f = Frame(pdir[pcb], ptes, PageOf(d)), f # None,
         NEW c \in Nat, c > 0, OffsetOf(d) + c <= PAGE_SIZE, NEW src, NEW dt,
         Written(data, dt, f, d, c, src),
         NEW x, Target(x), IsMapped(pdir, ptes, pcb, x)
  PROVE  Byte(pdir, ptes, dt, pcb, x) =
           IF x >= d /\ x < d + c THEN src[x - d + 1] ELSE Byte(pdir, ptes, data, pcb, x)
<1>1. x \in Nat /\ d \in Nat
  BY DEF Target
<1>2. CASE x < d + c
  <2>1. Moved(pdir, ptes, data, dt, pcb, d, src, x)
    BY <1>2, CopiedByte
  <2> QED
    BY <1>1, <1>2, <2>1 DEF Moved
<1>3. CASE x >= d + c
  <2>1. CASE PageOf(x) # PageOf(d)
    <3>1. IsMapped(pdir, ptes, pcb, d)
      BY DEF IsMapped
    <3>2. Frame(pdir[pcb], ptes, PageOf(x)) # f
      BY <2>1, <3>1, OwnFrames
    <3>3. dt[Frame(pdir[pcb], ptes, PageOf(x))] = data[Frame(pdir[pcb], ptes, PageOf(x))]
      BY <3>2 DEF Written
    <3> QED
      BY <1>1, <1>3, <3>3 DEF Byte
  <2>2. CASE PageOf(x) = PageOf(d)
    <3> PICK k : k = x - d
      OBVIOUS
    <3>1. k \in Nat /\ x = d + k /\ k >= c
      BY <1>1, <1>3
    <3>2. /\ OffsetOf(d) \in Nat /\ OffsetOf(d) + k < PAGE_SIZE /\ OffsetOf(x) = OffsetOf(d) + k
      BY <1>1, <2>2, <3>1, SamePage
    <3>3. OffsetOf(x) \in Offsets
      <4>1. 0 \in Nat
        OBVIOUS
      <4> QED
        BY <1>1, <4>1, SamePage
    <3>4. OffsetOf(x) \notin OffsetOf(d)..(OffsetOf(d) + c - 1)
      BY <3>1, <3>2
    <3>5. dt[f] = data[f] \/ dt[f] = WithBytes(data[f], OffsetOf(d), c, src)
      BY DEF Written
    <3>6. dt[f][OffsetOf(x)] = data[f][OffsetOf(x)]
      BY <3>3, <3>4, <3>5 DEF WithBytes
    <3> QED
      BY <1>1, <1>3, <2>2, <3>6 DEF Byte
  <2> QED
    BY <2>1, <2>2
<1> QED
  BY <1>1, <1>2, <1>3 DEF Target

(* The pages of programs are below the stack. *)
LEMMA ProgramBelow ==
  ASSUME NEW x \in Nat, ProgramPage(PageOf(x))
  PROVE  Target(x) /\ x < High - NR_STACK * PAGE_SIZE /\ x < High
<1> PICK v : v = PageOf(x)
  OBVIOUS
<1>1. v \in Nat /\ DirOf(v) >= KERNEL_DIRS /\ DirOf(v) < KOFFSET - 1 /\ DirOf(v) \in Int
  BY ConstantTypes DEF ProgramPage
<1>2. /\ PAGE_SIZE \in Nat \ {0} /\ NR_PTE \in Nat \ {0} /\ KOFFSET \in Nat /\ NR_STACK \in Nat /\ NR_STACK <= NR_PTE
      /\ KERNEL_DIRS \in Nat
  BY ConstantTypes
<1>3. v < (KOFFSET - 1) * NR_PTE
  <2>1. KOFFSET - 1 \in Int
    BY <1>2
  <2> QED
    BY <1>1, <1>2, <2>1, DivisionBounds DEF DirOf
<1>4. ~(v < KERNEL_DIRS * NR_PTE)
  <2>1. KERNEL_DIRS \in Int /\ ~(DirOf(v) < KERNEL_DIRS)
    BY <1>1, <1>2
  <2> QED
    BY <1>1, <1>2, <2>1, DivisionBounds DEF DirOf
<1> PICK T : T = (KOFFSET - 1) * NR_PTE
  OBVIOUS
<1>5. T \in Int /\ KERNEL_MEM \in Int
  BY <1>2, ConstantTypes
<1>6. x < T * PAGE_SIZE
  BY <1>2, <1>3, <1>5, DivisionBounds DEF PageOf
<1>7. ~(x < KERNEL_MEM * PAGE_SIZE)
  BY <1>2, <1>4, <1>5, DivisionBounds DEF PageOf, KERNEL_MEM
<1> PICK M : M = NR_PTE * PAGE_SIZE
  OBVIOUS
<1> PICK S : S = NR_STACK * PAGE_SIZE
  OBVIOUS
<1>8. M \in Nat /\ S \in Nat /\ S <= M
  BY <1>2
<1>9. T * PAGE_SIZE = High - M
  <2>1. T * PAGE_SIZE = (KOFFSET - 1) * M /\ High = KOFFSET * M
    BY <1>2 DEF High
  <2>2. (KOFFSET - 1) * M = KOFFSET * M - M
    BY <1>2, <1>8
  <2> QED
    BY <2>1, <2>2
<1>10. High \in Nat /\ KERNEL_MEM * PAGE_SIZE \in Nat
  BY HighType
<1> PICK Z : Z = KERNEL_MEM * PAGE_SIZE
  OBVIOUS
<1> PICK H : H = High
  OBVIOUS
<1>11. x < H - M /\ H \in Nat /\ Z \in Nat /\ ~(x < Z)
  BY <1>6, <1>7, <1>9, <1>10
<1>12. x < H - S /\ x < H /\ x <= H + 2 /\ x >= Z
  BY ONLY <1>8, <1>11, x \in Nat
<1> QED
  BY <1>12 DEF Target

\* What a turn of step s, of c bytes, does to the bytes of p.
TurnOf(pd, pt, dt, dt2, p, s, c) ==
  \A x : Target(x) /\ IsMapped(pd, pt, p, x) =>
    Byte(pd, pt, dt2, p, x) = IF x >= s[2] /\ x < s[2] + c THEN s[3][x - s[2] + 1] ELSE Byte(pd, pt, dt, p, x)

(* copy_from_kernel(): it stops, or is done, or goes on. *)
LEMMA CopyTurn ==
  ASSUME MemoryInv, CopyInv, CopyFromKernel, NEW s, s = todo[1]
  PROVE  /\ s[1] = "from" /\ s[2] \in Nat /\ s[3] \in Seq(ToSet(s[3])) /\ Len(s[3]) \in Nat
         /\ \/ UNCHANGED <<todo, data>>
            \/ Len(s[3]) = 0 /\ Done /\ UNCHANGED data
            \/ \E s2 : \E c \in 1..Len(s[3]) :
                 GoesOn(s, s2, c) /\ Then(s2) /\ TurnOf(pdir, ptes, data, data', pcb, s, c)
<1>1. Doing("from")
  BY DEF CopyFromKernel
<1>2. todo[1][1] = "from" /\ Head(todo) = todo[1] /\ pcb \in spaces /\ pcb # None
  BY <1>1, InHand
<1>3. KernelUpTo(pdir, ptes, pcb, KERNEL_DIRS)
  BY <1>2, AllWhole DEF MemoryInv, MapType
<1> PICK d : d = s[2]
  OBVIOUS
<1> PICK src : src = s[3]
  OBVIOUS
<1> PICK f : f = Frame(pdir[pcb], ptes, PageOf(d))
  OBVIOUS
<1> PICK L : L = Len(src)
  OBVIOUS
<1> PICK c : c = Chunk(d, L)
  OBVIOUS
<1> PICK s2 : s2 = <<"from", d + c, SubSeq(src, c + 1, L)>>
  OBVIOUS
<1>4. GoesOn(s, s2, c)
  BY DEF GoesOn
<1>5. \/ UNCHANGED <<todo, data>>
      \/ src = <<>> /\ Done /\ data' = data
      \/ /\ f # None /\ src # <<>> /\ Then(s2)
         /\ data' = [data EXCEPT ![f] = WithBytes(data[f], OffsetOf(d), c, src)]
  BY <1>2 DEF CopyFromKernel, Absent, Arg, WithBytes
<1>6. d \in Nat /\ src \in Seq(ToSet(src)) /\ d >= KERNEL_MEM * PAGE_SIZE /\ d + L <= High + 3 /\ L \in Nat
  BY <1>2 DEF CopyInv, Prepared, Copies
<1>7. ASSUME f # None, src # <<>>, Then(s2),
             data' = [data EXCEPT ![f] = WithBytes(data[f], OffsetOf(d), c, src)]
      PROVE  c \in 1..L /\ TurnOf(pdir, ptes, data, data', pcb, s, c)
  <2>1. L > 0
    BY <1>6, <1>7
  <2>2. c \in 1..L /\ OffsetOf(d) + c <= PAGE_SIZE
    BY <1>6, <2>1, ChunkProperties
  <2>3. c \in Nat /\ c > 0 /\ Target(d)
    <3>1. High \in Nat
      BY HighType
    <3>2. c \in Nat /\ c > 0 /\ d <= High + 2
      <4>1. d \in Nat /\ d + L <= High + 3 /\ L \in Nat
        BY <1>6
      <4> QED
        BY ONLY <2>2, <3>1, <4>1, SMTT(60)
    <3> QED
      BY <1>6, <3>2 DEF Target
  <2> PICK dt2 : dt2 = data'
    OBVIOUS
  <2>4. /\ Written(data, dt2, f, d, c, src) /\ Target(d) /\ OffsetOf(d) + c <= PAGE_SIZE /\ c > 0
        /\ f = Frame(pdir[pcb], ptes, PageOf(d)) /\ f # None /\ c \in Nat /\ MemoryInv /\ DataOK(data) /\ pcb \in spaces
    BY <1>2, <1>7, <2>2, <2>3 DEF Written, CopyInv, DataOK
  <2>5. ASSUME NEW x, Target(x), IsMapped(pdir, ptes, pcb, x)
        PROVE  Byte(pdir, ptes, dt2, pcb, x) =
                 IF x >= d /\ x < d + c THEN src[x - d + 1] ELSE Byte(pdir, ptes, data, pcb, x)
    BY ONLY <1>3, <2>4, <2>5, CopiedBytes
  <2> QED
    BY <2>2, <2>5 DEF TurnOf
<1>8. src = <<>> => L = 0
  OBVIOUS
<1> QED
  BY <1>2, <1>4, <1>5, <1>6, <1>7, <1>8

(* A turn of the copy, for a segment. *)
LEMMA TurnReads ==
  ASSUME NEW pd, NEW pt, NEW dt, NEW dt2, NEW p, NEW s, NEW s2, NEW c, NEW l, NEW e,
         SegmentRead(pd, pt, dt, p, s, l, e), GoesOn(s, s2, c), TurnOf(pd, pt, dt, dt2, p, s, c),
         s[2] \in Nat, s[3] \in Seq(ToSet(s[3])), c \in 1..Len(s[3])
  PROVE  SegmentRead(pd, pt, dt2, p, s2, l, e)
<1> PICK i : i = l[2]
  OBVIOUS
<1> PICK k : k = l[3]
  OBVIOUS
<1> PICK d : d = s[2]
  OBVIOUS
<1> PICK src : src = s[3]
  OBVIOUS
<1> PICK R : R = ToSet(src)
  OBVIOUS
<1> PICK L : L = Len(src)
  OBVIOUS
<1>1. /\ l[1] = "load" /\ i \in DOMAIN Programs /\ Reads(s, i, k) /\ Filled(pd, pt, dt, p, i, k, d)
      /\ Reached(pd, pt, p, i, k, e)
  BY DEF SegmentRead
<1>2. L \in Nat /\ c \in 1..L /\ d \in Nat /\ src \in Seq(R)
  OBVIOUS
<1> PICK g : g = SubSeq(src, c + 1, L)
  OBVIOUS
<1>3. Len(g) = L - c /\ \A n \in 1..(L - c) : g[n] = src[n + c]
  BY ONLY <1>2, g = SubSeq(src, c + 1, L), L = Len(src)
<1>4. s2[2] = d + c /\ s2[3] = g /\ d + c \in Nat
  BY <1>2 DEF GoesOn
<1>5. \A n \in 1..L : src[n] = i
  BY <1>1 DEF Reads
<1>6. \A x \in Nat : InFile(i, k, x) /\ x >= d <=> x >= d /\ x < d + L
  BY <1>1 DEF Reads
<1>7. Reads(s2, i, k)
  <2>1. ASSUME NEW n \in 1..Len(g)
        PROVE  g[n] = i
    <3>1. n \in 1..(L - c) /\ n + c \in 1..L
      BY <1>2, <1>3
    <3> QED
      BY <1>3, <1>5, <3>1
  <2>2. ASSUME NEW x \in Nat
        PROVE  InFile(i, k, x) /\ x >= d + c <=> x >= d + c /\ x < (d + c) + Len(g)
    <3>1. (d + c) + Len(g) = d + L /\ (x >= d + c => x >= d)
      BY <1>2, <1>3, SMTT(60)
    <3>2. InFile(i, k, x) /\ x >= d <=> x >= d /\ x < d + L
      BY <1>6
    <3> QED
      BY <3>1, <3>2
  <2> QED
    BY <1>4, <2>1, <2>2 DEF Reads
<1>8. Filled(pd, pt, dt2, p, i, k, d + c)
  <2> SUFFICES ASSUME NEW x \in Nat, ProgramPage(PageOf(x)), IsMapped(pd, pt, p, x)
               PROVE  Byte(pd, pt, dt2, p, x) = IF InFile(i, k, x) /\ x < d + c THEN i ELSE Zero
    BY DEF Filled
  <2>1. Target(x)
    BY ProgramBelow
  <2>2. Byte(pd, pt, dt, p, x) = IF InFile(i, k, x) /\ x < d THEN i ELSE Zero
    BY <1>1 DEF Filled
  <2>3. Byte(pd, pt, dt2, p, x) = IF x >= d /\ x < d + c THEN src[x - d + 1] ELSE Byte(pd, pt, dt, p, x)
    BY <2>1 DEF TurnOf
  <2>4. CASE x >= d /\ x < d + c
    <3>1. x - d + 1 \in 1..L /\ x < d + L
      BY <1>2, <2>4, SMTT(60)
    <3>2. InFile(i, k, x)
      BY <1>6, <2>4, <3>1
    <3> QED
      BY <1>5, <2>3, <2>4, <3>1, <3>2
  <2>5. CASE ~(x >= d /\ x < d + c)
    <3>1. x < d <=> x < d + c
      BY <1>2, <2>5
    <3> QED
      BY <2>2, <2>3, <2>5, <3>1
  <2> QED
    BY <2>4, <2>5
<1> QED
  BY <1>1, <1>4, <1>7, <1>8 DEF SegmentRead

(* At its end the segment has been read. *)
LEMMA AllRead ==
  ASSUME NEW pd, NEW pt, NEW dt, NEW p, NEW s, NEW l, SegmentRead(pd, pt, dt, p, s, l, High),
         s[2] \in Nat, Len(s[3]) = 0
  PROVE  Filled(pd, pt, dt, p, l[2], l[3], High) /\ Reached(pd, pt, p, l[2], l[3], High)
<1> PICK i : i = l[2]
  OBVIOUS
<1> PICK k : k = l[3]
  OBVIOUS
<1> PICK d : d = s[2]
  OBVIOUS
<1>1. /\ i \in DOMAIN Programs /\ Reads(s, i, k) /\ Filled(pd, pt, dt, p, i, k, d)
      /\ Reached(pd, pt, p, i, k, High)
  BY DEF SegmentRead
<1>2. ASSUME NEW x \in Nat
      PROVE  InFile(i, k, x) /\ x < d <=> InFile(i, k, x) /\ x < High
  <2>1. InFile(i, k, x) => x < High
    BY <1>1, InMemIs
  <2>2. InFile(i, k, x) /\ x >= d <=> x >= d /\ x < d + 0
    BY <1>1 DEF Reads
  <2> QED
    BY <2>1, <2>2
<1>3. Filled(pd, pt, dt, p, i, k, High)
  BY <1>1, <1>2 DEF Filled
<1> QED
  BY <1>1, <1>3

(* The arguments of exec() go to the stack, and leave the program alone. *)
LEMMA TurnKeepsImage ==
  ASSUME NEW pd, NEW pt, NEW dt, NEW dt2, NEW p, NEW s, NEW c, NEW i \in DOMAIN Programs,
         ImageAt(pd, pt, dt, p, i), TurnOf(pd, pt, dt, dt2, p, s, c),
         s[2] \in Nat, s[2] >= High - NR_STACK * PAGE_SIZE
  PROVE  ImageAt(pd, pt, dt2, p, i)
<1>1. ASSUME NEW x \in Nat, ProgramPage(PageOf(x)), IsMapped(pd, pt, p, x)
      PROVE  Byte(pd, pt, dt2, p, x) = Byte(pd, pt, dt, p, x)
  <2>1. Target(x) /\ x < High - NR_STACK * PAGE_SIZE
    BY <1>1, ProgramBelow
  <2>2. ~(x >= s[2])
    <3> PICK T : T = High - NR_STACK * PAGE_SIZE
      OBVIOUS
    <3>1. T \in Int
      BY HighType, ConstantTypes
    <3> QED
      BY <2>1, <3>1
  <2> QED
    BY <1>1, <2>1, <2>2 DEF TurnOf
<1> QED
  BY <1>1 DEF ImageAt, Filled

(* copy_from_kernel(): more of the file is read, or more of the arguments. *)
LEMMA CopyFromKernelImages ==
  ASSUME MemoryInv, CopyInv, CopyFromKernel, Loading(todo, pdir, ptes, data, pcb)
  PROVE  /\ Loading(todo', pdir, ptes, data', pcb)
         /\ todo'[1][1] = "answer" => \E i \in DOMAIN Programs : ImageAt(pdir, ptes, data', pcb, i)
         /\ todo'[1][1] \in {"from", "load", "answer"}
<1>1. Doing("from")
  BY DEF CopyFromKernel
<1> PICK s : s = todo[1]
  OBVIOUS
<1> PICK l : l = todo[2]
  OBVIOUS
<1>2. /\ s[1] = "from" /\ s[2] \in Nat /\ s[3] \in Seq(ToSet(s[3])) /\ Len(s[3]) \in Nat
      /\ \/ UNCHANGED <<todo, data>>
         \/ Len(s[3]) = 0 /\ Done /\ UNCHANGED data
         \/ \E s2 : \E c \in 1..Len(s[3]) :
              GoesOn(s, s2, c) /\ Then(s2) /\ TurnOf(pdir, ptes, data, data', pcb, s, c)
  BY CopyTurn
<1>3. l[1] \in {"load", "answer"} /\ Len(todo) \in Nat /\ Len(todo) > 1
  BY <1>1, NextStep DEF MayFollow
<1>4. l[1] = "load" => SegmentRead(pdir, ptes, data, pcb, s, l, High)
  BY <1>2 DEF Loading
<1>5. l[1] = "answer" => /\ \E i \in DOMAIN Programs : ImageAt(pdir, ptes, data, pcb, i)
                         /\ s[2] >= High - NR_STACK * PAGE_SIZE
  BY <1>2 DEF Loading
<1>6. CASE UNCHANGED <<todo, data>>
  BY <1>2, <1>6
<1>7. CASE Len(s[3]) = 0 /\ Done /\ UNCHANGED data
  <2>1. todo'[1] = l
    BY <1>1, <1>7, AfterDone
  <2>2. l[1] = "load" => Filled(pdir, ptes, data, pcb, l[2], l[3], High) /\ Reached(pdir, ptes, pcb, l[2], l[3], High)
    BY <1>2, <1>4, <1>7, AllRead
  <2>3. Loading(todo', pdir, ptes, data, pcb)
    BY <1>3, <2>1, <2>2 DEF Loading
  <2> QED
    BY <1>3, <1>5, <1>7, <2>1, <2>3
<1>8. ASSUME NEW s2, NEW c \in 1..Len(s[3]), GoesOn(s, s2, c), Then(s2), TurnOf(pdir, ptes, data, data', pcb, s, c)
      PROVE  /\ Loading(todo', pdir, ptes, data', pcb)
             /\ todo'[1][1] = "answer" => \E i \in DOMAIN Programs : ImageAt(pdir, ptes, data', pcb, i)
             /\ todo'[1][1] \in {"from", "load", "answer"}
  <2>1. todo'[1] = s2 /\ todo'[2] = l /\ s2[1] = "from" /\ s2[2] = s[2] + c
    <3>1. 2 \in 2..Len(todo)
      BY <1>3
    <3> QED
      BY <1>1, <1>8, <3>1, ThenHead DEF GoesOn
  <2>2. l[1] = "load" => SegmentRead(pdir, ptes, data', pcb, s2, l, High)
    <3> PICK dt2 : dt2 = data'
      OBVIOUS
    <3> SUFFICES ASSUME l[1] = "load"
                 PROVE  SegmentRead(pdir, ptes, dt2, pcb, s2, l, High)
      OBVIOUS
    <3>1. /\ SegmentRead(pdir, ptes, data, pcb, s, l, High) /\ GoesOn(s, s2, c)
          /\ TurnOf(pdir, ptes, data, dt2, pcb, s, c) /\ s[2] \in Nat /\ s[3] \in Seq(ToSet(s[3])) /\ c \in 1..Len(s[3])
      BY <1>2, <1>4, <1>8
    <3> QED
      BY ONLY <3>1, TurnReads
  <2>3. l[1] = "answer" => \E i \in DOMAIN Programs : ImageAt(pdir, ptes, data', pcb, i)
    BY <1>2, <1>5, <1>8, TurnKeepsImage
  <2>4. l[1] = "answer" => s2[2] >= High - NR_STACK * PAGE_SIZE
    <3> PICK T : T = High - NR_STACK * PAGE_SIZE
      OBVIOUS
    <3>1. T \in Int
      BY HighType, ConstantTypes
    <3> QED
      BY <1>2, <1>5, <2>1, <3>1
  <2> QED
    BY <1>3, <2>1, <2>2, <2>3, <2>4 DEF Loading
<1> QED
  BY <1>2, <1>6, <1>7, <1>8

(* exec(): the arguments go behind the program. *)
LEMMA PlaceArgsImages ==
  ASSUME MemoryInv, CopyInv, PlaceArgs, Loading(todo, pdir, ptes, data, pcb)
  PROVE  Loading(todo', pdir, ptes, data, pcb) /\ todo'[1][1] = "from"
<1>1. Doing("args")
  BY DEF PlaceArgs
<1>2. todo[1][1] = "args" /\ TempOK(temp)
  BY <1>1, InHand DEF CopyInv
<1> PICK str : str = temp
  OBVIOUS
<1>3. Then(<<"from", NewArgs(Len(str)) - 4, Placed(str)>>)
  BY DEF PlaceArgs, Placed
<1> DEFINE s == <<"from", NewArgs(Len(str)) - 4, Placed(str)>>
<1>4. s[1] = "from" /\ s[2] = NewArgs(Len(str)) - 4 /\ Then(s)
  BY <1>3
<1> HIDE DEF s
<1>5. Len(str) \in Nat /\ Len(str) <= ARG_BUF
  BY <1>2 DEF TempOK
<1>6. s[2] >= High - NR_STACK * PAGE_SIZE
  BY <1>4, <1>5, NewArgsPlace
<1>7. todo'[1] = s /\ todo'[2] = todo[2] /\ todo[2][1] = "answer"
  <2>1. Len(todo) \in Nat /\ Len(todo) > 1 /\ todo[2][1] = "answer"
    BY <1>1, NextStep DEF MayFollow
  <2>2. 2 \in 2..Len(todo)
    BY <2>1
  <2> QED
    BY <1>1, <1>4, <2>1, <2>2, ThenHead
<1>8. \E i \in DOMAIN Programs : ImageAt(pdir, ptes, data, pcb, i)
  BY <1>2 DEF Loading
<1> QED
  BY <1>4, <1>6, <1>7, <1>8 DEF Loading
-----------------------------------------------------------------------------
(* Pages copied for a child. *)

(* A copy stays a copy while both pages stay. *)
LEMMA CopiedKept ==
  ASSUME NEW pd, NEW pt, NEW dt, NEW pd2, NEW pt2, NEW dt2, NEW c, NEW p, NEW v, PageCopied(pd, pt, dt, c, p, v),
         \A q \in {c, p} : /\ Frame(pd2[q], pt2, v) = Frame(pd[q], pt, v)
                           /\ Frame(pd[q], pt, v) # None => dt2[Frame(pd[q], pt, v)] = dt[Frame(pd[q], pt, v)]
  PROVE  PageCopied(pd2, pt2, dt2, c, p, v)
BY DEF PageCopied

(* The parent. *)
LEMMA ParentWaits ==
  ASSUME MemoryInv, Planned(todo, spaces, pcb), NEW op \in {"copy_table", "copy"}, Doing(op)
  PROVE  todo[1][2] \in spaces /\ todo[1][2] # pcb /\ todo[1][2] \in Pcbs
<1>1. TodoOK(todo) /\ todo[1][1] = op
  BY InHand
<1>2. 1 \in 1..Len(todo)
  BY <1>1 DEF TodoOK, Fits
<1>3. spaces \in SUBSET Pcbs
  BY DEF MemoryInv, MapType
<1> QED
  BY <1>1, <1>2, <1>3 DEF Planned

(* copy_process(): the tables. *)
LEMMA CopyTableImages ==
  ASSUME MemoryInv, CopyInv, CopyTable, Planned(todo, spaces, pcb), Copying(todo, pdir, ptes, data, pcb)
  PROVE  /\ Copying(todo', pdir', ptes', data', pcb) /\ todo'[1][1] \in {"copy_table", "copy", "answer"}
         /\ todo'[1][1] = "answer" =>
              \A v \in Nat : DirOf(v) \in UserDirs => PageCopied(pdir', ptes', data', pcb, todo[1][2], v)
<1>1. Doing("copy_table") /\ UNCHANGED <<data, spaces>>
  BY DEF CopyTable
<1>2. /\ pcb \in Pcbs /\ pcb # None /\ Ready(todo, pdir, ptes, spaces, pcb) /\ pcb \in spaces
      /\ todo[1][1] = "copy_table" /\ Head(todo) = todo[1] /\ StepOK(todo[1])
  BY <1>1, InHand
<1> PICK q : q = todo[1][2]
  OBVIOUS
<1> PICK d : d = todo[1][3]
  OBVIOUS
<1>3. q \in spaces /\ q # pcb /\ q \in Pcbs
  BY <1>1, ParentWaits
<1>4. d \in KERNEL_DIRS..KOFFSET /\ KERNEL_DIRS \in Nat /\ KOFFSET \in Nat /\ NoneFrom(pdir, pcb, d)
  BY <1>2, ConstantTypes DEF StepOK, Ready
<1>5. \A v \in Nat : DirOf(v) \in UserDirs /\ DirOf(v) < d => PageCopied(pdir, ptes, data, pcb, q, v)
  BY <1>2 DEF Copying
<1> DEFINE t1 == <<"copy_table", q, d + 1>>
           t2 == <<"copy", q, d, 0>>
<1>6. \/ /\ d = KOFFSET /\ Done /\ UNCHANGED <<pdir, ptes>>
      \/ /\ d < KOFFSET /\ pdir[q][d] = None /\ Then(t1) /\ UNCHANGED <<pdir, ptes>>
      \/ /\ d < KOFFSET /\ pdir[q][d] # None /\ Then(t2) /\ GetIdlePage
         /\ ptes' = ZeroAt(ptes, NewFrame) /\ pdir' = WithTable(pdir, pcb, d, NewFrame)
  BY <1>2 DEF CopyTable, Arg, ZeroAt, WithTable
<1>7. t1[1] = "copy_table" /\ t1[2] = q /\ t1[3] = d + 1 /\ t2[1] = "copy" /\ t2[2] = q /\ t2[3] = d /\ t2[4] = 0
  OBVIOUS
<1> HIDE DEF t1, t2
<1>8. CASE d = KOFFSET /\ Done /\ UNCHANGED <<pdir, ptes>>
  <2>1. todo'[1] = todo[2] /\ todo[2][1] = "answer"
    BY <1>1, <1>8, AfterDone DEF MayFollow
  <2>2. \A c \in UserDirs : c < d
    BY <1>4, <1>8 DEF UserDirs
  <2> QED
    BY <1>1, <1>5, <1>8, <2>1, <2>2 DEF Copying
<1>9. CASE d < KOFFSET /\ pdir[q][d] = None /\ Then(t1) /\ UNCHANGED <<pdir, ptes>>
  <2>1. todo'[1] = t1
    BY <1>1, <1>9, ThenHead
  <2>2. pdir[pcb][d] = None
    BY <1>4, <1>9 DEF NoneFrom
  <2>3. ASSUME NEW v \in Nat, DirOf(v) \in UserDirs, DirOf(v) < d + 1
        PROVE  PageCopied(pdir, ptes, data, pcb, q, v)
    <3>1. DirOf(v) \in Nat
      BY PlaceOfPage
    <3>2. CASE DirOf(v) < d
      BY <1>5, <2>3, <3>2
    <3>3. CASE DirOf(v) = d
      BY <1>9, <2>2, <3>3 DEF PageCopied, Frame
    <3> QED
      BY <1>4, <2>3, <3>1, <3>2, <3>3
  <2> QED
    BY <1>1, <1>7, <1>9, <2>1, <2>3 DEF Copying
<1>10. CASE /\ d < KOFFSET /\ pdir[q][d] # None /\ Then(t2) /\ GetIdlePage
            /\ ptes' = ZeroAt(ptes, NewFrame) /\ pdir' = WithTable(pdir, pcb, d, NewFrame)
  <2>1. todo'[1] = t2
    BY <1>1, <1>10, ThenHead
  <2>2. pdir[pcb][d] = None /\ d \in UserDirs
    BY <1>4, <1>10 DEF NoneFrom, UserDirs
  <2>3. \A c \in LowDirs : c # d => SameTable(pdir, ptes, pdir', ptes', pcb, c)
    BY <1>1, <1>2, <1>10, <2>2, StepMakesTable
  <2>4. SameView(pdir, ptes, data, pdir', ptes', data', q)
    BY <1>3, OthersSame DEF Steps
  <2>5. pdir'[q] = pdir[q]
    <3>1. pdir \in Pdirs
      BY DEF MemoryInv, MapType
    <3> QED
      BY <1>3, <1>10, <3>1 DEF Pdirs, WithTable
  <2>6. ASSUME NEW v \in Nat, DirOf(v) \in UserDirs, DirOf(v) < d \/ (DirOf(v) = d /\ EntryOf(v) < 0)
        PROVE  PageCopied(pdir', ptes', data', pcb, q, v)
    <3>1. EntryOf(v) \in Nat /\ DirOf(v) \in Nat /\ DirOf(v) \in LowDirs
      BY <2>6, PlaceOfPage, NumberTypes
    <3>2. DirOf(v) < d /\ DirOf(v) # d
      BY <1>4, <2>6, <3>1
    <3>3. SameTable(pdir, ptes, pdir', ptes', pcb, DirOf(v))
      BY <2>3, <3>1, <3>2
    <3>4. Frame(pdir'[pcb], ptes', v) = Frame(pdir[pcb], ptes, v)
      BY <3>3 DEF SameTable, Frame
    <3>5. PageCopied(pdir, ptes, data, pcb, q, v)
      BY <1>5, <2>6, <3>2
    <3>6. /\ Frame(pdir'[q], ptes', v) = Frame(pdir[q], ptes, v)
          /\ Frame(pdir[q], ptes, v) # None => data'[Frame(pdir[q], ptes, v)] = data[Frame(pdir[q], ptes, v)]
      BY <2>4, <2>6 DEF SameView
    <3> QED
      BY <1>1, <3>4, <3>5, <3>6, CopiedKept
  <2> QED
    BY <1>7, <1>10, <2>1, <2>5, <2>6 DEF Copying
<1> QED
  BY <1>6, <1>7, <1>8, <1>9, <1>10

(* copy_process(): the pages. *)
LEMMA CopyPageImages ==
  ASSUME MemoryInv, CopyInv, CopyPage, Planned(todo, spaces, pcb), Copying(todo, pdir, ptes, data, pcb)
  PROVE  Copying(todo', pdir', ptes', data', pcb) /\ todo'[1][1] \in {"copy_table", "copy"}
<1>1. Doing("copy") /\ UNCHANGED <<pdir, spaces>>
  BY DEF CopyPage
<1>2. /\ pcb \in Pcbs /\ pcb # None /\ Ready(todo, pdir, ptes, spaces, pcb) /\ pcb \in spaces
      /\ todo[1][1] = "copy" /\ Head(todo) = todo[1] /\ StepOK(todo[1])
  BY <1>1, InHand
<1> PICK q : q = todo[1][2]
  OBVIOUS
<1> PICK d : d = todo[1][3]
  OBVIOUS
<1> PICK e : e = todo[1][4]
  OBVIOUS
<1>3. q \in spaces /\ q # pcb /\ q \in Pcbs
  BY <1>1, ParentWaits
<1>4. /\ d \in UserDirs /\ e \in Entries /\ d \in Nat /\ e \in Nat /\ e < NR_PTE /\ NR_PTE \in Nat /\ d \in Dirs
      /\ pdir[pcb][d] # None /\ ptes[pdir[pcb][d]][e] = None
  BY <1>2, ConstantTypes, NumberTypes DEF StepOK, Ready, UserDirs, Entries
<1>5. /\ pdir[q][d] # None
      /\ \A v \in Nat : DirOf(v) \in UserDirs /\ (DirOf(v) < d \/ (DirOf(v) = d /\ EntryOf(v) < e))
                          => PageCopied(pdir, ptes, data, pcb, q, v)
  BY <1>2 DEF Copying
<1> PICK f : f = ptes[pdir[q][d]][e]
  OBVIOUS
<1>6. \A v \in Nat : DirOf(v) = d /\ EntryOf(v) = e =>
        Frame(pdir[q], ptes, v) = f /\ Frame(pdir[pcb], ptes, v) = None
  BY <1>4, <1>5 DEF Frame
<1>7. \A v \in Nat : DirOf(v) \in UserDirs /\ (DirOf(v) < d \/ (DirOf(v) = d /\ EntryOf(v) <= e))
                       => PageCopied(pdir', ptes', data', pcb, q, v)
  <2> SUFFICES ASSUME NEW v \in Nat, DirOf(v) \in UserDirs, DirOf(v) < d \/ (DirOf(v) = d /\ EntryOf(v) <= e)
               PROVE  PageCopied(pdir', ptes', data', pcb, q, v)
    OBVIOUS
  <2>1. DirOf(v) \in Nat /\ EntryOf(v) \in Nat /\ EntryOf(v) \in Entries /\ DirOf(v) \in LowDirs
    BY PlaceOfPage, NumberTypes
  <2>2. (DirOf(v) = d /\ EntryOf(v) = e) \/ PageCopied(pdir, ptes, data, pcb, q, v)
    BY <1>4, <1>5, <2>1
  <2>3. SameView(pdir, ptes, data, pdir', ptes', data', q)
    BY <1>3, OthersSame DEF Steps
  <2>4. /\ Frame(pdir'[q], ptes', v) = Frame(pdir[q], ptes, v)
        /\ Frame(pdir[q], ptes, v) # None => data'[Frame(pdir[q], ptes, v)] = data[Frame(pdir[q], ptes, v)]
    BY <2>3 DEF SameView
  <2>5. CASE f = None
    <3>1. UNCHANGED <<ptes, data>>
      BY <1>2, <2>5 DEF CopyPage, Arg
    <3> QED
      BY <1>1, <1>6, <2>2, <2>5, <3>1, SMTT(60) DEF PageCopied
  <2>6. CASE f # None
    <3>1. GetIdlePage /\ ptes' = WithPage(pdir, ptes, pcb, d, e, NewFrame) /\ data' = [data EXCEPT ![NewFrame] = data[f]]
      <4>1. Arg(2) = q /\ Arg(3) = d /\ Arg(4) = e
        BY <1>2 DEF Arg
      <4>2. ptes[pdir[Arg(2)][Arg(3)]][Arg(4)] # None
        BY <2>6, <4>1
      <4>3. /\ GetIdlePage
            /\ ptes' = [ptes EXCEPT ![pdir[pcb][Arg(3)]][Arg(4)] = NewFrame]
            /\ data' = [data EXCEPT ![NewFrame] = data[ptes[pdir[Arg(2)][Arg(3)]][Arg(4)]]]
        BY <4>2, ZenonT(60) DEF CopyPage
      <4> QED
        BY <4>1, <4>3, ZenonT(60) DEF WithPage
    <3>2. /\ \A i \in Entries : i # e => ptes'[pdir'[pcb][d]][i] = ptes[pdir[pcb][d]][i]
          /\ \A c \in LowDirs : c # d => SameTable(pdir, ptes, pdir', ptes', pcb, c)
      BY <1>1, <1>2, <1>4, <3>1, StepMakesPage, SMTT(60)
    <3>3. NewFrame \in PoolFrames /\ NewFrame \notin Marked
      BY <3>1, OneFrame, SMTT(60) DEF MemoryInv, MapType
    <3>4. NewFrame # None /\ data'[NewFrame] = data[f] /\ \A g : g # NewFrame => data'[g] = data[g]
      <4>1. NewFrame \in AllFrames /\ NewFrame # None
        BY <3>3, NumberTypes DEF AllFrames
      <4>2. DataOK(data)
        BY DEF CopyInv, DataOK
      <4> PICK w : w = data[f]
        OBVIOUS
      <4> PICK n : n = NewFrame
        BY SMTT(60)
      <4>3. data' = [data EXCEPT ![n] = w] /\ n \in AllFrames /\ data = [g \in AllFrames |-> data[g]]
        BY <3>1, <4>1, <4>2 DEF DataOK
      <4>4. data'[n] = w /\ \A g : g # n => data'[g] = data[g]
        BY ONLY <4>3, SMTT(60)
      <4> QED
        BY <4>1, <4>4
    <3>5. CASE DirOf(v) = d /\ EntryOf(v) = e
      <4>1. pdir[pcb][d] \in PoolFrames /\ ptes \in Tables
        BY <1>2, <1>4, SMTT(60) DEF MemoryInv, MapType, Pdirs
      <4>2. ptes'[pdir[pcb][d]][e] = NewFrame
        BY <1>4, <3>1, <4>1 DEF Tables, WithPage
      <4>3. Frame(pdir'[pcb], ptes', v) = NewFrame
        BY <1>1, <1>4, <3>5, <4>2, SMTT(60) DEF Frame
      <4>4. Frame(pdir'[q], ptes', v) = f /\ data'[f] = data[f]
        BY <1>6, <2>4, <2>6, <3>5
      <4> QED
        BY <2>6, <3>4, <4>3, <4>4 DEF PageCopied
    <3>6. CASE ~(DirOf(v) = d /\ EntryOf(v) = e)
      <4>1. PageCopied(pdir, ptes, data, pcb, q, v)
        BY <2>2, <3>6
      <4>2. Frame(pdir'[pcb], ptes', v) = Frame(pdir[pcb], ptes, v)
        <5>1. CASE DirOf(v) = d
          BY <1>1, <1>4, <2>1, <3>2, <3>6, <5>1 DEF Frame
        <5>2. CASE DirOf(v) # d
          <6>1. SameTable(pdir, ptes, pdir', ptes', pcb, DirOf(v))
            BY <2>1, <3>2, <5>2
          <6> QED
            BY <6>1 DEF SameTable, Frame
        <5> QED
          BY <5>1, <5>2
      <4>3. Frame(pdir[pcb], ptes, v) # None => Frame(pdir[pcb], ptes, v) \in Marked
        BY <1>2, UserPage, SMTT(60)
      <4>4. Frame(pdir[pcb], ptes, v) # None => data'[Frame(pdir[pcb], ptes, v)] = data[Frame(pdir[pcb], ptes, v)]
        BY <3>3, <3>4, <4>3, SMTT(60)
      <4> QED
        BY <2>4, <4>1, <4>2, <4>4, CopiedKept
    <3> QED
      BY <3>5, <3>6
  <2> QED
    BY <2>5, <2>6
<1> DEFINE t1 == <<"copy_table", q, d + 1>>
           t2 == <<"copy", q, d, e + 1>>
<1>8. IF e + 1 < NR_PTE THEN Then(t2) ELSE Then(t1)
  BY <1>2 DEF CopyPage, NextEntry, Arg
<1>9. t1[1] = "copy_table" /\ t1[2] = q /\ t1[3] = d + 1 /\ t2[1] = "copy" /\ t2[2] = q /\ t2[3] = d /\ t2[4] = e + 1
  OBVIOUS
<1> HIDE DEF t1, t2
<1>10. CASE e + 1 < NR_PTE
  <2>1. todo'[1] = t2
    BY <1>1, <1>8, <1>10, ThenHead
  <2>2. \A v \in Nat : DirOf(v) \in UserDirs /\ (DirOf(v) < d \/ (DirOf(v) = d /\ EntryOf(v) < e + 1))
                       => PageCopied(pdir', ptes', data', pcb, q, v)
    <3>1. \A v \in Nat : EntryOf(v) < e + 1 => EntryOf(v) <= e
      BY <1>4, PlaceOfPage
    <3> QED
      BY <1>7, <3>1
  <2> QED
    BY <1>1, <1>5, <1>9, <2>1, <2>2 DEF Copying
<1>11. CASE ~(e + 1 < NR_PTE)
  <2>1. todo'[1] = t1
    BY <1>1, <1>8, <1>11, ThenHead
  <2>2. \A v \in Nat : DirOf(v) \in UserDirs /\ DirOf(v) < d + 1 => PageCopied(pdir', ptes', data', pcb, q, v)
    <3>1. ASSUME NEW v \in Nat, DirOf(v) < d + 1
          PROVE  DirOf(v) < d \/ DirOf(v) = d
      <4>1. DirOf(v) \in Nat /\ d \in Nat
        BY <1>4, PlaceOfPage
      <4> QED
        BY <3>1, <4>1
    <3>2. \A v \in Nat : EntryOf(v) <= e
      BY <1>4, <1>11, PlaceOfPage
    <3> QED
      BY <1>7, <3>1, <3>2
  <2> QED
    BY <1>9, <2>1, <2>2 DEF Copying
<1> QED
  BY <1>10, <1>11
-----------------------------------------------------------------------------
(* Every step. *)

(* A step goes on, or is done. *)
LEMMA StepContinues ==
  ASSUME MemoryInv, Steps, ~Answer, ~LoadSegment
  PROVE  /\ pcb' = pcb /\ spaces \ {pcb} \subseteq spaces' /\ spaces' \subseteq spaces \cup {pcb}
         /\ \E op : Doing(op) /\ op # "answer"
         /\ Done \/ todo' = todo \/ \E s : Then(s) /\ Continues(todo[1], s)
<1>1. CASE Clear \/ Table \/ FirstPage \/ LastPage \/ Takeback
  BY <1>1 DEF Clear, Table, FirstPage, LastPage, Takeback, Rest
<1>2. ASSUME NEW op, op # "answer", Doing(op), NEW s, s[1] \in Early => op \in Early,
             s[1] \in {"copy_table", "copy"} => op \in {"copy_table", "copy"} /\ s[2] = Arg(2)
      PROVE  Continues(todo[1], s)
  <2>1. todo[1][1] = op /\ Head(todo) = todo[1]
    BY <1>2, InHand
  <2> QED
    BY <1>2, <2>1 DEF Continues, Arg
<1>3. CASE Kernel
  <2> PICK s : s = <<"kernel", Arg(2) + 1>>
    OBVIOUS
  <2>1. Doing("kernel") /\ (Done \/ Then(s)) /\ UNCHANGED <<spaces, pcb>> /\ s[1] = "kernel"
    BY <1>3 DEF Kernel, Loop, Rest
  <2> QED
    BY <1>2, <2>1 DEF Early
<1>4. CASE Stack
  <2> PICK s : s = <<"stack", Arg(2) - 1>>
    OBVIOUS
  <2>1. Doing("stack") /\ (Done \/ Then(s)) /\ UNCHANGED <<spaces, pcb>> /\ s[1] = "stack"
    BY <1>4 DEF Stack, Loop, Rest
  <2> QED
    BY <1>2, <2>1 DEF Early
<1>5. CASE NextPage
  <2> PICK s : s = <<"next", Arg(2) + 1, Arg(3) - 1>>
    OBVIOUS
  <2>1. Doing("next") /\ Then(s) /\ UNCHANGED <<spaces, pcb>> /\ s[1] = "next"
    BY <1>5 DEF NextPage, Rest
  <2> QED
    BY <1>2, <2>1 DEF Early
<1>6. CASE CopyTable
  <2> PICK s : s = <<"copy_table", Arg(2), Arg(3) + 1>>
    OBVIOUS
  <2> PICK t : t = <<"copy", Arg(2), Arg(3), 0>>
    OBVIOUS
  <2>1. /\ Doing("copy_table") /\ (Done \/ Then(s) \/ Then(t)) /\ UNCHANGED <<spaces, pcb>>
        /\ s[1] = "copy_table" /\ t[1] = "copy" /\ s[2] = Arg(2) /\ t[2] = Arg(2)
    BY <1>6 DEF CopyTable, Rest
  <2> QED
    BY <1>2, <2>1 DEF Early
<1>7. CASE CopyPage
  <2> PICK s : s = <<"copy_table", Arg(2), Arg(3) + 1>>
    OBVIOUS
  <2> PICK t : t = <<"copy", Arg(2), Arg(3), Arg(4) + 1>>
    OBVIOUS
  <2>1. /\ Doing("copy") /\ (Then(s) \/ Then(t)) /\ UNCHANGED <<spaces, pcb>>
        /\ s[1] = "copy_table" /\ t[1] = "copy" /\ s[2] = Arg(2) /\ t[2] = Arg(2)
    BY <1>7 DEF CopyPage, NextEntry, Rest
  <2> QED
    BY <1>2, <2>1 DEF Early
<1>8. CASE StrlenUserString
  <2>1. /\ Doing("strlen") /\ UNCHANGED <<spaces, pcb>>
        /\ todo' = todo \/ \E s : Then(s) /\ s[1] \in {"strlen", "to"}
    <3>1. \A x, y : <<"to", x, y>>[1] = "to"
      OBVIOUS
    <3>2. \A x, y, z : <<"strlen", x, y, z>>[1] = "strlen"
      OBVIOUS
    <3> QED
      BY <1>8, <3>1, <3>2 DEF StrlenUserString, Absent, Maps
  <2> QED
    BY <1>2, <2>1 DEF Early
<1>9. CASE CopyToKernel
  <2>1. /\ Doing("to") /\ UNCHANGED <<spaces, pcb>>
        /\ todo' = todo \/ Done \/ \E s : Then(s) /\ s[1] = "to"
    <3>1. \A x, y : <<"to", x, y>>[1] = "to"
      OBVIOUS
    <3> QED
      BY <1>9, <3>1 DEF CopyToKernel, Absent, Overrun, Maps
  <2> QED
    BY <1>2, <2>1 DEF Early
<1>10. CASE CopyFromKernel
  <2>1. /\ Doing("from") /\ UNCHANGED <<spaces, pcb>>
        /\ todo' = todo \/ Done \/ \E s : Then(s) /\ s[1] = "from"
    <3>1. \A x, y : <<"from", x, y>>[1] = "from"
      OBVIOUS
    <3> QED
      BY <1>10, <3>1 DEF CopyFromKernel, Absent, Maps
  <2> QED
    BY <1>2, <2>1 DEF Early
<1>11. CASE PlaceArgs
  <2>1. /\ Doing("args") /\ UNCHANGED <<spaces, pcb>>
        /\ \E s : Then(s) /\ s[1] = "from"
    <3>1. \A x, y : <<"from", x, y>>[1] = "from"
      OBVIOUS
    <3> QED
      BY <1>11, <3>1 DEF PlaceArgs, Maps
  <2> QED
    BY <1>2, <2>1 DEF Early
<1> QED
  BY <1>1, <1>3, <1>4, <1>5, <1>6, <1>7, <1>8, <1>9, <1>10, <1>11 DEF Steps

(* The steps ahead stay in order, whatever step is done. *)
LEMMA StaysPlanned ==
  ASSUME MemoryInv, MemoryInv', Steps, ~Answer, Planned(todo, spaces, pcb)
  PROVE  /\ pcb' = pcb /\ pcb # None /\ todo[1][1] # "answer" /\ Planned(todo', spaces', pcb)
         /\ spaces \ {pcb} \subseteq spaces' /\ spaces' \subseteq spaces \cup {pcb}
<1>1. CASE LoadSegment
  <2>1. Doing("load") /\ UNCHANGED <<spaces, pcb>>
    BY <1>1 DEF LoadSegment, Rest
  <2> QED
    BY <1>1, <2>1, InHand, LoadPlanned
<1>2. CASE ~LoadSegment
  <2>1. /\ pcb' = pcb /\ spaces \ {pcb} \subseteq spaces' /\ spaces' \subseteq spaces \cup {pcb}
        /\ \E op : Doing(op) /\ op # "answer"
        /\ Done \/ todo' = todo \/ \E s : Then(s) /\ Continues(todo[1], s)
    BY <1>2, StepContinues
  <2>2. PICK op : Doing(op) /\ op # "answer"
    BY <2>1
  <2>3. pcb # None /\ todo[1][1] # "answer" /\ TodoOK(todo')
    BY <2>1, <2>2, InHand DEF MemoryInv
  <2>4. CASE todo' = todo
    BY <2>1, <2>3, <2>4 DEF Planned
  <2>5. CASE Done \/ \E s : Then(s) /\ Continues(todo[1], s)
    <3> PICK S : S = spaces'
      OBVIOUS
    <3>1. Planned(todo', S, pcb)
      BY <2>1, <2>2, <2>3, <2>5, PlannedStep
    <3> QED
      BY <2>1, <2>3, <3>1
  <2> QED
    BY <2>1, <2>4, <2>5
<1> QED
  BY <1>1, <1>2

(* The top of the stack is a page of user space. *)
LEMMA TopOfStack == PageOf(StackTop) \in Nat /\ DirOf(PageOf(StackTop)) \in UserDirs
<1>1. NR_STACK \in Nat \ {0}
  BY ConstantTypes
<1>2. PageOf(StackTop) \in (PageOf(StackTop) - NR_STACK + 1)..PageOf(StackTop)
  BY <1>1, StackPages
<1> QED
  BY <1>2, StackPages, NumberTypes

(* While a program is loaded its stack is there. *)
LEMMA StackPrepared ==
  ASSUME CopyInv, pcb # None, todo[1][1] \in {"load", "from"}
  PROVE  HasStack(pdir, ptes, pcb)
<1>1. NR_STACK \in Nat \ {0}
  BY ConstantTypes
<1>2. PageOf(StackTop) \in (PageOf(StackTop) - NR_STACK + 1)..PageOf(StackTop)
  BY <1>1, StackPages
<1>3. PagesThere(pdir, ptes, pcb, PageOf(StackTop) - NR_STACK + 1, PageOf(StackTop))
  BY DEF CopyInv, Prepared
<1> QED
  BY <1>2, <1>3 DEF PagesThere, HasStack

(* The memory of the others stays complete. *)
LEMMA ImageStep ==
  ASSUME MemoryInv, MemoryInv', CopyInv, ImageInv, Steps, ~Answer,
         Loading(todo', pdir', ptes', data', pcb), Copying(todo', pdir', ptes', data', pcb),
         Seen(todo', spaces', pcb, pcb) => HasStack(pdir', ptes', pcb)
  PROVE  ImageInv'
<1>1. pcb # None /\ pcb' = pcb
  <2>1. pcb = None => FALSE
    <3>1. pcb = None => todo = <<>>
      BY DEF MemoryInv
    <3>2. CASE LoadSegment
      BY <3>1, <3>2 DEF LoadSegment, Doing
    <3>3. CASE ~LoadSegment
      BY <3>1, <3>3, StepContinues DEF Doing
    <3> QED
      BY <3>2, <3>3
  <2>2. Planned(todo, spaces, pcb)
    BY <2>1 DEF ImageInv
  <2> QED
    BY <2>1, <2>2, StaysPlanned
<1>2. /\ Planned(todo', spaces', pcb) /\ spaces' \subseteq spaces \cup {pcb} /\ spaces \in SUBSET Pcbs
  <2>1. Planned(todo, spaces, pcb)
    BY <1>1 DEF ImageInv
  <2> QED
    BY <2>1, StaysPlanned DEF MemoryInv, MapType
<1>3. ASSUME NEW q \in Pcbs, Seen(todo', spaces', pcb, q)
      PROVE  HasStack(pdir', ptes', q)
  <2>1. CASE q = pcb
    BY <1>3, <2>1
  <2>2. CASE q # pcb
    <3>1. q \in spaces
      BY <1>2, <1>3, <2>2 DEF Seen
    <3>2. HasStack(pdir, ptes, q)
      BY <2>2, <3>1 DEF ImageInv, Seen
    <3>3. SameView(pdir, ptes, data, pdir', ptes', data', q)
      BY <2>2, <3>1, OthersSame
    <3> QED
      BY <3>2, <3>3, TopOfStack DEF SameView, HasStack
  <2> QED
    BY <2>1, <2>2
<1> QED
  BY <1>1, <1>2, <1>3 DEF ImageInv

\* A step that neither loads nor copies.
Plain(s) == s[1] \in {"clear", "kernel", "table", "stack", "strlen", "to", "takeback", "answer"}

(* Before such a step nothing has been loaded or copied. *)
LEMMA PlainStep ==
  ASSUME NEW td, NEW pd, NEW pt, NEW dt, NEW p, Plain(td[1])
  PROVE  Loading(td, pd, pt, dt, p) /\ Copying(td, pd, pt, dt, p)
BY DEF Plain, Loading, Copying

(* Steps of load_program(). *)
LEMMA ProgramStepImages ==
  ASSUME MemoryInv, MemoryInv', CopyInv, ImageInv,
         Stack \/ LoadSegment \/ FirstPage \/ NextPage \/ LastPage \/ CopyFromKernel \/ PlaceArgs
  PROVE  /\ ImageInv' /\ ~Old(todo'[1])
         /\ todo'[1][1] = "answer" => \E i \in DOMAIN Programs : ImageAt(pdir', ptes', data', pcb, i)
<1>1. pcb # None /\ todo[1][1] \notin {"answer", "clear", "copy_table", "copy", "takeback", "strlen", "to", "kernel", "table"}
  <2>1. \E op \in {"stack", "load", "first", "next", "from", "args"} : Doing(op)
    BY DEF Stack, LoadSegment, FirstPage, NextPage, LastPage, CopyFromKernel, PlaceArgs
  <2> QED
    BY <2>1, InHand
<1>2. Steps /\ ~Answer
  <2>1. ~Answer
    BY <1>1, InHand DEF Answer
  <2> QED
    BY <2>1 DEF Steps
<1>3. Loading(todo, pdir, ptes, data, pcb) /\ Planned(todo, spaces, pcb)
  BY <1>1 DEF ImageInv
<1>4. CASE Stack
  <2>1. Loading(todo', pdir', ptes', data', pcb) /\ todo'[1][1] \in {"stack", "load"}
    BY <1>3, <1>4, StackImages
  <2>2. Copying(todo', pdir', ptes', data', pcb) /\ ~Old(todo'[1]) /\ todo'[1][1] # "answer"
    BY <2>1 DEF Copying, Old
  <2> QED
    BY <1>2, <2>1, <2>2, ImageStep DEF Seen
<1>5. CASE LoadSegment
  <2>1. Doing("load") /\ UNCHANGED <<pdir, ptes, data, spaces, pcb>>
    BY <1>5 DEF LoadSegment, Rest
  <2>2. /\ Loading(todo', pdir, ptes, data, pcb)
        /\ todo'[1][1] = "answer" => \E i \in DOMAIN Programs : ImageAt(pdir, ptes, data, pcb, i)
        /\ todo'[1][1] \in {"args", "answer", "load", "first"}
    BY <1>3, <1>5, LoadSegmentImages
  <2>3. HasStack(pdir, ptes, pcb)
    BY <1>1, <2>1, InHand, StackPrepared
  <2>4. Copying(todo', pdir, ptes, data, pcb) /\ ~Old(todo'[1])
    BY <2>2 DEF Copying, Old
  <2> QED
    BY <1>2, <2>1, <2>2, <2>3, <2>4, ImageStep
<1>6. CASE FirstPage \/ NextPage
  <2>1. Loading(todo', pdir', ptes', data', pcb) /\ todo'[1][1] = "next"
    BY <1>3, <1>6, FirstPageImages, NextPageImages
  <2>2. Copying(todo', pdir', ptes', data', pcb) /\ ~Old(todo'[1]) /\ todo'[1][1] # "answer"
    BY <2>1 DEF Copying, Old
  <2> QED
    BY <1>2, <2>1, <2>2, ImageStep DEF Seen
<1>7. CASE LastPage \/ PlaceArgs
  <2>1. Loading(todo', pdir, ptes, data, pcb) /\ todo'[1][1] = "from" /\ UNCHANGED <<pdir, ptes, data>>
    BY <1>3, <1>7, LastPageImages, PlaceArgsImages DEF LastPage, PlaceArgs, Maps
  <2>2. Copying(todo', pdir', ptes', data', pcb) /\ ~Old(todo'[1]) /\ todo'[1][1] # "answer"
    BY <2>1 DEF Copying, Old
  <2> QED
    BY <1>2, <2>1, <2>2, ImageStep DEF Seen
<1>8. CASE CopyFromKernel
  <2>1. Doing("from") /\ UNCHANGED <<pdir, ptes, spaces, pcb>>
    BY <1>8 DEF CopyFromKernel, Maps
  <2>2. /\ Loading(todo', pdir, ptes, data', pcb)
        /\ todo'[1][1] = "answer" => \E i \in DOMAIN Programs : ImageAt(pdir, ptes, data', pcb, i)
        /\ todo'[1][1] \in {"from", "load", "answer"}
    BY <1>3, <1>8, CopyFromKernelImages
  <2>3. HasStack(pdir, ptes, pcb)
    BY <1>1, <2>1, InHand, StackPrepared
  <2>4. Copying(todo', pdir, ptes, data', pcb) /\ ~Old(todo'[1])
    BY <2>2 DEF Copying, Old
  <2> QED
    BY <1>2, <2>1, <2>2, <2>3, <2>4, ImageStep
<1> QED
  BY <1>4, <1>5, <1>6, <1>7, <1>8

(* Steps of copy_process(). *)
LEMMA CopyStepImages ==
  ASSUME MemoryInv, MemoryInv', CopyInv, ImageInv, CopyTable \/ CopyPage
  PROVE  /\ ImageInv' /\ ~Old(todo'[1])
         /\ todo'[1][1] = "answer" =>
              /\ CopyTable /\ todo[1][2] \in spaces /\ todo[1][2] # pcb
              /\ \A v \in Nat : DirOf(v) \in UserDirs => PageCopied(pdir', ptes', data', pcb, todo[1][2], v)
<1>1. pcb # None /\ todo[1][1] \in {"copy_table", "copy"}
  <2>1. \E op \in {"copy_table", "copy"} : Doing(op)
    BY DEF CopyTable, CopyPage
  <2> QED
    BY <2>1, InHand
<1>2. Steps /\ ~Answer
  <2>1. ~Answer
    BY <1>1, InHand DEF Answer
  <2> QED
    BY <2>1 DEF Steps
<1>3. Copying(todo, pdir, ptes, data, pcb) /\ Planned(todo, spaces, pcb)
  BY <1>1 DEF ImageInv
<1> PICK q : q = todo[1][2]
  OBVIOUS
<1>4. q \in spaces /\ q # pcb /\ q \in Pcbs
  <2>1. \E op \in {"copy_table", "copy"} : Doing(op)
    BY DEF CopyTable, CopyPage
  <2> QED
    BY <1>3, <2>1, ParentWaits
<1>5. CASE CopyTable
  <2>1. /\ Copying(todo', pdir', ptes', data', pcb) /\ todo'[1][1] \in {"copy_table", "copy", "answer"}
        /\ todo'[1][1] = "answer" =>
             \A v \in Nat : DirOf(v) \in UserDirs => PageCopied(pdir', ptes', data', pcb, q, v)
    BY <1>3, <1>5, CopyTableImages
  <2>2. Loading(todo', pdir', ptes', data', pcb) /\ ~Old(todo'[1])
    BY <2>1 DEF Loading, Old
  <2>3. HasStack(pdir', ptes', q)
    <3>1. HasStack(pdir, ptes, q)
      BY <1>4 DEF ImageInv, Seen
    <3>2. SameView(pdir, ptes, data, pdir', ptes', data', q)
      BY <1>2, <1>4, OthersSame
    <3> QED
      BY <3>1, <3>2, TopOfStack DEF SameView, HasStack
  <2>4. todo'[1][1] = "answer" => HasStack(pdir', ptes', pcb)
    BY <2>1, <2>3, TopOfStack DEF PageCopied, HasStack
  <2> QED
    BY <1>2, <1>4, <1>5, <2>1, <2>2, <2>4, ImageStep DEF Seen
<1>6. CASE CopyPage
  <2>1. Copying(todo', pdir', ptes', data', pcb) /\ todo'[1][1] \in {"copy_table", "copy"}
    BY <1>3, <1>6, CopyPageImages
  <2>2. Loading(todo', pdir', ptes', data', pcb) /\ ~Old(todo'[1]) /\ todo'[1][1] # "answer"
    BY <2>1 DEF Loading, Old
  <2> QED
    BY <1>2, <2>1, <2>2, ImageStep DEF Seen
<1> QED
  BY <1>5, <1>6

(* The steps before a program is loaded or a parent copied. *)
LEMMA EarlyStepImages ==
  ASSUME MemoryInv, MemoryInv', CopyInv, ImageInv, Clear \/ Kernel \/ Table \/ Takeback
  PROVE  ImageInv' /\ (Clear \/ Kernel \/ Table => ~Old(todo'[1]) /\ todo'[1][1] # "answer")
<1>1. pcb # None /\ todo[1][1] \in {"clear", "kernel", "table", "takeback"}
  <2>1. \E op \in {"clear", "kernel", "table", "takeback"} : Doing(op)
    BY DEF Clear, Kernel, Table, Takeback
  <2> QED
    BY <2>1, InHand
<1>2. Steps /\ ~Answer
  <2>1. ~Answer
    BY <1>1, InHand DEF Answer
  <2> QED
    BY <2>1 DEF Steps
<1>3. CASE Clear \/ Table
  <2>1. Done /\ \E op \in {"clear", "table"} : Doing(op)
    BY <1>3 DEF Clear, Table
  <2>2. todo'[1][1] \in {"kernel", "stack"}
    BY <2>1, AfterDone DEF MayFollow
  <2>3. Plain(todo'[1]) /\ ~Old(todo'[1]) /\ todo'[1][1] # "answer"
    BY <2>2 DEF Plain, Old
  <2>4. ~Kernel /\ ~Takeback
    BY <2>1, InHand DEF Kernel, Takeback
  <2> QED
    BY <1>2, <2>3, <2>4, PlainStep, ImageStep DEF Seen
<1>4. CASE Kernel
  <2> PICK s : s = <<"kernel", Arg(2) + 1>>
    OBVIOUS
  <2>1. Doing("kernel") /\ (Done \/ Then(s)) /\ s[1] = "kernel"
    BY <1>4 DEF Kernel, Loop
  <2>2. CASE Then(s)
    <3>1. todo'[1] = s
      BY <2>1, <2>2, ThenHead
    <3>2. Plain(todo'[1]) /\ ~Old(todo'[1]) /\ todo'[1][1] # "answer"
      BY <2>1, <3>1 DEF Plain, Old
    <3> QED
      BY <1>2, <3>2, PlainStep, ImageStep DEF Seen
  <2>3. CASE Done
    <3>1. todo'[1] = todo[2] /\ todo[2][1] \in {"table", "copy_table"} /\ Begins(todo[2])
      BY <2>1, <2>3, AfterDone DEF MayFollow
    <3>2. ~Old(todo'[1]) /\ todo'[1][1] # "answer" /\ Loading(todo', pdir', ptes', data', pcb)
      BY <3>1 DEF Old, Loading
    <3>3. \A c \in UserDirs : ~(c < KERNEL_DIRS)
      BY ConstantTypes DEF UserDirs
    <3>4. todo'[1][1] = "copy_table" => todo'[1][3] = KERNEL_DIRS
      BY <3>1 DEF Begins
    <3>5. Copying(todo', pdir', ptes', data', pcb)
      BY <3>1, <3>3, <3>4 DEF Copying
    <3> QED
      BY <1>2, <3>2, <3>5, ImageStep DEF Seen
  <2> QED
    BY <2>1, <2>2, <2>3
<1>5. CASE Takeback
  <2>1. Doing("takeback") /\ Done /\ spaces' = spaces \ {pcb}
    BY <1>5 DEF Takeback
  <2>2. todo'[1][1] \in {"clear", "answer"}
    BY <2>1, AfterDone DEF MayFollow
  <2>3. Plain(todo'[1]) /\ pcb \notin spaces'
    BY <2>1, <2>2 DEF Plain
  <2>4. ~Clear /\ ~Kernel /\ ~Table
    BY <2>1, InHand DEF Clear, Kernel, Table
  <2> QED
    BY <1>2, <2>3, <2>4, PlainStep, ImageStep DEF Seen
<1> QED
  BY <1>3, <1>4, <1>5

(* exec() reads its argument from the old memory. *)
LEMMA FetchImages ==
  ASSUME MemoryInv, MemoryInv', CopyInv, ImageInv, StrlenUserString \/ CopyToKernel
  PROVE  ImageInv' /\ UNCHANGED <<pdir, ptes, data, spaces, pcb>> /\ Old(todo[1]) /\ pcb # None
         /\ (Old(todo'[1]) \/ todo'[1][1] = "answer")
<1>1. PICK op \in {"strlen", "to"} : Doing(op)
  BY DEF StrlenUserString, CopyToKernel
<1>2. pcb # None /\ todo[1][1] = op /\ UNCHANGED <<pdir, ptes, data, spaces, pcb>> /\ Old(todo[1])
  BY <1>1, InHand DEF StrlenUserString, CopyToKernel, Absent, Overrun, Maps, Old
<1>3. Steps /\ ~Answer
  <2>1. ~Answer
    BY <1>2, InHand DEF Answer
  <2> QED
    BY <2>1 DEF Steps
<1>4. \/ todo' = todo
      \/ Done
      \/ \E s : Then(s) /\ s[1] \in {"strlen", "to"}
  <2>1. \A x, y : <<"to", x, y>>[1] = "to"
    OBVIOUS
  <2>2. \A x, y, z : <<"strlen", x, y, z>>[1] = "strlen"
    OBVIOUS
  <2> QED
    BY <2>1, <2>2 DEF StrlenUserString, CopyToKernel, Absent, Overrun
<1>5. todo'[1][1] \in {"strlen", "to", "takeback", "answer"}
  <2>1. CASE todo' = todo
    BY <1>2, <2>1
  <2>2. CASE Done
    BY <1>1, <2>2, AfterDone DEF MayFollow
  <2>3. CASE \E s : Then(s) /\ s[1] \in {"strlen", "to"}
    BY <1>1, <2>3, ThenHead
  <2> QED
    BY <1>4, <2>1, <2>2, <2>3
<1>6. Plain(todo'[1]) /\ (Old(todo'[1]) \/ todo'[1][1] = "answer")
  BY <1>5 DEF Plain, Old
<1>7. pcb \in spaces => HasStack(pdir, ptes, pcb)
  <2>1. pcb \in Pcbs
    BY <1>1, InHand
  <2> QED
    BY <1>2, <2>1 DEF ImageInv, Seen
<1> QED
  BY <1>2, <1>3, <1>6, <1>7, PlainStep, ImageStep DEF Seen

(* The answer: the memory of the PCB is complete, or gone. *)
LEMMA AnswerImages == ASSUME MemoryInv, ImageInv, Answer PROVE ImageInv'
<1>1. Doing("answer") /\ pcb' = None /\ UNCHANGED <<pdir, ptes, spaces>>
  BY DEF Answer
<1>2. todo[1][1] = "answer" /\ spaces \in SUBSET Pcbs
  BY <1>1, InHand DEF MemoryInv, MapType
<1>3. ASSUME NEW q \in Pcbs, Seen(todo', spaces', pcb', q)
      PROVE  HasStack(pdir', ptes', q)
  <2>1. Seen(todo, spaces, pcb, q)
    BY <1>1, <1>2, <1>3 DEF Seen
  <2> QED
    BY <1>1, <2>1 DEF ImageInv
<1> QED
  BY <1>1, <1>3 DEF ImageInv

(* What a request begins with. *)
LEMMA RequestHead ==
  ASSUME MemoryInv, MemoryInv', Requests
  PROVE  /\ pcb = None /\ pcb' # None /\ UNCHANGED <<pdir, ptes, data, spaces>>
         /\ todo'[1][1] \in {"clear", "strlen", "takeback"} /\ (todo'[1][1] = "clear" => pcb' \notin spaces)
<1>1. ASSUME NEW p \in Pcbs, NEW c, NEW steps, NEW args, Request(p, c, steps, args)
      PROVE  /\ pcb = None /\ pcb' # None /\ UNCHANGED <<pdir, ptes, data, spaces>>
             /\ todo' = steps \o << <<"answer", c>> >>
  BY <1>1, MemoryAssumption DEF Request
<1>2. ASSUME NEW p \in Pcbs, NEW i \in DOMAIN Programs, Create(p, i)
      PROVE  /\ pcb = None /\ pcb' # None /\ UNCHANGED <<pdir, ptes, data, spaces>> /\ todo'[1][1] = "clear"
  <2>1. Request(p, p, LoadSteps(i), NoArgs)
    BY <1>2 DEF Create
  <2> QED
    BY <1>1, <2>1, CreateFits
<1>3. ASSUME NEW p \in Pcbs, NEW c \in Pcbs, Fork(p, c)
      PROVE  /\ pcb = None /\ pcb' # None /\ UNCHANGED <<pdir, ptes, data, spaces>> /\ todo'[1][1] = "clear"
  <2>1. Request(c, p, CopySteps(p), NoArgs)
    BY <1>3 DEF Fork
  <2> QED
    BY <1>1, <2>1, ForkFits
<1>4. ASSUME NEW p \in Pcbs, NEW i \in DOMAIN Programs, NEW a \in ArgAddrs, Exec(p, i, a)
      PROVE  /\ pcb = None /\ pcb' # None /\ UNCHANGED <<pdir, ptes, data, spaces>> /\ todo'[1][1] = "strlen"
  <2> DEFINE u == << <<"strlen", a, a, 0>> >> \o (<< <<"takeback">> >> \o LoadSteps(i) \o << <<"args">> >>)
  <2>1. \E args : Request(p, p, u, args)
    BY <1>4 DEF Exec, ExecArgs
  <2>2. (u \o << <<"answer", p>> >>)[1][1] = "strlen"
    BY ExecFits
  <2> HIDE DEF u
  <2> QED
    BY <1>1, <2>1, <2>2
<1>5. ASSUME NEW p \in Pcbs, NEW h, NEW args, StepOK(h), h[1] \in {"strlen", "takeback"}, Request(p, p, <<h>>, args)
      PROVE  /\ pcb = None /\ pcb' # None /\ UNCHANGED <<pdir, ptes, data, spaces>> /\ todo'[1][1] = h[1]
  <2>1. /\ pcb = None /\ pcb' # None /\ UNCHANGED <<pdir, ptes, data, spaces>>
        /\ todo' = <<h>> \o << <<"answer", p>> >>
    BY ONLY <1>1, <1>5
  <2>2. (<<h>> \o << <<"answer", p>> >>)[1][1] = h[1]
    BY <1>5, ShortFits
  <2> QED
    BY ONLY <2>1, <2>2
<1>6. ASSUME NEW p \in Pcbs, NEW a \in ArgAddrs, ExecFails(p, a)
      PROVE  /\ pcb = None /\ pcb' # None /\ UNCHANGED <<pdir, ptes, data, spaces>> /\ todo'[1][1] = "strlen"
  <2> DEFINE h == <<"strlen", a, a, 0>>
  <2>1. \E args : Request(p, p, <<h>> \o <<>>, args)
    BY <1>6 DEF ExecFails, ExecArgs
  <2>2. <<h>> \o <<>> = <<h>> /\ h[1] = "strlen" /\ StepOK(h)
    BY DEF StepOK
  <2> HIDE DEF h
  <2> QED
    BY <1>5, <2>1, <2>2
<1>7. ASSUME NEW p \in Pcbs, Exit(p)
      PROVE  /\ pcb = None /\ pcb' # None /\ UNCHANGED <<pdir, ptes, data, spaces>> /\ todo'[1][1] = "takeback"
  <2> DEFINE h == <<"takeback">>
  <2>1. Request(p, p, <<h>>, NoArgs) /\ h[1] = "takeback" /\ StepOK(h)
    BY <1>7 DEF Exit, StepOK
  <2> HIDE DEF h
  <2> QED
    BY <1>5, <2>1
<1>8. /\ pcb = None /\ pcb' # None /\ UNCHANGED <<pdir, ptes, data, spaces>>
      /\ todo'[1][1] \in {"clear", "strlen", "takeback"}
  BY <1>2, <1>3, <1>4, <1>6, <1>7 DEF Requests
<1>9. todo'[1][1] = "clear" => pcb' \notin spaces
  BY <1>8 DEF MemoryInv, Ready
<1> QED
  BY <1>8, <1>9

(* A request changes nothing of what processes see. *)
LEMMA RequestSees ==
  ASSUME MemoryInv, MemoryInv', Requests, NEW q
  PROVE  Seen(todo', spaces', pcb', q) <=> Seen(todo, spaces, pcb, q)
<1>1. /\ pcb = None /\ pcb' # None /\ spaces' = spaces
      /\ todo'[1][1] \in {"clear", "strlen", "takeback"} /\ (todo'[1][1] = "clear" => pcb' \notin spaces)
  BY RequestHead
<1>2. None \notin spaces
  BY MemoryAssumption DEF MemoryInv, MapType
<1> QED
  BY <1>1, <1>2 DEF Seen, Old

(* A request comes in. *)
LEMMA RequestImages == ASSUME MemoryInv, MemoryInv', ImageInv, Requests PROVE ImageInv'
<1>1. UNCHANGED <<pdir, ptes, data, spaces>> /\ todo'[1][1] \in {"clear", "strlen", "takeback"}
  BY RequestHead
<1>2. Plain(todo'[1])
  BY <1>1 DEF Plain
<1>3. Loading(todo', pdir', ptes', data', pcb') /\ Copying(todo', pdir', ptes', data', pcb')
  BY <1>2, PlainStep
<1>4. \A q \in Pcbs : Seen(todo', spaces', pcb', q) => HasStack(pdir', ptes', q)
  BY <1>1, RequestSees DEF ImageInv
<1> QED
  BY <1>3, <1>4, RequestsPlanned DEF ImageInv

(* A process that writes changes a frame of its own. *)
LEMMA WriteView ==
  ASSUME UserWrites, MemoryInv, CopyInv, NEW p \in Pcbs, NEW a \in WriteAddrs, Write(p, a), NEW q \in spaces, q # p
  PROVE  SameView(pdir, ptes, data, pdir, ptes, data', q)
<1>1. p \in spaces /\ UNCHANGED <<pdir, ptes, spaces>>
  BY DEF Write
<1> PICK v : v = PageOf(a)
  OBVIOUS
<1> PICK f : f = Frame(pdir[p], ptes, v)
  OBVIOUS
<1>2. f # None /\ data' = [data EXCEPT ![f][OffsetOf(a)] = Stored]
  BY DEF Write
<1>3. v \in Nat /\ DirOf(v) \in UserDirs
  BY AddressAssumption, AnyAddress DEF UserWrites
<1>4. \A x : x # f => data'[x] = data[x]
  BY <1>2
<1>5. f = Held(pdir, ptes, p, DirOf(v), EntryOf(v)) /\ DirOf(v) \in LowDirs /\ EntryOf(v) \in Spots
  BY <1>1, <1>2, <1>3, UserPage
<1>6. Holds(pdir, ptes, p, f)
  BY <1>5 DEF Holds
<1>7. pdir'[q] = pdir[q] /\ \A g \in Marked : (ptes'[g] = ptes[g] /\ data'[g] = data[g]) \/ (p \in spaces /\ Holds(pdir, ptes, p, g))
  BY <1>1, <1>4, <1>6
<1>8. SameView(pdir, ptes, data, pdir', ptes', data', q)
  BY <1>7, OthersView
<1> QED
  BY <1>1, <1>8

(* What a process sees of its program. *)
LEMMA ViewBytes ==
  ASSUME NEW pd, NEW pt, NEW dt, NEW dt2, NEW p, SameView(pd, pt, dt, pd, pt, dt2, p),
         NEW x \in Nat, ProgramPage(PageOf(x)), IsMapped(pd, pt, p, x)
  PROVE  Byte(pd, pt, dt2, p, x) = Byte(pd, pt, dt, p, x)
<1>1. PageOf(x) \in Nat /\ DirOf(PageOf(x)) \in UserDirs
  BY ConstantTypes DEF ProgramPage, UserDirs
<1> QED
  BY <1>1 DEF SameView, Byte, IsMapped

(* A program is loaded in a memory of its own. *)
LEMMA LoadingSame ==
  ASSUME NEW td, NEW pd, NEW pt, NEW dt, NEW dt2, NEW p, SameView(pd, pt, dt, pd, pt, dt2, p),
         Loading(td, pd, pt, dt, p)
  PROVE  Loading(td, pd, pt, dt2, p)
<1>1. ASSUME NEW i, NEW k, NEW d, Filled(pd, pt, dt, p, i, k, d)
      PROVE  Filled(pd, pt, dt2, p, i, k, d)
  BY <1>1, ViewBytes DEF Filled
<1>2. ASSUME NEW s, NEW l, NEW e, SegmentRead(pd, pt, dt, p, s, l, e)
      PROVE  SegmentRead(pd, pt, dt2, p, s, l, e)
  BY <1>1, <1>2 DEF SegmentRead
<1>3. ASSUME NEW i \in DOMAIN Programs, ImageAt(pd, pt, dt, p, i)
      PROVE  ImageAt(pd, pt, dt2, p, i)
  BY <1>1, <1>3 DEF ImageAt
<1> QED
  BY <1>1, <1>2, <1>3 DEF Loading

(* A process that writes is neither loaded nor copied. *)
LEMMA WriteImages ==
  ASSUME UserWrites, MemoryInv, CopyInv, ImageInv, NEW p \in Pcbs, NEW a \in WriteAddrs, Write(p, a)
  PROVE  ImageInv'
<1>1. p \in spaces /\ ~Sleeping(p) /\ UNCHANGED <<pdir, ptes, todo, spaces, pcb>>
  BY DEF Write, Rest
<1>2. ASSUME pcb # None
      PROVE  Loading(todo, pdir, ptes, data', pcb) /\ Copying(todo, pdir, ptes, data', pcb)
  <2>1. TodoOK(todo) /\ Ready(todo, pdir, ptes, spaces, pcb) /\ p # pcb /\ p # Last(todo)[2]
    BY <1>1, <1>2 DEF MemoryInv, Sleeping
  <2>2. /\ Planned(todo, spaces, pcb) /\ Loading(todo, pdir, ptes, data, pcb) /\ Copying(todo, pdir, ptes, data, pcb)
    BY <1>2 DEF ImageInv
  <2>3. CASE pcb \notin spaces
    <3>1. Plain(todo[1])
      BY <2>1, <2>3 DEF Ready, Plain
    <3> QED
      BY <3>1, PlainStep
  <2>4. CASE pcb \in spaces
    <3>1. SameView(pdir, ptes, data, pdir, ptes, data', pcb)
      BY <2>1, <2>4, WriteView
    <3> PICK q : q = todo[1][2]
      OBVIOUS
    <3>2. todo[1][1] \in {"copy_table", "copy"} => q \in spaces /\ q # p
      <4>1. 1 \in 1..Len(todo)
        BY <2>1 DEF TodoOK, Fits
      <4>2. Last(todo) = todo[Len(todo)]
        BY DEF Last
      <4> QED
        BY <2>1, <2>2, <4>1, <4>2 DEF Planned
    <3>3. ASSUME todo[1][1] \in {"copy_table", "copy"}, NEW v \in Nat, DirOf(v) \in UserDirs,
                 PageCopied(pdir, ptes, data, pcb, q, v)
          PROVE  PageCopied(pdir, ptes, data', pcb, q, v)
      <4>1. SameView(pdir, ptes, data, pdir, ptes, data', q)
        BY <3>2, <3>3, WriteView
      <4> QED
        BY <3>1, <3>3, <4>1, CopiedKept DEF SameView
    <3>4. Copying(todo, pdir, ptes, data', pcb)
      BY <2>2, <3>3 DEF Copying
    <3> QED
      BY <2>2, <3>1, <3>4, LoadingSame
  <2> QED
    BY <2>3, <2>4
<1> QED
  BY <1>1, <1>2 DEF ImageInv

(* At the beginning nobody has a memory. *)
LEMMA ImageInit == ASSUME MInit PROVE ImageInv
BY DEF MInit, ImageInv, Seen
-----------------------------------------------------------------------------
(* The memories of AddressSpaces. *)

\* What process q sees.
View(td, S, p, pd, pt, dt, q) ==
  [v \in IF Seen(td, S, p, q) THEN {w \in VPages : DirOf(w) \in UserDirs /\ Frame(pd[q], pt, w) # None} ELSE {}
     |-> dt[Frame(pd[q], pt, v)]]

(* The pages of user space are pages. *)
LEMMA UserSpace ==
  ASSUME NEW v
  PROVE  v \in VPages /\ DirOf(v) \in UserDirs <=> v \in Nat /\ DirOf(v) \in UserDirs
<1>1. /\ NR_PTE \in Nat \ {0} /\ NR_PDE \in Nat \ {0} /\ KOFFSET \in Nat /\ KOFFSET <= NR_PDE /\ KERNEL_DIRS \in Nat
  BY ConstantTypes
<1> PICK T : T = NR_PDE * NR_PTE
  OBVIOUS
<1>2. VPages = 0..(T - 1) /\ T \in Nat
  BY <1>1 DEF VPages
<1>3. ASSUME v \in Nat, DirOf(v) \in UserDirs
      PROVE  v < T
  <2> PICK d : d = v \div NR_PTE
    OBVIOUS
  <2>1. d \in Int /\ d + 1 <= NR_PDE
    BY <1>1, <1>3 DEF DirOf, UserDirs
  <2>2. v < (d + 1) * NR_PTE
    BY <1>1, <1>3, <2>1
  <2>3. (d + 1) * NR_PTE <= NR_PDE * NR_PTE
    BY <1>1, <2>1
  <2>4. (d + 1) * NR_PTE \in Int
    BY <1>1, <2>1
  <2> QED
    BY ONLY <1>2, <1>3, <2>2, <2>3, <2>4, T = NR_PDE * NR_PTE
<1> QED
  BY <1>2, <1>3

(* The memory of a process as the refinement mapping has it. *)
LEMMA MemoryIs == MemoryInv => \A q \in Pcbs : MemoryOf(q) = View(todo, spaces, pcb, pdir, ptes, data, q)
BY CompleteIs DEF MemoryOf, View, UserPages

(* Who sees the same pages has the same memory. *)
LEMMA ViewSame ==
  ASSUME NEW td, NEW S, NEW p, NEW pd, NEW pt, NEW dt, NEW td2, NEW S2, NEW p2, NEW pd2, NEW pt2, NEW dt2, NEW q,
         Seen(td2, S2, p2, q) <=> Seen(td, S, p, q), Seen(td, S, p, q) => SameView(pd, pt, dt, pd2, pt2, dt2, q)
  PROVE  View(td2, S2, p2, pd2, pt2, dt2, q) = View(td, S, p, pd, pt, dt, q)
<1>1. CASE ~Seen(td, S, p, q)
  BY <1>1 DEF View
<1>2. CASE Seen(td, S, p, q)
  <2>1. \A v \in VPages : DirOf(v) \in UserDirs =>
          /\ Frame(pd2[q], pt2, v) = Frame(pd[q], pt, v)
          /\ Frame(pd[q], pt, v) # None => dt2[Frame(pd[q], pt, v)] = dt[Frame(pd[q], pt, v)]
    BY <1>2, UserSpace DEF SameView
  <2> DEFINE A  == {w \in VPages : DirOf(w) \in UserDirs /\ Frame(pd[q], pt, w) # None}
             A2 == {w \in VPages : DirOf(w) \in UserDirs /\ Frame(pd2[q], pt2, w) # None}
  <2>2. A2 = A
    BY <2>1
  <2>3. \A v \in A : dt2[Frame(pd2[q], pt2, v)] = dt[Frame(pd[q], pt, v)]
    BY <2>1
  <2> HIDE DEF A, A2
  <2>4. [v \in A2 |-> dt2[Frame(pd2[q], pt2, v)]] = [v \in A |-> dt[Frame(pd[q], pt, v)]]
    BY <2>2, <2>3
  <2> QED
    BY <1>2, <2>4 DEF View, A, A2
<1> QED
  BY <1>1, <1>2

(* Who sees nothing has no memory. *)
LEMMA ViewNone ==
  ASSUME NEW td, NEW S, NEW p, NEW pd, NEW pt, NEW dt, NEW q, ~Seen(td, S, p, q)
  PROVE  View(td, S, p, pd, pt, dt, q) = Private!NoSpace
BY DEF View, Private!NoSpace

(* A page that is there is in the memory. *)
LEMMA ViewAt ==
  ASSUME NEW td, NEW S, NEW p, NEW pd, NEW pt, NEW dt, NEW q, Seen(td, S, p, q),
         NEW v \in Nat, DirOf(v) \in UserDirs, Frame(pd[q], pt, v) # None
  PROVE  /\ v \in DOMAIN View(td, S, p, pd, pt, dt, q)
         /\ View(td, S, p, pd, pt, dt, q)[v] = dt[Frame(pd[q], pt, v)]
<1>1. v \in VPages
  BY UserSpace
<1> QED
  BY <1>1 DEF View

(* A complete memory is one. *)
LEMMA ViewSome ==
  ASSUME NEW td, NEW S, NEW p, NEW pd, NEW pt, NEW dt, NEW q, Seen(td, S, p, q), HasStack(pd, pt, q)
  PROVE  View(td, S, p, pd, pt, dt, q) # Private!NoSpace
<1>1. PageOf(StackTop) \in DOMAIN View(td, S, p, pd, pt, dt, q)
  BY TopOfStack, ViewAt DEF HasStack
<1>2. DOMAIN Private!NoSpace = {}
  BY DEF Private!NoSpace
<1> QED
  BY <1>1, <1>2

\* The memories of all processes, and that they are what AddressSpaces means.
Views == [q \in Pcbs |-> View(todo, spaces, pcb, pdir, ptes, data, q)]
AreViews == [p \in Pcbs |-> MemoryOf(p)] = Views

(* The refinement mapping. *)
LEMMA MappedMemory == MemoryInv => AreViews
BY MemoryIs DEF Views, AreViews

(* A step on behalf of a PCB changes the memory of no other. *)
LEMMA StepOnlyOf ==
  ASSUME MemoryInv, MemoryInv', CopyInv, ImageInv, Steps, ~Answer
  PROVE  /\ pcb \in Pcbs /\ pcb' = pcb /\ todo[1][1] # "answer"
         /\ \A q \in Pcbs : q # pcb => Views'[q] = Views[q]
<1>1. /\ pcb' = pcb /\ pcb # None /\ todo[1][1] # "answer"
      /\ spaces \ {pcb} \subseteq spaces' /\ spaces' \subseteq spaces \cup {pcb}
  <2>1. pcb # None
    <3>1. \E op : Doing(op)
      BY DEF Steps, Clear, Kernel, Table, Stack, LoadSegment, FirstPage, NextPage, LastPage, CopyTable, CopyPage,
             Takeback, StrlenUserString, CopyToKernel, CopyFromKernel, PlaceArgs, Answer
    <3> QED
      BY <3>1, InHand, SMTT(60)
  <2> QED
    BY <2>1, StaysPlanned DEF ImageInv
<1>2. pcb \in Pcbs
  BY <1>1 DEF MemoryInv
<1>3. ASSUME NEW q \in Pcbs, q # pcb
      PROVE  Views'[q] = Views[q]
  <2>1. Seen(todo', spaces', pcb', q) <=> Seen(todo, spaces, pcb, q)
    BY <1>1, <1>3 DEF Seen
  <2>2. Seen(todo, spaces, pcb, q) => SameView(pdir, ptes, data, pdir', ptes', data', q)
    BY <1>3, OthersSame DEF Seen
  <2>3. View(todo', spaces', pcb', pdir', ptes', data', q) = View(todo, spaces, pcb, pdir, ptes, data, q)
    BY <2>1, <2>2, ViewSame
  <2> QED
    BY <2>3 DEF Views
<1> QED
  BY <1>1, <1>2, <1>3

\* The memory m has program i, and nothing else but the stack.
Loaded(m, i) ==
  /\ \A a \in DOMAIN Image(i) : PageOf(a) \in DOMAIN m
  /\ \A v \in DOMAIN m \ StackSpace, o \in Offsets : LET a == v * PAGE_SIZE + o
       IN m[v][o] = IF a \in DOMAIN Image(i) THEN Image(i)[a] ELSE 0

\* What a step does to the memories.
Refines(m, m2) ==
  \/ m2 = m
  \/ \E p \in Pcbs :
       /\ \A q \in Pcbs : q # p => m2[q] = m[q]
       /\ \/ /\ m[p] = Private!NoSpace
             /\ \E i \in DOMAIN Programs : Loaded(m2[p], i)
          \/ /\ m[p] = Private!NoSpace
             /\ \E q \in Pcbs : q # p /\ m[q] # Private!NoSpace /\ m2[p] = m[q]
          \/ m[p] # Private!NoSpace /\ m2[p] = Private!NoSpace
          \/ \E v \in DOMAIN m[p], o \in Offsets : m2[p] = [m[p] EXCEPT ![v][o] = Stored]

(* Each of these is a step of AddressSpaces. *)
LEMMA AbstractStep ==
  ASSUME MemoryInv, MemoryInv', Refines(Views, Views')
  PROVE  [Private!ANext]_[p \in Pcbs |-> MemoryOf(p)]
<1> PICK m : m = [p \in Pcbs |-> MemoryOf(p)]
  OBVIOUS
<1> PICK m2 : m2 = [p \in Pcbs |-> MemoryOf(p)]'
  OBVIOUS
<1>1. m = Views
  BY MappedMemory DEF AreViews
<1>2. AreViews'
  BY MappedMemory, PTL
<1>3. Refines(m, m2)
  BY <1>1, <1>2 DEF AreViews
<1>4. CASE m2 = m
  BY <1>4
<1>5. ASSUME NEW p \in Pcbs, \A q \in Pcbs : q # p => m2[q] = m[q], m[p] = Private!NoSpace,
             NEW i \in DOMAIN Programs, Loaded(m2[p], i)
      PROVE  Private!Load(p)
  BY <1>5 DEF Private!Load, Private!OnlyOf, Loaded, PageOf, Offsets
<1>6. ASSUME NEW p \in Pcbs, \A q \in Pcbs : q # p => m2[q] = m[q], m[p] = Private!NoSpace,
             NEW q \in Pcbs, q # p, m[q] # Private!NoSpace, m2[p] = m[q]
      PROVE  Private!Copy(q, p)
  BY <1>6 DEF Private!Copy, Private!OnlyOf
<1>7. ASSUME NEW p \in Pcbs, \A q \in Pcbs : q # p => m2[q] = m[q], m[p] # Private!NoSpace, m2[p] = Private!NoSpace
      PROVE  Private!Drop(p)
  BY <1>7 DEF Private!Drop, Private!OnlyOf
<1>8. ASSUME NEW p \in Pcbs, \A q \in Pcbs : q # p => m2[q] = m[q],
             NEW v \in DOMAIN m[p], NEW o \in Offsets, m2[p] = [m[p] EXCEPT ![v][o] = Stored]
      PROVE  Private!Write(p)
  BY <1>8 DEF Private!Write, Private!OnlyOf, Offsets
<1> QED
  BY <1>3, <1>4, <1>5, <1>6, <1>7, <1>8 DEF Refines, Private!ANext

(* The image of a program in terms of its segments. *)
LEMMA ImageIs ==
  ASSUME NEW i \in DOMAIN Programs, NEW a \in DOMAIN Image(i)
  PROVE  /\ a \in Nat /\ InMem(i, Len(Programs[i]) + 1, a)
         /\ Image(i)[a] = IF InFile(i, Len(Programs[i]) + 1, a) THEN i ELSE Zero
<1> PICK n : n = Len(Programs[i])
  OBVIOUS
<1>1. Programs[i] \in Seq(Segment) /\ n \in Nat /\ DOMAIN Programs[i] = 1..n
  BY ProgramAssumption
<1>2. Range(Programs[i]) = {Programs[i][m] : m \in 1..n}
  BY <1>1 DEF Range
<1>3. \A m \in 1..n : m < n + 1
  BY <1>1
<1>5. ASSUME NEW j \in 1..n, NEW ph, ph = Programs[i][j]
      PROVE  /\ a \in ph.vaddr..(ph.vaddr + ph.memsz - 1) <=> a \in Nat /\ From(i, j) <= a /\ a < MemEnd(i, j)
             /\ a \in ph.vaddr..(ph.vaddr + ph.filesz - 1) <=> a \in Nat /\ From(i, j) <= a /\ a < FileEnd(i, j)
  <2>1. ph \in Segment
    BY <1>1, <1>5
  <2> PICK x : x = ph.vaddr
    OBVIOUS
  <2> PICK y : y = ph.memsz
    OBVIOUS
  <2> PICK z : z = ph.filesz
    OBVIOUS
  <2>2. x \in Nat /\ y \in Nat /\ z \in Nat
    BY <2>1, SegmentTypes
  <2>3. From(i, j) = x /\ MemEnd(i, j) = x + y /\ FileEnd(i, j) = x + z
    BY <1>5 DEF From, MemEnd, FileEnd
  <2>4. /\ a \in x..(x + y - 1) <=> a \in Nat /\ x <= a /\ a < x + y
        /\ a \in x..(x + z - 1) <=> a \in Nat /\ x <= a /\ a < x + z
    BY ONLY <2>2
  <2> QED
    BY <2>3, <2>4
<1>6. PICK m \in 1..n : a \in Nat /\ From(i, m) <= a /\ a < MemEnd(i, m)
  <2>1. DOMAIN Image(i) = UNION {ph.vaddr..(ph.vaddr + ph.memsz - 1) : ph \in Range(Programs[i])}
    BY DEF Image
  <2>2. PICK ph \in Range(Programs[i]) : a \in ph.vaddr..(ph.vaddr + ph.memsz - 1)
    BY <2>1
  <2>3. PICK m \in 1..n : ph = Programs[i][m]
    BY <1>2
  <2> QED
    BY <1>5, <2>2, <2>3
<1>7. ASSUME NEW ph \in Range(Programs[i]), a \in ph.vaddr..(ph.vaddr + ph.filesz - 1)
      PROVE  InFile(i, n + 1, a)
  <2>1. PICK j \in 1..n : ph = Programs[i][j]
    BY <1>2
  <2>2. From(i, j) <= a /\ a < FileEnd(i, j) /\ j < n + 1
    BY <1>3, <1>5, <1>7, <2>1
  <2> QED
    BY <2>2 DEF InFile
<1>8. ASSUME InFile(i, n + 1, a)
      PROVE  \E ph \in Range(Programs[i]) : a \in ph.vaddr..(ph.vaddr + ph.filesz - 1)
  <2>1. PICK j \in 1..n : From(i, j) <= a /\ a < FileEnd(i, j)
    BY <1>8 DEF InFile
  <2> PICK ph : ph = Programs[i][j]
    OBVIOUS
  <2>2. ph \in Range(Programs[i])
    BY <1>2
  <2>3. a \in ph.vaddr..(ph.vaddr + ph.filesz - 1)
    BY <1>5, <1>6, <2>1
  <2> QED
    BY <2>2, <2>3
<1>9. InMem(i, n + 1, a)
  BY <1>3, <1>6 DEF InMem
<1>10. Image(i)[a] = IF \E ph \in Range(Programs[i]) : a \in ph.vaddr..(ph.vaddr + ph.filesz - 1) THEN i ELSE Zero
  BY DEF Image
<1> QED
  BY <1>6, <1>7, <1>8, <1>9, <1>10

(* What is in a segment is in the image. *)
LEMMA ImageHas ==
  ASSUME NEW i \in DOMAIN Programs, NEW a \in Nat, InMem(i, Len(Programs[i]) + 1, a)
  PROVE  a \in DOMAIN Image(i)
<1>1. PICK m \in 1..Len(Programs[i]) : From(i, m) <= a /\ a < MemEnd(i, m)
  BY DEF InMem
<1> PICK ph : ph = Programs[i][m]
  OBVIOUS
<1>2. Programs[i] \in Seq(Segment) /\ ph \in Segment /\ ph \in Range(Programs[i])
  <2>1. Programs[i] \in Seq(Segment) /\ m \in DOMAIN Programs[i]
    BY ProgramAssumption
  <2> QED
    BY <2>1 DEF Range
<1>3. ph.vaddr \in Nat /\ ph.memsz \in Nat
  BY <1>2, SegmentTypes
<1>4. a \in ph.vaddr..(ph.vaddr + ph.memsz - 1)
  BY <1>1, <1>3 DEF From, MemEnd
<1> QED
  BY <1>2, <1>4 DEF Image

(* load_program() to its end is one Load; on the way there nothing shows. *)
LEMMA LoadRefines ==
  ASSUME MemoryInv, MemoryInv', CopyInv, ImageInv,
         Stack \/ LoadSegment \/ FirstPage \/ NextPage \/ LastPage \/ CopyFromKernel \/ PlaceArgs
  PROVE  Refines(Views, Views')
<1>1. \E op \in {"stack", "load", "first", "next", "from", "args"} : Doing(op)
  BY DEF Stack, LoadSegment, FirstPage, NextPage, LastPage, CopyFromKernel, PlaceArgs
<1>2. ~Old(todo[1]) /\ todo[1][1] # "answer" /\ pcb \in spaces
  BY <1>1, InHand DEF Old
<1>3. Steps /\ ~Answer
  <2>1. ~Answer
    BY <1>2, InHand DEF Answer
  <2> QED
    BY <2>1 DEF Steps
<1>4. /\ pcb \in Pcbs /\ pcb' = pcb
      /\ \A q \in Pcbs : q # pcb => Views'[q] = Views[q]
  BY <1>3, StepOnlyOf
<1>5. /\ ~Old(todo'[1])
      /\ todo'[1][1] = "answer" => \E i \in DOMAIN Programs : ImageAt(pdir', ptes', data', pcb, i)
  BY ProgramStepImages
<1>6. Views[pcb] = Private!NoSpace
  <2>1. ~Seen(todo, spaces, pcb, pcb)
    BY <1>2 DEF Seen
  <2> QED
    BY <1>4, <2>1, ViewNone DEF Views
<1>7. CASE todo'[1][1] # "answer"
  <2>1. ~Seen(todo', spaces', pcb', pcb)
    BY <1>4, <1>5, <1>7 DEF Seen
  <2>2. View(todo', spaces', pcb', pdir', ptes', data', pcb) = Private!NoSpace
    BY <2>1, ViewNone
  <2>3. Views'[pcb] = Private!NoSpace
    BY <1>4, <2>2 DEF Views
  <2>4. Views' = Views
    <3>1. \A q \in Pcbs : Views'[q] = Views[q]
      BY <1>4, <1>6, <2>3
    <3> QED
      BY <3>1 DEF Views
  <2> QED
    BY <2>4 DEF Refines
<1>8. CASE todo'[1][1] = "answer"
  <2>1. PICK i \in DOMAIN Programs : ImageAt(pdir', ptes', data', pcb, i)
    BY <1>5, <1>8
  <2>2. Seen(todo', spaces', pcb', pcb)
    <3>1. pcb \in spaces'
      BY <1>1, <1>2, InHand DEF Stack, LoadSegment, FirstPage, NextPage, LastPage, CopyFromKernel, PlaceArgs, Maps, Rest
    <3> QED
      BY <1>8, <3>1 DEF Seen
  <2> PICK w : w = View(todo', spaces', pcb', pdir', ptes', data', pcb)
    OBVIOUS
  <2>3. ASSUME NEW a \in DOMAIN Image(i)
        PROVE  PageOf(a) \in DOMAIN w
    <3>1. a \in Nat /\ InMem(i, Len(Programs[i]) + 1, a)
      BY ImageIs
    <3>2. ProgramPage(PageOf(a)) /\ a < High
      BY <3>1, InMemIs
    <3>3. IsMapped(pdir', ptes', pcb, a)
      BY <2>1, <3>1, <3>2 DEF ImageAt, Reached
    <3>4. PageOf(a) \in Nat /\ DirOf(PageOf(a)) \in UserDirs
      BY <3>2, ConstantTypes DEF ProgramPage, UserDirs
    <3> QED
      BY <2>2, <3>3, <3>4, ViewAt DEF IsMapped
  <2>4. ASSUME NEW v \in DOMAIN w \ StackSpace, NEW o \in Offsets
        PROVE  LET a == v * PAGE_SIZE + o
               IN w[v][o] = IF a \in DOMAIN Image(i) THEN Image(i)[a] ELSE 0
    <3> PICK a : a = v * PAGE_SIZE + o
      OBVIOUS
    <3> PICK n : n = Len(Programs[i]) + 1
      OBVIOUS
    <3>1. /\ v \in VPages /\ DirOf(v) \in UserDirs /\ Frame(pdir'[pcb], ptes', v) # None
          /\ w[v] = data'[Frame(pdir'[pcb], ptes', v)]
      BY <2>2 DEF View
    <3>2. ProgramPage(v)
      <4>1. v \in Nat /\ DirOf(v) # KOFFSET - 1
        BY <3>1, UserSpace DEF StackSpace
      <4> QED
        BY <3>1, <4>1, ConstantTypes DEF UserDirs, ProgramPage
    <3>3. a \in Nat /\ PageOf(a) = v /\ OffsetOf(a) = o
      <4> PICK P \in Nat \ {0} : P = PAGE_SIZE
        BY ConstantTypes
      <4>1. v \in Nat /\ o \in 0..(P - 1)
        BY <3>2 DEF ProgramPage, Offsets
      <4>2. a = P * v + o /\ a \in Nat /\ v \in Int
        BY <4>1
      <4>3. a \div P = v /\ a % P = o
        BY ONLY <4>1, <4>2, P \in Nat \ {0}, QuotientIs
      <4> QED
        BY <4>2, <4>3 DEF PageOf, OffsetOf
    <3>4. w[v][o] = IF InFile(i, n, a) /\ a < High THEN i ELSE Zero
      <4>1. IsMapped(pdir', ptes', pcb, a) /\ Byte(pdir', ptes', data', pcb, a) = w[v][o]
        BY <3>1, <3>3 DEF IsMapped, Byte
      <4> QED
        BY <2>1, <3>2, <3>3, <4>1 DEF ImageAt, Filled
    <3>5. InFile(i, n, a) => a < High /\ a \in DOMAIN Image(i)
      BY <3>3, InMemIs, ImageHas
    <3>6. a \in DOMAIN Image(i) => Image(i)[a] = IF InFile(i, n, a) THEN i ELSE Zero
      BY ImageIs
    <3>7. w[v][o] = IF a \in DOMAIN Image(i) THEN Image(i)[a] ELSE 0
      BY <3>4, <3>5, <3>6 DEF Zero
    <3> QED
      BY <3>7
  <2>5. Loaded(w, i)
    BY <2>3, <2>4 DEF Loaded
  <2>6. Views'[pcb] = w
    BY <1>4 DEF Views
  <2> QED
    BY <1>4, <1>6, <2>5, <2>6 DEF Refines
<1> QED
  BY <1>7, <1>8

(* A copy of every page is a copy of the memory. *)
LEMMA CopyView ==
  ASSUME NEW td, NEW S, NEW b, NEW pd, NEW pt, NEW dt, NEW c, NEW p, Seen(td, S, b, c), Seen(td, S, b, p),
         \A v \in Nat : DirOf(v) \in UserDirs => PageCopied(pd, pt, dt, c, p, v)
  PROVE  View(td, S, b, pd, pt, dt, c) = View(td, S, b, pd, pt, dt, p)
<1>1. \A v \in VPages : DirOf(v) \in UserDirs =>
        /\ Frame(pd[c], pt, v) = None <=> Frame(pd[p], pt, v) = None
        /\ Frame(pd[p], pt, v) # None => dt[Frame(pd[c], pt, v)] = dt[Frame(pd[p], pt, v)]
  BY UserSpace DEF PageCopied
<1> DEFINE A == {w \in VPages : DirOf(w) \in UserDirs /\ Frame(pd[c], pt, w) # None}
           B == {w \in VPages : DirOf(w) \in UserDirs /\ Frame(pd[p], pt, w) # None}
<1>2. A = B
  BY <1>1
<1>3. \A v \in A : dt[Frame(pd[c], pt, v)] = dt[Frame(pd[p], pt, v)]
  BY <1>1
<1> HIDE DEF A, B
<1>4. [v \in A |-> dt[Frame(pd[c], pt, v)]] = [v \in B |-> dt[Frame(pd[p], pt, v)]]
  BY <1>2, <1>3
<1> QED
  BY <1>4 DEF View, A, B

(* copy_process() to its end is one Copy; on the way there nothing shows. *)
LEMMA CopyRefines ==
  ASSUME MemoryInv, MemoryInv', CopyInv, ImageInv, CopyTable \/ CopyPage
  PROVE  Refines(Views, Views')
<1>1. \E op \in {"copy_table", "copy"} : Doing(op)
  BY DEF CopyTable, CopyPage
<1>2. ~Old(todo[1]) /\ todo[1][1] # "answer" /\ pcb \in spaces
  BY <1>1, InHand DEF Old
<1>3. Steps /\ ~Answer
  <2>1. ~Answer
    BY <1>2, InHand DEF Answer
  <2> QED
    BY <2>1 DEF Steps
<1>4. /\ pcb \in Pcbs /\ pcb' = pcb
      /\ \A q \in Pcbs : q # pcb => Views'[q] = Views[q]
  BY <1>3, StepOnlyOf
<1> PICK p : p = todo[1][2]
  OBVIOUS
<1>5. /\ ~Old(todo'[1])
      /\ todo'[1][1] = "answer" =>
              /\ CopyTable /\ p \in spaces /\ p # pcb
              /\ \A v \in Nat : DirOf(v) \in UserDirs => PageCopied(pdir', ptes', data', pcb, p, v)
  BY CopyStepImages
<1>6. Views[pcb] = Private!NoSpace
  <2>1. ~Seen(todo, spaces, pcb, pcb)
    BY <1>2 DEF Seen
  <2> QED
    BY <1>4, <2>1, ViewNone DEF Views
<1>7. CASE todo'[1][1] # "answer"
  <2>1. ~Seen(todo', spaces', pcb', pcb)
    BY <1>4, <1>5, <1>7 DEF Seen
  <2>2. View(todo', spaces', pcb', pdir', ptes', data', pcb) = Private!NoSpace
    BY <2>1, ViewNone
  <2>3. Views'[pcb] = Private!NoSpace
    BY <1>4, <2>2 DEF Views
  <2>4. Views' = Views
    <3>1. \A q \in Pcbs : Views'[q] = Views[q]
      BY <1>4, <1>6, <2>3
    <3> QED
      BY <3>1 DEF Views
  <2> QED
    BY <2>4 DEF Refines
<1>8. CASE todo'[1][1] = "answer"
  <2>1. p \in Pcbs /\ p \in spaces /\ p # pcb
    BY <1>5, <1>8 DEF MemoryInv, MapType
  <2>2. Views[p] # Private!NoSpace
    <3>1. Seen(todo, spaces, pcb, p)
      BY <2>1 DEF Seen
    <3>2. HasStack(pdir, ptes, p)
      BY <2>1, <3>1 DEF ImageInv
    <3> QED
      BY <2>1, <3>1, <3>2, ViewSome DEF Views
  <2>3. Seen(todo', spaces', pcb', pcb) /\ Seen(todo', spaces', pcb', p)
    <3>1. spaces' = spaces
      BY <1>5, <1>8 DEF CopyTable, Rest
    <3> QED
      BY <1>2, <1>8, <2>1, <1>4, <3>1 DEF Seen
  <2>4. \A v \in Nat : DirOf(v) \in UserDirs => PageCopied(pdir', ptes', data', pcb, p, v)
    BY <1>5, <1>8
  <2>5. View(todo', spaces', pcb', pdir', ptes', data', pcb) = View(todo', spaces', pcb', pdir', ptes', data', p)
    BY <2>3, <2>4, CopyView
  <2>6. Views'[pcb] = Views[p]
    BY <1>4, <2>1, <2>5 DEF Views
  <2> QED
    BY <1>4, <1>6, <2>1, <2>2, <2>6 DEF Refines
<1> QED
  BY <1>7, <1>8

(* Making room and mapping the kernel does not show; takeback_page() is Drop. *)
LEMMA EarlyRefines ==
  ASSUME MemoryInv, MemoryInv', CopyInv, ImageInv, Clear \/ Kernel \/ Table \/ Takeback
  PROVE  Refines(Views, Views')
<1>1. \E op \in {"clear", "kernel", "table", "takeback"} : Doing(op)
  BY DEF Clear, Kernel, Table, Takeback
<1>2. todo[1][1] \in {"clear", "kernel", "table", "takeback"}
  BY <1>1, InHand
<1>3. Steps /\ ~Answer
  <2>1. ~Answer
    BY <1>2, InHand DEF Answer
  <2> QED
    BY <2>1 DEF Steps
<1>4. /\ pcb \in Pcbs /\ pcb' = pcb
      /\ \A q \in Pcbs : q # pcb => Views'[q] = Views[q]
  BY <1>3, StepOnlyOf
<1>5. CASE Clear \/ Kernel \/ Table
  <2>1. ~Old(todo[1]) /\ todo[1][1] # "answer"
    BY <1>5, InHand DEF Old, Clear, Kernel, Table
  <2>2. ~Old(todo'[1]) /\ todo'[1][1] # "answer"
    BY <1>5, EarlyStepImages
  <2>3. ~Seen(todo, spaces, pcb, pcb) /\ ~Seen(todo', spaces', pcb', pcb)
    BY <1>4, <2>1, <2>2 DEF Seen
  <2>4. View(todo', spaces', pcb', pdir', ptes', data', pcb) = View(todo, spaces, pcb, pdir, ptes, data, pcb)
    BY <2>3, ViewNone
  <2>5. Views' = Views
    <3>1. \A q \in Pcbs : Views'[q] = Views[q]
      BY <1>4, <2>4 DEF Views
    <3> QED
      BY <3>1 DEF Views
  <2> QED
    BY <2>5 DEF Refines
<1>6. CASE Takeback
  <2>1. Doing("takeback") /\ spaces' = spaces \ {pcb}
    BY <1>6 DEF Takeback
  <2>2. Seen(todo, spaces, pcb, pcb) /\ ~Seen(todo', spaces', pcb', pcb)
    BY <2>1, InHand DEF Seen, Old
  <2>3. HasStack(pdir, ptes, pcb)
    BY <1>4, <2>2 DEF ImageInv
  <2>4. Views[pcb] # Private!NoSpace
    BY <1>4, <2>2, <2>3, ViewSome DEF Views
  <2>5. View(todo', spaces', pcb', pdir', ptes', data', pcb) = Private!NoSpace
    BY <2>2, ViewNone
  <2>6. Views'[pcb] = Private!NoSpace
    BY <1>4, <2>5 DEF Views
  <2> QED
    BY <1>4, <2>4, <2>6 DEF Refines
<1> QED
  BY <1>5, <1>6

(* Nothing shows where no page changes. *)
LEMMA Untouched ==
  ASSUME UNCHANGED <<pdir, ptes, data>>,
         \A q \in Pcbs : Seen(todo', spaces', pcb', q) <=> Seen(todo, spaces, pcb, q)
  PROVE  Refines(Views, Views')
<1>1. ASSUME NEW q \in Pcbs
      PROVE  View(todo', spaces', pcb', pdir', ptes', data', q) = View(todo, spaces, pcb, pdir, ptes, data, q)
  <2>1. SameView(pdir, ptes, data, pdir', ptes', data', q)
    BY DEF SameView
  <2> QED
    BY <2>1, ViewSame
<1>2. Views' = Views
  BY <1>1 DEF Views
<1> QED
  BY <1>2 DEF Refines

(* Requests, answers and the string of exec() do not show. *)
LEMMA QuietRefines ==
  ASSUME MemoryInv, MemoryInv', CopyInv, ImageInv, Requests \/ Answer \/ StrlenUserString \/ CopyToKernel
  PROVE  Refines(Views, Views')
<1>1. CASE Requests
  BY <1>1, RequestHead, RequestSees, Untouched
<1>2. CASE Answer
  <2>1. Doing("answer") /\ pcb' = None /\ UNCHANGED <<pdir, ptes, data, spaces>>
    BY <1>2 DEF Answer
  <2>2. todo[1][1] = "answer" /\ None \notin Pcbs
    BY <2>1, InHand, MemoryAssumption
  <2>3. \A q \in Pcbs : Seen(todo', spaces', pcb', q) <=> Seen(todo, spaces, pcb, q)
    BY <2>1, <2>2 DEF Seen
  <2> QED
    BY <2>1, <2>3, Untouched
<1>3. CASE StrlenUserString \/ CopyToKernel
  <2>1. /\ UNCHANGED <<pdir, ptes, data, spaces, pcb>> /\ Old(todo[1]) /\ (Old(todo'[1]) \/ todo'[1][1] = "answer")
    BY <1>3, FetchImages
  <2>2. \A q \in Pcbs : Seen(todo', spaces', pcb', q) <=> Seen(todo, spaces, pcb, q)
    BY <2>1 DEF Seen
  <2> QED
    BY <2>1, <2>2, Untouched
<1> QED
  BY <1>1, <1>2, <1>3

(* A frame is in the tables of a process once. *)
LEMMA OnePageOnly ==
  ASSUME MemoryInv, NEW p \in spaces, NEW v \in Nat, DirOf(v) \in UserDirs, NEW w \in Nat, DirOf(w) \in UserDirs,
         Frame(pdir[p], ptes, v) # None, Frame(pdir[p], ptes, w) = Frame(pdir[p], ptes, v)
  PROVE  w = v
<1>1. DirOf(w) = DirOf(v) /\ EntryOf(w) = EntryOf(v)
  BY UserPage DEF MemoryInv, Exact
<1>2. NR_PTE \in Nat \ {0}
  BY ConstantTypes
<1>3. v = DirOf(v) * NR_PTE + EntryOf(v) /\ w = DirOf(w) * NR_PTE + EntryOf(w)
  BY <1>2 DEF DirOf, EntryOf
<1> QED
  BY <1>1, <1>3

(* What a process writes, it writes to its own memory. *)
LEMMA WriteRefines ==
  ASSUME UserWrites, MemoryInv, CopyInv, NEW p \in Pcbs, NEW a \in WriteAddrs, Write(p, a)
  PROVE  Refines(Views, Views')
<1>1. p \in spaces /\ ~Sleeping(p) /\ UNCHANGED <<pdir, ptes, todo, spaces, pcb>>
  BY DEF Write, Rest
<1> PICK v : v = PageOf(a)
  OBVIOUS
<1> PICK o : o = OffsetOf(a)
  OBVIOUS
<1> PICK f : f = Frame(pdir[p], ptes, v)
  OBVIOUS
<1>2. f # None /\ data' = [data EXCEPT ![f][o] = Stored]
  BY DEF Write
<1>3. v \in Nat /\ DirOf(v) \in UserDirs
  BY AddressAssumption, AnyAddress DEF UserWrites
<1>4. o \in Offsets
  <2>1. a \in Nat /\ PAGE_SIZE \in Nat \ {0}
    BY AddressAssumption, AnyAddress, ConstantTypes
  <2> QED
    BY <2>1 DEF OffsetOf, Offsets
<1>5. p # pcb
  BY <1>1, MemoryAssumption DEF Sleeping
<1>6. Seen(todo, spaces, pcb, p)
  BY <1>1, <1>5 DEF Seen
<1>7. ASSUME NEW q \in Pcbs, q # p
      PROVE  Views'[q] = Views[q]
  <2>1. Seen(todo, spaces, pcb, q) => SameView(pdir, ptes, data, pdir, ptes, data', q)
    BY <1>7, WriteView DEF Seen
  <2>2. View(todo, spaces, pcb, pdir, ptes, data', q) = View(todo, spaces, pcb, pdir, ptes, data, q)
    BY <2>1, ViewSame
  <2> QED
    BY <1>1, <2>2 DEF Views
<1> DEFINE A == {w \in VPages : DirOf(w) \in UserDirs /\ Frame(pdir[p], ptes, w) # None}
<1>8. Views[p] = [w \in A |-> data[Frame(pdir[p], ptes, w)]] /\ Views'[p] = [w \in A |-> data'[Frame(pdir[p], ptes, w)]]
  BY <1>1, <1>6 DEF Views, View
<1>9. v \in A
  BY <1>2, <1>3, UserSpace
<1> PICK new : new = [data[f] EXCEPT ![o] = Stored]
  OBVIOUS
<1>10. data'[f] = new /\ \A g : g # f => data'[g] = data[g]
  <2>1. f \in AllFrames
    BY <1>1, <1>2, <1>3, UserPage DEF AllFrames
  <2>2. data = [g \in AllFrames |-> data[g]]
    BY DEF CopyInv
  <2>3. data' = [data EXCEPT ![f] = new]
    BY <1>2
  <2> QED
    BY ONLY <2>1, <2>2, <2>3
<1>11. \A w \in A : w # v => Frame(pdir[p], ptes, w) # f
  BY <1>1, <1>2, <1>3, UserSpace, OnePageOnly
<1> PICK m : m = [w \in A |-> data[Frame(pdir[p], ptes, w)]]
  OBVIOUS
<1> HIDE DEF A
<1>12. \A w \in A : data'[Frame(pdir[p], ptes, w)] = IF w = v THEN new ELSE m[w]
  BY <1>10, <1>11
<1>13. m[v] = data[f] /\ DOMAIN m = A
  BY <1>9
<1>14. [w \in A |-> data'[Frame(pdir[p], ptes, w)]] = [m EXCEPT ![v] = new]
  BY <1>9, <1>12
<1>15. [m EXCEPT ![v][o] = Stored] = [m EXCEPT ![v] = new]
  BY <1>13
<1>16. Views'[p] = [Views[p] EXCEPT ![v][o] = Stored] /\ v \in DOMAIN Views[p]
  BY <1>8, <1>9, <1>13, <1>14, <1>15
<1>17. \E u \in DOMAIN Views[p], b \in Offsets : Views'[p] = [Views[p] EXCEPT ![u][b] = Stored]
  BY ONLY <1>4, <1>16, Zenon
<1>18. \A q \in Pcbs : q # p => Views'[q] = Views[q]
  BY <1>7
<1> QED
  BY ONLY p \in Pcbs, <1>17, <1>18, Zenon DEF Refines

(* Every step is a step of AddressSpaces, or does not show. *)
LEMMA StepRefines ==
  ASSUME UserWrites, MemoryInv, MemoryInv', CopyInv, ImageInv, [MNext]_mvars
  PROVE  ImageInv' /\ Refines(Views, Views')
<1>1. CASE Stack \/ LoadSegment \/ FirstPage \/ NextPage \/ LastPage \/ CopyFromKernel \/ PlaceArgs
  BY <1>1, ProgramStepImages, LoadRefines
<1>2. CASE CopyTable \/ CopyPage
  BY <1>2, CopyStepImages, CopyRefines
<1>3. CASE Clear \/ Kernel \/ Table \/ Takeback
  BY <1>3, EarlyStepImages, EarlyRefines
<1>4. CASE Requests \/ Answer \/ StrlenUserString \/ CopyToKernel
  BY <1>4, RequestImages, AnswerImages, FetchImages, QuietRefines
<1>5. ASSUME NEW p \in Pcbs, NEW a \in WriteAddrs, Write(p, a)
      PROVE  ImageInv' /\ Refines(Views, Views')
  BY <1>5, WriteImages, WriteRefines
<1>6. CASE UNCHANGED mvars
  <2>1. UNCHANGED <<pdir, ptes, data, todo, spaces, pcb>>
    BY <1>6 DEF mvars
  <2>2. ImageInv'
    BY <2>1, SMTT(60) DEF ImageInv, Seen, Planned, Loading, Copying, HasStack, SegmentRead, Filled, Reached, Reads, Within,
                ImageAt, PageCopied
  <2> QED
    BY <2>1, <2>2, Untouched
<1> QED
  BY <1>1, <1>2, <1>3, <1>4, <1>5, <1>6 DEF MNext, Steps

(* Nobody has a memory at the beginning. *)
LEMMA ViewsInit == ASSUME MInit PROVE Private!AInit
<1>1. spaces = {}
  BY DEF MInit
<1>2. \A p \in Pcbs : MemoryOf(p) = Private!NoSpace
  BY <1>1 DEF MemoryOf, Complete, Private!NoSpace
<1> QED
  BY <1>2 DEF Private!AInit

(* The frames, tables and the bitmap implement AddressSpaces: load_program() to
   its end gives a process the bytes of its file and zeros, but for the stack,
   which is not cleared; copy_process() gives it the memory of its parent as it is
   at the end, takeback_page() takes all of it, and what a process writes to its
   own memory changes that of no other. *)
THEOREM MemoryIsPrivate == ASSUME UserWrites PROVE MSpec => PrivateMemory
<1>1. MInit => ImageInv /\ Private!AInit
  BY ImageInit, ViewsInit
<1>2. MemoryInv /\ MemoryInv' /\ CopyInv /\ ImageInv /\ [MNext]_mvars
        => ImageInv' /\ [Private!ANext]_[p \in Pcbs |-> MemoryOf(p)]
  BY StepRefines, AbstractStep
<1>3. MSpec => []MemoryInv /\ []CopyInv
  BY MemoryHolds, CopiesHold, PTL
<1> QED
  BY <1>1, <1>2, <1>3, PTL DEF MSpec, PrivateMemory, Private!ASpec
=============================================================================
