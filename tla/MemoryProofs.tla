---------------------------- MODULE MemoryProofs ----------------------------
(***************************************************************************)
(* Proofs about Memory: the bitmap marks exactly the frames the page       *)
(* tables of the processes lead to, each of them in one place only, and    *)
(* every process that may run has the kernel mapped; the copies between    *)
(* kernel and process stay in bounds and deliver the arguments of exec().  *)
(***************************************************************************)
EXTENDS Memory, ListsProofs

AllFrames == KernelFrames \cup PoolFrames
LowDirs   == 0..(KOFFSET - 1)
Marked    == {KERNEL_MEM + i : i \in Busy(page_bitmap)}
-----------------------------------------------------------------------------
(* Numbers. *)

(* Division with rest, and that there is only one way to do it. *)
LEMMA Division ==
  ASSUME NEW n \in Nat \ {0}, NEW a \in Nat
  PROVE  /\ a \div n \in Nat /\ a % n \in 0..(n - 1)
         /\ a = n * (a \div n) + (a % n)
OBVIOUS

(* Quotient and remainder are unique. *)
LEMMA DivisionUnique ==
  ASSUME NEW n \in Nat \ {0}, NEW q \in Int, NEW r \in 0..(n - 1), NEW c \in Int, NEW s \in 0..(n - 1),
         n * q + r = n * c + s
  PROVE  q = c /\ r = s
<1>1. CASE q < c
  <2>1. n * (c - q) >= n
    BY <1>1
  <2>2. n * (c - q) = n * c - n * q
    OBVIOUS
  <2> QED
    BY <2>1, <2>2
<1>2. CASE c < q
  <2>1. n * (q - c) >= n
    BY <1>2
  <2>2. n * (q - c) = n * q - n * c
    OBVIOUS
  <2> QED
    BY <2>1, <2>2
<1>3. CASE q = c
  BY <1>3
<1> QED
  BY <1>1, <1>2, <1>3

(* A number with its quotient and remainder in hand. *)
LEMMA QuotientIs ==
  ASSUME NEW n \in Nat \ {0}, NEW a \in Nat, NEW q \in Int, NEW r \in 0..(n - 1), a = n * q + r
  PROVE  a \div n = q /\ a % n = r
<1> DEFINE c == a \div n
           s == a % n
<1>1. c \in Nat /\ s \in 0..(n - 1) /\ a = n * c + s
  BY ONLY n \in Nat \ {0}, a \in Nat, Division, Zenon
<1> HIDE DEF c, s
<1>2. n * c + s = n * q + r /\ c \in Int
  BY <1>1
<1>3. c = q /\ s = r
  BY ONLY <1>1, <1>2, n \in Nat \ {0}, q \in Int, r \in 0..(n - 1), DivisionUnique, Zenon
<1> QED
  BY <1>3 DEF c, s

(* Below and above a multiple. *)
LEMMA DivisionBounds ==
  ASSUME NEW n \in Nat \ {0}, NEW a \in Nat, NEW k \in Int
  PROVE  a < k * n <=> a \div n < k
<1> DEFINE q == a \div n
           r == a % n
<1>1. q \in Nat /\ r \in 0..(n - 1) /\ a = n * q + r
  BY Division
<1> HIDE DEF q, r
<1>2. CASE q < k
  <2>1. n * (k - q) >= n
    BY <1>1, <1>2
  <2>2. n * (k - q) = k * n - n * q
    BY <1>1
  <2> QED
    BY <1>1, <1>2, <2>1, <2>2 DEF q
<1>3. CASE q >= k
  <2>1. n * (q - k) >= 0
    BY <1>1, <1>3
  <2>2. n * (q - k) = n * q - k * n
    BY <1>1
  <2> QED
    BY <1>1, <1>3, <2>1, <2>2 DEF q
<1> QED
  BY <1>1, <1>2, <1>3

(* Division keeps the order. *)
LEMMA DivisionMonotone ==
  ASSUME NEW n \in Nat \ {0}, NEW a \in Nat, NEW b \in Nat, a <= b
  PROVE  /\ a \div n <= b \div n
         /\ a \div n = b \div n => a % n <= b % n
<1>1. a \div n \in Nat /\ a % n \in 0..(n - 1) /\ a = n * (a \div n) + (a % n)
  BY Division
<1>2. b \div n \in Nat /\ b % n \in 0..(n - 1) /\ b = n * (b \div n) + (b % n)
  BY Division
<1>3. a < ((a \div n) + 1) * n /\ b < ((b \div n) + 1) * n
  BY <1>1, <1>2, DivisionBounds
<1>4. a < ((b \div n) + 1) * n
  BY <1>1, <1>2, <1>3
<1>5. a \div n < (b \div n) + 1
  BY <1>1, <1>2, <1>4, DivisionBounds
<1> QED
  BY <1>1, <1>2, <1>5

(* The next number is in the next place, or in the first of the next row. *)
LEMMA DivisionNext ==
  ASSUME NEW n \in Nat \ {0}, NEW a \in Nat
  PROVE  /\ (a + 1) % n = 0 => (a + 1) \div n = (a \div n) + 1 /\ a % n = n - 1
         /\ (a + 1) % n # 0 => (a + 1) \div n = a \div n /\ (a + 1) % n = (a % n) + 1
<1> DEFINE q == a \div n
           r == a % n
           c == (a + 1) \div n
           s == (a + 1) % n
<1>1. q \in Nat /\ r \in 0..(n - 1) /\ a = n * q + r
  BY Division
<1>2. c \in Nat /\ s \in 0..(n - 1) /\ a + 1 = n * c + s
  BY Division, a + 1 \in Nat
<1> HIDE DEF q, r, c, s
<1>3. CASE s = 0
  <2>1. n * c = n * (c - 1) + n /\ c - 1 \in Int /\ n - 1 \in 0..(n - 1)
    BY <1>2
  <2>2. n * (c - 1) + (n - 1) = n * q + r
    BY <1>1, <1>2, <1>3, <2>1
  <2>3. c - 1 = q /\ n - 1 = r
    <3> PICK d \in Int : d = c - 1
      BY <2>1
    <3> PICK m \in 0..(n - 1) : m = n - 1
      BY <2>1
    <3>1. n * d + m = n * q + r
      BY <2>2
    <3>2. q \in Int /\ r \in 0..(n - 1)
      BY <1>1
    <3>3. d = q /\ m = r
      BY ONLY <3>1, <3>2, n \in Nat \ {0}, d \in Int, m \in 0..(n - 1), DivisionUnique, Zenon
    <3> QED
      BY <3>3
  <2> QED
    BY <1>1, <1>2, <1>3, <2>3 DEF q, r, c, s
<1>4. CASE s # 0
  <2>1. s - 1 \in 0..(n - 1) /\ n * c + (s - 1) = n * q + r
    BY <1>1, <1>2, <1>4
  <2>2. c = q /\ s - 1 = r
    BY <1>1, <1>2, <2>1, DivisionUnique
  <2> QED
    BY <1>1, <1>2, <1>4, <2>2 DEF q, r, c, s
<1> QED
  BY <1>3, <1>4
-----------------------------------------------------------------------------
(* Pages. *)

(* The constants, and what follows from the assumptions on them. *)
LEMMA ConstantTypes ==
  /\ PAGE_SIZE \in Nat \ {0} /\ NR_PTE \in Nat \ {0} /\ NR_PDE \in Nat \ {0}
  /\ KERNEL_DIRS \in Nat \ {0} /\ KOFFSET \in Nat /\ KOFFSET = NR_PDE - KERNEL_DIRS
  /\ KOFFSET >= KERNEL_DIRS + 2
  /\ KERNEL_MEM \in Nat \ {0} /\ NR_PAGES \in Nat \ {0} /\ NR_STACK \in 1..NR_PTE
<1>1. /\ PAGE_SIZE \in Nat \ {0} /\ NR_PTE \in Nat \ {0} /\ NR_PDE \in Nat \ {0}
      /\ KERNEL_DIRS \in Nat \ {0} /\ 2 * KERNEL_DIRS + 2 <= NR_PDE
      /\ NR_PAGES \in Nat \ {0} /\ NR_STACK \in 1..NR_PTE
  BY PagingAssumption, MemoryAssumption
<1>2. KERNEL_DIRS * NR_PTE \in Nat \ {0}
  BY <1>1
<1> QED
  BY <1>1, <1>2 DEF KOFFSET, KERNEL_MEM

(* Where a page is in the tables, and where the next one is. *)
LEMMA PlaceOfPage ==
  ASSUME NEW v \in Nat
  PROVE  /\ DirOf(v) \in Nat /\ EntryOf(v) \in Entries /\ EntryOf(v) \in Nat /\ EntryOf(v) < NR_PTE
         /\ EntryOf(v + 1) = 0 => DirOf(v + 1) = DirOf(v) + 1 /\ EntryOf(v) = NR_PTE - 1
         /\ EntryOf(v + 1) # 0 => DirOf(v + 1) = DirOf(v) /\ EntryOf(v + 1) = EntryOf(v) + 1
<1>1. NR_PTE \in Nat \ {0}
  BY ConstantTypes
<1>2. v \div NR_PTE \in Nat /\ v % NR_PTE \in 0..(NR_PTE - 1)
  BY <1>1, Division
<1>3. /\ (v + 1) % NR_PTE = 0 => (v + 1) \div NR_PTE = (v \div NR_PTE) + 1 /\ v % NR_PTE = NR_PTE - 1
      /\ (v + 1) % NR_PTE # 0 => (v + 1) \div NR_PTE = v \div NR_PTE /\ (v + 1) % NR_PTE = (v % NR_PTE) + 1
  BY ONLY <1>1, v \in Nat, DivisionNext, Zenon
<1> QED
  BY <1>1, <1>2, <1>3 DEF DirOf, EntryOf, Entries

(* The order of the pages. *)
LEMMA OrderOfPages ==
  ASSUME NEW v \in Nat, NEW w \in Nat, v <= w
  PROVE  DirOf(v) <= DirOf(w) /\ (DirOf(v) = DirOf(w) => EntryOf(v) <= EntryOf(w))
<1>1. NR_PTE \in Nat \ {0}
  BY ConstantTypes
<1> QED
  BY <1>1, DivisionMonotone DEF DirOf, EntryOf

(* The stack has the last pages in front of KOFFSET, all in one table. *)
LEMMA StackPages ==
  /\ PageOf(StackTop) \in Nat /\ PageOf(StackTop) = KOFFSET * NR_PTE - 1
  /\ \A v \in (PageOf(StackTop) - NR_STACK + 1)..PageOf(StackTop) :
       /\ v \in Nat /\ DirOf(v) = KOFFSET - 1 /\ EntryOf(v) \in Entries
       /\ EntryOf(v) = v - (KOFFSET - 1) * NR_PTE
<1> DEFINE P == KOFFSET * NR_PTE
<1>1. /\ PAGE_SIZE \in Nat \ {0} /\ NR_PTE \in Nat \ {0} /\ KOFFSET \in Nat /\ KOFFSET >= 2
      /\ NR_STACK \in 1..NR_PTE
  BY ConstantTypes
<1>2. P \in Nat /\ P >= NR_PTE /\ (KOFFSET - 1) * NR_PTE = P - NR_PTE /\ (KOFFSET - 1) * NR_PTE >= 0
  BY <1>1
<1> HIDE DEF P
<1>3. PageOf(StackTop) = P - 1
  <2> DEFINE a == P * PAGE_SIZE - 1
  <2>1. P * PAGE_SIZE >= PAGE_SIZE /\ P * PAGE_SIZE \in Nat
    BY <1>1, <1>2
  <2>2. a \in Nat /\ a = PAGE_SIZE * (P - 1) + (PAGE_SIZE - 1)
    BY <1>1, <1>2, <2>1
  <2>3. /\ a \div PAGE_SIZE \in Nat /\ a % PAGE_SIZE \in 0..(PAGE_SIZE - 1)
        /\ a = PAGE_SIZE * (a \div PAGE_SIZE) + (a % PAGE_SIZE)
    BY <1>1, <2>2, Division
  <2>4. StackTop = a
    BY DEF StackTop, P
  <2> HIDE DEF a
  <2> DEFINE q == a \div PAGE_SIZE
             r == a % PAGE_SIZE
             c == P - 1
             d == PAGE_SIZE - 1
  <2>5. q \in Int /\ r \in 0..(PAGE_SIZE - 1) /\ c \in Int /\ d \in 0..(PAGE_SIZE - 1)
        /\ PAGE_SIZE * q + r = PAGE_SIZE * c + d
    BY <1>1, <1>2, <2>2, <2>3
  <2> HIDE DEF q, r, c, d
  <2>6. q = c
    BY ONLY <1>1, <2>5, DivisionUnique, Zenon
  <2> QED
    BY <2>4, <2>6 DEF PageOf, q, c
<1>4. PageOf(StackTop) \in Nat /\ PageOf(StackTop) = KOFFSET * NR_PTE - 1
  BY <1>1, <1>2, <1>3 DEF P
<1>5. ASSUME NEW v \in (P - NR_STACK)..(P - 1)
      PROVE  /\ v \in Nat /\ DirOf(v) = KOFFSET - 1 /\ EntryOf(v) \in Entries
             /\ EntryOf(v) = v - (KOFFSET - 1) * NR_PTE
  <2> DEFINE q == v \div NR_PTE
             r == v % NR_PTE
             c == KOFFSET - 1
             d == v - (KOFFSET - 1) * NR_PTE
  <2>1. v \in Nat /\ d \in 0..(NR_PTE - 1) /\ c \in Int
    BY <1>1, <1>2
  <2>2. q \in Nat /\ r \in 0..(NR_PTE - 1) /\ v = NR_PTE * q + r
    BY <1>1, <2>1, Division
  <2>3. v = NR_PTE * c + d
    BY <1>1, <2>1
  <2>4. /\ NR_PTE \in Nat \ {0} /\ q \in Int /\ r \in 0..(NR_PTE - 1) /\ c \in Int /\ d \in 0..(NR_PTE - 1)
        /\ NR_PTE * q + r = NR_PTE * c + d
    BY <1>1, <2>1, <2>2, <2>3
  <2> HIDE DEF q, r, c, d
  <2>5. q = c /\ r = d
    BY ONLY <2>4, DivisionUnique, SMT
  <2>6. DirOf(v) = c /\ EntryOf(v) = d
    BY <2>5 DEF DirOf, EntryOf, q, r
  <2>7. EntryOf(v) \in Entries
    BY <2>1, <2>6 DEF Entries
  <2> QED
    BY ONLY <2>1, <2>6, <2>7 DEF c, d
<1> QED
  BY <1>1, <1>2, <1>3, <1>4, <1>5

\* Pages of programs are between the kernel and the table of the stack.
ProgramPage(v) == v \in Nat /\ DirOf(v) \in KERNEL_DIRS..(KOFFSET - 2)

Start(i, k)  == PageOf(Programs[i][k].vaddr)
ToLoad(i, k) == {m \in k..Len(Programs[i]) : Programs[i][m].memsz > 0}

(* A range of addresses that is not empty ends in the page that load_segment()
   makes last. *)
LEMMA RestPagesProperties ==
  ASSUME NEW ph \in Segment, ph.memsz > 0
  PROVE  /\ RestPages(ph) \in Nat /\ PageOf(ph.vaddr) \in Nat
         /\ PageOf(ph.vaddr) + RestPages(ph) = PageOf(ph.vaddr + ph.memsz - 1)
<1> DEFINE P == PAGE_SIZE
           a == ph.vaddr
           m == ph.memsz
           q == a \div P
           o == a % P
           room == P - o
           rest == IF room < m THEN m - room ELSE 0
           x == rest + P - 1
           R == x \div P
           s == x % P
           b == a + m - 1
           u == b \div P
           w == b % P
<1>1. P \in Nat \ {0}
  BY ConstantTypes
<1>2. a \in Nat /\ m \in Nat /\ m > 0
  BY DEF Segment, Addrs
<1> HIDE DEF P, a, m
<1>3. q \in Nat /\ o \in 0..(P - 1) /\ a = P * q + o
  BY <1>1, <1>2, Division
<1> HIDE DEF q, o
<1>4. x \in Nat /\ b \in Nat /\ rest \in Nat
  BY <1>1, <1>2, <1>3
<1>5. R \in Nat /\ s \in 0..(P - 1) /\ x = P * R + s
  BY <1>1, <1>4, Division
<1>6. u \in Nat /\ w \in 0..(P - 1) /\ b = P * u + w
  BY <1>1, <1>4, Division
<1> HIDE DEF R, s, u, w
<1>7. q + R = u
  <2>1. CASE room < m
    <3>1. b = P * q + x
      BY <1>1, <1>2, <1>3, <2>1
    <3>2. P * (q + R) = P * q + P * R
      BY <1>1, <1>3, <1>5
    <3> DEFINE k == q + R
    <3>3. P * k + s = b /\ k \in Int
      BY <1>1, <1>3, <1>4, <1>5, <3>1, <3>2
    <3>4. P \in Nat \ {0} /\ b \in Nat /\ b = P * k + s /\ k \in Int /\ s \in 0..(P - 1)
      BY <1>1, <1>4, <1>5, <3>3
    <3> HIDE DEF b, k
    <3>5. b \div P = k
      BY ONLY <3>4, QuotientIs, Zenon
    <3> QED
      BY <3>5 DEF u, k
  <2>2. CASE ~(room < m)
    <3>1. x = P * 0 + (P - 1) /\ P - 1 \in 0..(P - 1)
      BY <1>1, <1>3, <1>4, <2>2
    <3>2. R = 0
      <4> PICK z \in 0..(P - 1) : z = P - 1
        BY <3>1
      <4>1. P * R + s = P * 0 + z /\ R \in Int /\ 0 \in Int
        BY <1>5, <3>1
      <4> QED
        BY ONLY <1>1, <1>5, <4>1, z \in 0..(P - 1), DivisionUnique, SMT
    <3> PICK z \in 0..(P - 1) : z = o + m - 1
      BY <1>1, <1>2, <1>3, <2>2
    <3>3. /\ P \in Nat \ {0} /\ P * q + z = P * u + w /\ q \in Int /\ u \in Int
          /\ z \in 0..(P - 1) /\ w \in 0..(P - 1)
      BY <1>1, <1>2, <1>3, <1>4, <1>6
    <3>4. q = u
      BY ONLY <3>3, DivisionUnique
    <3> QED
      BY <1>3, <3>2, <3>4
  <2> QED
    BY <2>1, <2>2
<1>8. RestPages(ph) = R
  <2>1. ph.memsz - (IF P - o < m THEN P - o ELSE m) = rest
    BY <1>1, <1>2, <1>3 DEF m
  <2>2. RestPages(ph) = (ph.memsz - (IF P - o < m THEN P - o ELSE m) + P - 1) \div P
    BY DEF RestPages, OffsetOf, o, a, m, P
  <2> QED
    BY <2>1, <2>2 DEF R
<1> QED
  BY <1>3, <1>5, <1>7, <1>8 DEF PageOf, q, u, a, m, P

(* Addresses between two multiples of the page size are in pages between them. *)
LEMMA ProgramAddress ==
  ASSUME NEW a \in Nat, a >= KERNEL_MEM * PAGE_SIZE, a < (KOFFSET - 1) * NR_PTE * PAGE_SIZE
  PROVE  ProgramPage(PageOf(a))
<1>1. /\ PAGE_SIZE \in Nat \ {0} /\ NR_PTE \in Nat \ {0} /\ KERNEL_DIRS \in Nat /\ KOFFSET \in Nat
      /\ KERNEL_MEM \in Nat /\ KOFFSET >= 2
  BY ConstantTypes
<1> DEFINE v == a \div PAGE_SIZE
           T == (KOFFSET - 1) * NR_PTE
<1>2. v \in Nat
  BY <1>1, Division
<1>3. T \in Int
  BY <1>1
<1>4. a < T * PAGE_SIZE /\ ~(a < KERNEL_MEM * PAGE_SIZE)
  BY <1>1
<1> HIDE DEF T
<1>5. v < T /\ ~(v < KERNEL_MEM)
  BY <1>1, <1>3, <1>4, DivisionBounds
<1> HIDE DEF v
<1>6. v < (KOFFSET - 1) * NR_PTE /\ ~(v < KERNEL_DIRS * NR_PTE)
  BY <1>5 DEF T, KERNEL_MEM
<1>7. v \div NR_PTE < KOFFSET - 1 /\ ~(v \div NR_PTE < KERNEL_DIRS)
  BY <1>1, <1>2, <1>6, DivisionBounds
<1>8. v \div NR_PTE \in Nat
  BY <1>1, <1>2, Division
<1>9. DirOf(v) \in KERNEL_DIRS..(KOFFSET - 2)
  BY <1>1, <1>7, <1>8 DEF DirOf
<1> QED
  BY <1>2, <1>9 DEF ProgramPage, PageOf, v

(* The segments of a program. *)
LEMMA SegmentTypes ==
  ASSUME NEW ph \in Segment
  PROVE  ph.vaddr \in Nat /\ ph.memsz \in Nat /\ ph.filesz \in Nat
<1>1. NR_PDE * NR_PTE * PAGE_SIZE \in Nat
  BY ConstantTypes
<1>2. \A x \in Addrs : x \in Nat
  BY <1>1 DEF Addrs
<1> QED
  BY <1>2 DEF Segment

(* The pages of a segment are pages of programs, and in front of the segments
   after it. *)
LEMMA SegmentPages ==
  ASSUME NEW i \in DOMAIN Programs, NEW k \in 1..Len(Programs[i]), Programs[i][k].memsz > 0
  PROVE  /\ RestPages(Programs[i][k]) \in Nat
         /\ ProgramPage(Start(i, k)) /\ ProgramPage(Start(i, k) + RestPages(Programs[i][k]))
         /\ \A m \in ToLoad(i, k + 1) : Start(i, k) + RestPages(Programs[i][k]) <= Start(i, m)
<1>1. Programs \in Seq(Seq(Segment)) /\ Programs[i] \in Seq(Segment) /\ DOMAIN Programs[i] = 1..Len(Programs[i])
  BY ProgramAssumption
<1>2. PAGE_SIZE \in Nat \ {0} /\ KERNEL_MEM * PAGE_SIZE \in Nat /\ (KOFFSET - 1) * NR_PTE * PAGE_SIZE \in Int
  BY ConstantTypes
<1> DEFINE ph == Programs[i][k]
           b == ph.vaddr + ph.memsz - 1
<1>3. ph \in Segment /\ ph.vaddr \in Nat /\ ph.memsz \in Nat /\ b \in Nat /\ b >= ph.vaddr
  <2>1. ph \in Segment
    BY <1>1
  <2>2. ph.vaddr \in Nat /\ ph.memsz \in Nat
    BY <2>1, SegmentTypes
  <2> QED
    BY <2>1, <2>2
<1>4. ph.vaddr >= KERNEL_MEM * PAGE_SIZE /\ ph.vaddr + ph.memsz <= (KOFFSET - 1) * NR_PTE * PAGE_SIZE
  BY <1>1, ProgramAssumption
<1>5. ph.vaddr < (KOFFSET - 1) * NR_PTE * PAGE_SIZE /\ b >= KERNEL_MEM * PAGE_SIZE /\ b < (KOFFSET - 1) * NR_PTE * PAGE_SIZE
  BY <1>2, <1>3, <1>4, SMTT(60)
<1>6. ProgramPage(PageOf(ph.vaddr)) /\ ProgramPage(PageOf(b))
  <2> HIDE DEF b, ph
  <2> QED
    BY <1>3, <1>4, <1>5, ProgramAddress
<1>7. RestPages(ph) \in Nat /\ PageOf(ph.vaddr) + RestPages(ph) = PageOf(b)
  <2> HIDE DEF ph
  <2> QED
    BY <1>3, RestPagesProperties, Programs[i][k].memsz > 0 DEF ph
<1>8. ASSUME NEW m \in ToLoad(i, k + 1)
      PROVE  PageOf(b) <= Start(i, m)
  <2> DEFINE hi == Programs[i][m]
  <2>1. m \in 1..Len(Programs[i]) /\ k \in 1..(m - 1) /\ hi.memsz > 0
    BY <1>1 DEF ToLoad
  <2>2. ph.vaddr + ph.memsz <= hi.vaddr
    BY <1>1, <2>1, ProgramAssumption
  <2>3. hi \in Segment
    BY <1>1, <2>1
  <2>4. hi.vaddr \in Nat
    BY <2>3, SegmentTypes
  <2>5. b <= hi.vaddr
    BY <1>3, <2>2, <2>4, SMTT(60)
  <2> HIDE DEF hi, b
  <2> QED
    BY <1>2, <1>3, <2>4, <2>5, DivisionMonotone DEF PageOf, Start, hi
<1> QED
  BY <1>6, <1>7, <1>8 DEF Start
-----------------------------------------------------------------------------
(* The bitmap. *)

Bitmaps == [0..(NR_PAGES - 1) -> {0, 1}]

(* get_idle_page() finds an idle frame when there is one. *)
LEMMA NextIdleProperties ==
  ASSUME NEW bm \in Bitmaps, NEW idx \in 0..(NR_PAGES - 1), Cardinality(Busy(bm)) < NR_PAGES
  PROVE  NextIdle(bm, idx) \in 0..(NR_PAGES - 1) /\ bm[NextIdle(bm, idx)] = 0
<1> DEFINE N == NR_PAGES
           Turn(k) == (idx + k) % N
           T == {k \in 0..(N - 1) : bm[Turn(k)] = 0}
<1>1. N \in Nat \ {0}
  BY ConstantTypes
<1>2. \A k \in Nat : Turn(k) \in 0..(N - 1)
  <2> TAKE k \in Nat
  <2>1. idx + k \in Nat
    BY <1>1
  <2> QED
    BY <1>1, <2>1, Division
<1>3. PICK i \in 0..(N - 1) : bm[i] = 0
  <2>1. SUFFICES ASSUME \A i \in 0..(N - 1) : bm[i] # 0
                 PROVE  FALSE
    OBVIOUS
  <2>2. Busy(bm) = 0..(N - 1)
    BY <2>1 DEF Busy, Bitmaps
  <2>3. Cardinality(0..(N - 1)) = N
    <3>1. 0 \in Int /\ N - 1 \in Int /\ ~(0 > N - 1)
      BY <1>1
    <3>2. Cardinality(0..(N - 1)) = (N - 1) - 0 + 1
      BY <3>1, FS_Interval
    <3> QED
      BY <1>1, <3>2
  <2> QED
    BY <1>1, <2>2, <2>3
<1>4. \E k \in 0..(N - 1) : Turn(k) = i
  <2>1. CASE i >= idx
    <3>1. i - idx \in 0..(N - 1) /\ idx + (i - idx) = N * 0 + i /\ idx + (i - idx) \in Nat
      BY <1>1, <2>1
    <3>2. (idx + (i - idx)) % N = i
      BY <1>1, <3>1, QuotientIs
    <3> QED
      BY <3>1, <3>2
  <2>2. CASE i < idx
    <3>1. i - idx + N \in 0..(N - 1) /\ idx + (i - idx + N) = N * 1 + i /\ idx + (i - idx + N) \in Nat
      BY <1>1, <2>2
    <3>2. (idx + (i - idx + N)) % N = i
      BY <1>1, <3>1, QuotientIs
    <3> QED
      BY <3>1, <3>2
  <2> QED
    BY <1>1, <2>1, <2>2
<1>5. PICK k \in T : \A j \in T : k <= j
  <2> HIDE DEF Turn
  <2>1. T \in SUBSET Nat
    BY <1>1
  <2>2. T # {}
    BY <1>3, <1>4
  <2> HIDE DEF T
  <2> QED
    BY <2>1, <2>2, LeastElement
<1>6. k \in 0..(N - 1) /\ bm[Turn(k)] = 0
  OBVIOUS
<1>7. \A j \in 0..(k - 1) : bm[Turn(j)] = 1
  <2> TAKE j \in 0..(k - 1)
  <2>1. j \in 0..(N - 1) /\ j \notin T
    BY <1>1, <1>5, <1>6
  <2>2. Turn(j) \in 0..(N - 1)
    BY <1>1, <1>2, <2>1
  <2>3. bm[Turn(j)] # 0
    BY <2>1
  <2> HIDE DEF Turn
  <2> QED
    BY <2>2, <2>3 DEF Bitmaps
<1> DEFINE c == CHOOSE x \in 0..(N - 1) : bm[Turn(x)] = 0 /\ \A j \in 0..(x - 1) : bm[Turn(j)] = 1
<1>8. c \in 0..(N - 1) /\ bm[Turn(c)] = 0
  <2> HIDE DEF Turn
  <2> QED
    BY <1>6, <1>7
<1>9. NextIdle(bm, idx) = Turn(c)
  BY DEF NextIdle
<1> HIDE DEF c
<1>10. Turn(c) \in 0..(N - 1)
  BY <1>1, <1>2, <1>8
<1> QED
  BY <1>8, <1>9, <1>10

(* Finitely many frames are in use. *)
LEMMA BusyFinite ==
  ASSUME NEW bm \in Bitmaps
  PROVE  IsFiniteSet(Busy(bm)) /\ Cardinality(Busy(bm)) \in Nat
<1>1. NR_PAGES \in Nat \ {0}
  BY ConstantTypes
<1>2. IsFiniteSet(0..(NR_PAGES - 1)) /\ Busy(bm) \in SUBSET (0..(NR_PAGES - 1))
  BY <1>1, FS_Interval DEF Busy
<1>3. IsFiniteSet(Busy(bm))
  BY <1>2, FS_Subset
<1> QED
  BY <1>3, FS_CardinalityType

(* A bit more is a frame more. *)
LEMMA BusyMore ==
  ASSUME NEW bm \in Bitmaps, NEW i \in 0..(NR_PAGES - 1), bm[i] = 0
  PROVE  /\ [bm EXCEPT ![i] = 1] \in Bitmaps
         /\ Busy([bm EXCEPT ![i] = 1]) = Busy(bm) \cup {i} /\ i \notin Busy(bm)
         /\ Cardinality(Busy([bm EXCEPT ![i] = 1])) = Cardinality(Busy(bm)) + 1
<1>1. /\ [bm EXCEPT ![i] = 1] \in Bitmaps
      /\ Busy([bm EXCEPT ![i] = 1]) = Busy(bm) \cup {i} /\ i \notin Busy(bm)
  BY DEF Busy, Bitmaps
<1>2. IsFiniteSet(Busy(bm))
  BY BusyFinite
<1> QED
  BY <1>1, <1>2, FS_AddElement, ZenonT(60)

(* The frames that belong to bits. *)
LEMMA FramesOfBits ==
  ASSUME NEW B \in SUBSET (0..(NR_PAGES - 1)), NEW i \in 0..(NR_PAGES - 1)
  PROVE  /\ KERNEL_MEM + i \in PoolFrames
         /\ {KERNEL_MEM + j : j \in B \cup {i}} = {KERNEL_MEM + j : j \in B} \cup {KERNEL_MEM + i}
         /\ i \notin B => KERNEL_MEM + i \notin {KERNEL_MEM + j : j \in B}
<1>1. NR_PAGES \in Nat /\ KERNEL_MEM \in Nat
  BY ConstantTypes
<1>2. KERNEL_MEM + i \in PoolFrames
  BY <1>1 DEF PoolFrames
<1>3. ASSUME NEW j \in B, KERNEL_MEM + i = KERNEL_MEM + j PROVE i = j
  BY <1>1, <1>3
<1> QED
  BY <1>2, <1>3

(* get_idle_page() gives a frame that was not marked, and marks it. *)
LEMMA OneFrame ==
  ASSUME page_bitmap \in Bitmaps, bitmap_idx \in 0..(NR_PAGES - 1), GetIdlePage
  PROVE  /\ page_bitmap' \in Bitmaps /\ bitmap_idx' \in 0..(NR_PAGES - 1)
         /\ NewFrame \in PoolFrames /\ NewFrame \notin Marked /\ Marked' = Marked \cup {NewFrame}
<1>1. NR_PAGES \in Nat /\ KERNEL_MEM \in Nat /\ Cardinality(Busy(page_bitmap)) \in Nat
  BY ConstantTypes, BusyFinite
<1>2. Cardinality(Busy(page_bitmap)) < NR_PAGES
  BY <1>1 DEF GetIdlePage, Idle
<1>3. First \in 0..(NR_PAGES - 1) /\ page_bitmap[First] = 0
  BY <1>2, NextIdleProperties DEF First
<1>4. page_bitmap' = [page_bitmap EXCEPT ![First] = 1] /\ bitmap_idx' = First
  BY DEF GetIdlePage
<1>5. page_bitmap' \in Bitmaps /\ Busy(page_bitmap)' = Busy(page_bitmap) \cup {First} /\ First \notin Busy(page_bitmap)
  <2> PICK i : i = First
    OBVIOUS
  <2> PICK bm : bm = page_bitmap'
    OBVIOUS
  <2>1. bm \in Bitmaps /\ Busy(bm) = Busy(page_bitmap) \cup {i} /\ i \notin Busy(page_bitmap)
    BY <1>3, <1>4, BusyMore
  <2>2. Busy(page_bitmap)' = Busy(bm)
    BY DEF Busy
  <2> QED
    BY <2>1, <2>2
<1>6. Busy(page_bitmap) \subseteq 0..(NR_PAGES - 1)
  BY DEF Busy
<1> HIDE DEF First
<1>7. Marked' = {KERNEL_MEM + j : j \in Busy(page_bitmap) \cup {First}}
  BY <1>5 DEF Marked
<1> QED
  BY <1>3, <1>4, <1>5, <1>6, <1>7, FramesOfBits, ZenonT(60) DEF NewFrame, Marked

(* get_idle_page() twice: two frames that were idle, and now are marked. *)
LEMMA TwoFrames ==
  ASSUME page_bitmap \in Bitmaps, bitmap_idx \in 0..(NR_PAGES - 1), GetTwoIdlePages
  PROVE  /\ page_bitmap' \in Bitmaps /\ bitmap_idx' \in 0..(NR_PAGES - 1)
         /\ NewFrame \in PoolFrames /\ NewFrame \notin Marked
         /\ SecondFrame \in PoolFrames /\ SecondFrame \notin Marked /\ SecondFrame # NewFrame
         /\ Marked' = Marked \cup {NewFrame, SecondFrame}
<1>1. NR_PAGES \in Nat /\ KERNEL_MEM \in Nat /\ Cardinality(Busy(page_bitmap)) \in Nat
  BY ConstantTypes, BusyFinite
<1>2. Cardinality(Busy(page_bitmap)) + 1 < NR_PAGES
  BY <1>1 DEF GetTwoIdlePages, Idle
<1>3. First \in 0..(NR_PAGES - 1) /\ page_bitmap[First] = 0
  BY <1>1, <1>2, NextIdleProperties DEF First
<1> DEFINE bm == [page_bitmap EXCEPT ![First] = 1]
<1>4. /\ bm \in Bitmaps /\ Busy(bm) = Busy(page_bitmap) \cup {First} /\ First \notin Busy(page_bitmap)
      /\ Cardinality(Busy(bm)) = Cardinality(Busy(page_bitmap)) + 1
  <2> PICK i : i = First
    OBVIOUS
  <2> QED
    BY <1>3, BusyMore
<1>5. Second = NextIdle(bm, First) /\ bm[First] = 1
  BY <1>3 DEF Second, Bitmaps
<1>6. page_bitmap' = [bm EXCEPT ![Second] = 1] /\ bitmap_idx' = Second
  BY DEF GetTwoIdlePages
<1> HIDE DEF bm, First
<1>7. Second \in 0..(NR_PAGES - 1) /\ bm[Second] = 0 /\ Second # First
  BY <1>1, <1>2, <1>3, <1>4, <1>5, NextIdleProperties
<1>8. page_bitmap' \in Bitmaps /\ Busy(page_bitmap)' = Busy(bm) \cup {Second} /\ Second \notin Busy(bm)
  <2> PICK i : i = Second
    OBVIOUS
  <2> PICK b : b = page_bitmap'
    OBVIOUS
  <2>1. b \in Bitmaps /\ Busy(b) = Busy(bm) \cup {i} /\ i \notin Busy(bm)
    BY <1>4, <1>6, <1>7, BusyMore
  <2>2. Busy(page_bitmap)' = Busy(b)
    BY DEF Busy
  <2> QED
    BY <2>1, <2>2
<1>9. Busy(page_bitmap) \subseteq 0..(NR_PAGES - 1)
  BY DEF Busy
<1> HIDE DEF Second
<1>10. Marked' = {KERNEL_MEM + j : j \in Busy(bm) \cup {Second}}
  BY <1>8 DEF Marked
<1>11. /\ NewFrame \in PoolFrames /\ NewFrame \notin Marked
       /\ {KERNEL_MEM + j : j \in Busy(bm)} = Marked \cup {NewFrame}
  BY <1>3, <1>4, <1>9, FramesOfBits DEF NewFrame, Marked
<1>12. Busy(bm) \in SUBSET (0..(NR_PAGES - 1))
  BY <1>3, <1>4, <1>9
<1>13. /\ SecondFrame \in PoolFrames /\ SecondFrame \notin Marked \cup {NewFrame}
       /\ Marked' = Marked \cup {NewFrame} \cup {SecondFrame}
  BY <1>7, <1>8, <1>10, <1>11, <1>12, FramesOfBits DEF SecondFrame
<1> QED
  BY <1>6, <1>7, <1>8, <1>11, <1>13

(* set_page_idle() for a set of frames. *)
LEMMA FewerFrames ==
  ASSUME page_bitmap \in Bitmaps, NEW F, SetPagesIdle(F)
  PROVE  page_bitmap' \in Bitmaps /\ Marked' = Marked \ F
<1>1. page_bitmap' \in Bitmaps
  BY DEF SetPagesIdle, Bitmaps
<1>2. \A i \in 0..(NR_PAGES - 1) : page_bitmap'[i] = IF KERNEL_MEM + i \in F THEN 0 ELSE page_bitmap[i]
  BY DEF SetPagesIdle, Bitmaps
<1> QED
  BY <1>1, <1>2 DEF Marked, Busy, Bitmaps
-----------------------------------------------------------------------------
(* Who holds a frame. *)

Pdirs  == [Pcbs -> [Dirs -> PoolFrames \cup {None}]]
Tables == [PoolFrames -> [Entries -> AllFrames \cup {None}]]
Spots == Entries \cup {None}

\* The frame at a place of p's tables: entry e of the table at d, or, for None,
\* the table itself.
Held(pd, pt, p, d, e) ==
  IF e = None THEN pd[p][d]
  ELSE IF d \in UserDirs /\ pd[p][d] # None THEN pt[pd[p][d]][e] ELSE None

\* The places of the PCBs in S hold the frames in M, each of them once.
Exact(pd, pt, S, M) ==
  /\ \A p, q \in S : \A d, c \in LowDirs : \A e, i \in Spots :
       Held(pd, pt, p, d, e) = Held(pd, pt, q, c, i) /\ Held(pd, pt, p, d, e) # None
         => p = q /\ d = c /\ e = i
  /\ \A p \in S : \A d \in LowDirs : \A e \in Spots : Held(pd, pt, p, d, e) \in M \cup {None}
  /\ \A f \in M : \E p \in S : \E d \in LowDirs : \E e \in Spots : Held(pd, pt, p, d, e) = f

\* The table at d of q is the same.
SameTable(pd, pt, pd2, pt2, q, d) ==
  pd2[q][d] = pd[q][d] /\ (pd[q][d] # None => pt2[pd[q][d]] = pt[pd[q][d]])

(* Directories, entries and frames are apart where they have to be. *)
LEMMA NumberTypes ==
  /\ None \notin PoolFrames /\ None \notin AllFrames /\ None \notin Entries
  /\ UserDirs \subseteq LowDirs /\ KernelDirs \subseteq LowDirs /\ LowDirs \subseteq Dirs
  /\ \A d \in LowDirs : d \in UserDirs <=> d \notin KernelDirs
  /\ \A d \in KernelDirs : d + KOFFSET \in Dirs /\ d + KOFFSET \notin LowDirs
  /\ KOFFSET - 1 \in UserDirs
<1>1. /\ NR_PTE \in Nat \ {0} /\ NR_PDE \in Nat \ {0}
      /\ KERNEL_DIRS \in Nat \ {0} /\ KOFFSET \in Nat /\ KOFFSET = NR_PDE - KERNEL_DIRS
      /\ KOFFSET >= KERNEL_DIRS + 2 /\ KERNEL_MEM \in Nat \ {0} /\ NR_PAGES \in Nat \ {0}
  BY ConstantTypes
<1>2. KERNEL_DIRS * NR_PTE - 1 \in Int
  BY <1>1
<1>3. None \notin PoolFrames /\ None \notin KernelFrames /\ None \notin Entries
  BY <1>1, <1>2 DEF None, PoolFrames, KernelFrames, Entries
<1> QED
  BY <1>1, <1>3 DEF AllFrames, UserDirs, KernelDirs, LowDirs, Dirs

(* One place more, one frame more. *)
LEMMA OnePlaceMore ==
  ASSUME NEW pd, NEW pt, NEW pd2, NEW pt2, NEW S, NEW M, NEW f,
         NEW p \in S, NEW d \in LowDirs, NEW e \in Spots,
         Exact(pd, pt, S, M), Held(pd, pt, p, d, e) = None, None \notin M, f \notin M, f # None,
         \A q \in S : \A c \in LowDirs : \A i \in Spots :
           Held(pd2, pt2, q, c, i) = IF q = p /\ c = d /\ i = e THEN f ELSE Held(pd, pt, q, c, i)
  PROVE  Exact(pd2, pt2, S, M \cup {f})
<1>0. \A q, r \in S : \A c, b \in LowDirs : \A i, j \in Spots :
        Held(pd, pt, q, c, i) = Held(pd, pt, r, b, j) /\ Held(pd, pt, q, c, i) # None => q = r /\ c = b /\ i = j
  BY DEF Exact
<1>1. \A q \in S : \A c \in LowDirs : \A i \in Spots :
        /\ Held(pd2, pt2, q, c, i) \in M \cup {f} \cup {None}
        /\ Held(pd2, pt2, q, c, i) = f => q = p /\ c = d /\ i = e
  BY DEF Exact
<1>2. ASSUME NEW q \in S, NEW r \in S, NEW c \in LowDirs, NEW b \in LowDirs, NEW i \in Spots, NEW j \in Spots,
             Held(pd2, pt2, q, c, i) = Held(pd2, pt2, r, b, j), Held(pd2, pt2, q, c, i) # None
      PROVE  q = r /\ c = b /\ i = j
  <2>1. CASE Held(pd2, pt2, q, c, i) = f
    <3>1. q = p /\ c = d /\ i = e
      BY ONLY <1>1, <1>2, <2>1
    <3>2. r = p /\ b = d /\ j = e
      BY ONLY <1>1, <1>2, <2>1
    <3> QED
      BY <3>1, <3>2
  <2>2. CASE Held(pd2, pt2, q, c, i) # f
    <3>1. Held(pd2, pt2, q, c, i) = Held(pd, pt, q, c, i) /\ Held(pd2, pt2, r, b, j) = Held(pd, pt, r, b, j)
      BY <1>2, <2>2
    <3>2. Held(pd, pt, q, c, i) = Held(pd, pt, r, b, j) /\ Held(pd, pt, q, c, i) # None
      BY <1>2, <3>1
    <3> QED
      BY ONLY <1>0, <3>2, q \in S, r \in S, c \in LowDirs, b \in LowDirs, i \in Spots, j \in Spots
  <2> QED
    BY <2>1, <2>2
<1>3. ASSUME NEW g \in M \cup {f}
      PROVE  \E q \in S : \E c \in LowDirs : \E i \in Spots : Held(pd2, pt2, q, c, i) = g
  <2>1. CASE g = f
    BY <2>1
  <2>2. CASE g # f
    <3>1. PICK q \in S, c \in LowDirs, i \in Spots : Held(pd, pt, q, c, i) = g
      BY <2>2 DEF Exact
    <3>2. CASE q = p /\ c = d /\ i = e
      BY <2>2, <3>1, <3>2
    <3>3. CASE ~(q = p /\ c = d /\ i = e)
      BY <3>1, <3>3
    <3> QED
      BY <3>2, <3>3
  <2> QED
    BY <2>1, <2>2
<1> QED
  BY <1>1, <1>2, <1>3 DEF Exact

(* What Exact says about tables: they are marked, and no two are the same. *)
LEMMA TablesApart ==
  ASSUME NEW pd, NEW pt, NEW S, NEW M, Exact(pd, pt, S, M)
  PROVE  /\ \A q \in S : \A c \in LowDirs : pd[q][c] # None => pd[q][c] \in M
         /\ \A q, r \in S : \A c, b \in LowDirs : pd[q][c] # None /\ pd[q][c] = pd[r][b] => q = r /\ c = b
<1>1. \A q, r \in S : \A c, b \in LowDirs : \A i, j \in Spots :
        Held(pd, pt, q, c, i) = Held(pd, pt, r, b, j) /\ Held(pd, pt, q, c, i) # None => q = r /\ c = b /\ i = j
  BY DEF Exact
<1>2. \A q \in S : \A c \in LowDirs : \A i \in Spots : Held(pd, pt, q, c, i) \in M \cup {None}
  BY DEF Exact
<1>3. None \in Spots /\ \A q, c : Held(pd, pt, q, c, None) = pd[q][c]
  BY DEF Spots, Held
<1>4. ASSUME NEW q \in S, NEW r \in S, NEW c \in LowDirs, NEW b \in LowDirs, pd[q][c] # None, pd[q][c] = pd[r][b]
      PROVE  q = r /\ c = b
  <2>1. Held(pd, pt, q, c, None) = Held(pd, pt, r, b, None) /\ Held(pd, pt, q, c, None) # None
    BY <1>3, <1>4
  <2> QED
    BY ONLY <1>1, <1>3, <2>1, q \in S, r \in S, c \in LowDirs, b \in LowDirs
<1>5. ASSUME NEW q \in S, NEW c \in LowDirs, pd[q][c] # None
      PROVE  pd[q][c] \in M
  BY <1>2, <1>3, <1>5
<1> QED
  BY <1>4, <1>5

\* From (pd, pt) to (pd2, pt2) there is a new table at directory d of p, in
\* frame f.  For a table of user space its entries are not present.
IsNewTable(pd, pt, pd2, pt2, S, M, p, d, f) ==
  /\ pd \in Pdirs /\ pt \in Tables /\ pd2 \in Pdirs /\ pt2 \in Tables /\ S \in SUBSET Pcbs
  /\ f \in PoolFrames /\ f \notin M /\ None \notin M /\ Exact(pd, pt, S, M) /\ p \in S /\ d \in LowDirs
  /\ pd[p][d] = None /\ pd2[p][d] = f
  /\ \A q \in Pcbs : \A c \in LowDirs : ~(q = p /\ c = d) => pd2[q][c] = pd[q][c]
  /\ \A t \in PoolFrames : t # f => pt2[t] = pt[t]
  /\ d \in UserDirs => \A e \in Entries : pt2[f][e] = None

(* A page table in a frame of its own: every frame is still held once. *)
LEMMA NewTable ==
  ASSUME NEW pd, NEW pt, NEW pd2, NEW pt2, NEW S, NEW M, NEW p, NEW d, NEW f,
         IsNewTable(pd, pt, pd2, pt2, S, M, p, d, f)
  PROVE  /\ Exact(pd2, pt2, S, M \cup {f})
         /\ \A q \in S : \A c \in LowDirs : ~(q = p /\ c = d) => SameTable(pd, pt, pd2, pt2, q, c)
<1> /\ pd \in Pdirs /\ pt \in Tables /\ pd2 \in Pdirs /\ pt2 \in Tables /\ S \in SUBSET Pcbs
    /\ f \in PoolFrames /\ f \notin M /\ None \notin M /\ Exact(pd, pt, S, M) /\ p \in S /\ d \in LowDirs
    /\ pd[p][d] = None /\ pd2[p][d] = f
    /\ \A q \in Pcbs : \A c \in LowDirs : ~(q = p /\ c = d) => pd2[q][c] = pd[q][c]
    /\ \A t \in PoolFrames : t # f => pt2[t] = pt[t]
    /\ d \in UserDirs => \A e \in Entries : pt2[f][e] = None
  BY DEF IsNewTable
<1>1. f # None /\ None \notin Entries
  BY NumberTypes
<1>2. \A q \in S : \A c \in LowDirs : pd[q][c] \in PoolFrames \cup {None} /\ pd[q][c] # f
  BY NumberTypes, TablesApart, <1>1 DEF Pdirs
<1>3. \A q \in S : \A c \in LowDirs : ~(q = p /\ c = d) => SameTable(pd, pt, pd2, pt2, q, c)
  BY <1>2 DEF SameTable
<1>4. ASSUME NEW q \in S, NEW c \in LowDirs, NEW i \in Spots
      PROVE  Held(pd2, pt2, q, c, i) = IF q = p /\ c = d /\ i = None THEN f ELSE Held(pd, pt, q, c, i)
  <2>1. CASE q = p /\ c = d
    BY <1>1, <2>1 DEF Held, Spots
  <2>2. CASE ~(q = p /\ c = d)
    BY <1>3, <2>2 DEF SameTable, Held
  <2> QED
    BY <2>1, <2>2
<1>5. Held(pd, pt, p, d, None) = None /\ None \in Spots
  BY DEF Held, Spots
<1>6. Exact(pd2, pt2, S, M \cup {f})
  BY <1>1, <1>4, <1>5, OnePlaceMore
<1> QED
  BY <1>3, <1>6

\* A new page at entry e of the table at d of p, in frame f.
IsNewPage(pd, pt, pt2, S, M, p, d, e, f) ==
  /\ pd \in Pdirs /\ pt \in Tables /\ pt2 \in Tables /\ S \in SUBSET Pcbs
  /\ f \in PoolFrames /\ f \notin M /\ None \notin M /\ Exact(pd, pt, S, M) /\ p \in S /\ d \in UserDirs
  /\ e \in Entries /\ pd[p][d] # None /\ pt[pd[p][d]][e] = None /\ pt2[pd[p][d]][e] = f
  /\ \A i \in Entries : i # e => pt2[pd[p][d]][i] = pt[pd[p][d]][i]
  /\ \A t \in PoolFrames : t # pd[p][d] => pt2[t] = pt[t]

(* A page in a frame of its own: every frame is still held once. *)
LEMMA NewPage ==
  ASSUME NEW pd, NEW pt, NEW pt2, NEW S, NEW M, NEW p, NEW d, NEW e, NEW f,
         IsNewPage(pd, pt, pt2, S, M, p, d, e, f)
  PROVE  /\ Exact(pd, pt2, S, M \cup {f})
         /\ \A q \in S : \A c \in LowDirs : ~(q = p /\ c = d) => SameTable(pd, pt, pd, pt2, q, c)
<1> /\ pd \in Pdirs /\ pt \in Tables /\ pt2 \in Tables /\ S \in SUBSET Pcbs
    /\ f \in PoolFrames /\ f \notin M /\ None \notin M /\ Exact(pd, pt, S, M) /\ p \in S /\ d \in UserDirs
    /\ e \in Entries /\ pd[p][d] # None /\ pt[pd[p][d]][e] = None /\ pt2[pd[p][d]][e] = f
    /\ \A i \in Entries : i # e => pt2[pd[p][d]][i] = pt[pd[p][d]][i]
    /\ \A t \in PoolFrames : t # pd[p][d] => pt2[t] = pt[t]
  BY DEF IsNewPage
<1>1. f # None /\ None \notin Entries /\ d \in LowDirs
  BY NumberTypes
<1>2. \A q \in S : \A c \in LowDirs : pd[q][c] \in PoolFrames \cup {None}
  BY NumberTypes DEF Pdirs
<1>3. \A q \in S : \A c \in LowDirs : pd[q][c] # None /\ ~(q = p /\ c = d) => pd[q][c] # pd[p][d]
  BY <1>1, TablesApart
<1>4. \A q \in S : \A c \in LowDirs : ~(q = p /\ c = d) => SameTable(pd, pt, pd, pt2, q, c)
  BY <1>2, <1>3 DEF SameTable
<1>5. ASSUME NEW q \in S, NEW c \in LowDirs, NEW i \in Spots
      PROVE  Held(pd, pt2, q, c, i) = IF q = p /\ c = d /\ i = e THEN f ELSE Held(pd, pt, q, c, i)
  <2>1. CASE q = p /\ c = d
    BY <1>1, <2>1 DEF Held, Spots
  <2>2. CASE ~(q = p /\ c = d)
    BY <1>4, <2>2 DEF SameTable, Held
  <2> QED
    BY <2>1, <2>2
<1>6. Held(pd, pt, p, d, e) = None /\ e \in Spots
  BY <1>1 DEF Held, Spots
<1>7. Exact(pd, pt2, S, M \cup {f})
  BY <1>1, <1>5, <1>6, OnePlaceMore
<1> QED
  BY <1>4, <1>7

(* create_kernel_dir() clears the directory of a PCB that holds nothing. *)
LEMMA EmptyDirectory ==
  ASSUME NEW pd \in Pdirs, NEW pt, NEW pd2, NEW S \in SUBSET Pcbs, NEW M,
         Exact(pd, pt, S, M), NEW p \in Pcbs, p \notin S,
         \A d \in LowDirs : pd2[p][d] = None,
         \A q \in Pcbs : q # p => pd2[q] = pd[q]
  PROVE  Exact(pd2, pt, S \cup {p}, M)
<1>1. \A c \in LowDirs : \A i \in Spots : Held(pd2, pt, p, c, i) = None
  BY DEF Held
<1>2. \A q \in S : \A c \in LowDirs : \A i \in Spots : Held(pd2, pt, q, c, i) = Held(pd, pt, q, c, i)
  BY DEF Held
<1>3. \A q, r \in S : \A c, b \in LowDirs : \A i, j \in Spots :
        Held(pd, pt, q, c, i) = Held(pd, pt, r, b, j) /\ Held(pd, pt, q, c, i) # None => q = r /\ c = b /\ i = j
  BY DEF Exact
<1>4. ASSUME NEW q \in S \cup {p}, NEW r \in S \cup {p}, NEW c \in LowDirs, NEW b \in LowDirs,
             NEW i \in Spots, NEW j \in Spots,
             Held(pd2, pt, q, c, i) = Held(pd2, pt, r, b, j), Held(pd2, pt, q, c, i) # None
      PROVE  q = r /\ c = b /\ i = j
  <2>1. q \in S /\ r \in S
    BY <1>1, <1>4
  <2>2. Held(pd, pt, q, c, i) = Held(pd, pt, r, b, j) /\ Held(pd, pt, q, c, i) # None
    BY <1>2, <1>4, <2>1
  <2> QED
    BY ONLY <1>3, <2>1, <2>2, c \in LowDirs, b \in LowDirs, i \in Spots, j \in Spots
<1>5. ASSUME NEW q \in S \cup {p}, NEW c \in LowDirs, NEW i \in Spots
      PROVE  Held(pd2, pt, q, c, i) \in M \cup {None}
  <2>1. CASE q = p
    BY <1>1, <2>1
  <2>2. CASE q # p
    <3>1. q \in S
      BY <2>2
    <3>2. Held(pd, pt, q, c, i) \in M \cup {None}
      BY <3>1 DEF Exact
    <3> QED
      BY <1>2, <3>1, <3>2
  <2> QED
    BY <2>1, <2>2
<1>6. ASSUME NEW f \in M
      PROVE  \E q \in S \cup {p} : \E c \in LowDirs : \E i \in Spots : Held(pd2, pt, q, c, i) = f
  <2>1. PICK q \in S, c \in LowDirs, i \in Spots : Held(pd, pt, q, c, i) = f
    BY DEF Exact
  <2> QED
    BY <1>2, <2>1
<1> QED
  BY <1>4, <1>5, <1>6, SMTT(60) DEF Exact

(* takeback_page() takes back what one PCB holds. *)
LEMMA HoldsNothing ==
  ASSUME NEW pd \in Pdirs, NEW pt \in Tables, NEW pd2, NEW pt2, NEW S \in SUBSET Pcbs, NEW M, NEW F,
         Exact(pd, pt, S, M), NEW p \in S, None \notin M,
         \A f \in M : f \in F <=> \E d \in LowDirs : \E e \in Spots : Held(pd, pt, p, d, e) = f,
         \A q \in Pcbs : q # p => pd2[q] = pd[q],
         \A t \in PoolFrames : (\A d \in UserDirs : pd[p][d] # t) => pt2[t] = pt[t]
  PROVE  /\ Exact(pd2, pt2, S \ {p}, M \ F)
         /\ \A q \in S \ {p} : \A c \in LowDirs : SameTable(pd, pt, pd2, pt2, q, c)
<1>1. \A q \in S : \A c \in LowDirs : pd[q][c] \in PoolFrames \cup {None}
  BY NumberTypes DEF Pdirs
<1>2. ASSUME NEW q \in S \ {p}, NEW c \in LowDirs
      PROVE  SameTable(pd, pt, pd2, pt2, q, c)
  <2>1. pd2[q][c] = pd[q][c]
    OBVIOUS
  <2>2. ASSUME pd[q][c] # None PROVE pt2[pd[q][c]] = pt[pd[q][c]]
    <3>1. \A d \in UserDirs : pd[p][d] # pd[q][c]
      BY <2>2, TablesApart, NumberTypes
    <3> QED
      BY <1>1, <2>2, <3>1
  <2> QED
    BY <2>1, <2>2 DEF SameTable
<1>3. \A q \in S \ {p} : \A c \in LowDirs : \A i \in Spots : Held(pd2, pt2, q, c, i) = Held(pd, pt, q, c, i)
  BY <1>2 DEF SameTable, Held
<1>4. \A q, r \in S : \A c, b \in LowDirs : \A i, j \in Spots :
        Held(pd, pt, q, c, i) = Held(pd, pt, r, b, j) /\ Held(pd, pt, q, c, i) # None => q = r /\ c = b /\ i = j
  BY DEF Exact
<1>5. ASSUME NEW q \in S \ {p}, NEW r \in S \ {p}, NEW c \in LowDirs, NEW b \in LowDirs,
             NEW i \in Spots, NEW j \in Spots,
             Held(pd2, pt2, q, c, i) = Held(pd2, pt2, r, b, j), Held(pd2, pt2, q, c, i) # None
      PROVE  q = r /\ c = b /\ i = j
  <2>1. Held(pd, pt, q, c, i) = Held(pd, pt, r, b, j) /\ Held(pd, pt, q, c, i) # None /\ q \in S /\ r \in S
    BY <1>3, <1>5
  <2> QED
    BY ONLY <1>4, <2>1, c \in LowDirs, b \in LowDirs, i \in Spots, j \in Spots
<1>6. ASSUME NEW q \in S \ {p}, NEW c \in LowDirs, NEW i \in Spots
      PROVE  Held(pd2, pt2, q, c, i) \in (M \ F) \cup {None}
  <2> DEFINE f == Held(pd, pt, q, c, i)
  <2>1. f \in M \cup {None} /\ Held(pd2, pt2, q, c, i) = f
    BY <1>3 DEF Exact
  <2>2. ASSUME f # None, f \in F PROVE FALSE
    <3>1. PICK d \in LowDirs, e \in Spots : Held(pd, pt, p, d, e) = f
      BY <2>1, <2>2
    <3>2. Held(pd, pt, q, c, i) = Held(pd, pt, p, d, e) /\ Held(pd, pt, q, c, i) # None /\ q \in S
      BY <2>2, <3>1
    <3>3. q = p
      BY ONLY <1>4, <3>2, p \in S, c \in LowDirs, d \in LowDirs, i \in Spots, e \in Spots
    <3> QED
      BY <3>3
  <2> QED
    BY <2>1, <2>2
<1>7. ASSUME NEW f \in M \ F
      PROVE  \E q \in S \ {p} : \E c \in LowDirs : \E i \in Spots : Held(pd2, pt2, q, c, i) = f
  <2>1. PICK q \in S, c \in LowDirs, i \in Spots : Held(pd, pt, q, c, i) = f
    BY DEF Exact
  <2>2. q # p
    BY <2>1
  <2> QED
    BY <1>3, <2>1, <2>2
<1>8. Exact(pd2, pt2, S \ {p}, M \ F)
  BY <1>5, <1>6, <1>7 DEF Exact
<1> QED
  BY <1>2, <1>8
-----------------------------------------------------------------------------
(* The invariant. *)

\* The tables of the kernel up to directory n, low and at KOFFSET.
KernelUpTo(pd, pt, p, n) ==
  \A d \in 0..(n - 1) : /\ pd[p][d] # None /\ pd[p][d + KOFFSET] = pd[p][d]
                        /\ pt[pd[p][d]] = [e \in Entries |-> d * NR_PTE + e]

\* From directory d on nothing is mapped, in front of KOFFSET.
NoneFrom(pd, p, d) == \A c \in d..(KOFFSET - 1) : pd[p][c] = None

\* Above page v nothing is mapped but the stack.
Above(pd, pt, p, v) ==
  /\ \A d \in (DirOf(v) + 1)..(KOFFSET - 2) : pd[p][d] = None
  /\ pd[p][DirOf(v)] # None =>
       \A e \in Entries : e > EntryOf(v) => pt[pd[p][DirOf(v)]][e] = None

\* The segments from k on have their pages to themselves, but for the first
\* page of the first.
Room(pd, pt, p, i, k) == \A m \in ToLoad(i, k) : Above(pd, pt, p, Start(i, m))

\* Page v is in front of the segments that step s is yet to load.
InFront(v, s) == s[1] = "load" => \A m \in ToLoad(s[2], s[3]) : v <= Start(s[2], m)

\* A step by itself.
StepOK(s) ==
  /\ s[1] \in {"clear", "kernel", "table", "stack", "load", "first", "next", "from", "to", "strlen",
               "copy_table", "copy", "takeback", "args", "answer"}
  /\ s[1] = "kernel" => s[2] \in KernelDirs
  /\ s[1] = "table" => s[2] = KOFFSET - 1
  /\ s[1] = "stack" => s[2] \in (PageOf(StackTop) - NR_STACK + 1)..PageOf(StackTop)
  /\ s[1] = "load" => s[2] \in DOMAIN Programs /\ s[3] \in Nat \ {0}
  /\ s[1] = "next" => s[3] \in Nat
  /\ s[1] = "copy_table" => s[3] \in KERNEL_DIRS..KOFFSET
  /\ s[1] = "copy" => s[3] \in UserDirs /\ s[4] \in Entries

\* A step that waits for its turn is at the beginning of its loop.
Begins(s) ==
  /\ s[1] = "kernel" => s[2] = 0
  /\ s[1] = "stack" => s[2] = PageOf(StackTop)
  /\ s[1] = "copy_table" => s[3] = KERNEL_DIRS
  /\ s[1] = "load" => s[2] \in DOMAIN Programs

\* What comes after a step.
MayFollow(a, b) ==
  \/ a \in {"strlen", "to"} /\ b \in {"takeback", "answer"}
  \/ a = "takeback" /\ b \in {"clear", "answer"}
  \/ a = "clear" /\ b = "kernel"
  \/ a = "kernel" /\ b \in {"table", "copy_table"}
  \/ a = "table" /\ b = "stack"
  \/ a = "stack" /\ b = "load"
  \/ a = "load" /\ b \in {"args", "answer"}
  \/ a = "first" /\ b = "next"
  \/ a = "next" /\ b = "from"
  \/ a = "from" /\ b \in {"load", "answer"}
  \/ a \in {"copy_table", "copy", "args"} /\ b = "answer"

\* Steps that fit together, and the steps of a request.
Fits(td) ==
  /\ td \in Seq(ToSet(td)) /\ Len(td) > 0
  /\ \A k \in 1..Len(td) : StepOK(td[k])
  /\ \A k \in 1..(Len(td) - 1) : MayFollow(td[k][1], td[k + 1][1]) /\ Begins(td[k + 1])

TodoOK(td) == Fits(td) /\ td[Len(td)][1] = "answer"

\* What the next step needs, for the PCB p of the request.
Ready(td, pd, pt, S, p) ==
  LET s == td[1]
  IN /\ s[1] = "clear" => p \notin S
     /\ s[1] \notin {"clear", "answer"} => p \in S
     /\ s[1] = "kernel" => KernelUpTo(pd, pt, p, s[2]) /\ NoneFrom(pd, p, s[2])
     /\ s[1] = "table" => NoneFrom(pd, p, KERNEL_DIRS)
     /\ s[1] = "stack" =>
          /\ pd[p][KOFFSET - 1] # None /\ \A d \in KERNEL_DIRS..(KOFFSET - 2) : pd[p][d] = None
          /\ \A e \in Entries : e <= EntryOf(s[2]) => pt[pd[p][KOFFSET - 1]][e] = None
     /\ s[1] = "load" => Room(pd, pt, p, s[2], s[3])
     /\ s[1] = "first" =>
          /\ ProgramPage(s[2]) /\ Above(pd, pt, p, s[2])
          /\ td[2][2] = s[2] + 1 /\ ProgramPage(s[2] + td[2][3]) /\ InFront(s[2] + td[2][3], td[4])
     /\ s[1] = "next" => \E v \in {s[2] - 1} :
          /\ s[2] = v + 1 /\ ProgramPage(v) /\ Above(pd, pt, p, v) /\ pd[p][DirOf(v)] # None
          /\ ProgramPage(v + s[3]) /\ InFront(v + s[3], td[3])
     /\ s[1] = "from" => (td[2][1] = "load" => Room(pd, pt, p, td[2][2], td[2][3]))
     /\ s[1] = "copy_table" => NoneFrom(pd, p, s[3])
     /\ s[1] = "copy" =>
          /\ NoneFrom(pd, p, s[3] + 1) /\ pd[p][s[3]] # None
          /\ \A e \in Entries : e >= s[4] => pt[pd[p][s[3]]][e] = None

\* The kernel is mapped, except while it is being mapped.
Whole(td, pd, pt, S, p) ==
  \A q \in S : (q = p => td[1][1] # "kernel") => KernelUpTo(pd, pt, q, KERNEL_DIRS)

MapType ==
  /\ page_bitmap \in Bitmaps /\ bitmap_idx \in 0..(NR_PAGES - 1)
  /\ pdir \in Pdirs /\ ptes \in Tables /\ spaces \in SUBSET Pcbs

MemoryInv ==
  /\ MapType /\ Exact(pdir, ptes, spaces, Marked)
  /\ Whole(todo, pdir, ptes, spaces, pcb)
  /\ pcb \in Pcbs \cup {None} /\ (pcb = None <=> todo = <<>>)
  /\ pcb # None => TodoOK(todo) /\ Ready(todo, pdir, ptes, spaces, pcb)
-----------------------------------------------------------------------------
(* Steps come and go. *)

(* A sequence is a sequence of its own elements. *)
LEMMA ElementsOf ==
  ASSUME NEW S, NEW s \in Seq(S)
  PROVE  s \in Seq(ToSet(s))
<1>1. s \in [1..Len(s) -> S] /\ Len(s) \in Nat /\ DOMAIN s = 1..Len(s)
  OBVIOUS
<1>2. s \in [1..Len(s) -> ToSet(s)]
  BY <1>1 DEF ToSet
<1> QED
  BY <1>1, <1>2, SeqDef

(* A step that is not the answer is followed by another. *)
LEMMA StepAfter ==
  ASSUME NEW td, TodoOK(td), td[1][1] # "answer"
  PROVE  /\ Len(td) \in Nat /\ Len(td) > 1
         /\ MayFollow(td[1][1], td[2][1]) /\ StepOK(td[1]) /\ StepOK(td[2]) /\ Begins(td[2])
<1>1. Len(td) \in Nat /\ Len(td) > 0 /\ Len(td) # 1
  BY DEF TodoOK, Fits
<1>2. 1 \in 1..(Len(td) - 1) /\ 1 \in 1..Len(td) /\ 2 \in 1..Len(td) /\ 1 + 1 = 2
  BY <1>1
<1> QED
  BY <1>1, <1>2 DEF TodoOK, Fits

(* Done: the first step goes. *)
LEMMA OneStepLess ==
  ASSUME NEW td, TodoOK(td), td[1][1] # "answer"
  PROVE  /\ TodoOK(Tail(td)) /\ Tail(td) # <<>> /\ Len(Tail(td)) = Len(td) - 1
         /\ \A k \in 1..(Len(td) - 1) : Tail(td)[k] = td[k + 1]
<1> PICK u : u = Tail(td)
  OBVIOUS
<1>1. Len(td) \in Nat /\ Len(td) > 1
  BY StepAfter
<1> DEFINE S == ToSet(td)
<1>2. td \in Seq(S)
  BY DEF TodoOK, Fits
<1>3. u \in Seq(S) /\ Len(u) = Len(td) - 1 /\ \A k \in 1..Len(u) : u[k] = td[k + 1]
  <2> HIDE DEF S
  <2> QED
    BY <1>1, <1>2
<1> HIDE DEF S
<1>4. u \in Seq(ToSet(u)) /\ Len(u) > 0
  <2>1. u \in Seq(ToSet(u))
    BY ONLY <1>3, ElementsOf, Zenon
  <2> QED
    BY <1>1, <1>3, <2>1
<1>5. \A k \in 1..Len(u) : StepOK(u[k])
  BY <1>1, <1>3 DEF TodoOK, Fits
<1>6. \A k \in 1..(Len(u) - 1) : MayFollow(u[k][1], u[k + 1][1]) /\ Begins(u[k + 1])
  <2> TAKE k \in 1..(Len(u) - 1)
  <2>1. k + 1 \in 1..(Len(td) - 1) /\ u[k] = td[k + 1] /\ u[k + 1] = td[(k + 1) + 1]
    BY <1>1, <1>3
  <2>2. MayFollow(td[k + 1][1], td[(k + 1) + 1][1]) /\ Begins(td[(k + 1) + 1])
    BY <2>1 DEF TodoOK, Fits
  <2> QED
    BY <2>1, <2>2
<1>7. u[Len(u)][1] = "answer"
  BY <1>1, <1>3 DEF TodoOK, Fits
<1>8. u # <<>>
  <2>1. Len(<<>>) = 0 /\ Len(u) # 0
    BY <1>4
  <2> QED
    BY <2>1, Zenon
<1> QED
  BY <1>3, <1>4, <1>5, <1>6, <1>7, <1>8 DEF TodoOK, Fits

(* Then: another step in its place. *)
LEMMA NewStep ==
  ASSUME NEW td, TodoOK(td), td[1][1] # "answer", NEW s, StepOK(s), MayFollow(s[1], td[2][1])
  PROVE  /\ TodoOK(<<s>> \o Tail(td)) /\ <<s>> \o Tail(td) # <<>>
         /\ Len(<<s>> \o Tail(td)) = Len(td)
         /\ (<<s>> \o Tail(td))[1] = s
         /\ \A k \in 2..Len(td) : (<<s>> \o Tail(td))[k] = td[k]
<1> PICK u : u = <<s>> \o Tail(td)
  OBVIOUS
<1>1. Len(td) \in Nat /\ Len(td) > 1
  BY StepAfter
<1> DEFINE S == ToSet(td)
           t == Tail(td)
<1>2. td \in Seq(S)
  BY DEF TodoOK, Fits
<1> HIDE DEF S
<1>3. t \in Seq(S) /\ Len(t) = Len(td) - 1 /\ \A k \in 1..Len(t) : t[k] = td[k + 1]
  BY <1>1, <1>2
<1> HIDE DEF t
<1>4. t \in Seq(S \cup {s}) /\ <<s>> \in Seq(S \cup {s}) /\ Len(<<s>>) = 1 /\ <<s>>[1] = s /\ u = <<s>> \o t
  BY <1>3 DEF t
<1>5. u \in Seq(S \cup {s}) /\ Len(u) = Len(td) /\ u[1] = s
  <2> PICK T : T = S \cup {s}
    OBVIOUS
  <2> PICK h : h = <<s>>
    OBVIOUS
  <2>1. t \in Seq(T) /\ h \in Seq(T) /\ Len(h) = 1 /\ h[1] = s /\ u = h \o t
    BY <1>4
  <2>2. u \in Seq(T) /\ Len(u) = Len(h) + Len(t)
        /\ \A k \in 1..(Len(h) + Len(t)) : u[k] = IF k <= Len(h) THEN h[k] ELSE t[k - Len(h)]
    BY ONLY <2>1, ConcatProperties, Zenon
  <2>3. Len(u) = Len(td) /\ u[1] = s
    BY <1>1, <1>3, <2>1, <2>2
  <2> QED
    BY <2>2, <2>3
<1>6. \A k \in 2..Len(u) : u[k] = td[k]
  <2> TAKE k \in 2..Len(u)
  <2>1. u[k] = t[k - 1] /\ k - 1 \in 1..Len(t) /\ (k - 1) + 1 = k
    BY <1>1, <1>3, <1>4, <1>5
  <2>2. t[k - 1] = td[(k - 1) + 1]
    BY <1>3, <2>1
  <2> QED
    BY <2>1, <2>2
<1>7. u \in Seq(ToSet(u)) /\ Len(u) > 0
  <2>1. u \in Seq(ToSet(u))
    BY ONLY <1>5, ElementsOf, Zenon
  <2> QED
    BY <1>1, <1>5, <2>1
<1>8. \A k \in 1..Len(u) : StepOK(u[k])
  <2> TAKE k \in 1..Len(u)
  <2>1. CASE k = 1
    BY <1>5, <2>1
  <2>2. CASE k # 1
    BY <1>1, <1>5, <1>6, <2>2 DEF TodoOK, Fits
  <2> QED
    BY <2>1, <2>2
<1>9. \A k \in 1..(Len(u) - 1) : MayFollow(u[k][1], u[k + 1][1]) /\ Begins(u[k + 1])
  <2> TAKE k \in 1..(Len(u) - 1)
  <2>1. k \in 1..(Len(td) - 1) /\ u[k + 1] = td[k + 1] /\ (k # 1 => u[k] = td[k])
    BY <1>1, <1>5, <1>6
  <2>2. MayFollow(td[k][1], td[k + 1][1]) /\ Begins(td[k + 1])
    BY <2>1 DEF TodoOK, Fits
  <2>3. CASE k = 1
    BY <1>5, <2>1, <2>2, <2>3
  <2>4. CASE k # 1
    BY <2>1, <2>2, <2>4
  <2> QED
    BY <2>3, <2>4
<1>10. u[Len(u)][1] = "answer"
  BY <1>1, <1>5, <1>6 DEF TodoOK, Fits
<1>11. u # <<>>
  <2>1. Len(<<>>) = 0 /\ Len(u) # 0
    BY <1>7
  <2> QED
    BY <2>1, Zenon
<1> QED
  BY <1>5, <1>6, <1>7, <1>8, <1>9, <1>10, <1>11 DEF TodoOK, Fits

(* Steps that fit, one group after the other. *)
LEMMA JoinFits ==
  ASSUME NEW s, NEW t, Fits(s), Fits(t), MayFollow(s[Len(s)][1], t[1][1]), Begins(t[1])
  PROVE  /\ Fits(s \o t) /\ Len(s \o t) = Len(s) + Len(t)
         /\ \A k \in 1..Len(s) : (s \o t)[k] = s[k]
         /\ \A k \in 1..Len(t) : (s \o t)[Len(s) + k] = t[k]
<1> PICK u : u = s \o t
  OBVIOUS
<1> DEFINE S == ToSet(s) \cup ToSet(t)
<1>1. Len(s) \in Nat /\ Len(t) \in Nat /\ Len(s) > 0 /\ Len(t) > 0 /\ s \in Seq(S) /\ t \in Seq(S)
  BY DEF Fits
<1> HIDE DEF S
<1>2. /\ u \in Seq(S) /\ Len(u) = Len(s) + Len(t)
      /\ \A k \in 1..(Len(s) + Len(t)) : u[k] = IF k <= Len(s) THEN s[k] ELSE t[k - Len(s)]
  BY ONLY <1>1, u = s \o t, ConcatProperties, Zenon
<1>3. \A k \in 1..Len(s) : u[k] = s[k]
  BY <1>1, <1>2
<1>4. \A k \in 1..Len(t) : u[Len(s) + k] = t[k]
  <2> TAKE k \in 1..Len(t)
  <2>1. Len(s) + k \in 1..(Len(s) + Len(t)) /\ ~(Len(s) + k <= Len(s)) /\ (Len(s) + k) - Len(s) = k
    BY <1>1
  <2> QED
    BY <1>2, <2>1
<1>5. u \in Seq(ToSet(u))
  BY ONLY <1>2, ElementsOf, Zenon
<1>6. \A k \in 1..Len(u) : StepOK(u[k])
  <2> TAKE k \in 1..Len(u)
  <2>1. CASE k <= Len(s)
    BY <1>1, <1>2, <1>3, <2>1 DEF Fits
  <2>2. CASE ~(k <= Len(s))
    <3>1. u[k] = t[k - Len(s)] /\ k - Len(s) \in 1..Len(t)
      BY <1>1, <1>2, <2>2
    <3> QED
      BY <3>1 DEF Fits
  <2> QED
    BY <2>1, <2>2
<1>7. \A k \in 1..(Len(u) - 1) : MayFollow(u[k][1], u[k + 1][1]) /\ Begins(u[k + 1])
  <2> TAKE k \in 1..(Len(u) - 1)
  <2>1. CASE k < Len(s)
    <3>1. k \in 1..(Len(s) - 1) /\ u[k] = s[k] /\ u[k + 1] = s[k + 1]
      BY <1>1, <1>2, <1>3, <2>1
    <3> QED
      BY <3>1 DEF Fits
  <2>2. CASE k = Len(s)
    <3>1. u[k] = s[Len(s)] /\ u[k + 1] = t[1]
      BY <1>1, <1>2, <1>3, <1>4, <2>2
    <3> QED
      BY <3>1
  <2>3. CASE k > Len(s)
    <3> DEFINE j == k - Len(s)
    <3>1. j \in 1..(Len(t) - 1) /\ j \in 1..Len(t) /\ j + 1 \in 1..Len(t) /\ Len(s) + j = k /\ Len(s) + (j + 1) = k + 1
      BY <1>1, <1>2, <2>3
    <3>2. u[k] = t[j] /\ u[k + 1] = t[j + 1]
      BY <1>4, <3>1
    <3> HIDE DEF j
    <3>3. MayFollow(t[j][1], t[j + 1][1]) /\ Begins(t[j + 1])
      BY <3>1 DEF Fits
    <3> QED
      BY <3>2, <3>3
  <2> QED
    BY <1>1, <2>1, <2>2, <2>3
<1>8. Len(u) > 0
  BY <1>1, <1>2
<1>9. Fits(u)
  BY ONLY <1>5, <1>6, <1>7, <1>8 DEF Fits
<1> QED
  BY ONLY <1>2, <1>3, <1>4, <1>9, u = s \o t

(* One step fits. *)
LEMMA OneFits ==
  ASSUME NEW a, StepOK(a)
  PROVE  Fits(<<a>>) /\ Len(<<a>>) = 1 /\ <<a>>[1] = a
<1>1. Len(<<a>>) = 1 /\ <<a>>[1] = a /\ <<a>> \in Seq({a})
  OBVIOUS
<1>2. <<a>> \in Seq(ToSet(<<a>>))
  BY ONLY <1>1, ElementsOf, Zenon
<1> QED
  BY <1>1, <1>2 DEF Fits

(* Two steps that fit together. *)
LEMMA TwoFit ==
  ASSUME NEW a, NEW b, StepOK(a), StepOK(b), MayFollow(a[1], b[1]), Begins(b)
  PROVE  Fits(<<a, b>>) /\ Len(<<a, b>>) = 2 /\ <<a, b>>[1] = a /\ <<a, b>>[2] = b
<1>1. Len(<<a, b>>) = 2 /\ <<a, b>>[1] = a /\ <<a, b>>[2] = b /\ <<a, b>> \in Seq({a, b})
  OBVIOUS
<1>2. <<a, b>> \in Seq(ToSet(<<a, b>>))
  BY ONLY <1>1, ElementsOf, Zenon
<1> PICK s : s = <<a, b>>
  OBVIOUS
<1>3. Fits(s)
  BY <1>1, <1>2 DEF Fits
<1> QED
  BY <1>1, <1>3

(* Three steps that fit together. *)
LEMMA ThreeFit ==
  ASSUME NEW a, NEW b, NEW c, StepOK(a), StepOK(b), StepOK(c),
         MayFollow(a[1], b[1]), Begins(b), MayFollow(b[1], c[1]), Begins(c)
  PROVE  /\ Fits(<<a, b, c>>) /\ Len(<<a, b, c>>) = 3
         /\ <<a, b, c>>[1] = a /\ <<a, b, c>>[2] = b /\ <<a, b, c>>[3] = c
<1>1. /\ Len(<<a, b, c>>) = 3 /\ <<a, b, c>>[1] = a /\ <<a, b, c>>[2] = b /\ <<a, b, c>>[3] = c
      /\ <<a, b, c>> \in Seq({a, b, c})
  OBVIOUS
<1>2. <<a, b, c>> \in Seq(ToSet(<<a, b, c>>))
  BY ONLY <1>1, ElementsOf, Zenon
<1> PICK s : s = <<a, b, c>>
  OBVIOUS
<1>3. \A k \in 1..Len(s) : StepOK(s[k])
  BY <1>1
<1>4. \A k \in 1..(Len(s) - 1) : MayFollow(s[k][1], s[k + 1][1]) /\ Begins(s[k + 1])
  <2> TAKE k \in 1..(Len(s) - 1)
  <2>1. k = 1 \/ k = 2
    BY <1>1
  <2> QED
    BY <1>1, <2>1
<1>5. Fits(s)
  BY <1>1, <1>2, <1>3, <1>4 DEF Fits
<1> QED
  BY <1>1, <1>5

(* The steps of load_program() fit together. *)
LEMMA LoadFits ==
  ASSUME NEW i \in DOMAIN Programs
  PROVE  Fits(LoadSteps(i)) /\ LoadSteps(i)[1][1] = "clear" /\ LoadSteps(i)[Len(LoadSteps(i))][1] = "load"
<1>1. Fits(KernelSteps) /\ Len(KernelSteps) = 2 /\ KernelSteps[1] = <<"clear">> /\ KernelSteps[2] = <<"kernel", 0>>
  <2>1. StepOK(<<"clear">>) /\ <<"clear">>[1] = "clear"
    BY DEF StepOK
  <2>2. 0 \in KernelDirs
    BY ConstantTypes DEF KernelDirs
  <2>3. StepOK(<<"kernel", 0>>) /\ Begins(<<"kernel", 0>>) /\ <<"kernel", 0>>[1] = "kernel"
    BY <2>2 DEF StepOK, Begins
  <2>4. MayFollow("clear", "kernel")
    BY DEF MayFollow
  <2> QED
    BY <2>1, <2>3, <2>4, TwoFit DEF KernelSteps
<1>2. /\ Fits(StackSteps) /\ Len(StackSteps) = 2
      /\ StackSteps[1] = <<"table", KOFFSET - 1>> /\ StackSteps[2] = <<"stack", PageOf(StackTop)>>
  <2>1. StepOK(<<"table", KOFFSET - 1>>) /\ <<"table", KOFFSET - 1>>[1] = "table"
    BY DEF StepOK
  <2>2. PageOf(StackTop) \in (PageOf(StackTop) - NR_STACK + 1)..PageOf(StackTop)
    BY ConstantTypes, StackPages
  <2> DEFINE s == <<"stack", PageOf(StackTop)>>
  <2>3. s[1] = "stack" /\ s[2] = PageOf(StackTop)
    OBVIOUS
  <2> HIDE DEF s
  <2>4. StepOK(s) /\ Begins(s)
    BY <2>2, <2>3 DEF StepOK, Begins
  <2>5. MayFollow("table", "stack")
    BY DEF MayFollow
  <2> DEFINE t == <<"table", KOFFSET - 1>>
  <2> HIDE DEF t
  <2>6. StepOK(t) /\ t[1] = "table"
    BY <2>1 DEF t
  <2>7. Fits(<<t, s>>) /\ Len(<<t, s>>) = 2 /\ <<t, s>>[1] = t /\ <<t, s>>[2] = s
    BY <2>3, <2>4, <2>5, <2>6, TwoFit
  <2>8. StackSteps = <<t, s>>
    BY DEF StackSteps, s, t
  <2> QED
    BY <2>7, <2>8 DEF s, t
<1> DEFINE l == <<"load", i, 1>>
<1>3. StepOK(l) /\ Begins(l) /\ l[1] = "load"
  BY DEF StepOK, Begins
<1> HIDE DEF l
<1>4. Fits(<<l>>) /\ Len(<<l>>) = 1 /\ <<l>>[1] = l
  BY <1>3, OneFits
<1>5. MayFollow("kernel", "table") /\ MayFollow("stack", "load") /\ Begins(StackSteps[1])
  BY <1>2 DEF MayFollow, Begins
<1> DEFINE ks == KernelSteps \o StackSteps
<1>6. /\ Fits(ks) /\ Len(ks) = 4 /\ ks[1] = KernelSteps[1] /\ ks[4] = StackSteps[2]
  <2> PICK x : x = KernelSteps
    OBVIOUS
  <2> PICK y : y = StackSteps
    OBVIOUS
  <2>0. Len(x) = 2 /\ Len(y) = 2
    BY <1>1, <1>2
  <2>1. Fits(x) /\ Fits(y) /\ MayFollow(x[Len(x)][1], y[1][1]) /\ Begins(y[1])
    BY <1>1, <1>2, <1>5
  <2>2. /\ Fits(x \o y) /\ Len(x \o y) = Len(x) + Len(y)
        /\ \A k \in 1..Len(x) : (x \o y)[k] = x[k]
        /\ \A k \in 1..Len(y) : (x \o y)[Len(x) + k] = y[k]
    BY ONLY <2>1, JoinFits
  <2>3. Len(x \o y) = 4 /\ (x \o y)[1] = x[1] /\ (x \o y)[4] = y[2]
    BY <2>0, <2>2
  <2> QED
    BY <2>2, <2>3
<1>7. LoadSteps(i) = ks \o <<l>>
  BY DEF LoadSteps, l
<1> HIDE DEF ks
<1> PICK y : y = <<l>>
  OBVIOUS
<1>8. Fits(ks) /\ Fits(y) /\ MayFollow(ks[Len(ks)][1], y[1][1]) /\ Begins(y[1])
  BY <1>2, <1>3, <1>4, <1>5, <1>6, <1>7
<1>9. /\ Fits(ks \o y) /\ Len(ks \o y) = Len(ks) + Len(y)
      /\ \A k \in 1..Len(ks) : (ks \o y)[k] = ks[k]
      /\ \A k \in 1..Len(y) : (ks \o y)[Len(ks) + k] = y[k]
  BY ONLY <1>8, JoinFits
<1>10. Len(ks \o y) = 5 /\ (ks \o y)[1] = KernelSteps[1] /\ (ks \o y)[5] = l
  BY <1>4, <1>6, <1>9
<1> QED
  BY <1>1, <1>3, <1>7, <1>9, <1>10

(* Where sequences of steps are joined, the ends stay. *)
LEMMA JoinEnds ==
  ASSUME NEW s, NEW t, Fits(s), Fits(t), MayFollow(s[Len(s)][1], t[1][1]), Begins(t[1])
  PROVE  Fits(s \o t) /\ (s \o t)[1] = s[1] /\ (s \o t)[Len(s \o t)] = t[Len(t)]
<1>1. /\ Fits(s \o t) /\ Len(s \o t) = Len(s) + Len(t)
      /\ \A k \in 1..Len(s) : (s \o t)[k] = s[k]
      /\ \A k \in 1..Len(t) : (s \o t)[Len(s) + k] = t[k]
  BY ONLY Fits(s), Fits(t), MayFollow(s[Len(s)][1], t[1][1]), Begins(t[1]), JoinFits
<1>2. Len(s) \in Nat /\ Len(t) \in Nat /\ Len(s) > 0 /\ Len(t) > 0
  BY DEF Fits
<1>3. 1 \in 1..Len(s) /\ Len(t) \in 1..Len(t)
  BY <1>2
<1> QED
  BY ONLY <1>1, <1>3

\* A single step.
Single(a) == <<a>>

(* One step fits. *)
LEMMA SingleFits ==
  ASSUME NEW a, StepOK(a)
  PROVE  Fits(Single(a)) /\ Single(a)[1] = a /\ Single(a)[Len(Single(a))] = a
BY OneFits DEF Single

(* The answer goes behind the steps of a request. *)
LEMMA AnswerLast ==
  ASSUME NEW s, Fits(s), NEW c, MayFollow(s[Len(s)][1], "answer")
  PROVE  TodoOK(s \o << <<"answer", c>> >>) /\ (s \o << <<"answer", c>> >>)[1] = s[1]
<1> DEFINE a == <<"answer", c>>
<1>1. StepOK(a) /\ Begins(a) /\ a[1] = "answer"
  BY DEF StepOK, Begins
<1> HIDE DEF a
<1> DEFINE t == Single(a)
<1>2. Fits(t) /\ t[1] = a /\ t[Len(t)] = a
  BY <1>1, SingleFits
<1> HIDE DEF t
<1>3. Fits(t) /\ MayFollow(s[Len(s)][1], t[1][1]) /\ Begins(t[1])
  BY <1>1, <1>2
<1>4. Fits(s \o t) /\ (s \o t)[1] = s[1] /\ (s \o t)[Len(s \o t)] = t[Len(t)]
  BY ONLY Fits(s), <1>3, JoinEnds
<1>5. t = << <<"answer", c>> >>
  BY DEF t, a, Single
<1> QED
  BY <1>1, <1>2, <1>4, <1>5 DEF TodoOK

(* The steps of each request fit. *)
LEMMA CreateFits ==
  ASSUME NEW i \in DOMAIN Programs, NEW c
  PROVE  TodoOK(LoadSteps(i) \o << <<"answer", c>> >>) /\ (LoadSteps(i) \o << <<"answer", c>> >>)[1][1] = "clear"
<1>1. MayFollow("load", "answer")
  BY DEF MayFollow
<1> QED
  BY <1>1, LoadFits, AnswerLast

(* The steps of fork(). *)
LEMMA ForkFits ==
  ASSUME NEW p, NEW c
  PROVE  TodoOK(CopySteps(p) \o << <<"answer", c>> >>) /\ (CopySteps(p) \o << <<"answer", c>> >>)[1][1] = "clear"
<1> DEFINE t == <<"copy_table", p, KERNEL_DIRS>>
<1>1. StepOK(t) /\ Begins(t) /\ t[1] = "copy_table"
  BY ConstantTypes DEF StepOK, Begins
<1> HIDE DEF t
<1>2. Fits(Single(t)) /\ Single(t)[1] = t /\ Single(t)[Len(Single(t))] = t
  BY <1>1, SingleFits
<1> DEFINE y == Single(t)
<1> HIDE DEF y
<1> PICK x : x = KernelSteps
  OBVIOUS
<1>3. Fits(x) /\ x[1] = <<"clear">> /\ x[Len(x)] = <<"kernel", 0>>
  <2>1. StepOK(<<"clear">>) /\ <<"clear">>[1] = "clear"
    BY DEF StepOK
  <2>2. 0 \in KernelDirs
    BY ConstantTypes DEF KernelDirs
  <2>3. StepOK(<<"kernel", 0>>) /\ Begins(<<"kernel", 0>>) /\ <<"kernel", 0>>[1] = "kernel"
    BY <2>2 DEF StepOK, Begins
  <2>4. MayFollow("clear", "kernel")
    BY DEF MayFollow
  <2> QED
    BY <2>1, <2>3, <2>4, TwoFit DEF KernelSteps
<1>4. MayFollow("kernel", "copy_table") /\ MayFollow("copy_table", "answer")
  BY DEF MayFollow
<1>5. Fits(y) /\ y[1] = t /\ y[Len(y)] = t
  BY <1>2 DEF y
<1>6. Fits(x) /\ Fits(y) /\ MayFollow(x[Len(x)][1], y[1][1]) /\ Begins(y[1])
  BY <1>1, <1>3, <1>4, <1>5
<1>7. Fits(x \o y) /\ (x \o y)[1] = x[1] /\ (x \o y)[Len(x \o y)] = y[Len(y)]
  BY ONLY <1>6, JoinEnds
<1>8. CopySteps(p) = x \o y
  BY DEF CopySteps, y, t, Single
<1>9. Fits(CopySteps(p)) /\ CopySteps(p)[1] = <<"clear">> /\ MayFollow(CopySteps(p)[Len(CopySteps(p))][1], "answer")
  BY <1>1, <1>3, <1>4, <1>5, <1>7, <1>8
<1>10. <<"clear">>[1] = "clear"
  OBVIOUS
<1> QED
  BY <1>9, <1>10, AnswerLast

(* The steps of exec(). *)
LEMMA ExecFits ==
  ASSUME NEW i \in DOMAIN Programs, NEW a, NEW c
  PROVE  LET s == << <<"strlen", a, a, 0>> >> \o (<< <<"takeback">> >> \o LoadSteps(i) \o << <<"args">> >>)
                    \o << <<"answer", c>> >>
         IN TodoOK(s) /\ s[1][1] = "strlen" /\ s[1] = <<"strlen", a, a, 0>>
<1> DEFINE b == <<"takeback">>
           g == <<"args">>
           h == <<"strlen", a, a, 0>>
<1>1. StepOK(b) /\ Begins(b) /\ b[1] = "takeback" /\ StepOK(g) /\ Begins(g) /\ g[1] = "args" /\ StepOK(h) /\ h[1] = "strlen"
  BY DEF StepOK, Begins
<1> HIDE DEF b, g, h
<1>2. /\ MayFollow("takeback", "clear") /\ MayFollow("load", "args") /\ MayFollow("strlen", "takeback")
      /\ MayFollow("args", "answer")
  BY DEF MayFollow
<1>3. Fits(Single(b)) /\ Single(b)[1] = b /\ Single(b)[Len(Single(b))] = b
  BY <1>1, SingleFits
<1>4. Fits(Single(g)) /\ Single(g)[1] = g /\ Single(g)[Len(Single(g))] = g
  BY <1>1, SingleFits
<1>5. Fits(Single(h)) /\ Single(h)[1] = h /\ Single(h)[Len(Single(h))] = h
  BY <1>1, SingleFits
<1> PICK x : x = LoadSteps(i)
  OBVIOUS
<1>6. Fits(x) /\ x[1][1] = "clear" /\ x[Len(x)][1] = "load"
  BY LoadFits
<1>7. Begins(x[1])
  BY <1>6 DEF Begins
<1> DEFINE bx == Single(b) \o x
           bxg == bx \o Single(g)
           all == Single(h) \o bxg
<1>8. Fits(bx) /\ bx[1] = b /\ bx[Len(bx)][1] = "load"
  <2>1. Fits(Single(b)) /\ Fits(x) /\ MayFollow(Single(b)[Len(Single(b))][1], x[1][1]) /\ Begins(x[1])
    BY <1>1, <1>2, <1>3, <1>6, <1>7
  <2>2. Fits(bx) /\ bx[1] = Single(b)[1] /\ bx[Len(bx)] = x[Len(x)]
    BY ONLY <2>1, JoinEnds
  <2> QED
    BY <1>3, <1>6, <2>2
<1> HIDE DEF bx
<1>9. Fits(bxg) /\ bxg[1] = b /\ bxg[Len(bxg)] = g
  <2>1. Fits(bx) /\ Fits(Single(g)) /\ MayFollow(bx[Len(bx)][1], Single(g)[1][1]) /\ Begins(Single(g)[1])
    BY <1>1, <1>2, <1>4, <1>8
  <2>2. Fits(bxg) /\ bxg[1] = bx[1] /\ bxg[Len(bxg)] = Single(g)[Len(Single(g))]
    BY ONLY <2>1, JoinEnds
  <2> QED
    BY <1>4, <1>8, <2>2
<1> HIDE DEF bxg
<1>10. Fits(all) /\ all[1] = h /\ all[Len(all)] = g
  <2>1. Fits(Single(h)) /\ Fits(bxg) /\ MayFollow(Single(h)[Len(Single(h))][1], bxg[1][1]) /\ Begins(bxg[1])
    BY <1>1, <1>2, <1>5, <1>9
  <2>2. Fits(all) /\ all[1] = Single(h)[1] /\ all[Len(all)] = bxg[Len(bxg)]
    BY ONLY <2>1, JoinEnds
  <2> QED
    BY <1>5, <1>9, <2>2
<1>11. all = << <<"strlen", a, a, 0>> >> \o (<< <<"takeback">> >> \o LoadSteps(i) \o << <<"args">> >>)
  BY DEF bxg, bx, b, g, h, Single
<1> HIDE DEF all
<1>12. MayFollow(all[Len(all)][1], "answer")
  BY <1>1, <1>2, <1>10
<1>13. TodoOK(all \o << <<"answer", c>> >>) /\ (all \o << <<"answer", c>> >>)[1] = all[1]
  BY <1>10, <1>12, AnswerLast
<1>14. h = <<"strlen", a, a, 0>>
  BY DEF h
<1> QED
  BY <1>1, <1>10, <1>11, <1>13, <1>14

(* exit(), and exec() of a program that cannot be opened. *)
LEMMA ShortFits ==
  ASSUME NEW s, StepOK(s), s[1] \in {"strlen", "takeback"}, NEW c
  PROVE  TodoOK(<<s>> \o << <<"answer", c>> >>) /\ (<<s>> \o << <<"answer", c>> >>)[1][1] = s[1]
<1>1. Fits(<<s>>) /\ Len(<<s>>) = 1 /\ <<s>>[1] = s
  BY OneFits
<1>2. MayFollow(s[1], "answer")
  BY DEF MayFollow
<1> QED
  BY <1>1, <1>2, AnswerLast
-----------------------------------------------------------------------------
(* One lemma per action. *)

(* The step that is being done. *)
LEMMA InHand ==
  ASSUME MemoryInv, NEW op, Doing(op)
  PROVE  /\ pcb \in Pcbs /\ pcb # None /\ TodoOK(todo) /\ Ready(todo, pdir, ptes, spaces, pcb)
         /\ todo[1][1] = op /\ Head(todo) = todo[1] /\ StepOK(todo[1])
         /\ op \notin {"clear", "answer"} => pcb \in spaces
<1>1. todo # <<>> /\ Head(todo)[1] = op
  BY DEF Doing
<1>2. pcb \in Pcbs /\ pcb # None /\ TodoOK(todo) /\ Ready(todo, pdir, ptes, spaces, pcb)
  BY <1>1 DEF MemoryInv
<1>3. todo \in Seq(ToSet(todo)) /\ Len(todo) > 0
  BY <1>2 DEF TodoOK, Fits
<1>4. Head(todo) = todo[1] /\ 1 \in 1..Len(todo)
  BY <1>3
<1>5. StepOK(todo[1])
  BY <1>2, <1>4 DEF TodoOK, Fits
<1>6. op \notin {"clear", "answer"} => pcb \in spaces
  BY <1>1, <1>2, <1>4 DEF Ready
<1> QED
  BY <1>1, <1>2, <1>4, <1>5, <1>6

(* Nobody is between maps but the PCB whose kernel is being mapped. *)
LEMMA AllWhole ==
  ASSUME MemoryInv, pcb = None \/ todo[1][1] # "kernel"
  PROVE  \A q \in spaces : KernelUpTo(pdir, ptes, q, KERNEL_DIRS)
<1>1. \A q \in spaces : q # None
  BY MemoryAssumption DEF MemoryInv, MapType
<1> QED
  BY <1>1 DEF MemoryInv, Whole

(* Every address space has the kernel. *)
LEMMA WholeWhenAll ==
  ASSUME NEW td, NEW pd, NEW pt, NEW S, NEW p, \A q \in S : KernelUpTo(pd, pt, q, KERNEL_DIRS)
  PROVE  Whole(td, pd, pt, S, p)
BY DEF Whole

(* A step that leaves the maps alone. *)
LEMMA MapsKept ==
  ASSUME MemoryInv, UNCHANGED <<page_bitmap, bitmap_idx, pdir, ptes, spaces>>,
         pcb = None \/ todo[1][1] # "kernel"
  PROVE  /\ MapType' /\ Exact(pdir, ptes, spaces, Marked)'
         /\ Whole(todo, pdir, ptes, spaces, pcb)'
<1>1. MapType'
  BY DEF MemoryInv, MapType
<1>2. Marked' = Marked
  BY DEF Marked, Busy
<1>3. Exact(pdir, ptes, spaces, Marked)'
  <2>1. Exact(pdir, ptes, spaces, Marked)
    BY DEF MemoryInv
  <2> QED
    BY <1>2, <2>1
<1>4. \A q \in spaces' : KernelUpTo(pdir', ptes', q, KERNEL_DIRS)
  BY AllWhole
<1> QED
  BY <1>1, <1>3, <1>4, WholeWhenAll

(* After a step that is done the next one is first. *)
LEMMA AfterDone ==
  ASSUME MemoryInv, NEW op, Doing(op), op # "answer", Done
  PROVE  /\ TodoOK(todo') /\ todo' # <<>> /\ todo'[1] = todo[2] /\ Len(todo') = Len(todo) - 1
         /\ Len(todo) \in Nat /\ \A k \in 1..(Len(todo) - 1) : todo'[k] = todo[k + 1]
         /\ MayFollow(op, todo[2][1]) /\ StepOK(todo[2]) /\ Begins(todo[2])
<1>1. TodoOK(todo) /\ todo[1][1] = op
  BY InHand
<1>2. /\ Len(todo) \in Nat /\ Len(todo) > 1
      /\ MayFollow(todo[1][1], todo[2][1]) /\ StepOK(todo[2]) /\ Begins(todo[2])
  BY <1>1, StepAfter
<1>3. /\ TodoOK(Tail(todo)) /\ Tail(todo) # <<>> /\ Len(Tail(todo)) = Len(todo) - 1
      /\ \A k \in 1..(Len(todo) - 1) : Tail(todo)[k] = todo[k + 1]
  BY <1>1, OneStepLess
<1>4. todo' = Tail(todo)
  BY DEF Done
<1>5. Tail(todo)[1] = todo[2]
  BY <1>2, <1>3
<1> QED
  BY <1>1, <1>2, <1>3, <1>4, <1>5

(* After a turn of a loop another turn, or another step, is first. *)
LEMMA AfterThen ==
  ASSUME MemoryInv, NEW op, Doing(op), op # "answer", NEW s, Then(s), StepOK(s), MayFollow(s[1], todo[2][1])
  PROVE  /\ TodoOK(todo') /\ todo' # <<>> /\ todo'[1] = s /\ Len(todo') = Len(todo)
         /\ Len(todo) \in Nat /\ Len(todo) > 1 /\ \A k \in 2..Len(todo) : todo'[k] = todo[k]
<1>1. TodoOK(todo) /\ todo[1][1] = op
  BY InHand
<1>2. Len(todo) \in Nat /\ Len(todo) > 1
  BY <1>1, StepAfter
<1>3. /\ TodoOK(<<s>> \o Tail(todo)) /\ <<s>> \o Tail(todo) # <<>>
      /\ Len(<<s>> \o Tail(todo)) = Len(todo)
      /\ (<<s>> \o Tail(todo))[1] = s
      /\ \A k \in 2..Len(todo) : (<<s>> \o Tail(todo))[k] = todo[k]
  BY <1>1, NewStep
<1>4. todo' = <<s>> \o Tail(todo)
  BY DEF Then
<1> QED
  BY <1>2, <1>3, <1>4

(* What follows the step in hand, and what follows that. *)
LEMMA NextStep ==
  ASSUME MemoryInv, NEW op, Doing(op), op # "answer"
  PROVE  /\ Len(todo) \in Nat /\ Len(todo) > 1
         /\ MayFollow(op, todo[2][1]) /\ StepOK(todo[2]) /\ Begins(todo[2])
         /\ todo[2][1] # "answer" => /\ Len(todo) > 2 /\ StepOK(todo[3])
                                     /\ MayFollow(todo[2][1], todo[3][1]) /\ Begins(todo[3])
<1>1. TodoOK(todo) /\ todo[1][1] = op
  BY InHand
<1>2. /\ Len(todo) \in Nat /\ Len(todo) > 1
      /\ MayFollow(todo[1][1], todo[2][1]) /\ StepOK(todo[2]) /\ Begins(todo[2])
  BY <1>1, StepAfter
<1>3. ASSUME todo[2][1] # "answer"
      PROVE  /\ Len(todo) > 2 /\ StepOK(todo[3])
             /\ MayFollow(todo[2][1], todo[3][1]) /\ Begins(todo[3])
  <2>1. Len(todo) # 2
    BY <1>1, <1>3 DEF TodoOK
  <2>2. Len(todo) > 2 /\ 2 \in 1..(Len(todo) - 1) /\ 3 \in 1..Len(todo) /\ 2 + 1 = 3
    BY <1>2, <2>1, SMTT(30)
  <2> QED
    BY <1>1, <2>2 DEF TodoOK, Fits
<1> QED
  BY <1>1, <1>2, <1>3

(* What is free above a page is free above the pages after it. *)
LEMMA AboveLater ==
  ASSUME NEW pd, NEW pt, NEW p, NEW v, NEW w, ProgramPage(v), ProgramPage(w), v <= w, Above(pd, pt, p, v)
  PROVE  Above(pd, pt, p, w)
<1>1. v \in Nat /\ w \in Nat /\ DirOf(w) \in KERNEL_DIRS..(KOFFSET - 2) /\ DirOf(v) \in KERNEL_DIRS..(KOFFSET - 2)
  BY DEF ProgramPage
<1>2. DirOf(v) <= DirOf(w) /\ (DirOf(v) = DirOf(w) => EntryOf(v) <= EntryOf(w))
  BY <1>1, OrderOfPages
<1>3. EntryOf(v) \in Nat /\ EntryOf(w) \in Nat /\ DirOf(v) \in Nat /\ DirOf(w) \in Nat
  BY <1>1, PlaceOfPage
<1>4. KOFFSET \in Nat /\ NR_PTE \in Nat /\ Entries \subseteq Nat
  BY ConstantTypes DEF Entries
<1>5. CASE DirOf(v) = DirOf(w)
  BY <1>2, <1>3, <1>4, <1>5 DEF Above
<1>6. CASE DirOf(v) < DirOf(w)
  <2>1. pd[p][DirOf(w)] = None
    BY <1>1, <1>3, <1>4, <1>6 DEF Above
  <2>2. \A d \in (DirOf(w) + 1)..(KOFFSET - 2) : pd[p][d] = None
    BY <1>1, <1>3, <1>4, <1>6 DEF Above
  <2> QED
    BY <2>1, <2>2 DEF Above
<1> QED
  BY <1>2, <1>3, <1>5, <1>6

(* A segment begins in a page of the program. *)
LEMMA SegmentStart ==
  ASSUME NEW i \in DOMAIN Programs, NEW k \in Nat \ {0}, NEW m \in ToLoad(i, k)
  PROVE  ProgramPage(Start(i, m))
<1>1. Len(Programs[i]) \in Nat
  BY ProgramAssumption
<1>2. m \in 1..Len(Programs[i]) /\ Programs[i][m].memsz > 0
  BY <1>1 DEF ToLoad
<1> QED
  BY <1>2, SegmentPages

(* There is room for the segments behind a page above which nothing is mapped. *)
LEMMA RoomBehind ==
  ASSUME NEW pd, NEW pt, NEW p, NEW v, NEW s, StepOK(s), s[1] = "load",
         ProgramPage(v), Above(pd, pt, p, v), InFront(v, s)
  PROVE  Room(pd, pt, p, s[2], s[3])
<1> SUFFICES ASSUME NEW m \in ToLoad(s[2], s[3])
             PROVE  Above(pd, pt, p, Start(s[2], m))
  BY DEF Room
<1>1. v <= Start(s[2], m)
  BY DEF InFront
<1>2. ProgramPage(Start(s[2], m))
  BY SegmentStart DEF StepOK
<1> QED
  BY <1>1, <1>2, AboveLater

(* load_segment(): no page is left. *)
LEMMA LastPageStep == ASSUME MemoryInv, LastPage PROVE MemoryInv'
<1>1. Doing("next") /\ Arg(3) = 0 /\ Done /\ UNCHANGED <<page_bitmap, bitmap_idx, pdir, ptes, spaces, pcb>>
  BY DEF LastPage, Rest
<1>2. /\ pcb \in Pcbs /\ pcb # None /\ TodoOK(todo) /\ Ready(todo, pdir, ptes, spaces, pcb)
      /\ todo[1][1] = "next" /\ Head(todo) = todo[1] /\ StepOK(todo[1]) /\ pcb \in spaces
  BY <1>1, InHand
<1>3. MapType' /\ Exact(pdir, ptes, spaces, Marked)' /\ Whole(todo, pdir, ptes, spaces, pcb)'
  BY <1>1, <1>2, MapsKept
<1>4. /\ TodoOK(todo') /\ todo' # <<>> /\ todo'[1] = todo[2] /\ todo'[2] = todo[3] /\ todo[2][1] = "from"
      /\ StepOK(todo[3])
  <2>1. /\ Len(todo) \in Nat /\ Len(todo) > 1 /\ MayFollow("next", todo[2][1])
        /\ todo[2][1] # "answer" => Len(todo) > 2 /\ StepOK(todo[3])
    BY <1>1, NextStep
  <2>2. todo[2][1] = "from" /\ 2 \in 1..(Len(todo) - 1) /\ 2 + 1 = 3
    BY <2>1 DEF MayFollow
  <2>3. /\ TodoOK(todo') /\ todo' # <<>> /\ todo'[1] = todo[2]
        /\ \A k \in 1..(Len(todo) - 1) : todo'[k] = todo[k + 1]
    BY <1>1, AfterDone
  <2> QED
    BY <2>1, <2>2, <2>3
<1>5. todo'[2][1] = "load" => Room(pdir, ptes, pcb, todo'[2][2], todo'[2][3])
  <2>1. PICK v \in Nat : ProgramPage(v) /\ Above(pdir, ptes, pcb, v) /\ InFront(v + 0, todo[3])
    BY <1>1, <1>2 DEF Ready, Arg, ProgramPage
  <2>2. InFront(v, todo[3])
    BY <2>1
  <2> QED
    BY <1>4, <2>1, <2>2, RoomBehind
<1>6. Ready(todo', pdir', ptes', spaces', pcb')
  BY <1>1, <1>2, <1>4, <1>5 DEF Ready
<1> QED
  BY <1>1, <1>2, <1>3, <1>4, <1>6 DEF MemoryInv

(* load_program(): the next segment. *)
LEMMA LoadSegmentStep == ASSUME MemoryInv, LoadSegment PROVE MemoryInv'
<1> DEFINE i == todo[1][2]
           k == todo[1][3]
           l == <<"load", i, k + 1>>
<1>1. Doing("load") /\ UNCHANGED <<page_bitmap, bitmap_idx, pdir, ptes, spaces, pcb>>
  BY DEF LoadSegment, Rest
<1>2. /\ pcb \in Pcbs /\ pcb # None /\ TodoOK(todo) /\ Ready(todo, pdir, ptes, spaces, pcb)
      /\ todo[1][1] = "load" /\ Head(todo) = todo[1] /\ StepOK(todo[1]) /\ pcb \in spaces
  BY <1>1, InHand
<1>3. MapType' /\ Exact(pdir, ptes, spaces, Marked)' /\ Whole(todo, pdir, ptes, spaces, pcb)'
  BY <1>1, <1>2, MapsKept
<1>4. i \in DOMAIN Programs /\ k \in Nat \ {0} /\ Len(Programs[i]) \in Nat /\ Room(pdir, ptes, pcb, i, k)
  BY <1>2, ProgramAssumption DEF StepOK, Ready
<1>5. /\ Len(todo) \in Nat /\ Len(todo) > 1 /\ todo[2][1] \in {"args", "answer"}
      /\ StepOK(todo[2]) /\ Begins(todo[2])
  BY <1>1, NextStep, SMTT(60) DEF MayFollow
<1>6. \/ k > Len(Programs[i]) /\ Done
      \/ k <= Len(Programs[i]) /\ Programs[i][k].memsz = 0 /\ Then(l)
      \/ /\ k <= Len(Programs[i]) /\ Programs[i][k].memsz > 0
         /\ todo' = SegmentSteps(i, Programs[i][k]) \o <<l>> \o Tail(todo)
  BY <1>2 DEF LoadSegment, Arg
<1>7. l[1] = "load" /\ l[2] = i /\ l[3] = k + 1
  OBVIOUS
<1>8. StepOK(l) /\ Begins(l) /\ MayFollow(l[1], todo[2][1])
  BY <1>4, <1>5, <1>7 DEF StepOK, MayFollow, Begins
<1> HIDE DEF l, i, k
<1>9. Room(pdir, ptes, pcb, i, k + 1)
  BY <1>4 DEF Room, ToLoad
<1>10. CASE k > Len(Programs[i]) /\ Done
  <2>1. TodoOK(todo') /\ todo' # <<>> /\ todo'[1] = todo[2]
    BY <1>1, <1>10, AfterDone
  <2>2. Ready(todo', pdir', ptes', spaces', pcb')
    BY <1>1, <1>2, <1>5, <2>1 DEF Ready
  <2> QED
    BY <1>1, <1>2, <1>3, <2>1, <2>2 DEF MemoryInv
<1>11. CASE Then(l)
  <2>1. TodoOK(todo') /\ todo' # <<>> /\ todo'[1] = l
    BY <1>1, <1>8, <1>11, AfterThen
  <2>2. Ready(todo', pdir', ptes', spaces', pcb')
    BY <1>1, <1>2, <1>7, <1>9, <2>1 DEF Ready
  <2> QED
    BY <1>1, <1>2, <1>3, <2>1, <2>2 DEF MemoryInv
<1>12. CASE /\ k <= Len(Programs[i]) /\ Programs[i][k].memsz > 0
            /\ todo' = SegmentSteps(i, Programs[i][k]) \o <<l>> \o Tail(todo)
  <2> DEFINE ph == Programs[i][k]
             v == Start(i, k)
             n == RestPages(ph)
             a == <<"first", v>>
             b == <<"next", v + 1, n>>
             c == ReadElf(i, ph)
             sg == <<a, b, c>>
  <2>1. k \in 1..Len(Programs[i])
    BY <1>4, <1>12
  <2>2. /\ n \in Nat /\ ProgramPage(v) /\ ProgramPage(v + n)
        /\ \A m \in ToLoad(i, k + 1) : v + n <= Start(i, m)
    BY <1>4, <1>12, <2>1, SegmentPages
  <2>3. /\ a[1] = "first" /\ a[2] = v /\ b[1] = "next" /\ b[2] = v + 1 /\ b[3] = n /\ c[1] = "from"
        /\ SegmentSteps(i, ph) = sg
    BY DEF SegmentSteps, ReadElf, Start
  <2> HIDE DEF a, b, c, n, v
  <2>4. StepOK(a) /\ StepOK(b) /\ StepOK(c) /\ Begins(b) /\ Begins(c)
    BY <2>2, <2>3 DEF StepOK, Begins
  <2>5. MayFollow(a[1], b[1]) /\ MayFollow(b[1], c[1]) /\ MayFollow(c[1], l[1])
    BY <1>7, <2>3 DEF MayFollow
  <2>6. Fits(sg) /\ Len(sg) = 3 /\ sg[1] = a /\ sg[2] = b /\ sg[3] = c
    BY <2>4, <2>5, ThreeFit
  <2> HIDE DEF sg
  <2> DEFINE o == Single(l)
             t == sg \o o
             r == Tail(todo)
  <2>7. Fits(o) /\ Len(o) = 1 /\ o[1] = l /\ o = <<l>>
    BY <1>8, OneFits DEF Single
  <2> HIDE DEF o
  <2>8. /\ Fits(t) /\ Len(t) = Len(sg) + Len(o)
        /\ \A j \in 1..Len(sg) : t[j] = sg[j]
        /\ \A j \in 1..Len(o) : t[Len(sg) + j] = o[j]
    <3>1. Fits(sg) /\ Fits(o) /\ MayFollow(sg[Len(sg)][1], o[1][1]) /\ Begins(o[1])
      BY <1>8, <2>5, <2>6, <2>7
    <3> QED
      BY ONLY <3>1, JoinFits
  <2>9. Len(t) = 4 /\ t[1] = a /\ t[2] = b /\ t[3] = c /\ t[4] = l
    BY <2>6, <2>7, <2>8
  <2> HIDE DEF t
  <2>10. TodoOK(r) /\ Len(r) = Len(todo) - 1 /\ r[1] = todo[2]
    BY <1>2, <1>5, OneStepLess
  <2> HIDE DEF r
  <2>11. /\ Fits(t \o r) /\ Len(t \o r) = Len(t) + Len(r)
         /\ \A j \in 1..Len(t) : (t \o r)[j] = t[j]
         /\ \A j \in 1..Len(r) : (t \o r)[Len(t) + j] = r[j]
    <3>1. Fits(t) /\ Fits(r) /\ MayFollow(t[Len(t)][1], r[1][1]) /\ Begins(r[1])
      BY <1>5, <1>8, <2>8, <2>9, <2>10 DEF TodoOK
    <3> QED
      BY ONLY <3>1, JoinFits
  <2>12. todo' = t \o r
    BY <1>12, <2>3, <2>7 DEF t, r
  <2>13. Len(r) \in Nat /\ Len(r) > 0 /\ r[Len(r)][1] = "answer"
    BY <1>5, <2>10 DEF TodoOK
  <2>14. TodoOK(todo') /\ todo'[1] = a /\ todo'[2] = b /\ todo'[3] = c /\ todo'[4] = l
    <3>1. Len(r) \in 1..Len(r) /\ Len(todo') = Len(t) + Len(r)
      BY <2>11, <2>12, <2>13
    <3>2. todo'[Len(todo')] = r[Len(r)]
      BY <2>11, <2>12, <3>1
    <3> QED
      BY <2>9, <2>11, <2>12, <2>13, <3>2 DEF TodoOK
  <2>15. todo' # <<>>
    <3>1. Len(todo') > 0 /\ Len(<<>>) = 0
      BY <2>14 DEF TodoOK, Fits
    <3> QED
      BY <3>1
  <2>16. Above(pdir, ptes, pcb, v)
    BY <1>4, <1>12, <2>1 DEF Room, ToLoad, v
  <2>17. InFront(v + n, l)
    BY <1>7, <2>2 DEF InFront
  <2>18. Ready(todo', pdir', ptes', spaces', pcb')
    BY <1>1, <1>2, <2>2, <2>3, <2>14, <2>16, <2>17 DEF Ready
  <2> QED
    BY <1>1, <1>2, <1>3, <2>14, <2>15, <2>18 DEF MemoryInv
<1> QED
  BY <1>6, <1>10, <1>11, <1>12

(* copy_from_kernel() leaves the tables alone. *)
LEMMA CopyFromKernelStep == ASSUME MemoryInv, CopyFromKernel PROVE MemoryInv'
<1>1. Doing("from") /\ UNCHANGED <<page_bitmap, bitmap_idx, pdir, ptes, spaces, pcb>>
  BY DEF CopyFromKernel, Maps
<1>2. /\ pcb \in Pcbs /\ pcb # None /\ TodoOK(todo) /\ Ready(todo, pdir, ptes, spaces, pcb)
      /\ todo[1][1] = "from" /\ pcb \in spaces
  BY <1>1, InHand
<1>3. MapType' /\ Exact(pdir, ptes, spaces, Marked)' /\ Whole(todo, pdir, ptes, spaces, pcb)'
  BY <1>1, <1>2, MapsKept
<1>4. /\ Len(todo) \in Nat /\ Len(todo) > 1 /\ todo[2][1] \in {"load", "answer"}
  BY <1>1, NextStep DEF MayFollow
<1>5. todo[2][1] = "load" => Room(pdir, ptes, pcb, todo[2][2], todo[2][3])
  BY <1>2 DEF Ready
<1>6. (todo' = todo) \/ Done \/ \E a, s : Then(<<"from", a, s>>)
  BY DEF CopyFromKernel, Absent
<1>7. CASE todo' = todo
  BY <1>1, <1>2, <1>3, <1>7 DEF MemoryInv
<1>8. CASE Done
  <2>1. TodoOK(todo') /\ todo' # <<>> /\ todo'[1] = todo[2]
    BY <1>1, <1>8, AfterDone
  <2>2. Ready(todo', pdir', ptes', spaces', pcb')
    BY <1>1, <1>2, <1>4, <1>5, <2>1 DEF Ready
  <2> QED
    BY <1>1, <1>2, <1>3, <2>1, <2>2 DEF MemoryInv
<1>9. ASSUME NEW a, NEW s, Then(<<"from", a, s>>)
      PROVE  MemoryInv'
  <2> DEFINE t == <<"from", a, s>>
  <2>1. t[1] = "from"
    OBVIOUS
  <2> HIDE DEF t
  <2>2. StepOK(t) /\ MayFollow(t[1], todo[2][1])
    BY <1>4, <2>1 DEF StepOK, MayFollow
  <2>3. Then(t)
    BY <1>9 DEF t
  <2>4. TodoOK(todo') /\ todo' # <<>> /\ todo'[1] = t /\ \A k \in 2..Len(todo) : todo'[k] = todo[k]
    BY <1>1, <2>2, <2>3, AfterThen
  <2>5. todo'[2] = todo[2]
    BY <1>4, <2>4
  <2>6. Ready(todo', pdir', ptes', spaces', pcb')
    BY <1>1, <1>2, <1>5, <2>1, <2>4, <2>5 DEF Ready
  <2> QED
    BY <1>1, <1>2, <1>3, <2>4, <2>6 DEF MemoryInv
<1> QED
  BY <1>6, <1>7, <1>8, <1>9

(* The copies into the kernel, and looking for the end of the string. *)
LEMMA FetchStep == ASSUME MemoryInv, CopyToKernel \/ StrlenUserString PROVE MemoryInv'
<1>1. PICK op \in {"to", "strlen"} : Doing(op)
  BY DEF CopyToKernel, StrlenUserString
<1>0. UNCHANGED <<page_bitmap, bitmap_idx, pdir, ptes, spaces, pcb>>
  BY DEF CopyToKernel, StrlenUserString, Maps
<1>2. /\ pcb \in Pcbs /\ pcb # None /\ TodoOK(todo) /\ Ready(todo, pdir, ptes, spaces, pcb)
      /\ todo[1][1] = op /\ pcb \in spaces
  BY <1>1, InHand
<1>3. MapType' /\ Exact(pdir, ptes, spaces, Marked)' /\ Whole(todo, pdir, ptes, spaces, pcb)'
  BY <1>0, <1>1, <1>2, MapsKept
<1>4. /\ Len(todo) \in Nat /\ Len(todo) > 1 /\ todo[2][1] \in {"takeback", "answer"}
  BY <1>1, NextStep DEF MayFollow
<1>5. (todo' = todo) \/ Done \/ \E s : s[1] \in {"to", "strlen"} /\ Then(s)
  <2>1. CASE CopyToKernel
    <3>1. (todo' = todo) \/ Done \/ \E a, b : Then(<<"to", a, b>>)
      BY <2>1 DEF CopyToKernel, Absent, Overrun
    <3>2. ASSUME NEW a, NEW b, Then(<<"to", a, b>>)
          PROVE  \E s : s[1] \in {"to", "strlen"} /\ Then(s)
      <4> WITNESS <<"to", a, b>>
      <4> QED
        BY <3>2
    <3> QED
      BY <3>1, <3>2
  <2>2. CASE StrlenUserString
    <3>1. (todo' = todo) \/ (\E a, b : Then(<<"to", a, b>>)) \/ (\E a, b, c : Then(<<"strlen", a, b, c>>))
      BY <2>2 DEF StrlenUserString, Absent
    <3>2. ASSUME NEW a, NEW b, Then(<<"to", a, b>>)
          PROVE  \E s : s[1] \in {"to", "strlen"} /\ Then(s)
      <4> WITNESS <<"to", a, b>>
      <4> QED
        BY <3>2
    <3>3. ASSUME NEW a, NEW b, NEW c, Then(<<"strlen", a, b, c>>)
          PROVE  \E s : s[1] \in {"to", "strlen"} /\ Then(s)
      <4> WITNESS <<"strlen", a, b, c>>
      <4> QED
        BY <3>3
    <3> QED
      BY <3>1, <3>2, <3>3
  <2> QED
    BY <2>1, <2>2
<1>6. CASE todo' = todo
  BY <1>0, <1>2, <1>3, <1>6 DEF MemoryInv
<1>7. CASE Done
  <2>1. TodoOK(todo') /\ todo' # <<>> /\ todo'[1] = todo[2]
    BY <1>1, <1>7, AfterDone
  <2>2. Ready(todo', pdir', ptes', spaces', pcb')
    BY <1>0, <1>2, <1>4, <2>1 DEF Ready
  <2> QED
    BY <1>0, <1>2, <1>3, <2>1, <2>2 DEF MemoryInv
<1>8. ASSUME NEW s, s[1] \in {"to", "strlen"}, Then(s)
      PROVE  MemoryInv'
  <2>1. StepOK(s) /\ MayFollow(s[1], todo[2][1])
    BY <1>4, <1>8 DEF StepOK, MayFollow
  <2>2. TodoOK(todo') /\ todo' # <<>> /\ todo'[1] = s
    BY <1>1, <1>8, <2>1, AfterThen
  <2>3. Ready(todo', pdir', ptes', spaces', pcb')
    BY <1>0, <1>2, <1>8, <2>2 DEF Ready
  <2> QED
    BY <1>0, <1>2, <1>3, <2>2, <2>3 DEF MemoryInv
<1> QED
  BY <1>5, <1>6, <1>7, <1>8

(* exec(): the arguments. *)
LEMMA PlaceArgsStep == ASSUME MemoryInv, PlaceArgs PROVE MemoryInv'
<1>1. Doing("args") /\ UNCHANGED <<page_bitmap, bitmap_idx, pdir, ptes, spaces, pcb>>
  BY DEF PlaceArgs, Maps
<1>2. /\ pcb \in Pcbs /\ pcb # None /\ TodoOK(todo) /\ Ready(todo, pdir, ptes, spaces, pcb)
      /\ todo[1][1] = "args" /\ pcb \in spaces
  BY <1>1, InHand
<1>3. MapType' /\ Exact(pdir, ptes, spaces, Marked)' /\ Whole(todo, pdir, ptes, spaces, pcb)'
  BY <1>1, <1>2, MapsKept
<1>4. Len(todo) \in Nat /\ Len(todo) > 1 /\ todo[2][1] = "answer"
  BY <1>1, NextStep DEF MayFollow
<1>5. PICK s : s[1] = "from" /\ Then(s)
  <2>1. PICK a, b : Then(<<"from", a, b>>)
    BY DEF PlaceArgs
  <2>2. <<"from", a, b>>[1] = "from"
    OBVIOUS
  <2> QED
    BY <2>1, <2>2
<1>6. StepOK(s) /\ MayFollow(s[1], todo[2][1])
  BY <1>4, <1>5 DEF StepOK, MayFollow
<1>7. TodoOK(todo') /\ todo' # <<>> /\ todo'[1] = s /\ \A k \in 2..Len(todo) : todo'[k] = todo[k]
  BY <1>1, <1>5, <1>6, AfterThen
<1>8. todo'[2] = todo[2]
  BY <1>4, <1>7
<1>9. Ready(todo', pdir', ptes', spaces', pcb')
  BY <1>1, <1>2, <1>4, <1>5, <1>7, <1>8 DEF Ready
<1> QED
  BY <1>1, <1>2, <1>3, <1>7, <1>9 DEF MemoryInv

(* The answer. *)
LEMMA AnswerStep == ASSUME MemoryInv, Answer PROVE MemoryInv'
<1>1. Doing("answer") /\ Done /\ pcb' = None /\ UNCHANGED <<page_bitmap, bitmap_idx, pdir, ptes, spaces>>
  BY DEF Answer
<1>2. TodoOK(todo) /\ todo[1][1] = "answer"
  BY <1>1, InHand
<1>3. MapType' /\ Exact(pdir, ptes, spaces, Marked)' /\ Whole(todo, pdir, ptes, spaces, pcb)'
  BY <1>1, <1>2, MapsKept
<1>4. todo \in Seq(ToSet(todo)) /\ Len(todo) \in Nat /\ Len(todo) > 0
  BY <1>2 DEF TodoOK, Fits
<1>5. Len(todo) = 1
  <2> SUFFICES ASSUME Len(todo) > 1
               PROVE  FALSE
    BY <1>4, SMTT(30)
  <2>1. 1 \in 1..(Len(todo) - 1)
    BY <1>4
  <2>2. MayFollow("answer", todo[1 + 1][1])
    BY <1>2, <2>1 DEF TodoOK, Fits
  <2> QED
    BY <2>2 DEF MayFollow
<1>6. todo' = <<>>
  BY <1>1, <1>4, <1>5 DEF Done
<1> QED
  BY <1>1, <1>3, <1>6 DEF MemoryInv

(* A request that comes in. *)
LEMMA NewRequest ==
  ASSUME MemoryInv, NEW p \in Pcbs, NEW caller, NEW steps, NEW args, Request(p, caller, steps, args),
         TodoOK(steps \o << <<"answer", caller>> >>),
         \/ p \notin spaces /\ (steps \o << <<"answer", caller>> >>)[1][1] = "clear"
         \/ p \in spaces /\ (steps \o << <<"answer", caller>> >>)[1][1] \in {"strlen", "takeback"}
  PROVE  MemoryInv'
<1>1. /\ pcb = None /\ pcb' = p /\ todo' = steps \o << <<"answer", caller>> >>
      /\ UNCHANGED <<page_bitmap, bitmap_idx, pdir, ptes, spaces>>
  BY DEF Request
<1>2. MapType' /\ Exact(pdir, ptes, spaces, Marked)' /\ Whole(todo, pdir, ptes, spaces, pcb)'
  BY <1>1, MapsKept
<1>3. TodoOK(todo') /\ p # None
  BY <1>1, MemoryAssumption
<1>4. todo' # <<>>
  <2>1. Len(todo') > 0 /\ Len(<<>>) = 0
    BY <1>3 DEF TodoOK, Fits
  <2> QED
    BY <2>1
<1>5. Ready(todo', pdir', ptes', spaces', pcb')
  BY <1>1 DEF Ready
<1> QED
  BY <1>1, <1>2, <1>3, <1>4, <1>5 DEF MemoryInv

(* A request of the process manager. *)
LEMMA RequestStep == ASSUME MemoryInv, Requests PROVE MemoryInv'
<1>1. ASSUME NEW p \in Pcbs, NEW i \in DOMAIN Programs, Create(p, i)
      PROVE  MemoryInv'
  <2>1. p \notin spaces /\ Request(p, p, LoadSteps(i), NoArgs)
    BY <1>1 DEF Create
  <2>2. /\ TodoOK(LoadSteps(i) \o << <<"answer", p>> >>)
        /\ (LoadSteps(i) \o << <<"answer", p>> >>)[1][1] = "clear"
    BY CreateFits
  <2> QED
    BY <2>1, <2>2, NewRequest
<1>2. ASSUME NEW p \in Pcbs, NEW c \in Pcbs, Fork(p, c)
      PROVE  MemoryInv'
  <2>1. c \notin spaces /\ Request(c, p, CopySteps(p), NoArgs)
    BY <1>2 DEF Fork
  <2>2. /\ TodoOK(CopySteps(p) \o << <<"answer", p>> >>)
        /\ (CopySteps(p) \o << <<"answer", p>> >>)[1][1] = "clear"
    BY ForkFits
  <2> QED
    BY <2>1, <2>2, NewRequest
<1>3. ASSUME NEW p \in Pcbs, NEW i \in DOMAIN Programs, NEW a \in ArgAddrs, Exec(p, i, a)
      PROVE  MemoryInv'
  <2> DEFINE s == << <<"takeback">> >> \o LoadSteps(i) \o << <<"args">> >>
             u == << <<"strlen", a, a, 0>> >> \o s
  <2>1. p \in spaces /\ \E args : Request(p, p, u, args)
    BY <1>3 DEF Exec, ExecArgs
  <2>2. TodoOK(u \o << <<"answer", p>> >>) /\ (u \o << <<"answer", p>> >>)[1][1] = "strlen"
    BY ExecFits
  <2> HIDE DEF u
  <2> QED
    BY <2>1, <2>2, NewRequest
<1>4. ASSUME NEW p \in Pcbs, NEW a \in ArgAddrs, ExecFails(p, a)
      PROVE  MemoryInv'
  <2> DEFINE h == <<"strlen", a, a, 0>>
             u == << h >> \o <<>>
  <2>1. p \in spaces /\ \E args : Request(p, p, u, args)
    BY <1>4 DEF ExecFails, ExecArgs
  <2>2. u = <<h>>
    OBVIOUS
  <2>3. StepOK(h) /\ h[1] = "strlen"
    BY DEF StepOK
  <2> HIDE DEF h, u
  <2>4. TodoOK(u \o << <<"answer", p>> >>) /\ (u \o << <<"answer", p>> >>)[1][1] = "strlen"
    BY <2>2, <2>3, ShortFits
  <2> QED
    BY <2>1, <2>4, NewRequest
<1>5. ASSUME NEW p \in Pcbs, Exit(p)
      PROVE  MemoryInv'
  <2> DEFINE h == <<"takeback">>
  <2>1. p \in spaces /\ Request(p, p, <<h>>, NoArgs)
    BY <1>5 DEF Exit
  <2>2. StepOK(h) /\ h[1] = "takeback"
    BY DEF StepOK
  <2> HIDE DEF h
  <2>3. TodoOK(<<h>> \o << <<"answer", p>> >>) /\ (<<h>> \o << <<"answer", p>> >>)[1][1] = "takeback"
    BY <2>2, ShortFits
  <2> QED
    BY <2>1, <2>3, NewRequest
<1> QED
  BY <1>1, <1>2, <1>3, <1>4, <1>5 DEF Requests

(* A process that writes leaves the tables alone. *)
LEMMA WriteStep == ASSUME MemoryInv, NEW p \in Pcbs, NEW a \in WriteAddrs, Write(p, a) PROVE MemoryInv'
<1>1. UNCHANGED <<page_bitmap, bitmap_idx, pdir, ptes, todo, spaces, pcb>>
  BY DEF Write, Rest
<1>2. MapType' /\ Marked' = Marked
  BY <1>1 DEF MemoryInv, MapType, Marked, Busy
<1> QED
  BY <1>1, <1>2 DEF MemoryInv

\* The maps with a new table, and with a new page.
WithTable(pd, p, d, f)        == [pd EXCEPT ![p][d] = f]
ZeroAt(pt, f)                 == [pt EXCEPT ![f] = ZeroTable]
WithPage(pd, pt, p, d, e, f)  == [pt EXCEPT ![pd[p][d]][e] = f]

(* The kernel stays mapped while its tables stay. *)
LEMMA KernelKept ==
  ASSUME NEW pd, NEW pt, NEW pd2, NEW pt2, NEW q, NEW n, KernelUpTo(pd, pt, q, n),
         \A c \in 0..(n - 1) : SameTable(pd, pt, pd2, pt2, q, c) /\ pd2[q][c + KOFFSET] = pd[q][c + KOFFSET]
  PROVE  KernelUpTo(pd2, pt2, q, n)
BY DEF KernelUpTo, SameTable

\* Frame f is free in maps where the kernel is mapped for all.
FreeFor(pd, pt, S, M, p, f) ==
  /\ pd \in Pdirs /\ pt \in Tables /\ S \in SUBSET Pcbs /\ p \in S /\ Exact(pd, pt, S, M)
  /\ f \in PoolFrames /\ f \notin M /\ None \notin M
  /\ \A q \in S : KernelUpTo(pd, pt, q, KERNEL_DIRS)

(* A table of user space is added. *)
LEMMA TableAdded ==
  ASSUME NEW pd, NEW pt, NEW S, NEW M, NEW p, NEW d, NEW f,
         FreeFor(pd, pt, S, M, p, f), d \in UserDirs, pd[p][d] = None
  PROVE  /\ WithTable(pd, p, d, f) \in Pdirs /\ ZeroAt(pt, f) \in Tables
         /\ Exact(WithTable(pd, p, d, f), ZeroAt(pt, f), S, M \cup {f})
         /\ \A q \in S : KernelUpTo(WithTable(pd, p, d, f), ZeroAt(pt, f), q, KERNEL_DIRS)
         /\ WithTable(pd, p, d, f)[p][d] = f /\ \A e \in Entries : ZeroAt(pt, f)[f][e] = None
         /\ \A c \in LowDirs : c # d => SameTable(pd, pt, WithTable(pd, p, d, f), ZeroAt(pt, f), p, c)
<1> /\ pd \in Pdirs /\ pt \in Tables /\ S \in SUBSET Pcbs /\ p \in S /\ Exact(pd, pt, S, M)
    /\ f \in PoolFrames /\ f \notin M /\ None \notin M
    /\ \A q \in S : KernelUpTo(pd, pt, q, KERNEL_DIRS)
  BY DEF FreeFor
<1> DEFINE pd2 == WithTable(pd, p, d, f)
           pt2 == ZeroAt(pt, f)
<1>1. d \in LowDirs /\ d \in Dirs /\ LowDirs \subseteq Dirs
  BY NumberTypes
<1>2. /\ pd2 \in Pdirs /\ pd2[p][d] = f
      /\ \A q \in Pcbs : \A c \in Dirs : ~(q = p /\ c = d) => pd2[q][c] = pd[q][c]
  BY <1>1 DEF Pdirs, WithTable
<1>3. pt2 \in Tables /\ pt2[f] = ZeroTable /\ \A t \in PoolFrames : t # f => pt2[t] = pt[t]
  BY DEF Tables, ZeroAt, ZeroTable
<1>4. \A e \in Entries : pt2[f][e] = None
  BY <1>3 DEF ZeroTable
<1> HIDE DEF pd2, pt2
<1>5. /\ Exact(pd2, pt2, S, M \cup {f})
      /\ \A q \in S : \A c \in LowDirs : ~(q = p /\ c = d) => SameTable(pd, pt, pd2, pt2, q, c)
  <2>1. IsNewTable(pd, pt, pd2, pt2, S, M, p, d, f)
    BY <1>1, <1>2, <1>3, <1>4 DEF IsNewTable
  <2> QED
    BY ONLY <2>1, NewTable, Zenon
<1>6. ASSUME NEW q \in S
      PROVE  KernelUpTo(pd2, pt2, q, KERNEL_DIRS)
  <2>1. \A c \in 0..(KERNEL_DIRS - 1) : /\ c \in LowDirs /\ c # d
                                       /\ c + KOFFSET \in Dirs /\ c + KOFFSET # d
    BY <1>1, NumberTypes DEF KernelDirs
  <2>2. \A c \in 0..(KERNEL_DIRS - 1) : SameTable(pd, pt, pd2, pt2, q, c) /\ pd2[q][c + KOFFSET] = pd[q][c + KOFFSET]
    BY <1>2, <1>5, <2>1
  <2>3. KernelUpTo(pd, pt, q, KERNEL_DIRS)
    OBVIOUS
  <2> QED
    BY <2>2, <2>3, KernelKept
<1> QED
  BY <1>2, <1>3, <1>4, <1>5, <1>6 DEF pd2, pt2

(* A page is added. *)
LEMMA PageAdded ==
  ASSUME NEW pd, NEW pt, NEW S, NEW M, NEW p, NEW d, NEW e, NEW f,
         FreeFor(pd, pt, S, M, p, f), d \in UserDirs, e \in Entries,
         pd[p][d] # None, pt[pd[p][d]][e] = None
  PROVE  /\ WithPage(pd, pt, p, d, e, f) \in Tables
         /\ Exact(pd, WithPage(pd, pt, p, d, e, f), S, M \cup {f})
         /\ \A q \in S : KernelUpTo(pd, WithPage(pd, pt, p, d, e, f), q, KERNEL_DIRS)
         /\ WithPage(pd, pt, p, d, e, f)[pd[p][d]][e] = f
         /\ \A i \in Entries : i # e => WithPage(pd, pt, p, d, e, f)[pd[p][d]][i] = pt[pd[p][d]][i]
         /\ \A c \in LowDirs : c # d => SameTable(pd, pt, pd, WithPage(pd, pt, p, d, e, f), p, c)
<1> /\ pd \in Pdirs /\ pt \in Tables /\ S \in SUBSET Pcbs /\ p \in S /\ Exact(pd, pt, S, M)
    /\ f \in PoolFrames /\ f \notin M /\ None \notin M
    /\ \A q \in S : KernelUpTo(pd, pt, q, KERNEL_DIRS)
  BY DEF FreeFor
<1> DEFINE pt2 == WithPage(pd, pt, p, d, e, f)
<1>1. d \in LowDirs /\ d \in Dirs /\ LowDirs \subseteq Dirs /\ f \in AllFrames
  BY NumberTypes DEF AllFrames
<1>2. pd[p][d] \in PoolFrames
  BY <1>1 DEF Pdirs
<1>3. /\ pt2 \in Tables /\ pt2[pd[p][d]][e] = f
      /\ \A i \in Entries : i # e => pt2[pd[p][d]][i] = pt[pd[p][d]][i]
      /\ \A t \in PoolFrames : t # pd[p][d] => pt2[t] = pt[t]
  <2> PICK t : t = pd[p][d]
    OBVIOUS
  <2> QED
    BY <1>1, <1>2 DEF Tables, WithPage
<1> HIDE DEF pt2
<1>4. /\ Exact(pd, pt2, S, M \cup {f})
      /\ \A q \in S : \A c \in LowDirs : ~(q = p /\ c = d) => SameTable(pd, pt, pd, pt2, q, c)
  <2>1. IsNewPage(pd, pt, pt2, S, M, p, d, e, f)
    BY <1>1, <1>3 DEF IsNewPage
  <2> QED
    BY ONLY <2>1, NewPage, Zenon
<1>5. ASSUME NEW q \in S
      PROVE  KernelUpTo(pd, pt2, q, KERNEL_DIRS)
  <2>1. \A c \in 0..(KERNEL_DIRS - 1) : c \in LowDirs /\ c # d
    BY <1>1, NumberTypes DEF KernelDirs
  <2>2. \A c \in 0..(KERNEL_DIRS - 1) : SameTable(pd, pt, pd, pt2, q, c) /\ pd[q][c + KOFFSET] = pd[q][c + KOFFSET]
    BY <1>4, <2>1
  <2>3. KernelUpTo(pd, pt, q, KERNEL_DIRS)
    OBVIOUS
  <2> QED
    BY <2>2, <2>3, KernelKept
<1> QED
  BY <1>3, <1>4, <1>5 DEF pt2

(* The marked frames are frames of the pool. *)
LEMMA MarkedType == Marked \subseteq PoolFrames /\ None \notin Marked
<1>1. Marked \subseteq PoolFrames
  <2> SUFFICES ASSUME NEW i \in Busy(page_bitmap)
               PROVE  KERNEL_MEM + i \in PoolFrames
    BY DEF Marked
  <2>1. i \in 0..(NR_PAGES - 1)
    BY DEF Busy
  <2> QED
    BY <2>1, ConstantTypes DEF PoolFrames
<1> QED
  BY <1>1, NumberTypes

(* A step that makes a table. *)
LEMMA StepMakesTable ==
  ASSUME MemoryInv, pcb \in spaces, todo[1][1] # "kernel", NEW d \in UserDirs, pdir[pcb][d] = None,
         GetIdlePage, pdir' = WithTable(pdir, pcb, d, NewFrame), ptes' = ZeroAt(ptes, NewFrame), spaces' = spaces
  PROVE  /\ MapType' /\ Exact(pdir, ptes, spaces, Marked)' /\ Whole(todo, pdir, ptes, spaces, pcb)'
         /\ pdir'[pcb][d] # None /\ \A e \in Entries : ptes'[pdir'[pcb][d]][e] = None
         /\ \A c \in LowDirs : c # d => SameTable(pdir, ptes, pdir', ptes', pcb, c)
<1>1. /\ page_bitmap \in Bitmaps /\ bitmap_idx \in 0..(NR_PAGES - 1)
      /\ pdir \in Pdirs /\ ptes \in Tables /\ spaces \in SUBSET Pcbs /\ Exact(pdir, ptes, spaces, Marked)
  BY DEF MemoryInv, MapType
<1>2. /\ page_bitmap' \in Bitmaps /\ bitmap_idx' \in 0..(NR_PAGES - 1)
      /\ NewFrame \in PoolFrames /\ NewFrame \notin Marked /\ Marked' = Marked \cup {NewFrame}
  BY <1>1, OneFrame
<1>3. None \notin Marked /\ None \notin PoolFrames
  BY MarkedType, NumberTypes
<1>4. \A q \in spaces : KernelUpTo(pdir, ptes, q, KERNEL_DIRS)
  BY AllWhole
<1> PICK f : f = NewFrame
  OBVIOUS
<1>5. /\ WithTable(pdir, pcb, d, f) \in Pdirs /\ ZeroAt(ptes, f) \in Tables
      /\ Exact(WithTable(pdir, pcb, d, f), ZeroAt(ptes, f), spaces, Marked \cup {f})
      /\ \A q \in spaces : KernelUpTo(WithTable(pdir, pcb, d, f), ZeroAt(ptes, f), q, KERNEL_DIRS)
      /\ WithTable(pdir, pcb, d, f)[pcb][d] = f /\ \A e \in Entries : ZeroAt(ptes, f)[f][e] = None
      /\ \A c \in LowDirs : c # d => SameTable(pdir, ptes, WithTable(pdir, pcb, d, f), ZeroAt(ptes, f), pcb, c)
  <2>1. FreeFor(pdir, ptes, spaces, Marked, pcb, f)
    BY <1>1, <1>2, <1>3, <1>4 DEF FreeFor
  <2>2. d \in UserDirs /\ pdir[pcb][d] = None
    OBVIOUS
  <2> QED
    BY ONLY <2>1, <2>2, TableAdded, Zenon
<1>6. MapType' /\ Exact(pdir, ptes, spaces, Marked)'
  BY <1>1, <1>2, <1>5 DEF MapType
<1>7. \A q \in spaces' : KernelUpTo(pdir', ptes', q, KERNEL_DIRS)
  BY <1>5
<1>8. Whole(todo, pdir, ptes, spaces, pcb)'
  BY <1>7, WholeWhenAll
<1>9. pdir'[pcb][d] = f /\ f # None
  BY <1>2, <1>3, <1>5
<1> QED
  BY <1>5, <1>6, <1>8, <1>9

(* A step that makes a page. *)
LEMMA StepMakesPage ==
  ASSUME MemoryInv, pcb \in spaces, todo[1][1] # "kernel", NEW d \in UserDirs, NEW e \in Entries,
         pdir[pcb][d] # None, ptes[pdir[pcb][d]][e] = None,
         GetIdlePage, ptes' = WithPage(pdir, ptes, pcb, d, e, NewFrame), pdir' = pdir, spaces' = spaces
  PROVE  /\ MapType' /\ Exact(pdir, ptes, spaces, Marked)' /\ Whole(todo, pdir, ptes, spaces, pcb)'
         /\ ptes'[pdir'[pcb][d]][e] # None
         /\ \A i \in Entries : i # e => ptes'[pdir'[pcb][d]][i] = ptes[pdir[pcb][d]][i]
         /\ \A c \in LowDirs : c # d => SameTable(pdir, ptes, pdir', ptes', pcb, c)
<1>1. /\ page_bitmap \in Bitmaps /\ bitmap_idx \in 0..(NR_PAGES - 1)
      /\ pdir \in Pdirs /\ ptes \in Tables /\ spaces \in SUBSET Pcbs /\ Exact(pdir, ptes, spaces, Marked)
  BY DEF MemoryInv, MapType
<1>2. /\ page_bitmap' \in Bitmaps /\ bitmap_idx' \in 0..(NR_PAGES - 1)
      /\ NewFrame \in PoolFrames /\ NewFrame \notin Marked /\ Marked' = Marked \cup {NewFrame}
  BY <1>1, OneFrame
<1>3. None \notin Marked /\ None \notin PoolFrames
  BY MarkedType, NumberTypes
<1>4. \A q \in spaces : KernelUpTo(pdir, ptes, q, KERNEL_DIRS)
  BY AllWhole
<1> PICK f : f = NewFrame
  OBVIOUS
<1> DEFINE pt2 == WithPage(pdir, ptes, pcb, d, e, f)
<1>5. /\ pt2 \in Tables
      /\ Exact(pdir, pt2, spaces, Marked \cup {f})
      /\ \A q \in spaces : KernelUpTo(pdir, pt2, q, KERNEL_DIRS)
      /\ pt2[pdir[pcb][d]][e] = f
      /\ \A i \in Entries : i # e => pt2[pdir[pcb][d]][i] = ptes[pdir[pcb][d]][i]
      /\ \A c \in LowDirs : c # d => SameTable(pdir, ptes, pdir, pt2, pcb, c)
  <2>1. FreeFor(pdir, ptes, spaces, Marked, pcb, f)
    BY <1>1, <1>2, <1>3, <1>4 DEF FreeFor
  <2>2. d \in UserDirs /\ e \in Entries /\ pdir[pcb][d] # None /\ ptes[pdir[pcb][d]][e] = None
    OBVIOUS
  <2> QED
    BY ONLY <2>1, <2>2, PageAdded, Zenon
<1>6. MapType' /\ Exact(pdir, ptes, spaces, Marked)'
  BY <1>1, <1>2, <1>5 DEF MapType
<1>7. \A q \in spaces' : KernelUpTo(pdir', ptes', q, KERNEL_DIRS)
  BY <1>5
<1>8. Whole(todo, pdir, ptes, spaces, pcb)'
  BY <1>7, WholeWhenAll
<1>9. f # None
  BY <1>2, <1>3
<1> QED
  BY <1>5, <1>6, <1>8, <1>9

(* A step that makes a table in frame t, and a page in it in frame g. *)
LEMMA StepMakesBoth ==
  ASSUME MemoryInv, pcb \in spaces, todo[1][1] # "kernel", NEW d \in UserDirs, NEW e \in Entries,
         pdir[pcb][d] = None, GetTwoIdlePages, NEW t, NEW g,
         \/ t = NewFrame /\ g = SecondFrame
         \/ t = SecondFrame /\ g = NewFrame,
         pdir' = WithTable(pdir, pcb, d, t), spaces' = spaces,
         ptes' = [ptes EXCEPT ![t] = [ZeroTable EXCEPT ![e] = g]]
  PROVE  /\ MapType' /\ Exact(pdir, ptes, spaces, Marked)' /\ Whole(todo, pdir, ptes, spaces, pcb)'
         /\ pdir'[pcb][d] # None /\ ptes'[pdir'[pcb][d]][e] # None
         /\ \A i \in Entries : i # e => ptes'[pdir'[pcb][d]][i] = None
         /\ \A c \in LowDirs : c # d => SameTable(pdir, ptes, pdir', ptes', pcb, c)
<1>1. /\ page_bitmap \in Bitmaps /\ bitmap_idx \in 0..(NR_PAGES - 1)
      /\ pdir \in Pdirs /\ ptes \in Tables /\ spaces \in SUBSET Pcbs /\ Exact(pdir, ptes, spaces, Marked)
  BY DEF MemoryInv, MapType
<1>2. /\ page_bitmap' \in Bitmaps /\ bitmap_idx' \in 0..(NR_PAGES - 1)
      /\ t \in PoolFrames /\ t \notin Marked /\ g \in PoolFrames /\ g \notin Marked \cup {t}
      /\ Marked' = (Marked \cup {t}) \cup {g}
  BY <1>1, TwoFrames
<1>3. None \notin Marked /\ None \notin PoolFrames /\ None \notin Marked \cup {t}
  BY <1>2, MarkedType, NumberTypes
<1>4. \A q \in spaces : KernelUpTo(pdir, ptes, q, KERNEL_DIRS)
  BY AllWhole
<1> DEFINE pd2 == WithTable(pdir, pcb, d, t)
           pt1 == ZeroAt(ptes, t)
           pt2 == WithPage(pd2, pt1, pcb, d, e, g)
<1>5. /\ pd2 \in Pdirs /\ pt1 \in Tables
      /\ Exact(pd2, pt1, spaces, Marked \cup {t})
      /\ \A q \in spaces : KernelUpTo(pd2, pt1, q, KERNEL_DIRS)
      /\ pd2[pcb][d] = t /\ \A i \in Entries : pt1[t][i] = None
      /\ \A c \in LowDirs : c # d => SameTable(pdir, ptes, pd2, pt1, pcb, c)
  <2>1. FreeFor(pdir, ptes, spaces, Marked, pcb, t)
    BY <1>1, <1>2, <1>3, <1>4 DEF FreeFor
  <2>2. d \in UserDirs /\ pdir[pcb][d] = None
    OBVIOUS
  <2> QED
    BY ONLY <2>1, <2>2, TableAdded, Zenon
<1>6. pd2[pcb][d] # None /\ pt1[pd2[pcb][d]][e] = None
  BY <1>2, <1>3, <1>5
<1>7. pt2 = ptes'
  <2>1. pt2 = [pt1 EXCEPT ![t][e] = g]
    BY <1>5 DEF WithPage
  <2>2. pt1 = [ptes EXCEPT ![t] = ZeroTable]
    BY DEF ZeroAt
  <2> QED
    BY <1>1, <1>2, <2>1, <2>2 DEF Tables
<1> HIDE DEF pd2, pt1, pt2
<1>8. /\ pt2 \in Tables
      /\ Exact(pd2, pt2, spaces, (Marked \cup {t}) \cup {g})
      /\ \A q \in spaces : KernelUpTo(pd2, pt2, q, KERNEL_DIRS)
      /\ pt2[pd2[pcb][d]][e] = g
      /\ \A i \in Entries : i # e => pt2[pd2[pcb][d]][i] = pt1[pd2[pcb][d]][i]
      /\ \A c \in LowDirs : c # d => SameTable(pd2, pt1, pd2, pt2, pcb, c)
  <2> PICK M : M = Marked \cup {t}
    OBVIOUS
  <2>1. FreeFor(pd2, pt1, spaces, M, pcb, g)
    BY <1>1, <1>2, <1>3, <1>5 DEF FreeFor
  <2>2. d \in UserDirs /\ e \in Entries /\ pd2[pcb][d] # None /\ pt1[pd2[pcb][d]][e] = None
    BY <1>6
  <2> QED
    BY <2>1, <2>2, PageAdded, Zenon DEF pt2
<1>9. pdir' = pd2
  BY DEF pd2
<1>10. MapType' /\ Exact(pdir, ptes, spaces, Marked)'
  BY <1>1, <1>2, <1>5, <1>7, <1>8, <1>9 DEF MapType
<1>11. \A q \in spaces' : KernelUpTo(pdir', ptes', q, KERNEL_DIRS)
  BY <1>7, <1>8, <1>9
<1>12. Whole(todo, pdir, ptes, spaces, pcb)'
  BY <1>11, WholeWhenAll
<1>13. ptes'[pdir'[pcb][d]][e] # None /\ \A i \in Entries : i # e => ptes'[pdir'[pcb][d]][i] = None
  <2>1. g # None
    BY <1>2, <1>3
  <2> QED
    BY <1>5, <1>7, <1>8, <1>9, <2>1
<1>14. \A c \in LowDirs : c # d => SameTable(pdir, ptes, pdir', ptes', pcb, c)
  <2> SUFFICES ASSUME NEW c \in LowDirs, c # d
               PROVE  SameTable(pdir, ptes, pdir', ptes', pcb, c)
    OBVIOUS
  <2>1. pd2[pcb][c] = pdir[pcb][c] /\ (pdir[pcb][c] # None => pt1[pdir[pcb][c]] = ptes[pdir[pcb][c]])
    BY <1>5 DEF SameTable
  <2>2. pd2[pcb][c] # None => pt2[pd2[pcb][c]] = pt1[pd2[pcb][c]]
    BY <1>8 DEF SameTable
  <2> QED
    BY <1>7, <1>9, <2>1, <2>2 DEF SameTable
<1> QED
  BY <1>6, <1>9, <1>10, <1>12, <1>13, <1>14

(* create_stack_page(): the table of the stack. *)
LEMMA TableStep == ASSUME MemoryInv, Table PROVE MemoryInv'
<1>1. Doing("table") /\ Done /\ GetIdlePage /\ UNCHANGED <<spaces, pcb>>
  BY DEF Table, Rest
<1>2. /\ pcb \in Pcbs /\ pcb # None /\ TodoOK(todo) /\ Ready(todo, pdir, ptes, spaces, pcb)
      /\ todo[1][1] = "table" /\ Head(todo) = todo[1] /\ StepOK(todo[1]) /\ pcb \in spaces
  BY <1>1, InHand
<1> PICK d : d = KOFFSET - 1
  OBVIOUS
<1>3. d \in UserDirs /\ todo[1][2] = d /\ KERNEL_DIRS \in Nat /\ KOFFSET \in Nat
  BY <1>2, NumberTypes, ConstantTypes DEF StepOK
<1>4. NoneFrom(pdir, pcb, KERNEL_DIRS)
  BY <1>2 DEF Ready
<1>5. pdir[pcb][d] = None /\ \A c \in KERNEL_DIRS..(KOFFSET - 2) : c \in LowDirs /\ c # d /\ pdir[pcb][c] = None
  BY <1>3, <1>4 DEF NoneFrom, UserDirs, LowDirs
<1>6. pdir' = WithTable(pdir, pcb, d, NewFrame) /\ ptes' = ZeroAt(ptes, NewFrame)
  BY <1>2, <1>3 DEF Table, Arg, WithTable, ZeroAt
<1>7. /\ MapType' /\ Exact(pdir, ptes, spaces, Marked)' /\ Whole(todo, pdir, ptes, spaces, pcb)'
      /\ pdir'[pcb][d] # None /\ \A e \in Entries : ptes'[pdir'[pcb][d]][e] = None
      /\ \A c \in LowDirs : c # d => SameTable(pdir, ptes, pdir', ptes', pcb, c)
  BY <1>1, <1>2, <1>3, <1>5, <1>6, StepMakesTable
<1>8. TodoOK(todo') /\ todo' # <<>> /\ todo'[1] = todo[2] /\ todo[2][1] = "stack"
  BY <1>1, AfterDone DEF MayFollow
<1>9. \A c \in KERNEL_DIRS..(KOFFSET - 2) : pdir'[pcb][c] = None
  BY <1>5, <1>7 DEF SameTable
<1>10. Ready(todo', pdir', ptes', spaces', pcb')
  BY <1>1, <1>2, <1>7, <1>8, <1>9 DEF Ready
<1> QED
  BY <1>1, <1>2, <1>7, <1>8, <1>10 DEF MemoryInv

(* In an empty program space there is room for a program. *)
LEMMA EmptyRoom ==
  ASSUME NEW pd, NEW pt, NEW p, NEW s, StepOK(s), s[1] = "load",
         \A c \in KERNEL_DIRS..(KOFFSET - 2) : pd[p][c] = None
  PROVE  Room(pd, pt, p, s[2], s[3])
<1> SUFFICES ASSUME NEW m \in ToLoad(s[2], s[3])
             PROVE  Above(pd, pt, p, Start(s[2], m))
  BY DEF Room
<1> PICK v : v = Start(s[2], m)
  OBVIOUS
<1>1. ProgramPage(v)
  BY SegmentStart DEF StepOK
<1>2. DirOf(v) \in KERNEL_DIRS..(KOFFSET - 2) /\ KERNEL_DIRS \in Nat /\ KOFFSET \in Nat
  BY <1>1, ConstantTypes DEF ProgramPage
<1> QED
  BY <1>2 DEF Above

(* create_stack_page(): a page of the stack. *)
LEMMA StackStep == ASSUME MemoryInv, Stack PROVE MemoryInv'
<1>1. Doing("stack") /\ GetIdlePage /\ UNCHANGED <<pdir, spaces, pcb>>
  BY DEF Stack, Rest
<1>2. /\ pcb \in Pcbs /\ pcb # None /\ TodoOK(todo) /\ Ready(todo, pdir, ptes, spaces, pcb)
      /\ todo[1][1] = "stack" /\ Head(todo) = todo[1] /\ StepOK(todo[1]) /\ pcb \in spaces
  BY <1>1, InHand
<1> PICK d : d = KOFFSET - 1
  OBVIOUS
<1> PICK v : v = todo[1][2]
  OBVIOUS
<1> DEFINE e   == EntryOf(v)
           top == PageOf(StackTop)
<1>3. /\ d \in UserDirs /\ KERNEL_DIRS \in Nat /\ KOFFSET \in Nat /\ NR_PTE \in Nat /\ NR_STACK \in Nat
      /\ v \in (top - NR_STACK + 1)..top /\ top \in Nat
  BY <1>2, NumberTypes, ConstantTypes, StackPages DEF StepOK
<1>4. v \in Nat /\ DirOf(v) = d /\ e \in Entries /\ e = v - d * NR_PTE
  BY <1>3, StackPages
<1>5. /\ pdir[pcb][d] # None /\ \A c \in KERNEL_DIRS..(KOFFSET - 2) : pdir[pcb][c] = None
      /\ \A i \in Entries : i <= e => ptes[pdir[pcb][d]][i] = None
  BY <1>2 DEF Ready
<1>6. ptes' = WithPage(pdir, ptes, pcb, d, e, NewFrame)
  BY <1>2, <1>4 DEF Stack, SetPte, Arg, WithPage
<1>7. Entries \subseteq Nat /\ d * NR_PTE \in Nat
  BY <1>3, <1>4 DEF Entries, UserDirs
<1>8. ptes[pdir[pcb][d]][e] = None
  BY <1>4, <1>5, <1>7
<1> HIDE DEF e, top
<1>9. /\ MapType' /\ Exact(pdir, ptes, spaces, Marked)' /\ Whole(todo, pdir, ptes, spaces, pcb)'
      /\ \A i \in Entries : i # e => ptes'[pdir'[pcb][d]][i] = ptes[pdir[pcb][d]][i]
      /\ \A c \in LowDirs : c # d => SameTable(pdir, ptes, pdir', ptes', pcb, c)
  BY <1>1, <1>2, <1>3, <1>4, <1>5, <1>6, <1>8, StepMakesPage
<1>10. Loop(v > top - NR_STACK + 1, <<"stack", v - 1>>)
  BY <1>2 DEF Stack, Arg, top
<1>11. CASE v > top - NR_STACK + 1
  <2> DEFINE s == <<"stack", v - 1>>
  <2>1. Then(s)
    BY <1>10, <1>11 DEF Loop
  <2>2. v - 1 \in (top - NR_STACK + 1)..top
    BY <1>3, <1>11
  <2>3. s[1] = "stack" /\ s[2] = v - 1
    OBVIOUS
  <2>4. StepOK(s)
    BY <2>2 DEF StepOK, top
  <2>5. MayFollow("stack", todo[2][1])
    BY <1>1, NextStep
  <2> HIDE DEF s
  <2>6. TodoOK(todo') /\ todo' # <<>> /\ todo'[1] = s
    BY <1>1, <2>1, <2>3, <2>4, <2>5, AfterThen
  <2>7. EntryOf(v - 1) = e - 1
    <3>1. EntryOf(v - 1) = (v - 1) - d * NR_PTE
      BY <2>2, StackPages DEF top
    <3> QED
      BY <1>4, <1>7, <3>1
  <2>8. \A i \in Entries : i <= EntryOf(v - 1) => ptes'[pdir'[pcb][d]][i] = None
    BY <1>4, <1>5, <1>7, <1>9, <2>7
  <2>9. Ready(todo', pdir', ptes', spaces', pcb')
    BY <1>1, <1>2, <1>5, <2>3, <2>6, <2>8 DEF Ready
  <2> QED
    BY <1>1, <1>2, <1>9, <2>6, <2>9 DEF MemoryInv
<1>12. CASE ~(v > top - NR_STACK + 1)
  <2>1. Done
    BY <1>10, <1>12 DEF Loop
  <2>2. TodoOK(todo') /\ todo' # <<>> /\ todo'[1] = todo[2] /\ todo[2][1] = "load" /\ StepOK(todo[2])
    BY <1>1, <2>1, AfterDone DEF MayFollow
  <2>3. Room(pdir', ptes', pcb, todo[2][2], todo[2][3])
    BY <1>1, <1>5, <2>2, EmptyRoom
  <2>4. Ready(todo', pdir', ptes', spaces', pcb')
    BY <1>1, <1>2, <2>2, <2>3 DEF Ready
  <2> QED
    BY <1>1, <1>2, <1>9, <2>2, <2>4 DEF MemoryInv
<1> QED
  BY <1>11, <1>12

(* A page in the place of v changes nothing above v. *)
LEMMA AboveKept ==
  ASSUME NEW pd, NEW pt, NEW pd2, NEW pt2, NEW p, NEW v, ProgramPage(v), Above(pd, pt, p, v),
         \A i \in Entries : i # EntryOf(v) => \/ pt2[pd2[p][DirOf(v)]][i] = None
                                              \/ /\ pd[p][DirOf(v)] # None
                                                 /\ pt2[pd2[p][DirOf(v)]][i] = pt[pd[p][DirOf(v)]][i],
         \A c \in LowDirs : c # DirOf(v) => SameTable(pd, pt, pd2, pt2, p, c)
  PROVE  Above(pd2, pt2, p, v)
<1>1. DirOf(v) \in KERNEL_DIRS..(KOFFSET - 2) /\ KERNEL_DIRS \in Nat /\ KOFFSET \in Nat /\ EntryOf(v) \in Nat /\ Entries \subseteq Nat
  BY ConstantTypes, PlaceOfPage DEF ProgramPage, Entries
<1>2. \A c \in (DirOf(v) + 1)..(KOFFSET - 2) : c \in LowDirs /\ c # DirOf(v)
  BY <1>1 DEF LowDirs
<1>3. \A c \in (DirOf(v) + 1)..(KOFFSET - 2) : pd2[p][c] = None
  BY <1>2 DEF Above, SameTable
<1>4. \A i \in Entries : i > EntryOf(v) => i # EntryOf(v)
  BY <1>1
<1>5. \A i \in Entries : i > EntryOf(v) => pt2[pd2[p][DirOf(v)]][i] = None
  BY <1>4 DEF Above
<1> QED
  BY <1>3, <1>5 DEF Above

(* load_segment(): the first page. *)
LEMMA FirstPageStep == ASSUME MemoryInv, FirstPage PROVE MemoryInv'
<1>1. Doing("first") /\ Done /\ UNCHANGED <<spaces, pcb>>
  BY DEF FirstPage, Rest
<1>2. /\ pcb \in Pcbs /\ pcb # None /\ TodoOK(todo) /\ Ready(todo, pdir, ptes, spaces, pcb)
      /\ todo[1][1] = "first" /\ Head(todo) = todo[1] /\ StepOK(todo[1]) /\ pcb \in spaces
  BY <1>1, InHand
<1> PICK v : v = todo[1][2]
  OBVIOUS
<1>3. /\ ProgramPage(v) /\ Above(pdir, ptes, pcb, v)
      /\ todo[2][2] = v + 1 /\ ProgramPage(v + todo[2][3]) /\ InFront(v + todo[2][3], todo[4])
  BY <1>2 DEF Ready
<1>4. TodoOK(todo') /\ todo' # <<>> /\ todo'[1] = todo[2] /\ todo[2][1] = "next" /\ todo'[3] = todo[4]
  <2>1. /\ Len(todo) \in Nat /\ MayFollow("first", todo[2][1])
        /\ todo[2][1] # "answer" => Len(todo) > 2 /\ MayFollow(todo[2][1], todo[3][1])
    BY <1>1, NextStep
  <2>2. todo[2][1] = "next" /\ todo[3][1] = "from" /\ Len(todo) > 2
    BY <2>1 DEF MayFollow
  <2>3. Len(todo) # 3
    BY <1>2, <2>2 DEF TodoOK
  <2>4. 3 \in 1..(Len(todo) - 1) /\ 3 + 1 = 4
    <3> PICK n : n = Len(todo)
      OBVIOUS
    <3>1. n \in Nat /\ n > 2 /\ n # 3
      BY <2>1, <2>2, <2>3
    <3>2. 3 \in 1..(n - 1)
      BY ONLY <3>1
    <3> QED
      BY <3>2
  <2>5. /\ TodoOK(todo') /\ todo' # <<>> /\ todo'[1] = todo[2]
        /\ \A k \in 1..(Len(todo) - 1) : todo'[k] = todo[k + 1]
    BY <1>1, AfterDone
  <2> QED
    BY <2>2, <2>4, <2>5
<1> DEFINE d == DirOf(v)
           e == EntryOf(v)
<1>5. v \in Nat /\ d \in UserDirs /\ e \in Entries
  BY <1>3, PlaceOfPage, ConstantTypes DEF ProgramPage, UserDirs
<1> SUFFICES /\ MapType' /\ Exact(pdir, ptes, spaces, Marked)' /\ Whole(todo, pdir, ptes, spaces, pcb)'
             /\ Above(pdir', ptes', pcb, v) /\ pdir'[pcb][d] # None
  <2>1. (v + 1) - 1 = v
    BY <1>5
  <2>2. ASSUME Above(pdir', ptes', pcb, v), pdir'[pcb][d] # None
        PROVE  Ready(todo', pdir', ptes', spaces', pcb')
    BY <1>1, <1>2, <1>3, <1>4, <2>1, <2>2 DEF Ready
  <2> QED
    BY <1>1, <1>2, <1>4, <2>2 DEF MemoryInv
<1> HIDE DEF d, e
<1>6. CASE pdir[pcb][d] = None
  <2>1. /\ GetTwoIdlePages /\ pdir' = WithTable(pdir, pcb, d, NewFrame)
        /\ ptes' = [ptes EXCEPT ![NewFrame] = [ZeroTable EXCEPT ![e] = SecondFrame]]
    BY <1>2, <1>6 DEF FirstPage, Arg, WithTable, d, e
  <2>2. /\ MapType' /\ Exact(pdir, ptes, spaces, Marked)' /\ Whole(todo, pdir, ptes, spaces, pcb)'
        /\ pdir'[pcb][d] # None /\ \A i \in Entries : i # e => ptes'[pdir'[pcb][d]][i] = None
        /\ \A c \in LowDirs : c # d => SameTable(pdir, ptes, pdir', ptes', pcb, c)
    BY <1>1, <1>2, <1>5, <1>6, <2>1, StepMakesBoth
  <2>3. Above(pdir', ptes', pcb, v)
    BY <1>3, <2>2, AboveKept DEF d, e
  <2> QED
    BY <2>2, <2>3
<1>7. CASE pdir[pcb][d] # None /\ Frame(pdir[pcb], ptes, v) = None
  <2>1. GetIdlePage /\ ptes' = WithPage(pdir, ptes, pcb, d, e, NewFrame) /\ pdir' = pdir
    BY <1>2, <1>7 DEF FirstPage, Arg, SetPte, WithPage, d, e
  <2>2. ptes[pdir[pcb][d]][e] = None
    BY <1>7 DEF Frame, d, e
  <2>3. /\ MapType' /\ Exact(pdir, ptes, spaces, Marked)' /\ Whole(todo, pdir, ptes, spaces, pcb)'
        /\ \A i \in Entries : i # e => ptes'[pdir'[pcb][d]][i] = ptes[pdir[pcb][d]][i]
        /\ \A c \in LowDirs : c # d => SameTable(pdir, ptes, pdir', ptes', pcb, c)
    BY <1>1, <1>2, <1>5, <1>7, <2>1, <2>2, StepMakesPage
  <2>4. Above(pdir', ptes', pcb, v)
    BY <1>3, <1>7, <2>3, AboveKept DEF d, e
  <2> QED
    BY <1>7, <2>1, <2>3, <2>4
<1>8. CASE pdir[pcb][d] # None /\ Frame(pdir[pcb], ptes, v) # None
  <2>1. UNCHANGED <<page_bitmap, bitmap_idx, pdir, ptes>>
    BY <1>2, <1>8 DEF FirstPage, Arg, d
  <2>2. MapType' /\ Exact(pdir, ptes, spaces, Marked)' /\ Whole(todo, pdir, ptes, spaces, pcb)'
    BY <1>1, <1>2, <2>1, MapsKept
  <2> QED
    BY <1>3, <1>8, <2>1, <2>2
<1> QED
  BY <1>6, <1>7, <1>8

(* load_segment(): one page more. *)
LEMMA NextPageStep == ASSUME MemoryInv, NextPage PROVE MemoryInv'
<1>1. Doing("next") /\ Arg(3) > 0 /\ Then(<<"next", Arg(2) + 1, Arg(3) - 1>>) /\ UNCHANGED <<spaces, pcb>>
  BY DEF NextPage, Rest
<1>2. /\ pcb \in Pcbs /\ pcb # None /\ TodoOK(todo) /\ Ready(todo, pdir, ptes, spaces, pcb)
      /\ todo[1][1] = "next" /\ Head(todo) = todo[1] /\ StepOK(todo[1]) /\ pcb \in spaces
  BY <1>1, InHand
<1> PICK w : w = todo[1][2]
  OBVIOUS
<1> PICK n : n = todo[1][3]
  OBVIOUS
<1>3. PICK v : /\ w = v + 1 /\ ProgramPage(v) /\ Above(pdir, ptes, pcb, v) /\ pdir[pcb][DirOf(v)] # None
               /\ ProgramPage(v + n) /\ InFront(v + n, todo[3])
  BY <1>2 DEF Ready
<1>4. /\ v \in Nat /\ w \in Nat /\ n \in Nat /\ n > 0 /\ v + n \in Nat /\ v <= w /\ w <= v + n
      /\ w + (n - 1) = v + n /\ (w + 1) - 1 = w /\ n - 1 \in Nat
  BY <1>1, <1>2, <1>3 DEF ProgramPage, StepOK, Arg
<1>5. /\ DirOf(v) \in KERNEL_DIRS..(KOFFSET - 2) /\ DirOf(v + n) \in KERNEL_DIRS..(KOFFSET - 2)
      /\ DirOf(w) \in Nat /\ EntryOf(w) \in Entries /\ EntryOf(v) \in Nat /\ KERNEL_DIRS \in Nat /\ KOFFSET \in Nat
      /\ DirOf(v) <= DirOf(w) /\ DirOf(w) <= DirOf(v + n)
  BY <1>3, <1>4, PlaceOfPage, OrderOfPages, ConstantTypes DEF ProgramPage
<1>6. ProgramPage(w)
  BY <1>4, <1>5 DEF ProgramPage
<1>7. Above(pdir, ptes, pcb, w)
  BY <1>3, <1>4, <1>6, AboveLater
<1> DEFINE d == DirOf(w)
           e == EntryOf(w)
<1>8. d \in UserDirs /\ e \in Entries
  BY <1>5 DEF UserDirs
<1> HIDE DEF d, e
<1>9. /\ TodoOK(todo') /\ todo' # <<>> /\ todo'[1] = <<"next", w + 1, n - 1>> /\ todo'[3] = todo[3]
  <2> DEFINE s == <<"next", w + 1, n - 1>>
  <2>1. Then(s) /\ s[1] = "next" /\ s[3] = n - 1
    BY <1>1, <1>2 DEF Arg
  <2>2. StepOK(s)
    BY <1>4, <2>1 DEF StepOK
  <2>3. MayFollow("next", todo[2][1]) /\ Len(todo) \in Nat /\ Len(todo) > 2
    BY <1>1, NextStep DEF MayFollow
  <2> HIDE DEF s
  <2>4. /\ TodoOK(todo') /\ todo' # <<>> /\ todo'[1] = s
        /\ \A k \in 2..Len(todo) : todo'[k] = todo[k]
    BY <1>1, <2>1, <2>2, <2>3, AfterThen
  <2>5. 3 \in 2..Len(todo)
    BY <2>3
  <2> QED
    BY <2>4, <2>5 DEF s
<1> SUFFICES /\ MapType' /\ Exact(pdir, ptes, spaces, Marked)' /\ Whole(todo, pdir, ptes, spaces, pcb)'
             /\ Above(pdir', ptes', pcb, w) /\ pdir'[pcb][d] # None
  <2>1. ASSUME Above(pdir', ptes', pcb, w), pdir'[pcb][d] # None
        PROVE  Ready(todo', pdir', ptes', spaces', pcb')
    <3> PICK s : s = todo'[1]
      OBVIOUS
    <3>1. s[1] = "next" /\ s[2] = w + 1 /\ s[3] = n - 1
      BY <1>9
    <3>2. ProgramPage(w + s[3]) /\ InFront(w + s[3], todo'[3]) /\ s[2] - 1 = w
      BY <1>3, <1>4, <1>9, <3>1
    <3> QED
      BY <1>1, <1>2, <1>6, <2>1, <3>1, <3>2 DEF Ready, d
  <2> QED
    BY <1>1, <1>2, <1>9, <2>1 DEF MemoryInv
<1>10. CASE e = 0
  <2>1. d = DirOf(v) + 1
    BY <1>3, <1>4, <1>10, PlaceOfPage DEF d, e
  <2>2. pdir[pcb][d] = None
    BY <1>3, <1>5, <2>1 DEF Above, d
  <2>3. /\ GetTwoIdlePages /\ pdir' = WithTable(pdir, pcb, d, SecondFrame)
        /\ ptes' = [ptes EXCEPT ![SecondFrame] = [ZeroTable EXCEPT ![e] = NewFrame]]
    BY <1>2, <1>10 DEF NextPage, Arg, WithTable, d, e
  <2>4. /\ MapType' /\ Exact(pdir, ptes, spaces, Marked)' /\ Whole(todo, pdir, ptes, spaces, pcb)'
        /\ pdir'[pcb][d] # None /\ \A i \in Entries : i # e => ptes'[pdir'[pcb][d]][i] = None
        /\ \A c \in LowDirs : c # d => SameTable(pdir, ptes, pdir', ptes', pcb, c)
    BY <1>1, <1>2, <1>8, <2>2, <2>3, StepMakesBoth
  <2>5. Above(pdir', ptes', pcb, w)
    BY <1>6, <1>7, <2>4, AboveKept DEF d, e
  <2> QED
    BY <2>4, <2>5
<1>11. CASE e # 0
  <2>1. d = DirOf(v) /\ e = EntryOf(v) + 1
    BY <1>3, <1>4, <1>11, PlaceOfPage DEF d, e
  <2>2. pdir[pcb][d] # None /\ ptes[pdir[pcb][d]][e] = None
    BY <1>3, <1>5, <1>8, <2>1 DEF Above
  <2>3. GetIdlePage /\ ptes' = WithPage(pdir, ptes, pcb, d, e, NewFrame) /\ pdir' = pdir
    BY <1>2, <1>11 DEF NextPage, Arg, SetPte, WithPage, d, e
  <2>4. /\ MapType' /\ Exact(pdir, ptes, spaces, Marked)' /\ Whole(todo, pdir, ptes, spaces, pcb)'
        /\ \A i \in Entries : i # e => ptes'[pdir'[pcb][d]][i] = ptes[pdir[pcb][d]][i]
        /\ \A c \in LowDirs : c # d => SameTable(pdir, ptes, pdir', ptes', pcb, c)
    BY <1>1, <1>2, <1>8, <2>2, <2>3, StepMakesPage
  <2>5. Above(pdir', ptes', pcb, w)
    BY <1>6, <1>7, <2>2, <2>4, AboveKept DEF d, e
  <2> QED
    BY <2>2, <2>3, <2>4, <2>5
<1> QED
  BY <1>10, <1>11

(* copy_process(): a table. *)
LEMMA CopyTableStep == ASSUME MemoryInv, CopyTable PROVE MemoryInv'
<1>1. Doing("copy_table") /\ UNCHANGED <<spaces, pcb>>
  BY DEF CopyTable, Rest
<1>2. /\ pcb \in Pcbs /\ pcb # None /\ TodoOK(todo) /\ Ready(todo, pdir, ptes, spaces, pcb)
      /\ todo[1][1] = "copy_table" /\ Head(todo) = todo[1] /\ StepOK(todo[1]) /\ pcb \in spaces
  BY <1>1, InHand
<1> PICK p : p = todo[1][2]
  OBVIOUS
<1> PICK d : d = todo[1][3]
  OBVIOUS
<1>3. d \in KERNEL_DIRS..KOFFSET /\ KERNEL_DIRS \in Nat /\ KOFFSET \in Nat /\ NR_PTE \in Nat \ {0}
  BY <1>2, ConstantTypes DEF StepOK
<1>4. NoneFrom(pdir, pcb, d) /\ MayFollow("copy_table", todo[2][1])
  BY <1>1, <1>2, NextStep DEF Ready
<1>5. \/ /\ d = KOFFSET /\ Done
         /\ UNCHANGED <<page_bitmap, bitmap_idx, pdir, ptes>>
      \/ /\ d < KOFFSET /\ pdir[p][d] = None /\ Then(<<"copy_table", p, d + 1>>)
         /\ UNCHANGED <<page_bitmap, bitmap_idx, pdir, ptes>>
      \/ /\ d < KOFFSET /\ Then(<<"copy", p, d, 0>>)
         /\ GetIdlePage
         /\ ptes' = ZeroAt(ptes, NewFrame)
         /\ pdir' = WithTable(pdir, pcb, d, NewFrame)
  BY <1>2 DEF CopyTable, Arg, ZeroAt, WithTable
<1>6. CASE d = KOFFSET /\ Done /\ UNCHANGED <<page_bitmap, bitmap_idx, pdir, ptes>>
  <2>1. TodoOK(todo') /\ todo' # <<>> /\ todo'[1] = todo[2] /\ todo[2][1] = "answer"
    BY <1>1, <1>6, AfterDone DEF MayFollow
  <2>2. MapType' /\ Exact(pdir, ptes, spaces, Marked)' /\ Whole(todo, pdir, ptes, spaces, pcb)'
    BY <1>1, <1>2, <1>6, MapsKept
  <2>3. Ready(todo', pdir', ptes', spaces', pcb')
    BY <1>2, <2>1 DEF Ready
  <2> QED
    BY <1>1, <1>2, <2>1, <2>2, <2>3 DEF MemoryInv
<1>7. CASE d < KOFFSET /\ Then(<<"copy_table", p, d + 1>>) /\ UNCHANGED <<page_bitmap, bitmap_idx, pdir, ptes>>
  <2> DEFINE s == <<"copy_table", p, d + 1>>
  <2>1. s[1] = "copy_table" /\ s[3] = d + 1 /\ d + 1 \in KERNEL_DIRS..KOFFSET /\ Then(s)
    BY <1>3, <1>7
  <2>2. StepOK(s)
    BY <2>1 DEF StepOK
  <2> HIDE DEF s
  <2>3. TodoOK(todo') /\ todo' # <<>> /\ todo'[1] = s
    BY <1>1, <1>4, <2>1, <2>2, AfterThen
  <2>4. MapType' /\ Exact(pdir, ptes, spaces, Marked)' /\ Whole(todo, pdir, ptes, spaces, pcb)'
    BY <1>1, <1>2, <1>7, MapsKept
  <2>5. NoneFrom(pdir', pcb, d + 1)
    BY <1>3, <1>4, <1>7 DEF NoneFrom
  <2>6. Ready(todo', pdir', ptes', spaces', pcb')
    BY <1>1, <1>2, <2>1, <2>3, <2>5 DEF Ready
  <2> QED
    BY <1>1, <1>2, <2>3, <2>4, <2>6 DEF MemoryInv
<1>8. CASE /\ d < KOFFSET /\ Then(<<"copy", p, d, 0>>) /\ GetIdlePage
           /\ ptes' = ZeroAt(ptes, NewFrame) /\ pdir' = WithTable(pdir, pcb, d, NewFrame)
  <2> DEFINE s == <<"copy", p, d, 0>>
  <2>1. s[1] = "copy" /\ s[3] = d /\ s[4] = 0 /\ d \in UserDirs /\ 0 \in Entries /\ Then(s) /\ Entries \subseteq Nat
    BY <1>3, <1>8 DEF UserDirs, Entries
  <2>2. StepOK(s) /\ MayFollow("copy", todo[2][1])
    BY <1>4, <2>1 DEF StepOK, MayFollow
  <2> HIDE DEF s
  <2>3. TodoOK(todo') /\ todo' # <<>> /\ todo'[1] = s
    BY <1>1, <2>1, <2>2, AfterThen
  <2>4. pdir[pcb][d] = None /\ \A c \in (d + 1)..(KOFFSET - 1) : c \in LowDirs /\ c # d /\ pdir[pcb][c] = None
    BY <1>3, <1>4, <1>8 DEF NoneFrom, LowDirs
  <2>5. /\ MapType' /\ Exact(pdir, ptes, spaces, Marked)' /\ Whole(todo, pdir, ptes, spaces, pcb)'
        /\ pdir'[pcb][d] # None /\ \A e \in Entries : ptes'[pdir'[pcb][d]][e] = None
        /\ \A c \in LowDirs : c # d => SameTable(pdir, ptes, pdir', ptes', pcb, c)
    BY <1>1, <1>2, <1>8, <2>1, <2>4, StepMakesTable
  <2>6. NoneFrom(pdir', pcb, d + 1)
    BY <2>4, <2>5 DEF NoneFrom, SameTable
  <2>7. Ready(todo', pdir', ptes', spaces', pcb')
    BY <1>1, <1>2, <2>1, <2>3, <2>5, <2>6 DEF Ready
  <2> QED
    BY <1>1, <1>2, <2>3, <2>5, <2>7 DEF MemoryInv
<1> QED
  BY <1>5, <1>6, <1>7, <1>8

(* copy_process(): a page. *)
LEMMA CopyPageStep == ASSUME MemoryInv, CopyPage PROVE MemoryInv'
<1>1. Doing("copy") /\ NextEntry /\ UNCHANGED <<pdir, spaces, pcb>>
  BY DEF CopyPage, Rest
<1>2. /\ pcb \in Pcbs /\ pcb # None /\ TodoOK(todo) /\ Ready(todo, pdir, ptes, spaces, pcb)
      /\ todo[1][1] = "copy" /\ Head(todo) = todo[1] /\ StepOK(todo[1]) /\ pcb \in spaces
  BY <1>1, InHand
<1> PICK p : p = todo[1][2]
  OBVIOUS
<1> PICK d : d = todo[1][3]
  OBVIOUS
<1> PICK e : e = todo[1][4]
  OBVIOUS
<1>3. /\ d \in UserDirs /\ e \in Entries /\ KERNEL_DIRS \in Nat /\ KOFFSET \in Nat /\ NR_PTE \in Nat \ {0}
      /\ Entries \subseteq Nat
  BY <1>2, ConstantTypes DEF StepOK, Entries
<1>4. /\ NoneFrom(pdir, pcb, d + 1) /\ pdir[pcb][d] # None
      /\ \A i \in Entries : i >= e => ptes[pdir[pcb][d]][i] = None
  BY <1>2 DEF Ready
<1>5. ptes[pdir[pcb][d]][e] = None /\ MayFollow("copy", todo[2][1])
  BY <1>1, <1>3, <1>4, NextStep
<1>6. /\ MapType' /\ Exact(pdir, ptes, spaces, Marked)' /\ Whole(todo, pdir, ptes, spaces, pcb)'
      /\ \A i \in Entries : i # e => ptes'[pdir'[pcb][d]][i] = ptes[pdir[pcb][d]][i]
  <2>1. CASE ptes[pdir[p][d]][e] = None
    <3>1. UNCHANGED <<page_bitmap, bitmap_idx, ptes>>
      BY <1>2, <2>1 DEF CopyPage, Arg
    <3>2. MapType' /\ Exact(pdir, ptes, spaces, Marked)' /\ Whole(todo, pdir, ptes, spaces, pcb)'
      BY <1>1, <1>2, <3>1, MapsKept
    <3> QED
      BY <1>1, <3>1, <3>2, SMTT(60)
  <2>2. CASE ptes[pdir[p][d]][e] # None
    <3>1. GetIdlePage /\ ptes' = WithPage(pdir, ptes, pcb, d, e, NewFrame)
      BY <1>2, <2>2 DEF CopyPage, Arg, WithPage
    <3> QED
      BY <1>1, <1>2, <1>3, <1>4, <1>5, <3>1, StepMakesPage, SMTT(60)
  <2> QED
    BY <2>1, <2>2
<1>7. CASE e + 1 < NR_PTE
  <2> DEFINE s == <<"copy", p, d, e + 1>>
  <2>1. s[1] = "copy" /\ s[3] = d /\ s[4] = e + 1 /\ Then(s) /\ e + 1 \in Entries
    BY <1>1, <1>2, <1>3, <1>7 DEF NextEntry, Arg, Entries
  <2>2. StepOK(s)
    BY <1>3, <2>1 DEF StepOK
  <2> HIDE DEF s
  <2>3. TodoOK(todo') /\ todo' # <<>> /\ todo'[1] = s
    BY <1>1, <1>5, <2>1, <2>2, AfterThen
  <2>4. \A i \in Entries : i >= e + 1 => ptes'[pdir'[pcb][d]][i] = None
    BY <1>3, <1>4, <1>6
  <2>5. Ready(todo', pdir', ptes', spaces', pcb')
    BY <1>1, <1>2, <1>4, <2>1, <2>3, <2>4 DEF Ready
  <2> QED
    BY <1>1, <1>2, <1>6, <2>3, <2>5 DEF MemoryInv
<1>8. CASE ~(e + 1 < NR_PTE)
  <2> DEFINE s == <<"copy_table", p, d + 1>>
  <2>1. s[1] = "copy_table" /\ s[3] = d + 1 /\ Then(s) /\ d + 1 \in KERNEL_DIRS..KOFFSET
    BY <1>1, <1>2, <1>3, <1>8 DEF NextEntry, Arg, UserDirs
  <2>2. StepOK(s) /\ MayFollow("copy_table", todo[2][1])
    BY <1>5, <2>1 DEF StepOK, MayFollow
  <2> HIDE DEF s
  <2>3. TodoOK(todo') /\ todo' # <<>> /\ todo'[1] = s
    BY <1>1, <2>1, <2>2, AfterThen
  <2>4. Ready(todo', pdir', ptes', spaces', pcb')
    BY <1>1, <1>2, <1>4, <2>1, <2>3 DEF Ready
  <2> QED
    BY <1>1, <1>2, <1>6, <2>3, <2>4 DEF MemoryInv
<1> QED
  BY <1>7, <1>8

(* create_kernel_dir(): the directory is cleared. *)
LEMMA ClearStep == ASSUME MemoryInv, Clear PROVE MemoryInv'
<1>1. /\ Doing("clear") /\ Done /\ UNCHANGED <<page_bitmap, bitmap_idx, ptes, pcb>>
      /\ pdir' = [pdir EXCEPT ![pcb] = [d \in Dirs |-> None]] /\ spaces' = spaces \cup {pcb}
  BY DEF Clear, Rest
<1>2. /\ pcb \in Pcbs /\ pcb # None /\ TodoOK(todo) /\ Ready(todo, pdir, ptes, spaces, pcb)
      /\ todo[1][1] = "clear" /\ Head(todo) = todo[1] /\ StepOK(todo[1])
  BY <1>1, InHand
<1>3. pcb \notin spaces
  BY <1>2 DEF Ready
<1>4. MapType /\ Exact(pdir, ptes, spaces, Marked) /\ pdir \in Pdirs /\ spaces \in SUBSET Pcbs
  BY DEF MemoryInv, MapType
<1>5. /\ pdir' \in Pdirs /\ \A d \in LowDirs : pdir'[pcb][d] = None
      /\ \A q \in Pcbs : q # pcb => pdir'[q] = pdir[q]
  BY <1>1, <1>2, <1>4, NumberTypes DEF Pdirs
<1>6. MapType' /\ Marked' = Marked
  BY <1>1, <1>2, <1>4, <1>5 DEF MapType, Marked, Busy
<1>7. Exact(pdir', ptes, spaces \cup {pcb}, Marked)
  <2> PICK pd2 : pd2 = pdir'
    OBVIOUS
  <2>1. Exact(pd2, ptes, spaces \cup {pcb}, Marked)
    BY <1>2, <1>3, <1>4, <1>5, EmptyDirectory
  <2> QED
    BY <2>1
<1>8. Exact(pdir, ptes, spaces, Marked)'
  BY <1>1, <1>6, <1>7
<1>9. TodoOK(todo') /\ todo' # <<>> /\ todo'[1] = todo[2] /\ todo[2][1] = "kernel" /\ todo[2][2] = 0
  BY <1>1, AfterDone DEF MayFollow, Begins
<1>10. ASSUME NEW q \in spaces', q # pcb
       PROVE  KernelUpTo(pdir', ptes', q, KERNEL_DIRS)
  <2>1. q \in spaces /\ pdir'[q] = pdir[q]
    BY <1>1, <1>4, <1>5, <1>10
  <2>2. KernelUpTo(pdir, ptes, q, KERNEL_DIRS)
    BY <1>2, <2>1, AllWhole
  <2> QED
    BY <1>1, <2>1, <2>2 DEF KernelUpTo
<1>11. Whole(todo, pdir, ptes, spaces, pcb)'
  BY <1>1, <1>9, <1>10 DEF Whole
<1>12. KernelUpTo(pdir', ptes', pcb, 0) /\ NoneFrom(pdir', pcb, 0)
  BY <1>5 DEF KernelUpTo, NoneFrom, LowDirs
<1>13. Ready(todo', pdir', ptes', spaces', pcb')
  BY <1>1, <1>2, <1>9, <1>12 DEF Ready
<1> QED
  BY <1>1, <1>2, <1>6, <1>8, <1>9, <1>11, <1>13 DEF MemoryInv

(* create_kernel_dir(): the table of one directory entry. *)
LEMMA KernelTable ==
  ASSUME NEW d \in KernelDirs
  PROVE  [e \in Entries |-> d * NR_PTE + e] \in [Entries -> AllFrames \cup {None}]
<1>1. KERNEL_DIRS \in Nat /\ NR_PTE \in Nat \ {0} /\ d \in Nat /\ d <= KERNEL_DIRS - 1
  BY ConstantTypes DEF KernelDirs
<1>2. d * NR_PTE \in Nat /\ KERNEL_DIRS * NR_PTE \in Nat /\ d * NR_PTE + NR_PTE <= KERNEL_DIRS * NR_PTE
  <2>1. (d + 1) * NR_PTE <= KERNEL_DIRS * NR_PTE
    BY <1>1, SMTT(30)
  <2> QED
    BY <1>1, <2>1
<1>3. ASSUME NEW e \in Entries
      PROVE  d * NR_PTE + e \in KernelFrames
  BY <1>1, <1>2 DEF Entries, KernelFrames
<1> QED
  BY <1>3 DEF AllFrames

(* create_kernel_dir(): a table of kernel frames. *)
LEMMA KernelStep == ASSUME MemoryInv, Kernel PROVE MemoryInv'
<1>1. Doing("kernel") /\ GetIdlePage /\ UNCHANGED <<spaces, pcb>>
  BY DEF Kernel, Rest
<1>2. /\ pcb \in Pcbs /\ pcb # None /\ TodoOK(todo) /\ Ready(todo, pdir, ptes, spaces, pcb)
      /\ todo[1][1] = "kernel" /\ Head(todo) = todo[1] /\ StepOK(todo[1]) /\ pcb \in spaces
  BY <1>1, InHand
<1> PICK d : d = todo[1][2]
  OBVIOUS
<1> PICK f : f = NewFrame
  OBVIOUS
<1>3. /\ d \in KernelDirs /\ d \in Nat /\ d < KERNEL_DIRS /\ KERNEL_DIRS \in Nat /\ KOFFSET \in Nat
      /\ KERNEL_DIRS < KOFFSET /\ d \in LowDirs
  BY <1>2, ConstantTypes, NumberTypes DEF StepOK, KernelDirs
<1>4. KernelUpTo(pdir, ptes, pcb, d) /\ NoneFrom(pdir, pcb, d)
  BY <1>2 DEF Ready
<1>5. /\ page_bitmap \in Bitmaps /\ bitmap_idx \in 0..(NR_PAGES - 1)
      /\ pdir \in Pdirs /\ ptes \in Tables /\ spaces \in SUBSET Pcbs /\ Exact(pdir, ptes, spaces, Marked)
  BY DEF MemoryInv, MapType
<1>6. /\ page_bitmap' \in Bitmaps /\ bitmap_idx' \in 0..(NR_PAGES - 1)
      /\ f \in PoolFrames /\ f \notin Marked /\ Marked' = Marked \cup {f}
  BY <1>1, <1>5, OneFrame
<1>7. /\ ptes' = [ptes EXCEPT ![f] = [e \in Entries |-> d * NR_PTE + e]]
      /\ pdir' = [pdir EXCEPT ![pcb][d] = f, ![pcb][d + KOFFSET] = f]
  BY <1>2 DEF Kernel, Arg
<1>8. /\ pdir' \in Pdirs /\ pdir'[pcb][d] = f /\ pdir'[pcb][d + KOFFSET] = f
      /\ \A c \in Dirs : c # d /\ c # d + KOFFSET => pdir'[pcb][c] = pdir[pcb][c]
      /\ \A q \in Pcbs : q # pcb => pdir'[q] = pdir[q]
  BY <1>2, <1>3, <1>5, <1>6, <1>7, NumberTypes DEF Pdirs
<1>9. /\ ptes' \in Tables /\ ptes'[f] = [e \in Entries |-> d * NR_PTE + e]
      /\ \A t \in PoolFrames : t # f => ptes'[t] = ptes[t]
  BY <1>3, <1>5, <1>6, <1>7, KernelTable DEF Tables
<1>10. /\ LowDirs \subseteq Dirs /\ d \notin UserDirs /\ None \notin Marked /\ f # None
       /\ \A c \in LowDirs : c # d + KOFFSET
  BY <1>3, <1>6, NumberTypes, MarkedType
<1> PICK pd2 : pd2 = pdir'
  OBVIOUS
<1> PICK pt2 : pt2 = ptes'
  OBVIOUS
<1>11. /\ Exact(pd2, pt2, spaces, Marked \cup {f})
       /\ \A q \in spaces : \A c \in LowDirs : ~(q = pcb /\ c = d) => SameTable(pdir, ptes, pd2, pt2, q, c)
  <2>1. pdir[pcb][d] = None
    BY <1>3, <1>4 DEF NoneFrom
  <2>2. \A q \in Pcbs : \A c \in LowDirs : ~(q = pcb /\ c = d) => pd2[q][c] = pdir[q][c]
    BY <1>8, <1>10
  <2>3. IsNewTable(pdir, ptes, pd2, pt2, spaces, Marked, pcb, d, f)
    BY <1>2, <1>3, <1>5, <1>6, <1>8, <1>9, <1>10, <2>1, <2>2 DEF IsNewTable
  <2> QED
    BY ONLY <2>3, NewTable, Zenon
<1>12. MapType' /\ Exact(pdir, ptes, spaces, Marked)'
  BY <1>1, <1>5, <1>6, <1>8, <1>9, <1>11 DEF MapType
<1>13. ASSUME NEW q \in spaces, q # pcb
       PROVE  KernelUpTo(pd2, pt2, q, KERNEL_DIRS)
  <2>1. KernelUpTo(pdir, ptes, q, KERNEL_DIRS)
    BY <1>13 DEF MemoryInv, Whole
  <2>2. \A c \in 0..(KERNEL_DIRS - 1) : c \in LowDirs
    BY NumberTypes DEF KernelDirs
  <2>3. \A c \in 0..(KERNEL_DIRS - 1) : SameTable(pdir, ptes, pd2, pt2, q, c) /\ pd2[q][c + KOFFSET] = pdir[q][c + KOFFSET]
    BY <1>5, <1>8, <1>11, <1>13, <2>2
  <2> QED
    BY <2>1, <2>3, KernelKept
<1>14. KernelUpTo(pd2, pt2, pcb, d + 1)
  <2>1. \A c \in 0..(d - 1) : c \in LowDirs /\ c # d /\ c + KOFFSET \in Dirs /\ c + KOFFSET # d /\ c + KOFFSET # d + KOFFSET
    BY <1>3, NumberTypes DEF KernelDirs
  <2>2. \A c \in 0..(d - 1) : SameTable(pdir, ptes, pd2, pt2, pcb, c) /\ pd2[pcb][c + KOFFSET] = pdir[pcb][c + KOFFSET]
    BY <1>2, <1>8, <1>11, <2>1
  <2>3. KernelUpTo(pd2, pt2, pcb, d)
    BY <1>4, <2>2, KernelKept
  <2>4. \A c \in 0..((d + 1) - 1) : c \in 0..(d - 1) \/ c = d
    BY <1>3
  <2> QED
    BY <1>8, <1>9, <1>10, <2>3, <2>4 DEF KernelUpTo
<1>15. NoneFrom(pd2, pcb, d + 1)
  <2>1. \A c \in (d + 1)..(KOFFSET - 1) : c \in d..(KOFFSET - 1) /\ c \in LowDirs /\ c # d
    BY <1>3 DEF LowDirs
  <2> QED
    BY <1>4, <1>8, <1>10, <2>1 DEF NoneFrom
<1>16. Loop(d + 1 < KERNEL_DIRS, <<"kernel", d + 1>>)
  BY <1>2 DEF Kernel, Arg
<1>17. CASE d + 1 < KERNEL_DIRS
  <2> DEFINE s == <<"kernel", d + 1>>
  <2>1. s[1] = "kernel" /\ s[2] = d + 1 /\ d + 1 \in KernelDirs /\ Then(s)
    BY <1>3, <1>16, <1>17 DEF Loop, KernelDirs
  <2>2. StepOK(s) /\ MayFollow("kernel", todo[2][1])
    BY <1>1, <2>1, NextStep DEF StepOK
  <2> HIDE DEF s
  <2>3. TodoOK(todo') /\ todo' # <<>> /\ todo'[1] = s
    BY <1>1, <2>1, <2>2, AfterThen
  <2>4. Whole(todo, pdir, ptes, spaces, pcb)'
    BY <1>1, <1>13, <2>1, <2>3 DEF Whole
  <2>5. Ready(todo', pdir', ptes', spaces', pcb')
    BY <1>1, <1>2, <1>14, <1>15, <2>1, <2>3 DEF Ready
  <2> QED
    BY <1>1, <1>2, <1>12, <2>3, <2>4, <2>5 DEF MemoryInv
<1>18. CASE ~(d + 1 < KERNEL_DIRS)
  <2>1. Done /\ d + 1 = KERNEL_DIRS
    BY <1>3, <1>16, <1>18 DEF Loop
  <2>2. /\ TodoOK(todo') /\ todo' # <<>> /\ todo'[1] = todo[2] /\ todo[2][1] \in {"table", "copy_table"}
        /\ todo[2][1] = "copy_table" => todo[2][3] = KERNEL_DIRS
    BY <1>1, <2>1, AfterDone DEF MayFollow, Begins
  <2>3. \A q \in spaces' : KernelUpTo(pdir', ptes', q, KERNEL_DIRS)
    BY <1>1, <1>13, <1>14, <2>1
  <2>4. Whole(todo, pdir, ptes, spaces, pcb)'
    BY <2>3, WholeWhenAll
  <2>5. Ready(todo', pdir', ptes', spaces', pcb')
    BY <1>1, <1>2, <1>15, <2>1, <2>2 DEF Ready
  <2> QED
    BY <1>1, <1>2, <1>12, <2>2, <2>4, <2>5 DEF MemoryInv
<1> QED
  BY <1>17, <1>18

(* The frames that takeback_page() finds are those the PCB holds. *)
LEMMA FramesFound ==
  ASSUME NEW p, NEW f, f # None
  PROVE  f \in KernelTables(p) \cup UserTables(p) \cup UserFrames(p)
           <=> \E d \in LowDirs : \E e \in Spots : Held(pdir, ptes, p, d, e) = f
<1>1. /\ None \in Spots /\ Entries \subseteq Spots /\ None \notin Entries
      /\ KernelDirs \subseteq LowDirs /\ UserDirs \subseteq LowDirs /\ \A d \in LowDirs : d \in UserDirs <=> d \notin KernelDirs
  BY NumberTypes DEF Spots
<1>2. ASSUME f \in KernelTables(p) \cup UserTables(p)
      PROVE  \E d \in LowDirs : \E e \in Spots : Held(pdir, ptes, p, d, e) = f
  <2>1. PICK d \in LowDirs : pdir[p][d] = f
    BY <1>1, <1>2 DEF KernelTables, UserTables
  <2>2. Held(pdir, ptes, p, d, None) = f
    BY <2>1 DEF Held
  <2> QED
    BY <1>1, <2>2
<1>3. ASSUME f \in UserFrames(p)
      PROVE  \E d \in LowDirs : \E e \in Spots : Held(pdir, ptes, p, d, e) = f
  <2>1. PICK t \in UserTables(p), e \in Entries : ptes[t][e] = f
    BY <1>3 DEF UserFrames
  <2>2. PICK d \in UserDirs : pdir[p][d] = t /\ t # None
    BY <2>1 DEF UserTables
  <2>3. Held(pdir, ptes, p, d, e) = f
    BY <1>1, <2>1, <2>2 DEF Held
  <2> QED
    BY <1>1, <2>3
<1>4. ASSUME NEW d \in LowDirs, NEW e \in Spots, Held(pdir, ptes, p, d, e) = f
      PROVE  f \in KernelTables(p) \cup UserTables(p) \cup UserFrames(p)
  <2>1. CASE e = None
    BY <1>1, <1>4, <2>1 DEF Held, KernelTables, UserTables
  <2>2. CASE e # None
    <3>1. e \in Entries /\ d \in UserDirs /\ pdir[p][d] # None /\ ptes[pdir[p][d]][e] = f
      BY <1>4, <2>2 DEF Held, Spots
    <3>2. pdir[p][d] \in UserTables(p)
      BY <3>1 DEF UserTables
    <3> QED
      BY <3>1, <3>2 DEF UserFrames
  <2> QED
    BY <2>1, <2>2
<1> QED
  BY <1>2, <1>3, <1>4

(* takeback_page(). *)
LEMMA TakebackStep == ASSUME MemoryInv, Takeback PROVE MemoryInv'
<1> DEFINE F == KernelTables(pcb) \cup UserTables(pcb) \cup UserFrames(pcb)
<1>1. /\ Doing("takeback") /\ Done /\ UNCHANGED <<bitmap_idx, pcb>> /\ SetPagesIdle(F)
      /\ ptes' = [t \in DOMAIN ptes |-> IF t \in UserTables(pcb) THEN ZeroTable ELSE ptes[t]]
      /\ pdir' = [pdir EXCEPT ![pcb] = [d \in Dirs |-> IF d \in UserDirs THEN None ELSE pdir[pcb][d]]]
      /\ spaces' = spaces \ {pcb}
  BY DEF Takeback, Rest
<1>2. /\ pcb \in Pcbs /\ pcb # None /\ TodoOK(todo) /\ Ready(todo, pdir, ptes, spaces, pcb)
      /\ todo[1][1] = "takeback" /\ Head(todo) = todo[1] /\ StepOK(todo[1]) /\ pcb \in spaces
  BY <1>1, InHand
<1>3. /\ page_bitmap \in Bitmaps /\ bitmap_idx \in 0..(NR_PAGES - 1)
      /\ pdir \in Pdirs /\ ptes \in Tables /\ spaces \in SUBSET Pcbs /\ Exact(pdir, ptes, spaces, Marked)
  BY DEF MemoryInv, MapType
<1>4. None \notin Marked
  BY MarkedType
<1>5. \A f \in Marked : f \in F <=> \E d \in LowDirs : \E e \in Spots : Held(pdir, ptes, pcb, d, e) = f
  BY <1>4, FramesFound
<1> HIDE DEF F
<1>6. page_bitmap' \in Bitmaps /\ Marked' = Marked \ F
  BY <1>1, <1>3, FewerFrames
<1>7. pdir' \in Pdirs /\ \A q \in Pcbs : q # pcb => pdir'[q] = pdir[q]
  <2>1. [d \in Dirs |-> IF d \in UserDirs THEN None ELSE pdir[pcb][d]] \in [Dirs -> PoolFrames \cup {None}]
    BY <1>2, <1>3 DEF Pdirs
  <2> QED
    BY <1>1, <1>2, <1>3, <2>1 DEF Pdirs
<1>8. ptes' \in Tables /\ \A t \in PoolFrames : t \notin UserTables(pcb) => ptes'[t] = ptes[t]
  BY <1>1, <1>3 DEF Tables, ZeroTable
<1>9. \A t \in PoolFrames : (\A d \in UserDirs : pdir[pcb][d] # t) => ptes'[t] = ptes[t]
  BY <1>8 DEF UserTables
<1> PICK pd2 : pd2 = pdir'
  OBVIOUS
<1> PICK pt2 : pt2 = ptes'
  OBVIOUS
<1>10. /\ Exact(pd2, pt2, spaces \ {pcb}, Marked \ F)
       /\ \A q \in spaces \ {pcb} : \A c \in LowDirs : SameTable(pdir, ptes, pd2, pt2, q, c)
  BY <1>2, <1>3, <1>4, <1>5, <1>7, <1>9, HoldsNothing, ZenonT(30)
<1>11. MapType' /\ Exact(pdir, ptes, spaces, Marked)'
  BY <1>1, <1>3, <1>6, <1>7, <1>8, <1>10 DEF MapType
<1>12. ASSUME NEW q \in spaces'
       PROVE  KernelUpTo(pd2, pt2, q, KERNEL_DIRS)
  <2>1. q \in spaces /\ q # pcb /\ q \in Pcbs
    BY <1>1, <1>3
  <2>2. KernelUpTo(pdir, ptes, q, KERNEL_DIRS)
    BY <1>2, <2>1, AllWhole
  <2>3. \A c \in 0..(KERNEL_DIRS - 1) : c \in LowDirs
    BY NumberTypes DEF KernelDirs
  <2>4. \A c \in 0..(KERNEL_DIRS - 1) : SameTable(pdir, ptes, pd2, pt2, q, c) /\ pd2[q][c + KOFFSET] = pdir[q][c + KOFFSET]
    BY <1>7, <1>10, <2>1, <2>3
  <2> QED
    BY <2>2, <2>4, KernelKept
<1>13. Whole(todo, pdir, ptes, spaces, pcb)'
  BY <1>12, WholeWhenAll
<1>14. TodoOK(todo') /\ todo' # <<>> /\ todo'[1] = todo[2] /\ todo[2][1] \in {"clear", "answer"}
  BY <1>1, AfterDone DEF MayFollow
<1>15. Ready(todo', pdir', ptes', spaces', pcb')
  BY <1>1, <1>14 DEF Ready
<1> QED
  BY <1>1, <1>2, <1>11, <1>13, <1>14, <1>15 DEF MemoryInv
-----------------------------------------------------------------------------
(* What holds always. *)

(* At the beginning no frame is marked and nothing is mapped. *)
LEMMA InitHolds == ASSUME MInit PROVE MemoryInv
<1>1. NR_PAGES \in Nat \ {0}
  BY ConstantTypes
<1>2. MapType
  BY <1>1 DEF MInit, MapType, Bitmaps, Pdirs, Tables, ZeroTable
<1>3. Marked = {}
  BY DEF MInit, Marked, Busy
<1>4. Exact(pdir, ptes, spaces, Marked) /\ Whole(todo, pdir, ptes, spaces, pcb)
  BY <1>3 DEF MInit, Exact, Whole
<1> QED
  BY <1>2, <1>4 DEF MInit, MemoryInv

(* The inductive invariant of the memory manager: the places of the page tables
   hold exactly the frames marked in page_bitmap, each once; every process has the
   kernel mapped; and the steps left of a request fit the tables made so far. *)
THEOREM MemoryHolds == MSpec => []MemoryInv
<1>1. MInit => MemoryInv
  BY InitHolds
<1>2. MemoryInv /\ [MNext]_mvars => MemoryInv'
  <2> SUFFICES ASSUME MemoryInv, [MNext]_mvars
               PROVE  MemoryInv'
    OBVIOUS
  <2>1. CASE Requests
    BY <2>1, RequestStep
  <2>2. CASE Steps
    BY <2>2, ClearStep, KernelStep, TableStep, StackStep, LoadSegmentStep, FirstPageStep, NextPageStep,
       LastPageStep, CopyTableStep, CopyPageStep, TakebackStep, FetchStep, CopyFromKernelStep,
       PlaceArgsStep, AnswerStep DEF Steps
  <2>3. CASE \E p \in Pcbs, a \in WriteAddrs : Write(p, a)
    BY <2>3, WriteStep
  <2>4. CASE UNCHANGED mvars
    BY <2>4 DEF mvars, MemoryInv, MapType, Marked, Busy
  <2> QED
    BY <2>1, <2>2, <2>3, <2>4 DEF MNext
<1> QED
  BY <1>1, <1>2, PTL DEF MSpec

(* The bitmap marks exactly the frames that the tables of the processes lead to,
   for every number of frames, processes and requests. *)
THEOREM PagesStayAccounted == MSpec => []PagesAccounted
<1>1. MemoryInv => PagesAccounted
  <2> SUFFICES ASSUME MemoryInv
               PROVE  Marked = UNION {Owned(p) : p \in spaces}
    BY DEF PagesAccounted, Marked
  <2>1. Exact(pdir, ptes, spaces, Marked) /\ None \notin Marked
    BY MarkedType DEF MemoryInv
  <2>2. \A p : None \notin Owned(p) /\ \A f : f # None =>
          (f \in Owned(p) <=> f \in KernelTables(p) \cup UserTables(p) \cup UserFrames(p))
    BY DEF Owned, UserTables, UserFrames
  <2>3. \A p, f : f \in Owned(p) <=> f # None /\ \E d \in LowDirs : \E e \in Spots : Held(pdir, ptes, p, d, e) = f
    BY <2>2, FramesFound
  <2>4. ASSUME NEW f \in Marked PROVE \E p \in spaces : f \in Owned(p)
    BY <2>1, <2>3 DEF Exact
  <2>5. ASSUME NEW p \in spaces, NEW f \in Owned(p) PROVE f \in Marked
    BY <2>1, <2>3 DEF Exact
  <2> QED
    BY <2>4, <2>5
<1> QED
  BY <1>1, MemoryHolds, PTL

(* A place of the page tables is a place of Exact. *)
LEMMA SlotIsPlace ==
  ASSUME NEW p, NEW s \in Slots(p)
  PROVE  \E d \in LowDirs : \E e \in Spots :
           /\ FrameAt(p, s) = Held(pdir, ptes, p, d, e) /\ FrameAt(p, s) # None
           /\ s = IF e = None THEN <<d>> ELSE <<d, e>>
<1>1. /\ None \in Spots /\ Entries \subseteq Spots /\ None \notin Entries
      /\ KernelDirs \subseteq LowDirs /\ UserDirs \subseteq LowDirs
  BY NumberTypes DEF Spots
<1>2. CASE s \in {<<d>> : d \in {x \in KernelDirs \cup UserDirs : pdir[p][x] # None}}
  <2>1. PICK d \in LowDirs : s = <<d>> /\ pdir[p][d] # None
    BY <1>1, <1>2
  <2>2. Len(s) = 1 /\ s[1] = d
    BY <2>1
  <2>3. FrameAt(p, s) = pdir[p][d] /\ Held(pdir, ptes, p, d, None) = pdir[p][d]
    BY <2>2 DEF FrameAt, Held
  <2> QED
    BY <1>1, <2>1, <2>3
<1>3. CASE s \in {x \in UserDirs \X Entries : pdir[p][x[1]] # None /\ ptes[pdir[p][x[1]]][x[2]] # None}
  <2>1. PICK d \in UserDirs, e \in Entries : s = <<d, e>> /\ pdir[p][d] # None /\ ptes[pdir[p][d]][e] # None
    BY <1>3
  <2>2. Len(s) = 2 /\ s[1] = d /\ s[2] = e /\ e # None
    BY <1>1, <2>1
  <2>3. FrameAt(p, s) = ptes[pdir[p][d]][e] /\ Held(pdir, ptes, p, d, e) = ptes[pdir[p][d]][e]
    BY <2>1, <2>2 DEF FrameAt, Held
  <2> QED
    BY <1>1, <2>1, <2>2, <2>3
<1> QED
  BY <1>2, <1>3 DEF Slots

(* No frame is in two places of the page tables. *)
THEOREM FramesAreNotShared == MSpec => []FramesNotShared
<1>1. MemoryInv => FramesNotShared
  <2> SUFFICES ASSUME MemoryInv, NEW p \in spaces, NEW q \in spaces, NEW s \in Slots(p), NEW t \in Slots(q),
                      FrameAt(p, s) = FrameAt(q, t)
               PROVE  p = q /\ s = t
    BY DEF FramesNotShared
  <2>1. PICK d \in LowDirs, e \in Spots :
          /\ FrameAt(p, s) = Held(pdir, ptes, p, d, e) /\ FrameAt(p, s) # None
          /\ s = IF e = None THEN <<d>> ELSE <<d, e>>
    BY SlotIsPlace
  <2>2. PICK c \in LowDirs, i \in Spots :
          /\ FrameAt(q, t) = Held(pdir, ptes, q, c, i) /\ t = IF i = None THEN <<c>> ELSE <<c, i>>
    BY SlotIsPlace
  <2>3. \A x, y \in spaces : \A b, a \in LowDirs : \A j, k \in Spots :
          Held(pdir, ptes, x, b, j) = Held(pdir, ptes, y, a, k) /\ Held(pdir, ptes, x, b, j) # None
            => x = y /\ b = a /\ j = k
    BY DEF MemoryInv, Exact
  <2>4. Held(pdir, ptes, p, d, e) = Held(pdir, ptes, q, c, i) /\ Held(pdir, ptes, p, d, e) # None
    BY <2>1, <2>2
  <2>5. p = q /\ d = c /\ e = i
    BY <2>3, <2>4
  <2> QED
    BY <2>1, <2>2, <2>5
<1> QED
  BY <1>1, MemoryHolds, PTL
-----------------------------------------------------------------------------
(***************************************************************************)
(* The copies of module Memory: copy_from_kernel(), copy_to_kernel() and   *)
(* strlen_user_string() go page by page through the tables that            *)
(* load_program() has just made, or that exec() is about to give up.       *)
(* CopyInv says which pages each step of a request relies on, and what of  *)
(* the argument string has been fetched; it is inductive on top of         *)
(* MemoryInv, which says that no two places of the tables share a frame.   *)
(* ArgInv, on top of both, says where the argument string of exec() is: in *)
(* the old image, in the kernel, partly or wholly on the new stack.        *)
(***************************************************************************)

High == KOFFSET * NR_PTE * PAGE_SIZE

IsMapped(pd, pt, p, x) == Frame(pd[p], pt, PageOf(x)) # None
Byte(pd, pt, dt, p, x) == dt[Frame(pd[p], pt, PageOf(x))][OffsetOf(x)]

PagesThere(pd, pt, p, lo, hi) == \A v \in lo..hi : Frame(pd[p], pt, v) # None

\* A copy to p: every byte has its place, and with nothing left to copy the
\* last byte had one.
Copies(s, pd, pt, p) ==
  /\ s[2] \in Nat /\ s[3] \in Seq(ToSet(s[3]))
  /\ s[2] >= KERNEL_MEM * PAGE_SIZE /\ s[2] + Len(s[3]) <= High + 3
  /\ \A x \in s[2]..(s[2] + Len(s[3]) - 1) : IsMapped(pd, pt, p, x)
  /\ Len(s[3]) = 0 => IsMapped(pd, pt, p, s[2]) \/ IsMapped(pd, pt, p, s[2] - 1)

\* A copy into the pages from lo to hi.
Covers(s, lo, hi) ==
  /\ s[2] \in Nat /\ s[3] \in Seq(ToSet(s[3]))
  /\ s[2] >= KERNEL_MEM * PAGE_SIZE /\ s[2] + Len(s[3]) <= High + 3
  /\ PageOf(s[2]) = lo /\ \A x \in s[2]..(s[2] + Len(s[3]) - 1) : PageOf(x) <= hi

\* What the steps of load_program() and exec() rely on: the pages made so far.
Prepared(td, pd, pt, p) ==
  LET s == td[1]
  IN /\ s[1] = "from" => Copies(s, pd, pt, p)
     /\ s[1] = "next" => /\ s[2] - 1 \in Nat /\ PageOf(td[2][2]) <= s[2] - 1
                         /\ PagesThere(pd, pt, p, PageOf(td[2][2]), s[2] - 1)
                         /\ Covers(td[2], PageOf(td[2][2]), s[2] - 1 + s[3])
     /\ s[1] = "first" => Covers(td[3], s[2], s[2] + td[2][3])
     /\ s[1] = "stack" => PagesThere(pd, pt, p, s[2] + 1, PageOf(StackTop))
     /\ s[1] \in {"load", "first", "next", "from", "args"} =>
          PagesThere(pd, pt, p, PageOf(StackTop) - NR_STACK + 1, PageOf(StackTop))

\* The string st is at address a of p.
TextAt(st, pd, pt, dt, p, a) ==
  /\ st \in Seq(ToSet(st)) /\ Len(st) <= ARG_BUF /\ a \in Nat /\ a + Len(st) \in Addrs
  /\ \A k \in 0..Len(st) : IsMapped(pd, pt, p, a + k)
  /\ \A k \in 1..Len(st) : Byte(pd, pt, dt, p, a + k - 1) = st[k] /\ st[k] # Zero
  /\ Byte(pd, pt, dt, p, a + Len(st)) = Zero

\* The string while it is fetched.
Fetching(td, pd, pt, dt, p, tm, ps) ==
  LET s == td[1]
      n == Len(ps.str)
  IN /\ s[1] = "strlen" =>
          /\ tm = <<>> /\ s[2] \in Nat /\ s[3] \in Nat /\ s[4] \in Nat
          /\ Fitting(ps) => /\ TextAt(ps.str, pd, pt, dt, p, s[2]) /\ PageOf(s[2]) = PageOf(s[2] + n)
                            /\ s[3] = s[2] /\ s[4] = 0
     /\ s[1] = "to" =>
          /\ s[2] \in Nat /\ s[3] \in Nat
          /\ Fitting(ps) => /\ TextAt(ps.str, pd, pt, dt, p, s[2] - Len(tm)) /\ Len(tm) + s[3] = n + 1
                            /\ \A k \in 1..Len(tm) : tm[k] = Byte(pd, pt, dt, p, s[2] - Len(tm) + k - 1)

\* The string in the kernel is not too long for its buffer.
TempOK(tm) == tm \in Seq(ToSet(tm)) /\ Len(tm) <= ARG_BUF

KernelBoot(dt) == \A f \in KernelFrames, o \in Offsets : dt[f][o] # Boot[f][o] => f = 0 /\ o < 3

CopyInv ==
  /\ data = [f \in AllFrames |-> data[f]] /\ KernelBoot(data) /\ TempOK(temp)
  /\ pcb = None => temp = <<>>
  /\ pcb # None => /\ Prepared(todo, pdir, ptes, pcb)
                   /\ Fetching(todo, pdir, ptes, data, pcb, temp, passed)
  /\ StopsOnlyPastTheEnd

-----------------------------------------------------------------------------
(* Addresses. *)

(* The buffer of exec() fits on the stack. *)
LEMMA ArgTypes == ARG_BUF \in Nat \ {0} /\ ARG_BUF + 5 <= NR_STACK * PAGE_SIZE
  BY MemoryAssumption

(* Addresses at distance k, as long as the page does not end. *)
LEMMA SamePage ==
  ASSUME NEW a \in Nat, NEW k \in Nat
  PROVE  /\ PageOf(a) \in Nat /\ OffsetOf(a) \in Offsets /\ OffsetOf(a) \in Nat /\ OffsetOf(a) < PAGE_SIZE
         /\ OffsetOf(a) + k < PAGE_SIZE <=> PageOf(a + k) = PageOf(a)
         /\ OffsetOf(a) + k < PAGE_SIZE => OffsetOf(a + k) = OffsetOf(a) + k
<1> DEFINE n == PAGE_SIZE
           q == a \div n
           r == a % n
           c == (a + k) \div n
           s == (a + k) % n
<1>1. n \in Nat \ {0} /\ a + k \in Nat
  BY ConstantTypes
<1> HIDE DEF n
<1>2. q \in Nat /\ r \in 0..(n - 1) /\ a = n * q + r
  BY <1>1, Division
<1>3. c \in Nat /\ s \in 0..(n - 1) /\ a + k = n * c + s
  BY <1>1, Division
<1> HIDE DEF q, r, c, s
<1>4. ASSUME r + k < n
      PROVE  c = q /\ s = r + k
  <2> PICK t \in 0..(n - 1) : t = r + k
    BY <1>1, <1>2, <1>4
  <2>1. n * c + s = n * q + t /\ q \in Int /\ c \in Int
    BY <1>1, <1>2, <1>3
  <2>2. c = q /\ s = t
    BY ONLY <2>1, <1>1, <1>3, t \in 0..(n - 1), DivisionUnique, Zenon
  <2> QED
    BY <2>2
<1>5. ASSUME c = q
      PROVE  r + k < n
  BY <1>1, <1>2, <1>3, <1>5
<1>6. /\ q \in Nat /\ r \in 0..(n - 1) /\ r \in Nat /\ r < n
      /\ r + k < n <=> c = q
      /\ r + k < n => s = r + k
  BY <1>1, <1>2, <1>4, <1>5
<1> QED
  BY <1>6 DEF PageOf, OffsetOf, Offsets, n, q, r, c, s

(* The end of user space. *)
LEMMA HighType ==
  /\ High \in Nat /\ High = StackTop + 1 /\ PAGE_SIZE >= 4
  /\ KERNEL_MEM * PAGE_SIZE \in Nat /\ KERNEL_MEM >= 2
  /\ High = PAGE_SIZE * (KOFFSET * NR_PTE) /\ KOFFSET * NR_PTE \in Nat
<1>1. /\ PAGE_SIZE \in Nat \ {0} /\ NR_PTE \in Nat \ {0} /\ KOFFSET \in Nat /\ KOFFSET >= 2 /\ KERNEL_MEM \in Nat
  BY ConstantTypes
<1>2. KOFFSET * NR_PTE \in Nat
  BY <1>1
<1>3. KOFFSET * NR_PTE * PAGE_SIZE \in Nat /\ KERNEL_MEM * PAGE_SIZE \in Nat
  BY <1>1, <1>2
<1>4. PAGE_SIZE % 4 = 0 /\ KERNEL_MEM >= 2
  BY MemoryAssumption DEF KERNEL_MEM
<1>5. PAGE_SIZE >= 4
  BY <1>1, <1>4
<1>6. StackTop \in Int /\ High = StackTop + 1
  BY <1>3 DEF StackTop, High
<1> QED
  BY <1>1, <1>2, <1>3, <1>4, <1>5, <1>6 DEF High

(* Addresses of user space, of the first bytes above it, and any other. *)
LEMMA UserAddress ==
  ASSUME NEW x \in Nat, x >= KERNEL_MEM * PAGE_SIZE, x < High
  PROVE  PageOf(x) \in Nat /\ DirOf(PageOf(x)) \in UserDirs
<1>1. /\ PAGE_SIZE \in Nat \ {0} /\ NR_PTE \in Nat \ {0} /\ KERNEL_DIRS \in Nat /\ KOFFSET \in Nat
      /\ KERNEL_MEM \in Nat
  BY ConstantTypes
<1> DEFINE v == x \div PAGE_SIZE
           T == KOFFSET * NR_PTE
<1>2. v \in Nat
  BY <1>1, Division
<1>3. T \in Int
  BY <1>1
<1>4. x < T * PAGE_SIZE /\ ~(x < KERNEL_MEM * PAGE_SIZE)
  BY <1>1, HighType DEF High
<1> HIDE DEF T
<1>5. v < T /\ ~(v < KERNEL_MEM)
  BY <1>1, <1>3, <1>4, DivisionBounds
<1> HIDE DEF v
<1>6. v < KOFFSET * NR_PTE /\ ~(v < KERNEL_DIRS * NR_PTE)
  BY <1>5 DEF T, KERNEL_MEM
<1>7. v \div NR_PTE < KOFFSET /\ ~(v \div NR_PTE < KERNEL_DIRS)
  BY <1>1, <1>2, <1>6, DivisionBounds
<1>8. v \div NR_PTE \in Nat
  BY <1>1, <1>2, Division
<1>9. DirOf(v) \in UserDirs
  BY <1>1, <1>7, <1>8 DEF DirOf, UserDirs
<1> QED
  BY <1>2, <1>9 DEF PageOf, v

(* The first bytes above user space are in the first page of the kernel. *)
LEMMA HighAddress ==
  ASSUME NEW x \in High..(High + 2)
  PROVE  PageOf(x) \in Nat /\ DirOf(PageOf(x)) = KOFFSET /\ EntryOf(PageOf(x)) = 0 /\ OffsetOf(x) = x - High
<1>1. PAGE_SIZE \in Nat \ {0} /\ NR_PTE \in Nat \ {0} /\ KOFFSET \in Nat /\ PAGE_SIZE >= 4
  BY ConstantTypes, HighType
<1> DEFINE T == KOFFSET * NR_PTE
           r == x - High
<1>2. T \in Nat /\ High = PAGE_SIZE * T /\ High \in Nat
  BY HighType
<1> HIDE DEF T
<1>3. r \in 0..(PAGE_SIZE - 1) /\ x = PAGE_SIZE * T + r /\ x \in Nat
  BY <1>1, <1>2
<1> HIDE DEF r
<1>4. x \div PAGE_SIZE = T /\ x % PAGE_SIZE = r
  BY <1>1, <1>2, <1>3, QuotientIs
<1>5. T \div NR_PTE = KOFFSET /\ T % NR_PTE = 0
  <2>1. T = NR_PTE * KOFFSET + 0 /\ 0 \in 0..(NR_PTE - 1) /\ KOFFSET \in Int
    BY <1>1 DEF T
  <2> QED
    BY <1>1, <1>2, <2>1, QuotientIs
<1> QED
  BY <1>2, <1>4, <1>5 DEF PageOf, DirOf, EntryOf, OffsetOf, r

(* The directory of an address. *)
LEMMA AnyAddress ==
  ASSUME NEW x \in Addrs
  PROVE  x \in Nat /\ PageOf(x) \in Nat /\ DirOf(PageOf(x)) \in Dirs
<1>1. PAGE_SIZE \in Nat \ {0} /\ NR_PTE \in Nat \ {0} /\ NR_PDE \in Nat
  BY ConstantTypes
<1> DEFINE v == x \div PAGE_SIZE
           T == NR_PDE * NR_PTE
<1>2. T \in Nat
  BY <1>1
<1>3. T * PAGE_SIZE \in Nat /\ x \in 0..(T * PAGE_SIZE - 1)
  BY <1>1, <1>2 DEF Addrs
<1> HIDE DEF T
<1>4. x \in Nat /\ x < T * PAGE_SIZE
  BY <1>3
<1>5. v \in Nat /\ v < T
  <2>1. v \in Nat
    BY <1>1, <1>4, Division
  <2>2. v < T
    BY <1>1, <1>2, <1>4, DivisionBounds
  <2> QED
    BY <2>1, <2>2
<1> HIDE DEF v
<1>6. v < NR_PDE * NR_PTE
  BY <1>5 DEF T
<1>7. v \div NR_PTE < NR_PDE /\ v \div NR_PTE \in Nat
  <2>1. v \div NR_PTE \in Nat
    BY <1>1, <1>5, Division
  <2>2. v \div NR_PTE < NR_PDE
    BY <1>1, <1>5, <1>6, DivisionBounds
  <2> QED
    BY <2>1, <2>2
<1>8. DirOf(v) \in Dirs
  BY <1>1, <1>7 DEF DirOf, Dirs
<1> QED
  BY <1>4, <1>5, <1>8 DEF PageOf, v

-----------------------------------------------------------------------------
(* Frames. *)

(* Outside user space virtual pages are frames of the kernel. *)
LEMMA KernelPage ==
  ASSUME NEW pd, NEW pt, NEW p, KernelUpTo(pd, pt, p, KERNEL_DIRS),
         NEW v \in Nat, NEW d \in KernelDirs, DirOf(v) = d \/ DirOf(v) = d + KOFFSET, pd \in Pdirs, p \in Pcbs
  PROVE  /\ Frame(pd[p], pt, v) = d * NR_PTE + EntryOf(v)
         /\ Frame(pd[p], pt, v) \in KernelFrames /\ Frame(pd[p], pt, v) # None
<1>1. /\ KERNEL_DIRS \in Nat \ {0} /\ NR_PTE \in Nat \ {0} /\ EntryOf(v) \in Entries /\ d \in 0..(KERNEL_DIRS - 1)
  BY ConstantTypes, PlaceOfPage DEF KernelDirs
<1>2. /\ pd[p][d] # None /\ pd[p][d + KOFFSET] = pd[p][d]
      /\ pt[pd[p][d]] = [e \in Entries |-> d * NR_PTE + e]
  BY <1>1 DEF KernelUpTo
<1>3. Frame(pd[p], pt, v) = d * NR_PTE + EntryOf(v)
  BY <1>1, <1>2 DEF Frame
<1>4. d * NR_PTE + EntryOf(v) \in KernelFrames
  <2>1. EntryOf(v) \in 0..(NR_PTE - 1)
    BY <1>1 DEF Entries
  <2>2. d * NR_PTE \in Nat /\ (KERNEL_DIRS - 1 - d) * NR_PTE \in Nat
    BY <1>1
  <2>3. (KERNEL_DIRS - 1 - d) * NR_PTE = KERNEL_DIRS * NR_PTE - NR_PTE - d * NR_PTE
    BY <1>1
  <2>4. KERNEL_DIRS * NR_PTE \in Nat
    BY <1>1
  <2> QED
    BY <1>1, <2>1, <2>2, <2>3, <2>4 DEF KernelFrames
<1> QED
  BY <1>3, <1>4, NumberTypes DEF AllFrames

(* In user space they are marked frames of the pool. *)
LEMMA UserPage ==
  ASSUME MemoryInv, NEW p \in spaces, NEW v \in Nat, DirOf(v) \in UserDirs, Frame(pdir[p], ptes, v) # None
  PROVE  /\ Frame(pdir[p], ptes, v) = Held(pdir, ptes, p, DirOf(v), EntryOf(v))
         /\ DirOf(v) \in LowDirs /\ EntryOf(v) \in Spots
         /\ Frame(pdir[p], ptes, v) \in Marked /\ Frame(pdir[p], ptes, v) \in PoolFrames
<1>1. EntryOf(v) \in Entries /\ EntryOf(v) # None /\ EntryOf(v) \in Spots
  BY PlaceOfPage, NumberTypes DEF Spots
<1>2. DirOf(v) \in LowDirs
  BY NumberTypes
<1>3. Frame(pdir[p], ptes, v) = Held(pdir, ptes, p, DirOf(v), EntryOf(v))
  BY <1>1 DEF Frame, Held
<1>4. Held(pdir, ptes, p, DirOf(v), EntryOf(v)) \in Marked \cup {None}
  BY <1>1, <1>2 DEF MemoryInv, Exact
<1> QED
  BY <1>1, <1>2, <1>3, <1>4, MarkedType

(* The pool begins above the kernel. *)
LEMMA PoolAndKernel == \A f \in PoolFrames : f \notin KernelFrames
BY ConstantTypes DEF PoolFrames, KernelFrames, KERNEL_MEM

(* A directory outside user space maps the kernel. *)
LEMMA KernelDirOf ==
  ASSUME NEW d \in Dirs, d \notin UserDirs
  PROVE  \E c \in KernelDirs : d = c \/ d = c + KOFFSET
<1>1. /\ KERNEL_DIRS \in Nat /\ KOFFSET \in Nat /\ KOFFSET = NR_PDE - KERNEL_DIRS /\ KOFFSET >= KERNEL_DIRS + 2
      /\ NR_PDE \in Nat
  BY ConstantTypes
<1>2. CASE d < KERNEL_DIRS
  BY <1>1, <1>2 DEF Dirs, KernelDirs
<1>3. CASE d >= KOFFSET
  <2>1. d - KOFFSET \in KernelDirs /\ d = (d - KOFFSET) + KOFFSET
    BY <1>1, <1>3 DEF Dirs, KernelDirs
  <2> QED
    BY <2>1
<1> QED
  BY <1>1, <1>2, <1>3 DEF Dirs, UserDirs

(* A page of user space is nowhere in another address space. *)
LEMMA ForeignFrame ==
  ASSUME MemoryInv, NEW p \in spaces, NEW q \in spaces, p # q, KernelUpTo(pdir, ptes, q, KERNEL_DIRS),
         NEW v \in Nat, DirOf(v) \in UserDirs, Frame(pdir[p], ptes, v) # None,
         NEW w \in Nat, DirOf(w) \in Dirs
  PROVE  Frame(pdir[q], ptes, w) # Frame(pdir[p], ptes, v)
<1>1. /\ Frame(pdir[p], ptes, v) = Held(pdir, ptes, p, DirOf(v), EntryOf(v))
      /\ DirOf(v) \in LowDirs /\ EntryOf(v) \in Spots
      /\ Frame(pdir[p], ptes, v) \in PoolFrames
  BY UserPage
<1>2. pdir \in Pdirs /\ q \in Pcbs /\ Exact(pdir, ptes, spaces, Marked)
  BY DEF MemoryInv, MapType
<1>3. CASE DirOf(w) \in UserDirs
  <2> SUFFICES ASSUME Frame(pdir[q], ptes, w) = Frame(pdir[p], ptes, v)
               PROVE  FALSE
    OBVIOUS
  <2>1. /\ Frame(pdir[q], ptes, w) = Held(pdir, ptes, q, DirOf(w), EntryOf(w))
        /\ DirOf(w) \in LowDirs /\ EntryOf(w) \in Spots
    BY <1>3, UserPage
  <2>2. /\ Held(pdir, ptes, p, DirOf(v), EntryOf(v)) = Held(pdir, ptes, q, DirOf(w), EntryOf(w))
        /\ Held(pdir, ptes, p, DirOf(v), EntryOf(v)) # None
    BY <1>1, <2>1
  <2> PICK d \in LowDirs : d = DirOf(v)
    BY <1>1
  <2> PICK c \in LowDirs : c = DirOf(w)
    BY <2>1
  <2> PICK e \in Spots : e = EntryOf(v)
    BY <1>1
  <2> PICK i \in Spots : i = EntryOf(w)
    BY <2>1
  <2>3. Held(pdir, ptes, p, d, e) = Held(pdir, ptes, q, c, i) /\ Held(pdir, ptes, p, d, e) # None
    BY <2>2
  <2> QED
    BY ONLY <2>3, <1>2, p \in spaces, q \in spaces, p # q, d \in LowDirs, c \in LowDirs, e \in Spots, i \in Spots DEF Exact
<1>4. CASE DirOf(w) \notin UserDirs
  <2>1. PICK c \in KernelDirs : DirOf(w) = c \/ DirOf(w) = c + KOFFSET
    BY <1>4, KernelDirOf
  <2>2. Frame(pdir[q], ptes, w) \in KernelFrames
    BY <1>2, <2>1, KernelPage
  <2> QED
    BY <1>1, <2>2, PoolAndKernel
<1> QED
  BY <1>3, <1>4

\* A page more in the tables of p, at (d, e).
OnePageMore(pd, pt, pd2, pt2, p, d, e) ==
  /\ pd2[p][d] # None /\ pt2[pd2[p][d]][e] # None
  /\ pd[p][d] # None => \A i \in Entries : i # e => pt2[pd2[p][d]][i] = pt[pd[p][d]][i]
  /\ \A c \in LowDirs : c # d => SameTable(pd, pt, pd2, pt2, p, c)

(* It takes none away. *)
LEMMA PageKept ==
  ASSUME NEW pd, NEW pt, NEW pd2, NEW pt2, NEW p, NEW d, NEW e, OnePageMore(pd, pt, pd2, pt2, p, d, e),
         NEW v \in Nat, DirOf(v) \in LowDirs, Frame(pd[p], pt, v) # None
  PROVE  Frame(pd2[p], pt2, v) # None
<1> USE DEF OnePageMore
<1>1. EntryOf(v) \in Entries
  BY PlaceOfPage
<1>2. CASE DirOf(v) = d
  <2>1. pd[p][d] # None /\ pt[pd[p][d]][EntryOf(v)] # None
    BY <1>2 DEF Frame
  <2> QED
    BY <1>1, <1>2, <2>1 DEF Frame
<1>3. CASE DirOf(v) # d
  BY <1>3 DEF Frame, SameTable
<1> QED
  BY <1>2, <1>3

-----------------------------------------------------------------------------
(* Steps that copy nothing. *)

DataOK(dt) == dt = [f \in AllFrames |-> dt[f]] /\ KernelBoot(dt)

\* A step after which nothing is copied, and no page is waited for.
Quiet(s) == s[1] \in {"clear", "kernel", "table", "copy_table", "copy", "takeback", "answer"}

(* Then: the step takes the place of the first. *)
LEMMA ThenHead ==
  ASSUME MemoryInv, NEW op, Doing(op), NEW s, Then(s)
  PROVE  /\ todo'[1] = s /\ Len(todo) \in Nat /\ \A k \in 2..Len(todo) : todo'[k] = todo[k]
<1>1. TodoOK(todo)
  BY InHand
<1> DEFINE S == ToSet(todo)
           t == Tail(todo)
<1>2. todo \in Seq(S) /\ Len(todo) > 0 /\ Len(todo) \in Nat
  BY <1>1 DEF TodoOK, Fits
<1> HIDE DEF S
<1>3. t \in Seq(S) /\ Len(t) = Len(todo) - 1 /\ \A k \in 1..Len(t) : t[k] = todo[k + 1]
  BY <1>2
<1> HIDE DEF t
<1>4. todo' = <<s>> \o t
  BY DEF Then, t
<1> PICK T : T = S \cup {s}
  OBVIOUS
<1> PICK h : h = <<s>>
  OBVIOUS
<1> PICK u : u = todo'
  OBVIOUS
<1>5. t \in Seq(T) /\ h \in Seq(T) /\ Len(h) = 1 /\ h[1] = s /\ u = h \o t
  BY <1>3, <1>4
<1>6. u \in Seq(T) /\ Len(u) = Len(h) + Len(t)
      /\ \A k \in 1..(Len(h) + Len(t)) : u[k] = IF k <= Len(h) THEN h[k] ELSE t[k - Len(h)]
  BY ONLY <1>5, ConcatProperties, Zenon
<1>7. u[1] = s
  BY <1>2, <1>3, <1>5, <1>6
<1>8. ASSUME NEW k \in 2..Len(todo)
      PROVE  u[k] = todo[k]
  <2>1. u[k] = t[k - 1] /\ k - 1 \in 1..Len(t) /\ (k - 1) + 1 = k
    BY <1>2, <1>3, <1>5, <1>6
  <2>2. t[k - 1] = todo[(k - 1) + 1]
    BY <1>3, <2>1
  <2> QED
    BY <2>1, <2>2
<1> QED
  BY <1>2, <1>7, <1>8

(* Before a step that copies nothing, nothing has to be prepared. *)
LEMMA QuietStep ==
  ASSUME CopyInv, DataOK(data'), temp' = temp, ~halted', pcb' # None, Quiet(todo'[1])
  PROVE  CopyInv'
<1>1. Prepared(todo', pdir', ptes', pcb')
  BY DEF Prepared, Quiet
<1>2. Fetching(todo', pdir', ptes', data', pcb', temp', passed')
  BY DEF Fetching, Quiet
<1>3. StopsOnlyPastTheEnd'
  BY DEF StopsOnlyPastTheEnd
<1>4. TempOK(temp')
  BY DEF CopyInv
<1> QED
  BY <1>1, <1>2, <1>3, <1>4 DEF CopyInv, DataOK

(* A frame of the pool may be filled. *)
LEMMA PoolFilled ==
  ASSUME NEW dt, DataOK(dt), NEW f \in PoolFrames, NEW c
  PROVE  DataOK([dt EXCEPT ![f] = c])
<1> DEFINE new == [dt EXCEPT ![f] = c]
<1>1. /\ new = [x \in AllFrames |-> new[x]] /\ \A x \in AllFrames : x # f => new[x] = dt[x]
  BY DEF DataOK, AllFrames
<1>2. \A x \in KernelFrames : x \in AllFrames /\ x # f
  BY PoolAndKernel DEF AllFrames
<1>3. KernelBoot(new)
  BY <1>1, <1>2 DEF KernelBoot, DataOK
<1> QED
  BY <1>1, <1>3 DEF DataOK

(* get_idle_page() takes frames of the pool. *)
LEMMA NewFrameInPool ==
  ASSUME MemoryInv
  PROVE  /\ GetIdlePage => NewFrame \in PoolFrames
         /\ GetTwoIdlePages => NewFrame \in PoolFrames /\ SecondFrame \in PoolFrames
BY OneFrame, TwoFrames DEF MemoryInv, MapType

(* The steps of exit() and of fork(), and the first ones of load_program(). *)
LEMMA QuietSteps ==
  ASSUME MemoryInv, CopyInv, Clear \/ Kernel \/ CopyTable \/ Takeback
  PROVE  CopyInv'
<1>1. PICK op \in {"clear", "kernel", "copy_table", "takeback"} : Doing(op)
  BY DEF Clear, Kernel, CopyTable, Takeback
<1>2. UNCHANGED <<data, temp, halted, pcb>> /\ ~halted
  BY DEF Clear, Kernel, CopyTable, Takeback, Rest, Doing
<1>3. pcb # None
  BY <1>1, InHand
<1>4. DataOK(data')
  BY <1>2 DEF CopyInv, DataOK
<1>5. Done \/ \E s : Quiet(s) /\ Then(s)
  <2>1. CASE Clear \/ Takeback
    BY <2>1 DEF Clear, Takeback
  <2>2. CASE Kernel
    <3>1. Done \/ Then(<<"kernel", Arg(2) + 1>>)
      BY <2>2 DEF Kernel, Loop
    <3>2. Quiet(<<"kernel", Arg(2) + 1>>)
      BY DEF Quiet
    <3> QED
      BY <3>1, <3>2
  <2>3. CASE CopyTable
    <3>1. Done \/ Then(<<"copy_table", Arg(2), Arg(3) + 1>>) \/ Then(<<"copy", Arg(2), Arg(3), 0>>)
      BY <2>3 DEF CopyTable
    <3>2. Quiet(<<"copy_table", Arg(2), Arg(3) + 1>>) /\ Quiet(<<"copy", Arg(2), Arg(3), 0>>)
      BY DEF Quiet
    <3> QED
      BY <3>1, <3>2
  <2> QED
    BY <2>1, <2>2, <2>3
<1>6. Quiet(todo'[1])
  <2>1. CASE Done
    BY <1>1, <2>1, AfterDone DEF MayFollow, Quiet
  <2>2. ASSUME NEW s, Quiet(s), Then(s) PROVE Quiet(todo'[1])
    BY <1>1, <2>2, ThenHead
  <2> QED
    BY <1>5, <2>1, <2>2
<1> QED
  BY <1>2, <1>3, <1>4, <1>6, QuietStep

(* copy_process(): a page is copied to a frame of the pool. *)
LEMMA CopyPageQuiet == ASSUME MemoryInv, CopyInv, CopyPage PROVE CopyInv'
<1>1. Doing("copy") /\ UNCHANGED <<temp, halted, pcb>> /\ ~halted
  BY DEF CopyPage, Rest, Doing
<1>2. pcb # None
  BY <1>1, InHand
<1>3. DataOK(data)
  BY DEF CopyInv, DataOK
<1>4. DataOK(data')
  <2>1. data' = data \/ (GetIdlePage /\ \E c : data' = [data EXCEPT ![NewFrame] = c])
    BY DEF CopyPage
  <2> QED
    BY <1>3, <2>1, NewFrameInPool, PoolFilled
<1>5. Quiet(todo'[1])
  <2>1. Then(<<"copy", Arg(2), Arg(3), Arg(4) + 1>>) \/ Then(<<"copy_table", Arg(2), Arg(3) + 1>>)
    BY DEF CopyPage, NextEntry
  <2>2. Quiet(<<"copy_table", Arg(2), Arg(3) + 1>>) /\ Quiet(<<"copy", Arg(2), Arg(3), Arg(4) + 1>>)
    BY DEF Quiet
  <2> QED
    BY <1>1, <2>1, <2>2, ThenHead
<1> QED
  BY <1>1, <1>2, <1>4, <1>5, QuietStep

(* The end of a request. *)
LEMMA AnswerQuiet == ASSUME MemoryInv, CopyInv, Answer PROVE CopyInv'
<1>1. pcb' = None /\ temp' = <<>> /\ UNCHANGED <<data, halted>> /\ ~halted
  BY DEF Answer, Doing
<1>2. TempOK(<<>>)
  BY ArgTypes, EmptySeq DEF TempOK
<1> QED
  BY <1>1, <1>2 DEF CopyInv, StopsOnlyPastTheEnd

-----------------------------------------------------------------------------
(* Steps that make pages. *)

StackThere(pd, pt, p) == PagesThere(pd, pt, p, PageOf(StackTop) - NR_STACK + 1, PageOf(StackTop))

(* Steps of load_program() and exec() after the string has been fetched. *)
LEMMA LoadingStep ==
  ASSUME CopyInv, DataOK(data'), temp' = temp, ~halted', pcb' # None, todo'[1][1] \notin {"strlen", "to"},
         Prepared(todo', pdir', ptes', pcb')
  PROVE  CopyInv'
<1>1. Fetching(todo', pdir', ptes', data', pcb', temp', passed')
  BY DEF Fetching
<1>2. StopsOnlyPastTheEnd'
  BY DEF StopsOnlyPastTheEnd
<1>3. TempOK(temp')
  BY DEF CopyInv
<1> QED
  BY <1>1, <1>2, <1>3 DEF CopyInv, DataOK

(* create_stack_page(): the table, and then no page is there yet. *)
LEMMA TableCopies == ASSUME MemoryInv, CopyInv, Table PROVE CopyInv'
<1>1. Doing("table") /\ Done /\ UNCHANGED <<data, temp, halted, pcb>> /\ ~halted
  BY DEF Table, Rest, Doing
<1>2. pcb # None
  BY <1>1, InHand
<1>3. todo'[1] = todo[2] /\ todo[2][1] = "stack" /\ todo[2][2] = PageOf(StackTop)
  BY <1>1, AfterDone DEF MayFollow, Begins
<1>4. DataOK(data')
  BY <1>1 DEF CopyInv, DataOK
<1>5. PagesThere(pdir', ptes', pcb', PageOf(StackTop) + 1, PageOf(StackTop))
  BY StackPages DEF PagesThere
<1>6. Prepared(todo', pdir', ptes', pcb')
  BY <1>3, <1>5 DEF Prepared
<1> QED
  BY <1>1, <1>2, <1>3, <1>4, <1>6, LoadingStep

(* create_stack_page(): one page more of the stack. *)
LEMMA StackCopies == ASSUME MemoryInv, CopyInv, Stack PROVE CopyInv'
<1>1. Doing("stack") /\ GetIdlePage /\ UNCHANGED <<pdir, spaces, pcb, data, temp, halted>> /\ ~halted
  BY DEF Stack, Rest, Doing
<1>2. /\ pcb \in Pcbs /\ pcb # None /\ TodoOK(todo) /\ Ready(todo, pdir, ptes, spaces, pcb)
      /\ todo[1][1] = "stack" /\ Head(todo) = todo[1] /\ StepOK(todo[1]) /\ pcb \in spaces
  BY <1>1, InHand
<1> PICK d : d = KOFFSET - 1
  OBVIOUS
<1> PICK v : v = todo[1][2]
  OBVIOUS
<1> DEFINE e   == EntryOf(v)
           top == PageOf(StackTop)
<1>3. d \in UserDirs /\ NR_STACK \in Nat /\ v \in (top - NR_STACK + 1)..top /\ top \in Nat
  BY <1>2, NumberTypes, ConstantTypes, StackPages DEF StepOK
<1>4. v \in Nat /\ DirOf(v) = d /\ e \in Entries
  BY <1>3, StackPages
<1>5. /\ pdir[pcb][d] # None
      /\ \A i \in Entries : i <= e => ptes[pdir[pcb][d]][i] = None
  BY <1>2 DEF Ready
<1>6. ptes' = WithPage(pdir, ptes, pcb, d, e, NewFrame)
  BY <1>2, <1>4 DEF Stack, SetPte, Arg, WithPage
<1>7. Entries \subseteq Nat
  BY ConstantTypes DEF Entries
<1> HIDE DEF e, top
<1>8. ptes[pdir[pcb][d]][e] = None
  BY <1>4, <1>5, <1>7
<1>9. /\ ptes'[pdir'[pcb][d]][e] # None
      /\ \A i \in Entries : i # e => ptes'[pdir'[pcb][d]][i] = ptes[pdir[pcb][d]][i]
      /\ \A c \in LowDirs : c # d => SameTable(pdir, ptes, pdir', ptes', pcb, c)
  BY <1>1, <1>2, <1>3, <1>4, <1>5, <1>6, <1>8, StepMakesPage
<1>10. PagesThere(pdir, ptes, pcb, v + 1, top)
  BY <1>2 DEF CopyInv, Prepared, top
<1>11. PagesThere(pdir', ptes', pcb', v, top)
  <2> SUFFICES ASSUME NEW w \in v..top
               PROVE  Frame(pdir'[pcb], ptes', w) # None
    BY <1>1 DEF PagesThere
  <2>1. w \in (top - NR_STACK + 1)..top
    BY <1>3
  <2>2. w \in Nat /\ DirOf(w) = d /\ EntryOf(w) \in Entries
    BY <2>1, StackPages DEF top
  <2>3. CASE w = v
    BY <1>1, <1>4, <1>5, <1>9, <2>3 DEF Frame, e
  <2>4. CASE w # v
    <3>1. w \in (v + 1)..top
      BY <1>3, <2>1, <2>4
    <3>2. Frame(pdir[pcb], ptes, w) # None
      BY <1>10, <3>1 DEF PagesThere
    <3>3. d \in LowDirs /\ pdir'[pcb][d] # None
      BY <1>1, <1>3, <1>5, NumberTypes
    <3> PICK pd2 : pd2 = pdir'
      OBVIOUS
    <3> PICK pt2 : pt2 = ptes'
      OBVIOUS
    <3>4. /\ OnePageMore(pdir, ptes, pd2, pt2, pcb, d, e)
          /\ w \in Nat /\ DirOf(w) \in LowDirs /\ Frame(pdir[pcb], ptes, w) # None
      BY <1>9, <2>2, <3>2, <3>3 DEF OnePageMore
    <3>5. Frame(pd2[pcb], pt2, w) # None
      BY ONLY <3>4, PageKept, Zenon
    <3> QED
      BY <3>5
  <2> QED
    BY <2>3, <2>4
<1>12. Loop(v > top - NR_STACK + 1, <<"stack", v - 1>>)
  BY <1>2 DEF Stack, Arg, top
<1>13. DataOK(data')
  BY <1>1 DEF CopyInv, DataOK
<1>14. CASE v > top - NR_STACK + 1
  <2> DEFINE s == <<"stack", v - 1>>
  <2>1. Then(s) /\ s[1] = "stack" /\ s[2] + 1 = v
    BY <1>4, <1>12, <1>14 DEF Loop
  <2> HIDE DEF s
  <2>2. todo'[1] = s
    BY <1>1, <2>1, ThenHead
  <2>3. Prepared(todo', pdir', ptes', pcb')
    BY <1>11, <2>1, <2>2 DEF Prepared, top
  <2> QED
    BY <1>1, <1>2, <1>13, <2>1, <2>2, <2>3, LoadingStep
<1>15. CASE ~(v > top - NR_STACK + 1)
  <2>1. Done
    BY <1>12, <1>15 DEF Loop
  <2>2. todo'[1] = todo[2] /\ todo[2][1] = "load"
    BY <1>1, <2>1, AfterDone DEF MayFollow
  <2>3. v = top - NR_STACK + 1
    BY <1>3, <1>15
  <2>4. Prepared(todo', pdir', ptes', pcb')
    BY <1>11, <2>2, <2>3 DEF Prepared, top
  <2> QED
    BY <1>1, <1>2, <1>13, <2>2, <2>4, LoadingStep
<1> QED
  BY <1>14, <1>15

(* load_program(): the bytes of a segment have their place in its pages. *)
LEMMA SegmentCovered ==
  ASSUME NEW i \in DOMAIN Programs, NEW k \in 1..Len(Programs[i]), Programs[i][k].memsz > 0
  PROVE  Covers(ReadElf(i, Programs[i][k]), Start(i, k), Start(i, k) + RestPages(Programs[i][k]))
<1> DEFINE ph == Programs[i][k]
           src == [n \in 1..ph.filesz |-> i]
           c == ReadElf(i, ph)
<1>1. ph \in Segment
  BY ProgramAssumption
<1>2. ph.vaddr \in Nat /\ ph.memsz \in Nat /\ ph.filesz \in Nat /\ ph.memsz > 0
  BY <1>1, SegmentTypes
<1>3. /\ ph.filesz <= ph.memsz /\ ph.vaddr >= KERNEL_MEM * PAGE_SIZE
      /\ ph.vaddr + ph.memsz <= (KOFFSET - 1) * NR_PTE * PAGE_SIZE
  BY ProgramAssumption
<1>4. c[2] = ph.vaddr /\ c[3] = src
  BY DEF ReadElf
<1>5. src \in Seq(ToSet(src)) /\ Len(src) = ph.filesz
  <2>1. src \in Seq({i}) /\ Len(src) = ph.filesz
    <3>1. src \in [1..ph.filesz -> {i}] /\ DOMAIN src = 1..ph.filesz
      BY <1>2
    <3> QED
      BY <1>2, <3>1, SeqDef
  <2> QED
    BY ONLY <2>1, ElementsOf
<1> HIDE DEF src
<1>6. (KOFFSET - 1) * NR_PTE * PAGE_SIZE <= High
  <2>1. KOFFSET \in Nat /\ NR_PTE \in Nat /\ PAGE_SIZE \in Nat /\ KOFFSET >= 2
    BY ConstantTypes
  <2>2. (KOFFSET - 1) * NR_PTE = KOFFSET * NR_PTE - NR_PTE /\ KOFFSET * NR_PTE \in Nat
    BY <2>1
  <2> PICK T \in Nat : T = KOFFSET * NR_PTE
    BY <2>2
  <2>3. (T - NR_PTE) * PAGE_SIZE = T * PAGE_SIZE - NR_PTE * PAGE_SIZE /\ NR_PTE * PAGE_SIZE \in Nat
    BY <2>1
  <2> QED
    BY <2>1, <2>2, <2>3 DEF High
<1>7. High \in Nat /\ (KOFFSET - 1) * NR_PTE * PAGE_SIZE \in Int /\ KERNEL_MEM * PAGE_SIZE \in Nat
  BY HighType, ConstantTypes
<1>8. c[2] + Len(c[3]) <= High + 3
  BY <1>2, <1>3, <1>4, <1>5, <1>6, <1>7, SMTT(30)
<1> DEFINE b == ph.vaddr + ph.memsz - 1
<1>9. PageOf(ph.vaddr) + RestPages(ph) = PageOf(b) /\ b \in Nat
  BY <1>1, <1>2, RestPagesProperties, SMTT(60)
<1> HIDE DEF c, ph
<1>10. ASSUME NEW x \in c[2]..(c[2] + Len(c[3]) - 1)
       PROVE  PageOf(x) <= PageOf(b)
  <2>1. x \in ph.vaddr..(ph.vaddr + ph.filesz - 1)
    BY <1>4, <1>5, <1>10
  <2>2. x \in Nat /\ x <= b /\ b \in Nat
    BY <1>2, <1>3, <2>1, SMTT(90)
  <2>3. PAGE_SIZE \in Nat \ {0}
    BY ConstantTypes
  <2> HIDE DEF b
  <2> QED
    BY <2>2, <2>3, DivisionMonotone DEF PageOf
<1> HIDE DEF b
<1>11. Covers(c, PageOf(ph.vaddr), PageOf(b))
  BY <1>2, <1>3, <1>4, <1>5, <1>8, <1>10 DEF Covers
<1> QED
  BY <1>9, <1>11 DEF Start, c, ph

(* load_program(): the steps of the next segment, or the end. *)
LEMMA LoadSegmentCopies == ASSUME MemoryInv, CopyInv, LoadSegment PROVE CopyInv'
<1> DEFINE i == todo[1][2]
           k == todo[1][3]
           l == <<"load", i, k + 1>>
<1>1. Doing("load") /\ UNCHANGED <<pdir, ptes, data, temp, halted, pcb>> /\ ~halted
  BY DEF LoadSegment, Rest, Doing
<1>2. /\ pcb \in Pcbs /\ pcb # None /\ TodoOK(todo)
      /\ todo[1][1] = "load" /\ Head(todo) = todo[1] /\ StepOK(todo[1])
  BY <1>1, InHand
<1>3. i \in DOMAIN Programs /\ k \in Nat \ {0} /\ Len(Programs[i]) \in Nat
  BY <1>2, ProgramAssumption DEF StepOK
<1>4. DataOK(data')
  BY <1>1 DEF CopyInv, DataOK
<1>5. StackThere(pdir', ptes', pcb')
  BY <1>1, <1>2 DEF CopyInv, Prepared, StackThere
<1>6. \/ Done
      \/ Then(l)
      \/ /\ k <= Len(Programs[i]) /\ Programs[i][k].memsz > 0
         /\ todo' = SegmentSteps(i, Programs[i][k]) \o <<l>> \o Tail(todo)
  BY <1>2 DEF LoadSegment, Arg
<1>7. l[1] = "load"
  OBVIOUS
<1> HIDE DEF l, i, k
<1>8. CASE Done
  <2>1. todo'[1] = todo[2] /\ todo[2][1] \in {"args", "answer"}
    BY <1>1, <1>8, AfterDone DEF MayFollow
  <2>2. Prepared(todo', pdir', ptes', pcb')
    BY <1>5, <2>1 DEF Prepared, StackThere
  <2> QED
    BY <1>1, <1>2, <1>4, <2>1, <2>2, LoadingStep
<1>9. CASE Then(l)
  <2>1. todo'[1] = l
    BY <1>1, <1>9, ThenHead
  <2>2. Prepared(todo', pdir', ptes', pcb')
    BY <1>5, <1>7, <2>1 DEF Prepared, StackThere
  <2> QED
    BY <1>1, <1>2, <1>4, <1>7, <2>1, <2>2, LoadingStep
<1>10. CASE /\ k <= Len(Programs[i]) /\ Programs[i][k].memsz > 0
            /\ todo' = SegmentSteps(i, Programs[i][k]) \o <<l>> \o Tail(todo)
  <2> DEFINE ph == Programs[i][k]
             v == Start(i, k)
             n == RestPages(ph)
             a == <<"first", v>>
             b == <<"next", v + 1, n>>
             c == ReadElf(i, ph)
  <2>1. k \in 1..Len(Programs[i])
    BY <1>3, <1>10
  <2>2. Covers(c, v, v + n)
    BY <1>3, <1>10, <2>1, SegmentCovered
  <2>3. /\ a[1] = "first" /\ a[2] = v /\ b[3] = n
        /\ SegmentSteps(i, ph) = <<a, b, c>>
    BY DEF SegmentSteps, Start
  <2> HIDE DEF a, b, c, n, v
  <2> PICK r : r = Tail(todo)
    OBVIOUS
  <2> PICK R : r \in Seq(R)
    <3>1. todo \in Seq(ToSet(todo)) /\ Len(todo) > 0
      BY <1>2 DEF TodoOK, Fits
    <3>2. r \in Seq(ToSet(todo))
      BY <3>1
    <3> QED
      BY <3>2
  <2>4. todo' = <<a, b, c>> \o <<l>> \o r
    BY <1>10, <2>3
  <2>5. todo'[1] = a /\ todo'[2] = b /\ todo'[3] = c
    <3> PICK u : u = todo'
      OBVIOUS
    <3>1. u = <<a, b, c>> \o <<l>> \o r
      BY <2>4
    <3>2. u[1] = a /\ u[2] = b /\ u[3] = c
      BY ONLY <3>1, r \in Seq(R)
    <3> QED
      BY <3>2
  <2>6. Prepared(todo', pdir', ptes', pcb')
    BY <1>5, <2>2, <2>3, <2>5 DEF Prepared, StackThere
  <2> QED
    BY <1>1, <1>2, <1>4, <2>3, <2>5, <2>6, LoadingStep
<1> QED
  BY <1>6, <1>8, <1>9, <1>10

(* The stack, and the pages up to one of a program, stay. *)
LEMMA PagesStay ==
  ASSUME NEW pd, NEW pt, NEW pd2, NEW pt2, NEW p, NEW d, NEW e, OnePageMore(pd, pt, pd2, pt2, p, d, e)
  PROVE  /\ StackThere(pd, pt, p) => StackThere(pd2, pt2, p)
         /\ \A lo \in Nat, hi \in Nat : ProgramPage(hi) /\ PagesThere(pd, pt, p, lo, hi) => PagesThere(pd2, pt2, p, lo, hi)
<1>1. ASSUME StackThere(pd, pt, p), NEW v \in (PageOf(StackTop) - NR_STACK + 1)..PageOf(StackTop)
      PROVE  Frame(pd2[p], pt2, v) # None
  <2>1. v \in Nat /\ DirOf(v) \in LowDirs
    BY StackPages, NumberTypes
  <2>2. Frame(pd[p], pt, v) # None
    BY <1>1 DEF StackThere, PagesThere
  <2> QED
    BY <2>1, <2>2, PageKept
<1>2. ASSUME NEW lo \in Nat, NEW hi \in Nat, ProgramPage(hi), PagesThere(pd, pt, p, lo, hi), NEW v \in lo..hi
      PROVE  Frame(pd2[p], pt2, v) # None
  <2>1. v \in Nat /\ v <= hi
    OBVIOUS
  <2>2. DirOf(v) <= DirOf(hi) /\ DirOf(v) \in Nat /\ DirOf(hi) \in KERNEL_DIRS..(KOFFSET - 2)
    BY <1>2, <2>1, OrderOfPages, PlaceOfPage DEF ProgramPage
  <2>3. DirOf(v) \in LowDirs
    BY <2>2, ConstantTypes DEF LowDirs
  <2>4. Frame(pd[p], pt, v) # None
    BY <1>2 DEF PagesThere
  <2> QED
    BY <2>1, <2>3, <2>4, PageKept
<1> QED
  BY <1>1, <1>2 DEF StackThere, PagesThere

(* load_segment(): the first page is there afterwards. *)
LEMMA FirstPageMakes ==
  ASSUME MemoryInv, CopyInv, FirstPage, NEW v, v = todo[1][2]
  PROVE  /\ DataOK(data') /\ Frame(pdir'[pcb], ptes', v) # None
         /\ \/ OnePageMore(pdir, ptes, pdir', ptes', pcb, DirOf(v), EntryOf(v))
            \/ UNCHANGED <<pdir, ptes>>
<1>1. Doing("first") /\ UNCHANGED <<spaces, pcb>>
  BY DEF FirstPage, Rest
<1>2. /\ pcb \in Pcbs /\ pcb # None /\ Ready(todo, pdir, ptes, spaces, pcb)
      /\ todo[1][1] = "first" /\ Head(todo) = todo[1] /\ pcb \in spaces
  BY <1>1, InHand
<1>3. ProgramPage(v) /\ DataOK(data)
  BY <1>2 DEF Ready, CopyInv, DataOK
<1> DEFINE d == DirOf(v)
           e == EntryOf(v)
<1>5. v \in Nat /\ d \in UserDirs /\ e \in Entries
  BY <1>3, PlaceOfPage, ConstantTypes DEF ProgramPage, UserDirs
<1> HIDE DEF d, e
<1>6. CASE pdir[pcb][d] = None
  <2>1. /\ GetTwoIdlePages /\ pdir' = WithTable(pdir, pcb, d, NewFrame)
        /\ ptes' = [ptes EXCEPT ![NewFrame] = [ZeroTable EXCEPT ![e] = SecondFrame]]
        /\ data' = [data EXCEPT ![SecondFrame] = ZeroPage]
    BY <1>2, <1>6 DEF FirstPage, Arg, WithTable, Cleared, d, e
  <2>2. /\ pdir'[pcb][d] # None /\ ptes'[pdir'[pcb][d]][e] # None
        /\ \A c \in LowDirs : c # d => SameTable(pdir, ptes, pdir', ptes', pcb, c)
    BY <1>1, <1>2, <1>5, <1>6, <2>1, StepMakesBoth
  <2>3. DataOK(data')
    BY <1>3, <2>1, NewFrameInPool, PoolFilled
  <2>4. OnePageMore(pdir, ptes, pdir', ptes', pcb, d, e)
    BY <1>6, <2>2, SMTT(60) DEF OnePageMore
  <2> QED
    BY <2>2, <2>3, <2>4 DEF Frame, d, e
<1>7. CASE pdir[pcb][d] # None /\ Frame(pdir[pcb], ptes, v) = None
  <2>1. GetIdlePage /\ ptes' = WithPage(pdir, ptes, pcb, d, e, NewFrame) /\ pdir' = pdir
        /\ data' = [data EXCEPT ![NewFrame] = ZeroPage]
    BY <1>2, <1>7 DEF FirstPage, Arg, SetPte, WithPage, Cleared, d, e
  <2>2. ptes[pdir[pcb][d]][e] = None
    BY <1>7 DEF Frame, d, e
  <2>3. /\ ptes'[pdir'[pcb][d]][e] # None
        /\ \A i \in Entries : i # e => ptes'[pdir'[pcb][d]][i] = ptes[pdir[pcb][d]][i]
        /\ \A c \in LowDirs : c # d => SameTable(pdir, ptes, pdir', ptes', pcb, c)
    BY <1>1, <1>2, <1>5, <1>7, <2>1, <2>2, StepMakesPage
  <2>4. DataOK(data')
    BY <1>3, <2>1, NewFrameInPool, PoolFilled
  <2>5. OnePageMore(pdir, ptes, pdir', ptes', pcb, d, e)
    BY <1>7, <2>1, <2>3 DEF OnePageMore
  <2> QED
    BY <1>7, <2>1, <2>3, <2>4, <2>5 DEF Frame, d, e
<1>8. CASE pdir[pcb][d] # None /\ Frame(pdir[pcb], ptes, v) # None
  <2>1. UNCHANGED <<pdir, ptes, data>>
    BY <1>2, <1>8 DEF FirstPage, Arg, d
  <2> QED
    BY <1>3, <1>8, <2>1
<1> QED
  BY <1>6, <1>7, <1>8

(* load_segment(): the first page. *)
LEMMA FirstPageCopies == ASSUME MemoryInv, CopyInv, FirstPage PROVE CopyInv'
<1>1. Doing("first") /\ Done /\ UNCHANGED <<pcb, temp, halted>> /\ ~halted
  BY DEF FirstPage, Rest, Doing
<1>2. /\ pcb # None /\ Ready(todo, pdir, ptes, spaces, pcb) /\ todo[1][1] = "first"
  BY <1>1, InHand
<1> PICK v : v = todo[1][2]
  OBVIOUS
<1>3. v \in Nat /\ todo[2][2] = v + 1 /\ ProgramPage(v)
  BY <1>2 DEF Ready, ProgramPage
<1>4. Covers(todo[3], v, v + todo[2][3]) /\ StackThere(pdir, ptes, pcb)
  BY <1>2 DEF CopyInv, Prepared, StackThere
<1>5. /\ DataOK(data') /\ Frame(pdir'[pcb], ptes', v) # None
      /\ \/ OnePageMore(pdir, ptes, pdir', ptes', pcb, DirOf(v), EntryOf(v))
         \/ UNCHANGED <<pdir, ptes>>
  BY FirstPageMakes
<1>6. StackThere(pdir', ptes', pcb)
  <2>1. ASSUME OnePageMore(pdir, ptes, pdir', ptes', pcb, DirOf(v), EntryOf(v))
        PROVE  StackThere(pdir', ptes', pcb)
    BY <1>4, <2>1, PagesStay
  <2> QED
    BY <1>4, <1>5, <2>1
<1>7. todo'[1] = todo[2] /\ todo'[2] = todo[3] /\ todo[2][1] = "next"
  <2>1. /\ Len(todo) \in Nat /\ MayFollow("first", todo[2][1])
        /\ todo[2][1] # "answer" => Len(todo) > 2
    BY <1>1, NextStep
  <2>2. todo[2][1] = "next" /\ Len(todo) > 2
    BY <2>1 DEF MayFollow
  <2>3. todo'[1] = todo[2] /\ \A k \in 1..(Len(todo) - 1) : todo'[k] = todo[k + 1]
    BY <1>1, AfterDone
  <2>4. 2 \in 1..(Len(todo) - 1) /\ 2 + 1 = 3
    BY <2>1, <2>2
  <2> QED
    BY <2>2, <2>3, <2>4
<1> PICK s : s = todo'[1]
  OBVIOUS
<1> PICK t : t = todo'[2]
  OBVIOUS
<1>8. /\ s[1] = "next" /\ s[2] - 1 = v /\ PageOf(t[2]) = v /\ Covers(t, v, v + s[3])
  BY <1>3, <1>4, <1>7 DEF Covers
<1>9. PagesThere(pdir', ptes', pcb', v, v)
  BY <1>1, <1>3, <1>5 DEF PagesThere
<1>10. Prepared(todo', pdir', ptes', pcb')
  BY <1>1, <1>3, <1>6, <1>8, <1>9 DEF Prepared, StackThere
<1> QED
  BY <1>1, <1>2, <1>5, <1>8, <1>10, LoadingStep

(* load_segment(): and so is the next one. *)
LEMMA NextPageMakes ==
  ASSUME MemoryInv, CopyInv, NextPage, NEW w, w = todo[1][2]
  PROVE  /\ DataOK(data') /\ Frame(pdir'[pcb], ptes', w) # None
         /\ OnePageMore(pdir, ptes, pdir', ptes', pcb, DirOf(w), EntryOf(w))
<1>1. Doing("next") /\ Arg(3) > 0 /\ UNCHANGED <<spaces, pcb>>
  BY DEF NextPage, Rest
<1>2. /\ pcb \in Pcbs /\ pcb # None /\ Ready(todo, pdir, ptes, spaces, pcb)
      /\ todo[1][1] = "next" /\ Head(todo) = todo[1] /\ StepOK(todo[1]) /\ pcb \in spaces
  BY <1>1, InHand
<1> PICK n : n = todo[1][3]
  OBVIOUS
<1>3. PICK v : /\ w = v + 1 /\ ProgramPage(v) /\ Above(pdir, ptes, pcb, v) /\ pdir[pcb][DirOf(v)] # None
               /\ ProgramPage(v + n)
  BY <1>2 DEF Ready
<1>4. v \in Nat /\ w \in Nat /\ n \in Nat /\ n > 0 /\ v + n \in Nat /\ v <= w /\ w <= v + n
  BY <1>1, <1>2, <1>3 DEF ProgramPage, StepOK, Arg
<1>5. /\ DirOf(v) \in KERNEL_DIRS..(KOFFSET - 2) /\ DirOf(v + n) \in KERNEL_DIRS..(KOFFSET - 2)
      /\ DirOf(w) \in Nat /\ EntryOf(w) \in Entries /\ EntryOf(v) \in Nat /\ KERNEL_DIRS \in Nat /\ KOFFSET \in Nat
      /\ DirOf(v) <= DirOf(w) /\ DirOf(w) <= DirOf(v + n)
  BY <1>3, <1>4, PlaceOfPage, OrderOfPages, ConstantTypes DEF ProgramPage
<1> DEFINE d == DirOf(w)
           e == EntryOf(w)
<1>6. d \in UserDirs /\ e \in Entries
  BY <1>5 DEF UserDirs
<1> HIDE DEF d, e
<1>7. DataOK(data)
  BY DEF CopyInv, DataOK
<1>8. data' = [data EXCEPT ![NewFrame] = ZeroPage]
  BY DEF NextPage, Cleared
<1>9. CASE e = 0
  <2>1. d = DirOf(v) + 1
    BY <1>3, <1>4, <1>9, PlaceOfPage DEF d, e
  <2>2. pdir[pcb][d] = None
    BY <1>3, <1>5, <2>1 DEF Above, d
  <2>3. /\ GetTwoIdlePages /\ pdir' = WithTable(pdir, pcb, d, SecondFrame)
        /\ ptes' = [ptes EXCEPT ![SecondFrame] = [ZeroTable EXCEPT ![e] = NewFrame]]
    BY <1>2, <1>9 DEF NextPage, Arg, WithTable, d, e
  <2>4. /\ pdir'[pcb][d] # None /\ ptes'[pdir'[pcb][d]][e] # None
        /\ \A c \in LowDirs : c # d => SameTable(pdir, ptes, pdir', ptes', pcb, c)
    BY <1>1, <1>2, <1>6, <2>2, <2>3, StepMakesBoth
  <2>5. DataOK(data')
    BY <1>7, <1>8, <2>3, NewFrameInPool, PoolFilled
  <2>6. OnePageMore(pdir, ptes, pdir', ptes', pcb, d, e)
    BY <2>2, <2>4 DEF OnePageMore
  <2> QED
    BY <2>4, <2>5, <2>6 DEF Frame, d, e
<1>10. CASE e # 0
  <2>1. d = DirOf(v) /\ e = EntryOf(v) + 1
    BY <1>3, <1>4, <1>10, PlaceOfPage DEF d, e
  <2>2. pdir[pcb][d] # None /\ ptes[pdir[pcb][d]][e] = None
    BY <1>3, <1>5, <1>6, <2>1 DEF Above
  <2>3. GetIdlePage /\ ptes' = WithPage(pdir, ptes, pcb, d, e, NewFrame) /\ pdir' = pdir
    BY <1>2, <1>10 DEF NextPage, Arg, SetPte, WithPage, d, e
  <2>4. /\ ptes'[pdir'[pcb][d]][e] # None
        /\ \A i \in Entries : i # e => ptes'[pdir'[pcb][d]][i] = ptes[pdir[pcb][d]][i]
        /\ \A c \in LowDirs : c # d => SameTable(pdir, ptes, pdir', ptes', pcb, c)
    BY <1>1, <1>2, <1>6, <2>2, <2>3, StepMakesPage
  <2>5. DataOK(data')
    BY <1>7, <1>8, <2>3, NewFrameInPool, PoolFilled
  <2>6. OnePageMore(pdir, ptes, pdir', ptes', pcb, d, e)
    BY <2>2, <2>3, <2>4 DEF OnePageMore
  <2> QED
    BY <2>2, <2>3, <2>4, <2>5, <2>6 DEF Frame, d, e
<1> QED
  BY <1>9, <1>10

(* load_segment(): the pages behind it. *)
LEMMA NextPageCopies == ASSUME MemoryInv, CopyInv, NextPage PROVE CopyInv'
<1>1. Doing("next") /\ Arg(3) > 0 /\ Then(<<"next", Arg(2) + 1, Arg(3) - 1>>) /\ UNCHANGED <<pcb, temp, halted>> /\ ~halted
  BY DEF NextPage, Rest, Doing
<1>2. /\ pcb # None /\ Ready(todo, pdir, ptes, spaces, pcb) /\ todo[1][1] = "next"
      /\ StepOK(todo[1]) /\ Head(todo) = todo[1]
  BY <1>1, InHand
<1> PICK w : w = todo[1][2]
  OBVIOUS
<1> PICK n : n = todo[1][3]
  OBVIOUS
<1> PICK t : t = todo[2]
  OBVIOUS
<1>3. PICK v : w = v + 1 /\ ProgramPage(v)
  BY <1>2 DEF Ready
<1>4. v \in Nat /\ w \in Nat /\ n \in Nat /\ n > 0 /\ w - 1 = v /\ (w + 1) - 1 = w /\ v + n = w + (n - 1)
  BY <1>1, <1>2, <1>3 DEF ProgramPage, StepOK, Arg
<1> PICK lo : lo = PageOf(t[2])
  OBVIOUS
<1>5. /\ lo <= v /\ PagesThere(pdir, ptes, pcb, lo, v) /\ Covers(t, lo, v + n)
      /\ StackThere(pdir, ptes, pcb)
  BY <1>2, <1>4 DEF CopyInv, Prepared, StackThere
<1>6. lo \in Nat
  BY <1>5, SamePage DEF Covers
<1>7. /\ DataOK(data') /\ Frame(pdir'[pcb], ptes', w) # None
      /\ OnePageMore(pdir, ptes, pdir', ptes', pcb, DirOf(w), EntryOf(w))
  BY NextPageMakes
<1>8. StackThere(pdir', ptes', pcb) /\ PagesThere(pdir', ptes', pcb, lo, v)
  BY <1>3, <1>4, <1>5, <1>6, <1>7, PagesStay
<1>9. PagesThere(pdir', ptes', pcb, lo, w)
  <2>1. \A x \in lo..w : x \in lo..v \/ x = w
    BY <1>3, <1>4, <1>6
  <2> QED
    BY <1>7, <1>8, <2>1 DEF PagesThere
<1> DEFINE s == <<"next", w + 1, n - 1>>
<1>10. Then(s) /\ s[1] = "next" /\ s[2] = w + 1 /\ s[3] = n - 1
  BY <1>1, <1>2 DEF Arg
<1> HIDE DEF s
<1>11. todo'[1] = s /\ todo'[2] = t
  <2>1. Len(todo) \in Nat /\ Len(todo) > 1
    BY <1>1, NextStep
  <2>2. 2 \in 2..Len(todo)
    BY <2>1
  <2> QED
    BY <1>1, <1>10, <2>2, ThenHead
<1>12. s[2] - 1 = w /\ w + s[3] = v + n /\ lo <= w
  BY <1>3, <1>4, <1>5, <1>6, <1>10
<1>13. Prepared(todo', pdir', ptes', pcb')
  BY <1>1, <1>4, <1>5, <1>8, <1>9, <1>10, <1>11, <1>12 DEF Prepared, StackThere
<1> QED
  BY <1>1, <1>2, <1>7, <1>10, <1>11, <1>13, LoadingStep

(* load_segment(): every byte of the file has its place then. *)
LEMMA LastPageCopies == ASSUME MemoryInv, CopyInv, LastPage PROVE CopyInv'
<1>1. Doing("next") /\ Arg(3) = 0 /\ Done /\ UNCHANGED <<pdir, ptes, data, pcb, temp, halted>> /\ ~halted
  BY DEF LastPage, Rest, Doing
<1>2. /\ pcb # None /\ Ready(todo, pdir, ptes, spaces, pcb) /\ todo[1][1] = "next"
      /\ StepOK(todo[1]) /\ Head(todo) = todo[1]
  BY <1>1, InHand
<1> PICK v : v = todo[1][2] - 1
  OBVIOUS
<1> PICK t : t = todo[2]
  OBVIOUS
<1>3. todo[1][3] = 0
  BY <1>1, <1>2 DEF Arg
<1> PICK lo : lo = PageOf(t[2])
  OBVIOUS
<1>4. /\ v \in Nat /\ lo <= v /\ PagesThere(pdir, ptes, pcb, lo, v) /\ Covers(t, lo, v + todo[1][3])
      /\ StackThere(pdir, ptes, pcb)
  BY <1>2 DEF CopyInv, Prepared, StackThere
<1>5. Covers(t, lo, v)
  BY <1>3, <1>4
<1>6. /\ t[2] \in Nat /\ t[3] \in Seq(ToSet(t[3])) /\ Len(t[3]) \in Nat
      /\ t[2] >= KERNEL_MEM * PAGE_SIZE /\ t[2] + Len(t[3]) <= High + 3
      /\ \A x \in t[2]..(t[2] + Len(t[3]) - 1) : PageOf(x) <= v
  BY <1>5 DEF Covers
<1>7. lo \in Nat /\ PAGE_SIZE \in Nat \ {0}
  BY <1>6, SamePage, ConstantTypes
<1>8. ASSUME NEW x \in t[2]..(t[2] + Len(t[3]) - 1)
      PROVE  IsMapped(pdir, ptes, pcb, x)
  <2>1. x \in Nat /\ t[2] <= x
    BY <1>6
  <2>2. lo <= PageOf(x) /\ PageOf(x) <= v
    BY <1>6, <1>7, <1>8, <2>1, DivisionMonotone DEF PageOf
  <2>3. PageOf(x) \in Nat
    BY <2>1, SamePage
  <2>4. PageOf(x) \in lo..v
    BY <1>4, <1>7, <2>2, <2>3
  <2> QED
    BY <1>4, <2>4 DEF PagesThere, IsMapped
<1>9. IsMapped(pdir, ptes, pcb, t[2])
  <2>1. lo \in lo..v
    BY <1>4, <1>7
  <2> QED
    BY <1>4, <2>1 DEF PagesThere, IsMapped
<1>10. Copies(t, pdir', ptes', pcb')
  BY <1>1, <1>6, <1>8, <1>9 DEF Copies
<1>11. todo'[1] = t /\ t[1] = "from"
  BY <1>1, AfterDone DEF MayFollow
<1>12. Prepared(todo', pdir', ptes', pcb')
  BY <1>1, <1>4, <1>10, <1>11 DEF Prepared, StackThere
<1>13. DataOK(data')
  BY <1>1 DEF CopyInv, DataOK
<1> QED
  BY <1>1, <1>2, <1>11, <1>12, <1>13, LoadingStep

-----------------------------------------------------------------------------
(* Copies to a process. *)

(* Where a byte above the kernel's low memory goes. *)
LEMMA CopyTarget ==
  ASSUME MemoryInv, pcb \in spaces, KernelUpTo(pdir, ptes, pcb, KERNEL_DIRS),
         NEW x \in Nat, x >= KERNEL_MEM * PAGE_SIZE, x <= High + 2
  PROVE  /\ x < High /\ Frame(pdir[pcb], ptes, PageOf(x)) # None => Frame(pdir[pcb], ptes, PageOf(x)) \in PoolFrames
         /\ x >= High => Frame(pdir[pcb], ptes, PageOf(x)) = 0 /\ OffsetOf(x) = x - High
<1>1. High \in Nat /\ KERNEL_MEM * PAGE_SIZE \in Nat /\ pdir \in Pdirs /\ pcb \in Pcbs
  BY HighType DEF MemoryInv, MapType
<1>2. ASSUME x < High, Frame(pdir[pcb], ptes, PageOf(x)) # None
      PROVE  Frame(pdir[pcb], ptes, PageOf(x)) \in PoolFrames
  <2>1. PageOf(x) \in Nat /\ DirOf(PageOf(x)) \in UserDirs
    BY <1>2, UserAddress
  <2> QED
    BY <1>2, <2>1, UserPage
<1>3. ASSUME x >= High
      PROVE  Frame(pdir[pcb], ptes, PageOf(x)) = 0 /\ OffsetOf(x) = x - High
  <2>1. x \in High..(High + 2)
    BY <1>1, <1>3
  <2>2. PageOf(x) \in Nat /\ DirOf(PageOf(x)) = KOFFSET /\ EntryOf(PageOf(x)) = 0 /\ OffsetOf(x) = x - High
    BY <2>1, HighAddress
  <2>3. 0 \in KernelDirs /\ KOFFSET = 0 + KOFFSET /\ NR_PTE \in Nat
    BY ConstantTypes DEF KernelDirs
  <2>4. Frame(pdir[pcb], ptes, PageOf(x)) = 0 * NR_PTE + EntryOf(PageOf(x))
    BY <1>1, <2>2, <2>3, KernelPage
  <2> QED
    BY <2>2, <2>3, <2>4
<1> QED
  BY <1>2, <1>3

(* A turn of copy_from_kernel() goes on at most to the end of the page. *)
LEMMA ChunkProperties ==
  ASSUME NEW a \in Nat, NEW len \in Nat, len > 0
  PROVE  /\ Chunk(a, len) \in 1..len /\ OffsetOf(a) + Chunk(a, len) <= PAGE_SIZE
         /\ Chunk(a, len) < len => OffsetOf(a) + Chunk(a, len) = PAGE_SIZE
<1>1. OffsetOf(a) \in Nat /\ OffsetOf(a) < PAGE_SIZE /\ PAGE_SIZE \in Nat
  <2>1. 0 \in Nat
    OBVIOUS
  <2> QED
    BY <2>1, SamePage, ConstantTypes
<1> QED
  BY <1>1 DEF Chunk

\* The bytes src from offset o on in a page.
WithBytes(pg, o, n, src) ==
  [x \in Offsets |-> IF x \in o..(o + n - 1) THEN src[x - o + 1] ELSE pg[x]]

(* A copy keeps the memory of the kernel but for the first bytes. *)
LEMMA CopiedData ==
  ASSUME MemoryInv, DataOK(data), pcb \in spaces, KernelUpTo(pdir, ptes, pcb, KERNEL_DIRS),
         NEW a \in Nat, NEW len \in Nat, len > 0, a >= KERNEL_MEM * PAGE_SIZE, a + len <= High + 3,
         Frame(pdir[pcb], ptes, PageOf(a)) # None, NEW src
  PROVE  DataOK([data EXCEPT ![Frame(pdir[pcb], ptes, PageOf(a))] =
                   WithBytes(data[Frame(pdir[pcb], ptes, PageOf(a))], OffsetOf(a), Chunk(a, len), src)])
<1> PICK f : f = Frame(pdir[pcb], ptes, PageOf(a))
  OBVIOUS
<1> DEFINE n == Chunk(a, len)
           o == OffsetOf(a)
           new == WithBytes(data[f], o, n, src)
           dt == [data EXCEPT ![f] = new]
<1>1. High \in Nat /\ n \in 1..len
  BY HighType, ChunkProperties
<1>2. /\ a < High => f \in PoolFrames
      /\ a >= High => f = 0 /\ o = a - High
  <2>1. a <= High + 2
    BY <1>1
  <2> QED
    BY <2>1, CopyTarget
<1> SUFFICES DataOK(dt)
  BY DEF dt
<1>3. CASE a < High
  BY <1>2, <1>3, PoolFilled
<1>4. CASE a >= High
  <2>1. f = 0 /\ o = a - High
    BY <1>2, <1>4
  <2> HIDE DEF n, o
  <2>2. o \in Nat /\ o + n - 1 <= 2
    BY <1>1, <1>4, <2>1
  <2>3. \A x \in Offsets : x >= 3 => new[x] = data[f][x]
    <3>1. Offsets \subseteq Nat
      BY ConstantTypes DEF Offsets
    <3>2. \A x \in Offsets : x >= 3 => x \notin o..(o + n - 1)
      BY <1>1, <2>2, <3>1
    <3> QED
      BY <3>2 DEF WithBytes
  <2> HIDE DEF new
  <2>4. /\ dt = [x \in AllFrames |-> dt[x]] /\ \A x \in AllFrames : x # f => dt[x] = data[x]
        /\ f \in AllFrames => dt[f] = new
    BY DEF DataOK
  <2> HIDE DEF dt
  <2>5. KernelBoot(dt)
    <3> SUFFICES ASSUME NEW x \in KernelFrames, NEW y \in Offsets, dt[x][y] # Boot[x][y]
                 PROVE  x = 0 /\ y < 3
      BY DEF KernelBoot
    <3>1. x \in AllFrames /\ y \in Nat
      BY ConstantTypes DEF AllFrames, Offsets
    <3>2. CASE x # f
      <4>1. data[x][y] # Boot[x][y]
        BY <2>4, <3>1, <3>2
      <4> QED
        BY <4>1 DEF DataOK, KernelBoot
    <3>3. CASE x = f
      <4>1. dt[x] = new
        BY <2>4, <3>1, <3>3
      <4>2. CASE y >= 3
        <5>1. data[x][y] # Boot[x][y]
          BY <2>3, <3>3, <4>1, <4>2
        <5> QED
          BY <5>1 DEF DataOK, KernelBoot
      <4>3. CASE ~(y >= 3)
        BY <2>1, <3>1, <3>3, <4>3
      <4> QED
        BY <4>2, <4>3
    <3> QED
      BY <3>2, <3>3
  <2> QED
    BY <2>4, <2>5 DEF DataOK
<1> QED
  BY <1>1, <1>3, <1>4

(* A lookup past the end fails only where a page begins. *)
LEMMA BehindTheEnd ==
  ASSUME NEW pd, NEW pt, NEW p, NEW x \in Nat, IsMapped(pd, pt, p, x) \/ (x - 1 \in Nat /\ IsMapped(pd, pt, p, x - 1)),
         Frame(pd[p], pt, PageOf(x)) = None
  PROVE  OffsetOf(x) = 0
<1>1. x - 1 \in Nat /\ IsMapped(pd, pt, p, x - 1)
  BY DEF IsMapped
<1>2. PageOf(x - 1) # PageOf(x)
  BY <1>1 DEF IsMapped
<1>3. PAGE_SIZE \in Nat \ {0}
  BY ConstantTypes
<1> PICK y \in Nat : y = x - 1
  BY <1>1
<1>4. x = y + 1
  OBVIOUS
<1>5. (y + 1) % PAGE_SIZE # 0 => (y + 1) \div PAGE_SIZE = y \div PAGE_SIZE
  BY <1>3, DivisionNext
<1> QED
  BY <1>2, <1>4, <1>5 DEF PageOf, OffsetOf

(* A turn of copy_from_kernel(): what is left still has its place. *)
LEMMA CopyFromKernelCopies == ASSUME MemoryInv, CopyInv, CopyFromKernel PROVE CopyInv'
<1>1. Doing("from") /\ ~halted /\ UNCHANGED <<pdir, ptes, spaces, pcb, passed>>
  BY DEF CopyFromKernel, Maps, Doing
<1>2. /\ pcb \in Pcbs /\ pcb # None /\ todo[1][1] = "from" /\ Head(todo) = todo[1] /\ pcb \in spaces
  BY <1>1, InHand
<1>3. KernelUpTo(pdir, ptes, pcb, KERNEL_DIRS)
  BY <1>2, AllWhole
<1> PICK dest : dest = todo[1][2]
  OBVIOUS
<1> PICK src : src = todo[1][3]
  OBVIOUS
<1> PICK f : f = Frame(pdir[pcb], ptes, PageOf(dest))
  OBVIOUS
<1> DEFINE n == Chunk(dest, Len(src))
           rest == SubSeq(src, n + 1, Len(src))
           s == <<"from", dest + n, rest>>
<1>4. /\ dest \in Nat /\ src \in Seq(ToSet(src)) /\ Len(src) \in Nat
      /\ dest >= KERNEL_MEM * PAGE_SIZE /\ dest + Len(src) <= High + 3
      /\ \A x \in dest..(dest + Len(src) - 1) : IsMapped(pdir, ptes, pcb, x)
      /\ Len(src) = 0 => IsMapped(pdir, ptes, pcb, dest) \/ IsMapped(pdir, ptes, pcb, dest - 1)
      /\ StackThere(pdir, ptes, pcb)
  BY <1>2 DEF CopyInv, Prepared, Copies, StackThere
<1>5. \/ f = None /\ halted' = TRUE /\ UNCHANGED <<todo, data, temp>>
      \/ f # None /\ Done /\ UNCHANGED <<data, temp, halted>>
      \/ /\ f # None /\ src # <<>> /\ Then(s) /\ UNCHANGED <<temp, halted>>
         /\ data' = [data EXCEPT ![f] = WithBytes(data[f], OffsetOf(dest), n, src)]
  BY <1>2 DEF CopyFromKernel, Absent, Arg, WithBytes
<1>6. DataOK(data) /\ TempOK(temp)
  BY DEF CopyInv, DataOK
<1>7. CASE f = None /\ halted' = TRUE /\ UNCHANGED <<todo, data, temp>>
  <2>1. Len(src) = 0
    <3> SUFFICES ASSUME Len(src) > 0
                 PROVE  FALSE
      BY <1>4
    <3>1. dest \in dest..(dest + Len(src) - 1)
      BY <1>4
    <3> QED
      BY <1>4, <1>7, <3>1 DEF IsMapped
  <2>2. src = <<>>
    BY <1>4, <2>1
  <2>3. dest - 1 \in Nat
    <3>1. KERNEL_MEM * PAGE_SIZE \in Nat \ {0}
      BY ConstantTypes
    <3> QED
      BY <1>4, <3>1
  <2>4. OffsetOf(dest) = 0
    BY <1>4, <1>7, <2>1, <2>3, BehindTheEnd
  <2>5. StopsOnlyPastTheEnd'
    <3>1. Head(todo') = todo[1]
      BY <1>2, <1>7
    <3>2. PastTheEnd(Head(todo'))
      BY <1>2, <2>2, <2>4, <3>1 DEF PastTheEnd
    <3> QED
      BY <3>2 DEF StopsOnlyPastTheEnd
  <2>6. Prepared(todo, pdir, ptes, pcb) /\ Fetching(todo, pdir, ptes, data, pcb, temp, passed)
    BY <1>2 DEF CopyInv
  <2>7. DataOK(data') /\ TempOK(temp') /\ pcb' # None
    BY <1>1, <1>2, <1>6, <1>7
  <2>8. Prepared(todo', pdir', ptes', pcb') /\ Fetching(todo', pdir', ptes', data', pcb', temp', passed')
    BY <1>1, <1>7, <2>6
  <2> QED
    BY <2>5, <2>7, <2>8 DEF CopyInv, DataOK
<1>8. CASE Done /\ UNCHANGED <<data, temp, halted>>
  <2>1. todo'[1] = todo[2] /\ todo[2][1] \in {"load", "answer"}
    BY <1>1, <1>8, AfterDone DEF MayFollow
  <2>2. Prepared(todo', pdir', ptes', pcb')
    BY <1>1, <1>4, <2>1 DEF Prepared, StackThere
  <2>3. DataOK(data')
    BY <1>6, <1>8
  <2> QED
    BY <1>1, <1>2, <1>8, <2>1, <2>2, <2>3, LoadingStep
<1>9. CASE /\ f # None /\ src # <<>> /\ Then(s) /\ UNCHANGED <<temp, halted>>
           /\ data' = [data EXCEPT ![f] = WithBytes(data[f], OffsetOf(dest), n, src)]
  <2>1. Len(src) > 0
    BY <1>4, <1>9
  <2>2. n \in 1..Len(src)
    BY <1>4, <2>1, ChunkProperties
  <2>3. DataOK([data EXCEPT ![f] = WithBytes(data[f], OffsetOf(dest), n, src)])
    BY <1>2, <1>3, <1>4, <1>6, <1>9, <2>1, CopiedData
  <2>4. DataOK(data')
    BY <1>9, <2>3
  <2> HIDE DEF n
  <2>5. rest \in Seq(ToSet(rest)) /\ Len(rest) = Len(src) - n
    <3> PICK S : src \in Seq(S)
      BY <1>4
    <3> PICK m : m = Len(src)
      OBVIOUS
    <3>1. rest \in Seq(S) /\ Len(rest) = Len(src) - n
      BY ONLY src \in Seq(S), n \in 1..Len(src), <2>2 DEF rest
    <3> HIDE DEF rest
    <3>2. rest \in Seq(ToSet(rest))
      BY ONLY <3>1, ElementsOf, Zenon
    <3> QED
      BY <3>1, <3>2
  <2>6. s[1] = "from" /\ s[2] = dest + n /\ s[3] = rest
    OBVIOUS
  <2> HIDE DEF rest, s
  <2>7. todo'[1] = s
    BY <1>1, <1>9, ThenHead
  <2>8. Copies(s, pdir, ptes, pcb)
    <3> PICK b \in Nat : b = dest + n
      BY <1>4, <2>2
    <3> PICK l : l = Len(src)
      OBVIOUS
    <3> PICK m : m = Len(rest)
      OBVIOUS
    <3> PICK K : K = KERNEL_MEM * PAGE_SIZE
      OBVIOUS
    <3>0. /\ l \in Nat /\ n \in 1..l /\ m = l - n /\ b = dest + n /\ dest \in Nat /\ High \in Nat /\ K \in Nat
          /\ dest >= K /\ dest + l <= High + 3
      BY <1>4, <2>2, <2>5, HighType
    <3>1. b >= KERNEL_MEM * PAGE_SIZE /\ b + Len(rest) <= High + 3
      <4>1. b >= K /\ b + m <= High + 3
        BY ONLY <3>0
      <4> QED
        BY <4>1
    <3>2. \A x \in b..(b + Len(rest) - 1) : x \in dest..(dest + Len(src) - 1)
      <4>1. \A x \in b..(b + m - 1) : x \in dest..(dest + l - 1)
        BY ONLY <3>0
      <4> QED
        BY <4>1
    <3>3. b - 1 \in dest..(dest + Len(src) - 1)
      <4>1. b - 1 \in dest..(dest + l - 1)
        BY ONLY <3>0
      <4> QED
        BY <4>1
    <3> QED
      BY <1>4, <2>5, <2>6, <3>1, <3>2, <3>3 DEF Copies
  <2>9. Prepared(todo', pdir', ptes', pcb')
    BY <1>1, <1>4, <2>6, <2>7, <2>8 DEF Prepared, StackThere
  <2> QED
    BY <1>1, <1>2, <1>9, <2>4, <2>6, <2>7, <2>9, LoadingStep
<1> QED
  BY <1>5, <1>7, <1>8, <1>9

(* exec(): where the arguments go.  Their end may be above the stack, by three
   bytes at most, and never below it. *)
LEMMA NewArgsPlace ==
  ASSUME NEW len \in Nat, len <= ARG_BUF
  PROVE  /\ NewArgs(len) \in Int /\ NewArgs(len) + len + 1 <= High + 3
         /\ NewArgs(len) - 4 >= High - NR_STACK * PAGE_SIZE /\ NewArgs(len) <= High + 2
         /\ NewArgs(len) + len + 1 >= High - 3
<1>1. PAGE_SIZE \in Nat \ {0} /\ NR_STACK \in Nat /\ NR_PTE \in Nat /\ KOFFSET \in Nat /\ NR_STACK <= NR_PTE /\ KOFFSET >= 2
  BY ConstantTypes
<1>2. PAGE_SIZE % 4 = 0 /\ ARG_BUF \in Nat /\ ARG_BUF + 5 <= NR_STACK * PAGE_SIZE
  BY MemoryAssumption
<1>3. PICK j \in Nat : PAGE_SIZE = 4 * j
  <2>1. PAGE_SIZE = 4 * (PAGE_SIZE \div 4) + (PAGE_SIZE % 4) /\ PAGE_SIZE \div 4 \in Nat
    <3> PICK n \in Nat \ {0} : n = 4
      OBVIOUS
    <3>1. PAGE_SIZE = n * (PAGE_SIZE \div n) + (PAGE_SIZE % n) /\ PAGE_SIZE \div n \in Nat
      BY ONLY <1>1, n \in Nat \ {0}, Division, SMT
    <3> QED
      BY <3>1
  <2> PICK k \in Nat : k = PAGE_SIZE \div 4
    BY <2>1
  <2>2. PAGE_SIZE = 4 * k
    BY <1>1, <1>2, <2>1
  <2> QED
    BY <2>2
<1> DEFINE T == KOFFSET * NR_PTE
<1>4. T \in Nat /\ High = T * PAGE_SIZE /\ High \in Nat /\ High = StackTop + 1 /\ StackTop \in Int
  BY <1>1, HighType DEF High, StackTop
<1>5. T >= NR_STACK
  <2>1. (KOFFSET - 1) * NR_PTE >= 0 /\ (KOFFSET - 1) * NR_PTE = T - NR_PTE
    BY <1>1
  <2> QED
    BY <1>1, <1>4, <2>1
<1> HIDE DEF T
<1>6. T * PAGE_SIZE >= NR_STACK * PAGE_SIZE
  <2>1. (T - NR_STACK) * PAGE_SIZE >= 0 /\ (T - NR_STACK) * PAGE_SIZE = T * PAGE_SIZE - NR_STACK * PAGE_SIZE
    BY <1>1, <1>4, <1>5
  <2> QED
    BY <1>1, <1>4, <2>1
<1> PICK h \in Nat : High = 4 * h
  <2>1. T * (4 * j) = 4 * (T * j) /\ T * j \in Nat
    BY <1>3, <1>4
  <2> QED
    BY <1>3, <1>4, <2>1
<1> PICK N \in Nat : N = NR_STACK * PAGE_SIZE
  BY <1>1
<1> PICK m \in Nat : N = 4 * m
  <2>1. NR_STACK * (4 * j) = 4 * (NR_STACK * j) /\ NR_STACK * j \in Nat
    BY <1>1, <1>3
  <2> QED
    BY <1>3, <2>1
<1> PICK a : a = StackTop - len
  OBVIOUS
<1>7. a \in Nat /\ a = High - 1 - len /\ len + 5 <= N
  BY <1>2, <1>4, <1>6
<1> PICK r : r = a % 4
  OBVIOUS
<1> PICK q : q = a \div 4
  OBVIOUS
<1>8. r \in 0..3 /\ q \in Nat /\ a = 4 * q + r
  <2> PICK n \in Nat \ {0} : n = 4
    OBVIOUS
  <2>1. a \div n \in Nat /\ a % n \in 0..(n - 1) /\ a = n * (a \div n) + (a % n)
    BY ONLY <1>7, n \in Nat \ {0}, Division
  <2> QED
    BY <2>1
<1>9. NewArgs(len) = a - r + (3 - r)
  BY DEF NewArgs
<1> PICK b : b = NewArgs(len)
  OBVIOUS
<1>10. b = a - r + (3 - r) /\ len \in Nat /\ High = 4 * h /\ N = 4 * m
  BY <1>9
<1>11. b \in Int /\ b + len + 1 <= High + 3 /\ b - 4 >= High - N /\ b <= High + 2 /\ b + len + 1 >= High - 3
  BY ONLY <1>7, <1>8, <1>10, h \in Nat, m \in Nat
<1> QED
  BY <1>11

(* The addresses of the stack. *)
LEMMA StackAddress ==
  ASSUME NEW x \in Int, x >= High - NR_STACK * PAGE_SIZE
  PROVE  /\ x \in Nat /\ x >= KERNEL_MEM * PAGE_SIZE
         /\ x < High => PageOf(x) \in (PageOf(StackTop) - NR_STACK + 1)..PageOf(StackTop)
<1>1. /\ PAGE_SIZE \in Nat \ {0} /\ NR_STACK \in Nat /\ NR_PTE \in Nat /\ KOFFSET \in Nat /\ NR_STACK <= NR_PTE
      /\ KOFFSET >= KERNEL_DIRS + 2 /\ KERNEL_DIRS \in Nat /\ KERNEL_MEM \in Nat
  BY ConstantTypes
<1> DEFINE T == KOFFSET * NR_PTE
           U == T - NR_STACK
<1>2. T \in Nat /\ High = T * PAGE_SIZE /\ High \in Nat
  BY <1>1, HighType DEF High
<1>3. U >= KERNEL_MEM /\ U \in Nat
  <2>1. (KOFFSET - 1 - KERNEL_DIRS) * NR_PTE >= 0
    BY <1>1
  <2>2. (KOFFSET - 1 - KERNEL_DIRS) * NR_PTE = T - NR_PTE - KERNEL_DIRS * NR_PTE
    BY <1>1
  <2>3. KERNEL_MEM = KERNEL_DIRS * NR_PTE
    BY DEF KERNEL_MEM
  <2> QED
    BY <1>1, <1>2, <2>1, <2>2, <2>3
<1>4. U * PAGE_SIZE = High - NR_STACK * PAGE_SIZE
  BY <1>1, <1>2
<1>5. PageOf(StackTop) = T - 1
  BY StackPages
<1> HIDE DEF T, U
<1>6. U * PAGE_SIZE >= KERNEL_MEM * PAGE_SIZE /\ KERNEL_MEM * PAGE_SIZE \in Nat
  <2>1. (U - KERNEL_MEM) * PAGE_SIZE >= 0 /\ (U - KERNEL_MEM) * PAGE_SIZE = U * PAGE_SIZE - KERNEL_MEM * PAGE_SIZE
    BY <1>1, <1>3
  <2> QED
    BY <1>1, <1>3, <2>1
<1>7. x \in Nat /\ x >= KERNEL_MEM * PAGE_SIZE /\ x >= U * PAGE_SIZE
  BY <1>1, <1>2, <1>3, <1>4, <1>6
<1>8. ASSUME x < High
      PROVE  PageOf(x) \in (PageOf(StackTop) - NR_STACK + 1)..PageOf(StackTop)
  <2> PICK v : v = PageOf(x)
    OBVIOUS
  <2>1. v \in Nat
    BY <1>7, SamePage
  <2>2. v < T
    BY <1>1, <1>2, <1>7, <1>8, DivisionBounds DEF PageOf
  <2>3. ~(v < U)
    <3>1. ~(x < U * PAGE_SIZE) /\ U \in Int
      BY <1>1, <1>3, <1>7
    <3> QED
      BY <1>1, <1>7, <3>1, DivisionBounds DEF PageOf
  <2>4. v \in (PageOf(StackTop) - NR_STACK + 1)..PageOf(StackTop)
    BY <1>1, <1>2, <1>3, <1>5, <2>1, <2>2, <2>3 DEF U
  <2> QED
    BY <2>4
<1> QED
  BY <1>7, <1>8

(* The stack, and the first bytes above it, are mapped. *)
LEMMA StackMapped ==
  ASSUME NEW pd, NEW pt, NEW p, pd \in Pdirs, p \in Pcbs, KernelUpTo(pd, pt, p, KERNEL_DIRS), StackThere(pd, pt, p),
         NEW x \in Int, x >= High - NR_STACK * PAGE_SIZE, x <= High + 2
  PROVE  x \in Nat /\ x >= KERNEL_MEM * PAGE_SIZE /\ IsMapped(pd, pt, p, x)
<1>1. x \in Nat /\ x >= KERNEL_MEM * PAGE_SIZE /\ High \in Nat
  BY StackAddress, HighType
<1>2. CASE x < High
  BY <1>1, <1>2, StackAddress DEF StackThere, PagesThere, IsMapped
<1>3. CASE x >= High
  <2>1. x \in High..(High + 2)
    BY <1>1, <1>3
  <2>2. PageOf(x) \in Nat /\ DirOf(PageOf(x)) = KOFFSET
    BY <2>1, HighAddress
  <2>3. 0 \in KernelDirs /\ KOFFSET = 0 + KOFFSET
    BY ConstantTypes DEF KernelDirs
  <2>4. Frame(pd[p], pt, PageOf(x)) # None
    BY <2>2, <2>3, KernelPage
  <2> QED
    BY <1>1, <2>4 DEF IsMapped
<1> QED
  BY <1>1, <1>2, <1>3

(* args_len, as long as the string was copied with its end, and otherwise. *)
LEMMA ArgStringsAre ==
  ASSUME TempOK(temp), NEW s \in ArgStrings
  PROVE  /\ s \in Seq(ToSet(s)) /\ Len(s) \in Nat /\ Len(s) < ARG_BUF
         /\ TempEnds # {} => /\ Len(s) + 1 \in TempEnds /\ \A j \in TempEnds : Len(s) + 1 <= j
                             /\ \A k \in 1..Len(s) : s[k] = temp[k]
<1>1. /\ temp \in Seq(ToSet(temp)) /\ Len(temp) \in Nat /\ Len(temp) <= ARG_BUF /\ ARG_BUF \in Nat
      /\ DOMAIN temp = 1..Len(temp)
  BY ArgTypes, SMTT(60) DEF TempOK
<1> PICK S : temp \in Seq(S)
  BY <1>1
<1> PICK m : m = Len(temp)
  OBVIOUS
<1>0. m \in Nat /\ ARG_BUF \in Nat /\ m <= ARG_BUF /\ DOMAIN temp = 1..m
  BY <1>1
<1>2. CASE TempEnds # {}
  <2> DEFINE k == CHOOSE x \in TempEnds : \A j \in TempEnds : x <= j
  <2>1. TempEnds \in SUBSET Nat
    BY ONLY <1>0 DEF TempEnds
  <2>2. \E x \in TempEnds : \A j \in TempEnds : x <= j
    BY <1>2, <2>1, LeastElement
  <2>3. k \in TempEnds /\ \A j \in TempEnds : k <= j
    BY <2>2
  <2>4. s = SubSeq(temp, 1, k - 1)
    BY <1>2 DEF ArgStrings
  <2> HIDE DEF k
  <2>5. k \in 1..m
    BY <1>0, <2>3 DEF TempEnds
  <2>6. s \in Seq(S) /\ Len(s) = k - 1 /\ \A j \in 1..Len(s) : s[j] = temp[j]
    BY ONLY <1>0, <2>4, <2>5, m = Len(temp), temp \in Seq(S)
  <2>7. s \in Seq(ToSet(s))
    BY ONLY <2>6, ElementsOf, Zenon
  <2>8. Len(s) \in Nat /\ Len(s) < ARG_BUF /\ Len(s) + 1 = k
    BY ONLY <1>0, <2>5, <2>6
  <2> QED
    BY <2>3, <2>6, <2>7, <2>8
<1>3. CASE TempEnds = {}
  <2>1. PICK n \in 0..(ARG_BUF - 1 - Len(temp)) : s = temp \o [k \in 1..n |-> Stored]
    BY <1>3 DEF ArgStrings
  <2> DEFINE t == [k \in 1..n |-> Stored]
             U == S \cup {Stored}
  <2>2. n \in Nat /\ m + n < ARG_BUF
    <3>1. n \in 0..(ARG_BUF - 1 - m)
      OBVIOUS
    <3> QED
      BY ONLY <1>0, <3>1
  <2>3. t \in Seq({Stored}) /\ Len(t) = n
    <3>1. t \in [1..n -> {Stored}] /\ DOMAIN t = 1..n
      BY <2>2
    <3> QED
      BY <2>2, <3>1, SeqDef
  <2> HIDE DEF t
  <2>4. t \in Seq(U) /\ temp \in Seq(U)
    BY <2>3
  <2> HIDE DEF U
  <2>5. s = temp \o t
    BY <2>1 DEF t
  <2>6. s \in Seq(U) /\ Len(s) = Len(temp) + Len(t)
    BY <2>4, <2>5
  <2>7. s \in Seq(ToSet(s))
    BY ONLY <2>6, ElementsOf, Zenon
  <2>8. Len(s) = m + n
    BY <2>3, <2>6
  <2>9. Len(s) \in Nat /\ Len(s) < ARG_BUF
    BY ONLY <1>0, <2>2, <2>8
  <2> QED
    BY <1>3, <2>7, <2>9
<1> QED
  BY <1>2, <1>3

\* The four bytes of the pointer, the string, and its end.
Placed(s) == [k \in 1..4 |-> Stored] \o s \o <<Zero>>

(* What exec() puts on the stack. *)
LEMMA PlacedIs ==
  ASSUME NEW s, s \in Seq(ToSet(s))
  PROVE  /\ Placed(s) \in Seq(ToSet(Placed(s))) /\ Len(Placed(s)) = Len(s) + 5
         /\ \A k \in 1..Len(s) : Placed(s)[k + 4] = s[k]
         /\ Placed(s)[Len(s) + 5] = Zero
<1> DEFINE h == [k \in 1..4 |-> Stored]
           t == Placed(s)
           S == ToSet(s)
           U == S \cup {Stored, Zero}
           z == <<Zero>>
<1>1. h \in Seq({Stored}) /\ Len(h) = 4
  <2>1. h \in [1..4 -> {Stored}] /\ DOMAIN h = 1..4
    OBVIOUS
  <2> QED
    BY <2>1, SeqDef
<1>2. z \in Seq({Zero}) /\ Len(z) = 1 /\ z[1] = Zero
  OBVIOUS
<1>3. t = h \o s \o z
  BY DEF Placed
<1> HIDE DEF h, t, S, z
<1>4. h \in Seq(U) /\ s \in Seq(U) /\ z \in Seq(U)
  BY <1>1, <1>2 DEF S
<1> HIDE DEF U
<1> PICK u : u = h \o s
  OBVIOUS
<1>5. /\ u \in Seq(U) /\ Len(u) = Len(h) + Len(s)
      /\ \A k \in 1..(Len(h) + Len(s)) : u[k] = IF k <= Len(h) THEN h[k] ELSE s[k - Len(h)]
  BY ONLY <1>4, u = h \o s, ConcatProperties, Zenon
<1>6. t = u \o z
  BY <1>3
<1>7. /\ t \in Seq(U) /\ Len(t) = Len(u) + Len(z)
      /\ \A k \in 1..(Len(u) + Len(z)) : t[k] = IF k <= Len(u) THEN u[k] ELSE z[k - Len(u)]
  <2>1. u \in Seq(U) /\ z \in Seq(U) /\ t = u \o z
    BY <1>4, <1>5, <1>6
  <2> QED
    BY ONLY <2>1, ConcatProperties, Zenon
<1>8. Len(s) \in Nat
  BY <1>4
<1>9. t \in Seq(ToSet(t))
  BY ONLY <1>7, ElementsOf, Zenon
<1>10. Len(t) = Len(s) + 5
  BY <1>1, <1>2, <1>5, <1>7, <1>8
<1> PICK m \in Nat : m = Len(s)
  BY <1>8
<1>11. ASSUME NEW k \in 1..m
       PROVE  t[k + 4] = s[k]
  <2>1. Len(u) = m + 4 /\ Len(z) = 1
    BY <1>1, <1>2, <1>5
  <2>2. k + 4 \in 1..(Len(u) + Len(z)) /\ k + 4 <= Len(u) /\ k + 4 \in 1..(Len(h) + Len(s)) /\ ~(k + 4 <= Len(h))
        /\ (k + 4) - Len(h) = k
    BY <1>1, <2>1
  <2>3. t[k + 4] = u[k + 4]
    BY <1>7, <2>2
  <2>4. u[k + 4] = s[(k + 4) - Len(h)]
    BY <1>5, <2>2
  <2> QED
    BY <2>2, <2>3, <2>4
<1>12. t[m + 5] = Zero
  <2>1. Len(u) = m + 4 /\ Len(z) = 1
    BY <1>1, <1>2, <1>5
  <2>2. m + 5 \in 1..(Len(u) + Len(z)) /\ ~(m + 5 <= Len(u)) /\ (m + 5) - Len(u) = 1
    BY <2>1
  <2>3. t[m + 5] = z[(m + 5) - Len(u)]
    BY <1>7, <2>2
  <2> QED
    BY <1>2, <2>2, <2>3
<1> QED
  BY <1>9, <1>10, <1>11, <1>12 DEF t

(* exec(): the arguments have their place on the stack. *)
LEMMA PlaceArgsCopies == ASSUME MemoryInv, CopyInv, PlaceArgs PROVE CopyInv'
<1>1. Doing("args") /\ ~halted /\ UNCHANGED <<pdir, ptes, spaces, pcb, data, temp, halted>>
  BY DEF PlaceArgs, Maps, Doing
<1>2. /\ pcb \in Pcbs /\ pcb # None /\ todo[1][1] = "args" /\ pcb \in spaces
  BY <1>1, InHand
<1>3. KernelUpTo(pdir, ptes, pcb, KERNEL_DIRS) /\ pdir \in Pdirs
  BY <1>2, AllWhole DEF MemoryInv, MapType
<1>4. StackThere(pdir, ptes, pcb) /\ TempOK(temp) /\ DataOK(data)
  BY <1>2 DEF CopyInv, Prepared, StackThere, DataOK
<1> PICK str : str = temp
  OBVIOUS
<1>5. Then(<<"from", NewArgs(Len(str)) - 4, Placed(str)>>)
  BY DEF PlaceArgs, Placed
<1> DEFINE s == <<"from", NewArgs(Len(str)) - 4, Placed(str)>>
<1>6. s[1] = "from" /\ s[2] = NewArgs(Len(str)) - 4 /\ s[3] = Placed(str) /\ Then(s)
  BY <1>5
<1> HIDE DEF s
<1>7. str \in Seq(ToSet(str)) /\ Len(str) \in Nat /\ Len(str) <= ARG_BUF
  BY <1>4 DEF TempOK
<1>8. Placed(str) \in Seq(ToSet(Placed(str))) /\ Len(Placed(str)) = Len(str) + 5
  BY <1>7, PlacedIs
<1> PICK len \in Nat : len = Len(str)
  BY <1>7
<1> PICK b : b = NewArgs(len)
  OBVIOUS
<1>9. /\ b \in Int /\ b + len + 1 <= High + 3 /\ b - 4 >= High - NR_STACK * PAGE_SIZE /\ b <= High + 2
      /\ High \in Nat
  BY <1>7, NewArgsPlace, HighType
<1> PICK N : N = NR_STACK * PAGE_SIZE
  OBVIOUS
<1>10. N \in Nat
  BY ConstantTypes
<1>11. \A x \in (b - 4)..(b + len) : x \in Int /\ x >= High - N /\ x <= High + 2
  BY ONLY <1>9, <1>10, len \in Nat, N = NR_STACK * PAGE_SIZE
<1>12. \A x \in (b - 4)..(b + len) : x \in Nat /\ x >= KERNEL_MEM * PAGE_SIZE /\ IsMapped(pdir, ptes, pcb, x)
  BY <1>2, <1>3, <1>4, <1>11, StackMapped
<1>13. b - 4 \in (b - 4)..(b + len)
  BY <1>9, SMTT(60)
<1>14. s[2] = b - 4 /\ Len(s[3]) = len + 5 /\ s[2] + Len(s[3]) - 1 = b + len /\ s[2] + Len(s[3]) <= High + 3
  BY <1>6, <1>8, <1>9, SMTT(30)
<1>15. Copies(s, pdir, ptes, pcb)
  BY <1>6, <1>8, <1>12, <1>13, <1>14 DEF Copies
<1>16. todo'[1] = s
  BY <1>1, <1>6, ThenHead
<1>17. Prepared(todo', pdir', ptes', pcb')
  BY <1>1, <1>4, <1>6, <1>15, <1>16 DEF Prepared, StackThere
<1> QED
  BY <1>1, <1>2, <1>4, <1>6, <1>16, <1>17, LoadingStep

-----------------------------------------------------------------------------
(* Strings of a process. *)

(* A string that ends in its page. *)
LEMMA StringThere ==
  ASSUME NEW p, NEW a \in ArgAddrs, NEW op, NEW st, st = ArgsOf(p, a, op).str, Fitting(ArgsOf(p, a, op))
  PROVE  TextAt(st, pdir, ptes, data, p, a) /\ PageOf(a) = PageOf(a + Len(st))
<1>1. a \in Addrs /\ a \in Nat /\ ARG_BUF \in Nat /\ PAGE_SIZE \in Nat \ {0}
  BY AddressAssumption, AnyAddress, ArgTypes, ConstantTypes
<1>2. Ends(p, a) # {} /\ Len(st) < ARG_BUF
  BY DEF Fitting, ArgsOf
<1>3. PICK e \in Ends(p, a) : st = StringOf(p, a, e)
  BY <1>2 DEF ArgsOf
<1>4. /\ e \in a..PageEnd(a) /\ Lookup(p, a) # None
      /\ ByteAt(p, e) = Zero /\ \A x \in a..(e - 1) : ByteAt(p, x) # Zero
  BY <1>3 DEF Ends
<1> DEFINE n == e - a
<1>5. OffsetOf(a) \in Nat /\ OffsetOf(a) < PAGE_SIZE
  BY <1>1, SamePage
<1>6. n \in Nat /\ a + n = e /\ OffsetOf(a) + n < PAGE_SIZE
  BY <1>1, <1>4, <1>5 DEF PageEnd
<1> HIDE DEF n
<1>7. st = [k \in 1..n |-> ByteAt(p, a + k - 1)]
  BY <1>3 DEF StringOf, n
<1>8. st \in Seq(ToSet(st)) /\ Len(st) = n /\ \A k \in 1..n : st[k] = ByteAt(p, a + k - 1)
  <2> DEFINE R == {ByteAt(p, a + k - 1) : k \in 1..n}
  <2>1. st \in [1..n -> R] /\ DOMAIN st = 1..n
    BY <1>7
  <2> HIDE DEF R
  <2>2. st \in Seq(R) /\ Len(st) = n
    BY <1>6, <2>1, SeqDef
  <2>3. st \in Seq(ToSet(st))
    BY ONLY <2>2, ElementsOf, Zenon
  <2> QED
    BY <1>7, <2>2, <2>3
<1>9. \A k \in 0..n : k \in Nat /\ OffsetOf(a) + k < PAGE_SIZE
  BY <1>5, <1>6, <1>1
<1>10. \A k \in 0..n : PageOf(a + k) = PageOf(a)
  BY <1>1, <1>9, SamePage
<1>11. \A k \in 1..n : a + k - 1 \in a..(e - 1)
  BY <1>1, <1>6
<1>12. \A x : ByteAt(p, x) = Byte(pdir, ptes, data, p, x)
  BY DEF ByteAt, Byte
<1>13. \A k \in 0..n : IsMapped(pdir, ptes, p, a + k)
  <2>1. Frame(pdir[p], ptes, PageOf(a)) # None
    BY <1>1, <1>4 DEF Lookup
  <2> QED
    BY <1>10, <2>1 DEF IsMapped
<1>14. a + n \in Addrs
  <2> PICK V : V = NR_PDE * NR_PTE
    OBVIOUS
  <2>1. V \in Nat
    BY ConstantTypes
  <2>2. a \in 0..(V * PAGE_SIZE - 1)
    BY <1>1 DEF Addrs
  <2>3. V * PAGE_SIZE \in Nat
    BY <1>1, <2>1
  <2>4. a < V * PAGE_SIZE
    BY <1>1, <2>2, <2>3
  <2>5. a \div PAGE_SIZE < V
    BY <1>1, <2>1, <2>4, DivisionBounds
  <2>6. a + n \in Nat /\ (a + n) \div PAGE_SIZE = a \div PAGE_SIZE
    BY <1>1, <1>6, <1>10 DEF PageOf
  <2>7. a + n < V * PAGE_SIZE
    BY <1>1, <2>1, <2>5, <2>6, DivisionBounds
  <2>8. a + n \in 0..(V * PAGE_SIZE - 1)
    BY <2>3, <2>6, <2>7
  <2> QED
    BY <2>8 DEF Addrs
<1>15. \A k \in 1..n : Byte(pdir, ptes, data, p, a + k - 1) = st[k] /\ st[k] # Zero
  BY <1>4, <1>8, <1>11, <1>12
<1>16. Byte(pdir, ptes, data, p, a + n) = Zero
  BY <1>4, <1>6, <1>12
<1>17. n <= ARG_BUF
  BY <1>1, <1>2, <1>6, <1>8
<1>18. TextAt(st, pdir, ptes, data, p, a)
  BY <1>1, <1>8, <1>13, <1>14, <1>15, <1>16, <1>17 DEF TextAt
<1>19. n \in 0..n
  BY <1>6
<1> QED
  BY <1>8, <1>10, <1>18, <1>19

(* exec(): the string is there when the request comes. *)
LEMMA ExecCopies ==
  ASSUME MemoryInv, CopyInv, NEW p \in Pcbs, NEW a \in ArgAddrs, NEW steps, NEW op,
         Request(p, p, << <<"strlen", a, a, 0>> >> \o steps, ArgsOf(p, a, op)),
         todo'[1] = <<"strlen", a, a, 0>>
  PROVE  CopyInv'
<1>1. /\ pcb = None /\ pcb' = p /\ ~halted /\ UNCHANGED <<pdir, ptes, data, temp, halted>>
      /\ passed' = ArgsOf(p, a, op)
  BY DEF Request
<1>2. temp = <<>> /\ TempOK(temp) /\ DataOK(data) /\ p # None
  BY <1>1, MemoryAssumption DEF CopyInv, DataOK
<1> PICK st : st = passed'.str
  OBVIOUS
<1>3. Fitting(passed') => TextAt(st, pdir, ptes, data, p, a) /\ PageOf(a) = PageOf(a + Len(st))
  BY <1>1, StringThere
<1>4. a \in Nat
  BY AddressAssumption, AnyAddress
<1> PICK s : s = todo'[1]
  OBVIOUS
<1>5. s[1] = "strlen" /\ s[2] = a /\ s[3] = a /\ s[4] = 0
  OBVIOUS
<1>8. Fetching(todo', pdir', ptes', data', pcb', temp', passed')
  BY <1>1, <1>2, <1>3, <1>4, <1>5 DEF Fetching
<1>9. Prepared(todo', pdir', ptes', pcb')
  BY <1>5 DEF Prepared
<1>10. StopsOnlyPastTheEnd'
  BY <1>1 DEF StopsOnlyPastTheEnd
<1>11. DataOK(data') /\ TempOK(temp') /\ pcb' # None
  BY <1>1, <1>2
<1> QED
  BY <1>8, <1>9, <1>10, <1>11 DEF CopyInv, DataOK

(* A request of the process manager. *)
LEMMA RequestCopies == ASSUME MemoryInv, CopyInv, Requests PROVE CopyInv'
<1>0. ASSUME NEW p \in Pcbs, NEW caller, NEW steps, NEW args, Request(p, caller, steps, args),
             Quiet((steps \o << <<"answer", caller>> >>)[1])
      PROVE  CopyInv'
  <2>1. /\ pcb' = p /\ p # None /\ todo' = steps \o << <<"answer", caller>> >>
        /\ ~halted /\ UNCHANGED <<data, temp, halted>>
    BY <1>0, MemoryAssumption DEF Request
  <2>2. DataOK(data')
    BY <2>1 DEF CopyInv, DataOK
  <2> QED
    BY <1>0, <2>1, <2>2, QuietStep
<1>1. ASSUME NEW p \in Pcbs, NEW i \in DOMAIN Programs, Create(p, i)
      PROVE  CopyInv'
  <2>1. Request(p, p, LoadSteps(i), NoArgs)
    BY <1>1 DEF Create
  <2>2. (LoadSteps(i) \o << <<"answer", p>> >>)[1][1] = "clear"
    BY CreateFits
  <2> QED
    BY <1>0, <2>1, <2>2 DEF Quiet
<1>2. ASSUME NEW p \in Pcbs, NEW c \in Pcbs, Fork(p, c)
      PROVE  CopyInv'
  <2>1. Request(c, p, CopySteps(p), NoArgs)
    BY <1>2 DEF Fork
  <2>2. (CopySteps(p) \o << <<"answer", p>> >>)[1][1] = "clear"
    BY ForkFits
  <2> QED
    BY <1>0, <2>1, <2>2 DEF Quiet
<1>3. ASSUME NEW p \in Pcbs, Exit(p)
      PROVE  CopyInv'
  <2> DEFINE h == <<"takeback">>
  <2>1. Request(p, p, <<h>>, NoArgs)
    BY <1>3 DEF Exit
  <2>2. StepOK(h) /\ h[1] = "takeback"
    BY DEF StepOK
  <2> HIDE DEF h
  <2>3. (<<h>> \o << <<"answer", p>> >>)[1][1] = "takeback"
    BY <2>2, ShortFits
  <2> QED
    BY <1>0, <2>1, <2>3 DEF Quiet
<1>4. ASSUME NEW p \in Pcbs, NEW a \in ArgAddrs, NEW steps, ExecArgs(p, a, steps),
             (<< <<"strlen", a, a, 0>> >> \o steps \o << <<"answer", p>> >>)[1] = <<"strlen", a, a, 0>>
      PROVE  CopyInv'
  <2>1. Request(p, p, << <<"strlen", a, a, 0>> >> \o steps, ArgsOf(p, a, steps # <<>>))
    BY <1>4 DEF ExecArgs
  <2>2. todo' = << <<"strlen", a, a, 0>> >> \o steps \o << <<"answer", p>> >>
    BY <2>1 DEF Request
  <2>3. todo'[1] = <<"strlen", a, a, 0>>
    BY <1>4, <2>2
  <2> QED
    BY <2>1, <2>3, ExecCopies
<1>5. ASSUME NEW p \in Pcbs, NEW i \in DOMAIN Programs, NEW a \in ArgAddrs, Exec(p, i, a)
      PROVE  CopyInv'
  <2> DEFINE s == << <<"takeback">> >> \o LoadSteps(i) \o << <<"args">> >>
  <2>1. ExecArgs(p, a, s)
    BY <1>5 DEF Exec
  <2>2. (<< <<"strlen", a, a, 0>> >> \o s \o << <<"answer", p>> >>)[1] = <<"strlen", a, a, 0>>
    BY ExecFits
  <2> HIDE DEF s
  <2> QED
    BY <1>4, <2>1, <2>2
<1>6. ASSUME NEW p \in Pcbs, NEW a \in ArgAddrs, ExecFails(p, a)
      PROVE  CopyInv'
  <2>1. ExecArgs(p, a, <<>>)
    BY <1>6 DEF ExecFails
  <2>2. (<< <<"strlen", a, a, 0>> >> \o <<>> \o << <<"answer", p>> >>)[1] = <<"strlen", a, a, 0>>
    OBVIOUS
  <2> QED
    BY <1>4, <2>1, <2>2
<1> QED
  BY <1>1, <1>2, <1>3, <1>5, <1>6 DEF Requests

ElementsIn(tm) == tm \in Seq(ToSet(tm))
HasBytes(g, c) == c \in Nat /\ g = [k \in 1..c |-> g[k]]
Joined(tm, g, c, u) ==
  /\ u \in Seq(ToSet(u)) /\ Len(u) = Len(tm) + c
  /\ \A k \in 1..Len(tm) : u[k] = tm[k]
  /\ \A k \in 1..c : u[Len(tm) + k] = g[k]

(* Bytes put behind a string. *)
LEMMA Appended ==
  ASSUME NEW tm, ElementsIn(tm), NEW c, NEW g, HasBytes(g, c)
  PROVE  Joined(tm, g, c, tm \o g)
<1> USE DEF ElementsIn, HasBytes, Joined
<1> PICK R : R = {g[k] : k \in 1..c}
  OBVIOUS
<1>1. g \in [1..c -> R]
  OBVIOUS
<1>2. g \in Seq(R) /\ Len(g) = c
  BY <1>1, SeqDef, SMTT(60)
<1> PICK T : T = ToSet(tm) \cup R
  OBVIOUS
<1>3. tm \in Seq(T) /\ g \in Seq(T)
  BY <1>2
<1> PICK u : u = tm \o g
  OBVIOUS
<1>4. u \in Seq(T) /\ Len(u) = Len(tm) + Len(g)
      /\ \A k \in 1..(Len(tm) + Len(g)) : u[k] = IF k <= Len(tm) THEN tm[k] ELSE g[k - Len(tm)]
  BY ONLY <1>3, u = tm \o g, ConcatProperties, Zenon
<1>5. u \in Seq(ToSet(u))
  BY ONLY <1>4, ElementsOf, Zenon
<1> PICK n : n = Len(tm)
  OBVIOUS
<1>6. n \in Nat
  BY <1>3
<1>7. \A k \in 1..n : u[k] = tm[k]
  BY <1>2, <1>4, <1>6
<1>8. ASSUME NEW k \in 1..c
      PROVE  u[n + k] = g[k]
  <2>1. n + k \in 1..(n + c) /\ ~(n + k <= n) /\ (n + k) - n = k
    BY <1>6
  <2>2. u[n + k] = g[(n + k) - n]
    BY <1>2, <1>4, <2>1
  <2> QED
    BY <2>1, <2>2
<1> QED
  BY <1>2, <1>4, <1>5, <1>6, <1>7, <1>8

\* The bytes of a page from offset o on.
BytesFrom(pg, o, c) == [k \in 1..c |-> pg[o + k - 1]]

\* tm holds the first bytes at address base of p.
SoFar(tm, p, base) == \A k \in 1..Len(tm) : tm[k] = Byte(pdir, ptes, data, p, base + k - 1)

\* A turn of copy_to_kernel(): c bytes of len from address src of p are put behind
\* tm, and there is room for them.
Turned(tm, t2, src, len, c, p) ==
  /\ TempOK(tm) /\ src \in Nat /\ len \in Nat /\ len > 0 /\ c = Chunk(src, len) /\ Len(tm) + c <= ARG_BUF
  /\ t2 = tm \o BytesFrom(data[Frame(pdir[p], ptes, PageOf(src))], OffsetOf(src), c)

GrownBy(tm, t2, src, len, c, p) ==
  /\ TempOK(t2) /\ c \in 1..len /\ Len(t2) = Len(tm) + c
  /\ \A base \in Nat : base + Len(tm) = src /\ SoFar(tm, p, base) => SoFar(t2, p, base)

(* A turn of copy_to_kernel(): the string in the kernel grows by bytes of the
   process. *)
LEMMA Grown ==
  ASSUME NEW tm, NEW t2, NEW src, NEW len, NEW c, NEW p, Turned(tm, t2, src, len, c, p)
  PROVE  GrownBy(tm, t2, src, len, c, p)
<1> USE DEF Turned
<1> PICK f : f = Frame(pdir[p], ptes, PageOf(src))
  OBVIOUS
<1> DEFINE g == BytesFrom(data[f], OffsetOf(src), c)
<1>1. tm \in Seq(ToSet(tm)) /\ Len(tm) \in Nat
  BY DEF TempOK
<1> PICK n \in Nat : n = Len(tm)
  BY <1>1
<1>2. src \in Nat
  OBVIOUS
<1>3. c \in 1..len /\ OffsetOf(src) + c <= PAGE_SIZE
  BY <1>2, ChunkProperties
<1>4. DOMAIN g = 1..c /\ g = [k \in 1..c |-> g[k]] /\ \A k \in 1..c : g[k] = data[f][OffsetOf(src) + k - 1]
  BY DEF BytesFrom
<1> HIDE DEF g
<1>5. c \in Nat /\ t2 = tm \o g
  BY <1>3 DEF g
<1>6. /\ t2 \in Seq(ToSet(t2)) /\ Len(t2) = n + c
      /\ \A k \in 1..n : t2[k] = tm[k]
      /\ \A k \in 1..c : t2[n + k] = g[k]
  <2> PICK h : h = g
    OBVIOUS
  <2>1. ElementsIn(tm) /\ HasBytes(h, c)
    BY <1>1, <1>4, <1>5 DEF ElementsIn, HasBytes
  <2>2. Joined(tm, h, c, tm \o h)
    BY ONLY <2>1, Appended, Zenon
  <2> QED
    BY <1>5, <2>2 DEF Joined
<1>7. PAGE_SIZE \in Nat /\ OffsetOf(src) \in Nat
  <2>1. 0 \in Nat
    OBVIOUS
  <2> QED
    BY <1>2, <2>1, ConstantTypes, SamePage
<1>8. ASSUME NEW base \in Nat, src = base + n, NEW k \in 1..c
      PROVE  g[k] = Byte(pdir, ptes, data, p, base + (n + k) - 1)
  <2> PICK j \in Nat : j = k - 1
    BY <1>3
  <2>1. OffsetOf(src) + j < PAGE_SIZE
    BY <1>3, <1>7, SMTT(60)
  <2>2. PageOf(src + j) = PageOf(src) /\ OffsetOf(src + j) = OffsetOf(src) + j
    BY <1>2, <2>1, SamePage
  <2>3. src + j = base + (n + k) - 1 /\ OffsetOf(src) + k - 1 = OffsetOf(src) + j
    <3>1. k \in Nat
      BY <1>3
    <3> QED
      BY ONLY <1>7, <3>1, src = base + n, base \in Nat, n \in Nat, j \in Nat, j = k - 1
  <2>4. g[k] = data[f][OffsetOf(src) + j]
    BY <1>4, <2>3
  <2> QED
    BY <2>2, <2>3, <2>4 DEF Byte
<1>9. ASSUME NEW base \in Nat, src = base + n, SoFar(tm, p, base), NEW k \in 1..(n + c)
      PROVE  t2[k] = Byte(pdir, ptes, data, p, base + k - 1)
  <2>1. CASE k <= n
    <3>1. k \in 1..n
      BY <2>1
    <3> QED
      BY <1>6, <1>9, <3>1 DEF SoFar
  <2>2. CASE ~(k <= n)
    <3>0. k - n \in 1..c /\ n + (k - n) = k
      BY <1>5, <2>2, SMTT(60)
    <3> PICK j \in 1..c : j = k - n
      BY <3>0
    <3>1. k = n + j
      BY <3>0
    <3>2. t2[n + j] = g[j] /\ g[j] = Byte(pdir, ptes, data, p, base + (n + j) - 1)
      BY <1>6, <1>8, <1>9
    <3> QED
      BY <3>1, <3>2
  <2> QED
    BY <2>1, <2>2
<1>10. TempOK(t2)
  BY <1>6 DEF TempOK
<1>11. \A base \in Nat : base + Len(tm) = src /\ SoFar(tm, p, base) => SoFar(t2, p, base)
  BY <1>6, <1>9, ZenonT(60) DEF SoFar
<1> QED
  BY <1>3, <1>6, <1>10, <1>11 DEF GrownBy

(* exec(): the string is copied to the kernel as it is. *)
LEMMA CopyToKernelCopies == ASSUME MemoryInv, CopyInv, CopyToKernel PROVE CopyInv'
<1>1. Doing("to") /\ ~halted /\ UNCHANGED <<pdir, ptes, spaces, pcb, passed>>
  BY DEF CopyToKernel, Maps, Doing
<1>2. /\ pcb \in Pcbs /\ pcb # None /\ todo[1][1] = "to" /\ Head(todo) = todo[1] /\ pcb \in spaces
  BY <1>1, InHand
<1> PICK src : src = todo[1][2]
  OBVIOUS
<1> PICK len : len = todo[1][3]
  OBVIOUS
<1> PICK f : f = Lookup(pcb, src)
  OBVIOUS
<1> PICK st : st = passed.str
  OBVIOUS
<1> PICK n : n = Len(temp)
  OBVIOUS
<1> PICK base : base = src - n
  OBVIOUS
<1> PICK m : m = Len(st)
  OBVIOUS
<1> DEFINE c == Chunk(src, len)
           s == <<"to", src + c, len - c>>
<1>3. src \in Nat /\ len \in Nat /\ DataOK(data) /\ TempOK(temp) /\ n \in Nat
  BY <1>2 DEF CopyInv, Fetching, DataOK, TempOK
<1>4. ASSUME Fitting(passed)
      PROVE  /\ TextAt(st, pdir, ptes, data, pcb, base) /\ n + len = m + 1 /\ SoFar(temp, pcb, base)
             /\ m \in Nat /\ base \in Nat /\ m < ARG_BUF /\ base + n = src
  <2>1. TextAt(st, pdir, ptes, data, pcb, base) /\ n + len = m + 1 /\ SoFar(temp, pcb, base)
    BY <1>2, <1>4 DEF CopyInv, Fetching, SoFar
  <2>2. m \in Nat /\ base \in Nat /\ m < ARG_BUF
    BY <1>4, <2>1 DEF TextAt, Fitting
  <2>3. base + n = src
    BY <1>3, <2>2, SMTT(60)
  <2> QED
    BY <2>1, <2>2, <2>3
<1>5. \/ /\ halted' = TRUE /\ UNCHANGED <<todo, data, temp>>
         /\ f = None \/ (len > 0 /\ n + c > ARG_BUF) \/ (len = 0 /\ TempEnds = {})
      \/ f # None /\ len = 0 /\ temp' \in ArgStrings /\ Done /\ UNCHANGED <<data, halted>>
      \/ /\ f # None /\ len > 0 /\ n + c <= ARG_BUF /\ Then(s) /\ UNCHANGED <<data, halted>>
         /\ temp' = temp \o BytesFrom(data[f], OffsetOf(src), c)
  BY <1>2 DEF CopyToKernel, Absent, Overrun, Arg, BytesFrom
<1>6. CASE /\ halted' = TRUE /\ UNCHANGED <<todo, data, temp>>
           /\ f = None \/ (len > 0 /\ n + c > ARG_BUF) \/ (len = 0 /\ TempEnds = {})
  <2>1. ASSUME Fitting(passed)
        PROVE  len = 0 /\ OffsetOf(src) = 0
    <3>0. ARG_BUF \in Nat /\ \A k \in 0..m : IsMapped(pdir, ptes, pcb, base + k)
      BY <1>4, <2>1, ArgTypes DEF TextAt
    <3>1. \A k \in 0..m : base + k \in Addrs
      <4> PICK M : M = NR_PDE * NR_PTE * PAGE_SIZE - 1
        OBVIOUS
      <4>1. M \in Int
        BY ConstantTypes
      <4>2. base + m \in 0..M
        BY <1>4, <2>1 DEF Addrs, TextAt
      <4>3. ASSUME NEW k \in 0..m
            PROVE  base + k \in 0..M
        <5>1. base \in Nat /\ m \in Nat
          BY <1>4, <2>1
        <5> QED
          BY ONLY <4>1, <4>2, <5>1, k \in 0..m
      <4> QED
        BY <4>3 DEF Addrs
    <3>2. ASSUME len > 0
          PROVE  f # None
      <4>1. n \in 0..m
        BY <1>3, <1>4, <2>1, <3>2, SMTT(60)
      <4>2. src \in Addrs /\ IsMapped(pdir, ptes, pcb, src)
        BY <1>4, <2>1, <3>0, <3>1, <4>1
      <4> QED
        BY <4>2 DEF Lookup, IsMapped
    <3>3. ASSUME len > 0
          PROVE  n + c <= ARG_BUF
      <4>1. c \in 1..len
        BY <1>3, <3>3, ChunkProperties
      <4> HIDE DEF c
      <4> QED
        BY <1>3, <1>4, <2>1, <3>0, <4>1, SMTT(60)
    <3>4. len = 0
      <4> HIDE DEF c
      <4>1. ~(len > 0)
        <5> SUFFICES ASSUME len > 0
                     PROVE  FALSE
          OBVIOUS
        <5>1. n + c > ARG_BUF
          BY <1>6, <3>2
        <5>2. c \in 1..len
          BY ONLY <1>3, len > 0, ChunkProperties DEF c
        <5> QED
          BY <1>3, <3>0, <3>3, <5>1, <5>2
      <4> QED
        BY <1>3, <4>1
    <3>5. n = m + 1
      BY <1>3, <1>4, <2>1, <3>4
    <3>6. TempEnds # {}
      <4>1. m + 1 \in 1..n /\ base + (m + 1) - 1 = base + m
        BY <1>3, <1>4, <2>1, <3>5
      <4>2. temp[m + 1] = Byte(pdir, ptes, data, pcb, base + m)
        BY <1>4, <2>1, <4>1 DEF SoFar
      <4>3. temp[m + 1] = Zero
        BY <1>4, <2>1, <4>2 DEF TextAt
      <4>4. DOMAIN temp = 1..n
        BY <1>3 DEF TempOK
      <4> QED
        BY <4>1, <4>3, <4>4 DEF TempEnds
    <3>7. f = None
      BY <1>6, <3>4, <3>6
    <3>8. m \in 0..m /\ base + m = src - 1 /\ src - 1 \in Nat
      <4>1. m \in Nat /\ base \in Nat /\ base + n = src
        BY <1>4, <2>1
      <4> QED
        BY ONLY <3>5, <4>1
    <3>9. IsMapped(pdir, ptes, pcb, src - 1) /\ src - 1 \in Addrs
      BY <3>0, <3>1, <3>8
    <3>10. CASE src \in Addrs
      <4>1. Frame(pdir[pcb], ptes, PageOf(src)) = None
        BY <3>7, <3>10 DEF Lookup
      <4> QED
        BY ONLY <1>3, <3>4, <3>8, <3>9, <4>1, BehindTheEnd
    <3>11. CASE src \notin Addrs
      <4> PICK V : V = NR_PDE * NR_PTE
        OBVIOUS
      <4> PICK P \in Nat \ {0} : P = PAGE_SIZE
        BY ConstantTypes
      <4>1. V \in Nat /\ V * P \in Nat
        BY ConstantTypes
      <4>2. src - 1 \in 0..(V * P - 1) /\ src \notin 0..(V * P - 1)
        BY <3>9, <3>11 DEF Addrs
      <4> PICK W \in Nat : W = V * P
        BY <4>1
      <4>3. src = W
        BY ONLY <1>3, <4>2, W \in Nat, W = V * P
      <4>4. src = P * V + 0 /\ 0 \in 0..(P - 1) /\ V \in Int
        BY <4>1, <4>3
      <4>5. src % P = 0
        BY <1>3, <4>4, QuotientIs, SMTT(60)
      <4> QED
        BY <3>4, <4>5 DEF OffsetOf
    <3> QED
      BY <3>10, <3>11
  <2>2. StopsOnlyPastTheEnd'
    <3>1. Head(todo') = todo[1] /\ passed' = passed
      BY <1>1, <1>2, <1>6
    <3>2. Head(todo')[1] = "to" /\ Head(todo')[2] = src /\ Head(todo')[3] = len
      BY <1>2, <3>1
    <3>3. Fitting(passed') => PastTheEnd(Head(todo'))
      BY <2>1, <3>1, <3>2 DEF PastTheEnd
    <3> QED
      BY <3>2, <3>3 DEF StopsOnlyPastTheEnd
  <2>6. Prepared(todo, pdir, ptes, pcb) /\ Fetching(todo, pdir, ptes, data, pcb, temp, passed)
    BY <1>2 DEF CopyInv
  <2>7. DataOK(data') /\ TempOK(temp') /\ pcb' # None
    BY <1>1, <1>2, <1>3, <1>6
  <2>8. Prepared(todo', pdir', ptes', pcb') /\ Fetching(todo', pdir', ptes', data', pcb', temp', passed')
    BY <1>1, <1>6, <2>6
  <2> QED
    BY <2>2, <2>7, <2>8 DEF CopyInv, DataOK
<1>7. CASE temp' \in ArgStrings /\ Done /\ UNCHANGED <<data, halted>>
  <2>1. todo'[1] = todo[2] /\ todo[2][1] \in {"takeback", "answer"}
    BY <1>1, <1>7, AfterDone DEF MayFollow
  <2> PICK t2 \in ArgStrings : t2 = temp'
    BY <1>7
  <2>2. t2 \in Seq(ToSet(t2)) /\ Len(t2) \in Nat /\ Len(t2) < ARG_BUF
    BY <1>3, ArgStringsAre
  <2>3. TempOK(t2)
    BY <2>2, ArgTypes DEF TempOK
  <2>4. DataOK(data') /\ ~halted' /\ pcb' # None /\ todo'[1][1] \in {"takeback", "answer"}
    BY <1>1, <1>2, <1>3, <1>7, <2>1
  <2>5. Prepared(todo', pdir', ptes', pcb') /\ Fetching(todo', pdir', ptes', data', pcb', temp', passed')
    BY <2>4 DEF Prepared, Fetching
  <2>6. StopsOnlyPastTheEnd'
    BY <2>4 DEF StopsOnlyPastTheEnd
  <2> QED
    BY <2>3, <2>4, <2>5, <2>6 DEF CopyInv, DataOK
<1>8. CASE /\ f # None /\ len > 0 /\ n + c <= ARG_BUF /\ Then(s) /\ UNCHANGED <<data, halted>>
           /\ temp' = temp \o BytesFrom(data[f], OffsetOf(src), c)
  <2> PICK t2 : t2 = temp'
    BY SMTT(60)
  <2>0. f = Frame(pdir[pcb], ptes, PageOf(src))
    BY <1>8 DEF Lookup
  <2>1. TempOK(t2) /\ c \in 1..len /\ Len(t2) = n + c /\ \A b \in Nat : b + n = src /\ SoFar(temp, pcb, b) => SoFar(t2, pcb, b)
    <3> PICK l : l = c
      OBVIOUS
    <3> PICK tm : tm = temp
      OBVIOUS
    <3> PICK q : q = pcb
      BY SMTT(60)
    <3>1. Turned(tm, t2, src, len, l, q)
      BY <1>3, <1>8, <2>0 DEF Turned
    <3>2. GrownBy(tm, t2, src, len, l, q)
      BY ONLY <3>1, Grown, Zenon
    <3> QED
      BY <3>2 DEF GrownBy
  <2>2. s[1] = "to" /\ s[2] = src + c /\ s[3] = len - c
    OBVIOUS
  <2> HIDE DEF c, s
  <2>3. todo'[1] = s
    BY <1>1, <1>8, ThenHead
  <2>4. s[2] \in Nat /\ s[3] \in Nat
    BY <1>3, <2>1, <2>2, SMTT(60)
  <2>5. ASSUME Fitting(passed)
        PROVE  /\ TextAt(st, pdir, ptes, data, pcb, s[2] - Len(t2)) /\ Len(t2) + s[3] = m + 1
               /\ SoFar(t2, pcb, s[2] - Len(t2))
    <3>0. base \in Nat /\ base + n = src
      BY <1>4, <2>5
    <3>1. s[2] - Len(t2) = base /\ Len(t2) + s[3] = n + len
      BY ONLY <1>3, <2>1, <2>2, <3>0
    <3> QED
      BY <1>4, <2>1, <2>5, <3>1
  <2>6. Fetching(todo', pdir, ptes, data, pcb, t2, passed)
    BY <2>2, <2>3, <2>4, <2>5 DEF Fetching, SoFar
  <2>7. Prepared(todo', pdir', ptes', pcb')
    BY <2>2, <2>3 DEF Prepared
  <2>8. StopsOnlyPastTheEnd' /\ DataOK(data') /\ TempOK(temp') /\ pcb' # None
    BY <1>1, <1>2, <1>3, <1>8, <2>1 DEF StopsOnlyPastTheEnd
  <2>9. Fetching(todo', pdir', ptes', data', pcb', temp', passed')
    BY <1>1, <1>8, <2>6
  <2> QED
    BY <2>7, <2>8, <2>9 DEF CopyInv, DataOK
<1> QED
  BY <1>5, <1>6, <1>7, <1>8

(* What physical_addr() finds is a frame. *)
LEMMA FrameFound ==
  ASSUME MemoryInv, NEW p \in spaces, KernelUpTo(pdir, ptes, p, KERNEL_DIRS),
         NEW v \in Nat, DirOf(v) \in Dirs, Frame(pdir[p], ptes, v) # None
  PROVE  Frame(pdir[p], ptes, v) \in Nat /\ Frame(pdir[p], ptes, v) \in AllFrames
<1>1. pdir \in Pdirs /\ p \in Pcbs
  BY DEF MemoryInv, MapType
<1>2. PoolFrames \subseteq Nat /\ KernelFrames \subseteq Nat
  BY ConstantTypes DEF PoolFrames, KernelFrames
<1>3. CASE DirOf(v) \in UserDirs
  BY <1>2, <1>3, UserPage DEF AllFrames
<1>4. CASE DirOf(v) \notin UserDirs
  <2>1. PICK c \in KernelDirs : DirOf(v) = c \/ DirOf(v) = c + KOFFSET
    BY <1>4, KernelDirOf
  <2>2. Frame(pdir[p], ptes, v) \in KernelFrames
    BY <1>1, <2>1, KernelPage
  <2> QED
    BY <1>2, <2>2 DEF AllFrames
<1> QED
  BY <1>3, <1>4

(* A byte of a frame, by its physical address. *)
LEMMA PhysicalByte ==
  ASSUME NEW f \in Nat, f \in DOMAIN data, NEW o \in Nat, o < PAGE_SIZE
  PROVE  Physical(f * PAGE_SIZE + o) = data[f][o] /\ f * PAGE_SIZE \in Nat
<1> PICK n \in Nat \ {0} : n = PAGE_SIZE
  BY ConstantTypes
<1> PICK x : x = f * n + o
  OBVIOUS
<1>1. x \in Nat /\ x = n * f + o /\ o \in 0..(n - 1) /\ f \in Int /\ f * n \in Nat
  OBVIOUS
<1>2. x \div n = f /\ x % n = o
  BY <1>1, QuotientIs
<1> QED
  BY <1>1, <1>2 DEF Physical

\* The bytes strlen_user_string() looks at, and where it finds the first '\0'.
NulsIn(lo, hi) == {x \in lo..hi : Physical(x) = Zero}
LeastOf(S) == CHOOSE x \in S : \A y \in S : x <= y

(* The first of the zeros. *)
LEMMA LeastIs ==
  ASSUME NEW S, S \subseteq Nat, S # {}
  PROVE  LeastOf(S) \in S /\ \A y \in S : LeastOf(S) <= y
<1>1. \E x \in S : \A y \in S : x <= y
  BY LeastElement
<1> QED
  BY <1>1 DEF LeastOf

(* strlen_user_string(): the first turn finds the end of the string, or none
   when the string goes on in a second page. *)
LEMMA FirstTurn ==
  ASSUME MemoryInv, DataOK(data), pcb \in spaces, KernelUpTo(pdir, ptes, pcb, KERNEL_DIRS),
         NEW st, NEW a, TextAt(st, pdir, ptes, data, pcb, a),
         NEW f, f = Frame(pdir[pcb], ptes, PageOf(a)), NEW pa, pa = f * PAGE_SIZE + OffsetOf(a),
         NEW e, e = (f + 1) * PAGE_SIZE, NEW S, S = NulsIn(pa, e - 1)
  PROVE  /\ f # None /\ a \in Addrs /\ Len(st) \in Nat
         /\ S # {} => LeastOf(S) - pa = Len(st)
         /\ S = {} => PAGE_SIZE - OffsetOf(a) <= Len(st)
<1> PICK n : n = Len(st)
  OBVIOUS
<1>1. /\ n \in Nat /\ a \in Nat /\ a + n \in Addrs /\ n <= ARG_BUF
      /\ \A k \in 0..n : IsMapped(pdir, ptes, pcb, a + k)
      /\ \A k \in 1..n : Byte(pdir, ptes, data, pcb, a + k - 1) # Zero
      /\ Byte(pdir, ptes, data, pcb, a + n) = Zero
  BY DEF TextAt
<1>2. a \in Addrs
  <2> PICK M : M = NR_PDE * NR_PTE * PAGE_SIZE - 1
    OBVIOUS
  <2>1. M \in Int
    BY ConstantTypes
  <2>2. a + n \in 0..M
    BY <1>1 DEF Addrs
  <2>3. a \in 0..M
    BY ONLY <1>1, <2>1, <2>2
  <2> QED
    BY <2>3 DEF Addrs
<1>3. f # None
  <2>1. 0 \in 0..n /\ a + 0 = a
    BY <1>1
  <2>2. IsMapped(pdir, ptes, pcb, a)
    BY <1>1, <2>1
  <2> QED
    BY <2>2 DEF IsMapped
<1>4. f \in Nat /\ f \in DOMAIN data
  BY <1>2, <1>3, AnyAddress, FrameFound DEF DataOK
<1> PICK o : o = OffsetOf(a)
  OBVIOUS
<1> PICK P : P = PAGE_SIZE
  OBVIOUS
<1> PICK F : F = f * P
  OBVIOUS
<1>5. o \in Nat /\ P \in Nat /\ o < P
  <2>1. 0 \in Nat
    OBVIOUS
  <2> QED
    BY <1>1, <2>1, ConstantTypes, SamePage
<1>6. F \in Nat /\ pa = F + o /\ e = F + P
  <2>1. F \in Nat /\ (f + 1) * P = F + P
    BY ONLY <1>4, <1>5, F = f * P
  <2> QED
    BY <2>1
<1>7. ASSUME NEW k \in Nat, o + k < P
      PROVE  Physical(pa + k) = Byte(pdir, ptes, data, pcb, a + k)
  <2>1. PageOf(a + k) = PageOf(a) /\ OffsetOf(a + k) = o + k
    BY <1>1, <1>7, SamePage
  <2>2. o + k \in Nat /\ pa + k = F + (o + k)
    BY ONLY <1>5, <1>6, k \in Nat
  <2>3. Physical(f * PAGE_SIZE + (o + k)) = data[f][o + k]
    BY <1>4, <1>7, <2>2, PhysicalByte
  <2> QED
    BY <2>1, <2>2, <2>3 DEF Byte
<1>8. S = {x \in pa..(e - 1) : Physical(x) = Zero} /\ S \subseteq Nat
  BY <1>5, <1>6 DEF NulsIn
<1>9. ASSUME o + n < P
      PROVE  pa + n \in S
  <2>1. Physical(pa + n) = Zero
    BY <1>1, <1>7, <1>9
  <2>2. pa + n \in pa..(e - 1)
    BY ONLY <1>1, <1>5, <1>6, <1>9
  <2> QED
    BY <1>8, <2>1, <2>2
<1>10. ASSUME S # {}
       PROVE  LeastOf(S) - pa = n
  <2> PICK m : m = LeastOf(S)
    OBVIOUS
  <2>1. m \in S /\ \A y \in S : m <= y
    BY <1>8, <1>10, LeastIs
  <2> PICK k : k = m - pa
    OBVIOUS
  <2>2. m \in pa..(e - 1) /\ Physical(m) = Zero
    BY <1>8, <2>1
  <2>3. k \in Nat /\ o + k < P /\ pa + k = m
    BY ONLY <1>5, <1>6, <2>2, k = m - pa
  <2>4. Byte(pdir, ptes, data, pcb, a + k) = Zero
    BY <1>7, <2>2, <2>3
  <2>5. ~(k < n)
    <3> SUFFICES ASSUME k < n
                 PROVE  FALSE
      OBVIOUS
    <3>1. k + 1 \in 1..n /\ a + (k + 1) - 1 = a + k
      BY ONLY <1>1, <2>3, k < n
    <3> QED
      BY <1>1, <2>4, <3>1
  <2>6. ~(k > n)
    <3> SUFFICES ASSUME k > n
                 PROVE  FALSE
      OBVIOUS
    <3>1. o + n < P
      BY ONLY <1>1, <1>5, <2>3, k > n
    <3>2. m <= pa + n
      BY <1>9, <2>1, <3>1
    <3> QED
      BY ONLY <1>1, <1>5, <1>6, <2>3, <3>2, k > n
  <2> QED
    BY <1>1, <2>3, <2>5, <2>6
<1>11. S = {} => P - o <= n
  BY <1>1, <1>5, <1>9
<1> QED
  BY <1>1, <1>2, <1>3, <1>10, <1>11

(* strlen_user_string() counts the bytes of a string in one page with its '\0'. *)
LEMMA StrlenCopies == ASSUME MemoryInv, CopyInv, StrlenUserString PROVE CopyInv'
<1>1. Doing("strlen") /\ ~halted /\ UNCHANGED <<pdir, ptes, spaces, pcb, passed>>
  BY DEF StrlenUserString, Maps, Doing
<1>2. /\ pcb \in Pcbs /\ pcb # None /\ todo[1][1] = "strlen" /\ Head(todo) = todo[1] /\ pcb \in spaces
  BY <1>1, InHand
<1>3. KernelUpTo(pdir, ptes, pcb, KERNEL_DIRS)
  BY <1>2, AllWhole
<1> PICK a : a = todo[1][2]
  OBVIOUS
<1> PICK b : b = todo[1][3]
  OBVIOUS
<1> PICK cnt : cnt = todo[1][4]
  OBVIOUS
<1> PICK st : st = passed.str
  OBVIOUS
<1> PICK f : f = Lookup(pcb, b)
  OBVIOUS
<1> PICK pa : pa = f * PAGE_SIZE + OffsetOf(b)
  OBVIOUS
<1> PICK e : e = IF cnt = 0 THEN (f + 1) * PAGE_SIZE ELSE pa + PAGE_SIZE
  OBVIOUS
<1> PICK S : S = NulsIn(pa, e - 1)
  OBVIOUS
<1> PICK m : m = LeastOf(S)
  OBVIOUS
<1> PICK n : n = Len(st)
  OBVIOUS
<1>4. /\ temp = <<>> /\ a \in Nat /\ b \in Nat /\ cnt \in Nat /\ DataOK(data) /\ TempOK(temp)
      /\ Fitting(passed) => /\ TextAt(st, pdir, ptes, data, pcb, a) /\ PageOf(a) = PageOf(a + n)
                            /\ b = a /\ cnt = 0
  BY <1>2 DEF CopyInv, Fetching, DataOK
<1> DEFINE s1 == <<"to", a, cnt + m - pa + 1>>
           s2 == <<"strlen", a, IF cnt = 0 THEN OffsetOf(a) + PAGE_SIZE ELSE b + PAGE_SIZE, cnt + e - pa>>
<1>5. \/ f = None /\ halted' = TRUE /\ UNCHANGED <<todo, data, temp>>
      \/ f # None /\ S # {} /\ Then(s1) /\ UNCHANGED <<data, temp, halted>>
      \/ f # None /\ S = {} /\ Then(s2) /\ UNCHANGED <<data, temp, halted>>
  BY <1>2, ZenonT(60) DEF StrlenUserString, Arg, NulsIn, LeastOf, Absent
<1>6. ASSUME Fitting(passed)
      PROVE  f # None /\ n \in Nat /\ S # {} /\ m - pa = n
  <2>1. TextAt(st, pdir, ptes, data, pcb, a) /\ PageOf(a) = PageOf(a + n) /\ b = a /\ cnt = 0
    BY <1>4, <1>6
  <2> PICK g : g = Frame(pdir[pcb], ptes, PageOf(a))
    OBVIOUS
  <2> PICK qa : qa = g * PAGE_SIZE + OffsetOf(a)
    OBVIOUS
  <2> PICK qe : qe = (g + 1) * PAGE_SIZE
    OBVIOUS
  <2> PICK T : T = NulsIn(qa, qe - 1)
    OBVIOUS
  <2>2. /\ g # None /\ a \in Addrs /\ n \in Nat
        /\ T # {} => LeastOf(T) - qa = n
        /\ T = {} => PAGE_SIZE - OffsetOf(a) <= n
    BY <1>2, <1>3, <1>4, <2>1, FirstTurn, SMTT(60)
  <2>3. f = g
    BY <2>1, <2>2 DEF Lookup
  <2>4. pa = qa /\ e = qe /\ S = T
    BY <2>1, <2>3
  <2>5. OffsetOf(a) + n < PAGE_SIZE /\ OffsetOf(a) \in Nat /\ PAGE_SIZE \in Nat
    BY <1>4, <2>1, <2>2, SamePage, ConstantTypes
  <2>6. S # {}
    BY <2>2, <2>4, <2>5
  <2> QED
    BY <2>2, <2>3, <2>4, <2>6
<1>7. CASE f = None /\ halted' = TRUE /\ UNCHANGED <<todo, data, temp>>
  <2>1. ~Fitting(passed)
    BY <1>6, <1>7
  <2>2. Head(todo')[1] = "strlen" /\ ~Fitting(passed')
    BY <1>1, <1>2, <1>7, <2>1
  <2>3. StopsOnlyPastTheEnd'
    BY <2>2 DEF StopsOnlyPastTheEnd
  <2>4. Prepared(todo, pdir, ptes, pcb) /\ Fetching(todo, pdir, ptes, data, pcb, temp, passed)
    BY <1>2 DEF CopyInv
  <2>5. DataOK(data') /\ TempOK(temp') /\ pcb' # None
    BY <1>1, <1>2, <1>4, <1>7
  <2>6. Prepared(todo', pdir', ptes', pcb') /\ Fetching(todo', pdir', ptes', data', pcb', temp', passed')
    BY <1>1, <1>7, <2>4
  <2> QED
    BY <2>3, <2>5, <2>6 DEF CopyInv, DataOK
<1>8. ASSUME NEW s, Then(s), UNCHANGED <<data, temp, halted>>, s[1] \in {"to", "strlen"}, s[2] = a, s[3] \in Nat,
             s[1] = "to" => (Fitting(passed) => s[3] = n + 1),
             s[1] = "strlen" => s[4] \in Nat /\ ~Fitting(passed)
      PROVE  CopyInv'
  <2>1. todo'[1] = s
    BY <1>1, <1>8, ThenHead
  <2>2. Len(temp) = 0 /\ s[2] - 0 = a /\ 0 + s[3] = s[3] /\ \A k \in 1..0 : FALSE
    BY <1>4, <1>8
  <2>3. Fetching(todo', pdir, ptes, data, pcb, temp, passed)
    BY <1>4, <1>8, <2>1, <2>2 DEF Fetching
  <2>4. Prepared(todo', pdir', ptes', pcb')
    BY <1>8, <2>1 DEF Prepared
  <2>5. StopsOnlyPastTheEnd' /\ DataOK(data') /\ TempOK(temp') /\ pcb' # None
    BY <1>1, <1>2, <1>4, <1>8 DEF StopsOnlyPastTheEnd
  <2>6. Fetching(todo', pdir', ptes', data', pcb', temp', passed')
    BY <1>1, <1>8, <2>3
  <2> QED
    BY <2>4, <2>5, <2>6 DEF CopyInv, DataOK
<1>9. ASSUME f # None
      PROVE  f \in Nat /\ pa \in Nat /\ e \in Nat /\ pa <= e /\ PAGE_SIZE \in Nat /\ S \subseteq pa..(e - 1)
  <2>1. b \in Addrs /\ f = Frame(pdir[pcb], ptes, PageOf(b))
    BY <1>9 DEF Lookup
  <2>2. PageOf(b) \in Nat /\ DirOf(PageOf(b)) \in Dirs
    BY <2>1, AnyAddress
  <2>3. f \in Nat
    BY <1>2, <1>3, <1>9, <2>1, <2>2, FrameFound
  <2> PICK P \in Nat \ {0} : P = PAGE_SIZE
    BY ConstantTypes
  <2>4. OffsetOf(b) \in Nat /\ OffsetOf(b) < P
    BY <1>4, SamePage
  <2> PICK F : F = f * P
    OBVIOUS
  <2>5. F \in Nat /\ (f + 1) * P = F + P
    BY ONLY <2>3, P \in Nat \ {0}, F = f * P
  <2>6. pa \in Nat /\ e \in Nat /\ pa <= e
    BY <2>4, <2>5, SMTT(60)
  <2> QED
    BY <2>3, <2>6 DEF NulsIn
<1>10. CASE f # None /\ S # {} /\ Then(s1) /\ UNCHANGED <<data, temp, halted>>
  <2>1. S \subseteq Nat
    BY <1>9, <1>10
  <2>2. m \in S
    BY <1>10, <2>1, LeastIs
  <2>3. m \in Nat /\ m >= pa /\ pa \in Nat
    BY <1>9, <1>10, <2>2
  <2>4. cnt + m - pa + 1 \in Nat /\ (Fitting(passed) => cnt + m - pa + 1 = n + 1)
    <3>1. cnt + m - pa + 1 \in Nat
      BY <1>4, <2>3
    <3>2. ASSUME Fitting(passed)
          PROVE  cnt + m - pa + 1 = n + 1
      <4>1. m - pa = n /\ cnt = 0 /\ n \in Nat
        BY <1>4, <1>6, <3>2
      <4> QED
        BY <2>3, <4>1
    <3> QED
      BY <3>1, <3>2
  <2>5. s1[1] = "to" /\ s1[2] = a /\ s1[3] = cnt + m - pa + 1
    OBVIOUS
  <2> HIDE DEF s1
  <2> QED
    BY <1>8, <1>10, <2>4, <2>5
<1>11. CASE f # None /\ S = {} /\ Then(s2) /\ UNCHANGED <<data, temp, halted>>
  <2>1. ~Fitting(passed)
    BY <1>6, <1>11
  <2>2. OffsetOf(a) \in Nat
    BY <1>4, SamePage
  <2>0. pa \in Nat /\ e \in Nat /\ pa <= e /\ PAGE_SIZE \in Nat /\ cnt \in Nat /\ b \in Nat
    BY <1>4, <1>9, <1>11
  <2>3. s2[1] = "strlen" /\ s2[2] = a /\ s2[3] \in Nat /\ s2[4] = cnt + e - pa
    BY ONLY <2>0, <2>2 DEF s2
  <2>4. cnt + e - pa \in Nat
    BY ONLY <2>0
  <2> HIDE DEF s2
  <2> QED
    BY <1>8, <1>11, <2>1, <2>3, <2>4
<1> QED
  BY <1>5, <1>7, <1>10, <1>11

SameBytes(pd, pt, dt, dt2, p, a, n) ==
  \A k \in 0..n : Byte(pd, pt, dt2, p, a + k) = Byte(pd, pt, dt, p, a + k)

(* A string stays what it is while its bytes do. *)
LEMMA TextKept ==
  ASSUME NEW st, NEW pd, NEW pt, NEW dt, NEW dt2, NEW p, NEW a, TextAt(st, pd, pt, dt, p, a),
         \A x \in Addrs : Byte(pd, pt, dt2, p, x) = Byte(pd, pt, dt, p, x)
  PROVE  /\ TextAt(st, pd, pt, dt2, p, a) /\ Len(st) \in Nat
         /\ SameBytes(pd, pt, dt, dt2, p, a, Len(st))
<1> PICK n : n = Len(st)
  OBVIOUS
<1>1. n \in Nat /\ a \in Nat /\ a + n \in Addrs
  BY DEF TextAt
<1> PICK M : M = NR_PDE * NR_PTE * PAGE_SIZE - 1
  OBVIOUS
<1>2. M \in Int
  BY ConstantTypes
<1>3. a + n \in 0..M
  BY <1>1 DEF Addrs
<1>4. \A k \in 0..n : a + k \in 0..M
  BY ONLY <1>1, <1>2, <1>3
<1>5. \A k \in 0..n : a + k \in Addrs
  BY <1>4 DEF Addrs
<1>6. \A k \in 0..n : Byte(pd, pt, dt2, p, a + k) = Byte(pd, pt, dt, p, a + k)
  BY <1>5
<1>7. ASSUME NEW k \in 1..n
      PROVE  Byte(pd, pt, dt2, p, a + k - 1) = Byte(pd, pt, dt, p, a + k - 1)
  <2>1. k - 1 \in 0..n
    BY <1>1
  <2> QED
    BY <1>6, <2>1
<1>8. n \in 0..n
  BY <1>1
<1> QED
  BY <1>1, <1>6, <1>7, <1>8 DEF TextAt, SameBytes

(* A process that writes changes nothing of the string of another. *)
LEMMA WriteCopies == ASSUME UserWrites, MemoryInv, CopyInv, NEW p \in Pcbs, NEW a \in WriteAddrs, Write(p, a) PROVE CopyInv'
<1>1. /\ p \in spaces /\ ~Sleeping(p) /\ ~halted /\ UNCHANGED <<pdir, ptes, todo, spaces, pcb, temp, passed, halted>>
  BY DEF Write, Rest
<1> PICK v : v = PageOf(a)
  OBVIOUS
<1> PICK f : f = Frame(pdir[p], ptes, v)
  OBVIOUS
<1>2. f # None /\ data' = [data EXCEPT ![f][OffsetOf(a)] = Stored]
  BY DEF Write
<1>3. v \in Nat /\ DirOf(v) \in UserDirs
  BY AddressAssumption, AnyAddress DEF UserWrites
<1>4. f \in PoolFrames
  BY <1>1, <1>2, <1>3, UserPage
<1> PICK new : new = [data[f] EXCEPT ![OffsetOf(a)] = Stored]
  OBVIOUS
<1>5. data' = [data EXCEPT ![f] = new]
  BY <1>2
<1>6. DataOK(data) /\ TempOK(temp)
  BY DEF CopyInv, DataOK
<1>7. DataOK([data EXCEPT ![f] = new])
  BY <1>4, <1>6, PoolFilled
<1>8. DataOK(data')
  BY <1>5, <1>7
<1>9. \A x : x # f => data'[x] = data[x]
  BY <1>5
<1>10. StopsOnlyPastTheEnd' /\ TempOK(temp') /\ (pcb = None => temp' = <<>>)
  BY <1>1, <1>6 DEF CopyInv, StopsOnlyPastTheEnd
<1>11. ASSUME pcb # None
       PROVE  Prepared(todo', pdir', ptes', pcb') /\ Fetching(todo', pdir', ptes', data', pcb', temp', passed')
  <2>1. Prepared(todo, pdir, ptes, pcb) /\ Fetching(todo, pdir, ptes, data, pcb, temp, passed)
    BY <1>11 DEF CopyInv
  <2>2. Prepared(todo', pdir', ptes', pcb')
    BY <1>1, <2>1
  <2>3. p # pcb /\ todo # <<>> /\ TodoOK(todo)
    BY <1>1, <1>11 DEF Sleeping, MemoryInv
  <2>4. CASE todo[1][1] \notin {"strlen", "to"}
    <3>1. Fetching(todo', pdir', ptes', data', pcb', temp', passed')
      BY <1>1, <2>4 DEF Fetching
    <3> QED
      BY <2>2, <3>1
  <2>5. CASE todo[1][1] \in {"strlen", "to"}
    <3>1. pcb \in spaces /\ KernelUpTo(pdir, ptes, pcb, KERNEL_DIRS)
      <4>1. pcb \in spaces
        BY <1>11, <2>5 DEF MemoryInv, Ready
      <4> QED
        BY <2>5, <4>1, AllWhole
    <3>2. ASSUME NEW x \in Addrs
          PROVE  Byte(pdir, ptes, data', pcb, x) = Byte(pdir, ptes, data, pcb, x)
      <4> PICK w : w = PageOf(x)
        OBVIOUS
      <4>1. w \in Nat /\ DirOf(w) \in Dirs
        BY AnyAddress
      <4>2. Frame(pdir[pcb], ptes, w) # f
        BY <1>1, <1>2, <1>3, <2>3, <3>1, <4>1, ForeignFrame
      <4> QED
        BY <1>9, <4>2 DEF Byte
    <3> PICK dt2 : dt2 = data'
      OBVIOUS
    <3> PICK pd : pd = pdir
      OBVIOUS
    <3> PICK pt : pt = ptes
      OBVIOUS
    <3> PICK dt : dt = data
      OBVIOUS
    <3> PICK q : q = pcb
      OBVIOUS
    <3> PICK td : td = todo
      OBVIOUS
    <3> PICK tm : tm = temp
      OBVIOUS
    <3> PICK ps : ps = passed
      OBVIOUS
    <3>3. /\ \A x \in Addrs : Byte(pd, pt, dt2, q, x) = Byte(pd, pt, dt, q, x)
          /\ Fetching(td, pd, pt, dt, q, tm, ps) /\ TempOK(tm)
      BY <1>6, <2>1, <3>2
    <3>4. Fetching(td, pd, pt, dt2, q, tm, ps)
      <4>1. ASSUME td[1][1] = "strlen", Fitting(ps)
            PROVE  TextAt(ps.str, pd, pt, dt2, q, td[1][2])
        <5>1. TextAt(ps.str, pd, pt, dt, q, td[1][2])
          BY <3>3, <4>1 DEF Fetching
        <5> QED
          BY ONLY <3>3, <5>1, TextKept
      <4>2. ASSUME td[1][1] = "to", Fitting(ps)
            PROVE  /\ TextAt(ps.str, pd, pt, dt2, q, td[1][2] - Len(tm))
                   /\ \A k \in 1..Len(tm) : tm[k] = Byte(pd, pt, dt2, q, td[1][2] - Len(tm) + k - 1)
        <5> PICK n : n = Len(tm)
          OBVIOUS
        <5> PICK m : m = Len(ps.str)
          OBVIOUS
        <5> PICK b : b = td[1][2] - n
          OBVIOUS
        <5> PICK l : l = td[1][3]
          OBVIOUS
        <5>1. /\ TextAt(ps.str, pd, pt, dt, q, b) /\ l \in Nat /\ n + l = m + 1 /\ n \in Nat /\ b \in Nat
              /\ \A k \in 1..n : tm[k] = Byte(pd, pt, dt, q, b + k - 1)
          BY <3>3, <4>2 DEF Fetching, TempOK, TextAt
        <5>2. /\ TextAt(ps.str, pd, pt, dt2, q, b) /\ m \in Nat
              /\ \A k \in 0..m : Byte(pd, pt, dt2, q, b + k) = Byte(pd, pt, dt, q, b + k)
          <6> PICK st : st = ps.str
            OBVIOUS
          <6>1. TextAt(st, pd, pt, dt, q, b)
            BY <5>1
          <6>2. TextAt(st, pd, pt, dt2, q, b) /\ Len(st) \in Nat
            BY ONLY <3>3, <6>1, TextKept
          <6>3. SameBytes(pd, pt, dt, dt2, q, b, Len(st))
            BY ONLY <3>3, <6>1, TextKept
          <6> QED
            BY ONLY <6>2, <6>3, st = ps.str, m = Len(ps.str) DEF SameBytes
        <5>3. ASSUME NEW k \in 1..n
              PROVE  tm[k] = Byte(pd, pt, dt2, q, b + k - 1)
          <6>1. k - 1 \in 0..m
            BY ONLY <5>1, <5>2, k \in 1..n
          <6>2. Byte(pd, pt, dt2, q, b + (k - 1)) = Byte(pd, pt, dt, q, b + (k - 1))
            BY <5>2, <6>1
          <6> QED
            BY <5>1, <6>2
        <5> QED
          BY <5>2, <5>3
      <4> QED
        BY <3>3, <4>1, <4>2 DEF Fetching
    <3>5. Fetching(todo', pdir', ptes', data', pcb', temp', passed')
      BY <1>1, <3>4
    <3> QED
      BY <2>2, <3>5
  <2> QED
    BY <2>4, <2>5
<1> QED
  BY <1>1, <1>8, <1>10, <1>11 DEF CopyInv, DataOK

(* At the beginning nothing has been written. *)
LEMMA CopyInit == ASSUME MInit PROVE CopyInv
<1>1. DataOK(data)
  <2>1. data = Boot
    BY DEF MInit
  <2>2. data = [f \in AllFrames |-> data[f]]
    BY <2>1, BootAssumption DEF AllFrames
  <2> QED
    BY <2>1, <2>2 DEF DataOK, KernelBoot
<1>2. TempOK(temp) /\ temp = <<>>
  BY ArgTypes, EmptySeq DEF TempOK, MInit
<1>3. pcb = None /\ StopsOnlyPastTheEnd
  BY DEF MInit, StopsOnlyPastTheEnd
<1> QED
  BY <1>1, <1>2, <1>3 DEF CopyInv, DataOK

(* The copies of load_program() and exec() find the pages they need, in every
   state, and leave the kernel alone, as long as the processes do. *)
THEOREM CopiesHold == ASSUME UserWrites PROVE MSpec => []CopyInv
<1>1. MInit => CopyInv
  BY CopyInit
<1>2. MemoryInv /\ CopyInv /\ [MNext]_mvars => CopyInv'
  <2> SUFFICES ASSUME MemoryInv, CopyInv, [MNext]_mvars
               PROVE  CopyInv'
    OBVIOUS
  <2>1. CASE Requests
    BY <2>1, RequestCopies
  <2>2. CASE Steps
    BY <2>2, QuietSteps, TableCopies, StackCopies, LoadSegmentCopies, FirstPageCopies, NextPageCopies,
       LastPageCopies, CopyPageQuiet, StrlenCopies, CopyToKernelCopies, CopyFromKernelCopies,
       PlaceArgsCopies, AnswerQuiet DEF Steps
  <2>3. CASE \E p \in Pcbs, a \in WriteAddrs : Write(p, a)
    BY <2>3, WriteCopies
  <2>4. CASE UNCHANGED mvars
    BY <2>4 DEF mvars, CopyInv, StopsOnlyPastTheEnd
  <2> QED
    BY <2>1, <2>2, <2>3, <2>4 DEF MNext
<1> QED
  BY <1>1, <1>2, MemoryHolds, PTL DEF MSpec

(* As long as processes do not write to it at KOFFSET, the memory of the kernel is
   what it was but for the three bytes of exec(), and every process that may run
   has it mapped, low and at KOFFSET. *)
THEOREM KernelStaysIntact == ASSUME UserWrites PROVE MSpec => []KernelIntact
<1>1. MemoryInv /\ CopyInv => KernelIntact
  <2> SUFFICES ASSUME MemoryInv, CopyInv
               PROVE  KernelIntact
    OBVIOUS
  <2>1. \A f \in KernelFrames, o \in Offsets : data[f][o] # Boot[f][o] => f = 0 /\ o < 3
    BY DEF CopyInv, KernelBoot
  <2>2. \A p \in spaces \ {pcb} : KernelUpTo(pdir, ptes, p, KERNEL_DIRS)
    BY DEF MemoryInv, Whole
  <2>3. \A p \in spaces \ {pcb} : \A d \in KernelDirs :
          /\ pdir[p][d] # None /\ pdir[p][d + KOFFSET] = pdir[p][d]
          /\ ptes[pdir[p][d]] = [e \in Entries |-> d * NR_PTE + e]
    BY <2>2 DEF KernelUpTo, KernelDirs
  <2> QED
    BY <2>1, <2>3 DEF KernelIntact
<1> QED
  BY <1>1, MemoryHolds, CopiesHold, PTL

(* Under the same hypothesis, and with arguments that are mapped, in one page and
   not longer than buf[], an assertion of physical_addr() fails only for the byte
   behind what has been copied, and only where a page begins; other arguments can
   stop the kernel only while they are fetched. *)
THEOREM StopsPastTheEnd == ASSUME UserWrites PROVE MSpec => []StopsOnlyPastTheEnd
<1>1. CopyInv => StopsOnlyPastTheEnd
  BY DEF CopyInv
<1> QED
  BY <1>1, CopiesHold, PTL
-----------------------------------------------------------------------------
(* The arguments of exec(). *)

\* Byte k of the string with its end.
TextOf(st, k) == IF k <= Len(st) THEN st[k] ELSE Zero

IsText(st) == st \in Seq(ToSet(st)) /\ Len(st) <= ARG_BUF /\ \A k \in 1..Len(st) : st[k] # Zero

\* The string has been fetched, with its end, and without it.
HasText(tm, st) == Len(tm) = Len(st) + 1 /\ \A k \in 1..(Len(st) + 1) : tm[k] = TextOf(st, k)
Kept(tm, st)    == Len(tm) = Len(st) /\ \A k \in 1..Len(st) : tm[k] = st[k]

\* The string is on the stack, in front of address to.
Arrived(pd, pt, dt, p, st, to) ==
  \A k \in 1..(Len(st) + 1) : LET x == NewArgs(Len(st)) + k - 1
    IN x < to => Byte(pd, pt, dt, p, x) = TextOf(st, k)

\* The step s copies the rest of it.
Placing(s, pd, pt, dt, p, st) ==
  /\ s[1] = "from" /\ s[2] >= NewArgs(Len(st)) - 4 /\ s[2] + Len(s[3]) = NewArgs(Len(st)) + Len(st) + 1
  /\ Arrived(pd, pt, dt, p, st, s[2])
  /\ \A k \in 1..(Len(st) + 1) : LET x == NewArgs(Len(st)) + k - 1
       IN x >= s[2] => s[3][x - s[2] + 1] = TextOf(st, k)

\* exec() has the placing of the arguments before it.
Ahead(td) == Len(td) > 1 /\ td[Len(td) - 1][1] = "args"

\* Where the string is while exec() goes on.
OnItsWay(td, sp, pd, pt, dt, p, tm, st) ==
  \/ Ahead(td) /\ (td[1][1] \notin {"strlen", "to"} => Kept(tm, st))
  \/ Len(td) = 2 /\ p \in sp /\ Placing(td[1], pd, pt, dt, p, st)
  \/ Len(td) = 1 /\ p \in sp /\ Arrived(pd, pt, dt, p, st, NewArgs(Len(st)) + Len(st) + 1)

ArgInv ==
  pcb # None /\ passed.opened /\ Fitting(passed) =>
    IsText(passed.str) /\ OnItsWay(todo, spaces, pdir, ptes, data, pcb, temp, passed.str)

(* The steps behind the first stay, whatever takes its place. *)
LEMMA BehindFirst ==
  ASSUME NEW td, td \in Seq(ToSet(td)), Ahead(td), td[1][1] # "args", NEW R, NEW X \in Seq(R)
  PROVE  Ahead(X \o Tail(td))
<1> PICK t : t = Tail(td)
  OBVIOUS
<1> PICK n : n = Len(td)
  OBVIOUS
<1> PICK S : S = ToSet(td)
  OBVIOUS
<1>1. n \in Nat /\ n > 1 /\ td[n - 1][1] = "args"
  BY DEF Ahead
<1>2. n - 1 # 1
  BY <1>1
<1>3. t \in Seq(S) /\ Len(t) = n - 1 /\ \A k \in 1..Len(t) : t[k] = td[k + 1]
  BY <1>1
<1> PICK T : T = S \cup R
  OBVIOUS
<1> PICK m : m = Len(X)
  OBVIOUS
<1> PICK u : u = X \o t
  OBVIOUS
<1>4. X \in Seq(T) /\ t \in Seq(T) /\ m \in Nat
  BY <1>3
<1>5. u \in Seq(T) /\ Len(u) = m + Len(t)
      /\ \A k \in 1..(m + Len(t)) : u[k] = IF k <= m THEN X[k] ELSE t[k - m]
  BY ONLY <1>4, m = Len(X), u = X \o t, ConcatProperties, Zenon
<1> PICK l : l = Len(u)
  OBVIOUS
<1>6. l = m + (n - 1) /\ l > 1 /\ l - 1 \in 1..(m + Len(t)) /\ ~(l - 1 <= m) /\ (l - 1) - m = n - 2 /\ n - 2 \in 1..Len(t)
      /\ (n - 2) + 1 = n - 1
  BY <1>1, <1>2, <1>3, <1>4, <1>5
<1>7. u[l - 1] = t[n - 2]
  BY <1>5, <1>6
<1>8. t[n - 2] = td[n - 1]
  BY <1>3, <1>6
<1> QED
  BY <1>1, <1>6, <1>7, <1>8 DEF Ahead

(* A step that is not the placing of the arguments leaves that ahead. *)
LEMMA AheadStep ==
  ASSUME MemoryInv, NEW op, Doing(op), op # "args", Ahead(todo), Done \/ \E s : Then(s)
  PROVE  Ahead(todo')
<1>1. TodoOK(todo) /\ todo[1][1] = op
  BY InHand
<1>2. todo \in Seq(ToSet(todo)) /\ todo[1][1] # "args"
  BY <1>1 DEF TodoOK, Fits
<1>3. ASSUME NEW s, Then(s)
      PROVE  Ahead(todo')
  <2> PICK X : X = <<s>>
    OBVIOUS
  <2>1. X \in Seq({s})
    OBVIOUS
  <2>2. Ahead(X \o Tail(todo))
    BY <1>2, <2>1, BehindFirst
  <2>3. todo' = X \o Tail(todo)
    BY <1>3 DEF Then
  <2> QED
    BY <2>2, <2>3
<1>4. ASSUME Done
      PROVE  Ahead(todo')
  <2> PICK X : X = <<>>
    OBVIOUS
  <2>1. X \in Seq({})
    OBVIOUS
  <2>2. Ahead(X \o Tail(todo))
    BY <1>2, <2>1, BehindFirst
  <2>3. Tail(todo) \in Seq(ToSet(todo))
    BY <1>2 DEF Ahead
  <2>4. X \o Tail(todo) = Tail(todo)
    <3> PICK t : t = Tail(todo)
      OBVIOUS
    <3> PICK S : S = ToSet(todo)
      OBVIOUS
    <3>1. t \in Seq(S)
      BY <2>3
    <3>2. <<>> \o t = t
      BY ONLY <3>1
    <3> QED
      BY <3>2
  <2>5. todo' = X \o Tail(todo)
    BY <1>4, <2>4 DEF Done
  <2> QED
    BY <2>2, <2>5
<1> QED
  BY <1>3, <1>4

\* A step of exec() that leaves the string where it is.
OtherSteps == {"clear", "kernel", "table", "stack", "load", "first", "next", "copy_table", "copy", "takeback"}

(* Before the arguments are placed nothing happens to the string in the kernel. *)
LEMMA StillKept ==
  ASSUME MemoryInv, ArgInv, NEW op \in OtherSteps, Doing(op), UNCHANGED <<pcb, passed, temp>>,
         Ahead(todo) => Ahead(todo')
  PROVE  ArgInv'
<1> SUFFICES ASSUME pcb # None, passed.opened, Fitting(passed)
             PROVE  IsText(passed.str) /\ OnItsWay(todo', spaces', pdir', ptes', data', pcb, temp, passed.str)
  BY DEF ArgInv
<1>1. IsText(passed.str) /\ OnItsWay(todo, spaces, pdir, ptes, data, pcb, temp, passed.str)
  BY DEF ArgInv
<1>2. TodoOK(todo) /\ todo[1][1] = op /\ op \notin {"strlen", "to", "from", "answer"}
  BY InHand DEF OtherSteps
<1>3. Len(todo) # 1
  BY <1>2 DEF TodoOK
<1>4. Ahead(todo) /\ Kept(temp, passed.str)
  BY <1>1, <1>2, <1>3 DEF OnItsWay, Placing
<1> QED
  BY <1>1, <1>4 DEF OnItsWay

(* The steps of takeback_page(), load_program() and copy_process(). *)
LEMMA OtherArgs ==
  ASSUME MemoryInv, ArgInv, Clear \/ Kernel \/ Table \/ Stack \/ FirstPage \/ NextPage \/ LastPage
                            \/ CopyTable \/ CopyPage \/ Takeback
  PROVE  ArgInv'
<1>1. UNCHANGED <<pcb, passed, temp>>
  BY DEF Clear, Kernel, Table, Stack, FirstPage, NextPage, LastPage, CopyTable, CopyPage, Takeback, Rest
<1>2. \E op \in OtherSteps : Doing(op) /\ op # "args"
  BY DEF Clear, Kernel, Table, Stack, FirstPage, NextPage, LastPage, CopyTable, CopyPage, Takeback, OtherSteps
<1>3. Done \/ \E s : Then(s)
  <2>1. CASE Clear \/ Table \/ FirstPage \/ LastPage \/ Takeback
    BY <2>1 DEF Clear, Table, FirstPage, LastPage, Takeback
  <2>2. CASE Kernel
    BY <2>2 DEF Kernel, Loop
  <2>3. CASE Stack
    BY <2>3 DEF Stack, Loop
  <2>4. CASE NextPage
    BY <2>4 DEF NextPage
  <2>5. CASE CopyTable
    BY <2>5 DEF CopyTable
  <2>6. CASE CopyPage
    BY <2>6 DEF CopyPage, NextEntry
  <2> QED
    BY <2>1, <2>2, <2>3, <2>4, <2>5, <2>6
<1>4. PICK op \in OtherSteps : Doing(op) /\ op # "args"
  BY <1>2
<1>5. Ahead(todo) => Ahead(todo')
  BY <1>3, <1>4, AheadStep
<1> QED
  BY <1>1, <1>4, <1>5, StillKept

(* load_program() puts the steps of a segment in front. *)
LEMMA LoadArgs == ASSUME MemoryInv, ArgInv, LoadSegment PROVE ArgInv'
<1>1. Doing("load") /\ UNCHANGED <<pcb, passed, temp>> /\ "load" \in OtherSteps
  BY DEF LoadSegment, Rest, OtherSteps
<1>2. TodoOK(todo) /\ todo[1][1] = "load"
  BY <1>1, InHand
<1>3. \/ Done
      \/ \E s : Then(s)
      \/ todo' = SegmentSteps(Arg(2), Programs[Arg(2)][Arg(3)]) \o << <<"load", Arg(2), Arg(3) + 1>> >> \o Tail(todo)
  BY DEF LoadSegment
<1>4. ASSUME Ahead(todo)
      PROVE  Ahead(todo')
  <2>1. CASE Done \/ \E s : Then(s)
    BY <1>1, <1>4, <2>1, AheadStep
  <2>2. CASE todo' = SegmentSteps(Arg(2), Programs[Arg(2)][Arg(3)]) \o << <<"load", Arg(2), Arg(3) + 1>> >> \o Tail(todo)
    <3> PICK X : X = SegmentSteps(Arg(2), Programs[Arg(2)][Arg(3)]) \o << <<"load", Arg(2), Arg(3) + 1>> >>
      OBVIOUS
    <3>1. \E R : X \in Seq(R)
      <4> PICK a, b, c, d : X = <<a, b, c>> \o <<d>>
        BY DEF SegmentSteps
      <4> PICK R : R = {a, b, c, d}
        OBVIOUS
      <4> PICK g : g = <<a, b, c>>
        OBVIOUS
      <4> PICK h : h = <<d>>
        OBVIOUS
      <4>0. g \in Seq(R) /\ h \in Seq(R)
        BY ONLY g = <<a, b, c>>, h = <<d>>, R = {a, b, c, d}
      <4>1. g \in Seq(R) /\ h \in Seq(R) /\ X = g \o h
        BY ONLY <4>0, X = <<a, b, c>> \o <<d>>, g = <<a, b, c>>, h = <<d>>, Zenon
      <4>2. X \in Seq(R)
        BY ONLY <4>1, ConcatProperties, Zenon
      <4> QED
        BY <4>2
    <3>2. todo' = X \o Tail(todo)
      BY <2>2
    <3>3. todo \in Seq(ToSet(todo)) /\ todo[1][1] # "args"
      BY <1>2 DEF TodoOK, Fits
    <3> PICK R : X \in Seq(R)
      BY <3>1
    <3>4. Ahead(X \o Tail(todo))
      BY <1>4, <3>3, BehindFirst
    <3> QED
      BY <3>2, <3>4
  <2> QED
    BY <1>3, <2>1, <2>2
<1> QED
  BY <1>1, <1>4, StillKept

(* strlen_user_string() goes on, or copy_to_kernel() follows. *)
LEMMA StrlenArgs == ASSUME MemoryInv, CopyInv, ArgInv, StrlenUserString PROVE ArgInv'
<1>1. Doing("strlen") /\ UNCHANGED <<pcb, passed, pdir, ptes, spaces, temp, data>>
  BY DEF StrlenUserString, Maps, Absent
<1> SUFFICES ASSUME pcb # None, passed.opened, Fitting(passed)
             PROVE  IsText(passed.str) /\ OnItsWay(todo', spaces, pdir, ptes, data, pcb, temp, passed.str)
  BY <1>1 DEF ArgInv
<1>2. IsText(passed.str) /\ OnItsWay(todo, spaces, pdir, ptes, data, pcb, temp, passed.str)
  BY DEF ArgInv
<1>3. TodoOK(todo) /\ todo[1][1] = "strlen"
  BY <1>1, InHand
<1>4. Ahead(todo)
  BY <1>2, <1>3 DEF OnItsWay, Placing, TodoOK
<1>5. \/ todo' = todo
      \/ \E s : Then(s) /\ s[1] \in {"to", "strlen"}
  <2> PICK str : str = Arg(2)
    OBVIOUS
  <2> PICK x, y : Then(<<"to", str, x>>) \/ Then(<<"strlen", str, x, y>>) \/ todo' = todo
    BY DEF StrlenUserString, Absent
  <2> PICK s : (Then(s) /\ (s = <<"to", str, x>> \/ s = <<"strlen", str, x, y>>)) \/ todo' = todo
    OBVIOUS
  <2>1. s = <<"to", str, x>> => s[1] = "to"
    OBVIOUS
  <2>2. s = <<"strlen", str, x, y>> => s[1] = "strlen"
    OBVIOUS
  <2> QED
    BY <2>1, <2>2
<1>6. CASE todo' = todo
  BY <1>2, <1>6
<1>7. CASE \E s : Then(s) /\ s[1] \in {"to", "strlen"}
  <2> PICK s : Then(s) /\ s[1] \in {"to", "strlen"}
    BY <1>7
  <2>1. todo'[1] = s
    BY <1>1, ThenHead
  <2>2. Ahead(todo')
    BY <1>1, <1>4, AheadStep
  <2> QED
    BY <1>2, <2>1, <2>2 DEF OnItsWay
<1> QED
  BY <1>5, <1>6, <1>7

BytesAt(tm, pd, pt, dt, p, b) == \A k \in 1..Len(tm) : tm[k] = Byte(pd, pt, dt, p, b + k - 1)

(* copy_to_kernel() of the whole string. *)
LEMMA FetchedText ==
  ASSUME NEW tm, NEW st, NEW pd, NEW pt, NEW dt, NEW p, NEW b, TextAt(st, pd, pt, dt, p, b), Len(tm) = Len(st) + 1,
         BytesAt(tm, pd, pt, dt, p, b)
  PROVE  HasText(tm, st)
<1> USE DEF BytesAt
<1> PICK n : n = Len(st)
  OBVIOUS
<1>1. n \in Nat /\ b \in Nat
  BY DEF TextAt
<1> SUFFICES ASSUME NEW k \in 1..(n + 1)
             PROVE  tm[k] = TextOf(st, k)
  BY DEF HasText
<1>2. tm[k] = Byte(pd, pt, dt, p, b + k - 1)
  OBVIOUS
<1>3. CASE k <= n
  <2>1. k \in 1..n
    BY <1>1, <1>3
  <2> QED
    BY <1>2, <2>1, <1>3 DEF TextAt, TextOf
<1>4. CASE ~(k <= n)
  <2>1. k = n + 1 /\ b + k - 1 = b + n
    BY <1>1, <1>4
  <2> QED
    BY <1>2, <1>4, <2>1 DEF TextAt, TextOf
<1> QED
  BY <1>3, <1>4

(* strlen() finds the end of the string. *)
LEMMA TextIsKept ==
  ASSUME NEW st, IsText(st), TempOK(temp), HasText(temp, st), NEW s \in ArgStrings
  PROVE  Kept(s, st)
<1> PICK n : n = Len(st)
  OBVIOUS
<1> PICK m : m = Len(s)
  OBVIOUS
<1>1. n \in Nat
  BY DEF IsText
<1>2. /\ m \in Nat
      /\ TempEnds # {} => /\ m + 1 \in TempEnds /\ \A j \in TempEnds : m + 1 <= j
                          /\ \A k \in 1..m : s[k] = temp[k]
  BY ArgStringsAre
<1>3. Len(temp) = n + 1 /\ DOMAIN temp = 1..(n + 1) /\ \A k \in 1..(n + 1) : temp[k] = TextOf(st, k)
  BY DEF HasText, TempOK
<1>4. n + 1 \in TempEnds
  <2>1. n + 1 \in 1..(n + 1) /\ ~(n + 1 <= n)
    BY <1>1
  <2>2. temp[n + 1] = Zero
    BY <1>3, <2>1 DEF TextOf
  <2> QED
    BY <1>3, <2>1, <2>2 DEF TempEnds
<1>5. m + 1 \in 1..(n + 1) /\ temp[m + 1] = Zero
  BY <1>2, <1>3, <1>4 DEF TempEnds
<1>6. ~(m + 1 <= n)
  <2> SUFFICES ASSUME m + 1 <= n
               PROVE  FALSE
    OBVIOUS
  <2>1. m + 1 \in 1..n
    BY <1>1, <1>2, <1>5
  <2>2. TextOf(st, m + 1) = st[m + 1]
    BY DEF TextOf
  <2> QED
    BY <1>3, <1>5, <2>1, <2>2 DEF IsText
<1>7. m = n
  BY <1>1, <1>2, <1>5, <1>6
<1>8. ASSUME NEW k \in 1..n
      PROVE  s[k] = st[k]
  <2>1. k \in 1..(n + 1) /\ k <= n
    BY <1>1
  <2>2. s[k] = temp[k]
    BY <1>2, <1>4, <1>7
  <2>3. temp[k] = TextOf(st, k)
    BY <1>3, <2>1
  <2> QED
    BY <2>1, <2>2, <2>3 DEF TextOf
<1> QED
  BY <1>7, <1>8 DEF Kept

(* copy_to_kernel() goes on, or the string has been fetched. *)
LEMMA CopyToKernelArgs == ASSUME MemoryInv, CopyInv, ArgInv, CopyToKernel PROVE ArgInv'
<1>1. Doing("to") /\ UNCHANGED <<pcb, passed, pdir, ptes, spaces, data>>
  BY DEF CopyToKernel, Maps, Absent, Overrun
<1> SUFFICES ASSUME pcb # None, passed.opened, Fitting(passed)
             PROVE  IsText(passed.str) /\ OnItsWay(todo', spaces, pdir, ptes, data, pcb, temp', passed.str)
  BY <1>1 DEF ArgInv
<1>2. IsText(passed.str) /\ OnItsWay(todo, spaces, pdir, ptes, data, pcb, temp, passed.str)
  BY DEF ArgInv
<1>3. TodoOK(todo) /\ todo[1][1] = "to" /\ Head(todo) = todo[1]
  BY <1>1, InHand
<1>4. Ahead(todo)
  BY <1>2, <1>3, SMTT(60) DEF OnItsWay, Placing, TodoOK
<1>5. \/ todo' = todo /\ temp' = temp
      \/ Done /\ todo[1][3] = 0 /\ temp' \in ArgStrings
      \/ \E x, y : Then(<<"to", x, y>>)
  BY <1>3 DEF CopyToKernel, Absent, Overrun, Arg
<1>6. CASE todo' = todo /\ temp' = temp
  BY <1>2, <1>6
<1>7. CASE Done /\ todo[1][3] = 0 /\ temp' \in ArgStrings
  <2> PICK st : st = passed.str
    OBVIOUS
  <2> PICK b : b = todo[1][2] - Len(temp)
    OBVIOUS
  <2>1. Fetching(todo, pdir, ptes, data, pcb, temp, passed) /\ Len(temp) \in Nat /\ TempOK(temp)
    BY DEF CopyInv, TempOK
  <2>2. /\ TextAt(st, pdir, ptes, data, pcb, b) /\ Len(temp) + 0 = Len(st) + 1
        /\ BytesAt(temp, pdir, ptes, data, pcb, b)
    BY <1>3, <1>7, <2>1 DEF Fetching, BytesAt
  <2> PICK tm : tm = temp
    OBVIOUS
  <2> PICK n : n = Len(tm)
    OBVIOUS
  <2>3. n \in Nat /\ n + 0 = Len(st) + 1
    BY <2>1, <2>2
  <2>4. n = Len(st) + 1
    BY <2>3
  <2>5. HasText(tm, st)
    BY <2>2, <2>4, FetchedText
  <2>6. Ahead(todo')
    BY <1>1, <1>4, <1>7, AheadStep
  <2> PICK t2 \in ArgStrings : t2 = temp'
    BY <1>7
  <2>7. Kept(t2, st)
    BY <1>2, <2>1, <2>5, TextIsKept
  <2> QED
    BY <1>2, <2>6, <2>7 DEF OnItsWay
<1>8. CASE \E x, y : Then(<<"to", x, y>>)
  <2> PICK x, y : Then(<<"to", x, y>>)
    BY <1>8
  <2> PICK s : s = <<"to", x, y>>
    OBVIOUS
  <2>0. Then(s) /\ s[1] = "to"
    OBVIOUS
  <2>1. todo'[1] = s
    BY <1>1, <2>0, ThenHead
  <2>2. Ahead(todo')
    BY <1>1, <1>4, <2>0, AheadStep
  <2> QED
    BY <1>2, <2>0, <2>1, <2>2 DEF OnItsWay
<1> QED
  BY <1>5, <1>6, <1>7, <1>8

(* Then: as many steps are left. *)
LEMMA ThenLength ==
  ASSUME MemoryInv, NEW op, Doing(op), NEW s, Then(s)
  PROVE  Len(todo') = Len(todo)
<1>1. TodoOK(todo)
  BY InHand
<1> DEFINE S == ToSet(todo)
           t == Tail(todo)
<1>2. todo \in Seq(S) /\ Len(todo) > 0 /\ Len(todo) \in Nat
  BY <1>1 DEF TodoOK, Fits
<1> HIDE DEF S
<1>3. t \in Seq(S) /\ Len(t) = Len(todo) - 1
  BY <1>2
<1> HIDE DEF t
<1>4. todo' = <<s>> \o t
  BY DEF Then, t
<1> PICK T : T = S \cup {s}
  OBVIOUS
<1> PICK h : h = <<s>>
  OBVIOUS
<1> PICK u : u = todo'
  OBVIOUS
<1>5. t \in Seq(T) /\ h \in Seq(T) /\ Len(h) = 1 /\ u = h \o t
  BY <1>3, <1>4
<1>6. Len(u) = Len(h) + Len(t)
  BY ONLY <1>5, ConcatProperties, Zenon
<1> QED
  BY <1>2, <1>3, <1>5, <1>6

(* The arguments are placed last. *)
LEMMA ArgsLast ==
  ASSUME NEW td, TodoOK(td), td[1][1] = "args"
  PROVE  Len(td) = 2
<1>1. Len(td) \in Nat /\ Len(td) > 1 /\ MayFollow("args", td[2][1])
  BY StepAfter
<1>2. td[2][1] = "answer"
  BY <1>1 DEF MayFollow
<1> PICK n : n = Len(td)
  OBVIOUS
<1> SUFFICES ASSUME n > 2
             PROVE  FALSE
  <2>1. n \in Nat /\ n > 1
    BY <1>1
  <2>2. n > 2 \/ n = 2
    BY ONLY <2>1
  <2> QED
    BY <2>2
<1>3. 2 \in 1..(Len(td) - 1)
  BY <1>1
<1>4. MayFollow(td[2][1], td[2 + 1][1])
  BY <1>3 DEF TodoOK, Fits
<1> QED
  BY <1>2, <1>4 DEF MayFollow

\* The bytes placed, for string st.
IsPlaced(src, st) == Len(src) = Len(st) + 5 /\ \A k \in 1..(Len(st) + 1) : src[k + 4] = TextOf(st, k)

(* At first everything is to be copied. *)
LEMMA AllToPlace ==
  ASSUME NEW s, NEW st, NEW pd, NEW pt, NEW dt, NEW p, Len(st) \in Nat, NewArgs(Len(st)) \in Int,
         s[1] = "from", s[2] = NewArgs(Len(st)) - 4, IsPlaced(s[3], st)
  PROVE  Placing(s, pd, pt, dt, p, st)
<1> PICK n \in Nat : n = Len(st)
  OBVIOUS
<1> PICK a \in Int : a = NewArgs(n)
  OBVIOUS
<1>1. s[2] = a - 4 /\ Len(s[3]) = n + 5
  BY DEF IsPlaced
<1>2. s[2] >= a - 4 /\ s[2] + Len(s[3]) = a + n + 1
  BY <1>1
<1>3. \A k \in 1..(n + 1) : ~(a + k - 1 < s[2])
  BY <1>1
<1>4. Arrived(pd, pt, dt, p, st, s[2])
  BY <1>3 DEF Arrived
<1>5. \A k \in 1..(n + 1) : (a + k - 1) - s[2] + 1 = k + 4
  BY <1>1
<1>6. \A k \in 1..(n + 1) : s[3][(a + k - 1) - s[2] + 1] = TextOf(st, k)
  BY <1>5 DEF IsPlaced
<1> QED
  BY <1>2, <1>4, <1>6 DEF Placing

(* exec(): the string kept is the string that is placed. *)
LEMMA PlaceArgsArgs == ASSUME MemoryInv, CopyInv, ArgInv, PlaceArgs PROVE ArgInv'
<1>1. Doing("args") /\ UNCHANGED <<pdir, ptes, spaces, pcb, passed, data, temp>>
  BY DEF PlaceArgs, Maps
<1> SUFFICES ASSUME pcb # None, passed.opened, Fitting(passed)
             PROVE  IsText(passed.str) /\ OnItsWay(todo', spaces, pdir, ptes, data, pcb, temp, passed.str)
  BY <1>1 DEF ArgInv
<1>2. IsText(passed.str) /\ OnItsWay(todo, spaces, pdir, ptes, data, pcb, temp, passed.str)
  BY DEF ArgInv
<1>3. TodoOK(todo) /\ todo[1][1] = "args" /\ pcb \in spaces
  BY <1>1, InHand
<1>4. Len(todo) = 2
  BY <1>3, ArgsLast
<1> PICK st : st = passed.str
  OBVIOUS
<1>5. IsText(st) /\ Kept(temp, st) /\ TempOK(temp)
  BY <1>2, <1>3, <1>4 DEF OnItsWay, Placing, CopyInv
<1> PICK str : str = temp
  OBVIOUS
<1>6. Then(<<"from", NewArgs(Len(str)) - 4, Placed(str)>>)
  BY DEF PlaceArgs, Placed
<1> PICK s : s = <<"from", NewArgs(Len(str)) - 4, Placed(str)>>
  OBVIOUS
<1>7. s[1] = "from" /\ s[2] = NewArgs(Len(str)) - 4 /\ s[3] = Placed(str) /\ Then(s)
  BY <1>6
<1>8. str \in Seq(ToSet(str))
  BY <1>5 DEF TempOK
<1>9. Len(str) = Len(st) /\ \A k \in 1..Len(st) : str[k] = st[k]
  BY <1>5 DEF Kept
<1>10. /\ Len(Placed(str)) = Len(str) + 5 /\ Placed(str)[Len(str) + 5] = Zero
       /\ \A k \in 1..Len(str) : Placed(str)[k + 4] = str[k]
  BY <1>8, PlacedIs
<1> PICK n : n = Len(st)
  OBVIOUS
<1>11. n \in Nat /\ n <= ARG_BUF
  BY <1>5 DEF IsText
<1>12. IsPlaced(Placed(str), st)
  <2> SUFFICES ASSUME NEW k \in 1..(n + 1)
               PROVE  Placed(str)[k + 4] = TextOf(st, k)
    BY <1>9, <1>10 DEF IsPlaced
  <2>1. CASE k <= n
    <3>1. k \in 1..n
      BY <1>11, <2>1
    <3> QED
      BY <1>9, <1>10, <2>1, <3>1 DEF TextOf
  <2>2. CASE ~(k <= n)
    <3>1. k + 4 = n + 5
      BY <1>11, <2>2
    <3> QED
      BY <1>9, <1>10, <2>2, <3>1 DEF TextOf
  <2> QED
    BY <2>1, <2>2
<1>13. NewArgs(n) \in Int
  BY <1>11, NewArgsPlace
<1>14. Placing(s, pdir, ptes, data, pcb, st)
  <2>1. s[1] = "from" /\ s[2] = NewArgs(Len(st)) - 4 /\ IsPlaced(s[3], st) /\ Len(st) \in Nat /\ NewArgs(Len(st)) \in Int
    BY <1>7, <1>9, <1>11, <1>12, <1>13
  <2> QED
    BY <2>1, AllToPlace
<1>15. todo'[1] = s /\ Len(todo') = 2
  BY <1>1, <1>4, <1>7, ThenHead, ThenLength
<1> QED
  BY <1>2, <1>3, <1>14, <1>15 DEF OnItsWay


-----------------------------------------------------------------------------
(* Bytes placed. *)

(* Directory and entry tell pages apart. *)
LEMMA PlaceTellsPages ==
  ASSUME NEW v \in Nat, NEW w \in Nat, DirOf(v) = DirOf(w), EntryOf(v) = EntryOf(w)
  PROVE  v = w
<1>1. NR_PTE \in Nat \ {0}
  BY ConstantTypes
<1>2. v = NR_PTE * (v \div NR_PTE) + (v % NR_PTE)
  BY <1>1, Division
<1>3. w = NR_PTE * (w \div NR_PTE) + (w % NR_PTE)
  BY <1>1, Division
<1>4. v \div NR_PTE = w \div NR_PTE /\ v % NR_PTE = w % NR_PTE
  BY DEF DirOf, EntryOf
<1> QED
  BY <1>2, <1>3, <1>4

\* An address exec() may copy to.
Target(x) == x \in Nat /\ x >= KERNEL_MEM * PAGE_SIZE /\ x <= High + 2

(* The pages of a process have frames of their own. *)
LEMMA OwnFrames ==
  ASSUME MemoryInv, pcb \in spaces, KernelUpTo(pdir, ptes, pcb, KERNEL_DIRS),
         NEW x, Target(x), IsMapped(pdir, ptes, pcb, x), NEW y, Target(y), IsMapped(pdir, ptes, pcb, y),
         PageOf(x) # PageOf(y)
  PROVE  Frame(pdir[pcb], ptes, PageOf(x)) # Frame(pdir[pcb], ptes, PageOf(y))
<1>1. High \in Nat /\ 0 \in KernelFrames
  BY HighType, ConstantTypes DEF KernelFrames
<1>2. ASSUME NEW z, Target(z), z < High, IsMapped(pdir, ptes, pcb, z)
      PROVE  /\ PageOf(z) \in Nat /\ DirOf(PageOf(z)) \in LowDirs /\ EntryOf(PageOf(z)) \in Spots
             /\ Frame(pdir[pcb], ptes, PageOf(z)) = Held(pdir, ptes, pcb, DirOf(PageOf(z)), EntryOf(PageOf(z)))
             /\ Frame(pdir[pcb], ptes, PageOf(z)) \in PoolFrames /\ Frame(pdir[pcb], ptes, PageOf(z)) # None
  <2>1. PageOf(z) \in Nat /\ DirOf(PageOf(z)) \in UserDirs
    BY <1>2, UserAddress DEF Target
  <2> QED
    BY <1>2, <2>1, UserPage DEF IsMapped
<1>3. ASSUME NEW z, Target(z), ~(z < High)
      PROVE  /\ PageOf(z) \in Nat /\ DirOf(PageOf(z)) = KOFFSET /\ EntryOf(PageOf(z)) = 0
             /\ Frame(pdir[pcb], ptes, PageOf(z)) = 0
  <2>1. z \in High..(High + 2) /\ z >= High
    BY <1>1, <1>3 DEF Target
  <2>2. Frame(pdir[pcb], ptes, PageOf(z)) = 0
    BY <1>3, <2>1, CopyTarget DEF Target
  <2> QED
    BY <2>1, <2>2, HighAddress
<1>4. CASE x < High /\ y < High
  <2> SUFFICES ASSUME Frame(pdir[pcb], ptes, PageOf(x)) = Frame(pdir[pcb], ptes, PageOf(y))
               PROVE  FALSE
    OBVIOUS
  <2> PICK v : v = PageOf(x)
    OBVIOUS
  <2> PICK w : w = PageOf(y)
    OBVIOUS
  <2>1. /\ v \in Nat /\ DirOf(v) \in LowDirs /\ EntryOf(v) \in Spots
        /\ Frame(pdir[pcb], ptes, v) = Held(pdir, ptes, pcb, DirOf(v), EntryOf(v)) /\ Frame(pdir[pcb], ptes, v) # None
    BY <1>2, <1>4
  <2>2. /\ w \in Nat /\ DirOf(w) \in LowDirs /\ EntryOf(w) \in Spots
        /\ Frame(pdir[pcb], ptes, w) = Held(pdir, ptes, pcb, DirOf(w), EntryOf(w))
    BY <1>2, <1>4
  <2> PICK d : d = DirOf(v)
    OBVIOUS
  <2> PICK e : e = EntryOf(v)
    OBVIOUS
  <2> PICK c : c = DirOf(w)
    OBVIOUS
  <2> PICK i : i = EntryOf(w)
    OBVIOUS
  <2>3. Exact(pdir, ptes, spaces, Marked)
    BY DEF MemoryInv
  <2>4. /\ d \in LowDirs /\ c \in LowDirs /\ e \in Spots /\ i \in Spots
        /\ Held(pdir, ptes, pcb, d, e) = Held(pdir, ptes, pcb, c, i) /\ Held(pdir, ptes, pcb, d, e) # None
    BY <2>1, <2>2
  <2>5. d = c /\ e = i
    BY ONLY <2>3, <2>4, pcb \in spaces DEF Exact
  <2> QED
    BY <2>1, <2>2, <2>5, PlaceTellsPages
<1>5. CASE x < High /\ ~(y < High)
  BY <1>1, <1>2, <1>3, <1>5, PoolAndKernel
<1>6. CASE ~(x < High) /\ y < High
  BY <1>1, <1>2, <1>3, <1>6, PoolAndKernel
<1>7. CASE ~(x < High) /\ ~(y < High)
  BY <1>3, <1>7, PlaceTellsPages
<1> QED
  BY <1>4, <1>5, <1>6, <1>7

\* c bytes of src are written to address d, in frame f.
Written(dt, dt2, f, d, c, src) == dt2 = [dt EXCEPT ![f] = WithBytes(dt[f], OffsetOf(d), c, src)]

\* What a turn of the copy does to the byte at x.
Moved(pd, pt, dt, dt2, p, d, src, x) ==
  /\ x < d => Byte(pd, pt, dt2, p, x) = Byte(pd, pt, dt, p, x)
  /\ x >= d => Byte(pd, pt, dt2, p, x) = src[x - d + 1]

(* A turn of copy_from_kernel(): the bytes before it stay, and the new ones follow. *)
LEMMA CopiedByte ==
  ASSUME MemoryInv, DataOK(data), pcb \in spaces, KernelUpTo(pdir, ptes, pcb, KERNEL_DIRS),
         NEW d, Target(d), NEW f, f = Frame(pdir[pcb], ptes, PageOf(d)), f # None,
         NEW c \in Nat, OffsetOf(d) + c <= PAGE_SIZE, NEW src, NEW dt,
         Written(data, dt, f, d, c, src),
         NEW x, Target(x), IsMapped(pdir, ptes, pcb, x), x < d + c
  PROVE  Moved(pdir, ptes, data, dt, pcb, d, src, x)
<1>0. x \in Nat /\ d \in Nat /\ High \in Nat /\ PAGE_SIZE \in Nat
  BY HighType, ConstantTypes DEF Target
<1>1. f \in AllFrames
  <2>1. 0 \in KernelFrames
    BY ConstantTypes DEF KernelFrames
  <2>2. d < High \/ d >= High
    BY <1>0
  <2>3. f \in PoolFrames \/ f = 0
    BY <2>2, CopyTarget DEF Target
  <2> QED
    BY <2>1, <2>3 DEF AllFrames
<1> PICK new : new = WithBytes(data[f], OffsetOf(d), c, src)
  OBVIOUS
<1>2. dt[f] = new /\ \A g : g # f => dt[g] = data[g]
  BY <1>1 DEF DataOK, Written
<1> PICK o : o = OffsetOf(d)
  OBVIOUS
<1> PICK u : u = OffsetOf(x)
  OBVIOUS
<1>3. o \in Nat /\ u \in Nat /\ u \in Offsets
  <2>1. 0 \in Nat
    OBVIOUS
  <2> QED
    BY <1>0, <2>1, SamePage
<1>4. ASSUME x < d
      PROVE  Byte(pdir, ptes, dt, pcb, x) = Byte(pdir, ptes, data, pcb, x)
  <2>1. CASE PageOf(x) # PageOf(d)
    <3>1. Frame(pdir[pcb], ptes, PageOf(x)) # f
      BY <2>1, OwnFrames DEF IsMapped
    <3> QED
      BY <1>2, <3>1 DEF Byte
  <2>2. CASE PageOf(x) = PageOf(d)
    <3> PICK k : k = d - x
      OBVIOUS
    <3>1. k \in Nat /\ k > 0 /\ x + k = d
      BY <1>0, <1>4
    <3>2. o = u + k
      BY <1>0, <2>2, <3>1, SamePage
    <3>3. u \notin o..(o + c - 1)
      BY <1>3, <3>1, <3>2
    <3>4. new[u] = data[f][u]
      BY <1>3, <3>3 DEF WithBytes
    <3> QED
      BY <1>2, <2>2, <3>4 DEF Byte
  <2> QED
    BY <2>1, <2>2
<1>5. ASSUME x >= d
      PROVE  Byte(pdir, ptes, dt, pcb, x) = src[x - d + 1]
  <2> PICK k : k = x - d
    OBVIOUS
  <2>1. k \in Nat /\ k < c /\ d + k = x
    BY <1>0, <1>5
  <2>2. o + k < PAGE_SIZE
    BY <1>0, <1>3, <2>1
  <2>3. PageOf(x) = PageOf(d) /\ u = o + k
    BY <1>0, <2>1, <2>2, SamePage
  <2>4. u \in o..(o + c - 1) /\ u - o + 1 = k + 1
    BY <1>3, <2>1, <2>3
  <2>5. new[u] = src[u - o + 1]
    BY <1>3, <2>4 DEF WithBytes
  <2> QED
    BY <1>2, <2>3, <2>4, <2>5 DEF Byte
<1> QED
  BY <1>4, <1>5 DEF Moved


\* Where the arguments go, in the space of p.
ArgPlace(pd, pt, p, n) ==
  \A k \in 1..(n + 1) : Target(NewArgs(n) + k - 1) /\ IsMapped(pd, pt, p, NewArgs(n) + k - 1)

(* The arguments have their place. *)
LEMMA ArgsHavePlace ==
  ASSUME NEW pd, NEW pt, NEW p, pd \in Pdirs, p \in Pcbs, KernelUpTo(pd, pt, p, KERNEL_DIRS), StackThere(pd, pt, p),
         NEW n \in Nat, n <= ARG_BUF
  PROVE  ArgPlace(pd, pt, p, n)
<1> SUFFICES ASSUME NEW k \in 1..(n + 1)
             PROVE  Target(NewArgs(n) + k - 1) /\ IsMapped(pd, pt, p, NewArgs(n) + k - 1)
  BY DEF ArgPlace
<1> PICK a : a = NewArgs(n)
  OBVIOUS
<1> PICK N : N = NR_STACK * PAGE_SIZE
  OBVIOUS
<1>1. a \in Int /\ a + n + 1 <= High + 3 /\ a - 4 >= High - N /\ High \in Nat /\ N \in Nat
  BY NewArgsPlace, HighType, ConstantTypes
<1> PICK x : x = a + k - 1
  OBVIOUS
<1>2. x \in Int /\ x >= High - N /\ x <= High + 2
  BY ONLY <1>1, n \in Nat, k \in 1..(n + 1), x = a + k - 1
<1>3. x \in Nat /\ x >= KERNEL_MEM * PAGE_SIZE /\ IsMapped(pd, pt, p, x)
  BY <1>2, StackMapped
<1> QED
  BY <1>2, <1>3 DEF Target

\* The step s2 is what is left of the step s after c bytes.
GoesOn(s, s2, c) ==
  s2[1] = "from" /\ s2[2] = s[2] + c /\ s2[3] = SubSeq(s[3], c + 1, Len(s[3]))

\* What a turn of step s does to the string.
Moves(pd, pt, dt, dt2, p, s, c, n) ==
  \A k \in 1..(n + 1) : LET x == NewArgs(n) + k - 1
    IN x < s[2] + c => Moved(pd, pt, dt, dt2, p, s[2], s[3], x)

(* A turn of the copy leaves less of the string to place. *)
LEMMA LessToPlace ==
  ASSUME NEW s, NEW s2, NEW c, NEW pd, NEW pt, NEW dt, NEW dt2, NEW p, NEW st, Placing(s, pd, pt, dt, p, st),
         Len(st) \in Nat, NewArgs(Len(st)) \in Int, s[2] \in Nat, s[3] \in Seq(ToSet(s[3])), c \in 1..Len(s[3]),
         GoesOn(s, s2, c), Moves(pd, pt, dt, dt2, p, s, c, Len(st))
  PROVE  Placing(s2, pd, pt, dt2, p, st)
<1> PICK n : n = Len(st)
  OBVIOUS
<1> PICK a : a = NewArgs(n)
  OBVIOUS
<1> PICK d : d = s[2]
  OBVIOUS
<1> PICK src : src = s[3]
  OBVIOUS
<1> PICK L : L = Len(src)
  OBVIOUS
<1> PICK rest : rest = SubSeq(src, c + 1, L)
  OBVIOUS
<1>1. /\ n \in Nat /\ a \in Int /\ d \in Nat /\ L \in Nat /\ c \in 1..L /\ d >= a - 4 /\ d + L = a + n + 1
      /\ s2[1] = "from" /\ s2[2] = d + c /\ s2[3] = rest
  BY DEF Placing, GoesOn
<1>2. /\ Arrived(pd, pt, dt, p, st, d)
      /\ \A k \in 1..(n + 1) : (a + k - 1) >= d => src[(a + k - 1) - d + 1] = TextOf(st, k)
  BY DEF Placing
<1>3. Len(rest) = L - c /\ \A i \in 1..(L - c) : rest[i] = src[c + i]
  <2> PICK R : src \in Seq(R)
    OBVIOUS
  <2>1. L = Len(src) /\ c \in 1..L /\ L \in Nat
    BY <1>1
  <2> QED
    BY ONLY <2>1, src \in Seq(R), rest = SubSeq(src, c + 1, L)
<1>4. d + c >= a - 4 /\ (d + c) + (L - c) = a + n + 1
  BY ONLY <1>1
<1>5. Arrived(pd, pt, dt2, p, st, d + c)
  <2> SUFFICES ASSUME NEW k \in 1..(n + 1), a + k - 1 < d + c
               PROVE  Byte(pd, pt, dt2, p, a + k - 1) = TextOf(st, k)
    BY DEF Arrived
  <2>1. CASE a + k - 1 < d
    BY <1>2, <2>1 DEF Arrived, Moves, Moved
  <2>2. CASE a + k - 1 >= d
    <3>1. Byte(pd, pt, dt2, p, a + k - 1) = src[(a + k - 1) - d + 1]
      BY <2>2 DEF Moves, Moved
    <3> QED
      BY <1>2, <2>2, <3>1
  <2>3. a + k - 1 < d \/ a + k - 1 >= d
    BY ONLY <1>1, k \in 1..(n + 1)
  <2> QED
    BY <2>1, <2>2, <2>3
<1>6. ASSUME NEW k \in 1..(n + 1), a + k - 1 >= d + c
      PROVE  rest[(a + k - 1) - (d + c) + 1] = TextOf(st, k)
  <2> PICK i : i = (a + k - 1) - (d + c) + 1
    OBVIOUS
  <2>1. i \in 1..(L - c) /\ c + i = (a + k - 1) - d + 1 /\ a + k - 1 >= d
    BY ONLY <1>1, <1>6, i = (a + k - 1) - (d + c) + 1
  <2>2. rest[i] = src[c + i]
    BY <1>3, <2>1
  <2>3. src[(a + k - 1) - d + 1] = TextOf(st, k)
    BY <1>2, <2>1
  <2> QED
    BY <2>1, <2>2, <2>3
<1> QED
  BY <1>1, <1>3, <1>4, <1>5, <1>6 DEF Placing


(* exec(): the string arrives byte by byte. *)
LEMMA CopyFromKernelArgs == ASSUME MemoryInv, CopyInv, ArgInv, CopyFromKernel PROVE ArgInv'
<1>1. Doing("from") /\ UNCHANGED <<pdir, ptes, spaces, pcb, passed, temp>>
  BY DEF CopyFromKernel, Maps, Absent
<1> SUFFICES ASSUME pcb # None, passed.opened, Fitting(passed)
             PROVE  IsText(passed.str) /\ OnItsWay(todo', spaces, pdir, ptes, data', pcb, temp, passed.str)
  BY <1>1 DEF ArgInv
<1>2. IsText(passed.str) /\ OnItsWay(todo, spaces, pdir, ptes, data, pcb, temp, passed.str)
  BY DEF ArgInv
<1>3. TodoOK(todo) /\ todo[1][1] = "from" /\ Head(todo) = todo[1] /\ pcb \in spaces /\ pcb \in Pcbs
  BY <1>1, InHand
<1>4. KernelUpTo(pdir, ptes, pcb, KERNEL_DIRS) /\ pdir \in Pdirs
  BY <1>3, AllWhole DEF MemoryInv, MapType
<1> PICK s : s = todo[1]
  OBVIOUS
<1> PICK f : f = Frame(pdir[pcb], ptes, PageOf(s[2]))
  OBVIOUS
<1> PICK c : c = Chunk(s[2], Len(s[3]))
  OBVIOUS
<1> PICK s2 : s2 = <<"from", s[2] + c, SubSeq(s[3], c + 1, Len(s[3]))>>
  OBVIOUS
<1>5. GoesOn(s, s2, c)
  BY DEF GoesOn
<1>6. \/ UNCHANGED <<todo, data>>
      \/ s[3] = <<>> /\ Done /\ data' = data
      \/ /\ f # None /\ s[3] # <<>> /\ Then(s2)
         /\ data' = [data EXCEPT ![f] = WithBytes(data[f], OffsetOf(s[2]), c, s[3])]
  BY <1>3 DEF CopyFromKernel, Absent, Arg, WithBytes
<1>7. CASE UNCHANGED <<todo, data>>
  BY <1>2, <1>7
<1>8. CASE Ahead(todo) /\ ~UNCHANGED <<todo, data>>
  <2>1. Kept(temp, passed.str) \/ todo[1][1] \in {"strlen", "to"} \/ Len(todo) = 2
    BY <1>2, <1>3 DEF OnItsWay, TodoOK
  <2>2. Done \/ \E x : Then(x)
    BY <1>6, <1>8
  <2>3. Ahead(todo')
    BY <1>1, <1>8, <2>2, AheadStep
  <2>4. Len(todo) # 2
    <3>1. Len(todo) = 2 => todo[1][1] = "args"
      BY <1>8 DEF Ahead
    <3> QED
      BY <1>3, <3>1
  <2> QED
    BY <1>2, <1>3, <2>1, <2>3, <2>4 DEF OnItsWay
<1>9. CASE ~Ahead(todo) /\ ~UNCHANGED <<todo, data>>
  <2> PICK st : st = passed.str
    OBVIOUS
  <2> PICK n : n = Len(st)
    OBVIOUS
  <2>1. Len(todo) # 1
    BY <1>3 DEF TodoOK
  <2>2. Len(todo) = 2 /\ Placing(s, pdir, ptes, data, pcb, st)
    BY <1>2, <1>9, <2>1 DEF OnItsWay
  <2>3. n \in Nat /\ n <= ARG_BUF
    BY <1>2 DEF IsText
  <2>4. Copies(s, pdir, ptes, pcb) /\ StackThere(pdir, ptes, pcb) /\ DataOK(data)
    BY <1>3 DEF CopyInv, Prepared, StackThere, DataOK
  <2>5. s[2] \in Nat /\ s[3] \in Seq(ToSet(s[3])) /\ s[2] >= KERNEL_MEM * PAGE_SIZE /\ s[2] + Len(s[3]) <= High + 3
    BY <2>4 DEF Copies
  <2>6. NewArgs(n) \in Int
    BY <2>3, NewArgsPlace
  <2>7. CASE s[3] = <<>> /\ Done /\ data' = data
    <3>1. Len(todo') = 1
      BY <1>1, <2>2, <2>7, AfterDone
    <3>2. Len(s[3]) = 0
      BY <2>7
    <3>3. s[2] = NewArgs(n) + n + 1
      <4>1. s[2] + Len(s[3]) = NewArgs(n) + n + 1
        BY <2>2 DEF Placing
      <4> QED
        BY <2>5, <3>2, <4>1
    <3>4. Arrived(pdir, ptes, data, pcb, st, s[2])
      BY <2>2 DEF Placing
    <3> QED
      BY <1>2, <1>3, <2>7, <3>1, <3>3, <3>4 DEF OnItsWay
  <2>8. CASE /\ f # None /\ s[3] # <<>> /\ Then(s2)
             /\ data' = [data EXCEPT ![f] = WithBytes(data[f], OffsetOf(s[2]), c, s[3])]
    <3> PICK L : L = Len(s[3])
      OBVIOUS
    <3>1. L \in Nat /\ L > 0
      BY <2>5, <2>8
    <3>2. c \in 1..L /\ OffsetOf(s[2]) + c <= PAGE_SIZE
      BY <2>5, <3>1, ChunkProperties
    <3>3. c \in Nat /\ Target(s[2])
      <4> PICK d : d = s[2]
        OBVIOUS
      <4>1. d \in Nat /\ d + L <= High + 3 /\ High \in Nat
        BY <2>5, HighType
      <4>2. c \in Nat /\ d <= High + 2
        BY ONLY <3>1, <3>2, <4>1
      <4> QED
        BY <2>5, <4>2 DEF Target
    <3>4. ArgPlace(pdir, ptes, pcb, n)
      BY <1>3, <1>4, <2>3, <2>4, ArgsHavePlace
    <3> PICK dt2 : dt2 = data'
      OBVIOUS
    <3> PICK d : d = s[2]
      OBVIOUS
    <3> PICK src : src = s[3]
      OBVIOUS
    <3>5. Written(data, dt2, f, d, c, src) /\ Target(d) /\ OffsetOf(d) + c <= PAGE_SIZE
          /\ f = Frame(pdir[pcb], ptes, PageOf(d)) /\ f # None /\ c \in Nat /\ MemoryInv /\ DataOK(data) /\ pcb \in spaces
      BY <1>3, <2>4, <2>8, <3>2, <3>3 DEF Written
    <3>6. Moves(pdir, ptes, data, dt2, pcb, s, c, n)
      <4> SUFFICES ASSUME NEW k \in 1..(n + 1), NEW x, x = NewArgs(n) + k - 1, x < d + c
                   PROVE  Moved(pdir, ptes, data, dt2, pcb, d, src, x)
        BY DEF Moves
      <4>1. Target(x) /\ IsMapped(pdir, ptes, pcb, x)
        BY <3>4 DEF ArgPlace
      <4> QED
        BY ONLY <1>4, <3>5, <4>1, x < d + c, CopiedByte
    <3>7. Placing(s2, pdir, ptes, dt2, pcb, st)
      BY <1>5, <2>2, <2>3, <2>5, <2>6, <3>2, <3>6, LessToPlace
    <3>8. todo'[1] = s2 /\ Len(todo') = 2
      BY <1>1, <2>2, <2>8, ThenHead, ThenLength
    <3> QED
      BY <1>2, <1>3, <3>7, <3>8 DEF OnItsWay
  <2> QED
    BY <1>6, <1>9, <2>7, <2>8
<1> QED
  BY <1>7, <1>8, <1>9


-----------------------------------------------------------------------------
(* Requests, answers and the writes of other processes. *)

(* Two sequences: the last element is that of the second. *)
LEMMA LastOfJoin ==
  ASSUME NEW R, NEW s \in Seq(R), NEW t \in Seq(R), Len(t) > 0
  PROVE  s \o t \in Seq(R) /\ Len(s \o t) > 0 /\ (s \o t)[Len(s \o t)] = t[Len(t)]
<1> PICK u : u = s \o t
  OBVIOUS
<1>1. u \in Seq(R) /\ Len(u) = Len(s) + Len(t)
      /\ \A k \in 1..(Len(s) + Len(t)) : u[k] = IF k <= Len(s) THEN s[k] ELSE t[k - Len(s)]
  BY ONLY s \in Seq(R), t \in Seq(R), u = s \o t, ConcatProperties, Zenon
<1> PICK m \in Nat : m = Len(s)
  OBVIOUS
<1> PICK n \in Nat : n = Len(t)
  OBVIOUS
<1>2. m + n \in 1..(m + n) /\ ~(m + n <= m) /\ (m + n) - m = n
  OBVIOUS
<1>3. u[m + n] = t[(m + n) - m]
  BY <1>1, <1>2
<1> QED
  BY <1>1, <1>2, <1>3

(* exec(): the steps of the request end with the arguments and the answer. *)
LEMMA ExecAhead ==
  ASSUME NEW i \in DOMAIN Programs, NEW h, NEW x
  PROVE  Ahead(<<h>> \o (<< <<"takeback">> >> \o LoadSteps(i) \o << <<"args">> >>) \o <<x>>)
<1> PICK b : b = << <<"takeback">> >>
  OBVIOUS
<1> PICK l : l = LoadSteps(i)
  OBVIOUS
<1> PICK ga : ga = <<"args">>
  OBVIOUS
<1> PICK g : g = <<ga>>
  OBVIOUS
<1> PICK hh : hh = <<h>>
  OBVIOUS
<1> PICK xx : xx = <<x>>
  OBVIOUS
<1> PICK R : R = ToSet(l) \cup { <<"takeback">>, ga, h, x }
  OBVIOUS
<1>1. l \in Seq(ToSet(l))
  BY LoadFits DEF Fits
<1>2. /\ b \in Seq(R) /\ l \in Seq(R) /\ g \in Seq(R) /\ hh \in Seq(R) /\ xx \in Seq(R)
      /\ Len(l) \in Nat /\ Len(g) = 1 /\ g[1] = ga /\ ga[1] = "args" /\ Len(xx) = 1 /\ Len(b) = 1
  BY <1>1
<1> PICK bl : bl = b \o l
  OBVIOUS
<1>3. bl \in Seq(R)
  BY ONLY <1>2, bl = b \o l, ConcatProperties, Zenon
<1> PICK blg : blg = bl \o g
  OBVIOUS
<1>4. Len(g) > 0 /\ Len(xx) > 0
  BY <1>2
<1>5. blg \in Seq(R) /\ Len(blg) > 0 /\ blg[Len(blg)] = g[Len(g)]
  BY ONLY <1>2, <1>3, <1>4, blg = bl \o g, LastOfJoin
<1> PICK u : u = hh \o blg
  OBVIOUS
<1>6. u \in Seq(R) /\ Len(u) > 0 /\ u[Len(u)] = blg[Len(blg)]
  BY ONLY <1>2, <1>5, u = hh \o blg, LastOfJoin
<1> PICK w : w = u \o xx
  OBVIOUS
<1>7. w \in Seq(R) /\ Len(w) = Len(u) + Len(xx)
      /\ \A k \in 1..(Len(u) + Len(xx)) : w[k] = IF k <= Len(u) THEN u[k] ELSE xx[k - Len(u)]
  BY ONLY <1>2, <1>6, w = u \o xx, ConcatProperties, Zenon
<1> PICK n \in Nat : n = Len(u)
  BY <1>6
<1>8. n > 0 /\ Len(w) = n + 1 /\ n \in 1..(Len(u) + Len(xx)) /\ n <= Len(u)
  BY <1>2, <1>6, <1>7
<1>9. w[n] = u[n] /\ Len(w) - 1 = n /\ Len(w) > 1
  BY <1>7, <1>8
<1>10. w[Len(w) - 1] = ga
  BY <1>2, <1>5, <1>6, <1>9
<1>11. Ahead(w)
  BY <1>2, <1>9, <1>10 DEF Ahead
<1> QED
  BY <1>11

(* exec() begins with the string in the memory of the process. *)
LEMMA RequestArgs == ASSUME MemoryInv, CopyInv, ArgInv, Requests PROVE ArgInv'
<1>0. ASSUME NEW p, NEW caller, NEW steps, NEW args, Request(p, caller, steps, args), ~args.opened
      PROVE  ArgInv'
  BY <1>0 DEF Request, ArgInv
<1>1. ~NoArgs.opened
  BY DEF NoArgs
<1>2. ASSUME NEW p \in Pcbs, NEW i \in DOMAIN Programs, Create(p, i)
      PROVE  ArgInv'
  BY <1>0, <1>1, <1>2 DEF Create
<1>3. ASSUME NEW p \in Pcbs, NEW c \in Pcbs, Fork(p, c)
      PROVE  ArgInv'
  BY <1>0, <1>1, <1>3 DEF Fork
<1>4. ASSUME NEW p \in Pcbs, Exit(p)
      PROVE  ArgInv'
  BY <1>0, <1>1, <1>4 DEF Exit
<1>5. ASSUME NEW p \in Pcbs, NEW a \in ArgAddrs, ExecFails(p, a)
      PROVE  ArgInv'
  <2> PICK args : args = ArgsOf(p, a, <<>> # <<>>)
    OBVIOUS
  <2>1. Request(p, p, << <<"strlen", a, a, 0>> >> \o <<>>, args)
    BY <1>5 DEF ExecFails, ExecArgs
  <2>2. ~args.opened
    BY DEF ArgsOf
  <2> QED
    BY <1>0, <2>1, <2>2
<1>6. ASSUME NEW p \in Pcbs, NEW i \in DOMAIN Programs, NEW a \in ArgAddrs, Exec(p, i, a)
      PROVE  ArgInv'
  <2> DEFINE s == << <<"takeback">> >> \o LoadSteps(i) \o << <<"args">> >>
             h == <<"strlen", a, a, 0>>
             x == <<"answer", p>>
  <2>1. ExecArgs(p, a, s)
    BY <1>6 DEF Exec
  <2>2. Ahead(<<h>> \o s \o <<x>>)
    BY ExecAhead
  <2>3. (<<h>> \o s \o <<x>>)[1] = h
    BY ExecFits
  <2>4. h[1] = "strlen"
    OBVIOUS
  <2> HIDE DEF s
  <2> PICK args : args = ArgsOf(p, a, s # <<>>)
    OBVIOUS
  <2>5. Request(p, p, <<h>> \o s, args)
    BY <2>1 DEF ExecArgs
  <2> HIDE DEF h, x
  <2>6. todo' = <<h>> \o s \o <<x>> /\ passed' = args
    BY <2>5 DEF Request, x
  <2>7. ASSUME Fitting(args)
        PROVE  TextAt(args.str, pdir, ptes, data, p, a)
    BY <2>7, StringThere
  <2>8. Fitting(args) => IsText(args.str)
    BY <2>7 DEF TextAt, IsText
  <2>9. Ahead(todo') /\ todo'[1][1] = "strlen"
    BY <2>2, <2>3, <2>4, <2>6
  <2> QED
    BY <2>6, <2>8, <2>9 DEF ArgInv, OnItsWay
<1> QED
  BY <1>2, <1>3, <1>4, <1>5, <1>6 DEF Requests

(* After the answer there is no string. *)
LEMMA AnswerArgs == ASSUME Answer PROVE ArgInv'
BY DEF Answer, ArgInv


\* The places of the arguments.
ArgTargets(n) == \A k \in 1..(n + 1) : Target(NewArgs(n) + k - 1)

(* They are addresses exec() may copy to. *)
LEMMA ArgsAreTargets == ASSUME NEW n \in Nat, n <= ARG_BUF PROVE ArgTargets(n)
<1> SUFFICES ASSUME NEW k \in 1..(n + 1)
             PROVE  Target(NewArgs(n) + k - 1)
  BY DEF ArgTargets
<1> PICK a : a = NewArgs(n)
  OBVIOUS
<1> PICK N : N = NR_STACK * PAGE_SIZE
  OBVIOUS
<1>1. a \in Int /\ a + n + 1 <= High + 3 /\ a - 4 >= High - N /\ High \in Nat /\ N \in Nat
  BY NewArgsPlace, HighType, ConstantTypes
<1> PICK x : x = a + k - 1
  OBVIOUS
<1>2. x \in Int /\ x >= High - N /\ x <= High + 2
  BY ONLY <1>1, n \in Nat, k \in 1..(n + 1), x = a + k - 1
<1>3. x \in Nat /\ x >= KERNEL_MEM * PAGE_SIZE
  BY <1>2, StackAddress
<1> QED
  BY <1>2, <1>3 DEF Target

\* What exec() may copy to is the same in dt and dt2.
SameTargets(pd, pt, dt, dt2, p) == \A x : Target(x) => Byte(pd, pt, dt2, p, x) = Byte(pd, pt, dt, p, x)

(* What has arrived stays as long as its bytes do. *)
LEMMA ArrivedKept ==
  ASSUME NEW pd, NEW pt, NEW dt, NEW dt2, NEW p, NEW st, NEW to, ArgTargets(Len(st)), SameTargets(pd, pt, dt, dt2, p),
         Arrived(pd, pt, dt, p, st, to)
  PROVE  Arrived(pd, pt, dt2, p, st, to)
BY DEF Arrived, ArgTargets, SameTargets

(* A process that writes changes nothing of the arguments of another. *)
LEMMA WriteArgs == ASSUME UserWrites, MemoryInv, CopyInv, ArgInv, NEW p \in Pcbs, NEW a \in WriteAddrs, Write(p, a) PROVE ArgInv'
<1>1. /\ p \in spaces /\ ~Sleeping(p) /\ UNCHANGED <<pdir, ptes, todo, spaces, pcb, temp, passed>>
  BY DEF Write, Rest
<1> SUFFICES ASSUME pcb # None, passed.opened, Fitting(passed)
             PROVE  IsText(passed.str) /\ OnItsWay(todo, spaces, pdir, ptes, data', pcb, temp, passed.str)
  BY <1>1 DEF ArgInv
<1>2. IsText(passed.str) /\ OnItsWay(todo, spaces, pdir, ptes, data, pcb, temp, passed.str)
  BY DEF ArgInv
<1> PICK v : v = PageOf(a)
  OBVIOUS
<1> PICK f : f = Frame(pdir[p], ptes, v)
  OBVIOUS
<1>3. f # None /\ data' = [data EXCEPT ![f][OffsetOf(a)] = Stored]
  BY DEF Write
<1>4. v \in Nat /\ DirOf(v) \in UserDirs
  BY AddressAssumption, AnyAddress DEF UserWrites
<1>5. \A x : x # f => data'[x] = data[x]
  BY <1>3
<1>6. p # pcb /\ TodoOK(todo)
  BY <1>1 DEF Sleeping, MemoryInv
<1> PICK st : st = passed.str
  OBVIOUS
<1>7. ArgTargets(Len(st))
  BY <1>2, ArgsAreTargets DEF IsText
<1>8. ASSUME pcb \in spaces, todo[1][1] # "kernel"
      PROVE  SameTargets(pdir, ptes, data, data', pcb)
  <2> SUFFICES ASSUME NEW x, Target(x)
               PROVE  Byte(pdir, ptes, data', pcb, x) = Byte(pdir, ptes, data, pcb, x)
    BY DEF SameTargets
  <2> PICK w : w = PageOf(x)
    OBVIOUS
  <2>0. KernelUpTo(pdir, ptes, pcb, KERNEL_DIRS) /\ High \in Nat /\ x \in Nat
    BY <1>8, AllWhole, HighType DEF Target
  <2>1. w \in Nat /\ DirOf(w) \in Dirs
    <3>1. CASE x < High
      <4>1. w \in Nat /\ DirOf(w) \in UserDirs
        BY <3>1, UserAddress DEF Target
      <4>2. UserDirs \subseteq Dirs
        BY ConstantTypes DEF UserDirs, Dirs
      <4> QED
        BY <4>1, <4>2
    <3>2. CASE ~(x < High)
      <4>1. x \in High..(High + 2)
        BY <2>0, <3>2 DEF Target
      <4>2. w \in Nat /\ DirOf(w) = KOFFSET
        BY <4>1, HighAddress
      <4>3. KOFFSET \in Dirs
        BY ConstantTypes DEF Dirs
      <4> QED
        BY <4>2, <4>3
    <3> QED
      BY <3>1, <3>2
  <2>2. Frame(pdir[pcb], ptes, w) # f
    BY <1>1, <1>3, <1>4, <1>6, <1>8, <2>0, <2>1, ForeignFrame
  <2> QED
    BY <1>5, <2>2 DEF Byte
<1> PICK dt2 : dt2 = data'
  OBVIOUS
<1>9. CASE Ahead(todo) /\ (todo[1][1] \notin {"strlen", "to"} => Kept(temp, st))
  BY <1>2, <1>9 DEF OnItsWay
<1>10. CASE Len(todo) = 2 /\ pcb \in spaces /\ Placing(todo[1], pdir, ptes, data, pcb, st)
  <2>1. todo[1][1] = "from" /\ Arrived(pdir, ptes, data, pcb, st, todo[1][2])
    BY <1>10 DEF Placing
  <2>2. SameTargets(pdir, ptes, data, dt2, pcb)
    BY <1>8, <1>10, <2>1
  <2>3. Arrived(pdir, ptes, dt2, pcb, st, todo[1][2])
    BY <1>7, <2>1, <2>2, ArrivedKept
  <2>4. Placing(todo[1], pdir, ptes, dt2, pcb, st)
    BY <1>10, <2>3 DEF Placing
  <2> QED
    BY <1>2, <1>10, <2>4 DEF OnItsWay
<1>11. CASE Len(todo) = 1 /\ pcb \in spaces /\ Arrived(pdir, ptes, data, pcb, st, NewArgs(Len(st)) + Len(st) + 1)
  <2>1. todo[1][1] = "answer"
    BY <1>6, <1>11 DEF TodoOK
  <2>2. SameTargets(pdir, ptes, data, dt2, pcb)
    BY <1>8, <1>11, <2>1
  <2>3. Arrived(pdir, ptes, dt2, pcb, st, NewArgs(Len(st)) + Len(st) + 1)
    BY <1>7, <1>11, <2>2, ArrivedKept
  <2> QED
    BY <1>2, <1>11, <2>3 DEF OnItsWay
<1> QED
  BY <1>2, <1>9, <1>10, <1>11 DEF OnItsWay

(* From the memory of the old image through the buffer in the kernel to the stack
   of the new one, an argument string of exec() that fits is somewhere whole, in
   every state, as long as processes do not write to the kernel. *)
THEOREM ArgsHold == ASSUME UserWrites PROVE MSpec => []ArgInv
<1>1. MInit => ArgInv
  BY DEF MInit, ArgInv
<1>2. MemoryInv /\ CopyInv /\ ArgInv /\ [MNext]_mvars => ArgInv'
  <2> SUFFICES ASSUME MemoryInv, CopyInv, ArgInv, [MNext]_mvars
               PROVE  ArgInv'
    OBVIOUS
  <2>1. CASE Requests
    BY <2>1, RequestArgs
  <2>2. CASE Steps
    BY <2>2, OtherArgs, LoadArgs, StrlenArgs, CopyToKernelArgs, CopyFromKernelArgs, PlaceArgsArgs, AnswerArgs DEF Steps
  <2>3. CASE \E p \in Pcbs, a \in WriteAddrs : Write(p, a)
    BY <2>3, WriteArgs
  <2>4. CASE UNCHANGED mvars
    BY <2>4 DEF mvars, ArgInv
  <2> QED
    BY <2>1, <2>2, <2>3, <2>4 DEF MNext
<1> QED
  BY <1>1, <1>2, MemoryHolds, CopiesHold, PTL DEF MSpec

(* When the process goes on after exec(), its old argument string, with its '\0',
   is at the new address, whatever other processes wrote to their memory meanwhile:
   for a string that is mapped, in one page and not longer than buf[]. *)
THEOREM ArgumentsArrive == ASSUME UserWrites PROVE MSpec => []ArgsArrive
<1>1. MemoryInv /\ ArgInv => ArgsArrive
  <2> SUFFICES ASSUME MemoryInv, ArgInv, Fitting(passed), passed.opened, Len(todo) = 1
               PROVE  LET s == passed.str \o <<Zero>>
                          a == NewArgs(Len(passed.str))
                      IN \A k \in DOMAIN s : ByteAt(pcb, a + k - 1) = s[k]
    BY DEF ArgsArrive
  <2> PICK st : st = passed.str
    OBVIOUS
  <2>1. todo # <<>>
    OBVIOUS
  <2>2. pcb # None
    BY <2>1 DEF MemoryInv
  <2>3. IsText(st) /\ Arrived(pdir, ptes, data, pcb, st, NewArgs(Len(st)) + Len(st) + 1)
    BY <2>2 DEF ArgInv, OnItsWay, Ahead
  <2> PICK n : n = Len(st)
    OBVIOUS
  <2>4. st \in Seq(ToSet(st)) /\ n \in Nat /\ n <= ARG_BUF
    BY <2>3 DEF IsText
  <2> PICK z : z = <<Zero>>
    OBVIOUS
  <2> PICK R : R = ToSet(st) \cup {Zero}
    OBVIOUS
  <2>5. st \in Seq(R) /\ z \in Seq(R) /\ Len(z) = 1 /\ z[1] = Zero
    BY <2>4
  <2> PICK s : s = st \o z
    OBVIOUS
  <2>6. s \in Seq(R) /\ Len(s) = Len(st) + Len(z)
        /\ \A k \in 1..(Len(st) + Len(z)) : s[k] = IF k <= Len(st) THEN st[k] ELSE z[k - Len(st)]
    BY ONLY <2>5, s = st \o z, ConcatProperties, Zenon
  <2>7. DOMAIN s = 1..(n + 1) /\ \A k \in 1..(n + 1) : s[k] = IF k <= n THEN st[k] ELSE z[k - n]
    BY <2>5, <2>6
  <2>8. ASSUME NEW k \in 1..(n + 1)
        PROVE  s[k] = TextOf(st, k)
    <3>1. CASE k <= n
      BY <2>7, <3>1 DEF TextOf
    <3>2. CASE ~(k <= n)
      <4>1. k - n = 1
        BY <2>4, <3>2
      <4>2. s[k] = z[k - n]
        BY <2>7, <3>2
      <4> QED
        BY <2>5, <3>2, <4>1, <4>2 DEF TextOf
    <3> QED
      BY <3>1, <3>2
  <2> PICK a : a = NewArgs(n)
    OBVIOUS
  <2>9. a \in Int
    BY <2>4, NewArgsPlace
  <2>10. ASSUME NEW k \in 1..(n + 1)
         PROVE  ByteAt(pcb, a + k - 1) = s[k]
    <3>1. a + k - 1 < a + n + 1
      BY ONLY <2>4, <2>9, k \in 1..(n + 1)
    <3>2. Byte(pdir, ptes, data, pcb, a + k - 1) = TextOf(st, k)
      BY <2>3, <3>1 DEF Arrived
    <3> QED
      BY <2>8, <3>2 DEF ByteAt, Byte
  <2> QED
    BY <2>7, <2>10
<1> QED
  BY <1>1, MemoryHolds, ArgsHold, PTL
=============================================================================
