--------------------------- MODULE FileDataProofs ---------------------------
(***************************************************************************)
(* Module FileData, proved for any sizes of block, index and disk, any     *)
(* files and any lengths: the bitmap and the indexes of the files agree,   *)
(* and a file is the sequence of bytes PlainFiles says it is, provided     *)
(* that blocks are given back from level_end0 on only.                     *)
(*                                                                         *)
(* A slot is a place for a block in the index of a file, whether the file  *)
(* is long enough to have one there or not; the proof is about which slots *)
(* are held and what they hold, also in the middle of a write, when part   *)
(* of an index is in memory only.                                          *)
(***************************************************************************)
EXTENDS FileData, WellFoundedInduction, TLAPS

Kinds == {"direct", "leaf1", "leaf2", "one", "two", "tab"}
DataKinds == {"direct", "leaf1", "leaf2"}
Entries == 0..(PTRS - 1)

\* The slots of an index: blocks named in the inode, in the first level, in
\* the second; the index block of the first level, of the second, and the
\* index blocks the latter names.
Valid(kd, i, j) ==
  \/ kd = "direct" /\ i \in 0..(DIRECT - 1) /\ j = 0
  \/ kd \in {"leaf1", "tab"} /\ i \in Entries /\ j = 0
  \/ kd = "leaf2" /\ i \in Entries /\ j \in Entries
  \/ kd \in {"one", "two"} /\ i = 0 /\ j = 0

Slots == {x \in Inodes \X Kinds \X Nat \X Nat : Valid(x[2], x[3], x[4])}

\* The first offset a file needs a slot for.
From(kd, i, j) ==
  IF kd = "direct" THEN i * BLOCK_SIZE
  ELSE IF kd = "leaf1" THEN level_end0 + i * BLOCK_SIZE
  ELSE IF kd = "leaf2" THEN level_end1 + i * index_one_size + j * BLOCK_SIZE
  ELSE IF kd = "one" THEN level_end0
  ELSE IF kd = "two" THEN level_end1
  ELSE level_end1 + i * index_one_size

\* An index block is there a step before the first block it names.
Early(f, kd, i) ==
  \/ kd = "one" /\ Using(f, {"one"})
  \/ kd = "two" /\ Using(f, {"two", "table"})
  \/ kd = "tab" /\ Using(f, {"table"}) /\ i = job.i

Has(f, kd, i, j) == From(kd, i, j) < inode[f].size \/ Early(f, kd, i)

At(f, kd, i, j) ==
  IF kd = "direct" THEN inode[f].index[i]
  ELSE IF kd = "leaf1" THEN TableOne(f)[i]
  ELSE IF kd = "leaf2" THEN TableAt(f, i)[j]
  ELSE IF kd = "one" THEN inode[f].index[One]
  ELSE IF kd = "two" THEN inode[f].index[Two]
  ELSE TableTwo(f)[i]

BlockOf == [x \in {x \in Slots : Has(x[1], x[2], x[3], x[4])} |-> At(x[1], x[2], x[3], x[4])]

\* The blocks S are those of the map M, each in one place.
Exact(M, S) ==
  /\ \A x \in DOMAIN M : M[x] \in S
  /\ \A b \in S : \E x \in DOMAIN M : M[x] = b
  /\ \A x, y \in DOMAIN M : M[x] = M[y] => x = y

Pointers == 0..BLOCK_NUM
Table    == [Entries -> Pointers]
Chunk    == Seq(Inodes \X Int \X Labels)

NodeType == [size : Nat, index : [0..Two -> Pointers]]
JobType  == [f : Inodes \cup {0}, offset : Nat, rest : Chunk, i : Nat,
             at : {"idle", "level", "one", "two", "table"},
             flag1 : BOOLEAN, flag2 : BOOLEAN]

DataType ==
  /\ block_bitmap \in SUBSET Blocks /\ block_bit_index \in Blocks
  /\ ptrs \in [Blocks -> Table]
  /\ inode \in [Inodes -> NodeType]
  /\ index_block1 \in Table /\ index_block2 \in Table
  /\ job \in JobType
  /\ \A f \in Inodes : inode[f].size <= level_end2

TableStart == level_end1 + job.i * index_one_size

\* The write in progress: at the end of its file, and an index block in memory
\* that is not marked as changed is the one on disk or names nothing yet.
JobOK ==
  /\ job.at = "idle" => job = NoJob
  /\ job.at # "idle" => job.f \in Inodes /\ job.offset = inode[job.f].size
  /\ job.at = "one" =>
       /\ level_end0 <= job.offset /\ job.offset <= level_end1
       /\ job.offset = level_end0 => job.rest # <<>>
       /\ job.flag1 \/ job.offset = level_end0 \/ index_block1 = ptrs[Ino.index[One]]
  /\ job.at = "two" =>
       /\ level_end1 <= job.offset /\ job.offset <= level_end2
       /\ job.offset = level_end1 => job.rest # <<>>
       /\ job.flag1 \/ job.offset = level_end1 \/ index_block1 = ptrs[Ino.index[Two]]
  /\ job.at = "table" =>
       /\ job.i \in Entries /\ TableStart <= job.offset /\ job.offset <= TableEnd
       /\ job.offset = TableStart => job.rest # <<>>
       /\ job.flag1 \/ index_block1 = ptrs[Ino.index[Two]]
       /\ job.flag2 \/ job.offset = TableStart \/ index_block2 = ptrs[index_block1[job.i]]

DataInv == DataType /\ JobOK /\ Exact(BlockOf, block_bitmap)
-----------------------------------------------------------------------------
(* Arithmetic of blocks and levels. *)

(* The constants, without the other assumptions on them. *)
LEMMA Sizes ==
  /\ BLOCK_SIZE \in Nat /\ BLOCK_SIZE > 0 /\ DIRECT \in Nat /\ DIRECT > 0
  /\ PTRS \in Nat /\ PTRS > 0 /\ BLOCK_NUM \in Nat /\ BLOCK_NUM > 0
  /\ ENTRY \in Nat /\ ENTRY > 0 /\ GiveBackFrom \in Nat
BY BlockAssumption

(* Multiples of m are m apart. *)
LEMMA Multiples ==
  ASSUME NEW m \in Nat, m > 0, NEW a \in Int, NEW b \in Int
  PROVE  /\ a * m \in Int
         /\ (a + 1) * m = a * m + m
         /\ a < b => a * m + m <= b * m
         /\ a <= b => a * m <= b * m
         /\ a * m = b * m => a = b
<1>1. a * m \in Int /\ b * m \in Int /\ (a + 1) * m = a * m + m
  OBVIOUS
<1>2. ASSUME NEW c \in Int, NEW d \in Int, c < d  PROVE c * m + m <= d * m
  <2>1. d - c - 1 \in Nat
    BY <1>2
  <2>2. (d - c - 1) * m >= 0
    BY <2>1
  <2>3. (d - c - 1) * m = d * m - c * m - m
    BY <1>2
  <2> QED
    BY <2>2, <2>3
<1>3. a < b => a * m + m <= b * m
  BY <1>2
<1>4. b < a => b * m + m <= a * m
  BY <1>2
<1> QED
  BY <1>1, <1>3, <1>4

(* The remainder of a number that is q blocks and r bytes. *)
LEMMA Division ==
  ASSUME NEW m \in Nat, m > 0, NEW o \in Nat
  PROVE  /\ o \div m \in Nat /\ o % m \in 0..(m - 1)
         /\ o = (o \div m) * m + (o % m)
<1>1. o \div m \in Nat /\ o % m \in 0..(m - 1) /\ o = m * (o \div m) + (o % m)
  OBVIOUS
<1>2. m * (o \div m) = (o \div m) * m
  BY <1>1
<1> QED
  BY <1>1, <1>2

(* A multiple leaves no remainder. *)
LEMMA NoRemainder ==
  ASSUME NEW m \in Nat, m > 0, NEW q \in Nat
  PROVE  (q * m) % m = 0 /\ (q * m) \div m = q
<1> DEFINE o == q * m
<1>1. o \in Nat
  OBVIOUS
<1> HIDE DEF o
<1>2. o \div m \in Nat /\ o % m \in 0..(m - 1) /\ o = (o \div m) * m + (o % m)
  BY <1>1, Division
<1>3. o = q * m
  BY DEF o
<1> DEFINE d == o \div m
           r == o % m
<1>4. d \in Nat /\ r \in 0..(m - 1) /\ q * m = d * m + r
  BY <1>2, <1>3
<1> HIDE DEF d, r
<1>5. q < d => q * m + m <= d * m
  BY <1>4, Multiples
<1>6. d < q => d * m + m <= q * m
  BY <1>4, Multiples
<1>7. d * m \in Int /\ q * m \in Int
  BY <1>4
<1>8. d = q
  BY <1>4, <1>5, <1>6, <1>7
<1>9. r = 0
  BY <1>4, <1>7, <1>8
<1> QED
  BY <1>8, <1>9 DEF d, r, o

(* The ends of the levels are multiples of the block size, one above the other. *)
LEMMA Levels ==
  /\ level_end0 \in Nat /\ level_end1 \in Nat /\ level_end2 \in Nat /\ index_one_size \in Nat
  /\ level_end0 > 0 /\ index_one_size > 0
  /\ level_end0 = DIRECT * BLOCK_SIZE /\ index_one_size = PTRS * BLOCK_SIZE
  /\ level_end1 = level_end0 + index_one_size
  /\ level_end2 = level_end1 + PTRS * index_one_size
  /\ level_end1 < level_end2
<1>1. DIRECT * BLOCK_SIZE \in Nat /\ PTRS * BLOCK_SIZE \in Nat
  BY Sizes
<1>2. DIRECT * BLOCK_SIZE >= BLOCK_SIZE /\ PTRS * BLOCK_SIZE >= BLOCK_SIZE
  <2>1. 0 * BLOCK_SIZE + BLOCK_SIZE <= DIRECT * BLOCK_SIZE
    BY Sizes, Multiples
  <2>2. 0 * BLOCK_SIZE + BLOCK_SIZE <= PTRS * BLOCK_SIZE
    BY Sizes, Multiples
  <2> QED
    BY <1>1, <2>1, <2>2, Sizes
<1>3. level_end0 = DIRECT * BLOCK_SIZE /\ index_one_size = PTRS * BLOCK_SIZE
  BY Sizes DEF level_end0, index_one_size
<1>4. index_one_size \in Nat /\ index_one_size > 0
  BY <1>1, <1>2, <1>3, Sizes
<1>5. PTRS * index_one_size \in Nat /\ PTRS * index_one_size >= index_one_size
  <2>1. 0 * index_one_size + index_one_size <= PTRS * index_one_size
    BY <1>4, Sizes, Multiples
  <2>2. PTRS * index_one_size \in Int
    BY <1>4, Sizes
  <2> QED
    BY <1>4, <2>1, <2>2
<1> QED
  BY <1>1, <1>2, <1>3, <1>4, <1>5, Sizes DEF level_end1, level_end2

(* A slot begins at a multiple of the block size, inside its level. *)
LEMMA SlotRange ==
  ASSUME NEW kd \in Kinds, NEW i \in Nat, NEW j \in Nat, Valid(kd, i, j)
  PROVE  /\ From(kd, i, j) \in Nat
         /\ \E q \in Nat : From(kd, i, j) = q * BLOCK_SIZE
         /\ kd = "direct" => From(kd, i, j) + BLOCK_SIZE <= level_end0
         /\ kd = "leaf1" => /\ level_end0 <= From(kd, i, j)
                            /\ From(kd, i, j) + BLOCK_SIZE <= level_end1
         /\ kd \in {"leaf2", "tab"} => /\ level_end1 <= level_end1 + i * index_one_size
                                       /\ level_end1 + i * index_one_size <= From(kd, i, j)
                                       /\ From(kd, i, j) + BLOCK_SIZE
                                            <= level_end1 + i * index_one_size + index_one_size
                                       /\ level_end1 + i * index_one_size + index_one_size <= level_end2
<1> DEFINE B == BLOCK_SIZE
           L == index_one_size
<1>1. B \in Nat /\ B > 0 /\ L \in Nat /\ L > 0
  BY Sizes, Levels
<1>2. i * B \in Nat /\ j * B \in Nat /\ i * L \in Nat
  BY <1>1
<1>3. level_end0 = DIRECT * B /\ L = PTRS * B /\ level_end1 = level_end0 + L
  BY Levels
<1>4. CASE kd = "direct"
  <2>1. From(kd, i, j) = i * B /\ i < DIRECT
    BY <1>4, Sizes DEF From, Valid
  <2>2. i * B + B <= DIRECT * B
    BY <1>1, <2>1, Sizes, Multiples
  <2> QED
    BY <1>2, <1>3, <1>4, <2>1, <2>2
<1>5. CASE kd = "leaf1"
  <2>1. From(kd, i, j) = level_end0 + i * B /\ i < PTRS
    BY <1>5, Sizes DEF From, Valid, Entries
  <2>2. i * B + B <= PTRS * B
    BY <1>1, <2>1, Sizes, Multiples
  <2>3. level_end0 + i * B = (DIRECT + i) * B
    BY <1>1, <1>3, Sizes
  <2> QED
    BY <1>2, <1>3, <1>5, <2>1, <2>2, <2>3, Levels, Sizes
<1>6. CASE kd \in {"one", "two"}
  <2>1. level_end1 = (DIRECT + PTRS) * B
    BY <1>1, <1>3, Sizes
  <2>2. From(kd, i, j) = IF kd = "one" THEN level_end0 ELSE level_end1
    BY <1>6 DEF From
  <2> QED
    BY <1>3, <1>6, <2>1, <2>2, Levels, Sizes
<1>7. CASE kd \in {"leaf2", "tab"}
  <2>2. From(kd, i, j) = level_end1 + i * L + (IF kd = "tab" THEN 0 ELSE j * B)
    BY <1>2, <1>7, Levels DEF From
  <2>3. i < PTRS /\ j < PTRS
    BY <1>7, Sizes DEF Valid, Entries
  <2>4. j * B + B <= PTRS * B
    BY <1>1, <2>3, Sizes, Multiples
  <2>5. i * L + L <= PTRS * L /\ PTRS * L \in Nat
    BY <1>1, <2>3, Sizes, Multiples
  <2>6. i * L = (i * PTRS) * B /\ i * PTRS \in Nat
    BY <1>1, <1>3, Sizes
  <2>7. level_end1 = (DIRECT + PTRS) * B
    BY <1>1, <1>3, Sizes
  <2>8. \A y \in Nat : level_end1 + i * L + y * B = (DIRECT + PTRS + i * PTRS + y) * B
    BY <1>1, <2>6, <2>7, Sizes
  <2>9. \E q \in Nat : From(kd, i, j) = q * B
    <3>1. CASE kd = "tab"
      <4>1. From(kd, i, j) = level_end1 + i * L + 0 * B
        BY <1>1, <1>2, <2>2, <3>1, Levels
      <4>2. From(kd, i, j) = (DIRECT + PTRS + i * PTRS + 0) * B
        BY <2>8, <4>1
      <4>3. DIRECT + PTRS + i * PTRS + 0 \in Nat
        BY <2>6, Sizes
      <4> QED
        BY <4>2, <4>3
    <3>2. CASE kd = "leaf2"
      <4>1. From(kd, i, j) = (DIRECT + PTRS + i * PTRS + j) * B
        BY <2>2, <2>8, <3>2
      <4>2. DIRECT + PTRS + i * PTRS + j \in Nat
        BY <2>6, Sizes
      <4> QED
        BY <4>1, <4>2
    <3> QED
      BY <1>7, <3>1, <3>2
  <2>10. level_end2 = level_end1 + PTRS * L /\ level_end1 \in Nat
    BY Levels
  <2> HIDE DEF B, L
  <2>11. From(kd, i, j) + B <= level_end1 + i * L + L /\ level_end1 + i * L <= From(kd, i, j)
    BY <1>1, <1>2, <1>3, <2>2, <2>4, <2>10
  <2>12. level_end1 + i * L + L <= level_end2
    BY <1>1, <1>2, <2>5, <2>10
  <2> QED
    BY <1>1, <1>2, <1>7, <2>2, <2>9, <2>11, <2>12, <2>10 DEF B, L
<1> QED
  BY <1>4, <1>5, <1>6, <1>7 DEF Kinds

(* The second level begins at level_end1. *)
LEMMA SecondLevel ==
  ASSUME NEW kd \in {"two", "leaf2", "tab"}, NEW i \in Nat, NEW j \in Nat, Valid(kd, i, j)
  PROVE  level_end1 <= From(kd, i, j)
<1>1. CASE kd = "two"
  BY <1>1, Levels DEF From
<1>2. CASE kd # "two"
  <2> DEFINE z == level_end1 + i * index_one_size
  <2>1. level_end1 <= z /\ z <= From(kd, i, j) /\ From(kd, i, j) \in Nat
    BY <1>2, SlotRange DEF Kinds
  <2>2. z \in Nat /\ level_end1 \in Nat
    BY Levels
  <2> HIDE DEF z
  <2> QED
    BY <2>1, <2>2
<1> QED
  BY <1>1, <1>2

(* The index block of the second level for an offset. *)
LEMMA SameTable ==
  ASSUME NEW i \in Nat, NEW j \in Nat, Valid("tab", i, j), NEW t \in Nat,
         level_end1 + t * index_one_size <= From("tab", i, j),
         From("tab", i, j) < level_end1 + t * index_one_size + index_one_size
  PROVE  i = t
<1> DEFINE L == index_one_size
<1>1. L \in Nat /\ L > 0 /\ level_end1 \in Nat
  BY Levels
<1>2. From("tab", i, j) = level_end1 + i * L
  BY DEF From
<1>3. i * L \in Nat /\ t * L \in Nat
  BY <1>1
<1>4. (i < t => i * L + L <= t * L) /\ (t < i => t * L + L <= i * L)
  BY <1>1, Multiples
<1>5. level_end1 + t * L <= level_end1 + i * L /\ level_end1 + i * L < level_end1 + t * L + L
  BY <1>2
<1> HIDE DEF L
<1> QED
  BY <1>1, <1>3, <1>4, <1>5

(* The first level ends at level_end1. *)
LEMMA FirstLevel ==
  ASSUME NEW kd \in {"direct", "leaf1", "one"}, NEW i \in Nat, NEW j \in Nat, Valid(kd, i, j)
  PROVE  From(kd, i, j) < level_end1
<1>1. CASE kd = "one"
  BY <1>1, Levels DEF From
<1>2. CASE kd = "direct"
  <2>1. From(kd, i, j) \in Nat /\ From(kd, i, j) + BLOCK_SIZE <= level_end0
    BY <1>2, SlotRange DEF Kinds
  <2> QED
    BY <2>1, Levels, Sizes
<1>3. CASE kd = "leaf1"
  <2>1. From(kd, i, j) \in Nat /\ From(kd, i, j) + BLOCK_SIZE <= level_end1
    BY <1>3, SlotRange DEF Kinds
  <2> QED
    BY <2>1, Levels, Sizes
<1> QED
  BY <1>1, <1>2, <1>3

(* Two blocks of a file for the same offset are the same slot. *)
LEMMA SameSlot ==
  ASSUME NEW kd \in Kinds, NEW i \in Nat, NEW j \in Nat, Valid(kd, i, j),
         NEW kd2 \in Kinds, NEW i2 \in Nat, NEW j2 \in Nat, Valid(kd2, i2, j2),
         From(kd, i, j) = From(kd2, i2, j2),
         {kd, kd2} \subseteq {"direct", "leaf1", "leaf2"} \/ kd = kd2
  PROVE  kd = kd2 /\ i = i2 /\ j = j2
<1> DEFINE B == BLOCK_SIZE
           L == index_one_size
           o == From(kd, i, j)
<1>1. B \in Nat /\ B > 0 /\ L \in Nat /\ L > 0 /\ level_end0 \in Nat /\ level_end1 \in Nat
  BY Sizes, Levels
<1>2. level_end1 = level_end0 + L
  BY Levels
<1>4. i * B \in Nat /\ j * B \in Nat /\ i2 * B \in Nat /\ j2 * B \in Nat
      /\ i * L \in Nat /\ i2 * L \in Nat
  BY <1>1
<1>3. kd = kd2
  <2>1. /\ kd = "direct" => o + B <= level_end0
        /\ kd = "leaf1" => level_end0 <= o /\ o + B <= level_end1
        /\ kd = "leaf2" => level_end1 + i * L <= o
        /\ o \in Nat
    BY SlotRange
  <2>2. /\ kd2 = "direct" => o + B <= level_end0
        /\ kd2 = "leaf1" => level_end0 <= o /\ o + B <= level_end1
        /\ kd2 = "leaf2" => level_end1 + i2 * L <= o
    BY SlotRange
  <2> HIDE DEF o, B, L
  <2> QED
    BY <1>1, <1>2, <1>4, <2>1, <2>2
<1>5. (i * B = i2 * B => i = i2) /\ (j * B = j2 * B => j = j2) /\ (i * L = i2 * L => i = i2)
  BY <1>1, Multiples
<1>6. CASE kd \in {"direct", "leaf1"}
  <2>1. j = 0 /\ j2 = 0
    BY <1>3, <1>6 DEF Valid
  <2>2. i * B = i2 * B
    BY <1>1, <1>3, <1>4, <1>6 DEF From
  <2> QED
    BY <1>3, <1>5, <2>1, <2>2
<1>7. CASE kd \in {"one", "two"}
  BY <1>3, <1>7 DEF Valid
<1>8. CASE kd = "tab"
  <2>1. j = 0 /\ j2 = 0
    BY <1>3, <1>8 DEF Valid
  <2>2. i * L = i2 * L
    BY <1>1, <1>3, <1>4, <1>8 DEF From
  <2> QED
    BY <1>3, <1>5, <2>1, <2>2
<1>9. CASE kd = "leaf2"
  <2>1. i * L <= o - level_end1 /\ o - level_end1 < i * L + L
    BY <1>1, <1>4, <1>9, SlotRange
  <2>2. i2 * L <= o - level_end1 /\ o - level_end1 < i2 * L + L
    BY <1>1, <1>3, <1>4, <1>9, SlotRange
  <2>3. i < i2 => i * L + L <= i2 * L
    BY <1>1, Multiples
  <2>4. i2 < i => i2 * L + L <= i * L
    BY <1>1, Multiples
  <2>5. o \in Nat
    BY SlotRange
  <2>6. o = level_end1 + i * L + j * B /\ o = level_end1 + i2 * L + j2 * B
    BY <1>3, <1>9 DEF From
  <2> HIDE DEF o
  <2>7. i = i2
    BY <1>1, <1>4, <2>1, <2>2, <2>3, <2>4, <2>5
  <2>8. j * B = j2 * B
    BY <1>1, <1>4, <2>5, <2>6, <2>7
  <2> QED
    BY <1>3, <1>5, <2>7, <2>8
<1> QED
  BY <1>6, <1>7, <1>8, <1>9 DEF Kinds

(* The slots a file gets by growing to the end of a block at most begin where the
   file ended, at the beginning of a block. *)
LEMMA StepOver ==
  ASSUME NEW kd \in Kinds, NEW i \in Nat, NEW j \in Nat, Valid(kd, i, j),
         NEW o \in Nat, NEW c \in Nat, c <= BLOCK_SIZE - (o % BLOCK_SIZE),
         o <= From(kd, i, j), From(kd, i, j) < o + c
  PROVE  From(kd, i, j) = o /\ o % BLOCK_SIZE = 0
<1> DEFINE B == BLOCK_SIZE
           d == o \div B
           r == o % B
<1>1. B \in Nat /\ B > 0
  BY Sizes
<1>2. d \in Nat /\ r \in 0..(B - 1) /\ o = d * B + r
  BY <1>1, Division
<1>3. PICK q \in Nat : From(kd, i, j) = q * B
  BY SlotRange
<1>4. c <= B - r /\ o <= q * B /\ q * B < o + c
  BY <1>3
<1> HIDE DEF d, r, B
<1>5. d < q => d * B + B <= q * B
  BY <1>1, <1>2, Multiples
<1>6. q <= d => q * B <= d * B
  BY <1>1, <1>2, Multiples
<1>7. d * B \in Int /\ q * B \in Int
  BY <1>1, <1>2
<1>8. q * B = o /\ r = 0
  BY <1>1, <1>2, <1>4, <1>5, <1>6, <1>7
<1> QED
  BY <1>3, <1>8 DEF r, B

(* The slot of an offset at the beginning of a block, as the loops of write_data()
   compute it. *)
LEMMA SlotAt ==
  ASSUME NEW base \in Nat, NEW q \in Nat, base = q * BLOCK_SIZE,
         NEW o \in Nat, base <= o, o % BLOCK_SIZE = 0
  PROVE  /\ (o - base) \div BLOCK_SIZE \in Nat
         /\ o = base + ((o - base) \div BLOCK_SIZE) * BLOCK_SIZE
<1> DEFINE B == BLOCK_SIZE
           d == o \div B
<1>1. B \in Nat /\ B > 0
  BY Sizes
<1>2. d \in Nat /\ o = d * B
  BY <1>1, Division
<1> HIDE DEF d
<1>3. q <= d
  <2>1. d < q => d * B + B <= q * B
    BY <1>1, <1>2, Multiples
  <2> QED
    BY <1>1, <1>2, <2>1
<1>4. o - base = (d - q) * B
  BY <1>1, <1>2
<1>5. (o - base) \div B = d - q
  BY <1>1, <1>2, <1>3, <1>4, NoRemainder
<1> QED
  BY <1>1, <1>2, <1>3, <1>4, <1>5
-----------------------------------------------------------------------------
(* Free blocks. *)

(* Every set of natural numbers that is not empty has a least element. *)
LEMMA LeastElement ==
  ASSUME NEW T \in SUBSET Nat, T # {}
  PROVE  \E n \in T : \A m \in T : n <= m
<1> DEFINE R == OpToRel(<, Nat)
<1>1. IsWellFoundedOn(R, Nat)
  BY NatLessThanWellFounded
<1>2. \A m, n \in Nat : <<m, n>> \in R <=> m < n
  BY DEF OpToRel
<1> HIDE DEF R
<1>3. PICK n \in T : \A m \in T : ~(<<m, n>> \in R)
  BY <1>1, WFMin
<1>4. \A m \in T : m \in Nat /\ n \in Nat /\ ~(m < n)
  BY <1>2, <1>3
<1> QED
  BY <1>3, <1>4

(* get_free_block() finds a block that is not in use. *)
LEMMA FreeBlockIsFree ==
  ASSUME block_bitmap \in SUBSET Blocks, block_bit_index \in Blocks, block_bitmap # Blocks
  PROVE  FreeBlock \in Blocks /\ FreeBlock \notin block_bitmap
<1> DEFINE Turn(k) == (block_bit_index + k) % BLOCK_NUM
           Good(k) == Turn(k) \notin block_bitmap /\ \A j \in 0..(k - 1) : Turn(j) \in block_bitmap
           k0 == CHOOSE k \in Blocks : Good(k)
           T == {k \in Blocks : Turn(k) \notin block_bitmap}
<1>1. PICK b \in Blocks : b \notin block_bitmap
  OBVIOUS
<1>2. \E k \in Blocks : Turn(k) = b
  <2> DEFINE k == IF b < block_bit_index THEN b - block_bit_index + BLOCK_NUM ELSE b - block_bit_index
  <2>1. k \in Blocks /\ (block_bit_index + k = b \/ block_bit_index + k = b + BLOCK_NUM)
    BY Sizes DEF Blocks
  <2>2. b % BLOCK_NUM = b /\ (b + BLOCK_NUM) % BLOCK_NUM = b
    BY Sizes DEF Blocks
  <2>3. Turn(k) = b
    BY <2>1, <2>2
  <2> QED
    BY <2>1, <2>3
<1>3. T \in SUBSET Nat /\ T # {}
  <2>1. Blocks \subseteq Nat
    BY Sizes DEF Blocks
  <2>2. PICK k \in Blocks : Turn(k) = b
    BY <1>2
  <2>3. k \in T
    BY <1>1, <2>2
  <2> QED
    BY <2>1, <2>3
<1>4. PICK n \in T : \A m \in T : n <= m
  <2> HIDE DEF T
  <2> QED
    BY <1>3, LeastElement
<1>5. Good(n)
  <2>1. n \in Blocks /\ Turn(n) \notin block_bitmap
    BY <1>4
  <2>2. ASSUME NEW j \in 0..(n - 1)  PROVE Turn(j) \in block_bitmap
    <3>1. j \in Blocks /\ ~(n <= j)
      BY <2>1, <2>2, Sizes DEF Blocks
    <3> QED
      BY <1>4, <3>1
  <2> QED
    BY <2>1, <2>2
<1>6. \E k \in Blocks : Good(k)
  BY <1>4, <1>5
<1>7. k0 \in Blocks /\ Good(k0)
  <2> HIDE DEF Good
  <2> QED
    BY <1>6
<1>8. FreeBlock = Turn(k0)
  BY DEF FreeBlock
<1>9. Turn(k0) \in Blocks
  <2>1. \A z \in Nat : z % BLOCK_NUM \in 0..(BLOCK_NUM - 1)
    BY Sizes, Division
  <2>2. block_bit_index + k0 \in Nat
    BY <1>7, Sizes DEF Blocks
  <2> QED
    BY <2>1, <2>2 DEF Blocks
<1> QED
  BY <1>7, <1>8, <1>9
-----------------------------------------------------------------------------
(* What a step does to the map of the blocks. *)

(* The map, slot by slot. *)
LEMMA InMap ==
  ASSUME NEW f \in Inodes, NEW kd \in Kinds, NEW i \in Nat, NEW j \in Nat, Valid(kd, i, j)
  PROVE  /\ <<f, kd, i, j>> \in DOMAIN BlockOf <=> Has(f, kd, i, j)
         /\ Has(f, kd, i, j) => BlockOf[<<f, kd, i, j>>] = At(f, kd, i, j)
<1>1. <<f, kd, i, j>> \in Slots
  BY DEF Slots
<1> QED
  BY <1>1 DEF BlockOf

(* What the slots hold is marked. *)
LEMMA HeldMarked ==
  ASSUME Exact(BlockOf, block_bitmap),
         NEW f \in Inodes, NEW kd \in Kinds, NEW i \in Nat, NEW j \in Nat, Valid(kd, i, j),
         Has(f, kd, i, j)
  PROVE  At(f, kd, i, j) \in block_bitmap
<1> DEFINE x == <<f, kd, i, j>>
<1>1. x \in DOMAIN BlockOf /\ BlockOf[x] = At(f, kd, i, j)
  BY InMap
<1>2. \A y \in DOMAIN BlockOf : BlockOf[y] \in block_bitmap
  BY DEF Exact
<1> HIDE DEF x
<1> QED
  BY <1>1, <1>2

(* No two slots hold the same block. *)
LEMMA HeldOnce ==
  ASSUME Exact(BlockOf, block_bitmap),
         NEW f \in Inodes, NEW kd \in Kinds, NEW i \in Nat, NEW j \in Nat, Valid(kd, i, j),
         Has(f, kd, i, j),
         NEW f2 \in Inodes, NEW kd2 \in Kinds, NEW i2 \in Nat, NEW j2 \in Nat, Valid(kd2, i2, j2),
         Has(f2, kd2, i2, j2),
         At(f, kd, i, j) = At(f2, kd2, i2, j2)
  PROVE  f = f2 /\ kd = kd2 /\ i = i2 /\ j = j2
<1> DEFINE x == <<f, kd, i, j>>
           y == <<f2, kd2, i2, j2>>
<1>1. x \in DOMAIN BlockOf /\ BlockOf[x] = At(f, kd, i, j)
  BY InMap
<1>2. y \in DOMAIN BlockOf /\ BlockOf[y] = At(f2, kd2, i2, j2)
  BY InMap
<1>3. \A z, w \in DOMAIN BlockOf : BlockOf[z] = BlockOf[w] => z = w
  BY DEF Exact
<1>4. x = y
  <2> HIDE DEF x, y
  <2> QED
    BY <1>1, <1>2, <1>3
<1> QED
  BY <1>4

(* A slot is a file, a kind and two numbers. *)
LEMMA SlotParts ==
  ASSUME NEW x \in Slots
  PROVE  /\ x[1] \in Inodes /\ x[2] \in Kinds /\ x[3] \in Nat /\ x[4] \in Nat
         /\ Valid(x[2], x[3], x[4]) /\ x = <<x[1], x[2], x[3], x[4]>>
BY DEF Slots

\* What is held before and after the step is held at the same place.
Kept ==
  \A f \in Inodes, kd \in Kinds, i \in Nat, j \in Nat :
    Valid(kd, i, j) /\ Has(f, kd, i, j) /\ Has(f, kd, i, j)' => At(f, kd, i, j)' = At(f, kd, i, j)

(* A step that takes and gives back no block and moves none. *)
LEMMA SameMap ==
  ASSUME Exact(BlockOf, block_bitmap), block_bitmap' = block_bitmap,
         \A f \in Inodes, kd \in Kinds, i \in Nat, j \in Nat : Valid(kd, i, j) =>
           /\ Has(f, kd, i, j)' <=> Has(f, kd, i, j)
           /\ Has(f, kd, i, j) => At(f, kd, i, j)' = At(f, kd, i, j)
  PROVE  Exact(BlockOf, block_bitmap)' /\ Kept
<1> DEFINE H(x) == Has(x[1], x[2], x[3], x[4])
           A(x) == At(x[1], x[2], x[3], x[4])
<1>1. \A x \in Slots : (H(x)' <=> H(x)) /\ (H(x) => A(x)' = A(x))
  BY SlotParts
<1>2. BlockOf = [x \in {x \in Slots : H(x)} |-> A(x)]
  BY DEF BlockOf
<1>3. BlockOf' = [x \in {x \in Slots : H(x)'} |-> A(x)']
  BY DEF BlockOf
<1> HIDE DEF H, A
<1>4. {x \in Slots : H(x)'} = {x \in Slots : H(x)}
  BY <1>1
<1>5. BlockOf' = BlockOf
  BY <1>1, <1>2, <1>3, <1>4
<1>6. Kept
  BY DEF Kept
<1> QED
  BY <1>5, <1>6 DEF Exact

\* The step takes the free block b for a slot.
Added(b, f0, kd0, i0, j0) ==
  /\ b \notin block_bitmap /\ block_bitmap' = block_bitmap \cup {b}
  /\ Valid(kd0, i0, j0) /\ ~Has(f0, kd0, i0, j0)
  /\ Has(f0, kd0, i0, j0)' /\ At(f0, kd0, i0, j0)' = b
  /\ \A f \in Inodes, kd \in Kinds, i \in Nat, j \in Nat : Valid(kd, i, j) =>
       /\ Has(f, kd, i, j)' => Has(f, kd, i, j) \/ (f = f0 /\ kd = kd0 /\ i = i0 /\ j = j0)
       /\ Has(f, kd, i, j) => Has(f, kd, i, j)' /\ At(f, kd, i, j)' = At(f, kd, i, j)

(* Such a step keeps the map exact. *)
LEMMA OneMore ==
  ASSUME Exact(BlockOf, block_bitmap),
         NEW b, NEW f0 \in Inodes, NEW kd0 \in Kinds, NEW i0 \in Nat, NEW j0 \in Nat,
         Added(b, f0, kd0, i0, j0)
  PROVE  Exact(BlockOf, block_bitmap)' /\ Kept
<1> USE DEF Added
<1> DEFINE H(x) == Has(x[1], x[2], x[3], x[4])
           A(x) == At(x[1], x[2], x[3], x[4])
           z == <<f0, kd0, i0, j0>>
           D == {x \in Slots : H(x)}
           E == {x \in Slots : H(x)'}
<1>1. \A x \in Slots : (H(x)' => H(x) \/ x = z) /\ (H(x) => H(x)' /\ A(x)' = A(x))
  <2> TAKE x \in Slots
  <2>1. /\ x[1] \in Inodes /\ x[2] \in Kinds /\ x[3] \in Nat /\ x[4] \in Nat
        /\ Valid(x[2], x[3], x[4]) /\ x = <<x[1], x[2], x[3], x[4]>>
    BY SlotParts
  <2>2. H(x)' => H(x) \/ x = z
    BY <2>1
  <2>3. H(x) => H(x)' /\ A(x)' = A(x)
    BY <2>1
  <2> QED
    BY <2>2, <2>3
<1>2. z \in Slots /\ ~H(z) /\ H(z)' /\ A(z)' = b
  BY DEF Slots
<1>3. DOMAIN BlockOf = D /\ \A x \in D : BlockOf[x] = A(x)
  BY DEF BlockOf
<1>4. DOMAIN BlockOf' = E /\ \A x \in E : BlockOf'[x] = A(x)'
  BY DEF BlockOf
<1> HIDE DEF H, A, z
<1>5. E = D \cup {z} /\ z \notin D
  BY <1>1, <1>2
<1>6. \A x \in D : x \in E /\ BlockOf'[x] = BlockOf[x]
  BY <1>1, <1>3, <1>4, <1>5
<1>7. BlockOf'[z] = b
  BY <1>2, <1>4, <1>5
<1> HIDE DEF D, E
<1>8. /\ \A x \in D : BlockOf[x] \in block_bitmap
      /\ \A c \in block_bitmap : \E x \in D : BlockOf[x] = c
      /\ \A x, y \in D : BlockOf[x] = BlockOf[y] => x = y
  BY <1>3 DEF Exact
<1>9. \A x \in E : BlockOf'[x] \in block_bitmap'
  BY <1>5, <1>6, <1>7, <1>8
<1>10. \A c \in block_bitmap' : \E x \in E : BlockOf'[x] = c
  BY <1>5, <1>6, <1>7, <1>8
<1>11. \A x, y \in E : BlockOf'[x] = BlockOf'[y] => x = y
  <2> SUFFICES ASSUME NEW x \in E, NEW y \in E, BlockOf'[x] = BlockOf'[y]  PROVE x = y
    OBVIOUS
  <2>1. CASE x \in D /\ y \in D
    BY <1>6, <1>8, <2>1
  <2>2. CASE x = z /\ y \in D
    BY <1>6, <1>7, <1>8, <2>2
  <2>3. CASE x \in D /\ y = z
    BY <1>6, <1>7, <1>8, <2>3
  <2> QED
    BY <1>5, <2>1, <2>2, <2>3
<1>12. Kept
  BY DEF Kept
<1> QED
  BY <1>4, <1>9, <1>10, <1>11, <1>12 DEF Exact

(* A step that gives back the blocks G, those of the slots that are no longer
   held. *)
LEMMA Fewer ==
  ASSUME Exact(BlockOf, block_bitmap),
         NEW G, block_bitmap' = block_bitmap \ G,
         \A f \in Inodes, kd \in Kinds, i \in Nat, j \in Nat : Valid(kd, i, j) =>
           /\ Has(f, kd, i, j)' => Has(f, kd, i, j) /\ At(f, kd, i, j)' = At(f, kd, i, j)
           /\ Has(f, kd, i, j) /\ ~Has(f, kd, i, j)' => At(f, kd, i, j) \in G,
         \A b \in G : \E f \in Inodes, kd \in Kinds, i \in Nat, j \in Nat :
           /\ Valid(kd, i, j) /\ Has(f, kd, i, j) /\ ~Has(f, kd, i, j)'
           /\ At(f, kd, i, j) = b
  PROVE  Exact(BlockOf, block_bitmap)' /\ Kept
<1> DEFINE H(x) == Has(x[1], x[2], x[3], x[4])
           A(x) == At(x[1], x[2], x[3], x[4])
           D == {x \in Slots : H(x)}
           E == {x \in Slots : H(x)'}
<1>1. \A x \in Slots : /\ H(x)' => H(x) /\ A(x)' = A(x)
                       /\ H(x) /\ ~H(x)' => A(x) \in G
  BY SlotParts
<1>2. \A b \in G : \E x \in Slots : H(x) /\ ~H(x)' /\ A(x) = b
  <2> TAKE b \in G
  <2>1. PICK f \in Inodes, kd \in Kinds, i \in Nat, j \in Nat :
           /\ Valid(kd, i, j) /\ Has(f, kd, i, j) /\ ~Has(f, kd, i, j)'
           /\ At(f, kd, i, j) = b
    OBVIOUS
  <2> DEFINE x == <<f, kd, i, j>>
  <2>2. x \in Slots
    BY <2>1 DEF Slots
  <2>3. H(x) /\ ~H(x)' /\ A(x) = b
    BY <2>1
  <2> QED
    BY <2>2, <2>3
<1>3. DOMAIN BlockOf = D /\ \A x \in D : BlockOf[x] = A(x)
  BY DEF BlockOf
<1>4. DOMAIN BlockOf' = E /\ \A x \in E : BlockOf'[x] = A(x)'
  BY DEF BlockOf
<1> HIDE DEF H, A
<1>5. \A x \in E : x \in D /\ BlockOf'[x] = BlockOf[x]
  BY <1>1, <1>3, <1>4
<1>6. \A x \in D : x \notin E => BlockOf[x] \in G
  BY <1>1, <1>3
<1>7. \A b \in G : \E x \in D : x \notin E /\ BlockOf[x] = b
  BY <1>2, <1>3
<1> HIDE DEF D, E
<1>8. /\ \A x \in D : BlockOf[x] \in block_bitmap
      /\ \A c \in block_bitmap : \E x \in D : BlockOf[x] = c
      /\ \A x, y \in D : BlockOf[x] = BlockOf[y] => x = y
  BY <1>3 DEF Exact
<1>9. \A x \in E : BlockOf'[x] \in block_bitmap'
  <2> TAKE x \in E
  <2>1. x \in D /\ BlockOf'[x] = BlockOf[x] /\ BlockOf[x] \in block_bitmap
    BY <1>5, <1>8
  <2>2. BlockOf[x] \notin G
    BY <1>7, <1>8, <2>1
  <2> QED
    BY <2>1, <2>2
<1>10. \A c \in block_bitmap' : \E x \in E : BlockOf'[x] = c
  <2> TAKE c \in block_bitmap'
  <2>1. PICK x \in D : BlockOf[x] = c
    BY <1>8
  <2>2. x \in E
    BY <1>6, <2>1
  <2> QED
    BY <1>5, <2>1, <2>2
<1>11. \A x, y \in E : BlockOf'[x] = BlockOf'[y] => x = y
  BY <1>5, <1>8
<1>12. Kept
  BY DEF Kept
<1> QED
  BY <1>4, <1>9, <1>10, <1>11, <1>12 DEF Exact

\* The step puts bytes into the block b of the slot the write is at, which is
\* nobody else's.
StoredAt(kd, i, j, b) ==
  /\ Valid(kd, i, j) /\ From(kd, i, j) <= job.offset /\ job.offset < From(kd, i, j) + BLOCK_SIZE
  /\ \A f \in Inodes : f = job.f => At(f, kd, i, j)' = b
  /\ \A f \in Inodes, kd2 \in Kinds, i2 \in Nat, j2 \in Nat :
       Valid(kd2, i2, j2) /\ Has(f, kd2, i2, j2) /\ At(f, kd2, i2, j2) = b =>
         f = job.f /\ kd2 = kd /\ i2 = i /\ j2 = j
  /\ Store(b)

Stored == \E kd \in DataKinds, i \in Nat, j \in Nat, b \in Blocks : StoredAt(kd, i, j, b)

(* A block that was free is nobody's. *)
LEMMA StoredNew ==
  ASSUME Exact(BlockOf, block_bitmap), NEW b \in Blocks, NEW g \in Inodes, g = job.f,
         NEW kd \in DataKinds, NEW i \in Nat, NEW j \in Nat,
         Added(b, g, kd, i, j), Store(b), job.offset \in Nat, From(kd, i, j) = job.offset
  PROVE  Kept /\ Stored
<1>1. Kept
  BY DEF Added, Kept
<1>2. job.offset < job.offset + BLOCK_SIZE /\ job.offset <= job.offset
  BY Sizes
<1>3. ASSUME NEW f \in Inodes, NEW kd2 \in Kinds, NEW i2 \in Nat, NEW j2 \in Nat,
             Valid(kd2, i2, j2), Has(f, kd2, i2, j2), At(f, kd2, i2, j2) = b
      PROVE  FALSE
  BY <1>3, HeldMarked DEF Added
<1>4. StoredAt(kd, i, j, b)
  BY <1>2, <1>3 DEF StoredAt, Added
<1> QED
  BY <1>1, <1>4 DEF Stored

(* A block that is being filled up is that of its slot alone. *)
LEMMA StoredOld ==
  ASSUME DataType, Exact(BlockOf, block_bitmap), NEW b, NEW g \in Inodes, g = job.f,
         NEW kd \in DataKinds, NEW i \in Nat, NEW j \in Nat, Valid(kd, i, j),
         \A f \in Inodes, kd2 \in Kinds, i2 \in Nat, j2 \in Nat : At(f, kd2, i2, j2)' = At(f, kd2, i2, j2),
         b = At(g, kd, i, j), Store(b), ~NewBlock, job.offset \in Nat, job.offset = inode[g].size,
         From(kd, i, j) <= job.offset, job.offset < From(kd, i, j) + BLOCK_SIZE
  PROVE  Kept /\ Stored
<1>1. Kept
  BY DEF Kept
<1>2. kd \in Kinds
  BY DEF Kinds, DataKinds
<1>3. From(kd, i, j) # job.offset
  <2>1. PICK q \in Nat : From(kd, i, j) = q * BLOCK_SIZE
    BY <1>2, SlotRange
  <2>2. (q * BLOCK_SIZE) % BLOCK_SIZE = 0
    BY NoRemainder, Sizes
  <2> QED
    BY <2>1, <2>2 DEF NewBlock
<1>4. Has(g, kd, i, j)
  <2>1. From(kd, i, j) \in Nat
    BY <1>2, SlotRange
  <2> QED
    BY <1>3, <2>1 DEF Has
<1>5. b \in Blocks
  BY <1>2, <1>4, HeldMarked DEF DataType
<1>6. ASSUME NEW f \in Inodes, NEW kd2 \in Kinds, NEW i2 \in Nat, NEW j2 \in Nat,
             Valid(kd2, i2, j2), Has(f, kd2, i2, j2), At(f, kd2, i2, j2) = b
      PROVE  f = g /\ kd2 = kd /\ i2 = i /\ j2 = j
  BY <1>2, <1>4, <1>6, HeldOnce
<1>7. StoredAt(kd, i, j, b)
  BY <1>2, <1>6 DEF StoredAt
<1> QED
  BY <1>1, <1>5, <1>7 DEF Stored

(* The block of an offset that is not at its beginning. *)
LEMMA InBlock ==
  ASSUME NEW base \in Nat, NEW o \in Nat, base <= o
  PROVE  /\ (o - base) \div BLOCK_SIZE \in Nat
         /\ base + ((o - base) \div BLOCK_SIZE) * BLOCK_SIZE <= o
         /\ o < base + ((o - base) \div BLOCK_SIZE) * BLOCK_SIZE + BLOCK_SIZE
         /\ \A m \in Nat : o < base + m * BLOCK_SIZE => (o - base) \div BLOCK_SIZE < m
<1> DEFINE B == BLOCK_SIZE
           d == o - base
           k == d \div B
           r == d % B
           z == k * B
<1>1. B \in Nat /\ B > 0
  BY Sizes
<1>2. d \in Nat /\ o = base + d
  OBVIOUS
<1> HIDE DEF d
<1>3. k \in Nat /\ r \in 0..(B - 1) /\ d = z + r
  BY <1>1, <1>2, Division
<1>4. z \in Nat
  BY <1>1, <1>3
<1>5. ASSUME NEW m \in Nat, o < base + m * B  PROVE k < m
  <2>1. m * B \in Nat /\ (m <= k => m * B <= z)
    BY <1>1, <1>3, Multiples
  <2> DEFINE w == m * B
  <2>2. w \in Nat /\ (m <= k => w <= z) /\ o < base + w
    BY <1>5, <2>1
  <2> HIDE DEF z, r, k, w
  <2> QED
    BY <1>1, <1>2, <1>3, <1>4, <2>2
<1>6. base + z <= o /\ o < base + z + B
  <2> HIDE DEF z, r, k
  <2> QED
    BY <1>1, <1>2, <1>3, <1>4
<1> QED
  BY <1>3, <1>5, <1>6 DEF z, k, d, B
-----------------------------------------------------------------------------
(* One turn of a loop that writes. *)

(* A turn ends at the end of a block at the latest. *)
LEMMA StepEnd ==
  ASSUME NEW q \in Nat, NEW o \in Nat, NEW c \in Nat,
         o < q * BLOCK_SIZE, c <= BLOCK_SIZE - (o % BLOCK_SIZE)
  PROVE  o + c <= q * BLOCK_SIZE
<1> DEFINE B == BLOCK_SIZE
           d == o \div B
           r == o % B
<1>1. B \in Nat /\ B > 0
  BY Sizes
<1>2. d \in Nat /\ r \in 0..(B - 1) /\ o = d * B + r /\ c <= B - r /\ o < q * B
  BY <1>1, Division
<1> HIDE DEF d, r, B
<1>3. q <= d => q * B <= d * B
  BY <1>1, <1>2, Multiples
<1>4. d < q => d * B + B <= q * B
  BY <1>1, <1>2, Multiples
<1>5. d * B \in Int /\ q * B \in Int
  BY <1>1, <1>2
<1>6. o + c <= q * B
  BY <1>1, <1>2, <1>3, <1>4, <1>5
<1> QED
  BY <1>6 DEF B

(* The block of an offset below a multiple of the block size. *)
LEMMA BlockBelow ==
  ASSUME NEW q \in Nat, NEW o \in Nat, o < q * BLOCK_SIZE
  PROVE  o \div BLOCK_SIZE \in Nat /\ o \div BLOCK_SIZE < q
<1> DEFINE B == BLOCK_SIZE
           d == o \div B
           r == o % B
<1>1. B \in Nat /\ B > 0
  BY Sizes
<1>2. d \in Nat /\ r \in 0..(B - 1) /\ o = d * B + r /\ o < q * B
  BY <1>1, Division
<1> HIDE DEF d, r, B
<1>3. q <= d => q * B <= d * B
  BY <1>1, <1>2, Multiples
<1>4. d * B \in Int /\ q * B \in Int
  BY <1>1, <1>2
<1>5. d < q
  BY <1>1, <1>2, <1>3, <1>4
<1> QED
  BY <1>2, <1>5 DEF d, B

(* The length of a turn. *)
LEMMA TurnLength ==
  ASSUME DataType, job.rest # <<>>
  PROVE  /\ in_block \in 0..(BLOCK_SIZE - 1)
         /\ cur_len \in Nat /\ cur_len > 0 /\ cur_len <= Len(job.rest)
         /\ cur_len <= BLOCK_SIZE - (job.offset % BLOCK_SIZE)
         /\ SubSeq(job.rest, cur_len + 1, Len(job.rest)) \in Chunk
<1>1. job.offset \in Nat /\ job.rest \in Chunk
  BY DEF DataType, JobType
<1>2. in_block \in 0..(BLOCK_SIZE - 1)
  BY <1>1, Sizes, Division DEF in_block
<1>3. Len(job.rest) \in Nat /\ Len(job.rest) > 0
  BY <1>1 DEF Chunk
<1>4. cur_len \in Nat /\ cur_len > 0 /\ cur_len <= Len(job.rest) /\ cur_len <= BLOCK_SIZE - in_block
  BY <1>2, <1>3, Sizes DEF cur_len, Least
<1>5. SubSeq(job.rest, cur_len + 1, Len(job.rest)) \in Chunk
  BY <1>1, <1>3, <1>4 DEF Chunk
<1> QED
  BY <1>2, <1>4, <1>5 DEF in_block

\* A turn of the loop of one level: the file and what is left to write.
Turn ==
  /\ job.rest # <<>> /\ job.at # "idle"
  /\ job'.f = job.f /\ job'.at = job.at /\ job'.i = job.i
  /\ job'.offset = job.offset + cur_len
  /\ job'.rest = SubSeq(job.rest, cur_len + 1, Len(job.rest))
  /\ inode'[job.f].size = inode[job.f].size + cur_len
  /\ \A f \in Inodes \ {job.f} : inode'[f] = inode[f]

(* A turn gives the file the slots that begin at its old end, if that is the
   beginning of a block. *)
LEMMA Growth ==
  ASSUME DataType, JobOK, Turn,
         NEW f \in Inodes, NEW kd \in Kinds, NEW i \in Nat, NEW j \in Nat, Valid(kd, i, j)
  PROVE  Has(f, kd, i, j)' <=> \/ Has(f, kd, i, j)
                               \/ f = job.f /\ NewBlock /\ From(kd, i, j) = job.offset
<1> DEFINE o == job.offset
           z == From(kd, i, j)
<1>1. /\ cur_len \in Nat /\ cur_len > 0
      /\ cur_len <= BLOCK_SIZE - (job.offset % BLOCK_SIZE)
  BY TurnLength DEF Turn
<1>2. o \in Nat /\ o = inode[job.f].size
  BY DEF DataType, JobType, JobOK, Turn
<1>3. Early(f, kd, i)' <=> Early(f, kd, i)
  BY DEF Early, Using, Turn
<1>4. From(kd, i, j)' = From(kd, i, j)
  BY DEF From, level_end0, level_end1, index_one_size
<1>5. CASE f # job.f
  BY <1>3, <1>4, <1>5 DEF Has, Turn
<1>6. CASE f = job.f
  <2>1. Has(f, kd, i, j)' <=> z < o + cur_len \/ Early(f, kd, i)
    BY <1>2, <1>3, <1>4, <1>6 DEF Has, Turn
  <2>2. Has(f, kd, i, j) <=> z < o \/ Early(f, kd, i)
    BY <1>2, <1>6 DEF Has
  <2>3. z \in Nat
    BY SlotRange
  <2>4. o <= z /\ z < o + cur_len => z = o /\ NewBlock
    BY <1>1, <1>2, StepOver DEF NewBlock
  <2> HIDE DEF o, z
  <2>5. z = o => z < o + cur_len
    BY <1>1, <1>2, <2>3
  <2>6. z < o => z < o + cur_len
    BY <1>1, <1>2, <2>3
  <2>7. ~(z < o) => o <= z
    BY <1>2, <2>3
  <2> QED
    BY <1>6, <2>1, <2>2, <2>4, <2>5, <2>6, <2>7 DEF o, z
<1> QED
  BY <1>5, <1>6

(* What a slot holds depends on the index of the file, on disk and in memory. *)
LEMMA AtSame ==
  ASSUME NEW f, NEW kd, NEW i, NEW j,
         inode'[f].index = inode[f].index, ptrs' = ptrs,
         index_block1' = index_block1, index_block2' = index_block2,
         job'.f = job.f, job'.at = job.at, job'.i = job.i
  PROVE  At(f, kd, i, j)' = At(f, kd, i, j)
<1>1. \A S : Using(f, S)' <=> Using(f, S)
  BY DEF Using
<1>2. TableOne(f)' = TableOne(f)
  BY <1>1 DEF TableOne, Using, One
<1>3. TableTwo(f)' = TableTwo(f)
  BY <1>1 DEF TableTwo, Using, Two
<1>4. TableAt(f, i)' = TableAt(f, i)
  BY <1>1, <1>3 DEF TableAt, Using
<1> QED
  BY <1>2, <1>3, <1>4 DEF At, One, Two

(* After a turn the write is still at the end of its file, in its level. *)
LEMMA TurnJob ==
  ASSUME DataType, JobOK, Turn
  PROVE  /\ job'.f \in Inodes /\ job'.offset = inode'[job'.f].size
         /\ job'.offset > job.offset
         /\ \A q \in Nat : job.offset < q * BLOCK_SIZE => job'.offset <= q * BLOCK_SIZE
<1>1. job.f \in Inodes /\ job.offset = inode[job.f].size /\ job.offset \in Nat
  BY DEF DataType, JobType, JobOK, Turn
<1>2. /\ cur_len \in Nat /\ cur_len > 0
      /\ cur_len <= BLOCK_SIZE - (job.offset % BLOCK_SIZE)
  BY TurnLength DEF Turn
<1>3. job'.offset = job.offset + cur_len /\ job'.f = job.f
  BY DEF Turn
<1>4. \A q \in Nat : job.offset < q * BLOCK_SIZE => job'.offset <= q * BLOCK_SIZE
  BY <1>1, <1>2, <1>3, StepEnd
<1>5. job'.offset = inode'[job'.f].size
  BY <1>1, <1>3 DEF Turn
<1> QED
  BY <1>1, <1>2, <1>3, <1>4, <1>5

(* The records of a file and of a write, after a turn. *)
LEMMA NodeGrown ==
  ASSUME NEW n \in NodeType
  PROVE  Grown(n) = [size |-> n.size + cur_len, index |-> n.index]
BY DEF NodeType, Grown

(* The job after a turn of a loop. *)
LEMMA JobTurned ==
  ASSUME NEW r \in JobType, NEW c, NEW s,
         s = [r EXCEPT !.offset = @ + c, !.rest = SubSeq(@, c + 1, Len(@))]
  PROVE  s = [f |-> r.f, offset |-> r.offset + c, rest |-> SubSeq(r.rest, c + 1, Len(r.rest)),
              i |-> r.i, at |-> r.at, flag1 |-> r.flag1, flag2 |-> r.flag2]
BY DEF JobType

(* A table stays one when a block is put into it. *)
LEMMA PutType ==
  ASSUME NEW S, NEW T, NEW x \in [S -> T], NEW k, NEW b \in T
  PROVE  [x EXCEPT ![k] = b] \in [S -> T]
OBVIOUS

(* The block that is handed out. *)
LEMMA Handed ==
  ASSUME DataType, GetFreeBlock
  PROVE  /\ FreeBlock \in Blocks /\ FreeBlock \in Pointers /\ FreeBlock \notin block_bitmap
         /\ block_bitmap' = block_bitmap \cup {FreeBlock}
         /\ block_bitmap' \in SUBSET Blocks /\ block_bit_index' \in Blocks
<1>1. FreeBlock \in Blocks /\ FreeBlock \notin block_bitmap
  BY FreeBlockIsFree DEF DataType, GetFreeBlock
<1>2. FreeBlock \in Pointers
  BY <1>1, Sizes DEF Blocks, Pointers
<1> QED
  BY <1>1, <1>2 DEF DataType, GetFreeBlock

(* write_data() in the blocks named in the inode. *)
LEMMA WriteDirectStep ==
  ASSUME DataInv, WriteDirect
  PROVE  DataInv' /\ Kept /\ Turn /\ Stored
<1>1. DataType /\ JobOK /\ Exact(BlockOf, block_bitmap)
  BY DEF DataInv
<1>2. job \in JobType /\ inode \in [Inodes -> NodeType]
  BY <1>1 DEF DataType
<1>3. /\ job.at = "level" /\ job.rest # <<>> /\ job.offset < level_end0
      /\ job.f \in Inodes /\ job.offset = inode[job.f].size /\ job.offset \in Nat
  BY <1>1, <1>2 DEF WriteDirect, More, JobOK, JobType
<1>4. PICK g \in Inodes : g = job.f
  BY <1>3
<1>5. job.offset \div BLOCK_SIZE \in Nat /\ job.offset \div BLOCK_SIZE < DIRECT
  BY <1>3, BlockBelow, Levels, Sizes
<1>6. PICK k \in Nat : k = job.offset \div BLOCK_SIZE /\ k < DIRECT
  BY <1>5
<1>7. cur_len \in Nat /\ cur_len > 0 /\ SubSeq(job.rest, cur_len + 1, Len(job.rest)) \in Chunk
  BY <1>1, <1>3, TurnLength
<1>8. /\ job' = [f |-> job.f, offset |-> job.offset + cur_len,
                 rest |-> SubSeq(job.rest, cur_len + 1, Len(job.rest)),
                 i |-> job.i, at |-> job.at, flag1 |-> job.flag1, flag2 |-> job.flag2]
      /\ ptrs' = ptrs /\ index_block1' = index_block1 /\ index_block2' = index_block2
  <2>1. Step(job) /\ UNCHANGED <<ptrs, index_block1, index_block2>>
    BY DEF WriteDirect, Rest
  <2> QED
    BY <1>2, <2>1, JobTurned DEF Step
<1>9. job' \in JobType
  BY <1>2, <1>3, <1>7, <1>8 DEF JobType
<1>10. inode[g] \in NodeType /\ inode[g].index \in [0..Two -> Pointers] /\ inode[g].size \in Nat
  BY <1>2, <1>4 DEF NodeType
<1>11. CASE NewBlock
  <2>1. GetFreeBlock /\ inode' = [inode EXCEPT ![g] = [Grown(@) EXCEPT !.index[k] = FreeBlock]]
    BY <1>4, <1>6, <1>11 DEF WriteDirect
  <2>2. PICK b \in Blocks : b = FreeBlock
    BY <1>1, <2>1, Handed
  <2>3. /\ b \in Pointers /\ b \notin block_bitmap /\ block_bitmap' = block_bitmap \cup {b}
        /\ block_bitmap' \in SUBSET Blocks /\ block_bit_index' \in Blocks
    BY <1>1, <2>1, <2>2, Handed
  <2> DEFINE new == [inode[g].index EXCEPT ![k] = b]
  <2>4. inode' = [inode EXCEPT ![g] = [size |-> inode[g].size + cur_len, index |-> new]]
    <3>1. [Grown(inode[g]) EXCEPT !.index[k] = b] = [size |-> inode[g].size + cur_len, index |-> new]
      <4>1. Grown(inode[g]) = [size |-> inode[g].size + cur_len, index |-> inode[g].index]
        BY <1>10, NodeGrown
      <4> QED
        BY <4>1
    <3>2. inode' = [inode EXCEPT ![g] = [Grown(inode[g]) EXCEPT !.index[k] = b]]
      BY <2>1, <2>2
    <3> QED
      BY <3>1, <3>2
  <2>5. new \in [0..Two -> Pointers] /\ inode[g].size + cur_len \in Nat
    <3>1. new \in [0..Two -> Pointers]
      BY <1>10, <2>3, PutType
    <3> QED
      BY <1>7, <1>10, <3>1
  <2>6. /\ inode' \in [Inodes -> NodeType]
        /\ inode'[g].size = inode[g].size + cur_len /\ inode'[g].index = new
        /\ \A f \in Inodes \ {g} : inode'[f] = inode[f]
    <3> HIDE DEF new
    <3> QED
      BY <1>2, <2>4, <2>5 DEF NodeType
  <2>7. Turn
    BY <1>3, <1>4, <1>8, <2>6 DEF Turn
  <2>8. /\ new[k] = b /\ new[One] = inode[g].index[One] /\ new[Two] = inode[g].index[Two]
        /\ \A i \in 0..(DIRECT - 1) : i # k => new[i] = inode[g].index[i]
    <3>1. k \in 0..Two /\ One \in 0..Two /\ Two \in 0..Two /\ One # k /\ Two # k
          /\ 0..(DIRECT - 1) \subseteq 0..Two
      BY <1>6, Sizes DEF One, Two
    <3> QED
      BY <1>10, <3>1
  <2> HIDE DEF new
  <2>9. DataType' /\ JobOK'
    <3>1. inode'[g].size <= level_end0
      BY <1>1, <1>3, <1>4, <2>7, TurnJob, Levels, Sizes DEF Turn
    <3>2. inode'[g].size \in Nat
      BY <2>6 DEF NodeType
    <3>3. \A f \in Inodes : inode'[f].size <= level_end2
      BY <1>1, <2>6, <3>1, <3>2, Levels DEF DataType
    <3>4. DataType'
      BY <1>1, <1>8, <1>9, <2>3, <2>6, <3>3 DEF DataType, Blocks, Table, Entries, Pointers, Two,
         Inodes, Chunk, NodeType, JobType, level_end2, level_end1, level_end0, index_one_size
    <3>5. job'.at = "level" /\ job'.f \in Inodes /\ job'.offset = inode'[job'.f].size
      BY <1>1, <1>3, <2>7, TurnJob DEF Turn
    <3> QED
      BY <3>4, <3>5 DEF JobOK, Inodes
  <2>10. Valid("direct", k, 0) /\ "direct" \in Kinds /\ 0 \in Nat /\ From("direct", k, 0) = job.offset
    <3>1. job.offset = k * BLOCK_SIZE
      <4>1. job.offset = k * BLOCK_SIZE + (job.offset % BLOCK_SIZE)
        BY <1>3, <1>6, Sizes, Division
      <4> QED
        BY <1>11, <4>1, Sizes DEF NewBlock
    <3> QED
      BY <1>6, <3>1, Sizes DEF Valid, Kinds, From
  <2>11. ~Has(g, "direct", k, 0) /\ Has(g, "direct", k, 0)' /\ At(g, "direct", k, 0)' = b
    <3>1. ~Has(g, "direct", k, 0)
      BY <1>3, <1>4, <2>10 DEF Has, Early
    <3>2. Has(g, "direct", k, 0)'
      BY <1>1, <1>4, <1>11, <2>7, <2>10, Growth
    <3> QED
      BY <2>6, <2>8, <3>1, <3>2 DEF At
  <2>12. ASSUME NEW f \in Inodes, NEW kd \in Kinds, NEW i \in Nat, NEW j \in Nat, Valid(kd, i, j)
         PROVE  /\ Has(f, kd, i, j)' =>
                     Has(f, kd, i, j) \/ (f = g /\ kd = "direct" /\ i = k /\ j = 0)
                /\ Has(f, kd, i, j) => Has(f, kd, i, j)' /\ At(f, kd, i, j)' = At(f, kd, i, j)
    <3>1. Has(f, kd, i, j)' <=> Has(f, kd, i, j) \/ (f = g /\ From(kd, i, j) = job.offset)
      BY <1>1, <1>4, <1>11, <2>7, <2>12, Growth
    <3>2. From(kd, i, j) = job.offset => kd = "direct" /\ i = k /\ j = 0
      <4>1. kd # "direct" => level_end0 <= From(kd, i, j)
        BY <2>12, SlotRange, Levels DEF Kinds, From
      <4>2. From(kd, i, j) \in Nat
        BY <2>12, SlotRange
      <4>3. From(kd, i, j) = job.offset => kd = "direct"
        BY <1>3, <4>1, <4>2, Levels
      <4> QED
        BY <2>10, <2>12, <4>3, SameSlot
    <3>3. Has(f, kd, i, j) => f # g \/ kd # "direct" \/ i # k
      <4>1. kd = "direct" /\ i = k => j = 0
        BY <2>12 DEF Valid
      <4> QED
        BY <2>11, <4>1
    <3>4. CASE f # g
      BY <1>8, <2>6, <2>7, <3>1, <3>4, AtSame DEF Turn
    <3>5. CASE f = g
      <4>1. TableOne(f)' = TableOne(f) /\ TableTwo(f)' = TableTwo(f)
        BY <1>8, <2>6, <2>8, <3>5 DEF TableOne, TableTwo, Using, One, Two
      <4>2. TableAt(f, i)' = TableAt(f, i)
        BY <1>8, <4>1 DEF TableAt, Using
      <4>3. Has(f, kd, i, j) => At(f, kd, i, j)' = At(f, kd, i, j)
        BY <2>6, <2>8, <2>12, <3>3, <3>5, <4>1, <4>2 DEF At, Valid, One, Two
      <4> QED
        BY <3>1, <3>2, <4>3
    <3> QED
      BY <3>4, <3>5
  <2>13. Added(b, g, "direct", k, 0)
    BY <2>3, <2>10, <2>11, <2>12 DEF Added
  <2>14. Exact(BlockOf, block_bitmap)'
    BY <1>1, <2>10, <2>13, OneMore
  <2>15. Kept /\ Stored
    <3>1. Store(b)
      BY <1>11, <2>2 DEF WriteDirect
    <3> QED
      BY <1>1, <1>3, <1>4, <2>10, <2>13, <3>1, StoredNew DEF DataKinds
  <2> QED
    BY <2>7, <2>9, <2>14, <2>15 DEF DataInv
<1>12. CASE ~NewBlock
  <2>1. /\ inode' = [inode EXCEPT ![g] = Grown(@)]
        /\ block_bitmap' = block_bitmap /\ block_bit_index' = block_bit_index
    BY <1>4, <1>12 DEF WriteDirect
  <2>2. inode' = [inode EXCEPT ![g] = [size |-> inode[g].size + cur_len, index |-> inode[g].index]]
    BY <1>10, <2>1, NodeGrown
  <2>3. /\ inode' \in [Inodes -> NodeType]
        /\ inode'[g].size = inode[g].size + cur_len /\ inode'[g].index = inode[g].index
        /\ \A f \in Inodes \ {g} : inode'[f] = inode[f]
    BY <1>2, <1>7, <1>10, <2>2 DEF NodeType
  <2>4. Turn
    BY <1>3, <1>4, <1>8, <2>3 DEF Turn
  <2>5. DataType' /\ JobOK'
    <3>1. inode'[g].size <= level_end0
      BY <1>1, <1>3, <1>4, <2>4, TurnJob, Levels, Sizes DEF Turn
    <3>2. inode'[g].size \in Nat
      BY <2>3 DEF NodeType
    <3>3. \A f \in Inodes : inode'[f].size <= level_end2
      BY <1>1, <2>3, <3>1, <3>2, Levels DEF DataType
    <3>4. DataType'
      BY <1>1, <1>8, <1>9, <2>1, <2>3, <3>3 DEF DataType, Blocks, Table, Entries, Pointers, Two,
         Inodes, Chunk, NodeType, JobType, level_end2, level_end1, level_end0, index_one_size
    <3>5. job'.at = "level" /\ job'.f \in Inodes /\ job'.offset = inode'[job'.f].size
      BY <1>1, <1>3, <2>4, TurnJob DEF Turn
    <3> QED
      BY <3>4, <3>5 DEF JobOK, Inodes
  <2>6. \A f \in Inodes, kd \in Kinds, i \in Nat, j \in Nat : At(f, kd, i, j)' = At(f, kd, i, j)
    BY <1>8, <2>3, AtSame
  <2>7. Exact(BlockOf, block_bitmap)'
    BY <1>1, <1>12, <2>1, <2>4, <2>6, Growth, SameMap
  <2>8. Kept /\ Stored
    <3>1. PICK b : b = inode[g].index[k]
      OBVIOUS
    <3>2. Store(b) /\ b = At(g, "direct", k, 0)
      BY <1>4, <1>6, <1>12, <3>1 DEF WriteDirect, Ino, At
    <3>3. Valid("direct", k, 0) /\ From("direct", k, 0) = k * BLOCK_SIZE
      BY <1>6, Sizes DEF Valid, From
    <3>4. k * BLOCK_SIZE <= job.offset /\ job.offset < k * BLOCK_SIZE + BLOCK_SIZE
      <4> DEFINE z == k * BLOCK_SIZE
      <4>1. job.offset = z + (job.offset % BLOCK_SIZE) /\ job.offset % BLOCK_SIZE \in 0..(BLOCK_SIZE - 1)
        BY <1>3, <1>6, Division, Sizes
      <4>2. z \in Nat
        BY Sizes
      <4> HIDE DEF z
      <4>3. z <= job.offset /\ job.offset < z + BLOCK_SIZE
        BY <4>1, <4>2, Sizes
      <4> QED
        BY <4>3 DEF z
    <3> QED
      BY <1>1, <1>3, <1>4, <1>12, <2>6, <3>2, <3>3, <3>4, StoredOld DEF DataKinds
  <2> QED
    BY <2>4, <2>5, <2>7, <2>8 DEF DataInv
<1> QED
  BY <1>11, <1>12

(* Behind the first level a turn leaves the inode as it is but for the size. *)
LEMMA SizeGrows ==
  ASSUME DataType, NEW g \in Inodes, g = job.f, cur_len \in Nat,
         inode' = [inode EXCEPT ![g] = Grown(@)]
  PROVE  /\ inode' \in [Inodes -> NodeType]
         /\ inode'[g].size = inode[g].size + cur_len
         /\ \A f \in Inodes : inode'[f].index = inode[f].index
         /\ \A f \in Inodes \ {g} : inode'[f] = inode[f]
<1>1. inode \in [Inodes -> NodeType]
  BY DEF DataType
<1>2. inode[g] \in NodeType /\ inode[g].index \in [0..Two -> Pointers] /\ inode[g].size \in Nat
  BY <1>1 DEF NodeType
<1>3. inode' = [inode EXCEPT ![g] = [size |-> inode[g].size + cur_len, index |-> inode[g].index]]
  BY <1>2, NodeGrown
<1> QED
  BY <1>1, <1>2, <1>3 DEF NodeType

\* What DataType says, for a step that has shown its parts.
TypeParts ==
  /\ block_bitmap' \in SUBSET Blocks /\ block_bit_index' \in Blocks
  /\ ptrs' \in [Blocks -> Table] /\ inode' \in [Inodes -> NodeType]
  /\ index_block1' \in Table /\ index_block2' \in Table /\ job' \in JobType
  /\ \A f \in Inodes : inode'[f].size <= level_end2

(* The parts of DataType, put together. *)
LEMMA TypeAgain ==
  ASSUME TypeParts  PROVE DataType'
BY DEF TypeParts, DataType, Blocks, Table, Entries, Pointers, Two, Inodes, Chunk, NodeType,
   JobType, level_end2, level_end1, level_end0, index_one_size

(* The tables of a file and what its slots hold. *)
LEMMA AtFrom ==
  ASSUME NEW f, NEW kd, NEW i, NEW j,
         inode'[f].index = inode[f].index,
         kd = "leaf1" => TableOne(f)'[i] = TableOne(f)[i],
         kd = "leaf2" => TableAt(f, i)'[j] = TableAt(f, i)[j],
         kd = "tab" => TableTwo(f)'[i] = TableTwo(f)[i],
         kd \in Kinds
  PROVE  At(f, kd, i, j)' = At(f, kd, i, j)
BY DEF At, One, Two, Kinds

(* write_data() in the blocks of the first level. *)
LEMMA WriteOneStep ==
  ASSUME DataInv, WriteOne
  PROVE  DataInv' /\ Kept /\ Turn /\ Stored
<1>1. DataType /\ JobOK /\ Exact(BlockOf, block_bitmap)
  BY DEF DataInv
<1>2. job \in JobType /\ inode \in [Inodes -> NodeType] /\ index_block1 \in Table
  BY <1>1 DEF DataType
<1>3. /\ job.at = "one" /\ job.rest # <<>> /\ level_end0 <= job.offset /\ job.offset < level_end1
      /\ job.f \in Inodes /\ job.offset = inode[job.f].size /\ job.offset \in Nat
      /\ job.flag1 \/ job.offset = level_end0 \/ index_block1 = ptrs[Ino.index[One]]
  BY <1>1, <1>2 DEF WriteOne, More, JobOK, JobType
<1>4. PICK g \in Inodes : g = job.f
  BY <1>3
<1>5. cur_len \in Nat /\ cur_len > 0 /\ SubSeq(job.rest, cur_len + 1, Len(job.rest)) \in Chunk
  BY <1>1, <1>3, TurnLength
<1>6. inode' = [inode EXCEPT ![g] = Grown(@)] /\ ptrs' = ptrs /\ index_block2' = index_block2
  BY <1>4 DEF WriteOne
<1>7. /\ inode' \in [Inodes -> NodeType]
      /\ inode'[g].size = inode[g].size + cur_len
      /\ \A f \in Inodes : inode'[f].index = inode[f].index
      /\ \A f \in Inodes \ {g} : inode'[f] = inode[f]
  BY <1>1, <1>4, <1>5, <1>6, SizeGrows
<1>8. /\ job' \in JobType /\ job'.f = job.f /\ job'.offset = job.offset + cur_len
      /\ job'.rest = SubSeq(job.rest, cur_len + 1, Len(job.rest))
      /\ job'.i = job.i /\ job'.at = job.at /\ job'.flag2 = job.flag2
      /\ job'.flag1 = IF NewBlock THEN TRUE ELSE job.flag1
  <2>1. CASE NewBlock
    <3> DEFINE r == [job EXCEPT !.flag1 = TRUE]
    <3>1. r \in JobType /\ r.f = job.f /\ r.offset = job.offset /\ r.rest = job.rest
          /\ r.i = job.i /\ r.at = job.at /\ r.flag1 = TRUE /\ r.flag2 = job.flag2
      BY <1>2 DEF JobType
    <3>2. job' = [r EXCEPT !.offset = @ + cur_len, !.rest = SubSeq(@, cur_len + 1, Len(@))]
      BY <2>1 DEF WriteOne, Step
    <3> HIDE DEF r
    <3>3. job' = [f |-> r.f, offset |-> r.offset + cur_len,
                  rest |-> SubSeq(r.rest, cur_len + 1, Len(r.rest)),
                  i |-> r.i, at |-> r.at, flag1 |-> r.flag1, flag2 |-> r.flag2]
      BY <3>1, <3>2, JobTurned
    <3>4. job' \in JobType
      BY <1>3, <1>5, <3>1, <3>3 DEF JobType
    <3>5. job'.flag1 = TRUE /\ job'.flag2 = job.flag2 /\ job'.i = job.i /\ job'.at = job.at
      BY <3>1, <3>3
    <3>6. /\ job'.f = job.f /\ job'.offset = job.offset + cur_len
          /\ job'.rest = SubSeq(job.rest, cur_len + 1, Len(job.rest))
      BY <3>1, <3>3
    <3> QED
      BY <2>1, <3>4, <3>5, <3>6
  <2>2. CASE ~NewBlock
    <3>1. job' = [job EXCEPT !.offset = @ + cur_len, !.rest = SubSeq(@, cur_len + 1, Len(@))]
      BY <2>2 DEF WriteOne, Step
    <3>2. job' = [f |-> job.f, offset |-> job.offset + cur_len,
                  rest |-> SubSeq(job.rest, cur_len + 1, Len(job.rest)),
                  i |-> job.i, at |-> job.at, flag1 |-> job.flag1, flag2 |-> job.flag2]
      BY <1>2, <3>1, JobTurned
    <3> QED
      BY <1>2, <1>3, <1>5, <2>2, <3>2 DEF JobType
  <2> QED
    BY <2>1, <2>2
<1>9. job' \in JobType
  BY <1>8
<1>10. Turn
  BY <1>3, <1>4, <1>7, <1>8 DEF Turn
<1>11. /\ level_end0 <= job'.offset /\ job'.offset > level_end0 /\ job'.offset <= level_end1
       /\ job'.f \in Inodes /\ job'.offset = inode'[job'.f].size
  <2>1. level_end1 = (DIRECT + PTRS) * BLOCK_SIZE
    BY Levels, Sizes
  <2>2. job'.offset <= level_end1
    <3>1. PICK q \in Nat : q = DIRECT + PTRS
      BY Sizes
    <3>2. level_end1 = q * BLOCK_SIZE
      BY <2>1, <3>1
    <3> QED
      BY <1>1, <1>3, <1>10, <3>2, TurnJob
  <2>3. job'.offset > job.offset /\ job'.f \in Inodes /\ job'.offset = inode'[job'.f].size
    BY <1>1, <1>10, TurnJob
  <2>4. job'.offset \in Nat
    BY <1>9 DEF JobType
  <2> QED
    BY <1>3, <2>2, <2>3, <2>4, Levels
<1>12. \A f \in Inodes : inode'[f].size <= level_end2
  <2>1. inode'[g].size <= level_end1 /\ inode'[g].size \in Nat
    BY <1>4, <1>7, <1>10, <1>11 DEF Turn, NodeType
  <2> QED
    BY <1>1, <1>7, <2>1, Levels DEF DataType
<1>13. level_end0 % BLOCK_SIZE = 0
  BY NoRemainder, Levels, Sizes
<1>14. CASE NewBlock
  <2>1. GetFreeBlock
    BY <1>14 DEF WriteOne
  <2>2. PICK b \in Blocks : b = FreeBlock
    BY <1>1, <2>1, Handed
  <2>3. /\ b \in Pointers /\ b \notin block_bitmap /\ block_bitmap' = block_bitmap \cup {b}
        /\ block_bitmap' \in SUBSET Blocks /\ block_bit_index' \in Blocks
    BY <1>1, <2>1, <2>2, Handed
  <2>4. /\ (job.offset - level_end0) \div BLOCK_SIZE \in Nat
        /\ job.offset = level_end0 + ((job.offset - level_end0) \div BLOCK_SIZE) * BLOCK_SIZE
    BY <1>3, <1>14, SlotAt, Levels, Sizes DEF NewBlock
  <2>5. PICK k \in Nat : k = (job.offset - level_end0) \div BLOCK_SIZE
    BY <2>4
  <2>6. job.offset = level_end0 + k * BLOCK_SIZE
    BY <2>4, <2>5
  <2>7. k < PTRS
    <3>1. PTRS <= k => PTRS * BLOCK_SIZE <= k * BLOCK_SIZE
      BY Multiples, Sizes
    <3>2. k * BLOCK_SIZE \in Nat /\ PTRS * BLOCK_SIZE \in Nat
      BY Sizes
    <3> QED
      BY <1>3, <2>6, <3>1, <3>2, Levels, Sizes
  <2>8. index_block1' = [index_block1 EXCEPT ![k] = b]
    BY <1>14, <2>2, <2>5 DEF WriteOne
  <2>9. /\ index_block1' \in Table /\ index_block1'[k] = b
        /\ \A i \in Nat : i # k => index_block1'[i] = index_block1[i]
    <3>1. index_block1' \in Table
      BY <1>2, <2>3, <2>8, PutType DEF Table
    <3>2. k \in Entries
      BY <2>7, Sizes DEF Entries
    <3> QED
      BY <1>2, <2>8, <3>1, <3>2 DEF Table
  <2>10. DataType'
    <3>1. ptrs' \in [Blocks -> Table] /\ index_block2' \in Table
      BY <1>1, <1>6 DEF DataType
    <3>2. TypeParts
      BY <1>7, <1>9, <1>12, <2>3, <2>9, <3>1 DEF TypeParts
    <3> QED
      BY <3>2, TypeAgain
  <2>11. JobOK'
    <3>1. job'.at = "one" /\ job'.flag1
      BY <1>3, <1>8, <1>14
    <3> QED
      BY <1>11, <3>1, Levels DEF JobOK, Inodes, level_end0, level_end1, index_one_size
  <2>12. Valid("leaf1", k, 0) /\ "leaf1" \in Kinds /\ 0 \in Nat /\ From("leaf1", k, 0) = job.offset
    BY <2>6, <2>7, Sizes DEF Valid, Kinds, From, Entries
  <2>13. ~Has(g, "leaf1", k, 0) /\ Has(g, "leaf1", k, 0)' /\ At(g, "leaf1", k, 0)' = b
    <3>1. ~Has(g, "leaf1", k, 0)
      BY <1>3, <1>4, <2>12 DEF Has, Early
    <3>2. Has(g, "leaf1", k, 0)'
      BY <1>1, <1>4, <1>10, <1>14, <2>12, Growth
    <3>3. TableOne(g)' = index_block1'
      BY <1>3, <1>4, <1>8 DEF TableOne, Using
    <3> QED
      BY <2>9, <3>1, <3>2, <3>3 DEF At
  <2>14. ASSUME NEW f \in Inodes, NEW kd \in Kinds, NEW i \in Nat, NEW j \in Nat, Valid(kd, i, j)
         PROVE  /\ Has(f, kd, i, j)' =>
                     Has(f, kd, i, j) \/ (f = g /\ kd = "leaf1" /\ i = k /\ j = 0)
                /\ Has(f, kd, i, j) => Has(f, kd, i, j)' /\ At(f, kd, i, j)' = At(f, kd, i, j)
    <3>1. Has(f, kd, i, j)' <=> Has(f, kd, i, j) \/ (f = g /\ From(kd, i, j) = job.offset)
      BY <1>1, <1>4, <1>10, <1>14, <2>14, Growth
    <3>2. f = g /\ From(kd, i, j) = job.offset =>
            Has(f, kd, i, j) \/ (kd = "leaf1" /\ i = k /\ j = 0)
      <4> SUFFICES ASSUME f = g, From(kd, i, j) = job.offset
                   PROVE  Has(f, kd, i, j) \/ (kd = "leaf1" /\ i = k /\ j = 0)
        OBVIOUS
      <4>1. CASE kd = "leaf1"
        BY <2>12, <2>14, <4>1, SameSlot
      <4>2. CASE kd = "one"
        BY <1>3, <1>4, <4>2 DEF Has, Early, Using
      <4>3. CASE kd = "direct"
        BY <1>3, <2>14, <4>3, SlotRange, Levels, Sizes
      <4>4. CASE kd = "two"
        BY <1>3, <4>4, Levels DEF From
      <4>5. CASE kd \in {"leaf2", "tab"}
        <5>1. level_end1 <= From(kd, i, j)
          BY <2>14, <4>5, SecondLevel
        <5>2. ~(level_end1 <= job.offset)
          BY <1>3, Levels
        <5> QED
          BY <5>1, <5>2
      <4> QED
        BY <2>14, <4>1, <4>2, <4>3, <4>4, <4>5 DEF Kinds
    <3>3. Has(f, kd, i, j) => f # g \/ kd # "leaf1" \/ i # k
      <4>1. kd = "leaf1" /\ i = k => j = 0
        BY <2>14 DEF Valid
      <4> QED
        BY <2>13, <4>1
    <3>4. TableTwo(f)' = TableTwo(f)
      BY <1>3, <1>6, <1>7, <1>8 DEF TableTwo, Using, Two
    <3>5. TableAt(f, i)' = TableAt(f, i)
      BY <1>3, <1>6, <1>8, <3>4 DEF TableAt, Using
    <3>6. Has(f, kd, i, j) /\ kd = "leaf1" => TableOne(f)'[i] = TableOne(f)[i]
      BY <1>3, <1>4, <1>6, <1>7, <1>8, <2>9, <3>3 DEF TableOne, Using, One
    <3>7. Has(f, kd, i, j) => At(f, kd, i, j)' = At(f, kd, i, j)
      BY <1>7, <3>4, <3>5, <3>6, AtFrom
    <3> QED
      BY <3>1, <3>2, <3>7
  <2>15. Added(b, g, "leaf1", k, 0)
    BY <2>3, <2>12, <2>13, <2>14 DEF Added
  <2>16. Exact(BlockOf, block_bitmap)'
    BY <1>1, <2>12, <2>15, OneMore
  <2>17. Kept /\ Stored
    <3>1. Store(b)
      BY <1>14, <2>2 DEF WriteOne
    <3> QED
      BY <1>1, <1>3, <1>4, <2>12, <2>15, <3>1, StoredNew DEF DataKinds
  <2> QED
    BY <1>10, <2>10, <2>11, <2>16, <2>17 DEF DataInv
<1>15. CASE ~NewBlock
  <2>1. block_bitmap' = block_bitmap /\ block_bit_index' = block_bit_index
        /\ index_block1' = index_block1
    BY <1>15 DEF WriteOne
  <2>2. DataType'
    <3>1. /\ ptrs' \in [Blocks -> Table] /\ index_block1' \in Table /\ index_block2' \in Table
          /\ block_bitmap' \in SUBSET Blocks /\ block_bit_index' \in Blocks
      BY <1>1, <1>6, <2>1 DEF DataType
    <3>2. TypeParts
      BY <1>7, <1>9, <1>12, <3>1 DEF TypeParts
    <3> QED
      BY <3>2, TypeAgain
  <2>3. JobOK'
    <3>1. job'.at = "one" /\ job'.flag1 = job.flag1 /\ job'.f = job.f
      BY <1>2, <1>3, <1>8, <1>15 DEF JobType
    <3>2. job.offset # level_end0
      BY <1>13, <1>15 DEF NewBlock
    <3>3. job.flag1 \/ index_block1' = ptrs'[Ino'.index[One]]
      BY <1>3, <1>4, <1>6, <1>7, <2>1, <3>1, <3>2 DEF Ino
    <3> QED
      BY <1>11, <3>1, <3>3, Levels DEF JobOK, Inodes, level_end0, level_end1, index_one_size, One
  <2>4. \A f \in Inodes, kd \in Kinds, i \in Nat, j \in Nat : At(f, kd, i, j)' = At(f, kd, i, j)
    BY <1>6, <1>7, <1>8, <2>1, AtSame
  <2>5. Exact(BlockOf, block_bitmap)'
    BY <1>1, <1>10, <1>15, <2>1, <2>4, Growth, SameMap
  <2>6. Kept /\ Stored
    <3>1. PICK k : k = (job.offset - level_end0) \div BLOCK_SIZE
      OBVIOUS
    <3>2. k \in Nat /\ level_end0 + k * BLOCK_SIZE <= job.offset /\ job.offset < level_end0 + k * BLOCK_SIZE + BLOCK_SIZE
      BY <1>3, <3>1, InBlock, Levels
    <3>3. k < PTRS
      <4>1. job.offset < level_end0 + PTRS * BLOCK_SIZE
        BY <1>3, Levels
      <4> QED
        BY <1>3, <3>1, <4>1, InBlock, Levels, Sizes
    <3>4. PICK b : b = index_block1[k]
      OBVIOUS
    <3>5. Store(b) /\ b = At(g, "leaf1", k, 0)
      <4>1. Store(b)
        BY <1>15, <3>1, <3>4 DEF WriteOne
      <4>2. TableOne(g) = index_block1
        BY <1>3, <1>4 DEF TableOne, Using
      <4> QED
        BY <3>4, <4>1, <4>2 DEF At
    <3>6. Valid("leaf1", k, 0) /\ From("leaf1", k, 0) = level_end0 + k * BLOCK_SIZE
      BY <3>2, <3>3, Sizes DEF Valid, From, Entries
    <3> QED
      BY <1>1, <1>3, <1>4, <1>15, <2>4, <3>2, <3>5, <3>6, StoredOld DEF DataKinds
  <2> QED
    BY <1>10, <2>2, <2>3, <2>5, <2>6 DEF DataInv
<1> QED
  BY <1>14, <1>15

(* Where the part of a file that one index block of the second level names begins
   and ends. *)
LEMMA TableRange ==
  ASSUME NEW t \in Entries
  PROVE  /\ level_end1 + t * index_one_size \in Nat
         /\ level_end1 <= level_end1 + t * index_one_size
         /\ level_end1 + (t + 1) * index_one_size = level_end1 + t * index_one_size + index_one_size
         /\ level_end1 + (t + 1) * index_one_size <= level_end2
         /\ \E q \in Nat : level_end1 + t * index_one_size = q * BLOCK_SIZE
         /\ \E q \in Nat : level_end1 + (t + 1) * index_one_size = q * BLOCK_SIZE
<1> DEFINE L == index_one_size
<1>1. t \in Nat /\ t < PTRS
  BY Sizes DEF Entries
<1>2. L \in Nat /\ L > 0 /\ level_end1 \in Nat /\ level_end2 = level_end1 + PTRS * L
  BY Levels
<1>3. t * L \in Nat /\ (t + 1) * L = t * L + L /\ t * L + L <= PTRS * L /\ PTRS * L \in Nat
  BY <1>1, <1>2, Multiples, Sizes
<1>4. L = PTRS * BLOCK_SIZE /\ level_end1 = (DIRECT + PTRS) * BLOCK_SIZE
  BY Levels, Sizes
<1>5. \A y \in Nat : level_end1 + y * L = (DIRECT + PTRS + y * PTRS) * BLOCK_SIZE
  BY <1>4, Sizes
<1>6. DIRECT + PTRS + t * PTRS \in Nat /\ DIRECT + PTRS + (t + 1) * PTRS \in Nat
  BY <1>1, Sizes
<1>7. \E q \in Nat : level_end1 + t * L = q * BLOCK_SIZE
  BY <1>1, <1>5, <1>6
<1>8. \E q \in Nat : level_end1 + (t + 1) * L = q * BLOCK_SIZE
  <2>1. t + 1 \in Nat
    BY <1>1
  <2> QED
    BY <1>5, <1>6, <2>1
<1> HIDE DEF L
<1>9. /\ level_end1 + t * L \in Nat /\ level_end1 <= level_end1 + t * L
      /\ level_end1 + (t + 1) * L = level_end1 + t * L + L /\ level_end1 + (t + 1) * L <= level_end2
  BY <1>2, <1>3
<1> QED
  BY <1>7, <1>8, <1>9 DEF L

(* write_data() in the blocks of the second level. *)
LEMMA WriteTwoStep ==
  ASSUME DataInv, WriteTwo
  PROVE  DataInv' /\ Kept /\ Turn /\ Stored
<1>1. DataType /\ JobOK /\ Exact(BlockOf, block_bitmap)
  BY DEF DataInv
<1>2. job \in JobType /\ inode \in [Inodes -> NodeType] /\ index_block2 \in Table
  BY <1>1 DEF DataType
<1>3. /\ job.at = "table" /\ job.rest # <<>> /\ TableStart <= job.offset /\ job.offset < TableEnd
      /\ job.f \in Inodes /\ job.offset = inode[job.f].size /\ job.offset \in Nat
      /\ job.i \in Entries
      /\ job.flag1 \/ index_block1 = ptrs[Ino.index[Two]]
      /\ job.flag2 \/ job.offset = TableStart \/ index_block2 = ptrs[index_block1[job.i]]
  BY <1>1, <1>2 DEF WriteTwo, More, JobOK, JobType
<1>4. PICK g \in Inodes, t \in Entries : g = job.f /\ t = job.i
  BY <1>3
<1> DEFINE base == level_end1 + t * index_one_size
<1>a. /\ TableStart = base /\ TableEnd = base + index_one_size /\ base \in Nat
      /\ level_end1 <= base /\ TableEnd <= level_end2
      /\ (\E q \in Nat : base = q * BLOCK_SIZE) /\ (\E q \in Nat : TableEnd = q * BLOCK_SIZE)
  BY <1>4, TableRange DEF TableStart, TableEnd
<1>b. t \in Nat /\ t < PTRS
  BY Sizes DEF Entries
<1> HIDE DEF base
<1>5. cur_len \in Nat /\ cur_len > 0 /\ SubSeq(job.rest, cur_len + 1, Len(job.rest)) \in Chunk
  BY <1>1, <1>3, TurnLength
<1>6. inode' = [inode EXCEPT ![g] = Grown(@)] /\ ptrs' = ptrs /\ index_block1' = index_block1
  BY <1>4 DEF WriteTwo
<1>7. /\ inode' \in [Inodes -> NodeType]
      /\ inode'[g].size = inode[g].size + cur_len
      /\ \A f \in Inodes : inode'[f].index = inode[f].index
      /\ \A f \in Inodes \ {g} : inode'[f] = inode[f]
  BY <1>1, <1>4, <1>5, <1>6, SizeGrows
<1>8. /\ job' \in JobType /\ job'.f = job.f /\ job'.offset = job.offset + cur_len
      /\ job'.rest = SubSeq(job.rest, cur_len + 1, Len(job.rest))
      /\ job'.i = job.i /\ job'.at = job.at /\ job'.flag1 = job.flag1
      /\ job'.flag2 = IF NewBlock THEN TRUE ELSE job.flag2
  <2>1. CASE NewBlock
    <3> DEFINE r == [job EXCEPT !.flag2 = TRUE]
    <3>1. r \in JobType /\ r.f = job.f /\ r.offset = job.offset /\ r.rest = job.rest
          /\ r.i = job.i /\ r.at = job.at /\ r.flag1 = job.flag1 /\ r.flag2 = TRUE
      BY <1>2 DEF JobType
    <3>2. job' = [r EXCEPT !.offset = @ + cur_len, !.rest = SubSeq(@, cur_len + 1, Len(@))]
      BY <2>1 DEF WriteTwo, Step
    <3> HIDE DEF r
    <3>3. job' = [f |-> r.f, offset |-> r.offset + cur_len,
                  rest |-> SubSeq(r.rest, cur_len + 1, Len(r.rest)),
                  i |-> r.i, at |-> r.at, flag1 |-> r.flag1, flag2 |-> r.flag2]
      BY <3>1, <3>2, JobTurned
    <3>4. job' \in JobType
      BY <1>3, <1>5, <3>1, <3>3 DEF JobType
    <3>5. job'.flag1 = job.flag1 /\ job'.flag2 = TRUE /\ job'.i = job.i /\ job'.at = job.at
      BY <3>1, <3>3
    <3>6. /\ job'.f = job.f /\ job'.offset = job.offset + cur_len
          /\ job'.rest = SubSeq(job.rest, cur_len + 1, Len(job.rest))
      BY <3>1, <3>3
    <3> QED
      BY <2>1, <3>4, <3>5, <3>6
  <2>2. CASE ~NewBlock
    <3>1. job' = [job EXCEPT !.offset = @ + cur_len, !.rest = SubSeq(@, cur_len + 1, Len(@))]
      BY <2>2 DEF WriteTwo, Step
    <3>2. job' = [f |-> job.f, offset |-> job.offset + cur_len,
                  rest |-> SubSeq(job.rest, cur_len + 1, Len(job.rest)),
                  i |-> job.i, at |-> job.at, flag1 |-> job.flag1, flag2 |-> job.flag2]
      BY <1>2, <3>1, JobTurned
    <3> QED
      BY <1>2, <1>3, <1>5, <2>2, <3>2 DEF JobType
  <2> QED
    BY <2>1, <2>2
<1>9. job' \in JobType
  BY <1>8
<1>10. Turn
  BY <1>3, <1>4, <1>7, <1>8 DEF Turn
<1>11. /\ base < job'.offset /\ job'.offset <= TableEnd
       /\ job'.f \in Inodes /\ job'.offset = inode'[job'.f].size
  <2>1. job'.offset <= TableEnd
    <3>1. PICK q \in Nat : TableEnd = q * BLOCK_SIZE
      BY <1>a
    <3> QED
      BY <1>1, <1>3, <1>10, <3>1, TurnJob
  <2>2. job'.offset > job.offset /\ job'.f \in Inodes /\ job'.offset = inode'[job'.f].size
    BY <1>1, <1>10, TurnJob
  <2>3. job'.offset \in Nat
    BY <1>9 DEF JobType
  <2> QED
    BY <1>3, <1>a, <2>1, <2>2, <2>3
<1>12. \A f \in Inodes : inode'[f].size <= level_end2
  <2>1. inode'[g].size <= level_end2
    <3>1. inode'[g].size <= TableEnd /\ inode'[g].size \in Nat
      BY <1>4, <1>7, <1>10, <1>11 DEF Turn, NodeType
    <3> QED
      BY <1>a, <3>1, Levels
  <2> QED
    BY <1>1, <1>7, <2>1 DEF DataType
<1>13. base % BLOCK_SIZE = 0
  BY <1>a, NoRemainder, Sizes
<1>c. TableStart' = base /\ TableEnd' = TableEnd
  BY <1>4, <1>8, <1>a DEF TableStart, TableEnd, base, level_end1, level_end0, index_one_size
<1>14. CASE NewBlock
  <2>1. GetFreeBlock
    BY <1>14 DEF WriteTwo
  <2>2. PICK b \in Blocks : b = FreeBlock
    BY <1>1, <2>1, Handed
  <2>3. /\ b \in Pointers /\ b \notin block_bitmap /\ block_bitmap' = block_bitmap \cup {b}
        /\ block_bitmap' \in SUBSET Blocks /\ block_bit_index' \in Blocks
    BY <1>1, <2>1, <2>2, Handed
  <2>4. /\ (job.offset - base) \div BLOCK_SIZE \in Nat
        /\ job.offset = base + ((job.offset - base) \div BLOCK_SIZE) * BLOCK_SIZE
    BY <1>3, <1>14, <1>a, SlotAt DEF NewBlock
  <2>5. PICK k \in Nat : k = (job.offset - base) \div BLOCK_SIZE
    BY <2>4
  <2>6. job.offset = base + k * BLOCK_SIZE
    BY <2>4, <2>5
  <2>7. k < PTRS
    <3>1. PTRS <= k => PTRS * BLOCK_SIZE <= k * BLOCK_SIZE
      BY Multiples, Sizes
    <3>2. k * BLOCK_SIZE \in Nat /\ PTRS * BLOCK_SIZE \in Nat
      BY Sizes
    <3> QED
      BY <1>3, <1>a, <2>6, <3>1, <3>2, Levels, Sizes
  <2>8. index_block2' = [index_block2 EXCEPT ![k] = b]
    <3>1. job.offset - level_end1 - job.i * index_one_size = job.offset - base
      BY <1>3, <1>4, <1>b, Levels, SMTT(60) DEF base
    <3> QED
      BY <1>14, <2>2, <2>5, <3>1 DEF WriteTwo
  <2>9. /\ index_block2' \in Table /\ index_block2'[k] = b
        /\ \A i \in Nat : i # k => index_block2'[i] = index_block2[i]
    <3>1. index_block2' \in Table
      BY <1>2, <2>3, <2>8, PutType DEF Table
    <3>2. k \in Entries
      BY <2>7, Sizes DEF Entries
    <3> QED
      BY <1>2, <2>8, <3>1, <3>2 DEF Table
  <2>10. DataType'
    <3>1. ptrs' \in [Blocks -> Table] /\ index_block1' \in Table
      BY <1>1, <1>6 DEF DataType
    <3>2. TypeParts
      BY <1>7, <1>9, <1>12, <2>3, <2>9, <3>1 DEF TypeParts
    <3> QED
      BY <3>2, TypeAgain
  <2>11. JobOK'
    <3>1. job'.at = "table" /\ job'.flag2 /\ job'.i \in Entries
      BY <1>3, <1>8, <1>14
    <3>2. job'.flag1 \/ index_block1' = ptrs'[Ino'.index[Two]]
      BY <1>3, <1>4, <1>6, <1>7, <1>8 DEF Ino
    <3>3. TableStart' <= job'.offset /\ job'.offset # TableStart' /\ job'.offset <= TableEnd'
      BY <1>11, <1>9, <1>a, <1>c DEF JobType
    <3> QED
      BY <1>11, <3>1, <3>2, <3>3 DEF JobOK, Inodes, Entries, Two
  <2>12. Valid("leaf2", t, k) /\ "leaf2" \in Kinds /\ From("leaf2", t, k) = job.offset
    BY <1>b, <2>6, <2>7, Sizes DEF Valid, Kinds, From, Entries, base
  <2>13. ~Has(g, "leaf2", t, k) /\ Has(g, "leaf2", t, k)' /\ At(g, "leaf2", t, k)' = b
    <3>1. ~Has(g, "leaf2", t, k)
      BY <1>3, <1>4, <2>12 DEF Has, Early
    <3>2. Has(g, "leaf2", t, k)'
      BY <1>1, <1>4, <1>10, <1>14, <1>b, <2>12, Growth
    <3>3. TableAt(g, t)' = index_block2'
      BY <1>3, <1>4, <1>8 DEF TableAt, Using
    <3> QED
      BY <2>9, <3>1, <3>2, <3>3 DEF At
  <2>14. ASSUME NEW f \in Inodes, NEW kd \in Kinds, NEW i \in Nat, NEW j \in Nat, Valid(kd, i, j)
         PROVE  /\ Has(f, kd, i, j)' =>
                     Has(f, kd, i, j) \/ (f = g /\ kd = "leaf2" /\ i = t /\ j = k)
                /\ Has(f, kd, i, j) => Has(f, kd, i, j)' /\ At(f, kd, i, j)' = At(f, kd, i, j)
    <3>1. Has(f, kd, i, j)' <=> Has(f, kd, i, j) \/ (f = g /\ From(kd, i, j) = job.offset)
      BY <1>1, <1>4, <1>10, <1>14, <2>14, Growth
    <3>2. f = g /\ From(kd, i, j) = job.offset =>
            Has(f, kd, i, j) \/ (kd = "leaf2" /\ i = t /\ j = k)
      <4> SUFFICES ASSUME f = g, From(kd, i, j) = job.offset
                   PROVE  Has(f, kd, i, j) \/ (kd = "leaf2" /\ i = t /\ j = k)
        OBVIOUS
      <4>1. CASE kd = "leaf2"
        BY <1>b, <2>12, <2>14, <4>1, SameSlot
      <4>2. CASE kd = "two"
        BY <1>3, <1>4, <4>2 DEF Has, Early, Using
      <4>3. CASE kd = "tab"
        <5>1. i = t
          BY <1>3, <1>b, <1>a, <2>14, <4>3, SameTable DEF base
        <5> QED
          BY <1>3, <1>4, <4>3, <5>1 DEF Has, Early, Using
      <4>4. CASE kd \in {"direct", "leaf1", "one"}
        <5>1. From(kd, i, j) < level_end1
          BY <2>14, <4>4, FirstLevel
        <5>2. ~(job.offset < level_end1)
          BY <1>3, <1>a, Levels, SMTT(30)
        <5> QED
          BY <5>1, <5>2
      <4> QED
        BY <2>14, <4>1, <4>2, <4>3, <4>4 DEF Kinds
    <3>3. Has(f, kd, i, j) => f # g \/ kd # "leaf2" \/ i # t \/ j # k
      BY <2>13
    <3>4. TableTwo(f)' = TableTwo(f) /\ TableOne(f)' = TableOne(f)
      BY <1>3, <1>6, <1>7, <1>8 DEF TableTwo, TableOne, Using, One, Two
    <3>5. Has(f, kd, i, j) /\ kd = "leaf2" => TableAt(f, i)'[j] = TableAt(f, i)[j]
      BY <1>3, <1>4, <1>6, <1>8, <2>9, <3>3, <3>4 DEF TableAt, Using
    <3>6. Has(f, kd, i, j) => At(f, kd, i, j)' = At(f, kd, i, j)
      BY <1>7, <3>4, <3>5, AtFrom
    <3> QED
      BY <3>1, <3>2, <3>6
  <2>15. Added(b, g, "leaf2", t, k)
    BY <2>3, <2>12, <2>13, <2>14 DEF Added
  <2>16. Exact(BlockOf, block_bitmap)'
    BY <1>1, <1>b, <2>12, <2>15, OneMore
  <2>17. Kept /\ Stored
    <3>1. Store(b)
      BY <1>14, <2>2 DEF WriteTwo
    <3> QED
      BY <1>1, <1>3, <1>4, <1>b, <2>12, <2>15, <3>1, StoredNew DEF DataKinds
  <2> QED
    BY <1>10, <2>10, <2>11, <2>16, <2>17 DEF DataInv
<1>15. CASE ~NewBlock
  <2>1. block_bitmap' = block_bitmap /\ block_bit_index' = block_bit_index
        /\ index_block2' = index_block2
    BY <1>15 DEF WriteTwo
  <2>2. DataType'
    <3>1. /\ ptrs' \in [Blocks -> Table] /\ index_block1' \in Table /\ index_block2' \in Table
          /\ block_bitmap' \in SUBSET Blocks /\ block_bit_index' \in Blocks
      BY <1>1, <1>6, <2>1 DEF DataType
    <3>2. TypeParts
      BY <1>7, <1>9, <1>12, <3>1 DEF TypeParts
    <3> QED
      BY <3>2, TypeAgain
  <2>3. JobOK'
    <3>1. job'.at = "table" /\ job'.flag2 = job.flag2 /\ job'.i = job.i /\ job'.i \in Entries
      BY <1>2, <1>3, <1>8, <1>15 DEF JobType
    <3>2. job'.flag1 \/ index_block1' = ptrs'[Ino'.index[Two]]
      BY <1>3, <1>4, <1>6, <1>7, <1>8 DEF Ino
    <3>3. TableStart' <= job'.offset /\ job'.offset # TableStart' /\ job'.offset <= TableEnd'
      BY <1>11, <1>9, <1>a, <1>c DEF JobType
    <3>4. job.offset # base
      BY <1>13, <1>15 DEF NewBlock
    <3>5. job'.flag2 \/ index_block2' = ptrs'[index_block1'[job'.i]]
      BY <1>3, <1>6, <1>a, <2>1, <3>1, <3>4
    <3> QED
      BY <1>11, <3>1, <3>2, <3>3, <3>5 DEF JobOK, Inodes, Entries, Two
  <2>4. \A f \in Inodes, kd \in Kinds, i \in Nat, j \in Nat : At(f, kd, i, j)' = At(f, kd, i, j)
    BY <1>6, <1>7, <1>8, <2>1, AtSame
  <2>5. Exact(BlockOf, block_bitmap)'
    BY <1>1, <1>10, <1>15, <2>1, <2>4, Growth, SameMap
  <2>6. Kept /\ Stored
    <3>1. PICK k : k = (job.offset - base) \div BLOCK_SIZE
      OBVIOUS
    <3>2. k \in Nat /\ base + k * BLOCK_SIZE <= job.offset /\ job.offset < base + k * BLOCK_SIZE + BLOCK_SIZE
      BY <1>3, <1>a, <3>1, InBlock
    <3>3. k < PTRS
      <4>1. job.offset < base + PTRS * BLOCK_SIZE
        BY <1>3, <1>a, Levels
      <4> QED
        BY <1>3, <1>a, <3>1, <4>1, InBlock, Sizes
    <3>4. PICK b : b = index_block2[k]
      OBVIOUS
    <3>5. Store(b) /\ b = At(g, "leaf2", t, k)
      <4>1. job.offset - level_end1 - job.i * index_one_size = job.offset - base
        BY <1>3, <1>4, <1>b, Levels, SMTT(60) DEF base
      <4>2. Store(b)
        BY <1>15, <3>1, <3>4, <4>1 DEF WriteTwo
      <4>3. TableAt(g, t) = index_block2
        BY <1>3, <1>4 DEF TableAt, Using
      <4> QED
        BY <3>4, <4>2, <4>3 DEF At
    <3>6. Valid("leaf2", t, k) /\ From("leaf2", t, k) = base + k * BLOCK_SIZE
      BY <3>2, <3>3, <1>b, Sizes DEF Valid, From, Entries, base
    <3> QED
      BY <1>1, <1>3, <1>4, <1>15, <1>b, <2>4, <3>2, <3>5, <3>6, StoredOld DEF DataKinds
  <2> QED
    BY <1>10, <2>2, <2>3, <2>5, <2>6 DEF DataInv
<1> QED
  BY <1>14, <1>15
-----------------------------------------------------------------------------
(* Fetching index blocks and writing them back. *)

(* A file that holds a block holds the index blocks that lead to it. *)
LEMMA IndexHeld ==
  ASSUME DataType, NEW f \in Inodes, NEW kd \in Kinds, NEW i \in Nat, NEW j \in Nat,
         Valid(kd, i, j), Has(f, kd, i, j)
  PROVE  /\ kd = "leaf1" => Has(f, "one", 0, 0)
         /\ kd = "leaf2" => Valid("tab", i, 0) /\ Has(f, "tab", i, 0)
         /\ kd \in {"leaf2", "tab"} => Has(f, "two", 0, 0)
<1>1. inode[f].size \in Nat
  BY DEF DataType, NodeType
<1>2. From(kd, i, j) \in Nat
  BY SlotRange
<1>3. CASE kd = "leaf1"
  <2>1. level_end0 <= From(kd, i, j) /\ From(kd, i, j) < inode[f].size
    BY <1>3, SlotRange DEF Has, Early
  <2>2. From("one", 0, 0) = level_end0
    BY DEF From
  <2> QED
    BY <1>1, <1>2, <1>3, <2>1, <2>2, Levels DEF Has
<1>4. CASE kd = "leaf2"
  <2>1. Valid("tab", i, 0)
    BY <1>4 DEF Valid
  <2>2. From("tab", i, 0) <= From(kd, i, j) /\ From("tab", i, 0) \in Nat /\ From("two", 0, 0) = level_end1
    BY <1>4, <2>1, SlotRange DEF From, Kinds
  <2>3. level_end1 <= From(kd, i, j)
    BY <1>4, SecondLevel
  <2>4. From(kd, i, j) < inode[f].size
    BY <1>4 DEF Has, Early
  <2> QED
    BY <1>1, <1>2, <1>4, <2>1, <2>2, <2>3, <2>4, Levels DEF Has
<1>5. CASE kd = "tab"
  <2>1. CASE From(kd, i, j) < inode[f].size
    <3>1. level_end1 <= From(kd, i, j) /\ From("two", 0, 0) = level_end1
      BY <1>5, SecondLevel DEF From
    <3> QED
      BY <1>1, <1>2, <1>5, <2>1, <3>1, Levels DEF Has
  <2>2. CASE Early(f, kd, i)
    BY <1>5, <2>2 DEF Has, Early, Using
  <2> QED
    BY <1>5, <2>1, <2>2 DEF Has
<1> QED
  BY <1>3, <1>4, <1>5

(* The block an index slot holds can be read. *)
LEMMA IndexBlock ==
  ASSUME DataType, Exact(BlockOf, block_bitmap),
         NEW f \in Inodes, NEW kd \in Kinds, NEW i \in Nat, NEW j \in Nat,
         Valid(kd, i, j), Has(f, kd, i, j)
  PROVE  At(f, kd, i, j) \in Blocks /\ ptrs[At(f, kd, i, j)] \in Table
<1>1. At(f, kd, i, j) \in block_bitmap
  BY HeldMarked
<1> QED
  BY <1>1 DEF DataType

(* A job that goes into a level. *)
LEMMA JobEntered ==
  ASSUME NEW r \in JobType, NEW p \in {"one", "two"}, NEW s,
         s = [r EXCEPT !.at = p, !.flag1 = FALSE]
  PROVE  s = [f |-> r.f, offset |-> r.offset, rest |-> r.rest, i |-> r.i, at |-> p,
              flag1 |-> FALSE, flag2 |-> r.flag2]
BY DEF JobType

(* A job that leaves a level. *)
LEMMA JobLeft ==
  ASSUME NEW r \in JobType, NEW p \in {"level", "two"}, NEW s, s = [r EXCEPT !.at = p]
  PROVE  s = [f |-> r.f, offset |-> r.offset, rest |-> r.rest, i |-> r.i, at |-> p,
              flag1 |-> r.flag1, flag2 |-> r.flag2]
BY DEF JobType

(* An inode with the block b put at place k of its index. *)
LEMMA NodePut ==
  ASSUME inode \in [Inodes -> NodeType], NEW g \in Inodes, NEW k, NEW b \in Pointers,
         inode' = [inode EXCEPT ![g].index[k] = b]
  PROVE  /\ inode' \in [Inodes -> NodeType] /\ inode'[g].size = inode[g].size
         /\ inode'[g].index = [inode[g].index EXCEPT ![k] = b]
         /\ \A f \in Inodes \ {g} : inode'[f] = inode[f]
<1> DEFINE new == [inode[g].index EXCEPT ![k] = b]
<1>1. inode[g] \in NodeType /\ inode[g].index \in [0..Two -> Pointers] /\ inode[g].size \in Nat
  BY DEF NodeType
<1>2. new \in [0..Two -> Pointers]
  BY <1>1, PutType
<1>3. inode' = [inode EXCEPT ![g] = [inode[g] EXCEPT !.index = new]]
  OBVIOUS
<1> HIDE DEF new
<1>4. [inode[g] EXCEPT !.index = new] = [size |-> inode[g].size, index |-> new]
  BY <1>1 DEF NodeType
<1>5. [size |-> inode[g].size, index |-> new] \in NodeType
  BY <1>1, <1>2 DEF NodeType
<1> QED
  BY <1>3, <1>4, <1>5 DEF new

(* Going into the first level. *)
LEMMA EnterOneStep ==
  ASSUME DataInv, EnterOne
  PROVE  DataInv' /\ Kept
<1>1. DataType /\ JobOK /\ Exact(BlockOf, block_bitmap)
  BY DEF DataInv
<1>2. job \in JobType /\ inode \in [Inodes -> NodeType] /\ index_block1 \in Table
  BY <1>1 DEF DataType
<1>3. /\ job.at = "level" /\ job.rest # <<>> /\ level_end0 <= job.offset /\ job.offset < level_end1
      /\ job.f \in Inodes /\ job.offset = inode[job.f].size /\ job.offset \in Nat
  BY <1>1, <1>2 DEF EnterOne, More, JobOK, JobType
<1>4. PICK g \in Inodes : g = job.f
  BY <1>3
<1>5. /\ job' \in JobType /\ job'.f = job.f /\ job'.offset = job.offset /\ job'.rest = job.rest
      /\ job'.i = job.i /\ job'.at = "one"
  <2>1. job' = [job EXCEPT !.at = "one", !.flag1 = FALSE]
    BY DEF EnterOne
  <2>2. job' = [f |-> job.f, offset |-> job.offset, rest |-> job.rest, i |-> job.i, at |-> "one",
                flag1 |-> FALSE, flag2 |-> job.flag2]
    BY <1>2, <2>1, JobEntered
  <2> QED
    BY <1>2, <2>2 DEF JobType
<1>6. job'.flag1 = FALSE
  BY <1>2 DEF EnterOne, JobType
<1>7. ptrs' = ptrs /\ index_block2' = index_block2
  BY DEF EnterOne
<1>8. inode[g] \in NodeType /\ inode[g].index \in [0..Two -> Pointers] /\ inode[g].size \in Nat
  BY <1>2 DEF NodeType
<1>9. CASE job.offset = level_end0
  <2>1. /\ GetFreeBlock /\ index_block1' = index_block1
        /\ inode' = [inode EXCEPT ![g].index[One] = FreeBlock]
    BY <1>4, <1>9 DEF EnterOne, FetchIndex
  <2>2. PICK b \in Blocks : b = FreeBlock
    BY <1>1, <2>1, Handed
  <2>3. /\ b \in Pointers /\ b \notin block_bitmap /\ block_bitmap' = block_bitmap \cup {b}
        /\ block_bitmap' \in SUBSET Blocks /\ block_bit_index' \in Blocks
    BY <1>1, <2>1, <2>2, Handed
  <2>4. /\ inode' \in [Inodes -> NodeType] /\ inode'[g].size = inode[g].size
        /\ inode'[g].index = [inode[g].index EXCEPT ![One] = b]
        /\ \A f \in Inodes \ {g} : inode'[f] = inode[f]
    <3>1. inode' = [inode EXCEPT ![g].index[One] = b]
      BY <2>1, <2>2
    <3> QED
      BY <1>2, <2>3, <3>1, NodePut
  <2>5. inode'[g].index[One] = b /\ \A i \in 0..(DIRECT - 1) : inode'[g].index[i] = inode[g].index[i]
    <3>1. One \in 0..Two /\ One \notin 0..(DIRECT - 1) /\ 0..(DIRECT - 1) \subseteq 0..Two
      BY Sizes DEF One, Two
    <3> QED
      BY <1>8, <2>4, <3>1
  <2>6. DataType'
    <3>1. ptrs' \in [Blocks -> Table] /\ index_block1' \in Table /\ index_block2' \in Table
      BY <1>1, <1>7, <2>1 DEF DataType
    <3>2. \A f \in Inodes : inode'[f].size <= level_end2
      BY <1>1, <2>4 DEF DataType
    <3> QED
      BY <1>5, <2>3, <2>4, <3>1, <3>2, TypeAgain DEF TypeParts
  <2>7. JobOK'
    <3>1. job'.f \in Inodes /\ job'.offset = inode'[job'.f].size
      BY <1>3, <1>4, <1>5, <2>4
    <3>2. job'.at = "one" /\ job'.offset = level_end0 /\ job'.rest # <<>> /\ level_end0 <= level_end1
      BY <1>3, <1>5, <1>9, Levels
    <3> QED
      BY <3>1, <3>2, Levels DEF JobOK, Inodes, level_end0, level_end1, index_one_size
  <2>8. Valid("one", 0, 0) /\ "one" \in Kinds /\ 0 \in Nat /\ From("one", 0, 0) = level_end0
    BY DEF Valid, Kinds, From
  <2>9. ASSUME NEW f \in Inodes, NEW kd \in Kinds, NEW i \in Nat, NEW j \in Nat, Valid(kd, i, j)
        PROVE  /\ Has(f, kd, i, j)' <=> Has(f, kd, i, j) \/ (f = g /\ kd = "one")
               /\ Has(f, kd, i, j) => At(f, kd, i, j)' = At(f, kd, i, j)
    <3>1. From(kd, i, j)' = From(kd, i, j)
      BY DEF From, level_end0, level_end1, index_one_size
    <3>2. inode'[f].size = inode[f].size
      BY <2>4
    <3>3. Has(f, kd, i, j)' <=> Has(f, kd, i, j) \/ (f = g /\ kd = "one")
      BY <1>3, <1>4, <1>5, <3>1, <3>2 DEF Has, Early, Using
    <3>4. CASE f # g
      <4>1. inode'[f] = inode[f]
        BY <2>4, <3>4
      <4>2. TableOne(f)' = TableOne(f) /\ TableTwo(f)' = TableTwo(f)
        BY <1>4, <1>5, <1>7, <3>4, <4>1 DEF TableOne, TableTwo, Using, One, Two
      <4>3. TableAt(f, i)' = TableAt(f, i)
        BY <1>4, <1>5, <1>7, <3>4, <4>2 DEF TableAt, Using
      <4> QED
        BY <3>3, <4>1, <4>2, <4>3, AtFrom
    <3>5. CASE f = g
      <4>1. Has(f, kd, i, j) => kd = "direct"
        <5>1. Has(f, kd, i, j) => From(kd, i, j) < level_end0
          BY <1>3, <1>4, <1>9, <3>5 DEF Has, Early, Using
        <5>2. kd # "direct" => level_end0 <= From(kd, i, j)
          BY <2>9, SlotRange, Levels DEF Kinds, From
        <5>3. From(kd, i, j) \in Nat
          BY <2>9, SlotRange
        <5> QED
          BY <5>1, <5>2, <5>3, Levels
      <4>2. kd = "direct" => At(f, kd, i, j)' = At(f, kd, i, j)
        BY <2>5, <2>9, <3>5 DEF At, Valid
      <4> QED
        BY <3>3, <4>1, <4>2
    <3> QED
      BY <3>4, <3>5
  <2>10. ~Has(g, "one", 0, 0) /\ Has(g, "one", 0, 0)' /\ At(g, "one", 0, 0)' = b
    <3>1. ~Has(g, "one", 0, 0)
      BY <1>3, <1>4, <1>9, <2>8 DEF Has, Early, Using
    <3>2. Has(g, "one", 0, 0)'
      BY <2>8, <2>9
    <3>3. At(g, "one", 0, 0)' = b
      BY <2>5 DEF At, One
    <3> QED
      BY <3>1, <3>2, <3>3
  <2>11. Added(b, g, "one", 0, 0)
    <3>1. \A i, j : Valid("one", i, j) => i = 0 /\ j = 0
      BY DEF Valid
    <3> QED
      BY <2>3, <2>8, <2>9, <2>10, <3>1 DEF Added
  <2>12. Exact(BlockOf, block_bitmap)' /\ Kept
    BY <1>1, <2>8, <2>11, OneMore
  <2> QED
    BY <2>6, <2>7, <2>12 DEF DataInv
<1>10. CASE job.offset # level_end0
  <2>1. /\ index_block1' = ptrs[inode[g].index[One]] /\ inode' = inode
        /\ block_bitmap' = block_bitmap /\ block_bit_index' = block_bit_index
    BY <1>4, <1>10 DEF EnterOne, FetchIndex, Ino
  <2>2. Valid("one", 0, 0) /\ "one" \in Kinds /\ 0 \in Nat /\ Has(g, "one", 0, 0)
        /\ At(g, "one", 0, 0) = inode[g].index[One]
    <3>1. Valid("one", 0, 0) /\ "one" \in Kinds /\ From("one", 0, 0) = level_end0
      BY DEF Valid, Kinds, From
    <3>2. level_end0 < inode[g].size
      BY <1>3, <1>4, <1>10, Levels
    <3> QED
      BY <3>1, <3>2 DEF Has, At
  <2>3. index_block1' \in Table
    BY <1>1, <2>1, <2>2, IndexBlock
  <2>4. DataType'
    <3>1. /\ ptrs' \in [Blocks -> Table] /\ index_block2' \in Table /\ inode' \in [Inodes -> NodeType]
          /\ block_bitmap' \in SUBSET Blocks /\ block_bit_index' \in Blocks
          /\ \A f \in Inodes : inode'[f].size <= level_end2
      BY <1>1, <1>7, <2>1 DEF DataType
    <3> QED
      BY <1>5, <2>3, <3>1, TypeAgain DEF TypeParts
  <2>5. JobOK'
    <3>1. job'.f \in Inodes /\ job'.offset = inode'[job'.f].size
      BY <1>3, <1>4, <1>5, <2>1
    <3>2. job'.at = "one" /\ job'.offset # level_end0 /\ level_end0 <= job'.offset /\ job'.offset <= level_end1
      BY <1>3, <1>5, <1>10, Levels
    <3>3. index_block1' = ptrs'[Ino'.index[One]]
      BY <1>4, <1>5, <1>7, <2>1 DEF Ino
    <3> QED
      BY <3>1, <3>2, <3>3 DEF JobOK, Inodes, level_end0, level_end1, index_one_size, One
  <2>6. ASSUME NEW f \in Inodes, NEW kd \in Kinds, NEW i \in Nat, NEW j \in Nat, Valid(kd, i, j)
        PROVE  /\ Has(f, kd, i, j)' <=> Has(f, kd, i, j)
               /\ Has(f, kd, i, j) => At(f, kd, i, j)' = At(f, kd, i, j)
    <3>1. From(kd, i, j)' = From(kd, i, j)
      BY DEF From, level_end0, level_end1, index_one_size
    <3>2. kd = "one" => i = 0 /\ j = 0
      BY <2>6 DEF Valid
    <3>3. Has(f, kd, i, j)' <=> Has(f, kd, i, j)
      BY <1>3, <1>4, <1>5, <2>1, <2>2, <3>1, <3>2 DEF Has, Early, Using
    <3>4. TableOne(f)' = TableOne(f) /\ TableTwo(f)' = TableTwo(f)
      BY <1>3, <1>4, <1>5, <1>7, <2>1 DEF TableOne, TableTwo, Using, One, Two
    <3>5. TableAt(f, i)' = TableAt(f, i)
      BY <1>3, <1>5, <1>7, <3>4 DEF TableAt, Using
    <3> QED
      BY <2>1, <3>3, <3>4, <3>5, AtFrom
  <2>7. Exact(BlockOf, block_bitmap)' /\ Kept
    BY <1>1, <2>1, <2>6, SameMap
  <2> QED
    BY <2>4, <2>5, <2>7 DEF DataInv
<1> QED
  BY <1>9, <1>10

(* Going into the second level. *)
LEMMA EnterTwoStep ==
  ASSUME DataInv, EnterTwo
  PROVE  DataInv' /\ Kept
<1>1. DataType /\ JobOK /\ Exact(BlockOf, block_bitmap)
  BY DEF DataInv
<1>2. job \in JobType /\ inode \in [Inodes -> NodeType] /\ index_block1 \in Table
  BY <1>1 DEF DataType
<1>3. /\ job.at = "level" /\ job.rest # <<>> /\ level_end1 <= job.offset /\ job.offset < level_end2
      /\ job.f \in Inodes /\ job.offset = inode[job.f].size /\ job.offset \in Nat
  BY <1>1, <1>2 DEF EnterTwo, More, JobOK, JobType
<1>4. PICK g \in Inodes : g = job.f
  BY <1>3
<1>5. /\ job' \in JobType /\ job'.f = job.f /\ job'.offset = job.offset /\ job'.rest = job.rest
      /\ job'.i = job.i /\ job'.at = "two"
  <2>1. job' = [job EXCEPT !.at = "two", !.flag1 = FALSE]
    BY DEF EnterTwo
  <2>2. job' = [f |-> job.f, offset |-> job.offset, rest |-> job.rest, i |-> job.i, at |-> "two",
                flag1 |-> FALSE, flag2 |-> job.flag2]
    BY <1>2, <2>1, JobEntered
  <2> QED
    BY <1>2, <2>2 DEF JobType
<1>6. job'.flag1 = FALSE
  BY <1>2 DEF EnterTwo, JobType
<1>7. ptrs' = ptrs /\ index_block2' = index_block2
  BY DEF EnterTwo
<1>8. inode[g] \in NodeType /\ inode[g].index \in [0..Two -> Pointers] /\ inode[g].size \in Nat
  BY <1>2 DEF NodeType
<1>9. CASE job.offset = level_end1
  <2>1. /\ GetFreeBlock /\ index_block1' = index_block1
        /\ inode' = [inode EXCEPT ![g].index[Two] = FreeBlock]
    BY <1>4, <1>9 DEF EnterTwo, FetchIndex
  <2>2. PICK b \in Blocks : b = FreeBlock
    BY <1>1, <2>1, Handed
  <2>3. /\ b \in Pointers /\ b \notin block_bitmap /\ block_bitmap' = block_bitmap \cup {b}
        /\ block_bitmap' \in SUBSET Blocks /\ block_bit_index' \in Blocks
    BY <1>1, <2>1, <2>2, Handed
  <2>4. /\ inode' \in [Inodes -> NodeType] /\ inode'[g].size = inode[g].size
        /\ inode'[g].index = [inode[g].index EXCEPT ![Two] = b]
        /\ \A f \in Inodes \ {g} : inode'[f] = inode[f]
    <3>1. inode' = [inode EXCEPT ![g].index[Two] = b]
      BY <2>1, <2>2
    <3> QED
      BY <1>2, <2>3, <3>1, NodePut
  <2>5. /\ inode'[g].index[Two] = b /\ inode'[g].index[One] = inode[g].index[One]
        /\ \A i \in 0..(DIRECT - 1) : inode'[g].index[i] = inode[g].index[i]
    <3>1. Two \in 0..Two /\ Two \notin 0..(DIRECT - 1) /\ 0..(DIRECT - 1) \subseteq 0..Two
          /\ One \in 0..Two /\ One # Two
      BY Sizes DEF One, Two
    <3> QED
      BY <1>8, <2>4, <3>1
  <2>6. DataType'
    <3>1. ptrs' \in [Blocks -> Table] /\ index_block1' \in Table /\ index_block2' \in Table
      BY <1>1, <1>7, <2>1 DEF DataType
    <3>2. \A f \in Inodes : inode'[f].size <= level_end2
      BY <1>1, <2>4 DEF DataType
    <3> QED
      BY <1>5, <2>3, <2>4, <3>1, <3>2, TypeAgain DEF TypeParts
  <2>7. JobOK'
    <3>1. job'.f \in Inodes /\ job'.offset = inode'[job'.f].size
      BY <1>3, <1>4, <1>5, <2>4
    <3>2. job'.at = "two" /\ job'.offset = level_end1 /\ job'.rest # <<>> /\ level_end1 <= level_end2
      BY <1>3, <1>5, <1>9, Levels
    <3> QED
      BY <3>1, <3>2, Levels DEF JobOK, Inodes, level_end1, level_end2, level_end0, index_one_size
  <2>8. Valid("two", 0, 0) /\ "two" \in Kinds /\ 0 \in Nat /\ From("two", 0, 0) = level_end1
    BY DEF Valid, Kinds, From
  <2>9. ASSUME NEW f \in Inodes, NEW kd \in Kinds, NEW i \in Nat, NEW j \in Nat, Valid(kd, i, j)
        PROVE  /\ Has(f, kd, i, j)' <=> Has(f, kd, i, j) \/ (f = g /\ kd = "two")
               /\ Has(f, kd, i, j) => At(f, kd, i, j)' = At(f, kd, i, j)
    <3>1. From(kd, i, j)' = From(kd, i, j)
      BY DEF From, level_end0, level_end1, index_one_size
    <3>2. inode'[f].size = inode[f].size
      BY <2>4
    <3>3. Has(f, kd, i, j)' <=> Has(f, kd, i, j) \/ (f = g /\ kd = "two")
      BY <1>3, <1>4, <1>5, <3>1, <3>2 DEF Has, Early, Using
    <3>4. CASE f # g
      <4>1. inode'[f] = inode[f]
        BY <2>4, <3>4
      <4>2. TableOne(f)' = TableOne(f) /\ TableTwo(f)' = TableTwo(f)
        BY <1>4, <1>5, <1>7, <3>4, <4>1 DEF TableOne, TableTwo, Using, One, Two
      <4>3. TableAt(f, i)' = TableAt(f, i)
        BY <1>4, <1>5, <1>7, <3>4, <4>2 DEF TableAt, Using
      <4> QED
        BY <3>3, <4>1, <4>2, <4>3, AtFrom
    <3>5. CASE f = g
      <4>1. Has(f, kd, i, j) => kd \in {"direct", "leaf1", "one"}
        <5>1. Has(f, kd, i, j) => From(kd, i, j) < level_end1
          BY <1>3, <1>4, <1>9, <3>5 DEF Has, Early, Using
        <5>2. kd \in {"two", "leaf2", "tab"} => level_end1 <= From(kd, i, j)
          BY <2>9, SecondLevel
        <5>3. From(kd, i, j) \in Nat
          BY <2>9, SlotRange
        <5> QED
          BY <5>1, <5>2, <5>3, Levels DEF Kinds
      <4>2. kd \in {"direct", "one"} => At(f, kd, i, j)' = At(f, kd, i, j)
        BY <2>5, <2>9, <3>5 DEF At, Valid, One
      <4>3. TableOne(f)' = TableOne(f)
        BY <1>3, <1>5, <1>7, <2>5, <3>5 DEF TableOne, Using, One
      <4>4. kd = "leaf1" => At(f, kd, i, j)' = At(f, kd, i, j)
        BY <4>3 DEF At
      <4> QED
        BY <3>3, <4>1, <4>2, <4>4
    <3> QED
      BY <3>4, <3>5
  <2>10. ~Has(g, "two", 0, 0) /\ Has(g, "two", 0, 0)' /\ At(g, "two", 0, 0)' = b
    <3>1. ~Has(g, "two", 0, 0)
      BY <1>3, <1>4, <1>9, <2>8 DEF Has, Early, Using
    <3>2. Has(g, "two", 0, 0)'
      BY <2>8, <2>9
    <3>3. At(g, "two", 0, 0)' = b
      BY <2>5 DEF At, Two
    <3> QED
      BY <3>1, <3>2, <3>3
  <2>11. Added(b, g, "two", 0, 0)
    <3>1. \A i, j : Valid("two", i, j) => i = 0 /\ j = 0
      BY DEF Valid
    <3> QED
      BY <2>3, <2>8, <2>9, <2>10, <3>1 DEF Added
  <2>12. Exact(BlockOf, block_bitmap)' /\ Kept
    BY <1>1, <2>8, <2>11, OneMore
  <2> QED
    BY <2>6, <2>7, <2>12 DEF DataInv
<1>10. CASE job.offset # level_end1
  <2>1. /\ index_block1' = ptrs[inode[g].index[Two]] /\ inode' = inode
        /\ block_bitmap' = block_bitmap /\ block_bit_index' = block_bit_index
    BY <1>4, <1>10 DEF EnterTwo, FetchIndex, Ino
  <2>2. Valid("two", 0, 0) /\ "two" \in Kinds /\ 0 \in Nat /\ Has(g, "two", 0, 0)
        /\ At(g, "two", 0, 0) = inode[g].index[Two]
    <3>1. Valid("two", 0, 0) /\ "two" \in Kinds /\ From("two", 0, 0) = level_end1
      BY DEF Valid, Kinds, From
    <3>2. level_end1 < inode[g].size
      BY <1>3, <1>4, <1>10, Levels
    <3> QED
      BY <3>1, <3>2 DEF Has, At
  <2>3. index_block1' \in Table
    BY <1>1, <2>1, <2>2, IndexBlock
  <2>4. DataType'
    <3>1. /\ ptrs' \in [Blocks -> Table] /\ index_block2' \in Table /\ inode' \in [Inodes -> NodeType]
          /\ block_bitmap' \in SUBSET Blocks /\ block_bit_index' \in Blocks
          /\ \A f \in Inodes : inode'[f].size <= level_end2
      BY <1>1, <1>7, <2>1 DEF DataType
    <3> QED
      BY <1>5, <2>3, <3>1, TypeAgain DEF TypeParts
  <2>5. JobOK'
    <3>1. job'.f \in Inodes /\ job'.offset = inode'[job'.f].size
      BY <1>3, <1>4, <1>5, <2>1
    <3>2. job'.at = "two" /\ job'.offset # level_end1 /\ level_end1 <= job'.offset /\ job'.offset <= level_end2
      BY <1>3, <1>5, <1>10, Levels
    <3>3. index_block1' = ptrs'[Ino'.index[Two]]
      BY <1>4, <1>5, <1>7, <2>1 DEF Ino
    <3> QED
      BY <3>1, <3>2, <3>3 DEF JobOK, Inodes, level_end1, level_end2, level_end0, index_one_size, Two
  <2>6. ASSUME NEW f \in Inodes, NEW kd \in Kinds, NEW i \in Nat, NEW j \in Nat, Valid(kd, i, j)
        PROVE  /\ Has(f, kd, i, j)' <=> Has(f, kd, i, j)
               /\ Has(f, kd, i, j) => At(f, kd, i, j)' = At(f, kd, i, j)
    <3>1. From(kd, i, j)' = From(kd, i, j)
      BY DEF From, level_end0, level_end1, index_one_size
    <3>2. kd = "two" => i = 0 /\ j = 0
      BY <2>6 DEF Valid
    <3>3. Has(f, kd, i, j)' <=> Has(f, kd, i, j)
      BY <1>3, <1>4, <1>5, <2>1, <2>2, <3>1, <3>2 DEF Has, Early, Using
    <3>4. TableOne(f)' = TableOne(f) /\ TableTwo(f)' = TableTwo(f)
      BY <1>3, <1>4, <1>5, <1>7, <2>1 DEF TableOne, TableTwo, Using, One, Two
    <3>5. TableAt(f, i)' = TableAt(f, i)
      BY <1>3, <1>5, <1>7, <3>4 DEF TableAt, Using
    <3> QED
      BY <2>1, <3>3, <3>4, <3>5, AtFrom
  <2>7. Exact(BlockOf, block_bitmap)' /\ Kept
    BY <1>1, <2>1, <2>6, SameMap
  <2> QED
    BY <2>4, <2>5, <2>7 DEF DataInv
<1> QED
  BY <1>9, <1>10

\* The step writes the table x to block c, or leaves the disk as it is when that
\* is there already.
PutBack(c, x) ==
  /\ c \in Blocks /\ x \in Table
  /\ ptrs' = [ptrs EXCEPT ![c] = x] \/ (ptrs' = ptrs /\ ptrs[c] = x)

(* Writing back an index block changes no other block that a file holds. *)
LEMMA WrittenBack ==
  ASSUME DataType, Exact(BlockOf, block_bitmap), NEW c, NEW x, PutBack(c, x),
         NEW g \in Inodes, NEW kd0 \in Kinds, NEW i0 \in Nat, NEW j0 \in Nat,
         Valid(kd0, i0, j0), Has(g, kd0, i0, j0), c = At(g, kd0, i0, j0)
  PROVE  /\ ptrs' \in [Blocks -> Table] /\ ptrs'[c] = x
         /\ \A f \in Inodes, kd \in Kinds, i \in Nat, j \in Nat :
              Valid(kd, i, j) /\ Has(f, kd, i, j) /\ ~(f = g /\ kd = kd0 /\ i = i0)
                => ptrs'[At(f, kd, i, j)] = ptrs[At(f, kd, i, j)]
<1>1. ptrs \in [Blocks -> Table] /\ c \in Blocks /\ x \in Table
  BY DEF DataType, PutBack
<1>2. ptrs' \in [Blocks -> Table] /\ ptrs'[c] = x /\ \A b \in Blocks : b # c => ptrs'[b] = ptrs[b]
  BY <1>1 DEF PutBack
<1>3. ASSUME NEW f \in Inodes, NEW kd \in Kinds, NEW i \in Nat, NEW j \in Nat,
             Valid(kd, i, j), Has(f, kd, i, j), ~(f = g /\ kd = kd0 /\ i = i0)
      PROVE  ptrs'[At(f, kd, i, j)] = ptrs[At(f, kd, i, j)]
  <2>1. At(f, kd, i, j) # c
    BY <1>3, HeldOnce
  <2>2. At(f, kd, i, j) \in Blocks
    BY <1>3, IndexBlock
  <2> QED
    BY <1>2, <2>1, <2>2
<1> QED
  BY <1>2, <1>3

(* Leaving the first level. *)
LEMMA LeaveOneStep ==
  ASSUME DataInv, LeaveOne
  PROVE  DataInv' /\ Kept
<1>1. DataType /\ JobOK /\ Exact(BlockOf, block_bitmap)
  BY DEF DataInv
<1>2. job \in JobType /\ inode \in [Inodes -> NodeType] /\ index_block1 \in Table
  BY <1>1 DEF DataType
<1>3. /\ job.at = "one" /\ job.f \in Inodes /\ job.offset = inode[job.f].size /\ job.offset \in Nat
      /\ level_end0 < job.offset
      /\ job.flag1 \/ index_block1 = ptrs[Ino.index[One]]
  BY <1>1, <1>2, Levels DEF LeaveOne, More, JobOK, JobType
<1>4. PICK g \in Inodes : g = job.f
  BY <1>3
<1>5. /\ job' \in JobType /\ job'.f = job.f /\ job'.offset = job.offset /\ job'.rest = job.rest
      /\ job'.i = job.i /\ job'.at = "level"
  <2>1. job' = [job EXCEPT !.at = "level"]
    BY DEF LeaveOne
  <2>2. job' = [f |-> job.f, offset |-> job.offset, rest |-> job.rest, i |-> job.i, at |-> "level",
                flag1 |-> job.flag1, flag2 |-> job.flag2]
    BY <1>2, <2>1, JobLeft
  <2> QED
    BY <1>2, <2>2 DEF JobType
<1>6. /\ inode' = inode /\ index_block1' = index_block1 /\ index_block2' = index_block2
      /\ block_bitmap' = block_bitmap /\ block_bit_index' = block_bit_index
  BY DEF LeaveOne, Rest
<1>7. Valid("one", 0, 0) /\ "one" \in Kinds /\ 0 \in Nat /\ Has(g, "one", 0, 0)
      /\ At(g, "one", 0, 0) = inode[g].index[One]
  <2>1. Valid("one", 0, 0) /\ "one" \in Kinds /\ From("one", 0, 0) = level_end0
    BY DEF Valid, Kinds, From
  <2> QED
    BY <1>3, <1>4, <2>1 DEF Has, At
<1>8. PICK c \in Blocks : c = At(g, "one", 0, 0)
  BY <1>1, <1>7, IndexBlock
<1>9. PutBack(c, index_block1)
  BY <1>2, <1>3, <1>4, <1>7, <1>8 DEF PutBack, LeaveOne, Ino
<1>10. /\ ptrs' \in [Blocks -> Table] /\ ptrs'[c] = index_block1
       /\ \A f \in Inodes, kd \in Kinds, i \in Nat, j \in Nat :
            Valid(kd, i, j) /\ Has(f, kd, i, j) /\ ~(f = g /\ kd = "one" /\ i = 0)
              => ptrs'[At(f, kd, i, j)] = ptrs[At(f, kd, i, j)]
  BY <1>1, <1>7, <1>8, <1>9, WrittenBack
<1>11. DataType'
  <2>1. /\ index_block1' \in Table /\ index_block2' \in Table /\ inode' \in [Inodes -> NodeType]
        /\ block_bitmap' \in SUBSET Blocks /\ block_bit_index' \in Blocks
        /\ \A f \in Inodes : inode'[f].size <= level_end2
    BY <1>1, <1>6 DEF DataType
  <2> QED
    BY <1>5, <1>10, <2>1, TypeAgain DEF TypeParts
<1>12. JobOK'
  BY <1>3, <1>5, <1>6 DEF JobOK, Inodes
<1>13. ASSUME NEW f \in Inodes, NEW kd \in Kinds, NEW i \in Nat, NEW j \in Nat, Valid(kd, i, j)
       PROVE  /\ Has(f, kd, i, j)' <=> Has(f, kd, i, j)
              /\ Has(f, kd, i, j) => At(f, kd, i, j)' = At(f, kd, i, j)
  <2>1. From(kd, i, j)' = From(kd, i, j)
    BY DEF From, level_end0, level_end1, index_one_size
  <2>2. kd = "one" => From(kd, i, j) = level_end0
    BY DEF From
  <2>3. Has(f, kd, i, j)' <=> Has(f, kd, i, j)
    BY <1>3, <1>4, <1>5, <1>6, <2>1, <2>2 DEF Has, Early, Using
  <2>4. Valid("two", 0, 0) /\ "two" \in Kinds /\ "tab" \in Kinds
    BY DEF Valid, Kinds
  <2>5. Has(f, "one", 0, 0) => TableOne(f)' = TableOne(f)
    <3> SUFFICES ASSUME Has(f, "one", 0, 0)  PROVE TableOne(f)' = TableOne(f)
      OBVIOUS
    <3>1. At(f, "one", 0, 0) = inode[f].index[One]
      BY DEF At
    <3>2. TableOne(f)' = ptrs'[inode[f].index[One]]
      BY <1>5, <1>6 DEF TableOne, Using, One
    <3>3. CASE f = g
      BY <1>3, <1>4, <1>7, <1>8, <1>10, <3>2, <3>3 DEF TableOne, Using
    <3>4. CASE f # g
      <4>1. ptrs'[inode[f].index[One]] = ptrs[inode[f].index[One]]
        BY <1>7, <1>10, <3>1, <3>4
      <4> QED
        BY <1>4, <3>2, <3>4, <4>1 DEF TableOne, Using
    <3> QED
      BY <3>3, <3>4
  <2>6. Has(f, "two", 0, 0) => TableTwo(f)' = TableTwo(f)
    <3>1. At(f, "two", 0, 0) = inode[f].index[Two]
      BY DEF At
    <3>2. Has(f, "two", 0, 0) => ptrs'[inode[f].index[Two]] = ptrs[inode[f].index[Two]]
      BY <1>10, <2>4, <3>1
    <3> QED
      BY <1>3, <1>5, <1>6, <3>2 DEF TableTwo, Using, Two
  <2>7. Has(f, "two", 0, 0) /\ Has(f, "tab", i, 0) /\ Valid("tab", i, 0) => TableAt(f, i)' = TableAt(f, i)
    <3>1. At(f, "tab", i, 0) = TableTwo(f)[i]
      BY DEF At
    <3>2. Has(f, "tab", i, 0) /\ Valid("tab", i, 0) => ptrs'[TableTwo(f)[i]] = ptrs[TableTwo(f)[i]]
      BY <1>10, <2>4, <3>1
    <3> QED
      BY <1>3, <1>5, <2>6, <3>2 DEF TableAt, Using
  <2>8. Has(f, kd, i, j) => /\ kd = "leaf1" => Has(f, "one", 0, 0)
                            /\ kd = "leaf2" => Valid("tab", i, 0) /\ Has(f, "tab", i, 0)
                            /\ kd \in {"leaf2", "tab"} => Has(f, "two", 0, 0)
    BY <1>1, <1>13, IndexHeld
  <2>9. Has(f, kd, i, j) => At(f, kd, i, j)' = At(f, kd, i, j)
    BY <1>6, <2>5, <2>6, <2>7, <2>8, AtFrom
  <2> QED
    BY <2>3, <2>9
<1>14. Exact(BlockOf, block_bitmap)' /\ Kept
  BY <1>1, <1>6, <1>13, SameMap
<1> QED
  BY <1>11, <1>12, <1>14 DEF DataInv

(* Leaving the second level. *)
LEMMA LeaveTwoStep ==
  ASSUME DataInv, LeaveTwo
  PROVE  DataInv' /\ Kept
<1>1. DataType /\ JobOK /\ Exact(BlockOf, block_bitmap)
  BY DEF DataInv
<1>2. job \in JobType /\ inode \in [Inodes -> NodeType] /\ index_block1 \in Table
  BY <1>1 DEF DataType
<1>3. /\ job.at = "two" /\ job.f \in Inodes /\ job.offset = inode[job.f].size /\ job.offset \in Nat
      /\ level_end1 < job.offset
      /\ job.flag1 \/ index_block1 = ptrs[Ino.index[Two]]
  BY <1>1, <1>2, Levels DEF LeaveTwo, More, JobOK, JobType
<1>4. PICK g \in Inodes : g = job.f
  BY <1>3
<1>5. /\ job' \in JobType /\ job'.f = job.f /\ job'.offset = job.offset /\ job'.rest = job.rest
      /\ job'.i = job.i /\ job'.at = "level"
  <2>1. job' = [job EXCEPT !.at = "level"]
    BY DEF LeaveTwo
  <2>2. job' = [f |-> job.f, offset |-> job.offset, rest |-> job.rest, i |-> job.i, at |-> "level",
                flag1 |-> job.flag1, flag2 |-> job.flag2]
    BY <1>2, <2>1, JobLeft
  <2> QED
    BY <1>2, <2>2 DEF JobType
<1>6. /\ inode' = inode /\ index_block1' = index_block1 /\ index_block2' = index_block2
      /\ block_bitmap' = block_bitmap /\ block_bit_index' = block_bit_index
  BY DEF LeaveTwo, Rest
<1>7. Valid("two", 0, 0) /\ "two" \in Kinds /\ 0 \in Nat /\ Has(g, "two", 0, 0)
      /\ At(g, "two", 0, 0) = inode[g].index[Two]
  <2>1. Valid("two", 0, 0) /\ "two" \in Kinds /\ From("two", 0, 0) = level_end1
    BY DEF Valid, Kinds, From
  <2> QED
    BY <1>3, <1>4, <2>1 DEF Has, At
<1>8. PICK c \in Blocks : c = At(g, "two", 0, 0)
  BY <1>1, <1>7, IndexBlock
<1>9. PutBack(c, index_block1)
  BY <1>2, <1>3, <1>4, <1>7, <1>8 DEF PutBack, LeaveTwo, Ino
<1>10. /\ ptrs' \in [Blocks -> Table] /\ ptrs'[c] = index_block1
       /\ \A f \in Inodes, kd \in Kinds, i \in Nat, j \in Nat :
            Valid(kd, i, j) /\ Has(f, kd, i, j) /\ ~(f = g /\ kd = "two" /\ i = 0)
              => ptrs'[At(f, kd, i, j)] = ptrs[At(f, kd, i, j)]
  BY <1>1, <1>7, <1>8, <1>9, WrittenBack
<1>11. DataType'
  <2>1. /\ index_block1' \in Table /\ index_block2' \in Table /\ inode' \in [Inodes -> NodeType]
        /\ block_bitmap' \in SUBSET Blocks /\ block_bit_index' \in Blocks
        /\ \A f \in Inodes : inode'[f].size <= level_end2
    BY <1>1, <1>6 DEF DataType
  <2> QED
    BY <1>5, <1>10, <2>1, TypeAgain DEF TypeParts
<1>12. JobOK'
  BY <1>3, <1>5, <1>6 DEF JobOK, Inodes
<1>13. ASSUME NEW f \in Inodes, NEW kd \in Kinds, NEW i \in Nat, NEW j \in Nat, Valid(kd, i, j)
       PROVE  /\ Has(f, kd, i, j)' <=> Has(f, kd, i, j)
              /\ Has(f, kd, i, j) => At(f, kd, i, j)' = At(f, kd, i, j)
  <2>1. From(kd, i, j)' = From(kd, i, j)
    BY DEF From, level_end0, level_end1, index_one_size
  <2>2. kd = "two" => From(kd, i, j) = level_end1
    BY DEF From
  <2>3. Has(f, kd, i, j)' <=> Has(f, kd, i, j)
    BY <1>3, <1>4, <1>5, <1>6, <2>1, <2>2 DEF Has, Early, Using
  <2>4. Valid("one", 0, 0) /\ "one" \in Kinds /\ "tab" \in Kinds
    BY DEF Valid, Kinds
  <2>5. Has(f, "one", 0, 0) => TableOne(f)' = TableOne(f)
    <3>1. At(f, "one", 0, 0) = inode[f].index[One]
      BY DEF At
    <3>2. Has(f, "one", 0, 0) => ptrs'[inode[f].index[One]] = ptrs[inode[f].index[One]]
      BY <1>10, <2>4, <3>1
    <3> QED
      BY <1>3, <1>5, <1>6, <3>2 DEF TableOne, Using, One
  <2>6. Has(f, "two", 0, 0) => TableTwo(f)' = TableTwo(f)
    <3> SUFFICES ASSUME Has(f, "two", 0, 0)  PROVE TableTwo(f)' = TableTwo(f)
      OBVIOUS
    <3>1. At(f, "two", 0, 0) = inode[f].index[Two]
      BY DEF At
    <3>2. TableTwo(f)' = ptrs'[inode[f].index[Two]]
      BY <1>5, <1>6 DEF TableTwo, Using, Two
    <3>3. CASE f = g
      BY <1>3, <1>4, <1>7, <1>8, <1>10, <3>2, <3>3 DEF TableTwo, Using
    <3>4. CASE f # g
      <4>1. ptrs'[inode[f].index[Two]] = ptrs[inode[f].index[Two]]
        BY <1>7, <1>10, <3>1, <3>4
      <4> QED
        BY <1>4, <3>2, <3>4, <4>1 DEF TableTwo, Using
    <3> QED
      BY <3>3, <3>4
  <2>7. Has(f, "two", 0, 0) /\ Has(f, "tab", i, 0) /\ Valid("tab", i, 0) => TableAt(f, i)' = TableAt(f, i)
    <3>1. At(f, "tab", i, 0) = TableTwo(f)[i]
      BY DEF At
    <3>2. Has(f, "tab", i, 0) /\ Valid("tab", i, 0) => ptrs'[TableTwo(f)[i]] = ptrs[TableTwo(f)[i]]
      BY <1>10, <2>4, <3>1
    <3> QED
      BY <1>3, <1>5, <2>6, <3>2 DEF TableAt, Using
  <2>8. Has(f, kd, i, j) => /\ kd = "leaf1" => Has(f, "one", 0, 0)
                            /\ kd = "leaf2" => Valid("tab", i, 0) /\ Has(f, "tab", i, 0)
                            /\ kd \in {"leaf2", "tab"} => Has(f, "two", 0, 0)
    BY <1>1, <1>13, IndexHeld
  <2>9. Has(f, kd, i, j) => At(f, kd, i, j)' = At(f, kd, i, j)
    BY <1>6, <2>5, <2>6, <2>7, <2>8, AtFrom
  <2> QED
    BY <2>3, <2>9
<1>14. Exact(BlockOf, block_bitmap)' /\ Kept
  BY <1>1, <1>6, <1>13, SameMap
<1> QED
  BY <1>11, <1>12, <1>14 DEF DataInv

(* Leaving an index block of the second level. *)
LEMMA LeaveTableStep ==
  ASSUME DataInv, LeaveTable
  PROVE  DataInv' /\ Kept
<1>1. DataType /\ JobOK /\ Exact(BlockOf, block_bitmap)
  BY DEF DataInv
<1>2. job \in JobType /\ inode \in [Inodes -> NodeType] /\ index_block1 \in Table
  BY <1>1 DEF DataType
<1>3. /\ job.at = "table" /\ job.f \in Inodes /\ job.offset = inode[job.f].size /\ job.offset \in Nat
      /\ job.i \in Entries /\ TableStart <= job.offset /\ job.offset <= TableEnd
      /\ job.offset = TableStart => job.rest # <<>>
      /\ job.flag1 \/ index_block1 = ptrs[Ino.index[Two]]
      /\ job.flag2 \/ job.offset = TableStart \/ index_block2 = ptrs[index_block1[job.i]]
  BY <1>1, <1>2 DEF LeaveTable, JobOK, JobType
<1>4. PICK g \in Inodes, t \in Entries : g = job.f /\ t = job.i
  BY <1>3
<1>a. TableStart < job.offset /\ job.offset # TableStart /\ level_end1 < job.offset /\ job.offset <= level_end2
  <2>1. /\ TableStart \in Nat /\ level_end1 <= TableStart /\ TableEnd = TableStart + index_one_size
        /\ TableEnd <= level_end2
    BY <1>4, TableRange DEF TableStart, TableEnd
  <2>2. job.offset # TableStart
    <3>1. TableStart < TableEnd
      BY <2>1, Levels
    <3> QED
      BY <1>3, <3>1 DEF LeaveTable, More
  <2> QED
    BY <1>3, <2>1, <2>2, Levels, SMTT(60)
<1>b. t \in Nat /\ t < PTRS
  BY Sizes DEF Entries
<1>5. /\ job' \in JobType /\ job'.f = job.f /\ job'.offset = job.offset /\ job'.rest = job.rest
      /\ job'.i = job.i /\ job'.at = "two" /\ job'.flag1 = job.flag1
  <2>1. job' = [job EXCEPT !.at = "two"]
    BY DEF LeaveTable
  <2>2. job' = [f |-> job.f, offset |-> job.offset, rest |-> job.rest, i |-> job.i, at |-> "two",
                flag1 |-> job.flag1, flag2 |-> job.flag2]
    BY <1>2, <2>1, JobLeft
  <2> QED
    BY <1>2, <2>2 DEF JobType
<1>6. /\ inode' = inode /\ index_block1' = index_block1 /\ index_block2' = index_block2
      /\ block_bitmap' = block_bitmap /\ block_bit_index' = block_bit_index
  BY DEF LeaveTable, Rest
<1>7. Valid("tab", t, 0) /\ "tab" \in Kinds /\ 0 \in Nat /\ Has(g, "tab", t, 0)
      /\ At(g, "tab", t, 0) = index_block1[t] /\ From("tab", t, 0) = TableStart
  <2>1. Valid("tab", t, 0) /\ "tab" \in Kinds /\ From("tab", t, 0) = TableStart
    BY <1>4 DEF Valid, Kinds, From, TableStart
  <2>2. TableTwo(g) = index_block1
    BY <1>3, <1>4 DEF TableTwo, Using
  <2> QED
    BY <1>3, <1>4, <1>a, <2>1, <2>2 DEF Has, At
<1>8. PICK c \in Blocks : c = At(g, "tab", t, 0)
  BY <1>1, <1>7, <1>b, IndexBlock
<1>9. PutBack(c, index_block2)
  <2>1. index_block2 \in Table
    BY <1>1 DEF DataType
  <2> QED
    <3>1. c = index_block1[job.i] /\ (job.flag2 \/ index_block2 = ptrs[c])
      BY <1>3, <1>4, <1>7, <1>8, <1>a
    <3>2. ptrs' = IF job.flag2 THEN [ptrs EXCEPT ![c] = index_block2] ELSE ptrs
      BY <3>1 DEF LeaveTable
    <3> QED
      BY <2>1, <3>1, <3>2 DEF PutBack
<1>10. /\ ptrs' \in [Blocks -> Table] /\ ptrs'[c] = index_block2
       /\ \A f \in Inodes, kd \in Kinds, i \in Nat, j \in Nat :
            Valid(kd, i, j) /\ Has(f, kd, i, j) /\ ~(f = g /\ kd = "tab" /\ i = t)
              => ptrs'[At(f, kd, i, j)] = ptrs[At(f, kd, i, j)]
  BY <1>1, <1>7, <1>8, <1>9, <1>b, WrittenBack
<1>11. DataType'
  <2>1. /\ index_block1' \in Table /\ index_block2' \in Table /\ inode' \in [Inodes -> NodeType]
        /\ block_bitmap' \in SUBSET Blocks /\ block_bit_index' \in Blocks
        /\ \A f \in Inodes : inode'[f].size <= level_end2
    BY <1>1, <1>6 DEF DataType
  <2> QED
    BY <1>5, <1>10, <2>1, TypeAgain DEF TypeParts
<1>12. JobOK'
  <2>1. Has(g, "two", 0, 0) /\ Valid("two", 0, 0) /\ "two" \in Kinds /\ 0 \in Nat
    BY <1>3, <1>4 DEF Has, Early, Using, Valid, Kinds
  <2>2. At(g, "two", 0, 0) = inode[g].index[Two]
    BY DEF At
  <2>3. ptrs'[inode[g].index[Two]] = ptrs[inode[g].index[Two]]
    BY <1>10, <2>1, <2>2
  <2>4. job'.flag1 \/ index_block1' = ptrs'[Ino'.index[Two]]
    BY <1>3, <1>4, <1>5, <1>6, <2>3 DEF Ino
  <2>5. /\ job'.at = "two" /\ job'.f \in Inodes /\ job'.offset = inode'[job'.f].size
        /\ level_end1 <= job'.offset /\ job'.offset <= level_end2 /\ job'.offset # level_end1
    BY <1>3, <1>5, <1>6, <1>a, Levels
  <2> QED
    BY <2>4, <2>5 DEF JobOK, Inodes, level_end0, level_end1, level_end2, index_one_size, Two
<1>13. ASSUME NEW f \in Inodes, NEW kd \in Kinds, NEW i \in Nat, NEW j \in Nat, Valid(kd, i, j)
       PROVE  /\ Has(f, kd, i, j)' <=> Has(f, kd, i, j)
              /\ Has(f, kd, i, j) => At(f, kd, i, j)' = At(f, kd, i, j)
  <2>1. From(kd, i, j)' = From(kd, i, j)
    BY DEF From, level_end0, level_end1, index_one_size
  <2>2. kd = "tab" => j = 0
    BY <1>13 DEF Valid
  <2>3. Has(f, kd, i, j)' <=> Has(f, kd, i, j)
    <3>1. kd = "tab" /\ f = g /\ i = t => From(kd, i, j) < inode[f].size
      BY <1>3, <1>4, <1>7, <1>a, <2>2
    <3> QED
      BY <1>3, <1>4, <1>5, <1>6, <2>1, <3>1 DEF Has, Early, Using
  <2>4. Valid("one", 0, 0) /\ "one" \in Kinds /\ Valid("two", 0, 0) /\ "two" \in Kinds /\ "tab" \in Kinds
    BY DEF Valid, Kinds
  <2>5. Has(f, "one", 0, 0) => TableOne(f)' = TableOne(f)
    <3>1. At(f, "one", 0, 0) = inode[f].index[One]
      BY DEF At
    <3>2. Has(f, "one", 0, 0) => ptrs'[inode[f].index[One]] = ptrs[inode[f].index[One]]
      BY <1>10, <2>4, <3>1
    <3> QED
      BY <1>3, <1>5, <1>6, <3>2 DEF TableOne, Using, One
  <2>6. Has(f, "two", 0, 0) => TableTwo(f)' = TableTwo(f)
    <3>1. At(f, "two", 0, 0) = inode[f].index[Two]
      BY DEF At
    <3>2. Has(f, "two", 0, 0) => ptrs'[inode[f].index[Two]] = ptrs[inode[f].index[Two]]
      BY <1>10, <2>4, <3>1
    <3> QED
      BY <1>3, <1>4, <1>5, <1>6, <3>2 DEF TableTwo, Using, Two
  <2>7. Has(f, "two", 0, 0) /\ Has(f, "tab", i, 0) /\ Valid("tab", i, 0) => TableAt(f, i)' = TableAt(f, i)
    <3> SUFFICES ASSUME Has(f, "two", 0, 0), Has(f, "tab", i, 0), Valid("tab", i, 0)
                 PROVE  TableAt(f, i)' = TableAt(f, i)
      OBVIOUS
    <3>1. At(f, "tab", i, 0) = TableTwo(f)[i]
      BY DEF At
    <3>2. TableAt(f, i)' = ptrs'[TableTwo(f)[i]]
      BY <1>5, <2>6 DEF TableAt, Using
    <3>3. CASE f = g /\ i = t
      BY <1>3, <1>4, <1>8, <1>10, <3>1, <3>2, <3>3 DEF TableAt, Using
    <3>4. CASE ~(f = g /\ i = t)
      <4>1. ptrs'[TableTwo(f)[i]] = ptrs[TableTwo(f)[i]]
        BY <1>10, <2>4, <3>1, <3>4
      <4> QED
        BY <1>4, <3>2, <3>4, <4>1 DEF TableAt, Using
    <3> QED
      BY <3>3, <3>4
  <2>8. Has(f, kd, i, j) => /\ kd = "leaf1" => Has(f, "one", 0, 0)
                            /\ kd = "leaf2" => Valid("tab", i, 0) /\ Has(f, "tab", i, 0)
                            /\ kd \in {"leaf2", "tab"} => Has(f, "two", 0, 0)
    BY <1>1, <1>13, IndexHeld
  <2>9. Has(f, kd, i, j) => At(f, kd, i, j)' = At(f, kd, i, j)
    BY <1>6, <2>5, <2>6, <2>7, <2>8, AtFrom
  <2> QED
    BY <2>3, <2>9
<1>14. Exact(BlockOf, block_bitmap)' /\ Kept
  BY <1>1, <1>6, <1>13, SameMap
<1> QED
  BY <1>11, <1>12, <1>14 DEF DataInv

(* write_data() returns. *)
LEMMA DoneStep ==
  ASSUME DataInv, Done
  PROVE  DataInv' /\ Kept
<1>1. DataType /\ JobOK /\ Exact(BlockOf, block_bitmap)
  BY DEF DataInv
<1>2. /\ job.at = "level" /\ job' = NoJob /\ inode' = inode /\ ptrs' = ptrs
      /\ index_block1' = index_block1 /\ index_block2' = index_block2
      /\ block_bitmap' = block_bitmap /\ block_bit_index' = block_bit_index
  BY DEF Done, Rest
<1>3. job' \in JobType /\ job'.at = "idle"
  BY <1>2 DEF NoJob, JobType, Chunk
<1>4. DataType'
  <2>1. /\ index_block1' \in Table /\ index_block2' \in Table /\ inode' \in [Inodes -> NodeType]
        /\ block_bitmap' \in SUBSET Blocks /\ block_bit_index' \in Blocks
        /\ ptrs' \in [Blocks -> Table] /\ \A f \in Inodes : inode'[f].size <= level_end2
    BY <1>1, <1>2 DEF DataType
  <2> QED
    BY <1>3, <2>1, TypeAgain DEF TypeParts
<1>5. JobOK'
  BY <1>2, <1>3 DEF JobOK, NoJob
<1>6. ASSUME NEW f \in Inodes, NEW kd \in Kinds, NEW i \in Nat, NEW j \in Nat, Valid(kd, i, j)
      PROVE  /\ Has(f, kd, i, j)' <=> Has(f, kd, i, j)
             /\ At(f, kd, i, j)' = At(f, kd, i, j)
  <2>1. From(kd, i, j)' = From(kd, i, j)
    BY DEF From, level_end0, level_end1, index_one_size
  <2>2. Has(f, kd, i, j)' <=> Has(f, kd, i, j)
    BY <1>2, <1>3, <2>1 DEF Has, Early, Using
  <2>3. TableOne(f)' = TableOne(f) /\ TableTwo(f)' = TableTwo(f)
    BY <1>2, <1>3 DEF TableOne, TableTwo, Using, One, Two
  <2>4. TableAt(f, i)' = TableAt(f, i)
    BY <1>2, <1>3, <2>3 DEF TableAt, Using
  <2> QED
    BY <1>2, <2>2, <2>3, <2>4, AtFrom
<1>7. Exact(BlockOf, block_bitmap)' /\ Kept
  BY <1>1, <1>2, <1>6, SameMap
<1> QED
  BY <1>4, <1>5, <1>7 DEF DataInv

(* The index block of the second level that an offset is behind. *)
LEMMA TableOf ==
  ASSUME NEW o \in Nat, level_end1 <= o, o < level_end2
  PROVE  \E t \in Entries :
           /\ t = (o - level_end1) \div index_one_size
           /\ level_end1 + t * index_one_size <= o
           /\ o < level_end1 + t * index_one_size + index_one_size
<1> DEFINE L == index_one_size
           d == o - level_end1
           t == d \div L
           r == d % L
<1>1. L \in Nat /\ L > 0 /\ level_end1 \in Nat /\ level_end2 = level_end1 + PTRS * L
  BY Levels
<1>2. d \in Nat
  BY <1>1
<1>3. t \in Nat /\ r \in 0..(L - 1) /\ d = t * L + r
  BY <1>1, <1>2, Division
<1>4. o = level_end1 + d
  BY <1>1
<1> HIDE DEF L, d, t, r
<1>5. t * L \in Nat /\ PTRS * L \in Nat
  BY <1>1, <1>3, Sizes
<1>6. PTRS <= t => PTRS * L <= t * L
  BY <1>1, <1>3, Multiples, Sizes
<1>7. t < PTRS
  BY <1>1, <1>2, <1>3, <1>4, <1>5, <1>6, Sizes
<1>8. t \in Entries
  BY <1>3, <1>7, Sizes DEF Entries
<1>9. level_end1 + t * L <= o /\ o < level_end1 + t * L + L
  BY <1>1, <1>2, <1>3, <1>4, <1>5
<1>10. t = (o - level_end1) \div index_one_size
  BY DEF t, d, L
<1> QED
  BY <1>8, <1>9, <1>10 DEF L

(* A job that goes to an index block of the second level. *)
LEMMA JobInTable ==
  ASSUME NEW r \in JobType, NEW t \in Entries, NEW s,
         s = [r EXCEPT !.at = "table", !.i = t, !.flag2 = FALSE]
  PROVE  s = [f |-> r.f, offset |-> r.offset, rest |-> r.rest, i |-> t, at |-> "table",
              flag1 |-> r.flag1, flag2 |-> FALSE]
BY DEF JobType

(* Going to an index block of the second level. *)
LEMMA EnterTableStep ==
  ASSUME DataInv, EnterTable
  PROVE  DataInv' /\ Kept
<1>1. DataType /\ JobOK /\ Exact(BlockOf, block_bitmap)
  BY DEF DataInv
<1>2. job \in JobType /\ inode \in [Inodes -> NodeType] /\ index_block1 \in Table /\ index_block2 \in Table
  BY <1>1 DEF DataType
<1>3. /\ job.at = "two" /\ job.rest # <<>> /\ level_end1 <= job.offset /\ job.offset < level_end2
      /\ job.f \in Inodes /\ job.offset = inode[job.f].size /\ job.offset \in Nat
      /\ job.flag1 \/ job.offset = level_end1 \/ index_block1 = ptrs[Ino.index[Two]]
  BY <1>1, <1>2 DEF EnterTable, More, JobOK, JobType
<1>4. PICK g \in Inodes : g = job.f
  BY <1>3
<1>5. PICK t \in Entries :
        /\ t = (job.offset - level_end1) \div index_one_size
        /\ level_end1 + t * index_one_size <= job.offset
        /\ job.offset < level_end1 + t * index_one_size + index_one_size
  BY <1>3, TableOf
<1> DEFINE base == level_end1 + t * index_one_size
<1>6. t \in Nat /\ t < PTRS
  BY Sizes DEF Entries
<1>7. /\ base \in Nat /\ level_end1 <= base /\ level_end1 + (t + 1) * index_one_size = base + index_one_size
      /\ base <= job.offset /\ job.offset < base + index_one_size
  BY <1>5, TableRange
<1>8. job.offset = level_end1 => job.offset = base
  BY <1>7, Levels
<1>9. /\ inode' = inode /\ ptrs' = ptrs
  BY DEF EnterTable
<1>10. Valid("tab", t, 0) /\ "tab" \in Kinds /\ 0 \in Nat /\ From("tab", t, 0) = base
  BY DEF Valid, Kinds, From
<1>11. TableTwo(g) = index_block1
  BY <1>3, <1>4 DEF TableTwo, Using
<1>12. CASE job.offset = base
  <2>1. /\ GetFreeBlock /\ index_block2' = index_block2
        /\ index_block1' = [index_block1 EXCEPT ![t] = FreeBlock]
        /\ job' = [[job EXCEPT !.at = "table", !.i = t, !.flag2 = FALSE] EXCEPT !.flag1 = TRUE]
    BY <1>5, <1>12 DEF EnterTable
  <2>2. PICK b \in Blocks : b = FreeBlock
    BY <1>1, <2>1, Handed
  <2>3. /\ b \in Pointers /\ b \notin block_bitmap /\ block_bitmap' = block_bitmap \cup {b}
        /\ block_bitmap' \in SUBSET Blocks /\ block_bit_index' \in Blocks
    BY <1>1, <2>1, <2>2, Handed
  <2>4. /\ job' \in JobType /\ job'.f = job.f /\ job'.offset = job.offset /\ job'.rest = job.rest
        /\ job'.i = t /\ job'.at = "table" /\ job'.flag1 = TRUE /\ job'.flag2 = FALSE
    <3> DEFINE r == [job EXCEPT !.at = "table", !.i = t, !.flag2 = FALSE]
    <3>1. r = [f |-> job.f, offset |-> job.offset, rest |-> job.rest, i |-> t, at |-> "table",
               flag1 |-> job.flag1, flag2 |-> FALSE]
      BY <1>2, JobInTable
    <3>2. job' = [r EXCEPT !.flag1 = TRUE]
      BY <2>1
    <3> HIDE DEF r
    <3>3. job' = [f |-> job.f, offset |-> job.offset, rest |-> job.rest, i |-> t, at |-> "table",
                  flag1 |-> TRUE, flag2 |-> FALSE]
      BY <3>1, <3>2
    <3> QED
      BY <1>2, <1>6, <3>3 DEF JobType
  <2>5. /\ index_block1' \in Table /\ index_block1'[t] = b
        /\ \A i \in Nat : i # t => index_block1'[i] = index_block1[i]
    <3>1. index_block1' = [index_block1 EXCEPT ![t] = b]
      BY <2>1, <2>2
    <3>2. index_block1' \in Table
      BY <1>2, <2>3, <3>1, PutType DEF Table
    <3> QED
      BY <1>2, <3>1, <3>2 DEF Table
  <2>6. DataType'
    <3>1. /\ ptrs' \in [Blocks -> Table] /\ index_block2' \in Table /\ inode' \in [Inodes -> NodeType]
          /\ \A f \in Inodes : inode'[f].size <= level_end2
      BY <1>1, <1>9, <2>1 DEF DataType
    <3> QED
      BY <2>3, <2>4, <2>5, <3>1, TypeAgain DEF TypeParts
  <2>7. JobOK'
    <3>1. TableStart' = base /\ TableEnd' = base + index_one_size
      BY <1>7, <2>4 DEF TableStart, TableEnd, level_end1, level_end0, index_one_size
    <3>2. /\ job'.at = "table" /\ job'.f \in Inodes /\ job'.offset = inode'[job'.f].size
          /\ job'.i \in Entries /\ job'.rest # <<>> /\ job'.flag1
          /\ TableStart' <= job'.offset /\ job'.offset <= TableEnd' /\ job'.offset = TableStart'
      <4>1. job'.at = "table" /\ job'.f \in Inodes /\ job'.offset = inode'[job'.f].size /\ job'.rest # <<>>
        BY <1>3, <1>9, <2>4
      <4>2. job'.i \in Entries /\ job'.flag1
        BY <2>4
      <4> HIDE DEF base
      <4>3. base <= base + index_one_size
        BY <1>7, Levels
      <4>4. TableStart' <= job'.offset /\ job'.offset <= TableEnd' /\ job'.offset = TableStart'
        BY <1>7, <1>12, <2>4, <3>1, <4>3
      <4> QED
        BY <4>1, <4>2, <4>4
    <3> QED
      BY <3>2 DEF JobOK, Inodes, Entries
  <2>8. ASSUME NEW f \in Inodes, NEW kd \in Kinds, NEW i \in Nat, NEW j \in Nat, Valid(kd, i, j)
        PROVE  /\ Has(f, kd, i, j)' <=> Has(f, kd, i, j) \/ (f = g /\ kd = "tab" /\ i = t)
               /\ Has(f, kd, i, j) => At(f, kd, i, j)' = At(f, kd, i, j)
    <3>1. From(kd, i, j)' = From(kd, i, j)
      BY DEF From, level_end0, level_end1, index_one_size
    <3>2. Has(f, kd, i, j)' <=> Has(f, kd, i, j) \/ (f = g /\ kd = "tab" /\ i = t)
      BY <1>3, <1>4, <1>9, <2>4, <3>1 DEF Has, Early, Using
    <3>3. TableOne(f)' = TableOne(f)
      BY <1>3, <1>9, <2>4 DEF TableOne, Using, One
    <3>4. Has(f, kd, i, j) /\ f = g /\ kd \in {"leaf2", "tab"} => i # t
      <4> SUFFICES ASSUME Has(f, kd, i, j), f = g, kd \in {"leaf2", "tab"}, i = t  PROVE FALSE
        OBVIOUS
      <4>1. From(kd, i, j) < job.offset
        BY <1>3, <1>4 DEF Has, Early, Using
      <4>2. base <= From(kd, i, j) /\ From(kd, i, j) \in Nat
        BY <2>8, SlotRange
      <4> HIDE DEF base
      <4> QED
        BY <1>3, <1>7, <1>12, <4>1, <4>2
    <3>5. f # g => TableTwo(f)' = TableTwo(f)
      BY <1>4, <1>9, <2>4 DEF TableTwo, Using, Two
    <3>6. f = g => TableTwo(f)' = index_block1' /\ TableTwo(f) = index_block1
      BY <1>4, <1>11, <2>4 DEF TableTwo, Using
    <3>7. Has(f, kd, i, j) /\ kd \in {"leaf2", "tab"} => TableTwo(f)'[i] = TableTwo(f)[i]
      BY <2>5, <3>4, <3>5, <3>6
    <3>8. Has(f, kd, i, j) /\ kd = "leaf2" => TableAt(f, i)' = TableAt(f, i)
      BY <1>3, <1>4, <1>9, <2>4, <3>4, <3>7 DEF TableAt, Using
    <3>9. Has(f, kd, i, j) => At(f, kd, i, j)' = At(f, kd, i, j)
      BY <1>9, <3>3, <3>7, <3>8, AtFrom
    <3> QED
      BY <3>2, <3>9
  <2>9. ~Has(g, "tab", t, 0) /\ Has(g, "tab", t, 0)' /\ At(g, "tab", t, 0)' = b
    <3>1. ~Has(g, "tab", t, 0)
      BY <1>3, <1>4, <1>10, <1>12 DEF Has, Early, Using
    <3>2. Has(g, "tab", t, 0)'
      BY <1>6, <1>10, <2>8
    <3>3. TableTwo(g)' = index_block1'
      BY <1>4, <2>4 DEF TableTwo, Using
    <3> QED
      BY <2>5, <3>1, <3>2, <3>3 DEF At
  <2>10. Added(b, g, "tab", t, 0)
    <3>1. \A i, j : Valid("tab", i, j) => j = 0
      BY DEF Valid
    <3> HIDE DEF base
    <3> QED
      BY <1>10, <2>3, <2>8, <2>9, <3>1 DEF Added
  <2>11. Exact(BlockOf, block_bitmap)' /\ Kept
    BY <1>1, <1>6, <1>10, <2>10, OneMore
  <2> QED
    BY <2>6, <2>7, <2>11 DEF DataInv
<1>13. CASE job.offset # base
  <2>1. /\ index_block2' = ptrs[index_block1[t]] /\ index_block1' = index_block1
        /\ block_bitmap' = block_bitmap /\ block_bit_index' = block_bit_index
        /\ job' = [job EXCEPT !.at = "table", !.i = t, !.flag2 = FALSE]
    BY <1>5, <1>13 DEF EnterTable
  <2>2. /\ job' \in JobType /\ job'.f = job.f /\ job'.offset = job.offset /\ job'.rest = job.rest
        /\ job'.i = t /\ job'.at = "table" /\ job'.flag1 = job.flag1 /\ job'.flag2 = FALSE
    <3>1. job' = [f |-> job.f, offset |-> job.offset, rest |-> job.rest, i |-> t, at |-> "table",
                  flag1 |-> job.flag1, flag2 |-> FALSE]
      BY <1>2, <2>1, JobInTable
    <3> QED
      BY <1>2, <1>6, <3>1 DEF JobType
  <2>3. Has(g, "tab", t, 0) /\ At(g, "tab", t, 0) = index_block1[t]
    <3>1. base < inode[g].size
      BY <1>3, <1>4, <1>7, <1>13
    <3> QED
      BY <1>10, <1>11, <3>1 DEF Has, At
  <2>4. index_block2' \in Table
    BY <1>1, <1>6, <1>10, <2>1, <2>3, IndexBlock
  <2>5. DataType'
    <3>1. /\ ptrs' \in [Blocks -> Table] /\ index_block1' \in Table /\ inode' \in [Inodes -> NodeType]
          /\ block_bitmap' \in SUBSET Blocks /\ block_bit_index' \in Blocks
          /\ \A f \in Inodes : inode'[f].size <= level_end2
      BY <1>1, <1>9, <2>1 DEF DataType
    <3> QED
      BY <2>2, <2>4, <3>1, TypeAgain DEF TypeParts
  <2>6. JobOK'
    <3>1. TableStart' = base /\ TableEnd' = base + index_one_size
      BY <1>7, <2>2 DEF TableStart, TableEnd, level_end1, level_end0, index_one_size
    <3>2. /\ job'.at = "table" /\ job'.f \in Inodes /\ job'.offset = inode'[job'.f].size
          /\ job'.i \in Entries /\ job'.offset # TableStart'
          /\ TableStart' <= job'.offset /\ job'.offset <= TableEnd'
      BY <1>3, <1>7, <1>9, <1>13, <2>2, <3>1, Levels, SMTT(60)
    <3>3. job'.flag1 \/ index_block1' = ptrs'[Ino'.index[Two]]
      BY <1>3, <1>8, <1>9, <1>13, <2>1, <2>2 DEF Ino
    <3>4. index_block2' = ptrs'[index_block1'[job'.i]]
      BY <1>9, <2>1, <2>2
    <3> QED
      BY <3>2, <3>3, <3>4 DEF JobOK, Inodes, Entries, Two
  <2>7. ASSUME NEW f \in Inodes, NEW kd \in Kinds, NEW i \in Nat, NEW j \in Nat, Valid(kd, i, j)
        PROVE  /\ Has(f, kd, i, j)' <=> Has(f, kd, i, j)
               /\ At(f, kd, i, j)' = At(f, kd, i, j)
    <3>1. From(kd, i, j)' = From(kd, i, j)
      BY DEF From, level_end0, level_end1, index_one_size
    <3>2. kd = "tab" => j = 0
      BY <2>7 DEF Valid
    <3>3. Has(f, kd, i, j)' <=> Has(f, kd, i, j)
      BY <1>3, <1>4, <1>9, <2>2, <2>3, <3>1, <3>2 DEF Has, Early, Using
    <3>4. TableOne(f)' = TableOne(f) /\ TableTwo(f)' = TableTwo(f)
      BY <1>3, <1>9, <2>1, <2>2 DEF TableOne, TableTwo, Using, One, Two
    <3>5. TableAt(f, i)' = TableAt(f, i)
      BY <1>3, <1>4, <1>9, <1>11, <2>1, <2>2, <3>4 DEF TableAt, Using
    <3> QED
      BY <1>9, <3>3, <3>4, <3>5, AtFrom
  <2>8. Exact(BlockOf, block_bitmap)' /\ Kept
    BY <1>1, <2>1, <2>7, SameMap
  <2> QED
    BY <2>5, <2>6, <2>8 DEF DataInv
<1> QED
  BY <1>12, <1>13
-----------------------------------------------------------------------------
(* Giving blocks back. *)

(* The places 0 of the second level begin with the index blocks they are in. *)
LEMMA FirstPlaces ==
  ASSUME NEW i \in Nat
  PROVE  /\ level_end1 + 0 * index_one_size + 0 * BLOCK_SIZE = level_end1
         /\ level_end1 + i * index_one_size + 0 * BLOCK_SIZE = level_end1 + i * index_one_size
<1> DEFINE z == i * index_one_size
<1>1. z \in Nat /\ 0 * index_one_size = 0 /\ 0 * BLOCK_SIZE = 0
  BY Levels, Sizes
<1> HIDE DEF z
<1>2. level_end1 + z + 0 * BLOCK_SIZE = level_end1 + z
  BY <1>1, Levels
<1>3. level_end1 + 0 * index_one_size + 0 * BLOCK_SIZE = level_end1
  BY <1>1, Levels
<1> QED
  BY <1>2, <1>3 DEF z

\* The slot is for an offset from off to the end of the file f.
Behind(f, off, kd, i, j) ==
  Valid(kd, i, j) /\ off <= From(kd, i, j) /\ From(kd, i, j) < inode[f].size

\* What release_block() gives back of the file f from off on, and what of it is
\* in the first and in the second level.
GoneOne(f, off) == LevelOne(inode[f], off)
GoneTwo(f, off) == LevelTwo(inode[f], off)
Gone(f, off)    == Released(inode[f], off)

(* What release_block() gives back of the first level, slot by slot. *)
LEMMA InLevelOne ==
  ASSUME NEW f, NEW off, NEW b
  PROVE  b \in GoneOne(f, off) <=>
           \E i \in Entries : Behind(f, off, "leaf1", i, 0) /\ b = ptrs[inode[f].index[One]][i]
BY DEF GoneOne, LevelOne, Behind, From, Valid, Entries

(* What it gives back of the second level. *)
LEMMA InLevelTwo ==
  ASSUME NEW f, NEW off, NEW b
  PROVE  b \in GoneTwo(f, off) <=>
           \/ Behind(f, off, "two", 0, 0) /\ b = inode[f].index[Two]
           \/ \E i \in Entries : Behind(f, off, "tab", i, 0) /\ b = ptrs[inode[f].index[Two]][i]
           \/ \E i \in Entries, j \in Entries :
                Behind(f, off, "leaf2", i, j) /\ b = ptrs[ptrs[inode[f].index[Two]][i]][j]
<1> DEFINE Start(i, j) == level_end1 + i * index_one_size + j * BLOCK_SIZE
           Off(i, j) == off <= Start(i, j) /\ Start(i, j) < inode[f].size
<1>1. b \in GoneTwo(f, off) <=>
        \/ Off(0, 0) /\ b = inode[f].index[Two]
        \/ \E i \in Entries : Off(i, 0) /\ b = ptrs[inode[f].index[Two]][i]
        \/ \E i \in Entries, j \in Entries : Off(i, j) /\ b = ptrs[ptrs[inode[f].index[Two]][i]][j]
  <2> HIDE DEF Start
  <2>1. GoneTwo(f, off) =
          When(Off(0, 0), {inode[f].index[Two]})
            \cup {ptrs[inode[f].index[Two]][i] : i \in {i \in Entries : Off(i, 0)}}
            \cup UNION {{ptrs[ptrs[inode[f].index[Two]][i]][j] : j \in {j \in Entries : Off(i, j)}} : i \in Entries}
    BY DEF GoneTwo, LevelTwo, Entries, Start
  <2> HIDE DEF Off
  <2> QED
    BY <2>1 DEF When
<1>2. Off(0, 0) <=> Behind(f, off, "two", 0, 0)
  <2>1. Start(0, 0) = From("two", 0, 0) /\ Valid("two", 0, 0)
    BY FirstPlaces DEF From, Valid
  <2> QED
    BY <2>1 DEF Behind
<1>3. \A i \in Entries : Off(i, 0) <=> Behind(f, off, "tab", i, 0)
  <2> TAKE i \in Entries
  <2>1. Start(i, 0) = From("tab", i, 0) /\ Valid("tab", i, 0)
    BY FirstPlaces, Sizes DEF From, Valid, Entries
  <2> QED
    BY <2>1 DEF Behind
<1>4. \A i, j \in Entries : Off(i, j) <=> Behind(f, off, "leaf2", i, j)
  <2> TAKE i, j \in Entries
  <2>1. Start(i, j) = From("leaf2", i, j) /\ Valid("leaf2", i, j)
    BY DEF From, Valid
  <2> QED
    BY <2>1 DEF Behind
<1> HIDE DEF Off
<1> QED
  BY <1>1, <1>2, <1>3, <1>4

(* What it gives back from level_end0 on is what the slots behind the offset
   hold, no more and no less. *)
LEMMA GivenBack ==
  ASSUME DataType, job = NoJob, NEW f \in Inodes, NEW off \in Nat,
         off >= inode[f].size \/ level_end0 <= off
  PROVE  /\ \A kd \in Kinds, i \in Nat, j \in Nat :
              Behind(f, off, kd, i, j) => At(f, kd, i, j) \in Gone(f, off)
         /\ \A b \in Gone(f, off) : \E kd \in Kinds, i \in Nat, j \in Nat :
              Behind(f, off, kd, i, j) /\ At(f, kd, i, j) = b
<1>1. inode[f].size \in Nat
  BY DEF DataType, NodeType
<1>2. \A kd \in Kinds, i \in Nat, j \in Nat : Valid(kd, i, j) => From(kd, i, j) \in Nat
  BY SlotRange
<1>3. CASE off >= inode[f].size
  <2>1. Gone(f, off) = {}
    BY <1>1, <1>3 DEF Gone, Released, When, GoneOne, GoneTwo
  <2>2. \A kd \in Kinds, i \in Nat, j \in Nat : ~Behind(f, off, kd, i, j)
    BY <1>1, <1>2, <1>3 DEF Behind
  <2> QED
    BY <2>1, <2>2
<1>4. CASE level_end0 <= off /\ off < inode[f].size
  <2>1. Gone(f, off) =
          When(off <= level_end0, {inode[f].index[One]})
            \cup GoneOne(f, off) \cup GoneTwo(f, off)
    BY <1>4, Levels DEF Gone, Released, When, GoneOne, GoneTwo
  <2>2. off <= level_end0 <=> Behind(f, off, "one", 0, 0)
    BY <1>1, <1>4, Levels DEF Behind, From, Valid
  <2>3. /\ \A i : At(f, "leaf1", i, 0) = ptrs[inode[f].index[One]][i]
        /\ \A i : At(f, "tab", i, 0) = ptrs[inode[f].index[Two]][i]
        /\ \A i, j : At(f, "leaf2", i, j) = ptrs[ptrs[inode[f].index[Two]][i]][j]
        /\ At(f, "one", 0, 0) = inode[f].index[One] /\ At(f, "two", 0, 0) = inode[f].index[Two]
    <3>1. job.at = "idle"
      BY DEF NoJob
    <3> QED
      BY <3>1 DEF At, TableOne, TableTwo, TableAt, Using
  <2>4. \A b : b \in Gone(f, off) <=>
          \/ Behind(f, off, "one", 0, 0) /\ b = At(f, "one", 0, 0)
          \/ \E i \in Entries : Behind(f, off, "leaf1", i, 0) /\ b = At(f, "leaf1", i, 0)
          \/ Behind(f, off, "two", 0, 0) /\ b = At(f, "two", 0, 0)
          \/ \E i \in Entries : Behind(f, off, "tab", i, 0) /\ b = At(f, "tab", i, 0)
          \/ \E i \in Entries, j \in Entries :
               Behind(f, off, "leaf2", i, j) /\ b = At(f, "leaf2", i, j)
    <3> TAKE b
    <3>1. b \in Gone(f, off) <=>
            \/ Behind(f, off, "one", 0, 0) /\ b = inode[f].index[One]
            \/ b \in GoneOne(f, off) \/ b \in GoneTwo(f, off)
      BY <2>1, <2>2 DEF When
    <3>2. b \in GoneOne(f, off) <=>
            \E i \in Entries : Behind(f, off, "leaf1", i, 0) /\ b = At(f, "leaf1", i, 0)
      <4>1. b \in GoneOne(f, off) <=>
              \E i \in Entries : Behind(f, off, "leaf1", i, 0) /\ b = ptrs[inode[f].index[One]][i]
        BY InLevelOne
      <4>2. \A i : At(f, "leaf1", i, 0) = ptrs[inode[f].index[One]][i]
        BY <2>3
      <4> QED
        BY ONLY <4>1, <4>2
    <3>3. b \in GoneTwo(f, off) <=>
            \/ Behind(f, off, "two", 0, 0) /\ b = At(f, "two", 0, 0)
            \/ \E i \in Entries : Behind(f, off, "tab", i, 0) /\ b = At(f, "tab", i, 0)
            \/ \E i \in Entries, j \in Entries :
                 Behind(f, off, "leaf2", i, j) /\ b = At(f, "leaf2", i, j)
      <4>1. b \in GoneTwo(f, off) <=>
              \/ Behind(f, off, "two", 0, 0) /\ b = inode[f].index[Two]
              \/ \E i \in Entries : Behind(f, off, "tab", i, 0) /\ b = ptrs[inode[f].index[Two]][i]
              \/ \E i \in Entries, j \in Entries :
                   Behind(f, off, "leaf2", i, j) /\ b = ptrs[ptrs[inode[f].index[Two]][i]][j]
        BY InLevelTwo
      <4> QED
        BY ONLY <2>3, <4>1
    <3> QED
      BY <2>3, <3>1, <3>2, <3>3
  <2>5. Entries \subseteq Nat /\ 0 \in Nat
    BY DEF Entries
  <2>6. ASSUME NEW kd \in Kinds, NEW i \in Nat, NEW j \in Nat, Behind(f, off, kd, i, j)
        PROVE  At(f, kd, i, j) \in Gone(f, off)
    <3>1. kd # "direct"
      <4>1. kd = "direct" => From(kd, i, j) + BLOCK_SIZE <= level_end0 /\ From(kd, i, j) \in Nat
        BY <2>6, SlotRange DEF Behind
      <4> QED
        BY <1>4, <2>6, <4>1, Levels, Sizes DEF Behind
    <3>2. CASE kd = "leaf2"
      BY <2>4, <2>6, <3>2 DEF Behind, Valid
    <3>3. CASE kd \in {"leaf1", "tab"}
      <4>1. i \in Entries /\ j = 0
        BY <2>6, <3>3 DEF Behind, Valid
      <4> QED
        BY <2>4, <2>6, <3>3, <4>1
    <3>4. CASE kd \in {"one", "two"}
      <4>1. i = 0 /\ j = 0
        BY <2>6, <3>4 DEF Behind, Valid
      <4> QED
        BY <2>4, <2>6, <3>4, <4>1
    <3> QED
      BY <3>1, <3>2, <3>3, <3>4 DEF Kinds
  <2>7. \A b \in Gone(f, off) : \E kd \in Kinds, i \in Nat, j \in Nat :
          Behind(f, off, kd, i, j) /\ At(f, kd, i, j) = b
    <3>1. {"one", "two", "leaf1", "leaf2", "tab"} \subseteq Kinds
      BY DEF Kinds
    <3> QED
      BY <2>4, <2>5, <3>1
  <2> QED
    BY <2>6, <2>7
<1> QED
  BY <1>1, <1>3, <1>4

(* An inode whose size is set. *)
LEMMA NodeCut ==
  ASSUME inode \in [Inodes -> NodeType], NEW g \in Inodes, NEW off \in Nat,
         inode' = [inode EXCEPT ![g].size = off]
  PROVE  /\ inode' \in [Inodes -> NodeType] /\ inode'[g].size = off
         /\ \A f \in Inodes : inode'[f].index = inode[f].index
         /\ \A f \in Inodes \ {g} : inode'[f] = inode[f]
<1>1. inode[g] \in NodeType /\ inode[g].index \in [0..Two -> Pointers]
  BY DEF NodeType
<1>2. [inode[g] EXCEPT !.size = off] = [size |-> off, index |-> inode[g].index]
  BY <1>1 DEF NodeType
<1>3. [size |-> off, index |-> inode[g].index] \in NodeType
  BY <1>1 DEF NodeType
<1>4. inode' = [inode EXCEPT ![g] = [size |-> off, index |-> inode[g].index]]
  BY <1>2
<1> QED
  BY <1>3, <1>4, ZenonT(60)

\* The step cuts the file f at off and gives back what is behind; it may begin
\* a write there.
CutAt(f, off) ==
  /\ off <= inode[f].size /\ MayRelease(f, off)
  /\ block_bitmap' = block_bitmap \ Gone(f, off)
  /\ inode' = [inode EXCEPT ![f].size = off]
  /\ UNCHANGED <<block_bit_index, ptrs, index_block1, index_block2>>
  /\ job' \in JobType
  /\ job' = NoJob \/ (job'.at = "level" /\ job'.f = f /\ job'.offset = off)

(* Such a step keeps the bitmap and the indexes in agreement, if it gives back
   nothing below level_end0. *)
LEMMA CutStep ==
  ASSUME GiveBackFrom >= level_end0, DataInv, job = NoJob,
         NEW g \in Inodes, NEW off \in Nat, CutAt(g, off)
  PROVE  DataInv' /\ Kept
<1>1. DataType /\ JobOK /\ Exact(BlockOf, block_bitmap)
  BY DEF DataInv
<1>2. inode \in [Inodes -> NodeType] /\ \A f \in Inodes : inode[f].size \in Nat
  BY <1>1 DEF DataType, NodeType
<1>3. /\ off <= inode[g].size /\ block_bitmap' = block_bitmap \ Gone(g, off)
      /\ inode' = [inode EXCEPT ![g].size = off] /\ ptrs' = ptrs
      /\ index_block1' = index_block1 /\ index_block2' = index_block2
      /\ block_bit_index' = block_bit_index /\ job' \in JobType
  BY DEF CutAt
<1>4. off >= inode[g].size \/ level_end0 <= off
  BY <1>2, Levels, Sizes DEF CutAt, MayRelease
<1>5. /\ inode' \in [Inodes -> NodeType] /\ inode'[g].size = off
      /\ \A f \in Inodes : inode'[f].index = inode[f].index
      /\ \A f \in Inodes \ {g} : inode'[f] = inode[f]
  BY <1>2, <1>3, NodeCut
<1>6. /\ job.at = "idle" /\ job'.at \in {"idle", "level"} /\ (job'.at = "idle" => job' = NoJob)
      /\ job'.at = "level" => job'.f = g /\ job'.offset = off
  BY DEF CutAt, NoJob
<1>7. DataType'
  <2>1. \A f \in Inodes : inode'[f].size <= level_end2
    <3> TAKE f \in Inodes
    <3>1. inode[f].size <= level_end2 /\ inode[g].size <= level_end2
      BY <1>1 DEF DataType
    <3>2. CASE f = g
      BY <1>2, <1>3, <1>5, <3>1, <3>2, Levels
    <3>3. CASE f # g
      BY <1>5, <3>1, <3>3
    <3> QED
      BY <3>2, <3>3
  <2>2. /\ index_block1' \in Table /\ index_block2' \in Table /\ ptrs' \in [Blocks -> Table]
        /\ block_bitmap' \in SUBSET Blocks /\ block_bit_index' \in Blocks
    BY <1>1, <1>3 DEF DataType
  <2> QED
    BY <1>3, <1>5, <2>1, <2>2, TypeAgain DEF TypeParts
<1>8. JobOK'
  BY <1>5, <1>6 DEF JobOK, NoJob, Inodes
<1>9. ASSUME NEW f \in Inodes, NEW kd \in Kinds, NEW i \in Nat, NEW j \in Nat, Valid(kd, i, j)
      PROVE  /\ Has(f, kd, i, j)' => Has(f, kd, i, j) /\ At(f, kd, i, j)' = At(f, kd, i, j)
             /\ Has(f, kd, i, j) /\ ~Has(f, kd, i, j)' <=> f = g /\ Behind(g, off, kd, i, j)
  <2>1. From(kd, i, j)' = From(kd, i, j)
    BY DEF From, level_end0, level_end1, index_one_size
  <2>2. From(kd, i, j) \in Nat
    BY <1>9, SlotRange
  <2>3. (Has(f, kd, i, j) <=> From(kd, i, j) < inode[f].size)
    BY <1>6 DEF Has, Early, Using
  <2>4. (Has(f, kd, i, j)' <=> From(kd, i, j) < inode'[f].size)
    BY <1>6, <2>1 DEF Has, Early, Using
  <2>5. TableOne(f)' = TableOne(f) /\ TableTwo(f)' = TableTwo(f)
    BY <1>3, <1>5, <1>6 DEF TableOne, TableTwo, Using, One, Two
  <2>6. TableAt(f, i)' = TableAt(f, i)
    BY <1>3, <1>6, <2>5 DEF TableAt, Using
  <2>7. At(f, kd, i, j)' = At(f, kd, i, j)
    BY <1>5, <2>5, <2>6, AtFrom
  <2>8. CASE f = g
    BY <1>2, <1>3, <1>5, <1>9, <2>2, <2>3, <2>4, <2>7, <2>8 DEF Behind
  <2>9. CASE f # g
    BY <1>5, <2>3, <2>4, <2>7, <2>9
  <2> QED
    BY <2>8, <2>9
<1>10. /\ \A kd \in Kinds, i \in Nat, j \in Nat :
            Behind(g, off, kd, i, j) => At(g, kd, i, j) \in Gone(g, off)
       /\ \A b \in Gone(g, off) : \E kd \in Kinds, i \in Nat, j \in Nat :
            Behind(g, off, kd, i, j) /\ At(g, kd, i, j) = b
  BY <1>1, <1>4, GivenBack
<1>11. PICK G : G = Gone(g, off)
  OBVIOUS
<1>12. \A f \in Inodes, kd \in Kinds, i \in Nat, j \in Nat : Valid(kd, i, j) =>
         /\ Has(f, kd, i, j)' => Has(f, kd, i, j) /\ At(f, kd, i, j)' = At(f, kd, i, j)
         /\ Has(f, kd, i, j) /\ ~Has(f, kd, i, j)' => At(f, kd, i, j) \in G
  BY <1>9, <1>10, <1>11
<1>13. \A b \in G : \E f \in Inodes, kd \in Kinds, i \in Nat, j \in Nat :
         /\ Valid(kd, i, j) /\ Has(f, kd, i, j) /\ ~Has(f, kd, i, j)'
         /\ At(f, kd, i, j) = b
  <2> TAKE b \in G
  <2>1. PICK kd \in Kinds, i \in Nat, j \in Nat : Behind(g, off, kd, i, j) /\ At(g, kd, i, j) = b
    BY <1>10, <1>11
  <2>2. Valid(kd, i, j)
    BY <2>1 DEF Behind
  <2>3. Has(g, kd, i, j) /\ ~Has(g, kd, i, j)'
    BY <1>9, <2>1, <2>2
  <2> QED
    BY <2>1, <2>2, <2>3
<1>14. Exact(BlockOf, block_bitmap)' /\ Kept
  <2>1. block_bitmap' = block_bitmap \ G
    BY <1>3, <1>11
  <2> QED
    BY <1>1, <1>12, <1>13, <2>1, Fewer
<1> QED
  BY <1>7, <1>8, <1>14 DEF DataInv

(* The job a write begins with. *)
LEMMA JobBegun ==
  ASSUME NEW f \in Inodes, NEW off \in Nat, NEW data \in Chunk
  PROVE  [f |-> f, offset |-> off, rest |-> data, at |-> "level", i |-> 0,
          flag1 |-> FALSE, flag2 |-> FALSE] \in JobType
BY DEF JobType

(* fm_write(), add_inode_into_dir(): the file is cut and write_data() begins. *)
LEMMA StartWriteStep ==
  ASSUME GiveBackFrom >= level_end0, DataInv,
         NEW f \in Inodes, NEW off \in Nat, NEW len \in Nat, NEW v \in Labels,
         StartWrite(f, off, Data(f, off, len, v))
  PROVE  DataInv' /\ Kept
<1>1. job' \in JobType /\ job'.at = "level" /\ job'.f = f /\ job'.offset = off
  <2>1. PICK data \in Chunk : data = Data(f, off, len, v)
    BY DEF Data, Chunk
  <2>2. job' = [NoJob EXCEPT !.f = f, !.offset = off, !.rest = data, !.at = "level"]
    BY <2>1 DEF StartWrite
  <2>3. job' = [f |-> f, offset |-> off, rest |-> data, at |-> "level", i |-> 0,
                flag1 |-> FALSE, flag2 |-> FALSE]
    BY ONLY <2>2 DEF NoJob
  <2>4. [f |-> f, offset |-> off, rest |-> data, at |-> "level", i |-> 0,
         flag1 |-> FALSE, flag2 |-> FALSE] \in JobType
    BY JobBegun
  <2>5. job' \in JobType
    BY ONLY <2>3, <2>4
  <2> QED
    BY ONLY <2>3, <2>5
<1>2. CutAt(f, off) /\ job = NoJob
  BY <1>1 DEF CutAt, StartWrite, Idle, Gone
<1> QED
  BY <1>2, CutStep

(* remove_inode_from_dir(): the last entry of the directory is cut off. *)
LEMMA RemoveEntryStep ==
  ASSUME GiveBackFrom >= level_end0, DataInv, NEW d \in Inodes, NEW pos \in Nat, RemoveEntry(d, pos)
  PROVE  DataInv' /\ Kept
<1>1. DataType
  BY DEF DataInv
<1>2. inode \in [Inodes -> NodeType] /\ inode[d].size \in Nat /\ job \in JobType
  BY <1>1 DEF DataType, NodeType
<1>3. (pos + 1) * ENTRY <= inode[d].size
  BY DEF RemoveEntry
<1>4. ENTRY <= inode[d].size
  <2>1. 0 * ENTRY + ENTRY <= (pos + 1) * ENTRY /\ (pos + 1) * ENTRY \in Int
    BY Sizes, Multiples
  <2> QED
    BY <1>2, <1>3, <2>1, Sizes
<1>5. PICK off \in Nat : off = inode[d].size - ENTRY
  BY <1>2, <1>4, Sizes
<1>6. job = NoJob /\ job' = NoJob
  BY DEF RemoveEntry, Idle
<1>7. CutAt(d, off)
  <2>1. off <= inode[d].size
    BY <1>2, <1>5, Sizes
  <2>2. MayRelease(d, off) /\ block_bitmap' = block_bitmap \ Gone(d, off)
    BY <1>5 DEF RemoveEntry, Gone, MayRelease
  <2>3. inode' = [inode EXCEPT ![d].size = off]
    BY <1>5 DEF RemoveEntry
  <2> QED
    BY <1>2, <1>6, <2>1, <2>2, <2>3 DEF CutAt, RemoveEntry
<1> QED
  BY <1>6, <1>7, CutStep

(* _delete_file_by_inode(): nothing is left of the file. *)
LEMMA DeleteStep ==
  ASSUME GiveBackFrom >= level_end0, DataInv, NEW f \in Inodes, Delete(f)
  PROVE  DataInv' /\ Kept
<1>1. inode[f].size \in Nat /\ job \in JobType
  BY DEF DataInv, DataType, NodeType
<1>2. job = NoJob /\ job' = NoJob
  BY DEF Delete, Idle
<1>3. CutAt(f, 0)
  BY <1>1, <1>2 DEF CutAt, Delete, Gone
<1> QED
  BY <1>2, <1>3, CutStep

(* add_inode_into_dir(): a write at the end of the directory. *)
LEMMA AddEntryStep ==
  ASSUME GiveBackFrom >= level_end0, DataInv, NEW d \in Inodes, NEW v \in Labels, AddEntry(d, v)
  PROVE  DataInv' /\ Kept
<1>1. PICK off \in Nat : off = inode[d].size
  BY DEF DataInv, DataType, NodeType
<1>2. StartWrite(d, off, Data(d, off, ENTRY, v))
  BY <1>1 DEF AddEntry
<1> QED
  BY <1>2, StartWriteStep, Sizes

(* A step that changes none of what DataInv is about. *)
LEMMA SameData ==
  ASSUME DataInv,
         UNCHANGED <<block_bitmap, block_bit_index, ptrs, inode, job, index_block2>>,
         index_block1' = index_block1 \/ (job = NoJob /\ index_block1' \in Table)
  PROVE  DataInv' /\ Kept
<1>1. DataType /\ JobOK /\ Exact(BlockOf, block_bitmap)
  BY DEF DataInv
<1>2. DataType'
  <2>1. index_block1 \in Table
    BY <1>1 DEF DataType
  <2>2. index_block1' \in Table
    BY <2>1
  <2> QED
    BY <1>1, <2>2, TypeAgain DEF DataType, TypeParts
<1>a. job = NoJob => job.at = "idle"
  BY DEF NoJob
<1>3. JobOK'
  <2>1. CASE index_block1' = index_block1
    BY <1>1, <2>1 DEF JobOK, Ino, TableStart, TableEnd, One, Two, level_end0, level_end1, level_end2,
       index_one_size, NoJob, Inodes, Entries
  <2>2. CASE job = NoJob
    BY <1>a, <2>2 DEF JobOK, NoJob
  <2> QED
    BY <2>1, <2>2
<1>4. ASSUME NEW f \in Inodes, NEW kd \in Kinds, NEW i \in Nat, NEW j \in Nat, Valid(kd, i, j)
      PROVE  /\ Has(f, kd, i, j)' <=> Has(f, kd, i, j)
             /\ At(f, kd, i, j)' = At(f, kd, i, j)
  <2>1. From(kd, i, j)' = From(kd, i, j)
    BY DEF From, level_end0, level_end1, index_one_size
  <2>2. Has(f, kd, i, j)' <=> Has(f, kd, i, j)
    BY <2>1 DEF Has, Early, Using
  <2>3. TableOne(f)' = TableOne(f) /\ TableTwo(f)' = TableTwo(f)
    BY <1>a DEF TableOne, TableTwo, Using, One, Two
  <2>4. TableAt(f, i)' = TableAt(f, i)
    BY <2>3 DEF TableAt, Using
  <2> QED
    BY <2>2, <2>3, <2>4, AtFrom
<1>5. Exact(BlockOf, block_bitmap)' /\ Kept
  BY <1>1, <1>4, SameMap
<1> QED
  BY <1>2, <1>3, <1>5 DEF DataInv

(* fm_read(), whatever index[14] leads to. *)
LEMMA ReadData ==
  ASSUME DataInv, NEW f, NEW off, NEW len, Read(f, off, len)
  PROVE  DataInv' /\ Kept
<1>1. job = NoJob
  BY DEF Read, Idle
<1>2. [0..(PTRS - 1) -> Junk] \subseteq Table
  BY BlockAssumption DEF Table, Entries, Pointers, Blocks, None
<1>3. index_block1' = index_block1 \/ index_block1' \in [0..(PTRS - 1) -> Junk]
  BY DEF Read
<1>4. UNCHANGED <<block_bitmap, block_bit_index, ptrs, inode, job, index_block2>>
  BY DEF Read
<1> QED
  BY <1>1, <1>2, <1>3, <1>4, SameData

(* On the empty disk no slot is held and no block marked. *)
LEMMA DataInit ==
  ASSUME DInit
  PROVE  DataInv
<1>1. /\ block_bitmap = {} /\ block_bit_index = 0 /\ job = NoJob
      /\ ptrs = [b \in Blocks |-> [i \in Entries |-> None]]
      /\ inode = [f \in Inodes |-> [size |-> 0, index |-> [k \in 0..Two |-> None]]]
      /\ index_block1 = [i \in Entries |-> None] /\ index_block2 = [i \in Entries |-> None]
  BY DEF DInit, Entries
<1>2. None \in Pointers /\ 0 \in Blocks
  BY Sizes DEF None, Pointers, Blocks
<1>3. [i \in Entries |-> None] \in Table
  BY <1>2 DEF Table
<1>4. job \in JobType /\ job.at = "idle"
  BY <1>1 DEF NoJob, JobType, Chunk
<1>5. inode \in [Inodes -> NodeType] /\ \A f \in Inodes : inode[f].size = 0
  <2>1. [k \in 0..Two |-> None] \in [0..Two -> Pointers]
    BY <1>2
  <2>2. [size |-> 0, index |-> [k \in 0..Two |-> None]] \in NodeType
    BY <2>1 DEF NodeType
  <2> QED
    BY <1>1, <2>2
<1>6. DataType
  <2>1. \A f \in Inodes : inode[f].size <= level_end2
    BY <1>5, Levels
  <2>2. ptrs \in [Blocks -> Table]
    BY <1>1, <1>3
  <2> QED
    BY <1>1, <1>2, <1>3, <1>4, <1>5, <2>1, <2>2 DEF DataType
<1>7. JobOK
  BY <1>1, <1>4 DEF JobOK
<1>8. Exact(BlockOf, block_bitmap)
  <2>1. \A x \in Slots : ~Has(x[1], x[2], x[3], x[4])
    <3> TAKE x \in Slots
    <3>1. From(x[2], x[3], x[4]) \in Nat /\ x[1] \in Inodes
      BY SlotParts, SlotRange
    <3>2. ~Early(x[1], x[2], x[3])
      BY <1>4 DEF Early, Using
    <3> QED
      BY <1>5, <3>1, <3>2 DEF Has
  <2>2. DOMAIN BlockOf = {}
    BY <2>1 DEF BlockOf
  <2> QED
    BY <1>1, <2>2 DEF Exact
<1> QED
  BY <1>6, <1>7, <1>8 DEF DataInv

(* Every step keeps the invariant. *)
LEMMA DataStep ==
  ASSUME GiveBackFrom >= level_end0, DataInv, [DNext]_dvars
  PROVE  DataInv'
<1>1. Files \subseteq Inodes /\ Dirs \subseteq Inodes /\ Lens \subseteq Nat
      /\ 0..MaxSize \subseteq Nat /\ 0..(MaxSize \div ENTRY) \subseteq Nat
  BY BlockAssumption DEF Inodes
<1>2. ASSUME NEW f \in Files, NEW off \in 0..MaxSize, NEW len \in Lens, Read(f, off, len)
      PROVE  DataInv'
  BY <1>2, ReadData
<1>a. ASSUME NEW f \in Files, NEW off \in 0..MaxSize, NEW len \in Lens, ReadHalts(f, off, len)
      PROVE  DataInv'
  BY <1>a, SameData DEF ReadHalts
<1>3. ASSUME NEW f \in Files, NEW off \in 0..MaxSize, NEW len \in Lens, NEW v \in Labels,
             Write(f, off, len, v)
      PROVE  DataInv'
  BY <1>1, <1>3, StartWriteStep DEF Write
<1>4. ASSUME NEW d \in Dirs, NEW v \in Labels, AddEntry(d, v)
      PROVE  DataInv'
  BY <1>1, <1>4, AddEntryStep
<1>5. ASSUME NEW d \in Dirs, NEW pos \in 0..(MaxSize \div ENTRY), RemoveEntry(d, pos)
      PROVE  DataInv'
  BY <1>1, <1>5, RemoveEntryStep
<1>6. ASSUME NEW f \in Files, Delete(f)
      PROVE  DataInv'
  BY <1>1, <1>6, DeleteStep
<1>7. CASE WriteDirect
  BY <1>7, WriteDirectStep
<1>8. CASE EnterOne
  BY <1>8, EnterOneStep
<1>9. CASE WriteOne
  BY <1>9, WriteOneStep
<1>10. CASE LeaveOne
  BY <1>10, LeaveOneStep
<1>11. CASE EnterTwo
  BY <1>11, EnterTwoStep
<1>12. CASE EnterTable
  BY <1>12, EnterTableStep
<1>13. CASE WriteTwo
  BY <1>13, WriteTwoStep
<1>14. CASE LeaveTable
  BY <1>14, LeaveTableStep
<1>15. CASE LeaveTwo
  BY <1>15, LeaveTwoStep
<1>16. CASE Done
  BY <1>16, DoneStep
<1>17. CASE Answer
  BY <1>17, SameData DEF Answer
<1>18. CASE UNCHANGED dvars
  BY <1>18, SameData DEF dvars
<1> QED
  BY <1>2, <1>a, <1>3, <1>4, <1>5, <1>6, <1>7, <1>8, <1>9, <1>10, <1>11, <1>12, <1>13, <1>14,
     <1>15, <1>16, <1>17, <1>18 DEF DNext

(* Also in the middle of a write, every block that is marked in block_bitmap is
   in one slot of one file, and every slot a file needs holds a marked block; and
   what write_data() has of an index in memory is where it will put it. *)
THEOREM BlocksHold ==
  ASSUME GiveBackFrom >= level_end0
  PROVE  DSpec => []DataInv
<1>1. DInit => DataInv
  BY DataInit
<1>2. DataInv /\ [DNext]_dvars => DataInv'
  BY DataStep
<1> QED
  BY <1>1, <1>2, PTL DEF DSpec

-----------------------------------------------------------------------------
(* From the slots to the places BlocksAccounted is about. *)

\* The number a slot has among the data blocks or the index blocks of its file.
Number(kd, i, j) ==
  IF kd = "direct" THEN i
  ELSE IF kd = "leaf1" THEN DIRECT + i
  ELSE IF kd = "leaf2" THEN DIRECT + PTRS + i * PTRS + j
  ELSE IF kd = "one" THEN One
  ELSE IF kd = "two" THEN Two
  ELSE Two + 1 + i

PlaceOf(f, kd, i, j) ==
  <<f, IF kd \in DataKinds THEN "data" ELSE "index", Number(kd, i, j), At(f, kd, i, j)>>

(* Quotient and remainder of q * m + r. *)
LEMMA DivRem ==
  ASSUME NEW m \in Nat, m > 0, NEW q \in Nat, NEW r \in 0..(m - 1)
  PROVE  (q * m + r) \div m = q /\ (q * m + r) % m = r
<1> DEFINE o == q * m + r
           d == o \div m
           e == o % m
<1>1. o \in Nat
  OBVIOUS
<1>2. o = q * m + r
  OBVIOUS
<1> HIDE DEF o
<1>3. d \in Nat /\ e \in 0..(m - 1) /\ o = d * m + e
  BY <1>1, Division
<1> HIDE DEF d, e
<1>4. (q < d => q * m + m <= d * m) /\ (d < q => d * m + m <= q * m)
  BY <1>3, Multiples
<1>5. d * m \in Int /\ q * m \in Int
  BY <1>3
<1>6. d = q
  BY <1>2, <1>3, <1>4, <1>5
<1>7. e = r
  BY <1>2, <1>3, <1>5, <1>6
<1> QED
  BY <1>6, <1>7 DEF d, e, o

(* A data block of number k is for the offsets from k * BLOCK_SIZE on. *)
LEMMA NumberFrom ==
  ASSUME NEW kd \in DataKinds, NEW i \in Nat, NEW j \in Nat, Valid(kd, i, j)
  PROVE  Number(kd, i, j) \in Nat /\ From(kd, i, j) = Number(kd, i, j) * BLOCK_SIZE
<1> DEFINE B == BLOCK_SIZE
<1>1. B \in Nat /\ DIRECT \in Nat /\ PTRS \in Nat
  BY Sizes
<1>2. level_end0 = DIRECT * B /\ level_end1 = DIRECT * B + PTRS * B /\ index_one_size = PTRS * B
  BY Levels
<1> HIDE DEF B
<1>3. CASE kd = "direct"
  BY <1>1, <1>3 DEF Number, From, B
<1>4. CASE kd = "leaf1"
  <2>1. (DIRECT + i) * B = DIRECT * B + i * B
    BY <1>1
  <2> QED
    BY <1>1, <1>2, <1>4, <2>1 DEF Number, From, B
<1>5. CASE kd = "leaf2"
  <2>1. (DIRECT + PTRS + i * PTRS + j) * B = DIRECT * B + PTRS * B + i * (PTRS * B) + j * B
    BY <1>1
  <2>2. From(kd, i, j) = level_end1 + i * index_one_size + j * B
    BY <1>5 DEF From, B
  <2>3. From(kd, i, j) = DIRECT * B + PTRS * B + i * (PTRS * B) + j * B
    BY <1>2, <2>2
  <2>4. Number(kd, i, j) = DIRECT + PTRS + i * PTRS + j
    BY <1>5 DEF Number
  <2>5. Number(kd, i, j) \in Nat
    BY <1>1, <2>4
  <2> QED
    BY <2>1, <2>3, <2>4, <2>5 DEF B
<1> QED
  BY <1>3, <1>4, <1>5 DEF DataKinds

(* Every block number below the end of the second level is that of a slot. *)
LEMMA NumberOf ==
  ASSUME NEW k \in Nat, k * BLOCK_SIZE < level_end2
  PROVE  \/ k < DIRECT /\ Valid("direct", k, 0) /\ Number("direct", k, 0) = k
         \/ /\ DIRECT <= k /\ k < DIRECT + PTRS
            /\ Valid("leaf1", k - DIRECT, 0) /\ Number("leaf1", k - DIRECT, 0) = k
         \/ /\ DIRECT + PTRS <= k
            /\ Valid("leaf2", (k - DIRECT - PTRS) \div PTRS, (k - DIRECT - PTRS) % PTRS)
            /\ Number("leaf2", (k - DIRECT - PTRS) \div PTRS, (k - DIRECT - PTRS) % PTRS) = k
<1>1. CASE k < DIRECT
  BY <1>1, Sizes DEF Valid, Number
<1>2. CASE DIRECT <= k /\ k < DIRECT + PTRS
  BY <1>2, Sizes DEF Valid, Number, Entries
<1>3. CASE DIRECT + PTRS <= k
  <2> DEFINE m == k - DIRECT - PTRS
             i == m \div PTRS
             j == m % PTRS
             B == BLOCK_SIZE
  <2>1. m \in Nat /\ k = DIRECT + PTRS + m
    BY <1>3, Sizes
  <2> HIDE DEF m
  <2>2. i \in Nat /\ j \in 0..(PTRS - 1) /\ m = i * PTRS + j
    BY <2>1, Sizes, Division
  <2> HIDE DEF i, j
  <2>3. B \in Nat /\ B > 0 /\ PTRS \in Nat /\ PTRS > 0 /\ DIRECT \in Nat
    BY Sizes
  <2>4. level_end2 = DIRECT * B + PTRS * B + PTRS * (PTRS * B)
    BY Levels
  <2>5. k * B < level_end2
    OBVIOUS
  <2> HIDE DEF B
  <2>6. DIRECT * B + PTRS * B + PTRS * (PTRS * B) = (DIRECT + PTRS + PTRS * PTRS) * B
    BY <2>3
  <2>7. PTRS * PTRS \in Nat
    BY <2>3
  <2>8. PTRS <= i => PTRS * PTRS <= i * PTRS
    BY <2>2, <2>3, Multiples
  <2>9. i * PTRS \in Nat
    BY <2>2, <2>3
  <2>10. PTRS <= i => DIRECT + PTRS + PTRS * PTRS <= k
    BY <2>1, <2>2, <2>3, <2>7, <2>8, <2>9
  <2>11. DIRECT + PTRS + PTRS * PTRS <= k => (DIRECT + PTRS + PTRS * PTRS) * B <= k * B
    <3> DEFINE N == DIRECT + PTRS + PTRS * PTRS
    <3>1. N \in Int
      BY <2>3, <2>7
    <3> HIDE DEF N
    <3>2. N <= k => N * B <= k * B
      BY <2>3, <3>1, Multiples
    <3> QED
      BY <3>2 DEF N
  <2>12. i < PTRS
    <3> DEFINE z == k * B
               w == (DIRECT + PTRS + PTRS * PTRS) * B
    <3>1. z < w /\ (PTRS <= i => w <= z)
      BY <2>4, <2>5, <2>6, <2>10, <2>11
    <3>2. z \in Int /\ w \in Int
      BY <2>3, <2>7
    <3> HIDE DEF z, w
    <3> QED
      BY <2>2, <2>3, <3>1, <3>2
  <2>13. Valid("leaf2", i, j)
    BY <2>2, <2>3, <2>12 DEF Valid, Entries
  <2>14. Number("leaf2", i, j) = k
    <3>1. DIRECT + PTRS + i * PTRS + j = DIRECT + PTRS + m
      BY <2>1, <2>2, <2>3, <2>9
    <3> QED
      BY <2>1, <3>1 DEF Number
  <2> QED
    BY <1>3, <2>13, <2>14 DEF i, j, m
<1> QED
  BY <1>1, <1>2, <1>3, Sizes

(* Where DataBlocks looks for the data block of number k. *)
LEMMA DataBlock ==
  ASSUME NEW f, NEW k \in Parts(inode[f].size, 0, BLOCK_SIZE), k \in Int
  PROVE  /\ k \in DOMAIN DataBlocks(f)
         /\ k < DIRECT => DataBlocks(f)[k] = At(f, "direct", k, 0)
         /\ DIRECT <= k /\ k < DIRECT + PTRS => DataBlocks(f)[k] = At(f, "leaf1", k - DIRECT, 0)
         /\ DIRECT + PTRS <= k =>
              DataBlocks(f)[k] = At(f, "leaf2", (k - DIRECT - PTRS) \div PTRS, (k - DIRECT - PTRS) % PTRS)
<1> DEFINE a == k < DIRECT
           c == DIRECT <= k /\ k < DIRECT + PTRS
           i == (k - DIRECT - PTRS) \div PTRS
           j == (k - DIRECT - PTRS) % PTRS
<1>1. k \in DOMAIN DataBlocks(f)
  BY DEF DataBlocks
<1>2. DataBlocks(f)[k] = CASE a -> inode[f].index[k]
                           [] c -> TableOne(f)[k - DIRECT]
                           [] OTHER -> TableAt(f, i)[j]
  BY Zenon DEF DataBlocks
<1>3. a => ~c
  BY Sizes
<1>4. DIRECT + PTRS <= k => ~a /\ ~c
  BY Sizes
<1> HIDE DEF i, j
<1>5. At(f, "direct", k, 0) = inode[f].index[k] /\ At(f, "leaf1", k - DIRECT, 0) = TableOne(f)[k - DIRECT]
      /\ At(f, "leaf2", i, j) = TableAt(f, i)[j]
  BY DEF At
<1> HIDE DEF a, c
<1>6. (a => DataBlocks(f)[k] = At(f, "direct", k, 0)) /\ (c => DataBlocks(f)[k] = At(f, "leaf1", k - DIRECT, 0))
      /\ (~a /\ ~c => DataBlocks(f)[k] = At(f, "leaf2", i, j))
  BY <1>2, <1>3, <1>5, Zenon
<1> QED
  BY <1>1, <1>4, <1>6 DEF a, c, i, j

(* The places of a file are those of its data blocks and of its index blocks. *)
LEMMA InPlaces ==
  ASSUME NEW x
  PROVE  x \in Places <=> \E f \in Inodes :
           \/ \E k \in DOMAIN DataBlocks(f) : x = <<f, "data", k, DataBlocks(f)[k]>>
           \/ \E y \in IndexBlocks(f) : x = <<f, "index", y[1], y[2]>>
BY DEF Places

(* A unit is at least a byte: what begins below size has a number below it. *)
LEMMA InParts ==
  ASSUME NEW size \in Nat, NEW from \in Nat, NEW unit \in Nat, unit > 0, NEW k \in Nat,
         from + k * unit < size
  PROVE  k \in Parts(size, from, unit)
<1>1. k * unit >= k
  <2>1. k * (unit - 1) >= 0
    OBVIOUS
  <2> QED
    BY <2>1
<1> DEFINE z == k * unit
<1>2. z \in Nat /\ z >= k /\ from + z < size
  BY <1>1
<1> HIDE DEF z
<1>3. k \in 0..size
  BY <1>2
<1> QED
  BY <1>3 DEF Parts

(* Between operations every place is that of a slot the file holds ... *)
LEMMA PlaceHasSlot ==
  ASSUME DataType, job = NoJob, NEW x \in Places
  PROVE  \E f \in Inodes, kd \in Kinds, i \in Nat, j \in Nat :
           Valid(kd, i, j) /\ Has(f, kd, i, j) /\ x = PlaceOf(f, kd, i, j)
<1>1. PICK f \in Inodes :
        \/ \E k \in DOMAIN DataBlocks(f) : x = <<f, "data", k, DataBlocks(f)[k]>>
        \/ \E y \in IndexBlocks(f) : x = <<f, "index", y[1], y[2]>>
  BY InPlaces
<1>2. inode[f].size \in Nat /\ inode[f].size <= level_end2
  BY DEF DataType, NodeType
<1>3. CASE \E k \in DOMAIN DataBlocks(f) : x = <<f, "data", k, DataBlocks(f)[k]>>
  <2>1. PICK k \in DOMAIN DataBlocks(f) : x = <<f, "data", k, DataBlocks(f)[k]>>
    BY <1>3
  <2>2. k \in Parts(inode[f].size, 0, BLOCK_SIZE)
    BY DEF DataBlocks
  <2>3. k \in Nat /\ k * BLOCK_SIZE < inode[f].size
    <3>1. k \in Nat /\ 0 + k * BLOCK_SIZE < inode[f].size
      BY <1>2, <2>2 DEF Parts
    <3>2. k * BLOCK_SIZE \in Nat
      BY <3>1, Sizes
    <3> QED
      BY <3>1, <3>2
  <2>4. k * BLOCK_SIZE < level_end2
    <3> DEFINE z == k * BLOCK_SIZE
    <3>1. z \in Nat /\ z < inode[f].size
      BY <2>3, Sizes
    <3> HIDE DEF z
    <3>2. z < level_end2
      BY <1>2, <3>1, Levels
    <3> QED
      BY <3>2 DEF z
  <2>5. ASSUME NEW kd \in DataKinds, NEW i \in Nat, NEW j \in Nat, Valid(kd, i, j),
               Number(kd, i, j) = k, DataBlocks(f)[k] = At(f, kd, i, j)
        PROVE  kd \in Kinds /\ Has(f, kd, i, j) /\ x = PlaceOf(f, kd, i, j)
    <3>1. From(kd, i, j) = k * BLOCK_SIZE
      BY <2>5, NumberFrom
    <3>2. Has(f, kd, i, j)
      BY <2>3, <3>1 DEF Has
    <3> QED
      BY <2>1, <2>5, <3>2 DEF PlaceOf, Kinds, DataKinds
  <2>6. CASE k < DIRECT
    <3>1. Valid("direct", k, 0) /\ Number("direct", k, 0) = k
      BY <2>3, <2>4, <2>6, NumberOf, Sizes
    <3>2. DataBlocks(f)[k] = At(f, "direct", k, 0)
      BY <2>2, <2>3, <2>6, DataBlock
    <3> QED
      BY <2>3, <2>5, <3>1, <3>2 DEF DataKinds
  <2>7. CASE DIRECT <= k /\ k < DIRECT + PTRS
    <3>1. Valid("leaf1", k - DIRECT, 0) /\ Number("leaf1", k - DIRECT, 0) = k
      BY <2>3, <2>4, <2>7, NumberOf, Sizes
    <3>2. DataBlocks(f)[k] = At(f, "leaf1", k - DIRECT, 0)
      BY <2>2, <2>3, <2>7, DataBlock
    <3>3. k - DIRECT \in Nat
      BY <2>3, <2>7, Sizes
    <3> QED
      BY <2>5, <3>1, <3>2, <3>3 DEF DataKinds
  <2>8. CASE DIRECT + PTRS <= k
    <3> DEFINE i == (k - DIRECT - PTRS) \div PTRS
               j == (k - DIRECT - PTRS) % PTRS
    <3>1. Valid("leaf2", i, j) /\ Number("leaf2", i, j) = k
      BY <2>3, <2>4, <2>8, NumberOf, Sizes
    <3>2. DataBlocks(f)[k] = At(f, "leaf2", i, j)
      BY <2>2, <2>3, <2>8, DataBlock
    <3> HIDE DEF i, j
    <3>3. i \in Nat /\ j \in Nat
      BY <3>1 DEF Valid, Entries
    <3> QED
      BY <2>5, <3>1, <3>2, <3>3 DEF DataKinds
  <2> QED
    BY <2>3, <2>6, <2>7, <2>8, Sizes
<1>4. CASE \E y \in IndexBlocks(f) : x = <<f, "index", y[1], y[2]>>
  <2>1. PICK y \in IndexBlocks(f) : x = <<f, "index", y[1], y[2]>>
    BY <1>4
  <2>2. \/ inode[f].size > level_end0 /\ y = <<One, inode[f].index[One]>>
        \/ inode[f].size > level_end1 /\ y = <<Two, inode[f].index[Two]>>
        \/ \E i \in Parts(inode[f].size, level_end1, index_one_size) : y = <<Two + 1 + i, TableTwo(f)[i]>>
    BY DEF IndexBlocks, When
  <2>3. CASE inode[f].size > level_end0 /\ y = <<One, inode[f].index[One]>>
    <3>1. Valid("one", 0, 0) /\ Has(f, "one", 0, 0) /\ "one" \in Kinds
      BY <1>2, <2>3, Levels DEF Valid, Has, From, Kinds
    <3>2. x = PlaceOf(f, "one", 0, 0)
      BY <2>1, <2>3 DEF PlaceOf, Number, At, DataKinds
    <3> QED
      BY <3>1, <3>2
  <2>4. CASE inode[f].size > level_end1 /\ y = <<Two, inode[f].index[Two]>>
    <3>1. Valid("two", 0, 0) /\ Has(f, "two", 0, 0) /\ "two" \in Kinds
      BY <1>2, <2>4, Levels DEF Valid, Has, From, Kinds
    <3>2. x = PlaceOf(f, "two", 0, 0)
      BY <2>1, <2>4 DEF PlaceOf, Number, At, DataKinds
    <3> QED
      BY <3>1, <3>2
  <2>5. CASE \E i \in Parts(inode[f].size, level_end1, index_one_size) : y = <<Two + 1 + i, TableTwo(f)[i]>>
    <3>1. PICK i \in Parts(inode[f].size, level_end1, index_one_size) : y = <<Two + 1 + i, TableTwo(f)[i]>>
      BY <2>5
    <3>2. i \in Nat /\ level_end1 + i * index_one_size < inode[f].size
      BY <1>2 DEF Parts
    <3>3. i < PTRS
      <4> DEFINE z == i * index_one_size
                 w == PTRS * index_one_size
      <4>1. z \in Nat /\ w \in Nat /\ level_end2 = level_end1 + w /\ level_end1 + z < inode[f].size
        BY <3>2, Levels, Sizes
      <4>2. PTRS <= i => w <= z
        BY <3>2, Levels, Sizes, Multiples
      <4> HIDE DEF z, w
      <4> QED
        BY <1>2, <3>2, <4>1, <4>2, Levels, Sizes
    <3>4. Valid("tab", i, 0) /\ Has(f, "tab", i, 0) /\ "tab" \in Kinds
      BY <3>2, <3>3, Sizes DEF Valid, Has, From, Kinds, Entries
    <3>5. x = PlaceOf(f, "tab", i, 0)
      BY <2>1, <3>1 DEF PlaceOf, Number, At, DataKinds
    <3> QED
      BY <3>2, <3>4, <3>5
  <2> QED
    BY <2>2, <2>3, <2>4, <2>5
<1> QED
  BY <1>1, <1>3, <1>4

(* ... and every slot a file holds has its place. *)
LEMMA SlotHasPlace ==
  ASSUME DataType, job = NoJob,
         NEW f \in Inodes, NEW kd \in Kinds, NEW i \in Nat, NEW j \in Nat,
         Valid(kd, i, j), Has(f, kd, i, j)
  PROVE  PlaceOf(f, kd, i, j) \in Places
<1>1. inode[f].size \in Nat
  BY DEF DataType, NodeType
<1>2. From(kd, i, j) < inode[f].size
  BY DEF Has, Early, Using, NoJob
<1>3. CASE kd \in DataKinds
  <2>1. PICK k \in Nat : k = Number(kd, i, j) /\ From(kd, i, j) = k * BLOCK_SIZE
    BY <1>3, NumberFrom
  <2>2. k \in Parts(inode[f].size, 0, BLOCK_SIZE)
    <3>1. 0 + k * BLOCK_SIZE < inode[f].size
      <4>1. k * BLOCK_SIZE \in Nat
        BY Sizes
      <4> QED
        BY <1>2, <2>1, <4>1
    <3> QED
      BY <1>1, <3>1, InParts, Sizes
  <2>3. k \in DOMAIN DataBlocks(f) /\ DataBlocks(f)[k] = At(f, kd, i, j)
    <3>1. CASE kd = "direct"
      <4>1. k = i /\ k < DIRECT /\ j = 0
        BY <2>1, <3>1, Sizes DEF Number, Valid
      <4> QED
        BY <2>2, <3>1, <4>1, DataBlock
    <3>2. CASE kd = "leaf1"
      <4>1. k = DIRECT + i /\ i < PTRS /\ j = 0
        BY <2>1, <3>2, Sizes DEF Number, Valid, Entries
      <4>2. i = k - DIRECT /\ DIRECT <= k /\ k < DIRECT + PTRS
        BY <4>1, Sizes
      <4> QED
        BY <2>2, <3>2, <4>1, <4>2, DataBlock
    <3>3. CASE kd = "leaf2"
      <4>1. k = DIRECT + PTRS + i * PTRS + j /\ j \in 0..(PTRS - 1)
        BY <2>1, <3>3 DEF Number, Valid, Entries
      <4>2. i * PTRS + j \in Nat /\ i * PTRS \in Nat
        BY Sizes
      <4>3. k - DIRECT - PTRS = i * PTRS + j /\ DIRECT + PTRS <= k
        BY <4>1, <4>2, Sizes
      <4>4. (i * PTRS + j) \div PTRS = i /\ (i * PTRS + j) % PTRS = j
        BY <4>1, DivRem, Sizes
      <4>5. (k - DIRECT - PTRS) \div PTRS = i /\ (k - DIRECT - PTRS) % PTRS = j
        BY <4>3, <4>4
      <4>6. k \in DOMAIN DataBlocks(f) /\ DataBlocks(f)[k] =
              At(f, "leaf2", (k - DIRECT - PTRS) \div PTRS, (k - DIRECT - PTRS) % PTRS)
        BY <2>2, <4>3, DataBlock
      <4> QED
        BY <3>3, <4>5, <4>6
    <3> QED
      BY <1>3, <3>1, <3>2, <3>3 DEF DataKinds
  <2>4. PlaceOf(f, kd, i, j) = <<f, "data", k, DataBlocks(f)[k]>>
    BY <1>3, <2>1, <2>3 DEF PlaceOf
  <2> QED
    BY <2>3, <2>4, InPlaces
<1>4. CASE kd \notin DataKinds
  <2> DEFINE y == <<Number(kd, i, j), At(f, kd, i, j)>>
  <2>1. y \in IndexBlocks(f)
    <3>1. CASE kd = "one"
      BY <1>1, <1>2, <3>1, Levels DEF IndexBlocks, When, Number, At, From
    <3>2. CASE kd = "two"
      BY <1>1, <1>2, <3>2, Levels DEF IndexBlocks, When, Number, At, From
    <3>3. CASE kd = "tab"
      <4>1. i \in Parts(inode[f].size, level_end1, index_one_size)
        BY <1>1, <1>2, <3>3, InParts, Levels DEF From
      <4>2. y = <<Two + 1 + i, TableTwo(f)[i]>>
        BY <3>3 DEF Number, At
      <4> QED
        BY <4>1, <4>2 DEF IndexBlocks
    <3> QED
      BY <1>4, <3>1, <3>2, <3>3 DEF Kinds, DataKinds
  <2>2. PlaceOf(f, kd, i, j) = <<f, "index", y[1], y[2]>>
    BY <1>4 DEF PlaceOf
  <2> HIDE DEF y
  <2> QED
    BY <2>1, <2>2, InPlaces
<1> QED
  BY <1>3, <1>4

(* Between operations the map of the slots is what the indexes say. *)
LEMMA Accounted ==
  ASSUME DataInv
  PROVE  BlocksAccounted
<1> SUFFICES ASSUME Idle
             PROVE  /\ {x[4] : x \in Places} = block_bitmap
                    /\ \A x, y \in Places : x[4] = y[4] => x = y
  BY DEF BlocksAccounted
<1>1. DataType /\ Exact(BlockOf, block_bitmap) /\ job = NoJob
  BY DEF DataInv, Idle
<1>2. ASSUME NEW x \in Places
      PROVE  \E f \in Inodes, kd \in Kinds, i \in Nat, j \in Nat :
               /\ Valid(kd, i, j) /\ Has(f, kd, i, j)
               /\ x = PlaceOf(f, kd, i, j) /\ x[4] = At(f, kd, i, j)
  <2>1. PICK f \in Inodes, kd \in Kinds, i \in Nat, j \in Nat :
          Valid(kd, i, j) /\ Has(f, kd, i, j) /\ x = PlaceOf(f, kd, i, j)
    BY <1>1, PlaceHasSlot
  <2>2. x[4] = At(f, kd, i, j)
    BY <2>1 DEF PlaceOf
  <2> QED
    BY <2>1, <2>2
<1>3. \A x \in Places : x[4] \in block_bitmap
  BY <1>1, <1>2, HeldMarked
<1>4. ASSUME NEW b \in block_bitmap
      PROVE  \E x \in Places : x[4] = b
  <2>1. PICK z \in DOMAIN BlockOf : BlockOf[z] = b
    BY <1>1 DEF Exact
  <2>2. z \in Slots /\ Has(z[1], z[2], z[3], z[4]) /\ At(z[1], z[2], z[3], z[4]) = b
    BY <2>1 DEF BlockOf
  <2>3. PICK f \in Inodes, kd \in Kinds, i \in Nat, j \in Nat :
          f = z[1] /\ kd = z[2] /\ i = z[3] /\ j = z[4]
    BY <2>2, SlotParts
  <2>4. Valid(kd, i, j) /\ Has(f, kd, i, j) /\ At(f, kd, i, j) = b
    BY <2>2, <2>3, SlotParts
  <2>5. PlaceOf(f, kd, i, j) \in Places
    BY <1>1, <2>4, SlotHasPlace
  <2>6. PlaceOf(f, kd, i, j)[4] = b
    BY <2>4 DEF PlaceOf
  <2> QED
    BY <2>5, <2>6
<1>5. ASSUME NEW x \in Places, NEW y \in Places, x[4] = y[4]
      PROVE  x = y
  <2>1. PICK f \in Inodes, kd \in Kinds, i \in Nat, j \in Nat :
          /\ Valid(kd, i, j) /\ Has(f, kd, i, j)
          /\ x = PlaceOf(f, kd, i, j) /\ x[4] = At(f, kd, i, j)
    BY <1>2
  <2>2. PICK f2 \in Inodes, kd2 \in Kinds, i2 \in Nat, j2 \in Nat :
          /\ Valid(kd2, i2, j2) /\ Has(f2, kd2, i2, j2)
          /\ y = PlaceOf(f2, kd2, i2, j2) /\ y[4] = At(f2, kd2, i2, j2)
    BY <1>2
  <2>3. f = f2 /\ kd = kd2 /\ i = i2 /\ j = j2
    BY <1>1, <1>5, <2>1, <2>2, HeldOnce
  <2> QED
    BY <2>1, <2>2, <2>3
<1> QED
  BY <1>3, <1>4, <1>5

(* Between operations the blocks marked in block_bitmap are exactly those the
   indexes of the files lead to, each in one place: whatever is written, cut off
   by release_block() from level_end0 on, removed or deleted, no block is lost
   and none is given to two. *)
THEOREM BlocksStayAccounted ==
  ASSUME GiveBackFrom >= level_end0
  PROVE  DSpec => []BlocksAccounted
<1>1. DSpec => []DataInv
  BY BlocksHold
<1>2. DataInv => BlocksAccounted
  BY Accounted
<1> QED
  BY <1>1, <1>2, PTL

-----------------------------------------------------------------------------
(* The bytes of a file. *)

Byte    == (Inodes \X Int \X Labels) \cup {None}
BytesOK == bytes \in [Blocks -> [0..(BLOCK_SIZE - 1) -> Byte]]

\* Slot kd, i, j is for the block that byte o of a file is in.
Covers(kd, i, j, o) ==
  Valid(kd, i, j) /\ From(kd, i, j) <= o /\ o < From(kd, i, j) + BLOCK_SIZE

\* The block that byte o of f is in, and the byte.
BlockAt(f, o) == DataBlocks(f)[o \div BLOCK_SIZE]
ByteAt(f, o)  == bytes[BlockAt(f, o)][o % BLOCK_SIZE]

\* Every byte of a file is in a block that one of its slots holds.
Addressed ==
  \A f \in Inodes, o \in Nat : o < inode[f].size =>
    \E kd \in DataKinds, i \in Nat, j \in Nat :
      Covers(kd, i, j, o) /\ Has(f, kd, i, j) /\ BlockAt(f, o) = At(f, kd, i, j)

(* The place of a byte in its block. *)
LEMMA PlaceInBlock ==
  ASSUME NEW kd \in DataKinds, NEW i \in Nat, NEW j \in Nat, NEW o \in Nat, Covers(kd, i, j, o)
  PROVE  /\ From(kd, i, j) \in Nat /\ o % BLOCK_SIZE = o - From(kd, i, j)
         /\ o \div BLOCK_SIZE = Number(kd, i, j)
<1> DEFINE q == Number(kd, i, j)
           z == q * BLOCK_SIZE
<1>1. q \in Nat /\ From(kd, i, j) = z
  BY NumberFrom DEF Covers
<1>2. z \in Nat
  BY <1>1, Sizes
<1>3. PICK r \in 0..(BLOCK_SIZE - 1) : r = o - z
  <2>1. z <= o /\ o < z + BLOCK_SIZE
    BY <1>1 DEF Covers
  <2> HIDE DEF z
  <2> QED
    BY <1>2, <2>1, Sizes
<1>4. o = z + r
  <2> HIDE DEF z
  <2> QED
    BY <1>2, <1>3
<1> HIDE DEF q
<1>5. (q * BLOCK_SIZE + r) \div BLOCK_SIZE = q /\ (q * BLOCK_SIZE + r) % BLOCK_SIZE = r
  BY <1>1, DivRem, Sizes
<1> QED
  BY <1>1, <1>2, <1>3, <1>4, <1>5 DEF q

(* A byte is in one slot. *)
LEMMA OneSlot ==
  ASSUME NEW o \in Nat,
         NEW kd \in DataKinds, NEW i \in Nat, NEW j \in Nat, Covers(kd, i, j, o),
         NEW kd2 \in DataKinds, NEW i2 \in Nat, NEW j2 \in Nat, Covers(kd2, i2, j2, o)
  PROVE  kd = kd2 /\ i = i2 /\ j = j2
<1>1. From(kd, i, j) = From(kd2, i2, j2)
  <2>1. o % BLOCK_SIZE = o - From(kd, i, j) /\ From(kd, i, j) \in Nat
    BY PlaceInBlock
  <2>2. o % BLOCK_SIZE = o - From(kd2, i2, j2) /\ From(kd2, i2, j2) \in Nat
    BY PlaceInBlock
  <2> QED
    BY <2>1, <2>2
<1> QED
  BY <1>1, SameSlot DEF Covers, DataKinds, Kinds

(* What DataBlocks says is what the slots hold. *)
LEMMA AddressedNow ==
  ASSUME DataType  PROVE Addressed
<1> SUFFICES ASSUME NEW f \in Inodes, NEW o \in Nat, o < inode[f].size
             PROVE  \E kd \in DataKinds, i \in Nat, j \in Nat :
                      Covers(kd, i, j, o) /\ Has(f, kd, i, j) /\ BlockAt(f, o) = At(f, kd, i, j)
  BY DEF Addressed
<1>1. inode[f].size \in Nat /\ inode[f].size <= level_end2
  BY DEF DataType, NodeType
<1>2. PICK k \in Nat : k = o \div BLOCK_SIZE
  BY Division, Sizes
<1>3. k * BLOCK_SIZE <= o /\ o < k * BLOCK_SIZE + BLOCK_SIZE
  <2> DEFINE z == k * BLOCK_SIZE
  <2>1. o = z + (o % BLOCK_SIZE) /\ o % BLOCK_SIZE \in 0..(BLOCK_SIZE - 1)
    BY <1>2, Division, Sizes
  <2>2. z \in Nat
    BY Sizes
  <2> HIDE DEF z
  <2>3. z <= o /\ o < z + BLOCK_SIZE
    BY <2>1, <2>2, Sizes
  <2> QED
    BY <2>3 DEF z
<1>4. k * BLOCK_SIZE < inode[f].size /\ k * BLOCK_SIZE < level_end2
  <2> DEFINE z == k * BLOCK_SIZE
  <2>1. z \in Nat /\ z <= o
    BY <1>3, Sizes
  <2> HIDE DEF z
  <2>2. z < inode[f].size /\ z < level_end2
    BY <1>1, <2>1, Levels
  <2> QED
    BY <2>2 DEF z
<1>5. k \in Parts(inode[f].size, 0, BLOCK_SIZE)
  <2>1. 0 + k * BLOCK_SIZE < inode[f].size
    <3>1. k * BLOCK_SIZE \in Nat
      BY Sizes
    <3> QED
      BY <1>4, <3>1
  <2> QED
    BY <1>1, <2>1, InParts, Sizes
<1>6. ASSUME NEW kd \in DataKinds, NEW i \in Nat, NEW j \in Nat, Valid(kd, i, j),
             Number(kd, i, j) = k, DataBlocks(f)[k] = At(f, kd, i, j)
      PROVE  Covers(kd, i, j, o) /\ Has(f, kd, i, j) /\ BlockAt(f, o) = At(f, kd, i, j)
  <2>1. From(kd, i, j) = k * BLOCK_SIZE
    BY <1>6, NumberFrom
  <2> QED
    BY <1>2, <1>3, <1>4, <1>6, <2>1 DEF Covers, Has, BlockAt
<1>7. CASE k < DIRECT
  <2>1. Valid("direct", k, 0) /\ Number("direct", k, 0) = k
    BY <1>4, <1>7, NumberOf, Sizes
  <2>2. DataBlocks(f)[k] = At(f, "direct", k, 0)
    BY <1>5, <1>7, DataBlock
  <2> QED
    BY <1>6, <2>1, <2>2 DEF DataKinds
<1>8. CASE DIRECT <= k /\ k < DIRECT + PTRS
  <2>1. Valid("leaf1", k - DIRECT, 0) /\ Number("leaf1", k - DIRECT, 0) = k
    BY <1>4, <1>8, NumberOf, Sizes
  <2>2. DataBlocks(f)[k] = At(f, "leaf1", k - DIRECT, 0)
    BY <1>5, <1>8, DataBlock
  <2>3. k - DIRECT \in Nat
    BY <1>8, Sizes
  <2> QED
    BY <1>6, <2>1, <2>2, <2>3 DEF DataKinds
<1>9. CASE DIRECT + PTRS <= k
  <2> DEFINE i == (k - DIRECT - PTRS) \div PTRS
             j == (k - DIRECT - PTRS) % PTRS
  <2>1. Valid("leaf2", i, j) /\ Number("leaf2", i, j) = k
    BY <1>4, <1>9, NumberOf, Sizes
  <2>2. DataBlocks(f)[k] = At(f, "leaf2", i, j)
    BY <1>5, <1>9, DataBlock
  <2> HIDE DEF i, j
  <2>3. i \in Nat /\ j \in Nat
    BY <2>1 DEF Valid, Entries
  <2> QED
    BY <1>6, <2>1, <2>2, <2>3 DEF DataKinds
<1> QED
  BY <1>7, <1>8, <1>9, Sizes

(* It is so after a step too. *)
LEMMA AddressedNext ==
  DataType' => Addressed'
<1>1. DataType => Addressed
  BY AddressedNow
<1> QED
  BY <1>1, PTL

(* A byte that is in the file before and after a step is in the same block, if the
   step moves none. *)
LEMMA BlockKept ==
  ASSUME DataType, DataType', Kept, NEW f \in Inodes, NEW o \in Nat,
         o < inode[f].size, o < inode'[f].size
  PROVE  BlockAt(f, o)' = BlockAt(f, o)
<1>1. PICK kd \in DataKinds, i \in Nat, j \in Nat :
        Covers(kd, i, j, o) /\ Has(f, kd, i, j) /\ BlockAt(f, o) = At(f, kd, i, j)
  BY AddressedNow DEF Addressed
<1>2. Addressed'
  BY AddressedNext
<1>3. PICK kd2 \in DataKinds, i2 \in Nat, j2 \in Nat :
        Covers(kd2, i2, j2, o)' /\ Has(f, kd2, i2, j2)' /\ BlockAt(f, o)' = At(f, kd2, i2, j2)'
  BY <1>2 DEF Addressed, DataKinds, Inodes
<1>4. Covers(kd2, i2, j2, o)' <=> Covers(kd2, i2, j2, o)
  BY DEF Covers, Valid, From, Entries, level_end0, level_end1, index_one_size
<1>5. kd = kd2 /\ i = i2 /\ j = j2
  BY <1>1, <1>3, <1>4, OneSlot
<1>6. Valid(kd, i, j) /\ kd \in Kinds
  BY <1>1 DEF Covers, DataKinds, Kinds
<1> QED
  BY <1>1, <1>3, <1>5, <1>6 DEF Kept

(* The block of a byte is one of the disk. *)
LEMMA BlockOnDisk ==
  ASSUME DataType, Exact(BlockOf, block_bitmap), NEW f \in Inodes, NEW o \in Nat, o < inode[f].size
  PROVE  BlockAt(f, o) \in Blocks /\ o % BLOCK_SIZE \in 0..(BLOCK_SIZE - 1)
<1>1. PICK kd \in DataKinds, i \in Nat, j \in Nat :
        Covers(kd, i, j, o) /\ Has(f, kd, i, j) /\ BlockAt(f, o) = At(f, kd, i, j)
  BY AddressedNow DEF Addressed
<1>2. kd \in Kinds /\ Valid(kd, i, j)
  BY <1>1 DEF Kinds, DataKinds, Covers
<1>3. At(f, kd, i, j) \in Blocks
  BY <1>1, <1>2, HeldMarked DEF DataType
<1> QED
  BY <1>1, <1>3, Division, Sizes

(* No byte of the disk is two bytes of files. *)
LEMMA OneByte ==
  ASSUME DataType, Exact(BlockOf, block_bitmap),
         NEW f \in Inodes, NEW o \in Nat, o < inode[f].size,
         NEW f2 \in Inodes, NEW o2 \in Nat, o2 < inode[f2].size,
         BlockAt(f, o) = BlockAt(f2, o2), o % BLOCK_SIZE = o2 % BLOCK_SIZE
  PROVE  f = f2 /\ o = o2
<1>1. PICK kd \in DataKinds, i \in Nat, j \in Nat :
        Covers(kd, i, j, o) /\ Has(f, kd, i, j) /\ BlockAt(f, o) = At(f, kd, i, j)
  BY AddressedNow DEF Addressed
<1>2. PICK kd2 \in DataKinds, i2 \in Nat, j2 \in Nat :
        Covers(kd2, i2, j2, o2) /\ Has(f2, kd2, i2, j2) /\ BlockAt(f2, o2) = At(f2, kd2, i2, j2)
  BY AddressedNow DEF Addressed
<1>3. kd \in Kinds /\ Valid(kd, i, j) /\ kd2 \in Kinds /\ Valid(kd2, i2, j2)
  BY <1>1, <1>2 DEF Kinds, DataKinds, Covers
<1>4. f = f2 /\ kd = kd2 /\ i = i2 /\ j = j2
  <2>1. At(f, kd, i, j) = At(f2, kd2, i2, j2)
    BY <1>1, <1>2
  <2> QED
    BY <1>1, <1>2, <1>3, <2>1, HeldOnce
<1>5. o % BLOCK_SIZE = o - From(kd, i, j) /\ From(kd, i, j) \in Nat
  BY <1>1, PlaceInBlock
<1>6. o2 % BLOCK_SIZE = o2 - From(kd, i, j)
  BY <1>2, <1>4, PlaceInBlock
<1> QED
  BY <1>4, <1>5, <1>6

(* Sequences are equal when their elements are. *)
LEMMA SameElements ==
  ASSUME NEW S, NEW s \in Seq(S), NEW t \in Seq(S), Len(s) = Len(t),
         \A k \in 1..Len(s) : s[k] = t[k]
  PROVE  s = t
OBVIOUS

\* The files as sequences of bytes.
Readable ==
  /\ Content = [f \in Inodes |-> Content[f]]
  /\ \A f \in Inodes :
       /\ Content[f] \in Seq(Byte) /\ Len(Content[f]) = inode[f].size
       /\ \A k \in 1..inode[f].size : Content[f][k] = ByteAt(f, k - 1)

(* They are that before a step ... *)
LEMMA ReadableNow ==
  ASSUME DataInv, BytesOK  PROVE Readable
<1>1. DataType /\ Exact(BlockOf, block_bitmap)
  BY DEF DataInv
<1>2. Content = [f \in Inodes |-> [k \in 1..inode[f].size |-> ByteAt(f, k - 1)]]
  BY DEF Content, ByteAt, BlockAt
<1>3. ASSUME NEW f \in Inodes
      PROVE  /\ Content[f] \in Seq(Byte) /\ Len(Content[f]) = inode[f].size
             /\ \A k \in 1..inode[f].size : Content[f][k] = ByteAt(f, k - 1)
  <2>1. PICK n \in Nat : n = inode[f].size
    BY <1>1 DEF DataType, NodeType
  <2>2. Content[f] = [k \in 1..n |-> ByteAt(f, k - 1)]
    BY <1>2, <2>1
  <2>3. \A k \in 1..n : ByteAt(f, k - 1) \in Byte
    <3> TAKE k \in 1..n
    <3>1. k - 1 \in Nat /\ k - 1 < inode[f].size
      BY <2>1
    <3>2. BlockAt(f, k - 1) \in Blocks /\ (k - 1) % BLOCK_SIZE \in 0..(BLOCK_SIZE - 1)
      BY <1>1, <3>1, BlockOnDisk
    <3> QED
      BY <3>2 DEF ByteAt, BytesOK
  <2> QED
    BY <2>1, <2>2, <2>3
<1> QED
  BY <1>2, <1>3 DEF Readable

(* ... and after it. *)
LEMMA ReadableNext ==
  DataInv' /\ BytesOK' => Readable'
<1>1. DataInv /\ BytesOK => Readable
  BY ReadableNow
<1> QED
  BY <1>1, PTL

(* A file that keeps its size and its bytes. *)
LEMMA FileKept ==
  ASSUME Readable, Readable', NEW f \in Inodes, NEW n \in Nat, inode[f].size = n, inode'[f].size = n,
         \A o \in Nat : o < n => ByteAt(f, o)' = ByteAt(f, o)
  PROVE  Content'[f] = Content[f]
<1>1. /\ Content[f] \in Seq(Byte) /\ Len(Content[f]) = n
      /\ \A k \in 1..n : Content[f][k] = ByteAt(f, k - 1)
  BY DEF Readable
<1>2. /\ Content'[f] \in Seq(Byte) /\ Len(Content'[f]) = n
      /\ \A k \in 1..n : Content'[f][k] = ByteAt(f, k - 1)'
  BY DEF Readable, Inodes, Byte, None
<1>3. \A k \in 1..n : Content'[f][k] = Content[f][k]
  <2> TAKE k \in 1..n
  <2>1. k - 1 \in Nat /\ k - 1 < n
    OBVIOUS
  <2> QED
    BY <1>1, <1>2, <2>1
<1> QED
  BY <1>1, <1>2, <1>3, SameElements

(* A step that moves no block, writes no byte and changes no size. *)
LEMMA SameContent ==
  ASSUME DataInv, DataInv', BytesOK, Kept, bytes' = bytes,
         \A f \in Inodes : inode'[f].size = inode[f].size
  PROVE  BytesOK' /\ Content' = Content
<1>1. DataType /\ DataType'
  BY DEF DataInv
<1>2. BytesOK'
  BY DEF BytesOK, Blocks, Byte, Inodes, None
<1>3. Readable /\ Readable'
  BY <1>2, ReadableNow, ReadableNext
<1>4. ASSUME NEW f \in Inodes  PROVE Content'[f] = Content[f]
  <2>1. PICK n \in Nat : n = inode[f].size
    BY <1>1 DEF DataType, NodeType
  <2>2. ASSUME NEW o \in Nat, o < n  PROVE ByteAt(f, o)' = ByteAt(f, o)
    <3>1. BlockAt(f, o)' = BlockAt(f, o)
      BY <1>1, <2>1, <2>2, BlockKept
    <3> QED
      BY <3>1 DEF ByteAt
  <2> QED
    BY <1>3, <2>1, <2>2, FileKept
<1>5. Content = [f \in Inodes |-> Content[f]] /\ Content' = [f \in Inodes |-> Content'[f]]
  BY <1>3 DEF Readable, Inodes
<1> QED
  BY <1>2, <1>4, <1>5

(* Two sequences one after the other. *)
LEMMA Joined ==
  ASSUME NEW S, NEW s \in Seq(S), NEW t \in Seq(S)
  PROVE  /\ s \o t \in Seq(S) /\ Len(s \o t) = Len(s) + Len(t)
         /\ \A k \in 1..Len(s) : (s \o t)[k] = s[k]
         /\ \A k \in 1..Len(t) : (s \o t)[Len(s) + k] = t[k]
OBVIOUS

(* The elements a to b of a sequence. *)
LEMMA Piece ==
  ASSUME NEW S, NEW s \in Seq(S), NEW a \in Nat, NEW b \in Nat, a > 0, a <= b + 1, b <= Len(s)
  PROVE  /\ SubSeq(s, a, b) \in Seq(S) /\ Len(SubSeq(s, a, b)) = b - a + 1
         /\ \A k \in 1..(b - a + 1) : SubSeq(s, a, b)[k] = s[a + k - 1]
OBVIOUS

(* The first c elements of a sequence. *)
LEMMA FirstOf ==
  ASSUME NEW S, NEW s \in Seq(S), NEW c \in Nat, c <= Len(s)
  PROVE  /\ SubSeq(s, 1, c) \in Seq(S) /\ Len(SubSeq(s, 1, c)) = c
         /\ \A k \in 1..c : SubSeq(s, 1, c)[k] = s[k]
<1>1. /\ SubSeq(s, 1, c) \in Seq(S) /\ Len(SubSeq(s, 1, c)) = c - 1 + 1
      /\ \A k \in 1..(c - 1 + 1) : SubSeq(s, 1, c)[k] = s[1 + k - 1]
  BY Piece
<1>2. c - 1 + 1 = c /\ \A k \in 1..c : 1 + k - 1 = k
  OBVIOUS
<1> QED
  BY <1>1, <1>2

(* What a turn puts into the block b, byte by byte. *)
LEMMA StoredBytes ==
  ASSUME DataType, BytesOK, job.rest # <<>>, NEW b \in Blocks, Store(b)
  PROVE  /\ BytesOK'
         /\ \A x \in Blocks, o \in 0..(BLOCK_SIZE - 1) :
              bytes'[x][o] = IF x = b /\ in_block <= o /\ o < in_block + cur_len
                             THEN job.rest[o - in_block + 1] ELSE bytes[x][o]
<1>1. PICK c \in Nat, r \in Nat, s \in Chunk : c = cur_len /\ r = in_block /\ s = job.rest
  BY TurnLength DEF DataType, JobType
<1>2. c <= Len(s)
  BY <1>1, TurnLength
<1>3. \A k \in 1..Len(s) : s[k] \in Byte
  BY DEF Chunk, Byte
<1> DEFINE O == 0..(BLOCK_SIZE - 1)
           new == [o \in O |-> IF o \in r..(r + c - 1) THEN s[o - r + 1] ELSE bytes[b][o]]
<1>4. bytes' = [bytes EXCEPT ![b] = new]
  BY <1>1 DEF Store
<1>5. bytes \in [Blocks -> [O -> Byte]]
  BY DEF BytesOK
<1>6. ASSUME NEW o \in O
      PROVE  /\ new[o] \in Byte
             /\ new[o] = IF r <= o /\ o < r + c THEN s[o - r + 1] ELSE bytes[b][o]
  <2>1. o \in Int
    BY Sizes
  <2>2. o \in r..(r + c - 1) <=> r <= o /\ o < r + c
    BY <2>1
  <2>3. o \in r..(r + c - 1) => s[o - r + 1] \in Byte
    <3>1. o \in r..(r + c - 1) => o - r + 1 \in 1..Len(s)
      BY <1>2, <2>1, SMTT(60) DEF Chunk
    <3> QED
      BY <1>3, <3>1
  <2>4. bytes[b][o] \in Byte
    BY <1>5
  <2> QED
    BY <2>2, <2>3, <2>4
<1>7. new \in [O -> Byte]
  BY <1>6
<1> HIDE DEF new
<1>8. bytes' \in [Blocks -> [O -> Byte]] /\ \A x \in Blocks : bytes'[x] = IF x = b THEN new ELSE bytes[x]
  BY <1>4, <1>5, <1>7
<1>9. BytesOK'
  BY <1>8 DEF BytesOK, Blocks, Byte, Inodes, None
<1>10. ASSUME NEW x \in Blocks, NEW o \in O
       PROVE  bytes'[x][o] = IF x = b /\ r <= o /\ o < r + c THEN s[o - r + 1] ELSE bytes[x][o]
  <2>1. CASE x = b
    BY <1>6, <1>8, <2>1
  <2>2. CASE x # b
    BY <1>8, <2>2
  <2> QED
    BY <2>1, <2>2
<1> QED
  BY <1>1, <1>9, <1>10

(* A turn of write_data() appends its bytes to the file and touches no other
   byte of any file. *)
LEMMA TurnContent ==
  ASSUME DataInv, DataInv', BytesOK, Kept, Turn, Stored
  PROVE  BytesOK' /\ Content' = [Content EXCEPT ![job.f] = @ \o SubSeq(job.rest, 1, cur_len)]
<1>1. DataType /\ DataType' /\ JobOK
  BY DEF DataInv
<1>2. job.rest # <<>> /\ job.at # "idle"
  BY DEF Turn
<1>3. PICK kd \in DataKinds, i \in Nat, j \in Nat, b \in Blocks : StoredAt(kd, i, j, b)
  BY DEF Stored
<1>4. PICK g \in Inodes, off \in Nat : g = job.f /\ off = job.offset /\ off = inode[g].size
  BY <1>1, <1>2 DEF DataType, JobType, JobOK
<1>5. PICK c \in Nat, r \in Nat, s \in Chunk : c = cur_len /\ r = in_block /\ s = job.rest
  BY <1>1, <1>2, TurnLength DEF DataType, JobType
<1>6. PICK e \in Nat : e = From(kd, i, j)
  BY <1>3, SlotRange DEF StoredAt, DataKinds, Kinds
<1>7. /\ Valid(kd, i, j) /\ e <= off /\ off < e + BLOCK_SIZE /\ At(g, kd, i, j)' = b /\ Store(b)
      /\ \A f \in Inodes, kd2 \in Kinds, i2 \in Nat, j2 \in Nat :
           Valid(kd2, i2, j2) /\ Has(f, kd2, i2, j2) /\ At(f, kd2, i2, j2) = b =>
             f = g /\ kd2 = kd /\ i2 = i /\ j2 = j
  BY <1>3, <1>4, <1>6 DEF StoredAt
<1>8. r = off - e /\ c > 0 /\ c <= Len(s) /\ c <= BLOCK_SIZE - r
  <2>1. Covers(kd, i, j, off)
    BY <1>6, <1>7 DEF Covers
  <2>2. off % BLOCK_SIZE = off - e
    BY <1>6, <2>1, PlaceInBlock
  <2> QED
    BY <1>1, <1>2, <1>4, <1>5, <2>2, TurnLength DEF in_block
<1>9. /\ BytesOK'
      /\ \A x \in Blocks, o \in 0..(BLOCK_SIZE - 1) :
           bytes'[x][o] = IF x = b /\ r <= o /\ o < r + c THEN s[o - r + 1] ELSE bytes[x][o]
  BY <1>1, <1>2, <1>5, <1>7, StoredBytes
<1>10. Readable /\ Readable'
  BY <1>9, ReadableNow, ReadableNext
<1>11. inode'[g].size = off + c /\ \A f \in Inodes \ {g} : inode'[f].size = inode[f].size
  BY <1>4, <1>5 DEF Turn
<1>12. ASSUME NEW f \in Inodes, NEW o \in Nat, o < inode[f].size
       PROVE  ByteAt(f, o)' = ByteAt(f, o)
  <2>1. o < inode'[f].size
    BY <1>4, <1>11, <1>12
  <2>2. BlockAt(f, o)' = BlockAt(f, o)
    BY <1>1, <1>12, <2>1, BlockKept
  <2>3. BlockAt(f, o) \in Blocks /\ o % BLOCK_SIZE \in 0..(BLOCK_SIZE - 1)
    BY <1>1, <1>12, BlockOnDisk DEF DataInv
  <2>4. ~(BlockAt(f, o) = b /\ r <= o % BLOCK_SIZE /\ o % BLOCK_SIZE < r + c)
    <3> SUFFICES ASSUME BlockAt(f, o) = b  PROVE o % BLOCK_SIZE < r
      BY <2>3, Sizes
    <3>1. PICK kd2 \in DataKinds, i2 \in Nat, j2 \in Nat :
            Covers(kd2, i2, j2, o) /\ Has(f, kd2, i2, j2) /\ BlockAt(f, o) = At(f, kd2, i2, j2)
      BY <1>1, <1>12, AddressedNow DEF Addressed
    <3>2. kd2 \in Kinds /\ Valid(kd2, i2, j2)
      BY <3>1 DEF Covers, Kinds, DataKinds
    <3>3. f = g /\ kd2 = kd /\ i2 = i /\ j2 = j
      BY <1>7, <3>1, <3>2
    <3>4. o % BLOCK_SIZE = o - e
      BY <1>6, <3>1, <3>3, PlaceInBlock
    <3> QED
      BY <1>4, <1>8, <1>12, <3>3, <3>4
  <2>5. bytes'[BlockAt(f, o)][o % BLOCK_SIZE] = bytes[BlockAt(f, o)][o % BLOCK_SIZE]
    <3>1. PICK x \in Blocks, p \in 0..(BLOCK_SIZE - 1) : x = BlockAt(f, o) /\ p = o % BLOCK_SIZE
      BY <2>3
    <3>2. bytes'[x][p] = bytes[x][p]
      BY <1>9, <2>4, <3>1
    <3> QED
      BY <3>1, <3>2
  <2> QED
    BY <2>2, <2>5 DEF ByteAt
<1>13. ASSUME NEW o \in Nat, off <= o, o < off + c
       PROVE  ByteAt(g, o)' = s[o - off + 1]
  <2>1. Covers(kd, i, j, o)
    BY <1>6, <1>7, <1>8, <1>13, Sizes, SMTT(60) DEF Covers
  <2>2. Addressed' /\ o < inode'[g].size
    BY <1>1, <1>11, <1>13, AddressedNext
  <2>3. PICK kd2 \in DataKinds, i2 \in Nat, j2 \in Nat :
          Covers(kd2, i2, j2, o)' /\ BlockAt(g, o)' = At(g, kd2, i2, j2)'
    BY <2>2 DEF Addressed, DataKinds, Inodes
  <2>4. Covers(kd2, i2, j2, o)' <=> Covers(kd2, i2, j2, o)
    BY DEF Covers, Valid, From, Entries, level_end0, level_end1, index_one_size
  <2>5. kd2 = kd /\ i2 = i /\ j2 = j
    BY <2>1, <2>3, <2>4, OneSlot
  <2>6. BlockAt(g, o)' = b
    BY <1>7, <2>3, <2>5
  <2>7. PICK p \in 0..(BLOCK_SIZE - 1) : p = o % BLOCK_SIZE /\ p = o - e
    <3>1. o % BLOCK_SIZE = o - e
      BY <1>6, <2>1, PlaceInBlock
    <3> QED
      BY <3>1, Division, Sizes
  <2>8. r <= p /\ p < r + c /\ p - r + 1 = o - off + 1
    BY <1>8, <1>13, <2>7
  <2>9. bytes'[b][p] = s[o - off + 1]
    BY <1>9, <2>8
  <2> QED
    BY <2>6, <2>7, <2>9 DEF ByteAt
<1>14. Content'[g] = Content[g] \o SubSeq(s, 1, c)
  <2>1. /\ Content[g] \in Seq(Byte) /\ Len(Content[g]) = off
        /\ \A k \in 1..off : Content[g][k] = ByteAt(g, k - 1)
    BY <1>4, <1>10 DEF Readable
  <2>2. /\ Content'[g] \in Seq(Byte) /\ Len(Content'[g]) = off + c
        /\ \A k \in 1..(off + c) : Content'[g][k] = ByteAt(g, k - 1)'
    BY <1>10, <1>11 DEF Readable, Inodes, Byte, None
  <2>3. s \in Seq(Byte)
    BY DEF Chunk, Byte
  <2>4. PICK t \in Seq(Byte) : t = SubSeq(s, 1, c) /\ Len(t) = c /\ \A k \in 1..c : t[k] = s[k]
    <3>1. /\ SubSeq(s, 1, c) \in Seq(Byte) /\ Len(SubSeq(s, 1, c)) = c
          /\ \A k \in 1..c : SubSeq(s, 1, c)[k] = s[k]
      BY <1>8, <2>3, FirstOf
    <3> QED
      BY <3>1, Zenon
  <2>6. /\ Content[g] \o t \in Seq(Byte) /\ Len(Content[g] \o t) = off + c
        /\ \A k \in 1..off : (Content[g] \o t)[k] = Content[g][k]
        /\ \A k \in 1..c : (Content[g] \o t)[off + k] = t[k]
    <3>1. PICK u \in Seq(Byte) : u = Content[g] /\ Len(u) = off
      BY <2>1
    <3>2. /\ u \o t \in Seq(Byte) /\ Len(u \o t) = Len(u) + Len(t)
          /\ \A k \in 1..Len(u) : (u \o t)[k] = u[k]
          /\ \A k \in 1..Len(t) : (u \o t)[Len(u) + k] = t[k]
      BY Joined
    <3> QED
      BY <2>4, <3>1, <3>2, Zenon
  <2>7. ASSUME NEW k \in 1..(off + c)  PROVE Content'[g][k] = (Content[g] \o t)[k]
    <3>1. k - 1 \in Nat /\ (k <= off \/ off < k)
      OBVIOUS
    <3>2. CASE k <= off
      <4>1. ByteAt(g, k - 1)' = ByteAt(g, k - 1)
        BY <1>4, <1>12, <3>1, <3>2
      <4>2. k \in 1..off
        BY <3>2
      <4> QED
        BY <2>1, <2>2, <2>6, <4>1, <4>2, Zenon
    <3>3. CASE off < k
      <4>1. ByteAt(g, k - 1)' = s[k - 1 - off + 1]
        BY <1>13, <3>1, <3>3
      <4>2. PICK m \in 1..c : m = k - off /\ m = k - 1 - off + 1 /\ k = off + m
        BY <3>3
      <4>3. (Content[g] \o t)[k] = s[m]
        BY <2>4, <2>6, <4>2, Zenon
      <4> QED
        BY <2>2, <4>1, <4>2, <4>3, Zenon
    <3> QED
      BY <3>1, <3>2, <3>3
  <2> QED
    BY <2>2, <2>4, <2>6, <2>7, SameElements, ZenonT(60)
<1>15. ASSUME NEW f \in Inodes, f # g  PROVE Content'[f] = Content[f]
  <2>1. PICK n \in Nat : n = inode[f].size
    BY <1>1 DEF DataType, NodeType
  <2> QED
    BY <1>10, <1>11, <1>12, <1>15, <2>1, FileKept
<1>16. Content = [f \in Inodes |-> Content[f]] /\ Content' = [f \in Inodes |-> Content'[f]]
  BY <1>10 DEF Readable, Inodes
<1>17. Content' = [Content EXCEPT ![g] = Content[g] \o SubSeq(s, 1, c)]
  BY <1>14, <1>15, <1>16
<1> QED
  BY <1>4, <1>5, <1>9, <1>17

(* Cutting a file off keeps the bytes before the cut and every other file. *)
LEMMA CutContent ==
  ASSUME DataInv, DataInv', BytesOK, Kept, bytes' = bytes, NEW g \in Inodes, NEW off \in Nat,
         off <= inode[g].size, inode'[g].size = off,
         \A f \in Inodes \ {g} : inode'[f].size = inode[f].size
  PROVE  BytesOK' /\ Content' = [Content EXCEPT ![g] = SubSeq(@, 1, off)]
<1>1. DataType /\ DataType'
  BY DEF DataInv
<1>2. BytesOK'
  BY DEF BytesOK, Blocks, Byte, Inodes, None
<1>3. Readable /\ Readable'
  BY <1>2, ReadableNow, ReadableNext
<1>4. ASSUME NEW f \in Inodes, NEW o \in Nat, o < inode[f].size, o < inode'[f].size
      PROVE  ByteAt(f, o)' = ByteAt(f, o)
  <2>1. BlockAt(f, o)' = BlockAt(f, o)
    BY <1>1, <1>4, BlockKept
  <2> QED
    BY <2>1 DEF ByteAt
<1>5. ASSUME NEW f \in Inodes, f # g  PROVE Content'[f] = Content[f]
  <2>1. PICK n \in Nat : n = inode[f].size
    BY <1>1 DEF DataType, NodeType
  <2> QED
    BY <1>3, <1>4, <1>5, <2>1, FileKept
<1>6. Content'[g] = SubSeq(Content[g], 1, off)
  <2>1. PICK n \in Nat, u \in Seq(Byte) : n = inode[g].size /\ u = Content[g] /\ Len(u) = n
    BY <1>1, <1>3 DEF DataType, NodeType, Readable
  <2>2. \A k \in 1..n : u[k] = ByteAt(g, k - 1)
    BY <1>3, <2>1 DEF Readable
  <2>3. /\ Content'[g] \in Seq(Byte) /\ Len(Content'[g]) = off
        /\ \A k \in 1..off : Content'[g][k] = ByteAt(g, k - 1)'
    BY <1>3 DEF Readable, Inodes, Byte, None
  <2>4. PICK t \in Seq(Byte) : t = SubSeq(u, 1, off) /\ Len(t) = off /\ \A k \in 1..off : t[k] = u[k]
    <3>1. /\ SubSeq(u, 1, off) \in Seq(Byte) /\ Len(SubSeq(u, 1, off)) = off
          /\ \A k \in 1..off : SubSeq(u, 1, off)[k] = u[k]
      BY <2>1, FirstOf
    <3> QED
      BY <3>1, Zenon
  <2>5. ASSUME NEW k \in 1..off  PROVE Content'[g][k] = t[k]
    <3>1. k - 1 \in Nat /\ k - 1 < off /\ k - 1 < n /\ k \in 1..n
      BY <2>1
    <3>2. ByteAt(g, k - 1)' = ByteAt(g, k - 1)
      BY <1>4, <2>1, <3>1
    <3> QED
      BY <2>2, <2>3, <2>4, <3>1, <3>2
  <2>6. Content'[g] = t
    BY <2>3, <2>4, <2>5, SameElements
  <2> QED
    BY <2>1, <2>4, <2>6
<1>7. Content = [f \in Inodes |-> Content[f]] /\ Content' = [f \in Inodes |-> Content'[f]]
  BY <1>3 DEF Readable, Inodes
<1> QED
  BY <1>2, <1>5, <1>6, <1>7

(* The places of a byte of the second level in its index block and in the block
   that names it, both ways they are computed. *)
LEMMA TwoLevels ==
  ASSUME NEW i \in Nat, NEW j \in Nat, NEW o \in Nat, Covers("leaf2", i, j, o)
  PROVE  /\ level_end1 <= o
         /\ (o - level_end1) \div index_one_size = i
         /\ (o - (level_end1 + i * index_one_size)) \div BLOCK_SIZE = j
         /\ ((o - level_end1) % index_one_size) \div BLOCK_SIZE = j
<1> DEFINE B == BLOCK_SIZE
           L == index_one_size
<1>1. B \in Nat /\ B > 0 /\ L \in Nat /\ L > 0 /\ level_end1 \in Nat /\ L = PTRS * B
  BY Sizes, Levels
<1>2. /\ j < PTRS /\ level_end1 + i * L + j * B <= o /\ o < level_end1 + i * L + j * B + B
  BY Sizes DEF Covers, Valid, Entries, From
<1>3. j * B + B <= L /\ j * B \in Nat /\ i * L \in Nat
  BY <1>1, <1>2, Multiples, Sizes
<1> HIDE DEF B, L
<1>4. PICK x \in Nat, y \in Nat : x = i * L /\ y = j * B
  BY <1>3
<1>5. PICK r \in 0..(B - 1) : o = level_end1 + x + y + r
  <2>1. o - (level_end1 + x + y) \in 0..(B - 1) /\ o = level_end1 + x + y + (o - (level_end1 + x + y))
    BY <1>1, <1>2, <1>4
  <2> QED
    BY <2>1
<1>6. PICK z \in 0..(L - 1) : z = y + r
  BY <1>1, <1>3, <1>4, <1>5
<1>7. o - level_end1 = i * L + z /\ o - (level_end1 + i * L) = z /\ z = j * B + r /\ level_end1 <= o
  BY <1>1, <1>4, <1>5, <1>6
<1>8. (i * L + z) \div L = i /\ (i * L + z) % L = z
  BY <1>1, DivRem
<1>9. (j * B + r) \div B = j
  BY <1>1, DivRem
<1>10. z \div B = j
  BY <1>7, <1>9
<1> QED
  BY <1>7, <1>8, <1>10 DEF B, L

(* The block read_data() and remove_inode_from_dir() find for an offset is the
   block write_data() put it in. *)
LEMMA ReadAt ==
  ASSUME DataType, job = NoJob, NEW f \in Inodes, NEW o \in Nat, o < inode[f].size
  PROVE  ReadBlock(inode[f], o) = BlockAt(f, o) /\ HoleBlock(inode[f], o) = BlockAt(f, o)
<1>1. PICK kd \in DataKinds, i \in Nat, j \in Nat :
        Covers(kd, i, j, o) /\ BlockAt(f, o) = At(f, kd, i, j)
  BY AddressedNow DEF Addressed
<1>2. job.at = "idle"
  BY DEF NoJob
<1>3. /\ TableOne(f) = ptrs[inode[f].index[One]] /\ TableTwo(f) = ptrs[inode[f].index[Two]]
      /\ TableAt(f, i) = ptrs[TableTwo(f)[i]]
  BY <1>2 DEF TableOne, TableTwo, TableAt, Using
<1> DEFINE n == inode[f]
           a == o < level_end0
           c == level_end0 <= o /\ o < level_end1
           k1 == (o - level_end0) \div BLOCK_SIZE
           i2 == (o - level_end1) \div index_one_size
           j2 == (o - (level_end1 + i2 * index_one_size)) \div BLOCK_SIZE
           j3 == ((o - level_end1) % index_one_size) \div BLOCK_SIZE
<1>4. ReadBlock(n, o) = CASE a -> n.index[o \div BLOCK_SIZE]
                          [] c -> ptrs[n.index[One]][k1]
                          [] OTHER -> ptrs[ptrs[n.index[Two]][i2]][j2]
  BY Zenon DEF ReadBlock
<1>5. HoleBlock(n, o) = CASE a -> n.index[o \div BLOCK_SIZE]
                          [] c -> ptrs[n.index[One]][k1]
                          [] OTHER -> ptrs[ptrs[n.index[Two]][i2]][j3]
  BY Zenon DEF HoleBlock
<1>6. a => ~c
  BY Levels
<1>7. CASE kd = "direct"
  <2>1. o \div BLOCK_SIZE = i
    BY <1>1, <1>7, PlaceInBlock DEF Number
  <2>2. o < level_end0
    <3>1. From(kd, i, j) \in Nat /\ From(kd, i, j) + BLOCK_SIZE <= level_end0
      BY <1>1, <1>7, SlotRange DEF Covers, Kinds
    <3> QED
      BY <1>1, <3>1, Levels, Sizes DEF Covers
  <2>3. At(f, kd, i, j) = n.index[i]
    BY <1>7 DEF At
  <2>4. a
    BY <2>2
  <2> HIDE DEF n, a, c, k1, i2, j2, j3
  <2> QED
    BY <1>1, <1>4, <1>5, <1>6, <2>1, <2>3, <2>4, Zenon DEF n
<1>8. CASE kd = "leaf1"
  <2>1. From(kd, i, j) = level_end0 + i * BLOCK_SIZE
    BY <1>8 DEF From
  <2>2. level_end0 <= From(kd, i, j) /\ From(kd, i, j) + BLOCK_SIZE <= level_end1 /\ From(kd, i, j) \in Nat
    BY <1>1, <1>8, SlotRange DEF Covers, Kinds
  <2>3. level_end0 <= o /\ o < level_end1
    BY <1>1, <2>2, Levels, Sizes DEF Covers
  <2>4. k1 = i
    <3>1. PICK x \in Nat : x = i * BLOCK_SIZE
      BY Sizes
    <3>2. PICK r \in 0..(BLOCK_SIZE - 1) : o - level_end0 = x + r
      <4>1. From(kd, i, j) = level_end0 + x /\ From(kd, i, j) <= o /\ o < From(kd, i, j) + BLOCK_SIZE
        BY <1>1, <2>1, <3>1 DEF Covers
      <4>2. o - level_end0 - x \in 0..(BLOCK_SIZE - 1) /\ o - level_end0 = x + (o - level_end0 - x)
        BY <4>1, Levels, Sizes
      <4> QED
        BY <4>2
    <3>3. (i * BLOCK_SIZE + r) \div BLOCK_SIZE = i
      BY DivRem, Sizes
    <3> QED
      BY <3>1, <3>2, <3>3
  <2>5. At(f, kd, i, j) = ptrs[n.index[One]][i]
    BY <1>3, <1>8 DEF At
  <2>6. c
    BY <2>3
  <2> HIDE DEF n, a, c, k1, i2, j2, j3
  <2> QED
    BY <1>1, <1>4, <1>5, <1>6, <2>4, <2>5, <2>6, Zenon DEF n
<1>9. CASE kd = "leaf2"
  <2>1. level_end1 <= o /\ i2 = i /\ j2 = j /\ j3 = j
    BY <1>1, <1>9, TwoLevels
  <2>2. ~a /\ ~c
    BY <2>1, Levels
  <2>3. At(f, kd, i, j) = ptrs[ptrs[n.index[Two]][i]][j]
    BY <1>3, <1>9 DEF At
  <2> HIDE DEF n, a, c, k1, i2, j2, j3
  <2> QED
    BY <1>1, <1>4, <1>5, <2>1, <2>2, <2>3, Zenon DEF n
<1> QED
  BY <1>7, <1>8, <1>9 DEF DataKinds

(* A function on 1..m is a sequence. *)
LEMMA FunctionSeq ==
  ASSUME NEW S, NEW m \in Nat, NEW t \in [1..m -> S]
  PROVE  t \in Seq(S) /\ Len(t) = m
OBVIOUS

(* What read_data() returns is a part of the file. *)
LEMMA ReadContent ==
  ASSUME DataInv, BytesOK, job = NoJob, NEW f \in Inodes, NEW n \in Nat, n = inode[f].size,
         NEW off \in Nat, NEW len \in Nat, off <= n, NEW m \in Nat, m = Least(len, n - off)
  PROVE  \E t \in Seq(Byte) : /\ t = read_data(inode[f], off, len) /\ Len(t) = m
                              /\ \A k \in 1..m : t[k] = ByteAt(f, off + k - 1)
<1>1. DataType
  BY DEF DataInv
<1>2. off + m <= n
  BY DEF Least
<1>3. read_data(inode[f], off, len)
        = [k \in 1..m |-> bytes[ReadBlock(inode[f], off + k - 1)][(off + k - 1) % BLOCK_SIZE]]
  BY DEF read_data
<1>4. ASSUME NEW k \in 1..m
      PROVE  /\ bytes[ReadBlock(inode[f], off + k - 1)][(off + k - 1) % BLOCK_SIZE] = ByteAt(f, off + k - 1)
             /\ ByteAt(f, off + k - 1) \in Byte
  <2>1. PICK o \in Nat : o = off + k - 1 /\ o < n
    BY <1>2
  <2>2. ReadBlock(inode[f], o) = BlockAt(f, o)
    BY <1>1, <2>1, ReadAt
  <2>3. BlockAt(f, o) \in Blocks /\ o % BLOCK_SIZE \in 0..(BLOCK_SIZE - 1)
    BY <1>1, <2>1, BlockOnDisk DEF DataInv
  <2>4. bytes[ReadBlock(inode[f], o)][o % BLOCK_SIZE] = ByteAt(f, o) /\ ByteAt(f, o) \in Byte
    BY <2>2, <2>3 DEF ByteAt, BytesOK
  <2> QED
    BY <2>1, <2>4
<1>5. read_data(inode[f], off, len) = [k \in 1..m |-> ByteAt(f, off + k - 1)]
  BY <1>3, <1>4
<1>6. PICK t : t = read_data(inode[f], off, len)
  OBVIOUS
<1>7. t \in [1..m -> Byte] /\ \A k \in 1..m : t[k] = ByteAt(f, off + k - 1)
  BY <1>4, <1>5, <1>6
<1>8. t \in Seq(Byte) /\ Len(t) = m
  BY <1>7, FunctionSeq
<1> QED
  BY <1>6, <1>7, <1>8

(* fm_read() answers with the bytes of the file from the offset on. *)
LEMMA ReadsPart ==
  ASSUME DataInv, BytesOK, job = NoJob, NEW f \in Inodes,
         NEW off \in Nat, NEW len \in Nat, off <= inode[f].size
  PROVE  read_data(inode[f], off, len) = Bytewise!Part(Content[f], off, off + len)
<1>1. PICK n \in Nat : n = inode[f].size
  BY DEF DataInv, DataType, NodeType
<1>2. PICK m \in Nat : m = Least(len, n - off) /\ off + m <= n
  BY <1>1 DEF Least
<1>3. PICK t \in Seq(Byte) : /\ t = read_data(inode[f], off, len) /\ Len(t) = m
                             /\ \A k \in 1..m : t[k] = ByteAt(f, off + k - 1)
  BY <1>1, <1>2, ReadContent
<1>4. Readable
  BY ReadableNow
<1>5. PICK u \in Seq(Byte) : u = Content[f] /\ Len(u) = n /\ \A k \in 1..n : u[k] = ByteAt(f, k - 1)
  BY <1>1, <1>4 DEF Readable
<1>6. PICK a \in Nat, e \in Nat : a = off + 1 /\ e = off + m /\ e - a + 1 = m
  <2>1. off + 1 \in Nat /\ off + m \in Nat /\ (off + m) - (off + 1) + 1 = m
    BY SMTT(60)
  <2> QED
    BY <2>1
<1>7. Bytewise!Part(u, off, off + len) = SubSeq(u, a, e)
  <2>1. (IF off + len < n THEN off + len ELSE n) = e
    BY <1>1, <1>2, <1>6, SMTT(60) DEF Least
  <2> QED
    BY <1>5, <1>6, <2>1 DEF Bytewise!Part
<1>8. PICK w \in Seq(Byte) : w = SubSeq(u, a, e) /\ Len(w) = m /\ \A k \in 1..m : w[k] = u[a + k - 1]
  <2>1. a > 0 /\ a <= e + 1 /\ e <= Len(u)
    BY <1>2, <1>5, <1>6
  <2>2. /\ SubSeq(u, a, e) \in Seq(Byte) /\ Len(SubSeq(u, a, e)) = e - a + 1
        /\ \A k \in 1..(e - a + 1) : SubSeq(u, a, e)[k] = u[a + k - 1]
    BY <2>1, Piece
  <2> QED
    BY <1>6, <2>2, Zenon
<1>9. ASSUME NEW k \in 1..m  PROVE t[k] = w[k]
  <2>1. PICK q \in 1..n : q = a + k - 1 /\ q - 1 = off + k - 1
    <3>1. a + k - 1 \in 1..n /\ (a + k - 1) - 1 = off + k - 1
      BY <1>2, <1>6, SMTT(60)
    <3> QED
      BY <3>1, ZenonT(60)
  <2>2. w[k] = u[q]
    BY <1>8, <2>1
  <2>3. u[q] = ByteAt(f, off + k - 1)
    BY <1>5, <2>1
  <2> QED
    BY <1>3, <2>2, <2>3
<1>10. t = w
  BY <1>3, <1>8, <1>9, SameElements
<1> QED
  BY <1>3, <1>5, <1>7, <1>8, <1>10

(* An entry of a directory ends at the end of the directory at the latest. *)
LEMMA EntryInside ==
  ASSUME NEW size \in Nat, NEW pos \in Nat, (pos + 1) * ENTRY <= size
  PROVE  /\ pos * ENTRY \in Nat /\ pos * ENTRY + ENTRY <= size
         /\ ENTRY <= size /\ pos \in 0..(size \div ENTRY - 1)
<1> DEFINE q == size \div ENTRY
           r == size % ENTRY
<1>1. (pos + 1) * ENTRY = pos * ENTRY + ENTRY /\ pos * ENTRY \in Nat
  BY Sizes, Multiples
<1>2. q \in Nat /\ r \in 0..(ENTRY - 1) /\ size = q * ENTRY + r
  BY Division, Sizes
<1> HIDE DEF q, r
<1>3. q <= pos => q * ENTRY <= pos * ENTRY
  BY <1>2, Multiples, Sizes
<1>4. PICK x \in Nat, y \in Nat : x = pos * ENTRY /\ y = q * ENTRY
  BY <1>1, <1>2, Sizes
<1>5. x + ENTRY <= size /\ size = y + r /\ (q <= pos => y <= x)
  BY <1>1, <1>2, <1>3, <1>4
<1>6. ~(q <= pos)
  BY <1>2, <1>5, Sizes
<1>7. pos \in 0..(q - 1)
  BY <1>2, <1>6
<1>8. ENTRY <= size
  BY <1>5, Sizes
<1> QED
  BY <1>1, <1>4, <1>5, <1>7, <1>8 DEF q

(* The number of the entry a byte of a directory is in. *)
LEMMA EntryOf ==
  ASSUME NEW o \in Nat, NEW pos \in Nat
  PROVE  /\ o \div ENTRY = pos <=> pos * ENTRY <= o /\ o < pos * ENTRY + ENTRY
         /\ o \div ENTRY = pos => o % ENTRY = o - pos * ENTRY
<1> DEFINE q == o \div ENTRY
           r == o % ENTRY
<1>1. q \in Nat /\ r \in 0..(ENTRY - 1) /\ o = q * ENTRY + r
  BY Division, Sizes
<1> HIDE DEF q, r
<1>2. (q < pos => q * ENTRY + ENTRY <= pos * ENTRY) /\ (pos < q => pos * ENTRY + ENTRY <= q * ENTRY)
  BY <1>1, Multiples, Sizes
<1>3. PICK x \in Nat, y \in Nat : x = pos * ENTRY /\ y = q * ENTRY /\ (q = pos => x = y)
  BY <1>1, Sizes
<1>4. /\ o = y + r /\ (q < pos => y + ENTRY <= x) /\ (pos < q => x + ENTRY <= y)
      /\ ENTRY \in Nat /\ ENTRY > 0
  BY <1>1, <1>2, <1>3, Sizes
<1>5. q = pos <=> x <= o /\ o < x + ENTRY
  BY <1>1, <1>3, <1>4
<1>6. q = pos => r = o - x
  BY <1>1, <1>3, <1>4
<1> QED
  BY <1>3, <1>5, <1>6 DEF q, r

\* The bytes of entry pos of directory d that are in block b at place p.
Hit(d, pos, b, p) ==
  {k \in 1..ENTRY : BlockAt(d, pos * ENTRY + k - 1) = b /\ (pos * ENTRY + k - 1) % BLOCK_SIZE = p}

(* remove_inode_from_dir() on the disk: what was at the end of the directory is
   now in the hole. *)
LEMMA RemovedBytes ==
  ASSUME DataInv, BytesOK, NEW d \in Inodes, NEW pos \in Nat, RemoveEntry(d, pos),
         NEW n \in Nat, n = inode[d].size
  PROVE  /\ BytesOK'
         /\ \E t \in Seq(Byte) :
              /\ Len(t) = ENTRY /\ \A k \in 1..ENTRY : t[k] = ByteAt(d, n - ENTRY + k - 1)
              /\ \A b \in Blocks, p \in 0..(BLOCK_SIZE - 1) :
                   bytes'[b][p] = IF Hit(d, pos, b, p) # {}
                                  THEN t[CHOOSE k \in Hit(d, pos, b, p) : TRUE] ELSE bytes[b][p]
<1>1. DataType /\ job = NoJob
  BY DEF DataInv, RemoveEntry, Idle
<1>2. (pos + 1) * ENTRY <= n
  BY DEF RemoveEntry
<1>3. pos * ENTRY \in Nat /\ pos * ENTRY + ENTRY <= n /\ ENTRY <= n
  BY <1>2, EntryInside
<1>4. PICK off \in Nat : off = n - ENTRY /\ off <= n
  BY <1>3, Sizes
<1>5. PICK m \in Nat, len \in Nat : m = ENTRY /\ len = ENTRY /\ m = Least(len, n - off)
  BY <1>4, Sizes DEF Least
<1>6. PICK t \in Seq(Byte) : /\ t = read_data(inode[d], off, ENTRY) /\ Len(t) = ENTRY
                             /\ \A k \in 1..ENTRY : t[k] = ByteAt(d, off + k - 1)
  <2>1. off <= n /\ m = Least(len, n - off)
    BY <1>4, <1>5
  <2>2. \E t \in Seq(Byte) : /\ t = read_data(inode[d], off, len) /\ Len(t) = m
                              /\ \A k \in 1..m : t[k] = ByteAt(d, off + k - 1)
    BY <1>1, <2>1, ReadContent
  <2> QED
    BY <1>5, <2>2, Zenon
<1> DEFINE O == 0..(BLOCK_SIZE - 1)
           Hole(b, p) == {k \in 1..ENTRY : HoleBlock(inode[d], pos * ENTRY + k - 1) = b
                                             /\ (pos * ENTRY + k - 1) % BLOCK_SIZE = p}
<1>7. bytes' = [b \in Blocks |-> [p \in O |->
                  IF Hole(b, p) # {} THEN t[CHOOSE k \in Hole(b, p) : TRUE] ELSE bytes[b][p]]]
  BY <1>4, <1>6, SMTT(60) DEF RemoveEntry
<1>8. ASSUME NEW k \in 1..ENTRY
      PROVE  HoleBlock(inode[d], pos * ENTRY + k - 1) = BlockAt(d, pos * ENTRY + k - 1)
  <2>1. PICK x \in Nat : x = pos * ENTRY
    BY <1>3
  <2>2. PICK o \in Nat : o = pos * ENTRY + k - 1 /\ o < n
    <3>1. x + k - 1 \in Nat /\ x + k - 1 < n
      BY <1>3, <2>1, Sizes
    <3> QED
      BY <2>1, <3>1
  <2>3. HoleBlock(inode[d], o) = BlockAt(d, o)
    BY <1>1, <2>2, ReadAt
  <2> QED
    BY <2>2, <2>3
<1>9. \A b \in Blocks, p \in O : Hole(b, p) = Hit(d, pos, b, p)
  BY <1>8 DEF Hit
<1> HIDE DEF Hole
<1>10. ASSUME NEW b \in Blocks, NEW p \in O
       PROVE  /\ bytes'[b][p] = IF Hit(d, pos, b, p) # {}
                                THEN t[CHOOSE k \in Hit(d, pos, b, p) : TRUE] ELSE bytes[b][p]
              /\ bytes'[b][p] \in Byte
  <2>1. PICK K \in SUBSET (1..ENTRY) : K = Hit(d, pos, b, p)
    BY DEF Hit
  <2>2. K = Hole(b, p)
    BY <1>9, <2>1
  <2>3. bytes'[b][p] = IF K # {} THEN t[CHOOSE k \in K : TRUE] ELSE bytes[b][p]
    BY <1>7, <2>2
  <2>4. K # {} => (CHOOSE k \in K : TRUE) \in 1..ENTRY
    OBVIOUS
  <2>5. \A k \in 1..ENTRY : t[k] \in Byte
    BY <1>6
  <2>6. bytes[b][p] \in Byte
    BY DEF BytesOK
  <2> QED
    BY <2>1, <2>3, <2>4, <2>5, <2>6
<1>11. bytes' \in [Blocks -> [O -> Byte]]
  BY <1>7, <1>10
<1>12. BytesOK'
  BY <1>11 DEF BytesOK, Blocks, Byte, Inodes, None
<1>13. \A k \in 1..ENTRY : t[k] = ByteAt(d, n - ENTRY + k - 1)
  BY <1>4, <1>6
<1> QED
  BY ONLY <1>6, <1>10, <1>12, <1>13, ZenonT(60)

(* The bytes of the files after that. *)
LEMMA RemovedByte ==
  ASSUME DataInv, DataInv', BytesOK, Kept, NEW d \in Inodes, NEW pos \in Nat, RemoveEntry(d, pos),
         NEW n \in Nat, n = inode[d].size,
         NEW f \in Inodes, NEW o \in Nat, o < inode[f].size, o < inode'[f].size
  PROVE  ByteAt(f, o)' = IF f = d /\ o \div ENTRY = pos
                         THEN ByteAt(d, n - ENTRY + (o % ENTRY)) ELSE ByteAt(f, o)
<1>1. DataType /\ DataType' /\ Exact(BlockOf, block_bitmap)
  BY DEF DataInv
<1>2. PICK t \in Seq(Byte) :
        /\ Len(t) = ENTRY /\ \A k \in 1..ENTRY : t[k] = ByteAt(d, n - ENTRY + k - 1)
        /\ \A b \in Blocks, p \in 0..(BLOCK_SIZE - 1) :
             bytes'[b][p] = IF Hit(d, pos, b, p) # {}
                            THEN t[CHOOSE k \in Hit(d, pos, b, p) : TRUE] ELSE bytes[b][p]
  BY RemovedBytes, ZenonT(30)
<1>3. (pos + 1) * ENTRY <= n
  BY DEF RemoveEntry
<1>4. PICK x \in Nat : x = pos * ENTRY /\ x + ENTRY <= n /\ ENTRY <= n
  BY <1>3, EntryInside
<1>5. PICK b \in Blocks, p \in 0..(BLOCK_SIZE - 1) : b = BlockAt(f, o) /\ p = o % BLOCK_SIZE
  BY <1>1, BlockOnDisk
<1>6. BlockAt(f, o)' = b
  BY <1>1, <1>5, BlockKept
<1>7. ByteAt(f, o)' = bytes'[b][p] /\ ByteAt(f, o) = bytes[b][p]
  BY <1>5, <1>6 DEF ByteAt
<1>8. PICK K \in SUBSET (1..ENTRY) : K = Hit(d, pos, b, p)
  BY DEF Hit
<1>9. bytes'[b][p] = IF K # {} THEN t[CHOOSE k \in K : TRUE] ELSE bytes[b][p]
  BY <1>2, <1>8
<1>10. ASSUME NEW k \in K  PROVE f = d /\ o = x + k - 1
  <2>1. k \in 1..ENTRY /\ BlockAt(d, pos * ENTRY + k - 1) = b /\ (pos * ENTRY + k - 1) % BLOCK_SIZE = p
    BY <1>8 DEF Hit
  <2>2. PICK y \in Nat : y = x + k - 1 /\ y < n
    <3>1. x + k - 1 \in Nat /\ x + k - 1 < n
      BY <1>4, <2>1, Sizes
    <3> QED
      BY <3>1
  <2>3. BlockAt(d, y) = BlockAt(f, o) /\ y % BLOCK_SIZE = o % BLOCK_SIZE
    BY <1>4, <1>5, <2>1, <2>2
  <2>4. d = f /\ y = o
    BY <1>1, <2>2, <2>3, OneByte
  <2> QED
    BY <2>2, <2>4
<1>11. CASE f = d /\ o \div ENTRY = pos
  <2>1. x <= o /\ o < x + ENTRY /\ o % ENTRY = o - x
    BY <1>4, <1>11, EntryOf
  <2>2. PICK k \in 1..ENTRY : k = o - x + 1 /\ o = x + k - 1 /\ o % ENTRY = k - 1
    <3>1. o - x + 1 \in 1..ENTRY /\ o = x + (o - x + 1) - 1 /\ o % ENTRY = (o - x + 1) - 1
      BY <2>1, Sizes
    <3> QED
      BY <3>1
  <2>3. k \in K
    BY <1>4, <1>5, <1>8, <1>11, <2>2 DEF Hit
  <2>4. \A l \in K : l = k
    <3> TAKE l \in K
    <3>1. l \in 1..ENTRY /\ o = x + l - 1
      BY <1>10
    <3> QED
      BY <2>2, <3>1, Sizes
  <2>5. (CHOOSE l \in K : TRUE) = k
    BY <2>3, <2>4
  <2>6. bytes'[b][p] = t[k]
    BY <1>9, <2>3, <2>5
  <2>7. n - ENTRY + k - 1 = n - ENTRY + (o % ENTRY)
    BY <2>2, Sizes
  <2>8. t[k] = ByteAt(d, n - ENTRY + k - 1)
    BY <1>2
  <2> QED
    BY <1>7, <1>11, <2>6, <2>7, <2>8
<1>12. CASE ~(f = d /\ o \div ENTRY = pos)
  <2>1. K = {}
    <3> SUFFICES ASSUME NEW k \in K  PROVE FALSE
      OBVIOUS
    <3>1. f = d /\ o = x + k - 1 /\ k \in 1..ENTRY
      BY <1>10
    <3>2. x <= o /\ o < x + ENTRY
      BY <3>1, Sizes
    <3>3. o \div ENTRY = pos
      BY <1>4, <3>2, EntryOf
    <3> QED
      BY <1>12, <3>1, <3>3
  <2> QED
    BY <1>7, <1>9, <1>12, <2>1
<1> QED
  BY <1>11, <1>12

(* remove_inode_from_dir() moves the last entry over the one that is removed and
   touches no other byte of any file. *)
LEMMA RemoveContent ==
  ASSUME DataInv, DataInv', BytesOK, Kept, NEW d \in Inodes, NEW pos \in Nat, RemoveEntry(d, pos)
  PROVE  /\ BytesOK'
         /\ pos \in 0..(Len(Content[d]) \div ENTRY - 1)
         /\ Content' = [Content EXCEPT ![d] = Bytewise!Without(@, pos)]
<1>1. DataType /\ DataType'
  BY DEF DataInv
<1>2. PICK n \in Nat : n = inode[d].size
  BY <1>1 DEF DataType, NodeType
<1>3. (pos + 1) * ENTRY <= n
  BY <1>2 DEF RemoveEntry
<1>4. PICK m \in Nat : m = n - ENTRY /\ m + ENTRY = n
  <2>1. ENTRY <= n
    BY <1>3, EntryInside
  <2> QED
    BY <2>1, Sizes
<1>5. inode'[d].size = m /\ \A f \in Inodes \ {d} : inode'[f].size = inode[f].size
  <2>1. inode' = [inode EXCEPT ![d].size = m] /\ inode \in [Inodes -> NodeType]
    BY <1>1, <1>2, <1>4 DEF RemoveEntry, DataType
  <2> QED
    BY <2>1, NodeCut
<1>6. BytesOK'
  BY <1>2, RemovedBytes
<1>7. Readable /\ Readable'
  BY <1>6, ReadableNow, ReadableNext
<1>8. ASSUME NEW f \in Inodes, f # d  PROVE Content'[f] = Content[f]
  <2>1. PICK z \in Nat : z = inode[f].size /\ z = inode'[f].size
    BY <1>1, <1>5, <1>8 DEF DataType, NodeType
  <2>2. \A o \in Nat : o < z => ByteAt(f, o)' = ByteAt(f, o)
    <3> SUFFICES ASSUME NEW o \in Nat, o < z  PROVE ByteAt(f, o)' = ByteAt(f, o)
      OBVIOUS
    <3>1. o < inode[f].size /\ o < inode'[f].size
      BY <2>1
    <3>2. ByteAt(f, o)' = IF f = d /\ o \div ENTRY = pos
                          THEN ByteAt(d, n - ENTRY + (o % ENTRY)) ELSE ByteAt(f, o)
      BY <1>2, <3>1, RemovedByte
    <3> QED
      BY <1>8, <3>2
  <2> QED
    BY <1>7, <2>1, <2>2, FileKept
<1>9. PICK u \in Seq(Byte) : u = Content[d] /\ Len(u) = n /\ \A k \in 1..n : u[k] = ByteAt(d, k - 1)
  BY <1>2, <1>7 DEF Readable
<1>10. PICK w \in Seq(Byte) : w = Content'[d] /\ Len(w) = m /\ \A k \in 1..m : w[k] = ByteAt(d, k - 1)'
  BY <1>5, <1>7 DEF Readable, Inodes, Byte, None
<1>11. ASSUME NEW k \in 1..m
       PROVE  w[k] = IF (k - 1) \div ENTRY = pos THEN u[m + 1 + ((k - 1) % ENTRY)] ELSE u[k]
  <2>1. PICK o \in Nat : o = k - 1 /\ o < m /\ o < n /\ k \in 1..n
    BY <1>4, Sizes
  <2>2. w[k] = IF o \div ENTRY = pos THEN ByteAt(d, n - ENTRY + (o % ENTRY)) ELSE ByteAt(d, o)
    <3>1. ByteAt(d, o)' = IF d = d /\ o \div ENTRY = pos
                          THEN ByteAt(d, n - ENTRY + (o % ENTRY)) ELSE ByteAt(d, o)
      BY <1>2, <1>5, <2>1, RemovedByte
    <3>2. w[k] = ByteAt(d, o)'
      BY <1>10, <2>1
    <3> QED
      BY <3>1, <3>2
  <2>3. PICK r \in 0..(ENTRY - 1) : r = o % ENTRY
    BY Division, Sizes
  <2>4. PICK q \in 1..n : q = m + 1 + r /\ q - 1 = n - ENTRY + r
    <3>1. m + 1 + r \in 1..n /\ (m + 1 + r) - 1 = n - ENTRY + r
      BY <1>4, Sizes
    <3> QED
      BY <3>1
  <2>5. u[q] = ByteAt(d, n - ENTRY + r) /\ u[k] = ByteAt(d, o)
    BY <1>9, <2>1, <2>4
  <2> QED
    BY <2>1, <2>2, <2>3, <2>4, <2>5
<1>12. w = [k \in 1..m |-> IF (k - 1) \div ENTRY = pos THEN u[m + 1 + ((k - 1) % ENTRY)] ELSE u[k]]
  <2>1. w = [k \in 1..m |-> w[k]]
    BY <1>10
  <2> QED
    BY <1>11, <2>1
<1>13. w = Bytewise!Without(u, pos)
  <2>1. Len(u) - ENTRY = m
    BY <1>4, <1>9
  <2> QED
    BY <1>12, <2>1, Zenon DEF Bytewise!Without
<1>14. Content = [f \in Inodes |-> Content[f]] /\ Content' = [f \in Inodes |-> Content'[f]]
  BY <1>7 DEF Readable, Inodes
<1>15. Content' = [Content EXCEPT ![d] = w]
  BY <1>8, <1>10, <1>14
<1>16. pos \in 0..(n \div ENTRY - 1)
  BY <1>3, EntryInside
<1> QED
  BY <1>6, <1>9, <1>13, <1>15, <1>16

-----------------------------------------------------------------------------
(* Every step is a step of PlainFiles, or none. *)

\* The step keeps the bytes in order and is one that PlainFiles allows.
AsBytes == BytesOK' /\ [Bytewise!FNext]_(Bytewise!fvars)

(* A step that changes no byte, no size and nothing that is left to write. *)
LEMMA QuietStep ==
  ASSUME DataInv, DataInv', BytesOK, Kept, bytes' = bytes, answer' = answer,
         \A f \in Inodes : inode'[f].size = inode[f].size,
         job'.f = job.f, job'.offset = job.offset, job'.rest = job.rest
  PROVE  AsBytes
<1>1. BytesOK' /\ Content' = Content
  BY SameContent
<1>2. Left' = Left
  BY DEF Left
<1> QED
  BY <1>1, <1>2 DEF AsBytes, Bytewise!fvars

(* A level of the index is fetched. *)
LEMMA FetchedSizes ==
  ASSUME DataInv, job.at = "level", NEW k, NEW first, FetchIndex(k, first)
  PROVE  \A f \in Inodes : inode'[f].size = inode[f].size
<1>1. DataType /\ inode \in [Inodes -> NodeType]
  BY DEF DataInv, DataType
<1>2. PICK g \in Inodes : g = job.f
  BY DEF DataInv, JobOK
<1>3. CASE job.offset = first
  <2>1. GetFreeBlock /\ inode' = [inode EXCEPT ![g].index[k] = FreeBlock]
    BY <1>2, <1>3 DEF FetchIndex
  <2>2. PICK b \in Pointers : b = FreeBlock
    BY <1>1, <2>1, Handed
  <2>3. inode'[g].size = inode[g].size /\ \A f \in Inodes \ {g} : inode'[f] = inode[f]
    BY <1>1, <2>1, <2>2, NodePut
  <2> QED
    BY <2>3
<1>4. CASE job.offset # first
  BY <1>4 DEF FetchIndex
<1> QED
  BY <1>3, <1>4

(* Going into a level. *)
LEMMA EnterBytes ==
  ASSUME DataInv, BytesOK, EnterOne \/ EnterTwo
  PROVE  AsBytes
<1>1. DataInv' /\ Kept
  BY EnterOneStep, EnterTwoStep
<1>2. \A f \in Inodes : inode'[f].size = inode[f].size
  BY FetchedSizes DEF EnterOne, EnterTwo
<1>3. bytes' = bytes /\ answer' = answer
  BY DEF EnterOne, EnterTwo
<1>4. job'.f = job.f /\ job'.offset = job.offset /\ job'.rest = job.rest
  <2>1. job \in JobType
    BY DEF DataInv, DataType
  <2>2. PICK p \in {"one", "two"} : job' = [job EXCEPT !.at = p, !.flag1 = FALSE]
    BY DEF EnterOne, EnterTwo
  <2>3. job' = [f |-> job.f, offset |-> job.offset, rest |-> job.rest, i |-> job.i, at |-> p,
                flag1 |-> FALSE, flag2 |-> job.flag2]
    BY <2>1, <2>2, JobEntered
  <2> QED
    BY <2>3
<1> QED
  BY <1>1, <1>2, <1>3, <1>4, QuietStep

(* Going to an index block of the second level, and back out of a level. *)
LEMMA TableBytes ==
  ASSUME DataInv, BytesOK, EnterTable \/ LeaveOne \/ LeaveTable \/ LeaveTwo
  PROVE  AsBytes
<1>1. DataInv' /\ Kept
  BY EnterTableStep, LeaveOneStep, LeaveTableStep, LeaveTwoStep
<1>2. bytes' = bytes /\ inode' = inode /\ answer' = answer
  BY DEF EnterTable, LeaveOne, LeaveTable, LeaveTwo, Rest
<1>3. job'.f = job.f /\ job'.offset = job.offset /\ job'.rest = job.rest
  <2>1. job \in JobType
    BY DEF DataInv, DataType
  <2>2. CASE EnterTable
    BY <2>1, <2>2 DEF EnterTable, JobType
  <2>3. CASE LeaveOne \/ LeaveTable \/ LeaveTwo
    BY <2>1, <2>3 DEF LeaveOne, LeaveTable, LeaveTwo, JobType
  <2> QED
    BY <2>2, <2>3
<1> QED
  BY <1>1, <1>2, <1>3, QuietStep

(* The record of what is left to write, c bytes further. *)
LEMMA LeftFurther ==
  ASSUME NEW S, NEW T, NEW w \in [f : S, offset : Nat, rest : T], NEW c,
         NEW a, a = w.offset + c, NEW t, t = Bytewise!Part(w.rest, c, Len(w.rest))
  PROVE  [w EXCEPT !.offset = @ + c, !.rest = Bytewise!Part(@, c, Len(@))]
           = [f |-> w.f, offset |-> a, rest |-> t]
<1>1. ASSUME NEW x, NEW b, NEW u, x = [w EXCEPT !.offset = b, !.rest = u]
      PROVE  x = [f |-> w.f, offset |-> b, rest |-> u]
  BY <1>1
<1> QED
  BY <1>1, Zenon

(* A turn of a loop of write_data() is a piece of the write. *)
LEMMA TurnBytes ==
  ASSUME DataInv, BytesOK, WriteDirect \/ WriteOne \/ WriteTwo
  PROVE  AsBytes
<1>1. DataInv' /\ Kept /\ Turn /\ Stored
  BY WriteDirectStep, WriteOneStep, WriteTwoStep
<1>2. BytesOK' /\ Content' = [Content EXCEPT ![job.f] = @ \o SubSeq(job.rest, 1, cur_len)]
  BY <1>1, TurnContent
<1>3. answer' = answer
  BY DEF WriteDirect, WriteOne, WriteTwo, Rest
<1>4. DataType
  BY DEF DataInv
<1>5. PICK off \in Nat, s \in Chunk, c \in Nat : off = job.offset /\ s = job.rest /\ c = cur_len
  BY <1>1, <1>4, TurnLength DEF DataType, JobType, Turn
<1>6. c > 0 /\ c <= Len(s) /\ s # <<>>
  BY <1>1, <1>4, <1>5, TurnLength DEF Turn
<1>7. /\ job'.f = job.f /\ job'.offset = off + c /\ job'.rest = SubSeq(s, c + 1, Len(s))
  BY <1>1, <1>5 DEF Turn
<1>8. Left = [f |-> job.f, offset |-> off, rest |-> s]
  BY <1>5 DEF Left
<1>9. Left' = [f |-> job.f, offset |-> off + c, rest |-> SubSeq(s, c + 1, Len(s))]
  BY <1>7 DEF Left
<1>10. Left'.offset - Left.offset = c
  BY <1>8, <1>9
<1>11. Len(s) \in Nat
  BY DEF Chunk
<1>12. Bytewise!Part(s, 0, c) = SubSeq(s, 1, c) /\ Bytewise!Part(s, c, Len(s)) = SubSeq(s, c + 1, Len(s))
  <2>1. (IF c < Len(s) THEN c ELSE Len(s)) = c /\ (IF Len(s) < Len(s) THEN Len(s) ELSE Len(s)) = Len(s) /\ 0 + 1 = 1
    BY <1>6, <1>11
  <2> QED
    BY <2>1, Zenon DEF Bytewise!Part
<1>13. Content' = [Content EXCEPT ![Left.f] = @ \o Bytewise!Part(Left.rest, 0, c)]
  BY <1>2, <1>5, <1>8, <1>12
<1>14. Left' = [Left EXCEPT !.offset = @ + c, !.rest = Bytewise!Part(@, c, Len(@))]
  <2>1. PICK g \in Inodes \cup {0} : g = job.f
    BY <1>4 DEF DataType, JobType
  <2>2. PICK w \in [f : Inodes \cup {0}, offset : Nat, rest : Chunk] :
          w = Left /\ w.f = g /\ w.offset = off /\ w.rest = s
    BY <1>8, <2>1
  <2>3. PICK a, t : a = w.offset + c /\ t = Bytewise!Part(w.rest, c, Len(w.rest))
    OBVIOUS
  <2>4. [w EXCEPT !.offset = @ + c, !.rest = Bytewise!Part(@, c, Len(@))]
           = [f |-> w.f, offset |-> a, rest |-> t]
    BY <2>3, LeftFurther, ZenonT(60)
  <2>5. Left' = [f |-> w.f, offset |-> a, rest |-> t]
    BY <1>9, <1>12, <2>1, <2>2, <2>3
  <2> QED
    BY <2>2, <2>4, <2>5, Zenon
<1>15. Bytewise!Proceed
  <2>1. Left.rest # <<>>
    BY <1>6, <1>8
  <2> QED
    BY <1>3, <1>6, <1>10, <1>13, <1>14, <2>1 DEF Bytewise!Proceed
<1> QED
  BY <1>2, <1>15 DEF AsBytes, Bytewise!FNext

(* write_data() returns: the write is complete. *)
LEMMA DoneBytes ==
  ASSUME DataInv, BytesOK, Done
  PROVE  AsBytes
<1>1. DataInv' /\ Kept
  BY DoneStep
<1>2. bytes' = bytes /\ inode' = inode /\ answer' = answer /\ job' = NoJob /\ job.rest = <<>>
  BY DEF Done, Rest
<1>3. BytesOK' /\ Content' = Content
  BY <1>1, <1>2, SameContent
<1>4. Left' = Bytewise!NoWrite /\ Left.rest = <<>>
  BY <1>2 DEF Left, NoJob, Bytewise!NoWrite
<1>5. Bytewise!Complete \/ UNCHANGED Bytewise!fvars
  BY <1>2, <1>3, <1>4 DEF Bytewise!Complete, Bytewise!fvars
<1> QED
  BY <1>3, <1>5 DEF AsBytes, Bytewise!FNext

(* Nothing is being written between operations. *)
LEMMA IdleFiles ==
  ASSUME Idle
  PROVE  Left = Bytewise!NoWrite /\ answer = Bytewise!NoAnswer
BY DEF Idle, Left, NoJob, NoAnswer, Bytewise!NoWrite, Bytewise!NoAnswer

(* A write begins: the file is cut at the offset. *)
LEMMA StartBytes ==
  ASSUME GiveBackFrom >= level_end0, DataInv, BytesOK,
         NEW f \in Inodes, NEW off \in Nat, NEW len \in Nat, len > 0, NEW v \in Labels,
         StartWrite(f, off, Data(f, off, len, v))
  PROVE  AsBytes
<1>1. DataInv' /\ Kept
  BY StartWriteStep
<1>2. Idle /\ off <= inode[f].size /\ bytes' = bytes /\ answer' = answer
      /\ inode' = [inode EXCEPT ![f].size = off]
  BY DEF StartWrite
<1>3. inode'[f].size = off /\ \A g \in Inodes \ {f} : inode'[g].size = inode[g].size
  <2>1. inode \in [Inodes -> NodeType]
    BY DEF DataInv, DataType
  <2> QED
    BY <1>2, <2>1, NodeCut
<1>4. BytesOK' /\ Content' = [Content EXCEPT ![f] = SubSeq(@, 1, off)]
  BY <1>1, <1>2, <1>3, CutContent
<1>5. Left'.f = f /\ Left'.offset = off /\ Left'.rest # <<>>
  <2>1. PICK data \in Chunk : data = Data(f, off, len, v) /\ data # <<>>
    <3>1. Data(f, off, len, v) \in Chunk /\ Len(Data(f, off, len, v)) = len
      BY DEF Data, Chunk
    <3> QED
      BY <3>1 DEF Chunk
  <2>2. job' = [NoJob EXCEPT !.f = f, !.offset = off, !.rest = data, !.at = "level"]
    BY <2>1 DEF StartWrite
  <2>3. job' = [f |-> f, offset |-> off, rest |-> data, at |-> "level", i |-> 0,
                flag1 |-> FALSE, flag2 |-> FALSE]
    BY ONLY <2>2 DEF NoJob
  <2>4. job'.f = f /\ job'.offset = off /\ job'.rest = data
    BY ONLY <2>3
  <2> QED
    BY <2>1, <2>4 DEF Left
<1>6. Bytewise!Part(Content[f], 0, off) = SubSeq(Content[f], 1, off)
  <2>1. Readable
    BY ReadableNow
  <2>2. PICK n \in Nat : n = Len(Content[f]) /\ off <= n
    BY <1>2, <2>1 DEF Readable, DataInv, DataType, NodeType
  <2>3. (IF off < Len(Content[f]) THEN off ELSE Len(Content[f])) = off /\ 0 + 1 = 1
    BY <2>2
  <2> QED
    BY <2>3, Zenon DEF Bytewise!Part
<1>7. Content' = [Content EXCEPT ![Left'.f] = Bytewise!Part(@, 0, Left'.offset)]
  BY <1>4, <1>5, <1>6
<1>8. Bytewise!Write
  <2>1. Left = Bytewise!NoWrite /\ answer = Bytewise!NoAnswer
    BY <1>2, IdleFiles
  <2> QED
    BY <1>2, <1>5, <1>7, <2>1 DEF Bytewise!Write
<1> QED
  BY <1>4, <1>8 DEF AsBytes, Bytewise!FNext

(* fm_read() is a read of PlainFiles. *)
LEMMA ReadBytes ==
  ASSUME DataInv, BytesOK, NEW f \in Inodes, NEW off \in Nat, NEW len \in Nat, Read(f, off, len)
  PROVE  AsBytes
<1>1. DataInv' /\ Kept
  BY ReadData
<1>2. /\ Idle /\ off <= inode[f].size /\ bytes' = bytes /\ inode' = inode /\ job' = job
      /\ answer' = [f |-> f, offset |-> off, len |-> len, data |-> read_data(inode[f], off, len)]
  BY DEF Read
<1>3. BytesOK' /\ Content' = Content
  BY <1>1, <1>2, SameContent
<1>4. Left' = Left /\ Left = Bytewise!NoWrite /\ answer = Bytewise!NoAnswer
  BY <1>2, IdleFiles DEF Left
<1>5. read_data(inode[f], off, len) = Bytewise!Part(Content[f], off, off + len)
  BY <1>2, ReadsPart DEF Idle
<1>6. /\ answer'.f = f /\ answer'.offset = off /\ answer'.len = len
      /\ answer'.data = read_data(inode[f], off, len)
  BY <1>2
<1>7. Bytewise!Read
  BY <1>3, <1>4, <1>5, <1>6 DEF Bytewise!Read
<1> QED
  BY <1>3, <1>7 DEF AsBytes, Bytewise!FNext

(* The answer is delivered. *)
LEMMA AnswerBytes ==
  ASSUME DataInv, BytesOK, Answer
  PROVE  AsBytes
<1>1. DataInv' /\ Kept
  BY SameData DEF Answer
<1>2. bytes' = bytes /\ inode' = inode /\ job' = job /\ answer' = NoAnswer
  BY DEF Answer
<1>3. BytesOK' /\ Content' = Content
  BY <1>1, <1>2, SameContent
<1>4. Bytewise!Answer
  BY <1>2, <1>3 DEF Bytewise!Answer, Bytewise!NoAnswer, NoAnswer, Left
<1> QED
  BY <1>3, <1>4 DEF AsBytes, Bytewise!FNext

(* An entry is removed from a directory. *)
LEMMA RemoveBytes ==
  ASSUME GiveBackFrom >= level_end0, DataInv, BytesOK,
         NEW d \in Inodes, NEW pos \in Nat, RemoveEntry(d, pos)
  PROVE  AsBytes
<1>1. DataInv' /\ Kept
  BY RemoveEntryStep
<1>2. /\ BytesOK' /\ pos \in 0..(Len(Content[d]) \div ENTRY - 1)
      /\ Content' = [Content EXCEPT ![d] = Bytewise!Without(@, pos)]
  BY <1>1, RemoveContent
<1>3. Idle /\ job' = job /\ answer' = answer
  BY DEF RemoveEntry
<1>4. Left' = Left /\ Left = Bytewise!NoWrite /\ answer = Bytewise!NoAnswer
  BY <1>3, IdleFiles DEF Left
<1>5. Bytewise!Remove(d)
  BY <1>2, <1>3, <1>4 DEF Bytewise!Remove
<1> QED
  BY <1>2, <1>5 DEF AsBytes, Bytewise!FNext

(* Only an empty file is deleted while blocks below level_end0 are not given back. *)
LEMMA DeleteBytes ==
  ASSUME GiveBackFrom >= level_end0, DataInv, BytesOK, NEW f \in Inodes, Delete(f)
  PROVE  AsBytes
<1>1. DataInv' /\ Kept
  BY DeleteStep
<1>2. inode \in [Inodes -> NodeType] /\ inode[f].size \in Nat
  BY DEF DataInv, DataType, NodeType
<1>3. /\ inode' = [inode EXCEPT ![f].size = 0] /\ bytes' = bytes /\ job' = job /\ answer' = answer
      /\ (0 >= inode[f].size \/ 0 >= GiveBackFrom)
  BY DEF Delete, MayRelease
<1>4. inode[f].size = 0
  BY <1>2, <1>3, Levels, Sizes
<1>5. \A g \in Inodes : inode'[g].size = inode[g].size
  BY <1>2, <1>3, <1>4, NodeCut
<1> QED
  BY <1>1, <1>3, <1>5, QuietStep

(* On the empty disk every file is empty. *)
LEMMA BytesInit ==
  ASSUME DInit
  PROVE  BytesOK /\ Bytewise!FInit
<1>1. DataInv
  BY DataInit
<1>2. BytesOK
  BY DEF DInit, BytesOK, Byte
<1>3. Readable
  BY <1>1, <1>2, ReadableNow
<1>4. \A f \in Inodes : Content[f] = <<>>
  <2> TAKE f \in Inodes
  <2>1. inode[f].size = 0
    BY DEF DInit
  <2>2. PICK u \in Seq(Byte) : u = Content[f] /\ Len(u) = 0
    BY <1>3, <2>1 DEF Readable
  <2> QED
    BY <2>2
<1>5. Content = [f \in Inodes |-> <<>>]
  BY <1>3, <1>4 DEF Readable
<1>6. Left = Bytewise!NoWrite /\ answer = Bytewise!NoAnswer
  BY IdleFiles DEF DInit, Idle
<1> QED
  BY <1>2, <1>5, <1>6 DEF Bytewise!FInit

(* Every step of the file server is one of PlainFiles, or none. *)
LEMMA BytesStep ==
  ASSUME GiveBackFrom >= level_end0, DataInv, BytesOK, [DNext]_dvars
  PROVE  AsBytes
<1>1. Files \subseteq Inodes /\ Dirs \subseteq Inodes /\ Lens \subseteq Nat \ {0}
      /\ 0..MaxSize \subseteq Nat /\ 0..(MaxSize \div ENTRY) \subseteq Nat
  BY BlockAssumption DEF Inodes
<1>2. ASSUME NEW f \in Files, NEW off \in 0..MaxSize, NEW len \in Lens, Read(f, off, len)
      PROVE  AsBytes
  BY <1>1, <1>2, ReadBytes
<1>a. ASSUME NEW f \in Files, NEW off \in 0..MaxSize, NEW len \in Lens, ReadHalts(f, off, len)
      PROVE  AsBytes
  <2>1. UNCHANGED <<block_bitmap, block_bit_index, bytes, ptrs, inode, job, index_block1, index_block2, answer>>
    BY <1>a DEF ReadHalts
  <2>2. DataInv' /\ Kept
    BY <2>1, SameData
  <2> QED
    BY <2>1, <2>2, QuietStep
<1>3. ASSUME NEW f \in Files, NEW off \in 0..MaxSize, NEW len \in Lens, NEW v \in Labels,
             Write(f, off, len, v)
      PROVE  AsBytes
  <2>1. f \in Inodes /\ off \in Nat /\ len \in Nat /\ len > 0
    BY <1>1
  <2> QED
    BY <1>3, <2>1, StartBytes DEF Write
<1>4. ASSUME NEW d \in Dirs, NEW v \in Labels, AddEntry(d, v)
      PROVE  AsBytes
  <2>1. d \in Inodes
    BY <1>1
  <2>2. PICK off \in Nat : off = inode[d].size
    BY <2>1 DEF DataInv, DataType, NodeType
  <2>3. StartWrite(d, off, Data(d, off, ENTRY, v))
    BY <1>4, <2>2 DEF AddEntry
  <2> QED
    BY <2>1, <2>3, StartBytes, Sizes
<1>5. ASSUME NEW d \in Dirs, NEW pos \in 0..(MaxSize \div ENTRY), RemoveEntry(d, pos)
      PROVE  AsBytes
  BY <1>1, <1>5, RemoveBytes
<1>6. ASSUME NEW f \in Files, Delete(f)
      PROVE  AsBytes
  BY <1>1, <1>6, DeleteBytes
<1>7. CASE WriteDirect \/ WriteOne \/ WriteTwo
  BY <1>7, TurnBytes
<1>8. CASE EnterOne \/ EnterTwo
  BY <1>8, EnterBytes
<1>9. CASE EnterTable \/ LeaveOne \/ LeaveTable \/ LeaveTwo
  BY <1>9, TableBytes
<1>10. CASE Done
  BY <1>10, DoneBytes
<1>11. CASE Answer
  BY <1>11, AnswerBytes
<1>12. CASE UNCHANGED dvars
  <2>1. DataInv' /\ Kept
    BY <1>12, SameData DEF dvars
  <2> QED
    BY <1>12, <2>1, QuietStep DEF dvars
<1> QED
  BY <1>2, <1>a, <1>3, <1>4, <1>5, <1>6, <1>7, <1>8, <1>9, <1>10, <1>11, <1>12 DEF DNext

(* Through the blocks, the two levels of the index, the parts of it that are in
   memory and the bitmap, a file is the sequence of the bytes written to it: what
   write_data() stores piece by piece read_data() returns, an entry that
   remove_inode_from_dir() moves arrives whole, and no operation changes a byte of
   another file.  A read that goes beyond the end of a file in the second level and
   on to index[14] either stops the kernel in the RAM disk's assertion or leaves
   words in index_block1 that no later operation uses. *)
THEOREM FilesArePlain ==
  ASSUME GiveBackFrom >= level_end0
  PROVE  DSpec => ImplementsPlainFiles
<1>1. DInit => BytesOK /\ Bytewise!FInit
  BY BytesInit
<1>2. DataInv /\ BytesOK /\ [DNext]_dvars => BytesOK' /\ [Bytewise!FNext]_(Bytewise!fvars)
  BY BytesStep DEF AsBytes
<1>3. DSpec => []DataInv
  BY BlocksHold
<1> QED
  BY <1>1, <1>2, <1>3, PTL DEF DSpec, ImplementsPlainFiles, Bytewise!FSpec

=============================================================================
