------------------------------ MODULE FileData ------------------------------
(***************************************************************************)
(* Where the file server keeps the bytes of a file (file_system/           *)
(* fm_syscall.c, fm_backstage.c): DIRECT blocks named in the inode, PTRS   *)
(* more in an index block, PTRS * PTRS more behind a second-level index.   *)
(* read_data(), write_data(), release_block() and _remove_inode_from_dir() *)
(* each compute the place of an offset for themselves.                     *)
(*                                                                         *)
(* The file server does one operation at a time.  A write is one action    *)
(* per block and per index block fetched or written back; the others do    *)
(* not change the index and are one action.  A block is a number; what it  *)
(* holds as data and as an index block are two variables.  The third level *)
(* of the index is left out: by BlockAssumption the disk is full before a  *)
(* file needs it, as it is with the 4096 blocks of fm.h.                   *)
(***************************************************************************)
EXTENDS Integers, Sequences, FiniteSets

CONSTANTS BLOCK_SIZE,
          DIRECT,        \* blocks named in the inode: 12
          PTRS,          \* block numbers in an index block: BLOCK_SIZE / 4
          BLOCK_NUM,
          ENTRY,         \* sizeof(dir_entry)
          Files,         \* the inodes of plain files ...
          Dirs,          \* ... and of directories
          GiveBackFrom,  \* bound: the least offset from which blocks are given back
          Lens,          \* bound: lengths of writes and reads
          Labels,        \* bound: to tell the bytes of two writes apart
          Junk,          \* bound: the words found where index[14] leads
          MaxSize,       \* bound: bytes in a file
          MaxOps         \* bound: operations that change a file

ASSUME BlockAssumption ==
  /\ {BLOCK_SIZE, DIRECT, PTRS, BLOCK_NUM, ENTRY} \subseteq Nat \ {0}
  /\ BLOCK_NUM <= DIRECT + (1 + PTRS) + (1 + PTRS + PTRS * PTRS)
  /\ {GiveBackFrom, MaxSize, MaxOps} \subseteq Nat /\ Lens \subseteq Nat \ {0}
  /\ Files \cap Dirs = {} /\ Junk \subseteq 0..BLOCK_NUM

Inodes == Files \cup Dirs
Blocks == 0..(BLOCK_NUM - 1)
None   == BLOCK_NUM               \* never assigned

level_end0     == BLOCK_SIZE * DIRECT
index_one_size == BLOCK_SIZE * PTRS
level_end1     == level_end0 + index_one_size
level_end2     == level_end1 + PTRS * index_one_size

One == DIRECT                     \* index[12]
Two == DIRECT + 1                 \* index[13]

VARIABLES
  block_bitmap,     \* the blocks in use
  block_bit_index,  \* where get_free_block() looks first
  bytes,            \* per block: its bytes
  ptrs,             \* per block: the block numbers in it
  inode,            \* per inode: size and index
  job,              \* the write in progress
  index_block1,     \* the index block in memory, of the first level
  index_block2,     \* ... and of the second
  answer,           \* what a read returns
  halted,           \* an assertion of the RAM disk has failed
  ops               \* operations so far

dvars == <<block_bitmap, block_bit_index, bytes, ptrs, inode, job,
           index_block1, index_block2, answer, halted, ops>>

NoJob == [f |-> 0, offset |-> 0, rest |-> <<>>, at |-> "idle", i |-> 0,
          flag1 |-> FALSE, flag2 |-> FALSE]

NoAnswer == [f |-> 0, offset |-> 0, len |-> 0, data |-> <<>>]

Least(a, b) == IF a < b THEN a ELSE b
-----------------------------------------------------------------------------
(* Blocks. *)

\* get_free_block() turns round for ever when every block is in use.
FreeBlock ==
  LET Turn(k) == (block_bit_index + k) % BLOCK_NUM
      k0 == CHOOSE k \in Blocks : Turn(k) \notin block_bitmap
                                    /\ \A j \in 0..(k - 1) : Turn(j) \in block_bitmap
  IN Turn(k0)

GetFreeBlock ==
  /\ block_bitmap # Blocks
  /\ block_bitmap' = block_bitmap \cup {FreeBlock}
  /\ block_bit_index' = FreeBlock

When(c, S) == IF c THEN S ELSE {}

\* The blocks of the index of inode n whose part of the file begins at from or
\* later: in the first level, and in the second with its index blocks.
LevelOne(n, from) ==
  LET Start(i) == level_end0 + i * BLOCK_SIZE
  IN {ptrs[n.index[One]][i] : i \in {i \in 0..(PTRS - 1) : from <= Start(i) /\ Start(i) < n.size}}

LevelTwo(n, from) ==
  LET P == 0..(PTRS - 1)
      Start(i, j) == level_end1 + i * index_one_size + j * BLOCK_SIZE
      Gone(i, j) == from <= Start(i, j) /\ Start(i, j) < n.size
      Table(i) == ptrs[n.index[Two]][i]
  IN When(Gone(0, 0), {n.index[Two]})
       \cup {Table(i) : i \in {i \in P : Gone(i, 0)}}
       \cup UNION {{ptrs[Table(i)][j] : j \in {j \in P : Gone(i, j)}} : i \in P}

\* Mutant: index[12] itself is not given back.
ReleasedLeaks(n, off) ==
  LET from == IF off < level_end0 THEN level_end0 + BLOCK_SIZE ELSE off
  IN When(off < n.size, LevelOne(n, from) \cup LevelTwo(n, from))

\* release_block(): what begins at off or later.  Below level_end0 it goes
\* straight to index[12], whatever that is, and from there to the second block
\* of the first level.
Released(n, off) ==
  LET from == IF off < level_end0 THEN level_end0 + BLOCK_SIZE ELSE off
  IN When(off < n.size, When(off <= level_end0, {n.index[One]})
                          \cup LevelOne(n, from) \cup LevelTwo(n, from))

\* Blocks are given back only from GiveBackFrom on.
MayRelease(f, off) == off >= inode[f].size \/ off >= GiveBackFrom
-----------------------------------------------------------------------------
(* Writing: fm_write() and write_data(). *)

Idle    == job = NoJob /\ answer = NoAnswer /\ ~halted
Ino     == inode[job.f]
More(end) == job.rest # <<>> /\ job.offset < end
NewBlock == job.offset % BLOCK_SIZE = 0

Rest == <<index_block1, index_block2, answer, halted, ops>>

Begin == ops < MaxOps /\ ops' = ops + 1

\* Mutant: the size is not cut.
StartWriteKeeps(f, off, data) ==
  /\ Idle /\ off <= inode[f].size /\ MayRelease(f, off)
  /\ off + Len(data) <= MaxSize
  /\ block_bitmap' = block_bitmap \ Released(inode[f], off)
  /\ job' = [NoJob EXCEPT !.f = f, !.offset = off, !.rest = data, !.at = "level"]
  /\ Begin
  /\ UNCHANGED <<block_bit_index, bytes, ptrs, inode, index_block1, index_block2, answer, halted>>

\* fm_write(), add_inode_into_dir(): cut the file at off, then write_data().
StartWrite(f, off, data) ==
  /\ Idle /\ off <= inode[f].size /\ MayRelease(f, off)
  /\ off + Len(data) <= MaxSize
  /\ block_bitmap' = block_bitmap \ Released(inode[f], off)
  /\ inode' = [inode EXCEPT ![f].size = off]
  /\ job' = [NoJob EXCEPT !.f = f, !.offset = off, !.rest = data, !.at = "level"]
  /\ Begin
  /\ UNCHANGED <<block_bit_index, bytes, ptrs, index_block1, index_block2, answer, halted>>

Data(f, off, len, v) == [k \in 1..len |-> <<f, off + k - 1, v>>]

Write(f, off, len, v) == f \in Files /\ StartWrite(f, off, Data(f, off, len, v))

AddEntry(d, v) == StartWrite(d, inode[d].size, Data(d, inode[d].size, ENTRY, v))

\* One turn of an innermost loop: up to the end of the block go to block b.
in_block == job.offset % BLOCK_SIZE
cur_len  == Least(BLOCK_SIZE - in_block, Len(job.rest))

Store(b) ==
  bytes' = [bytes EXCEPT ![b] = [o \in 0..(BLOCK_SIZE - 1) |->
              IF o \in in_block..(in_block + cur_len - 1)
              THEN job.rest[o - in_block + 1] ELSE @[o]]]

Step(j) ==
  job' = [j EXCEPT !.offset = @ + cur_len, !.rest = SubSeq(@, cur_len + 1, Len(@))]

Grown(n) == [n EXCEPT !.size = @ + cur_len]

\* file_offset < level_end0
WriteDirect ==
  /\ job.at = "level" /\ More(level_end0)
  /\ LET k == job.offset \div BLOCK_SIZE
     IN IF NewBlock
        THEN /\ GetFreeBlock
             /\ inode' = [inode EXCEPT ![job.f] = [Grown(@) EXCEPT !.index[k] = FreeBlock]]
             /\ Store(FreeBlock)
        ELSE /\ inode' = [inode EXCEPT ![job.f] = Grown(@)]
             /\ Store(Ino.index[k])
             /\ UNCHANGED <<block_bitmap, block_bit_index>>
  /\ Step(job)
  /\ UNCHANGED <<ptrs, Rest>>

\* A new index block for index[k] at the beginning of its level, else the old
\* one is read.  index_block1 keeps what it held before.
FetchIndex(k, first) ==
  IF job.offset = first
  THEN /\ GetFreeBlock
       /\ inode' = [inode EXCEPT ![job.f].index[k] = FreeBlock]
       /\ UNCHANGED index_block1
  ELSE /\ index_block1' = ptrs[Ino.index[k]]
       /\ UNCHANGED <<block_bitmap, block_bit_index, inode>>

EnterOne ==
  /\ job.at = "level" /\ More(level_end1) /\ job.offset >= level_end0
  /\ FetchIndex(One, level_end0)
  /\ job' = [job EXCEPT !.at = "one", !.flag1 = FALSE]
  /\ UNCHANGED <<bytes, ptrs, index_block2, answer, halted, ops>>

WriteOne ==
  /\ job.at = "one" /\ More(level_end1)
  /\ LET i == (job.offset - level_end0) \div BLOCK_SIZE
     IN IF NewBlock
        THEN /\ GetFreeBlock
             /\ index_block1' = [index_block1 EXCEPT ![i] = FreeBlock]
             /\ Store(FreeBlock)
             /\ Step([job EXCEPT !.flag1 = TRUE])
        ELSE /\ Store(index_block1[i])
             /\ Step(job)
             /\ UNCHANGED <<block_bitmap, block_bit_index, index_block1>>
  /\ inode' = [inode EXCEPT ![job.f] = Grown(@)]
  /\ UNCHANGED <<ptrs, index_block2, answer, halted, ops>>

LeaveOne ==
  /\ job.at = "one" /\ ~More(level_end1)
  /\ ptrs' = IF job.flag1 THEN [ptrs EXCEPT ![Ino.index[One]] = index_block1] ELSE ptrs
  /\ job' = [job EXCEPT !.at = "level"]
  /\ UNCHANGED <<block_bitmap, block_bit_index, bytes, inode, Rest>>

EnterTwo ==
  /\ job.at = "level" /\ More(level_end2) /\ job.offset >= level_end1
  /\ FetchIndex(Two, level_end1)
  /\ job' = [job EXCEPT !.at = "two", !.flag1 = FALSE]
  /\ UNCHANGED <<bytes, ptrs, index_block2, answer, halted, ops>>

\* The index block that entry i of index_block1 leads to.
EnterTable ==
  /\ job.at = "two" /\ More(level_end2)
  /\ LET i == (job.offset - level_end1) \div index_one_size
         j == [job EXCEPT !.at = "table", !.i = i, !.flag2 = FALSE]
     IN IF job.offset = level_end1 + i * index_one_size
        THEN /\ GetFreeBlock
             /\ index_block1' = [index_block1 EXCEPT ![i] = FreeBlock]
             /\ job' = [j EXCEPT !.flag1 = TRUE]
             /\ UNCHANGED index_block2
        ELSE /\ index_block2' = ptrs[index_block1[i]]
             /\ job' = j
             /\ UNCHANGED <<block_bitmap, block_bit_index, index_block1>>
  /\ UNCHANGED <<bytes, ptrs, inode, answer, halted, ops>>

TableEnd == level_end1 + (job.i + 1) * index_one_size

WriteTwo ==
  /\ job.at = "table" /\ More(TableEnd)
  /\ LET k == (job.offset - level_end1 - job.i * index_one_size) \div BLOCK_SIZE
     IN IF NewBlock
        THEN /\ GetFreeBlock
             /\ index_block2' = [index_block2 EXCEPT ![k] = FreeBlock]
             /\ Store(FreeBlock)
             /\ Step([job EXCEPT !.flag2 = TRUE])
        ELSE /\ Store(index_block2[k])
             /\ Step(job)
             /\ UNCHANGED <<block_bitmap, block_bit_index, index_block2>>
  /\ inode' = [inode EXCEPT ![job.f] = Grown(@)]
  /\ UNCHANGED <<ptrs, index_block1, answer, halted, ops>>

LeaveTable ==
  /\ job.at = "table" /\ ~More(TableEnd)
  /\ ptrs' = IF job.flag2 THEN [ptrs EXCEPT ![index_block1[job.i]] = index_block2] ELSE ptrs
  /\ job' = [job EXCEPT !.at = "two"]
  /\ UNCHANGED <<block_bitmap, block_bit_index, bytes, inode, Rest>>

LeaveTwo ==
  /\ job.at = "two" /\ ~More(level_end2)
  /\ ptrs' = IF job.flag1 THEN [ptrs EXCEPT ![Ino.index[Two]] = index_block1] ELSE ptrs
  /\ job' = [job EXCEPT !.at = "level"]
  /\ UNCHANGED <<block_bitmap, block_bit_index, bytes, inode, Rest>>

\* write_data() returns.
Done ==
  /\ job.at = "level" /\ job.rest = <<>>
  /\ job' = NoJob
  /\ UNCHANGED <<block_bitmap, block_bit_index, bytes, ptrs, inode, Rest>>
-----------------------------------------------------------------------------
(* Reading, removing an entry from a directory, deleting a file. *)

\* read_data(): the block of offset o.
ReadBlock(n, o) ==
  CASE o < level_end0 -> n.index[o \div BLOCK_SIZE]
    [] level_end0 <= o /\ o < level_end1 -> ptrs[n.index[One]][(o - level_end0) \div BLOCK_SIZE]
    [] OTHER ->
         LET i == (o - level_end1) \div index_one_size
             temp_end == level_end1 + i * index_one_size
         IN ptrs[ptrs[n.index[Two]][i]][(o - temp_end) \div BLOCK_SIZE]

read_data(n, off, len) ==
  [k \in 1..Least(len, n.size - off) |->
     bytes[ReadBlock(n, off + k - 1)][(off + k - 1) % BLOCK_SIZE]]

\* A read that comes to the end of the file in the second level with bytes
\* still asked for goes on: read_data() tests file_offset > inode->size (line
\* 282) and reads index[14], which nobody has ever written, into index_block1.
PastEnd(n, off, len) == level_end1 < n.size /\ off < n.size /\ n.size < off + len

\* fm_read().  The index blocks that read_data() goes through are fetched into
\* index_block1 and index_block2, which a write fetches for itself; only the
\* words that index[14] leads to are kept here, as they can be anything.
Read(f, off, len) ==
  /\ Idle /\ off <= inode[f].size
  /\ answer' = [f |-> f, offset |-> off, len |-> len, data |-> read_data(inode[f], off, len)]
  /\ IF PastEnd(inode[f], off, len)
     THEN index_block1' \in [0..(PTRS - 1) -> Junk]
     ELSE UNCHANGED index_block1
  /\ UNCHANGED <<block_bitmap, block_bit_index, bytes, ptrs, inode, job, index_block2, halted, ops>>

\* read_ram(): what is in index[14] is no offset of the RAM disk.
ReadHalts(f, off, len) ==
  /\ Idle /\ PastEnd(inode[f], off, len)
  /\ halted' = TRUE
  /\ UNCHANGED <<block_bitmap, block_bit_index, bytes, ptrs, inode, job, index_block1, index_block2, answer, ops>>

Answer ==
  /\ answer # NoAnswer /\ answer' = NoAnswer
  /\ UNCHANGED <<block_bitmap, block_bit_index, bytes, ptrs, inode, job, index_block1, index_block2, halted, ops>>

\* _remove_inode_from_dir(): the block of offset o.
HoleBlock(n, o) ==
  CASE o < level_end0 -> n.index[o \div BLOCK_SIZE]
    [] level_end0 <= o /\ o < level_end1 -> ptrs[n.index[One]][(o - level_end0) \div BLOCK_SIZE]
    [] OTHER ->
         LET i == (o - level_end1) \div index_one_size
             j == ((o - level_end1) % index_one_size) \div BLOCK_SIZE
         IN ptrs[ptrs[n.index[Two]][i]][j]

\* remove_inode_from_dir() of entry number pos: the last entry is read, its
\* blocks given back and its bytes put into the hole.
RemoveEntry(d, pos) ==
  LET n == inode[d]
      last == read_data(n, n.size - ENTRY, ENTRY)
      Byte(b, o) == {k \in 1..ENTRY : LET x == pos * ENTRY + k - 1
                                      IN HoleBlock(n, x) = b /\ x % BLOCK_SIZE = o}
  IN /\ Idle /\ (pos + 1) * ENTRY <= n.size /\ MayRelease(d, n.size - ENTRY)
     /\ block_bitmap' = block_bitmap \ Released(n, n.size - ENTRY)
     /\ bytes' = [b \in Blocks |-> [o \in 0..(BLOCK_SIZE - 1) |->
                    IF Byte(b, o) # {} THEN last[CHOOSE k \in Byte(b, o) : TRUE] ELSE bytes[b][o]]]
     /\ inode' = [inode EXCEPT ![d].size = @ - ENTRY]
     /\ Begin
     /\ UNCHANGED <<block_bit_index, ptrs, job, index_block1, index_block2, answer, halted>>

\* _delete_file_by_inode(); the next file with the inode number is empty.
Delete(f) ==
  /\ Idle /\ MayRelease(f, 0)
  /\ block_bitmap' = block_bitmap \ Released(inode[f], 0)
  /\ inode' = [inode EXCEPT ![f].size = 0]
  /\ Begin
  /\ UNCHANGED <<block_bit_index, bytes, ptrs, job, index_block1, index_block2, answer, halted>>
-----------------------------------------------------------------------------
DInit ==
  /\ block_bitmap = {} /\ block_bit_index = 0
  /\ bytes = [b \in Blocks |-> [o \in 0..(BLOCK_SIZE - 1) |-> None]]
  /\ ptrs = [b \in Blocks |-> [i \in 0..(PTRS - 1) |-> None]]
  /\ inode = [f \in Inodes |-> [size |-> 0, index |-> [k \in 0..Two |-> None]]]
  /\ job = NoJob /\ answer = NoAnswer /\ halted = FALSE /\ ops = 0
  /\ index_block1 = [i \in 0..(PTRS - 1) |-> None]
  /\ index_block2 = [i \in 0..(PTRS - 1) |-> None]

DNext ==
  \/ \E f \in Files, off \in 0..MaxSize, len \in Lens :
       Read(f, off, len) \/ ReadHalts(f, off, len) \/ \E v \in Labels : Write(f, off, len, v)
  \/ \E d \in Dirs : (\E v \in Labels : AddEntry(d, v)) \/ \E pos \in 0..(MaxSize \div ENTRY) : RemoveEntry(d, pos)
  \/ \E f \in Files : Delete(f)
  \/ WriteDirect \/ EnterOne \/ WriteOne \/ LeaveOne
  \/ EnterTwo \/ EnterTable \/ WriteTwo \/ LeaveTable \/ LeaveTwo \/ Done \/ Answer

DSpec == DInit /\ [][DNext]_dvars
-----------------------------------------------------------------------------
(* Properties. *)

\* The index of f as a write in progress has it: partly still in memory.
Using(f, places) == job.f = f /\ job.at \in places
TableOne(f) == IF Using(f, {"one"}) THEN index_block1 ELSE ptrs[inode[f].index[One]]
TableTwo(f) == IF Using(f, {"two", "table"}) THEN index_block1 ELSE ptrs[inode[f].index[Two]]
TableAt(f, i) == IF Using(f, {"table"}) /\ i = job.i THEN index_block2 ELSE ptrs[TableTwo(f)[i]]

\* The blocks of f, each under the name of its place.
Parts(size, from, unit) == {k \in 0..size : from + k * unit < size}

DataBlocks(f) ==
  LET n == inode[f]
  IN [k \in Parts(n.size, 0, BLOCK_SIZE) |->
        CASE k < DIRECT -> n.index[k]
          [] DIRECT <= k /\ k < DIRECT + PTRS -> TableOne(f)[k - DIRECT]
          [] OTHER -> TableAt(f, (k - DIRECT - PTRS) \div PTRS)[(k - DIRECT - PTRS) % PTRS]]

IndexBlocks(f) ==
  LET n == inode[f]
  IN When(n.size > level_end0, {<<One, n.index[One]>>})
       \cup When(n.size > level_end1, {<<Two, n.index[Two]>>})
       \cup {<<Two + 1 + i, TableTwo(f)[i]>> : i \in Parts(n.size, level_end1, index_one_size)}

(* Between operations the blocks marked in block_bitmap are exactly those the
   indexes of the files lead to, and no block is in two places: not in two
   files, not twice in one, not as data and as an index block. *)
Places == UNION {{<<f, "data", k, DataBlocks(f)[k]>> : k \in DOMAIN DataBlocks(f)}
                   \cup {<<f, "index", x[1], x[2]>> : x \in IndexBlocks(f)} : f \in Inodes}

BlocksAccounted ==
  Idle => /\ {x[4] : x \in Places} = block_bitmap
          /\ \A x, y \in Places : x[4] = y[4] => x = y

\* The bytes of the files, and the write in progress, as PlainFiles has them.
Content == [f \in Inodes |-> [k \in 1..inode[f].size |->
              bytes[DataBlocks(f)[(k - 1) \div BLOCK_SIZE]][(k - 1) % BLOCK_SIZE]]]
Left    == [f |-> job.f, offset |-> job.offset, rest |-> job.rest]

Bytewise == INSTANCE PlainFiles WITH Files <- Inodes, content <- Content, left <- Left

(* Through the blocks, the index blocks on disk and in memory and the bitmap, a
   file is the sequence of bytes that was written to it, as PlainFiles says. *)
ImplementsPlainFiles == Bytewise!FSpec

(* The assertions of read_ram() and write_ram() hold: the file server asks the
   RAM disk only for places that are on it. *)
OnTheDisk == ~halted
=============================================================================
