---------------------------- MODULE Directories ----------------------------
(***************************************************************************)
(* Inode numbers and the tree of directories (file_system/fm_syscall.c,    *)
(* fm_backstage.c).  The operators take the inode_bitmap, inode_bit_index  *)
(* and disk of a record s and give s as the code leaves it; FileServer     *)
(* calls them.  What an inode leads to on disk is a sequence (module       *)
(* FileData): of directory entries, or of the bytes of a plain file.       *)
(*                                                                         *)
(* A path is a record: does it begin with "/", and the names in it.        *)
(***************************************************************************)
EXTENDS Integers, SequencesExt

CONSTANTS INODE_NUM,
          CHUNK       \* entries read at a time: BLOCK_SIZE / sizeof(dir_entry)

Root    == 0
NoInode == INODE_NUM

Plain(data) == [type |-> "PLAIN", dev_id |-> 0, data |-> data]
Dir(data)   == [type |-> "DIR", dev_id |-> 0, data |-> data]
Entry(name, index) == [name |-> name, index |-> index]

\* get_free_disk_inode() turns round for ever when no number is free.
FreeInodes(s) == (0..(INODE_NUM - 1)) \ s.inode_bitmap

FreeInode(s) ==
  LET Turn(k) == (s.inode_bit_index + k) % INODE_NUM
  IN Turn(Min({k \in 0..(INODE_NUM - 1) : Turn(k) \notin s.inode_bitmap}))

NewInode(s, ino) ==
  [s EXCEPT !.inode_bitmap = @ \cup {FreeInode(s)}, !.inode_bit_index = FreeInode(s),
            !.disk[FreeInode(s)] = ino]

\* read_dir_entry(): where name stands in the directory d, 0 if nowhere.  The
\* bytes of a plain file are not taken for entries.
Position(s, d, name) ==
  IF s.disk[d].type # "DIR" THEN 0
  ELSE SelectInSeq(s.disk[d].data, LAMBDA e : e.name = name)

Find(s, d, name) ==
  LET k == Position(s, d, name) IN IF k = 0 THEN NoInode ELSE s.disk[d].data[k].index

\* The loop over the names of a path, in read_inode(), _delete_file(),
\* fm_chdir() and fm_lsdir().
Lookup(s, d, names) ==
  LET at[k \in 0..Len(names)] ==
        IF k = 0 THEN d
        ELSE IF at[k - 1] = NoInode THEN NoInode ELSE Find(s, at[k - 1], names[k])
  IN at[Len(names)]

add_inode_into_dir(s, d, name, index) ==
  [s EXCEPT !.disk[d].data = Append(@, Entry(name, index))]

\* A new directory name in d.
MakeDir(s, d, name) ==
  LET k == FreeInode(s)
      new == NewInode(s, Dir(<<Entry(".", k), Entry("..", d)>>))
  IN add_inode_into_dir(new, d, name, k)

\* _create_dir(): go down from d, making the directories that are missing.
CreateDir(s, d, names) ==
  LET at[k \in 0..Len(names)] ==
        IF k = 0 THEN [s |-> s, dir |-> d]
        ELSE LET up == at[k - 1]
                 t  == IF Find(up.s, up.dir, names[k]) = NoInode
                       THEN MakeDir(up.s, up.dir, names[k]) ELSE up.s
             IN [s |-> t, dir |-> Find(t, up.dir, names[k])]
  IN at[Len(names)]

\* _create() of a name that does not exist.
CreateFile(s, d, names) ==
  LET at == CreateDir(s, d, Front(names))
      new == NewInode(at.s, Plain(<<>>))
  IN add_inode_into_dir(new, at.dir, Last(names), FreeInode(at.s))

\* _delete_dir_by_inode(): the inode numbers given back, of index and of all
\* that is below it.  A directory is never deeper than INODE_NUM.
Below(s, index) ==
  LET Names(d) == {e \in Range(s.disk[d].data) : e.name \notin {".", ".."}}
      Step(S) == S \cup UNION {{e.index : e \in Names(d)} : d \in {d \in S : s.disk[d].type = "DIR"}}
      down[n \in Nat] == IF n = 0 THEN {index} ELSE Step(down[n - 1])
  IN down[INODE_NUM]

\* Mutant: the last entry is dropped and not moved.
remove_inode_from_dir_drops(s, d, name) ==
  [s EXCEPT !.disk[d].data = Front(@)]

\* remove_inode_from_dir(): the last entry takes the place of name.
remove_inode_from_dir(s, d, name) ==
  [s EXCEPT !.disk[d].data = Front(ReplaceAt(@, Position(s, d, name), Last(@)))]

\* The end of _delete_file(), for a name in the directory d.
\* remove_inode_from_dir() never gets past the first CHUNK entries.
DeleteName(s, d, name) ==
  LET gone == Below(s, Find(s, d, name))
  IN remove_inode_from_dir([s EXCEPT !.inode_bitmap = @ \ gone], d, name)

Deletable(s, d, name, type) ==
  LET index == Find(s, d, name) IN index # NoInode /\ s.disk[index].type = type

\* _delete_file() from the last name of the path on.  It does not stop there:
\* what was deleted becomes cur_dir, and the strings behind the path's end are
\* deleted in it, until one of them is not found or not of the type.
Delete(s, d, name, type, behind) ==
  LET names == <<name>> \o behind
      at[k \in 0..Len(names)] ==
        IF k = 0 THEN [s |-> s, dir |-> d]
        ELSE LET now == at[k - 1]
             IN IF now.dir # NoInode /\ Deletable(now.s, now.dir, names[k], type)
                THEN [s |-> DeleteName(now.s, now.dir, names[k]),
                      dir |-> Find(now.s, now.dir, names[k])]
                ELSE [s |-> now.s, dir |-> NoInode]
  IN at[Len(names)].s

\* After init_file_format().
InitDisk ==
  [i \in 0..(INODE_NUM - 1) |->
     IF i = Root THEN Dir(<<Entry(".", Root), Entry("..", Root)>>) ELSE Plain(<<>>)]
=============================================================================
