----------------------------- MODULE FileServer -----------------------------
(***************************************************************************)
(* The file server (file_system/fm_syscall.c, fm_backstage.c): the         *)
(* descriptors of the processes, the open-file entries and vnodes behind   *)
(* them, and the directories.  It serves one message at a time, so a       *)
(* handler is one action.  Where the bytes of a file are kept is module    *)
(* FileData; how a message gets here is module System.                     *)
(*                                                                         *)
(* With Bounds = {} the handlers take every call the code takes.  The      *)
(* calls that it takes and gets wrong can be left out one kind at a time,  *)
(* by the operators under "Bounds on the callers".  An assert that fails,  *)
(* and a loop that turns for ever, stop the server: the action is not      *)
(* enabled.  A count at the address NULL, which close() and dup2() of a    *)
(* closed descriptor change, is a word of low memory outside the tables.   *)
(***************************************************************************)
EXTENDS Directories, Lists

CONSTANTS Procs,             \* the PCBs
          FD_NUM,            \* descriptors of a process: 100
          STD,               \* of them the terminal's at the start: 3
          KERNEL_INODE_NUM,  \* vnodes
          KERNEL_FILE_NUM,   \* open-file entries
          FilePaths,         \* bound: the paths of plain files ...
          DirPaths,          \* ... and of directories that are used
          Behind,            \* bound: strings behind the end of a path to delete
          Bounds,            \* what callers do not do: a subset of Kinds
          MaxSize,           \* bound: bytes of a file
          MaxOps             \* bound: calls

Kinds == {"open target", "leftovers", "in use"}

ASSUME FileAssumption ==
  /\ IsFiniteSet(Procs) /\ FD_NUM \in Nat \ {0} /\ STD \in 0..FD_NUM
  /\ KERNEL_INODE_NUM \in Nat /\ STD <= KERNEL_INODE_NUM /\ KERNEL_FILE_NUM \in Nat
  /\ FilePaths \cup DirPaths \subseteq [abs : BOOLEAN, names : Seq(STRING)]
  /\ Behind \subseteq Seq(STRING) /\ Bounds \subseteq Kinds

VARIABLES
  inode_bitmap, inode_bit_index,
  disk,                 \* per inode number: the inode on disk
  vnode,                \* per vnode: index, inode, count
  active_vnode_list, free_vnode_list,
  entry,                \* per open-file entry: offset, count, vnode
  free_open_file_list,
  live,                 \* the PCBs in use
  fd_table, min_fd, current_dir,
  ops                   \* calls so far

tables == <<inode_bitmap, inode_bit_index, disk, vnode, active_vnode_list,
            free_vnode_list, entry, free_open_file_list>>
svars  == <<tables, live, fd_table, min_fd, current_dir, ops>>

Fds    == 0..(FD_NUM - 1)
Vnodes == 1..KERNEL_INODE_NUM
Files  == 1..KERNEL_FILE_NUM
Terms  == 1..STD                  \* stdin_vnode, stdout_vnode, stderr_vnode
NULL   == 0

\* The tables of the server as one record, and what they become.
Now ==
  [inode_bitmap |-> inode_bitmap, inode_bit_index |-> inode_bit_index, disk |-> disk,
   vnode |-> vnode, active_vnode_list |-> active_vnode_list,
   free_vnode_list |-> free_vnode_list, entry |-> entry,
   free_open_file_list |-> free_open_file_list]

Become(s) ==
  /\ inode_bitmap' = s.inode_bitmap /\ inode_bit_index' = s.inode_bit_index
  /\ disk' = s.disk /\ vnode' = s.vnode
  /\ active_vnode_list' = s.active_vnode_list /\ free_vnode_list' = s.free_vnode_list
  /\ entry' = s.entry /\ free_open_file_list' = s.free_open_file_list
-----------------------------------------------------------------------------
(* Vnodes and open-file entries. *)

get_free_vnode(s, index, ino) ==
  LET v == Head(s.free_vnode_list)
  IN [s EXCEPT !.free_vnode_list = Tail(@), !.active_vnode_list = Append(@, v),
               !.vnode[v] = [index |-> index, inode |-> ino, count |-> 1]]

\* Mutant: the inode is not written back.
release_kernel_vnode_forgets(s, v) ==
  LET t == [s EXCEPT !.vnode[v].count = @ - 1]
  IN IF t.vnode[v].count # 0 THEN t
     ELSE [t EXCEPT !.active_vnode_list = Without(@, v), !.free_vnode_list = <<v>> \o @]

release_kernel_vnode(s, v) ==
  LET t == [s EXCEPT !.vnode[v].count = @ - 1]
  IN IF t.vnode[v].count # 0 THEN t
     ELSE [t EXCEPT !.disk[t.vnode[v].index] = t.vnode[v].inode,
                    !.active_vnode_list = Without(@, v), !.free_vnode_list = <<v>> \o @]

\* search_vnode_by_index(): the first of them, NULL if there is none.
Search(s, index) ==
  LET k == SelectInSeq(s.active_vnode_list, LAMBDA v : s.vnode[v].index = index)
  IN IF k = 0 THEN NULL ELSE s.active_vnode_list[k]

get_free_file_entry(s, v) ==
  LET e == Head(s.free_open_file_list)
  IN [s EXCEPT !.free_open_file_list = Tail(@), !.entry[e].count = 1, !.entry[e].vnode = v]

\* The entry at NULL is none of the table's.
release_file_entry(s, e) ==
  LET t == [s EXCEPT !.entry[e].count = @ - 1]
  IN IF e = NULL THEN s
     ELSE IF t.entry[e].count # 0 THEN t
     ELSE [release_kernel_vnode(t, t.entry[e].vnode) EXCEPT !.free_open_file_list = <<e>> \o @]
-----------------------------------------------------------------------------
(* Bounds on the callers. *)

Start(p, path) == IF path.abs THEN Root ELSE current_dir[p]

Index(p, path) == Lookup(Now, Start(p, path), path.names)

\* The directory the last name of a path is in.
Parent(p, path) == Lookup(Now, Start(p, path), Front(path.names))

Called == ops < MaxOps /\ ops' = ops + 1

IsOpen(p, fd) == p \in live /\ fd_table[p][fd] # NULL

\* A path is not led through a plain file.
Walkable(p, path) ==
  \A n \in 1..(Len(path.names) - 1) :
    LET d == Lookup(Now, Start(p, path), SubSeq(path.names, 1, n))
    IN d # NoInode => disk[d].type = "DIR"

\* Never more numbers are asked for than there are.
Room(path) == Cardinality(FreeInodes(Now)) >= Len(path.names)

\* What is removed is not open and nobody's current directory.
Unused(p, path) ==
  LET gone == Below(Now, Index(p, path))
  IN /\ \A v \in Range(active_vnode_list) \ Terms : vnode[v].index \notin gone
     /\ \A q \in live : current_dir[q] \notin gone

\* What the PCB c still has in its fd_table is overwritten by what its new
\* process gets there: exit_file() does not clear it.
Overwritten(c, fds) == \A fd \in Fds \ fds : fd_table[c][fd] = NULL

NotUsed(p, path)  == "in use" \in Bounds => Unused(p, path)
NotLeft(c, fds)   == "leftovers" \in Bounds => Overwritten(c, fds)
NotOpen(p, new)   == "open target" \in Bounds => fd_table[p][new] = NULL

\* The offset is inside the file, though another writer may have cut it.
Inside(e) == entry[e].offset <= Len(vnode[entry[e].vnode].inode.data)
-----------------------------------------------------------------------------
(* Calls of the processes. *)

\* The descriptor that fm_open() finds from min_fd on.
FreeFd(p) ==
  LET Turn(k) == (min_fd[p] + k) % FD_NUM
  IN Turn(Min({k \in Fds : fd_table[p][Turn(k)] = NULL}))

\* fm_open().  create is its flag 1.
Open(p, path, create) ==
  LET index == Index(p, path)
      found == IF index = NoInode THEN NULL ELSE Search(Now, index)
      v == IF found = NULL THEN Head(free_vnode_list) ELSE found
      s == IF found # NULL THEN [Now EXCEPT !.vnode[found].count = @ + 1]
           ELSE IF index # NoInode THEN get_free_vnode(Now, index, disk[index])
           ELSE LET t == CreateFile(Now, Start(p, path), path.names)
                IN get_free_vnode(t, t.inode_bit_index, Plain(<<>>))
      e == Head(free_open_file_list)
      fd == FreeFd(p)
  IN /\ Called /\ p \in live /\ path \in FilePaths /\ Walkable(p, path)
     /\ index # NoInode \/ (create /\ Room(path))
     /\ found # NULL \/ free_vnode_list # <<>>
     /\ free_open_file_list # <<>> /\ \E f \in Fds : fd_table[p][f] = NULL
     /\ Become([get_free_file_entry(s, v) EXCEPT !.entry[e].offset = 0])
     /\ fd_table' = [fd_table EXCEPT ![p][fd] = e]
     /\ min_fd' = [min_fd EXCEPT ![p] = (fd + 1) % FD_NUM]
     /\ UNCHANGED <<live, current_dir>>

\* fm_close(), of any descriptor.
Close(p, fd) ==
  /\ Called /\ p \in live
  /\ Become(release_file_entry(Now, fd_table[p][fd]))
  /\ fd_table' = [fd_table EXCEPT ![p][fd] = NULL]
  /\ min_fd' = [min_fd EXCEPT ![p] = IF @ > fd THEN fd ELSE @]
  /\ UNCHANGED <<live, current_dir>>

\* fm_read() of a byte: the offset advances if there is one.
Read(p, fd) ==
  LET e == fd_table[p][fd]
      ino == vnode[entry[e].vnode].inode
  IN /\ Called /\ IsOpen(p, fd) /\ ino.dev_id = 0
     /\ entry' = [entry EXCEPT ![e].offset = IF @ < Len(ino.data) THEN @ + 1 ELSE @]
     /\ UNCHANGED <<inode_bitmap, inode_bit_index, disk, vnode, active_vnode_list,
                    free_vnode_list, free_open_file_list, live, fd_table, min_fd, current_dir>>

\* fm_write() of a byte, which tells who wrote it: what is behind the offset is
\* cut off first.
Write(p, fd) ==
  LET e == fd_table[p][fd]
      v == entry[e].vnode
      new == Append(SubSeq(vnode[v].inode.data, 1, entry[e].offset), p)
  IN /\ Called /\ IsOpen(p, fd) /\ vnode[v].inode.dev_id = 0 /\ Inside(e)
     /\ Len(new) <= MaxSize
     /\ vnode' = [vnode EXCEPT ![v].inode.data = new]
     /\ entry' = [entry EXCEPT ![e].offset = Len(new)]
     /\ UNCHANGED <<inode_bitmap, inode_bit_index, disk, active_vnode_list,
                    free_vnode_list, free_open_file_list, live, fd_table, min_fd, current_dir>>

\* fm_lseek() to a place inside the file, whichever of SEEK_SET, SEEK_CUR and
\* SEEK_END it is counted by.
Lseek(p, fd, offset) ==
  LET e == fd_table[p][fd]
  IN /\ Called /\ IsOpen(p, fd) /\ offset <= Len(vnode[entry[e].vnode].inode.data)
     /\ entry' = [entry EXCEPT ![e].offset = offset]
     /\ UNCHANGED <<inode_bitmap, inode_bit_index, disk, vnode, active_vnode_list,
                    free_vnode_list, free_open_file_list, live, fd_table, min_fd, current_dir>>

\* fd_table[new] becomes fd_table[fd], whatever was there.
Share(p, fd, new) ==
  /\ Become([Now EXCEPT !.entry[fd_table[p][fd]].count = @ + 1])
  /\ fd_table' = [fd_table EXCEPT ![p][new] = fd_table[p][fd]]

\* fm_dup(): the descriptor is min_fd, open or not.
Dup(p, fd) ==
  /\ Called /\ IsOpen(p, fd) /\ NotOpen(p, min_fd[p])
  /\ Share(p, fd, min_fd[p])
  /\ \E f \in Fds \ {min_fd[p]} : fd_table[p][f] = NULL
  /\ min_fd' = [min_fd EXCEPT ![p] =
       LET Turn(k) == (@ + k) % FD_NUM
       IN Turn(Min({k \in Fds \ {0} : fd_table[p][Turn(k)] = NULL}))]
  /\ UNCHANGED <<live, current_dir>>

\* fm_dup2().  If new is open, it is fd that is released, and both end closed.
Dup2(p, fd, new) ==
  /\ Called /\ p \in live /\ NotOpen(p, new)
  /\ \/ fd_table[p][new] = NULL /\ fd_table[p][fd] # NULL /\ Share(p, fd, new)
     \/ fd_table[p][new] = NULL /\ fd_table[p][fd] = NULL /\ UNCHANGED <<tables, fd_table>>
     \/ /\ fd_table[p][new] # NULL
        /\ Become(release_file_entry(Now, fd_table[p][fd]))
        /\ fd_table' = [fd_table EXCEPT ![p][fd] = NULL, ![p][new] = NULL]
  /\ UNCHANGED <<live, min_fd, current_dir>>

\* fm_create()
Create(p, path) ==
  /\ Called /\ p \in live /\ path \in FilePaths /\ Walkable(p, path) /\ Index(p, path) = NoInode /\ Room(path)
  /\ Become(CreateFile(Now, Start(p, path), path.names))
  /\ UNCHANGED <<live, fd_table, min_fd, current_dir>>

\* fm_mkdir()
Mkdir(p, path) ==
  /\ Called /\ p \in live /\ path \in DirPaths /\ Walkable(p, path) /\ Index(p, path) = NoInode /\ Room(path)
  /\ Become(CreateDir(Now, Start(p, path), path.names).s)
  /\ UNCHANGED <<live, fd_table, min_fd, current_dir>>

\* fm_delete_file() and fm_rmdir(): neither removes the other's.  A name that is
\* not among the first CHUNK of its directory keeps the server for ever.
Remove_(p, path, type) ==
  /\ Called /\ p \in live /\ Walkable(p, path) /\ path.names # <<>>
  /\ Index(p, path) # NoInode /\ disk[Index(p, path)].type = type
  /\ Position(Now, Parent(p, path), Last(path.names)) <= CHUNK
  /\ NotUsed(p, path)
  /\ \E behind \in Behind :
       Become(Delete(Now, Parent(p, path), Last(path.names), type, behind))
  /\ UNCHANGED <<live, fd_table, min_fd, current_dir>>

DeleteFile(p, path) == path \in FilePaths /\ Remove_(p, path, "PLAIN")
Rmdir(p, path)      == path \in DirPaths /\ Remove_(p, path, "DIR")

\* fm_chdir()
Chdir(p, path) ==
  /\ Called /\ p \in live /\ Index(p, path) # NoInode /\ disk[Index(p, path)].type = "DIR"
  /\ current_dir' = [current_dir EXCEPT ![p] = Index(p, path)]
  /\ UNCHANGED <<tables, live, fd_table, min_fd>>
-----------------------------------------------------------------------------
(* Calls of the process manager. *)

\* init_fd_table(): a terminal behind each of the first descriptors.
init_fd_table(s) ==
  LET after[n \in 0..STD] ==
        IF n = 0 THEN s
        ELSE get_free_file_entry([after[n - 1] EXCEPT !.vnode[n].count = @ + 1], n)
  IN after[STD]

\* create_process(), once at the start and with the first of the PCBs.
CreateProcess(p) ==
  /\ Called /\ p = Min(Procs) /\ live = {} /\ ops = 0 /\ Len(free_open_file_list) >= STD
  /\ Become(init_fd_table(Now))
  /\ fd_table' = [fd_table EXCEPT ![p] =
                    [fd \in Fds |-> IF fd < STD THEN free_open_file_list[fd + 1] ELSE @[fd]]]
  /\ current_dir' = [current_dir EXCEPT ![p] = Root]
  /\ live' = {p} /\ UNCHANGED min_fd

\* Mutant: the entries are shared and not counted.
copy_fd_table_uncounted(s, fds) == s

\* copy_fd_table(): every descriptor of the table fds that is open counts once more.
copy_fd_table(s, fds) ==
  LET shared == [e \in Files |->
        [s.entry[e] EXCEPT !.count = @ + Cardinality({fd \in Fds : fds[fd] = e})]]
  IN [s EXCEPT !.entry = shared]

\* fm_exit_file() with the table fds.
exit_file(s, fds) ==
  LET after[n \in 0..FD_NUM] ==
        IF n = 0 THEN s
        ELSE IF fds[n - 1] = NULL THEN after[n - 1]
        ELSE release_file_entry(after[n - 1], fds[n - 1])
  IN after[FD_NUM]

\* What is closed in the parent stays in the child's PCB as it was left.
Fork(p, c) ==
  LET open == {fd \in Fds : fd_table[p][fd] # NULL}
  IN /\ Called /\ p \in live /\ c \notin live /\ NotLeft(c, open)
     /\ Become(copy_fd_table(Now, fd_table[p]))
     /\ fd_table' = [fd_table EXCEPT ![c] =
                       [fd \in Fds |-> IF fd \in open THEN fd_table[p][fd] ELSE @[fd]]]
     /\ current_dir' = [current_dir EXCEPT ![c] = current_dir[p]]
     /\ live' = live \cup {c} /\ UNCHANGED min_fd

\* exit() and fm_exit_file(): the pointers stay.
Exit(p) ==
  /\ Called /\ p \in live
  /\ Become(exit_file(Now, fd_table[p]))
  /\ live' = live \ {p}
  /\ UNCHANGED <<fd_table, min_fd, current_dir>>
-----------------------------------------------------------------------------
\* list_add_after() puts the last of an array first; init_file_format() takes
\* the terminals' vnodes, which keep the index 0.
SInit ==
  LET terms == [k \in 1..STD |-> k]
      others == [k \in 1..(KERNEL_INODE_NUM - STD) |-> STD + k]
  IN /\ inode_bitmap = {Root} /\ inode_bit_index = Root /\ disk = InitDisk
     /\ vnode = [v \in Vnodes |-> [index |-> Root, inode |-> [Plain(<<>>) EXCEPT !.dev_id =
                                     IF v \in Terms THEN 1 ELSE 0],
                                   count |-> IF v \in Terms THEN 1 ELSE 0]]
     /\ active_vnode_list = terms
     /\ free_vnode_list = Reverse(others)
     /\ entry = [e \in Files |-> [offset |-> 0, count |-> 0, vnode |-> NULL]]
     /\ free_open_file_list = Reverse([k \in 1..KERNEL_FILE_NUM |-> k])
     /\ live = {} /\ ops = 0
     /\ fd_table = [p \in Procs |-> [fd \in Fds |-> NULL]]
     /\ min_fd = [p \in Procs |-> 0] /\ current_dir = [p \in Procs |-> Root]

SNext ==
  \/ \E p \in Procs, path \in FilePaths :
       (\E create \in BOOLEAN : Open(p, path, create)) \/ Create(p, path) \/ DeleteFile(p, path)
  \/ \E p \in Procs, path \in DirPaths : Mkdir(p, path) \/ Rmdir(p, path) \/ Chdir(p, path)
  \/ \E p \in Procs, fd \in Fds :
       \/ Close(p, fd) \/ Read(p, fd) \/ Write(p, fd) \/ Dup(p, fd)
       \/ \E offset \in 0..MaxSize : Lseek(p, fd, offset)
       \/ \E new \in Fds : Dup2(p, fd, new)
  \/ \E p \in Procs : CreateProcess(p) \/ Exit(p) \/ \E c \in Procs : Fork(p, c)

SSpec == SInit /\ [][SNext]_svars
-----------------------------------------------------------------------------
(* Properties. *)

\* The descriptors of the running processes that lead to entry e.
Descriptors(e) == {x \in live \X Fds : fd_table[x[1]][x[2]] = e}
InUse          == {e \in Files : entry[e].count # 0}

(* Through opening, sharing by fork(), dup() and dup2(), closing (twice, too)
   and exiting in any number of processes, an entry is counted as often as
   descriptors lead to it and is free when none does; a vnode is counted as
   often as entries lead to it, the terminals' once more, and is free when none
   does.  Nothing in use is ever handed out again.  It holds as long as dup()
   and dup2() are called with a closed descriptor as their target ("open
   target") and the PCB of a child has no leftover descriptor that its parent
   has not ("leftovers"). *)
CountsExact ==
  /\ \A e \in Files : entry[e].count = Cardinality(Descriptors(e))
  /\ \A v \in Vnodes : vnode[v].count = Cardinality({e \in InUse : entry[e].vnode = v})
                                          + IF v \in Terms THEN 1 ELSE 0
  /\ \A e \in Files : Cardinality({k \in DOMAIN free_open_file_list : free_open_file_list[k] = e})
                        = IF e \in InUse THEN 0 ELSE 1
  /\ \A v \in Vnodes : LET both == active_vnode_list \o free_vnode_list
                       IN /\ Cardinality({k \in DOMAIN both : both[k] = v}) = 1
                          /\ v \in Range(free_vnode_list) <=> vnode[v].count = 0

\* The names below directory d, with where they are.
Named(d) == {x \in {[in |-> d, at |-> k, name |-> disk[d].data[k].name, index |-> disk[d].data[k].index] :
                      k \in DOMAIN disk[d].data} : x.name \notin {".", ".."}}
Dirs     == {i \in inode_bitmap : disk[i].type = "DIR"}
AllNames == UNION {Named(d) : d \in Dirs}

(* An open() that finds a descriptor finds an entry, too, while there are more
   entries than descriptors in use: what the assertion of
   get_free_file_entry() says. *)
EntryLeft ==
  Cardinality({x \in live \X Fds : IsOpen(x[1], x[2])}) < KERNEL_FILE_NUM
    => free_open_file_list # <<>>

(* The numbers marked in inode_bitmap are those of a tree: the root's, and every
   other one has exactly one name in one directory, no directory has a name twice,
   "." and ".." lead to itself and to the directory it is named in.  It holds
   as long as nothing is removed that is open or a current directory ("in
   use"), and no name stands behind the end of the path of delete_file() and
   rmdir(). *)
TreeSound ==
  /\ Root \in inode_bitmap
  /\ {x.index : x \in AllNames} = inode_bitmap \ {Root}
  /\ \A x, y \in AllNames : x.index = y.index \/ (x.in = y.in /\ x.name = y.name) => x = y
  /\ \A d \in Dirs : Find(Now, d, ".") = d
  /\ Find(Now, Root, "..") = Root
  /\ \A x \in AllNames : x.index \in Dirs => Find(Now, x.index, "..") = x.in

\* The inode of a file as it is now: in its vnode while it is open.
Current(i) ==
  LET V == {v \in Range(active_vnode_list) \ Terms : vnode[v].index = i}
  IN IF V = {} THEN disk[i] ELSE vnode[CHOOSE v \in V : TRUE].inode

OpenNumbers == {vnode[v].index : v \in Range(active_vnode_list) \ Terms}

At(tty, file, offset) == [tty |-> tty, file |-> file, offset |-> offset]

Abstract == INSTANCE OpenFiles
  WITH Std     <- 0..(STD - 1),
       Ids     <- Files,
       Numbers <- 1..(INODE_NUM - 1),
       names   <- inode_bitmap \ Dirs,
       content <- [i \in (inode_bitmap \ Dirs) \cup OpenNumbers |-> Current(i).data],
       open    <- [p \in Procs |-> [fd \in Fds |-> IF p \in live THEN fd_table[p][fd] ELSE NULL]],
       at      <- [e \in Files |->
                     LET v == entry[e].vnode
                     IN CASE entry[e].count = 0 -> At(0, 0, 0)
                          [] entry[e].count # 0 /\ v \in Terms -> At(v, 0, 0)
                          [] OTHER -> At(0, vnode[v].index, entry[e].offset)]

(* Whatever vnodes and entries are used and whatever is on disk or only in
   memory, a process finds the bytes last written to a file and the offsets it
   shares with others, as OpenFiles says: what one process closes, deletes or
   leaves open when it exits changes nothing for the others.  It holds within
   the same bounds. *)
ImplementsOpenFiles == Abstract!OSpec
=============================================================================
