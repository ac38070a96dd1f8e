-------------------------- MODULE FileServerProofs --------------------------
(***************************************************************************)
(* The reference counts of module FileServer, proved for any number of     *)
(* processes, descriptors, open-file entries and vnodes.                   *)
(*                                                                         *)
(* fm_exit_file() releases the descriptors of a process one by one, so     *)
(* the invariant is stated for any set D of descriptors that count: an     *)
(* entry is counted by the descriptors in D that lead to it (EntriesOK),   *)
(* a vnode by the entries in use that lead to it (VnodesOK).  Every        *)
(* handler takes descriptors into D or out of it, one at a time or, in     *)
(* fork(), all of a process at once.                                       *)
(***************************************************************************)
EXTENDS FileServer, ListsProofs

-----------------------------------------------------------------------------
(* The invariant. *)

\* The record of the tables, an entry and a vnode have their fields.
IsTables(s) ==
  s = [inode_bitmap |-> s.inode_bitmap, inode_bit_index |-> s.inode_bit_index, disk |-> s.disk,
       vnode |-> s.vnode, active_vnode_list |-> s.active_vnode_list,
       free_vnode_list |-> s.free_vnode_list, entry |-> s.entry,
       free_open_file_list |-> s.free_open_file_list]

AreEntries(en) ==
  /\ en = [e \in Files |-> en[e]]
  /\ \A e \in Files : /\ en[e] = [offset |-> en[e].offset, count |-> en[e].count,
                                  vnode |-> en[e].vnode]
                      /\ en[e].count \in Nat

AreVnodes(vn) ==
  /\ vn = [v \in Vnodes |-> vn[v]]
  /\ \A v \in Vnodes : /\ vn[v] = [index |-> vn[v].index, inode |-> vn[v].inode,
                                   count |-> vn[v].count]
                       /\ vn[v].count \in Nat

\* The descriptors of D that lead to e, the entries in use that lead to v.
Leads(tab, D, e) == {x \in D : tab[x[1]][x[2]] = e}
Holders(en, v)   == {e \in Files : en[e].count # 0 /\ en[e].vnode = v}

Extra(v) == IF v \in Terms THEN 1 ELSE 0

\* The elements of S for which P holds are on the list l, once each.
Listed(l, S, P) == l \in Seq(S) /\ Distinct(l) /\ \A x \in S : On(l, x) <=> x \in P

EntriesOK(en, fl, tab, D) ==
  /\ AreEntries(en)
  /\ \A e \in Files : /\ en[e].count = Cardinality(Leads(tab, D, e))
                      /\ en[e].count # 0 => en[e].vnode \in Vnodes
  /\ Listed(fl, Files, {e \in Files : en[e].count = 0})

VnodesOK(vn, en, av, fv) ==
  /\ AreVnodes(vn)
  /\ \A v \in Vnodes : vn[v].count = Cardinality(Holders(en, v)) + Extra(v)
  /\ Listed(av, Vnodes, {v \in Vnodes : vn[v].count # 0})
  /\ Listed(fv, Vnodes, {v \in Vnodes : vn[v].count = 0})

Counts(s, tab, D) ==
  /\ IsTables(s)
  /\ EntriesOK(s.entry, s.free_open_file_list, tab, D)
  /\ VnodesOK(s.vnode, s.entry, s.active_vnode_list, s.free_vnode_list)

Descriptor == Procs \X Fds
IsTable(tab) == tab \in [Procs -> [Fds -> Files \cup {NULL}]]

\* What the callers keep to for the counts' sake.
Careful == {"open target", "leftovers"} \subseteq Bounds

CountsInv ==
  /\ live \in SUBSET Procs /\ ops \in Nat
  /\ IsTable(fd_table) /\ min_fd \in [Procs -> Fds]
  /\ Counts(Now, fd_table, live \X Fds)
  /\ ops = 0 => live = {} /\ \A p \in Procs, fd \in Fds : fd_table[p][fd] = NULL

-----------------------------------------------------------------------------
(* Sets of descriptors and of entries. *)

(* There are finitely many of each. *)
LEMMA Finitely ==
  ASSUME NEW tab, NEW D \in SUBSET Descriptor, NEW e, NEW en, NEW v
  PROVE  /\ IsFiniteSet(Fds) /\ IsFiniteSet(D) /\ IsFiniteSet(Leads(tab, D, e))
         /\ IsFiniteSet(Holders(en, v))
         /\ Cardinality(Leads(tab, D, e)) \in Nat /\ Cardinality(Holders(en, v)) \in Nat
<1>1. 0 \in Int /\ 1 \in Int /\ FD_NUM - 1 \in Int /\ KERNEL_FILE_NUM \in Int
  BY FileAssumption
<1>2. IsFiniteSet(Fds)
  BY <1>1, FS_Interval DEF Fds
<1>3. IsFiniteSet(Files)
  BY <1>1, FS_Interval DEF Files
<1>4. IsFiniteSet(Descriptor)
  BY <1>2, FileAssumption, FS_Product DEF Descriptor
<1>5. IsFiniteSet(D)
  BY <1>4, FS_Subset
<1>6. IsFiniteSet(Leads(tab, D, e))
  BY <1>5, FS_Subset DEF Leads
<1>7. IsFiniteSet(Holders(en, v))
  BY <1>3, FS_Subset DEF Holders
<1> QED
  BY <1>2, <1>5, <1>6, <1>7, FS_CardinalityType

(* One element less. *)
LEMMA OneLess ==
  ASSUME NEW S, IsFiniteSet(S), NEW x \in S
  PROVE  /\ Cardinality(S) \in Nat /\ Cardinality(S) # 0
         /\ Cardinality(S \ {x}) = Cardinality(S) - 1
BY FS_RemoveElement, FS_CardinalityType, FS_EmptySet

(* One element more. *)
LEMMA OneMore ==
  ASSUME NEW S, IsFiniteSet(S), NEW x, x \notin S
  PROVE  Cardinality(S \cup {x}) = Cardinality(S) + 1 /\ Cardinality(S) \in Nat
BY FS_AddElement, FS_CardinalityType

(* A list with an element put in front. *)
LEMMA PutFirst ==
  ASSUME NEW S, NEW l, NEW P, NEW x \in S, Listed(l, S, P), x \notin P
  PROVE  Listed(<<x>> \o l, S, P \cup {x})
<1> DEFINE r == <<x>> \o l
<1>1. l \in Seq(S) /\ Distinct(l) /\ ~On(l, x)
  BY DEF Listed
<1>2. Len(l) \in Nat /\ r \in Seq(S) /\ Len(r) = Len(l) + 1 /\ r[1] = x
  BY <1>1
<1>3. \A i \in 2..Len(r) : r[i] = l[i - 1] /\ i - 1 \in 1..Len(l)
  BY <1>1, <1>2
<1>4. \A i \in 1..Len(l) : l[i] = r[i + 1] /\ i + 1 \in 1..Len(r)
  BY <1>1, <1>2
<1>5. \A i \in 2..Len(r) : r[i] # x
  BY <1>1, <1>3 DEF On
<1>6. Distinct(r)
  <2> SUFFICES ASSUME NEW i \in 1..Len(r), NEW j \in 1..Len(r), r[i] = r[j]
               PROVE  i = j
    BY DEF Distinct
  <2>1. CASE i = 1 \/ j = 1
    BY <2>1, <1>2, <1>5
  <2>2. CASE i # 1 /\ j # 1
    <3>1. i \in 2..Len(r) /\ j \in 2..Len(r)
      BY <2>2, <1>2
    <3>2. i - 1 = j - 1
      BY <3>1, <1>1, <1>3 DEF Distinct
    <3> QED
      BY <3>1, <3>2
  <2> QED
    BY <2>1, <2>2
<1>7. \A y \in S : On(r, y) <=> y \in P \cup {x}
  <2> TAKE y \in S
  <2>1. ASSUME On(r, y) PROVE y \in P \cup {x}
    <3>1. PICK i \in 1..Len(r) : r[i] = y
      BY <2>1 DEF On
    <3>2. CASE i = 1
      BY <3>1, <3>2, <1>2
    <3>3. CASE i # 1
      <4>1. i \in 2..Len(r)
        BY <3>3, <1>2
      <4>2. On(l, y)
        BY <4>1, <1>3, <3>1 DEF On
      <4> QED
        BY <4>2 DEF Listed
    <3> QED
      BY <3>2, <3>3
  <2>2. ASSUME y \in P PROVE On(r, y)
    <3>1. PICK i \in 1..Len(l) : l[i] = y
      BY <2>2 DEF Listed, On
    <3> QED
      BY <3>1, <1>4 DEF On
  <2>3. On(r, x)
    BY <1>2 DEF On
  <2> QED
    BY <2>1, <2>2, <2>3
<1> QED
  BY <1>2, <1>6, <1>7 DEF Listed

(* A list with an element put behind. *)
LEMMA PutLast ==
  ASSUME NEW S, NEW l, NEW P, NEW x \in S, Listed(l, S, P), x \notin P
  PROVE  Listed(Append(l, x), S, P \cup {x})
<1>1. l \in Seq(S) /\ Distinct(l) /\ ~On(l, x)
  BY DEF Listed
<1>2. /\ Append(l, x) \in Seq(S) /\ Distinct(Append(l, x))
      /\ \A y : On(Append(l, x), y) <=> On(l, y) \/ y = x
  BY <1>1, AppendOn
<1> QED
  BY <1>2 DEF Listed

(* A list without its first element. *)
LEMMA TakeFirst ==
  ASSUME NEW S, NEW l, NEW P, Listed(l, S, P), l # <<>>
  PROVE  Head(l) \in S /\ Head(l) \in P /\ Listed(Tail(l), S, P \ {Head(l)})
<1>1. l \in Seq(S) /\ Distinct(l)
  BY DEF Listed
<1>2. /\ Tail(l) \in Seq(S) /\ Distinct(Tail(l))
      /\ Head(l) \in S /\ On(l, Head(l))
      /\ \A y : On(Tail(l), y) <=> On(l, y) /\ y # Head(l)
  BY <1>1, TailOn
<1> QED
  BY <1>2 DEF Listed

(* A list without one of its elements: list_del(). *)
LEMMA TakeOut ==
  ASSUME NEW S, NEW l, NEW P, Listed(l, S, P), NEW x \in S, x \in P
  PROVE  Listed(Without(l, x), S, P \ {x})
<1>1. l \in Seq(S) /\ Distinct(l) /\ On(l, x)
  BY DEF Listed
<1>2. /\ Without(l, x) \in Seq(S) /\ Distinct(Without(l, x))
      /\ \A y : On(Without(l, x), y) <=> On(l, y) /\ y # x
  BY <1>1, WithoutProperties
<1> QED
  BY <1>2 DEF Listed

-----------------------------------------------------------------------------
(* Open-file entries. *)

(* The count of an entry as the record becomes. *)
LEMMA EntryCount ==
  ASSUME NEW en, AreEntries(en), NEW e \in Files, NEW n \in Nat
  PROVE  LET en1 == [en EXCEPT ![e].count = n]
         IN /\ AreEntries(en1)
            /\ \A f \in Files : /\ en1[f].vnode = en[f].vnode /\ en1[f].offset = en[f].offset
                                /\ en1[f].count = IF f = e THEN n ELSE en[f].count
BY DEF AreEntries

(* Which descriptors lead to f when x counts no more. *)
LEMMA LeadsLess ==
  ASSUME NEW tab, NEW D \in SUBSET Descriptor, NEW x \in D, NEW f
  PROVE  Cardinality(Leads(tab, D \ {x}, f))
           = Cardinality(Leads(tab, D, f)) - (IF tab[x[1]][x[2]] = f THEN 1 ELSE 0)
<1>1. IsFiniteSet(Leads(tab, D, f)) /\ Cardinality(Leads(tab, D, f)) \in Nat
  BY Finitely
<1>2. CASE tab[x[1]][x[2]] = f
  <2>1. x \in Leads(tab, D, f) /\ Leads(tab, D \ {x}, f) = Leads(tab, D, f) \ {x}
    BY <1>2 DEF Leads
  <2> QED
    BY <2>1, <1>1, <1>2, OneLess
<1>3. CASE tab[x[1]][x[2]] # f
  <2>1. Leads(tab, D \ {x}, f) = Leads(tab, D, f)
    BY <1>3 DEF Leads
  <2> QED
    BY <2>1, <1>1, <1>3
<1> QED
  BY <1>2, <1>3

(* Which descriptors lead to f when x counts too. *)
LEMMA LeadsMore ==
  ASSUME NEW tab, NEW tab1, NEW D \in SUBSET Descriptor, NEW x \in Descriptor \ D, NEW f,
         \A y \in D : tab1[y[1]][y[2]] = tab[y[1]][y[2]]
  PROVE  Cardinality(Leads(tab1, D \cup {x}, f))
           = Cardinality(Leads(tab, D, f)) + (IF tab1[x[1]][x[2]] = f THEN 1 ELSE 0)
<1>1. IsFiniteSet(Leads(tab, D, f)) /\ Cardinality(Leads(tab, D, f)) \in Nat
  BY Finitely
<1>2. CASE tab1[x[1]][x[2]] = f
  <2>1. x \notin Leads(tab, D, f) /\ Leads(tab1, D \cup {x}, f) = Leads(tab, D, f) \cup {x}
    BY <1>2 DEF Leads
  <2> QED
    BY <2>1, <1>1, <1>2, OneMore
<1>3. CASE tab1[x[1]][x[2]] # f
  <2>1. Leads(tab1, D \cup {x}, f) = Leads(tab, D, f)
    BY <1>3 DEF Leads
  <2> QED
    BY <2>1, <1>1, <1>3
<1> QED
  BY <1>2, <1>3

(* One of several descriptors of an entry goes. *)
LEMMA EntryLess ==
  ASSUME NEW en, NEW fl, NEW tab, NEW D \in SUBSET Descriptor, EntriesOK(en, fl, tab, D),
         NEW x \in D, NEW e \in Files, tab[x[1]][x[2]] = e, en[e].count - 1 # 0
  PROVE  LET en1 == [en EXCEPT ![e].count = en[e].count - 1]
         IN /\ EntriesOK(en1, fl, tab, D \ {x})
            /\ \A v : Holders(en1, v) = Holders(en, v)
<1> DEFINE en1 == [en EXCEPT ![e].count = en[e].count - 1]
<1>1. x \in Leads(tab, D, e) /\ IsFiniteSet(Leads(tab, D, e))
  BY Finitely DEF Leads
<1>2. en[e].count \in Nat /\ en[e].count # 0 /\ en[e].count - 1 \in Nat
  <2>1. Cardinality(Leads(tab, D, e)) \in Nat /\ Cardinality(Leads(tab, D, e)) # 0
    BY <1>1, OneLess
  <2> QED
    BY <2>1 DEF EntriesOK
<1>3. /\ AreEntries(en1)
      /\ \A f \in Files : /\ en1[f].vnode = en[f].vnode /\ en1[f].offset = en[f].offset
                          /\ en1[f].count = IF f = e THEN en[e].count - 1 ELSE en[f].count
  BY <1>2, EntryCount DEF EntriesOK
<1>4. \A f \in Files : en1[f].count = 0 <=> en[f].count = 0
  BY <1>2, <1>3
<1>5. \A f \in Files : en1[f].count = Cardinality(Leads(tab, D \ {x}, f))
  <2> TAKE f \in Files
  <2>1. en[f].count = Cardinality(Leads(tab, D, f))
    BY DEF EntriesOK
  <2>2. Cardinality(Leads(tab, D \ {x}, f))
           = Cardinality(Leads(tab, D, f)) - (IF tab[x[1]][x[2]] = f THEN 1 ELSE 0)
    BY LeadsLess
  <2>3. en[f].count \in Nat
    BY DEF EntriesOK, AreEntries
  <2> QED
    BY <2>1, <2>2, <2>3, <1>3
<1>6. {f \in Files : en1[f].count = 0} = {f \in Files : en[f].count = 0}
  BY <1>4
<1>7. \A v : Holders(en1, v) = Holders(en, v)
  BY <1>3, <1>4 DEF Holders
<1>8. \A f \in Files : en1[f].count # 0 => en1[f].vnode \in Vnodes
  BY <1>3, <1>4 DEF EntriesOK
<1>9. Listed(fl, Files, {f \in Files : en1[f].count = 0})
  BY <1>6 DEF EntriesOK
<1>10. EntriesOK(en1, fl, tab, D \ {x})
  BY <1>3, <1>5, <1>8, <1>9 DEF EntriesOK
<1> QED
  BY <1>7, <1>10

(* The last descriptor of an entry goes: the entry is free. *)
LEMMA EntryGone ==
  ASSUME NEW en, NEW fl, NEW tab, NEW D \in SUBSET Descriptor, EntriesOK(en, fl, tab, D),
         NEW x \in D, NEW e \in Files, tab[x[1]][x[2]] = e, en[e].count - 1 = 0
  PROVE  LET en1 == [en EXCEPT ![e].count = en[e].count - 1]
         IN /\ EntriesOK(en1, <<e>> \o fl, tab, D \ {x})
            /\ e \in Holders(en, en[e].vnode) /\ en[e].vnode \in Vnodes
            /\ en1[e].vnode = en[e].vnode
            /\ \A v : Holders(en1, v) = Holders(en, v) \ {e}
<1> DEFINE en1 == [en EXCEPT ![e].count = en[e].count - 1]
<1>1. en[e].count \in Nat
  BY DEF EntriesOK, AreEntries
<1>2. en[e].count = 1 /\ en[e].count - 1 \in Nat
  BY <1>1
<1>3. /\ AreEntries(en1)
      /\ \A f \in Files : /\ en1[f].vnode = en[f].vnode /\ en1[f].offset = en[f].offset
                          /\ en1[f].count = IF f = e THEN en[e].count - 1 ELSE en[f].count
  BY <1>2, EntryCount DEF EntriesOK
<1>5. \A f \in Files : en1[f].count = Cardinality(Leads(tab, D \ {x}, f))
  <2> TAKE f \in Files
  <2>1. en[f].count = Cardinality(Leads(tab, D, f))
    BY DEF EntriesOK
  <2>2. Cardinality(Leads(tab, D \ {x}, f))
           = Cardinality(Leads(tab, D, f)) - (IF tab[x[1]][x[2]] = f THEN 1 ELSE 0)
    BY LeadsLess
  <2>3. en[f].count \in Nat
    BY DEF EntriesOK, AreEntries
  <2> QED
    BY <2>1, <2>2, <2>3, <1>3
<1>6. {f \in Files : en1[f].count = 0} = {f \in Files : en[f].count = 0} \cup {e}
  BY <1>2, <1>3
<1>7. \A v : Holders(en1, v) = Holders(en, v) \ {e}
  BY <1>2, <1>3 DEF Holders
<1>8. \A f \in Files : en1[f].count # 0 => en1[f].vnode \in Vnodes
  BY <1>2, <1>3 DEF EntriesOK
<1>9. Listed(<<e>> \o fl, Files, {f \in Files : en1[f].count = 0})
  <2>1. Listed(fl, Files, {f \in Files : en[f].count = 0}) /\ e \notin {f \in Files : en[f].count = 0}
    BY <1>2 DEF EntriesOK
  <2>2. Listed(<<e>> \o fl, Files, {f \in Files : en[f].count = 0} \cup {e})
    BY <2>1, PutFirst
  <2> QED
    BY <2>2, <1>6
<1>10. EntriesOK(en1, <<e>> \o fl, tab, D \ {x})
  BY <1>3, <1>5, <1>8, <1>9 DEF EntriesOK
<1>11. e \in Holders(en, en[e].vnode) /\ en[e].vnode \in Vnodes
  BY <1>2 DEF Holders, EntriesOK
<1> QED
  BY <1>3, <1>7, <1>10, <1>11

\* From en descriptor x has become one more of entry e, which is in use.
Joins(en, fl, tab, tab1, D, x, e, en1) ==
  /\ D \in SUBSET Descriptor /\ EntriesOK(en, fl, tab, D)
  /\ x \in Descriptor \ D /\ \A y \in D : tab1[y[1]][y[2]] = tab[y[1]][y[2]]
  /\ e \in Files /\ tab1[x[1]][x[2]] = e /\ en[e].count # 0 /\ AreEntries(en1)
  /\ \A f \in Files : /\ en1[f].vnode = en[f].vnode
                       /\ en1[f].count = IF f = e THEN en[e].count + 1 ELSE en[f].count

HasJoined(en, fl, tab1, D, x, en1) ==
  /\ EntriesOK(en1, fl, tab1, D \cup {x})
  /\ \A v : Holders(en1, v) = Holders(en, v)

(* One more descriptor of an entry in use. *)
LEMMA EntryMore ==
  ASSUME NEW en, NEW fl, NEW tab, NEW tab1, NEW D, NEW x, NEW e, NEW en1,
         Joins(en, fl, tab, tab1, D, x, e, en1)
  PROVE  HasJoined(en, fl, tab1, D, x, en1)
<1>1. /\ D \in SUBSET Descriptor /\ EntriesOK(en, fl, tab, D)
      /\ x \in Descriptor \ D /\ \A y \in D : tab1[y[1]][y[2]] = tab[y[1]][y[2]]
      /\ e \in Files /\ tab1[x[1]][x[2]] = e /\ en[e].count # 0
  BY DEF Joins
<1>2. en[e].count \in Nat /\ en[e].count # 0 /\ en[e].count + 1 \in Nat
  BY <1>1 DEF EntriesOK, AreEntries
<1>3. /\ AreEntries(en1)
      /\ \A f \in Files : /\ en1[f].vnode = en[f].vnode
                          /\ en1[f].count = IF f = e THEN en[e].count + 1 ELSE en[f].count
  BY DEF Joins
<1>4. \A f \in Files : en1[f].count = 0 <=> en[f].count = 0
  BY <1>2, <1>3
<1>5. \A f \in Files : en1[f].count = Cardinality(Leads(tab1, D \cup {x}, f))
  <2> TAKE f \in Files
  <2>1. en[f].count = Cardinality(Leads(tab, D, f))
    BY <1>1 DEF EntriesOK
  <2>2. Cardinality(Leads(tab1, D \cup {x}, f))
           = Cardinality(Leads(tab, D, f)) + (IF tab1[x[1]][x[2]] = f THEN 1 ELSE 0)
    BY <1>1, LeadsMore
  <2>3. en[f].count \in Nat
    BY <1>1 DEF EntriesOK, AreEntries
  <2> QED
    BY <2>1, <2>2, <2>3, <1>1, <1>3
<1>6. {f \in Files : en1[f].count = 0} = {f \in Files : en[f].count = 0}
  BY <1>4
<1>7. \A v : Holders(en1, v) = Holders(en, v)
  BY <1>3, <1>4 DEF Holders
<1>8. \A f \in Files : en1[f].count # 0 => en1[f].vnode \in Vnodes
  BY <1>1, <1>3, <1>4 DEF EntriesOK
<1>9. Listed(fl, Files, {f \in Files : en1[f].count = 0})
  BY <1>1, <1>6 DEF EntriesOK
<1>10. EntriesOK(en1, fl, tab1, D \cup {x})
  BY <1>3, <1>5, <1>8, <1>9 DEF EntriesOK
<1> QED
  BY <1>7, <1>10 DEF HasJoined

\* From en the first of the free entries has become descriptor x's, on vnode v.
Takes(en, fl, tab, tab1, D, x, v, en1) ==
  /\ D \in SUBSET Descriptor /\ EntriesOK(en, fl, tab, D)
  /\ x \in Descriptor \ D /\ \A y \in D : tab1[y[1]][y[2]] = tab[y[1]][y[2]]
  /\ fl # <<>> /\ tab1[x[1]][x[2]] = Head(fl) /\ v \in Vnodes /\ AreEntries(en1)
  /\ \A f \in Files \ {Head(fl)} : en1[f].count = en[f].count /\ en1[f].vnode = en[f].vnode
  /\ en1[Head(fl)].count = 1 /\ en1[Head(fl)].vnode = v

Taken(en, fl, tab1, D, x, v, en1) ==
  /\ EntriesOK(en1, Tail(fl), tab1, D \cup {x})
  /\ Holders(en1, v) = Holders(en, v) \cup {Head(fl)} /\ Head(fl) \notin Holders(en, v)
  /\ \A w : w # v => Holders(en1, w) = Holders(en, w)

(* The first of the free entries is taken for descriptor x. *)
LEMMA EntryTaken ==
  ASSUME NEW en, NEW fl, NEW tab, NEW tab1, NEW D, NEW x, NEW v, NEW en1,
         Takes(en, fl, tab, tab1, D, x, v, en1)
  PROVE  Taken(en, fl, tab1, D, x, v, en1)
<1> USE DEF Takes
<1> DEFINE e == Head(fl)
           Free == {f \in Files : en[f].count = 0}
<1>1. Listed(fl, Files, Free)
  BY DEF EntriesOK
<1>2. e \in Files /\ en[e].count = 0 /\ Listed(Tail(fl), Files, Free \ {e})
  <2> HIDE DEF Free
  <2>1. e \in Files /\ e \in Free /\ Listed(Tail(fl), Files, Free \ {e})
    BY <1>1, TakeFirst
  <2> QED
    BY <2>1 DEF Free
<1>3. Listed(Tail(fl), Files, {f \in Files : en1[f].count = 0})
  <2>1. {f \in Files : en1[f].count = 0} = Free \ {e}
    BY <1>2
  <2> QED
    BY <2>1, <1>2
<1>4. \A f \in Files : en1[f].count = Cardinality(Leads(tab1, D \cup {x}, f))
  <2> TAKE f \in Files
  <2>1. en[f].count = Cardinality(Leads(tab, D, f)) /\ en[f].count \in Nat
    BY DEF EntriesOK, AreEntries
  <2>2. Cardinality(Leads(tab1, D \cup {x}, f))
           = Cardinality(Leads(tab, D, f)) + (IF tab1[x[1]][x[2]] = f THEN 1 ELSE 0)
    BY LeadsMore
  <2> QED
    BY <2>1, <2>2, <1>2
<1>5. \A f \in Files : en1[f].count # 0 => en1[f].vnode \in Vnodes
  BY DEF EntriesOK
<1>6. EntriesOK(en1, Tail(fl), tab1, D \cup {x})
  BY <1>3, <1>4, <1>5 DEF EntriesOK
<1>7. Holders(en1, v) = Holders(en, v) \cup {e} /\ e \notin Holders(en, v)
  BY <1>2 DEF Holders
<1>8. \A w : w # v => Holders(en1, w) = Holders(en, w)
  BY <1>2 DEF Holders
<1> QED
  BY <1>6, <1>7, <1>8 DEF Taken

-----------------------------------------------------------------------------
(* Vnodes. *)

(* A vnode with another count. *)
LEMMA VnodeCount ==
  ASSUME NEW vn, AreVnodes(vn), NEW v \in Vnodes, NEW n \in Nat
  PROVE  LET vn1 == [vn EXCEPT ![v].count = n]
         IN /\ AreVnodes(vn1)
            /\ \A w \in Vnodes : vn1[w].count = IF w = v THEN n ELSE vn[w].count
BY DEF AreVnodes

(* One of the entries of a vnode goes and the vnode stays. *)
LEMMA VnodeLess ==
  ASSUME NEW vn, NEW en, NEW av, NEW fv, VnodesOK(vn, en, av, fv), NEW v \in Vnodes,
         NEW en1, NEW e \in Holders(en, v), \A w : Holders(en1, w) = Holders(en, w) \ {e},
         vn[v].count - 1 # 0
  PROVE  VnodesOK([vn EXCEPT ![v].count = vn[v].count - 1], en1, av, fv)
<1> DEFINE vn1 == [vn EXCEPT ![v].count = vn[v].count - 1]
<1>1. vn[v].count \in Nat /\ vn[v].count # 0 /\ vn[v].count - 1 \in Nat
  <2>1. Cardinality(Holders(en, v)) \in Nat /\ Cardinality(Holders(en, v)) # 0
    BY OneLess, Finitely
  <2>2. vn[v].count = Cardinality(Holders(en, v)) + Extra(v) /\ Extra(v) \in Nat
    BY DEF VnodesOK, Extra
  <2> QED
    BY <2>1, <2>2
<1>2. AreVnodes(vn1) /\ \A w \in Vnodes : vn1[w].count = IF w = v THEN vn[v].count - 1 ELSE vn[w].count
  BY <1>1, VnodeCount DEF VnodesOK
<1>3. \A w \in Vnodes : vn1[w].count = Cardinality(Holders(en1, w)) + Extra(w)
  <2> TAKE w \in Vnodes
  <2>1. vn[w].count = Cardinality(Holders(en, w)) + Extra(w) /\ Extra(w) \in Nat
    BY DEF VnodesOK, Extra
  <2>2. Cardinality(Holders(en, w)) \in Nat
    BY Finitely
  <2>3. CASE w = v
    <3>1. Cardinality(Holders(en1, v)) = Cardinality(Holders(en, v)) - 1
      BY OneLess, Finitely
    <3> QED
      BY <3>1, <2>1, <2>2, <2>3, <1>2
  <2>4. CASE w # v
    <3>1. Holders(en1, w) = Holders(en, w)
      BY <2>4 DEF Holders
    <3> QED
      BY <3>1, <2>1, <2>4, <1>2
  <2> QED
    BY <2>3, <2>4
<1>4. /\ {w \in Vnodes : vn1[w].count = 0} = {w \in Vnodes : vn[w].count = 0}
      /\ {w \in Vnodes : vn1[w].count # 0} = {w \in Vnodes : vn[w].count # 0}
  BY <1>1, <1>2
<1>5. /\ Listed(av, Vnodes, {w \in Vnodes : vn1[w].count # 0})
      /\ Listed(fv, Vnodes, {w \in Vnodes : vn1[w].count = 0})
  BY <1>4 DEF VnodesOK
<1> QED
  BY <1>2, <1>3, <1>5 DEF VnodesOK

(* The last of the entries of a vnode goes, and with it the vnode. *)
LEMMA VnodeGone ==
  ASSUME NEW vn, NEW en, NEW av, NEW fv, VnodesOK(vn, en, av, fv), NEW v \in Vnodes,
         NEW en1, NEW e \in Holders(en, v), \A w : Holders(en1, w) = Holders(en, w) \ {e},
         vn[v].count - 1 = 0
  PROVE  VnodesOK([vn EXCEPT ![v].count = vn[v].count - 1], en1, Without(av, v), <<v>> \o fv)
<1> DEFINE vn1 == [vn EXCEPT ![v].count = vn[v].count - 1]
<1>1. vn[v].count \in Nat /\ vn[v].count = 1 /\ vn[v].count - 1 \in Nat
  BY DEF VnodesOK, AreVnodes
<1>2. AreVnodes(vn1) /\ \A w \in Vnodes : vn1[w].count = IF w = v THEN vn[v].count - 1 ELSE vn[w].count
  BY <1>1, VnodeCount DEF VnodesOK
<1>3. \A w \in Vnodes : vn1[w].count = Cardinality(Holders(en1, w)) + Extra(w)
  <2> TAKE w \in Vnodes
  <2>1. vn[w].count = Cardinality(Holders(en, w)) + Extra(w) /\ Extra(w) \in Nat
    BY DEF VnodesOK, Extra
  <2>2. Cardinality(Holders(en, w)) \in Nat
    BY Finitely
  <2>3. CASE w = v
    <3>1. Cardinality(Holders(en1, v)) = Cardinality(Holders(en, v)) - 1
      BY OneLess, Finitely
    <3> QED
      BY <3>1, <2>1, <2>2, <2>3, <1>2
  <2>4. CASE w # v
    <3>1. Holders(en1, w) = Holders(en, w)
      BY <2>4 DEF Holders
    <3> QED
      BY <3>1, <2>1, <2>4, <1>2
  <2> QED
    BY <2>3, <2>4
<1> DEFINE Free == {w \in Vnodes : vn[w].count = 0}
           Active == {w \in Vnodes : vn[w].count # 0}
<1>4. /\ {w \in Vnodes : vn1[w].count = 0} = Free \cup {v}
      /\ {w \in Vnodes : vn1[w].count # 0} = Active \ {v}
      /\ v \notin Free /\ v \in Active
  BY <1>1, <1>2
<1>5. Listed(av, Vnodes, Active) /\ Listed(fv, Vnodes, Free)
  BY DEF VnodesOK
<1>6. Listed(Without(av, v), Vnodes, Active \ {v}) /\ Listed(<<v>> \o fv, Vnodes, Free \cup {v})
  <2> HIDE DEF Free, Active
  <2> QED
    BY <1>4, <1>5, TakeOut, PutFirst
<1> QED
  BY <1>2, <1>3, <1>4, <1>6 DEF VnodesOK

(* Nothing changes for the vnodes when the entries hold the same. *)
LEMMA VnodesSame ==
  ASSUME NEW vn, NEW en, NEW av, NEW fv, VnodesOK(vn, en, av, fv), NEW en1,
         \A w : Holders(en1, w) = Holders(en, w)
  PROVE  VnodesOK(vn, en1, av, fv)
BY DEF VnodesOK

(* One more entry of an active vnode. *)
LEMMA VnodeMore ==
  ASSUME NEW vn, NEW en, NEW av, NEW fv, VnodesOK(vn, en, av, fv), NEW v \in Vnodes,
         vn[v].count # 0, NEW en1, NEW e, e \notin Holders(en, v),
         Holders(en1, v) = Holders(en, v) \cup {e},
         \A w : w # v => Holders(en1, w) = Holders(en, w)
  PROVE  VnodesOK([vn EXCEPT ![v].count = vn[v].count + 1], en1, av, fv)
<1> DEFINE vn1 == [vn EXCEPT ![v].count = vn[v].count + 1]
<1>1. vn[v].count \in Nat /\ vn[v].count + 1 \in Nat
  BY DEF VnodesOK, AreVnodes
<1>2. AreVnodes(vn1) /\ \A w \in Vnodes : vn1[w].count = IF w = v THEN vn[v].count + 1 ELSE vn[w].count
  BY <1>1, VnodeCount DEF VnodesOK
<1>3. \A w \in Vnodes : vn1[w].count = Cardinality(Holders(en1, w)) + Extra(w)
  <2> HIDE DEF vn1
  <2> TAKE w \in Vnodes
  <2>1. vn[w].count = Cardinality(Holders(en, w)) + Extra(w) /\ Extra(w) \in Nat
    BY DEF VnodesOK, Extra
  <2>2. Cardinality(Holders(en, w)) \in Nat
    BY Finitely
  <2>3. CASE w = v
    <3>1. Cardinality(Holders(en1, v)) = Cardinality(Holders(en, v)) + 1
      BY OneMore, Finitely
    <3> QED
      BY <3>1, <2>1, <2>2, <2>3, <1>2
  <2>4. CASE w # v
    BY <2>1, <2>4, <1>2
  <2> QED
    BY <2>3, <2>4
<1>4. /\ {w \in Vnodes : vn1[w].count = 0} = {w \in Vnodes : vn[w].count = 0}
      /\ {w \in Vnodes : vn1[w].count # 0} = {w \in Vnodes : vn[w].count # 0}
  BY <1>1, <1>2
<1>5. /\ Listed(av, Vnodes, {w \in Vnodes : vn1[w].count # 0})
      /\ Listed(fv, Vnodes, {w \in Vnodes : vn1[w].count = 0})
  BY <1>4 DEF VnodesOK
<1> QED
  BY <1>2, <1>3, <1>5 DEF VnodesOK

(* The first of the free vnodes is taken for an entry. *)
LEMMA VnodeTaken ==
  ASSUME NEW vn, NEW en, NEW av, NEW fv, VnodesOK(vn, en, av, fv), fv # <<>>,
         NEW index, NEW ino, NEW en1, NEW e, e \notin Holders(en, Head(fv)),
         Holders(en1, Head(fv)) = Holders(en, Head(fv)) \cup {e},
         \A w : w # Head(fv) => Holders(en1, w) = Holders(en, w)
  PROVE  /\ Head(fv) \in Vnodes
         /\ VnodesOK([vn EXCEPT ![Head(fv)] = [index |-> index, inode |-> ino, count |-> 1]],
                     en1, Append(av, Head(fv)), Tail(fv))
<1> DEFINE v == Head(fv)
           vn1 == [vn EXCEPT ![v] = [index |-> index, inode |-> ino, count |-> 1]]
           Free == {w \in Vnodes : vn[w].count = 0}
           Active == {w \in Vnodes : vn[w].count # 0}
<1>1. v \in Vnodes /\ v \in Free /\ Listed(Tail(fv), Vnodes, Free \ {v})
  <2>1. Listed(fv, Vnodes, Free)
    BY DEF VnodesOK
  <2> HIDE DEF Free
  <2> QED
    BY <2>1, TakeFirst
<1>2. Listed(Append(av, v), Vnodes, Active \cup {v})
  <2>1. Listed(av, Vnodes, Active) /\ v \notin Active
    BY <1>1 DEF VnodesOK
  <2> HIDE DEF Active, v
  <2> QED
    BY <2>1, <1>1, PutLast
<1>3. AreVnodes(vn1) /\ \A w \in Vnodes : vn1[w].count = IF w = v THEN 1 ELSE vn[w].count
  <2> HIDE DEF v
  <2> QED
    BY <1>1 DEF VnodesOK, AreVnodes
<1>4. {w \in Vnodes : vn1[w].count = 0} = Free \ {v} /\ {w \in Vnodes : vn1[w].count # 0} = Active \cup {v}
  <2> HIDE DEF vn1, v
  <2> QED
    BY <1>1, <1>3
<1>5. \A w \in Vnodes : vn1[w].count = Cardinality(Holders(en1, w)) + Extra(w)
  <2> HIDE DEF vn1
  <2> TAKE w \in Vnodes
  <2>1. vn[w].count = Cardinality(Holders(en, w)) + Extra(w) /\ Extra(w) \in Nat
    BY DEF VnodesOK, Extra
  <2>2. Cardinality(Holders(en, w)) \in Nat
    BY Finitely
  <2>3. CASE w = v
    <3>1. Cardinality(Holders(en1, v)) = Cardinality(Holders(en, v)) + 1
      BY OneMore, Finitely
    <3>2. vn[v].count = 0
      BY <1>1
    <3> QED
      BY <3>1, <3>2, <2>1, <2>2, <2>3, <1>3
  <2>4. CASE w # v
    BY <2>1, <2>4, <1>3
  <2> QED
    BY <2>3, <2>4
<1> QED
  BY <1>1, <1>2, <1>3, <1>4, <1>5 DEF VnodesOK

-----------------------------------------------------------------------------
(* The primitives on the tables. *)

(* release_file_entry() of the entry that descriptor x leads to. *)
LEMMA ReleaseEntry ==
  ASSUME NEW s, NEW tab, NEW D \in SUBSET Descriptor, Counts(s, tab, D),
         NEW x \in D, NEW e \in Files, tab[x[1]][x[2]] = e
  PROVE  Counts(release_file_entry(s, e), tab, D \ {x})
<1> DEFINE en == s.entry
           en1 == [en EXCEPT ![e].count = en[e].count - 1]
           t == [s EXCEPT !.entry[e].count = @ - 1]
           v == en[e].vnode
           vn1 == [s.vnode EXCEPT ![v].count = s.vnode[v].count - 1]
<1>1. /\ IsTables(s) /\ EntriesOK(en, s.free_open_file_list, tab, D)
      /\ VnodesOK(s.vnode, en, s.active_vnode_list, s.free_vnode_list)
  BY DEF Counts
<1>2. /\ IsTables(t) /\ t.entry = en1 /\ t.free_open_file_list = s.free_open_file_list
      /\ t.vnode = s.vnode /\ t.active_vnode_list = s.active_vnode_list
      /\ t.free_vnode_list = s.free_vnode_list
  BY <1>1 DEF IsTables
<1>3. t.entry[e].count = en[e].count - 1
  <2> HIDE DEF t
  <2> QED
    BY <1>1, <1>2 DEF EntriesOK, AreEntries
<1>0. e # NULL
  BY DEF Files, NULL
<1>4. CASE en[e].count - 1 # 0
  <2>1. release_file_entry(s, e) = t
    BY <1>0, <1>3, <1>4 DEF release_file_entry
  <2>2. EntriesOK(en1, s.free_open_file_list, tab, D \ {x}) /\ \A w : Holders(en1, w) = Holders(en, w)
    BY <1>1, <1>4, EntryLess
  <2>3. VnodesOK(s.vnode, en1, s.active_vnode_list, s.free_vnode_list)
    BY <1>1, <2>2, VnodesSame
  <2> QED
    BY <2>1, <2>2, <2>3, <1>2 DEF Counts
<1>5. CASE en[e].count - 1 = 0
  <2>1. /\ EntriesOK(en1, <<e>> \o s.free_open_file_list, tab, D \ {x})
        /\ e \in Holders(en, v) /\ v \in Vnodes /\ en1[e].vnode = v
        /\ \A w : Holders(en1, w) = Holders(en, w) \ {e}
    BY <1>1, <1>5, EntryGone, SMTT(60)
  <2> DEFINE u == release_kernel_vnode(t, v)
             t1 == [t EXCEPT !.vnode[v].count = @ - 1]
             r == [u EXCEPT !.free_open_file_list = <<e>> \o @]
  <2>2. release_file_entry(s, e) = r
    BY <1>0, <2>1, <1>2, <1>3, <1>5 DEF release_file_entry
  <2>3. /\ IsTables(t1) /\ t1.entry = en1 /\ t1.free_open_file_list = s.free_open_file_list
        /\ t1.vnode = vn1 /\ t1.active_vnode_list = s.active_vnode_list
        /\ t1.free_vnode_list = s.free_vnode_list
    <3> HIDE DEF t, en1
    <3> QED
      BY <1>2 DEF IsTables
  <2>4. t1.vnode[v].count = s.vnode[v].count - 1
    <3>1. AreVnodes(s.vnode)
      BY <1>1 DEF VnodesOK
    <3>2. vn1[v].count = s.vnode[v].count - 1
      <4>1. \A vn, n : AreVnodes(vn) => [vn EXCEPT ![v].count = n][v].count = n
        BY <2>1 DEF AreVnodes
      <4> HIDE DEF v
      <4> QED
        BY <3>1, <4>1, SMTT(60)
    <3> HIDE DEF t1, vn1
    <3> QED
      BY <3>2, <2>3
  <2>5. CASE s.vnode[v].count - 1 # 0
    <3>1. u = t1
      BY <2>4, <2>5 DEF release_kernel_vnode
    <3>2. VnodesOK(vn1, en1, s.active_vnode_list, s.free_vnode_list)
      <4> HIDE DEF en1
      <4> QED
        BY <1>1, <2>1, <2>5, VnodeLess
    <3>3. /\ IsTables(r) /\ r.entry = en1 /\ r.free_open_file_list = <<e>> \o s.free_open_file_list
          /\ r.vnode = vn1 /\ r.active_vnode_list = s.active_vnode_list
          /\ r.free_vnode_list = s.free_vnode_list
      <4> HIDE DEF t1, u, en1, vn1
      <4> QED
        <5>1. IsTables(u)
          BY <3>1, <2>3
        <5>3. /\ IsTables(r) /\ r.entry = u.entry
              /\ r.free_open_file_list = <<e>> \o u.free_open_file_list
              /\ r.vnode = u.vnode /\ r.active_vnode_list = u.active_vnode_list
              /\ r.free_vnode_list = u.free_vnode_list
          <6> DEFINE ll == <<e>> \o u.free_open_file_list
          <6>1. r = [u EXCEPT !.free_open_file_list = ll]
            OBVIOUS
          <6> HIDE DEF ll, r
          <6>2. /\ IsTables(r) /\ r.entry = u.entry /\ r.free_open_file_list = ll
                /\ r.vnode = u.vnode /\ r.active_vnode_list = u.active_vnode_list
                /\ r.free_vnode_list = u.free_vnode_list
            BY <5>1, <6>1 DEF IsTables
          <6> QED
            BY <6>2 DEF ll
        <5> HIDE DEF r
        <5> QED
          BY <5>3, <3>1, <2>3
    <3> QED
      BY <3>2, <3>3, <2>1, <2>2 DEF Counts
  <2>6. CASE s.vnode[v].count - 1 = 0
    <3> DEFINE t2 == [t1 EXCEPT !.disk[t1.vnode[v].index] = t1.vnode[v].inode,
                                !.active_vnode_list = Without(@, v), !.free_vnode_list = <<v>> \o @]
    <3>1. u = t2
      BY <2>4, <2>6 DEF release_kernel_vnode
    <3>2. VnodesOK(vn1, en1, Without(s.active_vnode_list, v), <<v>> \o s.free_vnode_list)
      <4> HIDE DEF en1
      <4> QED
        BY <1>1, <2>1, <2>6, VnodeGone
    <3>3. /\ IsTables(t2) /\ t2.entry = en1 /\ t2.free_open_file_list = s.free_open_file_list
          /\ t2.vnode = vn1 /\ t2.active_vnode_list = Without(s.active_vnode_list, v)
          /\ t2.free_vnode_list = <<v>> \o s.free_vnode_list
      <4> HIDE DEF t1, en1, vn1
      <4> QED
        <5>2. /\ IsTables(t2) /\ t2.entry = t1.entry
              /\ t2.free_open_file_list = t1.free_open_file_list
              /\ t2.vnode = t1.vnode /\ t2.active_vnode_list = Without(t1.active_vnode_list, v)
              /\ t2.free_vnode_list = <<v>> \o t1.free_vnode_list
          <6> DEFINE dd == [t1.disk EXCEPT ![t1.vnode[v].index] = t1.vnode[v].inode]
          <6>1. t2 = [t1 EXCEPT !.disk = dd,
                                !.active_vnode_list = Without(t1.active_vnode_list, v),
                                !.free_vnode_list = <<v>> \o t1.free_vnode_list]
            OBVIOUS
          <6> HIDE DEF dd, v, t2
          <6> QED
            BY <6>1, <2>3 DEF IsTables
        <5> HIDE DEF t2
        <5> QED
          BY <5>2, <2>3
    <3>4. /\ IsTables(r) /\ r.entry = en1 /\ r.free_open_file_list = <<e>> \o s.free_open_file_list
          /\ r.vnode = vn1 /\ r.active_vnode_list = Without(s.active_vnode_list, v)
          /\ r.free_vnode_list = <<v>> \o s.free_vnode_list
      <4> HIDE DEF t2, u, en1, vn1
      <4> QED
        <5>1. IsTables(u)
          BY <3>1, <3>3
        <5>3. /\ IsTables(r) /\ r.entry = u.entry
              /\ r.free_open_file_list = <<e>> \o u.free_open_file_list
              /\ r.vnode = u.vnode /\ r.active_vnode_list = u.active_vnode_list
              /\ r.free_vnode_list = u.free_vnode_list
          <6> DEFINE ll == <<e>> \o u.free_open_file_list
          <6>1. r = [u EXCEPT !.free_open_file_list = ll]
            OBVIOUS
          <6> HIDE DEF ll, r
          <6>2. /\ IsTables(r) /\ r.entry = u.entry /\ r.free_open_file_list = ll
                /\ r.vnode = u.vnode /\ r.active_vnode_list = u.active_vnode_list
                /\ r.free_vnode_list = u.free_vnode_list
            BY <5>1, <6>1 DEF IsTables
          <6> QED
            BY <6>2 DEF ll
        <5> HIDE DEF r
        <5> QED
          BY <5>3, <3>1, <3>3
    <3> QED
      BY <3>2, <3>4, <2>1, <2>2, ZenonT(60) DEF Counts
  <2> QED
    BY <2>5, <2>6
<1> QED
  BY <1>4, <1>5

-----------------------------------------------------------------------------
(* The loops. *)

(* A set that has 0, and with k also k + 1, has all numbers up to N. *)
LEMMA UpTo ==
  ASSUME NEW N \in Nat, NEW T, 0 \in T, \A k \in 0..(N - 1) : k \in T => k + 1 \in T
  PROVE  \A k \in 0..N : k \in T
<1> DEFINE U == {k \in 0..N : k \notin T}
<1>1. SUFFICES ASSUME U # {} PROVE FALSE
  OBVIOUS
<1>2. U \in SUBSET Nat
  OBVIOUS
<1>3. PICK n \in U : \A m \in U : n <= m
  <2> HIDE DEF U
  <2> QED
    BY <1>1, <1>2, LeastElement
<1>4. n \in 1..N /\ n - 1 \notin U
  BY <1>3
<1>5. n - 1 \in 0..(N - 1) /\ n - 1 \in T
  BY <1>4
<1>6. n - 1 + 1 \in T
  BY <1>5
<1> QED
  BY <1>3, <1>4, <1>6

(* The loop of fm_exit_file(): after n turns the first n descriptors are seen to. *)
LEMMA ExitTurns ==
  ASSUME NEW s, NEW fds
  PROVE  \E g : /\ exit_file(s, fds) = g[FD_NUM] /\ g[0] = s
                /\ \A n \in 1..FD_NUM :
                     g[n] = IF fds[n - 1] = NULL THEN g[n - 1]
                            ELSE release_file_entry(g[n - 1], fds[n - 1])
<1> DEFINE F(g, n) == IF n = 0 THEN s
                      ELSE IF fds[n - 1] = NULL THEN g[n - 1]
                      ELSE release_file_entry(g[n - 1], fds[n - 1])
           T == {k \in 0..FD_NUM : \E g : g = [n \in 0..k |-> F(g, n)]}
           after == CHOOSE g : g = [n \in 0..FD_NUM |-> F(g, n)]
<1>1. FD_NUM \in Nat
  BY FileAssumption
<1>2. 0 \in T
  <2> DEFINE g == [n \in 0..0 |-> s]
  <2>1. g = [n \in 0..0 |-> F(g, n)]
    OBVIOUS
  <2>2. 0 \in 0..FD_NUM
    BY <1>1
  <2> HIDE DEF g, F
  <2> QED
    BY <2>1, <2>2
<1>3. ASSUME NEW k \in 0..(FD_NUM - 1), k \in T PROVE k + 1 \in T
  <2>1. PICK g : g = [n \in 0..k |-> F(g, n)]
    BY <1>3
  <2> DEFINE h == [n \in 0..(k + 1) |-> IF n <= k THEN g[n] ELSE F(g, k + 1)]
  <2>2. \A n \in 0..(k + 1) : h[n] = F(h, n)
    <3> TAKE n \in 0..(k + 1)
    <3>1. n # 0 => n - 1 \in 0..k /\ h[n - 1] = g[n - 1]
      BY <1>1
    <3>2. F(h, n) = F(g, n)
      <4> HIDE DEF h
      <4> QED
        BY <3>1
    <3>3. h[n] = F(g, n)
      <4>1. CASE n <= k
        <5>1. n \in 0..k /\ h[n] = g[n]
          BY <4>1, <1>1
        <5> HIDE DEF F, h
        <5> QED
          BY <5>1, <2>1
      <4>2. CASE ~(n <= k)
        <5>1. n = k + 1
          BY <4>2, <1>1
        <5> HIDE DEF F
        <5> QED
          BY <5>1, <4>2
      <4> QED
        BY <4>1, <4>2
    <3> HIDE DEF F, h
    <3> QED
      BY <3>2, <3>3
  <2>3. h = [n \in 0..(k + 1) |-> F(h, n)]
    <3> HIDE DEF F
    <3> QED
      BY <2>2
  <2> HIDE DEF h, F
  <2>4. k + 1 \in 0..FD_NUM
    BY <1>1
  <2> QED
    BY <2>3, <2>4
<1>4. FD_NUM \in T
  <2> HIDE DEF T
  <2>1. \A k \in 0..FD_NUM : k \in T
    BY <1>1, <1>2, <1>3, UpTo
  <2> QED
    BY <2>1, <1>1
<1>5. after = [n \in 0..FD_NUM |-> F(after, n)]
  <2> HIDE DEF F
  <2> QED
    BY <1>4
<1>6. exit_file(s, fds) = after[FD_NUM]
  BY DEF exit_file
<1>7. \A n \in 0..FD_NUM : after[n] = F(after, n)
  <2> HIDE DEF F, after
  <2> QED
    BY <1>5
<1>8. 0 \in 0..FD_NUM /\ \A n \in 1..FD_NUM : n \in 0..FD_NUM /\ n # 0
  BY <1>1
<1> HIDE DEF after
<1> QED
  BY <1>6, <1>7, <1>8

(* fm_exit_file(): the descriptors of p count no more. *)
LEMMA ExitFile ==
  ASSUME NEW s, NEW tab, IsTable(tab), NEW D \in SUBSET Descriptor, Counts(s, tab, D),
         NEW p \in Procs, {p} \X Fds \subseteq D
  PROVE  Counts(exit_file(s, tab[p]), tab, D \ ({p} \X Fds))
<1>1. PICK g : /\ exit_file(s, tab[p]) = g[FD_NUM] /\ g[0] = s
               /\ \A n \in 1..FD_NUM :
                    g[n] = IF tab[p][n - 1] = NULL THEN g[n - 1]
                           ELSE release_file_entry(g[n - 1], tab[p][n - 1])
  BY ExitTurns
<1> DEFINE Seen(n) == {p} \X (0..(n - 1))
           T == {n \in 0..FD_NUM : Counts(g[n], tab, D \ Seen(n))}
<1>2. FD_NUM \in Nat
  BY FileAssumption
<1>3. 0 \in T
  <2>1. D \ Seen(0) = D
    OBVIOUS
  <2> QED
    BY <2>1, <1>1, <1>2
<1>4. ASSUME NEW k \in 0..(FD_NUM - 1), k \in T PROVE k + 1 \in T
  <2> DEFINE x == <<p, k>>
  <2>1. k \in Fds /\ k + 1 \in 1..FD_NUM /\ k + 1 - 1 = k /\ k + 1 \in 0..FD_NUM
    BY <1>2 DEF Fds
  <2>2. Seen(k + 1) = Seen(k) \cup {x} /\ x \notin Seen(k)
    BY <2>1, <1>2
  <2>3. x \in D \ Seen(k) /\ D \ Seen(k) \in SUBSET Descriptor
    BY <2>1, <2>2
  <2>4. D \ Seen(k + 1) = (D \ Seen(k)) \ {x}
    BY <2>2
  <2>5. tab[x[1]][x[2]] = tab[p][k] /\ tab[p][k] \in Files \cup {NULL}
    BY <2>1 DEF IsTable
  <2>6. g[k + 1] = IF tab[p][k] = NULL THEN g[k] ELSE release_file_entry(g[k], tab[p][k])
    BY <1>1, <2>1
  <2>7. Counts(g[k], tab, D \ Seen(k))
    BY <1>4
  <2> DEFINE E == D \ Seen(k)
  <2> HIDE DEF Seen, x
  <2>8. Counts(g[k + 1], tab, E \ {x})
    <3> HIDE DEF E
    <3>1. E \in SUBSET Descriptor /\ x \in E /\ Counts(g[k], tab, E)
      BY <2>3, <2>7 DEF E
    <3>2. CASE tab[p][k] = NULL
      <4>1. \A e \in Files : Leads(tab, E \ {x}, e) = Leads(tab, E, e)
        BY <3>2, <2>5, FileAssumption DEF Leads, Files, NULL
      <4> QED
        BY <4>1, <3>1, <3>2, <2>6 DEF Counts, EntriesOK
    <3>3. CASE tab[p][k] # NULL
      <4>1. tab[p][k] \in Files
        BY <3>3, <2>5
      <4> QED
        BY <4>1, <3>1, <3>3, <2>5, <2>6, ReleaseEntry, SMTT(60)
    <3> QED
      BY <3>2, <3>3
  <2> QED
    BY <2>1, <2>4, <2>8
<1>5. FD_NUM \in T
  <2> HIDE DEF T
  <2>1. \A k \in 0..FD_NUM : k \in T
    BY <1>2, <1>3, <1>4, UpTo
  <2> QED
    BY <2>1, <1>2
<1>6. Seen(FD_NUM) = {p} \X Fds
  BY DEF Fds
<1> HIDE DEF Seen
<1> QED
  BY <1>1, <1>5, <1>6

-----------------------------------------------------------------------------
(* The other handlers. *)

Shared(s, e) == [s EXCEPT !.entry[e].count = @ + 1]

Shares(tab, tab1, D, p, fd, new) ==
  /\ D \in SUBSET Descriptor /\ <<p, fd>> \in D /\ <<p, new>> \in D /\ tab[p][new] = NULL
  /\ tab[p][fd] \in Files /\ tab1[p][new] = tab[p][fd]
  /\ \A y \in D \ {<<p, new>>} : tab1[y[1]][y[2]] = tab[y[1]][y[2]]

(* A descriptor that was closed leads to an entry in use: dup(), dup2(). *)
LEMMA ShareEntry ==
  ASSUME NEW s, NEW tab, NEW tab1, NEW D, NEW p, NEW fd, NEW new,
         Shares(tab, tab1, D, p, fd, new), Counts(s, tab, D)
  PROVE  Counts(Shared(s, tab[p][fd]), tab1, D)
<1> USE DEF Shares, Shared
<1> DEFINE e == tab[p][fd]
           x == <<p, new>>
           E == D \ {x}
           en == s.entry
           en1 == [en EXCEPT ![e].count = en[e].count + 1]
           r == [s EXCEPT !.entry[e].count = @ + 1]
<1>1. /\ IsTables(s) /\ EntriesOK(en, s.free_open_file_list, tab, D)
      /\ VnodesOK(s.vnode, en, s.active_vnode_list, s.free_vnode_list)
  BY DEF Counts
<1>2. /\ IsTables(r) /\ r.entry = en1 /\ r.free_open_file_list = s.free_open_file_list
      /\ r.vnode = s.vnode /\ r.active_vnode_list = s.active_vnode_list
      /\ r.free_vnode_list = s.free_vnode_list
  BY <1>1 DEF IsTables
<1>3. EntriesOK(en, s.free_open_file_list, tab, E)
  <2>1. \A f \in Files : Leads(tab, E, f) = Leads(tab, D, f)
    BY FileAssumption DEF Leads, Files, NULL
  <2> QED
    BY <2>1, <1>1 DEF EntriesOK
<1>4. en[e].count # 0
  <2>1. <<p, fd>> \in Leads(tab, D, e) /\ IsFiniteSet(Leads(tab, D, e))
    BY Finitely DEF Leads
  <2>2. Cardinality(Leads(tab, D, e)) # 0
    BY <2>1, OneLess
  <2> QED
    BY <2>2, <1>1 DEF EntriesOK
<1>5. /\ E \in SUBSET Descriptor /\ x \in Descriptor \ E /\ e \in Files /\ tab1[x[1]][x[2]] = e
      /\ \A y \in E : tab1[y[1]][y[2]] = tab[y[1]][y[2]]
  OBVIOUS
<1>6. EntriesOK(en1, s.free_open_file_list, tab1, E \cup {x}) /\ \A v : Holders(en1, v) = Holders(en, v)
  <2>1. AreEntries(en) /\ en[e].count + 1 \in Nat
    <3> HIDE DEF en, e
    <3> QED
      BY <1>1, <1>5 DEF EntriesOK, AreEntries
  <2>2. AreEntries(en1) /\ \A f \in Files : /\ en1[f].vnode = en[f].vnode
                          /\ en1[f].count = IF f = e THEN en[e].count + 1 ELSE en[f].count
    <3> HIDE DEF en, e
    <3> QED
      BY <2>1, <1>5, EntryCount
  <2> HIDE DEF E, x, e, en, en1
  <2>3. Joins(en, s.free_open_file_list, tab, tab1, E, x, e, en1)
    BY <2>2, <1>3, <1>4, <1>5 DEF Joins
  <2>4. HasJoined(en, s.free_open_file_list, tab1, E, x, en1)
    BY <2>3, EntryMore
  <2> QED
    BY <2>4 DEF HasJoined
<1>7. VnodesOK(s.vnode, en1, s.active_vnode_list, s.free_vnode_list)
  <2> HIDE DEF en1, en
  <2> QED
    BY <1>1, <1>6, VnodesSame
<1>8. E \cup {x} = D
  OBVIOUS
<1> HIDE DEF r, E, en1
<1>9. Counts(r, tab1, D)
  BY <1>2, <1>6, <1>7, <1>8 DEF Counts
<1> QED
  BY <1>9 DEF r

-----------------------------------------------------------------------------
(* Making files and directories touches neither entries nor vnodes. *)

SameFiles(s, t) ==
  /\ IsTables(t) /\ t.vnode = s.vnode /\ t.active_vnode_list = s.active_vnode_list
  /\ t.free_vnode_list = s.free_vnode_list /\ t.entry = s.entry
  /\ t.free_open_file_list = s.free_open_file_list

(* A new name in a directory. *)
LEMMA AddName ==
  ASSUME NEW s, IsTables(s), NEW d, NEW name, NEW index
  PROVE  SameFiles(s, add_inode_into_dir(s, d, name, index))
<1> DEFINE dd == [s.disk EXCEPT ![d].data = Append(s.disk[d].data, Entry(name, index))]
           t == add_inode_into_dir(s, d, name, index)
<1>1. t = [s EXCEPT !.disk = dd]
  BY DEF add_inode_into_dir
<1> HIDE DEF dd, t
<1>2. SameFiles(s, t)
  BY <1>1 DEF IsTables, SameFiles
<1> QED
  BY <1>2 DEF t

(* A new inode. *)
LEMMA AddInode ==
  ASSUME NEW s, IsTables(s), NEW ino
  PROVE  SameFiles(s, NewInode(s, ino))
<1> DEFINE dd == [s.disk EXCEPT ![FreeInode(s)] = ino]
           b == s.inode_bitmap \cup {FreeInode(s)}
           i == FreeInode(s)
           t == NewInode(s, ino)
<1>1. t = [s EXCEPT !.inode_bitmap = b, !.inode_bit_index = i, !.disk = dd]
  BY DEF NewInode
<1> HIDE DEF dd, t, b, i
<1>2. SameFiles(s, t)
  BY <1>1 DEF IsTables, SameFiles
<1> QED
  BY <1>2 DEF t

(* A new directory. *)
LEMMA AddDir ==
  ASSUME NEW s, IsTables(s), NEW d, NEW name
  PROVE  SameFiles(s, MakeDir(s, d, name))
<1> DEFINE k == FreeInode(s)
           new == NewInode(s, Dir(<<Entry(".", k), Entry("..", d)>>))
<1>1. SameFiles(s, new)
  BY AddInode
<1>2. SameFiles(new, add_inode_into_dir(new, d, name, k))
  <2> HIDE DEF new, k
  <2> QED
    BY <1>1, AddName DEF SameFiles
<1>3. MakeDir(s, d, name) = add_inode_into_dir(new, d, name, k)
  BY DEF MakeDir
<1> HIDE DEF new, k
<1> QED
  BY <1>1, <1>2, <1>3 DEF SameFiles

(* The loop of _create_dir(): after k names the directories down to there exist. *)
LEMMA DirTurns ==
  ASSUME NEW s, NEW d, NEW names, Len(names) \in Nat
  PROVE  \E g : /\ CreateDir(s, d, names) = g[Len(names)] /\ g[0] = [s |-> s, dir |-> d]
                /\ \A k \in 1..Len(names) :
                     g[k].s = IF Find(g[k - 1].s, g[k - 1].dir, names[k]) = NoInode
                              THEN MakeDir(g[k - 1].s, g[k - 1].dir, names[k]) ELSE g[k - 1].s
<1> DEFINE N == Len(names)
           Turn(up, name) ==
             LET t == IF Find(up.s, up.dir, name) = NoInode THEN MakeDir(up.s, up.dir, name) ELSE up.s
             IN [s |-> t, dir |-> Find(t, up.dir, name)]
           F(g, n) == IF n = 0 THEN [s |-> s, dir |-> d] ELSE Turn(g[n - 1], names[n])
           T == {k \in 0..N : \E g : g = [n \in 0..k |-> F(g, n)]}
           at == CHOOSE g : g = [n \in 0..N |-> F(g, n)]
<1>6. CreateDir(s, d, names) = at[N]
  BY DEF CreateDir
<1>7. \A up, name : Turn(up, name).s = IF Find(up.s, up.dir, name) = NoInode
                                       THEN MakeDir(up.s, up.dir, name) ELSE up.s
  OBVIOUS
<1> HIDE DEF Turn
<1>2. 0 \in T
  <2> DEFINE g == [n \in 0..0 |-> [s |-> s, dir |-> d]]
  <2>1. g = [n \in 0..0 |-> F(g, n)]
    OBVIOUS
  <2>2. 0 \in 0..N
    OBVIOUS
  <2> HIDE DEF g, F
  <2> QED
    BY <2>1, <2>2
<1>3. ASSUME NEW k \in 0..(N - 1), k \in T PROVE k + 1 \in T
  <2>1. PICK g : g = [n \in 0..k |-> F(g, n)]
    BY <1>3
  <2> DEFINE h == [n \in 0..(k + 1) |-> IF n <= k THEN g[n] ELSE F(g, k + 1)]
  <2>2. \A n \in 0..(k + 1) : h[n] = F(h, n)
    <3> TAKE n \in 0..(k + 1)
    <3>1. n # 0 => n - 1 \in 0..k /\ h[n - 1] = g[n - 1]
      OBVIOUS
    <3>2. F(h, n) = F(g, n)
      <4> HIDE DEF h
      <4> QED
        BY <3>1
    <3>3. h[n] = F(g, n)
      <4>1. CASE n <= k
        <5>1. n \in 0..k /\ h[n] = g[n]
          BY <4>1
        <5> HIDE DEF F, h
        <5> QED
          BY <5>1, <2>1
      <4>2. CASE ~(n <= k)
        <5>1. n = k + 1
          BY <4>2
        <5> HIDE DEF F
        <5> QED
          BY <5>1, <4>2
      <4> QED
        BY <4>1, <4>2
    <3> HIDE DEF F, h
    <3> QED
      BY <3>2, <3>3
  <2>3. h = [n \in 0..(k + 1) |-> F(h, n)]
    <3> HIDE DEF F
    <3> QED
      BY <2>2
  <2> HIDE DEF h, F
  <2>4. k + 1 \in 0..N
    OBVIOUS
  <2> QED
    BY <2>3, <2>4
<1>4. N \in T
  <2> HIDE DEF T
  <2>1. \A k \in 0..N : k \in T
    BY <1>2, <1>3, UpTo
  <2> QED
    BY <2>1
<1>5. at = [n \in 0..N |-> F(at, n)]
  <2> HIDE DEF F, N
  <2> QED
    BY <1>4
<1>8. \A n \in 0..N : at[n] = F(at, n)
  <2> HIDE DEF F, at
  <2> QED
    BY <1>5
<1> HIDE DEF at
<1>9. at[0] = [s |-> s, dir |-> d]
  BY <1>8
<1>10. \A k \in 1..N : at[k] = Turn(at[k - 1], names[k])
  BY <1>8
<1>11. \A k \in 1..N : at[k].s = IF Find(at[k - 1].s, at[k - 1].dir, names[k]) = NoInode
                                 THEN MakeDir(at[k - 1].s, at[k - 1].dir, names[k]) ELSE at[k - 1].s
  BY <1>7, <1>10
<1> QED
  BY <1>6, <1>9, <1>11

(* _create_dir() *)
LEMMA CreateDirKeeps ==
  ASSUME NEW s, IsTables(s), NEW d, NEW names, Len(names) \in Nat
  PROVE  SameFiles(s, CreateDir(s, d, names).s)
<1>1. PICK g : /\ CreateDir(s, d, names) = g[Len(names)] /\ g[0] = [s |-> s, dir |-> d]
               /\ \A k \in 1..Len(names) :
                    g[k].s = IF Find(g[k - 1].s, g[k - 1].dir, names[k]) = NoInode
                             THEN MakeDir(g[k - 1].s, g[k - 1].dir, names[k]) ELSE g[k - 1].s
  BY DirTurns
<1> DEFINE T == {k \in 0..Len(names) : SameFiles(s, g[k].s)}
<1>2. 0 \in T
  <2>1. g[0].s = s
    BY <1>1
  <2> QED
    BY <2>1 DEF SameFiles
<1>3. ASSUME NEW k \in 0..(Len(names) - 1), k \in T PROVE k + 1 \in T
  <2>1. k + 1 \in 1..Len(names) /\ k + 1 \in 0..Len(names) /\ k + 1 - 1 = k
    OBVIOUS
  <2>2. g[k + 1].s = IF Find(g[k].s, g[k].dir, names[k + 1]) = NoInode
                     THEN MakeDir(g[k].s, g[k].dir, names[k + 1]) ELSE g[k].s
    BY <1>1, <2>1
  <2>3. SameFiles(s, g[k].s) /\ IsTables(g[k].s)
    BY <1>3 DEF SameFiles
  <2>4. SameFiles(g[k].s, MakeDir(g[k].s, g[k].dir, names[k + 1]))
    BY <2>3, AddDir
  <2>5. SameFiles(s, g[k + 1].s)
    BY <2>2, <2>3, <2>4 DEF SameFiles
  <2> QED
    BY <2>1, <2>5
<1>4. Len(names) \in T
  <2> HIDE DEF T
  <2>1. \A k \in 0..Len(names) : k \in T
    BY <1>2, <1>3, UpTo
  <2> QED
    BY <2>1
<1> QED
  BY <1>1, <1>4

(* _create() *)
LEMMA CreateFileKeeps ==
  ASSUME NEW s, IsTables(s), NEW d, NEW S, NEW names \in Seq(S)
  PROVE  SameFiles(s, CreateFile(s, d, names))
<1> DEFINE at == CreateDir(s, d, Front(names))
           new == NewInode(at.s, Plain(<<>>))
           t == add_inode_into_dir(new, at.dir, Last(names), FreeInode(at.s))
<1>1. Len(Front(names)) \in Nat
  BY DEF Front
<1>2. SameFiles(s, at.s)
  BY <1>1, CreateDirKeeps
<1>3. SameFiles(at.s, new)
  <2> HIDE DEF at
  <2> QED
    BY <1>2, AddInode DEF SameFiles
<1>4. SameFiles(new, t)
  <2> HIDE DEF at, new
  <2> QED
    BY <1>3, AddName DEF SameFiles
<1>5. CreateFile(s, d, names) = t
  BY DEF CreateFile
<1> HIDE DEF at, new, t
<1> QED
  BY <1>2, <1>3, <1>4, <1>5 DEF SameFiles

(* A name is deleted. *)
LEMMA DeleteNameKeeps ==
  ASSUME NEW s, IsTables(s), NEW d, NEW name
  PROVE  SameFiles(s, DeleteName(s, d, name))
<1> DEFINE b == s.inode_bitmap \ Below(s, Find(s, d, name))
           t == [s EXCEPT !.inode_bitmap = b]
           dd == [t.disk EXCEPT ![d].data =
                    Front(ReplaceAt(t.disk[d].data, Position(t, d, name), Last(t.disk[d].data)))]
           u == [t EXCEPT !.disk = dd]
<1>1. DeleteName(s, d, name) = u
  BY DEF DeleteName, remove_inode_from_dir
<1>2. SameFiles(s, t)
  <2> HIDE DEF b
  <2> QED
    BY DEF IsTables, SameFiles
<1>3. SameFiles(t, u)
  <2> HIDE DEF dd, t
  <2> QED
    BY <1>2 DEF IsTables, SameFiles
<1> HIDE DEF t, u
<1> QED
  BY <1>1, <1>2, <1>3 DEF SameFiles

DeleteRun(g, s, N) ==
  /\ g[0].s = s
  /\ \A k \in 1..N : g[k].s = g[k - 1].s \/ \E e, n : g[k].s = DeleteName(g[k - 1].s, e, n)

(* The loop of _delete_file(): a turn deletes a name or the last turn was before. *)
LEMMA DeleteTurns ==
  ASSUME NEW s, NEW d, NEW name, NEW type, NEW behind, NEW N \in Nat, N = Len(<<name>> \o behind)
  PROVE  \E g : Delete(s, d, name, type, behind) = g[N].s /\ DeleteRun(g, s, N)
<1> DEFINE names == <<name>> \o behind
           Turn(now, n) ==
             IF now.dir # NoInode /\ Deletable(now.s, now.dir, n, type)
             THEN [s |-> DeleteName(now.s, now.dir, n), dir |-> Find(now.s, now.dir, n)]
             ELSE [s |-> now.s, dir |-> NoInode]
           F(g, n) == IF n = 0 THEN [s |-> s, dir |-> d] ELSE Turn(g[n - 1], names[n])
           T == {k \in 0..N : \E g : g = [n \in 0..k |-> F(g, n)]}
           at == CHOOSE g : g = [n \in 0..N |-> F(g, n)]
<1>6. Delete(s, d, name, type, behind) = at[N].s
  BY DEF Delete
<1>7. \A now, n : Turn(now, n).s = now.s \/ Turn(now, n).s = DeleteName(now.s, now.dir, n)
  OBVIOUS
<1> HIDE DEF names
<1> HIDE DEF Turn
<1>2. 0 \in T
  <2> DEFINE g == [n \in 0..0 |-> [s |-> s, dir |-> d]]
  <2>1. g = [n \in 0..0 |-> F(g, n)]
    OBVIOUS
  <2>2. 0 \in 0..N
    OBVIOUS
  <2> HIDE DEF g, F
  <2> QED
    BY <2>1, <2>2
<1>3. ASSUME NEW k \in 0..(N - 1), k \in T PROVE k + 1 \in T
  <2>1. PICK g : g = [n \in 0..k |-> F(g, n)]
    BY <1>3
  <2> DEFINE h == [n \in 0..(k + 1) |-> IF n <= k THEN g[n] ELSE F(g, k + 1)]
  <2>2. \A n \in 0..(k + 1) : h[n] = F(h, n)
    <3> TAKE n \in 0..(k + 1)
    <3>1. n # 0 => n - 1 \in 0..k /\ h[n - 1] = g[n - 1]
      OBVIOUS
    <3>2. F(h, n) = F(g, n)
      <4> HIDE DEF h
      <4> QED
        BY <3>1
    <3>3. h[n] = F(g, n)
      <4>1. CASE n <= k
        <5>1. n \in 0..k /\ h[n] = g[n]
          BY <4>1
        <5> HIDE DEF F, h
        <5> QED
          BY <5>1, <2>1
      <4>2. CASE ~(n <= k)
        <5>1. n = k + 1
          BY <4>2
        <5> HIDE DEF F
        <5> QED
          BY <5>1, <4>2
      <4> QED
        BY <4>1, <4>2
    <3> HIDE DEF F, h
    <3> QED
      BY <3>2, <3>3
  <2>3. h = [n \in 0..(k + 1) |-> F(h, n)]
    <3> HIDE DEF F
    <3> QED
      BY <2>2
  <2> HIDE DEF h, F
  <2>4. k + 1 \in 0..N
    OBVIOUS
  <2> QED
    BY <2>3, <2>4
<1>4. N \in T
  <2> HIDE DEF T
  <2>1. \A k \in 0..N : k \in T
    BY <1>2, <1>3, UpTo
  <2> QED
    BY <2>1
<1>5. at = [n \in 0..N |-> F(at, n)]
  <2> HIDE DEF F
  <2> QED
    BY <1>4
<1>8. \A n \in 0..N : at[n] = F(at, n)
  <2> HIDE DEF F, at
  <2> QED
    BY <1>5
<1> HIDE DEF at
<1>9. at[0] = [s |-> s, dir |-> d]
  BY <1>8
<1>10. \A k \in 1..N : at[k] = Turn(at[k - 1], names[k])
  BY <1>8
<1>11. \A k \in 1..N : at[k].s = at[k - 1].s \/ at[k].s = DeleteName(at[k - 1].s, at[k - 1].dir, names[k])
  BY <1>7, <1>10
<1>12. at[0].s = s
  BY <1>9
<1>13. DeleteRun(at, s, N)
  BY <1>11, <1>12 DEF DeleteRun
<1> QED
  BY <1>6, <1>13, Zenon

(* _delete_file() *)
LEMMA DeleteKeeps ==
  ASSUME NEW s, IsTables(s), NEW d, NEW name, NEW type, NEW S, NEW behind \in Seq(S)
  PROVE  SameFiles(s, Delete(s, d, name, type, behind))
<1>9. PICK N : N = Len(<<name>> \o behind)
  OBVIOUS
<1>0. N \in Nat
  <2>1. <<name>> \in Seq(S \cup {name}) /\ behind \in Seq(S \cup {name})
    OBVIOUS
  <2>2. <<name>> \o behind \in Seq(S \cup {name})
    BY <2>1
  <2> QED
    BY <1>9, <2>2
<1>1. PICK g : Delete(s, d, name, type, behind) = g[N].s /\ DeleteRun(g, s, N)
  <2> HIDE DEF DeleteRun
  <2>1. \E g : Delete(s, d, name, type, behind) = g[N].s /\ DeleteRun(g, s, N)
    BY <1>0, <1>9, DeleteTurns
  <2> QED
    BY <2>1
<1> DEFINE T == {k \in 0..N : SameFiles(s, g[k].s)}
<1>2. 0 \in T
  BY <1>0, <1>1 DEF SameFiles, DeleteRun
<1>3. ASSUME NEW k \in 0..(N - 1), k \in T PROVE k + 1 \in T
  <2>1. k + 1 \in 1..N /\ k + 1 \in 0..N /\ k + 1 - 1 = k
    BY <1>0
  <2>2. g[k + 1].s = g[k].s \/ \E e, n : g[k + 1].s = DeleteName(g[k].s, e, n)
    BY <1>1, <2>1 DEF DeleteRun
  <2>3. SameFiles(s, g[k].s) /\ IsTables(g[k].s)
    BY <1>3 DEF SameFiles
  <2>4. \A e, n : SameFiles(g[k].s, DeleteName(g[k].s, e, n))
    BY <2>3, DeleteNameKeeps
  <2>5. SameFiles(s, g[k + 1].s)
    BY <2>2, <2>3, <2>4 DEF SameFiles
  <2> QED
    BY <2>1, <2>5
<1>4. N \in T
  <2> HIDE DEF T
  <2>1. \A k \in 0..N : k \in T
    BY <1>0, <1>2, <1>3, UpTo
  <2> QED
    BY <1>0, <2>1
<1> QED
  BY <1>1, <1>4

(* Counts look at entries and vnodes only. *)
LEMMA SameCounts ==
  ASSUME NEW s, NEW t, SameFiles(s, t), NEW tab, NEW D, Counts(s, tab, D)
  PROVE  Counts(t, tab, D)
BY DEF SameFiles, Counts

-----------------------------------------------------------------------------
(* Taking an entry, and a vnode for it. *)

(* get_free_file_entry() *)
LEMMA GetEntry ==
  ASSUME NEW s, IsTables(s), AreEntries(s.entry), NEW v, NEW e, e = Head(s.free_open_file_list),
         e \in Files
  PROVE  LET r == get_free_file_entry(s, v)
         IN /\ IsTables(r) /\ AreEntries(r.entry)
            /\ r.vnode = s.vnode /\ r.active_vnode_list = s.active_vnode_list
            /\ r.free_vnode_list = s.free_vnode_list
            /\ r.free_open_file_list = Tail(s.free_open_file_list)
            /\ r.entry[e].count = 1 /\ r.entry[e].vnode = v
            /\ \A f \in Files \ {e} : r.entry[f] = s.entry[f]
<1> DEFINE en == s.entry
           tl == Tail(s.free_open_file_list)
           en1 == [en EXCEPT ![e].count = 1]
           en2 == [en1 EXCEPT ![e].vnode = v]
           r == get_free_file_entry(s, v)
<1>1. r = [s EXCEPT !.free_open_file_list = tl, !.entry = en2]
  BY DEF get_free_file_entry, IsTables
<1>2. AreEntries(en1) /\ en1[e].count = 1 /\ \A f \in Files \ {e} : en1[f] = en[f]
  <2>1. AreEntries(en)
    OBVIOUS
  <2> HIDE DEF en
  <2>2. /\ en1 = [f \in Files |-> en1[f]]
        /\ en1[e] = [en[e] EXCEPT !.count = 1] /\ \A f \in Files \ {e} : en1[f] = en[f]
    BY <2>1 DEF AreEntries
  <2>3. en[e] = [offset |-> en[e].offset, count |-> en[e].count, vnode |-> en[e].vnode]
    BY <2>1 DEF AreEntries
  <2> HIDE DEF en1
  <2>4. en1[e] = [offset |-> en[e].offset, count |-> 1, vnode |-> en[e].vnode]
    BY <2>2, <2>3
  <2>5. /\ en1[e] = [offset |-> en1[e].offset, count |-> en1[e].count, vnode |-> en1[e].vnode]
        /\ en1[e].count = 1 /\ 1 \in Nat
    BY <2>4
  <2> QED
    BY <2>1, <2>2, <2>5 DEF AreEntries
<1>3. /\ AreEntries(en2) /\ en2[e].count = 1 /\ en2[e].vnode = v
      /\ \A f \in Files \ {e} : en2[f] = en[f]
  <2>1. /\ en2 = [f \in Files |-> en2[f]]
        /\ en2[e] = [en1[e] EXCEPT !.vnode = v] /\ \A f \in Files \ {e} : en2[f] = en1[f]
    <3> HIDE DEF en1
    <3> QED
      BY <1>2 DEF AreEntries
  <2>2. en1[e] = [offset |-> en1[e].offset, count |-> en1[e].count, vnode |-> en1[e].vnode]
    BY <1>2 DEF AreEntries
  <2>3. en2[e] = [offset |-> en1[e].offset, count |-> en1[e].count, vnode |-> v]
    <3> HIDE DEF en1, en2
    <3> QED
      BY <2>1, <2>2
  <2>4. /\ en2[e] = [offset |-> en2[e].offset, count |-> en2[e].count, vnode |-> en2[e].vnode]
        /\ en2[e].count = 1 /\ en2[e].vnode = v
    <3> HIDE DEF en1, en2
    <3> QED
      BY <2>3, <1>2
  <2> HIDE DEF en, en1, en2
  <2> QED
    BY <2>1, <2>4, <1>2 DEF AreEntries
<1>4. /\ IsTables(r) /\ r.entry = en2 /\ r.free_open_file_list = tl
      /\ r.vnode = s.vnode /\ r.active_vnode_list = s.active_vnode_list
      /\ r.free_vnode_list = s.free_vnode_list
  <2> HIDE DEF tl, en2, r
  <2> QED
    BY <1>1 DEF IsTables
<1> HIDE DEF en2, r, tl
<1>5. /\ IsTables(r) /\ AreEntries(r.entry)
      /\ r.vnode = s.vnode /\ r.active_vnode_list = s.active_vnode_list
      /\ r.free_vnode_list = s.free_vnode_list
      /\ r.free_open_file_list = Tail(s.free_open_file_list)
      /\ r.entry[e].count = 1 /\ r.entry[e].vnode = v
      /\ \A f \in Files \ {e} : r.entry[f] = s.entry[f]
  BY <1>3, <1>4 DEF tl
<1> QED
  BY <1>5 DEF r

(* get_free_vnode() *)
LEMMA GetVnode ==
  ASSUME NEW s, IsTables(s), NEW index, NEW ino
  PROVE  LET r == get_free_vnode(s, index, ino)
             v == Head(s.free_vnode_list)
         IN /\ IsTables(r) /\ r.entry = s.entry
            /\ r.free_open_file_list = s.free_open_file_list
            /\ r.vnode = [s.vnode EXCEPT ![v] = [index |-> index, inode |-> ino, count |-> 1]]
            /\ r.active_vnode_list = Append(s.active_vnode_list, v)
            /\ r.free_vnode_list = Tail(s.free_vnode_list)
<1> DEFINE v == Head(s.free_vnode_list)
           r == get_free_vnode(s, index, ino)
           tl == Tail(s.free_vnode_list)
           av == Append(s.active_vnode_list, v)
           vn == [s.vnode EXCEPT ![v] = [index |-> index, inode |-> ino, count |-> 1]]
<1>1. r = [s EXCEPT !.free_vnode_list = tl, !.active_vnode_list = av, !.vnode = vn]
  BY DEF get_free_vnode
<1>2. /\ IsTables(r) /\ r.entry = s.entry /\ r.free_open_file_list = s.free_open_file_list
      /\ r.vnode = vn /\ r.active_vnode_list = av /\ r.free_vnode_list = tl
  <2> HIDE DEF r, tl, av, vn
  <2> QED
    BY <1>1 DEF IsTables
<1> QED
  BY <1>2

(* A closed descriptor counts for nothing. *)
LEMMA ClosedCounts ==
  ASSUME NEW s, NEW tab, NEW D, NEW x, tab[x[1]][x[2]] = NULL
  PROVE  Counts(s, tab, D) <=> Counts(s, tab, D \ {x})
<1>1. \A e \in Files : Leads(tab, D \ {x}, e) = Leads(tab, D, e)
  BY FileAssumption DEF Leads, Files, NULL
<1> QED
  BY <1>1 DEF Counts, EntriesOK

(* Only the table at the descriptors that count matters. *)
LEMMA SameTable ==
  ASSUME NEW s, NEW tab, NEW tab1, NEW D, Counts(s, tab, D),
         \A y \in D : tab1[y[1]][y[2]] = tab[y[1]][y[2]]
  PROVE  Counts(s, tab1, D)
<1>1. \A e \in Files : Leads(tab1, D, e) = Leads(tab, D, e)
  BY DEF Leads
<1> QED
  BY <1>1 DEF Counts, EntriesOK

\* Descriptor x, which does not count yet, leads to the first free entry.
CanOpen(s, tab, tab1, D, x) ==
  /\ D \in SUBSET Descriptor /\ Counts(s, tab, D)
  /\ x \in Descriptor \ D /\ \A y \in D : tab1[y[1]][y[2]] = tab[y[1]][y[2]]
  /\ s.free_open_file_list # <<>> /\ tab1[x[1]][x[2]] = Head(s.free_open_file_list)

\* An entry on an active vnode, and on a free one.
Opened(s, v) == get_free_file_entry([s EXCEPT !.vnode[v].count = @ + 1], v)
OpenedNew(s, index, ino) ==
  get_free_file_entry(get_free_vnode(s, index, ino), Head(s.free_vnode_list))

(* An entry for descriptor x on an active vnode v. *)
LEMMA OpenActive ==
  ASSUME NEW s, NEW tab, NEW tab1, NEW D, NEW x, CanOpen(s, tab, tab1, D, x),
         NEW v \in Vnodes, s.vnode[v].count # 0
  PROVE  /\ Counts(Opened(s, v), tab1, D \cup {x})
         /\ Opened(s, v).free_open_file_list = Tail(s.free_open_file_list)
<1> USE DEF CanOpen, Opened
<1> DEFINE en == s.entry
           fl == s.free_open_file_list
           e == Head(fl)
           vn1 == [s.vnode EXCEPT ![v].count = s.vnode[v].count + 1]
           t == [s EXCEPT !.vnode[v].count = @ + 1]
           r == get_free_file_entry(t, v)
<1>1. /\ IsTables(s) /\ EntriesOK(en, fl, tab, D)
      /\ VnodesOK(s.vnode, en, s.active_vnode_list, s.free_vnode_list)
  BY DEF Counts
<1>2. /\ IsTables(t) /\ t.entry = en /\ t.free_open_file_list = fl
      /\ t.vnode = vn1 /\ t.active_vnode_list = s.active_vnode_list
      /\ t.free_vnode_list = s.free_vnode_list
  <2>1. t = [s EXCEPT !.vnode = vn1]
    OBVIOUS
  <2> HIDE DEF vn1, t
  <2> QED
    BY <2>1, <1>1 DEF IsTables
<1>3. e \in Files /\ AreEntries(en)
  <2>1. Listed(fl, Files, {f \in Files : en[f].count = 0})
    BY <1>1 DEF EntriesOK
  <2> HIDE DEF en, fl
  <2>2. Head(fl) \in Files
    BY <2>1, TakeFirst DEF fl
  <2> QED
    BY <2>2, <1>1 DEF EntriesOK
<1>4. /\ IsTables(r) /\ AreEntries(r.entry)
      /\ r.vnode = vn1 /\ r.active_vnode_list = s.active_vnode_list
      /\ r.free_vnode_list = s.free_vnode_list /\ r.free_open_file_list = Tail(fl)
      /\ r.entry[e].count = 1 /\ r.entry[e].vnode = v
      /\ \A f \in Files \ {e} : r.entry[f] = en[f]
  <2> HIDE DEF t, vn1, en, fl
  <2>1. IsTables(t) /\ AreEntries(t.entry) /\ e = Head(t.free_open_file_list) /\ e \in Files
    BY <1>2, <1>3
  <2> HIDE DEF e
  <2>2. /\ IsTables(r) /\ AreEntries(r.entry)
        /\ r.vnode = t.vnode /\ r.active_vnode_list = t.active_vnode_list
        /\ r.free_vnode_list = t.free_vnode_list
        /\ r.free_open_file_list = Tail(t.free_open_file_list)
        /\ r.entry[e].count = 1 /\ r.entry[e].vnode = v
        /\ \A f \in Files \ {e} : r.entry[f] = t.entry[f]
    BY <2>1, GetEntry
  <2> HIDE DEF r
  <2> QED
    BY <2>2, <1>2
<1> HIDE DEF r, t, en, fl
<1>5. /\ EntriesOK(r.entry, Tail(fl), tab1, D \cup {x})
      /\ Holders(r.entry, v) = Holders(en, v) \cup {e} /\ e \notin Holders(en, v)
      /\ \A w : w # v => Holders(r.entry, w) = Holders(en, w)
  <2>1. fl # <<>> /\ tab1[x[1]][x[2]] = Head(fl)
    BY DEF fl
  <2> QED
    <3>1. Takes(en, fl, tab, tab1, D, x, v, r.entry)
      BY <1>1, <1>4, <2>1 DEF Takes
    <3>2. Taken(en, fl, tab1, D, x, v, r.entry)
      BY <3>1, EntryTaken
    <3> QED
      BY <3>2 DEF Taken
<1>6. VnodesOK(vn1, r.entry, s.active_vnode_list, s.free_vnode_list)
  <2> HIDE DEF e
  <2> QED
    BY <1>1, <1>5, VnodeMore
<1>7. Counts(r, tab1, D \cup {x})
  <2> HIDE DEF vn1
  <2> QED
    BY <1>4, <1>5, <1>6 DEF Counts
<1> QED
  BY <1>4, <1>7 DEF r, t, fl

(* An entry for descriptor x on a vnode that was free. *)
LEMMA OpenFree ==
  ASSUME NEW s, NEW tab, NEW tab1, NEW D, NEW x, CanOpen(s, tab, tab1, D, x),
         NEW index, NEW ino, s.free_vnode_list # <<>>
  PROVE  Counts(OpenedNew(s, index, ino), tab1, D \cup {x})
<1> USE DEF CanOpen, OpenedNew
<1> DEFINE en == s.entry
           fl == s.free_open_file_list
           fv == s.free_vnode_list
           av == s.active_vnode_list
           e == Head(fl)
           v == Head(fv)
           vn1 == [s.vnode EXCEPT ![v] = [index |-> index, inode |-> ino, count |-> 1]]
           t == get_free_vnode(s, index, ino)
           r == get_free_file_entry(t, v)
<1>1. IsTables(s) /\ EntriesOK(en, fl, tab, D) /\ VnodesOK(s.vnode, en, av, fv)
  BY DEF Counts
<1>2. /\ IsTables(t) /\ t.entry = en /\ t.free_open_file_list = fl
      /\ t.vnode = vn1 /\ t.active_vnode_list = Append(av, v) /\ t.free_vnode_list = Tail(fv)
  BY <1>1, GetVnode
<1>3. e \in Files /\ AreEntries(en)
  <2>1. Listed(fl, Files, {f \in Files : en[f].count = 0})
    BY <1>1 DEF EntriesOK
  <2> HIDE DEF en, fl
  <2>2. Head(fl) \in Files
    BY <2>1, TakeFirst DEF fl
  <2> QED
    BY <2>2, <1>1 DEF EntriesOK
<1>4. v \in Vnodes
  <2>1. Listed(fv, Vnodes, {w \in Vnodes : s.vnode[w].count = 0})
    BY <1>1 DEF VnodesOK
  <2> HIDE DEF fv
  <2> QED
    BY <2>1, TakeFirst DEF fv
<1>5. /\ IsTables(r) /\ AreEntries(r.entry)
      /\ r.vnode = vn1 /\ r.active_vnode_list = Append(av, v)
      /\ r.free_vnode_list = Tail(fv) /\ r.free_open_file_list = Tail(fl)
      /\ r.entry[e].count = 1 /\ r.entry[e].vnode = v
      /\ \A f \in Files \ {e} : r.entry[f] = en[f]
  <2> HIDE DEF t, vn1, en, fl, fv, av, v
  <2>1. IsTables(t) /\ AreEntries(t.entry) /\ e = Head(t.free_open_file_list) /\ e \in Files
    BY <1>2, <1>3
  <2> HIDE DEF e
  <2>2. /\ IsTables(r) /\ AreEntries(r.entry)
        /\ r.vnode = t.vnode /\ r.active_vnode_list = t.active_vnode_list
        /\ r.free_vnode_list = t.free_vnode_list
        /\ r.free_open_file_list = Tail(t.free_open_file_list)
        /\ r.entry[e].count = 1 /\ r.entry[e].vnode = v
        /\ \A f \in Files \ {e} : r.entry[f] = t.entry[f]
    BY <2>1, GetEntry
  <2> HIDE DEF r
  <2> QED
    BY <2>2, <1>2
<1> HIDE DEF r, t, en, fl
<1>6. /\ EntriesOK(r.entry, Tail(fl), tab1, D \cup {x})
      /\ Holders(r.entry, v) = Holders(en, v) \cup {e} /\ e \notin Holders(en, v)
      /\ \A w : w # v => Holders(r.entry, w) = Holders(en, w)
  <2>1. fl # <<>> /\ tab1[x[1]][x[2]] = Head(fl)
    BY DEF fl
  <2> HIDE DEF v, fv, av
  <2> QED
    <3>1. Takes(en, fl, tab, tab1, D, x, v, r.entry)
      BY <1>1, <1>4, <1>5, <2>1 DEF Takes
    <3>2. Taken(en, fl, tab1, D, x, v, r.entry)
      BY <3>1, EntryTaken
    <3> QED
      BY <3>2 DEF Taken
<1>7. VnodesOK(vn1, r.entry, Append(av, v), Tail(fv))
  <2>1. fv # <<>>
    OBVIOUS
  <2> HIDE DEF e, fv, av
  <2> QED
    BY <1>1, <1>6, <2>1, VnodeTaken
<1>8. Counts(r, tab1, D \cup {x})
  <2> HIDE DEF vn1, v, fv, av
  <2> QED
    BY <1>5, <1>6, <1>7 DEF Counts
<1> QED
  BY <1>8 DEF r, t

SetOffset(s, e, o) == [s EXCEPT !.entry[e].offset = o]

(* The offset of an entry is not counted. *)
LEMMA OffsetKeeps ==
  ASSUME NEW s, NEW tab, NEW D, Counts(s, tab, D), NEW e, NEW o
  PROVE  Counts(SetOffset(s, e, o), tab, D)
<1> USE DEF SetOffset
<1> DEFINE en == s.entry
           en1 == [en EXCEPT ![e].offset = o]
           r == [s EXCEPT !.entry[e].offset = o]
<1>1. AreEntries(en) /\ IsTables(s)
  BY DEF Counts, EntriesOK
<1>2. r = [s EXCEPT !.entry = en1]
  OBVIOUS
<1>3. /\ IsTables(r) /\ r.entry = en1 /\ r.free_open_file_list = s.free_open_file_list
      /\ r.vnode = s.vnode /\ r.active_vnode_list = s.active_vnode_list
      /\ r.free_vnode_list = s.free_vnode_list
  <2> HIDE DEF en1, r
  <2> QED
    BY <1>1, <1>2 DEF IsTables
<1>4. /\ AreEntries(en1)
      /\ \A f \in Files : en1[f].count = en[f].count /\ en1[f].vnode = en[f].vnode
  <2> HIDE DEF en
  <2>1. en1 = [f \in Files |-> en1[f]] /\ \A f \in Files \ {e} : en1[f] = en[f]
    BY <1>1 DEF AreEntries
  <2>2. ASSUME e \in Files
        PROVE  en1[e] = [offset |-> o, count |-> en[e].count, vnode |-> en[e].vnode]
    <3>1. en1[e] = [en[e] EXCEPT !.offset = o]
      BY <2>2, <1>1 DEF AreEntries
    <3>2. en[e] = [offset |-> en[e].offset, count |-> en[e].count, vnode |-> en[e].vnode]
      BY <2>2, <1>1 DEF AreEntries
    <3> HIDE DEF en1
    <3> QED
      BY <3>1, <3>2
  <2> HIDE DEF en1
  <2>3. \A f \in Files : /\ en1[f].count = en[f].count /\ en1[f].vnode = en[f].vnode
                         /\ en1[f] = [offset |-> en1[f].offset, count |-> en1[f].count,
                                      vnode |-> en1[f].vnode]
    <3> TAKE f \in Files
    <3>1. CASE f = e
      <4>1. en1[f] = [offset |-> o, count |-> en[f].count, vnode |-> en[f].vnode]
        BY <3>1, <2>2
      <4> QED
        BY <4>1
    <3>2. CASE f # e
      BY <3>2, <2>1, <1>1 DEF AreEntries
    <3> QED
      BY <3>1, <3>2
  <2> QED
    BY <2>1, <2>3, <1>1 DEF AreEntries
<1> HIDE DEF en1, r
<1>5. /\ \A v : Holders(en1, v) = Holders(s.entry, v)
      /\ {f \in Files : en1[f].count = 0} = {f \in Files : s.entry[f].count = 0}
  BY <1>4 DEF Holders
<1>6. EntriesOK(en1, s.free_open_file_list, tab, D)
  BY <1>4, <1>5 DEF Counts, EntriesOK
<1>7. VnodesOK(s.vnode, en1, s.active_vnode_list, s.free_vnode_list)
  BY <1>5 DEF Counts, VnodesOK
<1>8. Counts(r, tab, D)
  BY <1>3, <1>6, <1>7 DEF Counts
<1> QED
  BY <1>8 DEF r


-----------------------------------------------------------------------------
(* The terminals of the first process. *)

(* The loop of init_fd_table(). *)
LEMMA InitTurns ==
  ASSUME NEW s
  PROVE  \E g : /\ init_fd_table(s) = g[STD] /\ g[0] = s
                /\ \A n \in 1..STD : g[n] = Opened(g[n - 1], n)
<1> DEFINE F(g, n) == IF n = 0 THEN s
                      ELSE get_free_file_entry([g[n - 1] EXCEPT !.vnode[n].count = @ + 1], n)
           T == {k \in 0..STD : \E g : g = [n \in 0..k |-> F(g, n)]}
           after == CHOOSE g : g = [n \in 0..STD |-> F(g, n)]
<1>1. STD \in Nat
  BY FileAssumption
<1>6. init_fd_table(s) = after[STD]
  BY DEF init_fd_table
<1>9. \A g, n : F(g, n) = IF n = 0 THEN s ELSE Opened(g[n - 1], n)
  BY DEF Opened
<1> HIDE DEF F
<1>2. 0 \in T
  <2> DEFINE g == [n \in 0..0 |-> s]
  <2>1. g = [n \in 0..0 |-> F(g, n)]
    BY <1>9
  <2>2. 0 \in 0..STD
    BY <1>1
  <2> HIDE DEF g
  <2> QED
    BY <2>1, <2>2
<1>3. ASSUME NEW k \in 0..(STD - 1), k \in T PROVE k + 1 \in T
  <2>1. PICK g : g = [n \in 0..k |-> F(g, n)]
    BY <1>3
  <2> DEFINE h == [n \in 0..(k + 1) |-> IF n <= k THEN g[n] ELSE F(g, k + 1)]
  <2>2. \A n \in 0..(k + 1) : h[n] = F(h, n)
    <3> TAKE n \in 0..(k + 1)
    <3>1. n # 0 => n - 1 \in 0..k /\ h[n - 1] = g[n - 1]
      BY <1>1
    <3>2. F(h, n) = F(g, n)
      <4> HIDE DEF h
      <4> QED
        BY <3>1, <1>9
    <3>3. h[n] = F(g, n)
      <4>1. CASE n <= k
        <5>1. n \in 0..k /\ h[n] = g[n]
          BY <4>1, <1>1
        <5> HIDE DEF h
        <5> QED
          BY <5>1, <2>1
      <4>2. CASE ~(n <= k)
        <5>1. n = k + 1
          BY <4>2, <1>1
        <5> QED
          BY <5>1, <4>2
      <4> QED
        BY <4>1, <4>2
    <3> HIDE DEF h
    <3> QED
      BY <3>2, <3>3
  <2>3. h = [n \in 0..(k + 1) |-> F(h, n)]
    BY <2>2
  <2> HIDE DEF h
  <2>4. k + 1 \in 0..STD
    BY <1>1
  <2> QED
    BY <2>3, <2>4
<1>4. STD \in T
  <2> HIDE DEF T
  <2>1. \A k \in 0..STD : k \in T
    BY <1>1, <1>2, <1>3, UpTo
  <2> QED
    BY <2>1, <1>1
<1>5. after = [n \in 0..STD |-> F(after, n)]
  BY <1>4
<1>7. \A n \in 0..STD : after[n] = F(after, n)
  <2> HIDE DEF after
  <2> QED
    BY <1>5
<1>8. 0 \in 0..STD /\ \A n \in 1..STD : n \in 0..STD /\ n # 0
  BY <1>1
<1> HIDE DEF after
<1> QED
  BY <1>6, <1>7, <1>8, <1>9

(* init_fd_table(): the first descriptors of p lead to the first free entries. *)
LEMMA InitTable ==
  ASSUME NEW s, NEW tab, Counts(s, tab, {}), NEW p \in Procs, NEW tab1,
         Len(s.free_open_file_list) >= STD,
         \A fd \in 0..(STD - 1) : tab1[p][fd] = s.free_open_file_list[fd + 1]
  PROVE  Counts(init_fd_table(s), tab1, {p} \X (0..(STD - 1)))
<1> DEFINE fl == s.free_open_file_list
           Seen(n) == {p} \X (0..(n - 1))
           Rest(l, n) == /\ l \in Seq(Files) /\ Len(l) = Len(fl) - n
                         /\ \A i \in 1..Len(l) : l[i] = fl[i + n]
<1>1. PICK g : /\ init_fd_table(s) = g[STD] /\ g[0] = s
               /\ \A n \in 1..STD : g[n] = Opened(g[n - 1], n)
  BY InitTurns
<1> DEFINE T == {n \in 0..STD : /\ Counts(g[n], tab1, Seen(n))
                                /\ Rest(g[n].free_open_file_list, n)}
<1>2. STD \in Nat /\ STD <= FD_NUM /\ FD_NUM \in Nat /\ STD <= KERNEL_INODE_NUM /\ KERNEL_INODE_NUM \in Nat
  BY FileAssumption
<1>3. fl \in Seq(Files) /\ Len(fl) \in Nat
  BY DEF Counts, EntriesOK, Listed
<1>4. 0 \in T
  <2>1. Seen(0) = {}
    OBVIOUS
  <2>2. Counts(s, tab1, {})
    BY SameTable
  <2>3. Rest(fl, 0)
    BY <1>3
  <2> HIDE DEF Rest, Seen
  <2>4. 0 \in 0..STD
    BY <1>2
  <2>5. Counts(g[0], tab1, Seen(0))
    BY <2>1, <2>2, <1>1
  <2>6. Rest(g[0].free_open_file_list, 0)
    BY <2>3, <1>1
  <2> QED
    BY <2>4, <2>5, <2>6
<1>5. ASSUME NEW k \in 0..(STD - 1), k \in T PROVE k + 1 \in T
  <2> DEFINE x == <<p, k>>
             u == g[k]
             l == u.free_open_file_list
             D == Seen(k)
  <2>1. k \in Fds /\ k + 1 \in 1..STD /\ k + 1 - 1 = k /\ k + 1 \in 0..STD /\ k + 1 \in Vnodes /\ k + 1 \in Terms
    BY <1>2 DEF Fds, Vnodes, Terms
  <2>2. Counts(u, tab1, D) /\ Rest(l, k)
    BY <1>5
  <2>3. D \in SUBSET Descriptor /\ x \in Descriptor \ D /\ Seen(k + 1) = D \cup {x}
    BY <2>1, <1>2 DEF Descriptor, Fds
  <2>4. l # <<>> /\ Head(l) = fl[k + 1] /\ Rest(Tail(l), k + 1)
    <3>1. l \in Seq(Files) /\ Len(l) = Len(fl) - k /\ Len(l) \in Nat /\ Len(l) > 0
      BY <2>2, <1>2, <1>3
    <3>2. Head(l) = l[1] /\ Tail(l) \in Seq(Files) /\ Len(Tail(l)) = Len(l) - 1
          /\ \A i \in 1..(Len(l) - 1) : Tail(l)[i] = l[i + 1]
      BY <3>1
    <3>3. l # <<>> /\ Head(l) = fl[k + 1]
      BY <3>1, <3>2, <2>2
    <3>4. \A i \in 1..Len(Tail(l)) : Tail(l)[i] = fl[i + (k + 1)]
      <4> TAKE i \in 1..Len(Tail(l))
      <4>1. i \in 1..(Len(l) - 1) /\ i + 1 \in 1..Len(l)
        <5> HIDE DEF l
        <5> QED
          BY <3>1, <3>2, SMTT(60)
      <4>2. (i + 1) + k = i + (k + 1)
        <5>1. i \in Int /\ k \in Int
          BY <4>1, <1>2
        <5> QED
          BY <5>1
      <4> QED
        BY <4>1, <4>2, <3>2, <2>2
    <3>5. Len(Tail(l)) = Len(fl) - (k + 1)
      BY <3>1, <3>2, <1>3
    <3> QED
      BY <3>2, <3>3, <3>4, <3>5
  <2>5. u.vnode[k + 1].count # 0
    <3>1. u.vnode[k + 1].count = Cardinality(Holders(u.entry, k + 1)) + Extra(k + 1)
      BY <2>1, <2>2 DEF Counts, VnodesOK
    <3>2. Cardinality(Holders(u.entry, k + 1)) \in Nat /\ Extra(k + 1) = 1
      BY <2>1, Finitely DEF Extra
    <3> QED
      BY <3>1, <3>2
  <2>6. CanOpen(u, tab1, tab1, D, x)
    <3>1. tab1[x[1]][x[2]] = fl[k + 1]
      OBVIOUS
    <3> HIDE DEF x, D, Rest
    <3> QED
      BY <2>2, <2>3, <2>4, <3>1 DEF CanOpen
  <2> HIDE DEF x, D, Rest, Seen, fl
  <2>7. Counts(Opened(u, k + 1), tab1, D \cup {x}) /\ Opened(u, k + 1).free_open_file_list = Tail(l)
    <3> HIDE DEF u
    <3> QED
      BY <2>1, <2>5, <2>6, OpenActive
  <2>8. g[k + 1] = Opened(u, k + 1)
    BY <1>1, <2>1
  <2> HIDE DEF u
  <2> QED
    BY <2>1, <2>3, <2>4, <2>7, <2>8
<1>6. STD \in T
  <2> HIDE DEF T
  <2>1. \A k \in 0..STD : k \in T
    BY <1>2, <1>4, <1>5, UpTo
  <2> QED
    BY <2>1, <1>2
<1> HIDE DEF Rest
<1> QED
  BY <1>1, <1>6


-----------------------------------------------------------------------------
(* fork(). *)

\* The descriptors of the table fds that lead to e.
Here(fds, e) == {fd \in Fds : fds[fd] = e}

(* What copy_fd_table() makes of the entries. *)
LEMMA CopiedEntries ==
  ASSUME NEW s, IsTables(s), AreEntries(s.entry), NEW fds
  PROVE  LET r == copy_fd_table(s, fds)
         IN /\ SameFiles([s EXCEPT !.entry = r.entry], r) /\ AreEntries(r.entry)
            /\ \A e \in Files : /\ r.entry[e].vnode = s.entry[e].vnode
                                /\ r.entry[e].count = s.entry[e].count + Cardinality(Here(fds, e))
<1> DEFINE en == s.entry
           N(e) == en[e].count + Cardinality(Here(fds, e))
           en1 == [e \in Files |-> [en[e] EXCEPT !.count = N(e)]]
           r == copy_fd_table(s, fds)
<1>1. r = [s EXCEPT !.entry = en1]
  BY DEF copy_fd_table, Here
<1>2. \A e \in Files : N(e) \in Nat
  <2> TAKE e \in Files
  <2>1. IsFiniteSet(Fds)
    BY Finitely
  <2>2. Cardinality(Here(fds, e)) \in Nat
    BY <2>1, FS_Subset, FS_CardinalityType DEF Here
  <2>3. en[e].count \in Nat
    BY DEF AreEntries
  <2> QED
    BY <2>2, <2>3
<1>3. \A e \in Files : en1[e] = [offset |-> en[e].offset, count |-> N(e), vnode |-> en[e].vnode]
  <2> HIDE DEF en, N
  <2> TAKE e \in Files
  <2>1. en1[e] = [en[e] EXCEPT !.count = N(e)]
    OBVIOUS
  <2>2. en[e] = [offset |-> en[e].offset, count |-> en[e].count, vnode |-> en[e].vnode]
    BY DEF AreEntries, en
  <2> HIDE DEF en1
  <2> QED
    BY <2>1, <2>2
<1>4. en1 = [e \in Files |-> en1[e]]
  <2> HIDE DEF en, N
  <2> QED
    OBVIOUS
<1> HIDE DEF en1, N
<1>5. AreEntries(en1) /\ \A e \in Files : en1[e].vnode = en[e].vnode /\ en1[e].count = N(e)
  BY <1>2, <1>3, <1>4 DEF AreEntries
<1> HIDE DEF r
<1>6. r.entry = en1 /\ SameFiles([s EXCEPT !.entry = en1], r)
  BY <1>1 DEF IsTables, SameFiles
<1>7. /\ SameFiles([s EXCEPT !.entry = r.entry], r) /\ AreEntries(r.entry)
      /\ \A e \in Files : /\ r.entry[e].vnode = s.entry[e].vnode
                          /\ r.entry[e].count = s.entry[e].count + Cardinality(Here(fds, e))
  BY <1>5, <1>6 DEF N
<1> QED
  BY <1>7 DEF r

\* The descriptors of p count, c's get the same table, all others keep theirs.
Forks(tab, tab1, D, p, c) ==
  /\ D \in SUBSET Descriptor /\ p \in Procs /\ c \in Procs /\ {p} \X Fds \subseteq D
  /\ \A y \in D : y[1] # c /\ tab1[y[1]][y[2]] = tab[y[1]][y[2]]
  /\ tab1[c] = tab[p]

(* Which descriptors lead to e when those of c do too. *)
LEMMA LeadsForked ==
  ASSUME NEW tab, NEW tab1, NEW D, NEW p, NEW c, Forks(tab, tab1, D, p, c), NEW e
  PROVE  /\ Cardinality(Leads(tab1, D \cup ({c} \X Fds), e))
              = Cardinality(Leads(tab, D, e)) + Cardinality(Here(tab[p], e))
         /\ Cardinality(Here(tab[p], e)) \in Nat
         /\ Cardinality(Leads(tab, D, e)) = 0 => Cardinality(Here(tab[p], e)) = 0
<1> DEFINE H == Here(tab[p], e)
           L == Leads(tab, D, e)
           M == {c} \X H
<1>1. D \in SUBSET Descriptor
  BY DEF Forks
<1>2. IsFiniteSet(L) /\ Cardinality(L) \in Nat /\ IsFiniteSet(Fds)
  BY <1>1, Finitely
<1>3. IsFiniteSet(H) /\ Cardinality(H) \in Nat
  <2>1. H \in SUBSET Fds
    BY DEF Here
  <2> HIDE DEF H
  <2> QED
    BY <2>1, <1>2, FS_Subset, FS_CardinalityType
<1>4. IsFiniteSet(M) /\ Cardinality(M) = Cardinality(H)
  <2> HIDE DEF H
  <2>1. IsFiniteSet({c}) /\ Cardinality({c}) = 1
    BY FS_Singleton
  <2>2. IsFiniteSet(M) /\ Cardinality(M) = Cardinality({c}) * Cardinality(H)
    BY <2>1, <1>3, FS_Product
  <2> HIDE DEF M
  <2> QED
    BY <2>1, <2>2, <1>3
<1>5. Leads(tab1, D \cup ({c} \X Fds), e) = L \cup M
  BY DEF Leads, Here, Forks
<1>6. L \cap M = {}
  BY DEF Leads, Here, Forks
<1>7. Cardinality(L \cup M) = Cardinality(L) + Cardinality(H)
  <2> HIDE DEF L, M, H
  <2>1. Cardinality(L \cup M) = Cardinality(L) + Cardinality(M) - Cardinality(L \cap M)
    BY <1>2, <1>4, FS_Union
  <2>2. Cardinality(L \cap M) = 0
    BY <1>6, FS_EmptySet
  <2> QED
    BY <2>1, <2>2, <1>2, <1>3, <1>4
<1>8. Cardinality(L) = 0 => Cardinality(H) = 0
  <2> SUFFICES ASSUME Cardinality(L) = 0 PROVE Cardinality(H) = 0
    OBVIOUS
  <2>1. L = {}
    <3> HIDE DEF L
    <3> QED
      BY <1>2, FS_EmptySet
  <2>2. H = {}
    <3> SUFFICES ASSUME NEW fd \in H PROVE FALSE
      OBVIOUS
    <3>1. fd \in Fds /\ tab[p][fd] = e /\ <<p, fd>> \in D
      BY DEF Here, Forks
    <3>2. <<p, fd>> \in L
      BY <3>1 DEF Leads
    <3> QED
      BY <3>2, <2>1
  <2> HIDE DEF H
  <2> QED
    BY <2>2, FS_EmptySet
<1> HIDE DEF M
<1> QED
  BY <1>3, <1>5, <1>7, <1>8

(* copy_fd_table(): every entry of p is counted for c too. *)
LEMMA CopyTable ==
  ASSUME NEW s, NEW tab, NEW tab1, NEW D, NEW p, NEW c, Forks(tab, tab1, D, p, c),
         Counts(s, tab, D)
  PROVE  Counts(copy_fd_table(s, tab[p]), tab1, D \cup ({c} \X Fds))
<1> DEFINE r == copy_fd_table(s, tab[p])
           E == D \cup ({c} \X Fds)
<1>1. IsTables(s) /\ AreEntries(s.entry)
  BY DEF Counts, EntriesOK
<1>2. /\ SameFiles([s EXCEPT !.entry = r.entry], r) /\ AreEntries(r.entry)
      /\ \A e \in Files : /\ r.entry[e].vnode = s.entry[e].vnode
                          /\ r.entry[e].count = s.entry[e].count + Cardinality(Here(tab[p], e))
  BY <1>1, CopiedEntries
<1> HIDE DEF r
<1>3. /\ IsTables(r) /\ r.vnode = s.vnode /\ r.active_vnode_list = s.active_vnode_list
      /\ r.free_vnode_list = s.free_vnode_list /\ r.free_open_file_list = s.free_open_file_list
  BY <1>1, <1>2 DEF SameFiles, IsTables
<1>4. \A e \in Files : /\ r.entry[e].count = Cardinality(Leads(tab1, E, e))
                       /\ r.entry[e].count = 0 <=> s.entry[e].count = 0
  <2> TAKE e \in Files
  <2>1. s.entry[e].count = Cardinality(Leads(tab, D, e)) /\ s.entry[e].count \in Nat
    BY DEF Counts, EntriesOK, AreEntries
  <2>2. /\ Cardinality(Leads(tab1, E, e))
              = Cardinality(Leads(tab, D, e)) + Cardinality(Here(tab[p], e))
        /\ Cardinality(Here(tab[p], e)) \in Nat
        /\ Cardinality(Leads(tab, D, e)) = 0 => Cardinality(Here(tab[p], e)) = 0
    BY LeadsForked
  <2> HIDE DEF E
  <2> QED
    BY <2>1, <2>2, <1>2
<1> HIDE DEF E
<1>5. /\ \A v : Holders(r.entry, v) = Holders(s.entry, v)
      /\ {e \in Files : r.entry[e].count = 0} = {e \in Files : s.entry[e].count = 0}
  BY <1>2, <1>4 DEF Holders
<1>6. EntriesOK(r.entry, s.free_open_file_list, tab1, E)
  BY <1>2, <1>4, <1>5 DEF Counts, EntriesOK
<1>7. VnodesOK(s.vnode, r.entry, s.active_vnode_list, s.free_vnode_list)
  BY <1>5 DEF Counts, VnodesOK
<1>8. Counts(r, tab1, E)
  BY <1>3, <1>6, <1>7 DEF Counts
<1> QED
  BY <1>8 DEF r, E


-----------------------------------------------------------------------------
(* Descriptors. *)

(* The least element of a set of numbers. *)
LEMMA MinIn ==
  ASSUME NEW T \in SUBSET Nat, T # {}
  PROVE  Min(T) \in T
<1>1. PICK n \in T : \A m \in T : n <= m
  BY LeastElement
<1>2. \E k \in T : \A m \in T : k <= m
  BY <1>1
<1> QED
  BY <1>2 DEF Min

(* Counting from m round the table comes to every descriptor. *)
LEMMA TurnRound ==
  /\ \A m \in Fds, k \in Fds : (m + k) % FD_NUM \in Fds
  /\ \A m \in Fds, f \in Fds : \E k \in Fds : (m + k) % FD_NUM = f /\ (f # m => k # 0)
<1>1. FD_NUM \in Nat /\ FD_NUM > 0
  BY FileAssumption
<1>2. \A m \in Fds, k \in Fds : (m + k) % FD_NUM \in Fds
  BY <1>1 DEF Fds
<1>3. ASSUME NEW m \in Fds, NEW f \in Fds
      PROVE  \E k \in Fds : (m + k) % FD_NUM = f /\ (f # m => k # 0)
  <2> DEFINE k == IF f < m THEN f - m + FD_NUM ELSE f - m
  <2>1. k \in Fds /\ (m + k = f \/ m + k = f + FD_NUM) /\ (f # m => k # 0)
    BY <1>1 DEF Fds
  <2>2. f % FD_NUM = f /\ (f + FD_NUM) % FD_NUM = f
    BY <1>1 DEF Fds
  <2> HIDE DEF k
  <2>3. (m + k) % FD_NUM = f
    BY <2>1, <2>2
  <2> QED
    BY <2>1, <2>3
<1> QED
  BY <1>2, <1>3

(* The descriptor that fm_open() finds is closed. *)
LEMMA FreeFdIsClosed ==
  ASSUME CountsInv, NEW p \in Procs, \E f \in Fds : fd_table[p][f] = NULL
  PROVE  FreeFd(p) \in Fds /\ fd_table[p][FreeFd(p)] = NULL
<1> DEFINE Turn(k) == (min_fd[p] + k) % FD_NUM
           T == {k \in Fds : fd_table[p][Turn(k)] = NULL}
<1>1. PICK f \in Fds : fd_table[p][f] = NULL
  OBVIOUS
<1>2. min_fd[p] \in Fds
  BY DEF CountsInv
<1>3. PICK k \in Fds : Turn(k) = f
  BY <1>2, TurnRound
<1>4. T # {} /\ T \in SUBSET Nat
  <2>1. k \in T
    BY <1>1, <1>3
  <2>2. Fds \in SUBSET Nat
    BY FileAssumption DEF Fds
  <2> QED
    BY <2>1, <2>2
<1>5. Min(T) \in T
  <2> HIDE DEF T
  <2> QED
    BY <1>4, MinIn
<1>6. FreeFd(p) = Turn(Min(T))
  BY DEF FreeFd
<1>7. Turn(Min(T)) \in Fds /\ fd_table[p][Turn(Min(T))] = NULL
  <2>1. PICK n \in Fds : n = Min(T) /\ fd_table[p][Turn(n)] = NULL
    BY <1>5
  <2> HIDE DEF T
  <2>2. Turn(n) \in Fds
    BY <1>2, TurnRound
  <2> QED
    BY <2>1, <2>2
<1> HIDE DEF T, Turn
<1> QED
  BY <1>6, <1>7

(* search_vnode_by_index() finds an active vnode. *)
LEMMA SearchActive ==
  ASSUME NEW s, NEW tab, NEW D, Counts(s, tab, D), NEW index, Search(s, index) # NULL
  PROVE  Search(s, index) \in Vnodes /\ s.vnode[Search(s, index)].count # 0
<1> DEFINE av == s.active_vnode_list
           I == {i \in 1..Len(av) : s.vnode[av[i]].index = index}
           k == IF I # {} THEN Min(I) ELSE 0
<1>1. Listed(av, Vnodes, {v \in Vnodes : s.vnode[v].count # 0})
  BY SMTT(60) DEF Counts, VnodesOK
<1>2. Search(s, index) = IF k = 0 THEN NULL ELSE av[k]
  BY DEF Search, SelectInSeq
<1>3. k # 0 /\ Search(s, index) = av[k]
  <2> HIDE DEF k
  <2> QED
    BY <1>2
<1>4. I # {} /\ k = Min(I) /\ I \in SUBSET Nat
  <2>1. I \in SUBSET Nat
    <3> HIDE DEF av
    <3> QED
      OBVIOUS
  <2> HIDE DEF I
  <2>2. I # {} /\ k = Min(I)
    BY ONLY <1>3, SMTT(60) DEF k
  <2> QED
    BY <2>1, <2>2
<1>5. k \in 1..Len(av)
  <2>1. Min(I) \in I
    <3> HIDE DEF I
    <3> QED
      BY <1>4, MinIn
  <2>2. k \in I
    <3> HIDE DEF I, k
    <3> QED
      BY ONLY <2>1, <1>4
  <2> QED
    BY <2>2, SMTT(60)
<1>6. On(av, av[k]) /\ av[k] \in Vnodes
  <2> HIDE DEF k, av
  <2> QED
    BY <1>1, <1>5 DEF On, Listed
<1> HIDE DEF k, av
<1> QED
  BY <1>1, <1>3, <1>6 DEF Listed


-----------------------------------------------------------------------------
(* The steps. *)

(* What the tables become. *)
LEMMA NowBecomes ==
  ASSUME NEW s, IsTables(s), Become(s)
  PROVE  Now' = s
BY DEF IsTables, Become, Now

(* A call that leaves counts and types right. *)
LEMMA StepKeeps ==
  ASSUME CountsInv, NEW s, Become(s), Counts(s, fd_table', live' \X Fds), Called,
         live' \in SUBSET Procs, IsTable(fd_table'), min_fd' \in [Procs -> Fds]
  PROVE  CountsInv'
<1>1. Now' = s
  BY NowBecomes DEF Counts
<1>2. ops' \in Nat /\ ops' # 0
  BY DEF Called, CountsInv
<1> QED
  BY <1>1, <1>2 DEF CountsInv

\* Descriptor fd of process p leads to e now.
Points(tab, tab1, p, fd, e) ==
  /\ IsTable(tab1) /\ tab1[p][fd] = e
  /\ \A y \in Descriptor \ {<<p, fd>>} : tab1[y[1]][y[2]] = tab[y[1]][y[2]]

(* One descriptor of a table changes. *)
LEMMA TableChanged ==
  ASSUME CountsInv, NEW p \in Procs, NEW fd \in Fds, NEW e \in Files \cup {NULL},
         fd_table' = [fd_table EXCEPT ![p][fd] = e]
  PROVE  Points(fd_table, fd_table', p, fd, e)
<1>1. fd_table \in [Procs -> [Fds -> Files \cup {NULL}]]
  BY DEF CountsInv, IsTable
<1>2. IsTable(fd_table') /\ fd_table'[p][fd] = e
  BY <1>1 DEF IsTable
<1>3. ASSUME NEW q \in Procs, NEW f \in Fds, ~(q = p /\ f = fd)
      PROVE  fd_table'[q][f] = fd_table[q][f]
  BY <1>1, <1>3
<1>4. ASSUME NEW y \in Descriptor \ {<<p, fd>>} PROVE fd_table'[y[1]][y[2]] = fd_table[y[1]][y[2]]
  <2>1. y[1] \in Procs /\ y[2] \in Fds /\ ~(y[1] = p /\ y[2] = fd)
    BY DEF Descriptor
  <2> QED
    BY <2>1, <1>3
<1> QED
  BY <1>2, <1>4 DEF Points

(* The descriptors of the running processes. *)
LEMMA LiveDescriptors ==
  ASSUME CountsInv
  PROVE  live \X Fds \in SUBSET Descriptor
BY DEF CountsInv, Descriptor

(* The tables are those of the invariant. *)
LEMMA NowFields ==
  /\ Now.inode_bitmap = inode_bitmap /\ Now.inode_bit_index = inode_bit_index /\ Now.disk = disk
  /\ Now.vnode = vnode /\ Now.active_vnode_list = active_vnode_list
  /\ Now.free_vnode_list = free_vnode_list /\ Now.entry = entry
  /\ Now.free_open_file_list = free_open_file_list /\ IsTables(Now)
BY DEF Now, IsTables

(* fm_close() *)
LEMMA CloseKeeps ==
  ASSUME CountsInv, NEW p \in Procs, NEW fd \in Fds, Close(p, fd)
  PROVE  CountsInv'
<1> SUFFICES ASSUME fd_table[p][fd] # NULL PROVE CountsInv'
  <2> SUFFICES ASSUME fd_table[p][fd] = NULL PROVE CountsInv'
    OBVIOUS
  <2>1. Become(Now) /\ Called /\ live' = live
    BY DEF Close, release_file_entry
  <2>2. min_fd' \in [Procs -> Fds]
    BY DEF Close, CountsInv
  <2>3. fd_table' = fd_table
    BY DEF Close, CountsInv, IsTable
  <2> QED
    BY <2>1, <2>2, <2>3, StepKeeps DEF CountsInv
<1> DEFINE e == fd_table[p][fd]
           x == <<p, fd>>
           D == live \X Fds
           s == release_file_entry(Now, e)
<1>1. /\ p \in live /\ e # NULL /\ Become(s) /\ fd_table' = [fd_table EXCEPT ![p][fd] = NULL]
      /\ min_fd' = [min_fd EXCEPT ![p] = IF @ > fd THEN fd ELSE @] /\ Called /\ live' = live
  BY DEF Close
<1>2. D \in SUBSET Descriptor /\ x \in D /\ e \in Files /\ Counts(Now, fd_table, D)
  BY <1>1, LiveDescriptors DEF CountsInv, IsTable
<1>3. Counts(s, fd_table, D \ {x})
  <2>1. fd_table[x[1]][x[2]] = e
    OBVIOUS
  <2> HIDE DEF x, D, e
  <2> QED
    BY <1>2, <2>1, ReleaseEntry
<1>4. /\ IsTable(fd_table') /\ fd_table'[p][fd] = NULL
      /\ \A y \in Descriptor \ {<<p, fd>>} : fd_table'[y[1]][y[2]] = fd_table[y[1]][y[2]]
  <2>1. fd_table' = [fd_table EXCEPT ![p][fd] = NULL] /\ NULL \in Files \cup {NULL}
    BY <1>1
  <2>2. Points(fd_table, fd_table', p, fd, NULL)
    BY <2>1, TableChanged
  <2> QED
    BY <2>2 DEF Points
<1> HIDE DEF s, e
<1>5. Counts(s, fd_table', D \ {x})
  <2>1. \A y \in D \ {x} : fd_table'[y[1]][y[2]] = fd_table[y[1]][y[2]]
    BY <1>2, <1>4
  <2> HIDE DEF x, D
  <2> QED
    BY <1>3, <2>1, SameTable
<1>6. Counts(s, fd_table', D)
  <2>1. fd_table'[x[1]][x[2]] = NULL
    BY <1>4
  <2> HIDE DEF x, D
  <2> QED
    BY <1>5, <2>1, ClosedCounts
<1>7. min_fd' \in [Procs -> Fds]
  BY <1>1 DEF CountsInv
<1>8. live' \in SUBSET Procs
  BY <1>1 DEF CountsInv
<1>9. Counts(s, fd_table', live' \X Fds)
  BY <1>1, <1>6
<1> HIDE DEF D
<1> QED
  BY <1>1, <1>4, <1>7, <1>8, <1>9, StepKeeps


SetData(s, v, d) == [s EXCEPT !.vnode[v].inode.data = d]

(* The bytes of a file are not counted. *)
LEMMA DataKeeps ==
  ASSUME NEW s, NEW tab, NEW D, Counts(s, tab, D), NEW v, NEW d
  PROVE  Counts(SetData(s, v, d), tab, D)
<1> USE DEF SetData
<1> DEFINE vn == s.vnode
           ino == [vn[v].inode EXCEPT !.data = d]
           vn1 == [vn EXCEPT ![v].inode = ino]
           r == SetData(s, v, d)
<1>1. AreVnodes(vn) /\ IsTables(s)
  BY DEF Counts, VnodesOK
<1>2. r = [s EXCEPT !.vnode = vn1]
  OBVIOUS
<1>3. /\ IsTables(r) /\ r.vnode = vn1 /\ r.free_open_file_list = s.free_open_file_list
      /\ r.entry = s.entry /\ r.active_vnode_list = s.active_vnode_list
      /\ r.free_vnode_list = s.free_vnode_list
  <2> HIDE DEF vn1, r
  <2> QED
    BY <1>1, <1>2 DEF IsTables
<1>4. AreVnodes(vn1) /\ \A w \in Vnodes : vn1[w].count = vn[w].count
  <2> HIDE DEF vn, ino
  <2>1. vn1 = [w \in Vnodes |-> vn1[w]] /\ \A w \in Vnodes \ {v} : vn1[w] = vn[w]
    BY <1>1 DEF AreVnodes
  <2>2. ASSUME v \in Vnodes
        PROVE  vn1[v] = [index |-> vn[v].index, inode |-> ino, count |-> vn[v].count]
    <3>1. vn1[v] = [vn[v] EXCEPT !.inode = ino]
      BY <2>2, <1>1 DEF AreVnodes
    <3>2. vn[v] = [index |-> vn[v].index, inode |-> vn[v].inode, count |-> vn[v].count]
      BY <2>2, <1>1 DEF AreVnodes
    <3> HIDE DEF vn1
    <3> QED
      BY <3>1, <3>2
  <2> HIDE DEF vn1
  <2>3. \A w \in Vnodes : /\ vn1[w].count = vn[w].count
                          /\ vn1[w] = [index |-> vn1[w].index, inode |-> vn1[w].inode,
                                       count |-> vn1[w].count]
    <3> TAKE w \in Vnodes
    <3>1. CASE w = v
      <4>1. vn1[w] = [index |-> vn[w].index, inode |-> ino, count |-> vn[w].count]
        BY <3>1, <2>2
      <4> QED
        BY <4>1
    <3>2. CASE w # v
      BY <3>2, <2>1, <1>1 DEF AreVnodes
    <3> QED
      BY <3>1, <3>2
  <2> QED
    BY <2>1, <2>3, <1>1 DEF AreVnodes
<1> HIDE DEF vn1, r
<1>5. /\ {w \in Vnodes : vn1[w].count = 0} = {w \in Vnodes : s.vnode[w].count = 0}
      /\ {w \in Vnodes : vn1[w].count # 0} = {w \in Vnodes : s.vnode[w].count # 0}
  BY <1>4
<1>6. VnodesOK(vn1, s.entry, s.active_vnode_list, s.free_vnode_list)
  BY <1>4, <1>5 DEF Counts, VnodesOK
<1>7. Counts(r, tab, D)
  BY <1>3, <1>6 DEF Counts
<1> QED
  BY <1>7 DEF r

(* fm_read() and fm_lseek() change an offset. *)
LEMMA SeekKeeps ==
  ASSUME CountsInv, NEW e, NEW o, entry' = [entry EXCEPT ![e].offset = o], Called,
         UNCHANGED <<inode_bitmap, inode_bit_index, disk, vnode, active_vnode_list,
                     free_vnode_list, free_open_file_list, live, fd_table, min_fd, current_dir>>
  PROVE  CountsInv'
<1> DEFINE s == SetOffset(Now, e, o)
           D == live \X Fds
<1>1. Counts(s, fd_table, D)
  BY OffsetKeeps DEF CountsInv
<1>2. Become(s)
  <2> DEFINE en1 == [entry EXCEPT ![e].offset = o]
  <2>1. s = [Now EXCEPT !.entry = en1]
    BY NowFields DEF SetOffset
  <2>2. entry' = en1
    OBVIOUS
  <2> HIDE DEF s, en1
  <2> QED
    BY <2>1, <2>2 DEF Now, Become
<1> HIDE DEF s
<1> QED
  BY <1>1, <1>2, StepKeeps DEF CountsInv

(* fm_read() *)
LEMMA ReadKeeps ==
  ASSUME CountsInv, NEW p \in Procs, NEW fd \in Fds, Read(p, fd)
  PROVE  CountsInv'
<1> DEFINE e == fd_table[p][fd]
           n == Len(vnode[entry[e].vnode].inode.data)
           o == IF entry[e].offset < n THEN entry[e].offset + 1 ELSE entry[e].offset
<1>1. /\ entry' = [entry EXCEPT ![e].offset = o] /\ Called
      /\ UNCHANGED <<inode_bitmap, inode_bit_index, disk, vnode, active_vnode_list,
                     free_vnode_list, free_open_file_list, live, fd_table, min_fd, current_dir>>
  BY DEF Read
<1> HIDE DEF e, o
<1> QED
  BY <1>1, SeekKeeps

(* fm_lseek() *)
LEMMA LseekKeeps ==
  ASSUME CountsInv, NEW p \in Procs, NEW fd \in Fds, NEW o, Lseek(p, fd, o)
  PROVE  CountsInv'
<1> DEFINE e == fd_table[p][fd]
<1>1. /\ entry' = [entry EXCEPT ![e].offset = o] /\ Called
      /\ UNCHANGED <<inode_bitmap, inode_bit_index, disk, vnode, active_vnode_list,
                     free_vnode_list, free_open_file_list, live, fd_table, min_fd, current_dir>>
  BY DEF Lseek
<1> HIDE DEF e
<1> QED
  BY <1>1, SeekKeeps

(* fm_write() *)
LEMMA WriteKeeps ==
  ASSUME CountsInv, NEW p \in Procs, NEW fd \in Fds, Write(p, fd)
  PROVE  CountsInv'
<1> DEFINE e == fd_table[p][fd]
           v == entry[e].vnode
           new == Append(SubSeq(vnode[v].inode.data, 1, entry[e].offset), p)
           t == SetData(Now, v, new)
           s == SetOffset(t, e, Len(new))
<1>1. /\ vnode' = [vnode EXCEPT ![v].inode.data = new]
      /\ entry' = [entry EXCEPT ![e].offset = Len(new)] /\ Called
      /\ UNCHANGED <<inode_bitmap, inode_bit_index, disk, active_vnode_list,
                     free_vnode_list, free_open_file_list, live, fd_table, min_fd, current_dir>>
  BY DEF Write
<1> HIDE DEF e, v, new
<1>2. Counts(t, fd_table, live \X Fds)
  BY DataKeeps DEF CountsInv
<1>3. Counts(s, fd_table, live \X Fds)
  <2> HIDE DEF t
  <2> QED
    BY <1>2, OffsetKeeps
<1>4. Become(s)
  <2> DEFINE en1 == [entry EXCEPT ![e].offset = Len(new)]
             vn1 == [vnode EXCEPT ![v].inode.data = new]
  <2>1. t = [Now EXCEPT !.vnode = vn1]
    BY NowFields DEF SetData
  <2>2. t.entry = entry
    <3> HIDE DEF t, vn1
    <3> QED
      BY <2>1 DEF Now
  <2>3. s = [t EXCEPT !.entry = en1]
    <3> HIDE DEF t
    <3> QED
      BY <2>2 DEF SetOffset
  <2>4. entry' = en1 /\ vnode' = vn1
    BY <1>1
  <2> HIDE DEF s, t, en1, vn1
  <2> QED
    BY <2>1, <2>3, <2>4, <1>1 DEF Now, Become
<1> HIDE DEF s
<1> QED
  BY <1>1, <1>3, <1>4, StepKeeps DEF CountsInv


(* The part that fm_dup() and fm_dup2() have in common. *)
LEMMA ShareKeeps ==
  ASSUME CountsInv, NEW p \in Procs, NEW fd \in Fds, NEW new \in Fds, Share(p, fd, new),
         IsOpen(p, fd), fd_table[p][new] = NULL, Called, live' = live, min_fd' \in [Procs -> Fds]
  PROVE  CountsInv'
<1> DEFINE e == fd_table[p][fd]
           D == live \X Fds
           s == Shared(Now, e)
<1>1. /\ p \in live /\ e # NULL /\ fd_table[p][new] = NULL /\ Become(s)
      /\ fd_table' = [fd_table EXCEPT ![p][new] = e] /\ Called /\ live' = live
  BY DEF Share, IsOpen, Shared
<1>2. /\ D \in SUBSET Descriptor /\ <<p, fd>> \in D /\ <<p, new>> \in D /\ e \in Files
      /\ Counts(Now, fd_table, D)
  BY <1>1, LiveDescriptors DEF CountsInv, IsTable
<1>3. /\ IsTable(fd_table') /\ fd_table'[p][new] = e
      /\ \A y \in Descriptor \ {<<p, new>>} : fd_table'[y[1]][y[2]] = fd_table[y[1]][y[2]]
  <2>1. fd_table' = [fd_table EXCEPT ![p][new] = e] /\ e \in Files \cup {NULL}
    BY <1>1, <1>2
  <2> HIDE DEF e
  <2>2. Points(fd_table, fd_table', p, new, e)
    BY <2>1, TableChanged
  <2> QED
    BY <2>2 DEF Points
<1>4. Shares(fd_table, fd_table', D, p, fd, new)
  <2> HIDE DEF D
  <2> QED
    BY <1>1, <1>2, <1>3 DEF Shares
<1>5. Counts(s, fd_table', D)
  <2> HIDE DEF D
  <2> QED
    BY <1>2, <1>4, ShareEntry
<1>6. live' \in SUBSET Procs /\ Counts(s, fd_table', live' \X Fds)
  BY <1>1, <1>5 DEF CountsInv
<1> HIDE DEF s, D
<1> QED
  BY <1>1, <1>3, <1>6, StepKeeps

(* fm_dup() *)
LEMMA DupKeeps ==
  ASSUME Careful, CountsInv, NEW p \in Procs, NEW fd \in Fds, Dup(p, fd)
  PROVE  CountsInv'
<1> DEFINE m == min_fd[p]
           Turn(k) == (m + k) % FD_NUM
           T == {k \in Fds \ {0} : fd_table[p][Turn(k)] = NULL}
<1>1. /\ Share(p, fd, m) /\ m \in Fds /\ IsOpen(p, fd) /\ Called /\ live' = live
      /\ min_fd' = [min_fd EXCEPT ![p] = Turn(Min(T))]
      /\ fd_table[p][m] = NULL
  BY DEF Dup, CountsInv, Careful, NotOpen
<1>2. PICK f \in Fds \ {m} : fd_table[p][f] = NULL
  BY DEF Dup
<1>3. PICK k \in Fds : Turn(k) = f /\ k # 0
  BY <1>1, <1>2, TurnRound
<1>4. T # {} /\ T \in SUBSET Nat
  <2>1. k \in T
    BY <1>2, <1>3
  <2>2. Fds \in SUBSET Nat
    BY FileAssumption DEF Fds
  <2> QED
    BY <2>1, <2>2
<1>5. Min(T) \in T
  <2> HIDE DEF T
  <2> QED
    BY <1>4, MinIn
<1>6. Turn(Min(T)) \in Fds
  <2>1. Min(T) \in Fds
    BY <1>5
  <2> HIDE DEF T
  <2> QED
    BY <1>1, <2>1, TurnRound
<1>7. min_fd' \in [Procs -> Fds]
  <2> HIDE DEF T, Turn
  <2> QED
    BY <1>1, <1>6 DEF CountsInv
<1> HIDE DEF m
<1> QED
  BY <1>1, <1>7, ShareKeeps

(* fm_dup2() *)
LEMMA Dup2Keeps ==
  ASSUME Careful, CountsInv, NEW p \in Procs, NEW fd \in Fds, NEW new \in Fds, Dup2(p, fd, new)
  PROVE  CountsInv'
<1>1. /\ fd_table[p][new] = NULL /\ p \in live /\ Called /\ live' = live
      /\ min_fd' = min_fd /\ min_fd' \in [Procs -> Fds]
  BY DEF Dup2, CountsInv, Careful, NotOpen
<1>2. CASE fd_table[p][fd] # NULL
  <2>1. Share(p, fd, new) /\ IsOpen(p, fd)
    BY <1>1, <1>2 DEF Dup2, IsOpen
  <2> QED
    BY <1>1, <2>1, ShareKeeps
<1>3. CASE fd_table[p][fd] = NULL
  <2>1. UNCHANGED <<tables, fd_table>>
    BY <1>1, <1>3 DEF Dup2
  <2>2. Become(Now)
    BY <2>1 DEF tables, Become, Now
  <2> QED
    BY <1>1, <2>1, <2>2, StepKeeps DEF CountsInv
<1> QED
  BY <1>2, <1>3

(* A call that changes directories only. *)
LEMMA NamesKeep ==
  ASSUME CountsInv, NEW s, SameFiles(Now, s), Become(s), Called,
         UNCHANGED <<live, fd_table, min_fd, current_dir>>
  PROVE  CountsInv'
<1>1. Counts(s, fd_table, live \X Fds)
  BY SameCounts DEF CountsInv
<1> QED
  BY <1>1, StepKeeps DEF CountsInv

(* fm_create() *)
LEMMA CreateKeeps ==
  ASSUME CountsInv, NEW p \in Procs, NEW path \in FilePaths, Create(p, path)
  PROVE  CountsInv'
<1> DEFINE s == CreateFile(Now, Start(p, path), path.names)
<1>1. Become(s) /\ Called /\ UNCHANGED <<live, fd_table, min_fd, current_dir>>
  BY DEF Create
<1>2. path.names \in Seq(STRING)
  BY FileAssumption
<1>3. SameFiles(Now, s)
  BY <1>2, NowFields, CreateFileKeeps
<1> HIDE DEF s
<1> QED
  BY <1>1, <1>3, NamesKeep

(* fm_mkdir() *)
LEMMA MkdirKeeps ==
  ASSUME CountsInv, NEW p \in Procs, NEW path \in DirPaths, Mkdir(p, path)
  PROVE  CountsInv'
<1> DEFINE s == CreateDir(Now, Start(p, path), path.names).s
<1>1. Become(s) /\ Called /\ UNCHANGED <<live, fd_table, min_fd, current_dir>>
  BY DEF Mkdir
<1>2. path.names \in Seq(STRING) /\ Len(path.names) \in Nat
  BY FileAssumption
<1>3. SameFiles(Now, s)
  BY <1>2, NowFields, CreateDirKeeps
<1> HIDE DEF s
<1> QED
  BY <1>1, <1>3, NamesKeep

(* fm_delete_file() and fm_rmdir() *)
LEMMA RemoveKeeps ==
  ASSUME CountsInv, NEW p \in Procs, NEW path, NEW type, Remove_(p, path, type)
  PROVE  CountsInv'
<1> PICK behind \in Behind : Become(Delete(Now, Parent(p, path), Last(path.names), type, behind))
  BY DEF Remove_
<1> DEFINE s == Delete(Now, Parent(p, path), Last(path.names), type, behind)
<1>1. Become(s) /\ Called /\ UNCHANGED <<live, fd_table, min_fd, current_dir>>
  BY DEF Remove_
<1>2. SameFiles(Now, s)
  <2>1. behind \in Seq(STRING)
    BY FileAssumption
  <2> QED
    BY <2>1, NowFields, DeleteKeeps
<1> HIDE DEF s
<1> QED
  BY <1>1, <1>2, NamesKeep

(* fm_chdir() *)
LEMMA ChdirKeeps ==
  ASSUME CountsInv, NEW p \in Procs, NEW path, Chdir(p, path)
  PROVE  CountsInv'
<1>1. Become(Now) /\ Called /\ UNCHANGED <<live, fd_table, min_fd>>
  BY DEF Chdir, tables, Become, Now
<1>2. Counts(Now, fd_table', live' \X Fds)
  BY <1>1 DEF CountsInv
<1> QED
  BY <1>1, <1>2, StepKeeps DEF CountsInv


(* exit() *)
LEMMA ExitKeeps ==
  ASSUME CountsInv, NEW p \in Procs, Exit(p)
  PROVE  CountsInv'
<1> DEFINE s == exit_file(Now, fd_table[p])
           D == live \X Fds
<1>1. /\ p \in live /\ Become(s) /\ live' = live \ {p} /\ Called
      /\ UNCHANGED <<fd_table, min_fd, current_dir>>
  BY DEF Exit
<1>2. D \in SUBSET Descriptor /\ {p} \X Fds \subseteq D /\ D \ ({p} \X Fds) = live' \X Fds
  BY <1>1, LiveDescriptors
<1>3. Counts(s, fd_table, D \ ({p} \X Fds))
  <2>1. Counts(Now, fd_table, D) /\ IsTable(fd_table)
    BY DEF CountsInv
  <2> HIDE DEF D
  <2> QED
    BY <1>2, <2>1, ExitFile
<1>4. Counts(s, fd_table', live' \X Fds)
  <2> HIDE DEF D, s
  <2> QED
    BY <1>1, <1>2, <1>3
<1> HIDE DEF s
<1> QED
  BY <1>1, <1>4, StepKeeps DEF CountsInv

(* fork() *)
LEMMA ForkKeeps ==
  ASSUME Careful, CountsInv, NEW p \in Procs, NEW c \in Procs, Fork(p, c)
  PROVE  CountsInv'
<1> DEFINE s == copy_fd_table(Now, fd_table[p])
           D == live \X Fds
           open == {fd \in Fds : fd_table[p][fd] # NULL}
           child == [fd \in Fds |-> IF fd \in open THEN fd_table[p][fd] ELSE fd_table[c][fd]]
<1>0. /\ p \in live /\ c \notin live /\ Become(s) /\ fd_table' = [fd_table EXCEPT ![c] = child]
      /\ live' = live \cup {c} /\ Called /\ UNCHANGED min_fd /\ NotLeft(c, open)
  BY DEF Fork
<1>1. /\ p \in live /\ c \notin live /\ Become(s) /\ fd_table' = [fd_table EXCEPT ![c] = fd_table[p]]
      /\ live' = live \cup {c} /\ Called /\ UNCHANGED min_fd
  <2>1. \A fd \in Fds \ open : fd_table[c][fd] = NULL
    BY <1>0 DEF NotLeft, Careful, Overwritten
  <2>2. fd_table[p] \in [Fds -> Files \cup {NULL}]
    BY DEF CountsInv, IsTable
  <2>3. \A fd \in Fds : child[fd] = fd_table[p][fd]
    BY <2>1
  <2>4. child = fd_table[p]
    <3>1. child = [fd \in Fds |-> child[fd]] /\ fd_table[p] = [fd \in Fds |-> fd_table[p][fd]]
      BY <2>2
    <3> HIDE DEF child
    <3> QED
      BY <2>3, <3>1
  <2> HIDE DEF s, child
  <2> QED
    BY <1>0, <2>4
<1> HIDE DEF child, open
<1>2. /\ D \in SUBSET Descriptor /\ {p} \X Fds \subseteq D
      /\ D \cup ({c} \X Fds) = live' \X Fds
  BY <1>1, LiveDescriptors
<1>3. fd_table \in [Procs -> [Fds -> Files \cup {NULL}]]
  BY DEF CountsInv, IsTable
<1>4. IsTable(fd_table')
  BY <1>1, <1>3 DEF IsTable
<1>5. Forks(fd_table, fd_table', D, p, c)
  <2>1. fd_table'[c] = fd_table[p]
    BY <1>1, <1>3
  <2>2. ASSUME NEW y \in D
        PROVE  y[1] # c /\ fd_table'[y[1]][y[2]] = fd_table[y[1]][y[2]]
    <3>1. y[1] \in live /\ y[1] \in Procs
      BY DEF CountsInv
    <3> QED
      BY <3>1, <1>1, <1>3
  <2> HIDE DEF D
  <2> QED
    BY <2>1, <2>2, <1>2 DEF Forks
<1>6. Counts(s, fd_table', D \cup ({c} \X Fds))
  <2>1. Counts(Now, fd_table, D)
    BY DEF CountsInv
  <2> HIDE DEF D
  <2> QED
    BY <1>5, <2>1, CopyTable
<1>7. Counts(s, fd_table', live' \X Fds)
  <2> HIDE DEF D, s
  <2> QED
    BY <1>2, <1>6
<1>8. live' \in SUBSET Procs /\ min_fd' \in [Procs -> Fds]
  BY <1>1 DEF CountsInv
<1> HIDE DEF s
<1> QED
  BY <1>1, <1>4, <1>7, <1>8, StepKeeps

(* create_process() *)
LEMMA CreateProcessKeeps ==
  ASSUME CountsInv, NEW p \in Procs, CreateProcess(p)
  PROVE  CountsInv'
<1> DEFINE s == init_fd_table(Now)
           fl == free_open_file_list
           tab1 == [fd \in Fds |-> IF fd < STD THEN fl[fd + 1] ELSE fd_table[p][fd]]
           Std == {p} \X (0..(STD - 1))
<1>1. /\ live = {} /\ ops = 0 /\ Len(fl) >= STD /\ Become(s)
      /\ fd_table' = [fd_table EXCEPT ![p] = tab1] /\ live' = {p} /\ Called /\ UNCHANGED min_fd
  BY DEF CreateProcess
<1>2. Counts(Now, fd_table, {})
  <2>1. live \X Fds = {}
    BY <1>1
  <2> QED
    BY <2>1 DEF CountsInv
<1>3. fd_table \in [Procs -> [Fds -> Files \cup {NULL}]] /\ \A fd \in Fds : fd_table[p][fd] = NULL
  BY <1>1 DEF CountsInv, IsTable
<1>4. STD \in Nat /\ FD_NUM \in Nat /\ STD <= FD_NUM
  BY FileAssumption
<1>5. fl \in Seq(Files) /\ Len(fl) \in Nat
  BY <1>2, NowFields DEF Counts, EntriesOK, Listed
<1>6. /\ tab1 \in [Fds -> Files \cup {NULL}]
      /\ \A fd \in 0..(STD - 1) : fd \in Fds /\ tab1[fd] = fl[fd + 1]
      /\ \A fd \in Fds : fd \notin 0..(STD - 1) => tab1[fd] = NULL
  <2>1. ASSUME NEW fd \in Fds PROVE fd < STD <=> fd \in 0..(STD - 1)
    BY <1>4 DEF Fds
  <2>2. ASSUME NEW fd \in 0..(STD - 1) PROVE fd \in Fds /\ fl[fd + 1] \in Files
    <3>1. fd + 1 \in 1..Len(fl) /\ fd \in Fds
      BY <1>1, <1>4, <1>5 DEF Fds
    <3> QED
      BY <3>1, <1>5
  <2> HIDE DEF fl
  <2> QED
    BY <2>1, <2>2, <1>3
<1> HIDE DEF tab1
<1>7. fd_table'[p] = tab1 /\ IsTable(fd_table')
  BY <1>1, <1>3, <1>6 DEF IsTable
<1>8. Counts(s, fd_table', Std)
  <2>1. \A fd \in 0..(STD - 1) : fd_table'[p][fd] = Now.free_open_file_list[fd + 1]
    BY <1>6, <1>7, NowFields
  <2>2. Len(Now.free_open_file_list) >= STD
    BY <1>1, NowFields
  <2> QED
    BY <1>2, <2>1, <2>2, InitTable
<1> HIDE DEF s
<1>9. Counts(s, fd_table', {p} \X Fds)
  <2>1. \A e \in Files : Leads(fd_table', {p} \X Fds, e) = Leads(fd_table', Std, e)
    <3> SUFFICES ASSUME NEW e \in Files, NEW fd \in Fds, fd_table'[p][fd] = e
                 PROVE  fd \in 0..(STD - 1)
      BY <1>6 DEF Leads
    <3> QED
      BY <1>6, <1>7, FileAssumption DEF Files, NULL
  <2> HIDE DEF Std
  <2> QED
    BY <1>8, <2>1 DEF Counts, EntriesOK
<1>10. min_fd' \in [Procs -> Fds] /\ live' \in SUBSET Procs /\ Counts(s, fd_table', live' \X Fds)
  BY <1>1, <1>9 DEF CountsInv
<1> QED
  BY <1>1, <1>7, <1>10, StepKeeps


(* A closed descriptor gets the first free entry, on a vnode r has ready. *)
LEMMA OpenCounts ==
  ASSUME CountsInv, NEW p \in live, NEW fd \in Fds, fd_table[p][fd] = NULL,
         free_open_file_list # <<>>,
         fd_table' = [fd_table EXCEPT ![p][fd] = Head(free_open_file_list)]
  PROVE  /\ IsTable(fd_table')
         /\ \A t : SameFiles(Now, t) =>
              CanOpen(t, fd_table, fd_table', (live \X Fds) \ {<<p, fd>>}, <<p, fd>>)
<1> DEFINE fl == free_open_file_list
           e == Head(fl)
           x == <<p, fd>>
           D == live \X Fds
<1>1. p \in Procs /\ D \in SUBSET Descriptor /\ x \in D /\ Counts(Now, fd_table, D)
  BY LiveDescriptors DEF CountsInv
<1>2. e \in Files
  <2>1. Listed(fl, Files, {f \in Files : entry[f].count = 0})
    BY <1>1, NowFields DEF Counts, EntriesOK
  <2> HIDE DEF fl
  <2> QED
    BY <2>1, TakeFirst DEF fl
<1>3. /\ IsTable(fd_table') /\ fd_table'[p][fd] = e
      /\ \A y \in Descriptor \ {<<p, fd>>} : fd_table'[y[1]][y[2]] = fd_table[y[1]][y[2]]
  <2>1. fd_table' = [fd_table EXCEPT ![p][fd] = e] /\ e \in Files \cup {NULL}
    BY <1>2
  <2>2. p \in Procs
    BY <1>1
  <2> HIDE DEF e
  <2>3. Points(fd_table, fd_table', p, fd, e)
    BY <2>1, <2>2, TableChanged
  <2> QED
    BY <2>3 DEF Points
<1>4. fd_table[x[1]][x[2]] = NULL /\ fd_table'[x[1]][x[2]] = e
  BY <1>3
<1>5. ASSUME NEW t, SameFiles(Now, t) PROVE CanOpen(t, fd_table, fd_table', D \ {x}, x)
  <2>1. Counts(t, fd_table, D)
    <3> HIDE DEF D
    <3> QED
      BY <1>1, <1>5, SameCounts
  <2>2. Counts(t, fd_table, D \ {x})
    <3> HIDE DEF D, x
    <3> QED
      BY <2>1, <1>4, ClosedCounts
  <2>3. t.free_open_file_list = fl
    BY <1>5, NowFields DEF SameFiles
  <2>4. /\ D \ {x} \in SUBSET Descriptor /\ x \in Descriptor \ (D \ {x})
        /\ \A y \in D \ {x} : fd_table'[y[1]][y[2]] = fd_table[y[1]][y[2]]
    BY <1>1, <1>3
  <2> DEFINE E == D \ {x}
  <2> HIDE DEF D, x, E
  <2>5. CanOpen(t, fd_table, fd_table', E, x)
    BY <2>2, <2>3, <2>4, <1>4 DEF CanOpen, E
  <2> QED
    BY <2>5 DEF E
<1> QED
  BY <1>3, <1>5

(* fm_open() *)
LEMMA OpenKeeps ==
  ASSUME CountsInv, NEW p \in Procs, NEW path \in FilePaths, NEW create, Open(p, path, create)
  PROVE  CountsInv'
<1> DEFINE index == Index(p, path)
           found == IF index = NoInode THEN NULL ELSE Search(Now, index)
           v == IF found = NULL THEN Head(free_vnode_list) ELSE found
           t == CreateFile(Now, Start(p, path), path.names)
           s == IF found # NULL THEN [Now EXCEPT !.vnode[found].count = @ + 1]
                ELSE IF index # NoInode THEN get_free_vnode(Now, index, disk[index])
                ELSE get_free_vnode(t, t.inode_bit_index, Plain(<<>>))
           e == Head(free_open_file_list)
           fd == FreeFd(p)
           r == get_free_file_entry(s, v)
           u == SetOffset(r, e, 0)
           x == <<p, fd>>
           D == live \X Fds
           E == D \ {x}
<1>1. /\ p \in live
      /\ found # NULL \/ free_vnode_list # <<>>
      /\ free_open_file_list # <<>> /\ \E f \in Fds : fd_table[p][f] = NULL
      /\ Become(u) /\ fd_table' = [fd_table EXCEPT ![p][fd] = e]
      /\ min_fd' = [min_fd EXCEPT ![p] = (fd + 1) % FD_NUM]
      /\ Called /\ live' = live
  BY DEF Open, SetOffset
<1>2. fd \in Fds /\ fd_table[p][fd] = NULL
  BY <1>1, FreeFdIsClosed
<1>3. /\ IsTable(fd_table')
      /\ \A w : SameFiles(Now, w) => CanOpen(w, fd_table, fd_table', E, x)
  <2> HIDE DEF u, found, fd
  <2>1. fd_table' = [fd_table EXCEPT ![p][fd] = Head(free_open_file_list)] /\ p \in live
        /\ free_open_file_list # <<>>
    BY <1>1
  <2> HIDE DEF fd
  <2> QED
    BY <2>1, <1>2, OpenCounts
<1>4. SameFiles(Now, Now) /\ SameFiles(Now, t)
  <2>1. path.names \in Seq(STRING)
    BY FileAssumption
  <2>2. SameFiles(Now, t)
    BY <2>1, NowFields, CreateFileKeeps
  <2> QED
    BY <2>2, NowFields DEF SameFiles
<1>5. Counts(Now, fd_table, D)
  BY DEF CountsInv
<1>6. Counts(r, fd_table', E \cup {x})
  <2>1. CASE found # NULL
    <3>1. r = Opened(Now, found)
      BY <2>1 DEF Opened
    <3>2. found \in Vnodes /\ Now.vnode[found].count # 0
      <4>1. found = Search(Now, index) /\ Search(Now, index) # NULL
        BY <2>1
      <4> HIDE DEF index, found, D
      <4> QED
        BY <4>1, <1>5, SearchActive
    <3>3. CanOpen(Now, fd_table, fd_table', E, x)
      BY <1>3, <1>4
    <3> HIDE DEF r, found, E, x
    <3> QED
      BY <3>1, <3>2, <3>3, OpenActive
  <2>2. CASE found = NULL /\ index # NoInode
    <3>1. r = OpenedNew(Now, index, disk[index])
      <4>1. s = get_free_vnode(Now, index, disk[index]) /\ v = Head(Now.free_vnode_list)
        BY <2>2, NowFields
      <4> HIDE DEF s, v
      <4> QED
        BY <4>1 DEF OpenedNew
    <3>2. Now.free_vnode_list # <<>>
      BY <2>2, <1>1, NowFields
    <3>3. CanOpen(Now, fd_table, fd_table', E, x)
      BY <1>3, <1>4
    <3> HIDE DEF r, index, E, x
    <3> QED
      BY <3>1, <3>2, <3>3, OpenFree
  <2>3. CASE found = NULL /\ index = NoInode
    <3>1. t.free_vnode_list = free_vnode_list
      BY <1>4, NowFields DEF SameFiles
    <3>2. r = OpenedNew(t, t.inode_bit_index, Plain(<<>>))
      <4>1. s = get_free_vnode(t, t.inode_bit_index, Plain(<<>>)) /\ v = Head(t.free_vnode_list)
        BY <2>3, <3>1
      <4> HIDE DEF s, v, t
      <4> QED
        BY <4>1 DEF OpenedNew
    <3>3. t.free_vnode_list # <<>>
      BY <2>3, <3>1, <1>1
    <3>4. CanOpen(t, fd_table, fd_table', E, x)
      BY <1>3, <1>4
    <3> HIDE DEF r, t, E, x
    <3> QED
      BY <3>2, <3>3, <3>4, OpenFree
  <2> QED
    BY <2>1, <2>2, <2>3
<1>7. E \cup {x} = live' \X Fds
  <2> HIDE DEF u, found, fd
  <2> QED
    BY <1>1, <1>2
<1>8. Counts(u, fd_table', live' \X Fds)
  <2> HIDE DEF r, E, x, e
  <2> QED
    BY <1>6, <1>7, OffsetKeeps
<1>9. min_fd' \in [Procs -> Fds]
  <2>1. (fd + 1) % FD_NUM \in Fds
    <3> HIDE DEF fd
    <3> QED
      BY <1>2, FileAssumption DEF Fds
  <2> HIDE DEF fd
  <2> QED
    BY <1>1, <2>1 DEF CountsInv
<1>10. live' \in SUBSET Procs
  BY <1>1 DEF CountsInv
<1> HIDE DEF u
<1> QED
  BY <1>1, <1>3, <1>8, <1>9, <1>10, StepKeeps


-----------------------------------------------------------------------------
(* The counts are exact. *)

(* Counting down: the last of an array is first on the list. *)
LEMMA Backwards ==
  ASSUME NEW n \in Nat, NEW k \in Nat, NEW S, NEW P, NEW l,
         l = Reverse([i \in 1..n |-> k + i]),
         \A i \in 1..n : k + i \in S, \A x \in S : x \in P <=> x \in (k + 1)..(k + n)
  PROVE  Listed(l, S, P)
<1> DEFINE a == [i \in 1..n |-> k + i]
<1>1. a \in Seq(S) /\ Len(a) = n
  OBVIOUS
<1>2. l = [i \in 1..n |-> a[(n - i) + 1]]
  <2> HIDE DEF a
  <2>1. l = Reverse(a)
    BY DEF a
  <2> QED
    BY <2>1, <1>1 DEF Reverse
<1>3. \A i \in 1..n : a[(n - i) + 1] = k + n + 1 - i /\ (n - i) + 1 \in 1..n
  OBVIOUS
<1>4. l \in Seq(S) /\ Len(l) = n /\ \A i \in 1..n : l[i] = k + n + 1 - i
  <2> HIDE DEF a
  <2>1. \A i \in 1..n : a[(n - i) + 1] \in S
    BY <1>1, <1>3
  <2>2. l \in [1..n -> S]
    BY <1>2, <2>1
  <2>3. l \in Seq(S) /\ Len(l) = n
    BY <2>2
  <2> QED
    BY <1>2, <1>3, <2>3
<1>5. Distinct(l)
  <2> SUFFICES ASSUME NEW i \in 1..n, NEW j \in 1..n, l[i] = l[j] PROVE i = j
    BY <1>4 DEF Distinct
  <2>1. l[i] = k + n + 1 - i /\ l[j] = k + n + 1 - j
    BY <1>4
  <2>2. k + n + 1 - i = k + n + 1 - j
    BY <2>1
  <2> QED
    BY <2>2
<1>6. \A x \in S : On(l, x) <=> x \in P
  <2> TAKE x \in S
  <2>1. On(l, x) => x \in (k + 1)..(k + n)
    BY <1>4 DEF On
  <2>2. ASSUME x \in (k + 1)..(k + n) PROVE On(l, x)
    <3>1. k + n + 1 - x \in 1..n /\ k + n + 1 - (k + n + 1 - x) = x
      BY <2>2
    <3> QED
      BY <3>1, <1>4 DEF On
  <2> QED
    BY <2>1, <2>2
<1> QED
  BY <1>4, <1>5, <1>6 DEF Listed

(* At the start. *)
LEMMA CountsInit ==
  ASSUME SInit
  PROVE  CountsInv
<1>1. /\ STD \in Nat /\ FD_NUM \in Nat \ {0} /\ KERNEL_INODE_NUM \in Nat /\ STD <= KERNEL_INODE_NUM
      /\ KERNEL_FILE_NUM \in Nat
  BY FileAssumption
<1>2. /\ active_vnode_list = [k \in 1..STD |-> k]
      /\ free_vnode_list = Reverse([k \in 1..(KERNEL_INODE_NUM - STD) |-> STD + k])
      /\ entry = [e \in Files |-> [offset |-> 0, count |-> 0, vnode |-> NULL]]
      /\ free_open_file_list = Reverse([k \in 1..KERNEL_FILE_NUM |-> k])
      /\ live = {} /\ ops = 0
      /\ fd_table = [p \in Procs |-> [fd \in Fds |-> NULL]]
      /\ min_fd = [p \in Procs |-> 0]
  BY DEF SInit
<1>3. \A e \in Files : entry[e].count = 0
  BY <1>2
<1>4. AreEntries(entry)
  BY <1>2 DEF AreEntries
<1>5. /\ AreVnodes(vnode)
      /\ \A v \in Vnodes : vnode[v].count = Extra(v)
  <2> DEFINE I(v) == [Plain(<<>>) EXCEPT !.dev_id = IF v \in Terms THEN 1 ELSE 0]
             R(v) == [index |-> Root, inode |-> I(v), count |-> Extra(v)]
  <2>1. vnode = [v \in Vnodes |-> R(v)]
    BY DEF SInit, Extra
  <2> HIDE DEF I
  <2>2. \A v \in Vnodes : Extra(v) \in Nat
    BY DEF Extra
  <2> QED
    BY <2>1, <2>2 DEF AreVnodes
<1>6. Listed(free_open_file_list, Files, {e \in Files : entry[e].count = 0})
  <2> DEFINE P == {e \in Files : entry[e].count = 0}
             l == free_open_file_list
  <2>1. [k \in 1..KERNEL_FILE_NUM |-> k] = [k \in 1..KERNEL_FILE_NUM |-> 0 + k]
    OBVIOUS
  <2>2. l = Reverse([k \in 1..KERNEL_FILE_NUM |-> 0 + k])
    BY <1>2, <2>1
  <2>3. \A i \in 1..KERNEL_FILE_NUM : 0 + i \in Files
    BY DEF Files
  <2>4. \A x \in Files : x \in P <=> x \in (0 + 1)..(0 + KERNEL_FILE_NUM)
    BY <1>1, <1>3 DEF Files
  <2> HIDE DEF P, l
  <2>5. Listed(l, Files, P)
    BY <1>1, <2>2, <2>3, <2>4, Backwards
  <2> QED
    BY <2>5 DEF P, l
<1>7. Listed(free_vnode_list, Vnodes, {v \in Vnodes : vnode[v].count = 0})
  <2> DEFINE P == {v \in Vnodes : vnode[v].count = 0}
             l == free_vnode_list
             n == KERNEL_INODE_NUM - STD
  <2>1. n \in Nat /\ STD + n = KERNEL_INODE_NUM
    BY <1>1
  <2>2. l = Reverse([k \in 1..n |-> STD + k])
    BY <1>2
  <2>3. \A i \in 1..n : STD + i \in Vnodes
    BY <1>1 DEF Vnodes
  <2>4. \A x \in Vnodes : x \in P <=> x \in (STD + 1)..(STD + n)
    BY <1>1, <1>5, <2>1 DEF Vnodes, Extra, Terms
  <2> HIDE DEF P, l, n
  <2>5. Listed(l, Vnodes, P)
    BY <1>1, <2>1, <2>2, <2>3, <2>4, Backwards
  <2> QED
    BY <2>5 DEF P, l
<1>8. Listed(active_vnode_list, Vnodes, {v \in Vnodes : vnode[v].count # 0})
  <2> DEFINE P == {v \in Vnodes : vnode[v].count # 0}
             l == active_vnode_list
  <2>1. \A i \in 1..STD : i \in Vnodes
    BY <1>1 DEF Vnodes
  <2>2. l \in Seq(Vnodes) /\ Len(l) = STD /\ \A i \in 1..STD : l[i] = i
    BY <1>1, <1>2, <2>1
  <2>3. \A x \in Vnodes : x \in P <=> x \in 1..STD
    BY <1>5 DEF Extra, Terms
  <2> HIDE DEF P, l
  <2>4. Listed(l, Vnodes, P)
    BY <2>2, <2>3 DEF Listed, Distinct, On
  <2> QED
    BY <2>4 DEF P, l
<1>9. \A v : Holders(entry, v) = {}
  BY <1>3 DEF Holders
<1>10. live \X Fds = {} /\ \A e : Leads(fd_table, live \X Fds, e) = {}
  BY <1>2 DEF Leads
<1>11. Cardinality({}) = 0
  BY FS_EmptySet
<1>12. EntriesOK(entry, free_open_file_list, fd_table, live \X Fds)
  BY <1>3, <1>4, <1>6, <1>10, <1>11 DEF EntriesOK
<1>13. VnodesOK(vnode, entry, active_vnode_list, free_vnode_list)
  <2>1. \A v \in Vnodes : vnode[v].count = Cardinality(Holders(entry, v)) + Extra(v)
    BY <1>5, <1>9, <1>11 DEF Extra
  <2> QED
    BY <1>5, <1>7, <1>8, <2>1 DEF VnodesOK
<1>14. Counts(Now, fd_table, live \X Fds)
  BY <1>12, <1>13, NowFields DEF Counts
<1>15. IsTable(fd_table) /\ min_fd \in [Procs -> Fds]
  BY <1>1, <1>2 DEF IsTable, Fds
<1> QED
  BY <1>2, <1>14, <1>15 DEF CountsInv

(* Every call keeps the counts. *)
LEMMA CountsStep ==
  ASSUME Careful, CountsInv, [SNext]_svars
  PROVE  CountsInv'
<1>1. CASE UNCHANGED svars
  <2>1. Now' = Now /\ UNCHANGED <<live, fd_table, min_fd, ops>>
    BY <1>1 DEF svars, tables, Now
  <2> QED
    BY <2>1 DEF CountsInv
<1>2. ASSUME NEW p \in Procs, NEW path \in FilePaths, NEW create \in BOOLEAN, Open(p, path, create)
      PROVE  CountsInv'
  BY <1>2, OpenKeeps
<1>3. ASSUME NEW p \in Procs, NEW path \in FilePaths, Create(p, path) \/ DeleteFile(p, path)
      PROVE  CountsInv'
  BY <1>3, CreateKeeps, RemoveKeeps DEF DeleteFile
<1>4. ASSUME NEW p \in Procs, NEW path \in DirPaths, Mkdir(p, path) \/ Rmdir(p, path) \/ Chdir(p, path)
      PROVE  CountsInv'
  BY <1>4, MkdirKeeps, RemoveKeeps, ChdirKeeps DEF Rmdir
<1>5. ASSUME NEW p \in Procs, NEW fd \in Fds,
             Close(p, fd) \/ Read(p, fd) \/ Write(p, fd) \/ Dup(p, fd)
      PROVE  CountsInv'
  BY <1>5, CloseKeeps, ReadKeeps, WriteKeeps, DupKeeps
<1>6. ASSUME NEW p \in Procs, NEW fd \in Fds, NEW offset \in 0..MaxSize, Lseek(p, fd, offset)
      PROVE  CountsInv'
  BY <1>6, LseekKeeps
<1>7. ASSUME NEW p \in Procs, NEW fd \in Fds, NEW new \in Fds, Dup2(p, fd, new)
      PROVE  CountsInv'
  BY <1>7, Dup2Keeps
<1>8. ASSUME NEW p \in Procs, CreateProcess(p) \/ Exit(p)
      PROVE  CountsInv'
  BY <1>8, CreateProcessKeeps, ExitKeeps
<1>9. ASSUME NEW p \in Procs, NEW c \in Procs, Fork(p, c)
      PROVE  CountsInv'
  BY <1>9, ForkKeeps
<1> QED
  BY <1>1, <1>2, <1>3, <1>4, <1>5, <1>6, <1>7, <1>8, <1>9 DEF SNext


(* How often something stands on a list. *)
LEMMA StandsOnce ==
  ASSUME NEW S, NEW l, NEW P, Listed(l, S, P), NEW x \in S
  PROVE  Cardinality({k \in DOMAIN l : l[k] = x}) = IF x \in P THEN 1 ELSE 0
<1> DEFINE K == {k \in DOMAIN l : l[k] = x}
<1>1. l \in Seq(S) /\ Distinct(l) /\ (On(l, x) <=> x \in P) /\ DOMAIN l = 1..Len(l)
  BY DEF Listed
<1>2. CASE x \in P
  <2>1. PICK i \in 1..Len(l) : l[i] = x
    BY <1>1, <1>2 DEF On
  <2>2. K = {i}
    BY <1>1, <2>1 DEF Distinct
  <2> HIDE DEF K
  <2>3. Cardinality(K) = 1
    BY <2>2, FS_Singleton
  <2> QED
    BY <1>2, <2>3 DEF K
<1>3. CASE x \notin P
  <2>1. K = {}
    BY <1>1, <1>3 DEF On
  <2> HIDE DEF K
  <2>2. Cardinality(K) = 0
    BY <2>1, FS_EmptySet
  <2> QED
    BY <1>3, <2>2 DEF K
<1> QED
  BY <1>2, <1>3

(* Two lists that share nothing, one behind the other. *)
LEMMA Joined ==
  ASSUME NEW S, NEW l, NEW P, NEW m, NEW Q, Listed(l, S, P), Listed(m, S, Q),
         P \cap Q = {}
  PROVE  Listed(l \o m, S, P \cup Q)
<1> DEFINE b == l \o m
<1>1. l \in Seq(S) /\ m \in Seq(S) /\ Distinct(l) /\ Distinct(m)
  BY DEF Listed
<1>2. /\ b \in Seq(S) /\ Len(b) = Len(l) + Len(m) /\ Len(l) \in Nat /\ Len(m) \in Nat
      /\ \A i \in 1..Len(l) : b[i] = l[i]
      /\ \A i \in 1..Len(m) : b[Len(l) + i] = m[i]
  BY <1>1
<1>3. \A i \in 1..Len(b) : i \in 1..Len(l) \/ \E j \in 1..Len(m) : i = Len(l) + j
  <2> TAKE i \in 1..Len(b)
  <2>1. i \in 1..Len(l) \/ (i - Len(l) \in 1..Len(m) /\ i = Len(l) + (i - Len(l)))
    BY <1>2
  <2> QED
    BY <2>1
<1>4. \A x \in S : (\E i \in 1..Len(l) : l[i] = x) <=> x \in P
  BY DEF Listed, On
<1>5. \A x \in S : (\E i \in 1..Len(m) : m[i] = x) <=> x \in Q
  BY DEF Listed, On
<1>6. \A i \in 1..Len(l), j \in 1..Len(m) : l[i] # m[j]
  <2> TAKE i \in 1..Len(l), j \in 1..Len(m)
  <2>1. l[i] \in S /\ m[j] \in S
    BY <1>1
  <2> QED
    BY <2>1, <1>4, <1>5
<1> HIDE DEF b
<1>7. Distinct(b)
  <2> SUFFICES ASSUME NEW i \in 1..Len(b), NEW j \in 1..Len(b), b[i] = b[j] PROVE i = j
    BY DEF Distinct
  <2>1. CASE i \in 1..Len(l)
    <3>1. CASE j \in 1..Len(l)
      BY <2>1, <3>1, <1>1, <1>2 DEF Distinct
    <3>2. ASSUME NEW h \in 1..Len(m), j = Len(l) + h PROVE i = j
      BY <2>1, <3>2, <1>2, <1>6
    <3> QED
      BY <3>1, <3>2, <1>3
  <2>2. ASSUME NEW g \in 1..Len(m), i = Len(l) + g PROVE i = j
    <3>1. CASE j \in 1..Len(l)
      BY <2>2, <3>1, <1>2, <1>6
    <3>2. ASSUME NEW h \in 1..Len(m), j = Len(l) + h PROVE i = j
      <4>1. m[g] = m[h]
        BY <2>2, <3>2, <1>2
      <4>2. g = h
        BY <2>2, <3>2, <4>1, <1>1 DEF Distinct
      <4> QED
        BY <2>2, <3>2, <4>2
    <3> QED
      BY <3>1, <3>2, <1>3
  <2> QED
    BY <2>1, <2>2, <1>3
<1>8. \A x \in S : On(b, x) <=> x \in P \cup Q
  <2> TAKE x \in S
  <2>1. ASSUME On(b, x) PROVE x \in P \cup Q
    <3>1. PICK i \in 1..Len(b) : b[i] = x
      BY <2>1 DEF On
    <3>2. CASE i \in 1..Len(l)
      <4>1. l[i] = x
        BY <3>1, <3>2, <1>2
      <4> QED
        BY <3>2, <4>1, <1>4
    <3>3. ASSUME NEW j \in 1..Len(m), i = Len(l) + j PROVE x \in Q
      <4>1. m[j] = x
        BY <3>1, <3>3, <1>2
      <4> QED
        BY <4>1, <1>5
    <3> QED
      BY <3>2, <3>3, <1>3
  <2>2. ASSUME x \in P PROVE On(b, x)
    <3>1. PICK i \in 1..Len(l) : l[i] = x
      BY <2>2, <1>4
    <3>2. i \in 1..Len(b) /\ b[i] = x
      BY <3>1, <1>2
    <3> QED
      BY <3>2 DEF On
  <2>3. ASSUME x \in Q PROVE On(b, x)
    <3>1. PICK i \in 1..Len(m) : m[i] = x
      BY <2>3, <1>5
    <3>2. Len(l) + i \in 1..Len(b) /\ b[Len(l) + i] = x
      BY <3>1, <1>2
    <3> QED
      BY <3>2 DEF On
  <2> QED
    BY <2>1, <2>2, <2>3
<1>9. Listed(b, S, P \cup Q)
  BY <1>2, <1>7, <1>8 DEF Listed
<1> QED
  BY <1>9 DEF b

(* The invariant says that the counts are exact. *)
LEMMA CountsInvExact ==
  ASSUME CountsInv
  PROVE  CountsExact
<1> DEFINE Free == {e \in Files : entry[e].count = 0}
           Idle == {v \in Vnodes : vnode[v].count = 0}
           Busy == {v \in Vnodes : vnode[v].count # 0}
           both == active_vnode_list \o free_vnode_list
<1>1. /\ EntriesOK(entry, free_open_file_list, fd_table, live \X Fds)
      /\ VnodesOK(vnode, entry, active_vnode_list, free_vnode_list)
  BY NowFields DEF CountsInv, Counts
<1>2. \A e \in Files : entry[e].count = Cardinality(Descriptors(e))
  <2>1. \A e \in Files : Descriptors(e) = Leads(fd_table, live \X Fds, e)
    BY DEF Descriptors, Leads
  <2> QED
    BY <1>1, <2>1 DEF EntriesOK
<1>3. \A v \in Vnodes : vnode[v].count = Cardinality({e \in InUse : entry[e].vnode = v})
                                           + IF v \in Terms THEN 1 ELSE 0
  <2>1. \A v \in Vnodes : {e \in InUse : entry[e].vnode = v} = Holders(entry, v)
    BY DEF InUse, Holders
  <2> QED
    BY <1>1, <2>1 DEF VnodesOK, Extra
<1>4. \A e \in Files : Cardinality({k \in DOMAIN free_open_file_list : free_open_file_list[k] = e})
                         = IF e \in InUse THEN 0 ELSE 1
  <2>1. Listed(free_open_file_list, Files, Free)
    BY <1>1 DEF EntriesOK
  <2>2. \A e \in Files : e \in Free <=> e \notin InUse
    BY DEF InUse
  <2> HIDE DEF Free
  <2>3. \A e \in Files : Cardinality({k \in DOMAIN free_open_file_list : free_open_file_list[k] = e})
                           = IF e \in Free THEN 1 ELSE 0
    BY <2>1, StandsOnce
  <2> QED
    BY <2>2, <2>3
<1>5. Listed(active_vnode_list, Vnodes, Busy) /\ Listed(free_vnode_list, Vnodes, Idle)
  BY <1>1 DEF VnodesOK
<1>6. \A v \in Vnodes : Cardinality({k \in DOMAIN both : both[k] = v}) = 1
  <2>1. Busy \cap Idle = {} /\ \A v \in Vnodes : v \in Busy \cup Idle
    OBVIOUS
  <2> HIDE DEF Busy, Idle
  <2>2. Listed(both, Vnodes, Busy \cup Idle)
    BY <1>5, <2>1, Joined
  <2> HIDE DEF both
  <2> QED
    BY <2>1, <2>2, StandsOnce
<1>7. \A v \in Vnodes : v \in Range(free_vnode_list) <=> vnode[v].count = 0
  <2> TAKE v \in Vnodes
  <2>1. v \in Range(free_vnode_list) <=> On(free_vnode_list, v)
    <3>1. DOMAIN free_vnode_list = 1..Len(free_vnode_list)
      BY <1>5 DEF Listed
    <3> QED
      BY <3>1 DEF Range, On
  <2> QED
    BY <2>1, <1>5 DEF Listed
<1> QED
  BY <1>2, <1>3, <1>4, <1>6, <1>7 DEF CountsExact

(* Whatever processes open, share by fork(), dup() and dup2(), close and leave
   open when they exit, and however many processes, descriptors, entries and
   vnodes there are, release_file_entry() and release_kernel_vnode() free an
   entry and a vnode exactly when the last descriptor and the last entry that
   lead to it go - if the target of dup() and dup2() is closed and the PCB of a
   child has no leftover descriptor that its parent has not.  Without these two
   the code loses count (FilesDup.cfg and FilesFork.cfg). *)
THEOREM CountsStayExact ==
  ASSUME Careful
  PROVE  SSpec => []CountsExact
<1>1. SInit => CountsInv
  BY CountsInit
<1>2. CountsInv /\ [SNext]_svars => CountsInv'
  BY CountsStep
<1>3. CountsInv => CountsExact
  BY CountsInvExact
<1> QED
  BY <1>1, <1>2, <1>3, PTL DEF SSpec
=============================================================================
