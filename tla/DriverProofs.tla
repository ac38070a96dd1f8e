---------------------------- MODULE DriverProofs ----------------------------
(***************************************************************************)
(* Proofs about two drivers.  The delta queue of the timer keeps every     *)
(* deadline, for any number of processes and any durations.  The           *)
(* write-back cache of the disk driver never loses a byte and the drive's  *)
(* interrupt never leaks, for any disk, cache, box and clients.            *)
(***************************************************************************)
EXTENDS Timer, Ide, ListsProofs

(***************************************************************************)
(* The timer.                                                              *)
(***************************************************************************)

\* The deadline of node i, for i >= 1.
Due(i) == left[wait_queue[i].pid]

\* No process is in the queue twice.
OneNodeEach ==
  \A i, j \in 1..Len(wait_queue) : wait_queue[i].pid = wait_queue[j].pid => i = j

\* In the order of the deadlines; with DeltasAreExact this is sec >= 0, but for
\* any two nodes and not only for neighbours.
Sorted ==
  \A i, j \in 1..Len(wait_queue) : i < j => Due(i) <= Due(j)

Deltas ==
  \A i \in 1..Len(wait_queue) :
    wait_queue[i].sec = IF i = 1 THEN Due(1) ELSE Due(i) - Due(i - 1)

\* Who is in the queue, in either loop and outside them.
Members ==
  /\ at = "idle" => \A p \in Pids : Queued(p) <=> left[p] > 0
  /\ at = "firing" => \A p \in Pids : left[p] > 0 => Queued(p)
  /\ at = "adding" => \A p \in Pids : Queued(p) <=> left[p] > 0 /\ p # new_time.pid

\* The loop of add_time_event() is at ptr, behind every node before it, and has
\* subtracted what they add up to.
Inserting ==
  at = "adding" =>
    /\ ptr <= Len(wait_queue) + 1
    /\ left[new_time.pid] > 0
    /\ new_time.sec >= 0
    /\ new_time.sec = left[new_time.pid] - (IF ptr = 1 THEN 0 ELSE Due(ptr - 1))

\* Every node is free, in the queue, in the hand of add_time_event(), or lost.
NodeCount ==
  free_list + Len(wait_queue) + immediate + (IF at = "adding" THEN 1 ELSE 0) = NODES

TimerInv ==
  TTypeOK /\ OneNodeEach /\ Sorted /\ Deltas /\ Members /\ Inserting /\ NodeCount
-----------------------------------------------------------------------------
(* A node of the queue belongs to a process; its deadline is a number. *)
LEMMA NodeAt ==
  ASSUME NEW N, NEW q \in Seq([pid : N, sec : Int]), NEW l \in [N -> Nat]
  PROVE  /\ Len(q) \in Nat
         /\ \A i \in 1..Len(q) : /\ q[i] \in [pid : N, sec : Int]
                                 /\ q[i].pid \in N /\ q[i].sec \in Int
                                 /\ l[q[i].pid] \in Nat
<1>1. Len(q) \in Nat
  OBVIOUS
<1> DEFINE R == [pid : N, sec : Int]
<1>2. \A i \in 1..Len(q) : q[i] \in R
  <2>1. q \in Seq(R)
    OBVIOUS
  <2> HIDE DEF R
  <2> QED
    BY <2>1, <1>1
<1>3. \A x \in [pid : N, sec : Int] : x.pid \in N /\ x.sec \in Int
  OBVIOUS
<1> QED
  BY <1>1, <1>2, <1>3

(* The timer starts with an empty queue. *)
LEMMA InitTimer == TInit => TimerInv
<1> SUFFICES ASSUME TInit PROVE TimerInv
  OBVIOUS
<1>1. TTypeOK
  <2>1. new_time \in Nodes
    <3>1. PICK x \in [pid : Pids, sec : {0}] : new_time = x
      BY DEF TInit
    <3>2. x = [pid |-> x.pid, sec |-> x.sec] /\ x.pid \in Pids /\ x.sec \in Int
      OBVIOUS
    <3> QED
      BY <3>1, <3>2 DEF Nodes
  <2>2. wait_queue \in Seq(Nodes)
    BY DEF TInit
  <2>3. 0 \in 0..(HZ - 1)
    BY TimerAssumption
  <2>4. left \in [Pids -> Nat]
    BY DEF TInit
  <2>5. free_list \in Nat /\ ptr = 1 /\ jiffy = 0 /\ at = "idle" /\ immediate = 0
    BY TimerAssumption DEF TInit
  <2>6. exhausted \in BOOLEAN
    BY DEF TInit
  <2>7. ptr \in Nat \ {0} /\ jiffy \in 0..(HZ - 1) /\ immediate \in Nat
    BY <2>3, <2>5
  <2>8. at \in {"idle", "adding", "firing"}
    BY <2>5
  <2> QED
    BY <2>1, <2>2, <2>4, <2>5, <2>6, <2>7, <2>8, Zenon DEF TTypeOK
<1>2. Len(wait_queue) = 0
  BY DEF TInit
<1> QED
  BY <1>1, <1>2, TimerAssumption
  DEF TInit, TimerInv, OneNodeEach, Sorted, Deltas, Members, Inserting, Queued, NodeCount

(* A request leaves the queue as it is: who asks is awake, and not in it. *)
LEMMA AddTimer ==
  ASSUME TimerInv, NEW p \in Pids, NEW sec \in Secs, AddTimeEvent(p, sec)
  PROVE  TimerInv'
<1> USE DEF TimerInv
<1>0. /\ at = "idle" /\ left[p] = 0 /\ wait_queue' = wait_queue /\ jiffy' = jiffy
      /\ sec \in Int
  BY TimerAssumption DEF AddTimeEvent
<1>t. /\ wait_queue \in Seq(Nodes) /\ Len(wait_queue) \in Nat
      /\ \A i \in 1..Len(wait_queue) : wait_queue[i] \in Nodes /\ wait_queue[i].pid \in Pids
      /\ left \in [Pids -> Nat]
  <2>1. wait_queue \in Seq([pid : Pids, sec : Int]) /\ left \in [Pids -> Nat]
    BY DEF TTypeOK, Nodes
  <2> QED
    BY <2>1, NodeAt DEF Nodes
<1>1. CASE free_list = 0
  <2>1. UNCHANGED <<wait_queue, free_list, new_time, at, ptr, left, immediate, jiffy>> /\ exhausted' = TRUE
    BY <1>0, <1>1 DEF AddTimeEvent
  <2> QED
    BY <2>1 DEF TTypeOK, OneNodeEach, Sorted, Deltas, Due, Members, Queued, Inserting, NodeCount
<1>2. CASE free_list # 0 /\ sec <= 0
  <2>1. /\ UNCHANGED <<wait_queue, new_time, at, ptr, left, exhausted, jiffy>>
        /\ free_list' = free_list - 1 /\ immediate' = immediate + 1
    BY <1>0, <1>2 DEF AddTimeEvent
  <2>2. TTypeOK' /\ NodeCount'
    BY <1>2, <1>t, <2>1 DEF TTypeOK, NodeCount
  <2> QED
    BY <2>1, <2>2 DEF OneNodeEach, Sorted, Deltas, Due, Members, Queued, Inserting
<1>3. CASE free_list # 0 /\ ~(sec <= 0)
  <2>1. /\ UNCHANGED <<wait_queue, exhausted, jiffy, immediate>>
        /\ new_time' = [pid |-> p, sec |-> sec]
        /\ at' = "adding" /\ ptr' = 1
        /\ left' = [left EXCEPT ![p] = sec]
        /\ free_list' = free_list - 1
    BY <1>0, <1>3 DEF AddTimeEvent, StartAdding
  <2>2. sec \in Nat /\ sec > 0
    BY <1>0, <1>3
  <2>3. TTypeOK' /\ NodeCount'
    <3>1. new_time' \in Nodes
      BY <1>0, <2>1 DEF Nodes
    <3>2. left' \in [Pids -> Nat]
      BY <1>t, <2>1, <2>2
    <3>3. free_list' \in Nat /\ free_list' = free_list - 1 /\ free_list \in Nat
      BY <1>3, <2>1 DEF TTypeOK
    <3> QED
      BY <1>0, <1>t, <2>1, <3>1, <3>2, <3>3 DEF TTypeOK, NodeCount
  <2>4. ~Queued(p)
    BY <1>0 DEF Members
  <2>5. \A i \in 1..Len(wait_queue) : Due(i)' = Due(i)
    BY <2>1, <2>4, <1>t DEF Due, Queued
  <2>6. OneNodeEach' /\ Sorted'
    BY <2>1, <2>5 DEF OneNodeEach, Sorted
  <2>7. Deltas'
    BY <1>t, <2>1, <2>5, SMTT(60) DEF Deltas
  <2>8. Members'
    <3>1. \A q \in Pids : Queued(q) <=> left[q] > 0
      BY <1>0 DEF Members
    <3>2. \A q : Queued(q)' <=> Queued(q)
      BY <2>1 DEF Queued
    <3>3. \A q \in Pids : q # p => left'[q] = left[q]
      BY <1>t, <2>1
    <3> QED
      BY <2>1, <2>4, <3>1, <3>2, <3>3 DEF Members
  <2>9. Inserting'
    BY <1>t, <2>1, <2>2 DEF Inserting
  <2> QED
    BY <2>3, <2>6, <2>7, <2>8, <2>9
<1> QED
  BY <1>1, <1>2, <1>3

(* The loop of add_time_event() goes on: the difference is the one to the node
   it has passed. *)
LEMMA PassTimer ==
  ASSUME TimerInv, PassNode
  PROVE  TimerInv'
<1> USE DEF TimerInv
<1>0. /\ at = "adding" /\ ptr <= Len(wait_queue) /\ new_time.sec >= wait_queue[ptr].sec
      /\ new_time' = [new_time EXCEPT !.sec = @ - wait_queue[ptr].sec] /\ ptr' = ptr + 1
      /\ UNCHANGED <<wait_queue, free_list, at, jiffy, left, immediate, exhausted>>
  BY DEF PassNode, Behind
<1>t. /\ wait_queue \in Seq(Nodes) /\ Len(wait_queue) \in Nat
      /\ ptr \in 1..Len(wait_queue) /\ ptr \in Int
      /\ wait_queue[ptr].sec \in Int /\ left[wait_queue[ptr].pid] \in Int
      /\ new_time \in Nodes
      /\ new_time.sec \in Int /\ left[new_time.pid] \in Int
      /\ \A i \in 1..Len(wait_queue) : left[wait_queue[i].pid] \in Int
  <2>1. wait_queue \in Seq([pid : Pids, sec : Int]) /\ left \in [Pids -> Nat]
    BY DEF TTypeOK, Nodes
  <2>2. Len(wait_queue) \in Nat /\ ptr \in 1..Len(wait_queue) /\ ptr \in Int
    BY <1>0, <2>1 DEF TTypeOK
  <2>3. new_time \in [pid : Pids, sec : Int]
    BY DEF TTypeOK, Nodes
  <2>4. new_time.sec \in Int /\ new_time.pid \in Pids
    BY <2>3
  <2>5. \A i \in 1..Len(wait_queue) : wait_queue[i].sec \in Int /\ left[wait_queue[i].pid] \in Nat
    BY <2>1, NodeAt
  <2>6. left[new_time.pid] \in Nat
    BY <2>1, <2>4
  <2>7. \A x \in Nat : x \in Int
    OBVIOUS
  <2>8. wait_queue \in Seq(Nodes) /\ new_time \in Nodes
    BY DEF TTypeOK
  <2> QED
    BY <2>2, <2>4, <2>5, <2>6, <2>7, <2>8
<1>1. new_time'.pid = new_time.pid /\ new_time'.sec = new_time.sec - wait_queue[ptr].sec
  BY <1>0, <1>t DEF Nodes
<1>2. TTypeOK' /\ NodeCount'
  <2>1. new_time' \in Nodes
    <3>1. new_time = [pid |-> new_time.pid, sec |-> new_time.sec] /\ new_time.pid \in Pids
      BY <1>t DEF Nodes
    <3>2. new_time' = [pid |-> new_time.pid, sec |-> new_time.sec - wait_queue[ptr].sec]
      BY <1>0, <3>1
    <3>3. new_time.sec - wait_queue[ptr].sec \in Int
      BY <1>t
    <3> QED
      BY <3>1, <3>2, <3>3 DEF Nodes
  <2>2. ptr' \in Nat \ {0}
    BY <1>0, <1>t
  <2> QED
    BY <1>0, <2>1, <2>2 DEF TTypeOK, NodeCount
<1>3. OneNodeEach' /\ Sorted' /\ Deltas'
  BY <1>0 DEF OneNodeEach, Sorted, Deltas, Due
<1>4. Members'
  BY <1>0, <1>1 DEF Members, Queued
<1>5. wait_queue[ptr].sec = IF ptr = 1 THEN left[wait_queue[1].pid]
                            ELSE left[wait_queue[ptr].pid] - left[wait_queue[ptr - 1].pid]
  BY <1>t DEF Deltas, Due
<1>6. new_time.sec = left[new_time.pid] - (IF ptr = 1 THEN 0 ELSE left[wait_queue[ptr - 1].pid])
  BY <1>0 DEF Inserting, Due
<1>7. ptr # 1 => left[wait_queue[ptr - 1].pid] \in Int
  <2>1. ptr # 1 => ptr - 1 \in 1..Len(wait_queue)
    BY <1>t
  <2> QED
    BY <2>1, <1>t
<1>8. new_time'.sec = left[new_time.pid] - left[wait_queue[ptr].pid] /\ new_time'.sec >= 0
  BY <1>0, <1>1, <1>5, <1>6, <1>7, <1>t, SMTT(30)
<1>9. Inserting'
  <2>1. ptr' # 1 /\ ptr' - 1 = ptr /\ ptr' <= Len(wait_queue) + 1
    BY <1>0, <1>t
  <2> QED
    BY <1>0, <1>1, <1>8, <2>1 DEF Inserting, Due
<1> QED
  BY <1>2, <1>3, <1>4, <1>9

(* Inserting a node into a queue of nodes. *)
LEMMA NodeInserted ==
  \A s \in Seq(Nodes) : \A i \in 1..Len(s) : \A x \in Nodes :
    /\ InsertAt(s, i, x) \in Seq(Nodes) /\ Len(InsertAt(s, i, x)) = Len(s) + 1
    /\ \A j \in 1..(Len(s) + 1) :
         InsertAt(s, i, x)[j] = IF j < i THEN s[j] ELSE IF j = i THEN x ELSE s[j - 1]
BY InsertAtProperties

(* The node goes in at ptr; only the one behind it is changed. *)
LEMMA InsertQueue ==
  ASSUME TimerInv, InsertNode
  PROVE  /\ wait_queue' \in Seq(Nodes) /\ Len(wait_queue') = Len(wait_queue) + 1
         /\ ptr \in 1..(Len(wait_queue) + 1)
         /\ \A j \in 1..(Len(wait_queue) + 1) :
              /\ j < ptr => wait_queue'[j] = wait_queue[j]
              /\ j = ptr => wait_queue'[j] = new_time
              /\ j > ptr => wait_queue'[j].pid = wait_queue[j - 1].pid
              /\ j > ptr + 1 => wait_queue'[j].sec = wait_queue[j - 1].sec
              /\ j = ptr + 1 => wait_queue'[j].sec = wait_queue[ptr].sec - new_time.sec
<1> USE DEF TimerInv
<1> DEFINE n == Len(wait_queue)
           u == [wait_queue EXCEPT ![ptr].sec = @ - new_time.sec]
           r == wait_queue'
<1>1. /\ wait_queue \in Seq(Nodes) /\ new_time \in Nodes /\ n \in Nat
      /\ ptr \in 1..(n + 1) /\ ptr \in Int
  BY DEF TTypeOK, Inserting, InsertNode
<1>2. CASE ptr > n
  <2>1. r = Append(wait_queue, new_time) /\ ptr = n + 1
    BY <1>1, <1>2 DEF InsertNode
  <2>2. /\ Append(wait_queue, new_time) \in Seq(Nodes)
        /\ Len(Append(wait_queue, new_time)) = n + 1
        /\ \A j \in 1..n : Append(wait_queue, new_time)[j] = wait_queue[j]
        /\ Append(wait_queue, new_time)[n + 1] = new_time
    BY <1>1, AppendProperties
  <2>3. /\ r \in Seq(Nodes) /\ Len(r) = n + 1
        /\ \A j \in 1..n : r[j] = wait_queue[j]
        /\ r[n + 1] = new_time
    BY <2>1, <2>2
  <2> HIDE DEF r, n
  <2>4. \A j \in 1..(n + 1) :
          /\ j < ptr => r[j] = wait_queue[j]
          /\ j = ptr => r[j] = new_time
          /\ ~(j > ptr) /\ ~(j > ptr + 1) /\ j # ptr + 1
    BY <1>1, <2>1, <2>3
  <2> QED
    BY <1>1, <2>3, <2>4 DEF n, r
<1>3. CASE ~(ptr > n)
  <2>1. r = InsertAt(u, ptr, new_time) /\ ptr \in 1..n
    BY <1>1, <1>3 DEF InsertNode
  <2>2. wait_queue[ptr] \in Nodes
    BY <1>1, <2>1
  <2> DEFINE e == [wait_queue[ptr] EXCEPT !.sec = @ - new_time.sec]
  <2>3. e \in Nodes /\ e.pid = wait_queue[ptr].pid /\ e.sec = wait_queue[ptr].sec - new_time.sec
    <3>1. /\ wait_queue[ptr] = [pid |-> wait_queue[ptr].pid, sec |-> wait_queue[ptr].sec]
          /\ wait_queue[ptr].pid \in Pids /\ wait_queue[ptr].sec \in Int
      BY <2>2 DEF Nodes
    <3>2. new_time.sec \in Int
      BY <1>1 DEF Nodes
    <3>3. e = [pid |-> wait_queue[ptr].pid, sec |-> wait_queue[ptr].sec - new_time.sec]
      BY <3>1
    <3>4. wait_queue[ptr].sec - new_time.sec \in Int
      BY <3>1, <3>2
    <3> HIDE DEF e
    <3> QED
      BY <3>1, <3>3, <3>4 DEF Nodes
  <2>4. u = [wait_queue EXCEPT ![ptr] = e]
    OBVIOUS
  <2> HIDE DEF e, u
  <2>5. /\ u \in Seq(Nodes) /\ Len(u) = n
        /\ \A j \in 1..n : u[j] = IF j = ptr THEN e ELSE wait_queue[j]
    BY <1>1, <2>1, <2>3, <2>4
  <2> DEFINE v == InsertAt(u, ptr, new_time)
  <2>6. /\ v \in Seq(Nodes) /\ Len(v) = n + 1
        /\ \A j \in 1..(n + 1) : v[j] = IF j < ptr THEN u[j] ELSE IF j = ptr THEN new_time ELSE u[j - 1]
    <3> HIDE DEF n
    <3>1. ptr \in 1..Len(u)
      BY <2>1, <2>5
    <3>2. /\ v \in Seq(Nodes) /\ Len(v) = Len(u) + 1
          /\ \A j \in 1..(Len(u) + 1) :
               v[j] = IF j < ptr THEN u[j] ELSE IF j = ptr THEN new_time ELSE u[j - 1]
      <4> HIDE DEF v
      <4>1. u \in Seq(Nodes) /\ new_time \in Nodes
        BY <1>1, <2>5
      <4> QED
        BY <4>1, <3>1, NodeInserted, ZenonT(30) DEF v
    <3> QED
      BY <2>5, <3>2
  <2>7. r = v
    BY <2>1
  <2> HIDE DEF v, r, n
  <2>8. ASSUME NEW j \in 1..(n + 1)
        PROVE  /\ j < ptr => r[j] = wait_queue[j]
               /\ j = ptr => r[j] = new_time
               /\ j > ptr => r[j].pid = wait_queue[j - 1].pid
               /\ j > ptr + 1 => r[j].sec = wait_queue[j - 1].sec
               /\ j = ptr + 1 => r[j].sec = wait_queue[ptr].sec - new_time.sec
    <3>1. CASE j < ptr
      <4>1. j \in 1..n /\ j # ptr
        BY <1>1, <2>1, <3>1
      <4> QED
        BY <3>1, <4>1, <1>1, <2>5, <2>6, <2>7
    <3>2. CASE j = ptr
      BY <3>2, <1>1, <2>6, <2>7
    <3>3. CASE j = ptr + 1
      <4>1. j - 1 = ptr /\ j - 1 \in 1..n /\ r[j] = u[ptr]
        BY <3>3, <1>1, <2>1, <2>6, <2>7
      <4>2. r[j] = e
        BY <4>1, <2>1, <2>5
      <4> QED
        BY <3>3, <4>1, <4>2, <2>3, <1>1
    <3>4. CASE j > ptr + 1
      <4>1. j - 1 \in 1..n /\ j - 1 # ptr /\ r[j] = u[j - 1]
        BY <3>4, <1>1, <2>6, <2>7
      <4>2. r[j] = wait_queue[j - 1]
        BY <4>1, <2>5
      <4> QED
        BY <3>4, <4>2, <1>1
    <3> QED
      BY <1>1, <3>1, <3>2, <3>3, <3>4
  <2> QED
    BY <1>1, <2>6, <2>7, <2>8 DEF n, r
<1> QED
  BY <1>2, <1>3

(* A node inserted where its deadline belongs keeps the differences exact. *)
LEMMA InsertTimer ==
  ASSUME TimerInv, InsertNode
  PROVE  TimerInv'
<1> USE DEF TimerInv
<1> DEFINE n == Len(wait_queue)
           q == wait_queue
           r == wait_queue'
           p == new_time.pid
           D(i) == left[wait_queue[i].pid]
           E(i) == left[wait_queue'[i].pid]
<1>0. /\ at = "adding" /\ ~Behind /\ at' = "idle"
      /\ UNCHANGED <<free_list, new_time, ptr, jiffy, left, immediate, exhausted>>
  BY DEF InsertNode
<1>1. /\ r \in Seq(Nodes) /\ Len(r) = n + 1
      /\ ptr \in 1..(n + 1)
      /\ \A j \in 1..(n + 1) :
           /\ j < ptr => r[j] = q[j]
           /\ j = ptr => r[j] = new_time
           /\ j > ptr => r[j].pid = q[j - 1].pid
           /\ j > ptr + 1 => r[j].sec = q[j - 1].sec
           /\ j = ptr + 1 => r[j].sec = q[ptr].sec - new_time.sec
  BY InsertQueue
<1>2. n \in Nat /\ ptr \in Int /\ \A i \in 1..n : q[i].pid \in Pids /\ q[i].sec \in Int /\ D(i) \in Nat
  <2>1. wait_queue \in Seq([pid : Pids, sec : Int]) /\ left \in [Pids -> Nat]
    BY DEF TTypeOK, Nodes
  <2>2. n \in Nat /\ \A i \in 1..n : q[i].pid \in Pids /\ q[i].sec \in Int /\ D(i) \in Nat
    BY <2>1, NodeAt, Zenon
  <2>3. ptr \in Int
    BY DEF TTypeOK
  <2> QED
    BY <2>2, <2>3
<1>3. /\ p \in Pids /\ new_time.sec \in Int /\ left[p] \in Nat /\ left[p] > 0
      /\ new_time.sec >= 0
      /\ new_time.sec = left[p] - (IF ptr = 1 THEN 0 ELSE D(ptr - 1))
  <2>1. new_time \in [pid : Pids, sec : Int]
    BY DEF TTypeOK, Nodes
  <2>2. p \in Pids /\ new_time.sec \in Int
    BY <2>1
  <2> QED
    BY <1>0, <2>2 DEF Inserting, Due, TTypeOK
<1>4. /\ \A i, j \in 1..n : i < j => D(i) <= D(j)
      /\ \A i \in 1..n : q[i].sec = IF i = 1 THEN D(1) ELSE D(i) - D(i - 1)
      /\ \A i, j \in 1..n : q[i].pid = q[j].pid => i = j
      /\ \A i \in 1..n : q[i].pid # p
      /\ \A x \in Pids : Queued(x) <=> left[x] > 0 /\ x # p
  <2>1. \A x \in Pids : Queued(x) <=> left[x] > 0 /\ x # p
    BY <1>0 DEF Members
  <2>2. \A i \in 1..n : Queued(q[i].pid)
    BY DEF Queued
  <2> QED
    BY <1>2, <2>1, <2>2 DEF Sorted, Deltas, OneNodeEach, Due
<1>5. ptr <= n => new_time.sec < q[ptr].sec
  BY <1>0, <1>2, <1>3, <1>1 DEF Behind
<1>6. TTypeOK'
  BY <1>0, <1>1 DEF TTypeOK
<1>7. NodeCount'
  BY <1>0, <1>1, <1>2 DEF NodeCount, TTypeOK
<1> HIDE DEF n, q, r, p, D, E
<1>8. ASSUME NEW j \in 1..(n + 1)
      PROVE  /\ j < ptr => r[j].pid = q[j].pid /\ E(j) = D(j) /\ r[j].sec = q[j].sec
             /\ j = ptr => r[j].pid = p /\ E(j) = left[p] /\ r[j].sec = new_time.sec
             /\ j > ptr => r[j].pid = q[j - 1].pid /\ E(j) = D(j - 1)
  BY <1>1 DEF E, D, r, q, p
<1>9. ptr # 1 => ptr - 1 \in 1..n /\ D(ptr - 1) <= left[p]
  <2>1. ptr # 1 => ptr - 1 \in 1..n
    BY <1>1, <1>2
  <2> QED
    BY <2>1, <1>2, <1>3
<1>10. ptr <= n => ptr \in 1..n /\ left[p] < D(ptr)
  <2>1. ptr <= n => ptr \in 1..n
    BY <1>1, <1>2
  <2>2. ptr <= n => q[ptr].sec = IF ptr = 1 THEN D(1) ELSE D(ptr) - D(ptr - 1)
    BY <1>4, <2>1
  <2> QED
    BY <1>2, <1>3, <1>5, <1>9, <2>1, <2>2
<1>11. \A i, j \in 1..(n + 1) : i < j => E(i) <= E(j)
  <2> SUFFICES ASSUME NEW i \in 1..(n + 1), NEW j \in 1..(n + 1), i < j
               PROVE  E(i) <= E(j)
    OBVIOUS
  <2>1. CASE j < ptr
    <3>1. i \in 1..n /\ j \in 1..n /\ i < ptr
      BY <1>1, <1>2, <2>1
    <3> QED
      BY <1>4, <1>8, <2>1, <3>1
  <2>2. CASE j = ptr
    <3>1. i \in 1..n /\ i < ptr /\ ptr # 1 /\ (i = ptr - 1 \/ i < ptr - 1)
      BY <1>1, <1>2, <2>2
    <3>2. D(i) <= D(ptr - 1)
      BY <1>2, <1>4, <1>9, <3>1
    <3> QED
      BY <1>2, <1>3, <1>8, <1>9, <2>2, <3>1, <3>2
  <2>3. CASE j > ptr /\ i < ptr
    <3>1. i \in 1..n /\ j - 1 \in 1..n /\ i < j - 1
      BY <1>1, <1>2, <2>3
    <3> QED
      BY <1>4, <1>8, <2>3, <3>1
  <2>4. CASE j > ptr /\ i = ptr
    <3>1. ptr \in 1..n /\ j - 1 \in 1..n /\ (ptr = j - 1 \/ ptr < j - 1)
      BY <1>1, <1>2, <2>4
    <3>2. D(ptr) <= D(j - 1)
      <4>1. CASE ptr = j - 1
        BY <1>2, <3>1, <4>1
      <4>2. CASE ptr < j - 1
        BY <1>4, <3>1, <4>2
      <4> QED
        BY <3>1, <4>1, <4>2
    <3> QED
      BY <1>2, <1>3, <1>8, <1>10, <2>4, <3>1, <3>2
  <2>5. CASE i > ptr
    <3>1. i - 1 \in 1..n /\ j - 1 \in 1..n /\ i - 1 < j - 1 /\ j > ptr
      BY <1>1, <1>2, <2>5
    <3> QED
      BY <1>4, <1>8, <2>5, <3>1
  <2> QED
    BY <1>2, <2>1, <2>2, <2>3, <2>4, <2>5
<1>12. \A j \in 1..(n + 1) : r[j].sec = IF j = 1 THEN E(1) ELSE E(j) - E(j - 1)
  <2> SUFFICES ASSUME NEW j \in 1..(n + 1)
               PROVE  r[j].sec = IF j = 1 THEN E(1) ELSE E(j) - E(j - 1)
    OBVIOUS
  <2>0. j # 1 => j - 1 \in 1..(n + 1)
    BY <1>2
  <2>1. CASE j < ptr
    <3>1. j \in 1..n /\ (j # 1 => j - 1 < ptr)
      BY <1>1, <1>2, <2>1
    <3> QED
      BY <1>4, <1>8, <2>0, <2>1, <3>1
  <2>2. CASE j = ptr
    <3>1. j # 1 => j - 1 < ptr /\ E(j - 1) = D(j - 1)
      BY <1>2, <1>8, <2>0, <2>2
    <3> QED
      BY <1>2, <1>3, <1>8, <2>2, <3>1
  <2>3. CASE j = ptr + 1
    <3>1. ptr \in 1..n /\ j # 1 /\ j - 1 = ptr /\ j > ptr /\ ptr <= n
      BY <1>1, <1>2, <2>3
    <3>2. E(j) = D(ptr) /\ E(j - 1) = left[p] /\ r[j].sec = q[ptr].sec - new_time.sec
      BY <1>1, <1>8, <2>0, <2>3, <3>1
    <3>3. q[ptr].sec = IF ptr = 1 THEN D(1) ELSE D(ptr) - D(ptr - 1)
      BY <1>4, <3>1
    <3> QED
      BY <1>2, <1>3, <1>9, <3>1, <3>2, <3>3
  <2>4. CASE j > ptr + 1
    <3>1. j - 1 \in 1..n /\ j - 1 # 1 /\ j # 1 /\ j - 1 > ptr /\ j > ptr /\ (j - 1) - 1 \in 1..n
      BY <1>1, <1>2, <2>4
    <3>2. r[j].sec = q[j - 1].sec
      BY <1>1, <2>4
    <3>3. q[j - 1].sec = D(j - 1) - D((j - 1) - 1)
      BY <1>4, <3>1
    <3>4. E(j) = D(j - 1) /\ E(j - 1) = D((j - 1) - 1)
      BY <1>8, <2>0, <3>1
    <3> QED
      BY <3>1, <3>2, <3>3, <3>4
  <2> QED
    BY <1>2, <2>1, <2>2, <2>3, <2>4
<1>13. \A i, j \in 1..(n + 1) : r[i].pid = r[j].pid => i = j
  <2> SUFFICES ASSUME NEW i \in 1..(n + 1), NEW j \in 1..(n + 1), i < j
               PROVE  r[i].pid # r[j].pid
    BY <1>2
  <2>1. CASE j < ptr
    <3>1. i \in 1..n /\ j \in 1..n /\ i < ptr /\ i # j
      BY <1>1, <1>2, <2>1
    <3> QED
      BY <1>4, <1>8, <2>1, <3>1
  <2>2. CASE j = ptr
    <3>1. i \in 1..n /\ i < ptr
      BY <1>1, <1>2, <2>2
    <3> QED
      BY <1>4, <1>8, <2>2, <3>1
  <2>3. CASE j > ptr /\ i < ptr
    <3>1. i \in 1..n /\ j - 1 \in 1..n /\ i # j - 1
      BY <1>1, <1>2, <2>3
    <3> QED
      BY <1>4, <1>8, <2>3, <3>1
  <2>4. CASE j > ptr /\ i = ptr
    <3>1. j - 1 \in 1..n
      BY <1>1, <1>2, <2>4
    <3> QED
      BY <1>4, <1>8, <2>4, <3>1
  <2>5. CASE i > ptr
    <3>1. i - 1 \in 1..n /\ j - 1 \in 1..n /\ i - 1 # j - 1 /\ j > ptr
      BY <1>1, <1>2, <2>5
    <3> QED
      BY <1>4, <1>8, <2>5, <3>1
  <2> QED
    BY <1>2, <2>1, <2>2, <2>3, <2>4, <2>5
<1>14. \A x : (\E j \in 1..(n + 1) : r[j].pid = x) <=> (\E i \in 1..n : q[i].pid = x) \/ x = p
  <2> TAKE x
  <2>1. ASSUME NEW j \in 1..(n + 1), r[j].pid = x
        PROVE  (\E i \in 1..n : q[i].pid = x) \/ x = p
    <3>1. CASE j < ptr
      <4>1. j \in 1..n
        BY <1>1, <1>2, <3>1
      <4> QED
        BY <1>8, <2>1, <3>1, <4>1
    <3>2. CASE j = ptr
      BY <1>8, <2>1, <3>2
    <3>3. CASE j > ptr
      <4>1. j - 1 \in 1..n
        BY <1>1, <1>2, <3>3
      <4> QED
        BY <1>8, <2>1, <3>3, <4>1
    <3> QED
      BY <1>2, <3>1, <3>2, <3>3
  <2>2. ASSUME NEW i \in 1..n, q[i].pid = x
        PROVE  \E j \in 1..(n + 1) : r[j].pid = x
    <3>1. i \in 1..(n + 1) /\ i + 1 \in 1..(n + 1) /\ (i + 1) - 1 = i
      BY <1>2
    <3>2. CASE i < ptr
      BY <1>8, <2>2, <3>1, <3>2
    <3>3. CASE ~(i < ptr)
      <4>1. i + 1 > ptr
        BY <1>2, <3>3
      <4> QED
        BY <1>8, <2>2, <3>1, <4>1
    <3> QED
      BY <3>2, <3>3
  <2>3. r[ptr].pid = p
    BY <1>1, <1>8
  <2> QED
    BY <1>1, <2>1, <2>2, <2>3
<1>15. Members'
  <2>1. \A x : Queued(x)' <=> Queued(x) \/ x = p
    BY <1>1, <1>14 DEF Queued, n, q, r
  <2> QED
    BY <1>0, <1>3, <1>4, <2>1 DEF Members
<1>16. Sorted' /\ Deltas' /\ OneNodeEach'
  <2>1. left' = left /\ Len(wait_queue') = n + 1
    BY <1>0, <1>1 DEF r
  <2>2. \A i : Due(i)' = E(i)
    BY <2>1 DEF Due, E
  <2> QED
    BY <2>1, <2>2, <1>11, <1>12, <1>13 DEF Sorted, Deltas, OneNodeEach, r
<1>17. Inserting'
  BY <1>0 DEF Inserting
<1> QED
  BY <1>6, <1>7, <1>15, <1>16, <1>17

(* A second brings every sleeper nearer, and the first node stands for all. *)
LEMMA SecondTimer ==
  ASSUME TimerInv, TickSecond
  PROVE  TimerInv'
<1> USE DEF TimerInv
<1> DEFINE n == Len(wait_queue)
           q == wait_queue
           D(i) == left[wait_queue[i].pid]
<1>0. /\ at = "idle" /\ jiffy' = (jiffy + 1) % HZ
      /\ left' = [p \in Pids |-> IF left[p] > 0 THEN left[p] - 1 ELSE 0]
      /\ UNCHANGED <<free_list, new_time, ptr, immediate, exhausted>>
  BY DEF TickSecond
<1>1. n \in Nat /\ \A i \in 1..n : q[i].pid \in Pids /\ q[i].sec \in Int /\ D(i) \in Nat
  <2>1. wait_queue \in Seq([pid : Pids, sec : Int]) /\ left \in [Pids -> Nat]
    BY DEF TTypeOK, Nodes
  <2> QED
    BY <2>1, NodeAt, Zenon
<1>2. left \in [Pids -> Nat] /\ left' \in [Pids -> Nat]
  BY <1>0 DEF TTypeOK
<1>3. jiffy' \in 0..(HZ - 1)
  BY <1>0, TimerAssumption DEF TTypeOK
<1>4. \A p \in Pids : Queued(p) <=> left[p] > 0
  BY <1>0 DEF Members
<1>5. CASE wait_queue = <<>>
  <2>1. wait_queue' = wait_queue /\ at' = at /\ n = 0
    BY <1>5 DEF TickSecond
  <2>2. \A p \in Pids : ~Queued(p) /\ left[p] = 0
    <3>1. \A p : ~Queued(p)
      BY <2>1 DEF Queued
    <3> QED
      BY <1>2, <1>4, <3>1
  <2>3. left' = left
    BY <1>0, <1>2, <2>2
  <2>4. TTypeOK' /\ NodeCount'
    BY <1>0, <1>2, <1>3, <2>1 DEF TTypeOK, NodeCount
  <2> QED
    BY <1>0, <2>1, <2>3, <2>4
    DEF OneNodeEach, Sorted, Deltas, Due, Members, Queued, Inserting
<1>6. CASE wait_queue # <<>>
  <2>1. wait_queue' = [wait_queue EXCEPT ![1].sec = @ - 1] /\ at' = "firing"
    BY <1>6 DEF TickSecond
  <2>2. n > 0 /\ 1 \in 1..n
    BY <1>1, <1>6 DEF TTypeOK
  <2> DEFINE e == [wait_queue[1] EXCEPT !.sec = @ - 1]
             r == wait_queue'
  <2>3. e \in Nodes /\ e.pid = q[1].pid /\ e.sec = q[1].sec - 1
    <3>1. wait_queue[1] \in Nodes
      BY <2>2 DEF TTypeOK
    <3>2. wait_queue[1] = [pid |-> wait_queue[1].pid, sec |-> wait_queue[1].sec]
      BY <3>1 DEF Nodes
    <3>3. e = [pid |-> wait_queue[1].pid, sec |-> wait_queue[1].sec - 1]
      BY <3>2
    <3>4. wait_queue[1].pid \in Pids /\ wait_queue[1].sec - 1 \in Int
      BY <1>1, <2>2
    <3> HIDE DEF e
    <3> QED
      BY <3>3, <3>4 DEF Nodes
  <2>4. r = [wait_queue EXCEPT ![1] = e]
    BY <2>1
  <2> HIDE DEF e
  <2>5. /\ r \in Seq(Nodes) /\ Len(r) = n
        /\ \A i \in 1..n : r[i] = IF i = 1 THEN e ELSE q[i]
    BY <2>2, <2>3, <2>4 DEF TTypeOK
  <2>6. \A i \in 1..n : r[i].pid = q[i].pid /\ r[i].sec = IF i = 1 THEN q[1].sec - 1 ELSE q[i].sec
    BY <2>3, <2>5
  <2>7. \A i \in 1..n : D(i) > 0
    BY <1>1, <1>4 DEF Queued
  <2>8. \A i \in 1..n : Due(i)' = D(i) - 1
    <3> TAKE i \in 1..n
    <3>1. wait_queue'[i].pid = q[i].pid /\ q[i].pid \in Pids /\ left[q[i].pid] > 0
      BY <1>1, <2>6, <2>7
    <3> QED
      BY <1>0, <3>1 DEF Due
  <2>9. \A x : Queued(x)' <=> Queued(x)
    BY <2>5, <2>6 DEF Queued
  <2>10. TTypeOK' /\ NodeCount'
    BY <1>0, <1>2, <1>3, <2>1, <2>5 DEF TTypeOK, NodeCount
  <2>11. OneNodeEach'
    BY <2>5, <2>6 DEF OneNodeEach
  <2>d. /\ \A i, j \in 1..n : i < j => D(i) <= D(j)
        /\ \A i \in 1..n : q[i].sec = IF i = 1 THEN D(1) ELSE D(i) - D(i - 1)
    BY DEF Sorted, Deltas, Due
  <2>12. Sorted'
    <3> SUFFICES ASSUME NEW i \in 1..n, NEW j \in 1..n, i < j
                 PROVE  Due(i)' <= Due(j)'
      BY <2>5 DEF Sorted
    <3>1. D(i) <= D(j) /\ D(i) \in Nat /\ D(j) \in Nat
      BY <1>1, <2>d
    <3>2. Due(i)' = D(i) - 1 /\ Due(j)' = D(j) - 1
      BY <2>8
    <3> HIDE DEF D
    <3> QED
      BY <3>1, <3>2
  <2>13. Deltas'
    <3> SUFFICES ASSUME NEW i \in 1..n
                 PROVE  r[i].sec = IF i = 1 THEN Due(1)' ELSE Due(i)' - Due(i - 1)'
      BY <2>5 DEF Deltas
    <3>1. i # 1 => i - 1 \in 1..n
      BY <1>1
    <3>2. D(i) \in Nat /\ Due(i)' = D(i) - 1
      BY <1>1, <2>8
    <3>3. i # 1 => D(i - 1) \in Nat /\ Due(i - 1)' = D(i - 1) - 1
      BY <1>1, <2>8, <3>1
    <3>4. /\ q[i].sec = IF i = 1 THEN D(1) ELSE D(i) - D(i - 1)
          /\ r[i].sec = IF i = 1 THEN q[1].sec - 1 ELSE q[i].sec
      BY <2>d, <2>6
    <3> HIDE DEF D, q, r
    <3> QED
      BY <3>1, <3>2, <3>3, <3>4
  <2>14. Members'
    <3>1. \A p \in Pids : left'[p] > 0 => left[p] > 0
      BY <1>0, <1>2
    <3> QED
      BY <1>4, <2>1, <2>9, <3>1 DEF Members
  <2>15. Inserting'
    BY <2>1 DEF Inserting
  <2> QED
    BY <2>10, <2>11, <2>12, <2>13, <2>14, <2>15
<1> QED
  BY <1>5, <1>6

(* The first node leaves when it is due; the one behind it then counts from now. *)
LEMMA FireTimer ==
  ASSUME TimerInv, Fire
  PROVE  TimerInv'
<1> USE DEF TimerInv
<1> DEFINE n == Len(wait_queue)
           q == wait_queue
           r == wait_queue'
           D(i) == left[wait_queue[i].pid]
<1>0. /\ at = "firing" /\ wait_queue # <<>> /\ Head(wait_queue).sec = 0
      /\ wait_queue' = Tail(wait_queue) /\ free_list' = free_list + 1
      /\ UNCHANGED <<new_time, at, ptr, jiffy, left, immediate, exhausted>>
  BY DEF Fire, FirstDue
<1>1. n \in Nat /\ \A i \in 1..n : q[i].pid \in Pids /\ q[i].sec \in Int /\ D(i) \in Nat
  <2>1. wait_queue \in Seq([pid : Pids, sec : Int]) /\ left \in [Pids -> Nat]
    BY DEF TTypeOK, Nodes
  <2> QED
    BY <2>1, NodeAt, Zenon
<1>2. /\ r \in Seq(Nodes) /\ Len(r) = n - 1 /\ n > 0 /\ Head(wait_queue) = q[1]
      /\ \A i \in 1..(n - 1) : r[i] = q[i + 1]
  <2>1. wait_queue \in Seq(Nodes)
    BY DEF TTypeOK
  <2>2. /\ Tail(wait_queue) \in Seq(Nodes) /\ Len(Tail(wait_queue)) = n - 1
        /\ \A i \in 1..Len(Tail(wait_queue)) : Tail(wait_queue)[i] = q[i + 1]
    BY <1>0, <2>1, HeadTailProperties
  <2>3. n > 0 /\ Head(wait_queue) = q[1]
    BY <1>0, <2>1
  <2> QED
    BY <1>0, <2>2, <2>3
<1>3. /\ \A i, j \in 1..n : i < j => D(i) <= D(j)
      /\ \A i \in 1..n : q[i].sec = IF i = 1 THEN D(1) ELSE D(i) - D(i - 1)
      /\ \A i, j \in 1..n : q[i].pid = q[j].pid => i = j
      /\ \A x \in Pids : left[x] > 0 => Queued(x)
  BY <1>0 DEF Sorted, Deltas, Due, OneNodeEach, Members
<1>4. 1 \in 1..n /\ D(1) = 0
  BY <1>0, <1>1, <1>2, <1>3
<1>5. TTypeOK' /\ NodeCount'
  BY <1>0, <1>1, <1>2 DEF TTypeOK, NodeCount
<1>6. \A i \in 1..(n - 1) : Due(i)' = D(i + 1)
  BY <1>0, <1>2 DEF Due
<1>7. Sorted' /\ OneNodeEach'
  <2> SUFFICES ASSUME NEW i \in 1..(n - 1), NEW j \in 1..(n - 1)
               PROVE  /\ i < j => Due(i)' <= Due(j)'
                      /\ r[i].pid = r[j].pid => i = j
    BY <1>2 DEF Sorted, OneNodeEach
  <2>1. i + 1 \in 1..n /\ j + 1 \in 1..n /\ (i < j => i + 1 < j + 1) /\ (i # j => i + 1 # j + 1)
    BY <1>1
  <2> QED
    BY <1>2, <1>3, <1>6, <2>1, ZenonT(30)
<1>8. Deltas'
  <2> SUFFICES ASSUME NEW i \in 1..(n - 1)
               PROVE  r[i].sec = IF i = 1 THEN Due(1)' ELSE Due(i)' - Due(i - 1)'
    BY <1>2 DEF Deltas
  <2>1. i + 1 \in 1..n /\ i + 1 # 1 /\ (i + 1) - 1 = i /\ (i - 1) + 1 = i
        /\ (i # 1 => i - 1 \in 1..(n - 1))
    BY <1>1
  <2>2. r[i].sec = D(i + 1) - D(i) /\ D(i + 1) \in Nat
    BY <1>1, <1>2, <1>3, <2>1
  <2>3. i # 1 => Due(i - 1)' = D(i)
    BY <1>6, <2>1
  <2>4. Due(i)' = D(i + 1)
    BY <1>6
  <2> HIDE DEF D, r
  <2> QED
    BY <1>4, <2>2, <2>3, <2>4
<1>9. Members'
  <2> SUFFICES ASSUME NEW p \in Pids, left[p] > 0 PROVE Queued(p)'
    BY <1>0 DEF Members
  <2>1. PICK i \in 1..n : q[i].pid = p
    BY <1>3 DEF Queued
  <2>2. i # 1
    BY <1>4, <2>1
  <2>3. i - 1 \in 1..(n - 1) /\ (i - 1) + 1 = i
    BY <1>1, <2>2
  <2>4. r[i - 1].pid = p
    BY <1>2, <2>1, <2>3
  <2> QED
    BY <1>2, <2>3, <2>4 DEF Queued
<1>10. Inserting'
  BY <1>0 DEF Inserting
<1> QED
  BY <1>5, <1>7, <1>8, <1>9, <1>10

(* The loop of time_event_proc() ends only when nobody in the queue is due. *)
LEMMA FireDoneTimer ==
  ASSUME TimerInv, FireDone
  PROVE  TimerInv'
<1> USE DEF TimerInv
<1> DEFINE n == Len(wait_queue)
           q == wait_queue
           D(i) == left[wait_queue[i].pid]
<1>0. /\ at = "firing" /\ ~FirstDue /\ at' = "idle"
      /\ UNCHANGED <<wait_queue, free_list, new_time, ptr, jiffy, left, immediate, exhausted>>
  BY DEF FireDone
<1>1. n \in Nat /\ \A i \in 1..n : q[i].pid \in Pids /\ q[i].sec \in Int /\ D(i) \in Nat
  <2>1. wait_queue \in Seq([pid : Pids, sec : Int]) /\ left \in [Pids -> Nat]
    BY DEF TTypeOK, Nodes
  <2> QED
    BY <2>1, NodeAt, Zenon
<1>2. \A i \in 1..n : D(i) > 0
  <2> SUFFICES ASSUME NEW i \in 1..n PROVE D(i) > 0
    OBVIOUS
  <2>1. 1 \in 1..n /\ wait_queue # <<>> /\ Head(wait_queue) = q[1]
    BY <1>1 DEF TTypeOK
  <2>2. D(1) # 0
    BY <1>0, <2>1 DEF FirstDue, Deltas, Due
  <2>3. i # 1 => D(1) <= D(i)
    BY <1>1, <2>1 DEF Sorted, Due
  <2> HIDE DEF D
  <2> QED
    BY <1>1, <2>1, <2>2, <2>3
<1>3. Members'
  <2>1. \A p \in Pids : left[p] > 0 => Queued(p)
    BY <1>0 DEF Members
  <2>2. \A p \in Pids : Queued(p) => left[p] > 0
    BY <1>2 DEF Queued
  <2>3. \A p : Queued(p)' <=> Queued(p)
    BY <1>0 DEF Queued
  <2> QED
    BY <1>0, <2>1, <2>2, <2>3 DEF Members
<1>4. TTypeOK' /\ NodeCount'
  BY <1>0, <1>1 DEF TTypeOK, NodeCount
<1> QED
  BY <1>0, <1>3, <1>4 DEF OneNodeEach, Sorted, Deltas, Due, Inserting

(* Every step keeps the invariant. *)
LEMMA NextTimer ==
  ASSUME TimerInv, [TNext]_tvars
  PROVE  TimerInv'
<1>1. CASE UNCHANGED tvars
  BY <1>1 DEF tvars, TimerInv, TTypeOK, OneNodeEach, Sorted, Deltas, Due, Members, Queued,
              Inserting, NodeCount
<1>2. CASE Tick
  <2>1. jiffy' \in 0..(HZ - 1)
    BY <1>2, TimerAssumption DEF Tick, TimerInv, TTypeOK
  <2> QED
    BY <1>2, <2>1 DEF Tick, TimerInv, TTypeOK, OneNodeEach, Sorted, Deltas, Due, Members,
                      Queued, Inserting, NodeCount
<1> QED
  BY <1>1, <1>2, AddTimer, PassTimer, InsertTimer, SecondTimer, FireTimer, FireDoneTimer
  DEF TNext

(* TimerInv is an invariant of the timer. *)
THEOREM TimerHolds == TSpec => []TimerInv
<1>1. TInit => TimerInv
  BY InitTimer
<1>2. TimerInv /\ [TNext]_tvars => TimerInv'
  BY NextTimer
<1> QED
  BY <1>1, <1>2, PTL DEF TSpec

(* timer.c's variables keep their types: the loop of add_time_event() never
   points before the queue, and the tick stays below HZ. *)
THEOREM TimerTypeCorrect == TSpec => []TTypeOK
<1>1. TimerInv => TTypeOK
  BY DEF TimerInv
<1> QED
  BY <1>1, TimerHolds, PTL

(* Whatever add_time_event() and the clock interrupt did, each node holds the
   difference between its deadline and that of the node before it. *)
THEOREM DeltasStayExact == TSpec => []DeltasAreExact
<1>1. TimerInv => DeltasAreExact
  <2> SUFFICES ASSUME TimerInv, NEW i \in 1..Len(wait_queue)
               PROVE  /\ wait_queue[i].sec = Deadline(i) - Deadline(i - 1)
                      /\ wait_queue[i].sec >= 0
    BY DEF DeltasAreExact
  <2>1. Len(wait_queue) \in Nat /\ \A j \in 1..Len(wait_queue) : Due(j) \in Nat
    <3>1. wait_queue \in Seq([pid : Pids, sec : Int]) /\ left \in [Pids -> Nat]
      BY DEF TimerInv, TTypeOK, Nodes
    <3> QED
      BY <3>1, NodeAt DEF Due
  <2>2. wait_queue[i].sec = IF i = 1 THEN Due(1) ELSE Due(i) - Due(i - 1)
    BY DEF TimerInv, Deltas
  <2>3. i # 1 => i - 1 \in 1..Len(wait_queue) /\ Due(i - 1) <= Due(i)
    <3>1. i # 1 => i - 1 \in 1..Len(wait_queue) /\ i - 1 < i
      BY <2>1
    <3> QED
      BY <3>1 DEF TimerInv, Sorted
  <2>4. Deadline(i) = Due(i) /\ Deadline(0) = 0 /\ (i # 1 => Deadline(i - 1) = Due(i - 1))
    <3>1. i # 0 /\ (i # 1 => i - 1 # 0)
      BY <2>1
    <3> QED
      BY <3>1 DEF Deadline, Due
  <2>5. CASE i = 1
    <3>1. i - 1 = 0 /\ Due(1) \in Nat
      BY <2>1, <2>5
    <3> QED
      BY <2>2, <2>4, <2>5, <3>1
  <2>6. CASE i # 1
    <3>1. Due(i) \in Nat /\ Due(i - 1) \in Nat
      BY <2>1, <2>3, <2>6
    <3> QED
      BY <2>2, <2>3, <2>4, <2>6, <3>1
  <2> QED
    BY <2>5, <2>6
<1> QED
  BY <1>1, TimerHolds, PTL

(* Outside the loops the queue holds exactly the processes that still have
   time to sleep. *)
THEOREM NobodyOversleeps == TSpec => []AwakeWhenDue
<1>1. TimerInv => AwakeWhenDue
  BY DEF TimerInv, Members, AwakeWhenDue
<1> QED
  BY <1>1, TimerHolds, PTL

(* time_event_proc() takes a process out of the queue only when its time is
   over. *)
THEOREM NobodyWakesEarly == TSpec => AnsweredOnTime
<1> DEFINE OnTime == \A p \in Pids : Queued(p) /\ ~Queued(p)' => left[p] = 0
<1>1. TimerInv /\ [TNext]_tvars => [OnTime]_tvars
  <2> SUFFICES ASSUME TimerInv, TNext, NEW p \in Pids, Queued(p), ~Queued(p)'
               PROVE  left[p] = 0
    OBVIOUS
  <2> DEFINE n == Len(wait_queue)
  <2>0. wait_queue \in Seq(Nodes) /\ n \in Nat
    BY DEF TimerInv, TTypeOK
  <2>1. PICK i \in 1..n : wait_queue[i].pid = p
    BY DEF Queued
  <2>2. wait_queue' # wait_queue
    BY DEF Queued
  <2>3. CASE InsertNode
    <3>1. /\ Len(wait_queue') = n + 1 /\ ptr \in 1..(n + 1)
          /\ \A j \in 1..(n + 1) :
               /\ j < ptr => wait_queue'[j] = wait_queue[j]
               /\ j > ptr => wait_queue'[j].pid = wait_queue[j - 1].pid
      BY <2>3, InsertQueue
    <3>2. CASE i < ptr
      <4>1. i \in 1..(n + 1)
        BY <2>0
      <4> QED
        BY <2>1, <3>1, <3>2, <4>1 DEF Queued
    <3>3. CASE ~(i < ptr)
      <4>1. i + 1 \in 1..(n + 1) /\ i + 1 > ptr /\ (i + 1) - 1 = i
        BY <2>0, <3>1, <3>3
      <4>2. wait_queue'[i + 1].pid = p
        BY <2>1, <3>1, <4>1
      <4> QED
        BY <3>1, <4>1, <4>2 DEF Queued
    <3> QED
      BY <3>2, <3>3
  <2>4. CASE TickSecond
    <3>1. wait_queue' = [wait_queue EXCEPT ![1].sec = @ - 1]
      BY <2>2, <2>4 DEF TickSecond
    <3>2. Len(wait_queue') = n /\ wait_queue'[i].pid = wait_queue[i].pid
      <4>1. wait_queue[1] = [pid |-> wait_queue[1].pid, sec |-> wait_queue[1].sec]
        <5>1. 1 \in 1..n
          BY <2>0
        <5>2. wait_queue[1] \in Nodes
          BY <2>0, <5>1
        <5> QED
          BY <5>2 DEF Nodes
      <4> DEFINE e == [wait_queue[1] EXCEPT !.sec = @ - 1]
      <4>2. e.pid = wait_queue[1].pid
        BY <4>1
      <4>3. wait_queue' = [wait_queue EXCEPT ![1] = e]
        BY <3>1
      <4> HIDE DEF e
      <4>4. Len(wait_queue') = n /\ wait_queue'[i] = IF i = 1 THEN e ELSE wait_queue[i]
        BY <2>0, <4>3
      <4> QED
        BY <4>2, <4>4
    <3> QED
      BY <2>1, <3>2 DEF Queued
  <2>5. CASE Fire
    <3>1. /\ wait_queue # <<>> /\ Head(wait_queue).sec = 0
          /\ wait_queue' = Tail(wait_queue)
      BY <2>5 DEF Fire, FirstDue
    <3>2. CASE i = 1
      <4>1. Head(wait_queue) = wait_queue[1] /\ 1 \in 1..n
        BY <2>0, <3>1
      <4>2. wait_queue[1].sec = left[wait_queue[1].pid]
        BY <4>1 DEF TimerInv, Deltas, Due
      <4> QED
        BY <2>1, <3>1, <3>2, <4>1, <4>2
    <3>3. CASE i # 1
      <4>1. /\ Len(Tail(wait_queue)) = n - 1
            /\ \A j \in 1..Len(Tail(wait_queue)) : Tail(wait_queue)[j] = wait_queue[j + 1]
        BY <2>0, <3>1, HeadTailProperties
      <4>2. i - 1 \in 1..(n - 1) /\ (i - 1) + 1 = i
        BY <2>0, <3>3
      <4>3. Tail(wait_queue)[i - 1] = wait_queue[i]
        BY <4>1, <4>2
      <4> QED
        BY <2>1, <3>1, <4>1, <4>2, <4>3 DEF Queued
    <3> QED
      BY <3>2, <3>3
  <2> QED
    BY <2>2, <2>3, <2>4, <2>5 DEF TNext, AddTimeEvent, PassNode, Tick, FireDone
<1>2. TSpec => []TimerInv
  BY TimerHolds
<1> QED
  BY <1>1, <1>2, PTL DEF TSpec, AnsweredOnTime

(* The queue never holds more nodes than there are processes, and one fewer
   while a process is awake. *)
LEMMA OneLess ==
  ASSUME TimerInv, NEW p \in Pids, ~Queued(p)
  PROVE  Len(wait_queue) < Cardinality(Pids)
<1> DEFINE n == Len(wait_queue)
           T == Pids \ {p}
           f == [i \in 1..n |-> wait_queue[i].pid]
<1>1. n \in Nat /\ \A i \in 1..n : wait_queue[i].pid \in Pids
  <2>1. wait_queue \in Seq([pid : Pids, sec : Int]) /\ left \in [Pids -> Nat]
    BY DEF TimerInv, TTypeOK, Nodes
  <2> QED
    BY <2>1, NodeAt
<1>2. \A i \in 1..n : wait_queue[i].pid \in T
  BY <1>1 DEF Queued
<1>3. f \in Injection(1..n, T)
  <2>1. f \in [1..n -> T]
    BY <1>2
  <2>2. \A a, b \in 1..n : f[a] = f[b] => a = b
    BY DEF TimerInv, OneNodeEach
  <2> QED
    BY <2>1, <2>2 DEF Injection, IsInjective
<1>4. IsFiniteSet(Pids) /\ IsFiniteSet(T) /\ Cardinality(T) = Cardinality(Pids) - 1
  BY TimerAssumption, FS_RemoveElement
<1>5. Cardinality(1..n) = n
  <2>1. 1 \in Int /\ n \in Int /\ n >= 0
    BY <1>1
  <2>2. Cardinality(1..n) = IF 1 > n THEN 0 ELSE n - 1 + 1
    BY <2>1, FS_Interval
  <2> QED
    BY <2>1, <2>2
<1>6. Cardinality(1..n) <= Cardinality(T)
  BY <1>3, <1>4, FS_Injection
<1>7. Cardinality(Pids) \in Nat
  BY <1>4, FS_CardinalityType
<1> QED
  BY <1>1, <1>4, <1>5, <1>6, <1>7

(* free_list runs dry only after requests with sec <= 0 have lost nodes. *)
THEOREM LeaksExhaustNodes == TSpec => []NodesRunOutByLeaking
<1>1. TInit => NodesRunOutByLeaking
  BY DEF TInit, NodesRunOutByLeaking
<1>2. TimerInv /\ NodesRunOutByLeaking /\ [TNext]_tvars => NodesRunOutByLeaking'
  <2> SUFFICES ASSUME TimerInv, NodesRunOutByLeaking, [TNext]_tvars, exhausted'
               PROVE  immediate' + Cardinality(Pids) > NODES
    BY DEF NodesRunOutByLeaking
  <2>0. immediate \in Nat /\ Len(wait_queue) \in Nat /\ NODES \in Nat /\ Cardinality(Pids) \in Nat
    <3>1. Cardinality(Pids) \in Nat
      BY TimerAssumption, FS_CardinalityType
    <3> QED
      BY <3>1, TimerAssumption DEF TimerInv, TTypeOK
  <2>1. CASE exhausted
    <3>1. immediate' = immediate
      BY <2>1 DEF TNext, AddTimeEvent, PassNode, InsertNode, Tick, TickSecond, Fire, FireDone, tvars
    <3> QED
      BY <2>1, <3>1 DEF NodesRunOutByLeaking
  <2>2. CASE ~exhausted
    <3>1. PICK p \in Pids, sec \in Secs : AddTimeEvent(p, sec)
      BY <2>2 DEF TNext, PassNode, InsertNode, Tick, TickSecond, Fire, FireDone, tvars
    <3>2. at = "idle" /\ left[p] = 0 /\ free_list = 0 /\ immediate' = immediate
      BY <2>2, <3>1 DEF AddTimeEvent
    <3>3. ~Queued(p)
      BY <3>2 DEF TimerInv, Members
    <3>4. Len(wait_queue) < Cardinality(Pids)
      BY <3>3, OneLess
    <3>5. Len(wait_queue) + immediate = NODES
      BY <2>0, <3>2 DEF TimerInv, NodeCount
    <3> QED
      BY <2>0, <3>2, <3>4, <3>5
  <2> QED
    BY <2>1, <2>2
<1> QED
  BY <1>1, <1>2, TimerHolds, PTL DEF TSpec
-----------------------------------------------------------------------------
(***************************************************************************)
(* The disk driver.                                                        *)
(***************************************************************************)

Size       == NSectors * SectorSize
Contents   == [0..(SectorSize - 1) -> Bytes]
CacheLines == [sector : Sectors, used : BOOLEAN, dirty : BOOLEAN, content : Contents]
Fitting    == {m \in Requests : m.offset + m.len <= Size}
Messages   == Fitting \cup {InterruptMsg("IDE_READY"), InterruptMsg("IDE_WRITEBACK")}
Command(op, sector) == [op |-> op, sector |-> sector]

\* The line the request in hand has come to.
Line == cache[Slot(Target)]

IdeTypes ==
  /\ cache \in [Slots -> CacheLines] /\ disk \in [Sectors -> Contents]
  /\ box \in Seq(Messages) /\ req \in Messages
  /\ pc \in {"loop", "serve", "evict", "fill", "writeback", "flush"}
  /\ wb \in 0..NR_SEC_CACHE /\ done \in Nat /\ data \in Seq(Bytes)
  /\ ideal \in [Offsets -> Bytes]

\* The request is one that fits, and there is more of it while a transfer runs.
RequestInHand ==
  pc \in {"serve", "evict", "fill"} =>
    /\ req \in Fitting /\ done <= req.len /\ (pc # "serve" => done < req.len)
    /\ req.type = "DEV_READ" => Len(data) = done

\* What the drive may be doing, and what holds once it has done it.
Transfers ==
  /\ pc \in {"loop", "serve", "writeback"} => command = NoCommand
  /\ pc = "evict" => /\ ~Hit /\ Line.used
                     /\ command \in {NoCommand, Command("write", Line.sector)}
                     /\ command = NoCommand => Line.content = disk[Line.sector]
  /\ pc = "fill" => /\ ~Hit
                    /\ Line.used => Line.content = disk[Line.sector]
                    /\ command \in {NoCommand, Command("read", Target)}
  /\ pc = "flush" => /\ wb \in Slots /\ cache[wb].used
                     /\ command \in {NoCommand, Command("write", cache[wb].sector)}
                     /\ command = NoCommand => cache[wb].content = disk[cache[wb].sector]

DirtyUsed == \A s \in Slots : cache[s].dirty => cache[s].used

\* The slots cache_writeback() has passed are clean.
PassedClean == pc \in {"writeback", "flush"} => \A s \in Slots : s < wb => ~cache[s].dirty

IdeInv ==
  /\ IdeTypes /\ RequestInHand /\ Transfers /\ DirtyUsed /\ PassedClean
  /\ ReadsSeeWrites /\ CleanSlotsAgree /\ NoLeakingInterrupt
-----------------------------------------------------------------------------
(* Division splits an offset into a sector and a place in it. *)
LEMMA Division ==
  ASSUME NEW n \in Nat \ {0}, NEW a \in Nat
  PROVE  /\ a \div n \in Nat /\ a % n \in 0..(n - 1)
         /\ a = n * (a \div n) + (a % n)
OBVIOUS

(* Every sector has a slot. *)
LEMMA SlotType == \A s \in Sectors : Slot(s) \in Slots
<1>1. NR_SEC_CACHE \in Nat \ {0} /\ NSectors \in Nat \ {0}
  BY IdeAssumption
<1> QED
  BY <1>1, Division DEF Sectors, Slots, Slot

(* Every offset of the disk is in one of its sectors. *)
LEMMA SectorType ==
  \A o \in Offsets : SectorOf(o) \in Sectors /\ o % SectorSize \in 0..(SectorSize - 1)
<1>1. SectorSize \in Nat \ {0} /\ NSectors \in Nat \ {0}
  BY IdeAssumption
<1> SUFFICES ASSUME NEW o \in Offsets
             PROVE  SectorOf(o) \in Sectors /\ o % SectorSize \in 0..(SectorSize - 1)
  OBVIOUS
<1>2. o \in Nat /\ o < NSectors * SectorSize
  BY <1>1 DEF Offsets
<1> DEFINE q == o \div SectorSize
           m == o % SectorSize
<1>3. q \in Nat /\ m \in 0..(SectorSize - 1) /\ o = SectorSize * q + m
  BY <1>1, <1>2, Division
<1> HIDE DEF q, m
<1>4. q < NSectors
  <2> SUFFICES ASSUME q >= NSectors PROVE FALSE
    BY <1>1, <1>3
  <2>1. SectorSize * q >= SectorSize * NSectors
    BY <1>1, <1>3
  <2> QED
    BY <1>1, <1>2, <1>3, <2>1
<1> QED
  BY <1>1, <1>3, <1>4 DEF q, m, Sectors, SectorOf

(* Two offsets of one sector at the same place are one. *)
LEMMA SamePlace ==
  \A o, p \in Offsets :
    SectorOf(o) = SectorOf(p) /\ o % SectorSize = p % SectorSize => o = p
<1>1. SectorSize \in Nat \ {0} /\ NSectors \in Nat \ {0}
  BY IdeAssumption
<1>2. \A o \in Offsets : o \in Nat
  BY <1>1 DEF Offsets
<1>3. \A o \in Offsets : o = SectorSize * SectorOf(o) + (o % SectorSize)
  BY <1>1, <1>2, Division DEF SectorOf
<1> QED
  BY <1>3

(* What a request of a client looks like. *)
LEMMA FittingType ==
  ASSUME NEW m \in Fitting
  PROVE  /\ m.src \in Clients /\ m.src # Intr /\ m.type \in {"DEV_READ", "DEV_WRITE"}
         /\ m.offset \in Offsets /\ m.len \in 1..MaxLen /\ m.offset + m.len <= Size
         /\ m.byte \in Bytes
BY IdeAssumption DEF Fitting, Requests

(* What a message of an interrupt handler looks like. *)
LEMMA InterruptType ==
  ASSUME NEW m \in Messages, m \notin Fitting
  PROVE  m.src = Intr /\ m.type \in {"IDE_READY", "IDE_WRITEBACK"}
BY DEF Messages, InterruptMsg

(* The byte the request has come to is on the disk and has a slot. *)
LEMMA OffsetInHand ==
  ASSUME IdeInv, pc \in {"serve", "evict", "fill"}, done < req.len
  PROVE  /\ Offset \in Offsets /\ Target \in Sectors /\ Slot(Target) \in Slots
         /\ Line \in CacheLines /\ Offset % SectorSize \in 0..(SectorSize - 1)
<1>1. req \in Fitting /\ done \in Nat
  BY DEF IdeInv, RequestInHand, IdeTypes
<1>2. req.offset \in Offsets /\ req.len \in Nat /\ req.offset + req.len <= Size
  BY <1>1, FittingType DEF Offsets
<1>3. Offset \in Offsets
  BY <1>1, <1>2, IdeAssumption DEF Offset, Offsets, Size
<1>4. Target \in Sectors /\ Offset % SectorSize \in 0..(SectorSize - 1)
  BY <1>3, SectorType DEF Target
<1>5. Slot(Target) \in Slots
  BY <1>4, SlotType
<1>6. cache \in [Slots -> CacheLines]
  BY DEF IdeInv, IdeTypes
<1> QED
  BY <1>3, <1>4, <1>5, <1>6 DEF Line

(* receive() takes the first message that suits and leaves the others in order. *)
LEMMA ReceiveTakes ==
  ASSUME IdeInv, Receive
  PROVE  /\ First \in 1..Len(box) /\ Suits(Got) /\ Got \in Messages
         /\ box' \in Seq(Messages) /\ Len(box') = Len(box) - 1
         /\ \A j \in 1..Len(box') :
              /\ box'[j] \in Messages
              /\ box'[j] = box[IF j < First THEN j ELSE j + 1]
<1>1. box \in Seq(Messages) /\ Len(box) \in Nat
  BY DEF IdeInv, IdeTypes
<1> DEFINE T == {k \in 1..Len(box) : Suits(box[k])}
<1>2. T \in SUBSET Nat /\ T # {}
  BY <1>1 DEF Receive, Ready
<1>3. PICK k \in T : \A m \in T : k <= m
  BY <1>2, LeastElement
<1>4. \E n \in 1..Len(box) : Suits(box[n]) /\ \A j \in 1..(n - 1) : ~Suits(box[j])
  BY <1>1, <1>3
<1>5. First \in 1..Len(box) /\ Suits(box[First])
  BY <1>4 DEF First
<1>6. box' = RemoveAt(box, First)
  BY DEF Receive
<1> HIDE DEF T
<1>7. /\ box' \in Seq(Messages) /\ Len(box') = Len(box) - 1
      /\ \A j \in 1..(Len(box) - 1) : box'[j] = IF j < First THEN box[j] ELSE box[j + 1]
  BY <1>1, <1>5, <1>6, RemoveAtProperties
<1> QED
  BY <1>1, <1>5, <1>7 DEF Got

(* A message that is taken out leaves no more interrupts than there were; when
   it was the drive's, none is left. *)
LEMMA ReceiveInterrupts ==
  ASSUME IdeInv, Receive
  PROVE  /\ \A j \in 1..Len(box') : box'[j].type = "IDE_READY" =>
              /\ Got.type # "IDE_READY" /\ pc \in {"evict", "fill", "flush"} /\ command = NoCommand
              /\ \A i \in 1..Len(box') : box'[i].type = "IDE_READY" => i = j
         /\ Got.type = "IDE_READY" => pc \in {"evict", "fill", "flush"} /\ command = NoCommand
<1>1. box \in Seq(Messages) /\ Len(box) \in Nat
  BY DEF IdeInv, IdeTypes
<1> DEFINE old(j) == IF j < First THEN j ELSE j + 1
<1>2. /\ First \in 1..Len(box) /\ Len(box') = Len(box) - 1
      /\ \A j \in 1..Len(box') : box'[j] = box[old(j)]
  BY ReceiveTakes
<1>3. \A j \in 1..Len(box') : old(j) \in 1..Len(box) /\ old(j) # First
  BY <1>1, <1>2
<1>4. \A i, j \in 1..Len(box') : old(i) = old(j) => i = j
  BY <1>1, <1>2
<1>5. \A k \in 1..Len(box) : box[k].type = "IDE_READY" =>
        /\ pc \in {"evict", "fill", "flush"} /\ command = NoCommand
        /\ \A j \in 1..Len(box) : box[j].type = "IDE_READY" => j = k
  BY DEF IdeInv, NoLeakingInterrupt
<1> HIDE DEF old
<1> QED
  BY <1>2, <1>3, <1>4, <1>5, SMTT(30) DEF Got

(* A message that is put in the box stands behind the others. *)
LEMMA Delivered ==
  ASSUME IdeInv, NEW m \in Messages, box' = Append(box, m)
  PROVE  /\ box' \in Seq(Messages) /\ Len(box) \in Nat /\ Len(box') = Len(box) + 1
         /\ box'[Len(box')] = m
         /\ \A j \in 1..Len(box') : j < Len(box') => j \in 1..Len(box) /\ box'[j] = box[j]
<1>1. box \in Seq(Messages) /\ Len(box) \in Nat
  BY DEF IdeInv, IdeTypes
<1> QED
  BY <1>1
-----------------------------------------------------------------------------
(* What a step that leaves cache, disk and history alone cannot disturb. *)
LEMMA ContentsKept ==
  ASSUME IdeInv, UNCHANGED <<cache, disk, ideal>>
  PROVE  /\ DirtyUsed' /\ CleanSlotsAgree' /\ \A o \in Offsets : View(o)' = ideal'[o]
<1>1. DirtyUsed /\ CleanSlotsAgree /\ \A o \in Offsets : View(o) = ideal[o]
  BY DEF IdeInv, ReadsSeeWrites
<1> QED
  BY <1>1 DEF DirtyUsed, CleanSlotsAgree, View

(* Going to sleep in receive() changes nothing but that. *)
LEMMA BlockInv ==
  ASSUME IdeInv, UNCHANGED <<cache, disk, command, box, pc, thread, ideal, halted>>
  PROVE  IdeInv'
<1>1. DirtyUsed' /\ CleanSlotsAgree' /\ \A o \in Offsets : View(o)' = ideal'[o]
  BY ContentsKept
<1>2. IdeTypes' /\ RequestInHand' /\ PassedClean' /\ NoLeakingInterrupt'
  BY DEF IdeInv, IdeTypes, RequestInHand, PassedClean, NoLeakingInterrupt, thread
<1>3. Transfers'
  BY DEF IdeInv, Transfers, Hit, Line, Target, Offset, thread
<1>4. ReadsSeeWrites'
  BY <1>1 DEF IdeInv, ReadsSeeWrites, thread
<1> QED
  BY <1>1, <1>2, <1>3, <1>4 DEF IdeInv

(* The top of the loop: the drive is idle, so its interrupt is not there. *)
LEMMA DispatchInv ==
  ASSUME IdeInv, Dispatch
  PROVE  IdeInv'
<1>1. /\ pc = "loop" /\ Receive /\ UNCHANGED <<cache, disk, command, busy, ideal>>
      /\ command = NoCommand /\ ~halted
  BY DEF Dispatch, IdeInv, Transfers, Receive
<1>2. DirtyUsed' /\ CleanSlotsAgree' /\ \A o \in Offsets : View(o)' = ideal'[o]
  BY <1>1, ContentsKept
<1>3. /\ Got \in Messages /\ box' \in Seq(Messages) /\ Got.type # "IDE_READY"
      /\ \A j \in 1..Len(box') : box'[j].type # "IDE_READY"
  BY <1>1, ReceiveTakes, ReceiveInterrupts
<1>4. CASE Got.type = "IDE_WRITEBACK"
  <2>1. pc' = "writeback" /\ wb' = 0 /\ UNCHANGED <<req, done, data, halted>>
    BY <1>4, <1>3 DEF Dispatch
  <2>2. IdeTypes' /\ RequestInHand' /\ Transfers' /\ NoLeakingInterrupt'
    BY <2>1, <1>1, <1>3, IdeAssumption
    DEF IdeInv, IdeTypes, RequestInHand, Transfers, NoLeakingInterrupt
  <2>3. PassedClean'
    BY <2>1, IdeAssumption DEF PassedClean, Slots
  <2>4. ReadsSeeWrites'
    BY <2>1, <1>1, <1>2 DEF IdeInv, ReadsSeeWrites
  <2> QED
    BY <2>2, <2>3, <2>4, <1>2 DEF IdeInv
<1>5. CASE Got.type # "IDE_WRITEBACK"
  <2>1. pc' = "serve" /\ req' = Got /\ done' = 0 /\ data' = <<>> /\ UNCHANGED <<wb, halted>>
    BY <1>5, <1>3 DEF Dispatch
  <2>2. Got \in Fitting
    BY <1>3, <1>5, InterruptType
  <2>3. Got.len \in Nat
    BY <2>2, FittingType
  <2>4. IdeTypes' /\ Transfers' /\ NoLeakingInterrupt' /\ PassedClean'
    BY <2>1, <1>1, <1>3
    DEF IdeInv, IdeTypes, Transfers, NoLeakingInterrupt, PassedClean
  <2>5. RequestInHand'
    BY <2>1, <2>2, <2>3 DEF RequestInHand
  <2>6. ReadsSeeWrites'
    BY <2>1, <1>2 DEF ReadsSeeWrites
  <2> QED
    BY <2>4, <2>5, <2>6, <1>2 DEF IdeInv
<1> QED
  BY <1>4, <1>5

(* read_byte(): the byte read is the one last written there. *)
LEMMA ReadByteInv ==
  ASSUME IdeInv, ServeByte, req.type = "DEV_READ"
  PROVE  IdeInv'
<1>1. /\ pc = "serve" /\ done < req.len /\ Hit /\ ReadByte /\ done' = done + 1
      /\ UNCHANGED <<disk, command, box, blocked, pc, wb, req, busy, halted>>
      /\ UNCHANGED <<cache, ideal>>
  BY DEF ServeByte, Serving, ReadByte
<1>2. DirtyUsed' /\ CleanSlotsAgree' /\ \A o \in Offsets : View(o)' = ideal'[o]
  BY <1>1, ContentsKept
<1>3. /\ Offset \in Offsets /\ Target \in Sectors /\ Line \in CacheLines
      /\ Offset % SectorSize \in 0..(SectorSize - 1)
  BY <1>1, OffsetInHand
<1> DEFINE b == Line.content[Offset % SectorSize]
<1>4. b \in Bytes /\ data' = Append(data, b)
  BY <1>1, <1>3 DEF CacheLines, Contents, ReadByte, Line
<1>5. b = ideal[Offset]
  <2>1. View(Offset) = ideal[Offset]
    BY <1>3 DEF IdeInv, ReadsSeeWrites
  <2> QED
    BY <2>1, <1>1 DEF View, Hit, Target, Line
<1>6. data \in Seq(Bytes) /\ Len(data) = done /\ done \in Nat /\ req \in Fitting
  BY <1>1 DEF IdeInv, IdeTypes, RequestInHand
<1>7. req.offset \in Int /\ req.len \in Nat
  BY <1>6, FittingType DEF Offsets
<1> HIDE DEF b
<1>8. /\ data' \in Seq(Bytes) /\ Len(data') = done' /\ done' \in Nat
      /\ \A k \in 1..Len(data') : IF k <= done THEN k \in 1..Len(data) /\ data'[k] = data[k]
                                  ELSE k = done + 1 /\ data'[k] = b
  BY <1>1, <1>4, <1>6
<1>9. IdeTypes' /\ Transfers' /\ NoLeakingInterrupt' /\ PassedClean'
  BY <1>1, <1>8 DEF IdeInv, IdeTypes, Transfers, NoLeakingInterrupt, PassedClean
<1>10. RequestInHand'
  BY <1>1, <1>6, <1>7, <1>8 DEF RequestInHand
<1>11. ReadsSeeWrites'
  <2>1. \A k \in 1..Len(data) : data[k] = ideal[req.offset + k - 1]
    BY DEF IdeInv, ReadsSeeWrites
  <2>2. \A k \in 1..Len(data') : data'[k] = ideal[req.offset + k - 1]
    <3> SUFFICES ASSUME NEW k \in 1..Len(data')
                 PROVE  data'[k] = ideal[req.offset + k - 1]
      OBVIOUS
    <3>1. CASE k <= done
      BY <3>1, <2>1, <1>8
    <3>2. CASE ~(k <= done)
      <4>1. k = done + 1 /\ data'[k] = b
        BY <3>2, <1>8
      <4>2. req.offset + k - 1 = Offset
        BY <4>1, <1>6, <1>7 DEF Offset
      <4> QED
        BY <4>1, <4>2, <1>5
    <3> QED
      BY <3>1, <3>2
  <2> QED
    BY <2>2, <1>1, <1>2 DEF ReadsSeeWrites
<1> QED
  BY <1>2, <1>9, <1>10, <1>11 DEF IdeInv

(* write_byte(): the one byte changes, in the cache and in the history, and the
   slot is dirty. *)
LEMMA WriteByteInv ==
  ASSUME IdeInv, ServeByte, req.type # "DEV_READ"
  PROVE  IdeInv'
<1>1. /\ pc = "serve" /\ done < req.len /\ Hit /\ WriteByte /\ done' = done + 1
      /\ UNCHANGED <<disk, command, box, blocked, pc, wb, req, busy, halted>>
      /\ UNCHANGED data
  BY DEF ServeByte, Serving, WriteByte
<1> DEFINE t == Slot(Target)
           p == Offset % SectorSize
<1>2. /\ Offset \in Offsets /\ Target \in Sectors /\ t \in Slots
      /\ p \in 0..(SectorSize - 1)
  BY <1>1, OffsetInHand
<1>3. /\ cache \in [Slots -> CacheLines] /\ ideal \in [Offsets -> Bytes]
      /\ req \in Fitting /\ done \in Nat
  BY <1>1 DEF IdeInv, IdeTypes, RequestInHand
<1>4. req.byte \in Bytes /\ req.len \in Nat
  BY <1>3, FittingType
<1>5. cache[t].used /\ cache[t].sector = Target
  BY <1>1 DEF Hit
<1>6. cache[t] \in CacheLines /\ cache[t].content \in Contents
  BY <1>2, <1>3 DEF CacheLines
<1> DEFINE content == [cache[t].content EXCEPT ![p] = req.byte]
           line == [cache[t] EXCEPT !.content = content, !.dirty = TRUE]
<1>7. cache' = [cache EXCEPT ![t] = line]
  BY <1>1, <1>2, <1>3, <1>6 DEF WriteByte, CacheLines
<1> HIDE DEF t, p
<1>8. /\ content \in Contents /\ content[p] = req.byte
      /\ \A n \in 0..(SectorSize - 1) : n # p => content[n] = cache[t].content[n]
  BY <1>2, <1>4, <1>6 DEF Contents
<1> HIDE DEF content
<1>9. /\ line \in CacheLines /\ line.dirty = TRUE /\ line.content = content
      /\ line.used = cache[t].used /\ line.sector = cache[t].sector
  BY <1>6, <1>8 DEF CacheLines
<1> HIDE DEF line
<1>10. /\ cache' \in [Slots -> CacheLines] /\ ideal' \in [Offsets -> Bytes]
       /\ ideal'[Offset] = req.byte
       /\ \A o \in Offsets : o # Offset => ideal'[o] = ideal[o]
       /\ \A s \in Slots : s # t => cache'[s] = cache[s]
       /\ \A s \in Slots : cache'[s].used = cache[s].used /\ cache'[s].sector = cache[s].sector
       /\ cache'[t].dirty = TRUE /\ cache'[t].content = content
  BY <1>1, <1>2, <1>3, <1>4, <1>7, <1>9 DEF WriteByte
<1>11. IdeTypes' /\ Transfers' /\ NoLeakingInterrupt' /\ PassedClean' /\ RequestInHand'
  BY <1>1, <1>3, <1>4, <1>8, <1>10
  DEF IdeInv, IdeTypes, Transfers, NoLeakingInterrupt, PassedClean, RequestInHand
<1>12. DirtyUsed'
  BY <1>5, <1>8, <1>10 DEF IdeInv, DirtyUsed
<1>13. CleanSlotsAgree'
  BY <1>1, <1>8, <1>10 DEF IdeInv, CleanSlotsAgree
<1>14. \A o \in Offsets : View(o)' = ideal'[o]
  <2> SUFFICES ASSUME NEW o \in Offsets
               PROVE  View(o)' = ideal'[o]
    OBVIOUS
  <2> DEFINE s == SectorOf(o)
             n == o % SectorSize
  <2>1. s \in Sectors /\ n \in 0..(SectorSize - 1) /\ Slot(s) \in Slots
    BY SectorType, SlotType
  <2>2. View(o) = ideal[o]
    BY DEF IdeInv, ReadsSeeWrites
  <2>3. CASE o = Offset
    <3>1. s = Target /\ n = p /\ Slot(s) = t
      BY <2>3 DEF Target, t, p
    <3>2. cache'[t].used /\ cache'[t].sector = Target
      BY <1>2, <1>5, <1>8, <1>10
    <3> QED
      BY <3>1, <3>2, <2>3, <1>2, <1>8, <1>10 DEF View
  <2>4. CASE o # Offset
    <3>1. ideal'[o] = ideal[o]
      BY <2>4, <1>10
    <3>2. ~(s = Target /\ n = p)
      BY <2>4, <1>2, SamePlace DEF Target, p
    <3>3. cache'[Slot(s)].used = cache[Slot(s)].used /\ cache'[Slot(s)].sector = cache[Slot(s)].sector
      BY <2>1, <1>8, <1>10
    <3>4. CASE cache[Slot(s)].used /\ cache[Slot(s)].sector = s
      <4>1. cache'[Slot(s)].content[n] = cache[Slot(s)].content[n]
        BY <3>2, <3>4, <2>1, <1>2, <1>5, <1>8, <1>10
      <4> QED
        BY <4>1, <3>1, <3>3, <3>4, <2>2 DEF View
    <3>5. CASE ~(cache[Slot(s)].used /\ cache[Slot(s)].sector = s)
      BY <3>1, <3>3, <3>5, <2>2, <1>1 DEF View
    <3> QED
      BY <3>4, <3>5
  <2> QED
    BY <2>3, <2>4
<1>15. ReadsSeeWrites'
  BY <1>1, <1>14 DEF ReadsSeeWrites
<1> QED
  BY <1>11, <1>12, <1>13, <1>15 DEF IdeInv

(* A miss starts the drive: on the old sector if it is dirty, else on the new. *)
LEMMA MissInv ==
  ASSUME IdeInv, Miss
  PROVE  IdeInv'
<1>1. /\ pc = "serve" /\ done < req.len /\ ~Hit
      /\ UNCHANGED <<cache, disk, box, thread, ideal, halted>>
  BY DEF Miss, Serving, Issue
<1>2. /\ Target \in Sectors /\ Slot(Target) \in Slots /\ Line \in CacheLines
  BY <1>1, OffsetInHand
<1>3. DirtyUsed' /\ CleanSlotsAgree' /\ \A o \in Offsets : View(o)' = ideal'[o]
  BY <1>1, ContentsKept
<1>4. ReadsSeeWrites'
  BY <1>1, <1>3 DEF IdeInv, ReadsSeeWrites, thread
<1>5. \A k \in 1..Len(box) : box[k].type # "IDE_READY"
  BY <1>1 DEF IdeInv, NoLeakingInterrupt
<1>6. Target' = Target /\ Hit' = Hit /\ Line' = Line
  BY <1>1 DEF Target, Offset, Hit, Line, thread
<1>7. CASE NeedsWriteback
  <2>1. command' = Command("write", Line.sector) /\ pc' = "evict" /\ Line.used
    BY <1>1, <1>7 DEF Miss, Issue, NeedsWriteback, Line, Command
  <2>2. command' # NoCommand
    BY <2>1 DEF Command, NoCommand
  <2>3. IdeTypes' /\ RequestInHand' /\ PassedClean' /\ NoLeakingInterrupt'
    BY <2>1, <1>1, <1>5
    DEF IdeInv, IdeTypes, RequestInHand, PassedClean, NoLeakingInterrupt, thread
  <2>4. Transfers'
    BY <2>1, <2>2, <1>1, <1>6 DEF Transfers
  <2> QED
    BY <2>3, <2>4, <1>3, <1>4 DEF IdeInv
<1>8. CASE ~NeedsWriteback
  <2>1. command' = Command("read", Target) /\ pc' = "fill" /\ (Line.used => ~Line.dirty)
    BY <1>1, <1>8 DEF Miss, Issue, NeedsWriteback, Line, Command
  <2>2. Line.used => Line.content = disk[Line.sector]
    BY <2>1, <1>2 DEF IdeInv, CleanSlotsAgree, Line
  <2>3. IdeTypes' /\ RequestInHand' /\ PassedClean' /\ NoLeakingInterrupt'
    BY <2>1, <1>1, <1>5
    DEF IdeInv, IdeTypes, RequestInHand, PassedClean, NoLeakingInterrupt, thread
  <2>4. Transfers'
    BY <2>1, <2>2, <1>1, <1>6 DEF Transfers
  <2> QED
    BY <2>3, <2>4, <1>3, <1>4 DEF IdeInv
<1> QED
  BY <1>7, <1>8

(* The answer leaves the drive idle and the cache as it is. *)
LEMMA AnswerInv ==
  ASSUME IdeInv, Answer
  PROVE  IdeInv'
<1>1. /\ pc = "serve" /\ pc' = "loop"
      /\ UNCHANGED <<cache, disk, command, box, thread, ideal, halted>>
  BY DEF Answer
<1>2. DirtyUsed' /\ CleanSlotsAgree' /\ \A o \in Offsets : View(o)' = ideal'[o]
  BY <1>1, ContentsKept
<1>3. ReadsSeeWrites'
  BY <1>1, <1>2 DEF IdeInv, ReadsSeeWrites, thread
<1>4. IdeTypes' /\ RequestInHand' /\ PassedClean' /\ NoLeakingInterrupt' /\ Transfers'
  BY <1>1
  DEF IdeInv, IdeTypes, RequestInHand, PassedClean, NoLeakingInterrupt, Transfers, thread
<1> QED
  BY <1>2, <1>3, <1>4 DEF IdeInv

(* cache_writeback() passes a clean slot, starts the drive on a dirty one, or
   is at its end. *)
LEMMA WritebackInv ==
  ASSUME IdeInv, Writeback
  PROVE  IdeInv'
<1>1. /\ pc = "writeback" /\ command = NoCommand /\ wb \in 0..NR_SEC_CACHE
      /\ NR_SEC_CACHE \in Nat \ {0}
  BY IdeAssumption DEF Writeback, IdeInv, Transfers, IdeTypes
<1>2. UNCHANGED <<cache, disk, box, req, done, data, ideal, halted>>
  BY DEF Writeback, Issue, thread
<1>3. DirtyUsed' /\ CleanSlotsAgree' /\ \A o \in Offsets : View(o)' = ideal'[o]
  BY <1>2, ContentsKept
<1>4. ReadsSeeWrites'
  BY <1>2, <1>3 DEF IdeInv, ReadsSeeWrites
<1>5. \A k \in 1..Len(box) : box[k].type # "IDE_READY"
  BY <1>1 DEF IdeInv, NoLeakingInterrupt
<1>6. CASE wb = NR_SEC_CACHE
  <2>0. ~(wb < NR_SEC_CACHE)
    BY <1>1, <1>6
  <2>1. pc' = "loop" /\ command' = command /\ wb' = wb
    BY <2>0, <1>6 DEF Writeback, thread
  <2>2. IdeTypes' /\ RequestInHand' /\ PassedClean' /\ NoLeakingInterrupt' /\ Transfers'
    BY <2>1, <1>1, <1>2, <1>5
    DEF IdeInv, IdeTypes, RequestInHand, PassedClean, NoLeakingInterrupt, Transfers
  <2> QED
    BY <2>2, <1>3, <1>4 DEF IdeInv
<1>7. CASE wb < NR_SEC_CACHE /\ cache[wb].dirty
  <2>1. wb # NR_SEC_CACHE /\ wb \in Slots
    BY <1>1, <1>7 DEF Slots
  <2>2. command' = Command("write", cache[wb].sector) /\ pc' = "flush" /\ wb' = wb
    BY <2>1, <1>7 DEF Writeback, Issue, thread, Command
  <2>3. command' # NoCommand
    BY <2>2 DEF Command, NoCommand
  <2>4. cache[wb].used
    BY <2>1, <1>7 DEF IdeInv, DirtyUsed
  <2>5. IdeTypes' /\ RequestInHand' /\ PassedClean' /\ NoLeakingInterrupt'
    BY <2>2, <1>1, <1>2, <1>5
    DEF IdeInv, IdeTypes, RequestInHand, PassedClean, NoLeakingInterrupt
  <2>6. Transfers'
    BY <2>1, <2>2, <2>3, <2>4, <1>2 DEF Transfers
  <2> QED
    BY <2>5, <2>6, <1>3, <1>4 DEF IdeInv
<1>8. CASE wb < NR_SEC_CACHE /\ ~cache[wb].dirty
  <2>1. wb # NR_SEC_CACHE
    BY <1>1, <1>8
  <2>2. wb' = wb + 1 /\ pc' = pc /\ command' = command
    BY <2>1, <1>8 DEF Writeback
  <2>3. IdeTypes' /\ RequestInHand' /\ NoLeakingInterrupt' /\ Transfers'
    BY <2>2, <1>1, <1>2, <1>5, <1>8
    DEF IdeInv, IdeTypes, RequestInHand, NoLeakingInterrupt, Transfers
  <2>4. PassedClean'
    BY <2>2, <1>1, <1>2, <1>8 DEF IdeInv, PassedClean, Slots
  <2> QED
    BY <2>3, <2>4, <1>3, <1>4 DEF IdeInv
<1> QED
  BY <1>1, <1>6, <1>7, <1>8

(* A transfer passes over every message but IDE_READY. *)
LEMMA SkipMessageInv ==
  ASSUME IdeInv, SkipMessage
  PROVE  IdeInv'
<1>1. Receive /\ UNCHANGED <<cache, disk, command, pc, thread, ideal, halted>>
  BY DEF SkipMessage
<1>2. DirtyUsed' /\ CleanSlotsAgree' /\ \A o \in Offsets : View(o)' = ideal'[o]
  BY <1>1, ContentsKept
<1>3. ReadsSeeWrites'
  BY <1>1, <1>2 DEF IdeInv, ReadsSeeWrites, thread
<1>4. box' \in Seq(Messages)
  BY <1>1, ReceiveTakes
<1>5. IdeTypes' /\ RequestInHand' /\ PassedClean'
  BY <1>1, <1>4 DEF IdeInv, IdeTypes, RequestInHand, PassedClean, thread
<1>6. Transfers'
  BY <1>1 DEF IdeInv, Transfers, Hit, Line, Target, Offset, thread
<1>7. NoLeakingInterrupt'
  BY <1>1, ReceiveInterrupts DEF IdeInv, NoLeakingInterrupt
<1> QED
  BY <1>2, <1>3, <1>5, <1>6, <1>7 DEF IdeInv

(* The old sector is on the disk when the read of the new one starts. *)
LEMMA EvictDoneInv ==
  ASSUME IdeInv, EvictDone
  PROVE  IdeInv'
<1>1. /\ pc = "evict" /\ Receive /\ Got.type = "IDE_READY"
      /\ command' = Command("read", Target) /\ pc' = "fill"
      /\ UNCHANGED <<cache, disk, thread, ideal, halted>>
  BY DEF EvictDone, Command
<1>2. DirtyUsed' /\ CleanSlotsAgree' /\ \A o \in Offsets : View(o)' = ideal'[o]
  BY <1>1, ContentsKept
<1>3. ReadsSeeWrites'
  BY <1>1, <1>2 DEF IdeInv, ReadsSeeWrites, thread
<1>4. /\ box' \in Seq(Messages) /\ command = NoCommand
      /\ \A j \in 1..Len(box') : box'[j].type # "IDE_READY"
  BY <1>1, ReceiveTakes, ReceiveInterrupts
<1>5. IdeTypes' /\ RequestInHand' /\ PassedClean' /\ NoLeakingInterrupt'
  BY <1>1, <1>4
  DEF IdeInv, IdeTypes, RequestInHand, PassedClean, NoLeakingInterrupt, thread
<1>6. Target' = Target /\ Hit' = Hit /\ Line' = Line
  BY <1>1 DEF Target, Offset, Hit, Line, thread
<1>7. ~Hit /\ Line.content = disk[Line.sector]
  BY <1>1, <1>4 DEF IdeInv, Transfers
<1>8. Transfers'
  BY <1>1, <1>6, <1>7 DEF Transfers
<1> QED
  BY <1>2, <1>3, <1>5, <1>8 DEF IdeInv

(* The slot takes the new sector; the old one, if any, was on the disk. *)
LEMMA FillDoneInv ==
  ASSUME IdeInv, FillDone
  PROVE  IdeInv'
<1> DEFINE t == Slot(Target)
           line == [sector |-> Target, used |-> TRUE, dirty |-> FALSE, content |-> disk[Target]]
<1>1. /\ pc = "fill" /\ Receive /\ Got.type = "IDE_READY"
      /\ cache' = [cache EXCEPT ![t] = line] /\ pc' = "serve"
      /\ UNCHANGED <<disk, command, thread, ideal, halted>>
  BY DEF FillDone
<1>2. done < req.len /\ done \in Nat /\ req \in Fitting
  BY <1>1 DEF IdeInv, RequestInHand, IdeTypes
<1>3. Target \in Sectors /\ t \in Slots
  BY <1>1, <1>2, OffsetInHand
<1>4. cache \in [Slots -> CacheLines] /\ disk \in [Sectors -> Contents]
  BY DEF IdeInv, IdeTypes
<1>5. line \in CacheLines
  BY <1>3, <1>4 DEF CacheLines
<1>6. /\ box' \in Seq(Messages) /\ command = NoCommand
      /\ \A j \in 1..Len(box') : box'[j].type # "IDE_READY"
  BY <1>1, ReceiveTakes, ReceiveInterrupts
<1>7. /\ ~(cache[t].used /\ cache[t].sector = Target)
      /\ cache[t].used => cache[t].content = disk[cache[t].sector]
  BY <1>1 DEF IdeInv, Transfers, Hit, Line
<1>8. /\ line.used = TRUE /\ line.dirty = FALSE /\ line.sector = Target
      /\ line.content = disk[Target] /\ Slot(Target) = t
  OBVIOUS
<1> HIDE DEF t, line
<1>9. /\ cache' \in [Slots -> CacheLines] /\ cache'[t] = line
      /\ \A s \in Slots : s # t => cache'[s] = cache[s]
  BY <1>1, <1>3, <1>4, <1>5
<1>10. IdeTypes' /\ RequestInHand' /\ PassedClean' /\ NoLeakingInterrupt' /\ Transfers'
  BY <1>1, <1>2, <1>6, <1>9
  DEF IdeInv, IdeTypes, RequestInHand, PassedClean, NoLeakingInterrupt, Transfers, thread
<1>11. DirtyUsed' /\ CleanSlotsAgree'
  BY <1>1, <1>8, <1>9 DEF IdeInv, DirtyUsed, CleanSlotsAgree
<1>12. \A o \in Offsets : View(o)' = ideal'[o]
  <2> SUFFICES ASSUME NEW o \in Offsets
               PROVE  View(o)' = ideal[o]
    BY <1>1
  <2> DEFINE s == SectorOf(o)
  <2>1. s \in Sectors /\ Slot(s) \in Slots
    BY SectorType, SlotType
  <2>2. View(o) = ideal[o]
    BY DEF IdeInv, ReadsSeeWrites
  <2> HIDE DEF s
  <2>3. CASE Slot(s) # t
    BY <2>1, <2>2, <2>3, <1>1, <1>9 DEF View, s
  <2>4. CASE Slot(s) = t
    <3>1. View(o)' = disk[s][o % SectorSize]
      BY <2>4, <1>1, <1>8, <1>9 DEF View, s
    <3>2. View(o) = disk[s][o % SectorSize]
      BY <2>4, <1>7 DEF View, s
    <3> QED
      BY <3>1, <3>2, <2>2
  <2> QED
    BY <2>3, <2>4
<1>13. ReadsSeeWrites'
  BY <1>1, <1>12 DEF IdeInv, ReadsSeeWrites, thread
<1> QED
  BY <1>10, <1>11, <1>13 DEF IdeInv

(* The slot is clean once the drive has its content. *)
LEMMA FlushDoneInv ==
  ASSUME IdeInv, FlushDone
  PROVE  IdeInv'
<1>1. /\ pc = "flush" /\ Receive /\ Got.type = "IDE_READY"
      /\ cache' = [cache EXCEPT ![wb].dirty = FALSE] /\ pc' = "writeback" /\ wb' = wb + 1
      /\ UNCHANGED <<disk, command, req, done, data, ideal, halted>>
  BY DEF FlushDone
<1>2. /\ box' \in Seq(Messages) /\ command = NoCommand
      /\ \A j \in 1..Len(box') : box'[j].type # "IDE_READY"
  BY <1>1, ReceiveTakes, ReceiveInterrupts
<1>3. /\ wb \in Slots /\ cache[wb].used /\ cache[wb].content = disk[cache[wb].sector]
  BY <1>1, <1>2 DEF IdeInv, Transfers
<1>4. cache \in [Slots -> CacheLines] /\ NR_SEC_CACHE \in Nat \ {0}
  BY IdeAssumption DEF IdeInv, IdeTypes
<1>5. /\ cache' \in [Slots -> CacheLines]
      /\ \A s \in Slots : /\ cache'[s].used = cache[s].used
                          /\ cache'[s].sector = cache[s].sector
                          /\ cache'[s].content = cache[s].content
                          /\ cache'[s].dirty = IF s = wb THEN FALSE ELSE cache[s].dirty
  BY <1>1, <1>3, <1>4 DEF CacheLines
<1>6. IdeTypes' /\ RequestInHand' /\ NoLeakingInterrupt' /\ Transfers'
  BY <1>1, <1>2, <1>3, <1>4, <1>5
  DEF IdeInv, IdeTypes, RequestInHand, NoLeakingInterrupt, Transfers, Slots
<1>7. PassedClean'
  BY <1>1, <1>3, <1>4, <1>5 DEF IdeInv, PassedClean, Slots
<1>8. DirtyUsed'
  BY <1>5 DEF IdeInv, DirtyUsed
<1>9. CleanSlotsAgree'
  BY <1>1, <1>3, <1>5 DEF IdeInv, CleanSlotsAgree
<1>10. \A o \in Offsets : View(o)' = ideal'[o]
  <2> SUFFICES ASSUME NEW o \in Offsets
               PROVE  View(o)' = View(o)
    BY <1>1 DEF IdeInv, ReadsSeeWrites
  <2>1. Slot(SectorOf(o)) \in Slots
    BY SectorType, SlotType
  <2> QED
    BY <2>1, <1>1, <1>5 DEF View
<1>11. ReadsSeeWrites'
  BY <1>1, <1>10 DEF IdeInv, ReadsSeeWrites
<1> QED
  BY <1>6, <1>7, <1>8, <1>9, <1>11 DEF IdeInv

(* A message of a client or of the clock is not the drive's interrupt. *)
LEMMA DeliverInv ==
  ASSUME IdeInv, NEW m \in Messages, m.type # "IDE_READY", Deliver(m), UNCHANGED command
  PROVE  IdeInv'
<1>1. box' = Append(box, m) /\ UNCHANGED <<cache, disk, command, pc, thread, ideal, halted>>
  BY DEF Deliver
<1>2. DirtyUsed' /\ CleanSlotsAgree' /\ \A o \in Offsets : View(o)' = ideal'[o]
  BY <1>1, ContentsKept
<1>3. ReadsSeeWrites'
  BY <1>1, <1>2 DEF IdeInv, ReadsSeeWrites, thread
<1>4. /\ box' \in Seq(Messages)
      /\ \A j \in 1..Len(box') : box'[j].type = "IDE_READY" => j \in 1..Len(box) /\ box'[j] = box[j]
  <2>1. /\ box' \in Seq(Messages) /\ Len(box) \in Nat /\ Len(box') = Len(box) + 1
        /\ box'[Len(box')] = m
        /\ \A j \in 1..Len(box') : j < Len(box') => j \in 1..Len(box) /\ box'[j] = box[j]
    BY <1>1, Delivered
  <2> QED
    BY <2>1
<1>5. IdeTypes' /\ RequestInHand' /\ PassedClean'
  BY <1>1, <1>4 DEF IdeInv, IdeTypes, RequestInHand, PassedClean, thread
<1>6. Transfers'
  BY <1>1 DEF IdeInv, Transfers, Hit, Line, Target, Offset, thread
<1>7. NoLeakingInterrupt'
  BY <1>1, <1>4 DEF IdeInv, NoLeakingInterrupt
<1> QED
  BY <1>2, <1>3, <1>5, <1>6, <1>7 DEF IdeInv

(* The drive finishes: what it wrote is the content of the one slot that holds
   the sector, and its interrupt is the only one in the box. *)
LEMMA IdeIntrInv ==
  ASSUME IdeInv, IdeIntr
  PROVE  IdeInv'
<1>1. /\ command # NoCommand /\ command' = NoCommand
      /\ box' = Append(box, InterruptMsg("IDE_READY"))
      /\ UNCHANGED <<cache, pc, thread, ideal, halted>>
  BY DEF IdeIntr
<1>2. pc \in {"evict", "fill", "flush"}
  BY <1>1 DEF IdeInv, IdeTypes, Transfers
<1>3. /\ cache \in [Slots -> CacheLines] /\ disk \in [Sectors -> Contents]
  BY DEF IdeInv, IdeTypes
<1>4. InterruptMsg("IDE_READY") \in Messages
  BY DEF Messages
<1>5. /\ box' \in Seq(Messages)
      /\ \A j \in 1..Len(box') : box'[j].type = "IDE_READY" => j = Len(box')
  <2>1. \A k \in 1..Len(box) : box[k].type # "IDE_READY"
    BY <1>1 DEF IdeInv, NoLeakingInterrupt
  <2>2. /\ box' \in Seq(Messages) /\ Len(box) \in Nat /\ Len(box') = Len(box) + 1
        /\ \A j \in 1..Len(box') : j < Len(box') => j \in 1..Len(box) /\ box'[j] = box[j]
    BY <1>1, <1>4, Delivered
  <2> QED
    BY <2>1, <2>2
<1>6. pc = "evict" => Slot(Target) \in Slots
  BY OffsetInHand DEF IdeInv, RequestInHand
<1>7. PICK t \in Slots : \/ command.op # "write" /\ pc = "fill"
                         \/ /\ command = Command("write", cache[t].sector) /\ cache[t].used
                            /\ (pc = "evict" /\ t = Slot(Target)) \/ (pc = "flush" /\ t = wb)
  <2>1. CASE pc = "evict"
    BY <2>1, <1>1, <1>6 DEF IdeInv, Transfers, Line
  <2>2. CASE pc = "fill"
    <3>1. command.op # "write"
      BY <2>2, <1>1 DEF IdeInv, Transfers, Command
    <3>2. 0 \in Slots
      BY IdeAssumption DEF Slots
    <3> QED
      BY <3>1, <3>2, <2>2
  <2>3. CASE pc = "flush"
    BY <2>3, <1>1 DEF IdeInv, Transfers
  <2> QED
    BY <2>1, <2>2, <2>3, <1>2
<1>8. Target' = Target /\ Hit' = Hit /\ Line' = Line
  BY <1>1 DEF Target, Offset, Hit, Line, thread
<1>9. /\ disk' \in [Sectors -> Contents]
      /\ pc = "fill" => disk' = disk
      /\ pc \in {"evict", "flush"} =>
           /\ disk'[cache[t].sector] = cache[t].content
           /\ \A s \in Sectors : s # cache[t].sector => disk'[s] = disk[s]
  <2>1. CASE command.op # "write" /\ pc = "fill"
    BY <2>1, <1>3 DEF IdeIntr
  <2>2. CASE pc # "fill"
    <3>1. command.op = "write" /\ command.sector = cache[t].sector /\ cache[t].used
      BY <2>2, <1>7 DEF Command
    <3>2. Slot(cache[t].sector) = t /\ cache[t].sector \in Sectors /\ cache[t].content \in Contents
      BY <3>1, <1>3 DEF IdeInv, CleanSlotsAgree, CacheLines
    <3>3. disk' = [disk EXCEPT ![cache[t].sector] = cache[t].content]
      BY <3>1, <3>2 DEF IdeIntr
    <3> QED
      BY <3>2, <3>3, <2>2, <1>3
  <2> QED
    BY <2>1, <2>2, <1>7
<1>10. IdeTypes' /\ RequestInHand' /\ PassedClean'
  BY <1>1, <1>5, <1>9 DEF IdeInv, IdeTypes, RequestInHand, PassedClean, thread
<1>11. NoLeakingInterrupt'
  BY <1>1, <1>2, <1>5 DEF IdeInv, NoLeakingInterrupt
<1>12. DirtyUsed'
  BY <1>1 DEF IdeInv, DirtyUsed
<1>13. \A s \in Slots : cache[s].used /\ cache[s].sector \in Sectors =>
         disk'[cache[s].sector] = IF pc # "fill" /\ s = t THEN cache[s].content
                                  ELSE disk[cache[s].sector]
  <2> SUFFICES ASSUME NEW s \in Slots, cache[s].used
               PROVE  disk'[cache[s].sector] = IF pc # "fill" /\ s = t THEN cache[s].content
                                               ELSE disk[cache[s].sector]
    OBVIOUS
  <2>1. cache[s].sector \in Sectors /\ Slot(cache[s].sector) = s
    BY <1>3 DEF IdeInv, CleanSlotsAgree, CacheLines
  <2>2. CASE pc = "fill"
    BY <2>2, <1>9
  <2>3. CASE pc # "fill" /\ s = t
    BY <2>3, <1>2, <1>9
  <2>4. CASE pc # "fill" /\ s # t
    <3>1. Slot(cache[t].sector) = t
      BY <2>4, <1>7 DEF IdeInv, CleanSlotsAgree
    <3>2. cache[s].sector # cache[t].sector
      BY <3>1, <2>1, <2>4
    <3> QED
      BY <3>2, <2>1, <2>4, <1>2, <1>9
  <2> QED
    BY <2>2, <2>3, <2>4
<1>14. CleanSlotsAgree'
  BY <1>1, <1>3, <1>13 DEF IdeInv, CleanSlotsAgree, CacheLines
<1>15. Transfers'
  <2>1. CASE pc = "evict"
    <3>1. ~Hit /\ Line.used /\ t = Slot(Target)
      BY <2>1, <1>7 DEF IdeInv, Transfers
    <3>2. Line.content = disk'[Line.sector]
      BY <3>1, <2>1, <1>9 DEF Line
    <3> QED
      BY <3>1, <3>2, <2>1, <1>1, <1>8 DEF Transfers
  <2>2. CASE pc = "fill"
    <3>1. ~Hit /\ (Line.used => Line.content = disk[Line.sector]) /\ disk' = disk
      BY <2>2, <1>9 DEF IdeInv, Transfers
    <3> QED
      BY <3>1, <2>2, <1>1, <1>8 DEF Transfers
  <2>3. CASE pc = "flush"
    <3>1. t = wb /\ cache[wb].used
      BY <2>3, <1>7
    <3>2. wb \in Slots /\ cache[wb].content = disk'[cache[wb].sector]
      BY <3>1, <2>3, <1>9
    <3> QED
      BY <3>1, <3>2, <2>3, <1>1 DEF Transfers, thread
  <2> QED
    BY <2>1, <2>2, <2>3, <1>2
<1>16. \A o \in Offsets : View(o)' = ideal'[o]
  <2> SUFFICES ASSUME NEW o \in Offsets
               PROVE  View(o)' = View(o)
    BY <1>1 DEF IdeInv, ReadsSeeWrites
  <2> DEFINE s == SectorOf(o)
  <2>1. s \in Sectors
    BY SectorType
  <2> HIDE DEF s
  <2>2. CASE disk'[s] = disk[s]
    BY <2>2, <1>1 DEF View, s
  <2>3. CASE disk'[s] # disk[s]
    <3>1. pc # "fill" /\ s = cache[t].sector
      BY <2>1, <2>3, <1>2, <1>9
    <3>2. cache[t].used /\ Slot(s) = t
      BY <3>1, <1>7 DEF IdeInv, CleanSlotsAgree
    <3> QED
      BY <3>1, <3>2, <1>1 DEF View, s
  <2> QED
    BY <2>2, <2>3
<1>17. ReadsSeeWrites'
  BY <1>1, <1>16 DEF IdeInv, ReadsSeeWrites, thread
<1> QED
  BY <1>10, <1>11, <1>12, <1>14, <1>15, <1>17 DEF IdeInv
-----------------------------------------------------------------------------
(* The driver starts with an empty cache and an idle drive. *)
LEMMA IdeStarts == IInit => IdeInv
<1> SUFFICES ASSUME IInit PROVE IdeInv
  OBVIOUS
<1>1. /\ {NSectors, SectorSize, NR_SEC_CACHE} \subseteq Nat \ {0} /\ 0 \in Bytes
  BY IdeAssumption
<1>2. 0 \in Sectors /\ Blank \in Contents
  BY <1>1 DEF Sectors, Blank, Contents
<1>3. [sector |-> 0, used |-> FALSE, dirty |-> FALSE, content |-> Blank] \in CacheLines
  BY <1>2 DEF CacheLines
<1>4. InterruptMsg("IDE_READY") \in Messages
  BY DEF Messages
<1>5. /\ cache \in [Slots -> CacheLines] /\ disk \in [Sectors -> Contents]
      /\ ideal \in [Offsets -> Bytes]
  BY <1>1, <1>2, <1>3 DEF IInit
<1>6. IdeTypes
  <2>1. req \in Messages /\ pc = "loop"
    BY <1>4 DEF IInit
  <2>2. box = <<>> /\ data = <<>>
    BY DEF IInit
  <2>3. box \in Seq(Messages) /\ data \in Seq(Bytes)
    BY <2>2
  <2>4. wb \in 0..NR_SEC_CACHE /\ done \in Nat
    BY <1>1 DEF IInit
  <2> QED
    BY <2>1, <2>3, <2>4, <1>5 DEF IdeTypes
<1>7. RequestInHand /\ Transfers /\ DirtyUsed /\ PassedClean /\ CleanSlotsAgree
  BY DEF IInit, RequestInHand, Transfers, DirtyUsed, PassedClean, CleanSlotsAgree
<1>8. NoLeakingInterrupt
  BY DEF IInit, NoLeakingInterrupt
<1>9. ReadsSeeWrites
  <2>1. ASSUME NEW o \in Offsets PROVE View(o) = ideal[o]
    <3>1. SectorOf(o) \in Sectors /\ o % SectorSize \in 0..(SectorSize - 1)
      BY SectorType
    <3>2. Slot(SectorOf(o)) \in Slots
      BY <3>1, SlotType
    <3> QED
      BY <3>1, <3>2 DEF IInit, View, Blank
  <2>2. req.type # "DEV_READ"
    BY DEF IInit, InterruptMsg
  <2> QED
    BY <2>1, <2>2 DEF ReadsSeeWrites
<1> QED
  BY <1>6, <1>7, <1>8, <1>9 DEF IdeInv

(* Every step of the thread, of a client, of the clock and of the drive keeps
   the invariant. *)
LEMMA IdeSteps == IdeInv /\ [INext]_ivars => IdeInv'
<1> SUFFICES ASSUME IdeInv, [INext]_ivars PROVE IdeInv'
  OBVIOUS
<1>1. CASE Block
  BY <1>1, BlockInv DEF Block
<1>2. CASE Dispatch
  BY <1>2, DispatchInv
<1>3. CASE ServeByte
  BY <1>3, ReadByteInv, WriteByteInv
<1>4. CASE Miss
  BY <1>4, MissInv
<1>5. CASE Answer
  BY <1>5, AnswerInv
<1>6. CASE Writeback
  BY <1>6, WritebackInv
<1>7. CASE SkipMessage
  BY <1>7, SkipMessageInv
<1>8. CASE EvictDone
  BY <1>8, EvictDoneInv
<1>9. CASE FillDone
  BY <1>9, FillDoneInv
<1>10. CASE FlushDone
  BY <1>10, FlushDoneInv
<1>11. ASSUME NEW m \in Requests, Ask(m) PROVE IdeInv'
  <2>1. m \in Fitting /\ Deliver(m) /\ UNCHANGED command
    BY <1>11 DEF Ask, Fitting, Size
  <2>2. m \in Messages /\ m.type # "IDE_READY"
    BY <2>1, FittingType DEF Messages
  <2> QED
    BY <2>1, <2>2, DeliverInv
<1>12. CASE TimeIntr
  <2> DEFINE m == InterruptMsg("IDE_WRITEBACK")
  <2>1. Deliver(m) /\ UNCHANGED command
    BY <1>12 DEF TimeIntr
  <2>2. m \in Messages /\ m.type # "IDE_READY"
    BY DEF Messages, InterruptMsg
  <2> HIDE DEF m
  <2> QED
    BY <2>1, <2>2, DeliverInv
<1>13. CASE IdeIntr
  BY <1>13, IdeIntrInv
<1>14. CASE UNCHANGED ivars
  BY <1>14, BlockInv DEF ivars
<1> QED
  BY <1>1, <1>2, <1>3, <1>4, <1>5, <1>6, <1>7, <1>8, <1>9, <1>10, <1>11, <1>12, <1>13, <1>14
  DEF INext, Thread

(* The invariant of the disk driver. *)
THEOREM IdeInvariant == ISpec => []IdeInv
BY IdeStarts, IdeSteps, PTL DEF ISpec

(* read_byte() and write_byte(): whatever is cached, evicted, filled or written
   back in between, every offset holds the byte last written, and a request
   collects exactly those. *)
THEOREM NoByteLost == ISpec => []ReadsSeeWrites
<1>1. IdeInv => ReadsSeeWrites
  BY DEF IdeInv
<1> QED
  BY <1>1, IdeInvariant, PTL

(* cache_fetch() may drop a clean slot: it agrees with the disk, and a sector
   has no second slot. *)
THEOREM CleanSlotsDropped == ISpec => []CleanSlotsAgree
<1>1. IdeInv => CleanSlotsAgree
  BY DEF IdeInv
<1> QED
  BY <1>1, IdeInvariant, PTL

(* The panic of ide_driver_thread, "IDE interrupt is leaking", is unreachable. *)
THEOREM NoInterruptLeaks == ISpec => []NoLeakingInterrupt
<1>1. IdeInv => NoLeakingInterrupt
  BY DEF IdeInv
<1> QED
  BY <1>1, IdeInvariant, PTL

(* When cache_writeback() returns to the loop, it has left no slot dirty. *)
THEOREM WritebackComplete == ISpec => WritebackCleans
<1>1. ASSUME IdeInv, [INext]_ivars
      PROVE  [pc = "writeback" /\ pc' = "loop" => \A s \in Slots : ~cache'[s].dirty]_ivars
  <2> SUFFICES ASSUME INext, pc = "writeback", pc' = "loop"
               PROVE  \A s \in Slots : ~cache'[s].dirty
    BY <1>1
  <2>1. Writeback
    BY DEF INext, Thread, Block, Dispatch, ServeByte, Serving, Miss, Answer, SkipMessage,
           EvictDone, FillDone, FlushDone, Ask, TimeIntr, IdeIntr, Deliver, Receive, AtReceive
  <2>2. wb \in 0..NR_SEC_CACHE /\ NR_SEC_CACHE \in Nat \ {0}
    BY <1>1, IdeAssumption DEF IdeInv, IdeTypes
  <2>3. wb = NR_SEC_CACHE /\ cache' = cache
    BY <2>1, <2>2 DEF Writeback, Issue
  <2> QED
    BY <2>2, <2>3, <1>1 DEF IdeInv, PassedClean, Slots
<1> QED
  BY <1>1, IdeInvariant, PTL DEF ISpec, WritebackCleans
=============================================================================
